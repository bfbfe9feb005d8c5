---------------------------- MODULE SyncClientProofs ----------------------------
(* Proofs about SyncClient, for every set of threads and every bound.       *)
EXTENDS SyncClient, Queues, SequenceTheorems

Cb(do, n) == [do |-> do, n |-> n]
Pending == {"queued", "created", "running", "exiting", "cancelling"}
NoStop == \A a \in Elems(ready) : a.do # "stop"

(* TypeOK, with the loop's queue as a set.                                  *)
Typed ==
  /\ closed \in BOOLEAN /\ cut \in BOOLEAN /\ overlap \in BOOLEAN
  /\ loop \in {"none", "running", "ended", "closed"} /\ http \in {"none", "open", "closed"}
  /\ ready \in Seq(Callback) /\ ops \in Seq(Operation) /\ streams \in Seq(Streams)
  /\ pc \in [Threads -> {"new", "failed", "idle", "submit", "wait", "join"}]
  /\ current \in [Threads -> 0..Len(ops)] /\ iterating \in [Threads -> 0..Len(streams)]
  /\ \A t \in Threads : pc[t] \in {"submit", "wait", "join"} <=> current[t] # 0
  /\ \A a \in Elems(ready) : a.do = "stop" \/ a.n \in DOMAIN ops
  /\ left \subseteq DOMAIN streams

(* What an operation is, besides the types of its fields. Only the          *)
(* constructor and close have operations that do not use the client.        *)
Formed ==
  \A n \in DOMAIN ops :
    /\ ops[n].stream \in 0..Len(streams)
    /\ ops[n].stream # 0 <=> ops[n].kind \in {"anext", "aclose"}
    /\ ops[n].st = "exiting" => ops[n].kind = "shutdown"
    /\ ops[n].kind = "start" <=> n = 1
    /\ ops[n].client => ops[n].kind # "start"
    /\ ops[n].kind \notin {"start", "shutdown"} => ops[n].client
    /\ ops[n].dropped => ops[n].st # "new"
    /\ ops[n].st = "cancelling" => ops[n].dropped
    /\ ops[n].dropped /\ ops[n].kind \in {"start", "shutdown"} => cut

(* What the loop's queue says of an operation is where the operation is: a  *)
(* dropped one has a cancellation on its way, behind its first step.        *)
Matched ==
  \A n \in DOMAIN ops :
    /\ ops[n].st = "queued" <=> Cb("start", n) \in Elems(ready)
    /\ ops[n].st = "created" <=> Cb("step", n) \in Elems(ready)
    /\ Cb("cancel", n) \in Elems(ready) => ops[n].dropped /\ ops[n].st # "queued"
    /\ ops[n].dropped /\ ops[n].st \in {"created", "running", "exiting"}
         => Cb("cancel", n) \in Elems(ready)
    /\ Once(ready, Cb("start", n)) /\ Once(ready, Cb("step", n))
    /\ ops[n].st = "created" => Guarded(ready, Cb("step", n), Cb("cancel", n))

(* An operation that comes after another: of the same thread, or the one    *)
(* that closes the client. When the first was dropped, its cancellation     *)
(* comes before the second's first step.                                    *)
Follows(n, k) == n < k /\ (ops[n].by = ops[k].by \/ (ops[k].kind = "shutdown" /\ ~overlap))

Sorted ==
  \A n, k \in DOMAIN ops : Follows(n, k) /\ ops[n].dropped =>
    /\ ops[n].st = "queued" =>
         ops[k].st \in {"new", "queued"} /\ Guarded(ready, Cb("start", n), Cb("start", k))
    /\ ops[n].st \in {"created", "running", "exiting"} =>
         /\ ops[k].st \in {"new", "queued", "created"}
         /\ Guarded(ready, Cb("cancel", n), Cb("step", k))

(* What a thread in an operation knows of it, and who waits for one.        *)
Callers ==
  /\ \A t \in Threads : current[t] # 0 =>
       /\ Op(t).by = t
       /\ \A k \in DOMAIN ops :
            k > current[t] => ops[k].by # t /\ (ops[k].kind = "shutdown" => overlap)
       /\ pc[t] = "submit" => Op(t).st = "new"
       /\ pc[t] = "wait" => Op(t).st # "new" /\ ~Op(t).dropped
       /\ pc[t] = "join" => Op(t).kind = "shutdown" /\ closed
       /\ Op(t).stream # 0 => Op(t).stream = iterating[t]
  /\ \A n \in DOMAIN ops : ops[n].st \in Pending /\ ~ops[n].dropped =>
       current[ops[n].by] = n /\ pc[ops[n].by] = "wait"

(* The constructor: until the client has started, only its own thread is    *)
(* somewhere, and only that thread can stop the loop.                       *)
Built ==
  /\ \A t \in Threads : pc[t] = "idle" =>
       /\ 1 \in DOMAIN ops /\ ops[1].st = "ok"
       /\ \A u \in Threads : pc[u] \notin {"new", "failed"}
  /\ \A n \in DOMAIN ops : ops[n].client =>
       /\ ops[1].st = "ok"
       /\ \A u \in Threads : pc[u] \notin {"new", "failed"}
  /\ \A t \in Threads : current[t] # 0 /\ ~Op(t).client =>
       /\ t = Main /\ iterating[t] = 0
       /\ \A u \in Threads : u # Main => pc[u] = "new"
       /\ \A n \in DOMAIN ops : ~ops[n].client
       /\ pc[t] # "join" => loop = "running" /\ ~closed /\ NoStop
  /\ \A t \in Threads : pc[t] \in {"new", "failed"} => iterating[t] = 0
  /\ pc[Main] = "new" =>
       ops = <<>> /\ loop = "none" /\ ~closed /\ NoStop /\ \A u \in Threads : pc[u] = "new"
  /\ ops = <<>> \/ ops[1].st # "ok" => http = "none"

(* A stream has one operation at a time. One that a thread still iterates   *)
(* over waits at a yield, unless it is in one.                              *)
Streaming ==
  /\ \A n, k \in DOMAIN ops :
       n < k /\ ops[n].stream # 0 /\ ops[n].stream = ops[k].stream => ops[n].st \in Done
  /\ \A n \in DOMAIN ops :
       /\ ops[n].kind = "anext" /\ ops[n].st \in {"running", "cancelling"}
            => streams[ops[n].stream] = "running"
       /\ ops[n].kind = "aclose" /\ ops[n].st \in Done => streams[ops[n].stream] = "ended"
  /\ \A t \in Threads : iterating[t] # 0 =>
       /\ \A u \in Threads : iterating[u] = iterating[t] => u = t
       /\ \A n \in DOMAIN ops :
            ops[n].stream = iterating[t] /\ n # current[t] => ops[n].st \in Done
       /\ \/ streams[iterating[t]] \in {"suspended", "ended"}
          \/ current[t] # 0 /\ Op(t).stream = iterating[t] /\ Op(t).st # "ok"

(* The client is closed once, by one thread, when nothing else runs.        *)
Quiet ==
  /\ ~closed => loop \in {"none", "running"} /\ NoStop
  /\ closed =>
       /\ \E k \in DOMAIN ops : ops[k].kind = "shutdown" /\ ops[k].st = "ok"
       /\ loop = "closed" \/ \E t \in Threads : pc[t] = "join"
       /\ \A t \in Threads : current[t] = 0 \/ pc[t] = "join"
  /\ \A t \in Threads : Closing(t) =>
       \A u \in Threads : u # t => current[u] = 0 /\ iterating[u] = 0
  /\ \A k \in DOMAIN ops : ops[k].kind = "shutdown" =>
       /\ k = Len(ops)
       /\ ~closed => current[ops[k].by] = k
       /\ ops[k].st # "error"
       /\ ops[k].client \/ ops[1].st = "error"
       /\ ops[k].st \in {"running", "exiting", "ok"} =>
            \A n \in DOMAIN ops : n = k \/ ops[n].st \in Done \cup {"cancelling", "new"}
       /\ ops[k].st \in {"exiting", "ok"} =>
            /\ \A g \in DOMAIN streams : streams[g] # "suspended"
            /\ \A t \in Threads : iterating[t] # 0 => streams[iterating[t]] = "ended"
       /\ ops[k].st = "ok" => http # "open"
  /\ \A g \in left : streams[g] = "ended"

IInv ==
  /\ Typed /\ Formed /\ Matched /\ Sorted /\ Callers /\ Built /\ Streaming
  /\ cut \/ overlap \/ Quiet

--------------------------------------------------------------------------------
(* Callbacks, operations and streams.                                       *)

(* A callback is determined by what it does and the operation it names.     *)
LEMMA CbFacts ==
  ASSUME NEW d \in {"start", "step", "cancel", "stop"}, NEW n \in Nat
  PROVE  /\ Cb(d, n) \in Callback /\ Cb(d, n).do = d /\ Cb(d, n).n = n
         /\ Soon(d, n) = <<Cb(d, n)>>
         /\ \A e, k : Cb(d, n) = Cb(e, k) => d = e /\ n = k
<1>1. /\ Cb(d, n) \in Callback /\ Cb(d, n).do = d /\ Cb(d, n).n = n
      /\ Soon(d, n) = <<Cb(d, n)>>
  BY DEF Cb, Callback, Soon
<1>2. \A e, k : Cb(e, k).do = e /\ Cb(e, k).n = k
  BY DEF Cb
<1> QED BY <1>1, <1>2

(* What the types say of an operation, a stream and a thread.               *)
LEMMA Shape ==
  ASSUME Typed
  PROVE  /\ Len(ops) \in Nat /\ DOMAIN ops = 1..Len(ops)
         /\ Len(streams) \in Nat /\ DOMAIN streams = 1..Len(streams)
         /\ \A n \in DOMAIN ops :
              /\ ops[n] \in Operation /\ ops[n].by \in Threads /\ ops[n].dropped \in BOOLEAN
              /\ ops[n].st \in {"new"} \cup Pending \cup Done /\ n \in Nat
              /\ ops[n].kind \in {"start", "call", "anext", "aclose", "shutdown"}
              /\ ops[n].stream \in Nat /\ ops[n].client \in BOOLEAN
         /\ \A g \in DOMAIN streams : streams[g] \in Streams
         /\ \A t \in Threads : /\ current[t] # 0 => current[t] \in DOMAIN ops
                               /\ iterating[t] # 0 => iterating[t] \in DOMAIN streams
<1>1. /\ Len(ops) \in Nat /\ DOMAIN ops = 1..Len(ops)
      /\ Len(streams) \in Nat /\ DOMAIN streams = 1..Len(streams)
      /\ \A n \in DOMAIN ops : ops[n] \in Operation /\ n \in Nat
      /\ \A g \in DOMAIN streams : streams[g] \in Streams
  BY DEF Typed
<1>2. \A o \in Operation :
        /\ o.by \in Threads /\ o.dropped \in BOOLEAN /\ o.client \in BOOLEAN
        /\ o.st \in {"new"} \cup Pending \cup Done
        /\ o.kind \in {"start", "call", "anext", "aclose", "shutdown"} /\ o.stream \in Nat
  BY DEF Operation, Pending, Done
<1>3. \A t \in Threads : /\ current[t] # 0 => current[t] \in 1..Len(ops)
                         /\ iterating[t] # 0 => iterating[t] \in 1..Len(streams)
  <2>1. \A t \in Threads : current[t] \in 0..Len(ops) /\ iterating[t] \in 0..Len(streams)
    BY DEF Typed
  <2>2. \A m \in Nat : \A k \in 0..m : k # 0 => k \in 1..m
    OBVIOUS
  <2> QED BY <1>1, <2>1, <2>2
<1> QED BY <1>1, <1>2, <1>3

(* A change of one operation's state.                                       *)
Same(k) ==
  /\ ops'[k].kind = ops[k].kind /\ ops'[k].stream = ops[k].stream
  /\ ops'[k].by = ops[k].by /\ ops'[k].client = ops[k].client

Moves(n, s) ==
  /\ ops' \in Seq(Operation) /\ Len(ops') = Len(ops) /\ DOMAIN ops' = DOMAIN ops
  /\ \A k \in DOMAIN ops :
       /\ Same(k) /\ ops'[k].dropped = ops[k].dropped
       /\ ops'[k].st = IF k = n THEN s ELSE ops[k].st

(* An assignment to an operation's state is a move.                         *)
LEMMA MovesOp ==
  ASSUME Typed, NEW n \in DOMAIN ops, NEW s \in {"new"} \cup Pending \cup Done,
         ops' = [ops EXCEPT ![n].st = s]
  PROVE  Moves(n, s)
<1> DEFINE o == [ops[n] EXCEPT !.st = s]
<1>1. ops[n] \in Operation /\ n \in 1..Len(ops) /\ DOMAIN ops = 1..Len(ops)
  BY Shape
<1>2. /\ o \in Operation /\ o.st = s /\ o.kind = ops[n].kind /\ o.stream = ops[n].stream
      /\ o.by = ops[n].by /\ o.client = ops[n].client /\ o.dropped = ops[n].dropped
  BY <1>1 DEF Operation, Pending, Done
<1>3. ops' = [ops EXCEPT ![n] = o]
  OBVIOUS
<1> HIDE DEF o
<1>4. ops \in Seq(Operation)  BY DEF Typed
<1>5. /\ ops' \in Seq(Operation) /\ Len(ops') = Len(ops)
      /\ \A j \in 1..Len(ops) : ops'[j] = IF j = n THEN o ELSE ops[j]
  BY <1>1, <1>2, <1>3, <1>4, ExceptSeq
<1>6. DOMAIN ops' = 1..Len(ops')  BY <1>5
<1> QED BY <1>1, <1>2, <1>5, <1>6 DEF Moves, Same

(* The loop's next callback.                                                *)
LEMMA HeadOfLoop ==
  ASSUME Typed, ready # <<>>
  PROVE  LET h == Head(ready)
         IN /\ h \in Callback /\ h = Cb(h.do, h.n) /\ Tail(ready) \in Seq(Callback)
            /\ h.n \in Nat /\ (h.do = "stop" \/ h.n \in DOMAIN ops)
            /\ Loses(ready, Tail(ready), h)
<1>1. /\ Head(ready) \in Callback /\ Tail(ready) \in Seq(Callback)
      /\ Loses(ready, Tail(ready), Head(ready))
  BY TailLoses DEF Typed
<1>2. \A a \in Callback : a = Cb(a.do, a.n) /\ a.n \in Nat
  BY DEF Cb, Callback
<1>3. Head(ready) \in Elems(ready)
  BY <1>1 DEF Loses
<1> QED BY <1>1, <1>2, <1>3 DEF Typed

(* call_soon_threadsafe puts a callback behind the loop's others.           *)
LEMMA PutCallback ==
  ASSUME NEW q \in Seq(Callback), NEW d \in {"start", "step", "cancel", "stop"}, NEW n \in Nat
  PROVE  /\ q \o Soon(d, n) \in Seq(Callback) /\ q \o <<>> = q
         /\ Gains(q, q \o Soon(d, n), Cb(d, n))
<1>1. Cb(d, n) \in Callback /\ Soon(d, n) = <<Cb(d, n)>>
  BY CbFacts
<1>2. q \o Soon(d, n) = Append(q, Cb(d, n)) /\ q \o <<>> = q
  BY <1>1, BehindIsAppend
<1>3. Append(q, Cb(d, n)) \in Seq(Callback) /\ Gains(q, Append(q, Cb(d, n)), Cb(d, n))
  BY <1>1, AppendGains
<1> QED BY <1>2, <1>3

--------------------------------------------------------------------------------
(* Moves of an operation.                                                   *)
Elsewhere == UNCHANGED <<closed, callers, bounds, history>>

(* Callbacks of different operations, or that do different things, differ.  *)
LEMMA Apart ==
  ASSUME Typed
  PROVE  /\ \A d \in {"start", "step", "cancel", "stop"} : \A k \in Nat :
              \A e, m : Cb(d, k) = Cb(e, m) => d = e /\ k = m
         /\ \A k \in DOMAIN ops : k \in Nat /\ k # 0
BY CbFacts, Shape

(* The callbacks of one operation.                                          *)
Place(q, n, s, dropped) ==
  /\ s = "queued" <=> Cb("start", n) \in Elems(q)
  /\ s = "created" <=> Cb("step", n) \in Elems(q)
  /\ Cb("cancel", n) \in Elems(q) => dropped /\ s # "queued"
  /\ dropped /\ s \in {"created", "running", "exiting"} => Cb("cancel", n) \in Elems(q)
  /\ Once(q, Cb("start", n)) /\ Once(q, Cb("step", n))
  /\ s = "created" => Guarded(q, Cb("step", n), Cb("cancel", n))

(* Matched says of each operation where its callbacks are.                  *)
LEMMA MatchedIsPlace ==
  Matched <=> \A n \in DOMAIN ops : Place(ready, n, ops[n].st, ops[n].dropped)
BY DEF Matched, Place

(* A move of an operation on the loop leaves the threads where they were.   *)
LEMMA CallersMoves ==
  ASSUME Typed, Callers, NEW n \in DOMAIN ops, NEW s, Moves(n, s), s # "new", ops[n].st # "new",
         s \in Pending => ops[n].st \in Pending,
         UNCHANGED <<closed, overlap, pc, current, iterating>>
  PROVE  Callers'
<1>1. \A k \in DOMAIN ops :
        /\ ops'[k].kind = ops[k].kind /\ ops'[k].stream = ops[k].stream
        /\ ops'[k].by = ops[k].by /\ ops'[k].dropped = ops[k].dropped
        /\ ops'[k].st = "new" <=> ops[k].st = "new"
        /\ ops'[k].st \in Pending => ops[k].st \in Pending
  BY DEF Moves, Same
<1>2. DOMAIN ops' = DOMAIN ops  BY DEF Moves
<1>3. \A t \in Threads : current[t] # 0 => current[t] \in DOMAIN ops
  BY Shape
<1> QED BY <1>1, <1>2, <1>3 DEF Callers, Op

(* Nor does it change which threads have a client.                          *)
LEMMA BuiltMoves ==
  ASSUME Typed, Built, NEW n \in DOMAIN ops, NEW s, Moves(n, s), ops[n].st # "ok",
         UNCHANGED <<closed, loop, pc, current, iterating>>, NoStop => NoStop',
         http' = http \/ ops'[1].st = "ok"
  PROVE  Built'
<1>1. \A k \in DOMAIN ops :
        ops'[k].client = ops[k].client /\ (ops[k].st = "ok" => ops'[k].st = "ok")
  BY DEF Moves, Same
<1>2. DOMAIN ops' = DOMAIN ops /\ (ops' = <<>> <=> ops = <<>>) /\ (ops # <<>> => 1 \in DOMAIN ops)
  BY Shape DEF Moves, Typed
<1>3. \A t \in Threads : current[t] # 0 => current[t] \in DOMAIN ops
  BY Shape
<1> QED BY <1>1, <1>2, <1>3 DEF Built, Op

(* An operation moves, and with it only its own stream.                     *)
LEMMA StreamingMoves ==
  ASSUME Typed, Formed, Streaming, NEW n \in DOMAIN ops, NEW s, NEW g, Moves(n, s),
         g = ops[n].stream, ops[n].st \notin Done,
         DOMAIN streams' = DOMAIN streams, UNCHANGED <<current, iterating>>,
         \A h \in DOMAIN streams : h # g => streams'[h] = streams[h],
         ops[n].kind = "anext" /\ s \in {"running", "cancelling"} => streams'[g] = "running",
         ops[n].kind = "aclose" /\ s \in Done => streams'[g] = "ended",
         g # 0 /\ streams[g] = "ended" => streams'[g] = "ended",
         g # 0 /\ s = "ok" => streams'[g] \in {"suspended", "ended"}
  PROVE  Streaming'
<1>1. ASSUME NEW m \in DOMAIN ops, m # n, ops[m].stream = g, g # 0
      PROVE  ops[m].st \in Done \/ n < m
  BY <1>1, Shape DEF Streaming
<1>2. ASSUME NEW m \in DOMAIN ops, n < m, ops[m].stream = g, g # 0
      PROVE  FALSE
  BY <1>2 DEF Streaming, Done
<1>3. \A m \in DOMAIN ops : m # n /\ ops[m].stream = g /\ g # 0 => ops[m].st \in Done
  BY <1>1, <1>2
<1>4. ASSUME NEW m \in DOMAIN ops, NEW k \in DOMAIN ops,
             m < k, ops[m].stream # 0, ops[m].stream = ops[k].stream
      PROVE  ops'[m].st \in Done
  BY <1>4 DEF Streaming, Moves, Done
<1>5. ASSUME NEW m \in DOMAIN ops
      PROVE  /\ ops[m].kind = "anext" /\ ops'[m].st \in {"running", "cancelling"}
                  => streams'[ops[m].stream] = "running"
             /\ ops[m].kind = "aclose" /\ ops'[m].st \in Done
                  => streams'[ops[m].stream] = "ended"
  <2>1. CASE m = n
    BY <2>1 DEF Moves, Done
  <2>2. CASE m # n
    <3>1. ops'[m].st = ops[m].st  BY <2>2 DEF Moves
    <3>2. ops[m].kind \in {"anext", "aclose"} =>
            ops[m].stream # 0 /\ ops[m].stream \in DOMAIN streams
      BY Shape DEF Formed
    <3> QED BY <1>3, <2>2, <3>1, <3>2 DEF Streaming, Done
  <2> QED BY <2>1, <2>2
<1>6. ASSUME NEW t \in Threads, iterating[t] # 0
      PROVE  /\ \A u \in Threads : iterating[u] = iterating[t] => u = t
             /\ \A m \in DOMAIN ops :
                  ops[m].stream = iterating[t] /\ m # current[t] => ops'[m].st \in Done
             /\ \/ streams'[iterating[t]] \in {"suspended", "ended"}
                \/ current[t] # 0 /\ ops'[current[t]].stream = iterating[t]
                   /\ ops'[current[t]].st # "ok"
  <2>0. /\ iterating[t] \in DOMAIN streams
        /\ current[t] # 0 => current[t] \in DOMAIN ops
    BY <1>6, Shape
  <2>1. \A m \in DOMAIN ops :
          ops[m].stream = iterating[t] /\ m # current[t] => ops[m].st \in Done /\ m # n
    BY <1>6 DEF Streaming, Done
  <2>2. \A u \in Threads : iterating[u] = iterating[t] => u = t
    BY <1>6 DEF Streaming
  <2>3. \/ streams[iterating[t]] \in {"suspended", "ended"}
        \/ current[t] # 0 /\ ops[current[t]].stream = iterating[t]
           /\ ops[current[t]].st # "ok"
    BY <1>6 DEF Streaming, Op
  <2>4. CASE g = iterating[t]
    <3>1. n = current[t]  BY <2>1, <2>4
    <3>2. n # 0  BY Shape
    <3> QED BY <1>6, <2>1, <2>2, <2>4, <3>1, <3>2 DEF Moves, Same
  <2>5. CASE g # iterating[t]
    <3>1. streams'[iterating[t]] = streams[iterating[t]]
      BY <2>0, <2>5
    <3>2. current[t] # n \/ ops[current[t]].stream # iterating[t]
      BY <2>5
    <3> QED BY <2>0, <2>1, <2>2, <2>3, <3>1, <3>2 DEF Moves, Same
  <2> QED BY <2>4, <2>5
<1>7. /\ DOMAIN ops' = DOMAIN ops /\ UNCHANGED <<iterating, current>>
      /\ \A m \in DOMAIN ops : ops'[m].stream = ops[m].stream /\ ops'[m].kind = ops[m].kind
  BY DEF Moves, Same
<1>8. (\A m, k \in DOMAIN ops :
         m < k /\ ops[m].stream # 0 /\ ops[m].stream = ops[k].stream => ops[m].st \in Done)'
  BY <1>4, <1>7
<1>9. (\A m \in DOMAIN ops :
         /\ ops[m].kind = "anext" /\ ops[m].st \in {"running", "cancelling"}
              => streams[ops[m].stream] = "running"
         /\ ops[m].kind = "aclose" /\ ops[m].st \in Done
              => streams[ops[m].stream] = "ended")'
  BY <1>5, <1>7
<1> QED BY <1>6, <1>7, <1>8, <1>9 DEF Streaming, Op

(* An operation that runs goes on or ends, or its cancellation arrives.     *)
LEMMA QueueMoves ==
  ASSUME Typed, Matched, Sorted, NEW n \in DOMAIN ops, NEW s, Moves(n, s),
         ops[n].st \notin {"new", "queued", "created"},
         \/ s \in Done \cup {"cancelling"}
         \/ s = "exiting" /\ ops[n].st = "running" /\ ready' = ready,
         ready' = ready \/ Loses(ready, ready', Cb("cancel", n)), UNCHANGED overlap
  PROVE  Matched' /\ Sorted'
<1>1. \A k \in DOMAIN ops : ops'[k].dropped = ops[k].dropped /\ ops'[k].by = ops[k].by
                            /\ ops'[k].kind = ops[k].kind
                            /\ ops'[k].st = IF k = n THEN s ELSE ops[k].st
  BY DEF Moves, Same
<1>2. DOMAIN ops' = DOMAIN ops  BY DEF Moves
<1>3. ASSUME NEW k \in DOMAIN ops  PROVE Place(ready', k, ops'[k].st, ops'[k].dropped)
  <2>1. Place(ready, k, ops[k].st, ops[k].dropped)
    BY MatchedIsPlace
  <2>2. n \in Nat /\ k \in Nat  BY Apart
  <2>3. CASE ready' = ready
    BY <1>1, <2>1, <2>3 DEF Place, Done
  <2>4. CASE s \in Done \cup {"cancelling"} /\ Loses(ready, ready', Cb("cancel", n))
    <3>1. CASE k # n
      <4>1. Place(ready', k, ops[k].st, ops[k].dropped)
        BY <2>1, <2>2, <2>4, <3>1, Apart DEF Place, Loses
      <4> QED BY <1>1, <3>1, <4>1
    <3>2. CASE k = n
      <4>1. Place(ready', n, s, ops[n].dropped)
        BY <2>1, <2>2, <2>4, <3>2, Apart DEF Place, Loses, Done
      <4> QED BY <1>1, <3>2, <4>1
    <3> QED BY <3>1, <3>2
  <2> QED BY <2>3, <2>4
<1>4. Matched'
  BY <1>2, <1>3 DEF Matched, Place
<1>5. ASSUME NEW m \in DOMAIN ops, NEW k \in DOMAIN ops, Follows(m, k)', ops'[m].dropped
      PROVE  /\ ops'[m].st = "queued" =>
                  /\ ops'[k].st \in {"new", "queued"}
                  /\ Guarded(ready', Cb("start", m), Cb("start", k))
             /\ ops'[m].st \in {"created", "running", "exiting"} =>
                  /\ ops'[k].st \in {"new", "queued", "created"}
                  /\ Guarded(ready', Cb("cancel", m), Cb("step", k))
  <2>1. Follows(m, k) /\ ops[m].dropped /\ m \in Nat /\ n \in Nat
    BY <1>1, <1>5, Apart DEF Follows
  <2>2. ASSUME ops'[m].st = "queued"
        PROVE  /\ ops'[k].st \in {"new", "queued"}
               /\ Guarded(ready', Cb("start", m), Cb("start", k))
    <3>1. ops[m].st = "queued"  BY <1>1, <2>2 DEF Done
    <3>2. ops[k].st \in {"new", "queued"} /\ Guarded(ready, Cb("start", m), Cb("start", k))
      BY <2>1, <3>1 DEF Sorted
    <3>3. Guarded(ready', Cb("start", m), Cb("start", k))
      BY <2>1, <3>2, Apart DEF Loses
    <3> QED BY <1>1, <3>2, <3>3
  <2>3. ASSUME ops'[m].st \in {"created", "running", "exiting"}
        PROVE  /\ ops'[k].st \in {"new", "queued", "created"}
               /\ Guarded(ready', Cb("cancel", m), Cb("step", k))
    <3>1. ops[m].st \in {"created", "running", "exiting"} /\ (m # n \/ ready' = ready)
      BY <1>1, <2>3 DEF Done
    <3>2. /\ ops[k].st \in {"new", "queued", "created"}
          /\ Guarded(ready, Cb("cancel", m), Cb("step", k))
      BY <2>1, <3>1 DEF Sorted
    <3>3. Guarded(ready', Cb("cancel", m), Cb("step", k))
      BY <2>1, <3>1, <3>2, Apart DEF Loses
    <3> QED BY <1>1, <3>2, <3>3
  <2> QED BY <2>2, <2>3
<1> QED BY <1>2, <1>4, <1>5 DEF Sorted

(* A quiet client stays quiet when another operation ends.                  *)
LEMMA QuietMoves ==
  ASSUME Typed, Quiet, NEW n \in DOMAIN ops, NEW s, Moves(n, s),
         s \in Done \cup {"cancelling"}, ops[n].st \notin Done, ops[n].kind # "shutdown",
         DOMAIN streams' = DOMAIN streams,
         \A h \in DOMAIN streams : streams[h] = "ended" => streams'[h] = "ended",
         \A h \in DOMAIN streams :
           streams'[h] = "suspended" => streams[h] = "suspended" \/ ops[n].st = "running",
         http' = "open" => http = "open" \/ ops[n].st = "running",
         UNCHANGED <<closed, loop, pc, current, iterating, left>>, NoStop => NoStop'
  PROVE  Quiet'
<1>1. /\ DOMAIN ops' = DOMAIN ops /\ Len(ops') = Len(ops)
      /\ \A k \in DOMAIN ops : /\ ops'[k].kind = ops[k].kind /\ ops'[k].by = ops[k].by
                               /\ ops'[k].st = IF k = n THEN s ELSE ops[k].st
  BY DEF Moves, Same
<1>2. \A t \in Threads : Closing(t)' => Closing(t)
  BY <1>1, Shape DEF Closing, Op
<1>3. ASSUME NEW k \in DOMAIN ops, ops[k].kind = "shutdown"
      PROVE  /\ k = Len(ops') /\ (~closed => current[ops[k].by] = k) /\ ops'[k].st # "error"
             /\ ops'[k].st = ops[k].st /\ k # n /\ (ops'[k].client \/ ops'[1].st = "error")
             /\ ops'[k].st \in {"running", "exiting", "ok"} =>
                  \A m \in DOMAIN ops : m = k \/ ops'[m].st \in Done \cup {"cancelling", "new"}
             /\ ops'[k].st \in {"exiting", "ok"} =>
                  /\ \A h \in DOMAIN streams : streams'[h] # "suspended"
                  /\ \A t \in Threads : iterating[t] # 0 => streams'[iterating[t]] = "ended"
             /\ ops'[k].st = "ok" => http' # "open"
  <2>0. ops'[k].client \/ ops'[1].st = "error"
    <3>1. ops[k].client \/ ops[1].st = "error"  BY <1>3 DEF Quiet
    <3>2. 1 \in DOMAIN ops  BY Shape
    <3> QED BY <1>1, <3>1, <3>2 DEF Moves, Same, Done
  <2>1. k # n /\ ops'[k].st = ops[k].st /\ k = Len(ops) /\ (~closed => current[ops[k].by] = k)
        /\ ops[k].st # "error"
    BY <1>1, <1>3 DEF Quiet
  <2>2. ops[k].st \in {"running", "exiting", "ok"} =>
          \A m \in DOMAIN ops : m = k \/ ops[m].st \in Done \cup {"cancelling", "new"}
    BY <1>3 DEF Quiet
  <2>3. ops[k].st \in {"running", "exiting", "ok"} => ops[n].st # "running"
    BY <2>1, <2>2 DEF Done
  <2>4. ops[k].st \in {"exiting", "ok"} =>
          /\ \A h \in DOMAIN streams : streams[h] # "suspended"
          /\ \A t \in Threads : iterating[t] # 0 => streams[iterating[t]] = "ended"
    BY <1>3 DEF Quiet
  <2>5. ops[k].st = "ok" => http # "open"
    BY <1>3 DEF Quiet
  <2>6. \A t \in Threads : iterating[t] # 0 => iterating[t] \in DOMAIN streams
    BY Shape
  <2> QED BY <1>1, <2>0, <2>1, <2>2, <2>3, <2>4, <2>5, <2>6
<1>4. \A g \in left : streams'[g] = "ended"
  BY DEF Quiet, Typed
<1> QED BY <1>1, <1>2, <1>3, <1>4 DEF Quiet
--------------------------------------------------------------------------------
(* Steps of the loop: the threads are where they were.                      *)

(* The task is created: its first step is next, then its cancellation.      *)
LEMMA RunStartStep ==
  ASSUME IInv, NEW n \in DOMAIN ops, ready # <<>>, Head(ready) = Cb("start", n),
         ready' = Tail(ready) \o Soon("step", n)
                  \o IF ops[n].dropped THEN Soon("cancel", n) ELSE <<>>,
         ops' = [ops EXCEPT ![n].st = "created"],
         UNCHANGED <<loop, streams, http>>, Elsewhere
  PROVE  IInv'
<1> USE DEF Elsewhere, callers, bounds, history
<1>0. Typed /\ n \in Nat  BY Shape DEF IInv
<1> DEFINE r == Tail(ready)
           s == r \o Soon("step", n)
<1>1. r \in Seq(Callback) /\ Loses(ready, r, Cb("start", n))
  BY <1>0, HeadOfLoop
<1>2. s \in Seq(Callback) /\ Gains(r, s, Cb("step", n))
  BY <1>0, <1>1, PutCallback
<1>3. /\ ready' \in Seq(Callback)
      /\ ops[n].dropped => Gains(s, ready', Cb("cancel", n))
      /\ ~ops[n].dropped => ready' = s
  <2>1. CASE ops[n].dropped
    <3>1. ready' = s \o Soon("cancel", n)  BY <2>1
    <3> HIDE DEF s
    <3> QED BY <1>0, <1>2, <2>1, <3>1, PutCallback
  <2>2. CASE ~ops[n].dropped
    <3>1. ready' = s \o <<>>  BY <2>2
    <3> HIDE DEF s
    <3> QED BY <1>0, <1>2, <2>2, <3>1, PutCallback
  <2> QED BY <2>1, <2>2
<1> HIDE DEF r, s
<1>4. Moves(n, "created")
  BY <1>0, MovesOp DEF Pending
<1>5. ops[n].st = "queued" /\ ops[n].dropped \in BOOLEAN
  BY <1>0, <1>1, Shape DEF IInv, Matched, Loses
<1>6. /\ \A d \in {"start", "step", "cancel", "stop"} : \A k \in Nat :
           \A e, m : Cb(d, k) = Cb(e, m) => d = e /\ k = m
      /\ \A k \in DOMAIN ops : k \in Nat
  BY <1>0, CbFacts, Shape
<1>7. Typed'
  <2>1. \A a \in Elems(ready') :
          a \in Elems(ready) \/ a = Cb("step", n) \/ a = Cb("cancel", n)
    BY <1>1, <1>2, <1>3 DEF Loses, Gains
  <2>2. Cb("step", n).n = n /\ Cb("cancel", n).n = n
    BY <1>0, CbFacts
  <2> QED BY <1>0, <1>3, <1>4, <2>1, <2>2 DEF Typed, Moves
<1>8. Formed'
  BY <1>4, <1>5 DEF IInv, Formed, Moves, Same
<1>9. Matched'
  <2>1. ASSUME NEW k \in DOMAIN ops, k # n
        PROVE  Place(ready', k, ops[k].st, ops[k].dropped)
    <3>1. Place(r, k, ops[k].st, ops[k].dropped)
      BY <1>1, <1>6, <2>1 DEF IInv, Matched, Place, Loses
    <3>2. Place(s, k, ops[k].st, ops[k].dropped)
      BY <1>2, <1>6, <2>1, <3>1 DEF Place, Gains
    <3>3. CASE ~ops[n].dropped  BY <1>3, <3>2, <3>3
    <3>4. CASE ops[n].dropped
      BY <1>3, <1>6, <2>1, <3>2, <3>4 DEF Place, Gains
    <3> QED BY <3>3, <3>4
  <2>2. Place(ready', n, "created", ops[n].dropped)
    <3>1. /\ Cb("start", n) \notin Elems(r) /\ Once(r, Cb("start", n))
          /\ Cb("step", n) \notin Elems(r) /\ Once(r, Cb("step", n))
          /\ Cb("cancel", n) \notin Elems(r)
      BY <1>1, <1>5, <1>6 DEF IInv, Matched, Loses
    <3>2. Guarded(r, Cb("step", n), Cb("cancel", n))
      BY <3>1, NothingToGuard
    <3>3. /\ Cb("start", n) \notin Elems(s) /\ Once(s, Cb("start", n))
          /\ Cb("step", n) \in Elems(s) /\ Once(s, Cb("step", n))
          /\ Cb("cancel", n) \notin Elems(s) /\ Guarded(s, Cb("step", n), Cb("cancel", n))
      BY <1>2, <1>6, <3>1, <3>2 DEF Gains
    <3>4. CASE ~ops[n].dropped  BY <1>3, <3>3, <3>4 DEF Place
    <3>5. CASE ops[n].dropped
      BY <1>3, <1>6, <3>3, <3>5 DEF Gains, Place
    <3> QED BY <3>4, <3>5
  <2>3. \A k \in DOMAIN ops : ops'[k].dropped = ops[k].dropped /\
          ops'[k].st = IF k = n THEN "created" ELSE ops[k].st
    BY <1>4 DEF Moves
  <2>4. \A k \in DOMAIN ops : Place(ready', k, ops'[k].st, ops'[k].dropped)
    BY <2>1, <2>2, <2>3
  <2> QED BY <1>4, <2>4 DEF Matched, Place, Moves
<1>10. Sorted'
  <2> SUFFICES ASSUME NEW m \in DOMAIN ops, NEW k \in DOMAIN ops, Follows(m, k)', ops'[m].dropped
               PROVE  /\ ops'[m].st = "queued" =>
                           /\ ops'[k].st \in {"new", "queued"}
                           /\ Guarded(ready', Cb("start", m), Cb("start", k))
                      /\ ops'[m].st \in {"created", "running", "exiting"} =>
                           /\ ops'[k].st \in {"new", "queued", "created"}
                           /\ Guarded(ready', Cb("cancel", m), Cb("step", k))
    BY <1>4 DEF Sorted, Moves
  <2>1. Follows(m, k) /\ ops[m].dropped /\ m # k
    BY <1>4, <1>6 DEF Follows, Moves, Same
  <2>2. ASSUME ops'[m].st = "queued"
        PROVE  /\ ops'[k].st \in {"new", "queued"}
               /\ Guarded(ready', Cb("start", m), Cb("start", k))
    <3>1. m # n /\ ops[m].st = "queued"  BY <1>4, <2>2 DEF Moves
    <3>2. ops[k].st \in {"new", "queued"} /\ Guarded(ready, Cb("start", m), Cb("start", k))
      BY <2>1, <3>1 DEF IInv, Sorted
    <3>3. k # n /\ Guarded(r, Cb("start", m), Cb("start", k))
      BY <1>1, <1>6, <3>1, <3>2 DEF Loses
    <3>4. Guarded(s, Cb("start", m), Cb("start", k))
      BY <1>2, <1>6, <3>3 DEF Gains
    <3>5. Cb("start", k) # Cb("cancel", n)  BY <1>6
    <3>6. Guarded(ready', Cb("start", m), Cb("start", k))
      <4>1. CASE ~ops[n].dropped  BY <1>3, <3>4, <4>1
      <4>2. CASE ops[n].dropped  BY <1>3, <3>4, <3>5, <4>2 DEF Gains
      <4> QED BY <4>1, <4>2
    <3> QED BY <1>4, <3>2, <3>3, <3>6 DEF Moves
  <2>3. ASSUME ops'[m].st \in {"created", "running", "exiting"}, m # n
        PROVE  /\ ops'[k].st \in {"new", "queued", "created"}
               /\ Guarded(ready', Cb("cancel", m), Cb("step", k))
    <3>1. ops[m].st \in {"created", "running", "exiting"}  BY <1>4, <2>3 DEF Moves
    <3>2. /\ ops[k].st \in {"new", "queued", "created"}
          /\ Guarded(ready, Cb("cancel", m), Cb("step", k))
          /\ Cb("cancel", m) \in Elems(ready)
      BY <2>1, <3>1 DEF IInv, Sorted, Matched
    <3>3. Guarded(r, Cb("cancel", m), Cb("step", k)) /\ Cb("cancel", m) \in Elems(r)
      BY <1>1, <1>6, <3>2 DEF Loses
    <3>4. Guarded(s, Cb("cancel", m), Cb("step", k)) /\ Cb("cancel", m) \in Elems(s)
      BY <1>2, <1>6, <3>3 DEF Gains
    <3> QED BY <1>3, <1>4, <1>6, <3>2, <3>4 DEF Gains, Moves
  <2>4. ASSUME m = n
        PROVE  /\ ops'[k].st \in {"new", "queued", "created"}
               /\ Guarded(ready', Cb("cancel", m), Cb("step", k))
    <3>1. ops[k].st \in {"new", "queued"}
      BY <1>5, <2>1, <2>4 DEF IInv, Sorted
    <3>2. Cb("step", k) \notin Elems(ready)
      BY <3>1 DEF IInv, Matched
    <3>3. Cb("step", k) \notin Elems(ready')
      BY <1>1, <1>2, <1>3, <1>6, <2>1, <2>4, <3>2 DEF Loses, Gains
    <3> QED BY <1>4, <2>1, <2>4, <3>1, <3>3, NothingToGuard DEF Moves
  <2> QED BY <1>4, <2>2, <2>3, <2>4 DEF Moves
<1>11. Callers'
  BY <1>0, <1>4, <1>5, Shape DEF IInv, Callers, Moves, Same, Op, Pending
<1>12. NoStop => NoStop'
  <2>1. Cb("step", n).do # "stop" /\ Cb("cancel", n).do # "stop"
    BY <1>0, CbFacts
  <2> QED BY <1>1, <1>2, <1>3, <2>1 DEF Loses, Gains, NoStop
<1>13. Built'
  BY <1>0, <1>4, <1>5, <1>12, Shape DEF IInv, Built, Moves, Same, Op
<1>14. Streaming'
  BY <1>0, <1>4, <1>5, Shape DEF IInv, Streaming, Moves, Same, Op, Done
<1>15. ASSUME Quiet  PROVE Quiet'
  BY <1>0, <1>4, <1>5, <1>12, <1>15, Shape DEF Quiet, Moves, Same, Op, Closing, Done
<1> QED BY <1>7, <1>8, <1>9, <1>10, <1>11, <1>13, <1>14, <1>15 DEF IInv

(* The first step of an operation.                                          *)
LEMMA RunStepStep ==
  ASSUME IInv, NEW n \in DOMAIN ops, ready # <<>>, Head(ready) = Cb("step", n),
         ready' = Tail(ready), Touch(n), UNCHANGED <<loop, http>>, Elsewhere
  PROVE  IInv'
<1> USE DEF Elsewhere, callers, bounds, history
<1>0. Typed /\ n \in Nat  BY Shape DEF IInv
<1> DEFINE s == IF ops[n].kind = "anext" /\ streams[ops[n].stream] = "ended"
                THEN "error" ELSE "running"
           g == ops[n].stream
<1>1. ready' \in Seq(Callback) /\ Loses(ready, ready', Cb("step", n))
  BY <1>0, HeadOfLoop
<1>2. Moves(n, s) /\ s \in {"error", "running"}
  <2>1. s \in {"error", "running"}  OBVIOUS
  <2>2. ops' = [ops EXCEPT ![n].st = s]  BY DEF Touch
  <2> QED BY <1>0, <2>1, <2>2, MovesOp DEF Pending, Done
<1>3. ops[n].st = "created" /\ g \in 0..Len(streams)
  BY <1>0, <1>1 DEF IInv, Matched, Loses, Formed
<1>4. /\ streams' \in Seq(Streams) /\ Len(streams') = Len(streams)
      /\ DOMAIN streams' = DOMAIN streams
      /\ \A h \in DOMAIN streams :
           streams'[h] = IF h = g /\ streams[h] # "ended" THEN "running" ELSE streams[h]
  <2>1. CASE g # 0 /\ streams[g] # "ended"
    <3>1. streams' = [streams EXCEPT ![g] = "running"]  BY <2>1 DEF Touch
    <3>2. streams \in Seq(Streams) /\ g \in 1..Len(streams) /\ "running" \in Streams
      BY <1>0, <1>3, <2>1, Shape DEF Typed, Streams
    <3>3. /\ streams' \in Seq(Streams) /\ Len(streams') = Len(streams)
          /\ \A h \in 1..Len(streams) : streams'[h] = IF h = g THEN "running" ELSE streams[h]
      BY <3>1, <3>2, ExceptSeq
    <3>4. DOMAIN streams' = 1..Len(streams') /\ DOMAIN streams = 1..Len(streams)
      BY <1>0, <3>3, Shape
    <3> QED BY <2>1, <3>3, <3>4
  <2>2. CASE ~(g # 0 /\ streams[g] # "ended")
    <3>1. streams' = streams  BY <2>2 DEF Touch
    <3>2. \A h \in DOMAIN streams : h # 0  BY <1>0, Shape
    <3> QED BY <1>0, <2>2, <3>1, <3>2 DEF Typed
  <2> QED BY <2>1, <2>2
<1>5. s = "error" => ops[n].kind = "anext" /\ g \in DOMAIN streams /\ streams[g] = "ended"
  BY <1>0, <1>3, Shape DEF IInv, Formed
<1>6. s = "running" /\ ops[n].kind = "anext" => g \in DOMAIN streams /\ streams'[g] = "running"
  <2>1. ops[n].kind = "anext" => g # 0 /\ g \in DOMAIN streams
    BY <1>0, <1>3, Shape DEF IInv, Formed
  <2> QED BY <1>4, <2>1
<1> HIDE DEF s, g
<1>7. /\ \A d \in {"start", "step", "cancel", "stop"} : \A k \in Nat :
           \A e, m : Cb(d, k) = Cb(e, m) => d = e /\ k = m
      /\ \A k \in DOMAIN ops : k \in Nat /\ k # 0
  BY <1>0, Apart
<1>8. Typed'
  <2>1. \A a \in Elems(ready') : a \in Elems(ready)
    BY <1>1 DEF Loses
  <2> QED BY <1>0, <1>1, <1>2, <1>4, <2>1 DEF Typed, Moves
<1>9. Formed'
  BY <1>2, <1>3, <1>4 DEF IInv, Formed, Moves, Same
<1>10. Matched'
  <2>1. ASSUME NEW k \in DOMAIN ops, k # n
        PROVE  Place(ready', k, ops[k].st, ops[k].dropped)
    BY <1>1, <1>7, <2>1 DEF IInv, Matched, Place, Loses
  <2>2. Place(ready', n, s, ops[n].dropped)
    BY <1>1, <1>2, <1>3, <1>7 DEF IInv, Matched, Place, Loses
  <2>3. \A k \in DOMAIN ops : ops'[k].dropped = ops[k].dropped /\
          ops'[k].st = IF k = n THEN s ELSE ops[k].st
    BY <1>2 DEF Moves
  <2>4. \A k \in DOMAIN ops : Place(ready', k, ops'[k].st, ops'[k].dropped)
    BY <2>1, <2>2, <2>3
  <2> QED BY <1>2, <2>4 DEF Matched, Place, Moves
<1>11. Sorted'
  <2> SUFFICES ASSUME NEW m \in DOMAIN ops, NEW k \in DOMAIN ops, Follows(m, k)', ops'[m].dropped
               PROVE  /\ ops'[m].st = "queued" =>
                           /\ ops'[k].st \in {"new", "queued"}
                           /\ Guarded(ready', Cb("start", m), Cb("start", k))
                      /\ ops'[m].st \in {"created", "running", "exiting"} =>
                           /\ ops'[k].st \in {"new", "queued", "created"}
                           /\ Guarded(ready', Cb("cancel", m), Cb("step", k))
    BY <1>2 DEF Sorted, Moves
  <2>1. Follows(m, k) /\ ops[m].dropped /\ m # k
    BY <1>2, <1>7 DEF Follows, Moves, Same
  <2>2. ASSUME ops'[m].st = "queued"
        PROVE  /\ ops'[k].st \in {"new", "queued"}
               /\ Guarded(ready', Cb("start", m), Cb("start", k))
    <3>1. m # n /\ ops[m].st = "queued"  BY <1>2, <2>2 DEF Moves
    <3>2. ops[k].st \in {"new", "queued"} /\ Guarded(ready, Cb("start", m), Cb("start", k))
      BY <2>1, <3>1 DEF IInv, Sorted
    <3> QED BY <1>1, <1>2, <1>3, <1>7, <3>2 DEF Loses, Moves
  <2>3. ASSUME ops'[m].st \in {"created", "running", "exiting"}
        PROVE  /\ ops'[k].st \in {"new", "queued", "created"}
               /\ Guarded(ready', Cb("cancel", m), Cb("step", k))
    <3>1. ops[m].st \in {"created", "running", "exiting"}
      BY <1>2, <1>3, <2>3 DEF Moves
    <3>2. /\ ops[k].st \in {"new", "queued", "created"}
          /\ Guarded(ready, Cb("cancel", m), Cb("step", k))
      BY <2>1, <3>1 DEF IInv, Sorted
    <3>3. k # n /\ Guarded(ready', Cb("cancel", m), Cb("step", k))
      BY <1>1, <1>7, <3>2 DEF Loses
    <3> QED BY <1>2, <3>2, <3>3 DEF Moves
  <2> QED BY <2>2, <2>3
<1>12. Callers'
  BY <1>0, <1>2, <1>3, CallersMoves DEF IInv, Pending
<1>13. NoStop => NoStop'
  BY <1>1 DEF Loses, NoStop
<1>14. Built'
  BY <1>0, <1>2, <1>3, <1>13, BuiltMoves DEF IInv
<1>15. Streaming'
  <2>1. ops[n].kind = "aclose" /\ s \in Done => FALSE
    BY <1>2, <1>5 DEF Done
  <2>2. ops[n].kind = "anext" /\ s \in {"running", "cancelling"} => streams'[g] = "running"
    BY <1>2, <1>6
  <2>3. g = ops[n].stream  BY DEF g
  <2>4. g # 0 /\ streams[g] = "ended" => streams'[g] = "ended"
    BY <1>0, <1>3, <1>4, Shape
  <2> QED BY <1>0, <1>2, <1>3, <1>4, <2>1, <2>2, <2>3, <2>4, StreamingMoves DEF IInv, Done
<1>16. ASSUME Quiet, ~cut, ~overlap  PROVE Quiet'
  <2>1. ASSUME NEW k \in DOMAIN ops, ops[k].kind = "shutdown", k # n
        PROVE  ops[k].st \notin {"running", "exiting", "ok"}
    BY <1>3, <1>16, <2>1 DEF Quiet, Done
  <2>2. ASSUME ops[n].kind = "shutdown", NEW m \in DOMAIN ops, m # n
        PROVE  ops[m].st \in Done \cup {"cancelling", "new"}
    <3>1. n = Len(ops) /\ m < n
      BY <1>0, <1>16, <2>2, Shape DEF Quiet
    <3>2. ~ops[n].dropped /\ ops[n].by \in Threads
      BY <1>0, <1>16, <2>2, Shape DEF IInv, Formed
    <3>3. current[ops[n].by] = n
      BY <1>0, <1>3, <3>2 DEF IInv, Callers, Pending
    <3>4. ops[m].by # ops[n].by => current[ops[m].by] = 0
      <4>1. Closing(ops[n].by)  BY <1>7, <2>2, <3>3 DEF Closing, Op
      <4> QED BY <1>0, <1>16, <3>2, <4>1, Shape DEF Quiet
    <3>5. ops[m].st \in Pending => ops[m].dropped
      BY <1>0, <1>7, <3>1, <3>3, <3>4, Shape DEF IInv, Callers
    <3>6. Follows(m, n)
      BY <1>16, <2>2, <3>1 DEF Follows
    <3>7. ops[m].dropped => ops[m].st \notin {"queued"}
      BY <1>3, <3>6 DEF IInv, Sorted
    <3>8. ops[m].dropped /\ ops[m].st \in {"created", "running", "exiting"} => FALSE
      <4>1. SUFFICES ASSUME ops[m].dropped, ops[m].st \in {"created", "running", "exiting"}
                     PROVE  FALSE
        OBVIOUS
      <4>2. Guarded(ready, Cb("cancel", m), Cb("step", n))
        BY <3>6, <4>1 DEF IInv, Sorted
      <4> QED BY <1>1, <4>2 DEF Loses
    <3> QED BY <1>0, <3>5, <3>7, <3>8, Shape DEF Pending
  <2>3. \A k \in DOMAIN ops : ops[k].kind = "shutdown" /\ ops[k].st = "ok" =>
          k # n /\ FALSE
    BY <1>3, <2>1
  <2>4. ~closed
    BY <1>16, <2>3 DEF Quiet
  <2>5. \A h \in left : h # g \/ streams[h] = "ended"
    BY <1>16 DEF Quiet
  <2>6. \A h \in left : streams'[h] = "ended"
    BY <1>0, <1>4, <1>16 DEF Quiet, Typed
  <2>7. ops[n].kind = "shutdown" => s = "running"
    BY <1>2, <1>5
  <2>8. \A k \in DOMAIN ops : ops[k].kind = "shutdown" =>
       /\ k = Len(ops') /\ current[ops[k].by] = k
       /\ ops'[k].client \/ ops'[1].st = "error"
       /\ ops'[k].st \notin {"error", "exiting", "ok"}
       /\ ops'[k].st = "running" =>
            \A m \in DOMAIN ops : m = k \/ ops'[m].st \in Done \cup {"cancelling", "new"}
    <3> SUFFICES ASSUME NEW k \in DOMAIN ops, ops[k].kind = "shutdown"
                 PROVE  /\ k = Len(ops') /\ current[ops[k].by] = k
                        /\ ops'[k].client \/ ops'[1].st = "error"
                        /\ ops'[k].st \notin {"error", "exiting", "ok"}
                        /\ ops'[k].st = "running" =>
                             \A m \in DOMAIN ops :
                                m = k \/ ops'[m].st \in Done \cup {"cancelling", "new"}
      OBVIOUS
    <3>1. k = Len(ops') /\ current[ops[k].by] = k /\ ops[k].st # "error"
      BY <1>2, <1>16, <2>4 DEF Quiet, Moves
    <3>0. ops'[k].client \/ ops'[1].st = "error"
      <4>1. (ops[k].client \/ ops[1].st = "error") /\ 1 \in DOMAIN ops
        BY <1>0, <1>16, Shape DEF Quiet
      <4> QED BY <1>2, <1>3, <4>1 DEF Moves, Same
    <3>2. CASE k = n
      BY <1>2, <2>2, <2>7, <3>0, <3>1, <3>2 DEF Moves
    <3>3. CASE k # n
      BY <1>2, <2>1, <3>0, <3>1, <3>3 DEF Moves
    <3> QED BY <3>2, <3>3
  <2>9. \A t \in Threads : Closing(t)' => Closing(t)
    BY <1>0, <1>2, Shape DEF Closing, Op, Moves, Same
  <2>10. DOMAIN ops' = DOMAIN ops /\ Len(ops') = Len(ops) /\ UNCHANGED <<closed, left, loop>>
         /\ \A k \in DOMAIN ops : ops'[k].kind = ops[k].kind /\ ops'[k].by = ops[k].by
    BY <1>2 DEF Moves, Same
  <2> QED BY <1>13, <1>16, <2>4, <2>6, <2>8, <2>9, <2>10 DEF Quiet
<1> QED BY <1>8, <1>9, <1>10, <1>11, <1>12, <1>14, <1>15, <1>16 DEF IInv

(* The cancellation of a dropped operation arrives.                         *)
LEMMA RunCancelStep ==
  ASSUME IInv, NEW n \in DOMAIN ops, ready # <<>>, Head(ready) = Cb("cancel", n),
         ready' = Tail(ready),
         ops' = [ops EXCEPT ![n].st = IF @ \in Done THEN @ ELSE "cancelling"],
         UNCHANGED <<loop, http, streams>>, Elsewhere
  PROVE  IInv'
<1> USE DEF Elsewhere, callers, bounds, history
<1>0. Typed /\ n \in Nat  BY Shape DEF IInv
<1> DEFINE s == IF ops[n].st \in Done THEN ops[n].st ELSE "cancelling"
<1>1. ready' \in Seq(Callback) /\ Loses(ready, ready', Cb("cancel", n))
  BY <1>0, HeadOfLoop
<1>2. Moves(n, s) /\ s \in Done \cup {"cancelling"}
  <2>1. s \in Done \cup {"cancelling"}  OBVIOUS
  <2>2. ops' = [ops EXCEPT ![n].st = s]  OBVIOUS
  <2> HIDE DEF s
  <2> QED BY <1>0, <2>1, <2>2, MovesOp DEF Pending
<1>3. /\ Cb("cancel", n) \in Elems(ready) /\ ~Guarded(ready, Cb("step", n), Cb("cancel", n))
      /\ Cb("cancel", n) # Cb("step", n)
  BY <1>0, <1>1, Apart DEF Loses
<1>4. ops[n].dropped /\ ops[n].st \notin {"new", "queued", "created"}
  BY <1>3 DEF IInv, Matched, Formed
<1>5. /\ ops[n].st \in Done => s = ops[n].st
      /\ ops[n].st \notin Done => s = "cancelling"
  OBVIOUS
<1> HIDE DEF s
<1>6. \A a \in Elems(ready') : a \in Elems(ready)
  BY <1>1 DEF Loses
<1>7. NoStop => NoStop'
  BY <1>6 DEF NoStop
<1>8. Typed'
  BY <1>0, <1>1, <1>2, <1>6 DEF Typed, Moves
<1>9. Formed'
  BY <1>2, <1>4 DEF IInv, Formed, Moves, Same, Done
<1>10. Matched' /\ Sorted'
  BY <1>0, <1>1, <1>2, <1>4, QueueMoves DEF IInv
<1>11. Callers'
  BY <1>0, <1>2, <1>4, <1>5, Shape, CallersMoves DEF IInv, Pending, Done
<1>12. CASE ops[n].st \in Done
  <2>1. \A k \in DOMAIN ops : /\ Same(k) /\ ops'[k].st = ops[k].st
                              /\ ops'[k].dropped = ops[k].dropped
    BY <1>2, <1>5, <1>12 DEF Moves
  <2>2. DOMAIN ops' = DOMAIN ops /\ Len(ops') = Len(ops) /\ (ops' = <<>> <=> ops = <<>>)
    BY <1>0, <1>2 DEF Moves, Typed
  <2>3. \A t \in Threads : current[t] # 0 => current[t] \in DOMAIN ops
    BY <1>0, Shape
  <2>4. ops # <<>> => 1 \in DOMAIN ops
    BY <1>0 DEF Typed
  <2>5. Built'
    BY <1>7, <2>1, <2>2, <2>3, <2>4 DEF IInv, Built, Same, Op
  <2>6. Streaming'
    BY <2>1, <2>2, <2>3 DEF IInv, Streaming, Same, Op
  <2>7. ASSUME Quiet  PROVE Quiet'
    BY <1>7, <2>1, <2>2, <2>3, <2>7 DEF Quiet, Same, Op, Closing
  <2> QED BY <1>8, <1>9, <1>10, <1>11, <2>5, <2>6, <2>7 DEF IInv
<1>13. CASE ops[n].st \notin Done
  <2>1. s = "cancelling"  BY <1>5, <1>13
  <2>2. Built'
    BY <1>0, <1>2, <1>7, <1>13, BuiltMoves DEF IInv, Done
  <2>3. ops[n].kind = "anext" => streams[ops[n].stream] = "running"
    BY <1>0, <1>4, <1>13, Shape DEF IInv, Streaming, Formed, Pending
  <2>4. Streaming'
    BY <1>0, <1>2, <1>13, <2>1, <2>3, StreamingMoves DEF IInv, Done
  <2>5. ASSUME ~cut, Quiet  PROVE Quiet'
    <3>1. ops[n].kind # "shutdown"  BY <1>4, <2>5 DEF IInv, Formed
    <3> QED BY <1>0, <1>2, <1>7, <1>13, <2>5, <3>1, QuietMoves
  <2> QED BY <1>8, <1>9, <1>10, <1>11, <2>2, <2>4, <2>5 DEF IInv
<1> QED BY <1>12, <1>13

(* The loop stops.                                                          *)
LEMMA RunStopStep ==
  ASSUME IInv, ready # <<>>, Head(ready).do = "stop", ready' = Tail(ready),
         loop = "running", loop' = "ended", UNCHANGED <<http, ops, streams>>, Elsewhere
  PROVE  IInv'
<1> USE DEF Elsewhere, callers, bounds, history
<1>0. Typed  BY DEF IInv
<1> DEFINE h == Head(ready)
<1>1. ready' \in Seq(Callback) /\ Loses(ready, ready', h) /\ h.do = "stop" /\ h = Cb("stop", h.n)
  BY <1>0, HeadOfLoop
<1> HIDE DEF h
<1>2. \A d \in {"start", "step", "cancel"} : \A n \in DOMAIN ops :
        /\ Cb(d, n) # h /\ (Cb(d, n) \in Elems(ready') <=> Cb(d, n) \in Elems(ready))
        /\ Once(ready, Cb(d, n)) => Once(ready', Cb(d, n))
        /\ \A b : Guarded(ready, Cb(d, n), b) => Guarded(ready', Cb(d, n), b)
  <2>1. ASSUME NEW d \in {"start", "step", "cancel"}, NEW n \in DOMAIN ops  PROVE Cb(d, n) # h
    BY <1>0, <1>1, Apart
  <2> QED BY <1>1, <2>1 DEF Loses
<1>3. ~NoStop
  BY <1>1 DEF NoStop, Loses
<1>4. Typed'
  <2>1. \A a \in Elems(ready') : a \in Elems(ready)
    BY <1>1 DEF Loses
  <2> QED BY <1>0, <1>1, <2>1 DEF Typed
<1>5. Formed' /\ Callers' /\ Streaming'
  BY DEF IInv, Formed, Callers, Streaming, Op
<1>6. Matched'
  BY <1>2 DEF IInv, Matched
<1>7. Sorted'
  BY <1>2 DEF IInv, Sorted, Follows
<1>8. \A t \in Threads : current[t] # 0 /\ ~Op(t).client => pc[t] = "join"
  BY <1>3 DEF IInv, Built
<1>9. pc[Main] # "new"
  BY DEF IInv, Built
<1>10. Built'
  BY <1>8, <1>9 DEF IInv, Built, Op
<1>11. ASSUME Quiet  PROVE Quiet' 
  <2>1. closed  BY <1>3, <1>11 DEF Quiet
  <2> QED BY <1>11, <2>1 DEF Quiet, Closing, Op
<1> QED BY <1>4, <1>5, <1>6, <1>7, <1>10, <1>11 DEF IInv

(* The loop runs the first of its callbacks.                                *)
LEMMA RunReadyStep == ASSUME IInv, RunReady PROVE IInv'
<1> USE DEF RunReady
<1>0. Typed /\ Elsewhere
  BY DEF IInv, Elsewhere
<1> DEFINE h == Head(ready)
<1>1. h = Cb(h.do, h.n) /\ (h.do = "stop" \/ h.n \in DOMAIN ops)
  BY <1>0, HeadOfLoop
<1>2. CASE h.do = "start"
  BY <1>0, <1>1, <1>2, RunStartStep
<1>3. CASE h.do = "step"
  BY <1>0, <1>1, <1>3, RunStepStep
<1>4. CASE h.do = "cancel"
  BY <1>0, <1>1, <1>4, RunCancelStep
<1>5. CASE h.do = "stop"
  BY <1>0, <1>5, RunStopStep
<1> QED BY <1>2, <1>3, <1>4, <1>5

(* An assignment to a stream.                                               *)
LEMMA StreamSet ==
  ASSUME Typed, NEW g \in DOMAIN streams, NEW v \in Streams,
         streams' = [streams EXCEPT ![g] = v]
  PROVE  /\ streams' \in Seq(Streams) /\ Len(streams') = Len(streams)
         /\ DOMAIN streams' = DOMAIN streams
         /\ \A h \in DOMAIN streams : streams'[h] = IF h = g THEN v ELSE streams[h]
<1>1. streams \in Seq(Streams) /\ DOMAIN streams = 1..Len(streams)
  BY Shape DEF Typed
<1>2. /\ streams' \in Seq(Streams) /\ Len(streams') = Len(streams)
      /\ \A h \in 1..Len(streams) : streams'[h] = IF h = g THEN v ELSE streams[h]
  BY <1>1, ExceptSeq
<1> QED BY <1>1, <1>2

(* Any operation but close ends, or one that was cancelled has unwound.     *)
LEMMA EndStep ==
  ASSUME IInv, NEW n \in DOMAIN ops, NEW st \in Done,
         \/ ops[n].kind # "shutdown" /\ ops[n].st = "running"
         \/ st = "error" /\ ops[n].st = "cancelling",
         ops' = [ops EXCEPT ![n].st = st],
         http' = IF ops[n].kind = "start" /\ st = "ok" THEN "open" ELSE http,
         streams' = IF ops[n].stream = 0 THEN streams
                    ELSE [streams EXCEPT ![ops[n].stream] =
                            IF ops[n].kind = "anext" /\ st = "ok" THEN "suspended" ELSE "ended"],
         UNCHANGED <<loop, ready>>, Elsewhere
  PROVE  IInv'
<1> USE DEF Elsewhere, callers, bounds, history
<1>0. Typed  BY DEF IInv
<1> DEFINE g == ops[n].stream
           v == IF ops[n].kind = "anext" /\ st = "ok" THEN "suspended" ELSE "ended"
<1>1. Moves(n, st)  BY <1>0, MovesOp
<1>2. ops[n].st \in {"running", "cancelling"}
  OBVIOUS
<1>3. g # 0 => g \in DOMAIN streams  BY <1>0, Shape DEF IInv, Formed
<1>4. /\ streams' \in Seq(Streams) /\ Len(streams') = Len(streams)
      /\ DOMAIN streams' = DOMAIN streams
      /\ \A h \in DOMAIN streams : streams'[h] = IF h = g /\ g # 0 THEN v ELSE streams[h]
  <2>1. CASE g = 0  BY <1>0, <2>1 DEF Typed
  <2>2. CASE g # 0
    <3>1. v \in Streams  BY DEF Streams
    <3>2. streams' = [streams EXCEPT ![g] = v]  BY <2>2
    <3> HIDE DEF v, g
    <3> QED BY <1>0, <1>3, <2>2, <3>1, <3>2, StreamSet
  <2> QED BY <2>1, <2>2
<1>5. /\ g # 0 <=> ops[n].kind \in {"anext", "aclose"}
      /\ ops[n].kind = "anext" => streams[g] = "running"
  BY <1>2 DEF IInv, Formed, Streaming
<1>6. g # 0 => streams'[g] = v
  BY <1>3, <1>4
<1>7. Typed'
  BY <1>0, <1>1, <1>4 DEF Typed, Moves
<1>8. Formed'
  BY <1>1, <1>4 DEF IInv, Formed, Moves, Same, Done
<1>9. Matched' /\ Sorted'
  BY <1>0, <1>1, <1>2, QueueMoves DEF IInv
<1>10. Callers'
  BY <1>0, <1>1, <1>2, CallersMoves DEF IInv, Pending, Done
<1>11. Built'
  <2>1. http' = http \/ ops'[1].st = "ok"
    BY <1>1 DEF IInv, Formed, Moves
  <2> QED BY <1>0, <1>1, <1>2, <2>1, BuiltMoves DEF IInv, NoStop
<1>12. v \in {"suspended", "ended"} /\ (v = "suspended" => ops[n].kind = "anext" /\ st = "ok")
  OBVIOUS
<1> HIDE DEF v, g
<1>13. Streaming'
  <2>1. g # 0 /\ streams[g] = "ended" => streams'[g] = "ended"
    BY <1>5, <1>6, <1>12
  <2>2. ops[n].kind = "aclose" => streams'[g] = "ended"
    BY <1>5, <1>6, <1>12
  <2> QED BY <1>0, <1>1, <1>2, <1>4, <1>6, <1>12, <2>1, <2>2, StreamingMoves DEF IInv, Done, g
<1>14. ASSUME ~cut, Quiet  PROVE Quiet'
  <2>1. ops[n].kind # "shutdown"
    BY <1>14 DEF IInv, Formed
  <2>2. \A h \in DOMAIN streams : streams[h] = "ended" => streams'[h] = "ended"
    BY <1>4, <1>5, <1>12
  <2>3. st = "ok" => ops[n].st = "running"
    BY DEF Done
  <2>4. \A h \in DOMAIN streams :
          streams'[h] = "suspended" => streams[h] = "suspended" \/ ops[n].st = "running"
    BY <1>4, <1>12, <2>3
  <2> QED BY <1>0, <1>1, <1>2, <1>4, <1>14, <2>1, <2>2, <2>3, <2>4, QuietMoves DEF Done, NoStop
<1> QED BY <1>7, <1>8, <1>9, <1>10, <1>11, <1>13, <1>14 DEF IInv

(* run() refuses on the loop's own thread: the operation raises.            *)
LEMMA ReenterStep ==
  ASSUME IInv, NEW n \in DOMAIN ops, Reenter(n)
  PROVE  IInv'
<1>1. ops[n].stream = 0  BY DEF IInv, Formed, Reenter
<1> QED BY <1>1, EndStep DEF Reenter, Elsewhere, Done

(* Closing what waits at a yield.                                           *)
LEMMA CloseStreamsStep ==
  ASSUME IInv, NEW n \in DOMAIN ops, ops[n].kind = "shutdown", ops[n].st = "running",
         ops' = [ops EXCEPT ![n].st = "exiting"],
         streams' = [g \in DOMAIN streams |->
                       IF streams[g] = "suspended" THEN "ended" ELSE streams[g]],
         UNCHANGED <<http, loop, ready>>, Elsewhere
  PROVE  IInv'
<1> USE DEF Elsewhere, callers, bounds, history
<1>0. Typed  BY DEF IInv
<1>1. Moves(n, "exiting")  BY <1>0, MovesOp DEF Pending
<1>2. /\ streams' \in Seq(Streams) /\ Len(streams') = Len(streams)
      /\ DOMAIN streams' = DOMAIN streams
  <2>1. /\ Len(streams) \in Nat /\ DOMAIN streams = 1..Len(streams)
        /\ \A g \in DOMAIN streams : streams[g] \in Streams
    BY <1>0, Shape
  <2>2. streams' \in [1..Len(streams) -> Streams]
    BY <2>1 DEF Streams
  <2> QED BY <2>1, <2>2
<1>3. \A h \in DOMAIN streams :
        streams'[h] = IF streams[h] = "suspended" THEN "ended" ELSE streams[h]
  OBVIOUS
<1>4. Typed'
  BY <1>0, <1>1, <1>2 DEF Typed, Moves
<1>5. Formed'
  BY <1>1, <1>2 DEF IInv, Formed, Moves, Same
<1>6. Matched' /\ Sorted'
  BY <1>0, <1>1, QueueMoves DEF IInv
<1>7. Callers'
  BY <1>0, <1>1, CallersMoves DEF IInv, Pending
<1>8. Built'
  BY <1>0, <1>1, BuiltMoves DEF IInv, NoStop
<1>9. /\ \A m \in DOMAIN ops : /\ ops'[m].stream = ops[m].stream /\ ops'[m].kind = ops[m].kind
                               /\ ops'[m].by = ops[m].by /\ ops'[m].client = ops[m].client
                               /\ ops'[m].st = IF m = n THEN "exiting" ELSE ops[m].st
      /\ DOMAIN ops' = DOMAIN ops /\ Len(ops') = Len(ops)
      /\ ops[n].stream = 0
  BY <1>1 DEF Moves, Same, IInv, Formed
<1>10. /\ \A m \in DOMAIN ops : ops[m].stream # 0 => ops[m].stream \in DOMAIN streams
       /\ \A m \in DOMAIN ops : ops[m].kind \in {"anext", "aclose"} => ops[m].stream # 0
       /\ \A t \in Threads : /\ current[t] # 0 => current[t] \in DOMAIN ops
                             /\ iterating[t] # 0 => iterating[t] \in DOMAIN streams
  BY <1>0, Shape DEF IInv, Formed
<1>11. Streaming'
  <2>1. (\A m, k \in DOMAIN ops :
           m < k /\ ops[m].stream # 0 /\ ops[m].stream = ops[k].stream => ops[m].st \in Done)'
    BY <1>9 DEF IInv, Streaming
  <2>2. (\A m \in DOMAIN ops :
           /\ ops[m].kind = "anext" /\ ops[m].st \in {"running", "cancelling"}
                => streams[ops[m].stream] = "running"
           /\ ops[m].kind = "aclose" /\ ops[m].st \in Done
                => streams[ops[m].stream] = "ended")'
    BY <1>3, <1>9, <1>10 DEF IInv, Streaming
  <2>3. ASSUME NEW t \in Threads, iterating[t] # 0
        PROVE  /\ \A u \in Threads : iterating[u] = iterating[t] => u = t
               /\ \A m \in DOMAIN ops :
                    ops[m].stream = iterating[t] /\ m # current[t] => ops'[m].st \in Done
               /\ \/ streams'[iterating[t]] \in {"suspended", "ended"}
                  \/ current[t] # 0 /\ ops'[current[t]].stream = iterating[t]
                     /\ ops'[current[t]].st # "ok"
    BY <1>3, <1>9, <1>10, <2>3 DEF IInv, Streaming, Op
  <2> QED BY <1>9, <2>1, <2>2, <2>3 DEF Streaming, Op
<1>12. ASSUME Quiet  PROVE Quiet'
  <2>1. n = Len(ops) /\ \A k \in DOMAIN ops : ops[k].kind = "shutdown" => k = n
    BY <1>12 DEF Quiet
  <2>2. ~closed
    BY <1>12, <2>1 DEF Quiet
  <2>3. current[ops[n].by] = n /\ ops[n].by \in Threads /\ n # 0
    BY <1>0, <1>12, <2>2, Apart, Shape DEF Quiet
  <2>4. Closing(ops[n].by)
    BY <2>3 DEF Closing, Op
  <2>5. ASSUME NEW t \in Threads, iterating[t] # 0  PROVE streams'[iterating[t]] = "ended"
    <3>1. t = ops[n].by  BY <1>12, <2>3, <2>4, <2>5 DEF Quiet
    <3>2. streams[iterating[t]] \in {"suspended", "ended"}
      BY <1>9, <2>3, <2>5, <3>1 DEF IInv, Streaming, Op
    <3> QED BY <1>3, <1>10, <2>5, <3>2
  <2>6. \A h \in DOMAIN streams : streams'[h] # "suspended"
    BY <1>3
  <2>7. \A g \in left : streams'[g] = "ended"
    BY <1>0, <1>3, <1>12 DEF Quiet, Typed
  <2>8. \A t \in Threads : Closing(t)' => Closing(t)
    BY <1>9, <1>10 DEF Closing, Op
  <2>9. \A m \in DOMAIN ops : m = n \/ ops'[m].st \in Done \cup {"cancelling", "new"}
    BY <1>9, <1>12 DEF Quiet
  <2>10. ops'[n].client \/ ops'[1].st = "error"
    <3>1. (ops[n].client \/ ops[1].st = "error") /\ 1 \in DOMAIN ops
      BY <1>0, <1>12, Shape DEF Quiet
    <3> QED BY <1>9, <3>1
  <2> QED BY <1>2, <1>9, <1>12, <2>1, <2>2, <2>3, <2>5, <2>6, <2>7, <2>8, <2>9, <2>10
       DEF Quiet, NoStop
<1> QED BY <1>4, <1>5, <1>6, <1>7, <1>8, <1>11, <1>12 DEF IInv

(* Closing the client, when no stream waits at a yield any more.            *)
LEMMA CloseClientStep ==
  ASSUME IInv, NEW n \in DOMAIN ops, ops[n].kind = "shutdown", ops[n].st = "exiting",
         ops' = [ops EXCEPT ![n].st = "ok"],
         http' = IF ops[n].client THEN "closed" ELSE http,
         UNCHANGED <<streams, loop, ready>>, Elsewhere
  PROVE  IInv'
<1> USE DEF Elsewhere, callers, bounds, history
<1>0. Typed  BY DEF IInv
<1>1. Moves(n, "ok")  BY <1>0, MovesOp DEF Done
<1>2. ops[n].stream = 0 /\ n # 1  BY DEF IInv, Formed
<1>3. Typed'
  BY <1>0, <1>1 DEF Typed, Moves
<1>4. Formed'
  BY <1>1 DEF IInv, Formed, Moves, Same
<1>5. Matched' /\ Sorted'
  BY <1>0, <1>1, QueueMoves DEF IInv, Done
<1>6. Callers'
  BY <1>0, <1>1, CallersMoves DEF IInv, Pending
<1>7. Built'
  <2>1. http' = http \/ ops'[1].st = "ok"
    <3>1. 1 \in DOMAIN ops  BY <1>0, Shape
    <3> QED BY <1>1, <1>2, <3>1 DEF IInv, Built, Moves
  <2> QED BY <1>0, <1>1, <2>1, BuiltMoves DEF IInv, NoStop
<1>8. Streaming'
  BY <1>0, <1>1, <1>2, StreamingMoves DEF IInv, Done
<1>9. ASSUME Quiet  PROVE Quiet'
  <2>1. n = Len(ops) /\ \A k \in DOMAIN ops : ops[k].kind = "shutdown" => k = n
    BY <1>9 DEF Quiet
  <2>2. ~closed
    BY <1>9, <2>1 DEF Quiet
  <2>3. /\ \A m \in DOMAIN ops : /\ ops'[m].stream = ops[m].stream /\ ops'[m].kind = ops[m].kind
                                 /\ ops'[m].by = ops[m].by /\ ops'[m].client = ops[m].client
                                 /\ ops'[m].st = IF m = n THEN "ok" ELSE ops[m].st
        /\ DOMAIN ops' = DOMAIN ops /\ Len(ops') = Len(ops)
    BY <1>1 DEF Moves, Same
  <2>4. \A t \in Threads : Closing(t)' => Closing(t)
    BY <1>0, <2>3, Shape DEF Closing, Op
  <2>5. (ops[n].client \/ ops[1].st = "error") /\ 1 \in DOMAIN ops
    BY <1>0, <1>9, Shape DEF Quiet
  <2>6. ops'[n].client \/ ops'[1].st = "error"
    BY <1>2, <2>3, <2>5
  <2>7. http' # "open"
    BY <2>5 DEF IInv, Built
  <2>8. \A m \in DOMAIN ops : m = n \/ ops'[m].st \in Done \cup {"cancelling", "new"}
    BY <1>9, <2>3 DEF Quiet
  <2>9. /\ \A h \in DOMAIN streams : streams[h] # "suspended"
        /\ \A t \in Threads : iterating[t] # 0 => streams[iterating[t]] = "ended"
        /\ \A g \in left : streams[g] = "ended"
        /\ current[ops[n].by] = n
    BY <1>9, <2>2 DEF Quiet
  <2> QED BY <1>9, <2>1, <2>2, <2>3, <2>4, <2>6, <2>7, <2>8, <2>9 DEF Quiet, NoStop
<1> QED BY <1>3, <1>4, <1>5, <1>6, <1>7, <1>8, <1>9 DEF IInv

(* An operation ends, or _shutdown goes on.                                 *)
LEMMA FinishStep ==
  ASSUME IInv, NEW n \in DOMAIN ops, Finish(n)
  PROVE  IInv'
BY EndStep, CloseStreamsStep, CloseClientStep DEF Finish, Shutdown, Elsewhere

(* A stream that no thread iterates over is closed when it is collected.    *)
LEMMA CollectStep ==
  ASSUME IInv, NEW g \in DOMAIN streams, Collect(g)
  PROVE  IInv'
<1> USE DEF Collect, callers, bounds, history
<1>0. Typed  BY DEF IInv
<1> DEFINE v == IF streams[g] = "suspended" THEN "closing" ELSE "ended"
<1>1. /\ streams' \in Seq(Streams) /\ Len(streams') = Len(streams)
      /\ DOMAIN streams' = DOMAIN streams
      /\ \A h \in DOMAIN streams : streams'[h] = IF h = g THEN v ELSE streams[h]
  <2>1. v \in Streams /\ streams' = [streams EXCEPT ![g] = v]  BY DEF Streams
  <2> HIDE DEF v
  <2> QED BY <1>0, <2>1, StreamSet
<1>2. v # "suspended" /\ streams[g] \notin {"running", "ended"}
  OBVIOUS
<1> HIDE DEF v
<1>3. /\ \A m \in DOMAIN ops : ops[m].stream # 0 => ops[m].stream \in DOMAIN streams
      /\ \A m \in DOMAIN ops : ops[m].kind \in {"anext", "aclose"} => ops[m].stream # 0
      /\ \A t \in Threads : iterating[t] # 0 => iterating[t] \in DOMAIN streams
  BY <1>0, Shape DEF IInv, Formed
<1>4. Typed'
  BY <1>0, <1>1 DEF Typed
<1>5. Formed' /\ Matched' /\ Sorted' /\ Callers' /\ Built'
  BY <1>1 DEF IInv, Formed, Matched, Sorted, Follows, Callers, Built, Op, NoStop
<1>6. Streaming'
  BY <1>1, <1>2, <1>3 DEF IInv, Streaming, Op
<1>7. ASSUME Quiet  PROVE Quiet'
  <2>1. \A h \in left : streams'[h] = "ended"
    BY <1>0, <1>1, <1>2, <1>7 DEF Quiet, Typed
  <2>2. \A h \in DOMAIN streams : streams'[h] = "suspended" => streams[h] = "suspended"
    BY <1>1, <1>2
  <2>3. \A t \in Threads : iterating[t] # 0 => streams'[iterating[t]] = streams[iterating[t]]
    BY <1>1, <1>3
  <2> QED BY <1>1, <1>7, <2>1, <2>2, <2>3 DEF Quiet, Closing, Op, NoStop
<1> QED BY <1>4, <1>5, <1>6, <1>7 DEF IInv

--------------------------------------------------------------------------------
(* Steps of a thread. What the loop's queue q says of operations o.         *)
MatchedOf(o, q) == \A n \in DOMAIN o : Place(q, n, o[n].st, o[n].dropped)
SortedOf(o, q, ov) ==
  \A n, k \in DOMAIN o :
    n < k /\ (o[n].by = o[k].by \/ (o[k].kind = "shutdown" /\ ~ov)) /\ o[n].dropped =>
      /\ o[n].st = "queued" =>
           o[k].st \in {"new", "queued"} /\ Guarded(q, Cb("start", n), Cb("start", k))
      /\ o[n].st \in {"created", "running", "exiting"} =>
           /\ o[k].st \in {"new", "queued", "created"}
           /\ Guarded(q, Cb("cancel", n), Cb("step", k))

(* Matched in terms of MatchedOf.                                           *)
LEMMA MatchedIs == (Matched <=> MatchedOf(ops, ready)) /\ (Matched' <=> MatchedOf(ops', ready'))
BY DEF Matched, MatchedOf, Place

(* Sorted in terms of SortedOf.                                             *)
LEMMA SortedIs ==
  /\ Sorted <=> SortedOf(ops, ready, overlap)
  /\ Sorted' <=> SortedOf(ops', ready', overlap')
BY DEF Sorted, SortedOf, Follows

(* The records of o are those of ops, but for the flag of a dropped one.    *)
Alike(o, n, d) ==
  /\ o \in Seq(Operation) /\ Len(o) = Len(ops) /\ DOMAIN o = DOMAIN ops
  /\ \A k \in DOMAIN ops :
       /\ o[k].kind = ops[k].kind /\ o[k].stream = ops[k].stream /\ o[k].by = ops[k].by
       /\ o[k].client = ops[k].client /\ o[k].st = ops[k].st
       /\ o[k].dropped = IF k = n THEN d ELSE ops[k].dropped

(* A new operation behind those of o.                                       *)
Adds(o, t, kind, g, client) ==
  LET n == Len(ops) + 1
  IN /\ ops' \in Seq(Operation) /\ Len(ops') = n /\ DOMAIN ops' = DOMAIN ops \cup {n}
     /\ n \notin DOMAIN ops /\ n \in Nat /\ n # 0
     /\ \A k \in DOMAIN ops : ops'[k] = o[k] /\ k < n
     /\ ops'[n].kind = kind /\ ops'[n].stream = g /\ ops'[n].by = t
     /\ ops'[n].client = client /\ ops'[n].st = "new" /\ ops'[n].dropped = FALSE

(* An interrupt changes only the flag of the operation it drops.            *)
LEMMA DropOp ==
  ASSUME Typed, NEW n \in DOMAIN ops, NEW d \in BOOLEAN
  PROVE  Alike([ops EXCEPT ![n].dropped = d], n, d)
<1> DEFINE o == [ops[n] EXCEPT !.dropped = d]
           os == [ops EXCEPT ![n].dropped = d]
<1>1. ops[n] \in Operation /\ n \in 1..Len(ops) /\ DOMAIN ops = 1..Len(ops)
  BY Shape
<1>2. /\ o \in Operation /\ o.st = ops[n].st /\ o.kind = ops[n].kind /\ o.stream = ops[n].stream
      /\ o.by = ops[n].by /\ o.client = ops[n].client /\ o.dropped = d
  BY <1>1 DEF Operation
<1>3. os = [ops EXCEPT ![n] = o]
  OBVIOUS
<1> HIDE DEF o, os
<1>4. ops \in Seq(Operation)  BY DEF Typed
<1>5. /\ os \in Seq(Operation) /\ Len(os) = Len(ops)
      /\ \A j \in 1..Len(ops) : os[j] = IF j = n THEN o ELSE ops[j]
  BY <1>1, <1>2, <1>3, <1>4, ExceptSeq
<1>6. DOMAIN os = 1..Len(os)  BY <1>5
<1>7. Alike(os, n, d)
  BY <1>1, <1>2, <1>5, <1>6 DEF Alike
<1> QED BY <1>7 DEF os

(* Otherwise the operations stay as they are.                               *)
LEMMA SameOps == ASSUME Typed, NEW n PROVE Alike(ops, n, ops[n].dropped)
BY DEF Alike, Typed

(* run() adds an operation behind the others.                               *)
LEMMA RunAdds ==
  ASSUME Typed, NEW o \in Seq(Operation), Len(o) = Len(ops), NEW t \in Threads,
         NEW kind \in {"start", "call", "anext", "aclose", "shutdown"}, NEW g \in Nat,
         NEW client \in BOOLEAN, Run(t, kind, g, client, o)
  PROVE  Adds(o, t, kind, g, client)
<1> DEFINE r == [kind |-> kind, stream |-> g, by |-> t, st |-> "new",
                 dropped |-> FALSE, client |-> client]
<1>1. /\ r \in Operation /\ r.kind = kind /\ r.stream = g /\ r.by = t /\ r.st = "new"
      /\ r.dropped = FALSE /\ r.client = client
  BY DEF Operation
<1>2. ops' = Append(o, r)  BY DEF Run
<1> HIDE DEF r
<1>3. Len(ops) \in Nat /\ DOMAIN ops = 1..Len(ops) /\ DOMAIN o = 1..Len(o)
  BY Shape
<1>4. /\ ops' \in Seq(Operation) /\ Len(ops') = Len(o) + 1 /\ DOMAIN ops' = 1..(Len(o) + 1)
      /\ \A k \in 1..Len(o) : ops'[k] = o[k]
      /\ ops'[Len(o) + 1] = r
  BY <1>1, <1>2
<1>5. 1..(Len(ops) + 1) = 1..Len(ops) \cup {Len(ops) + 1} /\ (Len(ops) + 1) \notin 1..Len(ops)
      /\ \A k \in 1..Len(ops) : k < Len(ops) + 1
  BY <1>3
<1> QED BY <1>1, <1>3, <1>4, <1>5 DEF Adds

(* No callback names an operation that is not there yet.                    *)
LEMMA AddedPlace ==
  ASSUME Typed, NEW q, NEW o, NEW t, NEW kind, NEW g, NEW client, Adds(o, t, kind, g, client),
         \A a \in Elems(q) : a.do = "stop" \/ a.n \in DOMAIN ops,
         DOMAIN o = DOMAIN ops, MatchedOf(o, q), NEW ov, SortedOf(o, q, ov),
         ready' = q, overlap' \/ overlap' = ov, overlap' \in BOOLEAN,
         ov \in BOOLEAN, ov => overlap'
  PROVE  Matched' /\ Sorted'
<1> DEFINE n == Len(ops) + 1
<1>1. \A d \in {"start", "step", "cancel"} : Cb(d, n) \notin Elems(q)
  <2>1. ASSUME NEW d \in {"start", "step", "cancel"}, Cb(d, n) \in Elems(q)  PROVE FALSE
    <3>1. n \in Nat /\ n \notin DOMAIN ops  BY DEF Adds
    <3>2. Cb(d, n).do = d /\ Cb(d, n).n = n  BY <3>1, CbFacts
    <3> QED BY <2>1, <3>1, <3>2
  <2> QED BY <2>1
<1>2. Place(q, n, "new", FALSE)
  BY <1>1, NeverTwice DEF Place
<1>3. MatchedOf(ops', q)
  BY <1>2 DEF MatchedOf, Adds
<1>4. SortedOf(ops', q, overlap')
  <2> SUFFICES ASSUME NEW m \in DOMAIN ops', NEW k \in DOMAIN ops', m < k,
                      ops'[m].by = ops'[k].by \/ (ops'[k].kind = "shutdown" /\ ~overlap'),
                      ops'[m].dropped
               PROVE  /\ ops'[m].st = "queued" =>
                           /\ ops'[k].st \in {"new", "queued"}
                           /\ Guarded(q, Cb("start", m), Cb("start", k))
                      /\ ops'[m].st \in {"created", "running", "exiting"} =>
                           /\ ops'[k].st \in {"new", "queued", "created"}
                           /\ Guarded(q, Cb("cancel", m), Cb("step", k))
    BY DEF SortedOf
  <2>1. m \in DOMAIN ops /\ ops'[m] = o[m] /\ o[m].dropped
    BY DEF Adds
  <2>2. CASE k = n
    <3>1. ops'[k].st = "new"  BY <2>2 DEF Adds
    <3> QED BY <1>1, <2>2, <3>1, NothingToGuard
  <2>3. CASE k # n
    <3>1. k \in DOMAIN ops /\ ops'[k] = o[k]  BY <2>3 DEF Adds
    <3> QED BY <2>1, <3>1 DEF SortedOf
  <2> QED BY <2>2, <2>3
<1> QED BY <1>3, <1>4, MatchedIs, SortedIs

(* A request to stop the loop does not concern the operations.              *)
LEMMA StopBehind ==
  ASSUME Typed, NEW o, NEW q \in Seq(Callback), NEW ov, DOMAIN o = DOMAIN ops,
         MatchedOf(o, q), SortedOf(o, q, ov)
  PROVE  MatchedOf(o, q \o Soon("stop", 0)) /\ SortedOf(o, q \o Soon("stop", 0), ov)
<1> DEFINE r == q \o Soon("stop", 0)
           x == Cb("stop", 0)
<1>1. Gains(q, r, x)  BY PutCallback
<1>2. \A d \in {"start", "step", "cancel"} : \A n \in DOMAIN ops : Cb(d, n) # x
  BY CbFacts, Apart
<1> HIDE DEF r, x
<1>3. MatchedOf(o, r)
  BY <1>1, <1>2 DEF MatchedOf, Place, Gains
<1>4. SortedOf(o, r, ov)
  BY <1>1, <1>2 DEF SortedOf, Gains
<1> QED BY <1>3, <1>4 DEF r

--------------------------------------------------------------------------------
(* The end of a thread's operation: it returned, it raised, or an interrupt *)
(* dropped it (d), and then its cancellation may be on its way.             *)
CancelOf(t, d) ==
  IF d /\ Op(t).st \in {"created", "running", "exiting"} THEN Soon("cancel", current[t]) ELSE <<>>

Ends(t, d, o) ==
  /\ current[t] # 0 /\ pc[t] \in {"submit", "wait"} /\ d \in BOOLEAN
  /\ Alike(o, current[t], d)
  /\ d => pc[t] = "wait" /\ Op(t).st \in Pending
  /\ ~d => Op(t).st \in {"new"} \cup Done
  /\ d /\ Op(t).kind \in {"start", "shutdown"} => cut'
  /\ cut' \in BOOLEAN /\ (cut => cut')
  /\ UNCHANGED <<loop, http, streams, overlap>>

(* When a thread's operation ends, the loop's queue still fits.             *)
LEMMA EndsQueue ==
  ASSUME IInv, NEW t \in Threads, NEW d \in BOOLEAN, NEW o, Ends(t, d, o)
  PROVE  LET q == ready \o CancelOf(t, d)
         IN /\ q \in Seq(Callback) /\ MatchedOf(o, q) /\ SortedOf(o, q, overlap)
            /\ \A a \in Elems(q) : a.do = "stop" \/ a.n \in DOMAIN ops
            /\ NoStop => \A a \in Elems(q) : a.do # "stop"
<1> DEFINE n == current[t]
           q == ready \o CancelOf(t, d)
<1>0. Typed /\ n \in DOMAIN ops /\ n \in Nat /\ Op(t) = ops[n]
  BY Shape DEF IInv, Ends, Op
<1>1. /\ DOMAIN o = DOMAIN ops
      /\ \A k \in DOMAIN ops : /\ o[k].st = ops[k].st /\ o[k].by = ops[k].by
                               /\ o[k].kind = ops[k].kind
                               /\ o[k].dropped = IF k = n THEN d ELSE ops[k].dropped
  BY DEF Ends, Alike
<1>2. /\ ops[n].by = t /\ ~ops[n].dropped
      /\ \A k \in DOMAIN ops : k > n => ops[k].by # t /\ (ops[k].kind = "shutdown" => overlap)
  BY <1>0 DEF IInv, Callers, Formed, Ends, Op
<1>3. MatchedOf(ops, ready) /\ SortedOf(ops, ready, overlap) /\ ready \in Seq(Callback)
  BY <1>0, MatchedIs, SortedIs DEF IInv, Typed
<1>4. Cb("cancel", n) \notin Elems(ready)
  BY <1>0, <1>2 DEF IInv, Matched
<1>5. CASE d /\ ops[n].st \in {"created", "running", "exiting"}
  <2> DEFINE x == Cb("cancel", n)
  <2>1. q = ready \o Soon("cancel", n)
    BY <1>0, <1>5 DEF CancelOf
  <2> HIDE DEF q, n
  <2>2. q \in Seq(Callback) /\ Gains(ready, q, x)
    BY <1>0, <1>3, <2>1, PutCallback
  <2>3. x.n = n /\ x.do = "cancel"
    BY <1>0, CbFacts
  <2>4. \A e \in {"start", "step"} : \A k \in DOMAIN ops : Cb(e, k) # x
    BY <1>0, Apart
  <2>5. \A k \in DOMAIN ops : k # n => Cb("cancel", k) # x
    BY <1>0, Apart
  <2> HIDE DEF x
  <2>6. MatchedOf(o, q)
    <3> SUFFICES ASSUME NEW k \in DOMAIN ops  PROVE Place(q, k, o[k].st, o[k].dropped)
      BY <1>1 DEF MatchedOf
    <3>1. Place(ready, k, ops[k].st, ops[k].dropped)
      BY <1>3 DEF MatchedOf
    <3>2. CASE k # n
      <4>1. Place(q, k, ops[k].st, ops[k].dropped)
        BY <2>2, <2>4, <2>5, <3>1, <3>2 DEF Place, Gains
      <4> QED BY <1>1, <3>2, <4>1
    <3>3. CASE k = n
      <4>1. ops[n].st = "created" => Guarded(q, Cb("step", n), x)
        <5>1. x \notin Elems(ready)  BY <1>4 DEF x
        <5>2. ops[n].st = "created" => Cb("step", n) \in Elems(ready)
          BY <3>1, <3>3 DEF Place
        <5> QED BY <2>2, <5>1, <5>2, NothingToGuard DEF Gains
      <4>2. Place(q, n, ops[n].st, TRUE)
        BY <1>5, <2>2, <2>4, <3>1, <3>3, <4>1 DEF Place, Gains, x
      <4> QED BY <1>1, <1>5, <3>3, <4>2
    <3> QED BY <3>2, <3>3
  <2>7. SortedOf(o, q, overlap)
    <3> SUFFICES ASSUME NEW m \in DOMAIN ops, NEW k \in DOMAIN ops, m < k, o[m].dropped,
                        o[m].by = o[k].by \/ (o[k].kind = "shutdown" /\ ~overlap)
                 PROVE  /\ o[m].st = "queued" =>
                             /\ o[k].st \in {"new", "queued"}
                             /\ Guarded(q, Cb("start", m), Cb("start", k))
                        /\ o[m].st \in {"created", "running", "exiting"} =>
                             /\ o[k].st \in {"new", "queued", "created"}
                             /\ Guarded(q, Cb("cancel", m), Cb("step", k))
      BY <1>1 DEF SortedOf
    <3>1. k \in Nat /\ m \in Nat  BY <1>0, Apart
    <3>2. m # n  BY <1>0, <1>1, <1>2, <3>1
    <3>3. ops[m].dropped  BY <1>1, <3>2
    <3>4. /\ ops[m].st = "queued" =>
               ops[k].st \in {"new", "queued"} /\ Guarded(ready, Cb("start", m), Cb("start", k))
          /\ ops[m].st \in {"created", "running", "exiting"} =>
               /\ ops[k].st \in {"new", "queued", "created"}
               /\ Guarded(ready, Cb("cancel", m), Cb("step", k))
      BY <1>1, <1>3, <3>3 DEF SortedOf
    <3>5. Cb("start", k) # x /\ Cb("step", k) # x  BY <2>4
    <3> QED BY <1>1, <2>2, <3>4, <3>5 DEF Gains
  <2>8. \A a \in Elems(q) : a \in Elems(ready) \/ a = x
    BY <2>2 DEF Gains
  <2> QED BY <1>0, <2>2, <2>3, <2>6, <2>7, <2>8 DEF Typed, NoStop, q
<1>6. CASE ~(d /\ ops[n].st \in {"created", "running", "exiting"})
  <2>1. q = ready
    BY <1>0, <1>3, <1>6, PutCallback DEF CancelOf
  <2> HIDE DEF q, n
  <2>2. MatchedOf(o, q)
    <3> SUFFICES ASSUME NEW k \in DOMAIN ops  PROVE Place(q, k, o[k].st, o[k].dropped)
      BY <1>1 DEF MatchedOf
    <3>1. Place(ready, k, ops[k].st, ops[k].dropped)
      BY <1>3 DEF MatchedOf
    <3>2. CASE k # n  BY <1>1, <2>1, <3>1, <3>2
    <3>3. CASE k = n
      BY <1>1, <1>2, <1>6, <2>1, <3>1, <3>3 DEF Place
    <3> QED BY <3>2, <3>3
  <2>3. SortedOf(o, q, overlap)
    <3> SUFFICES ASSUME NEW m \in DOMAIN ops, NEW k \in DOMAIN ops, m < k, o[m].dropped,
                        o[m].by = o[k].by \/ (o[k].kind = "shutdown" /\ ~overlap)
                 PROVE  /\ o[m].st = "queued" =>
                             /\ o[k].st \in {"new", "queued"}
                             /\ Guarded(q, Cb("start", m), Cb("start", k))
                        /\ o[m].st \in {"created", "running", "exiting"} =>
                             /\ o[k].st \in {"new", "queued", "created"}
                             /\ Guarded(q, Cb("cancel", m), Cb("step", k))
      BY <1>1 DEF SortedOf
    <3>1. k \in Nat /\ m \in Nat  BY <1>0, Apart
    <3>2. m # n  BY <1>0, <1>1, <1>2, <3>1
    <3>3. ops[m].dropped  BY <1>1, <3>2
    <3> QED BY <1>1, <1>3, <2>1, <3>3 DEF SortedOf
  <2> QED BY <1>0, <1>3, <2>1, <2>2, <2>3 DEF Typed, NoStop, q
<1> QED BY <1>5, <1>6

(* What a thread whose operation ends knows, whatever follows.              *)
LEMMA EndsFacts ==
  ASSUME IInv, NEW t \in Threads, NEW d \in BOOLEAN, NEW o, Ends(t, d, o)
  PROVE  /\ Typed /\ current[t] \in DOMAIN ops /\ Op(t) = ops[current[t]] /\ Op(t).by = t
         /\ \A k \in DOMAIN ops :
              /\ o[k].kind = ops[k].kind /\ o[k].stream = ops[k].stream /\ o[k].by = ops[k].by
              /\ o[k].client = ops[k].client /\ o[k].st = ops[k].st
              /\ ops[k].dropped => o[k].dropped
         /\ \A k \in DOMAIN ops :
              /\ o[k].st \in Pending /\ ~o[k].dropped => ops[k].by # t /\ ~ops[k].dropped
              /\ o[k].dropped => o[k].st # "new"
              /\ o[k].dropped /\ o[k].kind \in {"start", "shutdown"} => cut'
         /\ o \in Seq(Operation) /\ Len(o) = Len(ops) /\ DOMAIN o = DOMAIN ops
         /\ cut' \in BOOLEAN /\ (cut => cut') /\ UNCHANGED <<loop, http, streams, overlap>>
         /\ \A u \in Threads : /\ current[u] # 0 => current[u] \in DOMAIN ops
                               /\ iterating[u] # 0 => iterating[u] \in DOMAIN streams
                               /\ current[u] \in DOMAIN ops => current[u] # 0
<1> DEFINE n == current[t]
<1>0. Typed /\ n \in DOMAIN ops /\ n # 0 /\ Op(t) = ops[n]
  BY Shape DEF IInv, Ends, Op
<1>1. /\ ops[n].by = t /\ ~ops[n].dropped
  BY <1>0 DEF IInv, Callers, Formed, Ends, Op
<1>2. \A k \in DOMAIN ops : o[k].dropped = (IF k = n THEN d ELSE ops[k].dropped)
  BY DEF Ends, Alike
<1>3. \A k \in DOMAIN ops :
        /\ o[k].kind = ops[k].kind /\ o[k].stream = ops[k].stream /\ o[k].by = ops[k].by
        /\ o[k].client = ops[k].client /\ o[k].st = ops[k].st
        /\ ops[k].dropped => o[k].dropped
  <2>1. \A k \in DOMAIN ops : ops[k].dropped => k # n  BY <1>1
  <2> QED BY <1>2, <2>1 DEF Ends, Alike
<1>4. ASSUME NEW k \in DOMAIN ops
      PROVE  /\ o[k].st \in Pending /\ ~o[k].dropped => ops[k].by # t /\ ~ops[k].dropped
             /\ o[k].dropped => o[k].st # "new"
             /\ o[k].dropped /\ o[k].kind \in {"start", "shutdown"} => cut'
  <2>1. CASE k = n
    BY <1>0, <1>2, <1>3, <2>1 DEF Ends, Pending, Done
  <2>2. CASE k # n
    BY <1>0, <1>2, <1>3, <2>2 DEF IInv, Callers, Formed, Ends
  <2> QED BY <2>1, <2>2
<1>5. \A u \in Threads : /\ current[u] # 0 => current[u] \in DOMAIN ops
                         /\ iterating[u] # 0 => iterating[u] \in DOMAIN streams
                         /\ current[u] \in DOMAIN ops => current[u] # 0
  BY <1>0, Shape, Apart
<1> HIDE DEF n
<1> QED BY <1>0, <1>1, <1>3, <1>4, <1>5 DEF Ends, Alike, n

(* The client did not start: the constructor stops the loop.                *)
LEMMA StartFailsStep ==
  ASSUME IInv, NEW t \in Threads, NEW d \in BOOLEAN, NEW o, Ends(t, d, o),
         Op(t).kind = "start", ~cut' => Op(t).st = "error",
         Run(t, "shutdown", 0, FALSE, o), ready' = ready \o CancelOf(t, d),
         UNCHANGED <<closed, iterating, left>>
  PROVE  IInv'
<1> DEFINE n == current[t]
           l == Len(ops) + 1
<1>1. /\ Typed /\ n \in DOMAIN ops /\ Op(t) = ops[n] /\ ops[n].by = t
      /\ \A k \in DOMAIN ops :
           /\ o[k].kind = ops[k].kind /\ o[k].stream = ops[k].stream /\ o[k].by = ops[k].by
           /\ o[k].client = ops[k].client /\ o[k].st = ops[k].st
           /\ ops[k].dropped => o[k].dropped
      /\ \A k \in DOMAIN ops :
           /\ o[k].st \in Pending /\ ~o[k].dropped => ops[k].by # t /\ ~ops[k].dropped
           /\ o[k].dropped => o[k].st # "new"
           /\ o[k].dropped /\ o[k].kind \in {"start", "shutdown"} => cut'
      /\ o \in Seq(Operation) /\ Len(o) = Len(ops) /\ DOMAIN o = DOMAIN ops
      /\ cut' \in BOOLEAN /\ (cut => cut') /\ UNCHANGED <<loop, http, streams, overlap>>
      /\ \A u \in Threads : /\ current[u] # 0 => current[u] \in DOMAIN ops
                            /\ iterating[u] # 0 => iterating[u] \in DOMAIN streams
                            /\ current[u] \in DOMAIN ops => current[u] # 0
  BY EndsFacts
<1>2. Adds(o, t, "shutdown", 0, FALSE)
  BY <1>1, RunAdds
<1>3. pc' = [pc EXCEPT ![t] = "submit"] /\ current' = [current EXCEPT ![t] = l]
  BY <1>1 DEF Run
<1>4. /\ ready' \in Seq(Callback) /\ MatchedOf(o, ready') /\ SortedOf(o, ready', overlap)
      /\ \A a \in Elems(ready') : a.do = "stop" \/ a.n \in DOMAIN ops
      /\ NoStop => NoStop'
  BY EndsQueue DEF NoStop
<1>5. n = 1 /\ ~ops[n].client
  BY <1>1 DEF IInv, Formed
<1>6. /\ t = Main /\ iterating[t] = 0 /\ loop = "running" /\ ~closed /\ NoStop
      /\ \A u \in Threads : u # t => pc[u] = "new"
      /\ \A k \in DOMAIN ops : ~ops[k].client
  BY <1>1, <1>5 DEF IInv, Built, Ends
<1>7. \A u \in Threads : u # t => current[u] = 0 /\ iterating[u] = 0
  BY <1>1, <1>6 DEF IInv, Typed, Built
<1>8. /\ DOMAIN ops' = DOMAIN ops \cup {l} /\ l \notin DOMAIN ops /\ l # 0 /\ l \in Nat
      /\ Len(ops') = l
      /\ \A k \in DOMAIN ops :
           /\ ops'[k].kind = ops[k].kind /\ ops'[k].stream = ops[k].stream
           /\ ops'[k].by = ops[k].by /\ ops'[k].client = ops[k].client
           /\ ops'[k].st = ops[k].st /\ ops'[k].dropped = o[k].dropped /\ k < l
      /\ ops'[l].kind = "shutdown" /\ ops'[l].stream = 0 /\ ops'[l].by = t
      /\ ops'[l].client = FALSE /\ ops'[l].st = "new" /\ ops'[l].dropped = FALSE
  BY <1>1, <1>2 DEF Adds
<1>9. /\ pc \in [Threads -> {"new", "failed", "idle", "submit", "wait", "join"}]
      /\ current \in [Threads -> 0..Len(ops)] /\ iterating \in [Threads -> 0..Len(streams)]
      /\ overlap \in BOOLEAN /\ Len(ops) \in Nat
  BY <1>1, Shape DEF Typed
<1>18. /\ \A k \in DOMAIN ops :
            /\ ops'[k].st \in Pending /\ ~ops'[k].dropped =>
                 ops[k].by # t /\ ops[k].st \in Pending /\ ~ops[k].dropped
            /\ ops'[k].dropped => ops'[k].st # "new"
            /\ ops'[k].dropped /\ ops'[k].kind \in {"start", "shutdown"} => cut'
            /\ ops[k].dropped => ops'[k].dropped
            /\ ops[k].by \in Threads /\ k # 0
  BY <1>1, <1>8, Shape, Apart
<1>19. UNCHANGED <<loop, http, streams, overlap>> /\ Len(streams') = Len(streams)
  BY <1>1
<1> HIDE DEF l, n
<1>10. /\ pc'[t] = "submit" /\ current'[t] = l
       /\ \A u \in Threads : u # t => pc'[u] = pc[u] /\ current'[u] = current[u]
  BY <1>3, <1>9
<1>11. Typed'
  <2>1. pc' \in [Threads -> {"new", "failed", "idle", "submit", "wait", "join"}]
    BY <1>3, <1>9
  <2>2. current' \in [Threads -> 0..Len(ops')]
    BY <1>3, <1>8, <1>9 DEF l
  <2>3. \A u \in Threads : pc'[u] \in {"submit", "wait", "join"} <=> current'[u] # 0
    BY <1>1, <1>8, <1>10 DEF Typed
  <2>4. ops' \in Seq(Operation)  BY <1>2 DEF Adds
  <2> QED BY <1>1, <1>4, <1>8, <2>1, <2>2, <2>3, <2>4 DEF Typed
<1>12. Formed'
  <2>1. \A k \in DOMAIN ops : k # l  BY <1>8
  <2>2. l # 1  BY <1>1, <1>5, <1>8
  <2>3. ASSUME NEW k \in DOMAIN ops
        PROVE  /\ ops'[k].stream \in 0..Len(streams')
               /\ ops'[k].stream # 0 <=> ops'[k].kind \in {"anext", "aclose"}
               /\ ops'[k].st = "exiting" => ops'[k].kind = "shutdown"
               /\ ops'[k].kind = "start" <=> k = 1
               /\ ops'[k].client => ops'[k].kind # "start"
               /\ ops'[k].kind \notin {"start", "shutdown"} => ops'[k].client
               /\ ops'[k].dropped => ops'[k].st # "new"
               /\ ops'[k].st = "cancelling" => ops'[k].dropped
               /\ ops'[k].dropped /\ ops'[k].kind \in {"start", "shutdown"} => cut'
    BY <1>8, <1>18, <1>19 DEF IInv, Formed
  <2>4. ops'[l].stream \in 0..Len(streams')
    BY <1>1, <1>8, <1>19, Shape
  <2> QED BY <1>8, <2>2, <2>3, <2>4 DEF Formed
<1>13. Matched' /\ Sorted'
  BY <1>1, <1>2, <1>4, <1>9, AddedPlace
<1>14. Callers'
  <2>1. \A u \in Threads : current'[u] # 0 => u = t
    BY <1>7, <1>10
  <2>2. \A k \in DOMAIN ops : ops'[k].st \in Pending /\ ~ops'[k].dropped => FALSE
    BY <1>7, <1>18 DEF IInv, Callers
  <2>3. \A k \in DOMAIN ops' : ~(k > l)
    BY <1>8
  <2> QED BY <1>8, <1>10, <2>1, <2>2, <2>3 DEF Callers, Op, Pending
<1>15. Built'
  <2>1. \A u \in Threads : pc'[u] # "idle"
    BY <1>6, <1>10
  <2>2. \A k \in DOMAIN ops' : ~ops'[k].client
    BY <1>6, <1>8
  <2>3. NoStop' /\ loop' = "running" /\ ~closed'
    BY <1>1, <1>4, <1>6
  <2>4. \A u \in Threads : current'[u] # 0 => u = t
    BY <1>7, <1>10
  <2>5. ops' # <<>> /\ (ops'[1].st # "ok" => http' = "none")
    <3>1. ops # <<>> /\ 1 \in DOMAIN ops  BY <1>1, <1>5 DEF Typed
    <3>2. ops' # <<>>  BY <1>2 DEF Adds
    <3> QED BY <1>1, <1>8, <3>1, <3>2 DEF IInv, Built
  <2>6. \A u \in Threads : pc'[u] \in {"new", "failed"} => iterating'[u] = 0
    BY <1>6, <1>7
  <2> QED BY <1>6, <1>7, <1>10, <2>1, <2>2, <2>3, <2>4, <2>5, <2>6 DEF Built
<1>16. Streaming'
  <2>1. \A k \in DOMAIN ops : k # l  BY <1>8
  <2>2. \A u \in Threads : iterating'[u] = 0
    BY <1>6, <1>7
  <2>3. (\A m, k \in DOMAIN ops :
           m < k /\ ops[m].stream # 0 /\ ops[m].stream = ops[k].stream => ops[m].st \in Done)'
    <3> SUFFICES ASSUME NEW m \in DOMAIN ops', NEW k \in DOMAIN ops', m < k,
                        ops'[m].stream # 0, ops'[m].stream = ops'[k].stream
                 PROVE  ops'[m].st \in Done
      OBVIOUS
    <3>1. m \in DOMAIN ops /\ k \in DOMAIN ops  BY <1>8
    <3> QED BY <1>8, <3>1 DEF IInv, Streaming
  <2>4. (\A m \in DOMAIN ops :
           /\ ops[m].kind = "anext" /\ ops[m].st \in {"running", "cancelling"}
                => streams[ops[m].stream] = "running"
           /\ ops[m].kind = "aclose" /\ ops[m].st \in Done
                => streams[ops[m].stream] = "ended")'
    <3> SUFFICES ASSUME NEW m \in DOMAIN ops'
                 PROVE  /\ ops'[m].kind = "anext" /\ ops'[m].st \in {"running", "cancelling"}
                             => streams'[ops'[m].stream] = "running"
                        /\ ops'[m].kind = "aclose" /\ ops'[m].st \in Done
                             => streams'[ops'[m].stream] = "ended"
      OBVIOUS
    <3>1. CASE m = l  BY <1>8, <3>1
    <3>2. CASE m # l
      <4>1. /\ m \in DOMAIN ops /\ ops'[m].kind = ops[m].kind
            /\ ops'[m].stream = ops[m].stream /\ ops'[m].st = ops[m].st
        BY <1>8, <3>2
      <4>2. streams' = streams  BY <1>19
      <4> QED BY <4>1, <4>2 DEF IInv, Streaming
    <3> QED BY <3>1, <3>2
  <2> QED BY <2>2, <2>3, <2>4 DEF Streaming
<1>17. ASSUME ~cut', ~overlap, Quiet  PROVE Quiet'
  <2>1. \A k \in DOMAIN ops : ops[k].kind # "shutdown"
    <3> SUFFICES ASSUME NEW k \in DOMAIN ops, ops[k].kind = "shutdown"  PROVE FALSE
      OBVIOUS
    <3>1. current[ops[k].by] = k /\ ops[k].by \in Threads /\ k # 0
      BY <1>1, <1>6, <1>17, Shape, Apart DEF Quiet
    <3>2. ops[k].by = t  BY <1>7, <3>1
    <3> QED BY <1>1, <3>1, <3>2 DEF n
  <2>2. ops'[1].st = "error"
    BY <1>1, <1>5, <1>8, <1>17
  <2>3. \A u \in Threads : current'[u] # 0 => u = t
    BY <1>7, <1>10
  <2>4. \A u \in Threads : u # t => current'[u] = 0 /\ iterating'[u] = 0
    BY <1>7, <1>10
  <2>5. \A k \in DOMAIN ops' : ops'[k].kind = "shutdown" => k = l
    BY <1>8, <2>1
  <2>6. \A g \in left' : streams'[g] = "ended"
    BY <1>1, <1>17 DEF Quiet
  <2>7. NoStop' /\ loop' = "running" /\ ~closed'
    BY <1>1, <1>4, <1>6
  <2> QED BY <1>8, <1>10, <2>2, <2>3, <2>4, <2>5, <2>6, <2>7 DEF Quiet, Closing
<1> QED BY <1>1, <1>11, <1>12, <1>13, <1>14, <1>15, <1>16, <1>17 DEF IInv

(* A thread leaves its operation behind: the streams stay as they are.      *)
LEMMA StreamingSame ==
  ASSUME Typed, Formed, Streaming, DOMAIN ops' = DOMAIN ops,
         \A h \in DOMAIN streams : streams'[h] = streams[h],
         \A k \in DOMAIN ops : /\ ops'[k].kind = ops[k].kind /\ ops'[k].stream = ops[k].stream
                               /\ ops'[k].st = ops[k].st,
         \A u \in Threads : iterating'[u] # 0 =>
           /\ iterating'[u] = iterating[u]
           /\ \/ current'[u] = current[u]
              \/ current[u] # 0 /\ current'[u] = 0 /\ (Op(u).stream = 0 \/ Op(u).st = "ok")
  PROVE  Streaming'
<1>1. (\A n, k \in DOMAIN ops :
         n < k /\ ops[n].stream # 0 /\ ops[n].stream = ops[k].stream => ops[n].st \in Done)'
  BY DEF Streaming
<1>2. (\A n \in DOMAIN ops :
         /\ ops[n].kind = "anext" /\ ops[n].st \in {"running", "cancelling"}
              => streams[ops[n].stream] = "running"
         /\ ops[n].kind = "aclose" /\ ops[n].st \in Done => streams[ops[n].stream] = "ended")'
  <2>1. \A n \in DOMAIN ops : ops[n].kind \in {"anext", "aclose"} =>
          ops[n].stream \in DOMAIN streams
    BY Shape DEF Formed
  <2> QED BY <2>1 DEF Streaming
<1>3. ASSUME NEW u \in Threads, iterating'[u] # 0
      PROVE  /\ \A w \in Threads : iterating'[w] = iterating'[u] => w = u
             /\ \A n \in DOMAIN ops :
                  ops'[n].stream = iterating'[u] /\ n # current'[u] => ops'[n].st \in Done
             /\ \/ streams'[iterating'[u]] \in {"suspended", "ended"}
                \/ current'[u] # 0 /\ ops'[current'[u]].stream = iterating'[u]
                   /\ ops'[current'[u]].st # "ok"
  <2>1. iterating'[u] = iterating[u] /\ iterating[u] # 0
    BY <1>3
  <2>2. \A w \in Threads : iterating'[w] = iterating'[u] => w = u
    BY <1>3, <2>1 DEF Streaming
  <2>3. (current[u] # 0 => current[u] \in DOMAIN ops) /\ iterating[u] \in DOMAIN streams
    BY <2>1, Shape
  <2>4. /\ \A n \in DOMAIN ops :
             ops[n].stream = iterating[u] /\ n # current[u] => ops[n].st \in Done
        /\ \/ streams[iterating[u]] \in {"suspended", "ended"}
           \/ current[u] # 0 /\ ops[current[u]].stream = iterating[u]
              /\ ops[current[u]].st # "ok"
    BY <2>1 DEF Streaming, Op
  <2>5. CASE current'[u] = current[u]
    BY <2>1, <2>2, <2>3, <2>4, <2>5
  <2>6. CASE /\ current[u] # 0 /\ current'[u] = 0
             /\ ops[current[u]].stream = 0 \/ ops[current[u]].st = "ok"
    <3>1. \A n \in DOMAIN ops : ops[n].stream = iterating[u] => ops[n].st \in Done
      BY <2>1, <2>4, <2>6 DEF Done
    <3>2. streams[iterating[u]] \in {"suspended", "ended"}
      BY <2>1, <2>4, <2>6
    <3> QED BY <2>1, <2>2, <2>3, <3>1, <3>2
  <2> QED BY <1>3, <2>5, <2>6 DEF Op
<1> QED BY <1>1, <1>2, <1>3 DEF Streaming, Op

(* Nor does it change what the operations are.                              *)
LEMMA FormedSame ==
  ASSUME Formed, DOMAIN ops' = DOMAIN ops, Len(streams') = Len(streams),
         \A k \in DOMAIN ops :
           /\ ops'[k].kind = ops[k].kind /\ ops'[k].stream = ops[k].stream
           /\ ops'[k].client = ops[k].client /\ ops'[k].st = ops[k].st
           /\ ops'[k].dropped => ops'[k].st # "new"
           /\ ops'[k].dropped /\ ops'[k].kind \in {"start", "shutdown"} => cut'
           /\ ops[k].dropped => ops'[k].dropped
  PROVE  Formed'
BY DEF Formed

(* The constructor or close has shut the client down, and stops the loop.   *)
LEMMA StopLoopStep ==
  ASSUME IInv, NEW t \in Threads, NEW d \in BOOLEAN, NEW o, Ends(t, d, o),
         Op(t).kind = "shutdown", ~cut' => Op(t).st \in Done,
         closed' = TRUE, ready' = ready \o CancelOf(t, d) \o Soon("stop", 0), ops' = o,
         pc' = [pc EXCEPT ![t] = "join"], UNCHANGED <<current, iterating, left>>
  PROVE  IInv'
<1> DEFINE n == current[t]
           q == ready \o CancelOf(t, d)
<1>1. /\ Typed /\ n \in DOMAIN ops /\ Op(t) = ops[n] /\ ops[n].by = t
      /\ \A k \in DOMAIN ops :
           /\ o[k].kind = ops[k].kind /\ o[k].stream = ops[k].stream /\ o[k].by = ops[k].by
           /\ o[k].client = ops[k].client /\ o[k].st = ops[k].st
           /\ ops[k].dropped => o[k].dropped
      /\ \A k \in DOMAIN ops :
           /\ o[k].st \in Pending /\ ~o[k].dropped => ops[k].by # t /\ ~ops[k].dropped
           /\ o[k].dropped => o[k].st # "new"
           /\ o[k].dropped /\ o[k].kind \in {"start", "shutdown"} => cut'
      /\ o \in Seq(Operation) /\ Len(o) = Len(ops) /\ DOMAIN o = DOMAIN ops
      /\ cut' \in BOOLEAN /\ (cut => cut') /\ UNCHANGED <<loop, http, streams, overlap>>
      /\ \A u \in Threads : /\ current[u] # 0 => current[u] \in DOMAIN ops
                            /\ iterating[u] # 0 => iterating[u] \in DOMAIN streams
                            /\ current[u] \in DOMAIN ops => current[u] # 0
  BY EndsFacts
<1>2. /\ q \in Seq(Callback) /\ MatchedOf(o, q) /\ SortedOf(o, q, overlap)
      /\ \A a \in Elems(q) : a.do = "stop" \/ a.n \in DOMAIN ops
  BY EndsQueue
<1>3. ready' = q \o Soon("stop", 0)
  OBVIOUS
<1> HIDE DEF q, n
<1>4. Matched' /\ Sorted'
  <2>1. MatchedOf(o, ready') /\ SortedOf(o, ready', overlap)
    <3>1. Typed /\ DOMAIN o = DOMAIN ops  BY <1>1
    <3> QED BY <1>2, <1>3, <3>1, StopBehind
  <2>2. ops' = o /\ overlap' = overlap  BY <1>1
  <2> QED BY <2>1, <2>2, MatchedIs, SortedIs
<1>5. /\ \A k \in DOMAIN ops :
           /\ ops'[k].kind = ops[k].kind /\ ops'[k].stream = ops[k].stream
           /\ ops'[k].by = ops[k].by /\ ops'[k].client = ops[k].client
           /\ ops'[k].st = ops[k].st
           /\ k # n => ops'[k].dropped = ops[k].dropped
           /\ ops'[k].st \in Pending /\ ~ops'[k].dropped =>
                ops[k].by # t /\ ops[k].st \in Pending /\ ~ops[k].dropped
           /\ ops'[k].dropped => ops'[k].st # "new"
           /\ ops'[k].dropped /\ ops'[k].kind \in {"start", "shutdown"} => cut'
           /\ ops[k].dropped => ops'[k].dropped
           /\ ops[k].by \in Threads
      /\ DOMAIN ops' = DOMAIN ops /\ Len(ops') = Len(ops)
  BY <1>1, Shape DEF Ends, Alike, n
<1>14. /\ n \in DOMAIN ops /\ Op(t) = ops[n] /\ ops[n].by = t /\ n = current[t]
       /\ UNCHANGED <<loop, http, streams, overlap>> /\ Len(streams') = Len(streams)
  BY <1>1 DEF n
<1>15. \A u \in Threads : /\ current[u] # 0 => current[u] \in DOMAIN ops
                          /\ iterating[u] # 0 => iterating[u] \in DOMAIN streams
                          /\ current[u] \in DOMAIN ops => current[u] # 0
  BY <1>1
<1>6. /\ pc'[t] = "join" /\ \A u \in Threads : u # t => pc'[u] = pc[u]
      /\ pc' \in [Threads -> {"new", "failed", "idle", "submit", "wait", "join"}]
  BY <1>1 DEF Typed
<1>7. current[t] # 0 /\ pc[t] \in {"submit", "wait"}
  BY DEF Ends
<1>8. Typed'
  <2>1. ready' \in Seq(Callback) /\ Gains(q, ready', Cb("stop", 0))
    BY <1>2, <1>3, PutCallback
  <2>2. Cb("stop", 0).do = "stop"  BY CbFacts
  <2>3. \A a \in Elems(ready') : a.do = "stop" \/ a.n \in DOMAIN ops
    BY <1>2, <2>1, <2>2 DEF Gains
  <2>4. \A u \in Threads : pc'[u] \in {"submit", "wait", "join"} <=> current'[u] # 0
    BY <1>1, <1>6, <1>7 DEF Typed
  <2> QED BY <1>1, <1>5, <1>6, <2>1, <2>3, <2>4 DEF Typed
<1>9. Formed'
  BY <1>5, <1>14, FormedSame DEF IInv
<1>10. Callers'
  <2>1. ASSUME NEW u \in Threads, current[u] # 0
        PROVE  /\ ops'[current[u]].by = u
               /\ \A k \in DOMAIN ops' :
                    k > current[u] => ops'[k].by # u /\ (ops'[k].kind = "shutdown" => overlap)
               /\ ops'[current[u]].stream # 0 => ops'[current[u]].stream = iterating[u]
               /\ ops'[current[u]].st = ops[current[u]].st
               /\ ops'[current[u]].kind = ops[current[u]].kind
    <3>1. current[u] \in DOMAIN ops
      BY <1>15, <2>1
    <3>2. /\ ops[current[u]].by = u
          /\ \A k \in DOMAIN ops :
               k > current[u] => ops[k].by # u /\ (ops[k].kind = "shutdown" => overlap)
          /\ ops[current[u]].stream # 0 => ops[current[u]].stream = iterating[u]
      BY <2>1 DEF IInv, Callers, Op
    <3> QED BY <1>5, <3>1, <3>2
  <2>2. \A u \in Threads : u # t /\ current[u] # 0 =>
          /\ pc'[u] = "submit" => ops'[current[u]].st = "new"
          /\ pc'[u] = "wait" => ops'[current[u]].st # "new" /\ ~ops'[current[u]].dropped
          /\ pc'[u] = "join" => ops'[current[u]].kind = "shutdown"
    <3> SUFFICES ASSUME NEW u \in Threads, u # t, current[u] # 0
                 PROVE  /\ pc'[u] = "submit" => ops'[current[u]].st = "new"
                        /\ pc'[u] = "wait" => /\ ops'[current[u]].st # "new"
                                              /\ ~ops'[current[u]].dropped
                        /\ pc'[u] = "join" => ops'[current[u]].kind = "shutdown"
      OBVIOUS
    <3>1. current[u] # n
      BY <1>7, <1>14 DEF IInv, Callers, Op
    <3>2. current[u] \in DOMAIN ops /\ ops'[current[u]].dropped = ops[current[u]].dropped
      BY <1>5, <1>15, <3>1
    <3> QED BY <1>5, <1>6, <3>2 DEF IInv, Callers, Op
  <2>3. \A k \in DOMAIN ops' : ops'[k].st \in Pending /\ ~ops'[k].dropped =>
          current'[ops'[k].by] = k /\ pc'[ops'[k].by] = "wait"
    BY <1>5, <1>6 DEF IInv, Callers
  <2>4. ops'[current[t]].kind = "shutdown"
    BY <1>5, <1>14
  <2>5. \A u \in Threads : pc'[u] = "join" => u = t \/ pc[u] = "join"
    BY <1>6
  <2>6. ASSUME NEW u \in Threads, current[u] # 0
        PROVE  /\ ops'[current[u]].by = u
               /\ \A k \in DOMAIN ops' :
                    k > current[u] => ops'[k].by # u /\ (ops'[k].kind = "shutdown" => overlap)
               /\ pc'[u] = "submit" => ops'[current[u]].st = "new"
               /\ pc'[u] = "wait" => ops'[current[u]].st # "new" /\ ~ops'[current[u]].dropped
               /\ pc'[u] = "join" => ops'[current[u]].kind = "shutdown"
               /\ ops'[current[u]].stream # 0 => ops'[current[u]].stream = iterating[u]
    <3>1. CASE u = t  BY <1>6, <2>1, <2>4, <2>6, <3>1
    <3>2. CASE u # t  BY <2>1, <2>2, <2>6, <3>2
    <3> QED BY <3>1, <3>2
  <2>7. current' = current /\ iterating' = iterating /\ overlap' = overlap /\ closed'
    BY <1>14
  <2> QED BY <2>3, <2>6, <2>7 DEF Callers, Op
<1>11. Built'
  <2>1. ops[n].client => \A u \in Threads : pc[u] \notin {"new", "failed"}
    BY <1>1 DEF IInv, Built
  <2>2. ~ops[n].client => t = Main /\ \A u \in Threads : u # Main => pc[u] = "new"
    BY <1>1, <1>7 DEF IInv, Built
  <2>3. pc'[Main] # "new"
    BY <1>6, <2>1, <2>2, SyncClientAssumption
  <2>4. ASSUME NEW u \in Threads, current[u] # 0, ~ops[current[u]].client  PROVE u = t
    <3>1. u = Main /\ \A w \in Threads : w # Main => pc[w] = "new"
      BY <2>4 DEF IInv, Built, Op
    <3> QED BY <1>7, <3>1
  <2>5. 1 \in DOMAIN ops /\ ops # <<>> /\ ops' # <<>>
    BY <1>1, <1>5, Shape DEF Typed
  <2>6. \A u \in Threads : pc'[u] = "idle" => pc[u] = "idle"
    BY <1>6
  <2>7. \A u \in Threads : pc'[u] \in {"new", "failed"} => pc[u] = pc'[u]
    BY <1>6
  <2>8. ops'[1].st = ops[1].st /\ pc'[t] = "join"
    BY <1>5, <1>6, <2>5
  <2>9. (\A u \in Threads : pc[u] = "idle" =>
           /\ 1 \in DOMAIN ops /\ ops[1].st = "ok"
           /\ \A w \in Threads : pc[w] \notin {"new", "failed"})'
    BY <1>5, <2>6, <2>7, <2>8 DEF IInv, Built
  <2>10. (\A k \in DOMAIN ops : ops[k].client =>
            /\ ops[1].st = "ok"
            /\ \A w \in Threads : pc[w] \notin {"new", "failed"})'
    BY <1>5, <2>7, <2>8 DEF IInv, Built
  <2>11. ASSUME NEW u \in Threads, current[u] # 0, ~ops'[current[u]].client
         PROVE  /\ u = Main /\ iterating[u] = 0 /\ pc'[u] = "join"
                /\ \A w \in Threads : w # Main => pc'[w] = "new"
                /\ \A k \in DOMAIN ops : ~ops'[k].client
    <3>1. u = t /\ ~ops[n].client
      BY <1>5, <1>14, <1>15, <2>4, <2>11
    <3>2. t = Main /\ iterating[t] = 0 /\ \A k \in DOMAIN ops : ~ops[k].client
      BY <1>7, <1>14, <3>1 DEF IInv, Built
    <3> QED BY <1>5, <1>6, <2>2, <3>1, <3>2
  <2>12. \A u \in Threads : pc'[u] \in {"new", "failed"} => iterating[u] = 0
    BY <2>7 DEF IInv, Built
  <2>13. ops'[1].st # "ok" => http' = "none"
    BY <1>14, <2>5, <2>8 DEF IInv, Built
  <2> QED BY <1>5, <2>3, <2>5, <2>9, <2>10, <2>11, <2>12, <2>13 DEF Built, Op
<1>12. Streaming'
  BY <1>1, <1>5, <1>14, StreamingSame DEF IInv
<1>13. ASSUME ~cut', ~overlap, Quiet  PROVE Quiet'
  <2>1. ops[n].st = "ok"
    BY <1>1, <1>13 DEF Quiet, Done
  <2>2. Closing(t)
    BY <1>1, <1>7 DEF Closing
  <2>3. \A u \in Threads : u # t => current[u] = 0
    BY <1>13, <2>2 DEF Quiet
  <2>4. \A u \in Threads : Closing(u)' => Closing(u)
    BY <1>1, <1>5 DEF Closing, Op
  <2>5. 1 \in DOMAIN ops
    BY <1>1, Shape
  <2>6. ASSUME NEW k \in DOMAIN ops, ops[k].kind = "shutdown"
        PROVE  /\ k = Len(ops') /\ ops'[k].st # "error"
               /\ ops'[k].client \/ ops'[1].st = "error"
               /\ ops'[k].st \in {"running", "exiting", "ok"} =>
                    \A m \in DOMAIN ops :
                      m = k \/ ops'[m].st \in Done \cup {"cancelling", "new"}
               /\ ops'[k].st \in {"exiting", "ok"} =>
                    /\ \A g \in DOMAIN streams : streams[g] # "suspended"
                    /\ \A u \in Threads : iterating[u] # 0 => streams[iterating[u]] = "ended"
               /\ ops'[k].st = "ok" => http # "open"
    <3>1. k = Len(ops') /\ ops'[k].st # "error"
      BY <1>5, <1>13, <2>6 DEF Quiet
    <3>2. ops'[k].client \/ ops'[1].st = "error"
      BY <1>5, <1>13, <2>5, <2>6 DEF Quiet
    <3>3. ops'[k].st \in {"running", "exiting", "ok"} =>
            \A m \in DOMAIN ops : m = k \/ ops'[m].st \in Done \cup {"cancelling", "new"}
      BY <1>5, <1>13, <2>6 DEF Quiet
    <3>4. ops'[k].st \in {"exiting", "ok"} =>
            /\ \A g \in DOMAIN streams : streams[g] # "suspended"
            /\ \A u \in Threads : iterating[u] # 0 => streams[iterating[u]] = "ended"
      BY <1>5, <1>13, <2>6 DEF Quiet
    <3>5. ops'[k].st = "ok" => http # "open"
      BY <1>5, <1>13, <2>6 DEF Quiet
    <3> QED BY <3>1, <3>2, <3>3, <3>4, <3>5
  <2>7. \E k \in DOMAIN ops' : ops'[k].kind = "shutdown" /\ ops'[k].st = "ok"
    <3>1. n \in DOMAIN ops' /\ ops'[n].kind = "shutdown" /\ ops'[n].st = "ok"
      BY <1>5, <1>14, <2>1
    <3> QED BY <3>1
  <2>8. \A u \in Threads : current'[u] = 0 \/ pc'[u] = "join"
    BY <1>6, <2>3
  <2>9. \A g \in left' : streams'[g] = "ended"
    BY <1>13, <1>14 DEF Quiet
  <2>10. /\ current' = current /\ iterating' = iterating /\ streams' = streams /\ http' = http
         /\ closed' = TRUE /\ DOMAIN ops' = DOMAIN ops
    BY <1>5, <1>14
  <2>11. \E u \in Threads : pc'[u] = "join"
    BY <1>6
  <2>12. \A u \in Threads : Closing(u) =>
           \A w \in Threads : w # u => current[w] = 0 /\ iterating[w] = 0
    BY <1>13 DEF Quiet
  <2>13. (\A k \in DOMAIN ops : ops[k].kind = "shutdown" =>
            /\ k = Len(ops)
            /\ ~closed => current[ops[k].by] = k
            /\ ops[k].st # "error"
            /\ ops[k].client \/ ops[1].st = "error"
            /\ ops[k].st \in {"running", "exiting", "ok"} =>
                 \A m \in DOMAIN ops : m = k \/ ops[m].st \in Done \cup {"cancelling", "new"}
            /\ ops[k].st \in {"exiting", "ok"} =>
                 /\ \A g \in DOMAIN streams : streams[g] # "suspended"
                 /\ \A u \in Threads : iterating[u] # 0 => streams[iterating[u]] = "ended"
            /\ ops[k].st = "ok" => http # "open")'
    BY <1>5, <2>6, <2>10
  <2>14. (\A u \in Threads : Closing(u) =>
            \A w \in Threads : w # u => current[w] = 0 /\ iterating[w] = 0)'
    BY <2>4, <2>10, <2>12
  <2> QED BY <2>7, <2>8, <2>9, <2>10, <2>11, <2>13, <2>14 DEF Quiet
<1> QED BY <1>1, <1>4, <1>8, <1>9, <1>10, <1>11, <1>12, <1>13 DEF IInv

(* The thread goes on, with the result of a call or with an exception.      *)
LEMMA BackStep ==
  ASSUME IInv, NEW t \in Threads, NEW d \in BOOLEAN, NEW o, Ends(t, d, o),
         NEW ended \in BOOLEAN, Op(t).kind # "start",
         Op(t).kind = "shutdown" => loop = "closed",
         ~ended => Op(t).stream = 0 \/ Op(t).st = "ok",
         \/ left' = left
         \/ left' = left \cup {Op(t).stream} /\ Op(t).kind = "aclose" /\ Op(t).st \in Done,
         Back(t, "idle", ended), ops' = o, ready' = ready \o CancelOf(t, d), closed' = closed
  PROVE  IInv'
<1> DEFINE n == current[t]
<1>1. /\ Typed /\ n \in DOMAIN ops /\ Op(t) = ops[n] /\ ops[n].by = t
      /\ \A k \in DOMAIN ops :
           /\ o[k].kind = ops[k].kind /\ o[k].stream = ops[k].stream /\ o[k].by = ops[k].by
           /\ o[k].client = ops[k].client /\ o[k].st = ops[k].st
           /\ ops[k].dropped => o[k].dropped
      /\ \A k \in DOMAIN ops :
           /\ o[k].st \in Pending /\ ~o[k].dropped => ops[k].by # t /\ ~ops[k].dropped
           /\ o[k].dropped => o[k].st # "new"
           /\ o[k].dropped /\ o[k].kind \in {"start", "shutdown"} => cut'
      /\ o \in Seq(Operation) /\ Len(o) = Len(ops) /\ DOMAIN o = DOMAIN ops
      /\ cut' \in BOOLEAN /\ (cut => cut') /\ UNCHANGED <<loop, http, streams, overlap>>
      /\ \A u \in Threads : /\ current[u] # 0 => current[u] \in DOMAIN ops
                            /\ iterating[u] # 0 => iterating[u] \in DOMAIN streams
                            /\ current[u] \in DOMAIN ops => current[u] # 0
  BY EndsFacts
<1>2. /\ ready' \in Seq(Callback) /\ MatchedOf(o, ready') /\ SortedOf(o, ready', overlap)
      /\ \A a \in Elems(ready') : a.do = "stop" \/ a.n \in DOMAIN ops
      /\ NoStop => NoStop'
  BY EndsQueue DEF NoStop
<1>3. current[t] # 0 /\ pc[t] \in {"submit", "wait"}
  BY DEF Ends
<1>4. Matched' /\ Sorted'
  BY <1>1, <1>2, MatchedIs, SortedIs
<1> HIDE DEF n
<1>5. /\ \A k \in DOMAIN ops :
           /\ ops'[k].kind = ops[k].kind /\ ops'[k].stream = ops[k].stream
           /\ ops'[k].by = ops[k].by /\ ops'[k].client = ops[k].client
           /\ ops'[k].st = ops[k].st
           /\ k # n => ops'[k].dropped = ops[k].dropped
           /\ ops'[k].st \in Pending /\ ~ops'[k].dropped =>
                ops[k].by # t /\ ops[k].st \in Pending /\ ~ops[k].dropped
           /\ ops'[k].dropped => ops'[k].st # "new"
           /\ ops'[k].dropped /\ ops'[k].kind \in {"start", "shutdown"} => cut'
           /\ ops[k].dropped => ops'[k].dropped
           /\ ops[k].by \in Threads /\ k # 0
      /\ DOMAIN ops' = DOMAIN ops /\ Len(ops') = Len(ops)
  BY <1>1, Shape, Apart DEF Ends, Alike, n
<1>6. /\ n \in DOMAIN ops /\ Op(t) = ops[n] /\ ops[n].by = t /\ n = current[t]
      /\ UNCHANGED <<loop, http, streams, overlap>> /\ Len(streams') = Len(streams)
      /\ 1 \in DOMAIN ops /\ ops # <<>> /\ ops' # <<>>
  BY <1>1, <1>5, Shape DEF Typed, n
<1>7. \A u \in Threads : /\ current[u] # 0 => current[u] \in DOMAIN ops
                         /\ iterating[u] # 0 => iterating[u] \in DOMAIN streams
                         /\ current[u] \in DOMAIN ops => current[u] # 0
  BY <1>1
<1>8. /\ pc'[t] = "idle" /\ current'[t] = 0
      /\ \A u \in Threads : u # t =>
           pc'[u] = pc[u] /\ current'[u] = current[u] /\ iterating'[u] = iterating[u]
      /\ iterating'[t] = IF ended THEN 0 ELSE iterating[t]
      /\ pc' \in [Threads -> {"new", "failed", "idle", "submit", "wait", "join"}]
  BY <1>1 DEF Typed, Back
<1>9. /\ current' \in [Threads -> 0..Len(ops)] /\ iterating' \in [Threads -> 0..Len(streams)]
  <2>1. Len(ops) \in Nat /\ Len(streams) \in Nat  BY <1>1, Shape
  <2> QED BY <1>1, <2>1 DEF Typed, Back
<1>10. ops[n].client
  BY <1>3, <1>6 DEF IInv, Formed, Built
<1>11. ops[1].st = "ok" /\ \A u \in Threads : pc[u] \notin {"new", "failed"}
  BY <1>6, <1>10 DEF IInv, Built
<1>12. Typed'
  <2>1. left' \subseteq DOMAIN streams
    <3>1. ops[n].kind = "aclose" => ops[n].stream \in DOMAIN streams
      BY <1>1, <1>6, Shape DEF IInv, Formed
    <3> QED BY <1>1, <1>6, <3>1 DEF Typed
  <2>2. \A u \in Threads : pc'[u] \in {"submit", "wait", "join"} <=> current'[u] # 0
    BY <1>1, <1>8 DEF Typed
  <2> QED BY <1>1, <1>2, <1>5, <1>6, <1>8, <1>9, <2>1, <2>2 DEF Typed
<1>13. Formed'
  BY <1>5, <1>6, FormedSame DEF IInv
<1>14. Callers'
  <2>1. ASSUME NEW u \in Threads, current'[u] # 0
        PROVE  /\ ops'[current'[u]].by = u
               /\ \A k \in DOMAIN ops' : k > current'[u] =>
                    ops'[k].by # u /\ (ops'[k].kind = "shutdown" => overlap)
               /\ pc'[u] = "submit" => ops'[current'[u]].st = "new"
               /\ pc'[u] = "wait" => ops'[current'[u]].st # "new" /\ ~ops'[current'[u]].dropped
               /\ pc'[u] = "join" => ops'[current'[u]].kind = "shutdown" /\ closed
               /\ ops'[current'[u]].stream # 0 => ops'[current'[u]].stream = iterating'[u]
    <3>1. u # t /\ current'[u] = current[u] /\ current[u] # 0
      BY <1>8, <2>1
    <3>2. /\ ops[current[u]].by = u
          /\ \A k \in DOMAIN ops : k > current[u] =>
               ops[k].by # u /\ (ops[k].kind = "shutdown" => overlap)
          /\ pc[u] = "submit" => ops[current[u]].st = "new"
          /\ pc[u] = "wait" => ops[current[u]].st # "new" /\ ~ops[current[u]].dropped
          /\ pc[u] = "join" => ops[current[u]].kind = "shutdown" /\ closed
          /\ ops[current[u]].stream # 0 => ops[current[u]].stream = iterating[u]
      BY <3>1 DEF IInv, Callers, Op
    <3>3. current[u] \in DOMAIN ops /\ current[u] # n
      BY <1>6, <1>7, <3>1, <3>2
    <3>4. pc'[u] = pc[u] /\ iterating'[u] = iterating[u]
      BY <1>8, <3>1
    <3>5. /\ ops'[current[u]].by = u
          /\ ops'[current[u]].stream = ops[current[u]].stream
          /\ ops'[current[u]].st = ops[current[u]].st
          /\ ops'[current[u]].kind = ops[current[u]].kind
          /\ ops'[current[u]].dropped = ops[current[u]].dropped
      BY <1>5, <3>2, <3>3
    <3>6. \A k \in DOMAIN ops' : k > current[u] =>
            ops'[k].by # u /\ (ops'[k].kind = "shutdown" => overlap)
      BY <1>5, <3>2
    <3> QED BY <3>1, <3>2, <3>4, <3>5, <3>6
  <2>2. \A k \in DOMAIN ops' : ops'[k].st \in Pending /\ ~ops'[k].dropped =>
          current'[ops'[k].by] = k /\ pc'[ops'[k].by] = "wait"
    BY <1>5, <1>8 DEF IInv, Callers
  <2>3. closed' = closed /\ overlap' = overlap
    BY <1>6
  <2> QED BY <2>1, <2>2, <2>3 DEF Callers, Op
<1>15. Built'
  <2>1. \A u \in Threads : pc'[u] \notin {"new", "failed"}
    BY <1>8, <1>11
  <2>2. ASSUME NEW u \in Threads, current'[u] # 0  PROVE ops'[current'[u]].client
    <3>1. u # t /\ current'[u] = current[u] /\ current[u] \in DOMAIN ops /\ current[u] # 0
      BY <1>7, <1>8, <2>2
    <3>2. ops[current[u]].client
      BY <1>6, <1>10, <3>1 DEF IInv, Built, Op
    <3> QED BY <1>5, <3>1, <3>2
  <2>3. ops'[1].st = "ok" /\ 1 \in DOMAIN ops'
    BY <1>5, <1>6, <1>11
  <2>4. pc'[Main] # "new"
    BY <2>1, SyncClientAssumption
  <2> QED BY <2>1, <2>2, <2>3, <2>4 DEF Built, Op
<1>16. Streaming'
  <2>1. ASSUME NEW u \in Threads, iterating'[u] # 0
        PROVE  /\ iterating'[u] = iterating[u]
               /\ \/ current'[u] = current[u]
                  \/ current[u] # 0 /\ current'[u] = 0 /\ (Op(u).stream = 0 \/ Op(u).st = "ok")
    BY <1>3, <1>8, <2>1
  <2> QED BY <1>1, <1>5, <1>6, <2>1, StreamingSame DEF IInv
<1>17. ASSUME ~cut', ~overlap, Quiet  PROVE Quiet'
  <2>1. ~closed /\ loop # "closed" /\ ops[n].kind # "shutdown"
    BY <1>3, <1>6, <1>17 DEF Quiet
  <2>2. \A k \in DOMAIN ops : ops[k].kind # "shutdown"
    <3> SUFFICES ASSUME NEW k \in DOMAIN ops, ops[k].kind = "shutdown"  PROVE FALSE
      OBVIOUS
    <3>1. current[ops[k].by] = k /\ ops[k].by \in Threads /\ k # 0
      BY <1>5, <1>17, <2>1 DEF Quiet
    <3>2. Closing(ops[k].by)
      BY <3>1 DEF Closing, Op
    <3>3. t = ops[k].by
      BY <1>3, <1>17, <3>1, <3>2 DEF Quiet
    <3> QED BY <1>6, <2>1, <3>1, <3>3
  <2>3. \A k \in DOMAIN ops' : ops'[k].kind # "shutdown"
    BY <1>5, <2>2
  <2>4. \A u \in Threads : ~Closing(u)'
    <3> SUFFICES ASSUME NEW u \in Threads, Closing(u)'  PROVE FALSE
      OBVIOUS
    <3>1. current'[u] # 0 /\ ops'[current'[u]].kind = "shutdown"
      BY DEF Closing, Op
    <3>2. current'[u] = current[u] /\ current[u] \in DOMAIN ops
      BY <1>7, <1>8, <3>1
    <3> QED BY <1>5, <2>3, <3>1, <3>2
  <2>5. \A g \in left' : streams'[g] = "ended"
    <3>1. ops[n].kind = "aclose" /\ ops[n].st \in Done => streams[ops[n].stream] = "ended"
      BY <1>6 DEF IInv, Streaming
    <3>2. \A g \in left : streams[g] = "ended"
      BY <1>17 DEF Quiet
    <3> QED BY <1>6, <3>1, <3>2
  <2>6. ~closed' /\ loop' \in {"none", "running"} /\ NoStop'
    BY <1>2, <1>6, <1>17, <2>1 DEF Quiet
  <2> QED BY <2>3, <2>4, <2>5, <2>6 DEF Quiet
<1>18. (cut => cut') /\ overlap' = overlap
  BY <1>1
<1> QED BY <1>4, <1>12, <1>13, <1>14, <1>15, <1>16, <1>17, <1>18 DEF IInv

(* The constructor returns, and the other threads have a client.            *)
LEMMA StartedStep ==
  ASSUME IInv, NEW t \in Threads, pc[t] = "wait", Op(t).kind = "start", Op(t).st = "ok",
         pc' = [u \in Threads |-> "idle"], current' = [current EXCEPT ![t] = 0],
         UNCHANGED <<closed, loop, http, iterating, ready, ops, streams, history>>
  PROVE  IInv'
<1> USE DEF history
<1> DEFINE n == current[t]
<1>1. Typed /\ n # 0 /\ n \in DOMAIN ops /\ n = 1 /\ ops[1].st = "ok" /\ ~ops[1].client
  <2>1. Typed /\ n # 0  BY DEF IInv, Typed
  <2>2. n \in DOMAIN ops  BY <2>1, Shape
  <2>3. n = 1 /\ ~ops[1].client /\ ops[1].st = "ok"
    BY <2>2 DEF IInv, Formed, Op
  <2> QED BY <2>1, <2>2, <2>3
<1>2. /\ t = Main /\ iterating[t] = 0 /\ ~closed /\ NoStop /\ loop = "running"
      /\ \A u \in Threads : u # t => pc[u] = "new"
      /\ \A k \in DOMAIN ops : ~ops[k].client
  BY <1>1 DEF IInv, Built, Op
<1>3. \A u \in Threads : u # t => current[u] = 0 /\ iterating[u] = 0
  BY <1>1, <1>2 DEF IInv, Typed, Built
<1>4. \A u \in Threads : current'[u] = 0 /\ pc'[u] = "idle" /\ iterating'[u] = 0
  BY <1>1, <1>2, <1>3 DEF Typed
<1>5. \A k \in DOMAIN ops : k \in Nat /\ k # 0 /\ ops[k].by \in Threads
  BY <1>1, Shape, Apart
<1>6. Typed'
  <2>1. current' \in [Threads -> 0..Len(ops)]
    BY <1>1, Shape DEF Typed
  <2>2. pc' \in [Threads -> {"new", "failed", "idle", "submit", "wait", "join"}]
    OBVIOUS
  <2> QED BY <1>1, <1>4, <2>1, <2>2 DEF Typed
<1>7. Formed' /\ Matched' /\ Sorted'
  BY DEF IInv, Formed, Matched, Sorted, Follows
<1>8. \A k \in DOMAIN ops : ops[k].st \in Pending /\ ~ops[k].dropped => FALSE
  <2> SUFFICES ASSUME NEW k \in DOMAIN ops, ops[k].st \in Pending, ~ops[k].dropped
               PROVE  FALSE
    OBVIOUS
  <2>1. current[ops[k].by] = k  BY DEF IInv, Callers
  <2>2. k = 1  BY <1>1, <1>3, <1>5, <2>1
  <2> QED BY <1>1, <2>2 DEF Pending
<1>9. Callers'
  BY <1>4, <1>8 DEF Callers
<1>10. Built'
  <2>1. 1 \in DOMAIN ops' /\ ops'[1].st = "ok" /\ pc'[Main] = "idle"
    BY <1>1, <1>4, SyncClientAssumption
  <2> QED BY <1>4, <2>1 DEF Built
<1>11. Streaming'
  <2>1. \A u \in Threads : ~(iterating'[u] # 0)  BY <1>4
  <2> QED BY <1>1, <2>1, StreamingSame DEF IInv
<1>12. ASSUME Quiet  PROVE Quiet'
  <2>1. \A k \in DOMAIN ops : ops[k].kind # "shutdown"
    <3> SUFFICES ASSUME NEW k \in DOMAIN ops, ops[k].kind = "shutdown"  PROVE FALSE
      OBVIOUS
    <3>1. current[ops[k].by] = k  BY <1>2, <1>12 DEF Quiet
    <3>2. k = 1  BY <1>1, <1>3, <1>5, <3>1
    <3> QED BY <1>1, <3>2 DEF Op
  <2>2. \A u \in Threads : ~Closing(u)'
    BY <1>4 DEF Closing
  <2>3. \A g \in left : streams[g] = "ended"
    BY <1>12 DEF Quiet
  <2>4. ~closed' /\ loop' = "running" /\ NoStop'
    BY <1>2 DEF NoStop
  <2> QED BY <2>1, <2>2, <2>3, <2>4 DEF Quiet
<1> QED BY <1>6, <1>7, <1>9, <1>10, <1>11, <1>12 DEF IInv

(* What follows an operation.                                               *)
LEMMA ContinueStep ==
  ASSUME IInv, NEW t \in Threads, NEW d \in BOOLEAN, NEW o, Ends(t, d, o),
         NEW raised \in BOOLEAN, Continue(t, raised, o, CancelOf(t, d)),
         ~raised => pc[t] = "wait" /\ Op(t).st = "ok" /\ cut' = cut,
         Op(t).kind \in {"start", "shutdown"} /\ loop # "closed" /\ ~cut' =>
           Op(t).st \in Done /\ (raised => Op(t).st = "error"),
         \/ left' = left
         \/ left' = left \cup {Op(t).stream} /\ Op(t).kind = "aclose" /\ Op(t).st \in Done
  PROVE  IInv'
<1> DEFINE n == current[t]
<1>1. Typed /\ n \in DOMAIN ops /\ Op(t) = ops[n] /\ n # 0
  <2>1. Typed  BY DEF IInv
  <2>2. n # 0  BY DEF Ends
  <2> QED BY <2>1, <2>2, Shape DEF Op
<1>2. /\ ops[n].stream # 0 <=> ops[n].kind \in {"anext", "aclose"}
      /\ ops[n].kind \in {"start", "call", "anext", "aclose", "shutdown"}
      /\ ops[n].kind = "start" => ~ops[n].client
  BY <1>1, Shape DEF IInv, Formed
<1>3. UNCHANGED <<loop, http, streams, overlap>> /\ pc[t] \in {"submit", "wait"}
  BY DEF Ends
<1>4. ops[n].kind = "start" => loop = "running"
  BY <1>1, <1>2, <1>3 DEF IInv, Built
<1> HIDE DEF n
<1>5. CASE ops[n].kind = "start" /\ raised
  <2>1. /\ Run(t, "shutdown", 0, FALSE, o) /\ ready' = ready \o CancelOf(t, d)
        /\ UNCHANGED <<closed, iterating, left>>
    BY <1>1, <1>5 DEF Continue
  <2>2. ~cut' => Op(t).st = "error"
    BY <1>1, <1>4, <1>5
  <2> QED BY <1>1, <1>5, <2>1, <2>2, StartFailsStep
<1>6. CASE ops[n].kind = "start" /\ ~raised
  <2>1. /\ pc' = [u \in Threads |-> "idle"] /\ current' = [current EXCEPT ![t] = 0]
        /\ UNCHANGED <<closed, iterating, ready, ops, left>>
    BY <1>1, <1>6 DEF Continue
  <2> QED BY <1>1, <1>3, <1>6, <2>1, StartedStep DEF history
<1>7. CASE ops[n].kind = "shutdown" /\ loop # "closed"
  <2>1. /\ closed' = TRUE /\ ready' = ready \o CancelOf(t, d) \o Soon("stop", 0) /\ ops' = o
        /\ pc' = [pc EXCEPT ![t] = "join"] /\ UNCHANGED <<current, iterating, left>>
    BY <1>1, <1>7 DEF Continue
  <2> QED BY <1>1, <1>7, <2>1, StopLoopStep
<1>8. CASE ops[n].kind # "start" /\ (ops[n].kind = "shutdown" => loop = "closed")
  <2> DEFINE ended == ops[n].kind = "aclose" \/ (ops[n].kind = "anext" /\ raised)
  <2>1. /\ Back(t, "idle", ended) /\ ready' = ready \o CancelOf(t, d) /\ ops' = o
        /\ closed' = closed
    BY <1>1, <1>8 DEF Continue
  <2>2. ~ended => Op(t).stream = 0 \/ Op(t).st = "ok"
    BY <1>1, <1>2
  <2>3. ended \in BOOLEAN  OBVIOUS
  <2> HIDE DEF ended
  <2> QED BY <1>1, <1>8, <2>1, <2>2, <2>3, BackStep
<1> QED BY <1>5, <1>6, <1>7, <1>8

(* The future is done: the thread takes its result.                         *)
LEMMA ReturnStep ==
  ASSUME IInv, NEW t \in Threads, Return(t)
  PROVE  IInv'
<1>1. Typed /\ current[t] # 0 /\ current[t] \in DOMAIN ops
  BY Shape DEF IInv, Typed, Return
<1>2. ops[current[t]].dropped = FALSE
  BY <1>1, Shape DEF IInv, Callers, Return, Op
<1>3. Alike(ops, current[t], FALSE)
  BY <1>1, <1>2, SameOps
<1>4. Ends(t, FALSE, ops)
  BY <1>1, <1>3 DEF Ends, Return, IInv, Typed
<1>5. CancelOf(t, FALSE) = <<>>
  BY DEF CancelOf
<1>6. \/ left' = left
      \/ left' = left \cup {Op(t).stream} /\ Op(t).kind = "aclose" /\ Op(t).st \in Done
  BY DEF Return
<1> DEFINE raised == Op(t).st = "error"
<1>7. Continue(t, raised, ops, <<>>) /\ (~raised => pc[t] = "wait" /\ Op(t).st = "ok")
      /\ Op(t).st \in Done /\ cut' = cut /\ raised \in BOOLEAN /\ (raised => Op(t).st = "error")
  BY DEF Return, Done
<1> HIDE DEF raised
<1> QED BY <1>4, <1>5, <1>6, <1>7, ContinueStep

(* Ctrl-C while the thread polls its future.                                *)
LEMMA InterruptStep ==
  ASSUME IInv, pc[Main] = "wait", Interrupt
  PROVE  IInv'
<1> DEFINE n == current[Main]
           d == ops[n].st \notin Done
           o == [ops EXCEPT ![n].dropped = d]
<1>1. Main \in Threads  BY SyncClientAssumption
<1>2. Typed /\ n # 0 /\ n \in DOMAIN ops /\ Op(Main) = ops[n] /\ d \in BOOLEAN
  BY <1>1, Shape DEF IInv, Typed, Op
<1>3. ops[n].st # "new" /\ ops[n].st \in {"new"} \cup Pending \cup Done
  BY <1>1, <1>2, Shape DEF IInv, Callers
<1>4. /\ Continue(Main, TRUE, o, CancelTask(n))
      /\ cut' = (cut \/ Op(Main).kind \in {"start", "shutdown"})
      /\ UNCHANGED <<loop, http, streams, left, overlap>>
  BY DEF Interrupt
<1>5. CancelTask(n) = CancelOf(Main, d)
  BY <1>2 DEF CancelTask, CancelOf, Done
<1>6. Alike(o, n, d)
  BY <1>2, DropOp
<1>7. (d => ops[n].st \in Pending) /\ (~d => ops[n].st \in Done)
  BY <1>3
<1> HIDE DEF d, o, n
<1>8. Ends(Main, d, o)
  <2>1. cut' \in BOOLEAN /\ (cut => cut') /\ (Op(Main).kind \in {"start", "shutdown"} => cut')
    BY <1>2, <1>4 DEF Typed
  <2> QED BY <1>2, <1>4, <1>6, <1>7, <2>1 DEF Ends, n
<1>9. Op(Main).kind \in {"start", "shutdown"} => cut'
  BY <1>4
<1> QED BY <1>1, <1>2, <1>4, <1>5, <1>8, <1>9, ContinueStep

(* The loop takes the operation, which its thread then waits for.           *)
LEMMA SubmitLoopStep ==
  ASSUME IInv, NEW t \in Threads, pc[t] = "submit", loop # "closed",
         ops' = [ops EXCEPT ![current[t]].st = "queued"],
         ready' = ready \o Soon("start", current[t]), pc' = [pc EXCEPT ![t] = "wait"],
         UNCHANGED <<current, iterating, closed, loop, http, streams, history>>
  PROVE  IInv'
<1> USE DEF history
<1> DEFINE n == current[t]
           x == Cb("start", n)
<1>1. Typed /\ n # 0 /\ n \in DOMAIN ops /\ n \in Nat /\ Op(t) = ops[n]
  BY Shape DEF IInv, Typed, Op
<1>2. Moves(n, "queued")
  BY <1>1, MovesOp DEF Pending
<1>3. ready' \in Seq(Callback) /\ Gains(ready, ready', x) /\ x.n = n /\ x.do = "start"
  BY <1>1, PutCallback, CbFacts DEF Typed
<1>4. ops[n].st = "new" /\ ops[n].by = t /\ ~ops[n].dropped
  BY <1>1 DEF IInv, Callers, Formed
<1>5. /\ \A e \in {"step", "cancel"} : \A k \in DOMAIN ops : Cb(e, k) # x
      /\ \A k \in DOMAIN ops : k # n => Cb("start", k) # x
  BY <1>1, Apart
<1>6. n = current[t]  OBVIOUS
<1>7. x = Cb("start", n)  OBVIOUS
<1> HIDE DEF n, x
<1>8. /\ \A k \in DOMAIN ops :
           /\ ops'[k].kind = ops[k].kind /\ ops'[k].stream = ops[k].stream
           /\ ops'[k].by = ops[k].by /\ ops'[k].client = ops[k].client
           /\ ops'[k].dropped = ops[k].dropped
           /\ ops'[k].st = IF k = n THEN "queued" ELSE ops[k].st
           /\ ops[k].by \in Threads /\ k # 0 /\ k \in Nat
      /\ DOMAIN ops' = DOMAIN ops /\ Len(ops') = Len(ops) /\ ops' \in Seq(Operation)
  BY <1>1, <1>2, Shape, Apart DEF Moves, Same
<1>9. /\ pc'[t] = "wait" /\ \A u \in Threads : u # t => pc'[u] = pc[u]
      /\ pc' \in [Threads -> {"new", "failed", "idle", "submit", "wait", "join"}]
  BY <1>1 DEF Typed
<1>10. \A u \in Threads : current[u] # 0 => current[u] \in DOMAIN ops
  BY <1>1, Shape
<1>11. Typed'
  <2>1. \A u \in Threads : pc'[u] \in {"submit", "wait", "join"} <=> current'[u] # 0
    BY <1>1, <1>6, <1>9 DEF Typed
  <2>2. \A a \in Elems(ready') : a.do = "stop" \/ a.n \in DOMAIN ops
    BY <1>1, <1>3 DEF Typed, Gains
  <2> QED BY <1>1, <1>3, <1>8, <1>9, <2>1, <2>2 DEF Typed
<1>12. Formed'
  BY <1>4, <1>8 DEF IInv, Formed
<1>13. Matched'
  <2> SUFFICES ASSUME NEW k \in DOMAIN ops  PROVE Place(ready', k, ops'[k].st, ops'[k].dropped)
    BY <1>8 DEF Matched, Place
  <2>1. Place(ready, k, ops[k].st, ops[k].dropped)
    BY MatchedIsPlace DEF IInv
  <2>2. CASE k # n
    <3>1. Place(ready', k, ops[k].st, ops[k].dropped)
      BY <1>3, <1>5, <2>1, <2>2 DEF Place, Gains
    <3> QED BY <1>8, <2>2, <3>1
  <2>3. CASE k = n
    <3>1. Place(ready', n, "queued", ops[n].dropped)
      BY <1>1, <1>3, <1>4, <1>5, <1>7, <2>1, <2>3 DEF Place, Gains
    <3> QED BY <1>8, <2>3, <3>1
  <2> QED BY <2>2, <2>3
<1>14. Sorted'
  <2> SUFFICES ASSUME NEW m \in DOMAIN ops, NEW k \in DOMAIN ops, Follows(m, k)', ops'[m].dropped
               PROVE  /\ ops'[m].st = "queued" =>
                           /\ ops'[k].st \in {"new", "queued"}
                           /\ Guarded(ready', Cb("start", m), Cb("start", k))
                      /\ ops'[m].st \in {"created", "running", "exiting"} =>
                           /\ ops'[k].st \in {"new", "queued", "created"}
                           /\ Guarded(ready', Cb("cancel", m), Cb("step", k))
    BY <1>8 DEF Sorted
  <2>1. Follows(m, k) /\ ops[m].dropped /\ m # n /\ ops'[m].st = ops[m].st
    BY <1>4, <1>8 DEF Follows
  <2>2. ops[m].st = "queued" =>
          ops[k].st \in {"new", "queued"} /\ Guarded(ready, Cb("start", m), Cb("start", k))
    BY <2>1 DEF IInv, Sorted
  <2>3. ops[m].st \in {"created", "running", "exiting"} =>
          /\ ops[k].st \in {"new", "queued", "created"}
          /\ Guarded(ready, Cb("cancel", m), Cb("step", k))
    BY <2>1 DEF IInv, Sorted
  <2>4. ops[m].st = "queued" => Cb("start", m) \in Elems(ready)
    BY DEF IInv, Matched
  <2>5. ops[m].st = "queued" => Guarded(ready', Cb("start", m), Cb("start", k))
    BY <1>3, <2>2, <2>4 DEF Gains
  <2>6. ops[m].st \in {"created", "running", "exiting"} =>
          Guarded(ready', Cb("cancel", m), Cb("step", k))
    BY <1>3, <1>5, <2>3 DEF Gains
  <2>7. ops'[k].st = ops[k].st \/ ops'[k].st = "queued"
    BY <1>8
  <2> QED BY <2>1, <2>2, <2>3, <2>5, <2>6, <2>7
<1>15. Callers'
  <2>1. ASSUME NEW u \in Threads, current[u] # 0
        PROVE  /\ ops'[current[u]].by = u
               /\ \A k \in DOMAIN ops' : k > current[u] =>
                    ops'[k].by # u /\ (ops'[k].kind = "shutdown" => overlap)
               /\ pc'[u] = "submit" => ops'[current[u]].st = "new"
               /\ pc'[u] = "wait" => ops'[current[u]].st # "new" /\ ~ops'[current[u]].dropped
               /\ pc'[u] = "join" => ops'[current[u]].kind = "shutdown" /\ closed
               /\ ops'[current[u]].stream # 0 => ops'[current[u]].stream = iterating[u]
    <3>1. /\ ops[current[u]].by = u /\ current[u] \in DOMAIN ops
          /\ \A k \in DOMAIN ops : k > current[u] =>
               ops[k].by # u /\ (ops[k].kind = "shutdown" => overlap)
          /\ pc[u] = "submit" => ops[current[u]].st = "new"
          /\ pc[u] = "wait" => ops[current[u]].st # "new" /\ ~ops[current[u]].dropped
          /\ pc[u] = "join" => ops[current[u]].kind = "shutdown" /\ closed
          /\ ops[current[u]].stream # 0 => ops[current[u]].stream = iterating[u]
      BY <1>10, <2>1 DEF IInv, Callers, Op
    <3>2. \A k \in DOMAIN ops' : k > current[u] =>
            ops'[k].by # u /\ (ops'[k].kind = "shutdown" => overlap)
      BY <1>8, <3>1
    <3>3. CASE u = t
      <4>1. current[u] = n  BY <1>6, <3>3
      <4>2. /\ ops'[n].by = t /\ ops'[n].st = "queued" /\ ~ops'[n].dropped
            /\ ops'[n].stream = ops[n].stream
        BY <1>1, <1>4, <1>8
      <4>3. pc'[u] = "wait"  BY <1>9, <3>3
      <4> QED BY <3>1, <3>2, <3>3, <4>1, <4>2, <4>3
    <3>4. CASE u # t
      <4>1. current[u] # n  BY <1>4, <3>1, <3>4
      <4>2. pc'[u] = pc[u]  BY <1>9, <3>4
      <4> QED BY <1>8, <3>1, <3>2, <4>1, <4>2
    <3> QED BY <3>3, <3>4
  <2>2. ASSUME NEW k \in DOMAIN ops, ops'[k].st \in Pending, ~ops'[k].dropped
        PROVE  current[ops'[k].by] = k /\ pc'[ops'[k].by] = "wait"
    <3>1. CASE k = n  BY <1>4, <1>6, <1>8, <1>9, <3>1
    <3>2. CASE k # n
      <4>1. current[ops[k].by] = k /\ pc[ops[k].by] = "wait"
        BY <1>8, <2>2, <3>2 DEF IInv, Callers
      <4> QED BY <1>6, <1>8, <1>9, <3>2, <4>1
    <3> QED BY <3>1, <3>2
  <2> QED BY <1>8, <2>1, <2>2 DEF Callers, Op
<1>16. Built'
  <2>1. \A u \in Threads : pc'[u] \in {"new", "failed", "idle", "join"} <=> pc[u] = pc'[u] /\ u # t
                             /\ pc[u] \in {"new", "failed", "idle", "join"}
    BY <1>9
  <2>2. NoStop => NoStop'
    BY <1>3 DEF NoStop, Gains
  <2>3. 1 \in DOMAIN ops /\ ops' # <<>> /\ ops # <<>>
    BY <1>1, <1>8, Shape DEF Typed
  <2>4. ops[1].st = "ok" <=> ops'[1].st = "ok"
    BY <1>4, <1>8, <2>3
  <2>5. (\A u \in Threads : pc[u] = "idle" =>
           /\ 1 \in DOMAIN ops /\ ops[1].st = "ok"
           /\ \A w \in Threads : pc[w] \notin {"new", "failed"})'
    BY <1>8, <1>9, <2>3, <2>4 DEF IInv, Built
  <2>6. (\A k \in DOMAIN ops : ops[k].client =>
           /\ ops[1].st = "ok"
           /\ \A w \in Threads : pc[w] \notin {"new", "failed"})'
    BY <1>8, <1>9, <2>3, <2>4 DEF IInv, Built
  <2>7. ASSUME NEW u \in Threads, current[u] # 0, ~ops'[current[u]].client
        PROVE  /\ u = Main /\ iterating[u] = 0
               /\ \A w \in Threads : w # Main => pc'[w] = "new"
               /\ \A k \in DOMAIN ops : ~ops'[k].client
               /\ pc'[u] # "join" => loop = "running" /\ ~closed /\ NoStop'
    <3>1. current[u] \in DOMAIN ops /\ ~ops[current[u]].client
      BY <1>8, <1>10, <2>7
    <3>2. /\ u = Main /\ iterating[u] = 0
          /\ \A w \in Threads : w # Main => pc[w] = "new"
          /\ \A k \in DOMAIN ops : ~ops[k].client
          /\ pc[u] # "join" => loop = "running" /\ ~closed /\ NoStop
      BY <2>7, <3>1 DEF IInv, Built, Op
    <3>3. t = Main  BY <3>2
    <3> QED BY <1>8, <1>9, <2>2, <3>2, <3>3
  <2>8. \A u \in Threads : pc'[u] \in {"new", "failed"} => iterating[u] = 0
    BY <1>9 DEF IInv, Built
  <2>9. pc'[Main] # "new"
    BY <1>9, <2>3, SyncClientAssumption DEF IInv, Built
  <2>10. ops'[1].st # "ok" => http = "none"
    BY <2>3, <2>4 DEF IInv, Built
  <2> QED BY <1>8, <2>3, <2>5, <2>6, <2>7, <2>8, <2>9, <2>10 DEF Built, Op
<1>17. Streaming'
  BY <1>1, <1>2, <1>4, StreamingMoves DEF IInv, Done
<1>18. ASSUME ~cut, ~overlap, Quiet  PROVE Quiet'
  <2>1. ~closed
    BY <1>1, <1>6, <1>18 DEF Quiet
  <2>2. ASSUME NEW k \in DOMAIN ops, ops[k].kind = "shutdown"
        PROVE  k = n /\ k = Len(ops) /\ current[ops[k].by] = k
    <3>1. current[ops[k].by] = k /\ ops[k].by \in Threads /\ k # 0 /\ k = Len(ops)
      BY <1>8, <1>18, <2>1, <2>2 DEF Quiet
    <3>2. Closing(ops[k].by)
      BY <2>2, <3>1 DEF Closing, Op
    <3>3. t = ops[k].by
      BY <1>1, <1>6, <1>18, <3>1, <3>2 DEF Quiet
    <3> QED BY <1>6, <3>1, <3>3
  <2>3. ASSUME NEW k \in DOMAIN ops, ops'[k].kind = "shutdown"
        PROVE  /\ k = Len(ops') /\ current[ops'[k].by] = k /\ ops'[k].st = "queued"
               /\ ops'[k].client \/ ops'[1].st = "error"
    <3>1. ops[k].kind = "shutdown" /\ k = n
      BY <1>8, <2>2, <2>3
    <3>2. n # 1 /\ 1 \in DOMAIN ops
      BY <1>1, <3>1, Shape DEF IInv, Formed
    <3>3. ops[k].client \/ ops[1].st = "error"
      BY <1>18, <3>1 DEF Quiet
    <3> QED BY <1>8, <2>2, <3>1, <3>2, <3>3
  <2>4. \A u \in Threads : Closing(u)' => Closing(u)
    BY <1>8, <1>10 DEF Closing, Op
  <2>5. \A u \in Threads : Closing(u) =>
          \A w \in Threads : w # u => current[w] = 0 /\ iterating[w] = 0
    BY <1>18 DEF Quiet
  <2>6. loop \in {"none", "running"} /\ NoStop'
    BY <1>3, <1>18, <2>1 DEF Quiet, NoStop, Gains
  <2>7. \A g \in left : streams[g] = "ended"
    BY <1>18 DEF Quiet
  <2>8. (\A k \in DOMAIN ops : ops[k].kind = "shutdown" =>
           /\ k = Len(ops)
           /\ ~closed => current[ops[k].by] = k
           /\ ops[k].st # "error"
           /\ ops[k].client \/ ops[1].st = "error"
           /\ ops[k].st \in {"running", "exiting", "ok"} =>
                \A m \in DOMAIN ops : m = k \/ ops[m].st \in Done \cup {"cancelling", "new"}
           /\ ops[k].st \in {"exiting", "ok"} =>
                /\ \A g \in DOMAIN streams : streams[g] # "suspended"
                /\ \A u \in Threads : iterating[u] # 0 => streams[iterating[u]] = "ended"
           /\ ops[k].st = "ok" => http # "open")'
    BY <1>8, <2>3
  <2>9. (\A u \in Threads : Closing(u) =>
           \A w \in Threads : w # u => current[w] = 0 /\ iterating[w] = 0)'
    BY <2>4, <2>5
  <2> QED BY <2>1, <2>6, <2>7, <2>8, <2>9 DEF Quiet
<1> QED BY <1>11, <1>12, <1>13, <1>14, <1>15, <1>16, <1>17, <1>18 DEF IInv

(* run() on a loop that runs, or on one that another thread has closed.     *)
LEMMA SubmitStep ==
  ASSUME IInv, NEW t \in Threads, Submit(t)
  PROVE  IInv'
<1>1. Typed /\ current[t] # 0 /\ current[t] \in DOMAIN ops
  BY Shape DEF IInv, Typed, Submit
<1>2. CASE loop # "closed"
  BY <1>2, SubmitLoopStep DEF Submit
<1>3. CASE loop = "closed"
  <2>1. ops[current[t]].dropped = FALSE /\ Op(t).st = "new"
    BY <1>1, Shape DEF IInv, Callers, Formed, Submit, Op
  <2>2. Alike(ops, current[t], FALSE)
    BY <1>1, <2>1, SameOps
  <2>3. Ends(t, FALSE, ops)
    BY <1>1, <2>1, <2>2 DEF Ends, Submit, IInv, Typed, history
  <2>4. CancelOf(t, FALSE) = <<>>
    BY DEF CancelOf
  <2>5. Continue(t, TRUE, ops, <<>>) /\ left' = left
    BY <1>3 DEF Submit, history
  <2> QED BY <1>3, <2>3, <2>4, <2>5, ContinueStep
<1> QED BY <1>2, <1>3

(* The loop's thread has ended, or Ctrl-C: the thread does not wait for it. *)
LEMMA JoinStep ==
  ASSUME IInv, NEW t \in Threads, pc[t] = "join",
         loop' = "closed" \/ (loop' = loop /\ cut'), cut' \in BOOLEAN, cut => cut',
         Back(t, IF Op(t).client THEN "idle" ELSE "failed", FALSE),
         UNCHANGED <<closed, http, ready, ops, streams, left, overlap>>
  PROVE  IInv'
<1> DEFINE n == current[t]
           at == IF Op(t).client THEN "idle" ELSE "failed"
<1>1. Typed /\ n # 0 /\ n \in DOMAIN ops /\ Op(t) = ops[n] /\ n = current[t]
  BY Shape DEF IInv, Typed, Op
<1>2. /\ \A u \in Threads : current[u] # 0 => current[u] \in DOMAIN ops
      /\ \A k \in DOMAIN ops : ops[k].by \in Threads
      /\ 1 \in DOMAIN ops /\ ops # <<>>
  BY <1>1, Shape DEF Typed
<1>3. at = (IF ops[n].client THEN "idle" ELSE "failed") /\ at \in {"idle", "failed"}
  BY <1>1
<1>4. pc' = [pc EXCEPT ![t] = at] /\ current' = [current EXCEPT ![t] = 0] /\ iterating' = iterating
  BY DEF Back
<1> HIDE DEF n, at
<1>5. /\ pc'[t] = at /\ current'[t] = 0
      /\ \A u \in Threads : u # t => pc'[u] = pc[u] /\ current'[u] = current[u]
      /\ pc' \in [Threads -> {"new", "failed", "idle", "submit", "wait", "join"}]
  BY <1>1, <1>3, <1>4 DEF Typed
<1>6. ops[n].kind = "shutdown" /\ ops[n].stream = 0 /\ closed
  BY <1>1 DEF IInv, Callers, Formed
<1>7. Typed'
  <2>1. current' \in [Threads -> 0..Len(ops)]
    BY <1>1, <1>4, Shape DEF Typed
  <2>2. \A u \in Threads : pc'[u] \in {"submit", "wait", "join"} <=> current'[u] # 0
    BY <1>1, <1>3, <1>5 DEF Typed
  <2> QED BY <1>1, <1>4, <1>5, <2>1, <2>2 DEF Typed
<1>8. Formed' /\ Matched' /\ Sorted'
  BY DEF IInv, Formed, Matched, Sorted, Follows
<1>9. Callers'
  <2>1. ASSUME NEW u \in Threads, current'[u] # 0
        PROVE  /\ ops[current'[u]].by = u
               /\ \A k \in DOMAIN ops : k > current'[u] =>
                    ops[k].by # u /\ (ops[k].kind = "shutdown" => overlap)
               /\ pc'[u] = "submit" => ops[current'[u]].st = "new"
               /\ pc'[u] = "wait" => ops[current'[u]].st # "new" /\ ~ops[current'[u]].dropped
               /\ pc'[u] = "join" => ops[current'[u]].kind = "shutdown" /\ closed
               /\ ops[current'[u]].stream # 0 => ops[current'[u]].stream = iterating[u]
    <3>1. u # t /\ current'[u] = current[u] /\ pc'[u] = pc[u]
      BY <1>5, <2>1
    <3> QED BY <2>1, <3>1 DEF IInv, Callers, Op
  <2>2. ASSUME NEW k \in DOMAIN ops, ops[k].st \in Pending, ~ops[k].dropped
        PROVE  current'[ops[k].by] = k /\ pc'[ops[k].by] = "wait"
    <3>1. current[ops[k].by] = k /\ pc[ops[k].by] = "wait"
      BY <2>2 DEF IInv, Callers
    <3>2. ops[k].by # t  BY <3>1
    <3> QED BY <1>2, <1>5, <3>1, <3>2
  <2> QED BY <1>4, <2>1, <2>2 DEF Callers, Op
<1>10. Built'
  <2>1. CASE ops[n].client
    <3>1. /\ ops[1].st = "ok" /\ \A u \in Threads : pc[u] \notin {"new", "failed"}
      BY <1>1, <2>1 DEF IInv, Built
    <3>2. \A u \in Threads : pc'[u] \notin {"new", "failed"}
      BY <1>3, <1>5, <2>1, <3>1
    <3>3. ASSUME NEW u \in Threads, current'[u] # 0  PROVE ops[current'[u]].client
      <4>1. u # t /\ current'[u] = current[u] /\ current[u] # 0
        BY <1>5, <3>3
      <4> QED BY <1>1, <2>1, <4>1 DEF IInv, Built, Op
    <3>4. pc'[Main] # "new"
      BY <3>2, SyncClientAssumption
    <3> QED BY <1>2, <3>1, <3>2, <3>3, <3>4 DEF Built, Op
  <2>2. CASE ~ops[n].client
    <3>1. /\ t = Main /\ iterating[t] = 0
          /\ \A u \in Threads : u # t => pc[u] = "new"
          /\ \A k \in DOMAIN ops : ~ops[k].client
      BY <1>1, <2>2 DEF IInv, Built
    <3>2. \A u \in Threads : pc'[u] # "idle" /\ (pc'[u] = "new" => u # t)
      BY <1>3, <1>5, <2>2, <3>1
    <3>3. \A u \in Threads : current'[u] = 0
      BY <1>1, <1>5, <3>1 DEF Typed
    <3>4. \A u \in Threads : iterating[u] = 0
      BY <3>1 DEF IInv, Built
    <3>5. ops[1].st # "ok" => http = "none"
      BY <1>2 DEF IInv, Built
    <3> QED BY <1>2, <1>4, <3>1, <3>2, <3>3, <3>4, <3>5 DEF Built
  <2> QED BY <2>1, <2>2
<1>11. Streaming'
  <2>1. ASSUME NEW u \in Threads, iterating'[u] # 0
        PROVE  /\ iterating'[u] = iterating[u]
               /\ \/ current'[u] = current[u]
                  \/ current[u] # 0 /\ current'[u] = 0 /\ (Op(u).stream = 0 \/ Op(u).st = "ok")
    BY <1>1, <1>4, <1>5, <1>6
  <2> QED BY <1>1, <2>1, StreamingSame DEF IInv
<1>12. ASSUME ~cut', ~overlap, Quiet  PROVE Quiet'
  <2>1. closed' /\ loop' = "closed"
    BY <1>6, <1>12
  <2>2. \A u \in Threads : Closing(u)' => Closing(u) /\ u # t
    BY <1>5 DEF Closing, Op
  <2>3. \A u \in Threads : Closing(u) =>
          \A w \in Threads : w # u => current[w] = 0 /\ iterating[w] = 0
    BY <1>12 DEF Quiet
  <2>4. (\A u \in Threads : Closing(u) =>
           \A w \in Threads : w # u => current[w] = 0 /\ iterating[w] = 0)'
    BY <1>4, <1>5, <2>2, <2>3
  <2>5. \A u \in Threads : current'[u] = 0 \/ pc'[u] = "join"
    BY <1>5, <1>6, <1>12 DEF Quiet
  <2>6. \E k \in DOMAIN ops : ops[k].kind = "shutdown" /\ ops[k].st = "ok"
    BY <1>6, <1>12 DEF Quiet
  <2>7. (\A k \in DOMAIN ops : ops[k].kind = "shutdown" =>
           /\ k = Len(ops)
           /\ ~closed => current[ops[k].by] = k
           /\ ops[k].st # "error"
           /\ ops[k].client \/ ops[1].st = "error"
           /\ ops[k].st \in {"running", "exiting", "ok"} =>
                \A m \in DOMAIN ops : m = k \/ ops[m].st \in Done \cup {"cancelling", "new"}
           /\ ops[k].st \in {"exiting", "ok"} =>
                /\ \A g \in DOMAIN streams : streams[g] # "suspended"
                /\ \A u \in Threads : iterating[u] # 0 => streams[iterating[u]] = "ended"
           /\ ops[k].st = "ok" => http # "open")'
    BY <1>4, <1>12, <2>1 DEF Quiet
  <2>8. \A g \in left : streams[g] = "ended"
    BY <1>12 DEF Quiet
  <2> QED BY <2>1, <2>4, <2>5, <2>6, <2>7, <2>8 DEF Quiet
<1> QED BY <1>7, <1>8, <1>9, <1>10, <1>11, <1>12 DEF IInv

(* A thread inside the client goes on.                                      *)
LEMMA ProceedStep ==
  ASSUME IInv, NEW t \in Threads, Proceed(t)
  PROVE  IInv'
<1>1. CASE Submit(t)  BY <1>1, SubmitStep
<1>2. CASE Return(t)  BY <1>2, ReturnStep
<1>3. CASE Joined(t)
  <2>1. cut \in BOOLEAN /\ cut' = cut  BY <1>3 DEF IInv, Typed, Joined, history
  <2>2. /\ pc[t] = "join" /\ loop' = "closed"
        /\ Back(t, IF Op(t).client THEN "idle" ELSE "failed", FALSE)
        /\ UNCHANGED <<closed, http, ready, ops, streams, left, overlap>>
    BY <1>3 DEF Joined, history
  <2> QED BY <2>1, <2>2, JoinStep
<1> QED BY <1>1, <1>2, <1>3 DEF Proceed

(* Ctrl-C, wherever it hits the thread.                                     *)
LEMMA CtrlCStep ==
  ASSUME IInv, Interrupt
  PROVE  IInv'
<1>1. Main \in Threads  BY SyncClientAssumption
<1>2. CASE pc[Main] = "wait"  BY <1>2, InterruptStep
<1>3. CASE pc[Main] = "join"
  <2>1. current[Main] # 0 /\ Op(Main).kind = "shutdown" /\ cut \in BOOLEAN
    BY <1>1, <1>3 DEF IInv, Typed, Callers
  <2>2. /\ Back(Main, IF Op(Main).client THEN "idle" ELSE "failed", FALSE)
        /\ UNCHANGED <<closed, ops, ready, loop, http, streams, left, overlap>>
        /\ cut' = TRUE
    BY <1>3, <2>1 DEF Interrupt
  <2> QED BY <1>1, <1>3, <2>1, <2>2, JoinStep
<1> QED BY <1>2, <1>3 DEF Interrupt

--------------------------------------------------------------------------------
(* The application's calls.                                                 *)

(* A stream that is new is behind the others.                               *)
LEMMA NewStream ==
  ASSUME Typed, streams' = streams \/ streams' = Append(streams, "fresh")
  PROVE  /\ streams' \in Seq(Streams) /\ Len(streams') \in Nat /\ Len(streams) <= Len(streams')
         /\ DOMAIN streams' = 1..Len(streams') /\ DOMAIN streams \subseteq DOMAIN streams'
         /\ \A h \in DOMAIN streams : streams'[h] = streams[h]
         /\ \A h \in DOMAIN streams' : h \notin DOMAIN streams => streams'[h] = "fresh"
         /\ 0..Len(streams) \subseteq 0..Len(streams')
<1>1. /\ streams \in Seq(Streams) /\ Len(streams) \in Nat /\ DOMAIN streams = 1..Len(streams)
      /\ "fresh" \in Streams
  BY Shape DEF Typed, Streams
<1>2. CASE streams' = streams
  BY <1>1, <1>2
<1>3. CASE streams' = Append(streams, "fresh")
  <2>1. /\ streams' \in Seq(Streams) /\ Len(streams') = Len(streams) + 1
        /\ DOMAIN streams' = 1..(Len(streams) + 1)
        /\ \A h \in 1..Len(streams) : streams'[h] = streams[h]
        /\ streams'[Len(streams) + 1] = "fresh"
    BY <1>1, <1>3
  <2> QED BY <1>1, <2>1
<1> QED BY <1>2, <1>3

(* A closed client raises.                                                  *)
LEMMA EnterClosedStep ==
  ASSUME IInv, NEW t \in Threads, pc[t] = "idle", closed, NEW ended \in BOOLEAN,
         Back(t, "idle", ended), streams' = streams \/ streams' = Append(streams, "fresh"),
         left' = left \/ (left' = left \cup {iterating[t]} /\ iterating[t] # 0),
         overlap' \in BOOLEAN, overlap => overlap',
         UNCHANGED <<ops, closed, loop, http, ready, cut>>
  PROVE  IInv'
<1>1. Typed /\ current[t] = 0
  BY DEF IInv, Typed
<1>2. pc' = pc /\ current' = current
  BY <1>1 DEF Typed, Back
<1>3. /\ iterating'[t] = IF ended THEN 0 ELSE iterating[t]
      /\ \A u \in Threads : u # t => iterating'[u] = iterating[u]
      /\ iterating' \in [Threads -> 0..Len(streams)]
  <2>1. Len(streams) \in Nat  BY <1>1, Shape
  <2> QED BY <1>1, <2>1 DEF Typed, Back
<1>4. \A u \in Threads : iterating'[u] # 0 => iterating'[u] = iterating[u]
  BY <1>3
<1>5. /\ streams' \in Seq(Streams) /\ Len(streams') \in Nat /\ Len(streams) <= Len(streams')
      /\ DOMAIN streams' = 1..Len(streams') /\ DOMAIN streams \subseteq DOMAIN streams'
      /\ \A h \in DOMAIN streams : streams'[h] = streams[h]
      /\ \A h \in DOMAIN streams' : h \notin DOMAIN streams => streams'[h] = "fresh"
      /\ 0..Len(streams) \subseteq 0..Len(streams')
  BY <1>1, NewStream
<1>6. /\ \A u \in Threads : /\ current[u] # 0 => current[u] \in DOMAIN ops
                            /\ iterating[u] # 0 => iterating[u] \in DOMAIN streams
      /\ left \subseteq DOMAIN streams
  BY <1>1, Shape DEF Typed
<1>7. Typed'
  <2>1. iterating' \in [Threads -> 0..Len(streams')]
    BY <1>3, <1>5
  <2>2. left' \subseteq DOMAIN streams'
    BY <1>5, <1>6
  <2> QED BY <1>1, <1>2, <1>5, <2>1, <2>2 DEF Typed
<1>8. Formed' /\ Matched' /\ Sorted'
  <2>1. Formed'  BY <1>5 DEF IInv, Formed
  <2>2. Matched'  BY DEF IInv, Matched
  <2>3. Sorted'  BY DEF IInv, Sorted, Follows
  <2> QED BY <2>1, <2>2, <2>3
<1>9. Callers'
  <2>1. ASSUME NEW u \in Threads, current[u] # 0
        PROVE  /\ ops[current[u]].by = u
               /\ \A k \in DOMAIN ops : k > current[u] =>
                    ops[k].by # u /\ (ops[k].kind = "shutdown" => overlap')
               /\ pc[u] = "submit" => ops[current[u]].st = "new"
               /\ pc[u] = "wait" => ops[current[u]].st # "new" /\ ~ops[current[u]].dropped
               /\ pc[u] = "join" => ops[current[u]].kind = "shutdown" /\ closed
               /\ ops[current[u]].stream # 0 => ops[current[u]].stream = iterating'[u]
    <3>1. u # t /\ iterating'[u] = iterating[u]
      BY <1>1, <1>3, <2>1
    <3> QED BY <2>1, <3>1 DEF IInv, Callers, Op
  <2>2. \A k \in DOMAIN ops : ops[k].st \in Pending /\ ~ops[k].dropped =>
          current[ops[k].by] = k /\ pc[ops[k].by] = "wait"
    BY DEF IInv, Callers
  <2> QED BY <1>2, <2>1, <2>2 DEF Callers, Op
<1>10. Built'
  <2>1. \A u \in Threads : iterating[u] = 0 => iterating'[u] = 0
    BY <1>4
  <2> QED BY <1>2, <2>1 DEF IInv, Built, Op, NoStop
<1>11. Streaming'
  BY <1>1, <1>2, <1>4, <1>5, StreamingSame DEF IInv
<1>12. ASSUME ~cut, ~overlap', Quiet  PROVE Quiet'
  <2>1. PICK k \in DOMAIN ops : ops[k].kind = "shutdown" /\ ops[k].st = "ok"
    BY <1>12 DEF Quiet
  <2>2. /\ \A g \in DOMAIN streams : streams[g] # "suspended"
        /\ \A u \in Threads : iterating[u] # 0 => streams[iterating[u]] = "ended"
    BY <1>12, <2>1 DEF Quiet
  <2>3. \A g \in DOMAIN streams' : streams'[g] # "suspended"
    BY <1>5, <2>2
  <2>4. \A u \in Threads : iterating'[u] # 0 => streams'[iterating'[u]] = "ended"
    BY <1>4, <1>5, <1>6, <2>2
  <2>5. \A g \in left' : streams'[g] = "ended"
    <3>1. \A g \in left : streams[g] = "ended"  BY <1>12 DEF Quiet
    <3>2. \A h \in DOMAIN streams : streams[h] = "ended" => streams'[h] = "ended"
      BY <1>5
    <3>3. \A g \in left : streams'[g] = "ended"
      BY <1>6, <3>1, <3>2
    <3>4. iterating[t] # 0 => streams'[iterating[t]] = "ended"
      BY <1>6, <2>2, <3>2
    <3> QED BY <3>3, <3>4
  <2>6. \A u \in Threads : Closing(u)' => Closing(u)
    BY <1>2 DEF Closing, Op
  <2>7. \A u \in Threads : Closing(u) =>
          \A w \in Threads : w # u => current[w] = 0 /\ iterating[w] = 0
    BY <1>12 DEF Quiet
  <2>8. (\A u \in Threads : Closing(u) =>
           \A w \in Threads : w # u => current[w] = 0 /\ iterating[w] = 0)'
    BY <1>2, <1>4, <2>6, <2>7
  <2>9. /\ loop = "closed" \/ \E u \in Threads : pc[u] = "join"
        /\ \A u \in Threads : current[u] = 0 \/ pc[u] = "join"
    BY <1>12 DEF Quiet
  <2>10. \A m \in DOMAIN ops : ops[m].kind = "shutdown" =>
           /\ m = Len(ops) /\ ops[m].st # "error"
           /\ ops[m].client \/ ops[1].st = "error"
           /\ ops[m].st \in {"running", "exiting", "ok"} =>
                \A i \in DOMAIN ops : i = m \/ ops[i].st \in Done \cup {"cancelling", "new"}
           /\ ops[m].st = "ok" => http # "open"
    BY <1>12 DEF Quiet
  <2> QED BY <1>2, <2>1, <2>3, <2>4, <2>5, <2>8, <2>9, <2>10 DEF Quiet
<1> QED BY <1>7, <1>8, <1>9, <1>10, <1>11, <1>12 DEF IInv

(* A call is handed to run().                                               *)
LEMMA EnterRunStep ==
  ASSUME IInv, NEW t \in Threads, pc[t] = "idle", ~closed,
         NEW kind \in {"call", "anext", "aclose", "shutdown"}, NEW g \in Nat,
         Run(t, kind, g, TRUE, ops),
         g # 0 <=> kind \in {"anext", "aclose"},
         streams' = streams \/ streams' = Append(streams, "fresh"),
         g # 0 => \/ g = iterating[t] /\ streams' = streams
                  \/ /\ kind = "anext" /\ iterating[t] = 0 /\ g = Len(streams) + 1
                     /\ streams' = Append(streams, "fresh"),
         iterating' = IF kind = "anext" THEN [iterating EXCEPT ![t] = g] ELSE iterating,
         overlap' = (overlap \/ \E u \in Threads \ {t} :
                                  Closing(u) \/ (kind = "shutdown" /\ Using(u))),
         UNCHANGED <<closed, loop, http, ready, left, cut>>
  PROVE  IInv'
<1> DEFINE l == Len(ops) + 1
<1>1. Typed /\ current[t] = 0
  BY DEF IInv, Typed
<1>2. Adds(ops, t, kind, g, TRUE)
  <2>1. ops \in Seq(Operation)  BY <1>1 DEF Typed
  <2> QED BY <1>1, <2>1, RunAdds
<1>3. /\ DOMAIN ops' = DOMAIN ops \cup {l} /\ l \notin DOMAIN ops /\ l # 0 /\ l \in Nat
      /\ Len(ops') = l /\ ops' \in Seq(Operation)
      /\ \A k \in DOMAIN ops : ops'[k] = ops[k] /\ k < l
      /\ ops'[l].kind = kind /\ ops'[l].stream = g /\ ops'[l].by = t
      /\ ops'[l].client = TRUE /\ ops'[l].st = "new" /\ ops'[l].dropped = FALSE
  BY <1>2 DEF Adds
<1>4. pc' = [pc EXCEPT ![t] = "submit"] /\ current' = [current EXCEPT ![t] = l]
  BY DEF Run
<1>5. /\ streams' \in Seq(Streams) /\ Len(streams') \in Nat /\ Len(streams) <= Len(streams')
      /\ DOMAIN streams' = 1..Len(streams') /\ DOMAIN streams \subseteq DOMAIN streams'
      /\ \A h \in DOMAIN streams : streams'[h] = streams[h]
      /\ \A h \in DOMAIN streams' : h \notin DOMAIN streams => streams'[h] = "fresh"
      /\ 0..Len(streams) \subseteq 0..Len(streams')
  BY <1>1, NewStream
<1>6. /\ \A u \in Threads : /\ current[u] # 0 => current[u] \in DOMAIN ops
                            /\ iterating[u] # 0 => iterating[u] \in DOMAIN streams
      /\ \A k \in DOMAIN ops : ops[k].by \in Threads /\ k # 0 /\ k \in Nat
      /\ Len(ops) \in Nat /\ Len(streams) \in Nat /\ DOMAIN streams = 1..Len(streams)
      /\ left \subseteq DOMAIN streams /\ overlap \in BOOLEAN /\ cut \in BOOLEAN
  BY <1>1, Shape, Apart DEF Typed
<1>7. /\ 1 \in DOMAIN ops /\ ops[1].st = "ok"
      /\ \A u \in Threads : pc[u] \notin {"new", "failed"}
  BY DEF IInv, Built
<1>8. overlap' \in BOOLEAN /\ (overlap => overlap')
  BY <1>6
<1>9. g \in 0..Len(streams')
  <2>0. Len(streams') \in Nat /\ Len(streams) <= Len(streams')
    BY <1>5
  <2>1. CASE g = 0  BY <2>0, <2>1
  <2>2. CASE g # 0 /\ g = iterating[t]
    <3>1. g \in 0..Len(streams)  BY <1>1, <2>2 DEF Typed
    <3> QED BY <1>5, <3>1
  <2>3. CASE g = Len(streams) + 1 /\ streams' = Append(streams, "fresh")
    <3>1. Len(streams') = Len(streams) + 1  BY <1>1, <2>3 DEF Typed
    <3> QED BY <2>0, <2>3, <3>1
  <2> QED BY <2>1, <2>2, <2>3
<1>10. l = Len(ops) + 1  OBVIOUS
<1> HIDE DEF l
<1>11. /\ pc'[t] = "submit" /\ current'[t] = l
       /\ \A u \in Threads : u # t => pc'[u] = pc[u] /\ current'[u] = current[u]
       /\ pc' \in [Threads -> {"new", "failed", "idle", "submit", "wait", "join"}]
  BY <1>1, <1>4 DEF Typed
<1>12. /\ iterating'[t] = IF kind = "anext" THEN g ELSE iterating[t]
       /\ \A u \in Threads : u # t => iterating'[u] = iterating[u]
       /\ iterating' \in [Threads -> 0..Len(streams')]
  <2>1. iterating \in [Threads -> 0..Len(streams')]
    BY <1>1, <1>5 DEF Typed
  <2> QED BY <1>9, <2>1
<1>13. Typed'
  <2>1. current' \in [Threads -> 0..Len(ops')]
    <3>1. 0..Len(ops) \subseteq 0..l /\ l \in 0..l  BY <1>3, <1>6, <1>10
    <3>2. current \in [Threads -> 0..l]  BY <1>1, <3>1 DEF Typed
    <3> QED BY <1>3, <1>4, <3>1, <3>2
  <2>2. \A u \in Threads : pc'[u] \in {"submit", "wait", "join"} <=> current'[u] # 0
    BY <1>1, <1>3, <1>11 DEF Typed
  <2>3. \A a \in Elems(ready) : a.do = "stop" \/ a.n \in DOMAIN ops'
    BY <1>1, <1>3 DEF Typed
  <2>4. left \subseteq DOMAIN streams'
    BY <1>5, <1>6
  <2> QED BY <1>1, <1>3, <1>5, <1>8, <1>11, <1>12, <2>1, <2>2, <2>3, <2>4 DEF Typed
<1>14. Formed'
  <2>1. l # 1  BY <1>3, <1>7
  <2>2. ASSUME NEW k \in DOMAIN ops
        PROVE  /\ ops[k].stream \in 0..Len(streams')
               /\ ops[k].stream # 0 <=> ops[k].kind \in {"anext", "aclose"}
               /\ ops[k].st = "exiting" => ops[k].kind = "shutdown"
               /\ ops[k].kind = "start" <=> k = 1
               /\ ops[k].client => ops[k].kind # "start"
               /\ ops[k].kind \notin {"start", "shutdown"} => ops[k].client
               /\ ops[k].dropped => ops[k].st # "new"
               /\ ops[k].st = "cancelling" => ops[k].dropped
               /\ ops[k].dropped /\ ops[k].kind \in {"start", "shutdown"} => cut'
    BY <1>5 DEF IInv, Formed
  <2> QED BY <1>3, <1>9, <2>1, <2>2 DEF Formed
<1>15. Matched' /\ Sorted'
  <2>1. \A a \in Elems(ready) : a.do = "stop" \/ a.n \in DOMAIN ops
    BY <1>1 DEF Typed
  <2>2. MatchedOf(ops, ready) /\ SortedOf(ops, ready, overlap)
    BY MatchedIs, SortedIs DEF IInv
  <2>3. overlap' \/ overlap' = overlap
    BY <1>6, <1>8
  <2> QED BY <1>1, <1>2, <1>6, <1>8, <2>1, <2>2, <2>3, AddedPlace
<1>16. Callers'
  <2>1. ASSUME NEW u \in Threads, current'[u] # 0
        PROVE  /\ ops'[current'[u]].by = u
               /\ \A k \in DOMAIN ops' : k > current'[u] =>
                    ops'[k].by # u /\ (ops'[k].kind = "shutdown" => overlap')
               /\ pc'[u] = "submit" => ops'[current'[u]].st = "new"
               /\ pc'[u] = "wait" => ops'[current'[u]].st # "new" /\ ~ops'[current'[u]].dropped
               /\ pc'[u] = "join" => ops'[current'[u]].kind = "shutdown" /\ closed
               /\ ops'[current'[u]].stream # 0 => ops'[current'[u]].stream = iterating'[u]
    <3>1. CASE u = t
      <4>1. \A k \in DOMAIN ops' : ~(k > l)  BY <1>3
      <4>2. g # 0 => g = iterating'[t]  BY <1>12
      <4> QED BY <1>3, <1>11, <3>1, <4>1, <4>2
    <3>2. CASE u # t
      <4>1. current'[u] = current[u] /\ pc'[u] = pc[u] /\ iterating'[u] = iterating[u]
            /\ current[u] # 0 /\ current[u] \in DOMAIN ops
        BY <1>6, <1>11, <1>12, <2>1, <3>2
      <4>2. /\ ops[current[u]].by = u
            /\ \A k \in DOMAIN ops : k > current[u] =>
                 ops[k].by # u /\ (ops[k].kind = "shutdown" => overlap)
            /\ pc[u] = "submit" => ops[current[u]].st = "new"
            /\ pc[u] = "wait" => ops[current[u]].st # "new" /\ ~ops[current[u]].dropped
            /\ pc[u] = "join" => ops[current[u]].kind = "shutdown" /\ closed
            /\ ops[current[u]].stream # 0 => ops[current[u]].stream = iterating[u]
        BY <4>1 DEF IInv, Callers, Op
      <4>3. kind = "shutdown" => overlap'
        <5>1. pc[u] # "idle"  BY <1>1, <4>1 DEF Typed
        <5> QED BY <3>2, <5>1 DEF Using
      <4>4. \A k \in DOMAIN ops' : k > current[u] =>
              ops'[k].by # u /\ (ops'[k].kind = "shutdown" => overlap')
        BY <1>3, <1>8, <3>2, <4>2, <4>3
      <4>5. ops'[current[u]] = ops[current[u]]
        BY <1>3, <4>1
      <4> QED BY <4>1, <4>2, <4>4, <4>5
    <3> QED BY <3>1, <3>2
  <2>2. ASSUME NEW k \in DOMAIN ops', ops'[k].st \in Pending, ~ops'[k].dropped
        PROVE  current'[ops'[k].by] = k /\ pc'[ops'[k].by] = "wait"
    <3>1. k \in DOMAIN ops /\ ops'[k] = ops[k]
      BY <1>3, <2>2 DEF Pending
    <3>2. current[ops[k].by] = k /\ pc[ops[k].by] = "wait" /\ ops[k].by \in Threads
      BY <1>6, <2>2, <3>1 DEF IInv, Callers
    <3>3. ops[k].by # t  BY <3>2
    <3> QED BY <1>11, <3>1, <3>2, <3>3
  <2> QED BY <2>1, <2>2 DEF Callers, Op
<1>17. Built'
  <2>1. \A u \in Threads : pc'[u] \notin {"new", "failed"}
    BY <1>7, <1>11
  <2>2. ASSUME NEW u \in Threads, current'[u] # 0  PROVE ops'[current'[u]].client
    <3>1. CASE u = t  BY <1>3, <1>11, <3>1
    <3>2. CASE u # t
      <4>1. current'[u] = current[u] /\ current[u] # 0 /\ current[u] \in DOMAIN ops
        BY <1>6, <1>11, <2>2, <3>2
      <4>2. ops[current[u]].client
        BY <1>7, <3>2, <4>1 DEF IInv, Built, Op
      <4> QED BY <1>3, <4>1, <4>2
    <3> QED BY <3>1, <3>2
  <2>3. 1 \in DOMAIN ops' /\ ops'[1].st = "ok"
    BY <1>3, <1>7
  <2>4. pc'[Main] # "new"
    BY <2>1, SyncClientAssumption
  <2> QED BY <2>1, <2>2, <2>3, <2>4 DEF Built, Op
<1>18. Streaming'
  <2>1. ASSUME NEW k \in DOMAIN ops, g # 0, ops[k].stream = g  PROVE ops[k].st \in Done
    <3>1. CASE g = iterating[t]
      <4>1. k # current[t]  BY <1>1, <1>6
      <4> QED BY <2>1, <3>1, <4>1 DEF IInv, Streaming
    <3>2. CASE g = Len(streams) + 1
      <4>1. ops[k].stream \in 0..Len(streams)  BY DEF IInv, Formed
      <4> QED BY <1>6, <2>1, <3>2, <4>1
    <3> QED BY <2>1, <3>1, <3>2
  <2>2. (\A n, k \in DOMAIN ops :
           n < k /\ ops[n].stream # 0 /\ ops[n].stream = ops[k].stream => ops[n].st \in Done)'
    <3> SUFFICES ASSUME NEW n \in DOMAIN ops', NEW k \in DOMAIN ops', n < k,
                        ops'[n].stream # 0, ops'[n].stream = ops'[k].stream
                 PROVE  ops'[n].st \in Done
      OBVIOUS
    <3>1. n \in DOMAIN ops /\ ops'[n] = ops[n]
      BY <1>3
    <3>2. CASE k = l  BY <1>3, <2>1, <3>1, <3>2
    <3>3. CASE k # l
      <4>1. k \in DOMAIN ops /\ ops'[k] = ops[k]  BY <1>3, <3>3
      <4> QED BY <3>1, <4>1 DEF IInv, Streaming
    <3> QED BY <3>2, <3>3
  <2>3. (\A n \in DOMAIN ops :
           /\ ops[n].kind = "anext" /\ ops[n].st \in {"running", "cancelling"}
                => streams[ops[n].stream] = "running"
           /\ ops[n].kind = "aclose" /\ ops[n].st \in Done => streams[ops[n].stream] = "ended")'
    <3> SUFFICES ASSUME NEW n \in DOMAIN ops'
                 PROVE  /\ ops'[n].kind = "anext" /\ ops'[n].st \in {"running", "cancelling"}
                             => streams'[ops'[n].stream] = "running"
                        /\ ops'[n].kind = "aclose" /\ ops'[n].st \in Done
                             => streams'[ops'[n].stream] = "ended"
      OBVIOUS
    <3>1. CASE n = l  BY <1>3, <3>1 DEF Done
    <3>2. CASE n # l
      <4>1. n \in DOMAIN ops /\ ops'[n] = ops[n]  BY <1>3, <3>2
      <4>2. ops[n].kind \in {"anext", "aclose"} => ops[n].stream \in DOMAIN streams
        BY <1>6, <4>1 DEF IInv, Formed
      <4>3. /\ ops[n].kind = "anext" /\ ops[n].st \in {"running", "cancelling"}
                 => streams[ops[n].stream] = "running"
            /\ ops[n].kind = "aclose" /\ ops[n].st \in Done
                 => streams[ops[n].stream] = "ended"
        BY <4>1 DEF IInv, Streaming
      <4>4. ops[n].kind \in {"anext", "aclose"} =>
              streams'[ops[n].stream] = streams[ops[n].stream]
        BY <1>5, <4>2
      <4> QED BY <4>1, <4>3, <4>4
    <3> QED BY <3>1, <3>2
  <2>4. ASSUME NEW u \in Threads, iterating'[u] # 0
        PROVE  /\ \A w \in Threads : iterating'[w] = iterating'[u] => w = u
               /\ \A n \in DOMAIN ops' :
                    ops'[n].stream = iterating'[u] /\ n # current'[u] => ops'[n].st \in Done
               /\ \/ streams'[iterating'[u]] \in {"suspended", "ended"}
                  \/ current'[u] # 0 /\ ops'[current'[u]].stream = iterating'[u]
                     /\ ops'[current'[u]].st # "ok"
    <3>1. \A w \in Threads : iterating[w] # 0 => iterating[w] # Len(streams) + 1
      BY <1>6
    <3>2. \A w, v \in Threads : iterating[w] # 0 /\ iterating[v] = iterating[w] => v = w
      BY DEF IInv, Streaming
    <3>3. kind = "anext" =>
            g = iterating[t] \/ (iterating[t] = 0 /\ g = Len(streams) + 1)
      OBVIOUS
    <3>4. \A w \in Threads : iterating'[w] = iterating'[u] => w = u
      BY <1>12, <2>4, <3>1, <3>2, <3>3
    <3>5. CASE u = t /\ kind = "anext"
      <4>1. iterating'[u] = g /\ current'[u] = l
        BY <1>11, <1>12, <3>5
      <4>2. \A n \in DOMAIN ops' : ops'[n].stream = g /\ n # l => ops'[n].st \in Done
        BY <1>3, <2>1, <2>4, <4>1
      <4> QED BY <1>3, <3>4, <4>1, <4>2
    <3>6. CASE u = t /\ kind # "anext"
      <4>1. iterating'[u] = iterating[t] /\ current'[u] = l /\ iterating[t] # 0
        BY <1>11, <1>12, <2>4, <3>6
      <4>2. /\ \A n \in DOMAIN ops : ops[n].stream = iterating[t] => ops[n].st \in Done
            /\ streams[iterating[t]] \in {"suspended", "ended"}
        BY <1>1, <1>6, <4>1 DEF IInv, Streaming
      <4>3. streams'[iterating[t]] \in {"suspended", "ended"}
        BY <1>5, <1>6, <4>1, <4>2
      <4>4. \A n \in DOMAIN ops' : ops'[n].stream = iterating[t] /\ n # l => ops'[n].st \in Done
        BY <1>3, <4>2
      <4> QED BY <3>4, <4>1, <4>3, <4>4
    <3>7. CASE u # t
      <4>1. iterating'[u] = iterating[u] /\ current'[u] = current[u] /\ iterating[u] # 0
            /\ iterating[u] \in DOMAIN streams
        BY <1>6, <1>11, <1>12, <2>4, <3>7
      <4>2. /\ \A n \in DOMAIN ops :
                 ops[n].stream = iterating[u] /\ n # current[u] => ops[n].st \in Done
            /\ \/ streams[iterating[u]] \in {"suspended", "ended"}
               \/ current[u] # 0 /\ ops[current[u]].stream = iterating[u]
                  /\ ops[current[u]].st # "ok"
        BY <4>1 DEF IInv, Streaming, Op
      <4>3. g # iterating[u]
        BY <3>1, <3>2, <3>7, <4>1
      <4>4. \A n \in DOMAIN ops' :
              ops'[n].stream = iterating[u] /\ n # current[u] => ops'[n].st \in Done
        BY <1>3, <4>2, <4>3
      <4>5. current[u] # 0 => ops'[current[u]] = ops[current[u]]
        BY <1>3, <1>6
      <4>6. streams'[iterating[u]] = streams[iterating[u]]
        BY <1>5, <4>1
      <4> QED BY <3>4, <4>1, <4>2, <4>4, <4>5, <4>6
    <3> QED BY <3>5, <3>6, <3>7
  <2> QED BY <2>2, <2>3, <2>4 DEF Streaming, Op
<1>19. ASSUME ~cut, ~overlap', Quiet  PROVE Quiet'
  <2>1. \A u \in Threads : u # t => ~Closing(u) /\ (kind = "shutdown" => ~Using(u))
    BY <1>19
  <2>2. \A k \in DOMAIN ops : ops[k].kind # "shutdown"
    <3> SUFFICES ASSUME NEW k \in DOMAIN ops, ops[k].kind = "shutdown"  PROVE FALSE
      OBVIOUS
    <3>1. current[ops[k].by] = k /\ ops[k].by \in Threads /\ k # 0
      BY <1>6, <1>19 DEF Quiet
    <3>2. Closing(ops[k].by)  BY <3>1 DEF Closing, Op
    <3>3. ops[k].by = t  BY <2>1, <3>1, <3>2
    <3> QED BY <1>1, <3>1, <3>3
  <2>3. ASSUME NEW u \in Threads, Closing(u)'
        PROVE  u = t /\ kind = "shutdown"
    <3>1. current'[u] # 0 /\ ops'[current'[u]].kind = "shutdown"
      BY <2>3 DEF Closing, Op
    <3>2. CASE u = t  BY <1>3, <1>11, <3>1, <3>2
    <3>3. CASE u # t
      <4>1. current[u] \in DOMAIN ops /\ current'[u] = current[u]
        BY <1>6, <1>11, <3>1, <3>3
      <4> QED BY <1>3, <2>2, <3>1, <4>1
    <3> QED BY <3>2, <3>3
  <2>4. ASSUME kind = "shutdown", NEW w \in Threads, w # t
        PROVE  current'[w] = 0 /\ iterating'[w] = 0
    <3>1. pc[w] = "idle" /\ iterating[w] = 0
      BY <2>1, <2>4 DEF Using
    <3>2. current[w] = 0  BY <1>1, <3>1 DEF Typed
    <3> QED BY <1>11, <1>12, <2>4, <3>1, <3>2
  <2>5. (\A u \in Threads : Closing(u) =>
           \A w \in Threads : w # u => current[w] = 0 /\ iterating[w] = 0)'
    BY <2>3, <2>4
  <2>6. \A k \in DOMAIN ops' : ops'[k].kind = "shutdown" => k = l
    BY <1>3, <2>2
  <2>7. (\A k \in DOMAIN ops : ops[k].kind = "shutdown" =>
           /\ k = Len(ops)
           /\ ~closed => current[ops[k].by] = k
           /\ ops[k].st # "error"
           /\ ops[k].client \/ ops[1].st = "error"
           /\ ops[k].st \in {"running", "exiting", "ok"} =>
                \A m \in DOMAIN ops : m = k \/ ops[m].st \in Done \cup {"cancelling", "new"}
           /\ ops[k].st \in {"exiting", "ok"} =>
                /\ \A h \in DOMAIN streams : streams[h] # "suspended"
                /\ \A u \in Threads : iterating[u] # 0 => streams[iterating[u]] = "ended"
           /\ ops[k].st = "ok" => http # "open")'
    BY <1>3, <1>11, <2>6
  <2>8. \A h \in left : streams'[h] = "ended"
    BY <1>5, <1>6, <1>19 DEF Quiet
  <2>9. loop \in {"none", "running"} /\ NoStop'
    BY <1>19 DEF Quiet, NoStop
  <2> QED BY <2>5, <2>7, <2>8, <2>9 DEF Quiet
<1> QED BY <1>8, <1>13, <1>14, <1>15, <1>16, <1>17, <1>18, <1>19 DEF IInv

(* The constructor starts the loop, and hands it the client's start.        *)
LEMMA ConstructStep ==
  ASSUME IInv, Construct
  PROVE  IInv'
<1> USE DEF Construct, history
<1>1. /\ Typed /\ ops = <<>> /\ loop = "none" /\ ~closed /\ NoStop /\ http = "none"
      /\ \A u \in Threads : pc[u] = "new"
  BY DEF IInv, Built
<1>2. Len(ops) = 0 /\ Main \in Threads /\ ops \in Seq(Operation)
  BY <1>1, SyncClientAssumption
<1>3. \A u \in Threads : current[u] = 0 /\ iterating[u] = 0
  BY <1>1 DEF Typed, IInv, Built
<1>4. Adds(ops, Main, "start", 0, FALSE)
  BY <1>1, <1>2, RunAdds
<1>5. /\ DOMAIN ops' = {1} /\ Len(ops') = 1 /\ ops' \in Seq(Operation) /\ DOMAIN ops = {}
      /\ ops'[1].kind = "start" /\ ops'[1].stream = 0 /\ ops'[1].by = Main
      /\ ops'[1].client = FALSE /\ ops'[1].st = "new" /\ ops'[1].dropped = FALSE
  <2>1. DOMAIN ops = {}  BY <1>1
  <2> QED BY <1>2, <1>4, <2>1 DEF Adds
<1>6. /\ pc'[Main] = "submit" /\ current'[Main] = 1
      /\ \A u \in Threads : u # Main => pc'[u] = "new" /\ current'[u] = 0
      /\ pc' \in [Threads -> {"new", "failed", "idle", "submit", "wait", "join"}]
      /\ current' \in [Threads -> 0..1]
  <2>1. pc' = [pc EXCEPT ![Main] = "submit"] /\ current' = [current EXCEPT ![Main] = 1]
    BY <1>2 DEF Run
  <2>2. current \in [Threads -> 0..1]
    <3>1. 0 \in 0..1  OBVIOUS
    <3>2. current \in [Threads -> 0..Len(ops)]  BY <1>1 DEF Typed
    <3> QED BY <1>3, <3>1, <3>2
  <2> QED BY <1>1, <1>2, <1>3, <2>1, <2>2 DEF Typed
<1>7. Typed'
  <2>1. \A a \in Elems(ready) : a.do = "stop" \/ a.n \in DOMAIN ops'
    BY <1>1, <1>5 DEF Typed
  <2>2. \A u \in Threads : pc'[u] \in {"submit", "wait", "join"} <=> current'[u] # 0
    BY <1>6
  <2> QED BY <1>1, <1>5, <1>6, <2>1, <2>2 DEF Typed
<1>8. Formed'
  <2>1. 0 \in 0..Len(streams)  BY <1>1, Shape
  <2> QED BY <1>5, <2>1 DEF Formed
<1>9. Matched' /\ Sorted'
  <2>1. \A a \in Elems(ready) : a.do = "stop" \/ a.n \in DOMAIN ops
    BY <1>1 DEF Typed
  <2>2. MatchedOf(ops, ready) /\ SortedOf(ops, ready, overlap)
    BY MatchedIs, SortedIs DEF IInv
  <2>3. overlap' = overlap /\ overlap \in BOOLEAN /\ overlap' \in BOOLEAN
    BY <1>1 DEF Typed
  <2>4. ready' = ready /\ Typed
    BY <1>1
  <2> HIDE DEF Construct, history
  <2> QED BY <1>4, <2>1, <2>2, <2>3, <2>4, AddedPlace
<1>10. Callers'
  <2>1. \A u \in Threads : current'[u] # 0 => u = Main /\ current'[u] = 1
    BY <1>6
  <2>2. \A k \in DOMAIN ops' : k = 1 /\ ~(k > 1)
    BY <1>5
  <2> QED BY <1>5, <1>6, <2>1, <2>2 DEF Callers, Op, Pending
<1>11. Built'
  <2>1. \A u \in Threads : current'[u] # 0 => u = Main /\ current'[u] = 1
    BY <1>6
  <2>2. NoStop' /\ loop' = "running" /\ ~closed' /\ http' = "none"
    BY <1>1 DEF NoStop
  <2>3. ops' # <<>>  BY <1>5
  <2>4. \A u \in Threads : pc'[u] # "idle" /\ iterating'[u] = 0
    BY <1>3, <1>6
  <2>5. \A k \in DOMAIN ops' : ~ops'[k].client
    BY <1>5
  <2> QED BY <1>2, <1>6, <2>1, <2>2, <2>3, <2>4, <2>5 DEF Built
<1>12. Streaming'
  <2>1. \A k \in DOMAIN ops' : ops'[k].stream = 0 /\ ops'[k].kind = "start"
    BY <1>5
  <2> QED BY <1>3, <2>1 DEF Streaming
<1>13. ASSUME Quiet  PROVE Quiet'
  <2>1. \A k \in DOMAIN ops' : ops'[k].kind # "shutdown"
    BY <1>5
  <2>2. \A u \in Threads : ~Closing(u)'
    <3>1. \A u \in Threads : current'[u] # 0 => current'[u] \in DOMAIN ops'
      BY <1>5, <1>6
    <3> QED BY <2>1, <3>1 DEF Closing, Op
  <2>3. ~closed' /\ loop' = "running" /\ NoStop'
    BY <1>1 DEF NoStop
  <2>4. \A g \in left : streams[g] = "ended"
    BY <1>13 DEF Quiet
  <2> QED BY <2>1, <2>2, <2>3, <2>4 DEF Quiet
<1> QED BY <1>7, <1>8, <1>9, <1>10, <1>11, <1>12, <1>13 DEF IInv

(* A thread of the application calls the client.                            *)
LEMMA ApplicationStep ==
  ASSUME IInv, NEW t \in Threads, Application(t)
  PROVE  IInv'
<1> USE DEF Enter, MayCall, bounds, history
<1>1. Typed /\ overlap \in BOOLEAN /\ Len(streams) + 1 \in Nat /\ Len(streams) + 1 # 0
      /\ iterating[t] \in Nat
  <2>1. Typed /\ overlap \in BOOLEAN  BY DEF IInv, Typed
  <2>2. Len(streams) \in Nat  BY <2>1, Shape
  <2>3. iterating[t] \in 0..Len(streams)  BY <2>1 DEF Typed
  <2> QED BY <2>1, <2>2, <2>3
<1> DEFINE Over(kind) ==
             overlap' = (overlap \/ \E u \in Threads \ {t} :
                                      Closing(u) \/ (kind = "shutdown" /\ Using(u)))
           Out(kind) ==
             /\ Back(t, "idle", kind # "call") /\ UNCHANGED ops
           In(kind, g) ==
             /\ Run(t, kind, g, TRUE, ops)
             /\ iterating' = IF kind = "anext" THEN [iterating EXCEPT ![t] = g] ELSE iterating
<1>2. \A kind : Over(kind) => overlap' \in BOOLEAN /\ (overlap => overlap')
  BY <1>1
<1>3. \A kind, g : Enter(t, kind, g) =>
        Over(kind) /\ (closed => Out(kind)) /\ (~closed => In(kind, g))
  OBVIOUS
<1> HIDE DEF Enter
<1>4. CASE Call(t)
  <2>1. /\ pc[t] = "idle" /\ Enter(t, "call", 0) /\ streams' = streams
        /\ UNCHANGED <<closed, loop, http, ready, left, cut>>
    BY <1>4 DEF Call
  <2>2. CASE closed
    BY <1>2, <1>3, <2>1, <2>2, EnterClosedStep
  <2>3. CASE ~closed
    <3>1. In("call", 0) /\ Over("call")  BY <1>3, <2>1, <2>3
    <3> QED BY <2>1, <2>3, <3>1, EnterRunStep
  <2> QED BY <2>2, <2>3
<1>5. CASE NextItem(t)
  <2> DEFINE g == IF iterating[t] # 0 THEN iterating[t] ELSE Len(streams) + 1
  <2>1. /\ pc[t] = "idle" /\ Enter(t, "anext", g)
        /\ IF iterating[t] # 0 THEN streams' = streams ELSE streams' = Append(streams, "fresh")
        /\ UNCHANGED <<closed, loop, http, ready, left, cut>>
    BY <1>5 DEF NextItem
  <2>2. /\ g \in Nat /\ g # 0
        /\ \/ g = iterating[t] /\ streams' = streams
           \/ /\ iterating[t] = 0 /\ g = Len(streams) + 1
              /\ streams' = Append(streams, "fresh")
    BY <1>1, <2>1
  <2> HIDE DEF g
  <2>3. CASE closed
    BY <1>2, <1>3, <2>1, <2>2, <2>3, EnterClosedStep
  <2>4. CASE ~closed
    <3>1. In("anext", g) /\ Over("anext")  BY <1>3, <2>1, <2>4
    <3> QED BY <2>1, <2>2, <2>4, <3>1, EnterRunStep
  <2> QED BY <2>3, <2>4
<1>6. CASE Leave(t)
  <2>1. /\ pc[t] = "idle" /\ iterating[t] # 0 /\ Enter(t, "aclose", iterating[t])
        /\ left' = (IF closed THEN left \cup {iterating[t]} ELSE left) /\ streams' = streams
        /\ UNCHANGED <<closed, loop, http, ready, cut>>
    BY <1>6 DEF Leave
  <2>2. CASE closed
    BY <1>2, <1>3, <2>1, <2>2, EnterClosedStep
  <2>3. CASE ~closed
    <3>1. In("aclose", iterating[t]) /\ Over("aclose")  BY <1>3, <2>1, <2>3
    <3> QED BY <1>1, <2>1, <2>3, <3>1, EnterRunStep
  <2> QED BY <2>2, <2>3
<1>7. CASE Close(t)
  <2>1. /\ pc[t] = "idle" /\ ~closed /\ Enter(t, "shutdown", 0) /\ streams' = streams
        /\ UNCHANGED <<closed, loop, http, ready, left, cut>>
    BY <1>7 DEF Close
  <2>2. In("shutdown", 0) /\ Over("shutdown")  BY <1>3, <2>1
  <2> QED BY <2>1, <2>2, EnterRunStep
<1> QED BY <1>4, <1>5, <1>6, <1>7 DEF Application

--------------------------------------------------------------------------------
(* The invariant.                                                           *)

(* Every step preserves the invariant.                                      *)
LEMMA NextIInv == ASSUME IInv, [Next]_vars PROVE IInv'
<1>1. CASE UNCHANGED vars
  <2>1. /\ UNCHANGED <<closed, loop, http, ready, ops, streams>>
        /\ UNCHANGED <<pc, current, iterating, left, cut, overlap>>
    BY <1>1 DEF vars, callers, history
  <2>2. Typed'  BY <2>1 DEF IInv, Typed
  <2>3. Formed' /\ Matched' /\ Sorted'
    BY <2>1 DEF IInv, Formed, Matched, Sorted, Follows
  <2>4. Callers'  BY <2>1 DEF IInv, Callers, Op
  <2>5. Built'  BY <2>1 DEF IInv, Built, Op, NoStop
  <2>6. Streaming'  BY <2>1 DEF IInv, Streaming, Op
  <2>7. Quiet => Quiet'  BY <2>1 DEF Quiet, Closing, Op, NoStop
  <2> QED BY <2>1, <2>2, <2>3, <2>4, <2>5, <2>6, <2>7 DEF IInv
<1>2. CASE Construct  BY <1>2, ConstructStep
<1>3. CASE Interrupt  BY <1>3, CtrlCStep
<1>4. ASSUME NEW t \in Threads, Application(t) \/ Proceed(t)  PROVE IInv'
  BY <1>4, ApplicationStep, ProceedStep
<1>5. CASE RunReady  BY <1>5, RunReadyStep
<1>6. CASE Operations  BY <1>6, FinishStep DEF Operations
<1>7. ASSUME NEW n \in DOMAIN ops, Reenter(n)  PROVE IInv'
  BY <1>7, ReenterStep
<1>8. ASSUME NEW g \in DOMAIN streams, Collect(g)  PROVE IInv'
  BY <1>8, CollectStep
<1> QED BY <1>1, <1>2, <1>3, <1>4, <1>5, <1>6, <1>7, <1>8 DEF Next

(* It holds before the constructor.                                         *)
LEMMA InitIInv == ASSUME Init PROVE IInv
<1> USE DEF Init
<1>1. /\ Elems(ready) = {} /\ Len(ops) = 0 /\ Len(streams) = 0
      /\ DOMAIN ops = {} /\ DOMAIN streams = {} /\ 0 \in 0..0
      /\ ready \in Seq(Callback) /\ ops \in Seq(Operation) /\ streams \in Seq(Streams)
  BY EmptyQueue
<1>2. /\ \A t \in Threads : pc[t] = "new" /\ current[t] = 0 /\ iterating[t] = 0
      /\ current \in [Threads -> 0..0] /\ iterating \in [Threads -> 0..0]
  BY <1>1
<1>3. Typed
  BY <1>1, <1>2 DEF Typed
<1>4. Formed /\ Matched /\ Sorted
  BY <1>1 DEF Formed, Matched, Sorted
<1>5. Callers  BY <1>1, <1>2 DEF Callers
<1>6. Built  BY <1>1, <1>2 DEF Built, NoStop
<1>7. Streaming  BY <1>1, <1>2 DEF Streaming
<1>8. Quiet  BY <1>1, <1>2 DEF Quiet, Closing, NoStop
<1> QED BY <1>3, <1>4, <1>5, <1>6, <1>7, <1>8 DEF IInv

(* Every reachable state of the blocking client satisfies the invariant.    *)
THEOREM Inductive == Spec => []IInv
<1>1. Init => IInv  BY InitIInv
<1>2. IInv /\ [Next]_vars => IInv'  BY NextIInv
<1> QED BY <1>1, <1>2, PTL DEF Spec

(* The type invariant: exactly the threads that wait have an operation, and *)
(* no callback of the loop names one that does not exist                    *)
(* (sync_client.py:174-195).                                                *)
THEOREM TypeOKThm == Spec => []TypeOK
<1>1. IInv => TypeOK
  <2> SUFFICES ASSUME IInv  PROVE TypeOK
    OBVIOUS
  <2>1. Typed  BY DEF IInv
  <2>2. \A i \in DOMAIN ready : ready[i].do = "stop" \/ ready[i].n \in DOMAIN ops
    BY <2>1 DEF Typed, Elems
  <2> QED BY <2>1, <2>2 DEF Typed, TypeOK
<1> QED BY <1>1, Inductive, PTL

(* Ctrl-C comes first: when a later operation of the same thread has taken  *)
(* its first step, the one that was interrupted has ended or is unwinding   *)
(* (sync_client.py:187-195; docs/sync.md:31), whatever else was on the      *)
(* loop's queue.                                                            *)
THEOREM InterruptComesFirstThm == Spec => []InterruptComesFirst
<1>1. IInv => InterruptComesFirst
  <2> SUFFICES ASSUME IInv, NEW n \in DOMAIN ops, NEW k \in DOMAIN ops,
                      n < k, ops[n].by = ops[k].by, ops[n].dropped,
                      ops[k].st \notin {"new", "queued", "created"}
               PROVE  ops[n].st \in Done \cup {"cancelling"}
    BY DEF InterruptComesFirst
  <2>1. ops[n].st \in {"new"} \cup Pending \cup Done
    BY Shape DEF IInv
  <2>2. ops[n].st # "new"
    BY DEF IInv, Formed
  <2>3. ops[n].st \notin {"queued", "created", "running", "exiting"}
    BY DEF IInv, Sorted, Follows
  <2> QED BY <2>1, <2>2, <2>3 DEF Pending
<1> QED BY <1>1, Inductive, PTL

(* What was left or closed is gone: a stream whose loop was left early has  *)
(* ended, and a closed client leaves no stream that waits, no HTTP session  *)
(* and no loop, unless an interrupt hit the constructor or close, or        *)
(* another thread used the client while it was closed                       *)
(* (sync_client.py:84-103, 174-202).                                        *)
THEOREM NothingStaysOpenThm == Spec => []NothingStaysOpen
<1>1. IInv => NothingStaysOpen
  <2> SUFFICES ASSUME IInv, Quiet  PROVE NothingStaysOpen
    BY DEF IInv, NothingStaysOpen
  <2>1. \A g \in left : streams[g] = "ended"
    BY DEF Quiet
  <2>2. ASSUME Closed
        PROVE  /\ loop = "closed" /\ http # "open"
               /\ \A g \in DOMAIN streams : streams[g] # "suspended"
    <3>1. closed /\ \A t \in Threads : pc[t] # "join"
      BY <2>2 DEF Closed
    <3>2. PICK k \in DOMAIN ops : ops[k].kind = "shutdown" /\ ops[k].st = "ok"
      BY <3>1 DEF Quiet
    <3>3. loop = "closed"
      BY <3>1 DEF Quiet
    <3> QED BY <3>2, <3>3 DEF Quiet
  <2> QED BY <2>1, <2>2 DEF NothingStaysOpen
<1> QED BY <1>1, Inductive, PTL

--------------------------------------------------------------------------------
(* A thread that waits is woken. This needs one more invariant, about who   *)
(* can stop the loop.                                                       *)

Coming(q) == \E a \in Elems(q) : a.do = "stop"

(* The loop starts with the constructor, and who joins it has told it to    *)
(* stop. While nobody uses the client in its close, the loop runs until the *)
(* client is closed, and then no thread waits for an operation.             *)
Lone ==
  /\ ~closed => loop \in {"none", "running"} /\ ~Coming(ready)
  /\ closed => \A t \in Threads : current[t] = 0 \/ pc[t] = "join"
  /\ \A t \in Threads : Closing(t) =>
       \A u \in Threads \ {t} : current[u] = 0 /\ iterating[u] = 0

Stopped ==
  /\ loop = "none" => pc[Main] = "new"
  /\ \A t \in Threads : pc[t] = "join" => loop # "running" \/ Coming(ready)
  /\ overlap \/ Lone

(* Something will wake each thread that waits: its operation has ended, or  *)
(* has its next step on the loop or ahead in the loop's queue, while the    *)
(* loop runs; and who joins the loop has ended it, or has the stop ahead.   *)
(* Only where another thread closed the client may the loop be gone.        *)
WokenBy(t) ==
  /\ pc[t] = "wait" =>
       \/ Op(t).st \in Done
       \/ overlap /\ loop \in {"ended", "closed"}
       \/ /\ loop = "running"
          /\ \/ Op(t).st \in {"running", "exiting", "cancelling"}
             \/ \E a \in Elems(ready) : a.do \in {"start", "step"} /\ a.n = current[t]
  /\ pc[t] = "join" => loop \in {"ended", "closed"} \/ (loop = "running" /\ Coming(ready))

Woken == \A t \in Threads : WokenBy(t)

LEMMA ComingBehind ==
  ASSUME NEW q \in Seq(Callback), NEW d \in {"start", "step", "cancel", "stop"}, NEW n \in Nat
  PROVE  /\ q \o Soon(d, n) \in Seq(Callback)
         /\ Coming(q \o Soon(d, n)) <=> d = "stop" \/ Coming(q)
<1>1. /\ q \o Soon(d, n) \in Seq(Callback)
      /\ Elems(q \o Soon(d, n)) = Elems(q) \cup {Cb(d, n)} /\ Cb(d, n).do = d
  BY PutCallback, CbFacts DEF Gains
<1> QED BY <1>1 DEF Coming

(* A cancellation on its way does not stop the loop. *)
LEMMA ComingCancel ==
  ASSUME IInv, NEW t \in Threads, current[t] # 0, NEW d \in BOOLEAN
  PROVE  /\ ready \o CancelOf(t, d) \in Seq(Callback)
         /\ Coming(ready \o CancelOf(t, d)) <=> Coming(ready)
<1>1. ready \in Seq(Callback) /\ current[t] \in Nat  BY Shape DEF IInv, Typed
<1>2. CASE CancelOf(t, d) = <<>>
  <2>1. ready \o <<>> = ready  BY <1>1, PutCallback
  <2> QED BY <1>1, <1>2, <2>1
<1>3. CASE CancelOf(t, d) = Soon("cancel", current[t])
  BY <1>1, <1>3, ComingBehind
<1> QED BY <1>2, <1>3 DEF CancelOf

--------------------------------------------------------------------------------
(* The loop's steps leave the threads where they are.                       *)
LEMMA LoopStopped ==
  ASSUME IInv, Stopped, UNCHANGED <<closed, loop, callers, overlap>>,
         \A n \in DOMAIN ops : ops'[n].kind = ops[n].kind,
         Coming(ready') <=> Coming(ready)
  PROVE  Stopped'
<1>1. UNCHANGED <<pc, current, iterating>>  BY DEF callers
<1>2. \A t \in Threads : Closing(t)' <=> Closing(t)
  BY <1>1, Shape DEF IInv, Closing, Op
<1>3. Lone => Lone'  BY <1>1, <1>2 DEF Lone
<1> QED BY <1>1, <1>3 DEF Stopped

LEMMA RunReadyStopped ==
  ASSUME IInv, Stopped, RunReady
  PROVE  Stopped'
<1> USE DEF RunReady
<1>0. Typed /\ UNCHANGED <<closed, callers, overlap>>  BY DEF IInv, history
<1> DEFINE h == Head(ready)
           r == Tail(ready)
<1>1. /\ h.n \in Nat /\ r \in Seq(Callback) /\ Loses(ready, r, h)
      /\ h.do # "stop" => h.n \in DOMAIN ops
  BY <1>0, HeadOfLoop
<1>2. Coming(ready) <=> h.do = "stop" \/ Coming(r)  BY <1>1 DEF Coming, Loses
<1>3. CASE h.do = "stop"
  <2>1. /\ loop' = "ended" /\ ops' = ops /\ Coming(ready)
    BY <1>2, <1>3
  <2>2. UNCHANGED <<pc, current, iterating>>  BY <1>0 DEF callers
  <2>3. \A t \in Threads : Closing(t)' <=> Closing(t)  BY <2>1, <2>2 DEF Closing, Op
  <2>4. Lone => closed  BY <2>1 DEF Lone
  <2> HIDE DEF RunReady, h, r
  <2>5. Lone => Lone'
    <3> SUFFICES ASSUME Lone  PROVE Lone'
      OBVIOUS
    <3>1. closed' /\ closed  BY <1>0, <2>4
    <3>2. \A t \in Threads : current'[t] = 0 \/ pc'[t] = "join"
      BY <2>2, <3>1 DEF Lone
    <3>3. \A t \in Threads : Closing(t)' =>
            \A u \in Threads \ {t} : current'[u] = 0 /\ iterating'[u] = 0
      BY <2>2, <2>3 DEF Lone
    <3> QED BY <3>1, <3>2, <3>3 DEF Lone
  <2> QED BY <1>0, <2>1, <2>2, <2>5 DEF Stopped
<1>4. CASE h.do # "stop"
  <2>1. h.n \in DOMAIN ops /\ loop' = loop  BY <1>1, <1>4
  <2>2. \A n \in DOMAIN ops : ops'[n].kind = ops[n].kind
    <3>1. PICK s : ops' = [ops EXCEPT ![h.n].st = s]  BY <1>4 DEF Touch
    <3> HIDE DEF h, r, RunReady
    <3>2. SUFFICES ASSUME NEW n \in DOMAIN ops  PROVE ops'[n].kind = ops[n].kind
      OBVIOUS
    <3>3. CASE n # h.n  BY <3>1, <3>3
    <3>4. CASE n = h.n
      <4>1. ops'[n] = [ops[n] EXCEPT !.st = s]  BY <3>1, <3>4
      <4> QED BY <4>1
    <3> QED BY <3>3, <3>4
  <2>3. Coming(ready') <=> Coming(r)
    <3>1. CASE ready' = r  BY <3>1
    <3>2. CASE ready' = r \o Soon("step", h.n)
                         \o IF ops[h.n].dropped THEN Soon("cancel", h.n) ELSE <<>>
      <4> DEFINE s == r \o Soon("step", h.n)
      <4> HIDE DEF h, r, RunReady
      <4>0. ready' = s \o IF ops[h.n].dropped THEN Soon("cancel", h.n) ELSE <<>>
        BY <3>2
      <4>1. s \in Seq(Callback) /\ (Coming(s) <=> Coming(r))  BY <1>1, ComingBehind
      <4> HIDE DEF s
      <4>2. CASE ops[h.n].dropped
        <5>1. ready' = s \o Soon("cancel", h.n)  BY <4>0, <4>2
        <5> QED BY <1>1, <4>1, <5>1, ComingBehind
      <4>3. CASE ~ops[h.n].dropped
        <5>1. ready' = s \o <<>> /\ s \o <<>> = s  BY <1>1, <4>0, <4>1, <4>3, PutCallback
        <5> QED BY <4>1, <5>1
      <4> QED BY <4>2, <4>3
    <3> QED BY <1>4, <3>1, <3>2
  <2> QED BY <1>0, <1>2, <1>4, <2>1, <2>2, <2>3, LoopStopped
<1> QED BY <1>3, <1>4

LEMMA FinishStopped ==
  ASSUME IInv, Stopped, Operations \/ (\E n \in DOMAIN ops : Reenter(n))
                        \/ (\E g \in DOMAIN streams : Collect(g))
  PROVE  Stopped'
<1>1. UNCHANGED <<closed, loop, ready, callers, overlap>>
  BY DEF Operations, Finish, Reenter, Collect, history
<1>2. \A n \in DOMAIN ops : ops'[n].kind = ops[n].kind
  <2>1. ops' = ops \/ \E n, s : ops' = [ops EXCEPT ![n].st = s]
    BY DEF Operations, Finish, Shutdown, Reenter, Collect
  <2>2. CASE ops' = ops  BY <2>2
  <2>3. ASSUME NEW n, NEW s, ops' = [ops EXCEPT ![n].st = s]
        PROVE  \A k \in DOMAIN ops : ops'[k].kind = ops[k].kind
    BY <2>3
  <2> QED BY <2>1, <2>2, <2>3
<1> QED BY <1>1, <1>2, LoopStopped

--------------------------------------------------------------------------------
(* A thread is back in the application, from an operation or from join, or  *)
(* because the client was closed.                                           *)
LEMMA BackStopped ==
  ASSUME IInv, Stopped, NEW t \in Threads, pc[t] # "new",
         NEW at \in {"idle", "failed"}, NEW ended, Back(t, at, ended),
         UNCHANGED <<closed, overlap>>, loop' = loop \/ (closed /\ loop' = "closed"),
         \A n \in DOMAIN ops : ops'[n].kind = ops[n].kind,
         Coming(ready') <=> Coming(ready)
  PROVE  Stopped'
<1>1. /\ \A u \in Threads : pc'[u] = IF u = t THEN at ELSE pc[u]
      /\ \A u \in Threads : current'[u] = IF u = t THEN 0 ELSE current[u]
      /\ \A u \in Threads : iterating'[u] \in {0, iterating[u]}
  BY DEF Back, IInv, Typed
<1>2. pc[Main] # "new"  BY DEF IInv, Built
<1>3. \A u \in Threads : Closing(u)' => Closing(u)
  BY <1>1, Shape DEF IInv, Closing, Op
<1>4. Lone => Lone'  BY <1>1, <1>3 DEF Lone
<1> QED BY <1>1, <1>2, <1>4 DEF Stopped

(* After the constructor's operation, nobody else has one.                  *)
LEMMA StartStopped ==
  ASSUME IInv, NEW t \in Threads, current[t] # 0, pc[t] # "join", Op(t).kind = "start",
         UNCHANGED <<closed, loop, iterating>>, Coming(ready') <=> Coming(ready),
         \A u \in Threads \ {t} : current'[u] = current[u] /\ pc'[u] # "join",
         pc'[t] # "join"
  PROVE  Stopped'
<1>1. ~Op(t).client
  <2>1. current[t] \in DOMAIN ops  BY Shape DEF IInv
  <2> QED BY <2>1, Shape DEF IInv, Formed, Op
<1>2. /\ loop = "running" /\ ~closed /\ ~Coming(ready)
      /\ \A u \in Threads \ {t} : pc[u] = "new" /\ iterating[u] = 0
  BY <1>1 DEF IInv, Built, NoStop, Coming
<1>3. iterating[t] = 0  BY <1>1 DEF IInv, Built
<1>4. \A u \in Threads \ {t} : current[u] = 0  BY <1>2 DEF IInv, Typed
<1>5. Lone'  BY <1>2, <1>3, <1>4 DEF Lone, Closing
<1> QED BY <1>2, <1>5 DEF Stopped

LEMMA ContinueStopped ==
  ASSUME IInv, Stopped, NEW t \in Threads, NEW d \in BOOLEAN, NEW o, Ends(t, d, o),
         NEW raised \in BOOLEAN, Continue(t, raised, o, CancelOf(t, d))
  PROVE  Stopped'
<1> DEFINE q == ready \o CancelOf(t, d)
<1>1. /\ Typed /\ current[t] # 0 /\ current[t] \in DOMAIN ops /\ pc[t] \in {"submit", "wait"}
      /\ UNCHANGED <<loop, overlap>> /\ \A k \in DOMAIN ops : o[k].kind = ops[k].kind
  BY EndsFacts DEF Ends
<1>2. q \in Seq(Callback) /\ (Coming(q) <=> Coming(ready))  BY <1>1, ComingCancel
<1> HIDE DEF q
<1>3. CASE Op(t).kind = "start" /\ raised
  <2>1. Run(t, "shutdown", 0, FALSE, o) /\ ready' = q /\ UNCHANGED <<closed, iterating>>
    BY <1>3 DEF Continue, q
  <2>2. /\ \A u \in Threads \ {t} : current'[u] = current[u] /\ pc'[u] = pc[u]
        /\ pc'[t] = "submit"
    BY <1>1, <2>1 DEF Run, Typed
  <2>3. \A u \in Threads \ {t} : pc[u] = "new"
    BY <1>1, <1>3, Shape DEF IInv, Built, Formed, Op
  <2> QED BY <1>1, <1>2, <1>3, <2>1, <2>2, <2>3, StartStopped
<1>4. CASE Op(t).kind = "start" /\ ~raised
  <2>1. /\ pc' = [u \in Threads |-> "idle"] /\ current' = [current EXCEPT ![t] = 0]
        /\ UNCHANGED <<closed, iterating, ready>>
    BY <1>4 DEF Continue
  <2> QED BY <1>1, <1>4, <2>1, StartStopped
<1>5. CASE Op(t).kind = "shutdown" /\ loop # "closed"
  <2>1. /\ closed' = TRUE /\ ready' = q \o Soon("stop", 0) /\ ops' = o
        /\ pc' = [pc EXCEPT ![t] = "join"] /\ UNCHANGED <<current, iterating>>
    BY <1>5 DEF Continue, q
  <2>2. Coming(ready')  BY <1>2, <2>1, ComingBehind
  <2>3. \A u \in Threads : pc'[u] = IF u = t THEN "join" ELSE pc[u]  BY <1>1, <2>1 DEF Typed
  <2>4. pc[Main] # "new"  BY <1>1 DEF IInv, Built
  <2>5. Closing(t) /\ \A u \in Threads : Closing(u)' <=> Closing(u)
    BY <1>1, <1>5, <2>1, Shape DEF Closing, Op
  <2>6. Lone => Lone'  BY <2>1, <2>3, <2>5 DEF Lone
  <2> QED BY <1>1, <2>2, <2>4, <2>6 DEF Stopped
<1>6. CASE Op(t).kind # "start" /\ (Op(t).kind = "shutdown" => loop = "closed")
  <2>1. /\ Back(t, "idle", Op(t).kind = "aclose" \/ (Op(t).kind = "anext" /\ raised))
        /\ ready' = q /\ ops' = o /\ closed' = closed
    BY <1>6 DEF Continue, q
  <2> QED BY <1>1, <1>2, <2>1, BackStopped
<1> QED BY <1>3, <1>4, <1>5, <1>6

--------------------------------------------------------------------------------
(* The threads' steps. *)
LEMMA ProceedStopped ==
  ASSUME IInv, Stopped, NEW t \in Threads, Proceed(t)
  PROVE  Stopped'
<1>1. /\ Typed /\ current[t] # 0 /\ current[t] \in DOMAIN ops
      /\ pc[t] \in {"submit", "wait", "join"}
  <2>1. Typed /\ pc[t] \in {"submit", "wait", "join"}
    BY DEF IInv, Proceed, Submit, Return, Joined
  <2>2. current[t] # 0  BY <2>1 DEF Typed
  <2> QED BY <2>1, <2>2, Shape
<1>2. CASE pc[t] # "join" /\ \E raised \in BOOLEAN : Continue(t, raised, ops, <<>>)
                           /\ UNCHANGED <<loop, http, streams, cut, overlap>>
  <2>1. ops[current[t]].dropped = FALSE /\ Op(t).st \in {"new"} \cup Done
    <3>1. pc[t] = "submit" => Op(t).st = "new"  BY <1>1 DEF IInv, Callers
    <3>2. pc[t] = "wait" => Op(t).st \in Done /\ ~Op(t).dropped
      BY <1>1 DEF IInv, Callers, Proceed, Submit, Return, Joined
    <3>3. Op(t).st = "new" => ~Op(t).dropped  BY <1>1 DEF IInv, Formed, Op
    <3> QED BY <1>1, <1>2, <3>1, <3>2, <3>3, Shape DEF Op
  <2>2. Alike(ops, current[t], FALSE)  BY <1>1, <2>1, SameOps
  <2>3. Ends(t, FALSE, ops)
    <3>1. UNCHANGED <<loop, http, streams, cut, overlap>> /\ pc[t] \in {"submit", "wait"}
      BY <1>1, <1>2
    <3>2. cut \in BOOLEAN  BY <1>1 DEF Typed
    <3> QED BY <1>1, <2>1, <2>2, <3>1, <3>2 DEF Ends
  <2>4. CancelOf(t, FALSE) = <<>>  BY DEF CancelOf
  <2> QED BY <1>2, <2>3, <2>4, ContinueStopped
<1>3. CASE Submit(t) /\ loop # "closed"
  <2>1. /\ ops' = [ops EXCEPT ![current[t]].st = "queued"]
        /\ ready' = ready \o Soon("start", current[t]) /\ pc' = [pc EXCEPT ![t] = "wait"]
        /\ UNCHANGED <<current, iterating, closed, loop, overlap>> /\ pc[t] = "submit"
    BY <1>3 DEF Submit, history
  <2>2. Coming(ready') <=> Coming(ready)
    <3>1. ready \in Seq(Callback) /\ current[t] \in Nat  BY <1>1, Shape DEF Typed
    <3> QED BY <2>1, <3>1, ComingBehind
  <2>3. \A u \in Threads : pc'[u] = IF u = t THEN "wait" ELSE pc[u]  BY <1>1, <2>1 DEF Typed
  <2>4. \A u \in Threads : Closing(u)' <=> Closing(u)  BY <2>1, <1>1, Shape DEF Closing, Op
  <2>5. pc[Main] # "new"  BY <1>1 DEF IInv, Built
  <2>6. Lone => Lone'  BY <1>1, <2>1, <2>2, <2>3, <2>4 DEF Lone
  <2> QED BY <2>1, <2>2, <2>3, <2>5, <2>6 DEF Stopped
<1>4. CASE Joined(t)
  <2>1. closed  BY <1>1, <1>4 DEF IInv, Callers, Joined
  <2>2. Back(t, IF Op(t).client THEN "idle" ELSE "failed", FALSE)  BY <1>4 DEF Joined
  <2> QED BY <1>1, <1>4, <2>1, <2>2, BackStopped DEF Joined, history
<1> QED BY <1>2, <1>3, <1>4 DEF Proceed, Submit, Return, bounds, history

LEMMA InterruptStopped ==
  ASSUME IInv, Stopped, Interrupt
  PROVE  Stopped'
<1> DEFINE n == current[Main]
           d == ops[n].st \notin Done
           o == [ops EXCEPT ![n].dropped = d]
<1>1. Main \in Threads /\ Typed /\ pc[Main] \in {"wait", "join"}
  BY SyncClientAssumption DEF IInv, Interrupt
<1>2. n # 0 /\ n \in DOMAIN ops /\ Op(Main) = ops[n] /\ d \in BOOLEAN
  BY <1>1, Shape DEF Typed, Op
<1>3. CASE pc[Main] = "wait"
  <2>1. ops[n].st # "new" /\ ops[n].st \in {"new"} \cup Pending \cup Done
    BY <1>1, <1>2, <1>3, Shape DEF IInv, Callers
  <2>2. /\ Continue(Main, TRUE, o, CancelTask(n))
        /\ cut' = (cut \/ Op(Main).kind \in {"start", "shutdown"})
        /\ UNCHANGED <<loop, http, streams, overlap>>
    BY <1>3 DEF Interrupt
  <2>3. CancelTask(n) = CancelOf(Main, d)  BY <1>2 DEF CancelTask, CancelOf, Done
  <2>4. Alike(o, n, d)  BY <1>1, <1>2, DropOp
  <2>5. (d => ops[n].st \in Pending) /\ (~d => ops[n].st \in Done)  BY <2>1
  <2> HIDE DEF d, o, n
  <2>6. cut' \in BOOLEAN /\ (cut => cut') /\ (Op(Main).kind \in {"start", "shutdown"} => cut')
    BY <1>1, <2>2 DEF Typed
  <2>7. Ends(Main, d, o)  BY <1>2, <1>3, <2>2, <2>4, <2>5, <2>6 DEF Ends, n
  <2> QED BY <1>1, <1>2, <2>2, <2>3, <2>7, ContinueStopped
<1>4. CASE pc[Main] = "join"
  <2>1. /\ Back(Main, IF Op(Main).client THEN "idle" ELSE "failed", FALSE)
        /\ UNCHANGED <<closed, ops, ready, loop, overlap>>
    BY <1>4 DEF Interrupt
  <2> QED BY <1>1, <1>4, <2>1, BackStopped
<1> QED BY <1>1, <1>3, <1>4

LEMMA ConstructStopped ==
  ASSUME IInv, Construct
  PROVE  Stopped'
<1> USE DEF Construct, history
<1>1. /\ Typed /\ ops = <<>> /\ ~closed /\ ~Coming(ready) /\ Main \in Threads
      /\ \A u \in Threads : pc[u] = "new" /\ current[u] = 0 /\ iterating[u] = 0
  BY SyncClientAssumption DEF IInv, Built, Typed, NoStop, Coming
<1>2. Adds(ops, Main, "start", 0, FALSE)
  <2>1. ops \in Seq(Operation)  BY <1>1 DEF Typed
  <2> QED BY <1>1, <2>1, RunAdds
<1>3. ops'[Len(ops) + 1].kind = "start"  BY <1>2 DEF Adds
<1>4. /\ \A u \in Threads : pc'[u] \in {"submit", "new"}
      /\ \A u \in Threads : current'[u] = IF u = Main THEN Len(ops) + 1 ELSE 0
  BY <1>1 DEF Run, Typed
<1>5. \A u \in Threads : ~Closing(u)'  BY <1>3, <1>4 DEF Closing, Op
<1>6. Lone'  BY <1>1, <1>5 DEF Lone
<1> QED BY <1>4, <1>6 DEF Stopped

LEMMA EnterStopped ==
  ASSUME IInv, Stopped, NEW t \in Threads, pc[t] = "idle",
         NEW kind \in {"call", "anext", "aclose", "shutdown"}, NEW g \in Nat,
         Enter(t, kind, g), UNCHANGED <<closed, loop, ready>>
  PROVE  Stopped'
<1>1. Typed /\ overlap \in BOOLEAN /\ current[t] = 0 /\ pc[Main] # "new"
  BY DEF IInv, Typed, Built
<1>2. overlap' = (overlap \/ \E u \in Threads \ {t} : Closing(u) \/ (kind = "shutdown" /\ Using(u)))
  BY DEF Enter
<1>3. CASE closed
  <2>1. Back(t, "idle", kind # "call") /\ ops' = ops  BY <1>3 DEF Enter
  <2>2. /\ \A u \in Threads : pc'[u] = pc[u]
        /\ \A u \in Threads : current'[u] = current[u]
        /\ \A u \in Threads : iterating'[u] \in {0, iterating[u]}
    BY <1>1, <2>1 DEF Back, Typed
  <2>3. \A u \in Threads : Closing(u)' <=> Closing(u)  BY <2>1, <2>2 DEF Closing, Op
  <2>4. Lone => Lone'  BY <1>3, <2>2, <2>3 DEF Lone
  <2> QED BY <1>1, <1>2, <2>2, <2>4 DEF Stopped
<1>4. CASE ~closed
  <2>1. /\ Run(t, kind, g, TRUE, ops)
        /\ iterating' = IF kind = "anext" THEN [iterating EXCEPT ![t] = g] ELSE iterating
    BY <1>4 DEF Enter
  <2>2. Adds(ops, t, kind, g, TRUE)
    <3>1. ops \in Seq(Operation)  BY <1>1 DEF Typed
    <3> QED BY <1>1, <2>1, <3>1, RunAdds
  <2>3. /\ \A u \in Threads : pc'[u] = IF u = t THEN "submit" ELSE pc[u]
        /\ \A u \in Threads : current'[u] = IF u = t THEN Len(ops) + 1 ELSE current[u]
        /\ \A u \in Threads \ {t} : iterating'[u] = iterating[u]
    BY <1>1, <2>1 DEF Run, Typed
  <2>4. \A u \in Threads \ {t} : Closing(u)' <=> Closing(u)
    BY <1>1, <2>2, <2>3, Shape DEF Closing, Op, Adds
  <2>5. Closing(t)' => kind = "shutdown"  BY <2>2, <2>3 DEF Closing, Op, Adds
  <2>6. ASSUME Lone, ~overlap'  PROVE Lone'
    <3>1. \A u \in Threads \ {t} : ~Closing(u) /\ (kind = "shutdown" => ~Using(u))
      BY <1>2, <2>6
    <3>2. \A u \in Threads \ {t} : ~Using(u) => current[u] = 0 /\ iterating[u] = 0
      BY <1>1 DEF Using, Typed
    <3>3. \A u \in Threads : Closing(u)' => u = t /\ kind = "shutdown"
      BY <2>4, <2>5, <3>1
    <3> QED BY <1>4, <2>3, <2>6, <3>1, <3>2, <3>3 DEF Lone
  <2> QED BY <1>1, <1>2, <2>3, <2>6 DEF Stopped
<1> QED BY <1>3, <1>4

LEMMA ApplicationStopped ==
  ASSUME IInv, Stopped, NEW t \in Threads, Application(t)
  PROVE  Stopped'
<1>1. iterating[t] \in Nat /\ Len(streams) + 1 \in Nat
  <2>1. Typed /\ Len(streams) \in Nat  BY Shape DEF IInv
  <2>2. iterating[t] \in 0..Len(streams)  BY <2>1 DEF Typed
  <2> QED BY <2>1, <2>2
<1>2. pc[t] = "idle" /\ UNCHANGED <<closed, loop, ready>>
  BY DEF Application, Call, NextItem, Leave, Close, MayCall
<1>3. \/ Enter(t, "call", 0) \/ Enter(t, "shutdown", 0) \/ Enter(t, "aclose", iterating[t])
      \/ Enter(t, "anext", iterating[t]) \/ Enter(t, "anext", Len(streams) + 1)
  BY DEF Application, Call, NextItem, Leave, Close
<1> QED BY <1>1, <1>2, <1>3, EnterStopped

LEMMA NextStopped == ASSUME IInv, Stopped, [Next]_vars PROVE Stopped'
<1>1. CASE UNCHANGED vars
  <2>1. UNCHANGED <<closed, loop, ready, ops, callers, overlap>>  BY <1>1 DEF vars, history
  <2> QED BY <2>1, LoopStopped
<1>2. CASE Next
  BY <1>2, ConstructStopped, InterruptStopped, ApplicationStopped, ProceedStopped,
     RunReadyStopped, FinishStopped
  DEF Next
<1> QED BY <1>1, <1>2

(* No thread is forgotten: one that waits for its operation, or for the     *)
(* loop to end, will be woken, unless another thread closed the client over *)
(* its head (sync_client.py:86-93, 192-199). The safety half of CallsEnd.   *)
THEOREM WokenThm == Spec => []Woken
<1>1. Init => Stopped
  <2> SUFFICES ASSUME Init  PROVE Stopped
    OBVIOUS
  <2>1. /\ loop = "none" /\ ~closed /\ Elems(ready) = {}
        /\ \A t \in Threads : pc[t] = "new" /\ current[t] = 0
    BY EmptyQueue DEF Init
  <2>2. pc[Main] = "new"  BY <2>1, SyncClientAssumption
  <2> QED BY <2>1, <2>2 DEF Stopped, Lone, Coming, Closing
<1>2. IInv /\ Stopped /\ [Next]_vars => Stopped'  BY NextStopped
<1>3. IInv /\ Stopped => Woken
  <2> SUFFICES ASSUME IInv, Stopped  PROVE Woken
    OBVIOUS
  <2>1. ASSUME NEW t \in Threads  PROVE WokenBy(t)
    <3>0. CASE pc[t] \notin {"wait", "join"}  BY <3>0 DEF WokenBy
    <3>1. CASE pc[t] \in {"wait", "join"}
      <4>1. /\ Typed /\ current[t] # 0 /\ current[t] \in DOMAIN ops /\ current[t] \in Nat
            /\ Op(t) = ops[current[t]]
        <5>1. Typed  BY DEF IInv
        <5>2. current[t] # 0  BY <3>1, <5>1 DEF Typed
        <5> QED BY <5>1, <5>2, Shape DEF Op
      <4>2. loop \in {"running", "ended", "closed"}
        <5>1. pc[Main] # "new"  BY <3>1 DEF IInv, Built
        <5>2. loop \in {"none", "running", "ended", "closed"}  BY <4>1 DEF Typed
        <5> QED BY <5>1, <5>2 DEF Stopped
      <4>3. CASE pc[t] = "join"  BY <4>2, <4>3 DEF Stopped, WokenBy
      <4>4. CASE pc[t] = "wait"
        <5>1. overlap \/ loop = "running"  BY <4>1, <4>2, <4>4 DEF Stopped, Lone
        <5>2. ops[current[t]].st \in Pending \cup Done
          BY <4>1, <4>4, Shape DEF IInv, Callers
        <5>3. \A d \in {"start", "step"} : Cb(d, current[t]).do = d /\ Cb(d, current[t]).n = current[t]
          BY <4>1, CbFacts
        <5>4. ops[current[t]].st \in {"queued", "created"} =>
                \E a \in Elems(ready) : a.do \in {"start", "step"} /\ a.n = current[t]
          BY <4>1, <5>3 DEF IInv, Matched
        <5> QED BY <4>1, <4>2, <4>4, <5>1, <5>2, <5>4 DEF Pending, WokenBy
      <4> QED BY <3>1, <4>3, <4>4
    <3> QED BY <3>0, <3>1
  <2> QED BY <2>1, Zenon DEF Woken
<1> QED BY <1>1, <1>2, <1>3, Inductive, PTL DEF Spec
================================================================================
