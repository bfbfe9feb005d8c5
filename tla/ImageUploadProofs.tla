--------------------------- MODULE ImageUploadProofs ---------------------------
(* Proofs about ImageUpload, for any tasks, names, chunks and bounds.       *)
EXTENDS ImageUpload, Queues

(* The invariant. What one upload knows and what the device holds for it,   *)
(* by its program counter p and its locals l.                               *)

Local(p, l) ==
  /\ p = "send" => l.sent # Chunks
  /\ p \in {"queued", "list", "delete"} => ~l.started /\ l.sent = 0
  /\ p \in {"send", "cleanup"} => l.started
  /\ p = "cleanup" => pro
  /\ p = "delete" => l.overwrite

(* Nothing is stored before the first chunk is sent. After a cleanup only   *)
(* the chunk whose request went astray may be.                              *)
Clean(p, l) ==
  pro =>
    /\ p \notin Ended /\ ~l.started => Stored(l) = {}
    /\ p = "cleanup" /\ l.handled => Stored(l) \subseteq {l.abandoned}
    /\ p = "failed" /\ ~l.lost => Stored(l) \subseteq {l.abandoned}

(* While nothing astray disturbs it, the device holds what the upload sent. *)
Upto(l, k) == {<<l.n, i>> : i \in 1..k}
Taken(p, l) ==
  IF p = "send" /\ l.handled THEN (IF pro THEN l.sent + 1 ELSE Chunks) ELSE l.sent
Alone(p, l) ==
  ~l.disturbed =>
    /\ ~l.overwrite /\ p \in {"local", "send", "cleanup"} => files[l.name] \subseteq Image(l.n)
    /\ p \in {"local", "send"} /\ Taken(p, l) # 0 => files[l.name] = Upto(l, Taken(p, l))

Typed ==
  /\ pro \in BOOLEAN /\ generation \in Nat /\ token \in BOOLEAN
  /\ lock \in Seq(Tasks)
  /\ files \in [Names -> SUBSET (Nat \X (1..Chunks))]
  /\ astray \subseteq Orders
  /\ pc \in [Tasks -> PCs] /\ loc \in [Tasks -> Locals]
  /\ started \in Nat /\ cancelled \in Nat /\ transitions \in Nat

(* Exactly the running uploads are in the queue, and only its head works.   *)
Locked ==
  /\ Distinct(lock)
  /\ \A t \in Tasks : t \in Elems(lock) <=> pc[t] \notin Ended
  /\ \A t \in Tasks : Working(t) => Head(lock) = t

(* No two uploads have one number, and no number is stored before its time. *)
Numbered ==
  /\ \A t \in Tasks : loc[t].n <= started
  /\ \A t, u \in Tasks : pc[t] # "new" /\ pc[u] # "new" /\ loc[t].n = loc[u].n => t = u
  /\ \A name \in Names : \A k \in Nat, i \in 1..Chunks : <<k, i>> \in files[name] => k <= started

(* A chunk of an upload that is astray is the one its failure abandoned.    *)
FromUpload(o, p, l) ==
  o.n = l.n /\ o.what = "send" =>
    o.chunk = l.abandoned /\ o.name = l.name /\ p \in {"cleanup", "failed"}

Wandering ==
  \A o \in astray :
    /\ o.n <= started /\ (o.what = "send" => o.chunk # 0)
    /\ \A t \in Tasks : pc[t] # "new" => FromUpload(o, pc[t], loc[t])

Uploads ==
  \A t \in Tasks : Local(pc[t], loc[t]) /\ Clean(pc[t], loc[t]) /\ Alone(pc[t], loc[t])

IInv == Typed /\ Locked /\ Numbered /\ Wandering /\ Uploads

USE ImageUploadAssumption DEF Ended, Changes, Requests, PCs

--------------------------------------------------------------------------------
(* Locals.                                                                  *)

Alike(m, l) == m.abandoned = l.abandoned /\ m.disturbed = l.disturbed

Same(m, l) ==
  /\ m \in Locals /\ m.n = l.n /\ m.name = l.name /\ m.overwrite = l.overwrite
  /\ m.sent = l.sent /\ m.progress = l.progress /\ m.started = l.started
  /\ Alike(m, l)

(* What the steps of an upload set in its locals.                           *)
LEMMA LocalsSet ==
  ASSUME NEW l \in Locals, NEW g \in Nat
  PROVE  /\ Same([l EXCEPT !.gen = g, !.handled = FALSE], l)
         /\ [l EXCEPT !.gen = g, !.handled = FALSE].handled = FALSE
         /\ Same([l EXCEPT !.begun = g], l) /\ Same(l, l)
         /\ \A b \in BOOLEAN : Same([l EXCEPT !.lost = b], l) /\ [l EXCEPT !.lost = b].lost = b
         /\ Same([l EXCEPT !.handled = TRUE], l)
         /\ [l EXCEPT !.handled = TRUE].handled = TRUE
         /\ l.handled \in BOOLEAN /\ l.lost \in BOOLEAN /\ l.started \in BOOLEAN
         /\ l.overwrite \in BOOLEAN
         /\ l.n \in Nat /\ l.name \in Names /\ l.sent \in 0..Chunks /\ l.progress \in 0..Chunks
BY DEF Same, Alike, Locals

LEMMA HistorySet ==
  ASSUME NEW l \in Locals, NEW k \in 0..Chunks, NEW b \in BOOLEAN
  PROVE  /\ LET m == [l EXCEPT !.abandoned = k]
            IN /\ m \in Locals /\ m.n = l.n /\ m.name = l.name /\ m.overwrite = l.overwrite
               /\ m.sent = l.sent /\ m.progress = l.progress /\ m.started = l.started
               /\ m.abandoned = k /\ m.disturbed = l.disturbed
         /\ LET m == [l EXCEPT !.disturbed = b]
            IN /\ m \in Locals /\ m.n = l.n /\ m.name = l.name /\ m.overwrite = l.overwrite
               /\ m.sent = l.sent /\ m.progress = l.progress /\ m.started = l.started
               /\ m.abandoned = l.abandoned /\ m.disturbed = b
               /\ m.handled = l.handled /\ m.lost = l.lost
BY DEF Locals

LEMMA ProgressSet ==
  ASSUME NEW l \in Locals, NEW p \in 0..Chunks
  PROVE  LET m == [l EXCEPT !.progress = p]
         IN /\ m \in Locals /\ m.n = l.n /\ m.name = l.name /\ m.overwrite = l.overwrite
            /\ m.sent = l.sent /\ m.started = l.started /\ m.progress = p
            /\ m.handled = l.handled /\ Alike(m, l)
BY DEF Locals, Alike

LEMMA StartedSet ==
  ASSUME NEW l \in Locals
  PROVE  LET m == [l EXCEPT !.started = TRUE]
         IN /\ m \in Locals /\ m.n = l.n /\ m.name = l.name /\ m.overwrite = l.overwrite
            /\ m.sent = l.sent /\ m.started = TRUE /\ m.progress = l.progress /\ Alike(m, l)
BY DEF Locals, Alike

LEMMA SentSet ==
  ASSUME NEW l \in Locals, NEW k \in 0..Chunks
  PROVE  LET m == [l EXCEPT !.sent = k]
         IN /\ m \in Locals /\ m.n = l.n /\ m.name = l.name /\ m.overwrite = l.overwrite
            /\ m.sent = k /\ m.started = l.started /\ m.progress = l.progress /\ Alike(m, l)
BY DEF Locals, Alike

(* A step of task t to `at`, with the locals m.                             *)
Moves(t, m, at) ==
  /\ pc' = [pc EXCEPT ![t] = at] /\ loc' = [loc EXCEPT ![t] = m]
  /\ lock' = IF at \in Ended THEN RemoveFirst(lock, t) ELSE lock

LEMMA RaiseMoves ==
  ASSUME Typed, NEW t \in Tasks, NEW l \in Locals, Raise(t, l)
  PROVE  \E m \in Locals, at \in {"cleanup", "failed"} :
           /\ Moves(t, m, at) /\ Same(m, l)
           /\ at = "cleanup" => pro /\ l.started /\ ~m.handled
           /\ at = "failed" => ~pro \/ ~l.started \/ m.lost
<1>1. generation \in Nat  BY DEF Typed
<1>2. CASE pro /\ Started(l) /\ token
  <2> DEFINE m == [l EXCEPT !.gen = generation, !.handled = FALSE]
  <2>1. Same(m, l) /\ m.handled = FALSE  BY <1>1, LocalsSet
  <2> HIDE DEF m
  <2>2. Moves(t, m, "cleanup")  BY <1>2, LocalsSet DEF Raise, Goto, Moves, Started, m
  <2> QED BY <1>2, <2>1, <2>2 DEF Started, Same
<1>3. CASE pro /\ Started(l) /\ ~token
  <2> DEFINE m == [l EXCEPT !.lost = TRUE]
  <2>1. m \in Locals /\ Same(m, l) /\ m.lost  BY <1>1, LocalsSet DEF Same
  <2> HIDE DEF m
  <2>2. Moves(t, m, "failed")  BY <1>3, LocalsSet DEF Raise, End, Goto, Moves, m
  <2> QED BY <2>1, <2>2
<1>4. CASE ~pro \/ ~Started(l)
  <2>1. Moves(t, l, "failed")  BY <1>4 DEF Raise, End, Goto, Moves
  <2>2. Same(l, l)  BY <1>1, LocalsSet
  <2> QED BY <1>4, <2>1, <2>2 DEF Started
<1> QED BY <1>2, <1>3, <1>4

LEMMA RequestMoves ==
  ASSUME Typed, NEW t \in Tasks, NEW l \in Locals, NEW at \in Requests, Request(t, l, at)
  PROVE  \/ \E m \in Locals : Moves(t, m, at) /\ Same(m, l) /\ ~m.handled
         \/ Raise(t, l)
<1>1. generation \in Nat  BY DEF Typed
<1> DEFINE m == [l EXCEPT !.gen = generation, !.handled = FALSE]
<1>2. Same(m, l) /\ m.handled = FALSE  BY <1>1, LocalsSet
<1> HIDE DEF m
<1>3. ASSUME token  PROVE Moves(t, m, at)  BY <1>3 DEF Request, Goto, Moves, m
<1> QED BY <1>2, <1>3 DEF Request, Same

--------------------------------------------------------------------------------
(* The steps of an upload that leave the device alone.                      *)

Others == UNCHANGED <<pro, session, files, started, transitions>> /\ cancelled' \in Nat

(* What is astray then: at most the request of t has joined it.             *)
Strays(t, m, at) ==
  \A o \in astray' : (o \in astray \/ (Unhandled(t) /\ o = Order(t))) /\ FromUpload(o, at, m)

LEMMA NothingStrays ==
  ASSUME IInv, NEW t \in Tasks, NEW m, NEW at, UNCHANGED astray, pc[t] # "new",
         m.n = loc[t].n, m.name = loc[t].name, m.abandoned = loc[t].abandoned,
         pc[t] \in {"cleanup", "failed"} => at \in {"cleanup", "failed"}
  PROVE  Strays(t, m, at)
BY DEF IInv, Wandering, FromUpload, Strays

LEMMA OrderType ==
  ASSUME IInv, NEW t \in Tasks, Unhandled(t)
  PROVE  /\ Order(t) \in Orders /\ Order(t).what = pc[t] /\ Order(t).name = loc[t].name
         /\ Order(t).n = loc[t].n
         /\ pc[t] = "send" => Order(t).chunk = loc[t].sent + 1 /\ Order(t).chunk \in 1..Chunks
<1>1. /\ loc[t] \in Locals /\ Local(pc[t], loc[t]) /\ pc[t] \in Changes
  BY DEF IInv, Typed, Uploads, Unhandled
<1>2. /\ loc[t].n \in Nat /\ loc[t].name \in Names /\ loc[t].sent \in 0..Chunks
  BY <1>1 DEF Locals
<1>3. pc[t] = "send" => loc[t].sent + 1 \in 1..Chunks  BY <1>1, <1>2 DEF Local
<1> DEFINE k == IF pc[t] = "send" THEN loc[t].sent + 1 ELSE 0
<1>4. k \in 0..Chunks  BY <1>3
<1>5. Order(t) = [what |-> pc[t], name |-> loc[t].name, n |-> loc[t].n, chunk |-> k]
  BY DEF Order
<1>6. pc[t] = "send" => k = loc[t].sent + 1  OBVIOUS
<1> HIDE DEF k
<1> QED BY <1>1, <1>2, <1>3, <1>4, <1>5, <1>6 DEF Orders

LEMMA RequestStrays ==
  ASSUME IInv, NEW t \in Tasks, NEW m, NEW at \in {"cleanup", "failed"}, GoesAstray(t), pc[t] # "new",
         m.n = loc[t].n, m.name = loc[t].name,
         m.abandoned = IF Unhandled(t) /\ pc[t] = "send" THEN loc[t].sent + 1 ELSE loc[t].abandoned
  PROVE  Strays(t, m, at)
<1> SUFFICES ASSUME NEW o \in astray'
             PROVE  (o \in astray \/ (Unhandled(t) /\ o = Order(t))) /\ FromUpload(o, at, m)
  BY DEF Strays
<1>1. o \in astray \/ (Unhandled(t) /\ o = Order(t))  BY DEF GoesAstray
<1>2. CASE o \in astray
  <2>1. FromUpload(o, pc[t], loc[t])  BY <1>2 DEF IInv, Wandering
  <2> QED BY <1>1, <2>1 DEF FromUpload
<1>3. CASE Unhandled(t) /\ o = Order(t)
  BY <1>3, OrderType DEF FromUpload
<1> QED BY <1>1, <1>2, <1>3

LEMMA MovedKeepsIInv ==
  ASSUME IInv, NEW t \in Tasks, NEW m \in Locals, NEW at \in PCs \ {"new", "queued"},
         pc[t] \notin Ended, Moves(t, m, at), Others,
         pc[t] = "queued" /\ at \notin Ended => Head(lock) = t, Strays(t, m, at),
         m.n = loc[t].n, Local(at, m), Clean(at, m), Alone(at, m)
  PROVE  IInv'
<1> USE DEF Others, session
<1>1. /\ pc \in [Tasks -> PCs] /\ loc \in [Tasks -> Locals] /\ lock \in Seq(Tasks) /\ Distinct(lock)
      /\ t \in Elems(lock)
  BY DEF IInv, Typed, Locked
<1>2. /\ RemoveFirst(lock, t) \in Seq(Tasks) /\ Elems(RemoveFirst(lock, t)) = Elems(lock) \ {t}
      /\ Distinct(RemoveFirst(lock, t))
      /\ lock # <<>> /\ Head(lock) # t => Head(RemoveFirst(lock, t)) = Head(lock)
  BY <1>1, GiveUpQueue
<1>3. /\ pc' \in [Tasks -> PCs] /\ loc' \in [Tasks -> Locals]
      /\ pc'[t] = at /\ loc'[t] = m
      /\ \A u \in Tasks \ {t} : pc'[u] = pc[u] /\ loc'[u] = loc[u]
  BY <1>1 DEF Moves
<1>4. Typed'
  <2>1. lock' \in Seq(Tasks)  BY <1>1, <1>2 DEF Moves
  <2>2. astray' \subseteq Orders  BY OrderType DEF IInv, Typed, Strays
  <2> QED BY <1>3, <2>1, <2>2 DEF IInv, Typed
<1>5. Locked'
  <2>1. (at \in Ended /\ Elems(lock') = Elems(lock) \ {t}) \/ (at \notin Ended /\ lock' = lock)
    BY <1>2 DEF Moves
  <2>2. Distinct(lock')  BY <1>1, <1>2 DEF Moves
  <2>3. \A u \in Tasks : u \in Elems(lock') <=> pc'[u] \notin Ended
    BY <1>3, <2>1 DEF IInv, Locked
  <2>4. ASSUME NEW u \in Tasks, Working(u)'  PROVE Head(lock') = u
    <3>1. CASE u = t
      <4>1. at \notin Ended /\ lock' = lock  BY <1>3, <2>1, <2>4, <3>1 DEF Working
      <4>2. pc[t] = "queued" \/ Working(t)
        BY <1>1 DEF Working
      <4> QED BY <3>1, <4>1, <4>2 DEF IInv, Locked
    <3>2. CASE u # t
      <4>1. Working(u)  BY <1>3, <2>4, <3>2 DEF Working
      <4>2. Head(lock) = u  BY <4>1 DEF IInv, Locked
      <4>3. lock # <<>>  BY <1>1, EmptyQueue
      <4>4. lock' = lock \/ lock' = RemoveFirst(lock, t)  BY DEF Moves
      <4> QED BY <1>2, <3>2, <4>2, <4>3, <4>4
    <3> QED BY <3>1, <3>2
  <2> QED BY <2>2, <2>3, <2>4 DEF Locked
<1>6. Numbered'
  <2>1. pc[t] # "new" /\ pc'[t] # "new"  BY <1>3
  <2> QED BY <1>3, <2>1 DEF IInv, Numbered
<1>8. Wandering'
  <2> SUFFICES ASSUME NEW o \in astray'
               PROVE  /\ o.n <= started /\ (o.what = "send" => o.chunk # 0)
                      /\ \A u \in Tasks : pc'[u] # "new" => FromUpload(o, pc'[u], loc'[u])
    BY DEF Wandering, FromUpload
  <2>1. (o \in astray \/ (Unhandled(t) /\ o = Order(t))) /\ FromUpload(o, at, m)
    BY DEF Strays
  <2>2. o.n <= started /\ (o.what = "send" => o.chunk # 0)
    BY <2>1, OrderType DEF IInv, Wandering, Numbered
  <2>3. ASSUME NEW u \in Tasks \ {t}, pc[u] # "new"  PROVE FromUpload(o, pc[u], loc[u])
    <3>1. CASE o \in astray  BY <2>3, <3>1 DEF IInv, Wandering
    <3>2. CASE Unhandled(t) /\ o = Order(t)
      <4>1. o.n = loc[t].n /\ pc[t] # "new"  BY <3>2, OrderType DEF Unhandled
      <4>2. loc[u].n # loc[t].n  BY <2>3, <4>1 DEF IInv, Numbered
      <4> QED BY <4>1, <4>2 DEF FromUpload
    <3> QED BY <2>1, <3>1, <3>2
  <2> QED BY <1>3, <2>1, <2>2, <2>3
<1>7. Uploads'
  <2>1. Local(pc[t], loc[t])' /\ Clean(pc[t], loc[t])' /\ Alone(pc[t], loc[t])'
    BY <1>3 DEF Local, Clean, Alone, Stored, Taken
  <2>2. ASSUME NEW u \in Tasks, u # t
        PROVE  Local(pc[u], loc[u])' /\ Clean(pc[u], loc[u])' /\ Alone(pc[u], loc[u])'
    <3>1. Local(pc[u], loc[u]) /\ Clean(pc[u], loc[u]) /\ Alone(pc[u], loc[u])
      BY DEF IInv, Uploads
    <3> QED BY <1>3, <2>2, <3>1 DEF Local, Clean, Alone, Stored, Taken
  <2> QED BY <2>1, <2>2 DEF Uploads
<1> QED BY <1>4, <1>5, <1>6, <1>7, <1>8 DEF IInv

(* What raising leads to, when the locals it finds are those the upload had.*)
LEMMA RaiseKeepsIInv ==
  ASSUME IInv, NEW t \in Tasks, NEW l \in Locals, Raise(t, l), Others,
         pc[t] \notin Ended \cup {"cleanup"}, pc[t] = "queued" => Head(lock) = t,
         l.n = loc[t].n, l.name = loc[t].name, l.overwrite = loc[t].overwrite,
         l.disturbed = loc[t].disturbed, Strays(t, l, "failed"),
         l.started = loc[t].started \/ (pc[t] = "local" /\ l.started = TRUE)
  PROVE  IInv'
<1>1. PICK m \in Locals, at \in {"cleanup", "failed"} :
        /\ Moves(t, m, at) /\ Same(m, l)
        /\ at = "cleanup" => pro /\ l.started /\ ~m.handled
        /\ at = "failed" => ~pro \/ ~l.started \/ m.lost
  BY RaiseMoves DEF IInv
<1>2. /\ Local(pc[t], loc[t]) /\ Clean(pc[t], loc[t]) /\ Alone(pc[t], loc[t])
      /\ m.n = loc[t].n /\ m.name = loc[t].name /\ m.overwrite = loc[t].overwrite
      /\ m.started = l.started /\ m.disturbed = loc[t].disturbed /\ m.abandoned = l.abandoned
      /\ pc[t] \in PCs
  BY <1>1 DEF IInv, Typed, Uploads, Same, Alike
<1>3. l.started => pc[t] \in {"local", "send"}
  BY <1>2 DEF Local
<1>4. Local(at, m)  BY <1>1, <1>2 DEF Local
<1>5. Clean(at, m)
  <2>1. CASE at = "cleanup"  BY <1>1, <1>2, <2>1 DEF Clean
  <2>2. CASE at = "failed" /\ pro /\ ~m.lost
    <3>1. ~l.started /\ ~loc[t].started  BY <1>1, <1>2, <2>2
    <3> QED BY <1>2, <2>2, <3>1 DEF Clean, Stored
  <2> QED BY <2>1, <2>2 DEF Clean
<1>6. Alone(at, m)
  <2>1. at = "cleanup" => pc[t] \in {"local", "send"}  BY <1>1, <1>3
  <2> QED BY <1>1, <1>2, <2>1 DEF Alone, Image
<1>7. Strays(t, m, at)  BY <1>1, <1>2 DEF Strays, FromUpload
<1> QED BY <1>1, <1>2, <1>4, <1>5, <1>6, <1>7, MovedKeepsIInv

LEMMA OthersUnchanged ==
  ASSUME IInv, UNCHANGED <<session, files, bounds>>
  PROVE  Others
BY DEF IInv, Typed, Others, session, bounds

(* What the invariant says of one upload.                                   *)
LEMMA OfUpload ==
  ASSUME IInv, NEW t \in Tasks
  PROVE  /\ pc[t] \in PCs /\ loc[t] \in Locals /\ generation \in Nat
         /\ Local(pc[t], loc[t]) /\ Clean(pc[t], loc[t]) /\ Alone(pc[t], loc[t])
         /\ loc[t].overwrite \in BOOLEAN /\ loc[t].started \in BOOLEAN
         /\ loc[t].handled \in BOOLEAN /\ loc[t].name \in Names /\ loc[t].n \in Nat
         /\ loc[t].sent \in 0..Chunks /\ loc[t].progress \in 0..Chunks /\ Same(loc[t], loc[t])
<1>1. /\ pc[t] \in PCs /\ loc[t] \in Locals /\ generation \in Nat
      /\ Local(pc[t], loc[t]) /\ Clean(pc[t], loc[t]) /\ Alone(pc[t], loc[t])
  BY DEF IInv, Typed, Uploads
<1> QED BY <1>1, LocalsSet

LEMMA EnterStep ==
  ASSUME IInv, NEW t \in Tasks, Enter(t)
  PROVE  IInv'
<1> DEFINE l == [loc[t] EXCEPT !.begun = generation]
<1>1. Others  BY OthersUnchanged DEF Enter
<1>2. pc[t] = "queued" /\ Head(lock) = t  BY DEF Enter, MayEnter
<1>3. Same(l, loc[t])  BY OfUpload, LocalsSet
<1>a. UNCHANGED astray  BY DEF Enter
<1>b. \A m : \A at : m.n = loc[t].n /\ m.name = loc[t].name /\ m.abandoned = loc[t].abandoned
                  => Strays(t, m, at)
  BY <1>2, <1>a, NothingStrays
<1> HIDE DEF l
<1>4. CASE Request(t, l, "list")
  <2>1. CASE Raise(t, l)
    <3>1. Strays(t, l, "failed")  BY <1>3, <1>b DEF Same, Alike
    <3> QED BY <1>1, <1>2, <1>3, <2>1, <3>1, RaiseKeepsIInv DEF Same, Alike
  <2>2. CASE \E m \in Locals : Moves(t, m, "list") /\ Same(m, l) /\ ~m.handled
    <3>1. PICK m \in Locals : Moves(t, m, "list") /\ Same(m, l)  BY <2>2
    <3>2. Local("list", m) /\ Clean("list", m) /\ Alone("list", m)
      BY <1>2, <1>3, <3>1, OfUpload DEF Same, Alike, Local, Clean, Alone, Stored
    <3>3. Strays(t, m, "list")  BY <1>3, <1>b, <3>1 DEF Same, Alike
    <3> QED BY <1>1, <1>2, <1>3, <3>1, <3>2, <3>3, MovedKeepsIInv DEF Same
  <2> QED BY <1>3, <1>4, <2>1, <2>2, RequestMoves DEF IInv, Same
<1>5. CASE End(t, loc[t], "failed")
  <2>1. Moves(t, loc[t], "failed")  BY <1>5 DEF End, Goto, Moves
  <2>2. Local("failed", loc[t]) /\ Clean("failed", loc[t]) /\ Alone("failed", loc[t])
    BY <1>2, OfUpload DEF Local, Clean, Alone
  <2>3. Strays(t, loc[t], "failed")  BY <1>b
  <2> QED BY <1>1, <1>2, <2>1, <2>2, <2>3, OfUpload, MovedKeepsIInv
<1> QED BY <1>4, <1>5 DEF Enter, l

LEMMA ListedStep ==
  ASSUME IInv, NEW t \in Tasks, Listed(t)
  PROVE  IInv'
<1> DEFINE l == loc[t]
<1>1. Others  BY OthersUnchanged DEF Listed
<1>2. pc[t] = "list"  BY DEF Listed
<1>3. /\ l \in Locals /\ Same(l, l) /\ l.overwrite \in BOOLEAN
      /\ Local("list", l) /\ Clean("list", l) /\ Alone("list", l)
  BY <1>2, OfUpload
<1>a. UNCHANGED astray  BY DEF Listed
<1>b. \A m : \A at : m.n = l.n /\ m.name = l.name /\ m.abandoned = l.abandoned => Strays(t, m, at)
  BY <1>2, <1>a, NothingStrays
<1>c. \A at : Strays(t, l, at)  BY <1>b
<1>4. CASE End(t, l, "failed")
  <2>1. Moves(t, l, "failed")  BY <1>4 DEF End, Goto, Moves
  <2>2. Local("failed", l) /\ Clean("failed", l) /\ Alone("failed", l)
    BY <1>3 DEF Local, Clean, Alone
  <2> QED BY <1>1, <1>2, <1>3, <1>c, <2>1, <2>2, MovedKeepsIInv
<1>5. CASE ~Conflict(l) /\ pro /\ files[l.name] # {} /\ Request(t, l, "delete")
  <2>1. CASE Raise(t, l)
    BY <1>1, <1>2, <1>3, <1>c, <2>1, RaiseKeepsIInv
  <2>2. CASE \E m \in Locals : Moves(t, m, "delete") /\ Same(m, l) /\ ~m.handled
    <3>1. PICK m \in Locals : Moves(t, m, "delete") /\ Same(m, l)  BY <2>2
    <3>2. Local("delete", m) /\ Clean("delete", m) /\ Alone("delete", m)
      BY <1>3, <1>5, <3>1 DEF Same, Alike, Local, Clean, Alone, Stored, Conflict
    <3>3. Strays(t, m, "delete")  BY <1>b, <3>1 DEF Same, Alike
    <3> QED BY <1>1, <1>2, <3>1, <3>2, <3>3, MovedKeepsIInv DEF Same
  <2> QED BY <1>3, <1>5, <2>1, <2>2, RequestMoves DEF IInv
<1>6. CASE /\ ~Conflict(l) /\ (~pro \/ files[l.name] = {})
           /\ Goto(t, l, "local") /\ UNCHANGED lock
  <2>1. Moves(t, l, "local")  BY <1>6 DEF Goto, Moves
  <2>2. Local("local", l) /\ Clean("local", l)
    BY <1>3 DEF Local, Clean
  <2>3. Alone("local", l)
    BY <1>3, <1>6 DEF Local, Alone, Taken, Conflict
  <2> QED BY <1>1, <1>2, <1>3, <1>c, <2>1, <2>2, <2>3, MovedKeepsIInv
<1> QED BY <1>4, <1>5, <1>6 DEF Listed

LEMMA DeletedStep ==
  ASSUME IInv, NEW t \in Tasks, Deleted(t)
  PROVE  IInv'
<1> DEFINE l == loc[t]
<1>1. Others  BY OthersUnchanged DEF Deleted
<1>2. pc[t] = "delete" /\ Moves(t, l, "local")  BY DEF Deleted, Goto, Moves
<1>3. l \in Locals /\ Local("delete", l) /\ Clean("delete", l) /\ Alone("delete", l)
  BY <1>2, OfUpload
<1>4. Local("local", l) /\ Clean("local", l) /\ Alone("local", l)
  BY <1>3 DEF Local, Clean, Alone, Taken
<1>5. Strays(t, l, "local")  BY <1>2, NothingStrays DEF Deleted
<1> QED BY <1>1, <1>2, <1>3, <1>4, <1>5, MovedKeepsIInv

LEMMA LocalDoneStep ==
  ASSUME IInv, NEW t \in Tasks, LocalDone(t)
  PROVE  IInv'
<1> DEFINE l == [loc[t] EXCEPT !.progress = loc[t].sent]
           m == [l EXCEPT !.started = TRUE]
<1>1. Others  BY OthersUnchanged DEF LocalDone
<1>2. pc[t] = "local"  BY DEF LocalDone
<1>3. /\ Clean("local", loc[t]) /\ Alone("local", loc[t]) /\ loc[t].sent \in 0..Chunks
      /\ loc[t].overwrite \in BOOLEAN
  BY <1>2, OfUpload
<1>4. /\ l \in Locals /\ l.n = loc[t].n /\ l.name = loc[t].name
      /\ l.overwrite = loc[t].overwrite /\ l.sent = loc[t].sent /\ l.started = loc[t].started
      /\ l.disturbed = loc[t].disturbed /\ l.abandoned = loc[t].abandoned
  BY OfUpload, ProgressSet DEF Alike
<1> HIDE DEF l
<1>5. /\ m \in Locals /\ m.n = l.n /\ m.name = l.name
      /\ m.overwrite = l.overwrite /\ m.sent = l.sent /\ m.started = TRUE
      /\ m.disturbed = l.disturbed /\ m.abandoned = l.abandoned
  BY <1>4, StartedSet DEF Alike
<1> HIDE DEF m
<1>a. UNCHANGED astray  BY DEF LocalDone
<1>b. \A k : \A at : k.n = loc[t].n /\ k.name = loc[t].name /\ k.abandoned = loc[t].abandoned
                  => Strays(t, k, at)
  BY <1>2, <1>a, NothingStrays
<1>c. \A at : Strays(t, l, at) /\ Strays(t, m, at)  BY <1>4, <1>5, <1>b
<1>6. CASE End(t, l, "ok")
  <2>1. Moves(t, l, "ok")  BY <1>6 DEF End, Goto, Moves
  <2>2. Local("ok", l) /\ Clean("ok", l) /\ Alone("ok", l)
    BY DEF Local, Clean, Alone
  <2> QED BY <1>1, <1>2, <1>4, <1>c, <2>1, <2>2, MovedKeepsIInv
<1>7. CASE ~Uploaded(l) /\ Request(t, m, "send")
  <2>1. CASE Raise(t, m)
    BY <1>1, <1>2, <1>4, <1>5, <1>c, <2>1, RaiseKeepsIInv
  <2>2. CASE \E k \in Locals : Moves(t, k, "send") /\ Same(k, m) /\ ~k.handled
    <3>1. PICK k \in Locals : Moves(t, k, "send") /\ Same(k, m) /\ ~k.handled  BY <2>2
    <3>2. /\ k.n = loc[t].n /\ k.name = loc[t].name /\ k.overwrite = loc[t].overwrite
          /\ k.sent = loc[t].sent /\ k.started = TRUE
          /\ k.disturbed = loc[t].disturbed /\ k.abandoned = loc[t].abandoned
      BY <1>4, <1>5, <3>1 DEF Same, Alike
    <3>3. Local("send", k) /\ Clean("send", k)
      BY <1>4, <1>7, <3>1, <3>2 DEF Local, Clean, Uploaded
    <3>4. Alone("send", k)
      BY <1>3, <3>1, <3>2 DEF Alone, Taken, Upto, Image
    <3>5. Strays(t, k, "send")  BY <1>b, <3>2
    <3> QED BY <1>1, <1>2, <3>1, <3>2, <3>3, <3>4, <3>5, MovedKeepsIInv
  <2> QED BY <1>5, <1>7, <2>1, <2>2, RequestMoves DEF IInv
<1> QED BY <1>6, <1>7 DEF LocalDone, l, m

LEMMA LocalFailsStep ==
  ASSUME IInv, NEW t \in Tasks, LocalFails(t)
  PROVE  IInv'
<1>1. Others  BY OthersUnchanged DEF LocalFails
<1>2. pc[t] = "local" /\ Raise(t, loc[t]) /\ UNCHANGED astray  BY DEF LocalFails
<1>3. Strays(t, loc[t], "failed")  BY <1>2, NothingStrays
<1> QED BY <1>1, <1>2, <1>3, OfUpload, RaiseKeepsIInv

LEMMA AbandonSet ==
  ASSUME IInv, NEW t \in Tasks
  PROVE  LET m == Abandon(t)
         IN /\ m \in Locals /\ m.n = loc[t].n /\ m.name = loc[t].name
            /\ m.overwrite = loc[t].overwrite /\ m.started = loc[t].started
            /\ m.progress = loc[t].progress /\ m.disturbed = loc[t].disturbed
            /\ m.abandoned = IF Unhandled(t) /\ pc[t] = "send" THEN loc[t].sent + 1
                             ELSE loc[t].abandoned
<1> DEFINE k == IF Unhandled(t) /\ pc[t] = "send" THEN loc[t].sent + 1 ELSE loc[t].abandoned
<1>1. loc[t] \in Locals /\ loc[t].abandoned \in 0..Chunks  BY OfUpload DEF Locals
<1>2. k \in 0..Chunks
  <2>1. Unhandled(t) /\ pc[t] = "send" => loc[t].sent + 1 \in 1..Chunks  BY OrderType
  <2> QED BY <1>1, <2>1
<1>3. Abandon(t) = [loc[t] EXCEPT !.abandoned = k]  BY DEF Abandon
<1>4. k = IF Unhandled(t) /\ pc[t] = "send" THEN loc[t].sent + 1 ELSE loc[t].abandoned  OBVIOUS
<1> HIDE DEF k
<1>5. PICK l \in Locals : l = loc[t]  BY <1>1
<1> DEFINE m == [l EXCEPT !.abandoned = k]
<1>6. /\ m \in Locals /\ m.n = l.n /\ m.name = l.name /\ m.overwrite = l.overwrite
      /\ m.progress = l.progress /\ m.started = l.started
      /\ m.abandoned = k /\ m.disturbed = l.disturbed
  BY <1>2 DEF Locals
<1>7. Abandon(t) = m  BY <1>3, <1>5
<1> HIDE DEF m
<1> QED BY <1>4, <1>5, <1>6, <1>7

(* A running request is given up: the upload raises, the request strays.    *)
LEMMA GivenUp ==
  ASSUME IInv, NEW t \in Tasks, pc[t] \in {"list", "delete", "local", "send"},
         Raise(t, Abandon(t)), GoesAstray(t), Others
  PROVE  IInv'
<1> DEFINE m == Abandon(t)
<1>1. /\ m \in Locals /\ m.n = loc[t].n /\ m.name = loc[t].name
      /\ m.overwrite = loc[t].overwrite /\ m.started = loc[t].started
      /\ m.disturbed = loc[t].disturbed
      /\ m.abandoned = IF Unhandled(t) /\ pc[t] = "send" THEN loc[t].sent + 1
                       ELSE loc[t].abandoned
  BY AbandonSet
<1> HIDE DEF m
<1>2. Strays(t, m, "failed")  BY <1>1, RequestStrays
<1>3. Raise(t, m)  BY DEF m
<1> QED BY <1>1, <1>2, <1>3, RaiseKeepsIInv

LEMMA RequestFailsStep ==
  ASSUME IInv, NEW t \in Tasks, RequestFails(t)
  PROVE  IInv'
<1>1. Others  BY OthersUnchanged DEF RequestFails
<1> QED BY <1>1, GivenUp DEF RequestFails

LEMMA StreamProgressStep ==
  ASSUME IInv, NEW t \in Tasks, StreamProgress(t)
  PROVE  IInv'
<1> DEFINE l == loc[t]
           m == Reported(l)
<1>1. Others  BY OthersUnchanged DEF StreamProgress
<1>2. pc[t] = "send" /\ Moves(t, m, "send")  BY DEF StreamProgress, Goto, Moves
<1>3. l \in Locals /\ Local("send", l) /\ Clean("send", l) /\ Alone("send", l)
  BY <1>2, OfUpload
<1>4. /\ m \in Locals /\ m.n = l.n /\ m.name = l.name /\ m.overwrite = l.overwrite
      /\ m.sent = l.sent /\ m.started = l.started /\ m.handled = l.handled
      /\ m.disturbed = l.disturbed /\ m.abandoned = l.abandoned
  BY OfUpload, ProgressSet DEF Reported, Alike
<1> HIDE DEF m, l
<1>5. Local("send", m) /\ Clean("send", m)
  BY <1>3, <1>4 DEF Local, Clean
<1>6. Alone("send", m)
  BY <1>3, <1>4 DEF Alone, Taken, Upto, Image
<1>7. Strays(t, m, "send")  BY <1>2, <1>4, NothingStrays DEF StreamProgress, l
<1> QED BY <1>1, <1>2, <1>4, <1>5, <1>6, <1>7, MovedKeepsIInv DEF l

LEMMA SendDoneStep ==
  ASSUME IInv, NEW t \in Tasks, SendDone(t)
  PROVE  IInv'
<1> DEFINE l == loc[t]
           k == IF pro THEN l.sent + 1 ELSE Chunks
           m == [l EXCEPT !.sent = k]
<1>1. Others  BY OthersUnchanged DEF SendDone
<1>2. pc[t] = "send" /\ l.handled /\ Moves(t, m, "local")  BY DEF SendDone, Goto, Moves
<1>3. l \in Locals /\ Local("send", l) /\ Clean("send", l) /\ Alone("send", l)
  BY <1>2, OfUpload
<1>4. k \in 0..Chunks /\ Taken("send", l) = k
  BY <1>2, <1>3, OfUpload DEF Local, Taken
<1>5. /\ m \in Locals /\ m.n = l.n /\ m.name = l.name /\ m.overwrite = l.overwrite
      /\ m.sent = k /\ m.started = l.started
      /\ m.disturbed = l.disturbed /\ m.abandoned = l.abandoned
  BY <1>3, <1>4, SentSet DEF Alike
<1> HIDE DEF m, k
<1>6. Local("local", m) /\ Clean("local", m)
  BY <1>3, <1>5 DEF Local, Clean
<1>7. Alone("local", m)
  <2>1. Taken("local", m) = k  BY <1>5 DEF Taken
  <2> QED BY <1>3, <1>4, <1>5, <2>1 DEF Alone, Upto, Image
<1>8. Strays(t, m, "local")  BY <1>2, <1>5, NothingStrays DEF SendDone
<1> QED BY <1>1, <1>2, <1>5, <1>6, <1>7, <1>8, MovedKeepsIInv

LEMMA CleanupEnded ==
  ASSUME IInv, NEW t \in Tasks, pc[t] = "cleanup", Others, GoesAstray(t),
         End(t, [loc[t] EXCEPT !.lost = ~loc[t].handled], "failed")
  PROVE  IInv'
<1> DEFINE l == loc[t]
           m == [l EXCEPT !.lost = ~l.handled]
<1>1. Clean("cleanup", l) /\ l \in Locals /\ l.handled \in BOOLEAN  BY OfUpload
<1>2. /\ m \in Locals /\ m.n = l.n /\ m.name = l.name /\ m.lost = ~l.handled
      /\ m.abandoned = l.abandoned /\ m.disturbed = l.disturbed
  BY <1>1 DEF Locals
<1>3. Moves(t, m, "failed")  BY DEF End, Goto, Moves
<1> HIDE DEF m
<1>4. Local("failed", m) /\ Clean("failed", m) /\ Alone("failed", m)
  BY <1>1, <1>2 DEF Local, Clean, Alone, Stored
<1>5. Strays(t, m, "failed")  BY <1>2, RequestStrays
<1> QED BY <1>2, <1>3, <1>4, <1>5, MovedKeepsIInv

LEMMA CleanupEndsStep ==
  ASSUME IInv, NEW t \in Tasks, CleanupEnds(t)
  PROVE  IInv'
<1>1. Others  BY OthersUnchanged DEF CleanupEnds
<1> QED BY <1>1, CleanupEnded DEF CleanupEnds

LEMMA CancelStep ==
  ASSUME IInv, NEW t \in Tasks, Cancel(t)
  PROVE  IInv'
<1>1. pc[t] \notin Ended  BY DEF Cancel
<1>5. Others /\ GoesAstray(t)  BY DEF Cancel, Others, IInv, Typed
<1>2. CASE pc[t] = "queued" /\ End(t, loc[t], "failed")
  <2>1. Moves(t, loc[t], "failed")  BY <1>2 DEF End, Goto, Moves
  <2>2. Local("failed", loc[t]) /\ Clean("failed", loc[t]) /\ Alone("failed", loc[t])
    BY <1>2, OfUpload DEF Local, Clean, Alone
  <2>3. Strays(t, loc[t], "failed")  BY <1>2, <1>5, RequestStrays
  <2> QED BY <1>2, <1>5, <2>1, <2>2, <2>3, OfUpload, MovedKeepsIInv
<1>3. CASE pc[t] \in {"list", "delete", "local", "send"} /\ Raise(t, Abandon(t))
  BY <1>3, <1>5, GivenUp
<1>4. CASE pc[t] = "cleanup" /\ End(t, [loc[t] EXCEPT !.lost = ~loc[t].handled], "failed")
  BY <1>4, <1>5, CleanupEnded
<1> QED BY <1>2, <1>3, <1>4 DEF Cancel

--------------------------------------------------------------------------------
(* The other steps.                                                         *)

LEMMA UploadStep ==
  ASSUME IInv, NEW t \in Tasks, NEW name \in Names, NEW overwrite \in BOOLEAN,
         Upload(t, name, overwrite)
  PROVE  IInv'
<1> DEFINE l == Frame(started + 1, name, overwrite)
<1>1. /\ l \in Locals /\ l.n = started + 1 /\ l.name = name /\ l.sent = 0 /\ ~l.started
      /\ l.overwrite = overwrite
  BY DEF IInv, Typed, Frame, Locals
<1> HIDE DEF l
<1>2. /\ pc[t] \in Ended /\ started' = started + 1 /\ lock' = Append(lock, t)
      /\ pc' = [pc EXCEPT ![t] = "queued"] /\ loc' = [loc EXCEPT ![t] = l]
      /\ UNCHANGED <<pro, generation, token, files, astray, cancelled, transitions>>
  BY DEF Upload, Goto, session, l
<1>3. /\ pc \in [Tasks -> PCs] /\ loc \in [Tasks -> Locals] /\ started \in Nat
      /\ lock \in Seq(Tasks) /\ Distinct(lock) /\ t \notin Elems(lock)
  BY <1>2 DEF IInv, Typed, Locked
<1>4. /\ Append(lock, t) \in Seq(Tasks) /\ Elems(Append(lock, t)) = Elems(lock) \cup {t}
      /\ Distinct(Append(lock, t)) /\ (lock # <<>> => Head(Append(lock, t)) = Head(lock))
  BY <1>3, JoinQueue
<1>5. /\ pc' \in [Tasks -> PCs] /\ loc' \in [Tasks -> Locals]
      /\ pc'[t] = "queued" /\ loc'[t] = l
      /\ \A u \in Tasks \ {t} : pc'[u] = pc[u] /\ loc'[u] = loc[u]
  BY <1>1, <1>2, <1>3
<1>6. Typed'
  BY <1>2, <1>3, <1>4, <1>5 DEF IInv, Typed
<1>7. Locked'
  <2>1. ASSUME NEW u \in Tasks, Working(u)'  PROVE Head(lock') = u
    <3>1. u # t /\ Working(u)  BY <1>5, <2>1 DEF Working
    <3>2. Head(lock) = u /\ u \in Elems(lock)  BY <3>1 DEF IInv, Locked, Working
    <3>3. lock # <<>>  BY <3>2, EmptyQueue
    <3> QED BY <1>2, <1>4, <3>2, <3>3
  <2>2. \A u \in Tasks : u \in Elems(lock') <=> pc'[u] \notin Ended
    BY <1>2, <1>4, <1>5 DEF IInv, Locked
  <2>3. Distinct(lock')
    BY <1>2, <1>4 DEF IInv, Locked
  <2> QED BY <2>1, <2>2, <2>3 DEF Locked
<1>8. Numbered'
  <2>1. \A u \in Tasks : loc[u].n \in Nat /\ loc[u].n <= started  BY OfUpload DEF IInv, Numbered
  <2>2. \A u \in Tasks : loc'[u].n <= started'  BY <1>1, <1>2, <1>3, <1>5, <2>1
  <2>3. ASSUME NEW u \in Tasks, NEW v \in Tasks, pc'[u] # "new", pc'[v] # "new",
               loc'[u].n = loc'[v].n
        PROVE  u = v
    BY <1>1, <1>3, <1>5, <2>1, <2>3 DEF IInv, Numbered
  <2>4. \A x \in Names : \A k \in Nat, i \in 1..Chunks : <<k, i>> \in files'[x] => k <= started'
    BY <1>2, <1>3 DEF IInv, Numbered
  <2> QED BY <2>2, <2>3, <2>4 DEF Numbered
<1>9. Uploads'
  <2>1. Stored(l) = {}
    <3>1. \A i \in 1..Chunks : <<started + 1, i>> \notin files[name]
      BY <1>3 DEF IInv, Numbered
    <3> QED BY <1>1, <3>1 DEF Stored
  <2>2. Local(pc[t], loc[t])' /\ Clean(pc[t], loc[t])' /\ Alone(pc[t], loc[t])'
    BY <1>1, <1>2, <1>5, <2>1 DEF Local, Clean, Alone, Stored, Taken
  <2>3. ASSUME NEW u \in Tasks, u # t
        PROVE  Local(pc[u], loc[u])' /\ Clean(pc[u], loc[u])' /\ Alone(pc[u], loc[u])'
    <3>1. Local(pc[u], loc[u]) /\ Clean(pc[u], loc[u]) /\ Alone(pc[u], loc[u])
      BY OfUpload
    <3> QED BY <1>2, <1>5, <2>3, <3>1 DEF Local, Clean, Alone, Stored, Taken
  <2> QED BY <2>2, <2>3 DEF Uploads
<1>10. Wandering'
  <2>1. \A o \in astray : o.n \in Nat /\ o.n <= started /\ o.n # l.n
    BY <1>1, <1>3 DEF IInv, Wandering, Typed, Orders
  <2> QED BY <1>2, <1>3, <1>5, <2>1 DEF IInv, Wandering, FromUpload
<1> QED BY <1>6, <1>7, <1>8, <1>9, <1>10 DEF IInv

(* The device acts on one request: all the other uploads wait or have ended.*)
LEMMA DeviceHandlesStep ==
  ASSUME IInv, NEW t \in Tasks, DeviceHandles(t)
  PROVE  IInv'
<1> DEFINE l == loc[t]
           m == [l EXCEPT !.handled = TRUE]
           o == Order(t)
           content == IF pc[t] = "send" THEN Store(files[l.name], o) ELSE {}
<1>1. /\ l \in Locals /\ l.name \in Names /\ l.n \in Nat /\ l.sent \in 0..Chunks
      /\ Local(pc[t], l) /\ Clean(pc[t], l) /\ Alone(pc[t], l) /\ l.overwrite \in BOOLEAN
  BY OfUpload
<1>2. /\ m \in Locals /\ m.n = l.n /\ m.name = l.name /\ m.overwrite = l.overwrite
      /\ m.sent = l.sent /\ m.started = l.started /\ m.handled
      /\ m.lost = l.lost /\ m.disturbed = l.disturbed /\ m.abandoned = l.abandoned
  BY <1>1 DEF Locals
<1>a. Unhandled(t)  BY DEF DeviceHandles
<1>b. /\ o.what = pc[t] /\ o.name = l.name /\ o.n = l.n
      /\ pc[t] = "send" => o.chunk = l.sent + 1
  BY <1>a, OrderType
<1> HIDE DEF o
<1>3. /\ pc[t] \in {"delete", "send", "cleanup"} /\ ~l.handled
      /\ files' = [files EXCEPT ![l.name] = content]
      /\ loc' = [loc EXCEPT ![t] = m]
      /\ UNCHANGED <<pro, generation, token, lock, astray, pc, started, cancelled, transitions>>
  <2>1. Handle(o) /\ loc' = [loc EXCEPT ![t].handled = TRUE]  BY DEF DeviceHandles, o
  <2>2. files' = [files EXCEPT ![l.name] = content]  BY <1>b, <2>1 DEF Handle
  <2> QED BY <1>a, <2>1, <2>2 DEF DeviceHandles, session, bounds, Unhandled
<1> HIDE DEF m
<1>4. /\ files \in [Names -> SUBSET (Nat \X (1..Chunks))] /\ loc \in [Tasks -> Locals]
      /\ pc \in [Tasks -> PCs] /\ started \in Nat /\ l.n <= started
  BY DEF IInv, Typed, Numbered
<1>5. /\ content \in SUBSET (Nat \X (1..Chunks))
      /\ \A x \in content : x \in files[l.name] \/ (x[1] = l.n /\ pc[t] = "send")
  <2>1. CASE pc[t] = "send" /\ pro
    <3>1. l.sent + 1 \in 1..Chunks  BY <1>1, <2>1 DEF Local
    <3>2. {<<l.n, 1>>, <<l.n, l.sent + 1>>} \subseteq Nat \X (1..Chunks)  BY <1>1, <3>1
    <3> QED BY <1>1, <1>4, <1>b, <2>1, <3>2 DEF Store
  <2>2. CASE pc[t] = "send" /\ ~pro
    BY <1>1, <1>b, <2>2 DEF Store, Image
  <2>3. CASE pc[t] # "send"
    BY <2>3
  <2> QED BY <2>1, <2>2, <2>3
<1>6. pc[t] = "send" /\ Taken("send", m) # 0 /\ ~m.disturbed => content = Upto(m, Taken("send", m))
  <2> SUFFICES ASSUME pc[t] = "send", ~m.disturbed
               PROVE  content = Upto(m, Taken("send", m))
    OBVIOUS
  <2>1. CASE ~pro
    <3>1. Taken("send", m) = Chunks  BY <1>2, <2>1 DEF Taken
    <3>2. content = Image(l.n)  BY <1>b, <2>1 DEF Store
    <3> QED BY <1>2, <3>1, <3>2 DEF Upto, Image
  <2>2. CASE pro /\ l.sent = 0
    <3>1. Taken("send", m) = 1  BY <1>2, <2>2 DEF Taken
    <3>2. \A i \in Nat : i \in 1..1 <=> i = 1  OBVIOUS
    <3>3. Upto(m, 1) = {<<l.n, 1>>}  BY <1>2, <3>2 DEF Upto
    <3>4. o.chunk = 1  BY <1>b, <2>2
    <3> QED BY <1>b, <2>2, <3>1, <3>3, <3>4 DEF Store
  <2>3. CASE pro /\ l.sent # 0
    <3>1. Taken("send", m) = l.sent + 1 /\ Taken("send", l) = l.sent
      BY <1>2, <1>3, <2>3 DEF Taken
    <3>2. files[l.name] = Upto(l, l.sent)  BY <1>1, <1>2, <2>3, <3>1 DEF Alone
    <3>3. content = Upto(l, l.sent) \cup {<<l.n, l.sent + 1>>}
      BY <1>1, <1>b, <2>3, <3>2 DEF Store
    <3>4. 1..(l.sent + 1) = (1..l.sent) \cup {l.sent + 1}  BY <1>1
    <3> QED BY <1>2, <3>1, <3>3, <3>4 DEF Upto
  <2> QED BY <2>1, <2>2, <2>3
<1> HIDE DEF content
<1>7. /\ loc' \in [Tasks -> Locals] /\ loc'[t] = m /\ \A u \in Tasks \ {t} : loc'[u] = loc[u]
      /\ \A u \in Tasks : loc'[u].n = loc[u].n
  BY <1>2, <1>3, <1>4
<1>8. /\ files' \in [Names -> SUBSET (Nat \X (1..Chunks))]
      /\ files'[l.name] = content /\ \A x \in Names \ {l.name} : files'[x] = files[x]
  BY <1>1, <1>3, <1>4, <1>5
<1>9. Typed'
  BY <1>3, <1>7, <1>8 DEF IInv, Typed
<1>10. Locked'
  BY <1>3 DEF IInv, Locked, Working
<1>11. Numbered'
  <2>1. \A x \in Names : \A k \in Nat, i \in 1..Chunks : <<k, i>> \in files'[x] => k <= started'
    BY <1>3, <1>4, <1>5, <1>8 DEF IInv, Numbered
  <2> QED BY <1>3, <1>7, <2>1 DEF IInv, Numbered
<1>12. Uploads'
  <2>1. Local(pc[t], loc[t])' /\ Clean(pc[t], loc[t])'
    <3>1. pc[t] # "send" => content = {}  BY DEF content
    <3> QED BY <1>1, <1>2, <1>3, <1>7, <1>8, <3>1 DEF Local, Clean, Stored
  <2>2. Alone(pc[t], loc[t])'
    <3>1. ~m.overwrite /\ ~m.disturbed => content \subseteq Image(m.n)
      <4>1. CASE pc[t] = "send"
        <5>1. ~l.overwrite /\ ~l.disturbed => files[l.name] \subseteq Image(l.n)
          BY <1>1, <1>2, <4>1 DEF Alone
        <5>2. \A x \in content : x \in files[l.name] \/ x \in Image(l.n)
          BY <1>1, <1>5 DEF Image
        <5> QED BY <1>2, <5>1, <5>2
      <4>2. CASE pc[t] # "send"  BY <4>2 DEF content
      <4> QED BY <4>1, <4>2
    <3> QED BY <1>2, <1>3, <1>6, <1>7, <1>8, <3>1 DEF Alone, Taken
  <2>3. ASSUME NEW u \in Tasks, u # t
        PROVE  Local(pc[u], loc[u])' /\ Clean(pc[u], loc[u])' /\ Alone(pc[u], loc[u])'
    <3>1. /\ Local(pc[u], loc[u]) /\ Clean(pc[u], loc[u]) /\ loc[u].name \in Names
          /\ loc[u].n \in Nat
      BY OfUpload
    <3>2. pc[u] \in Ended \cup {"queued"}
      BY <1>3, <1>4, <2>3 DEF IInv, Locked, Working
    <3>3. Local(pc[u], loc[u])' /\ Alone(pc[u], loc[u])'
      BY <1>3, <1>7, <2>3, <3>1, <3>2 DEF Local, Alone
    <3>4. pc[u] # "new" => loc[u].n # l.n
      BY <1>3, <2>3 DEF IInv, Numbered
    <3>5. pc[u] # "new" => Stored(loc[u])' \subseteq Stored(loc[u])
      BY <1>5, <1>7, <1>8, <2>3, <3>1, <3>4 DEF Stored
    <3>6. Clean(pc[u], loc[u])'
      BY <1>3, <1>7, <2>3, <3>1, <3>2, <3>5 DEF Clean
    <3> QED BY <3>3, <3>6
  <2> QED BY <1>7, <2>1, <2>2, <2>3 DEF Uploads
<1>13. Wandering'
  <2>1. \A u \in Tasks : /\ loc'[u].n = loc[u].n /\ loc'[u].name = loc[u].name
                         /\ loc'[u].abandoned = loc[u].abandoned
    BY <1>2, <1>7
  <2> QED BY <1>3, <2>1 DEF IInv, Wandering, FromUpload
<1> QED BY <1>9, <1>10, <1>11, <1>12, <1>13 DEF IInv

(* Only a chunk that was given up can come as late as this.                 *)
LEMMA StrayHandledStep ==
  ASSUME IInv, NEW o \in astray, StrayHandled(o)
  PROVE  IInv'
<1> DEFINE content == IF o.what = "send" THEN Store(files[o.name], o) ELSE {}
<1>1. /\ o \in Orders /\ o.name \in Names /\ o.n \in Nat /\ o.chunk \in 0..Chunks
      /\ o.n <= started /\ (o.what = "send" => o.chunk # 0)
  BY DEF IInv, Typed, Wandering, Orders
<1>2. /\ files \in [Names -> SUBSET (Nat \X (1..Chunks))] /\ loc \in [Tasks -> Locals]
      /\ pc \in [Tasks -> PCs] /\ started \in Nat
  BY DEF IInv, Typed
<1>3. /\ files' = [files EXCEPT ![o.name] = content] /\ astray' \subseteq astray
      /\ loc' = [t \in Tasks |-> IF Working(t) /\ loc[t].name = o.name
                                THEN [loc[t] EXCEPT !.disturbed = TRUE] ELSE loc[t]]
      /\ UNCHANGED <<pro, generation, token, lock, pc, started, cancelled, transitions>>
  BY DEF StrayHandled, Handle, session, bounds
<1>4. /\ content \in SUBSET (Nat \X (1..Chunks))
      /\ \A x \in content : x \in files[o.name] \/ (x[1] = o.n /\ (pro => x[2] = o.chunk))
  <2>1. CASE o.what = "send" /\ pro
    <3>1. {<<o.n, 1>>, <<o.n, o.chunk>>} \subseteq Nat \X (1..Chunks)  BY <1>1, <2>1
    <3> QED BY <1>1, <1>2, <2>1, <3>1 DEF Store
  <2>2. CASE o.what = "send" /\ ~pro
    BY <1>1, <2>2 DEF Store, Image
  <2>3. CASE o.what # "send"
    BY <2>3
  <2> QED BY <2>1, <2>2, <2>3
<1>a. content # {} => o.what = "send"  OBVIOUS
<1> HIDE DEF content
<1>5. /\ files' \in [Names -> SUBSET (Nat \X (1..Chunks))]
      /\ files'[o.name] = content /\ \A x \in Names \ {o.name} : files'[x] = files[x]
  BY <1>1, <1>2, <1>3, <1>4
<1>6. ASSUME NEW t \in Tasks
      PROVE  /\ loc'[t] \in Locals /\ loc'[t].n = loc[t].n /\ loc'[t].name = loc[t].name
             /\ loc'[t].overwrite = loc[t].overwrite /\ loc'[t].sent = loc[t].sent
             /\ loc'[t].started = loc[t].started /\ loc'[t].handled = loc[t].handled
             /\ loc'[t].lost = loc[t].lost /\ loc'[t].abandoned = loc[t].abandoned
             /\ loc'[t].disturbed \/ (loc'[t].disturbed = loc[t].disturbed
                                       /\ (~Working(t) \/ loc[t].name # o.name))
  <2>1. loc[t] \in Locals  BY <1>2
  <2>2. loc'[t] = IF Working(t) /\ loc[t].name = o.name
                  THEN [loc[t] EXCEPT !.disturbed = TRUE] ELSE loc[t]
    BY <1>3
  <2>3. CASE Working(t) /\ loc[t].name = o.name
    <3>1. loc'[t] = [loc[t] EXCEPT !.disturbed = TRUE]  BY <2>2, <2>3
    <3> QED BY <2>1, <3>1 DEF Locals
  <2>4. CASE ~(Working(t) /\ loc[t].name = o.name)
    <3>1. loc'[t] = loc[t]  BY <2>2, <2>4
    <3> QED BY <2>1, <2>4, <3>1
  <2> QED BY <2>3, <2>4
<1>7. Typed'
  <2>1. loc' \in [Tasks -> Locals]  BY <1>3, <1>6
  <2> QED BY <1>3, <1>5, <2>1 DEF IInv, Typed
<1>8. Locked'  BY <1>3 DEF IInv, Locked, Working
<1>9. Numbered'
  <2>1. \A x \in Names : \A k \in Nat, i \in 1..Chunks : <<k, i>> \in files'[x] => k <= started'
    BY <1>1, <1>3, <1>4, <1>5 DEF IInv, Numbered
  <2> QED BY <1>3, <1>6, <2>1 DEF IInv, Numbered
<1>10. Wandering'
  BY <1>3, <1>6 DEF IInv, Wandering, FromUpload
<1>11. Uploads'
  <2> SUFFICES ASSUME NEW t \in Tasks
               PROVE  Local(pc[t], loc[t])' /\ Clean(pc[t], loc[t])' /\ Alone(pc[t], loc[t])'
    BY DEF Uploads
  <2>1. /\ Local(pc[t], loc[t]) /\ Clean(pc[t], loc[t]) /\ Alone(pc[t], loc[t])
        /\ loc[t].name \in Names /\ loc[t].n \in Nat /\ pc[t] \in PCs
    BY OfUpload
  <2>2. Local(pc[t], loc[t])'  BY <1>3, <1>6, <2>1 DEF Local
  <2>3. Alone(pc[t], loc[t])'
    <3>1. CASE loc[t].name # o.name \/ pc[t] \notin {"local", "send", "cleanup"}
      BY <1>3, <1>5, <1>6, <2>1, <3>1 DEF Alone, Taken, Upto
    <3>2. CASE loc[t].name = o.name /\ pc[t] \in {"local", "send", "cleanup"}
      <4>1. loc'[t].disturbed  BY <1>6, <3>2 DEF Working
      <4> QED BY <4>1 DEF Alone
    <3> QED BY <3>1, <3>2
  <2>4. pro /\ pc[t] # "new" =>
          Stored(loc[t])' \subseteq
            Stored(loc[t]) \cup (IF pc[t] \in {"cleanup", "failed"} THEN {loc[t].abandoned} ELSE {})
    <3> SUFFICES ASSUME pro, pc[t] # "new", NEW i \in 1..Chunks, <<loc[t].n, i>> \in files'[loc[t].name],
                        <<loc[t].n, i>> \notin files[loc[t].name]
                 PROVE  pc[t] \in {"cleanup", "failed"} /\ i = loc[t].abandoned
      BY <1>6 DEF Stored
    <3>1. loc[t].name = o.name /\ <<loc[t].n, i>> \in content  BY <1>5, <2>1
    <3>2. loc[t].n = o.n /\ i = o.chunk /\ o.what = "send"  BY <1>4, <1>a, <3>1
    <3>3. FromUpload(o, pc[t], loc[t])  BY DEF IInv, Wandering
    <3> QED BY <3>2, <3>3 DEF FromUpload
  <2>5. Clean(pc[t], loc[t])'
    <3>1. pc[t] = "cleanup" => loc[t].started  BY <2>1 DEF Local
    <3>2. pro' = pro /\ pc'[t] = pc[t]  BY <1>3
    <3>3. ASSUME pro, pc[t] \notin Ended, ~loc[t].started  PROVE Stored(loc[t])' = {}
      <4>1. Stored(loc[t]) = {}  BY <2>1, <3>3 DEF Clean
      <4> QED BY <2>4, <3>1, <3>3, <4>1
    <3>4. ASSUME pro, (pc[t] = "cleanup" /\ loc[t].handled) \/ (pc[t] = "failed" /\ ~loc[t].lost)
          PROVE  Stored(loc[t])' \subseteq {loc[t].abandoned}
      <4>1. Stored(loc[t]) \subseteq {loc[t].abandoned}  BY <2>1, <3>4 DEF Clean
      <4> QED BY <2>4, <3>4, <4>1
    <3> QED BY <1>6, <3>2, <3>3, <3>4 DEF Clean
  <2> QED BY <2>2, <2>3, <2>5
<1> QED BY <1>7, <1>8, <1>9, <1>10, <1>11 DEF IInv

LEMMA StrayLostStep ==
  ASSUME IInv, NEW o \in astray, StrayLost(o)
  PROVE  IInv'
<1>1. /\ UNCHANGED <<pro, generation, token, lock, files, pc, loc, started, cancelled, transitions>>
      /\ astray' \subseteq astray
  BY DEF StrayLost, session, bounds
<1>2. Typed' /\ Locked' /\ Numbered'  BY <1>1 DEF IInv, Typed, Locked, Working, Numbered
<1>3. Wandering'  BY <1>1 DEF IInv, Wandering, FromUpload
<1>4. Uploads'  BY <1>1 DEF IInv, Uploads, Local, Clean, Alone, Stored, Taken
<1> QED BY <1>2, <1>3, <1>4 DEF IInv

LEMMA SessionStep ==
  ASSUME IInv, Logout \/ Login
  PROVE  IInv'
<1>1. UNCHANGED <<pro, lock, files, astray, pc, loc, started, cancelled>>
  BY DEF Logout, Login
<1>a. generation' \in Nat /\ transitions' \in Nat  BY DEF Logout, Login, IInv, Typed
<1>b. token' \in BOOLEAN  BY DEF Logout, Login
<1>2. Typed'  BY <1>1, <1>a, <1>b DEF IInv, Typed
<1>3. Locked'  BY <1>1 DEF IInv, Locked, Working
<1>4. Numbered' /\ Wandering'  BY <1>1 DEF IInv, Numbered, Wandering
<1>5. Uploads'  BY <1>1 DEF IInv, Uploads, Local, Clean, Alone, Stored, Taken
<1> QED BY <1>2, <1>3, <1>4, <1>5 DEF IInv

--------------------------------------------------------------------------------
(* The theorems.                                                            *)

LEMMA InitIInv == Init => IInv
<1> SUFFICES ASSUME Init  PROVE IInv
  OBVIOUS
<1>1. PICK name \in Names : loc = [t \in Tasks |-> Frame(0, name, FALSE)]  BY DEF Init
<1>2. Frame(0, name, FALSE) \in Locals /\ Frame(0, name, FALSE).n = 0
  BY DEF Init, Frame, Locals
<1> DEFINE f == Frame(0, name, FALSE)
<1> HIDE DEF f
<1>a. loc = [t \in Tasks |-> f] /\ f \in Locals /\ f.n = 0  BY <1>1, <1>2 DEF f
<1>b. loc \in [Tasks -> Locals] /\ \A t \in Tasks : loc[t].n = 0  BY <1>a
<1>c. /\ generation = 0 /\ token = TRUE /\ lock = <<>> /\ astray = {} /\ started = 0
      /\ cancelled = 0 /\ transitions = 0
      /\ \A t \in Tasks : pc[t] = "new"
  BY DEF Init
<1>3. Typed
  <2>1. Image(0) \in SUBSET (Nat \X (1..Chunks))  BY DEF Image
  <2>2. files \in [Names -> SUBSET (Nat \X (1..Chunks))]  BY <2>1 DEF Init
  <2>3. pro \in BOOLEAN  BY DEF Init
  <2>4. pc \in [Tasks -> PCs]  BY DEF Init
  <2>5. /\ lock \in Seq(Tasks) /\ generation \in Nat /\ started \in Nat /\ cancelled \in Nat
        /\ transitions \in Nat /\ astray \subseteq Orders
    BY <1>c
  <2>6. token \in BOOLEAN  BY <1>c
  <2> QED BY <1>b, <2>2, <2>3, <2>4, <2>5, <2>6 DEF Typed
<1>4. Locked  BY EmptyQueue DEF Init, Locked, Working
<1>5. Numbered
  <2>1. \A x \in Names : \A k \in Nat, i \in 1..Chunks : <<k, i>> \in files[x] => k <= 0
    BY DEF Init, Image
  <2> QED BY <1>b, <1>c, <2>1 DEF Numbered
<1>6. Uploads  BY DEF Init, Uploads, Local, Clean, Alone
<1>7. Wandering  BY <1>c DEF Wandering
<1> QED BY <1>3, <1>4, <1>5, <1>6, <1>7 DEF IInv

LEMMA NextIInv == IInv /\ [Next]_vars => IInv'
<1> SUFFICES ASSUME IInv, [Next]_vars  PROVE IInv'
  OBVIOUS
<1>1. CASE UNCHANGED vars
  <2>1. UNCHANGED <<pro, generation, token, lock, files, astray, pc, loc>>  BY <1>1 DEF vars
  <2>2. UNCHANGED <<started, cancelled, transitions>>  BY <1>1 DEF vars
  <2>3. Typed' /\ Locked' /\ Numbered'  BY <2>1, <2>2 DEF IInv, Typed, Locked, Working, Numbered
  <2>4. Wandering' /\ Uploads'
    BY <2>1, <2>2 DEF IInv, Wandering, FromUpload, Uploads, Local, Clean, Alone, Stored, Taken
  <2> QED BY <2>3, <2>4 DEF IInv
<1>2. CASE Next
  BY <1>2, UploadStep, EnterStep, ListedStep, DeletedStep, LocalDoneStep, LocalFailsStep,
     SendDoneStep, RequestFailsStep, CleanupEndsStep, StreamProgressStep, CancelStep,
     DeviceHandlesStep, StrayHandledStep, StrayLostStep, SessionStep
  DEF Next, Continue
<1> QED BY <1>1, <1>2

(* IInv is inductive.                                                       *)
THEOREM Inductive == Spec => []IInv
<1>1. Init => IInv  BY InitIInv
<1>2. IInv /\ [Next]_vars => IInv'  BY NextIInv
<1> QED BY <1>1, <1>2, PTL DEF Spec

(* Type correctness; in particular one upload at a time works on the device.*)
THEOREM TypeOKThm == Spec => []TypeOK
<1>1. IInv => TypeOK
  <2> SUFFICES ASSUME IInv  PROVE TypeOK
    OBVIOUS
  <2>1. OneUploadAtATime  BY DEF IInv, Locked, OneUploadAtATime
  <2> QED BY <2>1 DEF IInv, Typed, TypeOK
<1> QED BY <1>1, Inductive, PTL

(* A failed upload to a Pro leaves no part of its image behind but the      *)
(* chunk it gave up, unless its cleanup was lost.                           *)
THEOREM FailedUploadCleansUpThm == Spec => []FailedUploadCleansUp
<1>1. IInv => FailedUploadCleansUp
  BY DEF IInv, Uploads, Clean, FailedUploadCleansUp
<1> QED BY <1>1, Inductive, PTL

(* Only the device changes what it stores.                                  *)
LEMMA FilesChange ==
  ASSUME Next, files' # files
  PROVE  (\E t \in Tasks : DeviceHandles(t)) \/ (\E o \in astray : StrayHandled(o))
BY DEF Next, StrayLost, Continue, Upload, Enter, Listed, Deleted, LocalDone, LocalFails, SendDone,
   RequestFails, CleanupEnds, StreamProgress, Cancel, Logout, Login

(* A complete image changes only through an upload that may overwrite it,   *)
(* or through the upload that stored it.                                    *)
THEOREM NoSilentOverwriteThm == Spec => NoSilentOverwrite
<1>1. IInv /\ [Next]_vars =>
        [\A name \in Names, n \in 0..MaxOps :
           files[name] = Image(n) /\ files'[name] # files[name] /\ astray' = astray =>
             \E t \in Tasks : /\ pc[t] \in Requests /\ loc[t].name = name
                              /\ loc[t].overwrite \/ loc[t].n = n \/ loc[t].disturbed]_vars
  <2> SUFFICES ASSUME IInv, Next, NEW name \in Names, NEW n \in 0..MaxOps,
                      files[name] = Image(n), files'[name] # files[name], astray' = astray
               PROVE  \E t \in Tasks : /\ pc[t] \in Requests /\ loc[t].name = name
                                       /\ loc[t].overwrite \/ loc[t].n = n \/ loc[t].disturbed
    BY DEF vars
  <2>1. ~\E o \in astray : StrayHandled(o)  BY DEF StrayHandled
  <2>2. PICK t \in Tasks : DeviceHandles(t)  BY <2>1, FilesChange
  <2> DEFINE l == loc[t]
  <2>3. /\ l.name \in Names /\ Local(pc[t], l) /\ Alone(pc[t], l) /\ l.n \in Nat
        /\ l.overwrite \in BOOLEAN
    BY OfUpload
  <2>4. pc[t] \in {"delete", "send", "cleanup"} /\ l.name = name
    <3>1. files \in [Names -> SUBSET (Nat \X (1..Chunks))]  BY DEF IInv, Typed
    <3>2. Unhandled(t) /\ Handle(Order(t))  BY <2>2 DEF DeviceHandles
    <3>3. Order(t).name = l.name  BY <3>2, OrderType
    <3> QED BY <2>3, <3>1, <3>2, <3>3 DEF Handle, Unhandled
  <2>5. CASE l.overwrite \/ l.disturbed  BY <2>4, <2>5
  <2>6. CASE ~l.overwrite /\ ~l.disturbed
    <3>1. pc[t] \in {"send", "cleanup"}  BY <2>3, <2>4, <2>6 DEF Local
    <3>2. Image(n) \subseteq Image(l.n)  BY <2>3, <2>4, <2>6, <3>1 DEF Alone
    <3>3. <<n, 1>> \in Image(n)  BY DEF Image
    <3>4. l.n = n  BY <3>2, <3>3 DEF Image
    <3> QED BY <2>4, <3>4
  <2> QED BY <2>5, <2>6
<1> QED BY <1>1, Inductive, PTL DEF Spec, NoSilentOverwrite

(* A step of an upload that neither returns nor reports more than before    *)
(* finishes none.                                                           *)
LEMMA MovesOnly ==
  ASSUME Typed, NEW t \in Tasks, NEW u \in Tasks, NEW m, NEW at, Moves(u, m, at),
         at # "ok", m.progress = loc[u].progress \/ m.progress # Chunks
  PROVE  pc[t] \notin Ended => ~Finishes(t)
BY DEF Typed, Moves, Finishes

LEMMA RaiseOnly ==
  ASSUME Typed, NEW t \in Tasks, NEW u \in Tasks, NEW l \in Locals, Raise(u, l),
         l.progress = loc[u].progress \/ l.progress # Chunks
  PROVE  pc[t] \notin Ended => ~Finishes(t)
<1>1. PICK m \in Locals, at \in {"cleanup", "failed"} : Moves(u, m, at) /\ Same(m, l)
  BY RaiseMoves
<1> QED BY <1>1, MovesOnly DEF Same

LEMMA RequestOnly ==
  ASSUME Typed, NEW t \in Tasks, NEW u \in Tasks, NEW l \in Locals, NEW at \in Requests,
         Request(u, l, at), l.progress = loc[u].progress \/ l.progress # Chunks
  PROVE  pc[t] \notin Ended => ~Finishes(t)
<1>1. CASE Raise(u, l)  BY <1>1, RaiseOnly
<1>2. CASE \E m \in Locals : Moves(u, m, at) /\ Same(m, l) /\ ~m.handled
  BY <1>2, MovesOnly DEF Same
<1> QED BY <1>1, <1>2, RequestMoves

LEMMA OnlyLocalDoneFinishes ==
  ASSUME IInv, Next, NEW t \in Tasks, pc[t] \notin Ended, Finishes(t)
  PROVE  pc[t] = "local" /\ Uploaded(loc[t])
<1> SUFFICES ASSUME ~(pc[t] = "local" /\ Uploaded(loc[t]))  PROVE FALSE
  OBVIOUS
<1>1. /\ Typed /\ pc \in [Tasks -> PCs] /\ loc \in [Tasks -> Locals]
      /\ \A u \in Tasks : loc[u] \in Locals /\ Same(loc[u], loc[u])
  BY OfUpload DEF IInv, Typed
<1>2. ASSUME NEW u \in Tasks, NEW name \in Names, NEW overwrite \in BOOLEAN,
             Upload(u, name, overwrite)
      PROVE  FALSE
  BY <1>1, <1>2 DEF Upload, Goto, Finishes
<1>3. ASSUME NEW u \in Tasks, Enter(u)  PROVE FALSE
  <2> DEFINE l == [loc[u] EXCEPT !.begun = generation]
  <2>1. l \in Locals /\ l.progress = loc[u].progress  BY <1>1, OfUpload DEF Locals
  <2> HIDE DEF l
  <2>2. CASE Request(u, l, "list")  BY <1>1, <2>1, <2>2, RequestOnly
  <2>3. CASE End(u, loc[u], "failed")
    <3>1. Moves(u, loc[u], "failed")  BY <2>3 DEF End, Goto, Moves
    <3> QED BY <1>1, <3>1, MovesOnly
  <2> QED BY <1>3, <2>2, <2>3 DEF Enter, l
<1>4. ASSUME NEW u \in Tasks, Listed(u)  PROVE FALSE
  <2>1. CASE Request(u, loc[u], "delete")  BY <1>1, <2>1, RequestOnly
  <2>2. CASE End(u, loc[u], "failed")
    <3>1. Moves(u, loc[u], "failed")  BY <2>2 DEF End, Goto, Moves
    <3> QED BY <1>1, <3>1, MovesOnly
  <2>3. CASE Goto(u, loc[u], "local") /\ UNCHANGED lock
    <3>1. Moves(u, loc[u], "local")  BY <2>3 DEF Goto, Moves
    <3> QED BY <1>1, <3>1, MovesOnly
  <2> QED BY <1>4, <2>1, <2>2, <2>3 DEF Listed
<1>5. ASSUME NEW u \in Tasks, Deleted(u)  PROVE FALSE
  <2>1. Moves(u, loc[u], "local")  BY <1>5 DEF Deleted, Goto, Moves
  <2> QED BY <1>1, <2>1, MovesOnly
<1>6. ASSUME NEW u \in Tasks, LocalDone(u)  PROVE FALSE
  <2> DEFINE l == [loc[u] EXCEPT !.progress = loc[u].sent]
             m == [l EXCEPT !.started = TRUE]
  <2>1. l \in Locals /\ l.sent = loc[u].sent /\ l.progress = loc[u].sent
    BY OfUpload, ProgressSet
  <2> HIDE DEF l
  <2>2. m \in Locals /\ m.progress = l.progress  BY <2>1, StartedSet
  <2> HIDE DEF m
  <2>3. CASE Uploaded(l) /\ End(u, l, "ok")
    <3>1. pc[u] = "local" /\ Uploaded(loc[u])  BY <1>6, <2>1, <2>3 DEF LocalDone, Uploaded
    <3>2. u # t  BY <3>1
    <3> QED BY <1>1, <2>3, <3>2 DEF End, Goto, Finishes
  <2>4. CASE ~Uploaded(l) /\ Request(u, m, "send")
    BY <1>1, <2>1, <2>2, <2>4, RequestOnly DEF Uploaded
  <2> QED BY <1>6, <2>3, <2>4 DEF LocalDone, l, m
<1>14. ASSUME NEW u \in Tasks, Raise(u, Abandon(u))  PROVE FALSE
  <2> DEFINE m == Abandon(u)
  <2>1. m \in Locals /\ m.progress = loc[u].progress  BY AbandonSet
  <2>2. Raise(u, m)  BY <1>14
  <2> HIDE DEF m
  <2> QED BY <1>1, <2>1, <2>2, RaiseOnly
<1>7. ASSUME NEW u \in Tasks, LocalFails(u) \/ RequestFails(u)  PROVE FALSE
  BY <1>1, <1>7, <1>14, RaiseOnly DEF LocalFails, RequestFails
<1>8. ASSUME NEW u \in Tasks, StreamProgress(u)  PROVE FALSE
  <2> DEFINE l == loc[u]
             m == Reported(l)
  <2>1. Moves(u, m, "send")  BY <1>8 DEF StreamProgress, Goto, Moves
  <2>2. m.progress # Chunks  BY <1>8, OfUpload, ProgressSet DEF StreamProgress, Reported
  <2> QED BY <1>1, <2>1, <2>2, MovesOnly
<1>9. ASSUME NEW u \in Tasks, SendDone(u)  PROVE FALSE
  <2> DEFINE m == [loc[u] EXCEPT !.sent = IF pro THEN @ + 1 ELSE Chunks]
  <2>1. Moves(u, m, "local")  BY <1>9 DEF SendDone, Goto, Moves
  <2>2. m.progress = loc[u].progress  BY <1>1 DEF Locals
  <2> QED BY <1>1, <2>1, <2>2, MovesOnly
<1>10. ASSUME NEW u \in Tasks, End(u, [loc[u] EXCEPT !.lost = ~loc[u].handled], "failed")
       PROVE  FALSE
  <2> DEFINE m == [loc[u] EXCEPT !.lost = ~loc[u].handled]
  <2>1. Moves(u, m, "failed")  BY <1>10 DEF End, Goto, Moves
  <2>2. m.progress = loc[u].progress  BY <1>1 DEF Locals
  <2> QED BY <1>1, <2>1, <2>2, MovesOnly
<1>11. ASSUME NEW u \in Tasks, Cancel(u)  PROVE FALSE
  <2>1. CASE End(u, loc[u], "failed")
    <3>1. Moves(u, loc[u], "failed")  BY <2>1 DEF End, Goto, Moves
    <3> QED BY <1>1, <3>1, MovesOnly
  <2>2. CASE Raise(u, Abandon(u))  BY <1>14, <2>2
  <2> QED BY <1>10, <1>11, <2>1, <2>2 DEF Cancel
<1>12. ASSUME NEW u \in Tasks, DeviceHandles(u)  PROVE FALSE
  BY <1>1, <1>12 DEF DeviceHandles, Finishes, Locals
<1>15. ASSUME NEW o \in astray, StrayHandled(o)  PROVE FALSE
  <2>1. /\ pc' = pc
        /\ loc'[t] = IF Working(t) /\ loc[t].name = o.name
                     THEN [loc[t] EXCEPT !.disturbed = TRUE] ELSE loc[t]
    BY <1>15 DEF StrayHandled
  <2>2. loc[t] \in Locals  BY <1>1
  <2>3. loc'[t].progress = loc[t].progress  BY <2>1, <2>2 DEF Locals
  <2> QED BY <2>1, <2>3 DEF Finishes
<1>13. ASSUME (\E o \in astray : StrayLost(o)) \/ Logout \/ Login  PROVE FALSE
  BY <1>1, <1>13 DEF StrayLost, Logout, Login, Finishes
<1> QED BY <1>2, <1>3, <1>4, <1>5, <1>6, <1>7, <1>8, <1>9, <1>10, <1>11, <1>12, <1>13, <1>15
        DEF Next, Continue, CleanupEnds

(* An upload that returns, or that reports 100%, has stored its own image.  *)
THEOREM UploadIsWholeThm == Spec => UploadIsWhole
<1>1. IInv /\ [Next]_vars =>
        [\A t \in Tasks : pc[t] \notin Ended /\ Finishes(t) /\ ~loc[t].disturbed =>
           files[loc[t].name] = Image(loc[t].n)]_vars
  <2> SUFFICES ASSUME IInv, Next, NEW t \in Tasks, pc[t] \notin Ended, Finishes(t), ~loc[t].disturbed
               PROVE  files[loc[t].name] = Image(loc[t].n)
    BY DEF vars
  <2>1. pc[t] = "local" /\ loc[t].sent = Chunks  BY OnlyLocalDoneFinishes DEF Uploaded
  <2>2. Alone("local", loc[t])  BY <2>1, OfUpload
  <2> QED BY <2>1, <2>2 DEF Alone, Taken, Upto, Image
<1> QED BY <1>1, Inductive, PTL DEF Spec, UploadIsWhole
================================================================================
