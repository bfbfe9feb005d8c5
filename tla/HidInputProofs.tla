----------------------------- MODULE HidInputProofs -----------------------------
(* Proofs about HidInput, for any tasks, buttons and bounds, in four parts: *)
(* reports keep their order; a press that is taken back takes no later one  *)
(* with it; on firmware with the binary protocol a button stays behind only *)
(* in the ways the properties name; and what the bytes of a report say.     *)
EXTENDS HidInput, Queues

(* Where a report waits to be written, and where its operation still may    *)
(* take it back.                                                            *)
Sending == {"getws", "connect"}
Unsure == Sending \cup {"drain", "invalidate", "rejected"}
Keys == {"key_press", "key_up"}

(* What the history says of the held buttons: it numbers the press that put *)
(* each of them there, and no press that returned is older than that one.   *)
Noted ==
  /\ buttons \subseteq Buttons /\ clicked \subseteq buttons /\ kept \subseteq buttons
  /\ unreleased \subseteq buttons
  /\ since \in [Buttons -> Nat] /\ held \in [Buttons -> Nat]
  /\ \A b \in Buttons :
       /\ since[b] <= built /\ held[b] <= built
       /\ since[b] # 0 <=> b \in buttons
       /\ held[b] # 0 => since[b] # 0 /\ since[b] <= held[b]

Values ==
  /\ generation \in Nat /\ token \in BOOLEAN /\ known \in BOOLEAN
  /\ host \in [buttons : SUBSET Buttons, pressed : SUBSET Buttons, key : BOOLEAN, n : Nat]
  /\ built \in Nat /\ started \in Nat /\ cancelled \in Nat /\ forgets \in Nat
  /\ host.n <= built
  /\ Noted

Typed == Values /\ pc \in [Tasks -> PCs] /\ loc \in [Tasks -> Locals]

(* Exactly the tasks that hold _ws_lock or wait for it are in its queue.    *)
Locked ==
  /\ queue \in Seq(Tasks) /\ Distinct(queue)
  /\ \A t \in Tasks : t \in Elems(queue) <=> pc[t] \in Queued
  /\ \A t \in Tasks : pc[t] = "connect" => Head(queue) = t

(* What a task suspended at `at` with locals l is doing.                    *)
Placed(l, at) ==
  /\ l.op \in Presses => l.button \in Buttons
  /\ l.stage = "press" => l.op \in Presses
  /\ at = "pause" => l.op = "click_at" /\ l.stage = "move"
  /\ at = "hold" => (l.op \in Clicks /\ l.stage = "press") \/ l.op = "key_tap"
  /\ at \in {"clear", "login"} => l.op \in Transitions /\ l.stage = "none"
  /\ l.gen <= generation /\ l.report.n <= built
  /\ at \in Sending => host.n < l.report.n
  /\ at \in Unsure /\ l.stage = "press" => l.previous \subseteq l.pressed

(* Reports wait in the order in which they were built.                      *)
Ordered ==
  \A t, u \in Tasks : pc[t] \in Sending /\ pc[u] \in Sending /\ Ahead(queue, t, u) =>
    loc[t].report.n < loc[u].report.n

IInv == Typed /\ Locked /\ Ordered /\ \A t \in Tasks : Placed(loc[t], pc[t])

USE DEF Clicks, Presses, Transitions, AllOperations, Ended, Queued, PCs, Stages

--------------------------------------------------------------------------------
(* Locals.                                                                  *)

LEMMA IdleType ==
  /\ Idle \in Locals /\ Idle.op = "none" /\ Idle.stage = "none" /\ Idle.gen = 0
  /\ Idle.report.n = 0
BY DEF Idle, Locals

(* The parts of the locals that a report was built with.                    *)
SameReport(m, l) ==
  /\ m.report = l.report /\ m.previous = l.previous /\ m.pressed = l.pressed

LEMMA OpSet ==
  ASSUME NEW l \in Locals, NEW op \in AllOperations
  PROVE  LET m == [l EXCEPT !.op = op] IN m \in Locals /\ m.op = op /\ SameReport(m, l)
BY DEF Locals, SameReport

LEMMA ButtonSet ==
  ASSUME NEW l \in Locals, NEW b \in Buttons \cup {"none"}
  PROVE  LET m == [l EXCEPT !.button = b]
         IN m \in Locals /\ m.op = l.op /\ m.button = b /\ SameReport(m, l)
BY DEF Locals, SameReport

LEMMA GenSet ==
  ASSUME NEW l \in Locals, NEW g \in Nat
  PROVE  LET m == [l EXCEPT !.gen = g]
         IN /\ m \in Locals /\ m.op = l.op /\ m.button = l.button /\ m.stage = l.stage
            /\ m.gen = g /\ SameReport(m, l)
BY DEF Locals, SameReport

LEMMA AskedSet ==
  ASSUME NEW l \in Locals, NEW g \in Nat
  PROVE  LET m == [l EXCEPT !.asked = g]
         IN /\ m \in Locals /\ m.op = l.op /\ m.button = l.button /\ m.stage = l.stage
            /\ m.gen = l.gen /\ SameReport(m, l)
BY DEF Locals, SameReport

LEMMA StageSet ==
  ASSUME NEW l \in Locals, NEW s \in Stages
  PROVE  LET m == [l EXCEPT !.stage = s]
         IN /\ m \in Locals /\ m.op = l.op /\ m.button = l.button /\ m.stage = s
            /\ m.gen = l.gen /\ SameReport(m, l)
BY DEF Locals, SameReport

LEMMA FrameType ==
  ASSUME Typed, NEW op \in AllOperations, NEW b \in Buttons \cup {"none"}, NEW s \in Stages
  PROVE  LET l == Frame(op, b, s)
         IN /\ l \in Locals /\ l.op = op /\ l.button = b /\ l.stage = s /\ l.gen = generation
            /\ l.report.n = 0
<1> DEFINE x == [Idle EXCEPT !.op = op]
           y == [x EXCEPT !.button = b]
           z == [y EXCEPT !.stage = s]
<1>1. generation \in Nat  BY DEF Typed, Values
<1>2. Frame(op, b, s) = [z EXCEPT !.gen = generation]
  BY DEF Frame
<1>3. x \in Locals /\ x.op = op /\ x.report.n = 0  BY IdleType, OpSet DEF SameReport
<1> HIDE DEF x
<1>4. y \in Locals /\ y.op = op /\ y.button = b /\ y.report.n = 0  BY <1>3, ButtonSet DEF SameReport
<1> HIDE DEF y
<1>5. z \in Locals /\ z.op = op /\ z.button = b /\ z.stage = s /\ z.report.n = 0
  BY <1>4, StageSet, ZenonT(120) DEF SameReport
<1> HIDE DEF z
<1> QED BY <1>1, <1>2, <1>5, GenSet DEF SameReport

LEMMA ReleaseSet ==
  ASSUME NEW l \in Locals, NEW th \in {"ok", "failed"}
  PROVE  LET m == ReleaseFrame(l, th)
         IN /\ m \in Locals /\ m.op = l.op /\ m.button = l.button /\ m.gen = l.gen
            /\ m.stage = IF l.op = "key_tap" THEN "key_up" ELSE "up"
            /\ SameReport(m, l)
BY ZenonT(40) DEF Locals, ReleaseFrame, SameReport

LEMMA ReportSet ==
  ASSUME NEW l \in Locals, NEW g \in Nat, NEW p \in SUBSET Buttons, NEW q \in SUBSET Buttons,
         NEW b \in BOOLEAN, NEW n \in Nat,
         g = generation, p = buttons, q = buttons', n = built + 1
  PROVE  LET m == Report(l, b)
         IN /\ m \in Locals /\ m.op = l.op /\ m.button = l.button /\ m.stage = l.stage
            /\ m.gen = g /\ m.previous = p /\ m.pressed = q
            /\ m.report.binary = b /\ m.report.held = q /\ m.report.n = n
<1> DEFINE m == [l EXCEPT !.gen = g, !.previous = p, !.pressed = q,
                          !.report = [binary |-> b, held |-> q, n |-> n]]
<1>1. /\ m \in Locals /\ m.op = l.op /\ m.button = l.button /\ m.stage = l.stage
      /\ m.gen = g /\ m.previous = p /\ m.pressed = q
      /\ m.report.binary = b /\ m.report.held = q /\ m.report.n = n
  BY ZenonT(40) DEF Locals
<1>2. Report(l, b) = m  BY DEF Report
<1> HIDE DEF m
<1> QED BY <1>1, <1>2

LEMMA StageOf ==
  ASSUME NEW op \in AllOperations \ Transitions
  PROVE  /\ FirstStage[op] \in Stages
         /\ FirstStage[op] = "press" => op \in {"down", "click"}
BY DEF FirstStage

--------------------------------------------------------------------------------
(* The queue.                                                               *)

(* Task t has left its place in the queue, and joined the end of it or not. *)
Requeued(t, joins) ==
  /\ queue' \in Seq(Tasks) /\ Distinct(queue')
  /\ Elems(queue') = (Elems(queue) \ {t}) \cup (IF joins THEN {t} ELSE {})
  /\ \A x, y : Ahead(queue', x, y) =>
       \/ x # t /\ y # t /\ Ahead(queue, x, y)
       \/ joins /\ y = t /\ x # t /\ x \in Elems(queue)
  /\ \A u \in Elems(queue) : u # t /\ Head(queue) = u => Head(queue') = u

LEMMA AheadMembers ==
  ASSUME NEW q, NEW x, NEW y, Ahead(q, x, y)
  PROVE  x \in Elems(q) /\ y \in Elems(q)
BY DEF Ahead, Elems

LEMMA AheadDiffers ==
  ASSUME NEW S, NEW q \in Seq(S), Distinct(q), NEW x, NEW y, Ahead(q, x, y)
  PROVE  x # y
<1>1. PICK i, j \in DOMAIN q : i < j /\ q[i] = x /\ q[j] = y  BY DEF Ahead
<1>2. i \in Nat /\ j \in Nat  OBVIOUS
<1>3. i # j  BY <1>1, <1>2
<1> QED BY <1>1, <1>3 DEF Distinct

LEMMA JoinsQueue ==
  ASSUME Locked, NEW t \in Tasks, t \notin Elems(queue), queue' = Append(queue, t)
  PROVE  Requeued(t, TRUE) /\ (queue = <<>> => Head(queue') = t)
<1>1. queue \in Seq(Tasks) /\ Distinct(queue)  BY DEF Locked
<1>2. /\ Append(queue, t) \in Seq(Tasks) /\ Elems(Append(queue, t)) = Elems(queue) \cup {t}
      /\ Distinct(Append(queue, t))
      /\ Head(Append(queue, t)) = IF queue = <<>> THEN t ELSE Head(queue)
      /\ \A x, y : Ahead(Append(queue, t), x, y) => Ahead(queue, x, y) \/ (x \in Elems(queue) /\ y = t)
  BY <1>1, JoinQueue
<1>3. \A x, y : Ahead(queue, x, y) => x # t /\ y # t
  BY AheadMembers
<1>4. \A u \in Elems(queue) : queue # <<>>  BY EmptyQueue
<1> QED BY <1>2, <1>3, <1>4 DEF Requeued

LEMMA LeavesQueue ==
  ASSUME Locked, NEW t \in Tasks, AtHead(t), queue' = Tail(queue)
  PROVE  /\ Requeued(t, FALSE)
         /\ \A u \in Elems(queue) : u # t => Ahead(queue, t, u)
<1>1. queue \in Seq(Tasks) /\ Distinct(queue) /\ queue # <<>> /\ Head(queue) = t
  BY DEF Locked, AtHead
<1>2. /\ Tail(queue) \in Seq(Tasks) /\ Elems(Tail(queue)) = Elems(queue) \ {t}
      /\ Distinct(Tail(queue))
      /\ \A x, y : Ahead(Tail(queue), x, y) => Ahead(queue, x, y)
      /\ \A y \in Elems(Tail(queue)) : Ahead(queue, t, y)
  BY <1>1, LeaveQueue
<1>3. \A x, y : Ahead(Tail(queue), x, y) => x # t /\ y # t
  BY <1>2, AheadMembers
<1> QED BY <1>1, <1>2, <1>3 DEF Requeued

LEMMA GivesUpQueue ==
  ASSUME Locked, NEW t \in Tasks, queue' = Dequeue(t)
  PROVE  Requeued(t, FALSE)
<1>1. queue \in Seq(Tasks) /\ Distinct(queue)  BY DEF Locked
<1> DEFINE r == RemoveFirst(queue, t)
<1>2. /\ r \in Seq(Tasks) /\ Elems(r) = Elems(queue) \ {t} /\ Distinct(r)
      /\ \A x, y : Ahead(r, x, y) => Ahead(queue, x, y)
      /\ queue # <<>> /\ Head(queue) # t => r # <<>> /\ Head(r) = Head(queue)
  BY <1>1, GiveUpQueue
<1>3. queue' = r  BY DEF Dequeue
<1> HIDE DEF r
<1>4. \A x, y : Ahead(r, x, y) => x # t /\ y # t
  BY <1>2, AheadMembers
<1>5. \A u \in Elems(queue) : queue # <<>>  BY EmptyQueue
<1> QED BY <1>2, <1>3, <1>4, <1>5 DEF Requeued

(* The report failed while it was sent: its task waits again, behind all.   *)
LEMMA WaitsAgain ==
  ASSUME Locked, NEW t \in Tasks, AtHead(t), queue' = Append(Tail(queue), t)
  PROVE  Requeued(t, TRUE)
<1>1. queue \in Seq(Tasks) /\ Distinct(queue) /\ queue # <<>> /\ Head(queue) = t
  BY DEF Locked, AtHead
<1> DEFINE r == Tail(queue)
<1>2. /\ r \in Seq(Tasks) /\ Elems(r) = Elems(queue) \ {t} /\ Distinct(r)
      /\ \A x, y : Ahead(r, x, y) => Ahead(queue, x, y)
  BY <1>1, LeaveQueue
<1> HIDE DEF r
<1>3. /\ Append(r, t) \in Seq(Tasks) /\ Elems(Append(r, t)) = Elems(r) \cup {t}
      /\ Distinct(Append(r, t))
      /\ \A x, y : Ahead(Append(r, t), x, y) => Ahead(r, x, y) \/ (x \in Elems(r) /\ y = t)
  BY <1>2, JoinQueue
<1>4. \A x, y : Ahead(r, x, y) => x # t /\ y # t
  BY <1>2, AheadMembers
<1>5. queue' = Append(r, t)  BY DEF r
<1> QED BY <1>1, <1>2, <1>3, <1>4, <1>5 DEF Requeued
--------------------------------------------------------------------------------
(* One turn of a task.                                                      *)

(* Only the turn that writes a report changes what the host has seen last.  *)
Writes(t) ==
  \/ host'.n = host.n
  \/ pc[t] = "connect" /\ host'.n = loc[t].report.n

Grows == generation' >= generation /\ built' >= built

(* The turn leaves the queue alone, or takes t from it and maybe to its end. *)
Stays(t, l, at) ==
  /\ queue' = queue
  /\ pc[t] \in Queued <=> at \in Queued
  /\ at = "connect" => Head(queue) = t
  /\ at \in Sending => pc[t] \in Sending /\ l.report = loc[t].report

Joins(t, l, at) ==
  /\ Requeued(t, at \in Queued)
  /\ at = "connect" => Head(queue') = t
  /\ at \in Sending => l.report.n > built

LEMMA TurnLocked ==
  ASSUME IInv, NEW t \in Tasks, NEW l \in Locals, NEW at \in PCs, Goto(t, l, at),
         Stays(t, l, at) \/ Joins(t, l, at)
  PROVE  Locked'
<1>1. pc' = [pc EXCEPT ![t] = at] /\ pc \in [Tasks -> PCs]  BY DEF Goto, IInv, Typed
<1>2. CASE Stays(t, l, at)  BY <1>1, <1>2 DEF Stays, IInv, Locked, Elems, Distinct
<1>3. CASE Joins(t, l, at)
  <2>1. queue' \in Seq(Tasks) /\ Distinct(queue')  BY <1>3 DEF Joins, Requeued
  <2>2. Elems(queue') = (Elems(queue) \ {t}) \cup (IF at \in Queued THEN {t} ELSE {})
    BY <1>3 DEF Joins, Requeued
  <2>3. ASSUME NEW u \in Tasks  PROVE u \in Elems(queue') <=> pc'[u] \in Queued
    <3>1. u \in Elems(queue) <=> pc[u] \in Queued  BY DEF IInv, Locked
    <3> QED BY <1>1, <2>2, <3>1
  <2>4. ASSUME NEW u \in Tasks, pc'[u] = "connect"  PROVE Head(queue') = u
    <3>1. CASE u = t  BY <1>1, <1>3, <2>4, <3>1 DEF Joins
    <3>2. CASE u # t
      <4>1. pc[u] = "connect"  BY <1>1, <2>4, <3>2
      <4>2. u \in Elems(queue) /\ Head(queue) = u  BY <4>1 DEF IInv, Locked
      <4> QED BY <1>3, <3>2, <4>2 DEF Joins, Requeued
    <3> QED BY <3>1, <3>2
  <2>5. Distinct(queue)'  BY <2>1 DEF Distinct
  <2>6. \A u \in Tasks : (u \in Elems(queue) <=> pc[u] \in Queued)'  BY <2>3 DEF Elems
  <2> QED BY <2>1, <2>4, <2>5, <2>6 DEF Locked
<1> QED BY <1>2, <1>3

LEMMA TurnOrdered ==
  ASSUME IInv, NEW t \in Tasks, NEW l \in Locals, NEW at \in PCs, Goto(t, l, at),
         Stays(t, l, at) \/ Joins(t, l, at)
  PROVE  Ordered'
<1>1. /\ pc' = [pc EXCEPT ![t] = at] /\ pc \in [Tasks -> PCs] /\ loc \in [Tasks -> Locals]
      /\ loc' = [loc EXCEPT ![t] = IF at \in Ended THEN Idle ELSE l]
  BY DEF Goto, IInv, Typed
<1> SUFFICES ASSUME NEW x \in Tasks, NEW y \in Tasks, pc'[x] \in Sending, pc'[y] \in Sending,
                    Ahead(queue', x, y)
             PROVE  loc'[x].report.n < loc'[y].report.n
  BY DEF Ordered, Ahead
<1>2. CASE Stays(t, l, at)
  <2>1. \A u \in Tasks : pc'[u] \in Sending => pc[u] \in Sending /\ loc'[u].report = loc[u].report
    BY <1>1, <1>2 DEF Stays, Sending
  <2>2. Ahead(queue, x, y)  BY <1>2 DEF Stays
  <2> QED BY <2>1, <2>2 DEF IInv, Ordered
<1>3. CASE Joins(t, l, at)
  <2>1. \/ x # t /\ y # t /\ Ahead(queue, x, y)
        \/ at \in Queued /\ y = t /\ x # t /\ x \in Elems(queue)
    BY <1>3 DEF Joins, Requeued
  <2>2. CASE x # t /\ y # t /\ Ahead(queue, x, y)
    BY <1>1, <2>2 DEF IInv, Ordered
  <2>3. CASE y = t /\ x # t
    <3>1. pc[x] \in Sending /\ loc'[x] = loc[x]  BY <1>1, <2>3
    <3>2. loc[x].report.n <= built /\ built \in Nat /\ loc[x].report.n \in Nat
      BY <3>1 DEF IInv, Placed, Typed, Values, Locals
    <3>3. at \in Sending /\ loc'[y] = l  BY <1>1, <2>3 DEF Sending
    <3>4. l.report.n > built /\ l.report.n \in Nat  BY <1>3, <3>3 DEF Joins, Locals
    <3> QED BY <3>1, <3>2, <3>3, <3>4
  <2> QED BY <2>1, <2>2, <2>3
<1> QED BY <1>2, <1>3

(* The head of the queue is ahead of every other member.                    *)
LEMMA HeadIsAhead ==
  ASSUME Locked, NEW t \in Tasks, pc[t] = "connect", NEW u \in Tasks, u # t, pc[u] \in Queued
  PROVE  Ahead(queue, t, u)
<1>1. queue \in Seq(Tasks) /\ Distinct(queue) /\ Head(queue) = t  BY DEF Locked
<1>2. u \in Elems(queue)  BY DEF Locked
<1>3. queue # <<>>  BY <1>2, EmptyQueue
<1>4. /\ Elems(Tail(queue)) = Elems(queue) \ {t}
      /\ \A y \in Elems(Tail(queue)) : Ahead(queue, t, y)
  BY <1>1, <1>3, LeaveQueue
<1> QED BY <1>2, <1>4

LEMMA TurnKept ==
  ASSUME IInv, NEW t \in Tasks, NEW l \in Locals, NEW at \in PCs, Goto(t, l, at),
         Stays(t, l, at) \/ Joins(t, l, at),
         Values', Grows, Writes(t), at \notin Ended => Placed(l, at)'
  PROVE  IInv'
<1>1. /\ pc' = [pc EXCEPT ![t] = at] /\ pc \in [Tasks -> PCs] /\ loc \in [Tasks -> Locals]
      /\ loc' = [loc EXCEPT ![t] = IF at \in Ended THEN Idle ELSE l]
      /\ generation \in Nat /\ generation' \in Nat /\ built \in Nat /\ built' \in Nat
  BY DEF Goto, IInv, Typed, Values
<1>2. Idle \in Locals  BY IdleType
<1>3. Typed'  BY <1>1, <1>2 DEF Typed
<1>4. Locked'  BY TurnLocked
<1>5. Ordered'  BY TurnOrdered
<1>6. ASSUME NEW u \in Tasks, NEW k \in Locals, NEW a \in PCs, k = loc'[u], a = pc'[u]
      PROVE  Placed(k, a)'
  <2>1. CASE u = t /\ at \notin Ended
    <3>1. k = l /\ a = at  BY <1>1, <1>6, <2>1
    <3> QED BY <2>1, <3>1
  <2>2. CASE u = t /\ at \in Ended
    <3>1. k = Idle /\ a = at  BY <1>1, <1>6, <2>2
    <3>2. generation' >= 0 /\ built' >= 0  BY <1>1
    <3> QED BY <2>2, <3>1, <3>2, IdleType DEF Placed, Sending
  <2>3. CASE u # t
    <3>1. k = loc[u] /\ a = pc[u] /\ Placed(loc[u], pc[u])  BY <1>1, <1>6, <2>3 DEF IInv
    <3>2. loc[u].gen \in Nat /\ loc[u].report.n \in Nat  BY <1>1 DEF Locals
    <3>3. loc[u].gen <= generation'  BY <1>1, <3>1, <3>2 DEF Placed, Grows
    <3>5. loc[u].report.n <= built'  BY <1>1, <3>1, <3>2 DEF Placed, Grows
    <3>4. ASSUME pc[u] \in Sending  PROVE host'.n < loc[u].report.n
      <4>1. host.n < loc[u].report.n  BY <3>1, <3>4 DEF Placed
      <4>2. loc[u].report.n <= built'  BY <3>5
      <4>3. CASE host'.n = host.n  BY <4>1, <4>2, <4>3
      <4>4. CASE pc[t] = "connect" /\ host'.n = loc[t].report.n
        <5>1. Ahead(queue, t, u)  BY <2>3, <3>4, <4>4, HeadIsAhead DEF IInv, Sending
        <5>2. pc[t] \in Sending  BY <4>4 DEF Sending
        <5>3. loc[t].report.n < loc[u].report.n  BY <3>4, <5>1, <5>2 DEF IInv, Ordered
        <5> QED BY <4>2, <4>4, <5>3
      <4> QED BY <4>3, <4>4 DEF Writes
    <3> QED BY <3>1, <3>3, <3>4, <3>5 DEF Placed
  <2> QED BY <2>1, <2>2, <2>3
<1>7. \A u \in Tasks : Placed(loc[u], pc[u])'  BY <1>3, <1>6 DEF Placed, Typed
<1> QED BY <1>3, <1>4, <1>5, <1>7 DEF IInv
--------------------------------------------------------------------------------
(* The parts that turns are made of keep the invariant.                     *)

(* What the locals of a task that goes on with a step hold.                 *)
Ready(l) ==
  /\ l.op \in Presses => l.button \in Buttons
  /\ l.stage = "press" => l.op \in Presses
  /\ l.gen <= generation /\ l.report.n <= built

Aside ==
  /\ UNCHANGED <<auth, host>>
  /\ known' \in BOOLEAN /\ started' \in Nat /\ cancelled' \in Nat /\ forgets' \in Nat

LEMMA PlacedIsReady ==
  ASSUME NEW l, NEW at, Placed(l, at)
  PROVE  Ready(l)
BY DEF Placed, Ready

(* What the turns do to the held buttons leaves the history sound.          *)
LEMMA SameNoted ==
  ASSUME Noted, built \in Nat, built' \in Nat, built' >= built, UNCHANGED state
  PROVE  Noted'
<1>1. UNCHANGED <<buttons, since, held, clicked, kept, unreleased>>  BY DEF state, history
<1>2. \A b \in Buttons : since[b] \in Nat /\ held[b] \in Nat  BY DEF Noted
<1> QED BY <1>1, <1>2 DEF Noted

LEMMA ReleaseNoted ==
  ASSUME Release, built' \in Nat
  PROVE  Noted'
BY DEF Release, Noted

LEMMA SetButtonsNoted ==
  ASSUME Values, NEW l \in Locals, Ready(l), NEW binary \in BOOLEAN, SetButtons(l, binary),
         built' = built + 1
  PROVE  Noted'
<1>0. Noted /\ built \in Nat /\ built' \in Nat  BY DEF Values
<1>1. CASE l.stage = "press" /\ binary
  <2>1. /\ buttons' = buttons \cup {l.button} /\ l.button \in Buttons
        /\ since' = [b \in Buttons |-> IF b \in buttons' \ buttons THEN built + 1 ELSE since[b]]
        /\ clicked' \subseteq clicked \cup {l.button}
        /\ UNCHANGED <<held, kept, unreleased>>
    BY <1>1 DEF SetButtons, Ready
  <2>2. \A b \in Buttons : since[b] \in Nat /\ held[b] \in Nat  BY <1>0 DEF Noted
  <2>3. since' \in [Buttons -> Nat]  BY <1>0, <2>1, <2>2
  <2>4. ASSUME NEW b \in Buttons
        PROVE  /\ since'[b] <= built' /\ held'[b] <= built'
               /\ since'[b] # 0 <=> b \in buttons'
               /\ held'[b] # 0 => since'[b] # 0 /\ since'[b] <= held'[b]
    <3>1. /\ since[b] <= built /\ held[b] <= built /\ (since[b] # 0 <=> b \in buttons)
          /\ held[b] # 0 => since[b] # 0 /\ since[b] <= held[b]
      BY <1>0 DEF Noted
    <3>2. since'[b] = (IF b \in buttons' \ buttons THEN built + 1 ELSE since[b]) /\ held'[b] = held[b]
      BY <2>1
    <3>3. buttons \subseteq buttons'  BY <2>1
    <3> QED BY <1>0, <2>2, <3>1, <3>2, <3>3
  <2>5. /\ buttons' \subseteq Buttons /\ clicked' \subseteq buttons' /\ kept' \subseteq buttons'
        /\ unreleased' \subseteq buttons' /\ held' \in [Buttons -> Nat]
    BY <1>0, <2>1 DEF Noted
  <2> QED BY <2>3, <2>4, <2>5 DEF Noted
<1>2. CASE l.stage = "up" /\ binary
  BY <1>0, <1>2, ReleaseNoted DEF SetButtons
<1>3. CASE ~(l.stage = "press" /\ binary) /\ ~(l.stage = "up" /\ binary)
  BY <1>0, <1>3, SameNoted DEF SetButtons
<1> QED BY <1>1, <1>2, <1>3

(* A button that a failed press took back is forgotten.                     *)
LEMMA FailNoted ==
  ASSUME IInv, NEW t \in Tasks, pc[t] \in Unsure, Fail(t, loc[t])
  PROVE  Noted' /\ buttons' \subseteq buttons
<1> DEFINE l == loc[t]
<1>1. Noted /\ built \in Nat /\ (l.stage = "press" => l.previous \subseteq l.pressed)
  BY DEF IInv, Typed, Values, Placed
<1>2. /\ built' = built
      /\ buttons' = IF l.stage = "press" /\ MayUndo(l) THEN l.previous ELSE buttons
      /\ since' = [b \in Buttons |-> IF b \in buttons' THEN since[b] ELSE 0]
      /\ held' = [b \in Buttons |-> IF b \in buttons' THEN held[b] ELSE 0]
      /\ clicked' \subseteq buttons' /\ unreleased' \subseteq buttons' /\ kept' \subseteq buttons'
  BY DEF Fail, Undo
<1>3. buttons' \subseteq buttons  BY <1>1, <1>2 DEF MayUndo
<1> HIDE DEF l
<1>4. \A b \in Buttons : since[b] \in Nat /\ held[b] \in Nat  BY <1>1 DEF Noted
<1>5. since' \in [Buttons -> Nat] /\ held' \in [Buttons -> Nat]  BY <1>2, <1>4
<1>6. ASSUME NEW b \in Buttons
      PROVE  /\ since'[b] <= built' /\ held'[b] <= built'
             /\ since'[b] # 0 <=> b \in buttons'
             /\ held'[b] # 0 => since'[b] # 0 /\ since'[b] <= held'[b]
  <2>1. /\ since[b] <= built /\ held[b] <= built /\ (since[b] # 0 <=> b \in buttons)
        /\ held[b] # 0 => since[b] # 0 /\ since[b] <= held[b]
    BY <1>1 DEF Noted
  <2>2. /\ since'[b] = IF b \in buttons' THEN since[b] ELSE 0
        /\ held'[b] = IF b \in buttons' THEN held[b] ELSE 0
    BY <1>2
  <2> QED BY <1>1, <1>2, <1>3, <1>4, <2>1, <2>2
<1> QED BY <1>1, <1>2, <1>3, <1>5, <1>6 DEF Noted

LEMMA FailBeforeBuildNoted ==
  ASSUME Values, NEW t, FailBeforeBuild(t, loc[t])
  PROVE  Noted'
BY DEF FailBeforeBuild, Values, Noted

LEMMA NextStepNoted ==
  ASSUME IInv, NEW t \in Tasks, NextStep(t, loc[t])
  PROVE  Noted'
<1> DEFINE l == loc[t]
<1>1. /\ Noted /\ built \in Nat /\ l.report.n \in Nat /\ l.report.n <= built
  BY DEF IInv, Typed, Values, Placed, Locals
<1>2. /\ UNCHANGED <<buttons, since, clicked, kept, unreleased, built>>
      /\ held' = [b \in Buttons |->
           IF l.stage = "press" /\ l.report.binary /\ b = l.button /\ since[b] \in 1..l.report.n
           THEN l.report.n ELSE held[b]]
  BY DEF NextStep
<1> HIDE DEF l
<1>3. \A b \in Buttons : since[b] \in Nat /\ held[b] \in Nat  BY <1>1 DEF Noted
<1>4. held' \in [Buttons -> Nat]  BY <1>1, <1>2, <1>3
<1>5. ASSUME NEW b \in Buttons
      PROVE  /\ since'[b] <= built' /\ held'[b] <= built'
             /\ since'[b] # 0 <=> b \in buttons'
             /\ held'[b] # 0 => since'[b] # 0 /\ since'[b] <= held'[b]
  <2>1. /\ since[b] <= built /\ held[b] <= built /\ (since[b] # 0 <=> b \in buttons)
        /\ held[b] # 0 => since[b] # 0 /\ since[b] <= held[b]
    BY <1>1 DEF Noted
  <2>2. held'[b] = held[b] \/ (since[b] \in 1..l.report.n /\ held'[b] = l.report.n)
    BY <1>2
  <2> QED BY <1>1, <1>2, <1>3, <2>1, <2>2
<1> QED BY <1>1, <1>2, <1>4, <1>5 DEF Noted

LEMMA ReportType ==
  ASSUME Values, NEW l \in Locals, NEW binary \in BOOLEAN, buttons' \subseteq Buttons
  PROVE  LET m == Report(l, binary)
         IN /\ m \in Locals /\ m.op = l.op /\ m.button = l.button /\ m.stage = l.stage
            /\ m.gen = generation /\ m.previous = buttons /\ m.pressed = buttons'
            /\ m.report.binary = binary /\ m.report.held = buttons'
            /\ m.report.n = built + 1
<1>1. /\ generation \in Nat /\ buttons \in SUBSET Buttons /\ buttons' \in SUBSET Buttons
      /\ built + 1 \in Nat
  BY DEF Values, Noted
<1>2. PICK g \in Nat, p \in SUBSET Buttons, q \in SUBSET Buttons, n \in Nat :
        g = generation /\ p = buttons /\ q = buttons' /\ n = built + 1
  BY <1>1
<1> DEFINE m == Report(l, binary)
<1>3. /\ m \in Locals /\ m.op = l.op /\ m.button = l.button /\ m.stage = l.stage
      /\ m.gen = g /\ m.previous = p /\ m.pressed = q
      /\ m.report.binary = binary /\ m.report.held = q /\ m.report.n = n
  BY <1>2, ReportSet
<1> HIDE DEF m
<1>4. /\ m \in Locals /\ m.op = l.op /\ m.button = l.button /\ m.stage = l.stage
      /\ m.gen = generation /\ m.previous = buttons /\ m.pressed = buttons'
      /\ m.report.binary = binary /\ m.report.held = buttons' /\ m.report.n = built + 1
  BY <1>2, <1>3
<1> QED BY <1>4 DEF m

LEMMA BuildKept ==
  ASSUME IInv, NEW t \in Tasks, NEW l \in Locals, Ready(l), NEW binary \in BOOLEAN,
         pc[t] \notin Queued, Build(t, l, binary), Aside
  PROVE  IInv'
<1>1. Values  BY DEF IInv, Typed
<1>2. CASE /\ SetButtons(l, binary) /\ built' = built + 1 /\ queue' = Enqueue(t)
           /\ Goto(t, Report(l, binary), IF queue = <<>> THEN "connect" ELSE "getws")
  <2>1. Noted' /\ buttons' \subseteq Buttons /\ (l.stage = "press" => buttons \subseteq buttons')
    <3>1. Noted'  BY <1>1, <1>2, SetButtonsNoted
    <3>2. l.stage = "press" => buttons \subseteq buttons'
      BY <1>2 DEF SetButtons, state
    <3> QED BY <3>1, <3>2 DEF Noted
  <2> DEFINE at == IF queue = <<>> THEN "connect" ELSE "getws"
  <2>2. PICK m \in Locals :
        /\ m = Report(l, binary) /\ m.op = l.op /\ m.button = l.button /\ m.stage = l.stage
        /\ m.gen = generation /\ m.report.n = built + 1
        /\ m.previous = buttons /\ m.pressed = buttons'
    BY <1>1, <2>1, ReportType
  <2>3. at \in PCs /\ at \in Sending /\ at \in Queued  BY DEF Sending
  <2>4. Goto(t, m, at)  BY <1>2, <2>2
  <2>5. t \notin Elems(queue)  BY DEF IInv, Locked
  <2>6. Requeued(t, TRUE) /\ (queue = <<>> => Head(queue') = t)
    BY <1>2, <2>5, JoinsQueue DEF IInv, Enqueue
  <2>7. Values' /\ Grows /\ Writes(t)
    BY <1>1, <1>2, <2>1 DEF Values, Grows, Writes, Aside, auth
  <2>8. Joins(t, m, at)
    <3>1. (at \in Queued) = TRUE  BY <2>3
    <3>2. at = "connect" => Head(queue') = t  BY <2>6
    <3>3. m.report.n > built  BY <1>1, <2>2 DEF Values
    <3> HIDE DEF at
    <3> QED BY <2>6, <3>1, <3>2, <3>3 DEF Joins, Requeued
  <2>9. host.n < m.report.n /\ m.report.n <= built' /\ host' = host /\ generation' = generation
    BY <1>1, <1>2, <2>2 DEF Values, Aside, auth
  <2>10. m.gen <= generation  BY <1>1, <2>2 DEF Values
  <2>11. ASSUME NEW a \in Sending  PROVE Placed(m, a)'
    BY <2>1, <2>2, <2>9, <2>10 DEF Placed, Ready, Sending, Unsure
  <2>12. \A a \in Sending : a = at /\ Goto(t, m, a) /\ Joins(t, m, a) => IInv'
    BY <2>7, <2>11, TurnKept DEF Sending
  <2> HIDE DEF at
  <2> QED BY <2>3, <2>4, <2>8, <2>12
<1>3. CASE /\ IF l.stage = "up" THEN SetButtons(l, binary) ELSE UNCHANGED state
           /\ built' = built + 1 /\ Goto(t, l, "failed") /\ UNCHANGED queue
  <2>1. Noted'
    <3>0. Noted /\ built \in Nat  BY <1>1 DEF Values
    <3>1. CASE l.stage = "up"  BY <1>1, <1>3, <3>1, SetButtonsNoted
    <3>2. CASE l.stage # "up"  BY <1>3, <3>0, <3>2, SameNoted
    <3> QED BY <3>1, <3>2
  <2>2. Values' /\ Grows /\ Writes(t)
    BY <1>1, <1>3, <2>1 DEF Values, Grows, Writes, Aside, auth
  <2>3. Stays(t, l, "failed")
    BY <1>3 DEF Stays, Sending
  <2> QED BY <1>3, <2>2, <2>3, TurnKept
<1> QED BY <1>2, <1>3 DEF Build

LEMMA StepKept ==
  ASSUME IInv, NEW t \in Tasks, NEW l \in Locals, Ready(l),
         pc[t] \notin Queued, Step(t, l), Aside
  PROVE  IInv'
<1>1. Values  BY DEF IInv, Typed
<1>2. CASE Goto(t, [l EXCEPT !.gen = generation], "detect") /\ UNCHANGED <<state, built, queue>>
  <2> DEFINE k == [l EXCEPT !.gen = generation]
  <2>0. /\ k \in Locals /\ k.op = l.op /\ k.button = l.button /\ k.stage = l.stage
        /\ k.gen = generation /\ k.report.n = l.report.n
    BY <1>1, GenSet DEF Values, SameReport
  <2> HIDE DEF k
  <2>1. PICK m \in Locals :
        /\ m = k /\ m.op = l.op /\ m.button = l.button
        /\ m.stage = l.stage /\ m.gen = generation /\ m.report.n = l.report.n
    BY <2>0
  <2>2. Goto(t, m, "detect")  BY <1>2, <2>1 DEF k
  <2>7. Noted'  BY <1>1, <1>2, SameNoted DEF Values
  <2>3. Values' /\ Grows /\ Writes(t) /\ generation' = generation /\ built' = built
    BY <1>1, <1>2, <2>7 DEF Values, Grows, Writes, Aside, auth, state
  <2>4. Stays(t, m, "detect")  BY <1>2 DEF Stays, Sending
  <2>5. m.gen <= generation'  BY <1>1, <2>1, <2>3 DEF Values
  <2>6. Placed(m, "detect")'  BY <2>1, <2>3, <2>5 DEF Placed, Ready, Sending, Unsure
  <2> QED BY <2>1, <2>2, <2>3, <2>4, <2>6, TurnKept
<1>3. CASE Build(t, l, Binary \/ ~known)
  <2>1. (Binary \/ ~known) \in BOOLEAN  OBVIOUS
  <2> QED BY <1>3, <2>1, BuildKept
<1> QED BY <1>2, <1>3 DEF Step

LEMMA FailKept ==
  ASSUME IInv, NEW t \in Tasks,
         (Fail(t, loc[t]) /\ pc[t] \in Unsure) \/ FailBeforeBuild(t, loc[t]),
         Requeued(t, FALSE) \/ (pc[t] \notin Queued /\ queue' = queue), Aside
  PROVE  IInv'
<1>1. Values /\ loc[t] \in Locals  BY DEF IInv, Typed
<1>2. Noted'  BY <1>1, FailNoted, FailBeforeBuildNoted
<1>3. Goto(t, loc[t], "failed") /\ UNCHANGED built
  BY DEF Fail, FailBeforeBuild
<1>4. Values' /\ Grows /\ Writes(t)
  BY <1>1, <1>2, <1>3 DEF Values, Grows, Writes, Aside, auth
<1>5. Stays(t, loc[t], "failed") \/ Joins(t, loc[t], "failed")
  BY DEF Stays, Joins, Sending, Requeued
<1> QED BY <1>1, <1>3, <1>4, <1>5, TurnKept

(* The session is cleared.                                                  *)
LEMMA ClearedKept ==
  ASSUME IInv, NEW t \in Tasks, NEW m \in Locals, NEW at \in {"ok", "failed", "login"},
         Goto(t, m, at), ClearSession,
         Requeued(t, FALSE) \/ (pc[t] \notin Queued /\ queue' = queue),
         UNCHANGED <<host, built>>, started' \in Nat, UNCHANGED <<cancelled, forgets>>,
         at = "login" => Placed(m, at)'
  PROVE  IInv'
<1>1. Values  BY DEF IInv, Typed
<1>2. generation' = generation + 1 /\ token' = FALSE /\ known' = FALSE /\ Release
  BY DEF ClearSession
<1>3. Values' /\ Grows /\ Writes(t)
  <2>1. /\ generation \in Nat /\ built \in Nat /\ cancelled \in Nat /\ forgets \in Nat
        /\ host \in [buttons : SUBSET Buttons, pressed : SUBSET Buttons, key : BOOLEAN, n : Nat]
        /\ host.n <= built
    BY <1>1 DEF Values
  <2>2. generation' \in Nat  BY <1>2, <2>1
  <2>3. token' \in BOOLEAN /\ known' \in BOOLEAN  BY <1>2, Zenon
  <2>4. host' = host /\ built' = built /\ cancelled' = cancelled /\ forgets' = forgets
    OBVIOUS
  <2>5. generation' >= generation /\ built' >= built  BY <1>2, <2>1, <2>4
  <2>6. Noted'  BY <1>2, <2>1, <2>4, ReleaseNoted
  <2> QED BY <2>1, <2>2, <2>3, <2>4, <2>5, <2>6 DEF Values, Grows, Writes
<1>4. Stays(t, m, at) \/ Joins(t, m, at)  BY DEF Stays, Joins, Requeued, Sending
<1> QED BY <1>3, <1>4, TurnKept

(* The task that connects holds the lock.                                   *)
LEMMA Connects ==
  ASSUME IInv, NEW t \in Tasks, pc[t] = "connect"
  PROVE  AtHead(t)
<1>1. t \in Elems(queue) /\ Head(queue) = t  BY DEF IInv, Locked
<1> QED BY <1>1, EmptyQueue DEF AtHead

(* Where a step that returned goes on.                                      *)
LEMMA StepReturns ==
  ASSUME NEW t \in Tasks, NEW l \in Locals, NextStep(t, l)
  PROVE  \/ Goto(t, l, "pause") /\ l.op = "click_at" /\ l.stage = "move"
         \/ Goto(t, l, "hold") /\ l.op \in Clicks /\ l.stage = "press"
         \/ Goto(t, l, "hold") /\ l.op = "key_tap" /\ l.stage = "key_press"
         \/ /\ Goto(t, l, l.then) /\ l.then \in Ended
            /\ ~(l.op \in Clicks /\ l.stage = "press")
<1>1. l.then \in Ended  BY DEF Locals
<1>2. CASE l.op = "click_at" /\ l.stage = "move"  BY <1>2 DEF NextStep
<1>3. CASE l.stage = "press" /\ l.op \in Clicks  BY <1>3 DEF NextStep
<1>4. CASE l.stage = "key_press" /\ l.op = "key_tap"  BY <1>4 DEF NextStep
<1>5. CASE /\ ~(l.op = "click_at" /\ l.stage = "move") /\ ~(l.stage = "press" /\ l.op \in Clicks)
           /\ ~(l.stage = "key_press" /\ l.op = "key_tap")
  BY <1>1, <1>5 DEF NextStep
<1> QED BY <1>2, <1>3, <1>4, <1>5

LEMMA NextStepKept ==
  ASSUME IInv, NEW t \in Tasks, NextStep(t, loc[t]),
         Requeued(t, FALSE) \/ (pc[t] \notin Queued /\ queue' = queue),
         UNCHANGED <<auth, known, bounds>>, host' \in [buttons : SUBSET Buttons, pressed : SUBSET Buttons, key : BOOLEAN, n : Nat],
         Writes(t), host'.n <= built
  PROVE  IInv'
<1> DEFINE l == loc[t]
<1>1. Values /\ l \in Locals /\ Placed(l, pc[t])  BY DEF IInv, Typed
<1>2. UNCHANGED built  BY DEF NextStep
<1>3. Noted'  BY NextStepNoted
<1>4. Values' /\ Grows
  BY <1>1, <1>2, <1>3 DEF Values, Grows, auth, bounds
<1>5. ASSUME NEW at \in PCs \ Queued, at \notin Ended => at \in {"pause", "hold"}
      PROVE  Stays(t, l, at) \/ Joins(t, l, at)
  BY <1>5 DEF Stays, Joins, Requeued, Sending
<1>6. \/ Goto(t, l, "pause") /\ l.op = "click_at" /\ l.stage = "move"
      \/ Goto(t, l, "hold") /\ l.op \in Clicks /\ l.stage = "press"
      \/ Goto(t, l, "hold") /\ l.op = "key_tap" /\ l.stage = "key_press"
      \/ Goto(t, l, l.then) /\ l.then \in Ended
  BY <1>1, StepReturns
<1>7. ASSUME NEW m \in Locals, m = l, NEW at \in {"pause", "hold"}, Placed(m, pc[t]),
             at = "pause" => m.op = "click_at" /\ m.stage = "move",
             at = "hold" => (m.op \in Clicks /\ m.stage = "press") \/ m.op = "key_tap"
      PROVE  Placed(m, at)'
  BY <1>1, <1>2, <1>7 DEF Placed, Sending, Unsure, auth
<1> HIDE DEF l
<1>8. CASE Goto(t, l, l.then) /\ l.then \in Ended
  BY <1>1, <1>4, <1>5, <1>8, TurnKept
<1>9. ASSUME NEW at \in {"pause", "hold"}, Goto(t, l, at),
             at = "pause" => l.op = "click_at" /\ l.stage = "move",
             at = "hold" => (l.op \in Clicks /\ l.stage = "press") \/ l.op = "key_tap"
      PROVE  IInv'
  <2>1. Stays(t, l, at) \/ Joins(t, l, at)  BY <1>5
  <2>2. PICK m \in Locals : m = l  BY <1>1
  <2>3. Placed(m, at)'  BY <1>1, <1>7, <1>9, <2>2
  <2>4. Goto(t, m, at) /\ (Stays(t, m, at) \/ Joins(t, m, at))  BY <1>9, <2>1, <2>2
  <2> QED BY <1>4, <2>3, <2>4, TurnKept
<1> QED BY <1>6, <1>8, <1>9

(* A task that stays with its locals where no report of it waits.           *)
LEMMA WaitKept ==
  ASSUME IInv, NEW t \in Tasks, NEW at \in {"connect", "drain", "invalidate"},
         Goto(t, loc[t], at), Stays(t, loc[t], at) \/ Joins(t, loc[t], at),
         pc[t] \in Unsure, at = "connect" => pc[t] \in Sending /\ host' = host,
         UNCHANGED <<auth, known, state, built, bounds>>,
         host' \in [buttons : SUBSET Buttons, pressed : SUBSET Buttons, key : BOOLEAN, n : Nat],
         Writes(t), host'.n <= built
  PROVE  IInv'
<1>1. Values /\ loc[t] \in Locals /\ Placed(loc[t], pc[t])  BY DEF IInv, Typed
<1>7. Noted'  BY <1>1, SameNoted DEF Values
<1>2. Values' /\ Grows
  BY <1>1, <1>7 DEF Values, Grows, auth, bounds, state
<1>3. PICK m \in Locals : m = loc[t]  BY <1>1
<1>4. Placed(m, pc[t])  BY <1>1, <1>3
<1>5. Placed(m, at)'  BY <1>4 DEF Placed, Sending, Unsure, auth
<1>6. Goto(t, m, at) /\ (Stays(t, m, at) \/ Joins(t, m, at))  BY <1>3
<1> QED BY <1>2, <1>5, <1>6, TurnKept

LEMMA DeliverType ==
  ASSUME IInv, NEW t \in Tasks, pc[t] = "connect", Deliver(loc[t])
  PROVE  /\ host' \in [buttons : SUBSET Buttons, pressed : SUBSET Buttons, key : BOOLEAN, n : Nat]
         /\ host'.n = loc[t].report.n /\ host.n < host'.n /\ host'.n <= built
<1> DEFINE l == loc[t]
<1>1. /\ l \in Locals /\ (l.stage = "press" => l.button \in Buttons)
      /\ host.n < l.report.n /\ l.report.n <= built
  BY DEF IInv, Typed, Placed, Sending
<1>2. host \in [buttons : SUBSET Buttons, pressed : SUBSET Buttons, key : BOOLEAN, n : Nat]
  BY DEF IInv, Typed, Values
<1>3. l.report.held \subseteq Buttons /\ l.report.n \in Nat /\ l.report.binary \in BOOLEAN
  BY <1>1 DEF Locals
<1> HIDE DEF l
<1>4. Deliver(l)  BY DEF l
<1>5. /\ host' \in [buttons : SUBSET Buttons, pressed : SUBSET Buttons, key : BOOLEAN, n : Nat]
      /\ host'.n = l.report.n
  <2>1. CASE l.stage \in {"key_press", "key_up"}
    <3> DEFINE k == (l.stage = "key_press")
               n == l.report.n
               m == [host EXCEPT !.key = k]
    <3>1. k \in BOOLEAN /\ n \in Nat /\ l.report.n = n  BY <1>3
    <3>2. host' = [m EXCEPT !.n = n]  BY <1>4, <2>1 DEF Deliver
    <3> HIDE DEF k, n
    <3>3. m \in [buttons : SUBSET Buttons, pressed : SUBSET Buttons, key : BOOLEAN, n : Nat]
      BY <1>2, <3>1
    <3> HIDE DEF m
    <3> QED BY <3>1, <3>2, <3>3
  <2>2. CASE l.stage \notin {"key_press", "key_up"}
    <3> DEFINE a == CASE l.report.binary -> l.report.held
                      [] ~l.report.binary /\ l.stage = "press" -> host.buttons \cup {l.button}
                      [] ~l.report.binary /\ l.stage = "up" -> {}
                      [] OTHER -> host.buttons
               c == CASE l.stage = "press" -> host.pressed \cup {l.button}
                      [] l.stage = "up" -> {}
                      [] OTHER -> host.pressed
    <3>1. a \subseteq Buttons
      <4>1. CASE l.report.binary  BY <1>3, <4>1
      <4>2. CASE ~l.report.binary /\ l.stage = "press"  BY <1>1, <1>2, <4>2
      <4>3. CASE ~l.report.binary /\ l.stage = "up"  BY <4>3
      <4>4. CASE ~l.report.binary /\ l.stage \notin {"press", "up"}  BY <1>2, <4>4
      <4> QED BY <1>3, <4>1, <4>2, <4>3, <4>4
    <3>2. c \subseteq Buttons  BY <1>1, <1>2
    <3>3. host' = [buttons |-> a, pressed |-> c, key |-> host.key, n |-> l.report.n]
      BY <1>4, <2>2 DEF Deliver
    <3> HIDE DEF a, c
    <3> QED BY <1>2, <1>3, <3>1, <3>2, <3>3
  <2> QED BY <2>1, <2>2
<1> QED BY <1>1, <1>5 DEF l

LEMMA SentKept ==
  ASSUME IInv, NEW t \in Tasks, Sent(t)
  PROVE  IInv'
<1>1. pc[t] = "connect" /\ queue' = Tail(queue) /\ Deliver(loc[t]) /\ UNCHANGED <<auth, known, bounds>>
  BY DEF Sent
<1>2. /\ host' \in [buttons : SUBSET Buttons, pressed : SUBSET Buttons, key : BOOLEAN, n : Nat]
      /\ Writes(t) /\ host'.n <= built
  BY <1>1, DeliverType DEF Writes
<1>3. Requeued(t, FALSE)  BY <1>1, Connects, LeavesQueue DEF IInv
<1>4. CASE NextStep(t, loc[t])  BY <1>1, <1>2, <1>3, <1>4, NextStepKept
<1>5. CASE Goto(t, loc[t], "drain") /\ UNCHANGED <<state, built>>
  <2>1. Joins(t, loc[t], "drain")  BY <1>3 DEF Joins, Requeued, Sending
  <2> QED BY <1>1, <1>2, <1>5, <2>1, WaitKept DEF Unsure, Sending
<1> QED BY <1>4, <1>5 DEF Sent

LEMMA SendFailsKept ==
  ASSUME IInv, NEW t \in Tasks, SendFails(t)
  PROVE  IInv'
<1>1. Goto(t, loc[t], "invalidate") /\ UNCHANGED <<auth, known, state, host, built, bounds>>
  BY DEF SendFails
<1>2. Requeued(t, TRUE)
  <2>1. CASE pc[t] = "connect" /\ queue' = Append(Tail(queue), t)
    BY <2>1, Connects, WaitsAgain DEF IInv
  <2>2. CASE pc[t] = "drain" /\ queue' = Append(queue, t)
    <3>1. t \notin Elems(queue)  BY <2>2 DEF IInv, Locked
    <3> QED BY <2>2, <3>1, JoinsQueue DEF IInv
  <2> QED BY <2>1, <2>2 DEF SendFails
<1>3. Joins(t, loc[t], "invalidate")  BY <1>2 DEF Joins, Requeued, Sending
<1>4. /\ host' \in [buttons : SUBSET Buttons, pressed : SUBSET Buttons, key : BOOLEAN, n : Nat]
      /\ Writes(t) /\ host'.n <= built
  BY <1>1 DEF IInv, Typed, Values, Writes
<1>5. pc[t] \in Unsure  BY DEF SendFails, Unsure, Sending
<1> QED BY <1>1, <1>3, <1>4, <1>5, WaitKept

LEMMA GetWsEnterKept ==
  ASSUME IInv, NEW t \in Tasks, GetWsEnter(t)
  PROVE  IInv'
<1>1. pc[t] = "getws" /\ AtHead(t) /\ UNCHANGED <<auth, known, host, bounds>>
  BY DEF GetWsEnter
<1>2. CASE Goto(t, loc[t], "connect") /\ UNCHANGED <<state, built, queue>>
  <2>1. Stays(t, loc[t], "connect")  BY <1>1, <1>2 DEF Stays, Sending, AtHead
  <2>2. /\ host' \in [buttons : SUBSET Buttons, pressed : SUBSET Buttons, key : BOOLEAN, n : Nat]
        /\ Writes(t) /\ host'.n <= built /\ pc[t] \in Sending /\ pc[t] \in Unsure
    BY <1>1 DEF IInv, Typed, Values, Writes, Sending, Unsure
  <2> QED BY <1>1, <1>2, <2>1, <2>2, WaitKept
<1>3. CASE queue' = Tail(queue) /\ Fail(t, loc[t])
  <2>1. Requeued(t, FALSE)  BY <1>1, <1>3, LeavesQueue DEF IInv
  <2>2. Aside  BY <1>1 DEF Aside, IInv, Typed, Values, bounds
  <2>3. pc[t] \in Unsure  BY <1>1 DEF Unsure, Sending
  <2> QED BY <1>3, <2>1, <2>2, <2>3, FailKept
<1> QED BY <1>2, <1>3 DEF GetWsEnter

LEMMA SendEndsKept ==
  ASSUME IInv, NEW t \in Tasks, NoConnection(t) \/ Invalidated(t)
  PROVE  IInv'
<1>1. AtHead(t) /\ queue' = Tail(queue) /\ Fail(t, loc[t]) /\ UNCHANGED <<auth, known, host, bounds>>
  BY Connects DEF NoConnection, Invalidated
<1>2. Requeued(t, FALSE)  BY <1>1, LeavesQueue DEF IInv
<1>3. Aside  BY <1>1 DEF Aside, IInv, Typed, Values, bounds
<1>4. pc[t] \in Unsure  BY DEF NoConnection, Invalidated, Unsure, Sending
<1> QED BY <1>1, <1>2, <1>3, <1>4, FailKept

(* The device rejects the token.                                            *)
LEMMA UnauthorizedKept ==
  ASSUME IInv, NEW t \in Tasks, NEW q, NEW at \in {"denied", "rejected"},
         Unauthorized(t, loc[t], q, at),
         \/ pc[t] = "detect" /\ at = "denied" /\ q = queue
         \/ pc[t] = "connect" /\ q = Tail(queue),
         UNCHANGED <<host, built, bounds>>
  PROVE  IInv'
<1>1. Values /\ loc[t] \in Locals /\ Placed(loc[t], pc[t])  BY DEF IInv, Typed
<1>2. CASE q = <<>> /\ ClearSession /\ Goto(t, loc[t], "failed") /\ queue' = q
  <2>1. CASE pc[t] = "detect" /\ q = queue
    <3>1. pc[t] \notin Queued /\ queue' = queue  BY <1>2, <2>1
    <3> QED BY <1>1, <1>2, <3>1, ClearedKept DEF bounds, Values
  <2>2. CASE pc[t] = "connect" /\ q = Tail(queue)
    <3>1. Requeued(t, FALSE)  BY <1>2, <2>2, Connects, LeavesQueue DEF IInv
    <3> QED BY <1>1, <1>2, <3>1, ClearedKept DEF bounds, Values
  <2> QED BY <2>1, <2>2
<1>3. CASE /\ Goto(t, [loc[t] EXCEPT !.asked = generation], at) /\ queue' = Append(q, t)
           /\ UNCHANGED <<auth, known, state>>
  <2> DEFINE k == [loc[t] EXCEPT !.asked = generation]
  <2>1. /\ k \in Locals /\ k.op = loc[t].op /\ k.button = loc[t].button /\ k.stage = loc[t].stage
        /\ k.gen = loc[t].gen /\ SameReport(k, loc[t])
    BY <1>1, AskedSet DEF Values
  <2>2. Goto(t, k, at)  BY <1>3
  <2> HIDE DEF k
  <2>3. Requeued(t, TRUE)
    <3>1. CASE pc[t] = "detect" /\ q = queue
      <4>1. t \notin Elems(queue)  BY <3>1 DEF IInv, Locked
      <4> QED BY <1>3, <3>1, <4>1, JoinsQueue DEF IInv
    <3>2. CASE pc[t] = "connect" /\ q = Tail(queue)
      BY <1>3, <3>2, Connects, WaitsAgain DEF IInv
    <3> QED BY <3>1, <3>2
  <2>4. Joins(t, k, at)  BY <2>3 DEF Joins, Requeued, Sending
  <2>5. Noted'  BY <1>1, <1>3, SameNoted DEF Values
  <2>6. Values' /\ Grows /\ Writes(t)
    BY <1>1, <1>3, <2>5 DEF Values, Grows, Writes, auth, bounds
  <2>7. PICK m \in Locals : m = k  BY <2>1
  <2>8. Placed(m, at)'
    <3>1. at = "rejected" => pc[t] \in Unsure  BY DEF Unsure, Sending
    <3>2. generation' = generation /\ built' = built  BY <1>3 DEF auth
    <3> QED BY <1>1, <2>1, <2>7, <3>1, <3>2 DEF Placed, SameReport, Sending, Unsure
  <2> QED BY <2>2, <2>4, <2>6, <2>7, <2>8, TurnKept
<1> QED BY <1>2, <1>3 DEF Unauthorized

LEMMA DetectDeniedKept ==
  ASSUME IInv, NEW t \in Tasks, DetectDenied(t)
  PROVE  IInv'
BY UnauthorizedKept DEF DetectDenied

LEMMA RefusedKept ==
  ASSUME IInv, NEW t \in Tasks, Refused(t)
  PROVE  IInv'
BY UnauthorizedKept DEF Refused

LEMMA RejectedKept ==
  ASSUME IInv, NEW t \in Tasks, Rejected(t)
  PROVE  IInv'
<1>1. /\ pc[t] \in {"denied", "rejected"} /\ AtHead(t) /\ queue' = Tail(queue)
      /\ UNCHANGED <<host, bounds>>
  BY DEF Rejected
<1>2. Requeued(t, FALSE)  BY <1>1, LeavesQueue DEF IInv
<1>3. Values /\ loc[t] \in Locals  BY DEF IInv, Typed
<1>4. CASE ClearSession /\ Goto(t, loc[t], "failed") /\ UNCHANGED built
  BY <1>1, <1>2, <1>3, <1>4, ClearedKept DEF bounds, Values
<1>5. CASE /\ IF pc[t] = "denied" THEN FailBeforeBuild(t, loc[t]) ELSE Fail(t, loc[t])
           /\ UNCHANGED <<auth, known>>
  <2>1. Aside  BY <1>1, <1>3, <1>5 DEF Aside, Values, bounds
  <2>2. (Fail(t, loc[t]) /\ pc[t] \in Unsure) \/ FailBeforeBuild(t, loc[t])
    BY <1>1, <1>5 DEF Unsure
  <2> QED BY <1>2, <2>1, <2>2, FailKept
<1> QED BY <1>4, <1>5 DEF Rejected

LEMMA DrainedKept ==
  ASSUME IInv, NEW t \in Tasks, Drained(t)
  PROVE  IInv'
<1>1. /\ NextStep(t, loc[t]) /\ pc[t] \notin Queued /\ queue' = queue
      /\ UNCHANGED <<auth, known, bounds>> /\ UNCHANGED host
  BY DEF Drained
<1>2. /\ host' \in [buttons : SUBSET Buttons, pressed : SUBSET Buttons, key : BOOLEAN, n : Nat]
      /\ Writes(t) /\ host'.n <= built
  BY <1>1 DEF IInv, Typed, Values, Writes
<1> QED BY <1>1, <1>2, NextStepKept

LEMMA CallKept ==
  ASSUME IInv, NEW t \in Tasks, NEW op \in AllOperations, NEW b \in Buttons \cup {"none"},
         op \in Presses => b \in Buttons, Call(t, op, b)
  PROVE  IInv'
<1>1. op \in AllOperations \ Transitions /\ pc[t] \notin Queued  BY DEF Call
<1>2. FirstStage[op] \in Stages /\ (FirstStage[op] = "press" => op \in Presses)
  BY <1>1, StageOf
<1>0. PICK s \in Stages : s = FirstStage[op]  BY <1>2
<1> DEFINE l == Frame(op, b, s)
<1>3. /\ l \in Locals /\ l.op = op /\ l.button = b /\ l.stage = s /\ l.gen = generation
      /\ l.report.n = 0
  <2>1. Typed  BY DEF IInv
  <2>2. op \in AllOperations /\ b \in Buttons \cup {"none"} /\ s \in Stages  OBVIOUS
  <2> HIDE DEF AllOperations, Stages, Call, l
  <2>3. \A x : x = Frame(op, b, s) =>
          x \in Locals /\ x.op = op /\ x.button = b /\ x.stage = s /\ x.gen = generation /\ x.report.n = 0
    BY <2>1, <2>2, FrameType
  <2>4. l = Frame(op, b, s)  BY DEF l
  <2> QED BY <2>3, <2>4
<1>4. Step(t, l) /\ started' = started + 1 /\ UNCHANGED <<auth, known, host, cancelled, forgets>>
  BY <1>0 DEF Call
<1> HIDE DEF l
<1>5. Ready(l)  BY <1>0, <1>2, <1>3 DEF Ready, IInv, Typed, Values
<1>6. Aside  BY <1>4 DEF Aside, IInv, Typed, Values
<1> QED BY <1>1, <1>3, <1>4, <1>5, <1>6, StepKept

LEMMA DetectedKept ==
  ASSUME IInv, NEW t \in Tasks, Detected(t)
  PROVE  IInv'
<1>1. /\ pc[t] \notin Queued /\ known' = TRUE /\ Build(t, loc[t], Binary)
      /\ UNCHANGED <<auth, host, bounds>>
  BY DEF Detected
<1>2. loc[t] \in Locals /\ Ready(loc[t])  BY PlacedIsReady DEF IInv, Typed
<1>3. Aside  BY <1>1 DEF Aside, IInv, Typed, Values, bounds
<1> QED BY <1>1, <1>2, <1>3, BuildKept, HidInputAssumption

LEMMA DetectFailsKept ==
  ASSUME IInv, NEW t \in Tasks, DetectFails(t)
  PROVE  IInv'
<1>1. /\ pc[t] \notin Queued /\ queue' = queue /\ FailBeforeBuild(t, loc[t])
      /\ UNCHANGED <<auth, known, host, bounds>>
  BY DEF DetectFails
<1>2. Aside  BY <1>1 DEF Aside, IInv, Typed, Values, bounds
<1> QED BY <1>1, <1>2, FailKept

(* The step that follows a sleep.                                           *)
LEMMA PauseReady ==
  ASSUME IInv, NEW t \in Tasks, pc[t] = "pause"
  PROVE  LET l == [loc[t] EXCEPT !.stage = "press"]
         IN /\ l \in Locals /\ l.op = loc[t].op /\ l.button = loc[t].button /\ l.stage = "press"
            /\ l.report.n = loc[t].report.n /\ Ready(l)
<1> DEFINE l == [loc[t] EXCEPT !.stage = "press"]
<1>1. loc[t] \in Locals /\ Placed(loc[t], pc[t])  BY DEF IInv, Typed
<1>2. /\ l \in Locals /\ l.op = loc[t].op /\ l.button = loc[t].button /\ l.stage = "press"
      /\ l.gen = loc[t].gen /\ l.report.n = loc[t].report.n
  BY <1>1, StageSet DEF SameReport
<1> HIDE DEF l
<1>3. Ready(l)  BY <1>1, <1>2 DEF Placed, Ready
<1> QED BY <1>2, <1>3 DEF l

LEMMA HoldReady ==
  ASSUME IInv, NEW t \in Tasks, pc[t] = "hold", NEW th \in {"ok", "failed"}
  PROVE  LET l == ReleaseFrame(loc[t], th)
         IN /\ l \in Locals /\ l.op = loc[t].op /\ l.button = loc[t].button /\ Ready(l)
            /\ l.stage = IF l.op = "key_tap" THEN "key_up" ELSE "up"
            /\ l.report.n = loc[t].report.n
<1> DEFINE l == ReleaseFrame(loc[t], th)
<1>1. loc[t] \in Locals /\ Placed(loc[t], pc[t])  BY DEF IInv, Typed
<1>2. /\ l \in Locals /\ l.op = loc[t].op /\ l.button = loc[t].button /\ l.gen = loc[t].gen
      /\ l.stage = IF loc[t].op = "key_tap" THEN "key_up" ELSE "up"
      /\ l.report.n = loc[t].report.n
  BY <1>1, ReleaseSet DEF SameReport
<1> HIDE DEF l
<1>3. Ready(l)  BY <1>1, <1>2 DEF Placed, Ready
<1> QED BY <1>2, <1>3 DEF l

LEMMA SleptKept ==
  ASSUME IInv, NEW t \in Tasks, Slept(t)
  PROVE  IInv'
<1>1. pc[t] \in {"pause", "hold"} /\ UNCHANGED <<auth, known, host, bounds>>  BY DEF Slept
<1>2. Aside  BY <1>1 DEF Aside, IInv, Typed, Values, bounds
<1>3. CASE pc[t] = "pause"
  <2> DEFINE l == [loc[t] EXCEPT !.stage = "press"]
  <2>1. Step(t, l)  BY <1>3 DEF Slept
  <2>2. l \in Locals /\ Ready(l)  BY <1>3, PauseReady
  <2> HIDE DEF l
  <2> QED BY <1>2, <1>3, <2>1, <2>2, StepKept
<1>4. CASE pc[t] = "hold"
  <2> DEFINE l == ReleaseFrame(loc[t], "ok")
  <2>1. Step(t, l)  BY <1>4 DEF Slept
  <2>2. l \in Locals /\ Ready(l)  BY <1>4, HoldReady
  <2> HIDE DEF l
  <2> QED BY <1>2, <1>4, <2>1, <2>2, StepKept
<1> QED BY <1>1, <1>3, <1>4

LEMMA ClearKept ==
  ASSUME IInv, NEW t \in Tasks, NEW l \in Locals, NEW q, l.op \in Transitions, l.stage = "none",
         l.gen <= generation, l.report.n <= built,
         ClearSection(t, l, q),
         (q = queue /\ pc[t] \notin Queued) \/ (q = Tail(queue) /\ AtHead(t)),
         UNCHANGED <<host, built>>, started' \in Nat, UNCHANGED <<cancelled, forgets>>
  PROVE  IInv'
<1>1. Values /\ queue' = q  BY DEF IInv, Typed, ClearSection
<1>2. Requeued(t, FALSE) \/ (pc[t] \notin Queued /\ queue' = queue)
  BY <1>1, LeavesQueue DEF IInv
<1>4. CASE Goto(t, l, "ok") /\ UNCHANGED <<auth, known, state>>
  <2>1. Noted'  BY <1>1, <1>4, SameNoted DEF Values
  <2>2. Values' /\ Grows /\ Writes(t)
    BY <1>1, <1>4, <2>1 DEF Values, Grows, Writes, auth
  <2>3. Stays(t, l, "ok") \/ Joins(t, l, "ok")  BY <1>2 DEF Stays, Joins, Requeued, Sending
  <2> QED BY <1>4, <2>2, <2>3, TurnKept
<1>5. CASE /\ ClearSession
           /\ Goto(t, [l EXCEPT !.gen = generation + 1], IF l.op = "logout" THEN "ok" ELSE "login")
  <2>0. PICK g \in Nat : g = generation + 1  BY <1>1 DEF Values
  <2> DEFINE k == [l EXCEPT !.gen = g]
  <2>1. k \in Locals /\ k.op = l.op /\ k.stage = l.stage /\ k.gen = g /\ k.report = l.report
    BY <2>0, GenSet DEF SameReport
  <2>2. Goto(t, k, IF l.op = "logout" THEN "ok" ELSE "login")  BY <1>5, <2>0
  <2> HIDE DEF k
  <2>3. PICK m \in Locals : m = k  BY <2>1
  <2>4. PICK at \in {"ok", "login"} : Goto(t, m, at)  BY <2>2, <2>3
  <2>5. generation' = g  BY <1>5, <2>0 DEF ClearSession
  <2>6. m.gen <= generation'  BY <2>1, <2>3, <2>5
  <2>7. Placed(m, at)'  BY <2>1, <2>3, <2>6 DEF Placed, Sending, Unsure
  <2> QED BY <1>2, <1>5, <2>4, <2>7, ClearedKept
<1> QED BY <1>4, <1>5 DEF ClearSection

LEMMA TransitionKept ==
  ASSUME IInv, NEW t \in Tasks, NEW op \in Transitions, Transition(t, op)
  PROVE  IInv'
<1> DEFINE l == Frame(op, "none", "none")
<1>1. Values  BY DEF IInv, Typed
<1>2. /\ l \in Locals /\ l.op = op /\ l.stage = "none" /\ l.gen = generation
      /\ l.report.n = 0
  BY FrameType DEF IInv
<1>3. /\ pc[t] \in Ended /\ started' = started + 1 /\ UNCHANGED <<host, built, cancelled, forgets>>
      /\ \/ queue = <<>> /\ ClearSection(t, l, queue)
         \/ /\ queue # <<>> /\ Goto(t, l, "clear") /\ queue' = Append(queue, t)
            /\ UNCHANGED <<auth, known, state>>
  BY DEF Transition
<1> HIDE DEF l
<1>4. CASE ClearSection(t, l, queue)
  <2>1. l.gen <= generation /\ l.report.n <= built /\ started' \in Nat
    BY <1>1, <1>2, <1>3 DEF Values
  <2> QED BY <1>2, <1>3, <1>4, <2>1, ClearKept
<1>5. CASE Goto(t, l, "clear") /\ queue' = Append(queue, t) /\ UNCHANGED <<auth, known, state>>
  <2>1. PICK m \in Locals : m = l  BY <1>2
  <2>2. t \notin Elems(queue)  BY <1>3 DEF IInv, Locked
  <2>3. Requeued(t, TRUE)  BY <1>5, <2>2, JoinsQueue DEF IInv
  <2>4. Joins(t, m, "clear")  BY <2>3 DEF Joins, Requeued, Sending
  <2>8. Noted'  BY <1>1, <1>3, <1>5, SameNoted DEF Values
  <2>5. Values' /\ Grows /\ Writes(t)
    BY <1>1, <1>3, <1>5, <2>8 DEF Values, Grows, Writes, auth
  <2>6. m.gen <= generation' /\ m.report.n <= built'
    BY <1>1, <1>2, <1>3, <1>5, <2>1 DEF Values, auth
  <2>7. Placed(m, "clear")'  BY <1>2, <2>1, <2>6 DEF Placed, Sending, Unsure
  <2> QED BY <1>5, <2>1, <2>4, <2>5, <2>7, TurnKept
<1> QED BY <1>3, <1>4, <1>5

LEMMA ForgetVersionsKept ==
  ASSUME IInv, ForgetVersions
  PROVE  IInv'
<1>1. /\ UNCHANGED <<generation, token, queue, host, pc, loc, built>>
      /\ UNCHANGED <<buttons, since, held, clicked, kept, unreleased>>
  BY DEF ForgetVersions, auth, state, history
<1>2. known' \in BOOLEAN /\ started' \in Nat /\ cancelled' \in Nat /\ forgets' \in Nat
  <2>1. Values  BY DEF IInv, Typed
  <2>2. forgets' = forgets + 1 /\ known' = FALSE /\ started' = started /\ cancelled' = cancelled
    BY DEF ForgetVersions
  <2>3. known' \in BOOLEAN  BY <2>2, Zenon
  <2> QED BY <2>1, <2>2, <2>3 DEF Values
<1>3. Typed'  BY <1>1, <1>2 DEF IInv, Typed, Values, Noted
<1>4. Locked' /\ Ordered'  BY <1>1 DEF IInv, Locked, Ordered, Elems, Distinct, Ahead
<1>5. \A t \in Tasks : Placed(loc[t], pc[t])'  BY <1>1 DEF IInv, Placed
<1> QED BY <1>3, <1>4, <1>5 DEF IInv

LEMMA ClearEnterKept ==
  ASSUME IInv, NEW t \in Tasks, ClearEnter(t)
  PROVE  IInv'
<1>1. /\ pc[t] = "clear" /\ AtHead(t) /\ ClearSection(t, loc[t], Tail(queue))
      /\ UNCHANGED <<host, built, bounds>>
  BY DEF ClearEnter
<1>2. loc[t] \in Locals /\ Placed(loc[t], "clear") /\ started \in Nat
  BY <1>1 DEF IInv, Typed, Values
<1>3. /\ loc[t].op \in Transitions /\ loc[t].stage = "none" /\ loc[t].gen <= generation
      /\ loc[t].report.n <= built
  BY <1>2 DEF Placed
<1>4. started' \in Nat /\ UNCHANGED <<cancelled, forgets>> /\ UNCHANGED <<host, built>>
  BY <1>1, <1>2 DEF bounds
<1> DEFINE q == Tail(queue)
<1>5. PICK l \in Locals : l = loc[t]  BY <1>2
<1>6. ClearSection(t, l, q)  BY <1>1, <1>5
<1>7. l.op \in Transitions /\ l.stage = "none" /\ l.gen <= generation /\ l.report.n <= built
  BY <1>3, <1>5
<1>8. (q = queue /\ pc[t] \notin Queued) \/ (q = Tail(queue) /\ AtHead(t))  BY <1>1
<1> HIDE DEF q
<1> QED BY <1>4, <1>6, <1>7, <1>8, ClearKept

LEMMA LoginEndsKept ==
  ASSUME IInv, NEW t \in Tasks, LoginEnds(t)
  PROVE  IInv'
<1>1. /\ pc[t] = "login" /\ token' \in BOOLEAN
      /\ Goto(t, loc[t], "failed") \/ Goto(t, loc[t], "ok")
      /\ UNCHANGED <<generation, known, state, queue, host, built, bounds>>
  BY DEF LoginEnds, IInv, Typed, Values
<1>2. loc[t] \in Locals /\ Values  BY DEF IInv, Typed
<1>3. PICK at \in {"ok", "failed"} : Goto(t, loc[t], at)  BY <1>1
<1>4. Stays(t, loc[t], at)  BY <1>1, <1>3 DEF Stays, Sending
<1>6. Noted'  BY <1>1, <1>2, SameNoted DEF Values
<1>5. Values' /\ Grows /\ Writes(t)
  BY <1>1, <1>2, <1>6 DEF Values, Grows, Writes, bounds
<1> QED BY <1>2, <1>3, <1>4, <1>5, TurnKept

LEMMA CancelKept ==
  ASSUME IInv, NEW t \in Tasks, Cancel(t)
  PROVE  IInv'
<1>1. cancelled' = cancelled + 1 /\ UNCHANGED <<auth, known, host, started, forgets>>
  BY DEF Cancel
<1>2. Aside  BY <1>1 DEF Aside, IInv, Typed, Values
<1>3. CASE pc[t] = "hold" /\ CancelHold(t)
  <2> DEFINE l == ReleaseFrame(loc[t], "failed")
  <2>1. Step(t, l)  BY <1>3 DEF CancelHold
  <2>2. l \in Locals /\ Ready(l)  BY <1>3, HoldReady
  <2> HIDE DEF l
  <2> QED BY <1>2, <1>3, <2>1, <2>2, StepKept
<1>4. CASE /\ FailBeforeBuild(t, loc[t]) \/ (Fail(t, loc[t]) /\ pc[t] \in Unsure)
           /\ queue' = Dequeue(t)
  <2>1. Requeued(t, FALSE)  BY <1>4, GivesUpQueue DEF IInv
  <2> QED BY <1>2, <1>4, <2>1, FailKept
<1> QED BY <1>3, <1>4 DEF Cancel, Unsure, Sending

(* Idle tasks and an empty queue.                                           *)
LEMMA InitInv ==
  ASSUME Init
  PROVE  IInv
<1>1. /\ generation = 0 /\ token = TRUE /\ known = FALSE /\ buttons = {} /\ queue = <<>>
      /\ host = [buttons |-> {}, pressed |-> {}, key |-> FALSE, n |-> 0]
      /\ pc = [t \in Tasks |-> "new"] /\ loc = [t \in Tasks |-> Idle]
      /\ built = 0 /\ started = 0 /\ cancelled = 0 /\ forgets = 0
      /\ since = [b \in Buttons |-> 0] /\ held = [b \in Buttons |-> 0]
      /\ clicked = {} /\ kept = {} /\ unreleased = {}
  BY DEF Init
<1>2. host \in [buttons : SUBSET Buttons, pressed : SUBSET Buttons, key : BOOLEAN, n : Nat] /\ host.n = 0
  BY <1>1
<1>8. Values
  <2>1. token \in BOOLEAN /\ known \in BOOLEAN  BY <1>1, Zenon
  <2>2. Noted  BY <1>1 DEF Noted
  <2> QED BY <1>1, <1>2, <2>1, <2>2 DEF Values
<1>3. Typed  BY <1>1, <1>8, IdleType DEF Typed
<1>4. Locked  BY <1>1, EmptyQueue DEF Locked
<1>5. Ordered  BY <1>1 DEF Ordered, Sending
<1>6. Placed(Idle, "new")  BY <1>1, IdleType DEF Placed, Sending, Unsure
<1>7. \A t \in Tasks : Placed(loc[t], pc[t])  BY <1>1, <1>6
<1> QED BY <1>3, <1>4, <1>5, <1>7 DEF IInv

LEMMA StutterKept ==
  ASSUME IInv, UNCHANGED vars
  PROVE  IInv'
<1>1. UNCHANGED <<generation, token, known, buttons, queue, host, pc, loc, built, started>>
  BY DEF vars
<1>2. UNCHANGED <<cancelled, forgets, since, held, clicked, kept, unreleased>>  BY DEF vars
<1>3. Typed'  BY <1>1, <1>2 DEF IInv, Typed, Values, Noted
<1>4. Locked' /\ Ordered'  BY <1>1 DEF IInv, Locked, Ordered, Elems, Distinct, Ahead
<1>5. \A t \in Tasks : Placed(loc[t], pc[t])'  BY <1>1 DEF IInv, Placed
<1> QED BY <1>3, <1>4, <1>5 DEF IInv

LEMMA StepKeepsInv ==
  ASSUME IInv, [Next]_vars
  PROVE  IInv'
<1>1. ASSUME NEW t \in Tasks, Begin(t)  PROVE IInv'
  BY <1>1, CallKept, TransitionKept DEF Begin
<1>2. ASSUME NEW t \in Tasks, Continue(t)  PROVE IInv'
  BY <1>2, DetectedKept, DetectFailsKept, DetectDeniedKept, RefusedKept, RejectedKept, GetWsEnterKept, SendEndsKept, SentKept, DrainedKept,
     SendFailsKept, SleptKept, ClearEnterKept, LoginEndsKept DEF Continue
<1> QED BY <1>1, <1>2, CancelKept, ForgetVersionsKept, StutterKept DEF Next

(* The invariant holds in every state the client reaches.                   *)
THEOREM Inductive == Spec => []IInv
<1>1. Init => IInv  BY InitInv
<1>2. IInv /\ [Next]_vars => IInv'  BY StepKeepsInv
<1> QED BY <1>1, <1>2, PTL DEF Spec

(* Every variable holds what its declaration says, and exactly the tasks    *)
(* that hold _ws_lock or wait for it are in its queue.                      *)
THEOREM TypeOKThm == Spec => []TypeOK
<1>1. IInv => TypeOK
  <2> SUFFICES ASSUME IInv  PROVE TypeOK
    OBVIOUS
  <2>1. Values /\ pc \in [Tasks -> PCs] /\ loc \in [Tasks -> Locals]  BY DEF IInv, Typed
  <2>2. queue \in Seq(Tasks) /\ \A t \in Tasks : pc[t] \in Queued <=> \E i \in DOMAIN queue : queue[i] = t
    BY DEF IInv, Locked, Elems
  <2>3. host \in [buttons : SUBSET Buttons, pressed : SUBSET Buttons, key : BOOLEAN, n : 0..built]
    BY <2>1 DEF Values
  <2>4. /\ buttons \subseteq Buttons /\ {clicked, kept, unreleased} \subseteq SUBSET buttons
        /\ \A b \in Buttons : (since[b] # 0 <=> b \in buttons) /\ (held[b] # 0 => b \in buttons)
        /\ {built, started, cancelled, forgets} \subseteq Nat
    BY <2>1 DEF Values, Noted
  <2>5. since \in [Buttons -> 0..built] /\ held \in [Buttons -> 0..built]
    <3>1. /\ built \in Nat /\ since \in [Buttons -> Nat] /\ held \in [Buttons -> Nat]
          /\ \A b \in Buttons : since[b] <= built /\ held[b] <= built
      BY <2>1 DEF Values, Noted
    <3> QED BY <3>1
  <2> QED BY <2>1, <2>2, <2>3, <2>4, <2>5 DEF TypeOK, Values
<1> QED BY Inductive, <1>1, PTL

(* The host sees reports in the order in which the calls built them: the    *)
(* report that is written is newer than all written before, for it waited   *)
(* ahead of those built after it and no connection carries one twice.       *)
THEOREM InputArrivesInOrderThm == Spec => InputArrivesInOrder
<1>1. IInv /\ [Next]_vars => [host' # host => host'.n > host.n]_vars
  <2> SUFFICES ASSUME IInv, [Next]_vars, host' # host  PROVE host'.n > host.n
    OBVIOUS
  <2>1. PICK t \in Tasks : Sent(t)
    BY DEF Next, vars, Begin, Continue, Cancel, Call, Transition, Detected, DetectFails, DetectDenied,
           Refused, Rejected, GetWsEnter, NoConnection, Drained, SendFails, Invalidated, Slept, ClearEnter, LoginEnds, ForgetVersions
  <2>2. pc[t] = "connect" /\ Deliver(loc[t])  BY <2>1 DEF Sent
  <2>3. host.n < host'.n  BY <2>2, DeliverType
  <2>4. host.n \in Nat /\ host'.n \in Nat
    BY <2>2, DeliverType DEF IInv, Typed, Values
  <2> QED BY <2>3, <2>4
<1> QED BY Inductive, <1>1, PTL DEF Spec, InputArrivesInOrder
--------------------------------------------------------------------------------
(* What the turns of the tasks amount to, for the properties of the buttons.*)

(* A click that goes on to its release keeps what its press was.            *)
Releases(t, m) ==
  loc[t].op \in Clicks /\ (pc[t] = "hold" \/ (pc[t] = "detect" /\ loc[t].stage = "up")) =>
    m.stage = "up" /\ m.op = loc[t].op /\ m.button = loc[t].button /\ m.report.n = loc[t].report.n

Builds(t, m, binary) ==
  /\ pc[t] \notin Unsure \cup {"denied"} /\ Ready(m) /\ (Binary => binary) /\ Releases(t, m)
  /\ Build(t, m, binary) /\ UNCHANGED <<generation, host>>

Asks(t, m) ==
  /\ pc[t] \notin Unsure \cup {"denied"} /\ Releases(t, m)
  /\ Goto(t, m, "detect") /\ UNCHANGED <<generation, state, host, built>>

Waits(t, m, at) ==
  /\ Goto(t, m, at) /\ UNCHANGED <<generation, state, built>>
  /\ SameReport(m, loc[t])
  /\ m.op = loc[t].op /\ m.button = loc[t].button /\ m.stage = loc[t].stage /\ m.gen = loc[t].gen
  /\ \/ pc[t] = "detect" /\ at = "denied" /\ host' = host
     \/ pc[t] = "connect" /\ at = "drain" /\ Deliver(loc[t])
     \/ pc[t] \in Unsure /\ at \in Unsure \ {"drain"} /\ host' = host /\ (at \in Sending => pc[t] \in Sending)

Fails(t) == pc[t] \in Unsure /\ Fail(t, loc[t]) /\ UNCHANGED <<generation, host>>

GivesUp(t) ==
  /\ pc[t] \in {"detect", "denied", "pause", "login", "clear"}
  /\ FailBeforeBuild(t, loc[t]) /\ UNCHANGED <<generation, host>>

Returns(t) ==
  /\ NextStep(t, loc[t]) /\ UNCHANGED generation
  /\ \/ pc[t] = "connect" /\ Deliver(loc[t])
     \/ pc[t] = "drain" /\ host' = host

Clears(t, m, at) ==
  at \in {"ok", "failed", "login"} /\ Goto(t, m, at) /\ ClearSession /\ UNCHANGED <<host, built>>

Passes(t, m, at) ==
  /\ pc[t] \in Ended \cup {"clear", "login"} /\ at \in {"ok", "failed", "clear"}
  /\ Goto(t, m, at) /\ UNCHANGED <<generation, state, host, built>>

Turn(t) ==
  \/ \E m \in Locals, binary \in BOOLEAN : Builds(t, m, binary)
  \/ \E m \in Locals : Asks(t, m)
  \/ \E m \in Locals, at \in PCs : Waits(t, m, at) \/ Clears(t, m, at) \/ Passes(t, m, at)
  \/ Fails(t) \/ GivesUp(t) \/ Returns(t)

LEMMA StepTurn ==
  ASSUME IInv, NEW t \in Tasks, NEW l \in Locals, Ready(l), pc[t] \notin Unsure \cup {"denied"},
         Releases(t, l), Step(t, l), UNCHANGED <<auth, host>>
  PROVE  Turn(t)
<1>1. CASE Goto(t, [l EXCEPT !.gen = generation], "detect") /\ UNCHANGED <<state, built, queue>>
  <2> DEFINE m == [l EXCEPT !.gen = generation]
  <2>1. generation \in Nat  BY DEF IInv, Typed, Values
  <2>2. m \in Locals /\ m.op = l.op /\ m.button = l.button /\ m.stage = l.stage /\ m.report = l.report
    BY <2>1, GenSet DEF SameReport
  <2>3. Goto(t, m, "detect")  BY <1>1
  <2> HIDE DEF m
  <2>4. Releases(t, m)  BY <2>2 DEF Releases
  <2>5. Asks(t, m)  BY <1>1, <2>3, <2>4 DEF Asks, auth
  <2> QED BY <2>2, <2>5 DEF Turn
<1>2. CASE Build(t, l, Binary \/ ~known)
  <2>1. PICK binary \in BOOLEAN : binary = (Binary \/ ~known)  OBVIOUS
  <2>2. Build(t, l, binary)  BY <1>2, <2>1
  <2>3. Builds(t, l, binary)  BY <2>1, <2>2 DEF Builds, auth
  <2> QED BY <2>3 DEF Turn
<1> QED BY <1>1, <1>2 DEF Step

LEMMA CallTurn ==
  ASSUME IInv, NEW t \in Tasks, NEW op \in AllOperations, NEW b \in Buttons \cup {"none"},
         op \in Presses => b \in Buttons, Call(t, op, b)
  PROVE  Turn(t)
<1>1. op \in AllOperations \ Transitions /\ pc[t] \in Ended  BY DEF Call
<1>2. FirstStage[op] \in Stages /\ (FirstStage[op] = "press" => op \in Presses)
  BY <1>1, StageOf
<1>3. PICK s \in Stages : s = FirstStage[op]  BY <1>2
<1>4. \A x : x = Frame(op, b, s) =>
        x \in Locals /\ x.op = op /\ x.button = b /\ x.stage = s /\ x.gen = generation /\ x.report.n = 0
  <2>1. Typed  BY DEF IInv
  <2>2. op \in AllOperations /\ b \in Buttons \cup {"none"} /\ s \in Stages  OBVIOUS
  <2> HIDE DEF AllOperations, Stages, Call
  <2> QED BY <2>1, <2>2, FrameType
<1>5. PICK l : l = Frame(op, b, s)  OBVIOUS
<1>6. l \in Locals /\ l.op = op /\ l.button = b /\ l.stage = s /\ l.gen = generation /\ l.report.n = 0
  BY <1>4, <1>5
<1>7. Step(t, l) /\ UNCHANGED <<auth, host>>  BY <1>3, <1>5 DEF Call
<1>8. Ready(l)  BY <1>2, <1>3, <1>6 DEF Ready, IInv, Typed, Values
<1>9. pc[t] \notin Unsure \cup {"denied"} /\ Releases(t, l)  BY <1>1 DEF Unsure, Sending, Releases
<1> QED BY <1>6, <1>7, <1>8, <1>9, StepTurn

(* The release of a click or a tap, after its hold or its cancellation.     *)
LEMMA HoldTurn ==
  ASSUME IInv, NEW t \in Tasks, pc[t] = "hold", NEW th \in {"ok", "failed"},
         Step(t, ReleaseFrame(loc[t], th)), UNCHANGED <<auth, host>>
  PROVE  Turn(t)
<1> DEFINE l == ReleaseFrame(loc[t], th)
<1>1. /\ l \in Locals /\ l.op = loc[t].op /\ l.button = loc[t].button /\ Ready(l)
      /\ l.stage = IF l.op = "key_tap" THEN "key_up" ELSE "up"
      /\ l.report.n = loc[t].report.n
  BY HoldReady
<1> HIDE DEF l
<1>2. pc[t] \notin Unsure \cup {"denied"} /\ Releases(t, l)  BY <1>1 DEF Unsure, Sending, Releases
<1> QED BY <1>1, <1>2, StepTurn DEF l

LEMMA SleptTurn ==
  ASSUME IInv, NEW t \in Tasks, Slept(t)
  PROVE  Turn(t)
<1>1. pc[t] \in {"pause", "hold"} /\ UNCHANGED <<auth, host>>  BY DEF Slept
<1>2. CASE pc[t] = "pause"
  <2> DEFINE l == [loc[t] EXCEPT !.stage = "press"]
  <2>1. Step(t, l)  BY <1>2 DEF Slept
  <2>2. l \in Locals /\ Ready(l)  BY <1>2, PauseReady
  <2> HIDE DEF l
  <2>3. pc[t] \notin Unsure \cup {"denied"} /\ Releases(t, l)  BY <1>2 DEF Unsure, Sending, Releases
  <2> QED BY <1>1, <2>1, <2>2, <2>3, StepTurn
<1>3. CASE pc[t] = "hold"
  <2>1. Step(t, ReleaseFrame(loc[t], "ok"))  BY <1>3 DEF Slept
  <2> QED BY <1>1, <1>3, <2>1, HoldTurn
<1> QED BY <1>1, <1>2, <1>3

LEMMA DetectedTurn ==
  ASSUME IInv, NEW t \in Tasks, Detected(t)
  PROVE  Turn(t)
<1>1. pc[t] = "detect" /\ Build(t, loc[t], Binary) /\ UNCHANGED <<auth, host>>  BY DEF Detected
<1>2. loc[t] \in Locals /\ Ready(loc[t])  BY PlacedIsReady DEF IInv, Typed
<1>3. pc[t] \notin Unsure \cup {"denied"} /\ Releases(t, loc[t])  BY <1>1 DEF Unsure, Sending, Releases
<1>4. Binary \in BOOLEAN  BY HidInputAssumption
<1>5. Builds(t, loc[t], Binary)  BY <1>1, <1>2, <1>3 DEF Builds, auth
<1> QED BY <1>2, <1>4, <1>5 DEF Turn

LEMMA SendTurn ==
  ASSUME IInv, NEW t \in Tasks,
         GetWsEnter(t) \/ NoConnection(t) \/ Sent(t) \/ Drained(t) \/ SendFails(t) \/ Invalidated(t)
  PROVE  Turn(t)
<1>0. PICK l \in Locals : l = loc[t]  BY DEF IInv, Typed
<1> DEFINE Waiting(at) == Goto(t, loc[t], at) /\ UNCHANGED <<generation, state, built>>
<1>1. ASSUME NEW at \in PCs, Waiting(at),
             \/ pc[t] = "connect" /\ at = "drain" /\ Deliver(loc[t])
             \/ pc[t] \in Unsure /\ at \in Unsure \ {"drain"} /\ host' = host /\ (at \in Sending => pc[t] \in Sending)
      PROVE  Turn(t)
  <2>1. Waits(t, l, at)  BY <1>0, <1>1 DEF Waits, SameReport
  <2> QED BY <2>1 DEF Turn
<1>2. CASE GetWsEnter(t)
  BY <1>1, <1>2 DEF GetWsEnter, Turn, Fails, Unsure, Sending, auth
<1>3. CASE NoConnection(t) \/ Invalidated(t)
  BY <1>3 DEF NoConnection, Invalidated, Turn, Fails, Unsure, Sending, auth
<1>4. CASE Sent(t)
  BY <1>1, <1>4 DEF Sent, Turn, Returns, Unsure, Sending, auth
<1>5. CASE Drained(t)
  BY <1>5 DEF Drained, Turn, Returns, auth
<1>6. CASE SendFails(t)
  BY <1>1, <1>6 DEF SendFails, Unsure, Sending, auth
<1> QED BY <1>2, <1>3, <1>4, <1>5, <1>6

LEMMA UnauthorizedTurn ==
  ASSUME IInv, NEW t \in Tasks, DetectDenied(t) \/ Refused(t)
  PROVE  Turn(t)
<1>1. PICK at \in {"denied", "rejected"}, q \in {queue, Tail(queue)} :
        /\ Unauthorized(t, loc[t], q, at) /\ UNCHANGED <<host, built>>
        /\ (pc[t] = "detect" /\ at = "denied") \/ (pc[t] = "connect" /\ at = "rejected")
  BY DEF DetectDenied, Refused
<1>2. loc[t] \in Locals /\ generation \in Nat  BY DEF IInv, Typed, Values
<1>3. CASE ClearSession /\ Goto(t, loc[t], "failed")
  <2>1. Clears(t, loc[t], "failed")  BY <1>1, <1>3 DEF Clears
  <2> QED BY <1>2, <2>1 DEF Turn
<1>4. CASE Goto(t, [loc[t] EXCEPT !.asked = generation], at) /\ UNCHANGED <<auth, known, state>>
  <2> DEFINE m == [loc[t] EXCEPT !.asked = generation]
  <2>1. /\ m \in Locals /\ m.op = loc[t].op /\ m.button = loc[t].button /\ m.stage = loc[t].stage
        /\ m.gen = loc[t].gen /\ SameReport(m, loc[t])
    BY <1>2, AskedSet
  <2>2. Goto(t, m, at)  BY <1>4
  <2> HIDE DEF m
  <2>3. Waits(t, m, at)  BY <1>1, <1>4, <2>1, <2>2 DEF Waits, auth, Unsure, Sending
  <2> QED BY <2>1, <2>3 DEF Turn
<1> QED BY <1>1, <1>3, <1>4 DEF Unauthorized

LEMMA RejectedTurn ==
  ASSUME IInv, NEW t \in Tasks, Rejected(t)
  PROVE  Turn(t)
<1>1. pc[t] \in {"denied", "rejected"} /\ UNCHANGED host /\ loc[t] \in Locals
  BY DEF Rejected, IInv, Typed
<1>2. CASE ClearSession /\ Goto(t, loc[t], "failed") /\ UNCHANGED built
  <2>1. Clears(t, loc[t], "failed")  BY <1>1, <1>2 DEF Clears
  <2> QED BY <1>1, <2>1 DEF Turn
<1>3. CASE /\ IF pc[t] = "denied" THEN FailBeforeBuild(t, loc[t]) ELSE Fail(t, loc[t])
           /\ UNCHANGED <<auth, known>>
  BY <1>1, <1>3 DEF Turn, Fails, GivesUp, Unsure, auth
<1> QED BY <1>2, <1>3 DEF Rejected

LEMMA ClearTurn ==
  ASSUME IInv, NEW t \in Tasks, NEW l \in Locals, NEW q, ClearSection(t, l, q),
         pc[t] \in Ended \cup {"clear"}, UNCHANGED <<host, built>>
  PROVE  Turn(t)
<1>1. CASE Goto(t, l, "ok") /\ UNCHANGED <<auth, known, state>>
  <2>1. Passes(t, l, "ok")  BY <1>1 DEF Passes, auth
  <2> QED BY <2>1 DEF Turn
<1>2. CASE ClearSession /\ Goto(t, [l EXCEPT !.gen = generation + 1], IF l.op = "logout" THEN "ok" ELSE "login")
  <2>1. PICK g \in Nat : g = generation + 1  BY DEF IInv, Typed, Values
  <2> DEFINE k == [l EXCEPT !.gen = g]
  <2>2. k \in Locals  BY <2>1, GenSet
  <2>3. Goto(t, k, IF l.op = "logout" THEN "ok" ELSE "login")  BY <1>2, <2>1
  <2> HIDE DEF k
  <2>4. PICK at \in {"ok", "login"} : Goto(t, k, at)  BY <2>3
  <2>5. Clears(t, k, at)  BY <1>2, <2>4 DEF Clears
  <2> QED BY <2>2, <2>5 DEF Turn
<1> QED BY <1>1, <1>2 DEF ClearSection

LEMMA TransitionTurn ==
  ASSUME IInv, NEW t \in Tasks, (\E op \in Transitions : Transition(t, op)) \/ ClearEnter(t)
  PROVE  Turn(t)
<1>1. CASE ClearEnter(t)
  <2>1. PICK l \in Locals, q \in {Tail(queue)} : l = loc[t] /\ q = Tail(queue)  BY DEF IInv, Typed
  <2>2. ClearSection(t, l, q) /\ pc[t] = "clear" /\ UNCHANGED <<host, built>>
    BY <1>1, <2>1 DEF ClearEnter
  <2> QED BY <2>2, ClearTurn
<1>2. ASSUME NEW op \in Transitions, Transition(t, op)  PROVE Turn(t)
  <2> DEFINE l == Frame(op, "none", "none")
  <2>1. l \in Locals  BY FrameType DEF IInv
  <2>2. /\ pc[t] \in Ended /\ UNCHANGED <<host, built>>
        /\ \/ ClearSection(t, l, queue)
           \/ Goto(t, l, "clear") /\ UNCHANGED <<auth, known, state>>
    BY <1>2 DEF Transition
  <2> HIDE DEF l
  <2>3. CASE ClearSection(t, l, queue)  BY <2>1, <2>2, <2>3, ClearTurn
  <2>4. CASE Goto(t, l, "clear") /\ UNCHANGED <<auth, known, state>>
    <3>1. Passes(t, l, "clear")  BY <2>2, <2>4 DEF Passes, auth
    <3> QED BY <2>1, <3>1 DEF Turn
  <2> QED BY <2>2, <2>3, <2>4
<1> QED BY <1>1, <1>2

LEMMA LoginTurn ==
  ASSUME IInv, NEW t \in Tasks, LoginEnds(t)
  PROVE  Turn(t)
<1>1. /\ pc[t] = "login" /\ UNCHANGED <<generation, state, host, built>>
      /\ Goto(t, loc[t], "failed") \/ Goto(t, loc[t], "ok")
  BY DEF LoginEnds
<1>2. PICK at \in {"ok", "failed"} : Goto(t, loc[t], at)  BY <1>1
<1>3. Passes(t, loc[t], at) /\ loc[t] \in Locals  BY <1>1, <1>2 DEF Passes, IInv, Typed
<1> QED BY <1>3 DEF Turn

LEMMA CancelTurn ==
  ASSUME IInv, NEW t \in Tasks, Cancel(t)
  PROVE  Turn(t)
<1>1. UNCHANGED <<auth, host>>  BY DEF Cancel
<1>2. CASE pc[t] = "hold" /\ CancelHold(t)  BY <1>1, <1>2, HoldTurn DEF CancelHold
<1>3. CASE pc[t] \in {"detect", "denied", "pause", "login", "clear"} /\ FailBeforeBuild(t, loc[t])
  BY <1>1, <1>3 DEF Turn, GivesUp, auth
<1>4. CASE pc[t] \in {"getws", "connect", "drain", "invalidate", "rejected"} /\ Fail(t, loc[t])
  BY <1>1, <1>4 DEF Turn, Fails, Unsure, Sending, auth
<1> QED BY <1>2, <1>3, <1>4 DEF Cancel

LEMMA StepIsTurn ==
  ASSUME IInv, [Next]_vars
  PROVE  (\E t \in Tasks : Turn(t)) \/ UNCHANGED <<generation, state, host, pc, loc, built>>
<1>1. ASSUME NEW t \in Tasks, Begin(t)  PROVE Turn(t)
  BY <1>1, CallTurn, TransitionTurn DEF Begin
<1>2. ASSUME NEW t \in Tasks, DetectFails(t)  PROVE Turn(t)
  BY <1>2 DEF DetectFails, Turn, GivesUp, auth
<1>3. ASSUME NEW t \in Tasks, Continue(t)  PROVE Turn(t)
  BY <1>2, <1>3, DetectedTurn, SendTurn, UnauthorizedTurn, RejectedTurn, SleptTurn,
     TransitionTurn, LoginTurn DEF Continue
<1>4. ForgetVersions => UNCHANGED <<generation, state, host, pc, loc, built>>
  BY DEF ForgetVersions, auth
<1>5. UNCHANGED vars => UNCHANGED <<generation, state, host, pc, loc, built>>
  BY DEF vars, state, history
<1> QED BY <1>1, <1>3, <1>4, <1>5, CancelTurn DEF Next
--------------------------------------------------------------------------------
(* A press that is taken back takes no later one with it.                   *)

(* While a press waits or is being written, its locals tell what it changed:*)
(* every button pressed before it was held when it was built, and the one   *)
(* it put there is its own.                                                 *)
Pressed(l, at) ==
  at \in Unsure /\ l.stage = "press" =>
    /\ l.pressed = IF l.report.binary THEN l.previous \cup {l.button} ELSE l.previous
    /\ \A b \in Buttons :
         /\ since[b] # 0 /\ since[b] < l.report.n => b \in l.previous
         /\ since[b] # 0 /\ since[b] = l.report.n =>
              b = l.button /\ l.report.binary /\ b \notin l.previous /\ l.gen = generation

PressInv == \A t \in Tasks : Pressed(loc[t], pc[t])

(* A turn numbers the buttons it presses above all reports, and keeps the   *)
(* session of those it keeps.                                               *)
Evolves ==
  \A b \in Buttons : since'[b] # 0 =>
    \/ since'[b] = since[b] /\ generation' = generation
    \/ since'[b] > built

LEMMA TurnPressed ==
  ASSUME IInv, PressInv, NEW t \in Tasks, NEW m \in Locals, NEW at \in PCs, Goto(t, m, at),
         Evolves, IInv', at \in Unsure => Pressed(m, at)'
  PROVE  PressInv'
<1>1. /\ pc' = [pc EXCEPT ![t] = at] /\ pc \in [Tasks -> PCs] /\ loc \in [Tasks -> Locals]
      /\ loc' = [loc EXCEPT ![t] = IF at \in Ended THEN Idle ELSE m]
  BY DEF Goto, IInv, Typed
<1>2. ASSUME NEW u \in Tasks, NEW k \in Locals, NEW a \in PCs, k = loc'[u], a = pc'[u]
      PROVE  Pressed(k, a)'
  <2>1. CASE u = t
    <3>1. a = at /\ (at \in Unsure => k = m)  BY <1>1, <1>2, <2>1 DEF Unsure, Sending
    <3> QED BY <3>1 DEF Pressed
  <2>2. CASE u # t
    <3>1. k = loc[u] /\ a = pc[u] /\ Pressed(k, a)  BY <1>1, <1>2, <2>2 DEF PressInv
    <3>2. k.report.n \in Nat /\ k.report.n <= built /\ built \in Nat
      BY <3>1 DEF IInv, Typed, Values, Placed, Locals
    <3>3. ASSUME NEW b \in Buttons, since'[b] # 0, since'[b] <= k.report.n
          PROVE  since'[b] = since[b] /\ generation' = generation
      <4>1. since'[b] \in Nat  BY DEF IInv, Typed, Values, Noted
      <4> QED BY <3>2, <3>3, <4>1 DEF Evolves
    <3>4. \A b \in Buttons : since'[b] \in Nat  BY DEF IInv, Typed, Values, Noted
    <3>5. ASSUME a \in Unsure, k.stage = "press", NEW b \in Buttons
          PROVE  /\ since'[b] # 0 /\ since'[b] < k.report.n => b \in k.previous
                 /\ since'[b] # 0 /\ since'[b] = k.report.n =>
                      b = k.button /\ k.report.binary /\ b \notin k.previous /\ k.gen = generation'
      BY <3>1, <3>2, <3>3, <3>4, <3>5 DEF Pressed
    <3> QED BY <3>1, <3>5 DEF Pressed
  <2> QED BY <2>1, <2>2
<1>3. ASSUME NEW u \in Tasks  PROVE Pressed(loc[u], pc[u])'
  <2>1. PICK k \in Locals, a \in PCs : k = loc'[u] /\ a = pc'[u]
    BY DEF IInv, Typed
  <2>2. Pressed(k, a)'  BY <1>2, <2>1
  <2> QED BY <2>1, <2>2 DEF Pressed
<1> QED BY <1>3 DEF PressInv

(* What the turns do to the numbers of the presses.                         *)
LEMMA SameEvolves ==
  ASSUME UNCHANGED <<generation, since>>
  PROVE  Evolves
BY DEF Evolves

LEMMA ReleaseEvolves ==
  ASSUME Release
  PROVE  Evolves
BY DEF Release, Evolves

LEMMA FailEvolves ==
  ASSUME NEW t \in Tasks, Fail(t, loc[t]), UNCHANGED generation
  PROVE  Evolves
BY DEF Fail, Evolves

LEMMA BuildPresses ==
  ASSUME IInv, PressInv, NEW t \in Tasks, NEW m \in Locals, NEW binary \in BOOLEAN,
         Builds(t, m, binary), IInv'
  PROVE  PressInv'
<1>1. Values /\ Noted /\ built \in Nat  BY DEF IInv, Typed, Values
<1>2. generation' = generation /\ Build(t, m, binary) /\ Ready(m)  BY DEF Builds
<1>3. ASSUME SetButtons(m, binary)  PROVE Evolves
  <2>1. CASE m.stage = "press" /\ binary
    BY <1>1, <1>2, <1>3, <2>1 DEF SetButtons, Evolves
  <2>2. CASE m.stage = "up" /\ binary  BY <1>3, <2>2, ReleaseEvolves DEF SetButtons
  <2>3. CASE ~(m.stage = "press" /\ binary) /\ ~(m.stage = "up" /\ binary)
    BY <1>2, <1>3, <2>3, SameEvolves DEF SetButtons, state, history
  <2> QED BY <2>1, <2>2, <2>3
<1>4. CASE /\ SetButtons(m, binary) /\ built' = built + 1
           /\ Goto(t, Report(m, binary), IF queue = <<>> THEN "connect" ELSE "getws")
  <2>1. buttons' \subseteq Buttons  BY DEF IInv, Typed, Values, Noted
  <2>2. PICK k \in Locals :
        /\ k = Report(m, binary) /\ k.button = m.button /\ k.stage = m.stage
        /\ k.gen = generation /\ k.previous = buttons /\ k.pressed = buttons'
        /\ k.report.binary = binary /\ k.report.n = built + 1
    BY <1>1, <2>1, ReportType
  <2>3. PICK at \in {"connect", "getws"} : Goto(t, k, at)  BY <1>4, <2>2
  <2>4. ASSUME k.stage = "press"
        PROVE  /\ k.pressed = IF binary THEN k.previous \cup {k.button} ELSE k.previous
               /\ \A b \in Buttons :
                    /\ since'[b] # 0 /\ since'[b] < k.report.n => b \in k.previous
                    /\ since'[b] # 0 /\ since'[b] = k.report.n =>
                         b = k.button /\ binary /\ b \notin k.previous
    <3>1. CASE binary
      <4>1. /\ buttons' = buttons \cup {m.button}
            /\ since' = [b \in Buttons |-> IF b \in buttons' \ buttons THEN built + 1 ELSE since[b]]
        BY <1>4, <2>2, <2>4, <3>1 DEF SetButtons
      <4>2. \A b \in Buttons : since[b] \in Nat /\ since[b] <= built /\ (since[b] # 0 <=> b \in buttons)
        BY <1>1 DEF Noted
      <4>3. k.pressed = k.previous \cup {k.button}  BY <2>2, <4>1
      <4>4. ASSUME NEW b \in Buttons
            PROVE  /\ since'[b] # 0 /\ since'[b] < k.report.n => b \in k.previous
                   /\ since'[b] # 0 /\ since'[b] = k.report.n =>
                        b = k.button /\ b \notin k.previous
        BY <1>1, <2>2, <4>1, <4>2
      <4> QED BY <3>1, <4>3, <4>4
    <3>2. CASE ~binary
      <4>1. buttons' = buttons /\ since' = since
        BY <1>4, <2>2, <2>4, <3>2 DEF SetButtons, state, history
      <4>2. \A b \in Buttons : since[b] \in Nat /\ since[b] <= built /\ (since[b] # 0 <=> b \in buttons)
        BY <1>1 DEF Noted
      <4>3. \A b \in Buttons : since[b] < built + 1  BY <1>1, <4>2
      <4> QED BY <2>2, <3>2, <4>1, <4>2, <4>3
    <3> QED BY <3>1, <3>2
  <2>5. Pressed(k, at)'  BY <1>2, <2>2, <2>4 DEF Pressed
  <2>6. Evolves  BY <1>3, <1>4
  <2> QED BY <2>3, <2>5, <2>6, TurnPressed
<1>5. CASE /\ IF m.stage = "up" THEN SetButtons(m, binary) ELSE UNCHANGED state
           /\ Goto(t, m, "failed")
  <2>1. Evolves
    <3>1. CASE m.stage = "up"  BY <1>3, <1>5, <3>1
    <3>2. CASE m.stage # "up"  BY <1>2, <1>5, <3>2, SameEvolves DEF state, history
    <3> QED BY <3>1, <3>2
  <2> QED BY <1>5, <2>1, TurnPressed DEF Unsure, Sending
<1> QED BY <1>2, <1>4, <1>5 DEF Build

(* A press that waits on keeps its locals.                                  *)
LEMMA WaitPresses ==
  ASSUME IInv, PressInv, NEW t \in Tasks, NEW m \in Locals, NEW at \in PCs, Waits(t, m, at), IInv'
  PROVE  PressInv'
<1>1. /\ Goto(t, m, at) /\ UNCHANGED <<generation, since, buttons>>
      /\ m.report = loc[t].report /\ m.previous = loc[t].previous /\ m.pressed = loc[t].pressed
      /\ m.button = loc[t].button /\ m.stage = loc[t].stage /\ m.gen = loc[t].gen
      /\ at \in Unsure => pc[t] \in Unsure
  BY DEF Waits, SameReport, state, history, Unsure, Sending
<1>2. PICK l \in Locals : l = loc[t] /\ Pressed(l, pc[t])
  BY DEF IInv, Typed, PressInv
<1>3. at \in Unsure => Pressed(m, at)'  BY <1>1, <1>2 DEF Pressed
<1>4. Evolves  BY <1>1, SameEvolves
<1> QED BY <1>1, <1>3, <1>4, TurnPressed

LEMMA NoPress ==
  \A at \in Ended \cup {"pause", "hold", "login", "clear", "detect", "denied"} : at \in PCs \ Unsure
BY DEF Unsure, Sending

LEMMA PressesKept ==
  ASSUME IInv, PressInv, [Next]_vars
  PROVE  PressInv'
<1>1. IInv'  BY StepKeepsInv
<1>2. ASSUME NEW t \in Tasks, Turn(t)  PROVE PressInv'
  <2>1. ASSUME NEW m \in Locals, Asks(t, m)  PROVE PressInv'
    <3>1. Goto(t, m, "detect") /\ UNCHANGED <<generation, since>>
      BY <2>1 DEF Asks, state, history
    <3> QED BY <1>1, <3>1, NoPress, SameEvolves, TurnPressed
  <2>2. ASSUME NEW m \in Locals, NEW at \in PCs, Clears(t, m, at)  PROVE PressInv'
    BY <1>1, <2>2, NoPress, ReleaseEvolves, TurnPressed DEF Clears, ClearSession
  <2>3. ASSUME NEW m \in Locals, NEW at \in PCs, Passes(t, m, at)  PROVE PressInv'
    <3>1. Goto(t, m, at) /\ at \notin Unsure /\ UNCHANGED <<generation, since>>
      BY <2>3, NoPress DEF Passes, state, history
    <3> QED BY <1>1, <3>1, SameEvolves, TurnPressed
  <2>4. loc[t] \in Locals  BY DEF IInv, Typed
  <2>5. CASE Fails(t)
    <3>1. Goto(t, loc[t], "failed")  BY <2>5 DEF Fails, Fail
    <3>2. Evolves  BY <2>5, FailEvolves DEF Fails
    <3> QED BY <1>1, <2>4, <3>1, <3>2, NoPress, TurnPressed
  <2>6. CASE GivesUp(t)
    <3>1. Goto(t, loc[t], "failed") /\ UNCHANGED <<generation, since>>
      BY <2>6 DEF GivesUp, FailBeforeBuild
    <3> QED BY <1>1, <2>4, <3>1, NoPress, SameEvolves, TurnPressed
  <2>7. CASE Returns(t)
    <3>1. UNCHANGED <<generation, since>> /\ NextStep(t, loc[t])  BY <2>7 DEF Returns, NextStep
    <3>2. PICK l \in Locals : l = loc[t]  BY <2>4
    <3>3. PICK at \in Ended \cup {"pause", "hold"} : Goto(t, l, at)
      BY <3>1, <3>2, StepReturns
    <3> QED BY <1>1, <3>1, <3>3, NoPress, SameEvolves, TurnPressed
  <2> QED BY <1>1, <1>2, <2>1, <2>2, <2>3, <2>5, <2>6, <2>7, BuildPresses, WaitPresses DEF Turn
<1>3. CASE UNCHANGED <<generation, state, host, pc, loc, built>>
  BY <1>3 DEF PressInv, Pressed, state, history
<1> QED BY <1>2, <1>3, StepIsTurn

(* What the client remembers of presses it may take back stays true of the  *)
(* buttons it holds, however many tasks press at once.                      *)
THEOREM PressesInductive == Spec => [](IInv /\ PressInv)
<1>1. Init => PressInv  BY DEF Init, PressInv, Pressed, Unsure, Sending
<1>2. IInv /\ PressInv /\ [Next]_vars => PressInv'  BY PressesKept
<1> QED BY <1>1, <1>2, Inductive, PTL DEF Spec

(* A turn that is not a release lets go of no button but the one whose      *)
(* press it takes back.                                                     *)
LEMMA TurnsLetGo ==
  ASSUME IInv, PressInv, NEW t \in Tasks, Turn(t), NEW b \in Buttons, held[b] # 0, held'[b] = 0
  PROVE  LetGo(b)
<1>1. /\ Noted /\ generation \in Nat /\ built \in Nat /\ loc[t] \in Locals
      /\ since[b] \in Nat /\ held[b] \in Nat
      /\ since[b] # 0 /\ since[b] <= held[b] /\ b \in buttons
  BY DEF IInv, Typed, Values, Noted
<1>2. ASSUME Release, built' = built + 1 \/ generation' = generation + 1  PROVE LetGo(b)
  <2>1. buttons' = {}  BY <1>2 DEF Release
  <2>2. built' # built \/ generation' # generation  BY <1>1, <1>2
  <2> QED BY <2>1, <2>2 DEF LetGo
<1>3. ASSUME UNCHANGED state  PROVE FALSE
  BY <1>3 DEF state, history
<1>4. ASSUME NEW m \in Locals, NEW binary \in BOOLEAN, Builds(t, m, binary)  PROVE LetGo(b)
  <2>1. built' = built + 1 /\ (SetButtons(m, binary) \/ UNCHANGED state)
    BY <1>4 DEF Builds, Build
  <2>2. CASE m.stage = "press" /\ binary /\ SetButtons(m, binary)
    BY <2>2 DEF SetButtons
  <2>3. CASE m.stage = "up" /\ binary /\ SetButtons(m, binary)
    BY <1>2, <2>1, <2>3 DEF SetButtons
  <2>4. CASE ~(m.stage = "press" /\ binary) /\ ~(m.stage = "up" /\ binary) /\ SetButtons(m, binary)
    BY <1>3, <2>4 DEF SetButtons
  <2> QED BY <1>3, <2>1, <2>2, <2>3, <2>4
<1>5. ASSUME NEW m \in Locals, NEW at \in PCs, Clears(t, m, at)  PROVE LetGo(b)
  BY <1>2, <1>5 DEF Clears, ClearSession
<1>6. CASE Fails(t)
  <2>1. PICK l \in Locals : l = loc[t]  BY <1>1
  <2>2. /\ pc[t] \in Unsure /\ Pressed(l, pc[t]) /\ l.report.n \in Nat
        /\ buttons' = IF l.stage = "press" /\ MayUndo(l) THEN l.previous ELSE buttons
        /\ held' = [c \in Buttons |-> IF c \in buttons' THEN held[c] ELSE 0]
        /\ Goto(t, l, "failed")
    BY <1>6, <2>1 DEF Fails, Fail, Undo, PressInv, Locals
  <2>3. b \notin buttons'  BY <2>2
  <2>4. l.stage = "press" /\ MayUndo(l) /\ b \notin l.previous  BY <1>1, <2>2, <2>3
  <2>5. l.gen = generation /\ b \in l.pressed  BY <1>1, <2>4 DEF MayUndo
  <2>6. b = l.button  BY <2>2, <2>4, <2>5 DEF Pressed
  <2>7. l.report.n <= held[b]
    <3>1. ~(since[b] < l.report.n)  BY <1>1, <2>2, <2>4 DEF Pressed
    <3> QED BY <1>1, <2>2, <3>1
  <2>8. pc[t] \notin Ended /\ pc'[t] = "failed"
    BY <2>2 DEF Goto, Unsure, Sending, IInv, Typed
  <2> QED BY <2>1, <2>4, <2>5, <2>6, <2>7, <2>8 DEF LetGo
<1>7. CASE GivesUp(t)
  BY <1>7 DEF GivesUp, FailBeforeBuild
<1>8. CASE Returns(t)
  <2>1. PICK l \in Locals : l = loc[t]  BY <1>1
  <2>2. /\ l.report.n \in Nat
        /\ held' = [c \in Buttons |->
             IF l.stage = "press" /\ l.report.binary /\ c = l.button /\ since[c] \in 1..l.report.n
             THEN l.report.n ELSE held[c]]
    BY <1>8, <2>1 DEF Returns, NextStep, Locals
  <2>3. since[b] \in 1..l.report.n => l.report.n # 0  BY <1>1, <2>2
  <2> QED BY <1>1, <2>2, <2>3
<1>9. ASSUME NEW m \in Locals, NEW at \in PCs, Waits(t, m, at) \/ Passes(t, m, at)  PROVE FALSE
  BY <1>3, <1>9 DEF Waits, Passes
<1>10. ASSUME NEW m \in Locals, Asks(t, m)  PROVE FALSE
  BY <1>3, <1>10 DEF Asks
<1> QED BY <1>4, <1>5, <1>6, <1>7, <1>8, <1>9, <1>10 DEF Turn

(* A button that a press which returned holds is let go of by a release, by *)
(* a change of session, or where an earlier-built press of the same button  *)
(* and session fails after it.                                              *)
THEOREM HeldPressesStayThm == Spec => HeldPressesStay
<1>1. IInv /\ PressInv /\ [Next]_vars =>
        [\A b \in Buttons : held[b] # 0 /\ held'[b] = 0 => LetGo(b)]_vars
  <2> SUFFICES ASSUME IInv, PressInv, [Next]_vars, NEW b \in Buttons, held[b] # 0, held'[b] = 0
               PROVE  LetGo(b)
    OBVIOUS
  <2>1. \E t \in Tasks : Turn(t)
    BY StepIsTurn DEF state, history
  <2> QED BY <2>1, TurnsLetGo
<1> QED BY <1>1, PressesInductive, PTL DEF Spec, HeldPressesStay
--------------------------------------------------------------------------------
(* On firmware with the binary protocol every button that the client holds  *)
(* is on its way to the host, was seen by it, or was kept.                  *)

AllBinary == \A t \in Tasks : pc[t] \in Unsure => loc[t].report.binary

(* A waiting report that is as new as the press of b holds b.               *)
Repeats(b) ==
  \A t \in Tasks : pc[t] \in Sending /\ loc[t].stage \notin Keys /\ loc[t].report.n >= since[b] =>
    b \in loc[t].report.held

Shown(b) == b \in host.buttons /\ host.n >= since[b]

(* The press of b is not written yet, or its write has failed.              *)
PendingAt(l, at, b) == at \in Unsure \ {"drain"} /\ l.stage = "press" /\ l.report.n = since[b]

Settled(b) ==
  Repeats(b) /\ (b \in kept \/ Shown(b) \/ \E t \in Tasks : PendingAt(loc[t], pc[t], b))

SettleInv == AllBinary /\ \A b \in buttons : Settled(b)

(* What the turn of t must do for the buttons, in terms of its new locals.  *)
TurnRepeats(m, at, b) ==
  at \in Sending /\ m.stage \notin Keys /\ m.report.n >= since[b] => b \in m.report.held

LEMMA TurnBinary ==
  ASSUME IInv, SettleInv, NEW t \in Tasks, NEW m \in Locals, NEW at \in PCs, Goto(t, m, at),
         at \in Unsure => m.report.binary
  PROVE  AllBinary'
<1>1. /\ pc' = [pc EXCEPT ![t] = at] /\ pc \in [Tasks -> PCs] /\ loc \in [Tasks -> Locals]
      /\ loc' = [loc EXCEPT ![t] = IF at \in Ended THEN Idle ELSE m]
  BY DEF Goto, IInv, Typed
<1>2. ASSUME NEW u \in Tasks, pc'[u] \in Unsure  PROVE loc'[u].report.binary
  <2>1. CASE u = t
    <3>1. at \in Unsure /\ at \notin Ended  BY <1>1, <1>2, <2>1 DEF Unsure, Sending
    <3>2. loc'[u] = m  BY <1>1, <2>1, <3>1
    <3> QED BY <3>1, <3>2
  <2>2. CASE u # t  BY <1>1, <1>2, <2>2 DEF SettleInv, AllBinary
  <2> QED BY <2>1, <2>2
<1> QED BY <1>2 DEF AllBinary

(* A turn that writes nothing and keeps the press of b.                     *)
LEMMA TurnSettled ==
  ASSUME IInv, SettleInv, NEW t \in Tasks, NEW m \in Locals, NEW at \in PCs, Goto(t, m, at),
         NEW b \in Buttons, b \in buttons, since'[b] = since[b], host' = host,
         b \in kept => b \in kept',
         TurnRepeats(m, at, b),
         PendingAt(loc[t], pc[t], b) => b \in kept' \/ PendingAt(m, at, b)
  PROVE  Settled(b)'
<1>1. /\ pc' = [pc EXCEPT ![t] = at] /\ pc \in [Tasks -> PCs] /\ loc \in [Tasks -> Locals]
      /\ loc' = [loc EXCEPT ![t] = IF at \in Ended THEN Idle ELSE m]
      /\ at \in Unsure => at \notin Ended
  BY DEF Goto, IInv, Typed, Unsure, Sending
<1>2. /\ pc'[t] = at /\ (at \in Unsure => loc'[t] = m)
      /\ \A u \in Tasks : u # t => pc'[u] = pc[u] /\ loc'[u] = loc[u]
  BY <1>1
<1>3. Settled(b)  BY DEF SettleInv
<1>4. ASSUME NEW u \in Tasks, pc'[u] \in Sending, loc'[u].stage \notin Keys,
             loc'[u].report.n >= since'[b]
      PROVE  b \in loc'[u].report.held
  <2>1. CASE u = t
    <3>1. loc'[u] = m /\ at \in Sending  BY <1>2, <1>4, <2>1 DEF Unsure
    <3> QED BY <1>4, <3>1 DEF TurnRepeats
  <2>2. CASE u # t  BY <1>2, <1>3, <1>4, <2>2 DEF Settled, Repeats
  <2> QED BY <2>1, <2>2
<1>5. Repeats(b)'  BY <1>4 DEF Repeats
<1>6. CASE b \in kept \/ Shown(b)  BY <1>5, <1>6 DEF Settled, Shown
<1>7. ASSUME NEW u \in Tasks, PendingAt(loc[u], pc[u], b)  PROVE Settled(b)'
  <2>1. CASE u = t
    <3>1. CASE b \in kept'  BY <1>5, <3>1 DEF Settled
    <3>2. CASE PendingAt(m, at, b)
      <4>1. at \in Unsure /\ loc'[t] = m /\ pc'[t] = at  BY <1>2, <3>2 DEF PendingAt
      <4>2. PendingAt(loc'[t], pc'[t], b)  BY <3>2, <4>1
      <4>3. PendingAt(loc[t], pc[t], b)'  BY <4>2 DEF PendingAt
      <4> QED BY <1>5, <4>3 DEF Settled
    <3> QED BY <1>7, <2>1, <3>1, <3>2
  <2>2. CASE u # t
    <3>1. PendingAt(loc[u], pc[u], b)'  BY <1>2, <1>7, <2>2 DEF PendingAt
    <3> QED BY <1>5, <3>1 DEF Settled
  <2> QED BY <2>1, <2>2
<1> QED BY <1>3, <1>6, <1>7 DEF Settled

(* What the host sees of a binary report.                                   *)
LEMMA DeliverShows ==
  ASSUME IInv, NEW t \in Tasks, pc[t] = "connect", loc[t].report.binary, Deliver(loc[t])
  PROVE  /\ host'.n = loc[t].report.n /\ host.n < host'.n /\ host.n \in Nat /\ host'.n \in Nat
         /\ host'.buttons = IF loc[t].stage \in Keys THEN host.buttons ELSE loc[t].report.held
<1>1. host'.n = loc[t].report.n /\ host.n < host'.n /\ host.n \in Nat /\ host'.n \in Nat
  BY DeliverType DEF IInv, Typed, Values
<1>2. CASE loc[t].stage \in Keys
  <2>1. /\ host \in [buttons : SUBSET Buttons, pressed : SUBSET Buttons, key : BOOLEAN, n : Nat]
        /\ host' = [host EXCEPT !.key = (loc[t].stage = "key_press"), !.n = loc[t].report.n]
    BY <1>2 DEF Deliver, Keys, IInv, Typed, Values
  <2> QED BY <1>1, <1>2, <2>1
<1>3. CASE loc[t].stage \notin Keys
  <2>1. host'.buttons = loc[t].report.held
    BY <1>3 DEF Deliver, Keys
  <2> QED BY <1>1, <1>3, <2>1
<1> QED BY <1>2, <1>3

(* A turn that writes a report: the host sees every button of a press as    *)
(* old as it, and the press of the report itself.                           *)
LEMMA WriteSettled ==
  ASSUME IInv, SettleInv, NEW t \in Tasks, NEW m \in Locals, NEW at \in PCs \ Sending,
         Goto(t, m, at), pc[t] = "connect", Deliver(loc[t]),
         NEW b \in Buttons, b \in buttons, UNCHANGED <<since, kept>>
  PROVE  Settled(b)'
<1>1. /\ pc' = [pc EXCEPT ![t] = at] /\ pc \in [Tasks -> PCs] /\ loc \in [Tasks -> Locals]
      /\ loc' = [loc EXCEPT ![t] = IF at \in Ended THEN Idle ELSE m]
  BY DEF Goto, IInv, Typed
<1>2. /\ pc'[t] = at
      /\ \A u \in Tasks : u # t => pc'[u] = pc[u] /\ loc'[u] = loc[u]
  BY <1>1
<1>3. Settled(b)  BY DEF SettleInv
<1>4. Repeats(b)'  BY <1>2, <1>3 DEF Settled, Repeats
<1>5. PICK l \in Locals : l = loc[t]  BY <1>1
<1>6. /\ l.report.n \in Nat /\ since[b] \in Nat /\ since'[b] = since[b] /\ kept' = kept
      /\ pc[t] \in Sending /\ pc[t] \in Unsure
  BY <1>5 DEF Locals, IInv, Typed, Values, Noted, Sending, Unsure
<1>7. loc[t].report.binary  BY <1>6 DEF SettleInv, AllBinary
<1>8. /\ host'.n = l.report.n /\ host.n < host'.n /\ host.n \in Nat /\ host'.n \in Nat
      /\ host'.buttons = IF l.stage \in Keys THEN host.buttons ELSE l.report.held
  BY <1>5, <1>7, DeliverShows
<1>9. l.stage \notin Keys /\ l.report.n >= since[b] => b \in l.report.held
  BY <1>3, <1>5, <1>6 DEF Settled, Repeats
<1>10. CASE b \in kept  BY <1>4, <1>6, <1>10 DEF Settled
<1>11. CASE Shown(b)
  <2>1. host.n >= since[b] /\ b \in host.buttons  BY <1>11 DEF Shown
  <2>2. host'.n >= since[b]  BY <1>6, <1>8, <2>1
  <2>3. b \in host'.buttons
    <3>1. l.report.n >= since[b]  BY <1>8, <2>2
    <3> QED BY <1>8, <1>9, <2>1, <3>1
  <2>4. Shown(b)'  BY <1>6, <2>2, <2>3 DEF Shown
  <2> QED BY <1>4, <2>4 DEF Settled
<1>12. ASSUME NEW u \in Tasks, PendingAt(loc[u], pc[u], b)  PROVE Settled(b)'
  <2>1. CASE u = t
    <3>1. l.stage = "press" /\ l.report.n = since[b]  BY <1>5, <1>12, <2>1 DEF PendingAt
    <3>2. b \in l.report.held /\ l.stage \notin Keys  BY <1>6, <1>9, <3>1 DEF Keys
    <3>3. b \in host'.buttons /\ host'.n >= since'[b]  BY <1>6, <1>8, <3>1, <3>2
    <3>4. Shown(b)'  BY <3>3 DEF Shown
    <3> QED BY <1>4, <3>4 DEF Settled
  <2>2. CASE u # t
    <3>1. PendingAt(loc[u], pc[u], b)'  BY <1>2, <1>6, <1>12, <2>2 DEF PendingAt
    <3> QED BY <1>4, <3>1 DEF Settled
  <2> QED BY <2>1, <2>2
<1> QED BY <1>3, <1>10, <1>11, <1>12 DEF Settled

LEMMA BuildSettles ==
  ASSUME Binary = TRUE, IInv, PressInv, SettleInv, NEW t \in Tasks, NEW m \in Locals,
         NEW binary \in BOOLEAN, Builds(t, m, binary)
  PROVE  SettleInv'
<1>1. Values /\ Noted /\ built \in Nat /\ host.n \in Nat /\ host.n <= built
  BY DEF IInv, Typed, Values
<1>2. /\ Build(t, m, binary) /\ binary = TRUE /\ host' = host
      /\ pc[t] \notin Unsure /\ Ready(m)
  BY DEF Builds
<1>3. \A b \in Buttons : ~PendingAt(loc[t], pc[t], b)  BY <1>2 DEF PendingAt
<1>4. CASE m.stage = "up"
  <2>1. buttons' = {}
    BY <1>2, <1>4 DEF Build, SetButtons, Release
  <2>2. PICK k \in Locals, at \in {"connect", "getws", "failed"} :
          Goto(t, k, at) /\ (at \in Unsure => k.report.binary)
    <3>1. CASE /\ SetButtons(m, binary)
               /\ Goto(t, Report(m, binary), IF queue = <<>> THEN "connect" ELSE "getws")
      <4>1. Report(m, binary) \in Locals /\ Report(m, binary).report.binary = binary
        BY <1>1, <2>1, ReportType
      <4> QED BY <1>2, <3>1, <4>1
    <3>2. CASE Goto(t, m, "failed")  BY <3>2 DEF Unsure, Sending
    <3> QED BY <1>2, <3>1, <3>2 DEF Build
  <2>3. AllBinary'  BY <2>2, TurnBinary
  <2> QED BY <2>1, <2>3 DEF SettleInv
<1>5. CASE /\ m.stage # "up" /\ SetButtons(m, binary) /\ built' = built + 1
           /\ Goto(t, Report(m, binary), IF queue = <<>> THEN "connect" ELSE "getws")
  <2>1. /\ buttons \subseteq buttons' /\ kept' = kept /\ buttons' \subseteq Buttons
        /\ \A b \in Buttons : since'[b] = IF b \in buttons' \ buttons THEN built + 1 ELSE since[b]
        /\ buttons' # buttons => m.stage = "press"
    <3>1. CASE m.stage = "press"
      BY <1>1, <1>2, <1>5, <3>1 DEF SetButtons, Noted, Ready
    <3>2. CASE m.stage # "press"
      BY <1>1, <1>5, <3>2 DEF SetButtons, Noted, state, history
    <3> QED BY <3>1, <3>2
  <2>2. PICK k \in Locals :
        /\ k = Report(m, binary) /\ k.stage = m.stage
        /\ k.report.binary = binary /\ k.report.held = buttons' /\ k.report.n = built + 1
    BY <1>1, <2>1, ReportType
  <2>3. PICK at \in {"connect", "getws"} : Goto(t, k, at)  BY <1>5, <2>2
  <2>4. at \in PCs /\ at \in Sending /\ at \in Unsure \ {"drain"}  BY DEF Sending, Unsure
  <2>5. AllBinary'  BY <1>2, <2>2, <2>3, <2>4, TurnBinary
  <2>6. ASSUME NEW b \in Buttons, b \in buttons  PROVE Settled(b)'
    <3>1. since'[b] = since[b] /\ b \in buttons'  BY <2>1, <2>6
    <3>2. TurnRepeats(k, at, b)  BY <2>2, <3>1 DEF TurnRepeats
    <3> QED BY <1>2, <1>3, <2>1, <2>3, <2>4, <2>6, <3>1, <3>2, TurnSettled
  <2>7. ASSUME NEW b \in Buttons, b \in buttons' \ buttons  PROVE Settled(b)'
    <3>1. since'[b] = built + 1 /\ m.stage = "press"  BY <2>1, <2>7
    <3>2. /\ pc' = [pc EXCEPT ![t] = at] /\ pc \in [Tasks -> PCs] /\ loc \in [Tasks -> Locals]
          /\ loc' = [loc EXCEPT ![t] = IF at \in Ended THEN Idle ELSE k]
      BY <2>3 DEF Goto, IInv, Typed
    <3>3. /\ pc'[t] = at /\ loc'[t] = k
          /\ \A u \in Tasks : u # t => pc'[u] = pc[u] /\ loc'[u] = loc[u]
      BY <2>4, <3>2
    <3>4. ASSUME NEW u \in Tasks, loc'[u].report.n >= since'[b]
          PROVE  b \in loc'[u].report.held
      <4>1. CASE u = t  BY <2>2, <2>7, <3>3, <4>1
      <4>2. CASE u # t
        <5>1. PICK l \in Locals : l = loc[u] /\ Placed(l, pc[u])  BY <3>2 DEF IInv
        <5>2. l.report.n <= built /\ l.report.n \in Nat  BY <5>1 DEF Placed, Locals
        <5> QED BY <1>1, <3>1, <3>3, <3>4, <4>2, <5>1, <5>2
      <4> QED BY <4>1, <4>2
    <3>5. Repeats(b)'  BY <3>4 DEF Repeats
    <3>6. PendingAt(loc[t], pc[t], b)'
      BY <2>2, <2>4, <3>1, <3>3 DEF PendingAt
    <3> QED BY <3>5, <3>6 DEF Settled
  <2>8. \A b \in buttons' : Settled(b)'  BY <2>1, <2>6, <2>7
  <2> QED BY <2>5, <2>8 DEF SettleInv
<1>6. CASE m.stage # "up" /\ UNCHANGED state /\ Goto(t, m, "failed")
  <2>1. UNCHANGED <<buttons, since, kept>>  BY <1>6 DEF state, history
  <2>2. AllBinary'  BY <1>6, TurnBinary DEF Unsure, Sending
  <2>3. ASSUME NEW b \in buttons  PROVE Settled(b)'
    <3>1. b \in Buttons  BY <1>1 DEF Noted
    <3>2. TurnRepeats(m, "failed", b)  BY DEF TurnRepeats, Sending
    <3> QED BY <1>2, <1>3, <1>6, <2>1, <2>3, <3>1, <3>2, TurnSettled
  <2> QED BY <2>1, <2>2, <2>3 DEF SettleInv
<1> QED BY <1>2, <1>4, <1>5, <1>6 DEF Build

(* A press that fails is taken back, or its button is kept.                 *)
LEMMA FailSettles ==
  ASSUME IInv, PressInv, SettleInv, NEW t \in Tasks, Fails(t)
  PROVE  SettleInv'
<1>1. PICK l \in Locals : l = loc[t]  BY DEF IInv, Typed
<1>2. /\ pc[t] \in Unsure /\ host' = host /\ generation' = generation /\ Goto(t, l, "failed")
      /\ buttons' = IF l.stage = "press" /\ MayUndo(l) THEN l.previous ELSE buttons
      /\ since' = [b \in Buttons |-> IF b \in buttons' THEN since[b] ELSE 0]
      /\ kept' = buttons' \cap (kept \cup {b \in buttons : /\ l.stage = "press" /\ since[b] = l.report.n
                                                           /\ buttons # l.pressed})
  BY <1>1 DEF Fails, Fail, Undo
<1>3. buttons' \subseteq buttons /\ buttons \subseteq Buttons
  BY <1>2, FailNoted DEF Fails, IInv, Typed, Values, Noted
<1>4. AllBinary'  BY <1>2, TurnBinary DEF Unsure, Sending
<1>5. ASSUME NEW b \in buttons'  PROVE Settled(b)'
  <2>1. b \in Buttons /\ b \in buttons /\ since'[b] = since[b] /\ since[b] # 0
    BY <1>2, <1>3 DEF IInv, Typed, Values, Noted
  <2>2. b \in kept => b \in kept'  BY <1>2
  <2>3. TurnRepeats(l, "failed", b)  BY DEF TurnRepeats, Sending
  <2>4. ASSUME PendingAt(loc[t], pc[t], b)  PROVE b \in kept'
    <3>1. l.stage = "press" /\ l.report.n = since[b]  BY <1>1, <2>4 DEF PendingAt
    <3>2. Pressed(l, pc[t])  BY <1>1 DEF PressInv
    <3>3. b \notin l.previous /\ l.gen = generation  BY <1>2, <2>1, <3>1, <3>2 DEF Pressed
    <3>4. ~MayUndo(l)  BY <1>2, <3>1, <3>3
    <3>5. buttons # l.pressed  BY <3>3, <3>4 DEF MayUndo
    <3> QED BY <1>2, <2>1, <3>1, <3>5
  <2> QED BY <1>2, <2>1, <2>2, <2>3, <2>4, TurnSettled
<1> QED BY <1>4, <1>5 DEF SettleInv

LEMMA WaitSettles ==
  ASSUME IInv, SettleInv, NEW t \in Tasks, NEW m \in Locals, NEW at \in PCs, Waits(t, m, at)
  PROVE  SettleInv'
<1>1. /\ Goto(t, m, at) /\ UNCHANGED <<buttons, since, kept>>
      /\ m.report = loc[t].report /\ m.stage = loc[t].stage
      /\ at \in Unsure => pc[t] \in Unsure
  BY DEF Waits, SameReport, state, history, Unsure, Sending
<1>2. buttons \subseteq Buttons  BY DEF IInv, Typed, Values, Noted
<1>3. AllBinary'  BY <1>1, TurnBinary DEF SettleInv, AllBinary
<1>4. ASSUME NEW b \in buttons  PROVE Settled(b)'
  <2>1. CASE pc[t] = "connect" /\ at = "drain" /\ Deliver(loc[t])
    BY <1>1, <1>2, <2>1, WriteSettled DEF Sending
  <2>2. CASE pc[t] = "detect" /\ at = "denied" /\ host' = host
    <3>1. TurnRepeats(m, at, b) /\ ~PendingAt(loc[t], pc[t], b)
      BY <2>2 DEF TurnRepeats, PendingAt, Unsure, Sending
    <3> QED BY <1>1, <1>2, <2>2, <3>1, TurnSettled
  <2>3. CASE /\ pc[t] \in Unsure /\ at \in Unsure \ {"drain"} /\ host' = host
             /\ at \in Sending => pc[t] \in Sending
    <3>1. TurnRepeats(m, at, b)
      BY <1>1, <2>3 DEF TurnRepeats, SettleInv, Settled, Repeats
    <3>2. PendingAt(loc[t], pc[t], b) => PendingAt(m, at, b)
      BY <1>1, <2>3 DEF PendingAt
    <3> QED BY <1>1, <1>2, <2>3, <3>1, <3>2, TurnSettled
  <2> QED BY <2>1, <2>2, <2>3 DEF Waits
<1> QED BY <1>1, <1>3, <1>4 DEF SettleInv

(* A turn of a task that has no report waiting and builds none.             *)
LEMMA IdleSettles ==
  ASSUME IInv, SettleInv, NEW t \in Tasks, NEW m \in Locals, NEW at \in PCs \ Unsure, Goto(t, m, at),
         pc[t] \notin Unsure \ {"drain"}, UNCHANGED <<buttons, since, kept, host>>
  PROVE  SettleInv'
<1>1. buttons \subseteq Buttons  BY DEF IInv, Typed, Values, Noted
<1>2. AllBinary'  BY TurnBinary
<1>3. ASSUME NEW b \in buttons  PROVE Settled(b)'
  <2>1. TurnRepeats(m, at, b) /\ ~PendingAt(loc[t], pc[t], b)
    BY DEF TurnRepeats, PendingAt, Unsure
  <2> QED BY <1>1, <2>1, TurnSettled
<1> QED BY <1>2, <1>3 DEF SettleInv

LEMMA ReturnSettles ==
  ASSUME IInv, SettleInv, NEW t \in Tasks, Returns(t)
  PROVE  SettleInv'
<1>1. /\ UNCHANGED <<buttons, since, kept>> /\ buttons \subseteq Buttons
      /\ NextStep(t, loc[t])
  BY DEF Returns, NextStep, IInv, Typed, Values, Noted
<1>2. PICK l \in Locals : l = loc[t]  BY DEF IInv, Typed
<1>3. PICK at \in Ended \cup {"pause", "hold"} : Goto(t, l, at)
  BY <1>1, <1>2, StepReturns
<1>4. at \in PCs \ Unsure /\ at \notin Sending  BY NoPress DEF Unsure
<1>5. CASE pc[t] = "connect" /\ Deliver(loc[t])
  <2>1. AllBinary'  BY <1>3, <1>4, TurnBinary
  <2>2. \A b \in buttons : Settled(b)'
    BY <1>1, <1>3, <1>4, <1>5, WriteSettled
  <2> QED BY <1>1, <2>1, <2>2 DEF SettleInv
<1>6. CASE pc[t] = "drain" /\ host' = host
  BY <1>1, <1>3, <1>4, <1>6, IdleSettles
<1> QED BY <1>5, <1>6 DEF Returns

LEMMA SettledKept ==
  ASSUME Binary = TRUE, IInv, PressInv, SettleInv, [Next]_vars
  PROVE  SettleInv'
<1>1. ASSUME NEW t \in Tasks, Turn(t)  PROVE SettleInv'
  <2>1. ASSUME NEW m \in Locals, Asks(t, m)  PROVE SettleInv'
    <3>1. Goto(t, m, "detect") /\ UNCHANGED <<buttons, since, kept, host>> /\ pc[t] \notin Unsure
      BY <2>1 DEF Asks, state, history
    <3> QED BY <3>1, NoPress, IdleSettles
  <2>2. ASSUME NEW m \in Locals, NEW at \in PCs, Clears(t, m, at)  PROVE SettleInv'
    <3>1. Goto(t, m, at) /\ at \notin Unsure /\ buttons' = {}
      BY <2>2, NoPress DEF Clears, ClearSession, Release
    <3>2. AllBinary'  BY <3>1, TurnBinary
    <3> QED BY <3>1, <3>2 DEF SettleInv
  <2>3. ASSUME NEW m \in Locals, NEW at \in PCs, Passes(t, m, at)  PROVE SettleInv'
    <3>1. /\ Goto(t, m, at) /\ at \notin Unsure /\ UNCHANGED <<buttons, since, kept, host>>
          /\ pc[t] \notin Unsure
      BY <2>3, NoPress DEF Passes, state, history
    <3> QED BY <3>1, IdleSettles
  <2>4. CASE GivesUp(t)
    <3>1. loc[t] \in Locals  BY DEF IInv, Typed
    <3>2. /\ Goto(t, loc[t], "failed") /\ UNCHANGED <<buttons, since, kept, host>>
          /\ pc[t] \notin Unsure
      BY <2>4, NoPress DEF GivesUp, FailBeforeBuild
    <3> QED BY <3>1, <3>2, NoPress, IdleSettles
  <2> QED BY <1>1, <2>1, <2>2, <2>3, <2>4, BuildSettles, WaitSettles, FailSettles, ReturnSettles
          DEF Turn
<1>2. CASE UNCHANGED <<generation, state, host, pc, loc, built>>
  <2>1. UNCHANGED <<buttons, since, kept, host, pc, loc>>  BY <1>2 DEF state, history
  <2> QED BY <2>1 DEF SettleInv, AllBinary, Settled, Repeats, Shown, PendingAt
<1> QED BY <1>1, <1>2, StepIsTurn

(* On firmware with the binary protocol every button that the client holds  *)
(* is on its way to the host, was seen by it, or was kept by a press that   *)
(* failed when other calls had changed the held buttons.                    *)
THEOREM SettledInductive ==
  ASSUME Binary = TRUE
  PROVE  Spec => [](IInv /\ PressInv /\ SettleInv)
<1>1. Init => SettleInv
  BY DEF Init, SettleInv, AllBinary, Unsure, Sending
<1>2. IInv /\ PressInv /\ SettleInv /\ [Next]_vars => SettleInv'  BY SettledKept
<1> QED BY <1>1, <1>2, PressesInductive, PTL DEF Spec

(* When no operation runs, the client holds no button that the host does    *)
(* not, but those of presses that failed after another call had changed the *)
(* held buttons.                                                            *)
THEOREM UnsentPressNeverDragsThm ==
  ASSUME Binary = TRUE
  PROVE  Spec => []UnsentPressNeverDrags
<1>1. IInv /\ SettleInv => UnsentPressNeverDrags
  BY DEF SettleInv, Settled, Shown, PendingAt, UnsentPressNeverDrags, Unsure, Sending
<1> QED BY <1>1, SettledInductive, PTL

(* The click that pressed b and has still to release it.                    *)
OwnsAt(l, at, b) ==
  /\ l.op \in Clicks /\ l.button = b /\ l.report.n = since[b]
  /\ \/ at \in Unsure \cup {"hold"} /\ l.stage = "press"
     \/ at \in {"detect", "denied"} /\ l.stage = "up"

Owned(b) == \E t \in Tasks : OwnsAt(loc[t], pc[t], b)

OwnInv == \A b \in clicked \ (kept \cup unreleased) : Owned(b)

LEMMA TurnOwned ==
  ASSUME IInv, OwnInv, NEW t \in Tasks, NEW m \in Locals, NEW at \in PCs, Goto(t, m, at),
         NEW b \in clicked \ (kept \cup unreleased), since'[b] = since[b],
         OwnsAt(loc[t], pc[t], b) => OwnsAt(m, at, b)
  PROVE  Owned(b)'
<1>1. /\ pc' = [pc EXCEPT ![t] = at] /\ pc \in [Tasks -> PCs] /\ loc \in [Tasks -> Locals]
      /\ loc' = [loc EXCEPT ![t] = IF at \in Ended THEN Idle ELSE m]
  BY DEF Goto, IInv, Typed
<1>2. PICK u \in Tasks : OwnsAt(loc[u], pc[u], b)  BY DEF OwnInv, Owned
<1>3. CASE u = t
  <2>1. OwnsAt(m, at, b)  BY <1>2, <1>3
  <2>2. at \notin Ended  BY <2>1 DEF OwnsAt, Unsure, Sending
  <2>3. pc'[t] = at /\ loc'[t] = m  BY <1>1, <2>2
  <2>4. OwnsAt(loc[t], pc[t], b)'  BY <2>1, <2>3 DEF OwnsAt
  <2> QED BY <2>4 DEF Owned
<1>4. CASE u # t
  <2>1. OwnsAt(loc[u], pc[u], b)'  BY <1>1, <1>2, <1>4 DEF OwnsAt
  <2> QED BY <2>1 DEF Owned
<1> QED BY <1>3, <1>4

(* A turn after which nothing new is known of the clicks.                   *)
LEMMA TurnOwns ==
  ASSUME IInv, OwnInv, NEW t \in Tasks, NEW m \in Locals, NEW at \in PCs, Goto(t, m, at),
         clicked' \subseteq clicked,
         \A b \in clicked' \ (kept' \cup unreleased') :
           /\ b \notin kept /\ b \notin unreleased /\ since'[b] = since[b]
           /\ OwnsAt(loc[t], pc[t], b) => OwnsAt(m, at, b)
  PROVE  OwnInv'
<1>1. ASSUME NEW b \in clicked' \ (kept' \cup unreleased')  PROVE Owned(b)'
  BY TurnOwned
<1> QED BY <1>1 DEF OwnInv

LEMMA BuildOwns ==
  ASSUME Binary = TRUE, IInv, OwnInv, NEW t \in Tasks, NEW m \in Locals,
         NEW binary \in BOOLEAN, Builds(t, m, binary)
  PROVE  OwnInv'
<1>1. Values /\ Noted /\ clicked \subseteq Buttons  BY DEF IInv, Typed, Values, Noted
<1>2. /\ Build(t, m, binary) /\ binary = TRUE /\ pc[t] \notin Unsure \cup {"denied"} /\ Ready(m) /\ Releases(t, m)
  BY DEF Builds
<1>3. CASE m.stage = "up"
  <2>1. clicked' = {}  BY <1>2, <1>3 DEF Build, SetButtons, Release
  <2> QED BY <2>1 DEF OwnInv
<1>4. ASSUME m.stage # "up", NEW b  PROVE ~OwnsAt(loc[t], pc[t], b)
  BY <1>2, <1>4 DEF OwnsAt, Releases, IInv, Placed, Unsure, Sending
<1>5. CASE m.stage # "up" /\ UNCHANGED state /\ Goto(t, m, "failed")
  BY <1>4, <1>5, TurnOwns DEF state, history
<1>6. CASE /\ m.stage # "up" /\ SetButtons(m, binary) /\ built' = built + 1
           /\ Goto(t, Report(m, binary), IF queue = <<>> THEN "connect" ELSE "getws")
  <2>0. buttons' \subseteq Buttons
    BY <1>1, <1>2, <1>6 DEF SetButtons, Noted, Ready, state, history
  <2>1. PICK k \in Locals :
        /\ k = Report(m, binary) /\ k.stage = m.stage /\ k.op = m.op /\ k.button = m.button
        /\ k.report.n = built + 1
    BY <1>1, <2>0, ReportType
  <2>2. PICK at \in {"connect", "getws"} : Goto(t, k, at)  BY <1>6, <2>1
  <2>3. at \in PCs /\ at \in Unsure  BY DEF Unsure, Sending
  <2>4. CASE m.stage # "press"
    <3>1. UNCHANGED <<since, clicked, kept, unreleased>>
      BY <1>6, <2>4 DEF SetButtons, state, history
    <3> QED BY <1>4, <1>6, <2>2, <2>3, <3>1, TurnOwns
  <2>5. CASE m.stage = "press"
    <3>1. /\ buttons' = buttons \cup {m.button} /\ m.button \in Buttons
          /\ since' = [b \in Buttons |-> IF b \in buttons' \ buttons THEN built + 1 ELSE since[b]]
          /\ clicked' = IF m.op = "down" THEN clicked \ {m.button} ELSE clicked \cup ({m.button} \ buttons)
          /\ UNCHANGED <<kept, unreleased>>
      BY <1>2, <1>6, <2>5 DEF SetButtons, Ready
    <3>2. ASSUME NEW b \in clicked' \ (kept' \cup unreleased'), b \in clicked  PROVE Owned(b)'
      <4>1. b \in buttons /\ b \in Buttons  BY <1>1, <3>2 DEF Noted
      <4>2. since'[b] = since[b]  BY <3>1, <4>1
      <4> QED BY <1>4, <1>6, <2>2, <2>3, <3>1, <3>2, <4>2, TurnOwned
    <3>3. ASSUME NEW b \in clicked', b \notin clicked  PROVE Owned(b)'
      <4>1. b = m.button /\ b \notin buttons /\ m.op # "down"  BY <3>1, <3>3
      <4>2. m.op \in Clicks  BY <1>2, <2>5, <4>1 DEF Ready
      <4>3. since'[b] = built + 1  BY <3>1, <4>1
      <4>4. pc'[t] = at /\ loc'[t] = k
        BY <2>2, <2>3 DEF Goto, IInv, Typed, Unsure, Sending
      <4>5. OwnsAt(loc[t], pc[t], b)'
        BY <2>1, <2>3, <2>5, <4>1, <4>2, <4>3, <4>4 DEF OwnsAt
      <4> QED BY <4>5 DEF Owned
    <3> QED BY <3>2, <3>3 DEF OwnInv
  <2> QED BY <2>4, <2>5
<1> QED BY <1>2, <1>3, <1>5, <1>6 DEF Build

(* A click's press that fails and stays is kept.                            *)
LEMMA FailOwns ==
  ASSUME IInv, PressInv, OwnInv, NEW t \in Tasks, Fails(t)
  PROVE  OwnInv'
<1>1. PICK l \in Locals : l = loc[t]  BY DEF IInv, Typed
<1>2. /\ pc[t] \in Unsure /\ generation' = generation /\ Goto(t, l, "failed")
      /\ buttons' = IF l.stage = "press" /\ MayUndo(l) THEN l.previous ELSE buttons
      /\ since' = [b \in Buttons |-> IF b \in buttons' THEN since[b] ELSE 0]
      /\ clicked' = clicked \cap buttons' /\ unreleased' = unreleased \cap buttons'
      /\ kept' = buttons' \cap (kept \cup {b \in buttons : /\ l.stage = "press" /\ since[b] = l.report.n
                                                           /\ buttons # l.pressed})
  BY <1>1 DEF Fails, Fail, Undo
<1>3. ASSUME NEW b \in clicked' \ (kept' \cup unreleased')
      PROVE  /\ b \notin kept /\ b \notin unreleased /\ since'[b] = since[b]
             /\ ~OwnsAt(loc[t], pc[t], b)
  <2>1. /\ b \in Buttons /\ b \in buttons' /\ b \in buttons /\ since[b] # 0
        /\ b \notin kept /\ b \notin unreleased
    BY <1>2, <1>3 DEF IInv, Typed, Values, Noted
  <2>2. since'[b] = since[b]  BY <1>2, <2>1
  <2>3. ASSUME OwnsAt(loc[t], pc[t], b)  PROVE FALSE
    <3>1. l.stage = "press" /\ l.report.n = since[b]
      BY <1>1, <1>2, <2>3 DEF OwnsAt, Unsure, Sending
    <3>2. Pressed(l, pc[t])  BY <1>1 DEF PressInv
    <3>3. b \notin l.previous /\ l.gen = generation  BY <1>2, <2>1, <3>1, <3>2 DEF Pressed
    <3>4. ~MayUndo(l)  BY <1>2, <2>1, <3>1, <3>3
    <3>5. buttons # l.pressed  BY <3>3, <3>4 DEF MayUndo
    <3> QED BY <1>2, <1>3, <2>1, <3>1, <3>5
  <2> QED BY <2>1, <2>2, <2>3
<1> QED BY <1>2, <1>3, TurnOwns

LEMMA WaitOwns ==
  ASSUME IInv, OwnInv, NEW t \in Tasks, NEW m \in Locals, NEW at \in PCs, Waits(t, m, at)
  PROVE  OwnInv'
<1>1. /\ Goto(t, m, at) /\ UNCHANGED <<since, clicked, kept, unreleased>>
      /\ m.report = loc[t].report /\ m.stage = loc[t].stage /\ m.op = loc[t].op
      /\ m.button = loc[t].button
      /\ (pc[t] = "detect" /\ at = "denied") \/ (pc[t] \in Unsure /\ at \in Unsure)
  BY DEF Waits, SameReport, state, history, Unsure, Sending
<1>2. ASSUME NEW b, OwnsAt(loc[t], pc[t], b)  PROVE OwnsAt(m, at, b)
  BY <1>1, <1>2 DEF OwnsAt, Unsure, Sending
<1> QED BY <1>1, <1>2, TurnOwns

LEMMA AskOwns ==
  ASSUME IInv, OwnInv, NEW t \in Tasks, NEW m \in Locals, Asks(t, m)
  PROVE  OwnInv'
<1>1. /\ Goto(t, m, "detect") /\ UNCHANGED <<since, clicked, kept, unreleased>>
      /\ pc[t] \notin Unsure /\ Releases(t, m)
  BY DEF Asks, state, history
<1>2. ASSUME NEW b, OwnsAt(loc[t], pc[t], b), pc[t] # "denied"  PROVE OwnsAt(m, "detect", b)
  BY <1>1, <1>2 DEF OwnsAt, Releases
<1>3. pc[t] # "denied"  BY DEF Asks
<1> QED BY <1>1, <1>2, <1>3, TurnOwns

(* After a press a click goes on to hold.                                   *)
LEMMA ReturnOwns ==
  ASSUME IInv, OwnInv, NEW t \in Tasks, Returns(t)
  PROVE  OwnInv'
<1>1. UNCHANGED <<since, clicked, kept, unreleased>> /\ NextStep(t, loc[t]) /\ pc[t] \in {"connect", "drain"}
  BY DEF Returns, NextStep
<1>2. PICK l \in Locals : l = loc[t]  BY DEF IInv, Typed
<1>3. CASE l.op \in Clicks /\ l.stage = "press"
  <2>1. Goto(t, l, "hold")  BY <1>1, <1>2, <1>3 DEF NextStep
  <2>2. \A b : OwnsAt(l, pc[t], b) => OwnsAt(l, "hold", b)  BY <1>3 DEF OwnsAt
  <2> QED BY <1>1, <1>2, <2>1, <2>2, TurnOwns
<1>4. CASE ~(l.op \in Clicks /\ l.stage = "press")
  <2>1. PICK at \in Ended \cup {"pause", "hold"} : Goto(t, l, at)
    BY <1>1, <1>2, StepReturns
  <2>2. \A b : ~OwnsAt(l, pc[t], b)  BY <1>1, <1>4 DEF OwnsAt
  <2> QED BY <1>1, <1>2, <2>1, <2>2, NoPress, TurnOwns
<1> QED BY <1>3, <1>4

LEMMA GiveUpOwns ==
  ASSUME IInv, OwnInv, NEW t \in Tasks, GivesUp(t)
  PROVE  OwnInv'
<1>1. PICK l \in Locals : l = loc[t]  BY DEF IInv, Typed
<1>2. /\ Goto(t, l, "failed") /\ UNCHANGED <<since, clicked, kept>>
      /\ unreleased' = unreleased \cup {b \in buttons : l.stage = "up" /\ since[b] = l.report.n}
      /\ pc[t] \in {"detect", "denied", "pause", "login", "clear"}
      /\ clicked \subseteq buttons
  BY <1>1 DEF GivesUp, FailBeforeBuild, IInv, Typed, Values, Noted
<1>3. ASSUME NEW b \in clicked' \ (kept' \cup unreleased')  PROVE ~OwnsAt(loc[t], pc[t], b)
  BY <1>1, <1>2, <1>3 DEF OwnsAt, Unsure, Sending
<1> QED BY <1>2, <1>3, TurnOwns

LEMMA OwnersKept ==
  ASSUME Binary = TRUE, IInv, PressInv, OwnInv, [Next]_vars
  PROVE  OwnInv'
<1>1. ASSUME NEW t \in Tasks, Turn(t)  PROVE OwnInv'
  <2>1. ASSUME NEW m \in Locals, NEW at \in PCs, Clears(t, m, at)  PROVE OwnInv'
    BY <2>1 DEF Clears, ClearSession, Release, OwnInv
  <2>2. ASSUME NEW m \in Locals, NEW at \in PCs, Passes(t, m, at)  PROVE OwnInv'
    <3>1. /\ Goto(t, m, at) /\ UNCHANGED <<since, clicked, kept, unreleased>>
          /\ pc[t] \in Ended \cup {"clear", "login"}
      BY <2>2 DEF Passes, state, history
    <3>2. \A b : ~OwnsAt(loc[t], pc[t], b)  BY <3>1 DEF OwnsAt, Unsure, Sending
    <3> QED BY <3>1, <3>2, TurnOwns
  <2> QED BY <1>1, <2>1, <2>2, BuildOwns, AskOwns, WaitOwns, FailOwns, GiveUpOwns, ReturnOwns DEF Turn
<1>2. CASE UNCHANGED <<generation, state, host, pc, loc, built>>
  <2>1. UNCHANGED <<since, clicked, kept, unreleased, pc, loc>>  BY <1>2 DEF state, history
  <2> QED BY <2>1 DEF OwnInv, Owned, OwnsAt
<1> QED BY <1>1, <1>2, StepIsTurn

(* A click leaves no button behind in the held buttons, however its sends   *)
(* fail, are cancelled or meet other input, but for two ways: its press     *)
(* fails and is not taken back, or it must ask for the version again before *)
(* its release and gets no answer.                                          *)
THEOREM ClickLeavesNoButtonThm ==
  ASSUME Binary = TRUE
  PROVE  Spec => []ClickLeavesNoButton
<1>1. Init => OwnInv  BY DEF Init, OwnInv
<1>2. IInv /\ PressInv /\ OwnInv /\ [Next]_vars => OwnInv'  BY OwnersKept
<1>3. OwnInv => ClickLeavesNoButton
  BY DEF OwnInv, Owned, OwnsAt, ClickLeavesNoButton, Unsure, Sending
<1> QED BY <1>1, <1>2, <1>3, PressesInductive, PTL DEF Spec
--------------------------------------------------------------------------------
(* The numbers in mouse reports.                                            *)

(* Clamp stays within its limits, and changes only what is outside of them. *)
LEMMA ClampBounds ==
  ASSUME NEW x \in Int, NEW low \in Int, NEW high \in Int, low <= high
  PROVE  /\ Clamp(x, low, high) \in Int
         /\ low <= Clamp(x, low, high) /\ Clamp(x, low, high) <= high
         /\ x < low => Clamp(x, low, high) = low
         /\ x > high => Clamp(x, low, high) = high
         /\ low <= x /\ x <= high => Clamp(x, low, high) = x
<1>1. CASE x < low  BY <1>1 DEF Clamp
<1>2. CASE x > high  BY <1>2 DEF Clamp
<1>3. CASE low <= x /\ x <= high  BY <1>3 DEF Clamp
<1> QED BY <1>1, <1>2, <1>3

(* Rounding goes to a neighbour.                                            *)
LEMMA RoundIsNear ==
  ASSUME NEW h \in Int
  PROVE  Round(h) \in Int /\ Near(Round(h), h)
<1>1. PICK k \in Int, m \in 0..1 : h \div 2 = k /\ h % 2 = m /\ h = 2 * k + m
  <2>1. h \div 2 \in Int /\ h % 2 \in 0..1 /\ h = 2 * (h \div 2) + (h % 2)  OBVIOUS
  <2> QED BY <2>1
<1>2. Round(h) = k \/ (m = 1 /\ Round(h) = k + 1)
  BY <1>1 DEF Round
<1> QED BY <1>1, <1>2 DEF Near

(* A position is its low byte and its high byte.                            *)
LEMMA TwoBytes ==
  ASSUME NEW a \in Int, 0 <= a, a <= 32767
  PROVE  /\ (a % 256) \in 0..255 /\ ((a \div 256) % 256) \in 0..255
         /\ a = (a % 256) + 256 * ((a \div 256) % 256)
<1>1. (a \div 256) % 256 = a \div 256  OBVIOUS
<1>2. a \div 256 \in Int /\ a % 256 \in 0..255 /\ a = 256 * (a \div 256) + (a % 256)
  OBVIOUS
<1>3. 0 <= (a \div 256) /\ (a \div 256) <= 255  OBVIOUS
<1> QED BY <1>1, <1>2, <1>3

(* What a relative value becomes.                                           *)
LEMMA CutMovement ==
  ASSUME NEW h \in Int, NEW r \in Int, NEW x \in Int, Near(r, h), x = Clamp(r, -127, 127)
  PROVE  /\ -127 <= x /\ x <= 127
         /\ Near(x, h) \/ (h > 254 /\ x = 127) \/ (h < -254 /\ x = -127)
<1>1. -127 <= x /\ x <= 127  BY ClampBounds
<1>2. CASE r < -127
  <2>1. x = -127  BY <1>2, ClampBounds
  <2> QED BY <1>1, <1>2, <2>1 DEF Near
<1>3. CASE r > 127
  <2>1. x = 127  BY <1>3, ClampBounds
  <2> QED BY <1>1, <1>3, <2>1 DEF Near
<1>4. CASE -127 <= r /\ r <= 127
  <2>1. x = r  BY <1>4, ClampBounds
  <2> QED BY <1>1, <2>1
<1> QED BY <1>2, <1>3, <1>4

(* A movement of any size is one byte, from which the host reads at most    *)
(* half a step off, or the largest movement in that direction when it was   *)
(* larger: it never turns round (mouse.py:24).                              *)
LEMMA MovementsKeepTheirValue ==
  ASSUME NEW h \in Int
  PROVE  LET dx == Signed(RelativeByte(h))
         IN /\ RelativeByte(h) \in 0..255
            /\ Near(dx, h) \/ (h > 254 /\ dx = 127) \/ (h < -254 /\ dx = -127)
<1> DEFINE r == Round(h)
           x == Clamp(r, -127, 127)
<1>1. r \in Int /\ Near(r, h)  BY RoundIsNear
<1>2. RelativeByte(h) = x % 256  BY DEF RelativeByte
<1> HIDE DEF r
<1>3. x \in Int  BY <1>1, ClampBounds
<1>4. /\ -127 <= x /\ x <= 127
      /\ Near(x, h) \/ (h > 254 /\ x = 127) \/ (h < -254 /\ x = -127)
  BY <1>1, <1>3, CutMovement
<1> HIDE DEF x
<1>5. x % 256 \in 0..255 /\ Signed(x % 256) = x  BY <1>3, <1>4 DEF Signed
<1> QED BY <1>2, <1>4, <1>5

(* What an absolute value becomes.                                          *)
LEMMA CutPosition ==
  ASSUME NEW h \in Int, NEW c \in Int, c = Clamp(h, 0, 65534)
  PROVE  LET x == Round(c)
         IN /\ x \in Int /\ 0 <= x /\ x <= 32767
            /\ Near(x, h) \/ (h > 65534 /\ x = 32767) \/ (h < 0 /\ x = 0)
<1>1. 0 <= c /\ c <= 65534  BY ClampBounds
<1>2. /\ c = 65534 => Round(c) = 32767
      /\ c = 0 => Round(c) = 0
  BY DEF Round
<1>3. Round(c) \in Int /\ Near(Round(c), c)  BY RoundIsNear
<1>4. 0 <= Round(c) /\ Round(c) <= 32767
  <2> DEFINE x == Round(c)
  <2>1. x \in Int /\ 2 * x <= c + 1 /\ c <= 2 * x + 1  BY <1>3 DEF Near
  <2>2. c = 65534 => x = 32767  BY <1>2
  <2> HIDE DEF x
  <2>3. 0 <= x /\ x <= 32767  BY <1>1, <2>1, <2>2
  <2> QED BY <2>3 DEF x
<1>5. CASE h < 0
  <2>1. c = 0  BY <1>5, ClampBounds
  <2> QED BY <1>2, <1>3, <1>4, <1>5, <2>1
<1>6. CASE h > 65534
  <2>1. c = 65534  BY <1>6, ClampBounds
  <2> QED BY <1>2, <1>3, <1>4, <1>6, <2>1
<1>7. CASE 0 <= h /\ h <= 65534
  <2>1. c = h  BY <1>7, ClampBounds
  <2> QED BY <1>3, <1>4, <2>1
<1> QED BY <1>5, <1>6, <1>7

(* A position is two bytes, from which the host reads at most half a step   *)
(* off, or the edge of the screen it was beyond: it never wraps.            *)
LEMMA PositionsKeepTheirValue ==
  ASSUME NEW h \in Int
  PROVE  LET bytes == AbsoluteBytes(h)
             x == bytes[1] + 256 * bytes[2]
         IN /\ bytes \in (0..255) \X (0..255)
            /\ Near(x, h) \/ (h > 65534 /\ x = 32767) \/ (h < 0 /\ x = 0)
<1> DEFINE c == Clamp(h, 0, 65534)
           r == Round(c)
           a == AbsoluteValue(h)
<1>1. c \in Int  BY ClampBounds
<1>2. /\ r \in Int /\ 0 <= r /\ r <= 32767
      /\ Near(r, h) \/ (h > 65534 /\ r = 32767) \/ (h < 0 /\ r = 0)
  BY <1>1, CutPosition
<1>3. a = Clamp(r, 0, 32767)  BY DEF AbsoluteValue
<1>4. AbsoluteBytes(h) = <<a % 256, (a \div 256) % 256>>  BY DEF AbsoluteBytes
<1> HIDE DEF r, a
<1>5. a = r  BY <1>2, <1>3, ClampBounds
<1>6. /\ (r % 256) \in 0..255 /\ ((r \div 256) % 256) \in 0..255
      /\ r = (r % 256) + 256 * ((r \div 256) % 256)
  BY <1>2, TwoBytes
<1> QED BY <1>2, <1>4, <1>5, <1>6
(* Whatever has been reported, every report keeps the value it was made     *)
(* from.                                                                    *)
THEOREM ReportsKeepTheirValueThm == Spec => []ReportsKeepTheirValue
<1>1. MovementsKeep
  BY HalvesAssumption, MovementsKeepTheirValue DEF MovementsKeep
<1>2. PositionsKeep
  BY HalvesAssumption, PositionsKeepTheirValue DEF PositionsKeep
<1>3. ReportsKeepTheirValue  BY <1>1, <1>2 DEF ReportsKeepTheirValue
<1> QED BY <1>3, PTL
================================================================================
