---------------------------- MODULE SessionProofs ----------------------------
(* Proofs about Session, for any set of tasks and any bounds, in three      *)
(* parts. A generation names one session, so checking it keeps results and  *)
(* rejections in the session they belong to (IInv). The lock, the shared    *)
(* connection and the locals of the tasks agree, so no connection outlives  *)
(* its session (SInv). With both, Session implements SessionRegister.       *)
EXTENDS Session, SequenceTheorems, Queues, TLAPS

Socks == [tok : Nat, state : {"open", "broken", "closed"}]

(* The types the argument needs; the lock plays no part in it. *)
CoreTypes ==
  /\ generation \in Nat /\ token \in Nat /\ issued \in Nat
  /\ credentials \in Nat /\ application \in Nat
  /\ mode \in Modes /\ started \in Nat
  /\ sock \in Seq(Socks) /\ ws \in Nat
  /\ pc \in [Tasks -> PCs] /\ loc \in [Tasks -> Locals]

(* A login that has cleared the old session and may still get a token. *)
Pending(l, at) == at = "login" \/ (at = "closing" /\ l.then = "post")

(* A task that holds the current token if its generation is current. *)
Holds(l, at) == at \in Carrying \/ (at = "clear" /\ l.op \in {"call", "input", "stream"})

(* What every task keeps true of its locals l when suspended at `at`. *)
Good(l, at) ==
  /\ l.gen <= generation
  /\ l.then = "post" <=> l.op \in Logins
  /\ at = "login" => l.op \in Logins
  /\ at \in Carrying \cup {"getws", "stale"} => l.op \notin Logins
  /\ Holds(l, at) => l.tok # 0 /\ (l.gen = generation => l.tok = token)
  /\ Pending(l, at) /\ l.gen = generation => token = 0

OnePending ==
  \A t, u \in Tasks :
    (/\ Pending(loc[t], pc[t]) /\ loc[t].gen = generation
     /\ Pending(loc[u], pc[u]) /\ loc[u].gen = generation) => t = u

VersionsOfSession == application # 0 => application = token

IInv ==
  /\ CoreTypes
  /\ \A t \in Tasks : Good(loc[t], pc[t])
  /\ OnePending
  /\ VersionsOfSession

USE DEF Logins, AllOperations, Modes, Ended, Waiting, Holding, Awaiting, PCs, Phases

(* Types of the helpers. *)

LEMMA FreshType ==
  ASSUME CoreTypes, NEW op \in AllOperations
  PROVE  /\ Fresh(op) \in Locals
         /\ Fresh(op).op = op /\ Fresh(op).gen = generation /\ Fresh(op).tok = token
         /\ Fresh(op).then = "failed"
BY DEF Fresh, Frame, Locals, CoreTypes

(* Updating one field of the locals leaves the others alone.                *)
Same(l, k) == l \in Locals /\ l.op = k.op /\ l.gen = k.gen /\ l.tok = k.tok /\ l.then = k.then

LEMMA FieldUpdates ==
  ASSUME NEW l \in Locals
  PROVE  /\ \A m \in Modes : Same([l EXCEPT !.mode = m], l)
         /\ \A c \in Nat : Same([l EXCEPT !.cred = c], l)
         /\ \A p \in Phases : Same([l EXCEPT !.phase = p], l)
         /\ \A w \in Nat : Same([l EXCEPT !.w = w], l)
BY DEF Same, Locals

LEMMA ModeRead ==
  ASSUME NEW l \in Locals, NEW g \in Nat, mode \in Modes
  PROVE  LET m == ReadMode([l EXCEPT !.gen = g])
         IN /\ m \in Locals /\ m.op = l.op /\ m.gen = g /\ m.tok = l.tok /\ m.then = l.then
            /\ m.phase = l.phase
<1> DEFINE k == [l EXCEPT !.gen = g]
<1>1. /\ k \in Locals /\ k.op = l.op /\ k.gen = g /\ k.tok = l.tok /\ k.then = l.then
      /\ k.phase = l.phase
  BY DEF Locals
<1> HIDE DEF k
<1>2. LET m == [k EXCEPT !.mode = mode]
      IN /\ m \in Locals /\ m.op = k.op /\ m.gen = k.gen /\ m.tok = k.tok /\ m.then = k.then
         /\ m.phase = k.phase
  BY <1>1 DEF Locals
<1> QED BY <1>1, <1>2 DEF ReadMode, k

LEMMA ThenUpdate ==
  ASSUME NEW l \in Locals, NEW th \in {"post", "finally", "ok", "failed"}
  PROVE  /\ [l EXCEPT !.then = th] \in Locals
         /\ [l EXCEPT !.then = th].op = l.op /\ [l EXCEPT !.then = th].gen = l.gen
         /\ [l EXCEPT !.then = th].tok = l.tok /\ [l EXCEPT !.then = th].then = th
BY DEF Locals

LEMMA CloseType ==
  ASSUME CoreTypes, DetachAndClose
  PROVE  sock' \in Seq(Socks) /\ ws' \in Nat
<1>1. ws' \in Nat  BY DEF DetachAndClose, Detach
<1>2. \A w \in DOMAIN sock : sock[w] \in Socks  BY ElementOfSeq DEF CoreTypes
<1>3. \A w \in DOMAIN sock : (IF w = ws THEN [sock[w] EXCEPT !.state = "closed"] ELSE sock[w]) \in Socks
  BY <1>2 DEF Socks
<1>4. sock' \in [1..Len(sock) -> Socks]
  BY <1>3, LenProperties DEF DetachAndClose, CoreTypes
<1>5. Len(sock) \in Nat  BY LenProperties DEF CoreTypes
<1> QED BY <1>1, <1>4, <1>5, IsASeq

LEMMA BreakType ==
  ASSUME sock \in Seq(Socks), NEW w, NEW st \in {"broken", "closed"}
  PROVE  [sock EXCEPT ![w].state = st] \in Seq(Socks)
<1>1. Len(sock) \in Nat /\ sock \in [1..Len(sock) -> Socks]  BY LenProperties
<1>2. \A i \in 1..Len(sock) : [sock[i] EXCEPT !.state = st] \in Socks
  BY <1>1 DEF Socks
<1>3. [sock EXCEPT ![w].state = st] \in [1..Len(sock) -> Socks]
  BY <1>1, <1>2
<1> QED BY <1>1, <1>3, IsASeq

(* A step of one task that changes neither the generation nor the token.    *)
LEMMA LocalStep ==
  ASSUME IInv, NEW t \in Tasks, NEW l \in Locals, NEW at \in PCs,
         Goto(t, l, at), CoreTypes',
         UNCHANGED <<generation, token>>,
         application' = application \/ (application' = token),
         Good(l, at),
         Pending(l, at) /\ l.gen = generation =>
           Pending(loc[t], pc[t]) /\ loc[t].gen = generation
  PROVE  IInv'
<1>1. pc'[t] = at /\ loc'[t] = l
  BY DEF Goto, IInv, CoreTypes
<1>2. \A u \in Tasks : u # t => pc'[u] = pc[u] /\ loc'[u] = loc[u]
  BY DEF Goto, IInv, CoreTypes
<1>3. ASSUME NEW u \in Tasks PROVE Good(loc[u], pc[u])'
  <2>1. CASE u = t  BY <1>1, <2>1 DEF Good, Pending, Holds, Carrying
  <2>2. CASE u # t  BY <1>2, <2>2 DEF Good, Pending, Holds, Carrying, IInv
  <2> QED BY <2>1, <2>2
<1>4. OnePending'
  <2>1. ASSUME NEW x \in Tasks, Pending(loc'[x], pc'[x]), loc'[x].gen = generation'
        PROVE  Pending(loc[x], pc[x]) /\ loc[x].gen = generation
    <3>1. CASE x = t  BY <1>1, <2>1, <3>1
    <3>2. CASE x # t  BY <1>2, <2>1, <3>2
    <3> QED BY <3>1, <3>2
  <2> QED BY <2>1 DEF OnePending, IInv, Pending
<1>5. VersionsOfSession'  BY DEF VersionsOfSession, IInv
<1> QED BY <1>3, <1>4, <1>5 DEF IInv

(* Clearing starts a generation nobody runs under but the login itself.     *)
LEMMA TransitionStep ==
  ASSUME IInv, NEW t \in Tasks, NEW l \in Locals, NEW at \in PCs,
         Goto(t, l, at), CoreTypes',
         generation' = generation + 1, token' = 0, application' = 0,
         l.gen <= generation + 1,
         l.then = "post" <=> l.op \in Logins,
         at \notin Carrying \cup {"getws", "stale", "clear"},
         at = "login" => l.op \in Logins
  PROVE  IInv'
<1>1. pc'[t] = at /\ loc'[t] = l
  BY DEF Goto, IInv, CoreTypes
<1>2. \A u \in Tasks : u # t => pc'[u] = pc[u] /\ loc'[u] = loc[u]
  BY DEF Goto, IInv, CoreTypes
<1>3. \A u \in Tasks : loc[u].gen \in Nat /\ loc[u].gen <= generation /\ generation \in Nat
  BY DEF IInv, CoreTypes, Good, Locals
<1>4. ASSUME NEW u \in Tasks PROVE Good(loc[u], pc[u])'
  <2>1. CASE u = t  BY <1>1, <2>1 DEF Good, Pending, Holds, Carrying
  <2>2. CASE u # t
    <3>1. Good(loc[u], pc[u])  BY DEF IInv
    <3>2. loc[u].gen < generation'  BY <1>3
    <3> QED BY <1>2, <1>3, <2>2, <3>1, <3>2 DEF Good, Pending, Holds, Carrying
  <2> QED BY <2>1, <2>2
<1>5. OnePending'
  <2>1. \A u \in Tasks : loc'[u].gen = generation' => u = t  BY <1>2, <1>3
  <2> QED BY <2>1 DEF OnePending, Pending
<1>6. VersionsOfSession'  BY DEF VersionsOfSession
<1> QED BY <1>4, <1>5, <1>6 DEF IInv

LEMMA GotoTypes ==
  ASSUME CoreTypes, NEW t \in Tasks, NEW l \in Locals, NEW at \in PCs, Goto(t, l, at)
  PROVE  pc' \in [Tasks -> PCs] /\ loc' \in [Tasks -> Locals]
BY DEF CoreTypes, Goto

LEMMA ProceedGoes ==
  ASSUME NEW t \in Tasks, NEW l, NEW at \in PCs, NEW q, Proceed(t, l, at, q)
  PROVE  \E to \in PCs : Goto(t, l, to) /\ (to = at \/ (at = "finally" /\ to = "failed"))
BY DEF Proceed, Queue

(* clear_local_session, reached with or without waiting for the lock.       *)
LEMMA ClearSectionStep ==
  ASSUME IInv, NEW t \in Tasks, NEW l \in Locals, NEW q, ClearSection(t, l, q),
         issued' \in Nat, mode' \in Modes, credentials' \in Nat, started' \in Nat,
         l.gen <= generation, l.then = "post" <=> l.op \in Logins
  PROVE  IInv'
<1>1. CASE Superseded(l) /\ Proceed(t, l, AfterClear(l), q) /\ UNCHANGED <<session, socket>>
  <2>1. l.then \in {"finally", "ok", "failed"} /\ AfterClear(l) = l.then
    BY <1>1 DEF Superseded, AfterClear, Locals
  <2>2. PICK to \in PCs : Goto(t, l, to) /\ to \in {"finally", "ok", "failed"}
    BY <1>1, <2>1, ProceedGoes
  <2>3. CoreTypes'  BY <1>1, <2>2, GotoTypes DEF IInv, CoreTypes, session, socket
  <2>4. Good(l, to)  BY <2>2 DEF Good, Holds, Pending, Carrying
  <2> QED BY <1>1, <2>2, <2>3, <2>4, LocalStep DEF session, Pending
<1>2. CASE ~Superseded(l) /\ ClearSection(t, l, q)
  <2> DEFINE mine == IF l.op \in Logins THEN ReadMode([l EXCEPT !.gen = generation + 1]) ELSE l
             at == IF Usable THEN "closing" ELSE AfterClear(l)
  <2>1. /\ generation' = generation + 1 /\ token' = 0 /\ application' = 0
        /\ DetachAndClose /\ Proceed(t, mine, at, q)
    BY <1>2 DEF ClearSection
  <2>2. generation \in Nat /\ mode \in Modes  BY DEF IInv, CoreTypes
  <2>3. mine \in Locals /\ mine.op = l.op /\ mine.then = l.then /\ mine.gen <= generation + 1
    <3>1. generation + 1 \in Nat  BY <2>2
    <3>2. CASE l.op \in Logins  BY <2>2, <3>1, <3>2, ModeRead
    <3>3. CASE l.op \notin Logins  BY <2>2, <3>3 DEF Locals
    <3> QED BY <3>2, <3>3
  <2>4. at \in {"closing", "finally", "ok", "failed", "login"} /\ (at = "login" => l.op \in Logins)
    BY DEF AfterClear, Locals
  <2>5. PICK to \in PCs : Goto(t, mine, to) /\ (to = at \/ (at = "finally" /\ to = "failed"))
    BY <2>1, <2>4, ProceedGoes
  <2>6. CoreTypes'
    <3>1. CoreTypes  BY DEF IInv
    <3>2. pc' \in [Tasks -> PCs] /\ loc' \in [Tasks -> Locals]
      BY <2>3, <2>5, <3>1, GotoTypes
    <3>3. sock' \in Seq(Socks) /\ ws' \in Nat  BY <2>1, <3>1, CloseType
    <3>4. generation' \in Nat /\ token' \in Nat /\ application' \in Nat  BY <2>1, <2>2
    <3> QED BY <3>2, <3>3, <3>4 DEF CoreTypes
  <2> QED BY <2>1, <2>3, <2>4, <2>5, <2>6, TransitionStep DEF Carrying
<1> QED BY <1>1, <1>2 DEF ClearSection

LEMMA ClearStep ==
  ASSUME IInv, NEW t \in Tasks, NEW l \in Locals, NEW q, Clear(t, l, q),
         issued' \in Nat, mode' \in Modes, credentials' \in Nat, started' \in Nat,
         l.gen <= generation, l.then = "post" <=> l.op \in Logins,
         l.op \in {"call", "input", "stream"} => l.tok # 0 /\ (l.gen = generation => l.tok = token)
  PROVE  IInv'
<1>1. CASE Queue(t, l, "clear", q) /\ UNCHANGED <<session, socket>>
  <2>1. Goto(t, l, "clear")  BY <1>1 DEF Queue
  <2>2. CoreTypes'  BY <1>1, <2>1, GotoTypes DEF IInv, CoreTypes, session, socket
  <2>3. Good(l, "clear")  BY DEF Good, Holds, Pending, Carrying
  <2> QED BY <1>1, <2>1, <2>2, <2>3, LocalStep DEF session, Pending
<1>2. CASE ClearSection(t, l, q)  BY <1>2, ClearSectionStep
<1> QED BY <1>1, <1>2 DEF Clear

(* Every other step of a task.                                              *)
LEMMA TaskStep ==
  ASSUME IInv, NEW t \in Tasks, NEW l \in Locals, NEW at \in PCs, Goto(t, l, at),
         UNCHANGED <<generation, token>>, application' \in {application, token},
         issued' \in Nat, mode' \in Modes, credentials' \in Nat, started' \in Nat,
         sock' \in Seq(Socks), ws' \in Nat,
         Good(l, at),
         Pending(l, at) => Pending(loc[t], pc[t]) /\ loc[t].gen = l.gen
  PROVE  IInv'
<1>1. CoreTypes'  BY GotoTypes DEF IInv, CoreTypes
<1> QED BY <1>1, LocalStep

(* A step that keeps the locals, and goes where nothing is at stake.        *)
Quiet == {"ok", "failed", "send", "invalidate", "inv_close", "close", "exit_close", "finally"}

LEMMA QuietStep ==
  ASSUME IInv, NEW t \in Tasks, NEW at \in Quiet, Goto(t, loc[t], at),
         UNCHANGED session,
         issued' \in Nat, mode' \in Modes, credentials' \in Nat, started' \in Nat,
         sock' \in Seq(Socks), ws' \in Nat
  PROVE  IInv'
<1>1. loc[t] \in Locals /\ at \in PCs  BY DEF IInv, CoreTypes, Quiet
<1>2. Good(loc[t], at) /\ ~Pending(loc[t], at)
  BY DEF IInv, Good, Holds, Pending, Quiet, Carrying
<1> QED BY <1>1, <1>2, TaskStep DEF session

(* get_ws under the lock.                                                   *)
LEMMA GetWsStep ==
  ASSUME IInv, NEW t \in Tasks, NEW l \in Locals, NEW q, GetWsSection(t, l, q),
         UNCHANGED <<issued, mode, credentials>>, started' \in Nat,
         l.op \notin Logins, l.then # "post", l.gen <= generation
  PROVE  IInv'
<1>0. CoreTypes  BY DEF IInv
<1>t. generation \in Nat /\ token \in Nat /\ sock \in Seq(Socks) /\ ws \in Nat
  BY <1>0 DEF CoreTypes
<1>1. ASSUME NEW m \in Locals, NEW at \in {"send", "stale", "failed"}, Goto(t, m, at),
             Same(m, l), UNCHANGED <<session, sock>>, ws' \in Nat
      PROVE  IInv'
  <2>1. Good(m, at) /\ ~Pending(m, at)
    BY <1>1 DEF Good, Holds, Pending, Carrying, Same
  <2> QED BY <1>0, <1>1, <2>1, TaskStep DEF CoreTypes, session
<1>2. CASE Goto(t, [l EXCEPT !.w = ws], "send") /\ UNCHANGED <<session, socket>>
  BY <1>1, <1>2, <1>t, FieldUpdates DEF Same, socket, session
<1>3. CASE Detach /\ UNCHANGED <<session, sock>> /\ Goto(t, l, "stale")
  BY <1>1, <1>3 DEF Same, Detach
<1>4. CASE Connect(t, l, q) /\ UNCHANGED <<session, socket>>
  <2> DEFINE m == [l EXCEPT !.gen = generation, !.tok = token]
  <2>1. CASE Goto(t, l, "failed")
    BY <1>1, <1>4, <1>t, <2>1 DEF Same, socket
  <2>2. CASE token # 0 /\ Goto(t, m, "connect")
    <3>1. m \in Locals /\ m.op = l.op /\ m.gen = generation /\ m.tok = token /\ m.then = l.then
      BY <1>t DEF Locals
    <3> HIDE DEF m
    <3>2. Good(m, "connect") /\ ~Pending(m, "connect")
      BY <1>t, <2>2, <3>1 DEF Good, Holds, Pending, Carrying
    <3> QED BY <1>0, <1>4, <2>2, <3>1, <3>2, TaskStep DEF CoreTypes, session, socket
  <2> QED BY <1>4, <2>1, <2>2 DEF Connect
<1> QED BY <1>2, <1>3, <1>4 DEF GetWsSection, session

LEMMA BeginStep ==
  ASSUME IInv, NEW t \in Tasks, Begin(t)
  PROVE  IInv'
<1> USE DEF Start
<1>0. CoreTypes  BY DEF IInv
<1>t. /\ generation \in Nat /\ token \in Nat /\ issued \in Nat /\ credentials \in Nat
      /\ mode \in Modes /\ started + 1 \in Nat /\ sock \in Seq(Socks) /\ ws \in Nat
  BY <1>0 DEF CoreTypes
<1>f. \A op \in AllOperations :
        /\ Fresh(op) \in Locals
        /\ Fresh(op).op = op /\ Fresh(op).gen = generation /\ Fresh(op).tok = token
        /\ Fresh(op).then = "failed"
  BY <1>0, FreshType
<1>l. \A op \in Logins, c \in {0, credentials} :
        /\ LoginFrame(op, c) \in Locals
        /\ LoginFrame(op, c).op = op /\ LoginFrame(op, c).then = "post"
        /\ LoginFrame(op, c).gen = generation
  BY <1>0, <1>t DEF LoginFrame, Locals, CoreTypes
<1>1. CASE Authenticate(t)
  <2>1. /\ Clear(t, LoginFrame("authenticate", 0), lock)
        /\ UNCHANGED <<issued, mode>> /\ credentials' = 0 /\ started' = started + 1
    BY <1>1 DEF Authenticate
  <2> QED BY <1>t, <1>l, <2>1, ClearStep
<1>2. CASE Reauthenticate(t)
  <2>1. /\ Clear(t, LoginFrame("reauthenticate", credentials), lock)
        /\ UNCHANGED <<issued, mode, credentials>> /\ started' = started + 1
    BY <1>2 DEF Reauthenticate
  <2> QED BY <1>t, <1>l, <2>1, ClearStep
<1>3. CASE Logout(t)
  <2> DEFINE l == [Fresh("logout") EXCEPT !.then = "ok"]
  <2>1. /\ l \in Locals /\ l.op = "logout" /\ l.then = "ok" /\ l.gen = generation /\ l.tok = token
    BY <1>f DEF Locals
  <2>2. UNCHANGED <<issued, mode>> /\ credentials' = 0 /\ started' = started + 1
    BY <1>3 DEF Logout
  <2>3. CASE token # 0 /\ Goto(t, l, "request") /\ UNCHANGED <<session, socket>>
    <3>1. Good(l, "request") /\ ~Pending(l, "request")
      BY <2>1, <2>3, <1>t DEF Good, Holds, Pending, Carrying
    <3> HIDE DEF l
    <3> QED BY <1>t, <2>1, <2>2, <2>3, <3>1, TaskStep DEF session, socket
  <2>4. CASE Clear(t, l, lock)
    <3> HIDE DEF l
    <3> QED BY <1>t, <2>1, <2>2, <2>4, ClearStep
  <2> QED BY <1>3, <2>3, <2>4 DEF Logout
<1>4. CASE Call(t)
  <2>1. Good(Fresh("call"), "request") /\ ~Pending(Fresh("call"), "request")
    BY <1>f, <1>t, <1>4 DEF Good, Holds, Pending, Carrying, Call
  <2> QED BY <1>4, <1>t, <1>f, <2>1, TaskStep DEF session, socket, Call
<1>5. CASE ChangePassword(t)
  <2> DEFINE l == [Fresh("change_password") EXCEPT !.phase = "versions"]
             s == PasswordStep(l)
  <2>1. l \in Locals /\ l.op = "change_password" /\ l.gen = generation /\ l.tok = token /\ l.then = "failed"
    BY <1>f DEF Locals
  <2>2. /\ s.l \in Locals /\ s.l.op = "change_password" /\ s.l.gen = generation
        /\ s.l.tok = token /\ s.l.then = "failed" /\ s.at \in {"failed", "request"}
    BY <2>1 DEF PasswordStep, Locals
  <2>3. PICK m \in {l, s.l}, at \in {"failed", "request"} :
          Goto(t, m, at) /\ (at = "request" => token # 0)
    BY <1>5, <2>2 DEF ChangePassword
  <2>4. m \in Locals /\ m.op = "change_password" /\ m.gen = generation /\ m.tok = token /\ m.then = "failed"
    BY <2>1, <2>2, <2>3
  <2>5. Good(m, at) /\ ~Pending(m, at)
    BY <1>t, <2>3, <2>4 DEF Good, Holds, Pending, Carrying
  <2>6. UNCHANGED <<session, socket, issued, mode>> /\ credentials' = 0 /\ started' = started + 1
    BY <1>5 DEF ChangePassword
  <2> HIDE DEF l, s
  <2> QED BY <1>t, <2>3, <2>4, <2>5, <2>6, TaskStep DEF session, socket
<1>6. CASE Input(t)
  <2>1. Good(Fresh("input"), "getws") /\ ~Pending(Fresh("input"), "getws")
    BY <1>f, <1>t DEF Good, Holds, Pending, Carrying
  <2>2. CASE Queue(t, Fresh("input"), "getws", lock) /\ UNCHANGED <<session, socket>>
    BY <1>6, <1>t, <1>f, <2>1, <2>2, TaskStep DEF Input, Queue, session, socket
  <2>3. CASE GetWsSection(t, Fresh("input"), lock)
    BY <1>6, <1>t, <1>f, <2>3, GetWsStep DEF Input
  <2> QED BY <1>6, <2>2, <2>3 DEF Input
<1>7. CASE Exit(t)
  <2>1. \A at \in {"close", "exit_close", "ok"} : Good(Fresh("exit"), at) /\ ~Pending(Fresh("exit"), at)
    BY <1>f, <1>t DEF Good, Holds, Pending, Carrying
  <2>2. PICK at \in {"close", "exit_close", "ok"} : Goto(t, Fresh("exit"), at)
    BY <1>7 DEF Exit, CloseSection, Queue
  <2>3. sock' \in Seq(Socks) /\ ws' \in Nat
    BY <1>0, <1>7, CloseType DEF Exit, CloseSection, socket, CoreTypes
  <2>4. UNCHANGED <<session, issued, mode>> /\ credentials' = 0 /\ started' = started + 1
    BY <1>7 DEF Exit
  <2> QED BY <1>t, <1>f, <2>1, <2>2, <2>3, <2>4, TaskStep DEF session
<1>8. CASE Stream(t)
  <2>1. PICK kind \in Phases : Goto(t, [Fresh("stream") EXCEPT !.phase = kind], "request")
    BY <1>8 DEF Stream
  <2> DEFINE l == [Fresh("stream") EXCEPT !.phase = kind]
  <2>2. Same(l, Fresh("stream"))  BY <1>f, FieldUpdates
  <2>3. Good(l, "request") /\ ~Pending(l, "request") /\ l \in Locals
    BY <1>f, <1>t, <1>8, <2>2 DEF Good, Holds, Pending, Carrying, Same, Stream
  <2>4. /\ UNCHANGED <<session, socket, issued, mode, credentials>> /\ started' = started + 1
    BY <1>8 DEF Stream
  <2>5. Goto(t, l, "request")  BY <2>1
  <2> HIDE DEF l
  <2> QED BY <1>t, <2>3, <2>4, <2>5, TaskStep DEF session, socket
<1>9. CASE Consume(t)
  <2>1. /\ pc[t] = "yielded" /\ loc[t] \in Locals /\ Good(loc[t], pc[t])
        /\ UNCHANGED <<session, socket, issued, mode, credentials, started>>
    BY <1>0, <1>9 DEF Consume, CoreTypes, IInv
  <2>2. PICK at \in {"body", "ok"} : Goto(t, loc[t], at)
    BY <1>9 DEF Consume
  <2>3. Good(loc[t], at) /\ ~Pending(loc[t], at)
    BY <2>1, <2>2 DEF Good, Holds, Pending, Carrying
  <2>4. started \in Nat  BY <1>0 DEF CoreTypes
  <2> QED BY <1>t, <2>1, <2>2, <2>3, <2>4, TaskStep DEF session, socket
<1> QED BY <1>1, <1>2, <1>3, <1>4, <1>5, <1>6, <1>7, <1>8, <1>9 DEF Begin

LEMMA ContinueStep ==
  ASSUME IInv, NEW t \in Tasks, Continue(t)
  PROVE  IInv'
<1>0. CoreTypes  BY DEF IInv
<1>t. /\ generation \in Nat /\ token \in Nat /\ sock \in Seq(Socks) /\ ws \in Nat
      /\ loc[t] \in Locals /\ Good(loc[t], pc[t])
  BY <1>0 DEF CoreTypes, IInv
<1>1. CASE ClearEnter(t)
  BY <1>0, <1>1, <1>t, ClearSectionStep DEF ClearEnter, CoreTypes, Good
<1>2. CASE Closed(t)
  <2> DEFINE at == IF loc[t].then = "post" /\ loc[t].gen # generation THEN "failed"
                   ELSE AfterClear(loc[t])
  <2> DEFINE l == IF loc[t].op \in Logins THEN ReadMode(loc[t]) ELSE loc[t]
  <2>1. Proceed(t, l, at, lock) /\ UNCHANGED <<session, socket, issued, credentials, mode, started>>
    BY <1>2 DEF Closed
  <2>0. Same(l, loc[t])
    BY <1>0, <1>t, FieldUpdates DEF ReadMode, CoreTypes, Same
  <2>2. at \in {"login", "finally", "ok", "failed"}
    BY <1>t DEF AfterClear, Locals
  <2>3. at = "login" => loc[t].then = "post" /\ loc[t].gen = generation
    BY <1>t DEF AfterClear, Locals
  <2> HIDE DEF l
  <2>4. PICK to \in PCs : Goto(t, l, to) /\ (to = at \/ (at = "finally" /\ to = "failed"))
    BY <1>t, <2>1, <2>2, ProceedGoes
  <2>5. CASE to = "login"
    <3>1. Pending(loc[t], pc[t])  BY <1>2, <2>3, <2>4, <2>5 DEF Pending, Closed
    <3>2. Good(l, "login")
      BY <1>t, <2>0, <2>3, <2>4, <2>5, <3>1 DEF Good, Holds, Pending, Carrying, Same
    <3> HIDE DEF at
    <3> QED BY <1>0, <1>t, <2>0, <2>1, <2>4, <2>5, <3>1, <3>2, TaskStep DEF CoreTypes, session, socket, Same
  <2>6. CASE to # "login"
    <3>1. to \in Quiet  BY <2>2, <2>4, <2>6 DEF Quiet
    <3>2. Good(l, to) /\ ~Pending(l, to)
      BY <1>t, <2>0, <3>1 DEF Good, Holds, Pending, Quiet, Carrying, Same
    <3> HIDE DEF at
    <3> QED BY <1>0, <1>t, <2>0, <2>1, <2>4, <3>2, TaskStep DEF CoreTypes, session, socket, Same
  <2> QED BY <2>5, <2>6
<1>3. CASE FinallyEnter(t)
  BY <1>0, <1>3, QuietStep DEF FinallyEnter, CoreTypes, session, socket, Quiet
<1>4. CASE GetWsEnter(t)
  <2>1. loc[t].op \notin Logins /\ loc[t].then # "post" /\ loc[t].gen <= generation
    BY <1>t, <1>4 DEF Good, GetWsEnter
  <2> QED BY <1>0, <1>4, <1>t, <2>1, GetWsStep DEF GetWsEnter, CoreTypes
<1>5. CASE StaleClosed(t)
  <2>1. loc[t].op \notin Logins /\ loc[t].then # "post" /\ loc[t].gen <= generation
    BY <1>t, <1>5 DEF Good, StaleClosed
  <2>2. Connect(t, loc[t], Tail(lock)) /\ UNCHANGED <<session, socket, issued, credentials, mode, started>>
    BY <1>5 DEF StaleClosed
  <2> DEFINE m == [loc[t] EXCEPT !.gen = generation, !.tok = token]
  <2>3. CASE Goto(t, loc[t], "failed")
    BY <1>0, <2>2, <2>3, QuietStep DEF CoreTypes, session, socket, Quiet
  <2>4. CASE token # 0 /\ Goto(t, m, "connect")
    <3>1. /\ m \in Locals /\ m.op = loc[t].op /\ m.gen = generation /\ m.tok = token
          /\ m.then = loc[t].then
      BY <1>t DEF Locals
    <3> HIDE DEF m
    <3>2. Good(m, "connect") /\ ~Pending(m, "connect")
      BY <1>t, <2>1, <2>4, <3>1 DEF Good, Holds, Pending, Carrying
    <3> QED BY <1>0, <2>2, <2>4, <3>1, <3>2, TaskStep DEF CoreTypes, session, socket
  <2> QED BY <2>2, <2>3, <2>4 DEF Connect
<1>6. CASE InvalidateEnter(t) \/ Invalidated(t)
  <2>1. sock' \in Seq(Socks)
    BY <1>6, <1>t, BreakType DEF InvalidateEnter, Invalidated, InvalidateSection, socket
  <2>2. ws' \in Nat
    BY <1>6, <1>t DEF InvalidateEnter, Invalidated, InvalidateSection, socket, Detach
  <2>3. PICK at \in Quiet : Goto(t, loc[t], at)
    BY <1>6 DEF InvalidateEnter, Invalidated, InvalidateSection, Quiet
  <2>4. UNCHANGED <<session, issued, credentials, mode, started>>
    BY <1>6 DEF InvalidateEnter, Invalidated
  <2> QED BY <1>0, <2>1, <2>2, <2>3, <2>4, QuietStep DEF CoreTypes
<1>7. CASE CloseEnter(t) \/ ExitClosed(t)
  <2>1. sock' \in Seq(Socks) /\ ws' \in Nat
    BY <1>0, <1>7, <1>t, CloseType DEF CloseEnter, ExitClosed, CloseSection, socket
  <2>2. PICK at \in Quiet : Goto(t, loc[t], at)
    BY <1>7 DEF CloseEnter, ExitClosed, CloseSection, Quiet
  <2> QED BY <1>0, <1>7, <2>1, <2>2, QuietStep DEF CloseEnter, ExitClosed, CoreTypes
<1> QED BY <1>1, <1>2, <1>3, <1>4, <1>5, <1>6, <1>7 DEF Continue

LEMMA ReplyStep ==
  ASSUME IInv, NEW t \in Tasks, Reply(t)
  PROVE  IInv'
<1>0. CoreTypes  BY DEF IInv
<1>t. /\ generation \in Nat /\ token \in Nat /\ issued \in Nat /\ credentials \in Nat
      /\ mode \in Modes /\ started \in Nat /\ sock \in Seq(Socks) /\ ws \in Nat
      /\ loc[t] \in Locals /\ Good(loc[t], pc[t]) /\ pc[t] \in PCs
  BY <1>0 DEF CoreTypes, IInv
<1>c. ASSUME pc[t] \in Carrying, NEW th \in {"finally", "ok", "failed"}, NEW q,
             Clear(t, [loc[t] EXCEPT !.then = th], q),
             UNCHANGED <<issued, credentials, mode, started>>
      PROVE  IInv'
  <2> DEFINE l == [loc[t] EXCEPT !.then = th]
  <2>0. loc[t] \in Locals /\ th \in {"post", "finally", "ok", "failed"}  BY <1>t
  <2>1. /\ l \in Locals /\ l.op = loc[t].op /\ l.gen = loc[t].gen
        /\ l.tok = loc[t].tok /\ l.then = th
    BY <2>0, ThenUpdate, Zenon
  <2>2. /\ l.op \notin Logins /\ l.gen <= generation
        /\ l.tok # 0 /\ (l.gen = generation => l.tok = token)
    BY <1>c, <1>t, <2>1 DEF Good, Holds
  <2>3. Clear(t, l, q)  BY <1>c
  <2> HIDE DEF l
  <2> QED BY <1>c, <1>t, <2>1, <2>2, <2>3, ClearStep
<1>1. CASE LoginFails(t)
  BY <1>0, <1>1, QuietStep DEF LoginFails, CoreTypes, session, socket, Quiet
<1>2. CASE LoginAccepted(t)
  <2>1. /\ pc[t] = "login" /\ loc[t].gen = generation /\ token' = issued + 1
        /\ Goto(t, loc[t], "ok") /\ UNCHANGED <<generation, application, socket, started>>
        /\ issued' = issued + 1 /\ mode' \in Modes /\ credentials' \in Nat
    BY <1>2, <1>t DEF LoginAccepted, Current, Locals
  <2>2. token = 0 /\ application = 0
    BY <1>t, <2>1 DEF Good, Pending, IInv, VersionsOfSession
  <2>3. CoreTypes'
    BY <1>0, <1>t, <2>1, GotoTypes DEF CoreTypes, socket, Locals
  <2>4. pc'[t] = "ok" /\ loc'[t] = loc[t] /\ \A u \in Tasks : loc'[u] = loc[u] /\ (u # t => pc'[u] = pc[u])
    BY <1>0, <2>1 DEF Goto, CoreTypes
  <2>5. ASSUME NEW u \in Tasks PROVE Good(loc[u], pc[u])'
    <3>1. CASE u = t
      BY <1>t, <2>1, <2>4, <3>1 DEF Good, Holds, Pending, Carrying
    <3>2. CASE u # t
      <4>1. Good(loc[u], pc[u])  BY DEF IInv
      <4>2. ~(Pending(loc[u], pc[u]) /\ loc[u].gen = generation)
        BY <2>1, <3>2 DEF IInv, OnePending, Pending
      <4>3. ~(Holds(loc[u], pc[u]) /\ loc[u].gen = generation)
        BY <2>2, <4>1 DEF Good
      <4>4. pc'[u] = pc[u] /\ loc'[u] = loc[u] /\ generation' = generation
        BY <2>1, <2>4, <3>2
      <4> QED BY <4>1, <4>2, <4>3, <4>4 DEF Good, Pending, Holds, Carrying
    <3> QED BY <3>1, <3>2
  <2>6. OnePending'
    <3>1. \A u \in Tasks : Pending(loc'[u], pc'[u]) => Pending(loc[u], pc[u])
      BY <2>4 DEF Pending
    <3>2. generation' = generation  BY <2>1
    <3> QED BY <2>4, <3>1, <3>2 DEF IInv, OnePending, Pending
  <2>7. VersionsOfSession'  BY <2>1, <2>2 DEF VersionsOfSession
  <2> QED BY <2>3, <2>5, <2>6, <2>7 DEF IInv
<1>3. CASE LoginRejected(t)
  <2>1. /\ pc[t] = "login" /\ loc[t].gen = generation /\ credentials' \in Nat
        /\ UNCHANGED <<session, socket, issued, mode, started>>
    BY <1>3, <1>t DEF LoginRejected, Current
  <2>2. CASE Goto(t, [loc[t] EXCEPT !.mode = "plain"], "login")
    <3> DEFINE m == [loc[t] EXCEPT !.mode = "plain"]
    <3>1. Same(m, loc[t])  BY <1>t, FieldUpdates
    <3>2. Good(m, "login") /\ Pending(loc[t], pc[t])
      BY <1>t, <2>1, <3>1 DEF Good, Holds, Pending, Carrying, Same
    <3>3. Goto(t, m, "login")  BY <2>2
    <3>4. Pending(loc[t], pc[t]) /\ loc[t].gen = m.gen  BY <3>1, <3>2 DEF Same
    <3> HIDE DEF m
    <3> QED BY <1>t, <2>1, <3>1, <3>2, <3>3, <3>4, TaskStep DEF session, socket, Same
  <2>3. CASE Goto(t, loc[t], "failed")
    BY <1>t, <2>1, <2>3, QuietStep DEF session, socket, Quiet
  <2> QED BY <1>3, <2>2, <2>3 DEF LoginRejected
<1>4. CASE RequestFails(t)
  <2>1. CASE Clear(t, [loc[t] EXCEPT !.then = "failed"], lock)
    BY <1>4, <2>1, <1>c DEF RequestFails, Carrying
  <2>2. CASE Goto(t, loc[t], "failed") /\ UNCHANGED <<session, socket>>
    BY <1>4, <1>t, <2>2, QuietStep DEF RequestFails, session, socket, Quiet
  <2> QED BY <1>4, <2>1, <2>2 DEF RequestFails
<1>5. CASE Unauthorized(t)
  BY <1>5, <1>c DEF Unauthorized, Carrying
<1>6. CASE LogoutMissing(t)
  <2>1. loc[t].op \notin Logins /\ loc[t].op = "logout" /\ loc[t].gen <= generation
    BY <1>6, <1>t DEF LogoutMissing, Good, Carrying
  <2>2. Clear(t, loc[t], lock) /\ UNCHANGED <<issued, credentials, mode, started>>
    BY <1>6 DEF LogoutMissing
  <2>3. loc[t].then = "post" <=> loc[t].op \in Logins  BY <1>t DEF Good
  <2> QED BY <1>t, <2>1, <2>2, <2>3, ClearStep
<1>7. CASE Response(t)
  <2>1. Good(loc[t], "body") /\ ~Pending(loc[t], "body")
    BY <1>7, <1>t DEF Response, Good, Holds, Pending, Carrying
  <2> QED BY <1>7, <1>t, <2>1, TaskStep DEF Response, session, socket
<1>8. CASE Result(t)
  <2>1. /\ pc[t] = "body" /\ loc[t].gen = generation
        /\ UNCHANGED <<issued, credentials, mode, started>>
    BY <1>8 DEF Result, Current
  <2>2. loc[t].op \notin Logins /\ loc[t].then # "post" /\ loc[t].tok = token /\ loc[t].tok # 0
    BY <1>t, <2>1 DEF Good, Holds, Carrying
  <2>3. ASSUME NEW m \in Locals, NEW at \in {"ok", "failed", "request"}, Same(m, loc[t]),
               Goto(t, m, at), UNCHANGED <<generation, token, socket>>,
               application' \in {application, loc[t].tok}
        PROVE  IInv'
    <3>1. Good(m, at) /\ ~Pending(m, at)
      BY <1>t, <2>1, <2>2, <2>3 DEF Good, Holds, Pending, Carrying, Same
    <3> QED BY <1>t, <2>1, <2>2, <2>3, <3>1, TaskStep DEF socket
  <2>4. Same(loc[t], loc[t])  BY <1>t DEF Same
  <2>5. Same([loc[t] EXCEPT !.phase = "password"], loc[t])
        /\ Same([loc[t] EXCEPT !.phase = "account"], loc[t])
    BY <1>t, FieldUpdates
  <2>6. CASE /\ application' = loc[t].tok /\ Goto(t, loc[t], "ok")
             /\ UNCHANGED <<generation, token, socket>>
    BY <1>t, <2>3, <2>4, <2>6
  <2>7. CASE /\ application' = loc[t].tok
             /\ Goto(t, PasswordStep(loc[t]).l, PasswordStep(loc[t]).at)
             /\ UNCHANGED <<generation, token, socket>>
    <3>1. Same(PasswordStep(loc[t]).l, loc[t]) /\ PasswordStep(loc[t]).at \in {"failed", "request"}
      BY <2>5 DEF PasswordStep
    <3> QED BY <2>3, <2>7, <3>1 DEF Same
  <2>8. CASE Goto(t, [loc[t] EXCEPT !.phase = "password"], "request") /\ UNCHANGED <<session, socket>>
    BY <2>3, <2>5, <2>8 DEF Same, session
  <2>9. CASE Goto(t, loc[t], "ok") /\ UNCHANGED <<session, socket>>
    BY <1>t, <2>3, <2>4, <2>9 DEF session
  <2>10. CASE Clear(t, [loc[t] EXCEPT !.then = "ok"], lock)
    BY <2>1, <2>10, <1>c DEF Carrying
  <2> QED BY <1>8, <2>6, <2>7, <2>8, <2>9, <2>10 DEF Result
<1>9. CASE Connected(t)
  <2> DEFINE w == Len(sock) + 1
             m == [loc[t] EXCEPT !.w = w]
  <2>1. w \in Nat /\ sock' \in Seq(Socks)
    <3>1. Opened(loc[t].tok) \in Socks  BY <1>t DEF Opened, Socks, Locals
    <3> QED BY <1>9, <1>t, <3>1, AppendProperties, LenProperties DEF Connected
  <2>2. /\ pc[t] = "connect" /\ ws' = w /\ Goto(t, m, "send")
        /\ UNCHANGED <<session, issued, credentials, mode, started>>
    BY <1>9 DEF Connected
  <2> HIDE DEF w
  <2>3. Same(m, loc[t])  BY <1>t, <2>1, FieldUpdates
  <2>4. Good(m, "send") /\ ~Pending(m, "send")
    BY <1>t, <2>3 DEF Good, Holds, Pending, Carrying, Same
  <2> HIDE DEF m
  <2> QED BY <1>t, <2>1, <2>2, <2>3, <2>4, TaskStep DEF session, Same
<1>10. CASE ConnectFails(t)
  <2>1. CASE Clear(t, [loc[t] EXCEPT !.then = "failed"], Tail(lock))
    BY <1>10, <2>1, <1>c DEF ConnectFails, Carrying
  <2>2. CASE Goto(t, loc[t], "failed") /\ UNCHANGED <<session, socket>>
    BY <1>10, <1>t, <2>2, QuietStep DEF ConnectFails, session, socket, Quiet
  <2> QED BY <1>10, <2>1, <2>2 DEF ConnectFails
<1>11. CASE Sent(t)
  BY <1>11, <1>t, QuietStep DEF Sent, session, socket, Quiet
<1>12. CASE SendFails(t)
  <2>1. sock' \in Seq(Socks)
    BY <1>12, <1>t, BreakType DEF SendFails, InvalidateSection, socket
  <2>2. ws' \in Nat
    BY <1>12, <1>t DEF SendFails, InvalidateSection, socket, Detach
  <2>3. PICK at \in Quiet : Goto(t, loc[t], at)
    BY <1>12 DEF SendFails, InvalidateSection, Queue, Quiet
  <2>4. UNCHANGED <<session, issued, credentials, mode, started>>
    BY <1>12 DEF SendFails
  <2> QED BY <1>t, <2>1, <2>2, <2>3, <2>4, QuietStep
<1>13. CASE FrameRead(t) \/ Decoded(t)
  <2>1. PICK at \in {"decode", "yielded"} :
          Goto(t, loc[t], at) /\ pc[t] \in {"body", "decode"}
    BY <1>13 DEF FrameRead, Decoded
  <2>2. UNCHANGED <<session, socket, issued, credentials, mode, started>>
    BY <1>13 DEF FrameRead, Decoded
  <2>3. Good(loc[t], at) /\ ~Pending(loc[t], at)
    BY <1>t, <2>1 DEF Good, Holds, Pending, Carrying
  <2> QED BY <1>t, <2>1, <2>2, <2>3, TaskStep DEF session, socket
<1> QED BY <1>1, <1>2, <1>3, <1>4, <1>5, <1>6, <1>7, <1>8, <1>9, <1>10, <1>11, <1>12, <1>13
    DEF Reply

LEMMA CancelStep ==
  ASSUME IInv, NEW t \in Tasks, Cancel(t)
  PROVE  IInv'
<1>t. /\ generation \in Nat /\ token \in Nat /\ issued \in Nat /\ credentials \in Nat
      /\ mode \in Modes /\ started \in Nat /\ sock \in Seq(Socks) /\ ws \in Nat
      /\ loc[t] \in Locals /\ Good(loc[t], pc[t])
  BY DEF CoreTypes, IInv
<1>1. UNCHANGED <<issued, credentials, mode, started>>  BY DEF Cancel
<1>2. CASE HasFinally(t) /\ Clear(t, [loc[t] EXCEPT !.then = "failed"], RemoveFirst(lock, t))
  <2> DEFINE l == [loc[t] EXCEPT !.then = "failed"]
             q == RemoveFirst(lock, t)
  <2>1. /\ l \in Locals /\ l.op = "logout" /\ l.then = "failed" /\ l.gen = loc[t].gen
        /\ l.gen <= generation
    BY <1>t, <1>2, ThenUpdate DEF Good, HasFinally
  <2>2. Clear(t, l, q)  BY <1>2
  <2> HIDE DEF l, q
  <2> QED BY <1>t, <1>1, <2>1, <2>2, ClearStep
<1>3. CASE Proceed(t, loc[t], "finally", lock) /\ UNCHANGED <<session, socket>>
  <2>1. PICK to \in PCs : Goto(t, loc[t], to) /\ to \in {"finally", "failed"}
    BY <1>3, ProceedGoes
  <2> QED BY <1>t, <1>1, <1>3, <2>1, QuietStep DEF session, socket, Quiet
<1>4. CASE Goto(t, loc[t], "failed") /\ UNCHANGED <<session, socket>>
  BY <1>t, <1>1, <1>4, QuietStep DEF session, socket, Quiet
<1> QED BY <1>2, <1>3, <1>4 DEF Cancel

(* The device, a heartbeat or nobody takes the step.                        *)
LEMMA IdleStep ==
  ASSUME IInv, CoreTypes', UNCHANGED <<generation, token, application, pc, loc>>
  PROVE  IInv'
BY DEF IInv, Good, Holds, Pending, OnePending, VersionsOfSession, Carrying

LEMMA InitIInv == ASSUME SessionAssumption, Init PROVE IInv
<1>1. CoreTypes
  BY EmptySeq DEF Init, CoreTypes, Frame, Locals
<1>2. \A t \in Tasks : pc[t] = "new" /\ loc[t] = Frame("none", 0, 0, 0)  BY DEF Init
<1>3. \A t \in Tasks : Good(loc[t], pc[t])
  BY <1>2 DEF Init, Good, Holds, Pending, Carrying, Frame
<1> QED BY <1>1, <1>2, <1>3 DEF IInv, OnePending, Pending, VersionsOfSession, Init

LEMMA NextIInv == ASSUME IInv, [Next]_vars PROVE IInv'
<1>1. CASE \E t \in Tasks : Begin(t) \/ Continue(t) \/ Reply(t) \/ Cancel(t)
  BY <1>1, BeginStep, ContinueStep, ReplyStep, CancelStep
<1>2. CASE PeerCloses
  <2>1. sock' \in Seq(Socks)
    <3>1. PICK s \in {"broken", "closed"} : sock' = [sock EXCEPT ![ws].state = s]
      BY <1>2 DEF PeerCloses
    <3>2. sock \in Seq(Socks)  BY DEF IInv, CoreTypes
    <3>3. [sock EXCEPT ![ws].state = s] \in Seq(Socks)  BY <3>2, BreakType
    <3> QED BY <3>1, <3>3
  <2>2. UNCHANGED <<session, issued, credentials, mode, started, ws, pc, loc>>
    BY <1>2 DEF PeerCloses
  <2>3. CoreTypes'  BY <2>1, <2>2 DEF IInv, CoreTypes, session
  <2> QED BY <2>2, <2>3, IdleStep DEF session
<1>3. CASE \E w \in heartbeat : HeartbeatEnds(w)
  BY <1>3, IdleStep DEF HeartbeatEnds, IInv, CoreTypes, session
<1>4. CASE UNCHANGED vars
  BY <1>4, IdleStep DEF vars, IInv, CoreTypes
<1> QED BY <1>1, <1>2, <1>3, <1>4 DEF Next

(* The inductive invariant holds of every behaviour.                        *)
THEOREM Inductive == Spec => []IInv
<1>1. Init => IInv  BY SessionAssumption, InitIInv
<1>2. IInv /\ [Next]_vars => IInv'  BY NextIInv
<1> QED BY <1>1, <1>2, PTL DEF Spec

(* Whatever operations run at the same time, an operation whose generation  *)
(* is current carries the current token (check_session_generation).         *)
THEOREM GenerationNamesSessionThm == Spec => []GenerationNamesSession
<1>1. IInv => GenerationNamesSession
  BY DEF IInv, Good, Holds, GenerationNamesSession
<1> QED BY <1>1, Inductive, PTL

(* At most one login can still succeed, and only while no token is          *)
(* installed (do_authenticate).                                             *)
THEOREM LoginHasNoRivalThm == Spec => []LoginHasNoRival
<1>1. IInv => LoginHasNoRival
  BY DEF IInv, Good, OnePending, Pending, LoginHasNoRival
<1> QED BY <1>1, Inductive, PTL

(* Which task moved, and what a clear can do to the session.                *)
LEMMA OthersStay ==
  ASSUME IInv, NEW t \in Tasks, NEW u \in Tasks, u # t,
         Begin(t) \/ Continue(t) \/ Reply(t) \/ Cancel(t)
  PROVE  pc'[u] = pc[u]
<1>1. \E l, at : Goto(t, l, at)
  <2>1. ASSUME NEW l, NEW q, Clear(t, l, q) PROVE \E m, at : Goto(t, m, at)
    BY <2>1 DEF Clear, ClearSection, Proceed, Queue
  <2>2. CASE Begin(t)
    BY <2>1, <2>2 DEF Begin, Authenticate, Reauthenticate, Logout, Call, ChangePassword,
                      Input, GetWsSection, Connect, Exit, CloseSection, Stream, Consume, Queue
  <2>3. CASE Continue(t)
    BY <2>3 DEF Continue, ClearEnter, ClearSection, Closed, Proceed, FinallyEnter,
                GetWsEnter, GetWsSection, Connect, StaleClosed, InvalidateEnter,
                InvalidateSection, Invalidated, CloseEnter, CloseSection, ExitClosed, Queue
  <2>4. CASE Reply(t)
    BY <2>1, <2>4 DEF Reply, LoginFails, LoginAccepted, LoginRejected, RequestFails,
                      Unauthorized, LogoutMissing, Response, Result, Connected,
                      ConnectFails, Sent, SendFails, InvalidateSection, FrameRead, Decoded,
                      Queue
  <2>5. CASE Cancel(t)  BY <2>1, <2>5 DEF Cancel, Proceed, Queue
  <2> QED BY <2>2, <2>3, <2>4, <2>5
<1> QED BY <1>1 DEF Goto, IInv, CoreTypes

LEMMA ClearEnds ==
  ASSUME IInv, NEW t \in Tasks, NEW l, NEW q, Clear(t, l, q), l.then \in {"failed", "finally"}
  PROVE  pc'[t] \in {"clear", "closing", "failed", "finally"}
<1>1. pc \in [Tasks -> PCs]  BY DEF IInv, CoreTypes
<1> QED BY <1>1 DEF Clear, ClearSection, Proceed, Queue, Goto, AfterClear

LEMMA ClearSpares ==
  ASSUME NEW t \in Tasks, NEW l, NEW q, Clear(t, l, q) \/ ClearSection(t, l, q),
         l.op \notin Logins, token' # token
  PROVE  l.gen = generation
BY DEF Clear, ClearSection, Superseded, session

(* A result never reaches a session other than the one that asked for it.   *)
THEOREM ResultsStayInSessionThm == Spec => ResultsStayInSession
<1>1. ASSUME IInv, Next, NEW t \in Tasks, pc[t] \in Fetching, pc'[t] # pc[t],
             pc'[t] \in Fetching \cup {"yielded", "ok"}
      PROVE  loc[t].tok = token
  <2> USE DEF Fetching
  <2>1. Begin(t) \/ Continue(t) \/ Reply(t) \/ Cancel(t)
    BY <1>1, OthersStay DEF Next, PeerCloses, HeartbeatEnds
  <2>2. loc[t] \in Locals /\ Good(loc[t], pc[t]) /\ pc \in [Tasks -> PCs]
    BY <1>1 DEF IInv, CoreTypes
  <2>3. ~Begin(t)
    BY <1>1 DEF Begin, Authenticate, Reauthenticate, Logout, Call, ChangePassword, Input,
                Exit, Stream, Consume, Start
  <2>4. ~Continue(t)
    BY <1>1 DEF Continue, ClearEnter, Closed, FinallyEnter, GetWsEnter, StaleClosed,
                InvalidateEnter, Invalidated, CloseEnter, ExitClosed
  <2>5. ASSUME NEW th \in {"failed", "finally"}, NEW q, Clear(t, [loc[t] EXCEPT !.then = th], q)
        PROVE  FALSE
    <3>1. [loc[t] EXCEPT !.then = th].then \in {"failed", "finally"}
      BY <2>2 DEF Locals
    <3> QED BY <1>1, <2>5, <3>1, ClearEnds
  <2>6. ~(Goto(t, loc[t], "failed"))
    BY <1>1, <2>2 DEF Goto
  <2>7. ~Cancel(t)
    <3>1. pc[t] # "closing" /\ ~HasFinally(t) => ~Cancel(t)  BY <2>6 DEF Cancel
    <3>2. HasFinally(t) => ~Cancel(t)  BY <1>1, <2>5 DEF Cancel
    <3> QED BY <1>1, <3>1, <3>2
  <2>8. Current(t)
    BY <1>1, <2>1, <2>3, <2>4, <2>5, <2>6, <2>7
       DEF Reply, LoginFails, LoginAccepted, LoginRejected, RequestFails, Unauthorized,
           LogoutMissing, Response, Result, Connected, ConnectFails, Sent, SendFails,
           FrameRead, Decoded
  <2> QED BY <1>1, <2>2, <2>8 DEF Good, Holds, Carrying, Current
<1>2. IInv /\ [Next]_vars =>
        [\A t \in Tasks : pc[t] \in Fetching /\ pc'[t] # pc[t]
           /\ pc'[t] \in Fetching \cup {"yielded", "ok"} => loc[t].tok = token]_vars
  BY <1>1
<1> QED BY <1>2, Inductive, PTL DEF Spec, ResultsStayInSession

(* A rejection never ends a session other than the one that was rejected.   *)
THEOREM LateRejectionIsHarmlessThm == Spec => LateRejectionIsHarmless
<1>1. ASSUME IInv, Next, NEW t \in Tasks, Rejecting(t), pc[t] \notin Ended \cup {pc'[t]},
             pc'[t] \in {"failed", "closing"}, token' # token
      PROVE  token = loc[t].tok
  <2>1. Begin(t) \/ Continue(t) \/ Reply(t) \/ Cancel(t)
    BY <1>1, OthersStay DEF Next, PeerCloses, HeartbeatEnds
  <2>2. loc[t] \in Locals /\ Good(loc[t], pc[t]) /\ loc[t].op \in {"call", "input", "stream"}
    BY <1>1 DEF IInv, CoreTypes, Rejecting
  <2>3. ~Begin(t)
    BY <1>1 DEF Begin, Authenticate, Reauthenticate, Logout, Call, ChangePassword, Input,
                Exit, Stream, Consume, Start, session
  <2>4. CASE ClearEnter(t)
    <3>1. loc[t].gen = generation
      BY <1>1, <2>2, <2>4, ClearSpares DEF ClearEnter
    <3> QED BY <2>2, <2>4, <3>1 DEF Good, Holds, ClearEnter
  <2>5. ASSUME NEW th \in {"failed", "finally"}, NEW q, Clear(t, [loc[t] EXCEPT !.then = th], q)
        PROVE  loc[t].gen = generation
    <3>1. [loc[t] EXCEPT !.then = th].op = loc[t].op /\ [loc[t] EXCEPT !.then = th].gen = loc[t].gen
      BY <2>2 DEF Locals
    <3> QED BY <1>1, <2>2, <2>5, <3>1, ClearSpares
  <2>6. CASE Continue(t)
    BY <1>1, <2>4, <2>6
       DEF Continue, Closed, FinallyEnter, GetWsEnter, GetWsSection, StaleClosed,
           InvalidateEnter, Invalidated, CloseEnter, ExitClosed, session
  <2>7. ASSUME Reply(t) PROVE pc[t] \in Carrying /\ loc[t].gen = generation
    <3>1. CASE LoginFails(t) \/ Response(t) \/ Connected(t) \/ Sent(t) \/ SendFails(t)
      BY <1>1, <3>1 DEF LoginFails, Response, Connected, Sent, SendFails, session
    <3>2. CASE LoginAccepted(t) \/ LoginRejected(t)
      BY <2>2, <3>2 DEF LoginAccepted, LoginRejected, Good
    <3>3. CASE RequestFails(t)
      BY <1>1, <2>2, <3>3 DEF RequestFails, session
    <3>4. CASE Unauthorized(t) \/ ConnectFails(t)
      BY <1>1, <2>5, <3>4 DEF Unauthorized, ConnectFails, session, Carrying
    <3>5. CASE LogoutMissing(t)
      BY <2>2, <3>5 DEF LogoutMissing
    <3>6. CASE Result(t)
      BY <3>6 DEF Result, Current, Carrying
    <3>7. CASE FrameRead(t) \/ Decoded(t)
      BY <1>1, <3>7 DEF FrameRead, Decoded, session
    <3> QED BY <2>7, <3>1, <3>2, <3>3, <3>4, <3>5, <3>6, <3>7 DEF Reply
  <2>8. ~Cancel(t)  BY <1>1, <2>2 DEF Cancel, HasFinally, session
  <2> QED BY <2>1, <2>2, <2>3, <2>6, <2>7, <2>8 DEF Good, Holds
<1>2. IInv /\ [Next]_vars =>
        [\A t \in Tasks : Rejecting(t) /\ pc[t] \notin Ended \cup {pc'[t]}
           /\ pc'[t] \in {"failed", "closing"} /\ token' # token => token = loc[t].tok]_vars
  BY <1>1
<1> QED BY <1>2, Inductive, PTL DEF Spec, LateRejectionIsHarmless

--------------------------------------------------------------------------------
(* The second part of the invariant: the queue for the lock, the shared     *)
(* connection, and what each task relies on.                                *)
Locked ==
  /\ lock \in Seq(Tasks) /\ Distinct(lock)
  /\ \A t \in Tasks : t \in Elems(lock) <=> pc[t] \in Waiting \cup Holding
  /\ \A t \in Tasks : pc[t] \in Holding => Head(lock) = t

Counted ==
  /\ token <= issued /\ credentials <= issued
  /\ cancelled \in Nat /\ lastLogout \in Nat

(* Only the shared connection is not closed, and only a token opens one.    *)
Connection ==
  /\ http \in {"open", "left", "closed"}
  /\ ws \in 0..Len(sock) /\ heartbeat \subseteq {ws} \ {0}
  /\ \A w \in DOMAIN sock : sock[w].state # "closed" => w = ws
  /\ ws # 0 => token # 0 /\ sock[ws].tok = token
  /\ http = "closed" => ws = 0

(* What a task that suspends at `at` with locals l relies on: under the     *)
(* lock there is no connection, nobody clears the session while one is      *)
(* opened, and a login that may still fail has already dropped the old      *)
(* token.                                                                   *)
Linked(l, at) ==
  /\ l.tok <= issued
  /\ at \in Holding => ws = 0 /\ http # "closed"
  /\ at = "connect" => l.gen = generation
  /\ at \in {"send", "invalidate"} => l.w \in DOMAIN sock
  /\ at \in {"login", "closing"} /\ l.op \in Logins => token = 0 \/ l.tok # token
  /\ at = "clear" /\ l.op \notin Logins /\ l.tok # 0 /\ l.gen = generation => l.tok = token

(* Which operation is where.                                                *)
Kind(l, at) ==
  /\ l.phase = "password" => l.op = "change_password"
  /\ l.op = "call" =>
       l.then = "failed" /\ at \in {"request", "body", "clear", "closing", "ok", "failed"}

SInv ==
  /\ Locked /\ Counted /\ Connection
  /\ \A t \in Tasks : Linked(loc[t], pc[t]) /\ Kind(loc[t], pc[t])

--------------------------------------------------------------------------------
(* The queue for the lock.                                                  *)

NoHolder(t) == \A u \in Tasks : u # t => pc[u] \notin Holding

(* The queue of the other tasks.                                            *)
Behind(q, t) ==
  /\ q \in Seq(Tasks) /\ Distinct(q)
  /\ Elems(q) = Elems(lock) \ {t}
  /\ \A u \in Tasks : u # t /\ pc[u] \in Holding => q # <<>> /\ Head(q) = u

LEMMA BehindFree ==
  ASSUME Locked, NEW t \in Tasks, pc[t] \notin Waiting \cup Holding
  PROVE  Behind(lock, t)
<1>1. t \notin Elems(lock)  BY DEF Locked
<1>2. \A u \in Tasks : pc[u] \in Holding => lock # <<>> /\ Head(lock) = u
  BY EmptyQueue DEF Locked
<1> QED BY <1>1, <1>2 DEF Locked, Behind

LEMMA BehindHead ==
  ASSUME Locked, NEW t \in Tasks, AtHead(t)
  PROVE  Behind(Tail(lock), t) /\ NoHolder(t)
<1>1. lock \in Seq(Tasks) /\ Distinct(lock) /\ lock # <<>> /\ Head(lock) = t
  BY DEF Locked, AtHead
<1>2. NoHolder(t)  BY <1>1 DEF Locked, NoHolder
<1>3. Tail(lock) \in Seq(Tasks) /\ Distinct(Tail(lock)) /\ Elems(Tail(lock)) = Elems(lock) \ {t}
  BY <1>1, LeaveQueue
<1> QED BY <1>2, <1>3 DEF Behind, NoHolder

LEMMA HolderAtHead ==
  ASSUME Locked, NEW t \in Tasks, pc[t] \in Holding
  PROVE  AtHead(t)
<1>1. t \in Elems(lock) /\ Head(lock) = t  BY DEF Locked
<1>2. lock # <<>>  BY <1>1, EmptyQueue
<1> QED BY <1>1, <1>2 DEF AtHead

LEMMA BehindLeave ==
  ASSUME Locked, NEW t \in Tasks
  PROVE  Behind(RemoveFirst(lock, t), t)
<1>1. lock \in Seq(Tasks) /\ Distinct(lock)  BY DEF Locked
<1> DEFINE r == RemoveFirst(lock, t)
<1>2. /\ r \in Seq(Tasks) /\ Elems(r) = Elems(lock) \ {t} /\ Distinct(r)
      /\ lock # <<>> /\ Head(lock) # t => r # <<>> /\ Head(r) = Head(lock)
  BY <1>1, GiveUpQueue
<1> HIDE DEF r
<1>3. ASSUME NEW u \in Tasks, u # t, pc[u] \in Holding  PROVE r # <<>> /\ Head(r) = u
  <2>1. u \in Elems(lock) /\ Head(lock) = u  BY <1>3 DEF Locked
  <2>2. lock # <<>>  BY <2>1, EmptyQueue
  <2> QED BY <1>2, <1>3, <2>1, <2>2
<1>4. Behind(r, t)  BY <1>2, <1>3 DEF Behind
<1> QED BY <1>4 DEF r

LEMMA NobodyBehind ==
  ASSUME NEW t \in Tasks, Behind(<<>>, t)
  PROVE  NoHolder(t)
BY DEF Behind, NoHolder

(* A step of t to `at` and what it does to the queue.                       *)
Enters(t, l, at) ==
  /\ Goto(t, l, at)
  /\ \E q : /\ Behind(q, t)
            /\ \/ at \notin Waiting \cup Holding /\ lock' = q
               \/ at \in Waiting /\ lock' = Append(q, t)
               \/ at \in Holding /\ NoHolder(t) /\ lock' = <<t>> \o q

LEMMA LockStep ==
  ASSUME CoreTypes, Locked, NEW t \in Tasks, NEW l, NEW at, Enters(t, l, at)
  PROVE  Locked'
<1>1. pc'[t] = at /\ \A u \in Tasks : u # t => pc'[u] = pc[u]
  BY DEF Enters, Goto, CoreTypes
<1>2. PICK q : /\ Behind(q, t)
               /\ \/ at \notin Waiting \cup Holding /\ lock' = q
                  \/ at \in Waiting /\ lock' = Append(q, t)
                  \/ at \in Holding /\ NoHolder(t) /\ lock' = <<t>> \o q
  BY DEF Enters
<1>3. /\ q \in Seq(Tasks) /\ Distinct(q) /\ t \notin Elems(q)
      /\ \A u \in Tasks : u # t => (u \in Elems(q) <=> pc[u] \in Waiting \cup Holding)
      /\ \A u \in Tasks : u # t /\ pc[u] \in Holding => q # <<>> /\ Head(q) = u
  BY <1>2 DEF Behind, Locked
<1>4. CASE at \notin Waiting \cup Holding /\ lock' = q
  BY <1>1, <1>3, <1>4 DEF Locked
<1>5. CASE at \in Waiting /\ lock' = Append(q, t)
  <2>1. /\ Append(q, t) \in Seq(Tasks) /\ Distinct(Append(q, t))
        /\ Elems(Append(q, t)) = Elems(q) \cup {t}
        /\ q # <<>> => Head(Append(q, t)) = Head(q)
    BY <1>3, JoinQueue
  <2> QED BY <1>1, <1>3, <1>5, <2>1 DEF Locked
<1>6. CASE at \in Holding /\ NoHolder(t) /\ lock' = <<t>> \o q
  <2>1. /\ <<t>> \o q \in Seq(Tasks) /\ Distinct(<<t>> \o q)
        /\ Elems(<<t>> \o q) = Elems(q) \cup {t} /\ Head(<<t>> \o q) = t
    BY <1>3, FrontOfQueue
  <2> QED BY <1>1, <1>3, <1>6, <2>1 DEF Locked, NoHolder
<1> QED BY <1>2, <1>4, <1>5, <1>6

--------------------------------------------------------------------------------
(* What a step of one task must show.                                       *)

(* The other tasks keep what they rely on.                                  *)
LEMMA OthersLinked ==
  ASSUME IInv, SInv, NEW t \in Tasks, NEW u \in Tasks, u # t, pc'[u] = pc[u], loc'[u] = loc[u],
         \/ UNCHANGED <<generation, http>> /\ ws' \in {0, ws}
         \/ NoHolder(t),
         generation' \in {generation, generation + 1}, DOMAIN sock \subseteq DOMAIN sock',
         \/ issued' = issued /\ token' = token /\ generation' = generation
         \/ issued' = issued /\ token' = 0 /\ generation' = generation + 1
         \/ issued' = issued + 1 /\ token' = issued + 1 /\ token = 0 /\ generation' = generation
  PROVE  Linked(loc[u], pc[u])' /\ Kind(loc[u], pc[u])'
<1>1. /\ Linked(loc[u], pc[u]) /\ Kind(loc[u], pc[u])
      /\ loc[u] \in Locals /\ issued \in Nat /\ generation \in Nat /\ token \in Nat
      /\ loc[u].gen <= generation /\ loc[u].tok \in Nat /\ loc[u].gen \in Nat
  BY DEF SInv, IInv, Good, CoreTypes, Locals
<1>2. Kind(loc[u], pc[u])'  BY <1>1 DEF Kind
<1>3. (pc[u] \in Holding => ws' = 0 /\ http' # "closed")
  BY <1>1 DEF Linked, NoHolder
<1>4. pc[u] = "connect" => loc[u].gen = generation'
  BY <1>1 DEF Linked, NoHolder
<1>5. loc[u].tok <= issued'  BY <1>1 DEF Linked
<1>6. pc[u] \in {"login", "closing"} /\ loc[u].op \in Logins => token' = 0 \/ loc[u].tok # token'
  BY <1>1 DEF Linked
<1>7. pc[u] = "clear" /\ loc[u].op \notin Logins /\ loc[u].tok # 0 /\ loc[u].gen = generation' => loc[u].tok = token'
  BY <1>1 DEF Linked
<1> QED BY <1>1, <1>2, <1>3, <1>4, <1>5, <1>6, <1>7 DEF Linked

LEMMA TaskLinked ==
  ASSUME IInv, SInv, NEW t \in Tasks, NEW l \in Locals, NEW at \in PCs, Enters(t, l, at),
         \/ UNCHANGED <<generation, http>> /\ ws' \in {0, ws}
         \/ NoHolder(t),
         generation' \in {generation, generation + 1}, DOMAIN sock \subseteq DOMAIN sock',
         \/ issued' = issued /\ token' = token /\ generation' = generation
         \/ issued' = issued /\ token' = 0 /\ generation' = generation + 1
         \/ issued' = issued + 1 /\ token' = issued + 1 /\ token = 0 /\ generation' = generation,
         Connection', Counted', Kind(l, at), Linked(l, at)'
  PROVE  SInv'
<1>1. pc'[t] = at /\ loc'[t] = l /\ \A u \in Tasks : u # t => pc'[u] = pc[u] /\ loc'[u] = loc[u]
  BY DEF Enters, Goto, IInv, CoreTypes
<1>2. Locked'  BY LockStep DEF IInv, SInv
<1>3. ASSUME NEW u \in Tasks  PROVE Linked(loc[u], pc[u])' /\ Kind(loc[u], pc[u])'
  <2>1. CASE u = t  BY <1>1, <2>1 DEF Linked, Kind
  <2>2. CASE u # t  BY <1>1, <2>2, OthersLinked
  <2> QED BY <2>1, <2>2
<1> QED BY <1>2, <1>3 DEF SInv

(* A step that leaves the session and the connection alone.                 *)
LEMMA KeptStep ==
  ASSUME IInv, SInv, NEW t \in Tasks, NEW l \in Locals, NEW at \in PCs, Enters(t, l, at),
         UNCHANGED <<generation, token, issued, socket, http>>,
         credentials' <= issued, cancelled' \in Nat, lastLogout' \in Nat,
         Kind(l, at), Linked(l, at)
  PROVE  SInv'
<1>1. Connection'  BY DEF SInv, Connection, socket
<1>2. Counted'  BY DEF SInv, Counted
<1>3. Linked(l, at)'  BY DEF Linked, socket
<1>4. ws' = ws /\ DOMAIN sock' = DOMAIN sock  BY DEF socket
<1> QED BY <1>1, <1>2, <1>3, <1>4, TaskLinked

(* A step that ends the session and closes its connection, under the lock.  *)
LEMMA CloseAll ==
  ASSUME CoreTypes, Connection, DetachAndClose
  PROVE  /\ ws' = 0 /\ heartbeat' = {} /\ DOMAIN sock' = DOMAIN sock
         /\ Len(sock') = Len(sock) /\ sock' \in Seq(Socks)
         /\ \A w \in DOMAIN sock' : sock'[w].state = "closed"
<1>1. sock \in Seq(Socks) /\ sock' \in Seq(Socks)  BY CloseType DEF CoreTypes
<1>2. DOMAIN sock' = DOMAIN sock  BY DEF DetachAndClose
<1>3. Len(sock') = Len(sock)  BY <1>1, <1>2, LenProperties
<1>4. ws' = 0 /\ heartbeat' = {}  BY DEF DetachAndClose, Detach, Connection
<1>5. ASSUME NEW w \in DOMAIN sock  PROVE sock'[w].state = "closed"
  <2>1. sock[w] \in Socks  BY <1>1, ElementOfSeq, LenProperties
  <2>2. sock'[w] = IF w = ws THEN [sock[w] EXCEPT !.state = "closed"] ELSE sock[w]
    BY DEF DetachAndClose
  <2> QED BY <2>1, <2>2 DEF Connection, Socks
<1> QED BY <1>1, <1>2, <1>3, <1>4, <1>5

LEMMA EndSessionStep ==
  ASSUME IInv, SInv, NEW t \in Tasks, NEW l \in Locals, NEW at \in PCs, Enters(t, l, at),
         NoHolder(t), DetachAndClose, generation' = generation + 1, token' = 0,
         UNCHANGED <<issued, http>>, credentials' <= issued, cancelled' \in Nat, lastLogout' \in Nat,
         Kind(l, at), l.tok <= issued, at \in {"closing", "login", "finally", "ok", "failed"}
  PROVE  SInv'
<1>1. /\ ws' = 0 /\ heartbeat' = {} /\ DOMAIN sock' = DOMAIN sock
      /\ \A w \in DOMAIN sock' : sock'[w].state = "closed"
      /\ Len(sock') \in Nat /\ issued \in Nat
  <2>1. CoreTypes  BY DEF IInv
  <2>2. Connection  BY DEF SInv
  <2>3. /\ ws' = 0 /\ heartbeat' = {} /\ DOMAIN sock' = DOMAIN sock /\ sock' \in Seq(Socks)
        /\ \A w \in DOMAIN sock' : sock'[w].state = "closed"
    BY <2>1, <2>2, CloseAll
  <2> QED BY <2>1, <2>3, LenProperties DEF CoreTypes
<1>2. Connection'  BY <1>1 DEF SInv, Connection
<1>3. Counted'  BY <1>1 DEF SInv, Counted
<1>4. Linked(l, at)'  BY <1>1 DEF Linked
<1> QED BY <1>1, <1>2, <1>3, <1>4, TaskLinked

--------------------------------------------------------------------------------
(* clear_local_session.                                                     *)

LEMMA ProceedEnters ==
  ASSUME NEW t \in Tasks, NEW l \in Locals, NEW at \in {"closing", "login", "finally", "ok", "failed"},
         NEW q, Behind(q, t), Proceed(t, l, at, q), lastLogout \in Nat
  PROVE  /\ lastLogout' \in Nat
         /\ \E to \in {"closing", "login", "finally", "ok", "failed"} :
              Enters(t, l, to) /\ (to = at \/ (at = "finally" /\ to = "failed"))
<1>1. lastLogout' \in Nat  BY DEF Proceed, Record, Locals
<1>2. CASE at = "finally" /\ q # <<>>
  BY <1>1, <1>2 DEF Proceed, Queue, Enters
<1>3. CASE ~(at = "finally" /\ q # <<>>)
  <2> DEFINE to == IF at = "finally" THEN "failed" ELSE at
  <2>1. Goto(t, l, to) /\ lock' = q  BY <1>3 DEF Proceed
  <2>2. to \in {"closing", "login", "ok", "failed"}  OBVIOUS
  <2>3. Enters(t, l, to)  BY <2>1, <2>2 DEF Enters
  <2> QED BY <1>1, <2>2, <2>3
<1> QED BY <1>2, <1>3

LEMMA ClearSectionKeeps ==
  ASSUME IInv, SInv, NEW t \in Tasks, NEW l \in Locals, NEW q, Behind(q, t), NoHolder(t),
         ClearSection(t, l, q),
         UNCHANGED <<issued, http>>, credentials' <= issued, cancelled' \in Nat,
         l.then = "post" <=> l.op \in Logins, l.tok <= issued, Kind(l, "clear")
  PROVE  SInv'
<1>0. lastLogout \in Nat /\ generation \in Nat /\ mode \in Modes
  BY DEF SInv, Counted, IInv, CoreTypes
<1>1. CASE Superseded(l) /\ Proceed(t, l, AfterClear(l), q) /\ UNCHANGED <<session, socket>>
  <2>1. AfterClear(l) = l.then /\ l.then \in {"finally", "ok", "failed"}
    BY <1>1 DEF Superseded, AfterClear, Locals
  <2>2. PICK to \in {"closing", "login", "finally", "ok", "failed"} :
          Enters(t, l, to) /\ (to = l.then \/ (l.then = "finally" /\ to = "failed"))
    BY <1>0, <1>1, <2>1, ProceedEnters
  <2>3. lastLogout' \in Nat  BY <1>0, <1>1, <2>1, ProceedEnters
  <2>4. Kind(l, to) /\ Linked(l, to)  BY <2>1, <2>2 DEF Kind, Linked
  <2> QED BY <1>1, <2>2, <2>3, <2>4, KeptStep DEF session
<1>2. CASE ~Superseded(l) /\ ClearSection(t, l, q)
  <2> DEFINE mine == IF l.op \in Logins THEN ReadMode([l EXCEPT !.gen = generation + 1]) ELSE l
             at == IF Usable THEN "closing" ELSE AfterClear(l)
  <2>1. /\ generation' = generation + 1 /\ token' = 0
        /\ DetachAndClose /\ Proceed(t, mine, at, q)
    BY <1>2 DEF ClearSection
  <2>2. /\ mine \in Locals /\ mine.op = l.op /\ mine.tok = l.tok /\ mine.then = l.then
        /\ mine.phase = l.phase
    <3>1. generation + 1 \in Nat  BY <1>0
    <3> QED BY <1>0, <3>1, ModeRead
  <2>3. at \in {"closing", "login", "finally", "ok", "failed"} /\ at \in {"closing", "login", "failed", l.then}
        /\ (at = "login" => l.then = "post")
    BY DEF AfterClear, Locals
  <2> HIDE DEF mine, at
  <2>4. PICK to \in {"closing", "login", "finally", "ok", "failed"} :
          Enters(t, mine, to) /\ (to = at \/ (at = "finally" /\ to = "failed"))
    BY <1>0, <2>1, <2>2, <2>3, ProceedEnters
  <2>5. lastLogout' \in Nat  BY <1>0, <2>1, <2>2, <2>3, ProceedEnters
  <2>6. Kind(mine, to)  BY <2>2, <2>3, <2>4 DEF Kind
  <2> QED BY <2>1, <2>2, <2>4, <2>5, <2>6, EndSessionStep
<1> QED BY <1>1, <1>2 DEF ClearSection

LEMMA ClearKeeps ==
  ASSUME IInv, SInv, NEW t \in Tasks, NEW l \in Locals, NEW q, Behind(q, t), Clear(t, l, q),
         UNCHANGED <<issued, http>>, credentials' <= issued, cancelled' \in Nat,
         l.then = "post" <=> l.op \in Logins, l.tok <= issued, Kind(l, "clear"),
         l.op \notin Logins /\ l.tok # 0 /\ l.gen = generation => l.tok = token
  PROVE  SInv'
<1>1. CASE q = <<>> /\ ClearSection(t, l, q)
  BY <1>1, NobodyBehind, ClearSectionKeeps
<1>2. CASE Queue(t, l, "clear", q) /\ UNCHANGED <<session, socket, lastLogout>>
  <2>1. Enters(t, l, "clear")  BY <1>2 DEF Queue, Enters
  <2>2. Linked(l, "clear")  BY DEF Linked
  <2>3. lastLogout' \in Nat  BY <1>2 DEF SInv, Counted
  <2> QED BY <1>2, <2>1, <2>2, <2>3, KeptStep DEF session
<1> QED BY <1>1, <1>2 DEF Clear

--------------------------------------------------------------------------------
(* The locals of an operation that begins.                                  *)
LEMMA FreshKind ==
  ASSUME IInv, SInv, NEW op \in AllOperations \ Logins
  PROVE  LET l == Fresh(op)
         IN /\ l \in Locals /\ l.op = op /\ l.gen = generation /\ l.tok = token
            /\ l.then = "failed" /\ l.phase = "none" /\ l.tok <= issued /\ l.w = 0
BY DEF Fresh, Frame, Locals, IInv, CoreTypes, SInv, Counted

(* Other fields of the locals.                                              *)
LEMMA PhaseSet ==
  ASSUME NEW l \in Locals, NEW p \in Phases
  PROVE  LET m == [l EXCEPT !.phase = p]
         IN /\ m \in Locals /\ m.op = l.op /\ m.gen = l.gen /\ m.tok = l.tok /\ m.then = l.then
            /\ m.phase = p /\ m.w = l.w
BY DEF Locals

LEMMA ThenSet ==
  ASSUME NEW l \in Locals, NEW th \in {"post", "finally", "ok", "failed"}
  PROVE  LET m == [l EXCEPT !.then = th]
         IN /\ m \in Locals /\ m.op = l.op /\ m.gen = l.gen /\ m.tok = l.tok /\ m.then = th
            /\ m.phase = l.phase
BY DEF Locals

LEMMA WSet ==
  ASSUME NEW l \in Locals, NEW w \in Nat
  PROVE  LET m == [l EXCEPT !.w = w]
         IN /\ m \in Locals /\ m.op = l.op /\ m.gen = l.gen /\ m.tok = l.tok /\ m.then = l.then
            /\ m.phase = l.phase /\ m.w = w
BY DEF Locals

(* What is known of a task that is not in the queue for the lock.           *)
LEMMA Known ==
  ASSUME IInv, SInv, NEW t \in Tasks
  PROVE  /\ loc[t] \in Locals /\ Good(loc[t], pc[t]) /\ Linked(loc[t], pc[t]) /\ Kind(loc[t], pc[t])
         /\ generation \in Nat /\ token \in Nat /\ issued \in Nat /\ credentials \in Nat
         /\ token <= issued /\ credentials <= issued /\ cancelled \in Nat /\ lastLogout \in Nat
         /\ CoreTypes /\ Locked /\ Connection
BY DEF IInv, SInv, CoreTypes, Counted

(* A task that is not in the queue goes where it is not either.             *)
Outside == PCs \ (Waiting \cup Holding)

LEMMA OutsideEnters ==
  ASSUME Locked, NEW t \in Tasks, pc[t] \in Outside, NEW l, NEW at \in Outside, Goto(t, l, at),
         lock' = lock
  PROVE  Enters(t, l, at)
<1>1. Behind(lock, t)  BY BehindFree DEF Outside
<1> QED BY <1>1 DEF Enters, Outside

LEMMA OutsideStep ==
  ASSUME IInv, SInv, NEW t \in Tasks, pc[t] \in Outside, NEW l \in Locals, NEW at \in Outside,
         Goto(t, l, at), lock' = lock,
         UNCHANGED <<generation, token, issued, socket, http>>,
         credentials' <= issued, cancelled' \in Nat, lastLogout' \in Nat,
         Kind(l, at), Linked(l, at)
  PROVE  SInv'
<1>1. Enters(t, l, at)  BY OutsideEnters DEF SInv
<1> QED BY <1>1, KeptStep DEF Outside

LEMMA GetWsKeeps ==
  ASSUME IInv, SInv, NEW t \in Tasks, NEW l \in Locals, NEW q, Behind(q, t), NoHolder(t),
         GetWsSection(t, l, q),
         UNCHANGED <<issued, http, credentials, cancelled>>,
         Kind(l, "getws"), l.op \notin Logins, l.tok <= issued
  PROVE  SInv'
<1>1. /\ generation \in Nat /\ token \in Nat /\ token <= issued /\ issued \in Nat
      /\ credentials <= issued /\ cancelled \in Nat /\ lastLogout \in Nat /\ Connection
      /\ ws \in Nat /\ Len(sock) \in Nat /\ DOMAIN sock = 1..Len(sock) /\ sock \in Seq(Socks)
  BY LenProperties DEF IInv, SInv, CoreTypes, Counted
<1>2. UNCHANGED <<generation, token>> /\ lastLogout' = lastLogout
  BY DEF GetWsSection, session
<1>3. CASE Usable /\ Goto(t, [l EXCEPT !.w = ws], "send") /\ lock' = q /\ UNCHANGED socket
  <2> DEFINE m == [l EXCEPT !.w = ws]
  <2>1. m \in Locals /\ m.op = l.op /\ m.tok = l.tok /\ m.phase = l.phase /\ m.w = ws
    BY <1>1, WSet
  <2>2. Goto(t, m, "send")  BY <1>3
  <2> HIDE DEF m
  <2>3. Enters(t, m, "send")  BY <1>3, <2>2 DEF Enters
  <2>4. ws \in DOMAIN sock  BY <1>1, <1>3 DEF Connection, Usable
  <2>5. Kind(m, "send") /\ Linked(m, "send")  BY <2>1, <2>4 DEF Kind, Linked
  <2> QED BY <1>1, <1>2, <1>3, <2>1, <2>3, <2>5, KeptStep
<1>4. CASE ws # 0 /\ ~Usable /\ Detach /\ UNCHANGED sock /\ Goto(t, l, "stale") /\ lock' = <<t>> \o q
  <2>1. Enters(t, l, "stale")  BY <1>4 DEF Enters
  <2>2. ws' = 0 /\ heartbeat' = {} /\ sock' = sock
    BY <1>1, <1>4 DEF Connection, Detach
  <2>3. sock[ws].state = "closed"  BY <1>4 DEF Usable
  <2>4. Connection'  BY <1>1, <2>2, <2>3 DEF Connection
  <2>5. Counted'  BY <1>1, <1>2 DEF Counted
  <2>6. http # "closed"  BY <1>1, <1>4 DEF Connection
  <2>7. Linked(l, "stale")'  BY <1>2, <2>2, <2>6 DEF Linked
  <2>8. Kind(l, "stale")  BY DEF Kind
  <2> QED BY <1>2, <2>1, <2>2, <2>4, <2>5, <2>7, <2>8, TaskLinked
<1>5. CASE ws = 0 /\ Connect(t, l, q) /\ UNCHANGED socket
  <2>1. CASE Goto(t, l, "failed") /\ lock' = q
    <3>1. Enters(t, l, "failed")  BY <2>1 DEF Enters
    <3>2. Kind(l, "failed") /\ Linked(l, "failed")  BY DEF Kind, Linked
    <3> QED BY <1>1, <1>2, <1>5, <3>1, <3>2, KeptStep
  <2>2. CASE /\ token # 0 /\ http # "closed" /\ lock' = <<t>> \o q
             /\ Goto(t, [l EXCEPT !.gen = generation, !.tok = token], "connect")
    <3> DEFINE m == [l EXCEPT !.gen = generation, !.tok = token]
    <3>1. /\ m \in Locals /\ m.op = l.op /\ m.gen = generation /\ m.tok = token
          /\ m.phase = l.phase
      BY <1>1 DEF Locals
    <3>2. Goto(t, m, "connect")  BY <2>2
    <3> HIDE DEF m
    <3>3. Enters(t, m, "connect")  BY <2>2, <3>2 DEF Enters
    <3>4. Kind(m, "connect") /\ Linked(m, "connect")
      BY <1>1, <1>5, <2>2, <3>1 DEF Kind, Linked
    <3> QED BY <1>1, <1>2, <1>5, <3>1, <3>3, <3>4, KeptStep
  <2> QED BY <1>5, <2>1, <2>2 DEF Connect
<1> QED BY <1>3, <1>4, <1>5 DEF GetWsSection

(* close_ws under the lock.                                                 *)
LEMMA CloseKeeps ==
  ASSUME IInv, SInv, NEW t \in Tasks, NEW l \in Locals, NEW q, Behind(q, t), NoHolder(t),
         CloseSection(t, l, q), UNCHANGED <<generation, token, issued, cancelled, lastLogout>>,
         credentials' <= issued, Kind(l, "close"), l.tok <= issued
  PROVE  SInv'
<1>1. /\ CoreTypes /\ Connection /\ issued \in Nat /\ ws \in Nat
      /\ cancelled \in Nat /\ lastLogout \in Nat /\ token <= issued
  BY DEF IInv, SInv, CoreTypes, Counted
<1>2. /\ ws' = 0 /\ heartbeat' = {} /\ DOMAIN sock' = DOMAIN sock /\ Len(sock') \in Nat
      /\ \A w \in DOMAIN sock' : sock'[w].state = "closed"
  <2>1. DetachAndClose  BY DEF CloseSection
  <2> QED BY <1>1, <2>1, CloseAll, LenProperties
<1>3. http' \in {"open", "left", "closed"}
  BY <1>1 DEF CloseSection, CloseHttp, Connection
<1>4. Connection'  BY <1>2, <1>3 DEF Connection
<1>5. Counted'  BY <1>1 DEF Counted
<1>6. CASE Usable /\ Goto(t, l, "exit_close") /\ lock' = <<t>> \o q /\ http' = http
  <2>1. Enters(t, l, "exit_close")  BY <1>6 DEF Enters
  <2>2. http # "closed"  BY <1>1, <1>6 DEF Connection, Usable
  <2>3. Linked(l, "exit_close")' /\ Kind(l, "exit_close")  BY <1>2, <1>6, <2>2 DEF Linked, Kind
  <2> QED BY <1>2, <1>4, <1>5, <1>6, <2>1, <2>3, TaskLinked
<1>7. CASE Goto(t, l, "ok") /\ lock' = q
  <2>1. Enters(t, l, "ok")  BY <1>7 DEF Enters
  <2>2. Linked(l, "ok")' /\ Kind(l, "ok")  BY DEF Linked, Kind
  <2> QED BY <1>2, <1>4, <1>5, <2>1, <2>2, TaskLinked
<1> QED BY <1>6, <1>7 DEF CloseSection

(* invalidate_ws under the lock.                                            *)
LEMMA InvalidateKeeps ==
  ASSUME IInv, SInv, NEW t \in Tasks, NEW q, Behind(q, t), NoHolder(t),
         InvalidateSection(t, q), pc[t] \in {"send", "invalidate"},
         UNCHANGED <<session, issued, credentials, http, cancelled, lastLogout>>
  PROVE  SInv'
<1> DEFINE w == loc[t].w
<1>1. /\ CoreTypes /\ Connection /\ issued \in Nat /\ ws \in Nat /\ credentials <= issued
      /\ cancelled \in Nat /\ lastLogout \in Nat /\ token <= issued
      /\ w \in DOMAIN sock /\ loc[t] \in Locals /\ loc[t].tok <= issued /\ Kind(loc[t], pc[t])
      /\ sock \in Seq(Socks) /\ Len(sock) \in Nat /\ DOMAIN sock = 1..Len(sock)
  BY LenProperties DEF IInv, SInv, CoreTypes, Counted, Linked
<1> HIDE DEF w
<1>2. sock' = [sock EXCEPT ![w].state = "closed"] /\ generation' = generation /\ token' = token
  BY DEF InvalidateSection, session, w
<1>3. /\ DOMAIN sock' = DOMAIN sock
      /\ \A v \in DOMAIN sock : sock'[v].tok = sock[v].tok
      /\ \A v \in DOMAIN sock : sock'[v].state = IF v = w THEN "closed" ELSE sock[v].state
  <2>1. \A v \in DOMAIN sock : sock[v] \in Socks  BY <1>1, ElementOfSeq
  <2> QED BY <1>1, <1>2, <2>1 DEF Socks
<1>4. sock' \in Seq(Socks)  BY <1>1, <1>2, BreakType
<1>5. Len(sock') = Len(sock)  BY <1>1, <1>3, <1>4, LenProperties
<1>6. ws' = (IF ws = w THEN 0 ELSE ws) /\ heartbeat' = (IF ws = w THEN heartbeat \ {ws} ELSE heartbeat)
  BY DEF InvalidateSection, Detach, w
<1>7. Connection'
  BY <1>1, <1>2, <1>3, <1>5, <1>6 DEF Connection
<1>8. Counted'  BY <1>1, <1>2 DEF Counted
<1>9. Kind(loc[t], "failed") /\ Kind(loc[t], "inv_close")
  BY <1>1 DEF Kind
<1>10. CASE IsClosed(w) /\ Goto(t, loc[t], "failed") /\ lock' = q
  <2>1. Enters(t, loc[t], "failed")  BY <1>10 DEF Enters
  <2>2. loc[t].tok <= issued'  BY <1>1
  <2> DEFINE l == loc[t]
  <2>3. l \in Locals /\ l.tok <= issued' /\ Enters(t, l, "failed") /\ Kind(l, "failed")  BY <1>1, <1>9, <2>1, <2>2
  <2>4. DOMAIN sock \subseteq DOMAIN sock' /\ ws' \in {0, ws}  BY <1>3, <1>6
  <2> HIDE DEF l
  <2>5. \A x : x.tok <= issued' => Linked(x, "failed")'  BY DEF Linked
  <2> QED BY <1>2, <1>7, <1>8, <2>3, <2>4, <2>5, TaskLinked
<1>11. CASE ~IsClosed(w) /\ Goto(t, loc[t], "inv_close") /\ lock' = <<t>> \o q
  <2>1. Enters(t, loc[t], "inv_close")  BY <1>11 DEF Enters
  <2>2. ws = w /\ ws' = 0 /\ w # 0  BY <1>1, <1>6, <1>11 DEF Connection, IsClosed
  <2>3. http' # "closed"  BY <1>1, <2>2 DEF Connection
  <2> DEFINE l == loc[t]
  <2>4. l \in Locals /\ l.tok <= issued' /\ Enters(t, l, "inv_close") /\ Kind(l, "inv_close")
    BY <1>1, <1>9, <2>1
  <2>5. DOMAIN sock \subseteq DOMAIN sock' /\ ws' \in {0, ws}  BY <1>3, <1>6
  <2> HIDE DEF l
  <2>6. \A x : x.tok <= issued' => Linked(x, "inv_close")'  BY <2>2, <2>3 DEF Linked
  <2> QED BY <1>2, <1>7, <1>8, <2>4, <2>5, <2>6, TaskLinked
<1> QED BY <1>10, <1>11 DEF InvalidateSection, w

LEMMA BeginKeeps ==
  ASSUME IInv, SInv, NEW t \in Tasks, Begin(t)
  PROVE  SInv'
<1> USE DEF Start
<1>k. /\ loc[t] \in Locals /\ Linked(loc[t], pc[t]) /\ Kind(loc[t], pc[t])
      /\ generation \in Nat /\ token \in Nat /\ issued \in Nat /\ credentials \in Nat
      /\ token <= issued /\ credentials <= issued /\ cancelled \in Nat /\ lastLogout \in Nat
      /\ started \in Nat /\ mode \in Modes /\ Locked
  BY Known DEF CoreTypes
<1>f. \A op \in AllOperations \ Logins :
        /\ Fresh(op) \in Locals /\ Fresh(op).op = op /\ Fresh(op).gen = generation
        /\ Fresh(op).tok = token /\ Fresh(op).then = "failed" /\ Fresh(op).phase = "none"
  BY FreshKind
<1>w. Kind(Fresh("input"), "getws") /\ Kind(Fresh("exit"), "close")  BY <1>f DEF Kind
<1>b. pc[t] \in Ended => Behind(lock, t)  BY <1>k, BehindFree
<1>n. lock = <<>> => NoHolder(t)
  BY <1>k, EmptyQueue DEF Locked, NoHolder
<1>l. \A op \in Logins, c \in {0, credentials} :
        /\ LoginFrame(op, c) \in Locals
        /\ LoginFrame(op, c).op = op /\ LoginFrame(op, c).then = "post"
        /\ LoginFrame(op, c).tok = token /\ LoginFrame(op, c).phase = "none"
  BY <1>k DEF LoginFrame, Locals
<1>1. CASE Authenticate(t) \/ Reauthenticate(t)
  <2>1. PICK op \in Logins, c \in {0, credentials} : Clear(t, LoginFrame(op, c), lock)
    BY <1>1 DEF Authenticate, Reauthenticate
  <2>2. UNCHANGED <<issued, http, cancelled>> /\ credentials' <= issued /\ Behind(lock, t)
    BY <1>1, <1>k, <1>b DEF Authenticate, Reauthenticate
  <2> DEFINE l == LoginFrame(op, c)
  <2>3. /\ l \in Locals /\ l.op = op /\ l.then = "post" /\ l.tok <= issued /\ Kind(l, "clear")
        /\ l.op \in Logins
    BY <1>k, <1>l DEF Kind
  <2>4. Clear(t, l, lock)  BY <2>1
  <2> HIDE DEF l
  <2> QED BY <1>k, <2>2, <2>3, <2>4, ClearKeeps
<1>2. CASE Logout(t)
  <2> DEFINE l == [Fresh("logout") EXCEPT !.then = "ok"]
  <2>1. /\ l \in Locals /\ l.op = "logout" /\ l.then = "ok" /\ l.gen = generation /\ l.tok = token
        /\ l.phase = "none"
    BY <1>f DEF Locals
  <2>2. UNCHANGED <<issued, http, cancelled>> /\ credentials' <= issued /\ pc[t] \in Ended
    BY <1>2, <1>k DEF Logout
  <2>3. CASE Goto(t, l, "request") /\ UNCHANGED <<session, socket, lock, lastLogout>>
    <3>1. Kind(l, "request") /\ Linked(l, "request")  BY <1>k, <2>1 DEF Kind, Linked
    <3> HIDE DEF l
    <3> QED BY <1>k, <2>1, <2>2, <2>3, <3>1, OutsideStep DEF session, Outside
  <2>4. CASE Clear(t, l, lock)
    <3>1. Kind(l, "clear") /\ Behind(lock, t)  BY <1>b, <2>1, <2>2 DEF Kind
    <3> HIDE DEF l
    <3> QED BY <1>k, <2>1, <2>2, <2>4, <3>1, ClearKeeps
  <2> QED BY <1>2, <2>3, <2>4 DEF Logout
<1>3. CASE Call(t)
  <2>1. Kind(Fresh("call"), "request") /\ Linked(Fresh("call"), "request")
    BY <1>k, <1>f DEF Kind, Linked
  <2> QED BY <1>3, <1>k, <1>f, <2>1, OutsideStep DEF Call, session, Outside
<1>4. CASE ChangePassword(t)
  <2> DEFINE l == [Fresh("change_password") EXCEPT !.phase = "versions"]
             s == PasswordStep(l)
  <2>1. l \in Locals /\ l.op = "change_password" /\ l.tok = token
    BY <1>f DEF Locals
  <2>2. s.l \in Locals /\ s.l.op = "change_password" /\ s.l.tok = token /\ s.at \in {"failed", "request"}
    BY <2>1 DEF PasswordStep, Locals
  <2>3. PICK m \in {l, s.l}, at \in {"failed", "request"} : Goto(t, m, at)
    BY <1>4, <2>2 DEF ChangePassword
  <2>4. m \in Locals /\ Kind(m, at) /\ Linked(m, at)
    BY <1>k, <2>1, <2>2, <2>3 DEF Kind, Linked
  <2>5. /\ UNCHANGED <<session, socket, issued, lock, http, cancelled, lastLogout>>
        /\ credentials' <= issued /\ pc[t] \in Ended
    BY <1>4, <1>k DEF ChangePassword
  <2> HIDE DEF l, s
  <2> QED BY <1>k, <2>3, <2>4, <2>5, OutsideStep DEF session, Outside
<1>5. CASE Input(t)
  <2>1. UNCHANGED <<issued, http, credentials, cancelled>> /\ Behind(lock, t)
    BY <1>5, <1>b DEF Input
  <2>2. CASE lock = <<>> /\ GetWsSection(t, Fresh("input"), lock)
    BY <1>k, <1>f, <1>n, <1>w, <2>1, <2>2, GetWsKeeps
  <2>3. CASE Queue(t, Fresh("input"), "getws", lock) /\ UNCHANGED <<session, socket, lastLogout>>
    <3>1. Enters(t, Fresh("input"), "getws")  BY <2>1, <2>3 DEF Queue, Enters
    <3>2. Kind(Fresh("input"), "getws") /\ Linked(Fresh("input"), "getws")
      BY <1>k, <1>f DEF Kind, Linked
    <3> QED BY <1>k, <1>f, <2>1, <2>3, <3>1, <3>2, KeptStep DEF session
  <2> QED BY <1>5, <2>2, <2>3 DEF Input
<1>6. CASE Exit(t)
  <2>1. UNCHANGED <<generation, token, issued, cancelled, lastLogout>> /\ credentials' <= issued
        /\ Behind(lock, t)
    BY <1>6, <1>k, <1>b DEF Exit, session
  <2>2. CASE lock = <<>> /\ CloseSection(t, Fresh("exit"), lock)
    BY <1>k, <1>f, <1>n, <1>w, <2>1, <2>2, CloseKeeps
  <2>3. CASE Queue(t, Fresh("exit"), "close", lock) /\ UNCHANGED <<socket, http>>
    <3>1. Enters(t, Fresh("exit"), "close")  BY <2>1, <2>3 DEF Queue, Enters
    <3>2. Kind(Fresh("exit"), "close") /\ Linked(Fresh("exit"), "close")
      BY <1>k, <1>f DEF Kind, Linked
    <3> QED BY <1>k, <1>f, <2>1, <2>3, <3>1, <3>2, KeptStep
  <2> QED BY <1>6, <2>2, <2>3 DEF Exit
<1>7. CASE Stream(t)
  <2>1. PICK kind \in {"bytes", "images"} : Goto(t, [Fresh("stream") EXCEPT !.phase = kind], "request")
    BY <1>7 DEF Stream
  <2> DEFINE l == [Fresh("stream") EXCEPT !.phase = kind]
  <2>2. l \in Locals /\ l.op = "stream" /\ l.tok = token /\ l.phase # "password"
    BY <1>f DEF Locals
  <2>3. Goto(t, l, "request")  BY <2>1
  <2> HIDE DEF l
  <2>4. Kind(l, "request") /\ Linked(l, "request")  BY <1>k, <2>2 DEF Kind, Linked
  <2> QED BY <1>7, <1>k, <2>2, <2>3, <2>4, OutsideStep DEF Stream, session, Outside
<1>8. CASE Consume(t)
  <2>1. PICK at \in {"body", "ok"} : Goto(t, loc[t], at)
    BY <1>8 DEF Consume
  <2>2. Kind(loc[t], at) /\ Linked(loc[t], at)
    BY <1>8, <1>k, <2>1 DEF Kind, Linked, Consume
  <2> QED BY <1>8, <1>k, <2>1, <2>2, OutsideStep DEF Consume, session, Outside
<1> QED BY <1>1, <1>2, <1>3, <1>4, <1>5, <1>6, <1>7, <1>8 DEF Begin

LEMMA ContinueKeeps ==
  ASSUME IInv, SInv, NEW t \in Tasks, Continue(t)
  PROVE  SInv'
<1>k. /\ loc[t] \in Locals /\ Good(loc[t], pc[t]) /\ Linked(loc[t], pc[t]) /\ Kind(loc[t], pc[t])
      /\ generation \in Nat /\ token \in Nat /\ issued \in Nat /\ credentials \in Nat
      /\ token <= issued /\ credentials <= issued /\ cancelled \in Nat /\ lastLogout \in Nat
      /\ Locked
  BY Known
<1>h. AtHead(t) => Behind(Tail(lock), t) /\ NoHolder(t)  BY <1>k, BehindHead
<1>g. pc[t] \in Holding => Behind(Tail(lock), t) /\ NoHolder(t)
  BY <1>k, <1>h, HolderAtHead
<1>m. mode \in Modes  BY Known DEF CoreTypes
<1>b. pc[t] = "closing" => Behind(lock, t)  BY <1>k, BehindFree
<1>1. CASE ClearEnter(t)
  <2>1. loc[t].then = "post" <=> loc[t].op \in Logins  BY <1>k DEF Good
  <2>2. loc[t].tok <= issued /\ Kind(loc[t], "clear")  BY <1>k, <1>1 DEF Linked, ClearEnter
  <2> QED BY <1>1, <1>k, <1>h, <2>1, <2>2, ClearSectionKeeps DEF ClearEnter
<1>2. CASE Closed(t)
  <2> DEFINE at == IF loc[t].then = "post" /\ loc[t].gen # generation THEN "failed"
                   ELSE AfterClear(loc[t])
  <2> DEFINE l == IF loc[t].op \in Logins THEN ReadMode(loc[t]) ELSE loc[t]
  <2>1. Proceed(t, l, at, lock) /\ UNCHANGED <<session, socket, issued, credentials, http, cancelled>>
    BY <1>2 DEF Closed
  <2>0. /\ l \in Locals /\ l.op = loc[t].op /\ l.tok = loc[t].tok /\ l.phase = loc[t].phase
        /\ l.then = loc[t].then
    BY <1>k, <1>m DEF ReadMode, Locals
  <2>2. at \in {"login", "failed", loc[t].then} /\ at \in {"login", "finally", "ok", "failed"}
        /\ (at = "login" => loc[t].then = "post")
    BY <1>k DEF AfterClear, Locals
  <2> HIDE DEF at, l
  <2>3. Behind(lock, t) /\ pc[t] = "closing"  BY <1>2, <1>b DEF Closed
  <2>4. lastLogout' \in Nat  BY <1>k, <2>0, <2>1, <2>2, <2>3, ProceedEnters
  <2>5. PICK to \in {"closing", "login", "finally", "ok", "failed"} :
          Enters(t, l, to) /\ (to = at \/ (at = "finally" /\ to = "failed"))
    BY <1>k, <2>0, <2>1, <2>2, <2>3, ProceedEnters
  <2>6. Kind(l, to) /\ Linked(l, to)
    BY <1>k, <2>0, <2>2, <2>3, <2>5 DEF Kind, Linked, Good
  <2> QED BY <1>k, <2>0, <2>1, <2>4, <2>5, <2>6, KeptStep DEF session
<1>3. CASE FinallyEnter(t)
  <2>1. Enters(t, loc[t], "failed")  BY <1>3, <1>h DEF FinallyEnter, Enters
  <2>2. Kind(loc[t], "failed") /\ Linked(loc[t], "failed")  BY <1>k DEF Kind, Linked
  <2> QED BY <1>3, <1>k, <2>1, <2>2, KeptStep DEF FinallyEnter, session
<1>4. CASE GetWsEnter(t)
  <2>1. loc[t].op \notin Logins /\ Kind(loc[t], "getws") /\ loc[t].tok <= issued
    BY <1>4, <1>k DEF Good, Linked, GetWsEnter
  <2> QED BY <1>4, <1>k, <1>h, <2>1, GetWsKeeps DEF GetWsEnter
<1>5. CASE StaleClosed(t)
  <2>1. /\ Connect(t, loc[t], Tail(lock)) /\ pc[t] = "stale" /\ loc[t].op # "call"
        /\ UNCHANGED <<session, socket, issued, credentials, http, cancelled, lastLogout>>
    BY <1>5, <1>k DEF StaleClosed, Kind
  <2>2. CASE Goto(t, loc[t], "failed") /\ lock' = Tail(lock)
    <3>1. Enters(t, loc[t], "failed")  BY <1>g, <2>1, <2>2 DEF Enters
    <3>2. Kind(loc[t], "failed") /\ Linked(loc[t], "failed")  BY <1>k DEF Kind, Linked
    <3> QED BY <1>k, <2>1, <3>1, <3>2, KeptStep DEF session
  <2>3. CASE /\ token # 0 /\ http # "closed" /\ lock' = <<t>> \o Tail(lock)
             /\ Goto(t, [loc[t] EXCEPT !.gen = generation, !.tok = token], "connect")
    <3> DEFINE m == [loc[t] EXCEPT !.gen = generation, !.tok = token]
    <3>1. /\ m \in Locals /\ m.op = loc[t].op /\ m.gen = generation /\ m.tok = token
          /\ m.phase = loc[t].phase
      BY <1>k DEF Locals
    <3>2. Goto(t, m, "connect")  BY <2>3
    <3> HIDE DEF m
    <3>3. Enters(t, m, "connect")  BY <1>g, <2>1, <2>3, <3>2 DEF Enters
    <3>4. Kind(m, "connect") /\ Linked(m, "connect")
      BY <1>k, <2>1, <2>3, <3>1 DEF Kind, Linked
    <3> QED BY <1>k, <2>1, <3>1, <3>3, <3>4, KeptStep DEF session
  <2> QED BY <2>1, <2>2, <2>3 DEF Connect
<1>6. CASE InvalidateEnter(t)
  BY <1>6, <1>h, InvalidateKeeps DEF InvalidateEnter
<1>7. CASE Invalidated(t)
  <2>1. Enters(t, loc[t], "failed")  BY <1>7, <1>g DEF Invalidated, Enters
  <2>2. Kind(loc[t], "failed") /\ Linked(loc[t], "failed")  BY <1>k DEF Kind, Linked
  <2> QED BY <1>7, <1>k, <2>1, <2>2, KeptStep DEF Invalidated, session
<1>8. CASE CloseEnter(t)
  <2>1. Kind(loc[t], "close") /\ loc[t].tok <= issued  BY <1>8, <1>k DEF CloseEnter, Linked
  <2> QED BY <1>8, <1>k, <1>h, <2>1, CloseKeeps DEF CloseEnter, session
<1>9. CASE ExitClosed(t)
  <2>1. /\ pc[t] = "exit_close" /\ Goto(t, loc[t], "ok") /\ lock' = Tail(lock) /\ CloseHttp
        /\ UNCHANGED <<session, socket, issued, credentials, cancelled, lastLogout>>
    BY <1>9 DEF ExitClosed
  <2>2. Behind(Tail(lock), t) /\ NoHolder(t) /\ ws = 0  BY <1>g, <1>k, <2>1 DEF Linked
  <2>3. Enters(t, loc[t], "ok")  BY <2>1, <2>2 DEF Enters
  <2>4. Connection' /\ Counted'
    BY <1>k, <2>1, <2>2 DEF SInv, Connection, Counted, CloseHttp, session, socket
  <2>5. Kind(loc[t], "ok")  BY <1>k, <2>1 DEF Kind
  <2> DEFINE l == loc[t]
  <2>6. l \in Locals /\ Enters(t, l, "ok") /\ Kind(l, "ok") /\ l.tok <= issued'
    BY <1>k, <2>1, <2>3, <2>5 DEF Linked
  <2> HIDE DEF l
  <2>7. \A x : x.tok <= issued' => Linked(x, "ok")'  BY DEF Linked
  <2> QED BY <2>1, <2>2, <2>4, <2>6, <2>7, TaskLinked DEF session, socket
<1> QED BY <1>1, <1>2, <1>3, <1>4, <1>5, <1>6, <1>7, <1>8, <1>9 DEF Continue

LEMMA ReplyKeeps ==
  ASSUME IInv, SInv, NEW t \in Tasks, Reply(t)
  PROVE  SInv'
<1>k. /\ loc[t] \in Locals /\ Good(loc[t], pc[t]) /\ Linked(loc[t], pc[t]) /\ Kind(loc[t], pc[t])
      /\ generation \in Nat /\ token \in Nat /\ issued \in Nat /\ credentials \in Nat
      /\ token <= issued /\ credentials <= issued /\ cancelled \in Nat /\ lastLogout \in Nat
      /\ Locked /\ Connection /\ CoreTypes
  BY Known
<1>b. pc[t] \in Outside => Behind(lock, t)  BY <1>k, BehindFree DEF Outside
<1>c. ASSUME pc[t] \in Carrying, NEW th \in {"finally", "ok", "failed"}, NEW q, Behind(q, t),
             Clear(t, [loc[t] EXCEPT !.then = th], q), loc[t].op = "call" => th = "failed",
             UNCHANGED <<issued, credentials, http, cancelled>>
      PROVE  SInv'
  <2> DEFINE l == [loc[t] EXCEPT !.then = th]
  <2>1. /\ l \in Locals /\ l.op = loc[t].op /\ l.gen = loc[t].gen /\ l.tok = loc[t].tok
        /\ l.then = th /\ l.phase = loc[t].phase
    BY <1>k, <1>c DEF Locals
  <2>2. Clear(t, l, q)  BY <1>c
  <2> HIDE DEF l
  <2>3. /\ l.op \notin Logins /\ l.tok <= issued /\ Kind(l, "clear")
        /\ (l.gen = generation => l.tok = token)
    BY <1>c, <1>k, <2>1 DEF Good, Holds, Linked, Kind
  <2> QED BY <1>c, <1>k, <2>1, <2>2, <2>3, ClearKeeps
<1>1. CASE LoginFails(t)
  <2>1. Kind(loc[t], "failed") /\ Linked(loc[t], "failed")  BY <1>k DEF Kind, Linked
  <2> QED BY <1>1, <1>k, <2>1, OutsideStep DEF LoginFails, session, Outside
<1>2. CASE LoginAccepted(t)
  <2>1. /\ pc[t] = "login" /\ loc[t].gen = generation /\ token' = issued + 1
        /\ Goto(t, loc[t], "ok") /\ UNCHANGED <<generation, application, socket, lock, http, cancelled, lastLogout>>
        /\ issued' = issued + 1 /\ credentials' \in {issued + 1, credentials}
    BY <1>2 DEF LoginAccepted, Current
  <2>2. token = 0 /\ loc[t].op \in Logins  BY <1>k, <2>1 DEF Good, Pending
  <2>3. Enters(t, loc[t], "ok")  BY <1>k, <2>1, OutsideEnters DEF Outside
  <2>4. Connection'  BY <1>k, <2>1, <2>2 DEF Connection, socket
  <2>5. Counted'  BY <1>k, <2>1 DEF Counted
  <2> DEFINE l == loc[t]
  <2>6. l \in Locals /\ Enters(t, l, "ok") /\ Kind(l, "ok") /\ l.tok <= issued'
    BY <1>k, <2>1, <2>2, <2>3 DEF Linked, Kind, Locals
  <2> HIDE DEF l
  <2>7. \A x : x.tok <= issued' => Linked(x, "ok")'  BY DEF Linked
  <2> QED BY <2>1, <2>2, <2>4, <2>5, <2>6, <2>7, TaskLinked DEF socket
<1>3. CASE LoginRejected(t)
  <2>1. /\ pc[t] = "login" /\ credentials' <= issued
        /\ UNCHANGED <<session, socket, issued, lock, http, cancelled, lastLogout>>
    BY <1>3, <1>k DEF LoginRejected
  <2>2. PICK m \in {loc[t], [loc[t] EXCEPT !.mode = "plain"]}, at \in {"login", "failed"} :
          Goto(t, m, at)
    BY <1>3 DEF LoginRejected
  <2>3. m \in Locals /\ m.op = loc[t].op /\ m.tok = loc[t].tok /\ m.phase = loc[t].phase
    BY <1>k, <2>2 DEF Locals
  <2>4. Kind(m, at) /\ Linked(m, at)
    BY <1>k, <2>1, <2>3 DEF Kind, Linked, Good
  <2> QED BY <1>k, <2>1, <2>2, <2>3, <2>4, OutsideStep DEF session, Outside
<1>4. CASE RequestFails(t)
  <2>1. CASE loc[t].op = "logout" /\ Clear(t, [loc[t] EXCEPT !.then = "failed"], lock)
    BY <1>4, <1>b, <2>1, <1>c DEF RequestFails, Carrying, Outside
  <2>2. CASE Goto(t, loc[t], "failed") /\ UNCHANGED <<session, socket, lock, lastLogout>>
    <3>1. Kind(loc[t], "failed") /\ Linked(loc[t], "failed")  BY <1>k DEF Kind, Linked
    <3> QED BY <1>4, <1>k, <2>2, <3>1, OutsideStep DEF RequestFails, session, Outside
  <2> QED BY <1>4, <2>1, <2>2 DEF RequestFails
<1>5. CASE Unauthorized(t)
  <2>1. PICK th \in {"finally", "failed"} :
          Clear(t, [loc[t] EXCEPT !.then = th], lock) /\ (loc[t].op = "call" => th = "failed")
    BY <1>5 DEF Unauthorized
  <2> QED BY <1>5, <1>b, <1>c, <2>1 DEF Unauthorized, Carrying, Outside
<1>6. CASE LogoutMissing(t)
  <2>1. /\ Clear(t, loc[t], lock) /\ loc[t].op = "logout" /\ pc[t] = "request"
        /\ UNCHANGED <<issued, credentials, http, cancelled>>
    BY <1>6 DEF LogoutMissing
  <2>2. loc[t].then # "post" /\ loc[t].tok <= issued /\ Kind(loc[t], "clear")
        /\ (loc[t].gen = generation => loc[t].tok = token)
    BY <1>k, <2>1 DEF Good, Linked, Kind, Holds, Carrying
  <2> QED BY <1>k, <1>b, <2>1, <2>2, ClearKeeps DEF Outside
<1>7. CASE Response(t)
  <2>1. Kind(loc[t], "body") /\ Linked(loc[t], "body")  BY <1>k, <1>7 DEF Kind, Linked, Response
  <2> QED BY <1>7, <1>k, <2>1, OutsideStep DEF Response, session, Outside
<1>8. CASE Result(t)
  <2>1. /\ pc[t] = "body" /\ loc[t].gen = generation
        /\ UNCHANGED <<issued, credentials, http, cancelled>>
    BY <1>8 DEF Result, Current
  <2>2. ASSUME NEW m \in Locals, NEW at \in {"ok", "failed", "request"},
               m.op = loc[t].op, m.tok = loc[t].tok, m.then = loc[t].then,
               m.phase \in {loc[t].phase, "account"} \/ loc[t].op = "change_password",
               Goto(t, m, at), UNCHANGED <<generation, token, socket, lock, lastLogout>>
        PROVE  SInv'
    <3>1. Kind(m, at) /\ Linked(m, at)  BY <1>k, <2>2 DEF Kind, Linked
    <3> QED BY <1>k, <2>1, <2>2, <3>1, OutsideStep DEF Outside
  <2>3. CASE Goto(t, loc[t], "ok") /\ UNCHANGED <<generation, token, socket, lock, lastLogout>>
    BY <1>k, <2>2, <2>3
  <2>4. CASE /\ loc[t].op = "change_password"
             /\ Goto(t, PasswordStep(loc[t]).l, PasswordStep(loc[t]).at)
             /\ UNCHANGED <<generation, token, socket, lock, lastLogout>>
    <3> DEFINE m == PasswordStep(loc[t]).l
               at == PasswordStep(loc[t]).at
    <3>1. m \in Locals /\ m.op = loc[t].op /\ m.tok = loc[t].tok /\ m.then = loc[t].then
          /\ at \in {"failed", "request"}
      BY <1>k DEF PasswordStep, Locals
    <3>2. Goto(t, m, at)  BY <2>4
    <3> HIDE DEF m, at
    <3> QED BY <2>2, <2>4, <3>1, <3>2
  <2>5. CASE /\ loc[t].op = "change_password"
             /\ Goto(t, [loc[t] EXCEPT !.phase = "password"], "request")
             /\ UNCHANGED <<session, socket, lock, lastLogout>>
    <3> DEFINE m == [loc[t] EXCEPT !.phase = "password"]
    <3>1. m \in Locals /\ m.op = loc[t].op /\ m.tok = loc[t].tok /\ m.then = loc[t].then
      BY <1>k DEF Locals
    <3>2. Goto(t, m, "request")  BY <2>5
    <3> HIDE DEF m
    <3> QED BY <2>2, <2>5, <3>1, <3>2 DEF session
  <2>6. CASE /\ loc[t].op = "logout" \/ (loc[t].phase = "password" /\ CurrentContract)
             /\ Clear(t, [loc[t] EXCEPT !.then = "ok"], lock)
    <3>1. loc[t].op # "call" /\ Behind(lock, t)  BY <1>b, <1>k, <2>1, <2>6 DEF Kind, Outside
    <3> QED BY <2>1, <2>6, <3>1, <1>c DEF Carrying
  <2> QED BY <1>8, <2>3, <2>4, <2>5, <2>6 DEF Result, session
<1>9. CASE Connected(t)
  <2> DEFINE w == Len(sock) + 1
             m == [loc[t] EXCEPT !.w = w]
  <2>1. /\ pc[t] = "connect" /\ http # "closed" /\ sock' = Append(sock, Opened(loc[t].tok))
        /\ ws' = w /\ heartbeat' = heartbeat \cup {w} /\ Goto(t, m, "send") /\ lock' = Tail(lock)
        /\ UNCHANGED <<session, issued, credentials, http, cancelled, lastLogout>>
    BY <1>9 DEF Connected
  <2>2. Behind(Tail(lock), t) /\ NoHolder(t)
    BY <1>k, <2>1, BehindHead, HolderAtHead
  <2>3. /\ ws = 0 /\ loc[t].tok = token /\ token # 0
    BY <1>k, <2>1 DEF Linked, Good, Holds, Carrying
  <2>4. sock \in Seq(Socks) /\ Len(sock) \in Nat /\ DOMAIN sock = 1..Len(sock)
    BY <1>k, LenProperties DEF CoreTypes
  <2>5. /\ Len(sock') = w /\ DOMAIN sock' = 1..w /\ sock'[w] = Opened(loc[t].tok)
        /\ \A v \in DOMAIN sock : sock'[v] = sock[v]
    <3>1. Opened(loc[t].tok) \in Socks  BY <1>k DEF Opened, Socks, Locals
    <3> QED BY <2>1, <2>4, <3>1, AppendProperties
  <2>6. w \in Nat \ {0} /\ \A v \in DOMAIN sock' : v = w \/ v \in DOMAIN sock
    BY <2>4, <2>5
  <2>7. m \in Locals /\ m.op = loc[t].op /\ m.tok = loc[t].tok /\ m.phase = loc[t].phase /\ m.w = w
        /\ m.then = loc[t].then
    BY <1>k, <2>6 DEF Locals
  <2>8. DOMAIN sock \subseteq DOMAIN sock' /\ w \in DOMAIN sock'  BY <2>4, <2>5
  <2> HIDE DEF w, m
  <2>9. Connection'
    <3>1. ws' \in 0..Len(sock') /\ heartbeat' \subseteq {ws'} \ {0}
      BY <1>k, <2>1, <2>3, <2>5, <2>6 DEF Connection
    <3>2. \A v \in DOMAIN sock' : sock'[v].state # "closed" => v = ws'
      BY <1>k, <2>1, <2>3, <2>4, <2>5, <2>6 DEF Connection
    <3>3. token' # 0 /\ sock'[ws'].tok = token'
      BY <2>1, <2>3, <2>5 DEF session, Opened
    <3> QED BY <1>k, <2>1, <3>1, <3>2, <3>3 DEF Connection
  <2>10. Counted'  BY <1>k, <2>1 DEF Counted, session
  <2>11. Enters(t, m, "send")  BY <2>1, <2>2 DEF Enters
  <2>12. Kind(m, "send")  BY <1>k, <2>1, <2>7 DEF Kind
  <2>13. m.tok <= issued' /\ m.w \in DOMAIN sock'  BY <1>k, <2>1, <2>7, <2>8 DEF Linked
  <2>14. \A x : x.tok <= issued' /\ x.w \in DOMAIN sock' => Linked(x, "send")'  BY DEF Linked
  <2> QED BY <2>1, <2>2, <2>7, <2>8, <2>9, <2>10, <2>11, <2>12, <2>13, <2>14, TaskLinked DEF session
<1>10. CASE ConnectFails(t)
  <2>1. pc[t] = "connect" /\ UNCHANGED <<issued, credentials, http, cancelled>> /\ Behind(Tail(lock), t)
        /\ loc[t].op # "call"
    BY <1>10, <1>k, BehindHead, HolderAtHead DEF ConnectFails, Kind
  <2>2. CASE Clear(t, [loc[t] EXCEPT !.then = "failed"], Tail(lock))
    BY <2>1, <2>2, <1>c DEF Carrying
  <2>3. CASE Goto(t, loc[t], "failed") /\ lock' = Tail(lock) /\ UNCHANGED <<session, socket, lastLogout>>
    <3>1. Enters(t, loc[t], "failed")  BY <2>1, <2>3 DEF Enters
    <3>2. Kind(loc[t], "failed") /\ Linked(loc[t], "failed")  BY <1>k DEF Kind, Linked
    <3> QED BY <1>k, <2>1, <2>3, <3>1, <3>2, KeptStep DEF session
  <2> QED BY <1>10, <2>2, <2>3 DEF ConnectFails
<1>11. CASE Sent(t)
  <2>1. Kind(loc[t], "ok") /\ Linked(loc[t], "ok")  BY <1>11, <1>k DEF Kind, Linked, Sent
  <2> QED BY <1>11, <1>k, <2>1, OutsideStep DEF Sent, session, Outside
<1>12. CASE SendFails(t)
  <2>1. /\ pc[t] = "send" /\ Behind(lock, t)
        /\ UNCHANGED <<session, issued, credentials, http, cancelled, lastLogout>>
    BY <1>12, <1>b DEF SendFails, Outside
  <2>2. CASE lock = <<>> /\ InvalidateSection(t, lock)
    BY <2>1, <2>2, NobodyBehind, InvalidateKeeps
  <2>3. CASE Queue(t, loc[t], "invalidate", lock) /\ UNCHANGED socket
    <3>1. Enters(t, loc[t], "invalidate")  BY <2>1, <2>3 DEF Queue, Enters
    <3>2. Kind(loc[t], "invalidate") /\ Linked(loc[t], "invalidate")
      BY <1>k, <2>1 DEF Kind, Linked
    <3> QED BY <1>k, <2>1, <2>3, <3>1, <3>2, KeptStep DEF session
  <2> QED BY <1>12, <2>2, <2>3 DEF SendFails
<1>13. CASE FrameRead(t) \/ Decoded(t)
  <2>1. PICK at \in {"decode", "yielded"} : Goto(t, loc[t], at)
    BY <1>13 DEF FrameRead, Decoded
  <2>2. /\ UNCHANGED <<session, socket, issued, credentials, lock, http, cancelled, lastLogout>>
        /\ pc[t] \in {"body", "decode"} /\ loc[t].op # "call"
    BY <1>13, <1>k DEF FrameRead, Decoded, Kind
  <2>3. Kind(loc[t], at) /\ Linked(loc[t], at)  BY <1>k, <2>1, <2>2 DEF Kind, Linked
  <2> QED BY <1>k, <2>1, <2>2, <2>3, OutsideStep DEF session, Outside
<1> QED BY <1>1, <1>2, <1>3, <1>4, <1>5, <1>6, <1>7, <1>8, <1>9, <1>10, <1>11, <1>12, <1>13
    DEF Reply

LEMMA CancelKeeps ==
  ASSUME IInv, SInv, NEW t \in Tasks, Cancel(t)
  PROVE  SInv'
<1>k. /\ loc[t] \in Locals /\ Good(loc[t], pc[t]) /\ Linked(loc[t], pc[t]) /\ Kind(loc[t], pc[t])
      /\ token <= issued /\ credentials <= issued /\ cancelled \in Nat /\ lastLogout \in Nat
      /\ Locked
  BY Known
<1>1. UNCHANGED <<issued, credentials, http>> /\ cancelled' \in Nat
  BY <1>k DEF Cancel
<1>2. CASE HasFinally(t) /\ Clear(t, [loc[t] EXCEPT !.then = "failed"], RemoveFirst(lock, t))
           /\ pc[t] # "closing"
  <2> DEFINE l == [loc[t] EXCEPT !.then = "failed"]
             q == RemoveFirst(lock, t)
  <2>1. /\ l \in Locals /\ l.op = "logout" /\ l.gen = loc[t].gen /\ l.tok = loc[t].tok
        /\ l.then = "failed" /\ l.phase = loc[t].phase
    BY <1>k, <1>2 DEF Locals, HasFinally
  <2>2. Clear(t, l, q) /\ Behind(q, t)  BY <1>k, <1>2, BehindLeave
  <2>3. pc[t] \in {"request", "body", "clear"} /\ loc[t].op = "logout"  BY <1>2 DEF HasFinally
  <2> HIDE DEF l, q
  <2>4. /\ l.tok <= issued /\ Kind(l, "clear")
        /\ l.tok # 0 /\ l.gen = generation => l.tok = token
    BY <1>k, <2>1, <2>3 DEF Good, Holds, Carrying, Linked, Kind
  <2> QED BY <1>1, <1>k, <2>1, <2>2, <2>4, ClearKeeps
<1>4. CASE Proceed(t, loc[t], "finally", lock) /\ pc[t] = "closing" /\ UNCHANGED <<session, socket>>
           /\ HasFinally(t)
  <2>1. Behind(lock, t)  BY <1>4, <1>k, BehindFree
  <2>2. PICK to \in {"finally", "failed"} : Enters(t, loc[t], to)
    BY <1>4, <1>k, <2>1, ProceedEnters
  <2>3. lastLogout' \in Nat  BY <1>4, <1>k, <2>1, ProceedEnters
  <2>4. Kind(loc[t], to) /\ Linked(loc[t], to)
    BY <1>4, <1>k, <2>2 DEF Kind, Linked, HasFinally
  <2> QED BY <1>1, <1>4, <1>k, <2>2, <2>3, <2>4, KeptStep DEF session
<1>3. CASE Goto(t, loc[t], "failed") /\ lock' = RemoveFirst(lock, t) /\ UNCHANGED <<session, socket, lastLogout>>
  <2>1. Enters(t, loc[t], "failed")  BY <1>3, <1>k, BehindLeave DEF Enters
  <2>2. Kind(loc[t], "failed") /\ Linked(loc[t], "failed")  BY <1>k DEF Kind, Linked
  <2> QED BY <1>1, <1>3, <1>k, <2>1, <2>2, KeptStep DEF session
<1> QED BY <1>2, <1>3, <1>4 DEF Cancel

(* The device ends a connection, or a heartbeat ends with one.              *)
LEMMA PeerKeeps ==
  ASSUME IInv, SInv, PeerCloses
  PROVE  SInv'
<1>1. /\ Connection /\ Locked /\ Counted /\ sock \in Seq(Socks) /\ Len(sock) \in Nat
      /\ DOMAIN sock = 1..Len(sock) /\ ws # 0 /\ sock[ws].state = "open"
      /\ UNCHANGED <<session, ws, heartbeat, issued, credentials, lock, http, pc, loc, cancelled, lastLogout>>
  BY LenProperties DEF SInv, IInv, CoreTypes, PeerCloses
<1>2. PICK s \in {"broken", "closed"} : sock' = [sock EXCEPT ![ws].state = s]
  BY DEF PeerCloses
<1>3. \A v \in DOMAIN sock : sock[v] \in Socks  BY <1>1, ElementOfSeq
<1>4. /\ DOMAIN sock' = DOMAIN sock
      /\ \A v \in DOMAIN sock : sock'[v].tok = sock[v].tok
      /\ \A v \in DOMAIN sock : v # ws => sock'[v].state = sock[v].state
  BY <1>1, <1>2, <1>3 DEF Socks
<1>5. Len(sock') = Len(sock)
  <2>1. sock' \in Seq(Socks)  BY <1>1, <1>2, BreakType
  <2> QED BY <1>1, <1>4, <2>1, LenProperties
<1>6. ws \in DOMAIN sock  BY <1>1 DEF Connection
<1>7. Connection'  BY <1>1, <1>4, <1>5, <1>6 DEF Connection, session
<1>8. Locked' /\ Counted'  BY <1>1 DEF Locked, Counted, session
<1>9. \A t \in Tasks : Linked(loc[t], pc[t])' /\ Kind(loc[t], pc[t])'
  BY <1>1, <1>4 DEF SInv, Linked, Kind, session
<1> QED BY <1>7, <1>8, <1>9 DEF SInv

LEMMA StutterKeeps ==
  ASSUME SInv, UNCHANGED <<session, ws, sock, issued, credentials, lock, http, pc, loc, cancelled, lastLogout>>,
         heartbeat' \subseteq heartbeat
  PROVE  SInv'
<1>1. Connection' /\ Counted' /\ Locked'
  BY DEF SInv, Connection, Counted, Locked, session
<1>2. \A t \in Tasks : Linked(loc[t], pc[t])' /\ Kind(loc[t], pc[t])'
  BY DEF SInv, Linked, Kind, session
<1> QED BY <1>1, <1>2 DEF SInv

LEMMA InitSInv == ASSUME Init PROVE SInv
<1>1. Locked  BY EmptyQueue, EmptySeq DEF Init, Locked
<1>2. Counted  BY DEF Init, Counted
<1>3. Connection  BY EmptySeq DEF Init, Connection
<1>4. \A t \in Tasks : pc[t] = "new" /\ loc[t] = Frame("none", 0, 0, 0)  BY DEF Init
<1>5. \A t \in Tasks : loc[t].tok = 0 /\ loc[t].phase = "none" /\ loc[t].op = "none"
  BY <1>4 DEF Frame
<1>6. issued \in Nat  BY DEF Init
<1>7. \A t \in Tasks : Linked(loc[t], pc[t]) /\ Kind(loc[t], pc[t])
  BY <1>4, <1>5, <1>6 DEF Linked, Kind
<1> QED BY <1>1, <1>2, <1>3, <1>7 DEF SInv

LEMMA NextSInv == ASSUME IInv, SInv, [Next]_vars PROVE SInv'
<1>1. CASE \E t \in Tasks : Begin(t) \/ Continue(t) \/ Reply(t) \/ Cancel(t)
  BY <1>1, BeginKeeps, ContinueKeeps, ReplyKeeps, CancelKeeps
<1>2. CASE PeerCloses  BY <1>2, PeerKeeps
<1>3. CASE \E w \in heartbeat : HeartbeatEnds(w)
  BY <1>3, StutterKeeps DEF HeartbeatEnds
<1>4. CASE UNCHANGED vars
  BY <1>4, StutterKeeps DEF vars, session
<1> QED BY <1>1, <1>2, <1>3, <1>4 DEF Next

(* The lock, the shared connection and the locals agree in every behaviour. *)
THEOREM ConnectionInductive == Spec => []SInv
<1>1. Init => SInv  BY InitSInv
<1>2. IInv /\ SInv /\ [Next]_vars => SInv'  BY NextSInv
<1> QED BY <1>1, <1>2, Inductive, PTL DEF Spec

(* Every variable holds what its declaration says, and the queue for        *)
(* _ws_lock names exactly the tasks that wait for it or hold it.            *)
THEOREM TypeOKThm == Spec => []TypeOK
<1>1. IInv /\ SInv => TypeOK
  <2> SUFFICES ASSUME IInv, SInv  PROVE TypeOK
    OBVIOUS
  <2>1. /\ generation \in Nat /\ token \in 0..issued /\ issued \in Nat
        /\ credentials \in 0..issued /\ application \in 0..issued
    BY DEF IInv, SInv, CoreTypes, Counted, VersionsOfSession
  <2>2. sock \in Seq([tok : Nat, state : {"open", "broken", "closed"}])
    BY DEF IInv, CoreTypes, Socks
  <2>3. Len(sock) \in Nat  BY <2>2, LenProperties
  <2>4. ws \in 0..Len(sock) /\ heartbeat \subseteq 1..Len(sock) /\ http \in {"open", "left", "closed"}
    BY <2>3 DEF SInv, Connection
  <2>5. mode \in Modes /\ pc \in [Tasks -> PCs] /\ loc \in [Tasks -> Locals] /\ started \in Nat
        /\ lock \in Seq(Tasks) /\ cancelled \in Nat /\ lastLogout \in Nat
    BY DEF IInv, SInv, CoreTypes, Counted, Locked
  <2>6. LockDiscipline
    <3>1. \A t \in Tasks : pc[t] \in Waiting \cup Holding <=> \E i \in DOMAIN lock : lock[i] = t
      BY DEF SInv, Locked, Elems
    <3>2. \A t \in Tasks : pc[t] \in Holding => AtHead(t)
      BY HolderAtHead DEF SInv
    <3>3. \A i, j \in DOMAIN lock : lock[i] = lock[j] => i = j
      BY DEF SInv, Locked, Distinct
    <3> QED BY <3>1, <3>2, <3>3 DEF LockDiscipline
  <2> QED BY <2>1, <2>2, <2>4, <2>5, <2>6 DEF TypeOK
<1> QED BY <1>1, Inductive, ConnectionInductive, PTL

(* The cached versions and the shared connection belong to the current      *)
(* session (_detach_ws and clear_local_session).                            *)
THEOREM SessionOwnsStateThm == Spec => []SessionOwnsState
<1>1. IInv /\ SInv => SessionOwnsState
  BY DEF IInv, SInv, VersionsOfSession, Connection, SessionOwnsState
<1> QED BY <1>1, Inductive, ConnectionInductive, PTL

(* No open connection is forgotten, none but the shared one has a           *)
(* heartbeat, and a closed client leaves none behind (close_ws, exit).      *)
THEOREM NoOrphanConnectionThm == Spec => []NoOrphanConnection
<1>1. SInv => NoOrphanConnection
  BY DEF SInv, Connection, Linked, NoOrphanConnection
<1> QED BY <1>1, ConnectionInductive, PTL

(* A login that fails has already ended the session it started from         *)
(* (_login clears before it asks).                                          *)
THEOREM FailedLoginDropsOldAccountThm == Spec => FailedLoginDropsOldAccount
<1>1. SInv /\ [Next]_vars =>
        [\A t \in Tasks : loc[t].op \in Logins /\ pc[t] \in {"login", "closing"}
           /\ pc'[t] = "failed" => token = 0 \/ token # loc[t].tok]_vars
  BY DEF SInv, Linked
<1> QED BY <1>1, ConnectionInductive, PTL DEF Spec, FailedLoginDropsOldAccount

--------------------------------------------------------------------------------
(* The session register. The session a task with locals l at `at` is bound  *)
(* to, and whether it has just been given an answer.                        *)
Held(l, at) == IF at \in Carrying \/ (at = "clear" /\ l.op \notin Logins) THEN l.tok ELSE 0
Answered(l, at) == l.op = "call" /\ at = "ok"

(* What a step of t does to the variables of the register.                  *)
LEMMA RegisterMaps ==
  ASSUME IInv, NEW t \in Tasks, NEW l, NEW at, Goto(t, l, at)
  PROVE  LET b == [u \in Tasks |-> IF Bound(u) THEN loc[u].tok ELSE 0]
             a == {u \in Tasks : loc[u].op = "call" /\ pc[u] = "ok"}
         IN /\ b' = [b EXCEPT ![t] = Held(l, at)]
            /\ a' = (IF Answered(l, at) THEN a \cup {t} ELSE a \ {t})
            /\ b[t] = Held(loc[t], pc[t])
            /\ t \in a <=> Answered(loc[t], pc[t])
<1>1. pc'[t] = at /\ loc'[t] = l /\ \A u \in Tasks : u # t => pc'[u] = pc[u] /\ loc'[u] = loc[u]
  BY DEF Goto, IInv, CoreTypes
<1> DEFINE b == [u \in Tasks |-> IF Bound(u) THEN loc[u].tok ELSE 0]
           a == {u \in Tasks : loc[u].op = "call" /\ pc[u] = "ok"}
<1>2. b' = [b EXCEPT ![t] = Held(l, at)]
  BY <1>1 DEF Bound, Held
<1>3. a' = (IF Answered(l, at) THEN a \cup {t} ELSE a \ {t})
  BY <1>1 DEF Answered
<1>4. b[t] = Held(loc[t], pc[t]) /\ (t \in a <=> Answered(loc[t], pc[t]))
  BY DEF Bound, Held, Answered
<1> QED BY <1>2, <1>3, <1>4

(* The session stays: the task is bound to it, answered, or done with it.   *)
LEMMA KeepsRegister ==
  ASSUME IInv, NEW t \in Tasks, NEW l, NEW at, Goto(t, l, at), UNCHANGED <<token, issued>>,
         \/ /\ Held(l, at) = Held(loc[t], pc[t])
            /\ Answered(l, at) => Answered(loc[t], pc[t])
         \/ /\ Held(loc[t], pc[t]) = 0 /\ Held(l, at) = token /\ token # 0
            /\ ~Answered(l, at)
         \/ /\ Held(loc[t], pc[t]) # 0 /\ Held(l, at) = 0
            /\ Answered(l, at) => Held(loc[t], pc[t]) = token
  PROVE  [Register!RNext]_(Register!rvars)
<1> DEFINE b == [u \in Tasks |-> IF Bound(u) THEN loc[u].tok ELSE 0]
           a == {u \in Tasks : loc[u].op = "call" /\ pc[u] = "ok"}
<1>1. /\ b' = [b EXCEPT ![t] = Held(l, at)]
      /\ a' = (IF Answered(l, at) THEN a \cup {t} ELSE a \ {t})
      /\ b[t] = Held(loc[t], pc[t])
      /\ t \in a <=> Answered(loc[t], pc[t])
  BY RegisterMaps
<1>2. CASE Held(l, at) = Held(loc[t], pc[t]) /\ (Answered(l, at) => Answered(loc[t], pc[t]))
  <2>1. b' = b  BY <1>1, <1>2
  <2>2. a' = a \/ a' = a \ {t}  BY <1>1, <1>2
  <2> QED BY <2>1, <2>2 DEF Register!RNext, Register!Forget, Register!rvars
<1>3. CASE Held(loc[t], pc[t]) = 0 /\ Held(l, at) = token /\ token # 0 /\ ~Answered(l, at)
  <2>1. Register!Bind(t)  BY <1>1, <1>3 DEF Register!Bind
  <2> QED BY <2>1 DEF Register!RNext
<1>4. CASE /\ Held(loc[t], pc[t]) # 0 /\ Held(l, at) = 0
           /\ Answered(l, at) => Held(loc[t], pc[t]) = token
  <2>1. Register!Answer(t) \/ Register!Abort(t)  BY <1>1, <1>4 DEF Register!Answer, Register!Abort
  <2> QED BY <2>1 DEF Register!RNext
<1> QED BY <1>2, <1>3, <1>4

(* The session ends, with the request of the task that ends it if it has    *)
(* one, which then belongs to this session.                                 *)
LEMMA EndsRegister ==
  ASSUME IInv, NEW t \in Tasks, NEW l, NEW at, Goto(t, l, at), token' = 0, issued' = issued,
         Held(l, at) = 0, ~Answered(l, at), Held(loc[t], pc[t]) \in {0, token}
  PROVE  [Register!RNext]_(Register!rvars)
<1> DEFINE b == [u \in Tasks |-> IF Bound(u) THEN loc[u].tok ELSE 0]
           a == {u \in Tasks : loc[u].op = "call" /\ pc[u] = "ok"}
<1>1. b' = [b EXCEPT ![t] = 0] /\ a' = a \ {t} /\ b[t] \in {0, token}
  BY RegisterMaps
<1>2. CASE b[t] = 0
  <2>1. b' = b  BY <1>1, <1>2
  <2>2. Register!Drop  BY <1>1, <2>1 DEF Register!Drop
  <2> QED BY <2>2 DEF Register!RNext
<1>3. CASE b[t] # 0
  <2>1. Register!Terminate(t)  BY <1>1, <1>3 DEF Register!Terminate
  <2> QED BY <2>1 DEF Register!RNext
<1> QED BY <1>2, <1>3

(* The steps of a task by where they lead: to the end of its request, on    *)
(* with it, or to a new one.                                                *)
LEMMA AwayRegister ==
  ASSUME IInv, NEW t \in Tasks, NEW l, NEW at, Goto(t, l, at), UNCHANGED <<token, issued>>,
         at \notin Carrying \cup {"clear"}, ~Answered(l, at)
  PROVE  [Register!RNext]_(Register!rvars)
<1>1. Held(l, at) = 0  BY DEF Held
<1> QED BY <1>1, KeepsRegister

LEMMA OnRegister ==
  ASSUME IInv, NEW t \in Tasks, NEW l, NEW at, Goto(t, l, at), UNCHANGED <<token, issued>>,
         pc[t] \in Carrying, at \in Carrying, l.tok = loc[t].tok
  PROVE  [Register!RNext]_(Register!rvars)
<1>1. Held(l, at) = Held(loc[t], pc[t]) /\ ~Answered(l, at)  BY DEF Held, Answered, Carrying
<1> QED BY <1>1, KeepsRegister

LEMMA BindRegister ==
  ASSUME IInv, NEW t \in Tasks, NEW l, NEW at, Goto(t, l, at), UNCHANGED <<token, issued>>,
         pc[t] \notin Carrying \cup {"clear"}, at \in Carrying, l.tok = token, token # 0
  PROVE  [Register!RNext]_(Register!rvars)
<1>1. Held(l, at) = token /\ Held(loc[t], pc[t]) = 0 /\ ~Answered(l, at)
  BY DEF Held, Answered, Carrying
<1> QED BY <1>1, KeepsRegister

(* clear_local_session: h is the session the task is bound to.              *)
LEMMA ClearSectionRegister ==
  ASSUME IInv, NEW t \in Tasks, NEW l \in Locals, NEW q, ClearSection(t, l, q), issued' = issued,
         l.then = "post" <=> l.op \in Logins, Kind(l, "clear"),
         Held(loc[t], pc[t]) \in {0, l.tok},
         l.op \in Logins => Held(loc[t], pc[t]) = 0,
         l.op \notin Logins /\ l.tok # 0 /\ l.gen = generation => l.tok = token
  PROVE  [Register!RNext]_(Register!rvars)
<1>1. CASE Superseded(l) /\ Proceed(t, l, AfterClear(l), q) /\ UNCHANGED <<session, socket>>
  <2>1. l.then \in {"finally", "ok", "failed"} /\ AfterClear(l) = l.then
    BY <1>1 DEF Superseded, AfterClear, Locals
  <2>2. PICK to \in PCs : Goto(t, l, to) /\ (to = l.then \/ to = "failed")
    BY <1>1, <2>1, ProceedGoes
  <2>3. to \notin Carrying \cup {"clear"} /\ ~Answered(l, to)
    BY <2>1, <2>2 DEF Carrying, Answered, Kind
  <2> QED BY <1>1, <2>2, <2>3, AwayRegister DEF session
<1>2. CASE ~Superseded(l) /\ ClearSection(t, l, q)
  <2> DEFINE mine == IF l.op \in Logins THEN ReadMode([l EXCEPT !.gen = generation + 1]) ELSE l
             at == IF Usable THEN "closing" ELSE AfterClear(l)
  <2>1. token' = 0 /\ Proceed(t, mine, at, q)
    BY <1>2 DEF ClearSection
  <2>2. mine.op = l.op
    BY DEF Locals, ReadMode
  <2>3. at \in {"closing", "login", "failed", l.then} /\ at \in {"closing", "login", "finally", "ok", "failed"}
    BY DEF AfterClear, Locals
  <2> HIDE DEF mine, at
  <2>4. PICK to \in PCs : Goto(t, mine, to) /\ (to = at \/ to = "failed")
    BY <2>1, <2>3, ProceedGoes
  <2>5. Held(mine, to) = 0 /\ ~Answered(mine, to)
    BY <2>2, <2>3, <2>4 DEF Held, Answered, Carrying, Kind
  <2>6. Held(loc[t], pc[t]) \in {0, token}
    BY <1>2 DEF Superseded
  <2> QED BY <2>1, <2>4, <2>5, <2>6, EndsRegister
<1> QED BY <1>1, <1>2 DEF ClearSection

LEMMA ClearRegister ==
  ASSUME IInv, NEW t \in Tasks, NEW l \in Locals, NEW q, Clear(t, l, q), issued' = issued,
         l.then = "post" <=> l.op \in Logins, Kind(l, "clear"),
         \/ Held(loc[t], pc[t]) = 0 /\ (l.op \in Logins \/ l.tok = token)
         \/ Held(loc[t], pc[t]) = l.tok /\ l.op \notin Logins,
         l.op \notin Logins /\ l.tok # 0 /\ l.gen = generation => l.tok = token
  PROVE  [Register!RNext]_(Register!rvars)
<1>1. CASE ClearSection(t, l, q)  BY <1>1, ClearSectionRegister
<1>2. CASE Queue(t, l, "clear", q) /\ UNCHANGED <<session, socket, lastLogout>>
  <2>1. Goto(t, l, "clear") /\ token' = token  BY <1>2 DEF Queue, session
  <2>2. Held(l, "clear") = (IF l.op \in Logins THEN 0 ELSE l.tok) /\ ~Answered(l, "clear")
    BY DEF Held, Answered, Carrying
  <2> QED BY <2>1, <2>2, KeepsRegister
<1> QED BY <1>1, <1>2 DEF Clear

LEMMA ConnectRegister ==
  ASSUME IInv, NEW t \in Tasks, NEW l \in Locals, NEW q, Connect(t, l, q), UNCHANGED <<token, issued>>,
         pc[t] \notin Carrying \cup {"clear"}
  PROVE  [Register!RNext]_(Register!rvars)
<1>1. CASE Goto(t, l, "failed")
  <2>1. "failed" \notin Carrying \cup {"clear"} /\ ~Answered(l, "failed")  BY DEF Carrying, Answered
  <2> QED BY <1>1, <2>1, AwayRegister
<1>2. CASE token # 0 /\ Goto(t, [l EXCEPT !.gen = generation, !.tok = token], "connect")
  <2> DEFINE m == [l EXCEPT !.gen = generation, !.tok = token]
  <2>1. m.tok = token  BY DEF Locals
  <2>2. Goto(t, m, "connect") /\ "connect" \in Carrying  BY <1>2 DEF Carrying
  <2> HIDE DEF m
  <2> QED BY <1>2, <2>1, <2>2, BindRegister
<1> QED BY <1>1, <1>2 DEF Connect

LEMMA GetWsRegister ==
  ASSUME IInv, NEW t \in Tasks, NEW l \in Locals, NEW q, GetWsSection(t, l, q), issued' = issued,
         pc[t] \notin Carrying \cup {"clear"}
  PROVE  [Register!RNext]_(Register!rvars)
<1>1. token' = token  BY DEF GetWsSection, session
<1>2. CASE Connect(t, l, q)  BY <1>1, <1>2, ConnectRegister
<1>3. CASE ~Connect(t, l, q)
  <2>0. PICK at \in {"send", "stale"} : \E m : Goto(t, m, at)  BY <1>3 DEF GetWsSection
  <2>1. PICK m : Goto(t, m, at)  BY <2>0
  <2>2. at \notin Carrying \cup {"clear"} /\ ~Answered(m, at)  BY DEF Carrying, Answered
  <2> QED BY <1>1, <2>1, <2>2, AwayRegister
<1> QED BY <1>2, <1>3

LEMMA BeginRegister ==
  ASSUME IInv, SInv, NEW t \in Tasks, Begin(t)
  PROVE  [Register!RNext]_(Register!rvars)
<1> USE DEF Start
<1>k. /\ loc[t] \in Locals /\ generation \in Nat /\ token \in Nat /\ issued \in Nat
      /\ credentials \in Nat /\ started \in Nat /\ mode \in Modes
  BY Known DEF CoreTypes
<1>f. \A op \in AllOperations \ Logins :
        /\ Fresh(op) \in Locals /\ Fresh(op).op = op /\ Fresh(op).gen = generation
        /\ Fresh(op).tok = token /\ Fresh(op).then = "failed" /\ Fresh(op).phase = "none"
  BY FreshKind
<1>l. \A op \in Logins, c \in {0, credentials} :
        /\ LoginFrame(op, c) \in Locals
        /\ LoginFrame(op, c).op = op /\ LoginFrame(op, c).then = "post"
        /\ LoginFrame(op, c).phase = "none"
  BY <1>k DEF LoginFrame, Locals
<1>e. pc[t] \in Ended => pc[t] \notin Carrying \cup {"clear"} /\ Held(loc[t], pc[t]) = 0
  BY DEF Carrying, Held
<1>1. CASE Authenticate(t) \/ Reauthenticate(t)
  <2>1. PICK op \in Logins, c \in {0, credentials} : Clear(t, LoginFrame(op, c), lock)
    BY <1>1 DEF Authenticate, Reauthenticate
  <2>2. issued' = issued /\ pc[t] \in Ended  BY <1>1 DEF Authenticate, Reauthenticate
  <2> DEFINE l == LoginFrame(op, c)
  <2>3. l \in Locals /\ l.then = "post" /\ l.op \in Logins /\ Kind(l, "clear")
    BY <1>l DEF Kind
  <2>4. Clear(t, l, lock)  BY <2>1
  <2> HIDE DEF l
  <2> QED BY <1>e, <2>2, <2>3, <2>4, ClearRegister
<1>2. CASE Logout(t)
  <2> DEFINE l == [Fresh("logout") EXCEPT !.then = "ok"]
  <2>1. /\ l \in Locals /\ l.op = "logout" /\ l.then = "ok" /\ l.gen = generation /\ l.tok = token
        /\ l.phase = "none"
    BY <1>f DEF Locals
  <2>2. issued' = issued /\ pc[t] \in Ended  BY <1>2 DEF Logout
  <2>3. CASE token # 0 /\ Goto(t, l, "request") /\ UNCHANGED session
    <3> HIDE DEF l
    <3> QED BY <1>e, <2>1, <2>2, <2>3, BindRegister DEF session, Carrying
  <2>4. CASE Clear(t, l, lock)
    <3>1. Kind(l, "clear")  BY <2>1 DEF Kind
    <3> HIDE DEF l
    <3> QED BY <1>e, <2>1, <2>2, <2>4, <3>1, ClearRegister
  <2> QED BY <1>2, <2>3, <2>4 DEF Logout
<1>3. CASE Call(t)
  BY <1>3, <1>e, <1>f, BindRegister DEF Call, session, Carrying
<1>4. CASE ChangePassword(t)
  <2> DEFINE l == [Fresh("change_password") EXCEPT !.phase = "versions"]
             s == PasswordStep(l)
  <2>1. l \in Locals /\ l.op = "change_password" /\ l.tok = token
    BY <1>f DEF Locals
  <2>2. s.l.op = "change_password" /\ s.l.tok = token /\ s.at \in {"failed", "request"}
    BY <2>1 DEF PasswordStep, Locals
  <2>3. PICK m \in {l, s.l}, at \in {"failed", "request"} : Goto(t, m, at) /\ (at = "request" => token # 0)
    BY <1>4, <2>2 DEF ChangePassword
  <2>4. m.op = "change_password" /\ m.tok = token  BY <2>1, <2>2, <2>3
  <2>5. UNCHANGED <<token, issued>> /\ pc[t] \in Ended  BY <1>4 DEF ChangePassword, session
  <2> HIDE DEF l, s
  <2>6. CASE at = "request"  BY <1>e, <2>3, <2>4, <2>5, <2>6, BindRegister DEF Carrying
  <2>7. CASE at = "failed"
    BY <2>3, <2>4, <2>5, <2>7, AwayRegister DEF Carrying, Answered
  <2> QED BY <2>6, <2>7
<1>5. CASE Input(t)
  <2>1. CASE GetWsSection(t, Fresh("input"), lock)
    BY <1>5, <1>e, <1>f, <2>1, GetWsRegister DEF Input
  <2>2. CASE Queue(t, Fresh("input"), "getws", lock) /\ UNCHANGED session
    BY <1>5, <2>2, AwayRegister DEF Input, Queue, session, Carrying, Answered
  <2> QED BY <1>5, <2>1, <2>2 DEF Input
<1>6. CASE Exit(t)
  <2>1. PICK at \in {"close", "exit_close", "ok"} : Goto(t, Fresh("exit"), at)
    BY <1>6 DEF Exit, CloseSection, Queue
  <2>2. ~Answered(Fresh("exit"), at) /\ at \notin Carrying \cup {"clear"}
    BY <1>f DEF Answered, Carrying
  <2> QED BY <1>6, <2>1, <2>2, AwayRegister DEF Exit, session
<1>7. CASE Stream(t)
  <2>1. PICK kind : Goto(t, [Fresh("stream") EXCEPT !.phase = kind], "request")
    BY <1>7 DEF Stream
  <2> DEFINE l == [Fresh("stream") EXCEPT !.phase = kind]
  <2>2. l.tok = token  BY <1>f DEF Locals
  <2>3. Goto(t, l, "request")  BY <2>1
  <2> HIDE DEF l
  <2> QED BY <1>7, <1>e, <2>2, <2>3, BindRegister DEF Stream, session, Carrying
<1>8. CASE Consume(t)
  <2>1. PICK at \in {"body", "ok"} : Goto(t, loc[t], at)
    BY <1>8 DEF Consume
  <2>2. pc[t] = "yielded" /\ UNCHANGED <<token, issued>> /\ loc[t].op # "call"
    BY <1>8, Known DEF Consume, session, Kind
  <2>3. CASE at = "body"  BY <2>1, <2>2, <2>3, OnRegister DEF Carrying
  <2>4. CASE at = "ok"  BY <2>1, <2>2, <2>4, AwayRegister DEF Carrying, Answered
  <2> QED BY <2>3, <2>4
<1> QED BY <1>1, <1>2, <1>3, <1>4, <1>5, <1>6, <1>7, <1>8 DEF Begin

LEMMA ContinueRegister ==
  ASSUME IInv, SInv, NEW t \in Tasks, Continue(t)
  PROVE  [Register!RNext]_(Register!rvars)
<1>k. /\ loc[t] \in Locals /\ Good(loc[t], pc[t]) /\ Linked(loc[t], pc[t]) /\ Kind(loc[t], pc[t])
  BY Known
<1>1. CASE ClearEnter(t)
  <2>1. /\ pc[t] = "clear" /\ ClearSection(t, loc[t], Tail(lock)) /\ issued' = issued
        /\ Held(loc[t], pc[t]) = (IF loc[t].op \in Logins THEN 0 ELSE loc[t].tok)
    BY <1>1 DEF ClearEnter, Held, Carrying
  <2>2. /\ loc[t].then = "post" <=> loc[t].op \in Logins
        /\ Kind(loc[t], "clear")
        /\ loc[t].op \notin Logins /\ loc[t].tok # 0 /\ loc[t].gen = generation => loc[t].tok = token
    BY <1>k, <2>1 DEF Good, Linked
  <2> QED BY <1>k, <2>1, <2>2, ClearSectionRegister
<1>2. CASE Closed(t)
  <2> DEFINE at == IF loc[t].then = "post" /\ loc[t].gen # generation THEN "failed"
                   ELSE AfterClear(loc[t])
  <2> DEFINE l == IF loc[t].op \in Logins THEN ReadMode(loc[t]) ELSE loc[t]
  <2>1. Proceed(t, l, at, lock) /\ UNCHANGED <<token, issued>> /\ pc[t] = "closing"
    BY <1>2 DEF Closed, session
  <2>0. l.op = loc[t].op  BY <1>k DEF ReadMode, Locals
  <2>2. at \in {"login", "failed", loc[t].then} /\ at \in {"login", "finally", "ok", "failed"}
    BY <1>k DEF AfterClear, Locals
  <2> HIDE DEF at, l
  <2>3. PICK to \in PCs : Goto(t, l, to) /\ (to = at \/ to = "failed")
    BY <1>k, <2>1, <2>2, ProceedGoes
  <2>4. ~Answered(l, to) /\ to \notin Carrying \cup {"clear"}
    BY <1>k, <2>0, <2>2, <2>3 DEF Answered, Carrying, Kind
  <2> QED BY <2>1, <2>3, <2>4, AwayRegister
<1>3. CASE FinallyEnter(t) \/ Invalidated(t) \/ ExitClosed(t)
  <2>1. PICK at \in {"failed", "ok"} : Goto(t, loc[t], at)
    BY <1>3 DEF FinallyEnter, Invalidated, ExitClosed
  <2>2. UNCHANGED <<token, issued>> /\ loc[t].op # "call"
    BY <1>3, <1>k DEF FinallyEnter, Invalidated, ExitClosed, session, Kind
  <2> QED BY <2>1, <2>2, AwayRegister DEF Carrying, Answered
<1>4. CASE GetWsEnter(t)
  BY <1>4, <1>k, GetWsRegister DEF GetWsEnter, Carrying
<1>5. CASE StaleClosed(t)
  BY <1>5, <1>k, ConnectRegister DEF StaleClosed, session, Carrying
<1>6. CASE InvalidateEnter(t) \/ CloseEnter(t)
  <2>1. PICK at \in {"failed", "inv_close", "exit_close", "ok"} : Goto(t, loc[t], at)
    BY <1>6 DEF InvalidateEnter, InvalidateSection, CloseEnter, CloseSection
  <2>2. UNCHANGED <<token, issued>> /\ loc[t].op # "call"
    BY <1>6, <1>k DEF InvalidateEnter, CloseEnter, session, Kind
  <2> QED BY <2>1, <2>2, AwayRegister DEF Carrying, Answered
<1> QED BY <1>1, <1>2, <1>3, <1>4, <1>5, <1>6 DEF Continue

LEMMA ReplyRegister ==
  ASSUME IInv, SInv, NEW t \in Tasks, Reply(t)
  PROVE  [Register!RNext]_(Register!rvars)
<1>k. /\ loc[t] \in Locals /\ Good(loc[t], pc[t]) /\ Linked(loc[t], pc[t]) /\ Kind(loc[t], pc[t])
      /\ token \in Nat /\ issued \in Nat
  BY Known
<1>f. ASSUME Goto(t, loc[t], "failed"), UNCHANGED <<token, issued>>
      PROVE  [Register!RNext]_(Register!rvars)
  BY <1>f, AwayRegister DEF Carrying, Answered
<1>c. ASSUME pc[t] \in Carrying, NEW th \in {"finally", "ok", "failed"}, NEW q,
             Clear(t, [loc[t] EXCEPT !.then = th], q), loc[t].op = "call" => th = "failed",
             issued' = issued
      PROVE  [Register!RNext]_(Register!rvars)
  <2> DEFINE l == [loc[t] EXCEPT !.then = th]
  <2>1. /\ l \in Locals /\ l.op = loc[t].op /\ l.gen = loc[t].gen /\ l.tok = loc[t].tok
        /\ l.then = th /\ l.phase = loc[t].phase
    BY <1>k, <1>c DEF Locals
  <2>2. Clear(t, l, q)  BY <1>c
  <2> HIDE DEF l
  <2>3. /\ l.op \notin Logins /\ Kind(l, "clear") /\ (l.gen = generation => l.tok = token)
        /\ Held(loc[t], pc[t]) = l.tok
    BY <1>c, <1>k, <2>1 DEF Good, Holds, Kind, Held
  <2> QED BY <1>c, <2>1, <2>2, <2>3, ClearRegister
<1>1. CASE LoginFails(t)
  BY <1>1, <1>f DEF LoginFails, session
<1>2. CASE LoginAccepted(t)
  <2>1. /\ pc[t] = "login" /\ loc[t].gen = generation /\ token' = issued + 1 /\ issued' = issued + 1
        /\ Goto(t, loc[t], "ok")
    BY <1>2 DEF LoginAccepted, Current
  <2>2. token = 0 /\ loc[t].op \in Logins  BY <1>k, <2>1 DEF Good, Pending
  <2>3. Held(loc[t], "ok") = 0 /\ Held(loc[t], pc[t]) = 0 /\ ~Answered(loc[t], "ok")
    BY <2>1, <2>2 DEF Held, Answered, Carrying
  <2> DEFINE b == [u \in Tasks |-> IF Bound(u) THEN loc[u].tok ELSE 0]
             a == {u \in Tasks : loc[u].op = "call" /\ pc[u] = "ok"}
  <2>4. b' = [b EXCEPT ![t] = 0] /\ a' = a \ {t} /\ b[t] = 0
    BY <2>1, <2>3, RegisterMaps
  <2>5. b' = b  BY <2>4
  <2>6. Register!Install  BY <2>1, <2>2, <2>4, <2>5 DEF Register!Install
  <2> QED BY <2>6 DEF Register!RNext
<1>3. CASE LoginRejected(t)
  <2>0. PICK at \in {"login", "failed"} : \E m : Goto(t, m, at)  BY <1>3 DEF LoginRejected
  <2>1. PICK m : Goto(t, m, at)  BY <2>0
  <2> QED BY <1>3, <2>1, AwayRegister DEF LoginRejected, session, Carrying, Answered
<1>4. CASE RequestFails(t)
  <2>1. CASE loc[t].op = "logout" /\ Clear(t, [loc[t] EXCEPT !.then = "failed"], lock)
    BY <1>4, <2>1, <1>c DEF RequestFails, Carrying
  <2>2. CASE Goto(t, loc[t], "failed") /\ UNCHANGED session
    BY <1>4, <1>f, <2>2 DEF RequestFails, session
  <2> QED BY <1>4, <2>1, <2>2 DEF RequestFails
<1>5. CASE Unauthorized(t)
  <2>1. PICK th \in {"finally", "failed"} :
          Clear(t, [loc[t] EXCEPT !.then = th], lock) /\ (loc[t].op = "call" => th = "failed")
    BY <1>5 DEF Unauthorized
  <2> QED BY <1>5, <1>c, <2>1 DEF Unauthorized, Carrying
<1>6. CASE LogoutMissing(t)
  <2>1. Clear(t, loc[t], lock) /\ loc[t].op = "logout" /\ pc[t] = "request" /\ issued' = issued
    BY <1>6 DEF LogoutMissing
  <2>2. loc[t].then # "post" /\ Kind(loc[t], "clear") /\ Held(loc[t], pc[t]) = loc[t].tok
        /\ (loc[t].gen = generation => loc[t].tok = token)
    BY <1>k, <2>1 DEF Good, Kind, Holds, Carrying, Held
  <2> QED BY <1>k, <2>1, <2>2, ClearRegister
<1>7. CASE Response(t) \/ FrameRead(t) \/ Decoded(t)
  <2>1. PICK at \in {"body", "decode", "yielded"} : Goto(t, loc[t], at)
    BY <1>7 DEF Response, FrameRead, Decoded
  <2>2. pc[t] \in Carrying /\ UNCHANGED <<token, issued>>
    BY <1>7 DEF Response, FrameRead, Decoded, Carrying, session
  <2> QED BY <2>1, <2>2, OnRegister DEF Carrying
<1>8. CASE Result(t)
  <2>1. pc[t] = "body" /\ loc[t].gen = generation /\ issued' = issued /\ pc[t] \in Carrying
    BY <1>8 DEF Result, Current, Carrying
  <2>2. loc[t].tok = token /\ token # 0 /\ Held(loc[t], pc[t]) = token
    BY <1>k, <2>1 DEF Good, Holds, Held
  <2>3. CASE loc[t].op = "call" /\ Goto(t, loc[t], "ok") /\ token' = token
    <3>1. Held(loc[t], "ok") = 0  BY DEF Held, Carrying
    <3> QED BY <2>1, <2>2, <2>3, <3>1, KeepsRegister
  <2>4. CASE loc[t].op # "call" /\ Goto(t, loc[t], "ok") /\ token' = token
    BY <2>1, <2>4, AwayRegister DEF Carrying, Answered
  <2>5. CASE /\ loc[t].op = "change_password" /\ token' = token
             /\ Goto(t, PasswordStep(loc[t]).l, PasswordStep(loc[t]).at)
    <3> DEFINE m == PasswordStep(loc[t]).l
               at == PasswordStep(loc[t]).at
    <3>1. m.tok = loc[t].tok /\ at \in {"failed", "request"}
      BY <1>k DEF PasswordStep, Locals
    <3>2. Goto(t, m, at)  BY <2>5
    <3> HIDE DEF m, at
    <3>3. CASE at = "request"  BY <2>1, <2>5, <3>1, <3>2, <3>3, OnRegister DEF Carrying
    <3>4. CASE at = "failed"  BY <2>1, <2>5, <3>2, <3>4, AwayRegister DEF Carrying, Answered
    <3> QED BY <3>1, <3>3, <3>4
  <2>6. CASE Goto(t, [loc[t] EXCEPT !.phase = "password"], "request") /\ token' = token
    <3> DEFINE m == [loc[t] EXCEPT !.phase = "password"]
    <3>1. m.tok = loc[t].tok  BY <1>k DEF Locals
    <3>2. Goto(t, m, "request") /\ "request" \in Carrying  BY <2>6 DEF Carrying
    <3> HIDE DEF m
    <3> QED BY <2>1, <2>6, <3>1, <3>2, OnRegister
  <2>7. CASE /\ loc[t].op = "logout" \/ (loc[t].phase = "password" /\ CurrentContract)
             /\ Clear(t, [loc[t] EXCEPT !.then = "ok"], lock)
    <3>1. loc[t].op # "call"  BY <1>k, <2>7 DEF Kind
    <3> QED BY <2>1, <2>7, <3>1, <1>c
  <2> QED BY <1>8, <2>3, <2>4, <2>5, <2>6, <2>7 DEF Result, session
<1>9. CASE Connected(t) \/ Sent(t)
  <2>1. PICK m \in Locals, at \in {"send", "ok"} : Goto(t, m, at) /\ m.op = loc[t].op
    <3>1. CASE Connected(t)
      <4>1. sock \in Seq(Socks)  BY DEF IInv, CoreTypes
      <4>2. Len(sock) + 1 \in Nat  BY <4>1, LenProperties
      <4>3. [loc[t] EXCEPT !.w = Len(sock) + 1] \in Locals /\ [loc[t] EXCEPT !.w = Len(sock) + 1].op = loc[t].op
        BY <1>k, <4>2 DEF Locals
      <4> QED BY <3>1, <4>3 DEF Connected
    <3>2. CASE Sent(t)  BY <1>k, <3>2 DEF Sent
    <3> QED BY <1>9, <3>1, <3>2
  <2>2. loc[t].op # "call" /\ UNCHANGED <<token, issued>>
    BY <1>9, <1>k DEF Connected, Sent, Kind, session
  <2> QED BY <2>1, <2>2, AwayRegister DEF Carrying, Answered
<1>10. CASE ConnectFails(t)
  <2>1. CASE Clear(t, [loc[t] EXCEPT !.then = "failed"], Tail(lock))
    BY <1>10, <2>1, <1>c DEF ConnectFails, Carrying
  <2>2. CASE Goto(t, loc[t], "failed") /\ UNCHANGED session
    BY <1>10, <1>f, <2>2 DEF ConnectFails, session
  <2> QED BY <1>10, <2>1, <2>2 DEF ConnectFails
<1>11. CASE SendFails(t)
  <2>1. PICK at \in {"failed", "inv_close", "invalidate"} : Goto(t, loc[t], at)
    BY <1>11 DEF SendFails, InvalidateSection, Queue
  <2> QED BY <1>11, <2>1, AwayRegister DEF SendFails, session, Carrying, Answered
<1> QED BY <1>1, <1>2, <1>3, <1>4, <1>5, <1>6, <1>7, <1>8, <1>9, <1>10, <1>11 DEF Reply

LEMMA CancelRegister ==
  ASSUME IInv, SInv, NEW t \in Tasks, Cancel(t)
  PROVE  [Register!RNext]_(Register!rvars)
<1>k. /\ loc[t] \in Locals /\ Good(loc[t], pc[t]) /\ Linked(loc[t], pc[t]) /\ Kind(loc[t], pc[t])
  BY Known
<1>i. issued' = issued  BY DEF Cancel
<1>1. CASE HasFinally(t) /\ Clear(t, [loc[t] EXCEPT !.then = "failed"], RemoveFirst(lock, t))
           /\ pc[t] # "closing"
  <2> DEFINE l == [loc[t] EXCEPT !.then = "failed"]
             q == RemoveFirst(lock, t)
  <2>1. /\ l \in Locals /\ l.op = "logout" /\ l.gen = loc[t].gen /\ l.tok = loc[t].tok
        /\ l.then = "failed" /\ l.phase = loc[t].phase
    BY <1>k, <1>1 DEF Locals, HasFinally
  <2>2. Clear(t, l, q)  BY <1>1
  <2>3. pc[t] \in {"request", "body", "clear"} /\ loc[t].op = "logout"
    BY <1>1 DEF HasFinally
  <2> HIDE DEF l, q
  <2>4. /\ Kind(l, "clear") /\ Held(loc[t], pc[t]) = l.tok
        /\ l.tok # 0 /\ l.gen = generation => l.tok = token
    BY <1>k, <2>1, <2>3 DEF Good, Holds, Carrying, Held, Kind, Linked
  <2> QED BY <1>i, <2>1, <2>2, <2>4, ClearRegister
<1>2. CASE Goto(t, loc[t], "failed") /\ UNCHANGED session
  BY <1>2, <1>i, AwayRegister DEF session, Carrying, Answered
<1>3. CASE Proceed(t, loc[t], "finally", lock) /\ UNCHANGED session
  <2>1. PICK to \in {"finally", "failed"} : Goto(t, loc[t], to)  BY <1>3, ProceedGoes
  <2> QED BY <1>3, <1>i, <2>1, AwayRegister DEF session, Carrying, Answered
<1> QED BY <1>1, <1>2, <1>3 DEF Cancel

(* The session core implements the register: a new session is installed     *)
(* only when there is none, only a request of the current session is        *)
(* answered, and only its end or a login's start ends the session.          *)
THEOREM ImplementsRegisterThm == Spec => ImplementsRegister
<1>1. Init => Register!RInit
  BY DEF Init, Register!RInit, Bound, Carrying, Frame
<1>2. IInv /\ SInv /\ [Next]_vars => [Register!RNext]_(Register!rvars)
  <2> SUFFICES ASSUME IInv, SInv, [Next]_vars  PROVE [Register!RNext]_(Register!rvars)
    OBVIOUS
  <2>1. CASE \E t \in Tasks : Begin(t) \/ Continue(t) \/ Reply(t) \/ Cancel(t)
    BY <2>1, BeginRegister, ContinueRegister, ReplyRegister, CancelRegister
  <2>2. CASE UNCHANGED <<token, issued, pc, loc>>
    BY <2>2 DEF Register!rvars, Bound
  <2> QED BY <2>1, <2>2 DEF Next, PeerCloses, HeartbeatEnds, vars, session
<1> QED BY <1>1, <1>2, Inductive, ConnectionInductive, PTL DEF Spec, ImplementsRegister, Register!RSpec
================================================================================
