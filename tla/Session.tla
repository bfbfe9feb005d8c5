-------------------------------- MODULE Session --------------------------------
(* The session core of the client: nanokvm/components/session.py.           *)
(*                                                                          *)
(* Several asyncio tasks share one SessionController. Each task runs one    *)
(* public operation at a time, and each action below is the code between    *)
(* two awaits, because a task only loses the event loop where it awaits.    *)
(* The shared state is the token with its generation, the kept              *)
(* credentials, the cached application version, and the shared WebSocket    *)
(* with its heartbeat task, guarded by _ws_lock. asyncio.Lock is fair:      *)
(* `lock` is the FIFO of the holder followed by the waiters.                *)
EXTENDS Naturals, Sequences, SequencesExt

CONSTANTS Tasks,            \* the asyncio tasks that use the client
          Operations,       \* the operations the application calls
          MaxOps,           \* bound: operations started in a behaviour
          MaxCancels,       \* bound: cancellations of a running operation
          KeepCredentials,  \* the keep_credentials argument
          ExternalSession,  \* the caller passed its own aiohttp session
          AuthDisabled,     \* the device issues the token "disabled"
          CurrentContract   \* the firmware takes the 2.5.1 password contract

Logins == {"authenticate", "reauthenticate"}
AllOperations == Logins \cup {"logout", "call", "input", "stream", "change_password", "exit"}

ASSUME SessionAssumption ==
  /\ MaxOps \in Nat /\ MaxCancels \in Nat
  /\ Operations \subseteq AllOperations
  /\ {KeepCredentials, ExternalSession, AuthDisabled, CurrentContract} \subseteq BOOLEAN

VARIABLES
  generation,   \* _session_generation
  token,        \* _token: 0 is None, n the n-th token the client accepted
  issued,       \* tokens accepted so far
  credentials,  \* _credentials: 0 is None, n those of the login that got token n
  mode,         \* _use_password_obfuscation
  application,  \* _application_version: 0 is None, n detected under token n
  ws,           \* _ws: 0 is None, else the number of the connection
  heartbeat,    \* the connections that a heartbeat task runs for
  sock,         \* connection -> how it was opened and its state
  lock,         \* _ws_lock: the holder, then the waiters in order
  http,         \* the HTTP session: "open", "left" open by exit, "closed"
  pc,           \* where each task is suspended
  loc,          \* the locals of each task's operation
  started,      \* operations started so far
  cancelled,    \* cancellations so far
  lastLogout    \* history: the newest logout that returned without an error

vars == <<generation, token, issued, credentials, mode, application, ws, heartbeat,
          sock, lock, http, pc, loc, started, cancelled, lastLogout>>

session == <<generation, token, application>>
socket == <<ws, heartbeat, sock>>

Modes == {"unknown", "obfuscated", "plain"}
Ended == {"new", "ok", "failed"}
Waiting == {"clear", "getws", "invalidate", "close", "finally"}
Holding == {"stale", "connect", "inv_close", "exit_close"}
Awaiting == {"closing", "login", "request", "body", "decode", "yielded", "send"}
PCs == Ended \cup Waiting \cup Holding \cup Awaiting
Phases == {"versions", "account", "password", "bytes", "images", "none"}

(* The locals: n orders the operations, gen is the generation the operation *)
(* runs under, tok the token its request carries, cred the credentials it   *)
(* read, then what follows clear_local_session, w the connection it uses.   *)
Locals == [op : AllOperations \cup {"none"}, n : Nat, gen : Nat, tok : Nat, cred : Nat,
           mode : Modes, then : {"post", "finally", "ok", "failed"}, phase : Phases, w : Nat]

Frame(op, n, g, tk) == [op |-> op, n |-> n, gen |-> g, tok |-> tk, cred |-> 0,
                        mode |-> "unknown", then |-> "failed", phase |-> "none", w |-> 0]

Opened(tk) == [tok |-> tk, state |-> "open"]
IsClosed(w) == sock[w].state = "closed"
Usable == ws # 0 /\ sock[ws].state # "closed"    \* what get_ws can return

Init ==
  /\ generation = 0
  /\ token \in {0, 1} /\ issued = token     \* None, or the token= argument
  /\ credentials = 0 /\ application = 0
  /\ mode \in {"unknown", "obfuscated"}
  /\ ws = 0 /\ heartbeat = {}
  /\ sock = <<>>
  /\ lock = <<>> /\ http = "open"
  /\ pc = [t \in Tasks |-> "new"]
  /\ loc = [t \in Tasks |-> Frame("none", 0, 0, 0)]
  /\ started = 0 /\ cancelled = 0 /\ lastLogout = 0

--------------------------------------------------------------------------------
(* A definition whose name ends in a bug, such as Current_Unchecked, is a   *)
(* mutant of the one that follows it, and no specification uses it.         *)

(* Moving a task to its next await. *)

Goto(t, l, at) ==
  /\ pc' = [pc EXCEPT ![t] = at]
  /\ loc' = [loc EXCEPT ![t] = l]

Queue(t, l, at, q) == Goto(t, l, at) /\ lock' = Append(q, t)

AtHead(t) == lock # <<>> /\ Head(lock) = t

(* A public call; applications do not call a client they have left. *)
Start(t, op) ==
  /\ op \in Operations
  /\ pc[t] \in Ended /\ http = "open"
  /\ started < MaxOps
  /\ started' = started + 1

Fresh(op) == Frame(op, started + 1, generation, token)

(* check_session_generation passes. *)
Current_Unchecked(t) == TRUE
Current(t) == loc[t].gen = generation

(* A logout that ends without an error is recorded when it ends. *)
Record(l, at) ==
  lastLogout' = IF l.op = "logout" /\ at = "ok" /\ l.n > lastLogout THEN l.n ELSE lastLogout

(* _detach_ws, and the synchronous part of closing the detached connection. *)
Detach_KeepsHeartbeat == ws' = 0 /\ UNCHANGED heartbeat
Detach_KeepsSocket == UNCHANGED <<ws, heartbeat>>
Detach ==
  /\ ws' = 0
  /\ heartbeat' = heartbeat \ {ws}

DetachAndClose ==
  /\ Detach
  /\ sock' = [w \in DOMAIN sock |-> IF w = ws THEN [sock[w] EXCEPT !.state = "closed"] ELSE sock[w]]

--------------------------------------------------------------------------------
(* clear_local_session: everything up to `await ws.close()` runs at once    *)
(* under the lock. q is the queue behind the task.                          *)

AfterClear(l) ==
  CASE l.then = "post" -> IF http = "closed" THEN "failed" ELSE "login"
    [] OTHER -> l.then

(* What follows the clear. The finally clause of a logout whose request has *)
(* already cleared takes the lock a second time, and changes nothing.       *)
Proceed(t, l, at, q) ==
  IF at = "finally" /\ q # <<>>
  THEN Queue(t, l, "finally", q) /\ UNCHANGED lastLogout
  ELSE /\ Goto(t, l, IF at = "finally" THEN "failed" ELSE at)
       /\ lock' = q
       /\ Record(l, at)

(* A login reads once, when its clear is done, in which form the device     *)
(* takes passwords: unknown stands for an obfuscated attempt with a plain   *)
(* one after it.                                                            *)
ReadMode(l) == [l EXCEPT !.mode = mode]

Superseded_Never(l) == FALSE
Superseded(l) == l.op \notin Logins /\ l.gen # generation

ClearSection(t, l, q) ==
  \/ /\ Superseded(l)
     /\ Proceed(t, l, AfterClear(l), q)
     /\ UNCHANGED <<session, socket>>
  \/ /\ ~Superseded(l)
     /\ generation' = generation + 1
     /\ token' = 0 /\ application' = 0
     /\ DetachAndClose
     /\ Proceed(t, IF l.op \in Logins THEN ReadMode([l EXCEPT !.gen = generation + 1]) ELSE l,
                IF Usable THEN "closing" ELSE AfterClear(l), q)

Clear(t, l, q) ==
  \/ q = <<>> /\ ClearSection(t, l, q)
  \/ q # <<>> /\ Queue(t, l, "clear", q) /\ UNCHANGED <<session, socket, lastLogout>>

ClearEnter(t) ==
  /\ pc[t] = "clear" /\ AtHead(t)
  /\ ClearSection(t, loc[t], Tail(lock))
  /\ UNCHANGED <<issued, credentials, mode, http, started, cancelled>>

(* The detached connection is closed. A login then sends its request, which *)
(* first checks that no other transition took place meanwhile.              *)
Closed(t) ==
  /\ pc[t] = "closing"
  /\ Proceed(t, IF loc[t].op \in Logins THEN ReadMode(loc[t]) ELSE loc[t],
             IF loc[t].then = "post" /\ loc[t].gen # generation THEN "failed"
             ELSE AfterClear(loc[t]), lock)
  /\ UNCHANGED <<session, socket, issued, credentials, mode, http, started, cancelled>>

FinallyEnter(t) ==
  /\ pc[t] = "finally" /\ AtHead(t)
  /\ Goto(t, loc[t], "failed") /\ lock' = Tail(lock)
  /\ UNCHANGED <<session, socket, issued, credentials, mode, http, started, cancelled, lastLogout>>

--------------------------------------------------------------------------------
(* authenticate, reauthenticate, _login and do_authenticate. *)

LoginFrame(op, cred) ==
  [op |-> op, n |-> started + 1, gen |-> generation, tok |-> token, cred |-> cred,
   mode |-> "unknown", then |-> "post", phase |-> "none", w |-> 0]

Authenticate_KeepsSession(t) ==
  /\ Start(t, "authenticate")
  /\ credentials' = 0
  /\ Goto(t, LoginFrame("authenticate", 0), "login")
  /\ UNCHANGED <<session, socket, lock, issued, mode, http, cancelled, lastLogout>>
Authenticate(t) ==
  /\ Start(t, "authenticate")
  /\ credentials' = 0
  /\ Clear(t, LoginFrame("authenticate", 0), lock)
  /\ UNCHANGED <<issued, mode, http, cancelled>>

Reauthenticate(t) ==
  /\ Start(t, "reauthenticate")
  /\ credentials # 0
  /\ Clear(t, LoginFrame("reauthenticate", credentials), lock)
  /\ UNCHANGED <<issued, credentials, mode, http, cancelled>>

(* The request or the generation check fails: whatever was kept stays. *)
LoginFails(t) ==
  /\ pc[t] = "login"
  /\ Goto(t, loc[t], "failed")
  /\ UNCHANGED <<session, socket, issued, credentials, mode, lock, http, started, cancelled, lastLogout>>

LoginAccepted(t) ==
  /\ pc[t] = "login" /\ http # "closed"
  /\ Current(t)
  /\ token' = issued + 1 /\ issued' = issued + 1
  /\ mode' = IF loc[t].mode = "unknown" THEN "obfuscated" ELSE loc[t].mode
  /\ credentials' = IF loc[t].op = "authenticate" /\ KeepCredentials THEN issued + 1
                    ELSE credentials
  /\ Goto(t, loc[t], "ok")
  /\ UNCHANGED <<generation, application, socket, lock, http, started, cancelled, lastLogout>>

(* NanoKVMAuthenticationFailure: retry in plain text where the mode was     *)
(* unknown, else give up; reauthenticate drops the credentials it used.     *)
LoginRejected(t) ==
  /\ pc[t] = "login" /\ http # "closed"
  /\ Current(t)
  /\ LET retry == loc[t].mode = "unknown"
     IN /\ Goto(t, IF retry THEN [loc[t] EXCEPT !.mode = "plain"] ELSE loc[t],
                   IF retry THEN "login" ELSE "failed")
        /\ credentials' = IF ~retry /\ loc[t].op = "reauthenticate" /\ loc[t].cred = credentials
                          THEN 0 ELSE credentials
  /\ UNCHANGED <<session, socket, issued, mode, lock, http, started, cancelled, lastLogout>>

--------------------------------------------------------------------------------
(* Authenticated requests: logout, change_password, an MJPEG stream, and    *)
(* "call", which stands for every other request and caches a version as     *)
(* detect_versions.                                                         *)

Logout(t) ==
  /\ Start(t, "logout")
  /\ credentials' = 0
  /\ LET l == [Fresh("logout") EXCEPT !.then = "ok"]
     IN \/ /\ token # 0 /\ ~AuthDisabled
           /\ Goto(t, l, "request")
           /\ UNCHANGED <<session, socket, lock, lastLogout>>
        \/ /\ token = 0 \/ AuthDisabled
           /\ Clear(t, l, lock)
  /\ UNCHANGED <<issued, mode, http, cancelled>>

Call(t) ==
  /\ Start(t, "call")
  /\ token # 0
  /\ Goto(t, Fresh("call"), "request")
  /\ UNCHANGED <<session, socket, issued, credentials, mode, lock, http, cancelled, lastLogout>>

(* The request that follows once the password contract is known: from the   *)
(* version, or from a Pro, which has the old one. The old contract needs to *)
(* know in which form the device expects passwords.                         *)
PasswordStep(l) ==
  IF CurrentContract THEN [at |-> "request", l |-> [l EXCEPT !.phase = "account"]]
  ELSE [at |-> IF mode = "unknown" THEN "failed" ELSE "request",
        l |-> [l EXCEPT !.phase = "password"]]

ChangePassword(t) ==
  /\ Start(t, "change_password")
  /\ credentials' = 0
  /\ LET l == [Fresh("change_password") EXCEPT !.phase = "versions"]
     IN \/ token = 0 /\ Goto(t, l, "failed")
        \/ token # 0 /\ application = 0 /\ Goto(t, l, "request")
        \/ /\ token # 0 /\ (application # 0 \/ ~CurrentContract)
           /\ Goto(t, PasswordStep(l).l, PasswordStep(l).at)
  /\ UNCHANGED <<session, socket, issued, mode, lock, http, cancelled, lastLogout>>

(* An error leaves the operation; logout still runs its finally clause. *)
RequestFails(t) ==
  /\ pc[t] \in {"request", "body", "decode"}
  /\ \/ /\ loc[t].op = "logout"
        /\ Clear(t, [loc[t] EXCEPT !.then = "failed"], lock)
     \/ /\ loc[t].op # "logout"
        /\ Goto(t, loc[t], "failed")
        /\ UNCHANGED <<session, socket, lock, lastLogout>>
  /\ UNCHANGED <<issued, credentials, mode, http, started, cancelled>>

(* 401: drop the session that sent the request, if it is still current. *)
Unauthorized(t) ==
  /\ pc[t] = "request" /\ http # "closed"
  /\ Current(t)
  /\ Clear(t, [loc[t] EXCEPT !.then = IF loc[t].op = "logout" THEN "finally" ELSE "failed"], lock)
  /\ UNCHANGED <<issued, credentials, mode, http, started, cancelled>>

(* Old firmware has no /auth/logout; its 404 does not fail the logout. *)
LogoutMissing(t) ==
  /\ pc[t] = "request" /\ loc[t].op = "logout" /\ http # "closed"
  /\ Current(t)
  /\ Clear(t, loc[t], lock)
  /\ UNCHANGED <<issued, credentials, mode, http, started, cancelled>>

(* A good status: the body is still to be read. *)
Response(t) ==
  /\ pc[t] = "request" /\ http # "closed"
  /\ Current(t)
  /\ Goto(t, loc[t], "body")
  /\ UNCHANGED <<session, socket, issued, credentials, mode, lock, http, started, cancelled, lastLogout>>

(* The body is read, the generation is checked again, and the operation     *)
(* goes on with the result; a stream ends with an empty part. A username    *)
(* that is not the account's fails as RequestFails.                         *)
Result(t) ==
  /\ pc[t] = "body" /\ http # "closed"
  /\ Current(t)
  /\ LET l == loc[t]
     IN \/ /\ l.op = "call"
           /\ application' = l.tok
           /\ Goto(t, l, "ok")
           /\ UNCHANGED <<generation, token, socket, lock, lastLogout>>
        \/ /\ l.op = "change_password" /\ l.phase = "versions"
           /\ application' = l.tok
           /\ Goto(t, PasswordStep(l).l, PasswordStep(l).at)
           /\ UNCHANGED <<generation, token, socket, lock, lastLogout>>
        \/ /\ l.op = "change_password" /\ l.phase = "account"
           /\ Goto(t, [l EXCEPT !.phase = "password"], "request")
           /\ UNCHANGED <<session, socket, lock, lastLogout>>
        \/ /\ \/ l.op = "stream"
              \/ l.op = "change_password" /\ l.phase = "password" /\ ~CurrentContract
           /\ Goto(t, l, "ok")
           /\ UNCHANGED <<session, socket, lock, lastLogout>>
        \/ /\ l.op = "logout" \/ (l.phase = "password" /\ CurrentContract)
           /\ Clear(t, [l EXCEPT !.then = "ok"], lock)
  /\ UNCHANGED <<issued, credentials, mode, http, started, cancelled>>

--------------------------------------------------------------------------------
(* mjpeg_stream_bytes and mjpeg_stream: a response that is read frame by    *)
(* frame, and images decoded by another thread. The generator is suspended  *)
(* while its consumer has a frame. get_snapshot leaves after the first; its *)
(* timeout is one of the errors.                                            *)

Stream(t) ==
  /\ Start(t, "stream")
  /\ token # 0
  /\ \E kind \in {"bytes", "images"} :
       Goto(t, [Fresh("stream") EXCEPT !.phase = kind], "request")
  /\ UNCHANGED <<session, socket, issued, credentials, mode, lock, http, cancelled, lastLogout>>

FrameRead(t) ==
  /\ pc[t] = "body" /\ loc[t].op = "stream" /\ http # "closed"
  /\ Current(t)
  /\ Goto(t, loc[t], IF loc[t].phase = "images" THEN "decode" ELSE "yielded")
  /\ UNCHANGED <<session, socket, issued, credentials, mode, lock, http, started, cancelled, lastLogout>>

Decoded(t) ==
  /\ pc[t] = "decode"
  /\ Current(t)
  /\ Goto(t, loc[t], "yielded")
  /\ UNCHANGED <<session, socket, issued, credentials, mode, lock, http, started, cancelled, lastLogout>>

(* The consumer asks for another frame, or leaves the stream. *)
Consume(t) ==
  /\ pc[t] = "yielded"
  /\ \E at \in {"body", "ok"} : Goto(t, loc[t], at)
  /\ UNCHANGED <<session, socket, issued, credentials, mode, lock, http, started, cancelled, lastLogout>>

--------------------------------------------------------------------------------
(* send_ws, get_ws, _connect_ws and invalidate_ws: one keyboard or mouse    *)
(* input on the shared WebSocket.                                           *)

(* The generation is read again under the lock, where nobody can clear it. *)
Connect(t, l, q) ==
  \/ /\ token = 0 \/ http = "closed"
     /\ Goto(t, l, "failed") /\ lock' = q
  \/ /\ token # 0 /\ http # "closed"
     /\ Goto(t, [l EXCEPT !.gen = generation, !.tok = token], "connect")
     /\ lock' = <<t>> \o q

GetWsSection(t, l, q) ==
  /\ \/ /\ Usable
        /\ Goto(t, [l EXCEPT !.w = ws], "send") /\ lock' = q
        /\ UNCHANGED socket
     \/ /\ ws # 0 /\ ~Usable
        /\ Detach /\ UNCHANGED sock
        /\ Goto(t, l, "stale") /\ lock' = <<t>> \o q
     \/ /\ ws = 0
        /\ Connect(t, l, q)
        /\ UNCHANGED socket
  /\ UNCHANGED <<session, lastLogout>>

Input(t) ==
  /\ Start(t, "input")
  /\ \/ lock = <<>> /\ GetWsSection(t, Fresh("input"), lock)
     \/ lock # <<>> /\ Queue(t, Fresh("input"), "getws", lock) /\ UNCHANGED <<session, socket, lastLogout>>
  /\ UNCHANGED <<issued, credentials, mode, http, cancelled>>

GetWsEnter(t) ==
  /\ pc[t] = "getws" /\ AtHead(t)
  /\ GetWsSection(t, loc[t], Tail(lock))
  /\ UNCHANGED <<issued, credentials, mode, http, started, cancelled>>

StaleClosed(t) ==
  /\ pc[t] = "stale"
  /\ Connect(t, loc[t], Tail(lock))
  /\ UNCHANGED <<session, socket, issued, credentials, mode, http, started, cancelled, lastLogout>>

Connected(t) ==
  /\ pc[t] = "connect" /\ http # "closed"
  /\ sock' = Append(sock, Opened(loc[t].tok))
  /\ ws' = Len(sock) + 1
  /\ heartbeat' = heartbeat \cup {Len(sock) + 1}
  /\ Goto(t, [loc[t] EXCEPT !.w = Len(sock) + 1], "send")
  /\ lock' = Tail(lock)
  /\ UNCHANGED <<session, issued, credentials, mode, http, started, cancelled, lastLogout>>

(* Every error leaves the lock first; a 401 then clears the session. *)
ConnectFails_HoldingLock(t) ==
  /\ pc[t] = "connect"
  /\ Clear(t, [loc[t] EXCEPT !.then = "failed"], lock)
  /\ UNCHANGED <<issued, credentials, mode, http, started, cancelled>>
ConnectFails(t) ==
  /\ pc[t] = "connect"
  /\ \/ /\ Goto(t, loc[t], "failed") /\ lock' = Tail(lock)
        /\ UNCHANGED <<session, socket, lastLogout>>
     \/ /\ http # "closed"
        /\ Clear(t, [loc[t] EXCEPT !.then = "failed"], Tail(lock))
  /\ UNCHANGED <<issued, credentials, mode, http, started, cancelled>>

Sent(t) ==
  /\ pc[t] = "send" /\ sock[loc[t].w].state = "open"
  /\ Goto(t, loc[t], "ok")
  /\ UNCHANGED <<session, socket, issued, credentials, mode, lock, http, started, cancelled, lastLogout>>

(* invalidate_ws closes the connection that failed, and forgets it only if  *)
(* it is still the shared one.                                              *)
InvalidateSection(t, q) ==
  LET w == loc[t].w
      closed == IsClosed(w)
  IN /\ sock' = [sock EXCEPT ![w].state = "closed"]
     /\ IF ws = w THEN Detach ELSE UNCHANGED <<ws, heartbeat>>
     /\ Goto(t, loc[t], IF closed THEN "failed" ELSE "inv_close")
     /\ lock' = IF closed THEN q ELSE <<t>> \o q

SendFails(t) ==
  /\ pc[t] = "send" /\ sock[loc[t].w].state # "open"
  /\ \/ lock = <<>> /\ InvalidateSection(t, lock)
     \/ lock # <<>> /\ Queue(t, loc[t], "invalidate", lock) /\ UNCHANGED socket
  /\ UNCHANGED <<session, issued, credentials, mode, http, started, cancelled, lastLogout>>

InvalidateEnter(t) ==
  /\ pc[t] = "invalidate" /\ AtHead(t)
  /\ InvalidateSection(t, Tail(lock))
  /\ UNCHANGED <<session, issued, credentials, mode, http, started, cancelled, lastLogout>>

Invalidated(t) ==
  /\ pc[t] = "inv_close"
  /\ Goto(t, loc[t], "failed") /\ lock' = Tail(lock)
  /\ UNCHANGED <<session, socket, issued, credentials, mode, http, started, cancelled, lastLogout>>

--------------------------------------------------------------------------------
(* exit: close_ws, then the WebSocket session and the owned HTTP session,   *)
(* whose close() marks it closed before it first suspends.                  *)

CloseHttp == http' = IF ExternalSession THEN "left" ELSE "closed"

CloseSection(t, l, q) ==
  /\ DetachAndClose
  /\ \/ /\ Usable
        /\ Goto(t, l, "exit_close") /\ lock' = <<t>> \o q /\ UNCHANGED http
     \/ /\ ~Usable
        /\ Goto(t, l, "ok") /\ lock' = q /\ CloseHttp

Exit(t) ==
  /\ Start(t, "exit")
  /\ credentials' = 0
  /\ \/ lock = <<>> /\ CloseSection(t, Fresh("exit"), lock)
     \/ lock # <<>> /\ Queue(t, Fresh("exit"), "close", lock) /\ UNCHANGED <<socket, http>>
  /\ UNCHANGED <<session, issued, mode, cancelled, lastLogout>>

CloseEnter(t) ==
  /\ pc[t] = "close" /\ AtHead(t)
  /\ CloseSection(t, loc[t], Tail(lock))
  /\ UNCHANGED <<session, issued, credentials, mode, started, cancelled, lastLogout>>

ExitClosed(t) ==
  /\ pc[t] = "exit_close"
  /\ Goto(t, loc[t], "ok") /\ lock' = Tail(lock) /\ CloseHttp
  /\ UNCHANGED <<session, socket, issued, credentials, mode, started, cancelled, lastLogout>>

--------------------------------------------------------------------------------
(* CancelledError at an await: a waiter leaves the queue, a holder releases *)
(* the lock, and a logout that is cut in its request, or while the request  *)
(* clears after a 401, still runs its finally clause.                       *)
HasFinally(t) ==
  /\ loc[t].op = "logout"
  /\ pc[t] \in {"request", "body"} \/ (pc[t] \in {"clear", "closing"} /\ loc[t].then = "finally")

Cancel(t) ==
  /\ pc[t] \notin Ended /\ cancelled < MaxCancels
  /\ cancelled' = cancelled + 1
  /\ \/ /\ HasFinally(t) /\ pc[t] # "closing"
        /\ Clear(t, [loc[t] EXCEPT !.then = "failed"], RemoveFirst(lock, t))
     \/ /\ HasFinally(t) /\ pc[t] = "closing"
        /\ Proceed(t, loc[t], "finally", lock)
        /\ UNCHANGED <<session, socket>>
     \/ /\ ~HasFinally(t)
        /\ Goto(t, loc[t], "failed")
        /\ lock' = RemoveFirst(lock, t)
        /\ UNCHANGED <<session, socket, lastLogout>>
  /\ UNCHANGED <<issued, credentials, mode, http, started>>

(* The device or the network ends a connection: the client may see only     *)
(* that sends fail, or also that the connection is closed.                  *)
PeerCloses ==
  /\ ws # 0 /\ sock[ws].state = "open"
  /\ \E s \in {"broken", "closed"} : sock' = [sock EXCEPT ![ws].state = s]
  /\ UNCHANGED <<session, ws, heartbeat, issued, credentials, mode, lock, http, pc, loc, started,
                 cancelled, lastLogout>>

(* _send_heartbeats returns when its connection no longer takes a message. *)
HeartbeatEnds(w) ==
  /\ w \in heartbeat /\ sock[w].state # "open"
  /\ heartbeat' = heartbeat \ {w}
  /\ UNCHANGED <<session, ws, sock, issued, credentials, mode, lock, http, pc, loc, started,
                 cancelled, lastLogout>>

--------------------------------------------------------------------------------
(* What the application does: begin an operation, or consume a stream. *)
Begin(t) ==
  \/ Authenticate(t) \/ Reauthenticate(t) \/ Logout(t) \/ Call(t)
  \/ ChangePassword(t) \/ Input(t) \/ Exit(t) \/ Stream(t) \/ Consume(t)

Continue(t) ==
  \/ ClearEnter(t) \/ Closed(t) \/ FinallyEnter(t)
  \/ GetWsEnter(t) \/ StaleClosed(t) \/ InvalidateEnter(t) \/ Invalidated(t)
  \/ CloseEnter(t) \/ ExitClosed(t)

Reply(t) ==
  \/ LoginFails(t) \/ LoginAccepted(t) \/ LoginRejected(t)
  \/ RequestFails(t) \/ Unauthorized(t) \/ LogoutMissing(t) \/ Response(t) \/ Result(t)
  \/ FrameRead(t) \/ Decoded(t)
  \/ Connected(t) \/ ConnectFails(t) \/ Sent(t) \/ SendFails(t)

Next ==
  \/ \E t \in Tasks : Begin(t) \/ Continue(t) \/ Reply(t) \/ Cancel(t)
  \/ PeerCloses
  \/ \E w \in heartbeat : HeartbeatEnds(w)

Spec == Init /\ [][Next]_vars

(* The event loop runs every task that can go on, and every request but a   *)
(* stream has a total timeout, so each await that is not for the lock ends  *)
(* by itself.                                                               *)
Fairness == \A t \in Tasks : WF_vars(Continue(t)) /\ WF_vars(Reply(t))

FairSpec == Spec /\ Fairness

--------------------------------------------------------------------------------
(* Properties. *)

(* Every variable holds what its declaration says, and no token, version or *)
(* credentials come from a session that never was. The lock is held by the  *)
(* first task of the queue, every waiter is in the queue exactly once, and  *)
(* a task that suspends inside the critical section is its holder: no path  *)
(* leaves or re-enters the lock wrongly.                                    *)
LockDiscipline ==
  /\ \A t \in Tasks : pc[t] \in Waiting \cup Holding <=> \E i \in DOMAIN lock : lock[i] = t
  /\ \A t \in Tasks : pc[t] \in Holding => AtHead(t)
  /\ \A i, j \in DOMAIN lock : lock[i] = lock[j] => i = j
TypeOK ==
  /\ generation \in Nat /\ token \in 0..issued /\ issued \in Nat
  /\ credentials \in 0..issued /\ application \in 0..issued
  /\ mode \in Modes /\ http \in {"open", "left", "closed"}
  /\ sock \in Seq([tok : Nat, state : {"open", "broken", "closed"}])
  /\ ws \in 0..Len(sock) /\ heartbeat \subseteq 1..Len(sock)
  /\ lock \in Seq(Tasks)
  /\ pc \in [Tasks -> PCs] /\ loc \in [Tasks -> Locals]
  /\ started \in Nat /\ cancelled \in Nat /\ lastLogout \in Nat
  /\ LockDiscipline

(* The session an operation runs under, named by the token it carries: an   *)
(* operation whose generation is current carries the current token. This is *)
(* what lets a generation check stand for a comparison of sessions, and it  *)
(* needs one token per generation, whatever logins run at the same time.    *)
Carrying == {"request", "body", "decode", "yielded", "connect"}
GenerationNamesSession ==
  \A t \in Tasks : pc[t] \in Carrying /\ loc[t].gen = generation => loc[t].tok = token

(* A login that can still succeed has no rival: no token is installed, and  *)
(* no other login waits for its answer under the same generation.           *)
LoginHasNoRival ==
  \A t \in Tasks : pc[t] = "login" /\ loc[t].gen = generation =>
    /\ token = 0
    /\ \A u \in Tasks : pc[u] = "login" /\ loc[u].gen = generation => u = t

(* Cached versions and the shared connection belong to the current session: *)
(* neither survives a logout or an identity switch.                         *)
SessionOwnsState ==
  /\ application # 0 => application = token
  /\ ws # 0 => sock[ws].tok = token

(* No connection is forgotten while it is open, and only the shared one has *)
(* a heartbeat, so a replaced connection is never kept alive. Once exit has *)
(* closed the client's own HTTP session, no connection, no heartbeat and no *)
(* later connection attempt is left behind.                                 *)
NoOrphanConnection ==
  /\ \A w \in DOMAIN sock : sock[w].state = "open" => w = ws
  /\ heartbeat \subseteq {ws}
  /\ http = "closed" => ws = 0 /\ heartbeat = {} /\ \A t \in Tasks : pc[t] \notin Holding

(* A rejected token ends only the session it belongs to: a late 401 never   *)
(* drops the token of a newer login.                                        *)
Rejecting(t) == loc[t].op \in {"call", "input", "stream"}
LateRejectionIsHarmless ==
  [][\A t \in Tasks : Rejecting(t) /\ pc[t] \notin Ended \cup {pc'[t]} /\ pc'[t] \in {"failed", "closing"}
       /\ token' # token => token = loc[t].tok]_vars

(* A result or a frame of a stream is given only to an operation of the     *)
(* session that is still current: what an account asked for never reaches   *)
(* the next account.                                                        *)
Fetching == {"request", "body", "decode"}
ResultsStayInSession ==
  [][\A t \in Tasks : pc[t] \in Fetching /\ pc'[t] # pc[t]
       /\ pc'[t] \in Fetching \cup {"yielded", "ok"} => loc[t].tok = token]_vars

(* A login that fails leaves no token that was usable before it started.    *)
FailedLoginDropsOldAccount ==
  [][\A t \in Tasks : loc[t].op \in Logins /\ pc[t] \in {"login", "closing"}
       /\ pc'[t] = "failed" => token = 0 \/ token # loc[t].tok]_vars

(* Every operation ends: nobody waits for the lock for ever, not even the   *)
(* task whose handshake was rejected while it held it.                      *)
EveryOperationEnds == \A t \in Tasks : (pc[t] \notin Ended) ~> (pc[t] \in Ended)

(* docs/connecting.md: logging out drops the kept credentials, so no        *)
(* reauthenticate that began before a logout logs in after it returned.     *)
LogoutEndsReauthentication ==
  [][\A t \in Tasks : loc[t].op = "reauthenticate" /\ pc[t] = "login" /\ pc'[t] = "ok" =>
       loc[t].n > lastLogout]_vars

(* The core implements the session register: a task is bound from sending a *)
(* request until it returns or the session it ends is cleared. Only "call"  *)
(* returns an answer to its caller.                                         *)
Bound(t) == pc[t] \in Carrying \/ (pc[t] = "clear" /\ loc[t].op \notin Logins)
Register == INSTANCE SessionRegister WITH
  current <- token,
  last <- issued,
  bound <- [t \in Tasks |-> IF Bound(t) THEN loc[t].tok ELSE 0],
  answered <- {t \in Tasks : loc[t].op = "call" /\ pc[t] = "ok"}
ImplementsRegister == Register!RSpec
================================================================================
