-------------------------------- MODULE HidInput --------------------------------
(* Mouse and keyboard input: nanokvm/components/mouse.py, the keyboard part *)
(* of hid.py, and the path send_ws gives a report in session.py.            *)
(*                                                                          *)
(* Input operations of several tasks share the held buttons and the FIFO    *)
(* _ws_lock. A report is built from the held buttons when the operation     *)
(* runs and travels later, when the task has got the connection. Session    *)
(* models what happens to the connection itself; here a task at the head of *)
(* the queue either gets one or does not. The pointer's mode and position   *)
(* only choose the bytes of a report; PointerReports has those.             *)
EXTENDS PointerReports, Sequences, SequencesExt

CONSTANTS Tasks,         \* the asyncio tasks that use the client
          Buttons,       \* mouse buttons
          Operations,    \* the operations the application calls
          Binary,        \* the firmware takes binary HID reports
          MaxOps,        \* bound: operations started in a behaviour
          MaxCancels,    \* bound: cancellations of a running operation
          MaxForgets     \* bound: firmware updates that forget the versions

Clicks == {"click", "click_at"}
Presses == {"down"} \cup Clicks
Transitions == {"authenticate", "logout"}
AllOperations == Presses \cup Transitions \cup
                 {"move", "up", "scroll", "key_down", "key_up", "key_tap"}

ASSUME HidInputAssumption ==
  /\ {MaxOps, MaxCancels, MaxForgets} \subseteq Nat
  /\ Operations \subseteq AllOperations
  /\ Binary \in BOOLEAN

VARIABLES
  generation,  \* _session_generation
  token,       \* whether _token is set
  known,       \* whether the application version is known
  buttons,     \* _mouse_buttons
  queue,       \* _ws_lock: the holder, then the waiters in order
  host,        \* what the controlled machine has seen
  pc,          \* where each task is suspended
  loc,         \* the locals of each task's operation
  built,       \* reports built so far
  started,     \* operations started so far
  cancelled,   \* cancellations so far
  forgets,     \* firmware updates so far
  (* History, for the properties; no guard reads it and it says nothing of  *)
  (* a button that is not in `buttons`.                                     *)
  since,       \* the number of the report whose press put the button there
  held,        \* the number of the press of it that returned last, or 0
  clicked,     \* buttons that only clicks pressed
  kept,        \* buttons whose press failed and was not taken back
  unreleased   \* buttons whose click could not ask how to release them

vars == <<generation, token, known, buttons, queue, host, pc, loc, built, started,
          cancelled, forgets, since, held, clicked, kept, unreleased>>
auth == <<generation, token>>
history == <<since, held, clicked, kept, unreleased>>
state == <<buttons, history>>
bounds == <<started, cancelled, forgets>>

Ended == {"new", "ok", "failed"}
Queued == {"getws", "connect", "invalidate", "denied", "rejected", "clear"}
PCs == Ended \cup Queued \cup {"detect", "drain", "pause", "hold", "login"}
Stages == {"none", "move", "press", "up", "scroll", "key_press", "key_up"}

(* The locals: previous, pressed and gen are those of mouse_down; report is *)
(* what the step sends; asked is the session whose token the device         *)
(* rejected. They are gone when the operation ends.                         *)
Locals == [op : AllOperations \cup {"none"}, button : Buttons \cup {"none"}, stage : Stages, gen : Nat,
           previous : SUBSET Buttons, pressed : SUBSET Buttons, asked : Nat,
           report : [binary : BOOLEAN, held : SUBSET Buttons, n : Nat],
           then : {"ok", "failed"}]

Idle == [op |-> "none", button |-> "none", stage |-> "none", gen |-> 0, previous |-> {},
         pressed |-> {}, asked |-> 0, report |-> [binary |-> FALSE, held |-> {}, n |-> 0],
         then |-> "ok"]

Frame(op, b, stage) ==
  [Idle EXCEPT !.op = op, !.button = b, !.stage = stage, !.gen = generation]

Init ==
  /\ generation = 0 /\ token = TRUE /\ known = FALSE
  /\ buttons = {} /\ queue = <<>>
  /\ host = [buttons |-> {}, pressed |-> {}, key |-> FALSE, n |-> 0]
  /\ pc = [t \in Tasks |-> "new"]
  /\ loc = [t \in Tasks |-> Idle]
  /\ built = 0 /\ started = 0 /\ cancelled = 0 /\ forgets = 0
  /\ since = [b \in Buttons |-> 0] /\ held = [b \in Buttons |-> 0]
  /\ clicked = {} /\ kept = {} /\ unreleased = {}

Goto(t, l, at) ==
  /\ pc' = [pc EXCEPT ![t] = at]
  /\ loc' = [loc EXCEPT ![t] = IF at \in Ended THEN Idle ELSE l]

Dequeue_Forgets(t) == queue
Dequeue(t) == RemoveFirst(queue, t)
AtHead(t) == queue # <<>> /\ Head(queue) = t

--------------------------------------------------------------------------------
(* Building a report. A name that ends in a bug, such as Enqueue_First, is  *)
(* a mutant of the definition that follows it.                              *)

Release ==
  /\ buttons' = {}
  /\ since' = [b \in Buttons |-> 0] /\ held' = [b \in Buttons |-> 0]
  /\ clicked' = {} /\ kept' = {} /\ unreleased' = {}

(* Only the binary protocol keeps track of the held buttons. *)
SetButtons(l, binary) ==
  CASE l.stage = "press" /\ binary ->
         /\ buttons' = buttons \cup {l.button}
         /\ since' = [b \in Buttons |-> IF b \in buttons' \ buttons THEN built + 1 ELSE since[b]]
         /\ clicked' = IF l.op = "down" THEN clicked \ {l.button}
                       ELSE clicked \cup ({l.button} \ buttons)
         /\ UNCHANGED <<held, kept, unreleased>>
    [] l.stage = "up" /\ binary -> Release
    [] OTHER -> UNCHANGED state

Enqueue_First(t) == <<t>> \o queue
Enqueue(t) == Append(queue, t)

Report(l, binary) ==
  [l EXCEPT !.gen = generation, !.previous = buttons, !.pressed = buttons',
            !.report = [binary |-> binary, held |-> buttons', n |-> built + 1]]

(* From the protocol check to get_ws no await lies in between. Without a    *)
(* token get_ws fails at once where the lock is free: only a release        *)
(* changes the held buttons then, for a press takes itself back.            *)
Build(t, l, binary) ==
  \/ /\ token \/ queue # <<>>
     /\ SetButtons(l, binary)
     /\ built' = built + 1
     /\ Goto(t, Report(l, binary), IF queue = <<>> THEN "connect" ELSE "getws")
     /\ queue' = Enqueue(t)
  \/ /\ ~token /\ queue = <<>>
     /\ IF l.stage = "up" THEN SetButtons(l, binary) ELSE UNCHANGED state
     /\ built' = built + 1
     /\ Goto(t, l, "failed")
     /\ UNCHANGED queue

(* A step of an operation starts with uses_binary_hid_protocol: it asks the *)
(* device when the version is unknown, and without a token it assumes the   *)
(* binary protocol.                                                         *)
Step(t, l) ==
  \/ /\ ~known /\ token
     /\ Goto(t, [l EXCEPT !.gen = generation], "detect")
     /\ UNCHANGED <<state, built, queue>>
  \/ /\ known \/ ~token
     /\ Build(t, l, Binary \/ ~known)

(* mouse_down's except clause: take an unsent press back, unless the state  *)
(* was changed meanwhile.                                                   *)
MayUndo_AnySession(l) == buttons = l.pressed
MayUndo(l) == l.gen = generation /\ buttons = l.pressed

Undo_Never(l) == UNCHANGED buttons
Undo(l) ==
  buttons' = IF l.stage = "press" /\ MayUndo(l) THEN l.previous ELSE buttons

(* The step raises: nothing is left of the operation but its except and     *)
(* finally clauses. A click or a tap releases only after a press returned.  *)
Fail(t, l) ==
  /\ Undo(l)
  /\ since' = [b \in Buttons |-> IF b \in buttons' THEN since[b] ELSE 0]
  /\ held' = [b \in Buttons |-> IF b \in buttons' THEN held[b] ELSE 0]
  /\ clicked' = clicked \cap buttons' /\ unreleased' = unreleased \cap buttons'
  /\ kept' = buttons' \cap (kept \cup {b \in buttons : /\ l.stage = "press" /\ since[b] = l.report.n
                                                       /\ buttons # l.pressed})
  /\ Goto(t, l, "failed")
  /\ UNCHANGED built

(* The same before the report is built: there is nothing to take back, and  *)
(* a click does not release its button.                                     *)
FailBeforeBuild(t, l) ==
  /\ Goto(t, l, "failed")
  /\ unreleased' = unreleased \cup {b \in buttons : l.stage = "up" /\ since[b] = l.report.n}
  /\ UNCHANGED <<buttons, since, held, clicked, kept, built>>

(* The device rejects the token: the session is cleared under the lock      *)
(* before the error is raised, unless a newer one came meanwhile. A press   *)
(* of a session that is gone is not taken back.                             *)
ClearSession ==
  /\ generation' = generation + 1 /\ token' = FALSE /\ known' = FALSE
  /\ Release

Unauthorized(t, l, q, at) ==
  \/ /\ q = <<>>
     /\ ClearSession
     /\ Goto(t, l, "failed") /\ queue' = q
  \/ /\ q # <<>>
     /\ Goto(t, [l EXCEPT !.asked = generation], at) /\ queue' = Append(q, t)
     /\ UNCHANGED <<auth, known, state>>

(* What follows a step that returned. *)
NextStep(t, l) ==
  /\ held' = [b \in Buttons |->
                IF l.stage = "press" /\ l.report.binary /\ b = l.button /\ since[b] \in 1..l.report.n
                THEN l.report.n ELSE held[b]]
  /\ CASE l.op = "click_at" /\ l.stage = "move" -> Goto(t, l, "pause")
       [] l.stage = "press" /\ l.op \in Clicks -> Goto(t, l, "hold")
       [] l.stage = "key_press" /\ l.op = "key_tap" -> Goto(t, l, "hold")
       [] OTHER -> Goto(t, l, l.then)
  /\ UNCHANGED <<buttons, since, clicked, kept, unreleased, built>>

--------------------------------------------------------------------------------
FirstStage ==
  [move |-> "move", down |-> "press", up |-> "up", click |-> "press", click_at |-> "move",
   scroll |-> "scroll", key_down |-> "key_press", key_up |-> "key_up", key_tap |-> "key_press"]

(* Back and Forward are the only buttons legacy firmware refuses; they send *)
(* nothing there, so they are not in Buttons when Binary is FALSE.          *)
Call(t, op, b) ==
  /\ op \in Operations \ Transitions
  /\ pc[t] \in Ended /\ started < MaxOps
  /\ started' = started + 1
  /\ Step(t, Frame(op, b, FirstStage[op]))
  /\ UNCHANGED <<auth, known, host, cancelled, forgets>>

Detected(t) ==
  /\ pc[t] = "detect" /\ loc[t].gen = generation
  /\ known' = TRUE
  /\ Build(t, loc[t], Binary)
  /\ UNCHANGED <<auth, host, bounds>>

DetectFails(t) ==
  /\ pc[t] = "detect"
  /\ FailBeforeBuild(t, loc[t])
  /\ UNCHANGED <<auth, known, queue, host, bounds>>

DetectDenied(t) ==
  /\ pc[t] = "detect" /\ loc[t].gen = generation
  /\ Unauthorized(t, loc[t], queue, "denied")
  /\ UNCHANGED <<host, built, bounds>>

--------------------------------------------------------------------------------
(* send_ws: get_ws under the lock, then the write.                          *)

(* A binary mouse report lists every held button; a legacy event tells only *)
(* of the button pressed, or that all are released.                         *)
Deliver(l) ==
  host' = CASE l.stage \in {"key_press", "key_up"} ->
                 [host EXCEPT !.key = (l.stage = "key_press"), !.n = l.report.n]
            [] OTHER ->
                 [buttons |-> CASE l.report.binary -> l.report.held
                                [] ~l.report.binary /\ l.stage = "press" -> host.buttons \cup {l.button}
                                [] ~l.report.binary /\ l.stage = "up" -> {}
                                [] OTHER -> host.buttons,
                  pressed |-> CASE l.stage = "press" -> host.pressed \cup {l.button}
                                [] l.stage = "up" -> {}
                                [] OTHER -> host.pressed,
                  key |-> host.key, n |-> l.report.n]

GetWsEnter(t) ==
  /\ pc[t] = "getws" /\ AtHead(t)
  /\ \/ /\ token
        /\ Goto(t, loc[t], "connect")
        /\ UNCHANGED <<state, built, queue>>
     \/ /\ ~token
        /\ queue' = Tail(queue)
        /\ Fail(t, loc[t])
  /\ UNCHANGED <<auth, known, host, bounds>>

NoConnection(t) ==
  /\ pc[t] = "connect"
  /\ queue' = Tail(queue)
  /\ Fail(t, loc[t])
  /\ UNCHANGED <<auth, known, host, bounds>>

(* The handshake is answered by a 401.                                      *)
Refused(t) ==
  /\ pc[t] = "connect"
  /\ Unauthorized(t, loc[t], Tail(queue), "rejected")
  /\ UNCHANGED <<host, built, bounds>>

Rejected(t) ==
  /\ pc[t] \in {"denied", "rejected"} /\ AtHead(t)
  /\ queue' = Tail(queue)
  /\ \/ /\ loc[t].asked = generation
        /\ ClearSession
        /\ Goto(t, loc[t], "failed") /\ UNCHANGED built
     \/ /\ loc[t].asked # generation
        /\ IF pc[t] = "denied" THEN FailBeforeBuild(t, loc[t]) ELSE Fail(t, loc[t])
        /\ UNCHANGED <<auth, known>>
  /\ UNCHANGED <<host, bounds>>

(* The connection is there and the report is written. The write returns at  *)
(* once, or waits for a transport that has paused.                          *)
Sent(t) ==
  /\ pc[t] = "connect"
  /\ queue' = Tail(queue)
  /\ Deliver(loc[t])
  /\ \/ NextStep(t, loc[t])
     \/ Goto(t, loc[t], "drain") /\ UNCHANGED <<state, built>>
  /\ UNCHANGED <<auth, known, bounds>>

Drained(t) ==
  /\ pc[t] = "drain"
  /\ NextStep(t, loc[t])
  /\ UNCHANGED <<auth, known, queue, host, bounds>>

(* The write fails, before or after the report left: invalidate_ws waits    *)
(* for the lock before the error is raised.                                 *)
SendFails(t) ==
  /\ \/ pc[t] = "connect" /\ queue' = Append(Tail(queue), t)
     \/ pc[t] = "drain" /\ queue' = Append(queue, t)
  /\ Goto(t, loc[t], "invalidate")
  /\ UNCHANGED <<auth, known, state, host, built, bounds>>

Invalidated(t) ==
  /\ pc[t] = "invalidate" /\ AtHead(t)
  /\ queue' = Tail(queue)
  /\ Fail(t, loc[t])
  /\ UNCHANGED <<auth, known, host, bounds>>

(* The sleep between the steps of a click or a tap ends. *)
ReleaseFrame(l, then) ==
  [l EXCEPT !.stage = IF l.op = "key_tap" THEN "key_up" ELSE "up", !.then = then]

Slept(t) ==
  /\ pc[t] \in {"pause", "hold"}
  /\ Step(t, IF pc[t] = "pause" THEN [loc[t] EXCEPT !.stage = "press"]
             ELSE ReleaseFrame(loc[t], "ok"))
  /\ UNCHANGED <<auth, known, host, bounds>>

--------------------------------------------------------------------------------
(* Authentication: clear_local_session under the lock, then the login.      *)

Superseded(l) == l.op = "logout" /\ l.gen # generation

ClearSection(t, l, q) ==
  /\ queue' = q
  /\ \/ /\ Superseded(l)
        /\ Goto(t, l, "ok")
        /\ UNCHANGED <<auth, known, state>>
     \/ /\ ~Superseded(l)
        /\ ClearSession
        /\ Goto(t, [l EXCEPT !.gen = generation + 1], IF l.op = "logout" THEN "ok" ELSE "login")

Transition(t, op) ==
  /\ op \in Operations \cap Transitions
  /\ pc[t] \in Ended /\ started < MaxOps
  /\ started' = started + 1
  /\ LET l == Frame(op, "none", "none")
     IN \/ queue = <<>> /\ ClearSection(t, l, queue)
        \/ /\ queue # <<>>
           /\ Goto(t, l, "clear") /\ queue' = Append(queue, t)
           /\ UNCHANGED <<auth, known, state>>
  /\ UNCHANGED <<host, built, cancelled, forgets>>

ClearEnter(t) ==
  /\ pc[t] = "clear" /\ AtHead(t)
  /\ ClearSection(t, loc[t], Tail(queue))
  /\ UNCHANGED <<host, built, bounds>>

LoginEnds(t) ==
  /\ pc[t] = "login"
  /\ \/ Goto(t, loc[t], "failed") /\ UNCHANGED token
     \/ loc[t].gen = generation /\ token' = TRUE /\ Goto(t, loc[t], "ok")
  /\ UNCHANGED <<generation, known, state, queue, host, built, bounds>>

(* forget_versions of a firmware update: the session goes on. *)
ForgetVersions ==
  /\ forgets < MaxForgets /\ known
  /\ forgets' = forgets + 1 /\ known' = FALSE
  /\ UNCHANGED <<auth, state, queue, host, pc, loc, built, started, cancelled>>

--------------------------------------------------------------------------------
(* CancelledError: during the hold of a click or a tap the finally clause   *)
(* runs the release; elsewhere the step ends as if it had failed.           *)
CancelHold_Forgets(t) == Goto(t, loc[t], "failed") /\ UNCHANGED <<state, built, queue>>
CancelHold(t) == Step(t, ReleaseFrame(loc[t], "failed"))

Cancel(t) ==
  /\ pc[t] \notin Ended /\ cancelled < MaxCancels
  /\ cancelled' = cancelled + 1
  /\ \/ pc[t] = "hold" /\ CancelHold(t)
     \/ /\ pc[t] \in {"detect", "denied", "pause", "login", "clear"}
        /\ FailBeforeBuild(t, loc[t]) /\ queue' = Dequeue(t)
     \/ /\ pc[t] \in {"getws", "connect", "drain", "invalidate", "rejected"}
        /\ Fail(t, loc[t]) /\ queue' = Dequeue(t)
  /\ UNCHANGED <<auth, known, host, started, forgets>>

Begin(t) ==
  \/ \E op \in Presses, b \in Buttons : Call(t, op, b)
  \/ \E op \in AllOperations \ (Presses \cup Transitions) : Call(t, op, "none")
  \/ \E op \in Transitions : Transition(t, op)

Continue(t) ==
  \/ Detected(t) \/ DetectFails(t) \/ DetectDenied(t) \/ GetWsEnter(t) \/ NoConnection(t)
  \/ Refused(t) \/ Rejected(t) \/ Sent(t) \/ Drained(t) \/ SendFails(t) \/ Invalidated(t)
  \/ Slept(t) \/ ClearEnter(t) \/ LoginEnds(t)

Next == (\E t \in Tasks : Begin(t) \/ Continue(t) \/ Cancel(t)) \/ ForgetVersions

Spec == Init /\ [][Next]_vars

(* The event loop runs every task that can go on; connecting has a timeout, *)
(* and heartbeats end a connection that no longer takes a report.           *)
FairSpec == Spec /\ \A t \in Tasks : WF_vars(Continue(t))

--------------------------------------------------------------------------------
(* Properties. *)

(* Every variable holds what its declaration says, and exactly the tasks    *)
(* that hold _ws_lock or wait for it are in its queue.                      *)
TypeOK ==
  /\ generation \in Nat /\ token \in BOOLEAN /\ known \in BOOLEAN
  /\ buttons \subseteq Buttons /\ {clicked, kept, unreleased} \subseteq SUBSET buttons
  /\ since \in [Buttons -> 0..built] /\ held \in [Buttons -> 0..built]
  /\ \A b \in Buttons : (since[b] # 0 <=> b \in buttons) /\ (held[b] # 0 => b \in buttons)
  /\ queue \in Seq(Tasks)
  /\ \A t \in Tasks : pc[t] \in Queued <=> \E i \in DOMAIN queue : queue[i] = t
  /\ host \in [buttons : SUBSET Buttons, pressed : SUBSET Buttons, key : BOOLEAN, n : 0..built]
  /\ pc \in [Tasks -> PCs] /\ loc \in [Tasks -> Locals]
  /\ {built, started, cancelled, forgets} \subseteq Nat

(* mouse.py:153: a press that was not sent is not left in the held buttons, *)
(* where the next report would turn it into a drag. When no operation runs, *)
(* the client holds no button that the host does not, but for one: a press  *)
(* that fails after another call has changed the held buttons stays.        *)
UnsentPressNeverDrags ==
  (\A t \in Tasks : pc[t] \in Ended) => buttons \subseteq host.buttons \cup kept

(* mouse.py:154: taking a press back does not overwrite what another call   *)
(* or a newer session did. A button that a press which returned holds is    *)
(* let go of by a release, by a change of session, or where a press of the  *)
(* same button, of the same session and built before it fails after it.     *)
LetGo(b) ==
  \/ buttons' = {} /\ <<built, generation>>' # <<built, generation>>
  \/ \E t \in Tasks :
       /\ pc[t] \notin Ended /\ pc'[t] = "failed" /\ loc[t].stage = "press" /\ loc[t].button = b
       /\ loc[t].gen = generation /\ loc[t].report.n <= held[b]

HeldPressesStay == [][\A b \in Buttons : held[b] # 0 /\ held'[b] = 0 => LetGo(b)]_vars

(* mouse.py:202: a click leaves no button behind in the held buttons,       *)
(* however its sends fail, are cancelled or meet other input, but for two   *)
(* ways: its press fails and is not taken back, as above, or it must ask    *)
(* for the version again before its release and gets no answer.             *)
ClickLeavesNoButton ==
  \A b \in clicked \ (kept \cup unreleased) :
    \E t \in Tasks : loc[t].op \in Clicks /\ loc[t].button = b /\ pc[t] \notin Ended

(* The host sees reports in the order in which the calls built them, so an  *)
(* older set of held buttons never replaces a newer one.                    *)
InputArrivesInOrder == [][host' # host => host'.n > host.n]_vars

(* The bytes of every report that reached the host are worth the movement   *)
(* or the position they were made from (mouse.py:24).                       *)
ReportsKeepTheirValue == host.n > 0 => MovementsKeep /\ PositionsKeep

(* docs/api.md:113: key_tap still releases when it is cancelled. A tap that *)
(* a cancellation ends leaves no key held.                                  *)
CancelledTapReleases ==
  [][\A t \in Tasks : loc[t].op = "key_tap" /\ cancelled' # cancelled /\ pc[t] \notin Ended =>
       pc'[t] \notin Ended \/ ~host'.key]_vars

(* The host never sees a button held that no press reached it for.          *)
NoPhantomPress == host.buttons \subseteq host.pressed
================================================================================
