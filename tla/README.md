# A TLA+ development of python-nanokvm

`nanokvm` is an asyncio client for NanoKVM devices. A program makes one client
and uses it from many tasks: they log in and out, send requests, type and move
the mouse over one WebSocket, upload images, run SSH commands, negotiate WebRTC
and update the device, which restarts under them. This directory holds TLA+
modules of the parts where those tasks meet, TLC runs that check them on small
instances, and machine-checked proofs that the safety properties of those parts
hold for any number of tasks, calls and failures.

Paths below are relative to the repository. `PROJECT.json` maps every
definition to the lines it models, lists the hazards with the properties that
cover them, and names a mutant for every property: a plausible bug that makes
TLC report it.

## 1. Inventory

| Component | State | Operations | Talks to |
|---|---|---|---|
| Session core, `components/session.py` | token, generation, credentials, versions, shared WebSocket and heartbeat, `_ws_lock`, HTTP session | `authenticate`, `reauthenticate`, `logout`, `request`, `get_ws`/`send_ws`, `change_password`, `exit` | everything below goes through it |
| Mouse and keyboard, `components/mouse.py`, `hid.py` | `_mouse_buttons`, kept in the session core | press, release, move, scroll, click, key down/up/tap | `send_ws`, version detection |
| Images, `components/storage.py` | `_image_transfer_lock` | `upload_image` and single requests | `request`, several per upload |
| SSH, `ssh_client.py` | paramiko client, `_state_generation`, `_state_lock`, worker threads | `authenticate`, `disconnect`, `run_command` | paramiko, in threads |
| WebRTC signaling, `webrtc.py` | offer, expected kinds, heartbeat task | `send_offer`, `send_candidate`, iteration, `close` | a WebSocket of its own |
| Updates, `components/services.py` | none of its own | `install_application_update`, `update_application`, `update_application_offline` | `request`, `detect_versions`, `reauthenticate`, `forget_versions` |
| Version gates, `compatibility.py` | none | decorators, version comparison | the session core's cached version |
| Synchronous client, `sync_client.py` | event loop and its thread, closed flag | constructor, `run`, iterators, `close` | the async client, from the application's threads |
| MJPEG stream, `components/stream.py` | none | `mjpeg_stream_bytes`, `mjpeg_stream`, `get_snapshot` | `request`, generation check, an executor |
| System, video, network, users | none | one request per call | `request` |
| Facade, models, utilities | none | - | - |

What is hard: a task loses control only at `await`, and everything read before
one may be stale after it. The session core answers with a *generation* that
every transition increments and every answer is checked against, and with one
FIFO lock around the WebSocket. Mouse buttons are shared state that changes
before the report that tells the device of it. An upload is a dozen requests
that must look like one. An SSH worker thread cannot be stopped when its task
is. The device restarts in the middle of an update, and answers given before
that arrive after it. The blocking client hands operations of several threads to
one loop, and Ctrl-C takes a thread away from an operation the loop still runs.

What makes each part correct: an account never sees or loses another account's
session; no connection or lock is forgotten; the device's idea of the input is
the client's; an upload is whole or cleaned away; no transport or thread leaks;
a signaling caller gets one complete answer with every candidate after it; an
update is reported done only when another version runs; a blocking call ends, and
a closed client has nothing open.

## 2. Modules

Each action is the code between two awaits. A task's `pc` says where it is
suspended and `loc` holds the locals of its operation. Operations that run
without suspending (an uncontended `async with lock`, a `close` of something
closed) are part of the action before them: `Clear`, `GetWsSection` and
`InvalidateSection` are run at once when the lock is free and after a wait when
it is not. Definitions such as `Current_Unchecked` are the mutants that
`PROJECT.json` names; no specification uses them. The proofs about a module `M`
are in `MProofs`; `Queues` has the lemmas about queues that they share.

**Session** models `SessionController`. `generation`, `token`, `credentials`,
`mode` (the password obfuscation), `application` (the cached version), `ws` and
`heartbeat` are the fields of that name; a token is the number of the login
that got it, so a version or a connection can be compared with the session it
belongs to. `lock` is `_ws_lock` with its queue. `Authenticate`,
`Reauthenticate`, `Logout`, `Call` (any JSON request), `Input` (`send_ws`),
`ChangePassword`, `Stream` and `Exit` start operations; `ClearSection` is
`clear_local_session`; `LoginAccepted`, `LoginRejected`, `LoginFails`,
`Unauthorized`, `Response`, `Result`, `Connected`, `ConnectFails`, `SendFails`
and others are what an await can end with; `Cancel` is a `CancelledError` at
any of them, with `logout`'s `finally` (`HasFinally`). A login reads the password
mode once, when its clear is done (`ReadMode`). A cookie is its token. An MJPEG stream
stays in the state "result" between frames: `FrameRead` is `mjpeg_stream_bytes`
with its check, `Decoded` the executor and the second check of `mjpeg_stream`,
`Consume` the caller, who asks for another frame, leaves, or wanted only one
(`get_snapshot`).

**SessionRegister** is what the core promises, without generations, locks or
sockets: one register holds the session, requests are bound to the session they
were sent in, only a request of the current session is answered, and only its
rejection ends the session. `Session!Register` is the refinement mapping.

**HidInput** models the held buttons and the path of reports. A report is built
when the call runs (`Build`), waits for the lock (`GetWsEnter`), and reaches the
host in `Sent`, or not in `NoConnection`; `SendFails` stands for a write that
failed before or after the report left. A 401 clears the session before the
operation raises, at once or after a wait for the lock (`DetectDenied`,
`Refused`, `Rejected`). `Undo` is `mouse_down`'s `except`, `CancelHold` the
`finally` of a click or a tap. Any number of tasks may press at once, the same
button or different ones. `host` is what the controlled machine has seen. The
history variables say of each held button which report put it there (`since`),
which press of it returned last (`held`), whether only clicks pressed it
(`clicked`), and whether the code has failed to let go of it in one of two known
ways: its press failed and found the held buttons changed, so that it was not
taken back (`kept`), or its click's release failed or was cancelled while it
asked for the version again (`unreleased`).

**ImageUpload** models `upload_image` on a Pro (chunks) and elsewhere (one
stream). `files` is what the device stores of an image; `DeviceHandles` is the
device acting on a request that is waited for, which may still fail afterwards.
A request that is given up before that goes astray: `StrayHandled` lets the
device act on it at any later time, `StrayLost` never. `Started` and `Raise` are
the cleanup's condition and its shielded delete, which outlives a second
cancellation the same way. Each upload's locals carry history: the chunk whose
request it gave up (`abandoned`), that the device had not acted on the cleanup
when it ended (`lost`), and that a stray request changed its file while it ran
(`disturbed`).

**SSHClient** models the tasks and their worker threads: `Begin`, `Exec`,
`NameChannel`, `Check`, `ReadEnds` are the thread's steps between which the loop
may run `StopCommand` (timeout or cancellation). `CloseAfterConnect` is the done
callback that a cancelled login leaves behind. `_state_lock` guards code without
an await, so what it guards is one step. **SSHRegister** is what the client
promises, without generations, threads or transports: the login in use, the one
login that can still succeed, and the login each task's command runs on.
`SSHClient!Register` is the refinement mapping.

**WebRTC** models a signaling session and a device that sends anything in any
order; `TakeAnswer`, `TakeCandidate` and `Flush` are one iteration of `_events`.
**ProOffer** has the mapping of candidates between the media sections of the
caller's offer and the Pro's two peers, in both directions.

**Update** models an install through the restart of the device, whose installed
and running versions and boots it keeps. Session transitions are one step there,
and in place of generations `current` holds the requests made in the present
one. `UpdateApplication` is the update without the wait, over the network or
from a local package. The update request can break in three ways (`Breaks`): the
server disconnects, a proxy answers 502, or anything else. `Excused` takes the
first for success on firmware that drops the connection and the second from
2.5.1 on, as the two `except` clauses do; every other break is raised. What the
restart itself makes of the request depends on the firmware (`RestartBreak`).
**Versions** compares versions as `_version_at_least` does
and has the gates: `ApplicationVersionAtLeast` is
`application_version_at_least`, which may have to ask the device for its
hardware or version first, and `RequireHardware` the two decorators.
**PointerReports** computes the bytes of a mouse report.

**SyncClient** models the application's threads and the loop's thread. `ops` are
the coroutines given to `run()`; `ready` is the loop's callback queue, in which
`run_coroutine_threadsafe`, `future.cancel()` and `loop.stop` put their
callbacks in the order they are called. `Submit`, `Return`, `Interrupt` and
`Joined` are the steps of `run` and `_stop`; `RunReady`, `Finish` and `Collect`
those of the loop; `Reenter` is a callback of an operation that calls the
client. `streams` are asynchronous generators: one that waits at a yield is
"suspended". The operations themselves are opaque here; Session and the other
modules have their insides.

`MCSession`, `MCHidInput`, `MCImageUpload`, `MCSSHClient`, `MCWebRTC`, `MCUpdate`
and `MCSyncClient` give instances. The algorithm modules PointerReports, ProOffer
and Versions have no variables; each also says what a correct result is, in terms
of its own constants (`Halves`, `Mids`, `Minimums` and bounds on the inputs), and
the component that uses it extends it. TLC evaluates that part for the bounded
inputs of the instance.

## 3. Runs

| Run | Instance | Shows |
|---|---|---|
| `session` | 3 tasks, 3 operations, 1 cancellation | one session per generation, no rival logins, state owned by its session, no orphaned connection or heartbeat and nothing left after exit, late 401s, results and frames harmless, a failed login drops the old account |
| `session_live` | 2 tasks, 3 operations, older firmware, token "disabled", caller's HTTP session | every operation ends; refinement of SessionRegister |
| `session_logout` | 3 tasks, 4 operations | **violated**: finding 1 |
| `input` | 2 tasks, 2 buttons, 3 operations, 1 cancellation, 1 firmware update; 2,202 pointer values around every limit | held buttons through concurrent presses, releases and sessions, and their order at the host; report bytes say what they were built from |
| `input_drag` | 2 tasks, 1 button, 2 operations | **violated**: finding 2 |
| `input_tap` | 2 tasks, 1 `key_tap`, 1 cancellation | **violated**: finding 3 |
| `upload` | 2 uploads of one image of 2 chunks, 2 cancellations, 2 logins or logouts | uploads do not mix, clean up all but a chunk they gave up, report honestly, end, while given-up requests reach the device late |
| `upload_session` | the same without cancellations | **violated**: finding 4 |
| `ssh` | 2 tasks, 4 operations, 1 cancellation or timeout, 1 broken transport | no leak, newest change wins, worker threads end once cut or given up with an open channel; refinement of SSHRegister, in which a failed command drops its own client only |
| `webrtc` | 2 kinds, 3 messages from the device; offers of up to 3 sections | merged answer, order of candidates, heartbeat failure; candidates find their peer and come back |
| `update` | 2 installs or updates, 2 faults, 3 operations of other tasks; versions of 1 to 3 numbers up to 3 | follows the restart, succeeds through the break of its own firmware when nothing else disturbs it, stale versions; gates decide as versions are ordered |
| `sync` | 2 threads, 3 calls, 1 Ctrl-C | calls end, interrupted operations are cancelled before later ones, nothing stays open |

Bounds. The races of the session core are between one transition, one operation
it overtakes and one that overtakes it, which is three operations by three
tasks; a fourth operation matters only for finding 1, where an input must hold
the lock. The lock is FIFO, so more tasks only lengthen the queue. Two buttons
tell a button from another one held beside it. Two chunks have a first and a
last one; an image name shared by two uploads is where they can meet. Four SSH
operations are two logins, a disconnect and a command between them. Three
messages are an answer for each kind and a candidate before, between or after
them. Two versions, and a second install, are the update before and after a
restart. Three calls of two threads are a stream's step, its loop left early and
a close, or a call under each of them; one interrupt hits any of these, and a
second one only the unwinding of the first. Version numbers up to 3 and pointer values on both sides of every
cut-off contain every comparison the code makes. All of these are CONSTANTS
(`MaxOps`, `MaxCancels`, `MaxForgets`, `MaxTransitions`, `MaxBreaks`,
`MaxMessages`, `MaxInstalls`, `MaxFaults`, `MaxOthers`, `MaxCalls`,
`MaxInterrupts`, which appear only in guards, and `MaxPart`, `MaxSections`,
`Halves`, `Mids` and `Minimums`, the inputs of algorithms). Deadlock is not checked in the models
of processes: when their operations are used up they are meant to stop, and a
task that is stuck before that is what the liveness properties look for.

What the properties leave out, each by name: a client that was left is not called
again; a signaling session makes one offer. `UnsentPressNeverDrags` and
`ClickLeavesNoButton` leave out `kept` buttons, and the second one `unreleased`
ones; `HeldPressesStay` leaves out a press of the same button and session that
was built earlier and fails later (`LetGo`). `FailedUploadCleansUp` allows the one
`abandoned` chunk and leaves out a `lost` cleanup; `UploadIsWhole` leaves out
`disturbed` uploads, and `NoSilentOverwrite` the stray requests themselves. The
first four are the code's own failures, findings 6 to 9; a stray request is the
network's, and the lock of an upload cannot wait for it. `GivenUpCommandsEnd`
leaves out a worker that the device has never answered `exec_command`, while its
connection stays. In SyncClient, `cut` marks behaviours in which Ctrl-C hit the constructor or `close`, and
`overlap` those in which a thread closed the client while another one used it:
what goes wrong then is listed under the observations. The live run of Session
has no streams (`EndingOperations`): a stream that is watched need not end.

Fairness. `Session` and `HidInput` are safety models under `Spec`. `FairSpec`
of HidInput lets a running operation go on and says nothing of devices; that
of Session is weakly fair to `Continue` and `Reply` of each task: the event loop
runs what is ready, asyncio's lock is FIFO, and each request has a total timeout
(`_request_timeout`); cancellations, peers that close and new calls are never
forced. `ImageUpload` is fair to a running upload, whose requests have
socket timeouts. `SSHClient` is fair to each task (`Resume`), to the two steps of
a worker that do not wait (`NameChannel`, `Check`), and to `exec_command` and to
reading only once the channel or its transport is closed (`Cut`): both wait
without a timeout (`ssh_client.py:350`), so a command need not end by itself, nor
its thread if the device never answers. Nor is a worker forced to begin, since
such threads may occupy the executor. `WebRTC` is fair to the
caller's iteration, not to the device. `Update` is fair to the install's own
steps and to a device that stops for an update and starts again; nothing is
assumed of the deadline, so `InstallFollowsRestart` does not hold because of it.
`SyncClient` is fair to each thread's `run`, to the loop's callbacks and to the
operations, whose requests have timeouts; the application need not call.

## 4. Findings

1. *Logout does not end a reauthenticate* (`session_logout`). `reauthenticate`
   reads the kept credentials, then waits for the lock. A logout called after it
   returns without an error, superseded by the clear of the login, which goes on
   and logs in. `docs/connecting.md:47` says that logging out drops them.
2. *An unsent press turns another task's movement into a drag* (`input_drag`):
   the movement is built while the press is still failing. `mouse.py:153` and
   `tests/test_mouse.py:436` mean to exclude it; the test makes the two calls one
   after the other. `UnsentPressNeverDrags` is the part that holds.
3. *A cancelled `key_tap` can leave its key held* (`input_tap`).
   `docs/api.md:113` says that it "still releases when it is cancelled"; the
   `try` begins only after `key_down` has returned (`hid.py:189-194`), so a
   cancellation while the report is written, or while the release waits for its
   connection, has no release.
4. *An upload survives a login* (`upload_session`): each of its requests takes
   the session of its moment, against `docs/connecting.md:52`.
5. *An older firmware's password change keeps the session*, read off the code
   (`session.py:591-611`) without a run: `docs/connecting.md:69` says that a
   successful change clears it.
6. *Two failing presses leave a button held.* Of two presses of different buttons
   in flight at once, the one built first fails, finds the held buttons changed
   by the second, and stays; the second one fails and restores what it found,
   which has the first one's button in it (`mouse.py:155-158`). `mouse.py:153`
   means to exclude it.
7. *A failing press takes back another one.* The check in `mouse.py:155-158`
   compares values, so a press cannot see that the same button was pressed
   again meanwhile: built first and failing last, it lets go of a button whose
   second press has returned, against `mouse.py:154`.
8. *A click's release can fail before it begins.* `mouse_up` may have to ask for
   the version first (`mouse.py:168`), after a firmware update for example; when
   that fails or is cancelled the button stays held, against `mouse.py:202`.
9. *A failed Pro upload can leave part of an image.* A chunk whose request timed
   out or was cancelled may be stored after the cleanup's delete; and the delete
   is never sent without a token, or to firmware that `delete_image` does not
   support (`storage.py:422`). `docs/api.md:213` says that neither copy is left.

Findings 6 to 9 have no run of their own. The runs `input` and `upload` show that
what they describe is the only way in which the properties fail: without `kept`
TLC finds `UnsentPressNeverDrags` violated, without `unreleased`
`ClickLeavesNoButton`, without the last disjunct of `LetGo` `HeldPressesStay`, and
without `abandoned` or `lost` `FailedUploadCleansUp`.

Observed without a run, because the documentation promises nothing, or the
property excludes it by name: a click on firmware without the binary
protocol that starts while a login is under way, whose press is built as a binary
one because the version is not known then, and whose release, once it is known,
is a legacy one that leaves the button in `_mouse_buttons` (with three tasks,
one button and `Binary = FALSE` TLC finds `ClickLeavesNoButton` violated so); an
upload cleanup cancelled a second time, which releases the lock while its
shielded delete still runs; an SSH command that was given up while `exec_command`
waits for the device, whose worker thread waits on until the transport is closed;
a client left with a caller's own HTTP session while a
login is under way, which keeps that login's credentials; a second offer on a
Pro's session; messages that were received but not read when a heartbeat fails;
`WebRTCSignaling.close()` taking a cancellation of its own task for that of the
heartbeat it awaits (`webrtc.py:113-115`); an install that fails because another
task logged in at the same time; `close()` of the blocking client while another
thread's `run()` polls, which then polls for ever if the loop stops first
(`sync_client.py:88, 197`); Ctrl-C during `close()` or at the end of the
constructor, after which the loop stops without closing streams and HTTP session
and a repeated `close()` does nothing (`sync_client.py:192-199`).

## 5. Proofs

TLAPS proves every safety property of the passing runs: all their type
invariants, invariants and action properties, and the refinements of
SessionRegister and SSHRegister. A theorem `XThm` states the property `X` of its
module, for every value of the constants. The module's assumption
(`SessionAssumption` and its like: bounds are natural numbers, switches are
BOOLEAN, `Main` is a thread, an image has a chunk, pointer values are integers, a
missing mid is no mid, minimums are versions) is all that is assumed, but for
`Binary = TRUE` in three theorems of HidInput. TLC checked each inductive invariant on the
module's instance before it was proved. `ReaderIsCutThm` and `WokenThm` state no property
of a run: they are the safety halves of liveness properties, what must hold at every moment for the fair steps to get there. TLC checked both
on the instances of their runs first.

Each proof has the same shape: an inductive invariant, `Init => IInv`, one lemma
for each action or phase, `NextIInv` which puts them together, and the theorem
`Inductive`; the properties follow from it, the action properties from it and
one step. What makes a proof short is a lemma that says what a step of one task
has to show for itself so that the invariant holds of all (`LocalStep`, `LockStep`
and `TaskLinked` in Session, `TurnKept`, `TurnPressed`, `TurnSettled` and `TurnOwned`
in HidInput, `MovedKeepsIInv` in ImageUpload).

**Queues.** Locks are FIFO queues without duplicates: joining at the end, leaving
from the front and giving up in the middle keep them so and keep the order of the
others. The loop's queue of SyncClient has duplicates; there the facts are that a
callback occurs once (`Once`) and that every occurrence of one has another ahead
of it (`Guarded`), and what an append (`Gains`) and a removal (`Loses`) do to them.

**Session**, in three parts. `GenerationNamesSession` and `LoginHasNoRival` are
not inductive: a request that is about to be sent after a clear, a task that
waits for the lock with a token, and a login that still closes the old WebSocket
all matter before they are in the states the invariants speak of. `IInv` adds
what a suspended task knows (`Good`): its generation is not in the future; only
logins wait to post, and only other operations hold a token; a task that holds a
token of the current generation holds the current one; a login that is still
pending in the current generation finds no token, and there is one such
(`OnePending`). A clear makes every other task's generation old, so it cannot
falsify anything about them. `ResultsStayInSessionThm`, which covers frames of a
stream as well, and `LateRejectionIsHarmlessThm` follow. The second invariant,
`SInv`, is about what the tasks share: the lock's queue has exactly the tasks
that hold it or wait for it and its head is the only one in a guarded section
(`Locked`); each open connection is the cached one or belongs to the task that
opens or closes it (`Connection`, `Linked`). It needs the first one, and gives
`TypeOKThm`, `SessionOwnsStateThm`, `NoOrphanConnectionThm` and
`FailedLoginDropsOldAccountThm`. With both, `ImplementsRegisterThm` takes each
step of Session to a step of SessionRegister or a stutter, with one lemma per
phase (`BeginRegister` to `CancelRegister`).

**HidInput**, in four parts. Every step but those of a firmware update is a turn
of one task, and takes one of few forms (`Turn`: it builds a report, asks for the
version, waits, clears the session, passes on, fails, gives up before its report,
or returns); `StepIsTurn` is proved once and the later parts look at the forms only. That reports keep their order,
`InputArrivesInOrderThm`, follows from an invariant that relates the lock's queue to
the reports of the tasks in it: who is ahead has the older report, and the host's
is older than all. `HeldPressesStayThm` rests on `PressInv`: a press in flight,
however many others there are, knows as `previous` every button that was pressed
before its report, and the button it put there itself belongs to its session. So
what it takes back was pressed after it, which only another press of its own
button can hide from it (`LetGo`). `UnsentPressNeverDragsThm` and
`ClickLeavesNoButtonThm` assume `Binary = TRUE`: a legacy report says less than
what is held, and TLC has a counterexample to the second without it (see the
observations). `SettleInv` says that every report under way that is not older than
the press of a held button repeats it, and that the host has it, or a press that
brings it is still in flight, or it is `kept`. `OwnInv` says that a button that
only clicks hold, neither `kept` nor `unreleased`, has a click at work whose
report put it there. Nothing is assumed of how the application calls.

**ImageUpload.** The queue of the transfer lock has exactly the running uploads,
and only its head works; an upload knows what the device can have of it at each
point (`Clean`, `Alone`): nothing before its first chunk, and after its cleanup
at most the chunk it gave up; between them the chunks it sent. A stray chunk is
always its upload's abandoned one (`Wandering`), so `FailedUploadCleansUpThm` holds
at whatever time the device acts on one. It needs no other assumption than the
property's own, that the device acted on the cleanup before it ended.
`UploadIsWholeThm` and `NoSilentOverwriteThm` are for uploads that no stray request
has disturbed, as the properties say.

**SSHClient.** A transport is open only if it is the current client's or has a
login that answers for it (`Owned`); a login that may still be installed is newer
than every change and the only one of its generation (`Latest`), which no step of
another task or thread can change without taking the generation away.
`ImplementsRegisterThm` takes each step to one of SSHRegister or a stutter, with
the set of such logins as the register's `login`. That the set has one member at
most is what `Latest` says, so a second login takes the first one's chance at the
moment it begins, whichever thread ends first; a command keeps the login it began
on, and a failed one takes down that login or none (of the concrete step,
`FailureDropsItsOwnClientThm` says so directly). `ReaderIsCutThm` is about the
race between a thread that opens its channel and the loop that gives the command
up (`GivenUpCommandsEnd`): the thread names the channel before it looks at the
flag, and the loop sets the flag before it looks for the name, so that one of
them sees the other (`NamedFirst`), and no worker reads for a given-up command
from a channel that nobody will close.

**WebRTC.** What was delivered, held back and not yet read are three queues in
which the message numbers ascend from each to the next; a candidate of an offered
kind is in one of them (`Kept`), and a Pro's session delivers nothing before the
answers are complete (`Holding`). `CandidatesKeepOrderThm` is for any number of
messages in any order, `AnswerIsCompleteThm` for any set of kinds.

**Update.** A boot runs the version its number names, a token names the boot that
issued it, and the answer of another task's request has the version of the boot
whose token it carried (`Detecting`); so what is cached under a token that the
running server accepts is its version.

**SyncClient.** `Matched` says where each operation is in terms of the loop's
queue. `InterruptComesFirst` alone is not inductive, since all depends on the
queue's order before anything runs: `Sorted` says that for two operations of one
thread of which the first was interrupted, the first one's start is ahead of the
second's, and its cancellation ahead of the second's first step. It holds because
a thread submits only after it has left, and leaving puts the cancellation in the
queue first. `NothingStaysOpen` needs who waits for what (`Callers`), that the
constructor is alone (`Built`), that a stream has one operation at a time
(`Streaming`), and, unless `cut` or `overlap`, that one thread closes while
nothing else runs, and that from then on nothing new can start (`Quiet`).
`WokenThm` says that no thread is forgotten, which is what `CallsEnd` needs at
every moment: the operation a thread waits for has ended, has its next step under
way, or waits ahead in the queue of a loop that runs; and a thread that joins the
loop has its stop ahead. That the loop still runs is the part `IInv` lacks:
`Stopped` says that a stop is in the queue only after `close`, and that by then
no other thread waits, unless it used the client meanwhile (`overlap`).

**Algorithms.** What TLC evaluates over the bounded inputs of an instance is
proved for every value of the constants, as an invariant of the component that
uses it. `ReportsKeepTheirValueThm` is for any set of integers.
`CandidatesFindTheirPeerThm` is for offers of any length and any mids; either
every section has a mid of its own, as SDP asks for, or none has one and each has
its number. `GatesFollowVersionOrderThm` is for numbers of any size, three to a
release at most: a release is read as one number in base `MaxPart + 1`
(`TwoDigits`, `ThreeDigits`, `NumbersOrderReleases`). `VersionsAreOrdered` goes
beyond that and says that comparison is an order on releases of any length: a
release at least as new as another equals it up to trailing zeros or exceeds it at
the first difference (`ComparesParts`), and a first difference exists because
every set of natural numbers has a smallest member. `VersionGateAsksTheDevice`
and `HardwareGateAsksTheDevice` say for any versions that what a client has cached
does not change what a gate decides, where its caches agree with its device.

Only model-checked: all liveness properties, since the prover does not treat
fairness, and the violated properties of the findings.

## 6. Not modelled

- Single requests of the other controllers, models, utilities, TLS and
  fingerprints: no state of their own, or only input and output.
- `watch_image_download`, a polling loop without state, and the two calls that
  read a device's settings and write them back (`system.py:334-364`): nothing in
  the client relates their requests, and the hazard list names the lost update.
- `open_ws`, the text of SDP, the Pro's rejected media sections, a second offer.
- The insides of operations in SyncClient; `__getattr__`, `__setattr__` and
  `__dir__`, which choose what `run()` is given; `shutdown_default_executor`
  (`sync_client.py:190`), by which `close()` also waits for worker threads that are
  still busy; and a Ctrl-C between `run_coroutine_threadsafe` and the `try`
  (`sync_client.py:86-87`), which leaves an operation that nobody cancels:
  `Interrupt` hits a thread that waits.
- The bytes of an upload's chunks (`storage.py:296-304`), and images that another
  client of the device changes meanwhile.
- What a device does beyond its answers, sessions, files and versions.

## 7. Plan

Order: the session core first, since everything else depends on its
generations; then the parts that break its simplicity (input, uploads, updates);
then the clients that have a concurrency of their own (SSH, WebRTC); the
algorithms and the blocking client last. That is done, with the MJPEG stream in
Session, the offline update in Update, and the gates in Versions. Left:

1. **WebRTC** with several offers; **ProOffer** with rejected sections and the
   merged answer.
2. `watch_image_download` as a long operation of Session.
3. **Legacy input** (`Binary = FALSE`) as an instance of HidInput.

With these come their proofs; of what is modelled now, only liveness is left to TLC.
