------------------------------ MODULE ImageUpload ------------------------------
(* upload_image: nanokvm/components/storage.py.                             *)
(*                                                                          *)
(* Uploads of one client hold _image_transfer_lock from their preflight to  *)
(* their cleanup, and make one request after another. Meanwhile the         *)
(* application may log in again, cancel an upload, or another upload may    *)
(* wait. A request reaches the device at some point before it is answered.  *)
(* It may fail before or after that; one that fails before, or is given up, *)
(* goes astray: the device may still act on it, at any time, or never. A    *)
(* file is what the device holds of it: the set of <<upload, chunk>> it     *)
(* stored, where upload 0 is an image that was there before.                *)
EXTENDS Naturals, Sequences, SequencesExt

CONSTANTS Tasks,           \* the asyncio tasks that use the client
          Names,           \* image names
          Chunks,          \* chunks of an image
          MaxOps,          \* bound: uploads started in a behaviour
          MaxCancels,      \* bound: cancellations of a running upload
          MaxTransitions   \* bound: logins and logouts

ASSUME ImageUploadAssumption ==
  {MaxOps, MaxCancels, MaxTransitions} \subseteq Nat /\ Chunks \in Nat \ {0}

VARIABLES
  pro,          \* the hardware family: chunks on Pro, one stream else
  generation,   \* _session_generation
  token,        \* whether _token is set
  lock,         \* _image_transfer_lock: the holder, then the waiters in order
  files,        \* name -> the <<upload, chunk>> pairs the device stores
  astray,       \* requests that nobody waits for any more
  pc,           \* where each task is suspended
  loc,          \* the locals of each task's upload
  started,      \* uploads started so far
  cancelled,    \* cancellations so far
  transitions   \* logins and logouts so far

vars == <<pro, generation, token, lock, files, astray, pc, loc, started, cancelled, transitions>>
session == <<generation, token>>
bounds == <<pro, started, cancelled, transitions>>

Ended == {"new", "ok", "failed"}
Changes == {"delete", "send", "cleanup"}
Requests == Changes \cup {"list"}
PCs == Ended \cup Requests \cup {"queued", "local"}

Image(n) == {<<n, i>> : i \in 1..Chunks}

(* begun is the generation of the first request, gen that of the latest;    *)
(* sent counts the chunks the device accepted, progress those reported;     *)
(* handled: the device has acted on the request that is under way. The rest *)
(* is history. abandoned is the chunk whose request went astray, or 0;      *)
(* lost: the cleanup was not handled by its end, or was never sent;         *)
(* disturbed: a request that had gone astray changed the file meanwhile.    *)
Frame(n, name, overwrite) ==
  [n |-> n, name |-> name, overwrite |-> overwrite, begun |-> generation, gen |-> generation,
   sent |-> 0, progress |-> 0, started |-> FALSE, handled |-> FALSE,
   abandoned |-> 0, lost |-> FALSE, disturbed |-> FALSE]

Locals == [n : Nat, name : Names, overwrite : BOOLEAN, begun : Nat, gen : Nat, sent : 0..Chunks,
           progress : 0..Chunks, started : BOOLEAN, handled : BOOLEAN,
           abandoned : 0..Chunks, lost : BOOLEAN, disturbed : BOOLEAN]

(* What the device is asked to change.                                      *)
Orders == [what : Changes, name : Names, n : Nat, chunk : 0..Chunks]

Init ==
  /\ pro \in BOOLEAN /\ generation = 0 /\ token = TRUE
  /\ lock = <<>> /\ astray = {}
  /\ files \in [Names -> {{}, Image(0)}]
  /\ pc = [t \in Tasks |-> "new"]
  /\ \E name \in Names : loc = [t \in Tasks |-> Frame(0, name, FALSE)]
  /\ started = 0 /\ cancelled = 0 /\ transitions = 0

Goto(t, l, at) ==
  /\ pc' = [pc EXCEPT ![t] = at]
  /\ loc' = [loc EXCEPT ![t] = l]

(* The upload returns or raises: it leaves the lock, or the queue for it. *)
End_KeepsLock(t, l, at) == Goto(t, l, at) /\ UNCHANGED lock
End(t, l, at) ==
  /\ Goto(t, l, at)
  /\ lock' = RemoveFirst(lock, t)

--------------------------------------------------------------------------------
(* What task t waits for; and its end without an answer. A name that ends   *)
(* in a bug, such as Started_AfterAnswer, is a mutant of the definition     *)
(* that follows it.                                                         *)

Order(t) == [what |-> pc[t], name |-> loc[t].name, n |-> loc[t].n,
             chunk |-> IF pc[t] = "send" THEN loc[t].sent + 1 ELSE 0]

Unhandled(t) == pc[t] \in Changes /\ ~loc[t].handled

GoesAstray(t) == astray' = astray \cup {o \in {Order(t)} : Unhandled(t)}

Abandon(t) ==
  [loc[t] EXCEPT !.abandoned = IF Unhandled(t) /\ pc[t] = "send" THEN loc[t].sent + 1 ELSE @]

Started_AfterAnswer(l) == l.sent > 0
Started(l) == l.started

(* The except clause: once a chunk may have been stored, delete the image,  *)
(* in a task that a second cancellation does not reach. A request takes the *)
(* session it finds; without a token it is not sent.                        *)
Raise(t, l) ==
  \/ /\ pro /\ Started(l) /\ token
     /\ Goto(t, [l EXCEPT !.gen = generation, !.handled = FALSE], "cleanup")
     /\ UNCHANGED lock
  \/ /\ pro /\ Started(l) /\ ~token
     /\ End(t, [l EXCEPT !.lost = TRUE], "failed")
  \/ /\ ~pro \/ ~Started(l)
     /\ End(t, l, "failed")

Request(t, l, at) ==
  \/ /\ token
     /\ Goto(t, [l EXCEPT !.gen = generation, !.handled = FALSE], at)
     /\ UNCHANGED lock
  \/ ~token /\ Raise(t, l)

--------------------------------------------------------------------------------
(* An upload waits for the lock before it even looks at the file. *)
Upload(t, name, overwrite) ==
  /\ pc[t] \in Ended /\ started < MaxOps
  /\ started' = started + 1
  /\ Goto(t, Frame(started + 1, name, overwrite), "queued")
  /\ lock' = Append(lock, t)
  /\ UNCHANGED <<pro, session, files, astray, cancelled, transitions>>

MayEnter_Always(t) == TRUE
MayEnter(t) == Head(lock) = t

Enter(t) ==
  /\ pc[t] = "queued" /\ MayEnter(t)
  /\ \/ Request(t, [loc[t] EXCEPT !.begun = generation], "list")
     \/ End(t, loc[t], "failed")       \* the file, its name or the firmware does not do
  /\ UNCHANGED <<session, files, astray, bounds>>

Conflict_Never(l) == FALSE
Conflict(l) == files[l.name] # {} /\ ~l.overwrite

(* The answer is taken only in the session that asked. get_images lists the *)
(* names that were there when the device handled it.                        *)
Listed(t) ==
  /\ pc[t] = "list" /\ loc[t].gen = generation
  /\ \/ /\ Conflict(loc[t])
        /\ End(t, loc[t], "failed")
     \/ /\ ~Conflict(loc[t]) /\ pro /\ files[loc[t].name] # {}
        /\ Request(t, loc[t], "delete")
     \/ /\ ~Conflict(loc[t]) /\ (~pro \/ files[loc[t].name] = {})
        /\ Goto(t, loc[t], "local") /\ UNCHANGED lock
  /\ UNCHANGED <<session, files, astray, bounds>>

Deleted(t) ==
  /\ pc[t] = "delete" /\ loc[t].handled /\ loc[t].gen = generation
  /\ Goto(t, loc[t], "local")
  /\ UNCHANGED <<session, lock, files, astray, bounds>>

Uploaded(l) == l.sent = Chunks

(* Between two requests: the progress callback, and the file is read. After *)
(* the last chunk nothing is left to do.                                    *)
LocalDone(t) ==
  /\ pc[t] = "local"
  /\ LET l == [loc[t] EXCEPT !.progress = loc[t].sent]
     IN \/ Uploaded(l) /\ End(t, l, "ok")
        \/ ~Uploaded(l) /\ Request(t, [l EXCEPT !.started = TRUE], "send")
  /\ UNCHANGED <<session, files, astray, bounds>>

(* The callback raises, or the file changed while it was being uploaded. *)
LocalFails(t) ==
  /\ pc[t] = "local"
  /\ Raise(t, loc[t])
  /\ UNCHANGED <<session, files, astray, bounds>>

Reported_Early(l) == [l EXCEPT !.progress = @ + 1]
Reported(l) == IF l.progress + 1 < Chunks THEN [l EXCEPT !.progress = @ + 1] ELSE l

(* The stream reports what it wrote, and leaves 100% to the answer. *)
StreamProgress(t) ==
  /\ pc[t] = "send" /\ ~pro /\ loc[t].progress < Chunks
  /\ Goto(t, Reported(loc[t]), "send")
  /\ UNCHANGED <<session, lock, files, astray, bounds>>

SendDone(t) ==
  /\ pc[t] = "send" /\ loc[t].handled /\ loc[t].gen = generation
  /\ Goto(t, [loc[t] EXCEPT !.sent = IF pro THEN @ + 1 ELSE Chunks], "local")
  /\ UNCHANGED <<session, lock, files, astray, bounds>>

(* An error, a timeout, or an answer to a session that is gone. *)
RequestFails(t) ==
  /\ pc[t] \in {"list", "delete", "send"}
  /\ Raise(t, Abandon(t))
  /\ GoesAstray(t)
  /\ UNCHANGED <<session, files, bounds>>

(* The cleanup ends; whatever it raised is suppressed: an error or a        *)
(* timeout of the request, or of delete_image's version gate before it.     *)
CleanupEnds(t) ==
  /\ pc[t] = "cleanup"
  /\ End(t, [loc[t] EXCEPT !.lost = ~loc[t].handled], "failed")
  /\ GoesAstray(t)
  /\ UNCHANGED <<session, files, bounds>>

(* A cancellation at an await raises there; one during the cleanup leaves   *)
(* the delete running by itself.                                            *)
Cancel(t) ==
  /\ pc[t] \notin Ended /\ cancelled < MaxCancels
  /\ cancelled' = cancelled + 1
  /\ \/ pc[t] = "queued" /\ End(t, loc[t], "failed")
     \/ pc[t] \in {"list", "delete", "local", "send"} /\ Raise(t, Abandon(t))
     \/ pc[t] = "cleanup" /\ End(t, [loc[t] EXCEPT !.lost = ~loc[t].handled], "failed")
  /\ GoesAstray(t)
  /\ UNCHANGED <<pro, session, files, started, transitions>>

--------------------------------------------------------------------------------
(* The device (external). Chunk 1 starts the file anew. *)
Store(content, o) ==
  CASE ~pro -> Image(o.n)
    [] pro /\ o.chunk = 1 -> {<<o.n, 1>>}
    [] OTHER -> content \cup {<<o.n, o.chunk>>}

Handle(o) ==
  files' = [files EXCEPT ![o.name] = IF o.what = "send" THEN Store(@, o) ELSE {}]

DeviceHandles(t) ==
  /\ Unhandled(t)
  /\ Handle(Order(t))
  /\ loc' = [loc EXCEPT ![t].handled = TRUE]
  /\ UNCHANGED <<session, lock, astray, pc, bounds>>

Working(t) == pc[t] \in Requests \cup {"local"}

StrayHandled(o) ==
  /\ astray' = astray \ {o}
  /\ Handle(o)
  /\ loc' = [t \in Tasks |-> IF Working(t) /\ loc[t].name = o.name
                             THEN [loc[t] EXCEPT !.disturbed = TRUE] ELSE loc[t]]
  /\ UNCHANGED <<session, lock, pc, bounds>>

StrayLost(o) ==
  /\ astray' = astray \ {o}
  /\ UNCHANGED <<session, lock, files, pc, loc, bounds>>

(* Another task logs out or in. (A request the device answers with 401      *)
(* clears the session as Logout does.)                                      *)
Logout ==
  /\ transitions < MaxTransitions /\ token
  /\ transitions' = transitions + 1
  /\ generation' = generation + 1 /\ token' = FALSE
  /\ UNCHANGED <<pro, lock, files, astray, pc, loc, started, cancelled>>

Login ==
  /\ transitions < MaxTransitions /\ ~token
  /\ transitions' = transitions + 1
  /\ token' = TRUE
  /\ UNCHANGED <<pro, generation, lock, files, astray, pc, loc, started, cancelled>>

Continue(t) ==
  \/ Enter(t) \/ Listed(t) \/ Deleted(t) \/ LocalDone(t) \/ LocalFails(t)
  \/ SendDone(t) \/ RequestFails(t) \/ CleanupEnds(t)

Next ==
  \/ \E t \in Tasks :
       \/ \E name \in Names, overwrite \in BOOLEAN : Upload(t, name, overwrite)
       \/ Continue(t) \/ StreamProgress(t) \/ Cancel(t) \/ DeviceHandles(t)
  \/ \E o \in astray : StrayHandled(o) \/ StrayLost(o)
  \/ Logout \/ Login

Spec == Init /\ [][Next]_vars

(* Socket timeouts end every request, and callbacks and reads return. *)
FairSpec == Spec /\ \A t \in Tasks : WF_vars(Continue(t))

--------------------------------------------------------------------------------
(* Properties. *)

(* Every variable holds what its declaration says; in particular no upload  *)
(* sends or reports more chunks than its image has. A second upload waits   *)
(* for preflight, transfer and cleanup of the first                         *)
(* (test_image_transfers.py:806).                                           *)
OneUploadAtATime == \A t, u \in Tasks : Working(t) /\ Working(u) => t = u
TypeOK ==
  /\ generation \in Nat /\ {pro, token} \subseteq BOOLEAN
  /\ lock \in Seq(Tasks)
  /\ files \in [Names -> SUBSET (Nat \X (1..Chunks))]
  /\ astray \subseteq Orders
  /\ pc \in [Tasks -> PCs] /\ loc \in [Tasks -> Locals]
  /\ {started, cancelled, transitions} \subseteq Nat
  /\ OneUploadAtATime

(* An upload that returns, or reports 100%, has stored its own image whole: *)
(* nothing of another upload is mixed in, and no chunk is missing. Only a   *)
(* request that went astray earlier, and that the device acts on while the  *)
(* upload runs, can spoil it.                                               *)
Finishes(t) == pc'[t] = "ok" \/ (loc[t].progress < Chunks /\ loc'[t].progress = Chunks)
UploadIsWhole ==
  [][\A t \in Tasks : pc[t] \notin Ended /\ Finishes(t) /\ ~loc[t].disturbed =>
       files[loc[t].name] = Image(loc[t].n)]_vars

(* Only an upload with overwrite touches an image that was complete, be it  *)
(* by deleting it, by replacing it, or by cleaning up after itself. Here    *)
(* too requests that went astray, which the list does not show, are apart.  *)
NoSilentOverwrite ==
  [][\A name \in Names, n \in 0..MaxOps :
       files[name] = Image(n) /\ files'[name] # files[name] /\ astray' = astray =>
         \E t \in Tasks : /\ pc[t] \in Requests /\ loc[t].name = name
                          /\ loc[t].overwrite \/ loc[t].n = n \/ loc[t].disturbed]_vars

(* A failed upload to a Pro leaves no part of its image behind, wherever it *)
(* failed, but for the chunk whose request it gave up: the device may store *)
(* that one after the cleanup. (The cleanup has to reach the device: with   *)
(* no token, with an application delete_image does not support or whose     *)
(* version cannot be asked for, or without an answer, it counts as lost.)   *)
Stored(l) == {i \in 1..Chunks : <<l.n, i>> \in files[l.name]}
FailedUploadCleansUp ==
  \A t \in Tasks : pro /\ pc[t] = "failed" /\ ~loc[t].lost => Stored(loc[t]) \subseteq {loc[t].abandoned}

(* Every upload ends and lets the next one in. *)
EveryUploadEnds == \A t \in Tasks : (pc[t] \notin Ended) ~> (pc[t] \in Ended)

(* docs/connecting.md:52: a login or logout invalidates the operations that *)
(* still run on the old session: no later session carries on with them.     *)
OperationsEndWithSession ==
  [][\A t \in Tasks : pc[t] = "local" /\ pc'[t] = "send" => loc'[t].gen = loc[t].begun]_vars
================================================================================
