--------------------------------- MODULE Update ---------------------------------
(* install_application_update, update_application and                       *)
(* update_application_offline: nanokvm/components/services.py.              *)
(*                                                                          *)
(* The client asks for the update, or uploads a package, which restarts the *)
(* device's server and ends the session. An install then polls until the    *)
(* device runs another version, logging in again with the kept credentials. *)
(* Meanwhile other tasks of the application detect versions, log in or log  *)
(* out on the same client.                                                  *)
(* Versions are 1, the one before the update, and 2. Session transitions    *)
(* are one step here, and instead of generations the model keeps which      *)
(* requests were made in the current one; Session has them in full.         *)
EXTENDS Versions

CONSTANTS MaxInstalls,  \* bound: installs and updates
          MaxFaults,    \* bound: requests that fail although the device is up
          MaxOthers     \* bound: operations of other tasks

ASSUME UpdateAssumption == {MaxInstalls, MaxFaults, MaxOthers} \subseteq Nat

VARIABLES
  contract,     \* the firmware: "old" is non-Pro before 2.5.1, "new" after it, or "pro"
  up,           \* the device's server runs
  running,      \* the version it runs
  installed,    \* the version it starts with the next time
  boot,         \* how often it has started
  current,      \* the requests, "install" or "other", of this _session_generation
  token,        \* _token: 0 is None, else the boot that issued it
  credentials,  \* whether credentials are kept
  application,  \* _application_version: 0 is None
  pc,           \* where the install or update is suspended, or how it ended
  loc,          \* its locals: waits for the restart, previous version, drops_connection,
                \* its request's token, whether
                \* the device has begun to install for it
  other,        \* another task's get_info: its token and the answer
  installs, faults, others   \* so far

vars == <<contract, up, running, installed, boot, current, token, credentials, application,
          pc, loc, other, installs, faults, others>>
device == <<contract, up, running, installed, boot>>
session == <<current, token, credentials, application>>
bounds == <<installs, others>>

Versions == {1, 2}
Asking == {"versions", "contract", "update"}
Polling == {"sleep", "poll", "login"}
Ended == {"new", "ok", "failed", "timeout"}
NoRequest == [tok |-> 0, version |-> 0]

Init ==
  /\ contract \in {"old", "new", "pro"}
  /\ up = TRUE /\ running = 1 /\ installed = 1 /\ boot = 1
  /\ current = {} /\ token = 1 /\ credentials \in BOOLEAN
  /\ application \in {0, 1}
  /\ pc = "new" /\ loc = [waits |-> FALSE, previous |-> 0, drops |-> FALSE, tok |-> 0, taken |-> FALSE]
  /\ other = NoRequest
  /\ installs = 0 /\ faults = 0 /\ others = 0

(* What the device does with a request, and what the client does with the   *)
(* answer: a request carries the token of the generation it was made in.    *)
(* A name that ends in a bug, such as Current_Unchecked, is a mutant of the *)
(* definition that follows it.                                              *)
Accepts(tok) == up /\ tok = boot
Rejects(tok) == up /\ tok # boot
Current_Unchecked(r) == TRUE
Current(r) == r \in current

(* A request may also fail although the device would answer it. *)
Faulty == faults < MaxFaults /\ faults' = faults + 1
Unreachable ==
  \/ ~up /\ UNCHANGED faults
  \/ up /\ Faulty

ClearSession == current' = {} /\ token' = 0 /\ application' = 0

Joins(r) == current' = current \cup {r}
Asked(at) == pc' = at /\ loc' = [loc EXCEPT !.tok = token] /\ Joins("install")
Goes(at) == pc' = at /\ UNCHANGED loc

--------------------------------------------------------------------------------
(* Up to the update request. *)

Starting == pc \in Ended /\ installs < MaxInstalls /\ installs' = installs + 1

Install ==
  /\ Starting
  /\ IF credentials /\ token # 0
      THEN /\ pc' = "versions" /\ loc' = [loc EXCEPT !.waits = TRUE, !.tok = token]
           /\ Joins("install")
      ELSE Goes("failed") /\ UNCHANGED current
  /\ UNCHANGED <<device, token, credentials, application, other, faults, others>>

(* _restarts_before_answering. *)
DropsConnection == contract = "old"

SendUpdate_Forgets(waits) ==
  /\ pc' = "update"
  /\ loc' = [loc EXCEPT !.waits = waits, !.drops = DropsConnection, !.tok = token]
SendUpdate(waits) ==
  /\ pc' = "update"
  /\ loc' = [waits |-> waits, previous |-> running, drops |-> DropsConnection, tok |-> token,
              taken |-> FALSE]

(* update_application, and update_application_offline with a package of     *)
(* version 2, which a Pro does not take: an update without the wait. Local  *)
(* checks of the package come first. (The device runs version 1: another    *)
(* update of the same version would restart it all the same.)               *)
UpdateApplication(offline) ==
  /\ Starting /\ running = 1
  /\ \/ /\ token = 0 \/ (offline /\ contract = "pro")
        /\ Goes("failed") /\ UNCHANGED current
     \/ /\ token # 0 /\ ~(offline /\ contract = "pro")
        /\ IF application # 0 THEN SendUpdate(FALSE)
           ELSE pc' = "contract" /\ loc' = [loc EXCEPT !.waits = FALSE, !.tok = token]
        /\ Joins("install")
  /\ UNCHANGED <<device, token, credentials, application, other, faults, others>>

(* `latest` is empty when the device cannot reach its update server; there  *)
(* is nothing to do when the device runs it. Whether the update will drop   *)
(* the connection depends on the version, cached or asked for.              *)
VersionsAnswered ==
  /\ pc = "versions" /\ Accepts(loc.tok) /\ Current("install")
  /\ \/ Goes("failed")
     \/ running = 2 /\ Goes("ok")
     \/ running = 1 /\ application # 0 /\ SendUpdate(TRUE)
     \/ running = 1 /\ application = 0 /\ Asked("contract")
  /\ UNCHANGED <<device, session, other, bounds, faults>>

ContractKnown ==
  /\ pc = "contract" /\ Accepts(loc.tok) /\ Current("install")
  /\ application' = running /\ SendUpdate(loc.waits)
  /\ UNCHANGED <<device, current, token, credentials, other, bounds, faults>>

Updated == IF loc.waits THEN "sleep" ELSE "ok"

Answered ==
  /\ pc = "update" /\ installed = 2
  /\ Accepts(loc.tok) /\ Current("install")
  /\ application' = 0 /\ Goes(Updated)
  /\ UNCHANGED <<device, current, token, credentials, other, bounds, faults>>

(* How the request can break: the server disconnects, a proxy answers 502   *)
(* for it, or something else, such as a connection reset or a timeout. Old  *)
(* firmware is known by its version before the request, and newer firmware  *)
(* by the one that is still cached after it. (Version 2 is 2.5.1 or later.) *)
Breaks == {"disconnect", "gateway", "other"}
IsRestartGatewayError ==
  \/ contract = "new" /\ application # 0
  \/ contract = "old" /\ application = 2

Excused_Gateway(break) == break = "gateway" /\ IsRestartGatewayError /\ Current("install")
Excused(break) ==
  \/ break = "disconnect" /\ loc.drops
  \/ break = "gateway" /\ IsRestartGatewayError /\ Current("install")

(* The server stopped while it handled the request, and what a client sees  *)
(* of that: on newer firmware the proxy answers for it. *)
Broken == pc = "update" /\ loc.taken /\ (~up \/ running = 2)
RestartBreak == IF contract = "new" THEN "gateway" ELSE "disconnect"

Disconnected(break) ==
  /\ pc = "update"
  /\ \/ Broken /\ break = RestartBreak /\ UNCHANGED faults
     \/ Broken /\ break # RestartBreak /\ Faulty
     \/ ~Broken /\ Unreachable
  /\ \/ Excused(break) /\ application' = 0 /\ Goes(Updated)
     \/ ~Excused(break) /\ Goes("failed") /\ UNCHANGED application
  /\ UNCHANGED <<device, current, token, credentials, other, bounds>>

(* Any other error; a rejected token clears the session as well. *)
AskingFails ==
  /\ pc \in Asking
  /\ \/ /\ \/ Unreachable /\ ~Broken
           \/ ~Current("install") /\ UNCHANGED faults
        /\ UNCHANGED session
     \/ /\ Rejects(loc.tok) /\ Current("install") /\ ~Broken
        /\ ClearSession /\ UNCHANGED <<credentials, faults>>
  /\ Goes("failed")
  /\ UNCHANGED <<device, other, bounds>>

--------------------------------------------------------------------------------
(* _wait_for_new_application. *)

(* reauthenticate: without credentials it raises, and that is not           *)
(* suppressed.                                                              *)
LogInAgain_Never == Goes("sleep")
LogInAgain ==
  \/ ~credentials /\ Goes("failed")
  \/ credentials /\ Goes("login")

(* The request of a login belongs to the generation its clear began.        *)
ClearIf(b) ==
  \/ /\ b
     /\ token' = 0 /\ application' = 0 /\ current' = IF pc' = "login" THEN {"install"} ELSE {}
  \/ ~b /\ UNCHANGED <<current, token, application>>

Slept ==
  /\ pc = "sleep"
  /\ \/ token # 0 /\ Asked("poll") /\ UNCHANGED <<token, application>>
     \/ /\ token = 0 /\ LogInAgain
        /\ ClearIf(credentials)
  /\ UNCHANGED <<device, credentials, other, bounds, faults>>

IsNew(v) == v # loc.previous

PollAnswered ==
  /\ pc = "poll" /\ Accepts(loc.tok) /\ Current("install")
  /\ application' = running
  /\ Goes(IF IsNew(running) THEN "ok" ELSE "sleep")
  /\ UNCHANGED <<device, current, token, credentials, other, bounds, faults>>

(* The restarted server rejects the old token, or another task changed the  *)
(* session. The 401 clears the session, and reauthenticate does so again.   *)
PollRejected ==
  /\ pc = "poll"
  /\ Rejects(loc.tok) \/ ~Current("install")
  /\ LogInAgain
  /\ ClearIf(credentials \/ Current("install"))
  /\ UNCHANGED <<device, credentials, other, bounds, faults>>

PollUnreachable ==
  /\ pc = "poll" /\ Unreachable
  /\ Goes("sleep")
  /\ UNCHANGED <<device, session, other, bounds>>

LoggedIn ==
  /\ pc = "login" /\ up /\ Current("install")
  /\ token' = boot /\ Goes("sleep")
  /\ UNCHANGED <<device, current, credentials, application, other, bounds, faults>>

LoginUnreachable ==
  /\ pc = "login" /\ Unreachable
  /\ Goes("sleep")
  /\ UNCHANGED <<device, session, other, bounds>>

(* The device rejects the credentials, which are dropped, or another task   *)
(* changed the session: both end the wait.                                  *)
LoginRejected ==
  /\ pc = "login" /\ up /\ Current("install")
  /\ credentials' = FALSE /\ Goes("failed")
  /\ UNCHANGED <<device, current, token, application, other, bounds, faults>>

LoginSuperseded ==
  /\ pc = "login" /\ ~Current("install")
  /\ Goes("failed") /\ UNCHANGED <<device, session, other, bounds, faults>>

(* A poll that the device answers with another API error. *)
PollRaises ==
  /\ pc = "poll" /\ Accepts(loc.tok)
  /\ Faulty
  /\ Goes("failed") /\ UNCHANGED <<device, session, other, bounds>>

Expires ==
  /\ pc \in Polling
  /\ Goes("timeout")
  /\ UNCHANGED <<device, session, other, bounds, faults>>

--------------------------------------------------------------------------------
(* The device (external). An update request makes it install version 2;     *)
(* then its server restarts, on "old" firmware before the answer is out.    *)

Installs ==
  /\ pc = "update" /\ Accepts(loc.tok) /\ installed = 1
  /\ installed' = 2 /\ loc' = [loc EXCEPT !.taken = TRUE]
  /\ UNCHANGED <<contract, up, running, boot, session, pc, other, bounds, faults>>

Stops ==
  /\ up /\ installed # running
  /\ up' = FALSE
  /\ UNCHANGED <<contract, running, installed, boot, session, pc, loc, other, bounds, faults>>

Starts ==
  /\ ~up
  /\ up' = TRUE /\ running' = installed /\ boot' = boot + 1
  /\ UNCHANGED <<contract, installed, session, pc, loc, other, bounds, faults>>

--------------------------------------------------------------------------------
(* Other tasks on the same client. *)

Acts == others < MaxOthers /\ others' = others + 1

Logout ==
  /\ Acts /\ ClearSession /\ credentials' = FALSE     \* also a login that fails
  /\ UNCHANGED <<device, pc, loc, other, installs, faults>>

Login ==
  /\ Acts /\ up
  /\ current' = {} /\ token' = boot /\ application' = 0
  /\ credentials' = TRUE
  /\ UNCHANGED <<device, pc, loc, other, installs, faults>>

Detect ==
  /\ Acts /\ other = NoRequest /\ token # 0
  /\ other' = [tok |-> token, version |-> 0] /\ Joins("other")
  /\ UNCHANGED <<device, token, credentials, application, pc, loc, installs, faults>>

DetectHandled ==
  /\ other.version = 0 /\ other.tok # 0 /\ Accepts(other.tok)
  /\ other' = [other EXCEPT !.version = running]
  /\ UNCHANGED <<device, session, pc, loc, bounds, faults>>

(* The answer may arrive much later, when the device has restarted. *)
DetectEnds ==
  /\ other # NoRequest
  /\ other' = NoRequest
  /\ application' = IF other.version # 0 /\ Current("other") THEN other.version ELSE application
  /\ UNCHANGED <<device, current, token, credentials, pc, loc, bounds, faults>>

DetectRejected ==
  /\ other # NoRequest /\ Rejects(other.tok) /\ Current("other")
  /\ other' = NoRequest
  /\ ClearSession
  /\ UNCHANGED <<device, credentials, pc, loc, bounds, faults>>

--------------------------------------------------------------------------------
Progress ==
  \/ VersionsAnswered \/ ContractKnown \/ Answered \/ AskingFails
  \/ \E break \in Breaks : Disconnected(break)
  \/ Slept \/ PollAnswered \/ PollRejected \/ PollUnreachable \/ PollRaises
  \/ LoggedIn \/ LoginUnreachable \/ LoginRejected \/ LoginSuperseded

Next ==
  \/ Install \/ (\E offline \in BOOLEAN : UpdateApplication(offline)) \/ Progress \/ Expires
  \/ Installs \/ Stops \/ Starts
  \/ Logout \/ Login \/ Detect \/ DetectHandled \/ DetectEnds \/ DetectRejected

(* The install's requests and sleeps end, and a device that stops starts    *)
(* again. Nothing is assumed of the deadline.                               *)
Spec == Init /\ [][Next]_vars /\ WF_vars(Progress) /\ WF_vars(Stops) /\ WF_vars(Starts)

--------------------------------------------------------------------------------
(* Properties. *)

(* Every variable holds what its declaration says, and no token is of a     *)
(* server that never ran.                                                   *)
TypeOK ==
  /\ contract \in {"old", "new", "pro"} /\ {up, credentials} \subseteq BOOLEAN
  /\ {running, installed} \subseteq Versions /\ boot \in 1..2 /\ token \in 0..boot
  /\ application \in Versions \cup {0} /\ current \subseteq {"install", "other"}
  /\ pc \in Asking \cup Polling \cup Ended
  /\ loc \in [waits : BOOLEAN, previous : Versions \cup {0}, drops : BOOLEAN, tok : 0..boot,
             taken : BOOLEAN]
  /\ pc \in Polling => loc.previous # 0 /\ loc.waits
  /\ other \in [tok : 0..boot, version : Versions \cup {0}]
  /\ installs \in 0..MaxInstalls /\ faults \in 0..MaxFaults /\ others \in 0..MaxOthers

(* api.md:24: a session that the device still accepts never carries the     *)
(* cached version of the firmware before a restart, whatever answers arrive *)
(* late: feature gates decide by the version that runs.                     *)
CacheNamesRunningVersion == token = boot /\ application # 0 => application = running

(* When an update asks a gate whether its device drops the connection, the  *)
(* answer follows the order of the versions and the device's hardware, and  *)
(* so does every other gate (compatibility.py:27, session.py:637).          *)
GatesFollowVersionOrder == pc = "update" => VersionsCompare /\ VersionGate /\ HardwareGate

(* Once the device has installed the update, the wait ends by itself, with  *)
(* no help of the deadline: the client logs in again and sees the version,  *)
(* or has learned that it cannot log in.                                    *)
InstallFollowsRestart == (pc \in Polling /\ installed = 2) ~> pc \in Ended

(* services.py:115, 211: the way in which a non-Pro device breaks the       *)
(* request when its own restart comes before the answer, a disconnect on    *)
(* old firmware and a 502 on newer, does not fail the install, though any   *)
(* other break does (test_application_updates.py:377, 523). Once the device *)
(* has the update, an install that nothing else disturbs succeeds, or its   *)
(* deadline passes: no other task acts, no request fails in another way,    *)
(* and the credentials stay good.                                           *)
LoneInstallSucceeds ==
  (pc \in Polling \cup {"update"} /\ loc.waits /\ loc.taken /\ contract # "pro")
    ~> (pc \in {"ok", "timeout"} \/ others > 0 \/ faults > 0 \/ ~credentials)
================================================================================
