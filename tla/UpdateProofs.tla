------------------------------ MODULE UpdateProofs ------------------------------
(* Proofs about Update, for every bound.                                    *)
EXTENDS Update, Integers, Sequences, WellFoundedInduction, TLAPS

Locals == [waits : BOOLEAN, previous : Versions \cup {0}, drops : BOOLEAN, tok : 0..2,
           taken : BOOLEAN]

(* A server starts with the version that was installed: the boot says which.*)
Device ==
  /\ contract \in {"old", "new", "pro"} /\ up \in BOOLEAN
  /\ {running, installed} \subseteq Versions
  /\ boot = running /\ running <= installed
  /\ ~up => running = 1 /\ installed = 2

(* The session: its token was issued by a server that has run, and a        *)
(* version that is cached under the present server's token is its version.  *)
Session ==
  /\ current \subseteq {"install", "other"} /\ token \in 0..boot /\ credentials \in BOOLEAN
  /\ application \in Versions \cup {0}
  /\ CacheNamesRunningVersion

(* The install: its locals, and a login that can still succeed finds no     *)
(* token, no version and no request of another task in its session.         *)
Installing ==
  /\ pc \in Asking \cup Polling \cup Ended
  /\ loc \in Locals /\ loc.tok \in 0..boot
  /\ pc = "versions" => loc.waits
  /\ pc \in Polling \cup {"update"} => loc.previous # 0
  /\ pc \in Polling => loc.waits
  /\ pc = "login" /\ Current("install") => token = 0 /\ application = 0 /\ ~Current("other")

(* The other task's request: an answer tells the version of the server that *)
(* issued its token, and a request of this session carries its token.       *)
Detecting ==
  /\ other \in [tok : 0..boot, version : Versions \cup {0}]
  /\ other.version \in {0, other.tok}
  /\ other # NoRequest /\ Current("other") => other.tok = token

Bounds == installs \in 0..MaxInstalls /\ faults \in 0..MaxFaults /\ others \in 0..MaxOthers

IInv == Device /\ Session /\ Installing /\ Detecting /\ Bounds

USE UpdateAssumption DEF Versions, Asking, Polling, Ended, NoRequest, Current

(* What a step leaves in the locals: Sets keeps the previous version, and   *)
(* Sends is the start of an update.                                         *)
Sets(l, waits, tok) == l \in Locals /\ l.waits = waits /\ l.previous = loc.previous /\ l.tok = tok
Sends(l, waits, tok) == l \in Locals /\ l.waits = waits /\ l.previous # 0 /\ l.tok = tok

LEMMA LocalsSet ==
  ASSUME loc \in Locals
  PROVE  /\ \A k \in 0..2 : Sets([loc EXCEPT !.tok = k], loc.waits, k)
         /\ \A b \in BOOLEAN, k \in 0..2 : Sets([loc EXCEPT !.waits = b, !.tok = k], b, k)
         /\ Sets([loc EXCEPT !.taken = TRUE], loc.waits, loc.tok)
BY DEF Sets, Locals

LEMMA AskedSets ==
  ASSUME loc \in Locals, token \in 0..2, NEW at, Asked(at)
  PROVE  pc' = at /\ Sets(loc', loc.waits, token)
<1>1. Sets([loc EXCEPT !.tok = token], loc.waits, token)  BY LocalsSet
<1> QED BY <1>1 DEF Asked

LEMMA SendUpdateSends ==
  ASSUME running \in Versions, token \in 0..2, NEW waits \in BOOLEAN, SendUpdate(waits)
  PROVE  pc' = "update" /\ Sends(loc', waits, token)
BY DEF SendUpdate, DropsConnection, Sends, Locals

LEMMA InitIInv == Init => IInv
BY DEF Init, IInv, Device, Session, Installing, Detecting, Bounds, CacheNamesRunningVersion,
   Locals

LEMMA InstallStep ==
  ASSUME IInv, Install
  PROVE  IInv'
<1> USE DEF Install, Starting, Joins, Goes, device
<1>1. Device'  BY DEF IInv, Device
<1>2. Session'  BY DEF IInv, Device, Session, Installing, Detecting, CacheNamesRunningVersion
<1>3. Installing'
  <2>a. loc \in Locals /\ loc.waits \in BOOLEAN /\ token \in 0..2 /\ running \in Versions
    BY DEF IInv, Device, Session, Installing, Locals
  <2>b. Sets([loc EXCEPT !.waits = TRUE, !.tok = token], TRUE, token)  BY <2>a, LocalsSet
  <2>0. \/ pc' = "failed" /\ loc' = loc
        \/ pc' = "versions" /\ Sets(loc', TRUE, token)
    BY <2>b
  <2>1. (loc \in Locals)'  BY <2>0 DEF IInv, Device, Session, Installing, Sets, Sends
  <2>2. (loc.tok \in 0..boot)'  BY <2>0 DEF IInv, Device, Session, Installing, Sets, Sends
  <2>3. (pc \in Asking \cup Polling \cup Ended)'  BY <2>0 DEF IInv, Installing
  <2>4. (pc = "versions" => loc.waits)'  BY <2>0 DEF IInv, Installing, Sets, Sends
  <2>5. (pc \in Polling \cup {"update"} => loc.previous # 0)'  BY <2>0 DEF IInv, Installing, Sets, Sends
  <2>6. (pc \in Polling => loc.waits)'  BY <2>0 DEF IInv, Installing, Sets, Sends
  <2>7. (pc = "login" /\ Current("install") => token = 0 /\ application = 0 /\ ~Current("other"))'
    BY <2>0 DEF IInv, Device, Session, Installing
  <2> QED BY <2>1, <2>2, <2>3, <2>4, <2>5, <2>6, <2>7 DEF Installing
<1>4. Detecting'  BY DEF IInv, Device, Session, Installing, Detecting
<1>5. Bounds'  BY DEF IInv, Bounds
<1> QED BY <1>1, <1>2, <1>3, <1>4, <1>5 DEF IInv

LEMMA UpdateApplicationStep ==
  ASSUME IInv, NEW offline \in BOOLEAN, UpdateApplication(offline)
  PROVE  IInv'
<1> USE DEF UpdateApplication, Starting, Goes, Joins, device
<1>1. Device'  BY DEF IInv, Device
<1>2. Session'  BY DEF IInv, Device, Session, Installing, Detecting, CacheNamesRunningVersion, SendUpdate, DropsConnection
<1>3. Installing'
  <2>a. loc \in Locals /\ loc.waits \in BOOLEAN /\ token \in 0..2 /\ running \in Versions
    BY DEF IInv, Device, Session, Installing, Locals
  <2>b. Sets([loc EXCEPT !.waits = FALSE, !.tok = token], FALSE, token)  BY <2>a, LocalsSet
  <2>c. SendUpdate(FALSE) => pc' = "update" /\ Sends(loc', FALSE, token)
    BY <2>a, SendUpdateSends
  <2>0. \/ pc' = "failed" /\ loc' = loc
        \/ pc' = "contract" /\ Sets(loc', FALSE, token)
        \/ pc' = "update" /\ Sends(loc', FALSE, token)
    BY <2>b, <2>c
  <2>1. (loc \in Locals)'  BY <2>0 DEF IInv, Device, Session, Installing, Sets, Sends
  <2>2. (loc.tok \in 0..boot)'  BY <2>0 DEF IInv, Device, Session, Installing, Sets, Sends
  <2>3. (pc \in Asking \cup Polling \cup Ended)'  BY <2>0 DEF IInv, Installing
  <2>4. (pc = "versions" => loc.waits)'  BY <2>0 DEF IInv, Installing, Sets, Sends
  <2>5. (pc \in Polling \cup {"update"} => loc.previous # 0)'  BY <2>0 DEF IInv, Installing, Sets, Sends
  <2>6. (pc \in Polling => loc.waits)'  BY <2>0 DEF IInv, Installing, Sets, Sends
  <2>7. (pc = "login" /\ Current("install") => token = 0 /\ application = 0 /\ ~Current("other"))'
    BY <2>0 DEF IInv, Device, Session, Installing
  <2> QED BY <2>1, <2>2, <2>3, <2>4, <2>5, <2>6, <2>7 DEF Installing
<1>4. Detecting'  BY DEF IInv, Device, Session, Installing, Detecting, SendUpdate, DropsConnection
<1>5. Bounds'  BY DEF IInv, Bounds
<1> QED BY <1>1, <1>2, <1>3, <1>4, <1>5 DEF IInv

LEMMA VersionsAnsweredStep ==
  ASSUME IInv, VersionsAnswered
  PROVE  IInv'
<1> USE DEF VersionsAnswered, Accepts, Goes, Joins, device, session, bounds
<1>1. Device'  BY DEF IInv, Device
<1>2. Session'  BY DEF IInv, Device, Session, Installing, Detecting, CacheNamesRunningVersion, SendUpdate, DropsConnection, Asked
<1>3. Installing'
  <2>a. loc \in Locals /\ loc.waits \in BOOLEAN /\ token \in 0..2 /\ running \in Versions
    BY DEF IInv, Device, Session, Installing, Locals
  <2>b. Asked("contract") => pc' = "contract" /\ Sets(loc', loc.waits, token)
    BY <2>a, AskedSets
  <2>c. SendUpdate(TRUE) => pc' = "update" /\ Sends(loc', TRUE, token)
    BY <2>a, SendUpdateSends
  <2>0. \/ pc' \in {"failed", "ok"} /\ loc' = loc
        \/ pc' = "contract" /\ Sets(loc', loc.waits, token)
        \/ pc' = "update" /\ Sends(loc', TRUE, token)
    BY <2>b, <2>c
  <2>1. (loc \in Locals)'  BY <2>0 DEF IInv, Device, Session, Installing, Sets, Sends
  <2>2. (loc.tok \in 0..boot)'  BY <2>0 DEF IInv, Device, Session, Installing, Sets, Sends
  <2>3. (pc \in Asking \cup Polling \cup Ended)'  BY <2>0 DEF IInv, Installing
  <2>4. (pc = "versions" => loc.waits)'  BY <2>0 DEF IInv, Installing, Sets, Sends
  <2>5. (pc \in Polling \cup {"update"} => loc.previous # 0)'  BY <2>0 DEF IInv, Installing, Sets, Sends
  <2>6. (pc \in Polling => loc.waits)'  BY <2>0 DEF IInv, Installing, Sets, Sends
  <2>7. (pc = "login" /\ Current("install") => token = 0 /\ application = 0 /\ ~Current("other"))'
    BY <2>0 DEF IInv, Device, Session, Installing
  <2> QED BY <2>1, <2>2, <2>3, <2>4, <2>5, <2>6, <2>7 DEF Installing
<1>4. Detecting'  BY DEF IInv, Device, Session, Installing, Detecting, SendUpdate, DropsConnection, Asked
<1>5. Bounds'  BY DEF IInv, Bounds
<1> QED BY <1>1, <1>2, <1>3, <1>4, <1>5 DEF IInv

LEMMA ContractKnownStep ==
  ASSUME IInv, ContractKnown
  PROVE  IInv'
<1> USE DEF ContractKnown, Accepts, device, bounds
<1>1. Device'  BY DEF IInv, Device
<1>2. Session'  BY DEF IInv, Device, Session, Installing, Detecting, CacheNamesRunningVersion, SendUpdate, DropsConnection
<1>3. Installing'
  <2>a. loc \in Locals /\ loc.waits \in BOOLEAN /\ token \in 0..2 /\ running \in Versions
    BY DEF IInv, Device, Session, Installing, Locals
  <2>0. pc' = "update" /\ Sends(loc', loc.waits, token)  BY <2>a, SendUpdateSends
  <2>1. (loc \in Locals)'  BY <2>0 DEF IInv, Device, Session, Installing, Sets, Sends
  <2>2. (loc.tok \in 0..boot)'  BY <2>0 DEF IInv, Device, Session, Installing, Sets, Sends
  <2>3. (pc \in Asking \cup Polling \cup Ended)'  BY <2>0 DEF IInv, Installing
  <2>4. (pc = "versions" => loc.waits)'  BY <2>0 DEF IInv, Installing, Sets, Sends
  <2>5. (pc \in Polling \cup {"update"} => loc.previous # 0)'  BY <2>0 DEF IInv, Installing, Sets, Sends
  <2>6. (pc \in Polling => loc.waits)'  BY <2>0 DEF IInv, Installing, Sets, Sends
  <2>7. (pc = "login" /\ Current("install") => token = 0 /\ application = 0 /\ ~Current("other"))'
    BY <2>0 DEF IInv, Device, Session, Installing
  <2> QED BY <2>1, <2>2, <2>3, <2>4, <2>5, <2>6, <2>7 DEF Installing
<1>4. Detecting'  BY DEF IInv, Device, Session, Installing, Detecting, SendUpdate, DropsConnection
<1>5. Bounds'  BY DEF IInv, Bounds
<1> QED BY <1>1, <1>2, <1>3, <1>4, <1>5 DEF IInv

LEMMA AnsweredStep ==
  ASSUME IInv, Answered
  PROVE  IInv'
<1> USE DEF Answered, Accepts, Goes, Updated, device, bounds
<1>1. Device'  BY DEF IInv, Device
<1>2. Session'  BY DEF IInv, Device, Session, Installing, Detecting, CacheNamesRunningVersion
<1>3. Installing'  BY DEF IInv, Device, Session, Installing
<1>4. Detecting'  BY DEF IInv, Device, Session, Installing, Detecting
<1>5. Bounds'  BY DEF IInv, Bounds
<1> QED BY <1>1, <1>2, <1>3, <1>4, <1>5 DEF IInv

LEMMA DisconnectedStep ==
  ASSUME IInv, NEW break \in Breaks, Disconnected(break)
  PROVE  IInv'
<1> USE DEF Disconnected, Unreachable, Faulty, Goes, Updated, device, bounds
<1>1. Device'  BY DEF IInv, Device
<1>2. Session'  BY DEF IInv, Device, Session, Installing, Detecting, CacheNamesRunningVersion
<1>3. Installing'
  <2>1. (loc \in Locals)'  BY DEF IInv, Device, Session, Installing
  <2>2. (loc.tok \in 0..boot)'  BY DEF IInv, Device, Session, Installing
  <2>3. (pc \in Asking \cup Polling \cup Ended)'  BY DEF IInv, Installing
  <2>4. (pc = "versions" => loc.waits)'  BY DEF IInv, Installing
  <2>5. (pc \in Polling \cup {"update"} => loc.previous # 0)'  BY DEF IInv, Installing
  <2>6. (pc \in Polling => loc.waits)'  BY DEF IInv, Installing
  <2>7. (pc = "login" /\ Current("install") => token = 0 /\ application = 0 /\ ~Current("other"))'
    BY DEF IInv, Device, Session, Installing
  <2> QED BY <2>1, <2>2, <2>3, <2>4, <2>5, <2>6, <2>7 DEF Installing
<1>4. Detecting'  BY DEF IInv, Device, Session, Installing, Detecting
<1>5. Bounds'  BY DEF IInv, Bounds
<1> QED BY <1>1, <1>2, <1>3, <1>4, <1>5 DEF IInv

LEMMA AskingFailsStep ==
  ASSUME IInv, AskingFails
  PROVE  IInv'
<1> USE DEF AskingFails, Unreachable, Faulty, Broken, session, Rejects, ClearSession, Goes, device, bounds
<1>1. Device'  BY DEF IInv, Device
<1>2. Session'
  <2>1. (current \subseteq {"install", "other"})'  BY DEF IInv, Session
  <2>2. (token \in 0..boot /\ application \in Versions \cup {0})'
    BY DEF IInv, Device, Session, Installing, Detecting
  <2>3. (credentials \in BOOLEAN)'  BY DEF IInv, Session
  <2>4. CacheNamesRunningVersion'
    BY DEF IInv, Device, Session, Installing, Detecting, CacheNamesRunningVersion
  <2> QED BY <2>1, <2>2, <2>3, <2>4 DEF Session
<1>3. Installing'  BY DEF IInv, Device, Session, Installing
<1>4. Detecting'  BY DEF IInv, Device, Session, Installing, Detecting
<1>5. Bounds'  BY DEF IInv, Bounds
<1> QED BY <1>1, <1>2, <1>3, <1>4, <1>5 DEF IInv

LEMMA SleptStep ==
  ASSUME IInv, Slept
  PROVE  IInv'
<1> USE DEF Slept, Joins, LogInAgain, Goes, ClearIf, device, bounds
<1>1. Device'  BY DEF IInv, Device
<1>2. Session'  BY DEF IInv, Device, Session, Installing, Detecting, CacheNamesRunningVersion, Asked
<1>3. Installing'
  <2>a. loc \in Locals /\ loc.waits \in BOOLEAN /\ token \in 0..2 /\ running \in Versions
    BY DEF IInv, Device, Session, Installing, Locals
  <2>b. Asked("poll") => pc' = "poll" /\ Sets(loc', loc.waits, token)
    BY <2>a, AskedSets
  <2>0. \/ pc' \in {"failed", "login"} /\ loc' = loc
        \/ pc' = "poll" /\ Sets(loc', loc.waits, token)
    BY <2>b
  <2>1. (loc \in Locals)'  BY <2>0 DEF IInv, Device, Session, Installing, Sets, Sends
  <2>2. (loc.tok \in 0..boot)'  BY <2>0 DEF IInv, Device, Session, Installing, Sets, Sends
  <2>3. (pc \in Asking \cup Polling \cup Ended)'  BY <2>0 DEF IInv, Installing
  <2>4. (pc = "versions" => loc.waits)'  BY <2>0 DEF IInv, Installing, Sets, Sends
  <2>5. (pc \in Polling \cup {"update"} => loc.previous # 0)'  BY <2>0 DEF IInv, Installing, Sets, Sends
  <2>6. (pc \in Polling => loc.waits)'  BY <2>0 DEF IInv, Installing, Sets, Sends
  <2>7. (pc = "login" /\ Current("install") => token = 0 /\ application = 0 /\ ~Current("other"))'
    BY <2>0 DEF IInv, Device, Session, Installing, Asked
  <2> QED BY <2>1, <2>2, <2>3, <2>4, <2>5, <2>6, <2>7 DEF Installing
<1>4. Detecting'  BY DEF IInv, Device, Session, Installing, Detecting, Asked
<1>5. Bounds'  BY DEF IInv, Bounds
<1> QED BY <1>1, <1>2, <1>3, <1>4, <1>5 DEF IInv

LEMMA PollAnsweredStep ==
  ASSUME IInv, PollAnswered
  PROVE  IInv'
<1> USE DEF PollAnswered, Accepts, Goes, IsNew, device, bounds
<1>1. Device'  BY DEF IInv, Device
<1>2. Session'  BY DEF IInv, Device, Session, Installing, Detecting, CacheNamesRunningVersion
<1>3. Installing'  BY DEF IInv, Device, Session, Installing
<1>4. Detecting'  BY DEF IInv, Device, Session, Installing, Detecting
<1>5. Bounds'  BY DEF IInv, Bounds
<1> QED BY <1>1, <1>2, <1>3, <1>4, <1>5 DEF IInv

LEMMA PollRejectedStep ==
  ASSUME IInv, PollRejected
  PROVE  IInv'
<1> USE DEF PollRejected, Rejects, LogInAgain, Goes, ClearIf, device, bounds
<1>1. Device'  BY DEF IInv, Device
<1>2. Session'
  <2>1. (current \subseteq {"install", "other"})'  BY DEF IInv, Session
  <2>2. (token \in 0..boot /\ application \in Versions \cup {0})'
    BY DEF IInv, Device, Session, Installing, Detecting
  <2>3. (credentials \in BOOLEAN)'  BY DEF IInv, Session
  <2>4. CacheNamesRunningVersion'
    BY DEF IInv, Device, Session, Installing, Detecting, CacheNamesRunningVersion
  <2> QED BY <2>1, <2>2, <2>3, <2>4 DEF Session
<1>3. Installing'
  <2>1. (loc \in Locals)'  BY DEF IInv, Device, Session, Installing
  <2>2. (loc.tok \in 0..boot)'  BY DEF IInv, Device, Session, Installing
  <2>3. (pc \in Asking \cup Polling \cup Ended)'  BY DEF IInv, Installing
  <2>4. (pc = "versions" => loc.waits)'  BY DEF IInv, Installing
  <2>5. (pc \in Polling \cup {"update"} => loc.previous # 0)'  BY DEF IInv, Installing
  <2>6. (pc \in Polling => loc.waits)'  BY DEF IInv, Installing
  <2>7. (pc = "login" /\ Current("install") => token = 0 /\ application = 0 /\ ~Current("other"))'
    BY DEF IInv, Device, Session, Installing
  <2> QED BY <2>1, <2>2, <2>3, <2>4, <2>5, <2>6, <2>7 DEF Installing
<1>4. Detecting'  BY DEF IInv, Device, Session, Installing, Detecting
<1>5. Bounds'  BY DEF IInv, Bounds
<1> QED BY <1>1, <1>2, <1>3, <1>4, <1>5 DEF IInv

LEMMA PollUnreachableStep ==
  ASSUME IInv, PollUnreachable
  PROVE  IInv'
<1> USE DEF PollUnreachable, Unreachable, Faulty, Goes, device, session, bounds
<1>1. Device'  BY DEF IInv, Device
<1>2. Session'  BY DEF IInv, Device, Session, Installing, Detecting, CacheNamesRunningVersion
<1>3. Installing'  BY DEF IInv, Device, Session, Installing
<1>4. Detecting'  BY DEF IInv, Device, Session, Installing, Detecting
<1>5. Bounds'  BY DEF IInv, Bounds
<1> QED BY <1>1, <1>2, <1>3, <1>4, <1>5 DEF IInv

LEMMA PollRaisesStep ==
  ASSUME IInv, PollRaises
  PROVE  IInv'
<1> USE DEF PollRaises, Faulty, Accepts, Goes, device, session, bounds
<1>1. Device'  BY DEF IInv, Device
<1>2. Session'  BY DEF IInv, Device, Session, Installing, Detecting, CacheNamesRunningVersion
<1>3. Installing'  BY DEF IInv, Device, Session, Installing
<1>4. Detecting'  BY DEF IInv, Device, Session, Installing, Detecting
<1>5. Bounds'  BY DEF IInv, Bounds
<1> QED BY <1>1, <1>2, <1>3, <1>4, <1>5 DEF IInv

LEMMA LoggedInStep ==
  ASSUME IInv, LoggedIn
  PROVE  IInv'
<1> USE DEF LoggedIn, Goes, device, bounds
<1>1. Device'  BY DEF IInv, Device
<1>2. Session'
  <2>1. (current \subseteq {"install", "other"})'  BY DEF IInv, Session
  <2>2. (token \in 0..boot /\ application \in Versions \cup {0})'
    BY DEF IInv, Device, Session, Installing, Detecting
  <2>3. (credentials \in BOOLEAN)'  BY DEF IInv, Session
  <2>4. CacheNamesRunningVersion'
    BY DEF IInv, Device, Session, Installing, Detecting, CacheNamesRunningVersion
  <2> QED BY <2>1, <2>2, <2>3, <2>4 DEF Session
<1>3. Installing'  BY DEF IInv, Device, Session, Installing
<1>4. Detecting'  BY DEF IInv, Device, Session, Installing, Detecting
<1>5. Bounds'  BY DEF IInv, Bounds
<1> QED BY <1>1, <1>2, <1>3, <1>4, <1>5 DEF IInv

LEMMA LoginUnreachableStep ==
  ASSUME IInv, LoginUnreachable
  PROVE  IInv'
<1> USE DEF LoginUnreachable, Unreachable, Faulty, Goes, device, session, bounds
<1>1. Device'  BY DEF IInv, Device
<1>2. Session'  BY DEF IInv, Device, Session, Installing, Detecting, CacheNamesRunningVersion
<1>3. Installing'  BY DEF IInv, Device, Session, Installing
<1>4. Detecting'  BY DEF IInv, Device, Session, Installing, Detecting
<1>5. Bounds'  BY DEF IInv, Bounds
<1> QED BY <1>1, <1>2, <1>3, <1>4, <1>5 DEF IInv

LEMMA LoginRejectedStep ==
  ASSUME IInv, LoginRejected
  PROVE  IInv'
<1> USE DEF LoginRejected, Goes, device, bounds
<1>1. Device'  BY DEF IInv, Device
<1>2. Session'  BY DEF IInv, Device, Session, Installing, Detecting, CacheNamesRunningVersion
<1>3. Installing'  BY DEF IInv, Device, Session, Installing
<1>4. Detecting'  BY DEF IInv, Device, Session, Installing, Detecting
<1>5. Bounds'  BY DEF IInv, Bounds
<1> QED BY <1>1, <1>2, <1>3, <1>4, <1>5 DEF IInv

LEMMA LoginSupersededStep ==
  ASSUME IInv, LoginSuperseded
  PROVE  IInv'
<1> USE DEF LoginSuperseded, Goes, device, session, bounds
<1>1. Device'  BY DEF IInv, Device
<1>2. Session'  BY DEF IInv, Device, Session, Installing, Detecting, CacheNamesRunningVersion
<1>3. Installing'  BY DEF IInv, Device, Session, Installing
<1>4. Detecting'  BY DEF IInv, Device, Session, Installing, Detecting
<1>5. Bounds'  BY DEF IInv, Bounds
<1> QED BY <1>1, <1>2, <1>3, <1>4, <1>5 DEF IInv

LEMMA ExpiresStep ==
  ASSUME IInv, Expires
  PROVE  IInv'
<1> USE DEF Expires, Goes, device, session, bounds
<1>1. Device'  BY DEF IInv, Device
<1>2. Session'  BY DEF IInv, Device, Session, Installing, Detecting, CacheNamesRunningVersion
<1>3. Installing'  BY DEF IInv, Device, Session, Installing
<1>4. Detecting'  BY DEF IInv, Device, Session, Installing, Detecting
<1>5. Bounds'  BY DEF IInv, Bounds
<1> QED BY <1>1, <1>2, <1>3, <1>4, <1>5 DEF IInv

LEMMA InstallsStep ==
  ASSUME IInv, Installs
  PROVE  IInv'
<1> USE DEF Installs, Accepts, session, bounds
<1>1. Device'  BY DEF IInv, Device
<1>2. Session'  BY DEF IInv, Device, Session, Installing, Detecting, CacheNamesRunningVersion
<1>3. Installing'
  <2>a. loc \in Locals /\ loc.tok \in 0..2 /\ pc' = "update"
    BY DEF IInv, Device, Session, Installing, Locals
  <2>0. Sets(loc', loc.waits, loc.tok)  BY <2>a, LocalsSet
  <2>1. (loc \in Locals)'  BY <2>0 DEF IInv, Device, Session, Installing, Sets, Sends
  <2>2. (loc.tok \in 0..boot)'  BY <2>0 DEF IInv, Device, Session, Installing, Sets, Sends
  <2>3. (pc \in Asking \cup Polling \cup Ended)'  BY <2>0 DEF IInv, Installing
  <2>4. (pc = "versions" => loc.waits)'  BY <2>0 DEF IInv, Installing, Sets, Sends
  <2>5. (pc \in Polling \cup {"update"} => loc.previous # 0)'  BY <2>0 DEF IInv, Installing, Sets, Sends
  <2>6. (pc \in Polling => loc.waits)'  BY <2>0 DEF IInv, Installing, Sets, Sends
  <2>7. (pc = "login" /\ Current("install") => token = 0 /\ application = 0 /\ ~Current("other"))'
    BY <2>0 DEF IInv, Device, Session, Installing
  <2> QED BY <2>1, <2>2, <2>3, <2>4, <2>5, <2>6, <2>7 DEF Installing
<1>4. Detecting'  BY DEF IInv, Device, Session, Installing, Detecting
<1>5. Bounds'  BY DEF IInv, Bounds
<1> QED BY <1>1, <1>2, <1>3, <1>4, <1>5 DEF IInv

LEMMA StopsStep ==
  ASSUME IInv, Stops
  PROVE  IInv'
<1> USE DEF Stops, session, bounds
<1>1. Device'
  <2>1. (contract \in {"old", "new", "pro"})' /\ ({running, installed} \subseteq Versions)'
    BY DEF IInv, Device
  <2>2. (up \in BOOLEAN)'  BY DEF IInv, Device
  <2>3. (boot = running /\ running <= installed)'  BY DEF IInv, Device
  <2>4. (~up => running = 1 /\ installed = 2)'  BY DEF IInv, Device
  <2> QED BY <2>1, <2>2, <2>3, <2>4 DEF Device
<1>2. Session'  BY DEF IInv, Device, Session, Installing, Detecting, CacheNamesRunningVersion
<1>3. Installing'  BY DEF IInv, Device, Session, Installing
<1>4. Detecting'  BY DEF IInv, Device, Session, Installing, Detecting
<1>5. Bounds'  BY DEF IInv, Bounds
<1> QED BY <1>1, <1>2, <1>3, <1>4, <1>5 DEF IInv

LEMMA StartsStep ==
  ASSUME IInv, Starts
  PROVE  IInv'
<1> USE DEF Starts, session, bounds
<1>1. Device'  BY DEF IInv, Device
<1>2. Session'  BY DEF IInv, Device, Session, Installing, Detecting, CacheNamesRunningVersion
<1>3. Installing'
  <2>1. (loc \in Locals)'  BY DEF IInv, Device, Session, Installing
  <2>2. (loc.tok \in 0..boot)'  BY DEF IInv, Device, Session, Installing
  <2>3. (pc \in Asking \cup Polling \cup Ended)'  BY DEF IInv, Installing
  <2>4. (pc = "versions" => loc.waits)'  BY DEF IInv, Installing
  <2>5. (pc \in Polling \cup {"update"} => loc.previous # 0)'  BY DEF IInv, Installing
  <2>6. (pc \in Polling => loc.waits)'  BY DEF IInv, Installing
  <2>7. (pc = "login" /\ Current("install") => token = 0 /\ application = 0 /\ ~Current("other"))'
    BY DEF IInv, Device, Session, Installing
  <2> QED BY <2>1, <2>2, <2>3, <2>4, <2>5, <2>6, <2>7 DEF Installing
<1>4. Detecting'  BY DEF IInv, Device, Session, Installing, Detecting
<1>5. Bounds'  BY DEF IInv, Bounds
<1> QED BY <1>1, <1>2, <1>3, <1>4, <1>5 DEF IInv

LEMMA LogoutStep ==
  ASSUME IInv, Logout
  PROVE  IInv'
<1> USE DEF Logout, Acts, ClearSession, device
<1>1. Device'  BY DEF IInv, Device
<1>2. Session'
  <2>1. (current \subseteq {"install", "other"})'  BY DEF IInv, Session
  <2>2. (token \in 0..boot /\ application \in Versions \cup {0})'
    BY DEF IInv, Device, Session, Installing, Detecting
  <2>3. (credentials \in BOOLEAN)'  BY DEF IInv, Session
  <2>4. CacheNamesRunningVersion'
    BY DEF IInv, Device, Session, Installing, Detecting, CacheNamesRunningVersion
  <2> QED BY <2>1, <2>2, <2>3, <2>4 DEF Session
<1>3. Installing'  BY DEF IInv, Device, Session, Installing
<1>4. Detecting'  BY DEF IInv, Device, Session, Installing, Detecting
<1>5. Bounds'  BY DEF IInv, Bounds
<1> QED BY <1>1, <1>2, <1>3, <1>4, <1>5 DEF IInv

LEMMA LoginStep ==
  ASSUME IInv, Login
  PROVE  IInv'
<1> USE DEF Login, Acts, device
<1>1. Device'  BY DEF IInv, Device
<1>2. Session'  BY DEF IInv, Device, Session, Installing, Detecting, CacheNamesRunningVersion
<1>3. Installing'  BY DEF IInv, Device, Session, Installing
<1>4. Detecting'  BY DEF IInv, Device, Session, Installing, Detecting
<1>5. Bounds'  BY DEF IInv, Bounds
<1> QED BY <1>1, <1>2, <1>3, <1>4, <1>5 DEF IInv

LEMMA DetectStep ==
  ASSUME IInv, Detect
  PROVE  IInv'
<1> USE DEF Detect, Acts, Joins, device
<1>1. Device'  BY DEF IInv, Device
<1>2. Session'  BY DEF IInv, Device, Session, Installing, Detecting, CacheNamesRunningVersion
<1>3. Installing'  BY DEF IInv, Device, Session, Installing
<1>4. Detecting'  BY DEF IInv, Device, Session, Installing, Detecting
<1>5. Bounds'  BY DEF IInv, Bounds
<1> QED BY <1>1, <1>2, <1>3, <1>4, <1>5 DEF IInv

LEMMA DetectHandledStep ==
  ASSUME IInv, DetectHandled
  PROVE  IInv'
<1> USE DEF DetectHandled, Accepts, device, session, bounds
<1>1. Device'  BY DEF IInv, Device
<1>2. Session'  BY DEF IInv, Device, Session, Installing, Detecting, CacheNamesRunningVersion
<1>3. Installing'  BY DEF IInv, Device, Session, Installing
<1>4. Detecting'  BY DEF IInv, Device, Session, Installing, Detecting
<1>5. Bounds'  BY DEF IInv, Bounds
<1> QED BY <1>1, <1>2, <1>3, <1>4, <1>5 DEF IInv

LEMMA DetectEndsStep ==
  ASSUME IInv, DetectEnds
  PROVE  IInv'
<1> USE DEF DetectEnds, device, bounds
<1>1. Device'  BY DEF IInv, Device
<1>2. Session'  BY DEF IInv, Device, Session, Installing, Detecting, CacheNamesRunningVersion
<1>3. Installing'  BY DEF IInv, Device, Session, Installing
<1>4. Detecting'  BY DEF IInv, Device, Session, Installing, Detecting
<1>5. Bounds'  BY DEF IInv, Bounds
<1> QED BY <1>1, <1>2, <1>3, <1>4, <1>5 DEF IInv

LEMMA DetectRejectedStep ==
  ASSUME IInv, DetectRejected
  PROVE  IInv'
<1> USE DEF DetectRejected, Rejects, ClearSession, device, bounds
<1>1. Device'  BY DEF IInv, Device
<1>2. Session'  BY DEF IInv, Device, Session, Installing, Detecting, CacheNamesRunningVersion
<1>3. Installing'  BY DEF IInv, Device, Session, Installing
<1>4. Detecting'  BY DEF IInv, Device, Session, Installing, Detecting
<1>5. Bounds'  BY DEF IInv, Bounds
<1> QED BY <1>1, <1>2, <1>3, <1>4, <1>5 DEF IInv

LEMMA NextIInv == IInv /\ [Next]_vars => IInv'
<1> SUFFICES ASSUME IInv, [Next]_vars  PROVE IInv'
  OBVIOUS
<1>1. CASE UNCHANGED vars
  BY <1>1 DEF vars, IInv, Device, Session, Installing, Detecting, Bounds,
     CacheNamesRunningVersion
<1>2. CASE Next
  BY <1>2, InstallStep, UpdateApplicationStep, VersionsAnsweredStep, ContractKnownStep, AnsweredStep,
     DisconnectedStep, AskingFailsStep, SleptStep, PollAnsweredStep, PollRejectedStep,
     PollUnreachableStep, PollRaisesStep, LoggedInStep, LoginUnreachableStep, LoginRejectedStep,
     LoginSupersededStep, ExpiresStep, InstallsStep, StopsStep, StartsStep,
     LogoutStep, LoginStep, DetectStep, DetectHandledStep, DetectEndsStep,
     DetectRejectedStep
  DEF Next, Progress
<1> QED BY <1>1, <1>2

(* The step every theorem below takes: IInv is inductive.                   *)
THEOREM Inductive == Spec => []IInv
<1>1. Init => IInv  BY InitIInv
<1>2. IInv /\ [Next]_vars => IInv'  BY NextIInv
<1> QED BY <1>1, <1>2, PTL DEF Spec

(* Type correctness: every variable holds what its declaration says, and an *)
(* install that polls always knows the version it must see change.          *)
THEOREM TypeOKThm == Spec => []TypeOK
<1>1. IInv => TypeOK
  <2> SUFFICES ASSUME IInv  PROVE TypeOK
    OBVIOUS
  <2>1. loc \in [waits : BOOLEAN, previous : Versions \cup {0}, drops : BOOLEAN, tok : 0..boot,
                taken : BOOLEAN]
    BY DEF IInv, Installing, Locals
  <2> QED BY <2>1 DEF IInv, Device, Session, Installing, Detecting, Bounds, TypeOK
<1> QED BY <1>1, Inductive, PTL

(* Whatever answers arrive late, and however often the device restarts, a   *)
(* session that the device accepts caches only the version that runs.       *)
THEOREM CacheNamesRunningVersionThm == Spec => []CacheNamesRunningVersion
<1>1. IInv => CacheNamesRunningVersion  BY DEF IInv, Session
<1> QED BY <1>1, Inductive, PTL

--------------------------------------------------------------------------------
(* Versions and the gates, for versions of any length and any numbers.      *)

(* A set of numbers that has a member has a smallest one.                   *)
LEMMA Smallest ==
  ASSUME NEW S \in SUBSET Nat, S # {}
  PROVE  \E n \in S : \A m \in S : n <= m
<1>1. PICK n \in S : \A m \in S : ~(<<m, n>> \in OpToRel(<, Nat))
  BY NatLessThanWellFounded, WFMin
<1>2. \A m \in S : ~(m < n)  BY <1>1 DEF OpToRel
<1> QED BY <1>2

(* All releases, and where two of them differ: Exceeds is the first         *)
(* difference.                                                              *)
AnyRelease == {Release(s) : s \in Seq(Nat)}
Equal(v, w) == \A i \in Nat \ {0} : Digit(v, i) = Digit(w, i)
Exceeds(v, w, i) == Digit(v, i) > Digit(w, i) /\ \A j \in 1..(i - 1) : Digit(v, j) = Digit(w, j)
Later(v, w) == \E i \in Nat \ {0} : Exceeds(v, w, i)

(* Every number of a release is a natural number.                           *)
LEMMA DigitType ==
  ASSUME NEW v \in AnyRelease, NEW i \in Nat
  PROVE  Digit(v, i) \in Nat
BY DEF AnyRelease, Release, Digit

(* _version_at_least compares releases by their first different number,     *)
(* whatever trailing zeros are left out.                                    *)
LEMMA ComparesParts ==
  ASSUME NEW v \in AnyRelease, NEW w \in AnyRelease
  PROVE  VersionAtLeast(v, w) <=> Equal(v, w) \/ Later(v, w)
<1> DEFINE n == Longer(v.parts, w.parts)
           s == Padded(v.parts, n)
           t == Padded(w.parts, n)
<1>1. /\ v.parts \in Seq(Nat) /\ w.parts \in Seq(Nat) /\ v.custom = FALSE /\ w.custom = FALSE
  BY DEF AnyRelease, Release
<1>2. /\ n \in Nat /\ DOMAIN v.parts \subseteq 1..n /\ DOMAIN w.parts \subseteq 1..n
      /\ DOMAIN v.parts = 1..Len(v.parts) /\ DOMAIN w.parts = 1..Len(w.parts)
      /\ Len(v.parts) \in Nat /\ Len(w.parts) \in Nat
  <2>1. /\ DOMAIN v.parts = 1..Len(v.parts) /\ Len(v.parts) \in Nat
        /\ DOMAIN w.parts = 1..Len(w.parts) /\ Len(w.parts) \in Nat
    BY <1>1
  <2>2. n \in Nat /\ Len(v.parts) <= n /\ Len(w.parts) <= n  BY <2>1 DEF Longer
  <2> HIDE DEF n
  <2> QED BY <2>1, <2>2
<1>3. /\ DOMAIN s = 1..n /\ \A i \in 1..n : s[i] = Digit(v, i)
      /\ DOMAIN t = 1..n /\ \A i \in 1..n : t[i] = Digit(w, i)
  <2> HIDE DEF n
  <2> QED BY <1>2 DEF Padded, Digit
<1>4. \A i \in Nat \ 1..n : Digit(v, i) = 0 /\ Digit(w, i) = 0
  <2> HIDE DEF n
  <2> QED BY <1>2 DEF Digit
<1>5. s = t <=> Equal(v, w)
  <2>1. s = t <=> \A i \in 1..n : s[i] = t[i]
    <3> HIDE DEF n
    <3> QED BY <1>2, <1>3 DEF Padded
  <2> HIDE DEF n, s, t
  <2> QED BY <1>2, <1>3, <1>4, <2>1 DEF Equal
<1>6. (\E i \in 1..n : s[i] > t[i] /\ \A j \in 1..(i - 1) : s[j] = t[j]) <=> Later(v, w)
  <2> HIDE DEF n, s, t
  <2>1. ASSUME NEW i \in Nat \ {0}, Exceeds(v, w, i)  PROVE i \in 1..n
    BY <1>2, <1>4, <2>1 DEF Exceeds
  <2>2. ASSUME NEW i \in 1..n
        PROVE  Exceeds(v, w, i) <=> s[i] > t[i] /\ \A j \in 1..(i - 1) : s[j] = t[j]
    <3>1. 1..(i - 1) \subseteq 1..n  BY <1>2
    <3> QED BY <1>3, <3>1 DEF Exceeds
  <2> QED BY <1>2, <2>1, <2>2 DEF Later
<1>7. TupleAtLeast(s, t) <=> Equal(v, w) \/ Later(v, w)
  <2> HIDE DEF n, s, t
  <2>1. TupleAtLeast(s, t) <=>
          (\E i \in 1..n : s[i] > t[i] /\ \A j \in 1..(i - 1) : s[j] = t[j]) \/ s = t
    <3>1. \A i \in 1..n : \A j \in 1..(i - 1) : j \in 1..n  BY <1>2
    <3> QED BY <1>3, <3>1 DEF TupleAtLeast
  <2> QED BY <1>5, <1>6, <2>1
<1> QED BY <1>1, <1>7 DEF VersionAtLeast

(* _version_at_least orders the releases: any two are comparable, it is     *)
(* transitive, and those at least as new as each other are those with the   *)
(* same numbers (compatibility.py:27).                                      *)
THEOREM VersionsAreOrdered ==
  /\ \A v, w \in AnyRelease : VersionAtLeast(v, w) \/ VersionAtLeast(w, v)
  /\ \A u, v, w \in AnyRelease :
       VersionAtLeast(u, v) /\ VersionAtLeast(v, w) => VersionAtLeast(u, w)
  /\ \A v, w \in AnyRelease :
       VersionAtLeast(v, w) /\ VersionAtLeast(w, v) <=> Equal(v, w)
<1>1. ASSUME NEW v \in AnyRelease, NEW w \in AnyRelease
      PROVE  Equal(v, w) \/ Later(v, w) \/ Later(w, v)
  <2> SUFFICES ASSUME ~Equal(v, w)  PROVE Later(v, w) \/ Later(w, v)
    OBVIOUS
  <2> DEFINE D == {i \in Nat \ {0} : Digit(v, i) # Digit(w, i)}
  <2>1. D # {}  BY DEF Equal
  <2>2. PICK i \in D : \A j \in D : i <= j  BY <2>1, Smallest
  <2>3. \A j \in 1..(i - 1) : Digit(v, j) = Digit(w, j)  BY <2>2
  <2>4. Digit(v, i) > Digit(w, i) \/ Digit(w, i) > Digit(v, i)  BY <2>2, DigitType
  <2> QED BY <2>2, <2>3, <2>4 DEF Later, Exceeds
<1>2. ASSUME NEW u \in AnyRelease, NEW v \in AnyRelease, NEW w \in AnyRelease,
             Equal(u, v) \/ Later(u, v), Equal(v, w) \/ Later(v, w)
      PROVE  Equal(u, w) \/ Later(u, w)
  <2>1. CASE Equal(u, v)  BY <1>2, <2>1 DEF Equal, Later, Exceeds
  <2>2. CASE Equal(v, w)  BY <1>2, <2>2 DEF Equal, Later, Exceeds
  <2>3. ASSUME NEW i \in Nat \ {0}, NEW k \in Nat \ {0}, Exceeds(u, v, i), Exceeds(v, w, k)
        PROVE  Later(u, w)
    <3>1. \A j \in Nat : Digit(u, j) \in Nat /\ Digit(v, j) \in Nat /\ Digit(w, j) \in Nat
      BY DigitType
    <3>2. CASE i <= k
      <4>1. Digit(u, i) > Digit(w, i)
        <5>1. CASE i = k  BY <2>3, <3>1, <5>1 DEF Exceeds
        <5>2. CASE i # k
          <6>1. i \in 1..(k - 1)  BY <3>2, <5>2
          <6>2. Digit(v, i) = Digit(w, i)  BY <2>3, <6>1 DEF Exceeds
          <6> QED BY <2>3, <6>2 DEF Exceeds
        <5> QED BY <5>1, <5>2
      <4>2. \A j \in 1..(i - 1) : Digit(u, j) = Digit(w, j)  BY <2>3, <3>2 DEF Exceeds
      <4> QED BY <4>1, <4>2 DEF Later, Exceeds
    <3>3. CASE k < i
      <4>1. Digit(u, k) > Digit(w, k)
        <5>1. k \in 1..(i - 1)  BY <3>3
        <5>2. Digit(u, k) = Digit(v, k)  BY <2>3, <5>1 DEF Exceeds
        <5> QED BY <2>3, <5>2 DEF Exceeds
      <4>2. \A j \in 1..(k - 1) : Digit(u, j) = Digit(w, j)  BY <2>3, <3>3 DEF Exceeds
      <4> QED BY <4>1, <4>2 DEF Later, Exceeds
    <3> QED BY <3>2, <3>3
  <2> QED BY <1>2, <2>1, <2>2, <2>3 DEF Later
<1>3. ASSUME NEW v \in AnyRelease, NEW w \in AnyRelease, Later(v, w)
      PROVE  ~Equal(v, w) /\ ~Later(w, v)
  <2>1. PICK i \in Nat \ {0} : Exceeds(v, w, i)  BY <1>3 DEF Later
  <2>2. \A j \in Nat : Digit(v, j) \in Nat /\ Digit(w, j) \in Nat  BY DigitType
  <2>3. ASSUME NEW k \in Nat \ {0}, Exceeds(w, v, k)  PROVE FALSE
    <3>1. k < i \/ i < k \/ i = k  OBVIOUS
    <3> QED BY <2>1, <2>2, <2>3, <3>1 DEF Exceeds
  <2> QED BY <2>1, <2>2, <2>3 DEF Equal, Exceeds, Later
<1>4. \A v, w \in AnyRelease : Equal(v, w) <=> Equal(w, v)  BY DEF Equal
<1> QED BY <1>1, <1>2, <1>3, <1>4, ComparesParts

(* What a device can run or a gate can ask for, and a minimum that is met.  *)
AnyVersion == AnyRelease \cup {Custom}
Allows(v, m) == m = NoVersion \/ VersionAtLeast(v, m)

(* A version gate lets a client that is logged in through exactly when its  *)
(* device meets the minimum of its own family, whether the client had       *)
(* detected it before or not; without a login, a client that does not know  *)
(* its device passes (session.py:637).                                      *)
THEOREM VersionGateAsksTheDevice ==
  ASSUME NEW hw \in HWVersions, NEW version \in AnyVersion \ {NoVersion},
         NEW known \in {hw, NoHw}, NEW seen \in {version, NoVersion}, NEW login \in BOOLEAN,
         NEW non_pro \in AnyVersion, NEW pro \in AnyVersion
  PROVE  ApplicationVersionAtLeast([hw |-> known, version |-> seen, token |-> login],
           [hw |-> hw, version |-> version], [non_pro |-> non_pro, pro |-> pro]) <=>
           \/ ~login /\ (known = NoHw \/ seen = NoVersion)
           \/ Allows(version, IF hw = "Pro" THEN pro ELSE non_pro)
<1> DEFINE c == [hw |-> known, version |-> seen, token |-> login]
           d == [hw |-> hw, version |-> version]
<1>1. HwSeen(c, d) = (IF known = NoHw /\ ~login THEN NoHw ELSE hw)
  BY DEF HwSeen
<1>2. VersionSeen(c, d) = (IF seen = NoVersion /\ ~login THEN NoVersion ELSE version)
  BY DEF VersionSeen
<1>3. hw # NoHw /\ (Family(hw) = "Pro" <=> hw = "Pro")
  BY DEF HWVersions, NoHw, Family
<1>4. HwSeen(c, d) # NoHw => HwSeen(c, d) = hw  BY <1>1
<1> DEFINE needs == [non_pro |-> non_pro, pro |-> pro]
           minimum == IF Family(HwSeen(c, d)) = "Pro" THEN needs.pro ELSE needs.non_pro
           own == IF hw = "Pro" THEN pro ELSE non_pro
<1>5. HwSeen(c, d) # NoHw => minimum = own  BY <1>3, <1>4
<1>6. ApplicationVersionAtLeast(c, d, needs) <=>
        \/ HwSeen(c, d) = NoHw \/ minimum = NoVersion \/ VersionSeen(c, d) = NoVersion
        \/ VersionAtLeast(VersionSeen(c, d), minimum)
  BY DEF ApplicationVersionAtLeast
<1> HIDE DEF c, d, needs, minimum, own
<1>7. ApplicationVersionAtLeast(c, d, needs) <=>
        \/ ~login /\ (known = NoHw \/ seen = NoVersion)
        \/ Allows(version, own)
  BY <1>1, <1>2, <1>3, <1>5, <1>6 DEF Allows
<1> QED BY <1>7 DEF c, d, needs, own

(* A hardware gate lets a client through that knows its device or can ask   *)
(* it, when the device is of the hardware asked for and meets the minimum,  *)
(* as far as its version is known (compatibility.py:60).                    *)
THEOREM HardwareGateAsksTheDevice ==
  ASSUME NEW hw \in HWVersions, NEW version \in AnyVersion \ {NoVersion},
         NEW known \in {hw, NoHw}, NEW seen \in {version, NoVersion}, NEW login \in BOOLEAN,
         NEW allowed, NEW minimum \in AnyVersion
  PROVE  RequireHardware([hw |-> known, version |-> seen, token |-> login],
           [hw |-> hw, version |-> version], allowed, minimum) <=>
           /\ login \/ known # NoHw
           /\ hw \in allowed \/ Family(hw) \in allowed
           /\ (~login /\ seen = NoVersion) \/ Allows(version, minimum)
<1> DEFINE c == [hw |-> known, version |-> seen, token |-> login]
           d == [hw |-> hw, version |-> version]
<1>1. HwSeen(c, d) = (IF known = NoHw /\ ~login THEN NoHw ELSE hw)
  BY DEF HwSeen
<1>2. hw # NoHw  BY DEF HWVersions, NoHw
<1>3. ApplicationVersionAtLeast(c, d, [non_pro |-> minimum, pro |-> minimum]) <=>
        \/ ~login /\ (known = NoHw \/ seen = NoVersion)
        \/ Allows(version, minimum)
  BY VersionGateAsksTheDevice
<1> HIDE DEF c, d
<1> QED BY <1>1, <1>2, <1>3 DEF RequireHardware, c, d

(* The bounded versions that TLC takes are among them.                      *)
LEMMA BoundedReleases ==
  ASSUME NEW v \in Releases
  PROVE  /\ v \in AnyRelease /\ v # NoVersion /\ v # Custom /\ v.custom = FALSE
         /\ \A i \in Nat : Digit(v, i) \in 0..MaxPart
         /\ \A i \in Nat : i > 3 => Digit(v, i) = 0
<1>0. PICK k \in 1..3 : v \in {Release(s) : s \in [1..k -> 0..MaxPart]}
  BY DEF Releases
<1>1. PICK s \in [1..k -> 0..MaxPart] : v = Release(s)  BY <1>0
<1>2. s \in Seq(Nat) /\ DOMAIN s = 1..k /\ s # <<>>
  BY <1>1, VersionsAssumption
<1>3. \A i \in 1..k : s[i] \in 0..MaxPart  BY <1>1
<1>4. v.parts = s /\ v.custom = FALSE  BY <1>1 DEF Release
<1>5. v \in AnyRelease  BY <1>1, <1>2 DEF AnyRelease
<1>6. v # NoVersion /\ v # Custom  BY <1>2, <1>4 DEF NoVersion, Custom, Release
<1>7. \A i \in Nat : Digit(v, i) \in 0..MaxPart
  BY <1>2, <1>3, <1>4, VersionsAssumption DEF Digit
<1>8. \A i \in Nat : i > 3 => Digit(v, i) = 0
  BY <1>2, <1>4 DEF Digit
<1> QED BY <1>4, <1>5, <1>6, <1>7, <1>8

(* A number of two digits is larger when its first digit is, and with equal *)
(* first digits when its last one is.                                       *)
LEMMA TwoDigits ==
  ASSUME NEW b \in Nat, NEW x \in Nat, NEW y \in Nat, NEW r \in Nat, NEW q \in Nat, r < b, q < b
  PROVE  /\ x * b + r \in Nat
         /\ x * b + r >= y * b + q <=> x > y \/ (x = y /\ r >= q)
         /\ x * b + r = y * b + q <=> x = y /\ r = q
<1> DEFINE X == x * b
           Y == y * b
<1>1. X \in Nat /\ Y \in Nat  OBVIOUS
<1>2. x > y => X >= Y + b
  <2> SUFFICES ASSUME x > y  PROVE X >= Y + b
    OBVIOUS
  <2>1. PICK k \in Nat : x = (y + 1) + k
    <3>1. x - (y + 1) \in Nat /\ x = (y + 1) + (x - (y + 1))  OBVIOUS
    <3> QED BY <3>1
  <2>2. X = (Y + b) + (k * b)  BY <2>1
  <2>3. k * b \in Nat  BY <2>1
  <2> QED BY <1>1, <2>2, <2>3
<1>3. y > x => Y >= X + b
  <2> SUFFICES ASSUME y > x  PROVE Y >= X + b
    OBVIOUS
  <2>1. PICK k \in Nat : y = (x + 1) + k
    <3>1. y - (x + 1) \in Nat /\ y = (x + 1) + (y - (x + 1))  OBVIOUS
    <3> QED BY <3>1
  <2>2. Y = (X + b) + (k * b)  BY <2>1
  <2>3. k * b \in Nat  BY <2>1
  <2> QED BY <1>1, <2>2, <2>3
<1>4. x = y => X = Y  OBVIOUS
<1> HIDE DEF X, Y
<1>5. /\ X + r \in Nat
      /\ X + r >= Y + q <=> x > y \/ (x = y /\ r >= q)
      /\ X + r = Y + q <=> x = y /\ r = q
  BY <1>1, <1>2, <1>3, <1>4
<1> QED BY <1>5 DEF X, Y

(* Numbers of three digits compare by their first different digit.          *)
LEMMA ThreeDigits ==
  ASSUME NEW b \in Nat, NEW x1 \in Nat, NEW x2 \in Nat, NEW x3 \in Nat,
         NEW y1 \in Nat, NEW y2 \in Nat, NEW y3 \in Nat,
         x2 < b, x3 < b, y2 < b, y3 < b
  PROVE  (x1 * b + x2) * b + x3 >= (y1 * b + y2) * b + y3 <=>
           x1 > y1 \/ (x1 = y1 /\ (x2 > y2 \/ (x2 = y2 /\ x3 >= y3)))
<1> DEFINE X == x1 * b + x2
           Y == y1 * b + y2
<1>1. /\ X \in Nat /\ Y \in Nat
      /\ X >= Y <=> x1 > y1 \/ (x1 = y1 /\ x2 >= y2)
      /\ X = Y <=> x1 = y1 /\ x2 = y2
  BY TwoDigits
<1> HIDE DEF X, Y
<1>2. X * b + x3 >= Y * b + y3 <=> X > Y \/ (X = Y /\ x3 >= y3)
  BY <1>1, TwoDigits
<1>3. X > Y <=> x1 > y1 \/ (x1 = y1 /\ x2 > y2)
  BY <1>1
<1>4. X * b + x3 >= Y * b + y3 <=>
        x1 > y1 \/ (x1 = y1 /\ (x2 > y2 \/ (x2 = y2 /\ x3 >= y3)))
  BY <1>1, <1>2, <1>3
<1> QED BY <1>4 DEF X, Y

(* The order of releases is the order of their numbers.                     *)
LEMMA NumbersOrderReleases ==
  ASSUME NEW v \in Releases, NEW w \in Releases
  PROVE  Equal(v, w) \/ Later(v, w) <=> Number(v) >= Number(w)
<1> DEFINE b == MaxPart + 1
           p(i) == Digit(v, i)
           q(i) == Digit(w, i)
<1>0. /\ \A i \in Nat : Digit(v, i) \in 0..MaxPart
      /\ \A i \in Nat : Digit(w, i) \in 0..MaxPart
      /\ \A i \in Nat : i > 3 => Digit(v, i) = 0 /\ Digit(w, i) = 0
  BY BoundedReleases
<1>1. /\ b \in Nat
      /\ p(1) \in Nat /\ p(2) \in Nat /\ p(3) \in Nat /\ p(2) < b /\ p(3) < b
      /\ q(1) \in Nat /\ q(2) \in Nat /\ q(3) \in Nat /\ q(2) < b /\ q(3) < b
  BY <1>0, VersionsAssumption
<1>2. Number(v) = (p(1) * b + p(2)) * b + p(3) /\ Number(w) = (q(1) * b + q(2)) * b + q(3)
  BY <1>0 DEF Number
<1> HIDE DEF b, p, q
<1>3. (p(1) * b + p(2)) * b + p(3) >= (q(1) * b + q(2)) * b + q(3) <=>
        p(1) > q(1) \/ (p(1) = q(1) /\ (p(2) > q(2) \/ (p(2) = q(2) /\ p(3) >= q(3))))
  BY <1>1, ThreeDigits
<1>4. Number(v) >= Number(w) <=>
        p(1) > q(1) \/ (p(1) = q(1) /\ (p(2) > q(2) \/ (p(2) = q(2) /\ p(3) >= q(3))))
  BY <1>2, <1>3
<1> USE DEF p, q
<1>5. Equal(v, w) <=> \A i \in {1, 2, 3} : Digit(v, i) = Digit(w, i)
  <2>1. \A i \in Nat \ {0} : i > 3 \/ i \in {1, 2, 3}  OBVIOUS
  <2>2. ASSUME \A i \in {1, 2, 3} : Digit(v, i) = Digit(w, i), NEW i \in Nat \ {0}
        PROVE  Digit(v, i) = Digit(w, i)
    <3>1. CASE i > 3  BY <1>0, <3>1
    <3>2. CASE i \in {1, 2, 3}  BY <2>2, <3>2
    <3> QED BY ONLY <2>1, <3>1, <3>2, i \in Nat \ {0}
  <2> QED BY <2>2 DEF Equal
<1>6. Later(v, w) <=> \E i \in {1, 2, 3} : Exceeds(v, w, i)
  <2>1. ASSUME NEW i \in Nat \ {0}, i > 3  PROVE ~Exceeds(v, w, i)
    BY <1>0, <2>1 DEF Exceeds
  <2>2. \A i \in Nat \ {0} : i > 3 \/ i \in {1, 2, 3}  OBVIOUS
  <2> QED BY <2>1, <2>2 DEF Later
<1>7. /\ Exceeds(v, w, 1) <=> Digit(v, 1) > Digit(w, 1)
      /\ Exceeds(v, w, 2) <=> Digit(v, 1) = Digit(w, 1) /\ Digit(v, 2) > Digit(w, 2)
      /\ Exceeds(v, w, 3) <=> /\ Digit(v, 1) = Digit(w, 1) /\ Digit(v, 2) = Digit(w, 2)
                              /\ Digit(v, 3) > Digit(w, 3)
  <2>1. 1..(1 - 1) = {} /\ 1..(2 - 1) = {1} /\ 1..(3 - 1) = {1, 2}  OBVIOUS
  <2> QED BY <2>1 DEF Exceeds
<1> QED BY <1>1, <1>4, <1>5, <1>6, <1>7

(* A version gate's comparison is the reference definition's.               *)
LEMMA AllowsMeets ==
  ASSUME NEW v \in AllVersions, NEW m \in AllVersions \cup {NoVersion}
  PROVE  /\ Allows(v, m) <=> Meets(v, m)
         /\ v \in AnyVersion \ {NoVersion} /\ m \in AnyVersion
<1>1. Custom.custom = TRUE /\ NoVersion.custom = FALSE
  BY DEF NoVersion, Custom, Release
<1>2. NoVersion \in AnyRelease
  <2>1. <<>> \in Seq(Nat)  OBVIOUS
  <2> QED BY <2>1 DEF NoVersion, AnyRelease
<1>3. v \in AnyVersion \ {NoVersion} /\ m \in AnyVersion
  <2>1. \A r \in AllVersions : r \in AnyVersion /\ r # NoVersion
    <3>1. NoVersion # Custom  BY <1>1
    <3> QED BY <3>1, BoundedReleases DEF AllVersions, AnyVersion
  <2> QED BY <1>2, <2>1 DEF AnyVersion
<1>4. CASE m = NoVersion  BY <1>3, <1>4 DEF Allows, Meets
<1>5. CASE v = Custom \/ m = Custom
  BY <1>1, <1>3, <1>5 DEF Allows, Meets, VersionAtLeast
<1>6. CASE v \in Releases /\ m \in Releases
  <2>1. /\ v.custom = FALSE /\ m.custom = FALSE /\ m # NoVersion
        /\ v \in AnyRelease /\ m \in AnyRelease
    BY <1>6, BoundedReleases
  <2>2. VersionAtLeast(v, m) <=> Number(v) >= Number(m)
    BY <1>6, <2>1, ComparesParts, NumbersOrderReleases
  <2> QED BY <1>3, <2>1, <2>2 DEF Allows, Meets
<1> QED BY <1>3, <1>4, <1>5, <1>6 DEF AllVersions

(* Every gate decides by the order of the versions, whatever the versions   *)
(* and minimums are.                                                        *)
THEOREM GatesFollowVersionOrderThm == Spec => []GatesFollowVersionOrder
<1>1. VersionsCompare
  <2> SUFFICES ASSUME NEW v \in AllVersions, NEW w \in AllVersions
               PROVE  VersionAtLeast(v, w) <=> Meets(v, w)
    BY DEF VersionsCompare
  <2>1. w # NoVersion  BY AllowsMeets
  <2>2. Allows(v, w) <=> Meets(v, w)  BY AllowsMeets
  <2> QED BY <2>1, <2>2 DEF Allows
<1>2. ASSUME NEW d \in Devices, NEW c \in Clients(d), NEW m \in Minimums
      PROVE  /\ d = [hw |-> d.hw, version |-> d.version] /\ d.hw \in HWVersions
             /\ c = [hw |-> c.hw, version |-> c.version, token |-> c.token]
             /\ c.hw \in {d.hw, NoHw} /\ c.version \in {d.version, NoVersion}
             /\ c.token \in BOOLEAN
             /\ d.version \in AllVersions /\ d.version \in AnyVersion \ {NoVersion}
             /\ m \in AllVersions \cup {NoVersion} /\ m \in AnyVersion
             /\ Allows(d.version, m) <=> Meets(d.version, m)
  <2>1. d = [hw |-> d.hw, version |-> d.version] /\ d.hw \in HWVersions /\ d.version \in AllVersions
    BY DEF Devices
  <2>2. /\ c = [hw |-> c.hw, version |-> c.version, token |-> c.token]
        /\ c.hw \in {d.hw, NoHw} /\ c.version \in {d.version, NoVersion} /\ c.token \in BOOLEAN
    BY DEF Clients
  <2>3. m \in AllVersions \cup {NoVersion}  BY VersionsAssumption
  <2> QED BY <2>1, <2>2, <2>3, AllowsMeets
<1>3. VersionGate
  <2> SUFFICES ASSUME NEW d \in Devices, NEW non_pro \in Minimums, NEW pro \in Minimums,
                      NEW c \in Clients(d)
               PROVE  ApplicationVersionAtLeast(c, d, [non_pro |-> non_pro, pro |-> pro]) <=>
                        \/ ~c.token /\ c.hw = NoHw
                        \/ Undetected(c)
                        \/ Meets(d.version, IF d.hw = "Pro" THEN pro ELSE non_pro)
    BY DEF VersionGate
  <2>1. ApplicationVersionAtLeast(
          [hw |-> c.hw, version |-> c.version, token |-> c.token],
          [hw |-> d.hw, version |-> d.version], [non_pro |-> non_pro, pro |-> pro]) <=>
          \/ ~c.token /\ (c.hw = NoHw \/ c.version = NoVersion)
          \/ Allows(d.version, IF d.hw = "Pro" THEN pro ELSE non_pro)
    BY <1>2, VersionGateAsksTheDevice
  <2> QED BY <1>2, <2>1 DEF Undetected
<1>4. HardwareGate
  <2> SUFFICES ASSUME NEW d \in Devices, NEW allowed \in SUBSET (HWVersions \cup {"non-Pro"}),
                      NEW minimum \in Minimums, NEW c \in Clients(d)
               PROVE  RequireHardware(c, d, allowed, minimum) <=>
                        /\ c.token \/ c.hw # NoHw
                        /\ d.hw \in allowed \/ Family(d.hw) \in allowed
                        /\ Undetected(c) \/ Meets(d.version, minimum)
    BY DEF HardwareGate
  <2>1. RequireHardware([hw |-> c.hw, version |-> c.version, token |-> c.token],
          [hw |-> d.hw, version |-> d.version], allowed, minimum) <=>
          /\ c.token \/ c.hw # NoHw
          /\ d.hw \in allowed \/ Family(d.hw) \in allowed
          /\ (~c.token /\ c.version = NoVersion) \/ Allows(d.version, minimum)
    BY <1>2, HardwareGateAsksTheDevice
  <2> QED BY <1>2, <2>1 DEF Undetected
<1>5. GatesFollowVersionOrder  BY <1>1, <1>3, <1>4 DEF GatesFollowVersionOrder
<1> QED BY <1>5, PTL
================================================================================
