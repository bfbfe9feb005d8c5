--------------------------------- MODULE WebRTC ---------------------------------
(* WebRTCSignaling: nanokvm/webrtc.py.                                      *)
(*                                                                          *)
(* The caller sends one offer, and iterates for the device's answer and     *)
(* candidates. The Pro negotiates video and audio apart; the session sends  *)
(* it one offer per kind, merges the answers, and holds candidates back     *)
(* until then. A heartbeat task keeps the Pro's session alive. The caller's *)
(* own candidates change nothing here and are left out; the mapping between *)
(* media sections is in ProOffer.                                           *)
EXTENDS ProOffer, SequencesExt

CONSTANTS Kinds,        \* media kinds
          First,        \* the kind that is offered first, video
          MaxMessages   \* bound: messages the device sends

ASSUME WebRTCAssumption == First \in Kinds /\ MaxMessages \in Nat

VARIABLES
  pro,        \* the hardware family
  ws,         \* the WebSocket: "open", "peer" closed it, or "closed" here
  offer,      \* the kinds in the caller's offer, {} before send_offer
  unsent,     \* kinds that send_offer still has to send
  heard,      \* kinds whose offer the device has got
  inbox,      \* messages from the device not read yet
  answers,    \* answers taken so far, one for a kind
  early,      \* candidates held for the merged answer
  answered,   \* the answers were complete
  it,         \* the iteration: where it is suspended or how it ended
  heartbeat,  \* the heartbeat task
  closing,    \* close() of the caller
  answer,     \* history: the answers merged into the one the caller got
  delivered,  \* history: the candidates the caller got
  trickled,   \* history: the candidates the device sent
  sent        \* messages the device sent so far

vars == <<pro, ws, offer, unsent, heard, inbox, answers, early, answered, it, heartbeat, closing,
          answer, delivered, trickled, sent>>
device == <<trickled, sent>>
reading == <<inbox, answers, early, answered, it, answer, delivered>>
offering == <<offer, unsent, heard>>
tasks == <<heartbeat, closing>>

(* An answer is "broken" if it has no media section of its kind, which only *)
(* merging finds. "ignored" stands for whatever iteration skips: other      *)
(* events, invalid JSON, answers without SDP and invalid candidates.        *)
Answers == {"answer", "broken"}
Messages == [event : Answers \cup {"candidate"}, kind : Kinds, n : 1..MaxMessages]
            \cup [event : {"mode", "ignored"}, kind : {First}, n : 1..MaxMessages]
KindsOf(S) == {m.kind : m \in S}

Init ==
  /\ pro \in BOOLEAN /\ ws = "open"
  /\ offer = {} /\ unsent = {} /\ heard = {}
  /\ inbox = <<>> /\ answers = {} /\ early = <<>> /\ answered = FALSE
  /\ it = "receive"
  /\ heartbeat = IF pro THEN "sleep" ELSE "none"
  /\ closing = "no"
  /\ answer = {} /\ delivered = <<>> /\ trickled = {} /\ sent = 0

--------------------------------------------------------------------------------
(* send_offer. An offer for a Pro without media is refused. *)

SendOffer(kinds) ==
  /\ offer = {} /\ kinds # {}
  /\ pro \/ kinds = {First}
  /\ offer' = kinds /\ unsent' = kinds
  /\ UNCHANGED <<pro, ws, heard, reading, tasks, device>>

(* One offer per kind, the first kind first. *)
OfferSent(k) ==
  /\ k \in unsent /\ (First \in unsent => k = First)
  /\ ws = "open"
  /\ unsent' = unsent \ {k} /\ heard' = heard \cup {k}
  /\ UNCHANGED <<pro, ws, offer, reading, tasks, device>>

OfferFails ==
  /\ unsent # {} /\ ws # "open"
  /\ unsent' = {}
  /\ UNCHANGED <<pro, ws, offer, heard, reading, tasks, device>>

--------------------------------------------------------------------------------
(* The device (external): once it has an offer, it answers and sends        *)
(* candidates in any order and number, also of a kind nobody asked for.     *)
(* What it sends after the iteration is over, nobody reads.                 *)

DeviceSends(m) ==
  /\ ws = "open" /\ heard # {} /\ it \in {"receive", "flush"}
  /\ m.n = sent + 1 /\ sent' = m.n
  /\ inbox' = Append(inbox, m)
  /\ trickled' = IF m.event = "candidate" THEN trickled \cup {m} ELSE trickled
  /\ UNCHANGED <<pro, ws, offering, answers, early, answered, it, tasks, answer, delivered>>

PeerCloses ==
  /\ ws = "open" /\ ws' = "peer"
  /\ UNCHANGED <<pro, offering, reading, tasks, device>>

--------------------------------------------------------------------------------
(* Iteration, one message at a time. A WebSocket closed here gives nothing  *)
(* any more. A name that ends in a bug, such as AllAnswered_Any, is a       *)
(* mutant of the definition that follows it.                                *)

Take(events) ==
  /\ it = "receive" /\ ws # "closed"
  /\ inbox # <<>> /\ Head(inbox).event \in events
  /\ inbox' = Tail(inbox)

Skip ==
  /\ Take({"ignored"} \cup IF pro THEN {} ELSE {"mode"})
  /\ UNCHANGED <<pro, ws, offering, answers, early, answered, it, tasks, answer, delivered, device>>

(* Other hardware than the Pro: the device's events as they come.           *)
PassAnswer ==
  /\ ~pro /\ Take(Answers)
  /\ answer' = {Head(inbox)}
  /\ UNCHANGED <<pro, ws, offering, answers, early, answered, it, tasks, delivered, device>>

(* Another video mode took the Pro's encoder. *)
ModeChanged ==
  /\ pro /\ Take({"mode"})
  /\ it' = "raised"
  /\ UNCHANGED <<pro, ws, offering, answers, early, answered, tasks, answer, delivered, device>>

AllAnswered_Any(S) == KindsOf(S) \cap offer # {}
AllAnswered(S) == offer \subseteq KindsOf(S)

Wanted_AnyKind(m) == ~answered
Wanted(m) == ~answered /\ m.kind \in offer

(* The last missing answer completes the merged one, which the caller gets  *)
(* before the candidates that were held. Merging raises on a broken answer. *)
TakeAnswer ==
  /\ pro /\ Take(Answers)
  /\ LET m == Head(inbox)
         S == {a \in answers : a.kind # m.kind} \cup {m}
         merge == Wanted(m) /\ AllAnswered(S)
         whole == \A a \in S : a.event = "answer"
     IN /\ answers' = IF Wanted(m) THEN S ELSE answers
        /\ answered' = (answered \/ merge)
        /\ answer' = IF merge /\ whole THEN S ELSE answer
        /\ it' = CASE merge /\ whole -> "flush"
                   [] merge /\ ~whole -> "raised"
                   [] OTHER -> it
  /\ UNCHANGED <<pro, ws, offering, early, tasks, delivered, device>>

(* client_candidate_for_kind: a kind that was not offered has no section.   *)
Mapped(m) == ~pro \/ m.kind \in offer
Deliver(m) == delivered' = IF Mapped(m) THEN Append(delivered, m) ELSE delivered

Holds_Never == FALSE
Holds == pro /\ ~answered

TakeCandidate ==
  /\ Take({"candidate"})
  /\ \/ Holds /\ early' = Append(early, Head(inbox)) /\ UNCHANGED delivered
     \/ ~Holds /\ Deliver(Head(inbox)) /\ UNCHANGED early
  /\ UNCHANGED <<pro, ws, offering, answers, answered, it, tasks, answer, device>>

Flush ==
  /\ it = "flush" /\ early # <<>>
  /\ Deliver(Head(early)) /\ early' = Tail(early)
  /\ UNCHANGED <<pro, ws, offering, inbox, answers, answered, it, tasks, answer, device>>

Flushed ==
  /\ it = "flush" /\ early = <<>>
  /\ it' = "receive"
  /\ UNCHANGED <<pro, ws, offering, inbox, answers, early, answered, tasks, answer, delivered, device>>

EndOfIteration ==
  /\ it = "receive"
  /\ ws = "closed" \/ (ws = "peer" /\ inbox = <<>>)
  /\ it' = "ended"
  /\ UNCHANGED <<pro, ws, offering, inbox, answers, early, answered, tasks, answer, delivered, device>>

--------------------------------------------------------------------------------
(* _send_heartbeats and close. *)

(* A heartbeat that cannot be sent closes the WebSocket, whatever is still  *)
(* to be read: the caller hears of it when its iteration ends. That the     *)
(* peer closed shows only when the iteration has read so far.               *)
OnFailure_Ignored == UNCHANGED ws
OnFailure == ws' = "closed"

SeenClosed == ws = "closed" \/ (ws = "peer" /\ it = "ended")

HeartbeatFails ==
  /\ heartbeat = "sleep" /\ ~SeenClosed
  /\ heartbeat' = "failed" /\ OnFailure
  /\ UNCHANGED <<pro, offering, reading, closing, device>>

HeartbeatEnds ==
  /\ heartbeat = "failed" \/ (heartbeat = "sleep" /\ SeenClosed)
  /\ heartbeat' = "done"
  /\ UNCHANGED <<pro, ws, offering, reading, closing, device>>

(* close() cancels the heartbeat, waits for it, and closes the WebSocket.   *)
Close ==
  /\ closing = "no" /\ closing' = "heartbeat"
  /\ UNCHANGED <<pro, ws, offering, reading, heartbeat, device>>

HeartbeatCancelled ==
  /\ closing = "heartbeat" /\ heartbeat \in {"sleep", "failed"}
  /\ heartbeat' = "done"
  /\ UNCHANGED <<pro, ws, offering, reading, closing, device>>

Closed ==
  /\ closing = "heartbeat" /\ heartbeat \in {"none", "done"}
  /\ ws' = "closed" /\ closing' = "done"
  /\ UNCHANGED <<pro, offering, reading, heartbeat, device>>

--------------------------------------------------------------------------------
Iterate ==
  \/ Skip \/ PassAnswer \/ ModeChanged \/ TakeAnswer \/ TakeCandidate
  \/ Flush \/ Flushed \/ EndOfIteration

Next ==
  \/ \E kinds \in SUBSET Kinds : SendOffer(kinds)
  \/ \E k \in Kinds : OfferSent(k)
  \/ \E m \in Messages : DeviceSends(m)
  \/ OfferFails \/ PeerCloses \/ Iterate
  \/ HeartbeatFails \/ HeartbeatEnds \/ Close \/ HeartbeatCancelled \/ Closed

(* The caller goes on iterating. *)
Spec == Init /\ [][Next]_vars /\ WF_vars(Iterate)

--------------------------------------------------------------------------------
(* Properties. *)

(* Every variable holds what its declaration says, and at most one answer   *)
(* for each offered kind is kept.                                           *)
TypeOK ==
  /\ {pro, answered} \subseteq BOOLEAN /\ ws \in {"open", "peer", "closed"}
  /\ offer \subseteq Kinds /\ unsent \subseteq offer /\ heard \subseteq offer
  /\ inbox \in Seq(Messages) /\ early \in Seq(Messages) /\ delivered \in Seq(Messages)
  /\ answers \subseteq Messages /\ KindsOf(answers) \subseteq offer
  /\ \A a, b \in answers : a.kind = b.kind => a = b
  /\ it \in {"receive", "flush", "raised", "ended"}
  /\ sent \in 0..MaxMessages
  /\ heartbeat \in {"none", "sleep", "failed", "done"} /\ closing \in {"no", "heartbeat", "done"}

(* streaming.md:71: from a Pro the caller gets exactly one answer, and it   *)
(* answers every section of the offer.                                      *)
AnswerIsComplete ==
  [][pro /\ answer' # answer =>
       /\ answer = {}
       /\ KindsOf(answer') = offer
       /\ \A a \in answer' : a.event = "answer"]_vars

(* The caller gets every candidate of an offered kind, in the order the     *)
(* device sent them, and from a Pro none before the answer that gives them  *)
(* a section to belong to (webrtc.py:153): what was delivered, what is held *)
(* and what is still to be read, in this order, is in the order of sending, *)
(* and no candidate that belongs to a section is missing or added.          *)
CandidatesKeepOrder ==
  LET queue == delivered \o early \o inbox
  IN /\ \A i, j \in DOMAIN queue : i < j => queue[i].n < queue[j].n
     /\ \A m \in trickled : Mapped(m) => \E i \in DOMAIN queue : queue[i] = m
     /\ \A i \in DOMAIN delivered : delivered[i] \in trickled /\ Mapped(delivered[i])
     /\ pro /\ delivered # <<>> => answer # {}

(* Every candidate the caller gets names a section of its own offer, and    *)
(* given back goes to the peer it came from (streaming.md:94).              *)
CandidatesFindTheirPeer == delivered # <<>> => KindsHaveSections /\ CandidatesReturn

(* The caller of a session whose heartbeat failed hears of it: its          *)
(* iteration ends (webrtc.py:250).                                          *)
HeartbeatFailureIsHeard == heartbeat = "failed" ~> it \in {"ended", "raised"}
================================================================================
