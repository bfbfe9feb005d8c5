-------------------------------- MODULE ProOffer --------------------------------
(* ProWebRTCOffer and split_pro_webrtc_offer: nanokvm/webrtc.py. An offer   *)
(* is the sequence of its media sections, each with the kind of its m= line *)
(* and its a=mid, or NoMid. The device has one peer for each kind, whose    *)
(* only section has mid "0" and index 0.                                    *)
EXTENDS Naturals, Sequences, FiniteSets

CONSTANTS MaxSections,  \* bound: media sections of an offer
          Mids          \* mids that offers give their sections

(* The text of a number, as str makes it. *)
Text(n) == <<n>>
NoMid == <<>>

ASSUME ProOfferAssumption == MaxSections \in Nat /\ NoMid \notin Mids

Supported == {"video", "audio"}

(* Media sections are numbered from 0, and a missing mid is the number.     *)
Index(i) == i - 1
Section(sdp, i) ==
  [kind |-> sdp[i].kind, index |-> Index(i),
   mid |-> IF sdp[i].mid = NoMid THEN Text(Index(i)) ELSE sdp[i].mid]

IsSplit_Every(sdp, i) == sdp[i].kind \in Supported
(* The first section of each supported kind is offered to the device. *)
IsSplit(sdp, i) ==
  /\ sdp[i].kind \in Supported
  /\ \A j \in 1..(i - 1) : sdp[j].kind # sdp[i].kind

Split(sdp) == {Section(sdp, i) : i \in {j \in DOMAIN sdp : IsSplit(sdp, j)}}

(* kinds_for_candidate: by mid, else by index, else to every peer.          *)
FirstKind(S) == {s.kind : s \in {r \in S : \A q \in S : r.index <= q.index}}

KindsForCandidate(sdp, c) ==
  LET sections == Split(sdp)
      byMid == {s \in sections : s.mid = c.mid}
      byIndex == {s \in sections : s.index = c.index}
  IN CASE byMid # {} -> FirstKind(byMid)
       [] byMid = {} /\ byIndex # {} -> FirstKind(byIndex)
       [] OTHER -> {s.kind : s \in sections}

(* upstream_candidate_for_kind: a browser candidate, as the peer's only     *)
(* section takes it; and what the whole of send_candidate sends.            *)
UpstreamCandidates(sdp, c) ==
  {[kind |-> k, mid |-> Text(0), index |-> 0] : k \in KindsForCandidate(sdp, c)}

(* client_candidate_for_kind: the peer's candidate, on the original section. *)
ClientCandidates(sdp, kind) ==
  {[mid |-> s.mid, index |-> s.index] : s \in {r \in Split(sdp) : r.kind = kind}}

--------------------------------------------------------------------------------
(* What a caller needs of the mapping. In an offer either every section has *)
(* a mid of its own, or none has one.                                       *)
Sections == [kind : Supported \cup {"other"}, mid : Mids \cup {NoMid}]
Offers ==
  {o \in UNION {[1..k -> Sections] : k \in 1..MaxSections} :
     \/ \A i \in DOMAIN o : o[i].mid = NoMid
     \/ /\ \A i \in DOMAIN o : o[i].mid # NoMid
        /\ \A i, j \in DOMAIN o : o[i].mid = o[j].mid => i = j}

(* streaming.md:94: the candidates a caller gets name a section of its own  *)
(* offer. Every kind of media in an offer has one section for them.         *)
KindsHaveSections ==
  \A o \in Offers, kind \in Supported :
    (\E i \in DOMAIN o : o[i].kind = kind) <=> Cardinality(ClientCandidates(o, kind)) = 1

(* A candidate that the device's peer of a kind sent, given back by the     *)
(* caller with its mid or with nothing but its index, goes to that peer     *)
(* alone.                                                                   *)
CandidatesReturn ==
  \A o \in Offers, kind \in Supported :
    \A c \in ClientCandidates(o, kind) : \A d \in {c, [c EXCEPT !.mid = NoMid]} :
      UpstreamCandidates(o, d) = {[kind |-> kind, mid |-> Text(0), index |-> 0]}
================================================================================
