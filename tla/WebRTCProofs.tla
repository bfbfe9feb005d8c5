------------------------------ MODULE WebRTCProofs ------------------------------
(* Proofs about WebRTC, for any media kinds and any number of messages.     *)
EXTENDS WebRTC, Integers, FiniteSetTheorems, WellFoundedInduction, TLAPS

(* What is in a queue, and that it is in the order of sending.              *)
Elems(s) == {s[i] : i \in DOMAIN s}
Ordered(s) == \A i, j \in DOMAIN s : i < j => s[i].n < s[j].n
Before(S, T) == \A x \in S, y \in T : x.n < y.n

Typed ==
  /\ pro \in BOOLEAN /\ answered \in BOOLEAN /\ ws \in {"open", "peer", "closed"}
  /\ offer \subseteq Kinds /\ unsent \subseteq offer /\ heard \subseteq offer
  /\ inbox \in Seq(Messages) /\ early \in Seq(Messages) /\ delivered \in Seq(Messages)
  /\ it \in {"receive", "flush", "raised", "ended"}
  /\ sent \in 0..MaxMessages
  /\ heartbeat \in {"none", "sleep", "failed", "done"} /\ closing \in {"no", "heartbeat", "done"}

(* One answer is kept for a kind, and the caller of a Pro has the merged    *)
(* one as soon as the answers are complete, unless merging them raised.     *)
Answering ==
  /\ answers \subseteq Messages /\ \A a \in answers : a.kind \in offer
  /\ \A a, b \in answers : a.kind = b.kind => a = b
  /\ pro /\ answer # {} => answered
  /\ pro /\ answered /\ it # "raised" => answer # {}

(* Candidates are held by a Pro's session only, and the next message is     *)
(* read after the last of them was delivered.                               *)
Holding ==
  /\ pro /\ ~answered => delivered = <<>>
  /\ ~pro => early = <<>>
  /\ early # <<>> /\ answered => it \in {"flush", "raised"}
  /\ it = "flush" => pro /\ answered
  /\ pro /\ delivered # <<>> => answer # {}

(* Messages are numbered as they are sent: delivered, held and unread ones  *)
(* follow each other.                                                       *)
InOrder ==
  /\ Ordered(delivered) /\ Ordered(early) /\ Ordered(inbox)
  /\ Before(Elems(delivered), Elems(early)) /\ Before(Elems(delivered), Elems(inbox))
  /\ Before(Elems(early), Elems(inbox))
  /\ \A m \in Elems(delivered) \cup Elems(early) \cup Elems(inbox) : m.n <= sent

(* A candidate is somewhere, and only the device makes candidates.          *)
Kept ==
  /\ \A m \in trickled : Mapped(m) => m \in Elems(delivered) \cup Elems(early) \cup Elems(inbox)
  /\ \A m \in trickled : m.event = "candidate"
  /\ \A m \in Elems(delivered) : m \in trickled /\ Mapped(m)
  /\ \A m \in Elems(early) : m \in trickled
  /\ \A m \in Elems(inbox) : m.event = "candidate" => m \in trickled
  /\ trickled # {} => offer # {}

IInv == Typed /\ Answering /\ Holding /\ InOrder /\ Kept

--------------------------------------------------------------------------------
(* Queues.                                                                  *)

LEMMA MessageFields ==
  ASSUME NEW m \in Messages
  PROVE  m.kind \in Kinds /\ m.n \in Nat /\ m.n <= MaxMessages
BY WebRTCAssumption DEF Messages

LEMMA EmptyQueue == Elems(<<>>) = {} /\ Ordered(<<>>) /\ <<>> \in Seq(Messages)
BY DEF Elems, Ordered

LEMMA ElemsTyped ==
  ASSUME NEW s \in Seq(Messages)
  PROVE  Elems(s) \subseteq Messages
BY DEF Elems

LEMMA TailQueue ==
  ASSUME NEW s \in Seq(Messages), s # <<>>
  PROVE  /\ Head(s) \in Messages /\ Tail(s) \in Seq(Messages)
         /\ Elems(s) = {Head(s)} \cup Elems(Tail(s))
         /\ Ordered(s) => Ordered(Tail(s)) /\ Before({Head(s)}, Elems(Tail(s)))
<1>1. Head(s) \in Messages /\ Tail(s) \in Seq(Messages) /\ Len(s) \in Nat \ {0}
  OBVIOUS
<1>2. Len(Tail(s)) = Len(s) - 1 /\ \A i \in 1..(Len(s) - 1) : Tail(s)[i] = s[i + 1]
  OBVIOUS
<1>3. Elems(s) = {Head(s)} \cup Elems(Tail(s))
  <2>1. ASSUME NEW i \in DOMAIN s  PROVE s[i] \in {Head(s)} \cup Elems(Tail(s))
    <3>1. CASE i = 1  BY <3>1
    <3>2. CASE i # 1
      <4>1. (i - 1) \in DOMAIN Tail(s) /\ Tail(s)[i - 1] = s[i]  BY <1>1, <1>2, <3>2
      <4> QED BY <4>1 DEF Elems
    <3> QED BY <3>1, <3>2
  <2>2. ASSUME NEW i \in DOMAIN Tail(s)  PROVE Tail(s)[i] \in Elems(s)
    <3>1. (i + 1) \in DOMAIN s /\ Tail(s)[i] = s[i + 1]  BY <1>1, <1>2
    <3> QED BY <3>1 DEF Elems
  <2>3. 1 \in DOMAIN s /\ Head(s) = s[1]  BY <1>1
  <2> QED BY <2>1, <2>2, <2>3 DEF Elems
<1>4. Ordered(s) => Ordered(Tail(s)) /\ Before({Head(s)}, Elems(Tail(s)))
  <2> SUFFICES ASSUME Ordered(s)  PROVE Ordered(Tail(s)) /\ Before({Head(s)}, Elems(Tail(s)))
    OBVIOUS
  <2>1. Ordered(Tail(s))
    <3> SUFFICES ASSUME NEW i \in DOMAIN Tail(s), NEW j \in DOMAIN Tail(s), i < j
                 PROVE  Tail(s)[i].n < Tail(s)[j].n
      BY DEF Ordered
    <3>1. (i + 1) \in DOMAIN s /\ (j + 1) \in DOMAIN s /\ i + 1 < j + 1  BY <1>1, <1>2
    <3>2. s[i + 1].n < s[j + 1].n  BY <3>1 DEF Ordered
    <3>3. Tail(s)[i] = s[i + 1] /\ Tail(s)[j] = s[j + 1]  BY <1>1, <1>2
    <3> QED BY <3>2, <3>3
  <2>2. ASSUME NEW i \in DOMAIN Tail(s)  PROVE Head(s).n < Tail(s)[i].n
    <3>1. 1 \in DOMAIN s /\ (i + 1) \in DOMAIN s /\ 1 < i + 1  BY <1>1, <1>2
    <3>2. s[1].n < s[i + 1].n  BY <3>1 DEF Ordered
    <3>3. Tail(s)[i] = s[i + 1] /\ Head(s) = s[1]  BY <1>1, <1>2
    <3> QED BY <3>2, <3>3
  <2> QED BY <2>1, <2>2 DEF Before, Elems
<1> QED BY <1>1, <1>3, <1>4

LEMMA AppendQueue ==
  ASSUME NEW s \in Seq(Messages), NEW m \in Messages
  PROVE  /\ Append(s, m) \in Seq(Messages) /\ Append(s, m) # <<>>
         /\ Elems(Append(s, m)) = Elems(s) \cup {m}
         /\ Ordered(s) /\ Before(Elems(s), {m}) => Ordered(Append(s, m))
<1>1. /\ Append(s, m) \in Seq(Messages) /\ Len(s) \in Nat /\ DOMAIN s = 1..Len(s)
      /\ DOMAIN Append(s, m) = 1..(Len(s) + 1) /\ Append(s, m)[Len(s) + 1] = m
      /\ \A i \in DOMAIN s : Append(s, m)[i] = s[i]
      /\ Append(s, m) # <<>>
  OBVIOUS
<1>2. Elems(Append(s, m)) = Elems(s) \cup {m}
  <2>1. ASSUME NEW i \in DOMAIN Append(s, m)  PROVE Append(s, m)[i] \in Elems(s) \cup {m}
    BY <1>1 DEF Elems
  <2>2. ASSUME NEW i \in DOMAIN s  PROVE s[i] \in Elems(Append(s, m))
    BY <1>1 DEF Elems
  <2>3. m \in Elems(Append(s, m))
    <3>1. (Len(s) + 1) \in DOMAIN Append(s, m)  BY <1>1
    <3> QED BY <1>1, <3>1 DEF Elems
  <2> QED BY <2>1, <2>2, <2>3 DEF Elems
<1>3. ASSUME Ordered(s), Before(Elems(s), {m})  PROVE Ordered(Append(s, m))
  <2> SUFFICES ASSUME NEW i \in DOMAIN Append(s, m), NEW j \in DOMAIN Append(s, m), i < j
               PROVE  Append(s, m)[i].n < Append(s, m)[j].n
    BY DEF Ordered
  <2>1. i \in DOMAIN s /\ Append(s, m)[i] = s[i]  BY <1>1
  <2>2. CASE j \in DOMAIN s  BY <1>1, <1>3, <2>1, <2>2 DEF Ordered
  <2>3. CASE j \notin DOMAIN s
    <3>1. Append(s, m)[j] = m  BY <1>1, <2>3
    <3>2. s[i].n < m.n  BY <1>3, <2>1 DEF Before, Elems
    <3> QED BY <2>1, <3>1, <3>2
  <2> QED BY <2>2, <2>3
<1> QED BY <1>1, <1>2, <1>3

(* Two ordered queues, one before the other, are one ordered queue.         *)
LEMMA JoinQueues ==
  ASSUME NEW s \in Seq(Messages), NEW t \in Seq(Messages),
         Ordered(s), Ordered(t), Before(Elems(s), Elems(t))
  PROVE  s \o t \in Seq(Messages) /\ Ordered(s \o t) /\ Elems(s \o t) = Elems(s) \cup Elems(t)
<1> DEFINE u == s \o t
<1>1. /\ u \in Seq(Messages) /\ Len(s) \in Nat /\ Len(t) \in Nat
      /\ DOMAIN s = 1..Len(s) /\ DOMAIN t = 1..Len(t) /\ DOMAIN u = 1..(Len(s) + Len(t))
      /\ \A i \in 1..(Len(s) + Len(t)) : u[i] = IF i <= Len(s) THEN s[i] ELSE t[i - Len(s)]
  OBVIOUS
<1> HIDE DEF u
<1>2. Ordered(u)
  <2> SUFFICES ASSUME NEW i \in DOMAIN u, NEW j \in DOMAIN u, i < j  PROVE u[i].n < u[j].n
    BY DEF Ordered
  <2>1. CASE j <= Len(s)
    <3>1. i \in DOMAIN s /\ j \in DOMAIN s /\ u[i] = s[i] /\ u[j] = s[j]  BY <1>1, <2>1
    <3> QED BY <3>1 DEF Ordered
  <2>2. CASE i <= Len(s) /\ ~(j <= Len(s))
    <3>1. i \in DOMAIN s /\ (j - Len(s)) \in DOMAIN t /\ u[i] = s[i] /\ u[j] = t[j - Len(s)]
      BY <1>1, <2>2
    <3> QED BY <3>1 DEF Before, Elems
  <2>3. CASE ~(i <= Len(s)) /\ ~(j <= Len(s))
    <3>1. /\ (i - Len(s)) \in DOMAIN t /\ (j - Len(s)) \in DOMAIN t /\ i - Len(s) < j - Len(s)
          /\ u[i] = t[i - Len(s)] /\ u[j] = t[j - Len(s)]
      BY <1>1, <2>3
    <3> QED BY <3>1 DEF Ordered
  <2> QED BY <1>1, <2>1, <2>2, <2>3
<1>3. Elems(u) = Elems(s) \cup Elems(t)
  <2>1. ASSUME NEW i \in DOMAIN u  PROVE u[i] \in Elems(s) \cup Elems(t)
    <3>1. CASE i <= Len(s)  BY <1>1, <3>1 DEF Elems
    <3>2. CASE ~(i <= Len(s))
      <4>1. (i - Len(s)) \in DOMAIN t /\ u[i] = t[i - Len(s)]  BY <1>1, <3>2
      <4> QED BY <4>1 DEF Elems
    <3> QED BY <3>1, <3>2
  <2>2. ASSUME NEW i \in DOMAIN s  PROVE s[i] \in Elems(u)
    <3>1. i \in DOMAIN u /\ u[i] = s[i]  BY <1>1
    <3> QED BY <3>1 DEF Elems
  <2>3. ASSUME NEW i \in DOMAIN t  PROVE t[i] \in Elems(u)
    <3>1. (i + Len(s)) \in DOMAIN u /\ u[i + Len(s)] = t[i]  BY <1>1
    <3> QED BY <3>1 DEF Elems
  <2> QED BY <2>1, <2>2, <2>3 DEF Elems
<1> QED BY <1>1, <1>2, <1>3 DEF u

--------------------------------------------------------------------------------
(* The invariant.                                                           *)

LEMMA InitIInv == Init => IInv
<1> SUFFICES ASSUME Init  PROVE IInv
  OBVIOUS
<1>1. Typed
  <2>1. heartbeat \in {"none", "sleep", "failed", "done"}  BY DEF Init
  <2>2. pro \in BOOLEAN  BY DEF Init
  <2>3. sent \in 0..MaxMessages  BY WebRTCAssumption DEF Init
  <2> QED BY <2>1, <2>2, <2>3, EmptyQueue DEF Init, Typed
<1>2. Answering /\ Holding  BY DEF Init, Answering, Holding
<1>3. InOrder /\ Kept  BY EmptyQueue DEF Init, InOrder, Kept, Before
<1> QED BY <1>1, <1>2, <1>3 DEF IInv

LEMMA SendOfferStep ==
  ASSUME IInv, NEW kinds \in SUBSET Kinds, SendOffer(kinds)
  PROVE  IInv'
<1> USE DEF SendOffer, reading, tasks, device
<1>1. Typed'
  BY DEF IInv, Typed
<1>2. Answering'
  BY DEF IInv, Answering, Typed
<1>3. Holding'
  BY DEF IInv, Holding, Typed, Answering
<1>4. InOrder'
  BY DEF IInv, InOrder, Typed, Before
<1>5. Kept'
  BY DEF IInv, Kept, Typed, Holding, Mapped
<1> QED BY <1>1, <1>2, <1>3, <1>4, <1>5 DEF IInv

LEMMA OfferSentStep ==
  ASSUME IInv, NEW k \in Kinds, OfferSent(k)
  PROVE  IInv'
<1> USE DEF OfferSent, reading, tasks, device
<1>1. Typed'
  BY DEF IInv, Typed
<1>2. Answering'
  BY DEF IInv, Answering, Typed
<1>3. Holding'
  BY DEF IInv, Holding, Typed, Answering
<1>4. InOrder'
  BY DEF IInv, InOrder, Typed, Before
<1>5. Kept'
  BY DEF IInv, Kept, Typed, Holding, Mapped
<1> QED BY <1>1, <1>2, <1>3, <1>4, <1>5 DEF IInv

LEMMA OfferFailsStep ==
  ASSUME IInv, OfferFails
  PROVE  IInv'
<1> USE DEF OfferFails, reading, tasks, device
<1>1. Typed'
  BY DEF IInv, Typed
<1>2. Answering'
  BY DEF IInv, Answering, Typed
<1>3. Holding'
  BY DEF IInv, Holding, Typed, Answering
<1>4. InOrder'
  BY DEF IInv, InOrder, Typed, Before
<1>5. Kept'
  BY DEF IInv, Kept, Typed, Holding, Mapped
<1> QED BY <1>1, <1>2, <1>3, <1>4, <1>5 DEF IInv

LEMMA DeviceSendsStep ==
  ASSUME IInv, NEW m \in Messages, DeviceSends(m)
  PROVE  IInv'
<1> USE DEF DeviceSends, offering, tasks
<1>b. /\ inbox \in Seq(Messages) /\ sent \in Nat /\ m.n \in Nat /\ m.n <= MaxMessages
      /\ Before(Elems(inbox), {m})
  BY MessageFields, WebRTCAssumption, ElemsTyped DEF IInv, Typed, InOrder, Before
<1>c. LET b == Append(inbox, m) IN
      b \in Seq(Messages) /\ Elems(b) = Elems(inbox) \cup {m} /\ (Ordered(inbox) => Ordered(b))
  BY <1>b, AppendQueue
<1>d. \A x \in Elems(delivered) \cup Elems(early) \cup Elems(inbox) : x.n \in Nat
  BY MessageFields, ElemsTyped DEF IInv, Typed
<1>1. Typed'
  BY <1>b, <1>c, <1>d, WebRTCAssumption DEF IInv, Typed
<1>2. Answering'
  BY <1>b, <1>c, <1>d, WebRTCAssumption DEF IInv, Answering, Typed
<1>3. Holding'
  BY <1>b, <1>c, <1>d, WebRTCAssumption DEF IInv, Holding, Typed, Answering
<1>4. InOrder'
  BY <1>b, <1>c, <1>d, WebRTCAssumption DEF IInv, InOrder, Typed, Before
<1>5. Kept'
  BY <1>b, <1>c, <1>d, WebRTCAssumption DEF IInv, Kept, Typed, Holding, Mapped
<1> QED BY <1>1, <1>2, <1>3, <1>4, <1>5 DEF IInv

LEMMA PeerClosesStep ==
  ASSUME IInv, PeerCloses
  PROVE  IInv'
<1> USE DEF PeerCloses, offering, reading, tasks, device
<1>1. Typed'
  BY DEF IInv, Typed
<1>2. Answering'
  BY DEF IInv, Answering, Typed
<1>3. Holding'
  BY DEF IInv, Holding, Typed, Answering
<1>4. InOrder'
  BY DEF IInv, InOrder, Typed, Before
<1>5. Kept'
  BY DEF IInv, Kept, Typed, Holding, Mapped
<1> QED BY <1>1, <1>2, <1>3, <1>4, <1>5 DEF IInv

LEMMA SkipStep ==
  ASSUME IInv, Skip
  PROVE  IInv'
<1> USE DEF Skip, Take, offering, tasks, device
<1>a. inbox \in Seq(Messages) /\ inbox # <<>>  BY DEF IInv, Typed
<1>b. /\ Head(inbox) \in Messages /\ Tail(inbox) \in Seq(Messages)
      /\ Elems(inbox) = {Head(inbox)} \cup Elems(Tail(inbox))
      /\ Ordered(inbox) => Ordered(Tail(inbox)) /\ Before({Head(inbox)}, Elems(Tail(inbox)))
  BY <1>a, TailQueue
<1>1. Typed'
  BY <1>b DEF IInv, Typed
<1>2. Answering'
  BY <1>b DEF IInv, Answering, Typed
<1>3. Holding'
  BY <1>b DEF IInv, Holding, Typed, Answering
<1>4. InOrder'
  BY <1>b DEF IInv, InOrder, Typed, Before
<1>5. Kept'
  BY <1>b DEF IInv, Kept, Typed, Holding, Mapped
<1> QED BY <1>1, <1>2, <1>3, <1>4, <1>5 DEF IInv

LEMMA PassAnswerStep ==
  ASSUME IInv, PassAnswer
  PROVE  IInv'
<1> USE DEF PassAnswer, Take, offering, tasks, device
<1>a. inbox \in Seq(Messages) /\ inbox # <<>>  BY DEF IInv, Typed
<1>b. /\ Head(inbox) \in Messages /\ Tail(inbox) \in Seq(Messages)
      /\ Elems(inbox) = {Head(inbox)} \cup Elems(Tail(inbox))
      /\ Ordered(inbox) => Ordered(Tail(inbox)) /\ Before({Head(inbox)}, Elems(Tail(inbox)))
  BY <1>a, TailQueue
<1>1. Typed'
  BY <1>b DEF IInv, Typed
<1>2. Answering'
  BY <1>b DEF IInv, Answering, Typed
<1>3. Holding'
  BY <1>b DEF IInv, Holding, Typed, Answering
<1>4. InOrder'
  BY <1>b DEF IInv, InOrder, Typed, Before
<1>5. Kept'
  BY <1>b DEF IInv, Kept, Typed, Holding, Mapped, Answers
<1> QED BY <1>1, <1>2, <1>3, <1>4, <1>5 DEF IInv

LEMMA ModeChangedStep ==
  ASSUME IInv, ModeChanged
  PROVE  IInv'
<1> USE DEF ModeChanged, Take, offering, tasks, device
<1>a. inbox \in Seq(Messages) /\ inbox # <<>>  BY DEF IInv, Typed
<1>b. /\ Head(inbox) \in Messages /\ Tail(inbox) \in Seq(Messages)
      /\ Elems(inbox) = {Head(inbox)} \cup Elems(Tail(inbox))
      /\ Ordered(inbox) => Ordered(Tail(inbox)) /\ Before({Head(inbox)}, Elems(Tail(inbox)))
  BY <1>a, TailQueue
<1>1. Typed'
  BY <1>b DEF IInv, Typed
<1>2. Answering'
  BY <1>b DEF IInv, Answering, Typed
<1>3. Holding'
  BY <1>b DEF IInv, Holding, Typed, Answering
<1>4. InOrder'
  BY <1>b DEF IInv, InOrder, Typed, Before
<1>5. Kept'
  BY <1>b DEF IInv, Kept, Typed, Holding, Mapped
<1> QED BY <1>1, <1>2, <1>3, <1>4, <1>5 DEF IInv

LEMMA TakeAnswerStep ==
  ASSUME IInv, TakeAnswer
  PROVE  IInv'
<1> USE DEF TakeAnswer, Take, Wanted, AllAnswered, offering, tasks, device
<1>a. inbox \in Seq(Messages) /\ inbox # <<>>  BY DEF IInv, Typed
<1>b. /\ Head(inbox) \in Messages /\ Tail(inbox) \in Seq(Messages)
      /\ Elems(inbox) = {Head(inbox)} \cup Elems(Tail(inbox))
      /\ Ordered(inbox) => Ordered(Tail(inbox)) /\ Before({Head(inbox)}, Elems(Tail(inbox)))
  BY <1>a, TailQueue
<1>1. Typed'
  BY <1>b DEF IInv, Typed
<1>2. Answering'
  BY <1>b DEF IInv, Answering, Typed
<1>3. Holding'
  BY <1>b DEF IInv, Holding, Typed, Answering
<1>4. InOrder'
  BY <1>b DEF IInv, InOrder, Typed, Before
<1>5. Kept'
  BY <1>b DEF IInv, Kept, Typed, Holding, Mapped, Answers
<1> QED BY <1>1, <1>2, <1>3, <1>4, <1>5 DEF IInv

LEMMA TakeCandidateStep ==
  ASSUME IInv, TakeCandidate
  PROVE  IInv'
<1> USE DEF TakeCandidate, Take, Holds, Deliver, Mapped, offering, tasks, device
<1>a. inbox \in Seq(Messages) /\ inbox # <<>>  BY DEF IInv, Typed
<1>b. /\ Head(inbox) \in Messages /\ Tail(inbox) \in Seq(Messages)
      /\ Elems(inbox) = {Head(inbox)} \cup Elems(Tail(inbox))
      /\ Ordered(inbox) => Ordered(Tail(inbox)) /\ Before({Head(inbox)}, Elems(Tail(inbox)))
  BY <1>a, TailQueue
<1>c. /\ early \in Seq(Messages) /\ delivered \in Seq(Messages)
      /\ Before(Elems(early), {Head(inbox)}) /\ Before(Elems(delivered), {Head(inbox)})
  BY <1>b DEF IInv, Typed, InOrder, Before
<1>d. LET e == Append(early, Head(inbox)) IN
      e \in Seq(Messages) /\ Elems(e) = Elems(early) \cup {Head(inbox)} /\ (Ordered(early) => Ordered(e)) /\ e # <<>>
  BY <1>b, <1>c, AppendQueue
<1>e. LET d == Append(delivered, Head(inbox)) IN
      d \in Seq(Messages) /\ Elems(d) = Elems(delivered) \cup {Head(inbox)} /\ (Ordered(delivered) => Ordered(d)) /\ d # <<>>
  BY <1>b, <1>c, AppendQueue
<1>f. early = <<>> \/ Holds
  BY DEF IInv, Holding, Typed
<1>1. Typed'
  BY <1>b, <1>c, <1>d, <1>e, <1>f, EmptyQueue DEF IInv, Typed
<1>2. Answering'
  BY <1>b, <1>c, <1>d, <1>e, <1>f, EmptyQueue DEF IInv, Answering, Typed
<1>3. Holding'
  BY <1>b, <1>c, <1>d, <1>e, <1>f, EmptyQueue DEF IInv, Holding, Typed, Answering
<1>4. InOrder'
  BY <1>b, <1>c, <1>d, <1>e, <1>f, EmptyQueue DEF IInv, InOrder, Typed, Before
<1>5. Kept'
  BY <1>b, <1>c, <1>d, <1>e, <1>f, EmptyQueue DEF IInv, Kept, Typed, Holding, Mapped
<1> QED BY <1>1, <1>2, <1>3, <1>4, <1>5 DEF IInv

LEMMA FlushStep ==
  ASSUME IInv, Flush
  PROVE  IInv'
<1> USE DEF Flush, Deliver, Mapped, offering, tasks, device
<1>b. /\ early \in Seq(Messages) /\ delivered \in Seq(Messages)
      /\ Head(early) \in Messages /\ Tail(early) \in Seq(Messages)
      /\ Elems(early) = {Head(early)} \cup Elems(Tail(early))
      /\ Ordered(early) => Ordered(Tail(early)) /\ Before({Head(early)}, Elems(Tail(early)))
  BY TailQueue DEF IInv, Typed
<1>c. Before(Elems(delivered), {Head(early)})
  BY <1>b DEF IInv, InOrder, Before
<1>e. LET d == Append(delivered, Head(early)) IN
      d \in Seq(Messages) /\ Elems(d) = Elems(delivered) \cup {Head(early)} /\ (Ordered(delivered) => Ordered(d)) /\ d # <<>>
  BY <1>b, <1>c, AppendQueue
<1>1. Typed'
  BY <1>b, <1>c, <1>e DEF IInv, Typed
<1>2. Answering'
  BY <1>b, <1>c, <1>e DEF IInv, Answering, Typed
<1>3. Holding'
  BY <1>b, <1>c, <1>e DEF IInv, Holding, Typed, Answering
<1>4. InOrder'
  BY <1>b, <1>c, <1>e DEF IInv, InOrder, Typed, Before
<1>5. Kept'
  BY <1>b, <1>c, <1>e DEF IInv, Kept, Typed, Holding, Mapped
<1> QED BY <1>1, <1>2, <1>3, <1>4, <1>5 DEF IInv

LEMMA FlushedStep ==
  ASSUME IInv, Flushed
  PROVE  IInv'
<1> USE DEF Flushed, offering, tasks, device
<1>1. Typed'
  BY DEF IInv, Typed
<1>2. Answering'
  BY DEF IInv, Answering, Typed
<1>3. Holding'
  BY DEF IInv, Holding, Typed, Answering
<1>4. InOrder'
  BY DEF IInv, InOrder, Typed, Before
<1>5. Kept'
  BY DEF IInv, Kept, Typed, Holding, Mapped
<1> QED BY <1>1, <1>2, <1>3, <1>4, <1>5 DEF IInv

LEMMA EndOfIterationStep ==
  ASSUME IInv, EndOfIteration
  PROVE  IInv'
<1> USE DEF EndOfIteration, offering, tasks, device
<1>1. Typed'
  BY DEF IInv, Typed
<1>2. Answering'
  BY DEF IInv, Answering, Typed
<1>3. Holding'
  BY DEF IInv, Holding, Typed, Answering
<1>4. InOrder'
  BY DEF IInv, InOrder, Typed, Before
<1>5. Kept'
  BY DEF IInv, Kept, Typed, Holding, Mapped
<1> QED BY <1>1, <1>2, <1>3, <1>4, <1>5 DEF IInv

LEMMA HeartbeatFailsStep ==
  ASSUME IInv, HeartbeatFails
  PROVE  IInv'
<1> USE DEF HeartbeatFails, SeenClosed, OnFailure, offering, reading, device
<1>1. Typed'
  BY DEF IInv, Typed
<1>2. Answering'
  BY DEF IInv, Answering, Typed
<1>3. Holding'
  BY DEF IInv, Holding, Typed, Answering
<1>4. InOrder'
  BY DEF IInv, InOrder, Typed, Before
<1>5. Kept'
  BY DEF IInv, Kept, Typed, Holding, Mapped
<1> QED BY <1>1, <1>2, <1>3, <1>4, <1>5 DEF IInv

LEMMA HeartbeatEndsStep ==
  ASSUME IInv, HeartbeatEnds
  PROVE  IInv'
<1> USE DEF HeartbeatEnds, SeenClosed, offering, reading, device
<1>1. Typed'
  BY DEF IInv, Typed
<1>2. Answering'
  BY DEF IInv, Answering, Typed
<1>3. Holding'
  BY DEF IInv, Holding, Typed, Answering
<1>4. InOrder'
  BY DEF IInv, InOrder, Typed, Before
<1>5. Kept'
  BY DEF IInv, Kept, Typed, Holding, Mapped
<1> QED BY <1>1, <1>2, <1>3, <1>4, <1>5 DEF IInv

LEMMA CloseStep ==
  ASSUME IInv, Close
  PROVE  IInv'
<1> USE DEF Close, offering, reading, device
<1>1. Typed'
  BY DEF IInv, Typed
<1>2. Answering'
  BY DEF IInv, Answering, Typed
<1>3. Holding'
  BY DEF IInv, Holding, Typed, Answering
<1>4. InOrder'
  BY DEF IInv, InOrder, Typed, Before
<1>5. Kept'
  BY DEF IInv, Kept, Typed, Holding, Mapped
<1> QED BY <1>1, <1>2, <1>3, <1>4, <1>5 DEF IInv

LEMMA HeartbeatCancelledStep ==
  ASSUME IInv, HeartbeatCancelled
  PROVE  IInv'
<1> USE DEF HeartbeatCancelled, offering, reading, device
<1>1. Typed'
  BY DEF IInv, Typed
<1>2. Answering'
  BY DEF IInv, Answering, Typed
<1>3. Holding'
  BY DEF IInv, Holding, Typed, Answering
<1>4. InOrder'
  BY DEF IInv, InOrder, Typed, Before
<1>5. Kept'
  BY DEF IInv, Kept, Typed, Holding, Mapped
<1> QED BY <1>1, <1>2, <1>3, <1>4, <1>5 DEF IInv

LEMMA ClosedStep ==
  ASSUME IInv, Closed
  PROVE  IInv'
<1> USE DEF Closed, offering, reading, device
<1>1. Typed'
  BY DEF IInv, Typed
<1>2. Answering'
  BY DEF IInv, Answering, Typed
<1>3. Holding'
  BY DEF IInv, Holding, Typed, Answering
<1>4. InOrder'
  BY DEF IInv, InOrder, Typed, Before
<1>5. Kept'
  BY DEF IInv, Kept, Typed, Holding, Mapped
<1> QED BY <1>1, <1>2, <1>3, <1>4, <1>5 DEF IInv

LEMMA NextIInv == IInv /\ [Next]_vars => IInv'
<1> SUFFICES ASSUME IInv, [Next]_vars  PROVE IInv'
  OBVIOUS
<1>1. CASE UNCHANGED vars
  BY <1>1 DEF vars, IInv, Typed, Answering, Holding, InOrder, Kept, Mapped
<1>2. CASE Next
  BY <1>2, SendOfferStep, OfferSentStep, OfferFailsStep, DeviceSendsStep, PeerClosesStep,
     SkipStep, PassAnswerStep, ModeChangedStep, TakeAnswerStep, TakeCandidateStep,
     FlushStep, FlushedStep, EndOfIterationStep, HeartbeatFailsStep, HeartbeatEndsStep,
     CloseStep, HeartbeatCancelledStep, ClosedStep
  DEF Next, Iterate
<1> QED BY <1>1, <1>2

(* IInv is inductive.                                                       *)
THEOREM Inductive == Spec => []IInv
<1>1. Init => IInv  BY InitIInv
<1>2. IInv /\ [Next]_vars => IInv'  BY NextIInv
<1> QED BY <1>1, <1>2, PTL DEF Spec

(* Type correctness; and the session keeps one answer for each offered kind.*)
THEOREM TypeOKThm == Spec => []TypeOK
<1>1. IInv => TypeOK
  BY DEF IInv, Typed, Answering, TypeOK, KindsOf
<1> QED BY <1>1, Inductive, PTL

(* The candidates the caller got, those that are held and those that wait   *)
(* unread are in the order the device sent them, none is missing, and the   *)
(* Pro's come after the answer.                                             *)
THEOREM CandidatesKeepOrderThm == Spec => []CandidatesKeepOrder
<1>1. IInv => CandidatesKeepOrder
  <2> SUFFICES ASSUME IInv  PROVE CandidatesKeepOrder
    OBVIOUS
  <2> DEFINE held == delivered \o early
             queue == delivered \o early \o inbox
  <2>1. /\ delivered \in Seq(Messages) /\ early \in Seq(Messages) /\ inbox \in Seq(Messages)
        /\ Ordered(delivered) /\ Ordered(early) /\ Ordered(inbox)
        /\ Before(Elems(delivered), Elems(early))
    BY DEF IInv, Typed, InOrder
  <2>2. held \in Seq(Messages) /\ Ordered(held) /\ Elems(held) = Elems(delivered) \cup Elems(early)
    BY <2>1, JoinQueues
  <2>3. Before(Elems(held), Elems(inbox))
    BY <2>2 DEF IInv, InOrder, Before
  <2> HIDE DEF held
  <2>4. Ordered(held \o inbox) /\ Elems(held \o inbox) = Elems(held) \cup Elems(inbox)
    BY <2>1, <2>2, <2>3, JoinQueues
  <2>5. Ordered(queue) /\ Elems(queue) = Elems(delivered) \cup Elems(early) \cup Elems(inbox)
    BY <2>2, <2>4 DEF held
  <2> HIDE DEF queue
  <2>6. \A i, j \in DOMAIN queue : i < j => queue[i].n < queue[j].n
    BY <2>5 DEF Ordered
  <2>7. \A m \in trickled : Mapped(m) => \E i \in DOMAIN queue : queue[i] = m
    BY <2>5 DEF IInv, Kept, Elems
  <2>8. \A i \in DOMAIN delivered : delivered[i] \in trickled /\ Mapped(delivered[i])
    BY DEF IInv, Kept, Elems
  <2>9. pro /\ delivered # <<>> => answer # {}
    BY DEF IInv, Holding
  <2> QED BY <2>6, <2>7, <2>8, <2>9 DEF CandidatesKeepOrder, queue
<1> QED BY <1>1, Inductive, PTL

(* A Pro's caller gets one answer, once, and it answers every kind of the   *)
(* offer with a media section.                                              *)
THEOREM AnswerIsCompleteThm == Spec => AnswerIsComplete
<1>1. IInv /\ [Next]_vars =>
        [pro /\ answer' # answer =>
           /\ answer = {} /\ KindsOf(answer') = offer
           /\ \A a \in answer' : a.event = "answer"]_vars
  <2> SUFFICES ASSUME IInv, Next, pro, answer' # answer
               PROVE  /\ answer = {} /\ KindsOf(answer') = offer
                      /\ \A a \in answer' : a.event = "answer"
    BY DEF vars
  <2>1. TakeAnswer
    BY DEF Next, Iterate, SendOffer, reading, tasks, device, OfferSent, OfferFails, DeviceSends, offering,
     PeerCloses, Skip, Take, PassAnswer, ModeChanged, TakeCandidate, Deliver, Flush,
     Flushed, EndOfIteration, HeartbeatFails, OnFailure, HeartbeatEnds, Close, HeartbeatCancelled, Closed
  <2> DEFINE m == Head(inbox)
             S == {a \in answers : a.kind # m.kind} \cup {m}
  <2>2. Wanted(m) /\ AllAnswered(S) /\ (\A a \in S : a.event = "answer") /\ answer' = S
    BY <2>1 DEF TakeAnswer
  <2>3. ~answered /\ m.kind \in offer /\ offer \subseteq KindsOf(S)
    BY <2>2 DEF Wanted, AllAnswered
  <2>4. answer = {}  BY <2>3 DEF IInv, Answering
  <2>5. KindsOf(S) = offer  BY <2>3 DEF IInv, Answering, KindsOf
  <2> QED BY <2>2, <2>4, <2>5
<1> QED BY <1>1, Inductive, PTL DEF Spec, AnswerIsComplete

--------------------------------------------------------------------------------
(* Candidates between the sections of an offer and the peers of a Pro.      *)

(* A set of numbers that has a member has a smallest one.                   *)
LEMMA Smallest ==
  ASSUME NEW S \in SUBSET Nat, S # {}
  PROVE  \E n \in S : \A m \in S : n <= m
<1>1. PICK n \in S : \A m \in S : ~(<<m, n>> \in OpToRel(<, Nat))
  BY NatLessThanWellFounded, WFMin
<1>2. \A m \in S : ~(m < n)  BY <1>1 DEF OpToRel
<1> QED BY <1>2

(* An offer of any length. *)
AnyOffer == Seq(Sections)

(* The sections of an offer that are offered to the device: each is told    *)
(* from the others by its index and by its kind.                            *)
LEMMA SplitSections ==
  ASSUME NEW sdp \in AnyOffer
  PROVE  \A r, s \in Split(sdp) : (r.index = s.index \/ r.kind = s.kind) => r = s
<1> SUFFICES ASSUME NEW i \in DOMAIN sdp, IsSplit(sdp, i), NEW j \in DOMAIN sdp, IsSplit(sdp, j),
                    \/ Section(sdp, i).index = Section(sdp, j).index
                    \/ Section(sdp, i).kind = Section(sdp, j).kind
             PROVE  i = j
  BY DEF Split
<1>1. i \in Nat /\ j \in Nat /\ 1 <= i /\ 1 <= j  BY DEF AnyOffer
<1>2. CASE Section(sdp, i).index = Section(sdp, j).index
  BY <1>1, <1>2 DEF Section, Index
<1>3. CASE sdp[i].kind = sdp[j].kind
  BY <1>1, <1>3 DEF IsSplit
<1> QED BY <1>2, <1>3 DEF Section

(* A candidate that fits one section goes to the peer of its kind.          *)
LEMMA OneKind ==
  ASSUME NEW s, s.index \in Int
  PROVE  FirstKind({s}) = {s.kind}
<1>1. s.index <= s.index  OBVIOUS
<1>2. {r \in {s} : \A q \in {s} : r.index <= q.index} = {s}  BY <1>1
<1> QED BY <1>2 DEF FirstKind

(* Every kind of media in an offer, however many sections it has, has       *)
(* exactly one section that candidates of the Pro are given                 *)
(* (streaming.md:94; ProWebRTCOffer.client_candidate_for_kind).             *)
LEMMA KindsHaveOneSection ==
  ASSUME NEW sdp \in AnyOffer, NEW kind \in Supported
  PROVE  (\E i \in DOMAIN sdp : sdp[i].kind = kind) <=> \E c : ClientCandidates(sdp, kind) = {c}
<1> DEFINE D == {i \in DOMAIN sdp : sdp[i].kind = kind}
           Place(s) == [mid |-> s.mid, index |-> s.index]
<1>1. ASSUME D # {}  PROVE \E c : ClientCandidates(sdp, kind) = {c}
  <2>1. D \in SUBSET Nat  BY DEF AnyOffer
  <2>2. PICK i \in D : \A j \in D : i <= j  BY <1>1, <2>1, Smallest
  <2>3. IsSplit(sdp, i)  BY <2>1, <2>2 DEF IsSplit, AnyOffer
  <2>4. Section(sdp, i) \in Split(sdp) /\ Section(sdp, i).kind = kind
    BY <2>2, <2>3 DEF Split, Section
  <2>5. \A s \in Split(sdp) : s.kind = kind => s = Section(sdp, i)
    BY <2>4, SplitSections
  <2>6. ClientCandidates(sdp, kind) = {Place(Section(sdp, i))}
    BY <2>4, <2>5 DEF ClientCandidates
  <2> QED BY <2>6
<1>2. ASSUME NEW c, c \in ClientCandidates(sdp, kind)  PROVE D # {}
  BY <1>2 DEF ClientCandidates, Split, Section
<1> QED BY <1>1, <1>2

(* A candidate from the peer of a kind, which the caller gives back as it   *)
(* came or with nothing but its index, goes to that peer and no other, in   *)
(* any offer whose sections have different mids                             *)
(* (ProWebRTCOffer.kinds_for_candidate).                                    *)
LEMMA CandidatesReturnToTheirPeer ==
  ASSUME NEW sdp \in AnyOffer, NEW kind \in Supported, NEW c \in ClientCandidates(sdp, kind),
         \A r, s \in Split(sdp) : r.mid = s.mid => r = s,
         \A s \in Split(sdp) : s.mid # NoMid,
         NEW d \in {c, [c EXCEPT !.mid = NoMid]}
  PROVE  UpstreamCandidates(sdp, d) = {[kind |-> kind, mid |-> Text(0), index |-> 0]}
<1>1. PICK s \in Split(sdp) : s.kind = kind /\ c = [mid |-> s.mid, index |-> s.index]
  BY DEF ClientCandidates
<1> DEFINE byMid == {r \in Split(sdp) : r.mid = d.mid}
           byIndex == {r \in Split(sdp) : r.index = d.index}
<1>2. byMid = {s} \/ (byMid = {} /\ byIndex = {s})
  <2>1. CASE d = c  BY <1>1, <2>1
  <2>2. CASE d = [c EXCEPT !.mid = NoMid]
    <3>1. d.mid = NoMid /\ d.index = s.index  BY <1>1, <2>2
    <3> QED BY <1>1, <3>1, SplitSections
  <2> QED BY <2>1, <2>2
<1>3. KindsForCandidate(sdp, d) = {kind}
  <2>1. s.index \in Int  BY <1>1 DEF Split, Section, Index, AnyOffer
  <2>2. FirstKind({s}) = {kind}  BY <1>1, <2>1, OneKind
  <2> HIDE DEF byMid, byIndex
  <2>3. byMid # {} <=> byMid = {s}  BY <1>2
  <2>4. byMid = {} => byIndex = {s}  BY <1>2
  <2> QED BY <2>2, <2>3, <2>4 DEF KindsForCandidate, byMid, byIndex
<1> QED BY <1>3 DEF UpstreamCandidates

(* Offers whose sections all have a mid of their own, or none, tell the     *)
(* sections apart by their mids.                                            *)
LEMMA MidsNameSections ==
  ASSUME NEW o \in Offers
  PROVE  /\ o \in AnyOffer
         /\ \A r, s \in Split(o) : r.mid = s.mid => r = s
         /\ \A s \in Split(o) : s.mid # NoMid
<1>1. PICK k \in 1..MaxSections : o \in [1..k -> Sections]  BY DEF Offers
<1>2. \A i \in 1..k : o[i] \in Sections  BY <1>1
<1>3. DOMAIN o = 1..k /\ k \in Nat  BY <1>1, ProOfferAssumption
<1>4. o \in AnyOffer  BY <1>1, <1>3 DEF AnyOffer
<1>5. \A i, j \in Nat : Text(i) # NoMid /\ (Text(i) = Text(j) => i = j)
  BY DEF Text, NoMid
<1>6. ASSUME NEW i \in 1..k, NEW j \in 1..k, Section(o, i).mid = Section(o, j).mid
      PROVE  i = j
  <2>1. Index(i) \in Nat /\ Index(j) \in Nat /\ (Index(i) = Index(j) => i = j)
    BY <1>3 DEF Index
  <2>2. CASE \A n \in DOMAIN o : o[n].mid = NoMid
    BY <1>3, <1>5, <1>6, <2>1, <2>2 DEF Section
  <2>3. CASE /\ \A n \in DOMAIN o : o[n].mid # NoMid
             /\ \A n, m \in DOMAIN o : o[n].mid = o[m].mid => n = m
    BY <1>3, <1>6, <2>3 DEF Section
  <2> QED BY <2>2, <2>3 DEF Offers
<1>7. ASSUME NEW i \in 1..k  PROVE Section(o, i).mid # NoMid
  <2>1. Index(i) \in Nat  BY <1>3 DEF Index
  <2> QED BY <1>5, <2>1 DEF Section
<1>8. \A s \in Split(o) : \E i \in 1..k : s = Section(o, i)
  BY <1>3 DEF Split
<1> QED BY <1>4, <1>6, <1>7, <1>8

(* In every offer each kind of media has one section, and a candidate that  *)
(* the caller gives back goes to the peer that it came from.                *)
THEOREM CandidatesFindTheirPeerThm == Spec => []CandidatesFindTheirPeer
<1>1. KindsHaveSections
  <2> SUFFICES ASSUME NEW o \in Offers, NEW kind \in Supported
               PROVE  (\E i \in DOMAIN o : o[i].kind = kind) <=>
                        Cardinality(ClientCandidates(o, kind)) = 1
    BY DEF KindsHaveSections
  <2>1. (\E i \in DOMAIN o : o[i].kind = kind) <=> \E c : ClientCandidates(o, kind) = {c}
    BY MidsNameSections, KindsHaveOneSection
  <2>2. ASSUME NEW c, ClientCandidates(o, kind) = {c}
        PROVE  Cardinality(ClientCandidates(o, kind)) = 1
    BY <2>2, FS_Singleton
  <2>3. ASSUME ~\E i \in DOMAIN o : o[i].kind = kind
        PROVE  Cardinality(ClientCandidates(o, kind)) # 1
    <3>1. ClientCandidates(o, kind) = {}  BY <2>3 DEF ClientCandidates, Split, Section
    <3> QED BY <3>1, FS_EmptySet
  <2> QED BY <2>1, <2>2, <2>3
<1>2. CandidatesReturn
  <2> SUFFICES ASSUME NEW o \in Offers, NEW kind \in Supported,
                      NEW c \in ClientCandidates(o, kind), NEW d \in {c, [c EXCEPT !.mid = NoMid]}
               PROVE  UpstreamCandidates(o, d) = {[kind |-> kind, mid |-> Text(0), index |-> 0]}
    BY DEF CandidatesReturn
  <2>1. /\ o \in AnyOffer
        /\ \A r, s \in Split(o) : r.mid = s.mid => r = s
        /\ \A s \in Split(o) : s.mid # NoMid
    BY MidsNameSections
  <2> QED BY <2>1, CandidatesReturnToTheirPeer, Zenon
<1>3. CandidatesFindTheirPeer  BY <1>1, <1>2 DEF CandidatesFindTheirPeer
<1> QED BY <1>3, PTL
================================================================================
