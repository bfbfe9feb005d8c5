\* Signaling with a device that answers, trickles, closes or stops hearing heartbeats.
SPECIFICATION Spec
CONSTANTS
  video = video
  audio = audio
  Kinds <- Media
  First = video
  MaxMessages = 3
  MaxSections = 3
  Mids <- SomeMids
INVARIANTS
  TypeOK
  CandidatesKeepOrder
  CandidatesFindTheirPeer
PROPERTIES
  AnswerIsComplete
  HeartbeatFailureIsHeard
CHECK_DEADLOCK FALSE
