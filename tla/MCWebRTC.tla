-------------------------------- MODULE MCWebRTC --------------------------------
(* WebRTC with both media kinds; the device sends three messages. And the   *)
(* mapping of candidates in ProOffer on every small offer, which TLC        *)
(* evaluates once.                                                          *)
EXTENDS WebRTC

CONSTANTS video, audio
Media == {video, audio}

SomeMids == {Text(0), Text(1), Text(2)}
================================================================================
