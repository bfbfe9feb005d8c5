----------------------------- MODULE PointerReports -----------------------------
(* The numbers in a binary mouse report: nanokvm/components/mouse.py. A     *)
(* relative value times 127, and an absolute one times 32767, is given in   *)
(* halves, the finest step that rounding tells apart.                       *)
EXTENDS Integers

CONSTANT Halves  \* the values reported
ASSUME HalvesAssumption == Halves \subseteq Int

Clamp_Never(value, minimum, maximum) == value
Clamp(value, minimum, maximum) ==
  IF value < minimum THEN minimum ELSE IF value > maximum THEN maximum ELSE value

(* Python rounds a half to the even neighbour. *)
Round(halves) ==
  LET floor == halves \div 2
  IN IF halves % 2 = 1 /\ floor % 2 = 1 THEN floor + 1 ELSE floor

RelativeByte(halves) == Clamp(Round(halves), -127, 127) % 256

AbsoluteValue(halves) == Clamp(Round(Clamp(halves, 0, 65534)), 0, 32767)
AbsoluteBytes(halves) == <<AbsoluteValue(halves) % 256, (AbsoluteValue(halves) \div 256) % 256>>

(* What the host reads from the bytes it got is the value they came from, at*)
(* most half a step off and cut off at the ends: a large movement never     *)
(* turns round and a position never wraps (mouse.py:24).                    *)
Signed(byte) == IF byte > 127 THEN byte - 256 ELSE byte
Near(value, h) == 2 * value - h \in -1..1

MovementsKeep ==
  \A h \in Halves :
    LET dx == Signed(RelativeByte(h))
    IN Near(dx, h) \/ (h > 254 /\ dx = 127) \/ (h < -254 /\ dx = -127)

PositionsKeep ==
  \A h \in Halves :
    LET x == AbsoluteBytes(h)[1] + 256 * AbsoluteBytes(h)[2]
    IN Near(x, h) \/ (h > 65534 /\ x = 32767) \/ (h < 0 /\ x = 0)
================================================================================
