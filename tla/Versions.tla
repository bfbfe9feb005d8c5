-------------------------------- MODULE Versions --------------------------------
(* Version and hardware gates: nanokvm/compatibility.py, and                *)
(* application_version_at_least of components/session.py. A version is what *)
(* _parse_version makes of it: the numbers between the dots, or a custom    *)
(* build that has none.                                                     *)
EXTENDS Naturals, Sequences

CONSTANTS MaxPart,  \* bound: the largest number in a version
          Minimums  \* the minimums that gates ask for

Custom == [custom |-> TRUE, parts |-> <<>>]
Release(parts) == [custom |-> FALSE, parts |-> parts]

Longer(s, t) == IF Len(s) >= Len(t) THEN Len(s) ELSE Len(t)
Padded(s, n) == [i \in 1..n |-> IF i <= Len(s) THEN s[i] ELSE 0]

(* Tuples compare by their first difference, a prefix before the longer one. *)
TupleAtLeast(s, t) ==
  \/ \E i \in DOMAIN s :
       /\ i \in DOMAIN t => s[i] > t[i]
       /\ \A j \in 1..(i - 1) : j \in DOMAIN t /\ s[j] = t[j]
  \/ s = t

VersionAtLeast_Unpadded(v, m) ==
  v.custom \/ m.custom \/ TupleAtLeast(v.parts, m.parts)
VersionAtLeast(v, m) ==
  LET n == Longer(v.parts, m.parts)
  IN v.custom \/ m.custom \/ TupleAtLeast(Padded(v.parts, n), Padded(m.parts, n))

(* Gates. What the client knows, [hw, version, token], has NoHw and         *)
(* NoVersion for what it has not detected; a device is [hw, version]. With  *)
(* a token the gate asks the device.                                        *)
NoHw == "None"
NoVersion == Release(<<>>)
HWVersions == {"Alpha", "Beta", "PCIE", "Pro", "Unknown"}
Family(hw) ==
  CASE hw = "Pro" -> "Pro" [] hw \in {"Alpha", "Beta", "PCIE"} -> "non-Pro" [] OTHER -> "none"

HwSeen(c, d) == IF c.hw = NoHw /\ c.token THEN d.hw ELSE c.hw
VersionSeen(c, d) == IF c.version = NoVersion /\ c.token THEN d.version ELSE c.version

(* `needs` has the minimum of each family, or NoVersion.                    *)
ApplicationVersionAtLeast(c, d, needs) ==
  LET minimum == IF Family(HwSeen(c, d)) = "Pro" THEN needs.pro ELSE needs.non_pro
  IN \/ HwSeen(c, d) = NoHw \/ minimum = NoVersion \/ VersionSeen(c, d) = NoVersion
     \/ VersionAtLeast(VersionSeen(c, d), minimum)

(* require_hardware takes exact versions or families, and needs to know the *)
(* hardware; its min_version is asked of whatever hardware matches.         *)
RequireHardware(c, d, allowed, minimum) ==
  /\ HwSeen(c, d) # NoHw
  /\ HwSeen(c, d) \in allowed \/ Family(HwSeen(c, d)) \in allowed
  /\ ApplicationVersionAtLeast(c, d, [non_pro |-> minimum, pro |-> minimum])

--------------------------------------------------------------------------------
(* A reference definition, with no comparison of tuples: a release of up to *)
(* three numbers is one number, with the numbers as its digits.             *)
Releases == UNION {{Release(s) : s \in [1..k -> 0..MaxPart]} : k \in 1..3}
AllVersions == Releases \cup {Custom}

ASSUME VersionsAssumption ==
  MaxPart \in Nat /\ Minimums \subseteq AllVersions \cup {NoVersion}

Digit(v, i) == IF i \in DOMAIN v.parts THEN v.parts[i] ELSE 0
Number(v) ==
  LET base == MaxPart + 1
  IN (Digit(v, 1) * base + Digit(v, 2)) * base + Digit(v, 3)

Meets(v, minimum) ==
  minimum = NoVersion \/ v.custom \/ minimum.custom \/ Number(v) >= Number(minimum)

(* Releases are ordered as the numbers they are, whatever zeros are left    *)
(* out at the end, and nothing is refused to a custom build                 *)
(* (compatibility.py:27).                                                   *)
VersionsCompare == \A v, w \in AllVersions : VersionAtLeast(v, w) <=> Meets(v, w)

(* A device, and a client whose caches, where it has any, agree with it.    *)
Devices == [hw : HWVersions, version : AllVersions]
Clients(d) == [hw : {d.hw, NoHw}, version : {d.version, NoVersion}, token : BOOLEAN]
Undetected(c) == ~c.token /\ c.version = NoVersion

(* A gate lets a client that is logged in through exactly when its device   *)
(* meets the minimum of its own family and is of the hardware asked for,    *)
(* whether the client has detected it already or not; without a login, a    *)
(* client that knows nothing passes a version gate and fails a hardware     *)
(* gate (session.py:637, compatibility.py:60).                              *)
VersionGate ==
  \A d \in Devices, non_pro, pro \in Minimums :
    \A c \in Clients(d) :
      ApplicationVersionAtLeast(c, d, [non_pro |-> non_pro, pro |-> pro]) <=>
        \/ ~c.token /\ c.hw = NoHw
        \/ Undetected(c)
        \/ Meets(d.version, IF d.hw = "Pro" THEN pro ELSE non_pro)

HardwareGate ==
  \A d \in Devices, allowed \in SUBSET (HWVersions \cup {"non-Pro"}), minimum \in Minimums :
    \A c \in Clients(d) :
      RequireHardware(c, d, allowed, minimum) <=>
        /\ c.token \/ c.hw # NoHw
        /\ d.hw \in allowed \/ Family(d.hw) \in allowed
        /\ Undetected(c) \/ Meets(d.version, minimum)
================================================================================
