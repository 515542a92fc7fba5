---------------------------- MODULE MCSyntheticMix ----------------------------
(* A coding session and a patient; blocks of two tokens.  As with the        *)
(* generator's defaults a turn grows by a block or more and a cut takes more *)
(* than the smaller growths; it may reach the shared root.                   *)
EXTENDS SyntheticMix

CONSTANTS code1, patient1

TwoSessions == {code1, patient1}
TwoRoles == {"supervisor", "patient"}
Roles == [s \in TwoSessions |-> IF s = patient1 THEN "patient" ELSE "supervisor"]
Roots == [r \in TwoRoles |-> 3]
================================================================================
