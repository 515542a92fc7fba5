------------------------------- MODULE MCAcrValue --------------------------------
(***************************************************************************)
(* Model checking of AcrValue: three blocks for two slots, the weights of  *)
(* policy.py times ten, and a rent that makes a full tier charge a block   *)
(* without history more than it is expected to save, as the defaults do.   *)
(***************************************************************************)
EXTENDS AcrValue

RoleWeights == [patient |-> 16, reviewer |-> 10]
BothRoles == DOMAIN RoleWeights

\* 1 - (1 - FLOOR_P)^n for n leases, times a hundred.
TimesFloor == <<5, 10, 14, 19, 23, 26, 30, 34>>

Hint(role, eta, leases) == [role |-> role, eta |-> eta, leases |-> leases]

SomeHints == {NoHints, Hint("patient", 2, 0), Hint("reviewer", 0, 2)}
================================================================================
