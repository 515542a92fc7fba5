----------------------------- MODULE MCStreamRunner ------------------------------
(***************************************************************************)
(* Model checking of StreamRunner: a coding session and two patients, whose*)
(* lifetimes differ by more than the clock ever shows, as those of ttl.py  *)
(* do.                                                                     *)
(***************************************************************************)
EXTENDS StreamRunner, TLC

CONSTANTS c1, p1, p2, repo, base

Sessions == {c1, p1, p2}
SomeRoles == {"coding", "patient", NoRole}
Lifetimes == [coding |-> 30, patient |-> 1]
RolesOf == [s \in Sessions |-> IF s = c1 THEN "coding" ELSE "patient"]
SharedBy == [s \in Sessions |-> IF s = c1 THEN <<<<repo, 1>>>> ELSE <<<<base, 1>>, <<base, 2>>>>]
OwnedBy == [s \in Sessions |-> [i \in 1..3 |-> <<s, i>>]]
Blocks == {<<repo, 1>>, <<base, 1>>, <<base, 2>>} \cup (Sessions \X (1..3))

ASSUME RunApart == LifetimesApart

Alike == Permutations({p1, p2})
================================================================================
