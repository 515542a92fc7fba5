------------------------------- MODULE LeaseTable -------------------------------
(***************************************************************************)
(* What a lease index promises, with no paths and no block records: the    *)
(* leases are a relation between holders and resources.  A request         *)
(* replaces ALL the leases of its holder by what it wants now, a close     *)
(* drops them all, and no step changes the leases of another holder.       *)
(***************************************************************************)
CONSTANTS
    Holder,     \* who may hold a lease
    Resource    \* what may be leased

VARIABLES
    wants,      \* holder -> the resources its last request named
    leases      \* set of <<holder, resource>>

vars == <<wants, leases>>

Init ==
    /\ wants = [h \in Holder |-> {}]
    /\ leases = {}

Others(h) == {l \in leases : l[1] # h}

\* h names the resources it wants and holds these and no others.
Request(h) ==
    /\ wants'[h] \subseteq Resource
    /\ wants' = [wants EXCEPT ![h] = wants'[h]]
    /\ leases' = Others(h) \cup ({h} \X wants'[h])

Close(h) ==
    /\ wants' = [wants EXCEPT ![h] = {}]
    /\ leases' = Others(h)

Next == \E h \in Holder : Request(h) \/ Close(h)

Spec == Init /\ [][Next]_vars
================================================================================
