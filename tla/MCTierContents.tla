----------------------------- MODULE MCTierContents -----------------------------
(***************************************************************************)
(* Model checking of TierContents: three blocks under every policy, and    *)
(* for adaptive_value every way in which two sessions may hold them, with  *)
(* two densities.                                                          *)
(***************************************************************************)
EXTENDS TierContents

CONSTANTS k1, k2, k3, s1, s2

MCKey == {k1, k2, k3}
Depth == [k \in MCKey |-> IF k = k1 THEN 0 ELSE IF k = k2 THEN 1 ELSE 2]

View(leases, density) ==
    [density |-> density, leases |-> leases, depth |-> Depth,
     shared |-> [k \in MCKey |-> Cardinality(leases[k]) > 1],
     chain_bytes |-> [k \in MCKey |-> 2], session_eta |-> [k \in MCKey |-> 0]]

\* One view is enough for a policy that asks the index only for lifetimes.
OneView == View([k \in MCKey |-> {s1}], [k \in MCKey |-> 1])

\* What the index may say: the first block is on the way to the two others, so
\* the sessions that hold one of these hold it too; the third may be cold.
Holders ==
    {leases \in {[k \in MCKey |-> CASE k = k1 -> a [] k = k2 -> b [] OTHER -> c] :
                    a \in {{s1}, {s1, s2}}, b \in {{s1}, {s1, s2}}, c \in {{}, {s1}, {s2}}} :
        leases[k2] \cup leases[k3] \subseteq leases[k1]}

\* All blocks at the high density rank as all blocks at the low one.
Densities == {density \in [MCKey -> {1, 3}] : \E k \in MCKey : density[k] = 1}

MCViews == {OneView} \cup {View(leases, density) : leases \in Holders, density \in Densities}

\* adaptive_value looks neither at uses nor at times: they stay as they are.
MCInit == Init /\ (policy # "adaptive_value" => probe = OneView)
MCNext ==
    /\ Next
    /\ policy = "adaptive_value" =>
          now' = now /\ \A i \in DOMAIN entries' : entries'[i].uses = 1

MCSpec == MCInit /\ [][MCNext]_vars
================================================================================
