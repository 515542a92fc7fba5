----------------------------- MODULE OffloadContract -----------------------------
(***************************************************************************)
(* What an offload tier promises to the engine, whatever policy ranks its  *)
(* blocks: a block that somebody reads, writes or has pinned keeps its     *)
(* slot, and a request for room is answered at once, in full and with no   *)
(* more victims than it needs, or refused without any effect.              *)
(***************************************************************************)
EXTENDS Integers, FiniteSets

CONSTANTS Key, Slots

VARIABLES
    held,    \* keys that have a slot
    busy     \* those of them that must keep it for now

vars == <<held, busy>>

Init == held = {} /\ busy = {}

\* Room for the keys of new, which a transfer then fills.
Reserve(new, victims) ==
    /\ new # {} /\ new \cap held = {}
    /\ victims \subseteq held \ busy
    /\ Cardinality(victims) =
          IF Cardinality(held) + Cardinality(new) <= Slots THEN 0
          ELSE (Cardinality(held) + Cardinality(new)) - Slots
    /\ held' = (held \ victims) \cup new
    /\ busy' = busy \cup new

\* Somebody starts to read a block or pins it.
Take(k) == k \in held /\ busy' = busy \cup {k} /\ UNCHANGED held

\* Nobody needs the blocks of K to stay any more.
Release(K) == K \subseteq busy /\ busy' = busy \ K /\ UNCHANGED held

\* The transfers into the blocks of K have failed.
Abandon(K) == K \subseteq busy /\ busy' = busy \ K /\ held' = held \ K

\* The whole tier is dropped while nothing is under way.
Reset == held' = {} /\ busy' = {}

Next ==
    \/ \E new, victims \in SUBSET Key : Reserve(new, victims)
    \/ \E k \in Key : Take(k)
    \/ \E K \in SUBSET Key : Release(K) \/ Abandon(K)
    \/ Reset

Spec == Init /\ [][Next]_vars
================================================================================
