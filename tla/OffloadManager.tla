----------------------------- MODULE OffloadManager ------------------------------
(***************************************************************************)
(* The engine's CPU offload manager as the policies of src/src/acr/vllm    *)
(* meet it.  The manager is not part of the repository: this is what the   *)
(* contract at the head of policy.py and the calls of src/experiments say  *)
(* of it.  It counts the references of every block, asks the policy for    *)
(* victims and tells it when a block starts or ceases to be in use.        *)
(***************************************************************************)
EXTENDS Integers, FiniteSets

CONSTANTS
    Key,        \* offload keys: (block hash, group)
    Slots       \* num_blocks, the cache_capacity of the policy

ASSUME ManagerAssumption == IsFiniteSet(Key) /\ Slots \in Nat \ {0}

\* The policy's dict of BlockStatus, key -> ref_cnt: InFlight until the store of
\* the block has completed, then the number of loads that read it.
VARIABLE blocks

InFlight == -1

Held == DOMAIN blocks
Storing == {k \in Held : blocks[k] = InFlight}
Idle == {k \in Held : blocks[k] = 0}
Loading == {k \in Held : blocks[k] > 0}

\* f with the keys of K mapped to v; f without the keys of K.
Extended(f, K, v) == [k \in DOMAIN f \cup K |-> IF k \in K THEN v ELSE f[k]]
Without(f, K) == [k \in DOMAIN f \ K |-> f[k]]

\* prepare_store(keys): the keys that are new to the tier, and how many blocks
\* must go before they all have a slot.
KeysToStore(keys) == keys \ Held
Shortfall(keys) ==
    LET wanted == Cardinality(Held) + Cardinality(KeysToStore(keys))
    IN  IF wanted <= Slots THEN 0 ELSE wanted - Slots

\* Every new key is inserted with its transfer under way.
prepare_store(keys, victims) ==
    blocks' = Extended(Without(blocks, victims), KeysToStore(keys), InFlight)

\* complete_store: the transfers have succeeded, or failed and left nothing.
complete_store(keys) == blocks' = Extended(blocks, keys, 0)
fail_store(keys) == blocks' = Without(blocks, keys)

\* prepare_load and complete_load of one block.
prepare_load(k) == blocks' = [blocks EXCEPT ![k] = @ + 1]
complete_load(k) == blocks' = [blocks EXCEPT ![k] = @ - 1]
================================================================================
