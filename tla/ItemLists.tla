-------------------------------- MODULE ItemLists --------------------------------
(***************************************************************************)
(* Lists of blocks, as the tiers of src/src/acr keep them: a sequence of   *)
(* records with a key and a size in bytes, in the order of the dict that   *)
(* holds them.                                                             *)
(***************************************************************************)
EXTENDS Integers, Sequences, Functions

\* The elements of seq at the positions of I, in their order.
Sublist(seq, I) ==
    LET upto[n \in 0..Len(seq)] ==
            IF n = 0 THEN <<>>
            ELSE IF n \in I THEN Append(upto[n - 1], seq[n]) ELSE upto[n - 1]
    IN  upto[Len(seq)]

Keys(items) == {items[i].key : i \in DOMAIN items}
Bytes(items) == SumFunction([i \in DOMAIN items |-> items[i].nbytes])

\* The items whose key is in K, and the others.
On(items, K) == Sublist(items, {i \in DOMAIN items : items[i].key \in K})
Off(items, K) == Sublist(items, {i \in DOMAIN items : items[i].key \notin K})
================================================================================
