------------------------------ MODULE MCPrefixIndex ------------------------------
(***************************************************************************)
(* Model checking of PrefixIndex: two sessions and two roles, blocks of    *)
(* two tokens, prompts that end inside a block, at its edge and one block  *)
(* further, with and without a shared prefix that ends inside a block.     *)
(* The number of requests is bounded; releases are not.  Time starts at 1, *)
(* or at 0 for the case that observe_use takes for no use.                 *)
(***************************************************************************)
EXTENDS PrefixIndex, TLC

CONSTANT MaxRequests    \* bound on the requests of one behaviour

VARIABLE requests       \* requests made so far

MCPrompts == {1, 4}
MCSharedSizes == {0, 3}
Symmetry == Permutations(Session) \cup Permutations(Role)

MCInit == Init /\ requests = 0

MCNext ==
    \/ requests < MaxRequests /\ TouchPath /\ requests' = requests + 1
    \/ ReleaseSession /\ UNCHANGED requests

MCSpec == MCInit /\ [][MCNext]_<<indexVars, requests>>
================================================================================
