------------------------------ MODULE SyntheticMix ------------------------------
(***************************************************************************)
(* The generated workload, synthetic_mix of src/src/acr/trace.py, as the   *)
(* index sees it when the simulator replays it in time order.              *)
(*                                                                         *)
(* A coding session's prompt grows turn by turn; now and then the agent    *)
(* aborts a branch, and its context is cut back.  The prompts of a patient *)
(* or reviewer session are drawn anew for every turn.  The trace is        *)
(* generated before it is replayed; here a turn is drawn when it is        *)
(* replayed, which makes no difference since every session is drawn on its *)
(* own and times within one only grow.                                     *)
(***************************************************************************)
EXTENDS PrefixIndex

CONSTANTS
    RoleOf,     \* session -> "supervisor", "patient" or "reviewer"
    Root,       \* role -> tokens of its shared prefix
    Starts,     \* prompts a coding session may start from, in tokens
    Growths,    \* what one coding turn adds to the context
    Cuts,       \* what an aborted branch takes off it
    Drawn,      \* prompts of the other sessions
    MaxTurns    \* turns of one session

\* What the parameters of a mix are.
MixAssumption ==
    /\ RoleOf \in [Session -> Role]
    /\ Root \in [Role -> Nat]
    /\ Starts \subseteq Nat /\ Growths \subseteq Nat /\ Cuts \subseteq Nat \ {0}
    /\ Drawn \subseteq Nat
    /\ MaxTurns \in Nat

VARIABLES
    ctx,        \* coding session -> tokens of its next prompt
    cut,        \* session -> tokens rolled back after its last turn
    turns       \* session -> turns so far

vars == <<indexVars, ctx, cut, turns>>

Coding == {s \in Session : RoleOf[s] = "supervisor"}

\* The generator replaces the turn it has just appended, the last one before the
\* rollback, by a copy with aborted set.
aborted(s, rollback) == rollback > 0

MixInit ==
    /\ Init
    /\ ctx \in [Coding -> Starts]
    /\ cut = [s \in Session |-> 0]
    /\ turns = [s \in Session |-> 0]

\* One turn of a coding session reaches the index; the context for the next one
\* has grown, and shrunk again if the branch is aborted.
CodingTurn(s) ==
    \E grown \in Growths, rollback \in Cuts \cup {0}, t \in now..LastTime :
        /\ ctx[s] + grown >= rollback
        /\ touch_path(s, RoleOf[s], ctx[s], Root[RoleOf[s]], t, aborted(s, rollback))
        /\ ctx' = [ctx EXCEPT ![s] = @ + grown - rollback]
        /\ cut' = [cut EXCEPT ![s] = rollback]

\* One turn of a patient or reviewer session: its prompt may be shorter than the
\* last one, and shorter than the shared prefix.
DrawnTurn(s) ==
    \E prompt \in Drawn, t \in now..LastTime :
        /\ touch_path(s, RoleOf[s], prompt, Root[RoleOf[s]], t, FALSE)
        /\ UNCHANGED <<ctx, cut>>

MixNext ==
    \E s \in Session :
        /\ turns[s] < MaxTurns
        /\ turns' = [turns EXCEPT ![s] = @ + 1]
        /\ \/ s \in Coding /\ CodingTurn(s)
           \/ s \notin Coding /\ DrawnTurn(s)

MixSpec == MixInit /\ [][MixNext]_vars

(***************************************************************************)
(* Properties                                                              *)
(***************************************************************************)
\* The mark says that the "previous branch was logically discarded" (trace.py,
\* line 30), and the index records what a marked turn has lost of the session's
\* path (index.py, lines 99-101): what the first turn after a rollback no longer
\* has is among the invalidations from then on.
AbortedBranchRecorded ==
    [][\A s \in Coding :
          cut[s] > 0 /\ turns'[s] # turns[s] =>
             Elems(session_path[s]) \ Elems(session_path'[s]) \subseteq invalidations']_vars
================================================================================
