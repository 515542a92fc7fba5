-------------------------------- MODULE MCReplay --------------------------------
(***************************************************************************)
(* Model checking of Replay: two sessions of one role over blocks of two   *)
(* tokens, with a handful of turns each.                                   *)
(***************************************************************************)
EXTENDS Replay, TLC

CONSTANTS s1, s2, r1

TurnOf(s, prompt, shared, aborted, eta) ==
    [session |-> s, role |-> r1, prompt |-> prompt, shared |-> shared,
     aborted |-> aborted, eta |-> eta]

Ask(s, prompt) == TurnOf(s, prompt, 0, FALSE, NoEta)

\* A private prompt that grows inside its last block and past it, in two sessions.
PrivateTurns ==
    {Ask(s, prompt) : s \in {s1, s2}, prompt \in {1, 3, 4}}

\* Two sessions over one shared root of two blocks, with one or two blocks of
\* their own; the smallest path, of four bytes, is below nine tenths of the tier.
SharedTurns ==
    {TurnOf(ask[1], ask[2], 3, FALSE, NoEta) : ask \in {<<s1, 4>>, <<s1, 7>>, <<s2, 5>>, <<s2, 7>>}}

\* Two sessions over one shared root with a private block each, either of which
\* may announce when it returns, and one of which may leave the root.
AnnouncedTurns ==
    {TurnOf(s, 5, 3, FALSE, eta) : s \in {s1, s2}, eta \in {NoEta, 2}} \cup {Ask(s2, 4)}

\* A session that aborts and grows back, beside one that takes the room.
AbortTurns == {TurnOf(s1, 4, 0, FALSE, NoEta), TurnOf(s1, 1, 0, TRUE, NoEta), Ask(s2, 4)}

\* Three private prompts for the oracle, whose whole trace is chosen beforehand.
PlannedTurns == {Ask(s1, 4), Ask(s2, 2), Ask(s2, 4)}

TurnsByPolicy ==
    [p \in Policies |-> CASE p = "adaptive_value" -> SharedTurns
                          [] p = "continuum_ttl" -> AnnouncedTurns
                          [] p = "oracle" -> PlannedTurns
                          [] OTHER -> PrivateTurns]
AbortsOnly == [p \in Policies |-> AbortTurns]
PrivateOnly == [p \in Policies |-> PrivateTurns]

ShortGaps == {0, 1}
================================================================================
