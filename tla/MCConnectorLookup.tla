--------------------------- MODULE MCConnectorLookup ---------------------------
(* A small geometry with the ratios of the real one: a full-attention chunk is *)
(* three Mamba chunks, a Mamba chunk two ring chunks.  Prompts of two and      *)
(* three full-attention chunks, and one that ends inside a Mamba chunk.        *)
EXTENDS ConnectorLookup

ScaledWidth == [g \in Groups |-> CASE g = "fa" -> 6 [] g = "qsa" -> 1 [] g = "mamba" -> 2]
ScaledPrompts == {12, 15, 18}

\* The instance satisfies what the theorems about the lookup suppose.
ASSUME ScaledWidely ==
    /\ Width["qsa"] < Width["mamba"] /\ 2 * Width["mamba"] < Width["fa"]
    /\ \A n \in Prompts : 2 * Width["fa"] <= n
================================================================================
