---------------------------- MODULE MCAgentWatch ----------------------------
(* Instances of AgentWatch: one or two items, reported in a fixed order. *)
EXTENDS AgentWatchInvariant

CONSTANTS i1, i2

MCPair == <<i1, i2>>
MCOne == <<i1>>

\* Both may begin to match; the second matches already.
MCStart == {[i \in Items |-> IF i = i2 THEN s ELSE "off"] : s \in {"off", "on"}}
=============================================================================
