---------------------------- MODULE MCAgentQueue ----------------------------
(* Instances of AgentQueue.  u1 and u2 are typed by the user in thread A, a1 *)
(* and a2 come from two assignments in A and B (a2's run may die), o is a    *)
(* one-shot schedule in A and r a recurring one.                             *)
EXTENDS AgentQueueInvariant

CONSTANTS u1, u2, a1, a2, o, r, A, B, other

MCThreadOf == [m \in Message |-> IF m = a2 THEN B ELSE A]
MCKindOf ==
    [m \in Message |-> CASE m \in {u1, u2} -> "interactive"
                         [] m \in {a1, a2} -> "assignment"
                         [] m = o -> "oneshot"
                         [] OTHER -> "recurring"]
MCOwnAssignment == [m \in Message |-> m]
MCOneAssignment == [m \in Message |-> a1]
=============================================================================
