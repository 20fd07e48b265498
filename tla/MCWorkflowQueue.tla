--------------------------- MODULE MCWorkflowQueue ---------------------------
(* Instances of WorkflowQueue: two tasks in one directory. *)
EXTENDS WorkflowQueueInvariant

CONSTANTS t1, t2, Dir, none

MCTypeOf == [p \in Phase |-> <<"folder", "prompt", "gate">>[p]]
MCNeeds == [p \in Phase |-> IF p = 3 THEN {2} ELSE {}]
MCOneDirectory == [t \in Task |-> Dir]
=============================================================================
