--------------------------- MODULE MCPendingForms ---------------------------
(* Instances of PendingForms: the calls s1 and s2, the posted forms p1 and p2, *)
(* the callers c1 and c2.                                                      *)
EXTENDS PendingFormsInvariant

CONSTANTS s1, s2, p1, p2, c1, c2
=============================================================================
