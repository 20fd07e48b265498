---------------------------- MODULE MCTaskFeeder ----------------------------
(***************************************************************************)
(* Small tasklists for TLC: the shape of the tasklist is chosen in the .cfg *)
(* by giving the constants of TaskFeeder one of the values below.           *)
(***************************************************************************)
EXTENDS TaskFeederClaims, TaskFeederInvariant

CONSTANTS t1, t2, t3, A, B

Nobody == {}
OnlyA == {A}
Both == {A, B}

\* One SEQ group of two tasks, one agent.
SeqTasks == {t1, t2}
SeqMode == <<"SEQ">>
OneGroup == [t \in SeqTasks |-> 1]
PairRank == [t \in SeqTasks |-> IF t = t1 THEN 1 ELSE 2]
AllA == [t \in SeqTasks |-> A]

\* One PAR group of two tasks with an agent each.
ParMode == <<"PAR">>
AThenB == [t \in SeqTasks |-> IF t = t1 THEN A ELSE B]

\* Classifier-assigned tasks: the stored owner is empty.
NobodyOwns == [t \in SeqTasks |-> NoAgent]

\* A PAR group of two, then a SEQ group of one.
TrioTasks == {t1, t2, t3}
TrioMode == <<"PAR", "SEQ">>
TrioGroup == [t \in TrioTasks |-> IF t = t3 THEN 2 ELSE 1]
TrioRank == [t \in TrioTasks |-> CASE t = t1 -> 1 [] t = t2 -> 2 [] t = t3 -> 3]
TrioExecutor == [t \in TrioTasks |-> IF t = t2 THEN B ELSE A]
=============================================================================
