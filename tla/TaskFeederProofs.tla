-------------------------- MODULE TaskFeederProofs --------------------------
(***************************************************************************)
(* Proofs about TaskFeeder for every tasklist, every number of runs and    *)
(* every bound on the faults: Inv of TaskFeederInvariant is inductive, and *)
(* the safety properties follow from it.                                   *)
(***************************************************************************)
EXTENDS TaskFeederInvariant, TLAPS

-----------------------------------------------------------------------------
(* Types of the values the actions build.                                   *)

\* The record of a free run slot is a run.
LEMMA NoRunTyped == NoRun \in Run
BY TaskFeederAssumption DEF NoRun, Run

\* An actor outside the feeder has a well-typed call.
LEMMA IdleTyped == Idle \in Call /\ NoSnap \in Snapshot
<1>1. NoSnap \in Snapshot BY DEF NoSnap, Snapshot, ListStatus, TaskStatus
<1> QED BY <1>1 DEF Idle, Call, PC, Caller

\* ... wherever it goes on next.
LEMMA IdleAt == \A pc \in PC : [Idle EXCEPT !.pc = pc] \in Call
BY IdleTyped DEF Call

\* An unlocked read returns a snapshot.
LEMMA SnapTyped == TypeOK => Snap \in Snapshot
BY DEF TypeOK, Snap, Snapshot

\* Counting one more fault keeps the counters of the faults natural numbers.
LEMMA FaultTyped ==
    ASSUME TypeOK,
           \/ faults' = [faults EXCEPT !.crash = @ + 1]
           \/ faults' = [faults EXCEPT !.restart = @ + 1]
           \/ faults' = [faults EXCEPT !.followup = @ + 1]
    PROVE  faults' \in [crash : Nat, restart : Nat, followup : Nat]
<1>1. /\ faults \in [crash : Nat, restart : Nat, followup : Nat]
      /\ faults.crash + 1 \in Nat /\ faults.restart + 1 \in Nat /\ faults.followup + 1 \in Nat
  BY DEF TypeOK
<1>2. CASE faults' = [faults EXCEPT !.crash = @ + 1]
  BY <1>1, <1>2
<1>3. CASE faults' = [faults EXCEPT !.restart = @ + 1]
  BY <1>1, <1>3
<1>4. CASE faults' = [faults EXCEPT !.followup = @ + 1]
  BY <1>1, <1>4
<1> QED BY <1>2, <1>3, <1>4

\* Replacing the call of one actor keeps the calls well typed.
LEMMA ContinueTyped ==
    ASSUME TypeOK, NEW p \in Actors, NEW c \in Call, Continue(p, c)
    PROVE  /\ call' \in [Actors -> Call] /\ call'[p] = c
           /\ \A q \in Actors \ {p} : call'[q] = call[q]
BY DEF TypeOK, Continue

\* What an actor is left with when its call returns: nothing it has read.
LEMMA ReturnedTyped ==
    ASSUME NEW c \in Call, NEW ok \in BOOLEAN
    PROVE  /\ Returned(c, ok) \in Call
           /\ Returned(c, ok).pc \in {"idle", "working", "exit", "sweep"}
           /\ Returned(c, ok).todo = {} /\ Returned(c, ok).snap = NoSnap
<1>0. c.ret \in {"completeTag", "failTag", "runEnd", "sweep", "nobody"}
      /\ c.cands \in SUBSET Tasks
  BY DEF Call, Caller
<1>1. CASE c.ret \in {"completeTag", "failTag"}
  <2>1. Working \in Call BY IdleAt DEF Working, PC
  <2> QED BY <1>1, <2>1 DEF Returned, Working, Idle
<1>2. CASE c.ret = "runEnd"
  <2>1. [Idle EXCEPT !.pc = "exit"] \in Call BY IdleAt DEF PC
  <2> QED BY <1>2, <2>1 DEF Returned, Idle
<1>3. CASE c.ret = "sweep"
  <2> DEFINE rest == IF ok THEN c.cands ELSE {}
  <2>1. [Idle EXCEPT !.pc = "sweep", !.cands = rest] \in Call
    BY <1>0, IdleTyped DEF Call, PC
  <2> QED BY <1>3, <2>1 DEF Returned, Idle
<1>4. CASE c.ret = "nobody"
  BY <1>4, IdleTyped DEF Returned, Idle
<1> QED BY <1>0, <1>1, <1>2, <1>3, <1>4

\* Return changes the call of p and nothing of any run but what its tags got.
LEMMA ReturnTyped ==
    ASSUME TypeOK, NEW p \in Actors, NEW ok \in BOOLEAN, Return(p, ok)
    PROVE  /\ call' \in [Actors -> Call] /\ run' \in [Runs -> Run]
           /\ \A q \in Actors \ {p} : call'[q] = call[q]
           /\ \A r \in Runs : run'[r].task = run[r].task
           /\ call'[p].pc \in {"idle", "working", "exit", "sweep"}
           /\ call'[p].todo = {} /\ call'[p].snap = NoSnap
<1>1. call[p] \in Call BY DEF TypeOK
<1>2. Returned(call[p], ok) \in Call /\ Continue(p, Returned(call[p], ok))
  BY <1>1, ReturnedTyped DEF Return
<1>3. run' \in [Runs -> Run] /\ \A r \in Runs : run'[r].task = run[r].task
  <2>0. run \in [Runs -> Run] BY DEF TypeOK
  <2>1. CASE run' = [run EXCEPT ![p].acked = TRUE]
    BY <2>0, <2>1 DEF Run
  <2>2. CASE run' = [run EXCEPT ![p].followup = TRUE]
    BY <2>0, <2>2 DEF Run
  <2>3. CASE UNCHANGED run
    BY <2>0, <2>3
  <2> QED BY <2>1, <2>2, <2>3 DEF Return
<1> QED BY <1>1, <1>2, <1>3, ReturnedTyped, ContinueTyped

-----------------------------------------------------------------------------
(* What a step of one actor leaves alone.                                   *)

\* Tasks only go on, and tokens only grow.
Monotone ==
    \A t \in Tasks :
        /\ status[t] \in Terminal => status'[t] = status[t]
        /\ status[t] # "Pending" => status'[t] # "Pending"
        /\ token[t] <= token'[t]

\* Only p moves.
Only(p) ==
    /\ \A q \in Actors \ {p} : call'[q] = call[q]
    /\ \A r \in Runs \ {p} : run'[r].task = run[r].task

StoreUnchanged == UNCHANGED <<listStatus, status, attempts, token, sent>>

\* What the calls of the other actors rely on survives every such step.
LEMMA OthersSound ==
    ASSUME Inv, TypeOK', Monotone, NEW p \in Actors, Only(p), NEW q \in Actors \ {p}
    PROVE  CallSound(q)'
<1>0. /\ call'[q] = call[q] /\ CallSound(q) /\ call[q] \in Call
      /\ q \in Runs => run'[q].task = run[q].task
      /\ status \in [Tasks -> TaskStatus] /\ status' \in [Tasks -> TaskStatus]
      /\ token \in [Tasks -> Nat] /\ token' \in [Tasks -> Nat]
  BY DEF Inv, Only, TypeOK
<1>1. OnItsTask(q)'
  BY <1>0 DEF CallSound, OnItsTask
<1>2. SnapshotSound(q)'
  BY <1>0 DEF CallSound, SnapshotSound, Monotone
<1>3. BeginSound(q)'
  <2>1. ASSUME NEW t \in Tasks, NEW u \in Before(t), status[u] \in Terminal
        PROVE  status'[u] \in Terminal
    BY <2>1 DEF Before, Monotone
  <2> QED BY <1>0, <2>1 DEF CallSound, BeginSound, Before
<1>4. TicketSound(q)'
  <2>1. SUFFICES ASSUME call[q].pc \in {"publish", "resend"}
                 PROVE  /\ call[q].tok <= token'[call[q].task]
                        /\ status'[call[q].task] # "Pending"
                        /\ call[q].tok < MaxAttempts
    BY <1>0 DEF TicketSound
  <2>2. call[q].task \in Tasks /\ call[q].tok \in Nat
    BY <1>0, <2>1 DEF CallSound, OnItsTask, OnTask, Call
  <2> QED BY <1>0, <2>1, <2>2 DEF CallSound, TicketSound, Monotone
<1> QED BY <1>1, <1>2, <1>3, <1>4 DEF CallSound

\* So a step of p preserves Inv when it preserves the part about the store, the
\* part about p, and the tickets.
LEMMA StepSound ==
    ASSUME Inv, TypeOK', Monotone, NEW p \in Actors, Only(p),
           StoreSound', CallSound(p)', OneDispatchPerToken'
    PROVE  Inv'
<1>1. \A q \in Actors : CallSound(q)'
  BY OthersSound
<1> QED BY <1>1 DEF Inv

\* A step that does not write the store nor get ready to dispatch need only
\* account for p itself.
LEMMA QuietStep ==
    ASSUME Inv, TypeOK', StoreUnchanged, NEW p \in Actors, Only(p), CallSound(p)',
           call'[p].pc \notin {"publish", "resend"}
    PROVE  Inv'
<1>1. Monotone
  BY DEF Inv, TypeOK, StoreUnchanged, Monotone
<1>2. StoreSound'
  BY DEF Inv, StoreUnchanged, StoreSound, CountersSound, SentSound, OrderKept,
         ListStatusSound, Before
<1>3. OneDispatchPerToken'
  <2>1. \A q \in Dispatching' : q \in Dispatching /\ Ticket(q)' = Ticket(q)
    BY DEF Dispatching, Ticket, Only
  <2> QED BY <2>1 DEF Inv, StoreUnchanged, OneDispatchPerToken
<1> QED BY <1>1, <1>2, <1>3, StepSound

\* A call that returns relies on nothing any more.
LEMMA ReturnSound ==
    ASSUME Inv, NEW p \in Actors, NEW ok \in BOOLEAN, Return(p, ok), call[p].pc # "idle"
    PROVE  /\ Only(p) /\ CallSound(p)' /\ call'[p].pc \notin {"publish", "resend"}
           /\ call' \in [Actors -> Call] /\ run' \in [Runs -> Run]
<1>1. /\ call' \in [Actors -> Call] /\ run' \in [Runs -> Run]
      /\ \A q \in Actors \ {p} : call'[q] = call[q]
      /\ \A r \in Runs : run'[r].task = run[r].task
      /\ call'[p].pc \in {"idle", "working", "exit", "sweep"}
      /\ call'[p].todo = {} /\ call'[p].snap = NoSnap
  BY ReturnTyped DEF Inv
<1>2. Only(p)
  BY <1>1 DEF Only
<1>3. OnItsTask(p)'
  BY <1>1 DEF Inv, CallSound, OnItsTask, OnTask
<1>4. SnapshotSound(p)' /\ BeginSound(p)' /\ TicketSound(p)'
  BY <1>1 DEF SnapshotSound, BeginSound, TicketSound, NoSnap, Terminal, Reached
<1> QED BY <1>1, <1>2, <1>3, <1>4 DEF CallSound

\* The PAR loop goes on with tasks that have nothing before them left to do.
LEMMA NextOfBatchSound ==
    ASSUME Inv, NEW p \in Actors, NEW rest \in SUBSET Tasks, NextOfBatch(p, rest),
           call[p].pc # "idle",
           \A t \in rest : \A u \in Before(t) : status'[u] \in Terminal
    PROVE  /\ Only(p) /\ CallSound(p)' /\ call'[p].pc \notin {"publish", "resend"}
           /\ call' \in [Actors -> Call] /\ run' \in [Runs -> Run]
<1>1. CASE rest = {}
  BY <1>1, ReturnSound DEF NextOfBatch
<1>2. CASE rest # {}
  <2> DEFINE c == [call[p] EXCEPT !.pc = "parCheck", !.todo = rest, !.snap = NoSnap,
                                  !.task = NoTask, !.tok = 0]
  <2>1. c \in Call
    BY IdleTyped DEF Inv, TypeOK, Call, PC
  <2>2. Continue(p, c) /\ UNCHANGED run
    BY <1>2 DEF NextOfBatch
  <2> HIDE DEF c
  <2>3. /\ call' \in [Actors -> Call] /\ call'[p] = c
        /\ \A q \in Actors \ {p} : call'[q] = call[q]
    BY <2>1, <2>2, ContinueTyped DEF Inv
  <2>4. c.pc = "parCheck" /\ c.todo = rest /\ c.snap = NoSnap
    BY DEF Inv, TypeOK, Call, c
  <2>5. OnItsTask(p)'
    BY <2>2, <2>3, <2>4 DEF Inv, CallSound, OnItsTask, OnTask
  <2>6. SnapshotSound(p)' /\ BeginSound(p)' /\ TicketSound(p)'
    BY <2>3, <2>4 DEF SnapshotSound, BeginSound, TicketSound, NoSnap, Terminal, Reached, Before
  <2> QED BY <2>2, <2>3, <2>4, <2>5, <2>6 DEF Only, CallSound, Inv, TypeOK
<1> QED BY <1>1, <1>2

-----------------------------------------------------------------------------
(* The steps of the feeder that write nothing but memory.                   *)

\* p moves to c, which is on a task if it has to be, shows no task over that is
\* not, and plans to begin nothing out of order.
LEMMA QuietContinue ==
    ASSUME Inv, TypeOK', StoreUnchanged, NEW p \in Actors, NEW c \in Call, Continue(p, c),
           \A r \in Runs : run'[r].task = run[r].task,
           call[p].pc # "idle" \/ p \notin Runs,
           c.pc \notin {"publish", "resend", "halt"},
           c.pc \in OnTask => c.task \in Tasks,
           c.snap \in {call[p].snap, NoSnap, Snap},
           \A t \in Tasks : t \in c.todo \/ (c.pc = "begin" /\ t = c.task) =>
               \A u \in Before(t) : status[u] \in Terminal
    PROVE  Inv'
<1>1. call'[p] = c /\ Only(p)
  BY ContinueTyped DEF Inv, Only
<1>2. OnItsTask(p)'
  BY <1>1 DEF Inv, CallSound, OnItsTask
<1>3. SnapshotSound(p)'
  BY <1>1 DEF Inv, CallSound, SnapshotSound, NoSnap, Snap, Terminal, Reached, StoreUnchanged,
              StoreSound, CountersSound
<1>4. BeginSound(p)' /\ TicketSound(p)'
  BY <1>1 DEF BeginSound, TicketSound, StoreUnchanged, Before
<1> QED BY <1>1, <1>2, <1>3, <1>4, QuietStep DEF CallSound

\* A call that returns without having written the store.
LEMMA QuietReturn ==
    ASSUME Inv, StoreUnchanged, NEW p \in Actors, NEW ok \in BOOLEAN, Return(p, ok),
           call[p].pc # "idle", UNCHANGED <<memory, queues, faults>>
    PROVE  Inv'
<1>1. TypeOK'
  BY ReturnSound DEF Inv, TypeOK, StoreUnchanged, memory, queues
<1> QED BY <1>1, ReturnSound, QuietStep

\* on_task_terminal reads a snapshot of the store as it is.
LEMMA SettleReadInv == ASSUME Inv, NEW p \in Actors, SettleRead(p) PROVE Inv'
<1> DEFINE c == [call[p] EXCEPT !.pc = "clear", !.snap = Snap]
<1>1. c \in Call /\ c.pc = "clear" /\ c.snap = Snap
      /\ c.task = call[p].task /\ c.todo = call[p].todo
  BY SnapTyped, ZenonT(60) DEF Inv, TypeOK, Call, PC
<1>2. Continue(p, c) /\ StoreUnchanged /\ UNCHANGED run /\ call[p].pc = "settle"
  BY DEF SettleRead, StoreUnchanged, store, At
<1> HIDE DEF c
<1>3. TypeOK'
  BY <1>1, <1>2, ContinueTyped DEF Inv, TypeOK, SettleRead, store, memory, queues
<1>4. /\ c.task \in Tasks
      /\ \A t \in Tasks : t \in c.todo => \A u \in Before(t) : status[u] \in Terminal
  BY <1>1, <1>2 DEF Inv, CallSound, OnItsTask, OnTask, BeginSound
<1> QED BY <1>1, <1>2, <1>3, <1>4, QuietContinue

\* on_task_terminal halts only for a task its snapshot shows as failed.
LEMMA ClearInv == ASSUME Inv, NEW p \in Actors, Clear(p) PROVE Inv'
<1> DEFINE halting == call[p].snap.status[call[p].task] = "Failed" /\ call[p].snap.list = "Active"
           c == [call[p] EXCEPT !.pc = IF halting THEN "halt" ELSE "advance"]
<1>1. c \in Call /\ c.pc \in {"halt", "advance"} /\ c.snap = call[p].snap
      /\ c.task = call[p].task /\ c.todo = call[p].todo
      /\ (c.pc = "halt" => call[p].snap.status[call[p].task] = "Failed")
  BY ZenonT(60) DEF Inv, TypeOK, Call, PC
<1>2. Continue(p, c) /\ StoreUnchanged /\ UNCHANGED run /\ call[p].pc = "clear"
  BY DEF Clear, Goto, StoreUnchanged, store, At
<1> HIDE DEF c
<1>3. call[p].task \in Tasks
  BY <1>2 DEF Inv, CallSound, OnItsTask, OnTask
<1>4. TypeOK'
  <2>1. registry' \in [Agents -> Tasks \cup {NoTask}]
        /\ dispatchedAt' \subseteq Tasks /\ observed' \subseteq Tasks
    BY <1>3, TaskFeederAssumption DEF Inv, TypeOK, Clear
  <2> QED BY <1>1, <1>2, <2>1, ContinueTyped DEF Inv, TypeOK, Clear, store, queues
<1>5. call'[p] = c /\ Only(p)
  BY <1>1, <1>2, ContinueTyped DEF Inv, Only
<1>6. OnItsTask(p)' /\ SnapshotSound(p)' /\ BeginSound(p)' /\ TicketSound(p)'
  BY <1>1, <1>2, <1>3, <1>5
     DEF Inv, CallSound, OnItsTask, SnapshotSound, BeginSound, TicketSound, StoreUnchanged, Before
<1> QED BY <1>1, <1>2, <1>4, <1>5, <1>6, QuietStep DEF CallSound

\* advance may have nothing to do.
LEMMA AdvanceIdleInv == ASSUME Inv, NEW p \in Actors, AdvanceIdle(p) PROVE Inv'
BY QuietReturn DEF AdvanceIdle, At, StoreUnchanged, store

\* The tasks before a pending one of the first open group are over in the
\* snapshot, so they are over.
LEMMA FrontierSound ==
    ASSUME Inv, NEW p \in Actors, NEW g \in 1..Groups, IsFrontier(g, call[p].snap.status),
           NEW t \in Members(g), NEW u \in Tasks, GroupOf[u] < GroupOf[t]
    PROVE  status[u] \in Terminal
<1> DEFINE s == call[p].snap.status
<1>1. GroupOf[u] \in 1..Groups /\ GroupOf[t] = g /\ GroupOf[u] < g
  BY TaskFeederAssumption DEF Members
<1>2. GroupOf[u] \notin OpenGroups(s)
  BY <1>1 DEF IsFrontier, OpenGroups
<1>3. s[u] \in Terminal
  BY <1>1, <1>2 DEF OpenGroups, GroupTerminal, Members
<1> QED BY <1>3 DEF Inv, CallSound, SnapshotSound

\* The batch of a PAR group has nothing before it left to do.
LEMMA AdvanceParInv == ASSUME Inv, NEW p \in Actors, AdvancePar(p) PROVE Inv'
<1> DEFINE s == call[p].snap.status
<1>1. PICK g \in 1..Groups : /\ IsFrontier(g, s) /\ Mode[g] = "PAR"
                             /\ NextOfBatch(p, ToDispatch(s, g))
  BY DEF AdvancePar
<1>2. StoreUnchanged /\ call[p].pc = "advance" /\ UNCHANGED <<memory, queues, faults>>
  BY DEF AdvancePar, Advancing, At, StoreUnchanged, store
<1>3. ToDispatch(s, g) \in SUBSET Tasks /\ ToDispatch(s, g) \subseteq Members(g)
  BY DEF ToDispatch, PendingIn, Members
<1>4. \A t \in ToDispatch(s, g) : \A u \in Before(t) : status'[u] \in Terminal
  <2>1. SUFFICES ASSUME NEW t \in ToDispatch(s, g), NEW u \in Before(t)
                 PROVE  status[u] \in Terminal
    BY <1>2 DEF StoreUnchanged
  <2>2. t \in Members(g) /\ GroupOf[t] = g /\ u \in Tasks /\ GroupOf[u] < GroupOf[t]
    BY <1>1, <1>3 DEF Before, Members
  <2> QED BY <1>1, <2>2, FrontierSound
<1>5. /\ Only(p) /\ CallSound(p)' /\ call'[p].pc \notin {"publish", "resend"}
      /\ call' \in [Actors -> Call] /\ run' \in [Runs -> Run]
  BY <1>1, <1>2, <1>3, <1>4, NextOfBatchSound
<1>6. TypeOK'
  BY <1>2, <1>5, SMTT(30) DEF Inv, TypeOK, StoreUnchanged, memory, queues
<1> QED BY <1>2, <1>5, <1>6, QuietStep

\* The first pending task of a SEQ group has nothing before it left to do.
LEMMA AdvanceSeqInv == ASSUME Inv, NEW p \in Actors, AdvanceSeq(p) PROVE Inv'
<1> DEFINE s == call[p].snap.status
           held(g) == \E t \in Members(g) : s[t] \in {"InProgress", "Stopped"}
<1>1. StoreUnchanged /\ call[p].pc = "advance" /\ UNCHANGED <<memory, queues, faults>>
  BY DEF AdvanceSeq, Advancing, At, StoreUnchanged, store
<1>2. CASE Return(p, TRUE)
  BY <1>1, <1>2, QuietReturn
<1>3. CASE \E g \in 1..Groups : \E t \in Tasks :
             /\ IsFrontier(g, s) /\ Mode[g] = "SEQ"
             /\ ~held(g) /\ IsFirst(t, PendingIn(s, g))
             /\ Continue(p, [call[p] EXCEPT !.pc = "begin", !.snap = NoSnap, !.task = t])
             /\ UNCHANGED run
  <2>1. PICK g \in 1..Groups, t \in Tasks :
             /\ IsFrontier(g, s) /\ Mode[g] = "SEQ"
             /\ ~held(g) /\ IsFirst(t, PendingIn(s, g))
             /\ Continue(p, [call[p] EXCEPT !.pc = "begin", !.snap = NoSnap, !.task = t])
             /\ UNCHANGED run
    BY <1>3
  <2> DEFINE c == [call[p] EXCEPT !.pc = "begin", !.snap = NoSnap, !.task = t]
  <2>2. c \in Call /\ c.pc = "begin" /\ c.snap = NoSnap /\ c.task = t /\ c.todo = call[p].todo
    BY IdleTyped DEF Inv, TypeOK, Call, PC
  <2> HIDE DEF c
  <2>3. TypeOK'
    BY <1>1, <2>1, <2>2, ContinueTyped DEF Inv, TypeOK, StoreUnchanged, memory, queues, c
  <2>4. ASSUME NEW u \in Before(t) PROVE status[u] \in Terminal
    <3>1. t \in Members(g) /\ GroupOf[t] = g /\ u \in Tasks
      BY <2>1 DEF IsFirst, PendingIn, Members, Before
    <3>2. CASE GroupOf[u] < GroupOf[t]
      BY <2>1, <3>1, <3>2, FrontierSound
    <3>3. CASE GroupOf[u] = GroupOf[t] /\ Rank[u] < Rank[t]
      <4>1. u \in Members(g)
        BY <3>1, <3>3 DEF Members
      <4>2. s[u] # "Pending"
        BY <2>1, <3>1, <3>3, <4>1, TaskFeederAssumption DEF IsFirst, PendingIn
      <4>3. s[u] \in Terminal
        BY <2>1, <3>1, <4>1, <4>2 DEF Inv, CallSound, SnapshotSound, Reached, Terminal
      <4> QED BY <3>1, <4>3 DEF Inv, CallSound, SnapshotSound
    <3> QED BY <3>2, <3>3, <2>4 DEF Before
  <2>5. \A v \in Tasks : v \in c.todo \/ (c.pc = "begin" /\ v = c.task) =>
            \A u \in Before(v) : status[u] \in Terminal
    BY <2>2, <2>4 DEF Inv, CallSound, BeginSound
  <2> QED BY <1>1, <2>1, <2>2, <2>3, <2>5, QuietContinue, ZenonT(60) DEF c
<1> QED BY <1>2, <1>3 DEF AdvanceSeq

\* The live check picks a task of the batch or gives the batch up.
LEMMA ParCheckInv == ASSUME Inv, NEW p \in Actors, ParCheck(p) PROVE Inv'
<1>1. StoreUnchanged /\ call[p].pc = "parCheck" /\ UNCHANGED <<memory, queues, faults>>
  BY DEF ParCheck, At, StoreUnchanged, store
<1>2. CASE Return(p, TRUE)
  BY <1>1, <1>2, QuietReturn
<1>3. CASE \E t \in Tasks :
              /\ IsFirst(t, call[p].todo)
              /\ Continue(p, [call[p] EXCEPT !.pc = "begin", !.task = t, !.todo = @ \ {t}])
              /\ UNCHANGED run
  <2>1. PICK t \in Tasks :
              /\ IsFirst(t, call[p].todo)
              /\ Continue(p, [call[p] EXCEPT !.pc = "begin", !.task = t, !.todo = @ \ {t}])
              /\ UNCHANGED run
    BY <1>3
  <2> DEFINE c == [call[p] EXCEPT !.pc = "begin", !.task = t, !.todo = @ \ {t}]
  <2>2. /\ c \in Call /\ c.pc = "begin" /\ c.snap = call[p].snap /\ c.task = t
        /\ c.todo = call[p].todo \ {t}
    BY ZenonT(60) DEF Inv, TypeOK, Call, PC
  <2> HIDE DEF c
  <2>3. TypeOK'
    BY <1>1, <2>1, <2>2, ContinueTyped DEF Inv, TypeOK, StoreUnchanged, memory, queues, c
  <2>4. \A v \in Tasks : v \in c.todo \/ (c.pc = "begin" /\ v = c.task) =>
            \A u \in Before(v) : status[u] \in Terminal
    BY <2>1, <2>2 DEF Inv, CallSound, BeginSound, IsFirst
  <2>5. Continue(p, c) /\ UNCHANGED run
    BY <2>1 DEF c
  <2> QED BY <1>1, <2>2, <2>3, <2>4, <2>5, QuietContinue
<1> QED BY <1>2, <1>3 DEF ParCheck

\* The dispatcher that lost the claim goes on with its batch.
LEMMA BeginSkipInv == ASSUME Inv, NEW p \in Actors, BeginSkip(p) PROVE Inv'
<1>1. /\ StoreUnchanged /\ call[p].pc = "begin" /\ UNCHANGED <<memory, queues, faults>>
      /\ NextOfBatch(p, call[p].todo) /\ call[p].todo \in SUBSET Tasks
  BY DEF Inv, TypeOK, Call, BeginSkip, At, StoreUnchanged, store
<1>2. \A t \in call[p].todo : \A u \in Before(t) : status'[u] \in Terminal
  BY <1>1 DEF Inv, CallSound, BeginSound, StoreUnchanged
<1>3. /\ Only(p) /\ CallSound(p)' /\ call'[p].pc \notin {"publish", "resend"}
      /\ call' \in [Actors -> Call] /\ run' \in [Runs -> Run]
  BY <1>1, <1>2, NextOfBatchSound
<1>4. TypeOK'
  BY <1>1, <1>3 DEF Inv, TypeOK, StoreUnchanged, memory, queues
<1> QED BY <1>1, <1>3, <1>4, QuietStep

-----------------------------------------------------------------------------
(* The steps of a run that do not write the store.                          *)

\* A complete tag starts a validation, whatever its verdict.
LEMMA TagCompleteInv == ASSUME Inv, NEW r \in Runs, TagComplete(r) PROVE Inv'
<1> DEFINE t == run[r].task
           c == [call[r] EXCEPT !.pc = "reclaim", !.ret = "completeTag", !.task = t,
                                !.tok = token[t]]
           d == [call[r] EXCEPT !.pc = "complete", !.task = t, !.ret = "completeTag"]
<1>1. /\ StoreUnchanged /\ call[r].pc = "working" /\ UNCHANGED <<memory, queues, faults>>
      /\ r \in Actors /\ t \in Tasks
      /\ Continue(r, c) \/ Continue(r, d)
  BY DEF TagComplete, ToReclaim, At, StoreUnchanged, store, Actors, Inv, CallSound, OnItsTask
<1>2. run' \in [Runs -> Run] /\ \A q \in Runs : run'[q].task = run[q].task
  <2>1. run \in [Runs -> Run] /\ run[r].tags < MaxTags
        /\ run' = [run EXCEPT ![r].tags = @ + 1]
    BY DEF Inv, TypeOK, TagComplete
  <2>2. run[r] \in Run /\ run[r].tags + 1 \in 0..MaxTags
    BY <2>1, TaskFeederAssumption DEF Run
  <2> QED BY <2>1, <2>2 DEF Run
<1>3. /\ c \in Call /\ c.pc = "reclaim" /\ c.task = t
      /\ c.snap = call[r].snap /\ c.todo = call[r].todo
  BY <1>1, ZenonT(60) DEF Inv, TypeOK, Call, PC, Caller
<1>4. /\ d \in Call /\ d.pc = "complete" /\ d.task = t
      /\ d.snap = call[r].snap /\ d.todo = call[r].todo
  BY <1>1, ZenonT(60) DEF Inv, TypeOK, Call, PC, Caller
<1> HIDE DEF c, d
<1>5. TypeOK'
  BY <1>1, <1>2, <1>3, <1>4, ContinueTyped DEF Inv, TypeOK, StoreUnchanged, memory, queues
<1>6. \A v \in Tasks : v \in call[r].todo => \A u \in Before(v) : status[u] \in Terminal
  BY <1>1 DEF Inv, CallSound, BeginSound
<1>7. CASE Continue(r, c)
  BY <1>1, <1>2, <1>3, <1>5, <1>6, <1>7, QuietContinue
<1>8. CASE Continue(r, d)
  BY <1>1, <1>2, <1>4, <1>5, <1>6, <1>8, QuietContinue
<1> QED BY <1>1, <1>7, <1>8

\* A followup is only noted.
LEMMA TagClarifyInv == ASSUME Inv, NEW r \in Runs, TagClarify(r) PROVE Inv'
<1>1. /\ StoreUnchanged /\ call[r].pc = "working" /\ UNCHANGED <<memory, queues, call>>
      /\ r \in Actors
  BY DEF TagClarify, At, StoreUnchanged, store, Actors
<1>2. run' \in [Runs -> Run] /\ \A q \in Runs : run'[q].task = run[q].task
  <2>1. run \in [Runs -> Run] /\ run' = [run EXCEPT ![r].followup = TRUE]
    BY DEF Inv, TypeOK, TagClarify
  <2> QED BY <2>1 DEF Run
<1>3. faults' \in [crash : Nat, restart : Nat, followup : Nat]
  BY FaultTyped DEF Inv, TagClarify
<1>4. TypeOK'
  BY <1>1, <1>2, <1>3 DEF Inv, TypeOK, StoreUnchanged, memory, queues
<1>5. Only(r) /\ CallSound(r)'
  BY <1>1, <1>2 DEF Inv, Only, CallSound, OnItsTask, SnapshotSound, BeginSound, TicketSound,
                    StoreUnchanged, Before
<1> QED BY <1>1, <1>4, <1>5, QuietStep

\* The end of a run looks its task up in the registry.
LEMMA RunEndInv == ASSUME Inv, NEW r \in Runs, RunEnd(r) PROVE Inv'
<1> DEFINE a == run[r].agent
           t == IF a \in Agents THEN registry[a] ELSE NoTask
           c == [call[r] EXCEPT !.pc = "exit"]
           d == [call[r] EXCEPT !.pc = "ended", !.task = t, !.ret = "runEnd"]
<1>1. /\ StoreUnchanged /\ call[r].pc = "working" /\ UNCHANGED <<memory, queues, run, faults>>
      /\ r \in Actors
      /\ Continue(r, c) \/ (Continue(r, d) /\ t # NoTask)
  BY DEF RunEnd, Goto, At, StoreUnchanged, store, Actors
<1>2. t \in Tasks \cup {NoTask}
  BY DEF Inv, TypeOK
<1>3. c \in Call /\ c.pc = "exit" /\ c.snap = call[r].snap /\ c.todo = call[r].todo
  BY <1>1, ZenonT(60) DEF Inv, TypeOK, Call, PC
<1>4. /\ d \in Call /\ d.pc = "ended" /\ d.task = t
      /\ d.snap = call[r].snap /\ d.todo = call[r].todo
  BY <1>1, <1>2, ZenonT(60) DEF Inv, TypeOK, Call, PC, Caller
<1> HIDE DEF c, d, t
<1>5. TypeOK'
  BY <1>1, <1>3, <1>4, ContinueTyped DEF Inv, TypeOK, StoreUnchanged, memory, queues
<1>6. \A v \in Tasks : v \in call[r].todo => \A u \in Before(v) : status[u] \in Terminal
  BY <1>1 DEF Inv, CallSound, BeginSound
<1>7. CASE Continue(r, c)
  BY <1>1, <1>3, <1>5, <1>6, <1>7, QuietContinue DEF OnTask
<1>8. CASE Continue(r, d) /\ t # NoTask
  BY <1>1, <1>2, <1>4, <1>5, <1>6, <1>8, QuietContinue
<1> QED BY <1>1, <1>7, <1>8

\* The end of a run reprompts the task if it is still in progress.
LEMMA EndedReadInv == ASSUME Inv, NEW r \in Runs, EndedRead(r) PROVE Inv'
<1> DEFINE t == call[r].task
           c == [call[r] EXCEPT !.pc = "reclaim", !.ret = "runEnd", !.task = t,
                                !.tok = token[t]]
<1>1. /\ StoreUnchanged /\ call[r].pc = "ended" /\ UNCHANGED <<memory, queues, faults>>
      /\ r \in Actors /\ t \in Tasks
      /\ Return(r, TRUE) \/ (Continue(r, c) /\ UNCHANGED run)
  BY DEF EndedRead, ToReclaim, At, StoreUnchanged, store, Actors, Inv, CallSound, OnItsTask, OnTask
<1>2. /\ c \in Call /\ c.pc = "reclaim" /\ c.task = t
      /\ c.snap = call[r].snap /\ c.todo = call[r].todo
  BY <1>1, ZenonT(60) DEF Inv, TypeOK, Call, PC, Caller
<1> HIDE DEF c
<1>3. CASE Return(r, TRUE)
  BY <1>1, <1>3, QuietReturn
<1>4. CASE Continue(r, c) /\ UNCHANGED run
  <2>1. TypeOK'
    BY <1>1, <1>2, <1>4, ContinueTyped DEF Inv, TypeOK, StoreUnchanged, memory, queues
  <2>2. \A v \in Tasks : v \in call[r].todo => \A u \in Before(v) : status[u] \in Terminal
    BY <1>1 DEF Inv, CallSound, BeginSound
  <2> QED BY <1>1, <1>2, <1>4, <2>1, <2>2, QuietContinue
<1> QED BY <1>1, <1>3, <1>4

\* A run slot that becomes free relies on nothing.
LEMMA FreeSlotInv ==
    ASSUME Inv, NEW r \in Runs, Continue(r, Idle), run' = [run EXCEPT ![r] = NoRun],
           StoreUnchanged, UNCHANGED <<memory, inbox>>, finished' \in Seq(Signal),
           faults' \in [crash : Nat, restart : Nat, followup : Nat]
    PROVE  Inv'
<1>1. /\ r \in Actors /\ call' \in [Actors -> Call] /\ call'[r] = Idle
      /\ \A q \in Actors \ {r} : call'[q] = call[q]
  BY IdleTyped, ContinueTyped DEF Actors, Inv
<1>2. TypeOK'
  BY <1>1, NoRunTyped DEF Inv, TypeOK, StoreUnchanged, memory
<1>3. Only(r)
  BY <1>1 DEF Only, Inv, TypeOK
<1>4. CallSound(r)' /\ call'[r].pc = "idle"
  BY <1>1 DEF CallSound, OnItsTask, SnapshotSound, BeginSound, TicketSound, Idle, NoSnap,
              OnTask, Terminal, Reached
<1> QED BY <1>1, <1>2, <1>3, <1>4, QuietStep

\* A run that exits frees its slot.
LEMMA RunExitInv == ASSUME Inv, NEW r \in Runs, RunExit(r) PROVE Inv'
<1>1. run[r].task \in Tasks /\ run[r].agent \in Agents \cup {NoAgent}
  BY DEF RunExit, At, Inv, CallSound, OnItsTask, Actors, TypeOK, Run
<1>2. [task |-> run[r].task, agent |-> run[r].agent, completed |-> TRUE] \in Signal
  BY <1>1 DEF Signal
<1>3. finished' \in Seq(Signal)
  BY <1>2 DEF RunExit, Inv, TypeOK
<1> QED BY <1>3, FreeSlotInv DEF RunExit, StoreUnchanged, store, Inv, TypeOK

\* So does a run that vanishes.
LEMMA RunCrashInv == ASSUME Inv, NEW r \in Runs, RunCrash(r) PROVE Inv'
<1>1. run[r].task \in Tasks /\ run[r].agent \in Agents \cup {NoAgent}
  BY DEF RunCrash, At, Inv, CallSound, OnItsTask, Actors, TypeOK, Run
<1>2. [task |-> run[r].task, agent |-> run[r].agent, completed |-> FALSE] \in Signal
  BY <1>1 DEF Signal
<1>3. finished' \in Seq(Signal)
  BY <1>2 DEF RunCrash, Inv, TypeOK
<1>4. faults' \in [crash : Nat, restart : Nat, followup : Nat]
  BY FaultTyped DEF RunCrash, Inv
<1>5. StoreUnchanged /\ UNCHANGED <<memory, inbox>> /\ Continue(r, Idle)
      /\ run' = [run EXCEPT ![r] = NoRun]
  BY DEF RunCrash, StoreUnchanged, store
<1> QED BY <1>3, <1>4, <1>5, FreeSlotInv

-----------------------------------------------------------------------------
(* The queue manager and the sweeps, as far as they do not write the store.  *)

\* The slot a run gets is a free one.
LEMMA FreeSlotFree == FreeSlots # {} => FreeSlot \in Runs /\ call[FreeSlot].pc = "idle"
BY DEF FreeSlots, FreeSlot

\* A run that starts is on the task of its message.
LEMMA StartRunInv == ASSUME Inv, StartRun PROVE Inv'
<1> DEFINE m == Head(inbox)
           e == [NoRun EXCEPT !.task = m.task, !.agent = m.agent]
<1>0. PICK r \in Runs : /\ call[r].pc = "idle"
                        /\ run' = [run EXCEPT ![r] = e] /\ Continue(r, Working)
  BY FreeSlotFree DEF StartRun
<1>1. /\ StoreUnchanged /\ UNCHANGED <<registry, dispatchedAt, finished, faults>>
      /\ run' = [run EXCEPT ![r] = e] /\ Continue(r, Working) /\ r \in Actors
      /\ inbox' = Tail(inbox) /\ observed' = observed \cup {m.task} /\ inbox # <<>>
  BY <1>0 DEF StartRun, StoreUnchanged, store, Actors
<1>2. m \in Message /\ Tail(inbox) \in Seq(Message)
  BY <1>1 DEF Inv, TypeOK
<1>3. e \in Run /\ e.task \in Tasks
  BY <1>2, NoRunTyped DEF Run, Message
<1>4. Working \in Call /\ Working.pc = "working" /\ Working.todo = {} /\ Working.snap = NoSnap
  BY IdleTyped, IdleAt DEF Working, PC, Idle
<1> HIDE DEF e
<1>5. /\ call' \in [Actors -> Call] /\ call'[r] = Working
      /\ \A q \in Actors \ {r} : call'[q] = call[q]
  BY <1>1, <1>4, ContinueTyped DEF Inv
<1>6. run' \in [Runs -> Run] /\ run'[r] = e /\ \A q \in Runs \ {r} : run'[q] = run[q]
  BY <1>1, <1>3 DEF Inv, TypeOK
<1>7. m.task \in Tasks
  BY <1>2 DEF Message
<1> HIDE DEF m
<1>8. TypeOK'
  BY <1>1, <1>2, <1>5, <1>6, <1>7 DEF Inv, TypeOK, StoreUnchanged
<1>9. Only(r)
  BY <1>5, <1>6 DEF Only
<1>10. call'[r].pc = "working" /\ call'[r].todo = {} /\ call'[r].snap = NoSnap
  BY <1>4, <1>5
<1>11. OnItsTask(r)'
  BY <1>3, <1>6, <1>10 DEF OnItsTask, OnTask
<1>12. SnapshotSound(r)' /\ BeginSound(r)' /\ TicketSound(r)'
  BY <1>10 DEF SnapshotSound, BeginSound, TicketSound, NoSnap, Terminal, Reached
<1> QED BY <1>1, <1>8, <1>9, <1>10, <1>11, <1>12, QuietStep DEF CallSound

\* A sweeper is not a run.
LEMMA SweeperIsActor == \A p \in Singletons : p \in Actors /\ p \notin Runs
BY TaskFeederAssumption DEF Actors

\* A sweeper that moves to a state in which it has nothing to begin.
LEMMA SweeperContinue ==
    ASSUME Inv, StoreUnchanged, UNCHANGED <<memory, queues, run, faults>>,
           NEW p \in Singletons, NEW c \in Call, Continue(p, c),
           c.pc \in {"idle", "sweep", "probe", "recover", "reclaim", "rescan", "advance"},
           c.pc \in OnTask => c.task \in Tasks,
           c.snap \in {call[p].snap, NoSnap, Snap},
           c.todo \in {{}, call[p].todo}
    PROVE  Inv'
<1>1. p \in Actors /\ p \notin Runs
  BY SweeperIsActor
<1>2. TypeOK'
  BY <1>1, ContinueTyped DEF Inv, TypeOK, StoreUnchanged, memory, queues
<1>3. \A t \in Tasks : t \in c.todo \/ (c.pc = "begin" /\ t = c.task) =>
            \A u \in Before(t) : status[u] \in Terminal
  BY <1>1 DEF Inv, CallSound, BeginSound
<1> QED BY <1>1, <1>2, <1>3, QuietContinue

\* The candidates of a sweep are tasks.
LEMMA ToSweepTyped ==
    ASSUME NEW rest \in SUBSET Tasks
    PROVE  /\ [Idle EXCEPT !.pc = "sweep", !.cands = rest] \in Call
           /\ [Idle EXCEPT !.pc = "sweep", !.cands = rest].snap = NoSnap
           /\ [Idle EXCEPT !.pc = "sweep", !.cands = rest].todo = {}
           /\ [Idle EXCEPT !.pc = "sweep", !.cands = rest].pc = "sweep"
BY IdleTyped DEF Idle, Call, PC

\* A sweep goes on with candidates that are tasks.
LEMMA ToSweepInv ==
    ASSUME Inv, StoreUnchanged, UNCHANGED <<memory, queues, run, faults>>,
           NEW p \in Singletons, NEW rest \in SUBSET Tasks, ToSweep(p, rest)
    PROVE  Inv'
<1> DEFINE c == [Idle EXCEPT !.pc = "sweep", !.cands = rest]
<1>1. c \in Call /\ c.snap = NoSnap /\ c.todo = {} /\ c.pc = "sweep"
  BY ToSweepTyped
<1>2. Continue(p, c)
  BY DEF ToSweep
<1> HIDE DEF c
<1> QED BY <1>1, <1>2, SweeperContinue DEF OnTask

\* The watchdog starts a sweep.
LEMMA WatchdogTickInv == ASSUME Inv, WatchdogTick PROVE Inv'
BY ToSweepInv DEF WatchdogTick, StoreUnchanged, store, Singletons, InProgressTasks

\* The start-up scan starts one.
LEMMA BootScanInv == ASSUME Inv, BootScan PROVE Inv'
BY ToSweepInv DEF BootScan, StoreUnchanged, store, Singletons, InProgressTasks

\* A sweep probes or recovers one of its candidates.
LEMMA SweepNextInv == ASSUME Inv, NEW p \in Sweepers, SweepNext(p) PROVE Inv'
<1>1. /\ StoreUnchanged /\ UNCHANGED <<memory, queues, run, faults>>
      /\ p \in Singletons /\ p \in Actors /\ call[p].cands \in SUBSET Tasks
  BY SweeperIsActor DEF SweepNext, StoreUnchanged, store, Sweepers, Singletons, Inv, TypeOK, Call
<1>2. PICK t \in Tasks :
          IF LiveRuns(Executor[t]) # {}
          THEN ToSweep(p, call[p].cands \ {t})
          ELSE Continue(p, [call[p] EXCEPT !.cands = @ \ {t}, !.task = t,
                              !.pc = IF p = Watchdog THEN "probe" ELSE "recover"])
  BY DEF SweepNext
<1>3. CASE ToSweep(p, call[p].cands \ {t})
  BY <1>1, <1>3, ToSweepInv
<1> DEFINE c == [call[p] EXCEPT !.cands = @ \ {t}, !.task = t,
                          !.pc = IF p = Watchdog THEN "probe" ELSE "recover"]
<1>4. CASE Continue(p, c)
  <2>1. /\ c \in Call /\ c.pc \in {"probe", "recover"} /\ c.task = t
        /\ c.snap = call[p].snap /\ c.todo = call[p].todo
    BY <1>1, ZenonT(60) DEF Inv, TypeOK, Call, PC
  <2> HIDE DEF c
  <2> QED BY <1>1, <1>4, <2>1, SweeperContinue
<1> QED BY <1>2, <1>3, <1>4

\* The probe decides on a recovery.
LEMMA ProbeInv == ASSUME Inv, NEW p \in Sweepers, Probe(p) PROVE Inv'
<1> DEFINE c == [call[p] EXCEPT !.pc = "recover"]
<1>1. /\ StoreUnchanged /\ UNCHANGED <<memory, queues, run, faults>> /\ call[p].pc = "probe"
      /\ p \in Singletons /\ p \in Actors /\ call[p].cands \in SUBSET Tasks
      /\ Continue(p, c) \/ ToSweep(p, call[p].cands)
  BY SweeperIsActor
     DEF Probe, At, Goto, StoreUnchanged, store, Sweepers, Singletons, Inv, TypeOK, Call
<1>2. /\ c \in Call /\ c.pc = "recover" /\ c.task = call[p].task /\ c.task \in Tasks
      /\ c.snap = call[p].snap /\ c.todo = call[p].todo
  BY <1>1, ZenonT(60) DEF Inv, TypeOK, Call, PC, CallSound, OnItsTask, OnTask
<1> HIDE DEF c
<1> QED BY <1>1, <1>2, SweeperContinue, ToSweepInv

\* A recovery expects the token it has read.
LEMMA RecoverInv == ASSUME Inv, NEW p \in Sweepers, Recover(p) PROVE Inv'
<1> DEFINE t == call[p].task
           c == [call[p] EXCEPT !.pc = "reclaim", !.ret = "sweep", !.task = t, !.tok = token[t]]
<1>1. /\ StoreUnchanged /\ UNCHANGED <<memory, queues, run, faults>> /\ call[p].pc = "recover"
      /\ p \in Singletons /\ p \in Actors /\ call[p].cands \in SUBSET Tasks
      /\ Continue(p, c) \/ ToSweep(p, call[p].cands)
  BY SweeperIsActor
     DEF Recover, At, ToReclaim, StoreUnchanged, store, Sweepers, Singletons, Inv, TypeOK, Call
<1>2. t \in Tasks
  BY <1>1 DEF Inv, CallSound, OnItsTask, OnTask
<1>3. /\ c \in Call /\ c.pc = "reclaim" /\ c.task = t
      /\ c.snap = call[p].snap /\ c.todo = call[p].todo
  BY <1>1, <1>2, ZenonT(60) DEF Inv, TypeOK, Call, PC, Caller
<1> HIDE DEF c
<1> QED BY <1>1, <1>2, <1>3, SweeperContinue, ToSweepInv

\* A sweep ends.
LEMMA SweepEndInv == ASSUME Inv, NEW p \in Sweepers, SweepEnd(p) PROVE Inv'
<1> DEFINE c == IF p = Startup THEN [Idle EXCEPT !.pc = "rescan"] ELSE Idle
<1>1. /\ StoreUnchanged /\ UNCHANGED <<memory, queues, run, faults>>
      /\ p \in Singletons /\ Continue(p, c)
  BY DEF SweepEnd, StoreUnchanged, store, Sweepers, Singletons
<1>2. c \in Call /\ c.pc \in {"rescan", "idle"} /\ c.snap = NoSnap /\ c.todo = {}
  BY IdleTyped, IdleAt DEF PC, Idle
<1> HIDE DEF c
<1> QED BY <1>1, <1>2, SweeperContinue DEF OnTask

\* The start-up scan advances from what it reads.
LEMMA RescanInv == ASSUME Inv, Rescan PROVE Inv'
<1> DEFINE c == [Idle EXCEPT !.pc = "advance", !.snap = Snap]
<1>1. /\ StoreUnchanged /\ UNCHANGED <<memory, queues, run, faults>>
      /\ Startup \in Singletons
      /\ Continue(Startup, c) \/ Continue(Startup, Idle)
  BY DEF Rescan, StoreUnchanged, store, Singletons
<1>2. c \in Call /\ c.pc = "advance" /\ c.snap = Snap /\ c.todo = {}
  BY IdleTyped, SnapTyped DEF Inv, Idle, Call, PC
<1>3. Idle \in Call /\ Idle.pc = "idle" /\ Idle.snap = NoSnap /\ Idle.todo = {}
  BY IdleTyped DEF Idle
<1> HIDE DEF c
<1> QED BY <1>1, <1>2, <1>3, SweeperContinue DEF OnTask

-----------------------------------------------------------------------------
(* Time and restarts.                                                       *)

\* A step that leaves every call, every run and the store alone.
LEMMA NothingMoves ==
    ASSUME Inv, TypeOK', StoreUnchanged, UNCHANGED <<run, call>>
    PROVE  Inv'
<1>1. StoreSound'
  BY DEF Inv, StoreUnchanged, StoreSound, CountersSound, SentSound, OrderKept,
         ListStatusSound, Before
<1>2. OneDispatchPerToken'
  BY DEF Inv, StoreUnchanged, OneDispatchPerToken, Dispatching, Ticket
<1>3. \A p \in Actors : CallSound(p)'
  BY DEF Inv, StoreUnchanged, CallSound, OnItsTask, SnapshotSound, BeginSound, TicketSound, Before
<1> QED BY <1>1, <1>2, <1>3 DEF Inv

\* Time passes.
LEMMA GraceElapsesInv == ASSUME Inv, NEW t \in Tasks, GraceElapses(t) PROVE Inv'
<1>1. TypeOK' /\ StoreUnchanged /\ UNCHANGED <<run, call>>
  BY DEF GraceElapses, Inv, TypeOK, StoreUnchanged, store, queues
<1> QED BY <1>1, NothingMoves

\* An engine that starts relies on nothing but the files.
LEMMA FreshEngine ==
    ASSUME NEW pc \in PC \ (OnTask \cup {"resend", "publish"}),
           call' = [p \in Actors |-> IF p = Startup THEN [Idle EXCEPT !.pc = pc] ELSE Idle]
    PROVE  /\ call' \in [Actors -> Call]
           /\ \A p \in Actors : CallSound(p)' /\ p \notin Dispatching'
<1>1. /\ [Idle EXCEPT !.pc = pc] \in Call /\ Idle \in Call
      /\ [Idle EXCEPT !.pc = pc].pc = pc /\ Idle.pc = "idle"
      /\ [Idle EXCEPT !.pc = pc].snap = NoSnap /\ Idle.snap = NoSnap
      /\ [Idle EXCEPT !.pc = pc].todo = {} /\ Idle.todo = {}
  BY IdleTyped, IdleAt DEF Idle
<1>2. \A p \in Actors : /\ call'[p] \in Call /\ call'[p].snap = NoSnap /\ call'[p].todo = {}
                        /\ call'[p].pc \in {pc, "idle"} /\ (p \in Runs => call'[p].pc = "idle")
  BY <1>1, TaskFeederAssumption DEF Singletons
<1>3. ASSUME NEW p \in Actors PROVE CallSound(p)' /\ p \notin Dispatching'
  <2>1. OnItsTask(p)'
    BY <1>2 DEF OnItsTask, OnTask
  <2>2. SnapshotSound(p)' /\ BeginSound(p)' /\ TicketSound(p)' /\ p \notin Dispatching'
    BY <1>2 DEF SnapshotSound, BeginSound, TicketSound, NoSnap, Terminal, Reached, OnTask,
                Dispatching
  <2> QED BY <2>1, <2>2 DEF CallSound
<1> QED BY <1>1, <1>2, <1>3

\* After a restart the files are what they were.
LEMMA RestartInv == ASSUME Inv, Restart PROVE Inv'
<1>1. /\ StoreUnchanged /\ run' = [r \in Runs |-> NoRun]
      /\ registry' = [a \in Agents |-> NoTask] /\ dispatchedAt' = {} /\ observed' = {}
      /\ inbox' = <<>> /\ finished' = <<>>
      /\ call' = [p \in Actors |-> IF p = Startup THEN [Idle EXCEPT !.pc = "boot"] ELSE Idle]
  BY DEF Restart, StoreUnchanged, store
<1>2. /\ call' \in [Actors -> Call]
      /\ \A p \in Actors : CallSound(p)' /\ p \notin Dispatching'
  BY <1>1, FreshEngine DEF PC, OnTask
<1>3. faults' \in [crash : Nat, restart : Nat, followup : Nat]
  BY FaultTyped DEF Restart, Inv
<1>4. TypeOK'
  <2>1. inbox' \in Seq(Message) /\ finished' \in Seq(Signal)
    BY <1>1
  <2>2. run' \in [Runs -> Run] /\ registry' \in [Agents -> Tasks \cup {NoTask}]
    BY <1>1, NoRunTyped
  <2> QED BY <1>1, <1>2, <1>3, <2>1, <2>2 DEF Inv, TypeOK, StoreUnchanged
<1>5. StoreSound'
  BY <1>1 DEF Inv, StoreUnchanged, StoreSound, CountersSound, SentSound, OrderKept,
         ListStatusSound, Before
<1>6. OneDispatchPerToken'
  BY <1>1, <1>2 DEF Inv, StoreUnchanged, OneDispatchPerToken, Dispatching
<1> QED BY <1>2, <1>4, <1>5, <1>6 DEF Inv

\* Nothing has been read or begun at first.
LEMMA InitInv == Init => Inv
<1> SUFFICES ASSUME Init PROVE Inv
  OBVIOUS
<1>1. TypeOK
  <2>1. inbox \in Seq(Message) /\ finished \in Seq(Signal)
    BY DEF Init
  <2>2. run \in [Runs -> Run] /\ registry \in [Agents -> Tasks \cup {NoTask}]
    BY NoRunTyped DEF Init
  <2>3. call \in [Actors -> Call]
    BY IdleTyped, IdleAt DEF Init, PC
  <2>4. faults \in [crash : Nat, restart : Nat, followup : Nat]
    BY DEF Init
  <2> QED BY <2>1, <2>2, <2>3, <2>4 DEF Init, TypeOK, ListStatus, TaskStatus
<1>2. StoreSound
  BY TaskFeederAssumption DEF Init, StoreSound, CountersSound, SentSound, OrderKept,
     ListStatusSound, Reached
<1>3. \A p \in Actors : /\ call[p].snap = NoSnap /\ call[p].todo = {}
                        /\ call[p].pc \in {"idle", "rescan"} /\ (p \in Runs => call[p].pc = "idle")
  BY TaskFeederAssumption DEF Init, Idle, Singletons, Actors
<1>4. ASSUME NEW p \in Actors PROVE CallSound(p) /\ p \notin Dispatching
  <2>1. OnItsTask(p)
    BY <1>3 DEF OnItsTask, OnTask
  <2>2. SnapshotSound(p) /\ BeginSound(p) /\ TicketSound(p) /\ p \notin Dispatching
    BY <1>3 DEF SnapshotSound, BeginSound, TicketSound, NoSnap, Terminal, Reached, Dispatching
  <2> QED BY <2>1, <2>2 DEF CallSound
<1>5. OneDispatchPerToken
  BY <1>4 DEF Init, OneDispatchPerToken, Dispatching
<1> QED BY <1>1, <1>2, <1>4, <1>5 DEF Inv

-----------------------------------------------------------------------------
(* Dispatch messages.                                                       *)

\* An actor that does not get ready to dispatch adds no ticket.
LEMMA NoNewTicket ==
    ASSUME Inv, NEW p \in Actors, Only(p), UNCHANGED sent,
           call'[p].pc \notin {"publish", "resend"}
    PROVE  OneDispatchPerToken'
<1>1. \A q \in Dispatching' : q \in Dispatching /\ Ticket(q)' = Ticket(q)
  BY DEF Dispatching, Ticket, Only
<1> QED BY <1>1 DEF Inv, OneDispatchPerToken

\* A message that is sent uses up the ticket of its sender.
LEMMA SendSound ==
    ASSUME Inv, TypeOK', UNCHANGED store, NEW p \in Dispatching, Only(p), CallSound(p)',
           sent' = sent \cup {Ticket(p)}, call'[p].pc \notin {"publish", "resend"}
    PROVE  Inv'
<1>0. p \in Actors /\ UNCHANGED <<listStatus, status, attempts, token>>
  BY DEF Dispatching, store
<1>1. Monotone
  BY <1>0 DEF Inv, TypeOK, Monotone
<1>2. /\ Ticket(p)[2] <= token[Ticket(p)[1]] /\ Ticket(p)[2] < MaxAttempts
      /\ status[Ticket(p)[1]] # "Pending"
  BY <1>0 DEF Inv, CallSound, TicketSound, Dispatching, Ticket
<1> DEFINE d == Ticket(p)
<1>3. SentSound'
  BY <1>0, <1>2 DEF Inv, StoreSound, SentSound
<1>4. StoreSound'
  BY <1>0, <1>3 DEF Inv, StoreSound, CountersSound, OrderKept, ListStatusSound, Before
<1>5. \A q \in Dispatching' : q \in Dispatching /\ q # p /\ Ticket(q)' = Ticket(q)
  BY DEF Dispatching, Ticket, Only
<1>6. OneDispatchPerToken'
  BY <1>2, <1>5 DEF Inv, OneDispatchPerToken
<1> QED BY <1>0, <1>1, <1>4, <1>6, StepSound

\* The message and its ticket are well typed.
LEMMA SendTyped ==
    ASSUME TypeOK, NEW m \in Message, inbox' = Append(inbox, m),
           NEW d \in Tasks \X Nat, sent' = sent \cup {d}
    PROVE  inbox' \in Seq(Message) /\ sent' \subseteq Tasks \X Nat
<1>1. inbox' \in Seq(Message)
  BY DEF TypeOK
<1>2. sent' \subseteq Tasks \X Nat
  BY DEF TypeOK
<1> QED BY <1>1, <1>2

\* The dispatcher sends the dispatch it has claimed.
LEMMA PublishInv == ASSUME Inv, NEW p \in Actors, Publish(p) PROVE Inv'
<1> DEFINE t == call[p].task
           m == [task |-> t, agent |-> Executor[t]]
<1>1. /\ call[p].pc = "publish" /\ p \in Dispatching /\ UNCHANGED <<store, observed, finished, faults>>
      /\ registry' = [registry EXCEPT ![Executor[t]] = t]
      /\ dispatchedAt' = dispatchedAt \cup {t}
      /\ inbox' = Append(inbox, m) /\ sent' = sent \cup {Ticket(p)}
      /\ NextOfBatch(p, call[p].todo)
  BY DEF Publish, At, SendDispatch, Dispatching, Ticket
<1>2. /\ t \in Tasks /\ Executor[t] \in Agents /\ call[p].todo \in SUBSET Tasks
      /\ Ticket(p) \in Tasks \X Nat
  BY <1>1, TaskFeederAssumption DEF Inv, CallSound, OnItsTask, OnTask, TypeOK, Call, Ticket
<1>3. m \in Message
  BY <1>2 DEF Message
<1>4. \A v \in call[p].todo : \A u \in Before(v) : status'[u] \in Terminal
  BY <1>1, <1>2 DEF Inv, CallSound, BeginSound, store
<1>5. /\ Only(p) /\ CallSound(p)' /\ call'[p].pc \notin {"publish", "resend"}
      /\ call' \in [Actors -> Call] /\ run' \in [Runs -> Run]
  BY <1>1, <1>2, <1>4, NextOfBatchSound
<1> HIDE DEF m, t
<1>6. inbox' \in Seq(Message) /\ sent' \subseteq Tasks \X Nat
  BY <1>1, <1>2, <1>3, SendTyped DEF Inv
<1>7. registry' \in [Agents -> Tasks \cup {NoTask}] /\ dispatchedAt' \subseteq Tasks
      /\ observed' \subseteq Tasks
  BY <1>1, <1>2 DEF Inv, TypeOK
<1>8. TypeOK'
  BY <1>1, <1>5, <1>6, <1>7 DEF Inv, TypeOK, store
<1> QED BY <1>1, <1>5, <1>8, SendSound

\* A run sends the reprompt it has claimed.
LEMMA RepromptInv == ASSUME Inv, NEW p \in Runs, Reprompt(p) PROVE Inv'
<1> DEFINE t == call[p].task
           m == [task |-> t, agent |-> OwnerAgent[t]]
<1>1. /\ call[p].pc = "resend" /\ p \in Dispatching /\ p \in Actors
      /\ UNCHANGED <<store, memory, finished, faults>>
      /\ inbox' = Append(inbox, m) /\ sent' = sent \cup {Ticket(p)}
      /\ Return(p, TRUE)
  BY DEF Reprompt, At, SendDispatch, Dispatching, Ticket, Actors
<1>2. t \in Tasks /\ OwnerAgent[t] \in Agents \cup {NoAgent} /\ Ticket(p) \in Tasks \X Nat
  BY <1>1, TaskFeederAssumption DEF Inv, CallSound, OnItsTask, OnTask, TypeOK, Call, Ticket
<1>3. m \in Message
  BY <1>2 DEF Message
<1>5. /\ Only(p) /\ CallSound(p)' /\ call'[p].pc \notin {"publish", "resend"}
      /\ call' \in [Actors -> Call] /\ run' \in [Runs -> Run]
  BY <1>1, ReturnSound
<1> HIDE DEF m, t
<1>6. inbox' \in Seq(Message) /\ sent' \subseteq Tasks \X Nat
  BY <1>1, <1>2, <1>3, SendTyped DEF Inv
<1>8. TypeOK'
  BY <1>1, <1>5, <1>6 DEF Inv, TypeOK, store, memory
<1> QED BY <1>1, <1>5, <1>8, SendSound

\* A sweep sends the dispatch it has claimed.
LEMMA RedispatchInv == ASSUME Inv, NEW p \in Sweepers, Redispatch(p) PROVE Inv'
<1> DEFINE t == call[p].task
           m == [task |-> t, agent |-> Executor[t]]
<1>1. /\ call[p].pc = "resend" /\ p \in Dispatching /\ p \in Actors
      /\ UNCHANGED <<store, finished, faults>>
      /\ registry' = [registry EXCEPT ![Executor[t]] = t]
      /\ dispatchedAt' = dispatchedAt \cup {t} /\ observed' = observed \ {t}
      /\ inbox' = Append(inbox, m) /\ sent' = sent \cup {Ticket(p)}
      /\ Return(p, TRUE)
  BY DEF Redispatch, At, SendDispatch, Dispatching, Ticket, Actors, Singletons, Sweepers
<1>2. t \in Tasks /\ Executor[t] \in Agents /\ Ticket(p) \in Tasks \X Nat
  BY <1>1, TaskFeederAssumption DEF Inv, CallSound, OnItsTask, OnTask, TypeOK, Call, Ticket
<1>3. m \in Message
  BY <1>2 DEF Message
<1>5. /\ Only(p) /\ CallSound(p)' /\ call'[p].pc \notin {"publish", "resend"}
      /\ call' \in [Actors -> Call] /\ run' \in [Runs -> Run]
  BY <1>1, ReturnSound
<1> HIDE DEF m, t
<1>6. inbox' \in Seq(Message) /\ sent' \subseteq Tasks \X Nat
  BY <1>1, <1>2, <1>3, SendTyped DEF Inv
<1>7. registry' \in [Agents -> Tasks \cup {NoTask}] /\ dispatchedAt' \subseteq Tasks
      /\ observed' \subseteq Tasks
  BY <1>1, <1>2 DEF Inv, TypeOK
<1>8. TypeOK'
  BY <1>1, <1>5, <1>6, <1>7 DEF Inv, TypeOK, store
<1> QED BY <1>1, <1>5, <1>8, SendSound

-----------------------------------------------------------------------------
(* The status of the tasklist.                                              *)

\* The tasklist fails because of a task that has failed.
LEMMA HaltInv == ASSUME Inv, NEW p \in Actors, Halt(p) PROVE Inv'
<1> DEFINE c == [call[p] EXCEPT !.pc = "advance", !.snap = [Snap EXCEPT !.list = "Failed"]]
<1>1. /\ call[p].pc = "halt" /\ UNCHANGED <<status, attempts, token, memory, queues, sent, faults>>
      /\ \/ /\ ValidListTransition(listStatus, "Failed") /\ listStatus' = "Failed"
            /\ Continue(p, c) /\ UNCHANGED run
         \/ Return(p, FALSE) /\ UNCHANGED listStatus
  BY DEF Halt, At
<1>2. CASE Return(p, FALSE) /\ UNCHANGED listStatus
  BY <1>1, <1>2, QuietReturn DEF StoreUnchanged
<1>3. CASE /\ ValidListTransition(listStatus, "Failed") /\ listStatus' = "Failed"
           /\ Continue(p, c) /\ UNCHANGED run
  <2>1. Snap \in Snapshot
    BY SnapTyped DEF Inv
  <2>2. [Snap EXCEPT !.list = "Failed"] \in Snapshot
        /\ [Snap EXCEPT !.list = "Failed"].status = status
    BY <2>1 DEF Snapshot, Snap, ListStatus
  <2>3. /\ c \in Call /\ c.pc = "advance" /\ c.task = call[p].task
        /\ c.snap.status = status /\ c.todo = call[p].todo
    BY <2>2, ZenonT(60) DEF Inv, TypeOK, Call, PC
  <2> HIDE DEF c
  <2>4. call' \in [Actors -> Call] /\ call'[p] = c /\ Only(p)
    BY <1>3, <2>3, ContinueTyped DEF Inv, Only
  <2>5. TypeOK'
    BY <1>1, <1>3, <2>4 DEF Inv, TypeOK, memory, queues, ListStatus
  <2>6. Monotone
    BY <1>1 DEF Inv, TypeOK, Monotone
  <2>7. call[p].task \in Tasks /\ status[call[p].task] = "Failed"
    BY <1>1 DEF Inv, CallSound, OnItsTask, OnTask, SnapshotSound, Terminal
  <2>8. StoreSound'
    BY <1>1, <1>3, <2>7
       DEF Inv, StoreSound, CountersSound, SentSound, OrderKept, ListStatusSound, Before
  <2>9. OnItsTask(p)' /\ SnapshotSound(p)'
    BY <1>1, <1>3, <2>3, <2>4
       DEF Inv, CallSound, OnItsTask, OnTask, SnapshotSound, StoreSound, CountersSound
  <2>10. BeginSound(p)' /\ TicketSound(p)'
    BY <1>1, <2>3, <2>4 DEF Inv, CallSound, BeginSound, TicketSound, Before
  <2>11. OneDispatchPerToken'
    BY <1>1, <2>3, <2>4, NoNewTicket
  <2> QED BY <2>4, <2>5, <2>6, <2>8, <2>9, <2>10, <2>11, StepSound DEF CallSound
<1> QED BY <1>1, <1>2, <1>3

\* The tasklist completes: what a snapshot shows as over is over.
LEMMA AdvanceCompleteInv == ASSUME Inv, NEW p \in Actors, AdvanceComplete(p) PROVE Inv'
<1> DEFINE s == call[p].snap.status
<1>1. /\ call[p].pc = "advance" /\ UNCHANGED <<status, attempts, token, memory, queues, sent, faults>>
      /\ OpenGroups(s) = {} /\ ~AnyFailed(s)
      /\ \/ /\ ValidListTransition(listStatus, "Completed") /\ listStatus' = "Completed"
            /\ Return(p, TRUE)
         \/ Return(p, FALSE) /\ UNCHANGED listStatus
  BY DEF AdvanceComplete, Advancing, At
<1>2. CASE Return(p, FALSE) /\ UNCHANGED listStatus
  BY <1>1, <1>2, QuietReturn DEF StoreUnchanged
<1>3. CASE listStatus' = "Completed" /\ Return(p, TRUE)
  <2>1. ASSUME NEW t \in Tasks PROVE status[t] \in {"Completed", "Skipped"}
    <3>1. GroupOf[t] \in 1..Groups /\ t \in Members(GroupOf[t])
      BY TaskFeederAssumption DEF Members
    <3>2. s[t] \in Terminal /\ s[t] # "Failed"
      BY <1>1, <3>1 DEF OpenGroups, GroupTerminal, AnyFailed
    <3> QED BY <3>2 DEF Inv, CallSound, SnapshotSound, Terminal
  <2>2. /\ Only(p) /\ CallSound(p)' /\ call'[p].pc \notin {"publish", "resend"}
        /\ call' \in [Actors -> Call] /\ run' \in [Runs -> Run]
    BY <1>1, <1>3, ReturnSound
  <2>3. TypeOK'
    BY <1>1, <1>3, <2>2 DEF Inv, TypeOK, memory, queues, ListStatus
  <2>4. Monotone
    BY <1>1 DEF Inv, TypeOK, Monotone
  <2>5. StoreSound'
    BY <1>1, <1>3, <2>1
       DEF Inv, StoreSound, CountersSound, SentSound, OrderKept, ListStatusSound, Before
  <2>6. OneDispatchPerToken'
    BY <1>1, <2>2, NoNewTicket
  <2> QED BY <2>2, <2>3, <2>4, <2>5, <2>6, StepSound
<1> QED BY <1>1, <1>2, <1>3

-----------------------------------------------------------------------------
(* The status and the counters of a task.                                   *)

\* Task t is over: completed from InProgress, or failed before it was completed.
\* If that used up an attempt, it was the last one.
LEMMA EndsTask ==
    ASSUME Inv, NEW t \in Tasks, NEW x \in {"Completed", "Failed"},
           status' = [status EXCEPT ![t] = x], UNCHANGED <<listStatus, sent>>,
           \/ status[t] = "InProgress"
           \/ status[t] \in {"Pending", "Failed"} /\ x = "Failed",
           \/ UNCHANGED <<attempts, token>>
           \/ /\ attempts' = [attempts EXCEPT ![t] = @ + 1]
              /\ token' = [token EXCEPT ![t] = @ + 1]
              /\ x = "Failed" /\ status[t] = "InProgress"
    PROVE  /\ StoreSound' /\ Monotone
           /\ status' \in [Tasks -> TaskStatus]
           /\ attempts' \in [Tasks -> Nat] /\ token' \in [Tasks -> Nat]
<1>0. /\ status \in [Tasks -> TaskStatus] /\ attempts \in [Tasks -> Nat]
      /\ token \in [Tasks -> Nat] /\ MaxAttempts \in Nat
      /\ CountersSound /\ SentSound /\ OrderKept /\ ListStatusSound /\ sent \subseteq Tasks \X Nat
  BY TaskFeederAssumption DEF Inv, TypeOK, StoreSound
<1>1. /\ status' \in [Tasks -> TaskStatus] /\ status'[t] = x
      /\ \A u \in Tasks \ {t} : status'[u] = status[u]
  BY <1>0 DEF TaskStatus
<1>2. /\ attempts' \in [Tasks -> Nat] /\ token' \in [Tasks -> Nat]
      /\ \A u \in Tasks : u # t => attempts'[u] = attempts[u] /\ token'[u] = token[u]
      /\ \A u \in Tasks : token[u] <= token'[u]
      /\ \/ attempts'[t] = attempts[t] /\ token'[t] = token[t]
         \/ /\ attempts'[t] = attempts[t] + 1 /\ token'[t] = token[t] + 1
            /\ x = "Failed" /\ status[t] = "InProgress"
  BY <1>0
<1>3. Monotone
  BY <1>0, <1>1, <1>2 DEF Monotone, Terminal
<1>4. CountersSound'
  <2>1. SUFFICES ASSUME NEW u \in Tasks
        PROVE /\ status'[u] \in Reached
              /\ token'[u] = attempts'[u] /\ attempts'[u] <= MaxAttempts
              /\ status'[u] # "Failed" => attempts'[u] < MaxAttempts
              /\ Ghost(u) => status'[u] \in {"Pending", "Failed"}
    BY DEF CountersSound, Ghost
  <2>2. /\ status[u] \in Reached
        /\ token[u] = attempts[u] /\ attempts[u] <= MaxAttempts
        /\ status[u] # "Failed" => attempts[u] < MaxAttempts
        /\ Ghost(u) => status[u] \in {"Pending", "Failed"}
        /\ attempts[u] \in Nat
    BY <1>0 DEF CountersSound
  <2>3. CASE u # t
    BY <1>1, <1>2, <2>2, <2>3
  <2>4. CASE u = t
    BY <1>0, <1>1, <1>2, <2>2, <2>4 DEF Reached
  <2> QED BY <2>3, <2>4
<1>5. SentSound'
  <2>1. SUFFICES ASSUME NEW d \in sent
        PROVE d[2] <= token'[d[1]] /\ d[2] < MaxAttempts /\ status'[d[1]] # "Pending"
    BY <1>0 DEF SentSound
  <2>2. d[1] \in Tasks /\ d[2] \in Nat
    BY <1>0
  <2> QED BY <1>0, <1>1, <1>2, <2>2 DEF SentSound
<1>6. OrderKept'
  <2>1. SUFFICES ASSUME NEW u \in Tasks, status'[u] \in {"InProgress", "Completed"},
                        NEW v \in Before(u)
                 PROVE  status'[v] \in Terminal
    BY DEF OrderKept, Before
  <2>2. status[u] \in {"InProgress", "Completed"}
    BY <1>1, <2>1
  <2>3. v \in Tasks /\ status[v] \in Terminal
    BY <1>0, <2>2 DEF OrderKept, Before
  <2> QED BY <1>1, <2>3 DEF Terminal
<1>7. ListStatusSound'
  <2>1. listStatus # "Completed"
    BY <1>0 DEF ListStatusSound
  <2>2. ASSUME listStatus = "Failed" PROVE \E u \in Tasks : status'[u] = "Failed"
    <3>1. PICK u \in Tasks : status[u] = "Failed"
      BY <1>0, <2>2 DEF ListStatusSound
    <3>2. status'[u] = "Failed"
      BY <1>1, <3>1
    <3> QED BY <3>2
  <2> QED BY <2>1, <2>2 DEF ListStatusSound
<1> QED BY <1>1, <1>2, <1>3, <1>4, <1>5, <1>6, <1>7 DEF StoreSound

\* A task that is failed: whatever the store accepts that from was not completed.
LEMMA FailLegal ==
    ASSUME Inv, NEW t \in Tasks, ValidTaskTransition(status[t], "Failed")
    PROVE  status[t] \in {"InProgress", "Pending", "Failed"}
BY DEF Inv, StoreSound, CountersSound, Reached, ValidTaskTransition

\* Whatever the store lets be completed, once, is in progress.
LEMMA CompleteLegal ==
    ASSUME Inv, NEW t \in Tasks, ValidTaskTransition(status[t], "Completed"),
           status[t] # "Completed"
    PROVE  status[t] = "InProgress"
BY DEF Inv, StoreSound, CountersSound, Reached, ValidTaskTransition

\* A task without an executor is failed instead of begun.
LEMMA BeginGhostInv == ASSUME Inv, NEW p \in Actors, BeginGhost(p) PROVE Inv'
<1> DEFINE t == call[p].task
<1>1. /\ call[p].pc = "begin" /\ Ghost(t) /\ status' = [status EXCEPT ![t] = "Failed"]
      /\ NextOfBatch(p, call[p].todo)
      /\ UNCHANGED <<listStatus, attempts, token, memory, queues, sent, faults>>
  BY DEF BeginGhost, At
<1>2. t \in Tasks /\ call[p].todo \in SUBSET Tasks
  BY <1>1 DEF Inv, TypeOK, Call, CallSound, OnItsTask, OnTask
<1>3. status[t] \in {"Pending", "Failed"}
  BY <1>1, <1>2 DEF Inv, StoreSound, CountersSound
<1>4. StoreSound' /\ Monotone /\ status' \in [Tasks -> TaskStatus]
  BY <1>1, <1>2, <1>3, EndsTask
<1>5. \A v \in call[p].todo : \A u \in Before(v) : status'[u] \in Terminal
  BY <1>2, <1>4 DEF Inv, CallSound, BeginSound, Monotone, Before
<1>6. /\ Only(p) /\ CallSound(p)' /\ call'[p].pc \notin {"publish", "resend"}
      /\ call' \in [Actors -> Call] /\ run' \in [Runs -> Run]
  BY <1>1, <1>2, <1>5, NextOfBatchSound
<1>7. TypeOK'
  BY <1>1, <1>4, <1>6 DEF Inv, TypeOK, memory, queues
<1>8. OneDispatchPerToken'
  BY <1>1, <1>6, NoNewTicket
<1> QED BY <1>4, <1>6, <1>7, <1>8, StepSound

\* The dispatcher claims a task nobody has dispatched, in order.
LEMMA BeginClaimInv == ASSUME Inv, NEW p \in Actors, BeginClaim(p) PROVE Inv'
<1> DEFINE t == call[p].task
           c == [call[p] EXCEPT !.pc = "publish", !.tok = token[t]]
<1>1. /\ call[p].pc = "begin" /\ ~Ghost(t) /\ status[t] \in Dispatchable
      /\ status' = [status EXCEPT ![t] = "InProgress"] /\ Continue(p, c)
      /\ UNCHANGED <<listStatus, attempts, token, memory, queues, run, sent, faults>>
  BY DEF BeginClaim, At
<1>2. /\ t \in Tasks /\ call[p] \in Call /\ CallSound(p)
      /\ status \in [Tasks -> TaskStatus] /\ token \in [Tasks -> Nat]
      /\ attempts \in [Tasks -> Nat] /\ sent \subseteq Tasks \X Nat
      /\ CountersSound /\ SentSound /\ OrderKept /\ ListStatusSound
  BY <1>1 DEF Inv, TypeOK, StoreSound, CallSound, OnItsTask, OnTask
<1>3. status[t] = "Pending"
  BY <1>1, <1>2 DEF CountersSound, Reached, Dispatchable
<1>4. /\ status' \in [Tasks -> TaskStatus] /\ status'[t] = "InProgress"
      /\ \A u \in Tasks \ {t} : status'[u] = status[u]
  BY <1>1, <1>2 DEF TaskStatus
<1>5. \A u \in Before(t) : status[u] \in Terminal
  BY <1>1, <1>2 DEF CallSound, BeginSound
<1>6. Monotone
  BY <1>1, <1>2, <1>3, <1>4 DEF Monotone, Terminal
<1>7. StoreSound'
  <2>1. CountersSound'
    BY <1>1, <1>2, <1>3, <1>4 DEF CountersSound, Reached, Ghost
  <2>2. SentSound'
    BY <1>1, <1>2, <1>4 DEF SentSound
  <2>3. OrderKept'
    <3>1. SUFFICES ASSUME NEW u \in Tasks, status'[u] \in {"InProgress", "Completed"},
                          NEW v \in Before(u)
                   PROVE  status'[v] \in Terminal
      BY DEF OrderKept, Before
    <3>2. status[v] \in Terminal /\ v \in Tasks
      BY <1>2, <1>4, <1>5, <3>1 DEF OrderKept, Before
    <3> QED BY <1>3, <1>4, <3>2 DEF Terminal
  <2>4. ListStatusSound'
    BY <1>1, <1>2, <1>3, <1>4 DEF ListStatusSound
  <2> QED BY <2>1, <2>2, <2>3, <2>4 DEF StoreSound
<1>8. /\ c \in Call /\ c.pc = "publish" /\ c.task = t /\ c.tok = token[t]
      /\ c.snap = call[p].snap /\ c.todo = call[p].todo
  BY <1>2 DEF Call, PC
<1> HIDE DEF c
<1>9. call' \in [Actors -> Call] /\ call'[p] = c /\ Only(p)
  BY <1>1, <1>8, ContinueTyped DEF Inv, Only
<1>10. TypeOK'
  BY <1>1, <1>4, <1>9 DEF Inv, TypeOK, memory, queues
<1>11. OnItsTask(p)'
  BY <1>1, <1>2, <1>8, <1>9 DEF CallSound, OnItsTask
<1>12. SnapshotSound(p)'
  BY <1>2, <1>6, <1>8, <1>9 DEF CallSound, SnapshotSound, Monotone
<1>13. BeginSound(p)'
  BY <1>2, <1>6, <1>8, <1>9 DEF CallSound, BeginSound, Monotone, Before
<1>14. TicketSound(p)'
  BY <1>1, <1>2, <1>3, <1>4, <1>8, <1>9, TaskFeederAssumption DEF TicketSound, CountersSound
<1>15. OneDispatchPerToken'
  <2>1. Ticket(p)' = <<t, token[t]>> /\ Ticket(p)' \notin sent
    BY <1>2, <1>3, <1>8, <1>9 DEF Ticket, SentSound
  <2>2. ASSUME NEW q \in Dispatching', q # p
        PROVE  q \in Dispatching /\ Ticket(q)' = Ticket(q) /\ Ticket(q)' # Ticket(p)'
    <3>1. q \in Dispatching /\ call'[q] = call[q]
      BY <1>9, <2>2 DEF Dispatching, Only
    <3>2. status[call[q].task] # "Pending"
      BY <3>1 DEF Inv, CallSound, TicketSound, Dispatching
    <3> QED BY <1>3, <2>1, <3>1, <3>2 DEF Ticket
  <2> QED BY <1>1, <2>1, <2>2 DEF Inv, OneDispatchPerToken
<1> QED BY <1>6, <1>7, <1>9, <1>10, <1>11, <1>12, <1>13, <1>14, <1>15, StepSound DEF CallSound

\* A call that goes on from a step that ends its task.
LEMMA EndsTaskAndSettles ==
    ASSUME Inv, NEW p \in Actors, NEW t \in Tasks, NEW x \in {"Completed", "Failed"},
           NEW c \in Call, Continue(p, c), c.pc = "settle", c.task = t,
           c.snap = call[p].snap, c.todo = call[p].todo,
           p \in Runs => call[p].pc # "idle",
           status' = [status EXCEPT ![t] = x], UNCHANGED <<listStatus, sent>>,
           \/ status[t] = "InProgress"
           \/ status[t] \in {"Pending", "Failed"} /\ x = "Failed",
           \/ UNCHANGED <<attempts, token>>
           \/ /\ attempts' = [attempts EXCEPT ![t] = @ + 1]
              /\ token' = [token EXCEPT ![t] = @ + 1]
              /\ x = "Failed" /\ status[t] = "InProgress",
           run' \in [Runs -> Run], \A r \in Runs : run'[r].task = run[r].task,
           UNCHANGED <<memory, inbox, faults>>, finished' \in Seq(Signal)
    PROVE  Inv'
<1>1. /\ StoreSound' /\ Monotone
      /\ status' \in [Tasks -> TaskStatus]
      /\ attempts' \in [Tasks -> Nat] /\ token' \in [Tasks -> Nat]
  BY EndsTask
<1>2. call' \in [Actors -> Call] /\ call'[p] = c /\ Only(p)
  BY ContinueTyped DEF Inv, Only
<1>3. TypeOK'
  BY <1>1, <1>2 DEF Inv, TypeOK, memory
<1>4. OnItsTask(p)'
  BY <1>2 DEF Inv, CallSound, OnItsTask
<1>5. SnapshotSound(p)'
  BY <1>1, <1>2 DEF Inv, CallSound, SnapshotSound, Monotone
<1>6. BeginSound(p)' /\ TicketSound(p)'
  <2>1. BeginSound(p)'
    BY <1>1, <1>2 DEF Inv, CallSound, BeginSound, Monotone, Before
  <2>2. TicketSound(p)'
    BY <1>2 DEF TicketSound
  <2> QED BY <2>1, <2>2
<1>7. OneDispatchPerToken'
  BY <1>2, NoNewTicket
<1> QED BY <1>1, <1>2, <1>3, <1>4, <1>5, <1>6, <1>7, StepSound DEF CallSound

\* The call goes on to on_task_terminal of the task it has just ended.
LEMMA SettleTyped ==
    ASSUME TypeOK, NEW p \in Actors, NEW t \in Tasks, NEW ret \in Caller
    PROVE  LET c == [call[p] EXCEPT !.pc = "settle", !.ret = ret, !.task = t]
           IN  /\ c \in Call /\ c.pc = "settle" /\ c.task = t
               /\ c.snap = call[p].snap /\ c.todo = call[p].todo
BY ZenonT(60) DEF TypeOK, Call, PC

\* A run completes its task, or is told that it cannot.
LEMMA CompleteTaskInv == ASSUME Inv, NEW r \in Runs, CompleteTask(r) PROVE Inv'
<1> DEFINE t == call[r].task
           c == [call[r] EXCEPT !.pc = "settle"]
<1>1. /\ call[r].pc = "complete" /\ r \in Actors
      /\ UNCHANGED <<listStatus, attempts, token, memory, queues, sent, faults>>
      /\ \/ /\ ValidTaskTransition(status[t], "Completed")
            /\ status' = [status EXCEPT ![t] = "Completed"]
            /\ Continue(r, c) /\ UNCHANGED run
         \/ Return(r, FALSE) /\ UNCHANGED status
  BY DEF CompleteTask, Goto, At, Actors
<1>2. t \in Tasks /\ status \in [Tasks -> TaskStatus]
  BY <1>1 DEF Inv, TypeOK, CallSound, OnItsTask, OnTask
<1>3. CASE Return(r, FALSE) /\ UNCHANGED status
  BY <1>1, <1>3, QuietReturn DEF StoreUnchanged
<1>4. CASE /\ ValidTaskTransition(status[t], "Completed")
           /\ status' = [status EXCEPT ![t] = "Completed"]
           /\ Continue(r, c) /\ UNCHANGED run
  <2>1. /\ c \in Call /\ c.pc = "settle" /\ c.task = t
        /\ c.snap = call[r].snap /\ c.todo = call[r].todo
    BY <1>1 DEF Inv, TypeOK, Call, PC
  <2> HIDE DEF c
  <2>2. CASE status[t] = "Completed"
    \* a second report of a task that is complete already writes nothing new
    <3>1. status' = status
      BY <1>2, <1>4, <2>2
    <3>2. StoreUnchanged
      BY <1>1, <3>1 DEF StoreUnchanged
    <3>3. TypeOK'
      BY <1>1, <1>4, <2>1, <3>1, ContinueTyped DEF Inv, TypeOK, memory, queues
    <3>4. \A v \in Tasks : v \in c.todo \/ (c.pc = "begin" /\ v = c.task) =>
              \A u \in Before(v) : status[u] \in Terminal
      BY <1>1, <2>1 DEF Inv, CallSound, BeginSound
    <3> QED BY <1>1, <1>2, <1>4, <2>1, <3>2, <3>3, <3>4, QuietContinue
  <2>3. CASE status[t] # "Completed"
    <3>1. status[t] = "InProgress"
      BY <1>2, <1>4, <2>3, CompleteLegal
    <3>2. run' \in [Runs -> Run] /\ finished' \in Seq(Signal) /\ UNCHANGED inbox
      BY <1>1, <1>4 DEF Inv, TypeOK, queues
    <3> QED BY <1>1, <1>2, <1>4, <2>1, <3>1, <3>2, EndsTaskAndSettles
  <2> QED BY <2>2, <2>3
<1> QED BY <1>1, <1>3, <1>4

\* A run fails its task, or is told that it cannot.
LEMMA TagFailInv == ASSUME Inv, NEW r \in Runs, TagFail(r) PROVE Inv'
<1> DEFINE t == run[r].task
           c == [call[r] EXCEPT !.pc = "settle", !.ret = "failTag", !.task = t]
<1>1. /\ call[r].pc = "working" /\ r \in Actors /\ run[r].tags < MaxTags
      /\ UNCHANGED <<listStatus, attempts, token, memory, queues, sent, faults>>
      /\ \/ /\ ValidTaskTransition(status[t], "Failed")
            /\ status' = [status EXCEPT ![t] = "Failed"]
            /\ run' = [run EXCEPT ![r].tags = @ + 1]
            /\ Continue(r, c)
         \/ /\ run' = [run EXCEPT ![r].tags = @ + 1, ![r].followup = TRUE]
            /\ UNCHANGED <<status, call>>
  BY DEF TagFail, ToSettle, At, Actors
<1>2. t \in Tasks /\ run \in [Runs -> Run] /\ run[r].tags + 1 \in 0..MaxTags
  <2>1. t \in Tasks
    BY <1>1 DEF Inv, CallSound, OnItsTask
  <2>2. run \in [Runs -> Run] /\ run[r].tags \in 0..MaxTags
    BY DEF Inv, TypeOK, Run
  <2>3. MaxTags \in Nat
    BY TaskFeederAssumption
  <2>4. run[r].tags + 1 \in 0..MaxTags
    BY <1>1, <2>2, <2>3
  <2> QED BY <2>1, <2>2, <2>4
<1>3. CASE /\ ValidTaskTransition(status[t], "Failed")
           /\ status' = [status EXCEPT ![t] = "Failed"]
           /\ run' = [run EXCEPT ![r].tags = @ + 1]
           /\ Continue(r, c)
  <2>1. status[t] \in {"InProgress", "Pending", "Failed"}
    BY <1>2, <1>3, FailLegal
  <2>2. /\ c \in Call /\ c.pc = "settle" /\ c.task = t
        /\ c.snap = call[r].snap /\ c.todo = call[r].todo
    <3>1. call[r] \in Call
      BY <1>1 DEF Inv, TypeOK
    <3> HIDE DEF t
    <3> QED BY <1>2, <3>1 DEF Call, PC, Caller
  <2> HIDE DEF c
  <2>3. run' \in [Runs -> Run] /\ \A q \in Runs : run'[q].task = run[q].task
    BY <1>2, <1>3 DEF Run
  <2>4. finished' \in Seq(Signal) /\ UNCHANGED inbox
    BY <1>1 DEF Inv, TypeOK, queues
  <2> QED BY <1>1, <1>2, <1>3, <2>1, <2>2, <2>3, <2>4, EndsTaskAndSettles
<1>4. CASE /\ run' = [run EXCEPT ![r].tags = @ + 1, ![r].followup = TRUE]
           /\ UNCHANGED <<status, call>>
  <2>1. run' \in [Runs -> Run] /\ \A q \in Runs : run'[q].task = run[q].task
    BY <1>2, <1>4 DEF Run
  <2>2. TypeOK' /\ StoreUnchanged
    BY <1>1, <1>4, <2>1 DEF Inv, TypeOK, StoreUnchanged, memory, queues
  <2>3. Only(r) /\ CallSound(r)'
    BY <1>1, <1>4, <2>1 DEF Inv, Only, CallSound, OnItsTask, SnapshotSound, BeginSound,
                            TicketSound, Before
  <2> QED BY <1>1, <1>4, <2>2, <2>3, QuietStep
<1> QED BY <1>1, <1>3, <1>4

\* The manager fails the task of a run that did not start or that vanished.
LEMMA MarkFailedInv ==
    ASSUME Inv, NEW t \in Tasks, MarkFailed(t), UNCHANGED <<memory, run, sent, faults>>,
           inbox' \in Seq(Message), finished' \in Seq(Signal)
    PROVE  Inv'
<1> DEFINE c == [call[Manager] EXCEPT !.pc = "settle", !.ret = "nobody", !.task = t]
<1>1. /\ Continue(Manager, c) /\ UNCHANGED <<listStatus, attempts, token>>
      /\ status' = IF ValidTaskTransition(status[t], "Failed")
                   THEN [status EXCEPT ![t] = "Failed"] ELSE status
      /\ Manager \in Singletons /\ Manager \in Actors /\ Manager \notin Runs
  BY SweeperIsActor, SMTT(30) DEF MarkFailed, ToSettle, Singletons
<1>2. /\ c \in Call /\ c.pc = "settle" /\ c.task = t
      /\ c.snap = call[Manager].snap /\ c.todo = call[Manager].todo
  BY <1>1, SettleTyped DEF Inv, Caller
<1> HIDE DEF c
<1>3. call' \in [Actors -> Call] /\ call'[Manager] = c /\ Only(Manager)
  BY <1>1, <1>2, ContinueTyped DEF Inv, Only
<1>4. StoreSound' /\ Monotone /\ status' \in [Tasks -> TaskStatus]
  <2>1. CASE ValidTaskTransition(status[t], "Failed")
    <3>1. status[t] \in {"InProgress", "Pending", "Failed"}
      BY <2>1, FailLegal
    <3> QED BY <1>1, <2>1, <3>1, EndsTask
  <2>2. CASE ~ValidTaskTransition(status[t], "Failed")
    <3>1. UNCHANGED <<listStatus, status, attempts, token, sent>>
      BY <1>1, <2>2
    <3>2. StoreSound'
      BY <3>1 DEF Inv, StoreSound, CountersSound, SentSound, OrderKept, ListStatusSound, Before
    <3>3. Monotone /\ status' \in [Tasks -> TaskStatus]
      BY <3>1 DEF Inv, TypeOK, Monotone
    <3> QED BY <3>2, <3>3
  <2> QED BY <2>1, <2>2
<1>5. TypeOK'
  BY <1>1, <1>3, <1>4 DEF Inv, TypeOK, memory
<1>6. OnItsTask(Manager)'
  BY <1>1, <1>2, <1>3 DEF OnItsTask
<1>7. SnapshotSound(Manager)'
  BY <1>1, <1>2, <1>3, <1>4 DEF Inv, CallSound, SnapshotSound, Monotone
<1>8. BeginSound(Manager)'
  BY <1>1, <1>2, <1>3, <1>4 DEF Inv, CallSound, BeginSound, Monotone, Before
<1>9. TicketSound(Manager)'
  BY <1>2, <1>3 DEF TicketSound
<1>10. OneDispatchPerToken'
  BY <1>1, <1>2, <1>3, NoNewTicket
<1> QED BY <1>1, <1>3, <1>4, <1>5, <1>6, <1>7, <1>8, <1>9, <1>10, StepSound DEF CallSound

\* The manager fails the task of a run it cannot start.
LEMMA SpawnFailsInv == ASSUME Inv, SpawnFails PROVE Inv'
<1>1. /\ inbox # <<>> /\ inbox' = Tail(inbox) /\ MarkFailed(Head(inbox).task)
      /\ UNCHANGED <<memory, finished, run, sent, faults>>
  BY DEF SpawnFails
<1>2. Head(inbox) \in Message /\ inbox' \in Seq(Message)
  BY <1>1 DEF Inv, TypeOK
<1>3. Head(inbox).task \in Tasks /\ finished' \in Seq(Signal)
  BY <1>1, <1>2 DEF Message, Inv, TypeOK
<1> QED BY <1>1, <1>2, <1>3, MarkFailedInv

\* The manager queues the followup of a run, or fails the task of a vanished one.
LEMMA RunFinishedInv == ASSUME Inv, RunFinished PROVE Inv'
<1> DEFINE f == Head(finished)
           m == [task |-> f.task, agent |-> f.agent]
<1>1. /\ finished # <<>> /\ finished' = Tail(finished)
      /\ UNCHANGED <<memory, run, sent, faults>>
      /\ \/ inbox' = Append(inbox, m) /\ UNCHANGED <<store, call>>
         \/ MarkFailed(f.task) /\ UNCHANGED inbox
  BY DEF RunFinished
<1>2. f \in Signal /\ finished' \in Seq(Signal) /\ inbox \in Seq(Message)
  BY <1>1 DEF Inv, TypeOK
<1>3. f.task \in Tasks /\ m \in Message
  BY <1>2 DEF Signal, Message
<1>4. CASE inbox' = Append(inbox, m) /\ UNCHANGED <<store, call>>
  <2> HIDE DEF m
  <2>1. inbox' \in Seq(Message)
    BY <1>2, <1>3, <1>4
  <2>2. TypeOK' /\ StoreUnchanged
    BY <1>1, <1>2, <1>4, <2>1 DEF Inv, TypeOK, store, memory, StoreUnchanged
  <2> QED BY <1>1, <1>4, <2>2, NothingMoves
<1>5. CASE MarkFailed(f.task) /\ UNCHANGED inbox
  BY <1>1, <1>2, <1>3, <1>5, MarkFailedInv
<1> QED BY <1>1, <1>4, <1>5

\* Of all who expect the same token one is given the next one.
LEMMA ReclaimInv == ASSUME Inv, NEW p \in Actors, Reclaim(p) PROVE Inv'
<1> DEFINE t == call[p].task
           outcome == ReclaimOutcome(status[t], token[t], call[p].tok,
                                     attempts[t], MaxAttempts)
           c == [call[p] EXCEPT !.pc = "settle", !.tok = 0]
           d == [call[p] EXCEPT !.pc = "resend", !.tok = @ + 1]
<1>1. /\ call[p].pc = "reclaim"
      /\ UNCHANGED <<listStatus, memory, queues, sent, faults>>
      /\ \/ Return(p, TRUE) /\ UNCHANGED <<status, attempts, token>>
         \/ /\ outcome = "Exhausted"
            /\ attempts' = [attempts EXCEPT ![t] = @ + 1]
            /\ token' = [token EXCEPT ![t] = @ + 1]
            /\ status' = [status EXCEPT ![t] = "Failed"]
            /\ Continue(p, c) /\ UNCHANGED run
         \/ /\ outcome = "Claimed"
            /\ attempts' = [attempts EXCEPT ![t] = @ + 1]
            /\ token' = [token EXCEPT ![t] = @ + 1]
            /\ Continue(p, d) /\ UNCHANGED <<status, run>>
  BY DEF Reclaim, At
<1>2. /\ t \in Tasks /\ call[p] \in Call /\ CallSound(p)
      /\ status \in [Tasks -> TaskStatus] /\ token \in [Tasks -> Nat]
      /\ attempts \in [Tasks -> Nat] /\ sent \subseteq Tasks \X Nat
      /\ call[p].tok \in Nat /\ MaxAttempts \in Nat
      /\ CountersSound /\ SentSound /\ OrderKept /\ ListStatusSound
  BY <1>1, TaskFeederAssumption DEF Inv, TypeOK, Call, StoreSound, CallSound, OnItsTask, OnTask
<1>3. CASE Return(p, TRUE) /\ UNCHANGED <<status, attempts, token>>
  BY <1>1, <1>3, QuietReturn DEF StoreUnchanged
<1>4. CASE /\ outcome = "Exhausted"
           /\ attempts' = [attempts EXCEPT ![t] = @ + 1]
           /\ token' = [token EXCEPT ![t] = @ + 1]
           /\ status' = [status EXCEPT ![t] = "Failed"]
           /\ Continue(p, c) /\ UNCHANGED run
  <2>1. status[t] = "InProgress"
    BY <1>4 DEF ReclaimOutcome
  <2>2. /\ c \in Call /\ c.pc = "settle" /\ c.task = t
        /\ c.snap = call[p].snap /\ c.todo = call[p].todo
    BY <1>2 DEF Call, PC
  <2> HIDE DEF c
  <2>3. run' \in [Runs -> Run] /\ finished' \in Seq(Signal) /\ UNCHANGED inbox
    BY <1>1, <1>4 DEF Inv, TypeOK, queues
  <2> QED BY <1>1, <1>2, <1>4, <2>1, <2>2, <2>3, EndsTaskAndSettles
<1>5. CASE /\ outcome = "Claimed"
           /\ attempts' = [attempts EXCEPT ![t] = @ + 1]
           /\ token' = [token EXCEPT ![t] = @ + 1]
           /\ Continue(p, d) /\ UNCHANGED <<status, run>>
  <2>1. status[t] = "InProgress" /\ token[t] = call[p].tok /\ attempts[t] + 1 < MaxAttempts
    BY <1>2, <1>5 DEF ReclaimOutcome
  <2>2. /\ attempts' \in [Tasks -> Nat] /\ token' \in [Tasks -> Nat]
        /\ attempts'[t] = attempts[t] + 1 /\ token'[t] = token[t] + 1
        /\ \A u \in Tasks : u # t => attempts'[u] = attempts[u] /\ token'[u] = token[u]
        /\ \A u \in Tasks : token[u] <= token'[u]
    BY <1>2, <1>5
  <2>3. Monotone
    BY <1>2, <1>5, <2>2 DEF Monotone
  <2>4. CountersSound'
    BY <1>2, <1>5, <2>1, <2>2 DEF CountersSound, Ghost
  <2>5. SentSound'
    <3>1. SUFFICES ASSUME NEW m \in sent
                   PROVE m[2] <= token'[m[1]] /\ m[2] < MaxAttempts /\ status[m[1]] # "Pending"
      BY <1>1, <1>5 DEF SentSound
    <3>2. m[1] \in Tasks /\ m[2] \in Nat
      BY <1>2
    <3> QED BY <1>2, <2>2, <3>2 DEF SentSound
  <2>6. StoreSound'
    BY <1>1, <1>2, <1>5, <2>4, <2>5 DEF StoreSound, OrderKept, ListStatusSound, Before
  <2>7. /\ d \in Call /\ d.pc = "resend" /\ d.task = t /\ d.tok = token[t] + 1
        /\ d.snap = call[p].snap /\ d.todo = call[p].todo
    <3>1. call[p].tok + 1 \in Nat /\ call[p].tok + 1 = token[t] + 1
      BY <1>2, <2>1
    <3>2. d = [call[p] EXCEPT !.pc = "resend", !.tok = call[p].tok + 1]
      BY <1>2 DEF Call
    <3> HIDE DEF d
    <3> QED BY <1>2, <3>1, <3>2 DEF Call, PC
  <2> HIDE DEF d
  <2>8. call' \in [Actors -> Call] /\ call'[p] = d /\ Only(p)
    BY <1>5, <2>7, ContinueTyped DEF Inv, Only
  <2>9. TypeOK'
    BY <1>1, <1>5, <2>2, <2>8 DEF Inv, TypeOK, memory, queues
  <2>10. OnItsTask(p)' /\ SnapshotSound(p)'
    <3>1. OnItsTask(p)'
      BY <1>1, <1>2, <1>5, <2>7, <2>8 DEF CallSound, OnItsTask
    <3>2. SnapshotSound(p)'
      BY <1>2, <1>5, <2>7, <2>8 DEF CallSound, SnapshotSound
    <3> QED BY <3>1, <3>2
  <2>11. BeginSound(p)'
    BY <1>2, <1>5, <2>7, <2>8 DEF CallSound, BeginSound, Before
  <2>12. TicketSound(p)'
    BY <1>2, <1>5, <2>1, <2>2, <2>7, <2>8 DEF TicketSound, CountersSound
  <2>13. OneDispatchPerToken'
    <3>1. Ticket(p)' = <<t, token[t] + 1>>
      BY <2>7, <2>8 DEF Ticket
    <3>2. Ticket(p)' \notin sent
      <4>1. SUFFICES ASSUME <<t, token[t] + 1>> \in sent PROVE FALSE
        BY <3>1
      <4>2. token[t] + 1 <= token[t]
        BY <1>2, <4>1 DEF SentSound
      <4> QED BY <1>2, <4>2
    <3>3. ASSUME NEW q \in Dispatching', q # p
          PROVE  q \in Dispatching /\ Ticket(q)' = Ticket(q) /\ Ticket(q)' # Ticket(p)'
      <4>1. q \in Dispatching /\ call'[q] = call[q] /\ q \in Actors /\ call[q] \in Call
        BY <2>8, <3>3 DEF Dispatching, Only, Inv, TypeOK
      <4>2. call[q].tok <= token[call[q].task] /\ call[q].tok \in Nat
        BY <4>1 DEF Inv, CallSound, TicketSound, Dispatching, Call
      <4>3. Ticket(q)' = Ticket(q) /\ Ticket(q) = <<call[q].task, call[q].tok>>
        BY <4>1 DEF Ticket
      <4>4. ASSUME Ticket(q) = <<t, token[t] + 1>> PROVE FALSE
        <5>1. call[q].task = t /\ call[q].tok = token[t] + 1
          BY <4>3, <4>4
        <5> QED BY <1>2, <4>2, <5>1
      <4> QED BY <3>1, <4>1, <4>3, <4>4
    <3> QED BY <1>1, <3>2, <3>3 DEF Inv, OneDispatchPerToken
  <2> QED BY <2>3, <2>6, <2>8, <2>9, <2>10, <2>11, <2>12, <2>13, StepSound DEF CallSound
<1> QED BY <1>1, <1>3, <1>4, <1>5

-----------------------------------------------------------------------------
(* The theorems.                                                            *)

\* Every step of a feeder call preserves Inv.
LEMMA FeederStepInv == ASSUME Inv, NEW p \in Actors, FeederStep(p) PROVE Inv'
BY SettleReadInv, ClearInv, HaltInv, AdvanceIdleInv, AdvanceCompleteInv, AdvanceParInv,
   AdvanceSeqInv, ParCheckInv, BeginGhostInv, BeginSkipInv, BeginClaimInv, PublishInv,
   ReclaimInv DEF FeederStep

\* Inv is inductive.
LEMMA NextInv == Inv /\ [Next]_vars => Inv'
<1> SUFFICES ASSUME Inv, [Next]_vars PROVE Inv'
  OBVIOUS
<1>1. CASE UNCHANGED vars
  <2>1. TypeOK' /\ StoreUnchanged /\ UNCHANGED <<run, call>>
    BY <1>1 DEF Inv, TypeOK, vars, store, memory, queues, StoreUnchanged
  <2> QED BY <2>1, NothingMoves
<1>2. ASSUME NEW r \in Runs,
             RunStep(r) \/ TagComplete(r) \/ TagFail(r) \/ TagClarify(r) \/ RunEnd(r)
               \/ RunCrash(r)
      PROVE  Inv'
  <2>1. r \in Actors
    BY DEF Actors
  <2> QED BY <1>2, <2>1, FeederStepInv, CompleteTaskInv, RepromptInv, EndedReadInv, RunExitInv,
             TagCompleteInv, TagFailInv, TagClarifyInv, RunEndInv, RunCrashInv DEF RunStep
<1>3. CASE FeederStep(Manager) \/ StartRun \/ SpawnFails \/ RunFinished
  BY <1>3, SweeperIsActor, FeederStepInv, StartRunInv, SpawnFailsInv, RunFinishedInv
     DEF Singletons
<1>4. ASSUME NEW p \in Sweepers, SweepStep(p)
      PROVE  Inv'
  <2>1. p \in Actors
    BY SweeperIsActor DEF Sweepers, Singletons
  <2> QED BY <1>4, <2>1, FeederStepInv, SweepNextInv, ProbeInv, RecoverInv, RedispatchInv,
             SweepEndInv DEF SweepStep
<1>5. CASE WatchdogTick \/ BootScan \/ Rescan
  BY <1>5, WatchdogTickInv, BootScanInv, RescanInv
<1>6. CASE \E t \in Tasks : GraceElapses(t)
  BY <1>6, GraceElapsesInv
<1>7. CASE Restart
  BY <1>7, RestartInv
<1>8. CASE Quiescent
  BY <1>1, <1>8 DEF Quiescent
<1> QED BY <1>1, <1>2, <1>3, <1>4, <1>5, <1>6, <1>7, <1>8 DEF Next

\* The inductive invariant holds in every state the dispatcher reaches: whatever
\* a call of the task feeder still relies on of what it has read is so.
THEOREM Invariance == Spec => []Inv
<1> QED BY InitInv, NextInv, PTL DEF Spec

\* Every variable of the dispatcher keeps its type, whatever the interleaving.
THEOREM TypeCorrect == Spec => []TypeOK
<1>1. Inv => TypeOK
  BY DEF Inv
<1> QED BY <1>1, Invariance, PTL

\* No task is attempted more than max_attempts times, and one that has used up
\* its attempts is Failed: try_reclaim_dispatch_by_owner caps all recoverers.
THEOREM AttemptsCapped == Spec => []AttemptCap
<1>1. Inv => AttemptCap
  <2> SUFFICES ASSUME Inv, NEW t \in Tasks
               PROVE  /\ attempts[t] <= MaxAttempts
                      /\ attempts[t] = MaxAttempts => status[t] = "Failed"
    BY DEF AttemptCap
  <2>1. CountersSound /\ attempts[t] \in Nat /\ MaxAttempts \in Nat
    BY TaskFeederAssumption DEF Inv, StoreSound, TypeOK
  <2> QED BY <2>1 DEF CountersSound
<1> QED BY <1>1, Invariance, PTL

\* Every Dispatch message is sent under a token of its own: the compare-and-set
\* of the store leaves one sender, however many actors try.
THEOREM DispatchExclusive == Spec => []OneDispatchPerToken
<1>1. Inv => OneDispatchPerToken
  BY DEF Inv
<1> QED BY <1>1, Invariance, PTL

\* Groups start in order and SEQ groups run one task at a time, although
\* advance decides from a snapshot.
THEOREM OrderIsKept == Spec => []OrderKept
<1>1. Inv => OrderKept
  BY DEF Inv, StoreSound
<1> QED BY <1>1, Invariance, PTL

\* The status of the tasklist agrees with the statuses of its tasks.
THEOREM ListStatusIsSound == Spec => []ListStatusSound
<1>1. Inv => ListStatusSound
  BY DEF Inv, StoreSound
<1> QED BY <1>1, Invariance, PTL
=============================================================================
