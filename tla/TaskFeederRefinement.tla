------------------------ MODULE TaskFeederRefinement ------------------------
(***************************************************************************)
(* TaskFeeder implements TasklistLifecycle: every step of an actor is a    *)
(* step of the lifecycle of the tasklist or invisible in the files.  The   *)
(* steps that end a task need to know that nobody reports or fails a task  *)
(* that was never begun (Unclaimed), which is proved along the way.        *)
(***************************************************************************)
EXTENDS TaskFeederProofs

-----------------------------------------------------------------------------
(* What a queue is about.                                                   *)

\* A message that is appended adds its task.
LEMMA TasksOfAppend ==
    ASSUME NEW S, NEW q \in Seq(S), NEW m \in S
    PROVE  TasksOf(Append(q, m)) \subseteq TasksOf(q) \cup {m.task}
<1>1. /\ DOMAIN Append(q, m) = 1..(Len(q) + 1) /\ DOMAIN q = 1..Len(q)
      /\ Append(q, m)[Len(q) + 1] = m /\ \A i \in 1..Len(q) : Append(q, m)[i] = q[i]
      /\ Len(q) \in Nat
  OBVIOUS
<1>2. ASSUME NEW i \in 1..(Len(q) + 1)
      PROVE  Append(q, m)[i].task \in TasksOf(q) \cup {m.task}
  <2>1. CASE i = Len(q) + 1
    BY <1>1, <2>1
  <2>2. CASE i # Len(q) + 1
    <3>1. i \in 1..Len(q)
      BY <1>1, <2>2
    <3> QED BY <1>1, <3>1 DEF TasksOf
  <2> QED BY <2>1, <2>2
<1> QED BY <1>1, <1>2 DEF TasksOf

\* A message that is received was there, and takes nothing else with it.
LEMMA TasksOfTail ==
    ASSUME NEW S, NEW q \in Seq(S), q # <<>>
    PROVE  TasksOf(Tail(q)) \subseteq TasksOf(q) /\ Head(q).task \in TasksOf(q)
<1>1. /\ DOMAIN Tail(q) = 1..(Len(q) - 1) /\ DOMAIN q = 1..Len(q) /\ Head(q) = q[1]
      /\ \A i \in 1..(Len(q) - 1) : Tail(q)[i] = q[i + 1]
      /\ Len(q) \in Nat /\ 1 \in 1..Len(q)
  OBVIOUS
<1>2. ASSUME NEW i \in 1..(Len(q) - 1) PROVE Tail(q)[i].task \in TasksOf(q)
  <2>1. i + 1 \in 1..Len(q)
    BY <1>1
  <2> QED BY <1>1, <2>1 DEF TasksOf
<1> QED BY <1>1, <1>2 DEF TasksOf

\* An engine that has just started is engaged in nothing.
LEMMA TasksOfEmpty == TasksOf(<<>>) = {}
BY DEF TasksOf

-----------------------------------------------------------------------------
(* The shape of a step.                                                     *)

\* The goal: an invisible step or a step of the lifecycle.
Refines == [Lifecycle!Next]_(Lifecycle!vars)

\* A begun task stays begun.
Forward == \A t \in Tasks : status[t] # "Pending" => status'[t] # "Pending"

\* Nobody but p moves, no run starts or changes its task.
Calm(p) ==
    /\ \A q \in Actors \ {p} : call'[q] = call[q]
    /\ p \in Runs => call[p].pc # "idle"
    /\ \A r \in Runs : run'[r].task = run[r].task \/ call'[r].pc = "idle"

\* Messages and signals are added for begun tasks only.
Honest ==
    TasksOf(inbox') \cup TasksOf(finished')
      \subseteq TasksOf(inbox) \cup TasksOf(finished) \cup {t \in Tasks : status'[t] # "Pending"}

Visible == <<listStatus, status, attempts>>

\* What is engaged is a task.
LEMMA EngagedTasks == Inv => Engaged \subseteq Tasks
<1> SUFFICES ASSUME Inv PROVE Engaged \subseteq Tasks
  OBVIOUS
<1>1. inbox \in Seq(Message) /\ finished \in Seq(Signal)
  BY DEF Inv, TypeOK
<1>2. \A i \in DOMAIN inbox : inbox[i] \in Message
  BY <1>1
<1>3. \A i \in DOMAIN finished : finished[i] \in Signal
  BY <1>1
<1>4. \A r \in Runs : call[r].pc # "idle" => run[r].task \in Tasks
  BY DEF Inv, CallSound, OnItsTask, Actors
<1> QED BY <1>2, <1>3, <1>4 DEF Engaged, TasksOf, Message, Signal

\* A step of p that engages in begun tasks only.
LEMMA UnclaimedStep ==
    ASSUME FullInv, NEW p \in Actors, Calm(p), Forward, Honest,
           listStatus' \in {"Active", "Completed", "Failed"}
    PROVE  Unclaimed'
<1>1. /\ \A t \in Engaged : t \in Tasks /\ status[t] # "Pending"
  BY EngagedTasks DEF FullInv, Unclaimed
<1>2. \A r \in Runs : call'[r].pc # "idle" => call[r].pc # "idle" /\ run'[r].task = run[r].task
  BY DEF Calm, Actors
<1>3. ASSUME NEW t \in Engaged' PROVE status'[t] # "Pending"
  <2>1. CASE t \in TasksOf(inbox') \cup TasksOf(finished')
    BY <1>1, <2>1 DEF Honest, Engaged, Forward
  <2>2. CASE \E r \in Runs : call'[r].pc # "idle" /\ t = run'[r].task
    BY <1>1, <1>2, <2>2 DEF Engaged, Forward
  <2> QED BY <1>3, <2>1, <2>2 DEF Engaged
<1> QED BY <1>3 DEF Unclaimed

\* A step of p that leaves the files and the queues alone.
LEMMA InvisibleStep ==
    ASSUME FullInv, UNCHANGED <<store, queues>>, NEW p \in Actors, Calm(p)
    PROVE  Unclaimed' /\ Refines
<1>1. Forward /\ Honest /\ listStatus' \in {"Active", "Completed", "Failed"}
  BY DEF store, queues, Forward, Honest, FullInv, Unclaimed
<1> QED BY <1>1, UnclaimedStep DEF Refines, Lifecycle!vars, store

\* Moving to another state of a call is calm.
LEMMA ContinueCalm ==
    ASSUME Inv, NEW p \in Actors, NEW c, Continue(p, c), p \in Runs => call[p].pc # "idle",
           \A r \in Runs : run'[r].task = run[r].task
    PROVE  Calm(p)
BY DEF Inv, TypeOK, Continue, Calm

\* So is returning from one.
LEMMA ReturnCalm ==
    ASSUME Inv, NEW p \in Actors, NEW ok \in BOOLEAN, Return(p, ok), call[p].pc # "idle"
    PROVE  Calm(p)
BY ReturnTyped DEF Inv, Calm

\* So is going on with a batch.
LEMMA NextOfBatchCalm ==
    ASSUME Inv, NEW p \in Actors, NEW rest, NextOfBatch(p, rest), call[p].pc # "idle"
    PROVE  Calm(p)
<1>1. CASE rest = {}
  BY <1>1, ReturnCalm DEF NextOfBatch
<1>2. CASE rest # {}
  BY <1>2, ContinueCalm DEF NextOfBatch
<1> QED BY <1>1, <1>2

-----------------------------------------------------------------------------
(* The steps of a feeder call.                                              *)

\* Reading, deciding and losing a claim is invisible in the files.
LEMMA FeederInvisible ==
    ASSUME FullInv, NEW p \in Actors,
           SettleRead(p) \/ Clear(p) \/ AdvanceIdle(p) \/ AdvancePar(p) \/ AdvanceSeq(p)
             \/ ParCheck(p) \/ BeginSkip(p)
    PROVE  Unclaimed' /\ Refines
<1>0. Inv
  BY SMTT(30) DEF FullInv
<1>1. call[p].pc # "idle" /\ UNCHANGED <<store, queues>>
  BY DEF SettleRead, Clear, AdvanceIdle, AdvancePar, AdvanceSeq, ParCheck, BeginSkip,
         Advancing, At
<1>2. CASE SettleRead(p) \/ Clear(p)
  BY <1>0, <1>1, <1>2, ContinueCalm, InvisibleStep DEF SettleRead, Clear, Goto
<1>3. CASE AdvanceIdle(p)
  BY <1>0, <1>1, <1>3, ReturnCalm, InvisibleStep DEF AdvanceIdle
<1>4. CASE AdvancePar(p)
  <2>1. PICK rest : NextOfBatch(p, rest)
    BY <1>4 DEF AdvancePar
  <2> QED BY <1>0, <1>1, <2>1, NextOfBatchCalm, InvisibleStep
<1>5. CASE AdvanceSeq(p)
  <2>1. Return(p, TRUE) \/ \E c : Continue(p, c) /\ UNCHANGED run
    BY <1>5 DEF AdvanceSeq
  <2> QED BY <1>0, <1>1, <2>1, ReturnCalm, ContinueCalm, InvisibleStep
<1>6. CASE ParCheck(p)
  <2>1. Return(p, TRUE) \/ \E c : Continue(p, c) /\ UNCHANGED run
    BY <1>6 DEF ParCheck
  <2> QED BY <1>0, <1>1, <2>1, ReturnCalm, ContinueCalm, InvisibleStep
<1>7. CASE BeginSkip(p)
  BY <1>0, <1>1, <1>7, NextOfBatchCalm, InvisibleStep DEF BeginSkip
<1> QED BY <1>2, <1>3, <1>4, <1>5, <1>6, <1>7

\* The tasklist fails.
LEMMA HaltRefines ==
    ASSUME FullInv, NEW p \in Actors, Halt(p)
    PROVE  Unclaimed' /\ Refines
<1>1. /\ call[p].pc = "halt" /\ UNCHANGED <<status, attempts, queues>> /\ Inv
      /\ \/ /\ listStatus' = "Failed" /\ \E c : Continue(p, c) /\ UNCHANGED run
            /\ ValidListTransition(listStatus, "Failed")
         \/ Return(p, FALSE) /\ UNCHANGED listStatus
  BY DEF Halt, At, FullInv
<1>2. Calm(p)
  BY <1>1, ReturnCalm, ContinueCalm
<1>3. \/ listStatus' = "Failed" /\ listStatus \in {"Active", "Failed"}
      \/ UNCHANGED listStatus
  BY <1>1 DEF FullInv, Unclaimed, ValidListTransition
<1>4. Forward /\ Honest
  BY <1>1 DEF Forward, Honest, queues
<1>5. Unclaimed'
  BY <1>1, <1>2, <1>3, <1>4, UnclaimedStep DEF FullInv, Unclaimed
<1>6. \E t \in Tasks : status[t] = "Failed"
  <2>1. call[p].task \in Tasks /\ call[p].snap.status[call[p].task] = "Failed"
    BY <1>1 DEF Inv, CallSound, OnItsTask, OnTask
  <2>2. status[call[p].task] = "Failed"
    BY <1>1, <2>1 DEF Inv, CallSound, SnapshotSound, Terminal
  <2> QED BY <2>1, <2>2
<1>7. Refines
  BY <1>1, <1>3, <1>6 DEF Refines, Lifecycle!Next, Lifecycle!FailList, Lifecycle!vars
<1> QED BY <1>5, <1>7

\* The tasklist completes.
LEMMA AdvanceCompleteRefines ==
    ASSUME FullInv, NEW p \in Actors, AdvanceComplete(p)
    PROVE  Unclaimed' /\ Refines
<1> DEFINE s == call[p].snap.status
<1>1. /\ call[p].pc = "advance" /\ UNCHANGED <<status, attempts, queues>> /\ Inv
      /\ OpenGroups(s) = {} /\ ~AnyFailed(s)
      /\ \/ /\ listStatus' = "Completed" /\ Return(p, TRUE)
            /\ ValidListTransition(listStatus, "Completed")
         \/ Return(p, FALSE) /\ UNCHANGED listStatus
  BY DEF AdvanceComplete, Advancing, At, FullInv
<1>2. Calm(p)
  BY <1>1, ReturnCalm
<1>3. \/ listStatus' = "Completed" /\ listStatus \in {"Active", "Completed"}
      \/ UNCHANGED listStatus
  BY <1>1 DEF FullInv, Unclaimed, ValidListTransition
<1>4. Forward /\ Honest
  BY <1>1 DEF Forward, Honest, queues
<1>5. Unclaimed'
  BY <1>2, <1>3, <1>4, UnclaimedStep DEF FullInv, Unclaimed
<1>6. ASSUME NEW t \in Tasks PROVE status[t] \in Lifecycle!Over \ {"Failed"}
  <2>1. GroupOf[t] \in 1..Groups /\ t \in Members(GroupOf[t])
    BY TaskFeederAssumption DEF Members
  <2>2. s[t] \in Terminal /\ s[t] # "Failed"
    BY <1>1, <2>1 DEF OpenGroups, GroupTerminal, AnyFailed
  <2> QED BY <1>1, <2>2 DEF Inv, CallSound, SnapshotSound, Terminal, Lifecycle!Over
<1>7. Refines
  BY <1>1, <1>3, <1>6 DEF Refines, Lifecycle!Next, Lifecycle!CompleteList, Lifecycle!vars
<1> QED BY <1>5, <1>7

-----------------------------------------------------------------------------
(* The steps that write the status of a task.                               *)

\* Before of the dispatcher and Predecessors of the lifecycle are the same.
LEMMA SamePredecessors == \A t : Lifecycle!Predecessors(t) = Before(t)
BY DEF Lifecycle!Predecessors, Before

\* A task that is over was begun, or has no executor and was next.
LEMMA EndRefines ==
    ASSUME FullInv, NEW t \in Tasks, NEW x \in {"Completed", "Failed"},
           status' = [status EXCEPT ![t] = x], UNCHANGED <<listStatus, attempts>>,
           \/ status[t] = "InProgress"
           \/ status[t] = x
           \/ /\ status[t] = "Pending" /\ x = "Failed" /\ Ghost(t)
              /\ \A u \in Before(t) : status[u] \in Terminal
    PROVE  Forward /\ Refines
<1>1. status \in [Tasks -> TaskStatus]
  BY DEF FullInv, Inv, TypeOK
<1>2. Forward
  BY <1>1 DEF Forward
<1>3. CASE status[t] = "InProgress"
  <2>1. Lifecycle!Complete(t) \/ Lifecycle!Fail(t)
    BY <1>3 DEF Lifecycle!Complete, Lifecycle!Fail
  <2> QED BY <1>2, <2>1 DEF Refines, Lifecycle!Next
<1>4. CASE status[t] = x
  <2>1. status' = status
    BY <1>1, <1>4
  <2> QED BY <1>2, <2>1 DEF Refines, Lifecycle!vars
<1>5. CASE /\ status[t] = "Pending" /\ x = "Failed" /\ Ghost(t)
           /\ \A u \in Before(t) : status[u] \in Terminal
  <2>1. Lifecycle!Fail(t)
    BY <1>5, SamePredecessors DEF Lifecycle!Fail, Lifecycle!Over, Terminal
  <2> QED BY <1>2, <2>1 DEF Refines, Lifecycle!Next
<1> QED BY <1>2, <1>3, <1>4, <1>5

\* A ghost fails when it is next.
LEMMA BeginGhostRefines ==
    ASSUME FullInv, NEW p \in Actors, BeginGhost(p)
    PROVE  Unclaimed' /\ Refines
<1> DEFINE t == call[p].task
<1>1. /\ call[p].pc = "begin" /\ Ghost(t) /\ status' = [status EXCEPT ![t] = "Failed"]
      /\ NextOfBatch(p, call[p].todo) /\ UNCHANGED <<listStatus, attempts, queues>> /\ Inv
  BY DEF BeginGhost, At, FullInv
<1>2. /\ t \in Tasks /\ status[t] \in {"Pending", "Failed"}
      /\ \A u \in Before(t) : status[u] \in Terminal
  BY <1>1 DEF Inv, CallSound, OnItsTask, OnTask, BeginSound, StoreSound, CountersSound
<1>3. Forward /\ Refines
  BY <1>1, <1>2, EndRefines
<1>4. Calm(p) /\ Honest
  BY <1>1, NextOfBatchCalm DEF Honest, queues
<1> QED BY <1>1, <1>3, <1>4, UnclaimedStep DEF FullInv, Unclaimed

\* A claim is a Begin of the lifecycle.
LEMMA BeginClaimRefines ==
    ASSUME FullInv, NEW p \in Actors, BeginClaim(p)
    PROVE  Unclaimed' /\ Refines
<1> DEFINE t == call[p].task
<1>1. /\ call[p].pc = "begin" /\ ~Ghost(t) /\ status[t] \in Dispatchable
      /\ status' = [status EXCEPT ![t] = "InProgress"]
      /\ \E c : Continue(p, c)
      /\ UNCHANGED <<listStatus, attempts, queues, run>> /\ Inv
  BY DEF BeginClaim, At, FullInv
<1>2. /\ t \in Tasks /\ status[t] = "Pending" /\ status \in [Tasks -> TaskStatus]
      /\ \A u \in Before(t) : status[u] \in Terminal
  BY <1>1 DEF Inv, TypeOK, CallSound, OnItsTask, OnTask, BeginSound, StoreSound, CountersSound,
              Reached, Dispatchable
<1>3. Lifecycle!Begin(t)
  BY <1>1, <1>2, SamePredecessors DEF Lifecycle!Begin, Lifecycle!Over, Terminal
<1>4. Refines
  BY <1>2, <1>3 DEF Refines, Lifecycle!Next
<1>5. Calm(p) /\ Honest /\ Forward
  BY <1>1, <1>2, ContinueCalm DEF Honest, queues, Forward
<1> QED BY <1>1, <1>4, <1>5, UnclaimedStep DEF FullInv, Unclaimed

\* A reclaim is a Retry or a GiveUp of the lifecycle.
LEMMA ReclaimRefines ==
    ASSUME FullInv, NEW p \in Actors, Reclaim(p)
    PROVE  Unclaimed' /\ Refines
<1> DEFINE t == call[p].task
           outcome == ReclaimOutcome(status[t], token[t], call[p].tok,
                                     attempts[t], MaxAttempts)
<1>1. /\ call[p].pc = "reclaim" /\ UNCHANGED <<listStatus, queues>> /\ Inv
      /\ \/ Return(p, TRUE) /\ UNCHANGED <<status, attempts>>
         \/ /\ outcome = "Exhausted"
            /\ attempts' = [attempts EXCEPT ![t] = @ + 1]
            /\ status' = [status EXCEPT ![t] = "Failed"]
            /\ (\E c : Continue(p, c)) /\ UNCHANGED run
         \/ /\ outcome = "Claimed"
            /\ attempts' = [attempts EXCEPT ![t] = @ + 1]
            /\ (\E c : Continue(p, c)) /\ UNCHANGED <<status, run>>
  BY DEF Reclaim, At, FullInv
<1>2. /\ t \in Tasks /\ status \in [Tasks -> TaskStatus] /\ attempts[t] \in Nat
      /\ MaxAttempts \in Nat /\ attempts[t] <= MaxAttempts
      /\ status[t] # "Failed" => attempts[t] < MaxAttempts
  BY <1>1, TaskFeederAssumption
     DEF Inv, TypeOK, CallSound, OnItsTask, OnTask, StoreSound, CountersSound
<1>3. Calm(p) /\ Honest
  BY <1>1, ReturnCalm, ContinueCalm DEF Honest, queues
<1>4. Forward /\ Refines
  <2>1. CASE UNCHANGED <<status, attempts>>
    BY <1>1, <2>1 DEF Forward, Refines, Lifecycle!vars
  <2>2. CASE /\ outcome = "Exhausted"
             /\ attempts' = [attempts EXCEPT ![t] = @ + 1]
             /\ status' = [status EXCEPT ![t] = "Failed"]
    <3>1. status[t] = "InProgress" /\ attempts[t] + 1 = MaxAttempts
      BY <1>2, <2>2 DEF ReclaimOutcome
    <3>2. Lifecycle!GiveUp(t)
      BY <1>1, <2>2, <3>1 DEF Lifecycle!GiveUp
    <3>3. Forward
      BY <1>2, <2>2 DEF Forward
    <3> QED BY <1>2, <3>2, <3>3 DEF Refines, Lifecycle!Next
  <2>3. CASE /\ outcome = "Claimed"
             /\ attempts' = [attempts EXCEPT ![t] = @ + 1]
             /\ UNCHANGED status
    <3>1. status[t] = "InProgress" /\ attempts[t] + 1 < MaxAttempts
      BY <1>2, <2>3 DEF ReclaimOutcome
    <3>2. Lifecycle!Retry(t)
      BY <1>1, <2>3, <3>1 DEF Lifecycle!Retry
    <3> QED BY <1>2, <2>3, <3>2 DEF Refines, Lifecycle!Next, Forward
  <2> QED BY <1>1, <2>1, <2>2, <2>3
<1> QED BY <1>1, <1>3, <1>4, UnclaimedStep DEF FullInv, Unclaimed

-----------------------------------------------------------------------------
(* The steps that send a message.                                           *)

\* The task of a ticket is begun.
LEMMA SendRefines ==
    ASSUME FullInv, NEW p \in Dispatching, NEW a \in Agents \cup {NoAgent},
           inbox' = Append(inbox, [task |-> call[p].task, agent |-> a]),
           UNCHANGED <<store, finished>>, Calm(p)
    PROVE  Unclaimed' /\ Refines
<1> DEFINE m == [task |-> call[p].task, agent |-> a]
<1>1. /\ p \in Actors /\ Inv /\ UNCHANGED <<listStatus, status, attempts>>
      /\ inbox \in Seq(Message) /\ inbox' = Append(inbox, m)
      /\ call[p].pc \in {"publish", "resend"}
  BY DEF Dispatching, FullInv, Inv, TypeOK, store
<1>2. call[p].task \in Tasks /\ status[call[p].task] # "Pending"
  BY <1>1 DEF Inv, CallSound, OnItsTask, OnTask, TicketSound
<1>3. m \in Message /\ m.task = call[p].task
  BY <1>2 DEF Message
<1> HIDE DEF m
<1>4. TasksOf(inbox') \subseteq TasksOf(inbox) \cup {call[p].task}
  BY <1>1, <1>3, TasksOfAppend
<1>5. Forward /\ Honest
  BY <1>1, <1>2, <1>4 DEF Forward, Honest
<1> QED BY <1>1, <1>5, UnclaimedStep DEF FullInv, Unclaimed, Refines, Lifecycle!vars

\* The first dispatch is of a begun task.
LEMMA PublishRefines ==
    ASSUME FullInv, NEW p \in Actors, Publish(p)
    PROVE  Unclaimed' /\ Refines
<1>1. /\ p \in Dispatching /\ Inv /\ Executor[call[p].task] \in Agents
      /\ inbox' = Append(inbox, [task |-> call[p].task, agent |-> Executor[call[p].task]])
      /\ UNCHANGED <<store, finished>> /\ NextOfBatch(p, call[p].todo) /\ call[p].pc # "idle"
  BY TaskFeederAssumption
     DEF Publish, SendDispatch, At, Dispatching, FullInv, Inv, CallSound, OnItsTask, OnTask
<1> QED BY <1>1, NextOfBatchCalm, SendRefines

\* So is every later one.
LEMMA ResendRefines ==
    ASSUME FullInv, NEW p \in Actors, Reprompt(p) \/ Redispatch(p)
    PROVE  Unclaimed' /\ Refines
<1>1. /\ p \in Dispatching /\ Inv /\ call[p].task \in Tasks
      /\ UNCHANGED <<store, finished>> /\ Return(p, TRUE) /\ call[p].pc # "idle"
  BY DEF Reprompt, Redispatch, At, Dispatching, FullInv, Inv, CallSound, OnItsTask, OnTask
<1>2. PICK a \in Agents \cup {NoAgent} :
          inbox' = Append(inbox, [task |-> call[p].task, agent |-> a])
  BY <1>1, TaskFeederAssumption DEF Reprompt, Redispatch, SendDispatch
<1> QED BY <1>1, <1>2, ReturnCalm, SendRefines

\* A feeder call, whoever makes it.
LEMMA FeederStepRefines ==
    ASSUME FullInv, NEW p \in Actors, FeederStep(p)
    PROVE  Unclaimed' /\ Refines
BY FeederInvisible, HaltRefines, AdvanceCompleteRefines, BeginGhostRefines, BeginClaimRefines,
   PublishRefines, ReclaimRefines DEF FeederStep

-----------------------------------------------------------------------------
(* The steps of a run.                                                      *)

\* Tags under validation, followups and the end of a run are invisible.
LEMMA RunInvisible ==
    ASSUME FullInv, NEW r \in Runs,
           TagComplete(r) \/ TagClarify(r) \/ RunEnd(r) \/ EndedRead(r)
    PROVE  Unclaimed' /\ Refines
<1>1. r \in Actors /\ Inv /\ run \in [Runs -> Run]
  BY DEF Actors, FullInv, Inv, TypeOK
<1>2. UNCHANGED <<store, queues>> /\ call[r].pc # "idle"
  BY DEF TagComplete, TagClarify, RunEnd, EndedRead, At
<1>3. CASE TagComplete(r)
  <2>1. run' = [run EXCEPT ![r].tags = @ + 1] /\ \E c : Continue(r, c)
    BY <1>3 DEF TagComplete, ToReclaim
  <2>2. \A q \in Runs : run'[q].task = run[q].task
    BY <1>1, <2>1 DEF Run
  <2> QED BY <1>1, <1>2, <2>1, <2>2, ContinueCalm, InvisibleStep
<1>4. CASE TagClarify(r)
  <2>1. run' = [run EXCEPT ![r].followup = TRUE] /\ UNCHANGED call
    BY <1>4 DEF TagClarify
  <2>2. \A q \in Runs : run'[q].task = run[q].task
    BY <1>1, <2>1 DEF Run
  <2>3. Calm(r)
    BY <1>2, <2>1, <2>2 DEF Calm
  <2> QED BY <1>1, <1>2, <2>3, InvisibleStep
<1>5. CASE RunEnd(r)
  <2>1. UNCHANGED run /\ \E c : Continue(r, c)
    BY <1>5 DEF RunEnd, Goto
  <2> QED BY <1>1, <1>2, <2>1, ContinueCalm, InvisibleStep
<1>6. CASE EndedRead(r)
  <2>1. Return(r, TRUE) \/ (UNCHANGED run /\ \E c : Continue(r, c))
    BY <1>6 DEF EndedRead, ToReclaim
  <2> QED BY <1>1, <1>2, <2>1, ReturnCalm, ContinueCalm, InvisibleStep
<1> QED BY <1>3, <1>4, <1>5, <1>6

\* The task of a run that is alive is begun.
LEMMA RunOnBegunTask ==
    ASSUME FullInv, NEW r \in Runs, call[r].pc # "idle"
    PROVE  /\ r \in Actors /\ Inv /\ run \in [Runs -> Run] /\ run[r].task \in Tasks
           /\ status[run[r].task] # "Pending"
<1>1. r \in Actors /\ Inv /\ run \in [Runs -> Run]
  BY DEF Actors, FullInv, Inv, TypeOK
<1>2. run[r].task \in Engaged
  BY DEF Engaged
<1> QED BY <1>1, <1>2, EngagedTasks DEF FullInv, Unclaimed

\* A fail tag is a Fail of the lifecycle, or comes too late.
LEMMA TagFailRefines ==
    ASSUME FullInv, NEW r \in Runs, TagFail(r)
    PROVE  Unclaimed' /\ Refines
<1> DEFINE t == run[r].task
<1>1. /\ UNCHANGED <<listStatus, attempts, queues>> /\ call[r].pc # "idle"
      /\ \/ /\ ValidTaskTransition(status[t], "Failed")
            /\ status' = [status EXCEPT ![t] = "Failed"]
            /\ run' = [run EXCEPT ![r].tags = @ + 1]
            /\ \E c : Continue(r, c)
         \/ /\ run' = [run EXCEPT ![r].tags = @ + 1, ![r].followup = TRUE]
            /\ UNCHANGED <<status, call>>
  BY DEF TagFail, ToSettle, At
<1>2. /\ r \in Actors /\ Inv /\ run \in [Runs -> Run] /\ t \in Tasks /\ status[t] # "Pending"
  BY <1>1, RunOnBegunTask
<1>3. CASE /\ ValidTaskTransition(status[t], "Failed")
           /\ status' = [status EXCEPT ![t] = "Failed"]
           /\ run' = [run EXCEPT ![r].tags = @ + 1]
           /\ \E c : Continue(r, c)
  <2>1. status[t] \in {"InProgress", "Failed"}
    BY <1>2, <1>3, FailLegal
  <2>2. Forward /\ Refines
    <3> HIDE DEF t
    <3> QED BY <1>1, <1>2, <1>3, <2>1, EndRefines
  <2>3. \A q \in Runs : run'[q].task = run[q].task
    BY <1>2, <1>3 DEF Run
  <2>4. Calm(r) /\ Honest
    BY <1>1, <1>2, <1>3, <2>3, ContinueCalm DEF Honest, queues
  <2> QED BY <1>1, <1>2, <2>2, <2>4, UnclaimedStep DEF FullInv, Unclaimed
<1>4. CASE /\ run' = [run EXCEPT ![r].tags = @ + 1, ![r].followup = TRUE]
           /\ UNCHANGED <<status, call>>
  <2>1. \A q \in Runs : run'[q].task = run[q].task
    BY <1>2, <1>4 DEF Run
  <2>2. Calm(r) /\ Honest /\ Forward
    BY <1>1, <1>4, <2>1 DEF Calm, Honest, queues, Forward
  <2> QED BY <1>1, <1>2, <1>4, <2>2, UnclaimedStep
             DEF FullInv, Unclaimed, Refines, Lifecycle!vars
<1> QED BY <1>1, <1>3, <1>4

\* An accepted complete tag is a Complete of the lifecycle, or comes too late.
LEMMA CompleteTaskRefines ==
    ASSUME FullInv, NEW r \in Runs, CompleteTask(r)
    PROVE  Unclaimed' /\ Refines
<1> DEFINE t == call[r].task
<1>1. /\ UNCHANGED <<listStatus, attempts, queues>> /\ call[r].pc = "complete"
      /\ r \in Actors /\ Inv
      /\ \/ /\ ValidTaskTransition(status[t], "Completed")
            /\ status' = [status EXCEPT ![t] = "Completed"]
            /\ (\E c : Continue(r, c)) /\ UNCHANGED run
         \/ Return(r, FALSE) /\ UNCHANGED status
  BY DEF CompleteTask, Goto, At, Actors, FullInv
<1>2. t \in Tasks
  BY <1>1 DEF Inv, CallSound, OnItsTask, OnTask
<1>3. Calm(r) /\ Honest
  BY <1>1, ReturnCalm, ContinueCalm DEF Honest, queues
<1>4. Forward /\ Refines
  <2>1. CASE /\ ValidTaskTransition(status[t], "Completed")
             /\ status' = [status EXCEPT ![t] = "Completed"]
    <3>1. status[t] \in {"InProgress", "Completed"}
      BY <1>1, <1>2, <2>1, CompleteLegal
    <3> HIDE DEF t
    <3> QED BY <1>1, <1>2, <2>1, <3>1, EndRefines
  <2>2. CASE UNCHANGED status
    BY <1>1, <2>2 DEF Forward, Refines, Lifecycle!vars
  <2> QED BY <1>1, <2>1, <2>2
<1> QED BY <1>1, <1>3, <1>4, UnclaimedStep DEF FullInv, Unclaimed

\* A run that is over, with a signal about its task or without one.
LEMMA RunOverRefines ==
    ASSUME FullInv, NEW r \in Runs, RunExit(r) \/ RunCrash(r)
    PROVE  Unclaimed' /\ Refines
<1>1. /\ UNCHANGED <<store, inbox>> /\ call[r].pc # "idle" /\ Continue(r, Idle)
      /\ run' = [run EXCEPT ![r] = NoRun]
      /\ \/ UNCHANGED finished
         \/ \E b \in BOOLEAN :
               finished' = Append(finished, [task |-> run[r].task, agent |-> run[r].agent,
                                             completed |-> b])
  BY DEF RunExit, RunCrash, At
<1>2. /\ r \in Actors /\ Inv /\ run \in [Runs -> Run] /\ run[r].task \in Tasks
      /\ status[run[r].task] # "Pending" /\ finished \in Seq(Signal)
      /\ run[r].agent \in Agents \cup {NoAgent}
  BY <1>1, RunOnBegunTask DEF Inv, TypeOK, Run
<1>3. TasksOf(finished') \subseteq TasksOf(finished) \cup {run[r].task}
  <2>1. CASE UNCHANGED finished
    BY <2>1
  <2>2. ASSUME NEW b \in BOOLEAN,
               finished' = Append(finished, [task |-> run[r].task, agent |-> run[r].agent,
                                             completed |-> b])
        PROVE  TasksOf(finished') \subseteq TasksOf(finished) \cup {run[r].task}
    <3> DEFINE m == [task |-> run[r].task, agent |-> run[r].agent, completed |-> b]
    <3>1. m \in Signal /\ m.task = run[r].task /\ finished' = Append(finished, m)
      BY <1>2, <2>2 DEF Signal
    <3> HIDE DEF m
    <3> QED BY <1>2, <3>1, TasksOfAppend
  <2> QED BY <1>1, <2>1, <2>2
<1>4. UNCHANGED <<listStatus, status, attempts>>
  BY <1>1 DEF store
<1>5. Forward /\ Honest
  BY <1>1, <1>2, <1>3, <1>4 DEF Forward, Honest
<1>6. Calm(r)
  BY <1>1, <1>2 DEF Calm, Continue, Inv, TypeOK, Idle, Actors
<1> QED BY <1>2, <1>4, <1>5, <1>6, UnclaimedStep
           DEF FullInv, Unclaimed, Refines, Lifecycle!vars

-----------------------------------------------------------------------------
(* The steps of the queue manager and of the sweeps.                        *)

\* A step that leaves the files alone and engages in nothing new.
LEMMA EngagesNothingNew ==
    ASSUME FullInv, UNCHANGED store, Engaged' \subseteq Engaged
    PROVE  Unclaimed' /\ Refines
BY DEF FullInv, Unclaimed, Refines, Lifecycle!vars, store

\* The run that starts is engaged in what its message was about.
LEMMA StartRunRefines ==
    ASSUME FullInv, StartRun
    PROVE  Unclaimed' /\ Refines
<1> DEFINE m == Head(inbox)
<1>1. PICK r \in Runs : /\ run' = [run EXCEPT ![r] = [NoRun EXCEPT !.task = m.task,
                                                                    !.agent = m.agent]]
                        /\ Continue(r, Working)
  BY FreeSlotFree DEF StartRun
<1>2. /\ UNCHANGED <<store, finished>> /\ inbox # <<>> /\ inbox' = Tail(inbox)
      /\ inbox \in Seq(Message) /\ run \in [Runs -> Run] /\ call \in [Actors -> Call]
      /\ r \in Actors
  BY DEF StartRun, FullInv, Inv, TypeOK, Actors
<1>3. TasksOf(inbox') \subseteq TasksOf(inbox) /\ m.task \in TasksOf(inbox)
  BY <1>2, TasksOfTail
<1>4. /\ run'[r].task = m.task
      /\ \A q \in Runs \ {r} : run'[q] = run[q] /\ call'[q] = call[q]
  BY <1>1, <1>2 DEF NoRun, Continue, Actors
<1> HIDE DEF m
<1>5. Engaged' \subseteq Engaged
  BY <1>2, <1>3, <1>4 DEF Engaged
<1> QED BY <1>2, <1>5, EngagesNothingNew

\* The manager fails a begun task.
LEMMA MarkFailedRefines ==
    ASSUME FullInv, NEW t \in Tasks, status[t] # "Pending", MarkFailed(t), UNCHANGED run,
           TasksOf(inbox') \subseteq TasksOf(inbox),
           TasksOf(finished') \subseteq TasksOf(finished)
    PROVE  Unclaimed' /\ Refines
<1>1. /\ UNCHANGED <<listStatus, attempts>> /\ Inv
      /\ Manager \in Actors /\ Manager \notin Runs /\ \E c : Continue(Manager, c)
      /\ status' = IF ValidTaskTransition(status[t], "Failed")
                   THEN [status EXCEPT ![t] = "Failed"] ELSE status
  BY SweeperIsActor DEF MarkFailed, ToSettle, FullInv, Singletons
<1>2. Calm(Manager) /\ Honest
  BY <1>1, ContinueCalm DEF Honest
<1>3. Forward /\ Refines
  <2>1. CASE ValidTaskTransition(status[t], "Failed")
    <3>1. status[t] \in {"InProgress", "Failed"}
      BY <1>1, <2>1, FailLegal
    <3> QED BY <1>1, <2>1, <3>1, EndRefines
  <2>2. CASE ~ValidTaskTransition(status[t], "Failed")
    BY <1>1, <2>2 DEF Forward, Refines, Lifecycle!vars
  <2> QED BY <2>1, <2>2
<1> QED BY <1>1, <1>2, <1>3, UnclaimedStep DEF FullInv, Unclaimed

\* A run that does not start fails the task of its message.
LEMMA SpawnFailsRefines ==
    ASSUME FullInv, SpawnFails
    PROVE  Unclaimed' /\ Refines
<1>1. /\ inbox # <<>> /\ inbox' = Tail(inbox) /\ MarkFailed(Head(inbox).task)
      /\ UNCHANGED <<finished, run>> /\ inbox \in Seq(Message) /\ Inv
  BY DEF SpawnFails, FullInv, Inv, TypeOK
<1>2. TasksOf(inbox') \subseteq TasksOf(inbox) /\ Head(inbox).task \in TasksOf(inbox)
  BY <1>1, TasksOfTail
<1>3. Head(inbox).task \in Engaged /\ Head(inbox).task \in Tasks
  BY <1>1, <1>2, EngagedTasks DEF Engaged
<1>4. status[Head(inbox).task] # "Pending"
  BY <1>3 DEF FullInv, Unclaimed
<1> QED BY <1>1, <1>2, <1>3, <1>4, MarkFailedRefines

\* A followup is about the task of the run, and so is a failure.
LEMMA RunFinishedRefines ==
    ASSUME FullInv, RunFinished
    PROVE  Unclaimed' /\ Refines
<1> DEFINE f == Head(finished)
           m == [task |-> f.task, agent |-> f.agent]
<1>1. /\ finished # <<>> /\ finished' = Tail(finished) /\ UNCHANGED run
      /\ finished \in Seq(Signal) /\ inbox \in Seq(Message) /\ Inv
      /\ \/ inbox' = Append(inbox, m) /\ UNCHANGED <<store, call>>
         \/ MarkFailed(f.task) /\ UNCHANGED inbox
  BY DEF RunFinished, FullInv, Inv, TypeOK
<1>2. TasksOf(finished') \subseteq TasksOf(finished) /\ f.task \in TasksOf(finished)
  BY <1>1, TasksOfTail
<1>3. f.task \in Engaged /\ f.task \in Tasks
  BY <1>1, <1>2, EngagedTasks DEF Engaged
<1>4. CASE inbox' = Append(inbox, m) /\ UNCHANGED <<store, call>>
  <2>1. f \in Signal
    BY <1>1
  <2>2. m \in Message /\ m.task = f.task
    BY <2>1 DEF Message, Signal
  <2>3. TasksOf(inbox') \subseteq TasksOf(inbox) \cup {f.task}
    <3> HIDE DEF m
    <3> QED BY <1>1, <1>4, <2>2, TasksOfAppend
  <2>4. Engaged' \subseteq Engaged
    BY <1>1, <1>2, <1>4, <2>3 DEF Engaged
  <2> QED BY <1>4, <2>4, EngagesNothingNew
<1>5. CASE MarkFailed(f.task) /\ UNCHANGED inbox
  <2>1. status[f.task] # "Pending"
    BY <1>3 DEF FullInv, Unclaimed
  <2> QED BY <1>1, <1>2, <1>3, <1>5, <2>1, MarkFailedRefines
<1> QED BY <1>1, <1>4, <1>5

\* A sweep that only looks is invisible.
LEMMA SweepRefines ==
    ASSUME FullInv, NEW p \in Sweepers,
           SweepNext(p) \/ Probe(p) \/ Recover(p) \/ SweepEnd(p)
    PROVE  Unclaimed' /\ Refines
<1>1. p \in Actors /\ p \notin Runs /\ Inv
  BY SweeperIsActor, SMTT(30) DEF Sweepers, Singletons, FullInv
<1>2. UNCHANGED <<store, queues, run>> /\ \E c : Continue(p, c)
  BY DEF SweepNext, Probe, Recover, SweepEnd, ToSweep, ToReclaim, Goto
<1> QED BY <1>1, <1>2, ContinueCalm, InvisibleStep

\* So is the start of one.
LEMMA SweepStartRefines ==
    ASSUME FullInv, WatchdogTick \/ BootScan \/ Rescan
    PROVE  Unclaimed' /\ Refines
<1>1. PICK p \in Singletons : UNCHANGED <<store, queues, run>> /\ \E c : Continue(p, c)
  BY DEF WatchdogTick, BootScan, Rescan, ToSweep, Singletons
<1>2. p \in Actors /\ p \notin Runs /\ Inv
  BY SweeperIsActor DEF FullInv
<1> QED BY <1>1, <1>2, ContinueCalm, InvisibleStep

\* The engine starts again and is engaged in nothing.
LEMMA RestartRefines ==
    ASSUME FullInv, Restart
    PROVE  Unclaimed' /\ Refines
<1>1. /\ UNCHANGED store /\ inbox' = <<>> /\ finished' = <<>>
      /\ call' = [p \in Actors |-> IF p = Startup THEN [Idle EXCEPT !.pc = "boot"] ELSE Idle]
  BY DEF Restart
<1>2. \A r \in Runs : call'[r].pc = "idle"
  BY <1>1, TaskFeederAssumption DEF Actors, Singletons, Idle
<1>3. Engaged' = {}
  BY <1>1, <1>2, TasksOfEmpty DEF Engaged
<1> QED BY <1>1, <1>3, EngagesNothingNew

-----------------------------------------------------------------------------
(* The theorems.                                                            *)

\* Every step is one of the lifecycle or invisible.
LEMMA StepRefines == FullInv /\ [Next]_vars => FullInv' /\ Refines
<1> SUFFICES ASSUME FullInv, [Next]_vars PROVE FullInv' /\ Refines
  OBVIOUS
<1>1. Inv'
  BY NextInv DEF FullInv
<1>2. CASE UNCHANGED vars
  BY <1>1, <1>2 DEF vars, store, queues, FullInv, Unclaimed, Engaged, Refines, Lifecycle!vars
<1>3. ASSUME NEW r \in Runs,
             RunStep(r) \/ TagComplete(r) \/ TagFail(r) \/ TagClarify(r) \/ RunEnd(r)
               \/ RunCrash(r)
      PROVE  Unclaimed' /\ Refines
  <2>1. r \in Actors
    BY DEF Actors
  <2> QED BY <1>3, <2>1, FeederStepRefines, CompleteTaskRefines, ResendRefines, RunInvisible,
             RunOverRefines, TagFailRefines DEF RunStep
<1>4. CASE FeederStep(Manager) \/ StartRun \/ SpawnFails \/ RunFinished
  BY <1>1, <1>4, SweeperIsActor, FeederStepRefines, StartRunRefines, SpawnFailsRefines,
     RunFinishedRefines DEF Singletons, FullInv
<1>5. ASSUME NEW p \in Sweepers, SweepStep(p)
      PROVE  Unclaimed' /\ Refines
  <2>1. p \in Actors
    BY SweeperIsActor DEF Sweepers, Singletons
  <2> QED BY <1>5, <2>1, FeederStepRefines, SweepRefines, ResendRefines DEF SweepStep
<1>6. CASE WatchdogTick \/ BootScan \/ Rescan
  BY <1>1, <1>6, SweepStartRefines DEF FullInv
<1>7. ASSUME NEW t \in Tasks, GraceElapses(t) PROVE Unclaimed' /\ Refines
  BY <1>7, EngagesNothingNew DEF GraceElapses, Engaged, queues
<1>8. CASE Restart
  BY <1>1, <1>8, RestartRefines DEF FullInv
<1>9. CASE Quiescent
  BY <1>2, <1>9 DEF Quiescent
<1> QED BY <1>1, <1>2, <1>3, <1>4, <1>5, <1>6, <1>7, <1>8, <1>9 DEF Next, FullInv

\* The dispatcher starts where the lifecycle starts.
LEMMA InitRefines == Init => FullInv /\ Lifecycle!Init
<1> SUFFICES ASSUME Init PROVE FullInv /\ Lifecycle!Init
  OBVIOUS
<1>1. \A r \in Runs : call[r].pc = "idle"
  BY TaskFeederAssumption DEF Init, Actors, Singletons, Idle
<1>2. Engaged = {}
  BY <1>1, TasksOfEmpty DEF Init, Engaged
<1>3. Lifecycle!Init
  BY DEF Init, Lifecycle!Init
<1> QED BY <1>2, <1>3, InitInv DEF Init, FullInv, Unclaimed

\* Nothing is ever reported, failed or dispatched again that was not begun: the
\* second half of the inductive invariant.
THEOREM FullInvariance == Spec => []FullInv
<1> QED BY InitRefines, StepRefines, PTL DEF Spec

\* The dispatcher implements the lifecycle of a tasklist: in the files, all the
\* interleavings of runs, sweeps, crashes and restarts look like tasks that are
\* begun in order, retried a bounded number of times and ended once.
THEOREM ImplementsLifecycle == Spec => Implements
<1> QED BY InitRefines, StepRefines, PTL DEF Spec, Implements, Lifecycle!Spec, Refines

\* A step of the lifecycle ends at most a task that is not over, and leaves the
\* status of a tasklist that has ended alone.
LEMMA RefinesFrozen ==
    ASSUME TypeOK, Refines
    PROVE  /\ \A t \in Tasks : status[t] \in Terminal => status'[t] = status[t]
           /\ listStatus \in {"Completed", "Failed"} => listStatus' = listStatus
<1>1. status \in [Tasks -> TaskStatus]
  BY DEF TypeOK
<1>2. CASE UNCHANGED Lifecycle!vars
  BY <1>2 DEF Lifecycle!vars
<1>3. CASE Lifecycle!CompleteList \/ Lifecycle!FailList
  BY <1>3 DEF Lifecycle!CompleteList, Lifecycle!FailList
<1>4. ASSUME NEW t \in Tasks,
             Lifecycle!Begin(t) \/ Lifecycle!Complete(t) \/ Lifecycle!Fail(t)
               \/ Lifecycle!Retry(t) \/ Lifecycle!GiveUp(t)
      PROVE  /\ \A u \in Tasks : status[u] \in Terminal => status'[u] = status[u]
             /\ UNCHANGED listStatus
  BY <1>1, <1>4 DEF Lifecycle!Begin, Lifecycle!Complete, Lifecycle!Fail, Lifecycle!Retry,
     Lifecycle!GiveUp, Terminal
<1> QED BY <1>2, <1>3, <1>4 DEF Refines, Lifecycle!Next

\* No late report, recovery or stale snapshot undoes a result, because none is a
\* step of the lifecycle.
THEOREM OutcomesStayFrozen == Spec => OutcomesFrozen
<1> DEFINE Frozen == /\ \A t \in Tasks : status[t] \in Terminal => status'[t] = status[t]
                     /\ listStatus \in {"Completed", "Failed"} => listStatus' = listStatus
<1>1. FullInv /\ [Next]_vars => Frozen
  BY StepRefines, RefinesFrozen DEF FullInv, Inv
<1> HIDE DEF Frozen
<1>2. FullInv /\ [Next]_vars => [Frozen]_vars
  BY <1>1
<1>3. Spec => [][Frozen]_vars
  BY <1>2, FullInvariance, PTL DEF Spec
<1> QED BY <1>3 DEF OutcomesFrozen, Frozen
=============================================================================
