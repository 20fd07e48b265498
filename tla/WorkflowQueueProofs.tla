-------------------------- MODULE WorkflowQueueProofs --------------------------
(***************************************************************************)
(* The invariant of WorkflowQueue and what it is for: one execution of a   *)
(* task, one script in a directory, phases in order, outcomes that stay,   *)
(* for any tasks, phases and interventions, and any number of them.        *)
(***************************************************************************)
EXTENDS WorkflowQueuePlans

\* What a process with a plan is doing.
LEMMA PlanIs ==
    ASSUME WorkflowTypeOK, NEW q \in Process, plan[q] # <<>>
    PROVE  LET op == Next1(q)
           IN  /\ IsPlan(q, plan[q]) /\ op = Head(plan[q]) /\ op.task \in Task /\ op.phase \in Phase
               /\ op = Op(op.do, op.task, op.phase)
               /\ q = QueueManager \/ q = User \/ IsA("folder", q) \/ IsA("prompt", q)
               /\ q = QueueManager =>
                     /\ plan[q] \in ManagerPlans(op.task, op.phase)
                     /\ op.do \in {"route", "start", "pause", "coldStart", "approve", "clear",
                                   "unstop", "requeue", "finish", "giveUp"}
               /\ q = User =>
                     /\ plan[q] \in UserPlans(op.task, op.phase)
                     /\ op.do \in {"begin", "startTask", "resumeTask", "complete",
                                   "phaseCompleted", "stop", "reopen", "archive"}
               /\ IsA("folder", q) =>
                     /\ plan[q] \in ScriptPlans(op.task, op.phase)
                     /\ op.do \in {"start", "script", "meter", "complete", "fail",
                                   "phaseCompleted", "phaseFailed"}
               /\ IsA("prompt", q) =>
                     /\ plan[q] \in AgentPlans(op.task, op.phase)
                     /\ op.do \in {"turn", "fail", "complete", "skip", "phaseCompleted", "meter"}
               /\ q \in Job => q[1] = op.task /\ q[2] = op.phase
<1>1. IsPlan(q, plan[q]) /\ Next1(q) = Head(plan[q])
  BY DEF WorkflowTypeOK, PlansOK, Next1
<1>2. CASE q = QueueManager
  BY <1>1, <1>2, PlanOf, ManagerPlan, Processes DEF IsA
<1>3. CASE q = User
  BY <1>1, <1>3, PlanOf, UserPlan, Processes DEF IsA
<1>4. CASE IsA("folder", q)
  BY <1>1, <1>4, PlanOf, ScriptPlan, Processes DEF IsA
<1>5. CASE IsA("prompt", q)
  BY <1>1, <1>5, PlanOf, AgentPlan, Processes DEF IsA
<1> QED BY <1>1, <1>2, <1>3, <1>4, <1>5, PlanOf DEF Process, IsA

\* No mishap is forgotten.
LEMMA MishapsGrow == ASSUME [Next]_vars PROVE mishaps \subseteq mishaps'
<1>1. ASSUME NEW t \in Task, Request(t) PROVE mishaps \subseteq mishaps'
  BY <1>1 DEF Request, Start, Resume, Stop, ToolStart, Archive, SubmitInput, Reopen,
              Intervene, user
<1>2. ASSUME NEW t \in Task, NEW p \in Phase, NEW n \in Slots,
             ScriptEnds(t, p, n) \/ TurnEnds(t, p, n)
      PROVE  mishaps \subseteq mishaps'
  BY <1>2 DEF ScriptEnds, TurnEnds, user
<1>3. CASE Crash
  BY <1>3 DEF Crash, Intervene
<1>4. ASSUME NEW t \in Task, NEW p \in Phase,
             RouteToPause(t, p) \/ RouteToScript(t, p) \/ RouteToAgent(t, p)
      PROVE  mishaps \subseteq mishaps'
  BY <1>4 DEF RouteToPause, RouteToScript, RouteToAgent, user
<1>5. CASE Receive \/ Heartbeat \/ Pump \/ PumpEnds \/ WorkEnds \/ Requeue \/ ColdStart
  BY <1>5 DEF Receive, Heartbeat, Pump, PumpEnds, WorkEnds, Requeue, ColdStart, user
<1>6. ASSUME NEW q \in Process, Read(q) \/ Write(q) \/ Tell(q)
      PROVE  mishaps \subseteq mishaps'
  BY <1>6 DEF Read, Write, Tell, user
<1> QED BY Steps, <1>1, <1>2, <1>3, <1>4, <1>5, <1>6 DEF vars

\* Nobody asks for what is a mishap, and no snapshot changes.
LEMMA TracesKept ==
    ASSUME Traces, mishaps \subseteq mishaps', snap' = snap,
           \A q \in Process : held'[q] = held[q] \/ held'[q] = NoSnapshot,
           \A do \in {"stop", "reopen", "archive"} :
              Has(plan'[User], {do}) => Has(plan[User], {do}) \/ do \in mishaps',
           \A q \in Process : IsA("prompt", q) /\ Has(plan'[q], {"meter"}) =>
              Has(plan[q], {"meter"}) \/ "tokens" \in mishaps'
    PROVE  Traces'
BY DEF Traces, Traced

\* Plans that got shorter, or ask for nothing that is a mishap.
LEMMA TracesOfPlans ==
    ASSUME WorkflowTypeOK, Traces, mishaps \subseteq mishaps', snap' = snap,
           \A q \in Process : held'[q] = held[q] \/ held'[q] = NoSnapshot,
           \A q \in Process :
              \/ plan'[q] = plan[q] \/ plan'[q] = <<>>
              \/ plan[q] # <<>> /\ plan'[q] = Tail(plan[q])
              \/ q # User /\ (IsA("prompt", q) => ~Has(plan'[q], {"meter"}))
    PROVE  Traces'
<1>1. ASSUME NEW q \in Process, NEW ops, Has(plan'[q], ops)
      PROVE  Has(plan[q], ops) \/ (q # User /\ (IsA("prompt", q) => ~Has(plan'[q], {"meter"})))
  <2>1. IsPlan(q, plan[q])
    BY DEF WorkflowTypeOK, PlansOK
  <2>2. plan[q] # <<>> => (Has(Tail(plan[q]), ops) => Has(plan[q], ops))
    BY <2>1, PlanTail
  <2> QED BY <1>1, <2>2, Nothing
<1> QED BY <1>1, TracesKept, Processes

\* A read leaves the traces of what there was.
LEMMA TracesRead ==
    ASSUME WorkflowTypeOK, Traces, NEW q \in Process, Read(q)
    PROVE  Traces'
<1> DEFINE op == Next1(q)
           s == snap[op.task]
<1>1. /\ IsPlan(q, plan[q]) /\ plan[q] # <<>> /\ op.do \in StoreOps /\ held[q] = NoSnapshot
      /\ op.task \in Task /\ op.phase \in Phase /\ op = Head(plan[q])
  BY PlanOf DEF Read, WorkflowTypeOK, PlansOK, Next1
<1>2. s \in Snapshot
  BY <1>1 DEF WorkflowTypeOK, StateOK
<1>3. snap' = snap /\ mishaps' = mishaps
  BY DEF Read, user
<1>4. CASE Accepts(op, s) /\ held' = [held EXCEPT ![q] = s] /\ UNCHANGED plan
  <2>1. \A r \in Process : held'[r] = held[r] \/ (r = q /\ held'[r] = s)
    BY <1>4 DEF WorkflowTypeOK, HeldOK
  <2>2. Traced(s)
    BY <1>1 DEF Traces
  <2> HIDE DEF s
  <2> QED BY <1>3, <1>4, <2>1, <2>2 DEF Traces, Traced
<1>5. CASE ~Accepts(op, s) /\ plan' = [plan EXCEPT ![q] = AfterRefusal(q, op, s)]
           /\ UNCHANGED held
  <2> DEFINE v == AfterRefusal(q, op, s)
             then(do) == Op(do, op.task, op.phase)
  <2>1. \/ IsA("folder", q) /\ op.do = "complete" /\ v = <<then("phaseFailed")>>
        \/ /\ IsA("prompt", q) /\ op.do = "complete"
           /\ v = <<then("fail"), then("turn")>> \/ v = <<then("turn")>>
        \/ q = User /\ op.do \in {"complete", "begin", "reopen"} /\ v = <<>>
        \/ q # User /\ op.do \in {"meter", "finish", "clear", "unstop"} /\ v = Tail(plan[q])
    BY <1>1, <1>2, <1>5, Refused
  <2>2. ~Has(<<then("fail"), then("turn")>>, {"meter"}) /\ ~Has(<<then("turn")>>, {"meter"})
    BY Single, Double DEF Op
  <2>3. plan'[q] = v /\ \A r \in Process \ {q} : plan'[r] = plan[r]
    BY <1>5 DEF WorkflowTypeOK, PlansOK
  <2> HIDE DEF v
  <2>4. \A r \in Process :
           \/ plan'[r] = plan[r] \/ plan'[r] = <<>>
           \/ plan[r] # <<>> /\ plan'[r] = Tail(plan[r])
           \/ r # User /\ (IsA("prompt", r) => ~Has(plan'[r], {"meter"}))
    BY <1>1, <2>1, <2>2, <2>3, Processes DEF IsA
  <2> QED BY <1>3, <1>5, <2>4, TracesOfPlans
<1> QED BY <1>4, <1>5 DEF Read

\* A write leaves the traces of what there was: Stopped and Archived come of a stop
\* and an archive.
LEMMA TracesWrite ==
    ASSUME WorkflowTypeOK, Traces, NEW q \in Process, Write(q)
    PROVE  Traces'
<1> DEFINE op == Next1(q)
           s == held[q]
           a == Applied(op, s)
<1>1. /\ IsPlan(q, plan[q]) /\ plan[q] # <<>> /\ op.do \in StoreOps /\ s \in Snapshot
      /\ op.task \in Task /\ op.phase \in Phase /\ op = Head(plan[q])
  BY PlanOf DEF Write, WorkflowTypeOK, PlansOK, HeldOK, Next1
<1>2. /\ plan'[q] = Tail(plan[q]) /\ held'[q] = NoSnapshot /\ snap'[op.task] = a
      /\ \A r \in Process \ {q} : plan'[r] = plan[r] /\ held'[r] = held[r]
      /\ \A t \in Task \ {op.task} : snap'[t] = snap[t]
      /\ mishaps' = mishaps
  BY <1>1 DEF Write, WorkflowTypeOK, StateOK, PlansOK, HeldOK, user
<1>3. Traced(s)
  BY <1>1, NoSnapshotIsNone DEF Traces
<1>4. op.do \in {"stop", "archive"} => op.do \in mishaps
  <2>1. SUFFICES ASSUME op.do \in {"stop", "archive"} PROVE op.do \in mishaps
    OBVIOUS
  <2>2. q = User
    BY <1>1, <2>1, PlanIs
  <2>3. Has(plan[User], {"stop"}) <=> op.do = "stop"
    BY <1>1, <2>2, PlanIs, UserPlan
  <2>4. Has(plan[User], {"archive"}) <=> op.do = "archive"
    BY <1>1, <2>2, PlanIs, UserPlan
  <2> QED BY <2>1, <2>3, <2>4 DEF Traces
<1> HIDE DEF a, op, s
<1>5. Traced(a)
  <2>1. CASE op.do \in {"start", "pause", "complete", "skip", "fail"}
    BY <1>1, <1>3, <2>1, AppliedToPhase DEF Traced, a
  <2>2. CASE op.do \in {"meter", "finish", "giveUp", "begin", "archive"}
    BY <1>1, <1>3, <1>4, <2>2, AppliedToStatus DEF Traced, a
  <2>3. CASE op.do \in {"approve", "clear"}
    BY <1>1, <1>3, <2>3, AppliedToPhases DEF Traced, a, Approved, Cleared
  <2>4. CASE op.do \in {"unstop", "stop", "reopen"}
    BY <1>1, <1>3, <1>4, <2>4, AppliedToBoth DEF Traced, a, Unstopped, Interrupted
  <2> QED BY <1>1, <2>1, <2>2, <2>3, <2>4 DEF StoreOps
<1>6. ASSUME NEW r \in Process PROVE \A ops : Has(plan'[r], ops) => Has(plan[r], ops)
  BY <1>1, <1>2, PlanTail
<1>7. \A t \in Task : Traced(snap'[t])
  BY <1>2, <1>5 DEF Traces
<1>8. \A r \in Process : held'[r] # NoSnapshot => Traced(held'[r])
  BY <1>2 DEF Traces
<1> QED BY <1>2, <1>6, <1>7, <1>8, Processes DEF Traces, Traced

\* So do the steps of the manager, and the messages.
LEMMA TracesManager ==
    ASSUME WorkflowTypeOK, Traces, mishaps \subseteq mishaps',
           \/ \E q \in Process : Tell(q)
           \/ Receive \/ Heartbeat \/ Pump \/ PumpEnds \/ WorkEnds \/ Requeue \/ ColdStart
           \/ \E t \in Task, p \in Phase :
                 RouteToPause(t, p) \/ RouteToScript(t, p) \/ RouteToAgent(t, p)
    PROVE  Traces'
<1>1. snap' = snap /\ held' = held
  BY DEF Tell, Receive, Heartbeat, Pump, PumpEnds, WorkEnds, Requeue, ColdStart,
         RouteToPause, RouteToScript, RouteToAgent
<1>2. CASE \E q \in Process : Tell(q)
  BY <1>1, <1>2, TracesOfPlans DEF Tell, WorkflowTypeOK, PlansOK
<1>3. CASE \E v : Todo(v)
  <2>1. \A q \in Process : q = QueueManager \/ plan'[q] = plan[q]
    BY <1>3 DEF Todo, WorkflowTypeOK, PlansOK
  <2> QED BY <1>1, <2>1, TracesOfPlans, Processes DEF IsA
<1>4. CASE plan' = plan
  BY <1>1, <1>4, TracesOfPlans
<1>5. CASE Requeue
  BY <1>1, <1>5, TracesOfPlans, Processes DEF Requeue, Doing, WorkflowTypeOK, PlansOK
<1>6. CASE ColdStart
  <2>1. PICK t \in Task, p \in Phase, j \in Job :
           plan' = [plan EXCEPT ![QueueManager] = <<>>, ![j] = <<Op("turn", t, p)>>]
    BY <1>6, ColdStarts
  <2>2. ~Has(<<Op("turn", t, p)>>, {"meter"})
    BY Single DEF Op
  <2>3. \A q \in Process : \/ plan'[q] = plan[q] \/ plan'[q] = <<>>
                           \/ q # User /\ ~Has(plan'[q], {"meter"})
    BY <2>1, <2>2, Processes DEF WorkflowTypeOK, PlansOK
  <2> QED BY <1>1, <2>3, TracesOfPlans
<1>7. ASSUME NEW t \in Task, NEW p \in Phase, RouteToScript(t, p), ~DirectoryConflict(t)
      PROVE  Traces'
  <2>1. PICK j \in Job : plan' = [plan EXCEPT ![QueueManager] = <<>>,
                                     ![j] = <<Op("start", t, p), Op("script", t, p)>>]
    BY <1>7, IdleJobIsIdle DEF RouteToScript
  <2>2. ~Has(<<Op("start", t, p), Op("script", t, p)>>, {"meter"})
    BY Double DEF Op
  <2>3. \A q \in Process : \/ plan'[q] = plan[q] \/ plan'[q] = <<>>
                           \/ q # User /\ ~Has(plan'[q], {"meter"})
    BY <2>1, <2>2, Processes DEF WorkflowTypeOK, PlansOK
  <2> QED BY <1>1, <2>3, TracesOfPlans
<1>8. CASE Receive
  BY <1>3, <1>4, <1>8 DEF Receive, ReceiveStart, ReceiveCompleted, ReceiveFailed, ReceiveResume
<1>9. CASE Heartbeat \/ Pump \/ PumpEnds \/ WorkEnds
  BY <1>3, <1>4, <1>9 DEF Heartbeat, Pump, PumpEnds, WorkEnds
<1>10. ASSUME NEW t \in Task, NEW p \in Phase,
              RouteToPause(t, p) \/ RouteToScript(t, p) \/ RouteToAgent(t, p)
       PROVE  Traces'
  BY <1>3, <1>7, <1>10 DEF RouteToPause, RouteToScript, RouteToAgent
<1> QED BY <1>2, <1>5, <1>6, <1>8, <1>9, <1>10

\* So does the end of an execution: only an agent with metered phases reports late.
LEMMA TracesExecution ==
    ASSUME WorkflowTypeOK, Traces, mishaps \subseteq mishaps',
           NEW t \in Task, NEW p \in Phase, NEW n \in Slots,
           ScriptEnds(t, p, n) \/ TurnEnds(t, p, n)
    PROVE  Traces'
<1> DEFINE j == <<t, p, n>>
<1>1. /\ j \in Job /\ j[1] = t /\ j[2] = p /\ j \in Process /\ j # User
      /\ plan[j] # <<>>
      /\ ScriptEnds(t, p, n) => Next1(j).do = "script"
  BY Processes DEF Job, ScriptEnds, TurnEnds, Doing
<1>2. snap' = snap /\ held' = held
  BY DEF ScriptEnds, TurnEnds
<1>3. CASE ScriptEnds(t, p, n)
  <2>1. \A q \in Process : q = j \/ plan'[q] = plan[q]
    BY <1>3 DEF ScriptEnds, WorkflowTypeOK, PlansOK
  <2> HIDE DEF j
  <2>2. ~IsA("prompt", j)
    BY <1>1, <1>3, PlanIs
  <2> QED BY <1>1, <1>2, <2>1, <2>2, TracesOfPlans
<1>4. CASE TurnEnds(t, p, n)
  <2>1. PICK v : /\ plan' = [plan EXCEPT ![j] = v]
                 /\ \/ v = IfMetered(t, p)
                    \/ \E do \in {"complete", "skip"} :
                          v = <<Op(do, t, p), Op("phaseCompleted", t, p)>> \o IfMetered(t, p)
    BY <1>4 DEF TurnEnds
  <2>2. Has(v, {"meter"}) => "tokens" \in mishaps'
    BY <1>4, <2>1, TurnEndings DEF TurnEnds
  <2> HIDE DEF j
  <2>3. plan'[j] = v /\ \A q \in Process : q = j \/ plan'[q] = plan[q]
    BY <1>1, <2>1 DEF WorkflowTypeOK, PlansOK
  <2>4. \A q \in Process : plan'[q] = plan[q] \/ (q # User /\ plan'[q] = v)
    BY <1>1, <2>3
  <2>5. plan'[User] = plan[User]
    BY <1>1, <2>3, Processes
  <2> QED BY <1>2, <2>2, <2>4, <2>5, TracesKept
<1> QED BY <1>3, <1>4

\* So do the requests: a stop, a reopening and an archiving are counted as mishaps.
LEMMA TracesRequest ==
    ASSUME WorkflowTypeOK, Traces, mishaps \subseteq mishaps', NEW t \in Task, Request(t)
    PROVE  Traces'
<1>1. snap' = snap /\ held' = held
  BY DEF Request, Start, Resume, Stop, ToolStart, Archive, SubmitInput, Reopen
<1>2. ASSUME NEW p \in Phase, NEW v \in UserPlans(t, p), UserDoes(v),
             Head(v).do \in {"stop", "reopen", "archive"} => Head(v).do \in mishaps'
      PROVE  Traces'
  <2>1. plan'[User] = v /\ \A q \in Process \ {User} : plan'[q] = plan[q]
    BY <1>2, Processes DEF UserDoes, WorkflowTypeOK, PlansOK
  <2>2. \A do \in {"stop", "reopen", "archive"} : Has(v, {do}) => do \in mishaps'
    BY <1>2, UserPlan
  <2>3. ~IsA("prompt", User)
    BY Processes DEF IsA
  <2> QED BY <1>1, <2>1, <2>2, <2>3, TracesKept
<1>3. ASSUME NEW p \in Phase, NEW do \in {"stop", "reopen", "archive", "begin", "resumeTask"},
             UserDoes(<<Op(do, t, p)>>), do \in {"stop", "reopen", "archive"} => do \in mishaps'
      PROVE  Traces'
  <2>1. <<Op(do, t, p)>> \in UserPlans(t, p) /\ Head(<<Op(do, t, p)>>).do = do
    BY Single DEF UserPlans, Op
  <2> QED BY <1>2, <1>3, <2>1
<1>4. CASE Start(t)
  <2>1. /\ <<Op("begin", t, 1), Op("startTask", t, 1)>> \in UserPlans(t, 1)
        /\ Head(<<Op("begin", t, 1), Op("startTask", t, 1)>>).do = "begin"
    BY Double DEF UserPlans, Op
  <2> QED BY <1>2, <1>4, <2>1, PhaseFacts DEF Start
<1>5. ASSUME NEW p \in Phase, SubmitInput(t, p)
      PROVE  Traces'
  <2>1. /\ <<Op("complete", t, p), Op("phaseCompleted", t, p)>> \in UserPlans(t, p)
        /\ Head(<<Op("complete", t, p), Op("phaseCompleted", t, p)>>).do = "complete"
    BY Double DEF UserPlans, Op
  <2> QED BY <1>2, <1>5, <2>1 DEF SubmitInput
<1>6. CASE Resume(t)
  BY <1>3, <1>6, PhaseFacts DEF Resume
<1>7. CASE Stop(t)
  BY <1>3, <1>7, PhaseFacts DEF Stop, Intervene
<1>8. CASE ToolStart(t)
  BY <1>3, <1>8, PhaseFacts DEF ToolStart
<1>9. CASE Archive(t)
  BY <1>3, <1>9, PhaseFacts DEF Archive, Intervene
<1>10. ASSUME NEW p \in Phase, Reopen(t, p)
       PROVE  Traces'
  BY <1>3, <1>10 DEF Reopen, Intervene
<1> QED BY <1>4, <1>5, <1>6, <1>7, <1>8, <1>9, <1>10 DEF Request

\* What there was no mishap of has left no trace, after every step.
LEMMA TracesStep == WorkflowTypeOK /\ Traces /\ [Next]_vars => Traces'
<1> SUFFICES ASSUME WorkflowTypeOK, Traces, [Next]_vars PROVE Traces'
  OBVIOUS
<1>1. CASE UNCHANGED vars
  BY <1>1 DEF vars, Traces, Traced
<1>2. CASE Crash
  <2>1. \A q \in Process : plan'[q] = <<>> /\ held'[q] = NoSnapshot
    BY <1>2 DEF Crash
  <2> QED BY <1>2, <2>1, MishapsGrow, TracesOfPlans DEF Crash
<1> QED BY <1>1, <1>2, MishapsGrow, Steps, TracesRead, TracesWrite, TracesManager,
           TracesExecution, TracesRequest

\* At first there is no trace of anything.
LEMMA TracesInit == Init => Traces
<1> SUFFICES ASSUME Init PROVE Traces
  OBVIOUS
<1> QED BY Nothing, Processes DEF Init, Traces, Traced, Fresh

-----------------------------------------------------------------------------
(* One place at a time sends a task on.                                    *)

\* The elements of a sequence that grew, lost its head, or was joined with another.
LEMMA Appended ==
    ASSUME NEW S, NEW s \in Seq(S), NEW e \in S
    PROVE  /\ Append(s, e) \in Seq(S) /\ Len(s) + 1 \in DOMAIN Append(s, e)
           /\ \A i \in DOMAIN Append(s, e) :
                 \/ i = Len(s) + 1 /\ Append(s, e)[i] = e
                 \/ i \in DOMAIN s /\ Append(s, e)[i] = s[i]
BY AppendProperties

\* The elements of a sequence that grew, lost its head, or was joined with another.
LEMMA Taken ==
    ASSUME NEW S, NEW s \in Seq(S), s # <<>>
    PROVE  /\ Head(s) \in S /\ Tail(s) \in Seq(S) /\ 1 \in DOMAIN s /\ s[1] = Head(s)
           /\ \A i \in DOMAIN Tail(s) :
                 i + 1 \in DOMAIN s /\ Tail(s)[i] = s[i + 1] /\ i \in Nat /\ i + 1 # 1
BY HeadTailProperties

\* The elements of a sequence that grew, lost its head, or was joined with another.
LEMMA Joined ==
    ASSUME NEW S, NEW s \in Seq(S), NEW r \in Seq(S)
    PROVE  /\ s \o r \in Seq(S)
           /\ \A i \in DOMAIN (s \o r) :
                 \/ i \in DOMAIN s /\ (s \o r)[i] = s[i]
                 \/ /\ i \notin DOMAIN s /\ i - Len(s) \in DOMAIN r /\ i \in Nat
                    /\ (s \o r)[i] = r[i - Len(s)]
<1>1. /\ s \o r \in Seq(S) /\ Len(s \o r) = Len(s) + Len(r)
      /\ \A i \in 1 .. (Len(s) + Len(r)) :
            (s \o r)[i] = IF i <= Len(s) THEN s[i] ELSE r[i - Len(s)]
  BY ConcatProperties
<1> QED BY <1>1

\* Where a task may be, before and after a step.
LEMMA Holder ==
    ASSUME NEW x, NEW t
    PROVE  /\ x = ReadyQueue => (Holds(x, t) <=> \E i \in DOMAIN ready : ready[i] = t)
           /\ x = BackoffQueue => (Holds(x, t) <=> \E i \in DOMAIN backoff : backoff[i] = t)
           /\ x = Channel => (Holds(x, t) <=> \E i \in DOMAIN inbox : inbox[i].task = t)
           /\ x \in Process => (Holds(x, t) <=> On(x, t) /\ Engaged(plan[x]))
           /\ x = ReadyQueue => (Holds(x, t)' <=> \E i \in DOMAIN ready' : ready'[i] = t)
           /\ x = BackoffQueue => (Holds(x, t)' <=> \E i \in DOMAIN backoff' : backoff'[i] = t)
           /\ x = Channel => (Holds(x, t)' <=> \E i \in DOMAIN inbox' : inbox'[i].task = t)
           /\ x \in Process => (Holds(x, t)' <=> On(x, t)' /\ Engaged(plan'[x]))
           /\ x \in Place => x \in Process \cup {ReadyQueue, BackoffQueue, Channel}
BY Processes DEF Holds, Place

\* What a process is on, from the head of its plan.
LEMMA IsOn ==
    ASSUME NEW q, NEW t
    PROVE  /\ On(q, t) <=> plan[q] # <<>> /\ Head(plan[q]).task = t
           /\ On(q, t)' <=> plan'[q] # <<>> /\ Head(plan'[q]).task = t
BY DEF On, Next1

\* What is not yet begun stays so as long as the file is not written.
LEMMA UntouchedKept ==
    ASSUME Untouched, snap' = snap,
           \A q \in Process :
              held'[q] = NoSnapshot \/ (held'[q] = held[q] /\ plan'[q] = plan[q]),
           \A x \in Place, t \in Task :
              Holds(x, t)' => Holds(x, t) \/ snap[t].status # "Pending" \/ x = User,
           \A q \in Process, t \in Task :
              On(q, t)' =>
                 \/ plan'[q] = plan[q] \/ snap[t].status # "Pending"
                 \/ q = User /\ Head(plan'[q]).do \in {"begin", "stop", "reopen", "archive"}
    PROVE  Untouched'
<1>1. ASSUME NEW t \in Task, snap'[t].status = "Pending"
      PROVE  /\ NoPaused(snap'[t])
             /\ \A x \in Place : Holds(x, t)' => x = User
             /\ \A q \in Process : On(q, t)' =>
                   q = User /\ Head(plan'[q]).do \in {"begin", "stop", "reopen", "archive"}
  <2>1. \A x \in Place : Holds(x, t)' => x = User
    BY <1>1 DEF Untouched
  <2>2. ASSUME NEW q \in Process, On(q, t)', plan'[q] = plan[q]
        PROVE  q = User /\ Head(plan'[q]).do \in {"begin", "stop", "reopen", "archive"}
    BY <1>1, <2>2, IsOn DEF Untouched, Next1
  <2> QED BY <1>1, <2>1, <2>2 DEF Untouched
<1>2. \A q \in Process : held'[q] # NoSnapshot /\ held'[q].status = "Pending" =>
          /\ q = User /\ Head(plan'[q]).do \in {"begin", "stop", "reopen", "archive"}
          /\ NoPaused(held'[q])
  BY DEF Untouched, Next1
<1>3. held'[User] # NoSnapshot /\ Head(plan'[User]).do = "begin" =>
          snap'[Head(plan'[User]).task] = held'[User]
  BY Processes DEF Untouched, Next1
<1> QED BY <1>1, <1>2, <1>3 DEF Untouched, Next1, NoPaused

\* A task that is handed on to one place.
LEMMA ExclusiveMoved ==
    ASSUME Exclusive, NEW T \in Task, NEW dst,
           \A x \in Place, t \in Task :
              Holds(x, t)' => (t # T /\ Holds(x, t)) \/ (t = T /\ x = dst)
    PROVE  Exclusive'
BY DEF Exclusive

\* Tasks stay in one place when no place gets a task.
LEMMA ExclusiveKept ==
    ASSUME Exclusive, \A x \in Place, t \in Task : Holds(x, t)' => Holds(x, t)
    PROVE  Exclusive'
BY DEF Exclusive

\* Directories stay booked when no script starts and no task gives its directory
\* back.
LEMMA BookedKept ==
    ASSUME Booked, running \subseteq running', \A j \in Job : plan[j] = <<>> => plan'[j] = <<>>
    PROVE  Booked'
BY DEF Booked, IsScript

\* No task is twice in a queue that does not change.
LEMMA OnceKept ==
    ASSUME Once, ready' = ready, backoff' = backoff, inbox' = inbox
    PROVE  Once'
BY DEF Once

\* A task is added to a queue that it is not in.
LEMMA AddedOnce ==
    ASSUME NEW s \in Seq(Task), \A i, k \in DOMAIN s : s[i] = s[k] => i = k,
           NEW t \in Task, \A i \in DOMAIN s : s[i] # t
    PROVE  \A i, k \in DOMAIN Append(s, t) : Append(s, t)[i] = Append(s, t)[k] => i = k
BY Appended

\* A task that a process holds is not in a queue or in another process.
LEMMA OnlyThere ==
    ASSUME Exclusive, NEW x \in Place, NEW t \in Task, Holds(x, t)
    PROVE  \A y \in Place : Holds(y, t) => y = x
BY DEF Exclusive

\* A place where nothing happens.
LEMMA PlaceKept ==
    ASSUME NEW x \in Place, x \in Process => plan'[x] = plan[x],
           x = ReadyQueue => ready' = ready, x = BackoffQueue => backoff' = backoff,
           x = Channel => inbox' = inbox
    PROVE  \A t : Holds(x, t)' <=> Holds(x, t)
BY Processes DEF Holds, On, Next1, Place

\* Processes and queues are places.
LEMMA ProcessIsPlace == \A q \in Process : q \in Place
BY DEF Place

\* Processes and queues are places.
LEMMA QueuesArePlaces == ReadyQueue \in Place /\ BackoffQueue \in Place /\ Channel \in Place
BY DEF Place

\* A message is the last thing that sends a task on.
LEMMA LastIsMessage ==
    ASSUME NEW q \in Process, NEW w, IsPlan(q, w), w # <<>>, Head(w).do \in Messages
    PROVE  /\ Engaged(w) /\ ~Engaged(Tail(w)) /\ q # QueueManager
           /\ Tail(w) # <<>> => Head(Tail(w)).do = "meter"
           /\ q = User => Tail(w) = <<>>
<1> PICK t \in Task, p \in Phase : t = Head(w).task /\ p = Head(w).phase
  BY PlanOf
<1>1. CASE q = QueueManager
  <2>1. w \in ManagerPlans(t, p)
    BY <1>1, PlanOf
  <2> QED BY <2>1, ManagerPlan DEF Messages
<1>2. CASE q = User
  <2>1. w \in UserPlans(t, p)
    BY <1>2, PlanOf
  <2>2. Engaged(w) /\ Tail(w) = <<>>
    BY <2>1, UserPlan DEF Messages
  <2> QED BY <1>2, <2>2, Nothing, Processes
<1>3. CASE q \in Job
  <2>1. w \in ScriptPlans(t, p) \/ w \in AgentPlans(t, p)
    BY <1>3, PlanOf
  <2>2. ~Engaged(<<Op("meter", t, p)>>) /\ Head(<<Op("meter", t, p)>>).do = "meter"
    BY Single DEF Op, Loose
  <2>3. w \in ScriptPlans(t, p) => Engaged(w) /\ Tail(w) = <<>>
    BY ScriptPlan DEF Messages
  <2>4. w \in AgentPlans(t, p) => Engaged(w) /\ Tail(w) \in {<<>>, <<Op("meter", t, p)>>}
    BY AgentPlan DEF Messages
  <2> QED BY <1>3, <2>1, <2>2, <2>3, <2>4, Nothing, Processes
<1> QED BY <1>1, <1>2, <1>3 DEF Process


\* A task goes from one place to another, or to none; nothing else changes hands.
Moves(T, src, dst) ==
    /\ T \in Task /\ src \in Place /\ Holds(src, T) /\ snap[T].status # "Pending"
    /\ \A x \in Place, t \in Task :
          Holds(x, t)' => \/ t = T /\ x = dst
                          \/ t # T /\ Holds(x, t) /\ (x \in Process => plan'[x] = plan[x])
    /\ \A q \in Process, t \in Task : On(q, t)' => plan'[q] = plan[q] \/ t = T

\* A task moves when it leaves one place, and only another gets it.
LEMMA MovesIf ==
    ASSUME HandedOn, NEW T \in Task, NEW src \in Place, NEW dst, Holds(src, T),
           snap[T].status # "Pending",
           \A q \in Process : q # src /\ q # dst => plan'[q] = plan[q],
           \A q \in Process, t \in Task : (q = src \/ q = dst) /\ On(q, t)' => t = T,
           \A x \in Place, t \in Task : x # src /\ x # dst /\ Holds(x, t)' => Holds(x, t),
           \A t \in Task : src # dst /\ Holds(src, t)' => t # T /\ Holds(src, t),
           \A t \in Task : Holds(dst, t)' => t = T \/ Holds(dst, t)
    PROVE  Moves(T, src, dst)
<1>1. \A q \in Process, t \in Task : Holds(q, t)' => On(q, t)'
  BY Holder
<1>2. ASSUME NEW x \in Place, NEW t \in Task, Holds(x, t)', ~(t = T /\ x = dst)
      PROVE  t # T /\ Holds(x, t) /\ (x \in Process => plan'[x] = plan[x])
  <2>1. CASE x = dst
    BY <1>1, <1>2, <2>1
  <2>2. CASE x = src /\ src # dst
    BY <1>1, <1>2, <2>2
  <2>3. CASE x # src /\ x # dst
    BY <1>2, <2>3, OnlyThere DEF HandedOn
  <2> QED BY <2>1, <2>2, <2>3
<1> QED BY <1>2 DEF Moves

\* A move of a task keeps HandedOn.
LEMMA HandOn ==
    ASSUME HandedOn, snap' = snap, NEW T, NEW src, NEW dst, Moves(T, src, dst),
           \A q \in Process :
              held'[q] = NoSnapshot \/ (held'[q] = held[q] /\ plan'[q] = plan[q]),
           Once', Booked'
    PROVE  HandedOn'
<1>1. Exclusive'
  BY DEF Moves, HandedOn, Exclusive
<1>2. /\ \A x \in Place, t \in Task : Holds(x, t)' => Holds(x, t) \/ snap[t].status # "Pending"
      /\ \A q \in Process, t \in Task : On(q, t)' => plan'[q] = plan[q] \/ snap[t].status # "Pending"
  BY DEF Moves
<1>3. Untouched'
  BY <1>2, UntouchedKept DEF HandedOn
<1> QED BY <1>1, <1>3 DEF HandedOn

\* Nothing is handed on; a process may be done with a task.
LEMMA LetGo ==
    ASSUME HandedOn, snap' = snap,
           \A q \in Process :
              held'[q] = NoSnapshot \/ (held'[q] = held[q] /\ plan'[q] = plan[q]),
           \A x \in Place, t \in Task : Holds(x, t)' => Holds(x, t),
           \A q \in Process, t \in Task :
              On(q, t)' => plan'[q] = plan[q] \/ snap[t].status # "Pending",
           Once', Booked'
    PROVE  HandedOn'
<1>1. Exclusive'
  BY ExclusiveKept DEF HandedOn
<1>3. Untouched'
  BY UntouchedKept DEF HandedOn
<1> QED BY <1>1, <1>3 DEF HandedOn

\* What the queues hold when a task is put in them, or taken out.
LEMMA ReadyGets ==
    ASSUME WorkflowTypeOK, NEW T \in Task, ready' = Append(ready, T)
    PROVE  /\ \A t \in Task : Holds(ReadyQueue, t)' => t = T \/ Holds(ReadyQueue, t)
           /\ Once /\ ~Holds(ReadyQueue, T) =>
                 \A i, k \in DOMAIN ready' : ready'[i] = ready'[k] => i = k
<1>1. ready \in Seq(Task)
  BY DEF WorkflowTypeOK, StateOK
<1>2. \A t \in Task : Holds(ReadyQueue, t)' => t = T \/ Holds(ReadyQueue, t)
  BY <1>1, Appended, Holder
<1>3. Once /\ ~Holds(ReadyQueue, T) =>
         \A i, k \in DOMAIN ready' : ready'[i] = ready'[k] => i = k
  BY <1>1, Appended, Holder DEF Once
<1> QED BY <1>2, <1>3

\* What the queues hold when a task is put in them, or taken out.
LEMMA BackoffGets ==
    ASSUME WorkflowTypeOK, NEW T \in Task, backoff' = Append(backoff, T)
    PROVE  /\ \A t \in Task : Holds(BackoffQueue, t)' => t = T \/ Holds(BackoffQueue, t)
           /\ Once /\ ~Holds(BackoffQueue, T) =>
                 \A i, k \in DOMAIN backoff' : backoff'[i] = backoff'[k] => i = k
<1>1. backoff \in Seq(Task)
  BY DEF WorkflowTypeOK, StateOK
<1>2. \A t \in Task : Holds(BackoffQueue, t)' => t = T \/ Holds(BackoffQueue, t)
  BY <1>1, Appended, Holder
<1>3. Once /\ ~Holds(BackoffQueue, T) =>
         \A i, k \in DOMAIN backoff' : backoff'[i] = backoff'[k] => i = k
  BY <1>1, Appended, Holder DEF Once
<1> QED BY <1>2, <1>3

\* What the queues hold when a task is put in them, or taken out.
LEMMA ReadyGives ==
    ASSUME WorkflowTypeOK, Once, ready # <<>>, ready' = Tail(ready)
    PROVE  /\ Head(ready) \in Task /\ Holds(ReadyQueue, Head(ready))
           /\ \A t \in Task : Holds(ReadyQueue, t)' => t # Head(ready) /\ Holds(ReadyQueue, t)
           /\ \A i, k \in DOMAIN ready' : ready'[i] = ready'[k] => i = k
<1>1. /\ Head(ready) \in Task /\ 1 \in DOMAIN ready /\ ready[1] = Head(ready)
      /\ \A i \in DOMAIN ready' :
            i + 1 \in DOMAIN ready /\ ready'[i] = ready[i + 1] /\ i \in Nat /\ i + 1 # 1
  BY Taken DEF WorkflowTypeOK, StateOK
<1>2. Holds(ReadyQueue, Head(ready))
  BY <1>1, Holder
<1>3. ASSUME NEW t \in Task, Holds(ReadyQueue, t)'
      PROVE  t # Head(ready) /\ Holds(ReadyQueue, t)
  <2>1. PICK i \in DOMAIN ready' : ready'[i] = t
    BY <1>3, Holder
  <2>2. i + 1 \in DOMAIN ready /\ ready[i + 1] = t /\ i + 1 # 1
    BY <1>1, <2>1
  <2> QED BY <1>1, <2>2, Holder DEF Once
<1>4. ASSUME NEW i \in DOMAIN ready', NEW k \in DOMAIN ready', ready'[i] = ready'[k]
      PROVE  i = k
  <2>1. i + 1 = k + 1 /\ i \in Nat /\ k \in Nat
    BY <1>1, <1>4 DEF Once
  <2> QED BY <2>1
<1> QED BY <1>1, <1>2, <1>3, <1>4

\* What the queues hold when a task is put in them, or taken out.
LEMMA ChannelGives ==
    ASSUME WorkflowTypeOK, Once, inbox # <<>>, inbox' = Tail(inbox)
    PROVE  /\ Head(inbox) \in [do : Messages, task : Task, phase : Phase]
           /\ Holds(Channel, Head(inbox).task)
           /\ \A t \in Task : Holds(Channel, t)' => t # Head(inbox).task /\ Holds(Channel, t)
           /\ \A i, k \in DOMAIN inbox' : inbox'[i].task = inbox'[k].task => i = k
<1>1. /\ Head(inbox) \in [do : Messages, task : Task, phase : Phase]
      /\ 1 \in DOMAIN inbox /\ inbox[1] = Head(inbox)
      /\ \A i \in DOMAIN inbox' :
            i + 1 \in DOMAIN inbox /\ inbox'[i] = inbox[i + 1] /\ i \in Nat /\ i + 1 # 1
  BY Taken DEF WorkflowTypeOK, StateOK
<1>2. Holds(Channel, Head(inbox).task)
  BY <1>1, Holder
<1>3. ASSUME NEW t \in Task, Holds(Channel, t)'
      PROVE  t # Head(inbox).task /\ Holds(Channel, t)
  <2>1. PICK i \in DOMAIN inbox' : inbox'[i].task = t
    BY <1>3, Holder
  <2>2. i + 1 \in DOMAIN inbox /\ inbox[i + 1].task = t /\ i + 1 # 1
    BY <1>1, <2>1
  <2> QED BY <1>1, <2>2, Holder DEF Once
<1>4. ASSUME NEW i \in DOMAIN inbox', NEW k \in DOMAIN inbox', inbox'[i].task = inbox'[k].task
      PROVE  i = k
  <2>1. i + 1 = k + 1 /\ i \in Nat /\ k \in Nat
    BY <1>1, <1>4 DEF Once
  <2> QED BY <2>1
<1> QED BY <1>1, <1>2, <1>3, <1>4

\* A script sends its task on.
LEMMA ScriptHolds ==
    ASSUME WorkflowTypeOK, NEW j \in Job, IsScript(j)
    PROVE  Holds(j, j[1]) /\ j \in Place /\ j[1] \in Task
<1>1. /\ j \in Process /\ plan[j] # <<>> /\ IsA("folder", j)
  BY Processes DEF IsScript, IsA
<1>2. /\ plan[j] \in ScriptPlans(Next1(j).task, Next1(j).phase) /\ Next1(j).task = j[1]
      /\ Next1(j).task \in Task
  BY <1>1, PlanIs
<1>3. Engaged(plan[j])
  BY <1>2, ScriptPlan
<1> QED BY <1>1, <1>2, <1>3, Holder, ProcessIsPlace DEF On

\* A message takes a task from its sender to the channel.
LEMMA TellMoves ==
    ASSUME WorkflowTypeOK, HandedOn, NEW q \in Process, Tell(q)
    PROVE  /\ Moves(Next1(q).task, q, Channel) /\ Once'
           /\ snap' = snap /\ held' = held /\ running' = running /\ held[q] = NoSnapshot
           /\ plan'[q] = Tail(plan[q]) /\ \A r \in Process \ {q} : plan'[r] = plan[r]
           /\ plan[q] # <<>> /\ Next1(q).do \in Messages /\ q # QueueManager
           /\ plan'[q] # <<>> => q # User /\ Head(plan'[q]).do = "meter"
           /\ \A i \in DOMAIN inbox' :
                 inbox'[i] = Next1(q) \/ \E k \in DOMAIN inbox : inbox'[i] = inbox[k]
<1> PICK m : m = Next1(q)
  OBVIOUS
<1> PICK T : T = m.task
  OBVIOUS
<1>1. /\ plan[q] # <<>> /\ m = Head(plan[q]) /\ T \in Task /\ m.do \in Messages
      /\ held[q] = NoSnapshot /\ snap' = snap /\ held' = held
      /\ ready' = ready /\ backoff' = backoff /\ running' = running
      /\ inbox' = Append(inbox, m)
  BY PlanIs, NothingHeld DEF Tell, queues, Messages, StoreOps, Next1
<1>2. plan'[q] = Tail(plan[q]) /\ \A r \in Process \ {q} : plan'[r] = plan[r]
  BY DEF Tell, WorkflowTypeOK, PlansOK
<1>3. /\ Engaged(plan[q]) /\ ~Engaged(plan'[q]) /\ q # QueueManager
      /\ plan'[q] # <<>> => q # User /\ Head(plan'[q]).do = "meter"
  BY <1>1, <1>2, LastIsMessage DEF WorkflowTypeOK, PlansOK
<1>4. ASSUME NEW t \in Task, On(q, t)' PROVE t = T
  <2>1. IsPlan(q, plan[q])
    BY DEF WorkflowTypeOK, PlansOK
  <2>2. Head(plan'[q]).task = t /\ plan'[q] # <<>>
    BY <1>4, IsOn
  <2> QED BY <1>1, <1>2, <2>1, <2>2, PlanTail
<1>5. On(q, T) /\ Holds(q, T) /\ q \in Place
  BY <1>1, <1>3, IsOn, Holder, ProcessIsPlace
<1>6. \A x \in Place : x # q => ~Holds(x, T)
  BY <1>1, <1>5, OnlyThere DEF HandedOn
<1>7. snap[T].status # "Pending"
  BY <1>1, <1>5 DEF HandedOn, Untouched, Next1, Messages
<1>8. inbox \in Seq([do : Messages, task : Task, phase : Phase])
      /\ m \in [do : Messages, task : Task, phase : Phase]
  BY <1>1, PlanIs DEF WorkflowTypeOK, StateOK, Op
<1>9. ASSUME NEW t \in Task, Holds(Channel, t)' PROVE t = T \/ Holds(Channel, t)
  <2>1. PICK i \in DOMAIN inbox' : inbox'[i].task = t
    BY <1>9, Holder
  <2>2. inbox'[i] = m \/ (i \in DOMAIN inbox /\ inbox'[i] = inbox[i])
    BY <1>1, <1>8, <2>1, Appended
  <2> QED BY <2>1, <2>2, Holder
<1>10. \A x \in Place, t \in Task : x # q /\ x # Channel /\ Holds(x, t)' => Holds(x, t)
  BY <1>1, <1>2, PlaceKept
<1>11. \A t \in Task : ~Holds(q, t)'
  BY <1>3, Holder
<1>12. Moves(T, q, Channel)
  BY <1>1, <1>2, <1>4, <1>5, <1>7, <1>9, <1>10, <1>11, MovesIf, Processes
<1>13. Once'
  <2>1. \A i \in DOMAIN inbox : inbox[i].task # m.task
    BY <1>6, Holder, QueuesArePlaces, Processes
  <2>2. \A i, k \in DOMAIN inbox' : inbox'[i].task = inbox'[k].task => i = k
    BY <1>1, <1>8, <2>1, Appended DEF HandedOn, Once
  <2> QED BY <1>1, <2>2 DEF HandedOn, Once
<1>14. \A i \in DOMAIN inbox' : inbox'[i] = m \/ \E k \in DOMAIN inbox : inbox'[i] = inbox[k]
  BY <1>1, <1>8, Appended
<1> QED BY <1>1, <1>2, <1>3, <1>12, <1>13, <1>14

\* HandedOn is kept when a message is sent.
LEMMA HandedOnTell ==
    ASSUME WorkflowTypeOK, HandedOn, NEW q \in Process, Tell(q)
    PROVE  HandedOn'
<1>1. /\ Moves(Next1(q).task, q, Channel) /\ Once' /\ snap' = snap /\ running' = running
      /\ \A r \in Process : held'[r] = NoSnapshot \/ (held'[r] = held[r] /\ plan'[r] = plan[r])
      /\ \A r \in Process : plan[r] = <<>> => plan'[r] = plan[r]
  BY TellMoves
<1>2. Booked'
  BY <1>1, BookedKept, Processes DEF HandedOn
<1> QED BY <1>1, <1>2, HandOn

\* What the manager does when it hears of a task.
LEMMA ReceiveMoves ==
    ASSUME WorkflowTypeOK, HandedOn, Receive
    PROVE  LET m == Head(inbox)
           IN  /\ m \in [do : Messages, task : Task, phase : Phase] /\ Holds(Channel, m.task)
               /\ snap' = snap /\ held' = held /\ held[QueueManager] = NoSnapshot
               /\ \A q \in Process : q # QueueManager => plan'[q] = plan[q]
               /\ \A i \in DOMAIN inbox' : \E k \in DOMAIN inbox : inbox'[i] = inbox[k]
               /\ \E k \in DOMAIN inbox : m = inbox[k]
               /\ Once' /\ Booked'
               /\ \/ m.do \in {"startTask", "phaseCompleted"} /\ plan' = plan
                     /\ Moves(m.task, Channel, ReadyQueue)
                  \/ /\ Moves(m.task, Channel, QueueManager)
                     /\ \/ m.do = "phaseFailed" /\ Head(plan'[QueueManager]).do = "giveUp"
                        \/ /\ m.do = "resumeTask"
                           /\ Head(plan'[QueueManager]).do \in {"unstop", "approve"}
<1> PICK m : m = Head(inbox)
  OBVIOUS
<1> PICK T : T = m.task
  OBVIOUS
<1>1. /\ inbox # <<>> /\ inbox' = Tail(inbox) /\ snap' = snap /\ held' = held /\ backoff' = backoff
      /\ plan[QueueManager] = <<>> /\ held[QueueManager] = NoSnapshot
      /\ ReceiveStart(m) \/ ReceiveCompleted(m) \/ ReceiveFailed(m) \/ ReceiveResume(m)
  BY NothingHeld, Processes DEF Receive, WorkflowTypeOK, PlansOK, ReceiveStart, ReceiveCompleted,
         ReceiveFailed, ReceiveResume
<1>2. /\ T \in Task /\ Holds(Channel, T) /\ m \in [do : Messages, task : Task, phase : Phase]
      /\ \A t \in Task : Holds(Channel, t)' => t # T /\ Holds(Channel, t)
      /\ \A i, k \in DOMAIN inbox' : inbox'[i].task = inbox'[k].task => i = k
  BY <1>1, ChannelGives DEF HandedOn
<1>3. /\ snap[T].status # "Pending"
      /\ \A x \in Place : x # Channel => ~Holds(x, T)
  BY <1>2, OnlyThere, QueuesArePlaces, Processes DEF HandedOn, Untouched
<1>4. /\ \A i \in DOMAIN inbox' : \E k \in DOMAIN inbox : inbox'[i] = inbox[k]
      /\ \E k \in DOMAIN inbox : m = inbox[k]
  BY <1>1, Taken DEF WorkflowTypeOK, StateOK
<1>5. ASSUME running \ {T} \subseteq running', \A j \in Job : plan'[j] = plan[j]
      PROVE  Booked'
  <2>1. \A j \in Job : IsScript(j) => j[1] # T
    BY <1>3, ScriptHolds, Processes, QueuesArePlaces
  <2>2. \A j \in Job : IsScript(j)' <=> IsScript(j)
    BY <1>5 DEF IsScript
  <2> QED BY <1>5, <2>1, <2>2 DEF HandedOn, Booked
<1>6. CASE ReceiveStart(m) \/ ReceiveCompleted(m)
  <2>1. /\ plan' = plan /\ ready' \in {ready, Append(ready, T)} /\ running \ {T} \subseteq running'
        /\ m.do \in {"startTask", "phaseCompleted"}
    BY <1>6 DEF ReceiveStart, ReceiveCompleted
  <2>2. \A t \in Task : Holds(ReadyQueue, t)' => t = T \/ Holds(ReadyQueue, t)
    BY <1>2, <2>1, ReadyGets, PlaceKept, QueuesArePlaces, Processes
  <2>3. \A x \in Place, t \in Task :
           x # Channel /\ x # ReadyQueue /\ Holds(x, t)' => Holds(x, t)
    BY <1>1, <2>1, PlaceKept
  <2>4. Moves(T, Channel, ReadyQueue)
    BY <1>2, <1>3, <2>1, <2>2, <2>3, MovesIf, QueuesArePlaces, Processes
  <2>5. Once'
    BY <1>1, <1>2, <1>3, <2>1, ReadyGets, QueuesArePlaces, Processes DEF HandedOn, Once
  <2>6. Booked'
    BY <1>5, <2>1
  <2> QED BY <1>1, <1>2, <1>4, <2>1, <2>4, <2>5, <2>6
<1>7. ASSUME NEW v, Todo(v), Head(v).task = T, ready' = ready, running \ {T} \subseteq running'
      PROVE  /\ Moves(T, Channel, QueueManager) /\ Once' /\ Booked'
             /\ plan'[QueueManager] = v
             /\ \A q \in Process : q # QueueManager => plan'[q] = plan[q]
  <2>1. plan'[QueueManager] = v /\ \A q \in Process : q # QueueManager => plan'[q] = plan[q]
    BY <1>7, Processes DEF Todo, WorkflowTypeOK, PlansOK
  <2>2. ASSUME NEW t \in Task, On(QueueManager, t)' PROVE t = T
    <3>1. Head(plan'[QueueManager]).task = t
      BY <2>2, IsOn
    <3> QED BY <1>7, <2>1, <3>1
  <2>3. \A x \in Place, t \in Task :
           x # Channel /\ x # QueueManager /\ Holds(x, t)' => Holds(x, t)
    BY <1>1, <1>7, <2>1, PlaceKept
  <2>4. \A t \in Task : Holds(QueueManager, t)' => t = T
    BY <2>2, Holder, Processes
  <2>5. Moves(T, Channel, QueueManager)
    BY <1>2, <1>3, <2>1, <2>2, <2>3, <2>4, MovesIf, QueuesArePlaces, Processes
  <2>6. Once'
    BY <1>1, <1>2, <1>7 DEF HandedOn, Once
  <2>7. Booked'
    BY <1>5, <1>7, <2>1, Processes
  <2> QED BY <2>1, <2>5, <2>6, <2>7
<1>8. CASE ReceiveFailed(m)
  <2>1. PICK v : v = <<Op("giveUp", m.task, m.phase)>>
    OBVIOUS
  <2>2. Head(v).task = T /\ Head(v).do = "giveUp"
    BY <2>1, Single DEF Op
  <2>3. Todo(v) /\ ready' = ready /\ running \ {T} \subseteq running' /\ m.do = "phaseFailed"
    BY <1>8, <2>1 DEF ReceiveFailed
  <2> QED BY <1>1, <1>2, <1>4, <1>7, <2>2, <2>3
<1>9. CASE ReceiveResume(m)
  <2>1. PICK v : /\ Todo(v)
                 /\ \/ v = <<Op("unstop", m.task, m.phase), Op("requeue", m.task, m.phase)>>
                    \/ v = <<Op("approve", m.task, m.phase), Op("clear", m.task, m.phase),
                             Op("requeue", m.task, m.phase)>>
    BY <1>9 DEF ReceiveResume
  <2>2. Head(v).task = T /\ Head(v).do \in {"unstop", "approve"}
    BY <2>1, Double, Triple DEF Op
  <2>3. ready' = ready /\ running \ {T} \subseteq running' /\ m.do = "resumeTask"
    BY <1>9 DEF ReceiveResume
  <2> QED BY <1>1, <1>2, <1>4, <1>7, <2>1, <2>2, <2>3
<1> QED BY <1>1, <1>6, <1>8, <1>9

\* HandedOn is kept when the manager takes a message.
LEMMA HandedOnReceive ==
    ASSUME WorkflowTypeOK, HandedOn, Receive
    PROVE  HandedOn'
<1>1. /\ Once' /\ Booked' /\ snap' = snap
      /\ \E dst : Moves(Head(inbox).task, Channel, dst)
      /\ \A r \in Process : held'[r] = NoSnapshot \/ (held'[r] = held[r] /\ plan'[r] = plan[r])
  BY ReceiveMoves
<1> QED BY <1>1, HandOn

\* HandedOn is kept when the heartbeat empties the backoff queue into the ready
\* queue.
LEMMA HandedOnHeartbeat ==
    ASSUME WorkflowTypeOK, HandedOn, Heartbeat
    PROVE  HandedOn'
<1>1. /\ ready' = ready \o backoff /\ backoff' = <<>> /\ inbox' = inbox /\ plan' = plan
      /\ held' = held /\ snap' = snap /\ running' = running
      /\ ready \in Seq(Task) /\ backoff \in Seq(Task)
  BY DEF Heartbeat, WorkflowTypeOK, StateOK
<1>2. \A i \in DOMAIN ready' :
         \/ i \in DOMAIN ready /\ ready'[i] = ready[i]
         \/ /\ i \notin DOMAIN ready /\ i - Len(ready) \in DOMAIN backoff /\ i \in Nat
            /\ ready'[i] = backoff[i - Len(ready)]
  BY <1>1, Joined
<1>3. ASSUME NEW t \in Task, Holds(ReadyQueue, t)'
      PROVE  Holds(ReadyQueue, t) \/ Holds(BackoffQueue, t)
  BY <1>2, <1>3, Holder
<1>4. ASSUME NEW x \in Place, NEW t \in Task, Holds(x, t)'
      PROVE  Holds(x, t) \/ (x = ReadyQueue /\ Holds(BackoffQueue, t) /\ snap[t].status # "Pending")
  <2>1. x # BackoffQueue
    BY <1>1, <1>4, Holder
  <2>2. Holds(BackoffQueue, t) => snap[t].status # "Pending"
    BY QueuesArePlaces, Processes DEF HandedOn, Untouched
  <2>3. CASE x # ReadyQueue
    BY <1>1, <1>4, <2>1, <2>3, PlaceKept
  <2> QED BY <1>3, <1>4, <2>2, <2>3
<1>5. ASSUME NEW t \in Task, Holds(BackoffQueue, t)
      PROVE  ~Holds(BackoffQueue, t)' /\ \A x \in Place : x # BackoffQueue => ~Holds(x, t)
  <2>1. ~Holds(BackoffQueue, t)'
    BY <1>1, Holder
  <2> QED BY <1>5, <2>1, OnlyThere, QueuesArePlaces DEF HandedOn
<1>6. Exclusive'
  <2>1. ASSUME NEW t \in Task, NEW x \in Place, NEW y \in Place, Holds(x, t)', Holds(y, t)'
        PROVE  x = y
    BY <1>4, <1>5, <2>1 DEF HandedOn, Exclusive
  <2> QED BY <2>1 DEF Exclusive
<1>7. Untouched'
  BY <1>1, <1>4, UntouchedKept DEF HandedOn
<1>8. Once'
  <2>1. ASSUME NEW i \in DOMAIN ready', NEW k \in DOMAIN ready', ready'[i] = ready'[k]
        PROVE  i = k
    <3>1. CASE i \in DOMAIN ready /\ k \in DOMAIN ready
      BY <1>2, <2>1, <3>1 DEF HandedOn, Once
    <3>2. CASE i \notin DOMAIN ready /\ k \notin DOMAIN ready
      <4>1. i - Len(ready) = k - Len(ready) /\ i \in Nat /\ k \in Nat /\ Len(ready) \in Nat
        BY <1>1, <1>2, <2>1, <3>2 DEF HandedOn, Once
      <4> QED BY <4>1
    <3>3. ASSUME NEW a \in DOMAIN ready, NEW b \in DOMAIN backoff
          PROVE  ready[a] # backoff[b]
      <4>1. ready[a] \in Task /\ Holds(ReadyQueue, ready[a])
        BY <1>1, Holder
      <4>2. ready[a] = backoff[b] => Holds(BackoffQueue, ready[a])
        BY Holder
      <4> QED BY <1>5, <4>1, <4>2, QueuesArePlaces, Processes
    <3> QED BY <1>2, <2>1, <3>1, <3>2, <3>3
  <2>2. /\ \A i, k \in DOMAIN inbox' : inbox'[i].task = inbox'[k].task => i = k
        /\ DOMAIN backoff' = {}
    BY <1>1 DEF HandedOn, Once
  <2> QED BY <2>1, <2>2 DEF Once
<1>9. Booked'
  BY <1>1, BookedKept DEF HandedOn
<1> QED BY <1>6, <1>7, <1>8, <1>9 DEF HandedOn

\* The manager takes a task from the ready queue.
LEMMA PumpMoves ==
    ASSUME WorkflowTypeOK, HandedOn, Pump
    PROVE  LET T == Head(ready)
           IN  /\ Moves(T, ReadyQueue, QueueManager) /\ Once' /\ Booked'
               /\ snap' = snap /\ held' = held /\ inbox' = inbox /\ held[QueueManager] = NoSnapshot
               /\ \A q \in Process : q # QueueManager => plan'[q] = plan[q]
               /\ \/ NextPhase(snap[T]) = 0 /\ plan'[QueueManager] = <<Op("finish", T, 1)>>
                  \/ /\ NextPhase(snap[T]) # 0
                     /\ plan'[QueueManager] = <<Op("route", T, NextPhase(snap[T]))>>
<1> PICK T : T = Head(ready)
  OBVIOUS
<1>1. /\ ready # <<>> /\ ready' = Tail(ready) /\ inbox' = inbox /\ backoff' = backoff
      /\ running' = running /\ snap' = snap /\ held' = held
      /\ plan[QueueManager] = <<>> /\ held[QueueManager] = NoSnapshot
  BY NothingHeld, Processes DEF Pump, WorkflowTypeOK, PlansOK
<1>2. /\ T \in Task /\ Holds(ReadyQueue, T)
      /\ \A t \in Task : Holds(ReadyQueue, t)' => t # T /\ Holds(ReadyQueue, t)
      /\ \A i, k \in DOMAIN ready' : ready'[i] = ready'[k] => i = k
  BY <1>1, ReadyGives DEF HandedOn
<1>3. snap[T].status # "Pending"
  BY <1>2, QueuesArePlaces, Processes DEF HandedOn, Untouched
<1>4. PICK v : /\ Todo(v)
               /\ \/ NextPhase(snap[T]) = 0 /\ v = <<Op("finish", T, 1)>>
                  \/ NextPhase(snap[T]) # 0 /\ v = <<Op("route", T, NextPhase(snap[T]))>>
  BY DEF Pump
<1>5. plan'[QueueManager] = v /\ \A q \in Process : q # QueueManager => plan'[q] = plan[q]
  BY <1>4, Processes DEF Todo, WorkflowTypeOK, PlansOK
<1>6. ASSUME NEW t \in Task, On(QueueManager, t)' PROVE t = T
  <2>1. Head(v).task = T
    BY <1>4, Single DEF Op
  <2>2. Head(plan'[QueueManager]).task = t
    BY <1>6, IsOn
  <2> QED BY <1>5, <2>1, <2>2
<1>7. \A x \in Place, t \in Task :
         x # ReadyQueue /\ x # QueueManager /\ Holds(x, t)' => Holds(x, t)
  BY <1>1, <1>5, PlaceKept
<1>8. \A t \in Task : Holds(QueueManager, t)' => t = T
  BY <1>6, Holder, Processes
<1>9. Moves(T, ReadyQueue, QueueManager)
  BY <1>2, <1>3, <1>5, <1>6, <1>7, <1>8, MovesIf, QueuesArePlaces, Processes
<1>10. Once'
  BY <1>1, <1>2 DEF HandedOn, Once
<1>11. Booked'
  BY <1>1, <1>5, BookedKept, Processes DEF HandedOn
<1> QED BY <1>1, <1>4, <1>5, <1>9, <1>10, <1>11

\* HandedOn is kept by the pump.
LEMMA HandedOnPump ==
    ASSUME WorkflowTypeOK, HandedOn, Pump
    PROVE  HandedOn'
<1>1. /\ Once' /\ Booked' /\ snap' = snap /\ Moves(Head(ready), ReadyQueue, QueueManager)
      /\ \A r \in Process : held'[r] = NoSnapshot \/ (held'[r] = held[r] /\ plan'[r] = plan[r])
  BY PumpMoves
<1> QED BY <1>1, HandOn

\* HandedOn is kept when the manager comes to rest.
LEMMA HandedOnPause ==
    ASSUME HandedOn, PumpEnds \/ WorkEnds
    PROVE  HandedOn'
<1>1. /\ snap' = snap /\ held' = held /\ plan' = plan /\ ready' = ready /\ backoff' = backoff
      /\ inbox' = inbox /\ running' = running
  BY DEF PumpEnds, WorkEnds, queues
<1>2. Once' /\ Booked'
  BY <1>1, OnceKept, BookedKept DEF HandedOn
<1>3. \A x \in Place, t \in Task : Holds(x, t)' => Holds(x, t)
  BY <1>1, PlaceKept
<1> QED BY <1>1, <1>2, <1>3, LetGo

\* What the manager works on has begun, and nobody else sends it on.
LEMMA ManagerHolds ==
    ASSUME WorkflowTypeOK, HandedOn, plan[QueueManager] # <<>>
    PROVE  LET T == Next1(QueueManager).task
           IN  /\ T \in Task /\ snap[T].status # "Pending"
               /\ Holds(QueueManager, T) /\ On(QueueManager, T)
               /\ \A x \in Place : x # QueueManager => ~Holds(x, T)
<1> PICK T : T = Next1(QueueManager).task
  OBVIOUS
<1>1. T \in Task /\ plan[QueueManager] \in ManagerPlans(T, Next1(QueueManager).phase)
  BY ManagerDoing
<1>2. On(QueueManager, T) /\ Engaged(plan[QueueManager])
  BY <1>1, ManagerPlan DEF On
<1>3. Holds(QueueManager, T) /\ snap[T].status # "Pending"
  BY <1>1, <1>2, Holder, Processes DEF HandedOn, Untouched
<1> QED BY <1>1, <1>2, <1>3, OnlyThere, ProcessIsPlace, Processes DEF HandedOn

\* The manager passes the task it works on to a place that is not an execution.
LEMMA ManagerPasses ==
    ASSUME WorkflowTypeOK, HandedOn, plan[QueueManager] # <<>>, NEW T,
           T = Next1(QueueManager).task, NEW dst \in {QueueManager, ReadyQueue, BackoffQueue},
           NEW v, plan' = [plan EXCEPT ![QueueManager] = v], v = <<>> \/ Head(v).task = T,
           dst # QueueManager => v = <<>>,
           inbox' = inbox, running \subseteq running',
           ready' = IF dst = ReadyQueue THEN Append(ready, T) ELSE ready,
           backoff' = IF dst = BackoffQueue THEN Append(backoff, T) ELSE backoff
    PROVE  /\ Moves(T, QueueManager, dst) /\ Once' /\ Booked'
           /\ plan'[QueueManager] = v
           /\ \A q \in Process : q # QueueManager => plan'[q] = plan[q]
<1>1. /\ T \in Task /\ snap[T].status # "Pending" /\ Holds(QueueManager, T)
      /\ \A x \in Place : x # QueueManager => ~Holds(x, T)
  BY ManagerHolds, Processes
<1>2. plan'[QueueManager] = v /\ \A q \in Process : q # QueueManager => plan'[q] = plan[q]
  BY Processes DEF WorkflowTypeOK, PlansOK
<1>3. \A t \in Task : On(QueueManager, t)' => t = T /\ dst = QueueManager
  BY <1>2, IsOn
<1>4. /\ \A t \in Task : Holds(QueueManager, t)' => t = T /\ dst = QueueManager
      /\ \A t \in Task : Holds(ReadyQueue, t)' => Holds(ReadyQueue, t) \/ (t = T /\ dst = ReadyQueue)
      /\ \A t \in Task :
            Holds(BackoffQueue, t)' => Holds(BackoffQueue, t) \/ (t = T /\ dst = BackoffQueue)
  BY <1>1, <1>3, ReadyGets, BackoffGets, PlaceKept, QueuesArePlaces, Holder, Processes
<1>5. \A x \in Place, t \in Task :
         x \notin {QueueManager, ReadyQueue, BackoffQueue} /\ Holds(x, t)' => Holds(x, t)
  BY <1>2, PlaceKept
<1>6. /\ \A x \in Place, t \in Task : x # QueueManager /\ x # dst /\ Holds(x, t)' => Holds(x, t)
      /\ \A t \in Task : QueueManager # dst => ~Holds(QueueManager, t)'
      /\ \A t \in Task : Holds(dst, t)' => t = T \/ Holds(dst, t)
      /\ \A q \in Process, t \in Task : (q = QueueManager \/ q = dst) /\ On(q, t)' => t = T
  BY <1>3, <1>4, <1>5, Processes
<1>7. Moves(T, QueueManager, dst)
  BY <1>1, <1>2, <1>6, MovesIf, ProcessIsPlace, Processes
<1>8. Once'
  BY <1>1, ReadyGets, BackoffGets, QueuesArePlaces, Processes DEF HandedOn, Once
<1>9. Booked'
  BY <1>2, BookedKept, Processes DEF HandedOn
<1> QED BY <1>2, <1>7, <1>8, <1>9

\* The manager starts an execution of a phase of the task.
LEMMA ManagerStarts ==
    ASSUME WorkflowTypeOK, HandedOn, plan[QueueManager] # <<>>, NEW T,
           T = Next1(QueueManager).task,
           NEW j \in Job, plan[j] = <<>>,
           plan'[QueueManager] = <<>>, Head(plan'[j]).task = T,
           \A q \in Process : q # QueueManager /\ q # j => plan'[q] = plan[q],
           inbox' = inbox, ready' = ready, backoff' = backoff
    PROVE  Moves(T, QueueManager, j) /\ Once'
<1>1. /\ T \in Task /\ snap[T].status # "Pending" /\ Holds(QueueManager, T)
      /\ \A x \in Place : x # QueueManager => ~Holds(x, T)
  BY ManagerHolds, Processes
<1>2. j \in Process /\ j # QueueManager
  BY Processes
<1>3. /\ \A t \in Task : ~On(QueueManager, t)'
      /\ \A t \in Task : On(j, t)' => t = T
  <2>1. \A t \in Task : ~On(QueueManager, t)'
    BY IsOn
  <2>2. ASSUME NEW t \in Task, On(j, t)' PROVE t = T
    <3>1. Head(plan'[j]).task = t
      BY <2>2, IsOn
    <3> QED BY <3>1
  <2> QED BY <2>1, <2>2
<1>4. /\ \A t \in Task : ~Holds(QueueManager, t)'
      /\ \A t \in Task : Holds(j, t)' => t = T
  BY <1>2, <1>3, Holder, Processes
<1>5. \A x \in Place, t \in Task :
         x # QueueManager /\ x # j /\ Holds(x, t)' => Holds(x, t)
  BY <1>2, PlaceKept
<1>6. \A q \in Process, t \in Task : (q = QueueManager \/ q = j) /\ On(q, t)' => t = T
  BY <1>3
<1>7. Moves(T, QueueManager, j)
  BY <1>1, <1>2, <1>4, <1>5, <1>6, MovesIf, ProcessIsPlace, Processes
<1> QED BY <1>2, <1>7, OnceKept DEF HandedOn

\* Where a task goes that the manager routes, and what is done with it next.
LEMMA RouteMoves ==
    ASSUME WorkflowTypeOK, HandedOn,
           NEW t \in Task, NEW p \in Phase,
           RouteToPause(t, p) \/ RouteToScript(t, p) \/ RouteToAgent(t, p)
    PROVE  /\ plan[QueueManager] # <<>> /\ Next1(QueueManager) = Op("route", t, p)
           /\ snap' = snap /\ held' = held /\ inbox' = inbox /\ Once' /\ Booked'
           /\ \E dst \in Place :
                 /\ Moves(t, QueueManager, dst)
                 /\ dst \in Process \cup {BackoffQueue} /\ dst # User
                 /\ \A q \in Process :
                       /\ q = dst => Head(plan'[q]) \in {Op("start", t, p), Op("pause", t, p)}
                       /\ q # dst => plan'[q] = <<>> \/ plan'[q] = plan[q]
<1>1. /\ plan[QueueManager] # <<>> /\ Next1(QueueManager) = Op("route", t, p)
      /\ Next1(QueueManager).task = t
      /\ snap' = snap /\ held' = held /\ inbox' = inbox /\ ready' = ready
  BY DEF RouteToPause, RouteToScript, RouteToAgent, Routed, Doing, Op, StoreOps, queues
<1>2. ASSUME NEW v, Todo(v), Head(v) \in {Op("start", t, p), Op("pause", t, p)},
             backoff' = backoff, running \subseteq running'
      PROVE  /\ Moves(t, QueueManager, QueueManager) /\ Once' /\ Booked'
             /\ Head(plan'[QueueManager]) \in {Op("start", t, p), Op("pause", t, p)}
             /\ \A q \in Process : q # QueueManager => plan'[q] = plan[q]
  <2>1. plan' = [plan EXCEPT ![QueueManager] = v] /\ QueueManager # ReadyQueue
        /\ QueueManager # BackoffQueue /\ ReadyQueue # BackoffQueue /\ Head(v).task = t
    BY <1>2, Processes DEF Todo, Op
  <2>2. /\ Moves(t, QueueManager, QueueManager) /\ Once' /\ Booked' /\ plan'[QueueManager] = v
        /\ \A q \in Process : q # QueueManager => plan'[q] = plan[q]
    BY <1>1, <1>2, <2>1, ManagerPasses
  <2> QED BY <1>2, <2>2
<1>3. CASE RouteToPause(t, p)
  <2>1. PICK v : Todo(v) /\ Head(v) \in {Op("start", t, p), Op("pause", t, p)}
    <3>1. /\ Head(<<Op("start", t, p), Op("pause", t, p)>>) = Op("start", t, p)
          /\ Head(<<Op("pause", t, p)>>) = Op("pause", t, p)
      BY Single, Double
    <3> QED BY <1>3, <3>1 DEF RouteToPause
  <2>2. backoff' = backoff /\ running \subseteq running'
    BY <1>3 DEF RouteToPause, queues
  <2> QED BY <1>1, <1>2, <2>1, <2>2, Processes, ProcessIsPlace
<1>4. CASE RouteToAgent(t, p)
  <2>1. PICK v : Todo(v) /\ Head(v) \in {Op("start", t, p), Op("pause", t, p)}
    <3>1. Head(<<Op("start", t, p), Op("coldStart", t, p)>>) = Op("start", t, p)
      BY Double
    <3> QED BY <1>4, <3>1 DEF RouteToAgent
  <2>2. backoff' = backoff /\ running \subseteq running'
    BY <1>4 DEF RouteToAgent
  <2> QED BY <1>1, <1>2, <2>1, <2>2, Processes, ProcessIsPlace
<1>5. CASE RouteToScript(t, p) /\ DirectoryConflict(t)
  <2>1. PICK v : v = <<>> /\ plan' = [plan EXCEPT ![QueueManager] = v]
    BY <1>5 DEF RouteToScript, Todo
  <2>2. /\ backoff' = Append(backoff, t) /\ running \subseteq running'
        /\ ReadyQueue # BackoffQueue /\ BackoffQueue # QueueManager
    BY <1>5, Processes DEF RouteToScript
  <2>3. /\ Moves(t, QueueManager, BackoffQueue) /\ Once' /\ Booked' /\ plan'[QueueManager] = v
        /\ \A q \in Process : q # QueueManager => plan'[q] = plan[q]
    BY <1>1, <2>1, <2>2, ManagerPasses
  <2> QED BY <1>1, <2>1, <2>3, Processes, QueuesArePlaces
<1>6. CASE RouteToScript(t, p) /\ ~DirectoryConflict(t)
  <2> PICK j : j = IdleJob(t, p)
    OBVIOUS
  <2> PICK w : w = <<Op("start", t, p), Op("script", t, p)>>
    OBVIOUS
  <2>1. /\ j \in Job /\ j[1] = t /\ plan[j] = <<>> /\ backoff' = backoff
        /\ running' = running \cup {t}
        /\ plan' = [plan EXCEPT ![QueueManager] = <<>>, ![j] = w]
    BY <1>6, IdleJobIsIdle DEF RouteToScript
  <2>2. Head(w) = Op("start", t, p) /\ Head(w).task = t
    BY Double DEF Op
  <2>3. \A k \in Job : k # j => plan'[k] = plan[k]
    BY <2>1, Processes DEF WorkflowTypeOK, PlansOK
  <2>4. \A k \in Job : k # j /\ IsScript(k)' => IsScript(k)
    BY <2>3 DEF IsScript
  <2>5. \A u \in running : DirectoryOf[t] # NoDirectory => DirectoryOf[u] # DirectoryOf[t]
    BY <1>6 DEF DirectoryConflict
  <2>6. \A k \in Job : IsScript(k)' => k[1] \in running \cup {t}
    BY <2>1, <2>4 DEF HandedOn, Booked
  <2>7. ASSUME NEW k \in Job, NEW l \in Job, IsScript(k)', IsScript(l)', k[1] # l[1]
        PROVE  DirectoryOf[k[1]] # DirectoryOf[l[1]] \/ DirectoryOf[k[1]] = NoDirectory
    BY <2>1, <2>4, <2>5, <2>7 DEF HandedOn, Booked
  <2>8. Booked'
    BY <2>1, <2>6, <2>7 DEF Booked
  <2>9. /\ plan'[QueueManager] = <<>> /\ plan'[j] = w
        /\ \A q \in Process : q # QueueManager /\ q # j => plan'[q] = plan[q]
    BY <2>1, Processes DEF WorkflowTypeOK, PlansOK
  <2>10. Moves(t, QueueManager, j) /\ Once'
    BY <1>1, <2>1, <2>2, <2>9, ManagerStarts
  <2>11. j \in Process /\ j # User
    BY <2>1, Processes
  <2> QED BY <1>1, <2>2, <2>8, <2>9, <2>10, <2>11, ProcessIsPlace
<1> QED BY <1>3, <1>4, <1>5, <1>6

\* HandedOn is kept when the manager pauses a phase or starts its execution.
LEMMA HandedOnRoute ==
    ASSUME WorkflowTypeOK, HandedOn,
           NEW t \in Task, NEW p \in Phase,
           RouteToPause(t, p) \/ RouteToScript(t, p) \/ RouteToAgent(t, p)
    PROVE  HandedOn'
<1>1. /\ Once' /\ Booked' /\ snap' = snap /\ \E dst : Moves(t, QueueManager, dst)
      /\ \A q \in Process : held'[q] = NoSnapshot \/ held'[q] = held[q]
  BY RouteMoves
<1>2. \A q \in Process : held'[q] = NoSnapshot \/ plan'[q] = plan[q]
  <2>1. held' = held /\ plan[QueueManager] # <<>> /\ Next1(QueueManager).do \notin StoreOps
    BY RouteMoves DEF Op, StoreOps
  <2>2. \E j : held[j] = NoSnapshot /\ \A q \in Process : q # QueueManager /\ q # j => plan'[q] = plan[q]
    <3>1. CASE \E v : Todo(v)
      BY <2>1, <3>1, NothingHeld, Processes DEF Todo, WorkflowTypeOK, PlansOK
    <3>2. CASE RouteToScript(t, p) /\ ~DirectoryConflict(t)
      BY <3>2, IdleJobIsIdle DEF RouteToScript, WorkflowTypeOK, PlansOK
    <3> QED BY <3>1, <3>2 DEF RouteToPause, RouteToScript, RouteToAgent
  <2> QED BY <2>1, <2>2, NothingHeld, Processes
<1> QED BY <1>1, <1>2, HandOn

\* The manager hands the task over to an agent.
LEMMA ColdStartMoves ==
    ASSUME WorkflowTypeOK, HandedOn, ColdStart
    PROVE  \E T \in Task, p \in Phase, j \in Job :
              /\ Moves(T, QueueManager, j) /\ Once' /\ Booked'
              /\ Next1(QueueManager) = Op("coldStart", T, p) /\ plan[QueueManager] # <<>>
              /\ plan'[QueueManager] = <<>> /\ plan'[j] = <<Op("turn", T, p)>>
              /\ \A q \in Process : q # QueueManager /\ q # j => plan'[q] = plan[q]
              /\ snap' = snap /\ held' = held /\ inbox' = inbox
              /\ held[QueueManager] = NoSnapshot /\ held[j] = NoSnapshot
<1>1. PICK T \in Task, p \in Phase, j \in Job :
         /\ Next1(QueueManager) = Op("coldStart", T, p) /\ plan[QueueManager] # <<>>
         /\ TypeOf[p] = "prompt" /\ j[1] = T /\ j[2] = p /\ plan[j] = <<>>
         /\ plan' = [plan EXCEPT ![QueueManager] = <<>>, ![j] = <<Op("turn", T, p)>>]
  BY ColdStarts
<1> PICK w : w = <<Op("turn", T, p)>>
  OBVIOUS
<1>2. /\ snap' = snap /\ held' = held /\ inbox' = inbox /\ ready' = ready /\ backoff' = backoff
      /\ running' = running
  BY DEF ColdStart, queues
<1>3. Next1(QueueManager).task = T /\ Next1(QueueManager).do \notin StoreOps /\ Head(w).task = T
  BY <1>1, Single DEF Op, StoreOps
<1>4. \A k \in Job : k # j => plan'[k] = plan[k]
  BY <1>1, Processes DEF WorkflowTypeOK, PlansOK
<1>5. \A k \in Job : IsScript(k)' => IsScript(k)
  BY <1>1, <1>4 DEF IsScript
<1>6. Booked'
  BY <1>2, <1>5 DEF HandedOn, Booked
<1>7. held[QueueManager] = NoSnapshot /\ held[j] = NoSnapshot
  BY <1>1, <1>3, NothingHeld, Processes
<1>8. /\ plan'[QueueManager] = <<>> /\ plan'[j] = w
      /\ \A q \in Process : q # QueueManager /\ q # j => plan'[q] = plan[q]
  BY <1>1, Processes DEF WorkflowTypeOK, PlansOK
<1>9. Moves(T, QueueManager, j) /\ Once'
  BY <1>1, <1>2, <1>3, <1>8, ManagerStarts
<1> QED BY <1>1, <1>2, <1>6, <1>7, <1>8, <1>9

\* HandedOn is kept when the manager starts an agent.
LEMMA HandedOnColdStart ==
    ASSUME WorkflowTypeOK, HandedOn, ColdStart
    PROVE  HandedOn'
<1>1. /\ Once' /\ Booked' /\ snap' = snap /\ \E T, j : Moves(T, QueueManager, j)
      /\ \A q \in Process : held'[q] = NoSnapshot \/ (held'[q] = held[q] /\ plan'[q] = plan[q])
  BY ColdStartMoves
<1> QED BY <1>1, HandOn

\* The manager puts the task back.
LEMMA RequeueMoves ==
    ASSUME WorkflowTypeOK, HandedOn, Requeue
    PROVE  LET T == Next1(QueueManager).task
           IN  /\ Moves(T, QueueManager, ReadyQueue) /\ Once' /\ Booked'
               /\ plan[QueueManager] # <<>> /\ Next1(QueueManager).do = "requeue"
               /\ plan'[QueueManager] = <<>>
               /\ \A q \in Process : q # QueueManager => plan'[q] = plan[q]
               /\ snap' = snap /\ held' = held /\ inbox' = inbox
               /\ held[QueueManager] = NoSnapshot
<1> PICK T : T = Next1(QueueManager).task
  OBVIOUS
<1>1. /\ plan[QueueManager] # <<>> /\ Next1(QueueManager).do = "requeue"
      /\ snap' = snap /\ held' = held /\ inbox' = inbox /\ backoff' = backoff
      /\ running' = running /\ ready' = Append(ready, T)
      /\ plan' = [plan EXCEPT ![QueueManager] = Tail(@)]
  BY DEF Requeue, Doing
<1>2. Tail(plan[QueueManager]) = <<>>
  BY <1>1, ManagerDoing, ManagerPlan DEF Next1
<1>3. PICK v : v = <<>> /\ plan' = [plan EXCEPT ![QueueManager] = v]
  BY <1>1, <1>2
<1>4. ReadyQueue # BackoffQueue /\ ReadyQueue # QueueManager
  BY Processes
<1>5. /\ Moves(T, QueueManager, ReadyQueue) /\ Once' /\ Booked' /\ plan'[QueueManager] = v
      /\ \A q \in Process : q # QueueManager => plan'[q] = plan[q]
  BY <1>1, <1>3, <1>4, ManagerPasses
<1>6. held[QueueManager] = NoSnapshot
  BY <1>1, NothingHeld, Processes DEF StoreOps
<1> QED BY <1>1, <1>3, <1>5, <1>6

\* HandedOn is kept when the manager queues a resumed task again.
LEMMA HandedOnRequeue ==
    ASSUME WorkflowTypeOK, HandedOn, Requeue
    PROVE  HandedOn'
<1>1. /\ Once' /\ Booked' /\ snap' = snap /\ \E T : Moves(T, QueueManager, ReadyQueue)
      /\ \A q \in Process : held'[q] = NoSnapshot \/ (held'[q] = held[q] /\ plan'[q] = plan[q])
  BY RequeueMoves
<1> QED BY <1>1, HandOn

\* The end of an execution, for the plan it leaves.
LEMMA ExecutionEnds ==
    ASSUME WorkflowTypeOK, NEW t \in Task, NEW p \in Phase, NEW n \in Slots, NEW j,
           j = <<t, p, n>>, ScriptEnds(t, p, n) \/ TurnEnds(t, p, n)
    PROVE  /\ j \in Job /\ j[1] = t /\ j[2] = p /\ plan[j] # <<>> /\ held[j] = NoSnapshot
           /\ Next1(j).task = t /\ Next1(j).phase = p
           /\ ScriptEnds(t, p, n) => Next1(j).do = "script" /\ IsA("folder", j)
           /\ TurnEnds(t, p, n) => Next1(j).do = "turn" /\ IsA("prompt", j)
           /\ Engaged(plan[j])
           /\ \E v : /\ plan' = [plan EXCEPT ![j] = v]
                     /\ ScriptEnds(t, p, n) => v \in ScriptPlans(t, p)
                     /\ TurnEnds(t, p, n) => v = <<>> \/ v \in AgentPlans(t, p)
                     /\ \/ v = <<>>
                        \/ /\ Head(v).task = t /\ Head(v).phase = p
                           /\ Head(v).do \in {"meter", "complete", "skip", "fail"}
<1>1. /\ j \in Job /\ j[1] = t /\ j[2] = p /\ j \in Process /\ plan[j] # <<>>
      /\ ScriptEnds(t, p, n) => Next1(j).do = "script"
      /\ TurnEnds(t, p, n) => Next1(j).do = "turn"
  BY Processes DEF Job, ScriptEnds, TurnEnds, Doing
<1>2. /\ held[j] = NoSnapshot /\ Next1(j).task = t /\ Next1(j).phase = p
      /\ ScriptEnds(t, p, n) => IsA("folder", j)
      /\ TurnEnds(t, p, n) => IsA("prompt", j)
  BY <1>1, NothingHeld, PlanIs, Processes DEF StoreOps
<1>3. Engaged(plan[j])
  <2>1. plan[j] \in ScriptPlans(t, p) \/ (plan[j] \in AgentPlans(t, p) /\ Next1(j).do # "meter")
    BY <1>1, <1>2, PlanIs
  <2> QED BY <2>1, ScriptPlan, AgentPlan DEF Next1
<1>4. CASE ScriptEnds(t, p, n)
  <2>1. PICK a, b, v : /\ plan' = [plan EXCEPT ![j] = v]
                       /\ \/ a = "complete" /\ b = "phaseCompleted"
                          \/ a = "fail" /\ b = "phaseFailed"
                       /\ v = IfMetered(t, p) \o <<Op(a, t, p), Op(b, t, p)>>
    BY <1>4 DEF ScriptEnds
  <2>2. /\ v \in ScriptPlans(t, p)
        /\ \/ v = <<Op(a, t, p), Op(b, t, p)>>
           \/ v = <<Op("meter", t, p), Op(a, t, p), Op(b, t, p)>>
    BY <2>1, ScriptEndings
  <2>3. Head(v) = Op(Head(v).do, t, p)
    BY <2>2, ScriptPlan
  <2>4. Head(v).task = t /\ Head(v).phase = p /\ Head(v).do \in {"meter", "complete", "fail"}
    <3>1. Head(v) \in {Op(a, t, p), Op("meter", t, p)}
      BY <2>2, Double, Triple
    <3> QED BY <2>1, <3>1 DEF Op
  <2>5. ~TurnEnds(t, p, n)
    BY <1>1, <1>4
  <2> QED BY <1>1, <1>2, <1>3, <1>4, <2>1, <2>2, <2>4, <2>5
<1>5. CASE TurnEnds(t, p, n)
  <2>1. PICK v : /\ plan' = [plan EXCEPT ![j] = v]
                 /\ \/ v = IfMetered(t, p)
                    \/ \E do \in {"complete", "skip"} :
                          v = <<Op(do, t, p), Op("phaseCompleted", t, p)>> \o IfMetered(t, p)
    BY <1>5 DEF TurnEnds
  <2>2. \/ v = <<>>
        \/ v \in AgentPlans(t, p) /\ Head(v).do \in {"meter", "complete", "skip"}
    BY <2>1, TurnEndings
  <2>3. v = <<>> \/ Head(v) = Op(Head(v).do, t, p)
    BY <2>2, AgentPlan
  <2>4. v = <<>> \/ (Head(v).task = t /\ Head(v).phase = p)
    BY <2>3 DEF Op
  <2>5. ~ScriptEnds(t, p, n)
    BY <1>1, <1>5
  <2> QED BY <1>1, <1>2, <1>3, <1>5, <2>1, <2>2, <2>4, <2>5
<1> QED BY <1>4, <1>5

\* An execution that ends a script or a turn keeps its task, or is done with it.
LEMMA ExecutionMoves ==
    ASSUME WorkflowTypeOK, HandedOn, NEW t \in Task, NEW p \in Phase, NEW n \in Slots,
           ScriptEnds(t, p, n) \/ TurnEnds(t, p, n), NEW j, j = <<t, p, n>>
    PROVE  /\ Moves(t, j, j) /\ Once' /\ Booked'
           /\ snap' = snap /\ held' = held /\ inbox' = inbox /\ held[j] = NoSnapshot
           /\ \A q \in Process : q # j => plan'[q] = plan[q]
<1>1. /\ j \in Job /\ j[1] = t /\ plan[j] # <<>> /\ held[j] = NoSnapshot /\ j \in Process
      /\ Next1(j).task = t /\ Next1(j).do \in {"script", "turn"} /\ Engaged(plan[j])
  BY ExecutionEnds, Processes
<1>2. PICK v : plan' = [plan EXCEPT ![j] = v] /\ (v = <<>> \/ Head(v).task = t)
  BY ExecutionEnds
<1>3. plan'[j] = v /\ \A q \in Process : q # j => plan'[q] = plan[q]
  BY <1>1, <1>2 DEF WorkflowTypeOK, PlansOK
<1>4. /\ snap' = snap /\ held' = held /\ inbox' = inbox /\ ready' = ready /\ backoff' = backoff
      /\ running' = running
  BY DEF ScriptEnds, TurnEnds, queues
<1>5. On(j, t) /\ Holds(j, t) /\ j \in Place /\ j # User
  BY <1>1, Holder, ProcessIsPlace, Processes DEF On
<1>6. snap[t].status # "Pending"
  BY <1>1, <1>5 DEF HandedOn, Untouched
<1>7. ASSUME NEW u \in Task, On(j, u)' PROVE u = t
  <2>1. Head(plan'[j]).task = u /\ plan'[j] # <<>>
    BY <1>7, IsOn
  <2> QED BY <1>2, <1>3, <2>1
<1>8. \A x \in Place, u \in Task : x # j /\ Holds(x, u)' => Holds(x, u)
  BY <1>3, <1>4, PlaceKept
<1>9. \A u \in Task : Holds(j, u)' => u = t
  BY <1>1, <1>7, Holder
<1>10. Moves(t, j, j)
  BY <1>3, <1>5, <1>6, <1>7, <1>8, <1>9, MovesIf
<1>11. Booked'
  BY <1>1, <1>3, <1>4, BookedKept, Processes DEF HandedOn
<1>12. Once'
  BY <1>4, OnceKept DEF HandedOn
<1> QED BY <1>1, <1>3, <1>4, <1>10, <1>11, <1>12

\* HandedOn is kept when an execution ends.
LEMMA HandedOnExecution ==
    ASSUME WorkflowTypeOK, HandedOn, NEW t \in Task, NEW p \in Phase, NEW n \in Slots,
           ScriptEnds(t, p, n) \/ TurnEnds(t, p, n)
    PROVE  HandedOn'
<1> PICK j : j = <<t, p, n>>
  OBVIOUS
<1>1. /\ Once' /\ Booked' /\ snap' = snap /\ Moves(t, j, j)
      /\ \A q \in Process : held'[q] = NoSnapshot \/ (held'[q] = held[q] /\ plan'[q] = plan[q])
  BY ExecutionMoves
<1> QED BY <1>1, HandOn

\* A refusal leaves a plan for the same task that sends it on only if it did before.
LEMMA RefusedPlan ==
    ASSUME WorkflowTypeOK, NEW q \in Process, plan[q] # <<>>, Next1(q).do \in StoreOps,
           NEW s \in Snapshot, ~Accepts(Next1(q), s),
           NEW v, v = AfterRefusal(q, Next1(q), s)
    PROVE  /\ v # <<>> => Head(v).task = Next1(q).task /\ Head(v).phase = Next1(q).phase
           /\ Engaged(v) => Engaged(plan[q])
           /\ q = User => v = <<>>
<1> PICK T \in Task, p \in Phase :
       T = Next1(q).task /\ p = Next1(q).phase /\ IsPlan(q, plan[q]) /\ Next1(q) = Head(plan[q])
  BY PlanIs
<1>1. \/ IsA("folder", q) /\ Next1(q).do = "complete" /\ v = <<Op("phaseFailed", T, p)>>
      \/ /\ IsA("prompt", q) /\ Next1(q).do = "complete"
         /\ v = <<Op("fail", T, p), Op("turn", T, p)>> \/ v = <<Op("turn", T, p)>>
      \/ q = User /\ Next1(q).do \in {"complete", "begin", "reopen"} /\ v = <<>>
      \/ q # User /\ Next1(q).do \in {"meter", "finish", "clear", "unstop"} /\ v = Tail(plan[q])
  BY Refused
<1>2. CASE IsA("folder", q) /\ Next1(q).do = "complete" /\ v = <<Op("phaseFailed", T, p)>>
  <2>1. plan[q] \in ScriptPlans(T, p)
    BY <1>2, PlanIs
  <2>2. Engaged(plan[q])
    BY <2>1, ScriptPlan
  <2>3. Head(v) = Op("phaseFailed", T, p)
    BY <1>2, Single
  <2> QED BY <1>2, <2>2, <2>3, Processes DEF Op, IsA
<1>3. CASE /\ IsA("prompt", q) /\ Next1(q).do = "complete"
           /\ v = <<Op("fail", T, p), Op("turn", T, p)>> \/ v = <<Op("turn", T, p)>>
  <2>1. plan[q] \in AgentPlans(T, p)
    BY <1>3, PlanIs
  <2>2. Engaged(plan[q])
    BY <1>3, <2>1, AgentPlan
  <2>3. Head(v) = Op("fail", T, p) \/ Head(v) = Op("turn", T, p)
    BY <1>3, Single, Double
  <2> QED BY <1>3, <2>2, <2>3, Processes DEF Op, IsA
<1>4. CASE q = User /\ v = <<>>
  BY <1>4, Nothing
<1>5. CASE q # User /\ v = Tail(plan[q])
  BY <1>5, PlanTail
<1> QED BY <1>1, <1>2, <1>3, <1>4, <1>5

\* HandedOn is kept by a read: who is refused sends nothing on that it did not hold.
LEMMA HandedOnRead ==
    ASSUME WorkflowTypeOK, HandedOn, NEW q \in Process, Read(q)
    PROVE  HandedOn'
<1> PICK T \in Task : T = Next1(q).task /\ plan[q] # <<>> /\ Next1(q).do \in StoreOps
  BY PlanIs DEF Read
<1>1. /\ snap' = snap /\ inbox' = inbox /\ ready' = ready /\ backoff' = backoff
      /\ running' = running /\ held[q] = NoSnapshot /\ snap[T] \in Snapshot
  BY DEF Read, queues, WorkflowTypeOK, StateOK
<1>2. On(q, T) /\ (snap[T].status = "Pending" =>
                      /\ q = User /\ Next1(q).do \in {"begin", "stop", "reopen", "archive"}
                      /\ NoPaused(snap[T]))
  BY DEF On, HandedOn, Untouched
<1>3. Once'
  BY <1>1, OnceKept DEF HandedOn
<1>4. CASE held' = [held EXCEPT ![q] = snap[T]] /\ UNCHANGED plan
  <2>1. \A r \in Process : held'[r] = held[r] \/ (r = q /\ held'[r] = snap[T])
    BY <1>4 DEF WorkflowTypeOK, HeldOK
  <2>2. /\ \A x \in Place : \A t : Holds(x, t)' <=> Holds(x, t)
        /\ \A r, t : On(r, t)' <=> On(r, t)
    BY <1>1, <1>4, PlaceKept DEF On, Next1
  <2>3. Exclusive' /\ Booked'
    BY <1>1, <1>4, <2>2, BookedKept, ExclusiveKept DEF HandedOn
  <2>4. \A r : Next1(r)' = Next1(r)
    BY <1>4 DEF Next1
  <2>5. \A r \in Process : held'[r] # NoSnapshot /\ held'[r].status = "Pending" =>
           /\ r = User /\ Next1(r).do \in {"begin", "stop", "reopen", "archive"}
           /\ NoPaused(held'[r])
    BY <1>2, <2>1 DEF HandedOn, Untouched
  <2>6. held'[User] # NoSnapshot /\ Next1(User).do = "begin" =>
           snap[Next1(User).task] = held'[User]
    BY <2>1, Processes DEF HandedOn, Untouched
  <2>7. Untouched'
    BY <1>1, <2>2, <2>4, <2>5, <2>6 DEF HandedOn, Untouched, NoPaused
  <2> QED BY <1>3, <2>3, <2>7 DEF HandedOn
<1>5. CASE /\ ~Accepts(Next1(q), snap[T]) /\ UNCHANGED held
           /\ plan' = [plan EXCEPT ![q] = AfterRefusal(q, Next1(q), snap[T])]
  <2> PICK v : v = AfterRefusal(q, Next1(q), snap[T])
    OBVIOUS
  <2>1. /\ v # <<>> => Head(v).task = T
        /\ Engaged(v) => Engaged(plan[q])
        /\ q = User => v = <<>>
    BY <1>1, <1>5, RefusedPlan
  <2>2. plan'[q] = v /\ \A r \in Process : r # q => plan'[r] = plan[r]
    BY <1>5 DEF WorkflowTypeOK, PlansOK
  <2>3. ASSUME NEW t \in Task, On(q, t)' PROVE t = T /\ q # User
    <3>1. Head(plan'[q]).task = t /\ plan'[q] # <<>>
      BY <2>3, IsOn
    <3> QED BY <2>1, <2>2, <3>1
  <2>4. \A x \in Place, t \in Task : Holds(x, t)' => Holds(x, t)
    <3>1. \A x \in Place, t \in Task : x # q /\ Holds(x, t)' => Holds(x, t)
      BY <1>1, <2>2, PlaceKept
    <3>2. \A t \in Task : Holds(q, t)' => Holds(q, t)
      BY <1>2, <2>1, <2>2, <2>3, Holder
    <3> QED BY <3>1, <3>2
  <2>5. Booked'
    <3>1. \A j \in Job : plan[j] = <<>> => plan'[j] = <<>>
      BY <2>2, Processes
    <3> QED BY <1>1, <3>1, BookedKept DEF HandedOn
  <2>6. /\ \A r \in Process, t \in Task :
              On(r, t)' => plan'[r] = plan[r] \/ snap[t].status # "Pending"
        /\ \A r \in Process : held'[r] = NoSnapshot \/ (held'[r] = held[r] /\ plan'[r] = plan[r])
    BY <1>1, <1>2, <1>5, <2>2, <2>3
  <2> QED BY <1>1, <1>3, <2>4, <2>5, <2>6, LetGo
<1> QED BY <1>4, <1>5 DEF Read

\* What is written is what was read, with what the operation does.
LEMMA Writes ==
    ASSUME WorkflowTypeOK, NEW q \in Process, Write(q)
    PROVE  LET op == Next1(q)
           IN  /\ plan[q] # <<>> /\ op.do \in StoreOps /\ op.task \in Task /\ op.phase \in Phase
               /\ held[q] \in Snapshot /\ Accepts(op, held[q]) /\ held[q] # NoSnapshot
               /\ snap'[op.task] = Applied(op, held[q])
               /\ \A t \in Task : t # op.task => snap'[t] = snap[t]
               /\ held'[q] = NoSnapshot /\ \A r \in Process : r # q => held'[r] = held[r]
               /\ plan'[q] = Tail(plan[q]) /\ \A r \in Process : r # q => plan'[r] = plan[r]
               /\ inbox' = inbox /\ ready' = ready /\ backoff' = backoff
               /\ running' = running /\ pc' = pc /\ mishaps' = mishaps /\ outputs' = outputs
<1>1. /\ plan[q] # <<>> /\ Next1(q).do \in StoreOps /\ held[q] \in Snapshot
      /\ Accepts(Next1(q), held[q]) /\ held[q] # NoSnapshot
  BY NoSnapshotIsNone DEF Write, WorkflowTypeOK, HeldOK
<1>2. Next1(q).task \in Task /\ Next1(q).phase \in Phase
  BY <1>1, PlanIs
<1>3. /\ snap'[Next1(q).task] = Applied(Next1(q), held[q])
      /\ \A t \in Task : t # Next1(q).task => snap'[t] = snap[t]
  BY <1>2 DEF Write, WorkflowTypeOK, StateOK
<1>4. /\ held'[q] = NoSnapshot /\ \A r \in Process : r # q => held'[r] = held[r]
      /\ plan'[q] = Tail(plan[q]) /\ \A r \in Process : r # q => plan'[r] = plan[r]
  BY DEF Write, WorkflowTypeOK, PlansOK, HeldOK
<1> QED BY <1>1, <1>2, <1>3, <1>4 DEF Write, queues, user

\* The status that an operation writes.
LEMMA StatusWritten ==
    ASSUME NEW op, NEW s \in Snapshot, op.phase \in Phase, op.do \in StoreOps
    PROVE  /\ op.do = "finish" => Applied(op, s).status = "Completed"
           /\ op.do = "giveUp" => Applied(op, s).status = "Failed"
           /\ op.do \in {"begin", "unstop"} => Applied(op, s).status = "Running"
           /\ op.do = "archive" => Applied(op, s).status = "Archived"
           /\ op.do = "stop" => Applied(op, s).status = "Stopped"
           /\ op.do = "reopen" => Applied(op, s).status = "Pending"
           /\ op.do \notin {"finish", "giveUp", "begin", "unstop", "archive", "stop", "reopen"}
                 => Applied(op, s).status = s.status
<1>1. \/ op.do \in {"start", "pause", "complete", "skip", "fail"}
      \/ op.do \in {"meter", "finish", "giveUp", "begin", "archive"}
      \/ op.do \in {"approve", "clear"}
      \/ op.do \in {"unstop", "stop", "reopen"}
  BY DEF StoreOps
<1> QED BY <1>1, AppliedToPhase, AppliedToStatus, AppliedToPhases, AppliedToBoth

\* HandedOn is kept by a write; a reopened task must be alone.
LEMMA HandedOnWrite ==
    ASSUME WorkflowTypeOK, HandedOn, NEW q \in Process, Write(q),
           Next1(q).do = "reopen" =>
              /\ q = User /\ plan'[q] = <<>> /\ NoPaused(held[q]) /\ Alone(Next1(q).task)
    PROVE  HandedOn'
<1> PICK T \in Task : T = Next1(q).task
  BY Writes
<1>1. /\ plan[q] # <<>> /\ held[q] \in Snapshot /\ held[q] # NoSnapshot
      /\ Next1(q).do \in StoreOps /\ Next1(q).phase \in Phase /\ IsPlan(q, plan[q])
      /\ snap'[T] = Applied(Next1(q), held[q]) /\ \A t \in Task : t # T => snap'[t] = snap[t]
      /\ held'[q] = NoSnapshot /\ \A r \in Process : r # q => held'[r] = held[r]
      /\ plan'[q] = Tail(plan[q]) /\ \A r \in Process : r # q => plan'[r] = plan[r]
      /\ inbox' = inbox /\ ready' = ready /\ backoff' = backoff /\ running' = running
  BY Writes, PlanIs
<1>2. ASSUME NEW t \in Task, On(q, t)' PROVE On(q, t) /\ t = T
  <2>1. Head(plan'[q]).task = t /\ plan'[q] # <<>>
    BY <1>2, IsOn
  <2>2. Head(Tail(plan[q])).task = t /\ Tail(plan[q]) # <<>>
    BY <1>1, <2>1
  <2>3. t = Next1(q).task
    BY <1>1, <2>2, PlanTail DEF Next1
  <2> QED BY <1>1, <2>3 DEF On
<1>3. \A r \in Process : r # q => \A t \in Task : On(r, t)' <=> On(r, t)
  BY <1>1 DEF On, Next1
<1>4. \A x \in Place, t \in Task : Holds(x, t)' => Holds(x, t)
  <2>1. \A x \in Place, t \in Task : x # q /\ Holds(x, t)' => Holds(x, t)
    BY <1>1, PlaceKept
  <2>2. Engaged(plan'[q]) => Engaged(plan[q])
    BY <1>1, PlanTail
  <2>3. \A t \in Task : Holds(q, t)' => Holds(q, t)
    BY <1>2, <2>2, Holder
  <2> QED BY <2>1, <2>3
<1>5. Exclusive' /\ Once'
  BY <1>1, <1>4, ExclusiveKept, OnceKept DEF HandedOn
<1>6. Booked'
  <2>1. \A j \in Job : plan[j] = <<>> => plan'[j] = <<>>
    BY <1>1, Processes
  <2> QED BY <1>1, <2>1, BookedKept DEF HandedOn
<1>7. snap'[T].status = "Pending" =>
         /\ q = User /\ plan'[q] = <<>> /\ NoPaused(snap'[T]) /\ Alone(T)
  <2>1. CASE Next1(q).do = "reopen"
    <3>1. \A r \in Phase : snap'[T].phases[r] \in {"absent", held[q].phases[r]}
      BY <1>1, <2>1, AppliedToBoth
    <3> QED BY <2>1, <3>1 DEF NoPaused
  <2>2. CASE Next1(q).do # "reopen"
    <3>1. SUFFICES ASSUME snap'[T].status = "Pending" PROVE FALSE
      OBVIOUS
    <3>2. /\ held[q].status = "Pending"
          /\ Next1(q).do \notin {"finish", "giveUp", "begin", "unstop", "archive", "stop"}
      BY <1>1, <2>2, <3>1, StatusWritten
    <3> QED BY <1>1, <2>2, <3>2 DEF HandedOn, Untouched
  <2> QED BY <2>1, <2>2
<1>8. ASSUME NEW t \in Task, snap'[t].status = "Pending"
      PROVE  /\ NoPaused(snap'[t])
             /\ \A x \in Place : Holds(x, t)' => x = User
             /\ \A r \in Process : On(r, t)' =>
                   r = User /\ Head(plan'[r]).do \in {"begin", "stop", "reopen", "archive"}
  <2>1. CASE t = T
    <3>1. \A r \in Process : On(r, T)' => r = User
      BY <1>2, <1>3, <1>7, <1>8, <2>1 DEF Alone
    <3>2. ~On(User, T)'
      BY <1>7, <1>8, <2>1, IsOn
    <3> QED BY <1>4, <1>7, <1>8, <2>1, <3>1, <3>2 DEF Alone
  <2>2. CASE t # T
    <3>1. snap[t].status = "Pending" /\ snap'[t] = snap[t]
      BY <1>1, <1>8, <2>2
    <3>2. ASSUME NEW r \in Process, On(r, t)'
          PROVE  r = User /\ Head(plan'[r]).do \in {"begin", "stop", "reopen", "archive"}
      <4>1. r # q
        BY <1>2, <2>2, <3>2
      <4>2. On(r, t) /\ plan'[r] = plan[r]
        BY <1>1, <1>3, <3>2, <4>1
      <4> QED BY <3>1, <4>2 DEF HandedOn, Untouched, Next1
    <3> QED BY <1>4, <3>1, <3>2 DEF HandedOn, Untouched
  <2> QED BY <2>1, <2>2
<1>9. \A r \in Process : held'[r] # NoSnapshot /\ held'[r].status = "Pending" =>
          /\ r = User /\ Head(plan'[r]).do \in {"begin", "stop", "reopen", "archive"}
          /\ NoPaused(held'[r])
  BY <1>1 DEF HandedOn, Untouched, Next1
<1>10. ASSUME held'[User] # NoSnapshot, Head(plan'[User]).do = "begin"
       PROVE  snap'[Head(plan'[User]).task] = held'[User]
  <2>1. q # User /\ held'[User] = held[User] /\ plan'[User] = plan[User]
    BY <1>1, <1>10, Processes
  <2>2. /\ Next1(User) = Head(plan[User]) /\ snap[Next1(User).task] = held[User]
        /\ plan[User] # <<>> /\ Next1(User).task \in Task
        /\ held[User].status = "Pending"
    <3>1. /\ held[User] # NoSnapshot /\ Next1(User).do = "begin"
          /\ Next1(User) = Head(plan[User])
      BY <1>10, <2>1 DEF Next1
    <3>2. plan[User] # <<>> /\ Accepts(Next1(User), held[User])
      BY <3>1, Processes DEF WorkflowTypeOK, HeldOK
    <3>3. held[User].status = "Pending"
      BY <3>1, <3>2 DEF Accepts
    <3> QED BY <3>1, <3>2, <3>3, PlanIs, Processes DEF HandedOn, Untouched
  <2>3. Next1(User).task # T
    <3>1. On(q, T)
      BY <1>1 DEF On
    <3> QED BY <2>1, <2>2, <3>1 DEF HandedOn, Untouched
  <2> QED BY <1>1, <2>1, <2>2, <2>3
<1>11. Untouched'
  BY <1>8, <1>9, <1>10 DEF Untouched, Next1, NoPaused
<1> QED BY <1>5, <1>6, <1>11 DEF HandedOn

\* A task that is not busy is at no place, and nobody has it to do.
LEMMA NotBusy ==
    ASSUME NEW t \in Task, ~Busy(t)
    PROVE  Alone(t)
BY Holder DEF Busy, Alone, On

\* A request of the user that does not disturb the handing on.
LEMMA HandedOnAsked ==
    ASSUME WorkflowTypeOK, HandedOn, NEW t \in Task, NEW p \in Phase, NEW v \in UserPlans(t, p),
           UserDoes(v), snap' = snap, held' = held, inbox' = inbox, ready' = ready,
           backoff' = backoff, running' = running,
           snap[t].status = "Pending" => Head(v).do \in {"begin", "stop", "reopen", "archive"},
           Engaged(v) => \A x \in Place : x # User => ~Holds(x, t)
    PROVE  HandedOn'
<1>1. plan'[User] = v /\ \A q \in Process : q # User => plan'[q] = plan[q]
  BY Processes DEF UserDoes, WorkflowTypeOK, PlansOK
<1>2. Head(v).task = t /\ held[User] = NoSnapshot
  BY UserPlan, NothingHeld, Processes DEF Op, UserDoes
<1>3. ASSUME NEW u \in Task, On(User, u)' PROVE u = t
  <2>1. Head(plan'[User]).task = u
    BY <1>3, IsOn
  <2> QED BY <1>1, <1>2, <2>1
<1>4. \A x \in Place, u \in Task : x # User /\ Holds(x, u)' => Holds(x, u)
  BY <1>1, PlaceKept
<1>5. \A u \in Task : Holds(User, u)' => u = t /\ Engaged(v)
  BY <1>1, <1>3, Holder, Processes
<1>6. Exclusive'
  BY <1>4, <1>5 DEF HandedOn, Exclusive
<1>7. Once' /\ Booked'
  BY <1>1, OnceKept, BookedKept, Processes DEF HandedOn
<1>8. Untouched'
  <2>1. /\ \A x \in Place, u \in Task : Holds(x, u)' => Holds(x, u) \/ x = User
        /\ \A q \in Process : held'[q] = NoSnapshot \/ (held'[q] = held[q] /\ plan'[q] = plan[q])
        /\ \A q \in Process, u \in Task :
              On(q, u)' =>
                 \/ plan'[q] = plan[q] \/ snap[u].status # "Pending"
                 \/ q = User /\ Head(plan'[q]).do \in {"begin", "stop", "reopen", "archive"}
    BY <1>1, <1>2, <1>3, <1>4
  <2> QED BY <2>1, UntouchedKept DEF HandedOn
<1> QED BY <1>6, <1>7, <1>8 DEF HandedOn

\* HandedOn is kept by the requests that leave the handing on in order.
LEMMA HandedOnRequest ==
    ASSUME WorkflowTypeOK, HandedOn, Orderly', NEW t \in Task, Request(t)
    PROVE  HandedOn'
<1>1. /\ snap' = snap /\ held' = held /\ inbox' = inbox /\ ready' = ready
      /\ backoff' = backoff /\ running' = running
  BY DEF Request, Start, Resume, Stop, ToolStart, Archive, SubmitInput, Reopen, queues
<1>2. plan[User] = <<>>
  BY DEF Request, Start, Resume, Stop, ToolStart, Archive, SubmitInput, Reopen, UserDoes
<1>3. "resume" \notin mishaps' /\ "submit" \notin mishaps'
  BY DEF Orderly, OnlyDisturbedBy
<1>4. CASE Start(t)
  <2>1. PICK v : v = <<Op("begin", t, 1), Op("startTask", t, 1)>>
    OBVIOUS
  <2>2. v \in UserPlans(t, 1) /\ Head(v).do = "begin"
    BY <2>1, Double DEF UserPlans, Op
  <2>3. \A x \in Place : x # User => ~Holds(x, t)
    BY <1>4 DEF Start, HandedOn, Untouched
  <2>4. UserDoes(v)
    BY <1>4, <2>1 DEF Start
  <2> QED BY <1>1, <2>2, <2>3, <2>4, PhaseFacts, HandedOnAsked
<1>5. CASE Resume(t)
  <2>1. PICK v : v = <<Op("resumeTask", t, 1)>>
    OBVIOUS
  <2>2. v \in UserPlans(t, 1) /\ UserDoes(v)
    BY <1>5, <2>1 DEF UserPlans, Resume
  <2>3. \A x \in Place : ~Holds(x, t)
    BY <1>3, <1>5, NotBusy DEF Resume, Intervene, Alone
  <2>4. snap[t].status # "Pending"
    BY <1>5 DEF Resume, HasPaused, HandedOn, Untouched, NoPaused
  <2> QED BY <1>1, <2>2, <2>3, <2>4, PhaseFacts, HandedOnAsked
<1>6. ASSUME NEW p \in Phase, SubmitInput(t, p) PROVE HandedOn'
  <2>1. PICK v : v = <<Op("complete", t, p), Op("phaseCompleted", t, p)>>
    OBVIOUS
  <2>2. v \in UserPlans(t, p) /\ UserDoes(v)
    BY <1>6, <2>1 DEF UserPlans, SubmitInput
  <2>3. snap[t].phases[p] = "Paused" /\ \A x \in Place : ~Holds(x, t)
    BY <1>3, <1>6, NotBusy DEF SubmitInput, Intervene, Alone
  <2>4. snap[t].status # "Pending"
    BY <2>3 DEF HandedOn, Untouched, NoPaused
  <2> QED BY <1>1, <2>2, <2>3, <2>4, HandedOnAsked
<1>7. ASSUME NEW p \in Phase, NEW do \in {"begin", "stop", "reopen", "archive"},
             UserDoes(<<Op(do, t, p)>>)
      PROVE  HandedOn'
  <2>1. PICK v : v = <<Op(do, t, p)>>
    OBVIOUS
  <2>2. v \in UserPlans(t, p) /\ UserDoes(v)
    BY <1>7, <2>1 DEF UserPlans
  <2>3. Head(v).do = do /\ ~Engaged(v)
    BY <2>1, Single DEF Op, Loose
  <2> QED BY <1>1, <2>2, <2>3, HandedOnAsked
<1>8. CASE Stop(t) \/ ToolStart(t) \/ Archive(t)
  BY <1>7, <1>8, PhaseFacts DEF Stop, ToolStart, Archive
<1>9. ASSUME NEW p \in Phase, Reopen(t, p) PROVE HandedOn'
  BY <1>7, <1>9 DEF Reopen
<1> QED BY <1>4, <1>5, <1>6, <1>8, <1>9 DEF Request

\* After a crash only the tasks that run are queued, each of them once.
LEMMA HandedOnCrash ==
    ASSUME WorkflowTypeOK, HandedOn, Crash
    PROVE  HandedOn'
<1>1. /\ snap' = snap /\ inbox' = <<>> /\ backoff' = <<>>
      /\ \A q \in Process : plan'[q] = <<>> /\ held'[q] = NoSnapshot
  BY DEF Crash
<1>2. /\ \A i, k \in DOMAIN ready' : ready'[i] = ready'[k] => i = k
      /\ \A i \in DOMAIN ready' : ready'[i] \in Task /\ snap[ready'[i]].status = "Running"
  BY DEF Crash
<1>3. ASSUME NEW x \in Place, NEW t \in Task, Holds(x, t)'
      PROVE  x = ReadyQueue /\ snap[t].status = "Running"
  <2>1. DOMAIN <<>> = {}
    OBVIOUS
  <2>2. x \notin Process /\ x # BackoffQueue /\ x # Channel
    BY <1>1, <1>3, <2>1, Holder, IsOn
  <2>3. x = ReadyQueue
    BY <2>2, Holder
  <2> QED BY <1>2, <1>3, <2>3, Holder
<1>4. \A q \in Process, t \in Task : ~On(q, t)'
  BY <1>1, IsOn
<1>5. Exclusive'
  BY <1>3 DEF Exclusive
<1>6. Untouched'
  BY <1>1, <1>3, <1>4, UntouchedKept DEF HandedOn
<1>7. Once'
  BY <1>1, <1>2 DEF Once
<1>8. Booked'
  BY <1>1, Processes DEF Booked, IsScript
<1> QED BY <1>5, <1>6, <1>7, <1>8 DEF HandedOn

-----------------------------------------------------------------------------
(* What was read is still in the file.                                     *)

\* What disturbs a task less and less as one goes back.
LEMMA Regimes ==
    ASSUME [Next]_vars
    PROVE  /\ \A S : OnlyDisturbedBy(S)' => OnlyDisturbedBy(S)
           /\ Orderly' => Orderly
           /\ Calm' => Calm
           /\ Calm => Orderly
           /\ \A S : OnlyDisturbedBy(S)' <=> mishaps' \subseteq S
BY MishapsGrow DEF OnlyDisturbedBy, Orderly, Calm

\* Only a read or a write changes what is held, and a process keeps its plan
\* meanwhile.
LEMMA StepKeepsRoute ==
    ASSUME WorkflowTypeOK, NEW t \in Task, NEW p \in Phase,
           RouteToPause(t, p) \/ RouteToScript(t, p) \/ RouteToAgent(t, p)
    PROVE  /\ snap' = snap
           /\ \A q \in Process :
                 held'[q] = NoSnapshot \/ (held'[q] = held[q] /\ plan'[q] = plan[q])
<1>1. held[QueueManager] = NoSnapshot
  BY NothingHeld, Processes
     DEF RouteToPause, RouteToScript, RouteToAgent, Routed, Doing, StoreOps
<1>2. snap' = snap /\ held' = held
  BY DEF RouteToPause, RouteToScript, RouteToAgent
<1>3. CASE \E v : Todo(v)
  BY <1>1, <1>2, <1>3 DEF Todo, WorkflowTypeOK, PlansOK
<1>4. CASE RouteToScript(t, p) /\ ~DirectoryConflict(t)
  <2>1. PICK j : /\ j = IdleJob(t, p) /\ held[j] = NoSnapshot
                 /\ plan' = [plan EXCEPT ![QueueManager] = <<>>,
                                         ![j] = <<Op("start", t, p), Op("script", t, p)>>]
    BY <1>4, IdleJobIsIdle DEF RouteToScript
  <2>2. \A r \in Process : r # QueueManager /\ r # j => plan'[r] = plan[r]
    BY <2>1 DEF WorkflowTypeOK, PlansOK
  <2> QED BY <1>1, <1>2, <2>1, <2>2
<1> QED BY <1>3, <1>4 DEF RouteToPause, RouteToScript, RouteToAgent

\* The file is written by a Write only, and a process keeps its plan while it has read.
LEMMA StepKeeps ==
    ASSUME WorkflowTypeOK, [Next]_vars, \A q \in Process : ~Read(q) /\ ~Write(q)
    PROVE  /\ snap' = snap
           /\ \A q \in Process :
                 held'[q] = NoSnapshot \/ (held'[q] = held[q] /\ plan'[q] = plan[q])
<1>1. CASE UNCHANGED vars
  BY <1>1 DEF vars
<1>2. CASE Crash
  BY <1>2 DEF Crash
<1>3. ASSUME NEW Q, NEW S, \A q \in Process : q \notin Q => plan'[q] = plan[q],
             \A q \in Process \cap Q : held[q] = NoSnapshot, snap' = snap, held' = held
      PROVE  /\ snap' = snap
             /\ \A q \in Process :
                   held'[q] = NoSnapshot \/ (held'[q] = held[q] /\ plan'[q] = plan[q])
  BY <1>3
<1>4. ASSUME NEW q \in Process, Tell(q)
      PROVE  /\ snap' = snap
             /\ \A r \in Process :
                   held'[r] = NoSnapshot \/ (held'[r] = held[r] /\ plan'[r] = plan[r])
  <2>1. held[q] = NoSnapshot
    BY <1>4, NothingHeld DEF Tell, Messages, StoreOps
  <2>2. \A r \in Process : r # q => plan'[r] = plan[r]
    BY <1>4 DEF Tell, WorkflowTypeOK, PlansOK
  <2> QED BY <1>4, <2>1, <2>2 DEF Tell
<1>5. CASE Receive \/ Heartbeat \/ Pump \/ PumpEnds \/ WorkEnds \/ Requeue
  <2>1. plan[QueueManager] = <<>> \/ Next1(QueueManager).do \notin StoreOps
    BY <1>5 DEF Receive, Heartbeat, Pump, PumpEnds, WorkEnds, Requeue, Doing, StoreOps,
                WorkflowTypeOK, PlansOK
  <2>2. held[QueueManager] = NoSnapshot
    BY <2>1, NothingHeld, Processes
  <2>3. snap' = snap /\ held' = held
    BY <1>5 DEF Receive, Heartbeat, Pump, PumpEnds, WorkEnds, Requeue
  <2>4. plan' = plan \/ \E v : plan' = [plan EXCEPT ![QueueManager] = v]
    BY <1>5 DEF Receive, Heartbeat, Pump, PumpEnds, WorkEnds, Requeue, Todo,
                ReceiveStart, ReceiveCompleted, ReceiveFailed, ReceiveResume
  <2>5. \A r \in Process : r # QueueManager => plan'[r] = plan[r]
    BY <2>4 DEF WorkflowTypeOK, PlansOK
  <2> QED BY <2>2, <2>3, <2>5
<1>6. CASE ColdStart
  <2>1. PICK t \in Task, p \in Phase, j \in Job :
           /\ Next1(QueueManager) = Op("coldStart", t, p) /\ plan[QueueManager] # <<>>
           /\ plan[j] = <<>>
           /\ plan' = [plan EXCEPT ![QueueManager] = <<>>, ![j] = <<Op("turn", t, p)>>]
    BY <1>6, ColdStarts
  <2>2. held[QueueManager] = NoSnapshot /\ held[j] = NoSnapshot
    BY <2>1, NothingHeld, Processes DEF Op, StoreOps
  <2>3. \A r \in Process : r # QueueManager /\ r # j => plan'[r] = plan[r]
    BY <2>1 DEF WorkflowTypeOK, PlansOK
  <2> QED BY <1>6, <2>2, <2>3 DEF ColdStart
<1>8. ASSUME NEW t \in Task, NEW p \in Phase, NEW n \in Slots,
             ScriptEnds(t, p, n) \/ TurnEnds(t, p, n)
      PROVE  /\ snap' = snap
             /\ \A q \in Process :
                   held'[q] = NoSnapshot \/ (held'[q] = held[q] /\ plan'[q] = plan[q])
  <2> PICK j : j = <<t, p, n>>
    OBVIOUS
  <2>1. PICK v : held[j] = NoSnapshot /\ plan' = [plan EXCEPT ![j] = v]
    BY <1>8, ExecutionEnds
  <2>2. \A r \in Process : r # j => plan'[r] = plan[r]
    BY <2>1 DEF WorkflowTypeOK, PlansOK
  <2> QED BY <1>8, <2>1, <2>2 DEF ScriptEnds, TurnEnds
<1>9. ASSUME NEW t \in Task, Request(t)
      PROVE  /\ snap' = snap
             /\ \A q \in Process :
                   held'[q] = NoSnapshot \/ (held'[q] = held[q] /\ plan'[q] = plan[q])
  <2>1. PICK v : UserDoes(v)
    BY <1>9 DEF Request, Start, Resume, Stop, ToolStart, Archive, SubmitInput, Reopen
  <2>2. snap' = snap /\ held' = held
    BY <1>9 DEF Request, Start, Resume, Stop, ToolStart, Archive, SubmitInput, Reopen
  <2>3. held[User] = NoSnapshot
    BY <2>1, NothingHeld, Processes DEF UserDoes
  <2>4. \A r \in Process : r # User => plan'[r] = plan[r]
    BY <2>1 DEF UserDoes, WorkflowTypeOK, PlansOK
  <2> QED BY <2>2, <2>3, <2>4
<1> QED BY Steps, StepKeepsRoute, <1>1, <1>2, <1>4, <1>5, <1>6, <1>8, <1>9

\* Who reopens a task that nobody disturbed otherwise finds it at rest.
LEMMA Reopened ==
    ASSUME WorkflowTypeOK, Traces, HandedOn, Orderly, Calm => FreshRead, Reopenable,
           held[User] # NoSnapshot, Next1(User).do = "reopen"
    PROVE  LET T == Next1(User).task
           IN  /\ OnlyDisturbedBy({"reopen", "crash", "tool"}) /\ T \in Task
               /\ snap[T] = held[User] /\ snap[T].status \in {"Completed", "Failed", "Stopped"}
               /\ NoPaused(snap[T]) /\ Alone(T) /\ Tail(plan[User]) = <<>>
<1> PICK T : T = Next1(User).task
  OBVIOUS
<1>1. /\ plan[User] # <<>> /\ Accepts(Next1(User), held[User]) /\ T \in Task
      /\ plan[User] \in UserPlans(T, Next1(User).phase) /\ Next1(User) = Head(plan[User])
  BY PlanIs, Processes DEF WorkflowTypeOK, HeldOK
<1>2. Has(plan[User], {"reopen"}) /\ Tail(plan[User]) = <<>> /\ ~Engaged(plan[User])
  BY <1>1, UserPlan
<1>3. "reopen" \in mishaps
  BY <1>2 DEF Traces
<1>4. OnlyDisturbedBy({"reopen", "crash", "tool"}) /\ Calm /\ Waits
  BY <1>3 DEF Orderly, Calm, OnlyDisturbedBy, Reopenable
<1>5. snap[T].status # "Archived"
  BY <1>1, <1>4 DEF Traces, Traced, OnlyDisturbedBy
<1>6. snap[T] = held[User]
  BY <1>4, <1>5, Processes DEF FreshRead
<1>7. snap[T].status \in {"Completed", "Failed", "Stopped"}
  BY <1>1, <1>6 DEF Accepts
<1>8. NoPaused(snap[T])
  BY <1>1, <1>4, <1>7 DEF Waits, WaitsWell, NoPaused
<1>9. \A x \in Place : ~Holds(x, T)
  BY <1>1, <1>4, <1>7 DEF Waits, WaitsWell
<1>10. ASSUME NEW q \in Process, On(q, T), q # User
       PROVE  FALSE
  <2>1. ~Engaged(plan[q]) /\ plan[q] # <<>>
    BY <1>9, <1>10, Holder, ProcessIsPlace DEF On
  <2>2. IsA("prompt", q) /\ plan[q] \in AgentPlans(Next1(q).task, Next1(q).phase)
    BY <1>10, <2>1, PlanIs, ManagerPlan, ScriptPlan
  <2>3. Next1(q) = Head(plan[q])
    BY DEF Next1
  <2>4. Has(plan[q], {"meter"})
    BY <2>1, <2>2, <2>3, AgentPlan
  <2> QED BY <1>4, <2>2, <2>4 DEF Traces, OnlyDisturbedBy
<1> QED BY <1>1, <1>2, <1>4, <1>6, <1>7, <1>8, <1>9, <1>10 DEF Alone

\* One place at a time sends a task on, after every step.
LEMMA OwnedStep ==
    ASSUME WorkflowTypeOK, Traces, Owned, Calm => FreshRead, Reopenable, [Next]_vars
    PROVE  Owned'
<1> SUFFICES ASSUME Orderly' PROVE HandedOn'
  BY DEF Owned
<1>1. Orderly /\ HandedOn
  BY Regimes DEF Owned
<1>2. CASE UNCHANGED vars
  BY <1>1, <1>2, LetGo, PlaceKept, OnceKept, BookedKept, IsOn DEF vars, HandedOn
<1>3. ASSUME NEW q \in Process, Write(q) PROVE HandedOn'
  <2>1. CASE Next1(q).do = "reopen"
    <3>1. q = User
      BY <1>3, <2>1, Writes, PlanIs
    <3>2. held[User] # NoSnapshot
      BY <1>3, <3>1 DEF Write
    <3>3. NoPaused(held[User]) /\ Alone(Next1(User).task) /\ Tail(plan[User]) = <<>>
      BY <1>1, <2>1, <3>1, <3>2, Reopened
    <3>4. plan'[q] = <<>>
      BY <1>3, <3>1, <3>3, Writes
    <3> QED BY <1>1, <1>3, <3>1, <3>3, <3>4, HandedOnWrite
  <2>2. CASE Next1(q).do # "reopen"
    BY <1>1, <1>3, <2>2, HandedOnWrite
  <2> QED BY <2>1, <2>2
<1> QED BY Steps, <1>1, <1>2, <1>3, HandedOnRead, HandedOnTell, HandedOnReceive, HandedOnHeartbeat,
           HandedOnPump, HandedOnPause, HandedOnRequeue, HandedOnColdStart, HandedOnRoute,
           HandedOnExecution, HandedOnRequest, HandedOnCrash

\* Without late tokens whoever works on a task but the user sends it on.
LEMMA WorkerHolds ==
    ASSUME WorkflowTypeOK, Traces, "tokens" \notin mishaps,
           NEW q \in Process, q # User, NEW t, On(q, t)
    PROVE  Holds(q, t) /\ Engaged(plan[q])
<1>1. plan[q] # <<>> /\ Next1(q) = Head(plan[q])
  BY DEF On, Next1
<1>2. CASE q = QueueManager \/ IsA("folder", q)
  <2>1. Engaged(plan[q])
    BY <1>1, <1>2, PlanIs, ManagerPlan, ScriptPlan
  <2> QED BY <2>1, Holder
<1>3. CASE IsA("prompt", q)
  <2>1. plan[q] \in AgentPlans(Next1(q).task, Next1(q).phase)
    BY <1>1, <1>3, PlanIs
  <2>2. ~Has(plan[q], {"meter"})
    BY <1>3 DEF Traces
  <2>3. Engaged(plan[q])
    BY <1>1, <2>1, <2>2, AgentPlan
  <2> QED BY <2>3, Holder
<1> QED BY <1>1, <1>2, <1>3, PlanIs

\* While the user is about to write to a task, other than to archive it, nobody else is.
LEMMA UserAlone ==
    ASSUME WorkflowTypeOK, Traces, HandedOn, Calm, FreshRead, Reopenable,
           held[User] # NoSnapshot, Next1(User).do # "archive",
           NEW q \in Process, q # User
    PROVE  ~On(q, Next1(User).task)
<1> PICK T : T = Next1(User).task
  OBVIOUS
<1>0. "tokens" \notin mishaps /\ "stop" \notin mishaps /\ Orderly
  BY DEF Calm, OnlyDisturbedBy, Orderly
<1>1. /\ plan[User] # <<>> /\ Next1(User).do \in StoreOps /\ Accepts(Next1(User), held[User])
      /\ T \in Task /\ plan[User] \in UserPlans(T, Next1(User).phase)
      /\ Next1(User) = Head(plan[User])
  BY PlanIs, Processes DEF WorkflowTypeOK, HeldOK
<1>2. Next1(User).do \in {"begin", "complete", "reopen", "stop"}
  BY <1>1, UserPlan DEF StoreOps
<1>3. Next1(User).do # "stop"
  <2>1. Next1(User).do = "stop" => Has(plan[User], {"stop"})
    BY <1>1, UserPlan
  <2> QED BY <1>0, <2>1 DEF Traces
<1> SUFFICES ASSUME On(q, T) PROVE FALSE
  OBVIOUS
<1>4. CASE Next1(User).do = "begin"
  BY <1>1, <1>4 DEF HandedOn, Untouched, Accepts
<1>5. CASE Next1(User).do = "complete"
  <2>1. Engaged(plan[User])
    BY <1>1, <1>5, UserPlan
  <2>2. Holds(User, T) /\ Holds(q, T)
    BY <1>0, <1>1, <2>1, WorkerHolds, Holder, Processes DEF On
  <2> QED BY <1>1, <2>2, ProcessIsPlace, Processes DEF HandedOn, Exclusive
<1>6. CASE Next1(User).do = "reopen"
  BY <1>0, <1>6, Reopened DEF Alone
<1> QED BY <1>2, <1>3, <1>4, <1>5, <1>6

\* Of two processes that have read the same task one archives it.
LEMMA OneReader ==
    ASSUME WorkflowTypeOK, Traces, HandedOn, Calm, FreshRead, Reopenable,
           NEW q \in Process, NEW r \in Process, q # r,
           held[q] # NoSnapshot, Next1(q).do # "archive", On(r, Next1(q).task),
           r # User \/ (held[r] # NoSnapshot /\ Next1(r).do # "archive")
    PROVE  FALSE
<1>1. plan[q] # <<>> /\ Next1(q).task \in Task /\ On(q, Next1(q).task)
  BY PlanIs DEF WorkflowTypeOK, HeldOK, On
<1>2. q # User
  BY UserAlone
<1>3. r # User
  BY <1>1, <1>2, UserAlone DEF On
<1>4. "tokens" \notin mishaps
  BY DEF Calm, OnlyDisturbedBy
<1>5. Holds(q, Next1(q).task) /\ Holds(r, Next1(q).task)
  BY <1>1, <1>2, <1>3, <1>4, WorkerHolds
<1> QED BY <1>1, <1>5, ProcessIsPlace DEF HandedOn, Exclusive

\* What was read is still in the file, after every step.
LEMMA FreshReadStep ==
    ASSUME WorkflowTypeOK, Traces, Owned, Calm => FreshRead, Reopenable, [Next]_vars, Calm'
    PROVE  FreshRead'
<1>1. Calm /\ HandedOn /\ FreshRead
  BY Regimes DEF Owned
<1>2. CASE \A q \in Process : ~Read(q) /\ ~Write(q)
  <2>1. ASSUME NEW q \in Process, held'[q] # NoSnapshot, Head(plan'[q]).do # "archive"
        PROVE  LET s == snap'[Head(plan'[q]).task]
               IN  s = held'[q] \/ s.status = "Archived"
    <3>1. held'[q] = held[q] /\ plan'[q] = plan[q] /\ snap' = snap
      BY <1>2, <2>1, StepKeeps
    <3> QED BY <1>1, <2>1, <3>1 DEF FreshRead, Next1
  <2> QED BY <2>1 DEF FreshRead, Next1
<1>3. ASSUME NEW q \in Process, Read(q) PROVE FreshRead'
  <2>1. /\ snap' = snap /\ held[q] = NoSnapshot
        /\ \/ held' = held /\ \A r \in Process : r # q => plan'[r] = plan[r]
           \/ plan' = plan /\ \A r \in Process : \/ held'[r] = held[r]
                                                 \/ r = q /\ held'[q] = snap[Next1(q).task]
    BY <1>3 DEF Read, WorkflowTypeOK, PlansOK, HeldOK
  <2>2. ASSUME NEW r \in Process, held'[r] # NoSnapshot, Head(plan'[r]).do # "archive"
        PROVE  LET s == snap'[Head(plan'[r]).task]
               IN  s = held'[r] \/ s.status = "Archived"
    BY <1>1, <2>1, <2>2 DEF FreshRead, Next1
  <2> QED BY <2>2 DEF FreshRead, Next1
<1>4. ASSUME NEW q \in Process, Write(q) PROVE FreshRead'
  <2> PICK T \in Task : T = Next1(q).task
    BY <1>4, Writes
  <2>1. /\ held[q] # NoSnapshot /\ held[q] \in Snapshot /\ Next1(q).phase \in Phase
        /\ Next1(q).do \in StoreOps /\ plan[q] # <<>>
        /\ snap'[T] = Applied(Next1(q), held[q]) /\ \A t \in Task : t # T => snap'[t] = snap[t]
        /\ held'[q] = NoSnapshot /\ \A r \in Process : r # q => held'[r] = held[r]
        /\ \A r \in Process : r # q => plan'[r] = plan[r]
    BY <1>4, Writes
  <2>2. ASSUME NEW r \in Process, held'[r] # NoSnapshot, Head(plan'[r]).do # "archive"
        PROVE  LET s == snap'[Head(plan'[r]).task]
               IN  s = held'[r] \/ s.status = "Archived"
    <3>1. /\ r # q /\ held[r] # NoSnapshot /\ Next1(r).do # "archive"
          /\ Next1(r) = Head(plan'[r]) /\ held'[r] = held[r]
      BY <2>1, <2>2 DEF Next1
    <3>2. plan[r] # <<>> /\ Next1(r).task \in Task
      BY <3>1, PlanIs DEF WorkflowTypeOK, HeldOK
    <3>3. CASE Next1(r).task # T
      BY <1>1, <2>1, <3>1, <3>2, <3>3 DEF FreshRead
    <3>4. CASE Next1(r).task = T /\ Next1(q).do = "archive"
      BY <2>1, <3>1, <3>4, StatusWritten
    <3>5. CASE Next1(r).task = T /\ Next1(q).do # "archive"
      <4>1. On(q, Next1(r).task)
        BY <2>1, <3>5 DEF On
      <4> QED BY <1>1, <2>1, <3>1, <3>5, <4>1, OneReader
    <3> QED BY <3>3, <3>4, <3>5
  <2> QED BY <2>2 DEF FreshRead, Next1
<1> QED BY <1>2, <1>3, <1>4

-----------------------------------------------------------------------------
(* A task that waits, waits well.                                          *)

\* What is at work on a phase that has begun waits for nobody.
LEMMA Suiting ==
    ASSUME NEW op, NEW s, Suits(op, s), op.do \notin {"route", "start", "pause", "approve", "clear", "unstop", "requeue"}
    PROVE  NoPaused(s) 
BY DEF Suits

\* A task waits well while the file does not change, if what is new suits it.
LEMMA WaitsKept ==
    ASSUME Waits, snap' = snap,
           \A x \in Place, t \in Task : Holds(x, t)' =>
              snap[t].status = "Running" \/ (x = User /\ Head(plan'[User]).do = "begin"),
           \A i \in DOMAIN inbox' :
              \/ inbox'[i].do = "phaseFailed" => NoPaused(snap[inbox'[i].task])
              \/ \E k \in DOMAIN inbox : inbox'[i] = inbox[k],
           \A q \in Process, t \in Task :
              q # User /\ On(q, t)' => plan'[q] = plan[q] \/ Suits(Head(plan'[q]), snap[t])
    PROVE  Waits'
<1>1. ASSUME NEW t \in Task PROVE WaitsWell(t)'
  <2>1. \A x \in Place : Holds(x, t)' =>
           snap'[t].status = "Running" \/ (x = User /\ Next1(User)'.do = "begin")
    BY DEF Next1
  <2>2. \A p \in Phase : snap'[t].phases[p] = "Paused" =>
           snap'[t].status = "Running" /\ IsNext(snap'[t], p)
    BY DEF Waits, WaitsWell
  <2>3. \A i \in DOMAIN inbox' :
           inbox'[i].task = t /\ inbox'[i].do = "phaseFailed" => NoPaused(snap'[t])
    BY DEF Waits, WaitsWell
  <2>4. ASSUME NEW q \in Process, On(q, t)', q # User PROVE Suits(Head(plan'[q]), snap'[t])
    <3>1. CASE plan'[q] = plan[q]
      <4>1. On(q, t) /\ Next1(q) = Head(plan'[q])
        BY <2>4, <3>1, IsOn DEF Next1
      <4> QED BY <2>4, <4>1 DEF Waits, WaitsWell
    <3> QED BY <2>4, <3>1
  <2> QED BY <2>1, <2>2, <2>3, <2>4 DEF WaitsWell, Next1
<1> QED BY <1>1 DEF Waits

\* It does when it is handed on to do what suits it.
LEMMA WaitsHandedOn ==
    ASSUME Waits, snap' = snap, NEW T, NEW src, NEW dst, Moves(T, src, dst),
           src = User => Next1(User).do # "begin",
           \A i \in DOMAIN inbox' :
              \/ inbox'[i].do = "phaseFailed" => NoPaused(snap[inbox'[i].task])
              \/ \E k \in DOMAIN inbox : inbox'[i] = inbox[k],
           \A q \in Process : q # User =>
              plan'[q] = plan[q] \/ plan'[q] = <<>> \/ Suits(Head(plan'[q]), snap[T])
    PROVE  Waits'
<1>1. snap[T].status = "Running"
  BY DEF Moves, Waits, WaitsWell
<1>2. ASSUME NEW x \in Place, NEW t \in Task, Holds(x, t)'
      PROVE  snap[t].status = "Running" \/ (x = User /\ Head(plan'[User]).do = "begin")
  BY <1>1, <1>2, Processes DEF Moves, Waits, WaitsWell, Next1
<1>3. ASSUME NEW q \in Process, NEW t \in Task, q # User, On(q, t)'
      PROVE  plan'[q] = plan[q] \/ Suits(Head(plan'[q]), snap[t])
  BY <1>3, IsOn DEF Moves
<1> QED BY <1>2, <1>3, WaitsKept

\* Waits is kept when a message is sent.
LEMMA WaitsTell ==
    ASSUME WorkflowTypeOK, HandedOn, Waits, NEW q \in Process, Tell(q)
    PROVE  Waits'
<1> PICK T : T = Next1(q).task
  OBVIOUS
<1>1. /\ Moves(T, q, Channel)
      /\ snap' = snap /\ plan'[q] = Tail(plan[q]) /\ \A r \in Process \ {q} : plan'[r] = plan[r]
      /\ plan[q] # <<>> /\ Next1(q).do \in Messages /\ q # QueueManager
      /\ plan'[q] # <<>> => q # User /\ Head(plan'[q]).do = "meter"
      /\ \A i \in DOMAIN inbox' :
            inbox'[i] = Next1(q) \/ \E k \in DOMAIN inbox : inbox'[i] = inbox[k]
  BY TellMoves
<1>2. q # User => NoPaused(snap[T])
  <2>1. q # User => Suits(Next1(q), snap[T])
    BY <1>1, PlanIs DEF On, Waits, WaitsWell
  <2> QED BY <1>1, <2>1, Suiting DEF Messages
<1>3. q = User => Next1(q).do # "phaseFailed"
  BY <1>1, PlanIs
<1>4. q # User => plan'[q] = <<>> \/ Suits(Head(plan'[q]), snap[T])
  BY <1>1, <1>2 DEF Suits
<1>5. \A i \in DOMAIN inbox' :
         \/ inbox'[i].do = "phaseFailed" => NoPaused(snap[inbox'[i].task])
         \/ \E k \in DOMAIN inbox : inbox'[i] = inbox[k]
  BY <1>1, <1>2, <1>3
<1>6. q = User => Next1(User).do # "begin"
  BY <1>1 DEF Messages
<1> QED BY <1>1, <1>4, <1>5, <1>6, WaitsHandedOn

\* Waits is kept when the manager takes a message.
LEMMA WaitsReceive ==
    ASSUME WorkflowTypeOK, HandedOn, Waits, Receive
    PROVE  Waits'
<1> PICK m : m = Head(inbox)
  OBVIOUS
<1>1. /\ m \in [do : Messages, task : Task, phase : Phase]
      /\ snap' = snap /\ \A q \in Process : q # QueueManager => plan'[q] = plan[q]
      /\ \A i \in DOMAIN inbox' : \E k \in DOMAIN inbox : inbox'[i] = inbox[k]
      /\ \E k \in DOMAIN inbox : m = inbox[k]
      /\ \/ m.do \in {"startTask", "phaseCompleted"} /\ plan' = plan
            /\ Moves(m.task, Channel, ReadyQueue)
         \/ /\ Moves(m.task, Channel, QueueManager)
            /\ \/ m.do = "phaseFailed" /\ Head(plan'[QueueManager]).do = "giveUp"
               \/ /\ m.do = "resumeTask"
                  /\ Head(plan'[QueueManager]).do \in {"unstop", "approve"}
  BY ReceiveMoves
<1>2. m.do = "phaseFailed" => NoPaused(snap[m.task])
  BY <1>1 DEF Waits, WaitsWell
<1>3. \A q \in Process : plan'[q] = plan[q] \/ Suits(Head(plan'[q]), snap[m.task])
  BY <1>1, <1>2 DEF Suits
<1>4. Channel # User
  BY Processes
<1> QED BY <1>1, <1>3, <1>4, WaitsHandedOn

\* Waits is kept by the pump.
LEMMA WaitsPump ==
    ASSUME WorkflowTypeOK, HandedOn, Waits, Pump
    PROVE  Waits'
<1> PICK T : T = Head(ready)
  OBVIOUS
<1> PICK p : p = NextPhase(snap[T])
  OBVIOUS
<1>1. /\ Moves(T, ReadyQueue, QueueManager) /\ snap' = snap /\ inbox' = inbox
      /\ \A q \in Process : q # QueueManager => plan'[q] = plan[q]
      /\ \/ p = 0 /\ plan'[QueueManager] = <<Op("finish", T, 1)>>
         \/ p # 0 /\ plan'[QueueManager] = <<Op("route", T, p)>>
  BY PumpMoves
<1>2. \/ p = 0 /\ \A r \in Phase : ~Open(snap[T], r)
      \/ p \in Phase /\ IsNext(snap[T], p)
  BY NextPhaseIsOpen
<1>3. p = 0 => NoPaused(snap[T])
  <2>1. 0 \notin Phase
    BY DEF Phase
  <2> QED BY <1>2, <2>1 DEF Open, NoPaused
<1>4. Suits(Head(plan'[QueueManager]), snap[T])
  BY <1>1, <1>2, <1>3, Single DEF Suits, Op
<1>5. ReadyQueue # User
  BY Processes
<1> QED BY <1>1, <1>4, <1>5, WaitsHandedOn

\* One phase at most is next.
LEMMA OneIsNext ==
    ASSUME NEW s, NEW p \in Phase, NEW r \in Phase, IsNext(s, p), IsNext(s, r)
    PROVE  p = r
BY PhaseFacts DEF IsNext, Phase

\* Waits is kept when the manager pauses a phase or starts its execution.
LEMMA WaitsRoute ==
    ASSUME WorkflowTypeOK, HandedOn, Waits, NEW t \in Task, NEW p \in Phase,
           RouteToPause(t, p) \/ RouteToScript(t, p) \/ RouteToAgent(t, p)
    PROVE  Waits'
<1>1. PICK dst \in Place :
         /\ plan[QueueManager] # <<>> /\ Next1(QueueManager) = Op("route", t, p)
         /\ snap' = snap /\ inbox' = inbox /\ Moves(t, QueueManager, dst)
         /\ \A q \in Process :
               /\ q = dst => Head(plan'[q]) \in {Op("start", t, p), Op("pause", t, p)}
               /\ q # dst => plan'[q] = <<>> \/ plan'[q] = plan[q]
  BY RouteMoves
<1>2. IsNext(snap[t], p)
  BY <1>1, Processes DEF On, Waits, WaitsWell, Suits, Op
<1>3. \A r \in Phase : snap[t].phases[r] = "Paused" => r = p
  BY <1>2, OneIsNext DEF Waits, WaitsWell
<1>4. Suits(Op("start", t, p), snap[t]) /\ Suits(Op("pause", t, p), snap[t])
  BY <1>2, <1>3 DEF Suits, Op, IsNext
<1>5. \A q \in Process :
         plan'[q] = plan[q] \/ plan'[q] = <<>> \/ Suits(Head(plan'[q]), snap[t])
  BY <1>1, <1>4
<1> QED BY <1>1, <1>5, WaitsHandedOn, Processes

\* Waits is kept when the manager starts an agent.
LEMMA WaitsColdStart ==
    ASSUME WorkflowTypeOK, HandedOn, Waits, ColdStart
    PROVE  Waits'
<1>1. PICK T \in Task, p \in Phase, j \in Job :
         /\ Moves(T, QueueManager, j)
         /\ Next1(QueueManager) = Op("coldStart", T, p) /\ plan[QueueManager] # <<>>
         /\ plan'[QueueManager] = <<>> /\ plan'[j] = <<Op("turn", T, p)>>
         /\ \A q \in Process : q # QueueManager /\ q # j => plan'[q] = plan[q]
         /\ snap' = snap /\ inbox' = inbox
  BY ColdStartMoves
<1>2. NoPaused(snap[T])
  <2>1. Suits(Next1(QueueManager), snap[T])
    BY <1>1, Processes DEF On, Waits, WaitsWell, Op
  <2> QED BY <1>1, <2>1 DEF Suits, Op
<1>3. Suits(Head(plan'[j]), snap[T])
  BY <1>1, <1>2, Single DEF Suits, Op
<1> QED BY <1>1, <1>3, WaitsHandedOn, Processes

\* Waits is kept when the manager queues a resumed task again.
LEMMA WaitsRequeue ==
    ASSUME WorkflowTypeOK, HandedOn, Waits, Requeue
    PROVE  Waits'
<1> PICK T : T = Next1(QueueManager).task
  OBVIOUS
<1>1. /\ Moves(T, QueueManager, ReadyQueue) /\ plan'[QueueManager] = <<>>
      /\ \A q \in Process : q # QueueManager => plan'[q] = plan[q]
      /\ snap' = snap /\ inbox' = inbox
  BY RequeueMoves
<1> QED BY <1>1, WaitsHandedOn, Processes

\* Waits is kept when an execution ends.
LEMMA WaitsExecution ==
    ASSUME WorkflowTypeOK, HandedOn, Waits, NEW t \in Task, NEW p \in Phase, NEW n \in Slots,
           ScriptEnds(t, p, n) \/ TurnEnds(t, p, n)
    PROVE  Waits'
<1> PICK j : j = <<t, p, n>>
  OBVIOUS
<1>1. /\ j \in Job /\ plan[j] # <<>> /\ Next1(j).task = t /\ Next1(j).do \in {"script", "turn"}
      /\ \E v : /\ plan' = [plan EXCEPT ![j] = v]
                /\ v = <<>> \/ Head(v).do \in {"meter", "complete", "skip", "fail"}
  BY ExecutionEnds
<1>2. /\ Moves(t, j, j) /\ snap' = snap /\ inbox' = inbox
      /\ \A q \in Process : q # j => plan'[q] = plan[q]
  BY ExecutionMoves
<1>3. NoPaused(snap[t])
  <2>1. Suits(Next1(j), snap[t])
    BY <1>1, Processes DEF On, Waits, WaitsWell
  <2> QED BY <1>1, <2>1, Suiting
<1>4. plan'[j] = <<>> \/ Head(plan'[j]).do \in {"meter", "complete", "skip", "fail"}
  BY <1>1, Processes DEF WorkflowTypeOK, PlansOK
<1>5. plan'[j] = <<>> \/ Suits(Head(plan'[j]), snap[t])
  BY <1>3, <1>4 DEF Suits
<1> QED BY <1>1, <1>2, <1>5, WaitsHandedOn, Processes

\* Waits is kept by the heartbeat.
LEMMA WaitsHeartbeat ==
    ASSUME WorkflowTypeOK, HandedOn, Waits, Heartbeat
    PROVE  Waits'
<1>1. /\ ready' = ready \o backoff /\ backoff' = <<>> /\ inbox' = inbox /\ plan' = plan
      /\ snap' = snap /\ ready \in Seq(Task) /\ backoff \in Seq(Task)
  BY DEF Heartbeat, WorkflowTypeOK, StateOK
<1>2. \A i \in DOMAIN ready' :
         \/ i \in DOMAIN ready /\ ready'[i] = ready[i]
         \/ i - Len(ready) \in DOMAIN backoff /\ ready'[i] = backoff[i - Len(ready)]
  BY <1>1, Joined
<1>3. ASSUME NEW t \in Task, Holds(ReadyQueue, t)'
      PROVE  snap[t].status = "Running"
  <2>1. Holds(ReadyQueue, t) \/ Holds(BackoffQueue, t)
    BY <1>2, <1>3, Holder
  <2> QED BY <2>1, QueuesArePlaces, Processes DEF Waits, WaitsWell
<1>4. ASSUME NEW x \in Place, NEW t \in Task, Holds(x, t)'
      PROVE  snap[t].status = "Running" \/ (x = User /\ Head(plan'[User]).do = "begin")
  <2>1. x # BackoffQueue
    BY <1>1, <1>4, Holder
  <2>2. CASE x # ReadyQueue
    <3>1. Holds(x, t)
      BY <1>1, <1>4, <2>1, <2>2, PlaceKept
    <3> QED BY <1>1, <3>1 DEF Waits, WaitsWell, Next1
  <2> QED BY <1>3, <1>4, <2>2
<1> QED BY <1>1, <1>4, WaitsKept

\* Waits is kept when the manager comes to rest.
LEMMA WaitsPause ==
    ASSUME Waits, PumpEnds \/ WorkEnds \/ UNCHANGED vars
    PROVE  Waits'
<1>1. snap' = snap /\ inbox' = inbox /\ plan' = plan /\ ready' = ready /\ backoff' = backoff
  BY DEF PumpEnds, WorkEnds, queues, vars
<1>2. \A x \in Place, t \in Task : Holds(x, t)' => Holds(x, t)
  BY <1>1, PlaceKept
<1>3. \A x \in Place, t \in Task : Holds(x, t)' =>
         snap[t].status = "Running" \/ (x = User /\ Head(plan'[User]).do = "begin")
  BY <1>1, <1>2 DEF Waits, WaitsWell, Next1
<1> QED BY <1>1, <1>3, WaitsKept

\* Waits is kept by a crash: what runs is ready, and nobody is at work.
LEMMA WaitsCrash ==
    ASSUME Waits, Crash
    PROVE  Waits'
<1>1. /\ snap' = snap /\ inbox' = <<>> /\ backoff' = <<>> /\ \A q \in Process : plan'[q] = <<>>
      /\ \A i \in DOMAIN ready' : ready'[i] \in Task /\ snap[ready'[i]].status = "Running"
  BY DEF Crash
<1>2. DOMAIN <<>> = {}
  OBVIOUS
<1>3. ASSUME NEW x \in Place, NEW t \in Task, Holds(x, t)'
      PROVE  snap[t].status = "Running"
  <2>1. x = ReadyQueue
    BY <1>1, <1>2, <1>3, Holder, IsOn
  <2> QED BY <1>1, <1>3, <2>1, Holder
<1>4. \A q \in Process, t \in Task : ~On(q, t)'
  BY <1>1, IsOn
<1> QED BY <1>1, <1>2, <1>3, <1>4, WaitsKept

\* What follows on a refusal suits the task if the operation that was refused did.
LEMMA RefusalSuits ==
    ASSUME WorkflowTypeOK, NEW q \in Process, q # User, plan[q] # <<>>, Next1(q).do \in StoreOps,
           NEW s \in Snapshot, ~Accepts(Next1(q), s), Suits(Next1(q), s),
           NEW v, v = AfterRefusal(q, Next1(q), s)
    PROVE  v = <<>> \/ Suits(Head(v), s)
<1>1. /\ Next1(q) = Head(plan[q])
      /\ q = QueueManager => plan[q] \in ManagerPlans(Next1(q).task, Next1(q).phase)
      /\ IsA("folder", q) => plan[q] \in ScriptPlans(Next1(q).task, Next1(q).phase)
      /\ IsA("prompt", q) => plan[q] \in AgentPlans(Next1(q).task, Next1(q).phase)
      /\ q = QueueManager \/ IsA("folder", q) \/ IsA("prompt", q)
      /\ q = QueueManager => q \notin Job
  BY PlanIs, Processes
<1>2. \/ /\ Next1(q).do = "complete"
         /\ v # <<>> /\ Head(v).do \in {"phaseFailed", "fail", "turn"}
      \/ Next1(q).do \in {"meter", "finish", "clear", "unstop"} /\ v = Tail(plan[q])
  BY Refused, Single, Double DEF Op
<1>3. CASE Next1(q).do = "complete"
  BY <1>2, <1>3 DEF Suits
<1>4. CASE Next1(q).do # "complete"
  <2>0. v = Tail(plan[q])
    BY <1>2, <1>4
  <2>1. CASE q = QueueManager
    <3>1. \/ Tail(plan[q]) = <<>>
          \/ Tail(plan[q]) = <<Op("requeue", Next1(q).task, Next1(q).phase)>>
      BY <1>1, <1>2, <1>4, <2>1, ManagerPlan
    <3>2. v = <<>> \/ Head(v).do = "requeue"
      <4> PICK a : a = Op("requeue", Next1(q).task, Next1(q).phase)
        OBVIOUS
      <4>1. Head(<<a>>) = a /\ a.do = "requeue"
        BY Single DEF Op
      <4> QED BY <2>0, <3>1, <4>1
    <3> QED BY <3>2 DEF Suits
  <2>2. CASE IsA("folder", q)
    <3>1. Next1(q).do = "meter" /\ NoPaused(s)
      BY <1>1, <1>2, <1>4, <2>2, ScriptPlan, Suiting
    <3>2. \/ Tail(plan[q]) = <<Op("complete", Next1(q).task, Next1(q).phase),
                               Op("phaseCompleted", Next1(q).task, Next1(q).phase)>>
          \/ Tail(plan[q]) = <<Op("fail", Next1(q).task, Next1(q).phase),
                               Op("phaseFailed", Next1(q).task, Next1(q).phase)>>
      BY <1>1, <2>2, <3>1, ScriptPlan
    <3>3. Head(v).do \in {"complete", "fail"}
      <4> PICK a, b, c, d : /\ a = Op("complete", Next1(q).task, Next1(q).phase)
                            /\ b = Op("phaseCompleted", Next1(q).task, Next1(q).phase)
                            /\ c = Op("fail", Next1(q).task, Next1(q).phase)
                            /\ d = Op("phaseFailed", Next1(q).task, Next1(q).phase)
        OBVIOUS
      <4>1. /\ Head(<<a, b>>) = a /\ Head(<<c, d>>) = c
            /\ a.do = "complete" /\ c.do = "fail"
        BY Double DEF Op
      <4> QED BY <2>0, <3>2, <4>1
    <3> QED BY <3>1, <3>3 DEF Suits
  <2>3. CASE IsA("prompt", q)
    <3>1. Next1(q).do = "meter"
      BY <1>1, <1>2, <1>4, <2>3, AgentPlan
    <3>2. Tail(plan[q]) = <<>>
      BY <1>1, <2>3, <3>1, AgentPlan
    <3> QED BY <2>0, <3>2
  <2> QED BY <1>1, <2>1, <2>2, <2>3
<1> QED BY <1>3, <1>4

\* Waits is kept by a read.
LEMMA WaitsRead ==
    ASSUME WorkflowTypeOK, HandedOn, Waits, NEW q \in Process, Read(q)
    PROVE  Waits'
<1> PICK T \in Task : T = Next1(q).task /\ plan[q] # <<>> /\ Next1(q).do \in StoreOps
  BY PlanIs DEF Read
<1>1. /\ snap' = snap /\ inbox' = inbox /\ ready' = ready /\ backoff' = backoff
      /\ held[q] = NoSnapshot /\ snap[T] \in Snapshot
  BY DEF Read, queues, WorkflowTypeOK, StateOK
<1> PICK v : v = AfterRefusal(q, Next1(q), snap[T])
  OBVIOUS
<1>2. \/ plan' = plan
      \/ plan' = [plan EXCEPT ![q] = v] /\ ~Accepts(Next1(q), snap[T])
  BY DEF Read
<1>3. CASE plan' = plan
  <2>1. \A x \in Place, t \in Task : Holds(x, t)' => Holds(x, t)
    BY <1>1, <1>3, PlaceKept
  <2>2. \A x \in Place, t \in Task : Holds(x, t)' =>
           snap[t].status = "Running" \/ (x = User /\ Head(plan'[User]).do = "begin")
    BY <1>3, <2>1 DEF Waits, WaitsWell, Next1
  <2> QED BY <1>1, <1>3, <2>2, WaitsKept
<1>4. CASE plan' = [plan EXCEPT ![q] = v] /\ ~Accepts(Next1(q), snap[T])
  <2>1. /\ plan'[q] = v /\ \A r \in Process : r # q => plan'[r] = plan[r]
        /\ v # <<>> => Head(v).task = T
        /\ Engaged(v) => Engaged(plan[q])
        /\ q = User => v = <<>>
    BY <1>1, <1>4, RefusedPlan DEF WorkflowTypeOK, PlansOK
  <2>2. ASSUME NEW t \in Task, On(q, t)' PROVE t = T /\ q # User
    <3>1. Head(plan'[q]).task = t /\ plan'[q] # <<>>
      BY <2>2, IsOn
    <3> QED BY <2>1, <3>1
  <2>3. \A x \in Place, t \in Task : Holds(x, t)' => Holds(x, t) /\ (x = User => q # User)
    <3>1. \A x \in Place, t \in Task : x # q /\ Holds(x, t)' => Holds(x, t)
      BY <1>1, <2>1, PlaceKept
    <3>2. \A t \in Task : Holds(q, t)' => Holds(q, t) /\ q # User
      BY <2>1, <2>2, Holder DEF On
    <3> QED BY <3>1, <3>2
  <2>4. \A x \in Place, t \in Task : Holds(x, t)' =>
           snap[t].status = "Running" \/ (x = User /\ Head(plan'[User]).do = "begin")
    BY <2>1, <2>3, Processes DEF Waits, WaitsWell, Next1
  <2>5. q # User => v = <<>> \/ Suits(Head(v), snap[T])
    <3>1. q # User => Suits(Next1(q), snap[T])
      BY DEF On, Waits, WaitsWell
    <3> QED BY <1>1, <1>4, <3>1, RefusalSuits
  <2>6. ASSUME NEW r \in Process, NEW t \in Task, r # User, On(r, t)'
        PROVE  plan'[r] = plan[r] \/ Suits(Head(plan'[r]), snap[t])
    <3>1. r = q => plan'[r] # <<>> /\ t = T
      BY <2>2, <2>6, IsOn
    <3> QED BY <2>1, <2>5, <2>6, <3>1
  <2> QED BY <1>1, <2>4, <2>6, WaitsKept
<1> QED BY <1>2, <1>3, <1>4

\* Waits is kept by a request for a task that runs or begins.
LEMMA WaitsAsked ==
    ASSUME WorkflowTypeOK, Waits, NEW t \in Task, NEW p \in Phase, NEW v \in UserPlans(t, p),
           UserDoes(v), snap' = snap, inbox' = inbox, ready' = ready, backoff' = backoff,
           Engaged(v) => snap[t].status = "Running" \/ Head(v).do = "begin"
    PROVE  Waits'
<1>1. plan'[User] = v /\ \A q \in Process : q # User => plan'[q] = plan[q]
  BY Processes DEF UserDoes, WorkflowTypeOK, PlansOK
<1>2. Head(v).task = t
  BY UserPlan DEF Op
<1>3. ASSUME NEW u \in Task, On(User, u)' PROVE u = t
  <2>1. Head(plan'[User]).task = u
    BY <1>3, IsOn
  <2> QED BY <1>1, <1>2, <2>1
<1>4. \A x \in Place, u \in Task : x # User /\ Holds(x, u)' => Holds(x, u)
  BY <1>1, PlaceKept
<1>5. \A u \in Task : Holds(User, u)' => u = t /\ Engaged(v)
  BY <1>1, <1>3, Holder, Processes
<1>6. \A x \in Place, u \in Task : Holds(x, u)' =>
         snap[u].status = "Running" \/ (x = User /\ Head(plan'[User]).do = "begin")
  BY <1>1, <1>4, <1>5 DEF Waits, WaitsWell
<1> QED BY <1>1, <1>6, WaitsKept

\* Who is asked for a task that was not stopped finds it waiting, and running.
LEMMA WaitsRequest ==
    ASSUME WorkflowTypeOK, Traces, Waits, OnlyDisturbedBy({"reopen", "crash", "tool"})',
           mishaps \subseteq mishaps', NEW t \in Task, Request(t)
    PROVE  Waits'
<1>1. /\ snap' = snap /\ inbox' = inbox /\ ready' = ready /\ backoff' = backoff
  BY DEF Request, Start, Resume, Stop, ToolStart, Archive, SubmitInput, Reopen, queues
<1>2. /\ "resume" \notin mishaps' /\ "submit" \notin mishaps' /\ "stop" \notin mishaps
      /\ "stop" \notin mishaps' /\ "archive" \notin mishaps'
  BY DEF OnlyDisturbedBy
<1>3. CASE Start(t)
  <2>1. PICK v : v = <<Op("begin", t, 1), Op("startTask", t, 1)>>
    OBVIOUS
  <2>2. v \in UserPlans(t, 1) /\ Head(v).do = "begin"
    BY <2>1, Double DEF UserPlans, Op
  <2>3. UserDoes(v)
    BY <1>3, <2>1 DEF Start
  <2> QED BY <1>1, <2>2, <2>3, PhaseFacts, WaitsAsked
<1>4. CASE Resume(t)
  <2>1. PICK v : v = <<Op("resumeTask", t, 1)>>
    OBVIOUS
  <2>2. v \in UserPlans(t, 1) /\ UserDoes(v)
    BY <1>4, <2>1 DEF UserPlans, Resume
  <2>3. snap[t].status # "Stopped"
    BY <1>2 DEF Traces, Traced
  <2>4. snap[t].status = "Running"
    BY <1>4, <2>3 DEF Resume, HasPaused, Waits, WaitsWell
  <2> QED BY <1>1, <2>2, <2>4, PhaseFacts, WaitsAsked
<1>5. ASSUME NEW p \in Phase, SubmitInput(t, p) PROVE Waits'
  <2>1. PICK v : v = <<Op("complete", t, p), Op("phaseCompleted", t, p)>>
    OBVIOUS
  <2>2. v \in UserPlans(t, p) /\ UserDoes(v)
    BY <1>5, <2>1 DEF UserPlans, SubmitInput
  <2>3. snap[t].phases[p] = "Paused"
    BY <1>2, <1>5 DEF SubmitInput, Intervene
  <2>4. snap[t].status = "Running"
    BY <2>3 DEF Waits, WaitsWell
  <2> QED BY <1>1, <2>2, <2>4, WaitsAsked
<1>6. ASSUME NEW p \in Phase, NEW do \in {"begin", "reopen"}, UserDoes(<<Op(do, t, p)>>)
      PROVE  Waits'
  <2>1. PICK v : v = <<Op(do, t, p)>>
    OBVIOUS
  <2>2. v \in UserPlans(t, p) /\ UserDoes(v)
    BY <1>6, <2>1 DEF UserPlans
  <2>3. ~Engaged(v)
    BY <2>1, Single DEF Op, Loose
  <2> QED BY <1>1, <2>2, <2>3, WaitsAsked
<1>7. CASE Stop(t) \/ Archive(t)
  BY <1>2, <1>7 DEF Stop, Archive, Intervene
<1>8. CASE ToolStart(t)
  BY <1>6, <1>8, PhaseFacts DEF ToolStart
<1>9. ASSUME NEW p \in Phase, Reopen(t, p) PROVE Waits'
  BY <1>6, <1>9 DEF Reopen
<1> QED BY <1>3, <1>4, <1>5, <1>7, <1>8, <1>9 DEF Request

\* The phases before a phase are other phases.
LEMMA Earlier == \A p \in Phase : \A r \in 1 .. p - 1 : r \in Phase /\ r # p
BY WorkflowAssumptions DEF Phase

\* What an operation on the file leaves paused, and what suits the task next.
LEMMA SuitsNext ==
    ASSUME NEW s \in Snapshot, NEW op, op.phase \in Phase,
           op.do \in {"start", "pause", "complete", "skip", "fail", "meter", "finish", "giveUp",
                      "approve", "clear"},
           Suits(op, s), \A p \in Phase : s.phases[p] = "Paused" => IsNext(s, p),
           NEW r, r = Applied(op, s)
    PROVE  /\ op.do \notin {"pause", "approve"} => NoPaused(r)
           /\ \A p \in Phase : r.phases[p] = "Paused" => IsNext(r, p)
           /\ op.do = "start" => \A p \in 1 .. op.phase - 1 : ~Open(r, p)
<1>1. CASE op.do = "start"
  <2>1. /\ r.phases[op.phase] = "Running"
        /\ \A p \in Phase : p # op.phase => r.phases[p] = s.phases[p]
    BY <1>1, AppliedToPhase
  <2>2. IsNext(s, op.phase)
    BY <1>1 DEF Suits
  <2>3. \A p \in Phase : s.phases[p] = "Paused" => p = op.phase
    BY <2>2, OneIsNext
  <2>4. NoPaused(r)
    BY <2>1, <2>3 DEF NoPaused
  <2>5. ASSUME NEW p \in 1 .. op.phase - 1 PROVE ~Open(r, p)
    <3>1. p \in Phase /\ p # op.phase /\ ~Open(s, p)
      BY <2>2, Earlier DEF IsNext
    <3> QED BY <2>1, <3>1 DEF Open
  <2> QED BY <1>1, <2>4, <2>5 DEF NoPaused
<1>2. CASE op.do = "pause"
  <2>1. /\ r.phases[op.phase] = "Paused"
        /\ \A p \in Phase : p # op.phase => r.phases[p] = s.phases[p]
    BY <1>2, AppliedToPhase
  <2>2. /\ \A p \in 1 .. op.phase - 1 : ~Open(s, p)
        /\ \A p \in Phase : s.phases[p] = "Paused" => p = op.phase
    BY <1>2 DEF Suits
  <2>3. ASSUME NEW p \in 1 .. op.phase - 1 PROVE ~Open(r, p)
    <3>1. p \in Phase /\ p # op.phase /\ ~Open(s, p)
      BY <2>2, Earlier
    <3> QED BY <2>1, <3>1 DEF Open
  <2>4. \A p \in Phase : r.phases[p] = "Paused" => p = op.phase
    BY <2>1, <2>2
  <2> QED BY <1>2, <2>1, <2>3, <2>4 DEF IsNext, Open
<1>3. CASE op.do \in {"complete", "skip", "fail", "meter", "finish", "giveUp"}
  <2>1. NoPaused(s)
    BY <1>3, Suiting
  <2>2. CASE op.do \in {"complete", "skip", "fail"}
    BY <1>3, <2>1, <2>2, AppliedToPhase DEF NoPaused
  <2>3. CASE op.do \in {"meter", "finish", "giveUp"}
    BY <1>3, <2>1, <2>3, AppliedToStatus DEF NoPaused
  <2> QED BY <1>3, <2>2, <2>3 DEF NoPaused
<1>4. CASE op.do = "approve"
  <2>1. \A p \in Phase : r.phases[p] = Approved(p, s.phases[p])
    BY <1>4, AppliedToPhases
  <2>2. \A p \in Phase : /\ Open(r, p) => Open(s, p)
                         /\ r.phases[p] = "Paused" => s.phases[p] = "Paused"
    BY <2>1 DEF Approved, Open
  <2>3. ASSUME NEW p \in Phase, r.phases[p] = "Paused" PROVE IsNext(r, p)
    <3>1. IsNext(s, p) /\ 1 .. p - 1 \subseteq Phase
      BY <2>2, <2>3, Earlier
    <3> QED BY <2>2, <2>3, <3>1 DEF IsNext, Open
  <2> QED BY <1>4, <2>3
<1>5. CASE op.do = "clear"
  <2>1. \A p \in Phase : r.phases[p] = Cleared(op.task, p, s.phases[p])
    BY <1>5, AppliedToPhases
  <2>2. \A p \in Phase : r.phases[p] # "Paused"
    BY <2>1 DEF Cleared
  <2> QED BY <1>5, <2>2 DEF NoPaused
<1> QED BY <1>1, <1>2, <1>3, <1>4, <1>5

\* What is left to do follows on what was done.
LEMMA WorkerNext ==
    ASSUME WorkflowTypeOK, NEW q \in Process, q # User, plan[q] # <<>>,
           NEW v, v = Tail(plan[q]), v # <<>>
    PROVE  /\ Head(v).phase = Next1(q).phase /\ Head(v).task = Next1(q).task
           /\ Head(v).do \notin {"route", "start"}
           /\ Head(v).do = "pause" => Next1(q).do = "start"
           /\ Next1(q).do = "approve" => Head(v).do = "clear"
           /\ Next1(q).do \notin {"pause", "finish", "giveUp"}
<1> PICK t, p : t = Next1(q).task /\ p = Next1(q).phase
  OBVIOUS
<1>1. /\ Next1(q) = Head(plan[q]) /\ IsPlan(q, plan[q])
      /\ q = QueueManager => plan[q] \in ManagerPlans(t, p)
      /\ IsA("folder", q) => plan[q] \in ScriptPlans(t, p)
      /\ IsA("prompt", q) => plan[q] \in AgentPlans(t, p)
      /\ q = QueueManager \/ IsA("folder", q) \/ IsA("prompt", q)
  BY PlanIs
<1>2. Head(v).phase = Next1(q).phase /\ Head(v).task = Next1(q).task
  BY <1>1, PlanTail
<1> PICK w : w = plan[q]
  OBVIOUS
<1>3. ASSUME NEW do, NEW b, v = <<Op(do, t, p)>> \/ v = <<Op(do, t, p), b>>
      PROVE  Head(v).do = do
  <2>1. PICK a : a = Op(do, t, p)
    OBVIOUS
  <2>2. Head(<<a>>) = a /\ Head(<<a, b>>) = a /\ a.do = do
    BY <2>1, Single, Double DEF Op
  <2> QED BY <1>3, <2>1, <2>2
<1>4. CASE q = QueueManager
  <2>1. w \in ManagerPlans(t, p) /\ Next1(q) = Head(w) /\ v = Tail(w)
    BY <1>1, <1>4
  <2>2. /\ Next1(q).do = "start" /\ v \in {<<Op("pause", t, p)>>, <<Op("coldStart", t, p)>>}
        \/ /\ Next1(q).do = "approve" /\ v = <<Op("clear", t, p), Op("requeue", t, p)>>
        \/ /\ Next1(q).do \in {"clear", "unstop"} /\ v = <<Op("requeue", t, p)>>
    BY <2>1, ManagerPlan
  <2>3. \/ Next1(q).do = "start" /\ Head(v).do \in {"pause", "coldStart"}
        \/ Next1(q).do = "approve" /\ Head(v).do = "clear"
        \/ Next1(q).do \in {"clear", "unstop"} /\ Head(v).do = "requeue"
    BY <1>3, <2>2
  <2> QED BY <1>2, <2>3
<1>5. CASE IsA("folder", q)
  <2>1. w \in ScriptPlans(t, p) /\ Next1(q) = Head(w) /\ v = Tail(w)
    BY <1>1, <1>5
  <2>2. /\ Next1(q).do \in {"start", "meter", "complete", "fail"}
        /\ v \in {<<Op("script", t, p)>>, <<Op("phaseCompleted", t, p)>>, <<Op("phaseFailed", t, p)>>,
                  <<Op("complete", t, p), Op("phaseCompleted", t, p)>>,
                  <<Op("fail", t, p), Op("phaseFailed", t, p)>>}
    BY <2>1, ScriptPlan
  <2>3. Head(v).do \in {"script", "phaseCompleted", "phaseFailed", "complete", "fail"}
    BY <1>3, <2>2
  <2> QED BY <1>2, <2>2, <2>3
<1>6. CASE IsA("prompt", q)
  <2>1. w \in AgentPlans(t, p) /\ Next1(q) = Head(w) /\ v = Tail(w)
    BY <1>1, <1>6
  <2>2. /\ Next1(q).do \in {"fail", "complete", "skip", "phaseCompleted"}
        /\ v \in {<<Op("turn", t, p)>>, <<Op("phaseCompleted", t, p)>>, <<Op("meter", t, p)>>,
                  <<Op("phaseCompleted", t, p), Op("meter", t, p)>>}
    BY <2>1, AgentPlan
  <2>3. Head(v).do \in {"turn", "phaseCompleted", "meter"}
    BY <1>3, <2>2
  <2> QED BY <1>2, <2>2, <2>3
<1> QED BY <1>1, <1>4, <1>5, <1>6

\* A write gives nobody else a task.
LEMMA WriteKeeps ==
    ASSUME WorkflowTypeOK, NEW q \in Process, Write(q)
    PROVE  /\ \A t \in Task : On(q, t)' => On(q, t) /\ t = Next1(q).task
           /\ \A r \in Process : r # q => \A t \in Task : On(r, t)' <=> On(r, t)
           /\ \A x \in Place, t \in Task : Holds(x, t)' => Holds(x, t)
<1>1. /\ plan[q] # <<>> /\ IsPlan(q, plan[q])
      /\ plan'[q] = Tail(plan[q]) /\ \A r \in Process : r # q => plan'[r] = plan[r]
      /\ inbox' = inbox /\ ready' = ready /\ backoff' = backoff
  BY Writes, PlanIs
<1>2. ASSUME NEW t \in Task, On(q, t)' PROVE On(q, t) /\ t = Next1(q).task
  <2>1. Head(plan'[q]).task = t /\ plan'[q] # <<>>
    BY <1>2, IsOn
  <2>2. Head(Tail(plan[q])).task = t /\ Tail(plan[q]) # <<>>
    BY <1>1, <2>1
  <2>3. t = Next1(q).task
    BY <1>1, <2>2, PlanTail DEF Next1
  <2> QED BY <1>1, <2>3 DEF On
<1>3. \A r \in Process : r # q => \A t \in Task : On(r, t)' <=> On(r, t)
  BY <1>1 DEF On, Next1
<1>4. \A x \in Place, t \in Task : x # q /\ Holds(x, t)' => Holds(x, t)
  BY <1>1, PlaceKept
<1>5. Engaged(plan'[q]) => Engaged(plan[q])
  BY <1>1, PlanTail
<1>6. \A t \in Task : Holds(q, t)' => Holds(q, t)
  BY <1>2, <1>5, Holder
<1> QED BY <1>2, <1>3, <1>4, <1>6

\* What is not written to waits on.
LEMMA WaitsElsewhere ==
    ASSUME WorkflowTypeOK, Waits, NEW q \in Process, Write(q),
           NEW t \in Task, t # Next1(q).task
    PROVE  WaitsWell(t)'
<1>1. /\ snap'[t] = snap[t] /\ inbox' = inbox
      /\ \A r \in Process : r # q => plan'[r] = plan[r]
  BY Writes
<1>2. \A r \in Process : On(r, t)' => On(r, t) /\ plan'[r] = plan[r]
  BY <1>1, WriteKeeps
<1>3. \A x \in Place : Holds(x, t)' => Holds(x, t) /\ (x = User => plan'[User] = plan[User])
  BY <1>2, WriteKeeps, Holder, Processes
<1>4. WaitsWell(t)
  BY DEF Waits
<1>5. \A x \in Place : Holds(x, t)' =>
         snap'[t].status = "Running" \/ (x = User /\ Next1(User)'.do = "begin")
  BY <1>1, <1>3, <1>4 DEF WaitsWell, Next1
<1>6. \A r \in Process : On(r, t)' /\ r # User => Suits(Next1(r)', snap'[t])
  BY <1>1, <1>2, <1>4 DEF WaitsWell, Next1
<1> QED BY <1>1, <1>4, <1>5, <1>6 DEF WaitsWell

\* A task that is written to by who works on it waits well.
LEMMA WaitsWritten ==
    ASSUME WorkflowTypeOK, Traces, HandedOn, FreshRead, Waits,
           OnlyDisturbedBy({"reopen", "crash", "tool"}),
           NEW q \in Process, Write(q), q # User, NEW T \in Task, T = Next1(q).task
    PROVE  WaitsWell(T)'
<1> PICK op : op = Next1(q)
  OBVIOUS
<1> PICK s : s = held[q]
  OBVIOUS
<1> PICK r : r = Applied(op, s)
  OBVIOUS
<1>1. /\ plan[q] # <<>> /\ op.do \in StoreOps /\ op.phase \in Phase /\ op.task = T
      /\ s \in Snapshot /\ Accepts(op, s) /\ held[q] # NoSnapshot
      /\ snap'[T] = r /\ inbox' = inbox
      /\ plan'[q] = Tail(plan[q]) /\ \A x \in Process : x # q => plan'[x] = plan[x]
  BY Writes
<1>2. op.do \in {"start", "pause", "complete", "skip", "fail", "meter", "finish", "giveUp",
                 "approve", "clear", "unstop"}
  BY <1>1, PlanIs DEF StoreOps
<1>3. /\ "tokens" \notin mishaps /\ "stop" \notin mishaps /\ "archive" \notin mishaps
  BY DEF OnlyDisturbedBy
<1>4. op.do # "unstop"
  BY <1>1, <1>3 DEF Traces, Traced, Accepts
<1>5. s = snap[T]
  BY <1>1, <1>2, <1>3 DEF FreshRead, Traces, Traced
<1>6. On(q, T) /\ Holds(q, T) /\ q \in Place
  BY <1>1, <1>3, WorkerHolds, ProcessIsPlace DEF On
<1>7. \A x \in Place : Holds(x, T) => x = q
  BY <1>6 DEF HandedOn, Exclusive
<1>8. /\ s.status = "Running" /\ Suits(op, s)
      /\ \A p \in Phase : s.phases[p] = "Paused" => IsNext(s, p)
  BY <1>5, <1>6 DEF Waits, WaitsWell
<1>9. /\ op.do \notin {"pause", "approve"} => NoPaused(r)
      /\ \A p \in Phase : r.phases[p] = "Paused" => IsNext(r, p)
      /\ op.do = "start" => \A p \in 1 .. op.phase - 1 : ~Open(r, p)
  BY <1>1, <1>2, <1>4, <1>8, SuitsNext
<1>10. op.do \notin {"finish", "giveUp"} => r.status = "Running"
  BY <1>1, <1>2, <1>4, <1>8, StatusWritten
<1>11. plan'[q] # <<>> =>
          /\ Head(plan'[q]).phase = op.phase
          /\ Head(plan'[q]).do \notin {"route", "start"}
          /\ Head(plan'[q]).do = "pause" => op.do = "start"
          /\ op.do = "approve" => Head(plan'[q]).do = "clear"
          /\ op.do \notin {"pause", "finish", "giveUp"}
  BY <1>1, WorkerNext
<1>12. plan'[q] # <<>> => Suits(Head(plan'[q]), r)
  BY <1>9, <1>11 DEF Suits, NoPaused
<1>13. ASSUME NEW x \in Place, Holds(x, T)' PROVE r.status = "Running"
  <2>1. x = q
    BY <1>7, <1>13, WriteKeeps
  <2>2. plan'[q] # <<>>
    BY <1>13, <2>1, Holder, IsOn
  <2> QED BY <1>10, <1>11, <2>2
<1>14. \A p \in Phase : r.phases[p] = "Paused" => r.status = "Running" /\ IsNext(r, p)
  BY <1>8, <1>9, <1>10 DEF NoPaused
<1>15. \A i \in DOMAIN inbox' : inbox'[i].task # T
  BY <1>1, <1>6, <1>7, Holder, QueuesArePlaces, Processes
<1>16. ASSUME NEW x \in Process, On(x, T)', x # User PROVE Suits(Head(plan'[x]), r)
  <2>1. CASE x # q
    <3>1. On(x, T)
      BY <1>16, <2>1, WriteKeeps
    <3>2. Holds(x, T)
      BY <1>3, <1>16, <3>1, WorkerHolds
    <3> QED BY <1>7, <2>1, <3>2, ProcessIsPlace
  <2>2. CASE x = q
    BY <1>12, <1>16, <2>2, IsOn
  <2> QED BY <2>1, <2>2
<1> QED BY <1>1, <1>13, <1>14, <1>15, <1>16 DEF WaitsWell, Next1

\* So does one that the user writes to.
LEMMA WaitsAnswered ==
    ASSUME WorkflowTypeOK, Traces, HandedOn, FreshRead, Waits,
           OnlyDisturbedBy({"reopen", "crash", "tool"}), Write(User),
           NEW T \in Task, T = Next1(User).task
    PROVE  WaitsWell(T)'
<1> PICK op : op = Next1(User)
  OBVIOUS
<1> PICK s : s = held[User]
  OBVIOUS
<1> PICK r : r = Applied(op, s)
  OBVIOUS
<1>1. /\ plan[User] # <<>> /\ op.do \in StoreOps /\ op.phase \in Phase /\ op.task = T
      /\ s \in Snapshot /\ Accepts(op, s) /\ held[User] # NoSnapshot
      /\ snap'[T] = r /\ inbox' = inbox
      /\ plan'[User] = Tail(plan[User])
  BY Writes, Processes
<1>2. /\ op = Head(plan[User]) /\ plan[User] \in UserPlans(T, op.phase)
      /\ op.do \in {"begin", "complete", "stop", "reopen", "archive"}
  BY <1>1, PlanIs, Processes DEF StoreOps
<1>3. /\ "tokens" \notin mishaps /\ "stop" \notin mishaps /\ "archive" \notin mishaps
      /\ Orderly /\ Calm /\ Reopenable
  BY DEF OnlyDisturbedBy, Orderly, Calm, Reopenable
<1>4. op.do \notin {"stop", "archive"}
  BY <1>2, <1>3, UserPlan DEF Traces
<1>5. s = snap[T]
  BY <1>1, <1>3, <1>4, Processes DEF FreshRead, Traces, Traced
<1>6. On(User, T) /\ User \in Place
  BY <1>1, Processes, ProcessIsPlace DEF On
<1>7. \A x \in Process : x # User => ~On(x, T)
  BY <1>1, <1>3, <1>4, UserAlone
<1>8. \A x \in Place : Holds(x, T) => x = User
  <2>1. CASE op.do = "begin"
    BY <1>1, <1>5, <2>1 DEF Accepts, HandedOn, Untouched
  <2>2. CASE op.do = "complete"
    <3>1. Holds(User, T)
      BY <1>2, <1>6, <2>2, UserPlan, Holder, Processes
    <3> QED BY <1>6, <3>1 DEF HandedOn, Exclusive
  <2>3. CASE op.do = "reopen"
    BY <1>1, <1>3, <2>3, Reopened DEF Alone
  <2> QED BY <1>2, <1>4, <2>1, <2>2, <2>3
<1>9. /\ op.do = "begin" => r.status = "Running" /\ r.phases = s.phases /\ NoPaused(s)
      /\ op.do = "reopen" => NoPaused(s) /\ Tail(plan[User]) = <<>>
      /\ op.do = "complete" => Holds(User, T)
  <2>1. op.do = "begin" => s.status = "Pending" /\ NoPaused(s)
    BY <1>1, <1>5 DEF Accepts, HandedOn, Untouched
  <2>2. op.do = "reopen" => NoPaused(s) /\ Tail(plan[User]) = <<>>
    BY <1>1, <1>3, <1>5, Reopened
  <2>3. op.do = "complete" => Holds(User, T)
    BY <1>2, <1>6, UserPlan, Holder, Processes
  <2> QED BY <1>1, <2>1, <2>2, <2>3, AppliedToStatus
<1>10. op.do = "complete" =>
          /\ s.status = "Running" /\ \A p \in Phase : s.phases[p] = "Paused" => IsNext(s, p)
  BY <1>5, <1>6, <1>9 DEF Waits, WaitsWell
<1>11. op.do = "complete" =>
          /\ r.status = "Running"
          /\ r.phases[op.phase] = "Completed"
          /\ \A p \in Phase : p # op.phase => r.phases[p] = s.phases[p]
  BY <1>1, <1>10, AppliedToPhase
<1>12. ASSUME NEW p \in Phase, r.phases[p] = "Paused"
       PROVE  r.status = "Running" /\ IsNext(r, p)
  <2>1. CASE op.do = "complete"
    <3>1. p # op.phase /\ s.phases[p] = "Paused" /\ r.phases[p] = s.phases[p]
      BY <1>11, <1>12, <2>1
    <3>2. IsNext(s, p)
      BY <1>10, <2>1, <3>1
    <3>3. \A x \in 1 .. p - 1 : ~Open(r, x)
      BY <1>11, <2>1, <3>2, Earlier DEF IsNext, Open
    <3> QED BY <1>11, <1>12, <2>1, <3>3 DEF IsNext, Open
  <2>2. CASE op.do = "reopen"
    BY <1>1, <1>9, <1>12, <2>2, AppliedToBoth DEF NoPaused
  <2>3. CASE op.do = "begin"
    BY <1>9, <1>12, <2>3 DEF NoPaused
  <2> QED BY <1>2, <1>4, <2>1, <2>2, <2>3
<1>13. ASSUME NEW x \in Place, Holds(x, T)' PROVE r.status = "Running"
  <2>1. x = User
    BY <1>8, <1>13, WriteKeeps, Processes
  <2>2. plan'[User] # <<>>
    BY <1>13, <2>1, Holder, IsOn, Processes
  <2> QED BY <1>1, <1>2, <1>4, <1>9, <1>11, <2>2
<1>14. \A i \in DOMAIN inbox' : inbox'[i].task # T
  BY <1>1, <1>8, Holder, QueuesArePlaces, Processes
<1>15. \A x \in Process : x # User => ~On(x, T)'
  BY <1>7, WriteKeeps, Processes
<1> QED BY <1>1, <1>12, <1>13, <1>14, <1>15 DEF WaitsWell, Next1

\* A task that waits does so well, after every step.
LEMMA ReopenableStep ==
    ASSUME WorkflowTypeOK, Traces, Owned, Calm => FreshRead, Reopenable, [Next]_vars
    PROVE  Reopenable'
<1> SUFFICES ASSUME OnlyDisturbedBy({"reopen", "crash", "tool"})' PROVE Waits'
  BY DEF Reopenable
<1>1. OnlyDisturbedBy({"reopen", "crash", "tool"}) /\ Calm /\ Orderly /\ mishaps \subseteq mishaps'
  <2>1. OnlyDisturbedBy({"reopen", "crash", "tool"}) /\ mishaps \subseteq mishaps'
    BY Regimes, MishapsGrow
  <2> QED BY <2>1 DEF Calm, Orderly
<1>2. HandedOn /\ FreshRead /\ Waits
  BY <1>1 DEF Owned, Reopenable
<1>3. ASSUME NEW q \in Process, Write(q) PROVE Waits'
  <2>1. ASSUME NEW t \in Task, t # Next1(q).task PROVE WaitsWell(t)'
    BY <1>2, <1>3, <2>1, WaitsElsewhere
  <2>2. ASSUME NEW t \in Task, t = Next1(q).task PROVE WaitsWell(t)'
    <3>1. CASE q = User
      BY <1>1, <1>2, <1>3, <2>2, <3>1, WaitsAnswered
    <3>2. CASE q # User
      BY <1>1, <1>2, <1>3, <2>2, <3>2, WaitsWritten
    <3> QED BY <3>1, <3>2
  <2> QED BY <2>1, <2>2 DEF Waits
<1> QED BY Steps, <1>1, <1>2, <1>3, WaitsRead, WaitsTell, WaitsReceive, WaitsHeartbeat, WaitsPump,
           WaitsPause, WaitsRequeue, WaitsColdStart, WaitsRoute, WaitsExecution, WaitsRequest,
           WaitsCrash

-----------------------------------------------------------------------------
(* Nobody is at work on a phase that has its outcome.                      *)

\* A task that has an execution's operation to do is engaged.
LEMMA PhaseOpsEngage ==
    ASSUME NEW q \in Process, NEW w, IsPlan(q, w), Has(w, PhaseOps)
    PROVE  Engaged(w) /\ w # <<>>
<1>1. w # <<>>
  BY Nothing
<1>2. PICK t, p : \/ q = QueueManager /\ w \in ManagerPlans(t, p)
                  \/ q = User /\ w \in UserPlans(t, p)
                  \/ w \in ScriptPlans(t, p)
                  \/ w \in AgentPlans(t, p)
  BY <1>1, PlanOf DEF Process
<1>3. CASE w \in ManagerPlans(t, p)
  BY <1>1, <1>3, ManagerPlan
<1>4. CASE w \in UserPlans(t, p)
  BY <1>1, <1>4, UserPlan
<1>5. CASE w \in ScriptPlans(t, p)
  BY <1>1, <1>5, ScriptPlan
<1>6. CASE w \in AgentPlans(t, p)
  <2>1. Head(w).do \in {"turn", "fail", "complete", "skip"}
    BY <1>6, AgentPlan
  <2> QED BY <1>1, <1>6, <2>1, AgentPlan
<1> QED BY <1>2, <1>3, <1>4, <1>5, <1>6

\* The outcomes stay awaited while the file does not change, if what is new awaits one.
LEMMA AwaitedKept ==
    ASSUME WorkflowTypeOK, Awaited, snap' = snap,
           \A q \in Process :
              \/ plan'[q] = plan[q] \/ plan'[q] = <<>>
              \/ plan[q] # <<>> /\ plan'[q] = Tail(plan[q])
              \/ ~Has(plan'[q], PhaseOps)
              \/ ~IsDone(snap[Head(plan'[q]).task], Head(plan'[q]).phase)
    PROVE  Awaited'
<1> SUFFICES ASSUME NEW q \in Process, Has(plan'[q], PhaseOps)
             PROVE  ~IsDone(snap[Head(plan'[q]).task], Head(plan'[q]).phase)
  BY DEF Awaited, Next1
<1>1. CASE plan'[q] = plan[q]
  BY <1>1 DEF Awaited, Next1
<1>2. CASE plan'[q] = <<>>
  BY <1>2, Nothing
<1>3. CASE plan[q] # <<>> /\ plan'[q] = Tail(plan[q])
  <2>1. IsPlan(q, plan[q])
    BY DEF WorkflowTypeOK, PlansOK
  <2>2. Tail(plan[q]) # <<>> /\ Has(Tail(plan[q]), PhaseOps)
    BY <1>3, Nothing
  <2>3. /\ Has(plan[q], PhaseOps) /\ Head(plan'[q]).task = Next1(q).task
        /\ Head(plan'[q]).phase = Next1(q).phase
    BY <1>3, <2>1, <2>2, PlanTail DEF Next1
  <2> QED BY <2>3 DEF Awaited
<1> QED BY <1>1, <1>2, <1>3

\* What the manager is told of makes it do nothing to a phase.
LEMMA NoPhaseOps ==
    ASSUME WorkflowTypeOK', plan'[QueueManager] # <<>>,
           Head(plan'[QueueManager]).do \in {"giveUp", "unstop", "approve", "finish"}
    PROVE  ~Has(plan'[QueueManager], PhaseOps)
<1> PICK w : w = plan'[QueueManager]
  OBVIOUS
<1>1. IsPlan(QueueManager, w)
  BY Processes DEF WorkflowTypeOK, PlansOK
<1>2. w \in ManagerPlans(Head(w).task, Head(w).phase)
  BY <1>1, PlanOf, Processes
<1> QED BY <1>2, ManagerPlan

\* Awaited is kept when the manager takes a message.
LEMMA AwaitedReceive ==
    ASSUME WorkflowTypeOK, WorkflowTypeOK', HandedOn, Awaited, Receive
    PROVE  Awaited'
<1> PICK m : m = Head(inbox)
  OBVIOUS
<1>1. /\ snap' = snap /\ \A q \in Process : q # QueueManager => plan'[q] = plan[q]
      /\ \/ plan' = plan
         \/ Head(plan'[QueueManager]).do \in {"giveUp", "unstop", "approve"}
  BY ReceiveMoves
<1>2. plan' = plan \/ plan'[QueueManager] = <<>> \/ ~Has(plan'[QueueManager], PhaseOps)
  BY <1>1, NoPhaseOps
<1> QED BY <1>1, <1>2, AwaitedKept

\* Awaited is kept by the pump: the next phase has no outcome.
LEMMA AwaitedPump ==
    ASSUME WorkflowTypeOK, WorkflowTypeOK', HandedOn, Awaited, Pump
    PROVE  Awaited'
<1> PICK T, p : T = Head(ready) /\ p = NextPhase(snap[T])
  OBVIOUS
<1>1. /\ snap' = snap /\ \A q \in Process : q # QueueManager => plan'[q] = plan[q]
      /\ \/ p = 0 /\ plan'[QueueManager] = <<Op("finish", T, 1)>>
         \/ p # 0 /\ plan'[QueueManager] = <<Op("route", T, p)>>
  BY PumpMoves
<1>2. CASE p = 0
  <2>1. plan'[QueueManager] # <<>> /\ Head(plan'[QueueManager]).do = "finish"
    BY <1>1, <1>2, Single DEF Op
  <2> QED BY <1>1, <2>1, NoPhaseOps, AwaitedKept
<1>3. CASE p # 0
  <2>1. Head(plan'[QueueManager]).task = T /\ Head(plan'[QueueManager]).phase = p
    BY <1>1, <1>3, Single DEF Op
  <2>2. IsNext(snap[T], p)
    BY <1>3, NextPhaseIsOpen
  <2>3. ~IsDone(snap[T], p)
    BY <2>2 DEF IsNext, Open, IsDone
  <2> QED BY <1>1, <2>1, <2>3, AwaitedKept
<1> QED BY <1>2, <1>3

\* Awaited is kept when the manager pauses a phase or starts its execution.
LEMMA AwaitedRoute ==
    ASSUME WorkflowTypeOK, HandedOn, Awaited, NEW t \in Task, NEW p \in Phase,
           RouteToPause(t, p) \/ RouteToScript(t, p) \/ RouteToAgent(t, p)
    PROVE  Awaited'
<1>1. /\ plan[QueueManager] # <<>> /\ Next1(QueueManager) = Op("route", t, p) /\ snap' = snap
      /\ \A q \in Process :
            \/ Head(plan'[q]) \in {Op("start", t, p), Op("pause", t, p)}
            \/ plan'[q] = <<>> \/ plan'[q] = plan[q]
  BY RouteMoves
<1>2. ~IsDone(snap[t], p)
  <2>1. Next1(QueueManager).task = t /\ Next1(QueueManager).phase = p
        /\ Next1(QueueManager).do = "route"
    BY <1>1 DEF Op
  <2>2. plan[QueueManager] \in ManagerPlans(t, p) /\ Next1(QueueManager) = Head(plan[QueueManager])
    BY <1>1, <2>1, PlanIs, Processes
  <2>3. Has(plan[QueueManager], PhaseOps)
    BY <2>1, <2>2, ManagerPlan
  <2> QED BY <2>1, <2>3, Processes DEF Awaited
<1>3. \A q \in Process :
         \/ plan'[q] = plan[q] \/ plan'[q] = <<>>
         \/ ~IsDone(snap[Head(plan'[q]).task], Head(plan'[q]).phase)
  BY <1>1, <1>2 DEF Op
<1> QED BY <1>1, <1>3, AwaitedKept

\* Awaited is kept when the manager starts an agent.
LEMMA AwaitedColdStart ==
    ASSUME WorkflowTypeOK, HandedOn, Awaited, ColdStart
    PROVE  Awaited'
<1>1. PICK t \in Task, p \in Phase, j \in Job :
         /\ Next1(QueueManager) = Op("coldStart", t, p) /\ plan[QueueManager] # <<>>
         /\ plan'[QueueManager] = <<>> /\ plan'[j] = <<Op("turn", t, p)>>
         /\ \A q \in Process : q # QueueManager /\ q # j => plan'[q] = plan[q]
         /\ snap' = snap
  BY ColdStartMoves
<1>2. ~IsDone(snap[t], p)
  <2>1. Next1(QueueManager).task = t /\ Next1(QueueManager).phase = p
        /\ Next1(QueueManager).do = "coldStart"
    BY <1>1 DEF Op
  <2>2. plan[QueueManager] \in ManagerPlans(t, p) /\ Next1(QueueManager) = Head(plan[QueueManager])
    BY <1>1, <2>1, PlanIs, Processes
  <2>3. Has(plan[QueueManager], PhaseOps)
    BY <2>1, <2>2, ManagerPlan
  <2> QED BY <2>1, <2>3, Processes DEF Awaited
<1>3. Head(plan'[j]).task = t /\ Head(plan'[j]).phase = p
  BY <1>1, Single DEF Op
<1>4. \A q \in Process :
         \/ plan'[q] = plan[q] \/ plan'[q] = <<>>
         \/ ~IsDone(snap[Head(plan'[q]).task], Head(plan'[q]).phase)
  BY <1>1, <1>2, <1>3
<1> QED BY <1>1, <1>4, AwaitedKept

\* Awaited is kept when an execution ends.
LEMMA AwaitedExecution ==
    ASSUME WorkflowTypeOK, HandedOn, Awaited, NEW t \in Task, NEW p \in Phase, NEW n \in Slots,
           ScriptEnds(t, p, n) \/ TurnEnds(t, p, n)
    PROVE  Awaited'
<1> PICK j : j = <<t, p, n>>
  OBVIOUS
<1>1. /\ j \in Job /\ plan[j] # <<>> /\ Next1(j).task = t /\ Next1(j).phase = p
      /\ \/ Next1(j).do = "script" /\ IsA("folder", j)
         \/ Next1(j).do = "turn" /\ IsA("prompt", j)
      /\ \E v : /\ plan' = [plan EXCEPT ![j] = v]
                /\ \/ v = <<>>
                   \/ /\ Head(v).task = t /\ Head(v).phase = p
                      /\ Head(v).do \in {"meter", "complete", "skip", "fail"}
  BY ExecutionEnds
<1>2. snap' = snap /\ \A q \in Process : q # j => plan'[q] = plan[q]
  BY ExecutionMoves
<1>3. ~IsDone(snap[t], p)
  <2>1. /\ Next1(j) = Head(plan[j])
        /\ IsA("folder", j) => plan[j] \in ScriptPlans(t, p)
        /\ IsA("prompt", j) => plan[j] \in AgentPlans(t, p)
    BY <1>1, PlanIs, Processes
  <2>2. Has(plan[j], PhaseOps)
    BY <1>1, <2>1, ScriptPlan, AgentPlan
  <2> QED BY <1>1, <2>2, Processes DEF Awaited
<1>4. plan'[j] = <<>> \/ (Head(plan'[j]).task = t /\ Head(plan'[j]).phase = p)
  BY <1>1, Processes DEF WorkflowTypeOK, PlansOK
<1>5. \A q \in Process :
         \/ plan'[q] = plan[q] \/ plan'[q] = <<>>
         \/ ~IsDone(snap[Head(plan'[q]).task], Head(plan'[q]).phase)
  BY <1>2, <1>3, <1>4
<1> QED BY <1>2, <1>5, AwaitedKept

\* The user submits a form that waits.
LEMMA AwaitedRequest ==
    ASSUME WorkflowTypeOK, Awaited, OnlyDisturbedBy({"crash", "tool"})',
           NEW t \in Task, Request(t)
    PROVE  Awaited'
<1>1. snap' = snap /\ plan[User] = <<>>
  BY DEF Request, Start, Resume, Stop, ToolStart, Archive, SubmitInput, Reopen, UserDoes
<1>2. ASSUME NEW p \in Phase, SubmitInput(t, p) PROVE Awaited'
  <2>1. PICK v : v = <<Op("complete", t, p), Op("phaseCompleted", t, p)>>
    OBVIOUS
  <2>2. Head(v).task = t /\ Head(v).phase = p
    BY <2>1, Double DEF Op
  <2>3. plan'[User] = v /\ \A q \in Process : q # User => plan'[q] = plan[q]
    BY <1>2, <2>1, Processes DEF SubmitInput, UserDoes, WorkflowTypeOK, PlansOK
  <2>4. snap[t].phases[p] = "Paused"
    BY <1>2 DEF SubmitInput, Intervene, OnlyDisturbedBy
  <2>5. ~IsDone(snap[t], p)
    BY <2>4 DEF IsDone
  <2> QED BY <1>1, <2>2, <2>3, <2>5, AwaitedKept
<1>3. ASSUME NEW p \in Phase, NEW v \in UserPlans(t, p), UserDoes(v), Head(v).do # "complete"
      PROVE  Awaited'
  <2>1. ~Has(v, PhaseOps)
    BY <1>3, UserPlan
  <2>2. plan'[User] = v /\ \A q \in Process : q # User => plan'[q] = plan[q]
    BY <1>3, Processes DEF UserDoes, WorkflowTypeOK, PlansOK
  <2> QED BY <1>1, <2>1, <2>2, AwaitedKept
<1>4. CASE Start(t)
  <2>1. PICK v : v = <<Op("begin", t, 1), Op("startTask", t, 1)>>
    OBVIOUS
  <2>2. v \in UserPlans(t, 1) /\ Head(v).do = "begin" /\ UserDoes(v)
    BY <1>4, <2>1, Double DEF UserPlans, Op, Start
  <2> QED BY <1>3, <2>2, PhaseFacts
<1>5. ASSUME NEW p \in Phase, NEW do \in {"begin", "stop", "reopen", "archive", "resumeTask"},
             UserDoes(<<Op(do, t, p)>>)
      PROVE  Awaited'
  <2>1. PICK v : v = <<Op(do, t, p)>>
    OBVIOUS
  <2>2. v \in UserPlans(t, p) /\ UserDoes(v) /\ Head(v).do = do
    BY <1>5, <2>1, Single DEF UserPlans, Op
  <2> QED BY <1>3, <2>2
<1>6. CASE Resume(t) \/ Stop(t) \/ ToolStart(t) \/ Archive(t)
  BY <1>5, <1>6, PhaseFacts DEF Resume, Stop, ToolStart, Archive
<1>7. ASSUME NEW p \in Phase, Reopen(t, p) PROVE Awaited'
  BY <1>5, <1>7 DEF Reopen
<1> QED BY <1>2, <1>4, <1>6, <1>7 DEF Request

\* Awaited is kept by a read: who is refused stays at work on the same phase.
LEMMA AwaitedRead ==
    ASSUME WorkflowTypeOK, Awaited, NEW q \in Process, Read(q)
    PROVE  Awaited'
<1> PICK T \in Task : T = Next1(q).task /\ plan[q] # <<>> /\ Next1(q).do \in StoreOps
  BY PlanIs DEF Read
<1>1. snap' = snap /\ snap[T] \in Snapshot
  BY DEF Read, WorkflowTypeOK, StateOK
<1> PICK v : v = AfterRefusal(q, Next1(q), snap[T])
  OBVIOUS
<1>2. \/ plan' = plan
      \/ plan' = [plan EXCEPT ![q] = v] /\ ~Accepts(Next1(q), snap[T])
  BY DEF Read
<1>3. CASE plan' = plan
  BY <1>1, <1>3, AwaitedKept
<1>4. CASE plan' = [plan EXCEPT ![q] = v] /\ ~Accepts(Next1(q), snap[T])
  <2>1. plan'[q] = v /\ \A r \in Process : r # q => plan'[r] = plan[r]
    BY <1>4 DEF WorkflowTypeOK, PlansOK
  <2>2. v # <<>> => Head(v).task = T /\ Head(v).phase = Next1(q).phase
    BY <1>1, <1>4, RefusedPlan
  <2>3. CASE v = <<>> \/ v = Tail(plan[q])
    BY <1>1, <2>1, <2>3, AwaitedKept
  <2>4. CASE v # <<>> /\ v # Tail(plan[q])
    <3>1. (IsA("folder", q) \/ IsA("prompt", q)) /\ Next1(q).do = "complete"
      BY <1>1, <1>4, <2>4, Refused
    <3>2. Has(plan[q], PhaseOps)
      BY <3>1, PlanIs, ScriptPlan, AgentPlan
    <3>3. ~IsDone(snap[T], Next1(q).phase)
      BY <3>2 DEF Awaited
    <3> QED BY <1>1, <2>1, <2>2, <2>4, <3>3, AwaitedKept
  <2> QED BY <2>3, <2>4
<1> QED BY <1>2, <1>3, <1>4

\* Who has the outcome in the file is at work on no phase.
LEMMA NothingToAwait ==
    ASSUME NEW t, NEW p, NEW v,
           \/ v = <<Op("phaseCompleted", t, p)>>
           \/ v = <<Op("phaseCompleted", t, p), Op("meter", t, p)>>
    PROVE  ~Has(v, PhaseOps)
<1> PICK a, b : a = Op("phaseCompleted", t, p) /\ b = Op("meter", t, p)
  OBVIOUS
<1>1. a.do = "phaseCompleted" /\ b.do = "meter"
  BY DEF Op
<1>2. ~Has(<<a>>, PhaseOps) /\ ~Has(<<a, b>>, PhaseOps)
  BY <1>1, Single, Double DEF PhaseOps
<1> QED BY <1>2

\* Awaited is kept by a write: nobody else is at work on the task that is written.
LEMMA AwaitedWrite ==
    ASSUME WorkflowTypeOK, Traces, HandedOn, FreshRead, Waits, Awaited,
           OnlyDisturbedBy({"crash", "tool"}), NEW q \in Process, Write(q)
    PROVE  Awaited'
<1> PICK T \in Task : T = Next1(q).task
  BY Writes
<1> PICK op : op = Next1(q)
  OBVIOUS
<1> PICK s : s = held[q]
  OBVIOUS
<1>1. /\ plan[q] # <<>> /\ op.do \in StoreOps /\ op.phase \in Phase /\ op.task = T
      /\ s \in Snapshot /\ Accepts(op, s) /\ held[q] # NoSnapshot
      /\ snap'[T] = Applied(op, s) /\ \A t \in Task : t # T => snap'[t] = snap[t]
      /\ plan'[q] = Tail(plan[q]) /\ \A x \in Process : x # q => plan'[x] = plan[x]
      /\ op = Head(plan[q]) /\ IsPlan(q, plan[q])
  BY Writes, PlanIs
<1>2. /\ "tokens" \notin mishaps /\ "stop" \notin mishaps /\ "archive" \notin mishaps
      /\ "reopen" \notin mishaps
      /\ Calm /\ Reopenable
  BY DEF OnlyDisturbedBy, Calm, Reopenable
<1>3. op.do # "archive"
  <2>1. op.do = "archive" => q = User
    BY <1>1, PlanIs
  <2>2. q = User /\ op.do = "archive" => Has(plan[User], {"archive"})
    BY <1>1, PlanIs, UserPlan, Processes
  <2> QED BY <1>2, <2>1, <2>2 DEF Traces
<1>4. s = snap[T]
  BY <1>1, <1>2, <1>3 DEF FreshRead, Traces, Traced
<1>5. ASSUME NEW x \in Process, x # q, Has(plan[x], PhaseOps), Next1(x).task = T
      PROVE  FALSE
  <2>1. On(x, T) /\ Engaged(plan[x])
    BY <1>5, PhaseOpsEngage DEF On, WorkflowTypeOK, PlansOK
  <2>2. CASE x # User
    BY <1>1, <1>2, <1>3, <1>5, <2>1, <2>2, OneReader
  <2>3. CASE x = User
    <3>1. Holds(q, T) /\ Holds(User, T)
      BY <1>1, <1>2, <1>5, <2>1, <2>3, WorkerHolds, Holder DEF On
    <3> QED BY <1>5, <2>3, <3>1, ProcessIsPlace DEF HandedOn, Exclusive
  <2> QED BY <2>2, <2>3
<1>6. ASSUME Has(plan'[q], PhaseOps) PROVE ~IsDone(snap'[T], op.phase)
  <2>1. Tail(plan[q]) # <<>> /\ Has(plan[q], PhaseOps) /\ Has(Tail(plan[q]), PhaseOps)
    <3>1. Has(Tail(plan[q]), PhaseOps)
      BY <1>1, <1>6
    <3>2. Tail(plan[q]) # <<>>
      BY <3>1, Nothing
    <3> QED BY <1>1, <3>1, <3>2, PlanTail
  <2>2. ~IsDone(s, op.phase)
    BY <1>1, <1>4, <2>1 DEF Awaited
  <2>3. op.do \in {"start", "meter", "fail"}
    <3>1. CASE q = QueueManager
      <4>1. plan[q] \in ManagerPlans(T, op.phase)
        BY <1>1, <3>1, PlanIs
      <4>2. op.do \in {"route", "start", "pause", "coldStart"}
        BY <1>1, <2>1, <4>1, ManagerPlan
      <4> QED BY <1>1, <2>1, <4>1, <4>2, ManagerPlan DEF StoreOps
    <3>2. CASE q = User
      <4>1. plan[q] \in UserPlans(T, op.phase) /\ op.do = "complete"
        BY <1>1, <2>1, <3>2, PlanIs, UserPlan
      <4>2. Tail(plan[q]) = <<Op("phaseCompleted", T, op.phase)>>
        BY <1>1, <4>1, UserPlan
      <4>3. ~Has(Tail(plan[q]), PhaseOps)
        BY <4>2, NothingToAwait
      <4> QED BY <2>1, <4>3
    <3>3. CASE IsA("folder", q)
      <4>1. plan[q] \in ScriptPlans(T, op.phase)
        BY <1>1, <3>3, PlanIs
      <4>2. SUFFICES ASSUME op.do = "complete" PROVE FALSE
        BY <1>1, <4>1, ScriptPlan DEF StoreOps
      <4>3. Tail(plan[q]) = <<Op("phaseCompleted", T, op.phase)>>
        BY <1>1, <4>1, <4>2, ScriptPlan
      <4>4. ~Has(Tail(plan[q]), PhaseOps)
        BY <4>3, NothingToAwait
      <4> QED BY <2>1, <4>4
    <3>4. CASE IsA("prompt", q)
      <4>1. plan[q] \in AgentPlans(T, op.phase)
        BY <1>1, <3>4, PlanIs
      <4>2. SUFFICES ASSUME op.do \in {"complete", "skip"} PROVE FALSE
        BY <1>1, <4>1, AgentPlan DEF StoreOps
      <4>3. \/ Tail(plan[q]) = <<Op("phaseCompleted", T, op.phase)>>
            \/ Tail(plan[q]) = <<Op("phaseCompleted", T, op.phase), Op("meter", T, op.phase)>>
        BY <1>1, <4>1, <4>2, AgentPlan
      <4>4. ~Has(Tail(plan[q]), PhaseOps)
        BY <4>3, NothingToAwait
      <4> QED BY <2>1, <4>4
    <3> QED BY <1>1, <3>1, <3>2, <3>3, <3>4, PlanIs
  <2>4. CASE op.do \in {"start", "fail"}
    <3>1. Applied(op, s).phases[op.phase] \in {"Running", "Failed"}
      BY <1>1, <2>4, AppliedToPhase
    <3> QED BY <1>1, <3>1 DEF IsDone
  <2>5. CASE op.do = "meter"
    <3>1. Applied(op, s) = s
      BY <1>1, <2>5, AppliedToStatus
    <3> QED BY <1>1, <2>2, <3>1
  <2> QED BY <2>3, <2>4, <2>5
<1>7. ASSUME NEW x \in Process, Has(plan'[x], PhaseOps)
      PROVE  ~IsDone(snap'[Head(plan'[x]).task], Head(plan'[x]).phase)
  <2>1. CASE x = q
    <3>1. Tail(plan[q]) # <<>>
      BY <1>1, <1>7, <2>1, Nothing
    <3>2. Head(plan'[q]).task = T /\ Head(plan'[q]).phase = op.phase
      BY <1>1, <3>1, PlanTail
    <3> QED BY <1>6, <1>7, <2>1, <3>2
  <2>2. CASE x # q
    <3>1. plan'[x] = plan[x] /\ Head(plan'[x]) = Next1(x)
      BY <1>1, <2>2 DEF Next1
    <3>2. Next1(x).task # T
      BY <1>5, <1>7, <2>2, <3>1
    <3>3. Next1(x).task \in Task
      BY <1>7, <3>1, PhaseOpsEngage, PlanIs DEF WorkflowTypeOK, PlansOK
    <3> QED BY <1>1, <1>7, <3>1, <3>2, <3>3 DEF Awaited
  <2> QED BY <2>1, <2>2
<1> QED BY <1>7 DEF Awaited, Next1

\* Nobody is at work on a phase that has its outcome, after every step.
LEMMA AwaitedStep ==
    ASSUME WorkflowTypeOK, WorkflowTypeOK', Traces, Owned, Calm => FreshRead, Reopenable,
           OutcomesAwaited, [Next]_vars
    PROVE  OutcomesAwaited'
<1> SUFFICES ASSUME OnlyDisturbedBy({"crash", "tool"})' PROVE Awaited'
  BY DEF OutcomesAwaited
<1>1. /\ OnlyDisturbedBy({"crash", "tool"}) /\ Calm /\ Orderly
      /\ OnlyDisturbedBy({"reopen", "crash", "tool"})
  <2>1. OnlyDisturbedBy({"crash", "tool"})
    BY Regimes
  <2> QED BY <2>1 DEF Calm, Orderly, OnlyDisturbedBy
<1>2. HandedOn /\ FreshRead /\ Waits /\ Awaited
  BY <1>1 DEF Owned, Reopenable, OutcomesAwaited
<1>3. CASE Heartbeat \/ PumpEnds \/ WorkEnds \/ UNCHANGED vars
  <2>1. snap' = snap /\ plan' = plan
    BY <1>3 DEF Heartbeat, PumpEnds, WorkEnds, vars
  <2> QED BY <1>2, <2>1, AwaitedKept
<1>4. CASE Crash
  <2>1. snap' = snap /\ \A q \in Process : plan'[q] = <<>>
    BY <1>4 DEF Crash
  <2> QED BY <1>2, <2>1, AwaitedKept
<1>5. ASSUME NEW q \in Process, Tell(q) PROVE Awaited'
  <2>1. /\ snap' = snap /\ plan'[q] = Tail(plan[q]) /\ plan[q] # <<>>
        /\ \A r \in Process : r # q => plan'[r] = plan[r]
    BY <1>5 DEF Tell, WorkflowTypeOK, PlansOK
  <2> QED BY <1>2, <2>1, AwaitedKept
<1>6. CASE Requeue
  <2>1. /\ snap' = snap /\ plan'[QueueManager] = <<>>
        /\ \A q \in Process : q # QueueManager => plan'[q] = plan[q]
    BY <1>2, <1>6, RequeueMoves
  <2> QED BY <1>2, <2>1, AwaitedKept
<1> QED BY Steps, <1>1, <1>2, <1>3, <1>4, <1>5, <1>6, AwaitedReceive, AwaitedPump, AwaitedRoute,
           AwaitedColdStart, AwaitedExecution, AwaitedRequest, AwaitedRead, AwaitedWrite

-----------------------------------------------------------------------------
(* The phases are worked off in order.                                     *)

\* A task whose phase is open or done is settled, and in order.
LEMMA CurrentIsSettled ==
    ASSUME NEW s, NEW p \in Phase, Current(s, p), Open(s, p) \/ IsDone(s, p)
    PROVE  Settled(s)
<1> SUFFICES ASSUME NEW r \in Phase PROVE Open(s, r) \/ IsDone(s, r)
  BY DEF Settled
<1>1. r \in 1 .. p - 1 \/ r = p \/ r \in p + 1 .. PhaseCount
  BY WorkflowAssumptions DEF Phase
<1> QED BY <1>1 DEF Current, Open

\* A task whose phase is open or done is settled, and in order.
LEMMA CurrentInOrder ==
    ASSUME NEW s, NEW p \in Phase, Current(s, p)
    PROVE  InOrder(s)
<1> SUFFICES ASSUME NEW r \in Phase, NEW x \in Phase, r < x, s.phases[x] # "absent"
             PROVE  IsDone(s, r)
  BY DEF InOrder
<1>1. x \notin p + 1 .. PhaseCount
  BY DEF Current
<1>2. r \in 1 .. p - 1
  BY <1>1, WorkflowAssumptions DEF Phase
<1> QED BY <1>2 DEF Current

\* A phase that waits for the user is the one the task is at.
LEMMA PausedIsCurrent ==
    ASSUME NEW s, InOrder(s), NEW p \in Phase, s.phases[p] = "Paused"
    PROVE  Current(s, p)
<1>1. ASSUME NEW r \in 1 .. p - 1 PROVE IsDone(s, r)
  <2>1. r \in Phase /\ r < p
    BY WorkflowAssumptions DEF Phase
  <2> QED BY <2>1 DEF InOrder
<1>2. ASSUME NEW r \in p + 1 .. PhaseCount PROVE s.phases[r] = "absent"
  <2>1. r \in Phase /\ p < r
    BY WorkflowAssumptions DEF Phase
  <2> QED BY <2>1 DEF InOrder, IsDone
<1> QED BY <1>1, <1>2 DEF Current

\* What the manager does next with a task whose phases are settled.
LEMMA NextIsCurrent ==
    ASSUME NEW s, InOrder(s), Settled(s), NEW p \in Phase, IsNext(s, p)
    PROVE  Current(s, p) /\ Open(s, p) /\ ~IsDone(s, p)
<1>1. ASSUME NEW r \in 1 .. p - 1 PROVE IsDone(s, r)
  BY Earlier DEF IsNext, Settled
<1>2. ASSUME NEW r \in p + 1 .. PhaseCount PROVE s.phases[r] = "absent"
  <2>1. r \in Phase /\ p < r
    BY WorkflowAssumptions DEF Phase
  <2> QED BY <2>1 DEF InOrder, IsDone, IsNext, Open
<1> QED BY <1>1, <1>2 DEF Current, IsNext, Open, IsDone

\* A phase that starts, waits or has an outcome is the one the task is at, still.
LEMMA CurrentStays ==
    ASSUME NEW s, NEW r, NEW p \in Phase, Current(s, p),
           \A x \in Phase : x # p => r.phases[x] = s.phases[x]
    PROVE  Current(r, p)
<1>1. \A x \in 1 .. p - 1 : x \in Phase /\ x # p
  BY WorkflowAssumptions DEF Phase
<1>2. \A x \in p + 1 .. PhaseCount : x \in Phase /\ x # p
  BY WorkflowAssumptions DEF Phase
<1> QED BY <1>1, <1>2 DEF Current, IsDone

-----------------------------------------------------------------------------
(* The file does not change.                                               *)

\* The files stay in order when none changes and who gets a task fits it.
LEMMA ChainedKept ==
    ASSUME ChainedFile, ChainedRead, snap' = snap,
           \A q \in Process :
              held'[q] = NoSnapshot \/ (held'[q] = held[q] /\ plan'[q] = plan[q]),
           \A x \in Place, t \in Task : Live(snap[t]) /\ Holds(x, t)' => Fits(x, t, snap[t])'
    PROVE  ChainedFile' /\ ChainedRead'
<1>1. ChainedFile'
  <2>1. ASSUME NEW t \in Task, Live(snap'[t])
        PROVE  Sound(snap'[t]) /\ \A x \in Place : Holds(x, t)' => Fits(x, t, snap[t])'
    BY <2>1 DEF ChainedFile
  <2> QED BY <2>1 DEF ChainedFile
<1>2. ChainedRead'
  <2>1. ASSUME NEW q \in Process, held'[q] # NoSnapshot, Head(plan'[q]).do # "archive",
               Live(held'[q])
        PROVE  Sound(held'[q]) /\ (Engaged(plan'[q]) => FitsPlan(q, plan'[q], held'[q]))
    <3>1. held'[q] = held[q] /\ plan'[q] = plan[q]
      BY <2>1
    <3> QED BY <2>1, <3>1 DEF ChainedRead, Next1
  <2> QED BY <2>1 DEF ChainedRead, Next1
<1> QED BY <1>1, <1>2

\* What does not change at a place that holds a task fits.
LEMMA FitsStill ==
    ASSUME NEW x \in Place, NEW t \in Task, Fits(x, t, snap[t]), snap' = snap,
           x \in Process => plan'[x] = plan[x],
           x = Channel => \A i \in DOMAIN inbox' :
              inbox'[i].task = t => \E k \in DOMAIN inbox : inbox'[i] = inbox[k]
    PROVE  Fits(x, t, snap[t])'
BY DEF Fits

\* The task is handed on to a place that it fits.
LEMMA ChainedHandedOn ==
    ASSUME ChainedFile, ChainedRead, snap' = snap,
           \A q \in Process :
              held'[q] = NoSnapshot \/ (held'[q] = held[q] /\ plan'[q] = plan[q]),
           NEW T, NEW src, NEW dst, Moves(T, src, dst),
           \A i \in DOMAIN inbox' :
              inbox'[i].task # T => \E k \in DOMAIN inbox : inbox'[i] = inbox[k],
           Live(snap[T]) /\ Sound(snap[T]) /\ Fits(src, T, snap[T]) /\ Holds(dst, T)' /\ dst \in Place
              => Fits(dst, T, snap[T])'
    PROVE  ChainedFile' /\ ChainedRead'
<1>1. ASSUME NEW x \in Place, NEW t \in Task, Live(snap[t]), Holds(x, t)'
      PROVE  Fits(x, t, snap[t])'
  <2>1. CASE t = T /\ x = dst
    <3>1. Sound(snap[T]) /\ Fits(src, T, snap[T])
      BY <1>1, <2>1 DEF Moves, ChainedFile
    <3> QED BY <1>1, <2>1, <3>1
  <2>2. CASE t # T /\ Holds(x, t) /\ (x \in Process => plan'[x] = plan[x])
    <3>1. Fits(x, t, snap[t])
      BY <1>1, <2>2 DEF ChainedFile
    <3>2. \A i \in DOMAIN inbox' : inbox'[i].task = t =>
             \E k \in DOMAIN inbox : inbox'[i] = inbox[k]
      BY <2>2
    <3> QED BY <2>2, <3>1, <3>2, FitsStill
  <2> QED BY <1>1, <2>1, <2>2 DEF Moves
<1> QED BY <1>1, ChainedKept

\* What fits a queue, and a process.
LEMMA FitsAt ==
    ASSUME NEW t, NEW s
    PROVE  /\ Fits(ReadyQueue, t, s) <=> Settled(s)
           /\ Fits(BackoffQueue, t, s) <=> Settled(s)
           /\ \A q \in Process : Fits(q, t, s) <=> FitsPlan(q, plan[q], s)
           /\ Fits(Channel, t, s) <=>
                 \A i \in DOMAIN inbox :
                    inbox[i].task = t /\ inbox[i].do # "phaseFailed" => Settled(s)
BY Processes DEF Fits

\* The same after a step.
LEMMA FitsThen ==
    ASSUME NEW t
    PROVE  /\ Fits(ReadyQueue, t, snap[t])' <=> Settled(snap'[t])
           /\ Fits(BackoffQueue, t, snap[t])' <=> Settled(snap'[t])
           /\ \A q \in Process : Fits(q, t, snap[t])' <=> FitsPlan(q, plan'[q], snap'[t])
           /\ Fits(Channel, t, snap[t])' <=>
                 \A i \in DOMAIN inbox' :
                    inbox'[i].task = t /\ inbox'[i].do # "phaseFailed" => Settled(snap'[t])
BY Processes DEF Fits

\* What each process knows, from what is next in its plan.
LEMMA ManagerFits ==
    ASSUME NEW w, NEW s
    PROVE  FitsPlan(QueueManager, w, s) <=>
              /\ Has(w, PhaseOps) => ~IsDone(s, Head(w).phase)
              /\ Head(w).do = "finish" => AllDone(s)
              /\ Head(w).do \in {"route", "start", "pause", "coldStart"} => Current(s, Head(w).phase)
              /\ Head(w).do \in {"route", "start"} => Open(s, Head(w).phase)
              /\ Head(w).do \notin {"giveUp", "pause", "coldStart"} => Settled(s)
BY Processes DEF FitsPlan

\* What the user and an execution know.
LEMMA UserFits ==
    ASSUME NEW w, NEW s
    PROVE  FitsPlan(User, w, s) <=>
              /\ Has(w, PhaseOps) => ~IsDone(s, Head(w).phase)
              /\ Settled(s)
              /\ Head(w).do = "complete" => Current(s, Head(w).phase)
BY Processes DEF FitsPlan

\* What the user and an execution know.
LEMMA JobFits ==
    ASSUME NEW w, NEW s, NEW j \in Job
    PROVE  FitsPlan(j, w, s) <=>
              /\ Has(w, PhaseOps) => ~IsDone(s, Head(w).phase)
              /\ Current(s, Head(w).phase)
              /\ Head(w).do = "phaseCompleted" => IsDone(s, Head(w).phase)
BY Processes DEF FitsPlan

\* The phases stay in order when a message is sent.
LEMMA ChainedTell ==
    ASSUME WorkflowTypeOK, HandedOn, ChainedFile, ChainedRead, NEW q \in Process, Tell(q)
    PROVE  ChainedFile' /\ ChainedRead'
<1> PICK T : T = Next1(q).task
  OBVIOUS
<1>1. /\ Moves(T, q, Channel)
      /\ snap' = snap /\ held' = held /\ held[q] = NoSnapshot
      /\ \A r \in Process \ {q} : plan'[r] = plan[r]
      /\ plan[q] # <<>> /\ Next1(q).do \in Messages /\ q # QueueManager
      /\ \A i \in DOMAIN inbox' :
            inbox'[i] = Next1(q) \/ \E k \in DOMAIN inbox : inbox'[i] = inbox[k]
  BY TellMoves
<1>2. T \in Task /\ Next1(q).phase \in Phase /\ (q = User \/ q \in Job) /\ Next1(q) = Head(plan[q])
  BY <1>1, PlanIs DEF Process
<1>3. \A k \in DOMAIN inbox : inbox[k].task # T
  BY <1>1, QueuesArePlaces, Processes, Holder DEF Moves, HandedOn, Exclusive
<1>4. ASSUME Fits(q, T, snap[T]), Next1(q).do # "phaseFailed" PROVE Settled(snap[T])
  <2>1. FitsPlan(q, plan[q], snap[T])
    BY <1>4, FitsAt
  <2>2. CASE q = User
    BY <2>1, <2>2, UserFits
  <2>3. CASE q \in Job
    <3>1. Next1(q).do = "phaseCompleted"
      BY <1>1, <1>4, <2>3, PlanIs, Processes DEF Messages, IsA
    <3> QED BY <1>2, <2>1, <2>3, <3>1, JobFits, CurrentIsSettled
  <2> QED BY <1>2, <2>2, <2>3
<1>5. ASSUME Fits(q, T, snap[T]) PROVE Fits(Channel, T, snap[T])'
  <2>1. \A i \in DOMAIN inbox' :
           inbox'[i].task = T /\ inbox'[i].do # "phaseFailed" => Settled(snap[T])
    BY <1>1, <1>3, <1>4, <1>5
  <2> QED BY <1>1, <2>1, FitsThen
<1> QED BY <1>1, <1>5, ChainedHandedOn

\* The phases stay in order when the manager takes a message.
LEMMA ChainedReceive ==
    ASSUME WorkflowTypeOK, WorkflowTypeOK', HandedOn, ChainedFile, ChainedRead, Receive
    PROVE  ChainedFile' /\ ChainedRead'
<1> PICK m : m = Head(inbox)
  OBVIOUS
<1> PICK T : T = m.task
  OBVIOUS
<1>1. /\ Holds(Channel, T)
      /\ snap' = snap /\ held' = held /\ held[QueueManager] = NoSnapshot
      /\ \A q \in Process : q # QueueManager => plan'[q] = plan[q]
      /\ \A i \in DOMAIN inbox' : \E k \in DOMAIN inbox : inbox'[i] = inbox[k]
      /\ \E k \in DOMAIN inbox : m = inbox[k]
      /\ \/ m.do \in {"startTask", "phaseCompleted"} /\ plan' = plan
            /\ Moves(T, Channel, ReadyQueue)
         \/ /\ Moves(T, Channel, QueueManager)
            /\ \/ m.do = "phaseFailed" /\ Head(plan'[QueueManager]).do = "giveUp"
               \/ /\ m.do = "resumeTask"
                  /\ Head(plan'[QueueManager]).do \in {"unstop", "approve"}
  BY ReceiveMoves
<1>2. Fits(Channel, T, snap[T]) /\ m.do # "phaseFailed" => Settled(snap[T])
  BY <1>1, FitsAt
<1>3. CASE m.do \in {"startTask", "phaseCompleted"} /\ Moves(T, Channel, ReadyQueue)
  <2>1. Fits(Channel, T, snap[T]) => Fits(ReadyQueue, T, snap[T])'
    BY <1>1, <1>2, <1>3, FitsThen
  <2> QED BY <1>1, <1>3, <2>1, ChainedHandedOn
<1>4. CASE /\ Moves(T, Channel, QueueManager)
           /\ \/ m.do = "phaseFailed" /\ Head(plan'[QueueManager]).do = "giveUp"
              \/ m.do = "resumeTask" /\ Head(plan'[QueueManager]).do \in {"unstop", "approve"}
  <2>1. ASSUME Fits(Channel, T, snap[T]), Holds(QueueManager, T)'
        PROVE  Fits(QueueManager, T, snap[T])'
    <3>1. plan'[QueueManager] # <<>>
      BY <2>1, Holder, IsOn, Processes
    <3>2. ~Has(plan'[QueueManager], PhaseOps)
      BY <1>4, <3>1, NoPhaseOps
    <3>3. FitsPlan(QueueManager, plan'[QueueManager], snap[T])
      BY <1>2, <1>4, <2>1, <3>2, ManagerFits
    <3> QED BY <1>1, <3>3, FitsThen, Processes
  <2> QED BY <1>1, <1>4, <2>1, ChainedHandedOn
<1> QED BY <1>1, <1>3, <1>4

\* The phases stay in order when the pump looks for the next one.
LEMMA ChainedPump ==
    ASSUME WorkflowTypeOK, WorkflowTypeOK', HandedOn, ChainedFile, ChainedRead, Pump
    PROVE  ChainedFile' /\ ChainedRead'
<1> PICK T, p : T = Head(ready) /\ p = NextPhase(snap[T])
  OBVIOUS
<1>1. /\ Moves(T, ReadyQueue, QueueManager)
      /\ snap' = snap /\ held' = held /\ inbox' = inbox /\ held[QueueManager] = NoSnapshot
      /\ \A q \in Process : q # QueueManager => plan'[q] = plan[q]
      /\ \/ p = 0 /\ plan'[QueueManager] = <<Op("finish", T, 1)>>
         \/ p # 0 /\ plan'[QueueManager] = <<Op("route", T, p)>>
  BY PumpMoves
<1>2. \/ p = 0 /\ \A r \in Phase : ~Open(snap[T], r)
      \/ p # 0 /\ p \in Phase /\ IsNext(snap[T], p)
  <2>1. 0 \notin Phase
    BY DEF Phase
  <2> QED BY <2>1, NextPhaseIsOpen
<1>3. ASSUME Sound(snap[T]), Fits(ReadyQueue, T, snap[T])
      PROVE  FitsPlan(QueueManager, plan'[QueueManager], snap[T])
  <2>1. Settled(snap[T]) /\ InOrder(snap[T])
    BY <1>3, FitsAt DEF Sound
  <2>2. CASE p = 0
    <3>1. AllDone(snap[T])
      BY <1>2, <2>1, <2>2 DEF Settled, AllDone
    <3>2. Head(plan'[QueueManager]).do = "finish" /\ plan'[QueueManager] # <<>>
      BY <1>1, <2>2, Single DEF Op
    <3>3. ~Has(plan'[QueueManager], PhaseOps)
      BY <3>2, NoPhaseOps
    <3> QED BY <2>1, <3>1, <3>2, <3>3, ManagerFits
  <2>3. CASE p # 0
    <3>1. Current(snap[T], p) /\ Open(snap[T], p) /\ ~IsDone(snap[T], p)
      BY <1>2, <2>1, <2>3, NextIsCurrent
    <3>2. Head(plan'[QueueManager]).do = "route" /\ Head(plan'[QueueManager]).phase = p
      BY <1>1, <2>3, Single DEF Op
    <3> QED BY <2>1, <3>1, <3>2, ManagerFits
  <2> QED BY <2>2, <2>3
<1>4. Sound(snap[T]) /\ Fits(ReadyQueue, T, snap[T]) => Fits(QueueManager, T, snap[T])'
  BY <1>1, <1>3, FitsThen, Processes
<1> QED BY <1>1, <1>4, ChainedHandedOn

\* The phases stay in order when the manager pauses one or starts its execution.
LEMMA ChainedRoute ==
    ASSUME WorkflowTypeOK, HandedOn, ChainedFile, ChainedRead, NEW t \in Task, NEW p \in Phase,
           RouteToPause(t, p) \/ RouteToScript(t, p) \/ RouteToAgent(t, p)
    PROVE  ChainedFile' /\ ChainedRead'
<1>1. /\ plan[QueueManager] # <<>> /\ Next1(QueueManager) = Op("route", t, p)
      /\ snap' = snap /\ held' = held /\ inbox' = inbox
  BY RouteMoves
<1>2. PICK dst \in Place :
         /\ Moves(t, QueueManager, dst)
         /\ dst \in Process \cup {BackoffQueue} /\ dst # User
         /\ \A q \in Process :
               /\ q = dst => Head(plan'[q]) \in {Op("start", t, p), Op("pause", t, p)}
               /\ q # dst => plan'[q] = <<>> \/ plan'[q] = plan[q]
  BY RouteMoves
<1>3. \A q \in Process : held'[q] = NoSnapshot \/ (held'[q] = held[q] /\ plan'[q] = plan[q])
  BY StepKeepsRoute
<1>4. Head(plan[QueueManager]).do = "route" /\ Head(plan[QueueManager]).phase = p
  BY <1>1 DEF Op, Next1
<1>5. ASSUME Fits(QueueManager, t, snap[t]), Holds(dst, t)' PROVE Fits(dst, t, snap[t])'
  <2>1. FitsPlan(QueueManager, plan[QueueManager], snap[t])
    BY <1>5, FitsAt, Processes
  <2>2. Settled(snap[t]) /\ Current(snap[t], p) /\ Open(snap[t], p) /\ ~IsDone(snap[t], p)
    BY <1>4, <2>1, ManagerFits DEF Open, IsDone
  <2>3. CASE dst = BackoffQueue
    BY <1>1, <2>2, <2>3, FitsThen
  <2>4. CASE dst = QueueManager \/ dst \in Job
    <3>1. Head(plan'[dst]).phase = p /\ Head(plan'[dst]).do \in {"start", "pause"}
      BY <1>2, <2>4, Processes DEF Op
    <3>2. FitsPlan(dst, plan'[dst], snap[t])
      BY <2>2, <2>4, <3>1, ManagerFits, JobFits
    <3> QED BY <1>1, <2>4, <3>2, FitsThen, Processes
  <2> QED BY <1>2, <2>3, <2>4 DEF Process
<1> QED BY <1>1, <1>2, <1>3, <1>5, ChainedHandedOn

\* The phases stay in order when the manager starts an agent.
LEMMA ChainedColdStart ==
    ASSUME WorkflowTypeOK, HandedOn, ChainedFile, ChainedRead, ColdStart
    PROVE  ChainedFile' /\ ChainedRead'
<1>1. PICK T \in Task, p \in Phase, j \in Job :
         /\ Moves(T, QueueManager, j)
         /\ Next1(QueueManager) = Op("coldStart", T, p) /\ plan[QueueManager] # <<>>
         /\ plan'[j] = <<Op("turn", T, p)>>
         /\ \A q \in Process : q # QueueManager /\ q # j => plan'[q] = plan[q]
         /\ snap' = snap /\ held' = held /\ inbox' = inbox
         /\ held[QueueManager] = NoSnapshot /\ held[j] = NoSnapshot
  BY ColdStartMoves
<1>2. ASSUME Fits(QueueManager, T, snap[T]) PROVE Fits(j, T, snap[T])'
  <2>1. FitsPlan(QueueManager, plan[QueueManager], snap[T])
    BY <1>2, FitsAt, Processes
  <2>2. Head(plan[QueueManager]).do = "coldStart" /\ Head(plan[QueueManager]).phase = p
        /\ Next1(QueueManager).task = T /\ Next1(QueueManager).phase = p
    BY <1>1 DEF Op, Next1
  <2>3. Has(plan[QueueManager], PhaseOps)
    BY <1>1, <2>2, PlanIs, ManagerPlan, Processes
  <2>4. Current(snap[T], p) /\ ~IsDone(snap[T], p)
    BY <2>1, <2>2, <2>3, ManagerFits
  <2>5. Head(plan'[j]).phase = p /\ Head(plan'[j]).do = "turn"
    BY <1>1, Single DEF Op
  <2>6. FitsPlan(j, plan'[j], snap[T])
    BY <2>4, <2>5, JobFits
  <2> QED BY <1>1, <2>6, FitsThen, Processes
<1> QED BY <1>1, <1>2, ChainedHandedOn

\* The phases stay in order when the manager queues a resumed task again.
LEMMA ChainedRequeue ==
    ASSUME WorkflowTypeOK, HandedOn, ChainedFile, ChainedRead, Requeue
    PROVE  ChainedFile' /\ ChainedRead'
<1> PICK T : T = Next1(QueueManager).task
  OBVIOUS
<1>1. /\ Moves(T, QueueManager, ReadyQueue)
      /\ plan[QueueManager] # <<>> /\ Next1(QueueManager).do = "requeue"
      /\ \A q \in Process : q # QueueManager => plan'[q] = plan[q]
      /\ snap' = snap /\ held' = held /\ inbox' = inbox
      /\ held[QueueManager] = NoSnapshot
  BY RequeueMoves
<1>2. ASSUME Fits(QueueManager, T, snap[T]) PROVE Fits(ReadyQueue, T, snap[T])'
  <2>1. FitsPlan(QueueManager, plan[QueueManager], snap[T]) /\ Head(plan[QueueManager]).do = "requeue"
    BY <1>1, <1>2, FitsAt, Processes DEF Next1
  <2> QED BY <1>1, <2>1, ManagerFits, FitsThen
<1> QED BY <1>1, <1>2, ChainedHandedOn

\* The phases stay in order when an execution ends.
LEMMA ChainedExecution ==
    ASSUME WorkflowTypeOK, HandedOn, ChainedFile, ChainedRead,
           NEW t \in Task, NEW p \in Phase, NEW n \in Slots,
           ScriptEnds(t, p, n) \/ TurnEnds(t, p, n)
    PROVE  ChainedFile' /\ ChainedRead'
<1> PICK j : j = <<t, p, n>>
  OBVIOUS
<1>1. /\ j \in Job /\ plan[j] # <<>> /\ Next1(j).task = t /\ Next1(j).phase = p
      /\ \/ Next1(j).do = "script" /\ IsA("folder", j)
         \/ Next1(j).do = "turn" /\ IsA("prompt", j)
      /\ \E v : /\ plan' = [plan EXCEPT ![j] = v]
                /\ \/ v = <<>>
                   \/ /\ Head(v).task = t /\ Head(v).phase = p
                      /\ Head(v).do \in {"meter", "complete", "skip", "fail"}
  BY ExecutionEnds
<1>2. /\ Moves(t, j, j) /\ held[j] = NoSnapshot
      /\ snap' = snap /\ held' = held /\ inbox' = inbox
      /\ \A q \in Process : q # j => plan'[q] = plan[q]
  BY ExecutionMoves
<1>3. ASSUME Fits(j, t, snap[t]), Holds(j, t)' PROVE Fits(j, t, snap[t])'
  <2>1. FitsPlan(j, plan[j], snap[t]) /\ Head(plan[j]).phase = p
    BY <1>1, <1>3, FitsAt, Processes DEF Next1
  <2>2. Has(plan[j], PhaseOps)
    <3>1. /\ Next1(j) = Head(plan[j])
          /\ IsA("folder", j) => plan[j] \in ScriptPlans(t, p)
          /\ IsA("prompt", j) => plan[j] \in AgentPlans(t, p)
      BY <1>1, PlanIs, Processes
    <3> QED BY <1>1, <3>1, ScriptPlan, AgentPlan
  <2>3. plan'[j] # <<>>
    BY <1>1, <1>3, Holder, IsOn, Processes
  <2>4. Head(plan'[j]).phase = p /\ Head(plan'[j]).do \in {"meter", "complete", "skip", "fail"}
    BY <1>1, <2>3, Processes DEF WorkflowTypeOK, PlansOK
  <2>5. FitsPlan(j, plan'[j], snap[t])
    BY <1>1, <2>1, <2>2, <2>4, JobFits
  <2> QED BY <1>1, <1>2, <2>5, FitsThen, Processes
<1> QED BY <1>2, <1>3, ChainedHandedOn

\* The phases stay in order when the manager comes to rest.
LEMMA ChainedPause ==
    ASSUME ChainedFile, ChainedRead, PumpEnds \/ WorkEnds \/ UNCHANGED vars
    PROVE  ChainedFile' /\ ChainedRead'
<1>1. /\ snap' = snap /\ inbox' = inbox /\ plan' = plan /\ ready' = ready /\ backoff' = backoff
      /\ held' = held
  BY DEF PumpEnds, WorkEnds, queues, vars
<1>2. \A x \in Place, t \in Task : Holds(x, t)' => Holds(x, t)
  BY <1>1, PlaceKept
<1>3. ASSUME NEW x \in Place, NEW t \in Task, Live(snap[t]), Holds(x, t)'
      PROVE  Fits(x, t, snap[t])'
  <2>1. Fits(x, t, snap[t])
    BY <1>2, <1>3 DEF ChainedFile
  <2> QED BY <1>1, <2>1, FitsStill
<1> QED BY <1>1, <1>3, ChainedKept

\* The phases stay in order when the heartbeat empties the backoff queue.
LEMMA ChainedHeartbeat ==
    ASSUME WorkflowTypeOK, HandedOn, ChainedFile, ChainedRead, Heartbeat
    PROVE  ChainedFile' /\ ChainedRead'
<1>1. /\ ready' = ready \o backoff /\ backoff' = <<>> /\ inbox' = inbox /\ plan' = plan
      /\ snap' = snap /\ held' = held /\ ready \in Seq(Task) /\ backoff \in Seq(Task)
  BY DEF Heartbeat, WorkflowTypeOK, StateOK
<1>2. \A i \in DOMAIN ready' :
         \/ i \in DOMAIN ready /\ ready'[i] = ready[i]
         \/ i - Len(ready) \in DOMAIN backoff /\ ready'[i] = backoff[i - Len(ready)]
  BY <1>1, Joined
<1>3. ASSUME NEW x \in Place, NEW t \in Task, Live(snap[t]), Holds(x, t)'
      PROVE  Fits(x, t, snap[t])'
  <2>1. x # BackoffQueue
    BY <1>1, <1>3, Holder
  <2>2. CASE x # ReadyQueue
    <3>1. Fits(x, t, snap[t])
      BY <1>1, <1>3, <2>1, <2>2, PlaceKept DEF ChainedFile
    <3> QED BY <1>1, <3>1, FitsStill
  <2>3. CASE x = ReadyQueue
    <3>1. Holds(ReadyQueue, t) \/ Holds(BackoffQueue, t)
      BY <1>2, <1>3, <2>3, Holder
    <3>2. Settled(snap[t])
      BY <1>3, <3>1, FitsAt, QueuesArePlaces DEF ChainedFile
    <3> QED BY <1>1, <2>3, <3>2, FitsThen
  <2> QED BY <2>2, <2>3
<1> QED BY <1>1, <1>3, ChainedKept

\* A refused operation leaves a process with a plan that fits.
LEMMA RefusalFits ==
    ASSUME WorkflowTypeOK, NEW q \in Process, plan[q] # <<>>, Next1(q).do \in StoreOps,
           NEW s \in Snapshot, ~Accepts(Next1(q), s),
           NEW v, v = AfterRefusal(q, Next1(q), s), v # <<>>,
           FitsPlan(q, plan[q], s)
    PROVE  FitsPlan(q, v, s)
<1> PICK p \in Phase : p = Next1(q).phase
  BY PlanIs
<1> PICK T : T = Next1(q).task
  OBVIOUS
<1>1. Head(plan[q]) = Next1(q) /\ Head(plan[q]).phase = p
  BY PlanIs
<1>2. \/ IsA("folder", q) /\ Next1(q).do = "complete" /\ v = <<Op("phaseFailed", T, p)>>
      \/ /\ IsA("prompt", q) /\ Next1(q).do = "complete"
         /\ v = <<Op("fail", T, p), Op("turn", T, p)>> \/ v = <<Op("turn", T, p)>>
      \/ q # User /\ Next1(q).do \in {"meter", "finish", "clear", "unstop"} /\ v = Tail(plan[q])
  BY Refused
<1>3. CASE IsA("folder", q) /\ Next1(q).do = "complete" /\ v = <<Op("phaseFailed", T, p)>>
  <2>1. q \in Job /\ Current(s, p)
    BY <1>1, <1>3, JobFits DEF IsA
  <2>2. Head(v).do = "phaseFailed" /\ Head(v).phase = p /\ ~Has(v, PhaseOps)
    <3> PICK a : a = Op("phaseFailed", T, p)
      OBVIOUS
    <3>1. a.do = "phaseFailed" /\ a.phase = p
      BY DEF Op
    <3> QED BY <1>3, <3>1, Single DEF PhaseOps
  <2> QED BY <2>1, <2>2, JobFits
<1>4. CASE /\ IsA("prompt", q) /\ Next1(q).do = "complete"
           /\ v = <<Op("fail", T, p), Op("turn", T, p)>> \/ v = <<Op("turn", T, p)>>
  <2>1. q \in Job /\ Current(s, p)
    BY <1>1, <1>4, JobFits DEF IsA
  <2>2. Has(plan[q], PhaseOps)
    BY <1>1, <1>4, PlanIs, AgentPlan
  <2>3. ~IsDone(s, p)
    BY <1>1, <2>1, <2>2, JobFits
  <2>4. Head(v).do \in {"fail", "turn"} /\ Head(v).phase = p
    <3> PICK a, b : a = Op("fail", T, p) /\ b = Op("turn", T, p)
      OBVIOUS
    <3>1. a.do = "fail" /\ a.phase = p /\ b.do = "turn" /\ b.phase = p
      BY DEF Op
    <3> QED BY <1>4, <3>1, Single, Double
  <2> QED BY <2>1, <2>3, <2>4, JobFits
<1>5. CASE /\ q # User /\ Next1(q).do \in {"meter", "finish", "clear", "unstop"}
           /\ v = Tail(plan[q])
  <2>1. Head(v).phase = p
    BY <1>1, <1>5, PlanTail, PlanIs
  <2>2. CASE q = QueueManager
    <3>1. plan[q] \in ManagerPlans(T, p)
      BY <2>2, PlanIs
    <3>2. v = <<Op("requeue", T, p)>>
      BY <1>1, <1>5, <2>2, <3>1, PlanIs, ManagerPlan
    <3>3. Head(v).do = "requeue" /\ ~Has(v, PhaseOps)
      <4> PICK a : a = Op("requeue", T, p)
        OBVIOUS
      <4>1. a.do = "requeue"
        BY DEF Op
      <4> QED BY <3>2, <4>1, Single DEF PhaseOps
    <3>4. Settled(s)
      <4>1. Next1(q).do \in {"clear", "unstop"}
        BY <1>1, <1>5, <2>2, <3>1, PlanIs, ManagerPlan
      <4> QED BY <1>1, <2>2, <4>1, ManagerFits
    <3> QED BY <2>2, <3>3, <3>4, ManagerFits
  <2>3. CASE IsA("folder", q)
    <3>1. plan[q] \in ScriptPlans(T, p) /\ Next1(q).do = "meter"
      BY <1>5, <2>3, PlanIs
    <3>2. Has(plan[q], PhaseOps) /\ q \in Job
      BY <1>1, <2>3, <3>1, ScriptPlan DEF IsA
    <3>3. \/ v = <<Op("complete", T, p), Op("phaseCompleted", T, p)>>
          \/ v = <<Op("fail", T, p), Op("phaseFailed", T, p)>>
      BY <1>1, <1>5, <3>1, ScriptPlan
    <3>4. Head(v).do \in {"complete", "fail"}
      BY <3>3, Double DEF Op
    <3> QED BY <1>1, <2>1, <3>2, <3>4, JobFits
  <2>4. CASE IsA("prompt", q)
    <3>1. plan[q] \in AgentPlans(T, p) /\ Next1(q).do = "meter"
      BY <1>5, <2>4, PlanIs
    <3> QED BY <1>1, <1>5, <3>1, AgentPlan
  <2> QED BY <1>5, <2>2, <2>3, <2>4, PlanIs
<1> QED BY <1>2, <1>3, <1>4, <1>5

\* The phases stay in order by a read: what is read fits who reads it.
LEMMA ChainedReading ==
    ASSUME WorkflowTypeOK, HandedOn, ChainedFile, ChainedRead, NEW q \in Process, Read(q)
    PROVE  ChainedFile' /\ ChainedRead'
<1> PICK T \in Task : T = Next1(q).task
  BY PlanIs DEF Read
<1> PICK s : s = snap[T]
  OBVIOUS
<1>1. /\ plan[q] # <<>> /\ Next1(q).do \in StoreOps /\ held[q] = NoSnapshot
      /\ snap' = snap /\ inbox' = inbox /\ ready' = ready /\ backoff' = backoff
      /\ s \in Snapshot
  BY DEF Read, queues, WorkflowTypeOK, StateOK
<1>2. Live(s) => Sound(s) /\ \A x \in Place : Holds(x, T) => Fits(x, T, s)
  BY DEF ChainedFile
<1>3. Live(s) /\ Engaged(plan[q]) => FitsPlan(q, plan[q], s)
  BY <1>1, <1>2, FitsAt, ProcessIsPlace, Holder DEF On
<1>4. CASE Accepts(Next1(q), s)
  <2>1. /\ plan' = plan /\ held'[q] = s /\ \A x \in Process : x # q => held'[x] = held[x]
    BY <1>4 DEF Read, WorkflowTypeOK, HeldOK
  <2>2. ChainedFile'
    <3>1. ASSUME NEW t \in Task, Live(snap[t])
          PROVE  Sound(snap[t]) /\ \A x \in Place : Holds(x, t)' => Fits(x, t, snap[t])'
      BY <1>1, <2>1, <3>1, PlaceKept, FitsStill DEF ChainedFile
    <3> QED BY <1>1, <3>1 DEF ChainedFile
  <2>3. ASSUME NEW x \in Process, held'[x] # NoSnapshot, Next1(x).do # "archive", Live(held'[x])
        PROVE  Sound(held'[x]) /\ (Engaged(plan[x]) => FitsPlan(x, plan[x], held'[x]))
    <3>1. CASE x = q
      BY <1>2, <1>3, <2>1, <2>3, <3>1
    <3>2. CASE x # q
      BY <2>1, <2>3, <3>2 DEF ChainedRead
    <3> QED BY <3>1, <3>2
  <2>4. ChainedRead'
    BY <2>1, <2>3 DEF ChainedRead, Next1
  <2> QED BY <2>2, <2>4
<1>5. CASE ~Accepts(Next1(q), s)
  <2> PICK v : v = AfterRefusal(q, Next1(q), s)
    OBVIOUS
  <2>1. /\ held' = held /\ plan'[q] = v /\ \A x \in Process : x # q => plan'[x] = plan[x]
    BY <1>5 DEF Read, WorkflowTypeOK, PlansOK
  <2>2. /\ v # <<>> => Head(v).task = T
        /\ Engaged(v) => Engaged(plan[q])
    BY <1>1, <1>5, RefusedPlan
  <2>3. ASSUME NEW x \in Place, NEW t \in Task, Live(snap[t]), Holds(x, t)'
        PROVE  Fits(x, t, snap[t])'
    <3>1. CASE x # q
      BY <1>1, <2>1, <2>3, <3>1, PlaceKept, FitsStill DEF ChainedFile
    <3>2. CASE x = q
      <4>1. v # <<>> /\ t = T /\ Engaged(plan[q])
        BY <2>1, <2>2, <2>3, <3>2, Holder, IsOn
      <4>2. FitsPlan(q, v, s)
        BY <1>1, <1>3, <1>5, <2>3, <4>1, RefusalFits
      <4> QED BY <1>1, <2>1, <3>2, <4>1, <4>2, FitsThen
    <3> QED BY <3>1, <3>2
  <2>4. \A x \in Process :
           held'[x] = NoSnapshot \/ (held'[x] = held[x] /\ plan'[x] = plan[x])
    BY <1>1, <2>1
  <2> QED BY <1>1, <2>3, <2>4, ChainedKept
<1> QED BY <1>4, <1>5

\* The phases stay in order by a request that fits its task.
LEMMA ChainedAsked ==
    ASSUME WorkflowTypeOK, ChainedFile, ChainedRead, NEW t \in Task, NEW p \in Phase,
           NEW v \in UserPlans(t, p), UserDoes(v), snap' = snap, held' = held, inbox' = inbox,
           ready' = ready, backoff' = backoff,
           Live(snap[t]) /\ Engaged(v) => FitsPlan(User, v, snap[t])
    PROVE  ChainedFile' /\ ChainedRead'
<1>1. /\ plan'[User] = v /\ \A q \in Process : q # User => plan'[q] = plan[q]
      /\ held[User] = NoSnapshot
  BY Processes, NothingHeld DEF UserDoes, WorkflowTypeOK, PlansOK
<1>2. Head(v).task = t
  BY UserPlan DEF Op
<1>3. ASSUME NEW x \in Place, NEW u \in Task, Live(snap[u]), Holds(x, u)'
      PROVE  Fits(x, u, snap[u])'
  <2>1. CASE x # User
    BY <1>1, <1>3, <2>1, PlaceKept, FitsStill DEF ChainedFile
  <2>2. CASE x = User
    <3>1. Head(plan'[User]).task = u /\ Engaged(plan'[User])
      BY <1>3, <2>2, Holder, IsOn, Processes
    <3>2. FitsPlan(User, plan'[User], snap'[u])
      BY <1>1, <1>2, <1>3, <3>1
    <3> QED BY <2>2, <3>2, FitsThen, Processes
  <2> QED BY <2>1, <2>2
<1>4. \A q \in Process : held'[q] = NoSnapshot \/ (held'[q] = held[q] /\ plan'[q] = plan[q])
  BY <1>1
<1> QED BY <1>3, <1>4, ChainedKept

\* The phases stay in order by the requests: who is asked for finds the task
\* settled.
LEMMA ChainedRequest ==
    ASSUME WorkflowTypeOK, Traces, ChainedFile, ChainedRead,
           OnlyDisturbedBy({"archive", "tool"})', NEW t \in Task, Request(t)
    PROVE  ChainedFile' /\ ChainedRead'
<1>1. /\ snap' = snap /\ held' = held /\ inbox' = inbox /\ ready' = ready /\ backoff' = backoff
  BY DEF Request, Start, Resume, Stop, ToolStart, Archive, SubmitInput, Reopen, queues
<1>2. /\ "resume" \notin mishaps' /\ "submit" \notin mishaps' /\ "stop" \notin mishaps'
      /\ "reopen" \notin mishaps'
  BY DEF OnlyDisturbedBy
<1>3. CASE Start(t)
  <2> PICK v : v = <<Op("begin", t, 1), Op("startTask", t, 1)>>
    OBVIOUS
  <2>1. v \in UserPlans(t, 1) /\ Head(v).do = "begin"
    BY Double DEF UserPlans, Op
  <2>2. UserDoes(v) /\ snap[t].status = "Pending"
    BY <1>3 DEF Start
  <2>3. ASSUME Live(snap[t]) PROVE Settled(snap[t])
    BY <2>2, <2>3 DEF ChainedFile, Sound, Settled, Open
  <2>4. ~Has(v, PhaseOps)
    BY <2>1, UserPlan
  <2>5. Live(snap[t]) => FitsPlan(User, v, snap[t])
    BY <2>1, <2>3, <2>4, UserFits
  <2> QED BY <1>1, <2>1, <2>2, <2>5, PhaseFacts, ChainedAsked
<1>4. CASE Resume(t)
  <2> PICK v : v = <<Op("resumeTask", t, 1)>>
    OBVIOUS
  <2>1. v \in UserPlans(t, 1) /\ UserDoes(v)
    BY <1>4 DEF UserPlans, Resume
  <2>2. Head(v).do = "resumeTask" /\ ~Has(v, PhaseOps)
    <3> PICK a : a = Op("resumeTask", t, 1)
      OBVIOUS
    <3>1. a.do = "resumeTask"
      BY DEF Op
    <3> QED BY <3>1, Single DEF PhaseOps
  <2>3. ASSUME Live(snap[t]) PROVE Settled(snap[t])
    <3>1. PICK p \in Phase : snap[t].phases[p] = "Paused"
      BY <1>4, <2>3 DEF Resume, HasPaused, Live
    <3>2. Current(snap[t], p)
      BY <2>3, <3>1, PausedIsCurrent DEF ChainedFile, Sound
    <3> QED BY <3>1, <3>2, CurrentIsSettled DEF Open
  <2>4. Live(snap[t]) => FitsPlan(User, v, snap[t])
    BY <2>2, <2>3, UserFits
  <2> QED BY <1>1, <2>1, <2>4, PhaseFacts, ChainedAsked
<1>5. ASSUME NEW p \in Phase, SubmitInput(t, p) PROVE ChainedFile' /\ ChainedRead'
  <2> PICK v : v = <<Op("complete", t, p), Op("phaseCompleted", t, p)>>
    OBVIOUS
  <2>1. v \in UserPlans(t, p) /\ UserDoes(v)
    BY <1>5 DEF UserPlans, SubmitInput
  <2>2. snap[t].phases[p] = "Paused"
    BY <1>2, <1>5 DEF SubmitInput, Intervene
  <2>3. Head(v).phase = p
    BY Double DEF Op
  <2>4. ASSUME Live(snap[t]) PROVE FitsPlan(User, v, snap[t])
    <3>1. Current(snap[t], p)
      BY <2>2, <2>4, PausedIsCurrent DEF ChainedFile, Sound
    <3>2. Settled(snap[t])
      BY <2>2, <3>1, CurrentIsSettled DEF Open
    <3>3. ~IsDone(snap[t], p)
      BY <2>2 DEF IsDone
    <3> QED BY <2>3, <3>1, <3>2, <3>3, UserFits
  <2> QED BY <1>1, <2>1, <2>4, ChainedAsked
<1>6. ASSUME NEW do \in {"begin", "archive"}, UserDoes(<<Op(do, t, 1)>>)
      PROVE  ChainedFile' /\ ChainedRead'
  <2> PICK v : v = <<Op(do, t, 1)>>
    OBVIOUS
  <2>1. v \in UserPlans(t, 1) /\ UserDoes(v)
    BY <1>6 DEF UserPlans
  <2>2. ~Engaged(v)
    BY Single DEF Op, Loose
  <2> QED BY <1>1, <2>1, <2>2, PhaseFacts, ChainedAsked
<1>7. ~Stop(t) /\ \A p \in Phase : ~Reopen(t, p)
  BY <1>2 DEF Stop, Reopen, Intervene
<1>8. CASE ToolStart(t) \/ Archive(t)
  BY <1>6, <1>8 DEF ToolStart, Archive
<1> QED BY <1>3, <1>4, <1>5, <1>7, <1>8 DEF Request

\* An operation on the phase a task is at leaves the file of the task in order.
LEMMA SoundPhase ==
    ASSUME NEW op, NEW s \in Snapshot, op.phase \in Phase,
           op.do \in {"start", "pause", "complete", "skip", "fail"},
           Current(s, op.phase), ~IsDone(s, op.phase), s.status # "Pending", Sound(s),
           NEW r, r = Applied(op, s)
    PROVE  /\ Sound(r) /\ Current(r, op.phase)
           /\ op.do \in {"complete", "skip"} => IsDone(r, op.phase) /\ Settled(r)
           /\ op.do \in {"start", "pause", "fail"} => ~IsDone(r, op.phase)
<1>1. Current(r, op.phase)
  BY AppliedToPhase, CurrentStays
<1>2. InOrder(r)
  BY <1>1, CurrentInOrder
<1>3. r.status = s.status
  BY AppliedToPhase
<1>4. s.status # "Completed"
  BY DEF Sound, AllDone
<1>5. op.do \in {"complete", "skip"} => IsDone(r, op.phase)
  BY AppliedToPhase DEF IsDone
<1>6. op.do \in {"start", "pause", "fail"} => ~IsDone(r, op.phase)
  BY AppliedToPhase DEF IsDone
<1> QED BY <1>1, <1>2, <1>3, <1>4, <1>5, <1>6, CurrentIsSettled DEF Sound

\* So does an operation that leaves outcomes and absent phases alone.
LEMMA SoundFollows ==
    ASSUME NEW s, NEW r, Sound(s), s.status # "Pending", r.status # "Pending",
           r.status = "Completed" => AllDone(s),
           \A p \in Phase : /\ IsDone(s, p) => IsDone(r, p)
                            /\ s.phases[p] = "absent" => r.phases[p] = "absent"
    PROVE  Sound(r)
<1>1. InOrder(r)
  BY DEF InOrder, Sound
<1> QED BY <1>1 DEF Sound, AllDone

\* So does an operation on all phases, or on none.
LEMMA SoundWrite ==
    ASSUME NEW op, NEW s \in Snapshot, op.phase \in Phase, Sound(s),
           op.do \in {"meter", "finish", "approve", "clear", "begin"},
           op.do = "finish" => AllDone(s),
           op.do \in {"finish", "approve", "clear"} => Settled(s),
           s.status = "Pending" => op.do = "begin",
           NEW r, r = Applied(op, s)
    PROVE  /\ Sound(r)
           /\ op.do \in {"begin", "finish", "approve", "clear"} /\ Settled(s) => Settled(r)
           /\ op.do = "meter" => r = s
<1>1. CASE op.do \in {"meter", "finish", "begin"}
  <2>1. r.phases = s.phases /\ (op.do = "meter" => r = s)
    BY <1>1, AppliedToStatus
  <2>2. /\ op.do = "finish" => r.status = "Completed"
        /\ op.do = "begin" => r.status = "Running"
    BY AppliedToStatus
  <2>3. op.do # "meter" => InOrder(r) /\ (AllDone(s) <=> AllDone(r)) /\ (Settled(s) <=> Settled(r))
    BY <2>1 DEF Sound, InOrder, AllDone, Settled, IsDone, Open
  <2> QED BY <1>1, <2>1, <2>2, <2>3 DEF Sound
<1>2. CASE op.do = "approve"
  <2>1. r.status = s.status /\ \A p \in Phase : r.phases[p] = Approved(p, s.phases[p])
    BY <1>2, AppliedToPhases
  <2>2. \A p \in Phase : /\ IsDone(s, p) => IsDone(r, p)
                         /\ s.phases[p] = "absent" => r.phases[p] = "absent"
                         /\ Open(s, p) => Open(r, p) \/ IsDone(r, p)
    BY <2>1 DEF Approved, IsDone, Open
  <2>3. Sound(r)
    BY <1>2, <2>1, <2>2, SoundFollows DEF Sound
  <2> QED BY <1>2, <2>2, <2>3 DEF Settled
<1>3. CASE op.do = "clear"
  <2>1. r.status = s.status /\ \A p \in Phase : r.phases[p] = Cleared(op.task, p, s.phases[p])
    BY <1>3, AppliedToPhases
  <2>2. \A p \in Phase : /\ IsDone(s, p) => IsDone(r, p)
                         /\ s.phases[p] = "absent" => r.phases[p] = "absent"
                         /\ Open(s, p) => Open(r, p) \/ IsDone(r, p)
    BY <2>1 DEF Cleared, IsDone, Open
  <2>3. Sound(r)
    BY <1>3, <2>1, <2>2, SoundFollows DEF Sound
  <2> QED BY <1>3, <2>2, <2>3 DEF Settled
<1> QED BY <1>1, <1>2, <1>3

\* What comes next, and whether anything of a phase is left to do.
LEMMA NextToDo ==
    ASSUME NEW t, NEW p, NEW w
    PROVE  /\ w = <<Op("requeue", t, p)>> => Head(w).do = "requeue" /\ ~Has(w, PhaseOps)
           /\ w = <<Op("startTask", t, p)>> => Head(w).do = "startTask" /\ ~Has(w, PhaseOps)
           /\ w = <<Op("phaseCompleted", t, p)>> =>
                 Head(w).do = "phaseCompleted" /\ ~Has(w, PhaseOps)
           /\ w = <<Op("clear", t, p), Op("requeue", t, p)>> =>
                 Head(w).do = "clear" /\ ~Has(w, PhaseOps)
           /\ w = <<Op("complete", t, p), Op("phaseCompleted", t, p)>> => Head(w).do = "complete"
           /\ w = <<Op("fail", t, p), Op("phaseFailed", t, p)>> => Head(w).do = "fail"
           /\ w = <<Op("pause", t, p)>> => Head(w).do = "pause"
           /\ w = <<Op("coldStart", t, p)>> => Head(w).do = "coldStart"
           /\ w = <<Op("script", t, p)>> => Head(w).do = "script"
           /\ w = <<Op("phaseFailed", t, p)>> => Head(w).do = "phaseFailed"
           /\ w = <<Op("turn", t, p)>> => Head(w).do = "turn"
<1>1. ASSUME NEW do PROVE Op(do, t, p).do = do
  BY DEF Op
<1>2. ASSUME NEW a, w = <<a>> PROVE Head(w) = a /\ (Has(w, PhaseOps) <=> a.do \in PhaseOps)
  BY <1>2, Single
<1>3. ASSUME NEW a, NEW b, w = <<a, b>>
      PROVE  Head(w) = a /\ (Has(w, PhaseOps) <=> a.do \in PhaseOps \/ b.do \in PhaseOps)
  BY <1>3, Double
<1>4. \A do \in {"requeue", "startTask", "phaseCompleted", "clear"} : do \notin PhaseOps
  BY DEF PhaseOps
<1> HIDE DEF Op
<1> QED BY <1>1, <1>2, <1>3, <1>4

\* What the manager and the user have left to do after that is about no phase.
LEMMA ManagerLeft ==
    ASSUME NEW t, NEW p, NEW w,
           w = <<Op("clear", t, p), Op("requeue", t, p)>> \/ w = <<Op("requeue", t, p)>>
    PROVE  Head(w).do \in {"clear", "requeue"} /\ ~Has(w, PhaseOps)
BY NextToDo

\* What the manager and the user have left to do after that is about no phase.
LEMMA UserLeft ==
    ASSUME NEW t, NEW p, NEW w,
           w = <<Op("startTask", t, p)>> \/ w = <<Op("phaseCompleted", t, p)>>
    PROVE  Head(w).do \in {"startTask", "phaseCompleted"} /\ ~Has(w, PhaseOps)
BY NextToDo

\* A script that has ended completes or fails its phase.
LEMMA ScriptLeft ==
    ASSUME NEW t, NEW p, NEW w,
           \/ w = <<Op("complete", t, p), Op("phaseCompleted", t, p)>>
           \/ w = <<Op("fail", t, p), Op("phaseFailed", t, p)>>
    PROVE  Head(w).do \in {"complete", "fail"}
BY NextToDo

\* A phase that was started is paused or handed to its agent.
LEMMA RouteLeft ==
    ASSUME NEW t, NEW p, NEW w,
           w = <<Op("pause", t, p)>> \/ w = <<Op("coldStart", t, p)>>
    PROVE  Head(w).do \in {"pause", "coldStart"}
BY NextToDo

\* What is written, and what the process that wrote it has left to do, fit.
LEMMA FitsWritten ==
    ASSUME WorkflowTypeOK, NEW q \in Process, plan[q] # <<>>, Engaged(plan[q]),
           NEW op, op = Next1(q),
           op.do \in StoreOps \ {"giveUp", "unstop", "stop", "reopen", "archive"},
           NEW s \in Snapshot, Sound(s), FitsPlan(q, plan[q], s),
           s.status = "Pending" => op.do = "begin",
           NEW r, r = Applied(op, s), NEW w, w = Tail(plan[q])
    PROVE  Sound(r) /\ (w # <<>> => FitsPlan(q, w, r))
<1> PICK p \in Phase : p = op.phase
  BY PlanIs
<1> PICK T : T = op.task
  OBVIOUS
<1>1. /\ Head(plan[q]) = op /\ Head(plan[q]).phase = p /\ Head(plan[q]).do = op.do
      /\ IsPlan(q, plan[q])
  BY PlanIs
<1>2. w # <<>> => Head(w).phase = p
  BY <1>1, PlanTail
<1>3. CASE q = QueueManager
  <2>1. plan[q] \in ManagerPlans(T, p) /\ op.do \in {"start", "pause", "approve", "clear", "finish"}
    BY <1>1, <1>3, PlanIs DEF StoreOps
  <2>2. /\ op.do = "finish" => AllDone(s)
        /\ op.do \in {"start", "pause"} => Current(s, p)
        /\ op.do \in {"start", "pause"} => ~IsDone(s, p)
        /\ op.do # "pause" => Settled(s)
    <3>1. Has(plan[q], PhaseOps) <=> op.do \in {"start", "pause"}
      BY <1>1, <2>1, ManagerPlan
    <3> QED BY <1>1, <1>3, <2>1, <3>1, ManagerFits
  <2>3. CASE op.do \in {"start", "pause"}
    <3>1. Sound(r) /\ Current(r, p) /\ ~IsDone(r, p)
      BY <2>2, <2>3, SoundPhase
    <3>2. w # <<>> => Head(w).do \in {"pause", "coldStart"}
      <4>1. w = <<Op("pause", T, p)>> \/ w = <<Op("coldStart", T, p)>> \/ w = <<>>
        BY <1>1, <2>1, <2>3, ManagerPlan
      <4> QED BY <4>1, RouteLeft
    <3> QED BY <1>2, <1>3, <3>1, <3>2, ManagerFits
  <2>4. CASE op.do \in {"approve", "clear", "finish"}
    <3>1. Sound(r) /\ Settled(r)
      BY <2>2, <2>4, SoundWrite
    <3>2. w # <<>> => Head(w).do \in {"clear", "requeue"} /\ ~Has(w, PhaseOps)
      <4>1. \/ w = <<Op("clear", T, p), Op("requeue", T, p)>>
            \/ w = <<Op("requeue", T, p)>> \/ w = <<>>
        BY <1>1, <2>1, <2>4, ManagerPlan
      <4> QED BY <4>1, ManagerLeft
    <3> QED BY <1>2, <1>3, <3>1, <3>2, ManagerFits
  <2> QED BY <2>1, <2>3, <2>4
<1>4. CASE q = User
  <2>1. plan[q] \in UserPlans(T, p) /\ op.do \in {"begin", "complete"}
    BY <1>1, <1>4, PlanIs DEF StoreOps
  <2>2. Settled(s) /\ (op.do = "complete" => Current(s, p) /\ ~IsDone(s, p))
    <3>1. op.do = "complete" => Has(plan[q], PhaseOps)
      BY <1>1, <2>1, UserPlan
    <3> QED BY <1>1, <1>4, <3>1, UserFits
  <2>3. Sound(r) /\ Settled(r)
    BY <2>1, <2>2, SoundPhase, SoundWrite
  <2>4. w # <<>> => Head(w).do \in {"startTask", "phaseCompleted"} /\ ~Has(w, PhaseOps)
    <3>1. w = <<Op("startTask", T, p)>> \/ w = <<Op("phaseCompleted", T, p)>> \/ w = <<>>
      BY <1>1, <2>1, UserPlan
    <3> QED BY <3>1, UserLeft
  <2> QED BY <1>4, <2>3, <2>4, UserFits
<1>5. CASE q \in Job
  <2>1. Current(s, p) /\ (Has(plan[q], PhaseOps) => ~IsDone(s, p))
    BY <1>1, <1>5, JobFits
  <2>2. CASE IsA("folder", q)
    <3>1. /\ plan[q] \in ScriptPlans(T, p)
          /\ op.do \in {"start", "meter", "complete", "fail"}
      BY <1>1, <2>2, PlanIs DEF StoreOps
    <3>2. ~IsDone(s, p)
      BY <1>1, <2>1, <3>1, ScriptPlan
    <3>3. /\ Sound(r) /\ Current(r, p)
          /\ op.do = "complete" => IsDone(r, p)
          /\ op.do # "complete" => ~IsDone(r, p)
      BY <2>1, <3>1, <3>2, SoundPhase, SoundWrite
    <3>4. /\ op.do = "complete" => ~Has(w, PhaseOps)
          /\ op.do # "complete" => Head(w).do # "phaseCompleted"
      <4>1. CASE op.do = "start"
        <5>1. w = <<Op("script", T, p)>>
          BY <1>1, <3>1, <4>1, ScriptPlan
        <5> QED BY <4>1, <5>1, NextToDo
      <4>2. CASE op.do = "meter"
        <5>1. \/ w = <<Op("complete", T, p), Op("phaseCompleted", T, p)>>
              \/ w = <<Op("fail", T, p), Op("phaseFailed", T, p)>>
          BY <1>1, <3>1, <4>2, ScriptPlan
        <5>2. Head(w).do \in {"complete", "fail"}
          BY <5>1, ScriptLeft
        <5> QED BY <4>2, <5>2
      <4>3. CASE op.do = "complete"
        <5>1. w = <<Op("phaseCompleted", T, p)>>
          BY <1>1, <3>1, <4>3, ScriptPlan
        <5> QED BY <4>3, <5>1, NothingToAwait
      <4>4. CASE op.do = "fail"
        <5>1. w = <<Op("phaseFailed", T, p)>>
          BY <1>1, <3>1, <4>4, ScriptPlan
        <5> QED BY <4>4, <5>1, NextToDo
      <4> QED BY <3>1, <4>1, <4>2, <4>3, <4>4
    <3> QED BY <1>2, <1>5, <3>3, <3>4, JobFits
  <2>3. CASE IsA("prompt", q)
    <3>1. plan[q] \in AgentPlans(T, p) /\ op.do \in {"complete", "skip", "fail"}
      BY <1>1, <2>3, PlanIs, AgentPlan DEF StoreOps
    <3>2. ~IsDone(s, p)
      BY <1>1, <2>1, <3>1, AgentPlan
    <3>3. /\ Sound(r) /\ Current(r, p)
          /\ op.do # "fail" => IsDone(r, p)
          /\ op.do = "fail" => ~IsDone(r, p)
      BY <2>1, <3>1, <3>2, SoundPhase
    <3>4. /\ op.do # "fail" => ~Has(w, PhaseOps)
          /\ op.do = "fail" => Head(w).do = "turn"
      <4>1. \/ w = <<Op("turn", T, p)>> /\ op.do = "fail"
            \/ w = <<Op("phaseCompleted", T, p)>> /\ op.do # "fail"
            \/ w = <<Op("phaseCompleted", T, p), Op("meter", T, p)>> /\ op.do # "fail"
        BY <1>1, <3>1, AgentPlan
      <4>2. op.do # "fail" => ~Has(w, PhaseOps)
        BY <4>1, NothingToAwait
      <4>3. op.do = "fail" => Head(w).do = "turn"
        BY <4>1, Single DEF Op
      <4> QED BY <4>2, <4>3
    <3> QED BY <1>2, <1>5, <3>1, <3>3, <3>4, JobFits
  <2> QED BY <1>1, <1>5, <2>2, <2>3, PlanIs, Processes
<1> QED BY <1>3, <1>4, <1>5 DEF Process

\* Whose operation it may be, and on what.
LEMMA ChainedWriter ==
    ASSUME WorkflowTypeOK, Traces, HandedOn, OnlyDisturbedBy({"archive", "tool"}),
           NEW q \in Process, Write(q), Next1(q).do # "archive", Live(snap'[Next1(q).task])
    PROVE  /\ Next1(q).do \in StoreOps \ {"giveUp", "unstop", "stop", "reopen", "archive"}
           /\ Live(held[q])
           /\ held[q].status = "Pending" => Next1(q).do = "begin"
           /\ ~Engaged(plan[q]) =>
                 /\ q = User /\ Next1(q).do = "begin" /\ Tail(plan[q]) = <<>>
<1> PICK op : op = Next1(q)
  OBVIOUS
<1> PICK s : s = held[q]
  OBVIOUS
<1>1. /\ plan[q] # <<>> /\ op.do \in StoreOps /\ op.task \in Task /\ op.phase \in Phase
      /\ s \in Snapshot /\ Accepts(op, s) /\ s # NoSnapshot
      /\ snap'[op.task] = Applied(op, s) /\ op = Head(plan[q])
  BY Writes, PlanIs
<1>2. "tokens" \notin mishaps /\ "stop" \notin mishaps /\ "reopen" \notin mishaps
  BY DEF OnlyDisturbedBy
<1>3. op.do \notin {"stop", "reopen"}
  <2>1. op.do \in {"stop", "reopen"} => q = User
    BY <1>1, PlanIs
  <2>2. q = User /\ op.do = "stop" => Has(plan[User], {"stop"})
    BY <1>1, PlanIs, UserPlan, Processes
  <2>3. q = User /\ op.do = "reopen" => Has(plan[User], {"reopen"})
    BY <1>1, PlanIs, UserPlan, Processes
  <2> QED BY <1>2, <2>1, <2>2, <2>3 DEF Traces
<1>4. op.do # "unstop"
  <2>1. op.do = "unstop" => \E p \in Phase : s.phases[p] = "Stopped"
    BY <1>1 DEF Accepts
  <2>2. \A p \in Phase : s.phases[p] # "Stopped"
    BY <1>1, <1>2 DEF Traces, Traced
  <2> QED BY <2>1, <2>2
<1>5. op.do # "giveUp"
  BY <1>1, StatusWritten DEF Live
<1>6. Live(s)
  <2>1. CASE op.do = "finish"
    BY <1>1, <2>1 DEF Accepts, Live
  <2>2. CASE op.do = "begin"
    BY <1>1, <2>2 DEF Accepts, Live
  <2>3. CASE op.do \notin {"finish", "begin"}
    BY <1>1, <1>3, <1>4, <1>5, <2>3, StatusWritten DEF Live
  <2> QED BY <2>1, <2>2, <2>3
<1>7. s.status = "Pending" => op.do = "begin"
  BY <1>1, <1>3 DEF HandedOn, Untouched
<1>8. ASSUME ~Engaged(plan[q])
      PROVE  q = User /\ op.do = "begin" /\ Tail(plan[q]) = <<>>
  <2>1. q = User
    BY <1>1, <1>2, <1>8, WorkerHolds DEF On
  <2>2. plan[User] \in UserPlans(op.task, op.phase)
    BY <1>1, <2>1, PlanIs
  <2>3. op.do = "begin"
    BY <1>1, <1>3, <1>8, <2>1, <2>2, UserPlan DEF StoreOps
  <2> QED BY <1>1, <1>8, <2>1, <2>2, <2>3, UserPlan
<1> QED BY <1>1, <1>3, <1>4, <1>5, <1>6, <1>7, <1>8

\* Nobody else has anything to send on of the task that is written.
LEMMA ChainedAlone ==
    ASSUME WorkflowTypeOK, HandedOn, NEW q \in Process, Write(q),
           ~Engaged(plan[q]) => q = User /\ Next1(q).do = "begin" /\ Tail(plan[q]) = <<>>,
           NEW T \in Task, T = Next1(q).task, NEW x \in Place, Holds(x, T)'
    PROVE  x = q
<1>1. /\ plan[q] # <<>> /\ held[q] \in Snapshot /\ Accepts(Next1(q), held[q])
      /\ held[q] # NoSnapshot
  BY Writes
<1>2. Holds(x, T)
  BY WriteKeeps
<1>3. CASE Engaged(plan[q])
  <2>1. Holds(q, T)
    BY <1>1, <1>3, Holder DEF On
  <2> QED BY <1>2, <2>1, ProcessIsPlace DEF HandedOn, Exclusive
<1>4. CASE ~Engaged(plan[q])
  <2>1. snap[T] = held[q]
    BY <1>1, <1>4 DEF HandedOn, Untouched
  <2>2. held[q].status = "Pending"
    BY <1>1, <1>4 DEF Accepts
  <2> QED BY <1>2, <1>4, <2>1, <2>2 DEF HandedOn, Untouched
<1> QED BY <1>3, <1>4

\* The phases stay in order by a write.
LEMMA ChainedWrite ==
    ASSUME WorkflowTypeOK, Traces, HandedOn, ChainedFile, ChainedRead,
           OnlyDisturbedBy({"archive", "tool"}), NEW q \in Process, Write(q)
    PROVE  ChainedFile' /\ ChainedRead'
<1> PICK T \in Task : T = Next1(q).task
  BY Writes
<1> PICK op : op = Next1(q)
  OBVIOUS
<1> PICK s : s = held[q]
  OBVIOUS
<1>1. /\ plan[q] # <<>> /\ op.do \in StoreOps /\ op.phase \in Phase /\ op.task = T
      /\ s \in Snapshot /\ Accepts(op, s) /\ s # NoSnapshot
      /\ snap'[T] = Applied(op, s) /\ \A t \in Task : t # T => snap'[t] = snap[t]
      /\ held'[q] = NoSnapshot /\ \A r \in Process : r # q => held'[r] = held[r]
      /\ plan'[q] = Tail(plan[q]) /\ \A r \in Process : r # q => plan'[r] = plan[r]
      /\ inbox' = inbox
  BY Writes
<1>2. ASSUME NEW r \in Process, held'[r] # NoSnapshot, Head(plan'[r]).do # "archive",
             Live(held'[r])
      PROVE  Sound(held'[r]) /\ (Engaged(plan'[r]) => FitsPlan(r, plan'[r], held'[r]))
  BY <1>1, <1>2 DEF ChainedRead, Next1
<1>3. ChainedRead'
  BY <1>2 DEF ChainedRead, Next1
<1>4. ASSUME NEW t \in Task, t # T, Live(snap'[t])
      PROVE  Sound(snap'[t]) /\ \A x \in Place : Holds(x, t)' => Fits(x, t, snap[t])'
  <2>1. snap'[t] = snap[t] /\ Sound(snap[t])
    BY <1>1, <1>4 DEF ChainedFile
  <2>2. ASSUME NEW x \in Place, Holds(x, t)' PROVE Fits(x, t, snap[t])'
    <3>1. Holds(x, t)
      BY <2>2, WriteKeeps
    <3>2. Fits(x, t, snap[t])
      BY <1>4, <2>1, <3>1 DEF ChainedFile
    <3>3. x # q
      <4>1. x = q => On(q, t)'
        BY <2>2, Holder
      <4> QED BY <1>4, <4>1, WriteKeeps
    <3> QED BY <1>1, <2>1, <3>2, <3>3 DEF Fits
  <2> QED BY <2>1, <2>2
<1>5. ASSUME Live(snap'[T])
      PROVE  Sound(snap'[T]) /\ \A x \in Place : Holds(x, T)' => Fits(x, T, snap[T])'
  <2>1. op.do # "archive"
    BY <1>1, <1>5, StatusWritten DEF Live
  <2>2. /\ op.do \in StoreOps \ {"giveUp", "unstop", "stop", "reopen", "archive"}
        /\ Live(s)
        /\ s.status = "Pending" => op.do = "begin"
        /\ ~Engaged(plan[q]) => q = User /\ op.do = "begin" /\ Tail(plan[q]) = <<>>
    BY <1>5, <2>1, ChainedWriter
  <2>3. Sound(s) /\ (Engaged(plan[q]) => FitsPlan(q, plan[q], s))
    BY <1>1, <2>1, <2>2 DEF ChainedRead
  <2>4. Sound(snap'[T]) /\ (Engaged(plan[q]) /\ plan'[q] # <<>> => FitsPlan(q, plan'[q], snap'[T]))
    <3>1. CASE Engaged(plan[q])
      <4>1. FitsPlan(q, plan[q], s)
        BY <2>3, <3>1
      <4> QED BY <1>1, <2>2, <2>3, <3>1, <4>1, FitsWritten
    <3>2. CASE ~Engaged(plan[q])
      BY <1>1, <2>2, <2>3, <3>2, SoundWrite
    <3> QED BY <3>1, <3>2
  <2>5. ASSUME NEW x \in Place, Holds(x, T)' PROVE Fits(x, T, snap[T])'
    <3>1. x = q
      BY <2>2, <2>5, ChainedAlone
    <3>2. plan'[q] # <<>> /\ Engaged(plan'[q])
      BY <2>5, <3>1, Holder, IsOn
    <3>3. FitsPlan(q, plan'[q], snap'[T])
      BY <1>1, <2>2, <2>4, <3>2, Nothing
    <3> QED BY <3>1, <3>3, FitsThen
  <2> QED BY <2>4, <2>5
<1>6. ChainedFile'
  BY <1>4, <1>5 DEF ChainedFile
<1> QED BY <1>3, <1>6

\* The phases are worked off in order, after every step.
LEMMA ChainedStep ==
    ASSUME WorkflowTypeOK, WorkflowTypeOK', Traces, Owned, Chained, [Next]_vars
    PROVE  Chained'
<1> SUFFICES ASSUME OnlyDisturbedBy({"archive", "tool"})' PROVE ChainedFile' /\ ChainedRead'
  BY DEF Chained
<1>1. OnlyDisturbedBy({"archive", "tool"}) /\ Orderly
  <2>1. OnlyDisturbedBy({"archive", "tool"})
    BY Regimes
  <2> QED BY <2>1 DEF Orderly, OnlyDisturbedBy
<1>2. HandedOn /\ ChainedFile /\ ChainedRead
  BY <1>1 DEF Owned, Chained
<1>3. ~Crash
  BY DEF Crash, Intervene, OnlyDisturbedBy
<1> QED BY Steps, <1>1, <1>2, <1>3, ChainedTell, ChainedReceive, ChainedPump, ChainedRoute,
           ChainedColdStart, ChainedRequeue, ChainedExecution, ChainedPause, ChainedHeartbeat,
           ChainedReading, ChainedRequest, ChainedWrite

-----------------------------------------------------------------------------
(* The invariant.                                                          *)

\* At first nothing is under way.
LEMMA NothingYet ==
    ASSUME Init
    PROVE  /\ ~\E x \in Place, t \in Task : Holds(x, t)
           /\ \A q \in Process : plan[q] = <<>> /\ held[q] = NoSnapshot
           /\ inbox = <<>> /\ ready = <<>> /\ backoff = <<>>
           /\ \A t \in Task : snap[t].status = "Pending" /\ \A p \in Phase : snap[t].phases[p] = "absent"
<1>1. \A q \in Process : plan[q] = <<>> /\ held[q] = NoSnapshot
  BY DEF Init
<1>2. inbox = <<>> /\ ready = <<>> /\ backoff = <<>>
  BY DEF Init
<1>3. \A t \in Task :
         snap[t].status = "Pending" /\ \A p \in Phase : snap[t].phases[p] = "absent"
  BY DEF Init, Fresh
<1>4. ASSUME NEW x \in Place, NEW t \in Task, Holds(x, t) PROVE FALSE
  BY <1>1, <1>2, <1>4, Holder, IsOn
<1> QED BY <1>1, <1>2, <1>3, <1>4

\* The invariant holds at first.
LEMMA InvInit == Init => WorkflowInv
<1> SUFFICES ASSUME Init PROVE WorkflowInv
  OBVIOUS
<1>1. WorkflowTypeOK /\ Traces
  BY TypeInit, TracesInit
<1>2. \A q \in Process, t \in Task : ~On(q, t)
  BY NothingYet DEF On
<1>3. HandedOn
  <2>1. Once /\ Exclusive
    BY NothingYet DEF Once, Exclusive
  <2>2. Untouched
    BY <1>2, NothingYet, Processes DEF Untouched, NoPaused
  <2>3. Booked
    BY NothingYet, Processes DEF Booked, IsScript
  <2> QED BY <2>1, <2>2, <2>3 DEF HandedOn
<1>4. FreshRead
  BY NothingYet DEF FreshRead
<1>5. Waits
  BY <1>2, NothingYet DEF Waits, WaitsWell
<1>6. Awaited
  BY NothingYet, Nothing DEF Awaited
<1>7. ChainedFile /\ ChainedRead
  <2>1. \A t \in Task : Sound(snap[t])
    BY NothingYet DEF Sound, InOrder
  <2> QED BY <2>1, NothingYet DEF ChainedFile, ChainedRead
<1> QED BY <1>1, <1>3, <1>4, <1>5, <1>6, <1>7
        DEF WorkflowInv, Owned, Reopenable, OutcomesAwaited, Chained

\* The invariant is kept by every step.
LEMMA InvStep == WorkflowInv /\ [Next]_vars => WorkflowInv'
<1> SUFFICES ASSUME WorkflowInv, [Next]_vars PROVE WorkflowInv'
  OBVIOUS
<1>1. /\ WorkflowTypeOK /\ Traces /\ Owned /\ (Calm => FreshRead) /\ Reopenable
      /\ OutcomesAwaited /\ Chained
  BY DEF WorkflowInv
<1>2. WorkflowTypeOK'
  BY <1>1, TypeStep
<1>3. Traces'
  BY <1>1, TracesStep
<1>4. Owned'
  BY <1>1, OwnedStep
<1>5. Calm' => FreshRead'
  BY <1>1, FreshReadStep
<1>6. Reopenable'
  BY <1>1, ReopenableStep
<1>7. OutcomesAwaited'
  BY <1>1, <1>2, AwaitedStep
<1>8. Chained'
  BY <1>1, <1>2, ChainedStep
<1> QED BY <1>2, <1>3, <1>4, <1>5, <1>6, <1>7, <1>8 DEF WorkflowInv

\* The invariant holds always, for any tasks, phases, interventions and their
\* number.
THEOREM WorkflowInvariants == Spec => []WorkflowInv
<1> QED BY InvInit, InvStep, PTL DEF Spec

-----------------------------------------------------------------------------
(* What the invariant is for.                                              *)

\* An execution that has more to do than to report tokens sends its task on.
LEMMA ExecutionHolds ==
    ASSUME WorkflowTypeOK, NEW j \in Job, Executes(j)
    PROVE  Holds(j, j[1]) /\ j \in Place
<1>1. plan[j] # <<>> /\ j \in Process
  BY Processes DEF Executes
<1>2. On(j, j[1])
  BY <1>1, PlanIs DEF On
<1>3. CASE IsA("folder", j)
  BY <1>1, <1>2, <1>3, PlanIs, ScriptPlan, Holder, ProcessIsPlace
<1>4. CASE IsA("prompt", j)
  <2> PICK t, p, w : t = Next1(j).task /\ p = Next1(j).phase /\ w = plan[j]
    OBVIOUS
  <2>1. w \in AgentPlans(t, p)
    BY <1>1, <1>4, PlanIs
  <2>2. SUFFICES ASSUME ~Engaged(w) PROVE FALSE
    BY <1>1, <1>2, Holder, ProcessIsPlace
  <2>3. Head(w).do = "meter"
    BY <2>1, <2>2, AgentPlan
  <2>4. w = <<Op("meter", t, p)>>
    <3> PICK a, b, c, d, e, f : /\ a = Op("meter", t, p) /\ b = Op("turn", t, p)
                                /\ c = Op("fail", t, p) /\ d = Op("complete", t, p)
                                /\ e = Op("skip", t, p) /\ f = Op("phaseCompleted", t, p)
      OBVIOUS
    <3>1. /\ a.do = "meter" /\ b.do # "meter" /\ c.do # "meter" /\ d.do # "meter"
          /\ e.do # "meter" /\ f.do # "meter"
      BY DEF Op
    <3>2. w \in {<<b>>, <<c, b>>, <<d, f>>, <<d, f, a>>, <<e, f>>, <<e, f, a>>,
                 <<f>>, <<f, a>>, <<a>>}
      BY <2>1 DEF AgentPlans
    <3> QED BY <2>3, <3>1, <3>2
  <2>5. \A i \in DOMAIN w : w[i].do = "meter"
    BY <2>4 DEF Op
  <2> QED BY <2>5 DEF Executes
<1> QED BY <1>1, <1>3, <1>4, PlanIs, Processes

\* Two executions of a task would both hold it.
LEMMA InvOneExecution == WorkflowInv => OneExecution
<1> SUFFICES ASSUME WorkflowInv, Orderly, NEW j \in Job, NEW k \in Job, j # k, j[1] = k[1],
                    Executes(j), Executes(k)
             PROVE  FALSE
  BY DEF OneExecution
<1>1. Exclusive /\ WorkflowTypeOK
  BY DEF WorkflowInv, Owned, HandedOn
<1>2. j[1] \in Task
  BY DEF Job
<1> QED BY <1>1, <1>2, ExecutionHolds DEF Exclusive

\* Two scripts hold different tasks, whose directories are booked.
LEMMA InvDirectoryExclusive == WorkflowInv => DirectoryExclusive
<1> SUFFICES ASSUME WorkflowInv, Orderly, NEW j \in Job, NEW k \in Job, j # k,
                    DirectoryOf[j[1]] = DirectoryOf[k[1]], DirectoryOf[j[1]] # NoDirectory,
                    Script(j), Script(k)
             PROVE  FALSE
  BY DEF DirectoryExclusive
<1>1. Exclusive /\ Booked /\ WorkflowTypeOK
  BY DEF WorkflowInv, Owned, HandedOn
<1>2. ASSUME NEW i \in Job, Script(i) PROVE IsScript(i)
  BY <1>1, <1>2, PlanIs, Processes DEF Script, Doing, IsScript, IsA
<1>3. CASE j[1] = k[1]
  BY <1>1, <1>2, <1>3, ScriptHolds DEF Exclusive
<1>4. CASE j[1] # k[1]
  BY <1>1, <1>2, <1>4 DEF Booked
<1> QED BY <1>3, <1>4

\* An execution holds its task, and fits what is in the file.
LEMMA InvPhaseOrder == WorkflowInv => PhaseOrder
<1> SUFFICES ASSUME WorkflowInv, OnlyDisturbedBy({"tool"}), NEW j \in Job, Active(j),
                    NEW r \in 1 .. j[2] - 1
             PROVE  Done(j[1], r)
  BY DEF PhaseOrder
<1> PICK t \in Task, p \in Phase : t = j[1] /\ p = j[2]
  BY DEF Job
<1>1. "tokens" \notin mishaps /\ WorkflowTypeOK /\ Traces /\ Waits /\ ChainedFile
  BY DEF OnlyDisturbedBy, WorkflowInv, Reopenable, Chained
<1>2. j \in Process /\ j # User /\ plan[j] # <<>>
  BY Processes DEF Active
<1>3. /\ On(j, t) /\ Head(plan[j]).phase = p
  BY <1>1, <1>2, PlanIs DEF On
<1>4. Holds(j, t) /\ j \in Place
  BY <1>1, <1>2, <1>3, WorkerHolds, ProcessIsPlace
<1>5. snap[t].status = "Running"
  BY <1>1, <1>2, <1>4 DEF Waits, WaitsWell
<1>6. FitsPlan(j, plan[j], snap[t])
  BY <1>1, <1>2, <1>4, <1>5, FitsAt DEF ChainedFile, Live
<1>7. Current(snap[t], p)
  BY <1>3, <1>6, JobFits
<1> QED BY <1>7 DEF Current, IsDone, Done

\* A task that is Completed is in order.
LEMMA InvCompletedIsDone == WorkflowInv => CompletedIsDone
<1> SUFFICES ASSUME WorkflowInv, OnlyDisturbedBy({"archive", "tool"}), NEW t \in Task,
                    snap[t].status = "Completed", NEW p \in Phase
             PROVE  Done(t, p)
  BY DEF CompletedIsDone
<1> QED BY DEF WorkflowInv, Chained, ChainedFile, Live, Sound, AllDone, IsDone, Done

\* A task has at most one execution, whatever requests and crashes come between.
THEOREM OneExecutions == Spec => []OneExecution
<1> QED BY WorkflowInvariants, InvOneExecution, PTL

\* Two scripts never run in one working directory.
THEOREM DirectoriesExclusive == Spec => []DirectoryExclusive
<1> QED BY WorkflowInvariants, InvDirectoryExclusive, PTL

\* A phase is executed when every phase before it has completed or was skipped.
THEOREM PhasesInOrder == Spec => []PhaseOrder
<1> QED BY WorkflowInvariants, InvPhaseOrder, PTL

\* A task is marked Completed when all its phases completed or were skipped.
THEOREM CompletedAreDone == Spec => []CompletedIsDone
<1> QED BY WorkflowInvariants, InvCompletedIsDone, PTL

\* An operation leaves the outcome of a phase, unless it is about that phase.
LEMMA OutcomeStays ==
    ASSUME NEW op, NEW s \in Snapshot, op.phase \in Phase,
           op.do \in StoreOps \ {"stop", "reopen"}, NEW p \in Phase, IsDone(s, p),
           op.do \in {"start", "pause", "complete", "skip", "fail"} => p # op.phase,
           NEW r, r = Applied(op, s)
    PROVE  r.phases[p] = s.phases[p]
<1>1. CASE op.do \in {"start", "pause", "complete", "skip", "fail"}
  BY <1>1, AppliedToPhase
<1>2. CASE op.do \in {"meter", "finish", "giveUp", "begin", "archive"}
  BY <1>2, AppliedToStatus
<1>3. CASE op.do \in {"approve", "clear"}
  BY <1>3, AppliedToPhases DEF Approved, Cleared, IsDone
<1>4. CASE op.do = "unstop"
  BY <1>4, AppliedToBoth DEF Unstopped, IsDone
<1> QED BY <1>1, <1>2, <1>3, <1>4 DEF StoreOps

\* Who writes wrote what it read, and is not at work on a phase that has its
\* outcome.
LEMMA InvOutcomesKept ==
    ASSUME WorkflowInv, [Next]_vars, OnlyDisturbedBy({"crash", "tool"})',
           NEW t \in Task, NEW p \in Phase, Done(t, p)
    PROVE  snap'[t].phases[p] = snap[t].phases[p]
<1>1. /\ OnlyDisturbedBy({"crash", "tool"}) /\ Calm
      /\ "stop" \notin mishaps /\ "reopen" \notin mishaps /\ "archive" \notin mishaps
  <2>1. OnlyDisturbedBy({"crash", "tool"})
    BY Regimes
  <2> QED BY <2>1 DEF Calm, OnlyDisturbedBy
<1>2. WorkflowTypeOK /\ Traces /\ FreshRead /\ Awaited
  BY <1>1 DEF WorkflowInv, OutcomesAwaited
<1>3. CASE \A q \in Process : ~Write(q)
  <2>1. snap' = snap
    <3>1. CASE \E q \in Process : Read(q)
      BY <3>1 DEF Read
    <3>2. CASE \A q \in Process : ~Read(q)
      BY <1>2, <1>3, <3>2, StepKeeps
    <3> QED BY <3>1, <3>2
  <2> QED BY <2>1
<1>4. ASSUME NEW q \in Process, Write(q) PROVE snap'[t].phases[p] = snap[t].phases[p]
  <2> PICK op : op = Next1(q)
    OBVIOUS
  <2> PICK s : s = held[q]
    OBVIOUS
  <2>1. /\ plan[q] # <<>> /\ op.do \in StoreOps /\ op.phase \in Phase /\ op.task \in Task
        /\ s \in Snapshot /\ s # NoSnapshot
        /\ snap'[op.task] = Applied(op, s)
        /\ \A u \in Task : u # op.task => snap'[u] = snap[u]
        /\ op = Head(plan[q]) /\ IsPlan(q, plan[q])
    BY <1>2, <1>4, Writes, PlanIs
  <2>2. SUFFICES ASSUME op.task = t PROVE Applied(op, s).phases[p] = snap[t].phases[p]
    BY <2>1
  <2>3. op.do \notin {"stop", "reopen", "archive"}
    <3>1. op.do \in {"stop", "reopen", "archive"} => q = User
      BY <1>2, <2>1, PlanIs
    <3>2. /\ q = User /\ op.do = "stop" => Has(plan[User], {"stop"})
          /\ q = User /\ op.do = "reopen" => Has(plan[User], {"reopen"})
          /\ q = User /\ op.do = "archive" => Has(plan[User], {"archive"})
      BY <1>2, <2>1, PlanIs, UserPlan, Processes
    <3> QED BY <1>1, <1>2, <3>1, <3>2 DEF Traces
  <2>4. s = snap[t]
    BY <1>1, <1>2, <2>1, <2>2, <2>3 DEF FreshRead, Traces, Traced
  <2>5. IsDone(s, p)
    BY <2>4 DEF Done, IsDone
  <2>6. op.do \in {"start", "pause", "complete", "skip", "fail"} => p # op.phase
    <3>1. ASSUME op.do \in {"start", "pause", "complete", "skip", "fail"}
          PROVE  Has(plan[q], PhaseOps)
      <4>1. CASE q = QueueManager
        BY <1>2, <2>1, <3>1, <4>1, PlanIs, ManagerPlan
      <4>2. CASE q = User
        BY <1>2, <2>1, <3>1, <4>2, PlanIs, UserPlan
      <4>3. CASE IsA("folder", q)
        BY <1>2, <2>1, <3>1, <4>3, PlanIs, ScriptPlan
      <4>4. CASE IsA("prompt", q)
        BY <1>2, <2>1, <3>1, <4>4, PlanIs, AgentPlan
      <4> QED BY <1>2, <2>1, <4>1, <4>2, <4>3, <4>4, PlanIs
    <3> QED BY <2>2, <2>4, <2>5, <3>1, <1>2 DEF Awaited
  <2>7. Applied(op, s).phases[p] = s.phases[p]
    BY <2>1, <2>3, <2>5, <2>6, OutcomeStays
  <2> QED BY <2>4, <2>7
<1> QED BY <1>3, <1>4

\* The outcome of a phase is never undone, by a restart or by the whole-file write of
\* an operation that read the file before.
THEOREM OutcomesStay == Spec => OutcomesKept
<1>1. ASSUME WorkflowInv, [Next]_vars
      PROVE  [ OnlyDisturbedBy({"crash", "tool"})' =>
                  \A t \in Task, p \in Phase :
                     Done(t, p) => snap'[t].phases[p] = snap[t].phases[p] ]_vars
  BY <1>1, InvOutcomesKept
<1> QED BY <1>1, WorkflowInvariants, PTL DEF Spec, OutcomesKept
================================================================================
