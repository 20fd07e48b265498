------------------------ MODULE WorkflowQueueInvariant ------------------------
(***************************************************************************)
(* The invariant behind the safety of WorkflowQueue: one place at a time   *)
(* sends a task on, what is read is still what is in the file, and the     *)
(* phases are worked off in order.  Each part says under which mishaps.    *)
(***************************************************************************)
EXTENDS WorkflowQueue

-----------------------------------------------------------------------------
(* What each process may have to do.                                       *)

ScriptPlans(t, p) ==
    LET op(do) == Op(do, t, p)
    IN  {<<op("start"), op("script")>>, <<op("script")>>,
         <<op("meter"), op("complete"), op("phaseCompleted")>>,
         <<op("complete"), op("phaseCompleted")>>, <<op("phaseCompleted")>>,
         <<op("meter"), op("fail"), op("phaseFailed")>>,
         <<op("fail"), op("phaseFailed")>>, <<op("phaseFailed")>>}

AgentPlans(t, p) ==
    LET op(do) == Op(do, t, p)
    IN  {<<op("turn")>>, <<op("fail"), op("turn")>>,
         <<op("complete"), op("phaseCompleted")>>,
         <<op("complete"), op("phaseCompleted"), op("meter")>>,
         <<op("skip"), op("phaseCompleted")>>,
         <<op("skip"), op("phaseCompleted"), op("meter")>>,
         <<op("phaseCompleted")>>, <<op("phaseCompleted"), op("meter")>>, <<op("meter")>>}

ManagerPlans(t, p) ==
    LET op(do) == Op(do, t, p)
    IN  {<<op("route")>>, <<op("start"), op("pause")>>, <<op("pause")>>,
         <<op("approve"), op("clear"), op("requeue")>>, <<op("clear"), op("requeue")>>,
         <<op("unstop"), op("requeue")>>, <<op("requeue")>>,
         <<op("finish")>>, <<op("giveUp")>>}
        \cup IF TypeOf[p] = "prompt"
             THEN {<<op("start"), op("coldStart")>>, <<op("coldStart")>>} ELSE {}

UserPlans(t, p) ==
    LET op(do) == Op(do, t, p)
    IN  {<<op("begin"), op("startTask")>>, <<op("startTask")>>, <<op("resumeTask")>>,
         <<op("complete"), op("phaseCompleted")>>, <<op("phaseCompleted")>>,
         <<op("begin")>>, <<op("stop")>>, <<op("reopen")>>, <<op("archive")>>}

IsPlan(q, w) ==
    \/ w = <<>>
    \/ \E t \in Task, p \in Phase :
          \/ /\ \E n \in Slots : q = <<t, p, n>>
             /\ \/ TypeOf[p] = "folder" /\ w \in ScriptPlans(t, p)
                \/ TypeOf[p] = "prompt" /\ w \in AgentPlans(t, p)
          \/ q = QueueManager /\ w \in ManagerPlans(t, p)
          \/ q = User /\ w \in UserPlans(t, p)

Has(w, ops) == \E i \in DOMAIN w : w[i].do \in ops

StateOK ==
    /\ snap \in [Task -> Snapshot] /\ outputs \in [Task -> SUBSET Phase]
    /\ inbox \in Seq([do : Messages, task : Task, phase : Phase])
    /\ ready \in Seq(Task) /\ backoff \in Seq(Task) /\ running \subseteq Task
    /\ pc \in {"idle", "pump", "work"}
    /\ interventions \in 0 .. MaxInterventions /\ mishaps \subseteq Interventions \cup {"tokens"}

\* The user and a script complete a phase only with its declared output there.
PlansOK ==
    /\ plan = [q \in Process |-> plan[q]] /\ \A q \in Process : IsPlan(q, plan[q])
    /\ pc # "work" => plan[QueueManager] = <<>>
    /\ \A q \in Process :
          Has(plan[q], {"complete"}) /\ ~IsA("prompt", q)
             => OutputsThere(Next1(q).task, Next1(q).phase)

\* A process reads only what it may write.
HeldOK ==
    /\ held \in [Process -> Snapshot \cup {NoSnapshot}]
    /\ \A q \in Process :
          held[q] # NoSnapshot =>
             plan[q] # <<>> /\ Next1(q).do \in StoreOps /\ Accepts(Next1(q), held[q])

\* The type invariant.
WorkflowTypeOK == StateOK /\ PlansOK /\ HeldOK

\* What there was no mishap of has left no trace.
Traced(s) ==
    /\ s.status = "Archived" => "archive" \in mishaps
    /\ s.status = "Stopped" \/ (\E p \in Phase : s.phases[p] = "Stopped") => "stop" \in mishaps

Traces ==
    /\ \A do \in {"stop", "reopen", "archive"} : Has(plan[User], {do}) => do \in mishaps
    /\ \A q \in Process : IsA("prompt", q) /\ Has(plan[q], {"meter"}) => "tokens" \in mishaps
    /\ \A t \in Task : Traced(snap[t])
    /\ \A q \in Process : held[q] # NoSnapshot => Traced(held[q])

-----------------------------------------------------------------------------
(* One place at a time sends a task on.                                    *)

ReadyQueue == <<"ready">>
BackoffQueue == <<"backoff">>
Channel == <<"channel">>
Place == Process \cup {ReadyQueue, BackoffQueue, Channel}

\* What does not pass the task on.
Loose == {"meter", "fail", "begin", "stop", "reopen", "archive"}
Engaged(w) == \E i \in DOMAIN w : w[i].do \notin Loose

On(q, t) == plan[q] # <<>> /\ Next1(q).task = t

Holds(x, t) ==
    \/ x = ReadyQueue /\ \E i \in DOMAIN ready : ready[i] = t
    \/ x = BackoffQueue /\ \E i \in DOMAIN backoff : backoff[i] = t
    \/ x = Channel /\ \E i \in DOMAIN inbox : inbox[i].task = t
    \/ x \in Process /\ On(x, t) /\ Engaged(plan[x])

\* Nobody is at work on the task.
Alone(t) ==
    /\ \A x \in Place : ~Holds(x, t)
    /\ \A q \in Process : On(q, t) => q = User

Once ==
    /\ \A i, k \in DOMAIN ready : ready[i] = ready[k] => i = k
    /\ \A i, k \in DOMAIN backoff : backoff[i] = backoff[k] => i = k
    /\ \A i, k \in DOMAIN inbox : inbox[i].task = inbox[k].task => i = k

Exclusive ==
    \A t \in Task, x \in Place : Holds(x, t) => \A y \in Place : Holds(y, t) => x = y

NoPaused(s) == \A p \in Phase : s.phases[p] # "Paused"

\* Before a task begins nobody but the user does anything to it.
Untouched ==
    /\ \A t \in Task : snap[t].status = "Pending" =>
          /\ NoPaused(snap[t])
          /\ \A x \in Place : Holds(x, t) => x = User
          /\ \A q \in Process : On(q, t) =>
                q = User /\ Next1(q).do \in {"begin", "stop", "reopen", "archive"}
    /\ \A q \in Process : held[q] # NoSnapshot /\ held[q].status = "Pending" =>
          /\ q = User /\ Next1(q).do \in {"begin", "stop", "reopen", "archive"}
          /\ NoPaused(held[q])
    /\ held[User] # NoSnapshot /\ Next1(User).do = "begin" =>
          snap[Next1(User).task] = held[User]

\* The task of a script is in running_tasks, and no other script uses its directory.
IsScript(j) == j \in Job /\ TypeOf[j[2]] = "folder" /\ plan[j] # <<>>
Booked ==
    /\ \A j \in Job : IsScript(j) => j[1] \in running
    /\ \A j, k \in Job : IsScript(j) /\ IsScript(k) /\ j[1] # k[1] =>
          DirectoryOf[j[1]] # DirectoryOf[k[1]] \/ DirectoryOf[j[1]] = NoDirectory

HandedOn == Once /\ Exclusive /\ Untouched /\ Booked

Owned == Orderly => HandedOn

-----------------------------------------------------------------------------
(* What was read is still in the file.                                     *)

Calm ==
    \/ OnlyDisturbedBy({"archive", "crash", "tool"})
    \/ OnlyDisturbedBy({"reopen", "crash", "tool"})

FreshRead ==
    \A q \in Process : held[q] # NoSnapshot /\ Next1(q).do # "archive" =>
        LET s == snap[Next1(q).task] IN s = held[q] \/ s.status = "Archived"

Open(s, p) == s.phases[p] \in {"absent", "Paused"}
IsNext(s, p) == Open(s, p) /\ \A r \in 1 .. p - 1 : ~Open(s, r)

\* What is done next for a task suits its phases.
Suits(op, s) ==
    /\ op.do \in {"route", "start"} => IsNext(s, op.phase)
    /\ op.do = "pause" =>
          /\ \A r \in 1 .. op.phase - 1 : ~Open(s, r)
          /\ \A r \in Phase : s.phases[r] = "Paused" => r = op.phase
    /\ op.do \notin {"route", "start", "pause", "approve", "clear", "unstop", "requeue"} =>
          NoPaused(s)

\* A task that is reopened: it does not wait for its user, and nobody works on it.
WaitsWell(t) ==
    LET s == snap[t]
    IN  /\ \A x \in Place : Holds(x, t) =>
              s.status = "Running" \/ (x = User /\ Next1(User).do = "begin")
        /\ \A p \in Phase : s.phases[p] = "Paused" => s.status = "Running" /\ IsNext(s, p)
        /\ \A i \in DOMAIN inbox :
              inbox[i].task = t /\ inbox[i].do = "phaseFailed" => NoPaused(s)
        /\ \A q \in Process : On(q, t) /\ q # User => Suits(Next1(q), s)

Waits == \A t \in Task : WaitsWell(t)

Reopenable == OnlyDisturbedBy({"reopen", "crash", "tool"}) => Waits

-----------------------------------------------------------------------------
(* The phases are worked off in order.                                     *)

IsDone(s, p) == s.phases[p] \in {"Completed", "Skipped"}

PhaseOps == {"route", "start", "pause", "coldStart", "script", "turn", "complete", "skip", "fail"}

\* Nobody is at work on a phase that has its outcome.
Awaited ==
    \A q \in Process : Has(plan[q], PhaseOps) => ~IsDone(snap[Next1(q).task], Next1(q).phase)

OutcomesAwaited == OnlyDisturbedBy({"crash", "tool"}) => Awaited

AllDone(s) == \A p \in Phase : IsDone(s, p)
Settled(s) == \A p \in Phase : Open(s, p) \/ IsDone(s, p)
InOrder(s) == \A p, r \in Phase : p < r /\ s.phases[r] # "absent" => IsDone(s, p)
Current(s, p) ==
    /\ \A r \in 1 .. p - 1 : IsDone(s, r)
    /\ \A r \in p + 1 .. PhaseCount : s.phases[r] = "absent"

\* What a process that sends the task on, or another place, knows of the phases.
FitsPlan(q, w, s) ==
    /\ Has(w, PhaseOps) => ~IsDone(s, Head(w).phase)
    /\ q = User =>
          /\ Settled(s)
          /\ Head(w).do = "complete" => Current(s, Head(w).phase)
    /\ q = QueueManager =>
          /\ Head(w).do = "finish" => AllDone(s)
          /\ Head(w).do \in {"route", "start", "pause", "coldStart"} => Current(s, Head(w).phase)
          /\ Head(w).do \in {"route", "start"} => Open(s, Head(w).phase)
          /\ Head(w).do \notin {"giveUp", "pause", "coldStart"} => Settled(s)
    /\ q \in Job =>
          /\ Current(s, Head(w).phase)
          /\ Head(w).do = "phaseCompleted" => IsDone(s, Head(w).phase)

Fits(x, t, s) ==
    /\ x \in Process => FitsPlan(x, plan[x], s)
    /\ x \in {ReadyQueue, BackoffQueue} => Settled(s)
    /\ x = Channel => \A i \in DOMAIN inbox :
          inbox[i].task = t /\ inbox[i].do # "phaseFailed" => Settled(s)

Live(s) == s.status \in {"Pending", "Running", "Completed"}
Sound(s) ==
    /\ InOrder(s)
    /\ s.status = "Completed" => AllDone(s)
    /\ s.status = "Pending" => \A p \in Phase : s.phases[p] = "absent"

ChainedFile ==
    \A t \in Task : Live(snap[t]) =>
        Sound(snap[t]) /\ \A x \in Place : Holds(x, t) => Fits(x, t, snap[t])

ChainedRead ==
    \A q \in Process : held[q] # NoSnapshot /\ Next1(q).do # "archive" /\ Live(held[q]) =>
        Sound(held[q]) /\ (Engaged(plan[q]) => FitsPlan(q, plan[q], held[q]))

Chained == OnlyDisturbedBy({"archive", "tool"}) => ChainedFile /\ ChainedRead

\* The inductive invariant: the plans of the processes are those the code leaves to do,
\* and while what disturbs a task is limited as each part says, one place at a time has
\* the task to send on, every read of its file is fresh, a paused phase waits for its
\* user only, nobody works on a phase that has its outcome, and the phases are in order.
WorkflowInv ==
    /\ WorkflowTypeOK /\ Traces /\ Owned /\ (Calm => FreshRead) /\ Reopenable
    /\ OutcomesAwaited /\ Chained
=============================================================================
