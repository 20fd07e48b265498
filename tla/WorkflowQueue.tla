---------------------------- MODULE WorkflowQueue ----------------------------
(***************************************************************************)
(* Workflow tasks: the queue manager that walks a task through its phases  *)
(* (ao-engine/src/workflow_queue_manager.rs), the folder scripts and agent *)
(* sessions that execute the phases, the operations on the snapshot of a   *)
(* task (workflow_runner.rs) and the user's requests (ao-server            *)
(* routes/workflows.rs and the workflow tools of the agents).              *)
(*                                                                         *)
(* A task lives in one file, task.yaml.  Every operation on it reads the   *)
(* file and writes it back later, with no lock: a caller is a process with *)
(* a plan, a sequence of operations, and an operation on the file is a     *)
(* Read and a Write step.                                                  *)
(***************************************************************************)
EXTENDS Naturals, Sequences, FiniteSets

CONSTANTS
    Task,
    PhaseCount,       \* the phases of the workflow, in order of definition
    TypeOf,           \* prompt (an agent), folder (a script), gate (the user)
    AutoAdvance,      \* the phases with auto_advance: true
    Needs,            \* the phases whose output a phase takes as input
    Produces,         \* the phases that declare an output
    Flaky,            \* the phases whose script or agent may fail
    Skippable,        \* the prompts whose agent may skip the phase
    Metered,          \* the phases that report tokens
    DirectoryOf,      \* the working directory of a task
    NoDirectory,
    Slots,            \* executions of one phase at a time (bound)
    Interventions,    \* what else the user and the machine do
    MaxInterventions, \* how often (bound)
    Disturbed         \* the tasks they are about (bound: tasks are alike)

Phase == 1 .. PhaseCount
Job == Task \X Phase \X Slots
QueueManager == <<"manager">>
User == <<"user">>
Process == Job \cup {QueueManager, User}

TaskStatus == {"Pending", "Running", "Completed", "Failed", "Stopped", "Archived"}
PhaseStatus == {"absent", "Running", "Completed", "Skipped", "Failed", "Paused", "Stopped"}
Snapshot == [status : TaskStatus, phases : [Phase -> PhaseStatus]]
NoSnapshot == [status |-> "none"]

ASSUME WorkflowAssumptions ==
    /\ PhaseCount \in Nat \ {0}
    /\ TypeOf \in [Phase -> {"prompt", "folder", "gate"}]
    /\ Needs \in [Phase -> SUBSET Phase]
    /\ AutoAdvance \cup Produces \cup Flaky \cup Skippable \cup Metered \subseteq Phase
    /\ Interventions \subseteq {"stop", "reopen", "archive", "crash", "resume", "submit", "tool"}
    /\ MaxInterventions \in Nat /\ IsFiniteSet(Task) /\ Disturbed \subseteq Task

VARIABLES
    snap,          \* task.yaml of each task
    outputs,       \* the phases whose output is in the task's directory
    inbox,         \* task_rx
    ready,         \* ready_queue
    backoff,       \* backoff_queue
    running,       \* the keys of running_tasks
    pc,            \* what the manager is doing
    plan,          \* what each process has still to do
    held,          \* the snapshot each process has read and not yet written back
    interventions, \* how many there were
    mishaps        \* which of them there were, and late reports of tokens

vars == <<snap, outputs, inbox, ready, backoff, running, pc, plan, held,
          interventions, mishaps>>

queues == <<ready, backoff, running>>
user == <<interventions, mishaps>>

Fresh == [status |-> "Pending", phases |-> [p \in Phase |-> "absent"]]

Init ==
    /\ snap = [t \in Task |-> Fresh]
    /\ outputs = [t \in Task |-> {}]
    /\ inbox = <<>> /\ ready = <<>> /\ backoff = <<>> /\ running = {}
    /\ pc = "idle"
    /\ plan = [q \in Process |-> <<>>]
    /\ held = [q \in Process |-> NoSnapshot]
    /\ interventions = 0 /\ mishaps = {}

-----------------------------------------------------------------------------
(* Operations on a snapshot: what each writes and what it refuses.         *)

Op(do, t, p) == [do |-> do, task |-> t, phase |-> p]

WithPhase(s, p, status) == [s EXCEPT !.phases[p] = status]
WithStatus(s, status) == [s EXCEPT !.status = status]
WithPhases(s, Change(_, _)) ==
    [s EXCEPT !.phases = [p \in Phase |-> Change(p, s.phases[p])]]

OutputsThere(t, p) == p \in Produces => p \in outputs[t]

\* complete_paused_gate_phases, clear_paused_phases, clear_stopped_phases, stop_task
Approved(p, status) == IF status = "Paused" /\ TypeOf[p] = "gate" THEN "Completed" ELSE status
Cleared(t, p, status) ==
    IF status = "Paused" THEN "absent"
    ELSE IF status = "Failed" /\ OutputsThere(t, p) THEN "Completed" ELSE status
Unstopped(p, status) == IF status = "Stopped" THEN "absent" ELSE status
Interrupted(p, status) == IF status = "Running" THEN "Stopped" ELSE status

Accepts(op, s) ==
    CASE op.do = "complete" -> s.status # "Stopped" /\ OutputsThere(op.task, op.phase)
      [] op.do = "meter" -> s.phases[op.phase] # "absent"
      [] op.do = "finish" -> s.status = "Running"
      [] op.do = "clear" -> \E p \in Phase : s.phases[p] # Cleared(op.task, p, s.phases[p])
      [] op.do = "unstop" -> \E p \in Phase : s.phases[p] = "Stopped"
      [] op.do = "begin" -> s.status = "Pending"
      [] op.do = "reopen" -> s.status \in {"Completed", "Failed", "Stopped"}
      [] OTHER -> TRUE

Applied(op, s) ==
    CASE op.do = "start" -> WithPhase(s, op.phase, "Running")
      [] op.do = "pause" -> WithPhase(s, op.phase, "Paused")
      [] op.do = "complete" -> WithPhase(s, op.phase, "Completed")
      [] op.do = "skip" -> WithPhase(s, op.phase, "Skipped")
      [] op.do = "fail" -> WithPhase(s, op.phase, "Failed")
      [] op.do = "meter" -> s
      [] op.do = "finish" -> WithStatus(s, "Completed")
      [] op.do = "giveUp" -> WithStatus(s, "Failed")
      [] op.do = "approve" -> WithPhases(s, Approved)
      [] op.do = "clear" -> WithPhases(s, LAMBDA p, status : Cleared(op.task, p, status))
      [] op.do = "unstop" -> WithStatus(WithPhases(s, Unstopped), "Running")
      [] op.do = "begin" -> WithStatus(s, "Running")
      [] op.do = "stop" -> WithStatus(WithPhases(s, Interrupted), "Stopped")
      [] op.do = "reopen" -> WithStatus(WithPhase(s, op.phase, "absent"), "Pending")
      [] op.do = "archive" -> WithStatus(s, "Archived")

StoreOps == {"start", "pause", "complete", "skip", "fail", "meter", "finish", "giveUp",
             "approve", "clear", "unstop", "begin", "stop", "reopen", "archive"}

\* What a process does after an operation refuses.  A script whose completion is
\* rejected reports a failure; an agent hears of it and is still at work, a phase
\* that runs and lacks its output being failed first; a request of the user ends.
IsA(type, q) == q \in Job /\ TypeOf[q[2]] = type

AfterRefusal(q, op, s) ==
    LET then(do) == Op(do, op.task, op.phase)
        lacking == s.status # "Stopped" /\ s.phases[op.phase] = "Running"
    IN  CASE op.do = "complete" /\ IsA("folder", q) -> <<then("phaseFailed")>>
          [] op.do = "complete" /\ IsA("prompt", q) ->
                IF lacking THEN <<then("fail"), then("turn")>> ELSE <<then("turn")>>
          [] op.do = "complete" /\ q = User ->
                IF lacking THEN <<then("fail")>> ELSE <<>>
          [] op.do = "begin" -> <<>>
          [] OTHER -> Tail(plan[q])

Next1(q) == Head(plan[q])
Doing(q, do) == plan[q] # <<>> /\ Next1(q).do = do

Read(q) ==
    /\ plan[q] # <<>> /\ Next1(q).do \in StoreOps /\ held[q] = NoSnapshot
    /\ q = QueueManager => pc = "work"
    /\ LET op == Next1(q)
           s == snap[op.task]
       IN  IF Accepts(op, s)
           THEN held' = [held EXCEPT ![q] = s] /\ UNCHANGED plan
           ELSE plan' = [plan EXCEPT ![q] = AfterRefusal(q, op, s)] /\ UNCHANGED held
    /\ UNCHANGED <<snap, outputs, inbox, queues, pc, user>>

Write(q) ==
    /\ held[q] # NoSnapshot
    /\ snap' = [snap EXCEPT ![Next1(q).task] = Applied(Next1(q), held[q])]
    /\ held' = [held EXCEPT ![q] = NoSnapshot]
    /\ plan' = [plan EXCEPT ![q] = Tail(@)]
    /\ UNCHANGED <<outputs, inbox, queues, pc, user>>

Messages == {"startTask", "phaseCompleted", "phaseFailed", "resumeTask"}

Tell(q) ==
    /\ plan[q] # <<>> /\ Next1(q).do \in Messages
    /\ inbox' = Append(inbox, Next1(q))
    /\ plan' = [plan EXCEPT ![q] = Tail(@)]
    /\ UNCHANGED <<snap, outputs, queues, pc, held, user>>

-----------------------------------------------------------------------------
(* The manager.                                                            *)

Todo(ops) == plan' = [plan EXCEPT ![QueueManager] = ops]

\* The first phase that is not in the snapshot, or is paused; 0 if none.
NextPhase(s) ==
    LET open == {p \in Phase : s.phases[p] \in {"absent", "Paused"}}
    IN  IF open = {} THEN 0 ELSE CHOOSE p \in open : \A r \in open : p <= r

ReceiveStart(m) ==
    /\ m.do = "startTask"
    /\ ready' = Append(ready, m.task) /\ pc' = "pump"
    /\ UNCHANGED <<running, backoff, plan>>

\* Only a task that is still Running goes on.
ReceiveCompleted(m) ==
    /\ m.do = "phaseCompleted"
    /\ running' = running \ {m.task}
    /\ ready' = IF snap[m.task].status = "Running" THEN Append(ready, m.task) ELSE ready
    /\ pc' = "pump"
    /\ UNCHANGED <<backoff, plan>>

ReceiveFailedGoesOn(m) ==
    /\ m.do = "phaseFailed"
    /\ running' = running \ {m.task}
    /\ ready' = Append(ready, m.task) /\ pc' = "pump"
    /\ UNCHANGED <<backoff, plan>>

ReceiveFailedKeepsEntry(m) ==
    /\ m.do = "phaseFailed"
    /\ Todo(<<Op("giveUp", m.task, m.phase)>>) /\ pc' = "work"
    /\ UNCHANGED <<ready, backoff, running>>

ReceiveFailed(m) ==
    /\ m.do = "phaseFailed"
    /\ running' = running \ {m.task}
    /\ Todo(<<Op("giveUp", m.task, m.phase)>>) /\ pc' = "work"
    /\ UNCHANGED <<ready, backoff>>

ReceiveResume(m) ==
    /\ m.do = "resumeTask"
    /\ LET op(do) == Op(do, m.task, m.phase)
       IN  Todo(IF snap[m.task].status = "Stopped"
                  THEN <<op("unstop"), op("requeue")>>
                  ELSE <<op("approve"), op("clear"), op("requeue")>>)
    /\ pc' = "work"
    /\ UNCHANGED <<ready, backoff, running>>

Receive ==
    /\ pc = "idle" /\ inbox # <<>>
    /\ inbox' = Tail(inbox)
    /\ LET m == Head(inbox)
       IN  ReceiveStart(m) \/ ReceiveCompleted(m) \/ ReceiveFailed(m) \/ ReceiveResume(m)
    /\ UNCHANGED <<snap, outputs, held, user>>

HeartbeatCopies ==
    /\ pc = "idle" /\ backoff # <<>>
    /\ ready' = ready \o backoff
    /\ pc' = "pump"
    /\ UNCHANGED <<snap, outputs, inbox, backoff, running, plan, held, user>>

\* A tick with nothing in backoff changes nothing and is left out.
Heartbeat ==
    /\ pc = "idle" /\ backoff # <<>>
    /\ ready' = ready \o backoff /\ backoff' = <<>>
    /\ pc' = "pump"
    /\ UNCHANGED <<snap, outputs, inbox, running, plan, held, user>>

\* The pump takes the next ready task and looks for its next phase.
Pump ==
    /\ pc = "pump" /\ ready # <<>>
    /\ LET t == Head(ready)
           p == NextPhase(snap[t])
       IN  IF p = 0
           THEN Todo(<<Op("finish", t, 1)>>)
           ELSE Todo(<<Op("route", t, p)>>)
    /\ ready' = Tail(ready) /\ pc' = "work"
    /\ UNCHANGED <<snap, outputs, inbox, backoff, running, held, user>>

PumpEnds ==
    /\ pc = "pump" /\ ready = <<>>
    /\ pc' = "idle"
    /\ UNCHANGED <<snap, outputs, inbox, queues, plan, held, user>>

OwnDirectoryConflict(t) == DirectoryOf[t] # NoDirectory /\ t \in running

DirectoryConflict(t) ==
    /\ DirectoryOf[t] # NoDirectory
    /\ \E u \in running : DirectoryOf[u] = DirectoryOf[t]

InputsThere(t, p) == Needs[p] \subseteq outputs[t]

IdleJob(t, p) == CHOOSE j \in {t} \X {p} \X Slots : plan[j] = <<>>
CanStart(t, p) == \E j \in {t} \X {p} \X Slots : plan[j] = <<>>

Routed(t, p) == Doing(QueueManager, "route") /\ Next1(QueueManager) = Op("route", t, p)

\* A phase whose inputs are missing is paused; so is a gate, and a phase that
\* does not advance by itself.
RouteToPause(t, p) ==
    /\ Routed(t, p)
    /\ ~InputsThere(t, p) \/ TypeOf[p] = "gate" \/ p \notin AutoAdvance
    /\ Todo(IF InputsThere(t, p) THEN <<Op("start", t, p), Op("pause", t, p)>>
                                 ELSE <<Op("pause", t, p)>>)
    /\ UNCHANGED <<snap, outputs, inbox, queues, pc, held, user>>

\* A script waits for its directory, then runs on a task of its own.
RouteToScript(t, p) ==
    /\ Routed(t, p) /\ InputsThere(t, p) /\ p \in AutoAdvance /\ TypeOf[p] = "folder"
    /\ IF DirectoryConflict(t)
       THEN backoff' = Append(backoff, t) /\ Todo(<<>>) /\ UNCHANGED running
       ELSE /\ CanStart(t, p)
            /\ running' = running \cup {t}
            /\ plan' = [plan EXCEPT ![QueueManager] = <<>>,
                                    ![IdleJob(t, p)] = <<Op("start", t, p), Op("script", t, p)>>]
            /\ UNCHANGED backoff
    /\ UNCHANGED <<snap, outputs, inbox, ready, pc, held, user>>

\* An agent is started by the manager itself, without a look at the directory.
RouteToAgent(t, p) ==
    /\ Routed(t, p) /\ InputsThere(t, p) /\ p \in AutoAdvance /\ TypeOf[p] = "prompt"
    /\ running' = running \cup {t}
    /\ Todo(<<Op("start", t, p), Op("coldStart", t, p)>>)
    /\ UNCHANGED <<snap, outputs, inbox, ready, backoff, pc, held, user>>

ColdStart ==
    /\ pc = "work" /\ Doing(QueueManager, "coldStart")
    /\ LET op == Next1(QueueManager)
       IN  /\ CanStart(op.task, op.phase)
           /\ plan' = [plan EXCEPT ![QueueManager] = Tail(@),
                                   ![IdleJob(op.task, op.phase)] =
                                       <<Op("turn", op.task, op.phase)>>]
    /\ UNCHANGED <<snap, outputs, inbox, queues, pc, held, user>>

Requeue ==
    /\ pc = "work" /\ Doing(QueueManager, "requeue")
    /\ ready' = Append(ready, Next1(QueueManager).task)
    /\ plan' = [plan EXCEPT ![QueueManager] = Tail(@)]
    /\ UNCHANGED <<snap, outputs, inbox, backoff, running, pc, held, user>>

\* Done with the operations for a task, the manager pumps on.  (A failure does
\* not pump, but then nothing is ready.)
WorkEnds ==
    /\ pc = "work" /\ plan[QueueManager] = <<>>
    /\ pc' = "pump"
    /\ UNCHANGED <<snap, outputs, inbox, queues, plan, held, user>>

-----------------------------------------------------------------------------
(* The executions of phases.                                               *)

IfMetered(t, p) == IF p \in Metered THEN <<Op("meter", t, p)>> ELSE <<>>

Produce(t, p) == outputs' = [outputs EXCEPT ![t] = @ \cup ({p} \cap Produces)]

ScriptEndsTellsFirst(t, p, n) ==
    LET j == <<t, p, n>>
    IN  /\ Doing(j, "script") /\ Produce(t, p)
        /\ plan' = [plan EXCEPT ![j] = <<Op("phaseCompleted", t, p), Op("complete", t, p)>>]
        /\ UNCHANGED <<snap, inbox, queues, pc, held, user>>

ScriptEndsMetersLast(t, p, n) ==
    LET j == <<t, p, n>>
    IN  /\ Doing(j, "script") /\ Produce(t, p)
        /\ plan' = [plan EXCEPT ![j] =
                       <<Op("complete", t, p), Op("phaseCompleted", t, p), Op("meter", t, p)>>]
        /\ UNCHANGED <<snap, inbox, queues, pc, held, user>>

\* run.sh ends well, with the declared output there, or it does not.
ScriptEnds(t, p, n) ==
    LET j == <<t, p, n>>
    IN  /\ Doing(j, "script")
        /\ \/ /\ Produce(t, p)
              /\ plan' = [plan EXCEPT ![j] = IfMetered(t, p) \o
                            <<Op("complete", t, p), Op("phaseCompleted", t, p)>>]
           \/ /\ p \in Flaky /\ UNCHANGED outputs
              /\ plan' = [plan EXCEPT ![j] = IfMetered(t, p) \o
                            <<Op("fail", t, p), Op("phaseFailed", t, p)>>]
        /\ UNCHANGED <<snap, inbox, queues, pc, held, user>>

\* The agent writes the output and completes the phase, forgets the output (once),
\* skips the phase, or gives up; its run reports the tokens when it ends, when the
\* manager has been told and may be working on the next phase.
TurnEnds(t, p, n) ==
    LET j == <<t, p, n>>
        calls(do) == <<Op(do, t, p), Op("phaseCompleted", t, p)>> \o IfMetered(t, p)
    IN  /\ Doing(j, "turn")
        /\ \/ Produce(t, p) /\ plan' = [plan EXCEPT ![j] = calls("complete")]
           \/ /\ p \in Flaky /\ snap[t].phases[p] = "Running" /\ UNCHANGED outputs
              /\ plan' = [plan EXCEPT ![j] = calls("complete")]
           \/ /\ p \in Skippable /\ UNCHANGED outputs
              /\ plan' = [plan EXCEPT ![j] = calls("skip")]
           \/ /\ p \in Flaky \/ snap[t].status = "Stopped"
              /\ UNCHANGED outputs
              /\ plan' = [plan EXCEPT ![j] = IfMetered(t, p)]
        /\ mishaps' = mishaps \cup (IF p \in Metered THEN {"tokens"} ELSE {})
        /\ UNCHANGED <<snap, inbox, queues, pc, held, interventions>>

-----------------------------------------------------------------------------
(* The user and the machine.                                               *)

UserDoes(ops) == plan[User] = <<>> /\ plan' = [plan EXCEPT ![User] = ops]

Intervene(what) ==
    /\ what \in Interventions /\ interventions < MaxInterventions
    /\ interventions' = interventions + 1 /\ mishaps' = mishaps \cup {what}

\* POST /tasks/{id}/start
Start(t) ==
    /\ snap[t].status = "Pending"
    /\ UserDoes(<<Op("begin", t, 1), Op("startTask", t, 1)>>)
    /\ UNCHANGED <<snap, outputs, inbox, queues, pc, held, user>>

\* The task is being worked on, or the answer of the user is under way.
Busy(t) ==
    \/ \E i \in DOMAIN inbox : inbox[i].task = t
    \/ \E q \in Process : plan[q] # <<>> /\ Next1(q).task = t
    \/ \E i \in DOMAIN ready : ready[i] = t
    \/ \E i \in DOMAIN backoff : backoff[i] = t

HasPaused(t) == \E p \in Phase : snap[t].phases[p] = "Paused"

\* POST /tasks/{id}/resume: of a task that waits, or when it is worked on.
Resume(t) ==
    /\ HasPaused(t) \/ snap[t].status = "Stopped"
    /\ UserDoes(<<Op("resumeTask", t, 1)>>)
    /\ IF Busy(t) THEN Intervene("resume") ELSE UNCHANGED user
    /\ UNCHANGED <<snap, outputs, inbox, queues, pc, held>>

\* POST /tasks/{id}/phases/{phase}/submit-input: a form that waits, or one sent
\* when it does not; the route does not look at the status of the phase.
SubmitInput(t, p) ==
    /\ TypeOf[p] = "gate"
    /\ UserDoes(<<Op("complete", t, p), Op("phaseCompleted", t, p)>>)
    /\ Produce(t, p)
    /\ IF snap[t].phases[p] = "Paused" /\ ~Busy(t)
       THEN UNCHANGED user ELSE Intervene("submit")
    /\ UNCHANGED <<snap, inbox, queues, pc, held>>

\* Stop (POST /tasks/{id}/cancel), the tools that reopen a task and start it
\* without a word to the manager, POST /tasks/{id}/archive.
Stop(t) ==
    /\ t \in Disturbed /\ UserDoes(<<Op("stop", t, 1)>>) /\ Intervene("stop")
    /\ UNCHANGED <<snap, outputs, inbox, queues, pc, held>>

Reopen(t, p) ==
    /\ t \in Disturbed /\ UserDoes(<<Op("reopen", t, p)>>) /\ Intervene("reopen")
    /\ UNCHANGED <<snap, outputs, inbox, queues, pc, held>>

ToolStart(t) ==
    /\ t \in Disturbed /\ UserDoes(<<Op("begin", t, 1)>>) /\ Intervene("tool")
    /\ UNCHANGED <<snap, outputs, inbox, queues, pc, held>>

Archive(t) ==
    /\ t \in Disturbed /\ UserDoes(<<Op("archive", t, 1)>>) /\ Intervene("archive")
    /\ UNCHANGED <<snap, outputs, inbox, queues, pc, held>>

\* The process dies and starts again: recover_running_tasks queues the tasks
\* that are Running.
Crash ==
    /\ Intervene("crash")
    /\ LET interrupted == {t \in Task : snap[t].status = "Running"}
       IN  ready' \in {s \in [1 .. Cardinality(interrupted) -> interrupted] :
                         \A i, k \in DOMAIN s : s[i] = s[k] => i = k}
    /\ inbox' = <<>> /\ backoff' = <<>> /\ running' = {}
    /\ pc' = "pump"
    /\ plan' = [q \in Process |-> <<>>]
    /\ held' = [q \in Process |-> NoSnapshot]
    /\ UNCHANGED <<snap, outputs>>

-----------------------------------------------------------------------------
Manager ==
    \/ Receive \/ Heartbeat \/ Pump \/ PumpEnds \/ ColdStart \/ Requeue \/ WorkEnds
    \/ Read(QueueManager) \/ Write(QueueManager)
    \/ \E t \in Task, p \in Phase :
          RouteToPause(t, p) \/ RouteToScript(t, p) \/ RouteToAgent(t, p)

Execution(t, p, n) ==
    \/ ScriptEnds(t, p, n) \/ TurnEnds(t, p, n)
    \/ Read(<<t, p, n>>) \/ Write(<<t, p, n>>) \/ Tell(<<t, p, n>>)

\* Not among them: the route that completes a phase without telling the manager, complete
\* and skip on a Pending task, and turns that a user gives to the agent of a phase.
Request(t) ==
    \/ Start(t) \/ Resume(t) \/ Stop(t) \/ ToolStart(t) \/ Archive(t)
    \/ \E p \in Phase : SubmitInput(t, p) \/ Reopen(t, p)

Next ==
    \/ Manager \/ Crash
    \/ Read(User) \/ Write(User) \/ Tell(User)
    \/ \E t \in Task : Request(t) \/ \E p \in Phase, n \in Slots : Execution(t, p, n)

Spec == Init /\ [][Next]_vars

\* The manager's loop goes on and select! does not prefer the heartbeat for ever;
\* an execution ends, a request is served, the user answers a task that waits.
Fairness ==
    /\ WF_vars(Manager) /\ SF_vars(Receive)
    /\ \A t \in Task : WF_vars(\E p \in Phase, n \in Slots : Execution(t, p, n))
    /\ WF_vars(Read(User) \/ Write(User) \/ Tell(User))
    /\ \A t \in Task : SF_vars(Resume(t) /\ UNCHANGED user)

FairSpec == Spec /\ Fairness

-----------------------------------------------------------------------------
(* What holds.  A task is only disturbed by what is in mishaps.            *)

OnlyDisturbedBy(what) == mishaps \subseteq what

Active(j) == plan[j] # <<>>
Script(j) == Doing(j, "script")
Done(t, p) == snap[t].phases[p] \in {"Completed", "Skipped"}

\* A phase is executed when every phase before it has completed or was skipped:
\* the manager, which forgets a task while a phase runs, picks it up again only
\* after the outcome of the phase is in the file.
PhaseOrder ==
    OnlyDisturbedBy({"tool"}) =>
        \A j \in Job : Active(j) => \A p \in 1 .. j[2] - 1 : Done(j[1], p)

\* What leaves the handing on of a task in order, however often it happens; a stopped
\* task that is reopened can be started while its phase is still executed.
Orderly ==
    \/ OnlyDisturbedBy({"stop", "archive", "crash", "tool", "tokens"})
    \/ OnlyDisturbedBy({"reopen", "crash", "tool"})

\* More is left to do for an execution than to report its tokens.
Executes(j) == \E i \in DOMAIN plan[j] : plan[j][i].do # "meter"

\* A task has at most one execution, whatever requests and crashes come
\* between: no two entries in ready_queue, backoff_queue and the channel send it on.
OneExecution ==
    Orderly =>
        \A j, k \in Job : j # k /\ j[1] = k[1] => ~Executes(j) \/ ~Executes(k)

\* Two scripts never run in one working directory (has_directory_conflict), though
\* a task gives its directory back by a message that any of its phases may send.
DirectoryExclusive ==
    Orderly =>
        \A j, k \in Job :
            /\ j # k /\ DirectoryOf[j[1]] = DirectoryOf[k[1]] /\ DirectoryOf[j[1]] # NoDirectory
            => ~Script(j) \/ ~Script(k)

\* A task is marked Completed when all its phases completed or were skipped: the
\* manager only looks for a phase that is not in the file (get_next_phase).
CompletedIsDone ==
    OnlyDisturbedBy({"archive", "tool"}) =>
        \A t \in Task : snap[t].status = "Completed" => \A p \in Phase : Done(t, p)

\* The outcome of a phase is never undone, by a restart or by the whole-file write
\* of an operation that read the file before.
OutcomesKept ==
    [][ OnlyDisturbedBy({"crash", "tool"})' =>
          \A t \in Task, p \in Phase :
            Done(t, p) => snap'[t].phases[p] = snap[t].phases[p] ]_vars

\* An agent left its phase unfinished; a phase waits for an output nobody writes.
GivenUp(t) ==
    \E p \in Phase : /\ TypeOf[p] = "prompt" /\ snap[t].phases[p] \in {"Running", "Failed"}
                     /\ \A n \in Slots : ~Active(<<t, p, n>>)
Starved(t) == \E p \in Phase : snap[t].phases[p] = "Paused" /\ ~InputsThere(t, p)

SharesDirectory(t, u) == u = t \/ (DirectoryOf[u] = DirectoryOf[t] /\ DirectoryOf[t] # NoDirectory)

\* A task that runs comes to an end, also across a crash, unless it waits for an
\* output, or an agent that gave up keeps its directory.  Only crashes are allowed for,
\* and they treat all tasks alike, so it is enough to ask it of one of them.
TaskSettles ==
    \A t \in Disturbed : snap[t].status = "Running"
        ~> \/ snap[t].status # "Running" \/ Starved(t)
           \/ \E u \in Task : SharesDirectory(t, u) /\ GivenUp(u)
           \/ ~OnlyDisturbedBy({"crash"})

-----------------------------------------------------------------------------
(* What the code, its comments and its prompts say.                        *)

\* "Re-queues them into the ready queue for retry": a task whose phase was
\* interrupted by a crash runs the phase again before it is Completed.
InterruptedIsRetried ==
    \A t \in Task : snap[t].status = "Completed" => \A p \in Phase : Done(t, p)

\* "Task started. The workflow queue manager will execute phases automatically."
StartedExecutes ==
    \A t \in Task : snap[t].status = "Running"
        ~> snap[t].status # "Running" \/ \E p \in Phase : snap[t].phases[p] # "absent"

\* "false pauses for review": a phase that was paused is executed once it is
\* approved, which the user does again and again.
ReviewedGoesOn ==
    \A t \in Task, p \in Phase : snap[t].phases[p] = "Paused" ~> Done(t, p) \/ Starved(t)
=============================================================================
