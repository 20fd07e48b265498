----------------------------- MODULE TaskFeeder -----------------------------
(***************************************************************************)
(* The tasklist dispatcher of crates/ao-engine/src/task_feeder, for one    *)
(* tasklist, with the actors that call it:                                 *)
(*                                                                         *)
(*   - every agent run (agent_runner/cli.rs), which reports <task> tags    *)
(*     and, if it reported none, its own end;                              *)
(*   - the queue manager of the tasklist (tasklist_queue_manager.rs),      *)
(*     which turns dispatch messages into runs and fails the task of a     *)
(*     run it could not start or that vanished;                            *)
(*   - the watchdog (dispatch_watchdog.rs), which sweeps for stuck tasks;  *)
(*   - the start-up scan (state.rs), which also stands for the first       *)
(*     advance() of the request that creates the tasklist.                 *)
(*                                                                         *)
(* Each is one asynchronous task.  A feeder call is not atomic: it is a    *)
(* sequence of locked writes of the store and unlocked reads of it, and    *)
(* other actors run in between.  call[p] is what the call in progress of   *)
(* actor p has in its local variables: where it is (pc), where it returns  *)
(* (ret), the tasklist it read some steps ago (snap), and so on.           *)
(***************************************************************************)
EXTENDS TasklistStore, Sequences, FiniteSets

CONSTANTS
    Tasks,          \* the tasks of the tasklist
    NoTask,         \* no task
    Agents,         \* agents that can be named as executor
    NoAgent,        \* the empty owner_agent_id of a classifier-assigned task
    Runs,           \* slots for agent runs; bounds the runs alive at once
    Watchdog, Startup, Manager,  \* the three singleton actors
    Groups,         \* number of groups
    GroupOf,        \* GroupOf[t]: index of the group of t
    Mode,           \* Mode[g]: "PAR" or "SEQ"
    Rank,           \* Rank[t]: position of t in the tasklist
    AgentOwned,     \* TasklistOwner::Agent (TRUE) or ::Team (FALSE)
    Parent,         \* the agent that owns the tasklist
    Executor,       \* Executor[t]: assignment.owner_agent_id, or the team task's owner
    OwnerAgent,     \* OwnerAgent[t]: task.owner_agent_id, as stored
    Profiles,       \* agents whose profile file exists
    MaxAttempts,    \* TaskFeeder::max_attempts
    SpawnMayFail,   \* whether run_with_scope can fail for an existing agent
    MaxTags,        \* bound: terminal <task> tags one run may emit
    MaxCrashes, MaxRestarts, MaxFollowups  \* bounds on the faults of a behaviour

Singletons == {Watchdog, Startup, Manager}
Sweepers == {Watchdog, Startup}
Actors == Runs \cup Singletons

ASSUME TaskFeederAssumption ==
    /\ NoTask \notin Tasks /\ NoAgent \notin Agents
    /\ Runs \cap Singletons = {}
    /\ Watchdog # Startup /\ Startup # Manager /\ Watchdog # Manager
    /\ Groups \in Nat
    /\ GroupOf \in [Tasks -> 1..Groups]
    /\ Mode \in [1..Groups -> {"PAR", "SEQ"}]
    /\ Rank \in [Tasks -> Nat]
    /\ \A t, u \in Tasks : Rank[t] = Rank[u] => t = u
    /\ \A t, u \in Tasks : GroupOf[t] < GroupOf[u] => Rank[t] < Rank[u]
    /\ AgentOwned \in BOOLEAN /\ Parent \in Agents
    /\ Executor \in [Tasks -> Agents]
    /\ OwnerAgent \in [Tasks -> Agents \cup {NoAgent}]
    /\ AgentOwned \/ OwnerAgent = Executor
    /\ Profiles \subseteq Agents
    /\ MaxAttempts \in Nat \ {0}
    /\ SpawnMayFail \in BOOLEAN
    /\ MaxTags \in Nat
    /\ MaxCrashes \in Nat /\ MaxRestarts \in Nat /\ MaxFollowups \in Nat

VARIABLES
    \* on disk
    listStatus,     \* Tasklist::status
    status,         \* Task::status
    attempts,       \* Task::attempt_count
    token,          \* Task::dispatch_token
    \* in memory of the engine
    registry,       \* TaskFeeder::registry: agent -> its in-flight task
    dispatchedAt,   \* the tasks TaskFeeder::dispatched_at has a timestamp for that
                    \* is less than watchdog_grace old
    observed,       \* TaskFeeder::run_observed
    inbox,          \* the queue manager's messages, oldest first
    finished,       \* its RunFinished signals that carry work
    run,            \* the run in each slot
    call,           \* the feeder call each actor is in
    \* observation only
    sent,           \* <<task, dispatch token>> of every Dispatch message sent
    faults          \* faults so far

store == <<listStatus, status, attempts, token>>
memory == <<registry, dispatchedAt, observed>>
queues == <<inbox, finished>>
vars == <<store, memory, queues, run, call, sent, faults>>

-----------------------------------------------------------------------------
(* What a reader of the store gets, and the local state of a call.          *)

Snapshot == [list : ListStatus, status : [Tasks -> TaskStatus]]
Snap == [list |-> listStatus, status |-> status]
NoSnap == [list |-> "Paused", status |-> [t \in Tasks |-> "Pending"]]

PC == {"idle", "working", "complete", "reclaim", "resend", "publish", "settle",
       "clear", "halt", "advance", "parCheck", "begin", "boot", "sweep", "probe",
       "recover", "rescan", "ended", "exit"}

\* Who is waiting for the result of the call: nobody, the handler of a complete
\* or of a fail tag, the end of a run, or a sweep.
Caller == {"nobody", "completeTag", "failTag", "runEnd", "sweep"}

Call == [pc : PC, ret : Caller, task : Tasks \cup {NoTask}, tok : Nat,
         snap : Snapshot, todo : SUBSET Tasks, cands : SUBSET Tasks]
Idle == [pc |-> "idle", ret |-> "nobody", task |-> NoTask, tok |-> 0,
         snap |-> NoSnap, todo |-> {}, cands |-> {}]
Working == [Idle EXCEPT !.pc = "working"]

Run == [task : Tasks \cup {NoTask}, agent : Agents \cup {NoAgent},
        tags : 0..MaxTags, acked : BOOLEAN, followup : BOOLEAN]
NoRun == [task |-> NoTask, agent |-> NoAgent,
          tags |-> 0, acked |-> FALSE, followup |-> FALSE]

Message == [task : Tasks, agent : Agents \cup {NoAgent}]
Signal == [task : Tasks, agent : Agents \cup {NoAgent}, completed : BOOLEAN]

At(p, pc) == call[p].pc = pc
\* Mutant of IsFirst: any task will do.
IsSome(t, S) == t \in S
IsFirst(t, S) == t \in S /\ \A u \in S : Rank[t] <= Rank[u]
Members(g) == {t \in Tasks : GroupOf[t] = g}

\* group_is_terminal, over the task statuses of a snapshot
GroupTerminal(s, g) == \A t \in Members(g) : s[t] \in Terminal
OpenGroups(s) == {g \in 1..Groups : ~GroupTerminal(s, g)}
\* Mutant of IsFrontier: any group that is not over is worked on.
IsOpen(g, s) == g \in OpenGroups(s)
IsFrontier(g, s) == g \in OpenGroups(s) /\ \A h \in OpenGroups(s) : g <= h
PendingIn(s, g) == {t \in Members(g) : s[t] = "Pending"}

\* InstanceRegistry::running_count("tasklist:{id}:{agent}"): a run keeps its
\* registration until it has finished its last call of the feeder.
LiveRuns(a) == {r \in Runs : call[r].pc # "idle" /\ run[r].agent = a}

\* dispatch_one's safety net
Ghost(t) == AgentOwned /\ Executor[t] # Parent /\ Executor[t] \notin Profiles

\* list_active_across_agents also lists Paused tasklists, _across_teams does not.
Listed == listStatus = "Active" \/ (AgentOwned /\ listStatus = "Paused")

Init ==
    /\ listStatus = "Active"
    /\ status = [t \in Tasks |-> "Pending"]
    /\ attempts = [t \in Tasks |-> 0]
    /\ token = [t \in Tasks |-> 0]
    /\ registry = [a \in Agents |-> NoTask]
    /\ dispatchedAt = {}
    /\ observed = {}
    /\ inbox = <<>> /\ finished = <<>>
    /\ run = [r \in Runs |-> NoRun]
    /\ call = [p \in Actors |-> IF p = Startup THEN [Idle EXCEPT !.pc = "rescan"]
                                               ELSE Idle]
    /\ sent = {}
    /\ faults = [crash |-> 0, restart |-> 0, followup |-> 0]

-----------------------------------------------------------------------------
(* Returning from a call.                                                   *)

Continue(p, c) == call' = [call EXCEPT ![p] = c]
Goto(p, pc) == Continue(p, [call[p] EXCEPT !.pc = pc])

\* process_task_tag_action hands an error of validate_and_complete on to the
\* run, which queues it as a followup; it swallows one of on_task_terminal.
\* An error also ends the sweep it occurs in, which skips the candidates left.
Returned(c, ok) ==
    CASE c.ret \in {"completeTag", "failTag"} -> Working
      [] c.ret = "runEnd" -> [Idle EXCEPT !.pc = "exit"]
      [] c.ret = "sweep" ->
           [Idle EXCEPT !.pc = "sweep", !.cands = IF ok THEN c.cands ELSE {}]
      [] c.ret = "nobody" -> Idle

Return(p, ok) ==
    /\ Continue(p, Returned(call[p], ok))
    /\ \/ /\ call[p].ret = "failTag" \/ (call[p].ret = "completeTag" /\ ok)
          /\ run' = [run EXCEPT ![p].acked = TRUE]
       \/ /\ call[p].ret = "completeTag" /\ ~ok
          /\ run' = [run EXCEPT ![p].followup = TRUE]
       \/ /\ call[p].ret \notin {"completeTag", "failTag"}
          /\ UNCHANGED run

\* The call p goes on with "reclaim" (try_reclaim_dispatch_by_owner) of t,
\* expecting the token its unlocked read of the tasklist returned.
ToReclaim(p, t, ret) ==
    Continue(p, [call[p] EXCEPT !.pc = "reclaim", !.ret = ret, !.task = t,
                                !.tok = token[t]])

ToSettle(p, t, ret) ==
    Continue(p, [call[p] EXCEPT !.pc = "settle", !.ret = ret, !.task = t])

ToSweep(p, rest) == Continue(p, [Idle EXCEPT !.pc = "sweep", !.cands = rest])

SendDispatch(t, a, tok) ==
    /\ inbox' = Append(inbox, [task |-> t, agent |-> a])
    /\ sent' = sent \cup {<<t, tok>>}

-----------------------------------------------------------------------------
(* on_task_terminal(task): read the tasklist, clear the in-memory entries of *)
(* the task, halt the tasklist if the task failed, advance.                  *)

SettleRead(p) ==
    /\ At(p, "settle")
    /\ Continue(p, [call[p] EXCEPT !.pc = "clear", !.snap = Snap])
    /\ UNCHANGED <<store, memory, queues, run, sent, faults>>

Clear(p) ==
    LET t == call[p].task
        a == Executor[t]
        snap == call[p].snap IN
    /\ At(p, "clear")
    /\ registry' = IF registry[a] = t THEN [registry EXCEPT ![a] = NoTask] ELSE registry
    /\ dispatchedAt' = dispatchedAt \ {t}
    /\ observed' = observed \ {t}
    /\ Goto(p, IF snap.status[t] = "Failed" /\ snap.list = "Active"
               THEN "halt" ELSE "advance")
    /\ UNCHANGED <<store, queues, run, sent, faults>>

Halt(p) ==
    /\ At(p, "halt")
    /\ IF ValidListTransition(listStatus, "Failed")
       THEN /\ listStatus' = "Failed"
            /\ Continue(p, [call[p] EXCEPT !.pc = "advance",
                                            !.snap = [Snap EXCEPT !.list = "Failed"]])
            /\ UNCHANGED run
       ELSE /\ Return(p, FALSE)
            /\ UNCHANGED listStatus
    /\ UNCHANGED <<status, attempts, token, memory, queues, sent, faults>>

-----------------------------------------------------------------------------
(* advance(snap): dispatch from the first group that is not terminal in the  *)
(* snapshot, or complete the tasklist.                                       *)

Advancing(p) == At(p, "advance") /\ call[p].snap.list = "Active"
\* Mutant of AnyFailed: a tasklist with a failed task may complete.
NoneFailed(s) == FALSE
AnyFailed(s) == \E t \in Tasks : s[t] = "Failed"

AdvanceIdle(p) ==
    /\ At(p, "advance")
    /\ \/ call[p].snap.list # "Active"
       \/ OpenGroups(call[p].snap.status) = {} /\ AnyFailed(call[p].snap.status)
    /\ Return(p, TRUE)
    /\ UNCHANGED <<store, memory, queues, sent, faults>>

AdvanceComplete(p) ==
    /\ Advancing(p)
    /\ OpenGroups(call[p].snap.status) = {} /\ ~AnyFailed(call[p].snap.status)
    /\ IF ValidListTransition(listStatus, "Completed")
       THEN /\ listStatus' = "Completed"
            /\ Return(p, TRUE)
       ELSE /\ Return(p, FALSE)
            /\ UNCHANGED listStatus
    /\ UNCHANGED <<status, attempts, token, memory, queues, sent, faults>>

\* The first pending task of every executor without an entry in the registry.
ToDispatch(s, g) ==
    {t \in PendingIn(s, g) :
        /\ registry[Executor[t]] = NoTask
        /\ \A u \in PendingIn(s, g) : Executor[u] = Executor[t] => Rank[t] <= Rank[u]}

\* What the PAR loop does after a task: the next one, or it returns.
NextOfBatch(p, rest) ==
    IF rest = {} THEN Return(p, TRUE)
    ELSE /\ Continue(p, [call[p] EXCEPT !.pc = "parCheck", !.todo = rest,
                            !.snap = NoSnap, !.task = NoTask, !.tok = 0])
         /\ UNCHANGED run

AdvancePar(p) ==
    LET s == call[p].snap.status IN
    /\ Advancing(p)
    /\ \E g \in 1..Groups :
          /\ IsFrontier(g, s) /\ Mode[g] = "PAR"
          /\ NextOfBatch(p, ToDispatch(s, g))
    /\ UNCHANGED <<store, memory, queues, sent, faults>>

\* A task that is in progress or stopped holds its position.
AdvanceSeq(p) ==
    LET s == call[p].snap.status
        held(g) == \E t \in Members(g) : s[t] \in {"InProgress", "Stopped"} IN
    /\ Advancing(p)
    /\ \E g \in 1..Groups :
          /\ IsFrontier(g, s) /\ Mode[g] = "SEQ"
          /\ \/ /\ held(g) \/ PendingIn(s, g) = {}
                /\ Return(p, TRUE)
             \/ \E t \in Tasks :
                   /\ ~held(g) /\ IsFirst(t, PendingIn(s, g))
                   /\ Continue(p, [call[p] EXCEPT !.pc = "begin", !.snap = NoSnap,
                                                   !.task = t])
                   /\ UNCHANGED run
    /\ UNCHANGED <<store, memory, queues, sent, faults>>

\* The live status check of the PAR loop.
ParCheck(p) ==
    /\ At(p, "parCheck")
    /\ \/ /\ listStatus = "Active"
          /\ \E t \in Tasks :
                /\ IsFirst(t, call[p].todo)
                /\ Continue(p, [call[p] EXCEPT !.pc = "begin", !.task = t,
                                                !.todo = @ \ {t}])
          /\ UNCHANGED run
       \/ /\ listStatus # "Active"
          /\ Return(p, TRUE)
    /\ UNCHANGED <<store, memory, queues, sent, faults>>

-----------------------------------------------------------------------------
(* dispatch_one(task)                                                        *)

\* A vanished executor: the task is failed, and nothing else is done about it.
BeginGhost(p) ==
    LET t == call[p].task IN
    /\ At(p, "begin") /\ Ghost(t)
    /\ status' = [status EXCEPT ![t] = "Failed"]
    /\ NextOfBatch(p, call[p].todo)
    /\ UNCHANGED <<listStatus, attempts, token, memory, queues, sent, faults>>

\* try_begin_task_by_owner lost: the snapshot was stale.
BeginSkip(p) ==
    LET t == call[p].task IN
    /\ At(p, "begin") /\ ~Ghost(t) /\ status[t] \notin Dispatchable
    /\ NextOfBatch(p, call[p].todo)
    /\ UNCHANGED <<store, memory, queues, sent, faults>>

BeginClaim(p) ==
    LET t == call[p].task IN
    /\ At(p, "begin") /\ ~Ghost(t) /\ status[t] \in Dispatchable
    /\ status' = [status EXCEPT ![t] = "InProgress"]
    /\ Continue(p, [call[p] EXCEPT !.pc = "publish", !.tok = token[t]])
    /\ UNCHANGED <<listStatus, attempts, token, memory, queues, run, sent, faults>>

\* The file writes between the claim and this step leave a window in which the
\* task is InProgress and the memory of the engine does not know it yet.
Publish(p) ==
    LET t == call[p].task IN
    /\ At(p, "publish")
    /\ registry' = [registry EXCEPT ![Executor[t]] = t]
    /\ dispatchedAt' = dispatchedAt \cup {t}
    /\ SendDispatch(t, Executor[t], call[p].tok)
    /\ NextOfBatch(p, call[p].todo)
    /\ UNCHANGED <<store, observed, finished, faults>>

-----------------------------------------------------------------------------
(* try_reclaim_dispatch_by_owner, and the second dispatch that follows it.   *)

Reclaim(p) ==
    LET t == call[p].task
        outcome == ReclaimOutcome(status[t], token[t], call[p].tok,
                                  attempts[t], MaxAttempts) IN
    /\ At(p, "reclaim")
    /\ \/ /\ outcome \in {"NotInProgress", "Stale"}
          /\ Return(p, TRUE)
          /\ UNCHANGED <<status, attempts, token>>
       \/ /\ outcome = "Exhausted"
          /\ attempts' = [attempts EXCEPT ![t] = @ + 1]
          /\ token' = [token EXCEPT ![t] = @ + 1]
          /\ status' = [status EXCEPT ![t] = "Failed"]
          /\ Continue(p, [call[p] EXCEPT !.pc = "settle", !.tok = 0])
          /\ UNCHANGED run
       \/ /\ outcome = "Claimed"
          /\ attempts' = [attempts EXCEPT ![t] = @ + 1]
          /\ token' = [token EXCEPT ![t] = @ + 1]
          /\ Continue(p, [call[p] EXCEPT !.pc = "resend", !.tok = @ + 1])
          /\ UNCHANGED <<status, run>>
    /\ UNCHANGED <<listStatus, memory, queues, sent, faults>>

\* validate_and_complete and on_run_ended reprompt the stored owner and leave
\* the memory alone.
Reprompt(r) ==
    LET t == call[r].task IN
    /\ At(r, "resend")
    /\ SendDispatch(t, OwnerAgent[t], call[r].tok)
    /\ Return(r, TRUE)
    /\ UNCHANGED <<store, memory, finished, faults>>

\* recover_stuck_task re-dispatches to the executor and starts a new grace.
Redispatch(p) ==
    LET t == call[p].task IN
    /\ At(p, "resend")
    /\ registry' = [registry EXCEPT ![Executor[t]] = t]
    /\ dispatchedAt' = dispatchedAt \cup {t}
    /\ observed' = observed \ {t}
    /\ SendDispatch(t, Executor[t], call[p].tok)
    /\ Return(p, TRUE)
    /\ UNCHANGED <<store, finished, faults>>

-----------------------------------------------------------------------------
(* An agent run.  Its <task> tags, in any order and with any verdict of the  *)
(* output validation; then its end.                                          *)

\* The tag "complete": validate_and_complete reads the task (and its token),
\* then looks for the declared outputs in the workspace.
TagComplete(r) ==
    LET t == run[r].task IN
    /\ At(r, "working") /\ run[r].tags < MaxTags
    /\ run' = [run EXCEPT ![r].tags = @ + 1]
    /\ \/ ToReclaim(r, t, "completeTag")                       \* some missing
       \/ Continue(r, [call[r] EXCEPT !.pc = "complete", !.task = t,
                                      !.ret = "completeTag"])  \* all there
    /\ UNCHANGED <<store, memory, queues, sent, faults>>

\* Mutant of CompleteTask: what on_task_terminal works on was read before the
\* task was completed.
CompleteTaskReadsFirst(r) ==
    LET t == call[r].task IN
    /\ At(r, "complete") /\ ValidTaskTransition(status[t], "Completed")
    /\ status' = [status EXCEPT ![t] = "Completed"]
    /\ Continue(r, [call[r] EXCEPT !.pc = "clear", !.snap = Snap])
    /\ UNCHANGED <<listStatus, attempts, token, memory, queues, run, sent, faults>>

CompleteTask(r) ==
    LET t == call[r].task IN
    /\ At(r, "complete")
    /\ IF ValidTaskTransition(status[t], "Completed")
       THEN /\ status' = [status EXCEPT ![t] = "Completed"]
            /\ Goto(r, "settle")
            /\ UNCHANGED run
       ELSE /\ Return(r, FALSE)
            /\ UNCHANGED status
    /\ UNCHANGED <<listStatus, attempts, token, memory, queues, sent, faults>>

TagFail(r) ==
    LET t == run[r].task IN
    /\ At(r, "working") /\ run[r].tags < MaxTags
    /\ IF ValidTaskTransition(status[t], "Failed")
       THEN /\ status' = [status EXCEPT ![t] = "Failed"]
            /\ run' = [run EXCEPT ![r].tags = @ + 1]
            /\ ToSettle(r, t, "failTag")
       ELSE /\ run' = [run EXCEPT ![r].tags = @ + 1, ![r].followup = TRUE]
            /\ UNCHANGED <<status, call>>
    /\ UNCHANGED <<listStatus, attempts, token, memory, queues, sent, faults>>

\* The tag "request_clarification", and any other source of a followup.
TagClarify(r) ==
    /\ At(r, "working") /\ ~run[r].followup
    /\ faults.followup < MaxFollowups
    /\ run' = [run EXCEPT ![r].followup = TRUE]
    /\ faults' = [faults EXCEPT !.followup = @ + 1]
    /\ UNCHANGED <<store, memory, queues, call, sent>>

\* on_run_ended is called unless a terminal tag was accepted, for whatever task
\* the registry holds for the agent, which need not be the task of the run.
RunEnd(r) ==
    LET a == run[r].agent
        t == IF a \in Agents THEN registry[a] ELSE NoTask IN
    /\ At(r, "working")
    /\ IF run[r].acked \/ t = NoTask
       THEN Goto(r, "exit")
       ELSE Continue(r, [call[r] EXCEPT !.pc = "ended", !.task = t, !.ret = "runEnd"])
    /\ UNCHANGED <<store, memory, queues, run, sent, faults>>

EndedRead(r) ==
    LET t == call[r].task IN
    /\ At(r, "ended")
    /\ IF listStatus = "Active" /\ status[t] = "InProgress"
       THEN ToReclaim(r, t, "runEnd") /\ UNCHANGED run
       ELSE Return(r, TRUE)
    /\ UNCHANGED <<store, memory, queues, sent, faults>>

\* Mutant of RunExit: the followup is built from the run that was just reset.
RunExitAfterReset(r) ==
    /\ At(r, "exit")
    /\ run' = [run EXCEPT ![r] = NoRun]
    /\ finished' = IF run[r].followup
                   THEN Append(finished, [task |-> run'[r].task, agent |-> run'[r].agent,
                                          completed |-> TRUE])
                   ELSE finished
    /\ Continue(r, Idle)
    /\ UNCHANGED <<store, memory, inbox, sent, faults>>

\* The registration ends, RunComplete carries the followups to the manager.
RunExit(r) ==
    /\ At(r, "exit")
    /\ finished' = IF run[r].followup
                   THEN Append(finished, [task |-> run[r].task, agent |-> run[r].agent,
                                          completed |-> TRUE])
                   ELSE finished
    /\ run' = [run EXCEPT ![r] = NoRun]
    /\ Continue(r, Idle)
    /\ UNCHANGED <<store, memory, inbox, sent, faults>>

\* The task of the run panics over the output of the CLI (the calls of the
\* feeder have nothing that panics): its guard ends the registration and the
\* bridge sees the channel close without a RunComplete.
RunCrash(r) ==
    /\ At(r, "working") /\ faults.crash < MaxCrashes
    /\ finished' = Append(finished, [task |-> run[r].task, agent |-> run[r].agent,
                                     completed |-> FALSE])
    /\ run' = [run EXCEPT ![r] = NoRun]
    /\ Continue(r, Idle)
    /\ faults' = [faults EXCEPT !.crash = @ + 1]
    /\ UNCHANGED <<store, memory, inbox, sent>>

-----------------------------------------------------------------------------
(* The queue manager of the tasklist.  It handles one message or one signal  *)
(* at a time, and is inside the feeder while it fails a task.                *)

\* Whichever slot is free is as good as another: take the first one.
FreeSlots == {r \in Runs : call[r].pc = "idle"}
FreeSlot == CHOOSE r \in FreeSlots : TRUE

\* The run registers, and is marked observed, before run_with_scope returns.
StartRun ==
    LET m == Head(inbox) IN
    /\ At(Manager, "idle") /\ inbox # <<>>
    /\ m.agent \in Profiles /\ FreeSlots # {}
    /\ inbox' = Tail(inbox)
    /\ run' = [run EXCEPT ![FreeSlot] = [NoRun EXCEPT !.task = m.task, !.agent = m.agent]]
    /\ Continue(FreeSlot, Working)
    /\ observed' = observed \cup {m.task}
    /\ UNCHANGED <<store, registry, dispatchedAt, finished, sent, faults>>

\* Mutant of MarkFailed: the task is failed and nobody is told.
MarkFailedSilently(t) ==
    /\ status' = IF ValidTaskTransition(status[t], "Failed")
                 THEN [status EXCEPT ![t] = "Failed"] ELSE status
    /\ UNCHANGED <<listStatus, attempts, token, call>>

\* mark_task_failed: an illegal transition is only logged.
MarkFailed(t) ==
    /\ status' = IF ValidTaskTransition(status[t], "Failed")
                 THEN [status EXCEPT ![t] = "Failed"] ELSE status
    /\ ToSettle(Manager, t, "nobody")
    /\ UNCHANGED <<listStatus, attempts, token>>

SpawnFails ==
    /\ At(Manager, "idle") /\ inbox # <<>>
    /\ Head(inbox).agent \notin Profiles \/ SpawnMayFail
    /\ inbox' = Tail(inbox)
    /\ MarkFailed(Head(inbox).task)
    /\ UNCHANGED <<memory, finished, run, sent, faults>>

RunFinished ==
    LET f == Head(finished) IN
    /\ At(Manager, "idle") /\ finished # <<>>
    /\ finished' = Tail(finished)
    /\ IF f.completed
       THEN /\ inbox' = Append(inbox, [task |-> f.task, agent |-> f.agent])
            /\ UNCHANGED <<store, call>>
       ELSE /\ MarkFailed(f.task)
            /\ UNCHANGED inbox
    /\ UNCHANGED <<memory, run, sent, faults>>

-----------------------------------------------------------------------------
(* The sweeps: watchdog_tick, and reconcile_zombies_on_start followed by     *)
(* advance_all_active.                                                       *)

InProgressTasks == {t \in Tasks : status[t] = "InProgress"}

WatchdogTick ==
    /\ At(Watchdog, "idle") /\ Listed /\ InProgressTasks # {}
    /\ ToSweep(Watchdog, InProgressTasks)
    /\ UNCHANGED <<store, memory, queues, run, sent, faults>>

BootScan ==
    /\ At(Startup, "boot")
    /\ ToSweep(Startup, IF Listed THEN InProgressTasks ELSE {})
    /\ UNCHANGED <<store, memory, queues, run, sent, faults>>

\* The first half of task_liveness; all there is of it at start-up.
SweepNext(p) ==
    /\ At(p, "sweep")
    /\ \E t \in Tasks :
          /\ IsFirst(t, call[p].cands)
          /\ IF LiveRuns(Executor[t]) # {}
             THEN ToSweep(p, call[p].cands \ {t})
             ELSE Continue(p, [call[p] EXCEPT !.cands = @ \ {t}, !.task = t,
                                 !.pc = IF p = Watchdog THEN "probe" ELSE "recover"])
    /\ UNCHANGED <<store, memory, queues, run, sent, faults>>

\* The second half: no run is alive; was one ever, or is the grace over?
Probe(p) ==
    LET t == call[p].task
        stuck == t \in observed \/ t \notin dispatchedAt IN
    /\ At(p, "probe")
    /\ IF stuck THEN Goto(p, "recover") ELSE ToSweep(p, call[p].cands)
    /\ UNCHANGED <<store, memory, queues, run, sent, faults>>

\* recover_stuck_task: read again, then reclaim.
Recover(p) ==
    LET t == call[p].task IN
    /\ At(p, "recover")
    /\ IF listStatus = "Active" /\ status[t] = "InProgress"
       THEN ToReclaim(p, t, "sweep")
       ELSE ToSweep(p, call[p].cands)
    /\ UNCHANGED <<store, memory, queues, run, sent, faults>>

SweepEnd(p) ==
    /\ At(p, "sweep") /\ call[p].cands = {}
    /\ Continue(p, IF p = Startup THEN [Idle EXCEPT !.pc = "rescan"] ELSE Idle)
    /\ UNCHANGED <<store, memory, queues, run, sent, faults>>

Rescan ==
    /\ At(Startup, "rescan")
    /\ Continue(Startup, IF Listed THEN [Idle EXCEPT !.pc = "advance", !.snap = Snap]
                         ELSE Idle)
    /\ UNCHANGED <<store, memory, queues, run, sent, faults>>

\* watchdog_grace (300 s) passes without a new dispatch.
GraceElapses(t) ==
    /\ t \in dispatchedAt
    /\ dispatchedAt' = dispatchedAt \ {t}
    /\ UNCHANGED <<store, registry, observed, queues, run, call, sent, faults>>

\* Mutant of Restart: attempt_count is not written to disk.
RestartForgetsAttempts ==
    /\ faults.restart < MaxRestarts
    /\ faults' = [faults EXCEPT !.restart = @ + 1]
    /\ registry' = [a \in Agents |-> NoTask]
    /\ attempts' = [t \in Tasks |-> 0]
    /\ dispatchedAt' = {} /\ observed' = {} /\ inbox' = <<>> /\ finished' = <<>>
    /\ run' = [r \in Runs |-> NoRun]
    /\ call' = [p \in Actors |-> IF p = Startup THEN [Idle EXCEPT !.pc = "boot"] ELSE Idle]
    /\ UNCHANGED <<listStatus, status, token, sent>>

\* The process dies and starts again: the files are all that is left.
Restart ==
    /\ faults.restart < MaxRestarts
    /\ faults' = [faults EXCEPT !.restart = @ + 1]
    /\ registry' = [a \in Agents |-> NoTask]
    /\ dispatchedAt' = {}
    /\ observed' = {}
    /\ inbox' = <<>> /\ finished' = <<>>
    /\ run' = [r \in Runs |-> NoRun]
    /\ call' = [p \in Actors |-> IF p = Startup THEN [Idle EXCEPT !.pc = "boot"] ELSE Idle]
    /\ UNCHANGED <<store, sent>>

-----------------------------------------------------------------------------
(* The specification.                                                       *)

\* The part of a call that is the same for every caller.
FeederStep(p) ==
    \/ SettleRead(p) \/ Clear(p) \/ Halt(p)
    \/ AdvanceIdle(p) \/ AdvanceComplete(p) \/ AdvancePar(p) \/ AdvanceSeq(p)
    \/ ParCheck(p) \/ BeginGhost(p) \/ BeginSkip(p) \/ BeginClaim(p) \/ Publish(p)
    \/ Reclaim(p)

RunStep(r) == FeederStep(r) \/ CompleteTask(r) \/ Reprompt(r) \/ EndedRead(r) \/ RunExit(r)
SweepStep(p) == FeederStep(p) \/ SweepNext(p) \/ Probe(p) \/ Recover(p)
                \/ Redispatch(p) \/ SweepEnd(p)

\* Nothing is left to do: only then may the system stop.
Quiescent ==
    /\ listStatus \in {"Completed", "Failed"}
    /\ \A p \in Actors : At(p, "idle")
    /\ inbox = <<>> /\ finished = <<>>
    /\ UNCHANGED vars

Next ==
    \/ \E r \in Runs : RunStep(r) \/ TagComplete(r) \/ TagFail(r) \/ TagClarify(r)
                      \/ RunEnd(r) \/ RunCrash(r)
    \/ FeederStep(Manager) \/ StartRun \/ SpawnFails \/ RunFinished
    \/ \E p \in Sweepers : SweepStep(p)
    \/ WatchdogTick \/ BootScan \/ Rescan
    \/ \E t \in Tasks : GraceElapses(t)
    \/ Restart
    \/ Quiescent

Spec == Init /\ [][Next]_vars

\* The runtime polls every task that can go on, runs end (the CLI runner has
\* timeouts), messages are received, time passes and the watchdog wakes up.
\* Tags, crashes and restarts are nobody's duty.
Fairness ==
    /\ \A r \in Runs : WF_vars(RunStep(r)) /\ WF_vars(RunEnd(r))
    /\ WF_vars(FeederStep(Manager))
    /\ WF_vars(StartRun \/ SpawnFails) /\ WF_vars(RunFinished)
    /\ \A p \in Sweepers : WF_vars(SweepStep(p))
    /\ WF_vars(WatchdogTick) /\ WF_vars(BootScan) /\ WF_vars(Rescan)
    /\ \A t \in Tasks : WF_vars(GraceElapses(t))

\* Every rejected tag starts one more run of the task, so an agent that repeats
\* a tag for a task that is over keeps its executor busy, and the watchdog off
\* all tasks of that executor, for as long as it likes.  Agents stop doing so.
LateTag(r) == run[r].tags' > run[r].tags /\ status[run[r].task] # "InProgress"
AgentsRelent == <>[][\A r \in Runs : ~LateTag(r)]_vars

FairSpec == Spec /\ Fairness /\ AgentsRelent

-----------------------------------------------------------------------------
(* Properties.                                                               *)

TypeOK ==
    /\ listStatus \in ListStatus
    /\ status \in [Tasks -> TaskStatus]
    /\ attempts \in [Tasks -> Nat] /\ token \in [Tasks -> Nat]
    /\ registry \in [Agents -> Tasks \cup {NoTask}]
    /\ dispatchedAt \subseteq Tasks /\ observed \subseteq Tasks
    /\ inbox \in Seq(Message) /\ finished \in Seq(Signal)
    /\ run \in [Runs -> Run] /\ call \in [Actors -> Call]
    /\ sent \subseteq (Tasks \X Nat)
    /\ faults \in [crash : Nat, restart : Nat, followup : Nat]

\* A task is never attempted more often than max_attempts allows, whoever
\* recovers it and however the recoveries interleave, across restarts too: the
\* task that has used up its attempts is Failed (the doc of
\* try_reclaim_dispatch_by_owner, tasklist_store.rs:751-756).
AttemptCap ==
    \A t \in Tasks :
        /\ attempts[t] <= MaxAttempts
        /\ attempts[t] = MaxAttempts => status[t] = "Failed"

\* The dispatch p is about to send.
Dispatching == {p \in Actors : call[p].pc \in {"publish", "resend"}}
Ticket(p) == <<call[p].task, call[p].tok>>

\* Every dispatch of a task is sent under a dispatch token of its own: of two
\* actors that try to begin or to recover the same task at the same time one
\* sends, and no task is dispatched more than max_attempts times in all.
OneDispatchPerToken ==
    /\ \A p \in Dispatching : Ticket(p) \notin sent
    /\ \A p, q \in Dispatching : Ticket(p) = Ticket(q) => p = q
    /\ \A d \in sent : d[2] < MaxAttempts

\* What must be over before t may begin: the earlier groups, and in a SEQ group
\* the earlier tasks.
Before(t) ==
    {u \in Tasks : \/ GroupOf[u] < GroupOf[t]
                   \/ /\ GroupOf[u] = GroupOf[t] /\ Mode[GroupOf[t]] = "SEQ"
                      /\ Rank[u] < Rank[t]}

\* "Group N+1 starts only when every task in group N is in a terminal state",
\* "SEQ groups dispatch one at a time" (task_feeder/mod.rs:137-139), although
\* advance decides from a snapshot and claims the task later.
OrderKept ==
    \A t \in Tasks : status[t] \in {"InProgress", "Completed"} =>
        \A u \in Before(t) : status[u] \in Terminal

\* A tasklist is Completed only when nothing of it failed or is unfinished, and
\* Failed only because a task is; the status written last was decided from
\* snapshots other actors have overtaken.
ListStatusSound ==
    /\ listStatus = "Completed" => \A t \in Tasks : status[t] \in {"Completed", "Skipped"}
    /\ listStatus = "Failed" => \E t \in Tasks : status[t] = "Failed"

\* No late report, recovery or stale snapshot undoes the result of a task or of
\* the tasklist.
OutcomesFrozen ==
    [][/\ \A t \in Tasks : status[t] \in Terminal => status'[t] = status[t]
       /\ listStatus \in {"Completed", "Failed"} => listStatus' = listStatus]_vars

\* Whatever is lost, the watchdog, the queue manager and the end of the runs
\* bring the tasklist to an end.
Settles == <>(listStatus \in {"Completed", "Failed"})

\* The feeder implements the lifecycle of TasklistLifecycle: no interleaving of
\* its callers is visible in the files.
Lifecycle == INSTANCE TasklistLifecycle
                 WITH Unservable <- {t \in Tasks : Ghost(t)}
Implements == Lifecycle!Spec
=============================================================================
