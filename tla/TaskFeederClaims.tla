-------------------------- MODULE TaskFeederClaims --------------------------
(***************************************************************************)
(* What comments in the source say of the task feeder and the code does    *)
(* not do.  Each property below quotes its comment; its .cfg (Claim...)    *)
(* makes TLC show a behaviour of TaskFeeder that contradicts it.           *)
(***************************************************************************)
EXTENDS TaskFeeder

\* "Return Ok -- the task is now Failed; the next advance() or watchdog_tick()
\* will pick it up via on_task_terminal and drive the tasklist to its terminal
\* state" (dispatch.rs:429-431).  Neither looks at a Failed task.
GhostFailureNoticed ==
    \A t \in Tasks : (Ghost(t) /\ status[t] = "Failed") ~> (listStatus # "Active")

\* "Already-running PAR tasks in the same group are left alone;
\* halt-on-failure only prevents NEW dispatch (the next SEQ task or the next
\* group)" (terminal.rs:17-20).  A sibling that completes between the write of
\* the task's failure and the write of the tasklist's dispatches the next group.
HaltOnFailure ==
    [][\A t \in Tasks : status[t] = "Pending" /\ status'[t] = "InProgress" =>
          \A u \in Before(t) : status[u] # "Failed"]_vars

\* "ask the feeder to either reprompt or fail the assigned task"
\* (agent_runner/cli.rs:2861-2864).  on_run_ended is given the agent, and takes
\* whatever task the registry holds for it.
OwnTaskCharged ==
    [][\A r \in Runs : At(r, "working") /\ call'[r].pc = "ended" =>
          call'[r].task = run[r].task]_vars

\* "the remaining tasks for that agent stay Pending and re-dispatch from
\* on_task_terminal once the agent's current task terminates"
\* (dispatch.rs:121-124).  A recovery that publishes its slot after the task
\* ended leaves the slot taken for good.
SiblingsGetTheirTurn ==
    \A t, u \in Tasks :
        (t # u /\ Executor[t] = Executor[u] /\ status[t] = "Pending"
           /\ status[u] = "Completed")
        ~> (status[t] # "Pending" \/ listStatus # "Active")

\* "Recovers tasklists that were left in an Active-but-not-dispatching state
\* across a server restart" (task_feeder/mod.rs:350-356).  A restart between the
\* write of a task's failure and the write of the tasklist's leaves one that is
\* Active, dispatches nothing and is not recovered by anything.
RestartRecovers == Settles
=============================================================================
