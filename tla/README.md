# Launchpad Studio: TLA+ models of its coordination

Launchpad Studio (`src/`) is a desktop application and server that runs a team
of AI agents. What makes them work together is a handful of coordinators: the
*tasklist* engine, which dispatches ordered groups of tasks to agents and retries
what an agent forgets to report; the *queue* of each agent, which starts its runs;
the *workflow* queue, which walks tasks through the phases of a workflow; the
*watches*, which poll the outside world and dispatch what they find; the *forms* by
which an agent asks its user; and the *lease* by which several processes share a chat
channel. This directory holds TLA+ modules that model them; TLC configurations that
check them on small instances; and proofs, checked by TLAPS, of the safety of all six
for every instance.

* `PROJECT.json` maps every definition to the lines it models, lists the runs,
  the theorems, the hazards of the code and the findings.
* `tlc -config QueueRuns.cfg MCAgentQueue` runs one check, `tlapm
  AgentQueueProofs.tla` checks one of the eight proof modules.

## 1. Inventory

Crates are under `src/crates/`; `ao-engine` holds the coordination, `ao-persistence`
the files, `ao-protocol` the types.

| Component | State | Operations | Hard part |
|---|---|---|---|
| **Tasklist store** (`ao-persistence/tasklist_store.rs`) | one JSON file per tasklist: list status; per task status, `attempt_count`, `dispatch_token`, owner, `classifier_token` | locked read-modify-write writers, two transition tables, compare-and-set begin and reclaim; *unlocked* readers | readers decide from what writers have overtaken |
| **Task feeder** (`ao-engine/task_feeder/{dispatch,terminal,watchdog,mod}.rs`) | `registry` (agent -> task), `dispatched_at`, `run_observed`, in memory | `advance`, `dispatch_one`, `on_task_terminal`, `validate_and_complete`, `on_run_ended`, `watchdog_tick`, start-up scans | called by every run, the queue manager, the watchdog and the start-up at once; each call is a chain of awaits |
| **Operator transitions** (`task_feeder/lifecycle.rs`) | the same | pause, continue, skip, discard, replay, resume, start | race with every call above |
| **Tasklist queue manager** (`tasklist_queue_manager.rs`) | one per tasklist: message channel, `in_flight`, run bridges | Dispatch, Followup, Cancel, run finished | a run that never answers, bounded channels, cancel against completion |
| **Watchdog runner** (`dispatch_watchdog.rs`) | a timer | calls `watchdog_tick` | sweeps while everybody works |
| **CLI agent runner** (`agent_runner/cli.rs`) | one task per run; registration | task tags, the end of a run, `RunComplete`, the panic path | reports late, twice, for a task that is over, or never |
| **Instance registry** (`instance_registry.rs`) | live runs per key | register, drop, `running_count` | liveness of a task is inferred from it |
| **Tasklist service** (`tasklist_service/mod.rs`) | none of its own | create, add, stop, resume, delete for agent-owned tasklists | check and write under different locks |
| **Agent routing, classifier** (`agent_routing.rs`, `classifier_reconciler.rs`) | `classifier_token` on disk | classify, compare-and-set, reconcile, cascade after a deletion | a late classification against the user's edits |
| **Agent queue manager** (`queue_manager.rs`) | per agent: message channel, queue, threads held by runs, assignment runs in flight | submit, pump, run ended, heartbeat; a watcher of each run | a run starts, ends and dies outside the actor; slot, report and lock are given back in any order |
| **Channel leases** (`ao-persistence/channel_lease_store.rs`) | a lease file and a lock file per channel binding, shared by processes | claim, heartbeat, release, called by the reconcile loop of the channel bridge | expiry, takeover and crashes between system calls of several processes |
| **Workflow queue and runner** (`workflow_queue_manager.rs`, `workflow_runner.rs`) | `task.yaml` per task; `ready_queue`, `backoff_queue`, `running_tasks` in memory | start, resume, stop, reopen, archive, phases by script, agent or form | whole-file writes without a lock by every actor; directories shared by tasks; crashes |
| **Agent watch** (`agent_watch.rs`) | a scratchpad per assignment on disk: snapshots of the items, ledger of dispatched findings, contents seen | a poll: observe, diff, persist, dispatch, persist | minutes between load and store; crash around the dispatch; an edit reads and writes the same scratchpad, nobody takes a lock |
| **Assignment and schedule runners** (`assignment_runner.rs`, `schedule_runner.rs`) | rows of runs, times of polls on disk | fire, tick, expire | rows of lost queues, catch-up after downtime |
| **Prompt bridge and pending forms** (`ao-engine-tools-runner/prompt_bridge`, `ao-engine-tools-core/form_events.rs`, `ao-persistence/snapshot.rs`, `ao-server/routes/form_answers.rs`, `ao-engine/sync_form_reaper.rs`) | a sender per call that waits; the pointer to the form a thread shows, in memory and in the snapshot file | ask, post, answer, dismiss, cancel, time out, sweep after a restart | a call can be dropped at every await; saves overlap and share a temporary file |
| **Background agents, delegation, trust gate** | registries of pending work | spawn, deliver, approve, cancel | an answer racing a timeout |
| Channels (Telegram, Slack, ...), model providers, tools, memory, search, normalizers, HTTP server, front end | third-party protocols, parsing, I/O | | not coordination; left aside |

How the modelled parts interact:

```
              <task> tags, end of run                 calls watchdog_tick
   agent run ------------------------> task feeder <---------------------- watchdog
      ^  |                             |   ^    |  \
      |  | RunComplete / lost bridge   |   |    |   `-- registry, dispatched_at,
 spawn|  v                             |   |    |       run_observed (memory)
   queue manager <--- Dispatch --------'   |    `-----> tasklist store (disk)
      |                                    |
      `--- mark_task_failed, ----------> on_task_terminal
           mark_run_observed
```

```
   schedule runner --poll--> agent watch --fire--> row of the run + message --> agent queue
                                 ^   scratchpad                                  |   ^
                                 |                                               v   | report
                                 `------ row says how the turn ended <------  agent run

   user, tools --task.yaml + message--> workflow queue --spawn--> script / agent session
                                              ^                        |
                                              `-- outcome in task.yaml, then message

   agent run --ask, post--> pending form (snapshot) <--answer, dismiss, cancel-- user
       ^  bridge                  ^                                             |
       |                          `-- sweep at start-up                         |
       `-- the call that waits <--- its answer ---------------------------------+
                                    a new turn (agent queue) <-- answer to a posted form
```

What makes these parts correct.

* *Tasklist*: a task is begun at most once and only when it is its turn; it is
  dispatched again only by the one actor that won the reclaim, and at most
  `max_attempts` times, across restarts too; the result of a task, and of the
  tasklist, is never undone by a late report or a stale read; a tasklist is
  Completed only if everything in it is; and whatever is lost, it ends.
* *Agent queue*: runs that write to one thread do not overlap, the cap holds, the
  messages of a thread keep their order, the row of an assignment run says how the
  run ended, and every message is started in the end.
* *Workflows*: phases run in order, a task in one place at a time, one script per
  directory; outcomes stay; a task that runs ends, also across a crash.
* *Watches*: a finding is dispatched with a trace on disk, not twice before its time
  (both but for what an edit puts back), not from history, and is not taken for done before
  its turn ended.
* *Forms*: a form that can still be answered is shown, one that cannot goes away or is
  marked, and a posted form never disappears without a trace.
* *Lease*: at most one process may have been told that it holds a binding, and a live
  lease changes hands only by release. It meets the other components nowhere.

## 2. Modules

| Module | Models |
|---|---|
| `TasklistStore` | The store's two transition tables, and the decisions of `try_begin_task_by_owner` and `try_reclaim_dispatch_by_owner`. |
| `TaskFeeder` | One tasklist: its file, the feeder's memory, the queue manager, agent runs, watchdog and start-up, interleaved. Also the properties. |
| `TasklistLifecycle` | The abstract specification: tasks begin in order, are retried a bounded number of times and end; the tasklist ends with them. |
| `TaskFeederInvariant` | The inductive invariants `Inv` and `FullInv`. |
| `TaskFeederProofs` | `Inv` is invariant; type correctness and the safety properties follow. |
| `TaskFeederRefinement` | `FullInv` is invariant; `TaskFeeder` implements `TasklistLifecycle`; results are frozen. |
| `TaskFeederClaims` | What comments of the source say and the code does not do. |
| `MCTaskFeeder` | Small tasklists for TLC. |
| `ChannelLease` | One binding's lease file and its lock file, and the reconcile loops of the processes that share them, a step per system call; with its properties. |
| `ChannelLeaseInvariant` | The inductive invariant `LeaseInv`. |
| `ChannelLeaseProofs` | `LeaseInv` is invariant among punctual processes; exclusion and `LiveLeaseKept` follow. |
| `MCChannelLease` | Three processes for TLC. |
| `AgentQueue` | The queue manager of one agent, the instance registry, the rows of its assignment runs, the runs and their watchers; with its properties. |
| `AgentQueueInvariant` | The inductive invariant `QueueInv`. |
| `AgentQueueProofs` | `QueueInv` is invariant; the safety of the queue follows. |
| `WorkflowQueue` | The workflow queue manager, the executions of phases, the operations on `task.yaml` and the requests of the user; with its properties. |
| `WorkflowQueueInvariant` | The inductive invariant `WorkflowInv`. |
| `WorkflowQueuePlans` | Type correctness: every plan of every process is one of those the code leaves to do. |
| `WorkflowQueueProofs` | `WorkflowInv` is invariant; the safety of the workflows follows. |
| `AgentWatch` | One watch: the poll, its scratchpad, the runs it dispatches; with its properties. |
| `AgentWatchInvariant` | The inductive invariant `WatchInv`. |
| `AgentWatchProofs` | `WatchInv` is invariant; the safety of the watch follows. |
| `PendingForms` | The forms of an agent in one thread: calls that wait, posted forms, the pointer in the snapshot, its saves, users, restart and sweep; with its properties. |
| `PendingFormsInvariant` | The inductive invariant `FormInv`. |
| `PendingFormsProofs` | `FormInv` is invariant; `PointerShown` and `NoSilentLoss` follow. |
| `MCAgentQueue`, `MCWorkflowQueue`, `MCAgentWatch`, `MCPendingForms` | Their instances for TLC. |

### How `TaskFeeder` corresponds to the code

**State.** `listStatus`, `status`, `attempts`, `token` are the file; `registry`,
`dispatchedAt`, `observed` the three maps of the feeder; `inbox` and `finished` the
two channels the queue manager selects on; `run[r]` the run in slot `r`. `sent` and
`faults` are observation and bound only: no guard reads `sent`, and `faults` only
caps the faults.

**Actors and calls.** An actor (a run, the queue manager, the watchdog, the
start-up task) is one asynchronous task of the program; it is in at most one
feeder call. `call[p]` holds that call's local variables: `pc` where it is, `ret`
who waits for the result (hence what an error does), `task`, the dispatch token
`tok` it read, the tasklist `snap` it read, and the rest of a batch. Every locked
write and every unlocked read on which something depends is a step of its own.

| Code | Actions |
|---|---|
| `on_task_terminal` | `SettleRead` (read), `Clear` (memory), `Halt` (write Failed), then `advance` |
| `advance`, `dispatch_group` | `AdvanceIdle`, `AdvanceComplete`, `AdvanceSeq`, `AdvancePar`, `ParCheck` (the live re-check of each task of a batch) |
| `dispatch_one` | `BeginGhost`, `BeginSkip`, `BeginClaim` (the locked claim), `Publish` (registry, timestamp, message) |
| `try_reclaim_dispatch_by_owner` and what follows | `Reclaim`, then `Reprompt` (run) or `Redispatch` (sweep), or on_task_terminal when the attempts are used up |
| `validate_and_complete` | `TagComplete` (read, look for outputs: either verdict), `CompleteTask` or `Reclaim` |
| other tags, the end of a run | `TagFail`, `TagClarify`, `RunEnd`, `EndedRead`, `RunExit`; `RunCrash` for a panic |
| queue manager | `StartRun`, `SpawnFails`, `RunFinished` |
| `watchdog_tick`, `task_liveness`, `recover_stuck_task` | `WatchdogTick`, `SweepNext`, `Probe`, `Recover`, `SweepEnd` |
| `reconcile_zombies_on_start`, `advance_all_active` | `BootScan`, the sweep, `Rescan` |
| time, the process | `GraceElapses`, `Restart` |

`advance` works on the snapshot of its caller, never on the file; the model does
the same, which is where most interleavings come from. The state after `Init` is a
tasklist just started by its creator, whose first `advance` is the start-up actor's.

**Abstractions.**

* Errors of the file system are not modelled. An error of a transition table is.
* `dispatch_one` writes the registry, then the timestamp, then sends; these are
  one step (`Publish`), because only the window before them, between the claim and
  the first of them, is visible to another actor that acts on it. The send itself
  does not fail: it fails only when the manager's task is gone.
* Time is the set `dispatchedAt` of tasks whose timestamp is younger than the
  grace; `GraceElapses` may remove one at any moment.
* The output validation is a nondeterministic verdict. Prompts, comments,
  attachments, events and token accounting are left out.
* A run has at most one followup waiting (the code concatenates them into messages
  for the same task and agent); channels are unbounded (the queue manager's bounds
  are part of the plan).
* The executor of a task is a constant: reassignment and classification are a
  later module. So is everything an operator does. Hence `Paused`,
  `Cancelled`, `Blocked`, `Skipped`, `Stopped` appear in the tables and guards but
  are not reached, and the error branches of `Halt` and `AdvanceComplete` never taken.

**Bounds.** `Runs`: slots for runs alive at once; a message waits until one is free.
`MaxTags`: terminal tags one run emits. `MaxCrashes`, `MaxRestarts`, `MaxFollowups`:
faults per behaviour. Attempts and tokens need none: `MaxAttempts` is a parameter
of the code.

### How `ChannelLease` corresponds to the code

**State.** `lease` and `lock` are the two files (with the process that created each,
since the code removes them by name and a step must know whose it removes), `clock`
the wall clock all processes of the machine share. `proc[p]` is one reconcile loop:
where it is, whether the binding runs there, the `now` of its tick, the lock it found
too old, and what `try_claim` will return. `until[p]` is the time up to which p was
told it holds the lease, `now + ttl` (doc of `try_claim`: "the caller now holds the
lease until `now + ttl`"); no guard of the code reads it.

| Code | Actions |
|---|---|
| `reconcile` takes `now`, calls `try_claim` | `Reconcile`; the answer is `Granted` or `Refused` |
| `try_claim`: `create_new`, then the write to that file | `Create`, `Fill` |
| heartbeat fast path: read, then tmp + rename, no lock | `Peek`, `Renew` |
| `acquire_reclaim_lock` | `Acquire` (create or find it too old), `Break` (remove by name), `GiveUp` |
| the read-check-write under the lock, the guard's drop | `Read`, `Write`, `Unlock` |
| a binding that is disabled, reconfigured or refused, shutdown: `release` | `Stop`, `ReleaseRead`, `Remove`; then the same tick may claim again, as of the same `now` (`AfterRelease`) |
| a process that dies | `Crash` (for good: a restart has a new owner id, so it is another process) |

An empty lease file reads as no lease, as in `read`. Retries of the lock are the
repetition of `Acquire`; a lock that vanishes between two looks is a retry too.

**Punctual.** The code's guarantee rests on time: a process whose tick takes longer
than the 15 seconds of a lease may act on one it has lost. `Timely` makes it an
assumption, on ticks of the clock and never on a step: healthy processes end a tick
within the lease time, renew or release before the lease ends, and hold the lock for no
longer than `RECLAIM_LOCK_STALE_AFTER`. The comments make the same assumption
("nothing else can legitimately be contending", line 164). Crashed processes keep no
deadline.

**Mishaps.** Two steps end the guarantee even so. The model lets them happen and
records them, and the properties hold up to there: `noLease`, a claim under the lock
that finds no lease in the file (created and not yet written, or removed), and
`wrongLock`, a removal of a lock other than the one that was found too old. `LeaseFirst.cfg`
shows what follows from the first (section 5). For the second, TLC reaches it with one
crash: two waiters judge the same abandoned lock, the slower one removes the lock of
the faster.

**Bounds.** `MaxTime` ends the clock, `MaxCrashes` the crashes. Errors of the file
system are left out, but for the time-out of the lock.

### How `AgentQueue` corresponds to the code

**State.** `chan`, `queue`, `complete` are the two channels and the queue of the
actor; `pc`, `current`, `seen` its place in the code, the message it works for and
the rows it read. `registry` is the agent's entry of the instance registry,
`interactiveRuns`, `threadLocks`, `inFlight` the keys of the three maps of the actor,
`rows` the files of the assignments. `stage[m]` is the life of a message; since a
message is started once, a run is named by its message. `watched[m]` is what the
watcher of a dead run read. `reported` is history: no guard but that of `Report` reads it.

| Code | Actions |
|---|---|
| `fire_assignment`, `submit_message` | `Fire` (the row), `Submit` (the channel) |
| `select!` of `run` | `Receive`, `RunCompleted`, `Heartbeat` |
| `pump` | `Dispatch` (search and removal), `PumpEnds`, `Book`, `MarkRead`, `MarkWrite`, `Spawn` |
| `mark_assignment_run_succeeded`, `..._failed` | `FinishRead`, `FinishWrite` |
| the run, its guard, its watcher | `RunEnds` or `RunDies`, `Report`, `Unregister`; `WatchDead`, `FailRow` |
| tasklists and delegations of the same agent | `OtherBegins`, `OtherEnds`, `TasklistOpensOrCloses` |

**Abstractions.** Reading the profile again in the pump, followups of workflows,
`wake_on_deliver`, the context of a co-pilot and events are left out. The search of the
pump and its removal are one step (the actor owns the queue); the question to the
registry belongs to it, and is the place where another part of the engine can slip in,
which `Book` as a step of its own shows. `Fallible` bounds which runs may die.

### How `WorkflowQueue` corresponds to the code

**State.** `snap[t]` is `task.yaml` (status of the task and of each phase), `outputs[t]`
the output files; `inbox`, `ready`, `backoff`, `running` the channel, the two queues and
the keys of `running_tasks`. Everything that calls the workflow runner is a process: the
manager, the user, each execution of a phase. `plan[q]` is what q has still to do, a
sequence of operations, and `held[q]` the file it has read and not yet written.

| Code | Actions |
|---|---|
| any operation of `workflow_runner.rs` on a task | `Read` (with what it refuses, `Accepts`, and what the caller does then, `AfterRefusal`), `Write` (`Applied` to what was read) |
| `select!` of the manager | `Receive` (start, completed, failed, resume), `Heartbeat` |
| `pump` | `Pump`, `RouteToPause`, `RouteToScript`, `RouteToAgent`, `ColdStart`, `Requeue`, `WorkEnds`, `PumpEnds` |
| `execute_folder_phase` and what follows | `ScriptEnds`, then `complete` or `fail` and the message |
| an agent session and its tools | `TurnEnds`: complete with or without the output, skip, give up |
| routes and tools | `Start`, `Resume`, `SubmitInput`, `Stop`, `Reopen`, `ToolStart`, `Archive` |
| death and restart | `Crash`, with `recover_running_tasks` in any order of the directory listing |

**Mishaps.** Most operations lock nothing, and two of them in flight can undo each
other. The model lets that happen; `mishaps` records which interventions there were, and
whether an agent's tokens were left to be reported (`tokens`: its run writes them when it
ends, while the manager may be working on the next phase). Each property says under which
mishaps it holds, however often they come. The limits are real, not cautious: with a stop,
a reopening or an archive TLC finds an outcome undone, with a stop and then a reopening two
executions of one task. (An archiving and a reopening are left out of `Orderly` because the
proof needs it, an archiving writes back phases it read long before; TLC finds no harm in
two of them.) The run allows one intervention, at any step; the
theorems any number. The user is one process: two forms submitted at once are not modelled.

**Abstractions.** A write of the file is one step (the code writes in place). An agent
forgets its output at most while its phase runs. Some transitions are not in the model, and the
properties say nothing of a task they were used on: `POST /tasks/{id}/phases/{phase}/complete`
(`ao-server/src/routes/workflows.rs:353`) writes a phase Completed without
telling the manager; completing or skipping phases of a task that is still Pending (the manager
ignores the message, `workflow_queue_manager.rs:346`) fills them in before the start; and
`send_phase_message` and `start_phase_agent` (`ao-server/src/routes/workflows.rs:467`, `:602`) give a
phase's agent a turn that the manager did not ask for. Creation and deletion of tasks, the
registry of workflows, prompts, attachments, the sleep guard and events are left out. Every
phase has its own slots for executions; a slot too few would make the manager wait, and
one is enough because `OneExecution` holds.

### How `AgentWatch` corresponds to the code

**State.** `disk` is the scratchpad file, `tick` the poll under way with its own copy of
it, `contract` and `instruction` the assignment, `edit` the update of the assignment under way
with the copies it has read, `runs` the rows of its runs, `world` the observed items.
`contract` is the version of the instruction it was authored for. `history`, `baseline`,
`forgot`, `undone` and the field `passes` of a run are history variables the properties need;
no guard reads them.

| Code | Actions |
|---|---|
| `run_agent_watch_tick` up to the question to the agent | `StartPoll` |
| the answer, `reconcile_pending_deliveries`, the diff, the write before the dispatch | `BoundPoll` |
| `fire_assignment`, the write after it | `Dispatch`, `Attach`, or `DispatchFails` |
| a watch without contract: authoring, `seen_ids` | `LegacyPoll`, `LegacyFire`, `LegacyCommit`, `LegacyFireFails` |
| no answer | `ObservationFails` |
| `set_assignment_contract`, called by the poll | `Binds`, a part of `BoundPoll` and `LegacyPoll` |
| `patch_assignment` and the tool `AssignmentUpdate`: the row is read | `EditKeeps` (it will be written back with the contract that was read), `EditClears` (without) |
| `patch_assignment`, when the instruction or scope changes: the scratchpad is read, then written | `EditLoads`, `EditStores` |
| both: the row is written | `EditEnds` |
| the queue of the agent, the machine, the world | `TurnEnds`, `Crash`, `Change` |

`ReconcileWalk` goes over the indices exactly as the code does, removals included, and ends in
a panic where the code indexes past the end; `DiffWalk` is the loop over the candidates. Both
are recursive functions. After a removal an index names the entry's neighbour: `forgot` records
that a pass has removed a Confirmed entry this way. `record_pending_action` replaces an entry of
the same finding; the diff lets no finding through that the ledger has, so `RecordPending`
only appends.

**Edits.** No store takes a lock across a read and a write, so an update of the assignment is as
many steps as it has reads and writes. `patch_assignment` reads the row; with a new instruction
it reads the scratchpad (`ao-server/src/routes/assignments.rs:795`), forgets in memory what was
derived from the contract, and writes all of it back (`:798`), the ledger included; then it
writes the row (`:842`). What a poll writes in between is lost, and the poll in turn, which loaded
its copy minutes ago, overwrites the edit. `undone` holds the findings whose entry `EditStores`
has put back to what it was before: removed, or again without its run, or as young as it was; a
finding stays in it. `DispatchIsTraced` and `RepeatsAreLate` say nothing of the runs about them
(section 5 shows why). The tool does not touch the scratchpad. An edit that keeps instruction and
scope still writes back the contract that it read, so it can bring back one that a poll has
replaced. `set_assignment_contract` reads the row and writes it too, so the row of an edit that is
written in between is lost: `Binds` may end an edit whose writing of the row is all that is left.

**Abstractions.** `BoundPoll` is one step: between its parts the poll only computes, and
what others write to the scratchpad in between (an edit) it overwrites, as it does in one step.
There is one edit at a time, and the watch stays enabled and stays a watch. Which
observations are malformed (`bad`), whether the extraction plan breaks (`fallback`),
whether a run of malformed polls ends the contract (`amend`) and whether authoring succeeds
(`binds`) are choices. `Predicate::Changed`, versions of the key generation, failures of
writes, `SEEN_IDS_CAP`, times of polls and expiry, and other assignments are left out.

### How `PendingForms` corresponds to the code

**State.** `mem` and `disk` are the entry of one thread in `pending_forms`, in memory and in
the snapshot file, `tmp` the temporary file. `live` and `channels` are the bridge of the
run and its senders, `bound` the calls whose tool still awaits them. Everything that updates
the snapshot is an actor: a call (named by its form), a posted form, a request, the sweep;
`op[a]` is where it is and its local variables. `traced` is what the transcript says of
forms that left. `displaced`, `lost` and `stuck` only record; `lost` has the forms that a restart
loses to an older file as well as those of a step that failed or was dropped.

| Code | Actions |
|---|---|
| `update_agent_entry`, `save` | `Patch` (under the lock), `Clone`, `Write`, `Rename` or `RenameFails` |
| `ask_form`, `persist_pending`, `clear_now` | `Ask`, the update, `Trace` for the form it displaced, `Wake` (answered or cancelled), the update that clears |
| the tool's `select!`, `PendingFormClearGuard::drop` | `DropCall`, at any await, with the system call carried out or not |
| `persist_posted_form` | `Post`, the update, `Trace` |
| `submit_form_answer`, `async_form_answer`, `async_form_dismiss` | `Deliver`; `Request`, `Record`, the update, `QueueTurn` |
| `cancel_agent_run`, any other update | `OtherUpdate` (with `DropCall` for the calls the token cancels) |
| registration of a bridge, `FormBridgeGuard` | `RunBegins`, `RunEnds`; agents in the background share the bridge and may outlive the run |
| restart, `reap_orphaned_sync_forms` | `Restart`, `ReadForms`, `CheckRun`, the update that marks |

**Abstractions.** One thread: other threads and agents are in the same file, and what they
do to it is the goal `touch`. The `form_request` entry, appended before the pointer and
shown to nobody, and the event that shows the form are part of `Ask`. Only a rename that
finds no file fails. A posted form and a request run to their end; a client that
disconnects in the middle is not modelled. `Request` is about posted forms: the routes
(`form_answers.rs:130`, `:196`) check only that the form is pending, whatever its mode, and it is
the client that calls them for posted forms only. The deletion of the agent, which takes
its whole entry from the snapshot (`snapshot.rs:387`), is not modelled. Two live bridges of one
agent are one, and the MCP session, which persists nothing, is none.

## 3. Runs

| Run | Instance | What it shows |
|---|---|---|
| `FeederFaults` | SEQ group of 2, one agent, 2 attempts, 1 crash, spawns may fail | `TypeOK`, `AttemptCap`, `OneDispatchPerToken`, `Settles`: the end of a run, a late tag, the watchdog and a restarted run compete for a token; a run that says nothing, vanishes or never starts |
| `FeederGroups` | PAR group of 2 agents, then SEQ of 1, team-owned | `OrderKept`, `ListStatusSound`, `Implements`, `Settles`: two hooks advance from snapshots that disagree, and one of them must see the group as over |
| `FeederInv` | SEQ group of 2, classifier-assigned, the second executor has no profile; one each of crash, followup, restart; spawns may fail; 2 attempts | `FullInv` (the invariant of the proofs), `OutcomesFrozen`: tokens and attempts on disk carry the promise over a restart; a ghost fails in its turn |
| `LeaseTimely` | 3 punctual processes, 6 ticks, 1 crash | `LeaseInv` (the invariant of the proofs), `LockExclusive`, `ExclusiveLease`, `LiveLeaseKept` |
| `QueueRuns` | 2 turns of the user and an assignment that may die in one thread, serialized; cap 1, channel of 2, one foreign run | `QueueInv` (the invariant of the proofs), `ThreadExclusive`, `CapKept`, `RowTruth`, `NoOvertaking`, `RowsFinal`; `QueueDrains`: nothing waits for ever |
| `WorkflowRuns` | 2 tasks in one directory, phases script, agent, form; one of stop, reopen, archive, crash, start by a tool | `WorkflowInv` (the invariant of the proofs), `PhaseOrder`, `OneExecution`, `DirectoryExclusive`, `CompletedIsDone`, `OutcomesKept`, `TaskSettles` |
| `WatchRuns` | 2 items, 2 changes, 2 runs, an edit in steps, a crash | `WatchInv` (the invariant of the proofs), `DispatchIsTraced`, `ConfirmedHasEnded`, `SeenWasReported`, `RepeatsAreLate`, `HistoryNeverFires` |
| `WatchLive` | 1 item that may be malformed, a plan that may break, a crash, no edit | `TypeOK` on quarantine and amendment; `PendingResolves` |
| `FormRuns` | a call that waits, a posted form, a user or other writer, one restart | `FormInv` (the invariant of the proofs), `PointerShown`, `NoSilentLoss`; `DeadFormsLeave`: no pointer of a dead call stays |
| `ClaimGhost`, `WorkflowCrash`, `WatchTick` | as needed | three statements of comments the code contradicts, section 5 |

Two tasks of a tasklist are enough for every pairwise race (two ends, end against
dispatch of the next), three for the passage to the next group; two runs for two runs of
the *same* task, which a recovery makes possible; two attempts for a reclaim that wins
followed by one that exhausts. For the lease a tick is five seconds: a lease lasts three,
a lock is stale after more than one, so six ticks hold a crash, the takeover of its lease
or of its lock, and the expiry of what was taken over; the third process is the one that
races for it. Three messages are the classes that exclude each other in a thread, and a second
of the class whose order matters; a channel of two makes callers wait. `QueueMix.cfg`, not
among the runs, checks the safety with a second thread and a recurring schedule (1.3 million
states, no error). A call, a posted form and a third party are every pair of writers that
displace, clear and save past each other; `FormRuns` has one call that waits, so an older call that ends late against a newer one is
not in it: `FormPairs.cfg`, also outside the runs, has two
calls that displace each other (safety only, 11 million states), and the theorem any number. Three phases are
one of each type, with an output that the last one needs; two tasks share the directory,
and one of them is disturbed, since they are alike. A threshold of one poll (three in
the code) is passed within the bound of two runs; the cap of snapshots is as large as the
number of items (2000 in the code), the ceiling of failures one (five). One edit is enough for a
stale write of the ledger, which takes one read before a poll's write and one write after it.
`WatchAmend.cfg`, not among the runs, checks `WatchInv` with quarantine, breaking plans, amendment,
an edit and a crash together (4.8 million states, no error).

Each property has a mutant, defined just before what it replaces, that its run must
refute. Deadlock is checked where a part of the model must be able to go on: in the lease
runs until the clock stops (`TimeIsUp`), in `FeederFaults` and `FeederGroups` until
`Quiescent`. `FeederInv` and `ClaimGhost` switch it off because the tasklist
can stop there without an end (section 5). The queue, the workflows and the watch
stop for good when their callers, users or items have done all the bounds allow, or, the
watch, when the runner has panicked; so do the forms when nobody asks any more.

**Fairness.**
*Tasklist*: weak fairness of every step of a call (the runtime polls what can go
on), of the end of a run (the CLI runner has timeouts), of the receiving of messages
and signals, of the watchdog and of time. Tags, crashes and restarts are
never fair. `AgentsRelent` is an assumption about agents: each rejected tag for a
task that is over makes one followup run of that task, and while any run of an
executor lives the watchdog recovers none of its tasks; an agent that repeats the
tag for ever keeps the tasklist open for ever. `Settles` fails without it. The
tasks of the parallel group in `FeederGroups` have an agent each because with a shared one
`ClaimSlot` defeats `Settles`; `FeederFaults` has no ghost and no restart because
`ClaimGhost` and `ClaimRestart` do.
*Queue*: weak fairness of the actor between two awaits, runs, guards, watchers and the
heartbeat (an interval timer); strong fairness of the branches of its `select!`, which
picks at random among those that are ready, and of a caller or reporter that waits for
room in a channel (the semaphore of the channel is fair). Foreign runs are not fair:
`QueueDrains` supposes that they are gone for good.
*Workflows*: weak fairness of the manager, of executions and of a request under way; strong
fairness of `Receive` for the same `select!`, and of `Resume` of a task that waits for its
user. That scripts end and agents end their turn is an assumption: the runner sets no
timeout for a script. One that never ends keeps its task Running, and `TaskSettles` promises
nothing of it.
*Forms*: weak fairness of every step under way and of the sweep: what was begun is polled
on. That users answer, tools give up, runs end or processes restart is not assumed.
*Watch*: the runner polls for ever, weak fairness; the agent answers again and again,
strong fairness of `Observed`. Nothing is assumed of the turns: a turn that never ends
is the case `PendingResolves` is about.

## 4. Theorems

All hold for every value of the constants that satisfies `TaskFeederAssumption`,
`ChannelLeaseAssumption`, `QueueAssumptions`, `WorkflowAssumptions`, `FormAssumptions` or
`WatchAssumption` (which TLC evaluates in every run): any number of tasks, groups, agents, runs,
processes, messages, threads, phases, forms and items, any lease times, any cap, threshold and
channel bound, any bounds on faults. `WorkflowAssumptions` asks for finitely many tasks, since a restart lists their
directory.

| Theorem | Module | Statement |
|---|---|---|
| `Invariance` | `TaskFeederProofs` | `Spec => []Inv` |
| `TypeCorrect`, `AttemptsCapped`, `DispatchExclusive`, `OrderIsKept`, `ListStatusIsSound` | `TaskFeederProofs` | `TypeOK`, `AttemptCap`, `OneDispatchPerToken`, `OrderKept`, `ListStatusSound` are invariant |
| `FullInvariance` | `TaskFeederRefinement` | `Spec => []FullInv` |
| `ImplementsLifecycle` | `TaskFeederRefinement` | `Spec => Implements`: each step is a step of `TasklistLifecycle` or a stutter |
| `OutcomesStayFrozen` | `TaskFeederRefinement` | `Spec => OutcomesFrozen` |
| `LeaseInvariance` | `ChannelLeaseProofs` | `Timely => (Spec => []LeaseInv)` |
| `LockIsExclusive`, `LeaseIsExclusive`, `LiveLeaseIsKept` | `ChannelLeaseProofs` | `LockExclusive`, `ExclusiveLease` and `LiveLeaseKept`, also under `Timely` |
| `QueueInvariant` | `AgentQueueProofs` | `Spec => []QueueInv` |
| `ThreadsAreExclusive`, `CapIsKept`, `RowsAreTrue`, `NobodyOvertakes` | `AgentQueueProofs` | `ThreadExclusive`, `CapKept`, `RowTruth` are invariant, `NoOvertaking` holds of every step |
| `WorkflowTypes` | `WorkflowQueuePlans` | `Spec => []WorkflowTypeOK` |
| `WorkflowInvariants` | `WorkflowQueueProofs` | `Spec => []WorkflowInv` |
| `OneExecutions`, `DirectoriesExclusive`, `PhasesInOrder`, `CompletedAreDone`, `OutcomesStay` | `WorkflowQueueProofs` | `OneExecution`, `DirectoryExclusive`, `PhaseOrder`, `CompletedIsDone` are invariant, `OutcomesKept` holds of every step |
| `FormInvariance` | `PendingFormsProofs` | `Spec => []FormInv` |
| `PointersAreShown`, `NoFormLostSilently` | `PendingFormsProofs` | `PointerShown`, `NoSilentLoss` are invariant |
| `WatchInvariance` | `AgentWatchProofs` | `Spec => []WatchInv` |
| `WatchTypes`, `DispatchesTraced`, `ConfirmedEnded`, `SeenReported`, `RepeatsLate` | `AgentWatchProofs` | `TypeOK`, `DispatchIsTraced`, `ConfirmedHasEnded`, `SeenWasReported` are invariant, `RepeatsAreLate` holds of every step, the two with the exception of `undone` |
| `HistoryQuiet` | `AgentWatchProofs` | `Roomy => (Spec => HistoryNeverFires)`: as many items as `SNAPSHOT_CAP` has room for |

*Why an invariant.* None of the properties is inductive: `ListStatusSound` depends on
what a call in another actor saw when it decided. `Inv` says what a call may still
rely on of what it read:

* `SnapshotSound`: what a snapshot shows as over is over, with that result. Terminal
  statuses are never left, so a stale snapshot is wrong only about tasks that still
  go on; hence `AdvanceComplete` from an old snapshot writes the truth.
* `BeginSound`: everything before a task somebody is about to begin is over, however
  long ago that was found out. With the status check of the claim this gives
  `OrderKept`.
* `TicketSound`, `SentSound`, `CountersSound`: the dispatch token equals the attempts;
  a dispatch in preparation carries a token handed out and below the maximum; a
  task of which something was sent is not Pending. A reclaim moves the token, so
  its ticket is new: `OneDispatchPerToken`.
* `OnItsTask`: a call on a task is on one of the tasklist.

`Unclaimed` adds what the refinement needs: a task nobody has begun has no
message, run or signal, so nothing but `dispatch_one` can fail it out of turn.

The proof has one lemma per action, over shared lemmas for a step that changes one
call only (`QuietContinue`, `QuietReturn`), ends a task (`EndsTask`) or sends
(`SendSound`). The refinement reuses `Inv` and shows for each action which abstract
step it is.

*The lease.* `ExclusiveLease` follows if whoever was told that it holds the lease finds
it in the file (`HolderSound`): two files cannot be one. That is inductive only with
what a process may rely on between its read and its write. One that is about to write
found an expired lease, which nobody renews (the owner would be late) and nobody else
overwrites (`LockSound`: the lock file is its own, and young); one on the fast path, or
about to remove the file, still owns it. `ClockSound` carries the times: a tick in
progress is within its lease time, and a lock found too old stays so, so that breaking
it takes it from nobody alive. `Tick` is the one step that uses `Timely`.

*The queue.* `ThreadExclusive` speaks of runs that live, but the pump looks at what is
booked: `interactiveRuns`, `threadLocks`, `registry`. `Held` says that everything alive is
booked until its report or its guard gives it back, and `Waiting` with `Booking` that what
the pump starts is in one place and not booked yet; so a thread found free at the search is
free. `Room` carries the room the search found over to the booking, whatever runs other
parts of the engine have booked since; what they book is not of the queue's `Own` runs. A
row is written from a copy of the file that may be old, so `RowTruth` is inductive only
about every copy (`Copies`): the disk, what the actor has read, what each watcher has
read. `Reported` and `Closing` say that what is being written is how the run ended.

*The forms.* A pointer is hidden by an update that was decided long before. `Shown` says it of
a call from its patch on, not only while it waits, and is inductive with what the updates
under way may be about: `OwnPurpose` (only the call itself clears its form, only the sweep
marks), `SweepSound` (the form it is about to mark has no sender, and no form is asked
twice, so it gets none), for which every copy of the slot, in memory, in either file or
held by a writer, shows a form that was begun (`SlotsKnown`). `NoSilentLoss` needs `Held`
(what a patch took is kept until the trace) and `Recorded` (a request removes only what it
has recorded). Every step but the patch leaves the memory alone: one lemma (`FitsInv`) says
what such a step of one actor must keep, and each step is shown to fit.

*The workflows.* Who sends a task on is decided by no variable: a task is in a queue, in the
channel, in the hands of the manager, of an execution or of the user, and `plan[q]` is what
each has still to do. `WorkflowTypeOK` names every plan there can be, so that a step of a
process is one of finitely many forms; all else is said of places and heads of plans.

* `Owned`: of all these places one at a time holds a task (`Exclusive`), no queue holds it
  twice (`Once`), a script's task is in `running_tasks` and alone in its directory
  (`Booked`). Each action moves a task from one place to another (`HandOn`); a reopened or
  started task must be at no place before, for which `Untouched` says who touches a Pending
  one, and `Waits` that nobody works on a paused one. `OneExecution` and `DirectoryExclusive`
  follow.
* `FreshRead`: what a process has read is what is in the file, for only who holds the task
  writes it. Without late tokens that is everybody but the user (`WorkerHolds`).
* `OutcomesAwaited`: nobody is at work on a phase that has its outcome, so no write of a
  status undoes one; with `FreshRead` this is `OutcomesKept`.
* `Chained`: the phases before the one a task is at have their outcome and those after it
  are absent (`Current`), the file is without open ends at every place that looks for the
  next phase (`Settled`), and every copy that was read is as sound as the file. `PhaseOrder`
  and `CompletedIsDone` follow.

Each part holds under its own mishaps, and under fewer of them the later ones: a crash leaves
a phase Running that nobody executes (section 5), so `Chained` is without crashes, while
`Owned` is with any number. `Traces` says that what did not happen has left nothing behind.

*The watch.* What was dispatched is told from the ledger alone, so `WatchInv` relates each row of
a run to the entries of its findings.

* `LedgerAgrees`: a poll may hold its copy of the scratchpad for minutes, and an edit may write a
  copy of its own meanwhile. The poll's ledger has the entries that the disk's has, but for those
  of the findings in `undone` (an edit's copy, which may be older still, has to agree with nothing).
* `LedgerSound`: whoever holds a ledger (the disk, the poll, the edit), an entry in it that names
  a run names one about its finding, and a Confirmed entry has a run that ended, so an old copy
  is never wrong about what it does say: `ConfirmedHasEnded`.
* `RunsTraced`: as long as at most `Threshold` polls have seen a run, and no finding of it is in
  `undone` (`Kept`), each of its findings has an
  entry. One of a run that has not ended is Pending, and has counted no more polls than the run
  has seen (`Awaits`), hence a pass that gives it up is late; all of them are of the same run or
  of none, so they are attached together. One of a run that ended is Confirmed or about to be
  (`Remembered`). `DispatchIsTraced` follows.
* `BatchSound`: what is about to be dispatched is recorded in the poll's copy, with no poll
  counted, and no recent run that no edit has undone is about it: `RepeatsAreLate`.
* `SeenSound` says of the contents in memory, in the poll's copy and in the edit's, what `SeenWasReported` says of those on disk,
  and `HistoryKnown` that the snapshots know what matched at the baseline, under `Roomy`: beyond
  the cap items evict each other and `HistoryNeverFires` is false (a hazard listed in section 6).

A poll walks over the ledger and over the candidates. What a walk does is stated of each of its
steps (`ReconcileAt`, `Diff`), and carried to its end by induction on the index, for this one
invariant, from the well-foundedness of the naturals (`Least`, `Induction`). The walk over the
ledger keeps what was true of the entries behind it and of those before it; the walk over the
candidates only adds findings that the ledger does not have.

The proof attempt found the limit of `RepeatsAreLate`, and `forgot` states it. When a pass gives
up one finding, the indices after it name the neighbours, and one that reaches a Confirmed entry
removes it like a Pending one. Its finding can then be dispatched again, after an edit and a new
baseline that brings the same edge counter back, although its run ended long ago. (The other
exception, `undone`, is that of the edit: section 5.) With the code's
threshold of three this is reached by nine findings and three passes; in the instances
of the runs, with a threshold of one, `forgot` stays false, so there the exception is never used.

*Only model-checked*: `Settles`, `QueueDrains`, `TaskSettles`, `PendingResolves`,
`DeadFormsLeave`: liveness under fairness, which rests on ENABLED. `RowsFinal`: it needs that runs
of one assignment do not overlap (`QueueRows` shows what happens else). What a recursive
definition computes for every input is not proved anywhere: the library's induction theorems take
an operator as a parameter, which none of the provers can instantiate. Where a proof needs an
induction it is one for a fixed property (`Least` in `WorkflowQueuePlans` and `AgentWatchProofs`).

## 5. Findings

Three comments of the source say what the code does not do. Each is a run with `expect`
violation; `PROJECT.json` quotes the lines.

* `ClaimGhost`: a task failed because its executor is gone is reported to nobody; the
  tasklist stays Active for ever.
* `WorkflowCrash`: a phase that was running at a crash is not retried: it is passed over, the
  later phases run, the task is Completed.
* `WatchTick`: when two findings are given up on one poll the pass over the ledger runs off
  its end; the panic ends the loop that polls every assignment. Short of its end the same moved indices
  make it count, or remove, a neighbour of the entry it means (section 4, *The watch*).

Further configurations, each of which TLC refutes, show where the limits of the
properties come from. `tlc -config QueueRows.cfg MCAgentQueue` runs one.

| Configuration, module | Property | Counterexample |
|---|---|---|
| `ClaimHalt`, `MCTaskFeeder` | `HaltOnFailure` | between the write of a task's failure and of the tasklist's, a sibling's completion dispatches the next group |
| `ClaimCharge`, `MCTaskFeeder` | `OwnTaskCharged` | the late end of one run uses up an attempt of the agent's next task |
| `ClaimSlot`, `MCTaskFeeder` | `SiblingsGetTheirTurn` | a recovery that publishes its slot after the task ended blocks the agent's other tasks |
| `ClaimRestart`, `MCTaskFeeder` | `RestartRecovers` | a restart between those same two writes leaves a tasklist nothing recovers |
| `LeaseFirst`, `MCChannelLease` | `OneWinner` | of two processes that race for a binding nobody has claimed yet both are told that they hold it: the file is empty until the winner writes it, and empty reads as unclaimed |
| `QueueThread`, `MCAgentQueue` | `NoSharedThread` | a recurring schedule starts next to a turn of the user in the same thread |
| `QueueRows`, `MCAgentQueue` | `RowNotStranded` | two updates of one assignment's rows overlap and the row of a dead run is Running again, for good |
| `WorkflowGate`, `MCWorkflowQueue` | `ReviewedGoesOn` | a phase with `auto_advance: false` is paused, approved, paused again (`create-workflow.md:49`: "false pauses for review") |
| `FormHalf`, `MCPendingForms` | `NoHalfState` | a call dropped before its guard exists, or while the clean-up after its answer has begun, leaves its pointer with nobody to remove it (`ask_user_question_form/mod.rs:236`: "No half-state is reachable") |
| `FormAck`, `MCPendingForms` | `AckIsHeard` | the sender of a call that was dropped stays in the map until the bridge goes: the answer is acknowledged with 200 and nobody hears it (`form_answers.rs:57`) |
| `FormTurn`, `MCPendingForms` | `AnswerIsTurn` | two saves overlap, the second rename finds no file: the answer is in the transcript, the form is gone, no turn is queued (`form_answers.rs:106`; a test, `messages.rs:583`, knows the error) |
| `FormDurable`, `MCPendingForms` | `AsyncSurvives` | an older clone is renamed last, so a posted form that is shown is not in the file: a restart loses it (`sync_form_reaper.rs:16`: "a restart genuinely loses nothing for them") |
| `WatchEdit`, `MCAgentWatch` | `TraceIsDurable` | an edit reads the scratchpad, a poll writes its Pending entry and queues the run, the edit writes the scratchpad back: the run is in the queue and the ledger has nothing of it, for good when the process dies before the poll's second write, or when that write falls before the edit's too (`agent_watch.rs:4893`: a crash "still leaves a durable trace rather than silently discarding the finding") |
| `WatchEdit` with the other property it names | `RepeatsAreLateAlways` | an edit puts back a ledger without the entry of a run still in the queue; the next contract begins the edge counter again, and the same finding is dispatched a second time (`assignment_scratchpad.rs:902`: "an action already taken must stay deduped even if the contract that triggered it is gone") |
| `WorkflowTool`, `MCWorkflowQueue` | `StartedExecutes` | the tool that starts a task answers that it will be executed and tells the manager nothing |

## 6. Plan

1. `TaskFeeder` (done): dispatcher, runs, queue manager, watchdog, restart; invariant, refinement, liveness.
2. `ChannelLease` (done): processes, clock, expiry, takeover lock; exclusion proved.
3. `AgentQueue` with the instance registry (done): caps, threads, rows; safety proved.
4. `WorkflowQueue` (done): manager, phases, requests, crash; safety proved.
5. `AgentWatch` (done): poll, ledger, dispatch, edits in steps, crash; safety proved.
6. `PendingForms` (done): calls, posted forms, saves, restart, sweep; safety proved.
7. *Operator transitions*: pause, continue, skip, discard, replay, resume and start of `lifecycle.rs`, `force_complete_and_advance`, `kick_and_reconcile`, the service's stop, resume and add. `continue` and `skip` leave Failed, so `Inv` needs snapshots that err on Failed tasks as well. `continue` leaves the dispatch token, so a recovery that started before it must lose; nothing may be begun while Paused except in the window of the claim; a discarded tasklist stays over.
8. *Agent routing*: classification by compare-and-set on `classifier_token`, its reconciler, the cascade after a deletion. A stale verdict never overwrites the user's choice; every task in need of an executor gets one.
9. *Tasklist queue manager with bounds*: channels of finite capacity, `in_flight`, Cancel against completion.
10. *Background agents and permission prompts*: an answer, a timeout and a cancel resolve a prompt once; a completion is delivered once.
11. *Schedules*: cron ticks and catch-up after downtime; `LeaseGate` and the outbound observers of a channel.

The theorems worth proving next: the invariant of 7; `RowsFinal` for assignments whose runs do
not overlap; `RepeatsAreLate` without its exception for a threshold of one; and, as `TasklistLifecycle` is one for the tasklist, an
abstract specification of what the workflow queue promises of one task, implemented step by step.

**Hazards no property covers yet.**

* *Tasklist, for 7 and 8* (under `ao-engine/src` unless said otherwise): a pause between the live
  re-check of a batch and the claim (`task_feeder/dispatch.rs:177`); `continue` resets the
  attempts and keeps the token (`lifecycle.rs:74`); `discard` leaves runs that a recovery
  dispatches again (`lifecycle.rs:265`); `force_complete_and_advance` decides from an unlocked
  read (`terminal.rs:502`); `add_tasks` against a completion from an older snapshot
  (`tasklist_service/mod.rs:265`); the unconditional failure of a ghost (`dispatch.rs:416`); the
  check for zombies by `owner_agent_id` (`tasklist_service/mod.rs:1948`); `create_for_agent`
  under two locks (`tasklist_store.rs:842`); a verdict against the user's edit
  (`agent_routing.rs:272`).
* *Tasklist, in the model but promised nowhere*: a reprompt to an empty `owner_agent_id`
  (`terminal.rs:789`), `run_observed` that outlives a reprompt (`watchdog.rs:56`), the end of
  a tasklist announced twice (`dispatch.rs:68`), tasks left InProgress in a failed tasklist
  (`terminal.rs:667`), a run continued twice (`agent_runner/cli.rs:3148`).
* *Tasklist queue manager, for 9*: the channel it fills and drains itself
  (`tasklist_queue_manager.rs:597`), a second run that hides the first from Cancel (`:614`).
* *Forms*: an answer acknowledged and heard by nobody (`form_answers.rs:85`), two submissions
  of one posted form that queue two turns (`form_answers.rs:130`), an older clone renamed last, so
  that a resolved form returns after a restart (`snapshot.rs:188`).
* *Agent queue*: two managers of one agent (`queue_manager.rs:149`), rows of a queue lost
  in a restart (`assignment_runner.rs:195`), a recurring schedule that shares its thread (`:588`).
* *Workflow*: tokens written after the next phase began (`cli.rs:2885`), a form submitted
  twice (`ao-server/src/routes/workflows.rs:738`), a reopened phase before a failed one
  (`workflow_runner.rs:1381`), a stop, reopening and start while the script runs on
  (`:1344`), `task.yaml` written in place (`workflow_store.rs:121`).
* *Watch*: more items than `SNAPSHOT_CAP` evict each other for ever
  (`assignment_scratchpad.rs:853`), `edge_counter` starting again (`agent_watch.rs:4596`), a
  contract bound to an instruction edited since (`:4347`), a broken plan that swallows a
  transition (`:2155`), the clearing of a contract undone by a poll's or another edit's write of the
  row (`ao-server/src/routes/assignments.rs:842`).

## 7. Not modelled

Everything with status `not_modelled` in `PROJECT.json`: the modules of the plan that are
left; network protocols of third parties and model providers; tools of the agents, which
call a store or the operating system; parsers, prompts, search and memory heuristics, which
are data without coordination; the process supervisor; the HTTP routes and the user
interface, beyond the transitions they trigger. Of the modelled components: creation,
editing and deletion of workflows and assignments, attachments, events, and failures of
writes to disk. The map covers a small share of the repository's lines for this reason: most
of them are parsing, wire formats, prompts, tests of these, and I/O.
