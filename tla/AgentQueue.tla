----------------------------- MODULE AgentQueue -----------------------------
(***************************************************************************)
(* The queue manager of one agent (ao-engine/src/queue_manager.rs) with the *)
(* instance registry that caps its runs (instance_registry.rs), the rows of *)
(* the assignments it executes (ao-persistence assignment_run_store.rs) and *)
(* the callers that submit messages (assignment_runner.rs for assignments). *)
(*                                                                          *)
(* The manager is one actor: it receives messages and ends of runs, keeps a *)
(* queue, and starts runs while the registry has room, at most one per      *)
(* conversation thread.  Every run is a task of its own; a watcher outside  *)
(* the actor cleans up after a run that dies without reporting.             *)
(*                                                                          *)
(* A message is started at most once, so a run is named by its message.     *)
(***************************************************************************)
EXTENDS Naturals, FiniteSets, SequencesExt

CONSTANTS
    Message,          \* the messages submitted to the agent, each once
    Thread,           \* conversation threads (the default one included)
    Assignment,       \* assignments, one file of run rows each
    ThreadOf,         \* the thread of a message
    KindOf,           \* where a message comes from
    AssignmentOf,     \* the assignment of an "assignment" message
    Serialize,        \* the profile's serialize flag
    MaxInstances,     \* the profile's max_instances
    Fallible,         \* the messages whose run may die without RunComplete
    Other,            \* runs of the agent that other parts of the engine book
    ChannelCapacity   \* bound of the message channel (128 in the code)

Kind == {"interactive", "oneshot", "recurring", "assignment"}
RowStatus == {"none", "Queued", "Running", "Succeeded", "Failed"}

(***************************************************************************)
(* new        not submitted; an assignment fires by writing its row first  *)
(* fired      row written, not in the channel yet                          *)
(* sent       in the channel       queued    in the manager's queue        *)
(* booking    popped; its slot and its locks are being booked              *)
(* running    the runner owns it                                           *)
(* ok, bad    the run ended; reported says whether RunComplete was sent    *)
(* dead       the runner returned Err or panicked, no RunComplete          *)
(* failing    the watcher of a dead run is writing its row                 *)
(* buried     the watcher of a dead run is done                            *)
(***************************************************************************)
Stage == {"new", "fired", "sent", "queued", "booking", "running", "ok", "bad",
          "dead", "failing", "buried"}

ASSUME QueueAssumptions ==
    /\ IsFiniteSet(Message) /\ Message # {}
    /\ IsFiniteSet(Other)
    /\ Message \cap Other = {}
    /\ ThreadOf \in [Message -> Thread]
    /\ KindOf \in [Message -> Kind]
    /\ AssignmentOf \in [Message -> Assignment]
    /\ Serialize \in BOOLEAN
    /\ MaxInstances \in Nat
    /\ Fallible \subseteq Message
    /\ ChannelCapacity \in Nat \ {0}

VARIABLES
    chan,             \* message_rx: the channel into the actor
    queue,            \* the actor's queue
    pc,               \* what the actor is doing
    current,          \* the message it is doing it for
    seen,             \* the rows it read for the update under way
    stage,            \* the life of each message
    reported,         \* the runs that sent RunComplete
    registry,         \* InstanceRegistry.runs of the agent
    hasTasklist,      \* the agent is in active_tasklist_agents
    interactiveRuns,  \* the keys of interactive_runs
    threadLocks,      \* the keys of autonomous_thread_locks
    inFlight,         \* the keys of assignment_runs_in_flight
    complete,         \* run_complete_rx, of capacity one
    rows,             \* the status of each assignment run on disk
    watched           \* the rows each watcher read for the update under way

vars == <<chan, queue, pc, current, seen, stage, reported, registry, hasTasklist,
          interactiveRuns, threadLocks, inFlight, complete, rows, watched>>

locks == <<interactiveRuns, threadLocks>>
reports == <<complete, reported>>
actor == <<pc, current, seen>>
disk == <<rows, watched>>
env == <<registry, hasTasklist>>

IsAssigned(m) == KindOf[m] = "assignment"
IsInteractive(m) == KindOf[m] = "interactive"
IsRecurring(m) == KindOf[m] = "recurring"

NoRows == [m \in Message |-> "none"]

Init ==
    /\ chan = <<>> /\ queue = <<>>
    /\ pc = "idle" /\ current = (CHOOSE m \in Message : TRUE) /\ seen = NoRows
    /\ stage = [m \in Message |-> "new"]
    /\ reported = {}
    /\ registry = {} /\ hasTasklist \in BOOLEAN
    /\ interactiveRuns = {} /\ threadLocks = {} /\ inFlight = {}
    /\ complete = <<>>
    /\ rows = NoRows /\ watched = [m \in Message |-> NoRows]

-----------------------------------------------------------------------------
(* The rows of the assignments.  An update reads the file of the           *)
(* assignment, replaces one row and renames the new file over the old one: *)
(* the rows of the other runs of that assignment go back to what was read. *)

SameFile(m, n) == IsAssigned(n) /\ AssignmentOf[n] = AssignmentOf[m]

File(m) == [n \in Message |-> IF SameFile(m, n) THEN rows[n] ELSE "none"]

Updated(m, read, status) ==
    [n \in Message |-> IF n = m THEN status
                       ELSE IF SameFile(m, n) THEN read[n] ELSE rows[n]]

-----------------------------------------------------------------------------
(* Callers.                                                                *)

\* fire_assignment appends the row, then submits.
Fire(m) ==
    /\ stage[m] = "new" /\ IsAssigned(m)
    /\ rows' = [rows EXCEPT ![m] = "Queued"]
    /\ stage' = [stage EXCEPT ![m] = "fired"]
    /\ UNCHANGED <<chan, queue, actor, env, locks, inFlight, reports, watched>>

\* submit_message waits for room in the channel.
Submit(m) ==
    /\ stage[m] = IF IsAssigned(m) THEN "fired" ELSE "new"
    /\ Len(chan) < ChannelCapacity
    /\ chan' = Append(chan, m)
    /\ stage' = [stage EXCEPT ![m] = "sent"]
    /\ UNCHANGED <<queue, actor, env, locks, inFlight, reports, disk>>

-----------------------------------------------------------------------------
(* The pump.                                                               *)

EffectiveCap ==
    IF hasTasklist /\ MaxInstances < 2 THEN 2 ELSE MaxInstances

\* Mutant: compares with <=.
CanSpawnOneMore == Cardinality(registry) <= EffectiveCap

CanSpawn == Cardinality(registry) < EffectiveCap

Holds(runs, m) == \E n \in runs : ThreadOf[n] = ThreadOf[m]

\* Mutant: does not ask the locks of the autonomous runs.
FreeButForLocks(m) ==
    /\ ~IsRecurring(m)
    /\ ~(Serialize /\ IsInteractive(m) /\ Holds(interactiveRuns, m))
    /\ ~(~IsInteractive(m) /\ Holds(interactiveRuns, m))

\* The first search of the pump: what is not a recurring schedule and whose
\* thread nobody holds.
Free(m) ==
    /\ ~IsRecurring(m)
    /\ ~(Serialize /\ IsInteractive(m) /\ Holds(interactiveRuns, m))
    /\ ~Holds(threadLocks, m)
    /\ ~(~IsInteractive(m) /\ Holds(interactiveRuns, m))

FreeAt == {i \in DOMAIN queue : Free(queue[i])}
RecurringAt == {i \in DOMAIN queue : IsRecurring(queue[i])}

\* The second search, when the first finds nothing, asks for no lock.
Candidates == IF FreeAt # {} THEN FreeAt ELSE RecurringAt

CanDispatch == CanSpawn /\ Candidates # {}

\* Mutant: pops any candidate.
DispatchAny ==
    /\ pc = "pump" /\ CanDispatch
    /\ \E i \in Candidates :
          /\ queue' = RemoveAt(queue, i)
          /\ current' = queue[i]
          /\ stage' = [stage EXCEPT ![queue[i]] = "booking"]
    /\ pc' = "book"
    /\ UNCHANGED <<chan, seen, env, locks, inFlight, reports, disk>>

\* Pops the first candidate.
Dispatch ==
    /\ pc = "pump" /\ CanDispatch
    /\ \E i \in Candidates :
          /\ \A j \in Candidates : i <= j
          /\ queue' = RemoveAt(queue, i)
          /\ current' = queue[i]
          /\ stage' = [stage EXCEPT ![queue[i]] = "booking"]
    /\ pc' = "book"
    /\ UNCHANGED <<chan, seen, env, locks, inFlight, reports, disk>>

PumpEnds ==
    /\ pc = "pump" /\ ~CanDispatch
    /\ pc' = "idle"
    /\ UNCHANGED <<chan, queue, current, seen, stage, env, locks, inFlight,
                   reports, disk>>

\* Mutant: books the lease of an interactive run only.
BookLeaseOnly ==
    /\ pc = "book"
    /\ registry' = registry \cup {current}
    /\ interactiveRuns' = IF IsInteractive(current)
                            THEN interactiveRuns \cup {current} ELSE interactiveRuns
    /\ IF IsAssigned(current)
         THEN inFlight' = inFlight \cup {current} /\ pc' = "mark"
         ELSE pc' = "spawn" /\ UNCHANGED inFlight
    /\ UNCHANGED <<chan, queue, current, seen, stage, hasTasklist, threadLocks,
                   reports, disk>>

\* Mutant: the run is spawned before its row is marked.
BookSpawnsFirst ==
    /\ pc = "book"
    /\ registry' = registry \cup {current}
    /\ IF IsInteractive(current)
         THEN /\ interactiveRuns' = interactiveRuns \cup {current}
              /\ UNCHANGED threadLocks
         ELSE /\ threadLocks' = threadLocks \cup {current}
              /\ UNCHANGED interactiveRuns
    /\ stage' = [stage EXCEPT ![current] = "running"]
    /\ IF IsAssigned(current)
         THEN inFlight' = inFlight \cup {current} /\ pc' = "mark"
         ELSE pc' = "spawn" /\ UNCHANGED inFlight
    /\ UNCHANGED <<chan, queue, current, seen, hasTasklist, reports, disk>>

\* The slot, the lease or lock and the tracker entry are booked before the
\* run exists.
Book ==
    /\ pc = "book"
    /\ registry' = registry \cup {current}
    /\ IF IsInteractive(current)
         THEN /\ interactiveRuns' = interactiveRuns \cup {current}
              /\ UNCHANGED threadLocks
         ELSE /\ threadLocks' = threadLocks \cup {current}
              /\ UNCHANGED interactiveRuns
    /\ IF IsAssigned(current)
         THEN inFlight' = inFlight \cup {current} /\ pc' = "mark"
         ELSE pc' = "spawn" /\ UNCHANGED inFlight
    /\ UNCHANGED <<chan, queue, current, seen, stage, hasTasklist, reports, disk>>

\* mark_assignment_run_running, read and write.  A row that is not there is
\* logged and left alone.
MarkRead ==
    /\ pc = "mark"
    /\ seen' = File(current)
    /\ pc' = IF rows[current] = "none" THEN "spawn" ELSE "marking"
    /\ UNCHANGED <<chan, queue, current, stage, env, locks, inFlight, reports, disk>>

MarkWrite ==
    /\ pc = "marking"
    /\ rows' = Updated(current, seen, "Running")
    /\ pc' = "spawn"
    /\ UNCHANGED <<chan, queue, current, seen, stage, env, locks, inFlight,
                   reports, watched>>

Spawn ==
    /\ pc = "spawn"
    /\ stage' = [stage EXCEPT ![current] = "running"]
    /\ pc' = "pump"
    /\ UNCHANGED <<chan, queue, current, seen, env, locks, inFlight, reports, disk>>

-----------------------------------------------------------------------------
(* The three branches of the actor's select.                               *)

Receive ==
    /\ pc = "idle" /\ chan # <<>>
    /\ queue' = Append(queue, Head(chan))
    /\ chan' = Tail(chan)
    /\ stage' = [stage EXCEPT ![Head(chan)] = "queued"]
    /\ pc' = "pump"
    /\ UNCHANGED <<current, seen, env, locks, inFlight, reports, disk>>

\* Mutant: infers success from the report alone.
RunCompletedAnyEnd ==
    /\ pc = "idle" /\ complete # <<>>
    /\ LET m == Head(complete).run
       IN  /\ interactiveRuns' = interactiveRuns \ {m}
           /\ threadLocks' = threadLocks \ {m}
           /\ inFlight' = inFlight \ {m}
           /\ current' = m
           /\ pc' = IF m \in inFlight THEN "succeed" ELSE "pump"
    /\ complete' = Tail(complete)
    /\ UNCHANGED <<chan, queue, seen, stage, reported, env, disk>>

\* Mutant: keeps the interactive lease.
RunCompletedKeepsLease ==
    /\ pc = "idle" /\ complete # <<>>
    /\ LET m == Head(complete).run
       IN  /\ threadLocks' = threadLocks \ {m}
           /\ inFlight' = inFlight \ {m}
           /\ current' = m
           /\ pc' = IF m \in inFlight
                      THEN IF Head(complete).ok THEN "succeed" ELSE "fail"
                      ELSE "pump"
    /\ complete' = Tail(complete)
    /\ UNCHANGED <<chan, queue, seen, stage, reported, env, disk, interactiveRuns>>

\* A run ended: its locks go, and its row if the tracker still has it.
RunCompleted ==
    /\ pc = "idle" /\ complete # <<>>
    /\ LET m == Head(complete).run
       IN  /\ interactiveRuns' = interactiveRuns \ {m}
           /\ threadLocks' = threadLocks \ {m}
           /\ inFlight' = inFlight \ {m}
           /\ current' = m
           /\ pc' = IF m \in inFlight
                      THEN IF Head(complete).ok THEN "succeed" ELSE "fail"
                      ELSE "pump"
    /\ complete' = Tail(complete)
    /\ UNCHANGED <<chan, queue, seen, stage, reported, env, disk>>

\* mark_assignment_run_succeeded and mark_assignment_run_failed.
FinishRead ==
    /\ pc \in {"succeed", "fail"}
    /\ seen' = File(current)
    /\ pc' = IF rows[current] = "none" THEN "pump"
             ELSE IF pc = "succeed" THEN "succeeding" ELSE "failing"
    /\ UNCHANGED <<chan, queue, current, stage, env, locks, inFlight, reports, disk>>

FinishWrite ==
    /\ pc \in {"succeeding", "failing"}
    /\ rows' = Updated(current, seen, IF pc = "succeeding" THEN "Succeeded" ELSE "Failed")
    /\ pc' = "pump"
    /\ UNCHANGED <<chan, queue, current, seen, stage, env, locks, inFlight,
                   reports, watched>>

\* A tick that finds nothing to start changes nothing and is left out.
Heartbeat ==
    /\ pc = "idle" /\ CanDispatch
    /\ pc' = "pump"
    /\ UNCHANGED <<chan, queue, current, seen, stage, env, locks, inFlight,
                   reports, disk>>

-----------------------------------------------------------------------------
(* Runs.                                                                   *)

RunEnds(m) ==
    /\ stage[m] = "running"
    /\ \E how \in {"ok", "bad"} : stage' = [stage EXCEPT ![m] = how]
    /\ UNCHANGED <<chan, queue, actor, env, locks, inFlight, reports, disk>>

\* A runner that returns Err (a provider error of the native runner, a run
\* that cannot be set up) or panics reports nothing.
RunDies(m) ==
    /\ stage[m] = "running" /\ m \in Fallible
    /\ stage' = [stage EXCEPT ![m] = "dead"]
    /\ UNCHANGED <<chan, queue, actor, env, locks, inFlight, reports, disk>>

Report(m) ==
    /\ stage[m] \in {"ok", "bad"} /\ m \notin reported /\ complete = <<>>
    /\ complete' = <<[run |-> m, ok |-> stage[m] = "ok"]>>
    /\ reported' = reported \cup {m}
    /\ UNCHANGED <<chan, queue, actor, stage, env, locks, inFlight, disk>>

\* The guards unregister on a task of their own: before the report (CLI) or
\* after it (native), and also when the runner dies.
Unregister(m) ==
    /\ m \in registry
    /\ stage[m] \in {"ok", "bad", "dead", "failing", "buried"}
    /\ registry' = registry \ {m}
    /\ UNCHANGED <<chan, queue, actor, stage, hasTasklist, locks, inFlight,
                   reports, disk>>

\* The watcher of a dead run takes the tracker entry and fails the row.
WatchDead(m) ==
    /\ stage[m] = "dead"
    /\ inFlight' = inFlight \ {m}
    /\ watched' = [watched EXCEPT ![m] = File(m)]
    /\ stage' = [stage EXCEPT ![m] =
                    IF m \in inFlight /\ rows[m] # "none" THEN "failing" ELSE "buried"]
    /\ UNCHANGED <<chan, queue, actor, env, locks, reports, rows>>

FailRow(m) ==
    /\ stage[m] = "failing"
    /\ rows' = Updated(m, watched[m], "Failed")
    /\ stage' = [stage EXCEPT ![m] = "buried"]
    /\ UNCHANGED <<chan, queue, actor, env, locks, inFlight, reports, watched>>

-----------------------------------------------------------------------------
(* The rest of the engine: runs of the agent that do not come from this     *)
(* queue (tasklists, delegations), which ask for no room, and the agent's   *)
(* own tasklist, which raises the cap to two while it is open.              *)

OtherBegins(o) ==
    /\ o \notin registry
    /\ registry' = registry \cup {o}
    /\ UNCHANGED <<chan, queue, actor, stage, hasTasklist, locks, inFlight,
                   reports, disk>>

OtherEnds(o) ==
    /\ o \in registry
    /\ registry' = registry \ {o}
    /\ UNCHANGED <<chan, queue, actor, stage, hasTasklist, locks, inFlight,
                   reports, disk>>

TasklistOpensOrCloses ==
    /\ hasTasklist' = ~hasTasklist
    /\ UNCHANGED <<chan, queue, actor, stage, registry, locks, inFlight,
                   reports, disk>>

-----------------------------------------------------------------------------
Manager ==
    \/ Receive \/ RunCompleted \/ Heartbeat
    \/ Dispatch \/ PumpEnds \/ Book \/ MarkRead \/ MarkWrite \/ Spawn
    \/ FinishRead \/ FinishWrite

Caller(m) == Fire(m) \/ Submit(m)
Run(m) == RunEnds(m) \/ RunDies(m) \/ Report(m) \/ Unregister(m)
Watcher(m) == WatchDead(m) \/ FailRow(m)
Engine == TasklistOpensOrCloses \/ \E o \in Other : OtherBegins(o) \/ OtherEnds(o)

Next == Manager \/ Engine \/ \E m \in Message : Caller(m) \/ Run(m) \/ Watcher(m)

Spec == Init /\ [][Next]_vars

\* The tasks of the runtime go on: the actor between two awaits, callers that
\* wait for room, runs (bounded by the providers' timeouts and the user),
\* reports, guards and watchers.  The heartbeat ticks every five seconds.  The
\* select picks its branch at random, so none is passed over for ever.
Fairness ==
    /\ WF_vars(Dispatch \/ PumpEnds \/ Book \/ MarkRead \/ MarkWrite \/ Spawn)
    /\ WF_vars(FinishRead \/ FinishWrite)
    /\ SF_vars(Receive) /\ SF_vars(RunCompleted) /\ WF_vars(Heartbeat)
    /\ \A m \in Message :
          /\ WF_vars(Fire(m)) /\ SF_vars(Submit(m))
          /\ WF_vars(RunEnds(m)) /\ SF_vars(Report(m)) /\ WF_vars(Unregister(m))
          /\ WF_vars(WatchDead(m)) /\ WF_vars(FailRow(m))

FairSpec == Spec /\ Fairness

-----------------------------------------------------------------------------
Live == {m \in Message : stage[m] \in {"booking", "running"}}
Own == registry \cap Message
Started(m) == stage[m] \notin {"new", "fired", "sent", "queued"}
Terminal == {"Succeeded", "Failed"}

TypeOK ==
    /\ chan \in Seq(Message) /\ queue \in Seq(Message)
    /\ pc \in {"idle", "pump", "book", "mark", "marking", "spawn", "succeed",
               "fail", "succeeding", "failing"}
    /\ current \in Message
    /\ seen \in [Message -> RowStatus] /\ rows \in [Message -> RowStatus]
    /\ watched \in [Message -> [Message -> RowStatus]]
    /\ stage \in [Message -> Stage] /\ reported \subseteq Message
    /\ registry \subseteq Message \cup Other /\ hasTasklist \in BOOLEAN
    /\ interactiveRuns \subseteq Message /\ threadLocks \subseteq Message
    /\ inFlight \subseteq Message
    /\ complete \in Seq([run : Message, ok : BOOLEAN])

\* Two runs that are alive share a thread only if both are interactive and the
\* agent does not serialize, or one of them is a recurring schedule: the pump
\* starts nothing on a thread that a run holds, whatever the order of
\* messages, reports and heartbeats.
ThreadExclusive ==
    \A m, n \in Live :
        m # n /\ ThreadOf[m] = ThreadOf[n] =>
            \/ IsRecurring(m) \/ IsRecurring(n)
            \/ IsInteractive(m) /\ IsInteractive(n) /\ ~Serialize

\* The queue never has more runs booked than the cap, which a tasklist of the
\* agent raises to two: a burst of messages, an end of run and a heartbeat that
\* pump one after the other do not over-spawn; and what runs is counted.
CapKept ==
    /\ Cardinality(Own) <= IF MaxInstances < 2 THEN 2 ELSE MaxInstances
    /\ \A m \in Message : stage[m] = "running" => m \in registry

\* A row says Succeeded only of a run that reported its completion and Failed
\* only of one that ended otherwise or died, whatever updates of other rows
\* of the same file are interleaved with it.
RowTruth ==
    \A m \in Message :
        /\ rows[m] = "Succeeded" => stage[m] = "ok" /\ m \in reported
        /\ rows[m] = "Failed" => stage[m] \in {"bad", "buried"}

\* Messages of one thread and one class (interactive, or the others but the
\* recurring ones) are started in the order in which they were queued.
SameClass(m, n) ==
    /\ ThreadOf[m] = ThreadOf[n] /\ IsInteractive(m) = IsInteractive(n)
    /\ ~IsRecurring(m) /\ ~IsRecurring(n)

NoOvertaking ==
    [][\A i, j \in DOMAIN queue :
          i < j /\ SameClass(queue[i], queue[j]) /\ stage'[queue[j]] # "queued"
              => stage'[queue[i]] # "queued"]_vars

\* The row of a run that ended keeps its outcome (while the runs of one
\* assignment do not overlap).
RowsFinal ==
    [][\A m \in Message : rows[m] \in Terminal => rows'[m] = rows[m]]_vars

\* Once the other runs of the agent leave room, every message is started, unless
\* a run died holding its thread; and every assignment that was started gets a
\* row that says how it ended, also when its run died.
Blocked(m) ==
    \E n \in Fallible : ThreadOf[n] = ThreadOf[m] /\ stage[n] \in {"dead", "failing", "buried"}

QueueDrains ==
    <>[](registry \cap Other = {}) =>
        <>(\A m \in Message :
              \/ Started(m) /\ (IsAssigned(m) => rows[m] \in Terminal)
              \/ ~Started(m) /\ Blocked(m))

\* The comment on autonomous_thread_locks: nothing may write to a thread two
\* runs are contending for, whatever the source of the messages.  A recurring
\* schedule, which the second search takes without asking, breaks it.
NoSharedThread ==
    \A m, n \in Live :
        m # n /\ ThreadOf[m] = ThreadOf[n] => IsInteractive(m) /\ IsInteractive(n)

\* The comment on fire_assignment: when the runner returns Err or panics, the
\* watcher guarantees that the row does not stay Running.  An update of another
\* row of the same assignment that read the file before can write Running back.
RowNotStranded ==
    \A m \in Fallible : stage[m] = "buried" ~> rows[m] # "Running"
=============================================================================
