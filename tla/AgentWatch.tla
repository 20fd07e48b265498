------------------------------ MODULE AgentWatch ------------------------------
(***************************************************************************)
(* One agent-driven watch: the poll of agent_watch.rs that the schedule    *)
(* runner drives, its scratchpad on disk, and the runs it dispatches.      *)
(*                                                                         *)
(* A poll loads the scratchpad, asks the agent what is out there (minutes  *)
(* may pass), diffs the answer in memory, persists, dispatches, persists   *)
(* again.  Turns end, the assignment is edited and the process dies        *)
(* between any two of these; an edit loads and writes the scratchpad too,  *)
(* and nobody takes a lock.  The scratchpad holds the snapshots of the     *)
(* items (the state a transition is told from), the ledger of the actions  *)
(* (Pending before the dispatch, Confirmed once the run is known to have   *)
(* ended) and, for a watch without contract, the contents already seen.    *)
(***************************************************************************)
EXTENDS Naturals, Sequences, FiniteSets, SequencesExt

CONSTANTS
    Order,          \* the items, in the order the agent reports them
    Mode,           \* WatchMode of the contract
    SnapshotCap,    \* SNAPSHOT_CAP
    Threshold,      \* PENDING_DELIVERY_RETRY_POLL_THRESHOLD
    Ceiling,        \* AUTHORING_FAILURE_CEILING
    Start,          \* states the items may be in when the watch is created
    Malformed,      \* items whose observation may lack a required field
    FallsBack,      \* whether the extraction plan of the watch may break
    MaxChanges,     \* bound: changes of the items
    MaxEdits,       \* bound: edits of the assignment
    MaxRuns,        \* bound: runs dispatched
    MaxCrashes      \* bound: deaths of the process

Items == ToSet(Order)
Absent == "absent"
States == {Absent, "off", "on"}

ASSUME WatchAssumption ==
    /\ Order \in Seq(Items) /\ IsInjective(Order)
    /\ Mode \in {"predicate_transition", "new_or_changed", "new_only"}
    /\ SnapshotCap \in Nat \ {0} /\ Threshold \in Nat /\ Ceiling \in Nat \ {0}
    /\ Start \subseteq [Items -> States]
    /\ Malformed \subseteq Items /\ FallsBack \in BOOLEAN
    /\ {MaxChanges, MaxEdits, MaxRuns, MaxCrashes} \subseteq Nat

VARIABLES
    world,          \* state of every item: "on" satisfies the predicate
    instruction,    \* version of the instruction of the assignment
    contract,       \* instruction the bound contract was authored for, 0: none
    disk,           \* the persisted scratchpad, or NoPad
    edit,           \* the update of the assignment under way, or NoEdit
    runs,           \* rows of the assignment's runs, in order
    tick,           \* the poll under way, see Tick
    history,        \* items that match since the baseline was recorded
    baseline,       \* contents a seeding poll recorded as seen
    forgot,         \* whether a Confirmed entry went in place of its neighbour
    undone,         \* findings whose entry an edit has put back to what it was before
    changes, edits, crashes

vars == <<world, instruction, contract, disk, edit, runs, tick, history, baseline, forgot,
          undone, changes, edits, crashes>>
ghosts == <<history, baseline, forgot, undone>>
bounds == <<changes, edits, crashes>>

NoPad == [bound |-> 0]
FreshPad == [bound |-> 0, snapshots |-> <<>>, seen_deliveries |-> <<>>, seen_ids |-> {},
             streak |-> 0, authored |-> 0]
Exists(pad) == pad # NoPad

\* at: where the poll is; contract, instruction: as the runner listed the assignment;
\* pad: the scratchpad in memory; batch: what it is about to report.
Idle == [at |-> "idle"]
NoEdit == [at |-> "none"]
Tick(at, c, n, f, pad, batch) ==
    [at |-> at, contract |-> c, instruction |-> n, first |-> f, pad |-> pad, batch |-> batch]
At(where) == tick.at = where

Init ==
    /\ world \in Start
    /\ instruction = 1 /\ contract \in {0, 1}
    /\ disk = NoPad /\ edit = NoEdit /\ runs = <<>> /\ tick = Idle
    /\ history = {} /\ baseline = {} /\ forgot = FALSE /\ undone = {}
    /\ changes = 0 /\ edits = 0 /\ crashes = 0

Present == {i \in Items : world[i] # Absent}

-----------------------------------------------------------------------------
(* The ledger.                                                             *)

EntriesOf(pad, id) == {k \in DOMAIN pad.seen_deliveries : pad.seen_deliveries[k].id = id}
SeenDelivery(pad, id) == EntriesOf(pad, id) # {}

Entry(id) == [id |-> id, status |-> "Pending", run |-> 0, polls |-> 0]

\* record_pending_action, for every item of the batch in order; Diff lets no finding
\* through that the ledger has, so there is none to replace.
RecordPending(pad, ids) ==
    [pad EXCEPT !.seen_deliveries = @ \o [n \in DOMAIN ids |-> Entry(ids[n])]]

\* attach_dispatch_run: only a Pending entry takes the run.
AttachRun(pad, ids, r) ==
    [pad EXCEPT !.seen_deliveries =
        [k \in DOMAIN @ |-> IF @[k].id \in ToSet(ids) /\ @[k].status = "Pending"
                            THEN [@[k] EXCEPT !.run = r] ELSE @[k]]]

\* Mutant: an enqueued message counts as done.
EndedOrQueued(r) == r # 0
Ended(r) == r # 0 /\ runs[r].status = "ended"

\* An item has one snapshot at most.
SnapshotOf(snapshots, i) == {k \in DOMAIN snapshots : snapshots[k].item = i}
WithoutItem(snapshots, i) ==
    IF SnapshotOf(snapshots, i) = {} THEN snapshots
    ELSE RemoveAt(snapshots, CHOOSE k \in SnapshotOf(snapshots, i) : TRUE)

\* clear_pending_delivery of the entry at k, and the removal of its item's snapshot.  A
\* Confirmed entry does not know its item any more.
Clear(pad, k) ==
    LET e == pad.seen_deliveries[k]
    IN  [pad EXCEPT !.seen_deliveries = RemoveAt(@, k),
                    !.snapshots = IF e.status = "Confirmed" THEN @ ELSE WithoutItem(@, e.id[1])]

\* Mutant: one poll too few.
WaitsOneLess(e) == e.polls + 1 < Threshold
Waits(e) == e.polls + 1 <= Threshold

\* One index of the pass over the entries that were Pending when it began: the
\* indices are not adjusted when an entry is removed on the way.
ReconcileAt(st, k) ==
    IF st.panics \/ k > Len(st.pad.seen_deliveries) THEN [st EXCEPT !.panics = TRUE]
    ELSE LET e == st.pad.seen_deliveries[k]
         IN  IF Ended(e.run)
             THEN [st EXCEPT !.pad.seen_deliveries[k] =
                       [e EXCEPT !.status = "Confirmed", !.run = 0]]
             ELSE IF Waits(e)
             THEN [st EXCEPT !.pad.seen_deliveries[k].polls = @ + 1]
             ELSE [st EXCEPT !.pad = Clear(@, k), !.retried = @ \union {e.id[1]},
                             !.forgets = @ \/ e.status = "Confirmed"]

\* Mutant: an entry with a run is left alone.
PendingWithoutRun(pad) ==
    {k \in DOMAIN pad.seen_deliveries :
        pad.seen_deliveries[k].status = "Pending" /\ pad.seen_deliveries[k].run = 0}

PendingIndices(pad) ==
    {k \in DOMAIN pad.seen_deliveries : pad.seen_deliveries[k].status = "Pending"}

\* reconcile_pending_deliveries, up to each index.
ReconcileWalk(pad) ==
    LET walk[k \in 0 .. Len(pad.seen_deliveries)] ==
            IF k = 0 THEN [pad |-> pad, panics |-> FALSE, retried |-> {}, forgets |-> FALSE]
            ELSE IF k \in PendingIndices(pad) THEN ReconcileAt(walk[k - 1], k) ELSE walk[k - 1]
    IN  walk

Reconcile(pad) == ReconcileWalk(pad)[Len(pad.seen_deliveries)]

-----------------------------------------------------------------------------
(* The diff.                                                               *)

\* Mutant: the item's older snapshot stays, and nothing is dropped.
RecordSnapshotAppends(snapshots, s) == Append(snapshots, s)

\* record_snapshot: the newest last, the oldest dropped past the cap.
RecordSnapshot(snapshots, s) ==
    LET all == Append(WithoutItem(snapshots, s.item), s)
    IN  IF Len(all) > SnapshotCap THEN Tail(all) ELSE all

\* One candidate of the loop of run_contract_bound_tick.
Diff(seedOnly, suppress, st, i) ==
    LET new == SnapshotOf(st.pad.snapshots, i) = {}
        known == st.pad.snapshots[CHOOSE k \in SnapshotOf(st.pad.snapshots, i) : TRUE]
        matching == world[i] = "on"
        begins == matching /\ (new \/ ~known.matching)
        edge == IF seedOnly THEN 0
                ELSE (IF new THEN 0 ELSE known.edge) + (IF begins THEN 1 ELSE 0)
        id == <<i, world[i], edge>>
        fires == /\ ~suppress
                 /\ \/ Mode = "predicate_transition" /\ begins
                    \/ Mode = "new_or_changed" /\ (new \/ known.version # world[i])
                    \/ Mode = "new_only" /\ new
                 /\ ~SeenDelivery(st.pad, id)
    IN  [pad |-> [st.pad EXCEPT !.snapshots = RecordSnapshot(@,
                     [item |-> i, version |-> world[i], matching |-> matching, edge |-> edge])],
         batch |-> IF fires THEN Append(st.batch, id) ELSE st.batch]

\* The loop over the candidates, up to each of the items in the order of the report.
DiffWalk(pad, seedOnly, suppress, candidates) ==
    LET walk[k \in 0 .. Len(Order)] ==
            IF k = 0 THEN [pad |-> pad, batch |-> <<>>]
            ELSE IF Order[k] \in candidates THEN Diff(seedOnly, suppress, walk[k - 1], Order[k])
            ELSE walk[k - 1]
    IN  walk

DiffAll(pad, seedOnly, suppress, candidates) ==
    DiffWalk(pad, seedOnly, suppress, candidates)[Len(Order)]

-----------------------------------------------------------------------------
(* The poll.                                                               *)

\* Mutant: the ledger is dropped too.
OrphanedForgetsLedger(pad) ==
    [pad EXCEPT !.bound = 0, !.snapshots = <<>>, !.streak = 0, !.seen_deliveries = <<>>]

\* What the end of a contract drops of the scratchpad.
Orphaned(pad) == [pad EXCEPT !.bound = 0, !.snapshots = <<>>, !.streak = 0]

\* run_agent_watch_tick up to the observation.
StartPoll ==
    /\ At("idle")
    /\ LET pad == IF Exists(disk) THEN disk ELSE FreshPad
           orphan == contract = 0 /\ pad.bound # 0
       IN  /\ tick' = Tick("observing", contract, instruction, ~Exists(disk),
                           IF orphan THEN Orphaned(pad) ELSE pad, <<>>)
           /\ disk' = IF orphan THEN Orphaned(pad) ELSE disk
    /\ UNCHANGED <<world, instruction, contract, edit, runs, ghosts, bounds>>

\* An edited instruction thaws the authoring of a watch without contract.
Authoring(pad) ==
    [pad EXCEPT !.authored = tick.instruction,
                !.streak = IF pad.authored # tick.instruction /\ @ >= Ceiling THEN 0 ELSE @]

\* The agent did not answer: the call is booked, that is, the scratchpad is written.
ObservationFails ==
    /\ At("observing")
    /\ disk' = IF tick.contract = 0 THEN Authoring(tick.pad) ELSE tick.pad
    /\ tick' = Idle
    /\ UNCHANGED <<world, instruction, contract, edit, runs, ghosts, bounds>>

\* The polls a run has seen before the ledger knows that it ended.
Passed(pad) ==
    [r \in DOMAIN runs |->
        IF \/ runs[r].passes > Threshold
           \/ \E k \in DOMAIN pad.seen_deliveries :
                 pad.seen_deliveries[k].status = "Confirmed" /\ pad.seen_deliveries[k].id \in runs[r].ids
        THEN runs[r] ELSE [runs[r] EXCEPT !.passes = @ + 1]]

\* set_assignment_contract reads the row of the assignment and writes it back: the row
\* of an edit that is written in between is lost.
Binds(c) ==
    /\ contract' = c
    /\ edit' \in {edit} \union (IF edit.at \in {"keeping", "clearing"} THEN {NoEdit} ELSE {})

\* Mutant: only the first poll of all records a baseline.
ReseedsOnce(pad) == tick.first
Reseeds(pad) == tick.first \/ pad.bound # tick.contract

\* run_contract_bound_tick up to the dispatch: bad are the candidates it quarantines,
\* fallback says that the extraction plan broke, amend that candidates were
\* quarantined once too often and the contract goes.
BoundPoll(bad, fallback, amend) ==
    /\ At("observing") /\ tick.contract # 0
    /\ LET reconciled == Reconcile(tick.pad)
           reseed == Reseeds(reconciled.pad)
           pad == [reconciled.pad EXCEPT !.bound = tick.contract,
                                         !.snapshots = IF reseed THEN <<>> ELSE @]
           diff == DiffAll(pad, reseed, reseed \/ fallback, Present \ bad)
           amended == IF amend THEN Orphaned(diff.pad) ELSE diff.pad
           pending == RecordPending(amended, diff.batch)
           matching == {i \in Present \ bad : world[i] = "on"}
       IN  IF reconciled.panics
           THEN /\ tick' = [at |-> "panicked"]
                /\ UNCHANGED <<contract, disk, edit, runs, history, forgot>>
           ELSE /\ disk' = pending
                /\ tick' = IF diff.batch = <<>> THEN Idle
                           ELSE [tick EXCEPT !.at = "dispatching", !.pad = pending,
                                             !.batch = diff.batch]
                /\ IF amend THEN Binds(0) ELSE UNCHANGED <<contract, edit>>
                /\ runs' = Passed(reconciled.pad)
                /\ history' = IF reseed THEN matching
                              ELSE history \ (reconciled.retried \union ((Present \ bad) \ matching))
                /\ forgot' = (forgot \/ reconciled.forgets)
    /\ UNCHANGED <<world, instruction, baseline, undone, bounds>>

Run(ids, kind) == [ids |-> ids, kind |-> kind, status |-> "queued", passes |-> 0]

\* fire_assignment returned the run.
Dispatch ==
    /\ At("dispatching") /\ Len(runs) < MaxRuns
    /\ runs' = Append(runs, Run(ToSet(tick.batch), "bound"))
    /\ tick' = [tick EXCEPT !.at = "attaching"]
    /\ UNCHANGED <<world, instruction, contract, disk, edit, ghosts, bounds>>

DispatchFails ==
    /\ At("dispatching")
    /\ disk' = tick.pad /\ tick' = Idle
    /\ UNCHANGED <<world, instruction, contract, edit, runs, ghosts, bounds>>

Attach ==
    /\ At("attaching")
    /\ disk' = AttachRun(tick.pad, tick.batch, Len(runs)) /\ tick' = Idle
    /\ UNCHANGED <<world, instruction, contract, edit, runs, ghosts, bounds>>

-----------------------------------------------------------------------------
(* The poll of a watch without contract.                                   *)

\* The authoring pass, then the diff of run_legacy_seen_ids_tick.
LegacyPoll(binds) ==
    /\ At("observing") /\ tick.contract = 0
    /\ LET begun == Authoring(tick.pad)
           frozen == begun.streak >= Ceiling
           pad == [begun EXCEPT !.streak = IF binds THEN 0 ELSE IF frozen THEN @ ELSE @ + 1]
           contents == {<<i, world[i]>> : i \in Present}
           fresh == contents \ pad.seen_ids
           seed == tick.first \/ pad.streak >= Ceiling
           seen == [pad EXCEPT !.seen_ids = @ \union contents]
       IN  /\ binds => ~frozen
           /\ IF binds THEN Binds(tick.instruction) ELSE UNCHANGED <<contract, edit>>
           /\ IF seed \/ fresh = {}
              THEN /\ disk' = IF seed THEN seen ELSE pad
                   /\ tick' = Idle
              ELSE /\ disk' = pad
                   /\ tick' = [tick EXCEPT !.at = "firing", !.pad = seen, !.batch = fresh]
           /\ baseline' = IF seed THEN baseline \union contents ELSE baseline
    /\ UNCHANGED <<world, instruction, runs, history, forgot, undone, bounds>>

LegacyFire ==
    /\ At("firing") /\ Len(runs) < MaxRuns
    /\ runs' = Append(runs, Run(tick.batch, "legacy"))
    /\ tick' = [tick EXCEPT !.at = "committing"]
    /\ UNCHANGED <<world, instruction, contract, disk, edit, ghosts, bounds>>

\* Mutant: what could not be fired is taken for seen.
LegacyFireFailsCommits ==
    /\ At("firing")
    /\ disk' = tick.pad /\ tick' = Idle
    /\ UNCHANGED <<world, instruction, contract, edit, runs, ghosts, bounds>>

LegacyFireFails ==
    /\ At("firing")
    /\ tick' = Idle
    /\ UNCHANGED <<world, instruction, contract, disk, edit, runs, ghosts, bounds>>

LegacyCommit ==
    /\ At("committing")
    /\ disk' = tick.pad /\ tick' = Idle
    /\ UNCHANGED <<world, instruction, contract, edit, runs, ghosts, bounds>>

-----------------------------------------------------------------------------
(* What happens meanwhile.                                                 *)

\* The items change.
Change(i, s) ==
    /\ changes < MaxChanges /\ world[i] # s
    /\ world' = [world EXCEPT ![i] = s] /\ changes' = changes + 1
    /\ UNCHANGED <<instruction, contract, disk, edit, runs, tick, ghosts, edits, crashes>>

\* The queued turn ended, well or badly, and its row says so.
TurnEnds(r) ==
    /\ runs[r].status = "queued"
    /\ runs' = [runs EXCEPT ![r].status = "ended"]
    /\ UNCHANGED <<world, instruction, contract, disk, edit, tick, ghosts, bounds>>

\* A request to update the assignment begins; there is one at a time.
EditBegins(request) ==
    /\ edit = NoEdit /\ edit' = request
    /\ edits < MaxEdits /\ edits' = edits + 1
    /\ UNCHANGED <<world, instruction, contract, disk, runs, tick, ghosts, changes, crashes>>

\* patch_assignment, and the tool that updates an assignment, read the row.  With
\* instruction and scope as they were they will write back the contract that they read.
EditKeeps == EditBegins([at |-> "keeping", contract |-> contract])

\* Else they clear it, whatever they read of it: the tool, and patch_assignment when
\* there is no scratchpad, without more ado.
EditClears == EditBegins([at |-> "clearing"])

\* The scratchpad was loaded, and what was derived from the contract is forgotten in memory.
EditLoads ==
    /\ Exists(disk)
    /\ EditBegins([at |-> "loaded", pad |-> [Orphaned(disk) EXCEPT !.authored = 0]])

\* The findings whose entries in the two ledgers differ.
Differing(L, M) == {e.id : e \in (ToSet(L) \ ToSet(M)) \union (ToSet(M) \ ToSet(L))}

\* The scratchpad is written: the rest of it as it was loaded.
EditStores ==
    /\ edit.at = "loaded"
    /\ disk' = edit.pad
    /\ undone' = undone \union Differing(edit.pad.seen_deliveries, disk.seen_deliveries)
    /\ edit' = [at |-> "clearing"]
    /\ UNCHANGED <<world, instruction, contract, runs, tick, history, baseline, forgot, bounds>>

\* The row is written.
EditEnds ==
    /\ \/ edit.at = "keeping" /\ contract' = edit.contract /\ UNCHANGED instruction
       \/ edit.at = "clearing" /\ contract' = 0 /\ instruction' = instruction + 1
    /\ edit' = NoEdit
    /\ UNCHANGED <<world, disk, runs, tick, ghosts, bounds>>

Edit == EditKeeps \/ EditClears \/ EditLoads \/ EditStores \/ EditEnds

\* The process dies and starts again: the queues of the agents are gone.
Crash ==
    /\ crashes < MaxCrashes /\ crashes' = crashes + 1
    /\ tick' = Idle /\ edit' = NoEdit
    /\ runs' = [r \in DOMAIN runs |-> IF runs[r].status = "queued"
                                      THEN [runs[r] EXCEPT !.status = "lost"] ELSE runs[r]]
    /\ UNCHANGED <<world, instruction, contract, disk, ghosts, changes, edits>>

Observed ==
    \/ \E bad \in SUBSET (Malformed \cap Present), fallback \in {FALSE, FallsBack} :
          \E amend \in {FALSE, bad # {}} : BoundPoll(bad, fallback, amend)
    \/ \E binds \in BOOLEAN : LegacyPoll(binds)

Poll ==
    \/ StartPoll \/ ObservationFails \/ Observed
    \/ Dispatch \/ DispatchFails \/ Attach
    \/ LegacyFire \/ LegacyFireFails \/ LegacyCommit

Next ==
    \/ Poll \/ Edit \/ Crash
    \/ \E i \in Items, s \in States : Change(i, s)
    \/ \E r \in DOMAIN runs : TurnEnds(r)

Spec == Init /\ [][Next]_vars

\* The schedule runner polls for ever and the agent answers again and again; nothing
\* is assumed of the turns.
Fairness == WF_vars(Poll) /\ SF_vars(Observed)
FairSpec == Spec /\ Fairness

-----------------------------------------------------------------------------
(* What holds.                                                             *)

Ledger == IF Exists(disk) THEN ToSet(disk.seen_deliveries) ELSE {}
BoundRuns == {r \in DOMAIN runs : runs[r].kind = "bound"}

\* Types, one entry of the ledger per finding, snapshots within their cap, and a streak
\* that stops at the ceiling.
TypeOK ==
    /\ world \in [Items -> States] /\ contract <= instruction
    /\ tick.at \in {"idle", "observing", "dispatching", "attaching", "firing", "committing", "panicked"}
    /\ Exists(disk) => /\ IsInjective([k \in DOMAIN disk.seen_deliveries |-> disk.seen_deliveries[k].id])
                        /\ Len(disk.snapshots) <= SnapshotCap
                        /\ disk.streak <= Ceiling

\* A finding leaves a trace on disk before it is dispatched and keeps it while its run
\* may still be executed: no crash or later poll loses it, until the poll that retries
\* it on purpose; nor does an edit, but one that read the ledger before an entry of the
\* run was written and writes it back after.
DispatchIsTraced ==
    \A r \in BoundRuns :
        runs[r].status = "queued" /\ runs[r].passes <= Threshold /\ runs[r].ids \cap undone = {}
        => \A id \in runs[r].ids : \E e \in Ledger : e.id = id

\* Confirmed means that a turn that carried this finding ended, never merely that the
\* message was enqueued.
ConfirmedHasEnded ==
    \A e \in Ledger : e.status = "Confirmed"
        => \E r \in BoundRuns : runs[r].status = "ended" /\ e.id \in runs[r].ids

\* What a watch without contract has seen was in a baseline or has been dispatched: a
\* crash between dispatch and write repeats a finding and never drops it.
SeenWasReported ==
    Exists(disk) =>
        disk.seen_ids \subseteq
            baseline \union UNION {runs[r].ids : r \in DOMAIN runs \ BoundRuns}

Dispatched == Len(runs') > Len(runs)
NewRun == runs'[Len(runs')]

\* The same finding is dispatched again only when its run has not ended for more than
\* Threshold polls, whether or not the run was attached to the ledger in time; unless
\* the pass over the ledger has dropped a finding whose run ended, or an edit has put
\* back an entry of the run.
RepeatsAreLate ==
    [][ Dispatched /\ NewRun.kind = "bound"
        => \A r \in BoundRuns : runs[r].ids \cap NewRun.ids # {} =>
              \/ runs[r].passes > Threshold \/ (forgot /\ runs[r].status = "ended")
              \/ runs[r].ids \cap undone # {} ]_vars

\* The locked policy: a poll under a contract never reports an item that matched when
\* the baseline of that contract was recorded and has matched ever since.
HistoryNeverFires ==
    [][ Dispatched /\ NewRun.kind = "bound"
        => \A id \in NewRun.ids : id[1] \notin history ]_vars

\* A dispatched finding does not stay Pending for ever on a run that never ends: it is
\* confirmed or given up for a retry while the watch is bound and polled.
PendingResolves ==
    \A r \in 1 .. MaxRuns :
        (\E e \in Ledger : e.status = "Pending" /\ e.run = r)
        ~> \/ ~\E e \in Ledger : e.status = "Pending" /\ e.run = r
           \/ At("panicked") \/ contract = 0

-----------------------------------------------------------------------------
(* What the comments say.                                                  *)

\* "so one bad poll of one assignment never stalls the tick loop for every other
\* assignment": no poll takes the schedule runner's task with it.
TickLoopGoesOn == ~At("panicked")

\* "still leaves a durable trace rather than silently discarding the finding":
\* DispatchIsTraced without its exception.
TraceIsDurable ==
    \A r \in BoundRuns :
        runs[r].status = "queued" /\ runs[r].passes <= Threshold
        => \A id \in runs[r].ids : \E e \in Ledger : e.id = id

\* "an action already taken must stay deduped even if the contract that triggered it is
\* gone": RepeatsAreLate without the exception for an edit.
RepeatsAreLateAlways ==
    [][ Dispatched /\ NewRun.kind = "bound"
        => \A r \in BoundRuns : runs[r].ids \cap NewRun.ids # {} =>
              runs[r].passes > Threshold \/ (forgot /\ runs[r].status = "ended") ]_vars
=============================================================================
