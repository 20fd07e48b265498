------------------------- MODULE AgentWatchInvariant -------------------------
(***************************************************************************)
(* The inductive invariant of AgentWatch: what the ledger says of the runs *)
(* on record, and what a poll under way may rely on of the scratchpad that *)
(* it loaded minutes ago, while edits of the assignment write copies of    *)
(* their own.                                                              *)
(***************************************************************************)
EXTENDS AgentWatch

\* An item in a state, and a finding: what a run is about.
Content == Items \X States
Finding == Items \X States \X Nat

Snapshot == [item : Items, version : States, matching : BOOLEAN, edge : Nat]
LedgerEntry == [id : Finding, status : {"Pending", "Confirmed"}, run : Nat, polls : Nat]
Pad == [bound : Nat, snapshots : Seq(Snapshot), seen_deliveries : Seq(LedgerEntry),
        seen_ids : SUBSET Content, streak : 0 .. Ceiling, authored : Nat]

Distinct(snapshots) ==
    \A j, k \in DOMAIN snapshots : snapshots[j].item = snapshots[k].item => j = k
Unique(ledger) == \A j, k \in DOMAIN ledger : ledger[j].id = ledger[k].id => j = k

PadOK(pad) ==
    /\ pad \in Pad /\ Unique(pad.seen_deliveries)
    /\ Distinct(pad.snapshots) /\ Len(pad.snapshots) <= SnapshotCap

Bound == {"dispatching", "attaching"}
Legacy == {"firing", "committing"}
Working == tick.at \in {"observing"} \cup Bound \cup Legacy

Status == {"queued", "ended", "lost"}
Row == [ids : SUBSET Finding, kind : {"bound"}, status : Status, passes : Nat]
           \cup [ids : SUBSET Content, kind : {"legacy"}, status : Status, passes : Nat]

TickOK ==
    /\ tick.at \in {"idle", "panicked", "observing"} \cup Bound \cup Legacy
    /\ Working =>
          /\ tick = Tick(tick.at, tick.contract, tick.instruction, tick.first, tick.pad, tick.batch)
          /\ tick.contract \in 0 .. instruction /\ tick.instruction \in 1 .. instruction
          /\ tick.first \in BOOLEAN /\ PadOK(tick.pad)
          /\ tick.contract = 0 => tick.pad.bound = 0
          /\ tick.at \in Bound => tick.contract # 0
          /\ tick.at \in Legacy => tick.contract = 0
    /\ tick.at \in Bound => tick.batch \in Seq(Finding)
    /\ tick.at \in Legacy => tick.batch \subseteq Content

Loaded == edit.at = "loaded"

EditOK ==
    \/ edit \in {NoEdit, [at |-> "clearing"]}
    \/ edit \in [at : {"keeping"}, contract : 0 .. instruction]
    \/ /\ Loaded /\ edit = [at |-> "loaded", pad |-> edit.pad]
       /\ PadOK(edit.pad) /\ edit.pad.bound = 0 /\ Exists(disk)

WatchTypeOK ==
    /\ world \in [Items -> States]
    /\ instruction \in Nat \ {0} /\ contract \in 0 .. instruction
    /\ Exists(disk) => PadOK(disk)
    /\ runs \in Seq(Row)
    /\ history \subseteq Items /\ baseline \subseteq Content /\ forgot \in BOOLEAN
    /\ undone \subseteq Finding
    /\ {changes, edits, crashes} \subseteq Nat
    /\ TickOK /\ EditOK

-----------------------------------------------------------------------------
(* The contents seen by a watch without contract.                          *)

Reported == baseline \cup UNION {runs[r].ids : r \in DOMAIN runs \ BoundRuns}

SeenSound ==
    /\ Exists(disk) => disk.seen_ids \subseteq Reported
    /\ Loaded => edit.pad.seen_ids \subseteq Reported
    /\ Working =>
          tick.pad.seen_ids \subseteq
              Reported \cup (IF At("firing") THEN tick.batch ELSE {})

-----------------------------------------------------------------------------
(* The ledger.  A poll and an edit both write it as they loaded it, and    *)
(* neither takes a lock: what the poll has in memory is what is on disk,   *)
(* but for the findings whose entries an edit has put back.                *)

DiskLedger == IF Exists(disk) THEN disk.seen_deliveries ELSE <<>>

Within(L, M, but) == \A k \in DOMAIN L : L[k].id \in but \/ \E j \in DOMAIN M : M[j] = L[k]
Agree(L, M, but) == Within(L, M, but) /\ Within(M, L, but)

LedgerAgrees == Working => Agree(tick.pad.seen_deliveries, DiskLedger, undone)

\* Whom an entry names, and what Confirmed means.
EntrySound(e) ==
    /\ e.run # 0 => e.run \in BoundRuns /\ e.id \in runs[e.run].ids
    /\ e.status = "Confirmed" =>
          /\ e.run = 0
          /\ \E r \in BoundRuns : runs[r].status = "ended" /\ e.id \in runs[r].ids

AllSound(L) == \A k \in DOMAIN L : EntrySound(L[k])
LedgerSound ==
    /\ AllSound(DiskLedger)
    /\ Working => AllSound(tick.pad.seen_deliveries)
    /\ Loaded => AllSound(edit.pad.seen_deliveries)

Recent(row) == row.kind = "bound" /\ row.passes <= Threshold
Kept(row) == Recent(row) /\ row.ids \cap undone = {}
Open(e) == e.status = "Pending" /\ e.run = 0

\* The findings of a run that has not ended are in the ledger, and no older than it.
Awaits(L, r, row) ==
    /\ \A id \in row.ids : \E k \in DOMAIN L :
          /\ L[k].id = id /\ L[k].status = "Pending" /\ L[k].run \in {0, r}
          /\ L[k].polls <= row.passes
    /\ \A j, k \in DOMAIN L : L[j].id \in row.ids /\ L[k].id \in row.ids => L[j].run = L[k].run

\* Those of one that has ended are Confirmed, or will be, or are still counted.
Remembered(L, r, row) ==
    \A id \in row.ids : \E k \in DOMAIN L :
        /\ L[k].id = id
        /\ \/ L[k].status = "Confirmed" \/ L[k].run = r
           \/ /\ L[k].polls <= row.passes
              /\ \A j \in DOMAIN L : L[j].id \in row.ids => Open(L[j])

Traced(L, r, row, lossy) ==
    /\ row.status # "ended" => Awaits(L, r, row)
    /\ row.status = "ended" /\ ~lossy => Remembered(L, r, row)

RunsTraced ==
    \A r \in DOMAIN runs : Kept(runs[r]) => Traced(DiskLedger, r, runs[r], forgot)

\* What is about to be dispatched is recorded, and no recent run is about it.
BatchSound ==
    tick.at \in Bound =>
        /\ \A n \in DOMAIN tick.batch : \E k \in DOMAIN tick.pad.seen_deliveries :
              LET e == tick.pad.seen_deliveries[k]
              IN  e.id = tick.batch[n] /\ Open(e) /\ e.polls = 0
        /\ \A r \in DOMAIN runs :
              Kept(runs[r]) /\ (runs[r].status = "ended" => ~forgot)
                              /\ (At("attaching") => r # Len(runs))
              => runs[r].ids \cap ToSet(tick.batch) = {}
        /\ At("attaching") =>
              /\ runs # <<>> /\ Len(runs) \in BoundRuns
              /\ runs[Len(runs)].ids = ToSet(tick.batch) /\ runs[Len(runs)].passes = 0

-----------------------------------------------------------------------------
(* The snapshots, when none of them has to go for want of room.            *)

Roomy == Len(Order) <= SnapshotCap

\* A matching item of the history is known to match.
Known(pad, i) ==
    \E k \in DOMAIN pad.snapshots :
        pad.snapshots[k].item = i /\ pad.snapshots[k].matching /\ pad.snapshots[k].version = "on"
KnowsHistory(pad) == pad.bound # 0 => \A i \in history : Known(pad, i)

HistoryKnown ==
    Roomy =>
        /\ Exists(disk) => KnowsHistory(disk)
        /\ Working => KnowsHistory(tick.pad)
        /\ tick.at \in Bound => \A n \in DOMAIN tick.batch : tick.batch[n][1] \notin history

\* The inductive invariant: what a poll has loaded of the ledger is what is on disk but
\* for what an edit has put back, every entry names a row about its finding, whoever
\* holds the ledger, the findings of recent runs are in the ledger unless an edit has
\* put one of them back, what is seen was reported, and the snapshots know the history.
WatchInv ==
    /\ WatchTypeOK /\ SeenSound /\ LedgerAgrees /\ LedgerSound /\ RunsTraced /\ BatchSound
    /\ HistoryKnown
=============================================================================
