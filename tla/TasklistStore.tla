--------------------------- MODULE TasklistStore ---------------------------
(***************************************************************************)
(* The transition tables of the tasklist store                             *)
(* (crates/ao-persistence/src/tasklist_store.rs) and the two compare-and-  *)
(* set operations the dispatcher is built on.  Every write of the store is *)
(* a read-modify-write under a per-tasklist lock, so each operator below   *)
(* is used inside ONE action of the modules that extend this one; reads    *)
(* (get_by_owner) take no lock, which is why those modules keep what an    *)
(* actor has read in that actor's own state.                               *)
(***************************************************************************)

EXTENDS Naturals

TaskStatus == {"Pending", "InProgress", "Completed", "Failed",
               "Blocked", "Skipped", "Stopped"}

\* TaskStatus::is_terminal
Terminal == {"Completed", "Failed", "Skipped"}

ListStatus == {"Active", "Paused", "Completed", "Cancelled", "Failed"}

\* Mutant of ValidTaskTransition: a completed task may still be failed.
ValidTaskTransitionLateFail(prev, next) ==
    prev = next \/ (prev \in {"Pending", "InProgress", "Completed"} /\ next \in Terminal)

\* is_valid_task_transition: what set_task_status_by_owner accepts.
ValidTaskTransition(prev, next) ==
    \/ prev = next
    \/ <<prev, next>> \in
         ({"Pending"} \X {"InProgress", "Blocked", "Failed", "Skipped"})
         \cup ({"InProgress"} \X {"Completed", "Failed", "Blocked", "Skipped", "Stopped"})
         \cup ({"Blocked"} \X {"Pending", "InProgress", "Failed", "Skipped"})
         \cup ({"Failed"} \X {"Pending", "Skipped"})
         \cup ({"Stopped"} \X {"Pending", "Completed", "Failed"})

\* The table of set_status_by_owner (and of the team-only set_status): setting
\* the status a list already has succeeds and writes nothing.
ValidListTransition(prev, next) ==
    \/ prev = next
    \/ <<prev, next>> \in
         ({"Active"} \X {"Completed", "Failed", "Cancelled", "Paused"})
         \cup ({"Paused"} \X {"Active", "Cancelled", "Failed"})
         \cup ({"Failed"} \X {"Active", "Cancelled", "Paused"})
         \cup ({"Completed", "Cancelled"} \X {"Paused"})

\* Mutant of Dispatchable: the claim does not look at the status.
AnyStatus == TaskStatus

\* try_begin_task_by_owner claims a task only from these statuses.
Dispatchable == {"Pending", "Blocked"}

\* Mutant of ReclaimOutcome: the attempt that reaches the maximum is let through.
ReclaimOutcomeOneMore(status, token, expected, attempts, max) ==
    IF status # "InProgress" THEN "NotInProgress"
    ELSE IF token # expected THEN "Stale"
    ELSE IF attempts + 1 > max THEN "Exhausted"
    ELSE "Claimed"

\* try_reclaim_dispatch_by_owner, decided on the values read under the lock.
ReclaimOutcome(status, token, expected, attempts, max) ==
    IF status # "InProgress" THEN "NotInProgress"
    ELSE IF token # expected THEN "Stale"
    ELSE IF attempts + 1 >= max THEN "Exhausted"
    ELSE "Claimed"

=============================================================================
