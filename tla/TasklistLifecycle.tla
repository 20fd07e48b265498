-------------------------- MODULE TasklistLifecycle --------------------------
(***************************************************************************)
(* What the task feeder promises about one tasklist, without dispatchers,  *)
(* runs, watchdogs or restarts: every task is begun once, in the order of  *)
(* the groups, is retried a bounded number of times and ends; the tasklist *)
(* ends with its tasks.  The promise is that of the header comment of      *)
(* TaskFeeder (crates/ao-engine/src/task_feeder/mod.rs:133-140) and of the *)
(* two compare-and-set operations of the store.  TaskFeeder implements it. *)
(***************************************************************************)
EXTENDS Naturals

CONSTANTS
    Tasks, Groups, GroupOf, Mode, Rank, MaxAttempts,
    Unservable      \* the tasks whose executor does not exist

VARIABLES listStatus, status, attempts

vars == <<listStatus, status, attempts>>

Over == {"Completed", "Failed", "Skipped"}

Predecessors(t) ==
    {u \in Tasks : \/ GroupOf[u] < GroupOf[t]
                   \/ /\ GroupOf[u] = GroupOf[t] /\ Mode[GroupOf[t]] = "SEQ"
                      /\ Rank[u] < Rank[t]}

Init ==
    /\ listStatus = "Active"
    /\ status = [t \in Tasks |-> "Pending"]
    /\ attempts = [t \in Tasks |-> 0]

Begin(t) ==
    /\ status[t] = "Pending" /\ t \notin Unservable
    /\ \A u \in Predecessors(t) : status[u] \in Over
    /\ status' = [status EXCEPT ![t] = "InProgress"]
    /\ UNCHANGED <<listStatus, attempts>>

Complete(t) ==
    /\ status[t] = "InProgress"
    /\ status' = [status EXCEPT ![t] = "Completed"]
    /\ UNCHANGED <<listStatus, attempts>>

Fail(t) ==
    /\ \/ status[t] = "InProgress"
       \/ /\ status[t] = "Pending" /\ t \in Unservable
          /\ \A u \in Predecessors(t) : status[u] \in Over
    /\ status' = [status EXCEPT ![t] = "Failed"]
    /\ UNCHANGED <<listStatus, attempts>>

Retry(t) ==
    /\ status[t] = "InProgress" /\ attempts[t] + 1 < MaxAttempts
    /\ attempts' = [attempts EXCEPT ![t] = @ + 1]
    /\ UNCHANGED <<listStatus, status>>

GiveUp(t) ==
    /\ status[t] = "InProgress" /\ attempts[t] + 1 = MaxAttempts
    /\ attempts' = [attempts EXCEPT ![t] = @ + 1]
    /\ status' = [status EXCEPT ![t] = "Failed"]
    /\ UNCHANGED listStatus

CompleteList ==
    /\ listStatus = "Active" /\ \A t \in Tasks : status[t] \in Over \ {"Failed"}
    /\ listStatus' = "Completed"
    /\ UNCHANGED <<status, attempts>>

FailList ==
    /\ listStatus = "Active" /\ \E t \in Tasks : status[t] = "Failed"
    /\ listStatus' = "Failed"
    /\ UNCHANGED <<status, attempts>>

Next ==
    \/ \E t \in Tasks : Begin(t) \/ Complete(t) \/ Fail(t) \/ Retry(t) \/ GiveUp(t)
    \/ CompleteList \/ FailList

Spec == Init /\ [][Next]_vars
=============================================================================
