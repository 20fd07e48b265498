------------------------ MODULE TaskFeederInvariant ------------------------
(***************************************************************************)
(* The inductive invariant behind the safety properties of TaskFeeder.     *)
(* Each part says what a call may still rely on of something it read some  *)
(* steps ago.                                                              *)
(***************************************************************************)
EXTENDS TaskFeeder

\* A call that is on a task is on one of the tasklist.
OnTask == {"complete", "reclaim", "resend", "publish", "settle", "clear", "halt",
           "begin", "probe", "recover", "ended"}

OnItsTask(p) ==
    /\ call[p].pc \in OnTask => call[p].task \in Tasks
    /\ p \in Runs /\ call[p].pc # "idle" => run[p].task \in Tasks
    /\ call[p].pc = "halt" => call[p].snap.status[call[p].task] = "Failed"

\* The statuses the callers of the core write.
Reached == {"Pending", "InProgress", "Completed", "Failed"}

\* What a snapshot shows as over is over, with that result: terminal statuses
\* are never left, so a stale snapshot errs only on tasks that go on.
SnapshotSound(p) ==
    \A t \in Tasks :
        /\ call[p].snap.status[t] \in Reached
        /\ call[p].snap.status[t] \in Terminal => status[t] = call[p].snap.status[t]

\* A task somebody is about to begin has nothing before it left to do.
BeginSound(p) ==
    \A t \in Tasks : t \in call[p].todo \/ (call[p].pc = "begin" /\ t = call[p].task) =>
        \A u \in Before(t) : status[u] \in Terminal

\* A dispatch about to be sent is one of a begun task, under a token given out.
TicketSound(p) ==
    call[p].pc \in {"publish", "resend"} =>
        /\ call[p].tok <= token[call[p].task] /\ call[p].tok < MaxAttempts
        /\ status[call[p].task] # "Pending"

CallSound(p) == OnItsTask(p) /\ SnapshotSound(p) /\ BeginSound(p) /\ TicketSound(p)

\* The dispatch token counts the attempts; a ghost is never begun.
CountersSound ==
    \A t \in Tasks :
        /\ status[t] \in Reached
        /\ token[t] = attempts[t] /\ attempts[t] <= MaxAttempts
        /\ status[t] # "Failed" => attempts[t] < MaxAttempts
        /\ Ghost(t) => status[t] \in {"Pending", "Failed"}

SentSound == \A d \in sent : /\ d[2] <= token[d[1]] /\ d[2] < MaxAttempts
                            /\ status[d[1]] # "Pending"

StoreSound == CountersSound /\ SentSound /\ OrderKept /\ ListStatusSound

Inv ==
    /\ TypeOK
    /\ StoreSound
    /\ \A p \in Actors : CallSound(p)
    /\ OneDispatchPerToken

\* The tasks some message, signal or run is about.
TasksOf(q) == {q[i].task : i \in DOMAIN q}
Engaged == TasksOf(inbox) \cup TasksOf(finished)
           \cup {run[r].task : r \in {q \in Runs : call[q].pc # "idle"}}

\* What the refinement needs besides: a task nobody has begun is nobody's, and
\* a tasklist that is neither paused nor cancelled by the user never is.
Unclaimed ==
    /\ listStatus \in {"Active", "Completed", "Failed"}
    /\ \A t \in Engaged : status[t] # "Pending"

FullInv == Inv /\ Unclaimed
=============================================================================
