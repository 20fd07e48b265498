---------------------------- MODULE ChannelLease ----------------------------
(***************************************************************************)
(* The lease by which one of several processes that share a data directory *)
(* runs a channel binding: ChannelLeaseStore                               *)
(* (crates/ao-persistence/src/channel_lease_store.rs) and the reconcile    *)
(* loop that calls it (crates/ao-engine/src/telegram/bridge.rs), for one   *)
(* binding.                                                                *)
(*                                                                         *)
(* A process is one reconcile loop with its own random owner id; one that  *)
(* crashes never comes back, its replacement is another process.  Each     *)
(* system call on the lease file or on the lock file beside it is a step.  *)
(***************************************************************************)
EXTENDS Naturals

CONSTANTS
    Processes,
    Nobody,         \* the owner of a lease file that is not written yet
    Ttl,            \* lease_ttl: three reconcile intervals
    StaleAfter,     \* RECLAIM_LOCK_STALE_AFTER
    WaitBudget,     \* RECLAIM_LOCK_WAIT_BUDGET
    Timely,         \* whether processes keep their deadlines, see Punctual
    MaxTime,        \* bound: the last tick of the clock
    MaxCrashes      \* bound: processes that crash

ASSUME ChannelLeaseAssumption ==
    /\ Nobody \notin Processes
    /\ Ttl \in Nat \ {0} /\ StaleAfter \in Nat /\ WaitBudget \in Nat
    /\ StaleAfter < WaitBudget /\ WaitBudget < Ttl
    /\ Timely \in BOOLEAN
    /\ MaxTime \in Nat /\ MaxCrashes \in Nat

VARIABLES
    clock,
    lease,      \* the lease file
    lock,       \* the lock file
    proc,       \* the loop of each process
    until,      \* until[p]: the end of the lease p holds, as far as p knows; 0: none
    mishaps,    \* observation only: see Read and Break
    crashes

vars == <<clock, lease, lock, proc, until, mishaps, crashes>>

\* A file is missing, or has the process that made it.  create_new leaves the
\* lease file empty (owner Nobody); rename puts a complete one in its place.
NoFile == [by |-> Nobody, owner |-> Nobody, expires |-> 0]
Empty(p) == [by |-> p, owner |-> Nobody, expires |-> 0]
Lease(p, e) == [by |-> p, owner |-> p, expires |-> e]
Leases == [by : Processes \cup {Nobody}, owner : Processes \cup {Nobody}, expires : Nat]

NoLock == [by |-> Nobody, born |-> 0]
Locks == [by : Processes \cup {Nobody}, born : Nat]

PC == {"idle", "create", "fill", "peek", "renew", "lock", "break", "read", "write",
       "unlock", "release", "remove", "dead"}
\* now: the time the tick of the loop took at its start; seen: the lock file
\* the call found too old; won: what try_claim is about to return.
Proc == [pc : PC, running : BOOLEAN, now : Nat, seen : Locks, won : BOOLEAN]

At(p, pc) == proc[p].pc = pc
Goto(p, pc) == proc' = [proc EXCEPT ![p].pc = pc]

\* In the middle of a tick of the loop; with the lock in hand.
Busy(p) == proc[p].pc \notin {"idle", "dead"}
Critical(p) == proc[p].pc \in {"read", "write", "unlock"}

\* Mutant of Expired: a lease that ends at the next tick counts as ended.
ExpiredEarly(l, now) == l.expires <= now + 1
\* ChannelLease::is_expired
Expired(l, now) == l.expires <= now

\* Mutant of Stale: a lock that reaches the limit is taken for abandoned.
StaleAtLimit(l) == clock - l.born >= StaleAfter
\* reclaim_lock_age, by the modification time of the lock file
Stale(l) == clock - l.born > StaleAfter

Init ==
    /\ clock = 0
    /\ lease = NoFile /\ lock = NoLock
    /\ proc = [p \in Processes |-> [pc |-> "idle", running |-> FALSE, now |-> 0,
                                    seen |-> NoLock, won |-> FALSE]]
    /\ until = [p \in Processes |-> 0]
    /\ mishaps = {} /\ crashes = 0

-----------------------------------------------------------------------------
(* What the loop does with the answer of try_claim.                          *)

\* Mutant of Granted: the time is counted from the answer, not from the call.
GrantedFromNow(p) ==
    /\ proc' = [proc EXCEPT ![p].pc = "idle", ![p].running = TRUE, ![p].won = FALSE,
                            ![p].seen = NoLock]
    /\ until' = [until EXCEPT ![p] = clock + Ttl]

\* Ok(true): the binding runs here, until now + ttl at least.
Granted(p) ==
    /\ proc' = [proc EXCEPT ![p].pc = "idle", ![p].running = TRUE, ![p].won = FALSE,
                            ![p].seen = NoLock]
    /\ until' = [until EXCEPT ![p] = proc[p].now + Ttl]

\* Ok(false): a binding that ran here is stopped, and released: "release".
Refused(p) ==
    /\ proc' = [proc EXCEPT ![p].pc = IF proc[p].running THEN "release" ELSE "idle",
                            ![p].running = FALSE, ![p].seen = NoLock]
    /\ until' = [until EXCEPT ![p] = 0]

-----------------------------------------------------------------------------
(* try_claim, on the lease file alone.                                       *)

Reconcile(p) ==
    /\ At(p, "idle")
    /\ proc' = [proc EXCEPT ![p].pc = "create", ![p].now = clock]
    /\ UNCHANGED <<clock, lease, lock, until, mishaps, crashes>>

Create(p) ==
    /\ At(p, "create")
    /\ \/ lease = NoFile /\ lease' = Empty(p) /\ Goto(p, "fill")
       \/ lease # NoFile /\ UNCHANGED lease /\ Goto(p, "peek")
    /\ UNCHANGED <<clock, lock, until, mishaps, crashes>>

\* The write goes to the file that was created, which by now may be none of
\* this directory any more.
Fill(p) ==
    /\ At(p, "fill")
    /\ lease' = IF lease = Empty(p) THEN Lease(p, proc[p].now + Ttl) ELSE lease
    /\ Granted(p)
    /\ UNCHANGED <<clock, lock, mishaps, crashes>>

\* Mutant of Peek: no lock is taken.
PeekWithoutLock(p) ==
    /\ At(p, "peek")
    /\ Goto(p, IF lease.owner = p /\ ~Expired(lease, proc[p].now) THEN "renew" ELSE "read")
    /\ UNCHANGED <<clock, lease, lock, until, mishaps, crashes>>

\* The heartbeat fast path: my own lease, not over yet.
Peek(p) ==
    /\ At(p, "peek")
    /\ Goto(p, IF lease.owner = p /\ ~Expired(lease, proc[p].now) THEN "renew" ELSE "lock")
    /\ UNCHANGED <<clock, lease, lock, until, mishaps, crashes>>

Renew(p) ==
    /\ At(p, "renew")
    /\ lease' = Lease(p, proc[p].now + Ttl)
    /\ Granted(p)
    /\ UNCHANGED <<clock, lock, mishaps, crashes>>

-----------------------------------------------------------------------------
(* try_claim, under the reclaim lock.                                        *)

Acquire(p) ==
    /\ At(p, "lock")
    /\ \/ /\ lock = NoLock
          /\ lock' = [by |-> p, born |-> clock]
          /\ Goto(p, "read")
       \/ /\ lock # NoLock /\ Stale(lock)
          /\ proc' = [proc EXCEPT ![p].pc = "break", ![p].seen = lock]
          /\ UNCHANGED lock
    /\ UNCHANGED <<clock, lease, until, mishaps, crashes>>

\* The time-out of a lock that stays young, counted from the start of the tick at
\* the earliest: an error leaves all as it is.
GiveUp(p) ==
    /\ At(p, "lock") /\ lock # NoLock /\ ~Stale(lock)
    /\ clock >= proc[p].now + WaitBudget
    /\ Goto(p, "idle")
    /\ UNCHANGED <<clock, lease, lock, until, mishaps, crashes>>

\* The lock file is removed by its name.  If it is not the one that was found
\* too old, a live holder has lost its lock: a mishap.
Break(p) ==
    /\ At(p, "break")
    /\ lock' = NoLock
    /\ proc' = [proc EXCEPT ![p].pc = "lock", ![p].seen = NoLock]
    /\ mishaps' = IF lock \in {NoLock, proc[p].seen} THEN mishaps
                  ELSE mishaps \cup {"wrongLock"}
    /\ UNCHANGED <<clock, lease, until, crashes>>

\* A missing or empty lease file may be claimed, whoever is about to fill it:
\* a mishap.
Read(p) ==
    LET mine == lease.owner \in {p, Nobody} \/ Expired(lease, proc[p].now) IN
    /\ At(p, "read")
    /\ proc' = [proc EXCEPT ![p].pc = IF mine THEN "write" ELSE "unlock"]
    /\ mishaps' = IF lease.owner = Nobody THEN mishaps \cup {"noLease"} ELSE mishaps
    /\ UNCHANGED <<clock, lease, lock, until, crashes>>

Write(p) ==
    /\ At(p, "write")
    /\ lease' = Lease(p, proc[p].now + Ttl)
    /\ proc' = [proc EXCEPT ![p].pc = "unlock", ![p].won = TRUE]
    /\ UNCHANGED <<clock, lock, until, mishaps, crashes>>

\* ReclaimLockGuard::drop, by name again, and the return of try_claim.
Unlock(p) ==
    /\ At(p, "unlock")
    /\ lock' = NoLock
    /\ IF proc[p].won THEN Granted(p) ELSE Refused(p)
    /\ UNCHANGED <<clock, lease, mishaps, crashes>>

-----------------------------------------------------------------------------
(* release, crashes and time.                                                *)

\* The binding is disabled or reconfigured, or the process shuts down.
Stop(p) ==
    /\ At(p, "idle") /\ proc[p].running
    /\ proc' = [proc EXCEPT ![p].pc = "release", ![p].running = FALSE, ![p].now = clock]
    /\ UNCHANGED <<clock, lease, lock, until, mishaps, crashes>>

\* A binding that is still wanted is claimed again by the same tick, as of the
\* same time; one that is not ends it.
AfterRelease == {"idle", "create"}

ReleaseRead(p) ==
    /\ At(p, "release")
    /\ \/ lease.owner = p /\ Goto(p, "remove") /\ UNCHANGED until
       \/ /\ lease.owner # p
          /\ \E pc \in AfterRelease : Goto(p, pc)
          /\ until' = [until EXCEPT ![p] = 0]
    /\ UNCHANGED <<clock, lease, lock, mishaps, crashes>>

Remove(p) ==
    /\ At(p, "remove")
    /\ lease' = NoFile
    /\ \E pc \in AfterRelease : Goto(p, pc)
    /\ until' = [until EXCEPT ![p] = 0]
    /\ UNCHANGED <<clock, lock, mishaps, crashes>>

Crash(p) ==
    /\ ~At(p, "dead") /\ crashes < MaxCrashes
    /\ crashes' = crashes + 1
    /\ proc' = [proc EXCEPT ![p].pc = "dead", ![p].running = FALSE]
    /\ until' = [until EXCEPT ![p] = 0]
    /\ UNCHANGED <<clock, lease, lock, mishaps>>

\* What a healthy process does before the clock shows t: it finishes its tick
\* within the time of the lease the tick would get, renews or releases its lease
\* before it ends (unless it has lost it, and waits for a lock), and does not
\* hold the lock for as long as it takes to look abandoned.
Punctual(p, t) ==
    /\ Busy(p) => t < proc[p].now + Ttl
    /\ until[p] # 0 => t < until[p] \/ At(p, "lock")
    /\ Critical(p) => t <= lock.born + StaleAfter

Tick ==
    /\ clock < MaxTime
    /\ Timely => \A p \in Processes : At(p, "dead") \/ Punctual(p, clock + 1)
    /\ clock' = clock + 1
    /\ UNCHANGED <<lease, lock, proc, until, mishaps, crashes>>

\* The end of the bounded clock, where a process may wait for a lock to age.
TimeIsUp == clock = MaxTime /\ UNCHANGED vars

Next ==
    \/ \E p \in Processes :
          \/ Reconcile(p) \/ Create(p) \/ Fill(p) \/ Peek(p) \/ Renew(p)
          \/ Acquire(p) \/ GiveUp(p) \/ Break(p) \/ Read(p) \/ Write(p) \/ Unlock(p)
          \/ Stop(p) \/ ReleaseRead(p) \/ Remove(p) \/ Crash(p)
    \/ Tick \/ TimeIsUp

Spec == Init /\ [][Next]_vars

-----------------------------------------------------------------------------
(* Properties.                                                               *)

LeaseTypeOK ==
    /\ clock \in Nat
    /\ lease \in Leases /\ lock \in Locks
    /\ proc \in [Processes -> Proc]
    /\ until \in [Processes -> Nat]
    /\ mishaps \subseteq {"noLease", "wrongLock"}
    /\ crashes \in Nat

\* "Only one caller at a time ever gets past this point for a given lease file"
\* (channel_lease_store.rs:244-245), whoever waits, gives up, crashes or breaks
\* the lock of one that crashed, unless a removal hits a lock it did not judge.
LockExclusive ==
    "wrongLock" \notin mishaps =>
        \A p, q \in Processes : Critical(p) /\ Critical(q) => p = q

Holds(p) == clock < until[p]
OneHolder == \A p, q \in Processes : Holds(p) /\ Holds(q) => p = q

\* Of the processes that race for a lease, renew theirs, release it or take over
\* that of one that crashed, at most one has been told that it holds it: unless
\* a claim under the lock has found no lease in the file.
ExclusiveLease == mishaps = {} => OneHolder

\* A lease that has not expired changes hands only by a release.
LiveLeaseKept ==
    [][mishaps' = {} /\ lease.owner # Nobody /\ lease'.owner \notin {lease.owner, Nobody}
          => lease.expires <= clock]_vars

\* "Among any number of callers racing to claim the same (agent_id, binding_id)
\* -- whether nothing is persisted yet, or an existing lease has just expired --
\* exactly one gets Ok(true)" (channel_lease_store.rs:149-151).  The loser of
\* create_new finds the winner's file empty and claims it under the lock.
OneWinner == OneHolder
=============================================================================
