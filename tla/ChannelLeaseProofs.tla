------------------------- MODULE ChannelLeaseProofs -------------------------
(***************************************************************************)
(* Among punctual processes the lease of ChannelLease is exclusive, for any *)
(* number of them, any lease time and any crashes, as long as no mishap     *)
(* happens; and this is all the guarantee there is, see OneWinner.          *)
(***************************************************************************)
EXTENDS ChannelLeaseInvariant, TLAPS

-----------------------------------------------------------------------------
(* A step changes the loop of one process.                                  *)

OnlyLoop(p) ==
    /\ proc' \in [Processes -> Proc]
    /\ \A q \in Processes : q # p => proc'[q] = proc[q]
    /\ clock' = clock /\ mishaps \subseteq mishaps'

\* ... and what that process knows of the lease.
OnlyUntil(p, e) ==
    /\ until' \in [Processes -> Nat] /\ until'[p] = e
    /\ \A q \in Processes : q # p => until'[q] = until[q]

\* The invariant, put together again after such a step.
LEMMA StepInv ==
    ASSUME LeaseInv, NEW p \in Processes, OnlyLoop(p),
           lease' \in Leases, lock' \in Locks, until' \in [Processes -> Nat],
           mishaps' \subseteq {"noLease", "wrongLock"}, crashes' \in Nat,
           LockSound', ClockSound(p)',
           mishaps' = {} => \A q \in Processes : HolderSound(q)'
    PROVE  LeaseInv'
<1>1. LeaseTypeOK'
  BY DEF LeaseInv, LeaseTypeOK, OnlyLoop
<1>2. ASSUME NEW q \in Processes PROVE ClockSound(q)'
  <2>1. CASE q = p
    BY <2>1
  <2>2. CASE q # p
    BY <2>2 DEF LeaseInv, OnlyLoop, ClockSound, At, Busy
  <2> QED BY <2>1, <2>2
<1> QED BY <1>1, <1>2 DEF LeaseInv

\* A step that leaves the lock file alone and does not take it.
LEMMA QuietLock ==
    ASSUME LeaseInv, NEW p \in Processes, OnlyLoop(p), lock' = lock,
           Critical(p)' => Critical(p)
    PROVE  LockSound'
<1> SUFFICES ASSUME "wrongLock" \notin mishaps', NEW q \in Processes, Critical(q)'
             PROVE  lock'.by = q /\ clock' <= lock'.born + StaleAfter
  BY DEF LockSound
<1>1. Critical(q) /\ "wrongLock" \notin mishaps
  BY DEF OnlyLoop, Critical
<1> QED BY <1>1 DEF LeaseInv, LockSound, OnlyLoop

\* A step that leaves the lease file alone.
LEMMA QuietLease ==
    ASSUME LeaseInv, NEW p \in Processes, OnlyLoop(p), lease' = lease,
           \A q \in Processes : q # p => until'[q] = until[q],
           mishaps' = {} /\ HolderSound(p) => HolderSound(p)'
    PROVE  mishaps' = {} => \A q \in Processes : HolderSound(q)'
<1> SUFFICES ASSUME mishaps' = {}, NEW q \in Processes PROVE HolderSound(q)'
  OBVIOUS
<1>1. \A s \in Processes : HolderSound(s)
  BY DEF OnlyLoop, LeaseInv
<1>2. CASE q = p
  BY <1>1, <1>2
<1>3. CASE q # p
  BY <1>1, <1>3 DEF OnlyLoop, HolderSound, At
<1> QED BY <1>2, <1>3

\* What the invariant says of one process.
LEMMA Typed ==
    ASSUME LeaseInv, NEW p \in Processes
    PROVE  /\ proc[p] \in Proc /\ proc \in [Processes -> Proc] /\ clock \in Nat
           /\ lease \in Leases /\ lock \in Locks /\ until \in [Processes -> Nat]
           /\ until[p] \in Nat /\ proc[p].now \in Nat
           /\ mishaps \subseteq {"noLease", "wrongLock"} /\ crashes \in Nat
           /\ ClockSound(p) /\ LockSound
  BY DEF LeaseInv, LeaseTypeOK, Proc

\* An update of one component changes that component alone.
LEMMA LoopSet ==
    ASSUME LeaseInv, NEW p \in Processes, NEW r \in Proc, proc' = [proc EXCEPT ![p] = r],
           clock' = clock, mishaps \subseteq mishaps'
    PROVE  OnlyLoop(p) /\ proc'[p] = r
  BY DEF OnlyLoop, LeaseInv, LeaseTypeOK

\* What one process knows of the lease is set, or left as it is.
LEMMA UntilSet ==
    ASSUME until \in [Processes -> Nat], NEW p \in Processes, NEW e \in Nat,
           until' = [until EXCEPT ![p] = e]
    PROVE  OnlyUntil(p, e)
  BY DEF OnlyUntil

LEMMA UntilKept ==
    ASSUME until \in [Processes -> Nat], NEW p \in Processes, until' = until
    PROVE  OnlyUntil(p, until[p])
  BY DEF OnlyUntil

\* A tick begins: its time is the clock's.
LEMMA ReconcileInv == ASSUME LeaseInv, NEW p \in Processes, Reconcile(p) PROVE LeaseInv'
<1> USE Typed, ChannelLeaseAssumption
<1>1. /\ OnlyLoop(p) /\ lease' = lease /\ lock' = lock
      /\ mishaps' = mishaps /\ crashes' = crashes
      /\ proc[p].pc = "idle" /\ proc'[p].pc = "create"
      /\ proc'[p].now = clock /\ proc'[p].won = proc[p].won
  <2> DEFINE r == [proc[p] EXCEPT !.pc = "create", !.now = clock]
  <2>1. r \in Proc
    BY DEF Proc, PC, NoLock, Locks
  <2>2. proc' = [proc EXCEPT ![p] = r]
    BY DEF Reconcile, Goto
  <2>3. /\ lease' = lease /\ lock' = lock
        /\ mishaps' = mishaps /\ crashes' = crashes
        /\ clock' = clock /\ mishaps \subseteq mishaps'
    BY DEF Reconcile, NoLock, Locks
  <2>4. OnlyLoop(p) /\ proc'[p] = r
    BY <2>1, <2>2, <2>3, LoopSet
  <2> QED BY <2>3, <2>4 DEF Reconcile, At, Proc
<1>2. OnlyUntil(p, until[p])
  BY UntilKept DEF Reconcile
<1>3. ClockSound(p)'
  BY <1>1 DEF ClockSound, At, Busy, OnlyLoop, Stale, Locks
<1>4. LockSound'
  BY <1>1, QuietLock DEF Critical, Reconcile, At
<1>5. mishaps' = {} => \A q \in Processes : HolderSound(q)'
  <2>1. mishaps' = {} /\ HolderSound(p) => HolderSound(p)'
    BY <1>1, <1>2 DEF HolderSound, ClockSound, OnlyLoop, OnlyUntil, At, Expired,
                     Leases, Lease, Empty, NoFile
  <2> QED BY <1>1, <1>2, <2>1, QuietLease DEF OnlyUntil
<1> QED BY <1>1, <1>2, <1>3, <1>4, <1>5, StepInv DEF OnlyUntil

\* The fast path goes on only with a lease of its own, which is in until.
LEMMA PeekInv == ASSUME LeaseInv, NEW p \in Processes, Peek(p) PROVE LeaseInv'
<1> USE Typed, ChannelLeaseAssumption
<1>1. /\ OnlyLoop(p) /\ lease' = lease /\ lock' = lock
      /\ mishaps' = mishaps /\ crashes' = crashes
      /\ proc[p].pc = "peek" /\ proc'[p].pc = (IF lease.owner = p /\ ~Expired(lease, proc[p].now)
                                                THEN "renew" ELSE "lock")
      /\ proc'[p].now = proc[p].now /\ proc'[p].won = proc[p].won
  <2> DEFINE r == [proc[p] EXCEPT !.pc = IF lease.owner = p /\ ~Expired(lease, proc[p].now)
                                   THEN "renew" ELSE "lock"]
  <2>1. r \in Proc
    BY DEF Proc, PC, NoLock, Locks
  <2>2. proc' = [proc EXCEPT ![p] = r]
    BY DEF Peek, Goto
  <2>3. /\ lease' = lease /\ lock' = lock
        /\ mishaps' = mishaps /\ crashes' = crashes
        /\ clock' = clock /\ mishaps \subseteq mishaps'
    BY DEF Peek, NoLock, Locks
  <2>4. OnlyLoop(p) /\ proc'[p] = r
    BY <2>1, <2>2, <2>3, LoopSet
  <2> QED BY <2>3, <2>4 DEF Peek, At, Proc
<1>2. OnlyUntil(p, until[p])
  BY UntilKept DEF Peek
<1>3. ClockSound(p)'
  BY <1>1 DEF ClockSound, At, Busy, OnlyLoop, Stale, Locks
<1>4. LockSound'
  BY <1>1, QuietLock DEF Critical, Peek, At
<1>5. mishaps' = {} => \A q \in Processes : HolderSound(q)'
  <2>1. mishaps' = {} /\ HolderSound(p) => HolderSound(p)'
    BY <1>1, <1>2 DEF HolderSound, ClockSound, OnlyLoop, OnlyUntil, At, Expired,
                     Leases, Lease, Empty, NoFile
  <2> QED BY <1>1, <1>2, <2>1, QuietLease DEF OnlyUntil
<1> QED BY <1>1, <1>2, <1>3, <1>4, <1>5, StepInv DEF OnlyUntil

\* The wait for the lock times out: nothing is held.
LEMMA GiveUpInv == ASSUME LeaseInv, NEW p \in Processes, GiveUp(p) PROVE LeaseInv'
<1> USE Typed, ChannelLeaseAssumption
<1>1. /\ OnlyLoop(p) /\ lease' = lease /\ lock' = lock
      /\ mishaps' = mishaps /\ crashes' = crashes
      /\ proc[p].pc = "lock" /\ proc'[p].pc = "idle"
      /\ proc'[p].now = proc[p].now /\ proc'[p].won = proc[p].won
  <2> DEFINE r == [proc[p] EXCEPT !.pc = "idle"]
  <2>1. r \in Proc
    BY DEF Proc, PC, NoLock, Locks
  <2>2. proc' = [proc EXCEPT ![p] = r]
    BY DEF GiveUp, Goto
  <2>3. /\ lease' = lease /\ lock' = lock
        /\ mishaps' = mishaps /\ crashes' = crashes
        /\ clock' = clock /\ mishaps \subseteq mishaps'
    BY DEF GiveUp, NoLock, Locks
  <2>4. OnlyLoop(p) /\ proc'[p] = r
    BY <2>1, <2>2, <2>3, LoopSet
  <2> QED BY <2>3, <2>4 DEF GiveUp, At, Proc
<1>2. OnlyUntil(p, until[p])
  BY UntilKept DEF GiveUp
<1>3. ClockSound(p)'
  BY <1>1 DEF ClockSound, At, Busy, OnlyLoop, Stale, Locks
<1>4. LockSound'
  BY <1>1, QuietLock DEF Critical, GiveUp, At
<1>5. mishaps' = {} => \A q \in Processes : HolderSound(q)'
  <2>1. mishaps' = {} /\ HolderSound(p) => HolderSound(p)'
    BY <1>1, <1>2 DEF HolderSound, ClockSound, OnlyLoop, OnlyUntil, At, Expired,
                     Leases, Lease, Empty, NoFile
  <2> QED BY <1>1, <1>2, <2>1, QuietLease DEF OnlyUntil
<1> QED BY <1>1, <1>2, <1>3, <1>4, <1>5, StepInv DEF OnlyUntil

\* The binding stops here: the lease is still held until it is released.
LEMMA StopInv == ASSUME LeaseInv, NEW p \in Processes, Stop(p) PROVE LeaseInv'
<1> USE Typed, ChannelLeaseAssumption
<1>1. /\ OnlyLoop(p) /\ lease' = lease /\ lock' = lock
      /\ mishaps' = mishaps /\ crashes' = crashes
      /\ proc[p].pc = "idle" /\ proc'[p].pc = "release"
      /\ proc'[p].now = clock /\ proc'[p].won = proc[p].won
  <2> DEFINE r == [proc[p] EXCEPT !.pc = "release", !.running = FALSE, !.now = clock]
  <2>1. r \in Proc
    BY DEF Proc, PC, NoLock, Locks
  <2>2. proc' = [proc EXCEPT ![p] = r]
    BY DEF Stop, Goto
  <2>3. /\ lease' = lease /\ lock' = lock
        /\ mishaps' = mishaps /\ crashes' = crashes
        /\ clock' = clock /\ mishaps \subseteq mishaps'
    BY DEF Stop, NoLock, Locks
  <2>4. OnlyLoop(p) /\ proc'[p] = r
    BY <2>1, <2>2, <2>3, LoopSet
  <2> QED BY <2>3, <2>4 DEF Stop, At, Proc
<1>2. OnlyUntil(p, until[p])
  BY UntilKept DEF Stop
<1>3. ClockSound(p)'
  BY <1>1 DEF ClockSound, At, Busy, OnlyLoop, Stale, Locks
<1>4. LockSound'
  BY <1>1, QuietLock DEF Critical, Stop, At
<1>5. mishaps' = {} => \A q \in Processes : HolderSound(q)'
  <2>1. mishaps' = {} /\ HolderSound(p) => HolderSound(p)'
    BY <1>1, <1>2 DEF HolderSound, ClockSound, OnlyLoop, OnlyUntil, At, Expired,
                     Leases, Lease, Empty, NoFile
  <2> QED BY <1>1, <1>2, <2>1, QuietLease DEF OnlyUntil
<1> QED BY <1>1, <1>2, <1>3, <1>4, <1>5, StepInv DEF OnlyUntil

\* release looks whether the lease is still its own.
LEMMA ReleaseReadInv == ASSUME LeaseInv, NEW p \in Processes, ReleaseRead(p) PROVE LeaseInv'
<1> USE Typed, ChannelLeaseAssumption
<1> PICK pc \in AfterRelease : lease.owner # p => Goto(p, pc)
  BY DEF ReleaseRead, AfterRelease
<1>1. /\ OnlyLoop(p) /\ lease' = lease /\ lock' = lock
      /\ mishaps' = mishaps /\ crashes' = crashes
      /\ proc[p].pc = "release" /\ proc'[p].pc = (IF lease.owner = p THEN "remove" ELSE pc)
      /\ proc'[p].now = proc[p].now /\ proc'[p].won = proc[p].won
  <2> DEFINE r == [proc[p] EXCEPT !.pc = IF lease.owner = p THEN "remove" ELSE pc]
  <2>1. r \in Proc
    BY DEF Proc, PC, AfterRelease
  <2>2. proc' = [proc EXCEPT ![p] = r]
    <3>1. CASE lease.owner = p
      BY <3>1 DEF ReleaseRead, Goto
    <3>2. CASE ~(lease.owner = p)
      BY <3>2 DEF ReleaseRead, Goto
    <3> QED BY <3>1, <3>2
  <2>3. /\ lease' = lease /\ lock' = lock
        /\ mishaps' = mishaps /\ crashes' = crashes
        /\ clock' = clock /\ mishaps \subseteq mishaps'
    BY DEF ReleaseRead, NoLock, Locks
  <2>4. OnlyLoop(p) /\ proc'[p] = r
    BY <2>1, <2>2, <2>3, LoopSet
  <2> QED BY <2>3, <2>4 DEF ReleaseRead, At, Proc
<1>2. OnlyUntil(p, IF lease.owner = p THEN until[p] ELSE 0)
  <2>1. CASE lease.owner = p
    BY <2>1, UntilKept DEF ReleaseRead
  <2>2. CASE lease.owner # p
    BY <2>2, UntilSet DEF ReleaseRead
  <2> QED BY <2>1, <2>2
<1>3. ClockSound(p)'
  BY <1>1 DEF ClockSound, At, Busy, OnlyLoop, AfterRelease
<1>4. LockSound'
  BY <1>1, QuietLock DEF Critical, AfterRelease
<1>5. mishaps' = {} => \A q \in Processes : HolderSound(q)'
  <2>1. mishaps' = {} /\ HolderSound(p) => HolderSound(p)'
    BY <1>1, <1>2 DEF HolderSound, ClockSound, OnlyLoop, OnlyUntil, At, Expired,
                     AfterRelease, Lease
  <2> QED BY <1>1, <1>2, <2>1, QuietLease DEF OnlyUntil
<1> QED BY <1>1, <1>2, <1>3, <1>4, <1>5, StepInv DEF OnlyUntil

\* What a crashed process knew is of no account any more.
LEMMA CrashInv == ASSUME LeaseInv, NEW p \in Processes, Crash(p) PROVE LeaseInv'
<1> USE Typed, ChannelLeaseAssumption
<1>1. /\ OnlyLoop(p) /\ lease' = lease /\ lock' = lock
      /\ mishaps' = mishaps /\ crashes' \in Nat
      /\ proc'[p].pc = "dead" /\ proc'[p].now = proc[p].now /\ proc'[p].won = proc[p].won
  <2> DEFINE r == [proc[p] EXCEPT !.pc = "dead", !.running = FALSE]
  <2>1. r \in Proc
    BY DEF Proc, PC, NoLock, Locks
  <2>2. proc' = [proc EXCEPT ![p] = r]
    BY DEF Crash, Goto
  <2>3. /\ lease' = lease /\ lock' = lock
        /\ mishaps' = mishaps /\ crashes' \in Nat
        /\ clock' = clock /\ mishaps \subseteq mishaps'
    BY DEF Crash, NoLock, Locks
  <2>4. OnlyLoop(p) /\ proc'[p] = r
    BY <2>1, <2>2, <2>3, LoopSet
  <2> QED BY <2>3, <2>4 DEF Crash, At, Proc
<1>2. OnlyUntil(p, 0)
  BY UntilSet DEF Crash
<1>3. ClockSound(p)'
  BY <1>1 DEF ClockSound, At, Busy, OnlyLoop, Stale, Locks
<1>4. LockSound'
  BY <1>1, QuietLock DEF Critical, Crash, At
<1>5. mishaps' = {} => \A q \in Processes : HolderSound(q)'
  <2>1. mishaps' = {} /\ HolderSound(p) => HolderSound(p)'
    BY <1>1, <1>2 DEF HolderSound, ClockSound, OnlyLoop, OnlyUntil, At, Expired,
                     Leases, Lease, Empty, NoFile
  <2> QED BY <1>1, <1>2, <2>1, QuietLease DEF OnlyUntil
<1> QED BY <1>1, <1>2, <1>3, <1>4, <1>5, StepInv DEF OnlyUntil

\* The lock is taken, or found too old, which it stays.
LEMMA AcquireInv == ASSUME LeaseInv, NEW p \in Processes, Acquire(p) PROVE LeaseInv'
<1> USE Typed, ChannelLeaseAssumption
<1>1. /\ OnlyLoop(p) /\ lease' = lease /\ lock' \in Locks
      /\ mishaps' = mishaps /\ crashes' = crashes
      /\ proc[p].pc = "lock" /\ proc'[p].now = proc[p].now /\ proc'[p].won = proc[p].won
      /\ \/ lock = NoLock /\ lock' = [by |-> p, born |-> clock] /\ proc'[p].pc = "read"
         \/ Stale(lock) /\ lock' = lock /\ proc'[p].pc = "break" /\ proc'[p].seen = lock
  <2> DEFINE r == IF lock = NoLock THEN [proc[p] EXCEPT !.pc = "read"]
                   ELSE [proc[p] EXCEPT !.pc = "break", !.seen = lock]
  <2>1. r \in Proc
    BY DEF Proc, PC, NoLock, Locks
  <2>2. proc' = [proc EXCEPT ![p] = r]
    <3>1. CASE lock = NoLock
      BY <3>1 DEF Acquire, Goto
    <3>2. CASE ~(lock = NoLock)
      BY <3>2 DEF Acquire, Goto
    <3> QED BY <3>1, <3>2
  <2>3. /\ lease' = lease /\ lock' \in Locks
        /\ mishaps' = mishaps /\ crashes' = crashes
        /\ clock' = clock /\ mishaps \subseteq mishaps'
    BY DEF Acquire, NoLock, Locks
  <2>4. OnlyLoop(p) /\ proc'[p] = r
    BY <2>1, <2>2, <2>3, LoopSet
  <2> QED BY <2>3, <2>4 DEF Acquire, At, Proc
<1>2. OnlyUntil(p, until[p])
  BY UntilKept DEF Acquire
<1>3. ClockSound(p)'
  BY <1>1 DEF ClockSound, At, Busy, OnlyLoop, Stale, Locks
<1>4. LockSound'
  <2>1. CASE lock = NoLock /\ lock' = [by |-> p, born |-> clock]
    BY <1>1, <2>1 DEF LockSound, OnlyLoop, Critical, NoLock
  <2>2. CASE lock' = lock /\ proc'[p].pc = "break"
    BY <1>1, <2>2, QuietLock DEF Critical
  <2> QED BY <1>1, <2>1, <2>2
<1>5. mishaps' = {} => \A q \in Processes : HolderSound(q)'
  <2>1. mishaps' = {} /\ HolderSound(p) => HolderSound(p)'
    BY <1>1, <1>2 DEF HolderSound, ClockSound, OnlyLoop, OnlyUntil, At, Expired,
                     Leases, Lease, Empty, NoFile
  <2> QED BY <1>1, <1>2, <2>1, QuietLease DEF OnlyUntil
<1> QED BY <1>1, <1>2, <1>3, <1>4, <1>5, StepInv DEF OnlyUntil

\* A lock found too old is in no live hands: punctual holders drop theirs earlier.
LEMMA BreakInv == ASSUME LeaseInv, NEW p \in Processes, Break(p) PROVE LeaseInv'
<1> USE Typed, ChannelLeaseAssumption
<1>1. /\ OnlyLoop(p) /\ lease' = lease /\ lock' = NoLock /\ lock' \in Locks
      /\ mishaps' \subseteq {"noLease", "wrongLock"} /\ crashes' = crashes
      /\ proc[p].pc = "break" /\ proc'[p].pc = "lock"
      /\ proc'[p].now = proc[p].now /\ proc'[p].won = proc[p].won
      /\ "wrongLock" \notin mishaps' => lock \in {NoLock, proc[p].seen}
  <2> DEFINE r == [proc[p] EXCEPT !.pc = "lock", !.seen = NoLock]
  <2>1. r \in Proc
    BY DEF Proc, PC, NoLock, Locks
  <2>2. proc' = [proc EXCEPT ![p] = r]
    BY DEF Break, Goto
  <2>3. /\ lease' = lease /\ lock' = NoLock /\ lock' \in Locks
        /\ mishaps' \subseteq {"noLease", "wrongLock"} /\ crashes' = crashes
        /\ clock' = clock /\ mishaps \subseteq mishaps'
    BY DEF Break, NoLock, Locks
  <2>4. OnlyLoop(p) /\ proc'[p] = r
    BY <2>1, <2>2, <2>3, LoopSet
  <2> QED BY <2>3, <2>4 DEF Break, At, Proc
<1>2. OnlyUntil(p, until[p])
  BY UntilKept DEF Break
<1>3. ClockSound(p)'
  BY <1>1 DEF ClockSound, At, Busy, OnlyLoop, Stale, Locks
<1>4. LockSound'
  <2> SUFFICES ASSUME "wrongLock" \notin mishaps', NEW q \in Processes, Critical(q)'
               PROVE  FALSE
    BY DEF LockSound
  <2>1. lock.by = q /\ clock <= lock.born + StaleAfter
    BY <1>1 DEF LockSound, OnlyLoop, Critical
  <2>2. clock > lock.born + StaleAfter
    BY <1>1, <2>1 DEF NoLock, ClockSound, At
  <2> QED BY <2>1, <2>2 DEF Locks
<1>5. mishaps' = {} => \A q \in Processes : HolderSound(q)'
  <2>1. mishaps' = {} /\ HolderSound(p) => HolderSound(p)'
    BY <1>1, <1>2 DEF HolderSound, ClockSound, OnlyLoop, OnlyUntil, At, Expired,
                     Leases, Lease, Empty, NoFile
  <2> QED BY <1>1, <1>2, <2>1, QuietLease DEF OnlyUntil
<1> QED BY <1>1, <1>2, <1>3, <1>4, <1>5, StepInv DEF OnlyUntil

\* Under the lock a claim goes on if the lease is expired, and only then: its own
\* live lease would have been on the fast path.
LEMMA ReadInv == ASSUME LeaseInv, NEW p \in Processes, Read(p) PROVE LeaseInv'
<1> USE Typed, ChannelLeaseAssumption
<1>1. /\ OnlyLoop(p) /\ lease' = lease /\ lock' = lock
      /\ mishaps' \subseteq {"noLease", "wrongLock"} /\ crashes' = crashes
      /\ proc[p].pc = "read" /\ proc'[p].now = proc[p].now /\ proc'[p].won = proc[p].won
      /\ proc'[p].pc = (IF lease.owner \in {p, Nobody} \/ Expired(lease, proc[p].now)
                        THEN "write" ELSE "unlock")
      /\ mishaps' = {} => lease.owner # Nobody
  <2> DEFINE r == [proc[p] EXCEPT !.pc =
                    IF lease.owner \in {p, Nobody} \/ Expired(lease, proc[p].now)
                    THEN "write" ELSE "unlock"]
  <2>1. r \in Proc
    BY DEF Proc, PC, NoLock, Locks
  <2>2. proc' = [proc EXCEPT ![p] = r]
    BY DEF Read, Goto
  <2>3. /\ lease' = lease /\ lock' = lock
        /\ mishaps' \subseteq {"noLease", "wrongLock"} /\ crashes' = crashes
        /\ clock' = clock /\ mishaps \subseteq mishaps'
    BY DEF Read, NoLock, Locks
  <2>4. OnlyLoop(p) /\ proc'[p] = r
    BY <2>1, <2>2, <2>3, LoopSet
  <2> QED BY <2>3, <2>4, ZenonT(60) DEF Read, At, Proc
<1>2. OnlyUntil(p, until[p])
  BY UntilKept DEF Read
<1>3. ClockSound(p)'
  BY <1>1 DEF ClockSound, At, Busy, OnlyLoop, Stale, Locks
<1>4. LockSound'
  BY <1>1, QuietLock DEF Critical, Read, At
<1>5. mishaps' = {} => \A q \in Processes : HolderSound(q)'
  <2>1. mishaps' = {} /\ HolderSound(p) => HolderSound(p)'
    BY <1>1, <1>2 DEF HolderSound, ClockSound, OnlyLoop, OnlyUntil, At, Expired,
                     Leases, Lease, Empty, NoFile
  <2> QED BY <1>1, <1>2, <2>1, QuietLease DEF OnlyUntil
<1> QED BY <1>1, <1>2, <1>3, <1>4, <1>5, StepInv DEF OnlyUntil

\* The lock goes, the answer of try_claim says what is in the file.
LEMMA UnlockInv == ASSUME LeaseInv, NEW p \in Processes, Unlock(p) PROVE LeaseInv'
<1> USE Typed, ChannelLeaseAssumption
<1>1. /\ OnlyLoop(p) /\ lease' = lease /\ lock' = NoLock /\ lock' \in Locks
      /\ mishaps' = mishaps /\ crashes' = crashes
      /\ proc[p].pc = "unlock" /\ proc'[p].pc \in {"idle", "release"}
      /\ proc'[p].now = proc[p].now /\ proc'[p].won = FALSE
  <2> DEFINE r == IF proc[p].won
             THEN [proc[p] EXCEPT !.pc = "idle", !.running = TRUE, !.won = FALSE, !.seen = NoLock]
             ELSE [proc[p] EXCEPT !.pc = IF proc[p].running THEN "release" ELSE "idle",
                                  !.running = FALSE, !.seen = NoLock]
  <2>1. r \in Proc
    BY ZenonT(60) DEF Proc, PC, NoLock, Locks
  <2>2. proc' = [proc EXCEPT ![p] = r]
    <3>1. CASE proc[p].won
      BY <3>1 DEF Unlock, Granted, Refused
    <3>2. CASE ~(proc[p].won)
      BY <3>2 DEF Unlock, Granted, Refused
    <3> QED BY <3>1, <3>2
  <2>3. /\ lease' = lease /\ lock' = NoLock /\ lock' \in Locks
        /\ mishaps' = mishaps /\ crashes' = crashes
        /\ clock' = clock /\ mishaps \subseteq mishaps'
    BY DEF Unlock, NoLock, Locks
  <2>4. OnlyLoop(p) /\ proc'[p] = r
    BY <2>1, <2>2, <2>3, LoopSet
  <2> QED BY <2>3, <2>4 DEF Unlock, At, Proc
<1>2. OnlyUntil(p, IF proc[p].won THEN proc[p].now + Ttl ELSE 0)
  <2>1. CASE proc[p].won
    BY <2>1, UntilSet DEF Unlock, Granted
  <2>2. CASE ~proc[p].won
    BY <2>2, UntilSet DEF Unlock, Refused
  <2> QED BY <2>1, <2>2
<1>3. ClockSound(p)'
  BY <1>1 DEF ClockSound, At, Busy, OnlyLoop, Stale, Locks
<1>4. LockSound'
  BY <1>1 DEF LockSound, OnlyLoop, Critical
<1>5. mishaps' = {} => \A q \in Processes : HolderSound(q)'
  <2>1. mishaps' = {} /\ HolderSound(p) => HolderSound(p)'
    <3>1. CASE proc[p].won
      BY <1>1, <1>2, <3>1 DEF HolderSound, ClockSound, Busy, OnlyLoop, OnlyUntil, At, Lease
    <3>2. CASE ~proc[p].won
      BY <1>1, <1>2, <3>2 DEF HolderSound, OnlyLoop, OnlyUntil, At
    <3> QED BY <3>1, <3>2
  <2> QED BY <1>1, <1>2, <2>1, QuietLease DEF OnlyUntil
<1> QED BY <1>1, <1>2, <1>3, <1>4, <1>5, StepInv DEF OnlyUntil

\* create_new succeeds only if there is no file, so nobody holds the lease.
LEMMA CreateInv == ASSUME LeaseInv, NEW p \in Processes, Create(p) PROVE LeaseInv'
<1> USE Typed, ChannelLeaseAssumption
<1>1. /\ OnlyLoop(p) /\ lock' = lock /\ mishaps' = mishaps /\ crashes' = crashes
      /\ lease' \in Leases
      /\ proc[p].pc = "create" /\ proc'[p].now = proc[p].now /\ proc'[p].won = proc[p].won
      /\ \/ lease = NoFile /\ lease' = Empty(p) /\ proc'[p].pc = "fill"
         \/ lease' = lease /\ proc'[p].pc = "peek"
  <2> DEFINE r == [proc[p] EXCEPT !.pc = IF lease = NoFile THEN "fill" ELSE "peek"]
  <2>1. r \in Proc
    BY DEF Proc, PC, NoLock, Locks
  <2>2. proc' = [proc EXCEPT ![p] = r]
    <3>1. CASE lease = NoFile
      BY <3>1 DEF Create, Goto
    <3>2. CASE ~(lease = NoFile)
      BY <3>2 DEF Create, Goto
    <3> QED BY <3>1, <3>2
  <2>3. lock' = lock /\ mishaps' = mishaps /\ crashes' = crashes /\ clock' = clock
    BY DEF Create
  <2>4. lease' \in Leases
    BY DEF Create, Lease, Leases, Empty, NoFile
  <2>5. OnlyLoop(p) /\ proc'[p] = r
    BY <2>1, <2>2, <2>3, LoopSet
  <2> QED BY <2>3, <2>4, <2>5 DEF Create, At, Proc
<1>2. OnlyUntil(p, until[p])
  BY UntilKept DEF Create
<1>3. ClockSound(p)'
  BY <1>1 DEF ClockSound, At, Busy, OnlyLoop, Stale, Locks
<1>4. LockSound'
  BY <1>1, QuietLock DEF Critical
<1>5. mishaps' = {} => \A q \in Processes : HolderSound(q)'
  <2> SUFFICES ASSUME mishaps' = {}, NEW q \in Processes PROVE HolderSound(q)'
    OBVIOUS
  <2>1. HolderSound(p) /\ HolderSound(q)
    BY <1>1 DEF LeaseInv
  <2>3. CASE q = p
    BY <1>1, <1>2, <2>1, <2>3
       DEF HolderSound, ClockSound, OnlyLoop, OnlyUntil, At, Expired, Leases, Lease, Empty, NoFile
  <2>4. CASE q # p
    BY <1>1, <1>2, <2>1, <2>4
       DEF HolderSound, ClockSound, OnlyLoop, OnlyUntil, At, Expired, Leases, Lease, Empty, NoFile
  <2> QED BY <2>3, <2>4
<1> QED BY <1>1, <1>2, <1>3, <1>4, <1>5, StepInv DEF OnlyUntil

\* The file that was created is still there, and empty.
LEMMA FillInv == ASSUME LeaseInv, NEW p \in Processes, Fill(p) PROVE LeaseInv'
<1> USE Typed, ChannelLeaseAssumption
<1>1. /\ OnlyLoop(p) /\ lock' = lock /\ mishaps' = mishaps /\ crashes' = crashes
      /\ lease' \in Leases
      /\ proc[p].pc = "fill" /\ proc'[p].now = proc[p].now /\ proc'[p].won = FALSE
      /\ proc'[p].pc = "idle"
      /\ lease = Empty(p) => lease' = Lease(p, proc[p].now + Ttl)
  <2> DEFINE r == [proc[p] EXCEPT !.pc = "idle", !.running = TRUE, !.won = FALSE, !.seen = NoLock]
  <2>1. r \in Proc
    BY DEF Proc, PC, NoLock, Locks
  <2>2. proc' = [proc EXCEPT ![p] = r]
    BY DEF Fill, Granted
  <2>3. lock' = lock /\ mishaps' = mishaps /\ crashes' = crashes /\ clock' = clock
    BY DEF Fill
  <2>4. lease' \in Leases
    BY DEF Fill, Lease, Leases, Empty, NoFile
  <2>5. OnlyLoop(p) /\ proc'[p] = r
    BY <2>1, <2>2, <2>3, LoopSet
  <2> QED BY <2>3, <2>4, <2>5 DEF Fill, At, Proc
<1>2. OnlyUntil(p, proc[p].now + Ttl)
  <2>1. proc[p].now + Ttl \in Nat
    OBVIOUS
  <2> QED BY <2>1, UntilSet DEF Fill, Granted
<1>3. ClockSound(p)'
  BY <1>1 DEF ClockSound, At, Busy, OnlyLoop, Stale, Locks
<1>4. LockSound'
  BY <1>1, QuietLock DEF Critical
<1>5. mishaps' = {} => \A q \in Processes : HolderSound(q)'
  <2> SUFFICES ASSUME mishaps' = {}, NEW q \in Processes PROVE HolderSound(q)'
    OBVIOUS
  <2>1. HolderSound(p) /\ HolderSound(q)
    BY <1>1 DEF LeaseInv
  <2>2. lease = Empty(p) /\ lease' = Lease(p, proc[p].now + Ttl) /\ clock < proc[p].now + Ttl
    BY <1>1, <2>1 DEF HolderSound, ClockSound, At, Busy
  <2>3. CASE q = p
    BY <1>1, <1>2, <2>1, <2>2, <2>3
       DEF HolderSound, ClockSound, OnlyLoop, OnlyUntil, At, Expired, Leases, Lease, Empty, NoFile
  <2>4. CASE q # p
    BY <1>1, <1>2, <2>1, <2>2, <2>4
       DEF HolderSound, ClockSound, OnlyLoop, OnlyUntil, At, Expired, Leases, Lease, Empty, NoFile
  <2> QED BY <2>3, <2>4
<1> QED BY <1>1, <1>2, <1>3, <1>4, <1>5, StepInv DEF OnlyUntil

\* The fast path writes over a lease that is its own.
LEMMA RenewInv == ASSUME LeaseInv, NEW p \in Processes, Renew(p) PROVE LeaseInv'
<1> USE Typed, ChannelLeaseAssumption
<1>1. /\ OnlyLoop(p) /\ lock' = lock /\ mishaps' = mishaps /\ crashes' = crashes
      /\ lease' \in Leases
      /\ proc[p].pc = "renew" /\ proc'[p].now = proc[p].now /\ proc'[p].won = FALSE
      /\ proc'[p].pc = "idle" /\ lease' = Lease(p, proc[p].now + Ttl)
  <2> DEFINE r == [proc[p] EXCEPT !.pc = "idle", !.running = TRUE, !.won = FALSE, !.seen = NoLock]
  <2>1. r \in Proc
    BY DEF Proc, PC, NoLock, Locks
  <2>2. proc' = [proc EXCEPT ![p] = r]
    BY DEF Renew, Granted
  <2>3. lock' = lock /\ mishaps' = mishaps /\ crashes' = crashes /\ clock' = clock
    BY DEF Renew
  <2>4. lease' \in Leases
    BY DEF Renew, Lease, Leases, Empty, NoFile
  <2>5. OnlyLoop(p) /\ proc'[p] = r
    BY <2>1, <2>2, <2>3, LoopSet
  <2> QED BY <2>3, <2>4, <2>5 DEF Renew, At, Proc
<1>2. OnlyUntil(p, proc[p].now + Ttl)
  <2>1. proc[p].now + Ttl \in Nat
    OBVIOUS
  <2> QED BY <2>1, UntilSet DEF Renew, Granted
<1>3. ClockSound(p)'
  BY <1>1 DEF ClockSound, At, Busy, OnlyLoop, Stale, Locks
<1>4. LockSound'
  BY <1>1, QuietLock DEF Critical
<1>5. mishaps' = {} => \A q \in Processes : HolderSound(q)'
  <2> SUFFICES ASSUME mishaps' = {}, NEW q \in Processes PROVE HolderSound(q)'
    OBVIOUS
  <2>1. HolderSound(p) /\ HolderSound(q)
    BY <1>1 DEF LeaseInv
  <2>2. lease = Lease(p, until[p]) /\ clock < until[p] /\ clock < proc[p].now + Ttl
    BY <1>1, <2>1 DEF HolderSound, ClockSound, At, Busy
  <2>3. CASE q = p
    BY <1>1, <1>2, <2>1, <2>2, <2>3
       DEF HolderSound, ClockSound, OnlyLoop, OnlyUntil, At, Expired, Leases, Lease, Empty, NoFile
  <2>4. CASE q # p
    BY <1>1, <1>2, <2>1, <2>2, <2>4
       DEF HolderSound, ClockSound, OnlyLoop, OnlyUntil, At, Expired, Leases, Lease, Empty, NoFile
  <2> QED BY <2>3, <2>4
<1> QED BY <1>1, <1>2, <1>3, <1>4, <1>5, StepInv DEF OnlyUntil

\* The lease written over has expired, so nobody holds it, and the lock keeps the
\* others from the same.
LEMMA WriteInv == ASSUME LeaseInv, NEW p \in Processes, Write(p) PROVE LeaseInv'
<1> USE Typed, ChannelLeaseAssumption
<1>1. /\ OnlyLoop(p) /\ lock' = lock /\ mishaps' = mishaps /\ crashes' = crashes
      /\ lease' \in Leases
      /\ proc[p].pc = "write" /\ proc'[p].now = proc[p].now /\ proc'[p].won = TRUE
      /\ proc'[p].pc = "unlock" /\ lease' = Lease(p, proc[p].now + Ttl)
  <2> DEFINE r == [proc[p] EXCEPT !.pc = "unlock", !.won = TRUE]
  <2>1. r \in Proc
    BY DEF Proc, PC, NoLock, Locks
  <2>2. proc' = [proc EXCEPT ![p] = r]
    BY DEF Write, Goto
  <2>3. lock' = lock /\ mishaps' = mishaps /\ crashes' = crashes /\ clock' = clock
    BY DEF Write
  <2>4. lease' \in Leases
    BY DEF Write, Lease, Leases, Empty, NoFile
  <2>5. OnlyLoop(p) /\ proc'[p] = r
    BY <2>1, <2>2, <2>3, LoopSet
  <2> QED BY <2>3, <2>4, <2>5 DEF Write, At, Proc
<1>2. OnlyUntil(p, until[p])
  BY UntilKept DEF Write
<1>3. ClockSound(p)'
  BY <1>1 DEF ClockSound, At, Busy, OnlyLoop, Stale, Locks
<1>4. LockSound'
  BY <1>1, QuietLock DEF Critical
<1>5. mishaps' = {} => \A q \in Processes : HolderSound(q)'
  <2> SUFFICES ASSUME mishaps' = {}, NEW q \in Processes PROVE HolderSound(q)'
    OBVIOUS
  <2>1. HolderSound(p) /\ HolderSound(q)
    BY <1>1 DEF LeaseInv
  <2>2. /\ lease.owner # Nobody /\ lease.expires <= clock /\ until[p] = 0
        /\ q # p => proc[q].pc \notin {"write", "unlock"}
    BY <1>1, <2>1 DEF HolderSound, At, LockSound, Critical
  <2>3. CASE q = p
    BY <1>1, <1>2, <2>1, <2>2, <2>3
       DEF HolderSound, ClockSound, OnlyLoop, OnlyUntil, At, Expired, Leases, Lease, Empty, NoFile
  <2>4. CASE q # p
    BY <1>1, <1>2, <2>1, <2>2, <2>4
       DEF HolderSound, ClockSound, OnlyLoop, OnlyUntil, At, Expired, Leases, Lease, Empty, NoFile
  <2> QED BY <2>3, <2>4
<1> QED BY <1>1, <1>2, <1>3, <1>4, <1>5, StepInv DEF OnlyUntil

\* release removes its own lease.
LEMMA RemoveInv == ASSUME LeaseInv, NEW p \in Processes, Remove(p) PROVE LeaseInv'
<1> USE Typed, ChannelLeaseAssumption
<1> PICK pc \in AfterRelease : Goto(p, pc)
  BY DEF Remove
<1>1. /\ OnlyLoop(p) /\ lock' = lock /\ mishaps' = mishaps /\ crashes' = crashes
      /\ lease' \in Leases
      /\ proc[p].pc = "remove" /\ proc'[p].now = proc[p].now /\ proc'[p].won = proc[p].won
      /\ proc'[p].pc = pc /\ lease' = NoFile
  <2> DEFINE r == [proc[p] EXCEPT !.pc = pc]
  <2>1. r \in Proc
    BY DEF Proc, PC, AfterRelease
  <2>2. proc' = [proc EXCEPT ![p] = r]
    BY DEF Remove, Goto
  <2>3. lock' = lock /\ mishaps' = mishaps /\ crashes' = crashes /\ clock' = clock
    BY DEF Remove
  <2>4. lease' \in Leases
    BY DEF Remove, Lease, Leases, Empty, NoFile
  <2>5. OnlyLoop(p) /\ proc'[p] = r
    BY <2>1, <2>2, <2>3, LoopSet
  <2> QED BY <2>3, <2>4, <2>5 DEF Remove, At, Proc
<1>2. OnlyUntil(p, 0)
  BY UntilSet DEF Remove
<1>3. ClockSound(p)'
  BY <1>1 DEF ClockSound, At, Busy, OnlyLoop, AfterRelease
<1>4. LockSound'
  BY <1>1, QuietLock DEF Critical, AfterRelease
<1>5. mishaps' = {} => \A q \in Processes : HolderSound(q)'
  <2> SUFFICES ASSUME mishaps' = {}, NEW q \in Processes PROVE HolderSound(q)'
    OBVIOUS
  <2>1. HolderSound(p) /\ HolderSound(q)
    BY <1>1 DEF LeaseInv
  <2>2. lease = Lease(p, until[p]) /\ clock < until[p]
    BY <1>1, <2>1 DEF HolderSound, At
  <2>3. CASE q = p
    BY <1>1, <1>2, <2>1, <2>2, <2>3
       DEF HolderSound, ClockSound, OnlyLoop, OnlyUntil, At, Expired, AfterRelease, Lease, NoFile
  <2>4. CASE q # p
    BY <1>1, <1>2, <2>1, <2>2, <2>4
       DEF HolderSound, ClockSound, OnlyLoop, OnlyUntil, At, Expired, Lease, Empty, NoFile
  <2> QED BY <2>3, <2>4
<1> QED BY <1>1, <1>2, <1>3, <1>4, <1>5, StepInv DEF OnlyUntil

\* Time passes, and every healthy process keeps its deadlines.
LEMMA TickInv == ASSUME Timely, LeaseInv, Tick PROVE LeaseInv'
<1> USE ChannelLeaseAssumption
<1>1. /\ clock' = clock + 1 /\ clock \in Nat
      /\ UNCHANGED <<lease, lock, proc, until, mishaps, crashes>>
  BY DEF Tick, LeaseInv, LeaseTypeOK
<1>2. ASSUME NEW p \in Processes PROVE At(p, "dead") \/ Punctual(p, clock + 1)
  BY <1>2 DEF Tick
<1>3. LeaseTypeOK'
  BY <1>1 DEF LeaseInv, LeaseTypeOK
<1>4. LockSound'
  <2> SUFFICES ASSUME "wrongLock" \notin mishaps', NEW p \in Processes, Critical(p)'
               PROVE  lock'.by = p /\ clock' <= lock'.born + StaleAfter
    BY DEF LockSound
  <2>1. Critical(p) /\ "wrongLock" \notin mishaps /\ lock' = lock
    BY <1>1 DEF Critical
  <2>2. Punctual(p, clock + 1)
    BY <1>2, <2>1 DEF Critical, At
  <2> QED BY <1>1, <2>1, <2>2 DEF Punctual, LeaseInv, LockSound
<1>5. ASSUME NEW p \in Processes PROVE ClockSound(p)'
  BY <1>1, <1>2, Typed DEF Punctual, ClockSound, At, Busy, Proc, Locks
<1>6. ASSUME mishaps' = {}, NEW p \in Processes PROVE HolderSound(p)'
  <2>1. HolderSound(p)
    BY <1>1, <1>6 DEF LeaseInv
  <2>2. until[p] # 0 => clock + 1 < until[p]
    BY <1>2, <2>1 DEF HolderSound, Punctual, At
  <2> QED BY <1>1, <2>1, <2>2, Typed DEF HolderSound, At, Leases
<1> QED BY <1>3, <1>4, <1>5, <1>6 DEF LeaseInv

\* At the start nothing is held.
LEMMA InitInv == Init => LeaseInv
<1> SUFFICES ASSUME Init PROVE LeaseInv
  OBVIOUS
<1> USE ChannelLeaseAssumption
<1>1. LeaseTypeOK
  BY DEF Init, LeaseTypeOK, Leases, Locks, NoFile, NoLock, Proc, PC
<1>2. LockSound
  BY DEF Init, LockSound, Critical
<1>3. ASSUME NEW p \in Processes PROVE ClockSound(p) /\ HolderSound(p)
  <2>1. /\ proc[p].pc = "idle" /\ proc[p].now = 0 /\ proc[p].won = FALSE /\ until[p] = 0
        /\ clock = 0 /\ lease.owner = Nobody
    BY DEF Init, NoFile
  <2> QED BY <2>1 DEF ClockSound, HolderSound, At, Busy
<1> QED BY <1>1, <1>2, <1>3 DEF LeaseInv

\* Every step keeps the invariant.
LEMMA NextInv == ASSUME Timely, LeaseInv, [Next]_vars PROVE LeaseInv'
<1>1. ASSUME NEW p \in Processes,
             \/ Reconcile(p) \/ Create(p) \/ Fill(p) \/ Peek(p) \/ Renew(p)
             \/ Acquire(p) \/ GiveUp(p) \/ Break(p) \/ Read(p) \/ Write(p) \/ Unlock(p)
             \/ Stop(p) \/ ReleaseRead(p) \/ Remove(p) \/ Crash(p)
      PROVE  LeaseInv'
  BY <1>1, ReconcileInv, CreateInv, FillInv, PeekInv, RenewInv, AcquireInv, GiveUpInv,
     BreakInv, ReadInv, WriteInv, UnlockInv, StopInv, ReleaseReadInv, RemoveInv, CrashInv
<1>2. CASE Tick
  BY <1>2, TickInv
<1>3. CASE UNCHANGED vars
  BY <1>3 DEF vars, LeaseInv, LeaseTypeOK, LockSound, ClockSound, HolderSound, Critical, At,
     Busy
<1> QED BY <1>1, <1>2, <1>3 DEF Next, TimeIsUp

-----------------------------------------------------------------------------

\* The invariant behind the three theorems below: what every process knows of the
\* lease agrees with the lease file, between any two system calls of try_claim
\* and release.
THEOREM LeaseInvariance == Timely => (Spec => []LeaseInv)
<1> SUFFICES ASSUME Timely PROVE Spec => []LeaseInv
  OBVIOUS
<1> QED BY InitInv, NextInv, PTL DEF Spec

\* At most one process is between reclaim_with_lock taking the lock and dropping
\* it, "Only one caller at a time ever gets past this point for a given lease
\* file" (channel_lease_store.rs:244-245), for any number of processes and
\* crashes, until break_stale removes a lock that it did not find stale.
THEOREM LockIsExclusive == Timely => (Spec => []LockExclusive)
<1>1. LeaseInv => LockExclusive
  BY DEF LeaseInv, LockSound, LockExclusive
<1> QED BY <1>1, LeaseInvariance, PTL

\* At most one process has an answer Ok(true) of try_claim whose time has not
\* passed, for any lease time, number of processes and crashes, until a claim
\* under the lock finds no lease in the file or removes a lock it did not judge.
THEOREM LeaseIsExclusive == Timely => (Spec => []ExclusiveLease)
<1>1. LeaseInv => ExclusiveLease
  <2> SUFFICES ASSUME LeaseInv, mishaps = {},
                      NEW p \in Processes, NEW q \in Processes, Holds(p), Holds(q)
               PROVE  p = q
    BY DEF ExclusiveLease, OneHolder
  <2>1. lease = Lease(p, until[p]) /\ lease = Lease(q, until[q])
    BY Typed DEF LeaseInv, HolderSound, Holds
  <2> QED BY <2>1 DEF Lease
<1> QED BY <1>1, LeaseInvariance, PTL

\* The owner in the lease file gives way to another process only once the lease
\* has expired, unless it released it or a mishap has happened: reclaim_with_lock
\* reads and writes the file in two steps, and the heartbeat of the owner may come
\* between them.
THEOREM LiveLeaseIsKept == Timely => (Spec => LiveLeaseKept)
<1> DEFINE Kept == mishaps' = {} /\ lease.owner # Nobody
                      /\ lease'.owner \notin {lease.owner, Nobody} => lease.expires <= clock
<1>1. ASSUME LeaseInv, [Next]_vars PROVE Kept
  <2> SUFFICES ASSUME mishaps' = {}, lease.owner # Nobody,
                      lease'.owner \notin {lease.owner, Nobody}
               PROVE  lease.expires <= clock
    OBVIOUS
  <2>1. CASE lease' = lease
    BY <2>1
  <2>2. ASSUME NEW p \in Processes, Fill(p) \/ Renew(p) \/ Write(p)
        PROVE  lease.expires <= clock
    <3>1. mishaps' = mishaps
      BY <2>2 DEF Fill, Renew, Write
    <3>2. HolderSound(p)
      BY <1>1, <2>2, <3>1 DEF LeaseInv
    <3>3. CASE Fill(p)
      BY <3>2, <3>3 DEF Fill, HolderSound, At, Empty
    <3>4. CASE Renew(p)
      BY <3>2, <3>4 DEF Renew, HolderSound, At, Lease
    <3>5. CASE Write(p)
      BY <3>2, <3>5 DEF Write, HolderSound, At
    <3> QED BY <2>2, <3>3, <3>4, <3>5
  <2>3. ASSUME NEW p \in Processes, Create(p) \/ Remove(p) PROVE lease.expires <= clock
    BY <2>1, <2>3 DEF Create, Remove, NoFile, Empty
  <2>4. ASSUME NEW p \in Processes,
               \/ Reconcile(p) \/ Peek(p) \/ Acquire(p) \/ GiveUp(p) \/ Break(p) \/ Read(p)
               \/ Unlock(p) \/ Stop(p) \/ ReleaseRead(p) \/ Crash(p)
        PROVE  lease.expires <= clock
    <3>1. lease' = lease
      BY <2>4 DEF Reconcile, Peek, Acquire, GiveUp, Break, Read, Unlock, Stop, ReleaseRead, Crash
    <3> QED BY <2>1, <3>1
  <2>5. CASE Tick \/ UNCHANGED vars
    BY <2>1, <2>5 DEF Tick, vars
  <2> QED
    <3>1. Next \/ UNCHANGED vars
      BY <1>1
    <3> QED BY <2>2, <2>3, <2>4, <2>5, <3>1 DEF Next, TimeIsUp
<1>2. LeaseInv /\ [Next]_vars => [Kept]_vars
  BY <1>1
<1>3. Timely => (Spec => [][Kept]_vars)
  BY <1>2, LeaseInvariance, PTL DEF Spec
<1> QED BY <1>3 DEF LiveLeaseKept
=============================================================================
