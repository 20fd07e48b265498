------------------------ MODULE ChannelLeaseInvariant ------------------------
(***************************************************************************)
(* The inductive invariant of ChannelLease, for TLC and for the proofs.     *)
(***************************************************************************)
EXTENDS ChannelLease

\* Without a wrong removal the lock is the file of the process that holds it.
LockSound ==
    "wrongLock" \notin mishaps =>
        \A p \in Processes : Critical(p) => /\ lock.by = p
                                            /\ clock <= lock.born + StaleAfter

\* What punctuality gives: claims end in time, a lock found too old stays so.
ClockSound(p) ==
    /\ proc[p].now <= clock
    /\ Busy(p) => clock < proc[p].now + Ttl
    /\ At(p, "break") => clock > proc[p].seen.born + StaleAfter
    /\ proc[p].won => proc[p].pc \in {"unlock", "dead"}

\* What p knows of the lease is what is in the file: a process that holds it
\* finds it there, and one that is about to write, renew or remove it still may.
HolderSound(p) ==
    /\ until[p] # 0 =>
          /\ clock < until[p] /\ lease = Lease(p, until[p])
          /\ proc[p].pc \in {"idle", "create", "peek", "renew", "release", "remove"}
    /\ lease.owner = p /\ proc[p].pc \notin {"unlock", "dead"} =>
          until[p] # 0 /\ until[p] = lease.expires
    /\ At(p, "fill") => lease = Empty(p)
    /\ proc[p].pc \in {"renew", "remove"} => lease.owner = p
    /\ At(p, "write") => lease.owner # Nobody /\ lease.expires <= clock
    /\ At(p, "unlock") => IF proc[p].won THEN lease = Lease(p, proc[p].now + Ttl)
                                         ELSE lease.owner # p

LeaseInv ==
    /\ LeaseTypeOK
    /\ LockSound
    /\ \A p \in Processes : ClockSound(p)
    /\ mishaps = {} => \A p \in Processes : HolderSound(p)
=============================================================================
