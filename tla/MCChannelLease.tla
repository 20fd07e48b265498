--------------------------- MODULE MCChannelLease ---------------------------
(***************************************************************************)
(* Three processes and a short clock for TLC.  A tick is about five         *)
(* seconds: the lock goes stale after more than one, the lease after three. *)
(***************************************************************************)
EXTENDS ChannelLeaseInvariant, TLC

CONSTANTS p1, p2, p3

Three == {p1, p2, p3}
Two == {p1, p2}
Symmetric == Permutations(Processes)
=============================================================================
