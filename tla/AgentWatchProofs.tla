--------------------------- MODULE AgentWatchProofs ---------------------------
(***************************************************************************)
(* The invariant of AgentWatch and what it is for: findings that are in    *)
(* the ledger before their run and while it may be executed, Confirmed     *)
(* only after a turn that ended, repeated late or never, and a history     *)
(* that is never reported, for any items, reports, edits and crashes; but  *)
(* for the findings whose entries an edit has put back, which are named.   *)
(***************************************************************************)
EXTENDS AgentWatchInvariant, FiniteSetTheorems, SequenceTheorems, WellFoundedInduction, TLAPS

-----------------------------------------------------------------------------
(* Induction over the numbers up to a bound, and walks along them.         *)

\* A set of numbers that is not empty has a least one.
LEMMA Least ==
    ASSUME NEW S, S \subseteq Nat, S # {}
    PROVE  \E n \in S : \A m \in S : n <= m
<1> DEFINE R == {s \in Nat \X Nat : s[1] < s[2]}
<1>1. IsWellFoundedOn(R, Nat)
  BY NatLessThanWellFounded DEF OpToRel
<1>2. PICK n \in S : \A m \in S : ~(<<m, n>> \in R)
  <2> HIDE DEF R
  <2> QED BY <1>1, WFMin
<1>3. \A m \in S : n \in Nat /\ m \in Nat /\ ~(m < n)
  BY <1>2
<1>4. \A m \in S : n <= m
  BY <1>3
<1> QED BY <1>4

\* What holds of 0, and of each number if of the one before, holds of all of them.
LEMMA Induction ==
    ASSUME NEW N \in Nat, NEW S, 0 \in S, \A k \in 1 .. N : k - 1 \in S => k \in S
    PROVE  0 .. N \subseteq S
<1> SUFFICES ASSUME ~(0 .. N \subseteq S) PROVE FALSE
  OBVIOUS
<1> DEFINE out == (0 .. N) \ S
<1>1. PICK n \in out : \A m \in out : n <= m
  <2>1. out \subseteq Nat /\ out # {}
    OBVIOUS
  <2> HIDE DEF out
  <2> QED BY <2>1, Least
<1>2. n \in 1 .. N
  BY <1>1
<1>3. n - 1 \in 0 .. N /\ n - 1 \notin out
  BY <1>1, <1>2
<1> QED BY <1>1, <1>2, <1>3

\* A walk of N steps from base.
Walks(f, N, S, base, F) ==
    /\ f \in [0 .. N -> S] /\ f[0] = base
    /\ \A k \in 1 .. N : f[k] = F[<<k, f[k - 1]>>]

\* A walk of a given length over states, each from the one before, exists.
LEMMA WalkExists ==
    ASSUME NEW N \in Nat, NEW S, NEW base \in S, NEW F \in [(1 .. N) \X S -> S]
    PROVE  \E f : Walks(f, N, S, base, F)
<1> DEFINE Upto(n, f) == /\ f \in [0 .. n -> S]
                         /\ \A k \in 0 .. n : f[k] = IF k = 0 THEN base ELSE F[<<k, f[k - 1]>>]
           P == {n \in 0 .. N : \E f : Upto(n, f)}
<1>1. 0 \in P
  <2> DEFINE f == [k \in 0 .. 0 |-> base]
  <2>1. 0 .. 0 = {0}
    OBVIOUS
  <2>2. f \in [0 .. 0 -> S] /\ f[0] = base
    BY <2>1
  <2> HIDE DEF f
  <2>3. Upto(0, f)
    BY <2>1, <2>2
  <2>4. 0 \in 0 .. N
    OBVIOUS
  <2> QED BY <2>3, <2>4
<1>2. ASSUME NEW n \in 1 .. N, n - 1 \in P PROVE n \in P
  <2>1. PICK f : Upto(n - 1, f)
    BY <1>2
  <2> DEFINE g == [k \in 0 .. n |-> IF k = n THEN F[<<n, f[n - 1]>>] ELSE f[k]]
  <2>2. f[n - 1] \in S /\ F[<<n, f[n - 1]>>] \in S
    BY <2>1
  <2>3. g \in [0 .. n -> S]
    BY <2>1, <2>2
  <2>4. \A k \in 0 .. n - 1 : g[k] = f[k]
    OBVIOUS
  <2>5. g[n] = F[<<n, f[n - 1]>>]
    OBVIOUS
  <2> HIDE DEF g
  <2>6. ASSUME NEW k \in 0 .. n PROVE g[k] = IF k = 0 THEN base ELSE F[<<k, g[k - 1]>>]
    <3>1. CASE k = n
      <4>1. k # 0 /\ k - 1 \in 0 .. n - 1
        BY <3>1
      <4> QED BY <2>4, <2>5, <3>1, <4>1
    <3>2. CASE k = 0
      <4>1. k \in 0 .. n - 1
        BY <3>2
      <4> QED BY <2>1, <2>4, <3>2, <4>1
    <3>3. CASE k \in 1 .. n - 1
      <4>1. k \in 0 .. n - 1 /\ k - 1 \in 0 .. n - 1 /\ k # 0
        BY <3>3
      <4> QED BY <2>1, <2>4, <4>1
    <3> QED BY <3>1, <3>2, <3>3
  <2>7. Upto(n, g)
    BY <2>3, <2>6
  <2> QED BY <2>7
<1>3. N \in P
  <2> HIDE DEF P
  <2> QED BY <1>1, <1>2, Induction
<1>4. PICK f : Upto(N, f)
  BY <1>3
<1>5. f \in [0 .. N -> S] /\ f[0] = base /\ \A k \in 1 .. N : f[k] = F[<<k, f[k - 1]>>]
  <2>1. f[0] = base
    <3>1. 0 \in 0 .. N
      OBVIOUS
    <3> QED BY <1>4, <3>1
  <2>2. ASSUME NEW k \in 1 .. N PROVE f[k] = F[<<k, f[k - 1]>>]
    <3>1. k \in 0 .. N /\ k # 0
      OBVIOUS
    <3> QED BY <1>4, <3>1
  <2> QED BY <1>4, <2>1, <2>2
<1> QED BY <1>5 DEF Walks

\* What is left when an element goes.
LEMMA Removed ==
    ASSUME NEW S, NEW s \in Seq(S), NEW k \in 1 .. Len(s)
    PROVE  /\ RemoveAt(s, k) \in Seq(S) /\ Len(RemoveAt(s, k)) = Len(s) - 1
           /\ \A i \in 1 .. Len(s) - 1 : RemoveAt(s, k)[i] = IF i < k THEN s[i] ELSE s[i + 1]
<1>1. SubSeq(s, 1, k - 1) \in Seq(S) /\ Len(SubSeq(s, 1, k - 1)) = k - 1
      /\ \A i \in 1 .. k - 1 : SubSeq(s, 1, k - 1)[i] = s[i]
  BY SubSeqProperties
<1>2. SubSeq(s, k + 1, Len(s)) \in Seq(S) /\ Len(SubSeq(s, k + 1, Len(s))) = Len(s) - k
      /\ \A i \in 1 .. Len(s) - k : SubSeq(s, k + 1, Len(s))[i] = s[k + i]
  BY SubSeqProperties
<1> DEFINE a == SubSeq(s, 1, k - 1)
           b == SubSeq(s, k + 1, Len(s))
<1>3. RemoveAt(s, k) = a \o b
  BY DEF RemoveAt
<1> HIDE DEF a, b
<1>4. /\ a \o b \in Seq(S) /\ Len(a \o b) = Len(a) + Len(b)
      /\ \A i \in 1 .. Len(a) + Len(b) : (a \o b)[i] = IF i <= Len(a) THEN a[i] ELSE b[i - Len(a)]
  BY <1>1, <1>2, ConcatProperties DEF a, b
<1>5. Len(s) \in Nat /\ Len(a) = k - 1 /\ Len(b) = Len(s) - k
  BY <1>1, <1>2 DEF a, b
<1>6. ASSUME NEW i \in 1 .. Len(s) - 1 PROVE (a \o b)[i] = IF i < k THEN s[i] ELSE s[i + 1]
  <2>1. CASE i < k
    <3>1. i \in 1 .. k - 1 /\ i \in 1 .. Len(a) + Len(b) /\ i <= Len(a)
      BY <1>5, <2>1
    <3> QED BY <1>1, <1>4, <2>1, <3>1 DEF a
  <2>2. CASE ~(i < k)
    <3>1. i \in 1 .. Len(a) + Len(b) /\ ~(i <= Len(a)) /\ i - Len(a) \in 1 .. Len(s) - k
          /\ k + (i - Len(a)) = i + 1
      BY <1>5, <2>2
    <3> QED BY <1>2, <1>4, <2>2, <3>1 DEF b
  <2> QED BY <2>1, <2>2
<1>7. Len(a) + Len(b) = Len(s) - 1
  BY <1>5
<1> QED BY <1>3, <1>4, <1>6, <1>7

\* Nothing but the element that goes is lost.
LEMMA RemovedKeeps ==
    ASSUME NEW S, NEW s \in Seq(S), NEW k \in 1 .. Len(s), NEW i \in 1 .. Len(s), i # k
    PROVE  \E j \in 1 .. Len(s) - 1 : RemoveAt(s, k)[j] = s[i]
<1>1. CASE i < k
  <2>1. i \in 1 .. Len(s) - 1
    BY <1>1
  <2> QED BY <1>1, <2>1, Removed
<1>2. CASE i > k
  <2>1. i - 1 \in 1 .. Len(s) - 1 /\ ~(i - 1 < k) /\ (i - 1) + 1 = i
    BY <1>2
  <2>2. RemoveAt(s, k)[i - 1] = s[i]
    BY <2>1, Removed
  <2> QED BY <2>1, <2>2
<1> QED BY <1>1, <1>2

-----------------------------------------------------------------------------
(* The pass over the ledger.                                               *)

\* An entry as the pass leaves it, and one it gives up.
Comes(a, b) ==
    \/ b = a
    \/ ~Ended(a.run) /\ b = [a EXCEPT !.polls = @ + 1]
    \/ Ended(a.run) /\ b = [a EXCEPT !.status = "Confirmed", !.run = 0]
GivenUp(e) == ~Ended(e.run) /\ ~Waits(e)

Walked == {st \in [pad : Pad, panics : BOOLEAN, retried : SUBSET Items, forgets : BOOLEAN] :
              PadOK(st.pad)}

\* Everything else of the scratchpad.
Besides(pad, q) ==
    /\ q.bound = pad.bound /\ q.seen_ids = pad.seen_ids
    /\ q.streak = pad.streak /\ q.authored = pad.authored

\* What the pass has made of the scratchpad up to an index.
Reconciled(pad, k, st) ==
    LET L == pad.seen_deliveries
        M == st.pad.seen_deliveries
    IN  /\ Besides(pad, st.pad)
        /\ \A j \in DOMAIN M : \E i \in DOMAIN L :
              Comes(L[i], M[j]) /\ (j > k => M[j] = L[i])
        /\ \A i \in DOMAIN L :
              \/ \E j \in DOMAIN M : M[j].id = L[i].id
              \/ GivenUp(L[i]) /\ (L[i].status = "Confirmed" => st.forgets)
        /\ \A i \in DOMAIN pad.snapshots :
              \/ pad.snapshots[i].item \in st.retried
              \/ \E j \in DOMAIN st.pad.snapshots : st.pad.snapshots[j] = pad.snapshots[i]

\* The snapshots but that of an item.
SnapshotsBut(S, i, R) ==
    /\ R \in Seq(Snapshot) /\ Distinct(R) /\ Len(R) <= Len(S)
    /\ \A k \in DOMAIN R : R[k].item # i
    /\ \A k \in DOMAIN R : \E j \in DOMAIN S : S[j] = R[k]
    /\ \A j \in DOMAIN S : S[j].item # i => \E k \in DOMAIN R : R[k] = S[j]

\* What is left of the snapshots without that of an item.
LEMMA WithoutSnapshot ==
    ASSUME NEW S \in Seq(Snapshot), Distinct(S), NEW i
    PROVE  SnapshotsBut(S, i, WithoutItem(S, i))
<1> DEFINE R == WithoutItem(S, i)
<1>0. Len(S) \in Nat /\ DOMAIN S = 1 .. Len(S)
  OBVIOUS
<1>1. CASE SnapshotOf(S, i) = {}
  <2>1. R = S /\ \A k \in DOMAIN S : S[k].item # i
    BY <1>1 DEF WithoutItem, SnapshotOf
  <2> HIDE DEF R
  <2>2. SnapshotsBut(S, i, R)
    BY <1>0, <2>1 DEF SnapshotsBut
  <2> QED BY <2>2 DEF R
<1>2. CASE SnapshotOf(S, i) # {}
  <2>1. PICK k : k = (CHOOSE n \in SnapshotOf(S, i) : TRUE)
    OBVIOUS
  <2>2. k \in 1 .. Len(S) /\ S[k].item = i
    BY <1>0, <1>2, <2>1 DEF SnapshotOf
  <2>3. R = RemoveAt(S, k)
    BY <1>2, <2>1 DEF WithoutItem
  <2> HIDE DEF R
  <2>4. R \in Seq(Snapshot) /\ Len(R) = Len(S) - 1
    BY <2>2, <2>3, Removed
  <2>5. DOMAIN R = 1 .. Len(S) - 1
    BY <2>4
  <2>6. ASSUME NEW m \in 1 .. Len(S) - 1
        PROVE  \E n \in 1 .. Len(S) :
                  n # k /\ R[m] = S[n] /\ (m < k => n = m) /\ (m >= k => n = m + 1)
    <3>1. R[m] = IF m < k THEN S[m] ELSE S[m + 1]
      BY <2>2, <2>3, Removed
    <3> QED BY <1>0, <2>2, <3>1
  <2>7. \A n \in 1 .. Len(S) : n # k => \E m \in 1 .. Len(S) - 1 : R[m] = S[n]
    BY <2>2, <2>3, RemovedKeeps
  <2>8. \A n \in 1 .. Len(S) : n # k => S[n].item # i
    BY <1>0, <2>2 DEF Distinct
  <2>9. Distinct(R)
    <3>1. SUFFICES ASSUME NEW m \in DOMAIN R, NEW n \in DOMAIN R, R[m].item = R[n].item
                   PROVE  m = n
      BY DEF Distinct
    <3>2. PICK a \in 1 .. Len(S) : a # k /\ R[m] = S[a] /\ (m < k => a = m) /\ (m >= k => a = m + 1)
      BY <2>5, <2>6
    <3>3. PICK b \in 1 .. Len(S) : b # k /\ R[n] = S[b] /\ (n < k => b = n) /\ (n >= k => b = n + 1)
      BY <2>5, <2>6
    <3>4. a = b
      BY <1>0, <3>1, <3>2, <3>3 DEF Distinct
    <3>5. m \in Nat /\ n \in Nat /\ k \in Nat
      BY <2>2, <2>5
    <3> QED BY <3>2, <3>3, <3>4, <3>5
  <2>10. \A m \in DOMAIN R : R[m].item # i
    BY <2>5, <2>6, <2>8
  <2>11. \A m \in DOMAIN R : \E j \in DOMAIN S : S[j] = R[m]
    BY <1>0, <2>5, <2>6
  <2>12. \A j \in DOMAIN S : S[j].item # i => \E m \in DOMAIN R : R[m] = S[j]
    BY <1>0, <2>2, <2>5, <2>7
  <2>13. Len(R) <= Len(S)
    BY <1>0, <2>4
  <2> QED BY <2>4, <2>9, <2>10, <2>11, <2>12, <2>13 DEF R, SnapshotsBut
<1> QED BY <1>1, <1>2

\* The ledger but the entry at an index.
LedgerBut(L, k, R) ==
    /\ R \in Seq(LedgerEntry) /\ Unique(R)
    /\ \A m \in DOMAIN R : \E n \in DOMAIN L : n # k /\ R[m] = L[n] /\ (m >= k => n = m + 1)
    /\ \A n \in DOMAIN L : n # k => \E m \in DOMAIN R : R[m] = L[n]

\* What is left of the ledger without an entry.
LEMMA WithoutEntry ==
    ASSUME NEW L \in Seq(LedgerEntry), Unique(L), NEW k \in 1 .. Len(L)
    PROVE  LedgerBut(L, k, RemoveAt(L, k))
<1> DEFINE R == RemoveAt(L, k)
<1>0. Len(L) \in Nat /\ DOMAIN L = 1 .. Len(L)
  OBVIOUS
<1>1. R \in Seq(LedgerEntry) /\ Len(R) = Len(L) - 1
  BY Removed
<1>2. ASSUME NEW m \in 1 .. Len(L) - 1
      PROVE  \E n \in 1 .. Len(L) :
                n # k /\ R[m] = L[n] /\ (m < k => n = m) /\ (m >= k => n = m + 1)
  <2>1. R[m] = IF m < k THEN L[m] ELSE L[m + 1]
    BY Removed
  <2> HIDE DEF R
  <2> QED BY <1>0, <2>1
<1>3. \A n \in 1 .. Len(L) : n # k => \E m \in 1 .. Len(L) - 1 : R[m] = L[n]
  BY RemovedKeeps
<1> HIDE DEF R
<1>4. DOMAIN R = 1 .. Len(L) - 1
  BY <1>1
<1>5. Unique(R)
  <2>1. SUFFICES ASSUME NEW m \in DOMAIN R, NEW n \in DOMAIN R, R[m].id = R[n].id
                 PROVE  m = n
    BY DEF Unique
  <2>2. PICK a \in 1 .. Len(L) : a # k /\ R[m] = L[a] /\ (m < k => a = m) /\ (m >= k => a = m + 1)
    BY <1>2, <1>4
  <2>3. PICK b \in 1 .. Len(L) : b # k /\ R[n] = L[b] /\ (n < k => b = n) /\ (n >= k => b = n + 1)
    BY <1>2, <1>4
  <2>4. a = b
    BY <1>0, <2>1, <2>2, <2>3 DEF Unique
  <2>5. m \in Nat /\ n \in Nat /\ k \in Nat
    BY <1>0, <1>4
  <2> QED BY <2>2, <2>3, <2>4, <2>5
<1> QED BY <1>0, <1>1, <1>2, <1>3, <1>4, <1>5 DEF R, LedgerBut

\* What the pass does to the scratchpad with the entry at an index.
Settle(q, k) ==
    LET e == q.seen_deliveries[k]
    IN  IF Ended(e.run)
        THEN [q EXCEPT !.seen_deliveries[k] = [e EXCEPT !.status = "Confirmed", !.run = 0]]
        ELSE IF Waits(e) THEN [q EXCEPT !.seen_deliveries[k].polls = @ + 1]
        ELSE Clear(q, k)

\* What a step of the pass is made of.
LEMMA StepParts ==
    ASSUME NEW st \in Walked, NEW k \in Nat \ {0}, ~ReconcileAt(st, k).panics
    PROVE  LET e == st.pad.seen_deliveries[k]
               t == ReconcileAt(st, k)
           IN  /\ ~st.panics /\ k \in 1 .. Len(st.pad.seen_deliveries)
               /\ e \in LedgerEntry
               /\ t = [pad |-> Settle(st.pad, k), panics |-> FALSE,
                       retried |-> IF GivenUp(e) THEN st.retried \union {e.id[1]} ELSE st.retried,
                       forgets |-> st.forgets \/ (GivenUp(e) /\ e.status = "Confirmed")]
<1> DEFINE e == st.pad.seen_deliveries[k]
           t == ReconcileAt(st, k)
           L == st.pad.seen_deliveries
<1>1. st = [pad |-> st.pad, panics |-> st.panics, retried |-> st.retried, forgets |-> st.forgets]
      /\ st.panics \in BOOLEAN /\ st.forgets \in BOOLEAN
  BY DEF Walked
<1>2. L \in Seq(LedgerEntry)
  BY DEF Walked, Pad
<1>3. ~(st.panics \/ k > Len(L))
  BY <1>1 DEF ReconcileAt
<1>4. ~st.panics /\ k \in 1 .. Len(L)
  BY <1>2, <1>3
<1>5. e \in LedgerEntry
  BY <1>2, <1>4
<1>6. CASE Ended(e.run)
  <2>1. t = [st EXCEPT !.pad.seen_deliveries[k] = [e EXCEPT !.status = "Confirmed", !.run = 0]]
    BY <1>3, <1>6 DEF ReconcileAt
  <2>2. t = [pad |-> Settle(st.pad, k), panics |-> FALSE, retried |-> st.retried,
             forgets |-> st.forgets]
    BY <1>1, <1>4, <1>6, <2>1 DEF Settle
  <2> QED BY <1>1, <1>4, <1>5, <1>6, <2>2 DEF GivenUp
<1>7. CASE ~Ended(e.run) /\ Waits(e)
  <2>1. t = [st EXCEPT !.pad.seen_deliveries[k].polls = @ + 1]
    BY <1>3, <1>7 DEF ReconcileAt
  <2>2. t = [pad |-> Settle(st.pad, k), panics |-> FALSE, retried |-> st.retried,
             forgets |-> st.forgets]
    BY <1>1, <1>4, <1>7, <2>1 DEF Settle
  <2> QED BY <1>1, <1>4, <1>5, <1>7, <2>2 DEF GivenUp
<1>8. CASE GivenUp(e)
  <2>1. t = [st EXCEPT !.pad = Clear(@, k), !.retried = @ \union {e.id[1]},
                       !.forgets = @ \/ e.status = "Confirmed"]
    BY <1>3, <1>8 DEF ReconcileAt, GivenUp
  <2>2. t = [pad |-> Settle(st.pad, k), panics |-> FALSE, retried |-> st.retried \union {e.id[1]},
             forgets |-> st.forgets \/ e.status = "Confirmed"]
    BY <1>1, <1>4, <1>8, <2>1 DEF Settle, GivenUp
  <2> QED BY <1>1, <1>4, <1>5, <1>8, <2>2
<1> QED BY <1>6, <1>7, <1>8 DEF GivenUp

\* The scratchpad before and after it.
Settles(q, k, t) ==
    LET L == q.seen_deliveries
        M == t.seen_deliveries
        e == L[k]
    IN  /\ Besides(q, t)
        /\ \A j \in DOMAIN M :
              \/ j # k /\ j \in DOMAIN L /\ M[j] = L[j] /\ ~GivenUp(e)
              \/ j = k /\ ~GivenUp(e) /\ Comes(e, M[j])
              \/ /\ GivenUp(e)
                 /\ \E n \in DOMAIN L : n # k /\ M[j] = L[n] /\ (j >= k => n = j + 1)
        /\ \A n \in DOMAIN L : n # k \/ ~GivenUp(e) => \E j \in DOMAIN M : M[j].id = L[n].id
        /\ \A n \in DOMAIN q.snapshots :
              \/ GivenUp(e) /\ q.snapshots[n].item = e.id[1]
              \/ \E j \in DOMAIN t.snapshots : t.snapshots[j] = q.snapshots[n]

\* Every way in which the pass settles an entry.
LEMMA Settled ==
    ASSUME WatchAssumption, NEW q, PadOK(q), NEW k \in 1 .. Len(q.seen_deliveries),
           NEW t, t = Settle(q, k)
    PROVE  PadOK(t) /\ Settles(q, k, t)
<1>0. PICK L : L = q.seen_deliveries
  OBVIOUS
<1>00. PICK e : e = L[k]
  OBVIOUS
<1>1. /\ q \in Pad /\ L \in Seq(LedgerEntry) /\ Unique(L) /\ Len(L) \in Nat /\ DOMAIN L = 1 .. Len(L)
      /\ q.snapshots \in Seq(Snapshot) /\ Distinct(q.snapshots) /\ Len(q.snapshots) <= SnapshotCap
      /\ e \in LedgerEntry /\ SnapshotCap \in Nat /\ k \in DOMAIN L
  BY <1>0, <1>00 DEF PadOK, Pad, WatchAssumption
<1>2. ASSUME NEW x \in LedgerEntry, x.id = e.id, Comes(e, x), ~GivenUp(e),
             t = [q EXCEPT !.seen_deliveries = [L EXCEPT ![k] = x]]
      PROVE  PadOK(t) /\ Settles(q, k, t)
  <2>0. PICK M : M = t.seen_deliveries
    OBVIOUS
  <2>1. M = [L EXCEPT ![k] = x] /\ t.snapshots = q.snapshots /\ Besides(q, t) /\ t \in Pad
    <3>1. [L EXCEPT ![k] = x] \in Seq(LedgerEntry)
      BY <1>1, <1>2
    <3> QED BY <1>1, <1>2, <2>0, <3>1 DEF Pad, Besides
  <2>2. DOMAIN M = DOMAIN L /\ M[k] = x /\ \A j \in DOMAIN L : j # k => M[j] = L[j]
    BY <1>1, <2>1
  <2>3. \A j \in DOMAIN L : M[j].id = L[j].id
    BY <1>00, <1>2, <2>2
  <2>4. Unique(M)
    BY <1>1, <2>2, <2>3 DEF Unique
  <2>5. PadOK(t)
    BY <1>1, <2>0, <2>1, <2>4 DEF PadOK
  <2>6. \A n \in DOMAIN L : \E j \in DOMAIN M : M[j].id = L[n].id
    BY <2>2, <2>3
  <2>7. \A j \in DOMAIN M :
           \/ j # k /\ j \in DOMAIN L /\ M[j] = L[j] /\ ~GivenUp(e)
           \/ j = k /\ ~GivenUp(e) /\ Comes(e, M[j])
    BY <1>2, <2>2
  <2> QED BY <1>0, <1>00, <2>0, <2>1, <2>5, <2>6, <2>7, SMTT(30) DEF Settles
<1>3. CASE Ended(e.run)
  <2>0. PICK x : x = [e EXCEPT !.status = "Confirmed", !.run = 0]
    OBVIOUS
  <2>1. t = [q EXCEPT !.seen_deliveries = [L EXCEPT ![k] = x]]
    BY <1>0, <1>00, <1>1, <1>3, <2>0 DEF Settle
  <2>2. x \in LedgerEntry /\ x.id = e.id /\ Comes(e, x) /\ ~GivenUp(e)
    BY <1>1, <1>3, <2>0 DEF LedgerEntry, Comes, GivenUp
  <2> QED BY <1>2, <2>1, <2>2
<1>4. CASE ~Ended(e.run) /\ Waits(e)
  <2>0. PICK x : x = [e EXCEPT !.polls = @ + 1]
    OBVIOUS
  <2>1. t = [q EXCEPT !.seen_deliveries = [L EXCEPT ![k] = x]]
    BY <1>0, <1>00, <1>1, <1>4, <2>0 DEF Settle
  <2>2. x \in LedgerEntry /\ x.id = e.id
    <3>1. e.polls + 1 \in Nat
      BY <1>1, SMTT(30) DEF LedgerEntry
    <3> QED BY <1>1, <2>0, <3>1 DEF LedgerEntry
  <2>3. Comes(e, x) /\ ~GivenUp(e)
    BY <1>4, <2>0 DEF Comes, GivenUp
  <2> QED BY <1>2, <2>1, <2>2, <2>3
<1>5. CASE GivenUp(e)
  <2>1. t = Clear(q, k)
    BY <1>0, <1>00, <1>5 DEF Settle, GivenUp
  <2>2. PICK R : R = RemoveAt(L, k)
    OBVIOUS
  <2>3. LedgerBut(L, k, R)
    BY <1>0, <1>1, <2>2, WithoutEntry
  <2>4. PICK s : s = IF e.status = "Confirmed" THEN q.snapshots
                     ELSE WithoutItem(q.snapshots, e.id[1])
    OBVIOUS
  <2>5. t = [q EXCEPT !.seen_deliveries = R, !.snapshots = s]
    BY <1>0, <1>00, <2>1, <2>2, <2>4 DEF Clear
  <2>6. s = q.snapshots \/ SnapshotsBut(q.snapshots, e.id[1], s)
    BY <1>1, <2>4, WithoutSnapshot
  <2>7. /\ s \in Seq(Snapshot) /\ Distinct(s) /\ Len(s) <= SnapshotCap
        /\ \A n \in DOMAIN q.snapshots :
              q.snapshots[n].item = e.id[1] \/ \E j \in DOMAIN s : s[j] = q.snapshots[n]
    BY <1>1, <2>6 DEF SnapshotsBut
  <2>8. R \in Seq(LedgerEntry) /\ Unique(R)
    BY <2>3 DEF LedgerBut
  <2>9. t.seen_deliveries = R /\ t.snapshots = s /\ t \in Pad /\ Besides(q, t)
    BY <1>1, <2>5, <2>7, <2>8 DEF Pad, Besides
  <2>10. PadOK(t)
    BY <2>7, <2>8, <2>9 DEF PadOK
  <2>11. \A j \in DOMAIN R :
            \E n \in DOMAIN L : n # k /\ R[j] = L[n] /\ (j >= k => n = j + 1)
    BY <2>3 DEF LedgerBut
  <2>12. \A n \in DOMAIN L : n # k \/ ~GivenUp(e) => \E j \in DOMAIN R : R[j].id = L[n].id
    BY <1>5, <2>3 DEF LedgerBut
  <2> QED BY <1>0, <1>00, <1>5, <2>7, <2>9, <2>10, <2>11, <2>12 DEF Settles
<1> QED BY <1>3, <1>4, <1>5 DEF GivenUp

\* A step of the pass.
LEMMA StepWalked ==
    ASSUME WatchAssumption, NEW st \in Walked, NEW k \in Nat \ {0}
    PROVE  ReconcileAt(st, k) \in Walked
<1> DEFINE t == ReconcileAt(st, k)
           e == st.pad.seen_deliveries[k]
<1>1. CASE st.panics \/ k > Len(st.pad.seen_deliveries)
  <2>1. t = [st EXCEPT !.panics = TRUE]
    BY <1>1 DEF ReconcileAt
  <2> HIDE DEF t
  <2>2. t \in [pad : Pad, panics : BOOLEAN, retried : SUBSET Items, forgets : BOOLEAN]
        /\ t.pad = st.pad
    BY <2>1 DEF Walked
  <2> QED BY <2>2 DEF Walked, t
<1>2. CASE ~(st.panics \/ k > Len(st.pad.seen_deliveries))
  <2>0. st \in [pad : Pad, panics : BOOLEAN, retried : SUBSET Items, forgets : BOOLEAN]
        /\ PadOK(st.pad)
    BY DEF Walked
  <2>1. st.panics = FALSE
    BY <1>2, <2>0
  <2>2. ~t.panics
    <3>1. CASE Ended(e.run)
      <4>1. t = [st EXCEPT !.pad.seen_deliveries[k] = [e EXCEPT !.status = "Confirmed", !.run = 0]]
        BY <1>2, <3>1 DEF ReconcileAt
      <4> QED BY <2>0, <2>1, <4>1
    <3>2. CASE ~Ended(e.run) /\ Waits(e)
      <4>1. t = [st EXCEPT !.pad.seen_deliveries[k].polls = @ + 1]
        BY <1>2, <3>2 DEF ReconcileAt
      <4> QED BY <2>0, <2>1, <4>1
    <3>3. CASE ~Ended(e.run) /\ ~Waits(e)
      <4>1. t = [st EXCEPT !.pad = Clear(@, k), !.retried = @ \union {e.id[1]},
                           !.forgets = @ \/ e.status = "Confirmed"]
        BY <1>2, <3>3 DEF ReconcileAt
      <4> QED BY <2>0, <2>1, <4>1
    <3> QED BY <3>1, <3>2, <3>3
  <2>3. /\ k \in 1 .. Len(st.pad.seen_deliveries) /\ e \in LedgerEntry
        /\ t = [pad |-> Settle(st.pad, k), panics |-> FALSE,
                retried |-> IF GivenUp(e) THEN st.retried \union {e.id[1]} ELSE st.retried,
                forgets |-> st.forgets \/ (GivenUp(e) /\ e.status = "Confirmed")]
    BY <2>2, StepParts
  <2>4. PadOK(Settle(st.pad, k))
    BY <2>0, <2>3, Settled
  <2>5. e.id[1] \in Items
    BY <2>3 DEF LedgerEntry, Finding
  <2> HIDE DEF t, e
  <2>6. t.pad = Settle(st.pad, k) /\ Settle(st.pad, k) \in Pad
    BY <2>3, <2>4 DEF PadOK
  <2>7. t \in [pad : Pad, panics : BOOLEAN, retried : SUBSET Items, forgets : BOOLEAN]
    BY <2>0, <2>3, <2>5, <2>6
  <2> QED BY <2>4, <2>6, <2>7 DEF Walked, t
<1> QED BY <1>1, <1>2

\* One index of the pass keeps what the pass has made of the scratchpad so far.
LEMMA StepReconciled ==
    ASSUME WatchAssumption, NEW pad, PadOK(pad), NEW st \in Walked, NEW k \in Nat \ {0},
           ~ReconcileAt(st, k).panics, Reconciled(pad, k - 1, st)
    PROVE  Reconciled(pad, k, ReconcileAt(st, k))
<1> DEFINE t == ReconcileAt(st, k)
           e == st.pad.seen_deliveries[k]
           L == pad.seen_deliveries
           Q == st.pad.seen_deliveries
           M == t.pad.seen_deliveries
<1>1. /\ k \in 1 .. Len(Q) /\ e \in LedgerEntry
      /\ t = [pad |-> Settle(st.pad, k), panics |-> FALSE,
              retried |-> IF GivenUp(e) THEN st.retried \union {e.id[1]} ELSE st.retried,
              forgets |-> st.forgets \/ (GivenUp(e) /\ e.status = "Confirmed")]
  BY StepParts
<1>2. PadOK(st.pad) /\ st.pad \in Pad /\ Q \in Seq(LedgerEntry)
  BY DEF Walked, Pad
<1>3. t.pad = Settle(st.pad, k)
  BY <1>1
<1>7. (st.forgets => t.forgets) /\ (GivenUp(e) /\ e.status = "Confirmed" => t.forgets)
      /\ st.retried \subseteq t.retried /\ (GivenUp(e) => e.id[1] \in t.retried)
  <2> HIDE DEF t, e
  <2>1. st.forgets \in BOOLEAN
    BY DEF Walked
  <2> QED BY <1>1, <2>1
<1>4. /\ Besides(st.pad, t.pad)
      /\ \A j \in DOMAIN M :
            \/ j # k /\ j \in DOMAIN Q /\ M[j] = Q[j] /\ ~GivenUp(e)
            \/ j = k /\ ~GivenUp(e) /\ Comes(e, M[j])
            \/ /\ GivenUp(e)
               /\ \E n \in DOMAIN Q : n # k /\ M[j] = Q[n] /\ (j >= k => n = j + 1)
      /\ \A n \in DOMAIN Q : n # k \/ ~GivenUp(e) => \E j \in DOMAIN M : M[j].id = Q[n].id
      /\ \A n \in DOMAIN st.pad.snapshots :
            \/ GivenUp(e) /\ st.pad.snapshots[n].item = e.id[1]
            \/ \E j \in DOMAIN t.pad.snapshots : t.pad.snapshots[j] = st.pad.snapshots[n]
  <2>1. Settles(st.pad, k, t.pad)
    BY <1>1, <1>2, <1>3, Settled
  <2> QED BY <2>1 DEF Settles
<1>5. /\ Besides(pad, st.pad)
      /\ \A j \in DOMAIN Q : \E i \in DOMAIN L :
            Comes(L[i], Q[j]) /\ (j > k - 1 => Q[j] = L[i])
      /\ \A i \in DOMAIN L :
            \/ \E j \in DOMAIN Q : Q[j].id = L[i].id
            \/ GivenUp(L[i]) /\ (L[i].status = "Confirmed" => st.forgets)
      /\ \A i \in DOMAIN pad.snapshots :
            \/ pad.snapshots[i].item \in st.retried
            \/ \E j \in DOMAIN st.pad.snapshots : st.pad.snapshots[j] = pad.snapshots[i]
  BY DEF Reconciled
<1>6. k \in DOMAIN Q /\ DOMAIN Q \subseteq Nat /\ Q[k] = e
  BY <1>1, <1>2
<1>8. PICK o \in DOMAIN L : e = L[o] /\ Comes(L[o], e)
  <2>1. k > k - 1
    BY <1>6
  <2> QED BY <1>5, <1>6, <2>1
<1>9. Unique(L)
  BY DEF PadOK
<1>10. DOMAIN M \subseteq Nat
  <2>1. M \in Seq(LedgerEntry)
    BY StepWalked DEF Walked, Pad
  <2> QED BY <2>1
<1> HIDE DEF t, e, L, Q, M
<1>11. Besides(pad, t.pad)
  BY <1>4, <1>5 DEF Besides
<1>12. ASSUME NEW j \in DOMAIN M
       PROVE  \E i \in DOMAIN L : Comes(L[i], M[j]) /\ (j > k => M[j] = L[i])
  <2>0. j \in Nat
    BY <1>10
  <2>1. CASE j # k /\ j \in DOMAIN Q /\ M[j] = Q[j]
    <3>1. PICK i \in DOMAIN L : Comes(L[i], Q[j]) /\ (j > k - 1 => Q[j] = L[i])
      BY <1>5, <2>1
    <3>2. j > k => j > k - 1
      BY <2>0
    <3> QED BY <2>1, <3>1, <3>2
  <2>2. CASE j = k /\ Comes(e, M[j])
    BY <1>8, <2>2
  <2>3. CASE \E n \in DOMAIN Q : n # k /\ M[j] = Q[n] /\ (j >= k => n = j + 1)
    <3>1. PICK n \in DOMAIN Q : n # k /\ M[j] = Q[n] /\ (j >= k => n = j + 1)
      BY <2>3
    <3>2. PICK i \in DOMAIN L : Comes(L[i], Q[n]) /\ (n > k - 1 => Q[n] = L[i])
      BY <1>5, <3>1
    <3>3. j > k => n > k - 1
      BY <2>0, <3>1
    <3> QED BY <3>1, <3>2, <3>3
  <2> QED BY <1>4, <2>1, <2>2, <2>3
<1>13. ASSUME NEW i \in DOMAIN L
       PROVE  \/ \E j \in DOMAIN M : M[j].id = L[i].id
              \/ GivenUp(L[i]) /\ (L[i].status = "Confirmed" => t.forgets)
  <2>1. CASE \E j \in DOMAIN Q : Q[j].id = L[i].id
    <3>1. PICK j \in DOMAIN Q : Q[j].id = L[i].id
      BY <2>1
    <3>2. CASE j # k \/ ~GivenUp(e)
      BY <1>4, <3>1, <3>2
    <3>3. CASE j = k /\ GivenUp(e)
      <4>1. i = o
        BY <1>6, <1>8, <1>9, <3>1, <3>3 DEF Unique
      <4> QED BY <1>7, <1>8, <3>3, <4>1
    <3> QED BY <3>2, <3>3
  <2>2. CASE GivenUp(L[i]) /\ (L[i].status = "Confirmed" => st.forgets)
    BY <1>7, <2>2
  <2> QED BY <1>5, <2>1, <2>2
<1>14. ASSUME NEW i \in DOMAIN pad.snapshots
       PROVE  \/ pad.snapshots[i].item \in t.retried
              \/ \E j \in DOMAIN t.pad.snapshots : t.pad.snapshots[j] = pad.snapshots[i]
  <2>1. CASE pad.snapshots[i].item \in st.retried
    BY <1>7, <2>1
  <2>2. CASE \E j \in DOMAIN st.pad.snapshots : st.pad.snapshots[j] = pad.snapshots[i]
    <3>1. PICK j \in DOMAIN st.pad.snapshots : st.pad.snapshots[j] = pad.snapshots[i]
      BY <2>2
    <3> QED BY <1>4, <1>7, <3>1
  <2> QED BY <1>5, <2>1, <2>2
<1> QED BY <1>11, <1>12, <1>13, <1>14 DEF Reconciled, t, L, M

\* Before the first entry, nothing has happened.
LEMMA WalkBegins ==
    ASSUME NEW pad, PadOK(pad)
    PROVE  LET st == [pad |-> pad, panics |-> FALSE, retried |-> {}, forgets |-> FALSE]
           IN  st \in Walked /\ Reconciled(pad, 0, st)
<1> DEFINE st == [pad |-> pad, panics |-> FALSE, retried |-> {}, forgets |-> FALSE]
<1>1. st \in Walked
  BY DEF Walked, PadOK
<1>2. st.pad = pad
  OBVIOUS
<1> HIDE DEF st
<1>3. Reconciled(pad, 0, st)
  BY <1>2 DEF Reconciled, Besides, Comes
<1> QED BY <1>1, <1>3 DEF st

\* What the pass makes of the scratchpad.
LEMMA PassSound ==
    ASSUME WatchAssumption, NEW pad, PadOK(pad)
    PROVE  /\ Reconcile(pad) \in Walked
           /\ ~Reconcile(pad).panics => Reconciled(pad, Len(pad.seen_deliveries), Reconcile(pad))
<1> DEFINE N == Len(pad.seen_deliveries)
           base == [pad |-> pad, panics |-> FALSE, retried |-> {}, forgets |-> FALSE]
           F == [p \in (1 .. N) \X Walked |->
                    IF p[1] \in PendingIndices(pad) THEN ReconcileAt(p[2], p[1]) ELSE p[2]]
<1>1. base \in Walked /\ Reconciled(pad, 0, base)
  BY WalkBegins
<1>2. N \in Nat
  BY DEF PadOK, Pad
<1>3. F \in [(1 .. N) \X Walked -> Walked]
  BY <1>2, StepWalked
<1>4. \A k \in 1 .. N, st \in Walked :
         F[<<k, st>>] = IF k \in PendingIndices(pad) THEN ReconcileAt(st, k) ELSE st
  OBVIOUS
<1> HIDE DEF F
<1>5. PICK f \in [0 .. N -> Walked] :
         f[0] = base /\ \A k \in 1 .. N : f[k] = F[<<k, f[k - 1]>>]
  <2> HIDE DEF N, base
  <2>1. \E f : Walks(f, N, Walked, base, F)
    BY <1>1, <1>2, <1>3, WalkExists
  <2> QED BY <2>1 DEF Walks
<1>6. f = [k \in 0 .. N |->
              IF k = 0 THEN base
              ELSE IF k \in PendingIndices(pad) THEN ReconcileAt(f[k - 1], k) ELSE f[k - 1]]
  <2> DEFINE g == [k \in 0 .. N |->
              IF k = 0 THEN base
              ELSE IF k \in PendingIndices(pad) THEN ReconcileAt(f[k - 1], k) ELSE f[k - 1]]
  <2>1. ASSUME NEW k \in 0 .. N PROVE f[k] = g[k]
    <3>1. CASE k = 0
      BY <1>5, <3>1
    <3>2. CASE k # 0
      <4>1. k \in 1 .. N /\ k - 1 \in 0 .. N
        BY <1>2, <3>2
      <4>2. f[k - 1] \in Walked
        BY <1>5, <4>1
      <4>3. f[k] = F[<<k, f[k - 1]>>]
        BY <1>5, <4>1
      <4> QED BY <1>4, <3>2, <4>1, <4>2, <4>3
    <3> QED BY <3>1, <3>2
  <2>2. f = [k \in 0 .. N |-> f[k]] /\ g = [k \in 0 .. N |-> g[k]]
    BY <1>5
  <2> HIDE DEF g
  <2>3. f = g
    BY <2>1, <2>2
  <2> QED BY <2>3 DEF g
<1> DEFINE w == ReconcileWalk(pad)
<1>7. w = [k \in 0 .. N |->
              IF k = 0 THEN base
              ELSE IF k \in PendingIndices(pad) THEN ReconcileAt(w[k - 1], k) ELSE w[k - 1]]
  <2>1. w = CHOOSE h : h = [k \in 0 .. N |->
              IF k = 0 THEN base
              ELSE IF k \in PendingIndices(pad) THEN ReconcileAt(h[k - 1], k) ELSE h[k - 1]]
    BY DEF ReconcileWalk
  <2> HIDE DEF w, N, base
  <2> QED BY <1>6, <2>1
<1> HIDE DEF w
<1> DEFINE P == {k \in 0 .. N : w[k] \in Walked /\ (w[k].panics \/ Reconciled(pad, k, w[k]))}
<1>8. 0 \in P
  <2>1. 0 \in 0 .. N /\ w[0] = base
    BY <1>2, <1>7
  <2> QED BY <1>1, <2>1
<1>9. ASSUME NEW k \in 1 .. N, k - 1 \in P PROVE k \in P
  <2>0. k \in Nat \ {0} /\ k \in 0 .. N /\ k # 0
    BY <1>2
  <2>1. /\ k \in Nat \ {0} /\ k \in 0 .. N /\ k # 0
        /\ w[k] = IF k \in PendingIndices(pad) THEN ReconcileAt(w[k - 1], k) ELSE w[k - 1]
    <3> HIDE DEF N, base
    <3> QED BY <1>7, <2>0
  <2>2. w[k - 1] \in Walked /\ (w[k - 1].panics \/ Reconciled(pad, k - 1, w[k - 1]))
    BY <1>9
  <2>3. CASE k \in PendingIndices(pad)
    <3>1. w[k] = ReconcileAt(w[k - 1], k)
      BY <2>1, <2>3
    <3>2. w[k] \in Walked
      BY <2>1, <2>2, <3>1, StepWalked
    <3>3. CASE w[k].panics
      BY <2>1, <3>2, <3>3
    <3>4. CASE ~w[k].panics
      <4>1. ~w[k - 1].panics
        <5>1. PICK st : st = w[k - 1]
          OBVIOUS
        <5>2. st \in Walked /\ ~ReconcileAt(st, k).panics
          BY <2>2, <3>1, <3>4, <5>1
        <5>3. ~st.panics
          BY <2>1, <5>2, StepParts
        <5> QED BY <5>1, <5>3
      <4>2. Reconciled(pad, k, w[k])
        BY <2>1, <2>2, <3>1, <3>4, <4>1, StepReconciled
      <4> QED BY <2>1, <3>2, <4>2
    <3> QED BY <3>3, <3>4
  <2>4. CASE k \notin PendingIndices(pad)
    <3>1. w[k] = w[k - 1]
      BY <2>1, <2>4
    <3>2. Reconciled(pad, k - 1, w[k]) => Reconciled(pad, k, w[k])
      <4>1. DOMAIN w[k].pad.seen_deliveries \subseteq Nat
        BY <2>2, <3>1, SMTT(30) DEF Walked, Pad
      <4>2. \A j \in DOMAIN w[k].pad.seen_deliveries : j > k => j > k - 1
        BY <2>1, <4>1
      <4> QED BY <4>2 DEF Reconciled
    <3> QED BY <2>1, <2>2, <3>1, <3>2
  <2> QED BY <2>3, <2>4
<1>10. N \in P
  <2> HIDE DEF P, N
  <2>1. 0 .. N \subseteq P
    BY <1>2, <1>8, <1>9, Induction
  <2> QED BY <1>2, <2>1
<1>11. Reconcile(pad) = w[N]
  BY DEF Reconcile, w
<1> QED BY <1>10, <1>11

-----------------------------------------------------------------------------
(* The loop over the candidates.                                           *)

\* There are no more snapshots than items.
LEMMA OneSnapshotEach ==
    ASSUME NEW S \in Seq(Snapshot), Distinct(S), Len(Order) \in Nat
    PROVE  Len(S) <= Len(Order)
<1> DEFINE m == Len(S)
           n == Len(Order)
           f == [k \in 1 .. m |-> CHOOSE p \in 1 .. n : Order[p] = S[k].item]
<1>1. m \in Nat /\ n \in Nat /\ DOMAIN S = 1 .. m
  OBVIOUS
<1>2. DOMAIN Order = 1 .. n
  OBVIOUS
<1>3. ASSUME NEW k \in 1 .. m PROVE f[k] \in 1 .. n /\ Order[f[k]] = S[k].item
  <2>1. S[k].item \in Items
    <3>1. S[k] \in Snapshot
      BY <1>1
    <3> QED BY <3>1 DEF Snapshot
  <2>2. \E p \in 1 .. n : Order[p] = S[k].item
    BY <1>2, <2>1 DEF Items, ToSet
  <2> QED BY <2>2
<1>4. f \in [1 .. m -> 1 .. n]
  BY <1>3
<1> HIDE DEF f
<1>5. \A j, k \in 1 .. m : j # k => f[j] # f[k]
  BY <1>1, <1>3 DEF Distinct
<1>6. /\ IsFiniteSet(1 .. m) /\ Cardinality(1 .. m) = m
      /\ IsFiniteSet(1 .. n) /\ Cardinality(1 .. n) = n
  <2> HIDE DEF m, n
  <2>1. m \in Int /\ n \in Int /\ 1 \in Int
    BY <1>1
  <2>2. IsFiniteSet(1 .. m) /\ Cardinality(1 .. m) = IF 1 > m THEN 0 ELSE m - 1 + 1
    BY <2>1, FS_Interval
  <2>3. IsFiniteSet(1 .. n) /\ Cardinality(1 .. n) = IF 1 > n THEN 0 ELSE n - 1 + 1
    BY <2>1, FS_Interval
  <2> QED BY <1>1, <2>2, <2>3
<1>7. ~(n < m)
  <2> HIDE DEF m, n
  <2>1. SUFFICES ASSUME n < m PROVE FALSE
    OBVIOUS
  <2>2. Cardinality(1 .. n) < Cardinality(1 .. m)
    BY <1>6, <2>1
  <2>3. \E x, y \in 1 .. m : x # y /\ f[x] = f[y]
    BY <1>4, <1>6, <2>2, FS_PigeonHole
  <2> QED BY <1>5, <2>3
<1> QED BY <1>1, <1>7

\* The snapshots with that of an item renewed.
Renewed(S, s, R) ==
    /\ R \in Seq(Snapshot) /\ Distinct(R) /\ Len(R) <= SnapshotCap
    /\ Roomy => /\ \E k \in DOMAIN R : R[k] = s
                /\ \A j \in DOMAIN S : S[j].item # s.item => \E k \in DOMAIN R : R[k] = S[j]

\* record_snapshot replaces the snapshot of the item and drops none but for want of room.
LEMMA SnapshotRecorded ==
    ASSUME WatchAssumption, Len(Order) \in Nat, NEW S \in Seq(Snapshot), Distinct(S),
           Len(S) <= SnapshotCap, NEW s \in Snapshot
    PROVE  Renewed(S, s, RecordSnapshot(S, s))
<1>1. PICK W : W = WithoutItem(S, s.item)
  OBVIOUS
<1>2. SnapshotsBut(S, s.item, W)
  BY <1>1, WithoutSnapshot
<1>3. /\ W \in Seq(Snapshot) /\ Distinct(W) /\ Len(W) <= Len(S)
      /\ \A k \in DOMAIN W : W[k].item # s.item
      /\ \A j \in DOMAIN S : S[j].item # s.item => \E k \in DOMAIN W : W[k] = S[j]
  BY <1>2 DEF SnapshotsBut
<1>4. PICK A : A = Append(W, s)
  OBVIOUS
<1>5. /\ A \in Seq(Snapshot) /\ Len(A) = Len(W) + 1 /\ DOMAIN A = 1 .. Len(W) + 1
      /\ Len(W) \in Nat /\ DOMAIN W = 1 .. Len(W)
      /\ \A k \in 1 .. Len(W) : A[k] = W[k]
      /\ A[Len(W) + 1] = s
  BY <1>3, <1>4
<1>6. Distinct(A)
  <2>1. SUFFICES ASSUME NEW j \in DOMAIN A, NEW k \in DOMAIN A, A[j].item = A[k].item
                 PROVE  j = k
    BY DEF Distinct
  <2>2. CASE j \in 1 .. Len(W) /\ k \in 1 .. Len(W)
    BY <1>3, <1>5, <2>1, <2>2 DEF Distinct
  <2>3. CASE j = Len(W) + 1 /\ k \in 1 .. Len(W)
    BY <1>3, <1>5, <2>1, <2>3
  <2>4. CASE j \in 1 .. Len(W) /\ k = Len(W) + 1
    BY <1>3, <1>5, <2>1, <2>4
  <2>5. j \in 1 .. Len(W) \/ j = Len(W) + 1
    BY <1>5
  <2>6. k \in 1 .. Len(W) \/ k = Len(W) + 1
    BY <1>5
  <2> QED BY <2>2, <2>3, <2>4, <2>5, <2>6
<1>7. SnapshotCap \in Nat /\ Len(S) \in Nat
  BY DEF WatchAssumption
<1>8. CASE Len(A) > SnapshotCap
  <2>1. RecordSnapshot(S, s) = Tail(A)
    BY <1>1, <1>4, <1>8 DEF RecordSnapshot
  <2>2. PICK R : R = Tail(A)
    OBVIOUS
  <2>3. R \in Seq(Snapshot) /\ Len(R) = Len(W) /\ \A k \in 1 .. Len(R) : R[k] = A[k + 1]
    BY <1>5, <2>2, HeadTailProperties
  <2>4. DOMAIN R = 1 .. Len(W)
    BY <2>3
  <2>5. Distinct(R)
    <3>1. SUFFICES ASSUME NEW j \in DOMAIN R, NEW k \in DOMAIN R, R[j].item = R[k].item
                   PROVE  j = k
      BY DEF Distinct
    <3>2. j + 1 \in DOMAIN A /\ k + 1 \in DOMAIN A /\ R[j] = A[j + 1] /\ R[k] = A[k + 1]
      BY <1>5, <2>3, <2>4, SMTT(30)
    <3>3. j + 1 = k + 1
      BY <1>6, <3>1, <3>2 DEF Distinct
    <3> QED BY <1>5, <2>4, <3>3
  <2>6. ~Roomy
    <3>1. Len(A) <= Len(Order)
      BY <1>5, <1>6, OneSnapshotEach
    <3> QED BY <1>5, <1>7, <1>8, <3>1 DEF Roomy
  <2>7. Len(R) <= SnapshotCap
    BY <1>3, <1>5, <1>7, <2>3
  <2> QED BY <2>1, <2>2, <2>3, <2>5, <2>6, <2>7 DEF Renewed
<1>9. CASE ~(Len(A) > SnapshotCap)
  <2>1. RecordSnapshot(S, s) = A
    BY <1>1, <1>4, <1>9 DEF RecordSnapshot
  <2>2. Len(A) <= SnapshotCap
    BY <1>5, <1>7, <1>9
  <2>3. \E k \in DOMAIN A : A[k] = s
    BY <1>5
  <2>4. \A j \in DOMAIN S : S[j].item # s.item => \E k \in DOMAIN A : A[k] = S[j]
    BY <1>3, <1>5
  <2> QED BY <1>5, <1>6, <2>1, <2>2, <2>3, <2>4 DEF Renewed
<1> QED BY <1>8, <1>9

Diffed == {st \in [pad : Pad, batch : Seq(Finding)] : PadOK(st.pad)}

\* What the loop does with a candidate, which it reports or does not.
Candidate(suppress, st, i, t, edge, fires) ==
    /\ t = [pad |-> [st.pad EXCEPT !.snapshots = RecordSnapshot(@,
                        [item |-> i, version |-> world[i], matching |-> world[i] = "on",
                         edge |-> edge])],
            batch |-> IF fires THEN Append(st.batch, <<i, world[i], edge>>) ELSE st.batch]
    /\ fires => /\ ~suppress /\ ~SeenDelivery(st.pad, <<i, world[i], edge>>)
                /\ world[i] = "on" => ~Known(st.pad, i)

\* One candidate of the loop has its snapshot renewed, and is reported when it is new to the ledger.
LEMMA DiffParts ==
    ASSUME WatchAssumption, NEW seedOnly \in BOOLEAN, NEW suppress \in BOOLEAN,
           NEW st \in Diffed, NEW i \in Items
    PROVE  \E edge \in Nat, fires \in BOOLEAN :
              Candidate(suppress, st, i, Diff(seedOnly, suppress, st, i), edge, fires)
<1>1. PICK S : S = st.pad.snapshots
  OBVIOUS
<1>2. S \in Seq(Snapshot) /\ Distinct(S)
  BY <1>1 DEF Diffed, PadOK, Pad
<1>3. PICK new \in BOOLEAN : new = (SnapshotOf(S, i) = {})
  OBVIOUS
<1>4. PICK known : known = S[CHOOSE k \in SnapshotOf(S, i) : TRUE]
  OBVIOUS
<1>5. PICK begins \in BOOLEAN : begins = (world[i] = "on" /\ (new \/ ~known.matching))
  OBVIOUS
<1>6. PICK edge : edge = IF seedOnly THEN 0
                         ELSE (IF new THEN 0 ELSE known.edge) + (IF begins THEN 1 ELSE 0)
  OBVIOUS
<1>7. PICK fires \in BOOLEAN :
         fires = /\ ~suppress
                 /\ \/ Mode = "predicate_transition" /\ begins
                    \/ Mode = "new_or_changed" /\ (new \/ known.version # world[i])
                    \/ Mode = "new_only" /\ new
                 /\ ~SeenDelivery(st.pad, <<i, world[i], edge>>)
  OBVIOUS
<1>8. ~new => \E k \in DOMAIN S : known = S[k] /\ S[k].item = i
  BY <1>3, <1>4 DEF SnapshotOf
<1>9. ~new => known \in Snapshot
  BY <1>2, <1>8
<1>10. edge \in Nat
  BY <1>6, <1>9 DEF Snapshot
<1>11. ASSUME fires, world[i] = "on" PROVE ~Known(st.pad, i)
  <2>1. SUFFICES ASSUME Known(st.pad, i) PROVE FALSE
    OBVIOUS
  <2>2. PICK k \in DOMAIN S : S[k].item = i /\ S[k].matching /\ S[k].version = "on"
    BY <1>1, <2>1 DEF Known
  <2>3. ~new
    BY <1>3, <2>2 DEF SnapshotOf
  <2>4. known = S[k]
    BY <1>2, <1>8, <2>2, <2>3 DEF Distinct
  <2> QED BY <1>5, <1>7, <1>11, <2>2, <2>3, <2>4
<1>12. Diff(seedOnly, suppress, st, i) =
          [pad |-> [st.pad EXCEPT !.snapshots = RecordSnapshot(@,
                        [item |-> i, version |-> world[i], matching |-> world[i] = "on",
                         edge |-> edge])],
           batch |-> IF fires THEN Append(st.batch, <<i, world[i], edge>>) ELSE st.batch]
  BY <1>1, <1>3, <1>4, <1>5, <1>6, <1>7 DEF Diff
<1> QED BY <1>7, <1>10, <1>11, <1>12 DEF Candidate

\* The candidates met up to an index.
Met(C, k) == {i \in C : \E m \in 1 .. k : Order[m] = i}

\* What the loop has made of the scratchpad, and what it is about to report.
DiffedTo(pad, suppress, C, k, st) ==
    LET S == pad.snapshots
        T == st.pad.snapshots
        B == st.batch
    IN  /\ Besides(pad, st.pad) /\ st.pad.seen_deliveries = pad.seen_deliveries
        /\ suppress => B = <<>>
        /\ \A n \in DOMAIN B : B[n][1] \in Met(C, k) /\ ~SeenDelivery(pad, B[n])
        /\ \A m, n \in DOMAIN B : B[m][1] = B[n][1] => m = n
        /\ Roomy =>
              /\ \A i \in Met(C, k) : \E j \in DOMAIN T :
                    T[j].item = i /\ T[j].version = world[i] /\ T[j].matching = (world[i] = "on")
              /\ \A j \in DOMAIN S : S[j].item \notin Met(C, k) => \E n \in DOMAIN T : T[n] = S[j]
              /\ \A n \in DOMAIN B : world[B[n][1]] = "on" => ~Known(pad, B[n][1])

\* One candidate keeps what the loop has made of the scratchpad so far.
LEMMA DiffStep ==
    ASSUME WatchAssumption, Len(Order) \in Nat, world \in [Items -> States],
           NEW pad, NEW C, NEW seedOnly \in BOOLEAN, NEW suppress \in BOOLEAN,
           NEW k \in 1 .. Len(Order), Order[k] \in C, NEW st \in Diffed,
           NEW t, t = Diff(seedOnly, suppress, st, Order[k])
    PROVE  /\ t \in Diffed
           /\ DiffedTo(pad, suppress, C, k - 1, st) => DiffedTo(pad, suppress, C, k, t)
<1>1. DOMAIN Order = 1 .. Len(Order) /\ \A m, n \in DOMAIN Order : Order[m] = Order[n] => m = n
  BY DEF WatchAssumption, IsInjective
<1>2. PICK i : i = Order[k]
  OBVIOUS
<1>3. i \in Items
  BY <1>1, <1>2 DEF Items, ToSet
<1>4. PICK edge \in Nat, fires \in BOOLEAN : Candidate(suppress, st, i, t, edge, fires)
  <2>1. t = Diff(seedOnly, suppress, st, i)
    BY <1>2
  <2>2. \E edge \in Nat, fires \in BOOLEAN :
           Candidate(suppress, st, i, Diff(seedOnly, suppress, st, i), edge, fires)
    BY <1>3, DiffParts
  <2> QED BY <2>1, <2>2
<1>5. PICK s : s = [item |-> i, version |-> world[i], matching |-> world[i] = "on", edge |-> edge]
  OBVIOUS
<1>6. PICK R : R = RecordSnapshot(st.pad.snapshots, s)
  OBVIOUS
<1>7. PICK x : x = <<i, world[i], edge>>
  OBVIOUS
<1>8. s \in Snapshot /\ s.item = i /\ s.version = world[i] /\ s.matching = (world[i] = "on")
  <2>1. world[i] \in States
    BY <1>3
  <2> QED BY <1>3, <1>5, <2>1 DEF Snapshot
<1>9. x \in Finding /\ x[1] = i
  BY <1>3, <1>7 DEF Finding
<1>10. /\ PadOK(st.pad) /\ st.pad \in Pad /\ st.pad.snapshots \in Seq(Snapshot)
       /\ Distinct(st.pad.snapshots) /\ Len(st.pad.snapshots) <= SnapshotCap
       /\ st.batch \in Seq(Finding)
  BY DEF Diffed, PadOK, Pad
<1>11. Renewed(st.pad.snapshots, s, R)
  BY <1>6, <1>8, <1>10, SnapshotRecorded
<1>12. R \in Seq(Snapshot) /\ Distinct(R) /\ Len(R) <= SnapshotCap
  BY <1>11 DEF Renewed
<1>13. /\ t = [pad |-> [st.pad EXCEPT !.snapshots = R],
               batch |-> IF fires THEN Append(st.batch, x) ELSE st.batch]
       /\ fires => /\ ~suppress /\ ~SeenDelivery(st.pad, x)
                   /\ world[i] = "on" => ~Known(st.pad, i)
  BY <1>4, <1>5, <1>6, <1>7 DEF Candidate
<1>14. PICK B : B = IF fires THEN Append(st.batch, x) ELSE st.batch
  OBVIOUS
<1>15. B \in Seq(Finding)
  BY <1>9, <1>10, <1>14
<1>16. PICK q : q = [st.pad EXCEPT !.snapshots = R]
  OBVIOUS
<1>17. q \in Pad /\ PadOK(q) /\ q.snapshots = R /\ Besides(st.pad, q)
       /\ q.seen_deliveries = st.pad.seen_deliveries
  <2>1. q \in Pad /\ q.snapshots = R /\ Besides(st.pad, q)
        /\ q.seen_deliveries = st.pad.seen_deliveries
    BY <1>10, <1>12, <1>16 DEF Pad, Besides
  <2> QED BY <1>10, <1>12, <2>1 DEF PadOK
<1>18. t = [pad |-> q, batch |-> B]
  BY <1>13, <1>14, <1>16
<1>19. t \in Diffed /\ t.pad = q /\ t.batch = B
  BY <1>15, <1>17, <1>18 DEF Diffed
<1>20. ASSUME DiffedTo(pad, suppress, C, k - 1, st) PROVE DiffedTo(pad, suppress, C, k, t)
  <2>1. Met(C, k) = Met(C, k - 1) \union {i} /\ i \notin Met(C, k - 1)
    <3>1. 1 .. k = (1 .. k - 1) \union {k} /\ k \notin 1 .. k - 1 /\ 1 .. k \subseteq DOMAIN Order
      BY <1>1
    <3> QED BY <1>1, <1>2, <3>1, SMTT(30) DEF Met
  <2>2. /\ Besides(pad, st.pad) /\ st.pad.seen_deliveries = pad.seen_deliveries
        /\ suppress => st.batch = <<>>
        /\ \A n \in DOMAIN st.batch :
              st.batch[n][1] \in Met(C, k - 1) /\ ~SeenDelivery(pad, st.batch[n])
        /\ \A m, n \in DOMAIN st.batch : st.batch[m][1] = st.batch[n][1] => m = n
    BY <1>20 DEF DiffedTo
  <2>3. Besides(pad, q) /\ q.seen_deliveries = pad.seen_deliveries
    BY <1>17, <2>2 DEF Besides
  <2>4. \A n \in DOMAIN B :
           \/ n \in DOMAIN st.batch /\ B[n] = st.batch[n]
           \/ fires /\ n = Len(st.batch) + 1 /\ B[n] = x
    BY <1>9, <1>10, <1>14
  <2>5. suppress => B = <<>>
    BY <1>13, <1>14, <2>2
  <2>6. SeenDelivery(pad, x) => SeenDelivery(st.pad, x)
    BY <2>2 DEF SeenDelivery, EntriesOf
  <2>7. \A n \in DOMAIN B : B[n][1] \in Met(C, k) /\ ~SeenDelivery(pad, B[n])
    BY <1>9, <1>13, <2>1, <2>2, <2>4, <2>6
  <2>8. \A m, n \in DOMAIN B : B[m][1] = B[n][1] => m = n
    BY <1>9, <2>1, <2>2, <2>4
  <2>9. ASSUME Roomy
        PROVE  /\ \A a \in Met(C, k) : \E j \in DOMAIN R :
                     R[j].item = a /\ R[j].version = world[a] /\ R[j].matching = (world[a] = "on")
               /\ \A j \in DOMAIN pad.snapshots : pad.snapshots[j].item \notin Met(C, k)
                     => \E n \in DOMAIN R : R[n] = pad.snapshots[j]
               /\ \A n \in DOMAIN B : world[B[n][1]] = "on" => ~Known(pad, B[n][1])
    <3>1. /\ \E j \in DOMAIN R : R[j] = s
          /\ \A j \in DOMAIN st.pad.snapshots : st.pad.snapshots[j].item # i
                => \E n \in DOMAIN R : R[n] = st.pad.snapshots[j]
      BY <1>8, <1>11, <2>9 DEF Renewed
    <3>2. /\ \A a \in Met(C, k - 1) : \E j \in DOMAIN st.pad.snapshots :
                /\ st.pad.snapshots[j].item = a /\ st.pad.snapshots[j].version = world[a]
                /\ st.pad.snapshots[j].matching = (world[a] = "on")
          /\ \A j \in DOMAIN pad.snapshots : pad.snapshots[j].item \notin Met(C, k - 1)
                => \E n \in DOMAIN st.pad.snapshots : st.pad.snapshots[n] = pad.snapshots[j]
          /\ \A n \in DOMAIN st.batch : world[st.batch[n][1]] = "on" => ~Known(pad, st.batch[n][1])
      BY <1>20, <2>9 DEF DiffedTo
    <3>3. ASSUME NEW a \in Met(C, k)
          PROVE  \E j \in DOMAIN R :
                    R[j].item = a /\ R[j].version = world[a] /\ R[j].matching = (world[a] = "on")
      <4>1. CASE a = i
        BY <1>8, <3>1, <4>1
      <4>2. CASE a # i
        <5>1. PICK j \in DOMAIN st.pad.snapshots :
                 /\ st.pad.snapshots[j].item = a /\ st.pad.snapshots[j].version = world[a]
                 /\ st.pad.snapshots[j].matching = (world[a] = "on")
          BY <2>1, <3>2, <4>2
        <5> QED BY <3>1, <4>2, <5>1
      <4> QED BY <4>1, <4>2
    <3>4. ASSUME NEW j \in DOMAIN pad.snapshots, pad.snapshots[j].item \notin Met(C, k)
          PROVE  \E n \in DOMAIN R : R[n] = pad.snapshots[j]
      <4>1. PICK n \in DOMAIN st.pad.snapshots : st.pad.snapshots[n] = pad.snapshots[j]
        BY <2>1, <3>2, <3>4
      <4>2. st.pad.snapshots[n].item # i
        BY <2>1, <3>4, <4>1
      <4> QED BY <3>1, <4>1, <4>2
    <3>5. Known(pad, i) => Known(st.pad, i)
      <4>1. SUFFICES ASSUME Known(pad, i) PROVE Known(st.pad, i)
        OBVIOUS
      <4>2. PICK j \in DOMAIN pad.snapshots : /\ pad.snapshots[j].item = i
                                              /\ pad.snapshots[j].matching
                                              /\ pad.snapshots[j].version = "on"
        BY <4>1 DEF Known
      <4>3. PICK n \in DOMAIN st.pad.snapshots : st.pad.snapshots[n] = pad.snapshots[j]
        BY <2>1, <3>2, <4>2
      <4> QED BY <4>2, <4>3 DEF Known
    <3>6. \A n \in DOMAIN B : world[B[n][1]] = "on" => ~Known(pad, B[n][1])
      BY <1>9, <1>13, <2>4, <3>2, <3>5
    <3> QED BY <3>3, <3>4, <3>6
  <2> QED BY <1>17, <1>19, <2>3, <2>5, <2>7, <2>8, <2>9 DEF DiffedTo
<1> QED BY <1>19, <1>20

\* Before the first candidate, nothing has happened.
LEMMA DiffBegins ==
    ASSUME NEW pad, PadOK(pad), NEW suppress, NEW C
    PROVE  LET st == [pad |-> pad, batch |-> <<>>]
           IN  st \in Diffed /\ DiffedTo(pad, suppress, C, 0, st)
<1>1. PICK st : st = [pad |-> pad, batch |-> <<>>]
  OBVIOUS
<1>2. st \in Diffed /\ st.pad = pad /\ st.batch = <<>>
  BY <1>1 DEF Diffed, PadOK
<1>3. Met(C, 0) = {} /\ DOMAIN st.batch = {}
  BY <1>2 DEF Met
<1>4. DiffedTo(pad, suppress, C, 0, st)
  BY <1>2, <1>3 DEF DiffedTo, Besides
<1> QED BY <1>1, <1>2, <1>4

\* What the loop makes of the scratchpad.
LEMMA LoopSound ==
    ASSUME WatchAssumption, Len(Order) \in Nat, world \in [Items -> States],
           NEW pad, PadOK(pad), NEW C, NEW seedOnly \in BOOLEAN, NEW suppress \in BOOLEAN,
           NEW t, t = DiffAll(pad, seedOnly, suppress, C)
    PROVE  t \in Diffed /\ DiffedTo(pad, suppress, C, Len(Order), t)
<1> DEFINE N == Len(Order)
           base == [pad |-> pad, batch |-> <<>>]
           F == [p \in (1 .. N) \X Diffed |->
                    IF Order[p[1]] \in C THEN Diff(seedOnly, suppress, p[2], Order[p[1]]) ELSE p[2]]
<1>1. base \in Diffed /\ DiffedTo(pad, suppress, C, 0, base)
  BY DiffBegins
<1>2. N \in Nat
  OBVIOUS
<1>3. F \in [(1 .. N) \X Diffed -> Diffed]
  <2>1. \A k \in 1 .. N, st \in Diffed :
           Order[k] \in C => Diff(seedOnly, suppress, st, Order[k]) \in Diffed
    BY DiffStep
  <2> QED BY <2>1
<1>4. \A k \in 1 .. N, st \in Diffed :
         F[<<k, st>>] = IF Order[k] \in C THEN Diff(seedOnly, suppress, st, Order[k]) ELSE st
  OBVIOUS
<1> HIDE DEF F
<1>5. PICK f \in [0 .. N -> Diffed] :
         f[0] = base /\ \A k \in 1 .. N : f[k] = F[<<k, f[k - 1]>>]
  <2> HIDE DEF N, base
  <2>1. \E f : Walks(f, N, Diffed, base, F)
    BY <1>1, <1>2, <1>3, WalkExists
  <2> QED BY <2>1 DEF Walks
<1>6. f = [k \in 0 .. N |->
              IF k = 0 THEN base
              ELSE IF Order[k] \in C THEN Diff(seedOnly, suppress, f[k - 1], Order[k])
              ELSE f[k - 1]]
  <2> DEFINE g == [k \in 0 .. N |->
              IF k = 0 THEN base
              ELSE IF Order[k] \in C THEN Diff(seedOnly, suppress, f[k - 1], Order[k])
              ELSE f[k - 1]]
  <2>1. ASSUME NEW k \in 0 .. N PROVE f[k] = g[k]
    <3>1. CASE k = 0
      BY <1>5, <3>1
    <3>2. CASE k # 0
      <4>1. k \in 1 .. N /\ k - 1 \in 0 .. N
        BY <1>2, <3>2
      <4>2. f[k - 1] \in Diffed
        BY <1>5, <4>1
      <4>3. f[k] = F[<<k, f[k - 1]>>]
        BY <1>5, <4>1
      <4> QED BY <1>4, <3>2, <4>1, <4>2, <4>3
    <3> QED BY <3>1, <3>2
  <2>2. f = [k \in 0 .. N |-> f[k]] /\ g = [k \in 0 .. N |-> g[k]]
    BY <1>5
  <2> HIDE DEF g
  <2>3. f = g
    BY <2>1, <2>2
  <2> QED BY <2>3 DEF g
<1> DEFINE w == DiffWalk(pad, seedOnly, suppress, C)
<1>7. w = [k \in 0 .. N |->
              IF k = 0 THEN base
              ELSE IF Order[k] \in C THEN Diff(seedOnly, suppress, w[k - 1], Order[k])
              ELSE w[k - 1]]
  <2>1. w = CHOOSE h : h = [k \in 0 .. N |->
              IF k = 0 THEN base
              ELSE IF Order[k] \in C THEN Diff(seedOnly, suppress, h[k - 1], Order[k])
              ELSE h[k - 1]]
    BY DEF DiffWalk
  <2> HIDE DEF w, N, base
  <2> QED BY <1>6, <2>1
<1> HIDE DEF w
<1> DEFINE P == {k \in 0 .. N : w[k] \in Diffed /\ DiffedTo(pad, suppress, C, k, w[k])}
<1>8. 0 \in P
  <2>1. 0 \in 0 .. N /\ w[0] = base
    BY <1>2, <1>7
  <2> QED BY <1>1, <2>1
<1>9. ASSUME NEW k \in 1 .. N, k - 1 \in P PROVE k \in P
  <2>0. k \in 0 .. N /\ k # 0
    BY <1>2
  <2>1. w[k] = IF Order[k] \in C THEN Diff(seedOnly, suppress, w[k - 1], Order[k]) ELSE w[k - 1]
    <3> HIDE DEF N, base
    <3> QED BY <1>7, <2>0
  <2>2. w[k - 1] \in Diffed /\ DiffedTo(pad, suppress, C, k - 1, w[k - 1])
    BY <1>9
  <2>3. CASE Order[k] \in C
    <3>1. w[k] = Diff(seedOnly, suppress, w[k - 1], Order[k])
      BY <2>1, <2>3
    <3>2. w[k] \in Diffed /\ DiffedTo(pad, suppress, C, k, w[k])
      BY <2>2, <2>3, <3>1, DiffStep
    <3> QED BY <2>0, <3>2
  <2>4. CASE Order[k] \notin C
    <3>1. w[k] = w[k - 1]
      BY <2>1, <2>4
    <3>2. Met(C, k) = Met(C, k - 1)
      <4>1. 1 .. k = (1 .. k - 1) \union {k}
        BY <1>2
      <4> QED BY <2>4, <4>1 DEF Met
    <3>3. DiffedTo(pad, suppress, C, k, w[k])
      BY <2>2, <3>1, <3>2 DEF DiffedTo
    <3> QED BY <2>0, <2>2, <3>1, <3>3
  <2> QED BY <2>3, <2>4
<1>10. N \in P
  <2> HIDE DEF P, N
  <2>1. 0 .. N \subseteq P
    BY <1>2, <1>8, <1>9, Induction
  <2> QED BY <1>2, <2>1
<1>11. t = w[N]
  BY DEF DiffAll, w
<1> QED BY <1>10, <1>11

-----------------------------------------------------------------------------
(* The scratchpad.                                                         *)

\* A scratchpad is never the missing one.
LEMMA PadExists == ASSUME NEW pad \in Pad PROVE Exists(pad)
<1>1. "snapshots" \in DOMAIN pad /\ "snapshots" \notin DOMAIN NoPad
  BY DEF Pad, NoPad
<1> QED BY <1>1 DEF Exists

\* The scratchpad of a watch that was never polled.
LEMMA FreshOK ==
    ASSUME WatchAssumption
    PROVE  PadOK(FreshPad) /\ FreshPad.seen_deliveries = <<>> /\ FreshPad.seen_ids = {}
           /\ FreshPad.bound = 0
<1>1. Ceiling \in Nat /\ SnapshotCap \in Nat
  BY DEF WatchAssumption
<1> QED BY <1>1 DEF FreshPad, PadOK, Pad, Unique, Distinct

\* The end of a contract leaves the ledger and the contents seen.
LEMMA OrphanedOK ==
    ASSUME WatchAssumption, NEW pad, PadOK(pad), NEW q, q = Orphaned(pad)
    PROVE  PadOK(q) /\ q.bound = 0 /\ q.seen_deliveries = pad.seen_deliveries
           /\ q.seen_ids = pad.seen_ids
<1>1. Ceiling \in Nat /\ SnapshotCap \in Nat
  BY DEF WatchAssumption
<1>0. PICK e : e = <<>>
  OBVIOUS
<1>2. q = [pad EXCEPT !.bound = 0, !.snapshots = e, !.streak = 0]
  BY <1>0 DEF Orphaned
<1>3. pad \in Pad /\ Unique(pad.seen_deliveries)
  BY DEF PadOK
<1>4. e \in Seq(Snapshot) /\ Distinct(e) /\ Len(e) <= SnapshotCap /\ 0 \in 0 .. Ceiling
  BY <1>0, <1>1 DEF Distinct
<1>5. q \in Pad /\ q.bound = 0 /\ q.snapshots = e
      /\ q.seen_deliveries = pad.seen_deliveries /\ q.seen_ids = pad.seen_ids
  <2>1. PICK z : z = 0
    OBVIOUS
  <2>2. q = [pad EXCEPT !.bound = z, !.snapshots = e, !.streak = z]
    BY <1>2, <2>1
  <2>3. z \in Nat /\ z \in 0 .. Ceiling
    BY <1>1, <2>1
  <2>4. q \in Pad /\ q.bound = z /\ q.snapshots = e
        /\ q.seen_deliveries = pad.seen_deliveries /\ q.seen_ids = pad.seen_ids
    BY <1>3, <1>4, <2>2, <2>3 DEF Pad
  <2> QED BY <2>1, <2>4
<1> QED BY <1>3, <1>4, <1>5 DEF PadOK

\* The authoring pass leaves all but its own counters.
LEMMA AuthoringOK ==
    ASSUME WatchAssumption, NEW pad, PadOK(pad), tick.instruction \in Nat,
           NEW q, q = Authoring(pad)
    PROVE  PadOK(q) /\ q.bound = pad.bound /\ q.seen_deliveries = pad.seen_deliveries
           /\ q.seen_ids = pad.seen_ids /\ q.snapshots = pad.snapshots
<1>1. Ceiling \in Nat /\ SnapshotCap \in Nat
  BY DEF WatchAssumption
<1>2. PICK s : s = IF pad.authored # tick.instruction /\ pad.streak >= Ceiling THEN 0 ELSE pad.streak
  OBVIOUS
<1>3. q = [pad EXCEPT !.authored = tick.instruction, !.streak = s]
  BY <1>2 DEF Authoring
<1>4. pad \in Pad /\ s \in 0 .. Ceiling
  BY <1>1, <1>2 DEF PadOK, Pad
<1>5. q \in Pad /\ q.bound = pad.bound /\ q.seen_deliveries = pad.seen_deliveries
      /\ q.seen_ids = pad.seen_ids /\ q.snapshots = pad.snapshots
  BY <1>3, <1>4 DEF Pad
<1> QED BY <1>5 DEF PadOK

\* What the assumption says of the items.
LEMMA LengthOK == ASSUME WatchAssumption PROVE Len(Order) \in Nat
BY DEF WatchAssumption

-----------------------------------------------------------------------------
(* What stays as it is.                                                    *)

\* An edit that goes on, or that is over.
LEMMA EditFrame ==
    ASSUME EditOK, edit' \in {edit, NoEdit}, instruction \in Nat,
           instruction' \in {instruction, instruction + 1}, Exists(disk) => Exists(disk')
    PROVE  EditOK' /\ (Loaded' => Loaded /\ edit' = edit)
<1>1. ~(NoEdit.at = "loaded")
  BY DEF NoEdit
<1>2. CASE edit' = NoEdit
  BY <1>1, <1>2 DEF EditOK, Loaded
<1>3. CASE edit' = edit
  <2>1. [at : {"keeping"}, contract : 0 .. instruction]
        \subseteq [at : {"keeping"}, contract : 0 .. instruction']
    OBVIOUS
  <2> QED BY <1>3, <2>1 DEF EditOK, Loaded
<1> QED BY <1>2, <1>3

\* Ledgers that agree with the same one agree with each other.
LEMMA AgreeAll ==
    ASSUME NEW L, NEW M, NEW N, NEW but, Agree(L, M, but), Agree(M, N, but)
    PROVE  Agree(L, N, but)
<1>1. \A A, B, C : Within(A, B, but) /\ Within(B, C, but) => Within(A, C, but)
  <2>1. SUFFICES ASSUME NEW A, NEW B, NEW C, Within(A, B, but), Within(B, C, but),
                        NEW k \in DOMAIN A, A[k].id \notin but
                 PROVE  \E j \in DOMAIN C : C[j] = A[k]
    BY DEF Within
  <2>2. PICK i \in DOMAIN B : B[i] = A[k]
    BY <2>1 DEF Within
  <2> QED BY <2>1, <2>2 DEF Within
<1> QED BY <1>1 DEF Agree

\* A ledger agrees with itself.
LEMMA AgreeSelf == ASSUME NEW L, NEW but PROVE Agree(L, L, but)
BY DEF Agree, Within

\* Ledgers that agree but for some findings agree but for more of them.
LEMMA AgreeBut ==
    ASSUME NEW L, NEW M, NEW but, NEW more, Agree(L, M, but), but \subseteq more
    PROVE  Agree(L, M, more)
BY DEF Agree, Within

\* A row is traced in a ledger if it is in another that agrees on its findings.
LEMMA TracedAgreed ==
    ASSUME NEW L, NEW M, NEW but, Agree(L, M, but), NEW r, NEW row, row.ids \cap but = {},
           NEW lossy, Traced(L, r, row, lossy)
    PROVE  Traced(M, r, row, lossy)
<1>1. /\ \A k \in DOMAIN L : L[k].id \in row.ids => \E j \in DOMAIN M : M[j] = L[k]
      /\ \A k \in DOMAIN M : M[k].id \in row.ids => \E j \in DOMAIN L : L[j] = M[k]
  BY DEF Agree, Within
<1>2. ASSUME Awaits(L, r, row) PROVE Awaits(M, r, row)
  <2>1. ASSUME NEW id \in row.ids
        PROVE  \E k \in DOMAIN M : /\ M[k].id = id /\ M[k].status = "Pending"
                                    /\ M[k].run \in {0, r} /\ M[k].polls <= row.passes
    <3>1. PICK k \in DOMAIN L : /\ L[k].id = id /\ L[k].status = "Pending"
                                /\ L[k].run \in {0, r} /\ L[k].polls <= row.passes
      BY <1>2, <2>1 DEF Awaits
    <3>2. PICK j \in DOMAIN M : M[j] = L[k]
      BY <1>1, <2>1, <3>1
    <3> QED BY <3>1, <3>2
  <2>2. ASSUME NEW j \in DOMAIN M, NEW k \in DOMAIN M, M[j].id \in row.ids, M[k].id \in row.ids
        PROVE  M[j].run = M[k].run
    <3>1. PICK a \in DOMAIN L : L[a] = M[j]
      BY <1>1, <2>2
    <3>2. PICK b \in DOMAIN L : L[b] = M[k]
      BY <1>1, <2>2
    <3>3. L[a].run = L[b].run
      BY <1>2, <2>2, <3>1, <3>2 DEF Awaits
    <3> QED BY <3>1, <3>2, <3>3
  <2> QED BY <2>1, <2>2 DEF Awaits
<1>3. ASSUME Remembered(L, r, row) PROVE Remembered(M, r, row)
  <2>1. ASSUME NEW id \in row.ids
        PROVE  \E k \in DOMAIN M :
                  /\ M[k].id = id
                  /\ \/ M[k].status = "Confirmed" \/ M[k].run = r
                     \/ /\ M[k].polls <= row.passes
                        /\ \A j \in DOMAIN M : M[j].id \in row.ids => Open(M[j])
    <3>1. PICK k \in DOMAIN L :
             /\ L[k].id = id
             /\ \/ L[k].status = "Confirmed" \/ L[k].run = r
                \/ /\ L[k].polls <= row.passes
                   /\ \A j \in DOMAIN L : L[j].id \in row.ids => Open(L[j])
      BY <1>3, <2>1 DEF Remembered
    <3>2. PICK m \in DOMAIN M : M[m] = L[k]
      BY <1>1, <2>1, <3>1
    <3>3. (\A j \in DOMAIN L : L[j].id \in row.ids => Open(L[j]))
          => \A j \in DOMAIN M : M[j].id \in row.ids => Open(M[j])
      <4>1. SUFFICES ASSUME \A j \in DOMAIN L : L[j].id \in row.ids => Open(L[j]),
                            NEW j \in DOMAIN M, M[j].id \in row.ids
                     PROVE  Open(M[j])
        OBVIOUS
      <4>2. PICK a \in DOMAIN L : L[a] = M[j]
        BY <1>1, <4>1
      <4> QED BY <4>1, <4>2
    <3> QED BY <3>1, <3>2, <3>3
  <2> QED BY <2>1 DEF Remembered
<1> QED BY <1>2, <1>3 DEF Traced

\* The rows and the flag stay, and a ledger that agrees with the one on disk, but for
\* what an edit has put back, takes its place.
LEMMA LedgerFrame ==
    ASSUME RunsTraced, runs' = runs, forgot' = forgot,
           undone \subseteq undone', Agree(DiskLedger, DiskLedger', undone'),
           AllSound(DiskLedger'), Working' => AllSound(tick'.pad.seen_deliveries),
           Loaded' => AllSound(edit'.pad.seen_deliveries)
    PROVE  LedgerSound' /\ RunsTraced'
<1>1. LedgerSound'
  BY DEF LedgerSound, AllSound, EntrySound, BoundRuns
<1>2. RunsTraced'
  <2>1. SUFFICES ASSUME NEW r \in DOMAIN runs, Recent(runs[r]), runs[r].ids \cap undone' = {}
                 PROVE  Traced(DiskLedger', r, runs[r], forgot)
    BY DEF RunsTraced, Kept, Recent
  <2>2. Traced(DiskLedger, r, runs[r], forgot)
    BY <2>1 DEF RunsTraced, Kept
  <2> QED BY <2>1, <2>2, TracedAgreed
<1> QED BY <1>1, <1>2

\* What has been reported depends on the rows and the baseline alone.
LEMMA ReportedFrame == ASSUME runs' = runs, baseline' = baseline PROVE Reported' = Reported
BY DEF Reported, BoundRuns

\* The ledger on disk once a scratchpad has been written.
LEMMA DiskLedgerOf ==
    ASSUME NEW pad, PadOK(pad), disk' = pad
    PROVE  DiskLedger' = pad.seen_deliveries /\ Exists(disk')
BY PadExists DEF DiskLedger, PadOK, Exists

\* A poll under way, and what is known of it.
LEMMA PollParts ==
    ASSUME WatchInv, Working
    PROVE  /\ tick = Tick(tick.at, tick.contract, tick.instruction, tick.first, tick.pad, tick.batch)
           /\ tick.contract \in 0 .. instruction /\ tick.contract \in Nat
           /\ tick.instruction \in 1 .. instruction /\ tick.instruction \in Nat
           /\ tick.first \in BOOLEAN /\ PadOK(tick.pad)
           /\ tick.contract = 0 => tick.pad.bound = 0
           /\ Agree(DiskLedger, tick.pad.seen_deliveries, undone)
           /\ AllSound(tick.pad.seen_deliveries)
           /\ tick.pad.seen_ids \subseteq Reported \cup (IF At("firing") THEN tick.batch ELSE {})
           /\ Roomy => KnowsHistory(tick.pad)
<1>1. TickOK /\ LedgerAgrees /\ LedgerSound /\ SeenSound /\ HistoryKnown /\ instruction \in Nat
  BY DEF WatchInv, WatchTypeOK
<1>2. /\ tick = Tick(tick.at, tick.contract, tick.instruction, tick.first, tick.pad, tick.batch)
      /\ tick.contract \in 0 .. instruction /\ tick.instruction \in 1 .. instruction
      /\ tick.first \in BOOLEAN /\ PadOK(tick.pad)
      /\ tick.contract = 0 => tick.pad.bound = 0
  BY <1>1 DEF TickOK
<1>3. tick.contract \in Nat /\ tick.instruction \in Nat
  BY <1>1, <1>2
<1>4. Agree(DiskLedger, tick.pad.seen_deliveries, undone) /\ AllSound(tick.pad.seen_deliveries)
  BY <1>1 DEF LedgerAgrees, LedgerSound, Agree
<1>5. tick.pad.seen_ids \subseteq Reported \cup (IF At("firing") THEN tick.batch ELSE {})
  BY <1>1 DEF SeenSound
<1>6. Roomy => KnowsHistory(tick.pad)
  BY <1>1 DEF HistoryKnown
<1> QED BY <1>2, <1>3, <1>4, <1>5, <1>6

\* The poll gives up or is done: what it leaves on disk agrees with what was there, and
\* rows and ghosts stay.
LEMMA PollLeaves ==
    ASSUME WatchInv, tick' = Idle \/ tick' = [at |-> "panicked"],
           Agree(DiskLedger, DiskLedger', undone), AllSound(DiskLedger'),
           Exists(disk) => Exists(disk'),
           Exists(disk') => PadOK(disk') /\ disk'.seen_ids \subseteq Reported,
           Exists(disk') /\ Roomy => KnowsHistory(disk'),
           world' = world, instruction' = instruction, contract' = contract, edit' = edit,
           runs' = runs, history' = history, baseline' = baseline, forgot' = forgot,
           undone' = undone, changes' = changes, edits' = edits, crashes' = crashes
    PROVE  WatchInv'
<1>1. WatchTypeOK /\ SeenSound /\ LedgerSound /\ RunsTraced /\ EditOK /\ instruction \in Nat
  BY DEF WatchInv, WatchTypeOK
<1>2. ~Working' /\ tick'.at \in {"idle", "panicked"} /\ tick'.at \notin Bound /\ tick'.at \notin Legacy
  BY DEF Working, Idle, Bound, Legacy
<1>8. EditOK' /\ (Loaded' => Loaded /\ edit' = edit)
  BY <1>1, EditFrame
<1>3. WatchTypeOK'
  BY <1>1, <1>2, <1>8 DEF WatchTypeOK, TickOK
<1>4. SeenSound'
  BY <1>1, <1>2, <1>8, ReportedFrame DEF SeenSound
<1>5. LedgerAgrees' /\ BatchSound'
  BY <1>2 DEF LedgerAgrees, BatchSound
<1>6. LedgerSound' /\ RunsTraced'
  BY <1>1, <1>2, <1>8, LedgerFrame DEF LedgerSound
<1>7. HistoryKnown'
  BY <1>2 DEF HistoryKnown, KnowsHistory
<1> QED BY <1>3, <1>4, <1>5, <1>6, <1>7 DEF WatchInv

-----------------------------------------------------------------------------
(* The steps of a poll.                                                    *)

\* Loading the scratchpad keeps the invariant, an orphaned one included.
LEMMA StartPollKeeps == ASSUME WatchAssumption, WatchInv, StartPoll PROVE WatchInv'
<1>1. PICK p : p = IF Exists(disk) THEN disk ELSE FreshPad
  OBVIOUS
<1>2. WatchTypeOK /\ SeenSound /\ HistoryKnown /\ LedgerSound /\ RunsTraced /\ EditOK
      /\ instruction \in Nat
  BY DEF WatchInv, WatchTypeOK
<1>3. /\ PadOK(p) /\ p.seen_deliveries = DiskLedger /\ p.seen_ids \subseteq Reported
      /\ p.bound # 0 => Exists(disk) /\ p = disk
      /\ Roomy => KnowsHistory(p)
  <2>1. CASE Exists(disk)
    BY <1>1, <1>2, <2>1 DEF WatchTypeOK, SeenSound, HistoryKnown, DiskLedger
  <2>2. CASE ~Exists(disk)
    BY <1>1, <2>2, FreshOK DEF DiskLedger, KnowsHistory
  <2> QED BY <2>1, <2>2
<1>4. PICK q : q = IF contract = 0 /\ p.bound # 0 THEN Orphaned(p) ELSE p
  OBVIOUS
<1>5. /\ tick' = Tick("observing", contract, instruction, ~Exists(disk), q, <<>>)
      /\ disk' = IF contract = 0 /\ p.bound # 0 THEN Orphaned(p) ELSE disk
  BY <1>1, <1>4 DEF StartPoll
<1>6. /\ PadOK(q) /\ q.seen_deliveries = DiskLedger /\ q.seen_ids \subseteq Reported
      /\ contract = 0 => q.bound = 0
      /\ Roomy => KnowsHistory(q)
  <2>1. CASE contract = 0 /\ p.bound # 0
    BY <1>3, <1>4, <2>1, OrphanedOK DEF KnowsHistory
  <2>2. CASE ~(contract = 0 /\ p.bound # 0)
    BY <1>3, <1>4, <2>2
  <2> QED BY <2>1, <2>2
<1>7. (disk' = disk \/ disk' = q) /\ (Exists(disk) => Exists(disk'))
  <2>1. PadOK(q) => Exists(q)
    BY PadExists DEF PadOK
  <2> QED BY <1>4, <1>5, <1>6, <2>1
<1>8. DiskLedger' = DiskLedger
  BY <1>6, <1>7, DiskLedgerOf DEF DiskLedger
<1>9. /\ tick'.at = "observing" /\ tick'.contract = contract /\ tick'.instruction = instruction
      /\ tick'.first = ~Exists(disk) /\ tick'.pad = q
      /\ tick' = Tick(tick'.at, tick'.contract, tick'.instruction, tick'.first, tick'.pad, tick'.batch)
  BY <1>5 DEF Tick
<1>10. tick'.at \notin Bound /\ tick'.at \notin Legacy /\ ~At("firing")'
  BY <1>9 DEF Bound, Legacy, At
<1>11. UNCHANGED <<world, instruction, contract, edit, runs, history, baseline, forgot, undone,
                   changes, edits, crashes>>
  BY DEF StartPoll, ghosts, bounds
<1>18. EditOK' /\ (Loaded' => Loaded /\ edit' = edit)
  BY <1>2, <1>7, <1>11, EditFrame
<1>12. TickOK'
  <2>1. instruction \in Nat \ {0} /\ contract \in 0 .. instruction /\ instruction \in 1 .. instruction
    BY <1>2 DEF WatchTypeOK
  <2>2. (~Exists(disk)) \in BOOLEAN
    OBVIOUS
  <2> QED BY <1>6, <1>9, <1>10, <1>11, <2>1, <2>2 DEF TickOK
<1>13. WatchTypeOK'
  <2>1. Exists(disk') => PadOK(disk')
    BY <1>2, <1>6, <1>7 DEF WatchTypeOK
  <2> QED BY <1>2, <1>11, <1>12, <1>18, <2>1 DEF WatchTypeOK
<1>14. SeenSound'
  <2>1. Reported' = Reported
    BY <1>11, ReportedFrame
  <2> QED BY <1>2, <1>6, <1>7, <1>9, <1>10, <1>18, <2>1 DEF SeenSound
<1>15. LedgerAgrees' /\ BatchSound'
  BY <1>6, <1>8, <1>9, <1>10, AgreeSelf DEF LedgerAgrees, BatchSound
<1>16. LedgerSound' /\ RunsTraced'
  <2>1. Agree(DiskLedger, DiskLedger', undone')
    BY <1>8, AgreeSelf
  <2> QED BY <1>2, <1>6, <1>8, <1>9, <1>11, <1>18, <2>1, LedgerFrame DEF LedgerSound
<1>17. HistoryKnown'
  BY <1>2, <1>6, <1>7, <1>9, <1>10, <1>11 DEF HistoryKnown, KnowsHistory
<1> QED BY <1>13, <1>14, <1>15, <1>16, <1>17 DEF WatchInv

\* A poll whose agent did not answer keeps it.
LEMMA ObservationFailsKeeps == ASSUME WatchAssumption, WatchInv, ObservationFails PROVE WatchInv'
<1>1. Working /\ ~At("firing")
  BY DEF ObservationFails, At, Working
<1>2. /\ PadOK(tick.pad) /\ tick.instruction \in Nat
      /\ Agree(DiskLedger, tick.pad.seen_deliveries, undone)
      /\ AllSound(tick.pad.seen_deliveries)
      /\ tick.pad.seen_ids \subseteq Reported
      /\ Roomy => KnowsHistory(tick.pad)
  BY <1>1, PollParts
<1>3. PICK q : q = IF tick.contract = 0 THEN Authoring(tick.pad) ELSE tick.pad
  OBVIOUS
<1>4. PadOK(q) /\ q.seen_deliveries = tick.pad.seen_deliveries /\ q.seen_ids \subseteq Reported
      /\ (Roomy => KnowsHistory(q))
  <2>1. CASE tick.contract = 0
    BY <1>2, <1>3, <2>1, AuthoringOK DEF KnowsHistory, Known
  <2>2. CASE tick.contract # 0
    BY <1>2, <1>3, <2>2
  <2> QED BY <2>1, <2>2
<1>5. disk' = q /\ tick' = Idle
  BY <1>3 DEF ObservationFails
<1>6. DiskLedger' = tick.pad.seen_deliveries /\ Exists(disk')
  BY <1>4, <1>5, DiskLedgerOf
<1> QED BY <1>2, <1>4, <1>5, <1>6, PollLeaves DEF ObservationFails, ghosts, bounds

\* A poll whose dispatch failed keeps it: the scratchpad is written again as it is.
LEMMA DispatchFailsKeeps == ASSUME WatchInv, DispatchFails PROVE WatchInv'
<1>1. Working /\ ~At("firing")
  BY DEF DispatchFails, At, Working, Bound
<1>2. /\ PadOK(tick.pad) /\ Agree(DiskLedger, tick.pad.seen_deliveries, undone)
      /\ AllSound(tick.pad.seen_deliveries)
      /\ tick.pad.seen_ids \subseteq Reported
      /\ Roomy => KnowsHistory(tick.pad)
  BY <1>1, PollParts
<1>3. disk' = tick.pad /\ tick' = Idle
  BY DEF DispatchFails
<1>4. DiskLedger' = tick.pad.seen_deliveries /\ Exists(disk')
  BY <1>2, <1>3, DiskLedgerOf
<1> QED BY <1>2, <1>3, <1>4, PollLeaves DEF DispatchFails, ghosts, bounds

\* A poll without contract that could not fire keeps it: nothing is written.
LEMMA LegacyFireFailsKeeps == ASSUME WatchInv, LegacyFireFails PROVE WatchInv'
<1>1. DiskLedger' = DiskLedger /\ disk' = disk
  BY DEF LegacyFireFails, DiskLedger
<1>3. Agree(DiskLedger, DiskLedger, undone) /\ AllSound(DiskLedger)
  BY AgreeSelf DEF WatchInv, LedgerSound
<1>2. /\ Exists(disk) => PadOK(disk) /\ disk.seen_ids \subseteq Reported
      /\ Exists(disk) /\ Roomy => KnowsHistory(disk)
  BY DEF WatchInv, WatchTypeOK, SeenSound, HistoryKnown
<1> QED BY <1>1, <1>2, <1>3, PollLeaves DEF LegacyFireFails, ghosts, bounds

\* A poll without contract that fired keeps it: what is seen now was fired.
LEMMA LegacyCommitKeeps == ASSUME WatchInv, LegacyCommit PROVE WatchInv'
<1>1. Working /\ ~At("firing")
  BY DEF LegacyCommit, At, Working, Legacy
<1>2. /\ PadOK(tick.pad) /\ Agree(DiskLedger, tick.pad.seen_deliveries, undone)
      /\ AllSound(tick.pad.seen_deliveries)
      /\ tick.pad.seen_ids \subseteq Reported
      /\ Roomy => KnowsHistory(tick.pad)
  BY <1>1, PollParts
<1>3. disk' = tick.pad /\ tick' = Idle
  BY DEF LegacyCommit
<1>4. DiskLedger' = tick.pad.seen_deliveries /\ Exists(disk')
  BY <1>2, <1>3, DiskLedgerOf
<1> QED BY <1>2, <1>3, <1>4, PollLeaves DEF LegacyCommit, ghosts, bounds

\* What a watch without contract has seen: the items in their state.
LEMMA ContentsOK ==
    ASSUME world \in [Items -> States]
    PROVE  {<<i, world[i]>> : i \in Present} \subseteq Content
BY DEF Present, Content

\* The poll of a watch without contract keeps it up to the firing.
LEMMA LegacyPollKeeps ==
    ASSUME WatchAssumption, WatchInv, NEW binds \in BOOLEAN, LegacyPoll(binds) PROVE WatchInv'
<1>1. Working /\ ~At("firing") /\ tick.contract = 0
  BY DEF LegacyPoll, At, Working
<1>2. /\ tick = Tick(tick.at, tick.contract, tick.instruction, tick.first, tick.pad, tick.batch)
      /\ tick.contract \in 0 .. instruction
      /\ tick.instruction \in 1 .. instruction /\ tick.instruction \in Nat
      /\ tick.first \in BOOLEAN /\ PadOK(tick.pad) /\ tick.pad.bound = 0
      /\ Agree(DiskLedger, tick.pad.seen_deliveries, undone)
      /\ AllSound(tick.pad.seen_deliveries)
      /\ tick.pad.seen_ids \subseteq Reported
  BY <1>1, PollParts
<1>3. world \in [Items -> States] /\ contract \in 0 .. instruction /\ instruction \in Nat \ {0}
      /\ baseline \subseteq Content /\ WatchTypeOK /\ SeenSound /\ LedgerSound /\ RunsTraced
      /\ EditOK
  BY DEF WatchInv, WatchTypeOK
<1>4. PICK begun : begun = Authoring(tick.pad)
  OBVIOUS
<1>5. PadOK(begun) /\ begun.bound = 0 /\ begun.seen_deliveries = tick.pad.seen_deliveries
      /\ begun.seen_ids \subseteq Reported
  BY <1>2, <1>4, AuthoringOK
<1>6. PICK s : s = IF binds THEN 0
                   ELSE IF begun.streak >= Ceiling THEN begun.streak ELSE begun.streak + 1
  OBVIOUS
<1>7. s \in 0 .. Ceiling
  <2>1. begun.streak \in 0 .. Ceiling /\ Ceiling \in Nat
    BY <1>5 DEF PadOK, Pad, WatchAssumption
  <2> QED BY <1>6, <2>1
<1>8. PICK pad : pad = [begun EXCEPT !.streak = s]
  OBVIOUS
<1>9. PadOK(pad) /\ pad.bound = 0 /\ pad.seen_deliveries = tick.pad.seen_deliveries
      /\ pad.seen_ids \subseteq Reported
  <2>1. begun \in Pad
    BY <1>5 DEF PadOK
  <2>2. pad \in Pad /\ pad.bound = begun.bound /\ pad.seen_deliveries = begun.seen_deliveries
        /\ pad.seen_ids = begun.seen_ids /\ pad.snapshots = begun.snapshots
    BY <1>7, <1>8, <2>1 DEF Pad
  <2> QED BY <1>5, <2>2 DEF PadOK
<1>10. PICK contents : contents = {<<i, world[i]>> : i \in Present}
  OBVIOUS
<1>11. contents \subseteq Content
  BY <1>3, <1>10, ContentsOK
<1>12. PICK seen : seen = [pad EXCEPT !.seen_ids = @ \union contents]
  OBVIOUS
<1>13. PadOK(seen) /\ seen.bound = 0 /\ seen.seen_deliveries = tick.pad.seen_deliveries
       /\ seen.seen_ids = pad.seen_ids \union contents
  <2>1. pad \in Pad /\ pad.seen_ids \subseteq Content
    BY <1>9 DEF PadOK, Pad
  <2>2. PICK u : u = pad.seen_ids \union contents
    OBVIOUS
  <2>3. u \subseteq Content /\ seen = [pad EXCEPT !.seen_ids = u]
    BY <1>11, <1>12, <2>1, <2>2
  <2>4. seen \in Pad /\ seen.bound = pad.bound /\ seen.seen_deliveries = pad.seen_deliveries
        /\ seen.seen_ids = u /\ seen.snapshots = pad.snapshots
    BY <2>1, <2>3 DEF Pad
  <2> QED BY <1>9, <2>2, <2>4 DEF PadOK
<1>14. PICK fresh : fresh = contents \ pad.seen_ids
  OBVIOUS
<1>15. PICK seed \in BOOLEAN : seed = (tick.first \/ pad.streak >= Ceiling)
  OBVIOUS
<1>16. /\ contract' = (IF binds THEN tick.instruction ELSE contract) /\ edit' \in {edit, NoEdit}
       /\ \/ (seed \/ fresh = {}) /\ disk' = (IF seed THEN seen ELSE pad) /\ tick' = Idle
          \/ /\ ~seed /\ disk' = pad
             /\ tick' = [tick EXCEPT !.at = "firing", !.pad = seen, !.batch = fresh]
       /\ baseline' = IF seed THEN baseline \union contents ELSE baseline
  BY <1>4, <1>6, <1>8, <1>10, <1>12, <1>14, <1>15 DEF LegacyPoll, Binds
<1>17. UNCHANGED <<world, instruction, runs, history, forgot, undone, changes, edits, crashes>>
  BY DEF LegacyPoll, bounds
<1>18. disk' \in {seen, pad} /\ PadOK(disk') /\ disk'.bound = 0
       /\ DiskLedger' = tick.pad.seen_deliveries /\ Exists(disk')
  <2>1. disk' = seen \/ disk' = pad
    BY <1>16
  <2> QED BY <1>9, <1>13, <2>1, DiskLedgerOf
<1>29. EditOK' /\ (Loaded' => Loaded /\ edit' = edit)
  BY <1>3, <1>16, <1>17, <1>18, EditFrame
<1>19. Reported \subseteq Reported' /\ (seed => contents \subseteq Reported')
  BY <1>16, <1>17 DEF Reported, BoundRuns
<1>20. \/ /\ tick'.at = "idle" /\ ~Working' /\ tick'.at \notin Bound /\ tick'.at \notin Legacy
       \/ /\ tick'.at = "firing" /\ Working' /\ tick'.at \notin Bound /\ tick'.at \in Legacy
          /\ tick' = Tick("firing", tick.contract, tick.instruction, tick.first, seen, fresh)
          /\ ~seed /\ disk' = pad
  <2>1. CASE tick' = Idle
    BY <2>1 DEF Idle, Working, Bound, Legacy
  <2>2. CASE tick' = [tick EXCEPT !.at = "firing", !.pad = seen, !.batch = fresh]
             /\ ~seed /\ disk' = pad
    <3>1. tick' = Tick("firing", tick.contract, tick.instruction, tick.first, seen, fresh)
      BY <1>2, <2>2 DEF Tick
    <3>2. tick'.at = "firing"
      BY <3>1 DEF Tick
    <3> QED BY <2>2, <3>1, <3>2 DEF Working, Bound, Legacy
  <2> QED BY <1>16, <2>1, <2>2
<1>21. Working' => /\ tick'.at = "firing" /\ tick'.contract = tick.contract
                   /\ tick'.instruction = tick.instruction /\ tick'.first = tick.first
                   /\ tick'.pad = seen /\ tick'.batch = fresh
                   /\ tick' = Tick(tick'.at, tick'.contract, tick'.instruction, tick'.first,
                                   tick'.pad, tick'.batch)
  BY <1>20 DEF Tick
<1>22. TickOK'
  BY <1>1, <1>2, <1>11, <1>13, <1>14, <1>17, <1>20, <1>21 DEF TickOK
<1>23. contract' \in 0 .. instruction
  BY <1>2, <1>3, <1>16
<1>24. WatchTypeOK'
  <2>1. baseline' \subseteq Content
    BY <1>3, <1>11, <1>16
  <2> QED BY <1>3, <1>17, <1>18, <1>22, <1>23, <1>29, <2>1 DEF WatchTypeOK
<1>25. SeenSound'
  <2>1. disk'.seen_ids \subseteq Reported'
    <3>1. CASE seed
      BY <1>9, <1>13, <1>18, <1>19, <3>1
    <3>2. CASE ~seed
      <4>1. disk' = pad \/ fresh = {}
        BY <1>16, <3>2
      <4>2. disk' = pad
        BY <1>16, <3>2
      <4> QED BY <1>9, <1>19, <4>2
    <3> QED BY <3>1, <3>2
  <2>2. Working' => At("firing")' /\ tick'.pad.seen_ids \subseteq Reported' \cup tick'.batch
    BY <1>9, <1>13, <1>14, <1>19, <1>21 DEF At
  <2>3. Loaded' => edit'.pad.seen_ids \subseteq Reported'
    BY <1>3, <1>19, <1>29 DEF SeenSound
  <2> QED BY <2>1, <2>2, <2>3 DEF SeenSound
<1>26. LedgerAgrees' /\ BatchSound'
  BY <1>13, <1>18, <1>20, <1>21, AgreeSelf DEF LedgerAgrees, BatchSound
<1>27. LedgerSound' /\ RunsTraced'
  <2>1. Working' => AllSound(tick'.pad.seen_deliveries)
    BY <1>2, <1>13, <1>21
  <2>2. Loaded' => AllSound(edit'.pad.seen_deliveries)
    BY <1>3, <1>29 DEF LedgerSound
  <2> QED BY <1>2, <1>3, <1>17, <1>18, <2>1, <2>2, LedgerFrame
<1>28. HistoryKnown'
  BY <1>13, <1>18, <1>20, <1>21 DEF HistoryKnown, KnowsHistory
<1> QED BY <1>24, <1>25, <1>26, <1>27, <1>28 DEF WatchInv

-----------------------------------------------------------------------------
(* The rows.                                                               *)

\* A row appended to the rows of the runs.
LEMMA RowAdded ==
    ASSUME runs \in Seq(Row), NEW row \in Row, runs' = Append(runs, row)
    PROVE  /\ runs' \in Seq(Row) /\ Len(runs) \in Nat /\ Len(runs') = Len(runs) + 1
           /\ DOMAIN runs = 1 .. Len(runs) /\ DOMAIN runs' = 1 .. Len(runs) + 1
           /\ \A r \in DOMAIN runs : r \in DOMAIN runs' /\ runs'[r] = runs[r]
           /\ runs'[Len(runs) + 1] = row /\ Len(runs) + 1 \notin DOMAIN runs
OBVIOUS

\* Rows changed one by one.
LEMMA RowsMapped ==
    ASSUME runs \in Seq(Row), NEW f, DOMAIN f = DOMAIN runs, f = [r \in DOMAIN f |-> f[r]],
           \A r \in DOMAIN runs : f[r] \in Row
    PROVE  f \in Seq(Row) /\ Len(f) = Len(runs)
<1>1. Len(runs) \in Nat /\ DOMAIN runs = 1 .. Len(runs)
  OBVIOUS
<1>2. f \in [1 .. Len(runs) -> Row]
  BY <1>1
<1> QED BY <1>1, <1>2

\* What a row may be about.
LEMMA RowParts ==
    ASSUME NEW row \in Row
    PROVE  /\ row.kind \in {"bound", "legacy"} /\ row.status \in Status /\ row.passes \in Nat
           /\ row.kind = "bound" => row.ids \subseteq Finding
           /\ row.kind = "legacy" => row.ids \subseteq Content
           /\ row = [ids |-> row.ids, kind |-> row.kind, status |-> row.status,
                     passes |-> row.passes]
BY DEF Row

\* A row with another status.
LEMMA RowBuilt ==
    ASSUME NEW row \in Row, NEW s \in Status PROVE [row EXCEPT !.status = s] \in Row
BY DEF Row

\* A row with another count of polls.
LEMMA RowCounts ==
    ASSUME NEW row \in Row, NEW p \in Nat PROVE [row EXCEPT !.passes = p] \in Row
BY DEF Row

\* Firing the contents keeps it: they are reported from now on.
LEMMA LegacyFireKeeps == ASSUME WatchAssumption, WatchInv, LegacyFire PROVE WatchInv'
<1>1. Working /\ At("firing") /\ tick.at = "firing" /\ tick.at \in Legacy
  BY DEF LegacyFire, At, Working, Legacy
<1>2. /\ tick = Tick(tick.at, tick.contract, tick.instruction, tick.first, tick.pad, tick.batch)
      /\ tick.pad.seen_ids \subseteq Reported \cup tick.batch
      /\ Roomy => KnowsHistory(tick.pad)
  BY <1>1, PollParts
<1>3. TickOK /\ runs \in Seq(Row) /\ SeenSound /\ LedgerSound /\ RunsTraced /\ HistoryKnown
      /\ WatchTypeOK /\ LedgerAgrees
  BY DEF WatchInv, WatchTypeOK
<1>4. tick.batch \subseteq Content
  BY <1>1, <1>3 DEF TickOK
<1>5. PICK row : row = Run(tick.batch, "legacy")
  OBVIOUS
<1>6. row \in Row /\ row.kind = "legacy" /\ row.ids = tick.batch
  BY <1>4, <1>5 DEF Row, Run, Status
<1>7. /\ runs' \in Seq(Row) /\ DOMAIN runs' = DOMAIN runs \union {Len(runs) + 1}
      /\ Len(runs) + 1 \notin DOMAIN runs
      /\ \A r \in DOMAIN runs : runs'[r] = runs[r]
      /\ runs'[Len(runs) + 1] = row
  BY <1>3, <1>5, <1>6, RowAdded DEF LegacyFire
<1>8. /\ UNCHANGED <<world, instruction, contract, disk, edit, history, baseline, forgot, undone,
                     changes, edits, crashes>>
      /\ tick' = [tick EXCEPT !.at = "committing"]
  BY DEF LegacyFire, ghosts, bounds
<1>9. /\ tick' = Tick("committing", tick.contract, tick.instruction, tick.first, tick.pad, tick.batch)
      /\ tick'.at = "committing" /\ tick'.contract = tick.contract
      /\ tick'.instruction = tick.instruction /\ tick'.first = tick.first
      /\ tick'.pad = tick.pad /\ tick'.batch = tick.batch
  BY <1>2, <1>8 DEF Tick
<1>10. tick'.at \notin Bound /\ tick'.at \in Legacy /\ Working' /\ ~At("firing")'
  BY <1>9 DEF Bound, Legacy, Working, At
<1>11. TickOK'
  BY <1>1, <1>3, <1>8, <1>9, <1>10 DEF TickOK, Bound
<1>12. WatchTypeOK'
  BY <1>3, <1>7, <1>8, <1>11 DEF WatchTypeOK, EditOK, Loaded
<1>13. BoundRuns' = BoundRuns
  BY <1>6, <1>7 DEF BoundRuns
<1>14. Reported \cup tick.batch \subseteq Reported'
  BY <1>6, <1>7, <1>8, <1>13 DEF Reported, BoundRuns
<1>15. SeenSound'
  BY <1>2, <1>3, <1>8, <1>9, <1>10, <1>14 DEF SeenSound, Loaded
<1>16. DiskLedger' = DiskLedger
  BY <1>8 DEF DiskLedger
<1>17. LedgerAgrees' /\ BatchSound'
  BY <1>1, <1>3, <1>8, <1>9, <1>10, <1>16 DEF LedgerAgrees, BatchSound
<1>18. \A r \in BoundRuns : r \in DOMAIN runs /\ runs'[r] = runs[r]
  BY <1>7 DEF BoundRuns
<1>19. LedgerSound'
  <2>1. \A e : EntrySound(e) => EntrySound(e)'
    BY <1>13, <1>18 DEF EntrySound
  <2> QED BY <1>1, <1>3, <1>8, <1>9, <1>16, <2>1 DEF LedgerSound, AllSound, Loaded
<1>20. RunsTraced'
  BY <1>3, <1>6, <1>7, <1>8, <1>16 DEF RunsTraced, Kept, Recent
<1>21. HistoryKnown'
  BY <1>2, <1>3, <1>8, <1>9, <1>10 DEF HistoryKnown, KnowsHistory
<1> QED BY <1>12, <1>15, <1>17, <1>19, <1>20, <1>21 DEF WatchInv

\* Rows that differ in their status only.
SameBut(row, other) ==
    other.ids = row.ids /\ other.kind = row.kind /\ other.passes = row.passes

\* What a run awaits is the same when only its status changes.
LEMMA AwaitsStill ==
    ASSUME NEW L, NEW r, NEW row, NEW other, SameBut(row, other), Awaits(L, r, row)
    PROVE  Awaits(L, r, other)
BY DEF Awaits, SameBut

\* What is remembered of a run is the same when only its status changes.
LEMMA RemembersStill ==
    ASSUME NEW L, NEW r, NEW row, NEW other, SameBut(row, other), Remembered(L, r, row)
    PROVE  Remembered(L, r, other)
BY DEF Remembered, SameBut

\* A run that ends is remembered if it was awaited.
LEMMA AwaitedIsRemembered ==
    ASSUME NEW L, Unique(L), NEW r, NEW row, NEW other, SameBut(row, other), Awaits(L, r, row)
    PROVE  Remembered(L, r, other)
<1>1. SUFFICES ASSUME NEW id \in row.ids
               PROVE  \E k \in DOMAIN L :
                         /\ L[k].id = id
                         /\ \/ L[k].status = "Confirmed" \/ L[k].run = r
                            \/ /\ L[k].polls <= row.passes
                               /\ \A j \in DOMAIN L : L[j].id \in row.ids => Open(L[j])
  BY DEF Remembered, SameBut
<1>2. PICK k \in DOMAIN L : /\ L[k].id = id /\ L[k].status = "Pending" /\ L[k].run \in {0, r}
                            /\ L[k].polls <= row.passes
  BY DEF Awaits
<1>3. CASE L[k].run = r
  BY <1>2, <1>3
<1>4. CASE L[k].run = 0
  <2>1. ASSUME NEW j \in DOMAIN L, L[j].id \in row.ids PROVE Open(L[j])
    <3>1. L[j].run = 0
      BY <1>2, <1>4, <2>1 DEF Awaits
    <3>2. PICK n \in DOMAIN L : L[n].id = L[j].id /\ L[n].status = "Pending"
      BY <2>1 DEF Awaits
    <3>3. n = j
      BY <3>2 DEF Unique
    <3> QED BY <3>1, <3>2, <3>3 DEF Open
  <2> QED BY <1>2, <2>1
<1> QED BY <1>2, <1>3, <1>4

\* The ledger on disk has one entry per finding.
LEMMA LedgerUnique == ASSUME WatchInv
                      PROVE  Unique(DiskLedger) /\ DiskLedger \in Seq(LedgerEntry)
BY DEF WatchInv, WatchTypeOK, DiskLedger, PadOK, Pad, Unique

-----------------------------------------------------------------------------
(* What happens meanwhile.                                                 *)

\* A step of an edit that leaves the scratchpad keeps the invariant.
LEMMA EditLeaves ==
    ASSUME WatchInv, EditOK', edits' \in Nat,
           instruction' \in {instruction, instruction + 1}, contract' \in 0 .. instruction',
           UNCHANGED <<world, disk, runs, tick, history, baseline, forgot, undone, changes, crashes>>,
           Loaded' => /\ edit'.pad.seen_ids \subseteq Reported
                      /\ AllSound(edit'.pad.seen_deliveries)
    PROVE  WatchInv'
<1>1. WatchTypeOK /\ SeenSound /\ LedgerAgrees /\ LedgerSound /\ RunsTraced /\ BatchSound
      /\ HistoryKnown /\ instruction \in Nat \ {0}
  BY DEF WatchInv, WatchTypeOK
<1>2. DiskLedger' = DiskLedger /\ Reported' = Reported /\ BoundRuns' = BoundRuns
      /\ Working' = Working
  BY DEF DiskLedger, Reported, BoundRuns, Working
<1>3. TickOK'
  <2>1. 0 .. instruction \subseteq 0 .. instruction' /\ 1 .. instruction \subseteq 1 .. instruction'
    BY <1>1
  <2> QED BY <1>1, <1>2, <2>1 DEF WatchTypeOK, TickOK
<1>4. WatchTypeOK'
  <2>1. instruction' \in Nat \ {0}
    BY <1>1
  <2>2. {changes', edits', crashes'} \subseteq Nat
    BY <1>1 DEF WatchTypeOK
  <2> QED BY <1>1, <1>3, <2>1, <2>2 DEF WatchTypeOK
<1>5. SeenSound'
  BY <1>1, <1>2 DEF SeenSound, At
<1>6. LedgerAgrees' /\ BatchSound'
  BY <1>1, <1>2 DEF LedgerAgrees, BatchSound, Kept, At
<1>7. LedgerSound' /\ RunsTraced'
  BY <1>1, <1>2, AgreeSelf, LedgerFrame DEF LedgerSound
<1>8. HistoryKnown'
  BY <1>1, <1>2 DEF HistoryKnown, KnowsHistory
<1> QED BY <1>4, <1>5, <1>6, <1>7, <1>8 DEF WatchInv

\* An edit that begins, whatever it is to do, keeps the invariant.
LEMMA EditBeginsKeeps ==
    ASSUME WatchAssumption, WatchInv, EditKeeps \/ EditClears \/ EditLoads PROVE WatchInv'
<1>1. WatchTypeOK /\ SeenSound /\ LedgerSound /\ instruction \in Nat /\ contract \in 0 .. instruction
      /\ edits \in Nat
  BY DEF WatchInv, WatchTypeOK
<1>2. /\ UNCHANGED <<world, instruction, contract, disk, runs, tick, history, baseline, forgot,
                     undone, changes, crashes>>
      /\ edits' = edits + 1
  BY DEF EditKeeps, EditClears, EditLoads, EditBegins, ghosts
<1>3. CASE EditKeeps
  <2>1. edit' = [at |-> "keeping", contract |-> contract]
    BY <1>3 DEF EditKeeps, EditBegins
  <2>2. EditOK' /\ ~Loaded'
    BY <1>1, <1>2, <2>1 DEF EditOK, Loaded
  <2> QED BY <1>1, <1>2, <2>2, EditLeaves
<1>4. CASE EditClears
  <2>1. edit' = [at |-> "clearing"]
    BY <1>4 DEF EditClears, EditBegins
  <2>2. EditOK' /\ ~Loaded'
    BY <2>1 DEF EditOK, Loaded
  <2> QED BY <1>1, <1>2, <2>2, EditLeaves
<1>5. CASE EditLoads
  <2>1. PICK q : q = Orphaned(disk)
    OBVIOUS
  <2>2. PICK z : z = 0
    OBVIOUS
  <2>3. PICK p : p = [q EXCEPT !.authored = z]
    OBVIOUS
  <2>4. Exists(disk) /\ edit' = [at |-> "loaded", pad |-> p]
    BY <1>5, <2>1, <2>2, <2>3 DEF EditLoads, EditBegins
  <2>5. PadOK(q) /\ q.bound = 0 /\ q.seen_deliveries = disk.seen_deliveries
        /\ q.seen_ids = disk.seen_ids
    BY <1>1, <2>1, <2>4, OrphanedOK DEF WatchTypeOK
  <2>6. PadOK(p) /\ p.bound = 0 /\ p.seen_deliveries = disk.seen_deliveries
        /\ p.seen_ids = disk.seen_ids
    <3>1. q \in Pad /\ z \in Nat
      BY <2>2, <2>5 DEF PadOK
    <3>2. p \in Pad /\ p.bound = q.bound /\ p.seen_deliveries = q.seen_deliveries
          /\ p.seen_ids = q.seen_ids /\ p.snapshots = q.snapshots
      BY <2>3, <3>1 DEF Pad
    <3> QED BY <2>5, <3>2 DEF PadOK
  <2>7. EditOK'
    BY <1>2, <2>4, <2>6 DEF EditOK, Loaded
  <2>8. edit'.pad.seen_ids \subseteq Reported /\ AllSound(edit'.pad.seen_deliveries)
    BY <1>1, <2>4, <2>6 DEF SeenSound, LedgerSound, DiskLedger
  <2> QED BY <1>1, <1>2, <2>7, <2>8, EditLeaves
<1> QED BY <1>3, <1>4, <1>5

\* The entries that an edit does not change.
LEMMA DifferingAgrees ==
    ASSUME NEW L \in Seq(LedgerEntry), NEW M \in Seq(LedgerEntry), NEW but,
           Differing(M, L) \subseteq but
    PROVE  Agree(L, M, but)
<1>1. \A e \in ToSet(L), j \in DOMAIN M : e = M[j] => e \in ToSet(M)
  BY DEF ToSet
<1>2. ASSUME NEW k \in DOMAIN L, L[k].id \notin but PROVE \E j \in DOMAIN M : M[j] = L[k]
  <2>1. L[k] \in ToSet(L) /\ L[k] \in ToSet(M)
    <3>1. L[k] \in ToSet(L)
      BY DEF ToSet
    <3> QED BY <1>2, <3>1 DEF Differing
  <2> QED BY <2>1 DEF ToSet
<1>3. ASSUME NEW k \in DOMAIN M, M[k].id \notin but PROVE \E j \in DOMAIN L : L[j] = M[k]
  <2>1. M[k] \in ToSet(M) /\ M[k] \in ToSet(L)
    <3>1. M[k] \in ToSet(M)
      BY DEF ToSet
    <3> QED BY <1>3, <3>1 DEF Differing
  <2> QED BY <2>1 DEF ToSet
<1> QED BY <1>2, <1>3 DEF Agree, Within

\* Writing the scratchpad as it was loaded keeps the invariant: what was traced stays so,
\* but for the findings whose entries are put back.
LEMMA EditStoresKeeps == ASSUME WatchAssumption, WatchInv, EditStores PROVE WatchInv'
<1>1. WatchTypeOK /\ SeenSound /\ LedgerAgrees /\ LedgerSound /\ RunsTraced /\ BatchSound
      /\ HistoryKnown /\ EditOK /\ undone \subseteq Finding /\ TickOK
  BY DEF WatchInv, WatchTypeOK
<1>2. /\ UNCHANGED <<world, instruction, contract, runs, tick, history, baseline, forgot, changes,
                     edits, crashes>>
      /\ disk' = edit.pad /\ edit' = [at |-> "clearing"]
      /\ undone' = undone \union Differing(edit.pad.seen_deliveries, disk.seen_deliveries)
  BY DEF EditStores, bounds
<1>3. Loaded /\ PadOK(edit.pad) /\ edit.pad.bound = 0 /\ Exists(disk)
  <2>1. Loaded
    BY DEF EditStores, Loaded
  <2>2. ~(NoEdit.at = "loaded") /\ ~([at |-> "clearing"].at = "loaded")
    BY DEF NoEdit
  <2> QED BY <1>1, <2>1, <2>2 DEF EditOK, Loaded
<1>4. PICK L : L = disk.seen_deliveries
  OBVIOUS
<1>5. PICK M : M = edit.pad.seen_deliveries
  OBVIOUS
<1>6. L \in Seq(LedgerEntry) /\ M \in Seq(LedgerEntry) /\ DiskLedger = L /\ DiskLedger' = M
      /\ Exists(disk')
  BY <1>1, <1>2, <1>3, <1>4, <1>5, DiskLedgerOf DEF WatchTypeOK, PadOK, Pad, DiskLedger
<1>7. undone \subseteq undone' /\ Agree(L, M, undone')
  BY <1>2, <1>4, <1>5, <1>6, DifferingAgrees
<1>8. ~Loaded' /\ Working' = Working /\ BoundRuns' = BoundRuns /\ Reported' = Reported
  BY <1>2 DEF Loaded, Working, BoundRuns, Reported
<1>9. undone' \subseteq Finding
  <2>1. \A e \in ToSet(L) \cup ToSet(M) : e.id \in Finding
    <3>1. \A e \in ToSet(L) \cup ToSet(M) : e \in LedgerEntry
      BY <1>6 DEF ToSet
    <3> QED BY <3>1 DEF LedgerEntry
  <2>2. Differing(M, L) \subseteq Finding
    BY <2>1 DEF Differing
  <2> QED BY <1>1, <1>2, <1>4, <1>5, <2>2
<1>10. WatchTypeOK'
  <2>1. EditOK'
    BY <1>2 DEF EditOK
  <2>2. TickOK'
    BY <1>1, <1>2, <1>8 DEF TickOK
  <2> QED BY <1>1, <1>2, <1>3, <1>9, <2>1, <2>2 DEF WatchTypeOK
<1>11. SeenSound'
  BY <1>1, <1>2, <1>3, <1>8 DEF SeenSound, At
<1>12. LedgerAgrees'
  <2>1. SUFFICES ASSUME Working PROVE Agree(tick.pad.seen_deliveries, M, undone')
    BY <1>2, <1>6, <1>8 DEF LedgerAgrees
  <2>2. Agree(tick.pad.seen_deliveries, L, undone')
    BY <1>1, <1>6, <1>7, <2>1, AgreeBut DEF LedgerAgrees
  <2> QED BY <1>7, <2>2, AgreeAll
<1>13. LedgerSound' /\ RunsTraced'
  BY <1>1, <1>2, <1>3, <1>5, <1>6, <1>7, <1>8, LedgerFrame DEF LedgerSound
<1>14. BatchSound'
  <2>1. \A r \in DOMAIN runs : Kept(runs[r])' => Kept(runs[r])
    BY <1>2, <1>7 DEF Kept, Recent
  <2> QED BY <1>1, <1>2, <1>8, <2>1 DEF BatchSound, At
<1>15. HistoryKnown'
  BY <1>1, <1>2, <1>3, <1>8 DEF HistoryKnown, KnowsHistory
<1> QED BY <1>10, <1>11, <1>12, <1>13, <1>14, <1>15 DEF WatchInv

\* Writing the row keeps it.
LEMMA EditEndsKeeps == ASSUME WatchInv, EditEnds PROVE WatchInv'
<1>1. WatchTypeOK /\ EditOK /\ instruction \in Nat \ {0} /\ edits \in Nat
  BY DEF WatchInv, WatchTypeOK
<1>2. /\ UNCHANGED <<world, disk, runs, tick, history, baseline, forgot, undone, changes, edits, crashes>>
      /\ edit' = NoEdit
  BY DEF EditEnds, ghosts, bounds
<1>3. EditOK' /\ ~Loaded'
  BY <1>2 DEF EditOK, Loaded, NoEdit
<1>4. instruction' \in {instruction, instruction + 1} /\ contract' \in 0 .. instruction'
  <2>1. CASE edit.at = "keeping" /\ contract' = edit.contract /\ instruction' = instruction
    <3>1. ~(NoEdit.at = "keeping")
      BY DEF NoEdit
    <3>2. edit.contract \in 0 .. instruction
      BY <1>1, <2>1, <3>1 DEF EditOK, Loaded
    <3> QED BY <2>1, <3>2
  <2>2. CASE contract' = 0 /\ instruction' = instruction + 1
    BY <1>1, <2>2
  <2> QED BY <2>1, <2>2 DEF EditEnds
<1> QED BY <1>1, <1>2, <1>3, <1>4, EditLeaves

\* The items change without anybody knowing.
LEMMA ChangeKeeps ==
    ASSUME WatchInv, NEW i \in Items, NEW s \in States, Change(i, s) PROVE WatchInv'
<1>1. WatchTypeOK /\ SeenSound /\ LedgerAgrees /\ LedgerSound /\ RunsTraced /\ BatchSound
      /\ HistoryKnown
  BY DEF WatchInv
<1>2. /\ UNCHANGED <<instruction, contract, disk, edit, runs, tick, history, baseline, forgot, undone,
                     edits, crashes>>
      /\ world' = [world EXCEPT ![i] = s] /\ changes' = changes + 1
  BY DEF Change, ghosts
<1>3. DiskLedger' = DiskLedger
  BY <1>2 DEF DiskLedger
<1>4. WatchTypeOK'
  <2>1. world' \in [Items -> States] /\ {changes', edits', crashes'} \subseteq Nat
    BY <1>1, <1>2 DEF WatchTypeOK
  <2> QED BY <1>1, <1>2, <2>1 DEF WatchTypeOK, TickOK, EditOK, Loaded, Working
<1>5. SeenSound'
  BY <1>1, <1>2, ReportedFrame DEF SeenSound, Loaded, Working, At
<1>6. LedgerAgrees' /\ BatchSound'
  BY <1>1, <1>2, <1>3 DEF LedgerAgrees, Working, BatchSound, BoundRuns, Kept, At
<1>7. LedgerSound' /\ RunsTraced'
  BY <1>1, <1>2, <1>3, AgreeSelf, LedgerFrame DEF LedgerSound, Loaded, Working
<1>8. HistoryKnown'
  BY <1>1, <1>2 DEF HistoryKnown, KnowsHistory, Working
<1> QED BY <1>4, <1>5, <1>6, <1>7, <1>8 DEF WatchInv

\* Rows whose status alone changes, and that stay ended once they are.
LEMMA StatusesChange ==
    ASSUME WatchInv, runs' \in Seq(Row), Len(runs') = Len(runs),
           \A r \in DOMAIN runs : SameBut(runs[r], runs'[r])
                                  /\ (runs[r].status = "ended" => runs'[r].status = "ended"),
           UNCHANGED <<disk, forgot, baseline, undone>>,
           Working' => Working /\ tick' = tick, Loaded' => Loaded /\ edit' = edit
    PROVE  /\ DOMAIN runs' = DOMAIN runs /\ BoundRuns' = BoundRuns
           /\ Reported' = Reported /\ DiskLedger' = DiskLedger
           /\ LedgerSound' /\ RunsTraced'
<1>1. runs \in Seq(Row) /\ LedgerSound /\ RunsTraced
  BY DEF WatchInv, WatchTypeOK
<1>2. DOMAIN runs' = DOMAIN runs
  BY <1>1
<1>3. BoundRuns' = BoundRuns
  BY <1>2 DEF BoundRuns, SameBut
<1>4. DiskLedger' = DiskLedger
  BY DEF DiskLedger
<1>5. {runs'[r].ids : r \in DOMAIN runs' \ BoundRuns'} = {runs[r].ids : r \in DOMAIN runs \ BoundRuns}
  BY <1>2, <1>3 DEF SameBut
<1>6. Reported' = Reported
  BY <1>5 DEF Reported
<1>7. LedgerSound'
  <2>1. \A e : EntrySound(e) => EntrySound(e)'
    BY <1>3 DEF EntrySound, BoundRuns, SameBut
  <2> QED BY <1>1, <1>4, <2>1 DEF LedgerSound, AllSound
<1>8. ASSUME NEW r \in DOMAIN runs, Kept(runs'[r]) PROVE Traced(DiskLedger, r, runs'[r], forgot)
  <2>1. Kept(runs[r]) /\ SameBut(runs[r], runs'[r])
    BY <1>8 DEF Kept, Recent, SameBut
  <2>2. Traced(DiskLedger, r, runs[r], forgot)
    BY <1>1, <2>1 DEF RunsTraced
  <2>3. CASE runs[r].status = "ended"
    BY <2>1, <2>2, <2>3, RemembersStill DEF Traced
  <2>4. CASE runs[r].status # "ended"
    <3>1. Awaits(DiskLedger, r, runs[r])
      BY <2>2, <2>4 DEF Traced
    <3>2. Awaits(DiskLedger, r, runs'[r])
      BY <2>1, <3>1, AwaitsStill
    <3>3. Remembered(DiskLedger, r, runs'[r])
      BY <2>1, <3>1, AwaitedIsRemembered, LedgerUnique
    <3> QED BY <3>2, <3>3 DEF Traced
  <2> QED BY <2>3, <2>4
<1>9. RunsTraced'
  BY <1>2, <1>4, <1>8 DEF RunsTraced, Kept
<1> QED BY <1>2, <1>3, <1>4, <1>6, <1>7, <1>9

\* The end of a turn keeps it: what the run awaited is remembered.
LEMMA TurnEndsKeeps == ASSUME WatchInv, NEW r \in DOMAIN runs, TurnEnds(r) PROVE WatchInv'
<1>1. WatchTypeOK /\ SeenSound /\ LedgerAgrees /\ BatchSound /\ HistoryKnown /\ runs \in Seq(Row)
  BY DEF WatchInv, WatchTypeOK
<1>2. /\ UNCHANGED <<world, instruction, contract, disk, edit, tick, history, baseline, forgot,
                     undone, changes, edits, crashes>>
      /\ runs' = [runs EXCEPT ![r].status = "ended"]
  BY DEF TurnEnds, ghosts, bounds
<1>3. PICK row : row = [runs[r] EXCEPT !.status = "ended"]
  OBVIOUS
<1>4. row \in Row /\ SameBut(runs[r], row) /\ row.status = "ended"
  <2>1. runs[r] \in Row
    BY <1>1
  <2>2. row \in Row
    BY <1>3, <2>1, RowBuilt DEF Status
  <2> QED BY <1>3, <2>1, <2>2, RowParts DEF SameBut
<1>5. runs' = [runs EXCEPT ![r] = row]
  BY <1>2, <1>3
<1>6. runs' \in Seq(Row) /\ Len(runs') = Len(runs)
      /\ \A o \in DOMAIN runs : runs'[o] = IF o = r THEN row ELSE runs[o]
  BY <1>1, <1>4, <1>5
<1>7. \A o \in DOMAIN runs : SameBut(runs[o], runs'[o])
                             /\ (runs[o].status = "ended" => runs'[o].status = "ended")
  BY <1>4, <1>6 DEF SameBut
<1>14. (Working' => Working /\ tick' = tick) /\ (Loaded' => Loaded /\ edit' = edit)
  BY <1>2 DEF Working, Loaded
<1>8. /\ DOMAIN runs' = DOMAIN runs /\ BoundRuns' = BoundRuns
      /\ Reported' = Reported /\ DiskLedger' = DiskLedger /\ LedgerSound' /\ RunsTraced'
  BY <1>2, <1>6, <1>7, <1>14, StatusesChange
<1>9. WatchTypeOK'
  BY <1>1, <1>2, <1>6 DEF WatchTypeOK, TickOK, EditOK, Loaded, Working
<1>10. SeenSound'
  BY <1>1, <1>2, <1>8 DEF SeenSound, Loaded, Working, At
<1>11. LedgerAgrees'
  BY <1>1, <1>2, <1>8 DEF LedgerAgrees, Working
<1>12. BatchSound'
  <2>1. ASSUME tick.at \in Bound
        PROVE  /\ \A o \in DOMAIN runs :
                     Kept(runs'[o]) /\ (runs'[o].status = "ended" => ~forgot)
                                      /\ (At("attaching") => o # Len(runs))
                     => runs'[o].ids \cap ToSet(tick.batch) = {}
               /\ At("attaching") =>
                     /\ runs' # <<>> /\ Len(runs) \in BoundRuns
                     /\ runs'[Len(runs)].ids = ToSet(tick.batch) /\ runs'[Len(runs)].passes = 0
    <3>1. \A o \in DOMAIN runs :
             Kept(runs[o]) /\ (runs[o].status = "ended" => ~forgot)
                             /\ (At("attaching") => o # Len(runs))
             => runs[o].ids \cap ToSet(tick.batch) = {}
      BY <1>1, <2>1 DEF BatchSound
    <3>2. \A o \in DOMAIN runs :
             Kept(runs'[o]) /\ (runs'[o].status = "ended" => ~forgot)
                              /\ (At("attaching") => o # Len(runs))
             => runs'[o].ids \cap ToSet(tick.batch) = {}
      BY <1>7, <3>1 DEF SameBut, Kept, Recent
    <3>3. At("attaching") =>
             /\ runs' # <<>> /\ Len(runs) \in BoundRuns
             /\ runs'[Len(runs)].ids = ToSet(tick.batch) /\ runs'[Len(runs)].passes = 0
      BY <1>1, <1>6, <1>7, <2>1 DEF BatchSound, SameBut, BoundRuns
    <3> QED BY <3>2, <3>3
  <2> QED BY <1>1, <1>2, <1>6, <1>8, <2>1 DEF BatchSound, Kept, At
<1>13. HistoryKnown'
  BY <1>1, <1>2 DEF HistoryKnown, KnowsHistory, Working
<1> QED BY <1>8, <1>9, <1>10, <1>11, <1>12, <1>13 DEF WatchInv

\* The death of the process keeps it: a lost run still awaits its findings.
LEMMA CrashKeeps == ASSUME WatchInv, Crash PROVE WatchInv'
<1>1. WatchTypeOK /\ SeenSound /\ HistoryKnown /\ runs \in Seq(Row) /\ crashes \in Nat
  BY DEF WatchInv, WatchTypeOK
<1>2. /\ UNCHANGED <<world, instruction, contract, disk, history, baseline, forgot, undone, changes,
                     edits>>
      /\ tick' = Idle /\ edit' = NoEdit /\ crashes' = crashes + 1
      /\ runs' = [r \in DOMAIN runs |-> IF runs[r].status = "queued"
                                        THEN [runs[r] EXCEPT !.status = "lost"] ELSE runs[r]]
  BY DEF Crash, ghosts
<1>3. \A r \in DOMAIN runs : runs'[r] \in Row /\ SameBut(runs[r], runs'[r])
                             /\ (runs[r].status = "ended" => runs'[r].status = "ended")
  <2>1. SUFFICES ASSUME NEW r \in DOMAIN runs
                 PROVE  runs'[r] \in Row /\ SameBut(runs[r], runs'[r])
                        /\ (runs[r].status = "ended" => runs'[r].status = "ended")
    OBVIOUS
  <2>2. runs[r] \in Row
    BY <1>1
  <2>3. runs'[r] = IF runs[r].status = "queued" THEN [runs[r] EXCEPT !.status = "lost"] ELSE runs[r]
    BY <1>2
  <2>4. CASE runs[r].status = "queued"
    <3>1. [runs[r] EXCEPT !.status = "lost"] \in Row
      BY <2>2, RowBuilt DEF Status
    <3> QED BY <2>2, <2>3, <2>4, <3>1, RowParts DEF SameBut
  <2>5. CASE runs[r].status # "queued"
    BY <2>2, <2>3, <2>5 DEF SameBut
  <2> QED BY <2>4, <2>5
<1>4. runs' \in Seq(Row) /\ Len(runs') = Len(runs)
  <2>1. DOMAIN runs' = DOMAIN runs /\ runs' = [r \in DOMAIN runs' |-> runs'[r]]
    BY <1>2
  <2> QED BY <1>1, <1>3, <2>1, RowsMapped
<1>11. ~Working' /\ ~Loaded' /\ EditOK'
  BY <1>2 DEF Working, Bound, Legacy, Idle, Loaded, EditOK, NoEdit
<1>5. Reported' = Reported /\ DiskLedger' = DiskLedger /\ LedgerSound' /\ RunsTraced'
  BY <1>2, <1>3, <1>4, <1>11, StatusesChange
<1>6. ~Working' /\ tick'.at = "idle" /\ tick'.at \notin Bound /\ tick'.at \notin Legacy
  BY <1>2 DEF Working, Idle, Bound, Legacy
<1>7. WatchTypeOK'
  <2>1. {changes', edits', crashes'} \subseteq Nat
    BY <1>1, <1>2 DEF WatchTypeOK
  <2> QED BY <1>1, <1>2, <1>4, <1>6, <1>11, <2>1 DEF WatchTypeOK, TickOK
<1>8. SeenSound'
  BY <1>1, <1>2, <1>5, <1>6, <1>11 DEF SeenSound
<1>9. LedgerAgrees' /\ BatchSound'
  BY <1>6 DEF LedgerAgrees, BatchSound
<1>10. HistoryKnown'
  BY <1>1, <1>2, <1>6 DEF HistoryKnown, KnowsHistory
<1> QED BY <1>5, <1>7, <1>8, <1>9, <1>10 DEF WatchInv

-----------------------------------------------------------------------------
(* The dispatch.                                                           *)

\* The dispatch keeps it: the new row awaits what was recorded before it.
LEMMA DispatchKeeps == ASSUME WatchAssumption, WatchInv, Dispatch PROVE WatchInv'
<1>1. Working /\ At("dispatching") /\ tick.at = "dispatching" /\ tick.at \in Bound /\ ~At("firing")
      /\ ~At("attaching")
  BY DEF Dispatch, At, Working, Bound
<1>2. /\ tick = Tick(tick.at, tick.contract, tick.instruction, tick.first, tick.pad, tick.batch)
      /\ tick.pad.seen_ids \subseteq Reported
      /\ Agree(DiskLedger, tick.pad.seen_deliveries, undone) /\ PadOK(tick.pad)
      /\ Roomy => KnowsHistory(tick.pad)
  BY <1>1, PollParts
<1>3. TickOK /\ runs \in Seq(Row) /\ SeenSound /\ LedgerSound /\ RunsTraced /\ HistoryKnown
      /\ BatchSound /\ WatchTypeOK /\ LedgerAgrees
  BY DEF WatchInv, WatchTypeOK
<1>4. tick.batch \in Seq(Finding)
  BY <1>1, <1>3 DEF TickOK
<1>5. PICK new : new = Len(runs) + 1
  OBVIOUS
<1>6. PICK row : row = Run(ToSet(tick.batch), "bound")
  OBVIOUS
<1>7. ToSet(tick.batch) \subseteq Finding
  BY <1>4 DEF ToSet
<1>8. row \in Row /\ row.kind = "bound" /\ row.ids = ToSet(tick.batch) /\ row.status = "queued"
      /\ row.passes = 0
  BY <1>6, <1>7 DEF Row, Run, Status
<1>9. /\ runs' \in Seq(Row) /\ DOMAIN runs' = DOMAIN runs \union {new} /\ Len(runs') = new
      /\ new \notin DOMAIN runs /\ new \in Nat \ {0}
      /\ \A r \in DOMAIN runs : runs'[r] = runs[r]
      /\ runs'[new] = row
  BY <1>3, <1>5, <1>6, <1>8, RowAdded DEF Dispatch
<1>10. /\ UNCHANGED <<world, instruction, contract, disk, edit, history, baseline, forgot, undone,
                      changes, edits, crashes>>
       /\ tick' = [tick EXCEPT !.at = "attaching"]
  BY DEF Dispatch, ghosts, bounds
<1>11. /\ tick' = Tick("attaching", tick.contract, tick.instruction, tick.first, tick.pad, tick.batch)
       /\ tick'.at = "attaching" /\ tick'.contract = tick.contract
       /\ tick'.instruction = tick.instruction /\ tick'.first = tick.first
       /\ tick'.pad = tick.pad /\ tick'.batch = tick.batch
  BY <1>2, <1>10 DEF Tick
<1>12. tick'.at \in Bound /\ tick'.at \notin Legacy /\ Working' /\ ~At("firing")' /\ At("attaching")'
  BY <1>11 DEF Bound, Legacy, Working, At
<1>13. TickOK'
  BY <1>1, <1>3, <1>10, <1>11, <1>12 DEF TickOK
<1>14. WatchTypeOK'
  BY <1>3, <1>9, <1>10, <1>13 DEF WatchTypeOK, EditOK, Loaded
<1>15. BoundRuns' = BoundRuns \union {new}
  BY <1>8, <1>9 DEF BoundRuns
<1>16. Reported' = Reported
  <2>1. DOMAIN runs' \ BoundRuns' = DOMAIN runs \ BoundRuns
    BY <1>9, <1>15
  <2>2. {runs'[r].ids : r \in DOMAIN runs' \ BoundRuns'} = {runs[r].ids : r \in DOMAIN runs \ BoundRuns}
    BY <1>9, <2>1
  <2> QED BY <1>10, <2>2 DEF Reported
<1>17. SeenSound'
  BY <1>2, <1>3, <1>10, <1>11, <1>12, <1>16 DEF SeenSound, Loaded
<1>18. DiskLedger' = DiskLedger
  BY <1>10 DEF DiskLedger
<1>19. LedgerAgrees'
  BY <1>1, <1>3, <1>10, <1>11, <1>18 DEF LedgerAgrees
<1>20. PICK T : T = tick.pad.seen_deliveries
  OBVIOUS
<1>26. T \in Seq(LedgerEntry) /\ Unique(T)
       /\ \A n \in DOMAIN tick.batch : \E k \in DOMAIN T :
             T[k].id = tick.batch[n] /\ Open(T[k]) /\ T[k].polls = 0
  BY <1>1, <1>2, <1>3, <1>20 DEF BatchSound, PadOK, Pad
<1>21. LedgerSound'
  <2>1. \A e : EntrySound(e) => EntrySound(e)'
    BY <1>9, <1>15 DEF EntrySound, BoundRuns
  <2> QED BY <1>1, <1>3, <1>10, <1>11, <1>18, <2>1 DEF LedgerSound, AllSound, Loaded
<1>22. Awaits(T, new, row)
  <2>1. \A id \in row.ids : \E k \in DOMAIN T : T[k].id = id /\ Open(T[k]) /\ T[k].polls = 0
    BY <1>8, <1>26 DEF ToSet
  <2>2. \A j \in DOMAIN T : T[j].id \in row.ids => T[j].run = 0
    BY <1>26, <2>1 DEF Unique, Open
  <2> QED BY <1>8, <2>1, <2>2 DEF Awaits, Open
<1>23. RunsTraced'
  <2>1. row.ids \cap undone = {} => Traced(DiskLedger, new, row, forgot)
    <3>1. Traced(T, new, row, forgot)
      BY <1>8, <1>22 DEF Traced
    <3>2. Agree(T, DiskLedger, undone)
      BY <1>2, <1>20 DEF Agree
    <3> QED BY <3>1, <3>2, TracedAgreed
  <2> QED BY <1>3, <1>9, <1>10, <1>18, <2>1 DEF RunsTraced, Kept, Recent
<1>24. BatchSound'
  <2>1. ASSUME NEW r \in DOMAIN runs', Kept(runs'[r]), runs'[r].status = "ended" => ~forgot, r # new
        PROVE  runs'[r].ids \cap ToSet(tick.batch) = {}
    <3>1. r \in DOMAIN runs /\ runs'[r] = runs[r]
      BY <1>9, <2>1
    <3> QED BY <1>1, <1>3, <2>1, <3>1 DEF BatchSound
  <2>2. new \in BoundRuns' /\ runs' # <<>>
    BY <1>9, <1>15
  <2> QED BY <1>8, <1>9, <1>10, <1>11, <1>12, <1>20, <1>26, <2>1, <2>2, SMTT(30)
          DEF BatchSound, Kept, Recent
<1>25. HistoryKnown'
  BY <1>1, <1>2, <1>3, <1>10, <1>11, <1>12 DEF HistoryKnown, KnowsHistory
<1> QED BY <1>14, <1>17, <1>19, <1>21, <1>23, <1>24, <1>25 DEF WatchInv

\* The ledger with the run attached to the entries of the batch.
Attached(L, B, r, M) ==
    /\ M \in Seq(LedgerEntry) /\ DOMAIN M = DOMAIN L
    /\ \A k \in DOMAIN L :
          IF L[k].id \in ToSet(B) /\ L[k].status = "Pending"
          THEN M[k] = [L[k] EXCEPT !.run = r] ELSE M[k] = L[k]

\* attach_dispatch_run names the run in the entries of its batch alone.
LEMMA RunAttached ==
    ASSUME NEW pad, PadOK(pad), NEW B, NEW r \in Nat, NEW q, q = AttachRun(pad, B, r)
    PROVE  /\ PadOK(q) /\ Attached(pad.seen_deliveries, B, r, q.seen_deliveries)
           /\ q.bound = pad.bound /\ q.seen_ids = pad.seen_ids /\ q.snapshots = pad.snapshots
<1>1. PICK L : L = pad.seen_deliveries
  OBVIOUS
<1>2. L \in Seq(LedgerEntry) /\ Unique(L) /\ pad \in Pad /\ DOMAIN L = 1 .. Len(L) /\ Len(L) \in Nat
  BY <1>1 DEF PadOK, Pad
<1>3. PICK M : M = [k \in DOMAIN L |-> IF L[k].id \in ToSet(B) /\ L[k].status = "Pending"
                                       THEN [L[k] EXCEPT !.run = r] ELSE L[k]]
  OBVIOUS
<1>4. \A k \in DOMAIN L : M[k] \in LedgerEntry /\ M[k].id = L[k].id
  <2>1. SUFFICES ASSUME NEW k \in DOMAIN L PROVE M[k] \in LedgerEntry /\ M[k].id = L[k].id
    OBVIOUS
  <2>2. L[k] \in LedgerEntry
    BY <1>2
  <2>3. [L[k] EXCEPT !.run = r] \in LedgerEntry /\ [L[k] EXCEPT !.run = r].id = L[k].id
    BY <2>2 DEF LedgerEntry
  <2> QED BY <1>3, <2>2, <2>3
<1>5. M \in Seq(LedgerEntry)
  <2>1. M \in [1 .. Len(L) -> LedgerEntry]
    BY <1>2, <1>3, <1>4
  <2> QED BY <1>2, <2>1
<1>6. Unique(M)
  BY <1>2, <1>3, <1>4 DEF Unique
<1>7. q = [pad EXCEPT !.seen_deliveries = M]
  BY <1>1, <1>3 DEF AttachRun
<1>8. q \in Pad /\ q.seen_deliveries = M /\ q.bound = pad.bound /\ q.seen_ids = pad.seen_ids
      /\ q.snapshots = pad.snapshots
  BY <1>2, <1>5, <1>7 DEF Pad
<1>9. Attached(L, B, r, M)
  BY <1>3, <1>5 DEF Attached
<1> QED BY <1>1, <1>6, <1>8, <1>9 DEF PadOK

\* Attaching the run keeps it.
LEMMA AttachKeeps == ASSUME WatchAssumption, WatchInv, Attach PROVE WatchInv'
<1>1. Working /\ At("attaching") /\ tick.at = "attaching" /\ tick.at \in Bound /\ ~At("firing")
  BY DEF Attach, At, Working, Bound
<1>2. /\ PadOK(tick.pad) /\ tick.pad.seen_ids \subseteq Reported
      /\ Agree(DiskLedger, tick.pad.seen_deliveries, undone)
      /\ AllSound(tick.pad.seen_deliveries)
      /\ Roomy => KnowsHistory(tick.pad)
  BY <1>1, PollParts
<1>3. /\ runs \in Seq(Row) /\ LedgerSound /\ RunsTraced /\ WatchTypeOK /\ EditOK /\ SeenSound
      /\ instruction \in Nat
  BY DEF WatchInv, WatchTypeOK
<1>4. PICK R : R = Len(runs)
  OBVIOUS
<1>17. PICK L : L = tick.pad.seen_deliveries
  OBVIOUS
<1>5. /\ \A n \in DOMAIN tick.batch : \E k \in DOMAIN L :
            L[k].id = tick.batch[n] /\ Open(L[k]) /\ L[k].polls = 0
      /\ \A r \in DOMAIN runs :
            Kept(runs[r]) /\ (runs[r].status = "ended" => ~forgot) /\ r # R
            => runs[r].ids \cap ToSet(tick.batch) = {}
      /\ R \in BoundRuns /\ runs[R].ids = ToSet(tick.batch) /\ runs[R].passes = 0
  BY <1>1, <1>4, <1>17 DEF WatchInv, BatchSound
<1>6. R \in DOMAIN runs /\ R \in Nat \ {0}
  BY <1>3, <1>5 DEF BoundRuns
<1>7. PICK q : q = AttachRun(tick.pad, tick.batch, R)
  OBVIOUS
<1>8. PICK M : M = q.seen_deliveries
  OBVIOUS
<1>9. /\ PadOK(q) /\ Attached(L, tick.batch, R, M)
      /\ q.bound = tick.pad.bound /\ q.seen_ids = tick.pad.seen_ids
      /\ q.snapshots = tick.pad.snapshots
  BY <1>2, <1>6, <1>7, <1>8, <1>17, RunAttached
<1>10. disk' = q /\ tick' = Idle
  BY <1>4, <1>7 DEF Attach
<1>11. UNCHANGED <<world, instruction, contract, edit, runs, history, baseline, forgot, undone,
                   changes, edits, crashes>>
  BY DEF Attach, ghosts, bounds
<1>12. DiskLedger' = M /\ Exists(disk')
  BY <1>8, <1>9, <1>10, DiskLedgerOf
<1>13. ~Working' /\ tick'.at = "idle" /\ tick'.at \notin Bound /\ tick'.at \notin Legacy
  BY <1>10 DEF Working, Idle, Bound, Legacy
<1>28. EditOK' /\ (Loaded' => Loaded /\ edit' = edit)
  BY <1>3, <1>11, <1>12, EditFrame
<1>14. WatchTypeOK'
  BY <1>3, <1>9, <1>10, <1>11, <1>13, <1>28 DEF WatchTypeOK, TickOK
<1>15. SeenSound'
  <2>1. Reported' = Reported
    BY <1>11, ReportedFrame
  <2> QED BY <1>2, <1>3, <1>9, <1>10, <1>13, <1>28, <2>1 DEF SeenSound
<1>16. LedgerAgrees' /\ BatchSound'
  BY <1>13 DEF LedgerAgrees, BatchSound
<1>18. L \in Seq(LedgerEntry) /\ Unique(L)
  BY <1>2, <1>17 DEF PadOK, Pad
<1>19. /\ DOMAIN M = DOMAIN L
       /\ \A k \in DOMAIN L :
             IF L[k].id \in ToSet(tick.batch) /\ L[k].status = "Pending"
             THEN M[k] = [L[k] EXCEPT !.run = R] ELSE M[k] = L[k]
  BY <1>9 DEF Attached
<1>20. \A k \in DOMAIN L : /\ M[k].id = L[k].id /\ M[k].status = L[k].status
                           /\ M[k].polls = L[k].polls
                           /\ M[k].run = IF L[k].id \in ToSet(tick.batch) /\ L[k].status = "Pending"
                                         THEN R ELSE L[k].run
  <2>1. \A k \in DOMAIN L : L[k] \in LedgerEntry
    BY <1>18
  <2> QED BY <1>19, <2>1 DEF LedgerEntry
<1>21. \A k \in DOMAIN L : EntrySound(L[k])
  BY <1>2, <1>17 DEF AllSound
<1>22. \A k \in DOMAIN M : EntrySound(M[k])
  BY <1>5, <1>19, <1>20, <1>21 DEF EntrySound
<1>23. LedgerSound'
  <2>1. \A e : EntrySound(e)' = EntrySound(e)
    BY <1>11 DEF EntrySound, BoundRuns
  <2> QED BY <1>3, <1>12, <1>13, <1>22, <1>28, <2>1 DEF LedgerSound, AllSound
<1>24. Traced(M, R, runs[R], forgot)
  <2>1. \A id \in runs[R].ids : \E k \in DOMAIN L : L[k].id = id /\ Open(L[k]) /\ L[k].polls = 0
    BY <1>5 DEF ToSet
  <2>2. \A j \in DOMAIN L : L[j].id \in runs[R].ids => Open(L[j])
    BY <1>18, <2>1 DEF Unique
  <2>3. \A j \in DOMAIN M : M[j].id \in runs[R].ids => M[j].run = R
    BY <1>5, <1>19, <1>20, <2>2 DEF Open
  <2>4. \A id \in runs[R].ids : \E k \in DOMAIN M :
           M[k].id = id /\ M[k].status = "Pending" /\ M[k].run = R /\ M[k].polls = 0
    <3>1. SUFFICES ASSUME NEW id \in runs[R].ids
                   PROVE  \E k \in DOMAIN M : /\ M[k].id = id /\ M[k].status = "Pending"
                                              /\ M[k].run = R /\ M[k].polls = 0
      OBVIOUS
    <3>2. PICK k \in DOMAIN L : L[k].id = id /\ Open(L[k]) /\ L[k].polls = 0
      BY <2>1
    <3> QED BY <1>5, <1>19, <1>20, <3>2 DEF Open
  <2>5. Awaits(M, R, runs[R])
    BY <1>5, <2>3, <2>4 DEF Awaits
  <2>6. Remembered(M, R, runs[R])
    BY <2>4 DEF Remembered
  <2> QED BY <2>5, <2>6 DEF Traced
<1>25. ASSUME NEW r \in DOMAIN runs, r # R, Kept(runs[r]) PROVE Traced(M, r, runs[r], forgot)
  <2>1. Traced(L, r, runs[r], forgot)
    <3>1. Traced(DiskLedger, r, runs[r], forgot) /\ runs[r].ids \cap undone = {}
      BY <1>3, <1>25 DEF RunsTraced, Kept
    <3> QED BY <1>2, <1>17, <3>1, TracedAgreed
  <2>2. CASE runs[r].status = "ended" /\ forgot
    BY <2>2 DEF Traced
  <2>3. CASE ~(runs[r].status = "ended" /\ forgot)
    <3>1. runs[r].ids \cap ToSet(tick.batch) = {}
      BY <1>5, <1>25, <2>3
    <3>2. \A k \in DOMAIN L : M[k].id = L[k].id /\ (L[k].id \in runs[r].ids => M[k] = L[k])
      BY <1>19, <1>20, <3>1
    <3>3. Awaits(L, r, runs[r]) => Awaits(M, r, runs[r])
      <4>1. SUFFICES ASSUME Awaits(L, r, runs[r]) PROVE Awaits(M, r, runs[r])
        OBVIOUS
      <4>2. \A id \in runs[r].ids : \E k \in DOMAIN M :
               /\ M[k].id = id /\ M[k].status = "Pending" /\ M[k].run \in {0, r}
               /\ M[k].polls <= runs[r].passes
        <5>1. SUFFICES ASSUME NEW id \in runs[r].ids
                       PROVE  \E k \in DOMAIN M :
                                 /\ M[k].id = id /\ M[k].status = "Pending" /\ M[k].run \in {0, r}
                                 /\ M[k].polls <= runs[r].passes
          OBVIOUS
        <5>2. PICK k \in DOMAIN L :
                 /\ L[k].id = id /\ L[k].status = "Pending" /\ L[k].run \in {0, r}
                 /\ L[k].polls <= runs[r].passes
          BY <4>1 DEF Awaits
        <5> QED BY <1>19, <3>2, <5>2
      <4>3. \A j, k \in DOMAIN M :
               M[j].id \in runs[r].ids /\ M[k].id \in runs[r].ids => M[j].run = M[k].run
        BY <1>19, <3>2, <4>1 DEF Awaits
      <4> QED BY <4>2, <4>3 DEF Awaits
    <3>4. Remembered(L, r, runs[r]) => Remembered(M, r, runs[r])
      <4>1. SUFFICES ASSUME Remembered(L, r, runs[r]), NEW id \in runs[r].ids
                     PROVE  \E k \in DOMAIN M :
                               /\ M[k].id = id
                               /\ \/ M[k].status = "Confirmed" \/ M[k].run = r
                                  \/ /\ M[k].polls <= runs[r].passes
                                     /\ \A j \in DOMAIN M : M[j].id \in runs[r].ids => Open(M[j])
        BY DEF Remembered
      <4>2. PICK k \in DOMAIN L :
               /\ L[k].id = id
               /\ \/ L[k].status = "Confirmed" \/ L[k].run = r
                  \/ /\ L[k].polls <= runs[r].passes
                     /\ \A j \in DOMAIN L : L[j].id \in runs[r].ids => Open(L[j])
        BY <4>1 DEF Remembered
      <4>3. M[k] = L[k] /\ k \in DOMAIN M
        BY <1>19, <3>2, <4>2
      <4>4. (\A j \in DOMAIN L : L[j].id \in runs[r].ids => Open(L[j]))
            => \A j \in DOMAIN M : M[j].id \in runs[r].ids => Open(M[j])
        BY <1>19, <3>2
      <4> QED BY <4>2, <4>3, <4>4
    <3> QED BY <2>1, <3>3, <3>4 DEF Traced
  <2> QED BY <2>2, <2>3
<1>26. RunsTraced'
  BY <1>11, <1>12, <1>24, <1>25 DEF RunsTraced, Kept, Recent
<1>27. HistoryKnown'
  <2>1. Roomy /\ q.bound # 0 => \A i \in history : Known(q, i)
    BY <1>2, <1>9 DEF KnowsHistory, Known
  <2> QED BY <1>10, <1>11, <1>13, <2>1 DEF HistoryKnown, KnowsHistory
<1> QED BY <1>14, <1>15, <1>16, <1>23, <1>26, <1>27 DEF WatchInv

-----------------------------------------------------------------------------
(* The poll of a watch under contract.                                     *)

\* A row after the poll.
PassedRow(M, row, new) ==
    /\ new.ids = row.ids /\ new.kind = row.kind /\ new.status = row.status
    /\ new.passes \in {row.passes, row.passes + 1}
    /\ \/ new.passes = row.passes + 1 \/ row.passes > Threshold
       \/ \E k \in DOMAIN M : M[k].status = "Confirmed" /\ M[k].id \in row.ids

\* The rows after the poll: the same, with one poll more where it counts.
LEMMA RowsPassed ==
    ASSUME WatchAssumption, runs \in Seq(Row), NEW q, runs' = Passed(q)
    PROVE  /\ runs' \in Seq(Row) /\ Len(runs') = Len(runs) /\ DOMAIN runs' = DOMAIN runs
           /\ \A r \in DOMAIN runs : PassedRow(q.seen_deliveries, runs[r], runs'[r])
<1>1. DOMAIN runs' = DOMAIN runs /\ runs' = [r \in DOMAIN runs' |-> runs'[r]]
  BY DEF Passed
<1>2. ASSUME NEW r \in DOMAIN runs
      PROVE  runs'[r] \in Row /\ PassedRow(q.seen_deliveries, runs[r], runs'[r])
  <2>1. PICK row \in Row : row = runs[r]
    OBVIOUS
  <2>2. PICK skip \in BOOLEAN :
           skip = \/ row.passes > Threshold
                  \/ \E k \in DOMAIN q.seen_deliveries :
                        q.seen_deliveries[k].status = "Confirmed" /\ q.seen_deliveries[k].id \in row.ids
    OBVIOUS
  <2>3. PICK new : new = [row EXCEPT !.passes = @ + 1]
    OBVIOUS
  <2>4. runs'[r] = IF skip THEN row ELSE new
    BY <2>1, <2>2, <2>3 DEF Passed
  <2>5. row.passes \in Nat /\ row = [ids |-> row.ids, kind |-> row.kind, status |-> row.status,
                                     passes |-> row.passes]
    BY RowParts
  <2>6. new \in Row
    <3>1. PICK p : p = row.passes + 1
      OBVIOUS
    <3>2. p \in Nat /\ new = [row EXCEPT !.passes = p]
      BY <2>3, <2>5, <3>1
    <3> QED BY <3>2, RowCounts
  <2>7. new.ids = row.ids /\ new.kind = row.kind /\ new.status = row.status
        /\ new.passes = row.passes + 1
    BY <2>3, <2>5
  <2>8. PassedRow(q.seen_deliveries, row, runs'[r])
    <3>1. CASE skip
      BY <2>2, <2>4, <2>5, <3>1 DEF PassedRow
    <3>2. CASE ~skip
      <4>1. runs'[r] = new
        BY <2>4, <3>2
      <4> QED BY <2>7, <4>1 DEF PassedRow
    <3> QED BY <3>1, <3>2
  <2> QED BY <2>1, <2>4, <2>6, <2>8
<1>3. runs' \in Seq(Row) /\ Len(runs') = Len(runs)
  BY <1>1, <1>2, RowsMapped
<1> QED BY <1>1, <1>2, <1>3

\* What the pass makes of an entry.
LEMMA EntryPassed ==
    ASSUME runs \in Seq(Row), DOMAIN runs' = DOMAIN runs,
           \A r \in DOMAIN runs : runs'[r].ids = runs[r].ids /\ runs'[r].kind = runs[r].kind
                                  /\ runs'[r].status = runs[r].status,
           NEW a, EntrySound(a), a.status \in {"Pending", "Confirmed"}, NEW b, Comes(a, b),
           a = [id |-> a.id, status |-> a.status, run |-> a.run, polls |-> a.polls]
    PROVE  /\ b.run # 0 => b.run \in BoundRuns' /\ b.id \in runs'[b.run].ids
           /\ b.status = "Confirmed" =>
                 /\ b.run = 0
                 /\ \E r \in BoundRuns' : runs'[r].status = "ended" /\ b.id \in runs'[r].ids
<1>1. BoundRuns' = BoundRuns /\ BoundRuns \subseteq DOMAIN runs
  BY DEF BoundRuns
<1>2. CASE ~(Ended(a.run) /\ b = [a EXCEPT !.status = "Confirmed", !.run = 0])
  <2>1. b.id = a.id /\ b.status = a.status /\ b.run = a.run
    BY <1>2 DEF Comes
  <2> QED BY <1>1, <2>1 DEF EntrySound
<1>3. CASE Ended(a.run) /\ b = [a EXCEPT !.status = "Confirmed", !.run = 0]
  <2>1. b.id = a.id /\ b.status = "Confirmed" /\ b.run = 0
    BY <1>3
  <2>2. a.run # 0 /\ runs[a.run].status = "ended"
    BY <1>3 DEF Ended
  <2> QED BY <1>1, <2>1, <2>2 DEF EntrySound
<1> QED BY <1>2, <1>3

\* Both ledgers of the pass, entry by entry.
Follows(L, M, lossy) ==
    /\ \A j \in DOMAIN M : \E i \in DOMAIN L : Comes(L[i], M[j])
    /\ \A i \in DOMAIN L : \/ \E j \in DOMAIN M : Comes(L[i], M[j])
                           \/ GivenUp(L[i]) /\ (L[i].status = "Confirmed" => lossy)

\* Every entry after the pass is one of before, settled; one that is gone was given up.
LEMMA PassFollows ==
    ASSUME NEW pad, PadOK(pad), NEW st \in Walked, NEW k, Reconciled(pad, k, st)
    PROVE  Follows(pad.seen_deliveries, st.pad.seen_deliveries, st.forgets)
<1>1. PICK L : L = pad.seen_deliveries
  OBVIOUS
<1>2. PICK M : M = st.pad.seen_deliveries
  OBVIOUS
<1>3. Unique(L) /\ L \in Seq(LedgerEntry)
  BY <1>1 DEF PadOK, Pad
<1>4. /\ \A j \in DOMAIN M : \E i \in DOMAIN L : Comes(L[i], M[j])
      /\ \A i \in DOMAIN L :
            \/ \E j \in DOMAIN M : M[j].id = L[i].id
            \/ GivenUp(L[i]) /\ (L[i].status = "Confirmed" => st.forgets)
  BY <1>1, <1>2 DEF Reconciled
<1>5. ASSUME NEW i \in DOMAIN L, NEW j \in DOMAIN M, M[j].id = L[i].id PROVE Comes(L[i], M[j])
  <2>1. PICK o \in DOMAIN L : Comes(L[o], M[j])
    BY <1>4
  <2>2. L[o] \in LedgerEntry
    BY <1>3
  <2>3. M[j].id = L[o].id
    BY <2>1, <2>2 DEF Comes, LedgerEntry
  <2>4. o = i
    BY <1>3, <1>5, <2>3 DEF Unique
  <2> QED BY <2>1, <2>4
<1>6. PICK lossy : lossy = st.forgets
  OBVIOUS
<1>7. Follows(L, M, lossy)
  <2>1. ASSUME NEW i \in DOMAIN L
        PROVE  \/ \E j \in DOMAIN M : Comes(L[i], M[j])
               \/ GivenUp(L[i]) /\ (L[i].status = "Confirmed" => lossy)
    BY <1>4, <1>5, <1>6
  <2>2. \A j \in DOMAIN M : \E i \in DOMAIN L : Comes(L[i], M[j])
    BY <1>4
  <2>3. \A i \in DOMAIN L : \/ \E j \in DOMAIN M : Comes(L[i], M[j])
                            \/ GivenUp(L[i]) /\ (L[i].status = "Confirmed" => lossy)
    BY <2>1
  <2> QED BY <2>2, <2>3 DEF Follows
<1> QED BY <1>1, <1>2, <1>6, <1>7

\* A run that has not ended keeps its findings over the pass.
LEMMA AwaitsPassed ==
    ASSUME WatchAssumption, NEW L \in Seq(LedgerEntry), Unique(L), NEW M, NEW lossy,
           Follows(L, M, lossy), NEW r \in DOMAIN runs, runs[r] \in Row, NEW new,
           PassedRow(M, runs[r], new), new.passes <= Threshold, runs[r].status # "ended",
           Awaits(L, r, runs[r])
    PROVE  Awaits(M, r, new)
<1>1. PICK row : row = runs[r]
  OBVIOUS
<1>2. row.passes \in Nat /\ Threshold \in Nat
  BY <1>1, RowParts DEF WatchAssumption
<1>3. \A j \in DOMAIN L : L[j] \in LedgerEntry
  OBVIOUS
<1>4. ASSUME NEW j \in DOMAIN L, L[j].id \in row.ids
      PROVE  L[j].status = "Pending" /\ L[j].run \in {0, r} /\ ~Ended(L[j].run)
             /\ L[j].polls <= row.passes
  <2>1. PICK k \in DOMAIN L : /\ L[k].id = L[j].id /\ L[k].status = "Pending"
                              /\ L[k].run \in {0, r} /\ L[k].polls <= row.passes
    BY <1>1, <1>4 DEF Awaits
  <2>2. k = j
    BY <2>1 DEF Unique
  <2> QED BY <1>1, <2>1, <2>2 DEF Ended
<1>5. ASSUME NEW j \in DOMAIN M, NEW i \in DOMAIN L, Comes(L[i], M[j]),
             L[i].id \in row.ids \/ M[j].id \in row.ids
      PROVE  /\ M[j].id = L[i].id /\ L[i].id \in row.ids
             /\ M[j].status = "Pending" /\ M[j].run = L[i].run
             /\ M[j].polls \in {L[i].polls, L[i].polls + 1}
  <2>1. M[j].id = L[i].id
    BY <1>3, <1>5 DEF Comes, LedgerEntry
  <2>2. ~Ended(L[i].run) /\ L[i].status = "Pending"
    BY <1>4, <1>5, <2>1
  <2> QED BY <1>3, <1>5, <2>1, <2>2 DEF Comes, LedgerEntry
<1>6. \A j \in DOMAIN M : M[j].id \in row.ids =>
         /\ M[j].status = "Pending"
         /\ \E i \in DOMAIN L : L[i].id = M[j].id /\ M[j].run = L[i].run
  BY <1>5 DEF Follows
<1>7. new.passes = row.passes + 1 /\ new.ids = row.ids
  BY <1>1, <1>2, <1>6 DEF PassedRow
<1>8. ASSUME NEW id \in row.ids
      PROVE  \E j \in DOMAIN M : /\ M[j].id = id /\ M[j].status = "Pending" /\ M[j].run \in {0, r}
                                 /\ M[j].polls <= new.passes
  <2>1. PICK k \in DOMAIN L : L[k].id = id
    BY <1>1, <1>8 DEF Awaits
  <2>2. L[k].run \in {0, r} /\ L[k].polls <= row.passes /\ L[k].polls \in Nat
    BY <1>3, <1>4, <2>1 DEF LedgerEntry
  <2>3. ~GivenUp(L[k])
    BY <1>2, <1>7, <2>2 DEF GivenUp, Waits
  <2>4. PICK j \in DOMAIN M : Comes(L[k], M[j])
    BY <2>3 DEF Follows
  <2>5. /\ M[j].id = id /\ M[j].status = "Pending" /\ M[j].run = L[k].run
        /\ M[j].polls \in {L[k].polls, L[k].polls + 1}
    BY <1>5, <2>1, <2>4
  <2>6. M[j].polls <= new.passes
    BY <1>2, <1>7, <2>2, <2>5
  <2> QED BY <2>2, <2>5, <2>6
<1>9. \A j, k \in DOMAIN M : M[j].id \in row.ids /\ M[k].id \in row.ids => M[j].run = M[k].run
  <2>1. \A j, k \in DOMAIN L : L[j].id \in row.ids /\ L[k].id \in row.ids => L[j].run = L[k].run
    BY <1>1 DEF Awaits
  <2> QED BY <1>6, <2>1
<1> QED BY <1>7, <1>8, <1>9 DEF Awaits

\* One that has ended too, unless the pass forgets.
LEMMA RemembersPassed ==
    ASSUME WatchAssumption, NEW L \in Seq(LedgerEntry), Unique(L), NEW M,
           \A i \in DOMAIN L : EntrySound(L[i]),
           Follows(L, M, FALSE), NEW r \in DOMAIN runs, runs \in Seq(Row), NEW new,
           PassedRow(M, runs[r], new), new.passes <= Threshold, runs[r].status = "ended",
           Remembered(L, r, runs[r])
    PROVE  Remembered(M, r, new)
<1>1. PICK row : row = runs[r]
  OBVIOUS
<1>2. row.passes \in Nat /\ Threshold \in Nat /\ r \in Nat \ {0} /\ row \in Row
  BY <1>1, RowParts DEF WatchAssumption
<1>3. \A j \in DOMAIN L : L[j] \in LedgerEntry
  OBVIOUS
<1>4. \A j \in DOMAIN M, i \in DOMAIN L : Comes(L[i], M[j]) => M[j].id = L[i].id
  BY <1>3 DEF Comes, LedgerEntry
<1>5. new.ids = row.ids
  BY <1>1 DEF PassedRow
<1>6. SUFFICES ASSUME NEW id \in row.ids
               PROVE  \E j \in DOMAIN M :
                         /\ M[j].id = id
                         /\ \/ M[j].status = "Confirmed" \/ M[j].run = r
                            \/ /\ M[j].polls <= new.passes
                               /\ \A n \in DOMAIN M : M[n].id \in row.ids => Open(M[n])
  BY <1>5 DEF Remembered
<1>7. PICK k \in DOMAIN L :
         /\ L[k].id = id
         /\ \/ L[k].status = "Confirmed" \/ L[k].run = r
            \/ /\ L[k].polls <= row.passes
               /\ \A j \in DOMAIN L : L[j].id \in row.ids => Open(L[j])
  BY <1>1, <1>6 DEF Remembered
<1>8. (\E j \in DOMAIN M : Comes(L[k], M[j])) \/ (GivenUp(L[k]) /\ L[k].status # "Confirmed")
  BY DEF Follows
<1>9. CASE L[k].status = "Confirmed"
  <2>1. L[k].run = 0 /\ ~Ended(L[k].run)
    BY <1>9 DEF EntrySound, Ended
  <2>2. PICK j \in DOMAIN M : Comes(L[k], M[j])
    BY <1>8, <1>9
  <2>3. M[j].status = "Confirmed"
    BY <1>3, <1>9, <2>1, <2>2 DEF Comes, LedgerEntry
  <2> QED BY <1>4, <1>7, <2>2, <2>3
<1>10. CASE L[k].run = r
  <2>1. Ended(L[k].run)
    BY <1>1, <1>2, <1>10 DEF Ended
  <2>2. PICK j \in DOMAIN M : Comes(L[k], M[j])
    BY <1>8, <2>1 DEF GivenUp
  <2>3. M[j].status = "Confirmed" \/ M[j].run = r
    BY <1>3, <1>10, <2>1, <2>2 DEF Comes, LedgerEntry
  <2> QED BY <1>4, <1>7, <2>2, <2>3
<1>11. CASE /\ L[k].polls <= row.passes
            /\ \A j \in DOMAIN L : L[j].id \in row.ids => Open(L[j])
  <2>1. ASSUME NEW j \in DOMAIN M, NEW i \in DOMAIN L, Comes(L[i], M[j]), L[i].id \in row.ids
        PROVE  Open(M[j]) /\ M[j].polls \in {L[i].polls, L[i].polls + 1}
    <3>1. Open(L[i]) /\ ~Ended(L[i].run) /\ L[i] \in LedgerEntry
      BY <1>3, <1>11, <2>1 DEF Open, Ended
    <3> QED BY <2>1, <3>1 DEF Comes, LedgerEntry, Open
  <2>2. ASSUME NEW n \in DOMAIN M, M[n].id \in row.ids PROVE Open(M[n])
    <3>1. PICK i \in DOMAIN L : Comes(L[i], M[n])
      BY DEF Follows
    <3> QED BY <1>4, <2>1, <2>2, <3>1
  <2>3. new.passes = row.passes + 1
    BY <1>1, <1>2, <2>2 DEF PassedRow, Open
  <2>4. L[k].polls \in Nat
    BY <1>3 DEF LedgerEntry
  <2>5. ~GivenUp(L[k])
    BY <1>2, <1>11, <2>3, <2>4, SMTT(30) DEF GivenUp, Waits
  <2>6. PICK j \in DOMAIN M : Comes(L[k], M[j])
    BY <1>8, <2>5
  <2>7. M[j].polls \in {L[k].polls, L[k].polls + 1}
    BY <1>7, <2>1, <2>6
  <2>8. M[j].polls <= new.passes
    BY <1>2, <1>11, <2>3, <2>4, <2>7, SMTT(30)
  <2> QED BY <1>4, <1>7, <2>2, <2>6, <2>8
<1> QED BY <1>7, <1>9, <1>10, <1>11

\* The ledger with the findings of a batch added.
Extended(M, B, P) ==
    /\ P \in Seq(LedgerEntry) /\ Unique(P)
    /\ \A k \in DOMAIN M : k \in DOMAIN P /\ P[k] = M[k]
    /\ \A k \in DOMAIN P : k \in DOMAIN M \/ \E n \in DOMAIN B : P[k] = Entry(B[n])
    /\ \A n \in DOMAIN B : \E k \in DOMAIN P : P[k] = Entry(B[n])
    /\ \A n \in DOMAIN B, k \in DOMAIN M : M[k].id # B[n]

\* record_pending_action adds the batch to the ledger and leaves the entries there.
LEMMA PendingRecorded ==
    ASSUME NEW pad, PadOK(pad), NEW B \in Seq(Finding),
           \A m, n \in DOMAIN B : B[m] = B[n] => m = n,
           \A n \in DOMAIN B : ~SeenDelivery(pad, B[n]),
           NEW q, q = RecordPending(pad, B)
    PROVE  /\ PadOK(q) /\ Extended(pad.seen_deliveries, B, q.seen_deliveries)
           /\ q.bound = pad.bound /\ q.seen_ids = pad.seen_ids /\ q.snapshots = pad.snapshots
<1>1. PICK M : M = pad.seen_deliveries
  OBVIOUS
<1>2. M \in Seq(LedgerEntry) /\ Unique(M) /\ pad \in Pad /\ DOMAIN M = 1 .. Len(M) /\ Len(M) \in Nat
  BY <1>1 DEF PadOK, Pad
<1>3. PICK E : E = [n \in DOMAIN B |-> Entry(B[n])]
  OBVIOUS
<1>4. DOMAIN B = 1 .. Len(B) /\ Len(B) \in Nat
  OBVIOUS
<1>5. \A n \in DOMAIN B : E[n] = Entry(B[n]) /\ E[n] \in LedgerEntry /\ E[n].id = B[n]
  BY <1>3, <1>4 DEF Entry, LedgerEntry
<1>6. E \in Seq(LedgerEntry) /\ Len(E) = Len(B)
  <2>1. E \in [1 .. Len(B) -> LedgerEntry]
    BY <1>3, <1>4, <1>5
  <2> QED BY <1>4, <2>1
<1>7. PICK P : P = M \o E
  OBVIOUS
<1>8. /\ P \in Seq(LedgerEntry) /\ Len(P) = Len(M) + Len(B) /\ DOMAIN P = 1 .. Len(M) + Len(B)
      /\ \A k \in 1 .. Len(M) + Len(B) : P[k] = IF k <= Len(M) THEN M[k] ELSE E[k - Len(M)]
  <2>1. /\ P \in Seq(LedgerEntry) /\ Len(P) = Len(M) + Len(E)
        /\ \A k \in 1 .. Len(M) + Len(E) : P[k] = IF k <= Len(M) THEN M[k] ELSE E[k - Len(M)]
    BY <1>2, <1>6, <1>7, ConcatProperties
  <2> QED BY <1>6, <2>1
<1>9. \A k \in DOMAIN M : k \in DOMAIN P /\ P[k] = M[k]
  BY <1>2, <1>4, <1>8
<1>10. ASSUME NEW k \in DOMAIN P, k \notin DOMAIN M
       PROVE  k - Len(M) \in DOMAIN B /\ P[k] = E[k - Len(M)]
  BY <1>2, <1>4, <1>8, <1>10
<1>11. ASSUME NEW n \in DOMAIN B
       PROVE  Len(M) + n \in DOMAIN P /\ P[Len(M) + n] = Entry(B[n])
  <2>1. Len(M) + n \in 1 .. Len(M) + Len(B) /\ ~(Len(M) + n <= Len(M)) /\ (Len(M) + n) - Len(M) = n
    BY <1>2, <1>4
  <2> QED BY <1>5, <1>8, <2>1
<1>12. Unique(P)
  <2>1. SUFFICES ASSUME NEW j \in DOMAIN P, NEW k \in DOMAIN P, P[j].id = P[k].id PROVE j = k
    BY DEF Unique
  <2>2. CASE j \in DOMAIN M /\ k \in DOMAIN M
    BY <1>2, <1>9, <2>1, <2>2 DEF Unique
  <2>3. ASSUME NEW a \in DOMAIN M, NEW b \in DOMAIN P, b \notin DOMAIN M, P[a].id = P[b].id PROVE FALSE
    <3>1. b - Len(M) \in DOMAIN B /\ P[b].id = B[b - Len(M)]
      BY <1>5, <1>10, <2>3
    <3>2. M[a].id = B[b - Len(M)]
      BY <1>9, <2>3, <3>1
    <3> QED BY <1>1, <3>1, <3>2 DEF SeenDelivery, EntriesOf
  <2>4. CASE j \notin DOMAIN M /\ k \notin DOMAIN M
    <3>1. /\ j - Len(M) \in DOMAIN B /\ P[j].id = B[j - Len(M)]
          /\ k - Len(M) \in DOMAIN B /\ P[k].id = B[k - Len(M)]
      BY <1>5, <1>10, <2>4
    <3>2. j - Len(M) = k - Len(M)
      BY <2>1, <3>1
    <3> QED BY <1>2, <1>8, <3>2
  <2> QED BY <2>1, <2>2, <2>3, <2>4
<1>13. q = [pad EXCEPT !.seen_deliveries = P]
  BY <1>1, <1>3, <1>7 DEF RecordPending
<1>14. q \in Pad /\ q.seen_deliveries = P /\ q.bound = pad.bound /\ q.seen_ids = pad.seen_ids
       /\ q.snapshots = pad.snapshots
  BY <1>2, <1>8, <1>13 DEF Pad
<1>15. \A k \in DOMAIN P : k \in DOMAIN M \/ \E n \in DOMAIN B : P[k] = Entry(B[n])
  BY <1>5, <1>10
<1>16. \A n \in DOMAIN B : \E k \in DOMAIN P : P[k] = Entry(B[n])
  BY <1>11
<1>17. \A n \in DOMAIN B, k \in DOMAIN M : M[k].id # B[n]
  BY <1>1 DEF SeenDelivery, EntriesOf
<1>18. Extended(M, B, P)
  BY <1>8, <1>9, <1>12, <1>15, <1>16, <1>17 DEF Extended
<1> QED BY <1>1, <1>12, <1>14, <1>18 DEF PadOK

\* The findings of a traced run are in the ledger.
LEMMA TracedIsSeen ==
    ASSUME NEW M, NEW r, NEW row, NEW lossy, Traced(M, r, row, lossy),
           row.status = "ended" => ~lossy
    PROVE  \A id \in row.ids : \E k \in DOMAIN M : M[k].id = id
BY DEF Traced, Awaits, Remembered

\* What is added to the ledger is of no run traced before.
LEMMA TracedExtended ==
    ASSUME NEW M, NEW B, NEW P, Extended(M, B, P), NEW r, NEW row, NEW lossy,
           Traced(M, r, row, lossy), row.status = "ended" => ~lossy
    PROVE  Traced(P, r, row, lossy) /\ row.ids \cap ToSet(B) = {}
<1>1. \A k \in DOMAIN M : k \in DOMAIN P /\ P[k] = M[k]
  BY DEF Extended
<1>2. \A k \in DOMAIN P : P[k].id \in row.ids => k \in DOMAIN M
  <2>1. SUFFICES ASSUME NEW k \in DOMAIN P, P[k].id \in row.ids PROVE k \in DOMAIN M
    OBVIOUS
  <2>2. PICK j \in DOMAIN M : M[j].id = P[k].id
    BY <2>1, TracedIsSeen
  <2>3. j = k
    BY <1>1, <2>2 DEF Extended, Unique
  <2> QED BY <2>3
<1>3. row.status # "ended" => Awaits(P, r, row)
  <2>1. SUFFICES ASSUME Awaits(M, r, row) PROVE Awaits(P, r, row)
    BY DEF Traced
  <2>2. \A id \in row.ids : \E k \in DOMAIN P :
           /\ P[k].id = id /\ P[k].status = "Pending" /\ P[k].run \in {0, r}
           /\ P[k].polls <= row.passes
    <3>1. SUFFICES ASSUME NEW id \in row.ids
                   PROVE  \E k \in DOMAIN P :
                             /\ P[k].id = id /\ P[k].status = "Pending" /\ P[k].run \in {0, r}
                             /\ P[k].polls <= row.passes
      OBVIOUS
    <3>2. PICK k \in DOMAIN M : /\ M[k].id = id /\ M[k].status = "Pending" /\ M[k].run \in {0, r}
                                /\ M[k].polls <= row.passes
      BY <2>1 DEF Awaits
    <3> QED BY <1>1, <3>2
  <2>3. \A j, k \in DOMAIN P : P[j].id \in row.ids /\ P[k].id \in row.ids => P[j].run = P[k].run
    BY <1>1, <1>2, <2>1 DEF Awaits
  <2> QED BY <2>2, <2>3 DEF Awaits
<1>4. row.status = "ended" => Remembered(P, r, row)
  <2>1. SUFFICES ASSUME Remembered(M, r, row), NEW id \in row.ids
                 PROVE  \E k \in DOMAIN P :
                           /\ P[k].id = id
                           /\ \/ P[k].status = "Confirmed" \/ P[k].run = r
                              \/ /\ P[k].polls <= row.passes
                                 /\ \A j \in DOMAIN P : P[j].id \in row.ids => Open(P[j])
    BY DEF Traced, Remembered
  <2>2. PICK k \in DOMAIN M :
           /\ M[k].id = id
           /\ \/ M[k].status = "Confirmed" \/ M[k].run = r
              \/ /\ M[k].polls <= row.passes
                 /\ \A j \in DOMAIN M : M[j].id \in row.ids => Open(M[j])
    BY <2>1 DEF Remembered
  <2>3. (\A j \in DOMAIN M : M[j].id \in row.ids => Open(M[j]))
        => \A j \in DOMAIN P : P[j].id \in row.ids => Open(P[j])
    BY <1>1, <1>2
  <2> QED BY <1>1, <2>2, <2>3
<1>5. row.ids \cap ToSet(B) = {}
  <2>1. SUFFICES ASSUME NEW n \in DOMAIN B, B[n] \in row.ids PROVE FALSE
    BY DEF ToSet
  <2>2. PICK k \in DOMAIN M : M[k].id = B[n]
    BY <2>1, TracedIsSeen
  <2> QED BY <2>1, <2>2 DEF Extended
<1> QED BY <1>3, <1>4, <1>5 DEF Traced

\* What is traced stays so over the pass.
LEMMA TracedPassed ==
    ASSUME WatchAssumption, NEW L \in Seq(LedgerEntry), Unique(L), NEW M,
           \A i \in DOMAIN L : EntrySound(L[i]),
           NEW was \in BOOLEAN, NEW lossy \in BOOLEAN, Follows(L, M, lossy),
           runs \in Seq(Row), NEW r \in DOMAIN runs, NEW new,
           PassedRow(M, runs[r], new), new.passes <= Threshold, Traced(L, r, runs[r], was)
    PROVE  Traced(M, r, new, was \/ lossy)
<1>1. new.status = runs[r].status /\ runs[r] \in Row
  BY DEF PassedRow
<1>2. new.status # "ended" => Awaits(M, r, new)
  BY <1>1, AwaitsPassed DEF Traced
<1>3. new.status = "ended" /\ ~(was \/ lossy) => Remembered(M, r, new)
  <2>1. SUFFICES ASSUME new.status = "ended", was = FALSE, lossy = FALSE PROVE Remembered(M, r, new)
    OBVIOUS
  <2>2. Remembered(L, r, runs[r])
    BY <1>1, <2>1 DEF Traced
  <2>3. Follows(L, M, FALSE)
    BY <2>1
  <2> QED BY <1>1, <2>1, <2>2, <2>3, RemembersPassed
<1> QED BY <1>2, <1>3 DEF Traced

\* A row that is recent after the poll was so before.
LEMMA RecentBefore ==
    ASSUME WatchAssumption, runs \in Seq(Row), NEW r \in DOMAIN runs, NEW M, NEW new,
           PassedRow(M, runs[r], new), Recent(new)
    PROVE  Recent(runs[r]) /\ new.passes <= Threshold
<1>1. runs[r].passes \in Nat /\ Threshold \in Nat
  BY RowParts DEF WatchAssumption
<1> QED BY <1>1 DEF Recent, PassedRow

\* All the candidates are met.
LEMMA AllMet ==
    ASSUME WatchAssumption, Len(Order) \in Nat, NEW C \in SUBSET Items
    PROVE  Met(C, Len(Order)) = C
<1>1. DOMAIN Order = 1 .. Len(Order)
  BY DEF WatchAssumption
<1>2. Items = {Order[m] : m \in 1 .. Len(Order)}
  BY <1>1 DEF Items, ToSet
<1> QED BY <1>2 DEF Met

\* The snapshots know the history that a poll leaves, and it reports nothing of it.
HistoryKept(kept, T, B) ==
    /\ \A i \in kept : \E k \in DOMAIN T :
          T[k].item = i /\ T[k].matching /\ T[k].version = "on"
    /\ \A n \in DOMAIN B : B[n][1] \notin kept

\* The loop keeps the snapshots of the history and reports none of its items.
LEMMA HistoryPassed ==
    ASSUME WatchAssumption, Roomy, NEW loaded, NEW rec \in Walked, NEW n,
           Reconciled(loaded, n, rec), NEW reseed \in BOOLEAN,
           reseed \/ \A i \in history : Known(loaded, i),
           NEW C \in SUBSET Items, NEW suppress, reseed => suppress,
           NEW pad, pad.snapshots = IF reseed THEN <<>> ELSE rec.pad.snapshots,
           NEW t, DiffedTo(pad, suppress, C, Len(Order), t),
           NEW kept,
           kept = IF reseed THEN {i \in C : world[i] = "on"}
                  ELSE history \ (rec.retried \union (C \ {i \in C : world[i] = "on"}))
    PROVE  HistoryKept(kept, t.pad.snapshots, t.batch)
<1>1. Met(C, Len(Order)) = C
  BY LengthOK, AllMet
<1>2. /\ suppress => t.batch = <<>>
      /\ \A m \in DOMAIN t.batch : t.batch[m][1] \in C
      /\ \A i \in C : \E j \in DOMAIN t.pad.snapshots :
            /\ t.pad.snapshots[j].item = i /\ t.pad.snapshots[j].version = world[i]
            /\ t.pad.snapshots[j].matching = (world[i] = "on")
      /\ \A j \in DOMAIN pad.snapshots : pad.snapshots[j].item \notin C
            => \E m \in DOMAIN t.pad.snapshots : t.pad.snapshots[m] = pad.snapshots[j]
      /\ \A m \in DOMAIN t.batch : world[t.batch[m][1]] = "on" => ~Known(pad, t.batch[m][1])
  BY <1>1 DEF DiffedTo
<1>3. ASSUME NEW i \in kept, ~reseed PROVE Known(pad, i)
  <2>1. i \in history /\ i \notin rec.retried
    BY <1>3
  <2>2. PICK k \in DOMAIN loaded.snapshots :
           /\ loaded.snapshots[k].item = i /\ loaded.snapshots[k].matching
           /\ loaded.snapshots[k].version = "on"
    BY <1>3, <2>1 DEF Known
  <2>3. PICK j \in DOMAIN rec.pad.snapshots : rec.pad.snapshots[j] = loaded.snapshots[k]
    BY <2>1, <2>2 DEF Reconciled
  <2>4. pad.snapshots = rec.pad.snapshots
    BY <1>3
  <2> QED BY <2>2, <2>3, <2>4 DEF Known
<1>4. ASSUME NEW i \in kept
      PROVE  \E k \in DOMAIN t.pad.snapshots :
                /\ t.pad.snapshots[k].item = i /\ t.pad.snapshots[k].matching
                /\ t.pad.snapshots[k].version = "on"
  <2>1. CASE i \in C
    <3>1. world[i] = "on"
      BY <1>4, <2>1
    <3>2. PICK k \in DOMAIN t.pad.snapshots :
             /\ t.pad.snapshots[k].item = i /\ t.pad.snapshots[k].version = world[i]
             /\ t.pad.snapshots[k].matching = (world[i] = "on")
      BY <1>2, <2>1
    <3>3. t.pad.snapshots[k].matching
      BY <3>1, <3>2
    <3> QED BY <3>1, <3>2, <3>3
  <2>2. CASE i \notin C
    <3>1. PICK k \in DOMAIN pad.snapshots :
             /\ pad.snapshots[k].item = i /\ pad.snapshots[k].matching
             /\ pad.snapshots[k].version = "on"
      BY <1>3, <1>4, <2>2 DEF Known
    <3>2. PICK m \in DOMAIN t.pad.snapshots : t.pad.snapshots[m] = pad.snapshots[k]
      BY <1>2, <2>2, <3>1
    <3> QED BY <3>1, <3>2
  <2> QED BY <2>1, <2>2
<1>5. ASSUME NEW m \in DOMAIN t.batch PROVE t.batch[m][1] \notin kept
  <2>1. SUFFICES ASSUME t.batch[m][1] \in kept PROVE FALSE
    OBVIOUS
  <2>2. ~reseed
    BY <1>2, <1>5
  <2>3. PICK b : b = t.batch[m][1]
    OBVIOUS
  <2>4. b \in C /\ b \in kept
    BY <1>2, <2>1, <2>3
  <2>5. world[b] = "on"
    BY <2>2, <2>4
  <2>6. Known(pad, b)
    BY <1>3, <2>2, <2>4
  <2> QED BY <1>2, <2>3, <2>5, <2>6
<1> QED BY <1>4, <1>5 DEF HistoryKept

\* The scratchpad that the loop begins with.
Rebound(p, c, S) == [p EXCEPT !.bound = c, !.snapshots = S]

\* A scratchpad bound anew, with its snapshots or without them, is well-formed.
LEMMA ReseededOK ==
    ASSUME WatchAssumption, NEW p, PadOK(p), NEW c \in Nat,
           NEW S, S = <<>> \/ S = p.snapshots,
           NEW q, q = Rebound(p, c, S)
    PROVE  /\ PadOK(q) /\ q.bound = c /\ q.seen_deliveries = p.seen_deliveries
           /\ q.seen_ids = p.seen_ids /\ q.snapshots = S
<1>1. p \in Pad /\ SnapshotCap \in Nat
  BY DEF PadOK, WatchAssumption
<1>2. S \in Seq(Snapshot) /\ Distinct(S) /\ Len(S) <= SnapshotCap
  <2>1. CASE S = <<>>
    <3>1. S \in Seq(Snapshot) /\ Len(S) = 0
      BY <2>1
    <3>2. DOMAIN S = {}
      BY <2>1
    <3> QED BY <1>1, <3>1, <3>2 DEF Distinct
  <2>2. CASE S = p.snapshots
    BY <2>2 DEF PadOK, Pad
  <2> QED BY <2>1, <2>2
<1>3. q \in Pad /\ q.bound = c /\ q.snapshots = S /\ q.seen_deliveries = p.seen_deliveries
      /\ q.seen_ids = p.seen_ids
  BY <1>1, <1>2 DEF Pad, Rebound
<1> QED BY <1>2, <1>3 DEF PadOK

\* The poll of a watch under contract keeps the invariant: the pass settles what the
\* ledger has, the loop reports what it does not have, and both are written before
\* anything is dispatched.
LEMMA BoundPollKeeps ==
    ASSUME WatchAssumption, WatchInv, NEW bad \in SUBSET (Malformed \cap Present),
           NEW fallback \in BOOLEAN, NEW amend \in BOOLEAN, BoundPoll(bad, fallback, amend)
    PROVE  WatchInv'
<1>1. Working /\ tick.at = "observing" /\ ~At("firing") /\ tick.contract # 0
  BY DEF BoundPoll, At, Working
<1>2. /\ tick = Tick(tick.at, tick.contract, tick.instruction, tick.first, tick.pad, tick.batch)
      /\ tick.contract \in 0 .. instruction /\ tick.contract \in Nat
      /\ tick.instruction \in 1 .. instruction
      /\ tick.first \in BOOLEAN /\ PadOK(tick.pad)
      /\ Agree(DiskLedger, tick.pad.seen_deliveries, undone)
      /\ AllSound(tick.pad.seen_deliveries)
      /\ tick.pad.seen_ids \subseteq Reported
      /\ Roomy => KnowsHistory(tick.pad)
  BY <1>1, PollParts
<1>3. /\ WatchTypeOK /\ SeenSound /\ LedgerSound /\ RunsTraced /\ HistoryKnown
      /\ world \in [Items -> States] /\ contract \in 0 .. instruction /\ runs \in Seq(Row)
      /\ history \subseteq Items /\ forgot \in BOOLEAN /\ EditOK /\ instruction \in Nat
  BY DEF WatchInv, WatchTypeOK
<1>4. UNCHANGED <<world, instruction, baseline, undone, changes, edits, crashes>>
  BY DEF BoundPoll, bounds
\* The parts of the poll.
<1>5. PICK loaded : loaded = tick.pad
  OBVIOUS
<1>6. PICK rec : rec = Reconcile(loaded)
  OBVIOUS
<1>7. PICK reseed \in BOOLEAN : reseed = (tick.first \/ rec.pad.bound # tick.contract)
  OBVIOUS
<1>8. PICK suppress \in BOOLEAN : suppress = (reseed \/ fallback)
  OBVIOUS
<1>9. PICK c : c = tick.contract
  OBVIOUS
<1>10. PICK pad : pad = [rec.pad EXCEPT !.bound = c, !.snapshots = IF reseed THEN <<>> ELSE @]
  OBVIOUS
<1>11. PICK C : C = Present \ bad
  OBVIOUS
<1>12. PICK t : t = DiffAll(pad, reseed, suppress, C)
  OBVIOUS
<1>13. PICK left : left = IF amend THEN Orphaned(t.pad) ELSE t.pad
  OBVIOUS
<1>14. PICK B : B = t.batch
  OBVIOUS
<1>15. PICK pending : pending = RecordPending(left, B)
  OBVIOUS
<1>16. PICK kept : kept = IF reseed THEN {i \in C : world[i] = "on"}
                          ELSE history \ (rec.retried \union (C \ {i \in C : world[i] = "on"}))
  OBVIOUS
<1>17. \/ /\ rec.panics /\ tick' = [at |-> "panicked"]
          /\ UNCHANGED <<contract, disk, edit, runs, history, forgot>>
       \/ /\ ~rec.panics /\ disk' = pending
          /\ tick' = IF B = <<>> THEN Idle
                     ELSE [tick EXCEPT !.at = "dispatching", !.pad = pending, !.batch = B]
          /\ contract' = (IF amend THEN 0 ELSE contract) /\ edit' \in {edit, NoEdit}
          /\ runs' = Passed(rec.pad)
          /\ history' = kept
          /\ forgot' = (forgot \/ rec.forgets)
  <2>1. Reseeds(rec.pad) = reseed
    BY <1>7 DEF Reseeds
  <2> QED BY <1>5, <1>6, <1>8, <1>9, <1>10, <1>11, <1>12, <1>13, <1>14, <1>15, <1>16, <2>1
          DEF BoundPoll, Binds
<1>18. PadOK(loaded) /\ rec \in Walked
       /\ (~rec.panics => Reconciled(loaded, Len(loaded.seen_deliveries), rec))
  BY <1>2, <1>5, <1>6, PassSound
<1>19. CASE rec.panics
  <2>1. /\ tick' = [at |-> "panicked"] /\ UNCHANGED <<contract, disk, edit, runs, history, forgot>>
    BY <1>17, <1>19
  <2>2. Agree(DiskLedger, DiskLedger', undone) /\ AllSound(DiskLedger') /\ edit' = edit
    BY <1>3, <2>1, AgreeSelf DEF DiskLedger, LedgerSound
  <2>3. /\ Exists(disk') => PadOK(disk') /\ disk'.seen_ids \subseteq Reported
        /\ Exists(disk') /\ Roomy => KnowsHistory(disk')
    BY <1>3, <2>1 DEF WatchTypeOK, SeenSound, HistoryKnown
  <2> QED BY <1>4, <2>1, <2>2, <2>3, PollLeaves
<1>20. CASE ~rec.panics
  <2>1. /\ disk' = pending /\ contract' = (IF amend THEN 0 ELSE contract) /\ edit' \in {edit, NoEdit}
        /\ runs' = Passed(rec.pad) /\ history' = kept /\ forgot' = (forgot \/ rec.forgets)
        /\ tick' = IF B = <<>> THEN Idle
                   ELSE [tick EXCEPT !.at = "dispatching", !.pad = pending, !.batch = B]
    BY <1>17, <1>20
  <2>2. PICK M : M = rec.pad.seen_deliveries
    OBVIOUS
  <2>3. PICK L : L = loaded.seen_deliveries
    OBVIOUS
  <2>4. /\ L \in Seq(LedgerEntry) /\ Unique(L)
        /\ Agree(DiskLedger, L, undone) /\ \A i \in DOMAIN L : EntrySound(L[i])
    BY <1>2, <1>5, <1>18, <2>3 DEF PadOK, Pad, AllSound
  <2>5. Reconciled(loaded, Len(loaded.seen_deliveries), rec) /\ PadOK(rec.pad)
        /\ rec.forgets \in BOOLEAN
    BY <1>18, <1>20 DEF Walked
  <2>6. Follows(L, M, rec.forgets)
    BY <1>18, <2>2, <2>3, <2>5, PassFollows
  <2>7. rec.pad.bound = loaded.bound /\ rec.pad.seen_ids = loaded.seen_ids
    BY <2>5 DEF Reconciled, Besides
  <2>8. /\ PadOK(pad) /\ pad.bound = c /\ pad.seen_deliveries = M
        /\ pad.seen_ids = loaded.seen_ids
        /\ pad.snapshots = IF reseed THEN <<>> ELSE rec.pad.snapshots
    <3>1. PICK p : p = rec.pad
      OBVIOUS
    <3>2. c \in Nat /\ PadOK(p)
      BY <1>2, <1>9, <2>5, <3>1
    <3>3. PICK S : S = IF reseed THEN <<>> ELSE p.snapshots
      OBVIOUS
    <3>4. pad = Rebound(p, c, S)
      BY <1>10, <3>1, <3>3 DEF Rebound
    <3>5. /\ PadOK(pad) /\ pad.bound = c /\ pad.seen_deliveries = p.seen_deliveries
          /\ pad.seen_ids = p.seen_ids /\ pad.snapshots = S
      <4>1. S = <<>> \/ S = p.snapshots
        BY <3>3
      <4> QED BY <3>2, <3>4, <4>1, ReseededOK
    <3> QED BY <2>2, <2>7, <3>1, <3>3, <3>5
  <2>9. C \in SUBSET Items
    BY <1>11 DEF Present
  <2>10. t \in Diffed /\ DiffedTo(pad, suppress, C, Len(Order), t)
    BY <1>3, <1>12, <2>8, LengthOK, LoopSound
  <2>11. /\ PadOK(t.pad) /\ t.pad.seen_deliveries = M /\ t.pad.seen_ids = loaded.seen_ids
         /\ B \in Seq(Finding)
         /\ \A n \in DOMAIN B : ~SeenDelivery(pad, B[n])
         /\ \A m, n \in DOMAIN B : B[m][1] = B[n][1] => m = n
    BY <1>14, <2>8, <2>10 DEF Diffed, DiffedTo, Besides
  <2>12. /\ PadOK(left) /\ left.seen_deliveries = M /\ left.seen_ids = loaded.seen_ids
         /\ left.bound # 0 => left.snapshots = t.pad.snapshots
    <3>1. CASE amend
      BY <1>13, <2>11, <3>1, OrphanedOK
    <3>2. CASE ~amend
      BY <1>13, <2>11, <3>2
    <3> QED BY <3>1, <3>2
  <2>13. /\ PadOK(pending) /\ Extended(M, B, pending.seen_deliveries)
         /\ pending.bound = left.bound /\ pending.seen_ids = loaded.seen_ids
         /\ pending.snapshots = left.snapshots
    <3>1. \A n \in DOMAIN B : ~SeenDelivery(left, B[n])
      BY <2>8, <2>11, <2>12 DEF SeenDelivery, EntriesOf
    <3>2. \A m, n \in DOMAIN B : B[m] = B[n] => m = n
      BY <2>11
    <3> QED BY <1>15, <2>11, <2>12, <3>1, <3>2, PendingRecorded
  <2>14. PICK P : P = pending.seen_deliveries
    OBVIOUS
  <2>15. Extended(M, B, P) /\ DiskLedger' = P /\ Exists(disk')
    BY <2>1, <2>13, <2>14, DiskLedgerOf
  <2>31. EditOK' /\ (Loaded' => Loaded /\ edit' = edit)
    BY <1>3, <1>4, <2>1, <2>15, EditFrame
  \* The rows.
  <2>16. /\ runs' \in Seq(Row) /\ Len(runs') = Len(runs) /\ DOMAIN runs' = DOMAIN runs
         /\ \A r \in DOMAIN runs : PassedRow(M, runs[r], runs'[r])
    BY <1>3, <2>1, <2>2, RowsPassed
  <2>17. \A r \in DOMAIN runs : /\ runs'[r].ids = runs[r].ids /\ runs'[r].kind = runs[r].kind
                                /\ runs'[r].status = runs[r].status
    BY <2>16 DEF PassedRow
  <2>18. BoundRuns' = BoundRuns /\ Reported' = Reported
    <3>1. BoundRuns' = BoundRuns
      BY <2>16, <2>17 DEF BoundRuns
    <3>2. {runs'[r].ids : r \in DOMAIN runs' \ BoundRuns'}
          = {runs[r].ids : r \in DOMAIN runs \ BoundRuns}
      BY <2>16, <2>17, <3>1
    <3> QED BY <1>4, <3>1, <3>2 DEF Reported
  \* The poll afterwards.
  <2>19. \/ /\ tick'.at = "idle" /\ ~Working' /\ tick'.at \notin Bound /\ tick'.at \notin Legacy
         \/ /\ tick'.at = "dispatching" /\ Working' /\ tick'.at \in Bound
            /\ tick'.at \notin Legacy /\ ~At("firing")' /\ ~At("attaching")'
            /\ tick' = Tick("dispatching", tick.contract, tick.instruction, tick.first, pending, B)
    <3>1. CASE tick' = Idle
      BY <3>1 DEF Idle, Working, Bound, Legacy
    <3>2. CASE tick' = [tick EXCEPT !.at = "dispatching", !.pad = pending, !.batch = B]
      <4>1. tick' = Tick("dispatching", tick.contract, tick.instruction, tick.first, pending, B)
        BY <1>2, <3>2 DEF Tick
      <4>2. tick'.at = "dispatching"
        BY <4>1 DEF Tick
      <4> QED BY <4>1, <4>2 DEF Working, Bound, Legacy, At
    <3> QED BY <2>1, <3>1, <3>2
  <2>20. Working' \/ tick'.at \in Bound =>
            /\ tick'.at = "dispatching" /\ tick'.contract = tick.contract
            /\ tick'.instruction = tick.instruction /\ tick'.first = tick.first
            /\ tick'.pad = pending /\ tick'.batch = B
            /\ tick' = Tick(tick'.at, tick'.contract, tick'.instruction, tick'.first,
                            tick'.pad, tick'.batch)
            /\ ~At("firing")' /\ ~At("attaching")'
    BY <2>19 DEF Tick
  <2>21. TickOK'
    BY <1>1, <1>2, <1>4, <2>11, <2>13, <2>19, <2>20 DEF TickOK
  <2>22. HistoryKept(kept, t.pad.snapshots, B) \/ ~Roomy
    <3>1. SUFFICES ASSUME Roomy PROVE HistoryKept(kept, t.pad.snapshots, t.batch)
      BY <1>14
    <3>2. reseed \/ \A i \in history : Known(loaded, i)
      <4>1. SUFFICES ASSUME ~reseed PROVE \A i \in history : Known(loaded, i)
        OBVIOUS
      <4>2. loaded.bound # 0
        BY <1>1, <1>7, <2>7, <4>1
      <4> QED BY <1>2, <1>5, <3>1, <4>2 DEF KnowsHistory
    <3>3. reseed => suppress
      BY <1>8
    <3> QED BY <1>16, <1>18, <2>5, <2>8, <2>9, <2>10, <3>1, <3>2, <3>3, HistoryPassed
  <2>23. WatchTypeOK'
    <3>1. contract' \in 0 .. instruction'
      BY <1>3, <1>4, <2>1 DEF WatchTypeOK
    <3>2. kept \subseteq Items
      BY <1>3, <1>16, <2>9
    <3>3. forgot' \in BOOLEAN
      BY <2>1
    <3> QED BY <1>3, <1>4, <2>1, <2>13, <2>16, <2>21, <2>31, <3>1, <3>2, <3>3 DEF WatchTypeOK
  <2>24. SeenSound'
    BY <1>2, <1>3, <1>5, <2>1, <2>13, <2>18, <2>20, <2>31 DEF SeenSound
  <2>25. LedgerAgrees'
    BY <2>14, <2>15, <2>20, AgreeSelf DEF LedgerAgrees
  <2>26. LedgerSound'
    <3>1. ASSUME NEW k \in DOMAIN P
          PROVE  /\ P[k].run # 0 => P[k].run \in BoundRuns' /\ P[k].id \in runs'[P[k].run].ids
                 /\ P[k].status = "Confirmed" =>
                       /\ P[k].run = 0
                       /\ \E r \in BoundRuns' : runs'[r].status = "ended" /\ P[k].id \in runs'[r].ids
      <4>1. CASE k \in DOMAIN M
        <5>1. PICK b : b = M[k]
          OBVIOUS
        <5>2. PICK i \in DOMAIN L : Comes(L[i], b)
          BY <2>6, <4>1, <5>1 DEF Follows
        <5>3. PICK a : a = L[i]
          OBVIOUS
        <5>4. a \in LedgerEntry /\ EntrySound(a) /\ Comes(a, b)
          BY <2>4, <5>2, <5>3
        <5>5. a.status \in {"Pending", "Confirmed"}
              /\ a = [id |-> a.id, status |-> a.status, run |-> a.run, polls |-> a.polls]
          BY <5>4 DEF LedgerEntry
        <5>6. P[k] = b
          BY <2>15, <4>1, <5>1 DEF Extended
        <5> QED BY <1>3, <2>16, <2>17, <5>4, <5>5, <5>6, EntryPassed
      <4>2. CASE k \notin DOMAIN M
        <5>1. PICK n \in DOMAIN B : P[k] = Entry(B[n])
          BY <2>15, <4>2 DEF Extended
        <5>2. P[k].run = 0 /\ P[k].status = "Pending"
          BY <5>1 DEF Entry
        <5> QED BY <5>2
      <4> QED BY <4>1, <4>2
    <3>2. AllSound(P)'
      BY <3>1 DEF AllSound, EntrySound
    <3>3. \A e : EntrySound(e) => EntrySound(e)'
      BY <2>16, <2>17, <2>18 DEF EntrySound, BoundRuns
    <3>4. Loaded' => AllSound(edit.pad.seen_deliveries)'
      BY <1>3, <2>31, <3>3 DEF LedgerSound, AllSound
    <3>5. P' = P
      OBVIOUS
    <3> QED BY <2>14, <2>15, <2>20, <3>2, <3>4 DEF LedgerSound, AllSound
  \* Every row that is recent still, and no edit has touched, is traced.
  <2>27. ASSUME NEW r \in DOMAIN runs, Kept(runs'[r])
         PROVE  /\ Traced(P, r, runs'[r], forgot')
                /\ (runs'[r].status = "ended" => ~forgot') => runs'[r].ids \cap ToSet(B) = {}
    <3>1. PICK new : new = runs'[r]
      OBVIOUS
    <3>2. PICK was \in BOOLEAN : was = forgot
      BY <1>3
    <3>3. PICK lossy \in BOOLEAN : lossy = rec.forgets
      BY <2>5
    <3>4. PassedRow(M, runs[r], new) /\ Recent(new)
      BY <2>16, <2>27, <3>1 DEF Kept
    <3>5. Recent(runs[r]) /\ new.passes <= Threshold
      BY <1>3, <3>4, RecentBefore
    <3>6. Traced(L, r, runs[r], was)
      <4>1. runs[r].ids \cap undone = {}
        BY <2>17, <2>27 DEF Kept
      <4>2. Traced(DiskLedger, r, runs[r], was)
        BY <1>3, <3>2, <3>5, <4>1 DEF RunsTraced, Kept
      <4> QED BY <2>4, <4>1, <4>2, TracedAgreed
    <3>7. \A i \in DOMAIN L : EntrySound(L[i])
      BY <2>4
    <3>8. Traced(M, r, new, was \/ lossy)
      BY <1>3, <2>4, <2>6, <3>3, <3>4, <3>5, <3>6, <3>7, TracedPassed
    <3>9. PICK now : now = (was \/ lossy)
      OBVIOUS
    <3>10. forgot' = now /\ Traced(M, r, new, now)
      BY <2>1, <3>2, <3>3, <3>8, <3>9
    <3>11. CASE new.status = "ended" => ~now
      <4>1. Traced(P, r, new, now) /\ new.ids \cap ToSet(B) = {}
        BY <2>15, <3>10, <3>11, TracedExtended
      <4> QED BY <3>1, <3>10, <4>1
    <3>12. CASE new.status = "ended" /\ now
      <4>1. Traced(P, r, new, now)
        BY <3>12 DEF Traced
      <4> QED BY <3>1, <3>10, <3>12, <4>1
    <3> QED BY <3>11, <3>12
  <2>28. RunsTraced'
    BY <1>4, <2>15, <2>16, <2>27 DEF RunsTraced, Kept
  <2>29. BatchSound'
    <3>1. \A n \in DOMAIN B : \E k \in DOMAIN P : P[k].id = B[n] /\ Open(P[k]) /\ P[k].polls = 0
      BY <2>15 DEF Extended, Entry, Open
    <3> QED BY <1>4, <2>14, <2>16, <2>20, <2>27, <3>1, SMTT(30) DEF BatchSound, Kept
  <2>30. HistoryKnown'
    <3>1. SUFFICES ASSUME Roomy
                   PROVE  /\ KnowsHistory(pending)'
                          /\ \A n \in DOMAIN B : B[n][1] \notin kept
      BY <2>1, <2>20 DEF HistoryKnown, KnowsHistory, Roomy
    <3>2. /\ \A i \in kept : \E k \in DOMAIN t.pad.snapshots :
                t.pad.snapshots[k].item = i /\ t.pad.snapshots[k].matching
                /\ t.pad.snapshots[k].version = "on"
          /\ \A n \in DOMAIN B : B[n][1] \notin kept
      BY <2>22, <3>1 DEF HistoryKept
    <3>3. pending.bound # 0 => pending.snapshots = t.pad.snapshots
      BY <2>12, <2>13
    <3> QED BY <2>1, <3>2, <3>3 DEF KnowsHistory, Known
  <2> QED BY <2>23, <2>24, <2>25, <2>26, <2>28, <2>29, <2>30 DEF WatchInv
<1> QED BY <1>19, <1>20

-----------------------------------------------------------------------------
(* The invariant.                                                          *)

\* A watch that was just created satisfies the invariant.
LEMMA WatchBegins == ASSUME WatchAssumption, Init PROVE WatchInv
<1>1. /\ world \in [Items -> States] /\ instruction = 1 /\ contract \in {0, 1}
      /\ ~Exists(disk) /\ runs = <<>> /\ tick = Idle /\ history = {} /\ baseline = {}
      /\ forgot = FALSE /\ edit = NoEdit /\ undone = {} /\ changes = 0 /\ edits = 0 /\ crashes = 0
  BY DEF Init, WatchAssumption, Exists
<1>2. tick.at = "idle" /\ tick.at \notin Bound /\ tick.at \notin Legacy /\ ~Working
  BY <1>1 DEF Idle, Bound, Legacy, Working
<1>6. EditOK /\ ~Loaded
  BY <1>1 DEF EditOK, Loaded, NoEdit
<1>3. WatchTypeOK
  <2>1. instruction \in Nat \ {0} /\ contract \in 0 .. instruction /\ {changes, edits, crashes} \subseteq Nat
    BY <1>1
  <2>2. runs \in Seq(Row)
    BY <1>1
  <2>3. TickOK
    BY <1>2 DEF TickOK
  <2> QED BY <1>1, <1>6, <2>1, <2>2, <2>3 DEF WatchTypeOK
<1>4. DiskLedger = <<>> /\ DOMAIN DiskLedger = {} /\ DOMAIN runs = {}
  BY <1>1 DEF DiskLedger
<1>5. SeenSound /\ LedgerAgrees /\ LedgerSound /\ RunsTraced /\ BatchSound /\ HistoryKnown
  BY <1>1, <1>2, <1>4, <1>6 DEF SeenSound, LedgerAgrees, LedgerSound, AllSound, RunsTraced, BatchSound, HistoryKnown
<1> QED BY <1>3, <1>5 DEF WatchInv

\* Every step keeps the invariant.
LEMMA WatchStep == ASSUME WatchAssumption, WatchInv, [Next]_vars PROVE WatchInv'
<1>1. CASE StartPoll
  BY <1>1, StartPollKeeps
<1>2. CASE ObservationFails
  BY <1>2, ObservationFailsKeeps
<1>3. ASSUME NEW bad \in SUBSET (Malformed \cap Present), NEW fallback \in {FALSE, FallsBack},
             NEW amend \in {FALSE, bad # {}}, BoundPoll(bad, fallback, amend)
      PROVE  WatchInv'
  <2>1. fallback \in BOOLEAN /\ amend \in BOOLEAN
    BY DEF WatchAssumption
  <2> QED BY <1>3, <2>1, BoundPollKeeps
<1>4. ASSUME NEW binds \in BOOLEAN, LegacyPoll(binds) PROVE WatchInv'
  BY <1>4, LegacyPollKeeps
<1>5. CASE Dispatch
  BY <1>5, DispatchKeeps
<1>6. CASE DispatchFails
  BY <1>6, DispatchFailsKeeps
<1>7. CASE Attach
  BY <1>7, AttachKeeps
<1>8. CASE LegacyFire
  BY <1>8, LegacyFireKeeps
<1>9. CASE LegacyFireFails
  BY <1>9, LegacyFireFailsKeeps
<1>10. CASE LegacyCommit
  BY <1>10, LegacyCommitKeeps
<1>11. CASE Edit
  BY <1>11, EditBeginsKeeps, EditStoresKeeps, EditEndsKeeps DEF Edit
<1>12. CASE Crash
  BY <1>12, CrashKeeps
<1>13. ASSUME NEW i \in Items, NEW s \in States, Change(i, s) PROVE WatchInv'
  BY <1>13, ChangeKeeps
<1>14. ASSUME NEW r \in DOMAIN runs, TurnEnds(r) PROVE WatchInv'
  BY <1>14, TurnEndsKeeps
<1>15. CASE UNCHANGED vars
  <2>1. UNCHANGED <<world, instruction, contract, disk, edit, runs, tick, history, baseline,
                    forgot, undone, changes, edits, crashes>>
    BY <1>15 DEF vars
  <2>2. DiskLedger' = DiskLedger /\ Reported' = Reported /\ BoundRuns' = BoundRuns
    BY <2>1 DEF DiskLedger, Reported, BoundRuns
  <2>3. WatchTypeOK'
    BY <2>1 DEF WatchInv, WatchTypeOK, TickOK, EditOK, Loaded, Working
  <2>4. SeenSound' /\ LedgerAgrees'
    BY <2>1, <2>2 DEF WatchInv, SeenSound, Loaded, LedgerAgrees, Working, At
  <2>5. LedgerSound' /\ RunsTraced'
    BY <2>1, <2>2, AgreeSelf, LedgerFrame DEF WatchInv, LedgerSound, Working, Loaded
  <2>6. BatchSound'
    BY <2>1, <2>2 DEF WatchInv, BatchSound, Kept, At
  <2>7. HistoryKnown'
    BY <2>1 DEF WatchInv, HistoryKnown, KnowsHistory, Working
  <2> QED BY <2>3, <2>4, <2>5, <2>6, <2>7 DEF WatchInv
<1> QED BY <1>1, <1>2, <1>3, <1>4, <1>5, <1>6, <1>7, <1>8, <1>9, <1>10, <1>11, <1>12, <1>13,
           <1>14, <1>15 DEF Next, Poll, Observed

\* The invariant holds always, whatever the items, their changes, the edits, the
\* crashes and the answers of the agent: the poll of agent_watch.rs, and what happens
\* while it waits for the agent.
THEOREM WatchInvariance == Spec => []WatchInv
<1>1. Init => WatchInv
  BY WatchAssumption, WatchBegins
<1>2. WatchInv /\ [Next]_vars => WatchInv'
  BY WatchAssumption, WatchStep
<1> QED BY <1>1, <1>2, PTL DEF Spec

-----------------------------------------------------------------------------
(* What follows of it.                                                     *)

\* The ledger as a set.
LEMMA LedgerIs == Ledger = ToSet(DiskLedger)
BY DEF Ledger, DiskLedger, ToSet

\* The types follow.
LEMMA TypesHold == ASSUME WatchAssumption, WatchInv PROVE TypeOK
<1>1. WatchTypeOK /\ TickOK
  BY DEF WatchInv, WatchTypeOK
<1>2. contract <= instruction
  BY <1>1 DEF WatchTypeOK
<1>3. tick.at \in {"idle", "observing", "dispatching", "attaching", "firing", "committing", "panicked"}
  BY <1>1 DEF TickOK, Bound, Legacy
<1>4. ASSUME Exists(disk)
      PROVE  /\ IsInjective([k \in DOMAIN disk.seen_deliveries |-> disk.seen_deliveries[k].id])
             /\ Len(disk.snapshots) <= SnapshotCap /\ disk.streak <= Ceiling
  <2>1. PadOK(disk)
    BY <1>1, <1>4 DEF WatchTypeOK
  <2>2. disk.streak <= Ceiling
    BY <2>1 DEF PadOK, Pad, WatchAssumption
  <2>3. Unique(disk.seen_deliveries) /\ Len(disk.snapshots) <= SnapshotCap
    BY <2>1 DEF PadOK
  <2>4. IsInjective([k \in DOMAIN disk.seen_deliveries |-> disk.seen_deliveries[k].id])
    BY <2>3 DEF Unique, IsInjective
  <2> QED BY <2>2, <2>3, <2>4
<1> QED BY <1>1, <1>2, <1>3, <1>4 DEF TypeOK, WatchTypeOK

\* A queued run that is recent awaits its findings.
LEMMA TraceHolds == ASSUME WatchInv PROVE DispatchIsTraced
<1>1. SUFFICES ASSUME NEW r \in BoundRuns, runs[r].status = "queued", runs[r].passes <= Threshold,
                      runs[r].ids \cap undone = {}, NEW id \in runs[r].ids
               PROVE  \E e \in Ledger : e.id = id
  BY DEF DispatchIsTraced
<1>2. r \in DOMAIN runs /\ Kept(runs[r])
  BY <1>1 DEF BoundRuns, Kept, Recent
<1>3. Awaits(DiskLedger, r, runs[r])
  BY <1>1, <1>2 DEF WatchInv, RunsTraced, Traced
<1>4. PICK k \in DOMAIN DiskLedger : DiskLedger[k].id = id
  BY <1>3 DEF Awaits
<1> QED BY <1>4, LedgerIs DEF ToSet

\* A Confirmed entry is sound.
LEMMA ConfirmedHolds == ASSUME WatchInv PROVE ConfirmedHasEnded
<1>1. SUFFICES ASSUME NEW e \in Ledger, e.status = "Confirmed"
               PROVE  \E r \in BoundRuns : runs[r].status = "ended" /\ e.id \in runs[r].ids
  BY DEF ConfirmedHasEnded
<1>2. PICK k \in DOMAIN DiskLedger : DiskLedger[k] = e
  BY LedgerIs DEF ToSet
<1>3. EntrySound(e)
  BY <1>2 DEF WatchInv, LedgerSound, AllSound
<1> QED BY <1>1, <1>3 DEF EntrySound

\* What is seen was reported.
LEMMA SeenHolds == ASSUME WatchInv PROVE SeenWasReported
BY SMTT(30) DEF WatchInv, SeenSound, Reported, SeenWasReported

\* Only the dispatch of findings and that of contents add a row.
LEMMA WhoDispatches ==
    ASSUME WatchInv, WatchInv', [Next]_vars, Dispatched PROVE Dispatch \/ LegacyFire
<1>1. SUFFICES ASSUME ~Dispatch, ~LegacyFire PROVE DOMAIN runs' = DOMAIN runs
  <2>1. runs \in Seq(Row) /\ runs' \in Seq(Row)
    BY DEF WatchInv, WatchTypeOK
  <2>2. DOMAIN runs = 1 .. Len(runs) /\ DOMAIN runs' = 1 .. Len(runs')
        /\ Len(runs) \in Nat /\ Len(runs') \in Nat
    BY <2>1, SMTT(30)
  <2>3. Len(runs') \in DOMAIN runs' /\ Len(runs') \notin DOMAIN runs
    <3>1. \A a, b \in Nat : b > a => b \in 1 .. b /\ b \notin 1 .. a
      OBVIOUS
    <3>2. Len(runs') > Len(runs)
      BY DEF Dispatched
    <3> QED BY <2>2, <3>1, <3>2
  <2> QED BY <2>3
<1>2. CASE \E bad \in SUBSET (Malformed \cap Present), fallback \in {FALSE, FallsBack} :
              \E amend \in {FALSE, bad # {}} : BoundPoll(bad, fallback, amend)
  BY <1>2 DEF BoundPoll, Passed
<1>3. CASE runs' = runs
  BY <1>3
<1>4. CASE Crash
  BY <1>4 DEF Crash
<1>5. CASE \E r \in DOMAIN runs : TurnEnds(r)
  BY <1>5 DEF TurnEnds
<1> QED BY <1>1, <1>2, <1>3, <1>4, <1>5
        DEF Next, Poll, Observed, vars, StartPoll, ObservationFails, LegacyPoll, DispatchFails,
            Attach, LegacyFireFails, LegacyCommit, Edit, EditKeeps, EditClears, EditLoads,
            EditBegins, EditStores, EditEnds, Change

\* What is dispatched of findings.
LEMMA FindingsDispatched ==
    ASSUME WatchInv, WatchInv', [Next]_vars, Dispatched, NewRun.kind = "bound"
    PROVE  /\ tick.at = "dispatching" /\ tick.at \in Bound /\ ~At("attaching")
           /\ NewRun.ids = ToSet(tick.batch)
<1>1. runs \in Seq(Row)
  BY DEF WatchInv, WatchTypeOK
<1>2. ~LegacyFire
  <2>1. SUFFICES ASSUME LegacyFire PROVE FALSE
    OBVIOUS
  <2>2. NewRun = Run(tick.batch, "legacy")
    BY <1>1, <2>1 DEF LegacyFire, NewRun
  <2> QED BY <2>2 DEF Run
<1>3. Dispatch
  BY <1>2, WhoDispatches
<1>4. NewRun = Run(ToSet(tick.batch), "bound")
  BY <1>1, <1>3 DEF Dispatch, NewRun
<1> QED BY <1>3, <1>4 DEF Dispatch, At, Bound, Run

\* One entry per finding, no more snapshots than SNAPSHOT_CAP and a streak that stops at
\* AUTHORING_FAILURE_CEILING: record_pending_action, record_snapshot and the authoring
\* pass keep the scratchpad well-formed.
THEOREM WatchTypes == Spec => []TypeOK
<1>1. WatchInv => TypeOK
  BY WatchAssumption, TypesHold
<1> QED BY <1>1, WatchInvariance, PTL

\* A queued run that at most Threshold polls have seen has all its findings in the ledger
\* on disk: record_pending_action is saved before fire_assignment, and neither the
\* pass nor a crash takes the entry away before its time.  The exception is stated:
\* patch_assignment reads the scratchpad and writes it back without a lock, and the
\* findings whose entries it puts back that way are in undone.
THEOREM DispatchesTraced == Spec => []DispatchIsTraced
<1> QED BY TraceHolds, WatchInvariance, PTL

\* Confirmed means that a run about the finding ended: reconcile_pending_deliveries
\* confirms on the terminal row of the run that attach_dispatch_run named.
THEOREM ConfirmedEnded == Spec => []ConfirmedHasEnded
<1> QED BY ConfirmedHolds, WatchInvariance, PTL

\* What run_legacy_seen_ids_tick takes for seen was in a baseline or was fired: it
\* saves seen_ids after the firing and never when the firing failed.
THEOREM SeenReported == Spec => []SeenWasReported
<1> QED BY SeenHolds, WatchInvariance, PTL

\* run_contract_bound_tick dispatches a finding again only when the run before has not
\* ended for more than Threshold polls, when reconcile_pending_deliveries has removed a
\* Confirmed entry by an index that had moved, or when patch_assignment has written back
\* a ledger loaded before an entry of the run was written.
THEOREM RepeatsLate == Spec => RepeatsAreLate
<1>1. ASSUME WatchInv, WatchInv', [Next]_vars
      PROVE  [ Dispatched /\ NewRun.kind = "bound"
               => \A r \in BoundRuns : runs[r].ids \cap NewRun.ids # {} =>
                     \/ runs[r].passes > Threshold \/ (forgot /\ runs[r].status = "ended")
                     \/ runs[r].ids \cap undone # {} ]_vars
  <2>1. SUFFICES ASSUME Dispatched, NewRun.kind = "bound", NEW r \in BoundRuns,
                        runs[r].ids \cap NewRun.ids # {}
                 PROVE  \/ runs[r].passes > Threshold \/ (forgot /\ runs[r].status = "ended")
                        \/ runs[r].ids \cap undone # {}
    OBVIOUS
  <2>2. tick.at \in Bound /\ ~At("attaching") /\ NewRun.ids = ToSet(tick.batch)
    BY <1>1, <2>1, FindingsDispatched
  <2>3. r \in DOMAIN runs /\ runs[r].kind = "bound"
    BY DEF BoundRuns
  <2>4. ~(Kept(runs[r]) /\ (runs[r].status = "ended" => ~forgot))
    BY <1>1, <2>1, <2>2, <2>3 DEF WatchInv, BatchSound
  <2>5. runs[r].passes \in Nat /\ Threshold \in Nat
    <3>1. runs \in Seq(Row)
      BY <1>1 DEF WatchInv, WatchTypeOK
    <3>2. runs[r] \in Row
      BY <2>3, <3>1
    <3> QED BY <3>2, WatchAssumption, RowParts DEF WatchAssumption
  <2> QED BY <2>3, <2>4, <2>5 DEF Kept, Recent
<1> QED BY <1>1, WatchInvariance, PTL DEF Spec, RepeatsAreLate

\* When the snapshots of all the items fit in SNAPSHOT_CAP, run_contract_bound_tick
\* never reports an item that matched when the contract was bound and has matched ever
\* since: reseeding is silent, and later polls know the item by its snapshot.
THEOREM HistoryQuiet == ASSUME Roomy PROVE Spec => HistoryNeverFires
<1>1. ASSUME WatchInv, WatchInv', [Next]_vars
      PROVE  [ Dispatched /\ NewRun.kind = "bound"
               => \A id \in NewRun.ids : id[1] \notin history ]_vars
  <2>1. SUFFICES ASSUME Dispatched, NewRun.kind = "bound", NEW id \in NewRun.ids
                 PROVE  id[1] \notin history
    OBVIOUS
  <2>2. tick.at \in Bound /\ NewRun.ids = ToSet(tick.batch)
    BY <1>1, <2>1, FindingsDispatched
  <2>3. PICK n \in DOMAIN tick.batch : tick.batch[n] = id
    BY <2>2 DEF ToSet
  <2> QED BY <1>1, <2>2, <2>3 DEF WatchInv, HistoryKnown
<1> QED BY <1>1, WatchInvariance, PTL DEF Spec, HistoryNeverFires
=============================================================================
