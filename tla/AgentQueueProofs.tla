-------------------------- MODULE AgentQueueProofs --------------------------
(***************************************************************************)
(* The queue manager of AgentQueue keeps runs of one thread apart and its   *)
(* runs within the cap, and no row of an assignment lies about its run, for *)
(* any messages, threads, kinds, profile and deaths of runs.                *)
(***************************************************************************)
EXTENDS AgentQueueInvariant, FiniteSetTheorems, SequenceTheorems, TLAPS

-----------------------------------------------------------------------------
(* Facts about the data.                                                   *)

\* Removing one element keeps the others, each once.
LEMMA Removed ==
    ASSUME NEW S, NEW s \in Seq(S), NEW i \in DOMAIN s
    PROVE  /\ RemoveAt(s, i) \in Seq(S)
           /\ DOMAIN RemoveAt(s, i) = 1 .. (Len(s) - 1)
           /\ \A j \in 1 .. (Len(s) - 1) :
                 RemoveAt(s, i)[j] = IF j < i THEN s[j] ELSE s[j + 1]
<1> DEFINE a == SubSeq(s, 1, i - 1)
           b == SubSeq(s, i + 1, Len(s))
<1>1. i \in 1 .. Len(s) /\ Len(s) \in Nat
  OBVIOUS
<1>2. a \in Seq(S) /\ Len(a) = i - 1 /\ \A j \in 1 .. (i - 1) : a[j] = s[j]
  <2>1. \A j \in 1 .. (i - 1) : s[j] \in S
    BY <1>1
  <2> QED BY <1>1, <2>1, SubSeqProperties
<1>3. b \in Seq(S) /\ Len(b) = Len(s) - i /\ \A j \in 1 .. (Len(s) - i) : b[j] = s[i + j]
  <2>1. \A j \in (i + 1) .. Len(s) : s[j] \in S
    BY <1>1
  <2> QED BY <1>1, <2>1, SubSeqProperties
<1>4. /\ a \o b \in Seq(S) /\ Len(a \o b) = Len(a) + Len(b)
      /\ \A j \in 1 .. (Len(a) + Len(b)) :
            (a \o b)[j] = IF j <= Len(a) THEN a[j] ELSE b[j - Len(a)]
  BY <1>2, <1>3, ConcatProperties
<1> HIDE DEF a, b
<1>5. RemoveAt(s, i) = a \o b
  BY DEF RemoveAt, a, b
<1>6. RemoveAt(s, i) \in Seq(S) /\ Len(RemoveAt(s, i)) = Len(s) - 1
  BY <1>1, <1>2, <1>3, <1>4, <1>5, SMTT(30)
<1>7. ASSUME NEW j \in 1 .. (Len(s) - 1)
      PROVE  RemoveAt(s, i)[j] = IF j < i THEN s[j] ELSE s[j + 1]
  <2>1. CASE j < i
    BY <1>1, <1>2, <1>3, <1>4, <1>5, <2>1, SMTT(30)
  <2>2. CASE i <= j
    <3>0. j \in 1 .. (Len(a) + Len(b)) /\ ~(j <= Len(a)) /\ j - Len(a) = j - (i - 1)
      BY <1>1, <1>2, <1>3, <2>2
    <3>1. (a \o b)[j] = b[j - (i - 1)]
      BY <1>4, <3>0
    <3>2. j - (i - 1) \in 1 .. (Len(s) - i) /\ i + (j - (i - 1)) = j + 1
      BY <1>1, <2>2
    <3>3. b[j - (i - 1)] = s[j + 1]
      BY <1>3, <3>2
    <3> QED BY <1>1, <1>5, <2>2, <3>1, <3>3
  <2> QED BY <1>1, <2>1, <2>2
<1> QED BY <1>6, <1>7

\* The runs that the queue has booked are finitely many.
LEMMA OwnFinite ==
    ASSUME NEW R
    PROVE  /\ IsFiniteSet(R \cap Message)
           /\ Cardinality(R \cap Message) \in Nat
<1>1. IsFiniteSet(R \cap Message)
  BY QueueAssumptions, FS_Subset, R \cap Message \subseteq Message
<1> QED BY <1>1, FS_CardinalityType

\* Unregistering a run does not raise their number.
LEMMA OwnShrinks ==
    ASSUME NEW R, NEW Q, Q \cap Message \subseteq R \cap Message
    PROVE  Cardinality(Q \cap Message) <= Cardinality(R \cap Message)
BY OwnFinite, FS_Subset

\* Registering one raises it by at most one.
LEMMA OwnGrows ==
    ASSUME NEW R, NEW m \in Message
    PROVE  Cardinality((R \cup {m}) \cap Message) <= Cardinality(R \cap Message) + 1
<1>1. (R \cup {m}) \cap Message = (R \cap Message) \cup {m}
  OBVIOUS
<1>2. Cardinality((R \cap Message) \cup {m}) =
         IF m \in R \cap Message THEN Cardinality(R \cap Message)
         ELSE Cardinality(R \cap Message) + 1
  BY OwnFinite, FS_AddElement
<1> QED BY <1>1, <1>2, OwnFinite

-----------------------------------------------------------------------------
(* One step of each action.                                                *)

\* A row is appended for a message that has not been sent.
LEMMA FireKeeps ==
    ASSUME QueueInv, NEW m \in Message, Fire(m)
    PROVE  QueueInv'
<1> USE DEF QueueInv
<1>1. TypeOK'
  BY DEF TypeOK, Stage, RowStatus, Kind, Fire, actor, env, locks, reports
<1>2. Waiting'
  BY DEF Waiting, Injective, TypeOK, Booking, Reported, Closing, Fire
<1>3. Booking'
  BY DEF Booking, TypeOK, Waiting, Fire, actor
<1>4. Held'
  BY DEF Held, Booked, Own, Started, IsInteractive, TypeOK, Booking, Waiting,
     Reported, Closing, Fire, actor, env, locks
<1>5. Reported'
  BY DEF Reported, TypeOK, Booking, Waiting, Fire, reports
<1>6. Closing'
  BY DEF Closing, TypeOK, Reported, Booking, Waiting, Fire, actor, reports
<1>7. Copies'
  BY DEF Copies, True, TypeOK, Closing, Booking, Waiting, Fire, actor, reports
<1>8. Room'
  BY DEF Room, Own, Fire, actor, env
<1>9. ThreadExclusive'
  BY DEF ThreadExclusive, Live, IsRecurring, IsInteractive, TypeOK, Booking,
     Held, Waiting, Booked, Fire
<1>10. CapKept'
  BY DEF CapKept, Own, TypeOK, Held, Booked, Booking, Fire, env
<1> QED BY <1>1, <1>2, <1>3, <1>4, <1>5, <1>6, <1>7, <1>8, <1>9, <1>10

\* The message enters the channel from outside, and is nowhere else.
LEMMA SubmitKeeps ==
    ASSUME QueueInv, NEW m \in Message, Submit(m)
    PROVE  QueueInv'
<1> USE DEF QueueInv
<1>1. TypeOK'
  BY DEF TypeOK, Stage, RowStatus, Kind, Submit, actor, env, locks, reports,
     disk
<1>2. Waiting'
  BY DEF Waiting, Injective, TypeOK, Booking, Reported, Closing, Submit
<1>3. Booking'
  BY DEF Booking, TypeOK, Waiting, Submit, actor
<1>4. Held'
  BY DEF Held, Booked, Own, Started, IsInteractive, TypeOK, Booking, Waiting,
     Reported, Closing, Submit, actor, env, locks
<1>5. Reported'
  BY DEF Reported, TypeOK, Booking, Waiting, Submit, reports
<1>6. Closing'
  BY DEF Closing, TypeOK, Reported, Booking, Waiting, Submit, actor, reports
<1>7. Copies'
  BY DEF Copies, True, TypeOK, Closing, Booking, Waiting, Submit, actor,
     reports, disk
<1>8. Room'
  BY DEF Room, Own, Submit, actor, env
<1>9. ThreadExclusive'
  BY DEF ThreadExclusive, Live, IsRecurring, IsInteractive, TypeOK, Booking,
     Held, Waiting, Booked, Submit
<1>10. CapKept'
  BY DEF CapKept, Own, TypeOK, Held, Booked, Booking, Submit, env
<1> QED BY <1>1, <1>2, <1>3, <1>4, <1>5, <1>6, <1>7, <1>8, <1>9, <1>10

\* The search found room and a free thread, or a recurring schedule.
LEMMA DispatchKeeps ==
    ASSUME QueueInv, Dispatch
    PROVE  QueueInv'
<1> USE DEF QueueInv
<1> PICK i \in Candidates :
          /\ queue' = RemoveAt(queue, i) /\ current' = queue[i]
          /\ stage' = [stage EXCEPT ![queue[i]] = "booking"]
  BY DEF Dispatch
<1> DEFINE m == queue[i]
<1>a. /\ i \in DOMAIN queue /\ m \in Message /\ stage[m] = "queued"
      /\ IsRecurring(m) \/ Free(m)
  BY DEF Candidates, FreeAt, RecurringAt, TypeOK, Waiting
<1>b. /\ RemoveAt(queue, i) \in Seq(Message)
      /\ DOMAIN queue' = 1 .. (Len(queue) - 1)
      /\ \A j \in DOMAIN queue' : queue'[j] = IF j < i THEN queue[j] ELSE queue[j + 1]
  BY <1>a, Removed DEF TypeOK
<1>c. pc = "pump" /\ pc' = "book" /\ CanSpawn
  BY DEF Dispatch, CanDispatch
<1>d. UNCHANGED <<chan, seen, registry, hasTasklist, interactiveRuns, threadLocks,
                  inFlight, complete, reported, rows, watched>>
  BY DEF Dispatch, env, locks, reports, disk
<1>1. TypeOK'
  BY <1>a, <1>b, <1>c, <1>d DEF TypeOK, Stage
<1>2. Waiting'
  <2>1. ASSUME NEW j \in DOMAIN queue'
        PROVE  \E k \in DOMAIN queue : k # i /\ queue'[j] = queue[k]
                                        /\ k = IF j < i THEN j ELSE j + 1
    <3>1. Len(queue) \in Nat /\ DOMAIN queue = 1 .. Len(queue)
      BY DEF TypeOK
    <3>2. j < i => j \in DOMAIN queue
      BY <1>a, <1>b, <3>1
    <3>3. ~(j < i) => j + 1 \in DOMAIN queue /\ j + 1 # i
      BY <1>a, <1>b, <3>1
    <3> QED BY <1>b, <3>2, <3>3
  <2>2. Injective(queue')
    <3> SUFFICES ASSUME NEW j \in DOMAIN queue', NEW l \in DOMAIN queue',
                        queue'[j] = queue'[l]
                 PROVE  j = l
      BY DEF Injective
    <3>1. PICK k \in DOMAIN queue : queue'[j] = queue[k] /\ k = IF j < i THEN j ELSE j + 1
      BY <2>1
    <3>2. PICK n \in DOMAIN queue : queue'[l] = queue[n] /\ n = IF l < i THEN l ELSE l + 1
      BY <2>1
    <3>3. k = n
      BY <3>1, <3>2 DEF Waiting, Injective
    <3> QED BY <1>a, <1>b, <3>1, <3>2, <3>3 DEF TypeOK
  <2>3. \A j \in DOMAIN queue' : stage'[queue'[j]] = "queued"
    BY <1>a, <2>1 DEF TypeOK, Waiting, Injective
  <2> QED BY <1>a, <1>d, <2>2, <2>3 DEF TypeOK, Waiting, Injective
<1>3. Booking'
  BY <1>a, <1>c DEF TypeOK, Booking
<1>4. Held'
  BY <1>a, <1>c, <1>d DEF TypeOK, Held, Booked, Booking, Own, Started
<1>5. Reported'
  BY <1>a, <1>d DEF TypeOK, Reported
<1>6. Closing'
  BY <1>c DEF Closing
<1>7. Copies'
  BY <1>a, <1>d DEF TypeOK, Copies, True
<1>8. Room'
  <2>1. Cardinality(Own) < IF MaxInstances < 2 THEN 2 ELSE MaxInstances
    <3>1. Cardinality(registry) \in Nat /\ Cardinality(Own) <= Cardinality(registry)
      <4>1. IsFiniteSet(registry)
        BY QueueAssumptions, FS_Union, FS_Subset DEF TypeOK
      <4> QED BY <4>1, FS_Subset, FS_CardinalityType DEF Own
    <3>2. Cardinality(registry) < EffectiveCap
      BY <1>c DEF CanSpawn
    <3>3. Cardinality(Own) \in Nat
      BY OwnFinite DEF Own
    <3> QED BY <3>1, <3>2, <3>3, QueueAssumptions DEF EffectiveCap
  <2> QED BY <2>1, <1>d DEF Room, Own
<1>9. ThreadExclusive'
  <2> SUFFICES ASSUME NEW k \in Live', NEW n \in Live', k # n,
                      ThreadOf[k] = ThreadOf[n], ~IsRecurring(k), ~IsRecurring(n)
               PROVE  IsInteractive(k) /\ IsInteractive(n) /\ ~Serialize
    BY DEF ThreadExclusive
  <2>1. Live' = Live \cup {m}
    BY <1>a DEF TypeOK, Live
  <2>2. \A l \in Live : IF IsInteractive(l) THEN l \in interactiveRuns
                                           ELSE l \in threadLocks
    BY <1>c DEF Live, Held, Booked, Booking
  <2>3. ASSUME NEW l \in Live, ThreadOf[l] = ThreadOf[m], ~IsRecurring(m)
        PROVE  IsInteractive(l) /\ IsInteractive(m) /\ ~Serialize
    BY <1>a, <2>2, <2>3 DEF Free, Holds
  <2> QED BY <2>1, <2>3 DEF ThreadExclusive
<1>10. CapKept'
  BY <1>a, <1>d DEF TypeOK, CapKept, Own
<1> QED BY <1>1, <1>2, <1>3, <1>4, <1>5, <1>6, <1>7, <1>8, <1>9, <1>10

\* The actor goes back to its select.
LEMMA PumpEndsKeeps ==
    ASSUME QueueInv, PumpEnds
    PROVE  QueueInv'
<1> USE DEF QueueInv
<1>1. TypeOK'
  BY DEF TypeOK, Stage, RowStatus, Kind, PumpEnds, env, locks, reports, disk
<1>2. Waiting'
  BY DEF Waiting, Injective, PumpEnds
<1>3. Booking'
  BY DEF Booking, TypeOK, Waiting, PumpEnds
<1>4. Held'
  BY DEF Held, Booked, Own, Started, IsInteractive, TypeOK, Booking, Waiting,
     Reported, Closing, PumpEnds, env, locks
<1>5. Reported'
  BY DEF Reported, PumpEnds, reports
<1>6. Closing'
  BY DEF Closing, TypeOK, Reported, Booking, Waiting, PumpEnds, reports
<1>7. Copies'
  BY DEF Copies, True, PumpEnds, reports, disk
<1>8. Room'
  BY DEF Room, Own, TypeOK, PumpEnds, env
<1>9. ThreadExclusive'
  BY DEF ThreadExclusive, Live, IsRecurring, IsInteractive, PumpEnds
<1>10. CapKept'
  BY DEF CapKept, Own, PumpEnds, env
<1> QED BY <1>1, <1>2, <1>3, <1>4, <1>5, <1>6, <1>7, <1>8, <1>9, <1>10

\* What the search found is still so: nothing of the queue was booked since.
LEMMA BookKeeps ==
    ASSUME QueueInv, Book
    PROVE  QueueInv'
<1> USE DEF QueueInv
<1>1. TypeOK'
  BY DEF TypeOK, Stage, RowStatus, Kind, Book, reports, disk
<1>2. Waiting'
  BY DEF Waiting, Injective, Book
<1>3. Booking'
  BY DEF Booking, TypeOK, Waiting, Book
<1>4. Held'
  BY DEF Held, Booked, Own, Started, IsInteractive, TypeOK, Booking, Waiting,
     Reported, Closing, Book
<1>5. Reported'
  BY DEF Reported, Book, reports
<1>6. Closing'
  BY DEF Closing, TypeOK, Reported, Booking, Waiting, Book, reports
<1>7. Copies'
  BY DEF Copies, True, Book, reports, disk
<1>8. Room'
  BY DEF Room, Own, TypeOK, Book
<1>9. ThreadExclusive'
  BY DEF ThreadExclusive, Live, IsRecurring, IsInteractive, Book
<1>10. CapKept'
  <2>1. Cardinality(Own') <= Cardinality(Own) + 1
    BY OwnGrows DEF TypeOK, Book, Own
  <2>2. Cardinality(Own) \in Nat /\ Cardinality(Own') \in Nat
    BY OwnFinite DEF Own
  <2>3. Cardinality(Own') <= IF MaxInstances < 2 THEN 2 ELSE MaxInstances
    BY <2>1, <2>2, QueueAssumptions DEF Room, Book
  <2> QED BY <2>3 DEF CapKept, Book, Own
<1> QED BY <1>1, <1>2, <1>3, <1>4, <1>5, <1>6, <1>7, <1>8, <1>9, <1>10

\* The copy is what the file says.
LEMMA MarkReadKeeps ==
    ASSUME QueueInv, MarkRead
    PROVE  QueueInv'
<1> USE DEF QueueInv
<1>1. TypeOK'
  BY DEF TypeOK, Stage, RowStatus, Kind, MarkRead, env, locks, reports, disk,
     File, SameFile
<1>2. Waiting'
  BY DEF Waiting, Injective, MarkRead
<1>3. Booking'
  BY DEF Booking, TypeOK, Waiting, MarkRead
<1>4. Held'
  BY DEF Held, Booked, Own, Started, IsInteractive, TypeOK, Booking, Waiting,
     Reported, Closing, MarkRead, env, locks
<1>5. Reported'
  BY DEF Reported, MarkRead, reports
<1>6. Closing'
  BY DEF Closing, TypeOK, Reported, Booking, Waiting, MarkRead, reports
<1>7. Copies'
  BY DEF Copies, True, TypeOK, Closing, Booking, Waiting, MarkRead, reports,
     disk, File, SameFile
<1>8. Room'
  BY DEF Room, Own, TypeOK, MarkRead, env
<1>9. ThreadExclusive'
  BY DEF ThreadExclusive, Live, IsRecurring, IsInteractive, MarkRead
<1>10. CapKept'
  BY DEF CapKept, Own, MarkRead, env
<1> QED BY <1>1, <1>2, <1>3, <1>4, <1>5, <1>6, <1>7, <1>8, <1>9, <1>10

\* Running claims nothing about the end of a run.
LEMMA MarkWriteKeeps ==
    ASSUME QueueInv, MarkWrite
    PROVE  QueueInv'
<1> USE DEF QueueInv
<1>1. TypeOK'
  BY DEF TypeOK, Stage, RowStatus, Kind, MarkWrite, env, locks, reports,
     Updated, SameFile
<1>2. Waiting'
  BY DEF Waiting, Injective, MarkWrite
<1>3. Booking'
  BY DEF Booking, TypeOK, Waiting, MarkWrite
<1>4. Held'
  BY DEF Held, Booked, Own, Started, IsInteractive, TypeOK, Booking, Waiting,
     Reported, Closing, MarkWrite, env, locks
<1>5. Reported'
  BY DEF Reported, MarkWrite, reports
<1>6. Closing'
  BY DEF Closing, TypeOK, Reported, Booking, Waiting, MarkWrite, reports
<1>7. Copies'
  BY DEF Copies, True, TypeOK, Closing, Booking, Waiting, MarkWrite, reports,
     Updated, SameFile
<1>8. Room'
  BY DEF Room, Own, TypeOK, MarkWrite, env
<1>9. ThreadExclusive'
  BY DEF ThreadExclusive, Live, IsRecurring, IsInteractive, MarkWrite
<1>10. CapKept'
  BY DEF CapKept, Own, MarkWrite, env
<1> QED BY <1>1, <1>2, <1>3, <1>4, <1>5, <1>6, <1>7, <1>8, <1>9, <1>10

\* What was booked is now alive.
LEMMA SpawnKeeps ==
    ASSUME QueueInv, Spawn
    PROVE  QueueInv'
<1> USE DEF QueueInv
<1>1. TypeOK'
  BY DEF TypeOK, Stage, RowStatus, Kind, Spawn, env, locks, reports, disk
<1>2. Waiting'
  BY DEF Waiting, Injective, TypeOK, Booking, Reported, Closing, Spawn
<1>3. Booking'
  BY DEF Booking, TypeOK, Waiting, Spawn
<1>4. Held'
  BY DEF Held, Booked, Own, Started, IsInteractive, TypeOK, Booking, Waiting,
     Reported, Closing, Spawn, env, locks
<1>5. Reported'
  BY DEF Reported, TypeOK, Booking, Waiting, Spawn, reports
<1>6. Closing'
  BY DEF Closing, TypeOK, Reported, Booking, Waiting, Spawn, reports
<1>7. Copies'
  BY DEF Copies, True, TypeOK, Closing, Booking, Waiting, Spawn, reports, disk
<1>8. Room'
  BY DEF Room, Own, TypeOK, Spawn, env
<1>9. ThreadExclusive'
  BY DEF ThreadExclusive, Live, IsRecurring, IsInteractive, TypeOK, Booking,
     Held, Waiting, Booked, Spawn
<1>10. CapKept'
  BY DEF CapKept, Own, TypeOK, Held, Booked, Booking, Spawn, env
<1> QED BY <1>1, <1>2, <1>3, <1>4, <1>5, <1>6, <1>7, <1>8, <1>9, <1>10

\* The message goes from the channel to the queue.
LEMMA ReceiveKeeps ==
    ASSUME QueueInv, Receive
    PROVE  QueueInv'
<1> USE DEF QueueInv
<1>1. TypeOK'
  BY DEF TypeOK, Stage, RowStatus, Kind, Receive, env, locks, reports, disk
<1>2. Waiting'
  <2> DEFINE m == Head(chan)
  <2>1. /\ 1 \in DOMAIN chan /\ m = chan[1] /\ m \in Message /\ stage[m] = "sent"
        /\ chan' = Tail(chan) /\ queue' = Append(queue, m)
        /\ stage' = [stage EXCEPT ![m] = "queued"]
    BY DEF Receive, TypeOK, Waiting
  <2>2. \A i \in DOMAIN chan' : i + 1 \in DOMAIN chan /\ chan'[i] = chan[i + 1] /\ i + 1 # 1
    BY <2>1 DEF TypeOK
  <2>3. Injective(chan') /\ \A i \in DOMAIN chan' : stage'[chan'[i]] = "sent"
    BY <2>1, <2>2 DEF TypeOK, Waiting, Injective
  <2>4. /\ DOMAIN queue' = DOMAIN queue \cup {Len(queue) + 1}
        /\ queue'[Len(queue) + 1] = m
        /\ \A i \in DOMAIN queue : queue'[i] = queue[i]
    BY <2>1 DEF TypeOK
  <2>5. \A i \in DOMAIN queue : queue[i] # m /\ queue[i] \in Message
    BY <2>1 DEF TypeOK, Waiting
  <2>6. Injective(queue')
    BY <2>1, <2>4, <2>5 DEF Waiting, Injective
  <2>7. \A i \in DOMAIN queue' : stage'[queue'[i]] = "queued"
    BY <2>1, <2>4, <2>5 DEF TypeOK, Waiting
  <2> QED BY <2>3, <2>6, <2>7 DEF Waiting
<1>3. Booking'
  BY DEF Booking, TypeOK, Waiting, Receive
<1>4. Held'
  BY DEF Held, Booked, Own, Started, IsInteractive, TypeOK, Booking, Waiting,
     Reported, Closing, Receive, env, locks
<1>5. Reported'
  BY DEF Reported, TypeOK, Booking, Waiting, Receive, reports
<1>6. Closing'
  BY DEF Closing, TypeOK, Reported, Booking, Waiting, Receive, reports
<1>7. Copies'
  BY DEF Copies, True, TypeOK, Closing, Booking, Waiting, Receive, reports, disk
<1>8. Room'
  BY DEF Room, Own, TypeOK, Receive, env
<1>9. ThreadExclusive'
  BY DEF ThreadExclusive, Live, IsRecurring, IsInteractive, TypeOK, Booking,
     Held, Waiting, Booked, Receive
<1>10. CapKept'
  BY DEF CapKept, Own, TypeOK, Held, Booked, Booking, Receive, env
<1> QED BY <1>1, <1>2, <1>3, <1>4, <1>5, <1>6, <1>7, <1>8, <1>9, <1>10

\* Only what a run that ended held is cleared.
LEMMA RunCompletedKeeps ==
    ASSUME QueueInv, RunCompleted
    PROVE  QueueInv'
<1> USE DEF QueueInv
<1> DEFINE m == complete[1].run
<1>a. /\ 1 \in DOMAIN complete /\ complete' = Tail(complete) /\ pc = "idle"
      /\ interactiveRuns' = interactiveRuns \ {m} /\ threadLocks' = threadLocks \ {m}
      /\ inFlight' = inFlight \ {m} /\ current' = m
      /\ pc' = IF m \in inFlight THEN IF complete[1].ok THEN "succeed" ELSE "fail"
               ELSE "pump"
  BY DEF RunCompleted, TypeOK
<1>b. m \in Message /\ m \in reported /\ stage[m] \in {"ok", "bad"}
      /\ (complete[1].ok <=> stage[m] = "ok")
  BY <1>a DEF TypeOK, Reported
<1>c. UNCHANGED <<chan, queue, seen, stage, reported, registry, hasTasklist, rows, watched>>
  BY DEF RunCompleted, env, disk
<1>1. TypeOK'
  BY <1>a, <1>b, <1>c DEF TypeOK
<1>2. Waiting'
  BY <1>c DEF Waiting, Injective
<1>3. Booking'
  BY <1>a, <1>c DEF Booking
<1>4. Held'
  BY <1>a, <1>b, <1>c DEF TypeOK, Held, Booked, Booking, Own, Started
<1>5. Reported'
  BY <1>a, <1>c DEF TypeOK, Reported
<1>6. Closing'
  BY <1>a, <1>b, <1>c DEF Closing
<1>7. Copies'
  BY <1>c DEF Copies, True
<1>8. Room'
  BY <1>a DEF Room
<1>9. ThreadExclusive'
  BY <1>c DEF ThreadExclusive, Live
<1>10. CapKept'
  BY <1>c DEF CapKept, Own
<1> QED BY <1>1, <1>2, <1>3, <1>4, <1>5, <1>6, <1>7, <1>8, <1>9, <1>10

\* The copy is what the file says.
LEMMA FinishReadKeeps ==
    ASSUME QueueInv, FinishRead
    PROVE  QueueInv'
<1> USE DEF QueueInv
<1>1. TypeOK'
  BY DEF TypeOK, Stage, RowStatus, Kind, FinishRead, env, locks, reports, disk,
     File, SameFile
<1>2. Waiting'
  BY DEF Waiting, Injective, FinishRead
<1>3. Booking'
  BY DEF Booking, TypeOK, Waiting, FinishRead
<1>4. Held'
  BY DEF Held, Booked, Own, Started, IsInteractive, TypeOK, Booking, Waiting,
     Reported, Closing, FinishRead, env, locks
<1>5. Reported'
  BY DEF Reported, FinishRead, reports
<1>6. Closing'
  BY DEF Closing, TypeOK, Reported, Booking, Waiting, FinishRead, reports
<1>7. Copies'
  BY DEF Copies, True, TypeOK, Closing, Booking, Waiting, FinishRead, reports,
     disk, File, SameFile
<1>8. Room'
  BY DEF Room, Own, TypeOK, FinishRead, env
<1>9. ThreadExclusive'
  BY DEF ThreadExclusive, Live, IsRecurring, IsInteractive, FinishRead
<1>10. CapKept'
  BY DEF CapKept, Own, FinishRead, env
<1> QED BY <1>1, <1>2, <1>3, <1>4, <1>5, <1>6, <1>7, <1>8, <1>9, <1>10

\* The outcome written is that of the report; the other rows are a true copy.
LEMMA FinishWriteKeeps ==
    ASSUME QueueInv, FinishWrite
    PROVE  QueueInv'
<1> USE DEF QueueInv
<1>1. TypeOK'
  BY DEF TypeOK, Stage, RowStatus, Kind, FinishWrite, env, locks, reports,
     Updated, SameFile
<1>2. Waiting'
  BY DEF Waiting, Injective, FinishWrite
<1>3. Booking'
  BY DEF Booking, TypeOK, Waiting, FinishWrite
<1>4. Held'
  BY DEF Held, Booked, Own, Started, IsInteractive, TypeOK, Booking, Waiting,
     Reported, Closing, FinishWrite, env, locks
<1>5. Reported'
  BY DEF Reported, FinishWrite, reports
<1>6. Closing'
  BY DEF Closing, TypeOK, Reported, Booking, Waiting, FinishWrite, reports
<1>7. Copies'
  BY DEF Copies, True, TypeOK, Closing, Booking, Waiting, FinishWrite, reports,
     Updated, SameFile
<1>8. Room'
  BY DEF Room, Own, TypeOK, FinishWrite, env
<1>9. ThreadExclusive'
  BY DEF ThreadExclusive, Live, IsRecurring, IsInteractive, FinishWrite
<1>10. CapKept'
  BY DEF CapKept, Own, FinishWrite, env
<1> QED BY <1>1, <1>2, <1>3, <1>4, <1>5, <1>6, <1>7, <1>8, <1>9, <1>10

\* The pump starts again.
LEMMA HeartbeatKeeps ==
    ASSUME QueueInv, Heartbeat
    PROVE  QueueInv'
<1> USE DEF QueueInv
<1>1. TypeOK'
  BY DEF TypeOK, Stage, RowStatus, Kind, Heartbeat, env, locks, reports, disk
<1>2. Waiting'
  BY DEF Waiting, Injective, Heartbeat
<1>3. Booking'
  BY DEF Booking, TypeOK, Waiting, Heartbeat
<1>4. Held'
  BY DEF Held, Booked, Own, Started, IsInteractive, TypeOK, Booking, Waiting,
     Reported, Closing, Heartbeat, env, locks
<1>5. Reported'
  BY DEF Reported, Heartbeat, reports
<1>6. Closing'
  BY DEF Closing, TypeOK, Reported, Booking, Waiting, Heartbeat, reports
<1>7. Copies'
  BY DEF Copies, True, Heartbeat, reports, disk
<1>8. Room'
  BY DEF Room, Own, TypeOK, Heartbeat, env
<1>9. ThreadExclusive'
  BY DEF ThreadExclusive, Live, IsRecurring, IsInteractive, Heartbeat
<1>10. CapKept'
  BY DEF CapKept, Own, Heartbeat, env
<1> QED BY <1>1, <1>2, <1>3, <1>4, <1>5, <1>6, <1>7, <1>8, <1>9, <1>10

\* The run is no longer alive, and no row of it is final.
LEMMA RunEndsKeeps ==
    ASSUME QueueInv, NEW m \in Message, RunEnds(m)
    PROVE  QueueInv'
<1> USE DEF QueueInv
<1>1. TypeOK'
  BY DEF TypeOK, Stage, RowStatus, Kind, RunEnds, actor, env, locks, reports,
     disk
<1>2. Waiting'
  BY DEF Waiting, Injective, TypeOK, Booking, Reported, Closing, RunEnds
<1>3. Booking'
  BY DEF Booking, TypeOK, Waiting, RunEnds, actor
<1>4. Held'
  BY DEF Held, Booked, Own, Started, IsInteractive, TypeOK, Booking, Waiting,
     Reported, Closing, RunEnds, actor, env, locks
<1>5. Reported'
  BY DEF Reported, TypeOK, Booking, Waiting, RunEnds, reports
<1>6. Closing'
  BY DEF Closing, TypeOK, Reported, Booking, Waiting, RunEnds, actor, reports
<1>7. Copies'
  BY DEF Copies, True, TypeOK, Closing, Booking, Waiting, RunEnds, actor,
     reports, disk
<1>8. Room'
  BY DEF Room, Own, RunEnds, actor, env
<1>9. ThreadExclusive'
  BY DEF ThreadExclusive, Live, IsRecurring, IsInteractive, TypeOK, Booking,
     Held, Waiting, Booked, RunEnds
<1>10. CapKept'
  BY DEF CapKept, Own, TypeOK, Held, Booked, Booking, RunEnds, env
<1> QED BY <1>1, <1>2, <1>3, <1>4, <1>5, <1>6, <1>7, <1>8, <1>9, <1>10

\* The run is no longer alive, and no row of it is final.
LEMMA RunDiesKeeps ==
    ASSUME QueueInv, NEW m \in Message, RunDies(m)
    PROVE  QueueInv'
<1> USE DEF QueueInv
<1>1. TypeOK'
  BY DEF TypeOK, Stage, RowStatus, Kind, RunDies, actor, env, locks, reports,
     disk
<1>2. Waiting'
  BY DEF Waiting, Injective, TypeOK, Booking, Reported, Closing, RunDies
<1>3. Booking'
  BY DEF Booking, TypeOK, Waiting, RunDies, actor
<1>4. Held'
  BY DEF Held, Booked, Own, Started, IsInteractive, TypeOK, Booking, Waiting,
     Reported, Closing, RunDies, actor, env, locks
<1>5. Reported'
  BY DEF Reported, TypeOK, Booking, Waiting, RunDies, reports
<1>6. Closing'
  BY DEF Closing, TypeOK, Reported, Booking, Waiting, RunDies, actor, reports
<1>7. Copies'
  BY DEF Copies, True, TypeOK, Closing, Booking, Waiting, RunDies, actor,
     reports, disk
<1>8. Room'
  BY DEF Room, Own, RunDies, actor, env
<1>9. ThreadExclusive'
  BY DEF ThreadExclusive, Live, IsRecurring, IsInteractive, TypeOK, Booking,
     Held, Waiting, Booked, RunDies
<1>10. CapKept'
  BY DEF CapKept, Own, TypeOK, Held, Booked, Booking, RunDies, env
<1> QED BY <1>1, <1>2, <1>3, <1>4, <1>5, <1>6, <1>7, <1>8, <1>9, <1>10

\* The report says how the run ended.
LEMMA ReportKeeps ==
    ASSUME QueueInv, NEW m \in Message, Report(m)
    PROVE  QueueInv'
<1> USE DEF QueueInv
<1>1. TypeOK'
  BY DEF TypeOK, Stage, RowStatus, Kind, Report, actor, env, locks, disk
<1>2. Waiting'
  BY DEF Waiting, Injective, Report
<1>3. Booking'
  BY DEF Booking, Report, actor
<1>4. Held'
  BY DEF Held, Booked, Own, Started, IsInteractive, Report, actor, env, locks
<1>5. Reported'
  <2>1. complete' = <<[run |-> m, ok |-> stage[m] = "ok"]>> /\ DOMAIN complete' = {1}
    BY DEF Report
  <2>2. complete'[1].run = m /\ (complete'[1].ok <=> stage[m] = "ok")
    BY <2>1
  <2> QED BY <2>1, <2>2 DEF Reported, Report
<1>6. Closing'
  BY DEF Closing, TypeOK, Reported, Booking, Waiting, Report, actor
<1>7. Copies'
  BY DEF Copies, True, TypeOK, Closing, Booking, Waiting, Report, actor, disk
<1>8. Room'
  BY DEF Room, Own, Report, actor, env
<1>9. ThreadExclusive'
  BY DEF ThreadExclusive, Live, IsRecurring, IsInteractive, Report
<1>10. CapKept'
  BY DEF CapKept, Own, Report, env
<1> QED BY <1>1, <1>2, <1>3, <1>4, <1>5, <1>6, <1>7, <1>8, <1>9, <1>10

\* Only a run that is not alive is unregistered.
LEMMA UnregisterKeeps ==
    ASSUME QueueInv, NEW m \in Message, Unregister(m)
    PROVE  QueueInv'
<1> USE DEF QueueInv
<1>a. Cardinality(Own') <= Cardinality(Own)
  BY OwnShrinks DEF Own, Unregister
<1>b. Cardinality(Own) \in Nat /\ Cardinality(Own') \in Nat
  BY OwnFinite DEF Own
<1>1. TypeOK'
  BY DEF TypeOK, Stage, RowStatus, Kind, Unregister, actor, locks, reports, disk
<1>2. Waiting'
  BY DEF Waiting, Injective, Unregister
<1>3. Booking'
  BY DEF Booking, Unregister, actor
<1>4. Held'
  BY DEF Held, Booked, Own, Started, IsInteractive, TypeOK, Booking, Waiting,
     Reported, Closing, Unregister, actor, locks
<1>5. Reported'
  BY DEF Reported, Unregister, reports
<1>6. Closing'
  BY DEF Closing, Unregister, actor, reports
<1>7. Copies'
  BY DEF Copies, True, Unregister, actor, reports, disk
<1>8. Room'
  BY <1>a, <1>b, QueueAssumptions DEF Room, Unregister, actor
<1>9. ThreadExclusive'
  BY DEF ThreadExclusive, Live, IsRecurring, IsInteractive, Unregister
<1>10. CapKept'
  <2>1. Cardinality(Own') <= IF MaxInstances < 2 THEN 2 ELSE MaxInstances
    BY <1>a, <1>b, QueueAssumptions DEF CapKept
  <2> QED BY <2>1 DEF CapKept, Unregister, Own
<1> QED BY <1>1, <1>2, <1>3, <1>4, <1>5, <1>6, <1>7, <1>8, <1>9, <1>10

\* The copy is what the file says.
LEMMA WatchDeadKeeps ==
    ASSUME QueueInv, NEW m \in Message, WatchDead(m)
    PROVE  QueueInv'
<1> USE DEF QueueInv
<1>1. TypeOK'
  BY DEF TypeOK, Stage, RowStatus, Kind, WatchDead, actor, env, locks, reports,
     File, SameFile
<1>2. Waiting'
  BY DEF Waiting, Injective, TypeOK, Booking, Reported, Closing, WatchDead
<1>3. Booking'
  BY DEF Booking, TypeOK, Waiting, WatchDead, actor
<1>4. Held'
  BY DEF Held, Booked, Own, Started, IsInteractive, TypeOK, Booking, Waiting,
     Reported, Closing, WatchDead, actor, env, locks
<1>5. Reported'
  BY DEF Reported, TypeOK, Booking, Waiting, WatchDead, reports
<1>6. Closing'
  BY DEF Closing, TypeOK, Reported, Booking, Waiting, WatchDead, actor, reports
<1>7. Copies'
  BY DEF Copies, True, TypeOK, Closing, Booking, Waiting, WatchDead, actor,
     reports, File, SameFile
<1>8. Room'
  BY DEF Room, Own, WatchDead, actor, env
<1>9. ThreadExclusive'
  BY DEF ThreadExclusive, Live, IsRecurring, IsInteractive, TypeOK, Booking,
     Held, Waiting, Booked, WatchDead
<1>10. CapKept'
  BY DEF CapKept, Own, TypeOK, Held, Booked, Booking, WatchDead, env
<1> QED BY <1>1, <1>2, <1>3, <1>4, <1>5, <1>6, <1>7, <1>8, <1>9, <1>10

\* The run that is marked failed died; the other rows are a true copy.
LEMMA FailRowKeeps ==
    ASSUME QueueInv, NEW m \in Message, FailRow(m)
    PROVE  QueueInv'
<1> USE DEF QueueInv
<1>1. TypeOK'
  BY DEF TypeOK, Stage, RowStatus, Kind, FailRow, actor, env, locks, reports,
     Updated, SameFile
<1>2. Waiting'
  BY DEF Waiting, Injective, TypeOK, Booking, Reported, Closing, FailRow
<1>3. Booking'
  BY DEF Booking, TypeOK, Waiting, FailRow, actor
<1>4. Held'
  BY DEF Held, Booked, Own, Started, IsInteractive, TypeOK, Booking, Waiting,
     Reported, Closing, FailRow, actor, env, locks
<1>5. Reported'
  BY DEF Reported, TypeOK, Booking, Waiting, FailRow, reports
<1>6. Closing'
  BY DEF Closing, TypeOK, Reported, Booking, Waiting, FailRow, actor, reports
<1>7. Copies'
  BY DEF Copies, True, TypeOK, Closing, Booking, Waiting, FailRow, actor,
     reports, Updated, SameFile
<1>8. Room'
  BY DEF Room, Own, FailRow, actor, env
<1>9. ThreadExclusive'
  BY DEF ThreadExclusive, Live, IsRecurring, IsInteractive, TypeOK, Booking,
     Held, Waiting, Booked, FailRow
<1>10. CapKept'
  BY DEF CapKept, Own, TypeOK, Held, Booked, Booking, FailRow, env
<1> QED BY <1>1, <1>2, <1>3, <1>4, <1>5, <1>6, <1>7, <1>8, <1>9, <1>10

\* The other runs of the agent are not in the queue's share.
LEMMA OtherBeginsKeeps ==
    ASSUME QueueInv, NEW o \in Other, OtherBegins(o)
    PROVE  QueueInv'
<1> USE DEF QueueInv
<1>a. Own' = Own
  BY QueueAssumptions DEF Own, OtherBegins
<1>1. TypeOK'
  BY DEF TypeOK, Stage, RowStatus, Kind, OtherBegins, actor, locks, reports,
     disk
<1>2. Waiting'
  BY DEF Waiting, Injective, OtherBegins
<1>3. Booking'
  BY DEF Booking, OtherBegins, actor
<1>4. Held'
  BY <1>a, QueueAssumptions DEF OtherBegins, actor, locks, Held, Booked, Started
<1>5. Reported'
  BY DEF Reported, OtherBegins, reports
<1>6. Closing'
  BY DEF Closing, OtherBegins, actor, reports
<1>7. Copies'
  BY DEF Copies, True, OtherBegins, actor, reports, disk
<1>8. Room'
  BY <1>a DEF Room, OtherBegins, actor
<1>9. ThreadExclusive'
  BY DEF ThreadExclusive, Live, IsRecurring, IsInteractive, OtherBegins
<1>10. CapKept'
  BY <1>a DEF CapKept, OtherBegins
<1> QED BY <1>1, <1>2, <1>3, <1>4, <1>5, <1>6, <1>7, <1>8, <1>9, <1>10

\* The other runs of the agent are not in the queue's share.
LEMMA OtherEndsKeeps ==
    ASSUME QueueInv, NEW o \in Other, OtherEnds(o)
    PROVE  QueueInv'
<1> USE DEF QueueInv
<1>a. Own' = Own
  BY QueueAssumptions DEF Own, OtherEnds
<1>1. TypeOK'
  BY DEF TypeOK, Stage, RowStatus, Kind, OtherEnds, actor, locks, reports, disk
<1>2. Waiting'
  BY DEF Waiting, Injective, OtherEnds
<1>3. Booking'
  BY DEF Booking, OtherEnds, actor
<1>4. Held'
  BY <1>a, QueueAssumptions DEF OtherEnds, actor, locks, Held, Booked, Started
<1>5. Reported'
  BY DEF Reported, OtherEnds, reports
<1>6. Closing'
  BY DEF Closing, OtherEnds, actor, reports
<1>7. Copies'
  BY DEF Copies, True, OtherEnds, actor, reports, disk
<1>8. Room'
  BY <1>a DEF Room, OtherEnds, actor
<1>9. ThreadExclusive'
  BY DEF ThreadExclusive, Live, IsRecurring, IsInteractive, OtherEnds
<1>10. CapKept'
  BY <1>a, QueueAssumptions DEF CapKept, OtherEnds
<1> QED BY <1>1, <1>2, <1>3, <1>4, <1>5, <1>6, <1>7, <1>8, <1>9, <1>10

\* The bound is that of an open tasklist.
LEMMA TasklistOpensOrClosesKeeps ==
    ASSUME QueueInv, TasklistOpensOrCloses
    PROVE  QueueInv'
<1> USE DEF QueueInv
<1>1. TypeOK'
  BY DEF TypeOK, Stage, RowStatus, Kind, TasklistOpensOrCloses, actor, locks,
     reports, disk
<1>2. Waiting'
  BY DEF Waiting, Injective, TasklistOpensOrCloses
<1>3. Booking'
  BY DEF Booking, TasklistOpensOrCloses, actor
<1>4. Held'
  BY DEF Held, Booked, Own, Started, IsInteractive, TasklistOpensOrCloses,
     actor, locks
<1>5. Reported'
  BY DEF Reported, TasklistOpensOrCloses, reports
<1>6. Closing'
  BY DEF Closing, TasklistOpensOrCloses, actor, reports
<1>7. Copies'
  BY DEF Copies, True, TasklistOpensOrCloses, actor, reports, disk
<1>8. Room'
  BY DEF Room, Own, TasklistOpensOrCloses, actor
<1>9. ThreadExclusive'
  BY DEF ThreadExclusive, Live, IsRecurring, IsInteractive,
     TasklistOpensOrCloses
<1>10. CapKept'
  BY DEF CapKept, Own, TasklistOpensOrCloses
<1> QED BY <1>1, <1>2, <1>3, <1>4, <1>5, <1>6, <1>7, <1>8, <1>9, <1>10

-----------------------------------------------------------------------------
(* The specification.                                                      *)

LEMMA InitInv == ASSUME Init PROVE QueueInv
<1> USE DEF Init, NoRows
<1>1. TypeOK
  BY QueueAssumptions DEF TypeOK, RowStatus, Stage
<1>2. Waiting /\ Booking /\ Held /\ Reported /\ Closing
  BY DEF Waiting, Injective, Booking, Held, Booked, Own, Reported, Closing
<1>3. Copies
  BY DEF Copies, True
<1>4. ThreadExclusive
  BY DEF ThreadExclusive, Live
<1>5. CapKept /\ Room
  <2>1. Cardinality(Own) = 0
    BY FS_EmptySet DEF Own
  <2> QED BY <2>1, QueueAssumptions DEF CapKept, Room
<1> QED BY <1>1, <1>2, <1>3, <1>4, <1>5 DEF QueueInv

LEMMA StutterKeeps == ASSUME QueueInv, UNCHANGED vars PROVE QueueInv'
BY DEF QueueInv, vars, TypeOK, Waiting, Injective, Booking, Held, Booked, Own, Started,
       Reported, Closing, Copies, True, Room, ThreadExclusive, Live, CapKept

LEMMA StepInv == ASSUME QueueInv, [Next]_vars PROVE QueueInv'
<1>1. CASE Manager
  BY <1>1, ReceiveKeeps, RunCompletedKeeps, HeartbeatKeeps, DispatchKeeps, PumpEndsKeeps,
     BookKeeps, MarkReadKeeps, MarkWriteKeeps, SpawnKeeps, FinishReadKeeps,
     FinishWriteKeeps DEF Manager
<1>2. CASE Engine
  BY <1>2, TasklistOpensOrClosesKeeps, OtherBeginsKeeps, OtherEndsKeeps DEF Engine
<1>3. ASSUME NEW m \in Message, Caller(m) \/ Run(m) \/ Watcher(m) PROVE QueueInv'
  BY <1>3, FireKeeps, SubmitKeeps, RunEndsKeeps, RunDiesKeeps, ReportKeeps,
     UnregisterKeeps, WatchDeadKeeps, FailRowKeeps DEF Caller, Run, Watcher
<1>4. CASE UNCHANGED vars
  BY <1>4, StutterKeeps
<1> QED BY <1>1, <1>2, <1>3, <1>4 DEF Next

\* The inductive invariant holds of every reachable state of the queue manager,
\* its runs, watchers and callers.
THEOREM QueueInvariant == Spec => []QueueInv
<1>1. Init => QueueInv
  BY InitInv
<1>2. QueueInv /\ [Next]_vars => QueueInv'
  BY StepInv
<1> QED BY <1>1, <1>2, PTL DEF Spec

\* pump never starts a run on a thread that another run holds, except where the
\* code lets interactive runs or recurring schedules share it.
THEOREM ThreadsAreExclusive == Spec => []ThreadExclusive
<1>1. QueueInv => ThreadExclusive
  BY DEF QueueInv
<1> QED BY <1>1, QueueInvariant, PTL

\* The runs that the queue books stay within the cap of the registry, and every
\* run that is alive is booked.
THEOREM CapIsKept == Spec => []CapKept
<1>1. QueueInv => CapKept
  BY DEF QueueInv
<1> QED BY <1>1, QueueInvariant, PTL

\* A final row tells how the run ended, with any interleaving of the
\* read-modify-write updates of its file.
THEOREM RowsAreTrue == Spec => []RowTruth
<1>1. QueueInv => RowTruth
  BY DEF QueueInv, Copies, True, RowTruth
<1> QED BY <1>1, QueueInvariant, PTL

\* Messages of one thread and class leave the queue in the order they came.
THEOREM NobodyOvertakes == Spec => NoOvertaking
<1> DEFINE Overtakes ==
             \E i, j \in DOMAIN queue : i < j /\ SameClass(queue[i], queue[j])
                 /\ stage'[queue[j]] # "queued" /\ stage'[queue[i]] = "queued"
<1>1. ASSUME QueueInv, Next PROVE ~Overtakes
  <2> SUFFICES ASSUME NEW i \in DOMAIN queue, NEW j \in DOMAIN queue, i < j,
                      SameClass(queue[i], queue[j]), stage'[queue[j]] # "queued"
               PROVE  stage'[queue[i]] # "queued"
    OBVIOUS
  <2>1. queue[j] \in Message /\ stage[queue[j]] = "queued"
    BY <1>1 DEF QueueInv, TypeOK, Waiting
  <2>2. Dispatch
    <3>1. stage'[queue[j]] # stage[queue[j]]
      BY <2>1
    <3>2. ~(PumpEnds \/ MarkRead \/ MarkWrite \/ RunCompleted \/ FinishRead \/ FinishWrite
            \/ Heartbeat \/ Book \/ Engine)
      BY <3>1 DEF PumpEnds, MarkRead, MarkWrite, RunCompleted, FinishRead, FinishWrite,
                  Heartbeat, Book, Engine, TasklistOpensOrCloses, OtherBegins, OtherEnds
    <3>3. ~Spawn /\ ~Receive
      BY <1>1, <2>1, <3>1 DEF Spawn, Receive, QueueInv, TypeOK, Booking, Waiting
    <3>4. \A m \in Message : ~(Caller(m) \/ Run(m) \/ Watcher(m))
      BY <1>1, <2>1, <3>1 DEF Caller, Run, Watcher, Fire, Submit, RunEnds, RunDies, Report,
         Unregister, WatchDead, FailRow, QueueInv, TypeOK
    <3> QED BY <1>1, <3>2, <3>3, <3>4 DEF Next, Manager
  <2>3. PICK k \in Candidates : /\ \A l \in Candidates : k <= l
                                /\ stage' = [stage EXCEPT ![queue[k]] = "booking"]
    BY <2>2 DEF Dispatch
  <2>4. queue[k] = queue[j]
    BY <2>1, <2>3, <1>1 DEF QueueInv, TypeOK
  <2>5. k = j
    BY <1>1, <2>3, <2>4 DEF QueueInv, Waiting, Injective, Candidates, FreeAt, RecurringAt
  <2>6. ~IsRecurring(queue[j]) /\ j \in FreeAt
    BY <2>3, <2>5 DEF SameClass, Candidates, RecurringAt
  <2>7. Free(queue[i])
    BY <2>6 DEF FreeAt, Free, Holds, SameClass
  <2>8. i \in Candidates /\ i \in Nat /\ j \in Nat
    BY <1>1, <2>6, <2>7 DEF Candidates, FreeAt, QueueInv, TypeOK
  <2> QED BY <2>3, <2>5, <2>8
<1>2. QueueInv /\ [Next]_vars => [~Overtakes]_vars
  BY <1>1
<1>3. [~Overtakes]_vars =>
        [\A i, j \in DOMAIN queue :
            i < j /\ SameClass(queue[i], queue[j]) /\ stage'[queue[j]] # "queued"
                => stage'[queue[i]] # "queued"]_vars
  OBVIOUS
<1> QED BY <1>2, <1>3, QueueInvariant, PTL DEF Spec, NoOvertaking
=============================================================================
