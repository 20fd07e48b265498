-------------------------- MODULE WorkflowQueuePlans --------------------------
(***************************************************************************)
(* The processes of WorkflowQueue and their plans, what the operations on  *)
(* the snapshot of a task write, and the types of every variable.          *)
(***************************************************************************)
EXTENDS WorkflowQueueInvariant, SequenceTheorems, FiniteSetTheorems,
        WellFoundedInduction, TLAPS

\* What is left of a sequence of one, two or three.
LEMMA Tail1 == ASSUME NEW a PROVE Tail(<<a>>) = <<>>
<1>1. <<a>> \in Seq({a})
  OBVIOUS
<1> QED BY <1>1, HeadTailProperties, EmptySeq, SeqEqual

\* What is left of a sequence of one, two or three.
LEMMA Tail2 == ASSUME NEW a, NEW b PROVE Tail(<<a, b>>) = <<b>>
<1>1. /\ <<a, b>> \in Seq({a, b}) /\ <<b>> \in Seq({a, b})
      /\ Len(<<a, b>>) = 2 /\ Len(<<b>>) = 1
  OBVIOUS
<1>2. /\ Tail(<<a, b>>) \in Seq({a, b}) /\ Len(Tail(<<a, b>>)) = 1
      /\ \A i \in 1 .. 1 : Tail(<<a, b>>)[i] = <<a, b>>[i + 1]
  BY <1>1, HeadTailProperties
<1>3. \A i \in 1 .. 1 : Tail(<<a, b>>)[i] = <<b>>[i]
  BY <1>2
<1> HIDE DEF Tail
<1> QED BY <1>1, <1>2, <1>3, SeqEqual

\* What is left of a sequence of one, two or three.
LEMMA Tail3 == ASSUME NEW a, NEW b, NEW c PROVE Tail(<<a, b, c>>) = <<b, c>>
<1>1. /\ <<a, b, c>> \in Seq({a, b, c}) /\ <<b, c>> \in Seq({a, b, c})
      /\ Len(<<a, b, c>>) = 3 /\ Len(<<b, c>>) = 2
  OBVIOUS
<1>2. /\ Tail(<<a, b, c>>) \in Seq({a, b, c}) /\ Len(Tail(<<a, b, c>>)) = 2
      /\ \A i \in 1 .. 2 : Tail(<<a, b, c>>)[i] = <<a, b, c>>[i + 1]
  BY <1>1, HeadTailProperties
<1>3. \A i \in 1 .. 2 : Tail(<<a, b, c>>)[i] = <<b, c>>[i]
  BY <1>2
<1> QED BY <1>1, <1>2, <1>3, SeqEqual

\* Short sequences put together.
LEMMA Concat12 == ASSUME NEW a, NEW b, NEW c PROVE <<a>> \o <<b, c>> = <<a, b, c>>
<1> DEFINE S == {a, b, c}
<1>1. <<a>> \in Seq(S) /\ <<b, c>> \in Seq(S) /\ <<a, b, c>> \in Seq(S)
  OBVIOUS
<1>2. Len(<<a, b, c>>) = 3 /\ Len(<<b, c>>) = 2 /\ Len(<<a>>) = 1
  OBVIOUS
<1>3. /\ <<a>> \o <<b, c>> \in Seq(S) /\ Len(<<a>> \o <<b, c>>) = 3
      /\ \A i \in 1 .. 3 :
            (<<a>> \o <<b, c>>)[i] = IF i <= 1 THEN <<a>>[i] ELSE <<b, c>>[i - 1]
  BY <1>1, <1>2, ConcatProperties
<1>4. \A i \in 1 .. 3 : (<<a>> \o <<b, c>>)[i] = <<a, b, c>>[i]
  BY <1>3
<1> QED BY <1>1, <1>2, <1>3, <1>4, SeqEqual

\* Short sequences put together.
LEMMA Concat21 == ASSUME NEW a, NEW b, NEW c PROVE <<a, b>> \o <<c>> = <<a, b, c>>
<1> DEFINE S == {a, b, c}
<1>1. <<a, b>> \in Seq(S) /\ <<c>> \in Seq(S) /\ <<a, b, c>> \in Seq(S)
  OBVIOUS
<1>2. Len(<<a, b, c>>) = 3 /\ Len(<<a, b>>) = 2 /\ Len(<<c>>) = 1
  OBVIOUS
<1>3. /\ <<a, b>> \o <<c>> \in Seq(S) /\ Len(<<a, b>> \o <<c>>) = 3
      /\ \A i \in 1 .. 3 :
            (<<a, b>> \o <<c>>)[i] = IF i <= 2 THEN <<a, b>>[i] ELSE <<c>>[i - 2]
  BY <1>1, <1>2, ConcatProperties
<1>4. \A i \in 1 .. 3 : (<<a, b>> \o <<c>>)[i] = <<a, b, c>>[i]
  BY <1>3
<1> QED BY <1>1, <1>2, <1>3, <1>4, SeqEqual

\* Short sequences put together.
LEMMA NothingAdded ==
    ASSUME NEW a, NEW b
    PROVE  <<>> \o <<a, b>> = <<a, b>> /\ <<a, b>> \o <<>> = <<a, b>>
<1>1. <<a, b>> \in Seq({a, b})
  OBVIOUS
<1> QED BY <1>1, ConcatEmptySeq

\* The processes and the other places are told apart.
LEMMA Processes ==
    /\ QueueManager \in Process /\ User \in Process /\ Job \subseteq Process
    /\ QueueManager \notin Job /\ User \notin Job /\ QueueManager # User
    /\ ReadyQueue \notin Process /\ BackoffQueue \notin Process /\ Channel \notin Process
    /\ ReadyQueue # BackoffQueue /\ ReadyQueue # Channel /\ BackoffQueue # Channel
BY DEF Process, Job, QueueManager, User, ReadyQueue, BackoffQueue, Channel

\* That nothing is held is not a snapshot.
LEMMA NoSnapshotIsNone == NoSnapshot \notin Snapshot
BY DEF NoSnapshot, Snapshot, TaskStatus

\* Facts about a plan of one, two or three operations, and of none.
LEMMA Single ==
    ASSUME NEW a, NEW ops
    PROVE  /\ Head(<<a>>) = a /\ <<a>> # <<>>
           /\ Has(<<a>>, ops) <=> a.do \in ops
           /\ Engaged(<<a>>) <=> a.do \notin Loose
BY DEF Has, Engaged

\* Facts about a plan of one, two or three operations, and of none.
LEMMA Double ==
    ASSUME NEW a, NEW b, NEW ops
    PROVE  /\ Head(<<a, b>>) = a /\ <<a, b>> # <<>>
           /\ Has(<<a, b>>, ops) <=> a.do \in ops \/ b.do \in ops
           /\ Engaged(<<a, b>>) <=> a.do \notin Loose \/ b.do \notin Loose
<1>1. DOMAIN <<a, b>> = {1, 2}
  OBVIOUS
<1> QED BY <1>1 DEF Has, Engaged

\* Facts about a plan of one, two or three operations, and of none.
LEMMA Triple ==
    ASSUME NEW a, NEW b, NEW c, NEW ops
    PROVE  /\ Head(<<a, b, c>>) = a /\ <<a, b, c>> # <<>>
           /\ Has(<<a, b, c>>, ops) <=> a.do \in ops \/ b.do \in ops \/ c.do \in ops
           /\ Engaged(<<a, b, c>>) <=>
                 a.do \notin Loose \/ b.do \notin Loose \/ c.do \notin Loose
<1>1. DOMAIN <<a, b, c>> = {1, 2, 3}
  OBVIOUS
<1> QED BY <1>1 DEF Has, Engaged

\* Facts about a plan of one, two or three operations, and of none.
LEMMA Nothing ==
    ASSUME NEW ops
    PROVE  ~Has(<<>>, ops) /\ ~Engaged(<<>>)
BY DEF Has, Engaged

-----------------------------------------------------------------------------
(* What a process does next, and what is left to do after that.            *)

\* What the manager may have to do, by what is next.
LEMMA ManagerPlan ==
    ASSUME NEW t, NEW p, NEW w \in ManagerPlans(t, p)
    PROVE  /\ \A ops : Has(Tail(w), ops) => Has(w, ops)
           /\ w # <<>> /\ Head(w) = Op(Head(w).do, t, p) /\ Engaged(w)
           /\ Head(w).do \in {"route", "start", "pause", "coldStart", "approve", "clear",
                              "unstop", "requeue", "finish", "giveUp"}
           /\ ~Has(w, {"complete"}) /\ ~Has(w, {"meter"})
           /\ Has(w, PhaseOps) <=> Head(w).do \in {"route", "start", "pause", "coldStart"}
           /\ Head(w).do = "start" =>
                 \/ Tail(w) = <<Op("pause", t, p)>>
                 \/ Tail(w) = <<Op("coldStart", t, p)>> /\ TypeOf[p] = "prompt"
           /\ Head(w).do = "coldStart" => TypeOf[p] = "prompt"
           /\ Head(w).do = "approve" => Tail(w) = <<Op("clear", t, p), Op("requeue", t, p)>>
           /\ Head(w).do \in {"clear", "unstop"} => Tail(w) = <<Op("requeue", t, p)>>
           /\ Head(w).do \in {"route", "pause", "coldStart", "requeue", "finish", "giveUp"}
                 => Tail(w) = <<>>
<1>1. CASE \E do \in {"route", "pause", "coldStart", "requeue", "finish", "giveUp"} :
              w = <<Op(do, t, p)>> /\ (do = "coldStart" => TypeOf[p] = "prompt")
  BY <1>1, Tail1, Single, Nothing DEF Op, Loose, PhaseOps
<1>2. CASE \E do \in {"pause", "coldStart"} :
              /\ w = <<Op("start", t, p), Op(do, t, p)>>
              /\ do = "coldStart" => TypeOf[p] = "prompt"
  BY <1>2, Tail2, Double, Single DEF Op, Loose, PhaseOps
<1>3. CASE \E do \in {"clear", "unstop"} : w = <<Op(do, t, p), Op("requeue", t, p)>>
  BY <1>3, Tail2, Double, Single DEF Op, Loose, PhaseOps
<1>4. CASE w = <<Op("approve", t, p), Op("clear", t, p), Op("requeue", t, p)>>
  BY <1>4, Tail3, Triple, Double DEF Op, Loose, PhaseOps
<1> QED BY <1>1, <1>2, <1>3, <1>4 DEF ManagerPlans

\* What a request of the user may have left to do, by what is next.
LEMMA UserPlan ==
    ASSUME NEW t, NEW p, NEW w \in UserPlans(t, p)
    PROVE  /\ \A ops : Has(Tail(w), ops) => Has(w, ops)
           /\ w # <<>> /\ Head(w) = Op(Head(w).do, t, p)
           /\ Head(w).do \in {"begin", "startTask", "resumeTask", "complete",
                              "phaseCompleted", "stop", "reopen", "archive"}
           /\ ~Has(w, {"meter"})
           /\ Has(w, {"complete"}) <=> Head(w).do = "complete"
           /\ Has(w, PhaseOps) <=> Head(w).do = "complete"
           /\ \A do \in {"stop", "reopen", "archive"} : Has(w, {do}) <=> Head(w).do = do
           /\ Head(w).do = "begin" =>
                 \/ Tail(w) = <<>> /\ ~Engaged(w)
                 \/ Tail(w) = <<Op("startTask", t, p)>> /\ Engaged(w)
           /\ Head(w).do = "complete" => Tail(w) = <<Op("phaseCompleted", t, p)>> /\ Engaged(w)
           /\ Head(w).do \in {"startTask", "resumeTask", "phaseCompleted"} =>
                 Tail(w) = <<>> /\ Engaged(w)
           /\ Head(w).do \in {"stop", "reopen", "archive"} => Tail(w) = <<>> /\ ~Engaged(w)
<1>1. CASE \E do \in {"startTask", "resumeTask", "phaseCompleted", "begin", "stop",
                      "reopen", "archive"} : w = <<Op(do, t, p)>>
  BY <1>1, Tail1, Single, Nothing DEF Op, Loose, PhaseOps
<1>2. CASE w = <<Op("begin", t, p), Op("startTask", t, p)>>
  BY <1>2, Tail2, Double, Single DEF Op, Loose, PhaseOps
<1>3. CASE w = <<Op("complete", t, p), Op("phaseCompleted", t, p)>>
  BY <1>3, Tail2, Double, Single DEF Op, Loose, PhaseOps
<1> QED BY <1>1, <1>2, <1>3 DEF UserPlans

\* What the execution of a script may have left to do, by what is next.
LEMMA ScriptPlan ==
    ASSUME NEW t, NEW p, NEW w \in ScriptPlans(t, p)
    PROVE  /\ \A ops : Has(Tail(w), ops) => Has(w, ops)
           /\ w # <<>> /\ Head(w) = Op(Head(w).do, t, p) /\ Engaged(w)
           /\ Head(w).do \in {"start", "script", "meter", "complete", "fail",
                              "phaseCompleted", "phaseFailed"}
           /\ Has(w, PhaseOps) <=> Head(w).do \notin {"phaseCompleted", "phaseFailed"}
           /\ Head(w).do \notin {"meter", "complete"} => ~Has(w, {"complete"})
           /\ Head(w).do = "complete" => Has(w, {"complete"})
           /\ Head(w).do = "start" => Tail(w) = <<Op("script", t, p)>>
           /\ Head(w).do = "meter" =>
                 \/ /\ Has(w, {"complete"})
                    /\ Tail(w) = <<Op("complete", t, p), Op("phaseCompleted", t, p)>>
                 \/ /\ ~Has(w, {"complete"})
                    /\ Tail(w) = <<Op("fail", t, p), Op("phaseFailed", t, p)>>
           /\ Head(w).do = "complete" => Tail(w) = <<Op("phaseCompleted", t, p)>>
           /\ Head(w).do = "fail" => Tail(w) = <<Op("phaseFailed", t, p)>>
           /\ Head(w).do \in {"script", "phaseCompleted", "phaseFailed"} => Tail(w) = <<>>
<1>1. CASE \E do \in {"script", "phaseCompleted", "phaseFailed"} : w = <<Op(do, t, p)>>
  BY <1>1, Tail1, Single, Nothing DEF Op, Loose, PhaseOps
<1>2. CASE w = <<Op("start", t, p), Op("script", t, p)>>
  BY <1>2, Tail2, Double, Single DEF Op, Loose, PhaseOps
<1>3. CASE w = <<Op("complete", t, p), Op("phaseCompleted", t, p)>>
  BY <1>3, Tail2, Double, Single DEF Op, Loose, PhaseOps
<1>4. CASE w = <<Op("fail", t, p), Op("phaseFailed", t, p)>>
  BY <1>4, Tail2, Double, Single DEF Op, Loose, PhaseOps
<1>5. CASE w = <<Op("meter", t, p), Op("complete", t, p), Op("phaseCompleted", t, p)>>
  BY <1>5, Tail3, Triple, Double DEF Op, Loose, PhaseOps
<1>6. CASE w = <<Op("meter", t, p), Op("fail", t, p), Op("phaseFailed", t, p)>>
  BY <1>6, Tail3, Triple, Double DEF Op, Loose, PhaseOps
<1> QED BY <1>1, <1>2, <1>3, <1>4, <1>5, <1>6 DEF ScriptPlans

\* What the execution of an agent may have left to do, by what is next.
LEMMA AgentPlan ==
    ASSUME NEW t, NEW p, NEW w \in AgentPlans(t, p)
    PROVE  /\ \A ops : Has(Tail(w), ops) => Has(w, ops)
           /\ w # <<>> /\ Head(w) = Op(Head(w).do, t, p)
           /\ Head(w).do \in {"turn", "fail", "complete", "skip", "phaseCompleted", "meter"}
           /\ Engaged(w) <=> Head(w).do # "meter"
           /\ Has(w, PhaseOps) <=> Head(w).do \in {"turn", "fail", "complete", "skip"}
           /\ Head(w).do = "fail" => Tail(w) = <<Op("turn", t, p)>>
           /\ Head(w).do \in {"turn", "fail"} => ~Has(w, {"meter"})
           /\ Head(w).do \in {"complete", "skip"} =>
                 \/ Tail(w) = <<Op("phaseCompleted", t, p)>> /\ ~Has(w, {"meter"})
                 \/ /\ Tail(w) = <<Op("phaseCompleted", t, p), Op("meter", t, p)>>
                    /\ Has(w, {"meter"})
           /\ Head(w).do = "phaseCompleted" =>
                 \/ Tail(w) = <<>> /\ ~Has(w, {"meter"})
                 \/ Tail(w) = <<Op("meter", t, p)>> /\ Has(w, {"meter"})
           /\ Head(w).do = "meter" => Has(w, {"meter"})
           /\ Head(w).do \in {"meter", "turn"} => Tail(w) = <<>>
<1>1. CASE \E do \in {"turn", "phaseCompleted", "meter"} : w = <<Op(do, t, p)>>
  BY <1>1, Tail1, Single, Nothing DEF Op, Loose, PhaseOps
<1>2. CASE w = <<Op("fail", t, p), Op("turn", t, p)>>
  BY <1>2, Tail2, Double, Single DEF Op, Loose, PhaseOps
<1>3. CASE w = <<Op("phaseCompleted", t, p), Op("meter", t, p)>>
  BY <1>3, Tail2, Double, Single DEF Op, Loose, PhaseOps
<1>4. CASE \E do \in {"complete", "skip"} : w = <<Op(do, t, p), Op("phaseCompleted", t, p)>>
  BY <1>4, Tail2, Double, Single DEF Op, Loose, PhaseOps
<1>5. CASE \E do \in {"complete", "skip"} :
              w = <<Op(do, t, p), Op("phaseCompleted", t, p), Op("meter", t, p)>>
  BY <1>5, Tail3, Triple, Double DEF Op, Loose, PhaseOps
<1> QED BY <1>1, <1>2, <1>3, <1>4, <1>5 DEF AgentPlans

\* What is left of a plan is a plan.
LEMMA PlansShrink ==
    ASSUME NEW t, NEW p
    PROVE  /\ \A w \in ManagerPlans(t, p) : Tail(w) = <<>> \/ Tail(w) \in ManagerPlans(t, p)
           /\ \A w \in UserPlans(t, p) : Tail(w) = <<>> \/ Tail(w) \in UserPlans(t, p)
           /\ \A w \in ScriptPlans(t, p) : Tail(w) = <<>> \/ Tail(w) \in ScriptPlans(t, p)
           /\ \A w \in AgentPlans(t, p) : Tail(w) = <<>> \/ Tail(w) \in AgentPlans(t, p)
<1>1. /\ <<Op("pause", t, p)>> \in ManagerPlans(t, p)
      /\ TypeOf[p] = "prompt" => <<Op("coldStart", t, p)>> \in ManagerPlans(t, p)
      /\ <<Op("requeue", t, p)>> \in ManagerPlans(t, p)
      /\ <<Op("clear", t, p), Op("requeue", t, p)>> \in ManagerPlans(t, p)
  BY DEF ManagerPlans
<1>2. /\ <<Op("startTask", t, p)>> \in UserPlans(t, p)
      /\ <<Op("phaseCompleted", t, p)>> \in UserPlans(t, p)
  BY DEF UserPlans
<1>3. /\ <<Op("script", t, p)>> \in ScriptPlans(t, p)
      /\ <<Op("phaseCompleted", t, p)>> \in ScriptPlans(t, p)
      /\ <<Op("phaseFailed", t, p)>> \in ScriptPlans(t, p)
      /\ <<Op("complete", t, p), Op("phaseCompleted", t, p)>> \in ScriptPlans(t, p)
      /\ <<Op("fail", t, p), Op("phaseFailed", t, p)>> \in ScriptPlans(t, p)
  BY DEF ScriptPlans
<1>4. /\ <<Op("turn", t, p)>> \in AgentPlans(t, p)
      /\ <<Op("phaseCompleted", t, p)>> \in AgentPlans(t, p)
      /\ <<Op("phaseCompleted", t, p), Op("meter", t, p)>> \in AgentPlans(t, p)
      /\ <<Op("meter", t, p)>> \in AgentPlans(t, p)
  BY DEF AgentPlans
<1>5. ASSUME NEW w \in ManagerPlans(t, p)
      PROVE  Tail(w) = <<>> \/ Tail(w) \in ManagerPlans(t, p)
  BY <1>1, ManagerPlan
<1>6. ASSUME NEW w \in UserPlans(t, p)
      PROVE  Tail(w) = <<>> \/ Tail(w) \in UserPlans(t, p)
  BY <1>2, UserPlan
<1>7. ASSUME NEW w \in ScriptPlans(t, p)
      PROVE  Tail(w) = <<>> \/ Tail(w) \in ScriptPlans(t, p)
  BY <1>3, ScriptPlan
<1>8. ASSUME NEW w \in AgentPlans(t, p)
      PROVE  Tail(w) = <<>> \/ Tail(w) \in AgentPlans(t, p)
  BY <1>4, AgentPlan
<1> QED BY <1>5, <1>6, <1>7, <1>8

\* The plan of a process is about one task and phase, of its own for an execution.
LEMMA PlanOf ==
    ASSUME NEW q \in Process, NEW w, IsPlan(q, w), w # <<>>
    PROVE  /\ Head(w).task \in Task /\ Head(w).phase \in Phase
           /\ q = QueueManager => w \in ManagerPlans(Head(w).task, Head(w).phase)
           /\ q = User => w \in UserPlans(Head(w).task, Head(w).phase)
           /\ q \in Job =>
                 /\ q[1] = Head(w).task /\ q[2] = Head(w).phase
                 /\ \/ TypeOf[q[2]] = "folder" /\ w \in ScriptPlans(Head(w).task, Head(w).phase)
                    \/ TypeOf[q[2]] = "prompt" /\ w \in AgentPlans(Head(w).task, Head(w).phase)
<1>1. PICK t \in Task, p \in Phase :
          \/ /\ \E n \in Slots : q = <<t, p, n>>
             /\ \/ TypeOf[p] = "folder" /\ w \in ScriptPlans(t, p)
                \/ TypeOf[p] = "prompt" /\ w \in AgentPlans(t, p)
          \/ q = QueueManager /\ w \in ManagerPlans(t, p)
          \/ q = User /\ w \in UserPlans(t, p)
  BY DEF IsPlan
<1>2. Head(w).task = t /\ Head(w).phase = p
  BY <1>1, ManagerPlan, UserPlan, ScriptPlan, AgentPlan DEF Op
<1>3. ASSUME NEW n \in Slots PROVE <<t, p, n>> \in Job /\ <<t, p, n>>[1] = t /\ <<t, p, n>>[2] = p
  BY DEF Job
<1> QED BY <1>1, <1>2, <1>3, Processes

\* Which plans a process may have.
LEMMA EmptyPlan == \A q : IsPlan(q, <<>>)
BY DEF IsPlan

\* The plans of each kind of process are plans of such a process.
LEMMA IsAPlan ==
    ASSUME NEW t \in Task, NEW p \in Phase, NEW w
    PROVE  /\ w \in ManagerPlans(t, p) => IsPlan(QueueManager, w)
           /\ w \in UserPlans(t, p) => IsPlan(User, w)
           /\ \A q \in Job :
                 q[1] = t /\ q[2] = p =>
                    /\ TypeOf[p] = "folder" /\ w \in ScriptPlans(t, p) => IsPlan(q, w)
                    /\ TypeOf[p] = "prompt" /\ w \in AgentPlans(t, p) => IsPlan(q, w)
<1>1. ASSUME NEW q \in Job PROVE \E n \in Slots : q = <<q[1], q[2], n>>
  BY DEF Job
<1> QED BY <1>1 DEF IsPlan

\* What is left of a plan is for the same task and phase.
LEMMA PlanTail ==
    ASSUME NEW q \in Process, NEW w, IsPlan(q, w), w # <<>>
    PROVE  /\ IsPlan(q, Tail(w)) /\ \A ops : Has(Tail(w), ops) => Has(w, ops)
           /\ Engaged(Tail(w)) => Engaged(w)
           /\ Tail(w) # <<>> => /\ Head(Tail(w)).task = Head(w).task
                                /\ Head(Tail(w)).phase = Head(w).phase
<1> DEFINE t == Head(w).task
           p == Head(w).phase
<1>0. t \in Task /\ p \in Phase
  BY PlanOf
<1>4. ASSUME NEW do PROVE Op(do, t, p).task = t /\ Op(do, t, p).phase = p
  BY DEF Op
<1> HIDE DEF t, p
<1>1. CASE q = QueueManager
  <2>1. w \in ManagerPlans(t, p)
    BY <1>1, PlanOf DEF t, p
  <2>2. Tail(w) = <<>> \/ Tail(w) \in ManagerPlans(t, p)
    BY <2>1, PlansShrink
  <2>3. Tail(w) # <<>> => Head(Tail(w)) = Op(Head(Tail(w)).do, t, p)
    BY <2>2, ManagerPlan
  <2>5. /\ \A ops : Has(Tail(w), ops) => Has(w, ops)
        /\ Engaged(Tail(w)) => Engaged(w)
    BY <2>1, ManagerPlan, Nothing
  <2>4. IsPlan(q, Tail(w))
    BY <1>0, <1>1, <2>2, IsAPlan, EmptyPlan
  <2> QED BY <1>4, <2>3, <2>4, <2>5 DEF t, p
<1>2. CASE q = User
  <2>1. w \in UserPlans(t, p)
    BY <1>2, PlanOf DEF t, p
  <2>2. Tail(w) = <<>> \/ Tail(w) \in UserPlans(t, p)
    BY <2>1, PlansShrink
  <2>3. Tail(w) # <<>> => Head(Tail(w)) = Op(Head(Tail(w)).do, t, p)
    BY <2>2, UserPlan
  <2>5. /\ \A ops : Has(Tail(w), ops) => Has(w, ops)
        /\ Engaged(Tail(w)) => Engaged(w)
    BY <2>1, UserPlan, Nothing
  <2>4. IsPlan(q, Tail(w))
    BY <1>0, <1>2, <2>2, IsAPlan, EmptyPlan
  <2> QED BY <1>4, <2>3, <2>4, <2>5 DEF t, p
<1>3. CASE q \in Job
  <2>1. /\ q[1] = t /\ q[2] = p
        /\ \/ TypeOf[p] = "folder" /\ w \in ScriptPlans(t, p)
           \/ TypeOf[p] = "prompt" /\ w \in AgentPlans(t, p)
    BY <1>3, PlanOf DEF t, p
  <2>2. \/ Tail(w) = <<>>
        \/ TypeOf[p] = "folder" /\ Tail(w) \in ScriptPlans(t, p)
        \/ TypeOf[p] = "prompt" /\ Tail(w) \in AgentPlans(t, p)
    BY <2>1, PlansShrink
  <2>3. IsPlan(q, Tail(w))
    BY <1>0, <1>3, <2>1, <2>2, IsAPlan, EmptyPlan
  <2>4. Tail(w) # <<>> => Head(Tail(w)) = Op(Head(Tail(w)).do, t, p)
    BY <2>2, ScriptPlan, AgentPlan
  <2>5. \A ops : Has(Tail(w), ops) => Has(w, ops)
    BY <2>1, ScriptPlan, AgentPlan
  <2>6. ~Engaged(w) => Tail(w) = <<>>
    BY <2>1, ScriptPlan, AgentPlan
  <2> QED BY <1>4, <2>3, <2>4, <2>5, <2>6, Nothing DEF t, p
<1> QED BY <1>1, <1>2, <1>3 DEF Process

-----------------------------------------------------------------------------
(* What the operations write.                                              *)

\* What each operation writes.
LEMMA AppliedToPhase ==
    ASSUME NEW op, NEW s \in Snapshot, op.phase \in Phase,
           op.do \in {"start", "pause", "complete", "skip", "fail"}
    PROVE  /\ Applied(op, s) \in Snapshot /\ Applied(op, s).status = s.status
           /\ op.do = "start" => Applied(op, s).phases[op.phase] = "Running"
           /\ op.do = "pause" => Applied(op, s).phases[op.phase] = "Paused"
           /\ op.do = "complete" => Applied(op, s).phases[op.phase] = "Completed"
           /\ op.do = "skip" => Applied(op, s).phases[op.phase] = "Skipped"
           /\ op.do = "fail" => Applied(op, s).phases[op.phase] = "Failed"
           /\ \A r \in Phase : r # op.phase => Applied(op, s).phases[r] = s.phases[r]
<1>1. ASSUME NEW status \in PhaseStatus
      PROVE  /\ WithPhase(s, op.phase, status) \in Snapshot
             /\ WithPhase(s, op.phase, status).status = s.status
             /\ WithPhase(s, op.phase, status).phases[op.phase] = status
             /\ \A r \in Phase : r # op.phase =>
                   WithPhase(s, op.phase, status).phases[r] = s.phases[r]
  BY DEF WithPhase, Snapshot
<1>2. {"Running", "Paused", "Completed", "Skipped", "Failed"} \subseteq PhaseStatus
  BY DEF PhaseStatus
<1>3. /\ op.do = "start" => Applied(op, s) = WithPhase(s, op.phase, "Running")
      /\ op.do = "pause" => Applied(op, s) = WithPhase(s, op.phase, "Paused")
      /\ op.do = "complete" => Applied(op, s) = WithPhase(s, op.phase, "Completed")
      /\ op.do = "skip" => Applied(op, s) = WithPhase(s, op.phase, "Skipped")
      /\ op.do = "fail" => Applied(op, s) = WithPhase(s, op.phase, "Failed")
  BY DEF Applied
<1> QED BY <1>1, <1>2, <1>3

\* What each operation writes.
LEMMA AppliedToStatus ==
    ASSUME NEW op, NEW s \in Snapshot,
           op.do \in {"meter", "finish", "giveUp", "begin", "archive"}
    PROVE  /\ Applied(op, s) \in Snapshot /\ Applied(op, s).phases = s.phases
           /\ op.do = "meter" => Applied(op, s) = s
           /\ op.do = "finish" => Applied(op, s).status = "Completed"
           /\ op.do = "giveUp" => Applied(op, s).status = "Failed"
           /\ op.do = "begin" => Applied(op, s).status = "Running"
           /\ op.do = "archive" => Applied(op, s).status = "Archived"
<1>1. ASSUME NEW status \in TaskStatus
      PROVE  /\ WithStatus(s, status) \in Snapshot
             /\ WithStatus(s, status).status = status
             /\ WithStatus(s, status).phases = s.phases
  BY DEF WithStatus, Snapshot
<1>2. {"Completed", "Failed", "Running", "Archived"} \subseteq TaskStatus
  BY DEF TaskStatus
<1>3. /\ op.do = "meter" => Applied(op, s) = s
      /\ op.do = "finish" => Applied(op, s) = WithStatus(s, "Completed")
      /\ op.do = "giveUp" => Applied(op, s) = WithStatus(s, "Failed")
      /\ op.do = "begin" => Applied(op, s) = WithStatus(s, "Running")
      /\ op.do = "archive" => Applied(op, s) = WithStatus(s, "Archived")
  BY DEF Applied
<1> QED BY <1>1, <1>2, <1>3

\* What each operation writes.
LEMMA AppliedToPhases ==
    ASSUME NEW op, NEW s \in Snapshot, op.do \in {"approve", "clear"}
    PROVE  /\ Applied(op, s) \in Snapshot /\ Applied(op, s).status = s.status
           /\ op.do = "approve" =>
                 \A r \in Phase : Applied(op, s).phases[r] = Approved(r, s.phases[r])
           /\ op.do = "clear" =>
                 \A r \in Phase : Applied(op, s).phases[r] = Cleared(op.task, r, s.phases[r])
<1>1. CASE op.do = "approve"
  <2>1. Applied(op, s) = [s EXCEPT !.phases = [r \in Phase |-> Approved(r, s.phases[r])]]
    BY <1>1 DEF Applied, WithPhases
  <2>2. \A r \in Phase : Approved(r, s.phases[r]) \in PhaseStatus
    BY DEF Approved, Snapshot, PhaseStatus
  <2> QED BY <1>1, <2>1, <2>2 DEF Snapshot
<1>2. CASE op.do = "clear"
  <2>1. Applied(op, s) =
           [s EXCEPT !.phases = [r \in Phase |-> Cleared(op.task, r, s.phases[r])]]
    BY <1>2 DEF Applied, WithPhases
  <2>2. \A r \in Phase : Cleared(op.task, r, s.phases[r]) \in PhaseStatus
    BY DEF Cleared, Snapshot, PhaseStatus
  <2> QED BY <1>2, <2>1, <2>2 DEF Snapshot
<1> QED BY <1>1, <1>2

\* What each operation writes.
LEMMA AppliedToBoth ==
    ASSUME NEW op, NEW s \in Snapshot, op.phase \in Phase,
           op.do \in {"unstop", "stop", "reopen"}
    PROVE  /\ Applied(op, s) \in Snapshot
           /\ op.do = "unstop" =>
                 /\ Applied(op, s).status = "Running"
                 /\ \A r \in Phase : Applied(op, s).phases[r] = Unstopped(r, s.phases[r])
           /\ op.do = "stop" =>
                 /\ Applied(op, s).status = "Stopped"
                 /\ \A r \in Phase : Applied(op, s).phases[r] = Interrupted(r, s.phases[r])
           /\ op.do = "reopen" =>
                 /\ Applied(op, s).status = "Pending"
                 /\ Applied(op, s).phases[op.phase] = "absent"
                 /\ \A r \in Phase : r # op.phase => Applied(op, s).phases[r] = s.phases[r]
<1>1. CASE op.do = "unstop"
  <2> DEFINE u == [s EXCEPT !.phases = [r \in Phase |-> Unstopped(r, s.phases[r])]]
  <2>1. Applied(op, s) = [u EXCEPT !.status = "Running"]
    BY <1>1 DEF Applied, WithPhases, WithStatus
  <2>2. \A r \in Phase : Unstopped(r, s.phases[r]) \in PhaseStatus
    BY DEF Unstopped, Snapshot, PhaseStatus
  <2>3. u \in Snapshot /\ \A r \in Phase : u.phases[r] = Unstopped(r, s.phases[r])
    BY <2>2 DEF Snapshot
  <2> HIDE DEF u
  <2> QED BY <1>1, <2>1, <2>3 DEF Snapshot, TaskStatus
<1>2. CASE op.do = "stop"
  <2> DEFINE u == [s EXCEPT !.phases = [r \in Phase |-> Interrupted(r, s.phases[r])]]
  <2>1. Applied(op, s) = [u EXCEPT !.status = "Stopped"]
    BY <1>2 DEF Applied, WithPhases, WithStatus
  <2>2. \A r \in Phase : Interrupted(r, s.phases[r]) \in PhaseStatus
    BY DEF Interrupted, Snapshot, PhaseStatus
  <2>3. u \in Snapshot /\ \A r \in Phase : u.phases[r] = Interrupted(r, s.phases[r])
    BY <2>2 DEF Snapshot
  <2> HIDE DEF u
  <2> QED BY <1>2, <2>1, <2>3 DEF Snapshot, TaskStatus
<1>3. CASE op.do = "reopen"
  <2>1. Applied(op, s) = [[s EXCEPT !.phases[op.phase] = "absent"] EXCEPT !.status = "Pending"]
    BY <1>3 DEF Applied, WithPhase, WithStatus
  <2> QED BY <1>3, <2>1, ZenonT(60) DEF Snapshot, TaskStatus, PhaseStatus
<1> QED BY <1>1, <1>2, <1>3

\* Whatever an operation does to a snapshot, a snapshot comes of it.
LEMMA AppliedIsSnapshot ==
    ASSUME NEW op, NEW s \in Snapshot, op.phase \in Phase, op.do \in StoreOps
    PROVE  Applied(op, s) \in Snapshot
<1>1. \/ op.do \in {"start", "pause", "complete", "skip", "fail"}
      \/ op.do \in {"meter", "finish", "giveUp", "begin", "archive"}
      \/ op.do \in {"approve", "clear"} \/ op.do \in {"unstop", "stop", "reopen"}
  BY DEF StoreOps
<1> QED BY <1>1, AppliedToPhase, AppliedToStatus, AppliedToPhases, AppliedToBoth

\* What a process does when an operation refuses, in any state of a run.
LEMMA Refused ==
    ASSUME WorkflowTypeOK, NEW q \in Process, plan[q] # <<>>, Next1(q).do \in StoreOps,
           NEW s \in Snapshot, ~Accepts(Next1(q), s),
           NEW v, v = AfterRefusal(q, Next1(q), s)
    PROVE  LET op == Next1(q)
               then(do) == Op(do, op.task, op.phase)
           IN  \/ IsA("folder", q) /\ op.do = "complete" /\ v = <<then("phaseFailed")>>
               \/ /\ IsA("prompt", q) /\ op.do = "complete"
                  /\ v = <<then("fail"), then("turn")>> \/ v = <<then("turn")>>
               \/ q = User /\ op.do \in {"complete", "begin", "reopen"} /\ v = <<>>
               \/ q # User /\ op.do \in {"meter", "finish", "clear", "unstop"} /\ v = Tail(plan[q])
<1> DEFINE op == Next1(q)
           t == op.task
           p == op.phase
<1>0. IsPlan(q, plan[q]) /\ op = Head(plan[q])
  BY DEF WorkflowTypeOK, PlansOK, Next1
<1>1. op.do \in {"complete", "meter", "finish", "clear", "unstop", "begin", "reopen"}
  BY DEF Accepts
<1>2. CASE q = QueueManager
  <2>1. op.do \in {"finish", "clear", "unstop"}
    BY <1>0, <1>1, <1>2, PlanOf, ManagerPlan
  <2>2. v = Tail(plan[q])
    BY <1>2, <2>1 DEF AfterRefusal
  <2> QED BY <1>2, <2>1, <2>2, Processes
<1>3. CASE q = User
  <2>1. plan[q] \in UserPlans(t, p)
    BY <1>0, <1>3, PlanOf
  <2>2. op.do \in {"complete", "begin", "reopen"}
    BY <1>0, <1>1, <2>1, UserPlan
  <2>3. op.do = "begin" => v = <<>>
    BY <1>3 DEF AfterRefusal
  <2>4. op.do = "reopen" => v = <<>>
    BY <1>0, <2>1, UserPlan DEF AfterRefusal
  <2>5. CASE op.do = "complete"
    <3>1. OutputsThere(t, p)
      BY <1>0, <1>3, <2>1, <2>5, UserPlan, Processes DEF WorkflowTypeOK, PlansOK, IsA
    <3>2. s.status = "Stopped"
      BY <2>5, <3>1 DEF Accepts
    <3> QED BY <1>3, <2>5, <3>2, Processes DEF AfterRefusal, IsA
  <2> QED BY <1>3, <2>2, <2>3, <2>4, <2>5
<1>4. CASE IsA("folder", q)
  <2>1. plan[q] \in ScriptPlans(t, p)
    BY <1>0, <1>4, PlanOf DEF IsA
  <2>2. op.do \in {"complete", "meter"}
    BY <1>0, <1>1, <2>1, ScriptPlan
  <2> QED BY <1>4, <2>2, Processes DEF AfterRefusal, IsA
<1>5. CASE IsA("prompt", q)
  <2>1. plan[q] \in AgentPlans(t, p)
    BY <1>0, <1>5, PlanOf DEF IsA
  <2>2. op.do \in {"complete", "meter"}
    BY <1>0, <1>1, <2>1, AgentPlan
  <2> QED BY <1>5, <2>2, Processes DEF AfterRefusal, IsA
<1> QED BY <1>0, <1>2, <1>3, <1>4, <1>5, PlanOf DEF Process, IsA

-----------------------------------------------------------------------------
(* Type correctness.                                                       *)

\* What an operation accepts it still accepts when there are more outputs.
LEMMA AcceptsMore ==
    ASSUME WorkflowTypeOK, NEW t \in Task, outputs[t] \subseteq outputs'[t],
           NEW op, op.task = t, NEW s \in Snapshot, Accepts(op, s)
    PROVE  Accepts(op, s)'
<1>1. \A p \in Phase : OutputsThere(t, p) => OutputsThere(t, p)'
  BY DEF OutputsThere
<1>2. CASE op.do = "complete"
  BY <1>2 DEF Accepts, OutputsThere
<1>3. CASE op.do = "clear"
  <2>1. PICK p \in Phase : s.phases[p] # Cleared(t, p, s.phases[p])
    BY <1>3 DEF Accepts
  <2>2. s.phases[p] # Cleared(t, p, s.phases[p])'
    BY <1>1, <2>1 DEF Cleared
  <2> QED BY <1>3, <2>2 DEF Accepts
<1>4. CASE op.do \notin {"complete", "clear"}
  BY <1>4 DEF Accepts
<1> QED BY <1>2, <1>3, <1>4

\* The processes of Q get a plan; the others go on with theirs.
LEMMA ProcessesKept ==
    ASSUME WorkflowTypeOK, NEW Q,
           plan' = [q \in Process |-> plan'[q]],
           held' \in [Process -> Snapshot \cup {NoSnapshot}],
           pc' # "work" => plan'[QueueManager] = <<>>,
           \A t \in Task : outputs[t] \subseteq outputs'[t],
           \A q \in Process \ Q : plan'[q] = plan[q] /\ held'[q] = held[q],
           \A q \in Q \cap Process :
              /\ IsPlan(q, plan'[q]) /\ held'[q] = NoSnapshot
              /\ Has(plan'[q], {"complete"}) /\ ~IsA("prompt", q)
                    => OutputsThere(Next1(q).task, Next1(q).phase)'
    PROVE  PlansOK' /\ HeldOK'
<1>1. PlansOK'
  <2>1. ASSUME NEW q \in Process PROVE IsPlan(q, plan'[q])
    BY DEF WorkflowTypeOK, PlansOK
  <2>2. ASSUME NEW q \in Process, Has(plan'[q], {"complete"}), ~IsA("prompt", q)
        PROVE  OutputsThere(Next1(q).task, Next1(q).phase)'
    <3>1. CASE q \in Q
      BY <2>2, <3>1
    <3>2. CASE q \notin Q
      <4>1. plan'[q] = plan[q]
        BY <3>2
      <4>2. OutputsThere(Next1(q).task, Next1(q).phase)
        BY <2>2, <4>1 DEF WorkflowTypeOK, PlansOK
      <4>3. Next1(q).task \in Task
        BY <2>2, <4>1, PlanOf, Nothing DEF WorkflowTypeOK, PlansOK, Next1
      <4> QED BY <4>1, <4>2, <4>3 DEF OutputsThere, Next1
    <3> QED BY <3>1, <3>2
  <2> QED BY <2>1, <2>2 DEF PlansOK
<1>2. ASSUME NEW q \in Process, held'[q] # NoSnapshot
      PROVE  (plan[q] # <<>> /\ Next1(q).do \in StoreOps /\ Accepts(Next1(q), held[q]))'
  <2>1. q \notin Q /\ plan'[q] = plan[q] /\ held'[q] = held[q]
    BY <1>2
  <2>2. plan[q] # <<>> /\ Next1(q).do \in StoreOps /\ Accepts(Next1(q), held[q])
    BY <1>2, <2>1 DEF WorkflowTypeOK, HeldOK
  <2>3. Next1(q).task \in Task /\ held[q] \in Snapshot
    BY <1>2, <2>1, <2>2, PlanOf DEF WorkflowTypeOK, PlansOK, HeldOK, Next1
  <2> DEFINE op == Next1(q)
             s == held[q]
  <2>4. PICK a, b : a = op /\ b = s
    OBVIOUS
  <2>5. Accepts(a, b)'
    BY <2>2, <2>3, <2>4, AcceptsMore
  <2> QED BY <2>1, <2>2, <2>4, <2>5 DEF Next1
<1> QED BY <1>1, <1>2 DEF HeldOK

\* One process gets a plan and has nothing in hand.
LEMMA OnePlan ==
    ASSUME WorkflowTypeOK, NEW q \in Process, NEW v, IsPlan(q, v),
           plan' = [plan EXCEPT ![q] = v],
           \/ held' = held /\ held[q] = NoSnapshot
           \/ held' = [held EXCEPT ![q] = NoSnapshot],
           pc' # "work" => plan'[QueueManager] = <<>>,
           \A t \in Task : outputs[t] \subseteq outputs'[t],
           Has(v, {"complete"}) /\ ~IsA("prompt", q)
              => OutputsThere(Head(v).task, Head(v).phase)'
    PROVE  PlansOK' /\ HeldOK'
<1>1. /\ plan' = [r \in Process |-> plan'[r]] /\ plan'[q] = v
      /\ \A r \in Process \ {q} : plan'[r] = plan[r]
  BY DEF WorkflowTypeOK, PlansOK
<1>2. /\ held' \in [Process -> Snapshot \cup {NoSnapshot}] /\ held'[q] = NoSnapshot
      /\ \A r \in Process \ {q} : held'[r] = held[r]
  BY DEF WorkflowTypeOK, HeldOK
<1>3. Next1(q)' = Head(v)
  BY <1>1 DEF Next1
<1>4. \A r \in {q} \cap Process :
         /\ IsPlan(r, plan'[r]) /\ held'[r] = NoSnapshot
         /\ Has(plan'[r], {"complete"}) /\ ~IsA("prompt", r)
               => OutputsThere(Next1(r).task, Next1(r).phase)'
  <2>1. OutputsThere(Next1(q).task, Next1(q).phase)' <=> OutputsThere(Head(v).task, Head(v).phase)'
    BY <1>3 DEF OutputsThere
  <2> QED BY <1>1, <1>2, <2>1
<1> QED BY <1>1, <1>2, <1>4, ProcessesKept

\* Nothing in hand means that the next operation is not one on a file, or is not read yet.
LEMMA NothingHeld ==
    ASSUME WorkflowTypeOK, NEW q \in Process, plan[q] = <<>> \/ Next1(q).do \notin StoreOps
    PROVE  held[q] = NoSnapshot
BY DEF WorkflowTypeOK, HeldOK

\* Types are kept by a read, whether the operation is accepted or refused.
LEMMA ReadTyped ==
    ASSUME WorkflowTypeOK, NEW q \in Process, Read(q)
    PROVE  WorkflowTypeOK'
<1> DEFINE op == Next1(q)
           s == snap[op.task]
<1>1. /\ IsPlan(q, plan[q]) /\ plan[q] # <<>> /\ op.do \in StoreOps /\ held[q] = NoSnapshot
      /\ op.task \in Task /\ op.phase \in Phase /\ op = Head(plan[q])
  BY PlanOf DEF Read, WorkflowTypeOK, PlansOK, Next1
<1>2. s \in Snapshot
  BY <1>1 DEF WorkflowTypeOK, StateOK
<1>3. StateOK'
  BY DEF Read, WorkflowTypeOK, StateOK, queues, user
<1>4. CASE Accepts(op, s) /\ held' = [held EXCEPT ![q] = s] /\ UNCHANGED plan
  <2>1. PlansOK'
    BY <1>4 DEF WorkflowTypeOK, PlansOK, Read, OutputsThere, Next1
  <2>2. \A t, p : OutputsThere(t, p)' <=> OutputsThere(t, p)
    BY DEF Read, OutputsThere
  <2>3. held' \in [Process -> Snapshot \cup {NoSnapshot}]
    BY <1>2, <1>4 DEF WorkflowTypeOK, HeldOK
  <2>4. ASSUME NEW r \in Process, held'[r] # NoSnapshot
        PROVE  (plan[r] # <<>> /\ Next1(r).do \in StoreOps /\ Accepts(Next1(r), held[r]))'
    <3>1. /\ plan[r] # <<>> /\ Next1(r).do \in StoreOps /\ Accepts(Next1(r), held'[r])
          /\ Next1(r).task \in Task /\ held'[r] \in Snapshot
      BY <1>1, <1>2, <1>4, <2>3, <2>4, PlanOf DEF WorkflowTypeOK, PlansOK, HeldOK, Next1
    <3>2. PICK a, b : a = Next1(r) /\ b = held'[r]
      OBVIOUS
    <3>3. Accepts(a, b)'
      BY <3>1, <3>2, AcceptsMore DEF Read
    <3> QED BY <1>4, <3>1, <3>2, <3>3 DEF Next1
  <2>5. HeldOK'
    BY <2>3, <2>4 DEF HeldOK
  <2> QED BY <1>3, <2>1, <2>5 DEF WorkflowTypeOK
<1>5. CASE ~Accepts(op, s) /\ plan' = [plan EXCEPT ![q] = AfterRefusal(q, op, s)]
           /\ UNCHANGED held
  <2> DEFINE v == AfterRefusal(q, op, s)
             then(do) == Op(do, op.task, op.phase)
  <2>1. \/ IsA("folder", q) /\ op.do = "complete" /\ v = <<then("phaseFailed")>>
        \/ /\ IsA("prompt", q) /\ op.do = "complete"
           /\ v = <<then("fail"), then("turn")>> \/ v = <<then("turn")>>
        \/ q = User /\ op.do \in {"complete", "begin", "reopen"} /\ v = <<>>
        \/ q # User /\ op.do \in {"meter", "finish", "clear", "unstop"} /\ v = Tail(plan[q])
    BY <1>1, <1>2, <1>5, Refused
  <2> HIDE DEF v
  <2>2. /\ IsPlan(q, v)
        /\ Has(v, {"complete"}) /\ ~IsA("prompt", q)
              => OutputsThere(Head(v).task, Head(v).phase)
    <3>1. CASE IsA("folder", q) /\ v = <<then("phaseFailed")>>
      <4>1. v \in ScriptPlans(op.task, op.phase)
        BY <3>1 DEF ScriptPlans
      <4>2. ~Has(v, {"complete"})
        BY <3>1, Single DEF Op
      <4> QED BY <1>1, <3>1, <4>1, <4>2, IsAPlan, PlanOf DEF IsA
    <3>2. CASE IsA("prompt", q) /\ (v = <<then("fail"), then("turn")>> \/ v = <<then("turn")>>)
      <4>1. v \in AgentPlans(op.task, op.phase)
        BY <3>2 DEF AgentPlans
      <4> QED BY <1>1, <3>2, <4>1, IsAPlan, PlanOf DEF IsA
    <3>3. CASE v = <<>>
      BY <3>3, EmptyPlan, Nothing
    <3>4. CASE v = Tail(plan[q])
      <4>1. IsPlan(q, v) /\ (Has(v, {"complete"}) => Has(plan[q], {"complete"}))
            /\ (v # <<>> => Head(v).task = op.task /\ Head(v).phase = op.phase)
        BY <1>1, <3>4, PlanTail
      <4> QED BY <4>1, Nothing DEF WorkflowTypeOK, PlansOK
    <3> QED BY <2>1, <3>1, <3>2, <3>3, <3>4
  <2>3. plan' = [plan EXCEPT ![q] = v] /\ outputs' = outputs /\ pc' = pc
    BY <1>5 DEF v, Read
  <2>4. pc' # "work" => plan'[QueueManager] = <<>>
    BY <1>1, <2>3, Processes DEF Read, WorkflowTypeOK, PlansOK
  <2>5. PICK a : a = v
    OBVIOUS
  <2>6. OutputsThere(Head(a).task, Head(a).phase) => OutputsThere(Head(a).task, Head(a).phase)'
    BY <2>3 DEF OutputsThere
  <2>7. PlansOK' /\ HeldOK'
    BY <1>1, <1>5, <2>2, <2>3, <2>4, <2>5, <2>6, OnePlan
  <2> QED BY <1>3, <2>7 DEF WorkflowTypeOK
<1> QED BY <1>4, <1>5 DEF Read

\* Types are kept by a write: what was accepted is a snapshot, and so is what comes
\* of it.
LEMMA WriteTyped ==
    ASSUME WorkflowTypeOK, NEW q \in Process, Write(q)
    PROVE  WorkflowTypeOK'
<1> DEFINE op == Next1(q)
           v == Tail(plan[q])
<1>1. /\ IsPlan(q, plan[q]) /\ plan[q] # <<>> /\ op.do \in StoreOps /\ held[q] \in Snapshot
      /\ op.task \in Task /\ op.phase \in Phase /\ op = Head(plan[q])
  BY PlanOf DEF Write, WorkflowTypeOK, PlansOK, HeldOK, Next1
<1>2. snap' \in [Task -> Snapshot]
  BY <1>1, AppliedIsSnapshot DEF Write, WorkflowTypeOK, StateOK
<1>3. StateOK'
  BY <1>2 DEF Write, WorkflowTypeOK, StateOK, queues, user
<1>4. /\ IsPlan(q, v) /\ (Has(v, {"complete"}) => Has(plan[q], {"complete"}))
      /\ v # <<>> => Head(v).task = op.task /\ Head(v).phase = op.phase
  BY <1>1, PlanTail
<1>5. plan' = [plan EXCEPT ![q] = v] /\ outputs' = outputs /\ pc' = pc
      /\ held' = [held EXCEPT ![q] = NoSnapshot]
  BY DEF Write
<1>6. Has(v, {"complete"}) /\ ~IsA("prompt", q) => OutputsThere(Head(v).task, Head(v).phase)
  BY <1>4, Nothing DEF WorkflowTypeOK, PlansOK
<1>7. pc' # "work" => plan'[QueueManager] = <<>>
  BY <1>1, <1>5, Processes DEF WorkflowTypeOK, PlansOK
<1> HIDE DEF v
<1>8. PICK a : a = v
  OBVIOUS
<1>9. OutputsThere(Head(a).task, Head(a).phase) => OutputsThere(Head(a).task, Head(a).phase)'
  BY <1>5 DEF OutputsThere
<1>10. PlansOK' /\ HeldOK'
  BY <1>4, <1>5, <1>6, <1>7, <1>8, <1>9, OnePlan
<1> QED BY <1>3, <1>10 DEF WorkflowTypeOK

\* A process takes the next operation off its plan, and it is not one on a file.
LEMMA TakenOff ==
    ASSUME WorkflowTypeOK, NEW q \in Process, plan[q] # <<>>, Next1(q).do \notin StoreOps,
           plan' = [plan EXCEPT ![q] = Tail(@)], outputs' = outputs, pc' = pc, held' = held
    PROVE  PlansOK' /\ HeldOK'
<1> DEFINE op == Next1(q)
           v == Tail(plan[q])
<1>1. /\ IsPlan(q, plan[q]) /\ held[q] = NoSnapshot /\ op = Head(plan[q])
      /\ op.task \in Task /\ op.phase \in Phase
  BY NothingHeld, PlanOf DEF WorkflowTypeOK, PlansOK, Next1
<1>4. /\ IsPlan(q, v) /\ (Has(v, {"complete"}) => Has(plan[q], {"complete"}))
      /\ v # <<>> => Head(v).task = op.task /\ Head(v).phase = op.phase
  BY <1>1, PlanTail
<1>5. plan' = [plan EXCEPT ![q] = v]
  OBVIOUS
<1>6. Has(v, {"complete"}) /\ ~IsA("prompt", q) => OutputsThere(Head(v).task, Head(v).phase)
  BY <1>4, Nothing DEF WorkflowTypeOK, PlansOK
<1>7. pc' # "work" => plan'[QueueManager] = <<>>
  BY <1>1, <1>5, Processes DEF WorkflowTypeOK, PlansOK
<1> HIDE DEF v
<1>8. PICK a : a = v
  OBVIOUS
<1>9. OutputsThere(Head(a).task, Head(a).phase) => OutputsThere(Head(a).task, Head(a).phase)'
  BY DEF OutputsThere
<1> QED BY <1>1, <1>4, <1>5, <1>6, <1>7, <1>8, <1>9, OnePlan

\* Types are kept when a message is sent.
LEMMA TellTyped ==
    ASSUME WorkflowTypeOK, NEW q \in Process, Tell(q)
    PROVE  WorkflowTypeOK'
<1>1. Next1(q) \in [do : Messages, task : Task, phase : Phase]
  <2> DEFINE op == Next1(q)
  <2>1. IsPlan(q, plan[q]) /\ plan[q] # <<>> /\ op = Head(plan[q]) /\ op.do \in Messages
    BY DEF Tell, WorkflowTypeOK, PlansOK, Next1
  <2>2. op.task \in Task /\ op.phase \in Phase
    BY <2>1, PlanOf
  <2>3. op = Op(op.do, op.task, op.phase)
    BY <2>1, PlanOf, ManagerPlan, UserPlan, ScriptPlan, AgentPlan DEF Process
  <2> QED BY <2>1, <2>2, <2>3 DEF Op
<1>2. Next1(q).do \notin StoreOps
  BY DEF Tell, Messages, StoreOps
<1>3. PlansOK' /\ HeldOK'
  BY <1>2, TakenOff DEF Tell
<1>4. inbox' \in Seq([do : Messages, task : Task, phase : Phase])
  BY <1>1, AppendProperties DEF Tell, WorkflowTypeOK, StateOK
<1>5. StateOK'
  BY <1>4 DEF Tell, WorkflowTypeOK, StateOK, queues, user
<1> QED BY <1>3, <1>5 DEF WorkflowTypeOK

\* The manager gets something to do for a task, or nothing.
LEMMA ManagerTodo ==
    ASSUME WorkflowTypeOK, NEW v, Todo(v), pc' = "work", held' = held, outputs' = outputs,
           plan[QueueManager] = <<>> \/ Next1(QueueManager).do \notin StoreOps,
           v = <<>> \/ \E t \in Task, p \in Phase : v \in ManagerPlans(t, p)
    PROVE  PlansOK' /\ HeldOK'
<1>1. IsPlan(QueueManager, v) /\ ~Has(v, {"complete"})
  <2>1. CASE v = <<>>
    BY <2>1, EmptyPlan, Nothing
  <2>2. ASSUME NEW t \in Task, NEW p \in Phase, v \in ManagerPlans(t, p)
        PROVE  IsPlan(QueueManager, v) /\ ~Has(v, {"complete"})
    BY <2>2, IsAPlan, ManagerPlan
  <2> QED BY <2>1, <2>2
<1>2. held[QueueManager] = NoSnapshot
  BY NothingHeld, Processes
<1> QED BY <1>1, <1>2, OnePlan, Processes DEF Todo

\* Nobody's plan changes and the manager has nothing to do.
LEMMA NoPlanChanges ==
    ASSUME WorkflowTypeOK, plan' = plan, held' = held, outputs' = outputs,
           pc' = pc \/ plan[QueueManager] = <<>>
    PROVE  PlansOK' /\ HeldOK'
<1>1. /\ plan' = [q \in Process |-> plan'[q]] /\ held' \in [Process -> Snapshot \cup {NoSnapshot}]
      /\ pc' # "work" => plan'[QueueManager] = <<>>
  BY DEF WorkflowTypeOK, PlansOK, HeldOK
<1>2. /\ \A q \in Process \ {} : plan'[q] = plan[q] /\ held'[q] = held[q]
      /\ \A t \in Task : outputs[t] \subseteq outputs'[t]
      /\ {} \cap Process = {}
  OBVIOUS
<1> QED BY <1>1, <1>2, ProcessesKept

\* Types are kept when the manager takes a message.
LEMMA ReceiveTyped ==
    ASSUME WorkflowTypeOK, Receive
    PROVE  WorkflowTypeOK'
<1> DEFINE m == Head(inbox)
<1>1. /\ inbox # <<>> /\ m.task \in Task /\ m.phase \in Phase
      /\ inbox' = Tail(inbox) /\ inbox' \in Seq([do : Messages, task : Task, phase : Phase])
      /\ plan[QueueManager] = <<>>
  <2>1. inbox # <<>> /\ inbox' = Tail(inbox) /\ plan[QueueManager] = <<>>
    BY DEF Receive, WorkflowTypeOK, PlansOK
  <2>2. inbox \in Seq([do : Messages, task : Task, phase : Phase])
    BY DEF WorkflowTypeOK, StateOK
  <2>3. m \in [do : Messages, task : Task, phase : Phase]
    BY <2>1, <2>2, HeadTailProperties
  <2>4. Tail(inbox) \in Seq([do : Messages, task : Task, phase : Phase])
    BY <2>1, <2>2, HeadTailProperties
  <2> QED BY <2>1, <2>3, <2>4
<1>2. Append(ready, m.task) \in Seq(Task)
  BY <1>1, AppendProperties DEF WorkflowTypeOK, StateOK
<1>3. /\ <<Op("giveUp", m.task, m.phase)>> \in ManagerPlans(m.task, m.phase)
      /\ <<Op("unstop", m.task, m.phase), Op("requeue", m.task, m.phase)>>
            \in ManagerPlans(m.task, m.phase)
      /\ <<Op("approve", m.task, m.phase), Op("clear", m.task, m.phase),
           Op("requeue", m.task, m.phase)>> \in ManagerPlans(m.task, m.phase)
  BY DEF ManagerPlans
<1>4. CASE ReceiveStart(m)
  <2>1. PlansOK' /\ HeldOK'
    BY <1>1, <1>4, NoPlanChanges DEF Receive, ReceiveStart
  <2> QED BY <1>1, <1>2, <1>4, <2>1
        DEF Receive, ReceiveStart, WorkflowTypeOK, StateOK, user
<1>5. CASE ReceiveCompleted(m)
  <2>1. PlansOK' /\ HeldOK'
    BY <1>1, <1>5, NoPlanChanges DEF Receive, ReceiveCompleted
  <2> QED BY <1>1, <1>2, <1>5, <2>1
        DEF Receive, ReceiveCompleted, WorkflowTypeOK, StateOK, user
<1>6. CASE ReceiveFailed(m)
  <2>1. PlansOK' /\ HeldOK'
    BY <1>1, <1>3, <1>6, ManagerTodo DEF Receive, ReceiveFailed
  <2> QED BY <1>1, <1>6, <2>1 DEF Receive, ReceiveFailed, WorkflowTypeOK, StateOK, user
<1>7. CASE ReceiveResume(m)
  <2>1. \E v : Todo(v) /\ v \in ManagerPlans(m.task, m.phase)
    BY <1>3, <1>7 DEF ReceiveResume
  <2>2. PlansOK' /\ HeldOK'
    BY <1>1, <1>7, <2>1, ManagerTodo DEF Receive, ReceiveResume
  <2> QED BY <1>1, <1>7, <2>2 DEF Receive, ReceiveResume, WorkflowTypeOK, StateOK, user
<1> QED BY <1>4, <1>5, <1>6, <1>7 DEF Receive

\* Phases are natural numbers, from 1.
LEMMA PhaseFacts == 1 \in Phase /\ Phase \subseteq Nat
BY WorkflowAssumptions DEF Phase

\* A set of numbers that is not empty has a least one.
LEMMA Least ==
    ASSUME NEW S, S \subseteq Nat, S # {}
    PROVE  \E n \in S : \A m \in S : n <= m
<1> DEFINE R == {s \in Nat \X Nat : s[1] < s[2]}
<1>1. IsWellFoundedOn(R, Nat)
  BY NatLessThanWellFounded DEF OpToRel
<1>2. PICK n \in S : \A m \in S : ~(<<m, n>> \in R)
  <2> HIDE DEF R
  <2> QED BY <1>1, WFMin
<1>3. \A m \in S : n \in Nat /\ m \in Nat /\ ~(m < n)
  BY <1>2
<1>4. \A m \in S : n <= m
  BY <1>3
<1> QED BY <1>4

\* The phase that is looked for is the first that is not in the file or waits.
LEMMA NextPhaseIsOpen ==
    ASSUME NEW s
    PROVE  \/ NextPhase(s) = 0 /\ \A p \in Phase : ~Open(s, p)
           \/ NextPhase(s) \in Phase /\ IsNext(s, NextPhase(s))
<1> DEFINE open == {p \in Phase : s.phases[p] \in {"absent", "Paused"}}
           least == CHOOSE p \in open : \A r \in open : p <= r
<1>1. CASE open = {}
  BY <1>1 DEF NextPhase, Open
<1>2. CASE open # {}
  <2>1. \E p \in open : \A r \in open : p <= r
    BY <1>2, Least, PhaseFacts
  <2>2. least \in open /\ \A r \in open : least <= r
    BY <2>1
  <2>3. NextPhase(s) = least
    BY <1>2 DEF NextPhase
  <2> HIDE DEF least
  <2>4. \A r \in 1 .. least - 1 : r \in Phase /\ r \notin open
    BY <2>2, WorkflowAssumptions DEF Phase
  <2> QED BY <2>2, <2>3, <2>4 DEF IsNext, Open
<1> QED BY <1>1, <1>2

\* The execution that CanStart promises has nothing to do and nothing read.
LEMMA IdleJobIsIdle ==
    ASSUME WorkflowTypeOK, NEW t \in Task, NEW p \in Phase, CanStart(t, p)
    PROVE  /\ IdleJob(t, p) \in Job /\ IdleJob(t, p)[1] = t /\ IdleJob(t, p)[2] = p
           /\ plan[IdleJob(t, p)] = <<>> /\ held[IdleJob(t, p)] = NoSnapshot
<1>1. IdleJob(t, p) \in {t} \X {p} \X Slots /\ plan[IdleJob(t, p)] = <<>>
  BY DEF CanStart, IdleJob
<1>2. IdleJob(t, p) \in Job /\ IdleJob(t, p)[1] = t /\ IdleJob(t, p)[2] = p
  BY <1>1 DEF Job
<1> QED BY <1>1, <1>2, NothingHeld, Processes

\* The manager has started an execution.
LEMMA JobStarts ==
    ASSUME WorkflowTypeOK, NEW t \in Task, NEW p \in Phase, NEW j \in Job, NEW w,
           j[1] = t, j[2] = p, plan[j] = <<>>,
           \/ TypeOf[p] = "folder" /\ w \in ScriptPlans(t, p)
           \/ TypeOf[p] = "prompt" /\ w \in AgentPlans(t, p),
           ~Has(w, {"complete"}),
           plan[QueueManager] # <<>>, Next1(QueueManager).do \notin StoreOps,
           plan' = [plan EXCEPT ![QueueManager] = <<>>, ![j] = w],
           held' = held, outputs' = outputs
    PROVE  PlansOK' /\ HeldOK'
<1>1. /\ plan' = [q \in Process |-> plan'[q]] /\ plan'[QueueManager] = <<>> /\ plan'[j] = w
      /\ \A q \in Process \ {QueueManager, j} : plan'[q] = plan[q] /\ held'[q] = held[q]
  BY Processes DEF WorkflowTypeOK, PlansOK
<1>2. held[QueueManager] = NoSnapshot /\ held[j] = NoSnapshot
  BY NothingHeld, Processes
<1>3. IsPlan(QueueManager, <<>>) /\ IsPlan(j, w)
  BY IsAPlan, EmptyPlan
<1>4. \A q \in {QueueManager, j} \cap Process :
         /\ IsPlan(q, plan'[q]) /\ held'[q] = NoSnapshot
         /\ Has(plan'[q], {"complete"}) /\ ~IsA("prompt", q)
               => OutputsThere(Next1(q).task, Next1(q).phase)'
  BY <1>1, <1>2, <1>3, Nothing
<1>5. held' \in [Process -> Snapshot \cup {NoSnapshot}]
  BY DEF WorkflowTypeOK, HeldOK
<1> QED BY <1>1, <1>4, <1>5, ProcessesKept

\* What the manager routes is a task to its next phase.
LEMMA ManagerDoing ==
    ASSUME WorkflowTypeOK, plan[QueueManager] # <<>>
    PROVE  LET op == Next1(QueueManager)
           IN  /\ op.task \in Task /\ op.phase \in Phase
               /\ plan[QueueManager] \in ManagerPlans(op.task, op.phase)
               /\ pc = "work"
BY PlanOf, Processes DEF WorkflowTypeOK, PlansOK, StateOK, Next1

\* Types are kept by the steps of the manager on its queues.
LEMMA ManagerTyped ==
    ASSUME WorkflowTypeOK, Heartbeat \/ Pump \/ PumpEnds \/ WorkEnds \/ Requeue
    PROVE  WorkflowTypeOK'
<1>1. CASE Heartbeat
  <2>1. plan[QueueManager] = <<>>
    BY <1>1 DEF Heartbeat, WorkflowTypeOK, PlansOK
  <2>2. ready \o backoff \in Seq(Task) /\ <<>> \in Seq(Task)
    BY ConcatProperties, EmptySeq DEF WorkflowTypeOK, StateOK
  <2>3. PlansOK' /\ HeldOK'
    BY <1>1, <2>1, NoPlanChanges DEF Heartbeat
  <2> QED BY <1>1, <2>2, <2>3 DEF Heartbeat, WorkflowTypeOK, StateOK, user
<1>2. CASE Pump
  <2> DEFINE t == Head(ready)
             p == NextPhase(snap[t])
  <2>1. t \in Task /\ Tail(ready) \in Seq(Task) /\ plan[QueueManager] = <<>>
    BY <1>2, HeadTailProperties DEF Pump, WorkflowTypeOK, StateOK, PlansOK
  <2>2. \E v : Todo(v) /\ \E a \in Task, b \in Phase : v \in ManagerPlans(a, b)
    <3>1. <<Op("finish", t, 1)>> \in ManagerPlans(t, 1)
      BY DEF ManagerPlans
    <3>2. <<Op("route", t, p)>> \in ManagerPlans(t, p)
      BY DEF ManagerPlans
    <3>3. p = 0 \/ p \in Phase
      BY NextPhaseIsOpen
    <3>4. Todo(<<Op("finish", t, 1)>>) \/ (p # 0 /\ Todo(<<Op("route", t, p)>>))
      BY <1>2 DEF Pump
    <3> HIDE DEF t, p
    <3> QED BY <2>1, <3>1, <3>2, <3>3, <3>4, PhaseFacts DEF t
  <2>3. PlansOK' /\ HeldOK'
    BY <1>2, <2>1, <2>2, ManagerTodo DEF Pump
  <2> QED BY <1>2, <2>1, <2>3 DEF Pump, WorkflowTypeOK, StateOK, user
<1>3. CASE PumpEnds
  <2>1. plan[QueueManager] = <<>>
    BY <1>3 DEF PumpEnds, WorkflowTypeOK, PlansOK
  <2>2. PlansOK' /\ HeldOK'
    BY <1>3, <2>1, NoPlanChanges DEF PumpEnds
  <2> QED BY <1>3, <2>2 DEF PumpEnds, WorkflowTypeOK, StateOK, queues, user
<1>4. CASE WorkEnds
  <2>1. PlansOK' /\ HeldOK'
    BY <1>4, NoPlanChanges DEF WorkEnds
  <2> QED BY <1>4, <2>1 DEF WorkEnds, WorkflowTypeOK, StateOK, queues, user
<1>5. CASE Requeue
  <2>1. plan[QueueManager] # <<>> /\ Next1(QueueManager).do = "requeue"
    BY <1>5 DEF Requeue, Doing
  <2>2. Append(ready, Next1(QueueManager).task) \in Seq(Task)
    BY <2>1, ManagerDoing, AppendProperties DEF WorkflowTypeOK, StateOK
  <2>3. PlansOK' /\ HeldOK'
    BY <1>5, <2>1, TakenOff, Processes DEF Requeue, StoreOps
  <2> QED BY <1>5, <2>2, <2>3 DEF Requeue, WorkflowTypeOK, StateOK, user
<1> QED BY <1>1, <1>2, <1>3, <1>4, <1>5

\* Types are kept when the manager pauses a phase or starts its execution.
LEMMA RouteTyped ==
    ASSUME WorkflowTypeOK, NEW t \in Task, NEW p \in Phase,
           RouteToPause(t, p) \/ RouteToScript(t, p) \/ RouteToAgent(t, p)
    PROVE  WorkflowTypeOK'
<1>1. /\ plan[QueueManager] # <<>> /\ Next1(QueueManager).do \notin StoreOps
      /\ pc' = "work" /\ outputs' = outputs /\ held' = held
  BY ManagerDoing DEF RouteToPause, RouteToScript, RouteToAgent, Routed, Doing, StoreOps
<1>2. CASE RouteToPause(t, p)
  <2>1. /\ <<Op("start", t, p), Op("pause", t, p)>> \in ManagerPlans(t, p)
        /\ <<Op("pause", t, p)>> \in ManagerPlans(t, p)
    BY DEF ManagerPlans
  <2>2. \E v : Todo(v) /\ v \in ManagerPlans(t, p)
    BY <1>2, <2>1 DEF RouteToPause
  <2>3. PlansOK' /\ HeldOK'
    BY <1>1, <2>2, ManagerTodo
  <2> QED BY <1>2, <2>3 DEF RouteToPause, WorkflowTypeOK, StateOK, queues, user
<1>3. CASE RouteToScript(t, p) /\ DirectoryConflict(t)
  <2>1. Append(backoff, t) \in Seq(Task)
    BY AppendProperties DEF WorkflowTypeOK, StateOK
  <2>2. Todo(<<>>)
    BY <1>3 DEF RouteToScript
  <2>3. PlansOK' /\ HeldOK'
    BY <1>1, <2>2, ManagerTodo
  <2> QED BY <1>3, <2>1, <2>3 DEF RouteToScript, WorkflowTypeOK, StateOK, user
<1>4. CASE RouteToScript(t, p) /\ ~DirectoryConflict(t)
  <2> DEFINE j == IdleJob(t, p)
             w == <<Op("start", t, p), Op("script", t, p)>>
  <2>1. w \in ScriptPlans(t, p) /\ ~Has(w, {"complete"})
    <3>1. w \in ScriptPlans(t, p)
      BY DEF ScriptPlans
    <3>2. ~Has(w, {"complete"})
      BY Double DEF Op
    <3> QED BY <3>1, <3>2
  <2>2. j \in Job /\ j[1] = t /\ j[2] = p /\ plan[j] = <<>>
    BY <1>4, IdleJobIsIdle DEF RouteToScript
  <2>3. plan' = [plan EXCEPT ![QueueManager] = <<>>, ![j] = w]
    BY <1>4 DEF RouteToScript
  <2>5. TypeOf[p] = "folder"
    BY <1>4, <2>1 DEF RouteToScript
  <2> HIDE DEF j, w
  <2>4. PlansOK' /\ HeldOK'
    BY <1>1, <2>1, <2>2, <2>3, <2>5, JobStarts
  <2> QED BY <1>4, <2>4 DEF RouteToScript, WorkflowTypeOK, StateOK, user
<1>5. CASE RouteToAgent(t, p)
  <2>1. <<Op("start", t, p), Op("coldStart", t, p)>> \in ManagerPlans(t, p)
    BY <1>5 DEF ManagerPlans, RouteToAgent
  <2>2. PlansOK' /\ HeldOK'
    BY <1>1, <1>5, <2>1, ManagerTodo DEF RouteToAgent
  <2> QED BY <1>5, <2>2 DEF RouteToAgent, WorkflowTypeOK, StateOK, user
<1> QED BY <1>2, <1>3, <1>4, <1>5

\* Where ColdStart finds the manager and what it does.
LEMMA ColdStarts ==
    ASSUME WorkflowTypeOK, ColdStart
    PROVE  \E t \in Task, p \in Phase, j \in Job :
              /\ Next1(QueueManager) = Op("coldStart", t, p) /\ plan[QueueManager] # <<>>
              /\ TypeOf[p] = "prompt" /\ j[1] = t /\ j[2] = p /\ plan[j] = <<>>
              /\ plan' = [plan EXCEPT ![QueueManager] = <<>>, ![j] = <<Op("turn", t, p)>>]
<1> DEFINE op == Next1(QueueManager)
           j == IdleJob(op.task, op.phase)
<1>1. plan[QueueManager] # <<>> /\ op.do = "coldStart" /\ CanStart(op.task, op.phase)
  BY DEF ColdStart, Doing
<1>2. op.task \in Task /\ op.phase \in Phase
      /\ plan[QueueManager] \in ManagerPlans(op.task, op.phase) /\ op = Head(plan[QueueManager])
  BY <1>1, ManagerDoing DEF Next1
<1>3. Tail(plan[QueueManager]) = <<>> /\ TypeOf[op.phase] = "prompt"
      /\ op = Op("coldStart", op.task, op.phase)
  BY <1>1, <1>2, ManagerPlan
<1>4. j \in Job /\ j[1] = op.task /\ j[2] = op.phase /\ plan[j] = <<>>
  BY <1>1, <1>2, IdleJobIsIdle
<1>5. plan' = [plan EXCEPT ![QueueManager] = Tail(@), ![j] = <<Op("turn", op.task, op.phase)>>]
  BY DEF ColdStart
<1>6. plan' = [plan EXCEPT ![QueueManager] = <<>>, ![j] = <<Op("turn", op.task, op.phase)>>]
  BY <1>3, <1>5
<1> HIDE DEF j
<1> QED BY <1>1, <1>2, <1>3, <1>4, <1>6

\* Types are kept when the manager starts an agent.
LEMMA ColdStartTyped ==
    ASSUME WorkflowTypeOK, ColdStart
    PROVE  WorkflowTypeOK'
<1>1. PICK t \in Task, p \in Phase, j \in Job :
         /\ Next1(QueueManager) = Op("coldStart", t, p) /\ plan[QueueManager] # <<>>
         /\ TypeOf[p] = "prompt" /\ j[1] = t /\ j[2] = p /\ plan[j] = <<>>
         /\ plan' = [plan EXCEPT ![QueueManager] = <<>>, ![j] = <<Op("turn", t, p)>>]
  BY ColdStarts
<1>2. <<Op("turn", t, p)>> \in AgentPlans(t, p) /\ ~Has(<<Op("turn", t, p)>>, {"complete"})
  BY Single DEF AgentPlans, Op
<1>3. Next1(QueueManager).do \notin StoreOps /\ held' = held /\ outputs' = outputs
  BY <1>1 DEF Op, StoreOps, ColdStart
<1>4. PlansOK' /\ HeldOK'
  BY <1>1, <1>2, <1>3, JobStarts
<1> QED BY <1>4 DEF ColdStart, WorkflowTypeOK, StateOK, queues, user

\* An execution that produces only adds to the outputs, and its own is there.
LEMMA Produced ==
    ASSUME WorkflowTypeOK, NEW t \in Task, NEW p \in Phase, Produce(t, p)
    PROVE  /\ outputs' \in [Task -> SUBSET Phase] /\ OutputsThere(t, p)'
           /\ \A u \in Task : outputs[u] \subseteq outputs'[u]
BY DEF Produce, OutputsThere, WorkflowTypeOK, StateOK

\* What an execution has left to do when its script or the turn of its agent ends.
LEMMA ScriptEndings ==
    ASSUME NEW t \in Task, NEW p \in Phase, NEW a, NEW b, NEW v,
           \/ a = "complete" /\ b = "phaseCompleted"
           \/ a = "fail" /\ b = "phaseFailed",
           v = IfMetered(t, p) \o <<Op(a, t, p), Op(b, t, p)>>
    PROVE  /\ v \in ScriptPlans(t, p) /\ (a = "fail" => ~Has(v, {"complete"}))
           /\ \/ v = <<Op(a, t, p), Op(b, t, p)>>
              \/ v = <<Op("meter", t, p), Op(a, t, p), Op(b, t, p)>>
<1>1. \/ v = <<Op(a, t, p), Op(b, t, p)>>
      \/ v = <<Op("meter", t, p), Op(a, t, p), Op(b, t, p)>>
  BY Concat12, NothingAdded DEF IfMetered
<1>2. v \in ScriptPlans(t, p)
  BY <1>1 DEF ScriptPlans
<1>3. CASE v = <<Op(a, t, p), Op(b, t, p)>>
  <2>1. ~Has(<<Op("fail", t, p), Op("phaseFailed", t, p)>>, {"complete"})
    BY Double DEF Op
  <2>2. a = "fail" => b = "phaseFailed"
    OBVIOUS
  <2> QED BY <1>2, <1>3, <2>1, <2>2
<1>4. CASE v = <<Op("meter", t, p), Op(a, t, p), Op(b, t, p)>>
  <2>1. ~Has(<<Op("meter", t, p), Op("fail", t, p), Op("phaseFailed", t, p)>>, {"complete"})
    BY Triple DEF Op
  <2>2. a = "fail" => b = "phaseFailed"
    OBVIOUS
  <2> QED BY <1>2, <1>4, <2>1, <2>2
<1> QED BY <1>1, <1>3, <1>4

\* What an agent has left to do when its turn ends.
LEMMA TurnEndings ==
    ASSUME NEW t \in Task, NEW p \in Phase, NEW v,
           \/ v = IfMetered(t, p)
           \/ \E do \in {"complete", "skip"} :
                 v = <<Op(do, t, p), Op("phaseCompleted", t, p)>> \o IfMetered(t, p)
    PROVE  /\ v = <<>> \/ v \in AgentPlans(t, p)
           /\ Has(v, {"meter"}) => p \in Metered
           /\ v = <<>> \/ Head(v).do \in {"meter", "complete", "skip"}
<1>1. \/ v = <<>>
      \/ v = <<Op("meter", t, p)>> /\ p \in Metered
      \/ \E do \in {"complete", "skip"} :
            \/ v = <<Op(do, t, p), Op("phaseCompleted", t, p)>>
            \/ v = <<Op(do, t, p), Op("phaseCompleted", t, p), Op("meter", t, p)>> /\ p \in Metered
  BY Concat21, NothingAdded DEF IfMetered
<1>2. v = <<>> \/ v \in AgentPlans(t, p)
  BY <1>1 DEF AgentPlans
<1>3. p \notin Metered => ~Has(v, {"meter"})
  BY <1>1, Nothing, Double DEF Op
<1>4. v = <<>> \/ Head(v).do \in {"meter", "complete", "skip"}
  BY <1>1, Single, Double, Triple DEF Op
<1> QED BY <1>2, <1>3, <1>4

\* Types are kept when a script or a turn of an agent ends.
LEMMA ExecutionTyped ==
    ASSUME WorkflowTypeOK, NEW t \in Task, NEW p \in Phase, NEW n \in Slots,
           ScriptEnds(t, p, n) \/ TurnEnds(t, p, n)
    PROVE  WorkflowTypeOK'
<1> DEFINE j == <<t, p, n>>
<1>1. /\ j \in Job /\ j[1] = t /\ j[2] = p /\ j \in Process /\ j # QueueManager
      /\ plan[j] # <<>> /\ Next1(j).do \in {"script", "turn"}
      /\ ScriptEnds(t, p, n) => Next1(j).do = "script"
      /\ TurnEnds(t, p, n) => Next1(j).do = "turn"
  BY Processes DEF Job, ScriptEnds, TurnEnds, Doing
<1>2. /\ held[j] = NoSnapshot /\ held' = held /\ pc' = pc
      /\ plan'[QueueManager] = plan[QueueManager]
  BY <1>1, NothingHeld, Processes DEF StoreOps, ScriptEnds, TurnEnds, WorkflowTypeOK, PlansOK
<1>3. IsPlan(j, plan[j]) /\ Next1(j) = Head(plan[j])
  BY <1>1 DEF WorkflowTypeOK, PlansOK, Next1
<1> HIDE DEF j
<1>4. ASSUME NEW v, plan' = [plan EXCEPT ![j] = v], IsPlan(j, v),
             \A u \in Task : outputs[u] \subseteq outputs'[u],
             Has(v, {"complete"}) /\ ~IsA("prompt", j)
                => OutputsThere(Head(v).task, Head(v).phase)'
      PROVE  PlansOK' /\ HeldOK'
  <2>1. pc' # "work" => plan'[QueueManager] = <<>>
    BY <1>2 DEF WorkflowTypeOK, PlansOK
  <2> QED BY <1>1, <1>2, <1>4, <2>1, OnePlan
<1>5. CASE ScriptEnds(t, p, n)
  <2>1. TypeOf[p] = "folder"
    BY <1>1, <1>3, <1>5, PlanOf, AgentPlan
  <2>2. ASSUME Produce(t, p),
               plan' = [plan EXCEPT ![j] = IfMetered(t, p) \o
                            <<Op("complete", t, p), Op("phaseCompleted", t, p)>>]
        PROVE  PlansOK' /\ HeldOK'
    <3> DEFINE v == IfMetered(t, p) \o <<Op("complete", t, p), Op("phaseCompleted", t, p)>>
    <3>1. /\ v \in ScriptPlans(t, p)
          /\ \/ v = <<Op("complete", t, p), Op("phaseCompleted", t, p)>>
             \/ v = <<Op("meter", t, p), Op("complete", t, p), Op("phaseCompleted", t, p)>>
      BY ScriptEndings
    <3> HIDE DEF v
    <3>2. IsPlan(j, v) /\ Head(v).task = t /\ Head(v).phase = p
      BY <1>1, <2>1, <3>1, IsAPlan, ScriptPlan, Double, Triple DEF Op
    <3>3. plan' = [plan EXCEPT ![j] = v] /\ \A u \in Task : outputs[u] \subseteq outputs'[u]
      BY <2>2, Produced DEF v
    <3>4. OutputsThere(Head(v).task, Head(v).phase)'
      BY <2>2, <3>2, Produced
    <3> QED BY <1>4, <3>2, <3>3, <3>4
  <2>3. ASSUME UNCHANGED outputs,
               plan' = [plan EXCEPT ![j] = IfMetered(t, p) \o
                            <<Op("fail", t, p), Op("phaseFailed", t, p)>>]
        PROVE  PlansOK' /\ HeldOK'
    <3> DEFINE v == IfMetered(t, p) \o <<Op("fail", t, p), Op("phaseFailed", t, p)>>
    <3>1. v \in ScriptPlans(t, p) /\ ~Has(v, {"complete"})
      BY ScriptEndings
    <3> HIDE DEF v
    <3>2. IsPlan(j, v)
      BY <1>1, <2>1, <3>1, IsAPlan
    <3> QED BY <1>4, <2>3, <3>1, <3>2 DEF v
  <2>4. PlansOK' /\ HeldOK'
    BY <1>5, <2>2, <2>3 DEF ScriptEnds, j
  <2>5. outputs' \in [Task -> SUBSET Phase]
    BY <1>5, Produced DEF ScriptEnds, WorkflowTypeOK, StateOK
  <2> QED BY <1>5, <2>4, <2>5 DEF ScriptEnds, WorkflowTypeOK, StateOK, queues, user
<1>6. CASE TurnEnds(t, p, n)
  <2>1. TypeOf[p] = "prompt"
    BY <1>1, <1>3, <1>6, PlanOf, ScriptPlan
  <2>2. PICK v : /\ plan' = [plan EXCEPT ![j] = v]
                 /\ \/ v = IfMetered(t, p)
                    \/ \E do \in {"complete", "skip"} :
                          v = <<Op(do, t, p), Op("phaseCompleted", t, p)>> \o IfMetered(t, p)
    BY <1>6 DEF TurnEnds, j
  <2>3. IsPlan(j, v) /\ IsA("prompt", j)
    BY <1>1, <2>1, <2>2, TurnEndings, IsAPlan, EmptyPlan DEF IsA
  <2>4. /\ outputs' \in [Task -> SUBSET Phase]
        /\ \A u \in Task : outputs[u] \subseteq outputs'[u]
    BY <1>6, Produced DEF TurnEnds, WorkflowTypeOK, StateOK
  <2>5. PlansOK' /\ HeldOK'
    BY <1>4, <2>2, <2>3, <2>4
  <2>6. mishaps' \subseteq Interventions \cup {"tokens"} /\ interventions' = interventions
    BY <1>6 DEF TurnEnds, WorkflowTypeOK, StateOK
  <2> QED BY <1>6, <2>4, <2>5, <2>6 DEF TurnEnds, WorkflowTypeOK, StateOK, queues, user
<1> QED BY <1>5, <1>6

\* The user has a request served.
LEMMA UserTodo ==
    ASSUME WorkflowTypeOK, NEW t \in Task, NEW p \in Phase, NEW v \in UserPlans(t, p),
           UserDoes(v), held' = held, pc' = pc,
           \A u \in Task : outputs[u] \subseteq outputs'[u],
           Has(v, {"complete"}) => OutputsThere(t, p)'
    PROVE  PlansOK' /\ HeldOK'
<1>1. IsPlan(User, v) /\ Head(v) = Op(Head(v).do, t, p)
  BY IsAPlan, UserPlan
<1>2. Head(v).task = t /\ Head(v).phase = p
  BY <1>1 DEF Op
<1>3. held[User] = NoSnapshot /\ plan' = [plan EXCEPT ![User] = v]
  BY NothingHeld, Processes DEF UserDoes
<1>4. pc' # "work" => plan'[QueueManager] = <<>>
  BY <1>3, Processes DEF WorkflowTypeOK, PlansOK
<1>5. PICK a : a = v
  OBVIOUS
<1>6. Has(a, {"complete"}) => OutputsThere(Head(a).task, Head(a).phase)'
  BY <1>2, <1>5
<1> QED BY <1>1, <1>3, <1>4, <1>5, <1>6, OnePlan, Processes

\* Interventions are counted, and remembered.
LEMMA Intervened ==
    ASSUME WorkflowTypeOK, NEW what, Intervene(what) \/ UNCHANGED user
    PROVE  /\ interventions' \in 0 .. MaxInterventions
           /\ mishaps' \subseteq Interventions \cup {"tokens"}
<1>1. CASE Intervene(what)
  BY <1>1, WorkflowAssumptions DEF Intervene, WorkflowTypeOK, StateOK
<1>2. CASE UNCHANGED user
  BY <1>2 DEF user, WorkflowTypeOK, StateOK
<1> QED BY <1>1, <1>2

\* Types are kept by the requests of the user.
LEMMA RequestTyped ==
    ASSUME WorkflowTypeOK, NEW t \in Task, Request(t)
    PROVE  WorkflowTypeOK'
<1>1. CASE Start(t)
  <2>1. <<Op("begin", t, 1), Op("startTask", t, 1)>> \in UserPlans(t, 1)
    BY DEF UserPlans
  <2>2. ~Has(<<Op("begin", t, 1), Op("startTask", t, 1)>>, {"complete"})
    BY Double DEF Op
  <2>3. PlansOK' /\ HeldOK'
    BY <1>1, <2>1, <2>2, UserTodo, PhaseFacts DEF Start
  <2> QED BY <1>1, <2>3 DEF Start, WorkflowTypeOK, StateOK, queues, user
<1>2. ASSUME NEW p \in Phase, SubmitInput(t, p)
      PROVE  WorkflowTypeOK'
  <2>1. <<Op("complete", t, p), Op("phaseCompleted", t, p)>> \in UserPlans(t, p)
    BY DEF UserPlans
  <2>2. PlansOK' /\ HeldOK'
    BY <1>2, <2>1, UserTodo, Produced DEF SubmitInput
  <2>3. /\ interventions' \in 0 .. MaxInterventions
        /\ mishaps' \subseteq Interventions \cup {"tokens"}
    BY <1>2, Intervened DEF SubmitInput
  <2>4. outputs' \in [Task -> SUBSET Phase]
    BY <1>2, Produced DEF SubmitInput
  <2> QED BY <1>2, <2>2, <2>3, <2>4 DEF SubmitInput, WorkflowTypeOK, StateOK, queues
<1>3. ASSUME NEW p \in Phase, NEW do \in {"stop", "reopen", "archive", "begin", "resumeTask"},
             UserDoes(<<Op(do, t, p)>>),
             \E what : Intervene(what) \/ UNCHANGED user,
             UNCHANGED <<snap, outputs, inbox, queues, pc, held>>
      PROVE  WorkflowTypeOK'
  <2>1. <<Op(do, t, p)>> \in UserPlans(t, p)
    BY DEF UserPlans
  <2>2. ~Has(<<Op(do, t, p)>>, {"complete"})
    BY Single DEF Op
  <2>3. PlansOK' /\ HeldOK'
    BY <1>3, <2>1, <2>2, UserTodo
  <2>4. /\ interventions' \in 0 .. MaxInterventions
        /\ mishaps' \subseteq Interventions \cup {"tokens"}
    BY <1>3, Intervened
  <2> QED BY <1>3, <2>3, <2>4 DEF WorkflowTypeOK, StateOK, queues
<1>4. CASE Resume(t)
  BY <1>3, <1>4, PhaseFacts DEF Resume
<1>5. CASE Stop(t)
  BY <1>3, <1>5, PhaseFacts DEF Stop
<1>6. CASE ToolStart(t)
  BY <1>3, <1>6, PhaseFacts DEF ToolStart
<1>7. CASE Archive(t)
  BY <1>3, <1>7, PhaseFacts DEF Archive
<1>8. ASSUME NEW p \in Phase, Reopen(t, p)
      PROVE  WorkflowTypeOK'
  BY <1>3, <1>8 DEF Reopen
<1> QED BY <1>1, <1>2, <1>4, <1>5, <1>6, <1>7, <1>8 DEF Request

\* Types are kept by a crash.
LEMMA CrashTyped ==
    ASSUME WorkflowTypeOK, Crash
    PROVE  WorkflowTypeOK'
<1> DEFINE interrupted == {t \in Task : snap[t].status = "Running"}
<1>1. ready' \in [1 .. Cardinality(interrupted) -> interrupted]
  BY DEF Crash
<1>2. ready' \in Seq(Task)
  <2>1. Cardinality(interrupted) \in Nat
    BY FS_Subset, FS_CardinalityType, WorkflowAssumptions
  <2> HIDE DEF interrupted
  <2>2. ready' \in Seq(interrupted)
    BY <1>1, <2>1, SeqDef
  <2>3. interrupted \subseteq Task
    BY DEF interrupted
  <2> QED BY <2>2, <2>3, SeqDef
<1>3. PlansOK' /\ HeldOK'
  <2>1. \A q \in Process : IsPlan(q, <<>>) /\ ~Has(<<>>, {"complete"})
    BY EmptyPlan, Nothing
  <2> QED BY <2>1, Processes DEF Crash, PlansOK, HeldOK
<1>4. /\ interventions' \in 0 .. MaxInterventions
      /\ mishaps' \subseteq Interventions \cup {"tokens"}
  BY Intervened DEF Crash
<1> QED BY <1>2, <1>3, <1>4, EmptySeq DEF Crash, WorkflowTypeOK, StateOK

\* A step is the manager's, a crash, one of a request, of an execution, or none.
LEMMA Steps ==
    ASSUME [Next]_vars
    PROVE  \/ UNCHANGED vars
           \/ \E q \in Process : Read(q) \/ Write(q)
           \/ \E q \in Process \ {QueueManager} : Tell(q)
           \/ Receive \/ Heartbeat \/ Pump \/ PumpEnds \/ WorkEnds \/ Requeue \/ ColdStart
           \/ \E t \in Task, p \in Phase :
                 RouteToPause(t, p) \/ RouteToScript(t, p) \/ RouteToAgent(t, p)
           \/ \E t \in Task, p \in Phase, n \in Slots : ScriptEnds(t, p, n) \/ TurnEnds(t, p, n)
           \/ \E t \in Task : Request(t)
           \/ Crash
<1>1. ASSUME NEW t \in Task, NEW p \in Phase, NEW n \in Slots
      PROVE  <<t, p, n>> \in Process \ {QueueManager}
  BY Processes DEF Job
<1> QED BY <1>1, Processes DEF Next, Manager, Execution

\* Types hold at first.
LEMMA TypeInit == Init => WorkflowTypeOK
<1> SUFFICES ASSUME Init PROVE WorkflowTypeOK
  OBVIOUS
<1>1. Fresh \in Snapshot
  BY DEF Fresh, Snapshot, TaskStatus, PhaseStatus
<1>2. StateOK
  BY <1>1, EmptySeq, WorkflowAssumptions DEF Init, StateOK
<1>3. PlansOK
  BY EmptyPlan, Nothing, Processes DEF Init, PlansOK
<1>4. HeldOK
  BY DEF Init, HeldOK
<1> QED BY <1>2, <1>3, <1>4 DEF WorkflowTypeOK

\* Types are kept by every step.
LEMMA TypeStep == WorkflowTypeOK /\ [Next]_vars => WorkflowTypeOK'
<1> SUFFICES ASSUME WorkflowTypeOK, [Next]_vars PROVE WorkflowTypeOK'
  OBVIOUS
<1>1. CASE UNCHANGED vars
  <2>1. PlansOK' /\ HeldOK'
    BY <1>1, NoPlanChanges DEF vars
  <2> QED BY <1>1, <2>1 DEF vars, WorkflowTypeOK, StateOK
<1> QED BY <1>1, Steps, ReadTyped, WriteTyped, TellTyped, ReceiveTyped, ManagerTyped,
           ColdStartTyped, RouteTyped, ExecutionTyped, RequestTyped, CrashTyped

\* Types are kept, a process only does what its kind of process does, and it writes
\* what it was allowed to write.
THEOREM WorkflowTypes == Spec => []WorkflowTypeOK
BY TypeInit, TypeStep, PTL DEF Spec
=============================================================================
