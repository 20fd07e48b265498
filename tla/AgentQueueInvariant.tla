------------------------ MODULE AgentQueueInvariant ------------------------
(* The inductive invariant behind the safety of AgentQueue: where a message *)
(* is, what is booked for it and what was read about it agree.              *)
EXTENDS AgentQueue

Injective(s) == \A i, j \in DOMAIN s : s[i] = s[j] => i = j

\* A message in the channel or in the queue has not started, and is there once.
Waiting ==
    /\ Injective(chan) /\ Injective(queue)
    /\ \A i \in DOMAIN chan : stage[chan[i]] = "sent"
    /\ \A i \in DOMAIN queue : stage[queue[i]] = "queued"

\* The actor books one message at a time.
Booking ==
    /\ pc \in {"book", "mark", "marking", "spawn"} => stage[current] = "booking"
    /\ \A m \in Message : stage[m] = "booking" =>
          m = current /\ pc \in {"book", "mark", "marking", "spawn"}

Booked(m) ==
    \/ stage[m] = "running"
    \/ stage[m] = "booking" /\ pc # "book"

\* What is booked of a run stays booked while it is alive, and nothing is
\* booked before.
Held ==
    /\ \A m \in Message : Booked(m) =>
          /\ m \in registry
          /\ IF IsInteractive(m) THEN m \in interactiveRuns ELSE m \in threadLocks
    /\ \A m \in Own : Started(m) /\ ~(m = current /\ pc = "book")

\* A report is of a run that ended, and says how.
Reported ==
    /\ \A m \in reported : stage[m] \in {"ok", "bad"}
    /\ \A i \in DOMAIN complete :
          /\ complete[i].run \in reported
          /\ complete[i].ok <=> stage[complete[i].run] = "ok"

\* The actor closes the row of a run that reported.
Closing ==
    /\ pc \in {"succeed", "succeeding"} => stage[current] = "ok" /\ current \in reported
    /\ pc \in {"fail", "failing"} => stage[current] = "bad"

\* Every copy of a row, on disk or in the hands of an update, is true.
True(copy) ==
    \A m \in Message :
        /\ copy[m] = "Succeeded" => stage[m] = "ok" /\ m \in reported
        /\ copy[m] = "Failed" => stage[m] \in {"bad", "buried"}

Copies == True(rows) /\ True(seen) /\ \A m \in Message : True(watched[m])

\* The room found at the search is still there at the booking.
Room ==
    pc = "book" => Cardinality(Own) < IF MaxInstances < 2 THEN 2 ELSE MaxInstances

\* The invariant: every part above, and the properties it is there for.
QueueInv ==
    /\ TypeOK /\ Waiting /\ Booking /\ Held /\ Reported /\ Closing /\ Copies /\ Room
    /\ ThreadExclusive /\ CapKept
=============================================================================
