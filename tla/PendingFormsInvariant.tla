------------------------ MODULE PendingFormsInvariant ------------------------
(* The inductive invariant of PendingForms. *)
EXTENDS PendingForms

\* Begun is for ever: forms that anything saved or about to be saved shows were
\* begun, so the sweep never meets a form that is still to come.
Known(s) == s.form # NoForm => op[s.form].at # "new"

SlotsKnown ==
    /\ Known(mem) /\ Known(disk)
    /\ \A s \in tmp : Known(s)
    /\ \A a \in Actor : Known(op[a].copy)

\* An actor uses its variables for its own purpose.
Asking == {"patch", "clone", "write", "rename", "trace", "wait"}

OwnPurpose ==
    /\ \A a \in Actor : op[a].goal = "set" /\ op[a].at \in Asking => a \in Form /\ op[a].form = a
    /\ \A f \in Sync : op[f].goal \in {"none", "set", "clear"} /\ (op[f].goal = "clear" => op[f].form = f)
    /\ \A f \in Async : op[f].goal \in {"none", "set"}
                          /\ (op[f].at \in Asking => op[f].goal = "set")
    /\ \A c \in Caller : op[c].goal = "clear" => op[c].form \in Async
    /\ \A a \in Actor : op[a].goal = "mark" => a = Reaper
    /\ \A a \in Actor : op[a].at = "wait" => a \in Sync /\ op[a].goal = "set"

\* A call on its way to its answer is awaited by its tool.
Awaited == \A f \in Sync : op[f].goal = "set" /\ op[f].at \in Asking => f \in bound

\* From the patch on, the form of a call that can be answered is the one shown.
Shown ==
    \A f \in Sync :
        op[f].goal = "set" /\ op[f].at \in {"clone", "write", "rename", "trace", "wait"}
            /\ f \in channels /\ f \notin displaced
            => mem = [form |-> f, orphaned |-> FALSE]

\* What the sweep is about to mark has no sender, and gets none.
SweepSound ==
    op[Reaper].at \in {"check", "patch"} =>
        /\ op[Reaper].goal = "mark"
        /\ op[Reaper].form \in Sync /\ op[op[Reaper].form].at # "new"
        /\ op[Reaper].at = "patch" => op[Reaper].form \notin channels

\* What a patch took is held until it is traced or its save has failed.
Held ==
    \A a \in Actor :
        /\ op[a].taken # NoForm => op[a].at \in {"clone", "write", "rename", "trace"}
        /\ op[a].at = "trace" => op[a].taken # NoForm

\* Only requests record, and they remove what they have recorded.
Recorded ==
    /\ \A a \in Actor : op[a].at = "record" => a \in Caller /\ op[a].goal = "clear"
    /\ \A c \in Caller : op[c].goal = "clear" /\ op[c].at # "record" => op[c].form \in traced

FormInv ==
    /\ TypeOK /\ SlotsKnown /\ OwnPurpose /\ Awaited /\ Shown /\ SweepSound /\ Held
    /\ Recorded /\ NoSilentLoss
=============================================================================
