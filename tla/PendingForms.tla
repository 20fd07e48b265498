---------------------------- MODULE PendingForms ----------------------------
(***************************************************************************)
(* Forms an agent shows its user in one thread: the calls that wait for the *)
(* answer (LiveFormBridge, ask_user_question_form), the forms that are      *)
(* posted and answered later (form_events.rs), the pointer to the form that *)
(* is shown (pending_forms of the snapshot, ao-persistence/src/snapshot.rs),*)
(* the routes by which the user answers, dismisses or cancels, and the      *)
(* sweep at start-up (sync_form_reaper.rs).                                 *)
(*                                                                          *)
(* All of them change the snapshot in memory under a lock and then save it  *)
(* without one: each clones the memory, writes the clone to the same        *)
(* temporary file and renames that file.                                    *)
(***************************************************************************)
EXTENDS Naturals

CONSTANTS
    Sync,          \* the calls that wait for their form; each names its form
    Async,         \* the forms that are posted and not waited for
    Caller,        \* requests of the user, and other updates of the snapshot
    Reaper,        \* the sweep at start-up
    NoForm,
    MaxRestarts    \* bound: restarts of the process

Form == Sync \cup Async
Actor == Form \cup Caller \cup {Reaper}

ASSUME FormAssumptions ==
    /\ Sync \cap Async = {} /\ Form \cap Caller = {}
    /\ Reaper \notin Form \cup Caller /\ NoForm \notin Actor
    /\ MaxRestarts \in Nat

\* What the snapshot says of the thread.
Slot == [form : Form \cup {NoForm}, orphaned : BOOLEAN]
Empty == [form |-> NoForm, orphaned |-> FALSE]

(***************************************************************************)
(* What an actor does to the snapshot:                                      *)
(* set      puts its form in the slot         clear    removes that form    *)
(* vacate   removes an async form             mark     marks an orphan      *)
(* touch    changes something else in it                                    *)
(* A user who answers or dismisses (request) clears too.                    *)
(***************************************************************************)
Goal == {"none", "set", "clear", "vacate", "mark", "touch"}

(***************************************************************************)
(* new      not begun                 patch    about to change the memory   *)
(* record   about to append the answer or the dismissal to the transcript   *)
(* check    about to ask whether a run is alive                             *)
(* clone    has changed it            write    has its clone                *)
(* rename   has written the temporary file                                  *)
(* trace    about to append form_withdrawn for the form it displaced        *)
(* wait     the call awaits the answer                                      *)
(* turn     about to queue the turn that carries the answer                 *)
(* done     over                      gone     dropped before it was over   *)
(***************************************************************************)
Place == {"new", "record", "check", "patch", "clone", "write", "rename", "trace",
          "wait", "turn", "done", "gone"}

VARIABLES
    mem,        \* the slot in memory
    disk,       \* the slot in the snapshot file
    tmp,        \* the temporary file: its slot, or none
    op,         \* each actor: where it is and its local variables
    live,       \* the run of the thread is alive, its bridge registered
    channels,   \* the senders of that bridge
    bound,      \* the calls still awaited by the tool that made them
    traced,     \* forms the transcript says answered, dismissed or withdrawn
    restarts,
    \* observation only
    displaced,  \* calls still waiting whose form another form pushed off the slot
    lost,       \* forms that left the slot in a step that failed or was dropped, or that
                \* a restart lost to an older file
    stuck       \* calls whose pointer nobody is left to remove

vars == <<mem, disk, tmp, op, live, channels, bound, traced, restarts,
          displaced, lost, stuck>>

files == <<disk, tmp>>
run == <<live, channels>>
faults == <<lost, stuck>>

NoFile == {}

\* form: the form it is about; taken: the one its patch removed.
Idle == [at |-> "new", goal |-> "none", form |-> NoForm, taken |-> NoForm,
         copy |-> Empty, answers |-> FALSE]

Init ==
    /\ mem = Empty /\ disk = Empty /\ tmp = NoFile
    /\ op = [a \in Actor |-> IF a = Reaper THEN [Idle EXCEPT !.at = "done"] ELSE Idle]
    /\ live = FALSE /\ channels = {} /\ bound = {}
    /\ traced = {} /\ restarts = 0
    /\ displaced = {} /\ lost = {} /\ stuck = {}

\* The local variables an actor needs in a place.
Moved(o, place) ==
    CASE place \in {"done", "gone"} -> [Idle EXCEPT !.at = place]
      [] place = "trace" -> [o EXCEPT !.at = place, !.copy = Empty]
      [] OTHER -> [o EXCEPT !.at = place, !.copy = Empty, !.taken = NoForm]

Goes(a, place) == op' = [op EXCEPT ![a] = Moved(@, place)]

-----------------------------------------------------------------------------
(* update_agent_entry: the patch under the lock, then save: the clone under *)
(* the lock again, the write and the rename without one.                    *)

\* Mutant: removes whatever is shown, not the form by its id.
PatchedByThread(o, s) ==
    CASE o.goal = "set" -> [form |-> o.form, orphaned |-> FALSE]
      [] o.goal = "clear" -> Empty
      [] o.goal = "vacate" /\ s.form \in Async -> Empty
      [] o.goal = "mark" /\ s.form = o.form -> [s EXCEPT !.orphaned = TRUE]
      [] OTHER -> s

\* The slot s after the patch of an actor in state o.
Patched(o, s) ==
    CASE o.goal = "set" -> [form |-> o.form, orphaned |-> FALSE]
      [] o.goal = "clear" /\ s.form = o.form -> Empty
      [] o.goal = "vacate" /\ s.form \in Async -> Empty
      [] o.goal = "mark" /\ s.form = o.form -> [s EXCEPT !.orphaned = TRUE]
      [] OTHER -> s

\* The form the patch hands back: only set and vacate do.
Taken(o, s) ==
    IF o.goal = "set" \/ (o.goal = "vacate" /\ s.form \in Async) THEN s.form ELSE NoForm

Patch(a) ==
    /\ op[a].at = "patch"
    /\ mem' = Patched(op[a], mem)
    /\ op' = [op EXCEPT ![a].at = "clone", ![a].taken = Taken(op[a], mem)]
    /\ displaced' = IF op[a].goal = "set"
                      THEN displaced \cup {f \in bound : f = mem.form /\ f # a} ELSE displaced
    /\ UNCHANGED <<files, run, bound, traced, restarts, faults>>

Clone(a) ==
    /\ op[a].at = "clone"
    /\ op' = [op EXCEPT ![a].at = "write", ![a].copy = mem]
    /\ UNCHANGED <<mem, files, run, bound, traced, restarts, displaced, faults>>

Write(a) ==
    /\ op[a].at = "write"
    /\ tmp' = {op[a].copy}
    /\ op' = [op EXCEPT ![a].at = "rename", ![a].copy = Empty]
    /\ UNCHANGED <<mem, disk, run, bound, traced, restarts, displaced, faults>>

-----------------------------------------------------------------------------
(* The end of an update. *)

\* Mutant: a call goes on to wait and drops what it displaced.
AfterSaveWaits(o) ==
    IF o.goal = "set" /\ o.form \in Sync THEN "wait"
    ELSE IF o.taken # NoForm THEN "trace"
    ELSE IF o.answers THEN "turn" ELSE "done"

\* Where an actor goes on once its update is saved: a form it displaced or
\* withdrew gets its trace, a call waits, an answer becomes a turn.
AfterSave(o) ==
    IF o.taken # NoForm THEN "trace"
    ELSE IF o.goal = "set" /\ o.form \in Sync THEN "wait"
    ELSE IF o.answers THEN "turn" ELSE "done"

\* After one that was not: a call waits all the same; everybody else logs the
\* error or answers with it.
AfterError(o) == IF o.goal = "set" /\ o.form \in Sync THEN "wait" ELSE "done"

\* A call that is over returns to its tool.
Leaves(a, place) ==
    /\ Goes(a, place)
    /\ bound' = IF place = "done" THEN bound \ {a} ELSE bound

Rename(a) ==
    /\ op[a].at = "rename" /\ tmp # NoFile
    /\ disk' \in tmp
    /\ tmp' = NoFile
    /\ Leaves(a, AfterSave(op[a]))
    /\ UNCHANGED <<mem, run, traced, restarts, displaced, faults>>

\* Another save renamed the file before: this one fails, the memory stays
\* patched, and what the patch took is handed to nobody.
RenameFails(a) ==
    /\ op[a].at = "rename" /\ tmp = NoFile
    /\ lost' = lost \cup ({op[a].taken} \cap Async)
    /\ Leaves(a, AfterError(op[a]))
    /\ UNCHANGED <<mem, files, run, traced, restarts, displaced, stuck>>

\* The form_withdrawn entry.
Trace(a) ==
    /\ op[a].at = "trace"
    /\ traced' = traced \cup {op[a].taken}
    /\ Goes(a, AfterError(op[a]))
    /\ UNCHANGED <<mem, files, run, bound, restarts, displaced, faults>>

-----------------------------------------------------------------------------
(* A call that waits for its form (ask_form), and one that does not.       *)

\* The sender is registered and the form shown before anything is saved.
Ask(f) ==
    /\ f \in Sync /\ live /\ op[f].at = "new"
    /\ channels' = channels \cup {f}
    /\ bound' = bound \cup {f}
    /\ op' = [op EXCEPT ![f] = [Idle EXCEPT !.at = "patch", !.goal = "set", !.form = f]]
    /\ UNCHANGED <<mem, files, live, traced, restarts, displaced, faults>>

Post(f) ==
    /\ f \in Async /\ live /\ op[f].at = "new"
    /\ op' = [op EXCEPT ![f] = [Idle EXCEPT !.at = "patch", !.goal = "set", !.form = f]]
    /\ UNCHANGED <<mem, files, run, bound, traced, restarts, displaced, faults>>

\* The call starts to remove its pointer, and has told its guard so.
Clearing(f) == [Idle EXCEPT !.at = "patch", !.goal = "clear", !.form = f]

\* The answer came, or the sender is gone.
Wake(f) ==
    /\ op[f].at = "wait" /\ f \notin channels
    /\ op' = [op EXCEPT ![f] = Clearing(f)]
    /\ displaced' = displaced \ {f}
    /\ UNCHANGED <<mem, files, run, bound, traced, restarts, faults>>

\* The system call it awaits is carried out by another thread, or not any more.
SystemCall(o) ==
    \/ UNCHANGED files
    \/ o.at = "write" /\ tmp' = {o.copy} /\ UNCHANGED disk
    \/ o.at = "rename" /\ tmp # NoFile /\ disk' \in tmp /\ tmp' = NoFile

\* Mutant: nothing is spawned when the future is dropped.
DropCallForgets(f) ==
    /\ f \in bound
    /\ bound' = bound \ {f}
    /\ Goes(f, "gone")
    /\ stuck' = IF (op[f].goal = "set" /\ op[f].at \in {"clone", "write", "rename", "trace"})
                   \/ (op[f].goal = "clear" /\ op[f].at = "patch")
                  THEN stuck \cup {f} ELSE stuck
    /\ lost' = lost \cup ({op[f].taken} \cap Async)
    /\ displaced' = displaced \ {f}
    /\ SystemCall(op[f])
    /\ UNCHANGED <<mem, run, traced, restarts>>

\* The tool drops the future: it was cancelled or its time is up.  While the
\* call waits, the guard spawns a task that removes the pointer; before, there is
\* no guard yet, and in clear_now it leaves the matter to what was just dropped.
\* The sender stays where it is.
DropCall(f) ==
    /\ f \in bound
    /\ bound' = bound \ {f}
    /\ IF op[f].at = "wait" THEN op' = [op EXCEPT ![f] = Clearing(f)] ELSE Goes(f, "gone")
    /\ stuck' = IF (op[f].goal = "set" /\ op[f].at \in {"clone", "write", "rename", "trace"})
                   \/ (op[f].goal = "clear" /\ op[f].at = "patch")
                  THEN stuck \cup {f} ELSE stuck
    /\ lost' = lost \cup ({op[f].taken} \cap Async)
    /\ displaced' = displaced \ {f}
    /\ SystemCall(op[f])
    /\ UNCHANGED <<mem, run, traced, restarts>>

RunBegins ==
    /\ ~live
    /\ live' = TRUE
    /\ UNCHANGED <<mem, files, op, channels, bound, traced, restarts, displaced, faults>>

\* Mutant: the bridge is deregistered and its senders are kept.
RunEndsKeepsSenders ==
    /\ live
    /\ live' = FALSE
    /\ UNCHANGED <<mem, files, op, channels, bound, traced, restarts, displaced, faults>>

\* FormBridgeGuard: the bridge is deregistered and its senders are dropped.
\* Calls of agents in the background share the bridge and may be waiting.
RunEnds ==
    /\ live
    /\ live' = FALSE /\ channels' = {}
    /\ UNCHANGED <<mem, files, op, bound, traced, restarts, displaced, faults>>

-----------------------------------------------------------------------------
(* The user, and whoever else updates the snapshot.                        *)

\* submit_form_answer: 200 if a sender was there.
Deliver(f) ==
    /\ f \in channels
    /\ channels' = channels \ {f}
    /\ UNCHANGED <<mem, files, op, live, bound, traced, restarts, displaced, faults>>

\* async_form_answer and async_form_dismiss look the form up.  They do not ask for its
\* mode; the client calls them for posted forms only.
Request(c) ==
    /\ op[c].at = "new" /\ mem.form \in Async
    /\ \E answers \in BOOLEAN :
          op' = [op EXCEPT ![c] = [Idle EXCEPT !.at = "record", !.goal = "clear",
                                               !.form = mem.form, !.answers = answers]]
    /\ UNCHANGED <<mem, files, run, bound, traced, restarts, displaced, faults>>

Record(c) ==
    /\ op[c].at = "record"
    /\ traced' = traced \cup {op[c].form}
    /\ Goes(c, "patch")
    /\ UNCHANGED <<mem, files, run, bound, restarts, displaced, faults>>

QueueTurn(c) ==
    /\ op[c].at = "turn"
    /\ Goes(c, "done")
    /\ UNCHANGED <<mem, files, run, bound, traced, restarts, displaced, faults>>

\* cancel_agent_run vacates the slot (the calls it cancels are dropped by
\* DropCall); what else updates the snapshot leaves the slot alone, but for the
\* deletion of the agent, which is not modelled.
OtherUpdate(c) ==
    /\ op[c].at = "new"
    /\ \E goal \in {"vacate", "touch"} :
          op' = [op EXCEPT ![c] = [Idle EXCEPT !.at = "patch", !.goal = goal]]
    /\ UNCHANGED <<mem, files, run, bound, traced, restarts, displaced, faults>>

-----------------------------------------------------------------------------
(* The process dies and starts again; the sweep is a task of its own.      *)

Restart ==
    /\ restarts < MaxRestarts
    /\ restarts' = restarts + 1
    /\ mem' = disk
    /\ op' = [a \in Actor |-> IF a = Reaper \/ op[a].at = "new" THEN Idle
                              ELSE Moved(op[a], "gone")]
    /\ live' = FALSE /\ channels' = {} /\ bound' = {}
    /\ displaced' = {} /\ stuck' = {}
    /\ lost' = lost \cup {f \in Async : op[f].at # "new" /\ disk.form # f}
    /\ UNCHANGED <<files, traced>>

\* What the sweep read: async forms and those marked before stay as they are.
ReadForms ==
    /\ op[Reaper].at = "new"
    /\ op' = [op EXCEPT ![Reaper] =
                 IF mem.form \in Sync /\ ~mem.orphaned
                   THEN [Idle EXCEPT !.at = "check", !.goal = "mark", !.form = mem.form]
                   ELSE Moved(Idle, "done")]
    /\ UNCHANGED <<mem, files, run, bound, traced, restarts, displaced, faults>>

\* Mutant: marks whatever it read.
CheckRunSkipped ==
    /\ op[Reaper].at = "check"
    /\ Goes(Reaper, "patch")
    /\ UNCHANGED <<mem, files, run, bound, traced, restarts, displaced, faults>>

\* A form whose agent has a run is left alone: the run may be another one's.
CheckRun ==
    /\ op[Reaper].at = "check"
    /\ Goes(Reaper, IF live THEN "done" ELSE "patch")
    /\ stuck' = IF live /\ op[op[Reaper].form].at \in {"done", "gone"}
                  THEN stuck \cup {op[Reaper].form} ELSE stuck
    /\ UNCHANGED <<mem, files, run, bound, traced, restarts, displaced, lost>>

-----------------------------------------------------------------------------
Step(a) ==
    \/ Patch(a) \/ Clone(a) \/ Write(a) \/ Rename(a) \/ RenameFails(a) \/ Trace(a) \/ Wake(a)
    \/ Record(a) \/ QueueTurn(a)

Sweep == ReadForms \/ CheckRun

Next ==
    \/ \E a \in Actor : Step(a)
    \/ \E f \in Form : Ask(f) \/ Post(f) \/ DropCall(f) \/ Deliver(f)
    \/ \E c \in Caller : Request(c) \/ OtherUpdate(c)
    \/ RunBegins \/ RunEnds \/ Restart \/ Sweep

Spec == Init /\ [][Next]_vars

\* What was begun goes on; users, timeouts, runs and restarts need not come.
FairSpec ==
    /\ Spec
    /\ \A a \in Actor : WF_vars(Step(a))
    /\ WF_vars(Sweep)

-----------------------------------------------------------------------------
(* Properties.                                                             *)

OpState == [at : Place, goal : Goal, form : Form \cup {NoForm}, taken : Form \cup {NoForm},
            copy : Slot, answers : BOOLEAN]

\* Types; and no sender outlives the bridge by which an answer could reach it.
TypeOK ==
    /\ mem \in Slot /\ disk \in Slot
    /\ tmp = NoFile \/ \E s \in Slot : tmp = {s}
    /\ op \in [Actor -> OpState]
    /\ live \in BOOLEAN /\ channels \subseteq Sync /\ (~live => channels = {})
    /\ bound \subseteq Sync
    /\ traced \subseteq Form /\ restarts \in 0..MaxRestarts
    /\ displaced \cup stuck \subseteq Sync /\ lost \subseteq Async

\* A call whose answer can still arrive is shown to the user, and as one that can
\* be answered, unless a newer form took its place: an older call that ends late,
\* a cancel, an answer to another form or the sweep never hide it.
PointerShown ==
    \A f \in Sync :
        op[f].at = "wait" /\ f \in channels /\ f \notin displaced
            => mem = [form |-> f, orphaned |-> FALSE]

\* A posted form that is not shown any more has its trace in the transcript, or
\* somebody is about to write it, or the step that removed it failed.
NoSilentLoss ==
    \A f \in Async :
        op[f].at \notin {"new", "patch"} /\ mem.form # f
            => f \in traced \cup lost \/ \E a \in Actor : op[a].taken = f

\* The pointer of a call that was answered, dropped or cancelled, or that a restart
\* killed, goes away or is marked, unless the call was dropped outside its guard or
\* the sweep found the agent busy.
DeadFormsLeave ==
    \A f \in Sync :
        op[f].at # "new" /\ (f \notin channels \/ op[f].at \in {"done", "gone"})
            ~> mem.form # f \/ mem.orphaned \/ f \in stuck

\* The comment on resolve_sync_form: whichever branch wins, the pointer is cleared;
\* no half-state is reachable.
NoHalfState == stuck = {}

\* The comment on submit_form_answer: 200 on success, so an answer is accepted only
\* while the tool that asked is there to hear it.
AckIsHeard ==
    [][\A f \in Sync : f \in channels /\ f \notin channels' /\ live' => f \in bound]_vars

\* The comment on async_form_answer: it appends the answer, clears the pointer, then
\* queues a turn that carries the values.
AnswerIsTurn ==
    [][\A c \in Caller : op[c].answers => op'[c].answers \/ op[c].at = "turn"
                                              \/ restarts' # restarts]_vars

\* The comment on PendingForm.orphaned: async forms are restart-durable by
\* construction.
AsyncSurvives ==
    [][restarts' # restarts /\ mem.form \in Async /\ op[mem.form].at = "done"
          => mem'.form = mem.form]_vars
=============================================================================
