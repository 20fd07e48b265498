------------------------- MODULE PendingFormsProofs -------------------------
(* FormInv is an invariant of PendingForms; PointerShown and NoSilentLoss    *)
(* follow.                                                                   *)
EXTENDS PendingFormsInvariant, TLAPS

\* What a step of one actor does to op.
LEMMA OneMoves ==
    ASSUME op \in [Actor -> OpState], NEW a \in Actor, NEW o \in OpState,
           op' = [op EXCEPT ![a] = o]
    PROVE  /\ op' \in [Actor -> OpState]
           /\ op'[a] = o
           /\ \A b \in Actor : b # a => op'[b] = op[b]
BY DEF OpState

\* The variables of an actor in its next place.
MovedTo(p, place, o) ==
    /\ o \in OpState /\ o.at = place /\ o.copy = Empty /\ Empty.form = NoForm
    /\ place \in {"done", "gone"} => o.goal = "none" /\ o.form = NoForm /\ o.taken = NoForm
    /\ place \notin {"done", "gone"} =>
          /\ o.goal = p.goal /\ o.form = p.form
          /\ o.taken = IF place = "trace" THEN p.taken ELSE NoForm

LEMMA MovedType ==
    ASSUME NEW p \in OpState, NEW place \in Place, NEW o, o = Moved(p, place)
    PROVE  MovedTo(p, place, o)
BY DEF MovedTo, Moved, OpState, Idle, Empty, Slot, Place, Goal

LEMMA InitInv == ASSUME Init PROVE FormInv
<1> USE FormAssumptions DEF Form, Actor
<1>0. /\ mem = Empty /\ disk = Empty /\ tmp = NoFile /\ live = FALSE /\ restarts = 0
      /\ channels = {} /\ bound = {} /\ traced = {} /\ displaced = {} /\ lost = {} /\ stuck = {}
      /\ op = [a \in Actor |-> IF a = Reaper THEN [Idle EXCEPT !.at = "done"] ELSE Idle]
  BY DEF Init
<1>1. TypeOK
  <2>1. Idle \in OpState /\ [Idle EXCEPT !.at = "done"] \in OpState /\ Empty \in Slot
    BY DEF Slot, Empty, OpState, Idle, Place, Goal
  <2>2. op \in [Actor -> OpState]
    BY <1>0, <2>1
  <2>3. restarts \in 0..MaxRestarts
    BY <1>0
  <2> QED BY <1>0, <2>1, <2>2, <2>3 DEF TypeOK
<1>2. SlotsKnown
  BY <1>0 DEF SlotsKnown, Known, Empty, NoFile, Idle
<1>3. OwnPurpose /\ Awaited /\ Shown /\ SweepSound /\ Held /\ Recorded
  BY <1>0 DEF OwnPurpose, Awaited, Shown, SweepSound, Held, Recorded, Idle, Asking
<1>4. NoSilentLoss
  BY <1>0 DEF NoSilentLoss, Idle
<1> QED BY <1>1, <1>2, <1>3, <1>4 DEF FormInv

-----------------------------------------------------------------------------
LEMMA PatchInv == ASSUME FormInv, NEW a \in Actor, Patch(a) PROVE FormInv'
<1> USE FormAssumptions DEF Form, Actor
<1> DEFINE o == [op[a] EXCEPT !.at = "clone", !.taken = Taken(op[a], mem)]
<1>1. op \in [Actor -> OpState] /\ op[a] \in OpState /\ mem \in Slot /\ op[a].at = "patch"
  BY DEF FormInv, TypeOK, Patch
<1>2. mem' = Patched(op[a], mem) /\ mem' \in Slot
  BY <1>1 DEF Patch, Patched, Slot, Empty, OpState
<1>3. /\ o \in OpState /\ o.at = "clone" /\ o.goal = op[a].goal /\ o.form = op[a].form
      /\ o.copy = op[a].copy /\ o.taken = Taken(op[a], mem)
  BY <1>1 DEF Taken, OpState, Place, Slot
<1>4. op' = [op EXCEPT ![a] = o]
  BY <1>1 DEF Patch
<1> HIDE DEF o
<1>5. /\ op' \in [Actor -> OpState] /\ op'[a] = o
      /\ \A b \in Actor : b # a => op'[b] = op[b]
  BY <1>1, <1>3, <1>4, OneMoves
<1>6. UNCHANGED <<disk, tmp, live, channels, bound, traced, restarts, lost, stuck>>
  BY DEF Patch, files, run, faults
<1>7. TypeOK'
  BY <1>2, <1>5, <1>6 DEF FormInv, TypeOK, Patch
<1>8. \A b \in Actor : op[b].at # "new" => op'[b].at # "new"
  BY <1>3, <1>5
<1>9. Known(mem)'
  <2>1. mem'.form \in {mem.form, NoForm, op[a].form}
    BY <1>1, <1>2 DEF Patched, Empty, Slot
  <2>2. op[a].goal = "set" => op[a].form = a
    BY <1>1 DEF FormInv, OwnPurpose, Asking
  <2>3. op[a].goal # "set" => mem'.form \in {mem.form, NoForm}
    BY <1>1, <1>2 DEF Patched, Empty, Slot
  <2> QED BY <1>1, <1>2, <1>8, <2>1, <2>2, <2>3 DEF FormInv, SlotsKnown, Known, Slot
<1>10. SlotsKnown'
  <2>0. disk \in Slot /\ \A s \in tmp : s \in Slot
    BY DEF FormInv, TypeOK, NoFile
  <2>1. Known(disk)' /\ \A s \in tmp : Known(s)'
    BY <2>0, <1>6, <1>8 DEF FormInv, Slot, SlotsKnown, Known
  <2>2. \A b \in Actor : Known(op[b].copy)'
    BY <1>1, <1>3, <1>5, <1>8 DEF FormInv, SlotsKnown, Known, OpState, Slot
  <2> QED BY <1>9, <1>6, <2>1, <2>2 DEF SlotsKnown, Known
<1>11. OwnPurpose'
  BY <1>1, <1>3, <1>5 DEF FormInv, OwnPurpose, Asking
<1>12. Awaited'
  BY <1>1, <1>3, <1>5, <1>6 DEF FormInv, Awaited, Asking
<1>13. Shown'
  <2> SUFFICES ASSUME NEW f \in Sync, (op[f].goal)' = "set",
                      (op[f].at)' \in {"clone", "write", "rename", "trace", "wait"},
                      f \in channels, f \notin displaced'
               PROVE  mem' = [form |-> f, orphaned |-> FALSE]
    BY <1>6 DEF Shown
  <2>1. CASE f = a
    BY <2>1, <1>1, <1>2, <1>3, <1>5 DEF FormInv, OwnPurpose, Asking, Patched
  <2>2. CASE f # a
    <3>1. op'[f] = op[f] /\ f \in bound
      BY <2>2, <1>5 DEF FormInv, Awaited, Asking
    <3>2. f \notin displaced /\ mem = [form |-> f, orphaned |-> FALSE]
      BY <3>1, <1>1 DEF FormInv, Shown, Patch
    <3>3. op[a].goal # "set"
      BY <3>1, <3>2, <2>2 DEF Patch
    <3>4. op[a].goal = "clear" => op[a].form # f
      BY <2>2, <1>1 DEF FormInv, OwnPurpose, OpState, SweepSound
    <3>5. op[a].goal = "mark" => op[a].form # f
      BY <1>1 DEF FormInv, OwnPurpose, SweepSound
    <3> QED BY <3>2, <3>3, <3>4, <3>5, <1>2 DEF Patched
  <2> QED BY <2>1, <2>2
<1>14. SweepSound'
  BY <1>1, <1>3, <1>5, <1>6, <1>8 DEF FormInv, SweepSound
<1>15. Held'
  BY <1>1, <1>3, <1>5 DEF FormInv, Held
<1>16. Recorded'
  BY <1>1, <1>3, <1>5, <1>6 DEF FormInv, Recorded
<1>17. NoSilentLoss'
  <2> SUFFICES ASSUME NEW f \in Async, (op[f].at)' \notin {"new", "patch"}, mem'.form # f
               PROVE  f \in traced \cup lost \/ \E b \in Actor : op'[b].taken = f
    BY <1>6 DEF NoSilentLoss
  <2>1. CASE mem.form = f
    <3>1. op[a].goal = "clear" => f \in traced
      BY <2>1, <1>1, <1>2 DEF FormInv, OwnPurpose, Recorded, SweepSound, Patched, Slot,
         OpState
    <3>2. op[a].goal \in {"set", "vacate"} => o.taken = f
      BY <2>1, <1>3 DEF Taken
    <3>3. op[a].goal \in {"clear", "set", "vacate"}
      BY <2>1, <1>1, <1>2 DEF Patched, Slot
    <3> QED BY <3>1, <3>2, <3>3, <1>5
  <2>2. CASE mem.form # f
    <3>1. a # f
      BY <2>2, <1>1, <1>2 DEF FormInv, OwnPurpose, Asking, Patched
    <3>2. f \in traced \cup lost \/ \E b \in Actor : op[b].taken = f
      BY <2>2, <3>1, <1>5 DEF FormInv, NoSilentLoss
    <3>3. op[a].taken # f
      BY <1>1 DEF FormInv, Held
    <3> QED BY <3>2, <3>3, <1>5
  <2> QED BY <2>1, <2>2
<1> QED BY <1>7, <1>10, <1>11, <1>12, <1>13, <1>14, <1>15, <1>16, <1>17 DEF FormInv

-----------------------------------------------------------------------------
(* All other steps of an actor change its own variables, and of what the     *)
(* others rely on only what concerns itself.                                 *)

Fits(a, o) ==
    /\ mem' = mem /\ Known(disk') /\ \A s \in tmp' : s \in Slot /\ Known(s)
    /\ o.at # "new" /\ Known(o.copy)
    /\ o.goal = "set" /\ o.at \in Asking => a \in Form /\ o.form = a
    /\ a \in Sync => o.goal \in {"none", "set", "clear"} /\ (o.goal = "clear" => o.form = a)
    /\ a \in Async => /\ o.goal \in {"none", "set"} /\ (o.at \in Asking => o.goal = "set")
                      /\ op[a].at \notin {"new", "patch"} \/ o.at = "patch"
    /\ a \in Caller /\ o.goal = "clear" =>
          o.form \in Async /\ (o.at = "record" \/ o.form \in traced')
    /\ o.goal = "mark" => a = Reaper
    /\ o.at = "wait" => a \in Sync /\ o.goal = "set"
    /\ bound \ {a} \subseteq bound' /\ displaced \ {a} \subseteq displaced'
    /\ channels' \subseteq channels \cup {a}
    /\ a \in channels' => a \in channels \/ op[a].at = "new"
    /\ a \in Sync /\ o.goal = "set" /\ o.at \in Asking => a \in bound'
    /\ a \in Sync /\ o.goal = "set" /\ o.at \in {"clone", "write", "rename", "trace", "wait"} =>
          /\ op[a].goal = "set" /\ op[a].at \in {"clone", "write", "rename", "trace", "wait"}
          /\ channels' \subseteq channels /\ displaced' = displaced
    /\ a = Reaper /\ o.at \in {"check", "patch"} =>
          /\ o.goal = "mark" /\ o.form \in Sync /\ op[o.form].at # "new"
          /\ o.at = "patch" => o.form \notin channels'
    /\ o.taken # NoForm => o.at \in {"clone", "write", "rename", "trace"}
    /\ o.at = "trace" => o.taken # NoForm
    /\ o.at = "record" => a \in Caller /\ o.goal = "clear"
    /\ traced \subseteq traced' /\ lost \subseteq lost'
    /\ op[a].taken \in Async => o.taken = op[a].taken \/ op[a].taken \in traced' \cup lost'

LEMMA FitsInv ==
    ASSUME FormInv, NEW a \in Actor, NEW o \in OpState, op' = [op EXCEPT ![a] = o],
           TypeOK', Fits(a, o)
    PROVE  FormInv'
<1> USE FormAssumptions DEF Form, Actor
<1>1. /\ op'[a] = o
      /\ \A b \in Actor : b # a => op'[b] = op[b]
  <2>1. op \in [Actor -> OpState]
    BY DEF FormInv, TypeOK
  <2> QED BY <2>1, OneMoves
<1>2. \A b \in Actor : op[b].at # "new" => op'[b].at # "new"
  BY <1>1 DEF Fits
<1>3. SlotsKnown'
  <2>1. ASSUME NEW s \in Slot, Known(s) PROVE Known(s)'
    BY <2>1, <1>2 DEF Known, Slot
  <2>2. mem' \in Slot /\ disk' \in Slot /\ Known(mem)
    BY DEF TypeOK, FormInv, SlotsKnown
  <2>3. Known(mem)' /\ Known(disk)' /\ \A s \in tmp' : Known(s)'
    BY <2>2, <1>2 DEF Fits, Known, Slot
  <2>4. ASSUME NEW b \in Actor PROVE Known(op[b].copy)'
    <3>1. op'[b].copy \in Slot
      BY DEF TypeOK, OpState
    <3>2. op'[b].copy.form # NoForm => op[op'[b].copy.form].at # "new"
      BY <1>1 DEF Fits, FormInv, SlotsKnown, Known
    <3> QED BY <3>1, <3>2, <1>2 DEF Known, Slot
  <2> QED BY <2>3, <2>4 DEF SlotsKnown
<1>4. OwnPurpose'
  BY <1>1 DEF Fits, FormInv, OwnPurpose, Asking
<1>5. Awaited'
  BY <1>1 DEF Fits, FormInv, Awaited
<1>6. Shown'
  <2> SUFFICES ASSUME NEW f \in Sync, (op[f].goal)' = "set",
                      (op[f].at)' \in {"clone", "write", "rename", "trace", "wait"},
                      f \in channels', f \notin displaced'
               PROVE  mem = [form |-> f, orphaned |-> FALSE]
    BY DEF Shown, Fits
  <2>1. CASE f = a
    BY <2>1, <1>1 DEF Fits, FormInv, Shown
  <2>2. CASE f # a
    BY <2>2, <1>1 DEF Fits, FormInv, Shown
  <2> QED BY <2>1, <2>2
<1>7. SweepSound'
  <2>1. CASE a = Reaper
    BY <2>1, <1>1, <1>2 DEF Fits, SweepSound
  <2>2. CASE a # Reaper
    BY <2>2, <1>1, <1>2 DEF Fits, FormInv, SweepSound
  <2> QED BY <2>1, <2>2
<1>8. Held'
  BY <1>1 DEF Fits, FormInv, Held
<1>9. Recorded'
  BY <1>1 DEF Fits, FormInv, Recorded
<1>10. NoSilentLoss'
  <2> SUFFICES ASSUME NEW f \in Async, (op[f].at)' \notin {"new", "patch"}, mem.form # f
               PROVE  f \in traced' \cup lost' \/ \E b \in Actor : op'[b].taken = f
    BY DEF NoSilentLoss, Fits
  <2>1. op[f].at \notin {"new", "patch"}
    BY <1>1 DEF Fits
  <2>2. f \in traced \cup lost \/ \E b \in Actor : op[b].taken = f
    BY <2>1 DEF FormInv, NoSilentLoss
  <2> QED BY <2>2, <1>1 DEF Fits
<1> QED BY <1>3, <1>4, <1>5, <1>6, <1>7, <1>8, <1>9, <1>10 DEF FormInv

LEMMA CloneInv == ASSUME FormInv, NEW a \in Actor, Clone(a) PROVE FormInv'
<1> USE FormAssumptions DEF Form, Actor
<1> DEFINE o == [op[a] EXCEPT !.at = "write", !.copy = mem]
<1>1. op \in [Actor -> OpState] /\ op[a] \in OpState /\ mem \in Slot /\ op[a].at = "clone"
  BY DEF FormInv, TypeOK, Clone
<1>2. /\ o \in OpState /\ o.at = "write" /\ o.goal = op[a].goal /\ o.form = op[a].form
      /\ o.copy = mem /\ o.taken = op[a].taken
  BY <1>1 DEF OpState, Place
<1>3. op' = [op EXCEPT ![a] = o]
  BY <1>1 DEF Clone
<1> HIDE DEF o
<1>4. UNCHANGED <<mem, disk, tmp, live, channels, bound, traced, restarts, displaced, lost, stuck>>
  BY DEF Clone, files, run, faults
<1>5. TypeOK'
  BY <1>1, <1>2, <1>3, <1>4, OneMoves DEF FormInv, TypeOK
<1>6. \A s \in tmp : s \in Slot
  BY DEF FormInv, TypeOK, NoFile
<1>7. Fits(a, o)
  BY <1>1, <1>2, <1>4, <1>6 DEF Fits, FormInv, SlotsKnown, OwnPurpose, Awaited, Recorded,
     Held, Asking, Known
<1> QED BY <1>2, <1>3, <1>5, <1>7, FitsInv

LEMMA WriteInv == ASSUME FormInv, NEW a \in Actor, Write(a) PROVE FormInv'
<1> USE FormAssumptions DEF Form, Actor
<1> DEFINE o == [op[a] EXCEPT !.at = "rename", !.copy = Empty]
<1>1. op \in [Actor -> OpState] /\ op[a] \in OpState /\ mem \in Slot /\ op[a].at = "write"
  BY DEF FormInv, TypeOK, Write
<1>2. /\ o \in OpState /\ o.at = "rename" /\ o.goal = op[a].goal /\ o.form = op[a].form
      /\ o.copy = Empty /\ o.taken = op[a].taken /\ Empty.form = NoForm
  BY <1>1 DEF OpState, Place, Empty, Slot
<1>3. op' = [op EXCEPT ![a] = o]
  BY <1>1 DEF Write
<1> HIDE DEF o
<1>4. UNCHANGED <<mem, disk, live, channels, bound, traced, restarts, displaced, lost, stuck>>
  BY DEF Write, files, run, faults
<1>5. op[a].copy \in Slot /\ tmp' = {op[a].copy}
  BY <1>1 DEF OpState, Write
<1>6. TypeOK'
  BY <1>1, <1>2, <1>3, <1>4, <1>5, OneMoves DEF FormInv, TypeOK, Write
<1>7. /\ \A s \in tmp : s \in Slot /\ Known(s)
      /\ Known(disk)
  BY DEF FormInv, TypeOK, NoFile, SlotsKnown
<1>8. Fits(a, o)
  BY <1>1, <1>2, <1>4, <1>7, <1>5 DEF Fits, FormInv, Write, SlotsKnown, OwnPurpose,
     Awaited, Recorded, Held, Asking, Known
<1> QED BY <1>2, <1>3, <1>6, <1>8, FitsInv

LEMMA RenameInv == ASSUME FormInv, NEW a \in Actor, Rename(a) PROVE FormInv'
<1> USE FormAssumptions DEF Form, Actor
<1> DEFINE place == AfterSave(op[a])
<1> DEFINE o == Moved(op[a], place)
<1>1. op \in [Actor -> OpState] /\ op[a] \in OpState /\ mem \in Slot /\ op[a].at = "rename"
  BY DEF FormInv, TypeOK, Rename
<1>2. place \in Place /\ o = Moved(op[a], place)
  BY <1>1 DEF Place, AfterSave, AfterError
<1> HIDE DEF place, o
<1>3. MovedTo(op[a], place, o)
  BY <1>1, <1>2, MovedType
<1>4. op' = [op EXCEPT ![a] = o]
  BY <1>1 DEF o, place, Rename, Goes, Leaves
<1> USE DEF place
<1>5. UNCHANGED <<mem, live, channels, traced, restarts, displaced, lost, stuck>>
  BY DEF Rename, files, run, faults
<1>6. /\ disk' \in Slot /\ Known(disk') /\ tmp' = NoFile
      /\ bound' = IF o.at = "done" THEN bound \ {a} ELSE bound
  BY <1>3 DEF FormInv, TypeOK, NoFile, Rename, Leaves, SlotsKnown, MovedTo
<1>7. TypeOK'
  BY <1>1, <1>3, <1>4, <1>5, OneMoves, <1>6 DEF FormInv, TypeOK, MovedTo, Rename
<1>8. /\ \A s \in tmp : s \in Slot /\ Known(s)
      /\ Known(disk)
  BY DEF FormInv, TypeOK, NoFile, SlotsKnown
<1>9. Fits(a, o)
  <2>1. /\ mem' = mem /\ Known(disk') /\ \A s \in tmp' : s \in Slot /\ Known(s)
        /\ Known(o.copy)
    BY <1>3, <1>5, <1>6 DEF MovedTo, Known, NoFile
  <2>2. op[a].taken # NoForm => place = "trace"
    BY DEF AfterSave
  <2>3. place = "wait" => a \in Sync /\ op[a].goal = "set"
    BY <1>1 DEF AfterSave, FormInv, OwnPurpose, Asking
  <2>4. place \in {"trace", "wait", "turn", "done"} /\ (place = "trace" => op[a].taken # NoForm)
    BY DEF AfterSave
  <2>5. place # "done" => bound' = bound
    BY <1>3, <1>6 DEF MovedTo
  <2> HIDE DEF place
  <2> QED BY <1>1, <1>3, <1>5, <1>6, <2>1, <2>2, <2>3, <2>4, <2>5 DEF Fits, FormInv,
             MovedTo, OwnPurpose, Awaited, Recorded, Held, Asking
<1> QED BY <1>3, <1>4, <1>7, <1>9, FitsInv DEF MovedTo

LEMMA RenameFailsInv == ASSUME FormInv, NEW a \in Actor, RenameFails(a) PROVE FormInv'
<1> USE FormAssumptions DEF Form, Actor
<1> DEFINE place == AfterError(op[a])
<1> DEFINE o == Moved(op[a], place)
<1>1. op \in [Actor -> OpState] /\ op[a] \in OpState /\ mem \in Slot /\ op[a].at = "rename"
  BY DEF FormInv, TypeOK, RenameFails
<1>2. place \in Place /\ o = Moved(op[a], place)
  BY <1>1 DEF Place, AfterSave, AfterError
<1> HIDE DEF place, o
<1>3. MovedTo(op[a], place, o)
  BY <1>1, <1>2, MovedType
<1>4. op' = [op EXCEPT ![a] = o]
  BY <1>1 DEF o, place, RenameFails, Goes, Leaves
<1> USE DEF place
<1>5. UNCHANGED <<mem, disk, tmp, live, channels, traced, restarts, displaced, stuck>>
  BY DEF RenameFails, files, run, faults
<1>6. /\ lost' = lost \cup ({op[a].taken} \cap Async)
      /\ bound' = IF o.at = "done" THEN bound \ {a} ELSE bound
  BY <1>3 DEF RenameFails, Leaves, MovedTo
<1>7. TypeOK'
  BY <1>1, <1>3, <1>4, <1>5, OneMoves, <1>6 DEF FormInv, TypeOK, MovedTo, RenameFails
<1>8. /\ \A s \in tmp : s \in Slot /\ Known(s)
      /\ Known(disk)
  BY DEF FormInv, TypeOK, NoFile, SlotsKnown
<1>9. Fits(a, o)
  BY <1>1, <1>3, <1>5, <1>8, <1>6 DEF Fits, FormInv, MovedTo, AfterError, SlotsKnown,
     OwnPurpose, Awaited, Recorded, Held, Asking, Known
<1> QED BY <1>3, <1>4, <1>7, <1>9, FitsInv DEF MovedTo

LEMMA TraceInv == ASSUME FormInv, NEW a \in Actor, Trace(a) PROVE FormInv'
<1> USE FormAssumptions DEF Form, Actor
<1> DEFINE place == AfterError(op[a])
<1> DEFINE o == Moved(op[a], place)
<1>1. op \in [Actor -> OpState] /\ op[a] \in OpState /\ mem \in Slot /\ op[a].at = "trace"
  BY DEF FormInv, TypeOK, Trace
<1>2. place \in Place /\ o = Moved(op[a], place)
  BY <1>1 DEF Place, AfterSave, AfterError
<1> HIDE DEF place, o
<1>3. MovedTo(op[a], place, o)
  BY <1>1, <1>2, MovedType
<1>4. op' = [op EXCEPT ![a] = o]
  BY <1>1 DEF o, place, Trace, Goes, Leaves
<1> USE DEF place
<1>5. UNCHANGED <<mem, disk, tmp, live, channels, bound, restarts, displaced, lost, stuck>>
  BY DEF Trace, files, run, faults
<1>6. traced' = traced \cup {op[a].taken} /\ op[a].taken \in Form
  BY <1>1 DEF FormInv, Held, Trace, OpState
<1>7. TypeOK'
  BY <1>1, <1>3, <1>4, <1>5, OneMoves, <1>6 DEF FormInv, TypeOK, MovedTo, Trace
<1>8. /\ \A s \in tmp : s \in Slot /\ Known(s)
      /\ Known(disk)
  BY DEF FormInv, TypeOK, NoFile, SlotsKnown
<1>9. Fits(a, o)
  BY <1>1, <1>3, <1>5, <1>8, <1>6 DEF Fits, FormInv, MovedTo, AfterError, SlotsKnown,
     OwnPurpose, Awaited, Recorded, Held, Asking, Known
<1> QED BY <1>3, <1>4, <1>7, <1>9, FitsInv DEF MovedTo

LEMMA RecordInv == ASSUME FormInv, NEW a \in Actor, Record(a) PROVE FormInv'
<1> USE FormAssumptions DEF Form, Actor
<1> DEFINE place == "patch"
<1> DEFINE o == Moved(op[a], place)
<1>1. op \in [Actor -> OpState] /\ op[a] \in OpState /\ mem \in Slot /\ op[a].at = "record"
  BY DEF FormInv, TypeOK, Record
<1>2. place \in Place /\ o = Moved(op[a], place)
  BY <1>1 DEF Place, AfterSave, AfterError
<1> HIDE DEF place, o
<1>3. MovedTo(op[a], place, o)
  BY <1>1, <1>2, MovedType
<1>4. op' = [op EXCEPT ![a] = o]
  BY <1>1 DEF o, place, Record, Goes, Leaves
<1> USE DEF place
<1>5. UNCHANGED <<mem, disk, tmp, live, channels, bound, restarts, displaced, lost, stuck>>
  BY DEF Record, files, run, faults
<1>6. /\ a \in Caller /\ op[a].goal = "clear" /\ op[a].form \in Async
      /\ traced' = traced \cup {op[a].form}
  BY <1>1 DEF FormInv, OwnPurpose, Recorded, Record
<1>7. TypeOK'
  BY <1>1, <1>3, <1>4, <1>5, OneMoves, <1>6 DEF FormInv, TypeOK, MovedTo, Record
<1>8. /\ \A s \in tmp : s \in Slot /\ Known(s)
      /\ Known(disk)
  BY DEF FormInv, TypeOK, NoFile, SlotsKnown
<1>9. Fits(a, o)
  BY <1>1, <1>3, <1>5, <1>8, <1>6 DEF Fits, FormInv, MovedTo, SlotsKnown, OwnPurpose,
     Awaited, Recorded, Held, Asking, Known
<1> QED BY <1>3, <1>4, <1>7, <1>9, FitsInv DEF MovedTo

LEMMA QueueTurnInv == ASSUME FormInv, NEW a \in Actor, QueueTurn(a) PROVE FormInv'
<1> USE FormAssumptions DEF Form, Actor
<1> DEFINE place == "done"
<1> DEFINE o == Moved(op[a], place)
<1>1. op \in [Actor -> OpState] /\ op[a] \in OpState /\ mem \in Slot /\ op[a].at = "turn"
  BY DEF FormInv, TypeOK, QueueTurn
<1>2. place \in Place /\ o = Moved(op[a], place)
  BY <1>1 DEF Place, AfterSave, AfterError
<1> HIDE DEF place, o
<1>3. MovedTo(op[a], place, o)
  BY <1>1, <1>2, MovedType
<1>4. op' = [op EXCEPT ![a] = o]
  BY <1>1 DEF o, place, QueueTurn, Goes, Leaves
<1> USE DEF place
<1>5. UNCHANGED <<mem, disk, tmp, live, channels, bound, traced, restarts, displaced, lost, stuck>>
  BY DEF QueueTurn, files, run, faults
<1>6. TypeOK'
  BY <1>1, <1>3, <1>4, <1>5, OneMoves DEF FormInv, TypeOK, MovedTo, QueueTurn
<1>7. /\ \A s \in tmp : s \in Slot /\ Known(s)
      /\ Known(disk)
  BY DEF FormInv, TypeOK, NoFile, SlotsKnown
<1>8. Fits(a, o)
  BY <1>1, <1>3, <1>5, <1>7 DEF Fits, FormInv, MovedTo, QueueTurn, SlotsKnown, OwnPurpose,
     Awaited, Recorded, Held, Asking, Known
<1> QED BY <1>3, <1>4, <1>6, <1>8, FitsInv DEF MovedTo

LEMMA WakeInv == ASSUME FormInv, NEW f \in Sync, Wake(f) PROVE FormInv'
<1> USE FormAssumptions DEF Form, Actor
<1> DEFINE o == Clearing(f)
<1>1. op \in [Actor -> OpState] /\ op[f] \in OpState /\ mem \in Slot /\ op[f].at = "wait"
  BY DEF FormInv, TypeOK, Wake
<1>2. /\ o \in OpState /\ o.at = "patch" /\ o.goal = "clear" /\ o.form = f
      /\ o.copy = Empty /\ o.taken = NoForm /\ Empty.form = NoForm
  BY <1>1 DEF OpState, Idle, Place, Goal, Slot, Empty, Clearing
<1>3. op' = [op EXCEPT ![f] = o]
  BY <1>1 DEF Wake
<1> HIDE DEF o
<1>4. UNCHANGED <<mem, disk, tmp, live, channels, bound, traced, restarts, lost, stuck>>
  BY DEF Wake, files, run, faults
<1>5. TypeOK'
  BY <1>1, <1>2, <1>3, <1>4, OneMoves DEF FormInv, TypeOK, Wake
<1>6. /\ \A s \in tmp : s \in Slot /\ Known(s)
      /\ Known(disk)
  BY DEF FormInv, TypeOK, NoFile, SlotsKnown
<1>7. Fits(f, o)
  BY <1>1, <1>2, <1>4, <1>6 DEF Fits, FormInv, Wake, SlotsKnown, OwnPurpose, Awaited,
     Recorded, Held, Asking, Known
<1> QED BY <1>2, <1>3, <1>5, <1>7, FitsInv

-----------------------------------------------------------------------------
LEMMA AskInv == ASSUME FormInv, NEW f \in Sync, Ask(f) PROVE FormInv'
<1> USE FormAssumptions DEF Form, Actor
<1> DEFINE o == [Idle EXCEPT !.at = "patch", !.goal = "set", !.form = f]
<1>1. op \in [Actor -> OpState] /\ op[f] \in OpState /\ mem \in Slot /\ op[f].at = "new"
  BY DEF FormInv, TypeOK, Ask
<1>2. /\ o \in OpState /\ o.at = "patch" /\ o.goal = "set" /\ o.form = f
      /\ o.copy = Empty /\ o.taken = NoForm /\ Empty.form = NoForm
  BY <1>1 DEF OpState, Idle, Place, Goal, Slot, Empty
<1>3. op' = [op EXCEPT ![f] = o]
  BY <1>1 DEF Ask
<1> HIDE DEF o
<1>4. UNCHANGED <<mem, disk, tmp, live, traced, restarts, displaced, lost, stuck>>
  BY DEF Ask, files, run, faults
<1>5. TypeOK'
  BY <1>1, <1>2, <1>3, <1>4, OneMoves DEF FormInv, TypeOK, Ask
<1>6. /\ \A s \in tmp : s \in Slot /\ Known(s)
      /\ Known(disk)
  BY DEF FormInv, TypeOK, NoFile, SlotsKnown
<1>7. Fits(f, o)
  BY <1>1, <1>2, <1>4, <1>6 DEF Fits, FormInv, Ask, SlotsKnown, OwnPurpose, Awaited,
     Recorded, Held, Asking, Known
<1> QED BY <1>2, <1>3, <1>5, <1>7, FitsInv

LEMMA PostInv == ASSUME FormInv, NEW f \in Async, Post(f) PROVE FormInv'
<1> USE FormAssumptions DEF Form, Actor
<1> DEFINE o == [Idle EXCEPT !.at = "patch", !.goal = "set", !.form = f]
<1>1. op \in [Actor -> OpState] /\ op[f] \in OpState /\ mem \in Slot /\ op[f].at = "new"
  BY DEF FormInv, TypeOK, Post
<1>2. /\ o \in OpState /\ o.at = "patch" /\ o.goal = "set" /\ o.form = f
      /\ o.copy = Empty /\ o.taken = NoForm /\ Empty.form = NoForm
  BY <1>1 DEF OpState, Idle, Place, Goal, Slot, Empty
<1>3. op' = [op EXCEPT ![f] = o]
  BY <1>1 DEF Post
<1> HIDE DEF o
<1>4. UNCHANGED <<mem, disk, tmp, live, channels, bound, traced, restarts, displaced, lost, stuck>>
  BY DEF Post, files, run, faults
<1>5. TypeOK'
  BY <1>1, <1>2, <1>3, <1>4, OneMoves DEF FormInv, TypeOK, Post
<1>6. /\ \A s \in tmp : s \in Slot /\ Known(s)
      /\ Known(disk)
  BY DEF FormInv, TypeOK, NoFile, SlotsKnown
<1>7. Fits(f, o)
  BY <1>1, <1>2, <1>4, <1>6 DEF Fits, FormInv, Post, SlotsKnown, OwnPurpose, Awaited,
     Recorded, Held, Asking, Known
<1> QED BY <1>2, <1>3, <1>5, <1>7, FitsInv

LEMMA DropCallInv == ASSUME FormInv, NEW f \in Sync, DropCall(f) PROVE FormInv'
<1> USE FormAssumptions DEF Form, Actor
<1> DEFINE o == IF op[f].at = "wait" THEN Clearing(f) ELSE Moved(op[f], "gone")
<1>1. op \in [Actor -> OpState] /\ op[f] \in OpState /\ mem \in Slot /\ f \in bound
  BY DEF FormInv, TypeOK, DropCall
<1>2. /\ o \in OpState /\ o.copy = Empty /\ o.taken = NoForm /\ Empty.form = NoForm
      /\ \/ o.at = "patch" /\ o.goal = "clear" /\ o.form = f
         \/ o.at = "gone" /\ o.goal = "none" /\ o.form = NoForm
  <2>1. CASE op[f].at = "wait"
    BY <2>1 DEF OpState, Idle, Place, Goal, Slot, Empty, Clearing
  <2>2. CASE op[f].at # "wait"
    <3>1. o = Moved(op[f], "gone") /\ "gone" \in Place
      BY <2>2 DEF Place
    <3> HIDE DEF o
    <3> QED BY <1>1, <3>1, MovedType DEF MovedTo
  <2> QED BY <2>1, <2>2
<1>3. op' = [op EXCEPT ![f] = o]
  BY <1>1 DEF DropCall, Goes
<1> HIDE DEF o
<1>4. UNCHANGED <<mem, live, channels, traced, restarts>>
  BY DEF DropCall, files, run, faults
<1>5. /\ bound' = bound \ {f} /\ displaced' = displaced \ {f}
      /\ lost' = lost \cup ({op[f].taken} \cap Async) /\ stuck' \subseteq stuck \cup {f}
  BY DEF DropCall
<1>6. /\ tmp' = tmp \/ tmp' = NoFile \/ tmp' = {op[f].copy}
      /\ disk' = disk \/ disk' \in tmp
  BY DEF DropCall, SystemCall, files
<1>7. /\ \A s \in tmp : s \in Slot /\ Known(s)
      /\ Known(disk) /\ Known(op[f].copy) /\ op[f].copy \in Slot /\ disk \in Slot
  BY <1>1 DEF FormInv, TypeOK, NoFile, SlotsKnown, OpState
<1>8. /\ disk' \in Slot /\ Known(disk')
      /\ \A s \in tmp' : s \in Slot /\ Known(s)
      /\ tmp' = NoFile \/ \E s \in Slot : tmp' = {s}
  BY <1>6, <1>7 DEF FormInv, TypeOK, NoFile
<1>9. TypeOK'
  BY <1>1, <1>2, <1>3, <1>4, <1>5, <1>8, OneMoves DEF FormInv, TypeOK
<1>10. Fits(f, o)
  BY <1>1, <1>2, <1>4, <1>5, <1>8 DEF Fits, FormInv, SlotsKnown, OwnPurpose, Awaited,
     Recorded, Held, Asking, Known
<1> QED BY <1>2, <1>3, <1>9, <1>10, FitsInv

LEMMA RequestInv == ASSUME FormInv, NEW c \in Caller, Request(c) PROVE FormInv'
<1> USE FormAssumptions DEF Form, Actor
<1>0. PICK answers \in BOOLEAN :
        op' = [op EXCEPT ![c] = [Idle EXCEPT !.at = "record", !.goal = "clear",
                                             !.form = mem.form, !.answers = answers]]
  BY DEF Request
<1> DEFINE o == [Idle EXCEPT !.at = "record", !.goal = "clear", !.form = mem.form,
                             !.answers = answers]
<1>1. op \in [Actor -> OpState] /\ op[c] \in OpState /\ mem \in Slot /\ op[c].at = "new" /\ mem.form \in Async
  BY DEF FormInv, TypeOK, Request
<1>2. /\ o \in OpState /\ o.at = "record" /\ o.goal = "clear" /\ o.form = mem.form
      /\ o.copy = Empty /\ o.taken = NoForm /\ Empty.form = NoForm
  BY <1>1 DEF OpState, Idle, Place, Goal, Slot, Empty
<1>3. op' = [op EXCEPT ![c] = o]
  BY <1>0
<1> HIDE DEF o
<1>4. UNCHANGED <<mem, disk, tmp, live, channels, bound, traced, restarts, displaced, lost, stuck>>
  BY DEF Request, files, run, faults
<1>5. TypeOK'
  BY <1>1, <1>2, <1>3, <1>4, OneMoves DEF FormInv, TypeOK, Request
<1>6. /\ \A s \in tmp : s \in Slot /\ Known(s)
      /\ Known(disk)
  BY DEF FormInv, TypeOK, NoFile, SlotsKnown
<1>7. Fits(c, o)
  BY <1>1, <1>2, <1>4, <1>6 DEF Fits, FormInv, Request, SlotsKnown, OwnPurpose, Awaited,
     Recorded, Held, Asking, Known
<1> QED BY <1>2, <1>3, <1>5, <1>7, FitsInv

LEMMA OtherUpdateInv == ASSUME FormInv, NEW c \in Caller, OtherUpdate(c) PROVE FormInv'
<1> USE FormAssumptions DEF Form, Actor
<1>0. PICK goal \in {"vacate", "touch"} :
        op' = [op EXCEPT ![c] = [Idle EXCEPT !.at = "patch", !.goal = goal]]
  BY DEF OtherUpdate
<1> DEFINE o == [Idle EXCEPT !.at = "patch", !.goal = goal]
<1>1. op \in [Actor -> OpState] /\ op[c] \in OpState /\ mem \in Slot /\ op[c].at = "new"
  BY DEF FormInv, TypeOK, OtherUpdate
<1>2. /\ o \in OpState /\ o.at = "patch" /\ o.goal \in {"vacate", "touch"}
      /\ o.form = NoForm /\ o.copy = Empty /\ o.taken = NoForm /\ Empty.form = NoForm
  BY <1>1 DEF OpState, Idle, Place, Goal, Slot, Empty
<1>3. op' = [op EXCEPT ![c] = o]
  BY <1>0
<1> HIDE DEF o
<1>4. UNCHANGED <<mem, disk, tmp, live, channels, bound, traced, restarts, displaced, lost, stuck>>
  BY DEF OtherUpdate, files, run, faults
<1>5. TypeOK'
  BY <1>1, <1>2, <1>3, <1>4, OneMoves DEF FormInv, TypeOK, OtherUpdate
<1>6. /\ \A s \in tmp : s \in Slot /\ Known(s)
      /\ Known(disk)
  BY DEF FormInv, TypeOK, NoFile, SlotsKnown
<1>7. Fits(c, o)
  BY <1>1, <1>2, <1>4, <1>6 DEF Fits, FormInv, OtherUpdate, SlotsKnown, OwnPurpose,
     Awaited, Recorded, Held, Asking, Known
<1> QED BY <1>2, <1>3, <1>5, <1>7, FitsInv

LEMMA ReadFormsInv == ASSUME FormInv, ReadForms PROVE FormInv'
<1> USE FormAssumptions DEF Form, Actor
<1> DEFINE o == IF mem.form \in Sync /\ ~mem.orphaned
                  THEN [Idle EXCEPT !.at = "check", !.goal = "mark", !.form = mem.form]
                  ELSE Moved(Idle, "done")
<1>1. op \in [Actor -> OpState] /\ op[Reaper] \in OpState /\ mem \in Slot /\ op[Reaper].at = "new"
  BY DEF FormInv, TypeOK, ReadForms
<1>2. /\ o \in OpState /\ o.copy = Empty /\ o.taken = NoForm /\ Empty.form = NoForm
      /\ \/ o.at = "check" /\ o.goal = "mark" /\ o.form = mem.form /\ mem.form \in Sync
         \/ o.at = "done" /\ o.goal = "none" /\ o.form = NoForm
  BY <1>1 DEF Moved, OpState, Idle, Place, Goal, Slot, Empty
<1>3. op' = [op EXCEPT ![Reaper] = o]
  BY <1>1 DEF ReadForms
<1> HIDE DEF o
<1>4. UNCHANGED <<mem, disk, tmp, live, channels, bound, traced, restarts, displaced, lost, stuck>>
  BY DEF ReadForms, files, run, faults
<1>5. TypeOK'
  BY <1>1, <1>2, <1>3, <1>4, OneMoves DEF FormInv, TypeOK, ReadForms
<1>6. /\ \A s \in tmp : s \in Slot /\ Known(s)
      /\ Known(disk)
  BY DEF FormInv, TypeOK, NoFile, SlotsKnown
<1>7. Fits(Reaper, o)
  BY <1>1, <1>2, <1>4, <1>6 DEF Fits, FormInv, ReadForms, SlotsKnown, OwnPurpose, Awaited,
     Recorded, Held, Asking, Known
<1> QED BY <1>2, <1>3, <1>5, <1>7, FitsInv

LEMMA CheckRunInv == ASSUME FormInv, CheckRun PROVE FormInv'
<1> USE FormAssumptions DEF Form, Actor
<1> DEFINE place == (IF live THEN "done" ELSE "patch")
<1> DEFINE o == Moved(op[Reaper], place)
<1>1. op \in [Actor -> OpState] /\ op[Reaper] \in OpState /\ mem \in Slot /\ op[Reaper].at = "check"
  BY DEF FormInv, TypeOK, CheckRun
<1>2. place \in Place /\ o = Moved(op[Reaper], place)
  BY <1>1 DEF Place, AfterSave, AfterError
<1> HIDE DEF place, o
<1>3. MovedTo(op[Reaper], place, o)
  BY <1>1, <1>2, MovedType
<1>4. op' = [op EXCEPT ![Reaper] = o]
  BY <1>1 DEF o, place, CheckRun, Goes
<1> USE DEF place
<1>5. UNCHANGED <<mem, disk, tmp, live, channels, bound, traced, restarts, displaced, lost>>
  BY DEF CheckRun, files, run, faults
<1>6. /\ op[Reaper].goal = "mark" /\ op[Reaper].form \in Sync /\ op[op[Reaper].form].at # "new"
      /\ ~live => channels = {}
      /\ stuck' \subseteq stuck \cup {op[Reaper].form}
  BY <1>1 DEF FormInv, SweepSound, TypeOK, CheckRun
<1>7. TypeOK'
  BY <1>1, <1>3, <1>4, <1>5, OneMoves, <1>6 DEF FormInv, TypeOK, MovedTo, CheckRun
<1>8. /\ \A s \in tmp : s \in Slot /\ Known(s)
      /\ Known(disk)
  BY DEF FormInv, TypeOK, NoFile, SlotsKnown
<1>9. Fits(Reaper, o)
  BY <1>1, <1>3, <1>5, <1>8, <1>6 DEF Fits, FormInv, MovedTo, CheckRun, SlotsKnown,
     OwnPurpose, Awaited, Recorded, Held, Asking, Known
<1> QED BY <1>3, <1>4, <1>7, <1>9, FitsInv DEF MovedTo

-----------------------------------------------------------------------------
(* Steps that leave the actors where they are. *)

LEMMA FewerChannels ==
    ASSUME FormInv, TypeOK', channels' \subseteq channels,
           UNCHANGED <<mem, disk, tmp, op, bound, traced, displaced, lost>>
    PROVE  FormInv'
BY DEF FormInv, SlotsKnown, Known, OwnPurpose, Awaited, Shown, SweepSound, Held, Recorded,
   NoSilentLoss

LEMMA RunInv ==
    ASSUME FormInv, RunBegins \/ RunEnds \/ \E f \in Form : Deliver(f)
    PROVE  FormInv'
<1>1. /\ channels' \subseteq channels
      /\ UNCHANGED <<mem, disk, tmp, op, bound, traced, displaced, lost, stuck, restarts>>
  BY DEF RunBegins, RunEnds, Deliver, files, run, faults
<1>2. live' \in BOOLEAN /\ (~live' => channels' = {})
  BY DEF FormInv, TypeOK, RunBegins, RunEnds, Deliver
<1>3. TypeOK'
  BY <1>1, <1>2 DEF FormInv, TypeOK
<1> QED BY <1>1, <1>3, FewerChannels

LEMMA RestartInv == ASSUME FormInv, Restart PROVE FormInv'
<1> USE FormAssumptions DEF Form, Actor
<1>1. /\ mem' = disk /\ UNCHANGED <<disk, tmp, traced>>
      /\ live' = FALSE /\ channels' = {} /\ bound' = {} /\ displaced' = {} /\ stuck' = {}
      /\ lost' = lost \cup {f \in Async : op[f].at # "new" /\ disk.form # f}
  BY DEF Restart, files
<1>2. [Idle EXCEPT !.at = "gone"] \in OpState /\ Idle \in OpState
  BY DEF OpState, Idle, Place, Goal, Slot, Empty
<1>3. ASSUME NEW a \in Actor
      PROVE  op'[a] = IF a = Reaper \/ op[a].at = "new" THEN Idle ELSE [Idle EXCEPT !.at = "gone"]
  BY DEF Restart, Moved
<1>4. op' \in [Actor -> OpState]
  <2>1. op' = [a \in Actor |-> IF a = Reaper \/ op[a].at = "new" THEN Idle
                               ELSE Moved(op[a], "gone")]
    BY DEF Restart
  <2>2. \A a \in Actor : op'[a] \in OpState
    BY <1>2, <1>3
  <2> QED BY <2>1, <2>2
<1>5. TypeOK'
  <2>1. restarts' \in 0..MaxRestarts
    BY DEF FormInv, TypeOK, Restart
  <2> QED BY <1>1, <1>4, <2>1 DEF FormInv, TypeOK
<1>6. ASSUME NEW a \in Actor
      PROVE  /\ op'[a].at \in {"new", "gone"} /\ op'[a].goal = "none"
             /\ op'[a].taken = NoForm /\ op'[a].copy.form = NoForm
             /\ a # Reaper => (op'[a].at = "new" <=> op[a].at = "new")
  BY <1>3 DEF Idle, Empty
<1>7. ASSUME NEW s \in Slot, Known(s) PROVE Known(s)'
  BY <1>6, <1>7 DEF Known, Slot
<1>8. SlotsKnown'
  <2>1. disk \in Slot /\ Known(disk) /\ \A s \in tmp : s \in Slot /\ Known(s)
    BY DEF FormInv, TypeOK, NoFile, SlotsKnown
  <2>2. Known(mem)' /\ Known(disk)' /\ \A s \in tmp : Known(s)'
    BY <2>1, <1>7, <1>1 DEF Known
  <2>3. \A a \in Actor : Known(op[a].copy)'
    BY <1>6 DEF Known
  <2> QED BY <2>2, <2>3, <1>1 DEF SlotsKnown
<1>9. OwnPurpose' /\ Awaited' /\ Shown' /\ SweepSound' /\ Held' /\ Recorded'
  BY <1>6 DEF OwnPurpose, Awaited, Shown, SweepSound, Held, Recorded, Asking
<1>10. NoSilentLoss'
  BY <1>1, <1>6 DEF NoSilentLoss
<1> QED BY <1>5, <1>8, <1>9, <1>10 DEF FormInv

-----------------------------------------------------------------------------
LEMMA StepInv == ASSUME FormInv, NEW a \in Actor, Step(a) PROVE FormInv'
<1> USE FormAssumptions DEF Form, Actor
<1>1. CASE Wake(a)
  <2>1. a \in Sync
    BY <1>1 DEF Wake, FormInv, OwnPurpose
  <2> QED BY <2>1, <1>1, WakeInv
<1> QED BY <1>1, PatchInv, CloneInv, WriteInv, RenameInv, RenameFailsInv, TraceInv,
           RecordInv, QueueTurnInv DEF Step

LEMMA NextInv == ASSUME FormInv, [Next]_vars PROVE FormInv'
<1> USE FormAssumptions DEF Form, Actor
<1>1. ASSUME NEW a \in Actor, Step(a) PROVE FormInv'
  BY <1>1, StepInv
<1>2. ASSUME NEW f \in Form, Ask(f) \/ Post(f) \/ DropCall(f) PROVE FormInv'
  <2>1. Ask(f) => f \in Sync
    BY DEF Ask
  <2>2. Post(f) => f \in Async
    BY DEF Post
  <2>3. DropCall(f) => f \in Sync
    BY DEF DropCall, FormInv, TypeOK
  <2> QED BY <1>2, <2>1, <2>2, <2>3, AskInv, PostInv, DropCallInv
<1>3. ASSUME NEW c \in Caller, Request(c) \/ OtherUpdate(c) PROVE FormInv'
  BY <1>3, RequestInv, OtherUpdateInv
<1>4. CASE Sweep
  BY <1>4, ReadFormsInv, CheckRunInv DEF Sweep
<1>5. CASE UNCHANGED vars
  <2>1. UNCHANGED <<mem, disk, tmp, op, live, channels, bound, traced, restarts, displaced,
                    lost, stuck>>
    BY <1>5 DEF vars
  <2>2. TypeOK'
    BY <2>1 DEF FormInv, TypeOK
  <2> QED BY <2>1, <2>2, FewerChannels
<1>6. CASE Next
  BY <1>6, <1>1, <1>2, <1>3, <1>4, RunInv, RestartInv DEF Next
<1> QED BY <1>5, <1>6

\* Types, and all of FormInv.  The code it is about: every step of
\* PendingFormStore, ask_form, the form routes and the sweep.
THEOREM FormInvariance == Spec => []FormInv
<1>1. Init => FormInv
  BY InitInv
<1>2. FormInv /\ [Next]_vars => FormInv'
  BY NextInv
<1> QED BY <1>1, <1>2, PTL DEF Spec

\* Whatever an older call, a cancel, an answer to another form or the sweep is
\* still doing to the snapshot, the form of a call that waits and can be answered
\* is the one shown (clear_pending_form removes by the form's id).
THEOREM PointersAreShown == Spec => []PointerShown
<1>1. FormInv => PointerShown
  BY DEF FormInv, PointerShown, Shown, OwnPurpose, Form, Actor
<1> QED BY <1>1, FormInvariance, PTL

\* A posted form never leaves the slot without a trace, except by a save that
\* failed, a call that was dropped or a restart (persist_posted_form,
\* persist_withdrawn_form_entry, the routes' own entries).
THEOREM NoFormLostSilently == Spec => []NoSilentLoss
<1>1. FormInv => NoSilentLoss
  BY DEF FormInv
<1> QED BY <1>1, FormInvariance, PTL
=============================================================================
