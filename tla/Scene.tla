------------------------------- MODULE Scene --------------------------------
(***************************************************************************)
(* What a call does to the scene, to Houdini's undo and redo stacks and to *)
(* the host's dirty flag: the dispatcher's undo group and the rollback of  *)
(* a failing call (host/dispatch.py, host/undo.py), the undo tool          *)
(* (host/tools/state.py), the dirty flag (host/tools/registry.py,          *)
(* host/runtime.py) and hip_new and hip_save (host/tools/hip.py).          *)
(*                                                                         *)
(* The executor runs one call at a time on the main thread (Executor), so  *)
(* the user acts between two calls only.  A change is a number; the scene  *)
(* is the set of changes that are in it.                                   *)
(***************************************************************************)
EXTENDS Naturals, Sequences

CONSTANTS
  Labels,     \* the undo labels of calls: "HocusPocus: <tool> <summary>"
  HdaLabels,  \* those of the hda tool, which opens its undo group itself
  Tools,      \* the tools called; "edit" stands for every tool with an undo group
              \* and "probe" for every read
  UserEdits,  \* whether a node event reports an edit of the user's: {TRUE, FALSE} for
              \* both kinds of edit, {} for none
  MaxEdits    \* bound: changes made

User == "user"  \* the label of a step that is not a call's

AllTools == {"edit", "script", "hda", "new", "save", "undo", "redo", "probe"}

ASSUME SceneAssumption ==
  /\ HdaLabels \subseteq Labels /\ User \notin Labels
  /\ Tools \subseteq AllTools
  /\ UserEdits \subseteq BOOLEAN
  /\ MaxEdits \in Nat

Edits == 1 .. MaxEdits
Names == Labels \cup {User}
\* A step on a stack; failed: it was left there by the rollback of its call.
Steps == [label : Names, edits : SUBSET Edits, failed : BOOLEAN]
Writers == {"edit", "script", "hda"}

VARIABLES
  scene,    \* the changes in the scene
  saved,    \* the changes in the hip file, or in the empty scene
  made,     \* how many changes were made
  undos,    \* Houdini's undo stack, newest first
  redos,    \* Houdini's redo stack, next first
  undoOn,   \* hou.undos.areEnabled(); never changes
  ui,       \* a GUI session; never changes
  flag,     \* Houdini's hasUnsavedChanges()
  seen,     \* SceneState.houdini_flag
  tracked,  \* SceneState.dirty
  user,     \* SceneState.user_dirty is set
  rolled,   \* UndoHistory._rolled_back, the redo labels after each rollback
  call,     \* the call on the main thread
  told,     \* rolled_back, as the last failing call reported it
  leak      \* the scene changed since it was last clean in a way nobody marks

stacks == <<undos, redos>>
modes == <<undoOn, ui>>
dirt == <<flag, seen, tracked, user>>
sceneVars == <<scene, saved, made, stacks, modes, dirt, rolled, call, told, leak>>

NoCall == [tool |-> "none", label |-> User, start |-> {}, stack |-> <<>>,
           group |-> {}, odd |-> FALSE, clean |-> FALSE, performed |-> FALSE]

SceneInit ==
  /\ scene = {} /\ saved = {} /\ made = 0
  /\ undos = <<>> /\ redos = <<>>
  /\ undoOn \in BOOLEAN /\ ui \in BOOLEAN
  /\ flag \in BOOLEAN
  /\ seen = (ui /\ flag) /\ user = (ui /\ flag) /\ tracked = FALSE
  /\ rolled = {} /\ call = NoCall /\ told = "none" /\ leak = FALSE

Dirty == tracked \/ user
LabelsOf(steps) == [i \in 1 .. Len(steps) |-> steps[i].label]

\* A snapshot is alive while the redo stack ends with it.
EndsWith(names, end) ==
  /\ Len(end) <= Len(names)
  /\ SubSeq(names, Len(names) - Len(end) + 1, Len(names)) = end
Alive(steps) == {s \in rolled : EndsWith(LabelsOf(steps), s)}

\* The next redo is a call that failed and was rolled back.
Refused(steps) == LabelsOf(steps) \in rolled

-----------------------------------------------------------------------------
(* Houdini: its steps, and its own flag. *)

Push(step) == undos' = <<step>> \o undos /\ redos' = <<>>

Make ==
  /\ made < MaxEdits
  /\ made' = made + 1
  /\ scene' = scene \cup {made + 1}
  /\ flag' = TRUE

PerformUndo(u, r, failed) ==
  /\ undos' = Tail(u)
  /\ redos' = <<[u[1] EXCEPT !.failed = failed]>> \o r
  /\ scene' = scene \ u[1].edits
  /\ flag' = TRUE

PerformRedo ==
  /\ redos' = Tail(redos)
  /\ undos' = <<[redos[1] EXCEPT !.failed = FALSE]>> \o undos
  /\ scene' = scene \cup redos[1].edits
  /\ flag' = TRUE

\* SceneState.mark_clean, called by the hip events.
MarkClean == tracked' = FALSE /\ user' = FALSE /\ seen' = FALSE

SaveFile ==
  /\ saved' = scene
  /\ flag' = FALSE
  /\ MarkClean
  /\ leak' = FALSE
  /\ UNCHANGED <<scene, made, stacks, modes, rolled, told>>

ClearFile ==
  /\ scene' = {} /\ saved' = {}
  /\ undos' = <<>> /\ redos' = <<>>
  /\ flag' = FALSE
  /\ MarkClean
  /\ leak' = FALSE
  /\ UNCHANGED <<made, modes, rolled, told>>

-----------------------------------------------------------------------------
(* A call: the work wrapper around it, its body, and its end. *)

\* Houdini's flag went from FALSE to TRUE between two works: the user's change.
CheckFlag == user' = (user \/ (ui /\ flag /\ ~seen))

\* The flag as this work leaves it.
NoteFlag(after) == seen' = (ui /\ after)

Begin(t, l) ==
  /\ call = NoCall
  /\ t = "hda" <=> l \in HdaLabels
  /\ CheckFlag
  /\ call' = [NoCall EXCEPT !.tool = t, !.label = l, !.start = scene,
                            !.stack = LabelsOf(undos)]
  /\ told' = "none"
  /\ UNCHANGED <<scene, saved, made, stacks, modes, flag, seen, tracked, rolled,
                 leak>>

\* The body changes the scene inside the undo group.
Change ==
  /\ call.tool \in Writers
  /\ Make
  /\ call' = [call EXCEPT !.group = @ \cup {made + 1}]
  /\ UNCHANGED <<saved, stacks, modes, seen, tracked, user, rolled, told, leak>>

\* A script changes the scene with undo disabled.
ChangeUnrecorded ==
  /\ call.tool = "script"
  /\ Make
  /\ call' = [call EXCEPT !.odd = TRUE]
  /\ UNCHANGED <<saved, stacks, modes, seen, tracked, user, rolled, told, leak>>

\* A script saves or clears the scene itself.
ScriptSave ==
  /\ call.tool = "script"
  /\ SaveFile
  /\ call' = [call EXCEPT !.clean = TRUE]

ScriptClear ==
  /\ call.tool = "script"
  /\ ClearFile
  /\ call' = [call EXCEPT !.group = {}, !.odd = TRUE, !.clean = TRUE]

\* What the group recorded, and the undo stack once it is closed.
Recorded == IF undoOn THEN call.group ELSE {}
Closed ==
  IF Recorded = {} THEN undos
  ELSE <<[label |-> call.label, edits |-> Recorded, failed |-> FALSE]>> \o undos
Kept == IF Recorded = {} THEN redos ELSE <<>>

Finish == call' = NoCall /\ NoteFlag(flag')

\* Mutant: only what the group recorded counts as a change.
MarksRecorded(changed) == changed /\ Recorded # {}

\* A tool that changed something dirties the scene unless it saved or cleared it.
Marks(changed) == changed /\ (call.tool = "hda" \/ ~call.clean)

Succeed(changed) ==
  /\ call.tool \in Writers
  /\ changed \/ (call.tool = "edit" /\ call.group = {})
  /\ undos' = Closed /\ redos' = Kept
  /\ tracked' = (tracked \/ Marks(changed))
  /\ leak' = (leak \/ (call.clean /\ scene # saved))
  /\ UNCHANGED <<scene, saved, made, modes, flag, user, rolled, told>>
  /\ Finish

\* Mutant: the label alone tells the group's step.
MineByLabel == Closed # <<>> /\ Closed[1].label = call.label

\* The newest step is this group's: its label, and the stack is not the old one.
Mine ==
  /\ Closed # <<>>
  /\ Closed[1].label = call.label
  /\ LabelsOf(Closed) # call.stack

\* Mutant: the redo stack is read before the rollback.
RememberEarly ==
  IF call.tool = "hda" THEN rolled' = rolled
  ELSE \E old \in SUBSET rolled : rolled' = old \cup {LabelsOf(Kept)}

\* The dispatcher remembers the redo stack after a rollback; hda does not.  The
\* code keeps the last 20: any older one may be forgotten.
Remember ==
  IF call.tool = "hda" THEN rolled' = rolled
  ELSE \E old \in SUBSET rolled : rolled' = old \cup {LabelsOf(redos')}

Unmarked == leak' = (leak \/ (scene' # IF call.clean THEN saved ELSE call.start))

\* The error's detail says what the dispatcher's group did.
Report(what) == told' = IF call.tool = "hda" THEN "none" ELSE what

RollBack ==
  /\ undoOn /\ Mine
  /\ PerformUndo(Closed, Kept, TRUE)
  /\ Report("back")
  /\ Remember

\* Nothing is undone: undo is off, the group is empty or Houdini refuses.
LeaveIt ==
  /\ undos' = Closed /\ redos' = Kept
  /\ Report(IF undoOn /\ ~Mine THEN "back" ELSE "left")
  /\ UNCHANGED <<scene, flag, rolled>>

Fail ==
  /\ call.tool \in Writers \cup {"new", "save"}
  /\ RollBack \/ LeaveIt
  /\ Unmarked
  /\ UNCHANGED <<saved, made, modes, tracked, user>>
  /\ Finish

\* hip_new with on_unsaved: refuses a dirty scene, saves it first or discards it.
HipNew(policy) ==
  /\ call.tool = "new"
  /\ policy = "fail" => ~Dirty
  /\ ClearFile
  /\ call' = NoCall

HipSave ==
  /\ call.tool = "save"
  /\ SaveFile
  /\ call' = NoCall

\* A read makes temporary nodes: Houdini's flag is set, the scene is the same.
Probe ==
  /\ call.tool = "probe"
  /\ flag' = TRUE
  /\ Finish
  /\ UNCHANGED <<scene, saved, made, stacks, modes, tracked, user, rolled, told,
                 leak>>

-----------------------------------------------------------------------------
(* The undo tool: one step at a time. *)

Performed == call' = [call EXCEPT !.performed = TRUE]

StepUndo ==
  /\ call.tool = "undo"
  /\ undos # <<>>
  /\ PerformUndo(undos, redos, undos[1].failed)
  /\ Performed
  /\ UNCHANGED <<saved, made, modes, seen, tracked, user, rolled, told, leak>>

StepRedo ==
  /\ call.tool = "redo"
  /\ redos # <<>> /\ ~Refused(redos)
  /\ rolled' = Alive(redos)
  /\ PerformRedo
  /\ Performed
  /\ UNCHANGED <<saved, made, modes, seen, tracked, user, told, leak>>

\* Houdini refuses a step: the tool raises past its mark.
StepRaises ==
  /\ call.tool \in {"undo", "redo"}
  /\ leak' = (leak \/ call.performed)
  /\ UNCHANGED <<scene, saved, made, stacks, modes, flag, tracked, user, rolled,
                 told>>
  /\ Finish

\* The steps are done, there is no other, or the next is refused.
EndTool ==
  /\ call.tool \in {"undo", "redo"}
  /\ tracked' = (tracked \/ call.performed)
  /\ rolled' = Alive(redos)
  /\ UNCHANGED <<scene, saved, made, stacks, modes, flag, user, told, leak>>
  /\ Finish

-----------------------------------------------------------------------------
(* The user of a GUI session, between two calls. *)

\* A node event marks the scene; an edit no event reports shows in the flag only
\* if the flag was not set before.
Noticed(watched) ==
  /\ ui /\ call = NoCall
  /\ user' = (user \/ watched)
  /\ leak' = (leak \/ (~watched /\ seen /\ ~Dirty))
  /\ UNCHANGED <<saved, modes, seen, tracked, rolled, call, told>>

UserEdit(watched) ==
  /\ Noticed(watched)
  /\ Make
  /\ IF undoOn
     THEN Push([label |-> User, edits |-> {made + 1}, failed |-> FALSE])
     ELSE UNCHANGED stacks

UserUndo(watched) ==
  /\ Noticed(watched)
  /\ undos # <<>> /\ PerformUndo(undos, redos, undos[1].failed)
  /\ UNCHANGED made

UserRedo(watched) ==
  /\ Noticed(watched)
  /\ redos # <<>> /\ PerformRedo
  /\ UNCHANGED made

UserSave == ui /\ call = NoCall /\ UserEdits # {} /\ SaveFile /\ UNCHANGED call
UserNew == ui /\ call = NoCall /\ UserEdits # {} /\ ClearFile /\ UNCHANGED call

-----------------------------------------------------------------------------
SceneNext ==
  \/ \E t \in Tools, l \in Labels : Begin(t, l)
  \/ Change \/ ChangeUnrecorded \/ ScriptSave \/ ScriptClear
  \/ \E changed \in BOOLEAN : Succeed(changed)
  \/ Fail
  \/ \E policy \in {"fail", "save", "discard"} : HipNew(policy)
  \/ HipSave \/ Probe
  \/ StepUndo \/ StepRedo \/ StepRaises \/ EndTool
  \/ \E watched \in UserEdits :
       UserEdit(watched) \/ UserUndo(watched) \/ UserRedo(watched)
  \/ UserSave \/ UserNew

SceneSpec == SceneInit /\ [][SceneNext]_sceneVars

-----------------------------------------------------------------------------
(* Properties. *)

Calls == [tool : Tools \cup {"none"}, label : Names, start : SUBSET Edits,
          stack : Seq(Names), group : SUBSET Edits, odd : BOOLEAN,
          clean : BOOLEAN, performed : BOOLEAN]

SceneTypeOK ==
  /\ scene \subseteq Edits /\ saved \subseteq Edits /\ made \in 0 .. MaxEdits
  /\ undos \in Seq(Steps) /\ redos \in Seq(Steps)
  /\ undoOn \in BOOLEAN /\ ui \in BOOLEAN /\ flag \in BOOLEAN /\ seen \in BOOLEAN
  /\ tracked \in BOOLEAN /\ user \in BOOLEAN /\ leak \in BOOLEAN
  /\ rolled \subseteq Seq(Names)
  /\ call \in Calls
  /\ told \in {"none", "back", "left"}

\* The undo tool's redo never re-applies a call of the dispatcher that failed and
\* was rolled back, whatever calls, undos and steps of the user's came in between
\* (UndoHistory.rolled_back_in).
RedoSparesFailed ==
  [][StepRedo => (redos[1].failed => redos[1].label \in HdaLabels)]_sceneVars

\* A failing call that reports rolled_back: true left the scene as it found it,
\* unless it changed it outside the undo group or loaded another one
\* (hou_undo_group: an empty group never undoes an older call of the same label).
ToldBackMeansBack ==
  [][Fail /\ told' = "back" /\ ~call.odd => scene' = call.start]_sceneVars

\* Between two calls, a scene that is not what was saved counts as dirty, or will
\* when the next call looks at Houdini's flag: unless it changed in one of the ways
\* `leak` collects: a call that saved and changed on, a failing call that could not
\* be rolled back, an undo tool that raised, an edit of the user's that shows
\* nowhere (SceneState).
DirtyIsTrue ==
  call = NoCall /\ scene # saved => Dirty \/ (ui /\ flag /\ ~seen) \/ leak

\* Checked by a run of its own, and violated.  The redo tool refuses failed calls
\* only: UndoHistory says that a new change clears the redo stack "and with it the
\* entry".  The remembered labels outlive the stack they were read from.
GoodIsRedoable == redos # <<>> /\ Refused(redos) => redos[1].failed

=============================================================================
