--------------------------- MODULE RollbackProofs ---------------------------
(* Proofs about what a failing call leaves behind, in two parts.             *)
(*                                                                           *)
(* Scene: whatever the order of calls, failures, undos and the user's own    *)
(* steps, redo spares the failed calls, a reported rollback is one, and an   *)
(* unsaved scene is dirty.                                                   *)
(*                                                                           *)
(* Transactions: whatever the ops of a plan do, and whichever of them fails  *)
(* where, a rollback that says it took them back did so.  The argument:      *)
(* there is a path of networks from the one a rollback goes back to to the   *)
(* one there is now, an entry of the stack per stretch, and each entry leads *)
(* from the network after it to the one before it.                           *)
EXTENDS Scene, Transactions, SequenceTheorems, TLAPS

-----------------------------------------------------------------------------
(* Parts of the invariant over one stack. *)

Within(s, m) == \A i \in 1 .. Len(s) : s[i].edits \subseteq 1 .. m
NoneFailed(s) == \A i \in 1 .. Len(s) : s[i].failed = FALSE

\* A failed call of the dispatcher is the last step of the redo stack, and the
\* stack of it alone is remembered.
Spared(s, known) ==
  \A i \in 1 .. Len(s) : s[i].failed /\ s[i].label \notin HdaLabels =>
    i = Len(s) /\ <<s[i].label>> \in known

StackInv ==
  /\ scene \subseteq 1 .. made
  /\ Within(undos, made) /\ Within(redos, made)
  /\ NoneFailed(undos) /\ Spared(redos, rolled)

\* What a call in progress has done so far.
CallInv ==
  /\ call.tool = "none" => call = NoCall
  /\ call.tool # "none" => (call.tool = "hda" <=> call.label \in HdaLabels)
  /\ call.tool # "script" => ~call.odd /\ ~call.clean
  /\ call.tool \notin Writers => call.group = {}
  /\ call.tool \notin {"undo", "redo"} => ~call.performed
  /\ call.start \subseteq 1 .. made /\ call.group \subseteq 1 .. made
  /\ call.start \cap call.group = {}
  /\ call.tool \in {"undo", "redo"} /\ ~call.performed => scene = call.start
  /\ call.tool \notin {"none", "undo", "redo"} =>
       /\ (call.odd /\ undos = <<>>) \/ call.stack = LabelsOf(undos)
       /\ ~call.odd => scene = call.start \cup call.group

\* The scene of a call that did not save was marked before the call.
DirtInv ==
  /\ DirtyIsTrue
  /\ call.tool # "none" /\ ~call.clean /\ call.start # saved => Dirty \/ leak

SceneInv == SceneTypeOK /\ StackInv /\ CallInv /\ DirtInv
-----------------------------------------------------------------------------
(* Stacks. *)

LEMMA PushProperties ==
  ASSUME NEW S, NEW s \in Seq(S), NEW e \in S
  PROVE  /\ <<e>> \o s \in Seq(S) /\ <<e>> \o s # <<>>
         /\ Len(<<e>> \o s) = Len(s) + 1
         /\ (<<e>> \o s)[1] = e
         /\ \A i \in 1 .. Len(s) : (<<e>> \o s)[i + 1] = s[i]
         /\ \A i \in 1 .. Len(<<e>> \o s) : i # 1 =>
              i - 1 \in 1 .. Len(s) /\ (<<e>> \o s)[i] = s[i - 1]
<1> DEFINE t == <<e>> \o s
<1>1. <<e>> \in Seq(S) /\ Len(<<e>>) = 1 /\ <<e>>[1] = e
  OBVIOUS
<1>2. /\ t \in Seq(S) /\ Len(t) = 1 + Len(s)
      /\ \A i \in 1 .. 1 + Len(s) : t[i] = IF i <= 1 THEN <<e>>[i] ELSE s[i - 1]
  BY <1>1, ConcatProperties, Zenon
<1>3. Len(s) \in Nat
  OBVIOUS
<1> HIDE DEF t
<1>4. t # <<>>
  BY <1>2, <1>3
<1>5. t[1] = e
  BY <1>1, <1>2, <1>3
<1>6. \A i \in 1 .. Len(s) : t[i + 1] = s[i]
  <2> TAKE i \in 1 .. Len(s)
  <2>1. i + 1 \in 1 .. 1 + Len(s) /\ ~(i + 1 <= 1) /\ i + 1 - 1 = i
    BY <1>3
  <2> QED
    BY <2>1, <1>2
<1>7. \A i \in 1 .. Len(t) : i # 1 => i - 1 \in 1 .. Len(s) /\ t[i] = s[i - 1]
  BY <1>2, <1>3
<1> QED
  BY <1>2, <1>3, <1>4, <1>5, <1>6, <1>7 DEF t

LEMMA PopProperties ==
  ASSUME NEW S, NEW s \in Seq(S), s # <<>>
  PROVE  /\ Tail(s) \in Seq(S) /\ Len(s) \in Nat \ {0} /\ s[1] \in S
         /\ Len(Tail(s)) = Len(s) - 1
         /\ \A i \in 1 .. Len(Tail(s)) : Tail(s)[i] = s[i + 1]
  BY HeadTailProperties

LEMMA LabelsProperties ==
  ASSUME NEW s \in Seq(Steps)
  PROVE  /\ LabelsOf(s) \in Seq(Names) /\ Len(LabelsOf(s)) = Len(s)
         /\ \A i \in 1 .. Len(s) : LabelsOf(s)[i] = s[i].label
<1>1. Len(s) \in Nat
  OBVIOUS
<1>2. \A i \in 1 .. Len(s) : s[i].label \in Names
  <2> TAKE i \in 1 .. Len(s)
  <2>1. s[i] \in Steps
    OBVIOUS
  <2> QED
    BY <2>1 DEF Steps
<1>3. LabelsOf(s) \in [1 .. Len(s) -> Names]
  BY <1>2 DEF LabelsOf
<1>4. LabelsOf(s) \in Seq(Names) /\ Len(LabelsOf(s)) = Len(s)
  <2> DEFINE t == LabelsOf(s)
             n == Len(s)
  <2>1. t \in [1 .. n -> Names] /\ n \in Nat
    BY <1>1, <1>3
  <2> HIDE DEF t, n
  <2>2. t \in Seq(Names) /\ Len(t) = n
    BY <2>1
  <2> QED
    BY <2>2 DEF t, n
<1> QED
  BY <1>4 DEF LabelsOf

\* Pushing a step and popping one keep what holds of a stack.
LEMMA PushKeeps ==
  ASSUME NEW s \in Seq(Steps), NEW e \in Steps, NEW m
  PROVE  /\ Within(s, m) /\ e.edits \subseteq 1 .. m => Within(<<e>> \o s, m)
         /\ NoneFailed(s) /\ ~e.failed => NoneFailed(<<e>> \o s)
         /\ \A known : Spared(s, known) /\ ~e.failed => Spared(<<e>> \o s, known)
<1>1. e.failed \in BOOLEAN
  BY DEF Steps
<1> QED
  BY <1>1, PushProperties DEF Within, NoneFailed, Spared

LEMMA PopKeeps ==
  ASSUME NEW s \in Seq(Steps), s # <<>>, NEW m
  PROVE  /\ Within(s, m) => Within(Tail(s), m) /\ s[1].edits \subseteq 1 .. m
         /\ NoneFailed(s) => NoneFailed(Tail(s)) /\ ~s[1].failed
         /\ \A known : Spared(s, known) => Spared(Tail(s), known)
  BY PopProperties DEF Within, NoneFailed, Spared

LEMMA WithinGrows ==
  ASSUME NEW s \in Seq(Steps), NEW m \in Nat, Within(s, m)
  PROVE  Within(s, m + 1)
  BY DEF Within

LEMMA EmptyStack ==
  ASSUME NEW m, NEW known
  PROVE  /\ <<>> \in Seq(Steps) /\ Within(<<>>, m) /\ NoneFailed(<<>>)
         /\ Spared(<<>>, known)
  BY DEF Within, NoneFailed, Spared

\* The failed call at the end of a stack stays known when snapshots are dropped.
LEMMA AliveKeeps ==
  ASSUME NEW s \in Seq(Steps), Spared(s, rolled)
  PROVE  Spared(s, Alive(s))
<1> SUFFICES ASSUME NEW i \in 1 .. Len(s), s[i].failed, s[i].label \notin HdaLabels
             PROVE  i = Len(s) /\ <<s[i].label>> \in Alive(s)
  BY DEF Spared
<1> DEFINE n == Len(s)
           names == LabelsOf(s)
<1>0. i = n /\ <<s[i].label>> \in rolled
  BY Zenon DEF Spared
<1>1. i = n /\ <<s[n].label>> \in rolled /\ n \in Nat /\ n >= 1
  BY <1>0
<1>2. names \in Seq(Names) /\ Len(names) = n /\ names[n] = s[n].label
  BY <1>1, LabelsProperties
<1>3. SubSeq(names, n - 1 + 1, n) = <<s[n].label>>
  <2>1. SubSeq(names, n, n) = <<names[n]>>
    <3> DEFINE t == SubSeq(names, n, n)
    <3>1. \A k \in n .. n : names[k] \in Names
      BY <1>1, <1>2
    <3>2. t \in Seq(Names) /\ Len(t) = 1 /\ t[1] = names[n]
      BY <1>1, <3>1, SubSeqProperties
    <3> HIDE DEF t
    <3>3. t = <<t[1]>>
      BY <3>2
    <3> QED
      BY <3>2, <3>3 DEF t
  <2>2. n - 1 + 1 = n
    BY <1>1
  <2> QED
    BY <2>1, <2>2, <1>2
<1>4. EndsWith(names, <<s[n].label>>)
  BY <1>1, <1>2, <1>3 DEF EndsWith
<1> QED
  BY <1>1, <1>4 DEF Alive

-----------------------------------------------------------------------------
(* What the steps of Houdini do to the stacks. *)

\* The stacks and the scene are what they may be, of changes up to m.
Stacked(sc, u, r, known, m) ==
  /\ sc \subseteq 1 .. m
  /\ u \in Seq(Steps) /\ r \in Seq(Steps)
  /\ Within(u, m) /\ Within(r, m) /\ NoneFailed(u) /\ Spared(r, known)

LEMMA StackedNow == SceneInv => Stacked(scene, undos, redos, rolled, made)
  BY DEF SceneInv, SceneTypeOK, StackInv, Stacked

LEMMA StackedNext ==
  Stacked(scene', undos', redos', rolled', made') => StackInv'
  BY DEF StackInv, Stacked, Within, NoneFailed, Spared

LEMMA StackedGrows ==
  ASSUME NEW sc, NEW u, NEW r, NEW known, NEW m \in Nat, Stacked(sc, u, r, known, m)
  PROVE  Stacked(sc \cup {m + 1}, u, r, known, m + 1)
  BY WithinGrows DEF Stacked

LEMMA MakeKeeps ==
  ASSUME SceneInv, Make
  PROVE  /\ scene' \subseteq Edits /\ made' \in 0 .. MaxEdits /\ flag' = TRUE
         /\ made + 1 \in Edits /\ made' = made + 1 /\ made \in Nat
         /\ scene' = scene \cup {made + 1}
         /\ Stacked(scene', undos, redos, rolled, made')
<1>1. made \in Nat /\ made < MaxEdits /\ MaxEdits \in Nat /\ scene \subseteq Edits
  BY SceneAssumption DEF SceneInv, SceneTypeOK, Make
<1>2. made' = made + 1 /\ scene' = scene \cup {made + 1} /\ flag' = TRUE
  BY DEF Make
<1>3. made + 1 \in Edits
  BY <1>1 DEF Edits
<1>4. Stacked(scene \cup {made + 1}, undos, redos, rolled, made + 1)
  BY <1>1, StackedNow, StackedGrows
<1> QED
  BY <1>1, <1>2, <1>3, <1>4

LEMMA UndoKeeps ==
  ASSUME NEW u \in Seq(Steps), NEW r \in Seq(Steps), u # <<>>, NEW known, NEW m,
         Stacked(scene, u, r, known, m), PerformUndo(u, r, FALSE)
  PROVE  /\ Stacked(scene', undos', redos', known, m)
         /\ scene' \subseteq scene /\ flag' = TRUE
<1> DEFINE e == [u[1] EXCEPT !.failed = FALSE]
<1>1. u[1] \in Steps
  BY PopProperties
<1>2. e \in Steps /\ ~e.failed /\ e.edits = u[1].edits
  BY <1>1 DEF Steps
<1>3. u[1].edits \subseteq 1 .. m /\ Within(Tail(u), m) /\ NoneFailed(Tail(u))
  BY PopKeeps DEF Stacked
<1> HIDE DEF e
<1>4. /\ <<e>> \o r \in Seq(Steps) /\ Within(<<e>> \o r, m)
      /\ Spared(<<e>> \o r, known)
  BY <1>2, <1>3, PushKeeps, PushProperties DEF Stacked
<1>5. Tail(u) \in Seq(Steps)
  BY PopProperties
<1>6. undos' = Tail(u) /\ redos' = <<e>> \o r /\ scene' = scene \ u[1].edits
  BY DEF PerformUndo, e
<1> QED
  BY <1>3, <1>4, <1>5, <1>6 DEF Stacked, PerformUndo

LEMMA RedoKeeps ==
  ASSUME SceneInv, redos # <<>>, PerformRedo
  PROVE  /\ Stacked(scene', undos', redos', rolled, made) /\ flag' = TRUE
         /\ scene' \subseteq Edits
         /\ Stacked(scene', undos', redos', Alive(redos), made)
<1> DEFINE e == [redos[1] EXCEPT !.failed = FALSE]
<1>0. Stacked(scene, undos, redos, rolled, made)
  BY StackedNow
<1>1. redos[1] \in Steps /\ redos \in Seq(Steps) /\ undos \in Seq(Steps)
  BY <1>0, PopProperties DEF Stacked
<1>2. e \in Steps /\ ~e.failed /\ e.edits = redos[1].edits /\ e.edits \subseteq Edits
  BY <1>1 DEF Steps
<1>3. /\ redos[1].edits \subseteq 1 .. made /\ Within(Tail(redos), made)
      /\ Spared(Tail(redos), rolled)
  BY <1>0, <1>1, PopKeeps DEF Stacked
<1>4. Spared(Tail(redos), Alive(redos))
  BY <1>0, <1>1, AliveKeeps, PopKeeps DEF Stacked
<1>5. Tail(redos) \in Seq(Steps)
  BY <1>1, PopProperties
<1> HIDE DEF e
<1>6. /\ <<e>> \o undos \in Seq(Steps) /\ Within(<<e>> \o undos, made)
      /\ NoneFailed(<<e>> \o undos)
  BY <1>0, <1>1, <1>2, <1>3, PushKeeps, PushProperties DEF Stacked
<1>7. /\ undos' = <<e>> \o undos /\ redos' = Tail(redos)
      /\ scene' = scene \cup redos[1].edits /\ flag' = TRUE
  BY DEF PerformRedo, e
<1> QED
  BY <1>0, <1>2, <1>3, <1>4, <1>5, <1>6, <1>7 DEF Stacked, SceneInv, SceneTypeOK

\* Closing the group keeps the stacks; the step it pushes, if any, is its own.
LEMMA CloseKeeps ==
  ASSUME SceneInv, call.tool \in AllTools
  PROVE  /\ Stacked(scene, Closed, Kept, rolled, made)
         /\ Recorded # {} => /\ Closed # <<>> /\ Closed[1].edits = Recorded
                             /\ Closed[1].label = call.label
                             /\ Closed[1].failed = FALSE /\ Kept = <<>>
<1> DEFINE e == [label |-> call.label, edits |-> Recorded, failed |-> FALSE]
<1>0. Stacked(scene, undos, redos, rolled, made)
  BY StackedNow
<1>1. e \in Steps /\ e.edits = Recorded /\ e.failed = FALSE /\ e.label = call.label
  BY DEF SceneInv, SceneTypeOK, Calls, Steps, Recorded
<1>2. e.edits \subseteq 1 .. made
  BY <1>1 DEF SceneInv, CallInv, Recorded
<1>3. CASE Recorded = {}
  BY <1>0, <1>3 DEF Closed, Kept
<1>4. CASE Recorded # {}
  <2> HIDE DEF e
  <2>1. Closed = <<e>> \o undos /\ Kept = <<>>
    BY <1>4 DEF Closed, Kept, e
  <2>2. /\ <<e>> \o undos \in Seq(Steps) /\ Within(<<e>> \o undos, made)
        /\ NoneFailed(<<e>> \o undos)
        /\ <<e>> \o undos # <<>> /\ (<<e>> \o undos)[1] = e
    BY <1>0, <1>1, <1>2, PushKeeps, PushProperties DEF Stacked
  <2> QED
    BY <1>0, <1>1, <2>1, <2>2, EmptyStack DEF Stacked
<1> QED
  BY <1>3, <1>4

-----------------------------------------------------------------------------
(* The invariant holds at first, and every step keeps it. *)

LEMMA NoCallTyped == NoCall \in Calls
  BY DEF NoCall, Calls, Names, Edits

LEMMA InitInv == SceneInit => SceneInv
<1> SUFFICES ASSUME SceneInit PROVE SceneInv
  OBVIOUS
<1>0. /\ undoOn \in BOOLEAN /\ ui \in BOOLEAN /\ flag \in BOOLEAN /\ seen \in BOOLEAN
      /\ tracked \in BOOLEAN /\ user \in BOOLEAN /\ leak \in BOOLEAN
  BY DEF SceneInit
<1>1. SceneTypeOK
  <2>1. 0 \in 0 .. MaxEdits
    BY SceneAssumption
  <2> QED
    BY <1>0, <2>1, NoCallTyped, EmptyStack DEF SceneInit, SceneTypeOK
<1>2. StackInv
  BY EmptyStack DEF SceneInit, StackInv
<1>3. CallInv
  BY DEF SceneInit, CallInv, NoCall, Writers
<1>4. DirtInv
  BY DEF SceneInit, DirtInv, DirtyIsTrue, NoCall
<1> QED
  BY <1>1, <1>2, <1>3, <1>4 DEF SceneInv

\* What a call that begins finds.
LEMMA BeginKeeps ==
  ASSUME SceneInv, NEW t \in Tools, NEW l \in Labels, Begin(t, l)
  PROVE  SceneInv'
<1> DEFINE c == [NoCall EXCEPT !.tool = t, !.label = l, !.start = scene,
                               !.stack = LabelsOf(undos)]
<1>0. /\ call' = c /\ call = NoCall /\ (t = "hda" <=> l \in HdaLabels)
      /\ user' = (user \/ (ui /\ flag /\ ~seen)) /\ told' = "none"
      /\ UNCHANGED <<scene, saved, made, undos, redos, undoOn, ui, flag, seen, tracked,
                     rolled, leak>>
  BY DEF Begin, CheckFlag, stacks, modes
<1>1. LabelsOf(undos) \in Seq(Names)
  BY LabelsProperties DEF SceneInv, SceneTypeOK
<1>2. c \in Calls
  BY <1>1 DEF SceneInv, SceneTypeOK, Calls, NoCall, Names
<1>3. /\ c.tool = t /\ c.label = l /\ c.start = scene /\ c.stack = LabelsOf(undos)
      /\ c.group = {} /\ ~c.odd /\ ~c.clean /\ ~c.performed
  BY DEF NoCall
<1> HIDE DEF c
<1>4. SceneTypeOK'
  BY <1>0, <1>2 DEF SceneInv, SceneTypeOK
<1>5. StackInv'
  BY <1>0, StackedNow, StackedNext
<1>6. t \in AllTools /\ t # "none" /\ scene \subseteq 1 .. made
  BY SceneAssumption DEF AllTools, SceneInv, StackInv
<1>7. LabelsOf(undos)' = LabelsOf(undos)
  BY <1>0 DEF LabelsOf
<1>8. CallInv'
  BY <1>0, <1>3, <1>6, <1>7 DEF CallInv
<1>9. DirtInv'
  BY <1>0, <1>3, <1>6 DEF SceneInv, DirtInv, DirtyIsTrue, Dirty, NoCall, SceneTypeOK
<1> QED
  BY <1>4, <1>5, <1>8, <1>9 DEF SceneInv

\* A change in the body of a call, recorded or not.
LEMMA ChangeKeeps ==
  ASSUME SceneInv, Change \/ ChangeUnrecorded
  PROVE  SceneInv'
<1>0. /\ call.tool \in Writers /\ Make
      /\ UNCHANGED <<saved, undos, redos, undoOn, ui, seen, tracked, user, rolled, told,
                     leak>>
  BY DEF Change, ChangeUnrecorded, stacks, modes, Writers
<1>1. /\ scene' \subseteq Edits /\ made' \in 0 .. MaxEdits /\ flag' = TRUE
      /\ made + 1 \in Edits /\ made' = made + 1 /\ made \in Nat
      /\ scene' = scene \cup {made + 1}
      /\ Stacked(scene', undos, redos, rolled, made')
  BY <1>0, MakeKeeps
<1>2. \/ call' = [call EXCEPT !.group = @ \cup {made + 1}]
      \/ call.tool = "script" /\ call' = [call EXCEPT !.odd = TRUE]
  BY DEF Change, ChangeUnrecorded
<1>3. call \in Calls
  BY DEF SceneInv, SceneTypeOK
<1>4. /\ call' \in Calls /\ call'.tool = call.tool /\ call'.label = call.label
      /\ call'.start = call.start /\ call'.stack = call.stack
      /\ call'.clean = call.clean /\ call'.performed = call.performed
      /\ \/ call'.group = call.group \cup {made + 1} /\ call'.odd = call.odd
         \/ call.tool = "script" /\ call'.group = call.group /\ call'.odd = TRUE
  <2>1. CASE call' = [call EXCEPT !.group = @ \cup {made + 1}]
    BY <1>1, <1>3, <2>1 DEF Calls
  <2>2. CASE call.tool = "script" /\ call' = [call EXCEPT !.odd = TRUE]
    BY <1>3, <2>2 DEF Calls
  <2> QED
    BY <1>2, <2>1, <2>2
<1>5. SceneTypeOK'
  BY <1>0, <1>1, <1>4 DEF SceneInv, SceneTypeOK
<1>6. StackInv'
  BY <1>0, <1>1, StackedNext
<1>7. LabelsOf(undos)' = LabelsOf(undos)
  BY <1>0 DEF LabelsOf
<1>8. CallInv'
  BY <1>0, <1>1, <1>4, <1>7 DEF SceneInv, CallInv, Writers
<1>9. DirtInv'
  BY <1>0, <1>4 DEF SceneInv, DirtInv, DirtyIsTrue, Dirty, NoCall, Writers
<1> QED
  BY <1>5, <1>6, <1>8, <1>9 DEF SceneInv

\* A scene that was saved or cleared is clean.
LEMMA CleanKeeps ==
  ASSUME SceneInv, SaveFile \/ ClearFile
  PROVE  /\ scene' = saved' /\ scene' \subseteq Edits /\ made' = made
         /\ Stacked(scene', undos', redos', rolled', made')
         /\ UNCHANGED <<made, undoOn, ui, rolled, told>>
         /\ flag' = FALSE /\ seen' = FALSE /\ leak' = FALSE
         /\ tracked' = FALSE /\ user' = FALSE
         /\ undos' = <<>> \/ (undos' = undos /\ scene' = scene)
<1>0. Stacked(scene, undos, redos, rolled, made) /\ scene \subseteq Edits
  BY StackedNow DEF SceneInv, SceneTypeOK
<1>1. CASE SaveFile
  BY <1>0, <1>1 DEF SaveFile, MarkClean, stacks, modes
<1>2. CASE ClearFile
  BY <1>0, <1>2, EmptyStack DEF ClearFile, MarkClean, modes, Stacked
<1> QED
  BY <1>1, <1>2

\* The end of a call, or of the user's own save, in a clean scene.
LEMMA CleanEnd ==
  ASSUME SceneInv, SaveFile \/ ClearFile, call' = NoCall
  PROVE  SceneInv'
<1>1. SceneTypeOK' /\ StackInv' /\ DirtInv'
  BY CleanKeeps, NoCallTyped, StackedNext
     DEF SceneInv, SceneTypeOK, Stacked, DirtInv, DirtyIsTrue, NoCall
<1>2. CallInv'
  BY DEF CallInv, NoCall, Writers
<1> QED
  BY <1>1, <1>2 DEF SceneInv

\* A script saves the scene or clears it and goes on.
LEMMA ScriptCleanKeeps ==
  ASSUME SceneInv, ScriptSave \/ ScriptClear
  PROVE  SceneInv'
<1>0. call \in Calls
  BY DEF SceneInv, SceneTypeOK
<1>1. /\ call.tool = "script" /\ call' \in Calls /\ call'.tool = "script"
      /\ call'.label = call.label /\ call'.start = call.start
      /\ call'.stack = call.stack /\ call'.clean = TRUE
      /\ call'.performed = call.performed
      /\ \/ SaveFile /\ call'.group = call.group /\ call'.odd = call.odd
         \/ ClearFile /\ call'.group = {} /\ call'.odd = TRUE
  BY <1>0 DEF ScriptSave, ScriptClear, Calls
<1>2. /\ scene' \subseteq Edits /\ scene' = saved'
      /\ Stacked(scene', undos', redos', rolled', made')
      /\ UNCHANGED <<made, undoOn, ui, rolled, told>>
      /\ flag' = FALSE /\ seen' = FALSE /\ leak' = FALSE
      /\ tracked' = FALSE /\ user' = FALSE
      /\ undos' = <<>> \/ (undos' = undos /\ scene' = scene)
  BY <1>1, CleanKeeps
<1>3. SceneTypeOK' /\ StackInv'
  BY <1>1, <1>2, StackedNext DEF SceneInv, SceneTypeOK, Stacked
<1>4. /\ call.tool = "hda" <=> call.label \in HdaLabels
      /\ ~call.performed /\ call.start \subseteq 1 .. made
      /\ call.group \subseteq 1 .. made /\ call.start \cap call.group = {}
      /\ (call.odd /\ undos = <<>>) \/ call.stack = LabelsOf(undos)
      /\ ~call.odd => scene = call.start \cup call.group
  BY <1>1 DEF SceneInv, CallInv
<1>5. (call'.odd /\ undos' = <<>>) \/ call'.stack = LabelsOf(undos)'
  <2>1. CASE SaveFile /\ call'.odd = call.odd
    <3>1. undos' = undos
      BY <2>1 DEF SaveFile, stacks
    <3>2. LabelsOf(undos)' = LabelsOf(undos)
      BY <3>1 DEF LabelsOf
    <3> QED
      BY <1>1, <1>4, <2>1, <3>1, <3>2
  <2>2. CASE ClearFile /\ call'.odd = TRUE
    BY <2>2 DEF ClearFile
  <2> QED
    BY <1>1, <2>1, <2>2
<1>6. SaveFile => scene' = scene
  BY DEF SaveFile
<1>7. CallInv'
  BY <1>1, <1>2, <1>4, <1>5, <1>6 DEF CallInv, Writers
<1>8. DirtInv'
  <2>1. call' # NoCall
    BY <1>1 DEF NoCall
  <2> QED
    BY <1>1, <2>1 DEF DirtInv, DirtyIsTrue
<1> QED
  BY <1>3, <1>7, <1>8 DEF SceneInv

\* What is left to show of a step after which no call is on the main thread.
LEMMA EndKeeps ==
  ASSUME SceneInv, call' = NoCall, UNCHANGED <<saved, undoOn, ui>>,
         made' \in 0 .. MaxEdits, scene' \subseteq Edits,
         Stacked(scene', undos', redos', rolled', made'),
         flag' \in BOOLEAN, seen' \in BOOLEAN, tracked' \in BOOLEAN,
         user' \in BOOLEAN, leak' \in BOOLEAN, rolled' \subseteq Seq(Names),
         told' \in {"none", "back", "left"},
         scene' # saved => tracked' \/ user' \/ (ui /\ flag' /\ ~seen') \/ leak'
  PROVE  SceneInv'
<1>1. SceneTypeOK'
  BY NoCallTyped DEF SceneInv, SceneTypeOK, Stacked
<1>2. StackInv'
  BY StackedNext
<1>3. CallInv'
  BY DEF CallInv, NoCall, Writers
<1>4. DirtInv'
  BY DEF DirtInv, DirtyIsTrue, Dirty, NoCall
<1> QED
  BY <1>1, <1>2, <1>3, <1>4 DEF SceneInv

\* What the invariant says of the dirty flag while a call runs.
LEMMA Before ==
  ASSUME SceneInv, call.tool # "none"
  PROVE  /\ ~call.clean /\ call.start # saved => tracked \/ user \/ leak
         /\ call.tool \in {"undo", "redo"} /\ ~call.performed => scene = call.start
         /\ call.tool \notin {"undo", "redo"} /\ ~call.odd =>
              scene = call.start \cup call.group
         /\ call.tool \notin Writers => call.group = {}
         /\ call.tool # "script" => ~call.odd /\ ~call.clean
         /\ call.odd \in BOOLEAN /\ call.clean \in BOOLEAN
         /\ call.performed \in BOOLEAN /\ call.tool \in AllTools
  BY SceneAssumption DEF SceneInv, CallInv, DirtInv, Dirty, SceneTypeOK, Calls

LEMMA SucceedKeeps ==
  ASSUME SceneInv, NEW changed \in BOOLEAN, Succeed(changed)
  PROVE  SceneInv'
<1>1. /\ call.tool \in Writers /\ call.tool # "none" /\ call' = NoCall
      /\ changed \/ (call.tool = "edit" /\ call.group = {})
      /\ undos' = Closed /\ redos' = Kept
      /\ tracked' = (tracked \/ (changed /\ (call.tool = "hda" \/ ~call.clean)))
      /\ leak' = (leak \/ (call.clean /\ scene # saved))
      /\ seen' = (ui /\ flag')
      /\ UNCHANGED <<scene, saved, made, undoOn, ui, flag, user, rolled, told>>
  BY DEF Succeed, Writers, Finish, NoteFlag, Marks, modes
<1>2. Stacked(scene, Closed, Kept, rolled, made)
  BY <1>1, Before, CloseKeeps
<1>4. scene # saved => tracked' \/ user \/ leak'
  <2>1. CASE changed
    BY <1>1, <2>1, Before
  <2>2. CASE ~changed
    BY <1>1, <2>2, Before
  <2> QED
    BY <2>1, <2>2
<1>5. /\ tracked \in BOOLEAN /\ user \in BOOLEAN /\ leak \in BOOLEAN /\ ui \in BOOLEAN
      /\ flag \in BOOLEAN /\ scene \subseteq Edits /\ made \in 0 .. MaxEdits
      /\ rolled \subseteq Seq(Names) /\ told \in {"none", "back", "left"}
  BY DEF SceneInv, SceneTypeOK
<1>6. /\ seen' \in BOOLEAN /\ tracked' \in BOOLEAN /\ leak' \in BOOLEAN
  BY <1>1
<1> QED
  BY <1>1, <1>2, <1>4, <1>5, <1>6, EndKeeps

LEMMA ProbeKeeps ==
  ASSUME SceneInv, Probe
  PROVE  SceneInv'
<1>1. /\ call.tool = "probe" /\ call' = NoCall /\ flag' = TRUE /\ seen' = (ui /\ flag')
      /\ UNCHANGED <<scene, saved, made, undos, redos, undoOn, ui, tracked, user, rolled,
                     told, leak>>
  BY DEF Probe, Finish, NoteFlag, stacks, modes
<1>2. scene # saved => tracked \/ user \/ leak
  BY <1>1, Before DEF Writers
<1>3. /\ tracked \in BOOLEAN /\ user \in BOOLEAN /\ leak \in BOOLEAN /\ ui \in BOOLEAN
      /\ scene \subseteq Edits /\ made \in 0 .. MaxEdits
      /\ rolled \subseteq Seq(Names) /\ told \in {"none", "back", "left"}
      /\ seen' \in BOOLEAN
  BY <1>1 DEF SceneInv, SceneTypeOK
<1> QED
  BY <1>1, <1>2, <1>3, StackedNow, EndKeeps

\* Only a step the group recorded is taken for its own.
LEMMA MineIsRecorded ==
  ASSUME SceneInv, call.tool \in Writers \cup {"new", "save"}, Mine
  PROVE  Recorded # {}
<1> SUFFICES ASSUME Recorded = {} PROVE FALSE
  OBVIOUS
<1>1. Closed = undos
  BY DEF Closed
<1>2. undos = <<>> \/ call.stack = LabelsOf(undos)
  BY DEF SceneInv, CallInv, Writers
<1> QED
  BY <1>1, <1>2 DEF Mine

\* A rollback leaves the call as the only step of the redo stack.
LEMMA RollBackKeeps ==
  ASSUME SceneInv, call.tool \in Writers \cup {"new", "save"}, RollBack
  PROVE  /\ Stacked(scene', undos', redos', rolled', made)
         /\ scene' \subseteq scene /\ flag' = TRUE
         /\ rolled' \subseteq Seq(Names)
         /\ ~call.odd => scene' = call.start
<1> DEFINE e == [Closed[1] EXCEPT !.failed = TRUE]
<1>0. call.tool \in AllTools /\ call.tool # "none"
  BY DEF Writers, AllTools
<1>1. Stacked(scene, Closed, Kept, rolled, made)
  BY <1>0, CloseKeeps
<1>2. /\ Recorded # {} /\ Closed # <<>> /\ Closed[1].edits = Recorded
      /\ Closed[1].label = call.label /\ Kept = <<>>
  BY <1>0, CloseKeeps, MineIsRecorded DEF RollBack
<1>3. Closed \in Seq(Steps) /\ Closed[1] \in Steps /\ Tail(Closed) \in Seq(Steps)
  BY <1>1, <1>2, PopProperties DEF Stacked
<1>4. /\ e \in Steps /\ e.label = call.label /\ e.edits = Recorded /\ e.failed = TRUE
  BY <1>2, <1>3 DEF Steps
<1>5. Within(Tail(Closed), made) /\ NoneFailed(Tail(Closed)) /\ Recorded \subseteq 1 .. made
  BY <1>1, <1>2, <1>3, PopKeeps DEF Stacked
<1> HIDE DEF e
<1>6. /\ undos' = Tail(Closed) /\ redos' = <<e>> \o <<>> /\ scene' = scene \ Recorded
      /\ flag' = TRUE
  BY <1>2 DEF RollBack, PerformUndo, e
<1>7. redos' = <<e>>
  BY <1>4, <1>6
<1>8. redos' \in Seq(Steps) /\ Len(redos') = 1 /\ redos'[1] = e
  BY <1>4, <1>7
<1>9. LabelsOf(redos)' \in Seq(Names) /\ LabelsOf(redos)' = <<e.label>>
  <2>1. LabelsOf(redos)' = [i \in 1 .. 1 |-> redos'[i].label]
    BY <1>8 DEF LabelsOf
  <2>2. LabelsOf(redos)' = <<e.label>>
    BY <2>1, <1>8
  <2>3. e.label \in Names
    BY <1>4 DEF Steps
  <2> QED
    BY <2>2, <2>3
<1>10. rolled' \subseteq Seq(Names) /\ (call.tool # "hda" => <<e.label>> \in rolled')
  <2>1. rolled \subseteq Seq(Names)
    BY DEF SceneInv, SceneTypeOK
  <2>2. CASE call.tool = "hda"
    BY <2>1, <2>2 DEF RollBack, Remember
  <2>3. CASE call.tool # "hda"
    <3>1. PICK old \in SUBSET rolled : rolled' = old \cup {LabelsOf(redos')}
      BY <2>3 DEF RollBack, Remember
    <3>2. LabelsOf(redos') = <<e.label>> /\ <<e.label>> \in Seq(Names)
      BY <1>9 DEF LabelsOf
    <3> QED
      BY <2>1, <3>1, <3>2
  <2> QED
    BY <2>2, <2>3
<1>11. Spared(redos', rolled')
  <2>1. call.label \notin HdaLabels => call.tool # "hda"
    BY <1>0 DEF SceneInv, CallInv
  <2> QED
    BY <1>4, <1>8, <1>10, <2>1 DEF Spared
<1>12. Within(redos', made)
  <2>1. Within(<<e>> \o <<>>, made)
    BY <1>4, <1>5, PushKeeps, EmptyStack
  <2> QED
    BY <1>6, <2>1
<1>13. ~call.odd => scene' = call.start
  <2>1. Recorded = call.group
    BY DEF RollBack, Recorded
  <2>2. call.start \cap call.group = {}
    BY DEF SceneInv, CallInv
  <2>3. ~call.odd => scene = call.start \cup call.group
    BY <1>0, Before DEF Writers
  <2> QED
    BY <1>6, <2>1, <2>2, <2>3
<1> QED
  BY <1>1, <1>3, <1>5, <1>6, <1>8, <1>10, <1>11, <1>12, <1>13 DEF Stacked

LEMMA FailKeeps ==
  ASSUME SceneInv, Fail
  PROVE  SceneInv'
<1>0. /\ call.tool \in Writers \cup {"new", "save"} /\ call.tool # "none"
      /\ call.tool \in AllTools /\ call.tool \notin {"undo", "redo"}
      /\ RollBack \/ LeaveIt
      /\ leak' = (leak \/ (scene' # IF call.clean THEN saved ELSE call.start))
      /\ call' = NoCall /\ seen' = (ui /\ flag')
      /\ UNCHANGED <<saved, made, undoOn, ui, tracked, user>>
  BY DEF Fail, Unmarked, Finish, NoteFlag, Writers, AllTools, modes
<1>1. /\ Stacked(scene', undos', redos', rolled', made) /\ scene' \subseteq scene
      /\ flag' \in BOOLEAN /\ rolled' \subseteq Seq(Names)
  <2>1. CASE RollBack
    BY <1>0, <2>1, RollBackKeeps
  <2>2. CASE LeaveIt
    BY <1>0, <2>2, CloseKeeps DEF LeaveIt, SceneInv, SceneTypeOK
  <2> QED
    BY <1>0, <2>1, <2>2
<1>2. told' \in {"none", "back", "left"}
  <2>1. CASE RollBack
    BY <2>1 DEF RollBack, Report
  <2>2. CASE LeaveIt
    BY <2>2 DEF LeaveIt, Report
  <2> QED
    BY <1>0, <2>1, <2>2
<1>3. scene' # saved => tracked \/ user \/ leak'
  <2>1. ~call.clean /\ call.start # saved => tracked \/ user \/ leak
    BY <1>0, Before
  <2> QED
    BY <1>0, <2>1
<1>4. /\ tracked \in BOOLEAN /\ user \in BOOLEAN /\ leak \in BOOLEAN /\ ui \in BOOLEAN
      /\ scene \subseteq Edits /\ made \in 0 .. MaxEdits
  BY DEF SceneInv, SceneTypeOK
<1>5. seen' \in BOOLEAN /\ leak' \in BOOLEAN
  BY <1>0
<1> QED
  BY <1>0, <1>1, <1>2, <1>3, <1>4, <1>5, EndKeeps

\* One step of the undo tool.
LEMMA StepKeeps ==
  ASSUME SceneInv, StepUndo \/ StepRedo
  PROVE  SceneInv'
<1>0. /\ call.tool \in {"undo", "redo"} /\ call \in Calls
      /\ call' = [call EXCEPT !.performed = TRUE]
      /\ UNCHANGED <<saved, made, undoOn, ui, seen, tracked, user, told, leak>>
  BY DEF StepUndo, StepRedo, Performed, SceneInv, SceneTypeOK, modes
<1>1. /\ Stacked(scene', undos', redos', rolled', made) /\ scene' \subseteq Edits
      /\ flag' = TRUE /\ rolled' \subseteq rolled
  <2>1. CASE StepUndo
    <3>1. Stacked(scene, undos, redos, rolled, made) /\ undos # <<>> /\ rolled' = rolled
      BY <2>1, StackedNow DEF StepUndo
    <3>2. undos[1].failed = FALSE
      BY <3>1, PopProperties DEF Stacked, NoneFailed
    <3>3. PerformUndo(undos, redos, FALSE)
      BY <2>1, <3>2 DEF StepUndo
    <3>4. /\ Stacked(scene', undos', redos', rolled, made)
          /\ scene' \subseteq scene /\ flag' = TRUE
      BY <3>1, <3>3, UndoKeeps DEF Stacked
    <3> QED
      BY <3>1, <3>4 DEF SceneInv, SceneTypeOK
  <2>2. CASE StepRedo
    BY <2>2, RedoKeeps DEF StepRedo, Alive
  <2> QED
    BY <2>1, <2>2
<1>2. /\ call' \in Calls /\ call'.tool = call.tool /\ call'.label = call.label
      /\ call'.start = call.start /\ call'.group = call.group
      /\ call'.odd = call.odd /\ call'.clean = call.clean /\ call'.performed = TRUE
  BY <1>0 DEF Calls
<1>3. SceneTypeOK'
  BY <1>0, <1>1, <1>2 DEF SceneInv, SceneTypeOK, Stacked
<1>4. StackInv'
  BY <1>0, <1>1, StackedNext
<1>5. CallInv'
  BY <1>0, <1>2 DEF SceneInv, CallInv, Writers
<1>6. DirtInv'
  <2>1. call' # NoCall /\ call.tool # "none"
    BY <1>0, <1>2 DEF NoCall
  <2> QED
    BY <1>0, <1>2, <2>1 DEF SceneInv, DirtInv, DirtyIsTrue, Dirty
<1> QED
  BY <1>3, <1>4, <1>5, <1>6 DEF SceneInv

LEMMA ToolEnds ==
  ASSUME SceneInv, StepRaises \/ EndTool
  PROVE  SceneInv'
<1>1. /\ call.tool \in {"undo", "redo"} /\ call.tool # "none" /\ call.tool \notin Writers
      /\ call' = NoCall /\ seen' = (ui /\ flag')
      /\ UNCHANGED <<scene, saved, made, undos, redos, undoOn, ui, flag, user, told>>
      /\ \/ leak' = (leak \/ call.performed) /\ tracked' = tracked /\ rolled' = rolled
         \/ leak' = leak /\ tracked' = (tracked \/ call.performed) /\ rolled' = Alive(redos)
  BY DEF StepRaises, EndTool, Finish, NoteFlag, Writers, stacks, modes
<1>2. Stacked(scene, undos, redos, rolled, made)
  BY StackedNow
<1>3. Stacked(scene, undos, redos, Alive(redos), made) /\ Alive(redos) \subseteq rolled
  BY <1>2, AliveKeeps DEF Stacked, Alive
<1>4. scene # saved => tracked' \/ user \/ leak'
  <2>1. CASE call.performed
    BY <1>1, <2>1
  <2>2. CASE ~call.performed
    <3>1. scene = call.start /\ ~call.clean
      BY <1>1, <2>2, Before DEF Writers
    <3>2. scene # saved => tracked \/ user \/ leak
      BY <1>1, <3>1, Before
    <3>3. (leak => leak') /\ (tracked => tracked')
      <4>1. CASE leak' = (leak \/ call.performed) /\ tracked' = tracked
        BY <4>1
      <4>2. CASE leak' = leak /\ tracked' = (tracked \/ call.performed)
        BY <4>2
      <4> QED
        BY <1>1, <4>1, <4>2, Zenon
    <3> QED
      BY <3>2, <3>3, Zenon
  <2> QED
    BY <2>1, <2>2
<1>5. /\ tracked \in BOOLEAN /\ user \in BOOLEAN /\ leak \in BOOLEAN /\ ui \in BOOLEAN
      /\ flag \in BOOLEAN /\ scene \subseteq Edits /\ made \in 0 .. MaxEdits
      /\ rolled \subseteq Seq(Names) /\ told \in {"none", "back", "left"}
      /\ call.performed \in BOOLEAN
  BY DEF SceneInv, SceneTypeOK, Calls
<1>6. seen' \in BOOLEAN /\ leak' \in BOOLEAN /\ tracked' \in BOOLEAN
  BY <1>1, <1>5
<1>7. Stacked(scene', undos', redos', rolled', made') /\ rolled' \subseteq Seq(Names)
  BY <1>1, <1>2, <1>3, <1>5
<1> QED
  BY <1>1, <1>4, <1>5, <1>6, <1>7, EndKeeps

\* The user's edits, undos and redos.
LEMMA UserKeeps ==
  ASSUME SceneInv, NEW w \in BOOLEAN, UserEdit(w) \/ UserUndo(w) \/ UserRedo(w)
  PROVE  SceneInv'
<1>1. /\ ui /\ call = NoCall /\ call' = NoCall /\ user' = (user \/ w)
      /\ leak' = (leak \/ (~w /\ seen /\ ~(tracked \/ user)))
      /\ UNCHANGED <<saved, undoOn, ui, seen, tracked, rolled, told>>
  BY DEF UserEdit, UserUndo, UserRedo, Noticed, Dirty, modes
<1>2. /\ tracked \in BOOLEAN /\ user \in BOOLEAN /\ leak \in BOOLEAN /\ ui \in BOOLEAN
      /\ seen \in BOOLEAN /\ scene \subseteq Edits /\ made \in 0 .. MaxEdits
      /\ rolled \subseteq Seq(Names) /\ told \in {"none", "back", "left"}
  BY DEF SceneInv, SceneTypeOK
<1>3. Stacked(scene, undos, redos, rolled, made)
  BY StackedNow
<1>4. /\ Stacked(scene', undos', redos', rolled, made') /\ scene' \subseteq Edits
      /\ made' \in 0 .. MaxEdits /\ flag' = TRUE
  <2>1. CASE UserEdit(w)
    <3> DEFINE e == [label |-> User, edits |-> {made + 1}, failed |-> FALSE]
    <3>1. Make
      BY <2>1 DEF UserEdit
    <3>2. /\ scene' \subseteq Edits /\ made' \in 0 .. MaxEdits /\ flag' = TRUE
          /\ made + 1 \in Edits /\ made' = made + 1 /\ made \in Nat
          /\ Stacked(scene', undos, redos, rolled, made')
      BY <3>1, MakeKeeps
    <3>3. /\ e \in Steps /\ e.failed = FALSE /\ e.edits \subseteq 1 .. made'
      BY <3>2 DEF Steps, Names
    <3>4. \/ undos' = undos /\ redos' = redos
          \/ undos' = <<e>> \o undos /\ redos' = <<>>
      BY <2>1 DEF UserEdit, Push, stacks
    <3> HIDE DEF e
    <3>5. /\ <<e>> \o undos \in Seq(Steps) /\ Within(<<e>> \o undos, made')
          /\ NoneFailed(<<e>> \o undos)
      BY <3>2, <3>3, PushKeeps, PushProperties DEF Stacked
    <3>6. Stacked(scene', <<e>> \o undos, <<>>, rolled, made')
      BY <3>2, <3>5, EmptyStack DEF Stacked
    <3> QED
      BY <3>2, <3>4, <3>6
  <2>2. CASE UserUndo(w)
    <3>1. undos # <<>> /\ made' = made
      BY <2>2 DEF UserUndo
    <3>2. undos[1].failed = FALSE
      BY <1>3, <3>1, PopProperties DEF Stacked, NoneFailed
    <3>3. PerformUndo(undos, redos, FALSE)
      BY <2>2, <3>2 DEF UserUndo
    <3> QED
      BY <1>2, <1>3, <3>1, <3>3, UndoKeeps DEF Stacked
  <2>3. CASE UserRedo(w)
    BY <1>2, <2>3, RedoKeeps DEF UserRedo
  <2> QED
    BY <2>1, <2>2, <2>3
<1>5. tracked \/ user' \/ (ui /\ flag' /\ ~seen) \/ leak'
  BY <1>1, <1>2, <1>4
<1>6. user' \in BOOLEAN /\ leak' \in BOOLEAN
  BY <1>1
<1> QED
  BY <1>1, <1>2, <1>4, <1>5, <1>6, EndKeeps

LEMMA NextInv == SceneInv /\ [SceneNext]_sceneVars => SceneInv'
<1> SUFFICES ASSUME SceneInv, [SceneNext]_sceneVars PROVE SceneInv'
  OBVIOUS
<1>1. CASE \E t \in Tools, l \in Labels : Begin(t, l)
  BY <1>1, BeginKeeps
<1>2. CASE Change \/ ChangeUnrecorded
  BY <1>2, ChangeKeeps
<1>3. CASE ScriptSave \/ ScriptClear
  BY <1>3, ScriptCleanKeeps
<1>4. CASE \E changed \in BOOLEAN : Succeed(changed)
  BY <1>4, SucceedKeeps
<1>5. CASE Fail
  BY <1>5, FailKeeps
<1>6. CASE (\E policy \in {"fail", "save", "discard"} : HipNew(policy)) \/ HipSave
  BY <1>6, CleanEnd DEF HipNew, HipSave
<1>7. CASE Probe
  BY <1>7, ProbeKeeps
<1>8. CASE StepUndo \/ StepRedo
  BY <1>8, StepKeeps
<1>9. CASE StepRaises \/ EndTool
  BY <1>9, ToolEnds
<1>10. CASE \E w \in UserEdits : UserEdit(w) \/ UserUndo(w) \/ UserRedo(w)
  BY <1>10, UserKeeps, SceneAssumption
<1>11. CASE UserSave \/ UserNew
  BY <1>11, CleanEnd DEF UserSave, UserNew
<1>12. CASE UNCHANGED sceneVars
  <2>1. UNCHANGED <<scene, saved, made, undos, redos, undoOn, ui, flag, seen, tracked,
                   user, rolled, call, told, leak>>
    BY <1>12 DEF sceneVars, stacks, modes, dirt
  <2>2. LabelsOf(undos)' = LabelsOf(undos)
    BY <2>1 DEF LabelsOf
  <2>3. SceneTypeOK' /\ StackInv'
    BY <2>1, StackedNow, StackedNext DEF SceneInv, SceneTypeOK
  <2>4. CallInv' /\ DirtInv'
    BY <2>1, <2>2 DEF SceneInv, CallInv, DirtInv, DirtyIsTrue, Dirty
  <2> QED
    BY <2>3, <2>4 DEF SceneInv
<1> QED
  BY <1>1, <1>2, <1>3, <1>4, <1>5, <1>6, <1>7, <1>8, <1>9, <1>10, <1>11, <1>12 DEF SceneNext

-----------------------------------------------------------------------------
(* Theorems. *)

THEOREM SceneInvariance == SceneSpec => []SceneInv
BY InitInv, NextInv, PTL DEF SceneSpec

\* Every variable of the scene, the stacks and the dirty flag keeps its type.
THEOREM SceneTypeCorrect == SceneSpec => []SceneTypeOK
<1>1. SceneInv => SceneTypeOK
  BY DEF SceneInv
<1> QED
  BY <1>1, SceneInvariance, PTL

\* An unsaved scene counts as dirty between calls, however calls, failures, undos
\* and the user's steps follow each other, for any number of changes.
THEOREM UnsavedIsDirty == SceneSpec => []DirtyIsTrue
<1>1. SceneInv => DirtyIsTrue
  BY DEF SceneInv, DirtInv
<1> QED
  BY <1>1, SceneInvariance, PTL

\* Redo never re-applies a rolled-back call of the dispatcher.
THEOREM RedoIsSafe == SceneSpec => RedoSparesFailed
<1>1. ASSUME SceneInv, [SceneNext]_sceneVars, StepRedo, redos[1].failed
      PROVE  redos[1].label \in HdaLabels
  <2> SUFFICES ASSUME redos[1].label \notin HdaLabels PROVE FALSE
    OBVIOUS
  <2>1. redos \in Seq(Steps) /\ redos # <<>> /\ Spared(redos, rolled)
    BY <1>1 DEF SceneInv, SceneTypeOK, StackInv, StepRedo
  <2>2. 1 \in 1 .. Len(redos)
    BY <2>1, PopProperties
  <2>3. Len(redos) = 1 /\ <<redos[1].label>> \in rolled
    BY <1>1, <2>1, <2>2 DEF Spared
  <2>4. LabelsOf(redos) = <<redos[1].label>>
    BY <2>1, <2>3 DEF LabelsOf
  <2> QED
    BY <1>1, <2>3, <2>4 DEF StepRedo, Refused
<1>2. SceneInv /\ [SceneNext]_sceneVars =>
        [StepRedo => (redos[1].failed => redos[1].label \in HdaLabels)]_sceneVars
  BY <1>1
<1> QED
  BY <1>2, SceneInvariance, PTL DEF SceneSpec, RedoSparesFailed

\* A failing call that says it was rolled back left the scene as it found it.
THEOREM RollbackIsTrue == SceneSpec => ToldBackMeansBack
<1>1. ASSUME SceneInv, Fail, told' = "back", ~call.odd
      PROVE  scene' = call.start
  <2>1. call.tool \in Writers \cup {"new", "save"} /\ (RollBack \/ LeaveIt)
    BY <1>1 DEF Fail
  <2>2. CASE RollBack
    BY <1>1, <2>1, <2>2, RollBackKeeps
  <2>3. CASE LeaveIt
    <3>1. undoOn /\ ~Mine /\ scene' = scene
      BY <1>1, <2>3 DEF LeaveIt, Report
    <3>2. call.tool # "none" /\ call.tool \in AllTools
      BY <2>1 DEF Writers, AllTools
    <3>3. call.group = {}
      <4> SUFFICES ASSUME call.group # {} PROVE FALSE
        OBVIOUS
      <4>1. Recorded # {}
        BY <3>1 DEF Recorded
      <4>2. /\ Closed # <<>> /\ Closed[1].label = call.label
        BY <1>1, <3>2, <4>1, CloseKeeps
      <4>3. LabelsOf(Closed) # call.stack
        <5> DEFINE e == [label |-> call.label, edits |-> Recorded, failed |-> FALSE]
        <5>1. call.stack = LabelsOf(undos) /\ undos \in Seq(Steps)
          BY <1>1, <2>1, <3>2 DEF SceneInv, SceneTypeOK, CallInv, Writers
        <5>2. Len(call.stack) = Len(undos) /\ Len(undos) \in Nat
          BY <5>1, LabelsProperties
        <5>3. e \in Steps
          BY <1>1 DEF SceneInv, SceneTypeOK, Calls, Steps, Recorded
        <5> HIDE DEF e
        <5>4. Closed = <<e>> \o undos
          BY <4>1 DEF Closed, e
        <5>5. Closed \in Seq(Steps) /\ Len(Closed) = Len(undos) + 1
          BY <5>1, <5>3, <5>4, PushProperties
        <5>6. Len(LabelsOf(Closed)) = Len(undos) + 1
          BY <5>5, LabelsProperties
        <5> QED
          BY <5>2, <5>6
      <4> QED
        BY <3>1, <4>2, <4>3 DEF Mine
    <3> QED
      BY <1>1, <2>1, <3>1, <3>2, <3>3, Before DEF Writers
  <2> QED
    BY <2>1, <2>2, <2>3
<1>2. SceneInv => [Fail /\ told' = "back" /\ ~call.odd => scene' = call.start]_sceneVars
  BY <1>1
<1> QED
  BY <1>2, SceneInvariance, PTL DEF SceneSpec, ToldBackMeansBack

-----------------------------------------------------------------------------
(* The network. *)

\* No wires close a loop: every node can be numbered higher than what feeds it.
Ranks(w, r) == \A m \in Node : w.src[m] # None => r[w.src[m]] < r[m]

\* Every node has a name, which is its alone.
NamesOK(w) ==
  /\ \A m, n \in w.alive : w.name[m] = w.name[n] => m = n
  /\ \A n \in w.alive : w.name[n] \in Name \cup {n}

NetOK(w) ==
  /\ w \in Networks
  /\ \A n \in Node \ w.alive : w.name[n] = None /\ w.src[n] = None /\ w.attr[n] = Blank
  /\ \A n \in w.alive : w.src[n] \in w.alive \cup {None}
  /\ NamesOK(w)
  /\ w.display \in w.alive \cup {None} /\ (w.display = None => w.alive = {})
  /\ w.sel \in w.alive \cup {None}
  /\ w.locked \subseteq w.alive /\ \A n \in w.locked : w.attr[n]["inner"] = 0
  /\ \E r \in [Node -> Nat] : Ranks(w, r)

\* No other node has the name.
Unnamed(w, n, x) == \A m \in w.alive \ {n} : w.name[m] # x


(* What the calls of hou keep. *)

LEMMA Values == Attr = {"parm", "look", "badge", "inner"} /\ Value = {0, 1} /\ Blank \in [Attr -> Value]
  BY DEF Attr, Value, Blank

\* A network is its seven fields.
LEMMA SameNetwork ==
  ASSUME NEW w \in Networks, NEW u \in Networks,
         u.alive = w.alive, u.name = w.name, u.src = w.src, u.attr = w.attr,
         u.display = w.display, u.sel = w.sel, u.locked = w.locked
  PROVE  u = w
  BY DEF Networks

LEMMA NotNone == None \notin Node /\ None \notin Name /\ Node \cap Name = {}
  BY NetworkAssumption

LEMMA CreatedOK ==
  ASSUME NEW w, NetOK(w), NEW n \in Node \ w.alive, NEW x \in Name \cup {n},
         Unnamed(w, n, x)
  PROVE  NetOK(Created(w, n, x)) /\ Destroyed(Created(w, n, x), n) = w
<1> DEFINE u == Created(w, n, x)
<1>1. /\ u \in Networks /\ u.alive = w.alive \cup {n} /\ u.name = [w.name EXCEPT ![n] = x]
      /\ u.src = w.src /\ u.attr = w.attr /\ u.sel = w.sel /\ u.locked = w.locked
      /\ u.display = IF w.display = None THEN n ELSE w.display
  BY DEF NetOK, Networks, Created
<1>2. NetOK(u)
  <2> HIDE DEF u
  <2>1. NamesOK(u)
    BY <1>1, NotNone DEF NetOK, NamesOK, Unnamed, Networks
  <2>2. PICK r \in [Node -> Nat] : Ranks(w, r)
    BY DEF NetOK
  <2>3. Ranks(u, r)
    BY <1>1, <2>2 DEF Ranks
  <2>4. \A m \in Node \ u.alive : u.name[m] = None /\ u.src[m] = None /\ u.attr[m] = Blank
    BY <1>1 DEF NetOK, Networks
  <2>5. \A m \in u.alive : u.src[m] \in u.alive \cup {None}
    BY <1>1 DEF NetOK
  <2>6. /\ u.display \in u.alive \cup {None} /\ (u.display = None => u.alive = {})
        /\ u.sel \in u.alive \cup {None}
        /\ u.locked \subseteq u.alive /\ \A m \in u.locked : u.attr[m]["inner"] = 0
    BY <1>1, NotNone DEF NetOK
  <2> QED
    BY <1>1, <2>1, <2>3, <2>4, <2>5, <2>6 DEF NetOK
<1>3. Destroyed(u, n) = w
  <2> HIDE DEF u
  <2>1. \A m \in Node : w.src[m] # n
    BY NotNone DEF NetOK
  <2>2. w.src[n] = None /\ w.name[n] = None /\ w.attr[n] = Blank
    BY DEF NetOK
  <2>3. (IF u.display = n THEN Heir(u, n) ELSE u.display) = w.display
    <3>1. CASE w.display = None
      <4>1. u.alive = {n} /\ w.alive = {}
        BY <1>1, <3>1 DEF NetOK
      <4>2. Heir(u, n) = None
        BY <1>1, <2>2, <4>1 DEF Heir
      <4> QED
        BY <1>1, <3>1, <4>2
    <3>2. CASE w.display # None
      BY <1>1, <3>2 DEF NetOK
    <3> QED
      BY <3>1, <3>2
  <2>4. u.alive \ {n} = w.alive /\ u.locked \ {n} = w.locked
    BY <1>1 DEF NetOK, Networks
  <2>5. [u.name EXCEPT ![n] = None] = w.name
    BY <1>1, <2>2 DEF NetOK, Networks
  <2>9. [u.attr EXCEPT ![n] = Blank] = w.attr
    <3>1. w.attr \in [Node -> [Attr -> Value]]
      BY DEF NetOK, Networks
    <3>2. w.attr = [m \in Node |-> w.attr[m]]
      BY <3>1
    <3>3. [w.attr EXCEPT ![n] = Blank] = [m \in Node |-> IF m = n THEN Blank ELSE w.attr[m]]
      BY <3>1, <2>2
    <3> QED
      BY <1>1, <2>2, <3>2, <3>3
  <2>6. [m \in Node |-> IF m = n THEN None ELSE IF u.src[m] = n THEN u.src[n] ELSE u.src[m]] = w.src
    BY <1>1, <2>1, <2>2 DEF NetOK, Networks
  <2>7. (IF u.sel = n THEN None ELSE u.sel) = w.sel
    BY <1>1, NotNone DEF NetOK
  <2>8. Destroyed(u, n) = [alive |-> w.alive, name |-> w.name, src |-> w.src, attr |-> w.attr,
                           display |-> w.display, sel |-> w.sel, locked |-> w.locked]
    BY <2>3, <2>4, <2>5, <2>6, <2>7, <2>9 DEF Destroyed
  <2> QED
    BY <2>8 DEF NetOK, Networks
<1> QED
  BY <1>2, <1>3

LEMMA DestroyedOK ==
  ASSUME NEW w, NetOK(w), NEW n \in w.alive
  PROVE  NetOK(Destroyed(w, n))
<1> DEFINE u == Destroyed(w, n)
<1>1. PICK r \in [Node -> Nat] : Ranks(w, r)
  BY DEF NetOK
<1>2. w \in Networks /\ n \in Node
  BY DEF NetOK, Networks
<1>3. /\ u.alive = w.alive \ {n} /\ u.name = [w.name EXCEPT ![n] = None]
      /\ u.src = [m \in Node |-> IF m = n THEN None
                                 ELSE IF w.src[m] = n THEN w.src[n] ELSE w.src[m]]
      /\ u.attr = [w.attr EXCEPT ![n] = Blank]
      /\ u.display = (IF w.display = n THEN Heir(w, n) ELSE w.display)
      /\ u.sel = (IF w.sel = n THEN None ELSE w.sel) /\ u.locked = w.locked \ {n}
  BY DEF Destroyed
<1>4. w.src[n] \in (w.alive \ {n}) \cup {None}
  BY <1>1, <1>2 DEF NetOK, Ranks
<1>5. /\ Heir(w, n) \in (w.alive \ {n}) \cup {None}
      /\ Heir(w, n) = None => w.alive = {n}
  <2>1. CASE w.src[n] # None
    BY <1>4, <2>1, NotNone DEF Heir
  <2>2. CASE w.src[n] = None
    <3> DEFINE P(m) == IF w.alive = {n} THEN m = None ELSE m \in w.alive \ {n}
    <3>1. \E m \in w.alive \cup {None} : P(m)
      OBVIOUS
    <3>2. P(CHOOSE m \in w.alive \cup {None} : P(m))
      BY <3>1
    <3>3. Heir(w, n) = CHOOSE m \in w.alive \cup {None} : P(m)
      BY <2>2 DEF Heir
    <3>4. P(Heir(w, n))
      BY <3>2, <3>3
    <3> QED
      BY <1>2, <3>4, NotNone DEF Networks
  <2> QED
    BY <2>1, <2>2
<1>6. u \in Networks
  <2>1. u.src \in [Node -> Node \cup {None}]
    BY <1>2, <1>3 DEF Networks
  <2>2. u.name \in [Node -> Name \cup Node \cup {None}]
    BY <1>2, <1>3 DEF Networks
  <2>3. u.attr \in [Node -> [Attr -> Value]]
    BY <1>2, <1>3, Values DEF Networks
  <2>4. u.display \in Node \cup {None} /\ u.sel \in Node \cup {None} /\ u.alive \subseteq Node
        /\ u.locked \subseteq Node
    BY <1>2, <1>3, <1>5 DEF Networks
  <2> QED
    BY <2>1, <2>2, <2>3, <2>4 DEF Networks, Destroyed
<1> HIDE DEF u
<1>7. NamesOK(u)
  BY <1>2, <1>3 DEF NetOK, NamesOK, Networks
<1>8. Ranks(u, r)
  <2> SUFFICES ASSUME NEW m \in Node, u.src[m] # None
               PROVE  r[u.src[m]] < r[m]
    BY DEF Ranks
  <2>1. m # n /\ u.src[m] = IF w.src[m] = n THEN w.src[n] ELSE w.src[m]
    BY <1>3
  <2>2. r[m] \in Nat /\ r[n] \in Nat
    BY <1>2
  <2>3. CASE w.src[m] = n
    <3>1. r[n] < r[m] /\ r[w.src[n]] < r[n] /\ u.src[m] = w.src[n] /\ w.src[n] # None
      BY <1>1, <1>2, <2>1, <2>3, NotNone DEF Ranks
    <3>2. r[w.src[n]] \in Nat
      BY <1>2, <1>4, <3>1 DEF Networks
    <3> QED
      BY <2>2, <3>1, <3>2
  <2>4. CASE w.src[m] # n
    BY <1>1, <2>1, <2>4 DEF Ranks
  <2> QED
    BY <2>3, <2>4
<1>9. \A m \in Node \ u.alive : u.name[m] = None /\ u.src[m] = None /\ u.attr[m] = Blank
  <2> SUFFICES ASSUME NEW m \in Node \ u.alive
               PROVE  u.name[m] = None /\ u.src[m] = None /\ u.attr[m] = Blank
    OBVIOUS
  <2>1. CASE m = n
    BY <1>2, <1>3, <2>1 DEF Networks
  <2>2. CASE m # n
    <3>1. m \notin w.alive
      BY <1>3, <2>2
    <3>2. w.src[m] = None /\ w.name[m] = None /\ w.attr[m] = Blank
      BY <3>1 DEF NetOK
    <3> QED
      BY <1>2, <1>3, <2>2, <3>2, NotNone DEF Networks
  <2> QED
    BY <2>1, <2>2
<1>10. \A m \in u.alive : u.src[m] \in u.alive \cup {None}
  BY <1>2, <1>3, <1>4 DEF NetOK, Networks
<1>11. u.display \in u.alive \cup {None} /\ (u.display = None => u.alive = {})
  BY <1>2, <1>3, <1>5, NotNone DEF NetOK
<1>12. /\ u.sel \in u.alive \cup {None}
       /\ u.locked \subseteq u.alive /\ \A m \in u.locked : u.attr[m]["inner"] = 0
  BY <1>2, <1>3 DEF NetOK, Networks
<1>13. \E q \in [Node -> Nat] : Ranks(u, q)
  BY <1>8
<1>14. NetOK(u)
  BY <1>6, <1>7, <1>9, <1>10, <1>11, <1>12, <1>13 DEF NetOK
<1> QED
  BY <1>14 DEF u

\* What a node had does not show in the network without it.
LEMMA SameGone ==
  ASSUME NEW w \in Networks, NEW u \in Networks, NEW n \in Node,
         u.alive = w.alive, u.sel = w.sel, u.display = w.display,
         u.locked \ {n} = w.locked \ {n},
         \A m \in Node \ {n} : u.name[m] = w.name[m] /\ u.src[m] = w.src[m] /\ u.attr[m] = w.attr[m],
         \A m \in Node : w.src[m] # n /\ u.src[m] # n,
         w.display = n => u.src[n] = w.src[n]
  PROVE  Destroyed(u, n) = Destroyed(w, n)
<1>1. [u.name EXCEPT ![n] = None] = [w.name EXCEPT ![n] = None]
  BY DEF Networks
<1>2. [u.attr EXCEPT ![n] = Blank] = [w.attr EXCEPT ![n] = Blank]
  <2>1. u.attr \in [Node -> [Attr -> Value]] /\ w.attr \in [Node -> [Attr -> Value]]
    BY DEF Networks
  <2>2. [u.attr EXCEPT ![n] = Blank] = [m \in Node |-> IF m = n THEN Blank ELSE u.attr[m]]
    BY <2>1
  <2>3. [w.attr EXCEPT ![n] = Blank] = [m \in Node |-> IF m = n THEN Blank ELSE w.attr[m]]
    BY <2>1
  <2>4. [m \in Node |-> IF m = n THEN Blank ELSE u.attr[m]]
         = [m \in Node |-> IF m = n THEN Blank ELSE w.attr[m]]
    OBVIOUS
  <2> QED
    BY <2>2, <2>3, <2>4
<1>3. [m \in Node |-> IF m = n THEN None ELSE IF u.src[m] = n THEN u.src[n] ELSE u.src[m]]
       = [m \in Node |-> IF m = n THEN None ELSE IF w.src[m] = n THEN w.src[n] ELSE w.src[m]]
  OBVIOUS
<1>4. (IF u.display = n THEN Heir(u, n) ELSE u.display) = (IF w.display = n THEN Heir(w, n) ELSE w.display)
  BY DEF Heir
<1> QED
  BY <1>1, <1>2, <1>3, <1>4 DEF Destroyed

\* The sources of some nodes become s.
Fed(w, ds, s) == [w EXCEPT !.src = [d \in Node |-> IF d \in ds THEN s ELSE w.src[d]]]

LEMMA WiredFed ==
  ASSUME NEW w \in Networks, NEW d \in Node, NEW s
  PROVE  Wired(w, d, s) = Fed(w, {d}, s)
<1>1. [w.src EXCEPT ![d] = s] = [m \in Node |-> IF m \in {d} THEN s ELSE w.src[m]]
  BY DEF Networks
<1> QED
  BY <1>1 DEF Wired, Fed

LEMMA FedOK ==
  ASSUME NEW w, NetOK(w), NEW ds \in SUBSET w.alive, NEW s \in w.alive \cup {None},
         s # None => CanFeed(w, ds, s)
  PROVE  NetOK(Fed(w, ds, s))
<1> DEFINE u == Fed(w, ds, s)
<1>1. w \in Networks /\ ds \subseteq Node
  BY DEF NetOK, Networks
<1>2. PICK r \in [Node -> Nat] : Ranks(w, r)
  BY DEF NetOK
<1>3. /\ u.alive = w.alive /\ u.name = w.name /\ u.attr = w.attr /\ u.display = w.display
      /\ u.sel = w.sel /\ u.locked = w.locked
      /\ u.src = [d \in Node |-> IF d \in ds THEN s ELSE w.src[d]]
      /\ u \in Networks
  BY <1>1 DEF Fed, Networks
<1> HIDE DEF u
<1>4. \E q \in [Node -> Nat] : Ranks(u, q)
  <2>1. CASE s = None
    BY <1>2, <1>3, <2>1 DEF Ranks
  <2>2. CASE s # None
    <3>1. PICK up \in SUBSET Node : s \in up /\ up \cap ds = {} /\ \A m \in up : w.src[m] \in up \cup {None}
      BY <2>2 DEF CanFeed
    <3>2. s \in Node /\ r[s] \in Nat
      BY <1>1, <2>2, <3>1
    <3> DEFINE q == [m \in Node |-> IF m \in up THEN r[m] ELSE r[m] + r[s] + 1]
    <3>3. q \in [Node -> Nat]
      BY <3>2
    <3>4. ASSUME NEW m \in Node, u.src[m] # None
          PROVE  q[u.src[m]] < q[m]
      <4>1. r[m] \in Nat
        OBVIOUS
      <4>2. CASE m \in ds
        <5>1. u.src[m] = s /\ q[s] = r[s] /\ q[m] = r[m] + r[s] + 1
          BY <1>3, <3>1, <3>2, <4>2
        <5> QED
          BY <3>2, <4>1, <5>1
      <4>3. CASE m \notin ds
        <5>1. u.src[m] = w.src[m] /\ w.src[m] \in Node
          BY <1>1, <1>3, <3>4, <4>3 DEF Networks
        <5>2. r[w.src[m]] < r[m] /\ r[w.src[m]] \in Nat
          BY <1>2, <3>4, <5>1 DEF Ranks
        <5>3. m \in up => w.src[m] \in up
          BY <3>1, <3>4, <5>1
        <5> QED
          BY <3>2, <4>1, <5>1, <5>2, <5>3
      <4> QED
        BY <4>2, <4>3
    <3> HIDE DEF q
    <3> QED
      BY <3>3, <3>4 DEF Ranks
  <2> QED
    BY <2>1, <2>2
<1>5. NamesOK(u)
  BY <1>3 DEF NetOK, NamesOK
<1>6. \A m \in Node \ u.alive : u.name[m] = None /\ u.src[m] = None /\ u.attr[m] = Blank
  BY <1>3 DEF NetOK
<1>7. \A m \in u.alive : u.src[m] \in u.alive \cup {None}
  BY <1>1, <1>3 DEF NetOK, Networks
<1>8. NetOK(u)
  BY <1>3, <1>4, <1>5, <1>6, <1>7 DEF NetOK
<1> QED
  BY <1>8 DEF u

\* What t fed, it can feed again.
LEMMA FedBack ==
  ASSUME NEW w, NetOK(w), NEW ds \in SUBSET Node, NEW s \in Node \cup {None}, NEW t \in Node \cup {None},
         \A d \in ds : w.src[d] = t
  PROVE  /\ t # None => CanFeed(Fed(w, ds, s), ds, t)
         /\ Fed(Fed(w, ds, s), ds, t) = w
<1>1. w \in Networks
  BY DEF NetOK
<1>2. Fed(Fed(w, ds, s), ds, t) = w
  <2>1. [d \in Node |-> IF d \in ds THEN t ELSE [e \in Node |-> IF e \in ds THEN s ELSE w.src[e]][d]] = w.src
    BY <1>1 DEF Networks
  <2> QED
    BY <1>1, <2>1 DEF Fed, Networks
<1>3. ASSUME t # None
      PROVE  CanFeed(Fed(w, ds, s), ds, t)
  <2>1. PICK r \in [Node -> Nat] : Ranks(w, r)
    BY DEF NetOK
  <2> DEFINE up == {m \in Node : r[m] <= r[t]}
  <2>2. t \in up
    BY <1>3
  <2>3. up \cap ds = {}
    <3> SUFFICES ASSUME NEW d \in ds, d \in up PROVE FALSE
      OBVIOUS
    <3>1. r[t] < r[d] /\ r[d] \in Nat /\ r[t] \in Nat
      BY <1>3, <2>1 DEF Ranks
    <3> QED
      BY <3>1
  <2>4. ASSUME NEW m \in up
        PROVE  Fed(w, ds, s).src[m] \in up \cup {None}
    <3>1. Fed(w, ds, s).src[m] = w.src[m]
      BY <2>3 DEF Fed
    <3>2. w.src[m] \in Node \cup {None}
      BY <1>1 DEF Networks
    <3>3. CASE w.src[m] # None
      <4>1. r[w.src[m]] < r[m] /\ r[w.src[m]] \in Nat /\ r[m] \in Nat /\ r[t] \in Nat
        BY <1>3, <2>1, <3>2, <3>3 DEF Ranks
      <4> QED
        BY <3>1, <3>2, <3>3, <4>1
    <3> QED
      BY <3>1, <3>3
  <2>5. up \in SUBSET Node
    OBVIOUS
  <2> QED
    BY <2>2, <2>3, <2>4, <2>5 DEF CanFeed
<1> QED
  BY <1>2, <1>3

\* Two networks that differ only in what some nodes hold.
LEMMA SameWires ==
  ASSUME NEW w, NetOK(w), NEW u \in Networks, u.alive = w.alive, u.src = w.src, NamesOK(u),
         u.display = w.display, u.sel = w.sel,
         \A m \in Node \ w.alive : u.name[m] = None /\ u.attr[m] = Blank,
         u.locked \subseteq w.alive, \A m \in u.locked : u.attr[m]["inner"] = 0
  PROVE  NetOK(u)
<1>1. \E r \in [Node -> Nat] : Ranks(u, r)
  BY DEF NetOK, Ranks
<1>2. \A m \in Node \ u.alive : u.name[m] = None /\ u.src[m] = None /\ u.attr[m] = Blank
  BY DEF NetOK
<1>3. \A m \in u.alive : u.src[m] \in u.alive \cup {None}
  BY DEF NetOK
<1>4. /\ u.display \in u.alive \cup {None} /\ (u.display = None => u.alive = {})
      /\ u.sel \in u.alive \cup {None}
  BY DEF NetOK
<1> QED
  BY <1>1, <1>2, <1>3, <1>4 DEF NetOK

LEMMA ValuedIs ==
  ASSUME NEW w \in Networks, NEW n \in Node, NEW a \in Attr, NEW v \in Value
  PROVE  LET u == Valued(w, n, a, v)
         IN  /\ u \in Networks
             /\ u.alive = w.alive /\ u.name = w.name /\ u.src = w.src /\ u.display = w.display
             /\ u.sel = w.sel /\ u.locked = w.locked
             /\ \A m \in Node \ {n} : u.attr[m] = w.attr[m]
             /\ \A c \in Attr : u.attr[n][c] = IF c = a THEN v ELSE w.attr[n][c]
<1>1. w.attr[n] \in [Attr -> Value]
  BY DEF Networks
<1>2. [w.attr[n] EXCEPT ![a] = v] \in [Attr -> Value]
  BY <1>1
<1>3. [w.attr EXCEPT ![n] = [w.attr[n] EXCEPT ![a] = v]] \in [Node -> [Attr -> Value]]
  BY <1>2 DEF Networks
<1>4. Valued(w, n, a, v) = [w EXCEPT !.attr = [w.attr EXCEPT ![n] = [w.attr[n] EXCEPT ![a] = v]]]
  BY DEF Valued
<1> DEFINE at == [w.attr EXCEPT ![n] = [w.attr[n] EXCEPT ![a] = v]]
           u == Valued(w, n, a, v)
<1>5. u = [w EXCEPT !.attr = at]
  BY <1>4
<1>6. /\ \A m \in Node \ {n} : at[m] = w.attr[m]
      /\ \A c \in Attr : at[n][c] = IF c = a THEN v ELSE w.attr[n][c]
  BY <1>1 DEF Networks
<1>7. at \in [Node -> [Attr -> Value]]
  BY <1>3
<1> HIDE DEF at
<1>8. /\ u \in Networks /\ u.attr = at
      /\ u.alive = w.alive /\ u.name = w.name /\ u.src = w.src /\ u.display = w.display
      /\ u.sel = w.sel /\ u.locked = w.locked
  BY <1>5, <1>7 DEF Networks
<1> QED
  BY <1>6, <1>8

\* Networks that hold the same attributes.
LEMMA SameAttr ==
  ASSUME NEW w \in Networks, NEW u \in Networks,
         \A m \in Node : \A c \in Attr : u.attr[m][c] = w.attr[m][c]
  PROVE  u.attr = w.attr
<1>1. w.attr \in [Node -> [Attr -> Value]] /\ u.attr \in [Node -> [Attr -> Value]]
  BY DEF Networks
<1>2. \A m \in Node : u.attr[m] = w.attr[m]
  <2> SUFFICES ASSUME NEW m \in Node PROVE u.attr[m] = w.attr[m]
    OBVIOUS
  <2>1. w.attr[m] \in [Attr -> Value] /\ u.attr[m] \in [Attr -> Value]
    BY <1>1
  <2> QED
    BY <2>1
<1> QED
  BY <1>1, <1>2

LEMMA ValuedOK ==
  ASSUME NEW w, NetOK(w), NEW n \in w.alive, NEW a \in Attr, NEW v \in Value,
         a = "inner" => n \notin w.locked
  PROVE  NetOK(Valued(w, n, a, v))
<1> DEFINE u == Valued(w, n, a, v)
<1>1. w \in Networks /\ n \in Node
  BY DEF NetOK, Networks
<1>2. /\ u \in Networks
      /\ u.alive = w.alive /\ u.name = w.name /\ u.src = w.src /\ u.display = w.display
      /\ u.sel = w.sel /\ u.locked = w.locked
      /\ \A m \in Node \ {n} : u.attr[m] = w.attr[m]
      /\ \A c \in Attr : u.attr[n][c] = IF c = a THEN v ELSE w.attr[n][c]
  BY <1>1, ValuedIs
<1> HIDE DEF u
<1>3. \A m \in u.locked : u.attr[m]["inner"] = 0
  <2> SUFFICES ASSUME NEW m \in w.locked PROVE u.attr[m]["inner"] = 0
    BY <1>2
  <2>1. m \in Node /\ w.attr[m]["inner"] = 0 /\ "inner" \in Attr
    <3>1. m \in Node
      BY <1>1 DEF Networks
    <3>2. w.attr[m]["inner"] = 0
      BY DEF NetOK
    <3> QED
      BY <3>1, <3>2, Values
  <2>2. CASE m = n
    BY <1>2, <2>1, <2>2
  <2>3. CASE m # n
    BY <1>2, <2>1, <2>3
  <2> QED
    BY <2>2, <2>3
<1>4. NamesOK(u)
  BY <1>2 DEF NetOK, NamesOK
<1>5. \A m \in Node \ w.alive : u.name[m] = None /\ u.attr[m] = Blank
  BY <1>2 DEF NetOK
<1>6. NetOK(u)
  BY <1>2, <1>3, <1>4, <1>5, SameWires DEF NetOK
<1> QED
  BY <1>6 DEF u

LEMMA ValuedBack ==
  ASSUME NEW w \in Networks, NEW n \in Node, NEW a \in Attr, NEW v \in Value, NEW y \in Value
  PROVE  /\ Valued(Valued(w, n, a, v), n, a, y) = Valued(w, n, a, y)
         /\ Valued(w, n, a, w.attr[n][a]) = w
<1>1. w.attr[n] \in [Attr -> Value] /\ w.attr \in [Node -> [Attr -> Value]] /\ w.attr[n][a] \in Value
  BY DEF Networks
<1>2. Valued(w, n, a, w.attr[n][a]) = w
  <2> DEFINE u == Valued(w, n, a, w.attr[n][a])
  <2>1. /\ u \in Networks
        /\ u.alive = w.alive /\ u.name = w.name /\ u.src = w.src /\ u.display = w.display
        /\ u.sel = w.sel /\ u.locked = w.locked
        /\ \A m \in Node \ {n} : u.attr[m] = w.attr[m]
        /\ \A c \in Attr : u.attr[n][c] = w.attr[n][c]
    BY <1>1, ValuedIs
  <2> HIDE DEF u
  <2>2. u.attr = w.attr
    BY <2>1, SameAttr
  <2>3. u = w
    BY <2>1, <2>2, SameNetwork
  <2> QED
    BY <2>3 DEF u
<1>3. Valued(Valued(w, n, a, v), n, a, y) = Valued(w, n, a, y)
  <2> DEFINE u == Valued(w, n, a, v)
             p == Valued(u, n, a, y)
             q == Valued(w, n, a, y)
  <2>1. /\ u \in Networks
        /\ u.alive = w.alive /\ u.name = w.name /\ u.src = w.src /\ u.display = w.display
        /\ u.sel = w.sel /\ u.locked = w.locked
        /\ \A m \in Node \ {n} : u.attr[m] = w.attr[m]
        /\ \A c \in Attr : u.attr[n][c] = IF c = a THEN v ELSE w.attr[n][c]
    BY ValuedIs
  <2>2. /\ q \in Networks
        /\ q.alive = w.alive /\ q.name = w.name /\ q.src = w.src /\ q.display = w.display
        /\ q.sel = w.sel /\ q.locked = w.locked
        /\ \A m \in Node \ {n} : q.attr[m] = w.attr[m]
        /\ \A c \in Attr : q.attr[n][c] = IF c = a THEN y ELSE w.attr[n][c]
    BY ValuedIs
  <2> HIDE DEF u, q
  <2>3. /\ p \in Networks
        /\ p.alive = u.alive /\ p.name = u.name /\ p.src = u.src /\ p.display = u.display
        /\ p.sel = u.sel /\ p.locked = u.locked
        /\ \A m \in Node \ {n} : p.attr[m] = u.attr[m]
        /\ \A c \in Attr : p.attr[n][c] = IF c = a THEN y ELSE u.attr[n][c]
    BY <2>1, ValuedIs
  <2> HIDE DEF p
  <2>4. p.attr = q.attr
    BY <2>1, <2>2, <2>3, SameAttr
  <2>5. p = q
    BY <2>1, <2>2, <2>3, <2>4, SameNetwork
  <2> QED
    BY <2>5 DEF p, q, u
<1> QED
  BY <1>2, <1>3

LEMMA NamedOK ==
  ASSUME NEW w, NetOK(w), NEW n \in w.alive, NEW x \in Name \cup {n}, Unnamed(w, n, x)
  PROVE  NetOK(Named(w, n, x))
<1> DEFINE u == Named(w, n, x)
<1>1. w \in Networks /\ n \in Node
  BY DEF NetOK, Networks
<1>2. /\ u \in Networks
      /\ u.alive = w.alive /\ u.name = [w.name EXCEPT ![n] = x] /\ u.src = w.src
      /\ u.display = w.display /\ u.sel = w.sel /\ u.locked = w.locked /\ u.attr = w.attr
  BY <1>1 DEF Networks, Named
<1> HIDE DEF u
<1>3. NamesOK(u)
  <2>1. u.name[n] = x /\ \A m \in Node \ {n} : u.name[m] = w.name[m]
    BY <1>1, <1>2 DEF Networks
  <2>2. \A m \in u.alive : u.name[m] \in Name \cup {m}
    BY <1>1, <1>2, <2>1 DEF NetOK, NamesOK, Networks
  <2>3. \A m \in w.alive \ {n} : u.name[m] # u.name[n] /\ u.name[m] = w.name[m]
    BY <1>1, <2>1 DEF Unnamed, Networks
  <2>4. \A m, k \in u.alive : u.name[m] = u.name[k] => m = k
    BY <1>2, <2>3 DEF NetOK, NamesOK
  <2> QED
    BY <2>2, <2>4 DEF NamesOK
<1>4. \A m \in Node \ w.alive : u.name[m] = None /\ u.attr[m] = Blank
  BY <1>1, <1>2 DEF NetOK, Networks
<1>5. u.locked \subseteq w.alive /\ \A m \in u.locked : u.attr[m]["inner"] = 0
  BY <1>2 DEF NetOK
<1>6. NetOK(u)
  BY <1>2, <1>3, <1>4, <1>5, SameWires
<1> QED
  BY <1>6 DEF u

LEMMA NamedBack ==
  ASSUME NEW w \in Networks, NEW n \in Node, NEW x, NEW y
  PROVE  Named(Named(w, n, x), n, y) = Named(w, n, y) /\ Named(w, n, w.name[n]) = w
<1>1. w.name = [m \in Node |-> w.name[m]]
  BY DEF Networks
<1>2. [[w.name EXCEPT ![n] = x] EXCEPT ![n] = y] = [w.name EXCEPT ![n] = y]
  BY <1>1
<1>3. [w.name EXCEPT ![n] = w.name[n]] = w.name
  BY <1>1
<1> QED
  BY <1>2, <1>3 DEF Named, Networks

LEMMA ShownOK ==
  ASSUME NEW w, NetOK(w), NEW n \in w.alive
  PROVE  /\ NetOK(Shown(w, n)) /\ \A m : Shown(Shown(w, n), m) = Shown(w, m)
         /\ Shown(w, w.display) = w
<1> DEFINE u == Shown(w, n)
<1>1. w \in Networks /\ n \in Node /\ n # None
  BY NotNone DEF NetOK, Networks
<1>2. /\ u \in Networks
      /\ u.alive = w.alive /\ u.name = w.name /\ u.src = w.src
      /\ u.display = n /\ u.sel = w.sel /\ u.locked = w.locked /\ u.attr = w.attr
  BY <1>1 DEF Networks, Shown
<1>3. \A m : Shown(u, m) = Shown(w, m) /\ Shown(w, w.display) = w
  BY <1>1 DEF Shown, Networks
<1> HIDE DEF u
<1>4. NamesOK(u)
  BY <1>2 DEF NetOK, NamesOK
<1>5. \E r \in [Node -> Nat] : Ranks(u, r)
  BY <1>2 DEF NetOK, Ranks
<1>6. NetOK(u)
  BY <1>1, <1>2, <1>4, <1>5 DEF NetOK
<1> QED
  BY <1>3, <1>6 DEF u

LEMMA SelectedOK ==
  ASSUME NEW w, NetOK(w), NEW n \in w.alive \cup {None}
  PROVE  /\ NetOK(Selected(w, n)) /\ \A m : Selected(Selected(w, n), m) = Selected(w, m)
         /\ Selected(w, w.sel) = w
<1> DEFINE u == Selected(w, n)
<1>1. w \in Networks /\ n \in Node \cup {None}
  BY DEF NetOK, Networks
<1>2. /\ u \in Networks
      /\ u.alive = w.alive /\ u.name = w.name /\ u.src = w.src
      /\ u.display = w.display /\ u.sel = n /\ u.locked = w.locked /\ u.attr = w.attr
  BY <1>1 DEF Networks, Selected
<1>3. \A m : Selected(u, m) = Selected(w, m) /\ Selected(w, w.sel) = w
  BY <1>1 DEF Selected, Networks
<1> HIDE DEF u
<1>4. NamesOK(u)
  BY <1>2 DEF NetOK, NamesOK
<1>5. \E r \in [Node -> Nat] : Ranks(u, r)
  BY <1>2 DEF NetOK, Ranks
<1>6. NetOK(u)
  BY <1>1, <1>2, <1>4, <1>5 DEF NetOK
<1> QED
  BY <1>3, <1>6 DEF u

LEMMA UnlockedOK ==
  ASSUME NEW w, NetOK(w), NEW n \in w.alive
  PROVE  NetOK(Unlocked(w, n))
<1> DEFINE u == Unlocked(w, n)
<1>1. /\ u \in Networks
      /\ u.alive = w.alive /\ u.name = w.name /\ u.src = w.src
      /\ u.display = w.display /\ u.sel = w.sel /\ u.locked = w.locked \ {n} /\ u.attr = w.attr
  BY DEF NetOK, Networks, Unlocked
<1> HIDE DEF u
<1>2. NamesOK(u)
  BY <1>1 DEF NetOK, NamesOK
<1>3. NetOK(u)
  BY <1>1, <1>2, SameWires DEF NetOK
<1> QED
  BY <1>3 DEF u

LEMMA MatchedOK ==
  ASSUME NEW w, NetOK(w), NEW n \in w.alive
  PROVE  NetOK(Matched(w, n))
<1> DEFINE v == Valued(w, n, "inner", 0)
           u == Matched(w, n)
<1>1. w \in Networks /\ n \in Node
  BY DEF NetOK, Networks
<1>2. /\ v \in Networks
      /\ v.alive = w.alive /\ v.name = w.name /\ v.src = w.src /\ v.display = w.display
      /\ v.sel = w.sel /\ v.locked = w.locked
      /\ \A m \in Node \ {n} : v.attr[m] = w.attr[m]
      /\ \A c \in Attr : v.attr[n][c] = IF c = "inner" THEN 0 ELSE w.attr[n][c]
  BY <1>1, ValuedIs, Values
<1>3. /\ u.alive = w.alive /\ u.name = w.name /\ u.src = w.src
      /\ u.display = w.display /\ u.sel = w.sel /\ u.locked = w.locked \cup {n} /\ u.attr = v.attr
      /\ u \in Networks
  BY <1>1, <1>2 DEF Matched, Valued, Networks
<1> HIDE DEF u, v
<1>4. NamesOK(u)
  BY <1>3 DEF NetOK, NamesOK
<1>5. \A m \in u.locked : u.attr[m]["inner"] = 0
  BY <1>1, <1>2, <1>3, Values DEF NetOK, Networks
<1>6. \A m \in Node \ w.alive : u.name[m] = None /\ u.attr[m] = Blank
  BY <1>2, <1>3 DEF NetOK
<1>7. NetOK(u)
  BY <1>1, <1>3, <1>4, <1>5, <1>6, SameWires DEF NetOK
<1> QED
  BY <1>7 DEF u

\* Locking and unlocking take each other back, where there is nothing inside to discard.
LEMMA LockBack ==
  ASSUME NEW w, NetOK(w), NEW n \in w.alive, w.attr[n]["inner"] = 0
  PROVE  /\ n \notin w.locked => Unlocked(Matched(w, n), n) = w
         /\ n \in w.locked => Matched(Unlocked(w, n), n) = w
<1>1. w \in Networks /\ n \in Node
  BY DEF NetOK, Networks
<1>2. Valued(w, n, "inner", 0) = w
  BY <1>1, ValuedBack, Values
<1>3. [w.attr EXCEPT ![n] = [w.attr[n] EXCEPT !["inner"] = 0]] = w.attr
  BY <1>1, <1>2 DEF Valued, Networks
<1>4. Matched(w, n) = [w EXCEPT !.locked = w.locked \cup {n}]
  BY <1>1, <1>3 DEF Matched, Networks
<1>5. Matched(Unlocked(w, n), n) = [w EXCEPT !.locked = (w.locked \ {n}) \cup {n}]
  BY <1>1, <1>3 DEF Matched, Unlocked, Networks
<1>6. n \notin w.locked => (w.locked \cup {n}) \ {n} = w.locked
  OBVIOUS
<1>7. n \in w.locked => (w.locked \ {n}) \cup {n} = w.locked
  OBVIOUS
<1>8. Unlocked(Matched(w, n), n) = [w EXCEPT !.locked = (w.locked \cup {n}) \ {n}]
  BY <1>1, <1>4 DEF Unlocked, Networks
<1>9. [w EXCEPT !.locked = w.locked] = w
  BY <1>1 DEF Networks
<1> QED
  BY <1>5, <1>6, <1>7, <1>8, <1>9

\* The appearance of the nodes a layout captured.
Looked(w, v) ==
  [w EXCEPT !.attr = [n \in Node |-> IF n \in DOMAIN v THEN [w.attr[n] EXCEPT !["look"] = v[n]]
                                     ELSE w.attr[n]]]

LEMMA LookedIs ==
  ASSUME NEW w \in Networks, NEW D \in SUBSET Node, NEW v \in [D -> Value]
  PROVE  LET u == Looked(w, v)
         IN  /\ u \in Networks
             /\ u.alive = w.alive /\ u.name = w.name /\ u.src = w.src /\ u.display = w.display
             /\ u.sel = w.sel /\ u.locked = w.locked
             /\ \A m \in Node : \A c \in Attr :
                  u.attr[m][c] = IF m \in D /\ c = "look" THEN v[m] ELSE w.attr[m][c]
             /\ \A m \in Node \ D : u.attr[m] = w.attr[m]
<1> DEFINE at == [n \in Node |-> IF n \in D THEN [w.attr[n] EXCEPT !["look"] = v[n]] ELSE w.attr[n]]
           u == Looked(w, v)
<1>1. u = [w EXCEPT !.attr = at]
  BY DEF Looked
<1>2. ASSUME NEW m \in Node
      PROVE  /\ at[m] \in [Attr -> Value]
             /\ \A c \in Attr : at[m][c] = IF m \in D /\ c = "look" THEN v[m] ELSE w.attr[m][c]
             /\ m \notin D => at[m] = w.attr[m]
  <2>1. w.attr[m] \in [Attr -> Value]
    BY DEF Networks
  <2>2. CASE m \in D
    <3>1. v[m] \in Value /\ at[m] = [w.attr[m] EXCEPT !["look"] = v[m]]
      BY <2>2
    <3> HIDE DEF at
    <3> QED
      BY <2>1, <2>2, <3>1
  <2>3. CASE m \notin D
    BY <2>1, <2>3
  <2> QED
    BY <2>2, <2>3
<1>3. at \in [Node -> [Attr -> Value]]
  BY <1>2
<1> HIDE DEF at
<1>4. /\ u \in Networks /\ u.attr = at
      /\ u.alive = w.alive /\ u.name = w.name /\ u.src = w.src /\ u.display = w.display
      /\ u.sel = w.sel /\ u.locked = w.locked
  BY <1>1, <1>3 DEF Networks
<1> QED
  BY <1>2, <1>4

LEMMA LookedOK ==
  ASSUME NEW w, NetOK(w), NEW D \in SUBSET w.alive, NEW v \in [D -> Value]
  PROVE  NetOK(Looked(w, v))
<1> DEFINE u == Looked(w, v)
<1>1. w \in Networks /\ D \in SUBSET Node
  BY DEF NetOK, Networks
<1>2. /\ u \in Networks
      /\ u.alive = w.alive /\ u.name = w.name /\ u.src = w.src /\ u.display = w.display
      /\ u.sel = w.sel /\ u.locked = w.locked
      /\ \A m \in Node : \A c \in Attr :
           u.attr[m][c] = IF m \in D /\ c = "look" THEN v[m] ELSE w.attr[m][c]
      /\ \A m \in Node \ D : u.attr[m] = w.attr[m]
  BY <1>1, LookedIs
<1> HIDE DEF u
<1>3. NamesOK(u)
  BY <1>2 DEF NetOK, NamesOK
<1>4. \A m \in Node \ w.alive : u.name[m] = None /\ u.attr[m] = Blank
  BY <1>2 DEF NetOK
<1>5. \A m \in u.locked : u.attr[m]["inner"] = 0
  <2> SUFFICES ASSUME NEW m \in w.locked PROVE u.attr[m]["inner"] = 0
    BY <1>2
  <2>1. m \in Node
    BY <1>1 DEF Networks
  <2>2. w.attr[m]["inner"] = 0
    BY DEF NetOK
  <2> QED
    BY <1>2, <2>1, <2>2, Values
<1>6. u.locked \subseteq w.alive
  BY <1>2 DEF NetOK
<1>7. NetOK(u)
  BY <1>2, <1>3, <1>4, <1>5, <1>6, SameWires
<1> QED
  BY <1>7 DEF u

\* The looks of the nodes a layout captured, put back.
LEMMA LookedBack ==
  ASSUME NEW w \in Networks, NEW D \in SUBSET Node
  PROVE  /\ [n \in D |-> w.attr[n]["look"]] \in [D -> Value]
         /\ Looked(w, [n \in D |-> w.attr[n]["look"]]) = w
<1> DEFINE v == [n \in D |-> w.attr[n]["look"]]
           u == Looked(w, v)
<1>1. \A n \in Node : w.attr[n] \in [Attr -> Value]
  BY DEF Networks
<1>2. v \in [D -> Value] /\ \A n \in D : v[n] = w.attr[n]["look"]
  BY <1>1, Values
<1> HIDE DEF v
<1>3. /\ u \in Networks
      /\ u.alive = w.alive /\ u.name = w.name /\ u.src = w.src /\ u.display = w.display
      /\ u.sel = w.sel /\ u.locked = w.locked
      /\ \A m \in Node : \A c \in Attr :
           u.attr[m][c] = IF m \in D /\ c = "look" THEN v[m] ELSE w.attr[m][c]
  <2>1. ASSUME NEW x \in [D -> Value]
        PROVE  /\ Looked(w, x) \in Networks
               /\ Looked(w, x).alive = w.alive /\ Looked(w, x).name = w.name
               /\ Looked(w, x).src = w.src /\ Looked(w, x).display = w.display
               /\ Looked(w, x).sel = w.sel /\ Looked(w, x).locked = w.locked
               /\ \A m \in Node : \A c \in Attr :
                    Looked(w, x).attr[m][c] = IF m \in D /\ c = "look" THEN x[m] ELSE w.attr[m][c]
    BY LookedIs
  <2> QED
    BY <1>2, <2>1
<1> HIDE DEF u
<1>4. u.attr = w.attr
  BY <1>2, <1>3, SameAttr
<1>5. u = w
  BY <1>3, <1>4, SameNetwork
<1> QED
  BY <1>2, <1>5 DEF u, v

\* A look that was captured, changed.
LEMMA LookedSame ==
  ASSUME NEW w \in Networks, NEW D \in SUBSET Node, NEW v \in [D -> Value], NEW n \in D, NEW x \in Value
  PROVE  Looked(Valued(w, n, "look", x), v) = Looked(w, v)
<1> DEFINE y == Valued(w, n, "look", x)
           u == Looked(y, v)
           q == Looked(w, v)
<1> "look" \in Attr
  BY Values
<1>1. /\ y \in Networks
      /\ y.alive = w.alive /\ y.name = w.name /\ y.src = w.src /\ y.display = w.display
      /\ y.sel = w.sel /\ y.locked = w.locked
      /\ \A m \in Node \ {n} : y.attr[m] = w.attr[m]
      /\ \A c \in Attr : y.attr[n][c] = IF c = "look" THEN x ELSE w.attr[n][c]
  BY ValuedIs
<1>2. /\ q \in Networks
      /\ q.alive = w.alive /\ q.name = w.name /\ q.src = w.src /\ q.display = w.display
      /\ q.sel = w.sel /\ q.locked = w.locked
      /\ \A m \in Node : \A c \in Attr :
           q.attr[m][c] = IF m \in D /\ c = "look" THEN v[m] ELSE w.attr[m][c]
  BY LookedIs
<1> HIDE DEF y, q
<1>3. /\ u \in Networks
      /\ u.alive = y.alive /\ u.name = y.name /\ u.src = y.src /\ u.display = y.display
      /\ u.sel = y.sel /\ u.locked = y.locked
      /\ \A m \in Node : \A c \in Attr :
           u.attr[m][c] = IF m \in D /\ c = "look" THEN v[m] ELSE y.attr[m][c]
  <2>1. y \in Networks
    BY <1>1
  <2>2. u \in Networks
    BY <2>1, LookedIs
  <2>3. /\ u.alive = y.alive /\ u.name = y.name /\ u.src = y.src /\ u.display = y.display
        /\ u.sel = y.sel /\ u.locked = y.locked
    BY <2>1, LookedIs
  <2>4. \A m \in Node : \A c \in Attr :
          u.attr[m][c] = IF m \in D /\ c = "look" THEN v[m] ELSE y.attr[m][c]
    BY <2>1, LookedIs
  <2> QED
    BY <2>2, <2>3, <2>4
<1> HIDE DEF u
<1>4. u.attr = q.attr
  <2>1. \A m \in Node : \A c \in Attr : u.attr[m][c] = q.attr[m][c]
    BY <1>1, <1>2, <1>3
  <2> QED
    BY <1>2, <1>3, <2>1, SameAttr
<1>5. u = q
  BY <1>1, <1>2, <1>3, <1>4, SameNetwork
<1> QED
  BY <1>5 DEF u, q, y

\* A copy, and the network without it.
LEMMA CopiedOK ==
  ASSUME NEW w, NetOK(w), NEW n \in Node \ w.alive, NEW m \in w.alive, NEW v
  PROVE  LET u == Effect(w, Step("copy", n, m, v))
         IN  /\ NetOK(u) /\ Destroyed(u, n) = w /\ u.alive = w.alive \cup {n} /\ u.display = w.display
             /\ u.name[n] = n /\ \A d \in Node \ {n} : u.name[d] = w.name[d]
             /\ \A d \in Node : u.src[d] # n
<1> DEFINE c == Created(w, n, n)
           u == Effect(w, Step("copy", n, m, v))
<1>1. w \in Networks /\ m \in Node /\ n # m /\ n # None
  BY NotNone DEF NetOK, Networks
<1>2. Unnamed(w, n, n)
  BY <1>1, NotNone DEF NetOK, NamesOK, Unnamed, Networks
<1>3. NetOK(c) /\ Destroyed(c, n) = w
  BY <1>2, CreatedOK
<1>4. w.display # None /\ w.display # n
  BY <1>1, NotNone DEF NetOK
<1>5. /\ c \in Networks /\ c.alive = w.alive \cup {n} /\ c.name = [w.name EXCEPT ![n] = n]
      /\ c.src = w.src /\ c.attr = w.attr /\ c.sel = w.sel /\ c.locked = w.locked
      /\ c.display = w.display
  BY <1>1, <1>4 DEF Networks, Created
<1>6. u = [c EXCEPT !.attr[n] = w.attr[m], !.src[n] = w.src[m],
                    !.locked = IF m \in w.locked THEN @ \cup {n} ELSE @]
  BY DEF Effect, Step, Aside
<1>7. w.attr[m] \in [Attr -> Value] /\ w.src[m] \in w.alive \cup {None} /\ w.src[m] \in Node \cup {None}
  BY <1>1 DEF NetOK, Networks
<1> HIDE DEF c
<1>8. /\ u \in Networks /\ u.alive = c.alive /\ u.name = c.name /\ u.sel = c.sel
      /\ u.display = c.display /\ u.attr = [c.attr EXCEPT ![n] = w.attr[m]]
      /\ u.src = [c.src EXCEPT ![n] = w.src[m]]
      /\ u.locked = IF m \in w.locked THEN c.locked \cup {n} ELSE c.locked
  <2> DEFINE at == [c.attr EXCEPT ![n] = w.attr[m]]
             sr == [c.src EXCEPT ![n] = w.src[m]]
             lk == IF m \in w.locked THEN c.locked \cup {n} ELSE c.locked
  <2>1. at \in [Node -> [Attr -> Value]]
    BY <1>5, <1>7 DEF Networks
  <2>2. sr \in [Node -> Node \cup {None}]
    BY <1>5, <1>7 DEF Networks
  <2>3. lk \in SUBSET Node
    BY <1>5 DEF Networks
  <2>4. u = [c EXCEPT !.attr = at, !.src = sr, !.locked = lk]
    BY <1>6
  <2> HIDE DEF at, sr, lk
  <2>5. /\ u \in Networks /\ u.alive = c.alive /\ u.name = c.name /\ u.sel = c.sel
        /\ u.display = c.display /\ u.attr = at /\ u.src = sr /\ u.locked = lk
    BY <1>5, <2>1, <2>2, <2>3, <2>4 DEF Networks
  <2> QED
    BY <2>5 DEF at, sr, lk
<1> HIDE DEF u
<1>9. /\ u.src[n] = w.src[m] /\ u.attr[n] = w.attr[m]
      /\ \A d \in Node \ {n} : u.src[d] = w.src[d] /\ u.attr[d] = w.attr[d]
  BY <1>1, <1>5, <1>8 DEF Networks
<1>10. \A d \in Node : w.src[d] # n
  BY <1>1, NotNone DEF NetOK
<1>11. \A d \in Node : u.src[d] # n
  BY <1>1, <1>9, <1>10
<1>12. Destroyed(u, n) = Destroyed(c, n)
  <2>1. \A d \in Node \ {n} : u.name[d] = c.name[d] /\ u.src[d] = c.src[d] /\ u.attr[d] = c.attr[d]
    BY <1>5, <1>8, <1>9
  <2>2. u.locked \ {n} = c.locked \ {n}
    BY <1>8
  <2>3. \A d \in Node : c.src[d] # n /\ u.src[d] # n
    BY <1>5, <1>10, <1>11
  <2>4. c.display # n /\ u.display = c.display /\ u.alive = c.alive /\ u.sel = c.sel
    BY <1>4, <1>5, <1>8
  <2>5. u \in Networks /\ c \in Networks
    BY <1>5, <1>8
  <2> QED
    BY <2>1, <2>2, <2>3, <2>4, <2>5, SameGone
<1>13. NetOK(u)
  <2>1. PICK r \in [Node -> Nat] : Ranks(w, r)
    BY DEF NetOK
  <2>2. [r EXCEPT ![n] = r[m]] \in [Node -> Nat]
    BY <1>1
  <2>3. Ranks(u, [r EXCEPT ![n] = r[m]])
    <3> SUFFICES ASSUME NEW d \in Node, u.src[d] # None
                 PROVE  [r EXCEPT ![n] = r[m]][u.src[d]] < [r EXCEPT ![n] = r[m]][d]
      BY DEF Ranks
    <3>1. u.src[d] \in Node /\ u.src[d] # n
      BY <1>8, <1>11 DEF Networks
    <3>2. CASE d = n
      BY <1>1, <1>9, <2>1, <3>1, <3>2 DEF Ranks
    <3>3. CASE d # n
      BY <1>9, <2>1, <3>1, <3>3 DEF Ranks
    <3> QED
      BY <3>2, <3>3
  <2>4. NamesOK(u)
    BY <1>3, <1>8 DEF NetOK, NamesOK
  <2>5. \A d \in Node \ u.alive : u.name[d] = None /\ u.src[d] = None /\ u.attr[d] = Blank
    BY <1>3, <1>5, <1>8, <1>9 DEF NetOK
  <2>6. \A d \in u.alive : u.src[d] \in u.alive \cup {None}
    BY <1>1, <1>5, <1>7, <1>8, <1>9 DEF NetOK, Networks
  <2>7. /\ u.display \in u.alive \cup {None} /\ (u.display = None => u.alive = {})
        /\ u.sel \in u.alive \cup {None}
    BY <1>3, <1>8 DEF NetOK
  <2>8. u.locked \subseteq u.alive
    BY <1>5, <1>8 DEF NetOK
  <2>9. \A d \in u.locked : u.attr[d]["inner"] = 0
    <3> SUFFICES ASSUME NEW d \in u.locked PROVE u.attr[d]["inner"] = 0
      OBVIOUS
    <3>1. CASE d = n
      <4>1. n \notin w.locked
        BY DEF NetOK
      <4>2. m \in w.locked
        BY <1>5, <1>8, <3>1, <4>1
      <4> QED
        BY <1>9, <3>1, <4>2 DEF NetOK
    <3>2. CASE d # n
      <4>1. d \in w.locked /\ d \in Node
        BY <1>1, <1>5, <1>8, <3>2 DEF Networks
      <4>2. w.attr[d]["inner"] = 0
        BY <4>1 DEF NetOK
      <4> QED
        BY <1>9, <3>2, <4>1, <4>2
    <3> QED
      BY <3>1, <3>2
  <2>10. \E q \in [Node -> Nat] : Ranks(u, q)
    BY <2>2, <2>3
  <2> QED
    BY <1>8, <2>4, <2>5, <2>6, <2>7, <2>8, <2>9, <2>10 DEF NetOK
<1>14. /\ NetOK(u) /\ Destroyed(u, n) = w /\ u.alive = w.alive \cup {n} /\ u.display = w.display
       /\ u.name[n] = n /\ \A d \in Node \ {n} : u.name[d] = w.name[d]
       /\ \A d \in Node : u.src[d] # n
  BY <1>1, <1>3, <1>5, <1>8, <1>11, <1>12, <1>13 DEF Networks
<1> QED
  BY <1>14 DEF u

\* A network made from the data of a build.
LEMMA FilledOK ==
  ASSUME NEW w, NetOK(w), NEW n \in Node \ w.alive, NEW x \in Name, Unnamed(w, n, x), NEW v \in Value
  PROVE  LET u == Valued(Created(w, n, x), n, "parm", v)
         IN  /\ NetOK(u) /\ Destroyed(u, n) = w /\ u.alive = w.alive \cup {n} /\ u.src = w.src
             /\ u.name[n] = x /\ \A m \in Node \ {n} : u.name[m] = w.name[m]
<1> DEFINE c == Created(w, n, x)
           u == Valued(c, n, "parm", v)
<1>1. w \in Networks
  BY DEF NetOK
<1>2. NetOK(c) /\ Destroyed(c, n) = w
  BY CreatedOK
<1>3. /\ c \in Networks /\ c.alive = w.alive \cup {n} /\ c.src = w.src /\ n \in c.alive
      /\ c.name[n] = x /\ \A m \in Node \ {n} : c.name[m] = w.name[m]
  BY <1>1, <1>2 DEF NetOK, Created, Networks
<1> HIDE DEF c
<1> "parm" \in Attr
  BY Values
<1>4. /\ u \in Networks
      /\ u.alive = c.alive /\ u.name = c.name /\ u.src = c.src /\ u.display = c.display
      /\ u.sel = c.sel /\ u.locked = c.locked
      /\ \A m \in Node \ {n} : u.attr[m] = c.attr[m]
  BY <1>3, ValuedIs
<1>5. NetOK(u)
  BY <1>2, <1>3, ValuedOK
<1> HIDE DEF u
<1>6. \A d \in Node : w.src[d] # n
  BY <1>1, NotNone DEF NetOK
<1>7. Destroyed(u, n) = Destroyed(c, n)
  <2>1. \A m \in Node \ {n} : u.name[m] = c.name[m] /\ u.src[m] = c.src[m] /\ u.attr[m] = c.attr[m]
    BY <1>4
  <2>2. \A m \in Node : c.src[m] # n /\ u.src[m] # n
    BY <1>3, <1>4, <1>6
  <2>3. u.locked \ {n} = c.locked \ {n} /\ u.src[n] = c.src[n]
    BY <1>4
  <2>4. u \in Networks /\ c \in Networks /\ u.alive = c.alive /\ u.sel = c.sel /\ u.display = c.display
    BY <1>3, <1>4
  <2> QED
    BY <2>1, <2>2, <2>3, <2>4, SameGone
<1>8. /\ NetOK(u) /\ Destroyed(u, n) = w /\ u.alive = w.alive \cup {n} /\ u.src = w.src
      /\ u.name[n] = x /\ \A m \in Node \ {n} : u.name[m] = w.name[m]
  BY <1>2, <1>3, <1>4, <1>5, <1>7
<1> QED
  BY <1>8 DEF u, c

LEMMA RewiredFed ==
  ASSUME NEW w, NEW n, NEW to
  PROVE  Rewired(w, n, to) = Fed(w, Consumers(w, n), to)
  BY DEF Rewired, Fed

\* The outputs of n may move to what feeds it, and to a node that nothing feeds.
LEMMA RewiredOK ==
  ASSUME NEW w, NetOK(w), NEW n \in w.alive, NEW to \in w.alive \cup {None},
         to # None => to = w.src[n] \/ (w.src[to] = None /\ to # n)
  PROVE  /\ NetOK(Rewired(w, n, to))
         /\ Consumers(w, n) \subseteq w.alive /\ CanFeed(Rewired(w, n, to), Consumers(w, n), n)
         /\ Fed(Rewired(w, n, to), Consumers(w, n), n) = w
<1> DEFINE ds == Consumers(w, n)
<1>1. w \in Networks /\ n \in Node /\ n # None /\ to \in Node \cup {None}
  BY NotNone DEF NetOK, Networks
<1>2. ds \subseteq w.alive /\ ds \in SUBSET Node /\ \A d \in ds : w.src[d] = n
  BY <1>1 DEF Consumers, Networks
<1> HIDE DEF ds
<1>3. ASSUME to # None
      PROVE  CanFeed(w, ds, to)
  <2>1. PICK r \in [Node -> Nat] : Ranks(w, r)
    BY DEF NetOK
  <2>2. CASE to = w.src[n]
    <3> DEFINE up == {m \in Node : r[m] < r[n]}
    <3>1. to \in up
      BY <1>1, <1>3, <2>1, <2>2 DEF Ranks
    <3>2. up \cap ds = {}
      <4> SUFFICES ASSUME NEW d \in ds, d \in up PROVE FALSE
        OBVIOUS
      <4>1. r[n] < r[d] /\ r[d] \in Nat /\ r[n] \in Nat /\ r[d] < r[n]
        BY <1>1, <1>2, <2>1 DEF Ranks
      <4> QED
        BY <4>1
    <3>3. ASSUME NEW m \in up
          PROVE  w.src[m] \in up \cup {None}
      <4>1. w.src[m] \in Node \cup {None}
        BY <1>1 DEF Networks
      <4>2. CASE w.src[m] # None
        <5>1. r[w.src[m]] < r[m] /\ r[w.src[m]] \in Nat /\ r[m] \in Nat /\ r[n] \in Nat
          BY <1>1, <2>1, <4>1, <4>2 DEF Ranks
        <5> QED
          BY <4>1, <4>2, <5>1
      <4> QED
        BY <4>2
    <3>4. up \in SUBSET Node
      OBVIOUS
    <3> QED
      BY <3>1, <3>2, <3>3, <3>4 DEF CanFeed
  <2>3. CASE w.src[to] = None /\ to # n
    <3>1. {to} \in SUBSET Node /\ {to} \cap ds = {}
      BY <1>1, <1>2, <1>3, <2>3
    <3> QED
      BY <2>3, <3>1 DEF CanFeed
  <2> QED
    BY <1>3, <2>2, <2>3
<1>4. NetOK(Fed(w, ds, to))
  BY <1>2, <1>3, FedOK
<1>5. CanFeed(Fed(w, ds, to), ds, n) /\ Fed(Fed(w, ds, to), ds, n) = w
  BY <1>1, <1>2, FedBack
<1> QED
  BY <1>2, <1>4, <1>5, RewiredFed DEF ds

\* A wire that Houdini takes can be taken back.
LEMMA RewireBack ==
  ASSUME NEW w, NetOK(w), NEW d \in w.alive, NEW s \in w.alive \cup {None}, CanWire(w, d, s)
  PROVE  /\ NetOK(Wired(w, d, s))
         /\ CanWire(Wired(w, d, s), d, w.src[d]) /\ Wired(Wired(w, d, s), d, w.src[d]) = w
<1>1. w \in Networks /\ d \in Node /\ s \in Node \cup {None} /\ w.src[d] \in Node \cup {None}
  BY DEF NetOK, Networks
<1>2. Wired(w, d, s) = Fed(w, {d}, s)
  BY <1>1, WiredFed
<1>3. NetOK(Fed(w, {d}, s))
  BY FedOK DEF CanWire
<1>4. /\ w.src[d] # None => CanFeed(Fed(w, {d}, s), {d}, w.src[d])
      /\ Fed(Fed(w, {d}, s), {d}, w.src[d]) = w
  BY <1>1, FedBack
<1>5. Wired(Fed(w, {d}, s), d, w.src[d]) = Fed(Fed(w, {d}, s), {d}, w.src[d])
  BY <1>1, <1>3, WiredFed DEF NetOK
<1> QED
  BY <1>2, <1>3, <1>4, <1>5 DEF CanWire

LEMMA InitialOK == NetOK(InitialNet)
<1> DEFINE first == CHOOSE n \in Initial \cup {None} : Initial # {} => n \in Initial
           names == CHOOSE f \in [Initial -> Name] : IsInjective(f)
           w == InitialNet
<1>1. Initial \subseteq Node
  BY TransactionsAssumption
<1>2. first \in Initial \cup {None} /\ (Initial # {} => first \in Initial)
  <2>1. \E n \in Initial \cup {None} : Initial # {} => n \in Initial
    OBVIOUS
  <2> QED
    BY <2>1
<1>3. names \in [Initial -> Name] /\ IsInjective(names)
  <2>1. \E f \in [Initial -> Name] : IsInjective(f)
    BY TransactionsAssumption
  <2> QED
    BY <2>1
<1>4. /\ w.alive = Initial /\ w.name = [n \in Node |-> IF n \in Initial THEN names[n] ELSE None]
      /\ w.src = [n \in Node |-> IF n \in Initial /\ n # first THEN first ELSE None]
      /\ w.attr = [n \in Node |-> Blank] /\ w.display = first /\ w.sel = first /\ w.locked = {}
      /\ w = [alive |-> w.alive, name |-> w.name, src |-> w.src, attr |-> w.attr,
              display |-> w.display, sel |-> w.sel, locked |-> w.locked]
  BY DEF InitialNet
<1> HIDE DEF first, names, w
<1>5. \A n \in Initial : names[n] \in Name /\ first \in Initial
  BY <1>2, <1>3
<1>6. \A m, n \in Initial : names[m] = names[n] => m = n
  BY <1>3 DEF IsInjective
<1>7. w \in Networks
  <2>1. w.alive \in SUBSET Node /\ w.display \in Node \cup {None} /\ w.sel \in Node \cup {None}
    BY <1>1, <1>2, <1>4
  <2>2. w.name \in [Node -> Name \cup Node \cup {None}] /\ w.src \in [Node -> Node \cup {None}]
    BY <1>1, <1>4, <1>5
  <2>3. w.attr \in [Node -> [Attr -> Value]] /\ w.locked \in SUBSET Node
    BY <1>4, Values
  <2> QED
    BY <1>4, <2>1, <2>2, <2>3 DEF Networks
<1>8. NamesOK(w)
  BY <1>1, <1>4, <1>5, <1>6 DEF NamesOK
<1>9. \A n \in Node \ w.alive : w.name[n] = None /\ w.src[n] = None /\ w.attr[n] = Blank
  BY <1>4
<1>10. \A n \in w.alive : w.src[n] \in w.alive \cup {None}
  BY <1>1, <1>4, <1>5
<1>11. \E r \in [Node -> Nat] : Ranks(w, r)
  <2> DEFINE r == [n \in Node |-> IF w.src[n] = None THEN 0 ELSE 1]
  <2>1. r \in [Node -> Nat]
    OBVIOUS
  <2>2. \A n \in Node : w.src[n] # None => w.src[n] \in Node /\ w.src[w.src[n]] = None
    BY <1>1, <1>4, <1>5
  <2>3. Ranks(w, r)
    BY <2>2 DEF Ranks
  <2> QED
    BY <2>1, <2>3
<1>12. /\ w.display \in w.alive \cup {None} /\ (w.display = None => w.alive = {})
       /\ w.sel \in w.alive \cup {None}
       /\ w.locked \subseteq w.alive /\ \A n \in w.locked : w.attr[n]["inner"] = 0
  BY <1>1, <1>2, <1>4, NotNone
<1>13. NetOK(w)
  BY <1>7, <1>8, <1>9, <1>10, <1>11, <1>12 DEF NetOK
<1> QED
  BY <1>13 DEF w
-----------------------------------------------------------------------------
(* The stack. *)

EntryKinds == {"show", "put", "looks", "feed", "wire", "name", "select", "lock", "unlock", "destroy",
               "destroylater", "fail"}
RunKinds == {"keep", "new", "fill", "copy", "save", "savelooks", "savesel", "put", "putback", "wire",
             "wireback", "rewire", "rewireback", "rename", "name", "show", "select", "lock", "unlock",
             "verify", "press", "doom", "destroy", "stray"}
StepKinds == EntryKinds \cup RunKinds \cup {"delete", "bad"}

EntryOK(e) ==
  /\ e.k \in EntryKinds
  /\ e.k \notin {"looks", "select", "fail"} => e.n \in Node
  /\ e.k = "select" => e.n \in Node \cup {None}
  /\ e.k = "put" => e.m \in Attr /\ e.v \in Value
  /\ e.k = "looks" => DOMAIN e.v \subseteq Node /\ e.v \in [DOMAIN e.v -> Value]
  /\ e.k = "feed" => e.v \subseteq Node
  /\ e.k = "wire" => e.m \in Node \cup {None}
  /\ e.k = "name" => e.m \in Name \cup {e.n}

LookMaps == UNION {[D -> Value] : D \in SUBSET Node}
Contents == Value \cup (SUBSET Node) \cup LookMaps
Cell == [k : StepKinds, n : Node \cup {None}, m : Node \cup Name \cup Attr \cup {None}, v : Contents]
Entry == {e \in Cell : EntryOK(e)}

\* An entry leads from w to v, or from nowhere to anywhere.
Linked(w, e, v) == e.k = "fail" \/ (CanUndo(w, e) /\ Undone(w, e) = v)

\* The last entry.
Top(st) == st[Len(st)]

\* From b, where the stack had lo entries, the entries of st lead to w.
Path(lo, b, w, st) ==
  /\ lo <= Len(st)
  /\ \E W \in [lo .. Len(st) -> Networks] :
       /\ W[lo] = b /\ W[Len(st)] = w
       /\ \A k \in lo + 1 .. Len(st) : Linked(W[k], st[k], W[k - 1])

LEMMA PathNew ==
  ASSUME NEW b \in Networks, NEW st \in Seq(Entry)
  PROVE  Path(Len(st), b, b, st)
<1> DEFINE n == Len(st)
           W == [k \in n .. n |-> b]
<1>1. n \in Nat
  BY LenProperties
<1>2. W \in [n .. n -> Networks] /\ W[n] = b
  BY <1>1
<1>3. \A k \in n + 1 .. n : Linked(W[k], st[k], W[k - 1])
  BY <1>1
<1> HIDE DEF W, n
<1>4. n <= n
  BY <1>1
<1>5. Path(n, b, b, st)
  BY <1>2, <1>3, <1>4 DEF Path, n
<1> QED
  BY <1>5 DEF n

LEMMA PathEmpty ==
  ASSUME NEW lo \in Nat, NEW b, NEW w, NEW st \in Seq(Entry), Path(lo, b, w, st), Len(st) <= lo
  PROVE  w = b
<1>1. Len(st) \in Nat /\ Len(st) = lo
  BY LenProperties DEF Path
<1> QED
  BY <1>1 DEF Path

\* A new entry, which leads back from the network that a step made.
LEMMA PathPush ==
  ASSUME NEW lo \in Nat, NEW b, NEW w, NEW st \in Seq(Entry), Path(lo, b, w, st),
         NEW u \in Networks, NEW e \in Entry, Linked(u, e, w)
  PROVE  Path(lo, b, u, Append(st, e))
<1> DEFINE n == Len(st)
           q == Append(st, e)
<1>1. n \in Nat /\ lo <= n
  BY LenProperties DEF Path
<1>2. Len(q) = n + 1 /\ q[n + 1] = e /\ \A k \in 1 .. n : q[k] = st[k]
  BY AppendProperties
<1>3. PICK W \in [lo .. n -> Networks] :
        W[lo] = b /\ W[n] = w /\ \A k \in lo + 1 .. n : Linked(W[k], st[k], W[k - 1])
  BY DEF Path
<1> DEFINE V == [k \in lo .. n + 1 |-> IF k = n + 1 THEN u ELSE W[k]]
<1>4. V \in [lo .. n + 1 -> Networks]
  BY <1>1
<1>5. V[lo] = b /\ V[n + 1] = u
  BY <1>1, <1>3
<1>6. ASSUME NEW k \in lo + 1 .. n + 1
      PROVE  Linked(V[k], q[k], V[k - 1])
  <2>1. CASE k = n + 1
    <3>1. V[k] = u /\ q[k] = e /\ V[k - 1] = w
      BY <1>1, <1>2, <1>3, <2>1
    <3> QED
      BY <3>1
  <2>2. CASE k # n + 1
    <3>1. k \in lo + 1 .. n /\ k \in 1 .. n
      BY <1>1, <2>2
    <3>2. V[k] = W[k] /\ V[k - 1] = W[k - 1] /\ q[k] = st[k]
      BY <1>1, <1>2, <3>1
    <3> QED
      BY <1>3, <3>1, <3>2
  <2> QED
    BY <2>1, <2>2
<1> HIDE DEF V, q, n
<1>7. lo <= n + 1
  BY <1>1
<1>8. Path(lo, b, u, q)
  BY <1>2, <1>4, <1>5, <1>6, <1>7 DEF Path
<1> QED
  BY <1>8 DEF q

\* A step that the last entry takes back as well.
LEMMA PathTop ==
  ASSUME NEW lo \in Nat, NEW b, NEW w, NEW st \in Seq(Entry), Path(lo, b, w, st), lo < Len(st),
         NEW u \in Networks, \A v : Linked(w, Top(st), v) => Linked(u, Top(st), v)
  PROVE  Path(lo, b, u, st)
<1> DEFINE n == Len(st)
<1>1. n \in Nat /\ lo < n /\ Top(st) = st[n]
  BY LenProperties DEF Path, Top
<1>2. PICK W \in [lo .. n -> Networks] :
        W[lo] = b /\ W[n] = w /\ \A k \in lo + 1 .. n : Linked(W[k], st[k], W[k - 1])
  BY DEF Path
<1> DEFINE V == [k \in lo .. n |-> IF k = n THEN u ELSE W[k]]
<1> HIDE DEF n
<1>3. V \in [lo .. n -> Networks] /\ V[lo] = b /\ V[n] = u
  BY <1>1, <1>2
<1>4. ASSUME NEW k \in lo + 1 .. n
      PROVE  Linked(V[k], st[k], V[k - 1])
  <2>1. CASE k = n
    <3>1. Linked(w, st[n], W[n - 1])
      BY <1>1, <1>2
    <3>2. V[k] = u /\ V[k - 1] = W[n - 1]
      BY <1>1, <2>1
    <3> QED
      BY <1>1, <2>1, <3>1, <3>2
  <2>2. CASE k # n
    <3>1. V[k] = W[k] /\ V[k - 1] = W[k - 1]
      BY <1>1, <2>2
    <3> QED
      BY <1>2, <3>1
  <2> QED
    BY <2>1, <2>2
<1> HIDE DEF V
<1> QED
  BY <1>1, <1>3, <1>4 DEF Path, n

\* The same, of a step that the last two entries take back together.
LEMMA PathTwo ==
  ASSUME NEW lo \in Nat, NEW b, NEW w, NEW st \in Seq(Entry), Path(lo, b, w, st), lo < Len(st) - 1,
         NEW u \in Networks,
         \A v \in Networks : Linked(w, Top(st), v) =>
           \E y \in Networks :
             /\ Linked(u, Top(st), y)
             /\ \A x : Linked(v, st[Len(st) - 1], x) => Linked(y, st[Len(st) - 1], x)
  PROVE  Path(lo, b, u, st)
<1> DEFINE n == Len(st)
<1>1. n \in Nat /\ lo < n - 1 /\ Top(st) = st[n]
  BY LenProperties DEF Path, Top
<1>2. PICK W \in [lo .. n -> Networks] :
        W[lo] = b /\ W[n] = w /\ \A k \in lo + 1 .. n : Linked(W[k], st[k], W[k - 1])
  BY DEF Path
<1>3. W[n - 1] \in Networks /\ Linked(w, Top(st), W[n - 1])
  BY <1>1, <1>2
<1>4. PICK y \in Networks :
        /\ Linked(u, Top(st), y)
        /\ \A x : Linked(W[n - 1], st[n - 1], x) => Linked(y, st[n - 1], x)
  BY <1>3
<1> DEFINE V == [k \in lo .. n |-> IF k = n THEN u ELSE IF k = n - 1 THEN y ELSE W[k]]
<1> HIDE DEF n
<1>5. V \in [lo .. n -> Networks] /\ V[lo] = b /\ V[n] = u
  BY <1>1, <1>2
<1>6. ASSUME NEW k \in lo + 1 .. n
      PROVE  Linked(V[k], st[k], V[k - 1])
  <2>1. CASE k = n
    <3>1. V[k] = u /\ V[k - 1] = y
      BY <1>1, <2>1
    <3> QED
      BY <1>1, <1>4, <2>1, <3>1
  <2>2. CASE k = n - 1
    <3>1. V[k] = y /\ V[k - 1] = W[n - 2]
      BY <1>1, <2>2
    <3>2. Linked(W[n - 1], st[n - 1], W[n - 2])
      BY <1>1, <1>2, <2>2
    <3> QED
      BY <1>4, <2>2, <3>1, <3>2
  <2>3. CASE k # n /\ k # n - 1
    <3>1. V[k] = W[k] /\ V[k - 1] = W[k - 1]
      BY <1>1, <2>3
    <3> QED
      BY <1>2, <3>1
  <2> QED
    BY <2>1, <2>2, <2>3
<1> HIDE DEF V
<1> QED
  BY <1>1, <1>5, <1>6 DEF Path, n

\* The last entry run: it leads one stretch back, or it is one that only fails.
LEMMA PathPop ==
  ASSUME NEW lo \in Nat, NEW b, NEW w, NEW st \in Seq(Entry), Path(lo, b, w, st), lo < Len(st)
  PROVE  /\ CanUndo(w, Top(st)) => Path(lo, b, Undone(w, Top(st)), SubSeq(st, 1, Len(st) - 1))
         /\ ~CanUndo(w, Top(st)) => Top(st).k = "fail"
<1> DEFINE n == Len(st)
           q == SubSeq(st, 1, n - 1)
<1>1. n \in Nat /\ lo < n /\ Top(st) = st[n]
  BY LenProperties DEF Path, Top
<1>2. PICK W \in [lo .. n -> Networks] :
        W[lo] = b /\ W[n] = w /\ \A k \in lo + 1 .. n : Linked(W[k], st[k], W[k - 1])
  BY DEF Path
<1>3. Len(q) = n - 1 /\ \A k \in 1 .. n - 1 : q[k] = st[k]
  BY <1>1, SubSeqProperties
<1> HIDE DEF n, q
<1>4. Linked(w, Top(st), W[n - 1])
  BY <1>1, <1>2
<1>5. ~CanUndo(w, Top(st)) => Top(st).k = "fail"
  BY <1>4 DEF Linked
<1>6. ASSUME CanUndo(w, Top(st))
      PROVE  Path(lo, b, Undone(w, Top(st)), q)
  <2>1. Top(st).k # "fail"
    BY <1>6 DEF CanUndo
  <2>2. W[n - 1] = Undone(w, Top(st))
    BY <1>4, <2>1 DEF Linked
  <2> DEFINE V == [k \in lo .. n - 1 |-> W[k]]
  <2>3. V \in [lo .. n - 1 -> Networks] /\ V[lo] = b /\ V[n - 1] = Undone(w, Top(st))
    BY <1>1, <1>2, <2>2
  <2>4. ASSUME NEW k \in lo + 1 .. n - 1
        PROVE  Linked(V[k], q[k], V[k - 1])
    <3>1. k \in lo + 1 .. n /\ k \in 1 .. n - 1
      BY <1>1
    <3>2. V[k] = W[k] /\ V[k - 1] = W[k - 1] /\ q[k] = st[k]
      BY <1>1, <1>3, <3>1
    <3> QED
      BY <1>2, <3>1, <3>2
  <2> HIDE DEF V
  <2>5. lo <= n - 1
    BY <1>1
  <2> QED
    BY <1>3, <2>3, <2>4, <2>5 DEF Path
<1> QED
  BY <1>5, <1>6 DEF q, n

\* What an entry does, in one call of hou.
LEMMA UndoneIs ==
  ASSUME NEW w \in Networks, NEW e \in Entry, CanUndo(w, e)
  PROVE  /\ e.k \in EntryKinds \ {"fail"}
         /\ e.k = "show" => e.n \in w.alive /\ Undone(w, e) = Shown(w, e.n)
         /\ e.k = "put" => /\ e.n \in w.alive /\ e.m \in Attr /\ e.v \in Value
                           /\ e.m = "inner" => e.n \notin w.locked
                           /\ Undone(w, e) = Valued(w, e.n, e.m, e.v)
         /\ e.k = "looks" => /\ DOMAIN e.v \in SUBSET w.alive /\ e.v \in [DOMAIN e.v -> Value]
                             /\ Undone(w, e) = Looked(w, e.v)
         /\ e.k = "feed" => /\ e.n \in w.alive /\ e.v \in SUBSET w.alive /\ CanFeed(w, e.v, e.n)
                            /\ Undone(w, e) = Fed(w, e.v, e.n)
         /\ e.k = "wire" => /\ e.n \in w.alive /\ e.m \in w.alive \cup {None} /\ CanWire(w, e.n, e.m)
                            /\ Undone(w, e) = Wired(w, e.n, e.m)
         /\ e.k = "name" => /\ e.n \in w.alive /\ e.m \in Name \cup {e.n} /\ Unnamed(w, e.n, e.m)
                            /\ Undone(w, e) = Named(w, e.n, e.m)
         /\ e.k = "select" => Undone(w, e) = Selected(w, IF e.n \in w.alive THEN e.n ELSE None)
         /\ e.k = "lock" => e.n \in w.alive /\ Undone(w, e) = Matched(w, e.n)
         /\ e.k = "unlock" => e.n \in w.alive /\ Undone(w, e) = Unlocked(w, e.n)
         /\ e.k \in {"destroy", "destroylater"} =>
              Undone(w, e) = IF e.n \in w.alive THEN Destroyed(w, e.n) ELSE w
<1>1. e.k \in EntryKinds \ {"fail"}
  BY DEF Entry, EntryOK, CanUndo
<1>2. e.k = "show" => e.n \in w.alive /\ Undone(w, e) = Shown(w, e.n)
  BY DEF CanUndo, Undone, Effect
<1>3. e.k = "put" => /\ e.n \in w.alive /\ e.m \in Attr /\ e.v \in Value
                     /\ e.m = "inner" => e.n \notin w.locked
                     /\ Undone(w, e) = Valued(w, e.n, e.m, e.v)
  BY DEF Entry, EntryOK, CanUndo, Undone, Effect
<1>4. e.k = "looks" => /\ DOMAIN e.v \in SUBSET w.alive /\ e.v \in [DOMAIN e.v -> Value]
                       /\ Undone(w, e) = Looked(w, e.v)
  BY DEF Entry, EntryOK, CanUndo, Undone, Looked
<1>5. e.k = "feed" => /\ e.n \in w.alive /\ e.v \in SUBSET w.alive /\ CanFeed(w, e.v, e.n)
                      /\ Undone(w, e) = Fed(w, e.v, e.n)
  BY DEF CanUndo, Undone, Fed
<1>6. e.k = "wire" => /\ e.n \in w.alive /\ e.m \in w.alive \cup {None} /\ CanWire(w, e.n, e.m)
                      /\ Undone(w, e) = Wired(w, e.n, e.m)
  BY DEF CanUndo, Undone, Effect
<1>7. e.k = "name" => /\ e.n \in w.alive /\ e.m \in Name \cup {e.n} /\ Unnamed(w, e.n, e.m)
                      /\ Undone(w, e) = Named(w, e.n, e.m)
  BY DEF Entry, EntryOK, CanUndo, Undone, Effect, Unnamed
<1>8. e.k = "select" => Undone(w, e) = Selected(w, IF e.n \in w.alive THEN e.n ELSE None)
  BY DEF CanUndo, Undone
<1>9. e.k = "lock" => e.n \in w.alive /\ Undone(w, e) = Matched(w, e.n)
  BY DEF CanUndo, Undone, Effect
<1>10. e.k = "unlock" => e.n \in w.alive /\ Undone(w, e) = Unlocked(w, e.n)
  BY DEF CanUndo, Undone, Effect
<1>11. e.k \in {"destroy", "destroylater"} =>
         Undone(w, e) = IF e.n \in w.alive THEN Destroyed(w, e.n) ELSE w
  BY DEF Undone
<1> QED
  BY <1>1, <1>2, <1>3, <1>4, <1>5, <1>6, <1>7, <1>8, <1>9, <1>10, <1>11

LEMMA UndoneOK ==
  ASSUME NEW w, NetOK(w), NEW e \in Entry, CanUndo(w, e)
  PROVE  NetOK(Undone(w, e))
<1>1. w \in Networks /\ w.alive \in SUBSET Node
  BY DEF NetOK, Networks
<1>2. CASE e.k = "show"
  <2>1. e.n \in w.alive /\ Undone(w, e) = Shown(w, e.n)
    BY <1>1, <1>2, UndoneIs
  <2> QED
    BY <2>1, ShownOK
<1>3. CASE e.k = "put"
  <2>1. e.n \in w.alive /\ e.m \in Attr /\ e.v \in Value /\ (e.m = "inner" => e.n \notin w.locked)
        /\ Undone(w, e) = Valued(w, e.n, e.m, e.v)
    BY <1>1, <1>3, UndoneIs
  <2> QED
    BY <2>1, ValuedOK
<1>4. CASE e.k = "looks"
  <2>1. DOMAIN e.v \in SUBSET w.alive /\ e.v \in [DOMAIN e.v -> Value] /\ Undone(w, e) = Looked(w, e.v)
    BY <1>1, <1>4, UndoneIs
  <2> QED
    BY <2>1, LookedOK
<1>5. CASE e.k = "feed"
  <2>1. e.n \in w.alive /\ e.v \in SUBSET w.alive /\ CanFeed(w, e.v, e.n)
        /\ Undone(w, e) = Fed(w, e.v, e.n)
    BY <1>1, <1>5, UndoneIs
  <2> QED
    BY <2>1, FedOK
<1>6. CASE e.k = "wire"
  <2>1. e.n \in w.alive /\ e.m \in w.alive \cup {None} /\ CanWire(w, e.n, e.m)
        /\ Undone(w, e) = Wired(w, e.n, e.m)
    BY <1>1, <1>6, UndoneIs
  <2> QED
    BY <2>1, RewireBack
<1>7. CASE e.k = "name"
  <2>1. e.n \in w.alive /\ e.m \in Name \cup {e.n} /\ Unnamed(w, e.n, e.m)
        /\ Undone(w, e) = Named(w, e.n, e.m)
    BY <1>1, <1>7, UndoneIs
  <2> QED
    BY <2>1, NamedOK
<1>8. CASE e.k = "select"
  <2>1. Undone(w, e) = Selected(w, IF e.n \in w.alive THEN e.n ELSE None)
    BY <1>1, <1>8, UndoneIs
  <2> QED
    BY <2>1, SelectedOK
<1>9. CASE e.k = "lock"
  <2>1. e.n \in w.alive /\ Undone(w, e) = Matched(w, e.n)
    BY <1>1, <1>9, UndoneIs
  <2> QED
    BY <2>1, MatchedOK
<1>10. CASE e.k = "unlock"
  <2>1. e.n \in w.alive /\ Undone(w, e) = Unlocked(w, e.n)
    BY <1>1, <1>10, UndoneIs
  <2> QED
    BY <2>1, UnlockedOK
<1>11. CASE e.k \in {"destroy", "destroylater"}
  <2>1. Undone(w, e) = IF e.n \in w.alive THEN Destroyed(w, e.n) ELSE w
    BY <1>1, <1>11, UndoneIs
  <2> QED
    BY <2>1, DestroyedOK
<1>12. e.k \in EntryKinds \ {"fail"}
  BY <1>1, UndoneIs
<1> QED
  BY <1>12, <1>2, <1>3, <1>4, <1>5, <1>6, <1>7, <1>8, <1>9, <1>10, <1>11 DEF EntryKinds

-----------------------------------------------------------------------------
(* The steps: what each needs so that it can be taken back. *)

Alone(w, n) == \A d \in Node : w.src[d] # n

\* The last entry takes n, which feeds nothing, away again.
Going(w, mk, st, n) ==
  mk < Len(st) /\ Top(st).k = "destroylater" /\ Top(st).n = n /\ Alone(w, n)

Fits(w, mk, st, s) ==
  /\ s.k \in RunKinds
  /\ s.k \in {"new", "fill"} => s.n \in Node \ w.alive /\ s.m \in Name /\ Unnamed(w, s.n, s.m)
  /\ s.k = "fill" => s.v \in Value
  /\ s.k = "copy" => s.n \in Node \ w.alive /\ s.m \in w.alive
  /\ s.k \in {"save", "put", "putback"} => s.n \in w.alive /\ s.m \in Attr
  /\ s.k \in {"put", "putback"} => s.v \in Value
  /\ s.k = "putback" => s.m # "inner"
  /\ s.k = "put" =>
       \/ Going(w, mk, st, s.n)
       \/ mk < Len(st) /\ Top(st).k = "put" /\ Top(st).n = s.n /\ Top(st).m = s.m
       \/ mk < Len(st) /\ Top(st).k = "looks" /\ s.n \in DOMAIN Top(st).v /\ s.m = "look"
  /\ s.k \in {"wire", "wireback", "rewire", "rewireback"} => s.n \in w.alive /\ s.m \in w.alive \cup {None}
  /\ s.k = "wire" => Going(w, mk, st, s.n) /\ (w.display = s.n => w.alive = {s.n})
  /\ s.k \in {"rewire", "rewireback"} =>
       (s.m # None => s.m = w.src[s.n] \/ (w.src[s.m] = None /\ s.m # s.n))
  /\ s.k \in {"name", "rename"} => s.n \in w.alive /\ s.m \in Name \cup {s.n} /\ Unnamed(w, s.n, s.m)
  /\ s.k = "name" => Going(w, mk, st, s.n)
  /\ s.k \in {"show", "select", "lock", "destroy"} => s.n \in w.alive
  /\ s.k = "show" =>
       \/ mk < Len(st) /\ Top(st).k = "show"
       \/ /\ Going(w, mk, st, s.n)
          /\ w.display = s.n \/ (mk < Len(st) - 1 /\ st[Len(st) - 1].k = "show")
  /\ s.k = "stray" => s.n \in w.alive /\ s.m \in {"look", "badge"} /\ s.v \in Value
  /\ s.k = "savelooks" => s.n \in w.alive \cup {None}
  /\ s.k = "select" => mk < Len(st) /\ Top(st).k = "select"
  /\ s.k = "lock" => s.n \notin w.locked
  /\ s.k = "unlock" => s.n \in w.locked
  /\ s.k = "destroy" => mk < Len(st) /\ Top(st).k = "fail"

\* A step, with what it registers, goes on from wherever a rollback would have gone.
Led(mk, w, st, s) ==
  \A lo \in 0 .. mk : \A b :
    Path(lo, b, w, st) => Path(lo, b, Effect(w, s), st \o Compensation(w, s))

\* A value captured inside a locked asset is one that cannot be put back.
Captive(w, s) == s.k = "save" /\ s.m = "inner" /\ s.n \in w.locked

Stands(mk, w, st, s) ==
  /\ NetOK(Effect(w, s))
  /\ st \o Compensation(w, s) \in Seq(Entry)
  /\ Losses(w, s) = {} /\ s.k \notin {"rewire", "doom"} /\ ~Captive(w, s) => Led(mk, w, st, s)

LEMMA Pushes ==
  ASSUME NEW mk \in Nat, NEW w, NetOK(w), NEW st \in Seq(Entry), NEW s, NetOK(Effect(w, s)),
         NEW e \in Entry, Compensation(w, s) = <<e>>,
         Losses(w, s) = {} /\ s.k # "doom" /\ ~Captive(w, s) => Linked(Effect(w, s), e, w)
  PROVE  Stands(mk, w, st, s)
<1>1. st \o <<e>> = Append(st, e) /\ Append(st, e) \in Seq(Entry)
  BY AppendProperties, AppendIsConcat
<1>2. Effect(w, s) \in Networks
  BY DEF NetOK
<1>3. ASSUME Losses(w, s) = {}, s.k # "doom", ~Captive(w, s) PROVE Led(mk, w, st, s)
  <2> SUFFICES ASSUME NEW lo \in 0 .. mk, NEW b, Path(lo, b, w, st)
               PROVE  Path(lo, b, Effect(w, s), Append(st, e))
    BY <1>1 DEF Led
  <2> QED
    BY <1>2, <1>3, PathPush
<1> QED
  BY <1>1, <1>3 DEF Stands

LEMMA Tops ==
  ASSUME NEW mk \in Nat, NEW w, NetOK(w), NEW st \in Seq(Entry), NEW s, NetOK(Effect(w, s)),
         Compensation(w, s) = <<>>,
         \/ Losses(w, s) # {} \/ s.k \in {"rewire", "doom"} \/ Effect(w, s) = w
         \/ mk < Len(st) /\ \A v : Linked(w, Top(st), v) => Linked(Effect(w, s), Top(st), v)
  PROVE  Stands(mk, w, st, s)
<1>1. st \o <<>> = st
  BY ConcatEmptySeq
<1>2. Effect(w, s) \in Networks
  BY DEF NetOK
<1>3. ASSUME Losses(w, s) = {}, s.k \notin {"rewire", "doom"} PROVE Led(mk, w, st, s)
  <2> SUFFICES ASSUME NEW lo \in 0 .. mk, NEW b, Path(lo, b, w, st)
               PROVE  Path(lo, b, Effect(w, s), st)
    BY <1>1 DEF Led
  <2>1. CASE Effect(w, s) = w
    BY <2>1
  <2>2. CASE mk < Len(st) /\ \A v : Linked(w, Top(st), v) => Linked(Effect(w, s), Top(st), v)
    <3>1. lo < Len(st) /\ lo \in Nat
      BY <2>2, LenProperties
    <3> HIDE DEF Linked
    <3> QED
      BY <1>2, <2>2, <3>1, PathTop
  <2> QED
    BY <1>3, <2>1, <2>2
<1> QED
  BY <1>1, <1>3 DEF Stands

LEMMA StepIn ==
  ASSUME NEW k \in EntryKinds, NEW n \in Node \cup {None}, NEW m \in Node \cup Name \cup Attr \cup {None},
         NEW v \in Contents, EntryOK(Step(k, n, m, v))
  PROVE  Step(k, n, m, v) \in Entry
<1>1. Step(k, n, m, v) \in Cell
  BY DEF Cell, Step, StepKinds
<1> QED
  BY <1>1 DEF Entry

LEMMA InContents == 0 \in Contents /\ Value \subseteq Contents /\ SUBSET Node \subseteq Contents
  BY DEF Contents, Value

LEMMA StandsKeep ==
  ASSUME NEW mk \in Nat, NEW w, NetOK(w), NEW st \in Seq(Entry), NEW s \in Cell, s.k = "keep"
  PROVE  Stands(mk, w, st, s)
<1>1. Effect(w, s) = w /\ Compensation(w, s) = KeepDisplay(w)
  BY DEF Effect, Compensation
<1>2. CASE w.display = None
  BY <1>1, <1>2, Tops DEF KeepDisplay
<1>3. CASE w.display # None
  <2> DEFINE e == Step("show", w.display, None, 0)
  <2>1. w.display \in w.alive /\ w.display \in Node /\ w \in Networks
    BY <1>3 DEF NetOK, Networks
  <2>2. EntryOK(e)
    BY <2>1 DEF EntryOK, EntryKinds, Step
  <2>3. e \in Entry
    BY <2>1, <2>2, StepIn, InContents DEF EntryKinds
  <2>4. Linked(w, e, w)
    BY <2>1, ShownOK DEF Linked, CanUndo, Undone, Effect, Step
  <2>5. Compensation(w, s) = <<e>>
    BY <1>1, <1>3 DEF KeepDisplay
  <2> QED
    BY <1>1, <2>3, <2>4, <2>5, Pushes
<1> QED
  BY <1>2, <1>3

LEMMA StandsSave ==
  ASSUME NEW mk \in Nat, NEW w, NetOK(w), NEW st \in Seq(Entry), NEW s \in Cell,
         s.k \in {"save", "putback"}, Fits(w, mk, st, s)
  PROVE  Stands(mk, w, st, s)
<1> DEFINE e == Step("put", s.n, s.m, w.attr[s.n][s.m])
<1>1. w \in Networks /\ s.n \in w.alive /\ s.n \in Node /\ s.m \in Attr
  BY DEF NetOK, Networks, Fits
<1>2. w.attr[s.n][s.m] \in Value
  BY <1>1 DEF Networks
<1>3. Compensation(w, s) = <<e>>
  BY DEF Compensation, Snapshot
<1>4. EntryOK(e)
  BY <1>1, <1>2 DEF EntryOK, EntryKinds, Step
<1>5. e \in Entry
  BY <1>1, <1>2, <1>4, StepIn, InContents DEF EntryKinds
<1>6. CASE s.k = "save"
  <2>1. Effect(w, s) = w
    BY <1>6 DEF Effect
  <2>2. Undone(w, e) = Valued(w, s.n, s.m, w.attr[s.n][s.m])
    BY DEF Undone, Effect, Step
  <2>3. Undone(w, e) = w
    BY <1>1, <1>2, <2>2, ValuedBack
  <2>4. ~Captive(w, s) => CanUndo(w, e)
    BY <1>1, <1>6 DEF Captive, CanUndo, Step
  <2>5. ~Captive(w, s) => Linked(w, e, w)
    BY <2>3, <2>4 DEF Linked
  <2> QED
    BY <1>3, <1>5, <2>1, <2>5, Pushes
<1>7. CASE s.k = "putback"
  <2>1. Effect(w, s) = Valued(w, s.n, s.m, s.v)
    BY <1>7 DEF Effect
  <2>2. s.m # "inner" /\ s.v \in Value
    BY <1>7 DEF Fits
  <2>3. NetOK(Effect(w, s))
    BY <1>1, <2>1, <2>2, ValuedOK
  <2>4. Undone(Effect(w, s), e) = Valued(Valued(w, s.n, s.m, s.v), s.n, s.m, w.attr[s.n][s.m])
    BY <2>1 DEF Undone, Effect, Step
  <2>5. Undone(Effect(w, s), e) = w
    BY <1>1, <1>2, <2>2, <2>4, ValuedBack
  <2>6. s.n \in Valued(w, s.n, s.m, s.v).alive
    BY <1>1, <2>2, ValuedIs
  <2>7. CanUndo(Effect(w, s), e)
    BY <2>1, <2>2, <2>6 DEF CanUndo, Step
  <2>8. Linked(Effect(w, s), e, w)
    BY <2>5, <2>7 DEF Linked
  <2> QED
    BY <1>3, <1>5, <2>3, <2>8, Pushes
<1> QED
  BY <1>6, <1>7

LEMMA StandsNew ==
  ASSUME NEW mk \in Nat, NEW w, NetOK(w), NEW st \in Seq(Entry), NEW s \in Cell,
         s.k \in {"new", "copy", "fill"}, Fits(w, mk, st, s)
  PROVE  Stands(mk, w, st, s)
<1> DEFINE u == Effect(w, s)
<1>1. s.n \in Node \ w.alive
  BY DEF Fits
<1>2. NetOK(u) /\ Destroyed(u, s.n) = w /\ s.n \in u.alive
  <2>1. CASE s.k = "new"
    <3>1. u = Created(w, s.n, s.m) /\ s.m \in Name /\ Unnamed(w, s.n, s.m)
      BY <2>1 DEF Effect, Fits
    <3>2. s.n \in Created(w, s.n, s.m).alive
      BY DEF Created, NetOK, Networks
    <3> QED
      BY <1>1, <3>1, <3>2, CreatedOK
  <2>2. CASE s.k = "fill"
    <3>1. u = Valued(Created(w, s.n, s.m), s.n, "parm", s.v)
      BY <2>2 DEF Effect
    <3>2. s.m \in Name /\ Unnamed(w, s.n, s.m) /\ s.v \in Value
      BY <2>2 DEF Fits
    <3>3. /\ NetOK(Valued(Created(w, s.n, s.m), s.n, "parm", s.v))
          /\ Destroyed(Valued(Created(w, s.n, s.m), s.n, "parm", s.v), s.n) = w
          /\ Valued(Created(w, s.n, s.m), s.n, "parm", s.v).alive = w.alive \cup {s.n}
      <4> DEFINE n == s.n
                 x == s.m
                 y == s.v
      <4>1. n \in Node \ w.alive /\ x \in Name /\ Unnamed(w, n, x) /\ y \in Value
        BY <1>1, <3>2
      <4> HIDE DEF n, x, y
      <4>2. /\ NetOK(Valued(Created(w, n, x), n, "parm", y))
            /\ Destroyed(Valued(Created(w, n, x), n, "parm", y), n) = w
            /\ Valued(Created(w, n, x), n, "parm", y).alive = w.alive \cup {n}
        BY <4>1, FilledOK
      <4> QED
        BY <4>2 DEF n, x, y
    <3> HIDE DEF u
    <3> QED
      BY <3>1, <3>3
  <2>3. CASE s.k = "copy"
    <3>1. u = Effect(w, Step("copy", s.n, s.m, s.v)) /\ s.m \in w.alive
      BY <2>3 DEF Effect, Fits, Step
    <3>2. /\ NetOK(Effect(w, Step("copy", s.n, s.m, s.v)))
          /\ Destroyed(Effect(w, Step("copy", s.n, s.m, s.v)), s.n) = w
          /\ Effect(w, Step("copy", s.n, s.m, s.v)).alive = w.alive \cup {s.n}
      <4> DEFINE n == s.n
                 m == s.m
                 y == s.v
      <4>1. n \in Node \ w.alive /\ m \in w.alive
        BY <1>1, <3>1
      <4> HIDE DEF n, m, y
      <4>2. /\ NetOK(Effect(w, Step("copy", n, m, y)))
            /\ Destroyed(Effect(w, Step("copy", n, m, y)), n) = w
            /\ Effect(w, Step("copy", n, m, y)).alive = w.alive \cup {n}
        BY <4>1, CopiedOK
      <4> QED
        BY <4>2 DEF n, m, y
    <3> HIDE DEF u
    <3> QED
      BY <3>1, <3>2
  <2> QED
    BY <2>1, <2>2, <2>3
<1>3. PICK k \in {"destroy", "destroylater"} : Compensation(w, s) = <<Step(k, s.n, None, 0)>>
  BY DEF Compensation, DestroyLater
<1> DEFINE e == Step(k, s.n, None, 0)
<1>4. EntryOK(e)
  BY <1>1 DEF EntryOK, EntryKinds, Step
<1>5. e \in Entry
  BY <1>1, <1>4, StepIn, InContents DEF EntryKinds
<1>6. Linked(u, e, w)
  BY <1>2 DEF Linked, CanUndo, Undone, Step
<1> QED
  BY <1>2, <1>3, <1>5, <1>6, Pushes

\* What is done to a node that goes away needs no entry of its own.
LEMMA StandsGoing ==
  ASSUME NEW mk \in Nat, NEW w, NetOK(w), NEW st \in Seq(Entry), NEW s \in Cell,
         Compensation(w, s) = <<>>, NEW n \in w.alive, Going(w, mk, st, n), NetOK(Effect(w, s)),
         LET u == Effect(w, s)
         IN  /\ u.alive = w.alive /\ u.sel = w.sel /\ u.display = w.display /\ u.locked = w.locked
             /\ \A m \in Node \ {n} : u.name[m] = w.name[m] /\ u.src[m] = w.src[m] /\ u.attr[m] = w.attr[m]
             /\ Alone(u, n) /\ (w.display = n => u.src[n] = w.src[n])
  PROVE  Stands(mk, w, st, s)
<1> DEFINE u == Effect(w, s)
<1> HIDE DEF u
<1>1. u \in Networks /\ w \in Networks /\ n \in Node
  BY DEF NetOK, Networks, u
<1>2. /\ u.alive = w.alive /\ u.sel = w.sel /\ u.display = w.display /\ u.locked \ {n} = w.locked \ {n}
      /\ \A m \in Node \ {n} : u.name[m] = w.name[m] /\ u.src[m] = w.src[m] /\ u.attr[m] = w.attr[m]
      /\ \A m \in Node : w.src[m] # n /\ u.src[m] # n
      /\ w.display = n => u.src[n] = w.src[n]
  BY DEF Going, Alone, u
<1>3. Destroyed(u, n) = Destroyed(w, n)
  BY <1>1, <1>2, SameGone
<1>4. mk < Len(st) /\ \A v : Linked(w, Top(st), v) => Linked(u, Top(st), v)
  BY <1>2, <1>3 DEF Going, Linked, CanUndo, Undone
<1> QED
  BY <1>4, Tops DEF u

LEMMA StandsPut ==
  ASSUME NEW mk \in Nat, NEW w, NetOK(w), NEW st \in Seq(Entry), NEW s \in Cell,
         s.k = "put", Fits(w, mk, st, s), CanStep(w, s)
  PROVE  Stands(mk, w, st, s)
<1> DEFINE u == Effect(w, s)
<1>1. /\ w \in Networks /\ s.n \in w.alive /\ s.n \in Node /\ s.m \in Attr /\ s.v \in Value
      /\ s.m = "inner" => s.n \notin w.locked
  BY DEF NetOK, Networks, Fits, CanStep
<1>2. u = Valued(w, s.n, s.m, s.v) /\ Compensation(w, s) = <<>>
  BY DEF Effect, Compensation
<1>3. NetOK(u)
  BY <1>1, <1>2, ValuedOK
<1>4. /\ u.alive = w.alive /\ u.name = w.name /\ u.src = w.src /\ u.display = w.display
      /\ u.sel = w.sel /\ u.locked = w.locked
      /\ \A m \in Node \ {s.n} : u.attr[m] = w.attr[m]
  BY <1>1, <1>2, ValuedIs
<1> HIDE DEF u
<1>5. CASE Going(w, mk, st, s.n)
  <2>1. Alone(u, s.n)
    BY <1>4, <1>5 DEF Going, Alone
  <2> QED
    BY <1>1, <1>2, <1>3, <1>4, <1>5, <2>1, StandsGoing DEF u
<1>6. CASE mk < Len(st) /\ Top(st).k = "put" /\ Top(st).n = s.n /\ Top(st).m = s.m
  <2> DEFINE e == Top(st)
  <2>1. e \in Entry
    BY <1>6, LenProperties, ElementOfSeq DEF Top
  <2>2. e.v \in Value
    BY <1>6, <2>1 DEF Entry, EntryOK
  <2>3. Undone(u, e) = Valued(u, s.n, s.m, e.v) /\ Undone(w, e) = Valued(w, s.n, s.m, e.v)
    BY <1>6 DEF Undone, Effect
  <2>4. Undone(u, e) = Undone(w, e)
    BY <1>1, <1>2, <2>2, <2>3, ValuedBack
  <2>5. CanUndo(w, e) => CanUndo(u, e)
    BY <1>4, <1>6 DEF CanUndo
  <2>6. \A v : Linked(w, e, v) => Linked(u, e, v)
    BY <2>4, <2>5 DEF Linked
  <2> QED
    BY <1>2, <1>3, <1>6, <2>6, Tops DEF u
<1>7. CASE mk < Len(st) /\ Top(st).k = "looks" /\ s.n \in DOMAIN Top(st).v /\ s.m = "look"
  <2> DEFINE e == Top(st)
             D == DOMAIN e.v
  <2>1. e \in Entry
    BY <1>7, LenProperties, ElementOfSeq DEF Top
  <2>2. D \in SUBSET Node /\ e.v \in [D -> Value] /\ s.n \in D
    BY <1>7, <2>1 DEF Entry, EntryOK
  <2>3. Undone(u, e) = Looked(u, e.v) /\ Undone(w, e) = Looked(w, e.v)
    BY <1>7 DEF Undone, Looked
  <2> HIDE DEF D
  <2>4. Undone(u, e) = Undone(w, e)
    BY <1>1, <1>2, <1>7, <2>2, <2>3, LookedSame
  <2>5. CanUndo(w, e) => CanUndo(u, e)
    BY <1>4, <1>7 DEF CanUndo
  <2>6. \A v : Linked(w, e, v) => Linked(u, e, v)
    BY <2>4, <2>5 DEF Linked
  <2> QED
    BY <1>2, <1>3, <1>7, <2>6, Tops DEF u
<1> QED
  BY <1>5, <1>6, <1>7 DEF Fits

LEMMA StandsWire ==
  ASSUME NEW mk \in Nat, NEW w, NetOK(w), NEW st \in Seq(Entry), NEW s \in Cell,
         s.k = "wire", Fits(w, mk, st, s), CanStep(w, s)
  PROVE  Stands(mk, w, st, s)
<1> DEFINE u == Effect(w, s)
<1>1. /\ w \in Networks /\ s.n \in w.alive /\ s.n \in Node /\ s.m \in w.alive \cup {None}
      /\ CanWire(w, s.n, s.m) /\ Going(w, mk, st, s.n) /\ (w.display = s.n => w.alive = {s.n})
  BY DEF NetOK, Networks, Fits, CanStep
<1>2. u = Wired(w, s.n, s.m) /\ Compensation(w, s) = <<>>
  BY DEF Effect, Compensation
<1>3. NetOK(u)
  BY <1>1, <1>2, RewireBack
<1>4. /\ u.alive = w.alive /\ u.name = w.name /\ u.attr = w.attr /\ u.display = w.display
      /\ u.sel = w.sel /\ u.locked = w.locked
      /\ u.src[s.n] = s.m /\ \A m \in Node \ {s.n} : u.src[m] = w.src[m]
  BY <1>1, <1>2 DEF Wired, Networks
<1> HIDE DEF u
<1>5. s.m # s.n
  BY <1>1, NotNone DEF CanWire, CanFeed
<1>6. Alone(u, s.n)
  BY <1>1, <1>4, <1>5 DEF Going, Alone
<1>7. w.display = s.n => u.src[s.n] = w.src[s.n]
  <2> SUFFICES ASSUME w.display = s.n PROVE u.src[s.n] = w.src[s.n]
    OBVIOUS
  <2>1. w.alive = {s.n} /\ s.m = None
    BY <1>1, <1>5
  <2>2. w.src[s.n] \in w.alive \cup {None} /\ w.src[s.n] # s.n
    BY <1>1 DEF NetOK, Going, Alone
  <2> QED
    BY <1>4, <2>1, <2>2
<1>8. /\ u.alive = w.alive /\ u.sel = w.sel /\ u.display = w.display /\ u.locked = w.locked
      /\ \A m \in Node \ {s.n} : u.name[m] = w.name[m] /\ u.src[m] = w.src[m] /\ u.attr[m] = w.attr[m]
  BY <1>4
<1> QED
  BY <1>1, <1>2, <1>3, <1>6, <1>7, <1>8, StandsGoing DEF u

LEMMA StandsName ==
  ASSUME NEW mk \in Nat, NEW w, NetOK(w), NEW st \in Seq(Entry), NEW s \in Cell,
         s.k = "name", Fits(w, mk, st, s)
  PROVE  Stands(mk, w, st, s)
<1> DEFINE u == Effect(w, s)
<1>1. /\ w \in Networks /\ s.n \in w.alive /\ s.n \in Node /\ s.m \in Name \cup {s.n}
      /\ Unnamed(w, s.n, s.m) /\ Going(w, mk, st, s.n)
  BY DEF NetOK, Networks, Fits
<1>2. u = Named(w, s.n, s.m) /\ Compensation(w, s) = <<>>
  BY DEF Effect, Compensation
<1>3. NetOK(u)
  BY <1>1, <1>2, NamedOK
<1>4. /\ u.alive = w.alive /\ u.src = w.src /\ u.attr = w.attr /\ u.display = w.display
      /\ u.sel = w.sel /\ u.locked = w.locked
      /\ \A m \in Node \ {s.n} : u.name[m] = w.name[m]
  BY <1>1, <1>2 DEF Named, Networks
<1> HIDE DEF u
<1>5. Alone(u, s.n)
  BY <1>1, <1>4 DEF Going, Alone
<1>6. /\ u.alive = w.alive /\ u.sel = w.sel /\ u.display = w.display /\ u.locked = w.locked
      /\ \A m \in Node \ {s.n} : u.name[m] = w.name[m] /\ u.src[m] = w.src[m] /\ u.attr[m] = w.attr[m]
      /\ u.src[s.n] = w.src[s.n]
  BY <1>4
<1> QED
  BY <1>1, <1>2, <1>3, <1>5, <1>6, StandsGoing DEF u

LEMMA StandsWireback ==
  ASSUME NEW mk \in Nat, NEW w, NetOK(w), NEW st \in Seq(Entry), NEW s \in Cell,
         s.k = "wireback", Fits(w, mk, st, s), CanStep(w, s)
  PROVE  Stands(mk, w, st, s)
<1> DEFINE u == Effect(w, s)
           e == Step("wire", s.n, w.src[s.n], 0)
<1>1. /\ w \in Networks /\ s.n \in w.alive /\ s.n \in Node /\ s.m \in w.alive \cup {None}
      /\ CanWire(w, s.n, s.m) /\ w.src[s.n] \in w.alive \cup {None} /\ w.src[s.n] \in Node \cup {None}
  BY DEF NetOK, Networks, Fits, CanStep
<1>2. u = Wired(w, s.n, s.m) /\ Compensation(w, s) = <<e>>
  BY DEF Effect, Compensation, WireBack
<1>3. NetOK(u) /\ CanWire(u, s.n, w.src[s.n]) /\ Wired(u, s.n, w.src[s.n]) = w
  BY <1>1, <1>2, RewireBack
<1>4. u.alive = w.alive
  BY <1>2 DEF Wired, NetOK, Networks
<1> HIDE DEF u
<1>5. EntryOK(e)
  BY <1>1 DEF EntryOK, EntryKinds, Step
<1>6. e \in Entry
  BY <1>1, <1>5, StepIn, InContents DEF EntryKinds
<1>7. Linked(u, e, w)
  BY <1>1, <1>3, <1>4 DEF Linked, CanUndo, Undone, Effect, Step
<1> QED
  BY <1>2, <1>3, <1>6, <1>7, Pushes DEF u

LEMMA StandsRewire ==
  ASSUME NEW mk \in Nat, NEW w, NetOK(w), NEW st \in Seq(Entry), NEW s \in Cell,
         s.k \in {"rewire", "rewireback"}, Fits(w, mk, st, s)
  PROVE  Stands(mk, w, st, s)
<1> DEFINE u == Effect(w, s)
           ds == Consumers(w, s.n)
           e == Step("feed", s.n, None, ds)
<1>1. /\ w \in Networks /\ s.n \in w.alive /\ s.n \in Node /\ s.m \in w.alive \cup {None}
      /\ s.m # None => s.m = w.src[s.n] \/ (w.src[s.m] = None /\ s.m # s.n)
  BY DEF NetOK, Networks, Fits
<1>2. u = Rewired(w, s.n, s.m)
  BY DEF Effect
<1>3. /\ NetOK(u) /\ ds \subseteq w.alive /\ CanFeed(u, ds, s.n) /\ Fed(u, ds, s.n) = w
  BY <1>1, <1>2, RewiredOK
<1>4. CASE s.k = "rewire"
  BY <1>3, <1>4, Tops DEF Compensation
<1>5. CASE s.k = "rewireback"
  <2>1. Compensation(w, s) = <<e>>
    BY <1>5 DEF Compensation
  <2>2. u.alive = w.alive
    BY <1>2 DEF Rewired, NetOK, Networks
  <2>3. ds \in SUBSET Node
    BY <1>1, <1>3 DEF Networks
  <2> HIDE DEF u, ds
  <2>4. EntryOK(e)
    BY <1>1, <2>3 DEF EntryOK, EntryKinds, Step
  <2>5. e \in Entry
    BY <1>1, <2>3, <2>4, StepIn, InContents DEF EntryKinds
  <2>6. CanUndo(u, e)
    BY <1>1, <1>3, <2>2 DEF CanUndo, Step
  <2>7. Undone(u, e) = Fed(u, ds, s.n)
    BY DEF Undone, Step, Fed
  <2>8. Linked(u, e, w)
    BY <1>3, <2>6, <2>7 DEF Linked
  <2> QED
    BY <1>3, <2>1, <2>5, <2>8, Pushes DEF u
<1> QED
  BY <1>4, <1>5

LEMMA StandsRename ==
  ASSUME NEW mk \in Nat, NEW w, NetOK(w), NEW st \in Seq(Entry), NEW s \in Cell,
         s.k = "rename", Fits(w, mk, st, s)
  PROVE  Stands(mk, w, st, s)
<1> DEFINE u == Effect(w, s)
           e == Step("name", s.n, w.name[s.n], 0)
<1>1. /\ w \in Networks /\ s.n \in w.alive /\ s.n \in Node /\ s.m \in Name \cup {s.n}
      /\ Unnamed(w, s.n, s.m)
  BY DEF NetOK, Networks, Fits
<1>2. w.name[s.n] \in Name \cup {s.n} /\ \A m \in w.alive \ {s.n} : w.name[m] # w.name[s.n]
  BY <1>1 DEF NetOK, NamesOK
<1>3. u = Named(w, s.n, s.m) /\ Compensation(w, s) = <<e>>
  BY DEF Effect, Compensation
<1>4. NetOK(u) /\ Named(u, s.n, w.name[s.n]) = w
  BY <1>1, <1>3, NamedOK, NamedBack
<1>5. u.alive = w.alive /\ \A m \in Node \ {s.n} : u.name[m] = w.name[m]
  BY <1>1, <1>3 DEF Named, Networks
<1> HIDE DEF u
<1>6. EntryOK(e)
  BY <1>1, <1>2 DEF EntryOK, EntryKinds, Step
<1>7. e \in Entry
  BY <1>1, <1>2, <1>6, StepIn, InContents DEF EntryKinds
<1>8. CanUndo(u, e)
  <2>1. \A m \in u.alive \ {s.n} : u.name[m] # w.name[s.n]
    BY <1>1, <1>2, <1>5 DEF Networks
  <2> QED
    BY <1>1, <1>5, <2>1 DEF CanUndo, Step
<1>9. Undone(u, e) = Named(u, s.n, w.name[s.n])
  BY DEF Undone, Effect, Step
<1>10. Linked(u, e, w)
  BY <1>4, <1>8, <1>9 DEF Linked
<1> QED
  BY <1>3, <1>4, <1>7, <1>10, Pushes DEF u

LEMMA StandsLock ==
  ASSUME NEW mk \in Nat, NEW w, NetOK(w), NEW st \in Seq(Entry), NEW s \in Cell,
         s.k \in {"lock", "unlock"}, Fits(w, mk, st, s)
  PROVE  Stands(mk, w, st, s)
<1> DEFINE u == Effect(w, s)
           k == IF s.k = "lock" THEN "unlock" ELSE "lock"
           e == Step(k, s.n, None, 0)
<1>1. /\ w \in Networks /\ s.n \in w.alive /\ s.n \in Node
      /\ s.k = "lock" <=> s.n \notin w.locked
  BY DEF NetOK, Networks, Fits
<1>2. u = (IF s.k = "lock" THEN Matched(w, s.n) ELSE Unlocked(w, s.n)) /\ Compensation(w, s) = <<e>>
  BY DEF Effect, Compensation
<1>3. NetOK(u)
  BY <1>1, <1>2, MatchedOK, UnlockedOK
<1>4. u.alive = w.alive
  BY <1>1, <1>2 DEF Matched, Unlocked, Networks
<1>5. Losses(w, s) = {} => w.attr[s.n]["inner"] = 0
  BY <1>1 DEF Losses, NetOK
<1>6. Undone(u, e) = IF s.k = "lock" THEN Unlocked(u, s.n) ELSE Matched(u, s.n)
  BY DEF Undone, Effect, Step
<1>7. Losses(w, s) = {} => Undone(u, e) = w
  BY <1>1, <1>2, <1>5, <1>6, LockBack
<1> HIDE DEF u
<1>8. CanUndo(u, e)
  BY <1>1, <1>4 DEF CanUndo, Step
<1>9. EntryOK(e) /\ k \in EntryKinds
  BY <1>1 DEF EntryOK, EntryKinds, Step
<1> HIDE DEF k
<1>10. e \in Entry
  BY <1>1, <1>9, StepIn, InContents
<1>11. Losses(w, s) = {} => Linked(u, e, w)
  BY <1>7, <1>8 DEF Linked
<1> QED
  BY <1>2, <1>3, <1>10, <1>11, Pushes DEF u

LEMMA StandsShow ==
  ASSUME NEW mk \in Nat, NEW w, NetOK(w), NEW st \in Seq(Entry), NEW s \in Cell,
         s.k = "show", Fits(w, mk, st, s)
  PROVE  Stands(mk, w, st, s)
<1> DEFINE u == Effect(w, s)
           n == s.n
<1>1. w \in Networks /\ n \in w.alive /\ n \in Node /\ w.alive \subseteq Node
  BY DEF NetOK, Networks, Fits
<1>2. u = Shown(w, n) /\ Compensation(w, s) = <<>>
  BY DEF Effect, Compensation
<1>3. NetOK(u) /\ \A m : Shown(u, m) = Shown(w, m)
  BY <1>1, <1>2, ShownOK
<1>4. /\ u.alive = w.alive /\ u.name = w.name /\ u.src = w.src /\ u.attr = w.attr
      /\ u.sel = w.sel /\ u.locked = w.locked /\ u.display = n
      /\ u \in Networks
  BY <1>1, <1>2 DEF Shown, Networks
<1> HIDE DEF u, n
<1>5. CASE mk < Len(st) /\ Top(st).k = "show"
  <2>1. \A v : Linked(w, Top(st), v) => Linked(u, Top(st), v)
    BY <1>3, <1>4, <1>5 DEF Linked, CanUndo, Undone, Effect
  <2> QED
    BY <1>2, <1>3, <1>5, <2>1, Tops DEF u
<1>6. CASE Going(w, mk, st, n) /\ w.display = n
  <2>1. u = w
    BY <1>1, <1>2, <1>4, <1>6, SameNetwork
  <2> QED
    BY <1>2, <1>3, <2>1, Tops DEF u
<1>7. CASE Going(w, mk, st, n) /\ mk < Len(st) - 1 /\ st[Len(st) - 1].k = "show"
  <2>1. st \o <<>> = st
    BY ConcatEmptySeq
  <2> SUFFICES ASSUME NEW lo \in 0 .. mk, NEW b, Path(lo, b, w, st)
               PROVE  Path(lo, b, u, st)
    BY <1>2, <1>3, <2>1 DEF Stands, Led, u
  <2> DEFINE v == Destroyed(w, n)
             y == Destroyed(u, n)
  <2>2. NetOK(v) /\ NetOK(y)
    BY <1>1, <1>3, <1>4, DestroyedOK
  <2>3. v.alive = y.alive /\ \A m : Shown(y, m) = Shown(v, m)
    <3>1. /\ v.alive = y.alive /\ v.name = y.name /\ v.src = y.src /\ v.attr = y.attr
          /\ v.sel = y.sel /\ v.locked = y.locked
      BY <1>4 DEF Destroyed
    <3>2. v \in Networks /\ y \in Networks
      BY <2>2 DEF NetOK
    <3> HIDE DEF v, y
    <3> QED
      BY <3>1, <3>2 DEF Shown, Networks
  <2> HIDE DEF v, y
  <2>4. /\ Linked(u, Top(st), y)
        /\ \A x : Linked(w, Top(st), x) => x = v
    BY <1>1, <1>4, <1>7 DEF Going, Linked, CanUndo, Undone, v, y
  <2>5. \A x : Linked(v, st[Len(st) - 1], x) => Linked(y, st[Len(st) - 1], x)
    BY <1>7, <2>3 DEF Linked, CanUndo, Undone, Effect
  <2>6. y \in Networks
    BY <2>2 DEF NetOK
  <2>7. Len(st) \in Nat /\ lo \in Nat /\ lo < Len(st) - 1
    BY <1>7, LenProperties
  <2>8. \A z \in Networks : Linked(w, Top(st), z) =>
          \E t \in Networks :
            /\ Linked(u, Top(st), t)
            /\ \A x : Linked(z, st[Len(st) - 1], x) => Linked(t, st[Len(st) - 1], x)
    BY <2>4, <2>5, <2>6
  <2> QED
    BY <1>4, <2>7, <2>8, PathTwo
<1> QED
  BY <1>5, <1>6, <1>7 DEF Fits, n

LEMMA StandsSelect ==
  ASSUME NEW mk \in Nat, NEW w, NetOK(w), NEW st \in Seq(Entry), NEW s \in Cell,
         s.k = "select", Fits(w, mk, st, s)
  PROVE  Stands(mk, w, st, s)
<1> DEFINE u == Effect(w, s)
<1>1. w \in Networks /\ s.n \in w.alive /\ mk < Len(st) /\ Top(st).k = "select"
  BY DEF NetOK, Fits
<1>2. u = Selected(w, s.n) /\ Compensation(w, s) = <<>>
  BY DEF Effect, Compensation
<1>3. NetOK(u) /\ \A m : Selected(u, m) = Selected(w, m)
  BY <1>1, <1>2, SelectedOK
<1>4. u.alive = w.alive
  BY <1>1, <1>2 DEF Selected, Networks
<1> HIDE DEF u
<1>5. \A v : Linked(w, Top(st), v) => Linked(u, Top(st), v)
  BY <1>1, <1>3, <1>4 DEF Linked, CanUndo, Undone
<1> QED
  BY <1>1, <1>2, <1>3, <1>5, Tops DEF u

LEMMA StandsSaves ==
  ASSUME NEW mk \in Nat, NEW w, NetOK(w), NEW st \in Seq(Entry), NEW s \in Cell,
         s.k \in {"savelooks", "savesel"}, Fits(w, mk, st, s)
  PROVE  Stands(mk, w, st, s)
<1>1. Effect(w, s) = w
  BY DEF Effect
<1>2. w \in Networks /\ w.alive \in SUBSET Node /\ w.sel \in w.alive \cup {None} /\ w.sel \in Node \cup {None}
  BY DEF NetOK, Networks
<1>3. CASE s.k = "savelooks"
  <2> DEFINE D == IF s.n = None THEN w.alive ELSE {s.n}
             x == [n \in D |-> w.attr[n]["look"]]
             e == Step("looks", None, None, x)
  <2>0. D \in SUBSET Node /\ D \subseteq w.alive
    BY <1>2, <1>3 DEF Fits
  <2>1. x \in [D -> Value] /\ Looked(w, x) = w /\ D \in SUBSET Node
    BY <1>2, <2>0, LookedBack
  <2>2. Compensation(w, s) = <<e>>
    BY <1>3 DEF Compensation
  <2> HIDE DEF x, D
  <2>3. x \in Contents /\ DOMAIN x = D
    <3>1. DOMAIN x = D
      BY <2>1
    <3>2. x \in LookMaps
      BY <2>1 DEF LookMaps
    <3>3. LookMaps \subseteq Contents
      BY DEF Contents
    <3> QED
      BY <3>1, <3>2, <3>3
  <2>4. EntryOK(e)
    BY <2>1, <2>3 DEF EntryOK, EntryKinds, Step
  <2>5. e \in Entry
    BY <2>3, <2>4, StepIn DEF EntryKinds
  <2>6. CanUndo(w, e)
    BY <2>0, <2>3 DEF CanUndo, Step
  <2>7. Undone(w, e) = Looked(w, x)
    BY DEF Undone, Step, Looked
  <2>8. Linked(w, e, w)
    BY <2>1, <2>6, <2>7 DEF Linked
  <2> QED
    BY <1>1, <2>2, <2>5, <2>8, Pushes
<1>4. CASE s.k = "savesel"
  <2> DEFINE e == Step("select", w.sel, None, 0)
  <2>1. Compensation(w, s) = <<e>>
    BY <1>4 DEF Compensation
  <2>2. EntryOK(e)
    BY <1>2 DEF EntryOK, EntryKinds, Step
  <2>3. e \in Entry
    BY <1>2, <2>2, StepIn, InContents DEF EntryKinds
  <2>4. Selected(w, w.sel) = w
    BY <1>2, SelectedOK
  <2>5. Linked(w, e, w)
    BY <1>2, <2>4 DEF Linked, CanUndo, Undone, Step
  <2> QED
    BY <1>1, <2>1, <2>3, <2>5, Pushes
<1> QED
  BY <1>3, <1>4

LEMMA StandsRest ==
  ASSUME NEW mk \in Nat, NEW w, NetOK(w), NEW st \in Seq(Entry), NEW s \in Cell,
         s.k \in {"verify", "press", "doom", "destroy", "stray"}, Fits(w, mk, st, s)
  PROVE  Stands(mk, w, st, s)
<1>1. CASE s.k \in {"verify", "press"}
  BY <1>1, Tops DEF Effect, Compensation
<1>2. CASE s.k = "doom"
  <2> DEFINE e == Step("fail", None, None, 0)
  <2>1. Effect(w, s) = w /\ Compensation(w, s) = <<e>>
    BY <1>2 DEF Effect, Compensation
  <2>2. EntryOK(e)
    BY DEF EntryOK, EntryKinds, Step
  <2>3. e \in Entry
    BY <2>2, StepIn, InContents DEF EntryKinds
  <2> QED
    BY <1>2, <2>1, <2>3, Pushes
<1>3. CASE s.k = "destroy"
  <2>1. Effect(w, s) = Destroyed(w, s.n) /\ Compensation(w, s) = <<>> /\ s.n \in w.alive
    BY <1>3 DEF Effect, Compensation, Fits
  <2>2. mk < Len(st) /\ \A v : Linked(w, Top(st), v) => Linked(Effect(w, s), Top(st), v)
    BY <1>3 DEF Fits, Linked
  <2> QED
    BY <2>1, <2>2, DestroyedOK, Tops
<1>4. CASE s.k = "stray"
  <2>1. /\ Effect(w, s) = Valued(w, s.n, s.m, s.v) /\ Compensation(w, s) = <<>>
        /\ s.n \in w.alive /\ s.m \in {"look", "badge"} /\ s.v \in Value
    BY <1>4 DEF Effect, Compensation, Fits
  <2>2. s.m \in Attr /\ s.m # "inner"
    BY <2>1, Values
  <2>3. NetOK(Effect(w, s))
    BY <2>1, <2>2, ValuedOK
  <2>4. w.attr[s.n][s.m] = s.v => Effect(w, s) = w
    <3>1. w \in Networks /\ s.n \in Node
      BY <2>1 DEF NetOK, Networks
    <3>2. Valued(w, s.n, s.m, w.attr[s.n][s.m]) = w
      BY <2>1, <2>2, <3>1, ValuedBack
    <3> QED
      BY <2>1, <3>2
  <2>5. w.attr[s.n][s.m] # s.v => Losses(w, s) # {}
    BY <1>4 DEF Losses
  <2> QED
    BY <2>1, <2>3, <2>4, <2>5, Tops
<1> QED
  BY <1>1, <1>2, <1>3, <1>4

\* Every step that fits leaves a network that is one, and can be taken back.
LEMMA StepStands ==
  ASSUME NEW mk \in Nat, NEW w, NetOK(w), NEW st \in Seq(Entry), NEW s \in Cell,
         Fits(w, mk, st, s), CanStep(w, s)
  PROVE  Stands(mk, w, st, s)
<1>1. CASE s.k \in {"keep", "savelooks", "savesel"}
  BY <1>1, StandsKeep, StandsSaves
<1>2. CASE s.k \in {"save", "putback", "put"}
  BY <1>2, StandsSave, StandsPut
<1>3. CASE s.k \in {"new", "copy", "fill"}
  BY <1>3, StandsNew
<1>4. CASE s.k \in {"wire", "wireback", "rewire", "rewireback"}
  BY <1>4, StandsWire, StandsWireback, StandsRewire
<1>5. CASE s.k \in {"name", "rename"}
  BY <1>5, StandsName, StandsRename
<1>6. CASE s.k \in {"show", "select", "lock", "unlock"}
  BY <1>6, StandsShow, StandsSelect, StandsLock
<1>7. CASE s.k \in {"verify", "press", "doom", "destroy", "stray"}
  BY <1>7, StandsRest
<1> QED
  BY <1>1, <1>2, <1>3, <1>4, <1>5, <1>6, <1>7 DEF Fits, RunKinds

-----------------------------------------------------------------------------
(* The script of the op running now, per kind of op: which steps it has left, and what of the     *)
(* network and of the rollback they can count on.                                                 *)

\* The steps left are among these.
Among(sc, steps) == \A i \in DOMAIN sc : sc[i] \in steps
Left(sc, k) == \E i \in DOMAIN sc : sc[i].k = k
\* A step of kind k comes right after one of kind j, or is next and fact holds.
After(sc, k, j, fact) ==
  \A i \in DOMAIN sc : sc[i].k = k => (i = 1 /\ fact) \/ (i > 1 /\ sc[i - 1].k = j)
TopIs(mk, st, k) == mk < Len(st) /\ Top(st).k = k

DoingConnect(o, w, sc) ==
  /\ o.n \in w.alive /\ o.m \in w.alive \cup {None}
  /\ Among(sc, {Step("wireback", o.n, o.m, 0)})

DoingSet(o, mk, w, st, sc) ==
  /\ o.n \in w.alive /\ o.v \in Value
  /\ Among(sc, {Step("save", o.n, "parm", 0), Step("put", o.n, "parm", o.v),
                Step("save", o.n, "inner", 0), Step("put", o.n, "inner", o.v),
                Step("press", o.n, None, 0)})
  /\ \A i \in DOMAIN sc :
       /\ sc[i].k = "save" => i < Len(sc) /\ sc[i + 1].k = "put" /\ sc[i + 1].m = sc[i].m
       /\ sc[i].k = "put" =>
            \/ i = 1 /\ TopIs(mk, st, "put") /\ Top(st).n = o.n /\ Top(st).m = sc[1].m
            \/ i > 1 /\ sc[i - 1].k = "save"

DoingLayout(o, mk, w, st, sc) ==
  /\ o.n \in w.alive /\ o.v \in Value
  /\ Among(sc, {Step("savelooks", None, None, 0), Step("savelooks", o.n, None, 0),
                Step("put", o.n, "look", o.v), Step("stray", o.m, "look", o.v)})
  /\ After(sc, "put", "savelooks", TopIs(mk, st, "looks") /\ o.n \in DOMAIN Top(st).v)
  /\ \A i \in DOMAIN sc : sc[i].k = "stray" => o.m \in w.alive

DoingSelect(o, mk, w, st, sc) ==
  /\ o.n \in w.alive
  /\ Among(sc, {Step("savesel", None, None, 0), Step("select", o.n, None, 0)})
  /\ After(sc, "select", "savesel", TopIs(mk, st, "select"))

DoingNode(o, mk, w, st, sc) ==
  /\ o.n \in w.alive /\ o.v \in Value
  /\ Among(sc, {Step("rename", o.n, o.x, 0), Step("keep", None, None, 0),
                Step("show", o.n, None, 0), Step("putback", o.n, "look", o.v),
                Step("putback", o.n, "parm", o.v), Step("stray", o.n, "badge", o.v),
                Step("lock", o.n, None, 0), Step("unlock", o.n, None, 0)})
  /\ After(sc, "show", "keep", TopIs(mk, st, "show"))
  /\ \A i \in DOMAIN sc :
       /\ sc[i].k = "rename" => i = 1 /\ o.x \in Name /\ Unnamed(w, o.n, o.x)
       /\ sc[i].k = "lock" => i = Len(sc) /\ o.n \notin w.locked
       /\ sc[i].k = "unlock" => i = Len(sc) /\ o.n \in w.locked

DoingCopy(o, mk, w, st, sc) ==
  /\ o.m \in Node /\ (o.x # None => o.x \in Name /\ Unnamed(w, o.m, o.x))
  /\ Among(sc, {Step("copy", o.m, o.n, 0), Step("name", o.m, o.x, 0), Step("wire", o.m, None, 0)})
  /\ \A i \in DOMAIN sc : (sc[i].k = "copy" => i = 1) /\ (sc[i].k = "name" => o.x # None)
  /\ sc # <<>> =>
       IF sc[1].k = "copy" THEN o.n \in w.alive /\ o.m \notin w.alive
       ELSE o.m \in w.alive /\ Going(w, mk, st, o.m) /\ w.display # o.m

DoingCreate(o, mk, w, st, sc) ==
  /\ o.n \in Node /\ o.v \in Value /\ o.m \in w.alive \cup {None} /\ o.m # o.n
  /\ Among(sc, {Step("keep", None, None, 0), Step("new", o.n, o.x, 0),
                Step("put", o.n, "parm", o.v), Step("wire", o.n, o.m, 0),
                Step("show", o.n, None, 0), Step("press", o.n, None, 0),
                Step("putback", o.m, "parm", 1)})
  /\ \A i \in DOMAIN sc :
       /\ sc[i].k = "keep" => i = 1 /\ Len(sc) > 1 /\ sc[2].k = "new"
       /\ sc[i].k = "new" => i = 1 \/ (i = 2 /\ sc[1].k = "keep")
       /\ sc[i].k \in {"show", "putback"} => i = Len(sc)
       /\ sc[i].k = "putback" => o.m # None
  /\ sc # <<>> =>
       IF sc[1].k \in {"keep", "new"}
         THEN /\ o.n \notin w.alive /\ o.x \in Name /\ Unnamed(w, o.n, o.x)
              /\ sc[1].k = "new" => w.display = None \/ TopIs(mk, st, "show")
         ELSE /\ o.n \in w.alive /\ Going(w, mk, st, o.n)
              /\ w.display = o.n => w.alive = {o.n}
              /\ w.display = o.n \/ (mk < Len(st) - 1 /\ st[Len(st) - 1].k = "show")

DoingBuild(o, mk, w, st, sc) ==
  /\ o.n \in Node /\ o.x \in Name /\ o.v \in Value /\ o.m # o.n
  /\ Among(sc, {Step("keep", None, None, 0), Step("rename", o.m, o.m, 0),
                Step("fill", o.n, o.x, o.v), Step("verify", o.n, None, 0),
                Step("press", o.n, None, 0), Step("rewireback", o.m, o.n, 0),
                Step("doom", o.m, None, 0), Step("destroy", o.m, None, 0)})
  /\ \A i \in DOMAIN sc :
       /\ sc[i].k = "rename" => i = 1 \/ (i = 2 /\ sc[1].k = "keep")
       /\ sc[i].k = "fill" => \A j \in 1 .. i - 1 : sc[j].k \in {"keep", "rename"}
       /\ sc[i].k \in {"rename", "rewireback", "doom", "destroy"} => o.m \in w.alive
       /\ sc[i].k = "destroy" => i = Len(sc)
  /\ After(sc, "destroy", "doom", TopIs(mk, st, "fail"))
  /\ Left(sc, "fill") =>
       /\ o.n \notin w.alive
       /\ Unnamed(w, o.n, o.x) \/ (Left(sc, "rename") /\ Unnamed(w, o.m, o.x))
  /\ ~Left(sc, "fill") /\ Left(sc, "rewireback") => o.n \in w.alive /\ w.src[o.n] = None

Deletes == {Step("delete", n, None, v) : n \in Node, v \in {0, 1}}
DeleteSteps(q, to) ==
  {Step("rewireback", q, to, 0), Step("rename", q, q, 0), Step("rewire", q, to, 0),
   Step("doom", q, None, 0), Step("destroy", q, None, 0)}
DoingDelete(mk, w, st, sc) ==
  /\ \E q \in Node : \E to \in Node \cup {None} :
       /\ Among(sc, DeleteSteps(q, to) \cup Deletes)
       /\ \A i \in DOMAIN sc :
            /\ sc[i].k # "delete" => q \in w.alive
            /\ sc[i].k \in {"rewire", "rewireback"} => i = 1 /\ to \in {None, w.src[q]}
            /\ sc[i].k = "rewire" => Len(sc) > 1 /\ sc[2].k = "doom"
            /\ sc[i].k \in {"destroy", "delete"} =>
                 \A j \in DOMAIN sc : j > i => sc[j].k = "delete"
  /\ After(sc, "destroy", "doom", TopIs(mk, st, "fail"))

DoingBad(sc) == Among(sc, {Step("bad", None, None, 0)})

Doing(o, mk, w, st, sc) ==
  CASE o.kind = "create" -> DoingCreate(o, mk, w, st, sc)
    [] o.kind = "set" -> DoingSet(o, mk, w, st, sc)
    [] o.kind = "connect" -> DoingConnect(o, w, sc)
    [] o.kind = "node" -> DoingNode(o, mk, w, st, sc)
    [] o.kind = "delete" -> DoingDelete(mk, w, st, sc)
    [] o.kind = "copy" -> DoingCopy(o, mk, w, st, sc)
    [] o.kind = "layout" -> DoingLayout(o, mk, w, st, sc)
    [] o.kind = "build" -> DoingBuild(o, mk, w, st, sc)
    [] o.kind = "select" -> DoingSelect(o, mk, w, st, sc)
    [] OTHER -> DoingBad(sc)

\* What it makes was not there before the call, and what it is in check mode: nothing that
\* compensation cannot take back.
Fresh(sc) == \A i \in DOMAIN sc : sc[i].k \in {"new", "fill", "copy"} => sc[i].n \notin Initial
Calm(sc) == \A i \in DOMAIN sc : sc[i].k \notin {"press", "lock", "doom", "destroy", "rewire"}
LEMMA TailIs ==
  ASSUME NEW S, NEW sc \in Seq(S), sc # <<>>
  PROVE  /\ Tail(sc) \in Seq(S) /\ Len(sc) \in Nat \ {0} /\ Len(Tail(sc)) = Len(sc) - 1
         /\ DOMAIN sc = 1 .. Len(sc) /\ DOMAIN Tail(sc) = 1 .. Len(sc) - 1
         /\ Head(sc) = sc[1] /\ sc[1] \in S /\ 1 \in DOMAIN sc
         /\ \A i \in DOMAIN Tail(sc) : i \in Nat \ {0} /\ i + 1 \in DOMAIN sc /\ Tail(sc)[i] = sc[i + 1]
<1>1. /\ Head(sc) \in S /\ Tail(sc) \in Seq(S) /\ Len(Tail(sc)) = Len(sc) - 1
      /\ \A i \in 1 .. Len(Tail(sc)) : Tail(sc)[i] = sc[i + 1]
  BY HeadTailProperties
<1>2. Len(sc) \in Nat \ {0} /\ DOMAIN sc = 1 .. Len(sc) /\ DOMAIN Tail(sc) = 1 .. Len(Tail(sc))
  BY <1>1, EmptySeq, LenProperties
<1>3. Head(sc) = sc[1]
  BY <1>2
<1> QED
  BY <1>1, <1>2, <1>3

LEMMA AmongTail ==
  ASSUME NEW S, NEW sc \in Seq(S), sc # <<>>, NEW T, Among(sc, T)
  PROVE  Head(sc) \in T /\ Among(Tail(sc), T)
  BY TailIs DEF Among

LEMMA AfterTail ==
  ASSUME NEW S, NEW sc \in Seq(S), sc # <<>>, NEW k, NEW j, NEW fact, After(sc, k, j, fact), NEW new,
         sc[1].k = j => new
  PROVE  After(Tail(sc), k, j, new) /\ (sc[1].k = k => fact)
<1> DEFINE t == Tail(sc)
<1>1. /\ DOMAIN sc = 1 .. Len(sc) /\ Len(sc) \in Nat \ {0} /\ 1 \in DOMAIN sc
      /\ DOMAIN t = 1 .. Len(sc) - 1
      /\ \A i \in DOMAIN t : i \in Nat \ {0} /\ i + 1 \in DOMAIN sc /\ t[i] = sc[i + 1]
  BY TailIs
<1> HIDE DEF t
<1>2. ASSUME NEW i \in DOMAIN t, t[i].k = k
      PROVE  (i = 1 /\ new) \/ (i > 1 /\ t[i - 1].k = j)
  <2>1. sc[i + 1].k = k /\ i + 1 > 1 /\ sc[i].k = j
    BY <1>1, <1>2 DEF After
  <2>2. CASE i = 1
    BY <2>1, <2>2
  <2>3. CASE i # 1
    <3>1. i - 1 \in DOMAIN t /\ t[i - 1] = sc[i - 1 + 1]
      BY <1>1, <2>3
    <3>2. i - 1 + 1 = i /\ i > 1
      BY <1>1, <2>3
    <3> QED
      BY <2>1, <3>1, <3>2
  <2> QED
    BY <2>2, <2>3
<1>3. sc[1].k = k => fact
  <2>1. ~(1 > 1)
    OBVIOUS
  <2> QED
    BY <1>1, <2>1, Zenon DEF After
<1> QED
  BY <1>2, <1>3 DEF After, t

\* What no step but those changes.
LEMMA EffectKeeps ==
  ASSUME NEW w \in Networks, NEW s \in Cell
  PROVE  LET u == Effect(w, s)
         IN  /\ s.k \notin {"new", "copy", "fill", "destroy"} =>
                  /\ u.alive = w.alive
                  /\ s.k \notin {"name", "rename"} => u.name = w.name
                  /\ s.k \notin {"wire", "wireback", "rewire", "rewireback"} => u.src = w.src
                  /\ s.k # "show" => u.display = w.display
                  /\ s.k \notin {"lock", "unlock"} => u.locked = w.locked
<1> DEFINE u == Effect(w, s)
<1>1. CASE s.k \in {"put", "putback", "stray"}
  BY <1>1 DEF Effect, Valued, Networks
<1>2. CASE s.k \in {"wire", "wireback"}
  BY <1>2 DEF Effect, Wired, Networks
<1>3. CASE s.k \in {"rewire", "rewireback"}
  BY <1>3 DEF Effect, Rewired, Networks
<1>4. CASE s.k \in {"name", "rename"}
  BY <1>4 DEF Effect, Named, Networks
<1>5. CASE s.k = "show"
  BY <1>5 DEF Effect, Shown, Networks
<1>6. CASE s.k = "select"
  BY <1>6 DEF Effect, Selected, Networks
<1>7. CASE s.k \in {"lock", "unlock"}
  BY <1>7 DEF Effect, Matched, Unlocked, Networks
<1>8. CASE s.k \notin {"new", "copy", "fill", "destroy", "put", "putback", "stray", "wire", "wireback",
                       "rewire", "rewireback", "name", "rename", "show", "select", "lock", "unlock"}
  BY <1>8 DEF Effect
<1> QED
  BY <1>1, <1>2, <1>3, <1>4, <1>5, <1>6, <1>7, <1>8

\* The entry a step registers is the last one.
LEMMA Pushed ==
  ASSUME NEW st \in Seq(Entry), NEW e, NEW mk \in Nat, mk <= Len(st)
  PROVE  LET q == st \o <<e>>
         IN  /\ Top(q) = e /\ mk < Len(q) /\ Len(q) = Len(st) + 1
             /\ mk < Len(st) => mk < Len(q) - 1 /\ q[Len(q) - 1] = Top(st)
<1> DEFINE n == Len(st)
           q == st \o <<e>>
<1>1. n \in Nat /\ st \in Seq(Entry \cup {e}) /\ <<e>> \in Seq(Entry \cup {e}) /\ Len(<<e>>) = 1
  BY LenProperties, SeqMonotonic
<1>2. Len(q) = n + 1 /\ \A i \in 1 .. n + 1 : q[i] = IF i <= n THEN st[i] ELSE <<e>>[i - n]
  BY <1>1, ConcatProperties
<1>3. q[n + 1] = e
  <2>1. n + 1 \in 1 .. n + 1 /\ ~(n + 1 <= n) /\ (n + 1) - n = 1
    BY <1>1
  <2> QED
    BY <1>2, <2>1
<1>4. mk < n => q[n] = st[n]
  BY <1>1, <1>2
<1> HIDE DEF q, n
<1>5. /\ Top(q) = e /\ mk < Len(q) /\ Len(q) = n + 1
      /\ mk < n => mk < Len(q) - 1 /\ q[Len(q) - 1] = Top(st)
  <2>1. Len(q) - 1 = n
    BY <1>1, <1>2
  <2>2. mk < n + 1
    BY <1>1 DEF n
  <2> QED
    BY <1>1, <1>2, <1>3, <1>4, <2>1, <2>2 DEF Top, n
<1> QED
  BY <1>5 DEF q, n

LEMMA NotPushed == \A st \in Seq(Entry) : st \o <<>> = st
  BY ConcatEmptySeq

-----------------------------------------------------------------------------
(* Per kind of op: the next step fits, and the rest of the script is one of the kind again. *)

LEMMA ConnectGoesOn ==
  ASSUME NEW o, NEW mk \in Nat, NEW w, NetOK(w), NEW st \in Seq(Entry), mk <= Len(st),
         NEW sc \in Seq(Cell), sc # <<>>, DoingConnect(o, w, sc)
  PROVE  LET s == Head(sc)
         IN  Fits(w, mk, st, s) /\ DoingConnect(o, Effect(w, s), Tail(sc))
<1> DEFINE s == Head(sc)
           T == {Step("wireback", o.n, o.m, 0)}
<1>1. s \in Cell /\ w \in Networks
  BY TailIs DEF NetOK
<1>2. s \in T /\ Among(Tail(sc), T)
  BY AmongTail DEF DoingConnect
<1>3. s.k = "wireback" /\ s.n = o.n /\ s.m = o.m
  BY <1>2 DEF Step
<1> HIDE DEF s
<1>4. Fits(w, mk, st, s)
  BY <1>3 DEF Fits, RunKinds, DoingConnect
<1>5. Effect(w, s).alive = w.alive
  BY <1>1, <1>3, EffectKeeps
<1>6. DoingConnect(o, Effect(w, s), Tail(sc))
  BY <1>2, <1>5 DEF DoingConnect
<1> QED
  BY <1>4, <1>6 DEF s

LEMMA SetGoesOn ==
  ASSUME NEW o, NEW mk \in Nat, NEW w, NetOK(w), NEW st \in Seq(Entry), mk <= Len(st),
         NEW sc \in Seq(Cell), sc # <<>>, DoingSet(o, mk, w, st, sc)
  PROVE  LET s == Head(sc)
         IN  /\ Fits(w, mk, st, s)
             /\ DoingSet(o, mk, Effect(w, s), st \o Compensation(w, s), Tail(sc))
             /\ s.k = "save" => Len(sc) > 1 /\ sc[2].k = "put" /\ sc[2].m = s.m /\ sc[2].n = s.n
<1> DEFINE s == Head(sc)
           t == Tail(sc)
           q == st \o Compensation(w, s)
           T == {Step("save", o.n, "parm", 0), Step("put", o.n, "parm", o.v),
                 Step("save", o.n, "inner", 0), Step("put", o.n, "inner", o.v),
                 Step("press", o.n, None, 0)}
<1>1. s \in Cell /\ w \in Networks /\ s = sc[1] /\ o.n \in w.alive /\ o.v \in Value
  BY TailIs DEF NetOK, DoingSet
<1>2. /\ Len(sc) \in Nat \ {0} /\ DOMAIN sc = 1 .. Len(sc) /\ Len(t) = Len(sc) - 1
      /\ \A i \in DOMAIN t : i \in Nat \ {0} /\ i + 1 \in DOMAIN sc /\ t[i] = sc[i + 1]
  BY TailIs
<1>3. s \in T /\ Among(t, T)
  BY AmongTail DEF DoingSet
<1>4. /\ s.n = o.n /\ s.k \in {"save", "put", "press"}
      /\ s.k \in {"save", "put"} => s.m \in {"parm", "inner"}
      /\ s.k = "put" => s.v = o.v
  BY <1>3 DEF Step
<1>5. \A i \in DOMAIN sc :
        /\ sc[i].k = "save" => i < Len(sc) /\ sc[i + 1].k = "put" /\ sc[i + 1].m = sc[i].m
        /\ sc[i].k = "put" =>
             \/ i = 1 /\ TopIs(mk, st, "put") /\ Top(st).n = o.n /\ Top(st).m = sc[1].m
             \/ i > 1 /\ sc[i - 1].k = "save"
  BY DEF DoingSet
<1> HIDE DEF s, t
<1>6. s.k = "put" => TopIs(mk, st, "put") /\ Top(st).n = o.n /\ Top(st).m = s.m
  BY <1>1, <1>2, <1>5
<1>7. Fits(w, mk, st, s)
  BY <1>1, <1>4, <1>6, Values DEF Fits, RunKinds, TopIs
<1>8. s.k = "save" => Len(sc) > 1 /\ sc[2].k = "put" /\ sc[2].m = s.m /\ sc[2].n = s.n
  <2>1. \A i \in DOMAIN sc : sc[i].n = o.n
    BY DEF DoingSet, Among, Step
  <2> QED
    BY <1>1, <1>2, <1>4, <1>5, <2>1
<1>9. Effect(w, s).alive = w.alive
  BY <1>1, <1>4, EffectKeeps
<1>10. ASSUME s.k = "save"
       PROVE  TopIs(mk, q, "put") /\ Top(q).n = o.n /\ Top(q).m = s.m
  <2> DEFINE e == Step("put", s.n, s.m, w.attr[s.n][s.m])
  <2>1. Compensation(w, s) = <<e>>
    BY <1>10 DEF Compensation, Snapshot
  <2>2. Top(q) = e /\ mk < Len(q)
    BY <2>1, Pushed
  <2> QED
    BY <1>4, <2>2 DEF TopIs, Step
<1> HIDE DEF q
<1>11. ASSUME NEW i \in DOMAIN t
       PROVE  /\ t[i].k = "save" => i < Len(t) /\ t[i + 1].k = "put" /\ t[i + 1].m = t[i].m
              /\ t[i].k = "put" =>
                   \/ i = 1 /\ TopIs(mk, q, "put") /\ Top(q).n = o.n /\ Top(q).m = t[1].m
                   \/ i > 1 /\ t[i - 1].k = "save"
  <2>1. i \in Nat \ {0} /\ i + 1 \in DOMAIN sc /\ t[i] = sc[i + 1] /\ DOMAIN t = 1 .. Len(t)
    BY <1>2, TailIs DEF t
  <2>2. ASSUME t[i].k = "save" PROVE i < Len(t) /\ t[i + 1].k = "put" /\ t[i + 1].m = t[i].m
    <3>1. i + 1 < Len(sc) /\ sc[i + 1 + 1].k = "put" /\ sc[i + 1 + 1].m = sc[i + 1].m
      BY <1>5, <2>1, <2>2
    <3>2. i + 1 \in DOMAIN t
      BY <1>2, <2>1, <3>1
    <3>3. t[i + 1] = sc[i + 1 + 1]
      BY <1>2, <3>2
    <3> QED
      BY <1>2, <2>1, <3>1, <3>3
  <2>3. ASSUME t[i].k = "put"
        PROVE  \/ i = 1 /\ TopIs(mk, q, "put") /\ Top(q).n = o.n /\ Top(q).m = t[1].m
               \/ i > 1 /\ t[i - 1].k = "save"
    <3>1. sc[i + 1].k = "put" /\ i + 1 > 1 /\ i + 1 - 1 = i
      BY <2>1, <2>3
    <3>2. sc[i].k = "save"
      BY <1>5, <2>1, <3>1
    <3>3. CASE i = 1
      <4>1. s.k = "save" /\ t[1] = sc[2] /\ sc[2].m = s.m
        BY <1>1, <1>8, <2>1, <3>2, <3>3
      <4> QED
        BY <1>10, <3>3, <4>1
    <3>4. CASE i # 1
      <4>1. i - 1 \in DOMAIN t /\ i - 1 + 1 = i /\ i > 1
        BY <2>1, <3>4
      <4>2. t[i - 1] = sc[i]
        BY <1>2, <4>1
      <4> QED
        BY <3>2, <4>1, <4>2
    <3> QED
      BY <3>3, <3>4
  <2> QED
    BY <2>2, <2>3
<1>12. DoingSet(o, mk, Effect(w, s), q, t)
  BY <1>1, <1>3, <1>9, <1>11 DEF DoingSet
<1> QED
  BY <1>7, <1>8, <1>12 DEF s, t, q

LEMMA LayoutGoesOn ==
  ASSUME NEW o, NEW mk \in Nat, NEW w, NetOK(w), NEW st \in Seq(Entry), mk <= Len(st),
         NEW sc \in Seq(Cell), sc # <<>>, DoingLayout(o, mk, w, st, sc)
  PROVE  LET s == Head(sc)
         IN  /\ Fits(w, mk, st, s)
             /\ DoingLayout(o, mk, Effect(w, s), st \o Compensation(w, s), Tail(sc))
<1> DEFINE s == Head(sc)
           q == st \o Compensation(w, s)
           T == {Step("savelooks", None, None, 0), Step("savelooks", o.n, None, 0),
                 Step("put", o.n, "look", o.v), Step("stray", o.m, "look", o.v)}
           fact == TopIs(mk, st, "looks") /\ o.n \in DOMAIN Top(st).v
           new == TopIs(mk, q, "looks") /\ o.n \in DOMAIN Top(q).v
<1>1. s \in Cell /\ w \in Networks /\ s = sc[1] /\ o.n \in w.alive /\ o.v \in Value
  BY TailIs DEF NetOK, DoingLayout
<1>2. s \in T /\ Among(Tail(sc), T)
  BY AmongTail DEF DoingLayout
<1>3. /\ s.k \in {"savelooks", "put", "stray"}
      /\ s.k = "savelooks" => s.n \in {None, o.n}
      /\ s.k = "put" => s.n = o.n /\ s.m = "look" /\ s.v = o.v
      /\ s.k = "stray" => s.n = o.m /\ s.m = "look" /\ s.v = o.v
  BY <1>2 DEF Step
<1>10. (s.k = "stray" => o.m \in w.alive) /\ \A i \in DOMAIN Tail(sc) : Tail(sc)[i].k = "stray" => o.m \in w.alive
  BY TailIs DEF DoingLayout
<1> HIDE DEF s
<1>4. ASSUME s.k = "savelooks" PROVE new
  <2> DEFINE D == IF s.n = None THEN w.alive ELSE {s.n}
             x == [n \in D |-> w.attr[n]["look"]]
             e == Step("looks", None, None, x)
  <2>1. Compensation(w, s) = <<e>> /\ DOMAIN x = D
    BY <1>4 DEF Compensation
  <2>3. o.n \in D
    BY <1>1, <1>3, <1>4
  <2> HIDE DEF x, D
  <2>2. Top(q) = e /\ mk < Len(q)
    BY <2>1, Pushed
  <2> QED
    BY <2>1, <2>2, <2>3 DEF TopIs, Step
<1>5. After(sc, "put", "savelooks", fact)
  BY DEF DoingLayout
<1> HIDE DEF fact, new
<1>6. After(Tail(sc), "put", "savelooks", new) /\ (s.k = "put" => fact)
  BY <1>1, <1>4, <1>5, AfterTail
<1>7. Fits(w, mk, st, s)
  BY <1>1, <1>3, <1>6, <1>10, Values DEF Fits, RunKinds, TopIs, fact
<1>8. Effect(w, s).alive = w.alive
  BY <1>1, <1>3, EffectKeeps
<1>9. DoingLayout(o, mk, Effect(w, s), q, Tail(sc))
  BY <1>1, <1>2, <1>6, <1>8, <1>10 DEF DoingLayout, new
<1> QED
  BY <1>7, <1>9 DEF s

LEMMA SelectGoesOn ==
  ASSUME NEW o, NEW mk \in Nat, NEW w, NetOK(w), NEW st \in Seq(Entry), mk <= Len(st),
         NEW sc \in Seq(Cell), sc # <<>>, DoingSelect(o, mk, w, st, sc)
  PROVE  LET s == Head(sc)
         IN  /\ Fits(w, mk, st, s)
             /\ DoingSelect(o, mk, Effect(w, s), st \o Compensation(w, s), Tail(sc))
<1> DEFINE s == Head(sc)
           q == st \o Compensation(w, s)
           T == {Step("savesel", None, None, 0), Step("select", o.n, None, 0)}
           fact == TopIs(mk, st, "select")
           new == TopIs(mk, q, "select")
<1>1. s \in Cell /\ w \in Networks /\ s = sc[1] /\ o.n \in w.alive
  BY TailIs DEF NetOK, DoingSelect
<1>2. s \in T /\ Among(Tail(sc), T)
  BY AmongTail DEF DoingSelect
<1>3. s.k \in {"savesel", "select"} /\ (s.k = "select" => s.n = o.n)
  BY <1>2 DEF Step
<1> HIDE DEF s
<1>4. ASSUME s.k = "savesel" PROVE new
  <2> DEFINE e == Step("select", w.sel, None, 0)
  <2>1. Compensation(w, s) = <<e>>
    BY <1>4 DEF Compensation
  <2>2. Top(q) = e /\ mk < Len(q)
    BY <2>1, Pushed
  <2> QED
    BY <2>2 DEF TopIs, Step
<1>5. After(sc, "select", "savesel", fact)
  BY DEF DoingSelect
<1> HIDE DEF fact, new
<1>6. After(Tail(sc), "select", "savesel", new) /\ (s.k = "select" => fact)
  BY <1>1, <1>4, <1>5, AfterTail
<1>7. Fits(w, mk, st, s)
  BY <1>1, <1>3, <1>6 DEF Fits, RunKinds, TopIs, fact
<1>8. Effect(w, s).alive = w.alive
  BY <1>1, <1>3, EffectKeeps
<1>9. DoingSelect(o, mk, Effect(w, s), q, Tail(sc))
  BY <1>1, <1>2, <1>6, <1>8 DEF DoingSelect, new
<1> QED
  BY <1>7, <1>9 DEF s

LEMMA NodeGoesOn ==
  ASSUME NEW o, NEW mk \in Nat, NEW w, NetOK(w), NEW st \in Seq(Entry), mk <= Len(st),
         NEW sc \in Seq(Cell), sc # <<>>, DoingNode(o, mk, w, st, sc)
  PROVE  LET s == Head(sc)
         IN  /\ Fits(w, mk, st, s)
             /\ DoingNode(o, mk, Effect(w, s), st \o Compensation(w, s), Tail(sc))
<1> DEFINE s == Head(sc)
           t == Tail(sc)
           u == Effect(w, s)
           q == st \o Compensation(w, s)
           T == {Step("rename", o.n, o.x, 0), Step("keep", None, None, 0),
                 Step("show", o.n, None, 0), Step("putback", o.n, "look", o.v),
                 Step("putback", o.n, "parm", o.v), Step("stray", o.n, "badge", o.v),
                 Step("lock", o.n, None, 0), Step("unlock", o.n, None, 0)}
           fact == TopIs(mk, st, "show")
           new == TopIs(mk, q, "show")
<1>1. s \in Cell /\ w \in Networks /\ s = sc[1] /\ o.n \in w.alive /\ o.v \in Value
  BY TailIs DEF NetOK, DoingNode
<1>2. /\ Len(sc) \in Nat \ {0} /\ 1 \in DOMAIN sc /\ Len(t) = Len(sc) - 1
      /\ \A i \in DOMAIN t : i \in Nat \ {0} /\ i + 1 \in DOMAIN sc /\ t[i] = sc[i + 1]
      /\ DOMAIN t = 1 .. Len(sc) - 1
  BY TailIs
<1>3. s \in T /\ Among(t, T)
  BY AmongTail DEF DoingNode
<1>4. /\ s.k \in {"rename", "keep", "show", "putback", "stray", "lock", "unlock"}
      /\ s.k # "keep" => s.n = o.n
      /\ s.k = "rename" => s.m = o.x
      /\ s.k = "putback" => s.v = o.v /\ s.m \in {"look", "parm"}
      /\ s.k = "stray" => s.v = o.v /\ s.m = "badge"
  BY <1>3 DEF Step
<1>5. After(sc, "show", "keep", fact)
  BY DEF DoingNode
<1>6. \A i \in DOMAIN sc :
        /\ sc[i].k = "rename" => i = 1 /\ o.x \in Name /\ Unnamed(w, o.n, o.x)
        /\ sc[i].k = "lock" => i = Len(sc) /\ o.n \notin w.locked
        /\ sc[i].k = "unlock" => i = Len(sc) /\ o.n \in w.locked
  BY DEF DoingNode
<1> HIDE DEF s, t
<1>7. ASSUME s.k = "keep" PROVE new
  <2> DEFINE e == Step("show", w.display, None, 0)
  <2>1. w.display # None
    BY <1>1 DEF NetOK
  <2>2. Compensation(w, s) = <<e>>
    BY <1>7, <2>1 DEF Compensation, KeepDisplay
  <2>3. Top(q) = e /\ mk < Len(q)
    BY <2>2, Pushed
  <2> QED
    BY <2>3 DEF TopIs, Step
<1> HIDE DEF fact, new, q
<1>8. After(t, "show", "keep", new) /\ (s.k = "show" => fact)
  BY <1>1, <1>5, <1>7, AfterTail DEF t
<1>9. Fits(w, mk, st, s)
  <2>1. s.k = "rename" => s.m \in Name /\ Unnamed(w, s.n, s.m)
    BY <1>1, <1>2, <1>4, <1>6
  <2>2. (s.k = "lock" => s.n \notin w.locked) /\ (s.k = "unlock" => s.n \in w.locked)
    BY <1>1, <1>2, <1>4, <1>6
  <2> QED
    BY <1>1, <1>4, <1>8, <2>1, <2>2, Values DEF Fits, RunKinds, TopIs, fact
<1>10. u.alive = w.alive /\ (s.k \notin {"lock", "unlock"} => u.locked = w.locked)
  BY <1>1, <1>4, EffectKeeps
<1> HIDE DEF u
<1>11. ASSUME NEW i \in DOMAIN t
       PROVE  /\ t[i].k = "rename" => i = 1 /\ o.x \in Name /\ Unnamed(u, o.n, o.x)
              /\ t[i].k = "lock" => i = Len(t) /\ o.n \notin u.locked
              /\ t[i].k = "unlock" => i = Len(t) /\ o.n \in u.locked
  <2>1. i \in Nat \ {0} /\ i + 1 \in DOMAIN sc /\ t[i] = sc[i + 1]
    BY <1>2
  <2>2. s.k \notin {"lock", "unlock"}
    BY <1>1, <1>2, <1>6
  <2>3. t[i].k # "rename"
    BY <1>6, <2>1
  <2>4. t[i].k = "lock" => i = Len(t) /\ o.n \notin u.locked
    BY <1>2, <1>6, <1>10, <2>1, <2>2
  <2>5. t[i].k = "unlock" => i = Len(t) /\ o.n \in u.locked
    BY <1>2, <1>6, <1>10, <2>1, <2>2
  <2> QED
    BY <2>3, <2>4, <2>5
<1>12. DoingNode(o, mk, u, q, t)
  BY <1>1, <1>3, <1>8, <1>10, <1>11 DEF DoingNode, new
<1> QED
  BY <1>9, <1>12 DEF s, t, u, q

LEMMA CopyGoesOn ==
  ASSUME NEW o, NEW mk \in Nat, NEW w, NetOK(w), NEW st \in Seq(Entry), mk <= Len(st),
         NEW sc \in Seq(Cell), sc # <<>>, DoingCopy(o, mk, w, st, sc)
  PROVE  LET s == Head(sc)
         IN  /\ Fits(w, mk, st, s)
             /\ DoingCopy(o, mk, Effect(w, s), st \o Compensation(w, s), Tail(sc))
<1> DEFINE s == Head(sc)
           t == Tail(sc)
           u == Effect(w, s)
           q == st \o Compensation(w, s)
           T == {Step("copy", o.m, o.n, 0), Step("name", o.m, o.x, 0), Step("wire", o.m, None, 0)}
<1>1. s \in Cell /\ w \in Networks /\ s = sc[1] /\ o.m \in Node /\ (o.x # None => o.x \in Name /\ Unnamed(w, o.m, o.x))
  BY TailIs DEF NetOK, DoingCopy
<1>2. /\ Len(sc) \in Nat \ {0} /\ 1 \in DOMAIN sc
      /\ \A i \in DOMAIN t : i \in Nat \ {0} /\ i + 1 \in DOMAIN sc /\ t[i] = sc[i + 1]
  BY TailIs
<1>3. s \in T /\ Among(t, T)
  BY AmongTail DEF DoingCopy
<1>4. /\ s.k \in {"copy", "name", "wire"} /\ s.n = o.m
      /\ s.k = "copy" => s.m = o.n
      /\ s.k = "name" => s.m = o.x
      /\ s.k = "wire" => s.m = None
  BY <1>3 DEF Step
<1>5. \A i \in DOMAIN sc : (sc[i].k = "copy" => i = 1) /\ (sc[i].k = "name" => o.x # None)
  BY DEF DoingCopy
<1>6. IF s.k = "copy" THEN o.n \in w.alive /\ o.m \notin w.alive
      ELSE o.m \in w.alive /\ Going(w, mk, st, o.m) /\ w.display # o.m
  BY <1>1 DEF DoingCopy
<1>7. \A i \in DOMAIN t : t[i].k # "copy" /\ (t[i].k = "name" => o.x # None)
  BY <1>2, <1>5
<1> HIDE DEF s, t
<1>8. Fits(w, mk, st, s)
  BY <1>1, <1>2, <1>4, <1>5, <1>6 DEF Fits, RunKinds
<1>9. o.m \in u.alive /\ Going(u, mk, q, o.m) /\ u.display # o.m /\ (o.x # None => Unnamed(u, o.m, o.x))
  <2>1. CASE s.k = "copy"
    <3> DEFINE n == s.n
               m == s.m
               y == s.v
    <3>1. n \in Node \ w.alive /\ m \in w.alive /\ n = o.m
      BY <1>1, <1>4, <1>6, <2>1
    <3>2. u = Effect(w, Step("copy", n, m, y))
      BY <2>1 DEF Effect, Step
    <3>3. Compensation(w, s) = <<Step("destroylater", o.m, None, 0)>>
      BY <1>4, <2>1 DEF Compensation, DestroyLater
    <3> HIDE DEF n, m, y, u
    <3>4. /\ u.alive = w.alive \cup {n} /\ u.display = w.display
          /\ u.name[n] = n /\ \A d \in Node \ {n} : u.name[d] = w.name[d]
          /\ \A d \in Node : u.src[d] # n
      BY <3>1, <3>2, CopiedOK
    <3>5. w.display # n /\ w.alive \subseteq Node
      BY <1>1, <3>1, NotNone DEF NetOK, Networks
    <3>6. Top(q) = Step("destroylater", o.m, None, 0) /\ mk < Len(q)
      BY <3>3, Pushed
    <3>7. Going(u, mk, q, o.m)
      BY <3>1, <3>4, <3>6 DEF Going, Alone, Step
    <3>8. o.x # None => Unnamed(u, o.m, o.x)
      BY <1>1, <3>1, <3>4, <3>5 DEF Unnamed
    <3> QED
      BY <3>1, <3>4, <3>5, <3>7, <3>8
  <2>2. CASE s.k # "copy"
    <3>1. u.alive = w.alive /\ u.display = w.display
      BY <1>1, <1>4, <2>2, EffectKeeps
    <3>2. Compensation(w, s) = <<>>
      BY <1>4, <2>2 DEF Compensation
    <3>3. q = st
      BY <3>2, NotPushed
    <3>4. Alone(u, o.m)
      <4>1. Alone(w, o.m) /\ o.m # None
        BY <1>1, <1>6, <2>2, NotNone DEF Going
      <4>2. CASE s.k = "name"
        <5>1. u.src = w.src
          BY <1>1, <4>2, EffectKeeps
        <5> QED
          BY <4>1, <5>1 DEF Alone
      <4>3. CASE s.k = "wire"
        <5>1. u = Wired(w, o.m, None)
          BY <1>4, <4>3 DEF Effect
        <5> QED
          BY <1>1, <4>1, <5>1 DEF Alone, Wired, Networks
      <4> QED
        BY <1>4, <2>2, <4>2, <4>3
    <3>5. \A d \in w.alive \ {o.m} : u.name[d] = w.name[d]
      <4>1. CASE s.k = "name"
        <5>1. u = Named(w, o.m, o.x)
          BY <1>4, <4>1 DEF Effect
        <5> QED
          BY <1>1, <5>1 DEF Named, Networks
      <4>2. CASE s.k = "wire"
        <5>1. u.name = w.name
          BY <1>1, <4>2, EffectKeeps
        <5> QED
          BY <5>1
      <4> QED
        BY <1>4, <2>2, <4>1, <4>2
    <3> HIDE DEF u, q
    <3> QED
      BY <1>1, <1>6, <2>2, <3>1, <3>3, <3>4, <3>5 DEF Going, Unnamed
  <2> QED
    BY <2>1, <2>2
<1> HIDE DEF u, q
<1>10. t # <<>> => 1 \in DOMAIN t
  BY TailIs, EmptySeq DEF t
<1>11. DoingCopy(o, mk, u, q, t)
  BY <1>1, <1>3, <1>7, <1>9, <1>10 DEF DoingCopy
<1> QED
  BY <1>8, <1>11 DEF s, t, u, q

LEMMA CreateGoesOn ==
  ASSUME NEW o, NEW mk \in Nat, NEW w, NetOK(w), NEW st \in Seq(Entry), mk <= Len(st),
         NEW sc \in Seq(Cell), sc # <<>>, DoingCreate(o, mk, w, st, sc)
  PROVE  LET s == Head(sc)
         IN  /\ Fits(w, mk, st, s)
             /\ DoingCreate(o, mk, Effect(w, s), st \o Compensation(w, s), Tail(sc))
<1> DEFINE s == Head(sc)
           t == Tail(sc)
           u == Effect(w, s)
           q == st \o Compensation(w, s)
           T == {Step("keep", None, None, 0), Step("new", o.n, o.x, 0),
                 Step("put", o.n, "parm", o.v), Step("wire", o.n, o.m, 0),
                 Step("show", o.n, None, 0), Step("press", o.n, None, 0),
                 Step("putback", o.m, "parm", 1)}
<1>1. /\ s \in Cell /\ w \in Networks /\ s = sc[1] /\ w.alive \subseteq Node
      /\ o.n \in Node /\ o.v \in Value /\ o.m \in w.alive \cup {None} /\ o.m # o.n
  BY TailIs DEF NetOK, Networks, DoingCreate
<1>2. /\ Len(sc) \in Nat \ {0} /\ 1 \in DOMAIN sc /\ DOMAIN sc = 1 .. Len(sc) /\ Len(t) = Len(sc) - 1
      /\ DOMAIN t = 1 .. Len(sc) - 1
      /\ \A i \in DOMAIN t : i \in Nat \ {0} /\ i + 1 \in DOMAIN sc /\ t[i] = sc[i + 1]
  BY TailIs
<1>3. s \in T /\ Among(t, T)
  BY AmongTail DEF DoingCreate
<1>4. /\ s.k \in {"keep", "new", "put", "wire", "show", "press", "putback"}
      /\ s.k \in {"new", "put", "wire", "show"} => s.n = o.n
      /\ s.k = "new" => s.m = o.x
      /\ s.k = "put" => s.m = "parm" /\ s.v = o.v
      /\ s.k = "wire" => s.m = o.m
      /\ s.k = "putback" => s.n = o.m /\ s.m = "parm" /\ s.v = 1
  BY <1>3 DEF Step
<1>5. \A i \in DOMAIN sc :
        /\ sc[i].k = "keep" => i = 1 /\ Len(sc) > 1 /\ sc[2].k = "new"
        /\ sc[i].k = "new" => i = 1 \/ (i = 2 /\ sc[1].k = "keep")
        /\ sc[i].k \in {"show", "putback"} => i = Len(sc)
        /\ sc[i].k = "putback" => o.m # None
  BY DEF DoingCreate
<1>6. s.k \in {"keep", "new"} =>
        /\ o.n \notin w.alive /\ o.x \in Name /\ Unnamed(w, o.n, o.x)
        /\ s.k = "new" => w.display = None \/ TopIs(mk, st, "show")
  BY <1>1 DEF DoingCreate
<1>7. s.k \notin {"keep", "new"} =>
        /\ o.n \in w.alive /\ Going(w, mk, st, o.n)
        /\ w.display = o.n => w.alive = {o.n}
        /\ w.display = o.n \/ (mk < Len(st) - 1 /\ st[Len(st) - 1].k = "show")
  BY <1>1 DEF DoingCreate
<1>8. \A i \in DOMAIN t :
        /\ t[i].k # "keep"
        /\ t[i].k = "new" => i = 1 /\ s.k = "keep"
        /\ t[i].k \in {"show", "putback"} => i = Len(t)
        /\ t[i].k = "putback" => o.m # None
  <2> SUFFICES ASSUME NEW i \in DOMAIN t
               PROVE  /\ t[i].k # "keep"
                      /\ t[i].k = "new" => i = 1 /\ s.k = "keep"
                      /\ t[i].k \in {"show", "putback"} => i = Len(t)
                      /\ t[i].k = "putback" => o.m # None
    OBVIOUS
  <2>1. i \in Nat \ {0} /\ i + 1 \in DOMAIN sc /\ t[i] = sc[i + 1] /\ i + 1 # 1
    BY <1>2
  <2>2. t[i].k # "keep"
    BY <1>5, <2>1
  <2>3. t[i].k = "new" => i = 1 /\ s.k = "keep"
    BY <1>1, <1>5, <2>1
  <2>4. t[i].k \in {"show", "putback"} => i = Len(t)
    <3>1. t[i].k \in {"show", "putback"} => i + 1 = Len(sc)
      BY <1>5, <2>1
    <3>2. Len(t) = Len(sc) - 1 /\ Len(sc) \in Nat
      BY <1>2
    <3> HIDE DEF t
    <3> QED
      BY <2>1, <3>1, <3>2
  <2>5. t[i].k = "putback" => o.m # None
    BY <1>5, <2>1
  <2> QED
    BY <2>2, <2>3, <2>4, <2>5
<1>9. t # <<>> => 1 \in DOMAIN t /\ Len(sc) # 1
  BY <1>2, TailIs, EmptySeq DEF t
<1>10. s.k = "keep" => t[1].k = "new"
  BY <1>1, <1>2, <1>5
<1>11. s.k \in {"show", "putback"} => t = <<>>
  BY <1>1, <1>2, <1>5, <1>9
<1> HIDE DEF s, t
<1>12. Fits(w, mk, st, s)
  <2>1. s.k = "putback" => s.n \in w.alive
    BY <1>1, <1>2, <1>4, <1>5
  <2>2. 1 \in Value /\ "parm" \in Attr
    BY Values
  <2>3. CASE s.k \in {"keep", "new"}
    BY <1>1, <1>4, <1>6, <2>3 DEF Fits, RunKinds
  <2>4. CASE s.k \in {"put", "wire", "press"}
    BY <1>1, <1>4, <1>7, <2>2, <2>4 DEF Fits, RunKinds
  <2>5. CASE s.k = "show"
    BY <1>1, <1>4, <1>7, <2>5 DEF Fits, RunKinds
  <2>6. CASE s.k = "putback"
    BY <1>1, <1>4, <1>7, <2>1, <2>2, <2>6 DEF Fits, RunKinds
  <2> QED
    BY <1>4, <2>3, <2>4, <2>5, <2>6
<1>13. CASE s.k = "keep"
  <2>1. u = w
    BY <1>13 DEF Effect
  <2>2. w.display = None \/ TopIs(mk, q, "show")
    <3> SUFFICES ASSUME w.display # None PROVE TopIs(mk, q, "show")
      OBVIOUS
    <3>1. Compensation(w, s) = <<Step("show", w.display, None, 0)>>
      BY <1>13 DEF Compensation, KeepDisplay
    <3>2. Top(q) = Step("show", w.display, None, 0) /\ mk < Len(q)
      BY <3>1, Pushed
    <3> QED
      BY <3>2 DEF TopIs, Step
  <2> HIDE DEF u, q
  <2>3. DoingCreate(o, mk, u, q, t)
    BY <1>1, <1>3, <1>6, <1>8, <1>10, <1>13, <2>1, <2>2 DEF DoingCreate
  <2> QED
    BY <1>12, <2>3 DEF s, t, u, q
<1>14. CASE s.k = "new"
  <2>1. o.n \notin w.alive /\ (w.display = None \/ TopIs(mk, st, "show"))
    BY <1>6, <1>14
  <2>2. u = Created(w, o.n, o.x) /\ Compensation(w, s) = <<Step("destroylater", o.n, None, 0)>>
    BY <1>4, <1>14 DEF Effect, Compensation, DestroyLater
  <2>3. Top(q) = Step("destroylater", o.n, None, 0) /\ mk < Len(q) /\ Len(q) = Len(st) + 1
        /\ (mk < Len(st) => mk < Len(q) - 1 /\ q[Len(q) - 1] = Top(st))
    BY <2>2, Pushed
  <2>4. /\ u.alive = w.alive \cup {o.n} /\ u.src = w.src
        /\ u.display = IF w.display = None THEN o.n ELSE w.display
    BY <1>1, <2>2 DEF Created, Networks
  <2>5. Alone(u, o.n)
    BY <1>1, <2>1, <2>4, NotNone DEF NetOK, Alone
  <2>6. Going(u, mk, q, o.n)
    BY <2>3, <2>5 DEF Going, Step
  <2>7. u.display = o.n => u.alive = {o.n}
    BY <1>1, <2>1, <2>4 DEF NetOK
  <2>8. u.display = o.n \/ (mk < Len(q) - 1 /\ q[Len(q) - 1].k = "show")
    BY <2>1, <2>3, <2>4 DEF TopIs
  <2>9. t # <<>> => t[1].k \notin {"keep", "new"}
    BY <1>8, <1>9, <1>14
  <2>10. \A i \in DOMAIN t : t[i].k # "new"
    BY <1>8, <1>14
  <2> HIDE DEF u, q
  <2>11. DoingCreate(o, mk, u, q, t)
    BY <1>1, <1>3, <1>8, <2>4, <2>6, <2>7, <2>8, <2>9, <2>10 DEF DoingCreate
  <2> QED
    BY <1>12, <2>11 DEF s, t, u, q
<1>15. CASE s.k \in {"put", "press", "wire"}
  <2>1. Compensation(w, s) = <<>>
    BY <1>15 DEF Compensation
  <2>2. q = st
    BY <2>1, NotPushed
  <2>3. u.alive = w.alive /\ u.display = w.display
    BY <1>1, <1>15, EffectKeeps
  <2>4. Alone(u, o.n)
    <3>1. Alone(w, o.n)
      BY <1>7, <1>15 DEF Going
    <3>2. CASE s.k # "wire"
      <4>1. u.src = w.src
        BY <1>1, <1>15, <3>2, EffectKeeps
      <4> QED
        BY <3>1, <4>1 DEF Alone
    <3>3. CASE s.k = "wire"
      <4>1. u = Wired(w, o.n, o.m)
        BY <1>4, <3>3 DEF Effect
      <4> QED
        BY <1>1, <3>1, <4>1 DEF Alone, Wired, Networks
    <3> QED
      BY <3>2, <3>3
  <2>5. t # <<>> => t[1].k \notin {"keep", "new"}
    BY <1>8, <1>9, <1>15
  <2>6. \A i \in DOMAIN t : t[i].k # "new"
    BY <1>8, <1>15
  <2> HIDE DEF u, q
  <2>7. Going(u, mk, q, o.n)
    BY <1>7, <1>15, <2>2, <2>4 DEF Going
  <2>8. DoingCreate(o, mk, u, q, t)
    BY <1>1, <1>3, <1>7, <1>8, <1>15, <2>2, <2>3, <2>5, <2>6, <2>7 DEF DoingCreate
  <2> QED
    BY <1>12, <2>8 DEF s, t, u, q
<1>16. CASE s.k \in {"show", "putback"}
  <2>1. u.alive = w.alive
    BY <1>1, <1>16, EffectKeeps
  <2>2. t = <<>> /\ DOMAIN t = {}
    BY <1>11, <1>16
  <2> HIDE DEF u, q
  <2>3. DoingCreate(o, mk, u, q, t)
    BY <1>1, <1>3, <2>1, <2>2 DEF DoingCreate
  <2> QED
    BY <1>12, <2>3 DEF s, t, u, q
<1> QED
  BY <1>4, <1>13, <1>14, <1>15, <1>16

LEMMA BuildGoesOn ==
  ASSUME NEW o, NEW mk \in Nat, NEW w, NetOK(w), NEW st \in Seq(Entry), mk <= Len(st),
         NEW sc \in Seq(Cell), sc # <<>>, DoingBuild(o, mk, w, st, sc)
  PROVE  LET s == Head(sc)
         IN  /\ Fits(w, mk, st, s)
             /\ DoingBuild(o, mk, Effect(w, s), st \o Compensation(w, s), Tail(sc))
<1> DEFINE s == Head(sc)
           t == Tail(sc)
           u == Effect(w, s)
           q == st \o Compensation(w, s)
           T == {Step("keep", None, None, 0), Step("rename", o.m, o.m, 0),
                 Step("fill", o.n, o.x, o.v), Step("verify", o.n, None, 0),
                 Step("press", o.n, None, 0), Step("rewireback", o.m, o.n, 0),
                 Step("doom", o.m, None, 0), Step("destroy", o.m, None, 0)}
           fact == TopIs(mk, st, "fail")
           new == TopIs(mk, q, "fail")
<1>1. /\ s \in Cell /\ w \in Networks /\ s = sc[1] /\ w.alive \subseteq Node
      /\ o.n \in Node /\ o.x \in Name /\ o.v \in Value /\ o.m # o.n
  BY TailIs DEF NetOK, Networks, DoingBuild
<1>2. /\ Len(sc) \in Nat \ {0} /\ 1 \in DOMAIN sc /\ DOMAIN sc = 1 .. Len(sc) /\ Len(t) = Len(sc) - 1
      /\ DOMAIN t = 1 .. Len(sc) - 1 /\ t \in Seq(Cell)
      /\ \A i \in DOMAIN t : i \in Nat \ {0} /\ i + 1 \in DOMAIN sc /\ t[i] = sc[i + 1]
  BY TailIs
<1>3. s \in T /\ Among(t, T)
  BY AmongTail DEF DoingBuild
<1>4. /\ s.k \in {"keep", "rename", "fill", "verify", "press", "rewireback", "doom", "destroy"}
      /\ s.k \in {"rename", "rewireback", "destroy"} => s.n = o.m
      /\ s.k = "rename" => s.m = o.m
      /\ s.k = "fill" => s.n = o.n /\ s.m = o.x /\ s.v = o.v
      /\ s.k = "rewireback" => s.m = o.n
  BY <1>3 DEF Step
<1>5. \A i \in DOMAIN sc :
        /\ sc[i].k = "rename" => i = 1 \/ (i = 2 /\ sc[1].k = "keep")
        /\ sc[i].k = "fill" => \A j \in 1 .. i - 1 : sc[j].k \in {"keep", "rename"}
        /\ sc[i].k \in {"rename", "rewireback", "doom", "destroy"} => o.m \in w.alive
        /\ sc[i].k = "destroy" => i = Len(sc)
  BY DEF DoingBuild
<1>6. /\ After(sc, "destroy", "doom", fact)
      /\ Left(sc, "fill") =>
           /\ o.n \notin w.alive
           /\ Unnamed(w, o.n, o.x) \/ (Left(sc, "rename") /\ Unnamed(w, o.m, o.x))
      /\ ~Left(sc, "fill") /\ Left(sc, "rewireback") => o.n \in w.alive /\ w.src[o.n] = None
  BY DEF DoingBuild
<1> HIDE DEF s, t
<1>7. ASSUME NEW i \in DOMAIN t
      PROVE  /\ t[i].k = "rename" => i = 1 /\ s.k = "keep"
             /\ t[i].k = "fill" => s.k \in {"keep", "rename"} /\ \A j \in 1 .. i - 1 : t[j].k \in {"keep", "rename"}
             /\ t[i].k \in {"rename", "rewireback", "doom", "destroy"} => o.m \in w.alive
             /\ t[i].k = "destroy" => i = Len(t)
  <2>1. i \in Nat \ {0} /\ i + 1 \in DOMAIN sc /\ t[i] = sc[i + 1] /\ i + 1 # 1
    BY <1>2
  <2>2. t[i].k = "rename" => i = 1 /\ s.k = "keep"
    BY <1>1, <1>5, <2>1
  <2>3. ASSUME t[i].k = "fill"
        PROVE  s.k \in {"keep", "rename"} /\ \A j \in 1 .. i - 1 : t[j].k \in {"keep", "rename"}
    <3>1. \A j \in 1 .. i : sc[j].k \in {"keep", "rename"}
      BY <1>5, <2>1, <2>3
    <3>2. s.k \in {"keep", "rename"}
      <4>1. 1 \in 1 .. i
        BY <2>1
      <4>2. sc[1].k \in {"keep", "rename"}
        BY <3>1, <4>1, Zenon
      <4> QED
        BY <1>1, <4>2
    <3>3. ASSUME NEW j \in 1 .. i - 1 PROVE t[j].k \in {"keep", "rename"}
      <4>1. j \in DOMAIN t /\ j + 1 \in 1 .. i
        BY <1>2, <2>1
      <4>2. t[j] = sc[j + 1]
        BY <1>2, <4>1
      <4> QED
        BY <3>1, <4>1, <4>2
    <3> QED
      BY <3>2, <3>3
  <2>4. t[i].k \in {"rename", "rewireback", "doom", "destroy"} => o.m \in w.alive
    BY <1>5, <2>1
  <2>5. t[i].k = "destroy" => i = Len(t)
    <3>1. t[i].k = "destroy" => i + 1 = Len(sc)
      BY <1>5, <2>1
    <3> QED
      BY <1>2, <2>1, <3>1
  <2> QED
    BY <2>2, <2>3, <2>4, <2>5
<1>8. ASSUME NEW k, Left(t, k) PROVE Left(sc, k)
  BY <1>2, <1>8 DEF Left
<1>9. ASSUME NEW k, Left(sc, k), s.k # k PROVE Left(t, k)
  <2>1. PICK i \in DOMAIN sc : sc[i].k = k
    BY <1>9 DEF Left
  <2>2. i # 1
    BY <1>1, <1>9, <2>1
  <2>3. i - 1 \in DOMAIN t /\ t[i - 1] = sc[i - 1 + 1] /\ i - 1 + 1 = i
    BY <1>2, <2>1, <2>2
  <2> QED
    BY <2>1, <2>3 DEF Left
<1>10. s.k \in {"keep", "rename", "fill", "verify", "press", "rewireback", "doom", "destroy"} => Left(sc, s.k)
  BY <1>1, <1>2 DEF Left
<1>11. Left(t, "fill") => s.k \in {"keep", "rename"}
  BY <1>7 DEF Left
<1>12. ASSUME s.k = "doom" PROVE new
  <2>1. Compensation(w, s) = <<Step("fail", None, None, 0)>>
    BY <1>12 DEF Compensation
  <2>2. Top(q) = Step("fail", None, None, 0) /\ mk < Len(q)
    BY <2>1, Pushed
  <2> QED
    BY <2>2 DEF TopIs, Step
<1> HIDE DEF fact, new, q
<1>13. After(t, "destroy", "doom", new) /\ (s.k = "destroy" => fact)
  BY <1>1, <1>6, <1>12, AfterTail DEF t
<1>14. s.k \in {"rename", "rewireback", "doom", "destroy"} => o.m \in w.alive
  BY <1>1, <1>2, <1>5
<1>15. \A i \in DOMAIN t : t[i].k = "rename" => i = 1 \/ (i = 2 /\ t[1].k = "keep")
  BY <1>7
<1>16. \A i \in DOMAIN t : t[i].k = "fill" => \A j \in 1 .. i - 1 : t[j].k \in {"keep", "rename"}
  BY <1>7
<1>17. \A i \in DOMAIN t : t[i].k = "destroy" => i = Len(t)
  BY <1>7
<1>18. s.k = "fill" => ~Left(sc, "rename") \/ s.k = "rename"
  <2> SUFFICES ASSUME s.k = "fill", Left(sc, "rename") PROVE FALSE
    OBVIOUS
  <2>1. Left(t, "rename")
    BY <1>9
  <2> QED
    BY <1>7, <2>1 DEF Left
<1>19. o.m \in w.alive => Unnamed(w, o.m, o.m)
  BY <1>1, NotNone DEF NetOK, NamesOK, Unnamed
<1>20. s.k = "fill" => o.n \in Node \ w.alive /\ Unnamed(w, o.n, o.x)
  BY <1>1, <1>6, <1>10, <1>18
<1>21. s.k = "rewireback" => ~Left(sc, "fill")
  BY <1>9, <1>11
<1>22. s.k = "rewireback" => o.n \in w.alive /\ w.src[o.n] = None
  BY <1>6, <1>10, <1>21
<1>23. Fits(w, mk, st, s)
  <2>1. CASE s.k \in {"keep", "verify", "press", "doom"}
    BY <2>1 DEF Fits, RunKinds
  <2>2. CASE s.k = "rename"
    BY <1>4, <1>14, <1>19, <2>2 DEF Fits, RunKinds
  <2>3. CASE s.k = "fill"
    BY <1>1, <1>4, <1>20, <2>3 DEF Fits, RunKinds
  <2>4. CASE s.k = "rewireback"
    BY <1>1, <1>4, <1>14, <1>22, <2>4 DEF Fits, RunKinds
  <2>5. CASE s.k = "destroy"
    BY <1>4, <1>13, <1>14, <2>5 DEF Fits, RunKinds, TopIs, fact
  <2> QED
    BY <1>4, <2>1, <2>2, <2>3, <2>4, <2>5
<1>24. CASE s.k \in {"keep", "verify", "press", "doom"}
  <2>1. u = w
    BY <1>24 DEF Effect
  <2>2. Left(t, "fill") => Unnamed(w, o.n, o.x) \/ (Left(t, "rename") /\ Unnamed(w, o.m, o.x))
    BY <1>6, <1>8, <1>9, <1>24
  <2>3. ~Left(t, "fill") /\ Left(t, "rewireback") => o.n \in w.alive /\ w.src[o.n] = None
    BY <1>6, <1>8, <1>9, <1>24
  <2>4. Left(t, "fill") => o.n \notin w.alive
    BY <1>6, <1>8
  <2>5. \A i \in DOMAIN t : t[i].k \in {"rename", "rewireback", "doom", "destroy"} => o.m \in w.alive
    BY <1>7
  <2> HIDE DEF u
  <2>6. DoingBuild(o, mk, u, q, t)
    BY <1>1, <1>3, <1>13, <1>15, <1>16, <1>17, <2>1, <2>2, <2>3, <2>4, <2>5 DEF DoingBuild, new
  <2> QED
    BY <1>23, <2>6 DEF s, t, u, q
<1>25. CASE s.k = "rename"
  <2>1. u = Named(w, o.m, o.m) /\ o.m \in w.alive /\ o.m \in Node
    BY <1>1, <1>4, <1>14, <1>25 DEF Effect
  <2>2. /\ u.alive = w.alive /\ u.src = w.src /\ u.name[o.m] = o.m
        /\ \A d \in Node \ {o.m} : u.name[d] = w.name[d]
    BY <1>1, <2>1 DEF Named, Networks
  <2>3. Left(t, "fill") => Unnamed(u, o.n, o.x)
    <3>1. Left(t, "fill") => Unnamed(w, o.n, o.x) \/ Unnamed(w, o.m, o.x)
      BY <1>6, <1>8
    <3>2. o.x # o.m
      BY <1>1, <2>1, NotNone
    <3> QED
      BY <1>1, <2>2, <3>1, <3>2 DEF Unnamed
  <2>4. Left(t, "fill") => o.n \notin u.alive
    BY <1>6, <1>8, <2>2
  <2>5. ~Left(t, "fill") /\ Left(t, "rewireback") => o.n \in u.alive /\ u.src[o.n] = None
    BY <1>6, <1>8, <1>9, <1>25, <2>2
  <2>6. \A i \in DOMAIN t : t[i].k \in {"rename", "rewireback", "doom", "destroy"} => o.m \in u.alive
    BY <1>7, <2>2
  <2> HIDE DEF u
  <2>7. DoingBuild(o, mk, u, q, t)
    BY <1>1, <1>3, <1>13, <1>15, <1>16, <1>17, <2>3, <2>4, <2>5, <2>6 DEF DoingBuild, new
  <2> QED
    BY <1>23, <2>7 DEF s, t, u, q
<1>26. CASE s.k = "fill"
  <2> DEFINE n == o.n
             x == o.x
             y == o.v
  <2>1. n \in Node \ w.alive /\ x \in Name /\ Unnamed(w, n, x) /\ y \in Value
    BY <1>1, <1>20, <1>26
  <2>2. u = Valued(Created(w, n, x), n, "parm", y)
    BY <1>4, <1>26 DEF Effect
  <2> HIDE DEF n, x, y, u
  <2>3. u.alive = w.alive \cup {n} /\ u.src = w.src
    BY <2>1, <2>2, FilledOK
  <2>4. u.src[o.n] = None /\ o.n \in u.alive
    BY <2>1, <2>3 DEF NetOK, n
  <2>5. ~Left(t, "fill")
    BY <1>11, <1>26
  <2>6. \A i \in DOMAIN t : t[i].k \in {"rename", "rewireback", "doom", "destroy"} => o.m \in u.alive
    BY <1>7, <2>3
  <2>7. DoingBuild(o, mk, u, q, t)
    BY <1>1, <1>3, <1>13, <1>15, <1>16, <1>17, <2>4, <2>5, <2>6 DEF DoingBuild, new
  <2> QED
    BY <1>23, <2>7 DEF s, t, u, q
<1>27. CASE s.k = "rewireback"
  <2>1. u = Rewired(w, o.m, o.n) /\ o.m \in Node /\ w.src[o.n] = None /\ o.n \in w.alive
    BY <1>1, <1>4, <1>14, <1>22, <1>27 DEF Effect
  <2>2. u.alive = w.alive
    BY <1>1, <1>27, EffectKeeps
  <2>3. o.n \notin Consumers(w, o.m)
    BY <2>1, NotNone DEF Consumers
  <2>4. u.src[o.n] = None
    BY <1>1, <2>1, <2>3 DEF Rewired, Networks
  <2>5. ~Left(t, "fill")
    BY <1>11, <1>27
  <2>6. \A i \in DOMAIN t : t[i].k \in {"rename", "rewireback", "doom", "destroy"} => o.m \in u.alive
    BY <1>7, <2>2
  <2> HIDE DEF u
  <2>7. DoingBuild(o, mk, u, q, t)
    BY <1>1, <1>3, <1>13, <1>15, <1>16, <1>17, <2>1, <2>2, <2>4, <2>5, <2>6 DEF DoingBuild, new
  <2> QED
    BY <1>23, <2>7 DEF s, t, u, q
<1>28. CASE s.k = "destroy"
  <2>4. 1 \in DOMAIN sc /\ sc[1].k = "destroy"
    BY <1>1, <1>2, <1>28
  <2>5. 1 = Len(sc)
    BY <1>5, <2>4
  <2>1. DOMAIN t = {}
    BY <1>2, <2>5
  <2>2. ~Left(t, "fill") /\ ~Left(t, "rewireback")
    BY <2>1 DEF Left
  <2> HIDE DEF u
  <2>3. DoingBuild(o, mk, u, q, t)
    BY <1>1, <1>3, <1>13, <2>1, <2>2 DEF DoingBuild, new
  <2> QED
    BY <1>23, <2>3 DEF s, t, u, q
<1> QED
  BY <1>4, <1>24, <1>25, <1>26, <1>27, <1>28

LEMMA DeleteGoesOn ==
  ASSUME NEW mk \in Nat, NEW w, NetOK(w), NEW st \in Seq(Entry), mk <= Len(st),
         NEW sc \in Seq(Cell), sc # <<>>, DoingDelete(mk, w, st, sc), Head(sc).k # "delete"
  PROVE  LET s == Head(sc)
         IN  /\ Fits(w, mk, st, s)
             /\ DoingDelete(mk, Effect(w, s), st \o Compensation(w, s), Tail(sc))
             /\ s.k = "rewire" => Len(sc) > 1 /\ sc[2].k = "doom"
<1> DEFINE s == Head(sc)
           t == Tail(sc)
           u == Effect(w, s)
           q == st \o Compensation(w, s)
           fact == TopIs(mk, st, "fail")
           new == TopIs(mk, q, "fail")
<1>1. PICK n \in Node : \E to \in Node \cup {None} :
        /\ Among(sc, DeleteSteps(n, to) \cup Deletes)
        /\ \A i \in DOMAIN sc :
             /\ sc[i].k # "delete" => n \in w.alive
             /\ sc[i].k \in {"rewire", "rewireback"} => i = 1 /\ to \in {None, w.src[n]}
             /\ sc[i].k = "rewire" => Len(sc) > 1 /\ sc[2].k = "doom"
             /\ sc[i].k \in {"destroy", "delete"} =>
                  \A j \in DOMAIN sc : j > i => sc[j].k = "delete"
  BY DEF DoingDelete
<1>2. PICK to \in Node \cup {None} :
        /\ Among(sc, DeleteSteps(n, to) \cup Deletes)
        /\ \A i \in DOMAIN sc :
             /\ sc[i].k # "delete" => n \in w.alive
             /\ sc[i].k \in {"rewire", "rewireback"} => i = 1 /\ to \in {None, w.src[n]}
             /\ sc[i].k = "rewire" => Len(sc) > 1 /\ sc[2].k = "doom"
             /\ sc[i].k \in {"destroy", "delete"} =>
                  \A j \in DOMAIN sc : j > i => sc[j].k = "delete"
  BY <1>1
<1>3. /\ Len(sc) \in Nat \ {0} /\ 1 \in DOMAIN sc /\ DOMAIN sc = 1 .. Len(sc) /\ Len(t) = Len(sc) - 1
      /\ DOMAIN t = 1 .. Len(sc) - 1 /\ t \in Seq(Cell) /\ s = sc[1] /\ s \in Cell
      /\ \A i \in DOMAIN t : i \in Nat \ {0} /\ i + 1 \in DOMAIN sc /\ t[i] = sc[i + 1]
  BY TailIs
<1>4. s \in DeleteSteps(n, to) \cup Deletes /\ Among(t, DeleteSteps(n, to) \cup Deletes)
  BY <1>2, AmongTail
<1>5. s.k \notin {"delete"}
  OBVIOUS
<1> HIDE DEF s, t
<1>6. /\ s.k \in {"rewireback", "rename", "rewire", "doom", "destroy"} /\ s.n = n
      /\ s.k \in {"rewire", "rewireback"} => s.m = to
      /\ s.k = "rename" => s.m = n
  BY <1>4, <1>5 DEF DeleteSteps, Deletes, Step
<1>7. /\ n \in w.alive
      /\ s.k \in {"rewire", "rewireback"} => to \in {None, w.src[n]}
      /\ s.k = "rewire" => Len(sc) > 1 /\ sc[2].k = "doom"
      /\ s.k = "destroy" => \A j \in DOMAIN sc : j > 1 => sc[j].k = "delete"
  BY <1>2, <1>3, <1>6
<1>8. w \in Networks /\ w.alive \subseteq Node /\ w.src[n] \in w.alive \cup {None} /\ Unnamed(w, n, n)
  BY <1>1, <1>7, NotNone DEF NetOK, NamesOK, Networks, Unnamed
<1>9. ASSUME s.k = "doom" PROVE new
  <2>1. Compensation(w, s) = <<Step("fail", None, None, 0)>>
    BY <1>9 DEF Compensation
  <2>2. Top(q) = Step("fail", None, None, 0) /\ mk < Len(q)
    BY <2>1, Pushed
  <2> QED
    BY <2>2 DEF TopIs, Step
<1>10. After(sc, "destroy", "doom", fact)
  BY DEF DoingDelete
<1> HIDE DEF fact, new, q
<1>11. After(t, "destroy", "doom", new) /\ (s.k = "destroy" => fact)
  BY <1>3, <1>9, <1>10, AfterTail DEF t
<1>12. Fits(w, mk, st, s)
  <2>1. CASE s.k = "doom"
    BY <2>1 DEF Fits, RunKinds
  <2>2. CASE s.k = "rename"
    BY <1>6, <1>7, <1>8, <2>2 DEF Fits, RunKinds
  <2>3. CASE s.k \in {"rewire", "rewireback"}
    BY <1>6, <1>7, <1>8, <2>3 DEF Fits, RunKinds
  <2>4. CASE s.k = "destroy"
    BY <1>6, <1>7, <1>11, <2>4 DEF Fits, RunKinds, TopIs, fact
  <2> QED
    BY <1>6, <2>1, <2>2, <2>3, <2>4
<1>13. ASSUME NEW i \in DOMAIN t
       PROVE  /\ t[i].k # "delete" => n \in u.alive
              /\ t[i].k \notin {"rewire", "rewireback"}
              /\ t[i].k \in {"destroy", "delete"} =>
                   \A j \in DOMAIN t : j > i => t[j].k = "delete"
  <2>1. i \in Nat \ {0} /\ i + 1 \in DOMAIN sc /\ t[i] = sc[i + 1] /\ i + 1 # 1 /\ i + 1 > 1
    BY <1>3
  <2>2. t[i].k # "delete" => n \in u.alive
    <3>1. s.k = "destroy" => t[i].k = "delete"
      BY <1>7, <2>1
    <3>2. s.k # "destroy" => u.alive = w.alive
      BY <1>3, <1>6, <1>8, EffectKeeps
    <3> QED
      BY <1>7, <3>1, <3>2
  <2>3. t[i].k \notin {"rewire", "rewireback"}
    BY <1>2, <2>1
  <2>4. ASSUME t[i].k \in {"destroy", "delete"}, NEW j \in DOMAIN t, j > i PROVE t[j].k = "delete"
    <3>1. j + 1 \in DOMAIN sc /\ t[j] = sc[j + 1] /\ j \in Nat
      BY <1>3
    <3>2. j + 1 > i + 1
      BY <2>1, <2>4, <3>1
    <3>3. \A l \in DOMAIN sc : l > i + 1 => sc[l].k = "delete"
      BY <1>2, <2>1, <2>4
    <3>4. sc[j + 1].k = "delete"
      BY <3>1, <3>2, <3>3
    <3> QED
      BY <3>1, <3>4
  <2> QED
    BY <2>2, <2>3, <2>4
<1> HIDE DEF u
<1>14. DoingDelete(mk, u, q, t)
  <2>1. /\ Among(t, DeleteSteps(n, to) \cup Deletes)
        /\ \A i \in DOMAIN t :
            /\ t[i].k # "delete" => n \in u.alive
            /\ t[i].k \in {"rewire", "rewireback"} => i = 1 /\ to \in {None, u.src[n]}
            /\ t[i].k = "rewire" => Len(t) > 1 /\ t[2].k = "doom"
            /\ t[i].k \in {"destroy", "delete"} =>
                 \A j \in DOMAIN t : j > i => t[j].k = "delete"
    BY <1>4, <1>13
  <2> QED
    BY <1>2, <1>11, <2>1 DEF DoingDelete, new
<1> QED
  BY <1>7, <1>12, <1>14 DEF s, t, u, q

LEMMA BadGoesOn ==
  ASSUME NEW sc \in Seq(Cell), sc # <<>>, DoingBad(sc)
  PROVE  Head(sc).k = "bad"
BY AmongTail DEF DoingBad, Step

-----------------------------------------------------------------------------
(* The scripts as they begin. *)

LEMMA Joined ==
  ASSUME NEW S, NEW a \in Seq(S), NEW b \in Seq(S)
  PROVE  /\ a \o b \in Seq(S) /\ Len(a) \in Nat /\ Len(b) \in Nat /\ Len(a \o b) = Len(a) + Len(b)
         /\ DOMAIN (a \o b) = 1 .. Len(a) + Len(b) /\ DOMAIN a = 1 .. Len(a) /\ DOMAIN b = 1 .. Len(b)
         /\ \A i \in DOMAIN (a \o b) :
              \/ i \in DOMAIN a /\ (a \o b)[i] = a[i]
              \/ i > Len(a) /\ i - Len(a) \in DOMAIN b /\ (a \o b)[i] = b[i - Len(a)]
<1>1. /\ a \o b \in Seq(S) /\ Len(a \o b) = Len(a) + Len(b)
      /\ \A i \in 1 .. Len(a) + Len(b) : (a \o b)[i] = IF i <= Len(a) THEN a[i] ELSE b[i - Len(a)]
  BY ConcatProperties
<1>2. /\ Len(a) \in Nat /\ Len(b) \in Nat /\ DOMAIN a = 1 .. Len(a) /\ DOMAIN b = 1 .. Len(b)
  BY LenProperties
<1>3. DOMAIN (a \o b) = 1 .. Len(a) + Len(b)
  BY <1>1, LenProperties
<1>4. ASSUME NEW i \in 1 .. Len(a) + Len(b)
      PROVE  \/ i \in DOMAIN a /\ (a \o b)[i] = a[i]
             \/ i > Len(a) /\ i - Len(a) \in DOMAIN b /\ (a \o b)[i] = b[i - Len(a)]
  <2>1. CASE i <= Len(a)
    BY <1>1, <1>2, <2>1
  <2>2. CASE ~(i <= Len(a))
    BY <1>1, <1>2, <2>2
  <2> QED
    BY <2>1, <2>2
<1> QED
  BY <1>1, <1>2, <1>3, <1>4

LEMMA StepIsCell ==
  ASSUME NEW k \in StepKinds, NEW n \in Node \cup {None}, NEW m \in Node \cup Name \cup Attr \cup {None},
         NEW v \in Value
  PROVE  Step(k, n, m, v) \in Cell
BY DEF Step, Cell, Contents

LEMMA Pair ==
  ASSUME NEW S, NEW x \in S, NEW y \in S
  PROVE  LET q == <<x, y>>
         IN  q \in Seq(S) /\ Len(q) = 2 /\ DOMAIN q = {1, 2} /\ q[1] = x /\ q[2] = y
OBVIOUS

LEMMA Triple ==
  ASSUME NEW S, NEW x \in S, NEW y \in S, NEW z \in S
  PROVE  LET q == <<x>> \o <<y, z>>
         IN  q \in Seq(S) /\ Len(q) = 3 /\ DOMAIN q = {1, 2, 3} /\ q[1] = x /\ q[2] = y /\ q[3] = z
<1> DEFINE a == <<x>>
           b == <<y, z>>
           q == a \o b
<1>1. a \in Seq(S) /\ Len(a) = 1 /\ a[1] = x
  OBVIOUS
<1>2. b \in Seq(S) /\ Len(b) = 2 /\ b[1] = y /\ b[2] = z
  BY Pair
<1> HIDE DEF a, b
<1>3. /\ q \in Seq(S) /\ Len(q) = Len(a) + Len(b)
      /\ \A i \in 1 .. Len(a) + Len(b) : q[i] = IF i <= Len(a) THEN a[i] ELSE b[i - Len(a)]
  BY <1>1, <1>2, ConcatProperties
<1> HIDE DEF q
<1>4. DOMAIN q = {1, 2, 3} /\ Len(q) = 3
  BY <1>1, <1>2, <1>3, LenProperties
<1>5. q[1] = a[1] /\ q[2] = b[1] /\ q[3] = b[2]
  BY <1>1, <1>2, <1>3
<1> QED
  BY <1>1, <1>2, <1>3, <1>4, <1>5 DEF q, a, b

LEMMA DeleteScriptIs ==
  ASSUME NEW w, NetOK(w), NEW n \in w.alive, NEW keep \in BOOLEAN
  PROVE  LET D == DeleteScript(w, n, keep)
             to == IF keep THEN w.src[n] ELSE None
         IN  /\ D \in Seq(Cell) /\ Len(D) > 1 /\ Among(D, DeleteSteps(n, to))
             /\ \A i \in DOMAIN D :
                  /\ D[i].k \in {"rewire", "rewireback"} => i = 1
                  /\ D[i].k = "rewire" => D[2].k = "doom"
                  /\ D[i].k = "destroy" => i = Len(D) /\ D[i - 1].k = "doom"
             /\ checking => \A i \in DOMAIN D : D[i].k \in {"rewireback", "rename"}
<1> DEFINE to == IF keep THEN w.src[n] ELSE None
           a == Step("rewireback", n, to, 0)
           b == Step("rename", n, n, 0)
           c == Step("rewire", n, to, 0)
           d == Step("doom", n, None, 0)
           e == Step("destroy", n, None, 0)
           D == DeleteScript(w, n, keep)
<1>1. n \in Node /\ to \in Node \cup {None}
  BY DEF NetOK, Networks
<1>2. {a, b, c, d, e} = DeleteSteps(n, to)
  BY DEF DeleteSteps
<1>3. a.k = "rewireback" /\ b.k = "rename" /\ c.k = "rewire" /\ d.k = "doom" /\ e.k = "destroy"
  BY DEF Step
<1> HIDE DEF to
<1>4. {a, b, c, d, e} \subseteq Cell
  <2>1. {"rewireback", "rename", "rewire", "doom", "destroy"} \subseteq StepKinds /\ 0 \in Value
    BY DEF StepKinds, RunKinds, Value
  <2> QED
    BY <1>1, <2>1, StepIsCell
<1>5. D = IF checking THEN <<a, b>>
          ELSE (IF keep /\ to = None THEN <<>> ELSE <<c>>) \o <<d, e>>
  BY DEF DeleteScript, Aside, to
<1> HIDE DEF a, b, c, d, e, D
<1>6. (D = <<a, b>>) \/ (D = <<>> \o <<d, e>> /\ ~checking) \/ (D = <<c>> \o <<d, e>> /\ ~checking)
  BY <1>5
<1>7. /\ D \in Seq(Cell) /\ Len(D) > 1 /\ Among(D, DeleteSteps(n, to))
      /\ \A i \in DOMAIN D :
           /\ D[i].k \in {"rewire", "rewireback"} => i = 1
           /\ D[i].k = "rewire" => D[2].k = "doom"
           /\ D[i].k = "destroy" => i = Len(D) /\ D[i - 1].k = "doom"
      /\ checking => \A i \in DOMAIN D : D[i].k \in {"rewireback", "rename"}
  <2>1. CASE D = <<a, b>>
    <3>1. D \in Seq(Cell) /\ Len(D) = 2 /\ DOMAIN D = {1, 2} /\ D[1] = a /\ D[2] = b
      BY <1>4, <2>1, Pair
    <3> QED
      BY <1>2, <1>3, <3>1 DEF Among
  <2>2. CASE D = <<>> \o <<d, e>> /\ ~checking
    <3>1. <<d, e>> \in Seq(Cell)
      BY <1>4, Pair
    <3>2. D = <<d, e>>
      BY <2>2, <3>1, ConcatEmptySeq
    <3>3. D \in Seq(Cell) /\ Len(D) = 2 /\ DOMAIN D = {1, 2} /\ D[1] = d /\ D[2] = e
      BY <1>4, <3>2, Pair
    <3> QED
      BY <1>2, <1>3, <2>2, <3>3 DEF Among
  <2>3. CASE D = <<c>> \o <<d, e>> /\ ~checking
    <3>1. D \in Seq(Cell) /\ Len(D) = 3 /\ DOMAIN D = {1, 2, 3} /\ D[1] = c /\ D[2] = d /\ D[3] = e
      BY <1>4, <2>3, Triple
    <3>2. ~checking /\ 3 - 1 = 2
      BY <2>3
    <3> HIDE DEF D
    <3>3. Among(D, DeleteSteps(n, to))
      BY <1>2, <3>1 DEF Among
    <3> QED
      BY <1>3, <3>1, <3>2, <3>3
  <2> QED
    BY <2>1, <2>2, <2>3, <1>6
<1> QED
  BY <1>7 DEF D, to

LEMMA DeleteComes ==
  ASSUME NEW mk \in Nat, NEW w, NetOK(w), NEW st \in Seq(Entry),
         NEW sc \in Seq(Cell), sc # <<>>, DoingDelete(mk, w, st, sc),
         Head(sc).k = "delete", Head(sc).n \in w.alive, NEW keep \in BOOLEAN
  PROVE  LET D == DeleteScript(w, Head(sc).n, keep) \o Tail(sc)
         IN  /\ D \in Seq(Cell) /\ D # <<>> /\ DoingDelete(mk, w, st, D)
             /\ D[1].k # "delete"
             /\ checking => \A i \in DOMAIN D : D[i].k \in {"rewireback", "rename", "delete"}
<1> DEFINE n == Head(sc).n
           t == Tail(sc)
           a == DeleteScript(w, n, keep)
           to == IF keep THEN w.src[n] ELSE None
           D == a \o t
<1>1. /\ DOMAIN t = 1 .. Len(sc) - 1 /\ t \in Seq(Cell) /\ Head(sc) = sc[1] /\ 1 \in DOMAIN sc
      /\ \A i \in DOMAIN t : i \in Nat \ {0} /\ i + 1 \in DOMAIN sc /\ t[i] = sc[i + 1]
  BY TailIs
<1>2. n \in Node /\ to \in Node \cup {None}
  BY DEF NetOK, Networks
<1>3. /\ a \in Seq(Cell) /\ Len(a) > 1 /\ Among(a, DeleteSteps(n, to))
      /\ \A i \in DOMAIN a :
           /\ a[i].k \in {"rewire", "rewireback"} => i = 1
           /\ a[i].k = "rewire" => a[2].k = "doom"
           /\ a[i].k = "destroy" => i = Len(a) /\ a[i - 1].k = "doom"
      /\ checking => \A i \in DOMAIN a : a[i].k \in {"rewireback", "rename"}
  BY DeleteScriptIs
<1>4. \A i \in DOMAIN t : t[i].k = "delete" /\ t[i] \in Deletes
  <2>1. PICK q \in Node : \E x \in Node \cup {None} :
          /\ Among(sc, DeleteSteps(q, x) \cup Deletes)
          /\ \A i \in DOMAIN sc :
               sc[i].k \in {"destroy", "delete"} => \A j \in DOMAIN sc : j > i => sc[j].k = "delete"
    BY DEF DoingDelete
  <2>2. PICK x \in Node \cup {None} :
          /\ Among(sc, DeleteSteps(q, x) \cup Deletes)
          /\ \A i \in DOMAIN sc :
               sc[i].k \in {"destroy", "delete"} => \A j \in DOMAIN sc : j > i => sc[j].k = "delete"
    BY <2>1
  <2>3. \A j \in DOMAIN sc : j > 1 => sc[j].k = "delete"
    BY <1>1, <2>2
  <2>4. \A s \in DeleteSteps(q, x) : s.k # "delete"
    BY DEF DeleteSteps, Step
  <2>5. \A j \in DOMAIN sc : sc[j].k = "delete" => sc[j] \in Deletes
    BY <2>2, <2>4 DEF Among
  <2> HIDE DEF t
  <2>6. ASSUME NEW i \in DOMAIN t PROVE t[i].k = "delete"
    BY <1>1, <2>3
  <2> QED
    BY <1>1, <2>5, <2>6
<1> HIDE DEF n, to, a, t
<1>5. /\ D \in Seq(Cell) /\ Len(a) \in Nat /\ DOMAIN D = 1 .. Len(a) + Len(t) /\ Len(t) \in Nat
      /\ Len(D) = Len(a) + Len(t) /\ DOMAIN a = 1 .. Len(a)
      /\ \A i \in DOMAIN D :
           \/ i \in DOMAIN a /\ D[i] = a[i]
           \/ i > Len(a) /\ i - Len(a) \in DOMAIN t /\ D[i] = t[i - Len(a)]
  BY <1>1, <1>3, Joined
<1>6. \A i \in DOMAIN a : i \in DOMAIN D /\ D[i] = a[i]
  BY <1>1, <1>3, <1>5, ConcatProperties
<1> HIDE DEF D
<1>7. \A s \in DeleteSteps(n, to) : s.k \in {"rewireback", "rename", "rewire", "doom", "destroy"}
  BY DEF DeleteSteps, Step
<1>8. Among(D, DeleteSteps(n, to) \cup Deletes)
  BY <1>3, <1>4, <1>5 DEF Among
<1>9. \A i \in DOMAIN D : D[i].k = "delete" \/ (i \in DOMAIN a /\ D[i] = a[i])
  BY <1>4, <1>5
<1>10. \A i \in DOMAIN a : a[i].k # "delete"
  BY <1>3, <1>7 DEF Among
<1>11. ASSUME NEW i \in DOMAIN D
       PROVE  /\ D[i].k # "delete" => n \in w.alive
              /\ D[i].k \in {"rewire", "rewireback"} => i = 1 /\ to \in {None, w.src[n]}
              /\ D[i].k = "rewire" => Len(D) > 1 /\ D[2].k = "doom"
              /\ D[i].k \in {"destroy", "delete"} =>
                   \A j \in DOMAIN D : j > i => D[j].k = "delete"
  <2>1. D[i].k # "delete" => n \in w.alive
    BY DEF n
  <2>2. D[i].k \in {"rewire", "rewireback"} => i = 1 /\ to \in {None, w.src[n]}
    BY <1>3, <1>9 DEF to
  <2>3. ASSUME D[i].k = "rewire" PROVE Len(D) > 1 /\ D[2].k = "doom"
    <3>1. i \in DOMAIN a /\ a[i].k = "rewire"
      BY <1>9, <2>3
    <3>2. a[2].k = "doom" /\ 2 \in DOMAIN a
      BY <1>3, <1>5, <3>1
    <3> QED
      BY <1>3, <1>5, <1>6, <3>2
  <2>4. ASSUME D[i].k \in {"destroy", "delete"}, NEW j \in DOMAIN D, j > i PROVE D[j].k = "delete"
    <3>1. j > Len(a)
      <4>1. CASE i \in DOMAIN a /\ D[i] = a[i]
        <5>1. a[i].k = "destroy"
          BY <1>10, <2>4, <4>1
        <5>2. i = Len(a)
          BY <1>3, <4>1, <5>1
        <5> QED
          BY <2>4, <5>2
      <4>2. CASE i > Len(a)
        BY <1>5, <2>4, <4>2
      <4> QED
        BY <1>5, <4>1, <4>2
    <3>2. j \notin DOMAIN a
      BY <1>5, <3>1
    <3> QED
      BY <1>9, <3>2
  <2> QED
    BY <2>1, <2>2, <2>3, <2>4
<1>12. After(D, "destroy", "doom", TopIs(mk, st, "fail"))
  <2> SUFFICES ASSUME NEW i \in DOMAIN D, D[i].k = "destroy"
               PROVE  i > 1 /\ D[i - 1].k = "doom"
    BY DEF After
  <2>1. i \in DOMAIN a /\ a[i].k = "destroy"
    BY <1>9
  <2>2. i = Len(a) /\ a[i - 1].k = "doom"
    BY <1>3, <2>1
  <2>3. i > 1 /\ i - 1 \in DOMAIN a
    BY <1>3, <1>5, <2>2
  <2> QED
    BY <1>6, <2>2, <2>3
<1>13. DoingDelete(mk, w, st, D)
  BY <1>2, <1>8, <1>11, <1>12 DEF DoingDelete
<1>14. D # <<>> /\ D[1].k # "delete"
  <2>1. 1 \in DOMAIN a
    BY <1>3, <1>5
  <2> QED
    BY <1>6, <1>10, <2>1
<1>15. checking => \A i \in DOMAIN D : D[i].k \in {"rewireback", "rename", "delete"}
  BY <1>3, <1>9
<1> QED
  BY <1>5, <1>13, <1>14, <1>15 DEF D, a, n, t

LEMMA Joins ==
  ASSUME NEW S, NEW x \in S, NEW y \in S, NEW z \in S, NEW u \in S
  PROVE  /\ LET q == <<x, y>> \o <<z>>
            IN  q \in Seq(S) /\ Len(q) = 3 /\ DOMAIN q = {1, 2, 3} /\ q[1] = x /\ q[2] = y /\ q[3] = z
         /\ LET q == <<x, y>> \o <<z, u>>
            IN  /\ q \in Seq(S) /\ Len(q) = 4 /\ DOMAIN q = {1, 2, 3, 4}
                /\ q[1] = x /\ q[2] = y /\ q[3] = z /\ q[4] = u
<1> DEFINE a == <<x, y>>
           b == <<z>>
           c == <<z, u>>
           q == a \o b
           r == a \o c
<1>1. a \in Seq(S) /\ Len(a) = 2 /\ a[1] = x /\ a[2] = y
  BY Pair
<1>2. b \in Seq(S) /\ Len(b) = 1 /\ b[1] = z
  OBVIOUS
<1>3. c \in Seq(S) /\ Len(c) = 2 /\ c[1] = z /\ c[2] = u
  BY Pair
<1> HIDE DEF a, b, c
<1>4. /\ q \in Seq(S) /\ Len(q) = Len(a) + Len(b)
      /\ \A i \in 1 .. Len(a) + Len(b) : q[i] = IF i <= Len(a) THEN a[i] ELSE b[i - Len(a)]
  BY <1>1, <1>2, ConcatProperties
<1>5. /\ r \in Seq(S) /\ Len(r) = Len(a) + Len(c)
      /\ \A i \in 1 .. Len(a) + Len(c) : r[i] = IF i <= Len(a) THEN a[i] ELSE c[i - Len(a)]
  BY <1>1, <1>3, ConcatProperties
<1> HIDE DEF q, r
<1>6. DOMAIN q = {1, 2, 3} /\ Len(q) = 3 /\ q[1] = x /\ q[2] = y /\ q[3] = z
  BY <1>1, <1>2, <1>4, LenProperties
<1>7. DOMAIN r = {1, 2, 3, 4} /\ Len(r) = 4 /\ r[1] = x /\ r[2] = y /\ r[3] = z /\ r[4] = u
  BY <1>1, <1>3, <1>5, LenProperties
<1> QED
  BY <1>4, <1>5, <1>6, <1>7 DEF q, r, a, b, c

LEMMA ConnectBegins ==
  ASSUME NEW w, NetOK(w), NEW o \in ConnectOps(w)
  PROVE  LET sc == ConnectScript(o)
         IN  sc \in Seq(Cell) /\ DoingConnect(o, w, sc) /\ Fresh(sc) /\ Calm(sc)
<1> DEFINE a == Step("wireback", o.n, o.m, 0)
           sc == ConnectScript(o)
<1>1. o.n \in w.alive /\ o.m \in w.alive \cup {None} /\ w.alive \subseteq Node
  BY DEF ConnectOps, Op, NetOK, Networks
<1>2. a \in Cell
  BY <1>1, StepIsCell DEF StepKinds, RunKinds, Value
<1>3. sc = <<a>>
  BY DEF ConnectScript
<1>4. a.k = "wireback" /\ a.n = o.n
  BY DEF Step
<1>5. a \in {Step("wireback", o.n, o.m, 0)}
  OBVIOUS
<1> HIDE DEF a, sc
<1>6. sc \in Seq(Cell) /\ DOMAIN sc = {1} /\ sc[1] = a
  BY <1>2, <1>3
<1>7. DoingConnect(o, w, sc)
  BY <1>1, <1>5, <1>6 DEF DoingConnect, Among
<1>8. Fresh(sc) /\ Calm(sc)
  BY <1>4, <1>6 DEF Fresh, Calm
<1> QED
  BY <1>6, <1>7, <1>8 DEF sc

LEMMA SetBegins ==
  ASSUME NEW mk \in Nat, NEW w, NetOK(w), NEW st \in Seq(Entry), NEW o \in SetOps(w)
  PROVE  LET sc == SetScript(o)
         IN  sc \in Seq(Cell) /\ DoingSet(o, mk, w, st, sc) /\ Fresh(sc) /\ (checking => Calm(sc))
<1> DEFINE a == Step("save", o.n, "parm", 0)
           b == Step("put", o.n, "parm", o.v)
           c == Step("save", o.n, "inner", 0)
           d == Step("put", o.n, "inner", o.v)
           e == Step("press", o.n, None, 0)
           T == {a, b, c, d, e}
           sc == SetScript(o)
<1>1. o.n \in w.alive /\ o.v \in Value /\ w.alive \subseteq Node /\ o.opt \in {"none", "press", "two"}
  BY DEF SetOps, Op, NetOK, Networks, Value
<1>2. T \subseteq Cell
  <2>1. {"save", "put", "press"} \subseteq StepKinds /\ {"parm", "inner"} \subseteq Attr /\ 0 \in Value
    BY DEF StepKinds, EntryKinds, RunKinds, Value, Attr
  <2> QED
    BY <1>1, <2>1, StepIsCell
<1>3. (sc = <<a, b>>) \/ (sc = <<a, b>> \o <<c, d>>) \/ (sc = <<a, b>> \o <<e>> /\ ~checking)
  <2>1. <<a, b>> \o <<>> = <<a, b>> /\ <<c, d>> \o <<>> = <<c, d>> /\ (<<a, b>> \o <<e>>) \o <<>> = <<a, b>> \o <<e>>
    <3> HIDE DEF a, b, c, d, e
    <3>1. <<a, b>> \in Seq(Cell) /\ <<c, d>> \in Seq(Cell) /\ <<a, b>> \o <<e>> \in Seq(Cell)
      BY <1>2, Pair, Joins
    <3> QED
      BY <3>1, ConcatEmptySeq
  <2>2. CASE o.opt = "none"
    BY <2>1, <2>2 DEF SetScript, SetItem
  <2>3. CASE o.opt = "press" /\ checking
    BY <2>1, <2>3 DEF SetScript, SetItem, Press
  <2>4. CASE o.opt = "press" /\ ~checking
    BY <2>1, <2>4 DEF SetScript, SetItem, Press
  <2>5. CASE o.opt = "two"
    BY <2>1, <2>5 DEF SetScript, SetItem
  <2> QED
    BY <1>1, <2>2, <2>3, <2>4, <2>5
<1>4. /\ a.k = "save" /\ b.k = "put" /\ c.k = "save" /\ d.k = "put" /\ e.k = "press"
      /\ a.m = b.m /\ c.m = d.m
  BY DEF Step
<1> HIDE DEF a, b, c, d, e, sc
<1>5. /\ sc \in Seq(Cell) /\ Among(sc, T) /\ DOMAIN sc = 1 .. Len(sc)
      /\ \A i \in DOMAIN sc :
           /\ sc[i].k = "save" => i < Len(sc) /\ sc[i + 1].k = "put" /\ sc[i + 1].m = sc[i].m
           /\ sc[i].k = "put" => i > 1 /\ sc[i - 1].k = "save"
           /\ sc[i].k \in {"save", "put", "press"} /\ (checking => sc[i].k # "press")
  <2>1. CASE sc = <<a, b>>
    <3>1. sc \in Seq(Cell) /\ Len(sc) = 2 /\ DOMAIN sc = {1, 2} /\ sc[1] = a /\ sc[2] = b
      BY <1>2, <2>1
    <3> QED
      BY <1>4, <3>1 DEF Among
  <2>2. CASE sc = <<a, b>> \o <<c, d>>
    <3>1. /\ sc \in Seq(Cell) /\ Len(sc) = 4 /\ DOMAIN sc = {1, 2, 3, 4}
          /\ sc[1] = a /\ sc[2] = b /\ sc[3] = c /\ sc[4] = d
      BY <1>2, <2>2, Joins
    <3> QED
      BY <1>4, <3>1 DEF Among
  <2>3. CASE sc = <<a, b>> \o <<e>> /\ ~checking
    <3>1. /\ sc \in Seq(Cell) /\ Len(sc) = 3 /\ DOMAIN sc = {1, 2, 3}
          /\ sc[1] = a /\ sc[2] = b /\ sc[3] = e /\ ~checking
      BY <1>2, <2>3, Joins
    <3> QED
      BY <1>4, <3>1 DEF Among
  <2> QED
    BY <1>3, <2>1, <2>2, <2>3
<1>6. DoingSet(o, mk, w, st, sc)
  BY <1>1, <1>5 DEF DoingSet, a, b, c, d, e
<1>7. Fresh(sc) /\ (checking => Calm(sc))
  BY <1>5 DEF Fresh, Calm
<1> QED
  BY <1>5, <1>6, <1>7 DEF sc

\* Where the steps of two parts come in the whole.
LEMMA Places ==
  ASSUME NEW S, NEW a \in Seq(S), NEW b \in Seq(S)
  PROVE  /\ \A j \in DOMAIN a : j \in DOMAIN (a \o b) /\ (a \o b)[j] = a[j]
         /\ \A j \in DOMAIN b : Len(a) + j \in DOMAIN (a \o b) /\ (a \o b)[Len(a) + j] = b[j]
<1>1. /\ a \o b \in Seq(S) /\ Len(a \o b) = Len(a) + Len(b)
      /\ \A i \in 1 .. Len(a) + Len(b) : (a \o b)[i] = IF i <= Len(a) THEN a[i] ELSE b[i - Len(a)]
  BY ConcatProperties
<1>2. /\ Len(a) \in Nat /\ Len(b) \in Nat /\ DOMAIN a = 1 .. Len(a) /\ DOMAIN b = 1 .. Len(b)
      /\ DOMAIN (a \o b) = 1 .. Len(a) + Len(b)
  BY <1>1, LenProperties
<1>3. ASSUME NEW j \in DOMAIN a PROVE j \in DOMAIN (a \o b) /\ (a \o b)[j] = a[j]
  BY <1>1, <1>2
<1>4. ASSUME NEW j \in DOMAIN b
      PROVE  Len(a) + j \in DOMAIN (a \o b) /\ (a \o b)[Len(a) + j] = b[j]
  <2>1. Len(a) + j \in 1 .. Len(a) + Len(b) /\ ~(Len(a) + j <= Len(a)) /\ (Len(a) + j) - Len(a) = j
    BY <1>2
  <2> QED
    BY <1>1, <1>2, <2>1
<1> QED
  BY <1>3, <1>4

LEMMA LayoutBegins ==
  ASSUME NEW mk \in Nat, NEW w, NetOK(w), NEW st \in Seq(Entry), NEW o \in LayoutOps(w)
  PROVE  LET sc == LayoutScript(o)
         IN  sc \in Seq(Cell) /\ DoingLayout(o, mk, w, st, sc) /\ Fresh(sc) /\ Calm(sc)
<1> DEFINE k == IF o.opt = "all" THEN None ELSE o.n
           a == Step("savelooks", k, None, 0)
           b == Step("put", o.n, "look", o.v)
           c == Step("stray", o.m, "look", o.v)
           x == <<a, b>>
           y == IF o.opt = "good" THEN <<c>> ELSE <<>>
           sc == LayoutScript(o)
<1>1. /\ o.n \in w.alive /\ o.v \in Value /\ w.alive \subseteq Node /\ k \in {None, o.n}
      /\ o.m \in w.alive \cup {None} /\ (o.opt = "good" => o.m \in w.alive)
  BY DEF LayoutOps, Op, NetOK, Networks, Value
<1>2. a \in Cell /\ b \in Cell /\ c \in Cell
  <2>1. {"savelooks", "put", "stray"} \subseteq StepKinds /\ "look" \in Attr /\ 0 \in Value
    BY DEF StepKinds, EntryKinds, RunKinds, Value, Attr
  <2>2. b \in Cell /\ c \in Cell
    BY <1>1, <2>1, StepIsCell
  <2>3. a \in Cell
    BY <1>1, <2>1, StepIsCell
  <2> QED
    BY <2>2, <2>3
<1>3. a.k = "savelooks" /\ b.k = "put" /\ c.k = "stray"
  BY DEF Step
<1>4. sc = x \o y
  BY DEF LayoutScript
<1>5. a \in {Step("savelooks", None, None, 0), Step("savelooks", o.n, None, 0)}
  BY <1>1
<1> HIDE DEF a, b, c, k, sc
<1>6. x \in Seq(Cell) /\ DOMAIN x = {1, 2} /\ x[1] = a /\ x[2] = b /\ Len(x) = 2
  BY <1>2, Pair
<1>7. y \in Seq(Cell) /\ \A i \in DOMAIN y : y[i] = c /\ o.opt = "good"
  BY <1>2
<1> HIDE DEF x, y
<1>8. /\ sc \in Seq(Cell)
      /\ \A i \in DOMAIN sc :
           \/ i = 1 /\ sc[i] = a
           \/ i = 2 /\ sc[i] = b
           \/ sc[i] = c /\ o.opt = "good"
      /\ 1 \in DOMAIN sc /\ sc[1] = a
  <2>1. /\ sc \in Seq(Cell)
        /\ \A i \in DOMAIN sc :
             \/ i \in DOMAIN x /\ sc[i] = x[i]
             \/ i > Len(x) /\ i - Len(x) \in DOMAIN y /\ sc[i] = y[i - Len(x)]
    <3>1. /\ x \o y \in Seq(Cell)
          /\ \A i \in DOMAIN (x \o y) :
               \/ i \in DOMAIN x /\ (x \o y)[i] = x[i]
               \/ i > Len(x) /\ i - Len(x) \in DOMAIN y /\ (x \o y)[i] = y[i - Len(x)]
      BY <1>6, <1>7, Joined, Zenon
    <3> QED
      BY <1>4, <3>1
  <2>2. \A j \in DOMAIN x : j \in DOMAIN sc /\ sc[j] = x[j]
    <3>1. \A j \in DOMAIN x : j \in DOMAIN (x \o y) /\ (x \o y)[j] = x[j]
      <4>1. x \in Seq(Cell) /\ y \in Seq(Cell)
        BY <1>6, <1>7
      <4> QED
        BY <4>1, Places
    <3> QED
      BY <1>4, <3>1
  <2> QED
    BY <1>6, <1>7, <2>1, <2>2
<1>9. /\ Among(sc, {a, b, c})
      /\ After(sc, "put", "savelooks", TopIs(mk, st, "looks") /\ o.n \in DOMAIN Top(st).v)
      /\ \A i \in DOMAIN sc : sc[i].k = "stray" => o.m \in w.alive
  BY <1>1, <1>3, <1>8 DEF Among, After
<1>10. DoingLayout(o, mk, w, st, sc)
  <2>1. Among(sc, {Step("savelooks", None, None, 0), Step("savelooks", o.n, None, 0),
                   Step("put", o.n, "look", o.v), Step("stray", o.m, "look", o.v)})
    BY <1>5, <1>9 DEF Among, b, c
  <2> QED
    BY <1>1, <1>9, <2>1 DEF DoingLayout
<1>11. Fresh(sc) /\ Calm(sc)
  BY <1>3, <1>8 DEF Fresh, Calm
<1> QED
  BY <1>8, <1>10, <1>11 DEF sc

LEMMA SelectBegins ==
  ASSUME NEW mk \in Nat, NEW w, NetOK(w), NEW st \in Seq(Entry), NEW o \in SelectOps(w)
  PROVE  LET sc == SelectScript(o)
         IN  sc \in Seq(Cell) /\ DoingSelect(o, mk, w, st, sc) /\ Fresh(sc) /\ Calm(sc)
<1> DEFINE a == Step("savesel", None, None, 0)
           b == Step("select", o.n, None, 0)
           sc == SelectScript(o)
<1>1. o.n \in w.alive /\ w.alive \subseteq Node
  BY DEF SelectOps, Op, NetOK, Networks
<1>2. {a, b} \subseteq Cell
  <2>1. {"savesel", "select"} \subseteq StepKinds /\ 0 \in Value
    BY DEF StepKinds, EntryKinds, RunKinds, Value
  <2> QED
    BY <1>1, <2>1, StepIsCell
<1>3. a.k = "savesel" /\ b.k = "select"
  BY DEF Step
<1>4. sc = <<>> \/ sc = <<a, b>>
  BY DEF SelectScript
<1> HIDE DEF a, b, sc
<1>5. sc \in Seq(Cell) /\ (DOMAIN sc = {} \/ (DOMAIN sc = {1, 2} /\ sc[1] = a /\ sc[2] = b))
  <2>1. CASE sc = <<>>
    BY <2>1
  <2>2. CASE sc = <<a, b>>
    BY <1>2, <2>2, Pair
  <2> QED
    BY <1>4, <2>1, <2>2
<1>6. Among(sc, {a, b}) /\ After(sc, "select", "savesel", TopIs(mk, st, "select"))
  BY <1>3, <1>5 DEF Among, After
<1>7. DoingSelect(o, mk, w, st, sc)
  BY <1>1, <1>6 DEF DoingSelect, a, b
<1>8. Fresh(sc) /\ Calm(sc)
  BY <1>3, <1>5 DEF Fresh, Calm
<1> QED
  BY <1>5, <1>7, <1>8 DEF sc

LEMMA DeletesBegin ==
  ASSUME NEW mk \in Nat, NEW w, NetOK(w), NEW st \in Seq(Entry), NEW o \in DeleteOps(w), o.n # o.m
  PROVE  LET sc == DeletesScript(o)
         IN  sc \in Seq(Cell) /\ DoingDelete(mk, w, st, sc) /\ Fresh(sc) /\ Calm(sc)
<1> DEFINE a == Step("delete", o.n, None, o.v)
           b == Step("delete", o.m, None, o.v)
           sc == DeletesScript(o)
<1>1. /\ o.n \in w.alive /\ o.m \in w.alive \cup {None} /\ o.v \in {0, 1} /\ w.alive \subseteq Node
  BY DEF DeleteOps, Op, NetOK, Networks
<1>2. a \in Cell /\ (o.m # None => b \in Cell)
  <2>1. "delete" \in StepKinds /\ o.v \in Value
    BY <1>1 DEF StepKinds, Value
  <2> QED
    BY <1>1, <2>1, StepIsCell
<1>3. a \in Deletes /\ (o.m # None => b \in Deletes)
  BY <1>1 DEF Deletes
<1>4. a.k = "delete" /\ b.k = "delete"
  BY DEF Step
<1>5. (sc = <<a>> \o <<>>) \/ (sc = <<a>> \o <<b>> /\ o.m # None)
  BY DEF DeletesScript
<1> HIDE DEF a, b, sc
<1>6. sc \in Seq(Cell) /\ Among(sc, Deletes) /\ \A i \in DOMAIN sc : sc[i].k = "delete"
  <2>1. CASE sc = <<a>> \o <<>>
    <3>1. sc = <<a>>
      BY <1>2, <2>1, ConcatEmptySeq
    <3>2. sc \in Seq(Cell) /\ DOMAIN sc = {1} /\ sc[1] = a
      BY <1>2, <3>1
    <3> QED
      BY <1>3, <1>4, <3>2 DEF Among
  <2>2. CASE sc = <<a>> \o <<b>> /\ o.m # None
    <3> DEFINE x == <<a>>
               y == <<b>>
    <3>1. x \in Seq(Cell) /\ y \in Seq(Cell)
      BY <1>2, <2>2
    <3>2. \A i \in DOMAIN x : x[i] = a
      OBVIOUS
    <3>3. \A i \in DOMAIN y : y[i] = b
      OBVIOUS
    <3> HIDE DEF x, y
    <3>4. sc \in Seq(Cell) /\ \A i \in DOMAIN sc : sc[i] \in {a, b}
      BY <2>2, <3>1, <3>2, <3>3, Joined DEF x, y
    <3> QED
      BY <1>3, <1>4, <2>2, <3>4 DEF Among
  <2> QED
    BY <1>5, <2>1, <2>2
<1>7. DoingDelete(mk, w, st, sc)
  <2>1. \E q \in Node : \E to \in Node \cup {None} :
          /\ Among(sc, DeleteSteps(q, to) \cup Deletes)
          /\ \A i \in DOMAIN sc :
               /\ sc[i].k # "delete" => q \in w.alive
               /\ sc[i].k \in {"rewire", "rewireback"} => i = 1 /\ to \in {None, w.src[q]}
               /\ sc[i].k = "rewire" => Len(sc) > 1 /\ sc[2].k = "doom"
               /\ sc[i].k \in {"destroy", "delete"} =>
                    \A j \in DOMAIN sc : j > i => sc[j].k = "delete"
    <3>1. o.n \in Node /\ None \in Node \cup {None}
      BY <1>1
    <3>2. Among(sc, DeleteSteps(o.n, None) \cup Deletes)
      BY <1>6 DEF Among
    <3> QED
      BY <1>6, <3>1, <3>2
  <2>2. After(sc, "destroy", "doom", TopIs(mk, st, "fail"))
    BY <1>6 DEF After
  <2> QED
    BY <2>1, <2>2 DEF DoingDelete
<1>8. Fresh(sc) /\ Calm(sc)
  BY <1>6 DEF Fresh, Calm
<1> QED
  BY <1>6, <1>7, <1>8 DEF sc

LEMMA CopyBegins ==
  ASSUME NEW mk \in Nat, NEW w, NetOK(w), NEW st \in Seq(Entry), NEW o \in CopyOps(w)
  PROVE  LET sc == CopyScript(o)
         IN  sc \in Seq(Cell) /\ DoingCopy(o, mk, w, st, sc) /\ Fresh(sc) /\ Calm(sc)
<1> DEFINE a == Step("copy", o.m, o.n, 0)
           b == Step("name", o.m, o.x, 0)
           c == Step("wire", o.m, None, 0)
           T == {a, b, c}
           x == <<a>>
           y == IF o.x = None THEN <<>> ELSE <<b>>
           z == IF o.opt = "cut" THEN <<c>> ELSE <<>>
           xy == x \o y
           sc == xy \o z
<1>1. /\ o.n \in w.alive /\ o.m \in Node /\ o.m \notin w.alive /\ o.m \notin Initial /\ w.alive \subseteq Node
      /\ o.x \in Free(w) \cup {None}
  BY DEF CopyOps, Op, NetOK, Networks
<1>2. o.x # None => o.x \in Name /\ Unnamed(w, o.m, o.x)
  BY <1>1 DEF Free, Taken, Unnamed
<1>3. a \in Cell /\ c \in Cell /\ (o.x # None => b \in Cell)
  <2>1. {"copy", "name", "wire"} \subseteq StepKinds /\ 0 \in Value
    BY DEF StepKinds, EntryKinds, RunKinds, Value
  <2> QED
    BY <1>1, <1>2, <2>1, StepIsCell
<1>4. a.k = "copy" /\ a.n = o.m /\ b.k = "name" /\ c.k = "wire"
  BY DEF Step
<1>5. CopyScript(o) = sc
  BY DEF CopyScript
<1> HIDE DEF a, b, c
<1>6. x \in Seq(Cell) /\ Len(x) = 1 /\ x[1] = a
  BY <1>3
<1>7. y \in Seq(Cell) /\ \A i \in DOMAIN y : y[i] = b /\ o.x # None
  BY <1>3
<1>8. z \in Seq(Cell) /\ \A i \in DOMAIN z : z[i] = c
  BY <1>3
<1> HIDE DEF x, y, z
<1>9. /\ xy \in Seq(Cell) /\ Len(xy) \in Nat /\ Len(xy) > 0 /\ xy[1] = a
      /\ \A i \in DOMAIN xy : (i = 1 /\ xy[i] = a) \/ (i > 1 /\ xy[i] = b /\ o.x # None)
  <2>1. xy[1] = x[1]
    BY <1>6, <1>7, ConcatProperties
  <2> QED
    BY <1>6, <1>7, <2>1, Joined
<1> HIDE DEF xy
<1>10. /\ sc \in Seq(Cell)
       /\ \A i \in DOMAIN sc :
            (i = 1 /\ sc[i] = a) \/ (i > 1 /\ sc[i] = b /\ o.x # None) \/ (i > 1 /\ sc[i] = c)
  BY <1>8, <1>9, Joined
<1>11. sc # <<>> /\ sc[1] = a
  <2>1. 1 \in 1 .. Len(xy) + Len(z) /\ sc[1] = xy[1] /\ Len(sc) = Len(xy) + Len(z) /\ Len(xy) + Len(z) > 0
    BY <1>8, <1>9, ConcatProperties, LenProperties
  <2> QED
    BY <1>9, <1>10, <2>1
<1> HIDE DEF sc
<1>12. DoingCopy(o, mk, w, st, sc)
  <2>1. Among(sc, T)
    BY <1>10 DEF Among
  <2>2. \A i \in DOMAIN sc : (sc[i].k = "copy" => i = 1) /\ (sc[i].k = "name" => o.x # None)
    BY <1>4, <1>10
  <2> QED
    BY <1>1, <1>2, <1>4, <1>11, <2>1, <2>2 DEF DoingCopy, a, b, c
<1>13. Fresh(sc) /\ Calm(sc)
  <2>1. \A i \in DOMAIN sc : sc[i].k \in {"copy", "name", "wire"} /\ (sc[i].k = "copy" => sc[i].n \notin Initial)
    BY <1>1, <1>4, <1>10
  <2> QED
    BY <2>1 DEF Fresh, Calm
<1> QED
  BY <1>5, <1>10, <1>12, <1>13

LEMMA NodeBegins ==
  ASSUME NEW mk \in Nat, NEW w, NetOK(w), NEW st \in Seq(Entry), NEW o \in NodeOps(w)
  PROVE  LET sc == NodeScript(w, o)
         IN  sc \in Seq(Cell) /\ DoingNode(o, mk, w, st, sc) /\ Fresh(sc) /\ (checking => Calm(sc))
<1> DEFINE a == Step("rename", o.n, o.x, 0)
           b == Step("keep", None, None, 0)
           c == Step("show", o.n, None, 0)
           d == Step("putback", o.n, "look", o.v)
           e == Step("putback", o.n, "parm", o.v)
           f == Step("lock", o.n, None, 0)
           g == Step("unlock", o.n, None, 0)
           h == Step("stray", o.n, "badge", o.v)
           T == {a, b, c, d, e, f, g, h}
           x == IF o.x \in {None, w.name[o.n]} THEN <<>> ELSE <<a>>
           y == CASE o.opt = "show" -> <<b>> \o <<c>>
                  [] o.opt = "look" -> <<d>>
                  [] o.opt = "comment" -> <<d>> \o <<h>>
                  [] o.opt = "spare" -> <<e>>
                  [] o.opt = "lock" /\ ~checking /\ o.n \notin w.locked -> <<f>>
                  [] o.opt = "unlock" /\ o.n \in w.locked -> <<g>>
                  [] OTHER -> <<>>
           sc == x \o y
<1>1. /\ o.n \in w.alive /\ o.v \in Value /\ w.alive \subseteq Node
      /\ o.x \in Free(w) \cup {None} /\ o.opt \in {"show", "look", "comment", "spare", "lock", "unlock"}
  BY DEF NodeOps, Op, NetOK, Networks, Value
<1>2. o.x # None => o.x \in Name /\ Unnamed(w, o.n, o.x)
  BY <1>1 DEF Free, Taken, Unnamed
<1>3. {b, c, d, e, f, g, h} \subseteq Cell /\ (o.x # None => a \in Cell)
  <2>1. /\ {"rename", "keep", "show", "putback", "stray", "lock", "unlock"} \subseteq StepKinds /\ 0 \in Value
        /\ {"look", "parm", "badge"} \subseteq Attr
    BY DEF StepKinds, EntryKinds, RunKinds, Value, Attr
  <2>2. b \in Cell /\ c \in Cell
    BY <1>1, <2>1, StepIsCell
  <2>3. d \in Cell /\ e \in Cell /\ h \in Cell
    BY <1>1, <2>1, StepIsCell
  <2>4. f \in Cell /\ g \in Cell
    BY <1>1, <2>1, StepIsCell
  <2>5. o.x # None => a \in Cell
    BY <1>1, <1>2, <2>1, StepIsCell
  <2> QED
    BY <2>2, <2>3, <2>4, <2>5
<1>4. /\ a.k = "rename" /\ b.k = "keep" /\ c.k = "show" /\ d.k = "putback" /\ e.k = "putback"
      /\ f.k = "lock" /\ g.k = "unlock" /\ h.k = "stray"
  BY DEF Step
<1>5. NodeScript(w, o) = sc
  <2>1. <<d, h>> = <<d>> \o <<h>>
    OBVIOUS
  <2> HIDE DEF d, h
  <2> QED
    BY <2>1 DEF NodeScript, CommentSteps, Keep, ShowSteps, SpareSteps, d, h
<1> HIDE DEF a, b, c, d, e, f, g, h
<1>6. x \in Seq(Cell) /\ \A i \in DOMAIN x : i = 1 /\ x[i] = a /\ o.x # None
  BY <1>3
<1>7. /\ y \in Seq(Cell)
      /\ \A i \in DOMAIN y :
           /\ y[i] \in {b, c, d, e, f, g, h}
           /\ y[i].k = "show" => i = 2 /\ y[1].k = "keep"
           /\ y[i].k = "lock" => i = Len(y) /\ o.n \notin w.locked /\ ~checking
           /\ y[i].k = "unlock" => i = Len(y) /\ o.n \in w.locked
  <2>0. \/ y = <<b>> \o <<c>> \/ y = <<d>> \o <<h>> \/ y = <<d>> \/ y = <<e>>
        \/ (y = <<f>> /\ o.n \notin w.locked /\ ~checking) \/ (y = <<g>> /\ o.n \in w.locked)
        \/ y = <<>>
    OBVIOUS
  <2> HIDE DEF y
  <2>1. CASE y = <<b>> \o <<c>>
    <3> DEFINE p == <<b>>
               q == <<c>>
    <3>1. p \in Seq(Cell) /\ q \in Seq(Cell) /\ Len(p) = 1 /\ Len(q) = 1 /\ p[1] = b /\ q[1] = c
      BY <1>3
    <3>2. y = p \o q
      BY <2>1
    <3> HIDE DEF p, q
    <3>3. /\ y \in Seq(Cell) /\ Len(y) = Len(p) + Len(q)
          /\ \A i \in 1 .. Len(p) + Len(q) : y[i] = IF i <= Len(p) THEN p[i] ELSE q[i - Len(p)]
      BY <3>1, <3>2, ConcatProperties
    <3>4. DOMAIN y = {1, 2} /\ y[1] = b /\ y[2] = c
      BY <3>1, <3>3, LenProperties
    <3> QED
      BY <1>4, <3>3, <3>4
  <2>2. CASE y = <<d>>
    <3>1. y \in Seq(Cell) /\ DOMAIN y = {1} /\ y[1] = d
      BY <1>3, <2>2
    <3> QED
      BY <1>4, <3>1
  <2>3. CASE y = <<e>>
    <3>1. y \in Seq(Cell) /\ DOMAIN y = {1} /\ y[1] = e
      BY <1>3, <2>3
    <3> QED
      BY <1>4, <3>1
  <2>4. CASE y = <<f>> /\ o.n \notin w.locked /\ ~checking
    <3>1. y \in Seq(Cell) /\ DOMAIN y = {1} /\ y[1] = f /\ Len(y) = 1
      BY <1>3, <2>4
    <3>2. o.n \notin w.locked /\ ~checking
      BY <2>4
    <3> QED
      BY <1>4, <3>1, <3>2
  <2>5. CASE y = <<g>> /\ o.n \in w.locked
    <3>1. y \in Seq(Cell) /\ DOMAIN y = {1} /\ y[1] = g /\ Len(y) = 1
      BY <1>3, <2>5
    <3>2. o.n \in w.locked
      BY <2>5
    <3> QED
      BY <1>4, <3>1, <3>2
  <2>7. CASE y = <<d>> \o <<h>>
    <3> DEFINE p == <<d>>
               q == <<h>>
    <3>1. p \in Seq(Cell) /\ q \in Seq(Cell) /\ Len(p) = 1 /\ Len(q) = 1 /\ p[1] = d /\ q[1] = h
      BY <1>3
    <3>2. y = p \o q
      BY <2>7
    <3> HIDE DEF p, q
    <3>3. /\ y \in Seq(Cell) /\ Len(y) = Len(p) + Len(q)
          /\ \A i \in 1 .. Len(p) + Len(q) : y[i] = IF i <= Len(p) THEN p[i] ELSE q[i - Len(p)]
      BY <3>1, <3>2, ConcatProperties
    <3>4. DOMAIN y = {1, 2} /\ y[1] = d /\ y[2] = h
      BY <3>1, <3>3, LenProperties
    <3> QED
      BY <1>4, <3>3, <3>4
  <2>6. CASE y = <<>>
    <3>1. y \in Seq(Cell) /\ DOMAIN y = {}
      BY <2>6
    <3> QED
      BY <3>1
  <2> QED
    BY <2>0, <2>1, <2>2, <2>3, <2>4, <2>5, <2>6, <2>7
<1> HIDE DEF x, y
<1>8. /\ sc \in Seq(Cell) /\ Len(x) \in Nat /\ Len(y) \in Nat /\ Len(sc) = Len(x) + Len(y)
      /\ \A i \in DOMAIN sc :
           \/ i = 1 /\ sc[i] = a /\ o.x # None
           \/ i > Len(x) /\ i - Len(x) \in DOMAIN y /\ sc[i] = y[i - Len(x)]
  BY <1>6, <1>7, Joined
<1>9. \A j \in DOMAIN y : Len(x) + j \in DOMAIN sc /\ sc[Len(x) + j] = y[j]
  BY <1>6, <1>7, Places
<1> HIDE DEF sc
<1>10. ASSUME NEW i \in DOMAIN sc
       PROVE  /\ sc[i] \in T
              /\ sc[i].k = "show" => i > 1 /\ sc[i - 1].k = "keep"
              /\ sc[i].k = "rename" => i = 1 /\ o.x # None
              /\ sc[i].k = "lock" => i = Len(sc) /\ o.n \notin w.locked /\ ~checking
              /\ sc[i].k = "unlock" => i = Len(sc) /\ o.n \in w.locked
  <2>1. CASE i = 1 /\ sc[i] = a /\ o.x # None
    BY <1>4, <2>1
  <2>2. CASE i > Len(x) /\ i - Len(x) \in DOMAIN y /\ sc[i] = y[i - Len(x)]
    <3>1. PICK j \in DOMAIN y : j = i - Len(x) /\ sc[i] = y[j]
      BY <2>2
    <3>2. i \in Nat /\ j \in Nat
      BY <1>7, <1>8, LenProperties
    <3>3. sc[i] \in {b, c, d, e, f, g, h}
      BY <1>7, <3>1
    <3>4. ASSUME sc[i].k = "show" PROVE i > 1 /\ sc[i - 1].k = "keep"
      <4>1. j = 2 /\ y[1].k = "keep"
        BY <1>7, <3>1, <3>4
      <4>2. i = Len(x) + 2 /\ i - 1 = Len(x) + 1 /\ 1 \in DOMAIN y
        <5>1. DOMAIN y = 1 .. Len(y)
          BY <1>7, LenProperties
        <5>2. 1 \in DOMAIN y
          BY <1>8, <3>1, <4>1, <5>1
        <5> QED
          BY <1>8, <3>1, <3>2, <4>1, <5>2
      <4>3. sc[Len(x) + 1] = y[1]
        BY <1>9, <4>2
      <4> QED
        BY <1>8, <4>1, <4>2, <4>3
    <3>5. sc[i].k = "lock" => i = Len(sc) /\ o.n \notin w.locked /\ ~checking
      BY <1>7, <1>8, <3>1, <3>2
    <3>6. sc[i].k = "unlock" => i = Len(sc) /\ o.n \in w.locked
      BY <1>7, <1>8, <3>1, <3>2
    <3>7. sc[i].k # "rename"
      BY <1>4, <3>3
    <3> QED
      BY <3>3, <3>4, <3>5, <3>6, <3>7
  <2> QED
    BY <1>8, <2>1, <2>2
<1>11. DoingNode(o, mk, w, st, sc)
  <2>1. Among(sc, T)
    BY <1>10 DEF Among
  <2>2. After(sc, "show", "keep", TopIs(mk, st, "show"))
    BY <1>10 DEF After
  <2>3. \A i \in DOMAIN sc :
          /\ sc[i].k = "rename" => i = 1 /\ o.x \in Name /\ Unnamed(w, o.n, o.x)
          /\ sc[i].k = "lock" => i = Len(sc) /\ o.n \notin w.locked
          /\ sc[i].k = "unlock" => i = Len(sc) /\ o.n \in w.locked
    BY <1>2, <1>10
  <2> QED
    BY <1>1, <2>1, <2>2, <2>3 DEF DoingNode, a, b, c, d, e, f, g, h
<1>12. \A s \in T : s.k \in {"rename", "keep", "show", "putback", "stray", "lock", "unlock"}
  BY <1>4
<1>13. Fresh(sc) /\ (checking => Calm(sc))
  <2> HIDE DEF T
  <2>1. \A i \in DOMAIN sc : sc[i].k \in {"rename", "keep", "show", "putback", "stray", "lock", "unlock"}
    BY <1>10, <1>12
  <2> QED
    BY <1>10, <2>1 DEF Fresh, Calm
<1> QED
  BY <1>5, <1>8, <1>11, <1>13

LEMMA CreateBegins ==
  ASSUME NEW mk \in Nat, NEW w, NetOK(w), NEW st \in Seq(Entry), NEW o \in CreateOps(w)
  PROVE  LET sc == CreateScript(w, o)
         IN  sc \in Seq(Cell) /\ DoingCreate(o, mk, w, st, sc) /\ Fresh(sc) /\ (checking => Calm(sc))
<1> DEFINE a == Step("keep", None, None, 0)
           b == Step("new", o.n, o.x, 0)
           c == Step("put", o.n, "parm", o.v)
           d == Step("wire", o.n, o.m, 0)
           e == Step("show", o.n, None, 0)
           f == Step("press", o.n, None, 0)
           g == Step("putback", o.m, "parm", 1)
           T == {a, b, c, d, e, f, g}
           x == <<a>> \o <<b, c>>
           y == IF o.m = None THEN <<>> ELSE <<d>>
           z == CASE o.opt = "show" -> <<e>>
                  [] o.opt = "press" -> IF checking THEN <<>> ELSE <<f>>
                  [] o.opt = "pair" -> IF o.m = None \/ w.attr[o.m]["parm"] # 0 THEN <<>> ELSE <<g>>
                  [] OTHER -> <<>>
           xy == x \o y
           sc == xy \o z
<1>1. /\ o.n \in Node /\ o.n \notin w.alive /\ o.n \notin Initial /\ o.v \in Value
      /\ w.alive \subseteq Node /\ o.m \in w.alive \cup {None} /\ o.m # o.n
      /\ o.x \in Free(w) /\ o.opt \in {"none", "show", "press", "pair"}
  BY NotNone DEF CreateOps, Op, NetOK, Networks, Value
<1>2. o.x \in Name /\ Unnamed(w, o.n, o.x)
  BY <1>1 DEF Free, Taken, Unnamed
<1>3. {a, b, c, e, f} \subseteq Cell /\ d \in Cell /\ g \in Cell
  <2>1. /\ {"keep", "new", "put", "wire", "show", "press", "putback"} \subseteq StepKinds
        /\ {0, 1} \subseteq Value /\ "parm" \in Attr
    BY DEF StepKinds, EntryKinds, RunKinds, Value, Attr
  <2>2. a \in Cell /\ b \in Cell
    BY <1>1, <1>2, <2>1, StepIsCell
  <2>3. c \in Cell
    BY <1>1, <2>1, StepIsCell
  <2>4. e \in Cell /\ f \in Cell
    BY <1>1, <2>1, StepIsCell
  <2>5. d \in Cell
    BY <1>1, <2>1, StepIsCell
  <2>6. g \in Cell
    BY <1>1, <2>1, StepIsCell
  <2> QED
    BY <2>2, <2>3, <2>4, <2>5, <2>6
<1>4. /\ a.k = "keep" /\ b.k = "new" /\ c.k = "put" /\ d.k = "wire" /\ e.k = "show" /\ f.k = "press"
      /\ g.k = "putback" /\ b.n = o.n
  BY DEF Step
<1>5. CreateScript(w, o) = sc
  BY DEF CreateScript, Keep, ShowSteps, Press, PairSteps
<1> HIDE DEF a, b, c, d, e, f, g
<1>6. x \in Seq(Cell) /\ Len(x) = 3 /\ DOMAIN x = {1, 2, 3} /\ x[1] = a /\ x[2] = b /\ x[3] = c
  BY <1>3, Triple
<1>7. y \in Seq(Cell) /\ \A i \in DOMAIN y : y[i] = d
  BY <1>3
<1>8. /\ z \in Seq(Cell)
      /\ \A i \in DOMAIN z : /\ i = Len(z) /\ z[i] \in {e, f, g} /\ (z[i] = f => ~checking)
                             /\ z[i] = g => o.m # None
  <2>1. (z = <<>>) \/ (z = <<e>>) \/ (z = <<f>> /\ ~checking) \/ (z = <<g>> /\ o.m # None)
    OBVIOUS
  <2> HIDE DEF z
  <2>2. CASE z = <<>>
    BY <2>2
  <2>3. CASE z = <<e>>
    <3>1. z \in Seq(Cell) /\ DOMAIN z = {1} /\ Len(z) = 1 /\ z[1] = e
      BY <1>3, <2>3
    <3> QED
      BY <1>4, <3>1
  <2>4. CASE z = <<f>> /\ ~checking
    <3>1. z \in Seq(Cell) /\ DOMAIN z = {1} /\ Len(z) = 1 /\ z[1] = f /\ ~checking
      BY <1>3, <2>4
    <3> QED
      BY <1>4, <3>1
  <2>5. CASE z = <<g>> /\ o.m # None
    <3>1. z \in Seq(Cell) /\ DOMAIN z = {1} /\ Len(z) = 1 /\ z[1] = g /\ o.m # None
      BY <1>3, <2>5
    <3> QED
      BY <1>4, <3>1
  <2> QED
    BY <2>1, <2>2, <2>3, <2>4, <2>5
<1> HIDE DEF x, y, z
<1>9. /\ xy \in Seq(Cell) /\ Len(xy) \in Nat /\ Len(xy) > 2
      /\ \A i \in DOMAIN xy :
           \/ i = 1 /\ xy[i] = a
           \/ i = 2 /\ xy[i] = b
           \/ i > 2 /\ xy[i] \in {c, d}
  <2>1. x \in Seq(Cell) /\ y \in Seq(Cell)
    BY <1>6, <1>7
  <2>2. /\ xy \in Seq(Cell) /\ Len(y) \in Nat /\ Len(xy) = Len(x) + Len(y)
        /\ \A i \in DOMAIN xy :
             \/ i \in DOMAIN x /\ xy[i] = x[i]
             \/ i > Len(x) /\ i - Len(x) \in DOMAIN y /\ xy[i] = y[i - Len(x)]
    BY <2>1, Joined
  <2> HIDE DEF xy
  <2>3. ASSUME NEW i \in DOMAIN xy
        PROVE  \/ i = 1 /\ xy[i] = a
               \/ i = 2 /\ xy[i] = b
               \/ i > 2 /\ xy[i] \in {c, d}
    <3>1. CASE i \in DOMAIN x /\ xy[i] = x[i]
      BY <1>6, <3>1
    <3>2. CASE i > Len(x) /\ i - Len(x) \in DOMAIN y /\ xy[i] = y[i - Len(x)]
      <4>1. i > 3
        BY <1>6, <3>2
      <4>2. i > 2
        BY <2>2, <4>1, LenProperties
      <4> QED
        BY <1>7, <3>2, <4>2
    <3> QED
      BY <2>2, <3>1, <3>2
  <2> QED
    BY <1>6, <2>2, <2>3
<1>10. xy[1] = a /\ xy[2] = b /\ 1 \in DOMAIN xy /\ 2 \in DOMAIN xy
  <2>1. \A j \in DOMAIN x : j \in DOMAIN xy /\ xy[j] = x[j]
    BY <1>6, <1>7, Places
  <2> QED
    BY <1>6, <2>1
<1> HIDE DEF xy
<1>11. /\ sc \in Seq(Cell) /\ Len(z) \in Nat /\ Len(sc) = Len(xy) + Len(z)
       /\ \A i \in DOMAIN sc :
            \/ i = 1 /\ sc[i] = a
            \/ i = 2 /\ sc[i] = b
            \/ i > 2 /\ sc[i] \in {c, d}
            \/ i > Len(xy) /\ i - Len(xy) \in DOMAIN z /\ sc[i] = z[i - Len(xy)]
  BY <1>8, <1>9, Joined
<1>12. sc[1] = a /\ sc[2] = b /\ 1 \in DOMAIN sc
  <2>1. \A j \in DOMAIN xy : j \in DOMAIN sc /\ sc[j] = xy[j]
    BY <1>8, <1>9, Places
  <2> QED
    BY <1>10, <2>1
<1> HIDE DEF sc
<1>13. ASSUME NEW i \in DOMAIN sc
       PROVE  \/ i = 1 /\ sc[i] = a
              \/ i = 2 /\ sc[i] = b
              \/ i > 2 /\ sc[i] \in {c, d}
              \/ /\ i > 2 /\ i = Len(sc) /\ sc[i] \in {e, f, g} /\ (sc[i] = f => ~checking)
                 /\ sc[i] = g => o.m # None
  <2>1. CASE i > Len(xy) /\ i - Len(xy) \in DOMAIN z /\ sc[i] = z[i - Len(xy)]
    <3>1. PICK j \in DOMAIN z : j = i - Len(xy) /\ sc[i] = z[j]
      BY <2>1
    <3>2. i \in Nat
      BY <1>11, LenProperties
    <3>3. j = Len(z) /\ i = Len(sc) /\ i > 2
      BY <1>8, <1>9, <1>11, <2>1, <3>1, <3>2
    <3> QED
      BY <1>8, <3>1, <3>3
  <2>2. CASE ~(i > Len(xy) /\ i - Len(xy) \in DOMAIN z /\ sc[i] = z[i - Len(xy)])
    BY <1>11, <2>2
  <2> QED
    BY <2>1, <2>2
<1>14. DoingCreate(o, mk, w, st, sc)
  <2>1. Among(sc, T)
    BY <1>13 DEF Among
  <2>2. Len(sc) > 1 /\ sc # <<>> /\ sc[1].k = "keep" /\ sc[2].k = "new"
    BY <1>4, <1>9, <1>11, <1>12
  <2>3. ASSUME NEW i \in DOMAIN sc
        PROVE  /\ sc[i].k = "keep" => i = 1 /\ Len(sc) > 1 /\ sc[2].k = "new"
               /\ sc[i].k = "new" => i = 1 \/ (i = 2 /\ sc[1].k = "keep")
               /\ sc[i].k \in {"show", "putback"} => i = Len(sc)
               /\ sc[i].k = "putback" => o.m # None
    BY <1>4, <1>13, <2>2
  <2> QED
    BY <1>1, <1>2, <2>1, <2>2, <2>3 DEF DoingCreate, a, b, c, d, e, f, g
<1>15. Fresh(sc) /\ (checking => Calm(sc))
  <2>1. \A i \in DOMAIN sc : /\ sc[i].k \in {"keep", "new", "put", "wire", "show", "press", "putback"}
                             /\ sc[i].k = "new" => sc[i].n = o.n
                             /\ sc[i].k = "press" => ~checking
    BY <1>4, <1>13
  <2> QED
    BY <1>1, <2>1 DEF Fresh, Calm
<1> QED
  BY <1>5, <1>11, <1>14, <1>15

LEMMA BuildBegins ==
  ASSUME NEW mk \in Nat, NEW w, NetOK(w), NEW st \in Seq(Entry), NEW o \in BuildOps(w)
  PROVE  LET sc == BuildScript(o)
         IN  sc \in Seq(Cell) /\ DoingBuild(o, mk, w, st, sc) /\ Fresh(sc) /\ (checking => Calm(sc))
<1> DEFINE a == Step("keep", None, None, 0)
           b == Step("rename", o.m, o.m, 0)
           c == Step("fill", o.n, o.x, o.v)
           d == Step("verify", o.n, None, 0)
           e == Step("press", o.n, None, 0)
           f == Step("rewireback", o.m, o.n, 0)
           g == Step("doom", o.m, None, 0)
           h == Step("destroy", o.m, None, 0)
           T == {a, b, c, d, e, f, g, h}
           p == IF o.m = None THEN <<>> ELSE <<b>>
           q == <<c, d>>
           r == IF o.opt = "press" THEN (IF checking THEN <<>> ELSE <<e>>) ELSE <<>>
           s == IF o.m = None THEN <<>> ELSE <<f>> \o (IF checking THEN <<>> ELSE <<g, h>>)
           ap == <<a>> \o p
           apq == ap \o q
           apqr == apq \o r
           sc == apqr \o s
<1>1. /\ o.n \in Node /\ o.n \notin w.alive /\ o.n \notin Initial /\ o.v \in Value
      /\ w.alive \subseteq Node /\ o.m \in w.alive \cup {None} /\ o.m # o.n /\ o.x \in Name
      /\ o.m = None => Unnamed(w, o.n, o.x)
      /\ o.m # None => o.x = w.name[o.m]
  BY NotNone DEF BuildOps, Op, NetOK, Networks, Value, Free, Taken, Unnamed
<1>2. o.m # None => o.m \in Node /\ o.m \in w.alive /\ Unnamed(w, o.m, o.x)
  BY <1>1 DEF NetOK, NamesOK, Unnamed
<1>3. {a, c, d, e} \subseteq Cell /\ (o.m # None => {b, f, g, h} \subseteq Cell)
  <2>1. /\ {"keep", "rename", "fill", "verify", "press", "rewireback", "doom", "destroy"} \subseteq StepKinds
        /\ {0, 1} \subseteq Value
    BY DEF StepKinds, EntryKinds, RunKinds, Value
  <2>2. a \in Cell /\ c \in Cell
    BY <1>1, <1>2, <2>1, StepIsCell
  <2>3. d \in Cell /\ e \in Cell
    BY <1>1, <2>1, StepIsCell
  <2>4. o.m # None => b \in Cell /\ f \in Cell
    BY <1>1, <1>2, <2>1, StepIsCell
  <2>5. o.m # None => g \in Cell /\ h \in Cell
    BY <1>1, <1>2, <2>1, StepIsCell
  <2> QED
    BY <2>2, <2>3, <2>4, <2>5
<1>4. /\ a.k = "keep" /\ b.k = "rename" /\ c.k = "fill" /\ d.k = "verify" /\ e.k = "press"
      /\ f.k = "rewireback" /\ g.k = "doom" /\ h.k = "destroy" /\ c.n = o.n
  BY DEF Step
<1>5. BuildScript(o) = sc
  BY DEF BuildScript, Keep, Aside, FillSteps, Press
<1> HIDE DEF a, b, c, d, e, f, g, h
<1>6. <<a>> \in Seq(Cell) /\ Len(<<a>>) = 1 /\ DOMAIN <<a>> = {1} /\ <<a>>[1] = a
  BY <1>3
<1>7. /\ p \in Seq(Cell)
      /\ \A i \in DOMAIN p : i = 1 /\ p[i] = b /\ o.m # None
      /\ o.m # None => 1 \in DOMAIN p /\ p[1] = b
  BY <1>3
<1>8. q \in Seq(Cell) /\ Len(q) = 2 /\ DOMAIN q = {1, 2} /\ q[1] = c /\ q[2] = d
  BY <1>3, Pair
<1>9. r \in Seq(Cell) /\ \A i \in DOMAIN r : r[i] = e /\ ~checking
  BY <1>3
<1>10. /\ s \in Seq(Cell)
       /\ \A i \in DOMAIN s :
            /\ s[i] \in {f, g, h} /\ o.m # None /\ (s[i] \in {g, h} => ~checking)
            /\ s[i] = h => i = Len(s) /\ i > 1 /\ s[i - 1] = g
  <2>1. (s = <<>>) \/ (s = <<f>> \o <<>> /\ o.m # None) \/ (s = <<f>> \o <<g, h>> /\ o.m # None /\ ~checking)
    OBVIOUS
  <2> HIDE DEF s
  <2>2. CASE s = <<>>
    BY <2>2
  <2>3. CASE s = <<f>> \o <<>> /\ o.m # None
    <3>1. <<f>> \in Seq(Cell)
      BY <1>3, <2>3
    <3>2. s = <<f>>
      BY <2>3, <3>1, ConcatEmptySeq
    <3>3. s \in Seq(Cell) /\ DOMAIN s = {1} /\ s[1] = f /\ o.m # None
      BY <1>3, <2>3, <3>2
    <3> QED
      BY <1>4, <3>3
  <2>4. CASE s = <<f>> \o <<g, h>> /\ o.m # None /\ ~checking
    <3>1. /\ s \in Seq(Cell) /\ Len(s) = 3 /\ DOMAIN s = {1, 2, 3} /\ s[1] = f /\ s[2] = g /\ s[3] = h
          /\ 3 - 1 = 2
      BY <1>3, <2>4, Triple
    <3>2. o.m # None /\ ~checking
      BY <2>4
    <3> QED
      BY <1>4, <3>1, <3>2
  <2> QED
    BY <2>1, <2>2, <2>3, <2>4
<1> DEFINE y == <<a>>
<1> HIDE DEF y, p, q, r, s
<1>11. y \in Seq(Cell) /\ Len(y) = 1 /\ DOMAIN y = {1} /\ y[1] = a /\ ap = y \o p
  BY <1>6 DEF y
<1> HIDE DEF ap
<1>12. /\ ap \in Seq(Cell) /\ Len(ap) \in Nat /\ Len(ap) > 0 /\ DOMAIN ap = 1 .. Len(ap)
       /\ \A i \in DOMAIN ap : (i = 1 /\ ap[i] = a) \/ (i = 2 /\ ap[i] = b /\ o.m # None)
       /\ 1 \in DOMAIN ap /\ ap[1] = a
       /\ o.m # None => 2 \in DOMAIN ap /\ ap[2] = b
  <2>0. y \in Seq(Cell) /\ p \in Seq(Cell) /\ ap = y \o p
    BY <1>7, <1>11
  <2>6. /\ ap \in Seq(Cell) /\ Len(p) \in Nat /\ Len(ap) = Len(y) + Len(p) /\ DOMAIN ap = 1 .. Len(y) + Len(p)
        /\ \A i \in DOMAIN ap : (i \in DOMAIN y /\ ap[i] = y[i])
                                \/ (i > Len(y) /\ i - Len(y) \in DOMAIN p /\ ap[i] = p[i - Len(y)])
    BY <2>0, Joined
  <2>7. /\ \A j \in DOMAIN y : j \in DOMAIN ap /\ ap[j] = y[j]
        /\ \A j \in DOMAIN p : Len(y) + j \in DOMAIN ap /\ ap[Len(y) + j] = p[j]
    BY <2>0, Places
  <2>1. /\ ap \in Seq(Cell) /\ Len(p) \in Nat /\ Len(ap) = 1 + Len(p) /\ DOMAIN ap = 1 .. 1 + Len(p)
        /\ \A i \in DOMAIN ap : (i \in DOMAIN y /\ ap[i] = y[i])
                                \/ (i > 1 /\ i - 1 \in DOMAIN p /\ ap[i] = p[i - 1])
    BY <1>11, <2>6
  <2>2. /\ \A j \in DOMAIN y : j \in DOMAIN ap /\ ap[j] = y[j]
        /\ \A j \in DOMAIN p : 1 + j \in DOMAIN ap /\ ap[1 + j] = p[j]
    BY <1>11, <2>7
  <2>3. ASSUME NEW i \in DOMAIN ap PROVE (i = 1 /\ ap[i] = a) \/ (i = 2 /\ ap[i] = b /\ o.m # None)
    BY <1>7, <1>11, <2>1
  <2>4. 1 + 1 = 2
    OBVIOUS
  <2>5. o.m # None => 2 \in DOMAIN ap /\ ap[2] = b
    BY <1>7, <2>2, <2>4
  <2> QED
    BY <1>11, <2>1, <2>2, <2>3, <2>5
<1>13. /\ apq \in Seq(Cell) /\ Len(apq) \in Nat /\ Len(apq) = Len(ap) + 2 /\ DOMAIN apq = 1 .. Len(apq)
       /\ \A i \in DOMAIN apq :
            \/ i \in DOMAIN ap /\ apq[i] = ap[i]
            \/ i = Len(ap) + 1 /\ apq[i] = c
            \/ i = Len(ap) + 2 /\ apq[i] = d
       /\ \A i \in DOMAIN ap : i \in DOMAIN apq /\ apq[i] = ap[i]
       /\ Len(ap) + 1 \in DOMAIN apq /\ apq[Len(ap) + 1] = c
  <2>0. ap \in Seq(Cell) /\ q \in Seq(Cell)
    BY <1>8, <1>12
  <2>1. /\ apq \in Seq(Cell) /\ Len(apq) = Len(ap) + Len(q) /\ DOMAIN apq = 1 .. Len(ap) + Len(q)
        /\ \A i \in DOMAIN apq : (i \in DOMAIN ap /\ apq[i] = ap[i])
                                 \/ (i > Len(ap) /\ i - Len(ap) \in DOMAIN q /\ apq[i] = q[i - Len(ap)])
    BY <2>0, Joined
  <2>2. /\ \A j \in DOMAIN ap : j \in DOMAIN apq /\ apq[j] = ap[j]
        /\ \A j \in DOMAIN q : Len(ap) + j \in DOMAIN apq /\ apq[Len(ap) + j] = q[j]
    BY <2>0, Places
  <2>3. ASSUME NEW i \in DOMAIN apq
        PROVE  \/ i \in DOMAIN ap /\ apq[i] = ap[i]
               \/ i = Len(ap) + 1 /\ apq[i] = c
               \/ i = Len(ap) + 2 /\ apq[i] = d
    BY <1>8, <1>12, <2>1
  <2>4. 1 \in DOMAIN q
    BY <1>8
  <2>5. Len(ap) + 1 \in DOMAIN apq /\ apq[Len(ap) + 1] = c
    BY <1>8, <2>2, <2>4
  <2>6. Len(apq) = Len(ap) + 2 /\ Len(apq) \in Nat /\ DOMAIN apq = 1 .. Len(apq)
    BY <1>8, <1>12, <2>1
  <2> QED
    BY <2>1, <2>2, <2>3, <2>5, <2>6
<1> HIDE DEF apq
<1>14. /\ apqr \in Seq(Cell) /\ Len(apqr) \in Nat /\ DOMAIN apqr = 1 .. Len(apqr) /\ Len(apqr) > Len(ap)
       /\ \A i \in DOMAIN apqr :
            \/ i \in DOMAIN ap /\ apqr[i] = ap[i]
            \/ i = Len(ap) + 1 /\ apqr[i] = c
            \/ i > Len(ap) /\ (apqr[i] = d \/ (apqr[i] = e /\ ~checking))
       /\ \A i \in DOMAIN ap : i \in DOMAIN apqr /\ apqr[i] = ap[i]
       /\ Len(ap) + 1 \in DOMAIN apqr /\ apqr[Len(ap) + 1] = c
  <2>0. apq \in Seq(Cell) /\ r \in Seq(Cell)
    BY <1>9, <1>13
  <2>1. /\ apqr \in Seq(Cell) /\ Len(r) \in Nat /\ Len(apqr) = Len(apq) + Len(r)
        /\ DOMAIN apqr = 1 .. Len(apq) + Len(r)
        /\ \A i \in DOMAIN apqr : (i \in DOMAIN apq /\ apqr[i] = apq[i])
                                  \/ (i > Len(apq) /\ i - Len(apq) \in DOMAIN r /\ apqr[i] = r[i - Len(apq)])
    BY <2>0, Joined
  <2>2. \A j \in DOMAIN apq : j \in DOMAIN apqr /\ apqr[j] = apq[j]
    BY <2>0, Places
  <2>3. ASSUME NEW i \in DOMAIN apqr
        PROVE  \/ i \in DOMAIN ap /\ apqr[i] = ap[i]
               \/ i = Len(ap) + 1 /\ apqr[i] = c
               \/ i > Len(ap) /\ (apqr[i] = d \/ (apqr[i] = e /\ ~checking))
    <3>1. CASE i \in DOMAIN apq /\ apqr[i] = apq[i]
      BY <1>12, <1>13, <3>1
    <3>2. CASE i > Len(apq) /\ i - Len(apq) \in DOMAIN r /\ apqr[i] = r[i - Len(apq)]
      <4>1. apqr[i] = e /\ ~checking
        BY <1>9, <3>2
      <4>2. i > Len(ap)
        BY <1>12, <1>13, <2>1, <3>2
      <4> QED
        BY <4>1, <4>2
    <3> QED
      BY <2>1, <3>1, <3>2
  <2>4. Len(apqr) \in Nat /\ Len(apqr) > Len(ap)
    BY <1>12, <1>13, <2>1
  <2> QED
    BY <1>13, <2>1, <2>2, <2>3, <2>4
<1> HIDE DEF apqr
<1>15. /\ sc \in Seq(Cell) /\ Len(s) \in Nat /\ Len(sc) = Len(apqr) + Len(s) /\ DOMAIN s = 1 .. Len(s)
       /\ \A i \in DOMAIN sc :
            \/ i = 1 /\ sc[i] = a
            \/ i = 2 /\ sc[i] = b /\ o.m # None /\ sc[1] = a
            \/ i = Len(ap) + 1 /\ sc[i] = c
            \/ sc[i] = d \/ (sc[i] = e /\ ~checking)
            \/ i > Len(apqr) /\ i - Len(apqr) \in DOMAIN s /\ sc[i] = s[i - Len(apqr)]
       /\ \A j \in DOMAIN s : Len(apqr) + j \in DOMAIN sc /\ sc[Len(apqr) + j] = s[j]
       /\ \A j \in 1 .. Len(ap) : sc[j] \in {a, b}
       /\ sc[1] = a
       /\ \E j \in DOMAIN sc : sc[j] = c
       /\ o.m # None => \E j \in DOMAIN sc : sc[j] = b
  <2>1. /\ sc \in Seq(Cell) /\ Len(s) \in Nat /\ Len(sc) = Len(apqr) + Len(s) /\ DOMAIN s = 1 .. Len(s)
        /\ \A i \in DOMAIN sc : (i \in DOMAIN apqr /\ sc[i] = apqr[i])
                                \/ (i > Len(apqr) /\ i - Len(apqr) \in DOMAIN s /\ sc[i] = s[i - Len(apqr)])
    BY <1>10, <1>14, Joined
  <2>2. /\ \A j \in DOMAIN apqr : j \in DOMAIN sc /\ sc[j] = apqr[j]
        /\ \A j \in DOMAIN s : Len(apqr) + j \in DOMAIN sc /\ sc[Len(apqr) + j] = s[j]
    BY <1>10, <1>14, Places
  <2> HIDE DEF sc
  <2>3. \A j \in DOMAIN ap : j \in DOMAIN sc /\ sc[j] = ap[j]
    BY <1>14, <2>2
  <2>4. sc[1] = a /\ (o.m # None => 2 \in DOMAIN sc /\ sc[2] = b)
    BY <1>12, <2>3
  <2>5. \A j \in 1 .. Len(ap) : sc[j] \in {a, b}
    BY <1>12, <2>3
  <2>6. Len(ap) + 1 \in DOMAIN sc /\ sc[Len(ap) + 1] = c
    BY <1>14, <2>2
  <2>7. ASSUME NEW i \in DOMAIN sc
        PROVE  \/ i = 1 /\ sc[i] = a
               \/ i = 2 /\ sc[i] = b /\ o.m # None /\ sc[1] = a
               \/ i = Len(ap) + 1 /\ sc[i] = c
               \/ sc[i] = d \/ (sc[i] = e /\ ~checking)
               \/ i > Len(apqr) /\ i - Len(apqr) \in DOMAIN s /\ sc[i] = s[i - Len(apqr)]
    BY <1>12, <1>14, <2>1, <2>4
  <2> QED
    BY <2>1, <2>2, <2>4, <2>5, <2>6, <2>7
<1> HIDE DEF sc
<1>16. ASSUME NEW i \in DOMAIN sc
       PROVE  \/ i = 1 /\ sc[i] = a
              \/ i = 2 /\ sc[i] = b /\ o.m # None /\ sc[1] = a
              \/ sc[i] = c /\ \A j \in 1 .. i - 1 : sc[j] \in {a, b}
              \/ sc[i] = d \/ (sc[i] = e /\ ~checking)
              \/ /\ sc[i] \in {f, g, h} /\ o.m # None /\ (sc[i] \in {g, h} => ~checking)
                 /\ sc[i] = h => i = Len(sc) /\ i > 1 /\ sc[i - 1] = g
  <2>1. CASE i = Len(ap) + 1 /\ sc[i] = c
    <3>1. i - 1 = Len(ap)
      BY <1>12, <2>1
    <3> QED
      BY <1>15, <2>1, <3>1
  <2>2. CASE i > Len(apqr) /\ i - Len(apqr) \in DOMAIN s /\ sc[i] = s[i - Len(apqr)]
    <3>1. PICK j \in DOMAIN s : j = i - Len(apqr) /\ sc[i] = s[j]
      BY <2>2
    <3>2. i \in Nat /\ j \in Nat
      BY <1>15, <3>1, LenProperties
    <3>3. ASSUME sc[i] = h PROVE i = Len(sc) /\ i > 1 /\ sc[i - 1] = g
      <4>1. j = Len(s) /\ j > 1 /\ s[j - 1] = g
        BY <1>10, <3>1, <3>3
      <4>2. j - 1 \in DOMAIN s /\ i = Len(sc) /\ i > 1 /\ Len(apqr) + (j - 1) = i - 1
        <5>1. j - 1 \in DOMAIN s
          BY <1>15, <3>2, <4>1
        <5>2. i = Len(apqr) + j
          BY <1>14, <3>1, <3>2
        <5>3. Len(apqr) + (j - 1) = i - 1 /\ i > 1 /\ i = Len(sc)
          BY <1>14, <1>15, <3>2, <4>1, <5>2
        <5> QED
          BY <5>1, <5>3
      <4>3. PICK l \in DOMAIN s : l = j - 1
        BY <4>2
      <4>4. sc[Len(apqr) + l] = s[l]
        BY <1>15
      <4> QED
        BY <4>1, <4>2, <4>3, <4>4
    <3> QED
      BY <1>10, <3>1, <3>3
  <2> QED
    BY <1>15, <2>1, <2>2
<1>17. DoingBuild(o, mk, w, st, sc)
  <2>1. Among(sc, T)
    BY <1>16 DEF Among
  <2>2. ASSUME NEW i \in DOMAIN sc
        PROVE  /\ sc[i].k = "rename" => i = 1 \/ (i = 2 /\ sc[1].k = "keep")
               /\ sc[i].k = "fill" => \A j \in 1 .. i - 1 : sc[j].k \in {"keep", "rename"}
               /\ sc[i].k \in {"rename", "rewireback", "doom", "destroy"} => o.m \in w.alive
               /\ sc[i].k = "destroy" => i = Len(sc) /\ i > 1 /\ sc[i - 1].k = "doom"
    <3>1. sc[i].k = "rename" => i = 1 \/ (i = 2 /\ sc[1].k = "keep")
      BY <1>4, <1>16
    <3>2. sc[i].k = "fill" => \A j \in 1 .. i - 1 : sc[j].k \in {"keep", "rename"}
      BY <1>4, <1>16
    <3>3. sc[i].k \in {"rename", "rewireback", "doom", "destroy"} => o.m \in w.alive
      BY <1>2, <1>4, <1>16
    <3>4. sc[i].k = "destroy" => i = Len(sc) /\ i > 1 /\ sc[i - 1].k = "doom"
      BY <1>4, <1>16
    <3> QED
      BY <3>1, <3>2, <3>3, <3>4
  <2>3. After(sc, "destroy", "doom", TopIs(mk, st, "fail"))
    BY <2>2 DEF After
  <2>4. Left(sc, "fill") /\ (o.m # None => Left(sc, "rename"))
    BY <1>4, <1>15 DEF Left
  <2>5. Unnamed(w, o.n, o.x) \/ (Left(sc, "rename") /\ Unnamed(w, o.m, o.x))
    BY <1>1, <1>2, <2>4
  <2> QED
    BY <1>1, <2>1, <2>2, <2>3, <2>4, <2>5 DEF DoingBuild, a, b, c, d, e, f, g, h
<1>18. Fresh(sc) /\ (checking => Calm(sc))
  <2>1. \A i \in DOMAIN sc :
          /\ sc[i].k \in {"keep", "rename", "fill", "verify", "press", "rewireback", "doom", "destroy"}
          /\ sc[i].k = "fill" => sc[i].n = o.n
          /\ sc[i].k \in {"press", "doom", "destroy"} => ~checking
    BY <1>4, <1>16
  <2> QED
    BY <1>1, <2>1 DEF Fresh, Calm
<1> QED
  BY <1>5, <1>15, <1>17, <1>18

-----------------------------------------------------------------------------
(* Every kind of op. *)

LEMMA OpsAre ==
  ASSUME NEW w, NEW o \in Ops(w)
  PROVE  /\ o.kind \in OpKinds
         /\ mode = "create" => o.kind = "create"
         /\ mode = "parms" => o.kind = "set"
         /\ o.kind = "create" => o \in CreateOps(w)
         /\ o.kind = "set" => o \in SetOps(w)
         /\ o.kind = "connect" => o \in ConnectOps(w)
         /\ o.kind = "node" => o \in NodeOps(w)
         /\ o.kind = "delete" => o \in DeleteOps(w) /\ o.n # o.m
         /\ o.kind = "copy" => o \in CopyOps(w)
         /\ o.kind = "layout" => o \in LayoutOps(w)
         /\ o.kind = "build" => o \in BuildOps(w)
         /\ o.kind = "select" => o \in SelectOps(w)
<1> DEFINE sent == CASE mode = "create" -> {"create"} [] mode = "parms" -> {"set"} [] OTHER -> Kinds
<1>1. PICK kind \in sent \cap Kinds :
        o \in CASE kind = "create" -> CreateOps(w) [] kind = "set" -> SetOps(w)
                [] kind = "connect" -> ConnectOps(w) [] kind = "node" -> NodeOps(w)
                [] kind = "delete" -> {p \in DeleteOps(w) : p.n # p.m}
                [] kind = "copy" -> CopyOps(w) [] kind = "layout" -> LayoutOps(w)
                [] kind = "build" -> BuildOps(w) [] OTHER -> SelectOps(w)
  BY DEF Ops
<1>2. kind \in OpKinds /\ (mode = "create" => kind = "create") /\ (mode = "parms" => kind = "set")
  BY <1>1, TransactionsAssumption
<1>3. CASE kind = "create"
  <2>1. o \in CreateOps(w)
    BY <1>1, <1>3
  <2>2. o.kind = "create"
    BY <2>1 DEF CreateOps, Op
  <2> QED
    BY <1>2, <1>3, <2>1, <2>2
<1>4. CASE kind = "set"
  <2>1. o \in SetOps(w)
    BY <1>1, <1>4
  <2>2. o.kind = "set"
    BY <2>1 DEF SetOps, Op
  <2> QED
    BY <1>2, <1>4, <2>1, <2>2
<1>5. CASE kind = "connect"
  <2>1. o \in ConnectOps(w)
    BY <1>1, <1>5
  <2>2. o.kind = "connect"
    BY <2>1 DEF ConnectOps, Op
  <2> QED
    BY <1>2, <1>5, <2>1, <2>2
<1>6. CASE kind = "node"
  <2>1. o \in NodeOps(w)
    BY <1>1, <1>6
  <2>2. o.kind = "node"
    BY <2>1 DEF NodeOps, Op
  <2> QED
    BY <1>2, <1>6, <2>1, <2>2
<1>7. CASE kind = "delete"
  <2>1. o \in DeleteOps(w) /\ o.n # o.m
    BY <1>1, <1>7
  <2>2. o.kind = "delete"
    BY <2>1 DEF DeleteOps, Op
  <2> QED
    BY <1>2, <1>7, <2>1, <2>2
<1>8. CASE kind = "copy"
  <2>1. o \in CopyOps(w)
    BY <1>1, <1>8
  <2>2. o.kind = "copy"
    BY <2>1 DEF CopyOps, Op
  <2> QED
    BY <1>2, <1>8, <2>1, <2>2
<1>9. CASE kind = "layout"
  <2>1. o \in LayoutOps(w)
    BY <1>1, <1>9
  <2>2. o.kind = "layout"
    BY <2>1 DEF LayoutOps, Op
  <2> QED
    BY <1>2, <1>9, <2>1, <2>2
<1>10. CASE kind = "build"
  <2>1. o \in BuildOps(w)
    BY <1>1, <1>10
  <2>2. o.kind = "build"
    BY <2>1 DEF BuildOps, Op
  <2> QED
    BY <1>2, <1>10, <2>1, <2>2
<1>11. CASE kind = "select"
  <2>1. o \in SelectOps(w)
    BY <1>1, <1>11
  <2>2. o.kind = "select"
    BY <2>1 DEF SelectOps, Op
  <2> QED
    BY <1>2, <1>11, <2>1, <2>2
<1> QED
  BY <1>2, <1>3, <1>4, <1>5, <1>6, <1>7, <1>8, <1>9, <1>10, <1>11 DEF OpKinds

LEMMA ScriptBegins ==
  ASSUME NEW mk \in Nat, NEW w, NetOK(w), NEW st \in Seq(Entry), NEW o \in Ops(w)
  PROVE  LET sc == Script(w, o)
         IN  sc \in Seq(Cell) /\ Doing(o, mk, w, st, sc) /\ Fresh(sc) /\ (checking => Calm(sc))
<1>1. o.kind \in OpKinds
  BY OpsAre
<1>2. CASE o.kind = "create"
  <2>1. o \in CreateOps(w) /\ Script(w, o) = CreateScript(w, o)
    BY <1>2, OpsAre DEF Script
  <2> QED
    BY <1>2, <2>1, CreateBegins DEF Doing
<1>3. CASE o.kind = "set"
  <2>1. o \in SetOps(w) /\ Script(w, o) = SetScript(o)
    BY <1>3, OpsAre DEF Script
  <2> QED
    BY <1>3, <2>1, SetBegins DEF Doing
<1>4. CASE o.kind = "connect"
  <2>1. o \in ConnectOps(w) /\ Script(w, o) = ConnectScript(o)
    BY <1>4, OpsAre DEF Script
  <2> QED
    BY <1>4, <2>1, ConnectBegins DEF Doing
<1>5. CASE o.kind = "node"
  <2>1. o \in NodeOps(w) /\ Script(w, o) = NodeScript(w, o)
    BY <1>5, OpsAre DEF Script
  <2> QED
    BY <1>5, <2>1, NodeBegins DEF Doing
<1>6. CASE o.kind = "delete"
  <2>1. o \in DeleteOps(w) /\ o.n # o.m /\ Script(w, o) = DeletesScript(o)
    BY <1>6, OpsAre DEF Script
  <2> QED
    BY <1>6, <2>1, DeletesBegin DEF Doing
<1>7. CASE o.kind = "copy"
  <2>1. o \in CopyOps(w) /\ Script(w, o) = CopyScript(o)
    BY <1>7, OpsAre DEF Script
  <2> QED
    BY <1>7, <2>1, CopyBegins DEF Doing
<1>8. CASE o.kind = "layout"
  <2>1. o \in LayoutOps(w) /\ Script(w, o) = LayoutScript(o)
    BY <1>8, OpsAre DEF Script
  <2> QED
    BY <1>8, <2>1, LayoutBegins DEF Doing
<1>9. CASE o.kind = "build"
  <2>1. o \in BuildOps(w) /\ Script(w, o) = BuildScript(o)
    BY <1>9, OpsAre DEF Script
  <2> QED
    BY <1>9, <2>1, BuildBegins DEF Doing
<1>10. CASE o.kind = "select"
  <2>1. o \in SelectOps(w) /\ Script(w, o) = SelectScript(o)
    BY <1>10, OpsAre DEF Script
  <2> QED
    BY <1>10, <2>1, SelectBegins DEF Doing
<1> QED
  BY <1>1, <1>2, <1>3, <1>4, <1>5, <1>6, <1>7, <1>8, <1>9, <1>10 DEF OpKinds

LEMMA TouchesNodes ==
  ASSUME NEW w, NetOK(w), NEW o \in Ops(w)
  PROVE  Touches(w, o) \subseteq Node
<1>1. w.alive \subseteq Node
  BY DEF NetOK, Networks
<1>2. o.kind = "delete" => Touches(w, o) \subseteq Node
  BY <1>1 DEF Touches, Consumers
<1>3. o.kind = "copy" => o.m \in Node
  BY OpsAre DEF CopyOps, Op
<1>4. o.kind = "create" => o.n \in Node
  BY OpsAre DEF CreateOps, Op
<1>5. o.kind = "build" => o.n \in Node
  BY OpsAre DEF BuildOps, Op
<1>6. o.kind = "set" => o.n \in Node
  BY <1>1, OpsAre DEF SetOps, Op
<1>7. o.kind = "connect" => o.n \in Node
  BY <1>1, OpsAre DEF ConnectOps, Op
<1>8. o.kind = "node" => o.n \in Node
  BY <1>1, OpsAre DEF NodeOps, Op
<1>9. o.kind \in OpKinds
  BY OpsAre
<1> QED
  BY <1>2, <1>3, <1>4, <1>5, <1>6, <1>7, <1>8, <1>9 DEF Touches, OpKinds

\* The next step of a handler fits, whatever the op, and the rest of its script is one of the op's
\* again.  A captured value is set next, and outputs that were moved leave a node to destroy.
LEMMA GoesOn ==
  ASSUME NEW o, NEW mk \in Nat, NEW w, NetOK(w), NEW st \in Seq(Entry), mk <= Len(st),
         NEW sc \in Seq(Cell), sc # <<>>, Doing(o, mk, w, st, sc), Head(sc).k \notin {"delete", "bad"}
  PROVE  LET s == Head(sc)
         IN  /\ Fits(w, mk, st, s)
             /\ Doing(o, mk, Effect(w, s), st \o Compensation(w, s), Tail(sc))
             /\ s.k = "save" => Len(sc) > 1 /\ sc[2].k = "put" /\ sc[2].m = s.m /\ sc[2].n = s.n
             /\ s.k = "rewire" => Len(sc) > 1 /\ sc[2].k = "doom"
<1> DEFINE s == Head(sc)
<1>1. CASE o.kind = "create"
  <2>1. DoingCreate(o, mk, w, st, sc)
    BY <1>1 DEF Doing
  <2>2. s.k \notin {"save", "rewire"}
    BY <2>1, AmongTail DEF DoingCreate, Step
  <2> QED
    BY <1>1, <2>1, <2>2, CreateGoesOn DEF Doing
<1>2. CASE o.kind = "set"
  <2>1. DoingSet(o, mk, w, st, sc)
    BY <1>2 DEF Doing
  <2>2. s.k # "rewire"
    BY <2>1, AmongTail DEF DoingSet, Step
  <2> QED
    BY <1>2, <2>1, <2>2, SetGoesOn DEF Doing
<1>3. CASE o.kind = "connect"
  <2>1. DoingConnect(o, w, sc)
    BY <1>3 DEF Doing
  <2>2. s.k \notin {"save", "rewire"}
    BY <2>1, AmongTail DEF DoingConnect, Step
  <2> QED
    BY <1>3, <2>1, <2>2, ConnectGoesOn DEF Doing
<1>4. CASE o.kind = "node"
  <2>1. DoingNode(o, mk, w, st, sc)
    BY <1>4 DEF Doing
  <2>2. s.k \notin {"save", "rewire"}
    BY <2>1, AmongTail DEF DoingNode, Step
  <2> QED
    BY <1>4, <2>1, <2>2, NodeGoesOn DEF Doing
<1>5. CASE o.kind = "delete"
  <2>1. DoingDelete(mk, w, st, sc)
    BY <1>5 DEF Doing
  <2>2. s.k # "save"
    <3>1. PICK q \in Node : \E to \in Node \cup {None} : Among(sc, DeleteSteps(q, to) \cup Deletes)
      BY <2>1 DEF DoingDelete
    <3>2. PICK to \in Node \cup {None} : Among(sc, DeleteSteps(q, to) \cup Deletes)
      BY <3>1
    <3>3. s \in DeleteSteps(q, to) \cup Deletes
      BY <3>2, AmongTail
    <3> QED
      BY <3>3 DEF DeleteSteps, Deletes, Step
  <2> QED
    BY <1>5, <2>1, <2>2, DeleteGoesOn DEF Doing
<1>6. CASE o.kind = "copy"
  <2>1. DoingCopy(o, mk, w, st, sc)
    BY <1>6 DEF Doing
  <2>2. s.k \notin {"save", "rewire"}
    BY <2>1, AmongTail DEF DoingCopy, Step
  <2> QED
    BY <1>6, <2>1, <2>2, CopyGoesOn DEF Doing
<1>7. CASE o.kind = "layout"
  <2>1. DoingLayout(o, mk, w, st, sc)
    BY <1>7 DEF Doing
  <2>2. s.k \notin {"save", "rewire"}
    BY <2>1, AmongTail DEF DoingLayout, Step
  <2> QED
    BY <1>7, <2>1, <2>2, LayoutGoesOn DEF Doing
<1>8. CASE o.kind = "build"
  <2>1. DoingBuild(o, mk, w, st, sc)
    BY <1>8 DEF Doing
  <2>2. s.k \notin {"save", "rewire"}
    BY <2>1, AmongTail DEF DoingBuild, Step
  <2> QED
    BY <1>8, <2>1, <2>2, BuildGoesOn DEF Doing
<1>9. CASE o.kind = "select"
  <2>1. DoingSelect(o, mk, w, st, sc)
    BY <1>9 DEF Doing
  <2>2. s.k \notin {"save", "rewire"}
    BY <2>1, AmongTail DEF DoingSelect, Step
  <2> QED
    BY <1>9, <2>1, <2>2, SelectGoesOn DEF Doing
<1>10. CASE o.kind \notin OpKinds
  <2>1. DoingBad(sc)
    BY <1>10 DEF Doing, OpKinds
  <2> QED
    BY <2>1, BadGoesOn
<1> QED
  BY <1>1, <1>2, <1>3, <1>4, <1>5, <1>6, <1>7, <1>8, <1>9, <1>10 DEF OpKinds

-----------------------------------------------------------------------------
(* The inductive invariant. *)

\* While an op runs, the rollback to lo leads to b: from here; or from where the outputs of the node
\* to be destroyed had not moved yet, or will not lead anywhere, for the last value was captured
\* where none can be set, so that the op fails here and its rollback at once.
Way(lo, b, mk, w, st, sc) ==
  \/ Path(lo, b, w, st)
  \/ /\ sc # <<>> /\ Head(sc).k = "doom"
     /\ \E u \in Networks : Path(lo, b, u, st)
  \/ /\ sc # <<>> /\ ~CanStep(w, Head(sc))
     /\ mk < Len(st) /\ ~CanUndo(w, Top(st))

\* While a rollback to fl runs.
WayBack(lo, b, fl, w, st) ==
  \/ Path(lo, b, w, st)
  \/ fl < Len(st) /\ ~CanUndo(w, Top(st))

\* A rollback destroys only nodes that the call made.
MadeHere(st) == \A i \in DOMAIN st : st[i].k \in {"destroy", "destroylater"} => st[i].n \notin Initial
NoneFails(st) == \A i \in DOMAIN st : st[i].k # "fail"

\* The networks and the rollback are well formed, and so is the rest of the op's script.
WellFormed ==
  /\ NetOK(net) /\ NetOK(start) /\ before = InitialNet
  /\ stack \in Seq(Entry) /\ MadeHere(stack)
  /\ script \in Seq(Cell)
  /\ pc = "step" =>
       /\ mark <= Len(stack) /\ index < MaxOps
       /\ Doing(op, mark, net, stack, script)
       /\ Fresh(script) /\ (checking => Calm(script))
       /\ mode = "create" => op.kind \in {"create", "none"}
       /\ mode = "parms" => op.kind \in {"set", "none"}

\* How far the rollback goes that runs, and what is known of how it went.
Undoing ==
  /\ pc = "undo" =>
       /\ index < MaxOps /\ floor <= Len(stack)
       /\ Collect \/ Partial => floor = mark
       /\ Collect => ~heeded
       /\ ~Collect /\ ~Partial => heeded /\ floor = 0
       /\ ~ok /\ ~heeded => "revert" \in lost
  /\ pc = "undoall" => Collect /\ heeded /\ floor = 0 /\ (problems = {} => mode = "dry")
  /\ pc = "end" => mode = "stop"

\* The whole rollback leads back to where the call began, the op's own to where the op began.
LeadsBack ==
  /\ lost = {} /\ ~Partial =>
       /\ pc = "pick" => Path(0, before, net, stack)
       /\ pc = "step" => Way(0, before, mark, net, stack, script)
       /\ pc = "undo" /\ ok => WayBack(0, before, floor, net, stack)
       /\ pc = "undoall" /\ ok => Path(0, before, net, stack)
  /\ lost = {} =>
       /\ pc = "step" => Way(mark, start, mark, net, stack, script)
       /\ pc = "undo" /\ ok /\ mark <= Len(stack) => WayBack(mark, start, floor, net, stack)

\* In a dry run the rollback holds nothing that fails, and only Houdini's refusal stops it.
Dry ==
  /\ problems # {} => Collect
  /\ Collect /\ problems = {} /\ pc # "undo" => "revert" \notin lost
  /\ mode = "dry" =>
       /\ checking /\ NoneFails(stack) /\ lost \subseteq {"revert", "comment", "moved"}
       /\ pc = "undoall" /\ refusals = 0 /\ lost = {} => ok
       /\ pc = "raised" /\ reply = "null" => lost # {} \/ refusals > 0

\* What the reports mean.
Reported ==
  /\ pc \in {"pick", "step", "undo", "end", "undoall"} => reply = "none"
  /\ pc \in {"step", "undo"} => row = "none"
  /\ reply = "true" /\ lost = {} /\ (mode = "dry" => refusals = 0) => net = before
  /\ reply = "plan" => pc = "answered" /\ lost \subseteq {"comment", "moved"} /\ (lost = {} => net = before)
  /\ RowMeansReverted

IInv == TypeOK /\ WellFormed /\ Undoing /\ LeadsBack /\ Dry /\ Reported

LEMMA CompensationIs ==
  ASSUME NEW w, NEW s
  PROVE  \/ Compensation(w, s) = <<>>
         \/ \E e : /\ Compensation(w, s) = <<e>>
                   /\ e.k \in {"destroy", "destroylater"} => s.k \in {"new", "copy", "fill"} /\ e.n = s.n
                   /\ e.k = "fail" => s.k = "doom"
<1>1. CASE s.k = "keep"
  BY <1>1 DEF Compensation, KeepDisplay, Step
<1>2. CASE s.k \in {"new", "copy"}
  <2> DEFINE e == Step("destroylater", s.n, None, 0)
  <2>1. Compensation(w, s) = <<e>>
    BY <1>2 DEF Compensation, DestroyLater
  <2>2. e.k = "destroylater" /\ e.n = s.n
    BY DEF Step
  <2> HIDE DEF e
  <2> QED
    BY <1>2, <2>1, <2>2
<1>3. CASE s.k = "fill"
  BY <1>3 DEF Compensation, Step
<1>4. CASE s.k \in {"save", "putback"}
  <2> DEFINE e == Step("put", s.n, s.m, w.attr[s.n][s.m])
  <2>1. Compensation(w, s) = <<e>>
    BY <1>4 DEF Compensation, Snapshot
  <2>2. e.k = "put"
    BY DEF Step
  <2> HIDE DEF e
  <2> QED
    BY <2>1, <2>2
<1>5. CASE s.k = "savelooks"
  <2> DEFINE D == IF s.n = None THEN w.alive ELSE {s.n}
             x == [n \in D |-> w.attr[n]["look"]]
  <2>1. Compensation(w, s) = <<Step("looks", None, None, x)>>
    BY <1>5 DEF Compensation
  <2> HIDE DEF x, D
  <2> QED
    BY <2>1 DEF Step
<1>6. CASE s.k = "wireback"
  BY <1>6 DEF Compensation, WireBack, Step
<1>7. CASE s.k = "rewireback"
  <2> DEFINE x == Consumers(w, s.n)
  <2>1. Compensation(w, s) = <<Step("feed", s.n, None, x)>>
    BY <1>7 DEF Compensation
  <2> HIDE DEF x
  <2> QED
    BY <2>1 DEF Step
<1>8. CASE s.k = "rename"
  BY <1>8 DEF Compensation, Step
<1>9. CASE s.k \in {"savesel", "lock", "unlock", "doom"}
  <2>1. s.k = "savesel" => Compensation(w, s) = <<Step("select", w.sel, None, 0)>>
    BY DEF Compensation
  <2>2. s.k = "lock" => Compensation(w, s) = <<Step("unlock", s.n, None, 0)>>
    BY DEF Compensation
  <2>3. s.k = "unlock" => Compensation(w, s) = <<Step("lock", s.n, None, 0)>>
    BY DEF Compensation
  <2>4. s.k = "doom" => Compensation(w, s) = <<Step("fail", None, None, 0)>>
    BY DEF Compensation
  <2>5. CASE s.k = "savesel"
    BY <2>1, <2>5 DEF Step
  <2>6. CASE s.k = "lock"
    BY <2>2, <2>6 DEF Step
  <2>7. CASE s.k = "unlock"
    BY <2>3, <2>7 DEF Step
  <2>8. CASE s.k = "doom"
    BY <2>4, <2>8 DEF Step
  <2> QED
    BY <1>9, <2>5, <2>6, <2>7, <2>8
<1>10. CASE s.k \notin {"keep", "new", "copy", "fill", "save", "putback", "savelooks", "wireback", "rewireback",
                        "rename", "savesel", "lock", "unlock", "doom"}
  BY <1>10 DEF Compensation
<1> QED
  BY <1>1, <1>2, <1>3, <1>4, <1>5, <1>6, <1>7, <1>8, <1>9, <1>10

\* What a rollback destroys the call made, also with what a step adds to it.
LEMMA StackGoesOn ==
  ASSUME NEW w, NEW st \in Seq(Entry), NEW sc \in Seq(Cell), sc # <<>>, Fresh(sc), MadeHere(st),
         st \o Compensation(w, Head(sc)) \in Seq(Entry)
  PROVE  /\ MadeHere(st \o Compensation(w, Head(sc))) /\ Fresh(Tail(sc))
         /\ NoneFails(st) /\ Head(sc).k # "doom" => NoneFails(st \o Compensation(w, Head(sc)))
         /\ Calm(sc) => Calm(Tail(sc)) /\ Head(sc).k \notin {"press", "lock", "doom", "destroy", "rewire"}
<1> DEFINE s == Head(sc)
           q == st \o Compensation(w, s)
<1>1. /\ s = sc[1] /\ 1 \in DOMAIN sc
      /\ \A i \in DOMAIN Tail(sc) : i + 1 \in DOMAIN sc /\ Tail(sc)[i] = sc[i + 1]
  BY TailIs
<1>2. Fresh(Tail(sc)) /\ (Calm(sc) => Calm(Tail(sc)))
  BY <1>1 DEF Fresh, Calm
<1>3. /\ s.k \in {"new", "fill", "copy"} => s.n \notin Initial
      /\ Calm(sc) => s.k \notin {"press", "lock", "doom", "destroy", "rewire"}
  BY <1>1 DEF Fresh, Calm
<1>4. CASE Compensation(w, s) = <<>>
  <2>1. q = st
    BY <1>4, NotPushed
  <2> QED
    BY <1>2, <1>3, <2>1
<1>5. CASE \E e : /\ Compensation(w, s) = <<e>>
                  /\ e.k \in {"destroy", "destroylater"} => s.k \in {"new", "copy", "fill"} /\ e.n = s.n
                  /\ e.k = "fail" => s.k = "doom"
  <2>1. PICK e : /\ Compensation(w, s) = <<e>>
                 /\ e.k \in {"destroy", "destroylater"} => s.k \in {"new", "copy", "fill"} /\ e.n = s.n
                 /\ e.k = "fail" => s.k = "doom"
    BY <1>5
  <2>2. \A i \in DOMAIN q : (i \in DOMAIN st /\ q[i] = st[i]) \/ q[i] = e
    <3> DEFINE n == Len(st)
    <3>1. n \in Nat /\ DOMAIN st = 1 .. n /\ Len(<<e>>) = 1
      BY LenProperties
    <3>2. st \in Seq(Entry \cup {e}) /\ <<e>> \in Seq(Entry \cup {e})
      BY SeqMonotonic
    <3>3. q = st \o <<e>>
      BY <2>1
    <3> HIDE DEF q, n
    <3>4. /\ q \in Seq(Entry \cup {e}) /\ Len(q) = n + 1
          /\ \A i \in 1 .. n + 1 : q[i] = IF i <= n THEN st[i] ELSE <<e>>[i - n]
      BY <3>1, <3>2, <3>3, ConcatProperties DEF n
    <3>5. DOMAIN q = 1 .. n + 1
      BY <3>4, LenProperties
    <3>6. ASSUME NEW i \in 1 .. n + 1 PROVE (i \in DOMAIN st /\ q[i] = st[i]) \/ q[i] = e
      <4>1. CASE i <= n
        BY <3>1, <3>4, <4>1
      <4>2. CASE ~(i <= n)
        <5>1. i - n = 1
          BY <3>1, <4>2
        <5>2. <<e>>[1] = e
          OBVIOUS
        <5> QED
          BY <3>4, <4>2, <5>1, <5>2
      <4> QED
        BY <4>1, <4>2
    <3> QED
      BY <3>5, <3>6
  <2> HIDE DEF q, s
  <2>3. MadeHere(q)
    BY <1>3, <2>1, <2>2 DEF MadeHere
  <2>4. NoneFails(st) /\ s.k # "doom" => NoneFails(q)
    BY <2>1, <2>2 DEF NoneFails
  <2> QED
    BY <1>2, <1>3, <2>3, <2>4 DEF q, s
<1> QED
  BY <1>4, <1>5, CompensationIs

\* A step that a rollback can follow leaves the way open that was open before it.
LEMMA WayGoesOn ==
  ASSUME NEW o, NEW mk \in Nat, NEW w, NetOK(w), NEW st \in Seq(Entry), mk <= Len(st),
         NEW sc \in Seq(Cell), sc # <<>>, Doing(o, mk, w, st, sc), Head(sc).k \notin {"delete", "bad"},
         CanStep(w, Head(sc)), Losses(w, Head(sc)) = {},
         NEW lo \in 0 .. mk, NEW b, Way(lo, b, mk, w, st, sc)
  PROVE  Way(lo, b, mk, Effect(w, Head(sc)), st \o Compensation(w, Head(sc)), Tail(sc))
<1> DEFINE s == Head(sc)
           t == Tail(sc)
           u == Effect(w, s)
           q == st \o Compensation(w, s)
<1>1. /\ Fits(w, mk, st, s)
      /\ s.k = "save" => Len(sc) > 1 /\ sc[2].k = "put" /\ sc[2].m = s.m /\ sc[2].n = s.n
      /\ s.k = "rewire" => Len(sc) > 1 /\ sc[2].k = "doom"
  BY GoesOn
<1>2. s \in Cell /\ w \in Networks /\ lo \in Nat
  BY TailIs DEF NetOK
<1>3. Stands(mk, w, st, s)
  BY <1>1, <1>2, StepStands
<1>4. Path(lo, b, w, st) \/ (s.k = "doom" /\ \E v \in Networks : Path(lo, b, v, st))
  BY DEF Way
<1>5. Len(sc) > 1 => t # <<>> /\ Head(t) = sc[2]
  <2> SUFFICES ASSUME Len(sc) > 1 PROVE t # <<>> /\ Head(t) = sc[2]
    OBVIOUS
  <2>1. /\ t \in Seq(Cell) /\ Len(t) = Len(sc) - 1 /\ Len(sc) \in Nat /\ DOMAIN t = 1 .. Len(sc) - 1
        /\ \A i \in DOMAIN t : t[i] = sc[i + 1]
    BY TailIs
  <2> HIDE DEF t
  <2>2. 1 \in DOMAIN t /\ 1 + 1 = 2
    BY <2>1
  <2>3. t # <<>>
    BY <2>2
  <2>4. t[1] = sc[2]
    BY <2>1, <2>2
  <2> QED
    BY <2>1, <2>3, <2>4, TailIs
<1> HIDE DEF s, t
<1>6. CASE s.k = "doom"
  <2>1. u = w /\ Compensation(w, s) = <<Step("fail", None, None, 0)>>
    BY <1>6 DEF Effect, Compensation
  <2>2. PICK v \in Networks : Path(lo, b, v, st)
    BY <1>2, <1>4
  <2> DEFINE e == Step("fail", None, None, 0)
  <2>3. e \in Entry
    BY StepIn DEF EntryKinds, Contents, Value, EntryOK, Step
  <2>4. Linked(w, e, v)
    BY DEF Linked, Step
  <2>5. q = Append(st, e)
    BY <2>1, <2>3, AppendIsConcat
  <2> HIDE DEF e, q, u
  <2>6. Path(lo, b, w, Append(st, e))
    BY <1>2, <2>2, <2>3, <2>4, PathPush
  <2> QED
    BY <2>1, <2>5, <2>6 DEF Way, q, u, s, t
<1>7. CASE s.k = "rewire"
  <2>1. q = st
    BY <1>7, NotPushed DEF Compensation
  <2>2. t # <<>> /\ Head(t).k = "doom"
    BY <1>1, <1>5, <1>7
  <2>3. \E v \in Networks : Path(lo, b, v, st)
    BY <1>2, <1>4, <1>7
  <2> HIDE DEF q, u
  <2> QED
    BY <2>1, <2>2, <2>3 DEF Way, q, u, s, t
<1>8. CASE Captive(w, s)
  <2> DEFINE e == Step("put", s.n, s.m, w.attr[s.n][s.m])
  <2>1. s.k = "save" /\ s.m = "inner" /\ s.n \in w.locked
    BY <1>8 DEF Captive
  <2>2. u = w /\ Compensation(w, s) = <<e>>
    BY <2>1 DEF Effect, Compensation, Snapshot
  <2>3. Top(q) = e /\ mk < Len(q)
    BY <2>2, Pushed
  <2>4. ~CanUndo(w, e)
    BY <2>1 DEF CanUndo, Step
  <2>5. t # <<>> /\ Head(t).k = "put" /\ Head(t).m = "inner" /\ Head(t).n = s.n
    BY <1>1, <1>5, <2>1
  <2>6. ~CanStep(w, Head(t))
    BY <2>1, <2>5 DEF CanStep
  <2> HIDE DEF q, u, e
  <2> QED
    BY <2>2, <2>3, <2>4, <2>5, <2>6 DEF Way, q, u, s, t
<1>9. CASE s.k \notin {"doom", "rewire"} /\ ~Captive(w, s)
  <2>1. Path(lo, b, w, st)
    BY <1>4, <1>9
  <2>2. Losses(w, s) = {}
    BY DEF s
  <2>3. Led(mk, w, st, s)
    BY <1>3, <1>9, <2>2 DEF Stands
  <2>4. Path(lo, b, u, q)
    BY <2>1, <2>3 DEF Led
  <2> HIDE DEF q, u
  <2> QED
    BY <2>4 DEF Way, q, u, s, t
<1> QED
  BY <1>6, <1>7, <1>8, <1>9

\* An entry that was run leads one stretch back.
LEMMA BackGoesOn ==
  ASSUME NEW lo \in Nat, NEW b, NEW fl, NEW w, NEW st \in Seq(Entry), lo < Len(st),
         WayBack(lo, b, fl, w, st), CanUndo(w, Top(st))
  PROVE  Path(lo, b, Undone(w, Top(st)), SubSeq(st, 1, Len(st) - 1))
BY PathPop DEF WayBack

\* What is left of the rollback when its last entry is gone.
LEMMA Popped ==
  ASSUME NEW st \in Seq(Entry), Len(st) > 0
  PROVE  LET q == SubSeq(st, 1, Len(st) - 1)
         IN  /\ q \in Seq(Entry) /\ Len(q) = Len(st) - 1 /\ Len(st) \in Nat
             /\ Top(st) \in Entry /\ Len(st) \in DOMAIN st
             /\ MadeHere(st) => MadeHere(q)
             /\ NoneFails(st) => NoneFails(q)
<1> DEFINE n == Len(st)
           q == SubSeq(st, 1, n - 1)
<1>1. n \in Nat \ {0} /\ DOMAIN st = 1 .. n /\ \A i \in 1 .. n : st[i] \in Entry
  BY LenProperties
<1>2. q \in Seq(Entry) /\ Len(q) = n - 1 /\ \A i \in 1 .. n - 1 : q[i] = st[i]
  BY <1>1, SubSeqProperties
<1> HIDE DEF q
<1>3. \A i \in DOMAIN q : i \in DOMAIN st /\ q[i] = st[i]
  BY <1>1, <1>2, LenProperties
<1>4. (MadeHere(st) => MadeHere(q)) /\ (NoneFails(st) => NoneFails(q))
  BY <1>3 DEF MadeHere, NoneFails
<1> QED
  BY <1>1, <1>2, <1>4 DEF Top, q

-----------------------------------------------------------------------------
(* The invariant holds at the start, and every step keeps it. *)

LEMMA InitHolds == Init => IInv
<1> SUFFICES ASSUME Init PROVE IInv
  OBVIOUS
<1>1. /\ net = InitialNet /\ before = net /\ start = net /\ mode \in Modes
      /\ index = 0 /\ pc = "pick" /\ op = NoOp /\ script = <<>> /\ nodes = {}
      /\ stack = <<>> /\ mark = 0 /\ floor = 0 /\ heeded = TRUE /\ ok = TRUE
      /\ checking = (mode = "dry")
      /\ problems = {} /\ failed = {} /\ row = "none" /\ reply = "none"
      /\ touched = {} /\ cooks = {} /\ lost = {} /\ refusals = 0
  BY DEF Init
<1>2. NetOK(net) /\ net \in Networks
  BY <1>1, InitialOK DEF NetOK
<1>3. TypeOK
  BY <1>1, <1>2, TransactionsAssumption DEF TypeOK, NoOp, Reports
<1>4. stack \in Seq(Entry) /\ script \in Seq(Cell) /\ Len(stack) = 0 /\ DOMAIN stack = {}
  BY <1>1
<1>5. WellFormed
  BY <1>1, <1>2, <1>4 DEF WellFormed, MadeHere
<1>6. Undoing
  BY <1>1 DEF Undoing
<1>7. Path(0, before, net, stack)
  BY <1>1, <1>2, <1>4, PathNew
<1>8. LeadsBack
  BY <1>1, <1>7 DEF LeadsBack
<1>9. Dry
  BY <1>1, <1>4 DEF Dry, NoneFails
<1>10. Reported
  BY <1>1 DEF Reported, RowMeansReverted
<1> QED
  BY <1>3, <1>5, <1>6, <1>8, <1>9, <1>10 DEF IInv

LEMMA EndOpKeeps == IInv /\ EndOp => IInv'
<1> SUFFICES ASSUME IInv, EndOp PROVE IInv'
  OBVIOUS
<1>1. /\ pc = "step" /\ script = <<>> /\ index' = index + 1 /\ pc' = "pick"
      /\ touched' = touched \cup nodes
      /\ cooks' \in {cooks, cooks \cup nodes}
      /\ UNCHANGED <<net, checking, mode, op, script, nodes, stack, mark, floor, heeded, ok, problems,
                     failed, row, reply, before, start, lost, refusals>>
  BY DEF EndOp, rollback, ghosts
<1>2. TypeOK'
  BY <1>1, TransactionsAssumption DEF IInv, TypeOK, WellFormed
<1>3. WellFormed'
  BY <1>1 DEF IInv, WellFormed
<1>4. Undoing'
  BY <1>1 DEF Undoing
<1>5. LeadsBack'
  BY <1>1 DEF IInv, LeadsBack, Way, Partial
<1>6. Dry'
  BY <1>1 DEF IInv, Dry, Collect
<1>7. Reported'
  BY <1>1 DEF IInv, Reported, RowMeansReverted
<1> QED
  BY <1>2, <1>3, <1>4, <1>5, <1>6, <1>7 DEF IInv

LEMMA BeginOpKeeps == ASSUME IInv, NEW o \in Ops(net), BeginOp(o) PROVE IInv'
<1>1. /\ pc = "pick" /\ index < MaxOps
      /\ pc' = "step" /\ op' = o /\ script' = Script(net, o) /\ nodes' = Touches(net, o)
      /\ mark' = Len(stack) /\ start' = net /\ row' = "none"
      /\ UNCHANGED <<net, checking, mode, index, stack, floor, heeded, ok, problems, failed,
                     reply, touched, cooks, before, lost, refusals>>
  BY DEF BeginOp
<1>2. /\ NetOK(net) /\ net \in Networks /\ stack \in Seq(Entry) /\ Len(stack) \in Nat /\ Len(stack) <= Len(stack)
  BY LenProperties DEF IInv, WellFormed, NetOK
<1>3. /\ script' \in Seq(Cell) /\ Doing(o, Len(stack), net, stack, script')
      /\ Fresh(script') /\ (checking => Calm(script'))
  BY <1>1, <1>2, ScriptBegins
<1>4. /\ o.kind \in OpKinds /\ nodes' \subseteq Node
      /\ mode = "create" => o.kind = "create"
      /\ mode = "parms" => o.kind = "set"
  BY <1>1, <1>2, OpsAre, TouchesNodes
<1>5. TypeOK'
  BY <1>1, <1>2, <1>4 DEF IInv, TypeOK
<1>6. WellFormed'
  BY <1>1, <1>2, <1>3, <1>4 DEF IInv, WellFormed
<1>7. Undoing'
  BY <1>1 DEF Undoing
<1>8. LeadsBack'
  <2>1. Path(Len(stack), net, net, stack)
    BY <1>2, PathNew
  <2>2. lost = {} /\ ~Partial => Path(0, before, net, stack)
    BY <1>1 DEF IInv, LeadsBack
  <2> QED
    BY <1>1, <2>1, <2>2 DEF LeadsBack, Way, Partial
<1>9. Dry'
  BY <1>1 DEF IInv, Dry, Collect
<1>10. Reported'
  BY <1>1 DEF IInv, Reported, RowMeansReverted
<1> QED
  BY <1>5, <1>6, <1>7, <1>8, <1>9, <1>10 DEF IInv

LEMMA BeginBadOpKeeps == ASSUME IInv, NEW ref, BeginBadOp(ref) PROVE IInv'
<1>1. /\ pc = "pick" /\ index < MaxOps
      /\ pc' = "step" /\ op' = NoOp /\ script' = <<Step("bad", None, None, 0)>> /\ nodes' = {}
      /\ mark' = Len(stack) /\ start' = net /\ row' = "none"
      /\ UNCHANGED <<net, checking, mode, index, stack, floor, heeded, ok, problems, failed,
                     reply, touched, cooks, before, lost, refusals>>
  BY DEF BeginBadOp
<1>2. /\ NetOK(net) /\ net \in Networks /\ stack \in Seq(Entry) /\ Len(stack) \in Nat /\ Len(stack) <= Len(stack)
  BY LenProperties DEF IInv, WellFormed, NetOK
<1>3. /\ script' \in Seq(Cell) /\ Doing(NoOp, Len(stack), net, stack, script')
      /\ Fresh(script') /\ Calm(script') /\ NoOp.kind = "none"
  <2> DEFINE a == Step("bad", None, None, 0)
  <2>1. a \in Cell /\ a.k = "bad"
    BY DEF Step, Cell, StepKinds, Contents, Value
  <2>2. a \in {Step("bad", None, None, 0)}
    OBVIOUS
  <2>3. script' = <<a>>
    BY <1>1
  <2> HIDE DEF a
  <2>4. script' \in Seq(Cell) /\ DOMAIN script' = {1} /\ script'[1] = a
    BY <2>1, <2>3
  <2>5. Fresh(script') /\ Calm(script')
    BY <2>1, <2>4 DEF Fresh, Calm
  <2>6. DoingBad(script')
    BY <2>2, <2>4 DEF DoingBad, Among
  <2> QED
    BY <2>4, <2>5, <2>6 DEF Doing, NoOp
<1>5. TypeOK'
  BY <1>1, <1>2, <1>3 DEF IInv, TypeOK
<1>6. WellFormed'
  BY <1>1, <1>2, <1>3 DEF IInv, WellFormed
<1>7. Undoing'
  BY <1>1 DEF Undoing
<1>8. LeadsBack'
  <2>1. Path(Len(stack), net, net, stack)
    BY <1>2, PathNew
  <2>2. lost = {} /\ ~Partial => Path(0, before, net, stack)
    BY <1>1 DEF IInv, LeadsBack
  <2> QED
    BY <1>1, <2>1, <2>2 DEF LeadsBack, Way, Partial
<1>9. Dry'
  BY <1>1 DEF IInv, Dry, Collect
<1>10. Reported'
  BY <1>1 DEF IInv, Reported, RowMeansReverted
<1> QED
  BY <1>5, <1>6, <1>7, <1>8, <1>9, <1>10 DEF IInv

LEMMA SkipOpKeeps == IInv /\ SkipOp => IInv'
<1> SUFFICES ASSUME IInv, SkipOp PROVE IInv'
  OBVIOUS
<1>1. /\ pc = "pick" /\ index < MaxOps
      /\ index' = index + 1 /\ failed' = failed \cup {index + 1} /\ row' = "none"
      /\ UNCHANGED <<net, pc, checking, mode, op, script, nodes, stack, mark, floor, heeded, ok, problems,
                     reply, touched, cooks, before, start, lost, refusals>>
  BY DEF SkipOp, rollback, ghosts
<1>2. TypeOK'
  BY <1>1, TransactionsAssumption DEF IInv, TypeOK
<1>3. WellFormed'
  BY <1>1 DEF IInv, WellFormed
<1>4. Undoing'
  BY <1>1 DEF Undoing
<1>5. LeadsBack'
  BY <1>1 DEF IInv, LeadsBack, Partial
<1>6. Dry'
  BY <1>1 DEF IInv, Dry, Collect
<1>7. Reported'
  BY <1>1 DEF IInv, Reported, RowMeansReverted
<1> QED
  BY <1>2, <1>3, <1>4, <1>5, <1>6, <1>7 DEF IInv

\* No handler but that of a delete comes to another node.
LEMMA OnlyDeletes ==
  ASSUME NEW o, NEW mk, NEW w, NEW st, NEW sc \in Seq(Cell), sc # <<>>, Doing(o, mk, w, st, sc),
         Head(sc).k = "delete"
  PROVE  o.kind \notin OpKinds \ {"delete"}
<1> DEFINE s == Head(sc)
<1>1. o.kind # "create"
  <2> SUFFICES ASSUME o.kind = "create" PROVE FALSE
    OBVIOUS
  <2>1. DoingCreate(o, mk, w, st, sc)
    BY DEF Doing
  <2> QED
    BY <2>1, AmongTail DEF DoingCreate, Step
<1>2. o.kind # "set"
  <2> SUFFICES ASSUME o.kind = "set" PROVE FALSE
    OBVIOUS
  <2>1. DoingSet(o, mk, w, st, sc)
    BY DEF Doing
  <2> QED
    BY <2>1, AmongTail DEF DoingSet, Step
<1>3. o.kind # "connect"
  <2> SUFFICES ASSUME o.kind = "connect" PROVE FALSE
    OBVIOUS
  <2>1. DoingConnect(o, w, sc)
    BY DEF Doing
  <2> QED
    BY <2>1, AmongTail DEF DoingConnect, Step
<1>4. o.kind # "node"
  <2> SUFFICES ASSUME o.kind = "node" PROVE FALSE
    OBVIOUS
  <2>1. DoingNode(o, mk, w, st, sc)
    BY DEF Doing
  <2> QED
    BY <2>1, AmongTail DEF DoingNode, Step
<1>5. o.kind # "copy"
  <2> SUFFICES ASSUME o.kind = "copy" PROVE FALSE
    OBVIOUS
  <2>1. DoingCopy(o, mk, w, st, sc)
    BY DEF Doing
  <2> QED
    BY <2>1, AmongTail DEF DoingCopy, Step
<1>6. o.kind # "layout"
  <2> SUFFICES ASSUME o.kind = "layout" PROVE FALSE
    OBVIOUS
  <2>1. DoingLayout(o, mk, w, st, sc)
    BY DEF Doing
  <2> QED
    BY <2>1, AmongTail DEF DoingLayout, Step
<1>7. o.kind # "build"
  <2> SUFFICES ASSUME o.kind = "build" PROVE FALSE
    OBVIOUS
  <2>1. DoingBuild(o, mk, w, st, sc)
    BY DEF Doing
  <2> QED
    BY <2>1, AmongTail DEF DoingBuild, Step
<1>8. o.kind # "select"
  <2> SUFFICES ASSUME o.kind = "select" PROVE FALSE
    OBVIOUS
  <2>1. DoingSelect(o, mk, w, st, sc)
    BY DEF Doing
  <2> QED
    BY <2>1, AmongTail DEF DoingSelect, Step
<1> QED
  BY <1>1, <1>2, <1>3, <1>4, <1>5, <1>6, <1>7, <1>8 DEF OpKinds

LEMMA NextDeleteKeeps == IInv /\ NextDelete => IInv'
<1> SUFFICES ASSUME IInv, NextDelete PROVE IInv'
  OBVIOUS
<1>1. /\ pc = "step" /\ script # <<>> /\ Head(script).k = "delete" /\ Head(script).n \in net.alive
      /\ script' = DeleteScript(net, Head(script).n, Head(script).v = 1) \o Tail(script)
      /\ UNCHANGED <<net, pc, checking, mode, index, op, nodes, stack, mark, floor, heeded, ok, problems,
                     failed, row, reply, touched, cooks, before, start, lost, refusals>>
  BY DEF NextDelete, rollback, outcome, ghosts
<1>2. /\ NetOK(net) /\ stack \in Seq(Entry) /\ script \in Seq(Cell) /\ mark \in Nat
      /\ Doing(op, mark, net, stack, script) /\ Fresh(script) /\ (checking => Calm(script))
  BY <1>1 DEF IInv, WellFormed, TypeOK
<1>3. op.kind = "delete"
  <2>1. op.kind \notin OpKinds \ {"delete"}
    BY <1>1, <1>2, OnlyDeletes
  <2>2. op.kind # "none"
    BY <1>1, <1>2, BadGoesOn DEF Doing
  <2> QED
    BY <2>1, <2>2 DEF IInv, TypeOK
<1>4. DoingDelete(mark, net, stack, script)
  BY <1>2, <1>3 DEF Doing
<1> DEFINE keep == Head(script).v = 1
<1>5. keep \in BOOLEAN /\ script' = DeleteScript(net, Head(script).n, keep) \o Tail(script)
  BY <1>1
<1> HIDE DEF keep
<1>6. /\ script' \in Seq(Cell) /\ script' # <<>> /\ DoingDelete(mark, net, stack, script')
      /\ checking => \A i \in DOMAIN script' : script'[i].k \in {"rewireback", "rename", "delete"}
  <2> DEFINE D == DeleteScript(net, Head(script).n, keep) \o Tail(script)
  <2>1. /\ D \in Seq(Cell) /\ D # <<>> /\ DoingDelete(mark, net, stack, D)
        /\ checking => \A i \in DOMAIN D : D[i].k \in {"rewireback", "rename", "delete"}
    <3>1. mark \in Nat /\ NetOK(net) /\ stack \in Seq(Entry) /\ script \in Seq(Cell) /\ script # <<>>
      BY <1>1, <1>2
    <3>2. Head(script).k = "delete" /\ Head(script).n \in net.alive /\ keep \in BOOLEAN
      BY <1>1, <1>5
    <3> QED
      BY <1>4, <3>1, <3>2, DeleteComes
  <2>2. script' = D
    BY <1>5
  <2> HIDE DEF D
  <2> QED
    BY <2>1, <2>2
<1>7. Doing(op, mark, net, stack, script')
  BY <1>3, <1>6 DEF Doing
<1>8. Fresh(script') /\ (checking => Calm(script'))
  <2>1. PICK q \in Node : \E to \in Node \cup {None} : Among(script', DeleteSteps(q, to) \cup Deletes)
    BY <1>6 DEF DoingDelete
  <2>2. PICK to \in Node \cup {None} : Among(script', DeleteSteps(q, to) \cup Deletes)
    BY <2>1
  <2>3. \A s \in DeleteSteps(q, to) \cup Deletes : s.k \notin {"new", "fill", "copy"}
    BY DEF DeleteSteps, Deletes, Step
  <2>4. Fresh(script')
    BY <2>2, <2>3 DEF Fresh, Among
  <2> QED
    BY <1>6, <2>4 DEF Calm
<1>9. TypeOK'
  BY <1>1 DEF IInv, TypeOK
<1>10. WellFormed'
  BY <1>1, <1>6, <1>7, <1>8 DEF IInv, WellFormed
<1>11. Undoing'
  BY <1>1 DEF IInv, Undoing
<1>12. LeadsBack'
  <2>1. CanStep(net, Head(script)) /\ Head(script).k # "doom"
    BY <1>1 DEF CanStep
  <2> QED
    BY <1>1, <2>1 DEF IInv, LeadsBack, Way, Partial
<1>13. Dry'
  BY <1>1 DEF IInv, Dry, Collect
<1>14. Reported'
  BY <1>1 DEF IInv, Reported, RowMeansReverted
<1> QED
  BY <1>9, <1>10, <1>11, <1>12, <1>13, <1>14 DEF IInv

\* The rollback never gets shorter by a step.
LEMMA Longer ==
  ASSUME NEW w, NEW s, NEW st \in Seq(Entry), NEW mk \in Nat, mk <= Len(st)
  PROVE  mk <= Len(st \o Compensation(w, s))
<1>1. CASE Compensation(w, s) = <<>>
  BY <1>1, NotPushed
<1>2. CASE \E e : Compensation(w, s) = <<e>>
  <2>1. PICK e : Compensation(w, s) = <<e>>
    BY <1>2
  <2>2. mk < Len(st \o <<e>>) /\ Len(st \o <<e>>) = Len(st) + 1 /\ Len(st) \in Nat
    BY Pushed, LenProperties
  <2> QED
    BY <2>1, <2>2
<1> QED
  BY <1>1, <1>2, CompensationIs

LEMMA RunStepKeeps == IInv /\ RunStep => IInv'
<1> SUFFICES ASSUME IInv, RunStep PROVE IInv'
  OBVIOUS
<1>1. /\ pc = "step" /\ script # <<>> /\ Head(script).k \notin {"delete", "bad"} /\ CanStep(net, Head(script))
      /\ net' = Effect(net, Head(script)) /\ stack' = stack \o Compensation(net, Head(script))
      /\ lost' = lost \cup Losses(net, Head(script)) /\ script' = Tail(script)
      /\ UNCHANGED <<pc, checking, mode, index, op, nodes, mark, floor, heeded, ok, problems, failed, row,
                     reply, touched, cooks, before, start, refusals>>
  BY DEF RunStep, outcome
<1>2. /\ NetOK(net) /\ stack \in Seq(Entry) /\ script \in Seq(Cell) /\ mark \in Nat /\ mark <= Len(stack)
      /\ Doing(op, mark, net, stack, script) /\ Fresh(script) /\ (checking => Calm(script))
      /\ MadeHere(stack)
  BY <1>1 DEF IInv, WellFormed, TypeOK
<1>3. Fits(net, mark, stack, Head(script)) /\ Doing(op, mark, net', stack', script')
  BY <1>1, <1>2, GoesOn
<1>4. Head(script) \in Cell /\ script' \in Seq(Cell)
  BY <1>1, <1>2, TailIs
<1>5. Stands(mark, net, stack, Head(script))
  BY <1>1, <1>2, <1>3, <1>4, StepStands
<1>6. NetOK(net') /\ net' \in Networks /\ stack' \in Seq(Entry)
  BY <1>1, <1>5 DEF Stands, NetOK
<1>7. /\ MadeHere(stack') /\ Fresh(script')
      /\ NoneFails(stack) /\ Head(script).k # "doom" => NoneFails(stack')
      /\ Calm(script) => Calm(script') /\ Head(script).k \notin {"press", "lock", "doom", "destroy", "rewire"}
  BY <1>1, <1>2, <1>6, StackGoesOn
<1>8. mark <= Len(stack')
  BY <1>1, <1>2, Longer
<1>9. Losses(net, Head(script)) \subseteq {"press", "lock", "comment", "moved"}
  BY DEF Losses
<1>10. Head(script).k \notin {"press", "lock"} => Losses(net, Head(script)) \subseteq {"comment", "moved"}
  BY DEF Losses
<1>11. ASSUME NEW lo \in 0 .. mark, NEW b, Losses(net, Head(script)) = {},
              Way(lo, b, mark, net, stack, script)
       PROVE  Way(lo, b, mark, net', stack', script')
  <2>1. Way(lo, b, mark, Effect(net, Head(script)), stack \o Compensation(net, Head(script)), Tail(script))
    BY <1>1, <1>2, <1>11, WayGoesOn
  <2> QED
    BY <1>1, <2>1
<1>12. TypeOK'
  BY <1>1, <1>6, <1>9 DEF IInv, TypeOK
<1>13. WellFormed'
  BY <1>1, <1>3, <1>4, <1>6, <1>7, <1>8, <1>2 DEF IInv, WellFormed
<1>14. Undoing'
  BY <1>1 DEF Undoing
<1>15. LeadsBack'
  <2>1. ASSUME lost' = {} PROVE lost = {} /\ Losses(net, Head(script)) = {}
    BY <1>1, <2>1
  <2>2. ASSUME lost' = {}, ~Partial PROVE Way(0, before, mark, net', stack', script')
    <3>1. Way(0, before, mark, net, stack, script)
      BY <1>1, <2>1, <2>2 DEF IInv, LeadsBack
    <3> QED
      BY <1>2, <1>11, <2>1, <2>2, <3>1
  <2>3. ASSUME lost' = {} PROVE Way(mark, start, mark, net', stack', script')
    <3>1. Way(mark, start, mark, net, stack, script)
      BY <1>1, <2>1, <2>3 DEF IInv, LeadsBack
    <3>2. mark \in 0 .. mark
      BY <1>2
    <3> QED
      BY <1>11, <2>1, <2>3, <3>1, <3>2
  <2> QED
    BY <1>1, <2>2, <2>3 DEF LeadsBack, Partial
<1>16. Dry'
  <2>1. "revert" \notin Losses(net, Head(script))
    BY <1>9
  <2>2. mode = "dry" => /\ NoneFails(stack') /\ lost' \subseteq lost \cup {"comment", "moved"}
                        /\ lost' \subseteq {"revert", "comment", "moved"}
    BY <1>1, <1>2, <1>7, <1>10 DEF IInv, Dry
  <2> QED
    BY <1>1, <2>1, <2>2 DEF IInv, Dry, Collect
<1>17. Reported'
  BY <1>1 DEF IInv, Reported, RowMeansReverted
<1> QED
  BY <1>12, <1>13, <1>14, <1>15, <1>16, <1>17 DEF IInv

LEMMA RaiseKeeps == IInv /\ Raise => IInv'
<1> SUFFICES ASSUME IInv, Raise PROVE IInv'
  OBVIOUS
<1>1. /\ pc = "step" /\ ~Caught /\ pc' = "undo" /\ floor' = Back /\ heeded' = (~Quietly /\ ~Collect)
      /\ ok' = TRUE /\ script' = <<>>
      /\ UNCHANGED <<net, checking, mode, index, op, nodes, stack, mark, problems, failed, row, reply,
                     touched, cooks, before, start, lost, refusals>>
  BY DEF Raise, outcome, ghosts
<1>2. /\ Back \in {0, mark} /\ mark \in Nat /\ mark <= Len(stack) /\ Len(stack) \in Nat
      /\ script \in Seq(Cell)
  BY <1>1, LenProperties DEF IInv, WellFormed, TypeOK, Back
<1>3. TypeOK'
  <2>1. heeded' \in BOOLEAN
    BY <1>1
  <2> QED
    BY <1>1, <1>2, <2>1 DEF IInv, TypeOK
<1>4. script' \in Seq(Cell)
  BY <1>1
<1>5. WellFormed'
  BY <1>1, <1>4 DEF IInv, WellFormed
<1>6. Undoing'
  <2>1. Collect \/ Partial \/ Quietly => Back = mark
    BY DEF Back
  <2>2. ~Collect /\ ~Partial => ~Quietly
    <3> SUFFICES ASSUME Quietly, ~Collect, ~Partial PROVE FALSE
      OBVIOUS
    <3>1. op.kind = "build"
      BY DEF Quietly
    <3>2. mode \in {"create", "parms"}
      BY TransactionsAssumption DEF IInv, TypeOK, AllModes, Collect, Partial
    <3> QED
      BY <1>1, <3>1, <3>2 DEF IInv, WellFormed
  <2>3. index < MaxOps /\ floor' <= Len(stack)
    BY <1>1, <1>2 DEF IInv, WellFormed
  <2>4. ~Collect /\ ~Partial => Back = 0
    BY <2>2 DEF Back
  <2>5. /\ Collect' = Collect /\ Partial' = Partial
    BY <1>1 DEF Collect, Partial
  <2>6. (Collect => ~heeded') /\ (~Collect /\ ~Partial => heeded')
    BY <1>1, <2>2
  <2> QED
    BY <1>1, <2>1, <2>3, <2>4, <2>5, <2>6 DEF Undoing
<1>7. LeadsBack'
  <2>1. ASSUME NEW lo, NEW b, Way(lo, b, mark, net, stack, script)
        PROVE  WayBack(lo, b, floor', net, stack)
    <3>1. script # <<>> => Head(script).k # "doom"
      BY <1>1 DEF Caught
    <3>2. mark < Len(stack) => floor' < Len(stack)
      BY <1>1, <1>2
    <3> QED
      BY <2>1, <3>1, <3>2 DEF Way, WayBack
  <2> QED
    BY <1>1, <2>1 DEF IInv, LeadsBack, Partial
<1>8. Dry'
  BY <1>1 DEF IInv, Dry, Collect
<1>9. Reported'
  BY <1>1 DEF IInv, Reported, RowMeansReverted
<1> QED
  BY <1>3, <1>5, <1>6, <1>7, <1>8, <1>9 DEF IInv

LEMMA RaiseOtherKeeps == IInv /\ RaiseOther => IInv'
<1> SUFFICES ASSUME IInv, RaiseOther PROVE IInv'
  OBVIOUS
<1>1. /\ pc = "step" /\ mode = "parms" /\ pc' = "raised" /\ reply' = "absent" /\ script' = <<>>
      /\ UNCHANGED <<net, checking, mode, index, op, nodes, stack, mark, floor, heeded, ok, problems, failed,
                     row, touched, cooks, before, start, lost, refusals>>
  BY DEF RaiseOther, rollback, ghosts
<1>2. script' \in Seq(Cell)
  BY <1>1
<1>3. TypeOK'
  BY <1>1 DEF IInv, TypeOK, Reports
<1>4. WellFormed'
  BY <1>1, <1>2 DEF IInv, WellFormed
<1>5. Undoing'
  BY <1>1 DEF Undoing
<1>6. LeadsBack'
  BY <1>1 DEF LeadsBack
<1>7. Dry'
  BY <1>1 DEF IInv, Dry, Collect
<1>8. Reported'
  BY <1>1 DEF Reported, RowMeansReverted
<1> QED
  BY <1>3, <1>4, <1>5, <1>6, <1>7, <1>8 DEF IInv

LEMMA CompensateKeeps == IInv /\ Compensate => IInv'
<1> SUFFICES ASSUME IInv, Compensate PROVE IInv'
  OBVIOUS
<1> DEFINE e == Top(stack)
<1>1. /\ pc \in {"undo", "undoall"} /\ Len(stack) > floor /\ stack' = SubSeq(stack, 1, Len(stack) - 1)
      /\ UNCHANGED <<pc, checking, mode, index, op, script, nodes, mark, floor, heeded, problems, failed,
                     row, reply, touched, cooks, before, start>>
  BY DEF Compensate, plan, outcome
<1>2. \/ CanUndo(net, e) /\ net' = Undone(net, e) /\ UNCHANGED <<ok, lost, refusals>>
      \/ /\ CanUndo(net, e) => refusals < MaxRefusals
         /\ refusals' = IF CanUndo(net, e) THEN refusals + 1 ELSE refusals
         /\ ok' = FALSE /\ lost' = IF heeded THEN lost ELSE lost \cup {"revert"}
         /\ net' = net
  BY DEF Compensate, Top
<1>3. /\ NetOK(net) /\ net \in Networks /\ stack \in Seq(Entry) /\ floor \in Nat /\ mark \in Nat
      /\ MadeHere(stack) /\ refusals \in Nat /\ Len(stack) \in Nat /\ Len(stack) > 0
  BY <1>1, LenProperties DEF IInv, WellFormed, NetOK, TypeOK
<1>4. /\ stack' \in Seq(Entry) /\ Len(stack') = Len(stack) - 1 /\ e \in Entry
      /\ MadeHere(stack') /\ (NoneFails(stack) => NoneFails(stack') /\ e.k # "fail")
  BY <1>1, <1>3, Popped DEF NoneFails, Top
<1> HIDE DEF e
<1>5. NetOK(net') /\ net' \in Networks
  <2>1. CASE CanUndo(net, e) /\ net' = Undone(net, e)
    BY <1>3, <1>4, <2>1, UndoneOK DEF NetOK
  <2>2. CASE net' = net
    BY <1>3, <2>2
  <2> QED
    BY <1>2, <2>1, <2>2
<1>6. refusals' \in 0 .. MaxRefusals /\ lost \subseteq lost' /\ lost' \subseteq lost \cup {"revert"} /\ ok' \in BOOLEAN
  <2>1. MaxRefusals \in Nat /\ refusals \in 0 .. MaxRefusals /\ ok \in BOOLEAN
    BY TransactionsAssumption DEF IInv, TypeOK
  <2>2. refusals' \in {refusals, refusals + 1} /\ (refusals' = refusals + 1 => refusals < MaxRefusals \/ refusals' = refusals)
    BY <1>2
  <2>3. refusals' \in 0 .. MaxRefusals
    BY <2>1, <2>2
  <2>4. lost \subseteq lost' /\ lost' \subseteq lost \cup {"revert"}
    BY <1>2
  <2>5. ok' \in BOOLEAN
    BY <1>2, <2>1
  <2> QED
    BY <2>3, <2>4, <2>5
<1>7. TypeOK'
  BY <1>1, <1>5, <1>6 DEF IInv, TypeOK
<1>8. WellFormed'
  BY <1>1, <1>4, <1>5 DEF IInv, WellFormed
<1>9. Undoing'
  <2>1. pc = "undo" => (heeded \/ ok' \/ "revert" \in lost')
    BY <1>2 DEF IInv, Undoing
  <2>2. floor <= Len(stack')
    BY <1>1, <1>3, <1>4
  <2> QED
    BY <1>1, <2>1, <2>2 DEF IInv, Undoing, Collect, Partial
<1>10. ASSUME ok' PROVE ok /\ lost' = lost /\ refusals' = refusals /\ CanUndo(net, e) /\ net' = Undone(net, e)
  BY <1>2, <1>10
<1>11. ASSUME NEW lo \in Nat, NEW b, lo < Len(stack), ok', WayBack(lo, b, floor, net, stack)
       PROVE  WayBack(lo, b, floor, net', stack')
  <2>1. CanUndo(net, Top(stack)) /\ net' = Undone(net, Top(stack))
    BY <1>10, <1>11 DEF e
  <2>2. Path(lo, b, Undone(net, Top(stack)), SubSeq(stack, 1, Len(stack) - 1))
    BY <1>3, <1>11, <2>1, BackGoesOn
  <2> QED
    BY <1>1, <2>1, <2>2 DEF WayBack
<1>12. LeadsBack'
  <2>1. ASSUME lost' = {}, ~Partial, pc = "undo", ok' PROVE WayBack(0, before, floor, net', stack')
    BY <1>3, <1>10, <1>11, <2>1 DEF IInv, LeadsBack
  <2>2. ASSUME lost' = {}, ~Partial, pc = "undoall", ok' PROVE Path(0, before, net', stack')
    <3>1. Path(0, before, net, stack) /\ CanUndo(net, Top(stack)) /\ net' = Undone(net, Top(stack))
      BY <1>10, <2>2 DEF IInv, LeadsBack, e
    <3>2. 0 < Len(stack) /\ 0 \in Nat
      BY <1>3
    <3>3. Path(0, before, Undone(net, Top(stack)), SubSeq(stack, 1, Len(stack) - 1))
      BY <1>3, <3>1, <3>2, PathPop
    <3> QED
      BY <1>1, <3>1, <3>3
  <2>3. ASSUME lost' = {}, pc = "undo", ok', mark <= Len(stack') PROVE WayBack(mark, start, floor, net', stack')
    <3>1. mark < Len(stack)
      BY <1>3, <1>4, <2>3
    <3> QED
      BY <1>3, <1>10, <1>11, <2>3, <3>1 DEF IInv, LeadsBack
  <2> QED
    BY <1>1, <1>10, <2>1, <2>2, <2>3 DEF LeadsBack, Partial
<1>13. Dry'
  <2>1. ASSUME Collect, problems = {}, pc # "undo" PROVE lost' = lost
    <3>1. heeded
      BY <1>1, <2>1 DEF IInv, Undoing
    <3> QED
      BY <1>2, <3>1
  <2>2. ASSUME mode = "dry" PROVE NoneFails(stack') /\ lost' \subseteq {"revert", "comment", "moved"}
    BY <1>4, <1>6, <2>2 DEF IInv, Dry
  <2>3. ASSUME mode = "dry", pc = "undoall", refusals' = 0, lost' = {} PROVE ok'
    <3>1. refusals = 0 /\ lost = {}
      BY <1>2, <1>3, <1>6, <2>3
    <3>2. ok /\ ~Partial
      BY <2>3, <3>1 DEF IInv, Dry, Partial
    <3>3. Path(0, before, net, stack)
      BY <2>3, <3>1, <3>2 DEF IInv, LeadsBack
    <3>4. 0 < Len(stack) /\ 0 \in Nat /\ Top(stack).k # "fail"
      BY <1>3, <1>4, <2>3 DEF e, IInv, Dry
    <3>5. ~CanUndo(net, Top(stack)) => Top(stack).k = "fail"
      BY <1>3, <3>3, <3>4, PathPop
    <3>6. CanUndo(net, e)
      BY <3>4, <3>5 DEF e
    <3>7. refusals' # refusals + 1
      BY <2>3, <3>1
    <3>8. UNCHANGED <<ok, lost, refusals>>
      BY <1>2, <3>6, <3>7
    <3> QED
      BY <3>2, <3>8
  <2> QED
    BY <1>1, <2>1, <2>2, <2>3 DEF IInv, Dry, Collect
<1>14. Reported'
  BY <1>1 DEF IInv, Reported, RowMeansReverted
<1> QED
  BY <1>7, <1>8, <1>9, <1>12, <1>13, <1>14 DEF IInv

LEMMA PartialErrorKeeps == IInv /\ PartialError => IInv'
<1> SUFFICES ASSUME IInv, PartialError PROVE IInv'
  OBVIOUS
<1>1. /\ pc = "undo" /\ Len(stack) <= floor /\ Partial
      /\ row' = IF ok \/ ~heeded THEN "true" ELSE "false"
      /\ failed' = failed \cup {index + 1} /\ index' = index + 1
      /\ pc' = IF mode = "stop" THEN "end" ELSE "pick"
      /\ UNCHANGED <<net, checking, mode, op, script, nodes, stack, mark, floor, heeded, ok, problems, reply,
                     touched, cooks, before, start, lost, refusals>>
  BY DEF PartialError, Undid, rollback, ghosts
<1>2. /\ index < MaxOps /\ floor = mark /\ floor <= Len(stack) /\ (~ok /\ ~heeded => "revert" \in lost)
      /\ mode \notin {"edit", "dry"}
  BY <1>1 DEF IInv, Undoing, Partial
<1>3. TypeOK'
  BY <1>1, <1>2, TransactionsAssumption DEF IInv, TypeOK
<1>4. WellFormed'
  BY <1>1 DEF IInv, WellFormed
<1>5. Undoing'
  BY <1>1 DEF Undoing
<1>6. LeadsBack'
  BY <1>1 DEF LeadsBack, Partial
<1>7. Dry'
  BY <1>1, <1>2 DEF IInv, Dry, Collect
<1>8. row' = "true" /\ lost' = {} => net' = start'
  <2> SUFFICES ASSUME row' = "true", lost = {} PROVE net = start
    BY <1>1
  <2>1. ok \/ ~heeded
    BY <1>1
  <2>2. ok
    BY <1>2, <2>1
  <2>3. mark <= Len(stack) /\ ~(floor < Len(stack)) /\ Len(stack) <= mark /\ mark \in Nat /\ stack \in Seq(Entry)
    BY <1>1, <1>2, LenProperties DEF IInv, WellFormed, TypeOK
  <2>4. WayBack(mark, start, floor, net, stack)
    BY <1>1, <2>2, <2>3 DEF IInv, LeadsBack
  <2>5. Path(mark, start, net, stack)
    BY <2>3, <2>4 DEF WayBack
  <2> QED
    BY <2>3, <2>5, PathEmpty
<1>9. Reported'
  BY <1>1, <1>8 DEF IInv, Reported, RowMeansReverted
<1> QED
  BY <1>3, <1>4, <1>5, <1>6, <1>7, <1>9 DEF IInv

LEMMA CollectErrorKeeps == IInv /\ CollectError => IInv'
<1> SUFFICES ASSUME IInv, CollectError PROVE IInv'
  OBVIOUS
<1>1. /\ pc = "undo" /\ Len(stack) <= floor /\ Collect
      /\ problems' = problems \cup {index + 1} /\ checking' = TRUE
      /\ failed' = failed \cup {index + 1} /\ index' = index + 1 /\ pc' = "pick"
      /\ UNCHANGED <<net, mode, op, script, nodes, stack, mark, floor, heeded, ok, row, reply, touched, cooks,
                     before, start, lost, refusals>>
  BY DEF CollectError, Undid, rollback, ghosts
<1>2. /\ index < MaxOps /\ floor <= Len(stack) /\ ~heeded /\ (~ok /\ ~heeded => "revert" \in lost)
      /\ mode \notin {"partial", "stop"} /\ row = "none" /\ reply = "none"
  BY <1>1 DEF IInv, Undoing, Collect, Reported
<1>3. TypeOK'
  BY <1>1, <1>2, TransactionsAssumption DEF IInv, TypeOK
<1>4. WellFormed'
  BY <1>1 DEF IInv, WellFormed
<1>5. Undoing'
  BY <1>1 DEF Undoing
<1>6. LeadsBack'
  <2>1. ASSUME lost = {}, ~Partial PROVE Path(0, before, net, stack)
    <3>1. ok
      BY <1>2, <2>1
    <3>2. WayBack(0, before, floor, net, stack)
      BY <1>1, <2>1, <3>1 DEF IInv, LeadsBack
    <3>3. ~(floor < Len(stack))
      BY <1>1, LenProperties DEF IInv, WellFormed, TypeOK
    <3> QED
      BY <3>2, <3>3 DEF WayBack
  <2> QED
    BY <1>1, <2>1 DEF LeadsBack, Partial
<1>7. Dry'
  <2>1. problems' # {}
    BY <1>1
  <2> QED
    BY <1>1, <2>1 DEF IInv, Dry, Collect
<1>8. Reported'
  BY <1>1, <1>2 DEF IInv, Reported, RowMeansReverted
<1> QED
  BY <1>3, <1>4, <1>5, <1>6, <1>7, <1>8 DEF IInv

\* A rollback of the whole call that is through, and that nothing stopped, led back.
LEMMA AllBack ==
  ASSUME IInv, pc \in {"undo", "undoall"}, floor = 0, Len(stack) <= floor, ok, lost = {}, ~Partial
  PROVE  net = before
<1>1. stack \in Seq(Entry) /\ 0 \in Nat /\ Len(stack) \in Nat /\ Len(stack) <= 0
  BY LenProperties DEF IInv, WellFormed
<1>2. Path(0, before, net, stack)
  BY <1>1 DEF IInv, LeadsBack, WayBack
<1> QED
  BY <1>1, <1>2, PathEmpty

LEMMA BatchErrorKeeps == IInv /\ BatchError => IInv'
<1> SUFFICES ASSUME IInv, BatchError PROVE IInv'
  OBVIOUS
<1>1. /\ pc = "undo" /\ Len(stack) <= floor /\ ~Partial /\ ~Collect /\ reply' = Told(ok) /\ pc' = "raised"
      /\ UNCHANGED <<net, checking, mode, index, op, script, nodes, stack, mark, floor, heeded, ok, problems,
                     failed, row, touched, cooks, before, start, lost, refusals>>
  BY DEF BatchError, Undid, plan, rollback, ghosts
<1>2. Told(ok) \in {"true", "null", "false"} /\ (Told(ok) = "true" => ok)
  BY DEF Told
<1>3. TypeOK'
  BY <1>1, <1>2 DEF IInv, TypeOK, Reports
<1>4. WellFormed'
  BY <1>1 DEF IInv, WellFormed
<1>5. Undoing'
  BY <1>1 DEF Undoing
<1>6. LeadsBack'
  BY <1>1 DEF LeadsBack
<1>7. Dry'
  BY <1>1 DEF IInv, Dry, Collect
<1>8. Reported'
  <2>1. ASSUME reply' = "true", lost = {} PROVE net = before
    <3>1. ok /\ floor = 0
      BY <1>1, <1>2, <2>1 DEF IInv, Undoing
    <3> QED
      BY <1>1, <2>1, <3>1, AllBack
  <2> QED
    BY <1>1, <1>2, <2>1 DEF IInv, Reported, RowMeansReverted
<1> QED
  BY <1>3, <1>4, <1>5, <1>6, <1>7, <1>8 DEF IInv

LEMMA EndPlanKeeps == IInv /\ EndPlan => IInv'
<1> SUFFICES ASSUME IInv, EndPlan PROVE IInv'
  OBVIOUS
<1>1. /\ pc \in {"end", "pick"}
      /\ IF problems # {} \/ mode = "dry" THEN pc' = "undoall" /\ reply' = reply
                                          ELSE pc' = "answered" /\ reply' = "done"
      /\ floor' = 0 /\ heeded' = TRUE /\ ok' = TRUE
      /\ UNCHANGED <<net, checking, mode, index, op, script, nodes, stack, mark, problems, failed, row,
                     touched, cooks, before, start, lost, refusals>>
  BY DEF EndPlan, plan, ghosts
<1>2. TypeOK'
  BY <1>1 DEF IInv, TypeOK, Reports
<1>3. WellFormed'
  <2>1. pc' # "step"
    BY <1>1
  <2> QED
    BY <1>1, <2>1 DEF IInv, WellFormed
<1>4. Undoing'
  <2>1. pc' = "undoall" => problems # {} \/ mode = "dry"
    BY <1>1
  <2>2. pc' = "undoall" => Collect'
    BY <1>1, <2>1 DEF IInv, Dry, Collect
  <2>3. pc' \in {"undoall", "answered"}
    BY <1>1
  <2> QED
    BY <1>1, <2>1, <2>2, <2>3 DEF Undoing
<1>5. LeadsBack'
  <2>1. lost = {} /\ ~Partial => Path(0, before, net, stack)
    BY <1>1 DEF IInv, LeadsBack, Undoing, Partial
  <2>2. pc' \in {"undoall", "answered"} /\ (Partial <=> Partial')
    BY <1>1 DEF Partial
  <2> QED
    BY <1>1, <2>1, <2>2 DEF LeadsBack
<1>6. Dry'
  BY <1>1 DEF IInv, Dry, Collect
<1>7. Reported'
  BY <1>1 DEF IInv, Reported, RowMeansReverted
<1> QED
  BY <1>2, <1>3, <1>4, <1>5, <1>6, <1>7 DEF IInv

LEMMA CombinedErrorKeeps == IInv /\ CombinedError => IInv'
<1> SUFFICES ASSUME IInv, CombinedError PROVE IInv'
  OBVIOUS
<1>1. /\ pc = "undoall" /\ stack = <<>> /\ problems # {} /\ reply' = Told(ok) /\ pc' = "raised"
      /\ UNCHANGED <<net, checking, mode, index, op, script, nodes, stack, mark, floor, heeded, ok, problems,
                     failed, row, touched, cooks, before, start, lost, refusals>>
  BY DEF CombinedError, plan, rollback, ghosts
<1>2. Told(ok) \in {"true", "null", "false"} /\ (Told(ok) = "true" => ok) /\ (Told(ok) = "null" => ~ok)
  BY DEF Told
<1>3. TypeOK'
  BY <1>1, <1>2 DEF IInv, TypeOK, Reports
<1>4. WellFormed'
  BY <1>1 DEF IInv, WellFormed
<1>5. Undoing'
  BY <1>1 DEF Undoing
<1>6. LeadsBack'
  BY <1>1 DEF LeadsBack
<1>7. Dry'
  <2>1. mode = "dry" => reply' # "null" \/ lost # {} \/ refusals > 0
    <3>1. refusals \in Nat
      BY DEF IInv, TypeOK
    <3>2. mode = "dry" /\ refusals = 0 /\ lost = {} => ok
      BY <1>1 DEF IInv, Dry
    <3> QED
      BY <1>1, <1>2, <3>1, <3>2
  <2> QED
    BY <1>1, <2>1 DEF IInv, Dry, Collect
<1>8. Reported'
  <2>1. ASSUME reply' = "true", lost = {} PROVE net = before
    <3>1. ok /\ floor = 0 /\ Collect /\ Len(stack) <= 0
      BY <1>1, <1>2, <2>1 DEF IInv, Undoing
    <3> QED
      BY <1>1, <2>1, <3>1, AllBack DEF Collect, Partial
  <2> QED
    BY <1>1, <1>2, <2>1 DEF IInv, Reported, RowMeansReverted
<1> QED
  BY <1>3, <1>4, <1>5, <1>6, <1>7, <1>8 DEF IInv

LEMMA DryRunKeeps == IInv /\ DryRun => IInv'
<1> SUFFICES ASSUME IInv, DryRun PROVE IInv'
  OBVIOUS
<1>1. /\ pc = "undoall" /\ stack = <<>> /\ problems = {}
      /\ IF ok THEN reply' = "plan" /\ pc' = "answered" ELSE reply' = "absent" /\ pc' = "raised"
      /\ UNCHANGED <<net, checking, mode, index, op, script, nodes, stack, mark, floor, heeded, ok, problems,
                     failed, row, touched, cooks, before, start, lost, refusals>>
  BY DEF DryRun, plan, rollback, ghosts
<1>2. Collect /\ floor = 0 /\ mode = "dry" /\ Len(stack) <= 0
  BY <1>1 DEF IInv, Undoing
<1>3. TypeOK'
  BY <1>1 DEF IInv, TypeOK, Reports
<1>4. WellFormed'
  BY <1>1 DEF IInv, WellFormed
<1>5. Undoing'
  BY <1>1 DEF Undoing
<1>6. LeadsBack'
  BY <1>1 DEF LeadsBack
<1>7. Dry'
  BY <1>1 DEF IInv, Dry, Collect
<1>8. Reported'
  <2>1. lost \subseteq {"comment", "moved"}
    BY <1>1, <1>2 DEF IInv, Dry
  <2>2. ok /\ lost = {} => net = before
    BY <1>1, <1>2, AllBack DEF Partial
  <2> QED
    BY <1>1, <2>1, <2>2 DEF Reported, RowMeansReverted
<1> QED
  BY <1>3, <1>4, <1>5, <1>6, <1>7, <1>8 DEF IInv

LEMMA UndoGroupKeeps == ASSUME IInv, NEW back \in BOOLEAN, UndoGroup(back) PROVE IInv'
<1>1. /\ pc = "raised" /\ net' = (IF back /\ mode # "dry" THEN before ELSE net)
      /\ reply' = Filled(back) /\ pc' = "answered"
      /\ UNCHANGED <<checking, mode, index, op, script, nodes, stack, mark, floor, heeded, ok, problems,
                     failed, row, touched, cooks, before, start, lost, refusals>>
  BY DEF UndoGroup, plan, rollback, ghosts
<1>2. NetOK(before) /\ NetOK(net) /\ NetOK(net') /\ net' \in Networks
  BY <1>1, InitialOK DEF IInv, WellFormed, NetOK
<1>3. Filled(back) \in Reports
  BY DEF Filled, IInv, TypeOK, Reports
<1>4. TypeOK'
  BY <1>1, <1>2, <1>3 DEF IInv, TypeOK
<1>5. WellFormed'
  BY <1>1, <1>2 DEF IInv, WellFormed
<1>6. Undoing'
  BY <1>1 DEF Undoing
<1>7. LeadsBack'
  BY <1>1 DEF LeadsBack
<1>8. Dry'
  BY <1>1 DEF IInv, Dry, Collect
<1>9. reply # "plan"
  BY <1>1 DEF IInv, Reported
<1>10. Filled(back) # "plan"
  BY <1>9 DEF Filled
<1>11. ASSUME Filled(back) = "true", lost = {}, mode = "dry" => refusals = 0 PROVE net' = before
  <2>1. CASE reply = "true"
    <3>1. net = before
      BY <1>11, <2>1 DEF IInv, Reported
    <3> QED
      BY <1>1, <3>1
  <2>2. CASE reply = "null" /\ back
    <3>1. mode # "dry"
      <4> SUFFICES ASSUME mode = "dry" PROVE FALSE
        OBVIOUS
      <4>1. lost # {} \/ refusals > 0
        BY <1>1, <2>2 DEF IInv, Dry
      <4> QED
        BY <1>11, <4>1
    <3> QED
      BY <1>1, <2>2, <3>1
  <2> QED
    BY <1>11, <2>1, <2>2 DEF Filled
<1>12. Reported'
  BY <1>1, <1>10, <1>11 DEF Reported, RowMeansReverted
<1> QED
  BY <1>4, <1>5, <1>6, <1>7, <1>8, <1>12 DEF IInv

LEMMA StutterKeeps == IInv /\ UNCHANGED vars => IInv'
<1> SUFFICES ASSUME IInv, UNCHANGED vars PROVE IInv'
  OBVIOUS
<1>1. UNCHANGED <<net, pc, checking, mode, index, op, script, nodes, stack, mark, floor, heeded, ok, problems,
                  failed, row, reply, touched, cooks, before, start, lost, refusals>>
  BY DEF vars, plan, rollback, outcome, ghosts
<1>2. TypeOK' /\ WellFormed'
  BY <1>1 DEF IInv, TypeOK, WellFormed
<1>3. Undoing' /\ LeadsBack'
  BY <1>1 DEF IInv, Undoing, LeadsBack, Collect, Partial
<1>4. Dry' /\ Reported'
  BY <1>1 DEF IInv, Dry, Collect, Reported, RowMeansReverted
<1> QED
  BY <1>2, <1>3, <1>4 DEF IInv

LEMMA NextKeeps == IInv /\ [Next]_vars => IInv'
<1> SUFFICES ASSUME IInv, [Next]_vars PROVE IInv'
  OBVIOUS
<1>1. ASSUME NEW o \in Ops(net), BeginOp(o) PROVE IInv'
  BY <1>1, BeginOpKeeps
<1>2. ASSUME NEW ref, BeginBadOp(ref) PROVE IInv'
  BY <1>2, BeginBadOpKeeps
<1>3. ASSUME NEW back \in BOOLEAN, UndoGroup(back) PROVE IInv'
  BY <1>3, UndoGroupKeeps
<1> QED
  BY <1>1, <1>2, <1>3, SkipOpKeeps, NextDeleteKeeps, RunStepKeeps, EndOpKeeps, RaiseKeeps, RaiseOtherKeeps,
     CompensateKeeps, PartialErrorKeeps, CollectErrorKeeps, BatchErrorKeeps, EndPlanKeeps, CombinedErrorKeeps,
     DryRunKeeps, StutterKeeps DEF Next

-----------------------------------------------------------------------------
(* The theorems. *)

LEMMA Invariance == Spec => []IInv
<1>1. Init => IInv
  BY InitHolds
<1>2. IInv /\ [Next]_vars => IInv'
  BY NextKeeps
<1> QED
  BY <1>1, <1>2, PTL DEF Spec

\* Every variable keeps its type: the networks stay networks, whatever the ops do.
THEOREM TypeCorrect == Spec => []TypeOK
<1>1. IInv => TypeOK
  BY DEF IInv
<1> QED
  BY <1>1, Invariance, PTL

\* However many nodes, ops and failures there are: a failing call that says rolled_back: true left the
\* network as it found it (tx.py, execute and Rollback).
THEOREM RolledBackIsBack == Spec => []RolledBackMeansBack
<1>1. IInv => RolledBackMeansBack
  BY DEF IInv, Reported, RolledBackMeansBack
<1> QED
  BY <1>1, Invariance, PTL

\* With partial, an op whose row says rolled_back: true left the network as the ops before it left it
\* (tx.py, execute's partial branch).
THEOREM RowIsReverted == Spec => []RowMeansReverted
<1>1. IInv => RowMeansReverted
  BY DEF IInv, Reported
<1> QED
  BY <1>1, Invariance, PTL

\* A dry run that answers with a plan ran no callback, discarded no edit and left the network as it found
\* it, but for the flag of a comment and for neighbours that good_position moved (tx.py, execute's dry_run
\* branch).
THEOREM DryRunIsDry == Spec => []DryRunLeavesNothing
<1>1. IInv => DryRunLeavesNothing
  BY DEF IInv, Reported, DryRunLeavesNothing
<1> QED
  BY <1>1, Invariance, PTL

\* Only a destroy takes a node away.
LEMMA StaysAlive ==
  ASSUME NEW w \in Networks, NEW s, s.k # "destroy"
  PROVE  w.alive \subseteq Effect(w, s).alive
<1>1. w = [w EXCEPT !.alive = @] /\ w.alive \in SUBSET Node
  BY DEF Networks
<1>2. \A n, x : Created(w, n, x).alive = w.alive \cup {n}
  BY DEF Networks, Created
<1>3. CASE s.k = "new"
  BY <1>2, <1>3 DEF Effect
<1>4. CASE s.k = "fill"
  <2>1. Effect(w, s).alive = Created(w, s.n, s.m).alive
    BY <1>4 DEF Effect, Valued, Created, Networks
  <2> QED
    BY <1>2, <2>1
<1>5. CASE s.k = "copy"
  <2>1. Effect(w, s).alive = Created(w, s.n, Aside(s.n)).alive
    BY <1>5 DEF Effect, Created, Networks
  <2> QED
    BY <1>2, <2>1
<1>6. CASE s.k \in {"put", "putback", "stray"}
  BY <1>6 DEF Effect, Valued, Networks
<1>7. CASE s.k \in {"wire", "wireback"}
  BY <1>7 DEF Effect, Wired, Networks
<1>8. CASE s.k \in {"rewire", "rewireback"}
  BY <1>8 DEF Effect, Rewired, Networks
<1>9. CASE s.k \in {"rename", "name"}
  BY <1>9 DEF Effect, Named, Networks
<1>10. CASE s.k \in {"show", "select"}
  BY <1>10 DEF Effect, Shown, Selected, Networks
<1>11. CASE s.k \in {"lock", "unlock"}
  BY <1>11 DEF Effect, Matched, Unlocked, Networks
<1>12. CASE s.k \notin {"new", "fill", "copy", "put", "putback", "stray", "wire", "wireback", "rewire",
                        "rewireback", "rename", "name", "show", "select", "lock", "unlock"}
  BY <1>12 DEF Effect
<1> QED
  BY <1>3, <1>4, <1>5, <1>6, <1>7, <1>8, <1>9, <1>10, <1>11, <1>12

\* An entry of the rollback takes away at most the node it is there to destroy.
LEMMA UndoneStays ==
  ASSUME NEW w \in Networks, NEW e \in Entry, CanUndo(w, e)
  PROVE  /\ e.k \notin {"destroy", "destroylater"} => w.alive \subseteq Undone(w, e).alive
         /\ w.alive \ {e.n} \subseteq Undone(w, e).alive
<1>1. CASE e.k \in {"destroy", "destroylater"}
  <2>1. Undone(w, e) \in {w, Destroyed(w, e.n)}
    BY <1>1 DEF Undone
  <2>2. Destroyed(w, e.n).alive = w.alive \ {e.n}
    BY DEF Destroyed
  <2> QED
    BY <1>1, <2>1, <2>2
<1>2. CASE e.k = "looks"
  BY <1>2 DEF Undone, Networks
<1>3. CASE e.k = "feed"
  BY <1>3 DEF Undone, Networks
<1>4. CASE e.k = "select"
  BY <1>4 DEF Undone, Selected, Networks
<1>5. CASE e.k \notin {"destroy", "destroylater", "looks", "feed", "select"}
  <2>1. Undone(w, e) = Effect(w, e)
    BY <1>5 DEF Undone
  <2> QED
    BY <1>5, <2>1, StaysAlive
<1> QED
  BY <1>1, <1>2, <1>3, <1>4, <1>5

LEMMA CheckModeStep ==
  ASSUME IInv, Next, checking
  PROVE  before.alive \cap net.alive \subseteq net'.alive /\ lost' \subseteq lost \cup {"revert", "comment", "moved"}
<1>1. before.alive = Initial /\ net \in Networks
  BY DEF IInv, WellFormed, TypeOK, InitialNet
<1>2. CASE RunStep
  <2>1. /\ pc = "step" /\ script # <<>> /\ net' = Effect(net, Head(script))
        /\ lost' = lost \cup Losses(net, Head(script))
    BY <1>2 DEF RunStep
  <2>2. 1 \in DOMAIN script /\ Head(script) = script[1] /\ Calm(script)
    BY <2>1, TailIs DEF IInv, WellFormed
  <2>3. Head(script).k \notin {"press", "lock", "destroy"}
    BY <2>2 DEF Calm
  <2>4. net.alive \subseteq net'.alive
    BY <1>1, <2>1, <2>3, StaysAlive
  <2>5. lost' \subseteq lost \cup {"comment", "moved"}
    BY <2>1, <2>3 DEF Losses
  <2> QED
    BY <2>4, <2>5
<1>3. CASE Compensate
  <2> DEFINE e == Top(stack)
  <2>1. /\ Len(stack) > floor
        /\ net' = net \/ (CanUndo(net, e) /\ net' = Undone(net, e))
        /\ lost' \subseteq lost \cup {"revert"}
    BY <1>3 DEF Compensate, Top
  <2>2. stack \in Seq(Entry) /\ Len(stack) > 0 /\ MadeHere(stack)
    BY <2>1, LenProperties DEF IInv, WellFormed, TypeOK
  <2>3. e \in Entry /\ Len(stack) \in DOMAIN stack
    BY <2>2, Popped
  <2>4. e.k \in {"destroy", "destroylater"} => e.n \notin Initial
    BY <2>2, <2>3 DEF MadeHere, Top
  <2> HIDE DEF e
  <2>5. CanUndo(net, e) => Initial \cap net.alive \subseteq Undone(net, e).alive
    BY <1>1, <2>3, <2>4, UndoneStays
  <2> QED
    BY <1>1, <2>1, <2>5
<1>4. ASSUME NEW back \in BOOLEAN, UndoGroup(back) PROVE net' \in {net, before} /\ lost' = lost
  BY <1>4 DEF UndoGroup, ghosts
<1>5. ASSUME NEW o \in Ops(net), BeginOp(o) PROVE net' = net /\ lost' = lost
  BY <1>5 DEF BeginOp
<1>6. ASSUME NEW ref, BeginBadOp(ref) PROVE net' = net /\ lost' = lost
  BY <1>6 DEF BeginBadOp
<1>7. CASE SkipOp \/ NextDelete \/ EndOp \/ Raise \/ RaiseOther
  <2>1. net' = net /\ lost' = lost
    BY <1>7 DEF SkipOp, NextDelete, EndOp, Raise, RaiseOther, ghosts
  <2> QED
    BY <2>1
<1>8. CASE PartialError \/ CollectError \/ BatchError \/ EndPlan \/ CombinedError \/ DryRun
  <2>1. net' = net /\ lost' = lost
    BY <1>8 DEF PartialError, CollectError, BatchError, EndPlan, CombinedError, DryRun, ghosts
  <2> QED
    BY <2>1
<1> QED
  BY <1>2, <1>3, <1>4, <1>5, <1>6, <1>7, <1>8 DEF Next

\* In check mode, a dry run and the rest of an edit after its first problem, no step destroys a node from
\* before the call, runs a callback or discards edits by a lock (tx.py and the handlers, State.checking).
THEOREM CheckModeIsSafe == Spec => CheckModeTakesNothing
<1>1. IInv /\ [Next]_vars =>
        [checking => /\ before.alive \cap net.alive \subseteq net'.alive
                     /\ lost' \subseteq lost \cup {"revert", "comment", "moved"}]_vars
  BY CheckModeStep
<1> QED
  BY <1>1, Invariance, PTL DEF Spec, CheckModeTakesNothing
=============================================================================
