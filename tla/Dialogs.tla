------------------------------ MODULE Dialogs ------------------------------
(* Modal dialogs in a GUI session (modal.py): while the executor runs work  *)
(* of the host on Houdini's main thread, the functions of hou.ui that wait  *)
(* for a person are stubs that refuse; a call that reached one fails, also  *)
(* when the refusal was swallowed, unless it loaded a scene.  A call is one *)
(* work, or takes several, between which others run.                        *)
EXTENDS Naturals, Sequences, FiniteSets, SequencesExt

CONSTANTS
  Calls,
  n1, n2,      \* functions of hou.ui
  MaxLoads,    \* bound on generation
  None

\* MODAL_CALLS, in its order.
Names == <<n1, n2>>

VARIABLES
  attr,        \* what hou.ui's class has for a name: "own", "user" (a script's), "stub" or "none"
  hard,        \* names that cannot be set on the class
  saved,       \* what was there before, by name
  installed,   \* there is a target to restore
  depth,       \* open active blocks
  running,     \* the call whose work is on the main thread
  nested,      \* it runs a nested event loop
  steps,       \* calls that take more than one work
  pc,          \* "idle", "open" (between works too), "work" or "done"
  refused,     \* the list that the call collects
  began,       \* the generation when it began
  raised,      \* its work raised
  generation,
  result,      \* "ok", "warned", "failed" or "refused", and None before
  theirs,      \* ghost: attr without the host
  reached,     \* ghost: the names that the call's own code reached
  loaded       \* ghost: the call loaded a scene

host == <<attr, saved, installed, depth>>
vars == <<host, hard, running, nested, steps, pc, refused, began, raised, generation, result, theirs,
          reached, loaded>>

Init ==
  /\ attr \in [ToSet(Names) -> {"own", "none"}]
  /\ hard \in SUBSET {n \in ToSet(Names) : attr[n] # "none"}
  /\ saved = <<>> /\ installed = FALSE /\ depth = 0
  /\ running = None /\ nested = FALSE
  /\ steps \in SUBSET Calls
  /\ pc = [c \in Calls |-> "idle"]
  /\ refused = [c \in Calls |-> {}] /\ reached = [c \in Calls |-> {}]
  /\ began = [c \in Calls |-> 0] /\ generation = 0
  /\ raised = [c \in Calls |-> FALSE] /\ loaded = [c \in Calls |-> FALSE]
  /\ result = [c \in Calls |-> None]
  /\ theirs = attr

-----------------------------------------------------------------------------
(* ModalStubs *)

\* The names that are replaced before the first that cannot be.
Replaceable ==
  {Names[i] : i \in {k \in DOMAIN Names : /\ attr[Names[k]] \notin {"none", "stub"}
                                         /\ \A j \in 1 .. k : Names[j] \in hard => attr[Names[j]] \in {"none", "stub"}}}
Fails == \E n \in hard : attr[n] \notin {"none", "stub"}

\* Mutant: a failing install leaves the stubs that it had put in.
PutBackNot == [n \in DOMAIN attr |-> IF n \in Replaceable THEN "stub" ELSE attr[n]]

\* The class after an install that failed: what was replaced is put back.
PutBack == attr

\* The first active block puts the stubs in, if all of them can be.
Install ==
  IF Fails THEN attr' = PutBack /\ UNCHANGED <<saved, installed>>
  ELSE /\ attr' = [n \in DOMAIN attr |-> IF n \in Replaceable THEN "stub" ELSE attr[n]]
       /\ saved' = [n \in Replaceable |-> attr[n]]
       /\ installed' = TRUE

Enter ==
  /\ IF depth = 0 THEN Install ELSE UNCHANGED <<attr, saved, installed>>
  /\ depth' = depth + 1

\* The last block that closes puts the originals back.
Leave ==
  /\ depth' = depth - 1
  /\ IF depth = 1 /\ installed
     THEN /\ attr' = [n \in DOMAIN attr |-> IF n \in DOMAIN saved THEN saved[n] ELSE attr[n]]
          /\ saved' = <<>> /\ installed' = FALSE
     ELSE UNCHANGED <<attr, saved, installed>>

-----------------------------------------------------------------------------
(* Calls.  Works run one at a time: the idle callback of a nested event loop *)
(* drains nothing.                                                           *)

\* run_refusing_dialogs: what the call answers.  A scene that was loaded in the meantime makes a
\* swallowed refusal a warning.
Told(c) ==
  CASE refused[c] # {} /\ raised[c] -> "refused"
    [] refused[c] = {} /\ raised[c] -> "failed"
    [] refused[c] = {} /\ ~raised[c] -> "ok"
    [] OTHER -> IF generation # began[c] THEN "warned" ELSE "refused"

\* A call of several works begins to collect before the first of them, off the main thread.
Open(c) ==
  /\ pc[c] = "idle" /\ c \in steps
  /\ pc' = [pc EXCEPT ![c] = "open"]
  /\ began' = [began EXCEPT ![c] = generation]
  /\ UNCHANGED <<host, hard, running, nested, steps, refused, raised, generation, result, theirs, reached, loaded>>

\* _execute, in a GUI; a call of one work collects in it.
Begin(c) ==
  /\ pc[c] = (IF c \in steps THEN "open" ELSE "idle") /\ ~raised[c] /\ running = None
  /\ running' = c /\ pc' = [pc EXCEPT ![c] = "work"]
  /\ began' = IF c \in steps THEN began ELSE [began EXCEPT ![c] = generation]
  /\ Enter
  /\ UNCHANGED <<hard, nested, steps, refused, raised, generation, result, theirs, reached, loaded>>

\* The work, or a user's script in its nested event loop, calls hou.ui.n.  A stub refuses with an
\* exception: the code, or Houdini, swallows it, or the work ends of it.
Dialog(n) ==
  /\ running # None /\ attr[n] = "stub" /\ ~raised[running]
  /\ refused' = [refused EXCEPT ![running] = @ \union {n}]
  /\ reached' = IF nested THEN reached ELSE [reached EXCEPT ![running] = @ \union {n}]
  /\ raised' \in IF nested THEN {raised} ELSE {raised, [raised EXCEPT ![running] = TRUE]}
  /\ UNCHANGED <<host, hard, running, nested, steps, pc, began, generation, result, theirs, loaded>>

\* The work fails otherwise.
Fail ==
  /\ running # None /\ ~nested /\ ~raised[running]
  /\ raised' = [raised EXCEPT ![running] = TRUE]
  /\ UNCHANGED <<host, hard, running, nested, steps, pc, refused, began, generation, result, theirs, reached, loaded>>

\* The work loads or clears the scene; without one, the user does.
Load ==
  /\ generation < MaxLoads
  /\ running # None => ~raised[running] /\ ~nested
  /\ generation' = generation + 1
  /\ loaded' = IF running = None THEN loaded ELSE [loaded EXCEPT ![running] = TRUE]
  /\ UNCHANGED <<host, hard, running, nested, steps, pc, refused, began, raised, result, theirs, reached>>

\* The work handles events, or is done with them.
Nest ==
  /\ running # None /\ ~raised[running]
  /\ nested' = ~nested
  /\ UNCHANGED <<host, hard, running, steps, pc, refused, began, raised, generation, result, theirs, reached, loaded>>

End ==
  /\ running # None /\ ~nested
  /\ Leave
  /\ running' = None
  /\ IF running \in steps
     THEN pc' = [pc EXCEPT ![running] = "open"] /\ UNCHANGED result
     ELSE /\ pc' = [pc EXCEPT ![running] = "done"]
          /\ result' = [result EXCEPT ![running] = Told(running)]
  /\ UNCHANGED <<hard, nested, steps, refused, began, raised, generation, theirs, reached, loaded>>

Answer(c) ==
  /\ pc[c] = "open"
  /\ result' = [result EXCEPT ![c] = Told(c)]
  /\ pc' = [pc EXCEPT ![c] = "done"]
  /\ UNCHANGED <<host, hard, running, nested, steps, refused, began, raised, generation, theirs, reached, loaded>>

\* Between works, a user's script puts its own function on hou.ui.
Patch(n) ==
  /\ running = None /\ n \notin hard /\ theirs[n] = "own"
  /\ attr' = [attr EXCEPT ![n] = "user"] /\ theirs' = [theirs EXCEPT ![n] = "user"]
  /\ UNCHANGED <<hard, saved, installed, depth, running, nested, steps, pc, refused, began, raised, generation,
                 result, reached, loaded>>

Next ==
  \/ \E c \in Calls : Open(c) \/ Begin(c) \/ Answer(c)
  \/ \E n \in ToSet(Names) : Dialog(n) \/ Patch(n)
  \/ Fail \/ Load \/ Nest \/ End

Spec == Init /\ [][Next]_vars

-----------------------------------------------------------------------------

TypeOK ==
  /\ attr \in [ToSet(Names) -> {"own", "user", "stub", "none"}]
  /\ theirs \in [ToSet(Names) -> {"own", "user", "none"}]
  /\ hard \subseteq ToSet(Names) /\ installed \in BOOLEAN /\ nested \in BOOLEAN
  /\ DOMAIN saved \subseteq ToSet(Names)
  /\ depth \in 0..1 /\ generation \in 0..MaxLoads
  /\ running \in Calls \union {None} /\ steps \subseteq Calls
  /\ pc \in [Calls -> {"idle", "open", "work", "done"}]
  /\ refused \in [Calls -> SUBSET ToSet(Names)] /\ reached \in [Calls -> SUBSET ToSet(Names)]
  /\ began \in [Calls -> 0..MaxLoads] /\ raised \in [Calls -> BOOLEAN] /\ loaded \in [Calls -> BOOLEAN]
  /\ result \in [Calls -> {None, "ok", "warned", "failed", "refused"}]

\* Between works the user's dialogs are as they were, also when the stubs could not go in or the
\* work raised; in a work none of them opens, unless the stubs could not go in
\* (modal.py:124, executor.py:448).
DialogsAreTheirs ==
  /\ running = None => attr = theirs
  /\ running # None /\ hard = {} => \A n \in ToSet(Names) : attr[n] \in {"stub", "none"}

\* A call whose code reached a dialog fails with that, whoever swallowed the refusal, or warns of
\* it when the scene was loaded; a call that reached none and ran no event loop does not, whatever
\* other calls reached (dispatch.py:266).  A load by another call or by the user between the
\* works of a call makes its refusal a warning too: that is excepted.
RefusalIsTold ==
  \A c \in Calls : pc[c] = "done" =>
    /\ reached[c] # {} => result[c] \in {"refused", "warned"}
    /\ result[c] \in {"refused", "warned"} => refused[c] # {}
    /\ result[c] = "warned" => loaded[c] \/ c \in steps
    /\ result[c] = "ok" => ~raised[c]

NoDialogIsLost == DialogsAreTheirs /\ RefusalIsTold
=============================================================================
