-------------------------------- MODULE Renders --------------------------------
(***************************************************************************)
(* The jobs that borrow the scene over many main-thread steps: render in   *)
(* the process (tools/visual.py) sets an output or camera parm of a ROP    *)
(* for its frames and puts it back; a ranged cook and a profile at a frame *)
(* (tools/cook.py) move the playbar and put it back.  Between two steps of *)
(* a job other jobs and Houdini's user act.                                *)
(*                                                                         *)
(* A step is a callable given to the executor (Executor.tla): it runs and  *)
(* returns, or is refused since the main thread stays busy, or its wait    *)
(* times out while it runs, and then it still ends.  What must be put back *)
(* is posted, without a wait, when its own step did not return.            *)
(*                                                                         *)
(* A host that stops (Executor.tla) puts nothing back any more.            *)
(* One ROP and one of its parms stand for all: its value is the user's, or *)
(* the temporary one of a job.  Files are known by the job that wrote them.*)
(***************************************************************************)
EXTENDS Sequences, FiniteSets, Naturals

CONSTANTS
  Tasks,       \* the jobs of render and cook
  Unset,       \* nothing saved, noticed or held
  LastFrame,   \* the frames a job renders or cooks are 1 .. LastFrame
  MaxMoves,    \* bound: edits and scrubs of the user
  MaxLate      \* bound: steps that outlast their wait

Kinds == {"render", "range", "profile"}
Steps == [job : Tasks, fn : {"override", "render", "restore", "read", "frame", "finish"}]

ASSUME RendersAssumption ==
  /\ Tasks \cap Nat = {} /\ Unset \notin Tasks \cup Nat \cup Steps
  /\ LastFrame \in Nat \ {0} /\ MaxMoves \in Nat /\ MaxLate \in Nat

VARIABLES
  kind,     \* render with an override of the parm, range (cook {frame_range}), or profile
            \*   (cook {profile, frame})
  rop,      \* whether the ROP is there
  parm,     \* its parm
  frame,    \* the playbar
  pc,       \* begin, work, end (the finally), over
  done,     \* how many frames the job is through
  outcome,  \* what the job ends with: done, or failed, which a cancelled one is too
  saved,    \* what the render found in the parm
  play,     \* Playhead; only start for a profile
  held,     \* the step that runs on after its wait timed out
  queue,    \* the steps that were posted
  moves, lates,
  written,  \* history: the frames that a render wrote to its own output
  want,     \* history: the value the user gave the parm last
  wish,     \* history: the frame the user moved the playbar to last
  spoilt,   \* history: the parm may be another one
  strayed   \* history: the playbar may be elsewhere

taskVars == <<kind, pc, done, outcome>>
sceneVars == <<rop, parm, frame>>
stepVars == <<saved, play>>
mainVars == <<held, queue>>
history == <<written, want, wish, spoilt, strayed>>
rendersVars == <<sceneVars, taskVars, stepVars, mainVars, moves, lates, history>>

Renders == {j \in Tasks : kind[j] = "render"}
Cooks == Tasks \ Renders
Away == LastFrame + 1     \* a frame that no job cooks

RendersInit ==
  /\ rop = TRUE /\ parm = 0 /\ frame = 0
  /\ kind \in [Tasks -> Kinds] /\ pc = [j \in Tasks |-> "begin"] /\ done = [j \in Tasks |-> 0]
  /\ outcome = [j \in Tasks |-> "running"]
  /\ saved = [j \in Tasks |-> Unset]
  /\ play = [j \in Tasks |-> [start |-> Unset, last |-> Unset, user |-> Unset]]
  /\ held = Unset /\ queue = <<>> /\ moves = 0 /\ lates = 0
  /\ written = [j \in Tasks |-> {}] /\ want = 0 /\ wish = 0 /\ spoilt = FALSE /\ strayed = FALSE

-----------------------------------------------------------------------------
(* What a step does on the main thread. *)

\* apply_override: with undo disabled, so the user's history has nothing of it.
Override(j) ==
  /\ saved' = [saved EXCEPT ![j] = parm] /\ parm' = j
  /\ spoilt' = (spoilt \/ parm # want)
  /\ UNCHANGED <<rop, frame, play, written, want, wish, strayed>>

\* render_frame: to where the parm points now.
RenderFrame(j) ==
  /\ written' = IF rop /\ parm = j THEN [written EXCEPT ![j] = @ \cup {done[j] + 1}] ELSE written
  /\ UNCHANGED <<sceneVars, stepVars, want, wish, spoilt, strayed>>

Restore(j) ==
  /\ parm' = IF rop THEN saved[j] ELSE parm
  /\ spoilt' = (spoilt \/ (~rop /\ parm # want))
  /\ UNCHANGED <<rop, frame, stepVars, written, want, wish, strayed>>

\* A job of cook reads the frame it starts from.  Another that has moved the playbar and not
\* put it back is taken for the user.
AtWork(j) == pc[j] \in {"work", "end"} \/ (held # Unset /\ held.job = j) \/ \E i \in DOMAIN queue : queue[i].job = j
ReadFrame(j) ==
  /\ play' = [play EXCEPT ![j].start = frame]
  /\ strayed' = (strayed \/ \E k \in Cooks \ {j} : AtWork(k))
  /\ UNCHANGED <<sceneVars, saved, written, want, wish, spoilt>>

\* Playhead.before_step: a playbar that is not where the last step left it was moved.
Noticed(p) == IF p.last # Unset /\ frame # p.last THEN [p EXCEPT !.user = frame] ELSE p

\* A step of a ranged cook at its next frame, and of a profile at the frame it asks for.  The
\* frame is set before the node is looked up: when that one is gone the step raises, and the
\* playhead does not know of its last frame, which it then takes for the user's.
SetFrame(j, found) ==
  LET to == IF kind[j] = "range" THEN done[j] + 1 ELSE 1
      p == Noticed(play[j])
  IN  /\ frame' = to
      /\ play' = IF kind[j] = "range"
                   THEN [play EXCEPT ![j] = IF found THEN [p EXCEPT !.last = to] ELSE p] ELSE play
      /\ strayed' = (strayed \/ (~found /\ kind[j] = "range" /\ play[j].last # Unset))
      /\ UNCHANGED <<rop, parm, saved, written, want, wish, spoilt>>

\* Playhead.finish: restore, user or moved.
Target(p) == IF p.user = Unset THEN p.start ELSE p.user

FinishPlayhead(j) ==
  LET p == Noticed(play[j]) IN
  /\ play' = [play EXCEPT ![j] = p]
  /\ frame' = Target(p)
  /\ UNCHANGED <<rop, parm, saved, history>>

\* _restore_frame, of a profile.
RestoreFrame(j) ==
  /\ frame' = play[j].start
  /\ UNCHANGED <<rop, parm, stepVars, history>>

Effect(j, fn) ==
  CASE fn = "override" -> Override(j)
    [] fn = "render" -> RenderFrame(j)
    [] fn = "restore" -> Restore(j)
    [] fn = "read" -> ReadFrame(j)
    [] fn = "frame" -> SetFrame(j, TRUE)
    [] fn = "missing" -> SetFrame(j, FALSE)
    [] fn = "finish" -> IF kind[j] = "range" THEN FinishPlayhead(j) ELSE RestoreFrame(j)

-----------------------------------------------------------------------------
(* The thread of a job. *)

Ready == held = Unset /\ queue = <<>>
StepOf(j) ==
  CASE pc[j] = "begin" -> IF j \in Renders THEN "override" ELSE "read"
    [] pc[j] = "work" -> IF j \in Renders THEN "render" ELSE "frame"
    [] pc[j] = "end" -> IF j \in Renders THEN "restore" ELSE "finish"

\* The finally of a render has something to put back, that of a cook always has: but the frame
\* a cook starts from is read before its try.
Lasts(j) == IF j \in Renders THEN saved[j] # Unset ELSE pc[j] = "work"
Fails(j) ==
  /\ outcome' = [outcome EXCEPT ![j] = "failed"]
  /\ pc' = [pc EXCEPT ![j] = IF Lasts(j) THEN "end" ELSE "over"]
  /\ UNCHANGED <<kind, done>>

\* A step runs and returns: the frames, and then the finally.
Advance(j) ==
  LET through == pc[j] = "work" /\ done[j] + 1 = LastFrame IN
  /\ done' = IF pc[j] = "work" THEN [done EXCEPT ![j] = @ + 1] ELSE done
  /\ pc' = [pc EXCEPT ![j] = CASE pc[j] = "begin" -> "work" [] through -> "end"
                               [] pc[j] = "end" -> "over" [] OTHER -> "work"]
  /\ outcome' = IF through THEN [outcome EXCEPT ![j] = "done"] ELSE outcome
  /\ kind' = kind

\* Mutant: a render whose ROP was deleted goes on.
GoesOn(j) == TRUE
\* Both steps of a render need the ROP.
HasRop(j) == StepOf(j) \in {"override", "render"} => rop

RunStep(j) ==
  /\ pc[j] # "over" /\ Ready /\ HasRop(j)
  /\ Effect(j, StepOf(j)) /\ Advance(j)
  /\ UNCHANGED <<mainVars, moves, lates>>

\* The ROP reports errors, or was deleted, or the node of a cook was.
StepErrs(j) ==
  /\ pc[j] \in {"begin", "work"} /\ Ready
  /\ StepOf(j) = "override" => ~rop
  /\ StepOf(j) # "read"
  /\ Fails(j)
  /\ IF StepOf(j) = "frame" THEN Effect(j, "missing") ELSE UNCHANGED <<sceneVars, stepVars, history>>
  /\ UNCHANGED <<mainVars, moves, lates>>

\* JobContext.run_main finds the job cancelled, or Executor.run gives up before the step ran.
StepRefused(j) ==
  /\ pc[j] \in {"begin", "work"}
  /\ Fails(j)
  /\ UNCHANGED <<sceneVars, stepVars, mainVars, moves, lates, history>>

\* The wait times out while the step runs.  An override that is slow before it saved anything
\* is not put back by the finally that looks now.
StepLate(j, half) ==
  /\ pc[j] \in {"begin", "work"} /\ Ready /\ lates < MaxLate
  /\ lates' = lates + 1
  /\ held' = [job |-> j, fn |-> StepOf(j)]
  /\ saved' = IF half /\ StepOf(j) = "override" THEN [saved EXCEPT ![j] = parm] ELSE saved
  /\ half => StepOf(j) = "override"
  /\ HasRop(j)
  /\ outcome' = [outcome EXCEPT ![j] = "failed"]
  /\ pc' = [pc EXCEPT ![j] = IF half \/ pc[j] = "work" THEN "end" ELSE "over"]
  /\ spoilt' = (spoilt \/ (StepOf(j) = "override" /\ ~half))
  /\ UNCHANGED <<sceneVars, play, kind, done, queue, moves, written, want, wish, strayed>>

\* run_with_fallback, when its step is refused or outlasts the wait.
\* Mutant: nothing is queued after a step that was refused.
PostedNone(step) == <<>>
Posted(step) == <<step>>

Fallback(j, late) ==
  /\ pc[j] = "end"
  /\ late => Ready /\ lates < MaxLate
  /\ lates' = IF late THEN lates + 1 ELSE lates
  /\ held' = IF late THEN [job |-> j, fn |-> StepOf(j)] ELSE held
  /\ queue' = queue \o Posted([job |-> j, fn |-> StepOf(j)])
  /\ pc' = [pc EXCEPT ![j] = "over"]
  /\ UNCHANGED <<sceneVars, stepVars, kind, done, outcome, moves, history>>

-----------------------------------------------------------------------------
(* The main thread and the user. *)

LateEnds ==
  /\ held # Unset
  /\ Effect(held.job, held.fn) \/ (held.fn = "frame" /\ Effect(held.job, "missing"))
  /\ held' = Unset
  /\ UNCHANGED <<taskVars, queue, moves, lates>>

RunPosted ==
  /\ held = Unset /\ queue # <<>>
  /\ Effect(Head(queue).job, Head(queue).fn) /\ queue' = Tail(queue)
  /\ UNCHANGED <<taskVars, held, moves, lates>>

Moves == held = Unset /\ moves < MaxMoves /\ moves' = moves + 1

\* The user edits the parm.  While a job has it, its restore will overwrite the edit.
EditParm ==
  /\ rop /\ Moves
  /\ parm' = moves' /\ want' = moves'
  /\ spoilt' = (spoilt \/ \E j \in Renders : saved[j] # Unset /\ AtWork(j))
  /\ UNCHANGED <<rop, frame, taskVars, stepVars, mainVars, lates, written, wish, strayed>>

\* The user deletes the ROP, and takes that back.
DeleteRop ==
  /\ Moves /\ rop' = ~rop
  /\ UNCHANGED <<parm, frame, taskVars, stepVars, mainVars, lates, history>>

\* The user moves the playbar: a ranged cook notices at its next step unless it has done none,
\* or the playbar is where its last step left it.
Scrub(to) ==
  /\ to # frame /\ Moves
  /\ frame' = to /\ wish' = to
  /\ strayed' = (strayed \/ \E j \in Cooks : AtWork(j) /\ (kind[j] = "profile" \/ play[j].last \in {Unset, to}))
  /\ UNCHANGED <<rop, parm, taskVars, stepVars, mainVars, lates, written, want, spoilt>>

RendersNext ==
  \/ \E j \in Tasks :
       \/ RunStep(j) \/ StepErrs(j) \/ StepRefused(j)
       \/ \E half \in BOOLEAN : StepLate(j, half)
       \/ \E late \in BOOLEAN : Fallback(j, late)
  \/ LateEnds \/ RunPosted
  \/ EditParm \/ DeleteRop
  \/ \E to \in 0 .. Away : Scrub(to)

RendersSpec == RendersInit /\ [][RendersNext]_rendersVars

-----------------------------------------------------------------------------
(* Properties *)

Quiet == held = Unset /\ queue = <<>> /\ \A j \in Tasks : pc[j] \in {"begin", "over"}

Playheads == [start : Nat \cup {Unset}, last : Nat \cup {Unset}, user : Nat \cup {Unset}]

RendersTypeOK ==
  /\ rop \in BOOLEAN /\ parm \in Nat \cup Tasks /\ frame \in Nat
  /\ kind \in [Tasks -> Kinds] /\ pc \in [Tasks -> {"begin", "work", "end", "over"}]
  /\ done \in [Tasks -> Nat] /\ outcome \in [Tasks -> {"running", "done", "failed"}]
  /\ saved \in [Tasks -> Nat \cup Tasks \cup {Unset}] /\ play \in [Tasks -> Playheads]
  /\ held \in Steps \cup {Unset} /\ queue \in Seq(Steps) /\ moves \in Nat /\ lates \in Nat
  /\ written \in [Tasks -> SUBSET Nat] /\ want \in Nat /\ wish \in Nat
  /\ spoilt \in BOOLEAN /\ strayed \in BOOLEAN

\* When no job is at work and nothing of theirs waits, the ROP has the user's value again,
\* whether they ended well, failed, were cancelled or timed out: but for two renders of one
\* ROP at once, an edit during a render, a ROP deleted meanwhile, and an override that outlasts
\* its wait before it saved anything.
ParmIsBack == Quiet /\ rop => parm = want \/ spoilt

\* A render that reports done wrote every frame to its own output.
DoneIsWritten ==
  \A j \in Renders : outcome[j] = "done" => written[j] = 1 .. LastFrame \/ spoilt

\* "At the end the playbar goes back to the start frame only when nobody moved it during the
\* job": it ends where the user put it last, but for two cooks at once, a scrub before the
\* first frame or onto the last one, one during a profile, and a cooked node that is gone at
\* a frame after the first (cook.py:517-520).
PlaybarIsBack == Quiet => frame = wish \/ strayed

\* The ROP and the playbar are the user's again when no render or cook is at work (tools/visual.py,
\* tools/cook.py).
BorrowedIsBack == ParmIsBack /\ PlaybarIsBack
=============================================================================
