------------------------------- MODULE PdgCooks -------------------------------
(***************************************************************************)
(* pdg {cook} (tools/pdg.py) starts the cook of a TOP graph in the         *)
(* background and runs a job that polls it; pdg {cancel}, a cancel of the  *)
(* job and Houdini's user stop it, pdg {dirty} and other cooks change its  *)
(* work items.  The job ends as it finds the graph at a poll.              *)
(*                                                                         *)
(* One graph stands for those of all the jobs.  The executor and the job   *)
(* registry are in Executor and Jobs: here a main-thread step runs whole,  *)
(* or is refused.                                                          *)
(***************************************************************************)
EXTENDS Naturals, FiniteSets

CONSTANTS
  Jobs,
  MaxActs    \* bound: what the user and the tools do to the graph besides

VARIABLES
  due,      \* a cook was asked for and has not begun: the graph looks idle
  cooking,
  items,    \* the work items: none, part (some are not finished), done (all are), cut (some
            \*   were cancelled)
  pc,       \* per job: begin, asked, poll, result, cancel, over
  seen,     \* per job: it has seen the graph cook, or work items
  found,    \* per job: the last poll found cancelled items
  flag,     \* per job: its cancel event
  state,    \* per job: running, done, cancelled, failed
  owning,   \* the jobs a pdg {cancel} found running, which it cancels next
  told,     \* per job: how many cook_done events it recorded
  acts,
  asked,    \* history: the jobs whose cook has not begun
  inside,   \* history: the jobs whose cook began
  ended,    \* history: the jobs whose cook, or one after it, came to its end
  stale,    \* history: the jobs that asked for a cook of a graph that had work items or cooked
  excused   \* history: the jobs whose own cook never came to its end, and that cannot tell

graphVars == <<due, cooking, items, asked, inside, ended, stale, excused>>
jobVars == <<pc, seen, found, flag, state, told>>
vars == <<graphVars, jobVars, owning, acts>>

Init ==
  /\ due = FALSE /\ cooking = FALSE /\ items \in {"none", "done"}
  /\ pc = [j \in Jobs |-> "begin"] /\ seen = [j \in Jobs |-> FALSE]
  /\ found = [j \in Jobs |-> FALSE] /\ flag = [j \in Jobs |-> FALSE]
  /\ state = [j \in Jobs |-> "running"] /\ owning = {} /\ told = [j \in Jobs |-> 0]
  /\ acts = 0 /\ asked = {} /\ inside = {} /\ ended = {}
  /\ stale = {} /\ excused = {}

-----------------------------------------------------------------------------
(* Houdini's graph. *)

\* A cook begins: it keeps what is cooked, or makes the items.
Begins ==
  /\ due /\ ~cooking
  /\ due' = FALSE /\ cooking' = TRUE /\ items' = "part"
  /\ inside' = inside \cup asked /\ asked' = {}
  /\ UNCHANGED <<ended, stale, excused, jobVars, owning, acts>>

\* It ends with every item finished, some of them failed perhaps.
Ends ==
  /\ cooking
  /\ cooking' = FALSE /\ items' \in {"done", "none"}
  /\ ended' = ended \cup inside /\ inside' = {}
  /\ UNCHANGED <<due, asked, stale, excused, jobVars, owning, acts>>

\* cancelCook: items that were to cook are cancelled; a cook that has not begun is dropped, and
\* leaves no item that would say so.
CancelCook ==
  /\ due' = FALSE /\ cooking' = FALSE
  /\ items' = IF cooking THEN "cut" ELSE items
  /\ inside' = inside \cup asked /\ asked' = {}
  /\ excused' = excused \cup asked
  /\ UNCHANGED <<ended, stale>>

\* cookWorkItems(block=False).
CookWorkItems == due' = TRUE /\ UNCHANGED <<cooking, items, inside, ended, excused>>

-----------------------------------------------------------------------------
(* The job of pdg {cook}. *)

\* _cook_now: the main-thread step before the job is there.
CookNow(j) ==
  /\ pc[j] = "begin"
  /\ pc' = [pc EXCEPT ![j] = "asked"]
  /\ CookWorkItems /\ asked' = asked \cup {j}
  /\ stale' = IF cooking \/ items # "none" THEN stale \cup {j} ELSE stale
  /\ UNCHANGED <<seen, found, flag, state, told, owning, acts>>

\* ensure_saved refuses, or there is nothing to cook: no job.
Refused(j) ==
  /\ pc[j] = "begin"
  /\ pc' = [pc EXCEPT ![j] = "over"] /\ state' = [state EXCEPT ![j] = "failed"]
  /\ UNCHANGED <<graphVars, seen, found, flag, told, owning, acts>>

\* jobs.start, after the event cook_start.
Register(j) ==
  /\ pc[j] = "asked"
  /\ pc' = [pc EXCEPT ![j] = "poll"]
  /\ UNCHANGED <<graphVars, seen, found, flag, state, told, owning, acts>>

Running(j) == pc[j] \in {"poll", "result", "cancel"}

\* The graph cooks or has items: what an earlier cook left counts too.
Saw(j) == seen[j] \/ cooking \/ items # "none"

\* A poll.  late: START_GRACE_S is over.  Before its own cook began a job takes what it finds
\* for it: items of an earlier cook, or none once the grace is over.
Poll(j, late) ==
  /\ pc[j] = "poll" /\ ~flag[j]
  /\ seen' = [seen EXCEPT ![j] = Saw(j)]
  /\ found' = [found EXCEPT ![j] = items = "cut"]
  /\ IF ~cooking /\ (Saw(j) \/ late)
     THEN /\ pc' = [pc EXCEPT ![j] = "result"]
          /\ excused' = IF j \in asked /\ (j \in stale \/ late) THEN excused \cup {j} ELSE excused
     ELSE UNCHANGED <<pc, excused>>
  /\ UNCHANGED <<due, cooking, items, asked, inside, ended, stale, flag, state, told, owning, acts>>

Over(j, as) == pc' = [pc EXCEPT ![j] = "over"] /\ state' = [state EXCEPT ![j] = as]

\* Mutant: whatever became of the items.
EndsAsDone(j) == "done"
\* Never done for a cook whose items were cancelled.
EndsAs(j) == IF found[j] THEN "cancelled" ELSE "done"

\* _record_done, and the handler, which leaves an error alone that carries the result.
Tells(j) == 1

\* cook_result and the end.
Result(j) ==
  /\ pc[j] = "result" /\ ~flag[j]
  /\ told' = [told EXCEPT ![j] = @ + Tells(j)]
  /\ Over(j, EndsAs(j))
  /\ UNCHANGED <<graphVars, seen, found, flag, owning, acts>>

\* A step is refused or the node is gone: the job fails and the graph cooks on.
StepFails(j) ==
  /\ Running(j)
  /\ Over(j, "failed")
  /\ UNCHANGED <<graphVars, seen, found, flag, told, owning, acts>>

\* The job finds its event set, before a poll or before the result.
FindsCancelled(j) ==
  /\ pc[j] \in {"poll", "result"} /\ flag[j]
  /\ pc' = [pc EXCEPT ![j] = "cancel"]
  /\ UNCHANGED <<graphVars, seen, found, flag, state, told, owning, acts>>

\* It cancels the cook and says so.
CancelOwn(j) ==
  /\ pc[j] = "cancel"
  /\ CancelCook /\ told' = [told EXCEPT ![j] = @ + 1]
  /\ Over(j, "cancelled")
  /\ UNCHANGED <<seen, found, flag, owning, acts>>

-----------------------------------------------------------------------------
(* The other tools and the user. *)

Acts == acts < MaxActs /\ acts' = acts + 1

\* job {cancel}.
CancelJob(j) ==
  /\ Running(j) /\ ~flag[j] /\ Acts
  /\ flag' = [flag EXCEPT ![j] = TRUE]
  /\ UNCHANGED <<graphVars, pc, seen, found, state, told, owning>>

\* pdg {cancel}: the cook first, in the step that looks for the jobs, and these after it.
PdgCancel ==
  /\ Acts /\ CancelCook
  /\ owning' = owning \cup {j \in Jobs : Running(j)}
  /\ UNCHANGED jobVars

CancelOwning(j) ==
  /\ j \in owning
  /\ owning' = owning \ {j}
  /\ flag' = IF Running(j) THEN [flag EXCEPT ![j] = TRUE] ELSE flag
  /\ UNCHANGED <<graphVars, pc, seen, found, state, told, acts>>

\* pdg {dirty} of a graph at rest, and the user's cook and cancel.  The cancelled items go, and
\* with them the trace of the cook that was cut.
Dirty ==
  /\ Acts /\ ~cooking /\ ~due
  /\ items' = "none"
  /\ excused' = IF items = "cut" THEN excused \cup inside ELSE excused
  /\ UNCHANGED <<due, cooking, asked, inside, ended, stale, jobVars, owning>>
UserCooks == Acts /\ CookWorkItems /\ UNCHANGED <<asked, stale, jobVars, owning>>
UserCancels == Acts /\ CancelCook /\ UNCHANGED <<jobVars, owning>>

Next ==
  \/ Begins \/ Ends
  \/ \E j \in Jobs :
       \/ CookNow(j) \/ Refused(j) \/ Register(j) \/ Result(j) \/ StepFails(j)
       \/ FindsCancelled(j) \/ CancelOwn(j) \/ CancelJob(j) \/ CancelOwning(j)
       \/ \E late \in BOOLEAN : Poll(j, late)
  \/ PdgCancel \/ Dirty \/ UserCooks \/ UserCancels

Spec == Init /\ [][Next]_vars

-----------------------------------------------------------------------------
(* Properties *)

\* A job that reports done was cooked to the end, by its own cook or a later one, whoever
\* else cooks and cancels the graph: but for one that took what an earlier cook left, or a
\* graph slow to begin, for its own, one whose cook was cancelled before it began, and one
\* whose cancelled items were dirtied before the job looked.
DoneIsCooked == \A j \in Jobs : state[j] = "done" => j \in ended \cup excused

\* Every job that ends done or cancelled has told the end of its cook once, however it came
\* about.
EndIsTold ==
  \A j \in Jobs : told[j] = IF state[j] \in {"done", "cancelled"} THEN 1 ELSE 0
=============================================================================
