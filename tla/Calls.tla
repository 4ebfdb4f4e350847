------------------------------- MODULE Calls --------------------------------
(***************************************************************************)
(* Tool calls from the request's thread to Houdini's main thread and back  *)
(* (Dispatcher._call, _follow) with what edit does after its main-thread   *)
(* work (edit.py, _cook_after): it cooks the nodes it touched as a job of  *)
(* slices, waits for a while, and hands the rest over to the job.  A call  *)
(* that is still in a press when its wait ends is followed by a job of its *)
(* own, which then runs the cooks as well.                                 *)
(*                                                                         *)
(* The main thread runs one item at a time, in order: works of calls and   *)
(* slices of cooks.  It may hold on to one for ever.                       *)
(***************************************************************************)
EXTENDS Sequences, FiniteSets, Naturals

CONSTANTS
  Editors,   \* calls that set parms: edits and presses
  Deleters,  \* calls that delete nodes
  Node       \* the nodes of the scene

Call == Editors \cup Deleters
CallKinds == {"edit", "press", "delete"}
Kinds(c) == (IF c \in Editors THEN {"edit", "press"} ELSE {})
            \cup (IF c \in Deleters THEN {"delete"} ELSE {})

ASSUME CallsAssumption == IsFiniteSet(Node)

VARIABLES
  alive,     \* the nodes that exist
  ask,       \* what each call does, and to which nodes in which order
  queue,     \* MainThreadExecutor._queue
  main,      \* the item the main thread runs
  work,      \* _Work.state, "long" once it marked a long step
  ended,     \* how the work of the call ended
  pc,        \* the request's thread
  said,      \* what the caller was answered
  follow,    \* the job that follows the call
  targets,   \* cook_targets: the nodes its echo left to the cook job
  step,      \* where _cook_after is, on whichever thread runs it
  finished,  \* what its wait for the job returned
  out,       \* the rows of the result: cooked, still cooking, and whether it has a job_id
  job,       \* Job.state of the cook job
  jobpc,     \* its thread
  index,     \* how many targets it is past
  cancel,    \* Job.cancel_event
  rows,      \* _Cooks.rows
  handed,    \* _Cooks.handed_off
  later,     \* _Cooks.later
  result,    \* the rows in the job's result
  filed,     \* CallJobManager._by_call: the calls whose cook job is filed under them
  skipped    \* targets that were gone when their turn came

request == <<ask, pc, said, follow>>
working == <<work, ended, targets, alive>>
after == <<step, finished, out>>
jobs == <<job, jobpc, index, cancel, result>>
cooks == <<rows, later, skipped>>
vars == <<queue, main, request, working, after, jobs, cooks, handed, filed>>

Item(what, c) == [what |-> what, c |-> c, at |-> 0]
Idle == [what |-> "idle", at |-> 0]
NoRows == [cooked |-> {}, cooking |-> {}, id |-> FALSE]

Orders(S) == {s \in [1 .. Cardinality(S) -> S] : \A i, j \in DOMAIN s : s[i] = s[j] => i = j}
Ranged(s) == {s[i] : i \in DOMAIN s}

\* The one sequence of what s has in S, in the order of s.
Kept(s, S) ==
  {t \in Orders(Ranged(s) \cap S) : \A i, j \in DOMAIN t : i < j =>
     \E k, l \in DOMAIN s : k < l /\ s[k] = t[i] /\ s[l] = t[j]}

Init ==
  /\ alive = Node
  /\ ask = [c \in Call |-> [kind |-> "none", on |-> <<>>]]
  /\ queue = <<>> /\ main = Idle
  /\ work = [c \in Call |-> "none"] /\ ended = [c \in Call |-> "none"]
  /\ pc = [c \in Call |-> "new"] /\ said = [c \in Call |-> "none"]
  /\ follow = [c \in Call |-> "none"]
  /\ targets = [c \in Call |-> <<>>]
  /\ step = [c \in Call |-> "none"] /\ finished = [c \in Call |-> FALSE]
  /\ out = [c \in Call |-> NoRows]
  /\ job = [c \in Call |-> "none"] /\ jobpc = [c \in Call |-> "none"]
  /\ index = [c \in Call |-> 0] /\ cancel = [c \in Call |-> FALSE]
  /\ rows = [c \in Call |-> {}] /\ handed = [c \in Call |-> FALSE]
  /\ later = [c \in Call |-> {}] /\ result = [c \in Call |-> {}]
  /\ filed = {} /\ skipped = [c \in Call |-> {}]

-----------------------------------------------------------------------------
(* The request's thread: Dispatcher._call and MainThreadExecutor._submit. *)

\* An unknown tool, one of another profile, a change in read-only mode.
Refuse(c) ==
  /\ pc[c] = "new"
  /\ pc' = [pc EXCEPT ![c] = "answered"] /\ said' = [said EXCEPT ![c] = "error"]
  /\ UNCHANGED <<queue, main, ask, follow, working, after, jobs, cooks, handed, filed>>

Submit(c, kind, on) ==
  /\ pc[c] = "new"
  /\ pc' = [pc EXCEPT ![c] = "waiting"]
  /\ ask' = [ask EXCEPT ![c] = [kind |-> kind, on |-> on]]
  /\ work' = [work EXCEPT ![c] = "pending"]
  /\ queue' = Append(queue, Item("work", c))
  /\ UNCHANGED <<main, said, follow, ended, targets, alive, after, jobs, cooks, handed, filed>>

\* What becomes of a call whose work has ended: an edit's after-step, or its answer.
Cooks(c) == ended[c] = "ok" /\ targets[c] # <<>>
Answer(c) == IF ended[c] = "ok" THEN "done" ELSE "error"

Returned(c) ==
  /\ pc[c] \in {"waiting", "giveup"} /\ work[c] = "done"
  /\ IF Cooks(c)
       THEN /\ pc' = [pc EXCEPT ![c] = "after"] /\ step' = [step EXCEPT ![c] = "start"]
            /\ said' = said
       ELSE /\ pc' = [pc EXCEPT ![c] = "answered"] /\ step' = step
            /\ said' = [said EXCEPT ![c] = Answer(c)]
  /\ UNCHANGED <<queue, main, ask, follow, working, finished, out, jobs, cooks, handed, filed>>

\* A wait ended and the work is in a long step: a job follows it.
Adopt(c) ==
  /\ pc[c] = "waiting" /\ work[c] = "long"
  /\ pc' = [pc EXCEPT ![c] = "answered"] /\ said' = [said EXCEPT ![c] = "following"]
  /\ follow' = [follow EXCEPT ![c] = "wait"]
  /\ UNCHANGED <<queue, main, ask, working, after, jobs, cooks, handed, filed>>

\* The last wait ended without a long step; then the lock decides, which may find one
\* marked, or the work done, in between.
TimesOut(c) ==
  /\ pc[c] = "waiting" /\ work[c] \in {"pending", "running"}
  /\ pc' = [pc EXCEPT ![c] = "giveup"]
  /\ UNCHANGED <<queue, main, ask, said, follow, working, after, jobs, cooks, handed, filed>>

GiveUp(c) ==
  /\ pc[c] = "giveup" /\ work[c] # "done"
  /\ pc' = [pc EXCEPT ![c] = "answered"] /\ said' = [said EXCEPT ![c] = "busy"]
  /\ work' = [work EXCEPT ![c] = IF @ = "pending" THEN "cancelled" ELSE @]
  /\ UNCHANGED <<queue, main, ask, follow, ended, targets, alive, after, jobs, cooks, handed,
                 filed>>

\* Mutant: the job follows only a call that works.
FollowEndsWell(c) ==
  /\ follow[c] = "wait" /\ work[c] = "done" /\ ended[c] = "ok"
  /\ IF Cooks(c)
       THEN follow' = [follow EXCEPT ![c] = "after"] /\ step' = [step EXCEPT ![c] = "start"]
       ELSE follow' = [follow EXCEPT ![c] = "done"] /\ step' = step
  /\ UNCHANGED <<queue, main, ask, pc, said, working, finished, out, jobs, cooks, handed, filed>>

\* The job that follows a call: its result is the call's, so it runs the after-step too.
FollowEnds(c) ==
  /\ follow[c] = "wait" /\ work[c] = "done"
  /\ IF Cooks(c)
       THEN follow' = [follow EXCEPT ![c] = "after"] /\ step' = [step EXCEPT ![c] = "start"]
       ELSE follow' = [follow EXCEPT ![c] = Answer(c)] /\ step' = step
  /\ UNCHANGED <<queue, main, ask, pc, said, working, finished, out, jobs, cooks, handed, filed>>

-----------------------------------------------------------------------------
(* The main thread. *)

\* The next item; a work or a slice whose waiter gave up is dropped.
Dropped(i) ==
  IF i.what = "work" THEN work[i.c] = "cancelled" ELSE jobpc[i.c] # "step"

Execute ==
  /\ main = Idle /\ queue # <<>>
  /\ queue' = Tail(queue)
  /\ LET i == Head(queue) IN
     IF Dropped(i) THEN UNCHANGED <<main, work>>
     ELSE /\ main' = IF i.what = "slice" THEN [i EXCEPT !.at = index[i.c]] ELSE i
          /\ work' = IF i.what = "work" THEN [work EXCEPT ![i.c] = "running"] ELSE work
  /\ UNCHANGED <<request, ended, targets, alive, after, jobs, cooks, handed, filed>>

\* mark_long_step: a press begins.
MarkLong(c) ==
  /\ main = Item("work", c) /\ ask[c].kind = "press" /\ work[c] = "running"
  /\ work' = [work EXCEPT ![c] = "long"]
  /\ UNCHANGED <<queue, main, request, ended, targets, alive, after, jobs, cooks, handed, filed>>

\* The tool returns or raises; what it changed goes back with its undo group.  The echo's
\* rows say cooking for the nodes it leaves to the cook job.
EndWork(c, ok) ==
  /\ main = Item("work", c)
  /\ ok => (ask[c].kind = "press" => work[c] = "long")
  /\ main' = Idle
  /\ work' = [work EXCEPT ![c] = "done"]
  /\ ended' = [ended EXCEPT ![c] = IF ok THEN "ok" ELSE "error"]
  /\ \E todo \in Kept(ask[c].on, alive) :
     IF ok /\ ask[c].kind = "delete"
       THEN alive' = alive \ Ranged(todo) /\ targets' = targets
       ELSE alive' = alive /\ targets' = [targets EXCEPT ![c] = IF ok THEN todo ELSE <<>>]
  /\ UNCHANGED <<queue, request, after, jobs, cooks, handed, filed>>

\* Mutant: a row cooked after the hand-off is kept where nobody reads it.
RowUnread(c, n) ==
  /\ rows' = [rows EXCEPT ![c] = @ \cup {n}]
  /\ UNCHANGED <<later, skipped>>

\* _cook_slice: the next node of the slice, its row put in place under the lock; a later
\* call may have deleted it.
Row(c, n) ==
  /\ rows' = [rows EXCEPT ![c] = @ \cup {n}]
  /\ later' = [later EXCEPT ![c] = IF handed[c] THEN @ \cup {n} ELSE @]
  /\ skipped' = skipped

CookNext(c) ==
  /\ main.what = "slice" /\ main.c = c /\ main.at < Len(targets[c])
  /\ main' = [main EXCEPT !.at = @ + 1]
  /\ LET n == targets[c][main.at + 1] IN
     IF n \in alive THEN Row(c, n)
     ELSE skipped' = [skipped EXCEPT ![c] = @ \cup {n}] /\ UNCHANGED <<rows, later>>
  /\ UNCHANGED <<queue, request, working, after, jobs, handed, filed>>

\* The slice's time is over, or its nodes are cooked; run_main returns to the job.
EndSlice(c) ==
  /\ main.what = "slice" /\ main.c = c /\ main.at > index[c]
  /\ main' = Idle
  /\ IF jobpc[c] = "step"
       THEN jobpc' = [jobpc EXCEPT ![c] = "next"] /\ index' = [index EXCEPT ![c] = main.at]
       ELSE UNCHANGED <<jobpc, index>>
  /\ UNCHANGED <<queue, request, working, after, job, cancel, result, cooks, handed, filed>>

-----------------------------------------------------------------------------
(* The cook job's thread. *)

SubmitSlice(c) ==
  /\ jobpc[c] = "next" /\ ~cancel[c] /\ index[c] < Len(targets[c])
  /\ jobpc' = [jobpc EXCEPT ![c] = "step"]
  /\ queue' = Append(queue, Item("slice", c))
  /\ UNCHANGED <<main, request, working, after, job, index, cancel, result, cooks, handed, filed>>

\* run_main gives up on a slice; one that runs already goes on.
StepFails(c) ==
  /\ jobpc[c] = "step"
  /\ jobpc' = [jobpc EXCEPT ![c] = "over"] /\ job' = [job EXCEPT ![c] = "failed"]
  /\ UNCHANGED <<queue, main, request, working, after, index, cancel, result, cooks, handed,
                 filed>>

EndJob(c) ==
  /\ jobpc[c] = "next"
  /\ cancel[c] \/ index[c] = Len(targets[c])
  /\ jobpc' = [jobpc EXCEPT ![c] = "over"]
  /\ job' = [job EXCEPT ![c] = IF cancel[c] THEN "cancelled" ELSE "done"]
  /\ result' = [result EXCEPT ![c] = IF cancel[c] THEN {} ELSE later[c] \cap rows[c]]
  /\ UNCHANGED <<queue, main, request, working, after, index, cancel, cooks, handed, filed>>

\* The job tool, or Host.stop.
Cancel(c) ==
  /\ job[c] = "running"
  /\ cancel' = [cancel EXCEPT ![c] = TRUE]
  /\ UNCHANGED <<queue, main, request, working, after, job, jobpc, index, result, cooks, handed,
                 filed>>

-----------------------------------------------------------------------------
(* _cook_after, on the request's thread or the following job's. *)

\* The request id is the running tool's, kept on the thread that runs it.
Requested(thread) == IF thread = "main" /\ main.what = "work" THEN {main.c} ELSE {}

StartCooks(c) ==
  /\ step[c] = "start"
  /\ step' = [step EXCEPT ![c] = "wait"]
  /\ job' = [job EXCEPT ![c] = "running"] /\ jobpc' = [jobpc EXCEPT ![c] = "next"]
  /\ filed' = filed \cup (Requested("request") \cap {c})
  /\ UNCHANGED <<queue, main, request, working, finished, out, index, cancel, result, cooks,
                 handed>>

\* Mutant: the call waits for its cooks to end.
WaitEndsLast(c, done) ==
  /\ step[c] = "wait" /\ job[c] # "running" /\ done
  /\ step' = [step EXCEPT ![c] = "lock"]
  /\ finished' = [finished EXCEPT ![c] = done]
  /\ UNCHANGED <<queue, main, request, working, out, jobs, cooks, handed, filed>>

WaitEnds(c, done) ==
  /\ step[c] = "wait"
  /\ done => job[c] # "running"
  /\ step' = [step EXCEPT ![c] = "lock"]
  /\ finished' = [finished EXCEPT ![c] = done]
  /\ UNCHANGED <<queue, main, request, working, out, jobs, cooks, handed, filed>>

\* Under the lock: from now on the rows are the job's to report.
HandOff(c) ==
  /\ step[c] = "lock"
  /\ step' = [step EXCEPT ![c] = "patch"]
  /\ handed' = [handed EXCEPT ![c] = TRUE]
  /\ out' = [out EXCEPT ![c].cooked = rows[c]]
  /\ UNCHANGED <<queue, main, request, working, finished, jobs, cooks, filed>>

\* The rows left as cooking: those no cook has filled, but where the job ended badly.
Left(c) == Ranged(targets[c]) \ out[c].cooked
\* Mutant: rows stay as cooking when the job failed.
CookingAnyhow(c) == Left(c)

Cooking(c) == IF finished[c] /\ job[c] # "done" THEN {} ELSE Left(c)

Finish(c) ==
  /\ step[c] = "patch"
  /\ step' = [step EXCEPT ![c] = "over"]
  /\ out' = [out EXCEPT ![c] = [cooked |-> @.cooked, cooking |-> Cooking(c), id |-> ~finished[c]]]
  /\ IF pc[c] = "after"
       THEN /\ pc' = [pc EXCEPT ![c] = "answered"] /\ said' = [said EXCEPT ![c] = "done"]
            /\ follow' = follow
       ELSE follow' = [follow EXCEPT ![c] = "done"] /\ UNCHANGED <<pc, said>>
  /\ UNCHANGED <<queue, main, ask, working, finished, jobs, cooks, handed, filed>>

-----------------------------------------------------------------------------
Plans == UNION {Orders(S) : S \in SUBSET Node \ {{}}}

Next ==
  \/ \E c \in Call :
       \/ Refuse(c) \/ Returned(c) \/ Adopt(c) \/ TimesOut(c) \/ GiveUp(c) \/ FollowEnds(c)
       \/ MarkLong(c) \/ CookNext(c) \/ EndSlice(c)
       \/ SubmitSlice(c) \/ StepFails(c) \/ EndJob(c) \/ Cancel(c)
       \/ StartCooks(c) \/ HandOff(c) \/ Finish(c)
       \/ \E kind \in Kinds(c), on \in Plans : Submit(c, kind, on)
       \/ \E ok \in BOOLEAN : EndWork(c, ok) \/ WaitEnds(c, ok)
  \/ Execute

\* The threads of requests and jobs go on, and their waits end.  Houdini's main thread owes
\* nobody anything: a press, a cook or a dialog may hold it for ever.
Fairness ==
  /\ WF_vars(Execute)
  /\ \A c \in Call :
       /\ WF_vars(Returned(c)) /\ WF_vars(TimesOut(c)) /\ WF_vars(Adopt(c)) /\ WF_vars(GiveUp(c))
       /\ WF_vars(FollowEnds(c))
       /\ WF_vars(StartCooks(c)) /\ WF_vars(HandOff(c)) /\ WF_vars(Finish(c))
       /\ WF_vars(\E done \in BOOLEAN : WaitEnds(c, done))
       /\ WF_vars(SubmitSlice(c)) /\ WF_vars(EndJob(c))

Spec == Init /\ [][Next]_vars /\ Fairness

-----------------------------------------------------------------------------
(* Properties *)

\* Every variable keeps its type.
TypeOK ==
  /\ alive \subseteq Node
  /\ \A i \in DOMAIN queue : queue[i].what \in {"work", "slice"} /\ queue[i].c \in Call
  /\ main = Idle \/ (main.what \in {"work", "slice"} /\ main.c \in Call /\ main.at \in Nat)
  /\ \A c \in Call :
       /\ ask[c].kind \in CallKinds \cup {"none"} /\ Ranged(ask[c].on) \subseteq Node
       /\ work[c] \in {"none", "pending", "running", "long", "done", "cancelled"}
       /\ ended[c] \in {"none", "ok", "error"}
       /\ pc[c] \in {"new", "waiting", "giveup", "after", "answered"}
       /\ said[c] \in {"none", "done", "error", "busy", "following"}
       /\ follow[c] \in {"none", "wait", "after", "done", "error"}
       /\ Ranged(targets[c]) \subseteq Node
       /\ step[c] \in {"none", "start", "wait", "lock", "patch", "over"}
       /\ finished[c] \in BOOLEAN /\ handed[c] \in BOOLEAN /\ cancel[c] \in BOOLEAN
       /\ out[c] \in [cooked : SUBSET Node, cooking : SUBSET Node, id : BOOLEAN]
       /\ job[c] \in {"none", "running", "done", "failed", "cancelled"}
       /\ jobpc[c] \in {"none", "next", "step", "over"}
       /\ index[c] \in Nat
       /\ {rows[c], later[c], result[c], skipped[c]} \subseteq SUBSET Node
  /\ filed \subseteq Call

\* The row of every cooked node reaches the caller exactly once, in the result of the call
\* or in that of its cook job, however the hand-off falls between the nodes of a slice: once
\* both are over and the job is done, nothing is missing but nodes deleted before their
\* cook.
RowsArriveOnce ==
  \A c \in Call :
    /\ out[c].cooked \cap result[c] = {}
    /\ step[c] = "over" /\ job[c] = "done" =>
         Ranged(targets[c]) = out[c].cooked \cup result[c] \cup skipped[c]

\* A result that says cooking of a node has the id of the job that cooks it, but for a node
\* a later call deleted before its cook.
CookingHasJob ==
  \A c \in Call : step[c] = "over" /\ ~out[c].id => out[c].cooking \subseteq skipped[c]

\* What dispatch.py:70 says, and no run checks since it does not hold: the job of a call is
\* filed under its request, where the bridge looks for the progress of a call that still waits
\* (runtime.py, CallJobManager).
JobsAreFiled == \A c \in Call : job[c] # "none" => c \in filed

\* Every call that was submitted is answered, though the main thread never comes back.
EveryCallIsAnswered == \A c \in Call : pc[c] = "waiting" ~> pc[c] = "answered"

\* A call handed to a job that follows it ends there, with its cooks, once the main thread
\* gets through what it runs.
FollowedEnds ==
  []<>(main = Idle) => \A c \in Call : said[c] = "following" ~> follow[c] \in {"done", "error"}
=============================================================================
