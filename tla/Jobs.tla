-------------------------------- MODULE Jobs --------------------------------
(***************************************************************************)
(* The host's jobs (host/jobs.py) and the tool calls that start them.  A   *)
(* job is a thread with a state, a result or an error, an event that says  *)
(* it ended and an event that asks it to stop.  For each job there are     *)
(* four threads: its runner, the call that started it (cook and pdg, look, *)
(* render, or the dispatcher following a long press), one job {action:     *)
(* cancel} and one job {action: result} of any caller that knows the id.   *)
(* Host.stop cancels every job.                                            *)
(*                                                                         *)
(* The job's fields are plain attributes: each one is written and read in  *)
(* a step of its own, except where the lock of the registry or of the job  *)
(* covers them or no other thread can tell.  Waiting times are abstracted: *)
(* a wait may time out whenever its event is not set.                      *)
(***************************************************************************)
EXTENDS Naturals, FiniteSets

CONSTANTS
  Jobs,     \* the jobs that may be started
  Tools,    \* the tools that start them
  Keep,     \* JobManager's keep: how many jobs the registry holds
  Total,    \* bound: how many main-thread steps a cook or a render takes
  Polled,   \* bound: the jobs some caller asks for the result of
  Unwanted, \* bound: the jobs some caller cancels
  MayStop   \* bound: whether the host may be stopped

AllTools == {"cook", "look", "render", "press"}

ASSUME JobsAssumption ==
  /\ IsFiniteSet(Jobs)
  /\ Tools \subseteq AllTools
  /\ Keep \in Nat
  /\ Total \in Nat \ {0}
  /\ Polled \subseteq Jobs /\ Unwanted \subseteq Jobs
  /\ MayStop \in BOOLEAN

States == {"none", "running", "done", "failed", "cancelled"}
Final == {"done", "failed", "cancelled"}
Exceptions == {"none", "cancelled", "other"}
RunnerPCs == {"none", "body", "returned", "store", "publish", "raised",
              "record", "finish", "ended"}
CallerPCs == {"idle", "registered", "waiting", "look", "looked", "answered"}
Answers == {"none", "result", "error", "internal", "job_id"}
CancelPCs == {"idle", "accepted", "told"}
CancelReplies == {"none", "cancelled", "not_cancelled"}
ReadPCs == {"idle", "state", "fields", "read"}

\* Only a press is followed by a job that cannot be cancelled.
Cancellable(t) == t # "press"

\* These bodies check for cancellation before every main-thread step.
Polls(t) == t \in {"cook", "render"}

VARIABLES
  registry,     \* the ids in _jobs
  born,         \* the order they were put there (an OrderedDict's)
  starts,       \* how many jobs were started
  tool,         \* Job.tool
  state,        \* Job.state
  result,       \* Job.result is set
  error,        \* Job.error is set
  current,      \* Job.current
  cancelEvent,  \* Job.cancel_event
  doneEvent,    \* Job.done_event
  runner,       \* where the job's thread is
  exc,          \* what the job's function raised
  caller,       \* where the call that started the job is
  answer,       \* what that call answered
  canceller,    \* where the cancelling call is
  cancelReply,  \* what it was told
  reader,       \* where the call that asks for the result is
  seen,         \* the status it has read
  sweep,        \* the jobs cancel_all has yet to cancel
  stopping,     \* Host.stop was called
  offline       \* the executor was stopped

jobVars == <<tool, state, result, error, current, cancelEvent, doneEvent>>
runnerVars == <<runner, exc>>
callerVars == <<caller, answer>>
cancelVars == <<canceller, cancelReply>>
readVars == <<reader, seen>>
regVars == <<registry, born, starts>>
hostVars == <<sweep, stopping, offline>>
vars == <<regVars, jobVars, runnerVars, callerVars, cancelVars, readVars,
          hostVars>>

Unread == [state |-> "none", current |-> 0, error |-> FALSE, result |-> FALSE]

Init ==
  /\ registry = {}
  /\ born = [j \in Jobs |-> 0]
  /\ starts = 0
  /\ tool = [j \in Jobs |-> "none"]
  /\ state = [j \in Jobs |-> "none"]
  /\ result = [j \in Jobs |-> FALSE]
  /\ error = [j \in Jobs |-> FALSE]
  /\ current = [j \in Jobs |-> 0]
  /\ cancelEvent = [j \in Jobs |-> FALSE]
  /\ doneEvent = [j \in Jobs |-> FALSE]
  /\ runner = [j \in Jobs |-> "none"]
  /\ exc = [j \in Jobs |-> "none"]
  /\ caller = [j \in Jobs |-> "idle"]
  /\ answer = [j \in Jobs |-> "none"]
  /\ canceller = [j \in Jobs |-> "idle"]
  /\ cancelReply = [j \in Jobs |-> "none"]
  /\ reader = [j \in Jobs |-> "idle"]
  /\ seen = [j \in Jobs |-> Unread]
  /\ sweep = {}
  /\ stopping = FALSE
  /\ offline = FALSE

-----------------------------------------------------------------------------
(* The registry. *)

\* The n jobs of S that were started first.
Oldest(S, n) == {j \in S : Cardinality({k \in S : born[k] < born[j]}) < n}

\* Mutant: the oldest jobs go, running or not.
EvictedAny(S) ==
  IF Cardinality(S) > Keep THEN Oldest(S, Cardinality(S) - Keep) ELSE {}

\* _evict: past Keep jobs, the oldest finished ones go.
Evicted(S) ==
  IF Cardinality(S) > Keep
  THEN Oldest({j \in S : state[j] \in Final}, Cardinality(S) - Keep)
  ELSE {}

\* start: the job is made, running, and registered; its thread starts after that.
Register(j, t) ==
  /\ caller[j] = "idle"
  /\ caller' = [caller EXCEPT ![j] = "registered"]
  /\ tool' = [tool EXCEPT ![j] = t]
  /\ state' = [state EXCEPT ![j] = "running"]
  /\ starts' = starts + 1
  /\ born' = [born EXCEPT ![j] = starts + 1]
  /\ registry' = (registry \ Evicted(registry \cup {j})) \cup {j}
  /\ UNCHANGED <<result, error, current, cancelEvent, doneEvent, runnerVars,
                 answer, cancelVars, readVars, hostVars>>

\* discard: only a finished job is forgotten.
Discard(j) == registry' = IF state[j] = "running" THEN registry ELSE registry \ {j}

-----------------------------------------------------------------------------
(* The call that starts the job. *)

Answer(j, what) ==
  /\ caller' = [caller EXCEPT ![j] = "answered"]
  /\ answer' = [answer EXCEPT ![j] = what]

\* The thread starts.  The call that follows a press answers with the job's id at
\* once, the others wait.
StartThread(j) ==
  /\ caller[j] = "registered"
  /\ runner' = [runner EXCEPT ![j] = "body"]
  /\ IF tool[j] = "press"
     THEN Answer(j, "job_id")
     ELSE caller' = [caller EXCEPT ![j] = "waiting"] /\ UNCHANGED answer
  /\ UNCHANGED <<regVars, jobVars, exc, cancelVars, readVars, hostVars>>

\* Mutant: the wait is not looked at before the job is discarded and read.
CookEndedAnyhow(j) ==
  /\ caller[j] = "waiting" /\ tool[j] = "cook"
  /\ Discard(j)
  /\ Answer(j, IF state[j] = "done" THEN "result"
               ELSE IF error[j] THEN "error" ELSE "internal")
  /\ UNCHANGED <<born, starts, jobVars, runnerVars, cancelVars, readVars,
                 hostVars>>

\* cook, pdg: the job ended within the wait.  Its fields do not change any more.
CookEnded(j) ==
  /\ caller[j] = "waiting" /\ tool[j] = "cook"
  /\ doneEvent[j]
  /\ Discard(j)
  /\ Answer(j, IF state[j] = "done" THEN "result"
               ELSE IF error[j] THEN "error" ELSE "internal")
  /\ UNCHANGED <<born, starts, jobVars, runnerVars, cancelVars, readVars,
                 hostVars>>

\* Mutant: a call that stopped waiting discards the job it hands out.
CookHandsOutDiscards(j) ==
  /\ caller[j] = "waiting" /\ tool[j] = "cook"
  /\ ~doneEvent[j]
  /\ Discard(j)
  /\ Answer(j, "job_id")
  /\ UNCHANGED <<born, starts, jobVars, runnerVars, cancelVars, readVars,
                 hostVars>>

CookHandsOut(j) ==
  /\ caller[j] = "waiting" /\ tool[j] = "cook"
  /\ ~doneEvent[j]
  /\ Answer(j, "job_id")
  /\ UNCHANGED <<regVars, jobVars, runnerVars, cancelVars, readVars, hostVars>>

\* Mutant: look and render wait for the end of the job.
StopWaitingEnded(j) ==
  /\ caller[j] = "waiting" /\ tool[j] \in {"look", "render"}
  /\ doneEvent[j]
  /\ caller' = [caller EXCEPT ![j] = "look"]
  /\ UNCHANGED <<regVars, jobVars, runnerVars, answer, cancelVars, readVars,
                 hostVars>>

\* look, render: the wait ends, one way or the other, and only the state counts.
StopWaiting(j) ==
  /\ caller[j] = "waiting" /\ tool[j] \in {"look", "render"}
  /\ caller' = [caller EXCEPT ![j] = "look"]
  /\ UNCHANGED <<regVars, jobVars, runnerVars, answer, cancelVars, readVars,
                 hostVars>>

\* look discards what it answers; render's job stays.
AnswerDone(j) ==
  /\ caller[j] = "look"
  /\ state[j] = "done"
  /\ IF tool[j] = "look" THEN Discard(j) ELSE UNCHANGED registry
  /\ Answer(j, "result")
  /\ UNCHANGED <<born, starts, jobVars, runnerVars, cancelVars, readVars,
                 hostVars>>

NotDone(j) ==
  /\ caller[j] = "look"
  /\ state[j] # "done"
  /\ caller' = [caller EXCEPT ![j] = "looked"]
  /\ UNCHANGED <<regVars, jobVars, runnerVars, answer, cancelVars, readVars,
                 hostVars>>

AnswerError(j) ==
  /\ caller[j] = "looked"
  /\ state[j] \in {"failed", "cancelled"} /\ error[j]
  /\ IF tool[j] = "look" THEN Discard(j) ELSE UNCHANGED registry
  /\ Answer(j, "error")
  /\ UNCHANGED <<born, starts, jobVars, runnerVars, cancelVars, readVars,
                 hostVars>>

\* The status, with the job's id, whatever its state is by now.
AnswerStatus(j) ==
  /\ caller[j] = "looked"
  /\ ~(state[j] \in {"failed", "cancelled"} /\ error[j])
  /\ Answer(j, "job_id")
  /\ UNCHANGED <<regVars, jobVars, runnerVars, cancelVars, readVars, hostVars>>

Caller(j) ==
  \/ StartThread(j)
  \/ CookEnded(j) \/ CookHandsOut(j)
  \/ StopWaiting(j) \/ AnswerDone(j) \/ NotDone(j) \/ AnswerError(j)
  \/ AnswerStatus(j)

-----------------------------------------------------------------------------
(* The job's thread. *)

RunnerGoes(j, from, to) ==
  /\ runner[j] = from
  /\ runner' = [runner EXCEPT ![j] = to]

\* Mutant: the first step is not preceded by a check.
InterruptedLater(j) ==
  /\ Polls(tool[j]) /\ cancelEvent[j] /\ current[j] > 0
  /\ RunnerGoes(j, "body", "raised")
  /\ exc' = [exc EXCEPT ![j] = "cancelled"]
  /\ UNCHANGED <<regVars, jobVars, callerVars, cancelVars, readVars, hostVars>>

\* check_cancelled, before a main-thread step.
Interrupted(j) ==
  /\ Polls(tool[j]) /\ cancelEvent[j]
  /\ RunnerGoes(j, "body", "raised")
  /\ exc' = [exc EXCEPT ![j] = "cancelled"]
  /\ UNCHANGED <<regVars, jobVars, callerVars, cancelVars, readVars, hostVars>>

\* A main-thread step of a cook or a render, and its set_progress.
Step(j) ==
  /\ Polls(tool[j]) /\ ~cancelEvent[j] /\ ~offline
  /\ runner[j] = "body"
  /\ current[j] < Total
  /\ current' = [current EXCEPT ![j] = @ + 1]
  /\ UNCHANGED <<regVars, tool, state, result, error, cancelEvent, doneEvent,
                 runnerVars, callerVars, cancelVars, readVars, hostVars>>

\* The function returns: after its last step, or a PDG graph with unfinished items.
Return(j) ==
  /\ Polls(tool[j]) => current[j] > 0
  /\ RunnerGoes(j, "body", "returned")
  /\ UNCHANGED <<regVars, jobVars, exc, callerVars, cancelVars, readVars,
                 hostVars>>

Raise(j) ==
  /\ RunnerGoes(j, "body", "raised")
  /\ exc' = [exc EXCEPT ![j] = "other"]
  /\ UNCHANGED <<regVars, jobVars, callerVars, cancelVars, readVars, hostVars>>

\* Cancelled after its last check: no result is kept and no error is set.
EndCancelled(j) ==
  /\ cancelEvent[j]
  /\ RunnerGoes(j, "returned", "finish")
  /\ state' = [state EXCEPT ![j] = "cancelled"]
  /\ UNCHANGED <<regVars, tool, result, error, current, cancelEvent, doneEvent,
                 exc, callerVars, cancelVars, readVars, hostVars>>

NotCancelled(j) ==
  /\ ~cancelEvent[j]
  /\ RunnerGoes(j, "returned", "store")
  /\ UNCHANGED <<regVars, jobVars, exc, callerVars, cancelVars, readVars,
                 hostVars>>

\* Mutant: the steps are left as they were last reported.
StoreResultOnly(j) ==
  /\ RunnerGoes(j, "store", "publish")
  /\ result' = [result EXCEPT ![j] = TRUE]
  /\ UNCHANGED <<regVars, tool, state, error, current, cancelEvent, doneEvent, exc,
                 callerVars, cancelVars, readVars, hostVars>>

\* The result, and all the steps, before the state says done.
Store(j) ==
  /\ RunnerGoes(j, "store", "publish")
  /\ result' = [result EXCEPT ![j] = TRUE]
  /\ current' = [current EXCEPT ![j] = IF Polls(tool[j]) THEN Total ELSE @]
  /\ UNCHANGED <<regVars, tool, state, error, cancelEvent, doneEvent, exc,
                 callerVars, cancelVars, readVars, hostVars>>

Publish(j) ==
  /\ RunnerGoes(j, "publish", "finish")
  /\ state' = [state EXCEPT ![j] = "done"]
  /\ UNCHANGED <<regVars, tool, result, error, current, cancelEvent, doneEvent,
                 exc, callerVars, cancelVars, readVars, hostVars>>

\* The state is set before the error.
EndFailed(j) ==
  /\ RunnerGoes(j, "raised", "record")
  /\ state' = [state EXCEPT ![j] = IF exc[j] = "cancelled" THEN "cancelled"
                                   ELSE "failed"]
  /\ UNCHANGED <<regVars, tool, result, error, current, cancelEvent, doneEvent,
                 exc, callerVars, cancelVars, readVars, hostVars>>

RecordError(j) ==
  /\ RunnerGoes(j, "record", "finish")
  /\ error' = [error EXCEPT ![j] = TRUE]
  /\ UNCHANGED <<regVars, tool, state, result, current, cancelEvent, doneEvent,
                 exc, callerVars, cancelVars, readVars, hostVars>>

Finish(j) ==
  /\ RunnerGoes(j, "finish", "ended")
  /\ doneEvent' = [doneEvent EXCEPT ![j] = TRUE]
  /\ UNCHANGED <<regVars, tool, state, result, error, current, cancelEvent, exc,
                 callerVars, cancelVars, readVars, hostVars>>

\* What the runner does once the function is over.
Wrapup(j) ==
  \/ EndCancelled(j) \/ NotCancelled(j) \/ Store(j) \/ Publish(j)
  \/ EndFailed(j) \/ RecordError(j) \/ Finish(j)

Runner(j) == Interrupted(j) \/ Step(j) \/ Return(j) \/ Raise(j) \/ Wrapup(j)

-----------------------------------------------------------------------------
(* job {action: cancel}, and cancel_all. *)

\* get finds the job, and it runs.
CancelAccepted(j) ==
  /\ j \in Unwanted /\ canceller[j] = "idle" /\ j \in registry
  /\ state[j] = "running" /\ Cancellable(tool[j])
  /\ canceller' = [canceller EXCEPT ![j] = "accepted"]
  /\ UNCHANGED <<regVars, jobVars, runnerVars, callerVars, cancelReply, readVars,
                 hostVars>>

\* The event is set after that; the answer says cancelled: true.
CancelSet(j) ==
  /\ canceller[j] = "accepted"
  /\ canceller' = [canceller EXCEPT ![j] = "told"]
  /\ cancelReply' = [cancelReply EXCEPT ![j] = "cancelled"]
  /\ cancelEvent' = [cancelEvent EXCEPT ![j] = TRUE]
  /\ UNCHANGED <<regVars, tool, state, result, error, current, doneEvent,
                 runnerVars, callerVars, readVars, hostVars>>

\* It had finished, or cannot be cancelled: cancelled: false and a note.
CancelRefused(j) ==
  /\ j \in Unwanted /\ canceller[j] = "idle" /\ j \in registry
  /\ state[j] # "running" \/ ~Cancellable(tool[j])
  /\ canceller' = [canceller EXCEPT ![j] = "told"]
  /\ cancelReply' = [cancelReply EXCEPT ![j] = "not_cancelled"]
  /\ UNCHANGED <<regVars, jobVars, runnerVars, callerVars, readVars, hostVars>>

Canceller(j) == CancelAccepted(j) \/ CancelSet(j) \/ CancelRefused(j)

\* Host.stop: cancel_all copies the jobs under the lock, then sets their events.
Stop ==
  /\ MayStop /\ ~stopping
  /\ stopping' = TRUE
  /\ sweep' = registry
  /\ UNCHANGED <<regVars, jobVars, runnerVars, callerVars, cancelVars, readVars,
                 offline>>

CancelNext(j) ==
  /\ j \in sweep
  /\ sweep' = sweep \ {j}
  /\ cancelEvent' = [cancelEvent EXCEPT ![j] = TRUE]
  /\ UNCHANGED <<regVars, tool, state, result, error, current, doneEvent,
                 runnerVars, callerVars, cancelVars, readVars, stopping, offline>>

\* Mutant: the executor is left running.
StopExecutorNot ==
  /\ stopping /\ sweep = {} /\ ~offline
  /\ UNCHANGED vars

\* Then the executor is stopped: it refuses the next main-thread step of a job.
StopExecutor ==
  /\ stopping /\ sweep = {} /\ ~offline
  /\ offline' = TRUE
  /\ UNCHANGED <<regVars, jobVars, runnerVars, callerVars, cancelVars, readVars,
                 sweep, stopping>>

-----------------------------------------------------------------------------
(* job {action: result}: status reads the fields one after the other, and result *)
(* looks at the state once more. *)

ReaderGoes(j, from, to) ==
  /\ reader[j] = from
  /\ reader' = [reader EXCEPT ![j] = to]

ReadState(j) ==
  /\ j \in Polled /\ j \in registry
  /\ ReaderGoes(j, "idle", "state")
  /\ seen' = [seen EXCEPT ![j].state = state[j]]
  /\ UNCHANGED <<regVars, jobVars, runnerVars, callerVars, cancelVars, hostVars>>

ReadFields(j) ==
  /\ ReaderGoes(j, "state", "fields")
  /\ seen' = [seen EXCEPT ![j].current = current[j], ![j].error = error[j]]
  /\ UNCHANGED <<regVars, jobVars, runnerVars, callerVars, cancelVars, hostVars>>

ReadResult(j) ==
  /\ ReaderGoes(j, "fields", "read")
  /\ seen' = [seen EXCEPT ![j].result = state[j] = "done" /\ result[j]]
  /\ UNCHANGED <<regVars, jobVars, runnerVars, callerVars, cancelVars, hostVars>>

Reader(j) == ReadState(j) \/ ReadFields(j) \/ ReadResult(j)

-----------------------------------------------------------------------------
(* Every call was answered and every job ended. *)
Finished ==
  /\ \A j \in Jobs : caller[j] = "answered" /\ runner[j] = "ended"
  /\ UNCHANGED vars

Next ==
  \/ \E j \in Jobs, t \in Tools : Register(j, t)
  \/ \E j \in Jobs :
       Caller(j) \/ Runner(j) \/ Canceller(j) \/ Reader(j) \/ CancelNext(j)
  \/ Stop \/ StopExecutor
  \/ Finished

Spec == Init /\ [][Next]_vars

\* Threads are scheduled.  A press's callback and a look end by themselves (a look has
\* a timeout of its own); a cook, a render or a PDG graph need not end, unless it is
\* cancelled or the executor refuses its next step.
Ends(j) ==
  /\ ~Polls(tool[j]) \/ offline
  /\ Return(j) \/ Raise(j)

Fairness ==
  /\ \A j \in Jobs :
       /\ WF_vars(Caller(j)) /\ WF_vars(CancelSet(j))
       /\ WF_vars(Interrupted(j)) /\ WF_vars(Ends(j)) /\ WF_vars(Wrapup(j))
       /\ WF_vars(CancelNext(j))
  /\ WF_vars(StopExecutor)

LiveSpec == Spec /\ Fairness

-----------------------------------------------------------------------------
(* Properties. *)

TypeOK ==
  /\ registry \subseteq Jobs
  /\ born \in [Jobs -> Nat]
  /\ starts \in Nat
  /\ tool \in [Jobs -> Tools \cup {"none"}]
  /\ state \in [Jobs -> States]
  /\ result \in [Jobs -> BOOLEAN]
  /\ error \in [Jobs -> BOOLEAN]
  /\ current \in [Jobs -> 0..Total]
  /\ cancelEvent \in [Jobs -> BOOLEAN]
  /\ doneEvent \in [Jobs -> BOOLEAN]
  /\ runner \in [Jobs -> RunnerPCs]
  /\ exc \in [Jobs -> Exceptions]
  /\ caller \in [Jobs -> CallerPCs]
  /\ answer \in [Jobs -> Answers]
  /\ canceller \in [Jobs -> CancelPCs]
  /\ cancelReply \in [Jobs -> CancelReplies]
  /\ reader \in [Jobs -> ReadPCs]
  /\ seen \in [Jobs -> [state : States, current : 0..Total, error : BOOLEAN,
                        result : BOOLEAN]]
  /\ sweep \subseteq Jobs
  /\ stopping \in BOOLEAN
  /\ offline \in BOOLEAN

\* A job that runs can be found by its id, however many jobs start after it (_evict,
\* discard): it can be polled and cancelled.
RunningIsFound == \A j \in Jobs : state[j] = "running" => j \in registry

\* A job whose id was handed out stays until more than Keep jobs were started.
HandedOutIsFound ==
  \A j \in Jobs :
    answer[j] = "job_id" /\ j \notin registry =>
      Cardinality({k \in Jobs : caller[k] # "idle"}) > Keep

\* Whoever holds a job's id reaches the job while it matters: eviction and discard take
\* neither a running job nor one whose id was just handed out (JobManager._evict).
JobIsFound == RunningIsFound /\ HandedOutIsFound

\* What the starting call answers is how the job ended: a result only of a job that is
\* done, an error only of one that is not (cook.py, look.py, visual.py after the wait).
AnswerIsOutcome ==
  \A j \in Jobs :
    /\ answer[j] = "result" => state[j] = "done" /\ result[j]
    /\ answer[j] \in {"error", "internal"} => state[j] \in {"failed", "cancelled"}

\* A status that says done comes with the result and with every step counted, though
\* its fields are read while the runner writes them.
DoneIsComplete ==
  \A j \in Jobs :
    reader[j] = "read" /\ seen[j].state = "done" =>
      /\ seen[j].result
      /\ Polls(tool[j]) => seen[j].current = Total

\* cancelled: false is true: the job had finished, or is one that cannot be cancelled.
CancelRefusedIsTrue ==
  \A j \in Jobs :
    cancelReply[j] = "not_cancelled" => state[j] \in Final \/ ~Cancellable(tool[j])

\* A job that follows a press ends as the press does: only Host.stop can make it
\* cancelled (jobs.py: cancellable).
PressIsFollowed ==
  \A j \in Jobs : tool[j] = "press" /\ state[j] = "cancelled" => stopping

\* A job that ended keeps its state.
FinalIsFinal ==
  [][\A j \in Jobs : state[j] \in Final => state'[j] = state[j]]_vars

\* Every tool call that starts a job is answered, however long the job takes.
EveryCallIsAnswered == \A j \in Jobs : caller[j] # "idle" ~> caller[j] = "answered"

\* A job that was asked to stop ends, and whoever waits for it is woken.
CancelEndsJob == \A j \in Jobs : cancelEvent[j] ~> doneEvent[j]

\* After Host.stop every job ends, those that were registered after cancel_all took
\* its copy of the registry included.
StopEndsJobs ==
  \A j \in Jobs : stopping /\ caller[j] \notin {"idle", "registered"} ~> doneEvent[j]

\* A job that was asked to stop, by a cancel or by Host.stop, ends, whatever its tool
\* waits for, and whoever waits for it is woken (JobManager.cancel, cancel_all).
JobsEnd == CancelEndsJob /\ StopEndsJobs

=============================================================================
