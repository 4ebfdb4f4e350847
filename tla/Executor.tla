------------------------------ MODULE Executor ------------------------------
(***************************************************************************)
(* The main-thread executor of the host (host/executor.py): HTTP handler   *)
(* threads and job threads hand callables to Houdini's main thread and     *)
(* wait a bounded time for the result.  Each element of Works is one       *)
(* callable: one call of run, run_adoptable or post.  The thread that made *)
(* the call and the main thread interleave at every lock, event and queue  *)
(* operation.                                                              *)
(*                                                                         *)
(* Waiting times are abstracted: a wait may time out whenever its event is *)
(* not set.  A callable may take any number of steps, may mark a long      *)
(* step, may let Houdini run a nested event loop, and may stop the host.   *)
(*                                                                         *)
(* Two pairs of steps are merged because nothing but the main thread can   *)
(* tell them apart: the main thread takes a callable off the queue and     *)
(* locks it in one step (a caller that withdraws it in between has the     *)
(* same effect as one that does so before), and it clears _current_work    *)
(* and sets the state to done in one step.                                 *)
(***************************************************************************)
EXTENDS Naturals, Sequences

CONSTANTS
  Works,     \* the callables handed to the executor, one per call
  Backends,  \* the backends: "gui" (an idle callback drains) and "headless" (the
             \* main thread pumps)
  MaxStarts  \* bound: how often start() takes effect

ASSUME ExecutorAssumption ==
  /\ Backends \subseteq {"gui", "headless"}
  /\ MaxStarts \in Nat

Kinds == {"none", "run", "adoptable", "post"}
States == {"none", "pending", "running", "done", "cancelled"}
Outcomes == {"none", "result", "interrupt", "offline"}
PCs == {"idle", "checked", "wait1", "adopt1", "wait2", "adopt2", "late",
        "collect", "following", "returned"}
Replies == {"none", "result", "interrupt", "offline",
            "busy_not_started", "busy_started"}
MainPCs == {"outside", "loop", "fn", "stop", "over", "exited"}

VARIABLES
  running,    \* _running: the executor accepts calls
  queue,      \* _queue
  state,      \* _Work.state ("none": not made yet)
  done,       \* _Work.done, the event the caller waits for
  outcome,    \* _Work.result or _Work.exc
  longStep,   \* _Work.long_step is set
  kind,       \* the method the caller used
  pc,         \* where the caller's thread is
  reply,      \* what the caller was told
  main,       \* where Houdini's main thread is
  executing,  \* the callables on the main thread's stack
  draining,   \* _draining: an _on_idle activation is on the stack
  resume,     \* where stop() returns to
  backend,    \* the backend this host was made with; never changes
  shutdown,   \* the shutdown event pump_forever looks at
  starts      \* how often start() took effect

callerVars == <<kind, pc, reply>>
workVars == <<state, done, outcome, longStep>>
mainVars == <<main, executing, draining, resume, backend>>
vars == <<running, queue, workVars, callerVars, mainVars, shutdown, starts>>

Init ==
  /\ running = FALSE
  /\ queue = <<>>
  /\ state = [w \in Works |-> "none"]
  /\ done = [w \in Works |-> FALSE]
  /\ outcome = [w \in Works |-> "none"]
  /\ longStep = [w \in Works |-> FALSE]
  /\ kind = [w \in Works |-> "none"]
  /\ pc = [w \in Works |-> "idle"]
  /\ reply = [w \in Works |-> "none"]
  /\ main = "outside"
  /\ executing = {}
  /\ draining = FALSE
  /\ resume = "outside"
  /\ backend \in Backends
  /\ shutdown = FALSE
  /\ starts = 0

-----------------------------------------------------------------------------
(* The callers' threads. *)

Goto(w, from, to) ==
  /\ pc[w] = from
  /\ pc' = [pc EXCEPT ![w] = to]

Answer(w, what) == reply' = [reply EXCEPT ![w] = what]

\* run() and run_adoptable() refuse at once when the executor does not run.
Submit(w, k) ==
  /\ kind' = [kind EXCEPT ![w] = k]
  /\ \/ running /\ Goto(w, "idle", "checked") /\ UNCHANGED reply
     \/ ~running /\ Goto(w, "idle", "returned") /\ Answer(w, "offline")
  /\ UNCHANGED <<running, queue, workVars, mainVars, shutdown, starts>>

\* A _Work is made pending and queued.
Enqueue(w) ==
  /\ queue' = Append(queue, w)
  /\ state' = [state EXCEPT ![w] = "pending"]

\* The check of _running and the put are two steps of the caller.
Put(w) ==
  /\ Goto(w, "checked", IF kind[w] = "adoptable" THEN "wait1" ELSE "wait2")
  /\ Enqueue(w)
  /\ UNCHANGED <<running, done, outcome, longStep, kind, reply, mainVars,
                 shutdown, starts>>

\* post() does not look at _running and does not wait.
Post(w) ==
  /\ Goto(w, "idle", "returned")
  /\ kind' = [kind EXCEPT ![w] = "post"]
  /\ Enqueue(w)
  /\ UNCHANGED <<running, done, outcome, longStep, reply, mainVars, shutdown,
                 starts>>

\* The event is set while the caller waits: it gets the result or the exception.
WaitDone(w) ==
  /\ pc[w] \in {"wait1", "wait2"}
  /\ done[w]
  /\ pc' = [pc EXCEPT ![w] = "returned"]
  /\ Answer(w, outcome[w])
  /\ UNCHANGED <<running, queue, workVars, kind, mainVars, shutdown, starts>>

\* wait() returns False: an adoptable call looks at the long step next.
WaitTimeout(w) ==
  /\ ~done[w]
  /\ \/ Goto(w, "wait1", "adopt1")
     \/ Goto(w, "wait2", IF kind[w] = "adoptable" THEN "adopt2" ELSE "late")
  /\ UNCHANGED <<running, queue, workVars, kind, reply, mainVars, shutdown,
                 starts>>

\* A running callable with a long step is handed back as a Pending.
AdoptCheck(w) ==
  /\ IF state[w] = "running" /\ longStep[w]
     THEN \E at \in {"adopt1", "adopt2"} : Goto(w, at, "following")
     ELSE Goto(w, "adopt1", "wait2") \/ Goto(w, "adopt2", "late")
  /\ UNCHANGED <<running, queue, workVars, kind, reply, mainVars, shutdown,
                 starts>>

\* Timed out: withdraw the call if it is still pending, else say it is running,
\* unless it finished between the wait and the lock.
LateWithdraw(w) ==
  /\ state[w] = "pending"
  /\ Goto(w, "late", "returned")
  /\ state' = [state EXCEPT ![w] = "cancelled"]
  /\ Answer(w, "busy_not_started")
  /\ UNCHANGED <<running, queue, done, outcome, longStep, kind, mainVars,
                 shutdown, starts>>

LateBusy(w) ==
  /\ state[w] \in {"running", "cancelled"}
  /\ Goto(w, "late", "returned")
  /\ Answer(w, "busy_started")
  /\ UNCHANGED <<running, queue, workVars, kind, mainVars, shutdown, starts>>

LateFinished(w) ==
  /\ state[w] = "done"
  /\ Goto(w, "late", "collect")
  /\ UNCHANGED <<running, queue, workVars, kind, reply, mainVars, shutdown,
                 starts>>

\* Mutant: the result is read without waiting for the event.
CollectEarly(w) ==
  /\ \E at \in {"collect", "following"} : Goto(w, at, "returned")
  /\ Answer(w, IF outcome[w] = "none" THEN "result" ELSE outcome[w])
  /\ UNCHANGED <<running, queue, workVars, kind, mainVars, shutdown, starts>>

\* An untimed wait for the event: after LateFinished, or Pending.outcome() in the
\* job that follows the call.
Collect(w) ==
  /\ done[w]
  /\ \E at \in {"collect", "following"} : Goto(w, at, "returned")
  /\ Answer(w, outcome[w])
  /\ UNCHANGED <<running, queue, workVars, kind, mainVars, shutdown, starts>>

Caller(w) ==
  \/ Put(w) \/ WaitDone(w) \/ WaitTimeout(w) \/ AdoptCheck(w)
  \/ LateWithdraw(w) \/ LateBusy(w) \/ LateFinished(w) \/ Collect(w)

-----------------------------------------------------------------------------
(* Houdini's main thread. *)

\* start(): for the headless backend the owner then enters pump_forever.
Start ==
  /\ ~running
  /\ starts < MaxStarts
  /\ main = "outside"
  /\ running' = TRUE
  /\ starts' = starts + 1
  /\ UNCHANGED <<queue, workVars, callerVars, mainVars, shutdown>>

\* Houdini's event loop calls _on_idle, from a nested event loop too.
OnIdle ==
  /\ backend = "gui"
  /\ running
  /\ ~draining
  /\ main \in {"outside", "fn"}
  /\ main' = "loop"
  /\ draining' = TRUE
  /\ UNCHANGED <<running, queue, workVars, callerVars, executing, resume,
                 shutdown, starts, backend>>

\* The drain ends: nothing queued, or its time budget is spent.
IdleEnd ==
  /\ backend = "gui"
  /\ main = "loop"
  /\ main' = "outside"
  /\ draining' = FALSE
  /\ UNCHANGED <<running, queue, workVars, callerVars, executing, resume,
                 shutdown, starts, backend>>

PumpForever ==
  /\ backend = "headless"
  /\ main = "outside"
  /\ running
  /\ main' = "loop"
  /\ UNCHANGED <<running, queue, workVars, callerVars, executing, draining,
                 resume, shutdown, starts, backend>>

\* pump_forever returns once the shutdown event is set and the queue is drained.
PumpEnd ==
  /\ backend = "headless"
  /\ main = "loop"
  /\ shutdown
  /\ queue = <<>>
  /\ main' = "over"
  /\ UNCHANGED <<running, queue, workVars, callerVars, executing, draining,
                 resume, shutdown, starts, backend>>

\* A signal or POST /shutdown: only pump_forever looks at the event.
Shutdown ==
  /\ backend = "headless"
  /\ ~shutdown
  /\ shutdown' = TRUE
  /\ UNCHANGED <<running, queue, workVars, callerVars, mainVars, starts>>

\* Mutant: _execute without the check of the state.
RunAnyState(w) ==
  /\ state' = [state EXCEPT ![w] = "running"]
  /\ executing' = executing \cup {w}
  /\ main' = "fn"

\* _execute: a callable that is not pending any more is dropped.
Run(w) ==
  IF state[w] = "pending"
  THEN /\ state' = [state EXCEPT ![w] = "running"]
       /\ executing' = executing \cup {w}
       /\ main' = "fn"
  ELSE UNCHANGED <<state, executing, main>>

\* Take the next callable off the queue, in pump_once or in _on_idle's loop.
Execute ==
  /\ main = "loop"
  /\ queue # <<>>
  /\ Run(Head(queue))
  /\ queue' = Tail(queue)
  /\ UNCHANGED <<running, done, outcome, longStep, callerVars, draining,
                 resume, shutdown, starts, backend>>

MarkLongStep(w) ==
  /\ main = "fn"
  /\ w \in executing
  /\ state[w] = "running"
  /\ longStep' = [longStep EXCEPT ![w] = TRUE]
  /\ UNCHANGED <<running, queue, state, done, outcome, callerVars, mainVars,
                 shutdown, starts>>

\* The callable ends; its outcome and state are set.  "result" is a value or an
\* exception for the caller, "interrupt" a KeyboardInterrupt or SystemExit.
FinishFn(w, o) ==
  /\ main = "fn"
  /\ w \in executing
  /\ state[w] = "running"
  /\ outcome' = [outcome EXCEPT ![w] = o]
  /\ state' = [state EXCEPT ![w] = "done"]
  /\ UNCHANGED <<running, queue, done, longStep, callerVars, mainVars,
                 shutdown, starts>>

\* Mutant: without the finally of _on_idle, an interrupt leaves _draining set.
SetDoneStaysDraining(w) ==
  /\ main = "fn"
  /\ w \in executing
  /\ state[w] = "done"
  /\ done' = [done EXCEPT ![w] = TRUE]
  /\ executing' = executing \ {w}
  /\ main' = IF outcome[w] # "interrupt" THEN "loop"
             ELSE IF backend = "gui" THEN "outside" ELSE "over"
  /\ UNCHANGED <<running, queue, state, outcome, longStep, callerVars,
                 draining, resume, shutdown, starts, backend>>

\* Mutant: without the finally of _execute, an interrupt leaves the event unset.
SetDoneNoEvent(w) ==
  /\ main = "fn"
  /\ w \in executing
  /\ state[w] = "done"
  /\ done' = [done EXCEPT ![w] = outcome[w] # "interrupt"]
  /\ executing' = executing \ {w}
  /\ IF outcome[w] # "interrupt"
     THEN main' = "loop" /\ UNCHANGED draining
     ELSE /\ draining' = FALSE
          /\ main' = IF backend = "gui" THEN "outside" ELSE "over"
  /\ UNCHANGED <<running, queue, state, outcome, longStep, callerVars,
                 resume, shutdown, starts, backend>>

\* The event is set.  KeyboardInterrupt and SystemExit go on to leave the drain.
SetDone(w) ==
  /\ main = "fn"
  /\ w \in executing
  /\ state[w] = "done"
  /\ done' = [done EXCEPT ![w] = TRUE]
  /\ executing' = executing \ {w}
  /\ IF outcome[w] # "interrupt"
     THEN main' = "loop" /\ UNCHANGED draining
     ELSE /\ draining' = FALSE
          /\ main' = IF backend = "gui" THEN "outside" ELSE "over"
  /\ UNCHANGED <<running, queue, state, outcome, longStep, callerVars,
                 resume, shutdown, starts, backend>>

\* stop(), from the callable that stops the host, from Houdini's own code (quit,
\* the shelf) or after pump_forever.  Host.stop sets the shutdown event first.
StopCall ==
  /\ \/ main = "outside" /\ backend = "gui"
     \/ main = "fn" /\ \E w \in executing : state[w] = "running"
     \/ main = "over"
  /\ running
  /\ running' = FALSE
  /\ shutdown' = TRUE
  /\ resume' = main
  /\ main' = "stop"
  /\ UNCHANGED <<queue, workVars, callerVars, executing, draining, starts,
                 backend>>

\* stop() fails what is still queued, one callable at a time.
StopDrain ==
  /\ main = "stop"
  /\ queue # <<>>
  /\ LET w == Head(queue) IN
       IF state[w] = "pending"
       THEN /\ state' = [state EXCEPT ![w] = "cancelled"]
            /\ outcome' = [outcome EXCEPT ![w] = "offline"]
            /\ done' = [done EXCEPT ![w] = TRUE]
       ELSE UNCHANGED <<state, outcome, done>>
  /\ queue' = Tail(queue)
  /\ UNCHANGED <<running, longStep, callerVars, mainVars, shutdown, starts>>

\* Mutant: stop() leaves the queue as it is.
StopReturnEarly ==
  /\ main = "stop"
  /\ main' = IF resume = "over" THEN "exited" ELSE resume
  /\ UNCHANGED <<running, queue, workVars, callerVars, executing, draining,
                 resume, shutdown, starts, backend>>

StopReturn ==
  /\ main = "stop"
  /\ queue = <<>>
  /\ main' = IF resume = "over" THEN "exited" ELSE resume
  /\ UNCHANGED <<running, queue, workVars, callerVars, executing, draining,
                 resume, shutdown, starts, backend>>

\* The headless process ends also when stop() had already run in a callable.
ExitStopped ==
  /\ main = "over"
  /\ ~running
  /\ main' = "exited"
  /\ UNCHANGED <<running, queue, workVars, callerVars, executing, draining,
                 resume, shutdown, starts, backend>>

Pump == Execute \/ \E w \in Works : SetDone(w)

Main ==
  \/ Start \/ OnIdle \/ IdleEnd \/ PumpForever \/ PumpEnd \/ Pump
  \/ StopCall \/ StopDrain \/ StopReturn \/ ExitStopped
  \/ \E w \in Works : MarkLongStep(w)
  \/ \E w \in Works, o \in {"result", "interrupt"} : FinishFn(w, o)

\* Every call has returned and the host has stopped: nothing is left to do.
Finished ==
  /\ ~running
  /\ main \in {"outside", "exited"}
  /\ \A w \in Works : pc[w] = "returned"
  /\ UNCHANGED vars

Next ==
  \/ \E w \in Works : Caller(w) \/ Post(w)
  \/ \E w \in Works, k \in {"run", "adoptable"} : Submit(w, k)
  \/ Shutdown
  \/ Main
  \/ Finished

Spec == Init /\ [][Next]_vars

\* Callers' threads run and their waits expire; the headless process ends with stop()
\* (the finally of host/__main__.py); Houdini's event loop keeps ticking
\* while the callback is registered, and a tick takes a callable before its time budget
\* is spent (a strong fairness, because the drain in between ends); a callable that
\* runs comes to its end.
Fairness ==
  /\ \A w \in Works : WF_vars(Caller(w))
  /\ WF_vars(OnIdle) /\ WF_vars(PumpForever) /\ WF_vars(StopDrain)
  /\ WF_vars(StopReturn) /\ SF_vars(Execute)
  /\ WF_vars(main = "over" /\ StopCall)
  /\ \A w \in Works :
       /\ WF_vars(SetDone(w))
       /\ WF_vars(\E o \in {"result", "interrupt"} : FinishFn(w, o))

FairSpec == Spec /\ Fairness

-----------------------------------------------------------------------------
(* Properties. *)

\* Every variable has its type (the states of _Work, the codes of a reply).
TypeOK ==
  /\ running \in BOOLEAN /\ draining \in BOOLEAN /\ shutdown \in BOOLEAN
  /\ queue \in Seq(Works)
  /\ state \in [Works -> States]
  /\ done \in [Works -> BOOLEAN]
  /\ outcome \in [Works -> Outcomes]
  /\ longStep \in [Works -> BOOLEAN]
  /\ kind \in [Works -> Kinds]
  /\ pc \in [Works -> PCs]
  /\ reply \in [Works -> Replies]
  /\ main \in MainPCs /\ resume \in MainPCs /\ backend \in Backends
  /\ executing \in SUBSET Works
  /\ starts \in Nat

\* "The main thread executes one callable at a time" (module docstring), also when
\* a callable lets Houdini run a nested event loop that calls _on_idle again.
OneAtATime == \A v, w \in executing : v = w

\* A caller told that its call had no effect (busy and not started, or offline) is
\* right for ever: the callable is not queued for the main thread to run later.
RefusedNeverRuns ==
  \A w \in Works :
    reply[w] \in {"busy_not_started", "offline"} => state[w] \in {"none", "cancelled"}

\* A result or exception that a caller gets, at once, late or through a Pending, is
\* the one its callable ended with.
ReplyIsOutcome ==
  \A w \in Works :
    reply[w] \in {"result", "interrupt"} =>
      state[w] = "done" /\ outcome[w] = reply[w]

\* A caller told "started" is wrong only when the host stopped: _submit looks at the
\* state under the lock, so a call it finds pending is withdrawn instead.
StartedUnlessStopped ==
  \A w \in Works :
    reply[w] = "busy_started" =>
      \/ state[w] \in {"running", "done"}
      \/ state[w] = "cancelled" /\ outcome[w] = "offline"

\* No call overtakes one that was queued before it and still waits
\* (test_calls_are_serialised_in_order).
InOrder ==
  [][\A i, j \in DOMAIN queue :
       i < j /\ state[queue[i]] = "pending" => state'[queue[j]] # "running"]_vars

\* Every call comes back: with a result, a refusal or, once it was adopted, with the
\* result its job waits for without a timeout.
EveryCallReturns ==
  \A w \in Works : (pc[w] = "checked") ~> (pc[w] = "returned")

\* A callable queued while the host runs, posted or waited for, is run, withdrawn or
\* failed: no interrupt, nested event loop, spent time budget, shutdown or stop leaves
\* it in the queue.
QueuedIsServed ==
  \A w \in Works :
    (state[w] = "pending" /\ running) ~> (state[w] \in {"done", "cancelled"})

\* The executor implements the promise to its callers.
Effect(w) ==
  CASE state[w] = "running" -> "doing"
    [] state[w] = "done" -> "did"
    [] OTHER -> "none"

AnswerTo(w) ==
  CASE reply[w] = "none" -> "none"
    [] reply[w] = "busy_started" -> "unknown"
    [] reply[w] \in {"busy_not_started", "offline"} -> "no_effect"
    [] OTHER -> "result"

Calls == INSTANCE CallOnce WITH
  effect <- [w \in Works |-> Effect(w)],
  answer <- [w \in Works |-> AnswerTo(w)]

\* Each call takes effect at most once, alone, and never after its answer.
ImplementsCallOnce == Calls!Spec

=============================================================================
