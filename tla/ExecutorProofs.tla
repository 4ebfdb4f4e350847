--------------------------- MODULE ExecutorProofs ---------------------------
(***************************************************************************)
(* Proofs about the executor for any set of calls, either backend and any  *)
(* number of starts.  IInv is the inductive invariant: what each state of  *)
(* a callable says of its caller (CallerInv), and where the main thread    *)
(* can be while a callable is on its stack (MainInv).                      *)
(***************************************************************************)
EXTENDS Executor, SequenceTheorems, TLAPS

Waiting == {"wait1", "adopt1", "wait2", "adopt2", "late"}

CallerInv ==
  \A w \in Works :
    /\ pc[w] \in {"idle", "checked"} => state[w] = "none"
    /\ pc[w] # "returned" => reply[w] = "none"
    /\ state[w] = "pending" => reply[w] = "none"
    /\ pc[w] \in Waiting => state[w] # "none"
    /\ pc[w] = "following" => state[w] \in {"running", "done"}
    /\ pc[w] = "collect" => state[w] = "done"
    /\ done[w] => state[w] \in {"done", "cancelled"}
    /\ state[w] = "done" <=> outcome[w] \in {"result", "interrupt"}
    /\ outcome[w] = "offline" => state[w] = "cancelled"
    /\ state[w] = "cancelled" =>
         outcome[w] = "offline" \/ reply[w] = "busy_not_started"
    /\ done[w] => outcome[w] # "none"

\* The main thread is in a callable, or in a stop() that a callable called.
InFn == main = "fn" \/ (main = "stop" /\ resume = "fn")

MainInv ==
  /\ \A w \in Works : state[w] = "running" => w \in executing
  /\ \A v, w \in executing : v = w
  /\ executing # {} => InFn
  /\ main = "stop" => resume \in {"outside", "fn", "over"}
  /\ backend = "gui" /\ (InFn \/ main = "loop") => draining

Answers == RefusedNeverRuns /\ ReplyIsOutcome /\ StartedUnlessStopped

IInv == TypeOK /\ CallerInv /\ MainInv /\ Answers

-----------------------------------------------------------------------------
(* The type invariant. *)

LEMMA QueueTail == ASSUME queue \in Seq(Works), queue # <<>>
                  PROVE Head(queue) \in Works /\ Tail(queue) \in Seq(Works)
  BY HeadTailProperties

LEMMA TypeInit == Init => TypeOK
<1> SUFFICES ASSUME Init PROVE TypeOK
  OBVIOUS
<1>1. queue \in Seq(Works)
  BY EmptySeq DEF Init
<1>2. /\ main \in MainPCs /\ resume \in MainPCs /\ starts \in Nat
      /\ executing \in SUBSET Works /\ backend \in Backends
  BY DEF Init, MainPCs
<1>3. /\ running \in BOOLEAN /\ draining \in BOOLEAN /\ shutdown \in BOOLEAN
      /\ done \in [Works -> BOOLEAN] /\ longStep \in [Works -> BOOLEAN]
  BY DEF Init
<1>4. /\ state \in [Works -> States] /\ outcome \in [Works -> Outcomes]
      /\ kind \in [Works -> Kinds] /\ pc \in [Works -> PCs]
      /\ reply \in [Works -> Replies]
  BY DEF Init, States, Outcomes, Kinds, PCs, Replies
<1> QED
  BY <1>1, <1>2, <1>3, <1>4 DEF TypeOK

LEMMA TypeStep == TypeOK /\ [Next]_vars => TypeOK'
<1> SUFFICES ASSUME TypeOK, [Next]_vars PROVE TypeOK'
  OBVIOUS
<1> USE ExecutorAssumption
<1>1. ASSUME NEW w \in Works, NEW k \in {"run", "adoptable"}, Submit(w, k) PROVE TypeOK'
  BY <1>1 DEF Submit, Goto, Answer, TypeOK, States, Outcomes, Kinds, PCs,
     Replies, MainPCs, workVars, callerVars, mainVars
<1>2. ASSUME NEW w \in Works, Put(w) PROVE TypeOK'
  BY <1>2 DEF Put, Goto, Enqueue, TypeOK, States, Outcomes, Kinds, PCs, Replies,
     MainPCs, workVars, callerVars, mainVars
<1>3. ASSUME NEW w \in Works, WaitDone(w) PROVE TypeOK'
  BY <1>3 DEF WaitDone, Answer, TypeOK, States, Outcomes, Kinds, PCs, Replies,
     MainPCs, workVars, callerVars, mainVars
<1>4. ASSUME NEW w \in Works, WaitTimeout(w) PROVE TypeOK'
  BY <1>4 DEF WaitTimeout, Goto, TypeOK, States, Outcomes, Kinds, PCs, Replies,
     MainPCs, workVars, callerVars, mainVars
<1>5. ASSUME NEW w \in Works, AdoptCheck(w) PROVE TypeOK'
  BY <1>5 DEF AdoptCheck, Goto, TypeOK, States, Outcomes, Kinds, PCs, Replies,
     MainPCs, workVars, callerVars, mainVars
<1>6. ASSUME NEW w \in Works, LateWithdraw(w) PROVE TypeOK'
  BY <1>6 DEF LateWithdraw, Goto, Answer, TypeOK, States, Outcomes, Kinds, PCs,
     Replies, MainPCs, workVars, callerVars, mainVars
<1>7. ASSUME NEW w \in Works, LateBusy(w) PROVE TypeOK'
  BY <1>7 DEF LateBusy, Goto, Answer, TypeOK, States, Outcomes, Kinds, PCs,
     Replies, MainPCs, workVars, callerVars, mainVars
<1>8. ASSUME NEW w \in Works, LateFinished(w) PROVE TypeOK'
  BY <1>8 DEF LateFinished, Goto, TypeOK, States, Outcomes, Kinds, PCs, Replies,
     MainPCs, workVars, callerVars, mainVars
<1>9. ASSUME NEW w \in Works, Collect(w) PROVE TypeOK'
  BY <1>9 DEF Collect, Goto, Answer, TypeOK, States, Outcomes, Kinds, PCs,
     Replies, MainPCs, workVars, callerVars, mainVars
<1>10. ASSUME NEW w \in Works, Post(w) PROVE TypeOK'
  BY <1>10 DEF Post, Goto, Enqueue, TypeOK, States, Outcomes, Kinds, PCs,
     Replies, MainPCs, workVars, callerVars, mainVars
<1>11. ASSUME NEW w \in Works, MarkLongStep(w) PROVE TypeOK'
  BY <1>11 DEF MarkLongStep, TypeOK, States, Outcomes, Kinds, PCs, Replies,
     MainPCs, workVars, callerVars, mainVars
<1>12. ASSUME NEW w \in Works, NEW o \in {"result", "interrupt"}, FinishFn(w, o) PROVE TypeOK'
  BY <1>12 DEF FinishFn, TypeOK, States, Outcomes, Kinds, PCs, Replies, MainPCs,
     workVars, callerVars, mainVars
<1>13. ASSUME NEW w \in Works, SetDone(w) PROVE TypeOK'
  BY <1>13 DEF SetDone, TypeOK, States, Outcomes, Kinds, PCs, Replies, MainPCs,
     workVars, callerVars, mainVars
<1>14. ASSUME Shutdown PROVE TypeOK'
  BY <1>14 DEF Shutdown, TypeOK, States, Outcomes, Kinds, PCs, Replies, MainPCs,
     workVars, callerVars, mainVars
<1>15. ASSUME Start PROVE TypeOK'
  BY <1>15 DEF Start, TypeOK, States, Outcomes, Kinds, PCs, Replies, MainPCs,
     workVars, callerVars, mainVars
<1>16. ASSUME OnIdle PROVE TypeOK'
  BY <1>16 DEF OnIdle, TypeOK, States, Outcomes, Kinds, PCs, Replies, MainPCs,
     workVars, callerVars, mainVars
<1>17. ASSUME IdleEnd PROVE TypeOK'
  BY <1>17 DEF IdleEnd, TypeOK, States, Outcomes, Kinds, PCs, Replies, MainPCs,
     workVars, callerVars, mainVars
<1>18. ASSUME PumpForever PROVE TypeOK'
  BY <1>18, QueueTail DEF PumpForever, TypeOK, States, Outcomes, Kinds, PCs,
     Replies, MainPCs, workVars, callerVars, mainVars
<1>19. ASSUME PumpEnd PROVE TypeOK'
  BY <1>19 DEF PumpEnd, TypeOK, States, Outcomes, Kinds, PCs, Replies, MainPCs,
     workVars, callerVars, mainVars
<1>20. ASSUME Execute PROVE TypeOK'
  <2>1. Head(queue) \in Works /\ Tail(queue) \in Seq(Works)
    BY <1>20, QueueTail DEF Execute, TypeOK
  <2> QED
    BY <1>20, <2>1 DEF Execute, Run, TypeOK, States, Outcomes, MainPCs,
       workVars, callerVars, mainVars
<1>21. ASSUME StopCall PROVE TypeOK'
  BY <1>21 DEF StopCall, TypeOK, States, Outcomes, Kinds, PCs, Replies, MainPCs,
     workVars, callerVars, mainVars
<1>22. ASSUME StopDrain PROVE TypeOK'
  <2>1. Head(queue) \in Works /\ Tail(queue) \in Seq(Works)
    BY <1>22, QueueTail DEF StopDrain, TypeOK
  <2> QED
    BY <1>22, <2>1 DEF StopDrain, TypeOK, States, Outcomes, MainPCs, workVars,
       callerVars, mainVars
<1>23. ASSUME StopReturn PROVE TypeOK'
  BY <1>23 DEF StopReturn, TypeOK, States, Outcomes, Kinds, PCs, Replies,
     MainPCs, workVars, callerVars, mainVars
<1>24. ASSUME ExitStopped PROVE TypeOK'
  BY <1>24 DEF ExitStopped, TypeOK, States, Outcomes, Kinds, PCs, Replies,
     MainPCs, workVars, callerVars, mainVars
<1>25. ASSUME Finished PROVE TypeOK'
  BY <1>25 DEF Finished, vars, TypeOK, States, Outcomes, Kinds, PCs, Replies,
     MainPCs,
     workVars, callerVars, mainVars
<1>26. ASSUME UNCHANGED vars PROVE TypeOK'
  BY <1>26 DEF vars, TypeOK, States, Outcomes, Kinds, PCs, Replies, MainPCs,
     workVars, callerVars, mainVars
<1> QED
  BY <1>1, <1>2, <1>3, <1>4, <1>5, <1>6, <1>7, <1>8, <1>9, <1>10, <1>11, <1>12,
     <1>13, <1>14, <1>15, <1>16, <1>17, <1>18, <1>19, <1>20, <1>21, <1>22,
     <1>23, <1>24, <1>25, <1>26 DEF Next, Caller, Main, Pump

\* Every variable keeps its type, for any set of calls.
THEOREM TypeCorrect == Spec => []TypeOK
<1>1. Init => TypeOK
  BY TypeInit
<1>2. TypeOK /\ [Next]_vars => TypeOK'
  BY TypeStep
<1> QED
  BY <1>1, <1>2, PTL DEF Spec

-----------------------------------------------------------------------------
(* What the state of a callable says of its caller. *)

LEMMA CallerStep ==
  TypeOK /\ CallerInv /\ [Next]_vars => CallerInv'
<1> SUFFICES ASSUME TypeOK, CallerInv, [Next]_vars PROVE CallerInv'
  OBVIOUS
<1>1. ASSUME NEW w \in Works, NEW k \in {"run", "adoptable"}, Submit(w, k)
      PROVE  CallerInv'
  BY <1>1 DEF Submit, Goto, Answer, CallerInv, Waiting, TypeOK, States,
     Outcomes, PCs, Replies, workVars, callerVars, mainVars
<1>2. ASSUME NEW w \in Works, Put(w)
      PROVE  CallerInv'
  BY <1>2 DEF Put, Goto, Enqueue, CallerInv, Waiting, TypeOK, States, Outcomes,
     PCs, Replies, workVars, callerVars, mainVars
<1>3. ASSUME NEW w \in Works, WaitDone(w)
      PROVE  CallerInv'
  BY <1>3 DEF WaitDone, Answer, CallerInv, Waiting, TypeOK, States, Outcomes,
     PCs, Replies, workVars, callerVars, mainVars
<1>4. ASSUME NEW w \in Works, WaitTimeout(w)
      PROVE  CallerInv'
  BY <1>4 DEF WaitTimeout, Goto, CallerInv, Waiting, TypeOK, States, Outcomes,
     PCs, Replies, workVars, callerVars, mainVars
<1>5. ASSUME NEW w \in Works, AdoptCheck(w)
      PROVE  CallerInv'
  BY <1>5 DEF AdoptCheck, Goto, CallerInv, Waiting, TypeOK, States, Outcomes,
     PCs, Replies, workVars, callerVars, mainVars
<1>6. ASSUME NEW w \in Works, LateWithdraw(w)
      PROVE  CallerInv'
  BY <1>6 DEF LateWithdraw, Goto, Answer, CallerInv, Waiting, TypeOK, States,
     Outcomes, PCs, Replies, workVars, callerVars, mainVars
<1>7. ASSUME NEW w \in Works, LateBusy(w)
      PROVE  CallerInv'
  BY <1>7 DEF LateBusy, Goto, Answer, CallerInv, Waiting, TypeOK, States,
     Outcomes, PCs, Replies, workVars, callerVars, mainVars
<1>8. ASSUME NEW w \in Works, LateFinished(w)
      PROVE  CallerInv'
  BY <1>8 DEF LateFinished, Goto, CallerInv, Waiting, TypeOK, States, Outcomes,
     PCs, Replies, workVars, callerVars, mainVars
<1>9. ASSUME NEW w \in Works, Collect(w)
      PROVE  CallerInv'
  BY <1>9 DEF Collect, Goto, Answer, CallerInv, Waiting, TypeOK, States,
     Outcomes, PCs, Replies, workVars, callerVars, mainVars
<1>10. ASSUME NEW w \in Works, Post(w)
      PROVE  CallerInv'
  BY <1>10 DEF Post, Goto, Enqueue, CallerInv, Waiting, TypeOK, States,
     Outcomes, PCs, Replies, workVars, callerVars, mainVars
<1>11. ASSUME NEW w \in Works, MarkLongStep(w)
      PROVE  CallerInv'
  BY <1>11 DEF MarkLongStep, CallerInv, Waiting, TypeOK, States, Outcomes, PCs,
     Replies, workVars, callerVars, mainVars
<1>12. ASSUME NEW w \in Works, NEW o \in {"result", "interrupt"}, FinishFn(w, o)
      PROVE  CallerInv'
  BY <1>12 DEF FinishFn, CallerInv, Waiting, TypeOK, States, Outcomes, PCs,
     Replies, workVars, callerVars, mainVars
<1>13. ASSUME NEW w \in Works, SetDone(w)
      PROVE  CallerInv'
  BY <1>13 DEF SetDone, CallerInv, Waiting, TypeOK, States, Outcomes, PCs,
     Replies, workVars, callerVars, mainVars
<1>14. ASSUME Shutdown
      PROVE  CallerInv'
  BY <1>14 DEF Shutdown, CallerInv, Waiting, TypeOK, States, Outcomes, PCs,
     Replies, workVars, callerVars, mainVars
<1>15. ASSUME Start
      PROVE  CallerInv'
  BY <1>15 DEF Start, CallerInv, Waiting, TypeOK, States, Outcomes, PCs,
     Replies, workVars, callerVars, mainVars
<1>16. ASSUME OnIdle
      PROVE  CallerInv'
  BY <1>16 DEF OnIdle, CallerInv, Waiting, TypeOK, States, Outcomes, PCs,
     Replies, workVars, callerVars, mainVars
<1>17. ASSUME IdleEnd
      PROVE  CallerInv'
  BY <1>17 DEF IdleEnd, CallerInv, Waiting, TypeOK, States, Outcomes, PCs,
     Replies, workVars, callerVars, mainVars
<1>18. ASSUME PumpForever
      PROVE  CallerInv'
  BY <1>18 DEF PumpForever, CallerInv, Waiting, TypeOK, States, Outcomes, PCs,
     Replies, workVars, callerVars, mainVars
<1>19. ASSUME PumpEnd
      PROVE  CallerInv'
  BY <1>19 DEF PumpEnd, CallerInv, Waiting, TypeOK, States, Outcomes, PCs,
     Replies, workVars, callerVars, mainVars
<1>20. ASSUME Execute
      PROVE  CallerInv'
  BY <1>20 DEF Execute, Run, CallerInv, Waiting, TypeOK, States, Outcomes, PCs,
     Replies, workVars, callerVars, mainVars
<1>21. ASSUME StopCall
      PROVE  CallerInv'
  BY <1>21 DEF StopCall, CallerInv, Waiting, TypeOK, States, Outcomes, PCs,
     Replies, workVars, callerVars, mainVars
<1>22. ASSUME StopDrain
      PROVE  CallerInv'
  BY <1>22 DEF StopDrain, CallerInv, Waiting, TypeOK, States, Outcomes, PCs,
     Replies, workVars, callerVars, mainVars
<1>23. ASSUME StopReturn
      PROVE  CallerInv'
  BY <1>23 DEF StopReturn, CallerInv, Waiting, TypeOK, States, Outcomes, PCs,
     Replies, workVars, callerVars, mainVars
<1>24. ASSUME ExitStopped
      PROVE  CallerInv'
  BY <1>24 DEF ExitStopped, CallerInv, Waiting, TypeOK, States, Outcomes, PCs,
     Replies, workVars, callerVars, mainVars
<1>25. ASSUME Finished
      PROVE  CallerInv'
  BY <1>25 DEF Finished, vars, CallerInv, Waiting, TypeOK, States, Outcomes,
     PCs, Replies, workVars, callerVars, mainVars
<1>26. ASSUME UNCHANGED vars
      PROVE  CallerInv'
  BY <1>26 DEF vars, CallerInv, Waiting, TypeOK, States, Outcomes, PCs, Replies,
     workVars, callerVars, mainVars
<1> QED
  BY <1>1, <1>2, <1>3, <1>4, <1>5, <1>6, <1>7, <1>8, <1>9, <1>10, <1>11, <1>12,
     <1>13, <1>14, <1>15, <1>16, <1>17, <1>18, <1>19, <1>20, <1>21, <1>22,
     <1>23, <1>24, <1>25, <1>26 DEF Next, Caller, Main, Pump

LEMMA AnswersStep ==
  TypeOK /\ CallerInv /\ Answers /\ [Next]_vars => Answers'
<1> SUFFICES ASSUME TypeOK, CallerInv, Answers, [Next]_vars PROVE Answers'
  OBVIOUS
<1>1. ASSUME NEW w \in Works, NEW k \in {"run", "adoptable"}, Submit(w, k)
      PROVE  Answers'
  BY <1>1 DEF Submit, Goto, Answer, CallerInv, Waiting, Answers,
     RefusedNeverRuns, ReplyIsOutcome, StartedUnlessStopped, TypeOK, States,
     Outcomes, PCs, Replies, workVars, callerVars, mainVars
<1>2. ASSUME NEW w \in Works, Put(w)
      PROVE  Answers'
  BY <1>2 DEF Put, Goto, Enqueue, CallerInv, Waiting, Answers, RefusedNeverRuns,
     ReplyIsOutcome, StartedUnlessStopped, TypeOK, States, Outcomes, PCs,
     Replies, workVars, callerVars, mainVars
<1>3. ASSUME NEW w \in Works, WaitDone(w)
      PROVE  Answers'
  BY <1>3 DEF WaitDone, Answer, CallerInv, Waiting, Answers, RefusedNeverRuns,
     ReplyIsOutcome, StartedUnlessStopped, TypeOK, States, Outcomes, PCs,
     Replies, workVars, callerVars, mainVars
<1>4. ASSUME NEW w \in Works, WaitTimeout(w)
      PROVE  Answers'
  BY <1>4 DEF WaitTimeout, Goto, CallerInv, Waiting, Answers, RefusedNeverRuns,
     ReplyIsOutcome, StartedUnlessStopped, TypeOK, States, Outcomes, PCs,
     Replies, workVars, callerVars, mainVars
<1>5. ASSUME NEW w \in Works, AdoptCheck(w)
      PROVE  Answers'
  BY <1>5 DEF AdoptCheck, Goto, CallerInv, Waiting, Answers, RefusedNeverRuns,
     ReplyIsOutcome, StartedUnlessStopped, TypeOK, States, Outcomes, PCs,
     Replies, workVars, callerVars, mainVars
<1>6. ASSUME NEW w \in Works, LateWithdraw(w)
      PROVE  Answers'
  BY <1>6 DEF LateWithdraw, Goto, Answer, CallerInv, Waiting, Answers,
     RefusedNeverRuns, ReplyIsOutcome, StartedUnlessStopped, TypeOK, States,
     Outcomes, PCs, Replies, workVars, callerVars, mainVars
<1>7. ASSUME NEW w \in Works, LateBusy(w)
      PROVE  Answers'
  BY <1>7 DEF LateBusy, Goto, Answer, CallerInv, Waiting, Answers,
     RefusedNeverRuns, ReplyIsOutcome, StartedUnlessStopped, TypeOK, States,
     Outcomes, PCs, Replies, workVars, callerVars, mainVars
<1>8. ASSUME NEW w \in Works, LateFinished(w)
      PROVE  Answers'
  BY <1>8 DEF LateFinished, Goto, CallerInv, Waiting, Answers, RefusedNeverRuns,
     ReplyIsOutcome, StartedUnlessStopped, TypeOK, States, Outcomes, PCs,
     Replies, workVars, callerVars, mainVars
<1>9. ASSUME NEW w \in Works, Collect(w)
      PROVE  Answers'
  BY <1>9 DEF Collect, Goto, Answer, CallerInv, Waiting, Answers,
     RefusedNeverRuns, ReplyIsOutcome, StartedUnlessStopped, TypeOK, States,
     Outcomes, PCs, Replies, workVars, callerVars, mainVars
<1>10. ASSUME NEW w \in Works, Post(w)
      PROVE  Answers'
  BY <1>10 DEF Post, Goto, Enqueue, CallerInv, Waiting, Answers,
     RefusedNeverRuns, ReplyIsOutcome, StartedUnlessStopped, TypeOK, States,
     Outcomes, PCs, Replies, workVars, callerVars, mainVars
<1>11. ASSUME NEW w \in Works, MarkLongStep(w)
      PROVE  Answers'
  BY <1>11 DEF MarkLongStep, CallerInv, Waiting, Answers, RefusedNeverRuns,
     ReplyIsOutcome, StartedUnlessStopped, TypeOK, States, Outcomes, PCs,
     Replies, workVars, callerVars, mainVars
<1>12. ASSUME NEW w \in Works, NEW o \in {"result", "interrupt"}, FinishFn(w, o)
      PROVE  Answers'
  BY <1>12 DEF FinishFn, CallerInv, Waiting, Answers, RefusedNeverRuns,
     ReplyIsOutcome, StartedUnlessStopped, TypeOK, States, Outcomes, PCs,
     Replies, workVars, callerVars, mainVars
<1>13. ASSUME NEW w \in Works, SetDone(w)
      PROVE  Answers'
  BY <1>13 DEF SetDone, CallerInv, Waiting, Answers, RefusedNeverRuns,
     ReplyIsOutcome, StartedUnlessStopped, TypeOK, States, Outcomes, PCs,
     Replies, workVars, callerVars, mainVars
<1>14. ASSUME Shutdown
      PROVE  Answers'
  BY <1>14 DEF Shutdown, CallerInv, Waiting, Answers, RefusedNeverRuns,
     ReplyIsOutcome, StartedUnlessStopped, TypeOK, States, Outcomes, PCs,
     Replies, workVars, callerVars, mainVars
<1>15. ASSUME Start
      PROVE  Answers'
  BY <1>15 DEF Start, CallerInv, Waiting, Answers, RefusedNeverRuns,
     ReplyIsOutcome, StartedUnlessStopped, TypeOK, States, Outcomes, PCs,
     Replies, workVars, callerVars, mainVars
<1>16. ASSUME OnIdle
      PROVE  Answers'
  BY <1>16 DEF OnIdle, CallerInv, Waiting, Answers, RefusedNeverRuns,
     ReplyIsOutcome, StartedUnlessStopped, TypeOK, States, Outcomes, PCs,
     Replies, workVars, callerVars, mainVars
<1>17. ASSUME IdleEnd
      PROVE  Answers'
  BY <1>17 DEF IdleEnd, CallerInv, Waiting, Answers, RefusedNeverRuns,
     ReplyIsOutcome, StartedUnlessStopped, TypeOK, States, Outcomes, PCs,
     Replies, workVars, callerVars, mainVars
<1>18. ASSUME PumpForever
      PROVE  Answers'
  BY <1>18 DEF PumpForever, CallerInv, Waiting, Answers, RefusedNeverRuns,
     ReplyIsOutcome, StartedUnlessStopped, TypeOK, States, Outcomes, PCs,
     Replies, workVars, callerVars, mainVars
<1>19. ASSUME PumpEnd
      PROVE  Answers'
  BY <1>19 DEF PumpEnd, CallerInv, Waiting, Answers, RefusedNeverRuns,
     ReplyIsOutcome, StartedUnlessStopped, TypeOK, States, Outcomes, PCs,
     Replies, workVars, callerVars, mainVars
<1>20. ASSUME Execute
      PROVE  Answers'
  <2>1. Head(queue) \in Works
    BY <1>20, QueueTail DEF Execute, TypeOK
  <2>2. RefusedNeverRuns'
    BY <1>20, <2>1 DEF Execute, Run, Answers, RefusedNeverRuns, CallerInv,
       TypeOK, callerVars
  <2>3. ReplyIsOutcome'
    BY <1>20, <2>1 DEF Execute, Run, Answers, ReplyIsOutcome, CallerInv, TypeOK,
       callerVars
  <2>4. StartedUnlessStopped'
    BY <1>20, <2>1 DEF Execute, Run, Answers, StartedUnlessStopped, CallerInv,
       TypeOK, callerVars
  <2> QED
    BY <2>2, <2>3, <2>4 DEF Answers
<1>21. ASSUME StopCall
      PROVE  Answers'
  BY <1>21 DEF StopCall, CallerInv, Waiting, Answers, RefusedNeverRuns,
     ReplyIsOutcome, StartedUnlessStopped, TypeOK, States, Outcomes, PCs,
     Replies, workVars, callerVars, mainVars
<1>22. ASSUME StopDrain
      PROVE  Answers'
  <2>1. Head(queue) \in Works
    BY <1>22, QueueTail DEF StopDrain, TypeOK
  <2>2. RefusedNeverRuns'
    BY <1>22, <2>1 DEF StopDrain, Answers, RefusedNeverRuns, CallerInv, TypeOK,
       callerVars
  <2>3. ReplyIsOutcome'
    BY <1>22, <2>1 DEF StopDrain, Answers, ReplyIsOutcome, CallerInv, TypeOK,
       callerVars
  <2>4. StartedUnlessStopped'
    BY <1>22, <2>1 DEF StopDrain, Answers, StartedUnlessStopped, CallerInv,
       TypeOK, callerVars
  <2> QED
    BY <2>2, <2>3, <2>4 DEF Answers
<1>23. ASSUME StopReturn
      PROVE  Answers'
  BY <1>23 DEF StopReturn, CallerInv, Waiting, Answers, RefusedNeverRuns,
     ReplyIsOutcome, StartedUnlessStopped, TypeOK, States, Outcomes, PCs,
     Replies, workVars, callerVars, mainVars
<1>24. ASSUME ExitStopped
      PROVE  Answers'
  BY <1>24 DEF ExitStopped, CallerInv, Waiting, Answers, RefusedNeverRuns,
     ReplyIsOutcome, StartedUnlessStopped, TypeOK, States, Outcomes, PCs,
     Replies, workVars, callerVars, mainVars
<1>25. ASSUME Finished
      PROVE  Answers'
  BY <1>25 DEF Finished, vars, CallerInv, Waiting, Answers, RefusedNeverRuns,
     ReplyIsOutcome, StartedUnlessStopped, TypeOK, States, Outcomes, PCs,
     Replies, workVars, callerVars, mainVars
<1>26. ASSUME UNCHANGED vars
      PROVE  Answers'
  BY <1>26 DEF vars, CallerInv, Waiting, Answers, RefusedNeverRuns,
     ReplyIsOutcome, StartedUnlessStopped, TypeOK, States, Outcomes, PCs,
     Replies, workVars, callerVars, mainVars
<1> QED
  BY <1>1, <1>2, <1>3, <1>4, <1>5, <1>6, <1>7, <1>8, <1>9, <1>10, <1>11, <1>12,
     <1>13, <1>14, <1>15, <1>16, <1>17, <1>18, <1>19, <1>20, <1>21, <1>22,
     <1>23, <1>24, <1>25, <1>26 DEF Next, Caller, Main, Pump

-----------------------------------------------------------------------------
(* Where the main thread is while a callable is on its stack. *)

LEMMA MainStep ==
  TypeOK /\ CallerInv /\ MainInv /\ [Next]_vars => MainInv'
<1> SUFFICES ASSUME TypeOK, CallerInv, MainInv, [Next]_vars PROVE MainInv'
  OBVIOUS
<1> USE ExecutorAssumption
<1>1. ASSUME NEW w \in Works, NEW k \in {"run", "adoptable"}, Submit(w, k)
      PROVE  MainInv'
  BY <1>1 DEF Submit, Goto, Answer, MainInv, InFn, CallerInv, TypeOK, MainPCs,
     workVars, callerVars, mainVars
<1>2. ASSUME NEW w \in Works, Put(w)
      PROVE  MainInv'
  BY <1>2 DEF Put, Goto, Enqueue, MainInv, InFn, CallerInv, TypeOK, MainPCs,
     workVars, callerVars, mainVars
<1>3. ASSUME NEW w \in Works, WaitDone(w)
      PROVE  MainInv'
  BY <1>3 DEF WaitDone, Answer, MainInv, InFn, CallerInv, TypeOK, MainPCs,
     workVars, callerVars, mainVars
<1>4. ASSUME NEW w \in Works, WaitTimeout(w)
      PROVE  MainInv'
  BY <1>4 DEF WaitTimeout, Goto, MainInv, InFn, CallerInv, TypeOK, MainPCs,
     workVars, callerVars, mainVars
<1>5. ASSUME NEW w \in Works, AdoptCheck(w)
      PROVE  MainInv'
  BY <1>5 DEF AdoptCheck, Goto, MainInv, InFn, CallerInv, TypeOK, MainPCs,
     workVars, callerVars, mainVars
<1>6. ASSUME NEW w \in Works, LateWithdraw(w)
      PROVE  MainInv'
  BY <1>6 DEF LateWithdraw, Goto, Answer, MainInv, InFn, CallerInv, TypeOK,
     MainPCs, workVars, callerVars, mainVars
<1>7. ASSUME NEW w \in Works, LateBusy(w)
      PROVE  MainInv'
  BY <1>7 DEF LateBusy, Goto, Answer, MainInv, InFn, CallerInv, TypeOK, MainPCs,
     workVars, callerVars, mainVars
<1>8. ASSUME NEW w \in Works, LateFinished(w)
      PROVE  MainInv'
  BY <1>8 DEF LateFinished, Goto, MainInv, InFn, CallerInv, TypeOK, MainPCs,
     workVars, callerVars, mainVars
<1>9. ASSUME NEW w \in Works, Collect(w)
      PROVE  MainInv'
  BY <1>9 DEF Collect, Goto, Answer, MainInv, InFn, CallerInv, TypeOK, MainPCs,
     workVars, callerVars, mainVars
<1>10. ASSUME NEW w \in Works, Post(w)
      PROVE  MainInv'
  BY <1>10 DEF Post, Goto, Enqueue, MainInv, InFn, CallerInv, TypeOK, MainPCs,
     workVars, callerVars, mainVars
<1>11. ASSUME NEW w \in Works, MarkLongStep(w)
      PROVE  MainInv'
  BY <1>11 DEF MarkLongStep, MainInv, InFn, CallerInv, TypeOK, MainPCs,
     workVars, callerVars, mainVars
<1>12. ASSUME NEW w \in Works, NEW o \in {"result", "interrupt"}, FinishFn(w, o)
      PROVE  MainInv'
  BY <1>12 DEF FinishFn, MainInv, InFn, CallerInv, TypeOK, MainPCs, workVars,
     callerVars, mainVars
<1>13. ASSUME NEW w \in Works, SetDone(w)
      PROVE  MainInv'
  BY <1>13 DEF SetDone, MainInv, InFn, CallerInv, TypeOK, MainPCs, workVars,
     callerVars, mainVars
<1>14. ASSUME Shutdown
      PROVE  MainInv'
  BY <1>14 DEF Shutdown, MainInv, InFn, CallerInv, TypeOK, MainPCs, workVars,
     callerVars, mainVars
<1>15. ASSUME Start
      PROVE  MainInv'
  BY <1>15 DEF Start, MainInv, InFn, CallerInv, TypeOK, MainPCs, workVars,
     callerVars, mainVars
<1>16. ASSUME OnIdle
      PROVE  MainInv'
  BY <1>16 DEF OnIdle, MainInv, InFn, CallerInv, TypeOK, MainPCs, workVars,
     callerVars, mainVars
<1>17. ASSUME IdleEnd
      PROVE  MainInv'
  BY <1>17 DEF IdleEnd, MainInv, InFn, CallerInv, TypeOK, MainPCs, workVars,
     callerVars, mainVars
<1>18. ASSUME PumpForever
      PROVE  MainInv'
  BY <1>18 DEF PumpForever, MainInv, InFn, CallerInv, TypeOK, MainPCs, workVars,
     callerVars, mainVars
<1>19. ASSUME PumpEnd
      PROVE  MainInv'
  BY <1>19 DEF PumpEnd, MainInv, InFn, CallerInv, TypeOK, MainPCs, workVars,
     callerVars, mainVars
<1>20. ASSUME Execute
      PROVE  MainInv'
  BY <1>20 DEF Execute, Run, MainInv, InFn, CallerInv, TypeOK, MainPCs,
     workVars, callerVars, mainVars
<1>21. ASSUME StopCall
      PROVE  MainInv'
  BY <1>21 DEF StopCall, MainInv, InFn, CallerInv, TypeOK, MainPCs, workVars,
     callerVars, mainVars
<1>22. ASSUME StopDrain
      PROVE  MainInv'
  BY <1>22 DEF StopDrain, MainInv, InFn, CallerInv, TypeOK, MainPCs, workVars,
     callerVars, mainVars
<1>23. ASSUME StopReturn
      PROVE  MainInv'
  BY <1>23 DEF StopReturn, MainInv, InFn, CallerInv, TypeOK, MainPCs, workVars,
     callerVars, mainVars
<1>24. ASSUME ExitStopped
      PROVE  MainInv'
  BY <1>24 DEF ExitStopped, MainInv, InFn, CallerInv, TypeOK, MainPCs, workVars,
     callerVars, mainVars
<1>25. ASSUME Finished
      PROVE  MainInv'
  BY <1>25 DEF Finished, vars, MainInv, InFn, CallerInv, TypeOK, MainPCs,
     workVars, callerVars, mainVars
<1>26. ASSUME UNCHANGED vars
      PROVE  MainInv'
  BY <1>26 DEF vars, MainInv, InFn, CallerInv, TypeOK, MainPCs, workVars,
     callerVars, mainVars
<1> QED
  BY <1>1, <1>2, <1>3, <1>4, <1>5, <1>6, <1>7, <1>8, <1>9, <1>10, <1>11, <1>12,
     <1>13, <1>14, <1>15, <1>16, <1>17, <1>18, <1>19, <1>20, <1>21, <1>22,
     <1>23, <1>24, <1>25, <1>26 DEF Next, Caller, Main, Pump

-----------------------------------------------------------------------------
(* The inductive invariant and what follows from it. *)

LEMMA InitInv == Init => IInv
<1> SUFFICES ASSUME Init PROVE IInv
  OBVIOUS
<1>1. TypeOK
  BY TypeInit
<1>2. CallerInv
  BY DEF Init, CallerInv, Waiting
<1>3. MainInv
  BY DEF Init, MainInv, InFn
<1>4. Answers
  BY DEF Init, Answers, RefusedNeverRuns, ReplyIsOutcome, StartedUnlessStopped
<1> QED
  BY <1>1, <1>2, <1>3, <1>4 DEF IInv

LEMMA StepInv == IInv /\ [Next]_vars => IInv'
  BY TypeStep, CallerStep, AnswersStep, MainStep DEF IInv

THEOREM Invariance == Spec => []IInv
<1>1. Init => IInv
  BY InitInv
<1>2. IInv /\ [Next]_vars => IInv'
  BY StepInv
<1> QED
  BY <1>1, <1>2, PTL DEF Spec

\* The main thread executes one callable at a time, nested event loops included.
THEOREM Serialised == Spec => []OneAtATime
<1>1. IInv => OneAtATime
  BY DEF IInv, MainInv, OneAtATime
<1> QED
  BY <1>1, Invariance, PTL

\* A caller told that its call had no effect is right for ever.
THEOREM NoEffectIsTrue == Spec => []RefusedNeverRuns
<1>1. IInv => RefusedNeverRuns
  BY DEF IInv, Answers
<1> QED
  BY <1>1, Invariance, PTL

\* A caller gets the outcome of its own callable.
THEOREM OutcomeIsTrue == Spec => []ReplyIsOutcome
<1>1. IInv => ReplyIsOutcome
  BY DEF IInv, Answers
<1> QED
  BY <1>1, Invariance, PTL

\* "Started" is wrong only of a call that stop() failed.
THEOREM StartedIsTrue == Spec => []StartedUnlessStopped
<1>1. IInv => StartedUnlessStopped
  BY DEF IInv, Answers
<1> QED
  BY <1>1, Invariance, PTL

-----------------------------------------------------------------------------
(* The executor implements CallOnce: a step of the executor that does not  *)
(* change the mapped state is a stuttering step; the others are a Begin,   *)
(* an End or a Reply of one call.                                          *)

\* A step that leaves the mapped state of every call alone.
LEMMA Stutters ==
  ASSUME \A w \in Works : Effect(w)' = Effect(w) /\ AnswerTo(w)' = AnswerTo(w)
  PROVE  UNCHANGED Calls!vars
  BY DEF Calls!vars

\* A step that answers one call.
LEMMA Replies1 ==
  ASSUME NEW w \in Works, NEW a \in {"result", "no_effect", "unknown"},
         AnswerTo(w) = "none", AnswerTo(w)' = a,
         \A v \in Works : Effect(v)' = Effect(v),
         \A v \in Works \ {w} : AnswerTo(v)' = AnswerTo(v),
         a = "result" => Effect(w) = "did",
         a = "no_effect" => Effect(w) = "none",
         a = "unknown" => Effect(w) \in {"none", "doing"}
  PROVE  Calls!Next
<1>1. Calls!Reply(w, a)
  BY DEF Calls!Reply
<1> QED
  BY <1>1 DEF Calls!Next

\* A step that begins one call.
LEMMA Begins ==
  ASSUME NEW w \in Works,
         Effect(w) = "none", Effect(w)' = "doing", AnswerTo(w) = "none",
         \A v \in Works : Effect(v) # "doing",
         \A v \in Works : AnswerTo(v)' = AnswerTo(v),
         \A v \in Works \ {w} : Effect(v)' = Effect(v)
  PROVE  Calls!Next
<1>1. Calls!Begin(w)
  BY DEF Calls!Begin
<1> QED
  BY <1>1 DEF Calls!Next

\* A step that ends one call.
LEMMA Ends ==
  ASSUME NEW w \in Works,
         Effect(w) = "doing", Effect(w)' = "did",
         \A v \in Works : AnswerTo(v)' = AnswerTo(v),
         \A v \in Works \ {w} : Effect(v)' = Effect(v)
  PROVE  Calls!Next
<1>1. Calls!End(w)
  BY DEF Calls!End
<1> QED
  BY <1>1 DEF Calls!Next

\* Steps that touch neither a state nor a reply.
LEMMA StuttersUnchanged ==
  ASSUME UNCHANGED <<state, reply>> PROVE UNCHANGED Calls!vars
<1>1. \A w \in Works : Effect(w)' = Effect(w) /\ AnswerTo(w)' = AnswerTo(w)
  BY DEF Effect, AnswerTo
<1> QED
  BY <1>1, Stutters

LEMMA RefinementInit == Init => Calls!Init
  BY DEF Init, Calls!Init, Effect, AnswerTo

LEMMA RefinementStep == IInv /\ [Next]_vars => [Calls!Next]_(Calls!vars)
<1> SUFFICES ASSUME IInv, [Next]_vars PROVE Calls!Next \/ UNCHANGED Calls!vars
  OBVIOUS
<1> USE DEF IInv
<1> DEFINE Goal == Calls!Next \/ UNCHANGED Calls!vars
<1>1. ASSUME NEW w \in Works, NEW k \in {"run", "adoptable"}, Submit(w, k)
      PROVE  Goal
  <2>1. CASE running
    BY <1>1, <2>1, StuttersUnchanged DEF Submit, workVars
  <2>2. CASE ~running
    <3>1. /\ AnswerTo(w) = "none" /\ AnswerTo(w)' = "no_effect"
          /\ Effect(w) = "none"
          /\ \A v \in Works : Effect(v)' = Effect(v)
          /\ \A v \in Works \ {w} : AnswerTo(v)' = AnswerTo(v)
      BY <1>1, <2>2 DEF Submit, Goto, Answer, Effect, AnswerTo, CallerInv, TypeOK,
         workVars
    <3> QED
      BY <3>1, Replies1
  <2> QED
    BY <2>1, <2>2
<1>2. ASSUME NEW w \in Works, Put(w) \/ Post(w)
      PROVE  Goal
  <2>1. \A v \in Works : Effect(v)' = Effect(v) /\ AnswerTo(v)' = AnswerTo(v)
    BY <1>2 DEF Put, Post, Goto, Enqueue, Effect, AnswerTo, CallerInv, TypeOK
  <2> QED
    BY <2>1, Stutters
<1>3. ASSUME NEW w \in Works, WaitDone(w)
      PROVE  Goal
  <2>1. /\ AnswerTo(w) = "none"
        /\ \A v \in Works : Effect(v)' = Effect(v)
        /\ \A v \in Works \ {w} : AnswerTo(v)' = AnswerTo(v)
    BY <1>3 DEF WaitDone, Answer, Effect, AnswerTo, CallerInv, TypeOK, workVars
  <2>2. CASE state[w] = "done"
    <3>1. AnswerTo(w)' = "result" /\ Effect(w) = "did"
      BY <1>3, <2>2 DEF WaitDone, Answer, Effect, AnswerTo, CallerInv, TypeOK
    <3> QED
      BY <2>1, <3>1, Replies1
  <2>3. CASE state[w] = "cancelled"
    <3>1. AnswerTo(w)' = "no_effect" /\ Effect(w) = "none"
      BY <1>3, <2>3 DEF WaitDone, Answer, Effect, AnswerTo, CallerInv, TypeOK
    <3> QED
      BY <2>1, <3>1, Replies1
  <2> QED
    BY <1>3, <2>2, <2>3 DEF WaitDone, CallerInv
<1>4. ASSUME NEW w \in Works, LateWithdraw(w)
      PROVE  Goal
  <2>1. /\ AnswerTo(w) = "none" /\ AnswerTo(w)' = "no_effect"
        /\ Effect(w) = "none"
        /\ \A v \in Works : Effect(v)' = Effect(v)
        /\ \A v \in Works \ {w} : AnswerTo(v)' = AnswerTo(v)
    BY <1>4 DEF LateWithdraw, Goto, Answer, Effect, AnswerTo, CallerInv, TypeOK
  <2> QED
    BY <2>1, Replies1
<1>5. ASSUME NEW w \in Works, LateBusy(w)
      PROVE  Goal
  <2>1. /\ AnswerTo(w) = "none" /\ AnswerTo(w)' = "unknown"
        /\ Effect(w) \in {"none", "doing"}
        /\ \A v \in Works : Effect(v)' = Effect(v)
        /\ \A v \in Works \ {w} : AnswerTo(v)' = AnswerTo(v)
    BY <1>5 DEF LateBusy, Goto, Answer, Effect, AnswerTo, CallerInv, TypeOK, workVars
  <2> QED
    BY <2>1, Replies1
<1>6. ASSUME NEW w \in Works, Collect(w)
      PROVE  Goal
  <2>1. state[w] = "done" /\ outcome[w] \in {"result", "interrupt"}
    BY <1>6 DEF Collect, Goto, CallerInv
  <2>2. /\ AnswerTo(w) = "none" /\ AnswerTo(w)' = "result"
        /\ Effect(w) = "did"
        /\ \A v \in Works : Effect(v)' = Effect(v)
        /\ \A v \in Works \ {w} : AnswerTo(v)' = AnswerTo(v)
    BY <1>6, <2>1 DEF Collect, Goto, Answer, Effect, AnswerTo, CallerInv, TypeOK,
       workVars
  <2> QED
    BY <2>2, Replies1
<1>7. ASSUME Execute
      PROVE  Goal
  <2>1. PICK w \in Works : w = Head(queue)
    BY <1>7, QueueTail DEF Execute, TypeOK
  <2>2. CASE state[w] # "pending"
    BY <1>7, <2>1, <2>2, StuttersUnchanged DEF Execute, Run, callerVars
  <2>3. CASE state[w] = "pending"
    <3>1. \A v \in Works : Effect(v) # "doing"
      BY <1>7 DEF Execute, MainInv, InFn, Effect, TypeOK
    <3>2. state' = [state EXCEPT ![w] = "running"] /\ reply' = reply
      BY <1>7, <2>1, <2>3 DEF Execute, Run, callerVars
    <3>3. /\ Effect(w) = "none" /\ Effect(w)' = "doing" /\ AnswerTo(w) = "none"
          /\ \A v \in Works : AnswerTo(v)' = AnswerTo(v)
          /\ \A v \in Works \ {w} : Effect(v)' = Effect(v)
      BY <2>1, <2>3, <3>2 DEF Effect, AnswerTo, CallerInv, TypeOK
    <3> QED
      BY <2>1, <3>1, <3>3, Begins
  <2> QED
    BY <2>2, <2>3
<1>8. ASSUME NEW w \in Works, NEW o \in {"result", "interrupt"}, FinishFn(w, o)
      PROVE  Goal
  <2>1. /\ Effect(w) = "doing" /\ Effect(w)' = "did"
        /\ \A v \in Works : AnswerTo(v)' = AnswerTo(v)
        /\ \A v \in Works \ {w} : Effect(v)' = Effect(v)
    BY <1>8 DEF FinishFn, Effect, AnswerTo, TypeOK, callerVars
  <2> QED
    BY <2>1, Ends
<1>9. ASSUME StopDrain
      PROVE  Goal
  <2>1. Head(queue) \in Works
    BY <1>9, QueueTail DEF StopDrain, TypeOK
  <2>2. \A v \in Works : Effect(v)' = Effect(v) /\ AnswerTo(v)' = AnswerTo(v)
    BY <1>9, <2>1 DEF StopDrain, Effect, AnswerTo, TypeOK, callerVars
  <2> QED
    BY <2>2, Stutters
<1>10. ASSUME NEW w \in Works,
              \/ WaitTimeout(w) \/ AdoptCheck(w) \/ LateFinished(w)
              \/ MarkLongStep(w) \/ SetDone(w)
       PROVE  Goal
  BY <1>10, StuttersUnchanged DEF WaitTimeout, AdoptCheck, LateFinished,
     MarkLongStep, SetDone, workVars, callerVars
<1>11. ASSUME \/ Shutdown \/ Start \/ OnIdle \/ IdleEnd \/ PumpForever \/ PumpEnd
              \/ StopCall \/ StopReturn \/ ExitStopped \/ Finished \/ UNCHANGED vars
       PROVE  Goal
  BY <1>11, StuttersUnchanged DEF Shutdown, Start, OnIdle, IdleEnd, PumpForever,
     PumpEnd, StopCall, StopReturn, ExitStopped, Finished, vars, workVars,
     callerVars
<1> QED
  BY <1>1, <1>2, <1>3, <1>4, <1>5, <1>6, <1>7, <1>8, <1>9, <1>10, <1>11
  DEF Next, Caller, Main, Pump

\* Each call takes effect at most once, alone, and never after its answer.
THEOREM Refinement == Spec => ImplementsCallOnce
<1>1. Init => Calls!Init
  BY RefinementInit
<1>2. IInv /\ [Next]_vars => [Calls!Next]_(Calls!vars)
  BY RefinementStep
<1> QED
  BY <1>1, <1>2, Invariance, PTL DEF Spec, Calls!Spec, ImplementsCallOnce

=============================================================================
