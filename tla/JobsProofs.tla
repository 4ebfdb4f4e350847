----------------------------- MODULE JobsProofs -----------------------------
(***************************************************************************)
(* Proofs about the jobs for any set of jobs, any size of the registry and *)
(* any number of steps.  IInv is the inductive invariant, one part for     *)
(* each thread that touches a job: what the place of its runner says of    *)
(* its fields (RunnerInv), which jobs the registry may have lost           *)
(* (RegistryInv), who may ask it to stop (CancelInv) and what a reader has *)
(* seen of it (ReadInv).                                                   *)
(*                                                                         *)
(* And about what two kinds of jobs do.  CapturesInv, of the looks: which  *)
(* child is whose (ChildInv), where a look is in its chain and why         *)
(* (ChainInv), what a child and a picture have of the scene (SceneInv).    *)
(* RendersInv, of renders and ranged cooks: which steps outlast their wait *)
(* or were posted (StepsFit), what a job knows of what it borrowed         *)
(* (TaskFits), whose the parm is (ParmInv) and the playbar (FrameInv).     *)
(***************************************************************************)
EXTENDS Jobs, Captures, Renders, FiniteSetTheorems, TLAPS

\* The jobs that were started.
Called == {j \in Jobs : caller[j] # "idle"}

\* Every step is counted, if the job counts steps.
Counted(j) == Polls(tool[j]) => current[j] = Total

RunnerInv ==
  \A j \in Jobs :
    /\ state[j] = "none" <=> caller[j] = "idle"
    /\ caller[j] \in {"idle", "registered"} => runner[j] = "none"
    /\ runner[j] \in {"none", "body", "returned", "store", "publish", "raised"} =>
         state[j] \in {"none", "running"}
    /\ runner[j] \in {"record", "finish", "ended"} => state[j] \in Final
    /\ runner[j] = "publish" => result[j] /\ Counted(j)
    /\ state[j] = "done" => result[j] /\ Counted(j)
    /\ runner[j] = "record" => state[j] \in {"failed", "cancelled"}
    /\ error[j] => state[j] \in {"failed", "cancelled"}
    /\ doneEvent[j] => runner[j] = "ended"
    /\ caller[j] # "answered" => answer[j] = "none"
    /\ answer[j] = "result" => state[j] = "done"
    /\ answer[j] \in {"error", "internal"} => state[j] \in {"failed", "cancelled"}

RegistryInv ==
  /\ RunningIsFound
  /\ registry \subseteq Called
  /\ \A j \in Called \ registry :
       answer[j] \in {"none", "job_id"} => Cardinality(Called) > Keep

CancelInv ==
  /\ sweep \subseteq Called
  /\ sweep # {} => stopping
  /\ \A j \in Jobs :
       /\ caller[j] = "idle" =>
            ~cancelEvent[j] /\ canceller[j] = "idle" /\ reader[j] = "idle"
       /\ canceller[j] = "accepted" => Cancellable(tool[j])
       /\ canceller[j] = "idle" => cancelReply[j] = "none"
       /\ tool[j] = "press" /\ cancelEvent[j] => stopping
       /\ tool[j] = "press" => exc[j] # "cancelled"
       /\ caller[j] = "idle" => exc[j] = "none"
  /\ CancelRefusedIsTrue
  /\ PressIsFollowed

ReadInv ==
  \A j \in Jobs :
    /\ reader[j] = "idle" => seen[j].state = "none"
    /\ seen[j].state = "done" => state[j] = "done"
    /\ reader[j] \in {"fields", "read"} /\ seen[j].state = "done" =>
         (Polls(tool[j]) => seen[j].current = Total)
    /\ reader[j] = "read" /\ seen[j].state = "done" => seen[j].result

IInv == TypeOK /\ RunnerInv /\ RegistryInv /\ CancelInv /\ ReadInv

-----------------------------------------------------------------------------
(* The type invariant. *)

LEMMA TypeStep == TypeOK /\ [Next]_vars => TypeOK'
<1> SUFFICES ASSUME TypeOK, [Next]_vars PROVE TypeOK'
  OBVIOUS
<1> USE JobsAssumption
<1>1. ASSUME NEW j \in Jobs, NEW t \in Tools, Register(j, t)
      PROVE  TypeOK'
  BY <1>1 DEF Register, TypeOK, AllTools, States, Final, Exceptions, RunnerPCs,
     CallerPCs, Answers, CancelPCs, CancelReplies, ReadPCs, jobVars, runnerVars,
     callerVars, cancelVars, readVars, regVars, hostVars
<1>2. ASSUME NEW j \in Jobs, StartThread(j)
      PROVE  TypeOK'
  <2>1. CASE tool[j] = "press"
    BY <1>2, <2>1 DEF StartThread, Answer, TypeOK, RunnerPCs, CallerPCs, Answers,
       jobVars, runnerVars, callerVars, cancelVars, readVars, regVars, hostVars
  <2>2. CASE tool[j] # "press"
    BY <1>2, <2>2 DEF StartThread, Answer, TypeOK, RunnerPCs, CallerPCs, Answers,
       jobVars, runnerVars, callerVars, cancelVars, readVars, regVars, hostVars
  <2> QED
    BY <2>1, <2>2
<1>3. ASSUME NEW j \in Jobs, CookEnded(j)
      PROVE  TypeOK'
  BY <1>3 DEF CookEnded, Discard, Answer, TypeOK, AllTools, States, Final,
     Exceptions, RunnerPCs, CallerPCs, Answers, CancelPCs, CancelReplies,
     ReadPCs, jobVars, runnerVars, callerVars, cancelVars, readVars, regVars,
     hostVars
<1>4. ASSUME NEW j \in Jobs, CookHandsOut(j)
      PROVE  TypeOK'
  BY <1>4 DEF CookHandsOut, Answer, TypeOK, AllTools, States, Final, Exceptions,
     RunnerPCs, CallerPCs, Answers, CancelPCs, CancelReplies, ReadPCs, jobVars,
     runnerVars, callerVars, cancelVars, readVars, regVars, hostVars
<1>5. ASSUME NEW j \in Jobs, StopWaiting(j)
      PROVE  TypeOK'
  BY <1>5 DEF StopWaiting, TypeOK, AllTools, States, Final, Exceptions, RunnerPCs,
     CallerPCs, Answers, CancelPCs, CancelReplies, ReadPCs, jobVars, runnerVars,
     callerVars, cancelVars, readVars, regVars, hostVars
<1>6. ASSUME NEW j \in Jobs, AnswerDone(j)
      PROVE  TypeOK'
  BY <1>6 DEF AnswerDone, Discard, Answer, TypeOK, AllTools, States, Final,
     Exceptions, RunnerPCs, CallerPCs, Answers, CancelPCs, CancelReplies,
     ReadPCs, jobVars, runnerVars, callerVars, cancelVars, readVars, regVars,
     hostVars
<1>7. ASSUME NEW j \in Jobs, NotDone(j)
      PROVE  TypeOK'
  BY <1>7 DEF NotDone, TypeOK, AllTools, States, Final, Exceptions, RunnerPCs,
     CallerPCs, Answers, CancelPCs, CancelReplies, ReadPCs, jobVars, runnerVars,
     callerVars, cancelVars, readVars, regVars, hostVars
<1>8. ASSUME NEW j \in Jobs, AnswerError(j)
      PROVE  TypeOK'
  BY <1>8 DEF AnswerError, Discard, Answer, TypeOK, AllTools, States, Final,
     Exceptions, RunnerPCs, CallerPCs, Answers, CancelPCs, CancelReplies,
     ReadPCs, jobVars, runnerVars, callerVars, cancelVars, readVars, regVars,
     hostVars
<1>9. ASSUME NEW j \in Jobs, AnswerStatus(j)
      PROVE  TypeOK'
  BY <1>9 DEF AnswerStatus, Answer, TypeOK, AllTools, States, Final, Exceptions,
     RunnerPCs, CallerPCs, Answers, CancelPCs, CancelReplies, ReadPCs, jobVars,
     runnerVars, callerVars, cancelVars, readVars, regVars, hostVars
<1>10. ASSUME NEW j \in Jobs, Interrupted(j)
      PROVE  TypeOK'
  BY <1>10 DEF Interrupted, RunnerGoes, TypeOK, AllTools, States, Final, Exceptions,
     RunnerPCs, CallerPCs, Answers, CancelPCs, CancelReplies, ReadPCs, jobVars,
     runnerVars, callerVars, cancelVars, readVars, regVars, hostVars
<1>11. ASSUME NEW j \in Jobs, Step(j)
      PROVE  TypeOK'
  BY <1>11 DEF Step, TypeOK, AllTools, States, Final, Exceptions, RunnerPCs,
     CallerPCs, Answers, CancelPCs, CancelReplies, ReadPCs, jobVars, runnerVars,
     callerVars, cancelVars, readVars, regVars, hostVars
<1>12. ASSUME NEW j \in Jobs, Return(j)
      PROVE  TypeOK'
  BY <1>12 DEF Return, RunnerGoes, TypeOK, AllTools, States, Final, Exceptions,
     RunnerPCs, CallerPCs, Answers, CancelPCs, CancelReplies, ReadPCs, jobVars,
     runnerVars, callerVars, cancelVars, readVars, regVars, hostVars
<1>13. ASSUME NEW j \in Jobs, Raise(j)
      PROVE  TypeOK'
  BY <1>13 DEF Raise, RunnerGoes, TypeOK, AllTools, States, Final, Exceptions,
     RunnerPCs, CallerPCs, Answers, CancelPCs, CancelReplies, ReadPCs, jobVars,
     runnerVars, callerVars, cancelVars, readVars, regVars, hostVars
<1>14. ASSUME NEW j \in Jobs, EndCancelled(j)
      PROVE  TypeOK'
  BY <1>14 DEF EndCancelled, RunnerGoes, TypeOK, AllTools, States, Final,
     Exceptions, RunnerPCs, CallerPCs, Answers, CancelPCs, CancelReplies,
     ReadPCs, jobVars, runnerVars, callerVars, cancelVars, readVars, regVars,
     hostVars
<1>15. ASSUME NEW j \in Jobs, NotCancelled(j)
      PROVE  TypeOK'
  BY <1>15 DEF NotCancelled, RunnerGoes, TypeOK, AllTools, States, Final,
     Exceptions, RunnerPCs, CallerPCs, Answers, CancelPCs, CancelReplies,
     ReadPCs, jobVars, runnerVars, callerVars, cancelVars, readVars, regVars,
     hostVars
<1>16. ASSUME NEW j \in Jobs, Store(j)
      PROVE  TypeOK'
  BY <1>16 DEF Store, RunnerGoes, TypeOK, AllTools, States, Final, Exceptions,
     RunnerPCs, CallerPCs, Answers, CancelPCs, CancelReplies, ReadPCs, jobVars,
     runnerVars, callerVars, cancelVars, readVars, regVars, hostVars
<1>17. ASSUME NEW j \in Jobs, Publish(j)
      PROVE  TypeOK'
  BY <1>17 DEF Publish, RunnerGoes, TypeOK, AllTools, States, Final, Exceptions,
     RunnerPCs, CallerPCs, Answers, CancelPCs, CancelReplies, ReadPCs, jobVars,
     runnerVars, callerVars, cancelVars, readVars, regVars, hostVars
<1>18. ASSUME NEW j \in Jobs, EndFailed(j)
      PROVE  TypeOK'
  BY <1>18 DEF EndFailed, RunnerGoes, TypeOK, AllTools, States, Final, Exceptions,
     RunnerPCs, CallerPCs, Answers, CancelPCs, CancelReplies, ReadPCs, jobVars,
     runnerVars, callerVars, cancelVars, readVars, regVars, hostVars
<1>19. ASSUME NEW j \in Jobs, RecordError(j)
      PROVE  TypeOK'
  BY <1>19 DEF RecordError, RunnerGoes, TypeOK, AllTools, States, Final, Exceptions,
     RunnerPCs, CallerPCs, Answers, CancelPCs, CancelReplies, ReadPCs, jobVars,
     runnerVars, callerVars, cancelVars, readVars, regVars, hostVars
<1>20. ASSUME NEW j \in Jobs, Finish(j)
      PROVE  TypeOK'
  BY <1>20 DEF Finish, RunnerGoes, TypeOK, AllTools, States, Final, Exceptions,
     RunnerPCs, CallerPCs, Answers, CancelPCs, CancelReplies, ReadPCs, jobVars,
     runnerVars, callerVars, cancelVars, readVars, regVars, hostVars
<1>21. ASSUME NEW j \in Jobs, CancelAccepted(j)
      PROVE  TypeOK'
  BY <1>21 DEF CancelAccepted, TypeOK, AllTools, States, Final, Exceptions,
     RunnerPCs, CallerPCs, Answers, CancelPCs, CancelReplies, ReadPCs, jobVars,
     runnerVars, callerVars, cancelVars, readVars, regVars, hostVars
<1>22. ASSUME NEW j \in Jobs, CancelSet(j)
      PROVE  TypeOK'
  BY <1>22 DEF CancelSet, TypeOK, AllTools, States, Final, Exceptions, RunnerPCs,
     CallerPCs, Answers, CancelPCs, CancelReplies, ReadPCs, jobVars, runnerVars,
     callerVars, cancelVars, readVars, regVars, hostVars
<1>23. ASSUME NEW j \in Jobs, CancelRefused(j)
      PROVE  TypeOK'
  BY <1>23 DEF CancelRefused, TypeOK, AllTools, States, Final, Exceptions,
     RunnerPCs, CallerPCs, Answers, CancelPCs, CancelReplies, ReadPCs, jobVars,
     runnerVars, callerVars, cancelVars, readVars, regVars, hostVars
<1>24. ASSUME NEW j \in Jobs, CancelNext(j)
      PROVE  TypeOK'
  BY <1>24 DEF CancelNext, TypeOK, AllTools, States, Final, Exceptions, RunnerPCs,
     CallerPCs, Answers, CancelPCs, CancelReplies, ReadPCs, jobVars, runnerVars,
     callerVars, cancelVars, readVars, regVars, hostVars
<1>25. ASSUME NEW j \in Jobs, ReadState(j)
      PROVE  TypeOK'
  BY <1>25, SMTT(30) DEF ReadState, ReaderGoes, TypeOK, AllTools, States, Final, Exceptions,
     RunnerPCs, CallerPCs, Answers, CancelPCs, CancelReplies, ReadPCs, jobVars,
     runnerVars, callerVars, cancelVars, readVars, regVars, hostVars
<1>26. ASSUME NEW j \in Jobs, ReadFields(j)
      PROVE  TypeOK'
  <2>1. \A k \in Jobs : seen'[k] \in [state : States, current : 0..Total,
                                     error : BOOLEAN, result : BOOLEAN]
    BY <1>26 DEF ReadFields, ReaderGoes, TypeOK
  <2>2. seen' \in [Jobs -> [state : States, current : 0..Total, error : BOOLEAN,
                          result : BOOLEAN]]
    BY <1>26, <2>1 DEF ReadFields, TypeOK
  <2> QED
    BY <1>26, <2>2 DEF ReadFields, ReaderGoes, TypeOK, ReadPCs, jobVars, runnerVars,
       callerVars, cancelVars, regVars, hostVars
<1>27. ASSUME NEW j \in Jobs, ReadResult(j)
      PROVE  TypeOK'
  <2>1. \A k \in Jobs : seen'[k] \in [state : States, current : 0..Total,
                                     error : BOOLEAN, result : BOOLEAN]
    BY <1>27 DEF ReadResult, ReaderGoes, TypeOK
  <2>2. seen' \in [Jobs -> [state : States, current : 0..Total, error : BOOLEAN,
                          result : BOOLEAN]]
    BY <1>27, <2>1 DEF ReadResult, TypeOK
  <2> QED
    BY <1>27, <2>2 DEF ReadResult, ReaderGoes, TypeOK, ReadPCs, jobVars, runnerVars,
       callerVars, cancelVars, regVars, hostVars
<1>28. ASSUME Stop
      PROVE  TypeOK'
  BY <1>28 DEF Stop, TypeOK, AllTools, States, Final, Exceptions, RunnerPCs,
     CallerPCs, Answers, CancelPCs, CancelReplies, ReadPCs, jobVars, runnerVars,
     callerVars, cancelVars, readVars, regVars, hostVars
<1>29. ASSUME StopExecutor
      PROVE  TypeOK'
  BY <1>29 DEF StopExecutor, TypeOK, AllTools, States, Final, Exceptions, RunnerPCs,
     CallerPCs, Answers, CancelPCs, CancelReplies, ReadPCs, jobVars, runnerVars,
     callerVars, cancelVars, readVars, regVars, hostVars
<1>30. ASSUME Finished \/ UNCHANGED vars
      PROVE  TypeOK'
  BY <1>30 DEF Finished, vars, TypeOK, AllTools, States, Final, Exceptions,
     RunnerPCs, CallerPCs, Answers, CancelPCs, CancelReplies, ReadPCs, jobVars,
     runnerVars, callerVars, cancelVars, readVars, regVars, hostVars
<1> QED
  BY <1>1, <1>2, <1>3, <1>4, <1>5, <1>6, <1>7, <1>8, <1>9, <1>10, <1>11,
     <1>12, <1>13, <1>14, <1>15, <1>16, <1>17, <1>18, <1>19, <1>20, <1>21,
     <1>22, <1>23, <1>24, <1>25, <1>26, <1>27, <1>28, <1>29, <1>30 DEF Next,
     Caller, Runner, Wrapup, Canceller, Reader

-----------------------------------------------------------------------------
(* The runner and the fields it writes. *)

LEMMA RunnerStep == TypeOK /\ RunnerInv /\ [Next]_vars => RunnerInv'
<1> SUFFICES ASSUME TypeOK, RunnerInv, [Next]_vars PROVE RunnerInv'
  OBVIOUS
<1>1. ASSUME NEW j \in Jobs, NEW t \in Tools, Register(j, t)
      PROVE  RunnerInv'
  BY <1>1 DEF Register, TypeOK, RunnerInv, Counted, Polls, Final, jobVars,
     runnerVars, callerVars, cancelVars, readVars, regVars, hostVars
<1>2. ASSUME NEW j \in Jobs, StartThread(j)
      PROVE  RunnerInv'
  BY <1>2 DEF StartThread, Answer, TypeOK, RunnerInv, Counted, Polls, Final,
     jobVars, runnerVars, callerVars, cancelVars, readVars, regVars, hostVars
<1>3. ASSUME NEW j \in Jobs, CookEnded(j) \/ CookHandsOut(j) \/ StopWaiting(j) \/
            AnswerDone(j) \/ NotDone(j) \/ AnswerError(j) \/ AnswerStatus(j)
      PROVE  RunnerInv'
  BY <1>3 DEF CookEnded, CookHandsOut, StopWaiting, AnswerDone, NotDone,
     AnswerError, AnswerStatus, Discard, Answer, TypeOK, RunnerInv, Counted,
     Polls, Final, jobVars, runnerVars, callerVars, cancelVars, readVars,
     regVars, hostVars
<1>4. ASSUME NEW j \in Jobs, Interrupted(j) \/ Step(j) \/ Return(j) \/ Raise(j)
      PROVE  RunnerInv'
  BY <1>4 DEF Interrupted, Step, Return, Raise, RunnerGoes, TypeOK, RunnerInv,
     Counted, Polls, Final, jobVars, runnerVars, callerVars, cancelVars,
     readVars, regVars, hostVars
<1>5. ASSUME NEW j \in Jobs, EndCancelled(j) \/ NotCancelled(j) \/ Store(j) \/
            Publish(j) \/ EndFailed(j) \/ RecordError(j) \/ Finish(j)
      PROVE  RunnerInv'
  BY <1>5 DEF EndCancelled, NotCancelled, Store, Publish, EndFailed, RecordError,
     Finish, RunnerGoes, TypeOK, RunnerInv, Counted, Polls, Final, jobVars,
     runnerVars, callerVars, cancelVars, readVars, regVars, hostVars
<1>6. ASSUME NEW j \in Jobs, CancelAccepted(j) \/ CancelSet(j) \/ CancelRefused(j) \/
            CancelNext(j) \/ ReadState(j) \/ ReadFields(j) \/ ReadResult(j)
      PROVE  RunnerInv'
  BY <1>6 DEF CancelAccepted, CancelSet, CancelRefused, CancelNext, ReadState,
     ReadFields, ReadResult, ReaderGoes, TypeOK, RunnerInv, Counted, Polls,
     Final, jobVars, runnerVars, callerVars, cancelVars, readVars, regVars,
     hostVars
<1>7. ASSUME Stop \/ StopExecutor \/ Finished \/ UNCHANGED vars
      PROVE  RunnerInv'
  BY <1>7 DEF Stop, StopExecutor, Finished, vars, TypeOK, RunnerInv, Counted,
     Polls, Final, jobVars, runnerVars, callerVars, cancelVars, readVars,
     regVars, hostVars
<1> QED
  BY <1>1, <1>2, <1>3, <1>4, <1>5, <1>6, <1>7 DEF Next, Caller, Runner,
     Wrapup, Canceller, Reader

-----------------------------------------------------------------------------
(* The registry. *)

LEMMA RegistryStep ==
  TypeOK /\ RunnerInv /\ RegistryInv /\ [Next]_vars => RegistryInv'
<1> SUFFICES ASSUME TypeOK, RunnerInv, RegistryInv, [Next]_vars PROVE RegistryInv'
  OBVIOUS
<1>1. ASSUME NEW j \in Jobs, NEW t \in Tools, Register(j, t)
      PROVE  RegistryInv'
  <2>1. Called' = Called \cup {j} /\ j \notin Called
    BY <1>1 DEF Register, Called, TypeOK
  <2>2. /\ IsFiniteSet(Called')
        /\ Cardinality(Called) \in Nat /\ Cardinality(Called') \in Nat
        /\ Cardinality(Called) <= Cardinality(Called')
    <3>1. IsFiniteSet(Called) /\ IsFiniteSet(Called')
      BY FS_Subset, JobsAssumption DEF Called
    <3> QED
      BY <2>1, <3>1, FS_Subset, FS_CardinalityType
  <2>3. /\ registry \cup {j} \subseteq Called'
        /\ Cardinality(registry \cup {j}) \in Nat
        /\ Cardinality(registry \cup {j}) <= Cardinality(Called')
    <3>1. registry \cup {j} \subseteq Called'
      BY <2>1 DEF RegistryInv
    <3> QED
      BY <3>1, <2>2, FS_Subset, FS_CardinalityType
  <2>4. /\ \A k \in Evicted(registry \cup {j}) : state[k] \in Final
        /\ Evicted(registry \cup {j}) # {} => Cardinality(registry \cup {j}) > Keep
    BY DEF Evicted, Oldest
  <2>5. RunningIsFound'
    BY <1>1, <2>4 DEF Register, RegistryInv, RunningIsFound, TypeOK, Final
  <2>6. (registry \subseteq Called)'
    BY <1>1, <2>3 DEF Register
  <2>7. ASSUME NEW k \in Called' \ registry', answer'[k] \in {"none", "job_id"}
        PROVE  Cardinality(Called') > Keep
    <3>1. k \in Called /\ k # j /\ answer[k] \in {"none", "job_id"}
      BY <1>1, <2>1, <2>7 DEF Register
    <3>2. CASE k \in registry
      <4>1. Evicted(registry \cup {j}) # {}
        BY <1>1, <2>7, <3>1, <3>2 DEF Register
      <4> QED
        BY <2>2, <2>3, <2>4, <4>1, JobsAssumption
    <3>3. CASE k \notin registry
      <4>1. Cardinality(Called) > Keep
        BY <3>1, <3>3 DEF RegistryInv
      <4> QED
        BY <2>2, <4>1, JobsAssumption
    <3> QED
      BY <3>2, <3>3
  <2> QED
    BY <2>5, <2>6, <2>7 DEF RegistryInv
<1>2. ASSUME NEW j \in Jobs, StartThread(j)
      PROVE  RegistryInv'
  <2>1. Called' = Called
    <3>1. \A k \in Jobs : caller'[k] # "idle" <=> caller[k] # "idle"
      BY <1>2 DEF StartThread, Answer, TypeOK
    <3> QED
      BY <3>1 DEF Called
  <2>2. state' = state /\ registry' = registry
    BY <1>2 DEF StartThread, jobVars, regVars
  <2>3. \A k \in Jobs : answer'[k] \in {"none", "job_id"} =>
          answer[k] \in {"none", "job_id"}
    BY <1>2 DEF StartThread, Answer, TypeOK, RunnerInv
  <2> QED
    BY <2>1, <2>2, <2>3 DEF RegistryInv, RunningIsFound, Called
<1>3. ASSUME NEW j \in Jobs, CookEnded(j)
      PROVE  RegistryInv'
  BY <1>3, SMTT(30) DEF CookEnded, Discard, Answer, TypeOK, RunnerInv, RegistryInv,
     RunningIsFound, Called, Final, jobVars, runnerVars, callerVars, cancelVars,
     readVars, regVars, hostVars
<1>4. ASSUME NEW j \in Jobs, CookHandsOut(j)
      PROVE  RegistryInv'
  BY <1>4 DEF CookHandsOut, Answer, TypeOK, RunnerInv, RegistryInv, RunningIsFound,
     Called, Final, jobVars, runnerVars, callerVars, cancelVars, readVars,
     regVars, hostVars
<1>5. ASSUME NEW j \in Jobs, StopWaiting(j)
      PROVE  RegistryInv'
  BY <1>5 DEF StopWaiting, TypeOK, RunnerInv, RegistryInv, RunningIsFound, Called,
     Final, jobVars, runnerVars, callerVars, cancelVars, readVars, regVars,
     hostVars
<1>6. ASSUME NEW j \in Jobs, AnswerDone(j)
      PROVE  RegistryInv'
  BY <1>6, SMTT(60) DEF AnswerDone, Discard, Answer, TypeOK, RunnerInv, RegistryInv,
     RunningIsFound, Called, Final, jobVars, runnerVars, callerVars, cancelVars,
     readVars, regVars, hostVars
<1>7. ASSUME NEW j \in Jobs, NotDone(j)
      PROVE  RegistryInv'
  BY <1>7 DEF NotDone, TypeOK, RunnerInv, RegistryInv, RunningIsFound, Called,
     Final, jobVars, runnerVars, callerVars, cancelVars, readVars, regVars,
     hostVars
<1>8. ASSUME NEW j \in Jobs, AnswerError(j)
      PROVE  RegistryInv'
  BY <1>8, SMTT(120) DEF AnswerError, Discard, Answer, TypeOK, RunnerInv, RegistryInv,
     RunningIsFound, Called, Final, jobVars, runnerVars, callerVars, cancelVars,
     readVars, regVars, hostVars
<1>9. ASSUME NEW j \in Jobs, AnswerStatus(j)
      PROVE  RegistryInv'
  BY <1>9 DEF AnswerStatus, Answer, TypeOK, RunnerInv, RegistryInv, RunningIsFound,
     Called, Final, jobVars, runnerVars, callerVars, cancelVars, readVars,
     regVars, hostVars
<1>10. ASSUME NEW j \in Jobs, Interrupted(j) \/ Step(j) \/ Return(j) \/ Raise(j) \/
            EndCancelled(j) \/ NotCancelled(j) \/ Store(j) \/ Publish(j) \/
            EndFailed(j) \/ RecordError(j) \/ Finish(j)
      PROVE  RegistryInv'
  <2>1. /\ UNCHANGED <<registry, caller, answer>>
        /\ \A k \in Jobs : state'[k] = "running" => state[k] = "running"
    BY <1>10 DEF Interrupted, Step, Return, Raise, EndCancelled, NotCancelled,
       Store, Publish, EndFailed, RecordError, Finish, RunnerGoes, ReaderGoes,
       TypeOK, jobVars, runnerVars, callerVars, cancelVars, readVars, regVars,
       hostVars
  <2> QED
    BY <2>1 DEF RegistryInv, RunningIsFound, Called
<1>11. ASSUME NEW j \in Jobs, CancelAccepted(j) \/ CancelSet(j) \/ CancelRefused(j) \/
            CancelNext(j) \/ ReadState(j) \/ ReadFields(j) \/ ReadResult(j)
      PROVE  RegistryInv'
  <2>1. /\ UNCHANGED <<registry, caller, answer>>
        /\ \A k \in Jobs : state'[k] = "running" => state[k] = "running"
    BY <1>11 DEF CancelAccepted, CancelSet, CancelRefused, CancelNext, ReadState,
       ReadFields, ReadResult, RunnerGoes, ReaderGoes, TypeOK, jobVars,
       runnerVars, callerVars, cancelVars, readVars, regVars, hostVars
  <2> QED
    BY <2>1 DEF RegistryInv, RunningIsFound, Called
<1>12. ASSUME Stop \/ StopExecutor \/ Finished \/ UNCHANGED vars
      PROVE  RegistryInv'
  BY <1>12 DEF Stop, StopExecutor, Finished, vars, TypeOK, RunnerInv, RegistryInv,
     RunningIsFound, Called, Final, jobVars, runnerVars, callerVars, cancelVars,
     readVars, regVars, hostVars
<1> QED
  BY <1>1, <1>2, <1>3, <1>4, <1>5, <1>6, <1>7, <1>8, <1>9, <1>10, <1>11,
     <1>12 DEF Next, Caller, Runner, Wrapup, Canceller, Reader

-----------------------------------------------------------------------------
(* Cancellation. *)

LEMMA CancelStep ==
  TypeOK /\ RunnerInv /\ RegistryInv /\ CancelInv /\ [Next]_vars => CancelInv'
<1> SUFFICES ASSUME TypeOK, RunnerInv, RegistryInv, CancelInv, [Next]_vars
             PROVE  CancelInv'
  OBVIOUS
<1>1. ASSUME NEW j \in Jobs, NEW t \in Tools, Register(j, t)
      PROVE  CancelInv'
  BY <1>1 DEF Register, TypeOK, RunnerInv, RegistryInv, CancelInv, Called,
     CancelRefusedIsTrue, PressIsFollowed, Cancellable, Polls, Final, jobVars,
     runnerVars, callerVars, cancelVars, readVars, regVars, hostVars
<1>2. ASSUME NEW j \in Jobs, StartThread(j)
      PROVE  CancelInv'
  BY <1>2 DEF StartThread, Answer, TypeOK, RunnerInv, RegistryInv, CancelInv,
     Called, CancelRefusedIsTrue, PressIsFollowed, Cancellable, Polls, Final,
     jobVars, runnerVars, callerVars, cancelVars, readVars, regVars, hostVars
<1>3. ASSUME NEW j \in Jobs, CookEnded(j) \/ CookHandsOut(j) \/ StopWaiting(j) \/
            AnswerDone(j) \/ NotDone(j) \/ AnswerError(j) \/ AnswerStatus(j)
      PROVE  CancelInv'
  BY <1>3 DEF CookEnded, CookHandsOut, StopWaiting, AnswerDone, NotDone,
     AnswerError, AnswerStatus, Discard, Answer, TypeOK, RunnerInv, RegistryInv,
     CancelInv, Called, CancelRefusedIsTrue, PressIsFollowed, Cancellable,
     Polls, Final, jobVars, runnerVars, callerVars, cancelVars, readVars,
     regVars, hostVars
<1>4. ASSUME NEW j \in Jobs, Interrupted(j) \/ Step(j) \/ Return(j) \/ Raise(j)
      PROVE  CancelInv'
  BY <1>4 DEF Interrupted, Step, Return, Raise, RunnerGoes, TypeOK, RunnerInv,
     RegistryInv, CancelInv, Called, CancelRefusedIsTrue, PressIsFollowed,
     Cancellable, Polls, Final, jobVars, runnerVars, callerVars, cancelVars,
     readVars, regVars, hostVars
<1>5. ASSUME NEW j \in Jobs, EndCancelled(j)
      PROVE  CancelInv'
  BY <1>5 DEF EndCancelled, RunnerGoes, TypeOK, RunnerInv, RegistryInv, CancelInv,
     Called, CancelRefusedIsTrue, PressIsFollowed, Cancellable, Polls, Final,
     jobVars, runnerVars, callerVars, cancelVars, readVars, regVars, hostVars
<1>6. ASSUME NEW j \in Jobs, NotCancelled(j)
      PROVE  CancelInv'
  BY <1>6 DEF NotCancelled, RunnerGoes, TypeOK, RunnerInv, RegistryInv, CancelInv,
     Called, CancelRefusedIsTrue, PressIsFollowed, Cancellable, Polls, Final,
     jobVars, runnerVars, callerVars, cancelVars, readVars, regVars, hostVars
<1>7. ASSUME NEW j \in Jobs, Store(j)
      PROVE  CancelInv'
  BY <1>7 DEF Store, RunnerGoes, TypeOK, RunnerInv, RegistryInv, CancelInv, Called,
     CancelRefusedIsTrue, PressIsFollowed, Cancellable, Polls, Final, jobVars,
     runnerVars, callerVars, cancelVars, readVars, regVars, hostVars
<1>8. ASSUME NEW j \in Jobs, Publish(j)
      PROVE  CancelInv'
  BY <1>8 DEF Publish, RunnerGoes, TypeOK, RunnerInv, RegistryInv, CancelInv,
     Called, CancelRefusedIsTrue, PressIsFollowed, Cancellable, Polls, Final,
     jobVars, runnerVars, callerVars, cancelVars, readVars, regVars, hostVars
<1>9. ASSUME NEW j \in Jobs, EndFailed(j)
      PROVE  CancelInv'
  BY <1>9 DEF EndFailed, RunnerGoes, TypeOK, RunnerInv, RegistryInv, CancelInv,
     Called, CancelRefusedIsTrue, PressIsFollowed, Cancellable, Polls, Final,
     jobVars, runnerVars, callerVars, cancelVars, readVars, regVars, hostVars
<1>10. ASSUME NEW j \in Jobs, RecordError(j)
      PROVE  CancelInv'
  BY <1>10 DEF RecordError, RunnerGoes, TypeOK, RunnerInv, RegistryInv, CancelInv,
     Called, CancelRefusedIsTrue, PressIsFollowed, Cancellable, Polls, Final,
     jobVars, runnerVars, callerVars, cancelVars, readVars, regVars, hostVars
<1>11. ASSUME NEW j \in Jobs, Finish(j)
      PROVE  CancelInv'
  BY <1>11 DEF Finish, RunnerGoes, TypeOK, RunnerInv, RegistryInv, CancelInv,
     Called, CancelRefusedIsTrue, PressIsFollowed, Cancellable, Polls, Final,
     jobVars, runnerVars, callerVars, cancelVars, readVars, regVars, hostVars
<1>12. ASSUME NEW j \in Jobs, CancelAccepted(j)
      PROVE  CancelInv'
  BY <1>12 DEF CancelAccepted, TypeOK, RunnerInv, RegistryInv, CancelInv, Called,
     CancelRefusedIsTrue, PressIsFollowed, Cancellable, Polls, Final, jobVars,
     runnerVars, callerVars, cancelVars, readVars, regVars, hostVars
<1>13. ASSUME NEW j \in Jobs, CancelSet(j)
      PROVE  CancelInv'
  BY <1>13 DEF CancelSet, TypeOK, RunnerInv, RegistryInv, CancelInv, Called,
     CancelRefusedIsTrue, PressIsFollowed, Cancellable, Polls, Final, jobVars,
     runnerVars, callerVars, cancelVars, readVars, regVars, hostVars
<1>14. ASSUME NEW j \in Jobs, CancelNext(j)
      PROVE  CancelInv'
  BY <1>14 DEF CancelNext, TypeOK, RunnerInv, RegistryInv, CancelInv, Called,
     CancelRefusedIsTrue, PressIsFollowed, Cancellable, Polls, Final, jobVars,
     runnerVars, callerVars, cancelVars, readVars, regVars, hostVars
<1>15. ASSUME NEW j \in Jobs, CancelRefused(j)
      PROVE  CancelInv'
  <2>1. state[j] \in Final \/ ~Cancellable(tool[j])
    BY <1>15 DEF CancelRefused, TypeOK, States, Final, RunnerInv, RegistryInv, Called
  <2> QED
    BY <1>15, <2>1 DEF CancelRefused, TypeOK, RegistryInv, CancelInv, Called,
       CancelRefusedIsTrue, PressIsFollowed, jobVars, runnerVars, callerVars,
       readVars, regVars, hostVars
<1>16. ASSUME NEW j \in Jobs, ReadState(j) \/ ReadFields(j) \/ ReadResult(j)
      PROVE  CancelInv'
  BY <1>16 DEF ReadState, ReadFields, ReadResult, ReaderGoes, TypeOK, RunnerInv,
     RegistryInv, CancelInv, Called, CancelRefusedIsTrue, PressIsFollowed,
     Cancellable, Polls, Final, jobVars, runnerVars, callerVars, cancelVars,
     readVars, regVars, hostVars
<1>17. ASSUME Stop \/ StopExecutor \/ Finished \/ UNCHANGED vars
      PROVE  CancelInv'
  BY <1>17 DEF Stop, StopExecutor, Finished, vars, TypeOK, RunnerInv, RegistryInv,
     CancelInv, Called, CancelRefusedIsTrue, PressIsFollowed, Cancellable,
     Polls, Final, jobVars, runnerVars, callerVars, cancelVars, readVars,
     regVars, hostVars
<1> QED
  BY <1>1, <1>2, <1>3, <1>4, <1>5, <1>6, <1>7, <1>8, <1>9, <1>10, <1>11,
     <1>12, <1>13, <1>14, <1>15, <1>16, <1>17 DEF Next, Caller, Runner, Wrapup,
     Canceller, Reader

-----------------------------------------------------------------------------
(* What a reader sees. *)

LEMMA ReadStep ==
  TypeOK /\ RunnerInv /\ CancelInv /\ ReadInv /\ [Next]_vars => ReadInv'
<1> SUFFICES ASSUME TypeOK, RunnerInv, CancelInv, ReadInv, [Next]_vars
             PROVE  ReadInv'
  OBVIOUS
<1>1. ASSUME NEW j \in Jobs, NEW t \in Tools, Register(j, t)
      PROVE  ReadInv'
  BY <1>1 DEF Register, TypeOK, RunnerInv, CancelInv, ReadInv, Counted, Polls,
     Final, jobVars, runnerVars, callerVars, cancelVars, readVars, regVars,
     hostVars
<1>2. ASSUME NEW j \in Jobs, StartThread(j)
      PROVE  ReadInv'
  BY <1>2 DEF StartThread, Answer, TypeOK, RunnerInv, CancelInv, ReadInv, Counted,
     Polls, Final, jobVars, runnerVars, callerVars, cancelVars, readVars,
     regVars, hostVars
<1>3. ASSUME NEW j \in Jobs, CookEnded(j) \/ CookHandsOut(j) \/ StopWaiting(j) \/
            AnswerDone(j) \/ NotDone(j) \/ AnswerError(j) \/ AnswerStatus(j)
      PROVE  ReadInv'
  BY <1>3 DEF CookEnded, CookHandsOut, StopWaiting, AnswerDone, NotDone,
     AnswerError, AnswerStatus, Discard, Answer, TypeOK, RunnerInv, CancelInv,
     ReadInv, Counted, Polls, Final, jobVars, runnerVars, callerVars,
     cancelVars, readVars, regVars, hostVars
<1>4. ASSUME NEW j \in Jobs, Interrupted(j) \/ Step(j) \/ Return(j) \/ Raise(j)
      PROVE  ReadInv'
  BY <1>4 DEF Interrupted, Step, Return, Raise, RunnerGoes, TypeOK, RunnerInv,
     CancelInv, ReadInv, Counted, Polls, Final, jobVars, runnerVars, callerVars,
     cancelVars, readVars, regVars, hostVars
<1>5. ASSUME NEW j \in Jobs, EndCancelled(j) \/ NotCancelled(j) \/ Store(j) \/
            Publish(j) \/ EndFailed(j) \/ RecordError(j) \/ Finish(j)
      PROVE  ReadInv'
  BY <1>5 DEF EndCancelled, NotCancelled, Store, Publish, EndFailed, RecordError,
     Finish, RunnerGoes, TypeOK, RunnerInv, CancelInv, ReadInv, Counted, Polls,
     Final, jobVars, runnerVars, callerVars, cancelVars, readVars, regVars,
     hostVars
<1>6. ASSUME NEW j \in Jobs, CancelAccepted(j) \/ CancelSet(j) \/ CancelRefused(j) \/
            CancelNext(j)
      PROVE  ReadInv'
  BY <1>6 DEF CancelAccepted, CancelSet, CancelRefused, CancelNext, TypeOK,
     RunnerInv, CancelInv, ReadInv, Counted, Polls, Final, jobVars, runnerVars,
     callerVars, cancelVars, readVars, regVars, hostVars
<1>7. ASSUME NEW j \in Jobs, ReadState(j) \/ ReadFields(j) \/ ReadResult(j)
      PROVE  ReadInv'
  BY <1>7, SMTT(30) DEF ReadState, ReadFields, ReadResult, ReaderGoes, TypeOK, RunnerInv,
     CancelInv, ReadInv, Counted, Polls, Final, jobVars, runnerVars, callerVars,
     cancelVars, readVars, regVars, hostVars
<1>8. ASSUME Stop \/ StopExecutor \/ Finished \/ UNCHANGED vars
      PROVE  ReadInv'
  BY <1>8 DEF Stop, StopExecutor, Finished, vars, TypeOK, RunnerInv, CancelInv,
     ReadInv, Counted, Polls, Final, jobVars, runnerVars, callerVars,
     cancelVars, readVars, regVars, hostVars
<1> QED
  BY <1>1, <1>2, <1>3, <1>4, <1>5, <1>6, <1>7, <1>8 DEF Next, Caller,
     Runner, Wrapup, Canceller, Reader

-----------------------------------------------------------------------------
(* The theorems. *)

LEMMA IInit == Init => IInv
<1> SUFFICES ASSUME Init PROVE IInv
  OBVIOUS
<1> USE JobsAssumption
<1>1. TypeOK
  <2>1. /\ registry \subseteq Jobs /\ starts \in Nat /\ sweep \subseteq Jobs
        /\ stopping \in BOOLEAN /\ offline \in BOOLEAN
    BY DEF Init
  <2>2. /\ born \in [Jobs -> Nat] /\ current \in [Jobs -> 0..Total]
        /\ result \in [Jobs -> BOOLEAN] /\ error \in [Jobs -> BOOLEAN]
        /\ cancelEvent \in [Jobs -> BOOLEAN] /\ doneEvent \in [Jobs -> BOOLEAN]
    BY DEF Init
  <2>3. /\ tool \in [Jobs -> Tools \cup {"none"}] /\ state \in [Jobs -> States]
        /\ runner \in [Jobs -> RunnerPCs] /\ exc \in [Jobs -> Exceptions]
        /\ caller \in [Jobs -> CallerPCs] /\ answer \in [Jobs -> Answers]
        /\ canceller \in [Jobs -> CancelPCs]
        /\ cancelReply \in [Jobs -> CancelReplies]
        /\ reader \in [Jobs -> ReadPCs]
    BY DEF Init, States, RunnerPCs, Exceptions, CallerPCs, Answers, CancelPCs,
       CancelReplies, ReadPCs
  <2>4. seen \in [Jobs -> [state : States, current : 0..Total, error : BOOLEAN,
                           result : BOOLEAN]]
    <3>1. Unread \in [state : States, current : 0..Total, error : BOOLEAN,
                      result : BOOLEAN]
      BY DEF Unread, States
    <3> QED
      BY <3>1 DEF Init
  <2> QED
    BY <2>1, <2>2, <2>3, <2>4 DEF TypeOK
<1>2. RunnerInv
  BY DEF Init, RunnerInv
<1>3. RegistryInv
  BY DEF Init, RegistryInv, RunningIsFound, Called
<1>4. CancelInv
  BY DEF Init, CancelInv, CancelRefusedIsTrue, PressIsFollowed
<1>5. ReadInv
  BY DEF Init, ReadInv, Unread
<1> QED
  BY <1>1, <1>2, <1>3, <1>4, <1>5 DEF IInv

\* The inductive invariant holds in every state.
THEOREM Invariance == Spec => []IInv
<1>1. IInv /\ [Next]_vars => IInv'
  BY TypeStep, RunnerStep, RegistryStep, CancelStep, ReadStep DEF IInv
<1> QED
  BY IInit, <1>1, PTL DEF Spec

\* Every variable keeps its type.
THEOREM TypeCorrect == Spec => []TypeOK
<1>1. IInv => TypeOK
  BY DEF IInv
<1> QED
  BY Invariance, <1>1, PTL

\* A running job is found by its id, whatever the size of the registry.
THEOREM EvictionKeepsRunning == Spec => []RunningIsFound
<1>1. IInv => RunningIsFound
  BY DEF IInv, RegistryInv
<1> QED
  BY Invariance, <1>1, PTL

\* An id that was handed out is good until more than Keep jobs were started.
THEOREM HandedOutKept == Spec => []HandedOutIsFound
<1>1. IInv => HandedOutIsFound
  <2> SUFFICES ASSUME IInv, NEW j \in Jobs, answer[j] = "job_id", j \notin registry
               PROVE  Cardinality({k \in Jobs : caller[k] # "idle"}) > Keep
    BY DEF HandedOutIsFound
  <2>1. j \in Called
    BY DEF IInv, RunnerInv, Called
  <2> QED
    BY <2>1 DEF IInv, RegistryInv, Called
<1> QED
  BY Invariance, <1>1, PTL

\* A job is found by its id while it runs and while its id is new.
THEOREM JobsAreFound == Spec => []JobIsFound
<1>1. RunningIsFound /\ HandedOutIsFound <=> JobIsFound
  BY DEF JobIsFound
<1> QED
  BY EvictionKeepsRunning, HandedOutKept, <1>1, PTL

\* The call that started a job answers how it ended.
THEOREM OutcomeIsTrue == Spec => []AnswerIsOutcome
<1>1. IInv => AnswerIsOutcome
  BY DEF IInv, RunnerInv, AnswerIsOutcome
<1> QED
  BY Invariance, <1>1, PTL

\* A status that says done is complete, though it is read without a lock.
THEOREM DoneStatusIsComplete == Spec => []DoneIsComplete
<1>1. IInv => DoneIsComplete
  BY DEF IInv, ReadInv, DoneIsComplete
<1> QED
  BY Invariance, <1>1, PTL

\* A refused cancel was refused for a good reason.
THEOREM RefusalIsTrue == Spec => []CancelRefusedIsTrue
<1>1. IInv => CancelRefusedIsTrue
  BY DEF IInv, CancelInv
<1> QED
  BY Invariance, <1>1, PTL

\* A job that follows a press is cancelled by Host.stop alone.
THEOREM PressRuns == Spec => []PressIsFollowed
<1>1. IInv => PressIsFollowed
  BY DEF IInv, CancelInv
<1> QED
  BY Invariance, <1>1, PTL

LEMMA FinalStep ==
  TypeOK /\ RunnerInv /\ [Next]_vars =>
    [\A j \in Jobs : state[j] \in Final => state'[j] = state[j]]_vars
<1> SUFFICES ASSUME TypeOK, RunnerInv, Next
             PROVE  \A j \in Jobs : state[j] \in Final => state'[j] = state[j]
  OBVIOUS
<1>1. ASSUME NEW j \in Jobs, NEW t \in Tools, Register(j, t)
      PROVE  \A k \in Jobs : state[k] \in Final => state'[k] = state[k]
  BY <1>1 DEF Register, TypeOK, RunnerInv, Final, jobVars
<1>2. ASSUME NEW j \in Jobs, StartThread(j) \/ CookEnded(j) \/ CookHandsOut(j) \/
            StopWaiting(j) \/ AnswerDone(j) \/ NotDone(j) \/ AnswerError(j) \/
            AnswerStatus(j)
      PROVE  \A k \in Jobs : state[k] \in Final => state'[k] = state[k]
  BY <1>2 DEF StartThread, CookEnded, CookHandsOut, StopWaiting, AnswerDone,
     NotDone, AnswerError, AnswerStatus, Answer, Discard, TypeOK, RunnerInv,
     Final, jobVars
<1>3. ASSUME NEW j \in Jobs, Interrupted(j) \/ Step(j) \/ Return(j) \/ Raise(j)
      PROVE  \A k \in Jobs : state[k] \in Final => state'[k] = state[k]
  BY <1>3 DEF Interrupted, Step, Return, Raise, RunnerGoes, TypeOK, RunnerInv,
     Final, jobVars
<1>4. ASSUME NEW j \in Jobs, EndCancelled(j) \/ NotCancelled(j) \/ Store(j) \/
            Publish(j) \/ EndFailed(j) \/ RecordError(j) \/ Finish(j)
      PROVE  \A k \in Jobs : state[k] \in Final => state'[k] = state[k]
  BY <1>4 DEF EndCancelled, NotCancelled, Store, Publish, EndFailed, RecordError,
     Finish, RunnerGoes, TypeOK, RunnerInv, Final, jobVars
<1>5. ASSUME NEW j \in Jobs, CancelAccepted(j) \/ CancelSet(j) \/ CancelRefused(j) \/
            CancelNext(j) \/ ReadState(j) \/ ReadFields(j) \/ ReadResult(j)
      PROVE  \A k \in Jobs : state[k] \in Final => state'[k] = state[k]
  BY <1>5 DEF CancelAccepted, CancelSet, CancelRefused, CancelNext, ReadState,
     ReadFields, ReadResult, ReaderGoes, TypeOK, RunnerInv, Final, jobVars
<1>6. ASSUME Stop \/ StopExecutor \/ Finished \/ UNCHANGED vars
      PROVE  \A k \in Jobs : state[k] \in Final => state'[k] = state[k]
  BY <1>6 DEF Stop, StopExecutor, Finished, vars, TypeOK, RunnerInv, Final, jobVars
<1> QED
  BY <1>1, <1>2, <1>3, <1>4, <1>5, <1>6 DEF Next, Caller, Runner,
     Wrapup, Canceller, Reader

\* A job that ended keeps its state.
THEOREM FinalStays == Spec => FinalIsFinal
<1>1. IInv => TypeOK /\ RunnerInv
  BY DEF IInv
<1> QED
  BY Invariance, <1>1, FinalStep, PTL DEF Spec, FinalIsFinal


-----------------------------------------------------------------------------
(* The looks. *)

\* The looks whose child has not answered yet: it is theirs alone.
Working(l) == looks[l].pc = "wait" /\ looks[l].heard = None
\* Which child a look has, and who holds the lock.
ChildOf(l) ==
  /\ lock = l => looks[l].pc \in {"wait", "retry"}
  /\ looks[l].pc = "wait" => looks[l].child \in Pids /\ (looks[l].kept \/ looks[l].fresh)
  /\ looks[l].pc = "wait" /\ looks[l].kept =>
       /\ lock = l /\ looks[l].child = warm
       /\ looks[l].heard \in {"crash", "licence"} => warm \notin DOMAIN procs
  /\ Working(l) =>
       /\ looks[l].child \in DOMAIN procs /\ procs[looks[l].child].kept = looks[l].kept
       /\ looks[l].child = warm => looks[l].kept
Apart == \A l, k \in Looks : l # k /\ Working(l) /\ Working(k) => looks[l].child # looks[k].child
Housed ==
  /\ \A p \in DOMAIN procs : p # warm => \E l \in Looks : Working(l) /\ looks[l].child = p
  /\ warm \in DOMAIN procs => procs[warm].kept
ChildInv == (\A l \in Looks : ChildOf(l)) /\ Apart /\ Housed

\* Which renderer a look is at, and what it passed over.
ChainOf(l) ==
  /\ looks[l].pc = "begin" => looks[l].at = 1
  /\ looks[l].at \in 1 .. Len(Chain(looks[l].kind))
  /\ looks[l].pc \in {"wait", "retry"} => Renderer(l) # "karma"
  /\ looks[l].pc = "wait" => looks[l].kept \/ looks[l].fresh
  /\ looks[l].pc = "wait" /\ looks[l].heard = "crash" /\ Raises(l) => Renderer(l) \in guilty
  /\ \A i \in 1 .. looks[l].at - 1 : Chain(looks[l].kind)[i] \in guilty
ChainInv == (\A l \in Looks : ChainOf(l)) /\ crashed \subseteq guilty \ {"karma", "rop"}

\* What a child read of the scene, and a picture shows of it.
ReadsOf(p) == procs[p].key <= scene.lib /\ (procs[p].lib # None => procs[p].key <= procs[p].lib)
Drawn(l) ==
  /\ image[l] \in Pictures /\ image[l].by = "child" /\ NodesOf(image[l].nodes, looks[l].snap.nodes)
  /\ image[l].lib \in Nat /\ looks[l].snap.lib <= image[l].lib
  /\ looks[l].snap.var => image[l].var
Shown(l) ==
  /\ image[l].lib >= looks[l].snap.lib
  /\ IF image[l].by = "child"
     THEN NodesOf(image[l].nodes, looks[l].snap.nodes) /\ (looks[l].snap.var => image[l].var)
     ELSE \A n \in image[l].nodes : n >= looks[l].snap.nodes
SceneOf(l) ==
  /\ looks[l].pc \notin {"begin", "failed"} =>
       /\ looks[l].snap \in Scenes
       /\ looks[l].snap.nodes <= scene.nodes /\ looks[l].snap.lib <= scene.lib
  /\ Working(l) => looks[l].snap.lib <= procs[looks[l].child].key
  /\ looks[l].pc = "wait" /\ looks[l].heard = "image" => Drawn(l)
  /\ looks[l].pc = "picture" => Shown(l)
SceneInv == (\A p \in DOMAIN procs : ReadsOf(p)) /\ (\A l \in Looks : SceneOf(l))

CapturesInv == CapturesTypeOK /\ ChildInv /\ ChainInv /\ SceneInv

-----------------------------------------------------------------------------
(* There is always a pid for a new child. *)

LEMMA NewPidIsNew ==
  ASSUME CapturesTypeOK, ChildInv, NEW l \in Looks
  PROVE  NewPid \in Pids /\ NewPid \notin DOMAIN procs \cup {warm}
<1> DEFINE child == [k \in Looks |-> looks[k].child]
           C == {looks[k].child : k \in Looks}
           n == Cardinality(Looks)
<1>1. IsFiniteSet(Looks) /\ n \in Nat /\ n >= 1
  BY CapturesAssumption, FS_CardinalityType, FS_EmptySet
<1>2. child \in Surjection(Looks, C)
  BY DEF Surjection
<1>3. IsFiniteSet(C) /\ Cardinality(C) <= n
  BY <1>1, <1>2, FS_Surjection DEF C
<1> HIDE DEF C, child
<1>4. IsFiniteSet(C \cup {warm}) /\ Cardinality(C \cup {warm}) <= n + 1
  <2>1. Cardinality(C) \in Nat
    BY <1>3, FS_CardinalityType
  <2>2. IsFiniteSet(C \cup {warm}) /\ Cardinality(C \cup {warm}) \in {Cardinality(C), Cardinality(C) + 1}
    BY <1>3, FS_AddElement
  <2> QED
    BY <1>1, <1>3, <2>1, <2>2
<1>5. DOMAIN procs \cup {warm} \subseteq C \cup {warm}
  BY DEF ChildInv, Housed, C
<1>6. Cardinality(DOMAIN procs \cup {warm}) <= n + 1 /\ IsFiniteSet(DOMAIN procs \cup {warm})
  BY <1>1, <1>4, <1>5, FS_Subset, FS_CardinalityType
<1>7. IsFiniteSet(Pids) /\ Cardinality(Pids) = 2 * n + 1
  BY <1>1, FS_Interval DEF Pids
<1>8. ~(Pids \subseteq DOMAIN procs \cup {warm})
  BY <1>1, <1>6, <1>7, FS_Subset, FS_CardinalityType
<1> QED
  BY <1>8 DEF NewPid

-----------------------------------------------------------------------------
(* It holds initially. *)

LEMMA LooksBegin == CapturesInit => CapturesInv
<1> SUFFICES ASSUME CapturesInit PROVE CapturesInv
  OBVIOUS
<1> USE CapturesAssumption
<1>1. CapturesTypeOK
  <2>1. scene \in Scenes
    BY DEF CapturesInit, Scenes
  <2>2. looks \in [Looks -> LookStates]
    BY DEF CapturesInit, LookStates, PCs, LookKinds
  <2>3. DOMAIN procs \subseteq Pids /\ procs \in [DOMAIN procs -> Children]
    BY DEF CapturesInit
  <2> QED
    BY <2>1, <2>2, <2>3 DEF CapturesInit, CapturesTypeOK
<1>2. ChildInv
  BY DEF CapturesInit, ChildInv, ChildOf, Apart, Housed, Working
<1>3. ChainInv
  BY DEF CapturesInit, ChainInv, ChainOf, Chain
<1>4. SceneInv
  BY DEF CapturesInit, SceneInv, SceneOf, ReadsOf, Working
<1> QED
  BY <1>1, <1>2, <1>3, <1>4 DEF CapturesInv

-----------------------------------------------------------------------------
(* What a step does to a look. *)

\* A step of l leaves the other looks alone.
Alone(l) == \A k \in Looks : k # l => looks'[k] = looks[k]

LEMMA LookChanges ==
  ASSUME CapturesTypeOK, NEW l \in Looks, NEW r \in LookStates, looks' = [looks EXCEPT ![l] = r]
  PROVE  looks' \in [Looks -> LookStates] /\ looks'[l] = r /\ Alone(l)
BY DEF CapturesTypeOK, Alone

LEMMA StartsIs ==
  ASSUME CapturesTypeOK, NEW l \in Looks, NEW p \in Pids, NEW kept \in BOOLEAN, NEW fresh \in BOOLEAN,
         Starts(l, p, kept, fresh)
  PROVE  /\ looks' \in [Looks -> LookStates] /\ Alone(l)
         /\ looks'[l].pc = "wait" /\ looks'[l].child = p /\ looks'[l].kept = kept
         /\ looks'[l].fresh = fresh /\ looks'[l].heard = None
         /\ looks'[l].kind = looks[l].kind /\ looks'[l].snap = looks[l].snap
         /\ looks'[l].at = looks[l].at
<1> DEFINE r == [looks[l] EXCEPT !.pc = "wait", !.child = p, !.kept = kept, !.fresh = fresh, !.heard = None]
<1>1. looks[l] \in LookStates
  BY DEF CapturesTypeOK
<1>2. r \in LookStates
  BY <1>1 DEF LookStates, PCs
<1>3. looks' = [looks EXCEPT ![l] = r]
  BY DEF Starts, CapturesTypeOK
<1>4. /\ r.pc = "wait" /\ r.child = p /\ r.kept = kept /\ r.fresh = fresh /\ r.heard = None
      /\ r.kind = looks[l].kind /\ r.snap = looks[l].snap /\ r.at = looks[l].at
  BY <1>1 DEF LookStates
<1> HIDE DEF r
<1> QED
  BY <1>2, <1>3, <1>4, LookChanges

LEMMA EndsIs ==
  ASSUME CapturesTypeOK, NEW l \in Looks, NEW well \in BOOLEAN, LookEnds(l, well)
  PROVE  /\ looks' \in [Looks -> LookStates] /\ Alone(l)
         /\ looks'[l].pc = IF well THEN "picture" ELSE "failed"
         /\ well => looks'[l].snap = looks[l].snap
         /\ looks'[l].kind = looks[l].kind /\ looks'[l].at = looks[l].at
<1> DEFINE r == [looks[l] EXCEPT !.pc = IF well THEN "picture" ELSE "failed",
                                 !.snap = IF well THEN @ ELSE None,
                                 !.child = None, !.kept = FALSE, !.fresh = FALSE, !.heard = None]
<1>1. looks[l] \in LookStates
  BY DEF CapturesTypeOK
<1>2. r \in LookStates
  BY <1>1 DEF LookStates, PCs
<1>3. looks' = [looks EXCEPT ![l] = r]
  BY DEF LookEnds, CapturesTypeOK
<1>4. /\ r.pc = IF well THEN "picture" ELSE "failed"
      /\ well => r.snap = looks[l].snap
      /\ r.kind = looks[l].kind /\ r.at = looks[l].at
  BY <1>1 DEF LookStates
<1> HIDE DEF r
<1> QED
  BY <1>2, <1>3, <1>4, LookChanges

\* The other steps change its place, and one thing more.
LEMMA PrepareIs ==
  ASSUME CapturesTypeOK, NEW l \in Looks, NEW k \in LookKinds, Prepare(l, k)
  PROVE  /\ looks' \in [Looks -> LookStates] /\ Alone(l)
         /\ looks'[l].pc = "choose" /\ looks'[l].kind = k /\ looks'[l].snap = scene
         /\ looks'[l].at = looks[l].at
<1> DEFINE r == [looks[l] EXCEPT !.pc = "choose", !.kind = k, !.snap = scene]
<1>1. looks[l] \in LookStates /\ scene \in Scenes
  BY DEF CapturesTypeOK
<1>2. r \in LookStates
  BY <1>1 DEF LookStates, PCs
<1>3. looks' = [looks EXCEPT ![l] = r]
  BY DEF Prepare, CapturesTypeOK
<1>4. r.pc = "choose" /\ r.kind = k /\ r.snap = scene /\ r.at = looks[l].at
  BY <1>1 DEF LookStates
<1> HIDE DEF r
<1> QED
  BY <1>2, <1>3, <1>4, LookChanges

LEMMA HeardIs ==
  ASSUME CapturesTypeOK, NEW l \in Looks, NEW how \in Heard, looks' = [looks EXCEPT ![l].heard = how]
  PROVE  /\ looks' \in [Looks -> LookStates] /\ Alone(l)
         /\ looks'[l] = [looks[l] EXCEPT !.heard = how]
         /\ looks'[l].heard = how /\ looks'[l].pc = looks[l].pc /\ looks'[l].kind = looks[l].kind
         /\ looks'[l].snap = looks[l].snap /\ looks'[l].at = looks[l].at
         /\ looks'[l].child = looks[l].child /\ looks'[l].kept = looks[l].kept
         /\ looks'[l].fresh = looks[l].fresh
<1> DEFINE r == [looks[l] EXCEPT !.heard = how]
<1>1. looks[l] \in LookStates
  BY DEF CapturesTypeOK
<1>2. r \in LookStates
  BY <1>1 DEF LookStates
<1>3. looks' = [looks EXCEPT ![l] = r]
  BY DEF CapturesTypeOK
<1>4. /\ r.heard = how /\ r.pc = looks[l].pc /\ r.kind = looks[l].kind /\ r.snap = looks[l].snap
      /\ r.at = looks[l].at /\ r.child = looks[l].child /\ r.kept = looks[l].kept
      /\ r.fresh = looks[l].fresh
  BY <1>1 DEF LookStates
<1>5. looks' \in [Looks -> LookStates] /\ looks'[l] = r /\ Alone(l)
  BY <1>2, <1>3, LookChanges
<1> QED
  BY <1>4, <1>5

LEMMA PassesIs ==
  ASSUME CapturesTypeOK, NEW l \in Looks, NEW to \in PCs, NEW at \in 1 .. 3,
         looks' = [looks EXCEPT ![l] = [@ EXCEPT !.pc = to, !.at = at]]
  PROVE  /\ looks' \in [Looks -> LookStates] /\ Alone(l)
         /\ looks'[l].pc = to /\ looks'[l].at = at
         /\ looks'[l].kind = looks[l].kind /\ looks'[l].snap = looks[l].snap
         /\ looks'[l].kept = looks[l].kept
<1> DEFINE r == [looks[l] EXCEPT !.pc = to, !.at = at]
<1>1. looks[l] \in LookStates
  BY DEF CapturesTypeOK
<1>2. r \in LookStates
  BY <1>1 DEF LookStates
<1>3. looks' = [looks EXCEPT ![l] = r]
  BY DEF CapturesTypeOK
<1>4. r.pc = to /\ r.at = at /\ r.kind = looks[l].kind /\ r.snap = looks[l].snap /\ r.kept = looks[l].kept
  BY <1>1 DEF LookStates
<1> HIDE DEF r
<1> QED
  BY <1>2, <1>3, <1>4, LookChanges

\* A look that is retried, or passes over a renderer, in that form.
LEMMA PassesOver ==
  ASSUME CapturesTypeOK, NEW l \in Looks
  PROVE  /\ \A to : looks' = [looks EXCEPT ![l].pc = to] =>
                      looks' = [looks EXCEPT ![l] = [@ EXCEPT !.pc = to, !.at = looks[l].at]]
         /\ \A to : looks' = [looks EXCEPT ![l].pc = to, ![l].at = @ + 1] =>
                      looks' = [looks EXCEPT ![l] = [@ EXCEPT !.pc = to, !.at = looks[l].at + 1]]
         /\ looks' = [looks EXCEPT ![l].at = @ + 1] =>
              looks' = [looks EXCEPT ![l] = [@ EXCEPT !.pc = looks[l].pc, !.at = looks[l].at + 1]]
<1> looks[l] \in LookStates
  BY DEF CapturesTypeOK
<1>1. \A to : [looks[l] EXCEPT !.pc = to] = [looks[l] EXCEPT !.pc = to, !.at = looks[l].at]
  BY DEF LookStates
<1>2. [looks[l] EXCEPT !.at = looks[l].at + 1] = [looks[l] EXCEPT !.pc = looks[l].pc, !.at = looks[l].at + 1]
  BY DEF LookStates
<1> QED
  BY <1>1, <1>2 DEF CapturesTypeOK

\* The chains are short, and each ends with what runs in the host or for a ROP.
LEMMA ChainIs ==
  ASSUME NEW k \in LookKinds
  PROVE  /\ k = "final" => Chain(k) = <<"karma">>
         /\ k = "render" => Chain(k) = <<"rop">>
         /\ k \in {"draft", "stage"} => Chain(k) = <<"flipbook", "opengl", "karma">>
         /\ Len(Chain(k)) \in 1 .. 3
         /\ \A i \in 1 .. Len(Chain(k)) : Chain(k)[i] \in Renderers
<1>1. CASE k = "final"
  BY <1>1 DEF Chain, Renderers
<1>2. CASE k = "render"
  BY <1>2 DEF Chain, Renderers
<1>3. CASE k \in {"draft", "stage"}
  <2>1. Chain(k) = <<"flipbook", "opengl", "karma">>
    BY <1>3 DEF Chain
  <2>2. \A i \in 1 .. 3 : <<"flipbook", "opengl", "karma">>[i] \in Renderers
    BY DEF Renderers
  <2> QED
    BY <1>3, <2>1, <2>2
<1> QED
  BY <1>1, <1>2, <1>3 DEF LookKinds

\* A child that loads a snapshot is still one.
LEMMA LoadedIs ==
  ASSUME NEW p \in Children, NEW snap \in Scenes, scene \in Scenes
  PROVE  /\ Loaded(p, snap) \in Children
         /\ Loaded(p, snap).kept = p.kept /\ Loaded(p, snap).key = p.key
         /\ Loaded(p, snap).lib = IF p.lib = None THEN scene.lib ELSE p.lib
         /\ NodesOf(Loaded(p, snap).nodes, snap.nodes)
         /\ snap.var => Loaded(p, snap).var
         /\ Loaded(p, snap).lib \in Nat
<1> DEFINE lib == IF p.lib = None THEN scene.lib ELSE p.lib
<1> DEFINE nodes == (p.nodes \cap Undying) \cup {snap.nodes}
<1>0. nodes \in SUBSET Nat /\ NodesOf(nodes, snap.nodes)
  BY DEF Children, Scenes, NodesOf
<1>1. lib \in Nat /\ (p.var \/ snap.var) \in BOOLEAN /\ p.uses + 1 \in Nat
  BY CapturesAssumption DEF Children, Scenes
<1>2. Loaded(p, snap) = [p EXCEPT !.nodes = nodes, !.lib = lib, !.var = p.var \/ snap.var, !.uses = p.uses + 1]
  BY DEF Loaded, Clear
<1> HIDE DEF lib, nodes
<1>3. /\ Loaded(p, snap).kept = p.kept /\ Loaded(p, snap).key = p.key
      /\ Loaded(p, snap).lib = lib /\ Loaded(p, snap).nodes = nodes
      /\ Loaded(p, snap).var = (p.var \/ snap.var)
  BY <1>2 DEF Children
<1>4. Loaded(p, snap) \in Children
  BY <1>0, <1>1, <1>2 DEF Children
<1> QED
  BY <1>0, <1>1, <1>3, <1>4 DEF lib

-----------------------------------------------------------------------------
(* The types. *)

\* The types of what a step does to the children.
LEMMA KillTyped ==
  ASSUME CapturesTypeOK, NEW ps
  PROVE  /\ DOMAIN Kill(ps) = DOMAIN procs \ ps /\ DOMAIN Kill(ps) \subseteq Pids
         /\ Kill(ps) \in [DOMAIN Kill(ps) -> Children]
         /\ \A p \in DOMAIN Kill(ps) : Kill(ps)[p] = procs[p]
BY DEF Kill, Restrict, CapturesTypeOK

LEMMA BornTyped ==
  ASSUME CapturesTypeOK, NEW D \in SUBSET DOMAIN procs, NEW p \in Pids, NEW kept \in BOOLEAN,
         procs' = [q \in D \cup {p} |-> IF q = p THEN NewChild(kept) ELSE procs[q]]
  PROVE  /\ DOMAIN procs' = D \cup {p} /\ DOMAIN procs' \subseteq Pids
         /\ procs' \in [DOMAIN procs' -> Children]
         /\ procs'[p] = NewChild(kept)
         /\ \A q \in D : q # p => procs'[q] = procs[q]
<1>1. NewChild(kept) \in Children
  BY CapturesAssumption DEF NewChild, Children, Scenes, CapturesTypeOK
<1> QED
  BY <1>1 DEF CapturesTypeOK

\* What a look sees before it ends: where it is in its chain.
LEMMA RendererIs ==
  ASSUME CapturesTypeOK, ChainInv, NEW l \in Looks
  PROVE  /\ Renderer(l) \in Renderers /\ looks[l].kind \in LookKinds /\ looks[l].at \in 1 .. 3
         /\ Renderer(l) # "karma" /\ looks[l].kind # "render" =>
              /\ looks[l].kind \in {"draft", "stage"} /\ looks[l].at + 1 \in 1 .. 3
              /\ Renderer(l) \in {"flipbook", "opengl"}
         /\ Renderer(l) = "rop" <=> looks[l].kind = "render"
         /\ Renderer(l) = "flipbook" => looks[l].at = 1
<1> DEFINE k == looks[l].kind
<1>1. looks[l] \in LookStates /\ k \in LookKinds /\ looks[l].at \in 1 .. 3 /\ looks[l].at \in 1 .. Len(Chain(k))
  BY DEF CapturesTypeOK, LookStates, ChainInv, ChainOf
<1>2. CASE k = "final"
  <2>1. Chain(k) = <<"karma">> /\ looks[l].at = 1
    BY <1>1, <1>2, ChainIs
  <2> QED
    BY <1>1, <1>2, <2>1 DEF Renderer, Renderers
<1>3. CASE k = "render"
  <2>1. Chain(k) = <<"rop">> /\ looks[l].at = 1
    BY <1>1, <1>3, ChainIs
  <2> QED
    BY <1>1, <1>3, <2>1 DEF Renderer, Renderers
<1>4. CASE k \in {"draft", "stage"}
  <2>1. Chain(k) = <<"flipbook", "opengl", "karma">>
    BY <1>1, <1>4, ChainIs
  <2>2. Renderer(l) = <<"flipbook", "opengl", "karma">>[looks[l].at]
    BY <2>1 DEF Renderer
  <2>3. CASE looks[l].at = 1
    BY <1>1, <1>4, <2>2, <2>3 DEF Renderers
  <2>4. CASE looks[l].at = 2
    BY <1>1, <1>4, <2>2, <2>4 DEF Renderers
  <2>5. CASE looks[l].at = 3
    BY <1>1, <1>4, <2>2, <2>5 DEF Renderers
  <2> QED
    BY <1>1, <2>3, <2>4, <2>5
<1> QED
  BY <1>1, <1>2, <1>3, <1>4 DEF LookKinds

LEMMA LookTyped == CapturesInv /\ [CapturesNext]_captureVars => CapturesTypeOK'
<1> SUFFICES ASSUME CapturesInv, [CapturesNext]_captureVars PROVE CapturesTypeOK'
  OBVIOUS
<1> USE CapturesAssumption
<1>0. CapturesTypeOK /\ ChildInv /\ ChainInv /\ SceneInv
  BY DEF CapturesInv
<1>1. ASSUME NEW l \in Looks, NEW k \in LookKinds, Prepare(l, k) PROVE CapturesTypeOK'
  <2>1. looks' \in [Looks -> LookStates]
    BY <1>0, <1>1, PrepareIs
  <2> QED
    BY <1>0, <1>1, <2>1 DEF Prepare, CapturesTypeOK, childrenVars
<1>2. ASSUME NEW l \in Looks, StartKept(l) PROVE CapturesTypeOK'
  <2>1. NewPid \in Pids
    BY <1>0, NewPidIsNew
  <2>2. CASE Usable
    <3>1. warm \in Pids
      BY <1>0, <2>2 DEF Usable, CapturesTypeOK
    <3>2. looks' \in [Looks -> LookStates]
      BY <1>0, <1>2, <2>2, <3>1, StartsIs DEF StartKept
    <3> QED
      BY <1>0, <1>2, <2>2, <3>2 DEF StartKept, CapturesTypeOK
  <2>3. CASE ~Usable
    <3>1. looks' \in [Looks -> LookStates]
      BY <1>0, <1>2, <2>1, <2>3, StartsIs DEF StartKept
    <3>2. DOMAIN Close(warm) \in SUBSET DOMAIN procs
      BY <1>0, KillTyped DEF Close
    <3>3. DOMAIN procs' \subseteq Pids /\ procs' \in [DOMAIN procs' -> Children]
      BY <1>0, <1>2, <2>1, <2>3, <3>2, BornTyped DEF StartKept
    <3> QED
      BY <1>0, <1>2, <2>1, <2>3, <3>1, <3>3 DEF StartKept, CapturesTypeOK
  <2> QED
    BY <2>2, <2>3
<1>3. ASSUME NEW l \in Looks, StartFails(l) PROVE CapturesTypeOK'
  <2>1. procs' \in {procs, Kill({warm})} /\ warm' \in {warm, None}
    BY <1>3 DEF StartFails, Close
  <2>2. DOMAIN procs' \subseteq Pids /\ procs' \in [DOMAIN procs' -> Children]
    <3>1. CASE procs' = procs
      BY <1>0, <3>1 DEF CapturesTypeOK
    <3>2. CASE procs' = Kill({warm})
      BY <1>0, <3>2, KillTyped
    <3> QED
      BY <2>1, <3>1, <3>2
  <2>3. looks' \in [Looks -> LookStates]
    BY <1>0, <1>3, EndsIs DEF StartFails
  <2> QED
    BY <1>0, <1>3, <2>1, <2>2, <2>3 DEF StartFails, CapturesTypeOK
<1>4. ASSUME NEW l \in Looks, StartCold(l) PROVE CapturesTypeOK'
  <2>1. NewPid \in Pids
    BY <1>0, NewPidIsNew
  <2>2. looks' \in [Looks -> LookStates]
    BY <1>0, <1>4, <2>1, StartsIs DEF StartCold
  <2>3. DOMAIN procs' \subseteq Pids /\ procs' \in [DOMAIN procs' -> Children]
    BY <1>0, <1>4, <2>1, BornTyped DEF StartCold
  <2> QED
    BY <1>0, <1>4, <2>2, <2>3 DEF StartCold, CapturesTypeOK, childrenVars
<1>5. ASSUME NEW l \in Looks, NEW how \in Heard, NEW drew \in BOOLEAN, ChildRenders(l, how, drew)
      PROVE  CapturesTypeOK'
  <2> DEFINE c == looks[l].child
             child == Loaded(procs[c], looks[l].snap)
  <2>1. Working(l) /\ c \in DOMAIN procs /\ procs[c] \in Children /\ looks[l].snap \in Scenes
    BY <1>0, <1>5 DEF ChildRenders, Working, ChildInv, ChildOf, SceneInv, SceneOf, CapturesTypeOK
  <2>2. child \in Children
    BY <1>0, <2>1, LoadedIs DEF CapturesTypeOK
  <2>3. procs' = [procs EXCEPT ![c] = child] \/ procs' = Kill({c})
    BY <1>5 DEF ChildRenders
  <2>4. DOMAIN procs' \subseteq Pids /\ procs' \in [DOMAIN procs' -> Children]
    <3> HIDE DEF c, child
    <3>1. CASE procs' = [procs EXCEPT ![c] = child]
      BY <1>0, <2>1, <2>2, <3>1 DEF CapturesTypeOK
    <3>2. CASE procs' = Kill({c})
      BY <1>0, <3>2, KillTyped
    <3> QED
      BY <2>3, <3>1, <3>2
  <2>5. image' \in [Looks -> Pictures \cup {None}]
    <3> DEFINE picture == [by |-> "child", nodes |-> child.nodes, lib |-> child.lib, var |-> child.var]
    <3>1. picture \in Pictures
      BY <2>2 DEF Children, Pictures
    <3>2. image' = [image EXCEPT ![l] = picture] \/ image' = image
      BY <1>5 DEF ChildRenders
    <3> HIDE DEF picture
    <3> QED
      BY <1>0, <3>1, <3>2 DEF CapturesTypeOK
  <2>6. guilty' \subseteq Renderers
    <3>1. Renderer(l) \in Renderers
      BY <1>0, RendererIs
    <3> QED
      BY <1>0, <1>5, <3>1 DEF ChildRenders, CapturesTypeOK
  <2>7. looks' = [looks EXCEPT ![l].heard = how] /\ UNCHANGED <<scene, childrenVars>>
    BY <1>5 DEF ChildRenders
  <2>8. looks' \in [Looks -> LookStates]
    BY <1>0, <2>7, HeardIs
  <2> QED
    BY <1>0, <2>4, <2>5, <2>6, <2>7, <2>8 DEF CapturesTypeOK, childrenVars
<1>6. CASE KeptExits
  <2>1. DOMAIN procs' \subseteq Pids /\ procs' \in [DOMAIN procs' -> Children]
    BY <1>0, <1>6, KillTyped DEF KeptExits
  <2> QED
    BY <1>0, <1>6, <2>1 DEF KeptExits, CapturesTypeOK, childrenVars
<1>7. ASSUME NEW l \in Looks, Answered(l) PROVE CapturesTypeOK'
  <2>1. looks' \in [Looks -> LookStates]
    BY <1>0, <1>7, EndsIs DEF Answered
  <2> QED
    BY <1>0, <1>7, <2>1 DEF Answered, Freed, CapturesTypeOK
<1>8. ASSUME NEW l \in Looks, RetryCold(l) PROVE CapturesTypeOK'
  <2>1. looks[l].at \in 1 .. 3
    BY <1>0, RendererIs
  <2>2. looks' \in [Looks -> LookStates]
    <3>1. looks' = [looks EXCEPT ![l] = [@ EXCEPT !.pc = "retry", !.at = looks[l].at]]
      BY <1>0, <1>8, PassesOver DEF RetryCold
    <3> QED
      BY <1>0, <2>1, <3>1, PassesIs DEF PCs
  <2> QED
    BY <1>0, <1>8, <2>2 DEF RetryCold, CapturesTypeOK
<1>9. ASSUME NEW l \in Looks, NextRenderer(l) PROVE CapturesTypeOK'
  <2>1. crashed' \subseteq Renderers
    BY <1>0, <1>9, RendererIs DEF NextRenderer, CapturesTypeOK
  <2>2. looks' \in [Looks -> LookStates]
    <3>1. CASE looks[l].heard = "crash" /\ looks[l].kind # "render"
      <4>1. looks[l].at + 1 \in 1 .. 3
        BY <1>0, <1>9, <3>1, RendererIs DEF NextRenderer, Waits, ChainInv, ChainOf
      <4> QED
        BY <1>0, <1>9, <3>1, <4>1, PassesOver, PassesIs DEF NextRenderer, PCs
    <3>2. CASE ~(looks[l].heard = "crash" /\ looks[l].kind # "render")
      BY <1>0, <1>9, <3>2, EndsIs DEF NextRenderer
    <3> QED
      BY <3>1, <3>2
  <2> QED
    BY <1>0, <1>9, <2>1, <2>2 DEF NextRenderer, Freed, CapturesTypeOK
<1>10. ASSUME NEW l \in Looks, Skip(l) PROVE CapturesTypeOK'
  <2>1. looks[l].at + 1 \in 1 .. 3
    BY <1>0, <1>10, RendererIs DEF Skip, ChainInv, ChainOf
  <2>2. looks' \in [Looks -> LookStates]
    <3>1. looks[l].pc \in PCs
      BY <1>10 DEF Skip, PCs
    <3>2. looks' = [looks EXCEPT ![l] = [@ EXCEPT !.pc = looks[l].pc, !.at = looks[l].at + 1]]
      BY <1>0, <1>10, PassesOver DEF Skip
    <3> QED
      BY <1>0, <2>1, <3>1, <3>2, PassesIs
  <2> QED
    BY <1>0, <1>10, <2>2 DEF Skip, CapturesTypeOK, childrenVars
<1>11. ASSUME NEW l \in Looks, GiveUp(l) PROVE CapturesTypeOK'
  <2>1. DOMAIN procs' \subseteq Pids /\ procs' \in [DOMAIN procs' -> Children]
    BY <1>0, <1>11, KillTyped DEF GiveUp, Killed
  <2>2. looks' \in [Looks -> LookStates]
    BY <1>0, <1>11, EndsIs DEF GiveUp
  <2> QED
    BY <1>0, <1>11, <2>1, <2>2 DEF GiveUp, Freed, CapturesTypeOK
<1>12. ASSUME NEW l \in Looks, NEW works \in BOOLEAN, Karma(l, works) PROVE CapturesTypeOK'
  <2> DEFINE picture == [by |-> "karma", nodes |-> {scene.nodes}, lib |-> scene.lib, var |-> scene.var]
  <2>1. picture \in Pictures
    BY <1>0 DEF Pictures, CapturesTypeOK, Scenes
  <2>2. image' = [image EXCEPT ![l] = picture] \/ image' = image
    BY <1>12 DEF Karma
  <2> HIDE DEF picture
  <2>3. image' \in [Looks -> Pictures \cup {None}]
    BY <1>0, <2>1, <2>2 DEF CapturesTypeOK
  <2>4. looks' \in [Looks -> LookStates]
    BY <1>0, <1>12, EndsIs DEF Karma
  <2> QED
    BY <1>0, <1>12, <2>3, <2>4 DEF Karma, CapturesTypeOK, childrenVars
<1>13. CASE Change
  <2>1. scene' \in Scenes
    <3>1. scene \in Scenes
      BY <1>0 DEF CapturesTypeOK
    <3>2. \/ scene' = [scene EXCEPT !.nodes = @ + 1]
          \/ scene' = [scene EXCEPT !.lib = @ + 1]
          \/ scene' = [scene EXCEPT !.nodes = @ + 1, !.var = ~@]
      BY <1>13 DEF Change
    <3>3. scene.nodes + 1 \in Nat /\ scene.lib + 1 \in Nat /\ (~scene.var) \in BOOLEAN
      BY <3>1 DEF Scenes
    <3>4. CASE scene' = [scene EXCEPT !.nodes = @ + 1]
      BY <3>1, <3>3, <3>4 DEF Scenes
    <3>5. CASE scene' = [scene EXCEPT !.lib = @ + 1]
      BY <3>1, <3>3, <3>5 DEF Scenes
    <3>6. CASE scene' = [scene EXCEPT !.nodes = @ + 1, !.var = ~@]
      <4> DEFINE v == ~scene.var
      <4>1. scene' = [scene EXCEPT !.nodes = scene.nodes + 1, !.var = v]
        BY <3>6
      <4>2. v \in BOOLEAN
        BY <3>3
      <4> HIDE DEF v
      <4> QED
        BY <3>1, <3>3, <4>1, <4>2 DEF Scenes
    <3> QED
      BY <3>2, <3>4, <3>5, <3>6
  <2> QED
    BY <1>0, <1>13, <2>1 DEF Change, CapturesTypeOK, childrenVars
<1>14. CASE UNCHANGED captureVars
  BY <1>0, <1>14 DEF captureVars, CapturesTypeOK, childrenVars
<1> QED
  BY <1>1, <1>2, <1>3, <1>4, <1>5, <1>6, <1>7, <1>8, <1>9, <1>10, <1>11, <1>12, <1>13, <1>14 DEF CapturesNext

-----------------------------------------------------------------------------
(* The chains. *)

\* A look that a step leaves alone stays where it is; the renderers that are guilty remain so.
LEMMA ChainAlone ==
  ASSUME NEW k, looks'[k] = looks[k], guilty \subseteq guilty', ChainOf(k)
  PROVE  ChainOf(k)'
BY DEF ChainOf, Renderer, Raises

LEMMA ChainStep == CapturesInv /\ [CapturesNext]_captureVars => ChainInv'
<1> SUFFICES ASSUME CapturesInv, [CapturesNext]_captureVars PROVE ChainInv'
  OBVIOUS
<1> USE CapturesAssumption
<1>0. CapturesTypeOK /\ ChildInv /\ ChainInv
  BY DEF CapturesInv
<1>00. ASSUME NEW l \in Looks, Alone(l), guilty \subseteq guilty', ChainOf(l)',
              crashed' \subseteq guilty' \ {"karma", "rop"}
       PROVE  ChainInv'
  BY <1>0, <1>00, ChainAlone DEF ChainInv, Alone
<1>1. ASSUME NEW l \in Looks, NEW k \in LookKinds, Prepare(l, k) PROVE ChainInv'
  <2>1. /\ Alone(l) /\ looks'[l].pc = "choose" /\ looks'[l].kind = k /\ looks'[l].at = 1
        /\ guilty' = guilty /\ crashed' = crashed
    BY <1>0, <1>1, PrepareIs DEF Prepare, childrenVars, ChainInv, ChainOf
  <2>2. ChainOf(l)'
    <3>1. Len(Chain(k)) \in 1 .. 3
      BY <1>1, ChainIs
    <3>0. 1 \in 1 .. Len(Chain(k))
      BY <3>1
    <3>2. looks'[l].at \in 1 .. Len(Chain(looks'[l].kind))
      <4>1. looks'[l].at = 1 /\ looks'[l].kind = k
        BY <2>1
      <4> QED
        BY <3>0, <4>1, Zenon
    <3>3. \A i \in 1 .. looks'[l].at - 1 : Chain(looks'[l].kind)[i] \in guilty'
      BY <2>1
    <3> QED
      BY <2>1, <3>2, <3>3 DEF ChainOf
  <2> QED
    BY <1>0, <1>00, <2>1, <2>2 DEF ChainInv
<1>2. ASSUME NEW l \in Looks, NEW p \in Pids, NEW kept \in BOOLEAN, NEW fresh \in BOOLEAN,
             Starts(l, p, kept, fresh), kept \/ fresh, Renderer(l) # "karma",
             guilty' = guilty, crashed' = crashed
      PROVE  ChainInv'
  <2>1. /\ Alone(l) /\ looks'[l].pc = "wait" /\ looks'[l].heard = None
        /\ looks'[l].kept = kept /\ looks'[l].fresh = fresh
        /\ looks'[l].kind = looks[l].kind /\ looks'[l].at = looks[l].at
    BY <1>0, <1>2, StartsIs
  <2>2. ChainOf(l)'
    BY <1>0, <1>2, <2>1 DEF ChainInv, ChainOf, Renderer, Heard
  <2> QED
    BY <1>0, <1>00, <1>2, <2>1, <2>2 DEF ChainInv
<1>3. ASSUME NEW l \in Looks, NEW well \in BOOLEAN, LookEnds(l, well), guilty' = guilty, crashed' = crashed
      PROVE  ChainInv'
  <2>1. /\ Alone(l) /\ looks'[l].pc \in {"picture", "failed"}
        /\ looks'[l].kind = looks[l].kind /\ looks'[l].at = looks[l].at
    BY <1>0, <1>3, EndsIs
  <2>2. ChainOf(l)'
    BY <1>0, <1>3, <2>1 DEF ChainInv, ChainOf
  <2> QED
    BY <1>0, <1>00, <1>3, <2>1, <2>2 DEF ChainInv
<1>4. ASSUME NEW l \in Looks, StartKept(l) PROVE ChainInv'
  <2>1. Renderer(l) = "flipbook" /\ guilty' = guilty /\ crashed' = crashed
    BY <1>4 DEF StartKept, Keeps
  <2>2. NewPid \in Pids /\ (Usable => warm \in Pids)
    BY <1>0, NewPidIsNew DEF Usable, CapturesTypeOK
  <2>3. (Starts(l, warm, TRUE, FALSE) /\ warm \in Pids) \/ Starts(l, NewPid, TRUE, TRUE)
    BY <1>4, <2>2 DEF StartKept
  <2> QED
    BY <1>2, <2>1, <2>2, <2>3
<1>5. ASSUME NEW l \in Looks, StartFails(l) PROVE ChainInv'
  BY <1>3, <1>5 DEF StartFails
<1>6. ASSUME NEW l \in Looks, StartCold(l) PROVE ChainInv'
  <2>1. NewPid \in Pids
    BY <1>0, NewPidIsNew
  <2>2. Renderer(l) # "karma"
    BY <1>0, <1>6 DEF StartCold, ChainInv, ChainOf
  <2>3. Starts(l, NewPid, FALSE, TRUE) /\ guilty' = guilty /\ crashed' = crashed
    BY <1>6 DEF StartCold, childrenVars
  <2> QED
    BY <1>2, <2>1, <2>2, <2>3
<1>7. ASSUME NEW l \in Looks, NEW how \in Heard, NEW drew \in BOOLEAN, ChildRenders(l, how, drew)
      PROVE  ChainInv'
  <2>1. /\ looks' = [looks EXCEPT ![l].heard = how] /\ looks[l].pc = "wait" /\ crashed' = crashed
        /\ guilty' = IF how = "crash" /\ looks[l].fresh THEN guilty \cup {Renderer(l)} ELSE guilty
    BY <1>7 DEF ChildRenders, childrenVars
  <2>2. /\ Alone(l) /\ looks'[l].heard = how /\ looks'[l].pc = looks[l].pc /\ looks'[l].kind = looks[l].kind
        /\ looks'[l].at = looks[l].at /\ looks'[l].kept = looks[l].kept /\ looks'[l].fresh = looks[l].fresh
    BY <1>0, <2>1, HeardIs
  <2>3. Renderer(l)' = Renderer(l)
    BY <2>2 DEF Renderer
  <2>4. ChainOf(l)'
    <3>1. ASSUME how = "crash", Raises(l)' PROVE Renderer(l) \in guilty'
      BY <1>0, <2>1, <2>2, <3>1 DEF Raises, ChainInv, ChainOf
    <3> QED
      BY <1>0, <2>1, <2>2, <2>3, <3>1 DEF ChainInv, ChainOf
  <2> QED
    BY <1>0, <1>00, <2>1, <2>2, <2>4 DEF ChainInv
<1>8. ASSUME NEW l \in Looks, Answered(l) PROVE ChainInv'
  BY <1>3, <1>8 DEF Answered
<1>9. ASSUME NEW l \in Looks, RetryCold(l) PROVE ChainInv'
  <2>1. looks[l].at \in 1 .. 3 /\ Renderer(l) # "karma" /\ guilty' = guilty /\ crashed' = crashed
    BY <1>0, <1>9, RendererIs DEF RetryCold, Waits, ChainInv, ChainOf
  <2>2. /\ Alone(l) /\ looks'[l].pc = "retry" /\ looks'[l].at = looks[l].at
        /\ looks'[l].kind = looks[l].kind
    <3>1. looks' = [looks EXCEPT ![l] = [@ EXCEPT !.pc = "retry", !.at = looks[l].at]]
      BY <1>0, <1>9, PassesOver DEF RetryCold
    <3> QED
      BY <1>0, <1>9, <2>1, <3>1, PassesIs DEF PCs
  <2>3. ChainOf(l)'
    BY <1>0, <2>1, <2>2 DEF ChainInv, ChainOf, Renderer
  <2> QED
    BY <1>0, <1>00, <2>1, <2>2, <2>3 DEF ChainInv
<1>10. ASSUME NEW l \in Looks, looks[l].at + 1 \in 1 .. 3, Renderer(l) \in guilty,
              looks[l].kind # "render", Renderer(l) # "karma",
              Alone(l), looks'[l].pc = "choose", looks'[l].at = looks[l].at + 1,
              looks'[l].kind = looks[l].kind, guilty' = guilty,
              crashed' \subseteq guilty \ {"karma", "rop"}
       PROVE  ChainInv'
  <2>1. looks[l].kind \in {"draft", "stage"} /\ looks[l].at \in 1 .. 3
    BY <1>0, <1>10, RendererIs
  <2>2. Len(Chain(looks[l].kind)) = 3
    BY <2>1, ChainIs DEF LookKinds
  <2>3. \A i \in 1 .. looks[l].at : Chain(looks[l].kind)[i] \in guilty
    BY <1>0, <1>10, <2>1 DEF ChainInv, ChainOf, Renderer
  <2>4. ChainOf(l)'
    BY <1>10, <2>1, <2>2, <2>3 DEF ChainOf
  <2> QED
    BY <1>00, <1>10, <2>4
<1>11. ASSUME NEW l \in Looks, NextRenderer(l) PROVE ChainInv'
  <2>1. guilty' = guilty /\ looks[l].pc = "wait" /\ Raises(l)
    BY <1>11 DEF NextRenderer, Waits
  <2>2. CASE looks[l].heard = "crash" /\ looks[l].kind # "render"
    <3>1. Renderer(l) \in guilty /\ Renderer(l) # "karma" /\ Renderer(l) # "rop" /\ looks[l].at + 1 \in 1 .. 3
      BY <1>0, <2>1, <2>2, RendererIs DEF ChainInv, ChainOf
    <3>2. /\ Alone(l) /\ looks'[l].pc = "choose" /\ looks'[l].at = looks[l].at + 1
          /\ looks'[l].kind = looks[l].kind
      <4>1. looks' = [looks EXCEPT ![l] = [@ EXCEPT !.pc = "choose", !.at = looks[l].at + 1]]
        BY <1>0, <1>11, <2>2, PassesOver DEF NextRenderer
      <4> QED
        BY <1>0, <1>11, <3>1, <4>1, PassesIs DEF PCs
    <3>3. crashed' \subseteq guilty \ {"karma", "rop"}
      BY <1>0, <1>11, <3>1 DEF NextRenderer, ChainInv
    <3> QED
      BY <1>10, <2>1, <2>2, <3>1, <3>2, <3>3
  <2>3. CASE looks[l].heard = "crash" /\ looks[l].kind = "render"
    <3>1. LookEnds(l, FALSE) /\ crashed' = crashed
      BY <1>11, <2>3 DEF NextRenderer
    <3> QED
      BY <1>3, <2>1, <3>1
  <2>4. CASE looks[l].heard # "crash"
    <3>1. LookEnds(l, FALSE) /\ crashed' = crashed
      BY <1>11, <2>4 DEF NextRenderer
    <3> QED
      BY <1>3, <2>1, <3>1
  <2> QED
    BY <2>2, <2>3, <2>4
<1>12. ASSUME NEW l \in Looks, Skip(l) PROVE ChainInv'
  <2>1. /\ Renderer(l) \in guilty /\ Renderer(l) # "karma" /\ looks[l].kind # "render"
        /\ looks[l].at + 1 \in 1 .. 3 /\ guilty' = guilty /\ crashed' = crashed
    BY <1>0, <1>12, RendererIs DEF Skip, ChainInv, childrenVars
  <2>2. /\ Alone(l) /\ looks'[l].pc = "choose" /\ looks'[l].at = looks[l].at + 1
        /\ looks'[l].kind = looks[l].kind
    <3>1. looks' = [looks EXCEPT ![l] = [@ EXCEPT !.pc = "choose", !.at = looks[l].at + 1]]
      BY <1>0, <1>12, PassesOver DEF Skip
    <3> QED
      BY <1>0, <2>1, <3>1, PassesIs DEF PCs
  <2> QED
    BY <1>0, <1>10, <2>1, <2>2 DEF ChainInv
<1>13. ASSUME NEW l \in Looks, GiveUp(l) PROVE ChainInv'
  BY <1>3, <1>13 DEF GiveUp
<1>14. ASSUME NEW l \in Looks, NEW works \in BOOLEAN, Karma(l, works) PROVE ChainInv'
  BY <1>3, <1>14 DEF Karma, childrenVars
<1>15. CASE KeptExits \/ Change \/ UNCHANGED captureVars
  <2>1. looks' = looks /\ guilty' = guilty /\ crashed' = crashed
    BY <1>15 DEF KeptExits, Change, captureVars, childrenVars
  <2> QED
    BY <1>0, <2>1, ChainAlone DEF ChainInv
<1> QED
  BY <1>1, <1>4, <1>5, <1>6, <1>7, <1>8, <1>9, <1>11, <1>12, <1>13, <1>14, <1>15 DEF CapturesNext

-----------------------------------------------------------------------------
(* The children and who has them. *)

\* What the parts about the children of a look need to stay: the lock, the kept child and its own.
LEMMA ChildAlone ==
  ASSUME NEW k, ChildOf(k), looks'[k] = looks[k], lock' = k <=> lock = k,
         looks[k].pc = "wait" /\ looks[k].kept =>
           /\ warm' = warm
           /\ looks[k].heard \in {"crash", "licence"} /\ warm \notin DOMAIN procs => warm \notin DOMAIN procs',
         Working(k) => /\ looks[k].child \in DOMAIN procs'
                       /\ procs'[looks[k].child].kept = procs[looks[k].child].kept
                       /\ looks[k].child = warm' => looks[k].child = warm
  PROVE  ChildOf(k)'
BY DEF ChildOf, Working

\* The lock is one look's, and so is the kept child while it is held.
LEMMA Holders ==
  ASSUME ChildInv, NEW l \in Looks
  PROVE  /\ lock # l => ~(looks[l].pc = "wait" /\ looks[l].kept)
         /\ lock = None => ~(\E k \in Looks : looks[k].pc = "wait" /\ looks[k].kept)
         /\ Working(l) /\ looks[l].child = warm => lock = l
BY CapturesAssumption DEF ChildInv, ChildOf, Working

\* What a step of l has to show: that the others keep what they have, and what becomes of its own.
LEMMA ChildGoesOn ==
  ASSUME ChildInv, NEW l \in Looks, Alone(l),
         \A k \in Looks : k # l =>
           /\ lock' = k <=> lock = k
           /\ looks[k].pc = "wait" /\ looks[k].kept =>
                /\ warm' = warm
                /\ looks[k].heard \in {"crash", "licence"} /\ warm \notin DOMAIN procs => warm \notin DOMAIN procs'
           /\ Working(k) =>
                /\ looks[k].child \in DOMAIN procs'
                /\ procs'[looks[k].child].kept = procs[looks[k].child].kept
                /\ looks[k].child = warm' => looks[k].child = warm
                /\ Working(l)' => looks'[l].child # looks[k].child,
         ChildOf(l)',
         \A q \in DOMAIN procs' : q # warm' =>
           \/ \E k \in Looks : k # l /\ Working(k) /\ looks[k].child = q
           \/ Working(l)' /\ looks'[l].child = q,
         warm' \in DOMAIN procs' => procs'[warm'].kept
  PROVE  ChildInv'
<1>1. \A k \in Looks : k # l => looks'[k] = looks[k] /\ (Working(k)' <=> Working(k))
  BY DEF Alone, Working
<1>2. ASSUME NEW k \in Looks PROVE ChildOf(k)'
  BY <1>1, <1>2, ChildAlone DEF ChildInv
<1>3. Apart'
  BY <1>1 DEF ChildInv, Apart
<1>4. Housed'
  BY <1>1 DEF Housed
<1> QED
  BY <1>2, <1>3, <1>4 DEF ChildInv

LEMMA ChildStep == CapturesInv /\ [CapturesNext]_captureVars => ChildInv'
<1> SUFFICES ASSUME CapturesInv, [CapturesNext]_captureVars PROVE ChildInv'
  OBVIOUS
<1> USE CapturesAssumption
<1>0. CapturesTypeOK /\ ChildInv /\ ChainInv
  BY DEF CapturesInv
<1>a. \A k \in Looks : ChildOf(k) /\ looks[k] \in LookStates
  BY <1>0 DEF ChildInv, CapturesTypeOK
<1>b. \A q \in DOMAIN procs : q # warm => \E k \in Looks : Working(k) /\ looks[k].child = q
  BY <1>0 DEF ChildInv, Housed
<1>c. warm \in DOMAIN procs => procs[warm].kept
  BY <1>0 DEF ChildInv, Housed
<1>d. \A k, m \in Looks : k # m /\ Working(k) /\ Working(m) => looks[k].child # looks[m].child
  BY <1>0 DEF ChildInv, Apart
<1>1. ASSUME NEW l \in Looks, StartKept(l), Usable PROVE ChildInv'
  <2>1. /\ looks[l].pc = "choose" /\ lock = None /\ lock' = l /\ procs' = procs /\ warm' = warm
        /\ warm \in DOMAIN procs /\ warm \in Pids /\ Starts(l, warm, TRUE, FALSE)
    BY <1>0, <1>1 DEF StartKept, Keeps, Usable, CapturesTypeOK
  <2>2. /\ Alone(l) /\ looks'[l].pc = "wait" /\ looks'[l].child = warm /\ looks'[l].kept
        /\ looks'[l].heard = None
    BY <1>0, <2>1, StartsIs
  <2>3. ~Working(l) /\ \A k \in Looks : ~(looks[k].pc = "wait" /\ looks[k].kept) /\ ~(Working(k) /\ looks[k].child = warm)
    BY <1>0, <2>1, Holders DEF Working
  <2>4. ChildOf(l)'
    BY <1>c, <2>1, <2>2 DEF ChildOf, Working, Heard
  <2> QED
    <3>1. \A k \in Looks : Working(k) => looks[k].child \in DOMAIN procs
      BY <1>a DEF ChildOf
    <3>2. \A k \in Looks : k # l => (lock' = k <=> lock = k)
      BY <2>1
    <3>3. \A q \in DOMAIN procs' : q # warm' => \E k \in Looks : k # l /\ Working(k) /\ looks[k].child = q
      BY <1>b, <2>1, <2>3
    <3> QED
      BY <1>0, <1>c, <2>1, <2>2, <2>3, <2>4, <3>1, <3>2, <3>3, ChildGoesOn
<1>2. ASSUME NEW l \in Looks, StartKept(l), ~Usable PROVE ChildInv'
  <2> DEFINE D == DOMAIN Close(warm)
  <2>1. /\ looks[l].pc = "choose" /\ lock = None /\ lock' = l /\ warm' = NewPid
        /\ Starts(l, NewPid, TRUE, TRUE)
        /\ procs' = [q \in D \cup {NewPid} |-> IF q = NewPid THEN NewChild(TRUE) ELSE procs[q]]
    BY <1>2 DEF StartKept, Keeps
  <2>2. NewPid \in Pids /\ NewPid \notin DOMAIN procs \cup {warm} /\ D = DOMAIN procs \ {warm}
    BY <1>0, <1>2, NewPidIsNew, KillTyped DEF Close
  <2>3. /\ Alone(l) /\ looks'[l].pc = "wait" /\ looks'[l].child = NewPid /\ looks'[l].kept = TRUE
        /\ looks'[l].heard = None
    BY <1>0, <2>1, <2>2, StartsIs
  <2>4. ~Working(l) /\ \A k \in Looks : ~(looks[k].pc = "wait" /\ looks[k].kept) /\ ~(Working(k) /\ looks[k].child = warm)
    BY <1>0, <2>1, Holders DEF Working
  <2>5. /\ DOMAIN procs' = D \cup {NewPid} /\ procs'[NewPid].kept
        /\ \A q \in DOMAIN procs : q # warm => q \in DOMAIN procs' /\ procs'[q] = procs[q]
    BY <2>1, <2>2 DEF NewChild
  <2> HIDE DEF D
  <2>6. ChildOf(l)'
    BY <2>1, <2>2, <2>3, <2>5 DEF ChildOf, Working, Heard
  <2>7. \A k \in Looks : Working(k) => looks[k].child \in DOMAIN procs /\ looks[k].child # warm
    BY <1>a, <2>4 DEF ChildOf
  <2> QED
    <3>1. \A k \in Looks : k # l => (lock' = k <=> lock = k)
      BY <2>1
    <3>2. \A k \in Looks : Working(k) =>
            /\ looks[k].child \in DOMAIN procs' /\ procs'[looks[k].child] = procs[looks[k].child]
            /\ looks[k].child # NewPid
      BY <2>2, <2>5, <2>7
    <3>3. \A q \in DOMAIN procs' : q # warm' => \E k \in Looks : k # l /\ Working(k) /\ looks[k].child = q
      BY <1>b, <2>1, <2>2, <2>4, <2>5
    <3> QED
      BY <1>0, <2>1, <2>3, <2>4, <2>5, <2>6, <3>1, <3>2, <3>3, ChildGoesOn
<1>3. ASSUME NEW l \in Looks, StartFails(l) PROVE ChildInv'
  <2>1. /\ looks[l].pc = "choose" /\ LookEnds(l, FALSE) /\ lock' = lock
        /\ \/ procs' = procs /\ warm' = warm
           \/ lock = None /\ procs' = Kill({warm}) /\ warm' = None
    BY <1>3 DEF StartFails, Keeps, Close
  <2>2. Alone(l) /\ looks'[l].pc = "failed"
    BY <1>0, <2>1, EndsIs
  <2>3. ~Working(l) /\ lock # l /\ ChildOf(l)'
    BY <1>a, <2>1, <2>2 DEF Working, ChildOf
  <2>4. CASE procs' = procs /\ warm' = warm
    BY <1>0, <1>a, <1>b, <1>c, <2>1, <2>2, <2>3, <2>4, ChildGoesOn DEF ChildOf, Working
  <2>5. CASE lock = None /\ procs' = Kill({warm}) /\ warm' = None
    <3>1. \A k \in Looks : ~(looks[k].pc = "wait" /\ looks[k].kept) /\ ~(Working(k) /\ looks[k].child = warm)
      BY <1>0, <2>5, Holders
    <3>2. DOMAIN procs' = DOMAIN procs \ {warm} /\ \A q \in DOMAIN procs' : procs'[q] = procs[q] /\ q # None
      <4>1. DOMAIN procs' = DOMAIN procs \ {warm} /\ \A q \in DOMAIN procs' : procs'[q] = procs[q]
        BY <1>0, <2>5, KillTyped
      <4>2. None \notin DOMAIN procs
        BY <1>0 DEF CapturesTypeOK, Pids
      <4> QED
        BY <4>1, <4>2
    <3>3. \A k \in Looks : Working(k) => looks[k].child \in DOMAIN procs'
      BY <1>a, <3>1, <3>2 DEF ChildOf
    <3>4. \A k \in Looks : Working(k) =>
            /\ procs'[looks[k].child] = procs[looks[k].child] /\ looks[k].child # warm'
      BY <2>5, <3>2, <3>3
    <3>5. ~Working(l)' /\ warm' \notin DOMAIN procs'
      BY <2>2, <2>5, <3>2 DEF Working
    <3>6. \A q \in DOMAIN procs' : \E k \in Looks : k # l /\ Working(k) /\ looks[k].child = q
      BY <1>b, <2>3, <3>2
    <3> QED
      BY <1>0, <2>1, <2>2, <2>3, <3>1, <3>3, <3>4, <3>5, <3>6, ChildGoesOn
  <2> QED
    BY <2>1, <2>4, <2>5
<1>4. ASSUME NEW l \in Looks, StartCold(l) PROVE ChildInv'
  <2>1. /\ looks[l].pc \in {"choose", "retry"} /\ Starts(l, NewPid, FALSE, TRUE)
        /\ lock' = lock /\ warm' = warm
        /\ procs' = [q \in DOMAIN procs \cup {NewPid} |-> IF q = NewPid THEN NewChild(FALSE) ELSE procs[q]]
    BY <1>4 DEF StartCold, childrenVars
  <2>2. NewPid \in Pids /\ NewPid \notin DOMAIN procs \cup {warm}
    BY <1>0, <1>4, NewPidIsNew
  <2>3. /\ Alone(l) /\ looks'[l].pc = "wait" /\ looks'[l].child = NewPid /\ looks'[l].kept = FALSE
        /\ looks'[l].fresh = TRUE /\ looks'[l].heard = None
    BY <1>0, <2>1, <2>2, StartsIs
  <2>4. ~Working(l)
    BY <2>1 DEF Working
  <2>5. /\ DOMAIN procs' = DOMAIN procs \cup {NewPid} /\ procs'[NewPid].kept = FALSE
        /\ \A q \in DOMAIN procs : procs'[q] = procs[q]
    BY <2>1, <2>2 DEF NewChild
  <2>6. ChildOf(l)'
    BY <2>1, <2>2, <2>3, <2>5 DEF ChildOf, Working
  <2>7. \A k \in Looks : Working(k) => looks[k].child \in DOMAIN procs
    BY <1>a DEF ChildOf
  <2>8. warm \notin DOMAIN procs => warm \notin DOMAIN procs'
    BY <2>2, <2>5
  <2>9. \A k \in Looks : k # l => (lock' = k <=> lock = k) /\ (Working(k) => looks'[l].child # looks[k].child)
    BY <2>1, <2>2, <2>3, <2>7
  <2>10. \A q \in DOMAIN procs' : q # warm' =>
           \/ \E k \in Looks : k # l /\ Working(k) /\ looks[k].child = q
           \/ Working(l)' /\ looks'[l].child = q
    BY <1>b, <2>1, <2>3, <2>4, <2>5 DEF Working
  <2>11. warm' \in DOMAIN procs' => procs'[warm'].kept
    BY <1>c, <2>1, <2>2, <2>5
  <2> QED
    BY <1>0, <2>1, <2>3, <2>5, <2>6, <2>7, <2>8, <2>9, <2>10, <2>11, ChildGoesOn
<1>5. ASSUME NEW l \in Looks, NEW how \in Heard, NEW drew \in BOOLEAN, ChildRenders(l, how, drew)
      PROVE  ChildInv'
  <2> DEFINE c == looks[l].child
  <2>1. Working(l) /\ looks' = [looks EXCEPT ![l].heard = how] /\ lock' = lock /\ warm' = warm
    BY <1>5 DEF ChildRenders, Working, childrenVars
  <2>2. /\ Alone(l) /\ looks'[l].heard = how /\ looks'[l].pc = "wait" /\ looks'[l].child = c
        /\ looks'[l].kept = looks[l].kept /\ looks'[l].fresh = looks[l].fresh /\ looks[l].pc = "wait"
    BY <1>0, <2>1, HeardIs DEF Working
  <2>3. c \in DOMAIN procs /\ procs[c] \in Children /\ procs[c].kept = looks[l].kept /\ looks[l].snap \in Scenes
    BY <1>a, <2>1 DEF CapturesInv, CapturesTypeOK, ChildOf, Working, SceneInv, SceneOf
  <2>4. Loaded(procs[c], looks[l].snap).kept = procs[c].kept
    BY <1>0, <2>3, LoadedIs DEF CapturesTypeOK
  <2>5. /\ DOMAIN procs' = IF looks[l].kept /\ how \in {"image", "errors"} THEN DOMAIN procs ELSE DOMAIN procs \ {c}
        /\ \A q \in DOMAIN procs' : procs'[q].kept = procs[q].kept
    <3>1. CASE looks[l].kept /\ how \in {"image", "errors"}
      <4>1. procs' = [procs EXCEPT ![c] = Loaded(procs[c], looks[l].snap)]
        BY <1>5, <2>3, <2>4, <3>1 DEF ChildRenders
      <4> QED
        BY <2>3, <2>4, <3>1, <4>1
    <3>2. CASE ~(looks[l].kept /\ how \in {"image", "errors"})
      <4>1. procs' = Kill({c})
        BY <1>5, <2>3, <2>4, <3>2 DEF ChildRenders
      <4> QED
        BY <1>0, <3>2, <4>1, KillTyped
    <3> QED
      BY <3>1, <3>2
  <2>6. ~Working(l)'
    BY <2>2 DEF Working, Heard
  <2>7. looks[l].kept => lock = l /\ c = warm
    BY <1>a, <2>2 DEF ChildOf
  <2> HIDE DEF c
  <2>8. ChildOf(l)'
    BY <1>a, <2>1, <2>2, <2>5, <2>6, <2>7 DEF ChildOf, Pids, c, Heard
  <2>9. ASSUME NEW k \in Looks, k # l, Working(k)
        PROVE  looks[k].child \in DOMAIN procs' /\ procs'[looks[k].child].kept = procs[looks[k].child].kept
    BY <1>a, <1>d, <2>1, <2>5, <2>9 DEF ChildOf, c
  <2>10. \A q \in DOMAIN procs' : q # warm' => \E k \in Looks : k # l /\ Working(k) /\ looks[k].child = q
    BY <1>b, <2>1, <2>5, <2>7 DEF c
  <2>11. DOMAIN procs' \subseteq DOMAIN procs
    BY <2>5
  <2>12. warm' \in DOMAIN procs' => procs'[warm'].kept
    BY <1>c, <2>1, <2>5, <2>11
  <2> QED
    BY <1>0, <2>1, <2>2, <2>6, <2>8, <2>9, <2>10, <2>11, <2>12, ChildGoesOn
<1>6. CASE KeptExits
  <2>1. looks' = looks /\ lock = None /\ lock' = lock /\ warm' = warm /\ procs' = Kill({warm})
    BY <1>6 DEF KeptExits, childrenVars
  <2>2. DOMAIN procs' = DOMAIN procs \ {warm} /\ \A q \in DOMAIN procs' : procs'[q] = procs[q]
    BY <1>0, <2>1, KillTyped
  <2>3. \A k \in Looks : ~(looks[k].pc = "wait" /\ looks[k].kept) /\ ~(Working(k) /\ looks[k].child = warm)
    BY <1>0, <2>1, Holders
  <2>4. \A k \in Looks : Working(k)' <=> Working(k)
    BY <2>1 DEF Working
  <2>5. ASSUME NEW k \in Looks PROVE ChildOf(k)'
    BY <1>a, <2>1, <2>2, <2>3, <2>4 DEF ChildOf
  <2>6. Apart' /\ Housed'
    BY <1>b, <1>d, <2>1, <2>2, <2>4 DEF Apart, Housed
  <2> QED
    BY <2>5, <2>6 DEF ChildInv
\* A look that no longer waits lets go of the lock and, if it had it, of the kept child.
<1>7. ASSUME NEW l \in Looks, Alone(l), looks[l].pc = "wait", looks'[l].pc \notin {"wait", "retry"},
             lock' = Freed(l), warm' = warm \/ (looks[l].kept /\ warm' = None /\ warm \notin DOMAIN procs'),
             \/ procs' = procs /\ ~Working(l)
             \/ procs' = Kill({looks[l].child}) /\ Working(l)
      PROVE  ChildInv'
  <2>1. /\ \A k \in Looks : k # l => (lock' = k <=> lock = k)
        /\ lock' # l
    BY <1>7 DEF Freed
  <2>2. ~Working(l)' /\ ChildOf(l)'
    BY <1>7, <2>1 DEF Working, ChildOf
  <2>3. /\ DOMAIN procs' \subseteq DOMAIN procs /\ \A q \in DOMAIN procs' : procs'[q] = procs[q]
        /\ \A q \in DOMAIN procs : q \in DOMAIN procs' \/ (Working(l) /\ q = looks[l].child)
        /\ Working(l) => looks[l].child \notin DOMAIN procs'
    <3>1. CASE procs' = procs /\ ~Working(l)
      BY <3>1
    <3>2. CASE procs' = Kill({looks[l].child}) /\ Working(l)
      <4>1. DOMAIN procs' = DOMAIN procs \ {looks[l].child} /\ \A q \in DOMAIN procs' : procs'[q] = procs[q]
        BY <1>0, <3>2, KillTyped
      <4> QED
        BY <3>2, <4>1
    <3> QED
      BY <1>7, <3>1, <3>2
  <2>4. \A k \in Looks : k # l /\ looks[k].pc = "wait" /\ looks[k].kept => ~looks[l].kept
    BY <1>a, <1>7 DEF ChildOf
  <2>5. \A k \in Looks : k # l /\ Working(k) => looks[k].child \in DOMAIN procs' /\ looks[k].child # None
    BY <1>a, <1>d, <2>3 DEF ChildOf, Pids, Working
  <2>6. \A q \in DOMAIN procs' : q # warm' => \E k \in Looks : k # l /\ Working(k) /\ looks[k].child = q
    BY <1>b, <1>7, <2>3
  <2>7. warm' \in DOMAIN procs' => procs'[warm'].kept
    <3>1. None \notin DOMAIN procs'
      BY <1>0, <2>3 DEF CapturesTypeOK, Pids
    <3> QED
      BY <1>c, <1>7, <2>3, <3>1
  <2> QED
    BY <1>0, <1>7, <2>1, <2>2, <2>3, <2>4, <2>5, <2>6, <2>7, ChildGoesOn
<1>8. ASSUME NEW l \in Looks, Answered(l) PROVE ChildInv'
  <2>1. /\ looks[l].pc = "wait" /\ ~Working(l) /\ LookEnds(l, looks[l].heard = "image") /\ lock' = Freed(l)
        /\ procs' = procs /\ warm' = warm
    BY <1>8 DEF Answered, Waits, Working
  <2>2. Alone(l) /\ looks'[l].pc \in {"picture", "failed"}
    BY <1>0, <2>1, EndsIs
  <2> QED
    BY <1>7, <2>1, <2>2
<1>9. ASSUME NEW l \in Looks, NextRenderer(l) PROVE ChildInv'
  <2>1. /\ looks[l].pc = "wait" /\ ~Working(l) /\ lock' = Freed(l) /\ procs' = procs
        /\ warm' = IF looks[l].kept THEN None ELSE warm
        /\ looks[l].heard \in {"crash", "licence"}
    BY <1>9 DEF NextRenderer, Waits, Working
  <2>2. looks[l].kept => warm \notin DOMAIN procs
    BY <1>a, <2>1 DEF ChildOf
  <2>3. Alone(l) /\ looks'[l].pc \in {"choose", "failed"}
    <3>1. CASE looks[l].heard = "crash" /\ looks[l].kind # "render"
      <4>1. Renderer(l) # "karma" /\ looks[l].at + 1 \in 1 .. 3
        BY <1>0, <2>1, <3>1, RendererIs DEF ChainInv, ChainOf
      <4>2. looks' = [looks EXCEPT ![l] = [@ EXCEPT !.pc = "choose", !.at = looks[l].at + 1]]
        BY <1>0, <1>9, <3>1, PassesOver DEF NextRenderer
      <4> QED
        BY <1>0, <4>1, <4>2, PassesIs DEF PCs
    <3>2. CASE ~(looks[l].heard = "crash" /\ looks[l].kind # "render")
      BY <1>0, <1>9, <3>2, EndsIs DEF NextRenderer
    <3> QED
      BY <3>1, <3>2
  <2> QED
    BY <1>7, <2>1, <2>2, <2>3
<1>10. ASSUME NEW l \in Looks, GiveUp(l) PROVE ChildInv'
  <2>1. /\ looks[l].pc = "wait" /\ Working(l) /\ lock' = Freed(l) /\ LookEnds(l, FALSE)
        /\ procs' = Kill({looks[l].child})
        /\ warm' = IF looks[l].kept THEN None ELSE warm
    BY <1>10 DEF GiveUp, Working, Killed
  <2>2. Alone(l) /\ looks'[l].pc = "failed"
    BY <1>0, <2>1, EndsIs
  <2>3. looks[l].kept => warm \notin DOMAIN procs'
    <3>1. DOMAIN procs' = DOMAIN procs \ {looks[l].child}
      BY <1>0, <2>1, KillTyped
    <3> QED
      BY <1>a, <1>10, <2>1, <3>1 DEF ChildOf
  <2> QED
    BY <1>7, <2>1, <2>2, <2>3
<1>11. ASSUME NEW l \in Looks, RetryCold(l) PROVE ChildInv'
  <2>1. /\ looks[l].pc = "wait" /\ ~Working(l) /\ looks[l].kept /\ lock' = lock /\ procs' = procs
        /\ warm' = None /\ looks[l].heard \in {"crash", "licence"}
    BY <1>11 DEF RetryCold, Waits, Raises, Working
  <2>2. lock = l /\ warm \notin DOMAIN procs
    BY <1>a, <2>1 DEF ChildOf
  <2>3. Alone(l) /\ looks'[l].pc = "retry"
    <3>1. looks' = [looks EXCEPT ![l] = [@ EXCEPT !.pc = "retry", !.at = looks[l].at]]
      BY <1>0, <1>11, PassesOver DEF RetryCold
    <3> QED
      BY <1>0, <3>1, RendererIs, PassesIs DEF PCs
  <2>4. ~Working(l)' /\ ChildOf(l)'
    BY <2>3 DEF Working, ChildOf
  <2>5. \A k \in Looks : k # l => ~(looks[k].pc = "wait" /\ looks[k].kept)
    BY <1>a, <2>2 DEF ChildOf
  <2>6. None \notin DOMAIN procs
    BY <1>0 DEF CapturesTypeOK, Pids
  <2>7. \A k \in Looks : Working(k) => looks[k].child \in DOMAIN procs
    BY <1>a DEF ChildOf
  <2> QED
    BY <1>0, <1>b, <2>1, <2>2, <2>3, <2>4, <2>5, <2>6, <2>7, ChildGoesOn
\* The other steps are of looks that have no child, before and after.
<1>12. ASSUME NEW l \in Looks, Alone(l), looks[l].pc \in {"begin", "choose"},
              looks'[l].pc \notin {"wait", "retry"}, procs' = procs, lock' = lock, warm' = warm
       PROVE  ChildInv'
  <2>1. ~Working(l) /\ ~Working(l)' /\ lock # l /\ ChildOf(l)'
    BY <1>a, <1>12 DEF Working, ChildOf
  <2>2. \A k \in Looks : Working(k) => looks[k].child \in DOMAIN procs
    BY <1>a DEF ChildOf
  <2> QED
    BY <1>0, <1>b, <1>c, <1>12, <2>1, <2>2, ChildGoesOn
<1>13. ASSUME NEW l \in Looks, NEW k \in LookKinds, Prepare(l, k) PROVE ChildInv'
  BY <1>0, <1>12, <1>13, PrepareIs DEF Prepare, childrenVars
<1>14. ASSUME NEW l \in Looks, NEW works \in BOOLEAN, Karma(l, works) PROVE ChildInv'
  BY <1>0, <1>12, <1>14, EndsIs DEF Karma, childrenVars
<1>15. ASSUME NEW l \in Looks, Skip(l) PROVE ChildInv'
  <2>1. looks[l].pc = "choose" /\ procs' = procs /\ lock' = lock /\ warm' = warm
    BY <1>15 DEF Skip, childrenVars
  <2>2. Renderer(l) # "karma" /\ looks[l].kind = "stage" /\ looks[l].at + 1 \in 1 .. 3
    BY <1>0, <1>15, RendererIs DEF Skip, ChainInv
  <2>3. looks' = [looks EXCEPT ![l] = [@ EXCEPT !.pc = "choose", !.at = looks[l].at + 1]]
    BY <1>0, <1>15, PassesOver DEF Skip
  <2>4. Alone(l) /\ looks'[l].pc = "choose"
    BY <1>0, <2>2, <2>3, PassesIs DEF PCs
  <2> QED
    BY <1>12, <2>1, <2>4
<1>16. CASE Change \/ UNCHANGED captureVars
  <2>1. looks' = looks /\ procs' = procs /\ lock' = lock /\ warm' = warm
    BY <1>16 DEF Change, captureVars, childrenVars
  <2> QED
    BY <1>0, <2>1 DEF ChildInv, ChildOf, Working, Apart, Housed
<1> QED
  BY <1>1, <1>2, <1>3, <1>4, <1>5, <1>6, <1>8, <1>9, <1>10, <1>11, <1>13, <1>14, <1>15, <1>16 DEF CapturesNext

-----------------------------------------------------------------------------
(* The scene and the pictures. *)

\* The scene only grows.
Grows == scene.nodes <= scene'.nodes /\ scene.lib <= scene'.lib

LEMMA SceneAlone ==
  ASSUME NEW k, SceneOf(k), looks'[k] = looks[k], image'[k] = image[k],
         scene \in Scenes, scene' \in Scenes, Grows,
         Working(k) => procs'[looks[k].child].key = procs[looks[k].child].key
  PROVE  SceneOf(k)'
<1>1. looks[k].pc \notin {"begin", "failed"} =>
        /\ looks[k].snap \in Scenes
        /\ looks[k].snap.nodes <= scene'.nodes /\ looks[k].snap.lib <= scene'.lib
  BY DEF SceneOf, Scenes, Grows
<1>2. (Working(k)' <=> Working(k)) /\ (Drawn(k)' <=> Drawn(k)) /\ (Shown(k)' <=> Shown(k))
  BY DEF Working, Drawn, Shown
<1> QED
  BY <1>1, <1>2 DEF SceneOf

LEMMA ReadsAlone ==
  ASSUME CapturesTypeOK, CapturesTypeOK', NEW q \in DOMAIN procs, ReadsOf(q), q \in DOMAIN procs', Grows,
         procs'[q].key = procs[q].key, procs'[q].lib = procs[q].lib
  PROVE  ReadsOf(q)'
<1>1. procs[q].key \in Nat /\ scene.lib \in Nat /\ scene'.lib \in Nat
  BY DEF CapturesTypeOK, Children, Scenes
<1> QED
  BY <1>1 DEF ReadsOf, Grows

LEMMA SceneGoesOn ==
  ASSUME CapturesTypeOK, CapturesTypeOK', SceneInv, NEW l \in Looks, Alone(l), scene' = scene,
         \A k \in Looks : k # l =>
           /\ image'[k] = image[k]
           /\ Working(k) => procs'[looks[k].child].key = procs[looks[k].child].key,
         SceneOf(l)',
         \A q \in DOMAIN procs' :
           \/ q \in DOMAIN procs /\ procs'[q].key = procs[q].key /\ procs'[q].lib = procs[q].lib
           \/ ReadsOf(q)'
  PROVE  SceneInv'
<1>1. scene \in Scenes /\ scene' \in Scenes /\ Grows
  BY DEF CapturesTypeOK, Scenes, Grows
<1>2. ASSUME NEW k \in Looks PROVE SceneOf(k)'
  BY <1>1, <1>2, SceneAlone DEF SceneInv, Alone
<1>3. ASSUME NEW q \in DOMAIN procs' PROVE ReadsOf(q)'
  BY <1>1, <1>3, ReadsAlone DEF SceneInv
<1> QED
  BY <1>2, <1>3 DEF SceneInv

LEMMA SceneStep == CapturesInv /\ [CapturesNext]_captureVars => SceneInv'
<1> SUFFICES ASSUME CapturesInv, [CapturesNext]_captureVars PROVE SceneInv'
  OBVIOUS
<1> USE CapturesAssumption
<1>0. CapturesTypeOK /\ ChildInv /\ ChainInv /\ SceneInv /\ CapturesTypeOK' /\ ChildInv'
  BY LookTyped, ChildStep DEF CapturesInv
<1>a. \A k \in Looks : SceneOf(k) /\ ChildOf(k) /\ looks[k] \in LookStates
  BY <1>0 DEF SceneInv, ChildInv, CapturesTypeOK
<1>b. scene \in Scenes /\ scene' \in Scenes /\ scene.nodes \in Nat /\ scene.lib \in Nat
  BY <1>0 DEF CapturesTypeOK, Scenes
<1>c. \A k \in Looks : Working(k) => looks[k].child \in DOMAIN procs
  BY <1>a DEF ChildOf
<1>d. \A q \in DOMAIN procs : procs[q] \in Children /\ ReadsOf(q)
  BY <1>0 DEF CapturesTypeOK, SceneInv
\* A look whose picture is not there yet, in a step that leaves the children as they are.
<1>1. ASSUME NEW l \in Looks, Alone(l), scene' = scene, image' = image,
             looks'[l].pc \in {"choose", "retry"},
             (looks'[l].snap = looks[l].snap /\ looks[l].pc \in {"choose", "wait"}) \/ looks'[l].snap = scene,
             \A q \in DOMAIN procs' : q \in DOMAIN procs /\ procs'[q] = procs[q],
             \A k \in Looks : k # l /\ Working(k) => looks[k].child \in DOMAIN procs'
      PROVE  SceneInv'
  <2>1. /\ looks'[l].snap \in Scenes
        /\ looks'[l].snap.nodes <= scene.nodes /\ looks'[l].snap.lib <= scene.lib
    BY <1>a, <1>b, <1>1 DEF SceneOf
  <2>2. SceneOf(l)'
    BY <1>1, <2>1 DEF SceneOf, Working
  <2> QED
    BY <1>0, <1>1, <2>2, SceneGoesOn
\* A look that ends, in a step that leaves the other children as they are.
<1>2. ASSUME NEW l \in Looks, NEW well \in BOOLEAN, LookEnds(l, well), scene' = scene,
             \A k \in Looks : k # l => image'[k] = image[k],
             well => Shown(l)' /\ looks[l].pc \notin {"begin", "failed"},
             \A q \in DOMAIN procs' : q \in DOMAIN procs /\ procs'[q] = procs[q],
             \A k \in Looks : k # l /\ Working(k) => looks[k].child \in DOMAIN procs'
      PROVE  SceneInv'
  <2>1. /\ Alone(l) /\ looks'[l].pc = IF well THEN "picture" ELSE "failed"
        /\ well => looks'[l].snap = looks[l].snap
    BY <1>0, <1>2, EndsIs
  <2>2. SceneOf(l)'
    BY <1>a, <1>2, <2>1 DEF SceneOf, Working
  <2> QED
    BY <1>0, <1>2, <2>1, <2>2, SceneGoesOn
\* A look that begins to wait for a child that has the scene's assets.
<1>3. ASSUME NEW l \in Looks, NEW p \in Pids, NEW kept \in BOOLEAN, NEW fresh \in BOOLEAN,
             Starts(l, p, kept, fresh), looks[l].pc \in {"choose", "retry"}, scene' = scene, image' = image,
             p \in DOMAIN procs', procs'[p].key = scene.lib,
             \A q \in DOMAIN procs' : (q \in DOMAIN procs /\ procs'[q] = procs[q]) \/ ReadsOf(q)',
             \A k \in Looks : k # l /\ Working(k) => procs'[looks[k].child] = procs[looks[k].child]
      PROVE  SceneInv'
  <2>1. /\ Alone(l) /\ looks'[l].pc = "wait" /\ looks'[l].heard = None /\ looks'[l].child = p
        /\ looks'[l].snap = looks[l].snap
    BY <1>0, <1>3, StartsIs
  <2>2. /\ looks[l].snap \in Scenes
        /\ looks[l].snap.nodes <= scene.nodes /\ looks[l].snap.lib <= scene.lib
    BY <1>a, <1>3 DEF SceneOf
  <2>3. SceneOf(l)'
    BY <1>3, <2>1, <2>2 DEF SceneOf, Working, Heard
  <2> QED
    BY <1>0, <1>3, <2>1, <2>3, SceneGoesOn
<1>4. ASSUME NEW l \in Looks, NEW k \in LookKinds, Prepare(l, k) PROVE SceneInv'
  <2>1. Alone(l) /\ looks'[l].pc = "choose" /\ looks'[l].snap = scene
    BY <1>0, <1>4, PrepareIs
  <2>2. procs' = procs /\ scene' = scene /\ image' = image
    BY <1>4 DEF Prepare
  <2> QED
    BY <1>1, <1>c, <2>1, <2>2
<1>5. ASSUME NEW l \in Looks, StartKept(l), Usable PROVE SceneInv'
  <2>1. /\ looks[l].pc = "choose" /\ procs' = procs /\ scene' = scene /\ image' = image
        /\ warm \in DOMAIN procs /\ warm \in Pids /\ procs[warm].key = scene.lib
        /\ Starts(l, warm, TRUE, FALSE)
    BY <1>0, <1>5 DEF StartKept, Usable, CapturesTypeOK
  <2> QED
    BY <1>3, <2>1
<1>6. ASSUME NEW p \in Pids, NEW D \in SUBSET DOMAIN procs, NEW kept \in BOOLEAN, p \notin D, scene' = scene,
             procs' = [q \in D \cup {p} |-> IF q = p THEN NewChild(kept) ELSE procs[q]]
      PROVE  /\ p \in DOMAIN procs' /\ procs'[p].key = scene.lib
             /\ \A q \in DOMAIN procs' : (q \in DOMAIN procs /\ procs'[q] = procs[q]) \/ ReadsOf(q)'
  <2>1. DOMAIN procs' = D \cup {p} /\ procs'[p] = NewChild(kept) /\ \A q \in D : procs'[q] = procs[q]
    BY <1>0, <1>6, BornTyped
  <2>2. procs'[p].key = scene.lib /\ procs'[p].lib = None
    BY <2>1 DEF NewChild
  <2>3. ReadsOf(p)'
    BY <1>b, <1>6, <2>2 DEF ReadsOf
  <2> QED
    BY <1>6, <2>1, <2>2, <2>3
<1>7. ASSUME NEW l \in Looks, StartKept(l), ~Usable PROVE SceneInv'
  <2> DEFINE D == DOMAIN Close(warm)
  <2>1. /\ looks[l].pc = "choose" /\ scene' = scene /\ image' = image /\ lock = None
        /\ Starts(l, NewPid, TRUE, TRUE)
        /\ procs' = [q \in D \cup {NewPid} |-> IF q = NewPid THEN NewChild(TRUE) ELSE procs[q]]
    BY <1>7 DEF StartKept, Keeps
  <2>2. NewPid \in Pids /\ NewPid \notin DOMAIN procs /\ D = DOMAIN procs \ {warm}
    BY <1>0, <1>7, NewPidIsNew, KillTyped DEF Close
  <2> HIDE DEF D
  <2>3. /\ NewPid \in DOMAIN procs' /\ procs'[NewPid].key = scene.lib
        /\ \A q \in DOMAIN procs' : (q \in DOMAIN procs /\ procs'[q] = procs[q]) \/ ReadsOf(q)'
    BY <1>6, <2>1, <2>2
  <2>4. \A k \in Looks : Working(k) => looks[k].child \in D /\ looks[k].child # NewPid
    BY <1>0, <1>c, <2>1, <2>2, Holders
  <2>5. \A k \in Looks : Working(k) => procs'[looks[k].child] = procs[looks[k].child]
    BY <2>1, <2>4
  <2> QED
    BY <1>3, <2>1, <2>2, <2>3, <2>5
<1>8. ASSUME NEW l \in Looks, StartCold(l) PROVE SceneInv'
  <2>1. /\ looks[l].pc \in {"choose", "retry"} /\ scene' = scene /\ image' = image
        /\ Starts(l, NewPid, FALSE, TRUE)
        /\ procs' = [q \in DOMAIN procs \cup {NewPid} |-> IF q = NewPid THEN NewChild(FALSE) ELSE procs[q]]
    BY <1>8 DEF StartCold
  <2>2. NewPid \in Pids /\ NewPid \notin DOMAIN procs
    BY <1>0, <1>8, NewPidIsNew
  <2>3. /\ NewPid \in DOMAIN procs' /\ procs'[NewPid].key = scene.lib
        /\ \A q \in DOMAIN procs' : (q \in DOMAIN procs /\ procs'[q] = procs[q]) \/ ReadsOf(q)'
    BY <1>6, <2>1, <2>2
  <2>4. \A k \in Looks : Working(k) => procs'[looks[k].child] = procs[looks[k].child]
    BY <1>c, <2>1, <2>2
  <2> QED
    BY <1>3, <2>1, <2>2, <2>3, <2>4
<1>9. ASSUME NEW l \in Looks, StartFails(l) PROVE SceneInv'
  <2>1. /\ LookEnds(l, FALSE) /\ scene' = scene /\ image' = image
        /\ procs' = procs \/ (lock = None /\ procs' = Kill({warm}))
    BY <1>9 DEF StartFails, Keeps, Close
  <2>2. \A q \in DOMAIN procs' : q \in DOMAIN procs /\ procs'[q] = procs[q]
    <3>1. CASE procs' = procs
      BY <3>1
    <3>2. CASE procs' = Kill({warm})
      BY <1>0, <3>2, KillTyped
    <3> QED
      BY <2>1, <3>1, <3>2
  <2>3. \A k \in Looks : Working(k) => looks[k].child \in DOMAIN procs'
    <3>1. CASE procs' = procs
      BY <1>c, <3>1
    <3>2. CASE lock = None /\ procs' = Kill({warm})
      <4>1. DOMAIN procs' = DOMAIN procs \ {warm}
        BY <1>0, <3>2, KillTyped
      <4> QED
        BY <1>0, <1>c, <3>2, <4>1, Holders
    <3> QED
      BY <2>1, <3>1, <3>2
  <2> QED
    BY <1>2, <2>1, <2>2, <2>3
<1>10. ASSUME NEW l \in Looks, NEW how \in Heard, NEW drew \in BOOLEAN, ChildRenders(l, how, drew)
       PROVE  SceneInv'
  <2>0. PICK c : c = looks[l].child
    OBVIOUS
  <2> DEFINE snap == looks[l].snap
             child == Loaded(procs[c], snap)
             picture == [by |-> "child", nodes |-> child.nodes, lib |-> child.lib, var |-> child.var]
  <2>1. Working(l) /\ looks' = [looks EXCEPT ![l].heard = how] /\ scene' = scene /\ (how = "image" => drew)
    BY <1>10 DEF ChildRenders, Working
  <2>2. /\ Alone(l) /\ looks'[l].heard = how /\ looks'[l].pc = "wait" /\ looks'[l].child = c
        /\ looks'[l].snap = snap
    BY <1>0, <2>0, <2>1, HeardIs DEF Working
  <2>3. /\ c \in DOMAIN procs /\ procs[c] \in Children /\ snap \in Scenes /\ ReadsOf(c)
        /\ snap.nodes <= scene.nodes /\ snap.lib <= scene.lib /\ snap.lib <= procs[c].key
        /\ snap.lib \in Nat /\ procs[c].key \in Nat
    BY <1>a, <1>c, <1>d, <2>0, <2>1 DEF SceneOf, Working, Scenes, Children
  <2>4. /\ child.kept = procs[c].kept /\ child.key = procs[c].key /\ child.lib \in Nat
        /\ child.lib = IF procs[c].lib = None THEN scene.lib ELSE procs[c].lib
        /\ NodesOf(child.nodes, snap.nodes) /\ (snap.var => child.var) /\ child \in Children
    BY <1>b, <2>3, LoadedIs
  <2>5. child.key <= scene.lib /\ child.key <= child.lib /\ snap.lib <= child.lib
    BY <1>b, <2>3, <2>4 DEF ReadsOf
  <2>6. procs' = [procs EXCEPT ![c] = child] \/ procs' = Kill({c})
    BY <1>10, <2>0 DEF ChildRenders
  <2>7. image' = IF drew THEN [image EXCEPT ![l] = picture] ELSE image
    BY <1>10, <2>0 DEF ChildRenders
  <2>8. /\ picture \in Pictures /\ picture.by = "child" /\ NodesOf(picture.nodes, snap.nodes)
        /\ picture.lib = child.lib /\ picture.var = child.var
    BY <2>4 DEF Pictures, Children
  <2> HIDE DEF child, picture, snap
  <2>9. \A k \in Looks : k # l => image'[k] = image[k]
    BY <1>0, <2>7 DEF CapturesTypeOK
  <2>10. how = "image" => Drawn(l)'
    <3>1. how = "image" => image'[l] = picture
      BY <1>0, <2>1, <2>7 DEF CapturesTypeOK
    <3>2. /\ picture.lib \in Nat /\ snap.lib <= picture.lib
          /\ snap.var => picture.var
      BY <2>4, <2>5, <2>8
    <3> QED
      BY <2>2, <2>8, <3>1, <3>2 DEF Drawn
  <2>11. SceneOf(l)'
    BY <2>1, <2>2, <2>3, <2>10 DEF SceneOf, Working, Heard
  <2>12. \A q \in DOMAIN procs' : (q \in DOMAIN procs /\ procs'[q] = procs[q]) \/ (procs' = [procs EXCEPT ![c] = child] /\ q = c)
    <3>1. CASE procs' = [procs EXCEPT ![c] = child]
      BY <2>3, <3>1
    <3>2. CASE procs' = Kill({c})
      BY <1>0, <3>2, KillTyped
    <3> QED
      BY <2>6, <3>1, <3>2
  <2>13. procs' = [procs EXCEPT ![c] = child] => ReadsOf(c)' /\ procs'[c].key = procs[c].key
    <3> SUFFICES ASSUME procs' = [procs EXCEPT ![c] = child] PROVE ReadsOf(c)' /\ procs'[c].key = procs[c].key
      OBVIOUS
    <3>1. procs'[c] = child
      BY <2>3
    <3> QED
      BY <2>1, <2>4, <2>5, <3>1 DEF ReadsOf
  <2>14. \A k \in Looks : k # l /\ Working(k) => looks[k].child \in DOMAIN procs'
    <3>1. \A k \in Looks : k # l /\ Working(k) => looks[k].child \in DOMAIN procs /\ looks[k].child # c
      BY <1>0, <1>c, <2>0, <2>1 DEF ChildInv, Apart
    <3>2. DOMAIN procs \ {c} \subseteq DOMAIN procs'
      <4>1. CASE procs' = [procs EXCEPT ![c] = child]
        BY <4>1
      <4>2. CASE procs' = Kill({c})
        BY <1>0, <4>2, KillTyped
      <4> QED
        BY <2>6, <4>1, <4>2
    <3> QED
      BY <3>1, <3>2
  <2>15. \A k \in Looks : k # l /\ Working(k) => procs'[looks[k].child].key = procs[looks[k].child].key
    BY <2>12, <2>13, <2>14
  <2> QED
    <3>1. \A q \in DOMAIN procs' :
            \/ q \in DOMAIN procs /\ procs'[q].key = procs[q].key /\ procs'[q].lib = procs[q].lib
            \/ ReadsOf(q)'
      BY <2>12, <2>13
    <3>2. \A k \in Looks : k # l =>
            /\ image'[k] = image[k]
            /\ Working(k) => procs'[looks[k].child].key = procs[looks[k].child].key
      BY <2>9, <2>15
    <3>3. SceneOf(l)' /\ Alone(l) /\ scene' = scene
      BY <2>1, <2>2, <2>11
    <3> QED
      BY <1>0, <3>1, <3>2, <3>3, SceneGoesOn
<1>11. CASE KeptExits
  <2>1. looks' = looks /\ lock = None /\ procs' = Kill({warm}) /\ scene' = scene /\ image' = image
    BY <1>11 DEF KeptExits
  <2>2. DOMAIN procs' = DOMAIN procs \ {warm} /\ \A q \in DOMAIN procs' : procs'[q] = procs[q]
    BY <1>0, <2>1, KillTyped
  <2>3. \A k \in Looks : Working(k) => looks[k].child \in DOMAIN procs'
    BY <1>0, <1>c, <2>1, <2>2, Holders
  <2>4. Grows
    BY <1>b, <2>1 DEF Grows
  <2>5. \A q \in DOMAIN procs' : ReadsOf(q)'
    BY <1>0, <1>d, <2>2, <2>4, ReadsAlone
  <2>6. \A k \in Looks : SceneOf(k)'
    BY <1>a, <1>b, <2>1, <2>2, <2>3, <2>4, SceneAlone
  <2> QED
    BY <2>5, <2>6 DEF SceneInv
<1>12. ASSUME NEW l \in Looks, Answered(l) PROVE SceneInv'
  <2>1. /\ looks[l].pc = "wait" /\ LookEnds(l, looks[l].heard = "image")
        /\ procs' = procs /\ scene' = scene /\ image' = image
    BY <1>12 DEF Answered, Waits
  <2>2. looks[l].heard = "image" => Shown(l)'
    <3>1. ASSUME looks[l].heard = "image" PROVE Shown(l)'
      <4>1. Drawn(l) /\ looks[l].snap \in Scenes
        BY <1>a, <2>1, <3>1 DEF SceneOf
      <4>2. looks'[l].snap = looks[l].snap
        BY <1>0, <2>1, <3>1, EndsIs
      <4>3. looks[l].snap.lib \in Nat /\ image[l].lib >= looks[l].snap.lib
        BY <4>1 DEF Drawn, Scenes
      <4> QED
        BY <2>1, <4>1, <4>2, <4>3 DEF Drawn, Shown
    <3> QED
      BY <3>1
  <2> QED
    BY <1>2, <1>c, <2>1, <2>2
<1>13. ASSUME NEW l \in Looks, RetryCold(l) PROVE SceneInv'
  <2>1. looks[l].pc = "wait" /\ procs' = procs /\ scene' = scene /\ image' = image
    BY <1>13 DEF RetryCold, Waits
  <2>2. Alone(l) /\ looks'[l].pc = "retry" /\ looks'[l].snap = looks[l].snap
    <3>1. looks' = [looks EXCEPT ![l] = [@ EXCEPT !.pc = "retry", !.at = looks[l].at]]
      BY <1>0, <1>13, PassesOver DEF RetryCold
    <3> QED
      BY <1>0, <3>1, RendererIs, PassesIs DEF PCs
  <2> QED
    BY <1>1, <1>c, <2>1, <2>2
<1>14. ASSUME NEW l \in Looks, NextRenderer(l) PROVE SceneInv'
  <2>1. looks[l].pc = "wait" /\ procs' = procs /\ scene' = scene /\ image' = image
    BY <1>14 DEF NextRenderer, Waits
  <2>2. CASE looks[l].heard = "crash" /\ looks[l].kind # "render"
    <3>1. Renderer(l) # "karma" /\ looks[l].at + 1 \in 1 .. 3
      BY <1>0, <2>1, <2>2, RendererIs DEF ChainInv, ChainOf
    <3>2. looks' = [looks EXCEPT ![l] = [@ EXCEPT !.pc = "choose", !.at = looks[l].at + 1]]
      BY <1>0, <1>14, <2>2, PassesOver DEF NextRenderer
    <3>3. Alone(l) /\ looks'[l].pc = "choose" /\ looks'[l].snap = looks[l].snap
      BY <1>0, <3>1, <3>2, PassesIs DEF PCs
    <3> QED
      BY <1>1, <1>c, <2>1, <3>3
  <2>3. CASE ~(looks[l].heard = "crash" /\ looks[l].kind # "render")
    <3>1. LookEnds(l, FALSE)
      BY <1>14, <2>3 DEF NextRenderer
    <3> QED
      BY <1>2, <1>c, <2>1, <3>1
  <2> QED
    BY <2>2, <2>3
<1>15. ASSUME NEW l \in Looks, Skip(l) PROVE SceneInv'
  <2>1. looks[l].pc = "choose" /\ procs' = procs /\ scene' = scene /\ image' = image
    BY <1>15 DEF Skip
  <2>2. looks[l].at + 1 \in 1 .. 3
    BY <1>0, <1>15, RendererIs DEF Skip, ChainInv
  <2>3. looks' = [looks EXCEPT ![l] = [@ EXCEPT !.pc = "choose", !.at = looks[l].at + 1]]
    BY <1>0, <1>15, PassesOver DEF Skip
  <2>4. Alone(l) /\ looks'[l].pc = "choose" /\ looks'[l].snap = looks[l].snap
    BY <1>0, <2>2, <2>3, PassesIs DEF PCs
  <2> QED
    BY <1>1, <1>c, <2>1, <2>4
<1>16. ASSUME NEW l \in Looks, GiveUp(l) PROVE SceneInv'
  <2>1. /\ LookEnds(l, FALSE) /\ Working(l) /\ procs' = Kill({looks[l].child})
        /\ scene' = scene /\ image' = image
    BY <1>16 DEF GiveUp, Working, Killed
  <2>2. DOMAIN procs' = DOMAIN procs \ {looks[l].child} /\ \A q \in DOMAIN procs' : procs'[q] = procs[q]
    BY <1>0, <2>1, KillTyped
  <2>3. \A k \in Looks : k # l /\ Working(k) => looks[k].child \in DOMAIN procs'
    BY <1>0, <1>c, <2>1, <2>2 DEF ChildInv, Apart
  <2> QED
    BY <1>2, <2>1, <2>2, <2>3
<1>17. ASSUME NEW l \in Looks, NEW works \in BOOLEAN, Karma(l, works) PROVE SceneInv'
  <2> DEFINE picture == [by |-> "karma", nodes |-> {scene.nodes}, lib |-> scene.lib, var |-> scene.var]
  <2>1. /\ looks[l].pc = "choose" /\ LookEnds(l, works) /\ procs' = procs /\ scene' = scene
        /\ image' = IF works THEN [image EXCEPT ![l] = picture] ELSE image
    BY <1>17 DEF Karma
  <2>2. picture.by = "karma" /\ picture.nodes = {scene.nodes} /\ picture.lib = scene.lib
    OBVIOUS
  <2> HIDE DEF picture
  <2>3. \A k \in Looks : k # l => image'[k] = image[k]
    BY <1>0, <2>1 DEF CapturesTypeOK
  <2>4. ASSUME works PROVE Shown(l)'
    <3>1. image'[l] = picture
      BY <1>0, <2>1, <2>4 DEF CapturesTypeOK
    <3>2. looks'[l].snap = looks[l].snap
      BY <1>0, <2>1, <2>4, EndsIs
    <3>3. /\ looks[l].snap \in Scenes
          /\ looks[l].snap.nodes <= scene.nodes /\ looks[l].snap.lib <= scene.lib
      BY <1>a, <2>1 DEF SceneOf
    <3>4. scene.nodes >= looks[l].snap.nodes /\ scene.lib >= looks[l].snap.lib
      BY <1>b, <3>3 DEF Scenes
    <3> QED
      BY <2>2, <3>1, <3>2, <3>4 DEF Shown
  <2> QED
    BY <1>2, <1>c, <2>1, <2>3, <2>4
<1>18. CASE Change \/ UNCHANGED captureVars
  <2>1. looks' = looks /\ procs' = procs /\ image' = image
    BY <1>18 DEF Change, captureVars
  <2>2. Grows
    <3>1. \/ scene' = scene
          \/ scene' = [scene EXCEPT !.nodes = @ + 1]
          \/ scene' = [scene EXCEPT !.lib = @ + 1]
          \/ scene' = [scene EXCEPT !.nodes = @ + 1, !.var = ~@]
      BY <1>18 DEF Change, captureVars
    <3>2. \/ scene'.nodes = scene.nodes /\ scene'.lib = scene.lib
          \/ scene'.nodes = scene.nodes + 1 /\ scene'.lib = scene.lib
          \/ scene'.nodes = scene.nodes /\ scene'.lib = scene.lib + 1
      BY <1>b, <3>1 DEF Scenes
    <3> QED
      BY <1>b, <3>2 DEF Grows
  <2>3. \A q \in DOMAIN procs' : ReadsOf(q)'
    BY <1>0, <1>d, <2>1, <2>2, ReadsAlone
  <2>4. \A k \in Looks : SceneOf(k)'
    BY <1>a, <1>b, <2>1, <2>2, SceneAlone
  <2> QED
    BY <2>3, <2>4 DEF SceneInv
<1> QED
  BY <1>4, <1>5, <1>7, <1>8, <1>9, <1>10, <1>11, <1>12, <1>13, <1>14, <1>15, <1>16, <1>17, <1>18 DEF CapturesNext

-----------------------------------------------------------------------------
(* The theorems. *)

LEMMA CapturesInvariance == CapturesSpec => []CapturesInv
<1>1. CapturesInit => CapturesInv
  BY LooksBegin
<1>2. CapturesInv /\ [CapturesNext]_captureVars => CapturesInv'
  BY LookTyped, ChildStep, ChainStep, SceneStep DEF CapturesInv
<1> QED
  BY <1>1, <1>2, PTL DEF CapturesSpec

\* Every variable of the looks keeps its type, whatever crashes.
THEOREM CapturesTyped == CapturesSpec => []CapturesTypeOK
<1>1. CapturesInv => CapturesTypeOK
  BY DEF CapturesInv
<1> QED
  BY <1>1, CapturesInvariance, PTL

\* However many looks share the kept child, time out, crash it and start others: no child hython lives
\* that is neither the kept one nor at work for a look (look/flipbook.py, look/child.py).
THEOREM ChildrenAreUsed == CapturesSpec => []NoChildLeft
<1>1. CapturesInv => NoChildLeft
  BY DEF CapturesInv, ChildInv, Housed, Working, NoChildLeft
<1> QED
  BY <1>1, CapturesInvariance, PTL

\* A look's picture is of the scene it was asked of, of nothing an earlier look left in the kept child and
\* of no older assets, and drawn by the first renderer that did not crash in a child of its own
\* (look/flipbook.py, look/child.py, look/select.py).
THEOREM PicturesAreTrue == CapturesSpec => []PictureIsScene
<1>1. CapturesInv => PictureIsScene
  <2> SUFFICES ASSUME CapturesInv PROVE PictureIsScene
    OBVIOUS
  <2>1. ShowsScene
    BY DEF CapturesInv, SceneInv, SceneOf, Shown, ShowsScene
  <2>2. FallbackIsEarned
    BY DEF CapturesInv, ChainInv, ChainOf, FallbackIsEarned
  <2> QED
    BY <2>1, <2>2 DEF PictureIsScene
<1> QED
  BY <1>1, CapturesInvariance, PTL

-----------------------------------------------------------------------------
(* The jobs that borrow the scene. *)

\* What puts back what a job borrowed, and the jobs that still have to.
Back(j) == [job |-> j, fn |-> IF j \in Renders THEN "restore" ELSE "finish"]
InQueue(step) == \E i \in DOMAIN queue : queue[i] = step
Owes(j) == pc[j] \in {"work", "end"} \/ held = Back(j) \/ InQueue(Back(j))
Overrides(j) == held = [job |-> j, fn |-> "override"]

\* Which steps outlast their wait, and which were posted.
StepsFit ==
  /\ held # Unset =>
       /\ held.fn \in IF held.job \in Renders THEN {"override", "render", "restore"}
                      ELSE {"read", "frame", "finish"}
       /\ pc[held.job] \in {"end", "over"}
       /\ held.fn \in {"restore", "read", "finish"} => pc[held.job] = "over"
       /\ held.fn = "frame" => Owes(held.job)
       /\ held.fn = "render" => done[held.job] # LastFrame
       /\ held.fn = "read" => ~Owes(held.job)
  /\ \A step \in Steps : InQueue(step) => step = Back(step.job) /\ pc[step.job] = "over"

\* What a job knows of what it borrowed, and of its frames.
TaskFits(j) ==
  /\ pc[j] = "begin" => saved[j] = Unset /\ play[j].last = Unset /\ play[j].user = Unset /\ done[j] = 0
  /\ Owes(j) => IF j \in Renders THEN saved[j] # Unset ELSE play[j].start # Unset
  /\ done[j] \in 0 .. LastFrame /\ (pc[j] = "work" => done[j] # LastFrame)
  /\ outcome[j] = "done" => done[j] = LastFrame
  /\ written[j] \subseteq 1 .. LastFrame

\* The parm is the user's, or that of the one render that has to put it back.
ParmInv == spoilt \/
  /\ parm = want \/ \E j \in Renders : parm = j /\ Owes(j)
  /\ \A j \in Renders :
       /\ Owes(j) /\ ~Overrides(j) => saved[j] = want
       /\ pc[j] \in {"work", "end"} /\ ~Overrides(j) => parm = j
       /\ Overrides(j) => Owes(j)
       /\ 1 .. done[j] \subseteq written[j]
  /\ \A j, k \in Renders : j # k /\ Owes(j) /\ Owes(k) => Overrides(j) \/ Overrides(k)
  /\ \A j, k \in Renders : j # k /\ Owes(j) /\ Overrides(k) => parm = j

\* Where a cook will put the playbar: to where the user has it, and no two cooks move it.
Home(j) == IF kind[j] = "range" THEN Target(Noticed(play[j])) ELSE play[j].start
FrameInv == strayed \/
  /\ frame = wish \/ \E j \in Cooks : Owes(j)
  /\ \A j \in Cooks : Owes(j) => Home(j) = wish
  /\ \A j, k \in Cooks : Owes(j) /\ Owes(k) => j = k

RendersInv == RendersTypeOK /\ StepsFit /\ (\A j \in Tasks : TaskFits(j)) /\ ParmInv /\ FrameInv

-----------------------------------------------------------------------------
(* The queue, and what is owed. *)

LEMMA BackIs ==
  ASSUME NEW j \in Tasks
  PROVE  /\ Back(j) \in Steps /\ Back(j) # Unset /\ Back(j).job = j
         /\ \A step : step = Back(j) => step.job = j
         /\ Back(j).fn = IF j \in Renders THEN "restore" ELSE "finish"
BY RendersAssumption DEF Back, Steps

LEMMA EmptyIs == queue = <<>> => \A step : ~InQueue(step)
BY DEF InQueue

LEMMA AppendIs ==
  ASSUME queue \in Seq(Steps), NEW step \in Steps, queue' = queue \o Posted(step)
  PROVE  /\ queue' \in Seq(Steps)
         /\ \A other : InQueue(other)' <=> InQueue(other) \/ other = step
<1>1. queue' = Append(queue, step) /\ queue' \in Seq(Steps)
  BY DEF Posted
<1>2. /\ DOMAIN queue' = DOMAIN queue \cup {Len(queue) + 1}
      /\ \A i \in DOMAIN queue : queue'[i] = queue[i]
      /\ queue'[Len(queue) + 1] = step
  BY <1>1
<1> QED
  BY <1>1, <1>2 DEF InQueue

LEMMA TailIs ==
  ASSUME queue \in Seq(Steps), queue # <<>>, queue' = Tail(queue)
  PROVE  /\ Head(queue) \in Steps /\ InQueue(Head(queue)) /\ queue' \in Seq(Steps)
         /\ \A step : InQueue(step)' => InQueue(step)
         /\ \A step : InQueue(step) => step = Head(queue) \/ InQueue(step)'
<1>1. /\ Head(queue) = queue[1] /\ 1 \in DOMAIN queue /\ queue' \in Seq(Steps)
      /\ queue[1] \in Steps
  OBVIOUS
<1>2. \A i \in DOMAIN queue' : i + 1 \in DOMAIN queue /\ queue'[i] = queue[i + 1]
  OBVIOUS
<1>3. \A i \in DOMAIN queue : i = 1 \/ (i - 1 \in DOMAIN queue' /\ queue'[i - 1] = queue[i])
  OBVIOUS
<1>4. InQueue(Head(queue)) /\ \A step : InQueue(step)' => InQueue(step)
  BY <1>1, <1>2 DEF InQueue
<1>5. \A step : InQueue(step) => step = Head(queue) \/ InQueue(step)'
  BY <1>1, <1>3 DEF InQueue
<1> QED
  BY <1>1, <1>4, <1>5

\* Nothing changes what kind of job one is.
LEMMA KindStays ==
  ASSUME kind' = kind
  PROVE  Renders' = Renders /\ Cooks' = Cooks /\ \A j : Back(j)' = Back(j)
BY DEF Renders, Cooks, Back

\* What is owed while no step of a job runs or waits.
LEMMA OwedAtRest ==
  ASSUME Ready
  PROVE  \A j \in Tasks : Owes(j) <=> pc[j] \in {"work", "end"}
BY EmptyIs, BackIs DEF Ready, Owes

-----------------------------------------------------------------------------
(* Types. *)

LEMMA NoticedIs ==
  ASSUME frame \in Nat, NEW p \in Playheads
  PROVE  /\ Noticed(p) \in Playheads /\ Noticed(p).start = p.start /\ Noticed(p).last = p.last
         /\ Noticed(p).user = IF p.last # Unset /\ frame # p.last THEN frame ELSE p.user
         /\ p.start # Unset => Target(p) \in Nat
BY DEF Noticed, Playheads, Target

\* What a step borrows and puts back has the types it had.
SceneTyped ==
  /\ rop \in BOOLEAN /\ parm \in Nat \cup Tasks /\ frame \in Nat
  /\ saved \in [Tasks -> Nat \cup Tasks \cup {Unset}] /\ play \in [Tasks -> Playheads]
  /\ written \in [Tasks -> SUBSET Nat] /\ want \in Nat /\ wish \in Nat
  /\ spoilt \in BOOLEAN /\ strayed \in BOOLEAN

LEMMA EffectTyped ==
  ASSUME RendersTypeOK, NEW j \in Tasks,
         NEW fn \in {"override", "render", "restore", "read", "frame", "missing", "finish"},
         fn = "restore" => saved[j] # Unset, fn = "finish" => play[j].start # Unset, Effect(j, fn)
  PROVE  SceneTyped'
<1> DEFINE p == play[j]
<1>0. /\ p \in Playheads /\ frame \in Nat /\ LastFrame \in Nat /\ done[j] \in Nat
      /\ SceneTyped
  BY RendersAssumption DEF RendersTypeOK, SceneTyped
<1>1. CASE fn = "override"
  BY <1>0, <1>1 DEF Effect, Override, SceneTyped
<1>2. CASE fn = "render"
  <2>1. RenderFrame(j)
    BY <1>2 DEF Effect
  <2>2. written' \in [Tasks -> SUBSET Nat]
    BY <1>0, <2>1 DEF RenderFrame, SceneTyped
  <2> QED
    BY <1>0, <2>1, <2>2 DEF RenderFrame, SceneTyped, sceneVars, stepVars
<1>3. CASE fn = "restore"
  <2>1. Restore(j)
    BY <1>3 DEF Effect
  <2>2. saved[j] \in Nat \cup Tasks
    BY <1>0, <1>3 DEF SceneTyped
  <2> QED
    BY <1>0, <2>1, <2>2 DEF Restore, SceneTyped, stepVars
<1>4. CASE fn = "read"
  <2>1. ReadFrame(j)
    BY <1>4 DEF Effect
  <2>2. [p EXCEPT !.start = frame] \in Playheads
    BY <1>0 DEF Playheads
  <2>3. play' = [play EXCEPT ![j] = [p EXCEPT !.start = frame]]
    BY <1>0, <2>1 DEF ReadFrame, SceneTyped
  <2> HIDE DEF p
  <2>4. play' \in [Tasks -> Playheads]
    BY <1>0, <2>2, <2>3 DEF SceneTyped
  <2>5. strayed' \in BOOLEAN
    BY <1>0, <2>1 DEF ReadFrame, SceneTyped
  <2> QED
    BY <1>0, <2>1, <2>4, <2>5 DEF ReadFrame, SceneTyped, sceneVars
<1>5. CASE fn \in {"frame", "missing"}
  <2> DEFINE to == IF kind[j] = "range" THEN done[j] + 1 ELSE 1
  <2>1. SetFrame(j, fn = "frame")
    <3>1. CASE fn = "frame"
      BY <3>1 DEF Effect
    <3>2. CASE fn = "missing"
      BY <3>2 DEF Effect
    <3> QED
      BY <1>5, <3>1, <3>2
  <2>2. Noticed(p) \in Playheads /\ [Noticed(p) EXCEPT !.last = to] \in Playheads /\ to \in Nat
    BY <1>0, NoticedIs DEF Playheads
  <2>3. \/ play' = play
        \/ play' = [play EXCEPT ![j] = [Noticed(p) EXCEPT !.last = to]]
        \/ play' = [play EXCEPT ![j] = Noticed(p)]
    BY <1>0, <2>1 DEF SetFrame, SceneTyped
  <2>4. frame' = to /\ strayed' \in BOOLEAN /\ UNCHANGED <<rop, parm, saved, written, want, wish, spoilt>>
    BY <1>0, <2>1 DEF SetFrame, SceneTyped
  <2> HIDE DEF p, to
  <2>5. play' \in [Tasks -> Playheads]
    BY <1>0, <2>2, <2>3 DEF SceneTyped
  <2> QED
    BY <1>0, <2>2, <2>4, <2>5 DEF SceneTyped
<1>6. CASE fn = "finish"
  <2>1. IF kind[j] = "range" THEN FinishPlayhead(j) ELSE RestoreFrame(j)
    BY <1>6 DEF Effect
  <2>2. p.start \in Nat
    BY <1>0, <1>6 DEF Playheads
  <2>3. CASE kind[j] = "range"
    <3>1. Noticed(p) \in Playheads /\ Target(Noticed(p)) \in Nat
      BY <1>0, <2>2, NoticedIs, RendersAssumption
    <3>2. play' = [play EXCEPT ![j] = Noticed(p)] /\ frame' = Target(Noticed(p))
      BY <2>1, <2>3 DEF FinishPlayhead
    <3> HIDE DEF p
    <3>3. play' \in [Tasks -> Playheads]
      BY <1>0, <3>1, <3>2 DEF SceneTyped
    <3> QED
      BY <1>0, <2>1, <2>3, <3>1, <3>2, <3>3 DEF FinishPlayhead, SceneTyped, history
  <2>4. CASE kind[j] # "range"
    BY <1>0, <2>1, <2>2, <2>4 DEF RestoreFrame, SceneTyped, stepVars, history
  <2> QED
    BY <2>3, <2>4
<1> QED
  BY <1>1, <1>2, <1>3, <1>4, <1>5, <1>6

LEMMA RendersBegin == RendersInit => RendersInv
<1> SUFFICES ASSUME RendersInit PROVE RendersInv
  OBVIOUS
<1>1. RendersTypeOK
  <2>1. play \in [Tasks -> Playheads]
    BY DEF RendersInit, Playheads
  <2>2. written \in [Tasks -> SUBSET Nat]
    BY DEF RendersInit
  <2>3. queue \in Seq(Steps)
    BY DEF RendersInit
  <2> QED
    BY <2>1, <2>2, <2>3 DEF RendersInit, RendersTypeOK
<1>2. Ready /\ held = Unset /\ (\A j \in Tasks : ~Owes(j)) /\ (\A step : ~InQueue(step))
  BY OwedAtRest, EmptyIs DEF RendersInit, Ready
<1>3. StepsFit
  BY <1>2 DEF StepsFit
<1>4. ASSUME NEW j \in Tasks PROVE TaskFits(j)
  <2>1. 0 \in 0 .. LastFrame
    BY RendersAssumption
  <2>2. /\ pc[j] = "begin" /\ saved[j] = Unset /\ play[j].last = Unset /\ play[j].user = Unset
        /\ done[j] = 0 /\ outcome[j] = "running" /\ written[j] = {} /\ ~Owes(j)
    BY <1>2 DEF RendersInit
  <2> QED
    BY <2>1, <2>2 DEF TaskFits
<1>5. ParmInv
  <2>1. \A j \in Renders : j \in Tasks /\ ~Owes(j) /\ ~Overrides(j) /\ pc[j] = "begin" /\ done[j] = 0
    BY <1>2, RendersAssumption DEF RendersInit, Renders, Overrides, Steps
  <2>2. 1 .. 0 = {} /\ parm = want
    BY DEF RendersInit
  <2> QED
    BY <2>1, <2>2 DEF ParmInv
<1>6. FrameInv
  BY <1>2 DEF RendersInit, FrameInv, Cooks
<1> QED
  BY <1>1, <1>3, <1>4, <1>5, <1>6 DEF RendersInv

\* The step that a job is at, of what kind it is.
LEMMA StepOfIs ==
  ASSUME RendersTypeOK, NEW j \in Tasks, pc[j] # "over"
  PROVE  /\ StepOf(j) \in {"override", "render", "restore", "read", "frame", "finish"}
         /\ [job |-> j, fn |-> StepOf(j)] \in Steps
         /\ j \in Renders => StepOf(j) \in {"override", "render", "restore"}
         /\ j \notin Renders => StepOf(j) \in {"read", "frame", "finish"}
         /\ pc[j] = "end" => [job |-> j, fn |-> StepOf(j)] = Back(j)
         /\ pc[j] = "begin" <=> StepOf(j) \in {"override", "read"}
         /\ pc[j] = "work" <=> StepOf(j) \in {"render", "frame"}
         /\ pc[j] = "end" <=> StepOf(j) \in {"restore", "finish"}
BY DEF RendersTypeOK, StepOf, Steps, Back

-----------------------------------------------------------------------------
(* What each step does to the threads and to what is owed. *)

\* The threads of the other jobs stay where they are.
Others(j) ==
  \A k \in Tasks \ {j} : pc'[k] = pc[k] /\ done'[k] = done[k] /\ outcome'[k] = outcome[k]
ThreadsTyped ==
  /\ pc \in [Tasks -> {"begin", "work", "end", "over"}]
  /\ done \in [Tasks -> Nat] /\ outcome \in [Tasks -> {"running", "done", "failed"}]

LEMMA RunControl ==
  ASSUME RendersTypeOK, NEW j \in Tasks, RunStep(j)
  PROVE  /\ Ready /\ held = Unset /\ held' = Unset /\ queue' = queue /\ kind' = kind
         /\ ThreadsTyped' /\ Others(j)
         /\ pc[j] = "begin" => pc'[j] = "work" /\ done'[j] = done[j] /\ outcome'[j] = outcome[j]
         /\ pc[j] = "work" =>
              /\ done'[j] = done[j] + 1
              /\ IF done[j] + 1 = LastFrame THEN pc'[j] = "end" /\ outcome'[j] = "done"
                 ELSE pc'[j] = "work" /\ outcome'[j] = outcome[j]
         /\ pc[j] = "end" => pc'[j] = "over" /\ done'[j] = done[j] /\ outcome'[j] = outcome[j]
         /\ \A k \in Tasks : Owes(k) <=> pc[k] \in {"work", "end"}
         /\ \A k \in Tasks : Owes(k)' <=> pc'[k] \in {"work", "end"}
<1>1. Ready /\ held = Unset /\ held' = Unset /\ queue' = queue /\ queue = <<>> /\ Advance(j)
  BY DEF RunStep, Ready, mainVars
<1>2. kind' = kind
  BY <1>1 DEF Advance
<1>3. \A k \in Tasks : ~InQueue(Back(k)) /\ ~InQueue(Back(k))'
  BY <1>1, EmptyIs DEF InQueue
<1>4. \A k \in Tasks : held # Back(k) /\ held' # Back(k)'
  BY <1>1, <1>2, BackIs, KindStays
<1>5. Others(j) /\ ThreadsTyped'
  BY <1>1 DEF Advance, Others, ThreadsTyped, RendersTypeOK
<1>6. /\ pc[j] = "begin" => pc'[j] = "work" /\ done'[j] = done[j] /\ outcome'[j] = outcome[j]
      /\ pc[j] = "work" =>
              /\ done'[j] = done[j] + 1
              /\ IF done[j] + 1 = LastFrame THEN pc'[j] = "end" /\ outcome'[j] = "done"
                 ELSE pc'[j] = "work" /\ outcome'[j] = outcome[j]
      /\ pc[j] = "end" => pc'[j] = "over" /\ done'[j] = done[j] /\ outcome'[j] = outcome[j]
  BY <1>1 DEF Advance, RendersTypeOK
<1> QED
  BY <1>1, <1>2, <1>3, <1>4, <1>5, <1>6 DEF Owes

LEMMA FailControl ==
  ASSUME RendersTypeOK, StepsFit, NEW j \in Tasks, TaskFits(j), StepErrs(j) \/ StepRefused(j)
  PROVE  /\ UNCHANGED <<mainVars, moves, lates, kind, done>>
         /\ \/ UNCHANGED <<sceneVars, stepVars, history>>
            \/ j \notin Renders /\ pc[j] = "work" /\ Effect(j, "missing")
         /\ ThreadsTyped' /\ Others(j)
         /\ pc[j] \in {"begin", "work"} /\ outcome'[j] = "failed"
         /\ pc'[j] = IF pc[j] = "work" THEN "end" ELSE "over"
         /\ \A k \in Tasks : Owes(k)' <=> Owes(k)
<1>1. /\ UNCHANGED <<mainVars, moves, lates, kind, done>>
      /\ pc[j] \in {"begin", "work"} /\ Fails(j)
  BY DEF StepErrs, StepRefused, Fails
<1>0. \/ UNCHANGED <<sceneVars, stepVars, history>>
      \/ j \notin Renders /\ pc[j] = "work" /\ Effect(j, "missing")
  <2>1. CASE StepRefused(j)
    BY <2>1 DEF StepRefused
  <2>2. CASE StepErrs(j) /\ StepOf(j) # "frame"
    BY <2>2 DEF StepErrs
  <2>3. CASE StepErrs(j) /\ StepOf(j) = "frame"
    <3>1. Effect(j, "missing") /\ pc[j] # "over"
      BY <1>1, <2>3 DEF StepErrs
    <3> QED
      BY <2>3, <3>1, StepOfIs
  <2> QED
    BY <2>1, <2>2, <2>3
<1>2. Others(j) /\ ThreadsTyped' /\ outcome'[j] = "failed"
  BY <1>1 DEF Fails, Others, ThreadsTyped, RendersTypeOK
<1>3. Lasts(j) <=> pc[j] = "work"
  BY <1>1 DEF Lasts, TaskFits, Owes
<1>4. pc'[j] = IF pc[j] = "work" THEN "end" ELSE "over"
  BY <1>1, <1>3 DEF Fails, RendersTypeOK
<1>5. \A k \in Tasks : /\ Back(k)' = Back(k)
                       /\ held' = Back(k)' <=> held = Back(k)
                       /\ InQueue(Back(k))' <=> InQueue(Back(k))
  BY <1>1, KindStays DEF mainVars, InQueue
<1>6. pc[j] = "begin" => held # Back(j) /\ ~InQueue(Back(j))
  BY <1>1, BackIs DEF StepsFit
<1> QED
  BY <1>0, <1>1, <1>2, <1>4, <1>5, <1>6 DEF Owes, Others

LEMMA LateControl ==
  ASSUME RendersTypeOK, NEW j \in Tasks, NEW half \in BOOLEAN, StepLate(j, half)
  PROVE  /\ Ready /\ held = Unset /\ held' = [job |-> j, fn |-> StepOf(j)] /\ held' \in Steps
         /\ UNCHANGED <<sceneVars, play, kind, done, queue, moves, written, want, wish, strayed>>
         /\ ThreadsTyped' /\ Others(j) /\ lates' \in Nat
         /\ pc[j] \in {"begin", "work"} /\ outcome'[j] = "failed"
         /\ half => StepOf(j) = "override"
         /\ pc'[j] = IF half \/ pc[j] = "work" THEN "end" ELSE "over"
         /\ saved' = IF half THEN [saved EXCEPT ![j] = parm] ELSE saved
         /\ spoilt' = (spoilt \/ (StepOf(j) = "override" /\ ~half))
         /\ HasRop(j)
         /\ \A k \in Tasks : Owes(k) <=> pc[k] \in {"work", "end"}
         /\ \A k \in Tasks : Owes(k)' <=> pc'[k] \in {"work", "end"}
<1>1. /\ Ready /\ held = Unset /\ held' = [job |-> j, fn |-> StepOf(j)] /\ queue = <<>>
      /\ UNCHANGED <<sceneVars, play, kind, done, queue, moves, written, want, wish, strayed>>
      /\ pc[j] \in {"begin", "work"} /\ HasRop(j) /\ lates' = lates + 1
      /\ half => StepOf(j) = "override"
      /\ saved' = IF half THEN [saved EXCEPT ![j] = parm] ELSE saved
      /\ spoilt' = (spoilt \/ (StepOf(j) = "override" /\ ~half))
      /\ pc' = [pc EXCEPT ![j] = IF half \/ pc[j] = "work" THEN "end" ELSE "over"]
      /\ outcome' = [outcome EXCEPT ![j] = "failed"]
  BY DEF StepLate, Ready
<1>2. Others(j) /\ ThreadsTyped' /\ outcome'[j] = "failed" /\ lates' \in Nat
      /\ pc'[j] = IF half \/ pc[j] = "work" THEN "end" ELSE "over"
  BY <1>1 DEF Others, ThreadsTyped, RendersTypeOK
<1>3. StepOf(j) \notin {"restore", "finish"} /\ held' \in Steps
  BY <1>1, StepOfIs
<1>4. \A k \in Tasks : ~InQueue(Back(k)) /\ ~InQueue(Back(k))'
  BY <1>1, EmptyIs DEF InQueue
<1>5. \A k \in Tasks : held # Back(k) /\ held' # Back(k)'
  BY <1>1, <1>3, BackIs, KindStays
<1> QED
  BY <1>1, <1>2, <1>3, <1>4, <1>5 DEF Owes

LEMMA FallbackControl ==
  ASSUME RendersTypeOK, NEW j \in Tasks, NEW late \in BOOLEAN, Fallback(j, late)
  PROVE  /\ UNCHANGED <<sceneVars, stepVars, kind, done, outcome, moves, history>>
         /\ ThreadsTyped' /\ Others(j) /\ lates' \in Nat /\ queue' \in Seq(Steps)
         /\ pc[j] = "end" /\ pc'[j] = "over"
         /\ IF late THEN Ready /\ held' = Back(j) ELSE held' = held
         /\ \A step : InQueue(step)' <=> InQueue(step) \/ step = Back(j)
         /\ \A k \in Tasks : Owes(k)' <=> Owes(k)
<1>1. /\ UNCHANGED <<sceneVars, stepVars, kind, done, outcome, moves, history>>
      /\ pc[j] = "end" /\ pc' = [pc EXCEPT ![j] = "over"] /\ lates' \in {lates, lates + 1}
      /\ IF late THEN Ready /\ held' = Back(j) ELSE held' = held
      /\ queue' = queue \o Posted(Back(j))
  BY StepOfIs DEF Fallback
<1>2. Others(j) /\ ThreadsTyped' /\ lates' \in Nat /\ pc'[j] = "over"
  BY <1>1 DEF Others, ThreadsTyped, RendersTypeOK
<1>3. /\ queue' \in Seq(Steps)
      /\ \A step : InQueue(step)' <=> InQueue(step) \/ step = Back(j)
  BY <1>1, BackIs, AppendIs DEF RendersTypeOK
<1>4. \A k \in Tasks : Back(k)' = Back(k) /\ (k # j => Back(k) # Back(j)) /\ Back(k) # Unset
  BY <1>1, KindStays, BackIs
<1>5. \A k \in Tasks : k # j => (held' = Back(k) <=> held = Back(k))
  BY <1>1, <1>4 DEF Ready
<1> QED
  BY <1>1, <1>2, <1>3, <1>4, <1>5 DEF Owes, Others

LEMMA EndsControl ==
  ASSUME RendersTypeOK, StepsFit, LateEnds
  PROVE  /\ held \in Steps /\ held' = Unset /\ UNCHANGED <<taskVars, queue, moves, lates>>
         /\ \E fn \in {"override", "render", "restore", "read", "frame", "missing", "finish"} :
              Effect(held.job, fn) /\ (fn = held.fn \/ (fn = "missing" /\ held.fn = "frame"))
         /\ \A k \in Tasks : Owes(k)' => Owes(k)
         /\ \A k \in Tasks : Owes(k) => Owes(k)' \/ held = Back(k)
<1>1. /\ held \in Steps /\ held' = Unset /\ UNCHANGED <<taskVars, queue, moves, lates>>
      /\ Effect(held.job, held.fn) \/ (held.fn = "frame" /\ Effect(held.job, "missing"))
  BY DEF LateEnds, RendersTypeOK
<1>0. \E fn \in {"override", "render", "restore", "read", "frame", "missing", "finish"} :
        Effect(held.job, fn) /\ (fn = held.fn \/ (fn = "missing" /\ held.fn = "frame"))
  <2>1. held.fn \in {"override", "render", "restore", "read", "frame", "finish"}
    BY <1>1 DEF Steps
  <2>2. CASE Effect(held.job, held.fn)
    BY <2>1, <2>2
  <2>3. CASE held.fn = "frame" /\ Effect(held.job, "missing")
    BY <2>3
  <2> QED
    BY <1>1, <2>2, <2>3
<1>2. \A k \in Tasks : Back(k)' = Back(k) /\ Back(k) # Unset
  BY <1>1, KindStays, BackIs DEF taskVars
<1>3. \A step : InQueue(step)' <=> InQueue(step)
  BY <1>1 DEF InQueue
<1> QED
  BY <1>0, <1>1, <1>2, <1>3 DEF Owes, taskVars

LEMMA PostedControl ==
  ASSUME RendersTypeOK, StepsFit, RunPosted
  PROVE  \E j \in Tasks :
         /\ Head(queue) = Back(j) /\ InQueue(Back(j)) /\ Owes(j) /\ pc[j] = "over"
         /\ Effect(j, IF j \in Renders THEN "restore" ELSE "finish")
         /\ held = Unset /\ held' = Unset /\ queue' \in Seq(Steps)
         /\ UNCHANGED <<taskVars, moves, lates>>
         /\ \A step : InQueue(step)' => InQueue(step)
         /\ \A k \in Tasks : Owes(k)' => Owes(k)
         /\ \A k \in Tasks : Owes(k) => Owes(k)' \/ k = j
<1> DEFINE j == Head(queue).job
<1>1. /\ queue \in Seq(Steps) /\ queue # <<>> /\ queue' = Tail(queue)
      /\ held = Unset /\ held' = Unset /\ UNCHANGED <<taskVars, moves, lates>>
      /\ Effect(Head(queue).job, Head(queue).fn)
  BY DEF RunPosted, RendersTypeOK
<1>2. /\ Head(queue) \in Steps /\ InQueue(Head(queue)) /\ queue' \in Seq(Steps)
      /\ \A step : InQueue(step)' => InQueue(step)
      /\ \A step : InQueue(step) => step = Head(queue) \/ InQueue(step)'
  BY <1>1, TailIs
<1>3. j \in Tasks
  BY <1>2 DEF Steps
<1>4. Head(queue) = Back(j) /\ pc[j] = "over" /\ Head(queue).fn = IF j \in Renders THEN "restore" ELSE "finish"
  BY <1>2, <1>3, BackIs DEF StepsFit
<1>5. \A k \in Tasks : Back(k)' = Back(k) /\ (k # j => Back(k) # Back(j)) /\ Back(k) # Unset
  BY <1>1, <1>3, KindStays, BackIs DEF taskVars
<1> HIDE DEF j
<1>6. /\ \A k \in Tasks : Owes(k)' => Owes(k)
      /\ \A k \in Tasks : Owes(k) => Owes(k)' \/ k = j
  BY <1>1, <1>2, <1>3, <1>4, <1>5 DEF Owes, taskVars
<1>7. Effect(j, IF j \in Renders THEN "restore" ELSE "finish")
  BY <1>1, <1>4 DEF j
<1> QED
  BY <1>1, <1>2, <1>3, <1>4, <1>6, <1>7 DEF Owes

LEMMA UserControl ==
  ASSUME RendersTypeOK, EditParm \/ DeleteRop \/ (\E to \in 0 .. Away : Scrub(to)) \/ UNCHANGED rendersVars
  PROVE  /\ UNCHANGED <<taskVars, stepVars, mainVars, lates, written>>
         /\ \A k \in Tasks : Owes(k)' <=> Owes(k)
<1>1. UNCHANGED <<taskVars, stepVars, mainVars, lates, written>>
  BY DEF EditParm, DeleteRop, Scrub, rendersVars, history
<1>2. \A k \in Tasks : Back(k)' = Back(k)
  BY <1>1, KindStays DEF taskVars
<1> QED
  BY <1>1, <1>2 DEF Owes, InQueue, taskVars, mainVars

-----------------------------------------------------------------------------
(* What a step leaves of what its job and the others know. *)

LEMMA EffectIs ==
  ASSUME RendersTypeOK, NEW j \in Tasks,
         NEW fn \in {"override", "render", "restore", "read", "frame", "missing", "finish"}, Effect(j, fn)
  PROVE  /\ \A k \in Tasks \ {j} : saved'[k] = saved[k] /\ play'[k] = play[k] /\ written'[k] = written[k]
         /\ fn = "override" => saved'[j] = parm
         /\ fn # "override" => saved' = saved
         /\ fn \in {"override", "render", "restore"} => play' = play
         /\ fn = "render" => written'[j] = IF rop /\ parm = j THEN written[j] \cup {done[j] + 1} ELSE written[j]
         /\ fn # "render" => written' = written
         /\ fn = "read" => play'[j].start = frame /\ play'[j].last = play[j].last /\ play'[j].user = play[j].user
         /\ fn \in {"frame", "missing", "finish"} => play'[j].start = play[j].start
<1> DEFINE p == play[j]
<1>0. p \in Playheads /\ play \in [Tasks -> Playheads] /\ saved \in [Tasks -> Nat \cup Tasks \cup {Unset}]
      /\ written \in [Tasks -> SUBSET Nat] /\ frame \in Nat
  BY DEF RendersTypeOK
<1>1. CASE fn = "override"
  BY <1>0, <1>1 DEF Effect, Override
<1>2. CASE fn = "render"
  BY <1>0, <1>2 DEF Effect, RenderFrame, stepVars
<1>3. CASE fn = "restore"
  BY <1>0, <1>3 DEF Effect, Restore, stepVars
<1>4. CASE fn = "read"
  <2>1. play' = [play EXCEPT ![j] = [p EXCEPT !.start = frame]] /\ saved' = saved /\ written' = written
    BY <1>0, <1>4 DEF Effect, ReadFrame
  <2>2. [p EXCEPT !.start = frame].start = frame /\ [p EXCEPT !.start = frame].last = p.last
        /\ [p EXCEPT !.start = frame].user = p.user
    BY <1>0 DEF Playheads
  <2> QED
    BY <1>0, <1>4, <2>1, <2>2
<1>5. CASE fn \in {"frame", "missing"}
  <2> DEFINE to == IF kind[j] = "range" THEN done[j] + 1 ELSE 1
             q == IF fn = "frame" THEN [Noticed(p) EXCEPT !.last = to] ELSE Noticed(p)
  <2>0. SetFrame(j, fn = "frame")
    <3>1. CASE fn = "frame"
      BY <3>1 DEF Effect
    <3>2. CASE fn = "missing"
      BY <3>2 DEF Effect
    <3> QED
      BY <1>5, <3>1, <3>2
  <2>1. (play' = play \/ play' = [play EXCEPT ![j] = q]) /\ saved' = saved /\ written' = written
    BY <1>0, <2>0 DEF SetFrame
  <2>2. q.start = p.start
    BY <1>0, NoticedIs DEF Playheads
  <2> HIDE DEF q
  <2> QED
    BY <1>0, <1>5, <2>1, <2>2
<1>6. CASE fn = "finish"
  <2> DEFINE q == Noticed(p)
  <2>1. (play' = play \/ play' = [play EXCEPT ![j] = q]) /\ saved' = saved /\ written' = written
    BY <1>0, <1>6 DEF Effect, FinishPlayhead, RestoreFrame, stepVars, history
  <2>2. q.start = p.start
    BY <1>0, NoticedIs DEF Playheads
  <2> HIDE DEF q
  <2> QED
    BY <1>0, <1>6, <2>1, <2>2
<1> QED
  BY <1>1, <1>2, <1>3, <1>4, <1>5, <1>6

LEMMA RendersTypeStep == RendersInv /\ [RendersNext]_rendersVars => RendersTypeOK'
<1> SUFFICES ASSUME RendersInv, [RendersNext]_rendersVars PROVE RendersTypeOK'
  OBVIOUS
<1>0. /\ RendersTypeOK /\ StepsFit /\ SceneTyped /\ ThreadsTyped
      /\ \A j \in Tasks : TaskFits(j)
  BY DEF RendersInv, RendersTypeOK, SceneTyped, ThreadsTyped
<1> USE DEF taskVars, sceneVars, stepVars, mainVars, history
<1>1. ASSUME NEW j \in Tasks, RunStep(j) PROVE RendersTypeOK'
  <2>1. pc[j] # "over" /\ Effect(j, StepOf(j)) /\ UNCHANGED <<moves, lates>>
    BY <1>1 DEF RunStep
  <2>2. /\ held' = Unset /\ queue' = queue /\ kind' = kind /\ ThreadsTyped'
        /\ \A k \in Tasks : Owes(k) <=> pc[k] \in {"work", "end"}
    BY <1>0, <1>1, RunControl
  <2>3. /\ StepOf(j) \in {"override", "render", "restore", "read", "frame", "finish"}
        /\ StepOf(j) \in {"restore", "finish"} => pc[j] = "end"
        /\ StepOf(j) = "restore" <=> pc[j] = "end" /\ j \in Renders
    BY <1>0, <2>1, StepOfIs
  <2>4. (StepOf(j) = "restore" => saved[j] # Unset) /\ (StepOf(j) = "finish" => play[j].start # Unset)
    BY <1>0, <2>2, <2>3 DEF TaskFits
  <2>5. SceneTyped'
    BY <1>0, <2>1, <2>3, <2>4, EffectTyped
  <2> QED
    BY <1>0, <2>1, <2>2, <2>5 DEF RendersTypeOK, SceneTyped, ThreadsTyped
<1>2. ASSUME NEW j \in Tasks, StepErrs(j) \/ StepRefused(j) PROVE RendersTypeOK'
  <2>1. /\ UNCHANGED <<mainVars, moves, lates, kind>> /\ ThreadsTyped'
        /\ UNCHANGED <<sceneVars, stepVars, history>> \/ Effect(j, "missing")
    BY <1>0, <1>2, FailControl
  <2>2. SceneTyped'
    <3>1. CASE UNCHANGED <<sceneVars, stepVars, history>>
      BY <1>0, <3>1 DEF SceneTyped
    <3>2. CASE Effect(j, "missing")
      BY <1>0, <3>2, EffectTyped
    <3> QED
      BY <2>1, <3>1, <3>2
  <2> QED
    BY <1>0, <2>1, <2>2 DEF RendersTypeOK, SceneTyped, ThreadsTyped
<1>3. ASSUME NEW j \in Tasks, NEW half \in BOOLEAN, StepLate(j, half) PROVE RendersTypeOK'
  <2>1. /\ UNCHANGED <<sceneVars, play, kind, queue, moves, written, want, wish, strayed>>
        /\ ThreadsTyped' /\ lates' \in Nat /\ held' \in Steps
        /\ saved' = IF half THEN [saved EXCEPT ![j] = parm] ELSE saved
        /\ spoilt' = (spoilt \/ (StepOf(j) = "override" /\ ~half))
    BY <1>0, <1>3, LateControl
  <2>2. saved' \in [Tasks -> Nat \cup Tasks \cup {Unset}] /\ spoilt' \in BOOLEAN
    BY <1>0, <2>1 DEF SceneTyped
  <2> QED
    BY <1>0, <2>1, <2>2 DEF RendersTypeOK, ThreadsTyped
<1>4. ASSUME NEW j \in Tasks, NEW late \in BOOLEAN, Fallback(j, late) PROVE RendersTypeOK'
  <2>1. /\ UNCHANGED <<sceneVars, stepVars, kind, moves, history>>
        /\ ThreadsTyped' /\ lates' \in Nat /\ queue' \in Seq(Steps)
        /\ IF late THEN held' = Back(j) ELSE held' = held
    BY <1>0, <1>4, FallbackControl
  <2>2. held' \in Steps \cup {Unset}
    BY <1>0, <2>1, BackIs DEF RendersTypeOK
  <2> QED
    BY <1>0, <2>1, <2>2 DEF RendersTypeOK, ThreadsTyped
<1>5. CASE LateEnds
  <2>1. /\ held \in Steps /\ held' = Unset /\ UNCHANGED <<taskVars, queue, moves, lates>>
        /\ \E fn \in {"override", "render", "restore", "read", "frame", "missing", "finish"} :
             Effect(held.job, fn) /\ (fn = held.fn \/ (fn = "missing" /\ held.fn = "frame"))
    BY <1>0, <1>5, EndsControl
  <2>2. /\ held.job \in Tasks /\ held # Unset
        /\ held = [job |-> held.job, fn |-> held.fn]
    BY <2>1, RendersAssumption DEF Steps
  <2>3. (held.fn = "restore" => saved[held.job] # Unset) /\ (held.fn = "finish" => play[held.job].start # Unset)
    <3>1. held.fn \in {"restore", "finish"} => held = Back(held.job)
      BY <1>0, <2>2 DEF StepsFit, Back
    <3> QED
      BY <1>0, <2>2, <3>1 DEF TaskFits, Owes, StepsFit
  <2>4. PICK fn \in {"override", "render", "restore", "read", "frame", "missing", "finish"} :
              Effect(held.job, fn) /\ (fn = held.fn \/ (fn = "missing" /\ held.fn = "frame"))
    BY <2>1
  <2>5. (fn = "restore" => saved[held.job] # Unset) /\ (fn = "finish" => play[held.job].start # Unset)
    BY <2>3, <2>4
  <2>6. SceneTyped'
    BY <1>0, <2>2, <2>4, <2>5, EffectTyped
  <2> QED
    BY <1>0, <2>1, <2>6 DEF RendersTypeOK, SceneTyped
<1>6. CASE RunPosted
  <2>1. PICK j \in Tasks :
         /\ Owes(j) /\ Effect(j, IF j \in Renders THEN "restore" ELSE "finish")
         /\ held' = Unset /\ queue' \in Seq(Steps) /\ UNCHANGED <<taskVars, moves, lates>>
    BY <1>0, <1>6, PostedControl
  <2>2. SceneTyped'
    <3>1. CASE j \in Renders
      BY <1>0, <2>1, <3>1, EffectTyped DEF TaskFits
    <3>2. CASE j \notin Renders
      BY <1>0, <2>1, <3>2, EffectTyped DEF TaskFits
    <3> QED
      BY <3>1, <3>2
  <2> QED
    BY <1>0, <2>1, <2>2 DEF RendersTypeOK, SceneTyped
<1>7. CASE EditParm \/ DeleteRop \/ (\E to \in 0 .. Away : Scrub(to)) \/ UNCHANGED rendersVars
  <2>1. UNCHANGED <<taskVars, stepVars, mainVars, lates, written>>
    BY <1>0, <1>7, UserControl
  <2>2. /\ rop' \in BOOLEAN /\ parm' \in Nat \cup Tasks /\ frame' \in Nat /\ moves' \in Nat
        /\ want' \in Nat /\ wish' \in Nat /\ spoilt' \in BOOLEAN /\ strayed' \in BOOLEAN
    <3>1. CASE EditParm
      <4>1. spoilt' \in BOOLEAN
        BY <1>0, <3>1 DEF EditParm, SceneTyped
      <4> QED
        BY <1>0, <3>1, <4>1 DEF EditParm, Moves, RendersTypeOK
    <3>2. CASE DeleteRop
      BY <1>0, <3>2 DEF DeleteRop, Moves, RendersTypeOK
    <3>3. ASSUME NEW to \in 0 .. Away, Scrub(to)
          PROVE  /\ rop' \in BOOLEAN /\ parm' \in Nat \cup Tasks /\ frame' \in Nat /\ moves' \in Nat
                 /\ want' \in Nat /\ wish' \in Nat /\ spoilt' \in BOOLEAN /\ strayed' \in BOOLEAN
      <4>1. strayed' \in BOOLEAN
        BY <1>0, <3>3 DEF Scrub, SceneTyped
      <4> QED
        BY <1>0, <3>3, <4>1 DEF Scrub, Moves, RendersTypeOK
    <3>4. CASE UNCHANGED rendersVars
      BY <1>0, <3>4 DEF rendersVars, RendersTypeOK
    <3> QED
      BY <1>7, <3>1, <3>2, <3>3, <3>4
  <2> QED
    BY <1>0, <2>1, <2>2 DEF RendersTypeOK
<1> QED
  BY <1>1, <1>2, <1>3, <1>4, <1>5, <1>6, <1>7 DEF RendersNext

\* A job that nothing touched.
LEMMA TaskStays ==
  ASSUME NEW k \in Tasks, TaskFits(k), Owes(k)' => Owes(k), kind' = kind,
         pc'[k] = pc[k], done'[k] = done[k], outcome'[k] = outcome[k],
         saved'[k] = saved[k], play'[k] = play[k], written'[k] = written[k]
  PROVE  TaskFits(k)'
BY DEF TaskFits, Renders

LEMMA TasksFitStep ==
  RendersInv /\ [RendersNext]_rendersVars => \A j \in Tasks : TaskFits(j)'
<1> SUFFICES ASSUME RendersInv, [RendersNext]_rendersVars, NEW k \in Tasks PROVE TaskFits(k)'
  OBVIOUS
<1>0. /\ RendersTypeOK /\ StepsFit /\ parm # Unset /\ frame # Unset
      /\ LastFrame \in Nat \ {0} /\ done[k] \in Nat /\ written[k] \subseteq Nat
      /\ \A j \in Tasks : TaskFits(j) /\ pc[j] \in {"begin", "work", "end", "over"}
  BY RendersAssumption DEF RendersInv, RendersTypeOK
<1> USE DEF taskVars, sceneVars, stepVars, mainVars, history
<1>1. ASSUME NEW j \in Tasks, RunStep(j) PROVE TaskFits(k)'
  <2> DEFINE fn == StepOf(j)
  <2>1. pc[j] # "over" /\ Effect(j, fn)
    BY <1>1 DEF RunStep
  <2>2. /\ kind' = kind /\ Others(j)
        /\ pc[j] = "begin" => pc'[j] = "work" /\ done'[j] = done[j] /\ outcome'[j] = outcome[j]
        /\ pc[j] = "work" =>
              /\ done'[j] = done[j] + 1
              /\ IF done[j] + 1 = LastFrame THEN pc'[j] = "end" /\ outcome'[j] = "done"
                 ELSE pc'[j] = "work" /\ outcome'[j] = outcome[j]
        /\ pc[j] = "end" => pc'[j] = "over" /\ done'[j] = done[j] /\ outcome'[j] = outcome[j]
        /\ \A i \in Tasks : Owes(i) <=> pc[i] \in {"work", "end"}
        /\ \A i \in Tasks : Owes(i)' <=> pc'[i] \in {"work", "end"}
    BY <1>0, <1>1, RunControl
  <2>3. /\ fn \in {"override", "render", "restore", "read", "frame", "finish"}
        /\ j \in Renders => fn \in {"override", "render", "restore"}
        /\ j \notin Renders => fn \in {"read", "frame", "finish"}
        /\ pc[j] = "begin" <=> fn \in {"override", "read"}
        /\ pc[j] = "work" <=> fn \in {"render", "frame"}
        /\ pc[j] = "end" <=> fn \in {"restore", "finish"}
    BY <1>0, <2>1, StepOfIs
  <2> HIDE DEF fn
  <2>4. /\ \A i \in Tasks \ {j} : saved'[i] = saved[i] /\ play'[i] = play[i] /\ written'[i] = written[i]
        /\ fn = "override" => saved'[j] = parm
        /\ fn # "override" => saved' = saved
        /\ fn = "render" => written'[j] = IF rop /\ parm = j THEN written[j] \cup {done[j] + 1} ELSE written[j]
        /\ fn # "render" => written' = written
        /\ fn = "read" => play'[j].start = frame /\ play'[j].last = play[j].last /\ play'[j].user = play[j].user
        /\ fn \in {"frame", "finish"} => play'[j].start = play[j].start
    BY <1>0, <2>1, <2>3, EffectIs
  <2>5. CASE k # j
    <3>1. Owes(k)' => Owes(k)
      BY <2>2, <2>5 DEF Others
    <3> QED
      BY <1>0, <2>2, <2>4, <2>5, <3>1, TaskStays DEF Others
  <2>6. CASE k = j
    <3>1. pc'[j] # "begin" /\ (outcome[j] = "done" => done[j] = LastFrame)
          /\ done[j] \in 0 .. LastFrame /\ (pc[j] = "work" => done[j] # LastFrame)
      BY <1>0, <2>1, <2>2 DEF TaskFits
    <3>2. /\ done'[j] \in 0 .. LastFrame /\ (pc'[j] = "work" => done'[j] # LastFrame)
          /\ outcome'[j] = "done" => done'[j] = LastFrame
      <4>1. CASE pc[j] = "begin"
        BY <1>0, <2>2, <4>1 DEF TaskFits
      <4>2. CASE pc[j] = "work"
        BY <1>0, <2>2, <2>6, <3>1, <4>2
      <4>3. CASE pc[j] = "end"
        BY <2>2, <3>1, <4>3
      <4> QED
        BY <1>0, <2>1, <4>1, <4>2, <4>3
    <3>3. written'[j] \subseteq 1 .. LastFrame
      <4>1. written[j] \subseteq 1 .. LastFrame
        BY <1>0 DEF TaskFits
      <4>2. fn = "render" => done[j] + 1 \in 1 .. LastFrame
        BY <1>0, <2>3, <3>1
      <4> QED
        BY <2>4, <4>1, <4>2
    <3>4. Owes(j)' => IF j \in Renders THEN saved'[j] # Unset ELSE play'[j].start # Unset
      <4>1. Owes(j)' => pc[j] # "end" /\ (pc[j] = "work" => Owes(j))
        BY <2>2
      <4>2. Owes(j) => IF j \in Renders THEN saved[j] # Unset ELSE play[j].start # Unset
        BY <1>0 DEF TaskFits
      <4> QED
        BY <1>0, <2>1, <2>3, <2>4, <4>1, <4>2
    <3> QED
      BY <2>2, <2>6, <3>1, <3>2, <3>3, <3>4 DEF TaskFits, Renders
  <2> QED
    BY <2>5, <2>6
<1>2. ASSUME NEW j \in Tasks, StepErrs(j) \/ StepRefused(j) PROVE TaskFits(k)'
  <2>1. /\ UNCHANGED <<kind, done>> /\ Others(j)
        /\ UNCHANGED <<sceneVars, stepVars, history>> \/ Effect(j, "missing")
        /\ pc[j] \in {"begin", "work"} /\ outcome'[j] = "failed"
        /\ pc'[j] = IF pc[j] = "work" THEN "end" ELSE "over"
        /\ \A i \in Tasks : Owes(i)' <=> Owes(i)
    BY <1>0, <1>2, FailControl
  <2>4. /\ \A i \in Tasks \ {j} : saved'[i] = saved[i] /\ play'[i] = play[i] /\ written'[i] = written[i]
        /\ saved'[j] = saved[j] /\ written'[j] = written[j] /\ play'[j].start = play[j].start
    <3>1. CASE UNCHANGED <<sceneVars, stepVars, history>>
      BY <3>1
    <3>2. CASE Effect(j, "missing")
      BY <1>0, <3>2, EffectIs
    <3> QED
      BY <2>1, <3>1, <3>2
  <2>2. CASE k # j
    BY <1>0, <2>1, <2>2, <2>4, TaskStays DEF Others
  <2>3. CASE k = j
    BY <1>0, <2>1, <2>3, <2>4 DEF TaskFits, Renders
  <2> QED
    BY <2>2, <2>3
<1>3. ASSUME NEW j \in Tasks, NEW half \in BOOLEAN, StepLate(j, half) PROVE TaskFits(k)'
  <2>1. /\ UNCHANGED <<play, kind, done, written>> /\ Others(j)
        /\ pc[j] \in {"begin", "work"} /\ outcome'[j] = "failed"
        /\ half => StepOf(j) = "override"
        /\ pc'[j] = IF half \/ pc[j] = "work" THEN "end" ELSE "over"
        /\ saved' = IF half THEN [saved EXCEPT ![j] = parm] ELSE saved
        /\ \A i \in Tasks : Owes(i) <=> pc[i] \in {"work", "end"}
        /\ \A i \in Tasks : Owes(i)' <=> pc'[i] \in {"work", "end"}
    BY <1>0, <1>3, LateControl
  <2>2. CASE k # j
    <3>1. saved'[k] = saved[k]
      BY <1>0, <2>1, <2>2 DEF RendersTypeOK
    <3> QED
      BY <1>0, <2>1, <2>2, <3>1, TaskStays DEF Others
  <2>3. CASE k = j
    <3>1. half => j \in Renders /\ saved'[j] = parm
      BY <1>0, <2>1, StepOfIs DEF RendersTypeOK
    <3>2. ~half => saved' = saved /\ (Owes(j)' => Owes(j))
      BY <2>1
    <3>3. Owes(j)' => IF j \in Renders THEN saved'[j] # Unset ELSE play'[j].start # Unset
      BY <1>0, <2>1, <3>1, <3>2 DEF TaskFits
    <3> QED
      BY <1>0, <2>1, <2>3, <3>3 DEF TaskFits, Renders
  <2> QED
    BY <2>2, <2>3
<1>4. ASSUME NEW j \in Tasks, NEW late \in BOOLEAN, Fallback(j, late) PROVE TaskFits(k)'
  <2>1. /\ UNCHANGED <<stepVars, kind, done, outcome, history>> /\ Others(j)
        /\ pc[j] = "end" /\ pc'[j] = "over"
        /\ \A i \in Tasks : Owes(i)' <=> Owes(i)
    BY <1>0, <1>4, FallbackControl
  <2>2. CASE k # j
    BY <1>0, <2>1, <2>2, TaskStays DEF Others
  <2>3. CASE k = j
    BY <1>0, <2>1, <2>3 DEF TaskFits, Renders
  <2> QED
    BY <2>2, <2>3
<1>5. ASSUME NEW j \in Tasks,
             NEW fn \in {"override", "render", "restore", "read", "frame", "missing", "finish"},
             Effect(j, fn), UNCHANGED taskVars, pc[j] # "begin",
             \A i \in Tasks : Owes(i)' => Owes(i),
             fn = "render" => done[j] # LastFrame
      PROVE  TaskFits(k)'
  <2>1. /\ \A i \in Tasks \ {j} : saved'[i] = saved[i] /\ play'[i] = play[i] /\ written'[i] = written[i]
        /\ fn = "override" => saved'[j] = parm
        /\ fn # "override" => saved' = saved
        /\ fn \in {"override", "render", "restore"} => play' = play
        /\ fn = "render" => written'[j] = IF rop /\ parm = j THEN written[j] \cup {done[j] + 1} ELSE written[j]
        /\ fn # "render" => written' = written
        /\ fn = "read" => play'[j].start = frame /\ play'[j].last = play[j].last /\ play'[j].user = play[j].user
        /\ fn \in {"frame", "missing", "finish"} => play'[j].start = play[j].start
    BY <1>0, <1>5, EffectIs
  <2>2. CASE k # j
    BY <1>0, <1>5, <2>1, <2>2, TaskStays
  <2>3. CASE k = j
    <3>1. written'[j] \subseteq 1 .. LastFrame
      <4>1. written[j] \subseteq 1 .. LastFrame /\ done[j] \in 0 .. LastFrame
        BY <1>0 DEF TaskFits
      <4>2. fn = "render" => done[j] + 1 \in 1 .. LastFrame
        BY <1>0, <1>5, <4>1
      <4> QED
        BY <2>1, <4>1, <4>2
    <3>2. Owes(j)' => IF j \in Renders THEN saved'[j] # Unset ELSE play'[j].start # Unset
      <4>1. Owes(j)' => IF j \in Renders THEN saved[j] # Unset ELSE play[j].start # Unset
        BY <1>0, <1>5 DEF TaskFits
      <4> QED
        BY <1>0, <1>5, <2>1, <4>1
    <3> QED
      BY <1>0, <1>5, <2>3, <3>1, <3>2 DEF TaskFits, Renders
  <2> QED
    BY <2>2, <2>3
<1>6. CASE LateEnds
  <2>1. /\ held \in Steps /\ UNCHANGED taskVars
        /\ \E fn \in {"override", "render", "restore", "read", "frame", "missing", "finish"} :
             Effect(held.job, fn) /\ (fn = held.fn \/ (fn = "missing" /\ held.fn = "frame"))
        /\ \A i \in Tasks : Owes(i)' => Owes(i)
    BY <1>0, <1>6, EndsControl
  <2>2. held.job \in Tasks /\ held # Unset
    BY <2>1, RendersAssumption DEF Steps
  <2>3. PICK fn \in {"override", "render", "restore", "read", "frame", "missing", "finish"} :
              Effect(held.job, fn) /\ (fn = held.fn \/ (fn = "missing" /\ held.fn = "frame"))
    BY <2>1
  <2>4. pc[held.job] # "begin" /\ (fn = "render" => done[held.job] # LastFrame)
    BY <1>0, <2>2, <2>3 DEF StepsFit
  <2> QED
    BY <1>5, <2>1, <2>2, <2>3, <2>4
<1>7. CASE RunPosted
  <2>1. PICK j \in Tasks :
         /\ pc[j] = "over" /\ Effect(j, IF j \in Renders THEN "restore" ELSE "finish")
         /\ UNCHANGED taskVars /\ \A i \in Tasks : Owes(i)' => Owes(i)
    BY <1>0, <1>7, PostedControl
  <2>2. CASE j \in Renders
    <3>1. Effect(j, "restore")
      BY <2>1, <2>2
    <3> QED
      BY <1>5, <2>1, <3>1
  <2>3. CASE j \notin Renders
    <3>1. Effect(j, "finish")
      BY <2>1, <2>3
    <3> QED
      BY <1>5, <2>1, <3>1
  <2> QED
    BY <2>2, <2>3
<1>8. CASE EditParm \/ DeleteRop \/ (\E to \in 0 .. Away : Scrub(to)) \/ UNCHANGED rendersVars
  <2>1. UNCHANGED <<taskVars, stepVars, written>> /\ \A i \in Tasks : Owes(i)' <=> Owes(i)
    BY <1>0, <1>8, UserControl
  <2> QED
    BY <1>0, <2>1, TaskStays
<1> QED
  BY <1>1, <1>2, <1>3, <1>4, <1>6, <1>7, <1>8 DEF RendersNext

LEMMA StepsFitStep == RendersInv /\ [RendersNext]_rendersVars => StepsFit'
<1> SUFFICES ASSUME RendersInv, [RendersNext]_rendersVars PROVE StepsFit'
  OBVIOUS
<1>0. /\ RendersTypeOK /\ StepsFit /\ held \in Steps \cup {Unset} /\ \A j \in Tasks : TaskFits(j)
      /\ \A step \in Steps : step.job \in Tasks /\ step # Unset
  BY RendersAssumption DEF RendersInv, RendersTypeOK, Steps
<1> USE DEF taskVars, sceneVars, stepVars, mainVars, history
<1>1. ASSUME NEW j \in Tasks, RunStep(j) PROVE StepsFit'
  <2>1. held' = Unset /\ queue' = <<>>
    BY <1>0, <1>1, RunControl DEF Ready
  <2> QED
    BY <2>1 DEF StepsFit, InQueue
<1>2. ASSUME NEW j \in Tasks, StepErrs(j) \/ StepRefused(j) PROVE StepsFit'
  <2>1. /\ UNCHANGED <<mainVars, kind, done>> /\ Others(j) /\ pc[j] \in {"begin", "work"}
        /\ \A i \in Tasks : Owes(i)' <=> Owes(i)
    BY <1>0, <1>2, FailControl
  <2>2. held # Unset => held.job \in Tasks /\ held.job # j
    BY <1>0, <2>1 DEF StepsFit
  <2>3. \A step \in Steps : InQueue(step) => step.job # j
    BY <1>0, <2>1 DEF StepsFit
  <2>4. \A i : Back(i)' = Back(i) /\ InQueue(i)' = InQueue(i)
    BY <2>1, KindStays DEF InQueue
  <2> QED
    BY <1>0, <2>1, <2>2, <2>3, <2>4 DEF StepsFit, Others, Renders
<1>3. ASSUME NEW j \in Tasks, NEW half \in BOOLEAN, StepLate(j, half) PROVE StepsFit'
  <2>1. /\ Ready /\ held' = [job |-> j, fn |-> StepOf(j)]
        /\ UNCHANGED <<kind, done, queue>> /\ pc[j] \in {"begin", "work"}
        /\ half => StepOf(j) = "override"
        /\ pc'[j] = IF half \/ pc[j] = "work" THEN "end" ELSE "over"
        /\ \A i \in Tasks : Owes(i)' <=> pc'[i] \in {"work", "end"}
    BY <1>0, <1>3, LateControl
  <2>2. /\ j \in Renders => StepOf(j) \in {"override", "render", "restore"}
        /\ j \notin Renders => StepOf(j) \in {"read", "frame", "finish"}
        /\ pc[j] = "begin" <=> StepOf(j) \in {"override", "read"}
        /\ pc[j] = "work" <=> StepOf(j) \in {"render", "frame"}
        /\ pc[j] = "end" <=> StepOf(j) \in {"restore", "finish"}
    BY <1>0, <2>1, StepOfIs
  <2>3. /\ held'.job = j /\ held'.fn = StepOf(j)
    BY <2>1
  <2>4. \A step : ~InQueue(step)'
    BY <2>1 DEF Ready, InQueue
  <2>5. pc[j] = "work" => done[j] # LastFrame
    BY <1>0 DEF TaskFits
  <2> QED
    BY <2>1, <2>2, <2>3, <2>4, <2>5 DEF StepsFit, Renders
<1>4. ASSUME NEW j \in Tasks, NEW late \in BOOLEAN, Fallback(j, late) PROVE StepsFit'
  <2>1. /\ UNCHANGED <<kind, done>> /\ Others(j) /\ pc[j] = "end" /\ pc'[j] = "over"
        /\ IF late THEN held' = Back(j) ELSE held' = held
        /\ \A step : InQueue(step)' <=> InQueue(step) \/ step = Back(j)
        /\ \A i \in Tasks : Owes(i)' <=> Owes(i)
    BY <1>0, <1>4, FallbackControl
  <2>2. Renders' = Renders /\ \A i : Back(i)' = Back(i)
    BY <2>1, KindStays
  <2>3. Back(j).job = j /\ Back(j).fn = IF j \in Renders THEN "restore" ELSE "finish"
    BY BackIs
  <2>4. \A step \in Steps : InQueue(step)' => step = Back(step.job) /\ pc'[step.job] = "over"
    BY <1>0, <2>1, <2>3 DEF StepsFit, Others
  <2>5. CASE held' = Back(j)
    BY <2>1, <2>2, <2>3, <2>4, <2>5 DEF StepsFit
  <2>6. CASE held' = held
    <3>1. held # Unset => held.job \in Tasks /\ pc'[held.job] \in {pc[held.job], "over"}
      BY <1>0, <2>1 DEF Others
    <3> QED
      BY <1>0, <2>1, <2>2, <2>4, <2>6, <3>1 DEF StepsFit
  <2> QED
    BY <2>1, <2>5, <2>6
<1>5. CASE LateEnds
  <2>1. held' = Unset /\ UNCHANGED <<taskVars, queue>>
    BY <1>0, <1>5, EndsControl
  <2> QED
    BY <1>0, <2>1, KindStays DEF StepsFit, InQueue
<1>6. CASE RunPosted
  <2>1. held' = Unset /\ UNCHANGED taskVars /\ \A step : InQueue(step)' => InQueue(step)
    BY <1>0, <1>6, PostedControl
  <2> QED
    BY <1>0, <2>1, KindStays DEF StepsFit
<1>7. CASE EditParm \/ DeleteRop \/ (\E to \in 0 .. Away : Scrub(to)) \/ UNCHANGED rendersVars
  <2>1. UNCHANGED <<taskVars, mainVars>> /\ \A i \in Tasks : Owes(i)' <=> Owes(i)
    BY <1>0, <1>7, UserControl
  <2>2. Renders' = Renders /\ \A i : Back(i)' = Back(i) /\ (InQueue(i)' <=> InQueue(i))
    BY <2>1, KindStays DEF InQueue
  <2> QED
    BY <1>0, <2>1, <2>2 DEF StepsFit
<1> QED
  BY <1>1, <1>2, <1>3, <1>4, <1>5, <1>6, <1>7 DEF RendersNext

-----------------------------------------------------------------------------
(* The parm. *)

\* A step that leaves the parm, and what is owed, as they are.
LEMMA ParmStays ==
  ASSUME ParmInv, kind' = kind, UNCHANGED <<parm, want, spoilt>>, \A j \in Renders : saved'[j] = saved[j],
         \A j \in Renders : done'[j] = done[j] /\ written'[j] = written[j],
         \A j \in Renders : Overrides(j)' <=> Overrides(j),
         \A j \in Renders : Owes(j)' <=> Owes(j),
         \A j \in Renders : pc'[j] \in {"work", "end"} => pc[j] \in {"work", "end"}
  PROVE  ParmInv'
<1>1. Renders' = Renders
  BY KindStays
<1> QED
  BY <1>1 DEF ParmInv

LEMMA ParmStep == RendersInv /\ [RendersNext]_rendersVars => ParmInv'
<1> SUFFICES ASSUME RendersInv, [RendersNext]_rendersVars, ~spoilt' PROVE ParmInv'
  BY DEF ParmInv
<1>0. /\ RendersTypeOK /\ StepsFit /\ ParmInv
      /\ \A j \in Tasks : TaskFits(j) /\ pc[j] \in {"begin", "work", "end", "over"}
      /\ \A j \in Renders : j \in Tasks /\ j \notin Nat
      /\ want \in Nat /\ moves \in Nat /\ saved \in [Tasks -> Nat \cup Tasks \cup {Unset}] /\ spoilt \in BOOLEAN
      /\ written \in [Tasks -> SUBSET Nat] /\ done \in [Tasks -> Nat]
      /\ held \in Steps \cup {Unset} /\ \A step \in Steps : step # Unset
  BY RendersAssumption DEF RendersInv, RendersTypeOK, Renders
<1>p. ~spoilt =>
        /\ parm = want \/ \E j \in Renders : parm = j /\ Owes(j)
        /\ \A j \in Renders :
             /\ Owes(j) /\ ~Overrides(j) => saved[j] = want
             /\ pc[j] \in {"work", "end"} /\ ~Overrides(j) => parm = j
             /\ Overrides(j) => Owes(j)
             /\ 1 .. done[j] \subseteq written[j]
        /\ \A j, k \in Renders : j # k /\ Owes(j) /\ Owes(k) => Overrides(j) \/ Overrides(k)
        /\ \A j, k \in Renders : j # k /\ Owes(j) /\ Overrides(k) => parm = j
  BY <1>0 DEF ParmInv
<1>u. ASSUME held = Unset \/ held.fn # "override" PROVE \A j \in Tasks : ~Overrides(j)
  BY <1>0, <1>u, RendersAssumption DEF Overrides, Steps
<1>v. ASSUME held' = Unset \/ (held' \in Steps /\ held'.fn # "override") PROVE \A j \in Tasks : ~Overrides(j)'
  BY <1>0, <1>v, RendersAssumption DEF Overrides, Steps
<1> USE DEF taskVars, sceneVars, stepVars, mainVars, history
\* A render sets the parm while it has the user's value: no other has to put one back.
<1>1. ASSUME NEW j \in Renders, Override(j), kind' = kind, UNCHANGED done, held' = Unset, Owes(j)',
             \A k \in Renders : k # j => (Owes(k)' => Owes(k)),
             \A k \in Renders : pc'[k] \in {"work", "end"} => Owes(k)',
             \A k \in Renders : k # j /\ Owes(k) => parm = k \/ spoilt
      PROVE  ParmInv'
  <2>1. spoilt' = (spoilt \/ parm # want)
    BY <1>1 DEF Override
  <2>2. parm = want /\ ~spoilt
    BY <1>0, <2>1
  <2>3. /\ parm' = j /\ want' = want /\ written' = written /\ saved'[j] = want
        /\ Renders' = Renders
    BY <1>0, <1>1, <2>2, KindStays DEF Override
  <2>4. \A k \in Renders : k # j => ~Owes(k)'
    BY <1>0, <1>1, <2>2
  <2>5. \A k \in Renders : ~Overrides(k)'
    BY <1>0, <1>1, <1>v
  <2> QED
    BY <1>1, <1>p, <2>2, <2>3, <2>4, <2>5 DEF ParmInv
\* It puts back what the user gave, and no other has to.
<1>2. ASSUME NEW j \in Renders, Restore(j), kind' = kind, UNCHANGED done, pc'[j] = "over", Owes(j),
             held' = Unset, held = Unset \/ held.fn # "override",
             \A k \in Renders : Owes(k)' => Owes(k),
             \A k \in Renders : pc'[k] \in {"work", "end"} => Owes(k)',
             pc[j] = "over" \/ (~Owes(j)')
      PROVE  ParmInv'
  <2>1. ~spoilt /\ (rop \/ parm = want)
    BY <1>0, <1>2 DEF Restore
  <2>2. \A k \in Renders : ~Overrides(k) /\ ~Overrides(k)'
    BY <1>0, <1>2, <1>u, <1>v
  <2>3. saved[j] = want /\ \A k \in Renders : k # j => ~Owes(k)'
    BY <1>2, <1>p, <2>1, <2>2
  <2>4. parm' = want /\ want' = want /\ saved' = saved /\ written' = written /\ Renders' = Renders
    BY <1>2, <2>1, <2>3, KindStays DEF Restore
  <2> QED
    BY <1>2, <1>p, <2>1, <2>2, <2>3, <2>4 DEF ParmInv
<1>3. ASSUME NEW j \in Tasks, RunStep(j) PROVE ParmInv'
  <2> DEFINE fn == StepOf(j)
  <2>1. pc[j] # "over" /\ Effect(j, fn) /\ HasRop(j)
    BY <1>3 DEF RunStep
  <2>2. /\ Ready /\ held = Unset /\ held' = Unset /\ kind' = kind /\ Others(j)
        /\ pc[j] = "begin" => pc'[j] = "work" /\ done'[j] = done[j]
        /\ pc[j] = "work" => done'[j] = done[j] + 1
        /\ pc[j] = "end" => pc'[j] = "over" /\ done'[j] = done[j]
        /\ \A i \in Tasks : Owes(i) <=> pc[i] \in {"work", "end"}
        /\ \A i \in Tasks : Owes(i)' <=> pc'[i] \in {"work", "end"}
        /\ ThreadsTyped' /\ (pc[j] = "work" => pc'[j] \in {"work", "end"})
    BY <1>0, <1>3, RunControl
  <2>3. /\ fn \in {"override", "render", "restore", "read", "frame", "finish"}
        /\ j \in Renders => fn \in {"override", "render", "restore"}
        /\ j \notin Renders => fn \in {"read", "frame", "finish"}
        /\ pc[j] = "begin" <=> fn \in {"override", "read"}
        /\ pc[j] = "work" <=> fn \in {"render", "frame"}
        /\ pc[j] = "end" <=> fn \in {"restore", "finish"}
    BY <1>0, <2>1, StepOfIs
  <2>4. \A i \in Tasks : ~Overrides(i) /\ ~Overrides(i)'
    BY <2>2, <1>u, <1>v
  <2>5. pc[j] # "work" => UNCHANGED done
    BY <1>0, <2>1, <2>2 DEF Others, ThreadsTyped
  <2> HIDE DEF fn
  <2>6. CASE fn = "override"
    <3>1. Override(j)
      BY <2>1, <2>6 DEF Effect
    <3>2. \A k \in Renders : k # j /\ Owes(k) => parm = k \/ spoilt
      BY <1>0, <1>p, <2>2, <2>4
    <3>3. \A k \in Renders : k # j => (Owes(k)' => Owes(k))
      BY <1>0, <2>2 DEF Others
    <3> QED
      BY <1>0, <1>1, <2>2, <2>3, <2>5, <2>6, <3>1, <3>2, <3>3
  <2>7. CASE fn = "restore"
    <3>1. Restore(j)
      BY <2>1, <2>7 DEF Effect
    <3>2. \A k \in Renders : Owes(k)' => Owes(k)
      BY <1>0, <2>2, <2>3, <2>7 DEF Others
    <3> QED
      BY <1>0, <1>2, <2>2, <2>3, <2>5, <2>7, <3>1, <3>2
  <2>8. CASE fn = "render"
    <3>1. RenderFrame(j) /\ rop
      BY <2>1, <2>8 DEF Effect, HasRop, fn
    <3>2. UNCHANGED <<parm, want, spoilt, saved>> /\ ~spoilt /\ Renders' = Renders
          /\ written' = IF rop /\ parm = j THEN [written EXCEPT ![j] = @ \cup {done[j] + 1}] ELSE written
      BY <2>2, <3>1, KindStays DEF RenderFrame
    <3>3. pc[j] = "work" /\ j \in Renders /\ parm = j
      BY <1>p, <2>2, <2>3, <2>4, <2>8, <3>2
    <3>4. 1 .. done[j] + 1 \subseteq written'[j] /\ \A k \in Tasks \ {j} : written'[k] = written[k]
      <4>1. 1 .. done[j] \subseteq written[j] /\ done[j] \in Nat
        BY <1>0, <1>p, <3>2, <3>3
      <4>2. 1 .. done[j] + 1 = (1 .. done[j]) \cup {done[j] + 1}
        BY <4>1
      <4> QED
        BY <1>0, <3>1, <3>2, <3>3, <4>1, <4>2
    <3>5. \A k \in Renders : 1 .. done'[k] \subseteq written'[k]
      <4>1. \A k \in Renders : k # j => 1 .. done'[k] \subseteq written'[k]
        BY <1>0, <1>p, <2>2, <3>2, <3>4 DEF Others
      <4> QED
        BY <2>2, <3>3, <3>4, <4>1
    <3>6. \A k \in Renders : Owes(k)' <=> Owes(k)
      BY <1>0, <2>2, <3>3 DEF Others
    <3> QED
      BY <1>0, <1>p, <2>2, <2>4, <3>2, <3>5, <3>6 DEF ParmInv
  <2>9. CASE fn \in {"read", "frame", "finish"}
    <3>1. j \notin Renders
      BY <2>3, <2>9
    <3>2. UNCHANGED <<parm, want, spoilt, saved, written>>
      BY <2>1, <2>9 DEF Effect, ReadFrame, SetFrame, FinishPlayhead, RestoreFrame
    <3>3. \A k \in Renders : k \in Tasks \ {j} /\ pc'[k] = pc[k] /\ done'[k] = done[k]
      BY <1>0, <2>2, <3>1 DEF Others
    <3>4. \A k \in Renders : (Owes(k)' <=> Owes(k)) /\ (Overrides(k)' <=> Overrides(k))
      BY <2>2, <2>4, <3>3
    <3> QED
      BY <1>0, <2>2, <3>2, <3>3, <3>4, ParmStays
  <2> QED
    BY <2>3, <2>6, <2>7, <2>8, <2>9
<1>4. ASSUME NEW j \in Tasks, StepErrs(j) \/ StepRefused(j) PROVE ParmInv'
  <2>1. /\ UNCHANGED <<mainVars, kind, done>> /\ Others(j)
        /\ UNCHANGED <<sceneVars, stepVars, history>> \/ Effect(j, "missing")
        /\ pc[j] \in {"begin", "work"} /\ pc'[j] = IF pc[j] = "work" THEN "end" ELSE "over"
        /\ \A i \in Tasks : Owes(i)' <=> Owes(i)
    BY <1>0, <1>4, FailControl
  <2>3. UNCHANGED <<parm, want, spoilt, saved, written>>
    BY <2>1 DEF Effect, SetFrame
  <2>2. \A k \in Renders : (Overrides(k)' <=> Overrides(k)) /\ (pc'[k] \in {"work", "end"} => pc[k] \in {"work", "end"})
    BY <1>0, <2>1 DEF Overrides, Others
  <2> QED
    BY <1>0, <2>1, <2>2, <2>3, ParmStays
<1>5. ASSUME NEW j \in Tasks, NEW late \in BOOLEAN, Fallback(j, late) PROVE ParmInv'
  <2>1. /\ UNCHANGED <<sceneVars, stepVars, kind, done, history>> /\ Others(j)
        /\ pc[j] = "end" /\ pc'[j] = "over"
        /\ IF late THEN Ready /\ held' = Back(j) ELSE held' = held
        /\ \A i \in Tasks : Owes(i)' <=> Owes(i)
    BY <1>0, <1>5, FallbackControl
  <2>2. \A k \in Renders : pc'[k] \in {"work", "end"} => pc[k] \in {"work", "end"}
    BY <1>0, <2>1 DEF Others
  <2>3. \A k \in Renders : Overrides(k)' <=> Overrides(k)
    <3>1. CASE held' = held
      BY <3>1 DEF Overrides
    <3>2. CASE Ready /\ held' = Back(j)
      <4>1. held' \in Steps /\ held'.fn # "override"
        BY <3>2, BackIs
      <4> QED
        BY <1>0, <1>u, <1>v, <3>2, <4>1 DEF Ready
    <3> QED
      BY <2>1, <3>1, <3>2
  <2> QED
    BY <1>0, <2>1, <2>2, <2>3, ParmStays
<1>6. ASSUME NEW j \in Tasks, NEW half \in BOOLEAN, StepLate(j, half) PROVE ParmInv'
  <2>1. /\ Ready /\ held = Unset /\ held' = [job |-> j, fn |-> StepOf(j)] /\ held' \in Steps
        /\ UNCHANGED <<parm, kind, done, written, want>> /\ Others(j)
        /\ pc[j] \in {"begin", "work"}
        /\ half => StepOf(j) = "override"
        /\ pc'[j] = IF half \/ pc[j] = "work" THEN "end" ELSE "over"
        /\ saved' = IF half THEN [saved EXCEPT ![j] = parm] ELSE saved
        /\ spoilt' = (spoilt \/ (StepOf(j) = "override" /\ ~half))
        /\ \A k \in Tasks : Owes(k) <=> pc[k] \in {"work", "end"}
        /\ \A k \in Tasks : Owes(k)' <=> pc'[k] \in {"work", "end"}
    BY <1>0, <1>6, LateControl
  <2>2. \A k \in Tasks : ~Overrides(k)
    BY <1>u, <2>1
  <2>3. /\ pc[j] = "begin" <=> StepOf(j) \in {"override", "read"}
        /\ j \in Renders => StepOf(j) \in {"override", "render", "restore"}
        /\ j \notin Renders => StepOf(j) \in {"read", "frame", "finish"}
    BY <1>0, <2>1, StepOfIs
  <2>4. CASE StepOf(j) = "override"
    <3>1. half /\ ~spoilt /\ spoilt' = spoilt /\ pc[j] = "begin" /\ pc'[j] = "end" /\ Renders' = Renders
      BY <1>0, <2>1, <2>3, <2>4, KindStays
    <3>2. \A k \in Renders : k # j => saved'[k] = saved[k] /\ pc'[k] = pc[k] /\ (Owes(k)' <=> Owes(k))
      BY <1>0, <2>1 DEF Others
    <3>3. \A k \in Renders : Overrides(k)' <=> k = j
      BY <2>1, <2>4 DEF Overrides
    <3>4. Owes(j)' /\ ~Owes(j)
      BY <2>1, <3>1
    <3>p. parm = want \/ \E k \in Renders : parm = k /\ Owes(k)'
      BY <1>p, <3>1, <3>2, <3>4
    <3>q. \A k \in Renders : 1 .. done[k] \subseteq written[k]
      BY <1>p, <3>1
    <3>5. \A k \in Renders : Owes(k)' /\ k # j => saved'[k] = want /\ parm = k
      <4> SUFFICES ASSUME NEW k \in Renders, Owes(k)', k # j PROVE saved'[k] = want /\ parm = k
        OBVIOUS
      <4>1. k \in Tasks /\ Owes(k) /\ ~Overrides(k) /\ saved'[k] = saved[k]
        BY <1>0, <2>2, <3>2
      <4> QED
        BY <1>p, <2>1, <3>1, <4>1
    <3>6. \A k, i \in Renders : k # i /\ Owes(k)' /\ Owes(i)' => k = j \/ i = j
      BY <1>0, <1>p, <2>2, <3>1, <3>2
    <3> QED
      BY <1>0, <2>1, <3>1, <3>2, <3>3, <3>4, <3>5, <3>6, <3>p, <3>q DEF ParmInv
  <2>5. CASE StepOf(j) # "override"
    <3>1. \A k \in Tasks : ~Overrides(k)'
      BY <1>v, <2>1, <2>5
    <3>2. saved' = saved /\ spoilt' = spoilt
      BY <1>0, <2>1, <2>5
    <3>3. \A k \in Renders : k # j => pc'[k] = pc[k]
      BY <1>0, <2>1 DEF Others
    <3>4. j \in Renders => pc[j] = "work" /\ pc'[j] = "end"
      BY <2>1, <2>3, <2>5
    <3>5. \A k \in Renders : (Owes(k)' <=> Owes(k)) /\ (pc'[k] \in {"work", "end"} => pc[k] \in {"work", "end"})
      BY <1>0, <2>1, <3>3, <3>4
    <3> QED
      BY <1>0, <2>1, <2>2, <3>1, <3>2, <3>5, ParmStays
  <2> QED
    BY <2>4, <2>5
<1>7. CASE LateEnds
  <2>0. PICK j : j = held.job
    OBVIOUS
  <2>1. /\ held \in Steps /\ held' = Unset /\ UNCHANGED <<taskVars, queue>>
        /\ \E fn \in {"override", "render", "restore", "read", "frame", "missing", "finish"} :
             Effect(j, fn) /\ (fn = held.fn \/ (fn = "missing" /\ held.fn = "frame"))
        /\ \A k \in Tasks : Owes(k)' => Owes(k)
        /\ \A k \in Tasks : Owes(k) => Owes(k)' \/ held = Back(k)
    BY <1>0, <1>7, <2>0, EndsControl
  <2>f. PICK fn \in {"override", "render", "restore", "read", "frame", "missing", "finish"} :
              Effect(j, fn) /\ (fn = held.fn \/ (fn = "missing" /\ held.fn = "frame"))
    BY <2>1
  <2>2. /\ j \in Tasks
        /\ held = [job |-> j, fn |-> held.fn] /\ held # Unset
    BY <1>0, <2>0, <2>1 DEF Steps
  <2>3. /\ held.fn \in IF j \in Renders THEN {"override", "render", "restore"} ELSE {"read", "frame", "finish"}
        /\ pc[j] \in {"end", "over"} /\ (held.fn = "restore" => pc[j] = "over")
    BY <1>0, <2>0, <2>2 DEF StepsFit
  <2>4. \A k \in Tasks : ~Overrides(k)' /\ (pc'[k] \in {"work", "end"} => Owes(k)')
    BY <1>v, <2>1 DEF Owes
  <2>5. \A k \in Tasks : held = Back(k) => k = j /\ held.fn = IF j \in Renders THEN "restore" ELSE "finish"
    BY <2>0, BackIs
  <2>6. \A k \in Renders : k # j => (Owes(k)' <=> Owes(k))
    BY <1>0, <2>1, <2>5
  <2>7. CASE fn = "override"
    <3>1. Overrides(j) /\ Override(j) /\ j \in Renders
      BY <2>f, <2>2, <2>3, <2>7 DEF Overrides, Effect
    <3>2. \A k \in Renders : k # j /\ Owes(k) => parm = k \/ spoilt
      BY <1>0, <1>p, <3>1
    <3>3. Owes(j) => Owes(j)'
      BY <2>f, <2>1, <2>2, <2>5, <2>7
    <3>4. spoilt' = (spoilt \/ parm # want)
      BY <3>1 DEF Override
    <3>5. Owes(j)'
      BY <1>0, <1>p, <3>1, <3>3, <3>4
    <3> QED
      BY <1>0, <1>1, <2>1, <2>4, <2>6, <3>1, <3>2, <3>5
  <2>8. CASE fn = "restore"
    <3>1. Restore(j) /\ j \in Renders /\ Owes(j) /\ pc'[j] = "over" /\ pc[j] = "over"
      BY <2>f, <2>1, <2>2, <2>3, <2>8 DEF Effect, Owes, Back
    <3> QED
      BY <1>0, <1>2, <2>f, <2>1, <2>4, <2>8, <3>1
  <2>9. CASE fn = "render"
    <3>1. RenderFrame(j)
      BY <2>f, <2>9 DEF Effect
    <3>2. UNCHANGED <<parm, want, spoilt, saved>> /\ ~spoilt /\ Renders' = Renders
          /\ \A k \in Tasks : written[k] \subseteq written'[k]
      BY <1>0, <2>1, <3>1, KindStays DEF RenderFrame
    <3>3. \A k \in Tasks : ~Overrides(k) /\ (Owes(k)' <=> Owes(k))
      BY <1>u, <2>f, <2>1, <2>5, <2>9
    <3>4. \A k \in Renders : 1 .. done'[k] \subseteq written'[k]
      BY <1>0, <1>p, <2>1, <3>2
    <3> QED
      BY <1>0, <1>p, <2>1, <2>4, <3>2, <3>3, <3>4 DEF ParmInv
  <2>10. CASE fn \in {"read", "frame", "missing", "finish"}
    <3>1. j \notin Renders
      BY <2>f, <2>3, <2>10
    <3>2. UNCHANGED <<parm, want, spoilt, saved, written>>
      BY <2>f, <2>10 DEF Effect, ReadFrame, SetFrame, FinishPlayhead, RestoreFrame
    <3>3. \A k \in Renders : (Owes(k)' <=> Owes(k)) /\ ~Overrides(k) /\ ~Overrides(k)'
      BY <1>0, <1>u, <2>f, <2>4, <2>6, <2>10, <3>1
    <3> QED
      BY <1>0, <2>1, <3>2, <3>3, ParmStays
  <2> QED
    BY <2>f, <2>7, <2>8, <2>9, <2>10
<1>8. CASE RunPosted
  <2>1. PICK j \in Tasks :
         /\ Owes(j) /\ pc[j] = "over"
         /\ Effect(j, IF j \in Renders THEN "restore" ELSE "finish")
         /\ held = Unset /\ held' = Unset /\ UNCHANGED taskVars
         /\ \A k \in Tasks : Owes(k)' => Owes(k)
         /\ \A k \in Tasks : Owes(k) => Owes(k)' \/ k = j
    BY <1>0, <1>8, PostedControl
  <2>2. \A k \in Tasks : ~Overrides(k) /\ ~Overrides(k)' /\ (pc'[k] \in {"work", "end"} => Owes(k)')
    BY <1>u, <1>v, <2>1 DEF Owes
  <2>3. CASE j \in Renders
    <3>1. Restore(j)
      BY <2>1, <2>3 DEF Effect
    <3> QED
      BY <1>0, <1>2, <2>1, <2>2, <2>3, <3>1
  <2>4. CASE j \notin Renders
    <3>1. UNCHANGED <<parm, want, spoilt, saved, written>>
      BY <2>1, <2>4 DEF Effect, FinishPlayhead, RestoreFrame
    <3>2. \A k \in Renders : Owes(k)' <=> Owes(k)
      BY <1>0, <2>1, <2>4
    <3> QED
      BY <1>0, <2>1, <2>2, <3>1, <3>2, ParmStays
  <2> QED
    BY <2>3, <2>4
<1>9. CASE EditParm
  <2>1. UNCHANGED <<taskVars, stepVars, mainVars, lates, written>> /\ \A k \in Tasks : Owes(k)' <=> Owes(k)
    BY <1>0, <1>9, UserControl
  <2>2. held = Unset /\ parm' = want' /\ Renders' = Renders
        /\ spoilt' = (spoilt \/ \E j \in Renders : saved[j] # Unset /\ AtWork(j))
    BY <1>9, <2>1, KindStays DEF EditParm, Moves
  <2>3. \A j \in Renders : Owes(j) => AtWork(j) /\ saved[j] # Unset
    BY <1>0, <2>2, BackIs DEF Owes, AtWork, InQueue, TaskFits
  <2>4. ~spoilt /\ \A j \in Renders : ~Owes(j)'
    BY <1>0, <2>1, <2>2, <2>3
  <2>5. \A j \in Renders : ~Overrides(j)' /\ (pc'[j] \in {"work", "end"} => Owes(j)')
    BY <1>0, <1>v, <2>1, <2>2 DEF Owes
  <2> QED
    BY <1>p, <2>1, <2>2, <2>4, <2>5 DEF ParmInv
<1>10. CASE DeleteRop \/ (\E to \in 0 .. Away : Scrub(to)) \/ UNCHANGED rendersVars
  <2>1. UNCHANGED <<taskVars, stepVars, mainVars, lates, written>> /\ \A k \in Tasks : Owes(k)' <=> Owes(k)
    BY <1>0, <1>10, UserControl
  <2>2. UNCHANGED <<parm, want, spoilt>>
    BY <1>10 DEF DeleteRop, Scrub, rendersVars
  <2> QED
    BY <1>0, <2>1, <2>2, ParmStays DEF Overrides
<1> QED
  BY <1>3, <1>4, <1>5, <1>6, <1>7, <1>8, <1>9, <1>10 DEF RendersNext

-----------------------------------------------------------------------------
(* The playbar. *)

LEMMA HomeIs ==
  ASSUME NEW j, frame \in Nat, play[j] \in Playheads
  PROVE  Home(j) = IF kind[j] # "range" THEN play[j].start
                   ELSE IF play[j].last # Unset /\ frame # play[j].last THEN frame
                   ELSE IF play[j].user = Unset THEN play[j].start ELSE play[j].user
BY RendersAssumption DEF Home, Target, Noticed, Playheads

LEMMA HomeNext ==
  ASSUME NEW j, frame' \in Nat, play'[j] \in Playheads, kind' = kind
  PROVE  Home(j)' = IF kind[j] # "range" THEN play'[j].start
                    ELSE IF play'[j].last # Unset /\ frame' # play'[j].last THEN frame'
                    ELSE IF play'[j].user = Unset THEN play'[j].start ELSE play'[j].user
BY RendersAssumption DEF Home, Target, Noticed, Playheads

\* What a step of a cook does to the playhead.
LEMMA FrameIs ==
  ASSUME RendersTypeOK, NEW j \in Tasks, Effect(j, "frame")
  PROVE  /\ UNCHANGED <<wish, strayed>> /\ \A k \in Tasks \ {j} : play'[k] = play[k]
         /\ kind[j] = "range" =>
              /\ play'[j].last = frame' /\ play'[j].start = play[j].start
              /\ play'[j].user = IF play[j].last # Unset /\ frame # play[j].last THEN frame ELSE play[j].user
         /\ kind[j] # "range" => play' = play
<1> DEFINE p == play[j]
           to == IF kind[j] = "range" THEN done[j] + 1 ELSE 1
           q == [Noticed(p) EXCEPT !.last = to]
<1>1. SetFrame(j, TRUE)
  BY DEF Effect
<1>2. /\ UNCHANGED <<wish, strayed>> /\ frame' = to
      /\ play' = IF kind[j] = "range" THEN [play EXCEPT ![j] = q] ELSE play
  BY <1>1 DEF SetFrame, RendersTypeOK
<1>3. p \in Playheads /\ frame \in Nat /\ play \in [Tasks -> Playheads]
  BY DEF RendersTypeOK
<1>4. q.last = to /\ q.start = p.start
      /\ q.user = IF p.last # Unset /\ frame # p.last THEN frame ELSE p.user
  BY <1>3, NoticedIs DEF Playheads
<1> HIDE DEF to, q
<1> QED
  BY <1>2, <1>3, <1>4

\* A step of a cook whose node is gone.
LEMMA MissingIs ==
  ASSUME RendersTypeOK, NEW j \in Tasks, Effect(j, "missing"), ~strayed'
  PROVE  ~strayed /\ UNCHANGED <<wish, play>> /\ (kind[j] = "range" => play[j].last = Unset)
<1>1. SetFrame(j, FALSE)
  BY DEF Effect
<1>2. /\ UNCHANGED wish /\ play' = (IF kind[j] = "range" THEN [play EXCEPT ![j] = Noticed(play[j])] ELSE play)
      /\ strayed' = (strayed \/ (kind[j] = "range" /\ play[j].last # Unset))
  BY <1>1 DEF SetFrame
<1>3. ~strayed /\ (kind[j] = "range" => play[j].last = Unset)
  BY <1>2
<1>4. kind[j] = "range" => Noticed(play[j]) = play[j]
  BY <1>3 DEF Noticed
<1>5. play' = play
  BY <1>2, <1>4 DEF RendersTypeOK
<1> QED
  BY <1>2, <1>3, <1>5

LEMMA FinishIs ==
  ASSUME RendersTypeOK, NEW j \in Tasks, Effect(j, "finish")
  PROVE  /\ UNCHANGED <<wish, strayed>> /\ \A k \in Tasks \ {j} : play'[k] = play[k]
         /\ frame' = Home(j) /\ play'[j].start = play[j].start /\ play'[j].last = play[j].last
         /\ kind[j] = "range" =>
              play'[j].user = IF play[j].last # Unset /\ frame # play[j].last THEN frame ELSE play[j].user
<1> DEFINE p == play[j]
           q == Noticed(p)
<1>1. IF kind[j] = "range" THEN FinishPlayhead(j) ELSE RestoreFrame(j)
  BY DEF Effect
<1>2. /\ UNCHANGED <<wish, strayed>>
      /\ frame' = IF kind[j] = "range" THEN Target(q) ELSE play[j].start
      /\ play' = IF kind[j] = "range" THEN [play EXCEPT ![j] = q] ELSE play
  BY <1>1 DEF FinishPlayhead, RestoreFrame, history, stepVars
<1>3. p \in Playheads /\ frame \in Nat /\ play \in [Tasks -> Playheads]
  BY DEF RendersTypeOK
<1>4. q.last = p.last /\ q.start = p.start
      /\ q.user = IF p.last # Unset /\ frame # p.last THEN frame ELSE p.user
  BY <1>3, NoticedIs
<1>5. Home(j) = IF kind[j] = "range" THEN Target(q) ELSE play[j].start
  BY DEF Home
<1> HIDE DEF q
<1> QED
  BY <1>2, <1>3, <1>4, <1>5

\* A step that leaves the playbar, and what is owed, as they are.
LEMMA FrameStays ==
  ASSUME FrameInv, kind' = kind, UNCHANGED <<frame, wish, strayed>>,
         \A j \in Cooks : Owes(j) => play'[j] = play[j],
         \A j \in Cooks : Owes(j)' <=> Owes(j)
  PROVE  FrameInv'
<1>1. Cooks' = Cooks
  BY KindStays
<1>2. \A j \in Cooks : Owes(j) => Home(j)' = Home(j)
  BY DEF Home, Noticed, Target
<1> QED
  BY <1>1, <1>2 DEF FrameInv

LEMMA FrameStep == RendersInv /\ [RendersNext]_rendersVars => FrameInv'
<1> SUFFICES ASSUME RendersInv, [RendersNext]_rendersVars, ~strayed' PROVE FrameInv'
  BY DEF FrameInv
<1>0. /\ RendersTypeOK /\ StepsFit /\ FrameInv /\ strayed \in BOOLEAN
      /\ \A j \in Tasks : TaskFits(j) /\ pc[j] \in {"begin", "work", "end", "over"}
      /\ \A j \in Cooks : j \in Tasks /\ j \notin Renders
      /\ frame \in Nat /\ play \in [Tasks -> Playheads]
      /\ held \in Steps \cup {Unset} /\ \A step \in Steps : step # Unset
      /\ Unset \notin Nat
  BY RendersAssumption DEF RendersInv, RendersTypeOK, Cooks
<1>n. frame' \in Nat /\ play' \in [Tasks -> Playheads]
  BY RendersTypeStep DEF RendersTypeOK
<1>p. ~strayed =>
        /\ frame = wish \/ \E j \in Cooks : Owes(j)
        /\ \A j \in Cooks : Owes(j) => Home(j) = wish
        /\ \A j, k \in Cooks : Owes(j) /\ Owes(k) => j = k
  BY <1>0 DEF FrameInv
<1>a. \A j \in Tasks : Owes(j) => AtWork(j)
  BY BackIs DEF Owes, AtWork, InQueue
<1> USE DEF taskVars, sceneVars, stepVars, mainVars, history
\* A cook moves the playbar: it alone has to put it back, and knows where to.
<1>1. ASSUME NEW j \in Cooks, Effect(j, "frame"), kind' = kind, Owes(j), Owes(j)',
             \A k \in Cooks : Owes(k)' => Owes(k)
      PROVE  FrameInv'
  <2>1. /\ UNCHANGED <<wish, strayed>>
        /\ kind[j] = "range" =>
              /\ play'[j].last = frame' /\ play'[j].start = play[j].start
              /\ play'[j].user = IF play[j].last # Unset /\ frame # play[j].last THEN frame ELSE play[j].user
        /\ kind[j] # "range" => play' = play
    BY <1>0, <1>1, FrameIs
  <2>2. ~strayed /\ Cooks' = Cooks /\ Home(j) = wish /\ \A k \in Cooks : Owes(k) => k = j
    BY <1>1, <1>p, <2>1, KindStays
  <2>3. Home(j)' = Home(j)
    BY <1>0, <1>1, <1>n, <2>1, HomeIs, HomeNext
  <2> QED
    BY <1>1, <2>1, <2>2, <2>3 DEF FrameInv
\* It moves the playbar and finds its node gone: it knows where to put it back from its first
\* frame only.
<1>m. ASSUME NEW j \in Cooks, Effect(j, "missing"), kind' = kind, Owes(j), Owes(j)',
             \A k \in Cooks : Owes(k)' => Owes(k)
      PROVE  FrameInv'
  <2>1. ~strayed /\ UNCHANGED <<wish, play>> /\ (kind[j] = "range" => play[j].last = Unset)
    BY <1>0, <1>m, MissingIs
  <2>2. Cooks' = Cooks /\ Home(j) = wish /\ \A k \in Cooks : Owes(k) => k = j
    BY <1>m, <1>p, <2>1, KindStays
  <2>3. Home(j)' = Home(j)
    BY <1>0, <1>m, <1>n, <2>1, HomeIs, HomeNext
  <2> QED
    BY <1>m, <2>1, <2>2, <2>3 DEF FrameInv
\* It puts the playbar to where the user has it, and no other has to.
<1>2. ASSUME NEW j \in Cooks, Effect(j, "finish"), kind' = kind, Owes(j),
             \A k \in Cooks : Owes(k)' => Owes(k)
      PROVE  FrameInv'
  <2>1. /\ UNCHANGED <<wish, strayed>> /\ frame' = Home(j)
        /\ play'[j].start = play[j].start /\ play'[j].last = play[j].last
        /\ kind[j] = "range" =>
              play'[j].user = IF play[j].last # Unset /\ frame # play[j].last THEN frame ELSE play[j].user
    BY <1>0, <1>2, FinishIs
  <2>2. ~strayed /\ Cooks' = Cooks /\ Home(j) = wish /\ \A k \in Cooks : Owes(k) => k = j
    BY <1>2, <1>p, <2>1, KindStays
  <2>3. Home(j)' = Home(j)
    BY <1>0, <1>2, <1>n, <2>1, HomeIs, HomeNext
  <2> QED
    BY <1>2, <2>1, <2>2, <2>3 DEF FrameInv
<1>3. ASSUME NEW j \in Tasks, RunStep(j) PROVE FrameInv'
  <2> DEFINE fn == StepOf(j)
  <2>1. pc[j] # "over" /\ Effect(j, fn)
    BY <1>3 DEF RunStep
  <2>2. /\ Ready /\ kind' = kind /\ Others(j)
        /\ pc[j] = "begin" => pc'[j] = "work"
        /\ pc[j] = "end" => pc'[j] = "over"
        /\ \A i \in Tasks : Owes(i) <=> pc[i] \in {"work", "end"}
        /\ \A i \in Tasks : Owes(i)' <=> pc'[i] \in {"work", "end"}
        /\ pc[j] = "work" => pc'[j] \in {"work", "end"}
    BY <1>0, <1>3, RunControl
  <2>3. /\ fn \in {"override", "render", "restore", "read", "frame", "finish"}
        /\ j \in Renders => fn \in {"override", "render", "restore"}
        /\ j \notin Renders => fn \in {"read", "frame", "finish"}
        /\ pc[j] = "begin" <=> fn \in {"override", "read"}
        /\ pc[j] = "work" <=> fn \in {"render", "frame"}
        /\ pc[j] = "end" <=> fn \in {"restore", "finish"}
    BY <1>0, <2>1, StepOfIs
  <2>4. \A k \in Cooks : k # j => (Owes(k)' <=> Owes(k))
    BY <1>0, <2>2 DEF Others
  <2> HIDE DEF fn
  <2>5. CASE fn = "read"
    <3>1. ReadFrame(j) /\ j \in Cooks /\ ~Owes(j) /\ Owes(j)'
      BY <1>0, <2>1, <2>2, <2>3, <2>5 DEF Effect, Cooks
    <3>2. /\ UNCHANGED <<frame, wish>>
          /\ strayed' = (strayed \/ \E k \in Cooks \ {j} : AtWork(k))
      BY <3>1 DEF ReadFrame
    <3>3. ~strayed /\ \A k \in Cooks : ~Owes(k)
      BY <1>0, <1>a, <3>1, <3>2
    <3>4. frame = wish /\ Cooks' = Cooks /\ \A k \in Cooks : Owes(k)' <=> k = j
      BY <1>p, <2>2, <2>4, <3>1, <3>3, KindStays
    <3>5. play'[j].start = frame /\ play'[j].last = Unset /\ play'[j].user = Unset
      <4>1. play[j].last = Unset /\ play[j].user = Unset
        BY <1>0, <2>3, <2>5 DEF TaskFits
      <4> QED
        BY <1>0, <2>1, <2>5, <4>1, EffectIs
    <3>6. Home(j)' = wish
      BY <1>0, <1>n, <2>2, <3>2, <3>4, <3>5, HomeNext
    <3> QED
      BY <3>1, <3>2, <3>4, <3>6 DEF FrameInv
  <2>6. CASE fn = "frame"
    <3>1. j \in Cooks /\ Owes(j) /\ Owes(j)'
      BY <2>2, <2>3, <2>6 DEF Cooks
    <3> QED
      BY <1>1, <2>1, <2>2, <2>4, <2>6, <3>1
  <2>7. CASE fn = "finish"
    <3>1. j \in Cooks /\ Owes(j) /\ ~Owes(j)'
      BY <2>2, <2>3, <2>7 DEF Cooks
    <3> QED
      BY <1>2, <2>1, <2>2, <2>4, <2>7, <3>1
  <2>8. CASE fn \in {"override", "render", "restore"}
    <3>1. UNCHANGED <<frame, play, wish, strayed>> /\ j \notin Cooks
      BY <1>0, <2>1, <2>3, <2>8 DEF Effect, Override, RenderFrame, Restore
    <3> QED
      BY <1>0, <2>2, <2>4, <3>1, FrameStays
  <2> QED
    BY <2>3, <2>5, <2>6, <2>7, <2>8
<1>4. ASSUME NEW j \in Tasks, StepErrs(j) \/ StepRefused(j) PROVE FrameInv'
  <2>1. /\ UNCHANGED <<kind>> /\ \A i \in Tasks : Owes(i)' <=> Owes(i)
        /\ \/ UNCHANGED <<sceneVars, stepVars, history>>
           \/ j \notin Renders /\ pc[j] = "work" /\ Effect(j, "missing")
    BY <1>0, <1>4, FailControl
  <2>2. CASE UNCHANGED <<sceneVars, stepVars, history>>
    BY <1>0, <2>1, <2>2, FrameStays
  <2>3. CASE j \notin Renders /\ pc[j] = "work" /\ Effect(j, "missing")
    <3>1. j \in Cooks /\ Owes(j) /\ Owes(j)' /\ \A i \in Cooks : Owes(i)' => Owes(i)
      BY <1>0, <2>1, <2>3 DEF Cooks, Owes
    <3> QED
      BY <1>m, <2>1, <2>3, <3>1
  <2> QED
    BY <2>1, <2>2, <2>3
<1>5. ASSUME NEW j \in Tasks, NEW late \in BOOLEAN, Fallback(j, late) PROVE FrameInv'
  <2>1. UNCHANGED <<sceneVars, stepVars, history, kind>> /\ \A i \in Tasks : Owes(i)' <=> Owes(i)
    BY <1>0, <1>5, FallbackControl
  <2> QED
    BY <1>0, <2>1, FrameStays
<1>6. ASSUME NEW j \in Tasks, NEW half \in BOOLEAN, StepLate(j, half) PROVE FrameInv'
  <2>1. /\ UNCHANGED <<frame, play, kind, wish, strayed>> /\ Others(j) /\ pc[j] \in {"begin", "work"}
        /\ half => StepOf(j) = "override"
        /\ pc'[j] = IF half \/ pc[j] = "work" THEN "end" ELSE "over"
        /\ \A k \in Tasks : Owes(k) <=> pc[k] \in {"work", "end"}
        /\ \A k \in Tasks : Owes(k)' <=> pc'[k] \in {"work", "end"}
    BY <1>0, <1>6, LateControl
  <2>2. j \notin Renders => ~half
    BY <1>0, <2>1, StepOfIs
  <2>3. \A k \in Cooks : Owes(k)' <=> Owes(k)
    BY <1>0, <2>1, <2>2 DEF Others
  <2> QED
    BY <1>0, <2>1, <2>3, FrameStays
<1>7. CASE LateEnds
  <2>0. PICK j : j = held.job
    OBVIOUS
  <2>1. /\ held \in Steps /\ held' = Unset /\ UNCHANGED <<taskVars, queue>>
        /\ \E fn \in {"override", "render", "restore", "read", "frame", "missing", "finish"} :
             Effect(j, fn) /\ (fn = held.fn \/ (fn = "missing" /\ held.fn = "frame"))
        /\ \A k \in Tasks : Owes(k)' => Owes(k)
        /\ \A k \in Tasks : Owes(k) => Owes(k)' \/ held = Back(k)
    BY <1>0, <1>7, <2>0, EndsControl
  <2>f. PICK fn \in {"override", "render", "restore", "read", "frame", "missing", "finish"} :
              Effect(j, fn) /\ (fn = held.fn \/ (fn = "missing" /\ held.fn = "frame"))
    BY <2>1
  <2>2. /\ j \in Tasks
        /\ held = [job |-> j, fn |-> held.fn] /\ held # Unset
    BY <1>0, <2>0, <2>1 DEF Steps
  <2>3. /\ held.fn \in IF j \in Renders THEN {"override", "render", "restore"} ELSE {"read", "frame", "finish"}
        /\ held.fn = "frame" => Owes(j)
        /\ held.fn = "read" => ~Owes(j)
    BY <1>0, <2>0, <2>2 DEF StepsFit
  <2>4. \A k \in Tasks : held = Back(k) => k = j /\ held.fn = IF j \in Renders THEN "restore" ELSE "finish"
    BY <2>0, BackIs
  <2>5. CASE fn = "read"
    <3>1. ReadFrame(j) /\ \A k \in Tasks : Owes(k)' <=> Owes(k)
      BY <2>f, <2>1, <2>4, <2>5 DEF Effect
    <3>2. UNCHANGED <<frame, wish>> /\ ~strayed
      BY <1>0, <3>1 DEF ReadFrame
    <3>4. strayed' \in BOOLEAN
      BY RendersTypeStep DEF RendersTypeOK
    <3>5. UNCHANGED strayed
      BY <1>0, <3>2, <3>4
    <3>3. \A k \in Cooks : Owes(k) => play'[k] = play[k]
      BY <1>0, <2>f, <2>2, <2>3, <2>5, EffectIs
    <3> QED
      BY <1>0, <2>1, <3>1, <3>2, <3>3, <3>5, FrameStays
  <2>6. CASE fn = "frame"
    <3>1. j \in Cooks /\ Owes(j) /\ Owes(j)'
      BY <2>f, <2>1, <2>2, <2>3, <2>4, <2>6 DEF Cooks
    <3> QED
      BY <1>0, <1>1, <2>f, <2>1, <2>6, <3>1
  <2>7. CASE fn = "finish"
    <3>1. j \in Cooks /\ Owes(j)
      BY <2>f, <2>2, <2>3, <2>7 DEF Cooks, Owes, Back
    <3> QED
      BY <1>0, <1>2, <2>f, <2>1, <2>7, <3>1
  <2>8. CASE fn \in {"override", "render", "restore"}
    <3>1. UNCHANGED <<frame, play, wish, strayed>> /\ j \notin Cooks
      BY <1>0, <2>f, <2>3, <2>8 DEF Effect, Override, RenderFrame, Restore
    <3>2. \A k \in Cooks : Owes(k)' <=> Owes(k)
      BY <1>0, <2>1, <2>4, <3>1
    <3> QED
      BY <1>0, <2>1, <3>1, <3>2, FrameStays
  <2>9. CASE fn = "missing"
    <3>1. j \in Cooks /\ Owes(j) /\ Owes(j)'
      BY <2>f, <2>1, <2>2, <2>3, <2>4, <2>9 DEF Cooks
    <3> QED
      BY <1>0, <1>m, <2>f, <2>1, <2>9, <3>1
  <2> QED
    BY <2>f, <2>5, <2>6, <2>7, <2>8, <2>9
<1>8. CASE RunPosted
  <2>1. PICK j \in Tasks :
         /\ Owes(j) /\ Effect(j, IF j \in Renders THEN "restore" ELSE "finish")
         /\ UNCHANGED taskVars
         /\ \A k \in Tasks : Owes(k)' => Owes(k)
         /\ \A k \in Tasks : Owes(k) => Owes(k)' \/ k = j
    BY <1>0, <1>8, PostedControl
  <2>2. CASE j \in Renders
    <3>1. UNCHANGED <<frame, play, wish, strayed>> /\ j \notin Cooks
      BY <1>0, <2>1, <2>2 DEF Effect, Restore
    <3>2. \A k \in Cooks : Owes(k)' <=> Owes(k)
      BY <1>0, <2>1, <3>1
    <3> QED
      BY <1>0, <2>1, <3>1, <3>2, FrameStays
  <2>3. CASE j \notin Renders
    <3>1. j \in Cooks /\ Effect(j, "finish")
      BY <2>1, <2>3 DEF Cooks
    <3> QED
      BY <1>0, <1>2, <2>1, <3>1
  <2> QED
    BY <2>2, <2>3
<1>9. ASSUME NEW to \in 0 .. Away, Scrub(to) PROVE FrameInv'
  <2>1. UNCHANGED <<taskVars, stepVars, mainVars>> /\ \A k \in Tasks : Owes(k)' <=> Owes(k)
    BY <1>0, <1>9, UserControl
  <2>2. frame' = to /\ wish' = to /\ Cooks' = Cooks
        /\ strayed' = (strayed \/ \E j \in Cooks : AtWork(j) /\ (kind[j] = "profile" \/ play[j].last \in {Unset, to}))
    BY <1>9, <2>1, KindStays DEF Scrub
  <2>3. ~strayed /\ \A j \in Cooks : Owes(j) => kind[j] = "range" /\ play[j].last \notin {Unset, to}
    <3>1. \A j \in Cooks : kind[j] \in {"range", "profile"}
      BY <1>0 DEF RendersTypeOK, Kinds, Renders
    <3> QED
      BY <1>0, <1>a, <2>2, <3>1
  <2>4. \A j \in Cooks : Owes(j) => Home(j)' = to
    BY <1>0, <1>n, <2>1, <2>2, <2>3, HomeNext
  <2> QED
    BY <1>0, <1>p, <2>1, <2>2, <2>3, <2>4 DEF FrameInv
<1>10. CASE EditParm \/ DeleteRop \/ UNCHANGED rendersVars
  <2>1. UNCHANGED <<taskVars, stepVars>> /\ \A k \in Tasks : Owes(k)' <=> Owes(k)
    BY <1>0, <1>10, UserControl
  <2>2. UNCHANGED <<frame, wish, strayed>>
    BY <1>10 DEF EditParm, DeleteRop, rendersVars
  <2> QED
    BY <1>0, <2>1, <2>2, FrameStays
<1> QED
  BY <1>3, <1>4, <1>5, <1>6, <1>7, <1>8, <1>9, <1>10 DEF RendersNext

-----------------------------------------------------------------------------
(* The theorems. *)

LEMMA RendersInvariance == RendersSpec => []RendersInv
<1>1. RendersInit => RendersInv
  BY RendersBegin
<1>2. RendersInv /\ [RendersNext]_rendersVars => RendersInv'
  BY RendersTypeStep, StepsFitStep, TasksFitStep, ParmStep, FrameStep DEF RendersInv
<1> QED
  BY <1>1, <1>2, PTL DEF RendersSpec

\* The jobs, the steps that outlast their wait and those that were posted keep their form
\* (tools/visual.py, tools/cook.py).
THEOREM RendersTyped == RendersSpec => []RendersTypeOK
<1>1. RendersInv => RendersTypeOK
  BY DEF RendersInv
<1> QED
  BY <1>1, RendersInvariance, PTL

\* For any set of jobs and any number of frames: when none is at work and nothing of theirs waits,
\* the ROP has the user's value again and the playbar is where the user put it, whether they ended
\* well, failed, were cancelled, or a step of theirs outlasted its wait (tools/visual.py,
\* tools/cook.py).
THEOREM BorrowedIsGivenBack == RendersSpec => []BorrowedIsBack
<1>1. RendersInv => BorrowedIsBack
  <2> SUFFICES ASSUME RendersInv, Quiet PROVE (parm = want \/ spoilt) /\ (frame = wish \/ strayed)
    BY DEF BorrowedIsBack, ParmIsBack, PlaybarIsBack
  <2>1. \A j \in Tasks : ~Owes(j)
    BY OwedAtRest DEF Quiet, Ready
  <2> QED
    BY <2>1 DEF RendersInv, ParmInv, FrameInv, Renders, Cooks
<1> QED
  BY <1>1, RendersInvariance, PTL

\* For any set of jobs and any number of frames: a render that reports done has written every one
\* to its own output (tools/visual.py).
THEOREM RendersAreWritten == RendersSpec => []DoneIsWritten
<1>1. RendersInv => DoneIsWritten
  <2> SUFFICES ASSUME RendersInv, NEW j \in Renders, outcome[j] = "done", ~spoilt
               PROVE  written[j] = 1 .. LastFrame
    BY DEF DoneIsWritten
  <2>1. j \in Tasks
    BY DEF Renders
  <2>2. done[j] = LastFrame /\ written[j] \subseteq 1 .. LastFrame
    BY <2>1 DEF RendersInv, TaskFits
  <2>3. 1 .. done[j] \subseteq written[j]
    BY DEF RendersInv, ParmInv
  <2> QED
    BY <2>2, <2>3
<1> QED
  BY <1>1, RendersInvariance, PTL
=============================================================================
