---------------------------- MODULE CallsProofs -----------------------------
(***************************************************************************)
(* Each row of an edit's cooks arrives once, and a row that says cooking   *)
(* has a job (Calls, _cook_after of edit.py), for any calls and any nodes. *)
(***************************************************************************)
EXTENDS Calls, TLAPS, FiniteSetTheorems, SequenceTheorems

Items == [what : {"work", "slice"}, c : Call, at : Nat]
Mains == {Idle} \cup Items
Asks == [kind : CallKinds \cup {"none"}, on : Seq(Node)]
Outs == [cooked : SUBSET Node, cooking : SUBSET Node, id : BOOLEAN]

\* Every variable has its type, as functions and sequences.
TypeInv ==
  /\ alive \in SUBSET Node
  /\ ask \in [Call -> Asks]
  /\ queue \in Seq(Items)
  /\ main \in Mains
  /\ work \in [Call -> {"none", "pending", "running", "long", "done", "cancelled"}]
  /\ ended \in [Call -> {"none", "ok", "error"}]
  /\ pc \in [Call -> {"new", "waiting", "giveup", "after", "answered"}]
  /\ said \in [Call -> {"none", "done", "error", "busy", "following"}]
  /\ follow \in [Call -> {"none", "wait", "after", "done", "error"}]
  /\ targets \in [Call -> Seq(Node)]
  /\ step \in [Call -> {"none", "start", "wait", "lock", "patch", "over"}]
  /\ finished \in [Call -> BOOLEAN]
  /\ out \in [Call -> Outs]
  /\ job \in [Call -> {"none", "running", "done", "failed", "cancelled"}]
  /\ jobpc \in [Call -> {"none", "next", "step", "over"}]
  /\ index \in [Call -> Nat]
  /\ cancel \in [Call -> BOOLEAN]
  /\ rows \in [Call -> SUBSET Node]
  /\ handed \in [Call -> BOOLEAN]
  /\ later \in [Call -> SUBSET Node]
  /\ result \in [Call -> SUBSET Node]
  /\ filed \in SUBSET Call
  /\ skipped \in [Call -> SUBSET Node]

\* A slice of the call is on the main thread.
Slicing(c) == main.what = "slice" /\ main.c = c

\* A call has one work and one slice, in the queue or on the main thread.
QueueInv ==
  /\ \A i, j \in 1 .. Len(queue) :
       queue[i].what = queue[j].what /\ queue[i].c = queue[j].c => i = j
  /\ \A i \in 1 .. Len(queue) :
       /\ queue[i].what = "work" => work[queue[i].c] \in {"pending", "cancelled"}
       /\ queue[i].what = "slice" => jobpc[queue[i].c] \in {"step", "over"} /\ ~Slicing(queue[i].c)
  /\ main.what = "work" => work[main.c] \in {"running", "long"}
  /\ main.what = "slice" =>
       /\ jobpc[main.c] = "step" \/ job[main.c] = "failed"
       /\ main.at <= Len(targets[main.c])

\* The after-step comes when the work is done, on one of the two threads.
RequestInv ==
  \A c \in Call :
    /\ pc[c] = "new" => work[c] = "none"
    /\ pc[c] \in {"new", "waiting", "giveup"} => step[c] = "none" /\ follow[c] = "none"
    /\ follow[c] = "wait" => step[c] = "none"
    /\ step[c] # "none" => work[c] = "done"

\* The cook job lives after the start, and its end is told by its state.
JobInv ==
  \A c \in Call :
    /\ step[c] \in {"none", "start"} <=> jobpc[c] = "none"
    /\ jobpc[c] = "none" <=> job[c] = "none"
    /\ jobpc[c] \in {"next", "step"} => job[c] = "running"
    /\ jobpc[c] = "over" => job[c] \in {"done", "failed", "cancelled"}
    /\ finished[c] => step[c] \in {"lock", "patch", "over"} /\ jobpc[c] = "over"
    /\ handed[c] <=> step[c] \in {"patch", "over"}

\* How many targets have had their turn, while a slice or the job's thread knows.
Past(c) == IF Slicing(c) THEN main.at ELSE index[c]
First(c, k) == {targets[c][i] : i \in {j \in 1 .. Len(targets[c]) : j <= k}}

\* The rows: who has them, and which targets they are of.
RowsOf(c) ==
  /\ \A i, j \in 1 .. Len(targets[c]) : targets[c][i] = targets[c][j] => i = j
  /\ index[c] <= Len(targets[c])
  /\ jobpc[c] = "none" => rows[c] = {} /\ skipped[c] = {} /\ index[c] = 0
  /\ jobpc[c] # "over" \/ Slicing(c) => rows[c] \cup skipped[c] = First(c, Past(c))
  /\ job[c] = "done" => rows[c] \cup skipped[c] = Ranged(targets[c])
  /\ result[c] = IF job[c] = "done" THEN later[c] ELSE {}
  /\ ~handed[c] => later[c] = {} /\ out[c].cooked = {}
  /\ handed[c] => rows[c] = out[c].cooked \cup later[c] /\ out[c].cooked \cap later[c] = {}
  /\ handed[c] /\ finished[c] /\ job[c] = "done" => later[c] = {}
RowsInv == \A c \in Call : RowsOf(c)

IInv == TypeInv /\ QueueInv /\ RequestInv /\ JobInv /\ RowsInv /\ CookingHasJob

-----------------------------------------------------------------------------
(* Helpers. *)

\* An order of a set of nodes is a sequence of nodes, none twice.
LEMMA OrderType ==
  ASSUME NEW S \in SUBSET Node, NEW s \in Orders(S)
  PROVE  /\ s \in Seq(Node) /\ Ranged(s) \subseteq S
         /\ \A i, j \in 1 .. Len(s) : s[i] = s[j] => i = j
  <1>1. IsFiniteSet(S) /\ Cardinality(S) \in Nat
    BY CallsAssumption, FS_Subset, FS_CardinalityType
  <1>2. s \in [1 .. Cardinality(S) -> S] /\ \A i, j \in DOMAIN s : s[i] = s[j] => i = j
    BY DEF Orders
  <1>3. s \in Seq(S) /\ Len(s) = Cardinality(S) /\ DOMAIN s = 1 .. Len(s)
    BY <1>1, <1>2
  <1>4. s \in Seq(Node)
    BY <1>3
  <1> QED BY <1>2, <1>3, <1>4 DEF Ranged

\* Each initial state has the invariant.
LEMMA InitInv == Init => IInv
  <1> SUFFICES ASSUME Init PROVE IInv
    OBVIOUS
  <1>1. TypeInv
    BY DEF Init, TypeInv, CallKinds, NoRows, Asks, Mains, Outs
  <1>2. QueueInv
    BY DEF Init, QueueInv, Idle, Slicing
  <1>3. RequestInv /\ JobInv
    BY DEF Init, RequestInv, JobInv
  <1>4. RowsInv
    BY DEF Init, RowsInv, RowsOf, Slicing, Idle, First, Past, NoRows
  <1>5. CookingHasJob
    BY DEF Init, CookingHasJob
  <1> QED BY <1>1, <1>2, <1>3, <1>4, <1>5 DEF IInv

-----------------------------------------------------------------------------
(* Types. *)

\* Each step keeps the types.
LEMMA TypeStep == TypeInv /\ [Next]_vars => TypeInv'
  <1> SUFFICES ASSUME TypeInv, [Next]_vars PROVE TypeInv'
    OBVIOUS
  <1>u. CASE UNCHANGED vars
    BY <1>u DEF TypeInv, vars, request, working, after, jobs, cooks
  <1>e. CASE Execute
    <2> DEFINE i == Head(queue)
    <2>1. i \in Items /\ queue' \in Seq(Items)
      BY <1>e DEF Execute, TypeInv
    <2>2. i.c \in Call /\ [i EXCEPT !.at = index[i.c]] \in Items
      BY <2>1 DEF Items, TypeInv
    <2>3. \/ main' = main
          \/ main' = [i EXCEPT !.at = index[i.c]]
          \/ main' = i
      BY <1>e DEF Execute
    <2>4. work' = work \/ work' = [work EXCEPT ![i.c] = "running"]
      BY <1>e DEF Execute
    <2>5. main' \in Mains
      <3>1. main \in Mains
        BY DEF TypeInv
      <3> QED BY <2>1, <2>2, <2>3, <3>1 DEF Mains
    <2>6. work' \in [Call -> {"none", "pending", "running", "long", "done", "cancelled"}]
      <3>1. work \in [Call -> {"none", "pending", "running", "long", "done", "cancelled"}]
        BY DEF TypeInv
      <3> QED BY <2>2, <2>4, <3>1
    <2> QED BY <1>e, <2>1, <2>5, <2>6 DEF Execute, TypeInv, request, after, jobs, cooks
  <1> SUFFICES ASSUME NEW c \in Call, Next, ~Execute, ~UNCHANGED vars,
        \/ Refuse(c) \/ Returned(c) \/ Adopt(c) \/ TimesOut(c) \/ GiveUp(c) \/ FollowEnds(c)
        \/ MarkLong(c) \/ CookNext(c) \/ EndSlice(c)
        \/ SubmitSlice(c) \/ StepFails(c) \/ EndJob(c) \/ Cancel(c)
        \/ StartCooks(c) \/ HandOff(c) \/ Finish(c)
        \/ \E kind \in Kinds(c), on \in Plans : Submit(c, kind, on)
        \/ \E ok \in BOOLEAN : EndWork(c, ok) \/ WaitEnds(c, ok)
      PROVE TypeInv'
    BY <1>u, <1>e DEF Next
  <1>a1. CASE Refuse(c)
    BY <1>a1 DEF Refuse, Answer, TypeInv, request, working, after, jobs, cooks
  <1>a2. CASE Returned(c)
    <2>1. /\ pc' = [pc EXCEPT ![c] = "after"] \/ pc' = [pc EXCEPT ![c] = "answered"]
          /\ step' = step \/ step' = [step EXCEPT ![c] = "start"]
          /\ \/ said' = said \/ said' = [said EXCEPT ![c] = "done"]
             \/ said' = [said EXCEPT ![c] = "error"]
      BY <1>a2 DEF Returned, Answer
    <2>2. /\ pc' \in [Call -> {"new", "waiting", "giveup", "after", "answered"}]
          /\ step' \in [Call -> {"none", "start", "wait", "lock", "patch", "over"}]
          /\ said' \in [Call -> {"none", "done", "error", "busy", "following"}]
      <3>1. pc' \in [Call -> {"new", "waiting", "giveup", "after", "answered"}]
        <4>1. pc \in [Call -> {"new", "waiting", "giveup", "after", "answered"}]
          BY DEF TypeInv
        <4> QED BY <2>1, <4>1
      <3>2. step' \in [Call -> {"none", "start", "wait", "lock", "patch", "over"}]
        <4>1. step \in [Call -> {"none", "start", "wait", "lock", "patch", "over"}]
          BY DEF TypeInv
        <4> QED BY <2>1, <4>1
      <3>3. said' \in [Call -> {"none", "done", "error", "busy", "following"}]
        <4>1. said \in [Call -> {"none", "done", "error", "busy", "following"}]
          BY DEF TypeInv
        <4> QED BY <2>1, <4>1
      <3> QED BY <3>1, <3>2, <3>3
    <2> QED BY <1>a2, <2>2 DEF Returned, TypeInv, working, jobs, cooks
  <1>a3. CASE Adopt(c)
    BY <1>a3 DEF Adopt, Answer, TypeInv, request, working, after, jobs, cooks
  <1>a4. CASE TimesOut(c)
    BY <1>a4 DEF TimesOut, Answer, TypeInv, request, working, after, jobs, cooks
  <1>a5. CASE GiveUp(c)
    BY <1>a5 DEF GiveUp, Answer, TypeInv, request, working, after, jobs, cooks
  <1>a6. CASE FollowEnds(c)
    <2>1. /\ step' = step \/ step' = [step EXCEPT ![c] = "start"]
          /\ \E f \in {"after", "done", "error"} : follow' = [follow EXCEPT ![c] = f]
      BY <1>a6 DEF FollowEnds, Answer
    <2>2. /\ step' \in [Call -> {"none", "start", "wait", "lock", "patch", "over"}]
          /\ follow' \in [Call -> {"none", "wait", "after", "done", "error"}]
      <3>1. step' \in [Call -> {"none", "start", "wait", "lock", "patch", "over"}]
        <4>1. step \in [Call -> {"none", "start", "wait", "lock", "patch", "over"}]
          BY DEF TypeInv
        <4> QED BY <2>1, <4>1
      <3>2. follow' \in [Call -> {"none", "wait", "after", "done", "error"}]
        <4>1. follow \in [Call -> {"none", "wait", "after", "done", "error"}]
          BY DEF TypeInv
        <4> QED BY <2>1, <4>1
      <3> QED BY <3>1, <3>2
    <2> QED BY <1>a6, <2>2 DEF FollowEnds, TypeInv, working, jobs, cooks
  <1>a7. CASE MarkLong(c)
    BY <1>a7 DEF MarkLong, Answer, TypeInv, request, working, after, jobs, cooks
  <1>b. ASSUME NEW kind \in Kinds(c), NEW on \in Plans, Submit(c, kind, on) PROVE TypeInv'
    <2>1. on \in Seq(Node)
      BY OrderType DEF Plans
    <2>2. Item("work", c) \in Items
      BY DEF Item, Items
    <2> QED BY <1>b, <2>1, <2>2 DEF Submit, Kinds, CallKinds, Asks, TypeInv, request, working,
           after, jobs, cooks
  <1>d. ASSUME NEW ok \in BOOLEAN, EndWork(c, ok) PROVE TypeInv'
    <2>1. PICK todo \in Kept(ask[c].on, alive) :
            IF ok /\ ask[c].kind = "delete"
              THEN alive' = alive \ Ranged(todo) /\ targets' = targets
              ELSE alive' = alive /\ targets' = [targets EXCEPT ![c] = IF ok THEN todo ELSE <<>>]
      BY <1>d DEF EndWork
    <2>2. Ranged(ask[c].on) \cap alive \in SUBSET Node
      BY DEF TypeInv
    <2>3. todo \in Seq(Node)
      BY <2>2, OrderType DEF Kept
    <2>5. alive \in SUBSET Node /\ targets \in [Call -> Seq(Node)] /\ <<>> \in Seq(Node)
      BY DEF TypeInv
    <2>4. alive' \in SUBSET Node /\ targets' \in [Call -> Seq(Node)]
      BY <2>1, <2>3, <2>5
    <2>6. main' \in Mains
      BY <1>d DEF EndWork, Mains
    <2>7. ended' = [ended EXCEPT ![c] = "ok"] \/ ended' = [ended EXCEPT ![c] = "error"]
      BY <1>d DEF EndWork
    <2>8. /\ ended' \in [Call -> {"none", "ok", "error"}]
          /\ work' \in [Call -> {"none", "pending", "running", "long", "done", "cancelled"}]
      BY <1>d, <2>7 DEF EndWork, TypeInv
    <2>9. UNCHANGED <<queue, request, after, jobs, cooks, handed, filed>>
      BY <1>d DEF EndWork
    <2> QED BY <2>4, <2>6, <2>8, <2>9 DEF TypeInv, request, after, jobs, cooks
  <1>f. CASE CookNext(c)
    <2> DEFINE n == targets[c][main.at + 1]
    <2>1. main \in Items
      BY <1>f DEF CookNext, TypeInv, Mains, Idle
    <2>5. targets[c] \in Seq(Node)
      BY DEF TypeInv
    <2>2. main.at \in Nat /\ n \in Node
      BY <1>f, <2>1, <2>5 DEF CookNext, Items
    <2>6. main' \in Mains
      BY <1>f, <2>1, <2>2 DEF CookNext, Items, Mains
    <2>3. /\ rows' = rows \/ rows' = [rows EXCEPT ![c] = @ \cup {n}]
          /\ later' = later \/ later' = [later EXCEPT ![c] = @ \cup {n}]
             \/ later' = [later EXCEPT ![c] = @]
          /\ skipped' = skipped \/ skipped' = [skipped EXCEPT ![c] = @ \cup {n}]
      BY <1>f DEF CookNext, Row
    <2>7. /\ rows \in [Call -> SUBSET Node] /\ later \in [Call -> SUBSET Node]
          /\ skipped \in [Call -> SUBSET Node]
      BY DEF TypeInv
    <2>4. /\ rows' \in [Call -> SUBSET Node] /\ later' \in [Call -> SUBSET Node]
          /\ skipped' \in [Call -> SUBSET Node]
      BY <2>2, <2>3, <2>7
    <2> QED BY <1>f, <2>4, <2>6 DEF CookNext, TypeInv, request, working, after, jobs
  <1>g. CASE EndSlice(c)
    <2>1. main.at \in Nat
      BY DEF TypeInv, Mains, Items, Idle
    <2>3. /\ jobpc' = jobpc \/ jobpc' = [jobpc EXCEPT ![c] = "next"]
          /\ index' = index \/ index' = [index EXCEPT ![c] = main.at]
      BY <1>g DEF EndSlice
    <2>5. jobpc \in [Call -> {"none", "next", "step", "over"}] /\ index \in [Call -> Nat]
      BY DEF TypeInv
    <2>2. jobpc' \in [Call -> {"none", "next", "step", "over"}] /\ index' \in [Call -> Nat]
      BY <2>1, <2>3, <2>5
    <2>4. main' \in Mains
      BY <1>g DEF EndSlice, Mains
    <2> QED BY <1>g, <2>2, <2>4 DEF EndSlice, TypeInv, request, working, after, cooks
  <1>h. CASE SubmitSlice(c)
    <2>1. Item("slice", c) \in Items
      BY DEF Item, Items
    <2> QED BY <1>h, <2>1 DEF SubmitSlice, TypeInv, request, working, after, jobs, cooks
  <1>i1. CASE StepFails(c)
    BY <1>i1 DEF StepFails, TypeInv, request, working, after, jobs, cooks
  <1>i2. CASE EndJob(c)
    BY <1>i2 DEF EndJob, TypeInv, request, working, after, jobs, cooks
  <1>i3. CASE Cancel(c)
    BY <1>i3 DEF Cancel, TypeInv, request, working, after, jobs, cooks
  <1>j. CASE StartCooks(c)
    BY <1>j DEF StartCooks, TypeInv, request, working, after, jobs, cooks
  <1>k. ASSUME NEW ok \in BOOLEAN, WaitEnds(c, ok) PROVE TypeInv'
    BY <1>k DEF WaitEnds, TypeInv, request, working, after, jobs, cooks
  <1>l. CASE HandOff(c)
    <2>1. out' \in [Call -> Outs]
      <3>1. rows[c] \in SUBSET Node /\ out \in [Call -> Outs]
        BY DEF TypeInv
      <3>2. out' = [out EXCEPT ![c] = [@ EXCEPT !.cooked = rows[c]]]
        BY <1>l DEF HandOff
      <3> QED BY <3>1, <3>2 DEF Outs
    <2> QED BY <1>l, <2>1 DEF HandOff, TypeInv, request, working, jobs, cooks
  <1>m. CASE Finish(c)
    <2>1. Cooking(c) \in SUBSET Node
      BY DEF Cooking, Left, Ranged, TypeInv
    <2>2. out' \in [Call -> Outs]
      <3>1. finished[c] \in BOOLEAN /\ out \in [Call -> Outs]
        BY DEF TypeInv
      <3> QED BY <1>m, <2>1, <3>1 DEF Finish, Outs
    <2>3. /\ pc' = pc \/ pc' = [pc EXCEPT ![c] = "answered"]
          /\ said' = said \/ said' = [said EXCEPT ![c] = "done"]
          /\ follow' = follow \/ follow' = [follow EXCEPT ![c] = "done"]
      BY <1>m DEF Finish
    <2>4. /\ pc' \in [Call -> {"new", "waiting", "giveup", "after", "answered"}]
          /\ said' \in [Call -> {"none", "done", "error", "busy", "following"}]
          /\ follow' \in [Call -> {"none", "wait", "after", "done", "error"}]
      <3>1. pc' \in [Call -> {"new", "waiting", "giveup", "after", "answered"}]
        <4>1. pc \in [Call -> {"new", "waiting", "giveup", "after", "answered"}]
          BY DEF TypeInv
        <4> QED BY <2>3, <4>1
      <3>2. said' \in [Call -> {"none", "done", "error", "busy", "following"}]
        <4>1. said \in [Call -> {"none", "done", "error", "busy", "following"}]
          BY DEF TypeInv
        <4> QED BY <2>3, <4>1
      <3>3. follow' \in [Call -> {"none", "wait", "after", "done", "error"}]
        <4>1. follow \in [Call -> {"none", "wait", "after", "done", "error"}]
          BY DEF TypeInv
        <4> QED BY <2>3, <4>1
      <3> QED BY <3>1, <3>2, <3>3
    <2> QED BY <1>m, <2>2, <2>4 DEF Finish, TypeInv, working, jobs, cooks
  <1> QED
    BY <1>a1, <1>a2, <1>a3, <1>a4, <1>a5, <1>a6, <1>a7, <1>b, <1>d, <1>f, <1>g, <1>h,
       <1>i1, <1>i2, <1>i3, <1>j, <1>k, <1>l, <1>m

-----------------------------------------------------------------------------
(* Requests and jobs. *)

\* Each step keeps what is said of requests.
LEMMA RequestStep == IInv /\ [Next]_vars => RequestInv'
  <1> SUFFICES ASSUME IInv, [Next]_vars PROVE RequestInv'
    OBVIOUS
  <1>t. /\ pc \in [Call -> {"new", "waiting", "giveup", "after", "answered"}]
        /\ work \in [Call -> {"none", "pending", "running", "long", "done", "cancelled"}]
        /\ step \in [Call -> {"none", "start", "wait", "lock", "patch", "over"}]
        /\ follow \in [Call -> {"none", "wait", "after", "done", "error"}]
        /\ queue \in Seq(Items)
    BY DEF IInv, TypeInv
  <1>q. QueueInv /\ RequestInv
    BY DEF IInv
  <1>s. CASE UNCHANGED <<pc, work, step, follow>>
    BY <1>q, <1>s DEF RequestInv
  <1>e. CASE Execute
    <2> DEFINE i == Head(queue)
    <2>1. i.c \in Call /\ (i.what = "work" => work[i.c] \in {"pending", "cancelled"})
      <3>1. queue # <<>>
        BY <1>e DEF Execute
      <3>2. i \in Items /\ i = queue[1] /\ 1 \in 1 .. Len(queue)
        BY <1>t, <3>1
      <3> QED BY <1>q, <3>2 DEF QueueInv, Items
    <2>2. /\ UNCHANGED <<pc, step, follow>>
          /\ work' = work \/ (i.what = "work" /\ work' = [work EXCEPT ![i.c] = "running"])
      BY <1>e DEF Execute, request, after
    <2> QED BY <1>t, <1>q, <2>1, <2>2 DEF RequestInv
  <1> SUFFICES ASSUME NEW c \in Call, ~Execute, ~UNCHANGED <<pc, work, step, follow>>,
        \/ Refuse(c) \/ Returned(c) \/ Adopt(c) \/ TimesOut(c) \/ GiveUp(c) \/ FollowEnds(c)
        \/ MarkLong(c) \/ StartCooks(c) \/ HandOff(c) \/ Finish(c)
        \/ \E kind \in Kinds(c), on \in Plans : Submit(c, kind, on)
        \/ \E ok \in BOOLEAN : EndWork(c, ok) \/ WaitEnds(c, ok)
      PROVE RequestInv'
    BY <1>s, <1>e DEF Next, vars, request, working, after, CookNext, EndSlice, SubmitSlice,
       StepFails, EndJob, Cancel
  <1>1. CASE Refuse(c)
    BY <1>1, <1>t, <1>q DEF Refuse, RequestInv, working, after
  <1>2. CASE Returned(c)
    BY <1>2, <1>t, <1>q DEF Returned, RequestInv, working
  <1>3. CASE Adopt(c)
    BY <1>3, <1>t, <1>q DEF Adopt, RequestInv, working, after
  <1>4. CASE TimesOut(c)
    BY <1>4, <1>t, <1>q DEF TimesOut, RequestInv, working, after
  <1>5. CASE GiveUp(c)
    BY <1>5, <1>t, <1>q DEF GiveUp, RequestInv, after
  <1>6. CASE FollowEnds(c)
    BY <1>6, <1>t, <1>q DEF FollowEnds, Answer, RequestInv, working
  <1>7. CASE MarkLong(c)
    BY <1>7, <1>t, <1>q DEF MarkLong, RequestInv, request, after
  <1>8. CASE StartCooks(c)
    BY <1>8, <1>t, <1>q DEF StartCooks, RequestInv, request, working
  <1>9. CASE HandOff(c)
    BY <1>9, <1>t, <1>q DEF HandOff, RequestInv, request, working
  <1>10. CASE Finish(c)
    <2>1. pc[c] \notin {"new", "waiting", "giveup"} /\ follow[c] # "wait" /\ work[c] = "done"
      BY <1>10, <1>t, <1>q DEF Finish, RequestInv
    <2>2. /\ pc' = pc \/ pc' = [pc EXCEPT ![c] = "answered"]
          /\ follow' = follow \/ follow' = [follow EXCEPT ![c] = "done"]
          /\ step' = [step EXCEPT ![c] = "over"] /\ work' = work
      BY <1>10 DEF Finish, working
    <2> QED BY <1>t, <1>q, <2>1, <2>2 DEF RequestInv
  <1>11. ASSUME NEW kind \in Kinds(c), NEW on \in Plans, Submit(c, kind, on) PROVE RequestInv'
    BY <1>11, <1>t, <1>q DEF Submit, RequestInv, after
  <1>12. ASSUME NEW ok \in BOOLEAN, EndWork(c, ok) PROVE RequestInv'
    <2>1. work[c] \in {"running", "long"}
      BY <1>12, <1>q DEF EndWork, QueueInv, Item
    <2>2. UNCHANGED <<pc, step, follow>> /\ work' = [work EXCEPT ![c] = "done"]
      BY <1>12 DEF EndWork, request, after
    <2> QED BY <1>t, <1>q, <2>1, <2>2 DEF RequestInv
  <1>13. ASSUME NEW ok \in BOOLEAN, WaitEnds(c, ok) PROVE RequestInv'
    BY <1>13, <1>t, <1>q DEF WaitEnds, RequestInv, request, working
  <1> QED
    BY <1>1, <1>2, <1>3, <1>4, <1>5, <1>6, <1>7, <1>8, <1>9, <1>10, <1>11, <1>12, <1>13

\* Each step keeps what is said of cook jobs.
LEMMA JobStep == IInv /\ [Next]_vars => JobInv'
  <1> SUFFICES ASSUME IInv, [Next]_vars PROVE JobInv'
    OBVIOUS
  <1>t. /\ step \in [Call -> {"none", "start", "wait", "lock", "patch", "over"}]
        /\ finished \in [Call -> BOOLEAN] /\ handed \in [Call -> BOOLEAN]
        /\ job \in [Call -> {"none", "running", "done", "failed", "cancelled"}]
        /\ jobpc \in [Call -> {"none", "next", "step", "over"}]
    BY DEF IInv, TypeInv
  <1>q. RequestInv /\ JobInv
    BY DEF IInv
  <1>s. CASE UNCHANGED <<step, finished, handed, job, jobpc>>
    BY <1>q, <1>s DEF JobInv
  <1> SUFFICES ASSUME NEW c \in Call, ~UNCHANGED <<step, finished, handed, job, jobpc>>,
        \/ Returned(c) \/ FollowEnds(c) \/ EndSlice(c) \/ SubmitSlice(c) \/ StepFails(c)
        \/ EndJob(c) \/ StartCooks(c) \/ HandOff(c) \/ Finish(c)
        \/ \E ok \in BOOLEAN : WaitEnds(c, ok)
      PROVE JobInv'
    BY <1>s DEF Next, vars, after, jobs, Refuse, Adopt, TimesOut, GiveUp, MarkLong, CookNext,
       Cancel, Submit, EndWork, Execute
  <1>1. CASE Returned(c) \/ FollowEnds(c)
    <2>1. step[c] = "none" /\ (step' = step \/ step' = [step EXCEPT ![c] = "start"])
      BY <1>1, <1>q DEF Returned, FollowEnds, RequestInv
    <2>2. UNCHANGED <<finished, handed, job, jobpc>>
      BY <1>1 DEF Returned, FollowEnds, jobs
    <2> QED BY <1>t, <1>q, <2>1, <2>2 DEF JobInv
  <1>2. CASE EndSlice(c)
    BY <1>2, <1>t, <1>q DEF EndSlice, JobInv, after
  <1>3. CASE SubmitSlice(c)
    BY <1>3, <1>t, <1>q DEF SubmitSlice, JobInv, after
  <1>4. CASE StepFails(c)
    BY <1>4, <1>t, <1>q DEF StepFails, JobInv, after
  <1>5. CASE EndJob(c)
    BY <1>5, <1>t, <1>q DEF EndJob, JobInv, after
  <1>6. CASE StartCooks(c)
    BY <1>6, <1>t, <1>q DEF StartCooks, JobInv
  <1>7. CASE HandOff(c)
    BY <1>7, <1>t, <1>q DEF HandOff, JobInv, jobs
  <1>8. CASE Finish(c)
    BY <1>8, <1>t, <1>q DEF Finish, JobInv, jobs
  <1>9. ASSUME NEW ok \in BOOLEAN, WaitEnds(c, ok) PROVE JobInv'
    BY <1>9, <1>t, <1>q DEF WaitEnds, JobInv, jobs
  <1> QED BY <1>1, <1>2, <1>3, <1>4, <1>5, <1>6, <1>7, <1>8, <1>9

-----------------------------------------------------------------------------
(* The queue and the main thread. *)

\* Each step keeps one work and one slice of a call.
LEMMA QueueStep == IInv /\ [Next]_vars => QueueInv'
  <1> SUFFICES ASSUME IInv, [Next]_vars PROVE QueueInv'
    OBVIOUS
  <1>t. /\ queue \in Seq(Items) /\ main \in Mains
        /\ work \in [Call -> {"none", "pending", "running", "long", "done", "cancelled"}]
        /\ job \in [Call -> {"none", "running", "done", "failed", "cancelled"}]
        /\ jobpc \in [Call -> {"none", "next", "step", "over"}]
        /\ targets \in [Call -> Seq(Node)]
        /\ index \in [Call -> Nat]
    BY DEF IInv, TypeInv
  <1>q. QueueInv /\ RequestInv /\ JobInv /\ RowsInv
    BY DEF IInv
  <1>i. \A i \in 1 .. Len(queue) : queue[i] \in Items /\ queue[i].c \in Call
    <2>1. \A i \in 1 .. Len(queue) : queue[i] \in Items
      BY <1>t
    <2> QED BY <2>1 DEF Items
  <1>m. main = Idle \/ (main \in Items /\ main.c \in Call)
    BY <1>t DEF Mains, Items
  <1>s. CASE UNCHANGED <<queue, main, work, job, jobpc, targets>>
    BY <1>q, <1>s DEF QueueInv, Slicing
  <1>e. CASE Execute
    <2> DEFINE h == Head(queue)
    <2>1. /\ main = Idle /\ queue # <<>> /\ queue' = Tail(queue)
          /\ UNCHANGED <<job, jobpc, targets>>
      BY <1>e DEF Execute, working, jobs
    <2>2. /\ h = queue[1] /\ 1 \in 1 .. Len(queue) /\ Len(queue') = Len(queue) - 1
          /\ \A i \in 1 .. Len(queue') : i + 1 \in 1 .. Len(queue) /\ queue'[i] = queue[i + 1]
      BY <1>t, <2>1
    <2>3. h \in Items /\ h.c \in Call
      BY <1>i, <2>2
    <2>4. \A i \in 1 .. Len(queue') : ~(queue'[i].what = h.what /\ queue'[i].c = h.c)
      BY <1>q, <2>2 DEF QueueInv
    <2>5. CASE UNCHANGED <<main, work>>
      BY <1>q, <2>1, <2>2, <2>5 DEF QueueInv, Slicing
    <2>6. CASE h.what = "work" /\ main' = h /\ work' = [work EXCEPT ![h.c] = "running"]
      BY <1>q, <1>t, <1>i, <2>1, <2>2, <2>3, <2>4, <2>6 DEF QueueInv, Slicing
    <2>7. CASE /\ h.what = "slice" /\ jobpc[h.c] = "step"
               /\ main' = [h EXCEPT !.at = index[h.c]] /\ work' = work
      <3>1. main'.what = "slice" /\ main'.c = h.c /\ main'.at = index[h.c]
        BY <2>3, <2>7 DEF Items
      <3>2. index[h.c] <= Len(targets[h.c])
        BY <1>q, <2>3, <2>7 DEF RowsInv, RowsOf
      <3>3. \A i, j \in 1 .. Len(queue') :
              queue'[i].what = queue'[j].what /\ queue'[i].c = queue'[j].c => i = j
        BY <1>q, <2>2 DEF QueueInv
      <3>4. \A i \in 1 .. Len(queue') :
              /\ queue'[i].what = "work" => work'[queue'[i].c] \in {"pending", "cancelled"}
              /\ queue'[i].what = "slice" =>
                   jobpc'[queue'[i].c] \in {"step", "over"} /\ queue'[i].c # h.c
        BY <1>q, <2>1, <2>2, <2>4, <2>7 DEF QueueInv
      <3> QED BY <2>1, <2>7, <3>1, <3>2, <3>3, <3>4 DEF QueueInv, Slicing
    <2>8. \/ UNCHANGED <<main, work>>
          \/ h.what = "work" /\ main' = h /\ work' = [work EXCEPT ![h.c] = "running"]
          \/ /\ h.what = "slice" /\ jobpc[h.c] = "step"
             /\ main' = [h EXCEPT !.at = index[h.c]] /\ work' = work
      BY <1>e, <2>3 DEF Execute, Dropped, Items
    <2> QED BY <2>5, <2>6, <2>7, <2>8
  <1> SUFFICES ASSUME NEW c \in Call, ~Execute,
        ~UNCHANGED <<queue, main, work, job, jobpc, targets>>,
        \/ GiveUp(c) \/ MarkLong(c) \/ CookNext(c) \/ EndSlice(c) \/ SubmitSlice(c) \/ StepFails(c)
        \/ EndJob(c) \/ StartCooks(c)
        \/ \E kind \in Kinds(c), on \in Plans : Submit(c, kind, on)
        \/ \E ok \in BOOLEAN : EndWork(c, ok)
      PROVE QueueInv'
    BY <1>s, <1>e DEF Next, vars, working, jobs, Refuse, Returned, Adopt, TimesOut, FollowEnds,
       Cancel, HandOff, Finish, WaitEnds
  <1>1. CASE GiveUp(c)
    BY <1>1, <1>q, <1>t, <1>i, <1>m DEF GiveUp, QueueInv, Slicing, jobs
  <1>2. CASE MarkLong(c)
    BY <1>2, <1>q, <1>t, <1>i, <1>m DEF MarkLong, QueueInv, Slicing, jobs
  <1>3. CASE CookNext(c)
    <2>1. main \in Items /\ main.what = "slice" /\ main.c = c /\ main.at < Len(targets[c])
      BY <1>3, <1>m DEF CookNext, Idle
    <2>2. main'.what = "slice" /\ main'.c = c /\ main'.at = main.at + 1
      BY <1>3, <2>1 DEF CookNext, Items
    <2>3. main.at \in Nat /\ Len(targets[c]) \in Nat
      BY <1>t, <2>1 DEF Items
    <2>4. UNCHANGED <<queue, work, job, jobpc, targets>>
      BY <1>3 DEF CookNext, working, jobs
    <2> QED BY <1>q, <2>1, <2>2, <2>3, <2>4 DEF QueueInv, Slicing
  <1>4. CASE EndSlice(c)
    <2>1. main' = Idle /\ Slicing(c) /\ UNCHANGED <<queue, work, job, targets>>
      BY <1>4 DEF EndSlice, Slicing, working
    <2>2. jobpc' = jobpc \/ jobpc' = [jobpc EXCEPT ![c] = "next"]
      BY <1>4 DEF EndSlice
    <2> QED BY <1>q, <1>t, <1>i, <2>1, <2>2 DEF QueueInv, Slicing, Idle
  <1>5. CASE SubmitSlice(c)
    <2> DEFINE new == Item("slice", c)
    <2>1. /\ jobpc[c] = "next" /\ jobpc' = [jobpc EXCEPT ![c] = "step"]
          /\ queue' = Append(queue, new)
          /\ UNCHANGED <<main, work, job, targets>>
      BY <1>5 DEF SubmitSlice, working
    <2>2. new.what = "slice" /\ new.c = c /\ new \in Items
      BY DEF Item, Items
    <2>3. /\ Len(queue') = Len(queue) + 1 /\ queue'[Len(queue) + 1] = new
          /\ \A i \in 1 .. Len(queue) : queue'[i] = queue[i]
      BY <1>t, <2>1, <2>2
    <2>4. job[c] = "running" /\ ~Slicing(c)
      BY <1>q, <2>1 DEF JobInv, QueueInv, Slicing
    <2>5. \A i \in 1 .. Len(queue) : ~(queue[i].what = "slice" /\ queue[i].c = c)
      BY <1>q, <2>1 DEF QueueInv
    <2>6. Len(queue) \in Nat
      BY <1>t
    <2> HIDE DEF new
    <2>7. \A i, j \in 1 .. Len(queue') :
            queue'[i].what = queue'[j].what /\ queue'[i].c = queue'[j].c => i = j
      BY <1>q, <2>2, <2>3, <2>5, <2>6 DEF QueueInv
    <2>8. \A i \in 1 .. Len(queue') :
            /\ queue'[i].what = "work" => work'[queue'[i].c] \in {"pending", "cancelled"}
            /\ queue'[i].what = "slice" =>
                 jobpc'[queue'[i].c] \in {"step", "over"} /\ ~Slicing(queue'[i].c)
      BY <1>q, <1>t, <1>i, <2>1, <2>2, <2>3, <2>4, <2>6 DEF QueueInv
    <2>9. main.what = "slice" => jobpc'[main.c] = jobpc[main.c]
      BY <1>m, <1>t, <2>1, <2>4 DEF Slicing, Idle
    <2>10. main'.what = "work" => work'[main'.c] \in {"running", "long"}
      BY <1>q, <2>1 DEF QueueInv
    <2>11. main'.what = "slice" =>
             /\ jobpc'[main'.c] = "step" \/ job'[main'.c] = "failed"
             /\ main'.at <= Len(targets'[main'.c])
      BY <1>q, <2>1, <2>9 DEF QueueInv
    <2> QED BY <2>7, <2>8, <2>1, <2>10, <2>11 DEF QueueInv, Slicing
  <1>6. CASE StepFails(c)
    BY <1>6, <1>q, <1>t, <1>i, <1>m DEF StepFails, QueueInv, Slicing, working
  <1>7. CASE EndJob(c)
    <2>1. job[c] = "running" /\ ~Slicing(c)
      BY <1>7, <1>q DEF EndJob, JobInv, QueueInv, Slicing
    <2> QED BY <1>7, <1>q, <1>t, <1>i, <1>m, <2>1 DEF EndJob, QueueInv, Slicing, working
  <1>8. CASE StartCooks(c)
    <2>1. jobpc[c] = "none" /\ job[c] = "none" /\ ~Slicing(c)
      BY <1>8, <1>q DEF StartCooks, JobInv, QueueInv, Slicing
    <2> QED BY <1>8, <1>q, <1>t, <1>i, <1>m, <2>1 DEF StartCooks, QueueInv, Slicing, working
  <1>9. ASSUME NEW kind \in Kinds(c), NEW on \in Plans, Submit(c, kind, on) PROVE QueueInv'
    <2> DEFINE new == Item("work", c)
    <2>1. /\ work[c] = "none" /\ work' = [work EXCEPT ![c] = "pending"]
          /\ queue' = Append(queue, new)
          /\ UNCHANGED <<main, job, jobpc, targets>>
      BY <1>9, <1>q DEF Submit, RequestInv, jobs
    <2>2. new.what = "work" /\ new.c = c /\ new \in Items
      BY DEF Item, Items
    <2>3. /\ Len(queue') = Len(queue) + 1 /\ queue'[Len(queue) + 1] = new
          /\ \A i \in 1 .. Len(queue) : queue'[i] = queue[i]
      BY <1>t, <2>1, <2>2
    <2>4. \A i \in 1 .. Len(queue) : ~(queue[i].what = "work" /\ queue[i].c = c)
      BY <1>q, <2>1 DEF QueueInv
    <2>5. Len(queue) \in Nat
      BY <1>t
    <2> HIDE DEF new
    <2>6. \A i, j \in 1 .. Len(queue') :
            queue'[i].what = queue'[j].what /\ queue'[i].c = queue'[j].c => i = j
      BY <1>q, <2>2, <2>3, <2>4, <2>5 DEF QueueInv
    <2>7. \A i \in 1 .. Len(queue') :
            /\ queue'[i].what = "work" => work'[queue'[i].c] \in {"pending", "cancelled"}
            /\ queue'[i].what = "slice" =>
                 jobpc'[queue'[i].c] \in {"step", "over"} /\ ~Slicing(queue'[i].c)
      BY <1>q, <1>t, <1>i, <2>1, <2>2, <2>3, <2>4, <2>5 DEF QueueInv
    <2>8. main.what = "work" => main.c \in Call /\ main.c # c
      BY <1>q, <1>m, <2>1 DEF QueueInv, Idle
    <2>9. main'.what = "work" => work'[main'.c] \in {"running", "long"}
      BY <1>q, <1>t, <2>1, <2>8 DEF QueueInv
    <2>10. main'.what = "slice" =>
             /\ jobpc'[main'.c] = "step" \/ job'[main'.c] = "failed"
             /\ main'.at <= Len(targets'[main'.c])
      BY <1>q, <2>1 DEF QueueInv
    <2> QED BY <2>6, <2>7, <2>1, <2>9, <2>10 DEF QueueInv, Slicing
  <1>10. ASSUME NEW ok \in BOOLEAN, EndWork(c, ok) PROVE QueueInv'
    <2>1. /\ main.what = "work" /\ main.c = c /\ main' = Idle /\ work' = [work EXCEPT ![c] = "done"]
          /\ UNCHANGED <<queue, job, jobpc>>
      BY <1>10 DEF EndWork, Item, jobs
    <2>2. \A i \in 1 .. Len(queue) : ~(queue[i].what = "work" /\ queue[i].c = c)
      BY <1>q, <2>1 DEF QueueInv
    <2> QED BY <1>q, <1>t, <1>i, <2>1, <2>2 DEF QueueInv, Slicing, Idle
  <1> QED BY <1>1, <1>2, <1>3, <1>4, <1>5, <1>6, <1>7, <1>8, <1>9, <1>10

-----------------------------------------------------------------------------
(* The rows. *)

\* What is left of a plan has no node twice.
LEMMA KeptOnce ==
  ASSUME TypeInv, NEW c \in Call, NEW todo \in Kept(ask[c].on, alive)
  PROVE  \A i, j \in 1 .. Len(todo) : todo[i] = todo[j] => i = j
  <1>1. Ranged(ask[c].on) \cap alive \in SUBSET Node
    BY DEF TypeInv
  <1> QED BY <1>1, OrderType DEF Kept

\* Each step keeps what is said of rows.
LEMMA RowsStep == IInv /\ [Next]_vars => RowsInv'
  <1> SUFFICES ASSUME IInv, [Next]_vars PROVE RowsInv'
    OBVIOUS
  <1>t. /\ targets \in [Call -> Seq(Node)] /\ index \in [Call -> Nat] /\ main \in Mains
        /\ job \in [Call -> {"none", "running", "done", "failed", "cancelled"}]
        /\ jobpc \in [Call -> {"none", "next", "step", "over"}]
        /\ rows \in [Call -> SUBSET Node] /\ skipped \in [Call -> SUBSET Node]
        /\ later \in [Call -> SUBSET Node] /\ result \in [Call -> SUBSET Node]
        /\ handed \in [Call -> BOOLEAN] /\ finished \in [Call -> BOOLEAN]
        /\ out \in [Call -> Outs]
    BY DEF IInv, TypeInv
  <1>q. QueueInv /\ RequestInv /\ JobInv /\ RowsInv /\ TypeInv
    BY DEF IInv
  <1>m. main = Idle \/ (main \in Items /\ main.c \in Call /\ main.at \in Nat)
    BY <1>t DEF Mains, Items
  <1>s. CASE UNCHANGED <<main, targets, index, job, jobpc, rows, skipped, later, result, handed,
                         finished, out>>
    BY <1>q, <1>s DEF RowsInv, RowsOf, Slicing, Past, First
  <1>e. CASE Execute
    <2> DEFINE h == Head(queue)
    <2>1. main = Idle
      BY <1>e DEF Execute
    <2>2. h \in Items
      <3>1. queue \in Seq(Items) /\ queue # <<>>
        BY <1>e DEF Execute, IInv, TypeInv
      <3> QED BY <3>1
    <2>3. \/ main' = main
          \/ h.what # "slice" /\ main' = h
          \/ h.what = "slice" /\ main' = [h EXCEPT !.at = index[h.c]]
      BY <1>e DEF Execute
    <2>4. UNCHANGED <<targets, index, job, jobpc, rows, skipped, later, result, handed, finished,
                      out>>
      BY <1>e DEF Execute, jobs, cooks, after
    <2>5. \A d \in Call : ~Slicing(d) /\ Past(d) = index[d] /\ Past(d)' = index[d]
      BY <2>1, <2>2, <2>3, <2>4 DEF Slicing, Past, Idle, Items
    <2>6. \A d \in Call : (jobpc[d] # "over" \/ Slicing(d))' => jobpc[d] # "over"
      <3>1. main' = [h EXCEPT !.at = index[h.c]] /\ h.what = "slice" => jobpc[h.c] = "step"
        BY <1>e, <2>1, <2>2 DEF Execute, Dropped, Idle, Items
      <3> QED BY <2>1, <2>2, <2>3, <2>4, <3>1 DEF Slicing, Idle, Items
    <2> QED BY <1>q, <2>4, <2>5, <2>6 DEF RowsInv, RowsOf, First
  <1> SUFFICES ASSUME NEW c \in Call, ~Execute,
        \/ CookNext(c) \/ EndSlice(c) \/ SubmitSlice(c) \/ StepFails(c) \/ EndJob(c)
        \/ StartCooks(c) \/ HandOff(c) \/ Finish(c)
        \/ \E ok \in BOOLEAN : EndWork(c, ok) \/ WaitEnds(c, ok)
      PROVE RowsInv'
    BY <1>s, <1>e DEF Next, vars, working, jobs, cooks, after, Refuse, Returned, Adopt, TimesOut,
       FollowEnds, Cancel, Submit, GiveUp, MarkLong
  <1>1. CASE CookNext(c)
    <2> DEFINE n == targets[c][main.at + 1]
    <2>1. /\ Slicing(c) /\ main \in Items /\ main.at \in Nat /\ main.at < Len(targets[c])
          /\ jobpc[c] = "step" \/ job[c] = "failed"
      BY <1>1, <1>q, <1>m DEF CookNext, Slicing, Idle, QueueInv
    <2>2. /\ Slicing(c)' /\ main'.at = main.at + 1
          /\ \A d \in Call : d # c => ~Slicing(d) /\ ~Slicing(d)'
      BY <1>1, <2>1 DEF CookNext, Slicing, Items
    <2>3. /\ UNCHANGED <<targets, index, job, jobpc, result, handed, finished, out>>
          /\ \A d \in Call \ {c} :
               rows'[d] = rows[d] /\ later'[d] = later[d] /\ skipped'[d] = skipped[d]
      BY <1>1, <1>t DEF CookNext, Row, working, jobs, after
    <2>4. \/ /\ rows'[c] = rows[c] \cup {n} /\ skipped'[c] = skipped[c]
             /\ later'[c] = IF handed[c] THEN later[c] \cup {n} ELSE later[c]
          \/ /\ rows'[c] = rows[c] /\ skipped'[c] = skipped[c] \cup {n} /\ later'[c] = later[c]
      BY <1>1, <1>t DEF CookNext, Row
    <2>5. job[c] # "done" /\ jobpc[c] # "none"
      BY <1>q, <2>1 DEF JobInv
    <2>9. /\ targets[c] \in Seq(Node) /\ Len(targets[c]) \in Nat
          /\ main.at + 1 \in 1 .. Len(targets[c])
      BY <1>t, <2>1
    <2>6. rows[c] \cup skipped[c] = First(c, main.at)
      BY <1>q, <2>1 DEF RowsInv, RowsOf, Past
    <2>7. n \notin First(c, main.at)
      <3>1. \A i, j \in 1 .. Len(targets[c]) : targets[c][i] = targets[c][j] => i = j
        BY <1>q DEF RowsInv, RowsOf
      <3>2. ASSUME n \in First(c, main.at) PROVE FALSE
        <4>1. PICK i \in 1 .. Len(targets[c]) : i <= main.at /\ targets[c][i] = n
          BY <3>2 DEF First
        <4> QED BY <2>1, <2>9, <3>1, <4>1
      <3> QED BY <3>2
    <2>8. First(c, main.at + 1) = First(c, main.at) \cup {n}
      <3>1. {j \in 1 .. Len(targets[c]) : j <= main.at + 1}
              = {j \in 1 .. Len(targets[c]) : j <= main.at} \cup {main.at + 1}
        BY <2>1, <2>9
      <3> QED BY <3>1 DEF First
    <2>10. ASSUME NEW d \in Call, d # c PROVE RowsOf(d)'
      <3>1. /\ Past(d)' = index[d] /\ Past(d) = index[d] /\ ~Slicing(d) /\ ~Slicing(d)'
            /\ rows'[d] = rows[d] /\ later'[d] = later[d] /\ skipped'[d] = skipped[d]
        BY <2>2, <2>3, <2>10 DEF Past
      <3> QED BY <1>q, <2>3, <3>1 DEF RowsInv, RowsOf, First
    <2>11. First(c, Past(c))' = rows'[c] \cup skipped'[c]
      <3>1. Past(c)' = main.at + 1
        BY <2>2 DEF Past
      <3>2. First(c, Past(c))' = First(c, main.at + 1)
        BY <2>3, <3>1 DEF First
      <3> QED BY <2>4, <2>6, <2>8, <3>2
    <2> HIDE DEF n
    <2>12. handed[c] => rows'[c] = out[c].cooked \cup later'[c] /\ out[c].cooked \cap later'[c] = {}
      BY <1>q, <2>4, <2>6, <2>7 DEF RowsInv, RowsOf
    <2>13. RowsOf(c)'
      BY <1>q, <2>2, <2>3, <2>4, <2>5, <2>11, <2>12 DEF RowsInv, RowsOf, JobInv
    <2> QED BY <2>10, <2>13 DEF RowsInv
  <1>2. CASE EndSlice(c)
    <2>1. /\ Slicing(c) /\ main \in Items /\ main.at \in Nat /\ main.at <= Len(targets[c])
          /\ jobpc[c] = "step" \/ job[c] = "failed"
      BY <1>2, <1>q, <1>m DEF EndSlice, Slicing, Idle, QueueInv
    <2>2. \A d \in Call : ~Slicing(d)' /\ (d # c => ~Slicing(d))
      BY <1>2, <2>1 DEF EndSlice, Slicing, Idle
    <2>3. UNCHANGED <<targets, job, rows, skipped, later, result, handed, finished, out>>
      BY <1>2 DEF EndSlice, working, cooks, after
    <2>4. CASE jobpc[c] = "step"
      <3>1. jobpc' = [jobpc EXCEPT ![c] = "next"] /\ index' = [index EXCEPT ![c] = main.at]
        BY <1>2, <2>4 DEF EndSlice
      <3>2. \A d \in Call : Past(d)' = Past(d)
        BY <1>t, <2>1, <2>2, <3>1 DEF Past
      <3>3. ASSUME NEW d \in Call, d # c PROVE RowsOf(d)'
        <4>1. jobpc'[d] = jobpc[d] /\ index'[d] = index[d] /\ Past(d)' = Past(d) /\ ~Slicing(d)'
          BY <1>t, <2>2, <3>1, <3>2, <3>3
        <4> QED BY <1>q, <2>3, <4>1 DEF RowsInv, RowsOf, First
      <3>4. RowsOf(c)'
        <4>1. jobpc'[c] = "next" /\ index'[c] = main.at /\ Past(c)' = Past(c) /\ ~Slicing(c)'
          BY <1>t, <2>2, <3>1, <3>2
        <4> QED BY <1>q, <2>1, <2>3, <2>4, <4>1 DEF RowsInv, RowsOf, First
      <3> QED BY <3>3, <3>4 DEF RowsInv
    <2>5. CASE jobpc[c] # "step"
      <3>1. jobpc' = jobpc /\ index' = index /\ jobpc[c] = "over"
        BY <1>2, <1>q, <1>t, <2>1, <2>5 DEF EndSlice, JobInv
      <3>2. \A d \in Call : d # c => Past(d)' = Past(d)
        BY <2>2, <3>1 DEF Past
      <3>3. ASSUME NEW d \in Call, d # c PROVE RowsOf(d)'
        BY <1>q, <2>2, <2>3, <3>1, <3>2, <3>3 DEF RowsInv, RowsOf, First
      <3>4. RowsOf(c)'
        BY <1>q, <2>2, <2>3, <3>1 DEF RowsInv, RowsOf
      <3> QED BY <3>3, <3>4 DEF RowsInv
    <2> QED BY <2>4, <2>5
  <1>3. CASE SubmitSlice(c) \/ StepFails(c) \/ StartCooks(c)
    <2>1. /\ UNCHANGED <<main, targets, index, rows, skipped, later, result, handed, finished, out>>
          /\ job[c] # "done" /\ job'[c] # "done" /\ jobpc[c] # "over" /\ jobpc'[c] # "none"
          /\ \A d \in Call \ {c} : job'[d] = job[d] /\ jobpc'[d] = jobpc[d]
      BY <1>3, <1>q, <1>t DEF SubmitSlice, StepFails, StartCooks, JobInv, working, cooks, after
    <2>2. \A d \in Call : (Slicing(d)' <=> Slicing(d)) /\ Past(d)' = Past(d)
      BY <2>1 DEF Slicing, Past
    <2> QED BY <1>q, <2>1, <2>2 DEF RowsInv, RowsOf, First
  <1>4. CASE EndJob(c)
    <2>1. jobpc[c] = "next" /\ job[c] = "running" /\ ~Slicing(c) /\ ~finished[c]
      BY <1>4, <1>q DEF EndJob, JobInv, QueueInv, Slicing
    <2>2. /\ UNCHANGED <<main, targets, index, rows, skipped, later, handed, finished, out>>
          /\ jobpc'[c] = "over"
          /\ \A d \in Call \ {c} :
               job'[d] = job[d] /\ jobpc'[d] = jobpc[d] /\ result'[d] = result[d]
      BY <1>4, <1>t DEF EndJob, working, cooks, after
    <2>3. \/ job'[c] = "cancelled" /\ result'[c] = {}
          \/ job'[c] = "done" /\ result'[c] = later[c] \cap rows[c] /\ index[c] = Len(targets[c])
      BY <1>4, <1>t DEF EndJob
    <2>4. later[c] \cap rows[c] = later[c] /\ rows[c] \cup skipped[c] = First(c, index[c])
      BY <1>q, <2>1 DEF RowsInv, RowsOf, Past
    <2>5. First(c, Len(targets[c])) = Ranged(targets[c])
      BY <1>t DEF First, Ranged
    <2>6. \A d \in Call : (Slicing(d)' <=> Slicing(d)) /\ Past(d)' = Past(d)
      BY <2>2 DEF Slicing, Past
    <2>7. ASSUME NEW d \in Call, d # c PROVE RowsOf(d)'
      BY <1>q, <2>2, <2>6, <2>7 DEF RowsInv, RowsOf, First
    <2>8. RowsOf(c)'
      BY <1>q, <2>1, <2>2, <2>3, <2>4, <2>5, <2>6 DEF RowsInv, RowsOf
    <2> QED BY <2>7, <2>8 DEF RowsInv
  <1>5. CASE HandOff(c)
    <2>1. ~handed[c]
      BY <1>5, <1>q DEF HandOff, JobInv
    <2>2. /\ UNCHANGED <<main, targets, index, job, jobpc, rows, skipped, later, result, finished>>
          /\ handed' = [handed EXCEPT ![c] = TRUE]
          /\ out'[c].cooked = rows[c] /\ \A d \in Call \ {c} : out'[d] = out[d]
      BY <1>5, <1>t DEF HandOff, working, jobs, cooks, Outs
    <2>3. \A d \in Call : (Slicing(d)' <=> Slicing(d)) /\ Past(d)' = Past(d)
      BY <2>2 DEF Slicing, Past
    <2>4. ASSUME NEW d \in Call, d # c PROVE RowsOf(d)'
      <3>1. handed'[d] = handed[d] /\ out'[d] = out[d]
        BY <1>t, <2>2, <2>4
      <3> QED BY <1>q, <2>2, <2>3, <3>1 DEF RowsInv, RowsOf, First
    <2>5. RowsOf(c)'
      <3>1. handed'[c] = TRUE
        BY <1>t, <2>2
      <3> QED BY <1>q, <2>1, <2>2, <2>3, <3>1 DEF RowsInv, RowsOf, First
    <2> QED BY <2>4, <2>5 DEF RowsInv
  <1>6. CASE Finish(c)
    <2>1. /\ UNCHANGED <<main, targets, index, job, jobpc, rows, skipped, later, result, handed,
                         finished>>
          /\ \A d \in Call : out'[d].cooked = out[d].cooked
      BY <1>6, <1>t DEF Finish, working, jobs, cooks
    <2>2. \A d \in Call : (Slicing(d)' <=> Slicing(d)) /\ Past(d)' = Past(d)
      BY <2>1 DEF Slicing, Past
    <2> QED BY <1>q, <2>1, <2>2 DEF RowsInv, RowsOf, First
  <1>7. ASSUME NEW ok \in BOOLEAN, WaitEnds(c, ok) PROVE RowsInv'
    <2>1. /\ UNCHANGED <<main, targets, index, job, jobpc, rows, skipped, later, result, handed,
                         out>>
          /\ ~handed[c] /\ \A d \in Call \ {c} : finished'[d] = finished[d]
      BY <1>7, <1>q, <1>t DEF WaitEnds, JobInv, working, jobs, cooks
    <2>2. \A d \in Call : (Slicing(d)' <=> Slicing(d)) /\ Past(d)' = Past(d)
      BY <2>1 DEF Slicing, Past
    <2> QED BY <1>q, <2>1, <2>2 DEF RowsInv, RowsOf, First
  <1>8. ASSUME NEW ok \in BOOLEAN, EndWork(c, ok) PROVE RowsInv'
    <2>1. /\ main.what = "work" /\ main.c = c /\ main' = Idle
          /\ UNCHANGED <<index, job, jobpc, rows, skipped, later, result, handed, finished, out>>
      BY <1>8 DEF EndWork, Item, jobs, cooks, after
    <2>2. step[c] = "none" /\ jobpc[c] = "none" /\ job[c] = "none"
      BY <1>q, <2>1 DEF QueueInv, RequestInv, JobInv
    <2>3. \A d \in Call : ~Slicing(d) /\ ~Slicing(d)' /\ Past(d)' = Past(d)
      BY <2>1 DEF Slicing, Past, Idle
    <2>4. PICK todo \in Kept(ask[c].on, alive) :
            targets' = targets \/ targets' = [targets EXCEPT ![c] = todo]
            \/ targets' = [targets EXCEPT ![c] = <<>>]
      BY <1>8 DEF EndWork
    <2>5. /\ \A d \in Call \ {c} : targets'[d] = targets[d]
          /\ \A i, j \in 1 .. Len(targets'[c]) : targets'[c][i] = targets'[c][j] => i = j
      <3>1. \A i, j \in 1 .. Len(todo) : todo[i] = todo[j] => i = j
        BY <1>q, KeptOnce
      <3>2. \A i, j \in 1 .. Len(targets[c]) : targets[c][i] = targets[c][j] => i = j
        BY <1>q DEF RowsInv, RowsOf
      <3>3. targets'[c] = targets[c] \/ targets'[c] = todo \/ targets'[c] = <<>>
        BY <1>t, <2>4
      <3>4. \A i, j \in 1 .. Len(targets'[c]) : targets'[c][i] = targets'[c][j] => i = j
        BY <3>1, <3>2, <3>3
      <3> QED BY <1>t, <2>4, <3>4
    <2>6. targets' \in [Call -> Seq(Node)]
      BY TypeStep DEF IInv, TypeInv
    <2>7. rows[c] = {} /\ skipped[c] = {} /\ index[c] = 0 /\ Past(c) = 0
      BY <1>q, <2>2, <2>3 DEF RowsInv, RowsOf, Past
    <2>8. First(c, Past(c))' = {} /\ Len(targets'[c]) \in Nat
      BY <2>3, <2>6, <2>7 DEF First
    <2>9. ASSUME NEW d \in Call, d # c PROVE First(d, Past(d))' = First(d, Past(d))
      BY <2>3, <2>5, <2>9 DEF First
    <2> QED BY <1>q, <2>1, <2>2, <2>3, <2>5, <2>7, <2>8, <2>9 DEF RowsInv, RowsOf
  <1> QED BY <1>1, <1>2, <1>3, <1>4, <1>5, <1>6, <1>7, <1>8

\* Each step keeps a job at every row that says cooking.
LEMMA CookingStep == IInv /\ [Next]_vars => CookingHasJob'
  <1> SUFFICES ASSUME IInv, [Next]_vars PROVE CookingHasJob'
    OBVIOUS
  <1>t. /\ step \in [Call -> {"none", "start", "wait", "lock", "patch", "over"}]
        /\ skipped \in [Call -> SUBSET Node] /\ out \in [Call -> Outs]
    BY DEF IInv, TypeInv
  <1>q. RequestInv /\ JobInv /\ RowsInv /\ CookingHasJob
    BY DEF IInv
  <1>s. CASE UNCHANGED <<step, out, skipped>>
    BY <1>q, <1>s DEF CookingHasJob
  <1> SUFFICES ASSUME NEW c \in Call, ~UNCHANGED <<step, out, skipped>>,
        \/ Returned(c) \/ FollowEnds(c) \/ CookNext(c) \/ StartCooks(c) \/ HandOff(c) \/ Finish(c)
        \/ \E ok \in BOOLEAN : WaitEnds(c, ok)
      PROVE CookingHasJob'
    BY <1>s DEF Next, vars, after, cooks, Refuse, Adopt, TimesOut, GiveUp, MarkLong, EndSlice,
       SubmitSlice, StepFails, EndJob, Cancel, Submit, EndWork, Execute
  <1>1. CASE CookNext(c)
    <2>1. UNCHANGED <<step, out>> /\ \A d \in Call : skipped[d] \subseteq skipped'[d]
      BY <1>1, <1>t DEF CookNext, Row, after
    <2> QED BY <1>q, <2>1 DEF CookingHasJob
  <1>2. CASE Returned(c) \/ FollowEnds(c)
    <2>1. UNCHANGED <<out, skipped>> /\ step[c] = "none"
      BY <1>2, <1>q DEF Returned, FollowEnds, RequestInv, cooks
    <2>2. step' = step \/ step' = [step EXCEPT ![c] = "start"]
      BY <1>2 DEF Returned, FollowEnds
    <2> QED BY <1>q, <1>t, <2>1, <2>2 DEF CookingHasJob
  <1>3. CASE StartCooks(c) \/ HandOff(c)
    <2>1. /\ step'[c] # "over" /\ skipped' = skipped
          /\ \A d \in Call \ {c} : step'[d] = step[d] /\ out'[d] = out[d]
      BY <1>3, <1>t DEF StartCooks, HandOff, cooks
    <2> QED BY <1>q, <2>1 DEF CookingHasJob
  <1>4. ASSUME NEW ok \in BOOLEAN, WaitEnds(c, ok) PROVE CookingHasJob'
    <2>1. step' = [step EXCEPT ![c] = "lock"] /\ UNCHANGED <<out, skipped>>
      BY <1>4 DEF WaitEnds, cooks
    <2> QED BY <1>q, <1>t, <2>1 DEF CookingHasJob
  <1>5. CASE Finish(c)
    <2>1. /\ out'[c].cooking = Cooking(c) /\ out'[c].id = ~finished[c] /\ skipped' = skipped
          /\ \A d \in Call \ {c} : step'[d] = step[d] /\ out'[d] = out[d]
      BY <1>5, <1>t DEF Finish, cooks
    <2>2. finished[c] => Cooking(c) \subseteq skipped[c]
      <3>1. handed[c]
        BY <1>5, <1>q DEF Finish, JobInv
      <3> QED BY <1>q, <3>1 DEF RowsInv, RowsOf, Cooking, Left
    <2> QED BY <1>q, <2>1, <2>2 DEF CookingHasJob
  <1> QED BY <1>1, <1>2, <1>3, <1>4, <1>5

-----------------------------------------------------------------------------
(* The theorems. *)

\* The invariant is inductive.
LEMMA Inductive == IInv /\ [Next]_vars => IInv'
  BY TypeStep, QueueStep, RequestStep, JobStep, RowsStep, CookingStep DEF IInv

\* It implies that rows arrive once.
LEMMA RowsFollow == IInv => RowsArriveOnce
  BY DEF IInv, RowsInv, RowsOf, JobInv, RowsArriveOnce

\* It implies the type invariant of Calls.
LEMMA TypesFollow == IInv => TypeOK
  <1> SUFFICES ASSUME TypeInv PROVE TypeOK
    BY DEF IInv
  <1>1. \A i \in DOMAIN queue : queue[i].what \in {"work", "slice"} /\ queue[i].c \in Call
    <2>1. \A i \in DOMAIN queue : queue[i] \in Items
      BY DEF TypeInv
    <2> QED BY <2>1 DEF Items
  <1>2. main = Idle \/ (main.what \in {"work", "slice"} /\ main.c \in Call /\ main.at \in Nat)
    BY DEF TypeInv, Mains, Items
  <1>3. ASSUME NEW c \in Call
        PROVE  /\ ask[c].kind \in CallKinds \cup {"none"} /\ Ranged(ask[c].on) \subseteq Node
               /\ Ranged(targets[c]) \subseteq Node
    <2>1. ask[c] \in Asks /\ targets[c] \in Seq(Node)
      BY DEF TypeInv
    <2>2. ask[c].on \in Seq(Node)
      BY <2>1 DEF Asks
    <2> QED BY <2>1, <2>2 DEF Asks, Ranged
  <1>4. ASSUME NEW c \in Call
        PROVE  {rows[c], later[c], result[c], skipped[c]} \subseteq SUBSET Node
    BY DEF TypeInv
  <1> QED BY <1>1, <1>2, <1>3, <1>4 DEF TypeInv, TypeOK, Outs

\* Every call keeps the types (the dispatcher's and _cook_after's state).
THEOREM TypesAreKept == Spec => []TypeOK
  BY InitInv, Inductive, TypesFollow, PTL DEF Spec

\* For any number of calls, jobs and nodes: the row of a cooked node is in the result of the
\* call or in that of its job, never in both, never in neither.
THEOREM RowsOnce == Spec => []RowsArriveOnce
  BY InitInv, Inductive, RowsFollow, PTL DEF Spec

\* And no row says cooking when no job will tell.
THEOREM CookingIsFollowed == Spec => []CookingHasJob
  <1>1. IInv => CookingHasJob
    BY DEF IInv
  <1> QED BY InitInv, Inductive, <1>1, PTL DEF Spec
=============================================================================
