----------------------------- MODULE LedgerJobs -----------------------------
(***************************************************************************)
(* The jobs table of the bridge's ledger (bridge/ledger.py) and the calls  *)
(* that feed it (bridge/server.py, _remember_jobs and progress_snapshot).  *)
(* A reader is a worker thread of the bridge: it fetches a snapshot of a   *)
(* job from Houdini and writes it to the ledger later, while other threads *)
(* do the same.  The ledger is a database that outlives the bridge and the *)
(* Houdini that ran the jobs: each of its writes is one transaction, which *)
(* may fail, and the result of a job is written in three steps, the large  *)
(* ones through a file.  Files are not part of a transaction: what a prune *)
(* unlinked stays unlinked when its rows come back.                        *)
(***************************************************************************)
EXTENDS Naturals, FiniteSets

CONSTANTS
  Jobs,     \* the jobs of one Houdini
  Calls,    \* the bridge's threads that run a call which answers with a job
  Polls,    \* its threads that poll the progress of one
  Large,    \* the jobs whose result is over SPILL_BYTES
  Keep,     \* JOBS_MAX: how many finished rows are kept
  MaxIds    \* bound: how many ledger ids a job is given, one after the other

ASSUME LedgerJobsAssumption ==
  /\ Large \subseteq Jobs /\ Calls \cap Polls = {} /\ IsFiniteSet(Jobs)
  /\ Keep \in Nat /\ MaxIds \in Nat

Readers == Calls \cup Polls
Final == {"done", "failed", "cancelled"}
States == {"none", "running"} \cup Final
Kinds == {"poll", "status", "result"}
Nothing == [job |-> "none", kind |-> "none", state |-> "none"]
PCs == {"idle", "record", "lookup", "spill", "write", "present"}
Kept == {"none", "inline", "file"}

VARIABLES
  job,    \* the state of each job on the host ("none": not started)
  alive,  \* the Houdini runs
  row,    \* the state column of the job's row ("none": no row)
  id,     \* the ledger id of its row: the how-many-th it was given
  age,    \* the order of the rows by "updated", the newest first
  kept,   \* the result columns: none, inline or a file's path
  files,  \* the spill files that can be read, named by job and ledger id
  cut,    \* history: those lost to a transaction or a write that did not end
  pc,     \* where each reader is
  at,     \* what it read: a job, the kind of the read and the state it fetched
  held,   \* the ledger id it looked up
  path,   \* it wrote a spill file
  given   \* history: the ledger ids of each job shown to the agent

hostVars == <<job, alive>>
rowVars == <<row, id, age, kept>>
readVars == <<pc, at, held, path>>
fileVars == <<files, cut>>
vars == <<hostVars, rowVars, fileVars, readVars, given>>

Init ==
  /\ job = [j \in Jobs |-> "none"]
  /\ alive = TRUE
  /\ row = [j \in Jobs |-> "none"]
  /\ id = [j \in Jobs |-> 0]
  /\ age = [j \in Jobs |-> Cardinality(Jobs)]
  /\ kept = [j \in Jobs |-> "none"]
  /\ files = {}
  /\ cut = {}
  /\ pc = [r \in Readers |-> "idle"]
  /\ at = [r \in Readers |-> Nothing]
  /\ held = [r \in Readers |-> 0]
  /\ path = [r \in Readers |-> FALSE]
  /\ given = [j \in Jobs |-> {}]

-----------------------------------------------------------------------------
(* Houdini: its jobs start and end, and it exits at any time. *)

Start(j) ==
  /\ alive /\ job[j] = "none"
  /\ job' = [job EXCEPT ![j] = "running"]
  /\ UNCHANGED <<alive, rowVars, fileVars, readVars, given>>

End(j, s) ==
  /\ alive /\ job[j] = "running"
  /\ job' = [job EXCEPT ![j] = s]
  /\ UNCHANGED <<alive, rowVars, fileVars, readVars, given>>

Exit ==
  /\ alive
  /\ alive' = FALSE
  /\ UNCHANGED <<job, rowVars, fileVars, readVars, given>>

-----------------------------------------------------------------------------
(* The ledger's writes. *)

\* The row of j becomes the one updated last.
Touch(j) ==
  [k \in Jobs |-> IF k = j THEN 0
                  ELSE IF age[k] < age[j] THEN age[k] + 1 ELSE age[k]]

\* Mutant: the oldest rows go, running or not.
PrunedAny(rows, ages) ==
  {j \in Jobs : /\ rows[j] # "none"
                /\ Cardinality({k \in Jobs : /\ rows[k] # "none"
                                             /\ ages[k] < ages[j]}) >= Keep}

\* _prune: the finished rows past the Keep that were updated last.
Pruned(rows, ages) ==
  LET finished == {j \in Jobs : rows[j] \in Final} IN
  {j \in finished : Cardinality({k \in finished : ages[k] < ages[j]}) >= Keep}

\* The files of the rows that the insert of a row for j in state s prunes.
Doomed(j, s) ==
  LET gone == Pruned([row EXCEPT ![j] = s], Touch(j)) IN
  IF row[j] # "none" THEN {}
  ELSE {<<k, id[k]>> : k \in {g \in gone : kept[g] = "file"}}

\* record_job: an UPDATE whatever state the row has, or an INSERT and a _prune,
\* which passes over a file it cannot unlink.
RecordJob(j, s) ==
  /\ age' = Touch(j)
  /\ \E unlinked \in SUBSET Doomed(j, s) : files' = files \ unlinked
  /\ IF row[j] # "none"
     THEN /\ row' = [row EXCEPT ![j] = s]
          /\ UNCHANGED <<id, kept>>
     ELSE LET rows == [row EXCEPT ![j] = s]
              gone == Pruned(rows, age')
          IN  /\ id[j] < MaxIds
              /\ id' = [id EXCEPT ![j] = @ + 1]
              /\ row' = [k \in Jobs |-> IF k \in gone THEN "none" ELSE rows[k]]
              /\ kept' = [k \in Jobs |-> IF k \in gone THEN "none" ELSE kept[k]]
  /\ UNCHANGED cut

\* Files are lost whose rows stay.
LoseFiles(lost) ==
  /\ files' = files \ lost
  /\ cut' = cut \cup (lost \cap files)

-----------------------------------------------------------------------------
(* The bridge's threads. *)

Goto(r, from, to) ==
  /\ pc[r] = from
  /\ pc' = [pc EXCEPT ![r] = to]

\* The thread is done and forgets what it read.
Return(r) ==
  /\ pc' = [pc EXCEPT ![r] = "idle"]
  /\ at' = [at EXCEPT ![r] = Nothing]
  /\ held' = [held EXCEPT ![r] = 0]
  /\ path' = [path EXCEPT ![r] = FALSE]

\* Mutant: an answer to "job result" counts as the end of the job.
SeenDone(j, k) == IF k = "result" THEN "done" ELSE job[j]

\* The state in the snapshot of j that is read: the one it has on the host.
Seen(j, k) == job[j]

\* A call or a poll gets a snapshot of the job.  "result" of a job that failed or
\* was cancelled is an error, which is not remembered.
Fetch(r, j, k) ==
  /\ alive /\ job[j] # "none"
  /\ k = "poll" <=> r \in Polls
  /\ k = "result" => job[j] \in {"running", "done"}
  /\ Goto(r, "idle", "record")
  /\ at' = [at EXCEPT ![r] = [job |-> j, kind |-> k, state |-> Seen(j, k)]]
  /\ UNCHANGED <<hostVars, rowVars, fileVars, held, path, given>>

HasResult(r) == at[r].kind = "result" /\ at[r].state = "done"

\* A poll is done once it recorded; a call goes on whatever came of it.
Recorded(r) ==
  IF r \in Polls THEN Return(r)
  ELSE /\ Goto(r, "record", IF HasResult(r) THEN "lookup" ELSE "present")
       /\ UNCHANGED <<at, held, path>>

\* The snapshot goes to the ledger, however old it is by now.
Record(r) ==
  /\ pc[r] = "record"
  /\ RecordJob(at[r].job, at[r].state)
  /\ Recorded(r)
  /\ UNCHANGED <<hostVars, given>>

\* The transaction fails and is rolled back: the rows that it had pruned are back,
\* the files that it had unlinked are not.
RecordFails(r) ==
  /\ pc[r] = "record"
  /\ \E lost \in SUBSET Doomed(at[r].job, at[r].state) : LoseFiles(lost)
  /\ Recorded(r)
  /\ UNCHANGED <<hostVars, rowVars, given>>

\* store_result reads the row; a row that was pruned meanwhile is nothing to it, and
\* neither is one that cannot be read.
Lookup(r) ==
  /\ \/ Goto(r, "lookup", "present")
     \/ Goto(r, "lookup", "spill") /\ row[at[r].job] # "none"
  /\ held' = [held EXCEPT ![r] = id[at[r].job]]
  /\ UNCHANGED <<hostVars, rowVars, fileVars, at, path, given>>

\* The file a result goes to.
SpillFile(r) == <<at[r].job, held[r]>>

\* A large result goes to a file.  The write may fail, before or after the file was
\* truncated: the result is then kept in the row.
Spill(r) ==
  /\ Goto(r, "spill", "write")
  /\ \/ /\ path' = [path EXCEPT ![r] = FALSE]
        /\ UNCHANGED fileVars
     \/ /\ at[r].job \in Large
        /\ path' = [path EXCEPT ![r] = FALSE]
        /\ LoseFiles({SpillFile(r)})
     \/ /\ at[r].job \in Large
        /\ path' = [path EXCEPT ![r] = TRUE]
        /\ files' = files \cup {SpillFile(r)}
        /\ cut' = cut \ {SpillFile(r)}
  /\ UNCHANGED <<hostVars, rowVars, at, held, given>>

\* Mutant: the UPDATE names the job, not the row that was looked up.
SameJob(r) == row[at[r].job] # "none"

SameRow(r) == row[at[r].job] # "none" /\ id[at[r].job] = held[r]

\* The UPDATE names the row by its ledger id; it may fail.
Write(r) ==
  /\ Goto(r, "write", "present")
  /\ \/ UNCHANGED kept
     \/ /\ SameRow(r)
        /\ kept' = [kept EXCEPT ![at[r].job] = IF path[r] THEN "file" ELSE "inline"]
  /\ UNCHANGED <<hostVars, row, id, age, fileVars, at, held, path, given>>

\* The call's answer names the job by its ledger id, if one can be read.
Present(r) ==
  /\ pc[r] = "present"
  /\ Return(r)
  /\ \/ UNCHANGED given
     \/ /\ row[at[r].job] # "none"
        /\ given' = [given EXCEPT ![at[r].job] = @ \cup {id[at[r].job]}]
  /\ UNCHANGED <<hostVars, rowVars, fileVars>>

\* What a kill can catch half done: the prune of the one transaction there is at a
\* time, before its COMMIT, and the files that are being written.
Halfway(w) ==
  (IF pc[w] = "record" THEN Doomed(at[w].job, at[w].state) ELSE {})
    \cup {SpillFile(r) : r \in {q \in Readers : pc[q] = "spill" /\ at[q].job \in Large}}

\* The bridge ends, or is killed, and starts again: only the ledger is left.
Restart ==
  /\ \E w \in Readers :
       /\ pc[w] # "idle"
       /\ \E lost \in SUBSET Halfway(w) : LoseFiles(lost)
  /\ pc' = [r \in Readers |-> "idle"]
  /\ at' = [r \in Readers |-> Nothing]
  /\ held' = [r \in Readers |-> 0]
  /\ path' = [r \in Readers |-> FALSE]
  /\ UNCHANGED <<hostVars, rowVars, given>>

-----------------------------------------------------------------------------

Reader(r) ==
  \/ \E j \in Jobs, k \in Kinds : Fetch(r, j, k)
  \/ Record(r) \/ RecordFails(r) \/ Lookup(r) \/ Spill(r) \/ Write(r) \/ Present(r)

Next ==
  \/ \E j \in Jobs : Start(j) \/ \E s \in Final : End(j, s)
  \/ Exit \/ Restart
  \/ \E r \in Readers : Reader(r)

Spec == Init /\ [][Next]_vars

-----------------------------------------------------------------------------
(* Every variable has its type. *)
TypeOK ==
  /\ job \in [Jobs -> States] /\ alive \in BOOLEAN
  /\ row \in [Jobs -> States] /\ id \in [Jobs -> 0..MaxIds]
  /\ age \in [Jobs -> Nat] /\ kept \in [Jobs -> Kept]
  /\ files \subseteq Jobs \X (1..MaxIds) /\ cut \subseteq Jobs \X (1..MaxIds)
  /\ pc \in [Readers -> PCs]
  /\ at \in [Readers -> [job : Jobs, kind : Kinds, state : States] \cup {Nothing}]
  /\ held \in [Readers -> 0..MaxIds] /\ path \in [Readers -> BOOLEAN]
  /\ given \in [Jobs -> SUBSET (1..MaxIds)]

(* The ledger never reports an end the job did not have, though snapshots   *)
(* arrive in any order: what it says of a job that ended is what the host   *)
(* said, for good.                                                          *)
FinalIsTrue == \A j \in Jobs : row[j] \in Final => row[j] = job[j]

(* A result is kept of a job that is done, and a kept path names a file     *)
(* that can be read, though rows are pruned, files removed with them, and   *)
(* jobs recorded again under a new id between the three steps that store a  *)
(* result.  The exception are the files of `cut`: a prune unlinks before    *)
(* its transaction is committed, so one that fails or is killed in between  *)
(* keeps rows whose files are gone, and so does a write that truncated the  *)
(* file of an earlier one and did not end.  Until a result is stored again  *)
(* the row then promises one (has_result) that is not there.                *)
KeptIsReadable ==
  \A j \in Jobs : kept[j] # "none" =>
    job[j] = "done" /\ (kept[j] = "file" => <<j, id[j]>> \in files \cup cut)

(* A ledger id the agent was given reaches its job as long as the job runs: *)
(* its row is never pruned, nor replaced by one with another id.            *)
IdResolves ==
  \A j \in Jobs : job[j] = "running" /\ given[j] # {} =>
    row[j] # "none" /\ given[j] = {id[j]}

\* _ledger_result: what "job result" answers of a Houdini that exited.
LedgerResult(j) == row[j] = "done" /\ kept[j] # "none"

(* "job result of a finished job returns the stored result with a note"     *)
(* (BIBLE 3.8) once its Houdini exited: it does, as long as the row is      *)
(* kept.  False of the code: a poll that fetched its snapshot before the    *)
(* end writes "running" over "done".                                        *)
StoredIsServed ==
  \A j \in Jobs : ~alive /\ kept[j] # "none" => LedgerResult(j)

=============================================================================
