-------------------------- MODULE LedgerJobsProofs --------------------------
(* Proofs about the jobs of the bridge's ledger: whatever the order in which *)
(* snapshots arrive, rows are pruned and the bridge is restarted, no end is  *)
(* invented, a kept result can be read and an id the agent holds stays good. *)
EXTENDS LedgerJobs, FiniteSetTheorems, TLAPS

USE DEF Final, States, Kinds, PCs, Kept

LEMMA InitTypeOK == Init => TypeOK
<1>1. Cardinality(Jobs) \in Nat
  BY LedgerJobsAssumption, FS_CardinalityType
<1> QED
  BY <1>1, LedgerJobsAssumption DEF Init, TypeOK

\* Only finished rows are pruned.
LEMMA PrunedIsFinal ==
  ASSUME NEW rows, NEW ages
  PROVE  Pruned(rows, ages) \subseteq {j \in Jobs : rows[j] \in Final}
  BY DEF Pruned

Reads == [job : Jobs, kind : Kinds, state : States]

\* What a thread read is still true of a job that ended.
ReadInv ==
  \A r \in Readers : pc[r] # "idle" =>
    /\ at[r] \in Reads /\ at[r].state # "none" /\ job[at[r].job] # "none"
    /\ at[r].state \in Final => job[at[r].job] = at[r].state
    /\ pc[r] \in {"lookup", "spill", "write"} => at[r].state = "done"

\* The files there are, and those that were lost while their rows stayed.
Spilled == files \cup cut

\* The rows say what the host said, and only of a done job is a result kept.
RowInv ==
  \A j \in Jobs :
    /\ row[j] # "none" => id[j] # 0
    /\ row[j] \in Final => row[j] = job[j]
    /\ kept[j] # "none" => row[j] # "none" /\ job[j] = "done"
    /\ kept[j] = "file" => <<j, id[j]>> \in Spilled

\* The file of the row a thread is about to name is there, as long as the row is.
FileInv ==
  \A r \in Readers :
    /\ pc[r] \in {"spill", "write"} => held[r] \in 1..id[at[r].job]
    /\ pc[r] = "write" /\ path[r] /\ SameRow(r) => <<at[r].job, held[r]>> \in Spilled

\* An id the agent holds names the row of its job until the job ends.
GivenInv ==
  \A j \in Jobs : job[j] \notin Final /\ given[j] # {} =>
    row[j] # "none" /\ given[j] = {id[j]}

LedgerInv == TypeOK /\ ReadInv /\ RowInv /\ FileInv /\ GivenInv

\* j, which had no row, is inserted in state s and the finished rows gone go.
Inserted(gone, j, s) ==
  /\ gone \in SUBSET {k \in Jobs : IF k = j THEN s \in Final ELSE row[k] \in Final}
  /\ age' \in [Jobs -> Nat]
  /\ id[j] < MaxIds /\ id' = [id EXCEPT ![j] = @ + 1]
  /\ row' = [k \in Jobs |-> IF k \in gone THEN "none"
                            ELSE IF k = j THEN s ELSE row[k]]
  /\ kept' = [k \in Jobs |-> IF k \in gone THEN "none" ELSE kept[k]]
  /\ files' \subseteq files /\ files \ files' \subseteq {<<k, id[k]>> : k \in gone}
  /\ UNCHANGED cut

\* What a record does, to a job that has a row and to one that has none.
LEMMA RecordUpdates ==
  ASSUME TypeOK, NEW j \in Jobs, NEW s \in States, RecordJob(j, s), row[j] # "none"
  PROVE  /\ row' = [row EXCEPT ![j] = s] /\ age' \in [Jobs -> Nat]
         /\ UNCHANGED <<id, kept, files, cut>>
  BY DEF TypeOK, RecordJob, Touch, Doomed

LEMMA RecordInserts ==
  ASSUME TypeOK, NEW j \in Jobs, NEW s \in States, RecordJob(j, s), row[j] = "none"
  PROVE  \E gone \in SUBSET Jobs : Inserted(gone, j, s)
<1> DEFINE rows == [row EXCEPT ![j] = s]
           gone == Pruned(rows, age')
<1>1. \A k \in Jobs : rows[k] = IF k = j THEN s ELSE row[k]
  BY DEF TypeOK
<1>2. gone \subseteq {k \in Jobs : rows[k] \in Final}
  BY PrunedIsFinal
<1>3. gone \in SUBSET {k \in Jobs : IF k = j THEN s \in Final ELSE row[k] \in Final}
  BY <1>1, <1>2
<1>4. age' \in [Jobs -> Nat]
  BY DEF TypeOK, RecordJob, Touch
<1>5. /\ id[j] < MaxIds /\ id' = [id EXCEPT ![j] = @ + 1]
      /\ row' = [k \in Jobs |-> IF k \in gone THEN "none" ELSE rows[k]]
      /\ kept' = [k \in Jobs |-> IF k \in gone THEN "none" ELSE kept[k]]
      /\ UNCHANGED cut
  BY DEF RecordJob
<1>6. row' = [k \in Jobs |-> IF k \in gone THEN "none" ELSE IF k = j THEN s ELSE row[k]]
  BY <1>1, <1>5
<1>7. Doomed(j, s) \subseteq {<<k, id[k]>> : k \in gone}
  BY DEF Doomed, RecordJob
<1>8. files' \subseteq files /\ files \ files' \subseteq {<<k, id[k]>> : k \in gone}
  <2>1. PICK unlinked \in SUBSET Doomed(j, s) : files' = files \ unlinked
    BY DEF RecordJob
  <2> HIDE DEF gone, rows
  <2> QED
    BY <1>7, <2>1
<1> HIDE DEF gone, rows
<1>9. Inserted(gone, j, s)
  BY <1>3, <1>4, <1>5, <1>6, <1>8 DEF Inserted
<1> QED
  BY <1>2, <1>9

LEMMA InitInv == Init => LedgerInv
  BY InitTypeOK DEF Init, LedgerInv, ReadInv, RowInv, FileInv, GivenInv

\* A record of a true snapshot keeps what is said of the rows and the files.
LEMMA RecordKeeps ==
  ASSUME LedgerInv, NEW j \in Jobs, NEW s \in States, s # "none",
         s \in Final => job[j] = s, RecordJob(j, s), UNCHANGED <<hostVars, given>>
  PROVE  /\ row' \in [Jobs -> States] /\ id' \in [Jobs -> 0..MaxIds]
         /\ age' \in [Jobs -> Nat] /\ kept' \in [Jobs -> Kept]
         /\ files' \subseteq files /\ UNCHANGED cut /\ RowInv' /\ GivenInv'
         /\ \A k \in Jobs : id'[k] >= id[k]
         /\ \A k \in Jobs, n \in Nat :
              row'[k] # "none" /\ id'[k] = n /\ n <= id[k] =>
                /\ row[k] # "none"
                /\ <<k, n>> \in Spilled => <<k, n>> \in Spilled'
<1> USE DEF hostVars
<1>1. CASE row[j] # "none"
  <2>1. /\ row' = [row EXCEPT ![j] = s] /\ age' \in [Jobs -> Nat]
        /\ UNCHANGED <<id, kept, files, cut>>
    BY <1>1, RecordUpdates DEF LedgerInv
  <2>2. row' \in [Jobs -> States] /\ \A k \in Jobs : row'[k] # "none" => row[k] # "none"
    BY <1>1, <2>1 DEF LedgerInv, TypeOK
  <2>3. RowInv'
    BY <1>1, <2>1 DEF LedgerInv, TypeOK, RowInv, Spilled
  <2>4. GivenInv'
    BY <1>1, <2>1 DEF LedgerInv, TypeOK, GivenInv
  <2> QED
    BY <2>1, <2>2, <2>3, <2>4 DEF LedgerInv, TypeOK, Spilled
<1>2. CASE row[j] = "none"
  <2>0. PICK gone \in SUBSET Jobs : Inserted(gone, j, s)
    BY <1>2, RecordInserts DEF LedgerInv
  <2>1. /\ gone \in SUBSET {k \in Jobs : IF k = j THEN s \in Final ELSE row[k] \in Final}
        /\ age' \in [Jobs -> Nat]
        /\ id[j] < MaxIds /\ id' = [id EXCEPT ![j] = @ + 1]
        /\ row' = [k \in Jobs |-> IF k \in gone THEN "none"
                                  ELSE IF k = j THEN s ELSE row[k]]
        /\ kept' = [k \in Jobs |-> IF k \in gone THEN "none" ELSE kept[k]]
        /\ files' \subseteq files /\ files \ files' \subseteq {<<k, id[k]>> : k \in gone}
        /\ UNCHANGED cut
    BY <2>0 DEF Inserted
  <2>2. /\ row' \in [Jobs -> States] /\ kept' \in [Jobs -> Kept]
        /\ id' \in [Jobs -> 0..MaxIds]
    BY <2>1, LedgerJobsAssumption DEF LedgerInv, TypeOK
  <2>3. ASSUME NEW k \in Jobs, k \notin gone, NEW n \in Nat, <<k, n>> \in Spilled
        PROVE  <<k, n>> \in Spilled'
    BY <2>1, <2>3 DEF Spilled
  <2>4. ASSUME NEW k \in Jobs
        PROVE  /\ id'[k] >= id[k]
               /\ k # j => id'[k] = id[k]
               /\ k = j => id'[k] = id[k] + 1
    BY <2>1 DEF LedgerInv, TypeOK
  <2>5. ASSUME NEW k \in Jobs, NEW n \in Nat, row'[k] # "none", id'[k] = n, n <= id[k]
        PROVE  row[k] # "none" /\ (<<k, n>> \in Spilled => <<k, n>> \in Spilled')
    <3>1. k # j
      BY <2>4, <2>5 DEF LedgerInv, TypeOK
    <3>2. k \notin gone /\ row[k] # "none"
      BY <2>1, <2>5, <3>1
    <3> QED
      BY <2>3, <3>2
  <2>6. ASSUME NEW k \in Jobs
        PROVE  /\ row'[k] # "none" => id'[k] # 0
               /\ row'[k] \in Final => row'[k] = job'[k]
               /\ kept'[k] # "none" => row'[k] # "none" /\ job'[k] = "done"
               /\ kept'[k] = "file" => <<k, id'[k]>> \in Spilled'
    <3>1. CASE k \in gone
      BY <2>1, <3>1
    <3>2. CASE k \notin gone /\ k = j
      <4>1. kept'[k] = "none"
        BY <1>2, <2>1, <3>2 DEF LedgerInv, RowInv
      <4>2. id'[k] # 0
        BY <2>4, <3>2 DEF LedgerInv, TypeOK
      <4> QED
        BY <2>1, <3>2, <4>1, <4>2
    <3>3. CASE k \notin gone /\ k # j
      <4>1. row'[k] = row[k] /\ kept'[k] = kept[k] /\ id'[k] = id[k]
        BY <2>1, <2>4, <3>3
      <4>2. id[k] \in Nat
        BY DEF LedgerInv, TypeOK
      <4> QED
        BY <2>3, <3>3, <4>1, <4>2 DEF LedgerInv, RowInv
    <3> QED
      BY <3>1, <3>2, <3>3
  <2>7. RowInv'
    BY <2>6 DEF RowInv
  <2>8. ASSUME NEW k \in Jobs, job'[k] \notin Final, given'[k] # {}
        PROVE  row'[k] # "none" /\ given'[k] = {id'[k]}
    <3>0. job[k] \notin Final /\ given[k] # {} /\ given'[k] = given[k]
      BY <2>8
    <3>1. row[k] # "none" /\ given[k] = {id[k]}
      BY <3>0 DEF LedgerInv, GivenInv
    <3>2. k # j /\ row[k] \notin Final
      BY <1>2, <3>0, <3>1 DEF LedgerInv, RowInv
    <3>3. k \notin gone
      BY <2>1, <3>2
    <3>4. row'[k] = row[k] /\ id'[k] = id[k]
      BY <2>1, <2>4, <3>2, <3>3
    <3> QED
      BY <3>0, <3>1, <3>4
  <2>9. GivenInv'
    BY <2>8 DEF GivenInv
  <2>10. \A k \in Jobs, n \in Nat :
           row'[k] # "none" /\ id'[k] = n /\ n <= id[k] =>
             /\ row[k] # "none"
             /\ <<k, n>> \in Spilled => <<k, n>> \in Spilled'
    BY <2>5
  <2>11. files' \subseteq files /\ UNCHANGED cut
    BY <2>1
  <2>12. age' \in [Jobs -> Nat] /\ \A k \in Jobs : id'[k] >= id[k]
    BY <2>1, <2>4
  <2> QED
    BY <2>2, <2>7, <2>9, <2>10, <2>11, <2>12
<1> QED
  BY <1>1, <1>2

\* Files that are lost are remembered.
LEMMA LosingFiles ==
  ASSUME TypeOK, NEW lost, LoseFiles(lost)
  PROVE  Spilled' = Spilled /\ files' \subseteq files
         /\ files' \cup cut' \subseteq Jobs \X (1..MaxIds)
  BY DEF TypeOK, LoseFiles, Spilled

LEMMA HostStep ==
  ASSUME LedgerInv, UNCHANGED <<rowVars, fileVars, readVars, given>>,
         job' \in [Jobs -> States], alive' \in BOOLEAN,
         \A j \in Jobs : job[j] # "none" => job'[j] # "none",
         \A j \in Jobs : job[j] \in Final => job'[j] = job[j]
  PROVE  LedgerInv'
<1> USE DEF rowVars, fileVars, readVars, Spilled
<1>1. TypeOK'
  BY DEF LedgerInv, TypeOK
<1>2. ReadInv'
  BY DEF LedgerInv, ReadInv, Reads
<1>3. RowInv'
  BY DEF LedgerInv, RowInv
<1>4. FileInv'
  BY DEF LedgerInv, FileInv, SameRow
<1>5. GivenInv'
  BY DEF LedgerInv, GivenInv
<1> QED
  BY <1>1, <1>2, <1>3, <1>4, <1>5 DEF LedgerInv

LEMMA FetchStep ==
  ASSUME LedgerInv, NEW r \in Readers, NEW j \in Jobs, NEW k \in Kinds, Fetch(r, j, k)
  PROVE  LedgerInv'
<1> USE DEF Fetch, Goto, hostVars, rowVars, fileVars, Spilled
<1>1. [job |-> j, kind |-> k, state |-> job[j]] \in Reads
  BY DEF LedgerInv, TypeOK, Reads
<1>2. /\ pc' = [pc EXCEPT ![r] = "record"] /\ pc' \in [Readers -> PCs]
      /\ at' = [at EXCEPT ![r] = [job |-> j, kind |-> k, state |-> job[j]]]
      /\ at' \in [Readers -> Reads \cup {Nothing}]
  BY <1>1 DEF LedgerInv, TypeOK, Reads, Seen
<1>3. TypeOK'
  BY <1>2 DEF LedgerInv, TypeOK, Reads
<1>4. ReadInv'
  <2> SUFFICES ASSUME NEW q \in Readers, pc'[q] # "idle"
               PROVE  /\ at'[q] \in Reads /\ at'[q].state # "none"
                      /\ job[at'[q].job] # "none"
                      /\ at'[q].state \in Final => job[at'[q].job] = at'[q].state
                      /\ pc'[q] \in {"lookup", "spill", "write"} => at'[q].state = "done"
    BY DEF ReadInv
  <2>1. CASE q = r
    BY <1>1, <1>2, <2>1 DEF LedgerInv, TypeOK
  <2>2. CASE q # r
    BY <1>2, <2>2 DEF LedgerInv, TypeOK, ReadInv
  <2> QED
    BY <2>1, <2>2
<1>5. FileInv'
  BY <1>2 DEF LedgerInv, TypeOK, FileInv, SameRow
<1>6. RowInv' /\ GivenInv'
  BY DEF LedgerInv, RowInv, GivenInv
<1> QED
  BY <1>3, <1>4, <1>5, <1>6 DEF LedgerInv

LEMMA RecordStep ==
  ASSUME LedgerInv, NEW r \in Readers, Record(r) \/ RecordFails(r)
  PROVE  LedgerInv'
<1> DEFINE j == at[r].job
           s == at[r].state
<1>1. /\ pc[r] = "record" /\ r \in Readers
      /\ UNCHANGED <<hostVars, given>>
      /\ Recorded(r)
  BY DEF Record, RecordFails
<1>2. j \in Jobs /\ s \in States /\ s # "none" /\ (s \in Final => job[j] = s)
  BY <1>1 DEF LedgerInv, ReadInv, Reads
<1>3. /\ row' \in [Jobs -> States] /\ id' \in [Jobs -> 0..MaxIds]
      /\ age' \in [Jobs -> Nat] /\ kept' \in [Jobs -> Kept]
      /\ files' \cup cut' \subseteq Jobs \X (1..MaxIds) /\ RowInv' /\ GivenInv'
      /\ \A k \in Jobs : id'[k] >= id[k]
      /\ \A k \in Jobs, n \in Nat :
           row'[k] # "none" /\ id'[k] = n /\ n <= id[k] =>
             /\ row[k] # "none"
             /\ <<k, n>> \in Spilled => <<k, n>> \in Spilled'
  <2>1. CASE Record(r)
    <3>1. RecordJob(j, s)
      BY <2>1 DEF Record
    <3>2. files \cup cut \subseteq Jobs \X (1..MaxIds)
      BY DEF LedgerInv, TypeOK
    <3> HIDE DEF j, s
    <3> QED
      BY <1>1, <1>2, <3>1, <3>2, RecordKeeps
  <2>2. CASE RecordFails(r)
    <3>1. /\ UNCHANGED <<hostVars, rowVars, given>>
          /\ \E lost \in SUBSET Doomed(j, s) : LoseFiles(lost)
      BY <2>2 DEF RecordFails
    <3>2. Spilled' = Spilled /\ files' \cup cut' \subseteq Jobs \X (1..MaxIds)
      BY <3>1, LosingFiles DEF LedgerInv
    <3>3. RowInv' /\ GivenInv'
      BY <3>1, <3>2 DEF LedgerInv, RowInv, GivenInv, hostVars, rowVars
    <3>4. \A k \in Jobs : id'[k] >= id[k]
      BY <3>1, LedgerJobsAssumption DEF LedgerInv, TypeOK, rowVars
    <3> QED
      BY <3>1, <3>2, <3>3, <3>4 DEF LedgerInv, TypeOK, rowVars
  <2> QED
    BY <2>1, <2>2
\* The thread goes on or returns; the others stay where they are.
<1>4. /\ pc' \in [Readers -> PCs]
      /\ at' \in [Readers -> Reads \cup {Nothing}]
      /\ held' \in [Readers -> 0..MaxIds] /\ path' \in [Readers -> BOOLEAN]
      /\ pc'[r] # "idle" => at'[r] = at[r]
      /\ pc'[r] \in {"idle", "lookup", "present"}
      /\ pc'[r] = "lookup" => at[r].state = "done"
      /\ \A q \in Readers : q # r =>
           pc'[q] = pc[q] /\ at'[q] = at[q] /\ held'[q] = held[q] /\ path'[q] = path[q]
  <2>1. CASE r \in Polls
    <3>1. /\ pc' = [pc EXCEPT ![r] = "idle"] /\ at' = [at EXCEPT ![r] = Nothing]
          /\ held' = [held EXCEPT ![r] = 0] /\ path' = [path EXCEPT ![r] = FALSE]
      BY <1>1, <2>1 DEF Recorded, Return
    <3>2. 0 \in 0..MaxIds
      BY LedgerJobsAssumption
    <3> QED
      BY <3>1, <3>2 DEF LedgerInv, TypeOK, Reads
  <2>2. CASE r \notin Polls
    BY <1>1, <2>2 DEF LedgerInv, TypeOK, Recorded, Goto, HasResult, Reads
  <2> QED
    BY <2>1, <2>2
<1>5. TypeOK'
  BY <1>1, <1>3, <1>4 DEF LedgerInv, TypeOK, hostVars, Reads
<1>6. ReadInv'
  <2> SUFFICES ASSUME NEW q \in Readers, pc'[q] # "idle"
               PROVE  /\ at'[q] \in Reads /\ at'[q].state # "none"
                      /\ job'[at'[q].job] # "none"
                      /\ at'[q].state \in Final => job'[at'[q].job] = at'[q].state
                      /\ pc'[q] \in {"lookup", "spill", "write"} => at'[q].state = "done"
    BY DEF ReadInv
  <2>1. CASE q = r
    BY <1>1, <1>4, <2>1 DEF LedgerInv, ReadInv, hostVars
  <2>2. CASE q # r
    BY <1>1, <1>4, <2>2 DEF LedgerInv, ReadInv, hostVars
  <2> QED
    BY <2>1, <2>2
<1>7. FileInv'
  <2> SUFFICES ASSUME NEW q \in Readers, pc'[q] \in {"spill", "write"}
               PROVE  /\ held'[q] \in 1..id'[at'[q].job]
                      /\ pc'[q] = "write" /\ path'[q] /\ SameRow(q)' =>
                           <<at'[q].job, held'[q]>> \in Spilled'
    BY DEF FileInv
  <2>1. q # r /\ pc'[q] = pc[q] /\ at'[q] = at[q] /\ held'[q] = held[q] /\ path'[q] = path[q]
    BY <1>4
  <2>2. at[q].job \in Jobs /\ held[q] \in 1..id[at[q].job]
    BY <2>1 DEF LedgerInv, ReadInv, FileInv, Reads
  <2>3. id[at[q].job] \in Nat /\ id'[at[q].job] \in Nat /\ id'[at[q].job] >= id[at[q].job]
    BY <1>3, <2>2, LedgerJobsAssumption DEF LedgerInv, TypeOK
  <2>4. held'[q] \in 1..id'[at'[q].job]
    BY <2>1, <2>2, <2>3
  <2>5. ASSUME pc'[q] = "write", path'[q], SameRow(q)' PROVE <<at'[q].job, held'[q]>> \in Spilled'
    <3>1. row'[at[q].job] # "none" /\ id'[at[q].job] = held[q]
      BY <2>1, <2>5 DEF SameRow
    <3>2. id[at[q].job] = held[q]
      BY <2>2, <2>3, <3>1
    <3>3. /\ row[at[q].job] # "none"
          /\ <<at[q].job, held[q]>> \in Spilled => <<at[q].job, held[q]>> \in Spilled'
      BY <1>3, <2>2, <2>3, <3>1, <3>2
    <3> QED
      BY <2>1, <2>5, <3>2, <3>3 DEF LedgerInv, FileInv, SameRow
  <2> QED
    BY <2>4, <2>5
<1> QED
  BY <1>3, <1>5, <1>6, <1>7 DEF LedgerInv

\* A step of a thread that leaves the rows alone and removes no file.
LEMMA ReaderStep ==
  ASSUME LedgerInv, NEW r \in Readers, Lookup(r) \/ Spill(r) \/ Write(r) \/ Present(r)
  PROVE  LedgerInv'
<1> DEFINE j == at[r].job
<1> USE DEF hostVars, rowVars, fileVars
<1>0. /\ pc[r] # "idle" /\ j \in Jobs /\ at[r] \in Reads /\ job[j] # "none"
      /\ pc[r] \in {"lookup", "spill", "write"} => job[j] = "done"
  BY DEF LedgerInv, ReadInv, Reads, Lookup, Spill, Write, Present, Goto
<1>1. CASE Lookup(r)
  <2>1. /\ pc' \in [Readers -> PCs] /\ held' = [held EXCEPT ![r] = id[j]]
        /\ pc[r] = "lookup"
        /\ row[j] = "none" => pc'[r] = "present"
        /\ \E to \in {"present", "spill"} : pc' = [pc EXCEPT ![r] = to]
        /\ UNCHANGED <<hostVars, rowVars, fileVars, at, path, given>>
    BY <1>1 DEF LedgerInv, TypeOK, Lookup, Goto
  <2>2. TypeOK'
    BY <1>0, <2>1 DEF LedgerInv, TypeOK
  <2>3. ReadInv'
    BY <1>0, <1>1, <2>1 DEF LedgerInv, TypeOK, ReadInv, Lookup, Goto
  <2>4. RowInv' /\ GivenInv'
    BY <2>1 DEF LedgerInv, RowInv, GivenInv, Spilled
  <2>5. row[j] # "none" => id[j] \in 1..id[j]
    <3>1. id[j] \in 0..MaxIds
      BY <1>0 DEF LedgerInv, TypeOK
    <3>2. row[j] # "none" => id[j] # 0
      BY <1>0 DEF LedgerInv, RowInv
    <3> HIDE DEF j
    <3> QED
      BY <3>1, <3>2, LedgerJobsAssumption
  <2>6. FileInv'
    <3> SUFFICES ASSUME NEW q \in Readers, pc'[q] \in {"spill", "write"}
                 PROVE  /\ held'[q] \in 1..id[at[q].job]
                        /\ pc'[q] = "write" /\ path[q] /\ SameRow(q)' =>
                             <<at[q].job, held'[q]>> \in Spilled
      BY <2>1 DEF FileInv, SameRow, Spilled
    <3>1. CASE q = r
      <4>1. pc'[r] = "spill" /\ row[j] # "none" /\ held'[r] = id[j]
        BY <1>0, <2>1, <3>1 DEF LedgerInv, TypeOK
      <4> HIDE DEF j
      <4>2. at[r].job = j
        BY DEF j
      <4> QED
        BY <2>5, <3>1, <4>1, <4>2
    <3>2. CASE q # r
      BY <2>1, <3>2 DEF LedgerInv, TypeOK, FileInv, SameRow
    <3> QED
      BY <3>1, <3>2
  <2> QED
    BY <2>2, <2>3, <2>4, <2>6 DEF LedgerInv
<1>2. CASE Spill(r)
  <2> DEFINE f == SpillFile(r)
  <2>1. /\ pc[r] = "spill" /\ pc' = [pc EXCEPT ![r] = "write"]
        /\ UNCHANGED <<hostVars, rowVars, at, held, given>>
    BY <1>2 DEF LedgerInv, TypeOK, Spill, Goto
  <2>2. f \in Jobs \X (1..MaxIds)
    <3>1. held[r] \in 1..id[j] /\ id[j] \in 0..MaxIds
      BY <1>0, <2>1 DEF LedgerInv, TypeOK, FileInv
    <3>2. held[r] \in 1..MaxIds
      <4> HIDE DEF j
      <4> QED
        BY <3>1, LedgerJobsAssumption
    <3> QED
      BY <1>0, <3>2 DEF SpillFile
  <2>3. /\ path' \in [Readers -> BOOLEAN]
        /\ \A q \in Readers : q # r => path'[q] = path[q]
        /\ path'[r] => f \in Spilled'
        /\ files' \cup cut' \subseteq Jobs \X (1..MaxIds)
        /\ Spilled \subseteq Spilled'
    <3>1. CASE path' = [path EXCEPT ![r] = FALSE] /\ UNCHANGED fileVars
      BY <3>1 DEF LedgerInv, TypeOK, Spilled
    <3>2. CASE path' = [path EXCEPT ![r] = FALSE] /\ LoseFiles({f})
      BY <3>2, LosingFiles DEF LedgerInv, TypeOK
    <3>3. CASE /\ path' = [path EXCEPT ![r] = TRUE]
               /\ files' = files \cup {f} /\ cut' = cut \ {f}
      <4> HIDE DEF f
      <4> QED
        BY <2>2, <3>3 DEF LedgerInv, TypeOK, Spilled
    <3> QED
      BY <1>2, <3>1, <3>2, <3>3 DEF Spill
  <2>4. TypeOK'
    BY <1>0, <2>1, <2>3 DEF LedgerInv, TypeOK
  <2>5. ReadInv'
    BY <1>0, <2>1 DEF LedgerInv, TypeOK, ReadInv
  <2>6. RowInv' /\ GivenInv'
    BY <2>1, <2>3 DEF LedgerInv, RowInv, GivenInv
  <2>7. FileInv'
    <3> SUFFICES ASSUME NEW q \in Readers, pc'[q] \in {"spill", "write"}
                 PROVE  /\ held[q] \in 1..id[at[q].job]
                        /\ pc'[q] = "write" /\ path'[q] /\ SameRow(q) =>
                             <<at[q].job, held[q]>> \in Spilled'
      BY <2>1 DEF FileInv, SameRow
    <3>1. CASE q = r
      BY <2>1, <2>3, <3>1 DEF LedgerInv, FileInv, SpillFile
    <3>2. CASE q # r
      BY <2>1, <2>3, <3>2 DEF LedgerInv, TypeOK, FileInv
    <3> QED
      BY <3>1, <3>2
  <2> QED
    BY <2>4, <2>5, <2>6, <2>7 DEF LedgerInv
<1>3. CASE Write(r)
  <2>1. /\ pc[r] = "write" /\ pc' = [pc EXCEPT ![r] = "present"]
        /\ UNCHANGED <<hostVars, row, id, age, fileVars, at, held, path, given>>
    BY <1>3 DEF Write, Goto
  <2>2. \/ kept' = kept
        \/ SameRow(r) /\ kept' = [kept EXCEPT ![j] = IF path[r] THEN "file" ELSE "inline"]
    BY <1>3 DEF Write
  <2>3. TypeOK'
    BY <2>1, <2>2 DEF LedgerInv, TypeOK
  <2>4. ReadInv'
    BY <1>0, <2>1 DEF LedgerInv, TypeOK, ReadInv
  <2>5. SameRow(r) /\ path[r] => <<j, id[j]>> \in Spilled
    BY <2>1 DEF LedgerInv, FileInv, SameRow
  <2>6. RowInv'
    BY <1>0, <2>1, <2>2, <2>5 DEF LedgerInv, TypeOK, RowInv, SameRow, Spilled
  <2>7. FileInv' /\ GivenInv'
    BY <2>1 DEF LedgerInv, TypeOK, FileInv, GivenInv, SameRow, Spilled
  <2> QED
    BY <2>3, <2>4, <2>6, <2>7 DEF LedgerInv
<1>4. CASE Present(r)
  <2>1. /\ pc' = [pc EXCEPT ![r] = "idle"] /\ at' = [at EXCEPT ![r] = Nothing]
        /\ held' = [held EXCEPT ![r] = 0] /\ path' = [path EXCEPT ![r] = FALSE]
        /\ UNCHANGED <<hostVars, rowVars, fileVars>>
    BY <1>4 DEF Present, Return
  <2>2. \/ given' = given
        \/ row[j] # "none" /\ given' = [given EXCEPT ![j] = @ \cup {id[j]}]
    BY <1>4 DEF Present
  <2>3. row[j] # "none" => id[j] \in 1..MaxIds
    <3>1. id[j] \in 0..MaxIds /\ (row[j] # "none" => id[j] # 0)
      BY <1>0 DEF LedgerInv, TypeOK, RowInv
    <3> HIDE DEF j
    <3> QED
      BY <3>1, LedgerJobsAssumption
  <2>4. given' \in [Jobs -> SUBSET (1..MaxIds)]
    BY <1>0, <2>2, <2>3 DEF LedgerInv, TypeOK
  <2>5. TypeOK'
    BY <2>1, <2>4, LedgerJobsAssumption DEF LedgerInv, TypeOK
  <2>6. ReadInv'
    BY <2>1 DEF LedgerInv, TypeOK, ReadInv
  <2>7. RowInv'
    BY <2>1 DEF LedgerInv, RowInv, Spilled
  <2>8. FileInv'
    BY <2>1 DEF LedgerInv, TypeOK, FileInv, SameRow, Spilled
  <2>9. GivenInv'
    BY <1>0, <2>1, <2>2 DEF LedgerInv, TypeOK, GivenInv
  <2> QED
    BY <2>5, <2>6, <2>7, <2>8, <2>9 DEF LedgerInv
<1> QED
  BY <1>1, <1>2, <1>3, <1>4

LEMMA NextInv ==
  ASSUME LedgerInv, [Next]_vars
  PROVE  LedgerInv'
<1>1. ASSUME NEW k \in Jobs, Start(k) PROVE LedgerInv'
  <2>1. /\ job' \in [Jobs -> States] /\ alive' \in BOOLEAN
        /\ \A i \in Jobs : job[i] # "none" => job'[i] # "none"
        /\ \A i \in Jobs : job[i] \in Final => job'[i] = job[i]
        /\ UNCHANGED <<rowVars, fileVars, readVars, given>>
    BY <1>1 DEF LedgerInv, TypeOK, Start
  <2> QED
    BY <2>1, HostStep
<1>2. ASSUME NEW k \in Jobs, NEW s \in Final, End(k, s) PROVE LedgerInv'
  <2>1. /\ job' \in [Jobs -> States] /\ alive' \in BOOLEAN
        /\ \A i \in Jobs : job[i] # "none" => job'[i] # "none"
        /\ \A i \in Jobs : job[i] \in Final => job'[i] = job[i]
        /\ UNCHANGED <<rowVars, fileVars, readVars, given>>
    BY <1>2 DEF LedgerInv, TypeOK, End
  <2> QED
    BY <2>1, HostStep
<1>3. CASE Exit \/ UNCHANGED vars
  <2>1. /\ job' = job /\ job' \in [Jobs -> States] /\ alive' \in BOOLEAN
        /\ UNCHANGED <<rowVars, fileVars, readVars, given>>
    BY <1>3 DEF LedgerInv, TypeOK, Exit, vars, hostVars
  <2> QED
    BY <2>1, HostStep
<1>4. CASE Restart
  <2>1. /\ Spilled' = Spilled /\ files' \cup cut' \subseteq Jobs \X (1..MaxIds)
        /\ pc' = [r \in Readers |-> "idle"] /\ at' = [r \in Readers |-> Nothing]
        /\ held' = [r \in Readers |-> 0] /\ path' = [r \in Readers |-> FALSE]
        /\ UNCHANGED <<hostVars, rowVars, given>>
    BY <1>4, LosingFiles DEF LedgerInv, Restart
  <2> QED
    BY <2>1, LedgerJobsAssumption
       DEF LedgerInv, TypeOK, rowVars, hostVars, ReadInv, RowInv, FileInv, GivenInv
<1>5. ASSUME NEW r \in Readers, Reader(r) PROVE LedgerInv'
  BY <1>5, FetchStep, RecordStep, ReaderStep DEF Reader
<1> QED
  BY <1>1, <1>2, <1>3, <1>4, <1>5 DEF Next

(* Every variable of the ledger and its readers keeps its type.              *)
THEOREM LedgerTypeCorrect == Spec => []TypeOK
<1>1. LedgerInv => TypeOK
  BY DEF LedgerInv
<1> QED
  BY InitInv, NextInv, <1>1, PTL DEF Spec

(* No end is invented: a row that says a job ended says what the host said.  *)
THEOREM EndsAreTrue == Spec => []FinalIsTrue
<1>1. LedgerInv => FinalIsTrue
  BY DEF LedgerInv, RowInv, FinalIsTrue
<1> QED
  BY InitInv, NextInv, <1>1, PTL DEF Spec

(* A result is kept only of a done job, and a path that is kept leads to a   *)
(* file, for any number of threads, prunings, failed writes and restarts:    *)
(* but for the files that a transaction unlinked and did not commit, or that *)
(* a write truncated and did not end.                                        *)
THEOREM ResultsAreReadable == Spec => []KeptIsReadable
<1>1. LedgerInv => KeptIsReadable
  BY DEF LedgerInv, RowInv, KeptIsReadable, Spilled
<1> QED
  BY InitInv, NextInv, <1>1, PTL DEF Spec

(* The id of a running job stays good, whatever is pruned meanwhile.         *)
THEOREM IdsResolve == Spec => []IdResolves
<1>1. LedgerInv => IdResolves
  BY DEF LedgerInv, GivenInv, IdResolves
<1> QED
  BY InitInv, NextInv, <1>1, PTL DEF Spec

=============================================================================
