------------------------------- MODULE Chains -------------------------------
(* cook with force (tools/cook.py): a job force-cooks the nodes it names, one *)
(* main-thread step each; with force "chain", what a normal cook of them uses *)
(* is cooked before them, so that files are read again.  Between steps the    *)
(* user edits the network and files change.                                   *)
EXTENDS TLC, Naturals, Sequences, FiniteSets, SequencesExt

CONSTANTS
  MaxChanges   \* bound on what happens beside the job

Files == {"f", "g"}
Nodes == Files \union {"x", "s", "m"}   \* s is a Switch or a for-each end
Modes == {"plain", "chain", "profile"}

VARIABLES
  wires,     \* a node's inputs
  refs,      \* the nodes that m's parms refer to
  sel,       \* the input that s uses, 0 for a loop, whose end uses all
  exists,
  bad,       \* files that report an error
  disk,      \* a file's version on disk
  read,      \* the version that its node has read
  mode, paths,
  at,        \* the path that is at work
  todo,      \* its inputs that are still to be cooked; <<"ask">> before they are known
  done,      \* what has been cooked
  row,       \* the errors of the inputs that were cooked for it
  results,
  pc,        \* "working", or as the job ended: "done", "failed" or "cancelled"
  began,     \* ghost: disk as the job began
  counts,    \* ghost: how often a node was force-cooked
  flipped,   \* ghost: the Switch was set since its inputs were asked for
  changes

net == <<wires, refs, bad>>
vars == <<net, sel, exists, disk, read, mode, paths, at, todo, done, row, results, pc, began, counts, flipped,
          changes>>

Ask == <<"ask">>

Init ==
  /\ wires \in {("f" :> <<>> @@ "g" :> <<>> @@ "x" :> xs @@ "s" :> ss @@ "m" :> <<"s">>) :
                 xs \in {<<>>, <<"f">>}, ss \in {<<"f", "g">>, <<"f">>, <<"x", "g">>}}
  /\ refs \in {{}, {"x"}, {"g"}}
  /\ sel \in 0..2 /\ sel <= Len(wires["s"])
  /\ exists = Nodes
  /\ bad \in {{}, {"f"}, Files}
  /\ read = [f \in Files |-> 0] /\ disk = [f \in Files |-> 1] /\ began = disk
  /\ mode \in Modes
  /\ paths \in {<<"m">>, <<"m", "s">>, <<"s", "m">>, <<"m", "f">>, <<"f", "m">>}
  /\ at = 1 /\ todo = Ask /\ done = {} /\ row = {} /\ results = <<>> /\ pc = "working"
  /\ counts = [n \in Nodes |-> 0]
  /\ flipped = FALSE /\ changes = 0

-----------------------------------------------------------------------------
(* The order. *)

Inputs(n) == SelectSeq(wires[n], LAMBDA i : i \in exists)

\* upstream_first: the nodes wired above n, each after its inputs.
RECURSIVE UpstreamOf(_, _)
UpstreamOf(seq, seen) ==
  IF seq = <<>> THEN seen
  ELSE IF Head(seq) \in ToSet(seen) THEN UpstreamOf(Tail(seq), seen)
  ELSE UpstreamOf(Tail(seq), Append(UpstreamOf(Inputs(Head(seq)), seen), Head(seq)))

Upstream(n) == UpstreamOf(Inputs(n), <<>>)

Referred(n) == IF n = "m" THEN refs \intersect exists ELSE {}

\* dependency_order, without the node: those that it only refers to come first.
Order(n) ==
  LET wired == Upstream(n)
  IN SelectSeq(UpstreamOf(SetToSeq(Referred(n)), <<>>), LAMBDA i : i \notin ToSet(wired)) \o wired

\* Houdini's inputAncestors(only_used_inputs=True), which leaves a loop's body out.
RECURSIVE Used(_)
Used(n) ==
  LET direct == Referred(n) \union
                (CASE n # "s" -> ToSet(Inputs(n))
                   [] n = "s" /\ sel = 0 -> {}
                   [] OTHER -> {wires[n][sel]} \intersect exists)
  IN direct \union UNION {Used(i) : i \in direct}

\* A for-each end cooks all that is above it.
WithLoops(used) == used \union (IF "s" \in used /\ sel = 0 THEN ToSet(Order("s")) ELSE {})

\* cook_path: the inputs that a normal cook cooks; all of them when Houdini names none, or when the
\* chain simulates or does not cook.
CookPath(n, unknown) ==
  IF unknown \/ Used(n) = {} THEN Order(n) ELSE SelectSeq(Order(n), LAMBDA i : i \in WithLoops(Used(n)))

\* What a cook of n really uses.
RECURSIVE Cooks(_)
Cooks(n) ==
  LET direct == Referred(n) \union
                IF n = "s" /\ sel # 0 THEN {wires[n][sel]} \intersect exists ELSE ToSet(Inputs(n))
  IN {n} \union UNION {Cooks(i) : i \in direct}

-----------------------------------------------------------------------------
(* The job.  A step looks its node up: one that is gone ends the job. *)

Frozen == <<net, mode, paths, began>>
Outside == <<sel, exists, disk, changes>>
Working == pc = "working"
Path == paths[at]
Gone(n) == n \notin exists
Lost == pc' = "failed" /\ UNCHANGED <<Frozen, Outside, read, at, todo, done, row, results, counts, flipped>>

\* Mutant: inputs that are named themselves are left for later.
LeftNamed(inputs) == SelectSeq(inputs, LAMBDA i : i \notin done \union ToSet(paths))

\* What is left to cook: not what was cooked for an earlier node, or as one.
Left(inputs) == SelectSeq(inputs, LAMBDA i : i \notin done)

\* Profile asks for all its nodes at once, and cooks these with the others.
AskInputs ==
  /\ Working /\ mode # "plain" /\ todo = Ask
  /\ IF mode = "chain"
     THEN IF Gone(Path) THEN Lost
          ELSE /\ \E unknown \in BOOLEAN : todo' = Left(CookPath(Path, unknown))
               /\ row' = {} /\ flipped' = FALSE
               /\ UNCHANGED <<Frozen, Outside, read, at, done, results, pc, counts>>
     ELSE IF \E i \in DOMAIN paths : Gone(paths[i]) THEN Lost
          ELSE /\ \E unknown \in BOOLEAN :
                    LET chain(n) == Append(CookPath(n, unknown), n)
                        all == chain(paths[1]) \o (IF Len(paths) > 1 THEN chain(paths[2]) ELSE <<>>)
                    IN todo' = SelectSeq([i \in DOMAIN all |-> IF all[i] \in ToSet(SubSeq(all, 1, i - 1))
                                                              THEN "again" ELSE all[i]],
                                         LAMBDA i : i # "again")
               /\ UNCHANGED <<Frozen, Outside, read, at, done, row, results, pc, counts, flipped>>

\* cook_node with force presses a file's reload button, also of a node that is cooked alone; a
\* profile does not.
Reads(n) == IF n \in Files /\ mode # "profile" THEN [read EXCEPT ![n] = disk[n]] ELSE read
Counted(n) == [counts EXCEPT ![n] = @ + 1]

CookInput ==
  /\ Working /\ todo # Ask /\ todo # <<>>
  /\ LET n == Head(todo) IN
     IF Gone(n) THEN Lost
     ELSE /\ read' = Reads(n) /\ counts' = Counted(n)
          /\ todo' = Tail(todo) /\ done' = done \union {n}
          /\ row' = row \union ({n} \intersect bad)
          /\ UNCHANGED <<Frozen, Outside, at, results, pc, flipped>>

\* The node itself; its cook reads what is stale in its inputs from their nodes, not from files.
CookNode ==
  /\ Working /\ (mode = "plain" \/ todo = <<>>)
  /\ IF Gone(Path) THEN Lost
     ELSE /\ read' = Reads(Path)
          /\ counts' = IF mode = "profile" THEN counts ELSE Counted(Path)
          /\ done' = done \union {Path}
          /\ results' = Append(results,
               [path |-> Path, problems |-> row, flipped |-> flipped, plain |-> mode # "chain",
                used |-> Cooks(Path) \intersect Files,
                stale |-> {f \in Files : Reads(Path)[f] < began[f]}])
          /\ at' = at + 1 /\ todo' = IF mode = "profile" THEN <<>> ELSE Ask
          /\ row' = {} /\ flipped' = FALSE
          /\ pc' = IF at = Len(paths) THEN "done" ELSE pc
          /\ UNCHANGED <<Frozen, Outside>>

\* Before the next step; what was done stays in the job's result.
Cancel ==
  /\ Working
  /\ pc' = "cancelled"
  /\ UNCHANGED <<Frozen, Outside, read, at, todo, done, row, results, counts, flipped>>

-----------------------------------------------------------------------------
(* Between steps. *)

Other(sel1, exists1, disk1) ==
  /\ Working /\ changes < MaxChanges
  /\ sel' = sel1 /\ exists' = exists1 /\ disk' = disk1
  /\ flipped' = (flipped \/ sel # sel1) /\ changes' = changes + 1
  /\ UNCHANGED <<Frozen, read, at, todo, done, row, results, pc, counts>>

Flip == sel # 0 /\ Len(wires["s"]) = 2 /\ Other(3 - sel, exists, disk)
Delete(n) == n \in exists /\ Other(sel, exists \ {n}, disk)
Saved(f) == Other(sel, exists, [disk EXCEPT ![f] = @ + 1])

Next ==
  \/ AskInputs \/ CookInput \/ CookNode \/ Cancel \/ Flip
  \/ \E n \in Nodes : Delete(n)
  \/ \E f \in Files : Saved(f)

Spec == Init /\ [][Next]_vars

-----------------------------------------------------------------------------

TypeOK ==
  /\ pc \in {"working", "done", "failed", "cancelled"} /\ at \in 1..3
  /\ done \subseteq Nodes /\ Len(results) <= 2

\* What force "chain" reports was made of files as they were when the job began, or later, also
\* those that feed a loop, or a node that is named first or last.  Excepted is a Switch that was
\* set while the inputs of the old setting were cooked (cook.py:728).
RowIsFresh == \A i \in DOMAIN results :
  results[i].plain \/ results[i].flipped \/ results[i].used \intersect results[i].stale = {}

\* An input with errors is named by the node that it was cooked for, by an earlier one, or has a
\* row of its own before it (cook.py:748).
ErrorsAreTold == \A i \in DOMAIN results :
  \/ results[i].plain \/ results[i].flipped
  \/ results[i].used \intersect bad \subseteq
       {results[j].path : j \in 1..i} \union UNION {results[j].problems : j \in 1..i}

\* A node is cooked once for all that use it, and once more only where its name comes later; a job
\* that is done has a row for each name, one that was cancelled for those before (cook.py:728).
CookedOnce ==
  /\ \A n \in Nodes : counts[n] <= 1 \/ (counts[n] = 2 /\ mode = "chain" /\ n \in ToSet(paths))
  /\ \A i \in DOMAIN results : results[i].path = paths[i]
  /\ pc = "done" => Len(results) = Len(paths)

ChainIsCooked == RowIsFresh /\ ErrorsAreTold /\ CookedOnce
=============================================================================
