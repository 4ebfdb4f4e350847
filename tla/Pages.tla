------------------------------- MODULE Pages -------------------------------
(* Listings that the agent reads page by page while the scene changes in    *)
(* between: node_find (tools/nodes.py), which resumes after a path;         *)
(* network_describe (tools/network.py), which resumes after a name in the   *)
(* network's order; cook {problems} (tools/cook.py), which resumes at a row *)
(* of a slice of the walk, since a page may end for lack of time.           *)
EXTENDS Naturals, Sequences, FiniteSets, SequencesExt

CONSTANTS
  MaxNode,     \* nodes are 1..MaxNode, numbered in the order of their paths
  Limit,       \* rows on a page
  MaxChanges   \* bound on the changes of the scene

VARIABLES
  listing,   \* which tool
  nodes,     \* the nodes that match, in the order of their creation
  probs,     \* problems: what is wrong with each node
  mirrors,   \* problems: objects that repeat what is wrong with the next node, their display SOP
  cursor,    \* the next call's cursor, NoCursor before the first page
  state,     \* "walking", "refused" or "done"
  got,       \* ghost: how often each row came
  steady,    \* ghost: the nodes that were there throughout
  changes,
  spoilt     \* ghost: a scan that had reached the end on an earlier page did not on a later one, or
             \* the name that a page ended with is that of another node now

vars == <<listing, nodes, probs, mirrors, cursor, state, got, steady, changes, spoilt>>

Node == 1..MaxNode
Kinds == <<"error", "warning">>     \* in KIND_ORDER
Rows == Node \X ({"node"} \union ToSet(Kinds))
NoCursor == [rows |-> 0, start |-> 0, end |-> 0, after |-> 0]

Init ==
  /\ listing \in {"find", "describe", "problems"}
  /\ nodes \in {SetToSeq(s) : s \in SUBSET Node}
  /\ probs \in IF listing = "problems" THEN [Node -> SUBSET ToSet(Kinds)] ELSE {[n \in Node |-> {}]}
  /\ mirrors \in IF listing = "problems" THEN SUBSET (1..MaxNode - 1) ELSE {{}}
  /\ listing = "problems" => /\ ToSet(nodes) = Node
                             /\ \A n \in mirrors : {"error"} \subseteq probs[n] \intersect probs[n + 1]
  /\ cursor = NoCursor /\ state = "walking"
  /\ got = [r \in Rows |-> 0]
  /\ steady = ToSet(nodes)
  /\ changes = 0 /\ spoilt = FALSE

Came(rows) == got' = [r \in Rows |-> IF r \in rows THEN got[r] + 1 ELSE got[r]]
Fixed == UNCHANGED <<listing, nodes, probs, mirrors, steady, changes>>

-----------------------------------------------------------------------------
(* node_find: rows in the order of their paths, whatever the walk's order. *)

Sorted == SelectSeq([n \in Node |-> n], LAMBDA n : n \in ToSet(nodes))

\* The rows up to the cursor's path, which need not be there any more.
Resume(after) == Len(SelectSeq(Sorted, LAMBDA n : n <= after))

\* A page ends at the limit, or earlier at the response budget, but has a row.
Find ==
  /\ listing = "find" /\ state = "walking"
  /\ LET start == Resume(cursor.after)
         rest == Len(Sorted) - start IN
     IF rest <= 0 THEN state' = "done" /\ UNCHANGED <<cursor, got>>
     ELSE \E n \in 1..(IF rest < Limit THEN rest ELSE Limit) :
            /\ Came({<<Sorted[i], "node">> : i \in start + 1..start + n})
            /\ IF n = rest THEN state' = "done" /\ UNCHANGED cursor
                           ELSE cursor' = [NoCursor EXCEPT !.after = Sorted[start + n]] /\ UNCHANGED state
  /\ UNCHANGED spoilt /\ Fixed

-----------------------------------------------------------------------------
(* network_describe: rows in the network's order, each with its subtree.    *)

\* The place in the network's order of the name that a page ended with; 0 when it is no longer there.
After(name) == IF name \in ToSet(nodes) THEN CHOOSE i \in DOMAIN nodes : nodes[i] = name ELSE 0
Gone(name) == name # 0 /\ After(name) = 0

\* Where a page may end: it has a row, and ends at the budget of bytes or of nodes, which subtrees
\* use too; a row that is too long by itself comes without its subtree.
Outlined(rest) == 1..rest

Describe ==
  /\ listing = "describe" /\ state = "walking"
  /\ IF Gone(cursor.after) THEN state' = "refused" /\ UNCHANGED <<cursor, got>>
     ELSE LET start == After(cursor.after)
              rest == Len(nodes) - start IN
          IF rest = 0 THEN state' = "done" /\ UNCHANGED <<cursor, got>>
          ELSE \E n \in Outlined(rest) :
                 /\ Came({<<nodes[i], "node">> : i \in start + 1..start + n})
                 /\ IF n = rest THEN state' = "done" /\ UNCHANGED cursor
                    ELSE cursor' = [NoCursor EXCEPT !.after = nodes[start + n]] /\ UNCHANGED state
  /\ UNCHANGED spoilt /\ Fixed

-----------------------------------------------------------------------------
(* problems: the walk from its end, children before their containers.       *)

At(index) == MaxNode + 1 - index

\* The rows of the slice's nodes; an object does not repeat its display SOP, when that is in the
\* slice before it.
SliceRows(start, end) ==
  LET here == {At(i) : i \in start + 1..end} IN
  {<<n, k>> \in here \X ToSet(Kinds) :
     k \in probs[n] /\ ~(k = "error" /\ n \in mirrors /\ n + 1 \in here)}

\* Errors first, then by place.
Ordered(start, end) ==
  SelectSeq([i \in 1..2 * MaxNode |-> IF i <= MaxNode THEN <<i, Kinds[1]>>
                                                      ELSE <<i - MaxNode, Kinds[2]>>],
            LAMBDA r : r \in SliceRows(start, end))

\* Mutant: the rest of a slice's rows is looked for in a scan as far as the time allows.
EndOpen(start, end) == [start |-> start, end |-> 0]

\* The slice that a next page of the same rows scans again; the whole walk has no marks.
End(start, end) == IF end < MaxNode \/ start > 0 THEN [start |-> start, end |-> end]
                                                  ELSE [start |-> 0, end |-> 0]

\* A scan goes to the slice's end, or, when none was given, until its time is over.
ScanEnds == IF cursor.end # 0 THEN {cursor.end} ELSE cursor.start + 1..MaxNode

Problems ==
  /\ listing = "problems" /\ state = "walking"
  /\ \E end \in ScanEnds :
       LET rows == Ordered(cursor.start, end)
           last == IF Len(rows) < cursor.rows + Limit THEN Len(rows) ELSE cursor.rows + Limit
           slice == End(cursor.start, end) IN
       /\ Came({rows[i] : i \in cursor.rows + 1..last})
       /\ spoilt' = (spoilt \/ (cursor.rows > 0 /\ cursor.end = 0 /\ cursor.start = 0 /\ end < MaxNode))
       /\ CASE cursor.rows + Limit < Len(rows) ->
                 /\ cursor' = [NoCursor EXCEPT !.rows = cursor.rows + Limit,
                                           !.start = slice.start, !.end = slice.end]
                 /\ UNCHANGED state
            [] cursor.rows + Limit >= Len(rows) /\ end < MaxNode ->
                 cursor' = [NoCursor EXCEPT !.start = end] /\ UNCHANGED state
            [] OTHER -> state' = "done" /\ UNCHANGED cursor
  /\ Fixed

-----------------------------------------------------------------------------
(* The scene between two pages. *)

Delete(n) ==
  /\ listing # "problems" /\ state = "walking" /\ changes < MaxChanges
  /\ n \in ToSet(nodes)
  /\ nodes' = SelectSeq(nodes, LAMBDA m : m # n)
  /\ steady' = steady \ {n}
  /\ changes' = changes + 1
  /\ UNCHANGED <<listing, probs, mirrors, cursor, state, got, spoilt>>

Create(n) ==
  /\ listing # "problems" /\ state = "walking" /\ changes < MaxChanges
  /\ n \notin ToSet(nodes)
  /\ nodes' = Append(nodes, n)
  /\ changes' = changes + 1
  /\ spoilt' = (spoilt \/ (listing = "describe" /\ cursor.after = n))
  /\ UNCHANGED <<listing, probs, mirrors, cursor, state, got, steady>>

Next ==
  \/ Find \/ Describe \/ Problems
  \/ \E n \in Node : Delete(n) \/ Create(n)

Spec == Init /\ [][Next]_vars

-----------------------------------------------------------------------------

TypeOK ==
  /\ state \in {"walking", "refused", "done"}
  /\ ToSet(nodes) \subseteq Node /\ steady \subseteq ToSet(nodes)
  /\ got \in [Rows -> Nat]

\* The rows that the whole listing has: problems that are not repeats of another row.
Expected ==
  IF listing = "problems" THEN {<<n, k>> \in Node \X ToSet(Kinds) :
                                  k \in probs[n] /\ ~(k = "error" /\ n \in mirrors)}
                          ELSE {<<n, "node">> : n \in steady}

\* What is there throughout comes once in the pages of a listing, neither skipped nor repeated,
\* though other nodes come and go between them (nodes.py:1062, _common.py:238); also when a scan for
\* problems runs out of time (cook.py:1443).  Excepted are the problems of a scan that was faster
\* before, and a network in which the last row's node went and another has its name: spoilt.
PagesAreWhole ==
  ~spoilt => /\ \A r \in Expected : got[r] <= 1
             /\ state = "done" => \A r \in Expected : got[r] = 1
=============================================================================
