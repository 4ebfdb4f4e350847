------------------------------- MODULE Builds -------------------------------
(* One level of network_build (tools/network.py, tx.py): a call's data is     *)
(* validated against the network and renamed, what it replaces is put aside,  *)
(* Houdini makes it, the result is verified, callbacks are pressed and the    *)
(* wires of replaced nodes move.  Each step may fail.  Children are built the *)
(* same way in a new network.  What a failure takes back is in Transactions.  *)
EXTENDS Naturals, Sequences, FiniteSets, SequencesExt

CONSTANT None

\* A name is a stem and a number, 0 for no number.
a0 == <<"a", 0>>
a1 == <<"a", 1>>
b0 == <<"b", 0>>
c0 == <<"c", 0>>          \* an existing child, fed by a0
d0 == <<"d", 0>>          \* another
Modes == {"error", "rename", "replace"}
Inputs == 0..1                           \* every type takes two inputs
Missing == 2                             \* an input name that no type has
\* An input is given by index or by name, or not at all.
Tos == {<<0, "none">>, <<0, "name">>, <<Missing, "name">>} \union (Inputs \X {"index"})
Links == [from : {a0, b0, d0}, to : Tos]

VARIABLES
  nodes,     \* the names of the parent's children
  notes,     \* the names of its network boxes, sticky notes and dots
  feeds,     \* for a child, which child's output is wired to which of its inputs
  was,       \* the children before the call
  call,      \* data, mode and press of the call, the entries with a parm that their type has
             \* not (odd); None before
  renamed,   \* for a name of data, the name it is built under
  plan,      \* data, renamed
  aside,     \* for a replaced node, its temporary name
  pressed,   \* the nodes whose callback ran
  pc         \* "idle", "refused", "prepared", "made", "pressed" or "done"; "raised", "unverified"
             \* and "failed": Houdini's error, the verification's and a callback's

vars == <<nodes, notes, feeds, was, call, renamed, plan, aside, pressed, pc>>

Init ==
  /\ nodes \in {{}, {a0}, {a0, c0}, {a0, a1, c0, d0}, {c0, d0}}
  /\ notes \in IF nodes = {a0, c0} THEN {{}, {b0}} ELSE {{}}
  /\ feeds = [n \in nodes |-> IF n = c0 /\ a0 \in nodes THEN (0 :> a0) ELSE <<>>]
  /\ was = nodes
  /\ call = None /\ renamed = <<>> /\ plan = <<>> /\ aside = <<>> /\ pressed = {} /\ pc = "idle"

-----------------------------------------------------------------------------
(* prepare_build: nothing changes. *)

\* The input a link goes to: by default the one at its own position.
ToIndex(links, i) ==
  IF links[i].to[2] = "none" THEN <<i - 1, "index">> ELSE links[i].to
Index(to) == to[1]

\* _validate_inputs: the source is in data or in the network, an index is of an input, and no other
\* link has the same to_index.  A name is taken as it is: that it is an input's, or that of an input
\* given by its index too, is not looked at.
InputsValid(links, names, others) ==
  \A i \in DOMAIN links :
    /\ links[i].from \in names \union others
    /\ ToIndex(links, i)[2] = "index" => Index(ToIndex(links, i)) \in Inputs
    /\ \A j \in DOMAIN links : i # j => ToIndex(links, i) # ToIndex(links, j)

\* _validate_level: of types that exist, each entry's inputs.
LevelValid(data, others) == \A n \in DOMAIN data : InputsValid(data[n], DOMAIN data, others)

\* Mutant: a free name is one that the network does not have.
TakenInParent(data) == nodes \union notes
Taken(data) == DOMAIN data \union nodes \union notes

\* unique_name: the first number that is free.
Unique(name, taken) ==
  IF name \notin taken THEN name
  ELSE <<name[1], CHOOSE i \in 1..9 : /\ <<name[1], i>> \notin taken
                                      /\ \A j \in 1..i - 1 : <<name[1], j>> \in taken>>

Clashes(data) == SetToSeq(DOMAIN data \intersect (nodes \union notes))

\* Each clash gets a name that no earlier one got.
Renamed(data) ==
  LET clashes == Clashes(data)
      free[i \in 0..Len(clashes)] ==
        IF i = 0 THEN <<>>
        ELSE (clashes[i] :> Unique(clashes[i], Taken(data) \union {free[i - 1][n] : n \in DOMAIN free[i - 1]}))
             @@ free[i - 1]
  IN free[Len(clashes)]

NewName(map, n) == IF n \in DOMAIN map THEN map[n] ELSE n

\* _rename_refs: entries and the links to them.
RenameRefs(data, map) ==
  [n \in {NewName(map, m) : m \in DOMAIN data} |->
     LET links == data[CHOOSE m \in DOMAIN data : NewName(map, m) = n] IN
     [i \in DOMAIN links |-> [links[i] EXCEPT !.from = NewName(map, @)]]]

\* press names nodes by their names in data, or by the names that they are built under.
PressPlan(press, map) == {NewName(map, n) : n \in press}

Collides(data, mode) ==
  \/ mode = "error" /\ Clashes(data) # <<>>
  \/ mode = "replace" /\ DOMAIN data \intersect notes # {}

\* The names that links may have besides those of data: what is renamed or replaced is in data.
Referencable(data) == nodes \ DOMAIN data

\* The parms of an entry are not looked at.
Prepare(data, mode, press, odd) ==
  /\ pc = "idle"
  /\ LET map == IF mode = "rename" THEN Renamed(data) ELSE <<>>
         new == RenameRefs(data, map) IN
     /\ call' = [data |-> data, mode |-> mode, press |-> press, odd |-> odd]
     /\ IF ~Collides(data, mode) /\ PressPlan(press, map) \subseteq DOMAIN new
            /\ LevelValid(new, Referencable(data))
        THEN pc' = "prepared" /\ renamed' = map /\ plan' = new
        ELSE pc' = "refused" /\ UNCHANGED <<renamed, plan>>
  /\ UNCHANGED <<nodes, notes, feeds, was, aside, pressed>>

-----------------------------------------------------------------------------
(* _op_build *)

Temp(n) == <<n[1], n[2], "replaced">>

\* Where a wire that names n comes from, once what is replaced has its temporary name.
Moved(n, gone) == IF n \in gone THEN Temp(n) ELSE n

\* What Houdini wires: each input to the child that has the link's name by then; of two links to an
\* input the later stays, and a name that no input has is passed over.
Wired(links, there) ==
  LET goes(k) == Index(ToIndex(links, k))
      last == {k \in DOMAIN links : /\ goes(k) \in Inputs /\ links[k].from \in there
                                    /\ \A j \in k + 1..Len(links) : goes(j) # goes(k)}
  IN [i \in {goes(k) : k \in last} |-> links[CHOOSE k \in last : goes(k) = i].from]

\* What is replaced is put aside, with its wires, and Houdini makes the data's nodes, or fails to;
\* it may leave one out.
Make ==
  /\ pc = "prepared"
  /\ \E out \in SUBSET DOMAIN plan :
       LET gone == IF call.mode = "replace" THEN DOMAIN call.data \intersect nodes ELSE {}
           kept == [m \in {Moved(n, gone) : n \in nodes} |->
                      LET f == feeds[CHOOSE n \in nodes : Moved(n, gone) = m] IN
                      [i \in DOMAIN f |-> Moved(f[i], gone)]]
           made == DOMAIN plan \ out
       IN /\ Cardinality(out) <= 1
          /\ nodes' = DOMAIN kept \union made
          /\ feeds' = [n \in made |-> Wired(plan[n], nodes')] @@ kept
          /\ aside' = [n \in gone |-> Temp(n)]
  /\ pc' = "made"
  /\ UNCHANGED <<notes, was, call, renamed, plan, pressed>>

\* Houdini refuses to make the network, or to rewire or delete what it replaces.
Raise ==
  /\ pc \in {"prepared", "pressed"}
  /\ pc' = "raised"
  /\ UNCHANGED <<nodes, notes, feeds, was, call, renamed, plan, aside, pressed>>

\* _verify_level: each entry is a node, has the parms it names, and each link feeds its input.
Verified ==
  \A n \in DOMAIN plan :
    /\ n \in nodes
    /\ n \notin {NewName(renamed, m) : m \in call.odd}
    /\ \A i \in DOMAIN plan[n] :
         LET to == Index(ToIndex(plan[n], i)) IN
         to \in DOMAIN feeds[n] /\ feeds[n][to] = plan[n][i].from

\* The callbacks run after all is wired and before what was replaced goes; one may fail.
Press ==
  /\ pc = "made"
  /\ IF ~Verified THEN pc' = "unverified" /\ UNCHANGED pressed
     ELSE \/ pressed' = PressPlan(call.press, renamed) /\ pc' = "pressed"
          \/ call.press # {} /\ pc' = "failed" /\ UNCHANGED pressed
  /\ UNCHANGED <<nodes, notes, feeds, was, call, renamed, plan, aside>>

\* A wire from a replaced node to a child outside of data goes to the new node.
Follows(n) == n \notin DOMAIN call.data

\* What was replaced goes, and its wires with it.
Replace ==
  /\ pc = "pressed"
  /\ LET left == nodes \ {aside[n] : n \in DOMAIN aside}
         source(f, i) == {n \in DOMAIN aside : aside[n] = f[i]} IN
     /\ nodes' = left
     /\ feeds' = [n \in left |->
                    LET f == feeds[n] IN
                    [i \in {j \in DOMAIN f : source(f, j) = {} \/ Follows(n)} |->
                       IF source(f, i) = {} THEN f[i] ELSE CHOOSE m \in source(f, i) : TRUE]]
  /\ pc' = "done"
  /\ UNCHANGED <<notes, was, call, renamed, plan, aside, pressed>>

\* No network has loops: Houdini refuses to make them.
NoLoop(data) ==
  \A n \in DOMAIN data : \A i \in DOMAIN data[n] :
    data[n][i].from # n /\ ~(data[n][i].from \in DOMAIN data
                            /\ \E j \in DOMAIN data[data[n][i].from] : data[data[n][i].from][j].from = n)

\* Entries of one and two nodes.
Datas ==
  LET some == {<<>>} \union {<<l>> : l \in Links}
      more == some \union {<<l, k>> : l \in Links, k \in {m \in Links : m.from = d0}}
  IN {data \in UNION {{(x :> l) : l \in more} : x \in {a0, b0}} \union
               UNION {{(x[1] :> l) @@ (x[2] :> k) : l \in more, k \in some} : x \in {<<a0, b0>>, <<b0, a0>>, <<a1, a0>>}} :
        NoLoop(data)}

Next ==
  \/ /\ pc = "idle"
     /\ \E data \in Datas, mode \in Modes, press \in {{}, {a0}, {a1}} :
          \E odd \in {{}, DOMAIN data \intersect {a0}} : Prepare(data, mode, press, odd)
  \/ Make \/ Raise \/ Press \/ Replace

Spec == Init /\ [][Next]_vars

-----------------------------------------------------------------------------

TypeOK ==
  /\ pc \in {"idle", "refused", "prepared", "made", "pressed", "raised", "unverified",
           "failed", "done"}
  /\ DOMAIN feeds = nodes
  /\ pressed \subseteq nodes

Built(n) == NewName(renamed, n)

\* The network has the data's nodes, each of its own, wired as data says: to each other by their
\* names in data, whatever they are built under, and to other children by theirs
\* (network.py:952).
DataIsBuilt ==
  pc = "done" =>
    /\ nodes = (was \ DOMAIN aside) \union {Built(n) : n \in DOMAIN call.data}
    /\ \A n \in DOMAIN call.data, m \in DOMAIN call.data : Built(n) = Built(m) => n = m
    /\ \A n \in DOMAIN call.data : \A i \in DOMAIN call.data[n] :
         LET link == call.data[n][i] IN
         feeds[Built(n)][Index(ToIndex(call.data[n], i))] =
           IF link.from \in DOMAIN call.data THEN Built(link.from) ELSE link.from

\* A build takes nothing of what was there: only a replaced node goes, and what it fed is fed by
\* the node that has its name (tx.py:1304).
RestIsKept ==
  pc = "done" =>
    /\ call.mode # "replace" => was \subseteq nodes /\ DOMAIN aside = {}
    /\ \A n \in was \ DOMAIN call.data : n = c0 /\ a0 \in was => feeds[n] = (0 :> a0)

\* A press runs in nodes of this build only (network.py:871).
PressIsOwn == pressed \subseteq {Built(n) : n \in IF call = None THEN {} ELSE DOMAIN call.data}

\* Two links of an entry go to one input.
Doubled(links) == \E i, j \in DOMAIN links : i # j /\ Index(ToIndex(links, i)) = Index(ToIndex(links, j))

\* The verification gives up only a build that is not what data says: a node that Houdini left out,
\* a parm or an input name that the type has not, or two links to one input.  What is renamed or
\* put aside never makes it take a good build for a bad one (network.py:780).
GoodIsKept ==
  pc = "unverified" =>
    \/ \E n \in DOMAIN call.data : Built(n) \notin nodes \/ n \in call.odd \/ Doubled(call.data[n])
    \/ \E n \in DOMAIN call.data : \E i \in DOMAIN call.data[n] : Index(call.data[n][i].to) = Missing

BuildIsMeant == DataIsBuilt /\ RestIsKept /\ PressIsOwn /\ GoodIsKept
=============================================================================
