------------------------------ MODULE Network -------------------------------
(***************************************************************************)
(* One network of Houdini's, as the transaction engine (host/tx.py) drives *)
(* it: what the calls of hou it makes do to the nodes, their names, wires, *)
(* parms, flags and the selection.  A node stands for its session id: it   *)
(* never comes back once it is destroyed.                                  *)
(***************************************************************************)
EXTENDS Naturals, FiniteSets

CONSTANTS
  Node,   \* the nodes there are and those still to be created
  Name,   \* the names a caller gives
  Asset,  \* the nodes that are digital assets
  None    \* no node, no name

ASSUME NetworkAssumption ==
  /\ IsFiniteSet(Node)
  /\ Asset \subseteq Node
  /\ None \notin Node \cup Name
  /\ Node \cap Name = {}

\* What a node holds and a step may set: a parm, its appearance (colour, comment,
\* position, bypass), whether its comment shows (the flag DisplayComment), and the edits
\* made inside an unlocked asset.
Attr == {"parm", "look", "badge", "inner"}
Value == {0, 1}

\* unique_name: a name nobody has.  Renaming a node out of the way gives it the name
\* that stands for the node itself.
Aside(n) == n

Networks ==
  [alive : SUBSET Node, name : [Node -> Name \cup Node \cup {None}],
   src : [Node -> Node \cup {None}], attr : [Node -> [Attr -> Value]],
   display : Node \cup {None}, sel : Node \cup {None}, locked : SUBSET Node]

Blank == [a \in Attr |-> 0]

Taken(w, x) == \E n \in w.alive : w.name[n] = x
Free(w) == {x \in Name : ~Taken(w, x)}
Consumers(w, n) == {d \in w.alive : w.src[d] = n}

\* setInput refuses a wire that closes a loop: none of ds may feed s, so that there are nodes
\* which hold s and all that feeds it, and none of ds.
CanFeed(w, ds, s) ==
  \E up \in SUBSET Node :
    /\ s \in up /\ up \cap ds = {}
    /\ \A m \in up : w.src[m] \in up \cup {None}
CanWire(w, d, s) == s # None => CanFeed(w, {d}, s)

-----------------------------------------------------------------------------
(* The calls of hou. *)

\* createNode: the first node of a network takes the display flag.
Created(w, n, x) ==
  [w EXCEPT !.alive = @ \cup {n}, !.name[n] = x,
            !.display = IF @ = None THEN n ELSE @]

\* The display flag of a destroyed node goes to what fed it, or to another node.
Heir(w, n) ==
  IF w.src[n] # None THEN w.src[n]
  ELSE CHOOSE m \in w.alive \cup {None} : IF w.alive = {n} THEN m = None ELSE m \in w.alive \ {n}

\* destroy: input 0 is spliced through to the outputs.
Destroyed(w, n) ==
  [alive |-> w.alive \ {n},
   name |-> [w.name EXCEPT ![n] = None],
   src |-> [m \in Node |-> IF m = n THEN None
                           ELSE IF w.src[m] = n THEN w.src[n] ELSE w.src[m]],
   attr |-> [w.attr EXCEPT ![n] = Blank],
   display |-> IF w.display = n THEN Heir(w, n) ELSE w.display,
   sel |-> IF w.sel = n THEN None ELSE w.sel,
   locked |-> w.locked \ {n}]

Named(w, n, x) == [w EXCEPT !.name[n] = x]
Wired(w, d, s) == [w EXCEPT !.src[d] = s]
Valued(w, n, a, v) == [w EXCEPT !.attr[n][a] = v]
Shown(w, n) == [w EXCEPT !.display = n]
Selected(w, n) == [w EXCEPT !.sel = n]

\* matchCurrentDefinition drops the edits inside the asset; allowEditingOfContents.
Matched(w, n) == [w EXCEPT !.locked = @ \cup {n}, !.attr[n]["inner"] = 0]
Unlocked(w, n) == [w EXCEPT !.locked = @ \ {n}]
=============================================================================
