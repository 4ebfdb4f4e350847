-------------------------------- MODULE Spares --------------------------------
(***************************************************************************)
(* The parm interface of a node (host/tools/spare.py): a spec of templates *)
(* to remove, change and add is planned without changing anything, applied *)
(* to the node's template group in that order, and taken back when a later *)
(* operation of its call fails.                                            *)
(*                                                                         *)
(* A group is the folder of each template in it, Top for none; the order   *)
(* within a folder is left out.  Of a template's attributes there are left *)
(* whether they are well-formed and the parm that its condition names.     *)
(***************************************************************************)
EXTENDS Naturals, Sequences, FiniteSets, SequencesExt, Functions, TLC

CONSTANTS
  p,          \* a parm of the node's type
  a, b,       \* spare parms
  f,          \* a spare folder
  n, hp_new,  \* parms to add
  new,        \* a folder to make, by the label new: it gets the name hp_new
  Top, None

Own == {p}
Templates == {p, a, b, f, n, hp_new}

VARIABLES
  spec,      \* the request: remove, change, add
  group,     \* the folder of each template of the node
  valued,    \* the parms whose value is not their default
  before,    \* the group and the values when the call began
  stage      \* asked, planned, refused, applied, failed, back

vars == <<spec, group, valued, before, stage>>

-----------------------------------------------------------------------------
(* Requests *)

Nowhere == [at |-> "end", anchor |-> None]
Placements == {Nowhere} \cup {[at |-> "next", anchor |-> x] : x \in Templates}
                \cup {[at |-> "folder", anchor |-> x] : x \in {f, new}}

Removes == {<<>>, <<a>>, <<f>>, <<p>>, <<a, f>>, <<f, a>>}
Changes == {<<>>} \cup {<<[name |-> x, place |-> to, well |-> TRUE]>> : x \in {p, a, n}, to \in Placements}
             \cup {<<[name |-> f, place |-> to, well |-> TRUE]>> : to \in {q \in Placements : q.at # "folder" \/ q.anchor # f}}
             \cup {<<[name |-> a, place |-> Nowhere, well |-> FALSE]>>}
Adds == {<<>>} \cup {<<[name |-> x, place |-> to, names |-> c, well |-> TRUE]>> :
                       x \in {a, n, hp_new}, to \in Placements, c \in {None, a, b, n}}
          \cup {<<[name |-> n, place |-> Nowhere, names |-> None, well |-> w],
                  [name |-> x, place |-> [at |-> "next", anchor |-> n], names |-> n, well |-> TRUE]>> :
                  x \in {n, hp_new}, w \in BOOLEAN}

Init ==
  /\ spec \in [remove : Removes, change : Changes, add : Adds]
  /\ group \in {[x \in {p, a, b, f} |-> IF x = b \/ (x = a /\ inside) THEN f ELSE Top] : inside \in BOOLEAN}
  /\ valued = {p, a, b}
  /\ before = [group |-> group, valued |-> valued]
  /\ stage = "asked"

-----------------------------------------------------------------------------
(* Planning *)

\* Interface.resolve: the template is there, and it is not the type's.
Editable(x) == x \in DOMAIN group \ Own

Removed == ToSet(spec.remove)
Present == DOMAIN group \ Removed
Added(i) == {spec.add[k].name : k \in 1 .. i}

\* Mutant: an anchor that is removed by the same spec is let through.
AnchorsToAll(place, names) == place.at = "next" => place.anchor \in names \cup Removed
\* _check_anchor.
Anchors(place, names) == place.at = "next" => place.anchor \in names

PlanRemove == \A x \in Removed : Editable(x)
PlanChange ==
  \A i \in 1 .. Len(spec.change) :
    LET entry == spec.change[i] IN
    /\ Editable(entry.name) /\ entry.name \notin Removed
    /\ Anchors(entry.place, Present)
\* _set_attrs.
Settable == \A i \in 1 .. Len(spec.change) : spec.change[i].well
PlanAdd ==
  \A i \in 1 .. Len(spec.add) :
    LET entry == spec.add[i] IN
    /\ entry.name \notin Present \cup Added(i - 1)
    /\ Anchors(entry.place, Present \cup Added(i - 1))
\* _new_template.
Makeable == \A i \in 1 .. Len(spec.add) : spec.add[i].well
\* What the conditions name is there once the spec is applied.
PlanConditions ==
  \A i \in 1 .. Len(spec.add) :
    spec.add[i].names \in Present \cup Added(Len(spec.add)) \cup {None}

Plan ==
  /\ stage = "asked"
  /\ stage' = IF /\ PlanRemove /\ PlanChange /\ Settable
                 /\ PlanAdd /\ Makeable /\ PlanConditions
              THEN "planned" ELSE "refused"
  /\ UNCHANGED <<spec, group, valued, before>>

-----------------------------------------------------------------------------
(* Applying.  An operation on a group gives None when Houdini raises.      *)

\* A folder with what it holds; folders do not nest here but for a moved one.
Inside(g, x) == {x} \cup {y \in DOMAIN g : g[y] = x \/ (g[y] # Top /\ g[g[y]] = x)}
Drop(g, x) == IF x \in DOMAIN g THEN Restrict(g, DOMAIN g \ Inside(g, x)) ELSE None

\* _place, _ensure_folder: a folder that is missing is made, by the name of its label, and no
\* two templates of a group have one name.
Clash(g, x) == (x = hp_new /\ new \in DOMAIN g) \/ (x = new /\ hp_new \in DOMAIN g)
Place(g, x, place) ==
  IF Clash(g, x) THEN None
  ELSE CASE place.at = "end" -> (x :> Top) @@ g
         [] place.at = "next" -> IF place.anchor \in DOMAIN g THEN (x :> g[place.anchor]) @@ g ELSE None
         [] place.at = "folder" -> IF Clash((x :> Top) @@ g, place.anchor) THEN None
                                   ELSE (x :> place.anchor) @@ (IF place.anchor \in DOMAIN g THEN g ELSE (place.anchor :> Top) @@ g)

\* A change without a placement replaces the template where it is; a folder is moved with what
\* it holds.
Move(g, entry) ==
  LET x == entry.name IN
  IF x \notin DOMAIN g THEN None
  ELSE IF entry.place.at = "end" THEN g
  ELSE LET placed == Place(Drop(g, x), x, entry.place) IN
       IF placed = None THEN None ELSE placed @@ Restrict(g, Inside(g, x))

\* apply_to_group: removes, then changes, then adds.
ApplyToGroup ==
  LET removed == FoldLeft(LAMBDA g, x : IF g = None THEN g ELSE Drop(g, x), group, spec.remove)
      changed == FoldLeft(LAMBDA g, entry : IF g = None THEN g ELSE Move(g, entry), removed, spec.change) IN
  FoldLeft(LAMBDA g, entry : IF g = None THEN g ELSE Place(g, entry.name, entry.place), changed, spec.add)

\* apply_spare_parms: a parm that stays keeps its value.  What raises does so before the node
\* has the group.
Apply ==
  /\ stage = "planned"
  /\ IF ApplyToGroup = None THEN stage' = "failed" /\ UNCHANGED <<group, valued>>
     ELSE stage' = "applied" /\ group' = ApplyToGroup /\ valued' = valued \cap DOMAIN ApplyToGroup
  /\ UNCHANGED <<spec, before>>

\* The values of the parms that were removed by name.
Saved == before.valued \cap Removed

\* restore, when a later operation fails.
Restore ==
  /\ stage = "applied" /\ stage' = "back"
  /\ group' = before.group
  /\ valued' = valued \cup Saved
  /\ UNCHANGED <<spec, before>>

Next == Plan \/ Apply \/ Restore
Spec == Init /\ [][Next]_vars

-----------------------------------------------------------------------------
(* Properties *)

Holds(x) == Inside(before.group, x) \ {x}

\* What a plan does not look at: what a folder that goes or moves holds, a template placed next
\* to itself, the name of a folder that has to be made.
Lost == UNION {Holds(x) : x \in Removed}
Anchor(entry) == IF entry.place.at = "next" THEN {entry.place.anchor} ELSE {}
Moved == {i \in 1 .. Len(spec.change) : spec.change[i].place.at # "end"}
Tangled ==
  \/ Lost \cap Removed # {}
  \/ \E i \in 1 .. Len(spec.change) :
       ({spec.change[i].name} \cup Anchor(spec.change[i])) \cap Lost # {}
  \/ \E i \in Moved : Anchor(spec.change[i]) \cap Inside(before.group, spec.change[i].name) # {}
  \/ \E i \in 1 .. Len(spec.add) : Anchor(spec.add[i]) \cap Lost # {}
  \/ /\ hp_new \in Added(Len(spec.add))
     /\ \E entry \in ToSet(spec.add) \cup ToSet(spec.change) : entry.place.at = "folder" /\ entry.place.anchor = new

\* A spec that was planned applies, unless it is tangled; it leaves exactly the templates it says,
\* the type's among them, and what a condition names is there unless it went with its folder.
\* When it is taken back the node has the templates and the values that it had, but for values of
\* what a removed folder held.
PlanIsDone ==
  /\ stage = "failed" => Tangled /\ group = before.group
  /\ stage = "applied" =>
       /\ DOMAIN group \ {f, new} = ((DOMAIN before.group \ (Removed \cup Lost)) \cup Added(Len(spec.add))) \ {f}
       /\ Own \subseteq DOMAIN group
       /\ \A entry \in ToSet(spec.add) : entry.names \in DOMAIN group \cup Lost \cup {None}
  /\ stage = "back" => group = before.group /\ before.valued \ valued \subseteq Lost
=============================================================================
