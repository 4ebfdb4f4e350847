----------------------------- MODULE TypeIndex -----------------------------
(* The index of node types (tools/types.py): rows are made once and again    *)
(* after Houdini told of an asset library's change, or, where it cannot be   *)
(* asked to, after the number of types changed.  node_type_search folds the  *)
(* versions of a type into the current one; node_type_info resolves a name   *)
(* in Houdini's own tables.                                                  *)
EXTENDS Naturals, FiniteSets

CONSTANTS
  MaxChanges,   \* bound on changes of the table
  None

Categories == {"Sop", "Lop"}
Numbers == 0..2                      \* 0: a name without a version
Types == Categories \X Numbers       \* all have one base name
Labels == {"x", "y"}

VARIABLES
  table,      \* the types that Houdini has
  label, hidden,
  rows,       \* the index: what it has of each type; None before it is made
  dirty, count,
  callback,   \* "not" installed yet, "ok" or "failed"
  last,       \* the last answer
  stale,      \* ghost: types that changed without an event since the index was made
  changes

vars == <<table, label, hidden, rows, dirty, count, callback, last, stale, changes>>

Init ==
  /\ table \in {{<<"Sop", 0>>, <<"Sop", 1>>}, {<<"Sop", 1>>, <<"Lop", 0>>}, {<<"Sop", 0>>, <<"Lop", 0>>, <<"Lop", 2>>}}
  /\ label \in [Types -> Labels] /\ \A t \in Types : t[1] = "Lop" \/ t[2] = 2 => label[t] = "x"
  /\ hidden \in {{}, {<<"Sop", 0>>}, {<<"Sop", 1>>}, {<<"Lop", 2>>}}
  /\ rows = None /\ dirty = TRUE /\ count = None /\ callback = "not"
  /\ last = None /\ stale = {} /\ changes = 0

-----------------------------------------------------------------------------
(* Houdini's tables. *)

\* The first of a type's namespaceOrder: its highest version.
Head(cat, types) ==
  CHOOSE t \in types : t[1] = cat /\ \A u \in types : u[1] = cat => u[2] <= t[2]

Change(new, labels, told) ==
  /\ changes < MaxChanges
  /\ table' = new /\ label' = labels
  /\ dirty' = (dirty \/ (told /\ callback = "ok"))
  /\ stale' = IF told /\ callback = "ok" THEN stale
              ELSE stale \union {t \in Types : label[t] # labels[t]} \union (new \ table) \union (table \ new)
  /\ last' = None /\ changes' = changes + 1
  /\ UNCHANGED <<hidden, rows, count, callback>>

\* A library is installed or uninstalled: an event.
Installed(t) == t \notin table /\ Change(table \union {t}, label, TRUE)
Uninstalled(t) == t \in table /\ table # {t} /\ Change(table \ {t}, label, TRUE)

\* A definition gets another label, by its save: none of the events that are asked for.
Relabelled(t) ==
  /\ t \in table
  /\ \E l \in Labels \ {label[t]} : Change(table, [label EXCEPT ![t] = l], FALSE)

-----------------------------------------------------------------------------
(* get_index *)

BuildRows == [t \in table |-> [label |-> label[t], current |-> Head(t[1], table), hidden |-> t \in hidden]]

\* Mutant: an index that was made once is kept.
IsStaleNot(n) == rows = None
IsStale(n) == rows = None \/ dirty \/ n # count

\* The callback is installed by the first call; without one the types are counted.
GetIndex ==
  \E ok \in IF callback = "not" THEN {"ok", "failed"} ELSE {callback} :
    LET n == IF ok = "ok" THEN count ELSE Cardinality(table) IN
    /\ callback' = ok
    /\ IF IsStale(n)
       THEN rows' = BuildRows /\ count' = n /\ dirty' = FALSE /\ stale' = {}
       ELSE UNCHANGED <<rows, count, dirty, stale>>

Shown(r, wide) == wide \/ ~r.hidden

\* The row that t is folded into: that of its current version, if this is shown.
Fold(t, index, wide) ==
  LET head == index[t].current IN
  IF head \in DOMAIN index /\ Shown(index[head], wide) THEN head ELSE t

\* The rows that match.
Search(q, cat, wide, current) ==
  /\ GetIndex
  /\ LET found == {t \in DOMAIN rows' : /\ cat \in {None, t[1]}
                                        /\ Shown(rows'[t], wide)
                                        /\ rows'[t].label = q}
     IN last' = [q |-> q, cat |-> cat, wide |-> wide, current |-> current,
                 rows |-> IF current THEN {Fold(t, rows', wide) : t \in found} ELSE found]
  /\ UNCHANGED <<table, label, hidden, changes>>

-----------------------------------------------------------------------------
(* resolve_type *)

\* A name with a version is that type; another is the one that Houdini prefers.
Preferred(cat, v) ==
  IF <<cat, v>> \notin table THEN None
  ELSE IF v # 0 THEN <<cat, v>> ELSE Head(cat, table)

Resolve(cat, v) ==
  /\ LET found == {Preferred(c, v) : c \in IF cat = None THEN Categories ELSE {cat}} \ {None} IN
     last' = [name |-> v, cat |-> cat,
              type |-> IF Cardinality(found) = 1 THEN CHOOSE t \in found : TRUE ELSE None,
              many |-> Cardinality(found) > 1]
  /\ UNCHANGED <<table, label, hidden, rows, dirty, count, callback, stale, changes>>

\* One answer between two changes (a bound).
Next ==
  \/ \E t \in Types : Installed(t) \/ Uninstalled(t) \/ Relabelled(t)
  \/ last = None /\ \E q \in Labels, cat \in Categories \union {None}, wide \in BOOLEAN, current \in BOOLEAN :
       Search(q, cat, wide, current)
  \/ last = None /\ \E cat \in Categories \union {None}, v \in Numbers : Resolve(cat, v)

Spec == Init /\ [][Next]_vars

-----------------------------------------------------------------------------

TypeOK ==
  /\ table \subseteq Types /\ callback \in {"not", "ok", "failed"}
  /\ rows # None => DOMAIN rows \subseteq Types

Searched == last # None /\ "rows" \in DOMAIN last

\* A search finds each type that matches, by its own row or by that of its current version, and
\* nothing that Houdini no longer has, or hides (types.py:676).  Excepted is what changed without
\* an event: labels, and tables of the same size where no callback could be installed.
SearchIsTrue ==
  Searched /\ stale = {} =>
    /\ \A t \in table :
         label[t] = last.q /\ last.cat \in {None, t[1]} /\ (last.wide \/ t \notin hidden) =>
           t \in last.rows \/ (last.current /\ Head(t[1], table) \in last.rows)
    /\ \A t \in last.rows : t \in table /\ (t \in hidden => last.wide)
    /\ last.current => \A t \in last.rows, u \in last.rows :
         t[1] = u[1] /\ Head(t[1], table) \notin hidden => t = u

\* A search after a change that Houdini told of, or that changed the number of types, sees it
\* (types.py:424).
IndexIsNew ==
  Searched =>
    /\ callback = "ok" => DOMAIN rows = table
    /\ callback = "failed" => Cardinality(DOMAIN rows) = Cardinality(table)

\* What node_type_info describes is what the name says: the version that it has, else the one that
\* Houdini prefers; a name in several categories is not guessed (types.py:787).
ResolvedIsMeant ==
  last # None /\ ~Searched =>
    /\ last.type # None => last.type \in table /\ last.cat \in {None, last.type[1]}
    /\ last.type # None => last.type[2] = last.name \/ (last.name = 0 /\ last.type = Head(last.type[1], table))
    /\ last.many => last.type = None
    /\ last.cat # None /\ <<last.cat, last.name>> \in table => last.type # None

TypesAreTrue == SearchIsTrue /\ IndexIsNew /\ ResolvedIsMeant
=============================================================================
