----------------------------- MODULE ParmValues -----------------------------
(* Writing one component (parms.py, _apply): a JSON value becomes what       *)
(* the parm takes, or refused; it is set as the parm's value, as a key, or   *)
(* at a frame beside what drives the parm; keys, expressions and patches of  *)
(* text are the other ways to write it.  Conversions come first, so that a   *)
(* refused item has changed nothing.                                         *)
EXTENDS TLC, Naturals, Sequences, FiniteSets, SequencesExt

CONSTANTS
  MaxWrites,   \* bound on the items
  None

Frames == 1..2
Expr == "expr"          \* a key that is an expression; it evaluates to 1
Numbers == {"0", "1", "1.5", "5"}
Strings == {"a", "A", "b", "B"}
Lower(s) == CASE s = "A" -> "a" [] s = "B" -> "b" [] OTHER -> s
Values == Numbers \union {"true"} \union Strings
Letters == {"x", "y"}
Texts == UNION {[1..n -> Letters] : n \in 2..3}

VARIABLES
  kind,     \* the parm's: "float", "int", "toggle", "menu", "string"
  strict,   \* a number parm has a strict maximum, 1
  labels,   \* a menu's labels; its tokens are a and b
  locked,   \* hou.Parm.isLocked
  base,     \* its value
  text,     \* of a string parm that holds code
  keys,     \* its keyframes; one that is an expression, at 0, drives it at all frames
  now,      \* the playbar's frame
  last,     \* ghost: the last item, what it asked for at which frames, and its result
  writes

vars == <<kind, strict, labels, locked, base, text, keys, now, last, writes>>

Tokens == <<"a", "b">>
NoKeys == <<>>
Nothing == [op |-> "none", ok |-> TRUE, noted |-> FALSE, asked |-> NoKeys, raw |-> None, find |-> <<>>,
            before |-> <<None, NoKeys, <<>>>>]

Init ==
  /\ kind \in {"float", "int", "toggle", "menu", "string"}
  /\ strict \in IF kind \in {"float", "int"} THEN BOOLEAN ELSE {FALSE}
  /\ labels \in IF kind = "menu" THEN {<<x, y>> : x \in Strings, y \in Strings} ELSE {<<"A", "B">>}
  /\ locked \in IF kind = "float" THEN BOOLEAN ELSE {FALSE}
  /\ base = IF kind \in {"menu", "string"} THEN "a" ELSE "0"
  /\ text \in IF kind = "string" THEN Texts ELSE {<<>>}
  /\ keys \in {NoKeys} \union (IF kind = "string" THEN {} ELSE IF kind = "menu" THEN {(0 :> Expr)}
                               ELSE {(0 :> Expr), (1 :> "0" @@ 2 :> "1")})
  /\ now = 1
  /\ last = Nothing /\ writes = 0

-----------------------------------------------------------------------------
(* _coerce: the stored value and whether a note says that it is not the one  *)
(* that was given, or a refusal.                                             *)

Refused == [ok |-> FALSE, v |-> None, note |-> FALSE]
Stored(v) == [ok |-> TRUE, v |-> v, note |-> FALSE]
Noted(v) == [ok |-> TRUE, v |-> v, note |-> TRUE]

FirstIn(seq, Test(_)) == CHOOSE i \in DOMAIN seq : Test(seq[i]) /\ \A j \in 1..i - 1 : ~Test(seq[j])

\* A token, else a label, else a label or a token in another case, else an index.
ResolveMenu(v) ==
  CASE v \in ToSet(Tokens) -> Stored(v)
    [] v \notin ToSet(Tokens) /\ v \in ToSet(labels) -> Noted(Tokens[FirstIn(labels, LAMBDA s : s = v)])
    [] v \notin ToSet(Tokens) \union ToSet(labels) /\ v \in Strings ->
         IF \E i \in DOMAIN labels : Lower(labels[i]) = Lower(v)
         THEN Noted(Tokens[FirstIn(labels, LAMBDA s : Lower(s) = Lower(v))])
         ELSE IF Lower(v) \in ToSet(Tokens) THEN Noted(Lower(v)) ELSE Refused
    [] v = "0" -> Noted(Tokens[1])
    [] v = "1" -> Noted(Tokens[2])
    [] OTHER -> Refused

InRange(v) == strict => v \notin {"1.5", "5"}

\* forKey: string parms are not keyed by value; a menu's key is its index.
Coerce(v, forKey) ==
  CASE kind = "menu" -> ResolveMenu(v)
    [] kind = "string" -> IF v = "true" \/ forKey THEN Refused ELSE Stored(v)
    [] kind = "toggle" -> IF v \in {"0", "1"} THEN Stored(v) ELSE IF v = "true" THEN Stored("1") ELSE Refused
    [] kind = "int" -> IF v \in Numbers \ {"1.5"} /\ InRange(v) THEN Stored(v) ELSE Refused
    [] OTHER -> IF v \in Numbers /\ InRange(v) THEN Stored(v) ELSE Refused

-----------------------------------------------------------------------------
(* The parm, as Houdini evaluates it. *)

Pure == DOMAIN keys = {0}
At(k) == IF k = Expr THEN "1" ELSE k
Eval(b, ks, f) ==
  IF DOMAIN ks = {} THEN b
  ELSE LET upTo == {g \in DOMAIN ks : g <= f}
           g == IF upTo = {} THEN CHOOSE g \in DOMAIN ks : \A h \in DOMAIN ks : g <= h
                             ELSE CHOOSE g \in upTo : \A h \in upTo : h <= g
       IN At(ks[g])
WithKey(ks, f, v) == [g \in DOMAIN ks \union {f} |-> IF g = f THEN v ELSE ks[g]]

\* hou.Parm.set at a frame: the value, the key there, or nothing that shows under an expression.
SetAt(f, v) ==
  CASE DOMAIN keys = {} -> <<v, keys>>
    [] Pure -> <<v, keys>>
    [] OTHER -> <<base, WithKey(keys, f, v)>>

\* The item's result; asked is what the parm should now be at which frames.
Write(op, result, asked, noted, raw) ==
  /\ base' = result[1] /\ keys' = result[2]
  /\ last' = [op |-> op, ok |-> TRUE, noted |-> noted, asked |-> asked, raw |-> raw, find |-> <<>>,
              before |-> <<base, keys, text>>]
  /\ writes' = writes + 1
  /\ UNCHANGED <<kind, strict, labels, locked, text, now>>

Refuse(op, result) ==
  /\ base' = result[1] /\ keys' = result[2]
  /\ last' = [Nothing EXCEPT !.op = op, !.ok = FALSE, !.before = <<base, keys, text>>]
  /\ writes' = writes + 1
  /\ UNCHANGED <<kind, strict, labels, locked, text, now>>

\* A value, with what the item does to the animation: take it away, add to it, or leave it.  A
\* locked component that holds the value already is passed over.
SetValue(v, mode, f) ==
  /\ LET c == Coerce(v, mode = "key")
         at == IF f = None THEN now ELSE f
         result == CASE mode = "replace" -> <<c.v, NoKeys>>
                     [] mode = "key" -> <<base, WithKey(keys, at, c.v)>>
                     [] OTHER -> SetAt(at, c.v)
         overridden == /\ mode = "keep" /\ Eval(result[1], result[2], at) # c.v
                       /\ v \in Numbers /\ kind # "menu"
     IN IF ~c.ok \/ (locked /\ ~(mode # "key" /\ Eval(base, keys, now) = c.v))
        THEN Refuse("value", <<base, keys>>)
        ELSE IF locked THEN Write("value", <<base, keys>>, (at :> c.v), FALSE, v)
        ELSE Write(mode, result, (at :> c.v), overridden, v)

\* Mutant: the animation goes before the keys were looked at.
CleanFirst(plan) == <<base, NoKeys>>

\* What is left of the parm when one of the keys is refused.
Clean(plan) == <<base, keys>>

\* keyframe and keyframes: all their values convert before the old animation goes; one keyframe
\* takes away an expression only.
SetKeys(plan, mode) ==
  /\ LET ok == \A f \in DOMAIN plan : Coerce(plan[f], TRUE).ok
         old == IF mode = "replace" /\ (DOMAIN plan = Frames \/ Pure) THEN NoKeys ELSE keys
         new == [g \in DOMAIN old \union DOMAIN plan |->
                   IF g \in DOMAIN plan THEN Coerce(plan[g], TRUE).v ELSE old[g]]
     IN IF ok THEN Write("keys", <<base, new>>, [f \in DOMAIN plan |-> Coerce(plan[f], TRUE).v], FALSE, None)
              ELSE Refuse("keys", Clean(plan))

SetExpression(mode) ==
  /\ writes < MaxWrites /\ kind # "string" /\ ~locked
  /\ Write("expression", CASE mode = "replace" -> <<base, (0 :> Expr)>>
                           [] mode = "key" -> <<base, WithKey(keys, now, Expr)>>
                           [] OTHER -> <<base, IF DOMAIN keys = {} THEN (0 :> Expr) ELSE WithKey(keys, now, Expr)>>,
           (IF mode = "keep" THEN NoKeys ELSE (now :> "1")), FALSE, None)

Revert ==
  /\ writes < MaxWrites /\ ~locked
  /\ Write("revert", <<IF kind \in {"menu", "string"} THEN "a" ELSE "0", NoKeys>>,
           NoKeys, FALSE, None)

Scrub ==
  /\ now' = 3 - now /\ last' = Nothing
  /\ UNCHANGED <<kind, strict, labels, locked, base, text, keys, writes>>

-----------------------------------------------------------------------------
(* patch: text that occurs once is replaced. *)

OccursAt(t, find, i) == i + Len(find) - 1 <= Len(t) /\ SubSeq(t, i, i + Len(find) - 1) = find
Places(t, find) == {i \in 1..Len(t) : OccursAt(t, find, i)}

\* str.count and str.replace, which go on after each occurrence.
Counted(t, find) ==
  {i \in Places(t, find) :
     ~\E j \in Places(t, find) : j < i /\ i < j + Len(find) /\
        ~\E k \in Places(t, find) : k < j /\ j < k + Len(find)}
Spliced(t, find, new, i) == SubSeq(t, 1, i - 1) \o new \o SubSeq(t, i + Len(find), Len(t))

Unique(t, find) == Cardinality(Counted(t, find)) = 1

Edited(t, edit) ==
  Spliced(t, edit.find, edit.new,
          CHOOSE i \in Places(t, edit.find) : \A j \in Places(t, edit.find) : i <= j)

Edits == [find : {<<x>> : x \in Letters} \union {<<x, y>> : x \in Letters, y \in Letters},
          new : {<<>>, <<"x">>}]

\* One edit after the other on a copy; the text is set when all of them found their place.
Patch(edits) ==
  /\ LET step[i \in 0..Len(edits)] ==
           IF i = 0 THEN [t |-> text, ok |-> TRUE]
           ELSE IF step[i - 1].ok /\ Unique(step[i - 1].t, edits[i].find)
           THEN [t |-> Edited(step[i - 1].t, edits[i]), ok |-> TRUE]
           ELSE [t |-> step[i - 1].t, ok |-> FALSE]
         end == step[Len(edits)]
     IN /\ text' = IF end.ok THEN end.t ELSE text
        /\ last' = [Nothing EXCEPT !.op = "patch", !.ok = end.ok, !.before = <<base, keys, text>>,
                                   !.find = edits[1].find]
  /\ writes' = writes + 1
  /\ UNCHANGED <<kind, strict, labels, locked, base, keys, now>>

Next ==
  \/ writes < MaxWrites /\ \E v \in Values, mode \in {"replace", "key", "keep"}, f \in Frames \union {None} : SetValue(v, mode, f)
  \/ writes < MaxWrites /\ kind # "string" /\ ~locked /\ \E plan \in UNION {[s -> {"0", "1", "5", "a"}] : s \in {{1}, Frames}}, mode \in {"replace", "keep"} :
       SetKeys(plan, mode)
  \/ \E mode \in {"replace", "key", "keep"} : SetExpression(mode)
  \/ Revert \/ Scrub
  \/ writes < MaxWrites /\ kind = "string" /\ \E d \in Edits : Patch(<<d>>) \/ \E e \in Edits : Patch(<<d, e>>)

Spec == Init /\ [][Next]_vars
-----------------------------------------------------------------------------

TypeOK ==
  /\ kind \in {"float", "int", "toggle", "menu", "string"}
  /\ base \in Values /\ DOMAIN keys \subseteq {0} \union Frames
  /\ now \in Frames /\ writes \in 0..MaxWrites

\* An item that is refused has changed nothing: all of its values convert before one is written,
\* also those of later keys and edits (parms.py:1274, :1577).
RefusedChangesNothing == ~last.ok => last.before = <<base, keys, text>>

\* What was set is what the parm has at the frame that the item names, or a note says that it is
\* not (parms.py:1112).  Excepted are a value that is no number, beside an expression, for which the
\* note is not looked for, and a locked component, which is compared at the playbar's frame.
SetIsSeen ==
  last.ok /\ ~last.noted => \A f \in DOMAIN last.asked :
    \/ Eval(base, keys, f) = last.asked[f]
    \/ last.op = "keep" /\ (last.raw \notin Numbers \/ kind = "menu")
    \/ locked /\ f # now

\* A menu takes a value as an item only if that is its token, label or index; a token is never taken
\* for another item's label, and a label never for one in another case (parms.py:976).
MenuIsMeant ==
  kind = "menu" => \A v \in Values :
    LET c == ResolveMenu(v)
        named == {i \in DOMAIN Tokens : Lower(v) \in {Tokens[i], Lower(labels[i])} \/ v = <<"0", "1">>[i]}
    IN /\ c.ok <=> named # {}
       /\ c.ok => \E i \in named : c.v = Tokens[i]
       /\ v \in ToSet(Tokens) => c.v = v
       /\ v \notin ToSet(Tokens) /\ v \in ToSet(labels) => \E i \in DOMAIN labels : labels[i] = v /\ c.v = Tokens[i]

\* A text is patched where the find occurs and nowhere else that does not overlap it (parms.py:1577).
PatchIsExact ==
  last.op = "patch" /\ last.ok =>
    LET places == Places(last.before[3], last.find) IN
    places # {} /\ \A i \in places, j \in places : i - j < Len(last.find) /\ j - i < Len(last.find)

SetIsMeant == SetIsSeen /\ MenuIsMeant /\ PatchIsExact /\ RefusedChangesNothing
=============================================================================
