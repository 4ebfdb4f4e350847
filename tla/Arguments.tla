------------------------------ MODULE Arguments ------------------------------
(***************************************************************************)
(* The arguments of a tool call in the bridge (bridge/validate.py): they   *)
(* are checked against the tool's schema, integral floats become integers  *)
(* where it says integer, and a call that is refused may be told its       *)
(* corrected form.                                                         *)
(*                                                                         *)
(* A value is a record of its kind; a number is given in halves, and a     *)
(* schema has every keyword, Free when it says nothing.                     *)
(***************************************************************************)
EXTENDS Integers, Sequences, FiniteSets, SequencesExt, Functions, TLC

CONSTANTS
  None,
  Closed,    \* additionalProperties: false
  MaxItems   \* bound: the items of an array

VARIABLES
  schema,
  sent,    \* the arguments as the agent wrote them
  args,    \* as the bridge has them
  stage,   \* sent, valid, refused, passed, hinted
  call,    \* the top-level arguments of a call that is refused, in order
  hint     \* the corrected call

vars == <<schema, sent, args, stage, call, hint>>

-----------------------------------------------------------------------------
(* Values and schemas *)

Number(kind, halves) == [kind |-> kind, n |-> halves]
Scalars == {Number("int", 2), Number("float", 2), Number("float", 1), Number("int", 4),
            [kind |-> "boolean", n |-> 2], [kind |-> "null", n |-> 0]}
Array(items) == [kind |-> "array", items |-> items]
Object(members) == [kind |-> "object", members |-> members]
Members(keys, values) == UNION {[ks -> values] : ks \in SUBSET keys}
Values == Scalars \cup {Array(s) : s \in BoundedSeq(Scalars, MaxItems)}
            \cup {Object(m) : m \in Members({"a", "b"}, Scalars)}

Free == [types |-> {}, enum |-> {}, low |-> None, items |-> None, prefix |-> <<>>, unique |-> FALSE,
        least |-> 0, props |-> <<>>, required |-> {}, extra |-> None, anyOf |-> <<>>, oneOf |-> <<>>]
Of(types) == [Free EXCEPT !.types = types]
Leaves == {Of({"integer"}), Of({"integer", "number"}), Of({"string", "number", "boolean"}),
           [Of({"integer"}) EXCEPT !.low = 3], [Free EXCEPT !.enum = {Number("int", 2)}]}
Schemas ==
  Leaves
  \cup {[Of({"array"}) EXCEPT !.items = leaf, !.unique = u, !.least = 1] : leaf \in Leaves, u \in BOOLEAN}
  \cup {[Of({"array"}) EXCEPT !.prefix = <<leaf>>, !.items = Of({"integer"})] : leaf \in Leaves}
  \cup {[Of({"object"}) EXCEPT !.props = [a |-> leaf], !.required = {"a"}, !.extra = extra] :
          leaf \in Leaves, extra \in {None, Closed} \cup Leaves}
  \cup {[Free EXCEPT !.anyOf = <<leaf, other>>] : leaf, other \in Leaves}
  \cup {[Free EXCEPT !.oneOf = <<leaf, other>>] : leaf, other \in Leaves}

\* Arguments of inspect, with its old names, and of a tool that takes a batch of items.
\* items may be one item's object, with the fields of an item.
Forms == {"string", "single", "list", "object"}
ItemKeys == {"path", "value"}
Keys == {"target", "path", "root", "what", "paths", "items", "value", "stop"}
Wordings == {c \in UNION {[1 .. n -> Keys \X Forms] : n \in 1 .. 3} :
            /\ IsInjective([i \in DOMAIN c |-> c[i][1]])
            /\ \A i \in DOMAIN c : c[i][1] \in {"what", "value", "stop"} => c[i][2] = "string"
            /\ \A i \in DOMAIN c : c[i][2] = "object" => c[i][1] = "items"}

Init ==
  /\ \/ schema \in Schemas /\ sent \in Values /\ stage = "sent" /\ call = <<>>
     \/ schema = None /\ sent = None /\ stage = "refused" /\ call \in Wordings
  /\ args = sent /\ hint = None

-----------------------------------------------------------------------------
(* Checking *)

Whole(value) == value.n % 2 = 0
\* _type_of: an integral float is an integer.
TypeOf(value) ==
  CASE value.kind = "int" -> "integer"
    [] value.kind = "float" -> IF Whole(value) THEN "integer" ELSE "number"
    [] OTHER -> value.kind
Matches(value, type) == TypeOf(value) = type \/ (type = "number" /\ TypeOf(value) = "integer")

Numeric(value) == value.kind \in {"int", "float"}
\* _json_equal, of scalars: TRUE is not 1, and 1.0 is.
Equal(a, b) == (a.kind = b.kind \/ (Numeric(a) /\ Numeric(b))) /\ a.n = b.n

\* The keys of uniqueItems are the items' JSON texts: 1 and 1.0 differ.
Repeats(items) == ~IsInjective(items)

\* What a schema says of a member or an item; None for a property that has no schema.
OfMember(s, key) ==
  IF key \in DOMAIN s.props THEN s.props[key] ELSE IF s.extra = Closed THEN None ELSE s.extra
OfItem(s, i) == IF i <= Len(s.prefix) THEN s.prefix[i] ELSE s.items

RECURSIVE Valid(_, _)
\* check: no violation.
Valid(value, s) ==
  /\ s.types # {} => \E type \in s.types : Matches(value, type)
  /\ s.enum # {} => value.kind \notin {"array", "object"} /\ \E m \in s.enum : Equal(value, m)
  /\ value.kind = "object" =>
       /\ s.required \subseteq DOMAIN value.members
       /\ s.extra = Closed => DOMAIN value.members \subseteq DOMAIN s.props
       /\ \A key \in DOMAIN value.members :
            OfMember(s, key) # None => Valid(value.members[key], OfMember(s, key))
  /\ value.kind = "array" =>
       /\ Len(value.items) >= s.least
       /\ \A i \in 1 .. Len(value.items) : OfItem(s, i) # None => Valid(value.items[i], OfItem(s, i))
       /\ s.unique => ~Repeats(value.items)
  /\ (Numeric(value) /\ s.low # None) => value.n >= s.low
  /\ s.anyOf # <<>> => \E i \in 1 .. Len(s.anyOf) : Valid(value, s.anyOf[i])
  /\ s.oneOf # <<>> => Cardinality({i \in 1 .. Len(s.oneOf) : Valid(value, s.oneOf[i])}) = 1

Validate ==
  /\ stage = "sent"
  /\ stage' = IF Valid(args, schema) THEN "valid" ELSE "refused"
  /\ UNCHANGED <<schema, sent, args, call, hint>>

-----------------------------------------------------------------------------
(* Coercing *)

\* Mutant: every number that is an integer becomes one.
BecomesIntAlways(value, s) == Numeric(value)
\* A number's schema may allow both, and then a float stays one.
BecomesInt(value, s) ==
  value.kind = "float" /\ Whole(value) /\ "integer" \in s.types /\ "number" \notin s.types

RECURSIVE Walk(_, _)
\* _Coercer.walk: through members and items, never through anyOf and oneOf.
Walk(value, s) ==
  IF s = None THEN value
  ELSE IF Numeric(value) THEN (IF BecomesInt(value, s) THEN [value EXCEPT !.kind = "int"] ELSE value)
  ELSE IF value.kind = "object"
       THEN Object([key \in DOMAIN value.members |-> Walk(value.members[key], OfMember(s, key))])
  ELSE IF value.kind = "array" THEN Array([i \in 1 .. Len(value.items) |-> Walk(value.items[i], OfItem(s, i))])
  ELSE value

\* coerce_integers: on arguments that validated.
Coerce ==
  /\ stage = "valid"
  /\ args' = Walk(args, schema) /\ stage' = "passed"
  /\ UNCHANGED <<schema, sent, call, hint>>

-----------------------------------------------------------------------------
(* Hints *)

Given == {call[i][1] : i \in 1 .. Len(call)}
\* ARG_RENAMES of inspect; paths as one string is the same mistake.
Old(key, form) == key \in {"path", "root"} \/ (key = "paths" /\ form = "string")

Taken(fixed) == "target" \in Given \cup DOMAIN fixed

\* rename_hint: one argument after the other; a list of one item becomes the item.
Renamed ==
  FoldLeft(LAMBDA fixed, arg :
             IF ~Old(arg[1], arg[2]) THEN fixed @@ (arg[1] :> arg[2])
             ELSE IF Taken(fixed) THEN fixed
             ELSE ("target" :> IF arg[2] = "single" THEN "string" ELSE arg[2]) @@ fixed,
           <<>>, call)
RenameHint ==
  /\ \E i \in 1 .. Len(call) : Old(call[i][1], call[i][2])
  /\ Given \subseteq {"target", "path", "root", "what", "paths"}
  /\ hint' = Renamed

\* shape_hint: the fields of an item, given flat, or as the item instead of a list of it.
ShapeHint ==
  LET flat == Given \ {"items", "stop"} IN
  \/ /\ <<"items", "object">> \in Range(call)
     /\ hint' = [items |-> ItemKeys, outer |-> Given \ {"items"}]
  \/ /\ "items" \notin Given /\ flat # {} /\ flat \subseteq ItemKeys
     /\ hint' = [items |-> flat, outer |-> Given \ flat]

Hint ==
  /\ stage = "refused" /\ call # <<>>
  /\ ShapeHint \/ RenameHint   \* of a tool that takes items, and of inspect
  /\ stage' = "hinted"
  /\ UNCHANGED <<schema, sent, args, call>>

Next == Validate \/ Coerce \/ Hint
Spec == Init /\ [][Next]_vars

-----------------------------------------------------------------------------
(* Properties *)

\* The scalars of a value with what its schema says of each.
Pairs(value, s) ==
  CASE value.kind = "object" -> {<<value.members[key], OfMember(s, key)>> : key \in DOMAIN value.members}
    [] value.kind = "array" -> {<<value.items[i], OfItem(s, i)>> : i \in 1 .. Len(value.items)}
    [] OTHER -> {<<value, s>>}
Alike(a, b) ==
  CASE a.kind = "object" -> \A key \in DOMAIN a.members : Equal(a.members[key], b.members[key])
    [] a.kind = "array" -> \A i \in 1 .. Len(a.items) : Equal(a.items[i], b.items[i])
    [] OTHER -> Equal(a, b)

\* The host gets what the agent sent, number for number, in a form that the schema still allows
\* (but for 1 and 1.0 in a list of unique items) and in which what must be an integer is one, as
\* the host's isinstance checks want it (but below anyOf and oneOf); and a float whose schema
\* allows it stays a float.
HostAgrees ==
  stage = "passed" =>
    /\ Alike(sent, args)
    /\ ~schema.unique => Valid(args, schema)
    /\ \A pair \in Pairs(args, schema) :
         pair[2] # None /\ pair[2].types = {"integer"} => pair[1].kind = "int"
    /\ \A pair \in Pairs(sent, schema) :
         pair[2] = None \/ "integer" \notin pair[2].types => pair \in Pairs(args, schema)

\* A corrected call says what the agent's said: its own target, else the first path it gave under
\* an old name, every other argument as it was, and the fields of an item in one item.
HintIsCall ==
  stage = "hinted" =>
    IF "items" \in DOMAIN hint
    THEN /\ hint.items \cup hint.outer = (Given \ {"items"}) \cup (IF "items" \in Given THEN ItemKeys ELSE {})
         /\ "stop" \notin hint.items
         /\ "items" \notin Given => hint.items \cap hint.outer = {}
    ELSE /\ \A i \in 1 .. Len(call) : Old(call[i][1], call[i][2]) \/ hint[call[i][1]] = call[i][2]
         /\ {"path", "root"} \cap DOMAIN hint = {} /\ "target" \in DOMAIN hint
         /\ "target" \notin Given =>
              LET first == CHOOSE i \in 1 .. Len(call) :
                             /\ Old(call[i][1], call[i][2])
                             /\ \A k \in 1 .. i - 1 : ~Old(call[k][1], call[k][2]) IN
              hint.target = IF call[first][2] = "single" THEN "string" ELSE call[first][2]
=============================================================================
