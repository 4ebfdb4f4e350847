-------------------------------- MODULE Assets --------------------------------
(***************************************************************************)
(* The hda tool (host/tools/hda.py): digital assets, their definitions in  *)
(* library files, and their instances in the scene.                        *)
(*                                                                         *)
(* An instance that is locked shows its type's definition; an unlocked one *)
(* has contents of its own, which are nowhere else until they are saved.   *)
(* A failed call takes its changes of the scene back, not those of a file. *)
(* Bodies and interfaces are numbered in the order in which they are made. *)
(***************************************************************************)
EXTENDS Naturals, Sequences, FiniteSets, SequencesExt

CONSTANTS
  Nodes, Libs,
  Types,      \* the versions of the asset's type name
  Writable,   \* the libraries whose extension the licence writes
  MaxMade,    \* bound: the bodies and interfaces that are made
  Subnet, None

VARIABLES
  disk,      \* the definitions in each library file
  loaded,    \* the loaded libraries, the preferred one first
  embedded,  \* the copies that Houdini keeps in the hip
  node,      \* the type of each node, and its own contents
  made,      \* counter: the bodies and interfaces made
  dropped    \* history: those that somebody asked to replace or to discard

vars == <<disk, loaded, embedded, node, made, dropped>>

Nothing == [body |-> 0, face |-> 0]

Init ==
  /\ \E lib \in Libs, t \in Types :   \* a file from elsewhere, which Houdini has not loaded
       disk = [l \in Libs |-> [u \in Types |-> IF l = lib /\ u = t THEN [body |-> 1, face |-> 2] ELSE Nothing]]
  /\ loaded = <<>> /\ embedded = [t \in Types |-> Nothing]
  /\ node = [n \in Nodes |-> [type |-> Subnet, unlocked |-> TRUE, body |-> 0]]
  /\ made = 2 /\ dropped = {}

-----------------------------------------------------------------------------
(* Definitions *)

Homes(t) == {i \in 1 .. Len(loaded) : disk[loaded[i]][t] # Nothing}
\* libraryFilePath of the current definition of a type.
Library(t) ==
  LET homes == Homes(t) IN
  IF homes # {} THEN loaded[CHOOSE i \in homes : \A k \in homes : i <= k]
  ELSE IF embedded[t] # Nothing THEN "Embedded" ELSE None
Definition(t) == LET lib == Library(t) IN IF lib \in Libs THEN disk[lib][t] ELSE embedded[t]
Exists(t) == Library(t) # None

Body(n) == IF node[n].unlocked THEN node[n].body ELSE Definition(node[n].type).body
Instances(t) == {n \in Nodes : node[n].type = t}
Load(lib) == IF lib \in ToSet(loaded) THEN loaded ELSE <<lib>> \o loaded

\* _library, _definition_library, check_licence_extension.
MayWrite(lib) == lib \in Writable \cup {"Embedded"}
SetDefinition(t, definition) ==
  IF Library(t) \in Libs
  THEN disk' = [disk EXCEPT ![Library(t)][t] = definition] /\ UNCHANGED embedded
  ELSE embedded' = [embedded EXCEPT ![t] = definition] /\ UNCHANGED disk
Parts(definition) == {definition.body, definition.face}

Kept == {Body(n) : n \in Nodes} \cup UNION {Parts(embedded[t]) : t \in Types}
          \cup UNION {Parts(disk[lib][t]) : lib \in Libs, t \in Types}
\* What somebody asked to replace or discard is dropped, unless it is elsewhere too.
Drop(parts) == dropped' = (dropped \cup parts) \ Kept'

-----------------------------------------------------------------------------
(* The agent's other edits *)

\* An edit inside of a subnet or an unlocked instance.
Edit(n) ==
  /\ node[n].unlocked /\ made < MaxMade
  /\ made' = made + 1
  /\ node' = [node EXCEPT ![n].body = made + 1]
  /\ UNCHANGED <<disk, loaded, embedded>>
  /\ Drop({node[n].body})

-----------------------------------------------------------------------------
(* The actions of hda.  A call that fails has done what Houdini does not   *)
(* undo: the library, and that it is loaded.                               *)

\* The name is looked up among the types of the loaded libraries only.
Collides(t) == Exists(t)

\* A definition goes to a file that may have one of that name, unseen, if it is not loaded:
\* nobody asked for that, and it is not prevented.
WriteNew(t, lib, definition) ==
  /\ ~Collides(t) /\ MayWrite(lib)
  /\ disk' = [disk EXCEPT ![lib][t] = definition]
  /\ loaded' = Load(lib)
  /\ UNCHANGED embedded
Overwritten(t, lib) == IF lib \in ToSet(loaded) THEN {} ELSE Parts(disk[lib][t])

Create(n, t, lib, fails) ==
  /\ node[n].type = Subnet /\ made < MaxMade
  /\ made' = made + 1   \* the interface: parms of the subnet, promoted spares, help
  /\ WriteNew(t, lib, [body |-> node[n].body, face |-> made + 1])
  /\ node' = IF fails THEN node ELSE [node EXCEPT ![n].type = t]
  /\ Drop(Overwritten(t, lib))

\* updateFromNode.
Saved(n) == Body(n)

\* save with a path; lock matches the instance once it is saved.
Save(n, lock, fails) ==
  LET t == node[n].type
      definition == [Definition(t) EXCEPT !.body = Saved(n)] IN
  /\ t # Subnet /\ MayWrite(Library(t))
  /\ SetDefinition(t, definition)
  /\ node' = IF lock /\ ~fails THEN [node EXCEPT ![n].unlocked = FALSE, ![n].body = 0] ELSE node
  /\ UNCHANGED <<loaded, made>>
  /\ Drop({Definition(t).body})

\* save with a name: the definition's interface, label, version, inputs and help.
SaveDefinition(t) ==
  /\ Exists(t) /\ MayWrite(Library(t)) /\ made < MaxMade
  /\ made' = made + 1
  /\ SetDefinition(t, [Definition(t) EXCEPT !.face = made + 1])
  /\ UNCHANGED <<loaded, node>>
  /\ Drop({Definition(t).face})

\* Mutant: changeNodeType takes the new definition's contents for every instance.
KeepsContentsNot(n) == FALSE
\* keep_network_contents = unlocked.
KeepsContents(n) == node[n].unlocked

Switch(targets, t) ==
  node' = [n \in Nodes |->
             IF n \notin targets THEN node[n]
             ELSE IF KeepsContents(n) THEN [node[n] EXCEPT !.type = t]
             ELSE [type |-> t, unlocked |-> FALSE, body |-> 0]]

\* version: the definition of a type becomes that of a new name too, in a given library or in
\* its own, and the instances asked for are switched to it.
Version(t, new, lib, targets, fails) ==
  /\ Exists(t) /\ new # t
  /\ targets \in {{}, Instances(t)} \cup {{n} : n \in Instances(t)}
  /\ WriteNew(new, lib, Definition(t))
  /\ IF fails THEN UNCHANGED node ELSE Switch(targets, new)
  /\ UNCHANGED made
  /\ Drop(Overwritten(new, lib))

Unlock(n) ==
  /\ node[n].type # Subnet
  /\ node' = [node EXCEPT ![n].unlocked = TRUE, ![n].body = Body(n)]
  /\ UNCHANGED <<disk, loaded, embedded, made, dropped>>

\* match: the instance's own contents give way to the definition's.
Match(n) ==
  /\ node[n].type # Subnet
  /\ node' = [node EXCEPT ![n].unlocked = FALSE, ![n].body = 0]
  /\ UNCHANGED <<disk, loaded, embedded, made>>
  /\ Drop({Body(n)})

\* install, and reload of a library that is not loaded.
Install(lib) ==
  /\ \E t \in Types : disk[lib][t] # Nothing
  /\ loaded' = Load(lib)
  /\ UNCHANGED <<disk, embedded, node, made, dropped>>

\* uninstall: instances fall back to another loaded definition, or to a copy in the hip.
Uninstall(lib) ==
  /\ lib \in ToSet(loaded)
  /\ loaded' = SelectSeq(loaded, LAMBDA l : l # lib)
  /\ embedded' = [t \in Types |->
       IF Library(t) = lib /\ Instances(t) # {} /\ embedded[t] = Nothing THEN disk[lib][t] ELSE embedded[t]]
  /\ UNCHANGED <<disk, node, made, dropped>>

Next ==
  \/ \E n \in Nodes : Edit(n) \/ Unlock(n) \/ Match(n)
  \/ \E n \in Nodes, fails \in BOOLEAN :
       \/ \E t \in Types, lib \in Libs : Create(n, t, lib, fails)
       \/ \E lock \in BOOLEAN : Save(n, lock, fails)
  \/ \E t \in Types : SaveDefinition(t)
  \/ \E t, new \in Types, lib \in Libs, targets \in SUBSET Nodes, fails \in BOOLEAN :
       Version(t, new, lib, targets, fails)
  \/ \E lib \in Libs : Install(lib) \/ Uninstall(lib)

Spec == Init /\ [][Next]_vars

-----------------------------------------------------------------------------
(* Properties *)

\* Whatever was made inside of an asset is in the scene or in a library until somebody replaces
\* it or asks for the definition instead (match): no create, version, switch, locking save or
\* failed call loses the edits of an unlocked instance or another definition, but for one in a
\* library that is not loaded.  And a library that the licence may not write stays as it was.
EditsSurvive ==
  /\ 1 .. made \subseteq Kept \cup dropped
  /\ \A lib \in Libs \ Writable, t \in Types : disk[lib][t] \in {Nothing, [body |-> 1, face |-> 2]}
=============================================================================
