------------------------------- MODULE Installs -------------------------------
(***************************************************************************)
(* The commands install-houdini and uninstall-houdini (cli.py): in each    *)
(* pref dir that a Houdini may use, a package JSON and, without --dev, a   *)
(* copy of the package that it points to, and a record of those pref dirs. *)
(*                                                                         *)
(* A command is interrupted between any two of its steps, and a Houdini    *)
(* that runs holds the files of its copy open.                             *)
(***************************************************************************)
EXTENDS Naturals, FiniteSets

CONSTANTS
  Dirs,         \* the pref dirs
  Versions,     \* the versions of the command
  None,
  MaxCommands   \* bound: the commands that are given

VARIABLES
  json,      \* where the package JSON of each pref dir points: a version's copy, the checkout, nowhere
  copies,    \* how much there is of each version's copy in each pref dir: no, part, whole
  record,    \* the pref dirs in install.json
  held,      \* the pref dirs from which a Houdini runs
  command,   \* what runs: what it does, where, how far it is
  failed,    \* whether an uninstall has left something
  given,     \* counter: the commands so far
  torn,      \* history: pref dirs whose last install was interrupted
  strays     \* history: pref dirs that no record lists, by an install that ended early or by a later one

vars == <<json, copies, record, held, command, failed, given, torn, strays>>

Idle == [does |-> "idle", version |-> None, todo |-> {}, at |-> None, step |-> "none", all |-> {}]

Init ==
  /\ json = [d \in Dirs |-> None] /\ copies = [d \in Dirs |-> [v \in Versions |-> "no"]]
  /\ record = {} /\ held = {} /\ command = Idle
  /\ failed = FALSE /\ given = 0 /\ torn = {} /\ strays = {}

-----------------------------------------------------------------------------
(* What a command finds *)

\* The environment, hython and the flag decide: pref_dir_candidates, install_targets.
Candidates == SUBSET Dirs \ {{}}

\* uninstall looks in the recorded pref dirs too.
Targets(candidates) == candidates \cup record

Something(d) == json[d] # None \/ \E v \in Versions : copies[d][v] # "no"

\* package_state, by the command of a version: what doctor and a Houdini make of a pref dir.
Status(d, version) ==
  CASE json[d] = None -> "missing"
    [] json[d] = "dev" -> "current"
    [] json[d] \in Versions /\ copies[d][json[d]] = "no" -> "no-python"
    [] OTHER -> IF json[d] = version THEN "current" ELSE "stale"

-----------------------------------------------------------------------------
(* install-houdini *)

Goes(step) == command' = [command EXCEPT !.step = step]
At(does, step) == command.does \in does /\ command.step = step

Start(does, version, targets) ==
  /\ command = Idle /\ given < MaxCommands
  /\ \E d \in targets :
       command' = [does |-> does, version |-> version, todo |-> targets \ {d}, at |-> d,
                   step |-> IF does = "uninstall" THEN "json" ELSE "clear", all |-> targets]
  /\ given' = given + 1 /\ failed' = FALSE

Install(version, targets) ==
  /\ Start(IF version = "dev" THEN "dev" ELSE "copy", version, targets)
  /\ strays' = strays \cup (targets \ record)   \* until the record lists them
  /\ UNCHANGED <<json, copies, record, held, torn>>

\* Each pref dir has a copy of its own, and it is installed alone.
Cleared == {command.at}

\* What removing the copies of a pref dir leaves: the files that a Houdini holds.
Left(d) == [v \in Versions |-> IF d \in held /\ copies[d][v] # "no" THEN "part" ELSE "no"]

\* copied_installs, _copy_package: the other versions go, in a dev install all.
Clear ==
  LET d == command.at IN
  /\ At({"copy", "dev"}, "clear")
  /\ copies' = [c \in Dirs |-> [v \in Versions |->
       IF c \in Cleared /\ v # command.version THEN Left(c)[v] ELSE copies[c][v]]]
  /\ Goes(IF command.does = "dev" THEN "write" ELSE "replace")
  /\ torn' = torn \cup {d}
  /\ UNCHANGED <<json, record, held, failed, given, strays>>

\* The version's own copy goes before it is copied again; one that is held ends the install.
Replace ==
  LET d == command.at IN
  /\ At({"copy"}, "replace")
  /\ copies' = [copies EXCEPT ![d][command.version] = "part"]
  /\ IF d \in held /\ copies[d][command.version] # "no" THEN command' = Idle ELSE Goes("copy")
  /\ UNCHANGED <<json, record, held, failed, given, torn, strays>>

Copy ==
  /\ At({"copy"}, "copy")
  /\ copies' = [copies EXCEPT ![command.at][command.version] = "whole"]
  /\ Goes("write")
  /\ UNCHANGED <<json, record, held, failed, given, torn, strays>>

\* The next pref dir, or the record.
Continue(first) ==
  IF command.todo = {} THEN Goes("record")
  ELSE \E d \in command.todo :
         command' = [command EXCEPT !.todo = @ \ {d}, !.at = d, !.step = first]

\* _write_atomic: the new package JSON replaces the old one at once.
WriteJson ==
  LET d == command.at IN
  /\ At({"copy", "dev"}, "write")
  /\ json' = [json EXCEPT ![d] = command.version]
  /\ torn' = torn \ {d}
  /\ Continue("clear")
  /\ UNCHANGED <<copies, record, held, failed, given, strays>>

\* write_install_state: the pref dirs of this install, of no earlier one; it may fail.
WriteRecord ==
  /\ At({"copy", "dev"}, "record")
  /\ \/ record' = command.all /\ strays' = {d \in Dirs \ command.all : Something(d)}
     \/ UNCHANGED <<record, strays>>
  /\ command' = Idle
  /\ UNCHANGED <<json, copies, held, failed, given, torn>>

-----------------------------------------------------------------------------
(* uninstall-houdini *)

Uninstall(candidates) ==
  /\ Start("uninstall", None, Targets(candidates))
  /\ UNCHANGED <<json, copies, record, held, torn, strays>>

\* _remove_from: the package JSON first, so that no Houdini starts from what is then removed.
RemoveJson ==
  /\ At({"uninstall"}, "json")
  /\ json' = [json EXCEPT ![command.at] = None]
  /\ Goes("tree")
  /\ UNCHANGED <<copies, record, held, failed, given, torn, strays>>

\* The copies; what a Houdini holds is left.
RemoveTree ==
  LET d == command.at
      left == Left(d) IN
  /\ At({"uninstall"}, "tree")
  /\ copies' = [copies EXCEPT ![d] = left]
  /\ failed' = (failed \/ \E v \in Versions : left[v] # "no")
  /\ strays' = IF \A v \in Versions : left[v] = "no" THEN strays \ {d} ELSE strays
  /\ Continue("json")
  /\ UNCHANGED <<json, record, held, given, torn>>

\* Mutant: the record goes whatever was left.
ForgetsAlways == TRUE
\* A record stays while it lists where the rest is.
Forgets == ~failed

\* _forget_install_state.
ForgetRecord ==
  /\ At({"uninstall"}, "record")
  /\ record' = IF Forgets THEN {} ELSE record
  /\ command' = Idle
  /\ UNCHANGED <<json, copies, held, failed, given, torn, strays>>

-----------------------------------------------------------------------------

\* The command is killed, or the disk is full.
Interrupted ==
  /\ command # Idle
  /\ command' = Idle
  /\ UNCHANGED <<json, copies, record, held, failed, given, torn, strays>>

\* A Houdini starts from a pref dir whose package it can load, and ends.
HoudiniStarts(d) ==
  /\ d \notin held /\ json[d] \in Versions /\ copies[d][json[d]] = "whole"
  /\ held' = held \cup {d}
  /\ UNCHANGED <<json, copies, record, command, failed, given, torn, strays>>
HoudiniEnds(d) ==
  /\ held' = held \ {d} /\ d \in held
  /\ UNCHANGED <<json, copies, record, command, failed, given, torn, strays>>

Next ==
  \/ \E targets \in Candidates :
       \/ \E version \in Versions \cup {"dev"} : Install(version, targets)
       \/ Uninstall(targets)
  \/ Clear \/ Replace \/ Copy \/ WriteJson \/ WriteRecord
  \/ RemoveJson \/ RemoveTree \/ ForgetRecord \/ Interrupted
  \/ \E d \in Dirs : HoudiniStarts(d) \/ HoudiniEnds(d)

Spec == Init /\ [][Next]_vars

-----------------------------------------------------------------------------
(* Properties *)

TypeOK ==
  /\ json \in [Dirs -> Versions \cup {"dev", None}]
  /\ copies \in [Dirs -> [Versions -> {"no", "part", "whole"}]]
  /\ record \subseteq Dirs /\ held \subseteq Dirs /\ torn \subseteq Dirs /\ strays \subseteq Dirs
  /\ command \in [does : {"idle", "copy", "dev", "uninstall"}, version : Versions \cup {"dev", None},
                 todo : SUBSET Dirs, at : Dirs \cup {None}, all : SUBSET Dirs,
                 step : {"none", "clear", "replace", "copy", "write", "record", "json", "tree"}]
  /\ failed \in BOOLEAN /\ given \in 0 .. MaxCommands

\* A package JSON points to a whole copy, or the checkout, also while another pref dir is
\* installed or removed and when an uninstall is interrupted: then doctor calls no part of a copy
\* current, and no Houdini loads one.  It is not so of a pref dir in which an install is at work
\* or was interrupted: the old copy goes before the new one is there.
PackageIsWhole ==
  \A d \in Dirs \ torn :
    /\ json[d] \in Versions => copies[d][json[d]] = "whole"
    /\ \A v \in Versions : Status(d, v) # "no-python"

\* What is left of an install is where the record, or an uninstall that looks there by itself,
\* finds it: an uninstall that fails or is interrupted can be given again.  A pref dir that an
\* interrupted install reached, and one that a later install did not name, are in no record.
LeftIsFound == \A d \in Dirs : Something(d) => d \in record \cup strays
=============================================================================
