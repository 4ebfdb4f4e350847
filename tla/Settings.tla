------------------------------ MODULE Settings ------------------------------
(* The settings that the bridge and the host both read (host/config.py,     *)
(* bridge/config.py): one hocuspocus.toml in Houdini's pref dir, overridden *)
(* by the environment.  Each process finds the file its own way, reads it   *)
(* when it starts and converts the values with its own code.                *)
EXTENDS Naturals, Sequences, FiniteSets, SequencesExt

CONSTANTS
  Dirs,       \* pref dirs
  None

VARIABLES
  key,        \* the setting: "profile", "max_response_bytes" or "default_timeout_s"
  toml,       \* what each pref dir's file says of it: a raw value, "blank", "absent" or "nofile"
  env,        \* HOCUSPOCUS_<KEY>, "absent" when it is not set
  prefVar,    \* HOUDINI_USER_PREF_DIR, or None
  recorded,   \* the pref dirs of install.json, in order
  home,       \* the dir that Houdini uses
  ran,        \* the setting that each process runs with, None before it starts
  edited      \* ghost: the file changed after a process read it

vars == <<key, toml, env, prefVar, recorded, home, ran, edited>>

\* Raw values by what the two parsers tell apart.  For numbers: valid ones (v1, v2), valid but
\* quoted in the file, positive but under 1024, with a fraction, not positive, not a number.  For
\* profiles: two names, a removed name, an unknown one.  Either may be blank.
Numbers == {"v1", "v2", "quoted", "low", "float", "zero", "text"}
Profiles == {"core", "full", "compat", "unknown"}
RawValues == IF key = "profile" THEN Profiles ELSE Numbers
Platform == SetToSeq(Dirs)     \* default_pref_dirs, in order
Default == IF key = "profile" THEN "core" ELSE "default"

Init ==
  /\ key \in {"profile", "max_response_bytes", "default_timeout_s"}
  /\ toml \in [Dirs -> RawValues \union {"blank", "absent", "nofile"}]
  /\ env \in RawValues \union {"absent", "blank"}
  /\ prefVar \in Dirs \union {None}
  /\ recorded \in {<<>>} \union {<<d>> : d \in Dirs}
  /\ home \in IF prefVar = None THEN Dirs ELSE {prefVar}
  /\ ran = [p \in {"host", "bridge"} |-> None]
  /\ edited = FALSE

\* resolve() of profiles.py, for both: a blank name is the default profile.
Profile(raw) ==
  CASE raw = "compat" -> "full" [] raw \in {"blank", "unknown"} -> "core" [] OTHER -> raw

-----------------------------------------------------------------------------
(* The host. *)

\* _coerce and _validate accept: a number in the file is not quoted, and a size is an integer of
\* 1024 or more.  A blank profile is accepted.
Accepts(raw, fromEnv) ==
  IF key = "profile" THEN raw # "unknown"
  ELSE \/ raw \in {"v1", "v2"}
       \/ raw = "quoted" /\ fromEnv
       \/ raw \in {"low", "float"} /\ key = "default_timeout_s"

Value(raw) == IF key = "profile" THEN Profile(raw) ELSE IF raw = "quoted" THEN "v1" ELSE raw

\* _apply: a value that is not accepted leaves what was there.
Apply(value, raw, fromEnv) ==
  IF raw \notin {"absent", "nofile"} /\ Accepts(raw, fromEnv) THEN Value(raw) ELSE value

\* load_config: the file of the dir that Houdini uses, then the environment.
HostLoad == Apply(Apply(Default, toml[home], FALSE), env, TRUE)

-----------------------------------------------------------------------------
(* The bridge. *)

\* pref_dir_candidates: the variable alone, or the recorded dirs and then the platform's.
Candidates == IF prefVar # None THEN <<prefVar>> ELSE recorded \o Platform

\* find_config_file: the first candidate that has a file.
HasFile == SelectSeq(Candidates, LAMBDA d : toml[d] # "nofile")
FileValue == IF HasFile = <<>> THEN "absent" ELSE toml[Head(HasFile)]

\* Mutant: the file overrides the environment.
RawFile == IF FileValue = "absent" /\ env \notin {"absent", "blank"} THEN env ELSE FileValue

\* BridgeConfig.load: an environment variable that is not blank takes the file's place, valid or not.
FromEnv == env \notin {"absent", "blank"}
Raw == IF FromEnv THEN env ELSE FileValue

\* _positive takes int() of a number: a size with a fraction loses it in the file and is no number
\* in the environment.
Usable ==
  \/ Raw \in {"v1", "v2", "low", "quoted"}
  \/ Raw = "float" /\ (key = "default_timeout_s" \/ ~FromEnv)

\* _profile and _positive: what cannot be used is the default.
BridgeLoad ==
  CASE Raw = "absent" -> Default
    [] Raw # "absent" /\ key = "profile" -> Profile(Raw)
    [] Raw # "absent" /\ key # "profile" -> IF Usable THEN Value(Raw) ELSE Default

-----------------------------------------------------------------------------

HostStarts ==
  /\ ran["host"] = None
  /\ ran' = [ran EXCEPT !["host"] = HostLoad]
  /\ UNCHANGED <<key, toml, env, prefVar, recorded, home, edited>>

BridgeStarts ==
  /\ ran["bridge"] = None
  /\ ran' = [ran EXCEPT !["bridge"] = BridgeLoad]
  /\ UNCHANGED <<key, toml, env, prefVar, recorded, home, edited>>

\* The user edits a file while one of them runs: it is read again at the next start only.
Edit ==
  /\ ~edited
  /\ \E p \in DOMAIN ran : ran[p] # None
  /\ \E p \in DOMAIN ran : ran[p] = None
  /\ \E d \in Dirs, raw \in RawValues : toml' = [toml EXCEPT ![d] = raw]
  /\ edited' = TRUE
  /\ UNCHANGED <<key, env, prefVar, recorded, home, ran>>

Next == HostStarts \/ BridgeStarts \/ Edit

Spec == Init /\ [][Next]_vars

-----------------------------------------------------------------------------

TypeOK ==
  /\ key \in {"profile", "max_response_bytes", "default_timeout_s"}
  /\ home \in Dirs /\ edited \in BOOLEAN
  /\ DOMAIN ran = {"host", "bridge"}

\* Where the two are known to differ.  Houdini uses another dir than the first that has a file;
\* the file quotes a number, or the size is under 1024 or has a fraction, which only the bridge
\* takes; the environment has a bad value, for which the host keeps the file's and the bridge takes
\* the default; HOCUSPOCUS_PROFILE is set but blank, which is core in the host whatever the file
\* says, and which the bridge passes over.
Parts ==
  \/ HasFile # <<>> /\ Head(HasFile) # home
  \/ toml[home] = "quoted"
  \/ key = "max_response_bytes" /\ {"low", "float"} \intersect {toml[home], env} # {}
  \/ env \in {"zero", "text", "unknown"}
  \/ key = "profile" /\ env = "blank" /\ toml[home] \in {"full", "compat"}

\* One toml serves both processes and the environment wins (docs/BIBLE.md:483): both run the same
\* setting, apart from the cases of Parts and a file that was edited between their starts.
SettingsAgree ==
  (\A p \in DOMAIN ran : ran[p] # None) /\ ~edited /\ ~Parts => ran["host"] = ran["bridge"]

\* And a Houdini whose dir install-houdini recorded, with a file in it, is read by the bridge too.
RecordedIsRead ==
  prefVar = None /\ recorded = <<home>> /\ toml[home] # "nofile" => Head(HasFile) = home

SettingsAreShared == SettingsAgree /\ RecordedIsRead
=============================================================================
