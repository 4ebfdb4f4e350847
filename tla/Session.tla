------------------------------- MODULE Session -------------------------------
(***************************************************************************)
(* A user's Houdini with HocusPocus in it: how the package gets into its   *)
(* pref dirs (Installs), what the bridge makes of its start (Startup), how *)
(* the host lives in it (Lifecycle) and what becomes of its dialogs while  *)
(* calls run (Dialogs).  The four share no state.                          *)
(***************************************************************************)
EXTENDS Naturals, FiniteSets

CONSTANTS
  None, Dirs, Versions, MaxCommands,   \* Installs
  Titles, Grace, MaxTicks,             \* Startup
  Requests, MaxStarts,                 \* Lifecycle
  Calls, n1, n2, MaxLoads              \* Dialogs

ASSUME SessionAssumption ==
  /\ None \notin Versions \cup Titles \cup Calls \cup {"dev", "failed", "disabled", "starting"}
  /\ "dev" \notin Versions
  /\ MaxCommands \in Nat /\ Grace \in Nat /\ MaxTicks \in Nat /\ MaxStarts \in Nat /\ MaxLoads \in Nat

VARIABLES
  json, copies, in_record, held, command, failed, in_given, torn, strays,
  houdini, dialog, st_host, st_record, old, away, hidden, st_pc, watch, ticks, st_up, looked,
  ui, gone, cur, lc_made, main, parts, entry, queue, drain, event, lc_kind, lc_to, lc_pc, lc_dirty,
  flag, missed, foreign, read, late, lost,
  attr, hard, saved, installed, depth, running, nested, steps, dl_pc, refused, began, raised,
  generation, result, theirs, reached, dl_loaded

In == INSTANCE Installs WITH record <- in_record, given <- in_given
St == INSTANCE Startup WITH host <- st_host, record <- st_record, pc <- st_pc, up <- st_up
Lc == INSTANCE Lifecycle WITH
        made <- lc_made, kind <- lc_kind, to <- lc_to, pc <- lc_pc, dirty <- lc_dirty, MaxHosts <- MaxStarts
Dl == INSTANCE Dialogs WITH pc <- dl_pc, loaded <- dl_loaded

SessionSpec == In!Spec /\ St!Spec /\ Lc!Spec /\ Dl!Spec

-----------------------------------------------------------------------------

\* An install is whole and can be found again, and a launch tells how its Houdini ended or why it
\* did not start (cli.py, bridge/launch.py, bridge/startup.py).
InstallIsFound == In!PackageIsWhole /\ In!LeftIsFound /\ St!VerdictIsTrue

\* A host starts and stops as a whole, a quit loses no edits but those that it was told to, and
\* the user's dialogs are the user's again after each call, which tells of those that it refused
\* (host/runtime.py, host/__init__.py, host/modal.py).
HoudiniIsTheUsers == Lc!HostIsWhole /\ Lc!QuitLosesNothing /\ Dl!NoDialogIsLost
=============================================================================
