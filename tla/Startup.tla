-------------------------------- MODULE Startup --------------------------------
(***************************************************************************)
(* The start of a GUI Houdini that the bridge launched, and the wait that  *)
(* says why its host has not registered (bridge/launch.py, startup.py,     *)
(* licence.py; host/__init__.py).                                          *)
(*                                                                         *)
(* The wait looks at the registry, the process, its windows and the        *)
(* startup record of its pid one after the other, while Houdini goes on;   *)
(* the clock ticks once per look.                                          *)
(***************************************************************************)
EXTENDS Naturals, FiniteSets

CONSTANTS
  Titles,    \* the titles of dialogs
  Grace,     \* the ticks for which a dialog may stay up
  MaxTicks,  \* bound: the ticks of a wait
  None

VARIABLES
  houdini,   \* how far the process is: splash, unlicensed, main, exited
  dialog,    \* the title of the dialog that it shows
  host,      \* its host: none, starting, running, failed, disabled
  record,    \* the phase in startup/<pid>.json
  old,       \* whether that file is of an earlier process that had the pid
  away,      \* the host's hocuspocus.toml names another state_dir than the one that the wait looks in
  hidden,    \* history: the host began, or was disabled, and no record where the wait looks says so
  pc,        \* the next look of the wait, or what it ended with
  watch,     \* what the wait has seen: the main window, a dialog, the record
  ticks,     \* the clock
  up,        \* history: the looks in a row that saw a dialog with the same title
  looked     \* history: whether the host had begun, whose record there was and whether it was hidden, at the last read

vars == <<houdini, dialog, host, record, old, away, hidden, pc, watch, ticks, up, looked>>
process == <<houdini, dialog, host, record, old, away, hidden>>

Looks == {"scan", "exit", "probe", "read", "windows", "deadline"}
Unseen == [main |-> FALSE, dialog |-> None, at |-> 0, record |-> None]

Init ==
  /\ houdini = "splash" /\ dialog = None /\ host = "none"
  /\ record \in {None, "failed", "disabled", "starting"} /\ old = (record # None)
  /\ away \in BOOLEAN /\ hidden = FALSE
  /\ pc = "scan" /\ watch = Unseen /\ ticks = 0 /\ up = 0
  /\ looked = [begun |-> FALSE, old |-> FALSE, hidden |-> FALSE]

-----------------------------------------------------------------------------
(* Houdini *)

Runs == houdini # "exited"

\* A script of the user's opens a dialog, which stops what Houdini does until it is closed.
Opens == /\ Runs /\ dialog = None /\ host # "starting" /\ dialog' \in Titles /\ UNCHANGED <<houdini, host, record, old, hidden>>
Closes == /\ dialog # None /\ dialog' = None /\ UNCHANGED <<houdini, host, record, old, hidden>>
Shows ==
  /\ houdini = "splash" /\ dialog = None
  /\ houdini' \in {"main", "unlicensed"}
  /\ UNCHANGED <<dialog, host, record, old, hidden>>
\* Without a licence it asks for one, by itself or in the License Administrator, and exits; it may crash.
Exits ==
  /\ Runs /\ houdini' = "exited" /\ dialog' = None
  /\ UNCHANGED <<host, record, old, hidden>>

\* _write_startup never raises: a record that cannot be written leaves what was there, and one
\* in the host's own state_dir is not where the wait looks.
Writes(phase) == record' = phase /\ old' = FALSE /\ UNCHANGED hidden
Unwritten == UNCHANGED <<record, old>>

\* autostart, once the main window is up: uiready.py.  A process that has the package of no
\* HocusPocus never gets here.
Autostart ==
  /\ houdini = "main" /\ dialog = None /\ host = "none"
  /\ host' \in {"starting", "disabled"}
  /\ \/ ~away /\ Writes(host')
     \/ Unwritten /\ hidden' = TRUE
  /\ UNCHANGED <<houdini, dialog>>

\* The package cannot be imported, or its configuration not be loaded: no state_dir is known
\* then but the environment's.
AutostartFails ==
  /\ houdini = "main" /\ dialog = None /\ host = "none"
  /\ host' = "failed"
  /\ \/ Writes("failed")
     \/ Unwritten /\ hidden' = TRUE
  /\ UNCHANGED <<houdini, dialog>>

\* start: the host registers before the record goes.
Starts ==
  /\ Runs /\ host = "starting"
  /\ host' = "running"
  /\ UNCHANGED <<houdini, dialog, record, old, hidden>>
Unlinks ==
  /\ Runs /\ host = "running" /\ ~away /\ record # None
  /\ record' = None
  /\ UNCHANGED <<houdini, dialog, host, old, hidden>>
StartFails ==
  /\ Runs /\ host = "starting"
  /\ host' = "failed"
  /\ \/ ~away /\ Writes("failed")
     \/ Unwritten /\ UNCHANGED hidden
  /\ UNCHANGED <<houdini, dialog>>

\* prune_stale: another Houdini that starts removes the records of pids that run no more.
Prune ==
  /\ ~Runs /\ record # None /\ record' = None
  /\ UNCHANGED <<houdini, dialog, host, old, hidden>>

\* What becomes of it after the wait is left out.
Houdini ==
  /\ pc \in Looks
  /\ \/ Opens \/ Closes \/ Shows \/ Exits \/ Autostart \/ AutostartFails
     \/ Starts \/ Unlinks \/ StartFails \/ Prune
  /\ UNCHANGED <<away, pc, watch, ticks, up, looked>>

-----------------------------------------------------------------------------
(* The wait *)

Ends(with) == pc' = with /\ UNCHANGED <<process, watch, ticks, up, looked>>

\* The registry that it scans is in the state dir, as the records are.
Scan ==
  /\ pc = "scan"
  /\ Ends(IF Runs /\ host = "running" /\ ~away THEN "launched" ELSE "exit")

\* proc.poll, _exit_error: a licence failure by its exit code or its log.
Exit ==
  /\ pc = "exit"
  /\ Ends(IF Runs THEN "probe" ELSE "exited")

\* gui_signal: the dialog that asks for a licence, or the License Administrator.  That Houdini,
\* which would only sit on its dialog, is terminated.
Probe ==
  /\ pc = "probe"
  /\ Ends(IF Runs /\ houdini = "unlicensed" THEN "licence" ELSE "read")

\* StartupWatch.poll: the record first.  One that cannot be read is none.
Read ==
  /\ pc = "read"
  /\ \E seen \in {record, None} :
       /\ watch' = [watch EXCEPT !.record = seen]
       /\ looked' = [begun |-> host # "none", old |-> old, hidden |-> hidden \/ seen # record]
       /\ pc' = CASE seen = "failed" -> "host_failed"
                  [] seen = "disabled" -> "autostart_disabled"
                  [] OTHER -> "windows"
  /\ UNCHANGED <<process, ticks, up>>

\* No dialog: the next one starts anew.
Forgotten == [watch EXCEPT !.main = @ \/ (Runs /\ houdini = "main"), !.dialog = None, !.at = 0]

\* classify: a title that is neither the splash's nor the main window's is a dialog's.
Windows ==
  /\ pc = "windows"
  /\ LET seen == Forgotten
         same == watch.dialog = dialog
         next == IF dialog = None THEN seen
                 ELSE [seen EXCEPT !.dialog = dialog, !.at = IF same THEN watch.at ELSE ticks] IN
     /\ watch' = next
     /\ up' = IF dialog = None THEN 0 ELSE IF same THEN up + 1 ELSE 1
     /\ pc' = IF dialog # None /\ ~next.main /\ ticks - next.at >= Grace THEN "dialog" ELSE "deadline"
  /\ UNCHANGED <<process, ticks, looked>>

\* Mutant: the main window before the record.
ReasonWindow ==
  IF watch.main THEN "no_autostart"
  ELSE IF watch.record = "starting" THEN "host_starting"
  ELSE IF watch.dialog # None THEN "may_wait" ELSE "may_start"

\* reason, of a wait that ran out.
Reason ==
  IF watch.record = "starting" THEN "host_starting"
  ELSE IF watch.dialog # None THEN "may_wait"
  ELSE IF watch.main THEN "no_autostart" ELSE "may_start"

Deadline ==
  /\ pc = "deadline"
  /\ \/ Ends(Reason)
     \/ /\ ticks < MaxTicks
        /\ ticks' = ticks + 1 /\ pc' = "scan"
        /\ UNCHANGED <<process, watch, up, looked>>

Next == Houdini \/ Scan \/ Exit \/ Probe \/ Read \/ Windows \/ Deadline
Spec == Init /\ [][Next]_vars

-----------------------------------------------------------------------------
(* Properties *)

Ended ==
  {"launched", "exited", "licence", "host_failed", "autostart_disabled", "dialog", "host_starting",
   "may_wait", "no_autostart", "may_start"}

TypeOK ==
  /\ houdini \in {"splash", "unlicensed", "main", "exited"} /\ dialog \in Titles \cup {None}
  /\ host \in {"none", "starting", "running", "failed", "disabled"}
  /\ record \in {None, "failed", "disabled", "starting"} /\ old \in BOOLEAN
  /\ away \in BOOLEAN /\ hidden \in BOOLEAN
  /\ pc \in Looks \cup Ended /\ ticks \in 0 .. MaxTicks /\ up \in 0 .. MaxTicks + 1
  /\ watch \in [main : BOOLEAN, dialog : Titles \cup {None}, at : 0 .. MaxTicks,
               record : {None, "failed", "disabled", "starting"}]
  /\ looked \in [begun : BOOLEAN, old : BOOLEAN, hidden : BOOLEAN]

\* What ends a wait at once is so: an agent is told of a failed or a disabled host, or of a
\* dialog that waits for an answer, only if this Houdini has it, the dialog at every look of the grace;
\* and that its package never ran only if its host had not begun when the wait last looked, or
\* has registered or exited since, or had no record that the wait could read: it was not written,
\* or to the state_dir of a hocuspocus.toml, or not readable (host/__init__.py:128,
\* launch.py:433, startup.py:53).  A record of an earlier process with the same pid is taken for
\* this one's.
VerdictIsTrue ==
  /\ pc = "host_failed" => looked.old \/ host = "failed"
  /\ pc = "autostart_disabled" => looked.old \/ host = "disabled"
  /\ pc = "dialog" => up > Grace /\ ~watch.main
  /\ pc = "host_starting" => looked.old \/ looked.begun
  /\ pc = "no_autostart" => ~looked.begun \/ host = "running" \/ ~Runs \/ looked.hidden
=============================================================================
