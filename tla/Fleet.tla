-------------------------------- MODULE Fleet ---------------------------------
(***************************************************************************)
(* Several Houdinis and the bridge that drives them: the registry files    *)
(* (host/registry.py, bridge/instances.py), the target of a call and its   *)
(* retries (bridge/server.py, routing.py), houdini_connect with its pins,  *)
(* names, roles, launches and quits (local_tools.py, launch.py) and the    *)
(* roles the ledger keeps by pid (ledger.py).                              *)
(*                                                                         *)
(* Processes are numbered in the order they start, and so are hosts: a     *)
(* host stands for its registry entry's pid, port, token and start time.   *)
(* A pid comes back with another process, a port with another host; a      *)
(* Houdini whose host was stopped may start another one.  One scan of the  *)
(* registry is one step.  What a name names is left open: any live Houdini. *)
(***************************************************************************)
EXTENDS Sequences, FiniteSets, Naturals

CONSTANTS
  NoPid,      \* no pid
  Aims,       \* what calls are sent by: an edit or a read to the target of the bridge, or on a pid
              \* (also a job's), role or name
  Given,      \* the roles that houdini_connect gives
  Pid, Port,  \* what the system gives to processes and to listeners
  Call,       \* forwarded calls
  Opens, Launches,  \* whether Houdinis the user opens, and the bridge launches, have a GUI
  MaxProcs,   \* bound: Houdinis started, by the user or by the bridge
  MaxHosts,   \* bound: hosts started
  MaxLocal,   \* bound: houdini_connect and houdini_status calls
  MaxStale    \* MAX_STALE_ENTRIES

Roles == {"editor", "worker"}

ASSUME FleetAssumption ==
  /\ NoPid \notin Pid /\ Given \subseteq Roles /\ MaxStale \in Nat \ {0}
  /\ Opens \subseteq BOOLEAN /\ Launches \subseteq BOOLEAN
  /\ MaxProcs \in Nat /\ MaxHosts \in Nat /\ MaxLocal \in Nat

VARIABLES
  proc,      \* the processes of Houdinis: their pid, mode, and the launch that started them
  os,        \* what runs under each pid: a process, 0 for nothing, Other for a stranger
  host,      \* the hosts: their process and their port
  up,        \* the hosts that listen
  file,      \* <state_dir>/instances/<pid>.json: the host it names, 0 for no file
  entered,   \* the hosts whose InstanceRegistry has an entry
  pin,       \* Bridge.preferred_pid
  detached,  \* Bridge.detached
  last,      \* Bridge.last_target, 0 for none
  prev,      \* Bridge._previous_target
  verified,  \* Bridge._verified
  row,       \* the ledger's instances: the host seen with the pid, and its role
  loc,       \* the houdini_connect or houdini_status under way
  locals,    \* how many there were
  to,        \* what each call is sent to, and whether it changes a scene
  pc, at, tries, said,
  got,       \* the hosts that accepted the call, in order
  ran,       \* which of them have run it
  given,     \* history: roles given to each host, or to its pid while the ledger knew it
  unseen     \* history: roles each found in the row of a pid that no scan had looked at

machine == <<proc, os, host, up>>
chosen == <<pin, detached, last, prev>>
history == <<given, unseen>>
calls == <<to, pc, at, tries, said, got, ran>>
vars == <<machine, file, entered, chosen, verified, row, loc, locals, calls, history>>

Host == 1 .. MaxHosts
Other == MaxProcs + 1
NoRow == [h |-> 0, role |-> "none", known |-> FALSE]
Idle == [op |-> "none", pc |-> "idle", h |-> 0, role |-> "none", todo |-> <<>>,
         got |-> 0, tries |-> 0, k |-> 0, before |-> {}]
Targets ==
  [by : Aims \cap {"edit", "read"}, on : {"auto"}] \cup [by : Aims \cap {"pid"}, on : Pid]
  \cup [by : Aims \cap {"role"}, on : Given] \cup [by : Aims \cap {"name"}, on : {"name"}]

PidOf(h) == proc[host[h].k].pid
Gui(h) == proc[host[h].k].gui
Default(h) == IF Gui(h) THEN "editor" ELSE "worker"
\* Ledger.role_of.
Role(rows, h) ==
  IF rows[PidOf(h)].role \in Roles THEN rows[PidOf(h)].role ELSE Default(h)

\* The host that answers on a port, 0 for none.
Listener(port) ==
  IF \E g \in up : host[g].port = port THEN CHOOSE g \in up : host[g].port = port ELSE 0

Init ==
  /\ proc = <<>> /\ os = [p \in Pid |-> 0]
  /\ host = <<>> /\ up = {} /\ file = [p \in Pid |-> 0] /\ entered = {}
  /\ pin = NoPid /\ detached = FALSE /\ last = 0 /\ prev = 0 /\ verified = {}
  /\ row = [p \in Pid |-> NoRow] /\ loc = Idle /\ locals = 0
  /\ to \in [Call -> Targets]
  /\ pc = [c \in Call |-> "route"] /\ at = [c \in Call |-> 0] /\ tries = [c \in Call |-> 0]
  /\ said = [c \in Call |-> "none"] /\ got = [c \in Call |-> <<>>] /\ ran = [c \in Call |-> {}]
  /\ given = [h \in Host |-> {}] /\ unseen = [h \in Host |-> {}]

-----------------------------------------------------------------------------
(* Houdinis and their hosts. *)

bridge == <<chosen, verified, row, loc, locals, calls, history>>

\* A launched process that has ended keeps its pid until the launch has polled it.
Free(p) == os[p] = 0 /\ ~(loc.pc = "wait" /\ proc[loc.k].pid = p)

\* The user starts a Houdini.
Open(p, gui) ==
  /\ Free(p) /\ Len(proc) < MaxProcs
  /\ proc' = Append(proc, [pid |-> p, gui |-> gui, launch |-> 0])
  /\ os' = [os EXCEPT ![p] = Len(proc) + 1]
  /\ UNCHANGED <<host, up, file, entered, bridge>>

\* A launched executable starts the real Houdini as another process and exits.
HandOff(k, p) ==
  /\ k \in DOMAIN proc /\ os[proc[k].pid] = k /\ proc[k].launch # 0
  /\ ~ \E h \in DOMAIN host : host[h].k = k
  /\ Free(p) /\ Len(proc) < MaxProcs
  /\ proc' = Append(proc, [proc[k] EXCEPT !.pid = p])
  /\ os' = [os EXCEPT ![p] = Len(proc) + 1, ![proc[k].pid] = 0]
  /\ UNCHANGED <<host, up, file, entered, bridge>>

\* A process ends without a word: a crash, a kill, or the exit of a Houdini without a host.
Crash(p) ==
  /\ os[p] \in DOMAIN proc
  /\ up' = {h \in up : PidOf(h) # p}
  /\ os' = [os EXCEPT ![p] = 0] /\ entered' = entered \cap up'
  /\ UNCHANGED <<proc, host, file, bridge>>

\* Another program gets the pid of a Houdini that has left its entry.
TakePid(p) ==
  /\ Free(p) /\ file[p] # 0
  /\ os' = [os EXCEPT ![p] = Other]
  /\ UNCHANGED <<proc, host, up, file, entered, bridge>>

\* Host.start: it listens with a token of its own before it has an entry.
Listen(k, port) ==
  /\ k \in DOMAIN proc /\ os[proc[k].pid] = k /\ Len(host) < MaxHosts
  /\ Listener(port) = 0 /\ ~ \E h \in up : host[h].k = k
  /\ host' = Append(host, [k |-> k, port |-> port])
  /\ up' = up \cup {Len(host) + 1}
  /\ UNCHANGED <<proc, os, file, entered, bridge>>

\* The entries whose pid is dead go (prune_stale, and each scan of the bridge).
Pruned == [p \in Pid |-> IF os[p] = 0 THEN 0 ELSE file[p]]

Register(h) ==
  /\ h \in up \ entered
  /\ file' = [Pruned EXCEPT ![PidOf(h)] = h]
  /\ entered' = entered \cup {h}
  /\ UNCHANGED <<machine, bridge>>

\* InstanceRegistry.update: a hip is loaded, saved or cleared, and the entry is written anew.
Rewrite(h) ==
  /\ h \in entered
  /\ file' = [file EXCEPT ![PidOf(h)] = h]
  /\ UNCHANGED <<machine, entered, bridge>>

\* Host.stop: the entry goes, then the listener; Houdini goes on.
Stop(h) ==
  /\ h \in up
  /\ file' = IF h \in entered THEN [file EXCEPT ![PidOf(h)] = 0] ELSE file
  /\ up' = up \ {h} /\ entered' = entered \ {h}
  /\ UNCHANGED <<proc, os, host, bridge>>

-----------------------------------------------------------------------------
(* What the bridge sees of them. *)

\* scan: the entries of pids that are alive, whoever has the pid now.
Live == {file[p] : p \in {q \in Pid : file[q] # 0 /\ os[q] # 0}}
\* sort_preferred.
Before(g, h) == IF Gui(g) # Gui(h) THEN Gui(g) ELSE g > h
First(S) == CHOOSE h \in S : \A g \in S \ {h} : Before(h, g)
At(S, p) == IF \E h \in S : PidOf(h) = p THEN CHOOSE h \in S : PidOf(h) = p ELSE 0

\* Mutant: the role stays with the pid.
ObservedByPid ==
  [p \in Pid |-> IF At(Live, p) # 0
                   THEN [row[p] EXCEPT !.h = At(Live, p), !.known = TRUE] ELSE row[p]]

\* Ledger.observe: a host whose start time differs takes over its pid's row, without the
\* role of the old one.
Observed ==
  [p \in Pid |->
     LET h == At(Live, p) IN
     IF h = 0 THEN row[p]
     ELSE [h |-> h, known |-> TRUE, role |-> IF row[p].h \in {0, h} THEN row[p].role ELSE "none"]]

\* Bridge.forget, with instances.forget: the file goes by its name; a target this bridge
\* never talked to is not one that exits.
Forget(h) ==
  /\ file' = [file EXCEPT ![PidOf(h)] = 0]
  /\ verified' = verified \ {h}
  /\ last' = IF h \notin verified /\ last # 0 /\ PidOf(last) = PidOf(h) THEN prev ELSE last

\* check_identity: who answers /health on the port of an entry.
Answers(h) == Listener(host[h].port)
Stale(h) == Answers(h) = 0 \/ PidOf(Answers(h)) # PidOf(h)

-----------------------------------------------------------------------------
(* Forwarded calls: Bridge._forward. *)

Automatic(c) == to[c].by \in {"edit", "read"}
End(c, answer) ==
  /\ pc' = [pc EXCEPT ![c] = "over"] /\ said' = [said EXCEPT ![c] = answer]
  /\ UNCHANGED <<at, tries>>
Choose(c, h) ==
  /\ at' = [at EXCEPT ![c] = h] /\ tries' = [tries EXCEPT ![c] = @ + 1]
  /\ pc' = [pc EXCEPT ![c] = IF h \in verified THEN "send" ELSE "verify"]
  /\ said' = said

\* Selection: the pin and nothing else; the only one; of several the preferred one, for a
\* call that changes nothing.
Exited == last # 0 /\ ~ \E h \in Live : PidOf(h) = PidOf(last)
Refusal(c) ==
  CASE detached -> "detached"
    [] ~detached /\ pin # NoPid /\ At(Live, pin) = 0 -> "lost"
    [] ~detached /\ pin = NoPid /\ Live = {} -> IF Exited THEN "exited" ELSE "offline"
    [] ~detached /\ pin = NoPid /\ Cardinality(Live) > 1 /\ to[c].by = "edit" -> "ambiguous"
    [] OTHER -> "none"

Select(c) ==
  IF Refusal(c) # "none" THEN End(c, Refusal(c)) /\ UNCHANGED <<last, prev>>
  ELSE LET h == IF pin # NoPid THEN At(Live, pin) ELSE First(Live) IN
       Choose(c, h) /\ prev' = last /\ last' = h

\* on, and the owner of a job: the one that is named, or an error.
Meant(c) ==
  CASE to[c].by = "role" -> {h \in Live : Role(Observed, h) = to[c].on}
    [] to[c].by = "name" -> Live
    [] OTHER -> {h \in Live : PidOf(h) = to[c].on}
Known(p) == Observed[p].known \/ pin = p \/ (last # 0 /\ PidOf(last) = p)

Pick(c) ==
  /\ \/ \E h \in Meant(c) : Choose(c, h)
     \/ /\ Meant(c) = {} \/ to[c].by = "name"
        /\ End(c, IF to[c].by = "pid" /\ Known(to[c].on) THEN "lost" ELSE "offline")
  /\ UNCHANGED <<last, prev>>

\* A row that a connect made is taken for the row of whoever has the pid at the scan.
Observe ==
  /\ file' = Pruned /\ row' = Observed
  /\ unseen' = [h \in Host |-> unseen[h] \cup
       IF h \in Live /\ row[PidOf(h)].h = 0 THEN {row[PidOf(h)].role} \cap Roles ELSE {}]
  /\ UNCHANGED given

Route(c) ==
  /\ pc[c] = "route" /\ tries[c] < MaxStale
  /\ IF Automatic(c) /\ detached THEN UNCHANGED <<file, row, history>> ELSE Observe
  /\ IF Automatic(c) THEN Select(c) ELSE Pick(c)
  /\ UNCHANGED <<machine, entered, pin, detached, verified, loc, locals, to, got, ran>>

\* Every entry it tried was stale.
Exhausted(c) ==
  /\ pc[c] = "route" /\ tries[c] = MaxStale
  /\ End(c, "offline")
  /\ UNCHANGED <<machine, file, entered, chosen, verified, row, loc, locals, to, got, ran, history>>

\* /health before the first call of an instance.
Verify(c) ==
  /\ pc[c] = "verify"
  /\ IF Stale(at[c])
       THEN Forget(at[c]) /\ pc' = [pc EXCEPT ![c] = "route"]
       ELSE /\ verified' = verified \cup {at[c]} /\ pc' = [pc EXCEPT ![c] = "send"]
            /\ UNCHANGED <<file, last>>
  /\ UNCHANGED <<machine, entered, pin, detached, prev, row, loc, locals, to, at, tries, said, got,
                 ran, history>>

\* /health answers nothing in time.
VerifyFails(c) ==
  /\ pc[c] = "verify" /\ Answers(at[c]) # 0
  /\ End(c, "unknown")
  /\ UNCHANGED <<machine, file, entered, chosen, verified, row, loc, locals, to, got, ran, history>>

\* Refused, or the token is rejected: it did not run, and the entry is stale.
Send(c) ==
  /\ pc[c] = "send"
  /\ IF Answers(at[c]) = at[c]
       THEN /\ pc' = [pc EXCEPT ![c] = "sent"] /\ got' = [got EXCEPT ![c] = Append(@, at[c])]
            /\ UNCHANGED <<file, verified, last>>
       ELSE Forget(at[c]) /\ pc' = [pc EXCEPT ![c] = "route"] /\ got' = got
  /\ UNCHANGED <<machine, entered, pin, detached, prev, row, loc, locals, to, at, tries, said, ran,
                 history>>

\* The host runs the call, though its caller may have given up.
Run(c) ==
  /\ \E i \in DOMAIN got[c] \ ran[c] : got[c][i] \in up /\ ran' = [ran EXCEPT ![c] = @ \cup {i}]
  /\ UNCHANGED <<machine, file, entered, chosen, verified, row, loc, locals, to, pc, at, tries, said,
                 got, history>>

Reply(c) ==
  /\ pc[c] = "sent" /\ at[c] \in up /\ Len(got[c]) \in ran[c]
  /\ End(c, "ok")
  /\ UNCHANGED <<machine, file, entered, chosen, verified, row, loc, locals, to, got, ran, history>>

\* Mutant: a call without an answer is tried again, like one that was refused.
BreakRetried(c) ==
  /\ pc[c] = "sent"
  /\ pc' = [pc EXCEPT ![c] = "route"]
  /\ UNCHANGED <<machine, file, entered, chosen, verified, row, loc, locals, to, at, tries, said, got,
                 ran, history>>
\* Mutant: it counts as refused, since its Houdini is gone.
BreakOffline(c) ==
  /\ pc[c] = "sent"
  /\ End(c, IF at[c] \notin Live THEN "offline" ELSE "unknown")
  /\ UNCHANGED <<machine, file, entered, chosen, verified, row, loc, locals, to, got, ran, history>>

\* The connection breaks or its time is over: the call may have run.  _wait_exit tells
\* whether that Houdini is gone.
Break(c) ==
  /\ pc[c] = "sent"
  /\ End(c, IF at[c] \notin up /\ ~ \E h \in Live : PidOf(h) = PidOf(at[c])
              THEN "exited while running" ELSE "unknown")
  /\ file' = Pruned
  /\ UNCHANGED <<machine, entered, chosen, verified, row, loc, locals, to, got, ran, history>>

-----------------------------------------------------------------------------
(* houdini_status and houdini_connect, one at a time (Bridge._lock). *)

Begin(op, with) ==
  /\ loc = Idle /\ locals < MaxLocal
  /\ locals' = locals + 1 /\ loc' = with

Disconnect ==
  /\ Begin("disconnect", Idle)
  /\ pin' = NoPid /\ detached' = TRUE
  /\ UNCHANGED <<machine, file, entered, last, prev, verified, row, calls, history>>

\* status, connect {} and quit select; connect {} drops the pin first.
BeginSelect(op) ==
  /\ op = "status" => ~detached
  /\ Begin(op, [Idle EXCEPT !.op = op, !.pc = "select"])
  /\ pin' = IF op = "auto" THEN NoPid ELSE pin
  /\ UNCHANGED <<machine, file, entered, detached, last, prev, verified, row, calls, history>>

SelectVerified ==
  /\ loc.pc = "select"
  /\ file' = Pruned
  /\ LET h == IF pin # NoPid THEN At(Live, pin) ELSE IF Live = {} THEN 0 ELSE First(Live) IN
     IF h = 0 \/ loc.tries = MaxStale THEN loc' = Idle
     ELSE loc' = [loc EXCEPT !.pc = "health", !.h = h, !.tries = @ + 1]
  /\ UNCHANGED <<machine, entered, chosen, verified, row, locals, calls, history>>

\* A name is taken from the entry that has it, if any, and given to this one.
Naming(h, names) ==
  IF ~names THEN {<<>>} ELSE {<<PidOf(h)>>} \cup {<<PidOf(g), PidOf(h)>> : g \in Live \ {h}}

Chosen(h, names, role) ==
  {[loc EXCEPT !.h = h, !.role = role, !.todo = todo,
               !.pc = IF names THEN "edit" ELSE IF role # "none" THEN "tell" ELSE "health"]
   : todo \in Naming(h, names)}

\* connect {pid, name?, role?}, connect {name, role?}, connect {role}.  The roles of {role}
\* are those the ledger has: it is not told of the scan first.
ByPid(p, names, role) == IF At(Live, p) = 0 THEN {} ELSE Chosen(At(Live, p), names, role)
ByName(role) == UNION {Chosen(h, FALSE, role) : h \in Live}
ByRole(role) == UNION {Chosen(h, FALSE, "none") : h \in {g \in Live : Role(row, g) = role}}

Connect(found) ==
  /\ \E next \in found : Begin("connect", [next EXCEPT !.op = "connect"])
  /\ file' = Pruned
  /\ UNCHANGED <<machine, entered, chosen, verified, row, calls, history>>

\* set_name reads an entry and writes it back.
ReadEntry ==
  /\ loc.pc = "edit" /\ loc.todo # <<>> /\ loc.got = 0
  /\ loc' = IF file[loc.todo[1]] = 0 THEN Idle ELSE [loc EXCEPT !.got = file[loc.todo[1]]]
  /\ UNCHANGED <<machine, file, entered, chosen, verified, row, locals, calls, history>>

WriteEntry ==
  /\ loc.pc = "edit" /\ loc.got # 0
  /\ file' = [file EXCEPT ![loc.todo[1]] = loc.got]
  /\ loc' = [loc EXCEPT !.got = 0, !.todo = Tail(@), !.pc = IF Len(loc.todo) = 1 THEN "tell" ELSE @]
  /\ UNCHANGED <<machine, entered, chosen, verified, row, locals, calls, history>>

\* Ledger.set_name and set_role: by pid.
Tell ==
  /\ loc.pc = "tell"
  /\ LET p == PidOf(loc.h)
         r == IF loc.role = "none" THEN row[p].role ELSE loc.role IN
     /\ row' = [row EXCEPT ![p].known = TRUE, ![p].role = r]
     /\ given' = [h \in Host |-> given[h] \cup
                    IF h \in {loc.h, row[p].h} THEN {loc.role} \cap Roles ELSE {}]
  /\ loc' = [loc EXCEPT !.pc = "health"]
  /\ UNCHANGED <<machine, file, entered, chosen, verified, locals, calls, unseen>>

\* connected_block: an entry that is stale is forgotten, and selected anew or an error.
Health ==
  /\ loc.pc = "health"
  /\ LET h == loc.h
         selects == loc.op \in {"status", "auto", "quit"} IN
     IF Stale(h)
       THEN /\ Forget(h) /\ UNCHANGED <<pin, detached>>
            /\ loc' = IF selects THEN [loc EXCEPT !.pc = "select"] ELSE Idle
       ELSE /\ verified' = verified \cup {h} /\ last' = h /\ file' = file
            /\ detached' = (detached /\ loc.op \in {"status", "quit"})
            /\ pin' = IF selects THEN pin ELSE PidOf(h)
            /\ loc' = IF loc.op = "quit" THEN [loc EXCEPT !.pc = "quit"] ELSE Idle
  /\ UNCHANGED <<machine, entered, prev, row, locals, calls, history>>

HealthFails ==
  /\ loc.pc = "health" /\ Answers(loc.h) # 0
  /\ loc' = Idle
  /\ UNCHANGED <<machine, file, entered, chosen, verified, row, locals, calls, history>>

\* connect {quit}: the host agrees and Houdini goes away in its own time, or it refuses.
Quit(agrees) ==
  /\ loc.pc = "quit"
  /\ loc' = IF agrees /\ Answers(loc.h) = loc.h THEN [loc EXCEPT !.pc = "forget"] ELSE Idle
  /\ UNCHANGED <<machine, file, entered, chosen, verified, row, locals, calls, history>>

ForgetQuit ==
  /\ loc.pc = "forget"
  /\ LET p == PidOf(loc.h) IN
     /\ file' = [file EXCEPT ![p] = 0]
     /\ pin' = IF pin = p THEN NoPid ELSE pin
     /\ last' = IF last # 0 /\ PidOf(last) = p THEN 0 ELSE last
  /\ loc' = Idle
  /\ UNCHANGED <<machine, entered, detached, prev, verified, row, locals, calls, history>>

-----------------------------------------------------------------------------
(* Launcher.launch. *)

\* The registered pids are noted before the process starts; the scan has removed the entry
\* of whoever had its pid.
Spawn(p, gui, role) ==
  /\ Free(p) /\ Len(proc) < MaxProcs
  /\ Begin("launch", [Idle EXCEPT !.op = "launch", !.pc = "wait", !.k = Len(proc) + 1, !.role = role,
                                  !.before = {PidOf(h) : h \in Live}])
  /\ file' = Pruned
  /\ proc' = Append(proc, [pid |-> p, gui |-> gui, launch |-> locals + 1])
  /\ os' = [os EXCEPT ![p] = Len(proc) + 1]
  /\ UNCHANGED <<host, up, entered, chosen, verified, row, calls, history>>

New == {h \in Live : PidOf(h) \notin loc.before}
\* Mutant: a headless launch takes any new registration, as one of a GUI does.
FoundAny ==
  LET p == proc[loc.k].pid IN IF At(Live, p) # 0 THEN {At(Live, p)} ELSE New

\* The spawned process by its pid; else a new registration, which of a headless launch must
\* name this bridge as its launcher.
Found ==
  LET p == proc[loc.k].pid
      others == IF proc[loc.k].gui THEN New
                ELSE {h \in New : proc[host[h].k].launch # 0} IN
  IF At(Live, p) # 0 THEN {At(Live, p)}
  ELSE {h \in others : \A g \in others : g <= h}

Registered ==
  /\ loc.pc = "wait"
  /\ \E h \in Found : \E next \in Chosen(h, FALSE, loc.role) :
       loc' = [next EXCEPT !.op = "launched"]
  /\ file' = Pruned
  /\ UNCHANGED <<machine, entered, chosen, verified, row, locals, calls, history>>

\* The process ended, its wait is over, or it cannot register: without a licence it is
\* terminated, else it stays.
WaitFails(terminate) ==
  /\ loc.pc = "wait" /\ Found = {}
  /\ loc' = Idle
  /\ LET p == proc[loc.k].pid IN
     IF terminate /\ os[p] = loc.k /\ proc[loc.k].gui
       THEN os' = [os EXCEPT ![p] = 0] /\ up' = {h \in up : host[h].k # loc.k}
            /\ entered' = entered \cap up'
       ELSE UNCHANGED <<os, up, entered>>
  /\ file' = Pruned
  /\ UNCHANGED <<proc, host, chosen, verified, row, locals, calls, history>>

-----------------------------------------------------------------------------
Asked == Given \cup {"none"}

Next ==
  \/ \E p \in Pid :
       \/ Crash(p) \/ TakePid(p)
       \/ \E gui \in Opens : Open(p, gui)
       \/ \E gui \in Launches, r \in Asked : Spawn(p, gui, r)
       \/ \E k \in DOMAIN proc : HandOff(k, p)
       \/ \E names \in BOOLEAN, r \in Asked : Connect(ByPid(p, names, r))
  \/ \E h \in DOMAIN host : Register(h) \/ Rewrite(h) \/ Stop(h)
  \/ \E k \in DOMAIN proc, port \in Port : Listen(k, port)
  \/ \E c \in Call :
       \/ Route(c) \/ Exhausted(c) \/ Verify(c) \/ VerifyFails(c) \/ Send(c)
       \/ Run(c) \/ Reply(c) \/ Break(c)
  \/ Disconnect \/ SelectVerified \/ ReadEntry \/ WriteEntry \/ Tell \/ Health \/ HealthFails
  \/ ForgetQuit \/ Registered
  \/ \E op \in {"status", "auto", "quit"} : BeginSelect(op)
  \/ \E r \in Asked : Connect(ByName(r))
  \/ \E r \in Roles : Connect(ByRole(r))
  \/ \E b \in BOOLEAN : Quit(b) \/ WaitFails(b)

Spec == Init /\ [][Next]_vars

-----------------------------------------------------------------------------
(* Properties *)

\* Every variable keeps its type.
TypeOK ==
  /\ \A k \in DOMAIN proc : proc[k] \in [pid : Pid, gui : BOOLEAN, launch : 0 .. MaxLocal]
  /\ os \in [Pid -> 0 .. Other] /\ Len(proc) <= MaxProcs
  /\ \A h \in DOMAIN host : host[h] \in [k : DOMAIN proc, port : Port]
  /\ up \subseteq DOMAIN host /\ verified \subseteq DOMAIN host
  /\ file \in [Pid -> 0 .. Len(host)] /\ entered \subseteq up
  /\ pin \in Pid \cup {NoPid} /\ detached \in BOOLEAN
  /\ {last, prev} \subseteq 0 .. Len(host)
  /\ row \in [Pid -> [h : 0 .. Len(host), role : Roles \cup {"none"}, known : BOOLEAN]]
  /\ loc.op \in {"none", "status", "auto", "quit", "connect", "launch", "launched"}
  /\ loc.pc \in {"idle", "select", "edit", "tell", "health", "quit", "forget", "wait"}
  /\ to \in [Call -> Targets]
  /\ \A c \in Call :
       /\ pc[c] \in {"route", "verify", "send", "sent", "over"}
       /\ at[c] \in 0 .. Len(host) /\ tries[c] \in 0 .. MaxStale
       /\ said[c] \in {"none", "ok", "detached", "lost", "exited", "offline", "ambiguous", "unknown",
                       "exited while running"}
       /\ ran[c] \subseteq DOMAIN got[c]
  /\ \A h \in Host : given[h] \cup unseen[h] \subseteq Roles

\* A call runs at most once, on one Houdini, though a stale entry has it routed again.
RanAtMostOnce == \A c \in Call : Cardinality(ran[c]) <= 1

\* A call that was answered as not sent anywhere has not run and never will: only an answer
\* that leaves it open (delivery_unknown, or exited while running) may be wrong about it.
OfflineMeansNotRun ==
  \A c \in Call :
    said[c] \in {"detached", "lost", "exited", "offline", "ambiguous"} => got[c] = <<>>

\* A headless launch never ends with a Houdini the user started, whatever pid it has.
LaunchedIsOurs ==
  loc.op = "launched" /\ ~proc[loc.k].gui => proc[host[loc.h].k].launch # 0

\* A call sent to a role goes to a Houdini that has it of its own: by default, or since it
\* was given that role; never since an earlier one with its pid had it.  But for one case: a
\* role given to a Houdini before any scan had told the ledger of it is in a row without a
\* start time, which stays for whoever has the pid when the next scan comes.
RoleIsOwn ==
  \A c \in Call : to[c].by = "role" /\ pc[c] \in {"verify", "send"} =>
    \E h \in {at[c]} : to[c].on \in given[h] \cup unseen[h] \cup {Default(h)}

\* A Houdini that was given a role keeps it.
RoleIsKept ==
  \A h \in DOMAIN host : given[h] # {} /\ row[PidOf(h)].h = h => row[PidOf(h)].role # "none"

\* A launch ends with the Houdini it started, or one that this handed off to.
LaunchedIsTheOne ==
  loc.op = "launched" /\ ~proc[loc.k].gui =>
    proc[host[loc.h].k].launch = proc[loc.k].launch
=============================================================================
