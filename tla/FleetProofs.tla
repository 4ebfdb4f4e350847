---------------------------- MODULE FleetProofs -----------------------------
(***************************************************************************)
(* One delivery of a call, true refusals, launches that take no Houdini of *)
(* the user and roles that do not outlive their Houdini (Fleet), for any   *)
(* pids, ports, calls and Houdinis; and one Houdini from the install to    *)
(* its end: whole installs, true verdicts on a start, a host that starts   *)
(* and stops as a whole, and dialogs that stay the user's (Session).       *)
(***************************************************************************)
EXTENDS Fleet, Session, TLAPS, FiniteSetTheorems, SequenceTheorems, WellFoundedInduction

Procs == [pid : Pid, gui : BOOLEAN, launch : 0 .. MaxLocal]
Hosts == [k : Nat, port : Port]
Rows == [h : Nat, role : Roles \cup {"none"}, known : BOOLEAN]
Locs ==
  [op : {"none", "status", "auto", "quit", "connect", "launch", "launched"},
   pc : {"idle", "select", "edit", "tell", "health", "quit", "forget", "wait"},
   h : Nat, role : Roles \cup {"none"}, todo : Seq(Pid), got : Nat, tries : Nat, k : Nat,
   before : SUBSET Pid]
Refusals == {"detached", "lost", "exited", "offline", "ambiguous"}

\* A listener is one of the process that has its pid.
MachineInv ==
  /\ proc \in Seq(Procs) /\ Len(proc) <= MaxProcs
  /\ os \in [Pid -> 0 .. Other]
  /\ host \in Seq(Hosts) /\ Len(host) <= MaxHosts
  /\ \A h \in DOMAIN host : host[h].k \in DOMAIN proc
  /\ up \subseteq DOMAIN host
  /\ \A h \in up : os[PidOf(h)] = host[h].k

\* The file of a pid names a host that had this pid.
FileInv ==
  /\ entered \subseteq up
  /\ file \in [Pid -> Nat]
  /\ \A p \in Pid : file[p] <= Len(host) /\ (file[p] # 0 => PidOf(file[p]) = p)

\* What the bridge chose exists.
BridgeInv ==
  /\ pin \in Pid \cup {NoPid} /\ detached \in BOOLEAN
  /\ last \in 0 .. Len(host) /\ prev \in 0 .. Len(host) /\ verified \subseteq DOMAIN host

\* The roles a host was given, or found in a row no scan had looked at.
Granted(h) == given[h] \cup unseen[h]

\* The role in the row of a host was given to this host, or found there.
RowInv ==
  /\ row \in [Pid -> Rows]
  /\ given \in [Host -> SUBSET Roles] /\ unseen \in [Host -> SUBSET Roles]
  /\ \A p \in Pid :
       /\ row[p].h <= Len(host)
       /\ row[p].h # 0 /\ row[p].role \in Roles => row[p].role \in Granted(row[p].h)

\* The local tool under way names hosts and a process there are.
LocInv ==
  /\ loc \in Locs /\ locals \in 0 .. MaxLocal
  /\ loc.h <= Len(host) /\ loc.got <= Len(host) /\ loc.k <= Len(proc)
  /\ loc.pc \in {"edit", "tell", "health", "quit", "forget"} => loc.h # 0
  /\ loc.got # 0 => loc.pc = "edit" /\ loc.todo # <<>> /\ PidOf(loc.got) = loc.todo[1]
  /\ loc.pc = "wait" <=> loc.op = "launch"
  /\ loc.op = "launched" => loc.pc \in {"tell", "health"}
  /\ loc.op \in {"launch", "launched"} => loc.k # 0
  /\ LaunchedIsOurs

\* The pid of a launched process is nobody else's while it is waited for.
WaitInv ==
  loc.pc = "wait" =>
    LET p == proc[loc.k].pid IN
      /\ proc[loc.k].launch # 0 /\ os[p] \in {0, loc.k}
      /\ file[p] # 0 => host[file[p]].k = loc.k

\* A call is sent anywhere once, and nothing refuses it after that.
SentOnce(c) ==
  /\ at[c] <= Len(host)
  /\ pc[c] \in {"route", "verify", "send"} => got[c] = <<>> /\ said[c] = "none"
  /\ pc[c] = "sent" => said[c] = "none"
  /\ said[c] \in Refusals => got[c] = <<>>
  /\ Len(got[c]) <= 1 /\ ran[c] \subseteq DOMAIN got[c]
  /\ pc[c] \in {"verify", "send", "sent"} => at[c] # 0

\* What it is sent to by a role has this role.
RoleOf(c) ==
  to[c].by = "role" /\ pc[c] \in {"verify", "send"} =>
    \E h \in {at[c]} : to[c].on \in Granted(h) \cup {Default(h)}

CallTypes ==
  /\ to \in [Call -> Targets]
  /\ pc \in [Call -> {"route", "verify", "send", "sent", "over"}]
  /\ at \in [Call -> Nat] /\ tries \in [Call -> 0 .. MaxStale]
  /\ said \in [Call -> Refusals \cup {"none", "ok", "unknown", "exited while running"}]
  /\ got \in [Call -> Seq(Nat)] /\ ran \in [Call -> SUBSET Nat]

CallInv == CallTypes /\ \A c \in Call : SentOnce(c) /\ RoleOf(c)

IInv == MachineInv /\ FileInv /\ BridgeInv /\ RowInv /\ LocInv /\ WaitInv /\ CallInv

-----------------------------------------------------------------------------
(* The order of the entries, and what a scan finds. *)

\* A set of numbers has a least one: they are well-founded.
LEMMA LeastOf ==
  ASSUME NEW S, S \subseteq Nat, S # {}
  PROVE  \E m \in S : \A k \in S : m <= k
  <1> DEFINE R == OpToRel(<, Nat)
  <1>1. IsWellFoundedOn(R, Nat)
    BY NatLessThanWellFounded
  <1>2. R = {ss \in Nat \X Nat : ss[1] < ss[2]}
    BY DEF OpToRel
  <1> HIDE DEF R
  <1>3. PICK m \in S : \A y \in S : ~(<<y, m>> \in R)
    BY <1>1, WFMin
  <1>4. \A k \in S : m <= k
    <2> TAKE k \in S
    <2>1. m \in Nat /\ k \in Nat /\ <<k, m>> \notin R
      BY <1>3
    <2>2. k < m => <<k, m>> \in R
      <3>1. <<k, m>> \in Nat \X Nat /\ <<k, m>>[1] = k /\ <<k, m>>[2] = m
        BY <2>1
      <3> QED BY <1>2, <3>1
    <2> QED BY <2>1, <2>2
  <1> QED BY <1>4

\* A set of numbers with a bound has a greatest one.
LEMMA GreatestOf ==
  ASSUME NEW n \in Nat, NEW S, S \subseteq 1 .. n, S # {}
  PROVE  \E m \in S : \A k \in S : k <= m
  <1> DEFINE T == {n - x : x \in S}
  <1>1. \A x \in S : x \in Nat /\ n - x \in Nat
    OBVIOUS
  <1>2. T \subseteq Nat /\ T # {}
    BY <1>1
  <1>3. PICK t \in T : \A k \in T : t <= k
    BY <1>2, LeastOf
  <1>4. PICK m \in S : t = n - m
    OBVIOUS
  <1>5. \A k \in S : n - m <= n - k
    BY <1>3, <1>4
  <1> QED BY <1>1, <1>5

\* Of some hosts one is preferred to all the others.
LEMMA FirstIsOne ==
  ASSUME MachineInv, NEW S \in SUBSET DOMAIN host, S # {}
  PROVE  First(S) \in S
  <1>1. Len(host) \in Nat /\ DOMAIN host = 1 .. Len(host)
    BY DEF MachineInv
  <1>g. \A h \in S : Gui(h) \in BOOLEAN /\ h \in Nat
    <2>1. \A k \in DOMAIN proc : proc[k].gui \in BOOLEAN
      <3>1. \A k \in DOMAIN proc : proc[k] \in Procs
        BY DEF MachineInv
      <3> QED BY <3>1 DEF Procs
    <2> QED BY <1>1, <2>1 DEF MachineInv, Gui
  <1>2. \E h \in S : \A g \in S \ {h} : Before(h, g)
    <2>1. CASE \E h \in S : Gui(h)
      <3> DEFINE G == {h \in S : Gui(h)}
      <3>1. PICK m \in G : \A g \in G : g <= m
        <4>1. G \subseteq 1 .. Len(host) /\ G # {}
          BY <1>1, <2>1
        <4> HIDE DEF G
        <4> QED BY <1>1, <4>1, GreatestOf
      <3>2. \A g \in S \ {m} : Before(m, g)
        <4> TAKE g \in S \ {m}
        <4>1. CASE Gui(g) = Gui(m)
          <5>1. g # m /\ (g \in G => g <= m) /\ m \in S /\ Gui(m)
            BY <3>1
          <5>2. m > g
            BY <1>g, <4>1, <5>1
          <5> QED BY <4>1, <5>2 DEF Before
        <4>2. CASE Gui(g) # Gui(m)
          BY <3>1, <4>2 DEF Before
        <4> QED BY <4>1, <4>2
      <3> QED BY <3>1, <3>2
    <2>2. CASE ~ \E h \in S : Gui(h)
      <3>1. PICK m \in S : \A g \in S : g <= m
        BY <1>1, GreatestOf
      <3>2. \A g \in S \ {m} : Gui(m) = Gui(g) /\ m > g
        BY <1>g, <2>2, <3>1
      <3> QED BY <3>1, <3>2 DEF Before
    <2> QED BY <2>1, <2>2
  <1> QED BY <1>2 DEF First

\* A live entry is the file of its host's pid.
LEMMA LiveIs ==
  ASSUME MachineInv, FileInv, NEW h \in Live
  PROVE  /\ h \in DOMAIN host /\ h # 0 /\ PidOf(h) \in Pid
         /\ file[PidOf(h)] = h /\ os[PidOf(h)] # 0
  <1>1. PICK p \in Pid : file[p] # 0 /\ os[p] # 0 /\ h = file[p]
    BY DEF Live
  <1>2. file[p] \in Nat /\ file[p] <= Len(host) /\ PidOf(file[p]) = p
    BY <1>1 DEF FileInv
  <1> QED BY <1>1, <1>2 DEF MachineInv

\* A pid has the live entry that its file names.
LEMMA AtIs ==
  ASSUME MachineInv, FileInv, NEW p \in Pid
  PROVE  /\ At(Live, p) # 0 => At(Live, p) \in Live /\ PidOf(At(Live, p)) = p /\ At(Live, p) = file[p]
         /\ \A h \in Live : PidOf(h) = p => At(Live, p) = h
  <1>1. \A h \in Live : PidOf(h) = p => file[p] = h
    BY LiveIs
  <1> QED BY <1>1 DEF At

-----------------------------------------------------------------------------
(* Processes and hosts. *)

\* Processes and hosts are only added.
LEMMA Grows ==
  ASSUME MachineInv, [Next]_vars
  PROVE  /\ Len(proc) <= Len(proc')
         /\ \A k \in DOMAIN proc : k \in DOMAIN proc' /\ proc'[k] = proc[k]
         /\ Len(host) <= Len(host')
         /\ \A h \in DOMAIN host : h \in DOMAIN host' /\ host'[h] = host[h]
  <1>1. \/ proc' = proc
        \/ \E e : proc' = Append(proc, e)
    BY DEF Next, vars, machine, bridge, Crash, TakePid, Open, Spawn, HandOff, Connect, Register,
       Rewrite, Stop, Listen, Route, Exhausted, Verify, VerifyFails, Send, Run, Reply, Break,
       Disconnect, SelectVerified, ReadEntry, WriteEntry, Tell, Health, HealthFails, ForgetQuit,
       Registered, BeginSelect, Quit, WaitFails
  <1>2. \/ host' = host
        \/ \E e : host' = Append(host, e)
    BY DEF Next, vars, machine, bridge, Crash, TakePid, Open, Spawn, HandOff, Connect, Register,
       Rewrite, Stop, Listen, Route, Exhausted, Verify, VerifyFails, Send, Run, Reply, Break,
       Disconnect, SelectVerified, ReadEntry, WriteEntry, Tell, Health, HealthFails, ForgetQuit,
       Registered, BeginSelect, Quit, WaitFails
  <1>3. proc \in Seq(Procs) /\ host \in Seq(Hosts)
    BY DEF MachineInv
  <1>4. /\ Len(proc) <= Len(proc')
        /\ \A k \in DOMAIN proc : k \in DOMAIN proc' /\ proc'[k] = proc[k]
    BY <1>1, <1>3
  <1>5. /\ Len(host) <= Len(host')
        /\ \A h \in DOMAIN host : h \in DOMAIN host' /\ host'[h] = host[h]
    BY <1>2, <1>3
  <1> QED BY <1>4, <1>5

\* What is known of a host that there was stays so.
LEMMA HostsStay ==
  ASSUME MachineInv, [Next]_vars, NEW h \in DOMAIN host
  PROVE  /\ h \in DOMAIN host' /\ h # 0 /\ h \in Nat /\ h <= Len(host) /\ host'[h] = host[h]
         /\ PidOf(h)' = PidOf(h) /\ Default(h)' = Default(h)
         /\ host[h].k \in DOMAIN proc /\ PidOf(h) \in Pid
  <1>1. host[h].k \in DOMAIN proc /\ host'[h] = host[h] /\ h \in DOMAIN host'
    BY Grows DEF MachineInv
  <1>2. proc'[host[h].k] = proc[host[h].k]
    BY <1>1, Grows
  <1>3. h # 0 /\ h \in Nat /\ h <= Len(host)
    BY DEF MachineInv
  <1>4. PidOf(h) \in Pid
    <2>1. proc[host[h].k] \in Procs
      BY <1>1 DEF MachineInv
    <2> QED BY <2>1 DEF Procs, PidOf
  <1> QED BY <1>1, <1>2, <1>3, <1>4 DEF PidOf, Default, Gui

\* Each step keeps a listener with the process of its pid.
LEMMA MachineStep == IInv /\ [Next]_vars => MachineInv'
  <1> SUFFICES ASSUME IInv, [Next]_vars PROVE MachineInv'
    OBVIOUS
  <1>q. MachineInv
    BY DEF IInv
  <1>t. /\ proc \in Seq(Procs) /\ Len(proc) <= MaxProcs /\ Len(proc) \in Nat
        /\ DOMAIN proc = 1 .. Len(proc)
        /\ os \in [Pid -> 0 .. Other]
        /\ host \in Seq(Hosts) /\ Len(host) <= MaxHosts /\ Len(host) \in Nat
        /\ DOMAIN host = 1 .. Len(host)
        /\ up \subseteq DOMAIN host /\ MaxProcs \in Nat /\ MaxHosts \in Nat /\ Other = MaxProcs + 1
    BY <1>q, FleetAssumption DEF MachineInv, Other
  <1>r. \A h \in up : os[PidOf(h)] = host[h].k
    BY <1>q DEF MachineInv
  <1>u. \A k \in DOMAIN proc : proc[k] \in Procs /\ proc[k].pid \in Pid
    <2>1. \A k \in DOMAIN proc : proc[k] \in Procs
      BY <1>t
    <2> QED BY <2>1 DEF Procs
  <1>h. \A h \in DOMAIN host :
          /\ h \in DOMAIN host' /\ h # 0 /\ host'[h] = host[h] /\ PidOf(h)' = PidOf(h)
          /\ PidOf(h) \in Pid /\ host[h].k \in DOMAIN proc /\ host[h].k \in DOMAIN proc'
    BY <1>q, HostsStay, Grows
  <1>s. CASE UNCHANGED machine
    BY <1>q, <1>s DEF MachineInv, machine, PidOf
  <1>a. \/ UNCHANGED machine
        \/ \E p \in Pid : Crash(p) \/ TakePid(p) \/ \E gui \in Opens : Open(p, gui)
        \/ \E p \in Pid, gui \in Launches, r \in Asked : Spawn(p, gui, r)
        \/ \E p \in Pid, k \in DOMAIN proc : HandOff(k, p)
        \/ \E h \in DOMAIN host : Stop(h)
        \/ \E k \in DOMAIN proc, port \in Port : Listen(k, port)
        \/ \E b \in BOOLEAN : WaitFails(b)
    BY DEF Next, vars, Connect, Register, Rewrite, Route, Exhausted, Verify, VerifyFails, Send, Run,
       Reply, Break, Disconnect, SelectVerified, ReadEntry, WriteEntry, Tell, Health, HealthFails,
       ForgetQuit, Registered, BeginSelect, Quit
  \* A process more, with a pid that nothing had.
  <1>n. ASSUME NEW p \in Pid, NEW e \in Procs, os[p] = 0, Len(proc) < MaxProcs,
               proc' = Append(proc, e), UNCHANGED <<host, up>>,
               os' \in [Pid -> 0 .. Other],
               \A h \in up : PidOf(h) # p => os'[PidOf(h)] = os[PidOf(h)]
        PROVE  MachineInv'
    <2>1. proc' \in Seq(Procs) /\ Len(proc') = Len(proc) + 1
      BY <1>n, <1>t
    <2>2. \A h \in up : PidOf(h) # p
      BY <1>n, <1>r, <1>h, <1>t
    <2>3. \A h \in up' : os'[PidOf(h)'] = host'[h].k
      BY <1>n, <1>r, <1>h, <1>t, <2>2
    <2> QED BY <1>n, <1>t, <1>h, <2>1, <2>3 DEF MachineInv
  <1>1. ASSUME NEW p \in Pid, Crash(p) PROVE MachineInv'
    <2>1. \A h \in up' : h \in up /\ PidOf(h) # p
      BY <1>1 DEF Crash
    <2>2. os' = [os EXCEPT ![p] = 0] /\ UNCHANGED <<proc, host>>
      BY <1>1 DEF Crash
    <2>3. os' \in [Pid -> 0 .. Other]
      BY <1>t, <2>2
    <2>4. \A h \in up' : os'[PidOf(h)'] = host'[h].k
      BY <1>t, <1>r, <1>h, <2>1, <2>2
    <2> QED BY <1>t, <1>h, <2>1, <2>2, <2>3, <2>4 DEF MachineInv
  <1>2. ASSUME NEW p \in Pid, TakePid(p) PROVE MachineInv'
    <2>1. os[p] = 0 /\ os' = [os EXCEPT ![p] = Other] /\ UNCHANGED <<proc, host, up>>
      BY <1>2 DEF TakePid, Free
    <2>2. os' \in [Pid -> 0 .. Other]
      BY <1>t, <2>1
    <2>3. \A h \in up : PidOf(h) # p
      BY <1>r, <1>h, <1>t, <2>1
    <2>4. \A h \in up' : os'[PidOf(h)'] = host'[h].k
      BY <1>t, <1>r, <1>h, <2>1, <2>3
    <2> QED BY <1>t, <1>h, <2>1, <2>2, <2>4 DEF MachineInv
  <1>3. ASSUME NEW p \in Pid, NEW gui \in Opens, Open(p, gui) PROVE MachineInv'
    <2> DEFINE e == [pid |-> p, gui |-> gui, launch |-> 0]
    <2>1. e \in Procs
      BY FleetAssumption DEF Procs
    <2>2. /\ os[p] = 0 /\ Len(proc) < MaxProcs /\ proc' = Append(proc, e)
          /\ UNCHANGED <<host, up>> /\ os' = [os EXCEPT ![p] = Len(proc) + 1]
      BY <1>3 DEF Open, Free
    <2> HIDE DEF e
    <2>3. os' \in [Pid -> 0 .. Other]
      BY <1>t, <2>2
    <2> QED BY <1>n, <1>h, <1>t, <2>1, <2>2, <2>3
  <1>4. ASSUME NEW p \in Pid, NEW gui \in Launches, NEW r \in Asked, Spawn(p, gui, r)
        PROVE  MachineInv'
    <2> DEFINE e == [pid |-> p, gui |-> gui, launch |-> locals + 1]
    <2>1. e \in Procs
      <3>1. locals + 1 \in 0 .. MaxLocal
        BY <1>4, FleetAssumption DEF Spawn, Begin, IInv, LocInv
      <3> QED BY <3>1, FleetAssumption DEF Procs
    <2>2. /\ os[p] = 0 /\ Len(proc) < MaxProcs /\ proc' = Append(proc, e)
          /\ UNCHANGED <<host, up>> /\ os' = [os EXCEPT ![p] = Len(proc) + 1]
      BY <1>4 DEF Spawn, Free
    <2> HIDE DEF e
    <2>3. os' \in [Pid -> 0 .. Other]
      BY <1>t, <2>2
    <2> QED BY <1>n, <1>h, <1>t, <2>1, <2>2, <2>3
  <1>5. ASSUME NEW p \in Pid, NEW k \in DOMAIN proc, HandOff(k, p) PROVE MachineInv'
    <2> DEFINE e == [proc[k] EXCEPT !.pid = p]
               left == proc[k].pid
    <2>1. e \in Procs
      BY <1>u DEF Procs
    <2>2. /\ os[p] = 0 /\ Len(proc) < MaxProcs /\ proc' = Append(proc, e) /\ os[left] = k
          /\ UNCHANGED <<host, up>> /\ os' = [os EXCEPT ![p] = Len(proc) + 1, ![left] = 0]
          /\ \A h \in DOMAIN host : host[h].k # k
      BY <1>5 DEF HandOff, Free
    <2>o. left \in Pid
      BY <1>u
    <2> HIDE DEF e, left
    <2>3. os' \in [Pid -> 0 .. Other]
      BY <1>t, <2>2, <2>o
    <2>4. \A h \in up : PidOf(h) # left
      BY <1>r, <1>t, <2>2
    <2>5. \A h \in up : PidOf(h) # p => os'[PidOf(h)] = os[PidOf(h)]
      BY <1>t, <1>h, <2>2, <2>4
    <2> QED BY <1>n, <2>1, <2>2, <2>3, <2>5
  <1>6. ASSUME NEW h \in DOMAIN host, Stop(h) PROVE MachineInv'
    <2>1. up' \subseteq up /\ UNCHANGED <<proc, os, host>>
      BY <1>6 DEF Stop
    <2> QED BY <1>t, <1>r, <1>h, <2>1 DEF MachineInv
  <1>7. ASSUME NEW k \in DOMAIN proc, NEW port \in Port, Listen(k, port) PROVE MachineInv'
    <2> DEFINE e == [k |-> k, port |-> port]
    <2>1. /\ os[proc[k].pid] = k /\ Len(host) < MaxHosts /\ host' = Append(host, e)
          /\ up' = up \cup {Len(host) + 1} /\ UNCHANGED <<proc, os>>
      BY <1>7 DEF Listen
    <2>2. e \in Hosts /\ e.k = k
      BY <1>t DEF Hosts
    <2> HIDE DEF e
    <2>3. host' \in Seq(Hosts) /\ Len(host') = Len(host) + 1 /\ host'[Len(host) + 1] = e
      BY <1>t, <2>1, <2>2
    <2>4. \A h \in DOMAIN host' : h \in DOMAIN host \/ h = Len(host) + 1
      BY <1>t, <2>3
    <2>5. \A h \in DOMAIN host' : host'[h].k \in DOMAIN proc'
      BY <1>h, <2>1, <2>2, <2>3, <2>4
    <2>6. \A h \in up' : os'[PidOf(h)'] = host'[h].k
      <3> TAKE h \in up'
      <3>1. CASE h = Len(host) + 1
        BY <1>t, <2>1, <2>2, <2>3, <3>1 DEF PidOf
      <3>2. CASE h \in up
        BY <1>t, <1>r, <1>h, <2>1, <3>2
      <3> QED BY <2>1, <3>1, <3>2
    <2>7. up' \subseteq DOMAIN host'
      BY <1>t, <2>1, <2>3
    <2> QED BY <1>t, <2>1, <2>3, <2>5, <2>6, <2>7 DEF MachineInv
  <1>8. ASSUME NEW b \in BOOLEAN, WaitFails(b) PROVE MachineInv'
    <2> DEFINE p == proc[loc.k].pid
    <2>1. CASE UNCHANGED machine
      BY <1>s, <2>1
    <2>2. CASE os[p] = loc.k /\ os' = [os EXCEPT ![p] = 0] /\ up' = {h \in up : host[h].k # loc.k}
      <3>0. p \in Pid
        <4>1. loc.k \in 1 .. Len(proc)
          BY <1>8, <1>t DEF WaitFails, IInv, LocInv, Locs
        <4> QED BY <1>t, <1>u, <4>1
      <3>1. UNCHANGED <<proc, host>>
        BY <1>8 DEF WaitFails
      <3>3. \A h \in up' : h \in up /\ PidOf(h) # p
        BY <1>r, <2>2
      <3> HIDE DEF p
      <3>2. os' \in [Pid -> 0 .. Other]
        BY <1>t, <2>2, <3>0
      <3>4. \A h \in up' : os'[PidOf(h)'] = host'[h].k
        BY <1>t, <1>r, <1>h, <2>2, <3>1, <3>3
      <3> QED BY <1>t, <1>h, <3>1, <3>2, <3>3, <3>4 DEF MachineInv
    <2> QED BY <1>8, <2>1, <2>2 DEF WaitFails, machine
  <1> QED BY <1>a, <1>s, <1>1, <1>2, <1>3, <1>4, <1>5, <1>6, <1>7, <1>8

-----------------------------------------------------------------------------
(* The files. *)

\* Files that go leave the others.
LEMMA FilesGo ==
  ASSUME FileInv, NEW x
  PROVE  LET f == [file EXCEPT ![x] = 0] IN
           f \in [Pid -> Nat] /\ \A p \in Pid : f[p] \in {0, file[p]}
  <1>1. file \in [Pid -> Nat]
    BY DEF FileInv
  <1>2. CASE x \in Pid
    BY <1>1, <1>2
  <1>3. CASE x \notin Pid
    <2>1. [file EXCEPT ![x] = 0] = file
      BY <1>1, <1>3
    <2> QED BY <1>1, <2>1
  <1> QED BY <1>2, <1>3

LEMMA PrunedGo ==
  FileInv => Pruned \in [Pid -> Nat] /\ \A p \in Pid : Pruned[p] \in {0, file[p]}
  BY DEF FileInv, Pruned

\* What a step may do to the files: they go, or one is written for a host of its pid.
LEMMA FileMoves ==
  ASSUME IInv, [Next]_vars
  PROVE  \/ file' \in [Pid -> Nat] /\ \A p \in Pid : file'[p] \in {0, file[p]}
         \/ \E h \in up : Register(h) \/ Rewrite(h)
         \/ WriteEntry
  <1>q. FileInv
    BY DEF IInv
  <1>1. \/ UNCHANGED file
        \/ file' = Pruned
        \/ \E x : file' = [file EXCEPT ![x] = 0]
        \/ \E h \in DOMAIN host : Register(h) \/ Rewrite(h)
        \/ WriteEntry
    BY DEF Next, vars, machine, bridge, Crash, TakePid, Open, Spawn, HandOff, Connect, Stop, Listen,
       Route, Observe, Exhausted, Verify, VerifyFails, Send, Run, Reply, Break, Forget, Disconnect,
       SelectVerified, ReadEntry, Tell, Health, HealthFails, ForgetQuit, Registered, BeginSelect,
       Quit, WaitFails
  <1>2. CASE UNCHANGED file
    BY <1>q, <1>2 DEF FileInv
  <1>3. CASE \E h \in DOMAIN host : Register(h) \/ Rewrite(h)
    BY <1>q, <1>3 DEF Register, Rewrite, FileInv
  <1> QED BY <1>q, <1>1, <1>2, <1>3, FilesGo, PrunedGo

\* A host with an entry listens.
LEMMA EntryStep == IInv /\ [Next]_vars => entered' \subseteq up'
  <1> SUFFICES ASSUME IInv, [Next]_vars PROVE entered' \subseteq up'
    OBVIOUS
  <1>1. entered \subseteq up
    BY DEF IInv, FileInv
  <1>2. CASE UNCHANGED <<entered, up>>
    BY <1>1, <1>2
  <1>3. \/ UNCHANGED <<entered, up>>
        \/ entered' = entered \cap up'
        \/ \E h \in DOMAIN host : Register(h) \/ Stop(h)
        \/ \E k \in DOMAIN proc, port \in Port : Listen(k, port)
    BY DEF Next, vars, machine, bridge, Crash, TakePid, Open, Spawn, HandOff, Connect, Rewrite,
       Route, Exhausted, Verify, VerifyFails, Send, Run, Reply, Break, Disconnect,
       SelectVerified, ReadEntry, WriteEntry, Tell, Health, HealthFails, ForgetQuit, Registered,
       BeginSelect, Quit, WaitFails
  <1>4. CASE \E h \in DOMAIN host : Register(h) \/ Stop(h)
    BY <1>1, <1>4 DEF Register, Stop, machine
  <1>5. CASE \E k \in DOMAIN proc, port \in Port : Listen(k, port)
    BY <1>1, <1>5 DEF Listen
  <1> QED BY <1>2, <1>3, <1>4, <1>5

\* Each step keeps a host of its own pid in each file.
LEMMA FileStep == IInv /\ [Next]_vars => FileInv'
  <1> SUFFICES ASSUME IInv, [Next]_vars PROVE FileInv'
    OBVIOUS
  <1>q. MachineInv /\ FileInv /\ LocInv
    BY DEF IInv
  <1>t. /\ file \in [Pid -> Nat] /\ Len(host) \in Nat /\ Len(host') \in Nat
        /\ DOMAIN host = 1 .. Len(host) /\ Len(host) <= Len(host')
    BY <1>q, Grows, MachineStep DEF FileInv, MachineInv, IInv
  <1>f. \A p \in Pid : file[p] # 0 => file[p] \in DOMAIN host /\ PidOf(file[p]) = p
    BY <1>q, <1>t DEF FileInv
  <1>h. \A h \in DOMAIN host :
          h # 0 /\ h \in Nat /\ h <= Len(host) /\ PidOf(h)' = PidOf(h) /\ PidOf(h) \in Pid
    BY <1>q, HostsStay
  <1>n. ASSUME file' \in [Pid -> Nat],
               \A p \in Pid : \/ file'[p] \in {0, file[p]}
                              \/ file'[p] \in DOMAIN host /\ PidOf(file'[p]) = p
        PROVE  FileInv'
    <2>1. \A p \in Pid : file'[p] # 0 => file'[p] \in DOMAIN host /\ PidOf(file'[p]) = p
      BY <1>n, <1>f
    <2>2. \A p \in Pid : file'[p] # 0 => PidOf(file[p])' = p
      <3> TAKE p \in Pid
      <3>1. \A h \in DOMAIN host : h = file'[p] => PidOf(h)' = p
        BY <1>h, <2>1
      <3> QED BY <2>1, <3>1 DEF PidOf
    <2>3. \A p \in Pid : file'[p] <= Len(host')
      BY <1>n, <1>t, <1>h, <2>1
    <2>4. entered' \subseteq up'
      BY EntryStep
    <2> QED BY <1>n, <2>2, <2>3, <2>4 DEF FileInv
  <1>1. CASE file' \in [Pid -> Nat] /\ \A p \in Pid : file'[p] \in {0, file[p]}
    BY <1>1, <1>n
  <1>2. ASSUME NEW h \in up, Register(h) \/ Rewrite(h) PROVE FileInv'
    <2>1. h \in DOMAIN host
      BY <1>q DEF MachineInv
    <2>2. \/ file' = [Pruned EXCEPT ![PidOf(h)] = h]
          \/ file' = [file EXCEPT ![PidOf(h)] = h]
      BY <1>2 DEF Register, Rewrite
    <2>3. Pruned \in [Pid -> Nat] /\ \A p \in Pid : Pruned[p] \in {0, file[p]}
      BY <1>q, PrunedGo
    <2> HIDE DEF Pruned
    <2>4. PidOf(h) \in Pid /\ h \in Nat
      BY <1>h, <2>1
    <2> QED BY <1>n, <1>t, <2>1, <2>2, <2>3, <2>4
  <1>3. CASE WriteEntry
    <2>1. loc.got # 0 /\ file' = [file EXCEPT ![loc.todo[1]] = loc.got]
      BY <1>3 DEF WriteEntry
    <2>2. loc.got \in DOMAIN host /\ PidOf(loc.got) = loc.todo[1]
      BY <1>q, <1>t, <2>1 DEF LocInv, Locs
    <2> QED BY <1>n, <1>t, <1>h, <2>1, <2>2
  <1> QED BY <1>1, <1>2, <1>3, FileMoves

-----------------------------------------------------------------------------
(* What the bridge chooses. *)

\* The pin or the preferred one, of those there are.
Best == IF pin # NoPid THEN At(Live, pin) ELSE First(Live)

LEMMA BestIsLive ==
  ASSUME MachineInv, FileInv, BridgeInv,
         pin # NoPid => At(Live, pin) # 0, pin = NoPid => Live # {}
  PROVE  Best \in Live
  <1>1. Live \in SUBSET DOMAIN host
    BY LiveIs
  <1>2. CASE pin = NoPid
    BY <1>1, <1>2, FirstIsOne DEF Best
  <1>3. CASE pin # NoPid
    BY <1>3, AtIs DEF Best, BridgeInv
  <1> QED BY <1>2, <1>3

\* A call that is not refused has a live Houdini.
LEMMA SelectedIsLive ==
  ASSUME MachineInv, FileInv, BridgeInv, NEW c, Refusal(c) = "none"
  PROVE  Best \in Live
  <1>1. ~detached
    BY DEF Refusal
  <1>2. pin # NoPid => At(Live, pin) # 0
    BY <1>1 DEF Refusal
  <1>3. pin = NoPid => Live # {}
    BY <1>1 DEF Refusal
  <1> QED BY <1>2, <1>3, BestIsLive

\* Each step keeps the pin and the targets real.
LEMMA BridgeStep == IInv /\ [Next]_vars => BridgeInv'
  <1> SUFFICES ASSUME IInv, [Next]_vars PROVE BridgeInv'
    OBVIOUS
  <1>q. MachineInv /\ FileInv /\ BridgeInv /\ LocInv /\ CallInv
    BY DEF IInv
  <1>h. /\ Len(host) \in Nat /\ Len(host') \in Nat /\ Len(host) <= Len(host')
        /\ DOMAIN host = 1 .. Len(host) /\ DOMAIN host' = 1 .. Len(host')
    BY <1>q, Grows, MachineStep DEF MachineInv, IInv
  <1>t. /\ pin \in Pid \cup {NoPid} /\ detached \in BOOLEAN
        /\ last \in 0 .. Len(host) /\ prev \in 0 .. Len(host) /\ verified \subseteq DOMAIN host
    BY <1>q DEF BridgeInv
  <1>s. CASE UNCHANGED <<chosen, verified>>
    BY <1>h, <1>t, <1>s DEF BridgeInv, chosen
  <1>l. loc.pc = "health" => loc.h \in DOMAIN host
    BY <1>q, <1>h DEF LocInv, Locs
  <1>c. \A c \in Call : pc[c] = "verify" => at[c] \in DOMAIN host
    <2>1. at \in [Call -> Nat] /\ \A c \in Call : SentOnce(c)
      BY <1>q DEF CallInv, CallTypes
    <2>2. \A c \in Call : pc[c] = "verify" => at[c] # 0 /\ at[c] <= Len(host)
      BY <2>1 DEF SentOnce
    <2> QED BY <1>h, <2>1, <2>2
  <1>a. \/ UNCHANGED <<chosen, verified>>
        \/ \E c \in Call : Route(c) \/ Verify(c) \/ Send(c)
        \/ Disconnect \/ Health \/ ForgetQuit
        \/ \E op \in {"status", "auto", "quit"} : BeginSelect(op)
    BY DEF Next, vars, bridge, Crash, TakePid, Open, Spawn, HandOff, Connect, Register, Rewrite,
       Stop, Listen, Exhausted, VerifyFails, Run, Reply, Break, SelectVerified, ReadEntry,
       WriteEntry, Tell, HealthFails, Registered, Quit, WaitFails
  <1>f. ASSUME NEW h, Forget(h), UNCHANGED <<pin, detached, prev>> PROVE BridgeInv'
    <2>1. last' \in {last, prev} /\ verified' \subseteq verified
      BY <1>f DEF Forget
    <2> QED BY <1>f, <1>h, <1>t, <2>1 DEF BridgeInv
  <1>1. ASSUME NEW c \in Call, Route(c) PROVE BridgeInv'
    <2>1. CASE to[c].by \in {"edit", "read"} /\ Refusal(c) = "none"
      <3>1. last' = Best /\ prev' = last /\ UNCHANGED <<pin, detached, verified>>
        BY <1>1, <2>1 DEF Route, Select, Best, Automatic
      <3>2. Best \in DOMAIN host
        BY <1>q, <2>1, SelectedIsLive, LiveIs
      <3> QED BY <1>h, <1>t, <3>1, <3>2 DEF BridgeInv
    <2>2. CASE ~(to[c].by \in {"edit", "read"} /\ Refusal(c) = "none")
      <3>1. UNCHANGED <<pin, detached, verified, last, prev>>
        BY <1>1, <2>2 DEF Route, Select, Pick, Automatic
      <3> QED BY <1>s, <3>1 DEF chosen
    <2> QED BY <2>1, <2>2
  <1>2. ASSUME NEW c \in Call, Verify(c) PROVE BridgeInv'
    <2>1. UNCHANGED <<pin, detached, prev>>
      BY <1>2 DEF Verify
    <2>2. CASE Stale(at[c])
      BY <1>2, <1>f, <2>1, <2>2 DEF Verify
    <2>3. CASE ~Stale(at[c])
      <3>1. verified' = verified \cup {at[c]} /\ last' = last /\ at[c] \in DOMAIN host
        BY <1>2, <1>c, <2>3 DEF Verify
      <3> QED BY <1>h, <1>t, <2>1, <3>1 DEF BridgeInv
    <2> QED BY <2>2, <2>3
  <1>3. ASSUME NEW c \in Call, Send(c) PROVE BridgeInv'
    <2>1. UNCHANGED <<pin, detached, prev>>
      BY <1>3 DEF Send
    <2>2. UNCHANGED <<last, verified>> \/ Forget(at[c])
      BY <1>3 DEF Send
    <2> QED BY <1>f, <1>s, <2>1, <2>2 DEF chosen
  <1>4. CASE Disconnect
    BY <1>4, <1>h, <1>t DEF Disconnect, BridgeInv
  <1>5. CASE Health
    <2>1. CASE Stale(loc.h)
      <3>1. Forget(loc.h) /\ UNCHANGED <<pin, detached, prev>>
        BY <1>5, <2>1 DEF Health
      <3> QED BY <1>f, <3>1
    <2>2. CASE ~Stale(loc.h)
      <3>1. /\ verified' = verified \cup {loc.h} /\ last' = loc.h /\ prev' = prev
            /\ detached' \in BOOLEAN /\ (pin' = pin \/ pin' = PidOf(loc.h))
        BY <1>5, <2>2 DEF Health
      <3>2. loc.h \in DOMAIN host /\ PidOf(loc.h) \in Pid
        BY <1>5, <1>l, <1>q, HostsStay DEF Health
      <3> QED BY <1>h, <1>t, <3>1, <3>2 DEF BridgeInv
    <2> QED BY <2>1, <2>2
  <1>6. CASE ForgetQuit
    <2>1. /\ pin' \in {pin, NoPid} /\ last' \in {last, 0}
          /\ UNCHANGED <<detached, prev, verified>>
      BY <1>6 DEF ForgetQuit
    <2> QED BY <1>h, <1>t, <2>1 DEF BridgeInv
  <1>7. ASSUME NEW op \in {"status", "auto", "quit"}, BeginSelect(op) PROVE BridgeInv'
    BY <1>7, <1>h, <1>t DEF BeginSelect, BridgeInv
  <1> QED BY <1>a, <1>s, <1>1, <1>2, <1>3, <1>4, <1>5, <1>6, <1>7

-----------------------------------------------------------------------------
(* The rows of the ledger. *)

\* Each step keeps the roles of the rows given.
LEMMA RowStep == IInv /\ [Next]_vars => RowInv'
  <1> SUFFICES ASSUME IInv, [Next]_vars PROVE RowInv'
    OBVIOUS
  <1>q. MachineInv /\ FileInv /\ RowInv /\ LocInv
    BY DEF IInv
  <1>h. /\ Len(host) \in Nat /\ Len(host') \in Nat /\ Len(host) <= Len(host')
        /\ DOMAIN host = 1 .. Len(host) /\ MaxHosts \in Nat /\ Len(host) <= MaxHosts
    BY <1>q, Grows, MachineStep, FleetAssumption DEF MachineInv, IInv
  <1>t. /\ row \in [Pid -> Rows]
        /\ given \in [Host -> SUBSET Roles] /\ unseen \in [Host -> SUBSET Roles]
    BY <1>q DEF RowInv
  <1>r. \A p \in Pid :
          /\ row[p].h \in Nat /\ row[p].role \in Roles \cup {"none"} /\ row[p].known \in BOOLEAN
          /\ row[p].h <= Len(host)
          /\ row[p].h # 0 => row[p].h \in Host
          /\ row[p].h # 0 /\ row[p].role \in Roles => row[p].role \in Granted(row[p].h)
    BY <1>q, <1>h DEF RowInv, Rows, Host
  <1>s. CASE UNCHANGED <<row, history>>
    BY <1>h, <1>t, <1>r, <1>s DEF RowInv, history, Granted
  <1>a. \/ UNCHANGED <<row, history>> \/ Observe \/ Tell
    BY DEF Next, vars, history, bridge, Crash, TakePid, Open, Spawn, HandOff, Connect, Register, Rewrite,
       Stop, Listen, Route, Exhausted, Verify, VerifyFails, Send, Run, Reply, Break, Disconnect,
       SelectVerified, ReadEntry, WriteEntry, Health, HealthFails, ForgetQuit, Registered,
       BeginSelect, Quit, WaitFails
  <1>1. CASE Observe
    <2>1. /\ row' = Observed
          /\ unseen' = [h \in Host |-> unseen[h] \cup
               IF h \in Live /\ row[PidOf(h)].h = 0 THEN {row[PidOf(h)].role} \cap Roles ELSE {}]
          /\ given' = given
      BY <1>1 DEF Observe
    <2>2. /\ given' \in [Host -> SUBSET Roles] /\ unseen' \in [Host -> SUBSET Roles]
          /\ \A h \in Host : Granted(h) \subseteq Granted(h)'
      BY <1>t, <2>1 DEF Granted
    <2>3. \A p \in Pid : At(Live, p) # 0 =>
            At(Live, p) \in DOMAIN host /\ At(Live, p) \in Live /\ PidOf(At(Live, p)) = p
      BY <1>q, AtIs, LiveIs
    <2>4. ASSUME NEW p \in Pid
          PROVE  /\ row'[p] \in Rows /\ row'[p].h <= Len(host')
                 /\ row'[p].h # 0 /\ row'[p].role \in Roles => row'[p].role \in Granted(row[p].h)'
      <3> DEFINE g == At(Live, p)
      <3>1. CASE g = 0
        <4>1. row'[p] = row[p]
          BY <2>1, <3>1 DEF Observed
        <4> QED BY <1>h, <1>r, <1>t, <2>2, <4>1
      <3>2. CASE g # 0
        <4>1. row'[p] = [h |-> g, known |-> TRUE,
                role |-> IF row[p].h \in {0, g} THEN row[p].role ELSE "none"]
          BY <2>1, <3>2 DEF Observed
        <4>2. g \in DOMAIN host /\ g \in Live /\ PidOf(g) = p /\ g \in Host /\ g \in Nat
          BY <1>h, <2>3, <3>2 DEF Host
        <4> HIDE DEF g
        <4>3. row'[p] \in Rows /\ row'[p].h = g
          BY <1>r, <4>1, <4>2 DEF Rows
        <4>4. CASE row[p].h = 0
          <5>1. row'[p].role = row[p].role
            BY <4>1, <4>4
          <5>2. unseen'[g] = unseen[g] \cup
                  IF g \in Live /\ row[PidOf(g)].h = 0 THEN {row[PidOf(g)].role} \cap Roles ELSE {}
            BY <2>1, <4>2
          <5>3. row'[p].role \in Roles => row'[p].role \in given'[g] \cup unseen'[g]
            BY <4>2, <4>4, <5>1, <5>2
          <5>4. row'[p].h <= Len(host')
            BY <1>h, <4>2, <4>3
          <5>5. row'[p].h # 0 /\ row'[p].role \in Roles => row'[p].role \in Granted(row[p].h)'
            BY <4>3, <5>3 DEF Granted
          <5> QED BY <4>3, <5>4, <5>5
        <4>5. CASE row[p].h = g
          <5>1. row'[p].role = row[p].role
            BY <4>1, <4>5
          <5> QED BY <1>h, <1>r, <2>2, <3>2, <4>2, <4>3, <4>5, <5>1
        <4>6. CASE row[p].h \notin {0, g}
          <5>1. row'[p].role = "none"
            BY <4>1, <4>6
          <5> QED BY <1>h, <4>2, <4>3, <5>1 DEF Roles
        <4> QED BY <4>4, <4>5, <4>6
      <3> QED BY <3>1, <3>2
    <2>5. row' \in [Pid -> Rows]
      BY <2>1, <2>4 DEF Observed
    <2> QED BY <2>2, <2>4, <2>5 DEF RowInv
  <1>2. CASE Tell
    <2> DEFINE p == PidOf(loc.h)
               r == IF loc.role = "none" THEN row[p].role ELSE loc.role
    <2>1. /\ row' = [row EXCEPT ![p].known = TRUE, ![p].role = r]
          /\ given' = [h \in Host |-> given[h] \cup
                         IF h \in {loc.h, row[p].h} THEN {loc.role} \cap Roles ELSE {}]
          /\ unseen' = unseen
      BY <1>2 DEF Tell
    <2>2. p \in Pid
      <3>1. loc.h \in DOMAIN host
        BY <1>2, <1>q, <1>h DEF Tell, LocInv, Locs
      <3> QED BY <1>q, <3>1, HostsStay
    <2>3. loc.role \in Roles \cup {"none"}
      BY <1>q DEF LocInv, Locs
    <2> HIDE DEF p
    <2>4. r \in Roles \cup {"none"}
      BY <1>r, <2>2, <2>3
    <2>5. /\ given' \in [Host -> SUBSET Roles] /\ unseen' \in [Host -> SUBSET Roles]
          /\ \A h \in Host : Granted(h) \subseteq Granted(h)'
      BY <1>t, <2>1 DEF Granted
    <2>6. \A q \in Pid \ {p} : row'[q] = row[q]
      BY <1>t, <2>1, <2>2
    <2>7. row'[p].h = row[p].h /\ row'[p].role = r /\ row'[p] \in Rows
      <3>1. row[p] \in Rows
        BY <1>t, <2>2
      <3>2. row'[p] = [[row[p] EXCEPT !.known = TRUE] EXCEPT !.role = r]
        BY <1>t, <2>1, <2>2
      <3> HIDE DEF r
      <3> QED BY <2>4, <3>1, <3>2 DEF Rows
    <2>8. ASSUME NEW g \in Host, row[p].h = g, r \in Roles PROVE r \in Granted(g)'
      <3>1. CASE loc.role = "none"
        BY <1>r, <2>2, <2>5, <2>8, <3>1, <1>h DEF Host
      <3>2. CASE loc.role # "none"
        BY <2>1, <2>3, <2>8, <3>2 DEF Granted
      <3> QED BY <3>1, <3>2
    <2> HIDE DEF r
    <2>9. row' \in [Pid -> Rows]
      BY <1>t, <2>1, <2>2, <2>6, <2>7
    <2> QED BY <1>h, <1>r, <2>2, <2>5, <2>6, <2>7, <2>8, <2>9 DEF RowInv
  <1> QED BY <1>a, <1>s, <1>1, <1>2

-----------------------------------------------------------------------------
(* The local tools. *)

LEMMA IdleIs == Idle \in Locs
  BY DEF Idle, Locs

\* What a connection goes on with.
LEMMA ChosenIs ==
  ASSUME MachineInv, FileInv, loc \in Locs, NEW h \in Live, NEW names \in BOOLEAN,
         NEW role \in Roles \cup {"none"}, NEW next \in Chosen(h, names, role)
  PROVE  /\ next \in Locs /\ next.h = h /\ next.h \in DOMAIN host
         /\ next.pc \in {"edit", "tell", "health"}
         /\ next.op = loc.op /\ next.got = loc.got /\ next.k = loc.k
  <1>1. PICK todo \in Naming(h, names) :
          next = [loc EXCEPT !.h = h, !.role = role, !.todo = todo,
            !.pc = IF names THEN "edit" ELSE IF role # "none" THEN "tell" ELSE "health"]
    BY DEF Chosen
  <1>2. \A g \in Live : g \in DOMAIN host /\ g \in Nat /\ PidOf(g) \in Pid
    BY LiveIs DEF MachineInv
  <1>3. todo \in Seq(Pid)
    <2>1. \/ todo = <<>> \/ todo = <<PidOf(h)>>
          \/ \E g \in Live : todo = <<PidOf(g), PidOf(h)>>
      BY DEF Naming
    <2>2. \A x, y \in Pid : <<x>> \in Seq(Pid) /\ <<x, y>> \in Seq(Pid)
      OBVIOUS
    <2>3. <<>> \in Seq(Pid)
      OBVIOUS
    <2> QED BY <1>2, <2>1, <2>2, <2>3
  <1> DEFINE pcn == IF names THEN "edit" ELSE IF role # "none" THEN "tell" ELSE "health"
  <1>4. pcn \in {"edit", "tell", "health"}
    OBVIOUS
  <1> HIDE DEF pcn
  <1>5. next = [loc EXCEPT !.h = h, !.role = role, !.todo = todo, !.pc = pcn]
    BY <1>1 DEF pcn
  <1> QED BY <1>2, <1>3, <1>4, <1>5 DEF Locs

\* One that gives no name has no entry to edit.
LEMMA UnnamedIs ==
  ASSUME loc \in Locs, NEW h, NEW role, NEW next \in Chosen(h, FALSE, role)
  PROVE  next.pc # "edit"
  <1>1. PICK todo \in Naming(h, FALSE) :
          next = [loc EXCEPT !.h = h, !.role = role, !.todo = todo,
                             !.pc = IF role # "none" THEN "tell" ELSE "health"]
    BY DEF Chosen
  <1> QED BY <1>1 DEF Locs

\* What is found is live.
LEMMA FoundIsLive ==
  ASSUME MachineInv, FileInv, LocInv, loc.pc = "wait", NEW h \in Found
  PROVE  /\ h \in Live
         /\ WaitInv /\ ~proc[loc.k].gui => proc[host[h].k].launch # 0
  <1> DEFINE p == proc[loc.k].pid
  <1>1. p \in Pid
    <2>1. loc.k \in 1 .. Len(proc)
      BY DEF LocInv, Locs
    <2>2. proc[loc.k] \in Procs
      BY <2>1 DEF MachineInv
    <2> QED BY <2>2 DEF Procs
  <1>2. CASE At(Live, p) # 0
    <2>1. h = At(Live, p)
      BY <1>2 DEF Found
    <2>2. h \in Live /\ h = file[p] /\ h # 0
      BY <1>1, <1>2, <2>1, AtIs
    <2> QED BY <2>2 DEF WaitInv
  <1>3. CASE At(Live, p) = 0
    BY <1>3 DEF Found, New
  <1> QED BY <1>2, <1>3

\* Each step keeps what the local tool under way names.
LEMMA LocStep == IInv /\ [Next]_vars => LocInv'
  <1> SUFFICES ASSUME IInv, [Next]_vars PROVE LocInv'
    OBVIOUS
  <1>q. MachineInv /\ FileInv /\ BridgeInv /\ RowInv /\ LocInv /\ WaitInv
    BY DEF IInv
  <1>h. /\ Len(host) \in Nat /\ Len(host') \in Nat /\ Len(host) <= Len(host')
        /\ DOMAIN host = 1 .. Len(host)
        /\ Len(proc) \in Nat /\ Len(proc') \in Nat /\ Len(proc) <= Len(proc')
        /\ DOMAIN proc = 1 .. Len(proc)
    BY <1>q, Grows, MachineStep DEF MachineInv, IInv
  <1>t. /\ loc.op \in {"none", "status", "auto", "quit", "connect", "launch", "launched"}
        /\ loc.pc \in {"idle", "select", "edit", "tell", "health", "quit", "forget", "wait"}
        /\ loc.h \in Nat /\ loc.role \in Roles \cup {"none"} /\ loc.todo \in Seq(Pid)
        /\ loc.got \in Nat /\ loc.tries \in Nat /\ loc.k \in Nat /\ loc.before \in SUBSET Pid
        /\ loc \in Locs /\ locals \in 0 .. MaxLocal /\ MaxLocal \in Nat
    BY <1>q, FleetAssumption DEF LocInv, Locs
  <1>o. /\ loc.h <= Len(host) /\ loc.got <= Len(host) /\ loc.k <= Len(proc)
        /\ loc.pc \in {"edit", "tell", "health", "quit", "forget"} => loc.h # 0
        /\ loc.got # 0 => loc.pc = "edit" /\ loc.todo # <<>> /\ PidOf(loc.got) = loc.todo[1]
        /\ loc.pc = "wait" <=> loc.op = "launch"
        /\ loc.op = "launched" => loc.pc \in {"tell", "health"}
        /\ loc.op \in {"launch", "launched"} => loc.k # 0
    BY <1>q DEF LocInv
  <1>b. \A with : \A op : Begin(op, with) =>
          loc = Idle /\ loc' = with /\ locals' \in 0 .. MaxLocal
    BY <1>t DEF Begin
  \* Hosts and processes that there were are as they were.
  <1>n. ASSUME loc' \in Locs, locals' \in 0 .. MaxLocal,
               loc'.h <= Len(host), loc'.got <= Len(host), loc'.k <= Len(proc'),
               loc'.pc \in {"edit", "tell", "health", "quit", "forget"} => loc'.h # 0,
               loc'.got # 0 => /\ loc'.pc = "edit" /\ loc'.todo # <<>>
                               /\ PidOf(loc'.got) = loc'.todo[1],
               loc'.pc = "wait" <=> loc'.op = "launch",
               loc'.op = "launched" =>
                 /\ loc'.pc \in {"tell", "health"} /\ loc'.k <= Len(proc) /\ loc'.h # 0
                 /\ ~proc[loc'.k].gui => proc[host[loc'.h].k].launch # 0,
               loc'.op \in {"launch", "launched"} => loc'.k # 0
        PROVE  LocInv'
    <2>1. loc'.h \in Nat /\ loc'.got \in Nat /\ loc'.k \in Nat
      BY <1>n DEF Locs
    <2>2. loc'.got # 0 => PidOf(loc.got)' = loc'.todo[1]
      <3>1. \A h \in DOMAIN host : h = loc'.got => PidOf(h)' = PidOf(h)
        BY <1>q, HostsStay
      <3>2. loc'.got # 0 => loc'.got \in DOMAIN host
        BY <1>n, <1>h, <2>1
      <3> QED BY <1>n, <3>1, <3>2 DEF PidOf
    <2>3. LaunchedIsOurs'
      <3> SUFFICES ASSUME loc'.op = "launched", ~proc'[loc'.k].gui
          PROVE proc'[host'[loc'.h].k].launch # 0
        BY DEF LaunchedIsOurs
      <3>1. loc'.k \in DOMAIN proc /\ loc'.h \in DOMAIN host
        BY <1>n, <1>h, <2>1
      <3>2. proc'[loc'.k] = proc[loc'.k] /\ host'[loc'.h] = host[loc'.h]
        BY <1>q, <3>1, Grows
      <3>3. proc'[host[loc'.h].k] = proc[host[loc'.h].k]
        BY <1>q, <3>1, Grows DEF MachineInv
      <3> QED BY <1>n, <3>2, <3>3
    <2> QED BY <1>n, <1>h, <2>1, <2>2, <2>3 DEF LocInv
  <1>s. CASE UNCHANGED <<loc, locals>>
    BY <1>n, <1>h, <1>t, <1>o, <1>q, <1>s DEF LocInv, LaunchedIsOurs
  <1>i. ASSUME loc' = Idle, locals' \in 0 .. MaxLocal PROVE LocInv'
    BY <1>n, <1>h, <1>i DEF Idle, Locs
  <1>a. \/ UNCHANGED <<loc, locals>>
        \/ loc' = Idle /\ locals' \in 0 .. MaxLocal
        \/ \E op \in {"status", "auto", "quit"} : BeginSelect(op)
        \/ \E p \in Pid, gui \in Launches, r \in Asked : Spawn(p, gui, r)
        \/ \E p \in Pid, names \in BOOLEAN, r \in Asked : Connect(ByPid(p, names, r))
        \/ \E r \in Asked : Connect(ByName(r))
        \/ \E r \in Roles : Connect(ByRole(r))
        \/ SelectVerified \/ ReadEntry \/ WriteEntry \/ Tell \/ Health \/ Registered
        \/ \E agrees \in BOOLEAN : Quit(agrees)
    BY <1>t, <1>b DEF Next, vars, bridge, Crash, TakePid, Open, HandOff, Register, Rewrite,
       Stop, Listen, Route, Exhausted, Verify, VerifyFails, Send, Run, Reply, Break, Disconnect,
       HealthFails, ForgetQuit, WaitFails
  <1>1. ASSUME NEW op \in {"status", "auto", "quit"}, BeginSelect(op) PROVE LocInv'
    <2>1. loc' = [Idle EXCEPT !.op = op, !.pc = "select"] /\ locals' \in 0 .. MaxLocal
      BY <1>1, <1>b DEF BeginSelect
    <2>2. /\ loc'.h = 0 /\ loc'.got = 0 /\ loc'.k = 0 /\ loc'.pc = "select" /\ loc'.op = op
      BY <2>1 DEF Idle
    <2>3. loc' \in Locs
      BY <2>1, IdleIs DEF Locs
    <2> QED BY <1>n, <1>h, <2>1, <2>2, <2>3
  <1>2. ASSUME NEW p \in Pid, NEW gui \in Launches, NEW r \in Asked, Spawn(p, gui, r)
        PROVE  LocInv'
    <2> DEFINE before == {PidOf(h) : h \in Live}
    <2>1. loc' = [Idle EXCEPT !.op = "launch", !.pc = "wait", !.k = Len(proc) + 1, !.role = r,
                              !.before = before]
          /\ locals' \in 0 .. MaxLocal
      BY <1>2, <1>b DEF Spawn
    <2>2. before \in SUBSET Pid
      BY <1>q, LiveIs
    <2>3. r \in Roles \cup {"none"}
      BY FleetAssumption DEF Asked
    <2>4. Len(proc') = Len(proc) + 1
      BY <1>2, <1>q DEF Spawn, MachineInv
    <2> HIDE DEF before
    <2>5. /\ loc'.h = 0 /\ loc'.got = 0 /\ loc'.k = Len(proc) + 1
          /\ loc'.pc = "wait" /\ loc'.op = "launch"
      BY <2>1 DEF Idle
    <2>6. Len(proc) + 1 \in Nat
      BY <1>h
    <2>7. loc' \in Locs
      BY <2>1, <2>2, <2>3, <2>6, IdleIs DEF Locs
    <2> QED BY <1>n, <1>h, <2>1, <2>4, <2>5, <2>7
  \* A connection that starts.
  <1>c. ASSUME NEW h \in Live, NEW names \in BOOLEAN, NEW r \in Roles \cup {"none"},
               NEW next \in Chosen(h, names, r),
               Begin("connect", [next EXCEPT !.op = "connect"])
        PROVE  LocInv'
    <2>1. loc = Idle /\ loc' = [next EXCEPT !.op = "connect"] /\ locals' \in 0 .. MaxLocal
      BY <1>c, <1>b
    <2>2. /\ next \in Locs /\ next.h \in DOMAIN host /\ next.pc \in {"edit", "tell", "health"}
          /\ next.got = loc.got /\ next.k = loc.k
      BY <1>q, <1>t, ChosenIs
    <2>3. loc.got = 0 /\ loc.k = 0
      BY <2>1 DEF Idle
    <2> QED BY <1>n, <1>h, <2>1, <2>2, <2>3 DEF Locs
  <1>g. \A r \in Asked : r \in Roles \cup {"none"}
    BY FleetAssumption DEF Asked
  <1>3. ASSUME NEW p \in Pid, NEW names \in BOOLEAN, NEW r \in Asked, Connect(ByPid(p, names, r))
        PROVE  LocInv'
    <2>1. PICK next \in ByPid(p, names, r) : Begin("connect", [next EXCEPT !.op = "connect"])
      BY <1>3 DEF Connect
    <2>2. At(Live, p) \in Live /\ next \in Chosen(At(Live, p), names, r)
      BY <1>q, <2>1, AtIs DEF ByPid
    <2> QED BY <1>c, <1>g, <2>1, <2>2
  <1>4. ASSUME NEW r \in Asked, Connect(ByName(r)) PROVE LocInv'
    <2>1. PICK next \in ByName(r) : Begin("connect", [next EXCEPT !.op = "connect"])
      BY <1>4 DEF Connect
    <2>2. PICK h \in Live : next \in Chosen(h, FALSE, r)
      BY <2>1 DEF ByName
    <2> QED BY <1>c, <1>g, <2>1, <2>2
  <1>5. ASSUME NEW r \in Roles, Connect(ByRole(r)) PROVE LocInv'
    <2>1. PICK next \in ByRole(r) : Begin("connect", [next EXCEPT !.op = "connect"])
      BY <1>5 DEF Connect
    <2>2. PICK h \in Live : next \in Chosen(h, FALSE, "none")
      BY <2>1 DEF ByRole
    <2> QED BY <1>c, <2>1, <2>2
  <1>6. CASE SelectVerified
    <2>1. loc.pc = "select" /\ locals' = locals
      BY <1>6 DEF SelectVerified
    <2>2. CASE loc' = Idle
      BY <1>i, <1>t, <2>1, <2>2
    <2>3. CASE loc' # Idle
      <3>1. /\ Best # 0 /\ (pin = NoPid => Live # {})
            /\ loc' = [loc EXCEPT !.pc = "health", !.h = Best, !.tries = @ + 1]
        BY <1>6, <2>3 DEF SelectVerified, Best
      <3>2. Best \in Live
        <4>1. pin # NoPid => At(Live, pin) # 0
          BY <3>1 DEF Best
        <4> QED BY <1>q, <3>1, <4>1, BestIsLive
      <3>3. Best \in DOMAIN host /\ Best \in Nat
        BY <1>q, <1>h, <3>2, LiveIs
      <3>4. loc.got = 0 /\ loc.op \notin {"launch", "launched"}
        BY <1>o, <2>1
      <3>5. loc \in Locs
        BY <1>t
      <3>6. loc' = [loc EXCEPT !.pc = "health", !.h = Best, !.tries = loc.tries + 1]
        BY <3>1
      <3>t. loc.tries + 1 \in Nat
        BY <1>t
      <3>7. /\ loc'.h = Best /\ loc'.got = loc.got /\ loc'.k = loc.k
            /\ loc'.op = loc.op /\ loc'.pc = "health"
        BY <3>5, <3>6 DEF Locs
      <3>8. loc' \in Locs
        BY <3>3, <3>5, <3>6, <3>t DEF Locs
      <3> QED BY <1>n, <1>h, <1>t, <1>o, <2>1, <3>3, <3>4, <3>7, <3>8
    <2> QED BY <2>2, <2>3
  <1>7. CASE ReadEntry
    <2>1. loc.pc = "edit" /\ loc.todo # <<>> /\ locals' = locals
      BY <1>7 DEF ReadEntry
    <2>2. CASE loc' = Idle
      BY <1>i, <1>t, <2>1, <2>2
    <2>3. CASE file[loc.todo[1]] # 0 /\ loc' = [loc EXCEPT !.got = file[loc.todo[1]]]
      <3>1. loc.todo[1] \in Pid
        BY <1>t, <2>1
      <3>2. /\ file[loc.todo[1]] \in Nat /\ file[loc.todo[1]] <= Len(host)
            /\ PidOf(file[loc.todo[1]]) = loc.todo[1]
        BY <1>q, <2>3, <3>1 DEF FileInv
      <3>3. /\ loc' \in Locs /\ loc'.got = file[loc.todo[1]] /\ loc'.todo = loc.todo
            /\ loc'.pc = loc.pc /\ loc'.op = loc.op /\ loc'.k = loc.k /\ loc'.h = loc.h
        BY <1>t, <2>3, <3>2 DEF Locs
      <3> QED BY <1>n, <1>h, <1>t, <1>o, <2>1, <3>2, <3>3
    <2> QED BY <1>7, <2>2, <2>3 DEF ReadEntry
  <1>8. CASE WriteEntry
    <2>1. /\ loc.pc = "edit" /\ loc.got # 0 /\ locals' = locals
          /\ loc' = [loc EXCEPT !.got = 0, !.todo = Tail(@),
                                !.pc = IF Len(loc.todo) = 1 THEN "tell" ELSE @]
      BY <1>8 DEF WriteEntry
    <2>2. Tail(loc.todo) \in Seq(Pid)
      BY <1>t, <1>o, <2>1
    <2>3. /\ loc' \in Locs /\ loc'.got = 0 /\ loc'.pc \in {"edit", "tell"}
          /\ loc'.op = loc.op /\ loc'.k = loc.k /\ loc'.h = loc.h
      BY <1>t, <2>1, <2>2 DEF Locs
    <2> QED BY <1>n, <1>h, <1>t, <1>o, <2>1, <2>3
  <1>9. CASE Tell
    <2>1. loc.pc = "tell" /\ loc' = [loc EXCEPT !.pc = "health"] /\ locals' = locals
      BY <1>9 DEF Tell
    <2>2. /\ loc' \in Locs /\ loc'.got = loc.got /\ loc'.pc = "health"
          /\ loc'.op = loc.op /\ loc'.k = loc.k /\ loc'.h = loc.h
      BY <1>t, <2>1 DEF Locs
    <2>3. loc.op = "launched" /\ ~proc[loc.k].gui => proc[host[loc.h].k].launch # 0
      BY <1>q DEF LocInv, LaunchedIsOurs
    <2> QED BY <1>n, <1>h, <1>t, <1>o, <2>1, <2>2, <2>3
  <1>10. CASE Health
    <2>1. loc.pc = "health" /\ locals' = locals
      BY <1>10 DEF Health
    <2>2. \/ loc' = Idle
          \/ /\ loc.op \in {"status", "auto", "quit"}
             /\ loc' = [loc EXCEPT !.pc = "select"] \/ loc' = [loc EXCEPT !.pc = "quit"]
      BY <1>10 DEF Health
    <2>3. CASE loc' = Idle
      BY <1>i, <1>t, <2>1, <2>3
    <2>4. CASE loc' # Idle
      <3>1. /\ loc' \in Locs /\ loc'.got = loc.got /\ loc'.pc \in {"select", "quit"}
            /\ loc'.op = loc.op /\ loc'.k = loc.k /\ loc'.h = loc.h
            /\ loc.op \in {"status", "auto", "quit"}
        BY <1>t, <2>2, <2>4 DEF Locs
      <3> QED BY <1>n, <1>h, <1>t, <1>o, <2>1, <3>1
    <2> QED BY <2>3, <2>4
  <1>11. CASE Registered
    <2>1. PICK h \in Found : \E next \in Chosen(h, FALSE, loc.role) :
            loc' = [next EXCEPT !.op = "launched"]
      BY <1>11 DEF Registered
    <2>2. PICK next \in Chosen(h, FALSE, loc.role) : loc' = [next EXCEPT !.op = "launched"]
      BY <2>1
    <2>3. loc.pc = "wait" /\ locals' = locals
      BY <1>11 DEF Registered
    <2>4. h \in Live /\ (~proc[loc.k].gui => proc[host[h].k].launch # 0)
      BY <1>q, <2>3, FoundIsLive
    <2>5. /\ next \in Locs /\ next.h = h /\ next.h \in DOMAIN host
          /\ next.pc \in {"edit", "tell", "health"}
          /\ next.got = loc.got /\ next.k = loc.k
      <3>1. loc \in Locs /\ loc.role \in Roles \cup {"none"}
        BY <1>t
      <3>2. h \in Live
        BY <2>4
      <3>3. PICK names \in BOOLEAN : next \in Chosen(h, names, loc.role)
        OBVIOUS
      <3> QED BY <1>q, <3>1, <3>2, <3>3, ChosenIs
    <2>6. next.pc # "edit"
      <3>1. loc \in Locs
        BY <1>t
      <3> QED BY <3>1, UnnamedIs
    <2>7. loc.got = 0 /\ loc.k # 0
      BY <1>o, <2>3
    <2>8. /\ loc' \in Locs /\ loc'.h = h /\ loc'.pc \in {"tell", "health"}
          /\ loc'.got = 0 /\ loc'.k = loc.k /\ loc'.op = "launched"
      BY <2>2, <2>5, <2>6, <2>7 DEF Locs
    <2> QED BY <1>n, <1>h, <1>t, <1>o, <2>3, <2>4, <2>5, <2>7, <2>8
  <1>12. ASSUME NEW agrees \in BOOLEAN, Quit(agrees) PROVE LocInv'
    <2>1. /\ loc.pc = "quit" /\ locals' = locals
          /\ loc' = Idle \/ loc' = [loc EXCEPT !.pc = "forget"]
      BY <1>12 DEF Quit
    <2>2. CASE loc' = Idle
      BY <1>i, <1>t, <2>1, <2>2
    <2>3. CASE loc' # Idle
      <3>1. /\ loc' \in Locs /\ loc'.got = loc.got /\ loc'.pc = "forget"
            /\ loc'.op = loc.op /\ loc'.k = loc.k /\ loc'.h = loc.h
        BY <1>t, <2>1, <2>3 DEF Locs
      <3> QED BY <1>n, <1>h, <1>t, <1>o, <2>1, <3>1
    <2> QED BY <2>2, <2>3
  <1> QED
    BY <1>a, <1>s, <1>i, <1>1, <1>2, <1>3, <1>4, <1>5, <1>6, <1>7, <1>8, <1>9, <1>10, <1>11, <1>12

-----------------------------------------------------------------------------
(* A launch that waits. *)

\* Only a launch begins to wait.
LEMMA WaitBegins ==
  ASSUME IInv, [Next]_vars, loc'.pc = "wait"
  PROVE  \/ loc' = loc
         \/ \E p \in Pid, gui \in Launches, r \in Asked : Spawn(p, gui, r)
  <1>q. loc \in Locs /\ (loc.pc = "wait" <=> loc.op = "launch")
    BY DEF IInv, LocInv
  <1>r. loc' \in Locs /\ (loc'.pc = "wait" <=> loc'.op = "launch")
    BY LocStep DEF LocInv
  <1>1. loc' # Idle
    BY DEF Idle
  <1>a. \/ loc' = loc \/ loc' = Idle
        \/ \E op \in {"status", "auto", "quit"} : BeginSelect(op)
        \/ \E p \in Pid, gui \in Launches, r \in Asked : Spawn(p, gui, r)
        \/ \E found : Connect(found)
        \/ SelectVerified \/ ReadEntry \/ WriteEntry \/ Tell \/ Health \/ Registered
        \/ \E agrees \in BOOLEAN : Quit(agrees)
    BY DEF Next, vars, bridge, Crash, TakePid, Open, HandOff, Register, Rewrite,
       Stop, Listen, Route, Exhausted, Verify, VerifyFails, Send, Run, Reply, Break, Disconnect,
       Begin, HealthFails, ForgetQuit, WaitFails
  <1>2. ASSUME NEW op \in {"status", "auto", "quit"}, BeginSelect(op) PROVE FALSE
    BY <1>2 DEF BeginSelect, Begin, Idle
  <1>3. ASSUME NEW found, Connect(found) PROVE FALSE
    <2>1. PICK next \in found : loc' = [next EXCEPT !.op = "connect"]
      BY <1>3 DEF Connect, Begin
    <2>2. "op" \in DOMAIN loc'
      BY <1>r DEF Locs
    <2>3. loc'.op = "connect"
      BY <2>1, <2>2
    <2> QED BY <1>r, <2>3
  <1>4. CASE SelectVerified \/ Tell \/ Health
    BY <1>4, <1>q, <1>1 DEF SelectVerified, Tell, Health, Locs
  <1>5. CASE ReadEntry \/ WriteEntry
    BY <1>5, <1>q, <1>1 DEF ReadEntry, WriteEntry, Locs
  <1>6. CASE Registered
    <2>1. PICK next : loc' = [next EXCEPT !.op = "launched"]
      BY <1>6 DEF Registered
    <2>2. "op" \in DOMAIN loc'
      BY <1>r DEF Locs
    <2>3. loc'.op = "launched"
      BY <2>1, <2>2
    <2> QED BY <1>r, <2>3
  <1>7. ASSUME NEW agrees \in BOOLEAN, Quit(agrees) PROVE FALSE
    BY <1>7, <1>q, <1>1 DEF Quit, Locs
  <1> QED BY <1>1, <1>a, <1>2, <1>3, <1>4, <1>5, <1>6, <1>7

\* Nobody gets the pid that is waited for.
LEMMA PidIsKept ==
  ASSUME IInv, [Next]_vars, loc.pc = "wait", loc' = loc, proc[loc.k].pid \in Pid
  PROVE  os'[proc[loc.k].pid] \in {0, os[proc[loc.k].pid]}
  <1> DEFINE q == proc[loc.k].pid
  <1>t. os \in [Pid -> 0 .. Other] /\ q \in Pid
    BY DEF IInv, MachineInv
  <1>1. /\ loc # Idle
        /\ \A p : Free(p) => p # q
    BY DEF Idle, Free
  <1>a. \/ UNCHANGED os
        \/ \E p \in Pid : Crash(p) \/ TakePid(p) \/ \E gui \in Opens : Open(p, gui)
        \/ \E p \in Pid, k \in DOMAIN proc : HandOff(k, p)
    BY <1>1 DEF Next, vars, machine, Spawn, Begin, WaitFails, Connect, Register, Rewrite, Stop,
       Listen, Route, Exhausted, Verify, VerifyFails, Send, Run, Reply, Break, Disconnect,
       SelectVerified, ReadEntry, WriteEntry, Tell, Health, HealthFails, ForgetQuit, Registered,
       BeginSelect, Quit
  <1> HIDE DEF q
  <1>2. ASSUME NEW p \in Pid, Crash(p) \/ TakePid(p) \/ \E gui \in Opens : Open(p, gui)
        PROVE  os'[q] \in {0, os[q]}
    <2>1. CASE Crash(p)
      BY <1>t, <2>1 DEF Crash
    <2>2. CASE TakePid(p)
      BY <1>t, <1>1, <2>2 DEF TakePid
    <2>3. ASSUME NEW gui \in Opens, Open(p, gui) PROVE os'[q] \in {0, os[q]}
      BY <1>t, <1>1, <2>3 DEF Open
    <2> QED BY <1>2, <2>1, <2>2, <2>3
  <1>3. ASSUME NEW p \in Pid, NEW k \in DOMAIN proc, HandOff(k, p)
        PROVE  os'[q] \in {0, os[q]}
    <2>1. p # q /\ os' = [os EXCEPT ![p] = Len(proc) + 1, ![proc[k].pid] = 0]
      BY <1>1, <1>3 DEF HandOff
    <2> QED BY <1>t, <2>1
  <1>4. os'[q] \in {0, os[q]}
    BY <1>a, <1>2, <1>3
  <1> QED BY <1>4 DEF q

\* Each step keeps the pid of a launch that waits with its own process.
LEMMA WaitStep == IInv /\ [Next]_vars => WaitInv'
  <1> SUFFICES ASSUME IInv, [Next]_vars, loc'.pc = "wait" PROVE WaitInv'
    BY DEF WaitInv
  <1>q. MachineInv /\ FileInv /\ LocInv /\ WaitInv
    BY DEF IInv
  <1>t. /\ os \in [Pid -> 0 .. Other] /\ file \in [Pid -> Nat] /\ Len(proc) \in Nat
        /\ proc \in Seq(Procs) /\ DOMAIN proc = 1 .. Len(proc)
    BY <1>q DEF MachineInv, FileInv
  <1>1. CASE loc' = loc
    <2> DEFINE p == proc[loc.k].pid
    <2>1. loc.pc = "wait" /\ loc.k \in DOMAIN proc
      BY <1>q, <1>t, <1>1 DEF LocInv, Locs
    <2>2. proc'[loc.k] = proc[loc.k] /\ p \in Pid
      <3>1. proc[loc.k] \in Procs
        BY <1>t, <2>1
      <3> QED BY <1>q, <2>1, <3>1, Grows DEF Procs
    <2>3. /\ proc[loc.k].launch # 0 /\ os[p] \in {0, loc.k}
          /\ file[p] # 0 => host[file[p]].k = loc.k
      BY <1>q, <2>1 DEF WaitInv
    <2>4. os'[p] \in {0, os[p]}
      BY <1>1, <2>1, <2>2, PidIsKept
    <2> HIDE DEF p
    <2>5. file'[p] # 0 => file'[p] \in DOMAIN host /\ host[file'[p]].k = loc.k
      <3>1. CASE \A x \in Pid : file'[x] \in {0, file[x]}
        BY <1>q, <1>t, <2>2, <2>3, <3>1 DEF FileInv, MachineInv
      <3>2. ASSUME NEW h \in up, Register(h) \/ Rewrite(h)
            PROVE  file'[p] # 0 => file'[p] \in DOMAIN host /\ host[file'[p]].k = loc.k
        <4>1. h \in DOMAIN host /\ PidOf(h) \in Pid /\ os[PidOf(h)] = host[h].k
              /\ host[h].k \in DOMAIN proc
          BY <1>q, HostsStay DEF MachineInv
        <4>2. Pruned \in [Pid -> Nat] /\ \A x \in Pid : Pruned[x] \in {0, file[x]}
          BY <1>q, PrunedGo
        <4>3. \/ file' = [Pruned EXCEPT ![PidOf(h)] = h]
              \/ file' = [file EXCEPT ![PidOf(h)] = h]
          BY <3>2 DEF Register, Rewrite
        <4> HIDE DEF Pruned
        <4>4. CASE PidOf(h) = p
          <5>1. file'[p] = h
            BY <1>t, <4>1, <4>2, <4>3, <4>4
          <5>2. host[h].k = loc.k
            BY <1>t, <2>3, <4>1, <4>4
          <5> QED BY <4>1, <5>1, <5>2
        <4>5. CASE PidOf(h) # p
          <5>1. file'[p] \in {0, file[p]}
            BY <1>t, <2>2, <4>1, <4>2, <4>3, <4>5
          <5> QED BY <1>q, <1>t, <2>2, <2>3, <5>1 DEF FileInv, MachineInv
        <4> QED BY <4>4, <4>5
      <3>3. ~WriteEntry
        BY <2>1 DEF WriteEntry
      <3> QED BY <3>1, <3>2, <3>3, FileMoves
    <2>6. file'[p] # 0 => host'[file'[p]].k = loc.k
      BY <1>q, <2>5, Grows
    <2> QED BY <1>1, <2>2, <2>3, <2>4, <2>6 DEF WaitInv, p
  <1>2. ASSUME NEW p \in Pid, NEW gui \in Launches, NEW r \in Asked, Spawn(p, gui, r)
        PROVE  WaitInv'
    <2>1. /\ os[p] = 0 /\ file' = Pruned /\ os' = [os EXCEPT ![p] = Len(proc) + 1]
          /\ proc' = Append(proc, [pid |-> p, gui |-> gui, launch |-> locals + 1])
          /\ loc'.k = Len(proc) + 1 /\ locals \in Nat
      BY <1>2, <1>q, FleetAssumption DEF Spawn, Begin, Free, Idle, LocInv
    <2>2. proc'[loc'.k] = [pid |-> p, gui |-> gui, launch |-> locals + 1]
      BY <1>t, <2>1
    <2>3. proc'[loc'.k].pid = p /\ proc'[loc'.k].launch # 0
      BY <2>1, <2>2
    <2>4. os'[p] = loc'.k /\ file'[p] = 0
      BY <1>t, <2>1 DEF Pruned
    <2> QED BY <2>3, <2>4 DEF WaitInv
  <1> QED BY <1>1, <1>2, WaitBegins

-----------------------------------------------------------------------------
(* The forwarded calls. *)

\* A host keeps the roles it was given.
LEMMA GivenGrows ==
  ASSUME IInv, [Next]_vars, NEW h \in Host
  PROVE  Granted(h) \subseteq Granted(h)'
  <1>1. UNCHANGED history \/ Observe \/ Tell
    BY DEF Next, vars, history, bridge, Crash, TakePid, Open, Spawn, HandOff, Connect, Register, Rewrite,
       Stop, Listen, Route, Exhausted, Verify, VerifyFails, Send, Run, Reply, Break, Disconnect,
       SelectVerified, ReadEntry, WriteEntry, Health, HealthFails, ForgetQuit, Registered,
       BeginSelect, Quit, WaitFails
  <1> QED BY <1>1 DEF Observe, Tell, history, Granted, IInv, RowInv

\* A role that routes a call is the host's by default, or it was given to it.
LEMMA RoleIsGiven ==
  ASSUME IInv, NEW h \in Live, Observe
  PROVE  Role(Observed, h) \in Granted(h)' \cup {Default(h)}
  <1> DEFINE p == PidOf(h)
  <1>q. MachineInv /\ FileInv /\ RowInv
    BY DEF IInv
  <1>1. h \in DOMAIN host /\ h # 0 /\ p \in Pid /\ At(Live, p) = h
    BY <1>q, LiveIs, AtIs
  <1>2. h \in Host
    BY <1>q, <1>1, FleetAssumption DEF MachineInv, Host
  <1>3. Granted(h)' = Granted(h) \cup IF row[p].h = 0 THEN {row[p].role} \cap Roles ELSE {}
    BY <1>2 DEF Observe, Granted
  <1>4. Observed[p].role = IF row[p].h \in {0, h} THEN row[p].role ELSE "none"
    BY <1>1 DEF Observed
  <1>5. row[p].h # 0 /\ row[p].role \in Roles => row[p].role \in Granted(row[p].h)
    BY <1>q, <1>1 DEF RowInv
  <1> HIDE DEF p
  <1>6. Observed[p].role \in Roles => Observed[p].role \in Granted(h)'
    <2>1. CASE row[p].h = 0
      BY <1>3, <1>4, <2>1
    <2>2. CASE row[p].h = h
      BY <1>1, <1>3, <1>4, <1>5, <2>2
    <2>3. CASE row[p].h \notin {0, h}
      BY <1>4, <2>3 DEF Roles
    <2> QED BY <2>1, <2>2, <2>3
  <1> QED BY <1>6 DEF Role, p

\* Each step keeps a call sent once and its refusals true.
LEMMA CallStep == IInv /\ [Next]_vars => CallInv'
  <1> SUFFICES ASSUME IInv, [Next]_vars PROVE CallInv'
    OBVIOUS
  <1>q. MachineInv /\ FileInv /\ BridgeInv /\ CallInv
    BY DEF IInv
  <1>h. /\ Len(host) \in Nat /\ Len(host') \in Nat /\ Len(host) <= Len(host')
        /\ DOMAIN host = 1 .. Len(host) /\ Len(host) <= MaxHosts /\ MaxHosts \in Nat
    BY <1>q, Grows, MachineStep, FleetAssumption DEF MachineInv, IInv
  <1>t. /\ to \in [Call -> Targets]
        /\ pc \in [Call -> {"route", "verify", "send", "sent", "over"}]
        /\ at \in [Call -> Nat] /\ tries \in [Call -> 0 .. MaxStale]
        /\ said \in [Call -> Refusals \cup {"none", "ok", "unknown", "exited while running"}]
        /\ got \in [Call -> Seq(Nat)] /\ ran \in [Call -> SUBSET Nat]
        /\ MaxStale \in Nat \ {0}
    BY <1>q, FleetAssumption DEF CallInv, CallTypes
  <1>c. \A d \in Call : SentOnce(d)
    BY <1>q DEF CallInv
  <1>m. /\ \A d \in Call : at[d] \in Nat
        /\ Len(host) \in Nat /\ Len(host') \in Nat /\ Len(host) <= Len(host')
    BY <1>h, <1>t
  <1>l. \A d \in Call : pc[d] \in {"verify", "send", "sent"} => at[d] \in DOMAIN host
    <2>1. \A d \in Call : at[d] <= Len(host) /\ (pc[d] \in {"verify", "send", "sent"} => at[d] # 0)
      BY <1>c DEF SentOnce
    <2> QED BY <1>h, <1>m, <2>1
  \* A call that stays as it is.
  <1>k. ASSUME NEW d \in Call, pc'[d] = pc[d], at'[d] = at[d], said'[d] = said[d], got'[d] = got[d],
               ran'[d] = ran[d]
        PROVE  SentOnce(d)'
    <2>1. SentOnce(d)
      BY <1>c
    <2>2. at'[d] <= Len(host')
      BY <1>k, <1>m, <2>1 DEF SentOnce
    <2> QED BY <1>k, <2>1, <2>2 DEF SentOnce
  \* A role that was the host's own stays so.
  <1>r. ASSUME NEW d \in Call, pc'[d] = pc[d], at'[d] = at[d], to' = to PROVE RoleOf(d)'
    <2> SUFFICES ASSUME to[d].by = "role", pc[d] \in {"verify", "send"}, NEW h \in {at[d]}
        PROVE to[d].on \in Granted(h)' \cup {Default(h)'}
      BY <1>r DEF RoleOf
    <2>1. to[d].on \in Granted(h) \cup {Default(h)}
      <3>1. RoleOf(d)
        BY <1>q DEF CallInv
      <3> QED BY <3>1 DEF RoleOf
    <2>2. h \in DOMAIN host
      BY <1>l
    <2>3. Granted(h) \subseteq Granted(h)'
      BY <1>h, <2>2, GivenGrows DEF Host
    <2>4. Default(h)' = Default(h)
      BY <1>q, <2>2, HostsStay
    <2> QED BY <2>1, <2>3, <2>4
  \* The other calls are as they were.
  <1>n. ASSUME NEW c \in Call, CallTypes', to' = to, SentOnce(c)', RoleOf(c)',
               \A d \in Call \ {c} : /\ pc'[d] = pc[d] /\ at'[d] = at[d] /\ said'[d] = said[d]
                                     /\ got'[d] = got[d] /\ ran'[d] = ran[d]
        PROVE  CallInv'
    <2>1. \A d \in Call \ {c} : SentOnce(d)'
      BY <1>n, <1>k
    <2>2. \A d \in Call \ {c} : RoleOf(d)'
      BY <1>n, <1>r
    <2> QED BY <1>n, <2>1, <2>2 DEF CallInv
  <1>s. CASE UNCHANGED calls
    <2>1. CallTypes' /\ to' = to
      BY <1>q, <1>s DEF CallInv, CallTypes, calls
    <2>2. \A d \in Call : SentOnce(d)'
      BY <1>s, <1>k DEF calls
    <2>3. \A d \in Call : RoleOf(d)'
      BY <1>s, <1>r DEF calls
    <2> QED BY <2>1, <2>2, <2>3 DEF CallInv
  <1>a. \/ UNCHANGED calls
        \/ \E c \in Call : \/ Route(c) \/ Exhausted(c) \/ Verify(c) \/ VerifyFails(c) \/ Send(c)
                           \/ Run(c) \/ Reply(c) \/ Break(c)
    BY DEF Next, vars, bridge, Crash, TakePid, Open, Spawn, HandOff, Connect, Register,
       Rewrite, Stop, Listen, Disconnect, SelectVerified, ReadEntry, WriteEntry, Tell, Health,
       HealthFails, ForgetQuit, Registered, BeginSelect, Quit, WaitFails
  \* A call that ends with an answer that is true of it.
  <1>e. ASSUME NEW c \in Call, NEW answer, End(c, answer), UNCHANGED <<to, got, ran>>,
               answer \in Refusals \cup {"ok", "unknown", "exited while running"},
               answer \in Refusals => got[c] = <<>>
        PROVE  CallInv'
    <2>1. /\ pc' = [pc EXCEPT ![c] = "over"] /\ said' = [said EXCEPT ![c] = answer]
          /\ UNCHANGED <<at, tries>>
      BY <1>e DEF End
    <2>2. CallTypes'
      BY <1>e, <1>t, <2>1 DEF CallTypes
    <2>3. pc'[c] = "over" /\ said'[c] = answer /\ at'[c] = at[c] /\ got'[c] = got[c]
          /\ ran'[c] = ran[c]
      BY <1>e, <1>t, <2>1
    <2>4. SentOnce(c)'
      <3>1. SentOnce(c)
        BY <1>c
      <3>2. at'[c] <= Len(host')
        BY <1>m, <2>3, <3>1 DEF SentOnce
      <3> QED BY <1>e, <2>3, <3>1, <3>2 DEF SentOnce
    <2>5. RoleOf(c)'
      BY <2>3 DEF RoleOf
    <2> QED BY <1>e, <1>n, <1>t, <2>1, <2>2, <2>4, <2>5
  \* A call that goes on.
  <1>g. ASSUME NEW c \in Call, NEW next \in {"route", "verify", "send", "sent"},
               pc[c] \in {"route", "verify", "send"},
               pc' = [pc EXCEPT ![c] = next], said' = said, to' = to, ran' = ran,
               at' \in [Call -> Nat], tries' \in [Call -> 0 .. MaxStale],
               at'[c] <= Len(host), next # "route" => at'[c] # 0,
               got' \in [Call -> Seq(Nat)], Len(got'[c]) <= 1,
               next # "sent" => got'[c] = got[c],
               \A d \in Call \ {c} : at'[d] = at[d] /\ got'[d] = got[d],
               RoleOf(c)'
        PROVE  CallInv'
    <2>1. CallTypes'
      BY <1>g, <1>t DEF CallTypes
    <2>2. pc'[c] = next /\ \A d \in Call \ {c} : pc'[d] = pc[d]
      BY <1>g, <1>t
    <2>3. SentOnce(c)'
      <3>1. SentOnce(c)
        BY <1>c
      <3>2. got[c] = <<>> /\ said[c] = "none" /\ ran[c] \subseteq DOMAIN got[c]
        BY <1>g, <3>1 DEF SentOnce
      <3>3. ran[c] = {}
        BY <3>2
      <3>4. at'[c] <= Len(host')
        BY <1>g, <1>m
      <3> QED BY <1>g, <2>2, <3>2, <3>3, <3>4 DEF SentOnce, Refusals
    <2> QED BY <1>g, <1>n, <2>1, <2>2, <2>3
  <1>1. ASSUME NEW c \in Call, Route(c) PROVE CallInv'
    <2>1. pc[c] = "route" /\ tries[c] < MaxStale /\ UNCHANGED <<to, got, ran>>
      BY <1>1 DEF Route
    <2>2. got[c] = <<>>
      <3>1. SentOnce(c)
        BY <1>c
      <3> QED BY <2>1, <3>1 DEF SentOnce
    <2>3. ASSUME NEW answer \in Refusals, End(c, answer) PROVE CallInv'
      BY <1>e, <2>1, <2>2, <2>3
    \* It is sent to h.
    <2>4. ASSUME NEW h \in Live, Choose(c, h), to[c].by = "role" =>
            to[c].on \in Granted(h)' \cup {Default(h)}
          PROVE  CallInv'
      <3> DEFINE next == IF h \in verified THEN "send" ELSE "verify"
      <3>1. /\ at' = [at EXCEPT ![c] = h] /\ tries' = [tries EXCEPT ![c] = @ + 1]
            /\ pc' = [pc EXCEPT ![c] = next] /\ said' = said
        BY <2>4 DEF Choose
      <3>2. next \in {"verify", "send"}
        OBVIOUS
      <3> HIDE DEF next
      <3>3. h \in DOMAIN host /\ h # 0 /\ h \in Nat /\ h <= Len(host)
        BY <1>q, <1>h, LiveIs
      <3>4. /\ at' \in [Call -> Nat] /\ at'[c] = h /\ \A d \in Call \ {c} : at'[d] = at[d]
            /\ tries' \in [Call -> 0 .. MaxStale]
        <4>1. at \in [Call -> Nat] /\ tries \in [Call -> 0 .. MaxStale] /\ MaxStale \in Nat
          BY <1>t
        <4>2. tries[c] + 1 \in 0 .. MaxStale
          BY <2>1, <4>1
        <4> QED BY <3>1, <3>3, <4>1, <4>2
      <3>5. RoleOf(c)'
        <4>1. Default(h)' = Default(h)
          BY <1>q, <3>3, HostsStay
        <4> QED BY <2>1, <2>4, <3>4, <4>1 DEF RoleOf
      <3>6. got' \in [Call -> Seq(Nat)] /\ Len(got'[c]) <= 1 /\ got' = got
        <4>1. got \in [Call -> Seq(Nat)] /\ got' = got /\ Len(<<>>) = 0
          BY <1>t, <2>1
        <4> QED BY <2>2, <4>1
      <3> QED BY <1>g, <2>1, <3>1, <3>2, <3>3, <3>4, <3>5, <3>6
    <2>5. CASE to[c].by \in {"edit", "read"}
      <3>1. Select(c)
        BY <1>1, <2>5 DEF Route, Automatic
      <3>2. CASE Refusal(c) # "none"
        <4>1. End(c, Refusal(c))
          BY <3>1, <3>2 DEF Select
        <4>2. Refusal(c) \in Refusals
          BY <3>2 DEF Refusal, Refusals
        <4> QED BY <2>3, <4>1, <4>2
      <3>3. CASE Refusal(c) = "none"
        <4>1. Choose(c, Best)
          BY <3>1, <3>3 DEF Select, Best
        <4>2. Best \in Live
          BY <1>q, <3>3, SelectedIsLive
        <4> QED BY <2>4, <2>5, <4>1, <4>2
      <3> QED BY <3>2, <3>3
    <2>6. CASE to[c].by \notin {"edit", "read"}
      <3>1. Pick(c) /\ Observe
        BY <1>1, <2>6 DEF Route, Automatic
      <3>2. ASSUME NEW h \in Meant(c), Choose(c, h) PROVE CallInv'
        <4>1. h \in Live
          BY DEF Meant
        <4>2. to[c].by = "role" => Role(Observed, h) = to[c].on
          BY DEF Meant
        <4>3. Role(Observed, h) \in Granted(h)' \cup {Default(h)}
          BY <3>1, <4>1, RoleIsGiven
        <4> QED BY <2>4, <3>2, <4>1, <4>2, <4>3
      <3>3. ASSUME NEW answer \in {"lost", "offline"}, End(c, answer) PROVE CallInv'
        BY <2>3, <3>3 DEF Refusals
      <3> QED BY <3>1, <3>2, <3>3 DEF Pick
    <2> QED BY <2>5, <2>6
  <1>2. ASSUME NEW c \in Call, Exhausted(c) PROVE CallInv'
    <2>1. pc[c] = "route" /\ End(c, "offline") /\ UNCHANGED <<to, got, ran>>
      BY <1>2 DEF Exhausted
    <2>2. got[c] = <<>>
      <3>1. SentOnce(c)
        BY <1>c
      <3> QED BY <2>1, <3>1 DEF SentOnce
    <2> QED BY <1>e, <2>1, <2>2 DEF Refusals
  \* A call that is not yet sent, or not accepted, goes on with the host it has.
  <1>f. ASSUME NEW c \in Call, NEW next \in {"route", "verify", "send"},
               pc[c] \in {"verify", "send"}, pc' = [pc EXCEPT ![c] = next],
               UNCHANGED <<said, to, ran, at, tries, got>>
        PROVE  CallInv'
    <2>1. at[c] \in DOMAIN host /\ at[c] # 0 /\ at[c] <= Len(host)
      BY <1>f, <1>l, <1>h
    <2>2. got[c] = <<>>
      <3>1. SentOnce(c)
        BY <1>c
      <3> QED BY <1>f, <3>1 DEF SentOnce
    <2>3. pc'[c] = next
      BY <1>f, <1>t
    <2>4. RoleOf(c)'
      <3> SUFFICES ASSUME to[c].by = "role", NEW h \in {at[c]}
          PROVE to[c].on \in Granted(h)' \cup {Default(h)'}
        BY <1>f DEF RoleOf
      <3>1. to[c].on \in Granted(h) \cup {Default(h)}
        <4>1. RoleOf(c)
          BY <1>q DEF CallInv
        <4> QED BY <1>f, <4>1 DEF RoleOf
      <3>2. Granted(h) \subseteq Granted(h)'
        BY <1>h, <2>1, GivenGrows DEF Host
      <3>3. Default(h)' = Default(h)
        BY <1>q, <2>1, HostsStay
      <3> QED BY <3>1, <3>2, <3>3
    <2>5. got' \in [Call -> Seq(Nat)] /\ Len(got'[c]) <= 1
      <3>1. got \in [Call -> Seq(Nat)] /\ got' = got /\ Len(<<>>) = 0
        BY <1>t, <1>f
      <3> QED BY <2>2, <3>1
    <2>6. at' \in [Call -> Nat] /\ tries' \in [Call -> 0 .. MaxStale]
      BY <1>t, <1>f
    <2> QED BY <1>f, <1>g, <2>1, <2>4, <2>5, <2>6
  <1>3. ASSUME NEW c \in Call, Verify(c) PROVE CallInv'
    <2>1. /\ pc[c] = "verify" /\ UNCHANGED <<said, to, ran, at, tries, got>>
          /\ pc' = [pc EXCEPT ![c] = "route"] \/ pc' = [pc EXCEPT ![c] = "send"]
      BY <1>3 DEF Verify
    <2> QED BY <1>f, <2>1
  <1>4. ASSUME NEW c \in Call, VerifyFails(c) PROVE CallInv'
    <2>1. End(c, "unknown") /\ UNCHANGED <<to, got, ran>>
      BY <1>4 DEF VerifyFails
    <2> QED BY <1>e, <2>1 DEF Refusals
  <1>5. ASSUME NEW c \in Call, Send(c) PROVE CallInv'
    <2>1. pc[c] = "send" /\ UNCHANGED <<said, to, ran, at, tries>>
      BY <1>5 DEF Send
    <2>2. CASE pc' = [pc EXCEPT ![c] = "route"] /\ got' = got
      BY <1>f, <2>1, <2>2
    <2>3. CASE pc' = [pc EXCEPT ![c] = "sent"] /\ got' = [got EXCEPT ![c] = Append(@, at[c])]
      <3>1. at[c] \in DOMAIN host /\ at[c] # 0 /\ at[c] <= Len(host) /\ at[c] \in Nat
        BY <1>l, <1>h, <2>1
      <3>2. got[c] = <<>>
        <4>1. SentOnce(c)
          BY <1>c
        <4> QED BY <2>1, <4>1 DEF SentOnce
      <3>3. /\ got' \in [Call -> Seq(Nat)] /\ Len(got'[c]) <= 1
            /\ \A d \in Call \ {c} : got'[d] = got[d]
        <4>1. got \in [Call -> Seq(Nat)]
          BY <1>t
        <4>2. Append(<<>>, at[c]) \in Seq(Nat) /\ Len(Append(<<>>, at[c])) = 1
          BY <3>1
        <4>3. got' = [got EXCEPT ![c] = Append(<<>>, at[c])]
          BY <2>3, <3>2
        <4> QED BY <4>1, <4>2, <4>3
      <3>4. RoleOf(c)'
        <4>1. pc'[c] = "sent"
          BY <1>t, <2>3
        <4> QED BY <4>1 DEF RoleOf
      <3>5. at' \in [Call -> Nat] /\ tries' \in [Call -> 0 .. MaxStale]
        BY <1>t, <2>1
      <3> QED BY <1>g, <2>1, <2>3, <3>1, <3>3, <3>4, <3>5
    <2> QED BY <1>5, <2>2, <2>3 DEF Send
  <1>6. ASSUME NEW c \in Call, Run(c) PROVE CallInv'
    <2>1. PICK i \in DOMAIN got[c] : ran' = [ran EXCEPT ![c] = @ \cup {i}]
      BY <1>6 DEF Run
    <2>2. UNCHANGED <<to, pc, at, tries, said, got>>
      BY <1>6 DEF Run
    <2>3. got[c] \in Seq(Nat) /\ ran \in [Call -> SUBSET Nat] /\ i \in Nat
      <3>1. got[c] \in Seq(Nat) /\ ran \in [Call -> SUBSET Nat]
        BY <1>t
      <3> QED BY <3>1
    <2>4. ran' \in [Call -> SUBSET Nat] /\ ran'[c] = ran[c] \cup {i}
          /\ \A d \in Call \ {c} : ran'[d] = ran[d]
      BY <2>1, <2>3
    <2>5. CallTypes'
      BY <1>t, <2>2, <2>4 DEF CallTypes
    <2>6. SentOnce(c)'
      <3>1. SentOnce(c)
        BY <1>c
      <3>2. at'[c] <= Len(host')
        BY <1>m, <2>2, <3>1 DEF SentOnce
      <3>3. ran'[c] \subseteq DOMAIN got'[c]
        BY <2>2, <2>4, <3>1 DEF SentOnce
      <3> QED BY <2>2, <3>1, <3>2, <3>3 DEF SentOnce
    <2>7. RoleOf(c)'
      BY <1>r, <2>2
    <2> QED BY <1>n, <2>2, <2>4, <2>5, <2>6, <2>7
  <1>7. ASSUME NEW c \in Call, Reply(c) PROVE CallInv'
    <2>1. End(c, "ok") /\ UNCHANGED <<to, got, ran>>
      BY <1>7 DEF Reply
    <2> QED BY <1>e, <2>1 DEF Refusals
  <1>8. ASSUME NEW c \in Call, Break(c) PROVE CallInv'
    <2>1. End(c, "exited while running") \/ End(c, "unknown")
      BY <1>8 DEF Break
    <2>2. UNCHANGED <<to, got, ran>>
      BY <1>8 DEF Break
    <2> QED BY <1>e, <2>1, <2>2 DEF Refusals
  <1> QED BY <1>a, <1>s, <1>1, <1>2, <1>3, <1>4, <1>5, <1>6, <1>7, <1>8

-----------------------------------------------------------------------------
(* The invariant and what follows from it. *)

LEMMA InitInv == Init => IInv
  <1> SUFFICES ASSUME Init PROVE IInv
    OBVIOUS
  <1>a. MaxProcs \in Nat /\ MaxHosts \in Nat /\ MaxLocal \in Nat /\ MaxStale \in Nat
    BY FleetAssumption
  <1>1. MachineInv
    BY <1>a DEF Init, MachineInv, Other
  <1>2. FileInv
    BY DEF Init, FileInv
  <1>3. BridgeInv
    <2>1. Len(host) = 0
      BY DEF Init
    <2>2. last \in 0 .. Len(host) /\ prev \in 0 .. Len(host)
      BY <2>1 DEF Init
    <2>3. pin = NoPid /\ detached = FALSE /\ verified = {}
      BY DEF Init
    <2> QED BY <2>2, <2>3 DEF BridgeInv
  <1>4. RowInv
    BY DEF Init, RowInv, Rows, NoRow
  <1>5. LocInv /\ WaitInv
    BY <1>a, IdleIs DEF Init, LocInv, WaitInv, Idle, LaunchedIsOurs
  <1>6. CallInv
    <2>1. CallTypes
      BY <1>a DEF Init, CallTypes
    <2>2. \A c \in Call : SentOnce(c) /\ RoleOf(c)
      BY DEF Init, SentOnce, RoleOf, Refusals
    <2> QED BY <2>1, <2>2 DEF CallInv
  <1> QED BY <1>1, <1>2, <1>3, <1>4, <1>5, <1>6 DEF IInv

LEMMA Inductive == IInv /\ [Next]_vars => IInv'
  BY MachineStep, FileStep, BridgeStep, RowStep, LocStep, WaitStep, CallStep DEF IInv

LEMMA Invariant == Spec => []IInv
  BY InitInv, Inductive, PTL DEF Spec

\* Every variable of the fleet keeps its type.
THEOREM TypesAreKept == Spec => []TypeOK
  <1>1. IInv => TypeOK
    <2> SUFFICES ASSUME IInv PROVE TypeOK
      OBVIOUS
    <2>1. \A k \in DOMAIN proc : proc[k] \in [pid : Pid, gui : BOOLEAN, launch : 0 .. MaxLocal]
      <3>1. \A k \in DOMAIN proc : proc[k] \in Procs
        BY DEF IInv, MachineInv
      <3> QED BY <3>1 DEF Procs
    <2>2. \A h \in DOMAIN host : host[h] \in [k : DOMAIN proc, port : Port]
      <3>1. \A h \in DOMAIN host : host[h] \in Hosts /\ host[h].k \in DOMAIN proc
        BY DEF IInv, MachineInv
      <3> QED BY <3>1 DEF Hosts
    <2>3. os \in [Pid -> 0 .. Other] /\ Len(proc) <= MaxProcs /\ up \subseteq DOMAIN host
      BY DEF IInv, MachineInv
    <2>4. Len(host) \in Nat
      BY DEF IInv, MachineInv
    <2>5. file \in [Pid -> 0 .. Len(host)] /\ entered \subseteq up
      BY <2>4 DEF IInv, FileInv
    <2>6. /\ verified \subseteq DOMAIN host /\ pin \in Pid \cup {NoPid} /\ detached \in BOOLEAN
          /\ {last, prev} \subseteq 0 .. Len(host)
      BY DEF IInv, BridgeInv
    <2>7. row \in [Pid -> [h : 0 .. Len(host), role : Roles \cup {"none"}, known : BOOLEAN]]
      <3>1. \A p \in Pid : row[p] \in Rows /\ row[p].h <= Len(host)
        BY DEF IInv, RowInv
      <3>2. \A p \in Pid :
              row[p] \in [h : 0 .. Len(host), role : Roles \cup {"none"}, known : BOOLEAN]
        BY <2>4, <3>1 DEF Rows
      <3> QED BY <3>2 DEF IInv, RowInv
    <2>8. /\ loc.op \in {"none", "status", "auto", "quit", "connect", "launch", "launched"}
          /\ loc.pc \in {"idle", "select", "edit", "tell", "health", "quit", "forget", "wait"}
      BY DEF IInv, LocInv, Locs
    <2>9. to \in [Call -> Targets]
      BY DEF IInv, CallInv, CallTypes
    <2>10. ASSUME NEW c \in Call
           PROVE  /\ pc[c] \in {"route", "verify", "send", "sent", "over"}
                  /\ at[c] \in 0 .. Len(host) /\ tries[c] \in 0 .. MaxStale
                  /\ said[c] \in {"none", "ok", "detached", "lost", "exited", "offline", "ambiguous",
                                  "unknown", "exited while running"}
                  /\ ran[c] \subseteq DOMAIN got[c]
      <3>1. CallTypes /\ SentOnce(c)
        BY DEF IInv, CallInv
      <3>2. at[c] \in Nat /\ at[c] <= Len(host) /\ ran[c] \subseteq DOMAIN got[c]
        BY <3>1 DEF CallTypes, SentOnce
      <3>3. /\ pc[c] \in {"route", "verify", "send", "sent", "over"}
            /\ tries[c] \in 0 .. MaxStale
            /\ said[c] \in Refusals \cup {"none", "ok", "unknown", "exited while running"}
        BY <3>1 DEF CallTypes
      <3>4. at[c] \in 0 .. Len(host)
        BY <2>4, <3>2
      <3> QED BY <3>2, <3>3, <3>4 DEF Refusals
    <2>11. \A h \in Host : given[h] \cup unseen[h] \subseteq Roles
      BY DEF IInv, RowInv
    <2> QED BY <2>1, <2>2, <2>3, <2>5, <2>6, <2>7, <2>8, <2>9, <2>10, <2>11 DEF TypeOK
  <1> QED BY Invariant, <1>1, PTL

\* For any number of calls and Houdinis: a call that is routed again and again runs at most
\* once, on one of them (Bridge._forward retries only what was refused).
THEOREM CallsRunOnce == Spec => []RanAtMostOnce
  <1>1. IInv => RanAtMostOnce
    <2> SUFFICES ASSUME IInv, NEW c \in Call PROVE Cardinality(ran[c]) <= 1
      BY DEF RanAtMostOnce
    <2>1. Len(got[c]) <= 1 /\ ran[c] \subseteq DOMAIN got[c] /\ got[c] \in Seq(Nat)
      BY DEF IInv, CallInv, CallTypes, SentOnce
    <2>2. ran[c] \subseteq {1}
      BY <2>1
    <2>3. ran[c] = {} \/ ran[c] = {1}
      BY <2>2
    <2>4. Cardinality(ran[c]) \in {0, 1}
      BY <2>3, FS_EmptySet, FS_Singleton
    <2> QED BY <2>4
  <1> QED BY Invariant, <1>1, PTL

\* An answer that says the call was sent nowhere is true, and stays so.
THEOREM RefusalsAreTrue == Spec => []OfflineMeansNotRun
  <1>1. IInv => OfflineMeansNotRun
    BY DEF IInv, CallInv, SentOnce, OfflineMeansNotRun, Refusals
  <1> QED BY Invariant, <1>1, PTL

\* Launcher.wait never takes a Houdini of the user for the headless one it started, though
\* pids come back.
THEOREM LaunchesAreOurs == Spec => []LaunchedIsOurs
  <1>1. IInv => LaunchedIsOurs
    BY DEF IInv, LocInv
  <1> QED BY Invariant, <1>1, PTL

\* A call sent to a role never goes to a Houdini that has only inherited the role by its pid,
\* but for a role given before any scan had filled the row of its pid.
THEOREM RolesAreOwn == Spec => []RoleIsOwn
  <1>1. IInv => RoleIsOwn
    BY DEF IInv, CallInv, RoleOf, Granted, RoleIsOwn
  <1> QED BY Invariant, <1>1, PTL

-----------------------------------------------------------------------------

\* The installs of the package in the pref dirs of a user's Houdinis (Installs).

\* Nothing is left of the package in a pref dir.
Bare(d) == json[d] = None /\ \A v \in Versions : copies[d][v] = "no"
\* Where an uninstall has been.
Visited == command.all \ (command.todo \cup IF command.step = "record" THEN {} ELSE {command.at})

\* A command is at one of its pref dirs, in one of its steps.
CommandFits ==
  command # In!Idle =>
    /\ command.at \in command.all /\ command.todo \subseteq command.all /\ command.at \notin command.todo
    /\ command.does # "idle"
    /\ command.step \in IF command.does = "uninstall" THEN {"json", "tree", "record"}
                        ELSE {"clear", "replace", "copy", "write", "record"}
    /\ command.step = "record" => command.todo = {}

\* An install has what it writes to on its list, and its pref dir is torn until the package JSON is there.
Installing ==
  command.does \in {"copy", "dev"} =>
    /\ command.all \subseteq in_record \cup strays
    /\ command.version \in IF command.does = "dev" THEN {"dev"} ELSE Versions
    /\ command.step \in {"replace", "copy", "write"} => command.at \in torn
    /\ command.step = "write" /\ command.does = "copy" => copies[command.at][command.version] = "whole"

\* An uninstall goes to all that is recorded, and left nothing where it was unless it says so.
Uninstalling ==
  command.does = "uninstall" =>
    /\ in_record \subseteq command.all
    /\ command.step = "tree" => json[command.at] = None
    /\ ~failed => \A d \in Visited : Bare(d)

Whole == \A d \in Dirs \ torn : json[d] \in Versions => copies[d][json[d]] = "whole"

InstallsInv == In!TypeOK /\ CommandFits /\ Installing /\ Uninstalling /\ Whole /\ In!LeftIsFound

LEMMA InstallsBegin == In!Init => InstallsInv
  <1> SUFFICES ASSUME In!Init PROVE InstallsInv
    OBVIOUS
  <1>0. command = [does |-> "idle", version |-> None, todo |-> {}, at |-> None, step |-> "none", all |-> {}]
    BY DEF In!Init, In!Idle
  <1>1. In!TypeOK
    <2>1. command \in [does : {"idle", "copy", "dev", "uninstall"}, version : Versions \cup {"dev", None},
                       todo : SUBSET Dirs, at : Dirs \cup {None}, all : SUBSET Dirs,
                       step : {"none", "clear", "replace", "copy", "write", "record", "json", "tree"}]
      BY <1>0
    <2>2. in_given \in 0 .. MaxCommands
      BY SessionAssumption DEF In!Init
    <2> QED
      BY <2>1, <2>2 DEF In!Init, In!TypeOK
  <1>2. command.does = "idle" /\ json = [d \in Dirs |-> None]
        /\ \A d \in Dirs : \A v \in Versions : copies[d][v] = "no"
    BY DEF In!Init, In!Idle
  <1>3. \A d \in Dirs : ~In!Something(d) /\ json[d] \notin Versions
    BY <1>2, SessionAssumption DEF In!Something
  <1> QED
    BY <1>1, <1>2, <1>3 DEF In!Init, InstallsInv, CommandFits, Installing, Uninstalling, Whole, In!LeftIsFound

\* Where a command begins.
LEMMA StartIs ==
  ASSUME NEW does, NEW version, NEW targets, In!Start(does, version, targets)
  PROVE  /\ command'.does = does /\ command'.version = version /\ command'.all = targets
         /\ command'.at \in targets /\ command'.todo = targets \ {command'.at}
         /\ command'.step = IF does = "uninstall" THEN "json" ELSE "clear"
         /\ command' = [does |-> command'.does, version |-> command'.version, todo |-> command'.todo,
                        at |-> command'.at, step |-> command'.step, all |-> command'.all]
         /\ in_given' = in_given + 1 /\ in_given < MaxCommands /\ failed' = FALSE
BY DEF In!Start

\* Where it goes on: in its next pref dir, or to the record.
LEMMA ContinueIs ==
  ASSUME InstallsInv, NEW first \in {"clear", "json"}, In!Continue(first)
  PROVE  /\ command'.does = command.does /\ command'.version = command.version /\ command'.all = command.all
         /\ command' \in [does : {command.does}, version : {command.version}, todo : SUBSET Dirs,
                          at : Dirs \cup {None}, all : {command.all}, step : {first, "record"}]
         /\ \/ command.todo = {} /\ command'.step = "record" /\ command'.at = command.at /\ command'.todo = {}
            \/ command'.step = first /\ command'.at \in command.todo /\ command'.todo = command.todo \ {command'.at}
  <1>1. command \in [does : {"idle", "copy", "dev", "uninstall"}, version : Versions \cup {"dev", None},
                     todo : SUBSET Dirs, at : Dirs \cup {None}, all : SUBSET Dirs,
                     step : {"none", "clear", "replace", "copy", "write", "record", "json", "tree"}]
    BY DEF InstallsInv, In!TypeOK
  <1>2. CASE command.todo = {}
    BY <1>1, <1>2 DEF In!Continue, In!Goes
  <1>3. CASE command.todo # {}
    <2>1. PICK d \in command.todo : command' = [command EXCEPT !.todo = @ \ {d}, !.at = d, !.step = first]
      BY <1>3 DEF In!Continue
    <2> QED
      BY <1>1, <2>1
  <1> QED
    BY <1>2, <1>3

LEMMA InstallsStep == InstallsInv /\ [In!Next]_(In!vars) => InstallsInv'
  <1> SUFFICES ASSUME InstallsInv, [In!Next]_(In!vars) PROVE InstallsInv'
    OBVIOUS
  <1> USE SessionAssumption DEF InstallsInv
  <1>1. ASSUME NEW targets \in In!Candidates, NEW version \in Versions \cup {"dev"}, In!Install(version, targets)
        PROVE  InstallsInv'
    <2> DEFINE does == IF version = "dev" THEN "dev" ELSE "copy"
    <2>0. /\ In!Start(does, version, targets) /\ targets \subseteq Dirs
          /\ does \in {"copy", "dev"} /\ version \in IF does = "dev" THEN {"dev"} ELSE Versions
      BY <1>1 DEF In!Install, In!Candidates
    <2> HIDE DEF does
    <2>1. /\ command'.does = does /\ command'.version = version /\ command'.all = targets
          /\ command'.at \in targets /\ command'.todo = targets \ {command'.at} /\ command'.step = "clear"
          /\ command' = [does |-> command'.does, version |-> command'.version, todo |-> command'.todo,
                         at |-> command'.at, step |-> command'.step, all |-> command'.all]
          /\ in_given' = in_given + 1 /\ in_given < MaxCommands /\ failed' = FALSE
      BY <2>0, StartIs
    <2>2. strays' = strays \cup (targets \ in_record) /\ UNCHANGED <<json, copies, in_record, held, torn>>
      BY <1>1 DEF In!Install
    <2>3. In!TypeOK'
      <3>1. in_given' \in 0 .. MaxCommands
        BY <2>1 DEF In!TypeOK
      <3>2. command' \in [does : {"idle", "copy", "dev", "uninstall"}, version : Versions \cup {"dev", None},
                          todo : SUBSET Dirs, at : Dirs \cup {None}, all : SUBSET Dirs,
                          step : {"none", "clear", "replace", "copy", "write", "record", "json", "tree"}]
        BY <2>0, <2>1
      <3>3. strays' \subseteq Dirs
        BY <2>0, <2>2 DEF In!TypeOK
      <3> QED
        BY <2>1, <2>2, <3>1, <3>2, <3>3 DEF In!TypeOK
    <2>4. CommandFits' /\ Installing' /\ Uninstalling'
      BY <2>0, <2>1, <2>2 DEF CommandFits, Installing, Uninstalling
    <2>5. Whole' /\ In!LeftIsFound'
      BY <2>2 DEF Whole, In!LeftIsFound, In!Something
    <2> QED
      BY <2>3, <2>4, <2>5
  <1>2. ASSUME NEW targets \in In!Candidates, In!Uninstall(targets)
        PROVE  InstallsInv'
    <2> DEFINE all == targets \cup in_record
    <2>0. In!Start("uninstall", None, all) /\ all \subseteq Dirs
      BY <1>2 DEF In!Uninstall, In!Targets, In!Candidates, In!TypeOK
    <2>1. /\ command'.does = "uninstall" /\ command'.version = None /\ command'.all = all
          /\ command'.at \in all /\ command'.todo = all \ {command'.at} /\ command'.step = "json"
          /\ command' = [does |-> command'.does, version |-> command'.version, todo |-> command'.todo,
                         at |-> command'.at, step |-> command'.step, all |-> command'.all]
          /\ in_given' = in_given + 1 /\ in_given < MaxCommands /\ failed' = FALSE
      BY <2>0, StartIs
    <2>2. UNCHANGED <<json, copies, in_record, held, torn, strays>>
      BY <1>2 DEF In!Uninstall
    <2>3. In!TypeOK'
      <3>1. in_given' \in 0 .. MaxCommands
        BY <2>1 DEF In!TypeOK
      <3>2. command' \in [does : {"idle", "copy", "dev", "uninstall"}, version : Versions \cup {"dev", None},
                          todo : SUBSET Dirs, at : Dirs \cup {None}, all : SUBSET Dirs,
                          step : {"none", "clear", "replace", "copy", "write", "record", "json", "tree"}]
        BY <2>0, <2>1
      <3>3. strays' \subseteq Dirs
        BY <2>0, <2>2 DEF In!TypeOK
      <3> QED
        BY <2>1, <2>2, <3>1, <3>2, <3>3 DEF In!TypeOK
    <2>4. CommandFits' /\ Installing' /\ Uninstalling'
      BY <2>0, <2>1, <2>2 DEF CommandFits, Installing, Uninstalling, Visited
    <2>5. Whole' /\ In!LeftIsFound'
      BY <2>2 DEF Whole, In!LeftIsFound, In!Something
    <2> QED
      BY <2>3, <2>4, <2>5
  <1>3. CASE In!Clear
    <2>1. /\ command.does \in {"copy", "dev"} /\ command.step = "clear" /\ command.at \in Dirs
          /\ command # In!Idle
          /\ command' = [command EXCEPT !.step = IF command.does = "dev" THEN "write" ELSE "replace"]
          /\ torn' = torn \cup {command.at} /\ UNCHANGED <<json, in_record, held, failed, in_given, strays>>
      BY <1>3 DEF In!Clear, In!At, In!Goes, In!TypeOK, CommandFits, In!Idle
    <2>2. copies' = [c \in Dirs |-> [v \in Versions |->
                       IF c = command.at /\ v # command.version THEN In!Left(command.at)[v] ELSE copies[c][v]]]
      BY <1>3 DEF In!Clear, In!Cleared, In!Left
    <2>3. /\ copies' \in [Dirs -> [Versions -> {"no", "part", "whole"}]]
          /\ \A d \in Dirs : \A v \in Versions : copies'[d][v] # "no" => copies[d][v] # "no"
          /\ \A d \in Dirs \ {command.at} : copies'[d] = copies[d]
      BY <2>1, <2>2 DEF In!Left, In!TypeOK
    <2>4. In!TypeOK'
      BY <2>1, <2>3 DEF In!TypeOK
    <2>5. CommandFits' /\ Installing' /\ Uninstalling'
      BY <2>1 DEF CommandFits, Installing, Uninstalling, In!TypeOK, In!Idle
    <2>6. Whole'
      BY <2>1, <2>3 DEF Whole, In!TypeOK
    <2>7. In!LeftIsFound'
      BY <2>1, <2>3 DEF In!LeftIsFound, In!Something
    <2> QED
      BY <2>4, <2>5, <2>6, <2>7
  <1>4. CASE In!Replace
    <2>1. /\ command.does = "copy" /\ command.step = "replace" /\ command.at \in Dirs /\ command.at \in torn
          /\ command.version \in Versions /\ command # In!Idle
          /\ command' = In!Idle \/ command' = [command EXCEPT !.step = "copy"]
          /\ copies' = [copies EXCEPT ![command.at][command.version] = "part"]
          /\ UNCHANGED <<json, in_record, held, failed, in_given, torn, strays>>
      BY <1>4 DEF In!Replace, In!At, In!Goes, In!TypeOK, CommandFits, Installing, In!Idle
    <2>2. In!TypeOK'
      BY <2>1 DEF In!TypeOK, In!Idle
    <2>3. CommandFits' /\ Installing' /\ Uninstalling'
      BY <2>1 DEF CommandFits, Installing, Uninstalling, In!TypeOK, In!Idle
    <2>4. Whole'
      BY <2>1 DEF Whole, In!TypeOK
    <2>5. In!LeftIsFound'
      <3>1. command.at \in in_record \cup strays
        BY <2>1 DEF Installing, CommandFits
      <3>2. \A d \in Dirs \ {command.at} : copies'[d] = copies[d]
        BY <2>1 DEF In!TypeOK
      <3> QED
        BY <2>1, <3>1, <3>2 DEF In!LeftIsFound, In!Something
    <2> QED
      BY <2>2, <2>3, <2>4, <2>5
  <1>5. CASE In!Copy
    BY <1>5 DEF In!Copy, In!At, In!Goes, In!TypeOK, CommandFits, Installing, Uninstalling, Whole,
       In!LeftIsFound, In!Something, In!Idle
  <1>6. CASE In!WriteJson
    <2>1. /\ command.does \in {"copy", "dev"} /\ command.step = "write" /\ command.at \in Dirs
          /\ command # In!Idle /\ In!Continue("clear")
          /\ json' = [json EXCEPT ![command.at] = command.version]
          /\ torn' = torn \ {command.at} /\ UNCHANGED <<copies, in_record, held, failed, in_given, strays>>
      BY <1>6 DEF In!WriteJson, In!At, In!TypeOK, CommandFits, In!Idle
    <2>2. /\ command'.does = command.does /\ command'.version = command.version /\ command'.all = command.all
          /\ command' \in [does : {command.does}, version : {command.version}, todo : SUBSET Dirs,
                           at : Dirs \cup {None}, all : {command.all}, step : {"clear", "record"}]
          /\ \/ command.todo = {} /\ command'.step = "record" /\ command'.at = command.at /\ command'.todo = {}
             \/ command'.step = "clear" /\ command'.at \in command.todo /\ command'.todo = command.todo \ {command'.at}
      BY <2>1, ContinueIs
    <2>3. In!TypeOK'
      BY <2>1, <2>2 DEF In!TypeOK
    <2>4. CommandFits' /\ Installing' /\ Uninstalling'
      BY <2>1, <2>2 DEF CommandFits, Installing, Uninstalling
    <2>5. Whole'
      BY <2>1 DEF Whole, Installing, In!TypeOK
    <2>6. In!LeftIsFound'
      BY <2>1 DEF In!LeftIsFound, In!Something, Installing, CommandFits, In!TypeOK
    <2> QED
      BY <2>3, <2>4, <2>5, <2>6
  <1>7. CASE In!WriteRecord
    BY <1>7 DEF In!WriteRecord, In!At, In!TypeOK, CommandFits, Installing, Uninstalling, Whole,
       In!LeftIsFound, In!Something, In!Idle
  <1>8. CASE In!RemoveJson
    BY <1>8 DEF In!RemoveJson, In!At, In!Goes, In!TypeOK, CommandFits, Installing, Uninstalling, Whole,
       In!LeftIsFound, In!Something, In!Idle, Visited, Bare
  <1>9. CASE In!RemoveTree
    <2> DEFINE left == In!Left(command.at)
    <2>1. /\ command.does = "uninstall" /\ command.step = "tree" /\ command.at \in Dirs
          /\ command # In!Idle /\ In!Continue("json")
          /\ UNCHANGED <<json, in_record, held, in_given, torn>>
      BY <1>9 DEF In!RemoveTree, In!At, In!TypeOK, CommandFits, In!Idle
    <2>2. /\ copies' = [copies EXCEPT ![command.at] = left]
          /\ failed' = (failed \/ \E v \in Versions : left[v] # "no")
          /\ strays' = IF \A v \in Versions : left[v] = "no" THEN strays \ {command.at} ELSE strays
      BY <1>9 DEF In!RemoveTree
    <2>3. /\ left \in [Versions -> {"no", "part"}]
          /\ \A v \in Versions : left[v] # "no" => copies[command.at][v] # "no"
      BY DEF In!Left
    <2>4. /\ command'.does = command.does /\ command'.version = command.version /\ command'.all = command.all
          /\ command' \in [does : {command.does}, version : {command.version}, todo : SUBSET Dirs,
                           at : Dirs \cup {None}, all : {command.all}, step : {"json", "record"}]
          /\ \/ command.todo = {} /\ command'.step = "record" /\ command'.at = command.at /\ command'.todo = {}
             \/ command'.step = "json" /\ command'.at \in command.todo /\ command'.todo = command.todo \ {command'.at}
      BY <2>1, ContinueIs
    <2> HIDE DEF left
    <2>5. /\ copies' \in [Dirs -> [Versions -> {"no", "part", "whole"}]]
          /\ copies'[command.at] = left /\ \A d \in Dirs \ {command.at} : copies'[d] = copies[d]
          /\ json[command.at] = None
      BY <2>1, <2>2, <2>3 DEF In!TypeOK, Uninstalling
    <2>6. In!TypeOK'
      BY <2>1, <2>2, <2>4, <2>5 DEF In!TypeOK
    <2>7. CommandFits' /\ Installing'
      BY <2>1, <2>4 DEF CommandFits, Installing
    <2>8. Uninstalling'
      <3> SUFFICES ASSUME ~failed', NEW d \in Visited' PROVE Bare(d)'
        BY <2>1, <2>4 DEF Uninstalling
      <3>1. ~failed /\ \A v \in Versions : left[v] = "no"
        BY <2>2
      <3>2. d = command.at \/ d \in Visited
        BY <2>1, <2>4 DEF Visited, CommandFits
      <3>3. CASE d = command.at
        BY <3>1, <3>3, <2>1, <2>5 DEF Bare
      <3>4. CASE d # command.at /\ d \in Visited
        BY <3>1, <3>4, <2>1, <2>5 DEF Bare, Uninstalling, Visited, In!TypeOK
      <3> QED
        BY <3>2, <3>3, <3>4
    <2>9. Whole'
      BY <2>1, <2>5 DEF Whole, In!TypeOK
    <2>10. In!LeftIsFound'
      BY <2>1, <2>2, <2>3, <2>5 DEF In!LeftIsFound, In!Something
    <2> QED
      BY <2>6, <2>7, <2>8, <2>9, <2>10
  <1>10. CASE In!ForgetRecord
    BY <1>10 DEF In!ForgetRecord, In!At, In!Forgets, In!TypeOK, CommandFits, Installing, Uninstalling, Whole,
       In!LeftIsFound, In!Something, In!Idle, Visited, Bare
  <1>11. CASE In!Interrupted
    BY <1>11 DEF In!Interrupted, In!TypeOK, CommandFits, Installing, Uninstalling, Whole,
       In!LeftIsFound, In!Something, In!Idle
  <1>12. ASSUME NEW d \in Dirs, In!HoudiniStarts(d) \/ In!HoudiniEnds(d)
         PROVE  InstallsInv'
    BY <1>12 DEF In!HoudiniStarts, In!HoudiniEnds, In!TypeOK, CommandFits, Installing, Uninstalling, Whole,
       In!LeftIsFound, In!Something, Visited, Bare
  <1>13. CASE UNCHANGED In!vars
    BY <1>13 DEF In!vars, In!TypeOK, CommandFits, Installing, Uninstalling, Whole,
       In!LeftIsFound, In!Something, Visited, Bare
  <1> QED
    BY <1>1, <1>2, <1>3, <1>4, <1>5, <1>6, <1>7, <1>8, <1>9, <1>10, <1>11, <1>12, <1>13 DEF In!Next

-----------------------------------------------------------------------------

\* A launch and the Houdini that it starts (Startup).

\* What the record says of the host, if it is this process's.
RecordFits ==
  /\ old \/
     /\ st_record \in {"failed", "disabled"} => st_host = st_record
     /\ st_record = "starting" => st_host \in {"starting", "running", "failed"}
  /\ houdini = "exited" \/ hidden \/
     /\ st_host = "starting" => st_record = "starting"
     /\ st_host \in {"failed", "disabled"} => st_record \in {"starting", "failed", "disabled"}

\* What the last look at it says still.
LookFits ==
  /\ watch.record = "starting" => looked.old \/ looked.begun
  /\ looked.begun =>
       \/ watch.record \in {"starting", "failed", "disabled"} \/ looked.hidden
       \/ st_host = "running" \/ houdini = "exited"
  /\ watch.record \in {"failed", "disabled"} => st_pc \in {"host_failed", "autostart_disabled"}

\* The dialog was seen at every look since it was seen first.
LooksAdd ==
  /\ watch.dialog # None =>
       /\ st_pc \in St!Looks \ {"deadline"} => st_up + watch.at = ticks
       /\ st_pc \in {"deadline", "dialog"} => st_up + watch.at = ticks + 1
  /\ watch.dialog = None => st_up = 0

StartupInv == St!TypeOK /\ RecordFits /\ LookFits /\ LooksAdd /\ St!VerdictIsTrue

LEMMA StartupBegins == St!Init => StartupInv
  <1> SUFFICES ASSUME St!Init PROVE StartupInv
    OBVIOUS
  <1>1. St!TypeOK
    <2>1. watch \in [main : BOOLEAN, dialog : Titles \cup {None}, at : 0 .. MaxTicks,
                     record : {None, "failed", "disabled", "starting"}]
      BY SessionAssumption DEF St!Init, St!Unseen
    <2>2. looked \in [begun : BOOLEAN, old : BOOLEAN, hidden : BOOLEAN]
      BY DEF St!Init
    <2>3. old \in BOOLEAN /\ away \in BOOLEAN /\ hidden \in BOOLEAN
      BY DEF St!Init
    <2>4. /\ houdini = "splash" /\ dialog = None /\ st_host = "none" /\ st_pc = "scan" /\ ticks = 0 /\ st_up = 0
          /\ st_record \in {None, "failed", "disabled", "starting"}
      BY DEF St!Init
    <2>5. ticks \in 0 .. MaxTicks /\ st_up \in 0 .. MaxTicks + 1
      BY <2>4, SessionAssumption
    <2> QED
      BY <2>1, <2>2, <2>3, <2>4, <2>5 DEF St!TypeOK, St!Looks
  <1> QED
    BY <1>1, SessionAssumption DEF St!Init, StartupInv, RecordFits, LookFits, LooksAdd, St!VerdictIsTrue, St!Unseen, St!Looks

LEMMA StartupStep == StartupInv /\ [St!Next]_(St!vars) => StartupInv'
  <1> SUFFICES ASSUME StartupInv, [St!Next]_(St!vars) PROVE StartupInv'
    OBVIOUS
  <1> USE SessionAssumption DEF StartupInv, St!TypeOK, St!VerdictIsTrue, St!Looks, St!Ended, St!Runs
  <1>1. CASE St!Houdini
    <2>1. st_pc \in St!Looks /\ UNCHANGED <<away, st_pc, watch, ticks, st_up, looked>>
      BY <1>1 DEF St!Houdini
    <2>2. \/ St!Opens \/ St!Closes \/ St!Shows \/ St!Exits
          \/ St!Autostart \/ St!AutostartFails \/ St!Starts \/ St!Unlinks \/ St!StartFails \/ St!Prune
      BY <1>1 DEF St!Houdini
    <2>3. /\ houdini' \in {"splash", "unlicensed", "main", "exited"} /\ dialog' \in Titles \cup {None}
          /\ st_host' \in {"none", "starting", "running", "failed", "disabled"}
          /\ st_record' \in {None, "failed", "disabled", "starting"} /\ old' \in BOOLEAN /\ hidden' \in BOOLEAN
      BY <2>2 DEF St!Opens, St!Closes, St!Shows, St!Exits, St!Autostart, St!AutostartFails, St!Writes, St!Unwritten, St!Starts, St!Unlinks, St!StartFails, St!Prune
    <2>4. RecordFits'
      BY <2>2 DEF St!Opens, St!Closes, St!Shows, St!Exits, St!Autostart, St!AutostartFails, St!Writes, St!Unwritten, St!Starts, St!Unlinks, St!StartFails, St!Prune,
         RecordFits
    <2>5. (st_host = "running" => st_host' = "running") /\ (houdini = "exited" => houdini' = "exited")
      BY <2>2 DEF St!Opens, St!Closes, St!Shows, St!Exits, St!Autostart, St!AutostartFails, St!Writes, St!Unwritten, St!Starts, St!Unlinks, St!StartFails, St!Prune
    <2>6. St!TypeOK'
      BY <2>1, <2>3
    <2>7. LookFits' /\ LooksAdd' /\ St!VerdictIsTrue'
      BY <2>1, <2>5 DEF LookFits, LooksAdd
    <2> QED
      BY <2>4, <2>6, <2>7
  <1>2. CASE St!Scan \/ St!Exit \/ St!Probe
    BY <1>2 DEF St!Scan, St!Exit, St!Probe, St!Ends, St!process, RecordFits, LookFits, LooksAdd
  <1>3. CASE St!Read
    <2>1. PICK seen \in {st_record, None} :
            /\ watch' = [watch EXCEPT !.record = seen]
            /\ looked' = [begun |-> st_host # "none", old |-> old, hidden |-> hidden \/ seen # st_record]
            /\ st_pc' = CASE seen = "failed" -> "host_failed"
                          [] seen = "disabled" -> "autostart_disabled"
                          [] OTHER -> "windows"
      BY <1>3 DEF St!Read
    <2>2. st_pc = "read" /\ UNCHANGED <<houdini, dialog, st_host, st_record, old, away, hidden, ticks, st_up>>
      BY <1>3 DEF St!Read, St!process
    <2>3. \/ seen = "failed" /\ st_pc' = "host_failed"
          \/ seen = "disabled" /\ st_pc' = "autostart_disabled"
          \/ seen \in {None, "starting"} /\ st_pc' = "windows"
      BY <2>1
    <2>4. /\ watch'.record = seen /\ watch'.main = watch.main /\ watch'.dialog = watch.dialog /\ watch'.at = watch.at
          /\ watch' \in [main : BOOLEAN, dialog : Titles \cup {None}, at : 0 .. MaxTicks,
                         record : {None, "failed", "disabled", "starting"}]
      BY <2>1
    <2>5. /\ looked'.begun = (st_host # "none") /\ looked'.old = old /\ looked'.hidden = (hidden \/ seen # st_record)
          /\ looked' \in [begun : BOOLEAN, old : BOOLEAN, hidden : BOOLEAN]
      BY <2>1
    <2>6. St!TypeOK'
      BY <2>2, <2>3, <2>4, <2>5
    <2>7. RecordFits' /\ LookFits'
      BY <2>1, <2>2, <2>3, <2>4, <2>5 DEF RecordFits, LookFits
    <2>8. LooksAdd' /\ St!VerdictIsTrue'
      BY <2>1, <2>2, <2>3, <2>4, <2>5 DEF RecordFits, LooksAdd
    <2> QED
      BY <2>6, <2>7, <2>8
  <1>4. CASE St!Windows
    <2> DEFINE seen == watch.main \/ houdini = "main"
               since == IF dialog = None THEN 0 ELSE IF watch.dialog = dialog THEN watch.at ELSE ticks
               next == [main |-> seen, dialog |-> dialog, at |-> since, record |-> watch.record]
    <2>0. watch \in [main : BOOLEAN, dialog : Titles \cup {None}, at : 0 .. MaxTicks,
                     record : {None, "failed", "disabled", "starting"}]
          /\ seen \in BOOLEAN /\ since \in 0 .. MaxTicks /\ ticks \in 0 .. MaxTicks /\ MaxTicks \in Nat
      OBVIOUS
    <2>1. St!Forgotten = [main |-> seen, dialog |-> None, at |-> 0, record |-> watch.record]
      <3>1. St!Forgotten = [watch EXCEPT !.main = seen, !.dialog = None, !.at = 0]
        BY <2>0 DEF St!Forgotten
      <3> HIDE DEF seen
      <3> QED
        BY <2>0, <3>1
    <2> HIDE DEF seen
    <2>2. (IF dialog = None THEN St!Forgotten
           ELSE [St!Forgotten EXCEPT !.dialog = dialog, !.at = IF watch.dialog = dialog THEN watch.at ELSE ticks]) = next
      BY <2>1
    <2>3. /\ st_pc = "windows" /\ watch' = next
          /\ st_up' = IF dialog = None THEN 0 ELSE IF watch.dialog = dialog THEN st_up + 1 ELSE 1
          /\ st_pc' = IF dialog # None /\ ~next.main /\ ticks - next.at >= Grace THEN "dialog" ELSE "deadline"
          /\ UNCHANGED <<houdini, dialog, st_host, st_record, old, away, hidden, ticks, looked>>
      BY <1>4, <2>2 DEF St!Windows, St!process
    <2>4. /\ watch'.record = watch.record /\ watch'.main = seen /\ watch'.dialog = dialog /\ watch'.at = since
          /\ watch' \in [main : BOOLEAN, dialog : Titles \cup {None}, at : 0 .. MaxTicks,
                         record : {None, "failed", "disabled", "starting"}]
          /\ next.main = seen /\ next.at = since
      BY <2>0, <2>3
    <2> HIDE DEF next
    <2>5. st_up' \in 0 .. MaxTicks + 1
      BY <2>0, <2>3 DEF LooksAdd
    <2>6. St!TypeOK'
      BY <2>3, <2>4, <2>5
    <2>7. RecordFits' /\ LookFits'
      BY <2>3, <2>4 DEF RecordFits, LookFits
    <2>8. LooksAdd' /\ St!VerdictIsTrue'
      BY <2>0, <2>3, <2>4 DEF LooksAdd
    <2> QED
      BY <2>6, <2>7, <2>8
  <1>5. CASE St!Deadline
    <2>1. /\ st_pc = "deadline" /\ UNCHANGED <<houdini, dialog, st_host, st_record, old, away, hidden, watch, st_up, looked>>
          /\ \/ st_pc' = St!Reason /\ ticks' = ticks
             \/ ticks < MaxTicks /\ ticks' = ticks + 1 /\ st_pc' = "scan"
      BY <1>5 DEF St!Deadline, St!Ends, St!process
    <2>2. /\ St!Reason \in {"host_starting", "may_wait", "no_autostart", "may_start"}
          /\ St!Reason = "host_starting" => watch.record = "starting"
          /\ St!Reason = "no_autostart" => watch.record # "starting"
      BY DEF St!Reason
    <2>3. St!TypeOK' /\ RecordFits'
      BY <2>1, <2>2 DEF RecordFits
    <2>4. LookFits' /\ LooksAdd' /\ St!VerdictIsTrue'
      BY <2>1, <2>2 DEF LookFits, LooksAdd
    <2> QED
      BY <2>3, <2>4
  <1>6. CASE UNCHANGED St!vars
    BY <1>6 DEF St!vars, RecordFits, LookFits, LooksAdd
  <1> QED
    BY <1>1, <1>2, <1>3, <1>4, <1>5, <1>6 DEF St!Next

-----------------------------------------------------------------------------

\* The host's life in a Houdini and the requests that end it (Lifecycle).

\* The entry is of h, or there is none for 0, unless it is foreign.
On(h) == entry = h \/ foreign

\* How far a start is, and what of its host is up.
Starting(h) ==
  \/ main.next = <<"executor", "server", "hip", "events", "entry">> /\ parts[h] = {} /\ On(0)
  \/ main.next = <<"server", "hip", "events", "entry">> /\ parts[h] = {"executor"} /\ On(0)
  \/ main.next = <<"hip", "events", "entry">> /\ parts[h] = {"executor", "server"} /\ On(0)
  \/ main.next = <<"events", "entry">> /\ parts[h] = {"executor", "server", "hip"} /\ On(0)
  \/ main.next = <<"entry">> /\ parts[h] = Lc!Parts /\ On(0)
  \/ main.next = <<>> /\ parts[h] = Lc!Parts /\ On(h)

\* How far a stop is, and what of its host may still be up.
Stopping(h) ==
  \/ /\ main.next = <<"hip", "entry", "server", "executor">>
     /\ "events" \in parts[h] => "hip" \in parts[h]
     /\ On(0) \/ (entry = h /\ parts[h] = Lc!Parts)
  \/ /\ main.next = <<"entry", "server", "executor">>
     /\ On(0) \/ (entry = h /\ {"server", "executor"} \subseteq parts[h])
     /\ parts[h] \subseteq {"server", "executor"}
  \/ main.next = <<"server", "executor">> /\ parts[h] \subseteq {"server", "executor"} /\ On(0)
  \/ main.next = <<"executor">> /\ parts[h] \subseteq {"executor"} /\ On(0)
  \/ main.next = <<>> /\ parts[h] = {} /\ On(0)

\* One host at most has anything: the module's, or the one that starts or stops.
Only(h) == \A g \in Lc!Hosts : g # h => parts[g] = {}

HostFits ==
  \/ main = Lc!Idle /\ cur = 0 /\ On(0) /\ \A g \in Lc!Hosts : parts[g] = {}
  \/ main = Lc!Idle /\ cur \in 1..lc_made /\ parts[cur] = Lc!Parts /\ On(cur) /\ Only(cur)
  \/ main.do = "start" /\ cur = 0 /\ main.host \in 1..lc_made /\ Starting(main.host) /\ Only(main.host)
  \/ main.do = "stop" /\ cur = 0 /\ main.host \in 1..lc_made /\ Stopping(main.host) /\ Only(main.host)

HostsFit == gone \/ (HostFits /\ \A g \in Lc!Hosts : g > lc_made => parts[g] = {})

\* A check that waits is in the queue of an executor that takes calls.
Waits == \A r \in Requests : lc_pc[r] = "waiting" => lc_to[r] \in Lc!Hosts /\ "executor" \in parts[lc_to[r]]

\* Once a host has its event hooks its flag tells of unsaved changes, but for a missed one.
FlagFits ==
  gone \/
  /\ ~ui /\ (lc_made = 0 \/ main.do = "start") => ~lc_dirty
  /\ main.do = "start" /\ "events" \in parts[main.host] /\ lc_dirty => flag \/ missed
  /\ cur # 0 /\ lc_dirty => flag \/ missed

\* What a quit that keeps the scene was told of it holds as long as nothing came late, or was missed.
QuitFits ==
  /\ ~lost
  /\ \A r \in Requests :
       lc_pc[r] \in {"answered", "acting", "acted"} /\ lc_kind[r] \in {"fail", "save"} /\ ~late[r] =>
         (lc_dirty => missed)

LEMMA Heads ==
  /\ Head(<<"executor", "server", "hip", "events", "entry">>) = "executor"
  /\ Head(<<"server", "hip", "events", "entry">>) = "server"
  /\ Head(<<"hip", "events", "entry">>) = "hip"
  /\ Head(<<"events", "entry">>) = "events"
  /\ Head(<<"entry">>) = "entry"
  /\ Head(<<"hip", "entry", "server", "executor">>) = "hip"
  /\ Head(<<"entry", "server", "executor">>) = "entry"
  /\ Head(<<"server", "executor">>) = "server"
  /\ Head(<<"executor">>) = "executor"
  OBVIOUS

LEMMA Tails ==
  /\ Tail(<<"executor", "server", "hip", "events", "entry">>) = <<"server", "hip", "events", "entry">>
  /\ Tail(<<"server", "hip", "events", "entry">>) = <<"hip", "events", "entry">>
  /\ Tail(<<"hip", "events", "entry">>) = <<"events", "entry">>
  /\ Tail(<<"events", "entry">>) = <<"entry">>
  /\ Tail(<<"entry">>) = <<>>
  /\ Tail(<<"hip", "entry", "server", "executor">>) = <<"entry", "server", "executor">>
  /\ Tail(<<"entry", "server", "executor">>) = <<"server", "executor">>
  /\ Tail(<<"server", "executor">>) = <<"executor">>
  /\ Tail(<<"executor">>) = <<>>
  <1>1. Tail(<<"executor", "server", "hip", "events", "entry">>) = <<"server", "hip", "events", "entry">>
    OBVIOUS
  <1>2. Tail(<<"server", "hip", "events", "entry">>) = <<"hip", "events", "entry">>
    OBVIOUS
  <1>3. Tail(<<"hip", "events", "entry">>) = <<"events", "entry">>
    OBVIOUS
  <1>4. Tail(<<"events", "entry">>) = <<"entry">>
    OBVIOUS
  <1>5. Tail(<<"entry">>) = <<>> /\ Tail(<<"executor">>) = <<>>
    OBVIOUS
  <1>6. Tail(<<"hip", "entry", "server", "executor">>) = <<"entry", "server", "executor">>
    OBVIOUS
  <1>7. Tail(<<"entry", "server", "executor">>) = <<"server", "executor">>
    OBVIOUS
  <1>8. Tail(<<"server", "executor">>) = <<"executor">>
    OBVIOUS
  <1> QED
    BY <1>1, <1>2, <1>3, <1>4, <1>5, <1>6, <1>7, <1>8

LEMMA HostBegins == Lc!Init => Lc!TypeOK /\ HostsFit /\ Waits /\ FlagFits /\ QuitFits
  <1> SUFFICES ASSUME Lc!Init PROVE Lc!TypeOK /\ HostsFit /\ Waits /\ FlagFits /\ QuitFits
    OBVIOUS
  <1>1. Lc!TypeOK
    <2>1. main \in [do : {"idle", "start", "stop"}, host : 0..MaxStarts, next : Seq(Lc!Parts \union {"entry"})]
      <3>1. <<>> \in Seq(Lc!Parts \union {"entry"})
        OBVIOUS
      <3>2. 0 \in 0..MaxStarts
        BY SessionAssumption
      <3> QED
        BY <3>1, <3>2 DEF Lc!Init, Lc!Idle
    <2>2. queue \in [Lc!Hosts -> Seq({"check", "stop", "leave"} \X Requests)]
      BY DEF Lc!Init
    <2>3. /\ event \in [Lc!Hosts -> BOOLEAN] /\ late \in [Requests -> BOOLEAN]
          /\ lc_kind \in [Requests -> Lc!Kinds] /\ lc_to \in [Requests -> 0..MaxStarts]
          /\ lc_pc \in [Requests -> {"idle", "waiting", "answered", "acting", "acted", "done"}]
      BY SessionAssumption DEF Lc!Init, Lc!Kinds
    <2>4. /\ cur \in 0..MaxStarts /\ lc_made \in 0..MaxStarts /\ entry \in 0..MaxStarts /\ drain \in 0..MaxStarts
          /\ parts \in [Lc!Hosts -> SUBSET Lc!Parts]
      BY SessionAssumption DEF Lc!Init
    <2>5. /\ ui \in BOOLEAN /\ gone \in BOOLEAN /\ lc_dirty \in BOOLEAN /\ lost \in BOOLEAN
          /\ flag \in BOOLEAN /\ missed \in BOOLEAN /\ foreign \in BOOLEAN
      BY DEF Lc!Init
    <2>6. read \in 0..MaxStarts
      BY SessionAssumption DEF Lc!Init
    <2> QED
      BY <2>1, <2>2, <2>3, <2>4, <2>5, <2>6 DEF Lc!TypeOK
  <1>2. HostsFit
    BY DEF Lc!Init, HostsFit, HostFits, On
  <1>3. Waits /\ FlagFits /\ QuitFits
    BY DEF Lc!Init, Waits, FlagFits, QuitFits
  <1> QED
    BY <1>1, <1>2, <1>3

\* The main thread starts to stop a host that the process has.
LEMMA StopBegins ==
  ASSUME Lc!TypeOK, HostFits, main = Lc!Idle, Lc!ModuleStop, UNCHANGED <<parts, entry, foreign, lc_made>>
  PROVE  HostFits' /\ cur' = 0 /\ main'.do \in {"idle", "stop"}
  <1>1. CASE cur = 0
    BY <1>1 DEF Lc!ModuleStop, HostFits, Lc!Idle, Only, On, Lc!Hosts
  <1>2. CASE cur # 0
    <2>1. cur \in 1..lc_made /\ parts[cur] = Lc!Parts /\ On(cur) /\ Only(cur)
      BY <1>2 DEF HostFits, Lc!Idle
    <2>2. PICK h : h = cur
      OBVIOUS
    <2>3. main' = [do |-> "stop", host |-> h, next |-> <<"hip", "entry", "server", "executor">>] /\ cur' = 0
      BY <1>2, <2>2 DEF Lc!ModuleStop, Lc!StopsFor, Lc!StopOrder
    <2>4. main'.do = "stop" /\ main'.host = h /\ main'.next = <<"hip", "entry", "server", "executor">>
      BY <2>3
    <2>5. Stopping(h)'
      BY <2>1, <2>2, <2>4 DEF Stopping, On, Lc!Parts
    <2>6. Only(h)'
      BY <2>1, <2>2 DEF Only, Lc!Hosts
    <2> QED
      BY <2>1, <2>2, <2>3, <2>4, <2>5, <2>6 DEF HostFits, Stopping, Only, On
  <1> QED
    BY <1>1, <1>2

LEMMA HostSteps == Lc!TypeOK /\ HostsFit /\ [Lc!Next]_(Lc!vars) => HostsFit'
  <1> SUFFICES ASSUME Lc!TypeOK, HostsFit, ~gone, [Lc!Next]_(Lc!vars) PROVE HostsFit'
    <2> SUFFICES ASSUME [Lc!Next]_(Lc!vars), gone PROVE gone'
      BY DEF HostsFit
    <2>1. CASE Lc!Next
      BY <2>1 DEF Lc!Next, Lc!Start, Lc!PartUp, Lc!Started, Lc!PartFails, Lc!PartDown, Lc!Stopped,
         Lc!UserStops, Lc!Edit, Lc!UserSaves, Lc!IdleEnds, Lc!LoopEnds, Lc!Signal, Lc!MainReturns,
         Lc!UserQuits, Lc!Rewrite, Lc!BridgeReads, Lc!BridgeNames, Lc!BridgeForgets, Lc!Post, Lc!GivesUp, Lc!Answer, Lc!Act, Lc!Pump
    <2> QED
      BY <2>1 DEF Lc!vars
  <1>0. HostFits /\ \A g \in Lc!Hosts : g > lc_made => parts[g] = {}
    BY DEF HostsFit
  <1>a. /\ main = [do |-> main.do, host |-> main.host, next |-> main.next]
        /\ lc_made \in 0..MaxStarts /\ cur \in 0..MaxStarts
        /\ parts \in [Lc!Hosts -> SUBSET Lc!Parts] /\ main.host \in 0..MaxStarts
    BY DEF Lc!TypeOK
  <1>1. CASE UNCHANGED <<main, cur, parts, gone, lc_made>> /\ (UNCHANGED <<entry, foreign>> \/ foreign')
    BY <1>1 DEF HostsFit, HostFits, Starting, Stopping, Only, On
  <1>2. CASE gone'
    BY <1>2 DEF HostsFit
  <1>3. CASE main = Lc!Idle /\ Lc!ModuleStop /\ UNCHANGED <<parts, entry, foreign, lc_made>>
    BY <1>0, <1>3, StopBegins DEF HostsFit
  <1>4. CASE Lc!Start
    <2>1. /\ lc_made' = lc_made + 1 /\ lc_made < MaxStarts
          /\ main' = [do |-> "start", host |-> lc_made + 1,
                      next |-> <<"executor", "server", "hip", "events", "entry">>]
          /\ UNCHANGED <<cur, parts, entry, foreign>> /\ main = Lc!Idle /\ cur = 0
      BY <1>4 DEF Lc!Start, Lc!StartOrder, Lc!Files
    <2>2. On(0) /\ \A g \in Lc!Hosts : parts[g] = {}
      BY <2>1, <1>0, <1>a DEF HostFits, Lc!Idle
    <2>3. main'.host = lc_made + 1 /\ lc_made + 1 \in Lc!Hosts /\ lc_made + 1 \in 1..lc_made'
      BY <2>1, <1>a, SessionAssumption DEF Lc!Hosts
    <2>4. Starting(main.host)' /\ Only(main.host)'
      BY <2>1, <2>2, <2>3 DEF Starting, Only, On, Lc!Hosts
    <2>5. HostFits'
      BY <2>1, <2>3, <2>4 DEF HostFits
    <2> QED
      BY <2>1, <2>2, <2>5 DEF HostsFit, Lc!Hosts
  <1>5. CASE Lc!PartUp
    <2>0. PICK h : h = main.host
      OBVIOUS
    <2>1. cur = 0 /\ h \in 1..lc_made /\ Starting(h) /\ Only(h) /\ main.do = "start" /\ main.next # <<>>
      BY <2>0, <1>0, <1>5 DEF HostFits, Lc!PartUp, Lc!Idle
    <2>2. main' = [do |-> "start", host |-> h, next |-> Tail(main.next)] /\ UNCHANGED <<cur, lc_made, gone>>
      BY <2>0, <1>5, <1>a, <2>1 DEF Lc!PartUp
    <2>3. h \in Lc!Hosts
      BY <2>1, <1>a, SessionAssumption DEF Lc!Hosts
    <2>4. IF Head(main.next) = "entry" THEN entry' = h /\ foreign' = FALSE /\ parts' = parts
          ELSE parts' = [parts EXCEPT ![h] = @ \union {Head(main.next)}] /\ UNCHANGED <<entry, foreign>>
      BY <2>0, <1>5 DEF Lc!PartUp
    <2>5. \A g \in Lc!Hosts : g # h => parts'[g] = parts[g]
      BY <2>4, <1>a
    <2>6. Head(main.next) # "entry" => parts'[h] = parts[h] \union {Head(main.next)}
      BY <2>3, <2>4, <1>a
    <2>7. main'.next = Tail(main.next) /\ main'.do = "start" /\ main'.host = h
      BY <2>2
    <2>8. Starting(h)'
      <3>1. CASE main.next = <<"executor", "server", "hip", "events", "entry">>
        BY <3>1, <2>1, <2>4, <2>6, <2>7, Heads, Tails DEF Starting, On
      <3>2. CASE main.next = <<"server", "hip", "events", "entry">>
        BY <3>2, <2>1, <2>4, <2>6, <2>7, Heads, Tails DEF Starting, On
      <3>3. CASE main.next = <<"hip", "events", "entry">>
        BY <3>3, <2>1, <2>4, <2>6, <2>7, Heads, Tails DEF Starting, On
      <3>4. CASE main.next = <<"events", "entry">>
        BY <3>4, <2>1, <2>4, <2>6, <2>7, Heads, Tails DEF Starting, On, Lc!Parts
      <3>5. CASE main.next = <<"entry">>
        BY <3>5, <2>1, <2>4, <2>6, <2>7, Heads, Tails DEF Starting, On, Lc!Parts
      <3> QED
        BY <3>1, <3>2, <3>3, <3>4, <3>5, <2>1 DEF Starting
    <2>9. Only(h)'
      BY <2>1, <2>5 DEF Only, Lc!Hosts
    <2>10. HostFits'
      BY <2>1, <2>2, <2>7, <2>8, <2>9 DEF HostFits, Starting, Only, On
    <2> QED
      BY <2>10, <2>2, <2>5, <2>1, <1>0, <1>a DEF HostsFit, Lc!Hosts
  <1>6. CASE Lc!Started
    <2>1. cur = 0 /\ main.host \in 1..lc_made /\ Starting(main.host) /\ Only(main.host) /\ main.next = <<>>
      BY <1>0, <1>6 DEF HostFits, Lc!Started, Lc!Idle
    <2>2. parts[main.host] = Lc!Parts /\ On(main.host)
      BY <2>1 DEF Starting
    <2>3. main' = Lc!Idle /\ cur' = main.host /\ UNCHANGED <<parts, entry, foreign, lc_made>>
      BY <1>6 DEF Lc!Started, Lc!Idle, Lc!Files
    <2>4. HostFits'
      BY <2>1, <2>2, <2>3 DEF HostFits, Only, On, Lc!Idle, Lc!Parts, Lc!Hosts
    <2> QED
      BY <1>0, <2>3, <2>4 DEF HostsFit, Lc!Hosts
  <1>7. CASE Lc!PartFails
    <2>0. PICK h : h = main.host
      OBVIOUS
    <2>1. cur = 0 /\ h \in 1..lc_made /\ Starting(h) /\ Only(h) /\ main.next # <<>>
      BY <2>0, <1>0, <1>7 DEF HostFits, Lc!PartFails, Lc!Idle
    <2>2. /\ main' = [do |-> "stop", host |-> h, next |-> <<"hip", "entry", "server", "executor">>]
          /\ UNCHANGED <<cur, parts, entry, foreign, lc_made>>
      BY <2>0, <1>7 DEF Lc!PartFails, Lc!Files, Lc!Failed, Lc!StopsFor, Lc!StopOrder
    <2>3. Stopping(h)'
      BY <2>1, <2>2 DEF Starting, Stopping, On, Lc!Parts
    <2>4. Only(h)'
      BY <2>1, <2>2 DEF Only, Lc!Hosts
    <2>5. HostFits'
      BY <2>1, <2>2, <2>3, <2>4 DEF HostFits, Stopping, Only, On
    <2> QED
      BY <1>0, <2>2, <2>5 DEF HostsFit, Lc!Hosts
  <1>8. CASE Lc!PartDown
    <2>0. PICK h : h = main.host
      OBVIOUS
    <2> DEFINE p == Head(main.next)
    <2>1. cur = 0 /\ h \in 1..lc_made /\ Stopping(h) /\ Only(h) /\ main.do = "stop" /\ main.next # <<>>
      BY <2>0, <1>0, <1>8 DEF HostFits, Lc!PartDown, Lc!Idle
    <2>2. main' = [do |-> "stop", host |-> h, next |-> Tail(main.next)] /\ UNCHANGED <<cur, lc_made, gone>>
      BY <2>0, <1>8, <1>a, <2>1 DEF Lc!PartDown
    <2>3. h \in Lc!Hosts
      BY <2>1, <1>a, SessionAssumption DEF Lc!Hosts
    <2>4. /\ parts' = [parts EXCEPT ![h] = CASE p = "hip" /\ "hip" \in @ -> @ \ {"hip", "events"}
                                            [] OTHER -> @ \ {p}]
          /\ IF p = "entry" THEN entry' = 0 \/ foreign' ELSE UNCHANGED <<entry, foreign>>
      BY <2>0, <1>8 DEF Lc!PartDown, Lc!Removed
    <2> HIDE DEF p
    <2>5. \A g \in Lc!Hosts : g # h => parts'[g] = parts[g]
      BY <2>4, <1>a
    <2>6. parts'[h] = IF p = "hip" /\ "hip" \in parts[h] THEN parts[h] \ {"hip", "events"} ELSE parts[h] \ {p}
      BY <2>3, <2>4, <1>a
    <2>7. main'.next = Tail(main.next) /\ main'.do = "stop" /\ main'.host = h
      BY <2>2
    <2>p. parts[h] \subseteq Lc!Parts
      BY <2>3, <1>a
    <2>8. Stopping(h)'
      <3>1. CASE main.next = <<"hip", "entry", "server", "executor">>
        <4>1. p = "hip" /\ main'.next = <<"entry", "server", "executor">> /\ UNCHANGED <<entry, foreign>>
          BY <3>1, <2>4, <2>7, Heads, Tails DEF p
        <4>2. ("events" \in parts[h] => "hip" \in parts[h]) /\ (On(0) \/ (entry = h /\ parts[h] = Lc!Parts))
          BY <3>1, <2>1 DEF Stopping
        <4>3. parts'[h] \subseteq {"server", "executor"}
          BY <4>1, <4>2, <2>6, <2>p DEF Lc!Parts
        <4>4. On(0)' \/ (entry' = h /\ {"server", "executor"} \subseteq parts'[h])
          <5>1. CASE parts[h] = Lc!Parts
            <6>1. parts'[h] = Lc!Parts \ {"hip", "events"}
              BY <5>1, <4>1, <2>6 DEF Lc!Parts
            <6> QED
              BY <6>1, <4>1, <4>2 DEF On, Lc!Parts
          <5>2. CASE On(0)
            BY <5>2, <4>1 DEF On
          <5> QED
            BY <5>1, <5>2, <4>2
        <4> QED
          BY <4>1, <4>3, <4>4 DEF Stopping
      <3>2. CASE main.next = <<"entry", "server", "executor">>
        <4>1. p = "entry" /\ main'.next = <<"server", "executor">> /\ On(0)'
          BY <3>2, <2>4, <2>7, Heads, Tails DEF p, On
        <4> QED
          BY <4>1, <3>2, <2>1, <2>6 DEF Stopping
      <3>3. CASE main.next = <<"server", "executor">>
        <4>1. p = "server" /\ main'.next = <<"executor">> /\ UNCHANGED <<entry, foreign>>
          BY <3>3, <2>4, <2>7, Heads, Tails DEF p
        <4> QED
          BY <4>1, <3>3, <2>1, <2>6 DEF Stopping, On
      <3>4. CASE main.next = <<"executor">>
        <4>1. p = "executor" /\ main'.next = <<>> /\ UNCHANGED <<entry, foreign>>
          BY <3>4, <2>4, <2>7, Heads, Tails DEF p
        <4> QED
          BY <4>1, <3>4, <2>1, <2>6 DEF Stopping, On
      <3> QED
        BY <3>1, <3>2, <3>3, <3>4, <2>1 DEF Stopping
    <2>9. Only(h)'
      BY <2>1, <2>5 DEF Only, Lc!Hosts
    <2>10. HostFits'
      BY <2>1, <2>2, <2>7, <2>8, <2>9 DEF HostFits, Stopping, Only, On
    <2> QED
      BY <2>10, <2>2, <2>5, <2>1, <1>0, <1>a DEF HostsFit, Lc!Hosts
  <1>9. CASE Lc!Stopped
    <2>1. cur = 0 /\ main.host \in 1..lc_made /\ Stopping(main.host) /\ Only(main.host) /\ main.next = <<>>
      BY <1>0, <1>9 DEF HostFits, Lc!Stopped, Lc!Idle
    <2>2. parts[main.host] = {} /\ On(0)
      BY <2>1 DEF Stopping
    <2>3. main' = Lc!Idle /\ UNCHANGED <<cur, parts, entry, foreign, lc_made>>
      BY <1>9 DEF Lc!Stopped, Lc!Files, Lc!Idle
    <2>4. HostFits'
      BY <2>1, <2>2, <2>3 DEF HostFits, Only, On, Lc!Hosts
    <2> QED
      BY <1>0, <2>3, <2>4 DEF HostsFit, Lc!Hosts
  <1>10. CASE Lc!UserStops \/ Lc!LoopEnds
    BY <1>10, <1>3 DEF Lc!UserStops, Lc!LoopEnds, Lc!Files
  <1>11. CASE Lc!MainReturns \/ Lc!UserQuits
    BY <1>11, <1>2 DEF Lc!MainReturns, Lc!UserQuits
  <1>12. ASSUME NEW h \in Lc!Hosts, Lc!Pump(h) PROVE HostsFit'
    BY <1>12, <1>1, <1>2, <1>3 DEF Lc!Pump, Lc!Check, Lc!Files
  <1>13. CASE Lc!Edit \/ Lc!UserSaves \/ Lc!IdleEnds \/ Lc!Signal \/ UNCHANGED Lc!vars
    BY <1>13, <1>1 DEF Lc!Edit, Lc!UserSaves, Lc!IdleEnds, Lc!Signal, Lc!vars, Lc!Files
  <1>14. ASSUME NEW r \in Requests, Lc!Post(r) \/ Lc!GivesUp(r) \/ Lc!Answer(r) \/ Lc!Act(r) PROVE HostsFit'
    BY <1>14, <1>1 DEF Lc!Post, Lc!GivesUp, Lc!Answer, Lc!Act, Lc!Files
  <1>15. CASE Lc!BridgeReads \/ Lc!BridgeNames \/ Lc!BridgeForgets
    <2>1. UNCHANGED <<main, cur, parts, gone, lc_made>>
      BY <1>15 DEF Lc!BridgeReads, Lc!BridgeNames, Lc!BridgeForgets
    <2>2. CASE Lc!BridgeReads
      BY <2>1, <2>2, <1>1 DEF Lc!BridgeReads
    <2>3. CASE Lc!BridgeNames
      <3>1. entry' = read /\ foreign' = (foreign \/ entry # read)
        BY <2>3 DEF Lc!BridgeNames
      <3>2. UNCHANGED <<entry, foreign>> \/ foreign'
        <4>1. CASE entry = read
          BY <3>1, <4>1 DEF Lc!TypeOK
        <4>2. CASE entry # read
          BY <3>1, <4>2
        <4> QED
          BY <4>1, <4>2
      <3> QED
        BY <2>1, <3>2, <1>1
    <2>4. CASE Lc!BridgeForgets
      <3>1. entry' = 0 /\ foreign' = (foreign \/ entry # 0)
        BY <2>4 DEF Lc!BridgeForgets
      <3>2. UNCHANGED <<entry, foreign>> \/ foreign'
        <4>1. CASE entry = 0
          BY <3>1, <4>1 DEF Lc!TypeOK
        <4>2. CASE entry # 0
          BY <3>1, <4>2
        <4> QED
          BY <4>1, <4>2
      <3> QED
        BY <2>1, <3>2, <1>1
    <2> QED
      BY <1>15, <2>2, <2>3, <2>4
  <1>16. CASE Lc!Rewrite
    <2>1. main = Lc!Idle /\ cur # 0 /\ entry' = cur /\ UNCHANGED <<main, cur, parts, gone, lc_made>>
      BY <1>16 DEF Lc!Rewrite
    <2> QED
      BY <2>1, <1>0 DEF HostsFit, HostFits, Only, On, Lc!Idle
  <1> QED
    BY <1>4, <1>5, <1>6, <1>7, <1>8, <1>9, <1>10, <1>11, <1>12, <1>13, <1>14, <1>15, <1>16 DEF Lc!Next

\* The rest of StopOrder and of StartOrder are sequences of parts.
LEMMA OrdersAreOfParts ==
  Lc!StartOrder \in Seq(Lc!Parts \union {"entry"}) /\ Lc!StopOrder \in Seq(Lc!Parts \union {"entry"})
  BY DEF Lc!StartOrder, Lc!StopOrder, Lc!Parts

LEMMA LifecycleTyped == Lc!TypeOK /\ [Lc!Next]_(Lc!vars) => Lc!TypeOK'
  <1> SUFFICES ASSUME Lc!TypeOK, [Lc!Next]_(Lc!vars) PROVE Lc!TypeOK'
    OBVIOUS
  <1> DEFINE Items == {"check", "stop", "leave"} \X Requests
  <1> DEFINE Orders == Seq(Lc!Parts \union {"entry"})
  <1>0. /\ MaxStarts \in Nat /\ 0 \in 0..MaxStarts
        /\ lc_made \in 0..MaxStarts /\ cur \in 0..MaxStarts /\ entry \in 0..MaxStarts /\ read \in 0..MaxStarts /\ drain \in 0..MaxStarts
        /\ main \in [do : {"idle", "start", "stop"}, host : 0..MaxStarts, next : Orders]
        /\ main.host \in 0..MaxStarts /\ main.next \in Orders
        /\ parts \in [Lc!Hosts -> SUBSET Lc!Parts]
        /\ queue \in [Lc!Hosts -> Seq(Items)]
        /\ lc_pc \in [Requests -> {"idle", "waiting", "answered", "acting", "acted", "done"}]
    BY SessionAssumption DEF Lc!TypeOK
  <1>i. Lc!Idle \in [do : {"idle", "start", "stop"}, host : 0..MaxStarts, next : Orders]
    BY <1>0 DEF Lc!Idle
  <1>s. \A h \in 0..MaxStarts : Lc!StopsFor(h) \in [do : {"idle", "start", "stop"}, host : 0..MaxStarts, next : Orders]
    BY OrdersAreOfParts DEF Lc!StopsFor
  <1>t. \A q \in Orders : q # <<>> => Tail(q) \in Orders /\ Head(q) \in Lc!Parts \union {"entry"}
    OBVIOUS
  <1>u. \A q \in Seq(Items) : q # <<>> => Tail(q) \in Seq(Items) /\ Head(q) \in Items
    OBVIOUS
  <1>v. \A q \in Seq(Items) : \A w \in Items : Append(q, w) \in Seq(Items)
    OBVIOUS
  <1>m. ASSUME Lc!ModuleStop
        PROVE  /\ main' \in [do : {"idle", "start", "stop"}, host : 0..MaxStarts, next : Orders]
               /\ cur' \in 0..MaxStarts
    BY <1>m, <1>0, <1>i, <1>s DEF Lc!ModuleStop
  <1>h. Lc!Hosts \subseteq 0..MaxStarts
    BY <1>0 DEF Lc!Hosts
  <1>1. /\ ui' \in BOOLEAN /\ gone' \in BOOLEAN /\ lc_dirty' \in BOOLEAN /\ lost' \in BOOLEAN
        /\ flag' \in BOOLEAN /\ missed' \in BOOLEAN /\ foreign' \in BOOLEAN
    <2>1. ASSUME NEW h \in Lc!Hosts, Lc!Pump(h)
          PROVE  /\ ui' \in BOOLEAN /\ gone' \in BOOLEAN /\ lc_dirty' \in BOOLEAN /\ lost' \in BOOLEAN
                 /\ flag' \in BOOLEAN /\ missed' \in BOOLEAN /\ foreign' \in BOOLEAN
      BY <2>1 DEF Lc!TypeOK, Lc!Pump, Lc!Check, Lc!Loses, Lc!Scene, Lc!Files
    <2>2. ASSUME NEW r \in Requests, Lc!Post(r) \/ Lc!GivesUp(r) \/ Lc!Answer(r) \/ Lc!Act(r)
          PROVE  /\ ui' \in BOOLEAN /\ gone' \in BOOLEAN /\ lc_dirty' \in BOOLEAN /\ lost' \in BOOLEAN
                 /\ flag' \in BOOLEAN /\ missed' \in BOOLEAN /\ foreign' \in BOOLEAN
      BY <2>2 DEF Lc!TypeOK, Lc!Post, Lc!GivesUp, Lc!Answer, Lc!Act, Lc!Scene, Lc!Files
    <2> QED
      BY <2>1, <2>2 DEF Lc!TypeOK, Lc!Next, Lc!vars, Lc!Start, Lc!PartUp, Lc!Started, Lc!PartFails,
         Lc!PartDown, Lc!Stopped, Lc!UserStops, Lc!Edit, Lc!UserSaves, Lc!IdleEnds, Lc!LoopEnds, Lc!Rewrite, Lc!BridgeReads, Lc!BridgeNames, Lc!BridgeForgets,
         Lc!Signal, Lc!MainReturns, Lc!UserQuits, Lc!Scene, Lc!Files, Lc!Loses, Lc!Tracked, Lc!Removed
  <1>2. /\ lc_made' \in 0..MaxStarts /\ cur' \in 0..MaxStarts
        /\ main' \in [do : {"idle", "start", "stop"}, host : 0..MaxStarts, next : Orders]
    <2>1. CASE UNCHANGED <<lc_made, cur, main>>
      BY <2>1, <1>0
    <2>2. CASE Lc!ModuleStop /\ UNCHANGED lc_made
      BY <2>2, <1>m, <1>0
    <2>3. CASE Lc!Start
      <3>1. lc_made + 1 \in 0..MaxStarts
        BY <2>3, <1>0 DEF Lc!Start
      <3> QED
        BY <3>1, <2>3, <1>0, OrdersAreOfParts DEF Lc!Start
    <2>4. CASE Lc!PartUp \/ Lc!PartDown
      <3>1. main.next # <<>> /\ main' = [main EXCEPT !.next = Tail(@)] /\ UNCHANGED <<lc_made, cur>>
        BY <2>4 DEF Lc!PartUp, Lc!PartDown
      <3>2. main' = [main EXCEPT !.next = Tail(main.next)] /\ Tail(main.next) \in Orders
        BY <3>1, <1>0, <1>t
      <3> HIDE DEF Orders
      <3> QED
        BY <3>1, <3>2, <1>0
    <2>5. CASE Lc!Started \/ Lc!Stopped
      BY <2>5, <1>0, <1>i DEF Lc!Started, Lc!Stopped
    <2>6. CASE Lc!PartFails
      BY <2>6, <1>0, <1>s DEF Lc!PartFails, Lc!Failed
    <2>7. ASSUME NEW h \in Lc!Hosts, Lc!Pump(h)
          PROVE  /\ lc_made' \in 0..MaxStarts /\ cur' \in 0..MaxStarts
                 /\ main' \in [do : {"idle", "start", "stop"}, host : 0..MaxStarts, next : Orders]
      BY <2>1, <2>2, <2>7 DEF Lc!Pump, Lc!Check
    <2>8. ASSUME NEW r \in Requests, Lc!Post(r) \/ Lc!GivesUp(r) \/ Lc!Answer(r) \/ Lc!Act(r)
          PROVE  /\ lc_made' \in 0..MaxStarts /\ cur' \in 0..MaxStarts
                 /\ main' \in [do : {"idle", "start", "stop"}, host : 0..MaxStarts, next : Orders]
      BY <2>1, <2>8 DEF Lc!Post, Lc!GivesUp, Lc!Answer, Lc!Act
    <2>9. CASE Lc!Edit \/ Lc!UserSaves \/ Lc!IdleEnds \/ Lc!Signal \/ Lc!MainReturns \/ Lc!UserQuits
            \/ Lc!Rewrite \/ Lc!BridgeReads \/ Lc!BridgeNames \/ Lc!BridgeForgets \/ UNCHANGED Lc!vars
      BY <2>9, <2>1 DEF Lc!Edit, Lc!UserSaves, Lc!IdleEnds, Lc!Signal, Lc!MainReturns, Lc!UserQuits, Lc!Rewrite, Lc!BridgeReads, Lc!BridgeNames, Lc!BridgeForgets, Lc!vars
    <2>10. CASE Lc!UserStops \/ Lc!LoopEnds
      BY <2>10, <2>2 DEF Lc!UserStops, Lc!LoopEnds
    <2> QED
      BY <2>3, <2>4, <2>5, <2>6, <2>7, <2>8, <2>9, <2>10 DEF Lc!Next
  <1>3. parts' \in [Lc!Hosts -> SUBSET Lc!Parts] /\ entry' \in 0..MaxStarts /\ read' \in 0..MaxStarts
    <2>1. CASE UNCHANGED <<parts, entry, read>>
      BY <2>1, <1>0
    <2>2. CASE Lc!PartUp
      <3> DEFINE p == Head(main.next)
      <3>1. /\ main.next # <<>> /\ read' = read
            /\ \/ p = "entry" /\ entry' = main.host /\ parts' = parts
               \/ p # "entry" /\ parts' = [parts EXCEPT ![main.host] = @ \union {p}] /\ entry' = entry
        BY <2>2 DEF Lc!PartUp
      <3>2. p \in Lc!Parts \union {"entry"}
        BY <3>1, <1>0, <1>t
      <3> HIDE DEF p
      <3>3. CASE p = "entry"
        BY <3>1, <3>3, <1>0
      <3>4. CASE p # "entry"
        <4>1. p \in Lc!Parts
          BY <3>2, <3>4
        <4>2. parts' = [parts EXCEPT ![main.host] = @ \union {p}] /\ entry' = entry
          BY <3>1, <3>4
        <4>3. main.host \in Lc!Hosts => parts[main.host] \union {p} \in SUBSET Lc!Parts
          BY <4>1, <1>0
        <4> QED
          BY <3>1, <4>2, <4>3, <1>0
      <3> QED
        BY <3>3, <3>4
    <2>3. CASE Lc!PartDown
      <3> DEFINE p == Head(main.next)
      <3>1. /\ parts' = [parts EXCEPT ![main.host] = CASE p = "hip" /\ "hip" \in @ -> @ \ {"hip", "events"}
                                                       [] OTHER -> @ \ {p}]
            /\ entry' \in {0, entry} /\ read' = read
        BY <2>3 DEF Lc!PartDown, Lc!Removed
      <3> HIDE DEF p
      <3> QED
        BY <3>1, <1>0
    <2>4. CASE Lc!UserQuits
      BY <2>4, <1>0 DEF Lc!UserQuits, Lc!Removed
    <2>5. ASSUME NEW h \in Lc!Hosts, Lc!Pump(h) PROVE parts' \in [Lc!Hosts -> SUBSET Lc!Parts] /\ entry' \in 0..MaxStarts /\ read' \in 0..MaxStarts
      BY <2>1, <2>5 DEF Lc!Pump, Lc!Files
    <2>6. ASSUME NEW r \in Requests, Lc!Post(r) \/ Lc!GivesUp(r) \/ Lc!Answer(r) \/ Lc!Act(r)
          PROVE  parts' \in [Lc!Hosts -> SUBSET Lc!Parts] /\ entry' \in 0..MaxStarts /\ read' \in 0..MaxStarts
      BY <2>1, <2>6 DEF Lc!Post, Lc!GivesUp, Lc!Answer, Lc!Act, Lc!Files
    <2>7. CASE Lc!Start \/ Lc!Started \/ Lc!PartFails \/ Lc!Stopped \/ Lc!UserStops \/ Lc!LoopEnds
      BY <2>1, <2>7 DEF Lc!Start, Lc!Started, Lc!PartFails, Lc!Stopped, Lc!UserStops, Lc!LoopEnds, Lc!Files
    <2>8. CASE Lc!Edit \/ Lc!UserSaves \/ Lc!IdleEnds \/ Lc!Signal \/ Lc!MainReturns \/ UNCHANGED Lc!vars
      BY <2>1, <2>8 DEF Lc!Edit, Lc!UserSaves, Lc!IdleEnds, Lc!Signal, Lc!MainReturns, Lc!Files, Lc!vars
    <2>9. CASE Lc!Rewrite \/ Lc!BridgeReads \/ Lc!BridgeNames \/ Lc!BridgeForgets
      BY <2>9, <1>0 DEF Lc!Rewrite, Lc!BridgeReads, Lc!BridgeNames, Lc!BridgeForgets
    <2> QED
      BY <2>2, <2>3, <2>4, <2>5, <2>6, <2>7, <2>8, <2>9 DEF Lc!Next
  <1>4. queue' \in [Lc!Hosts -> Seq(Items)] /\ drain' \in 0..MaxStarts
    <2>1. CASE UNCHANGED queue /\ drain' \in {0, drain}
      BY <2>1, <1>0
    <2>2. ASSUME NEW g \in 0..MaxStarts, NEW w \in Items, queue' = [queue EXCEPT ![g] = Append(@, w)], UNCHANGED drain
          PROVE  queue' \in [Lc!Hosts -> Seq(Items)] /\ drain' \in 0..MaxStarts
      <3> HIDE DEF Items
      <3> QED
        BY <2>2, <1>0, <1>v
    <2>3. CASE Lc!PartDown
      <3>1. <<>> \in Seq(Items)
        OBVIOUS
      <3>2. UNCHANGED drain /\ queue' \in {queue, [queue EXCEPT ![main.host] = <<>>]}
        BY <2>3 DEF Lc!PartDown
      <3> HIDE DEF Items
      <3> QED
        BY <3>1, <3>2, <1>0
    <2>4. ASSUME NEW h \in Lc!Hosts, Lc!Pump(h) PROVE queue' \in [Lc!Hosts -> Seq(Items)] /\ drain' \in 0..MaxStarts
      <3>1. queue[h] # <<>> /\ queue' = [queue EXCEPT ![h] = Tail(@)] /\ drain' \in {0, h}
        BY <2>4 DEF Lc!Pump
      <3>2. Tail(queue[h]) \in Seq(Items)
        BY <3>1, <1>0, <1>u
      <3> HIDE DEF Items
      <3> QED
        BY <3>1, <3>2, <1>0, <1>h
    <2>5. ASSUME NEW r \in Requests, Lc!Post(r) PROVE queue' \in [Lc!Hosts -> Seq(Items)] /\ drain' \in 0..MaxStarts
      <3>1. <<"check", r>> \in Items
        OBVIOUS
      <3>2. UNCHANGED drain /\ (UNCHANGED queue \/ queue' = [queue EXCEPT ![entry] = Append(@, <<"check", r>>)])
        BY <2>5 DEF Lc!Post
      <3> HIDE DEF Items
      <3> QED
        BY <3>1, <3>2, <2>1, <2>2, <1>0
    <2>6. ASSUME NEW r \in Requests, Lc!Act(r) PROVE queue' \in [Lc!Hosts -> Seq(Items)] /\ drain' \in 0..MaxStarts
      <3>1. PICK g, w : /\ g = lc_to[r] /\ w \in {<<"stop", r>>, <<"leave", r>>}
                        /\ queue' = [queue EXCEPT ![g] = Append(@, w)]
        BY <2>6 DEF Lc!Act, Lc!ActStop
      <3>2. w \in Items
        BY <3>1
      <3>3. UNCHANGED drain
        BY <2>6 DEF Lc!Act
      <3> HIDE DEF Items
      <3>4. g \in Lc!Hosts => Append(queue[g], w) \in Seq(Items)
        BY <3>2, <1>0, <1>v
      <3>5. queue' \in [Lc!Hosts -> Seq(Items)]
        BY <3>1, <3>4, <1>0
      <3> QED
        BY <3>3, <3>5, <1>0
    <2>7. ASSUME NEW r \in Requests, Lc!GivesUp(r) \/ Lc!Answer(r)
          PROVE  queue' \in [Lc!Hosts -> Seq(Items)] /\ drain' \in 0..MaxStarts
      BY <2>1, <2>7 DEF Lc!GivesUp, Lc!Answer
    <2>8. CASE Lc!Start \/ Lc!PartUp \/ Lc!Started \/ Lc!PartFails \/ Lc!Stopped \/ Lc!UserStops \/ Lc!LoopEnds
      BY <2>1, <2>8 DEF Lc!Start, Lc!PartUp, Lc!Started, Lc!PartFails, Lc!Stopped, Lc!UserStops, Lc!LoopEnds
    <2>9. CASE Lc!Edit \/ Lc!UserSaves \/ Lc!IdleEnds \/ Lc!Signal \/ Lc!MainReturns \/ Lc!UserQuits
            \/ Lc!Rewrite \/ Lc!BridgeReads \/ Lc!BridgeNames \/ Lc!BridgeForgets \/ UNCHANGED Lc!vars
      BY <2>1, <2>9 DEF Lc!Edit, Lc!UserSaves, Lc!IdleEnds, Lc!Signal, Lc!MainReturns, Lc!UserQuits, Lc!Rewrite, Lc!BridgeReads, Lc!BridgeNames, Lc!BridgeForgets, Lc!vars
    <2> QED
      BY <2>3, <2>4, <2>5, <2>6, <2>7, <2>8, <2>9 DEF Lc!Next
  <1>5. event' \in [Lc!Hosts -> BOOLEAN] /\ late' \in [Requests -> BOOLEAN]
    <2>0. event \in [Lc!Hosts -> BOOLEAN] /\ late \in [Requests -> BOOLEAN]
      BY DEF Lc!TypeOK
    <2>1. CASE UNCHANGED late /\ \E h : event' \in {event, [event EXCEPT ![h] = TRUE]}
      BY <2>0, <2>1
    <2>2. CASE Lc!Edit \/ Lc!Signal
      BY <2>0, <2>2 DEF Lc!Edit, Lc!Signal
    <2>3. ASSUME NEW h \in Lc!Hosts, Lc!Pump(h) PROVE event' \in [Lc!Hosts -> BOOLEAN] /\ late' \in [Requests -> BOOLEAN]
      BY <2>0, <2>3 DEF Lc!Pump, Lc!Check, Lc!Scene
    <2>4. ASSUME NEW r \in Requests, Lc!Act(r) PROVE event' \in [Lc!Hosts -> BOOLEAN] /\ late' \in [Requests -> BOOLEAN]
      <3>1. UNCHANGED late /\ event' \in {event, [event EXCEPT ![lc_to[r]] = TRUE]}
        BY <2>4 DEF Lc!Act, Lc!ActStop, Lc!Scene
      <3> QED
        BY <3>1, <2>1
    <2>5. ASSUME NEW r \in Requests, Lc!Post(r) \/ Lc!GivesUp(r) \/ Lc!Answer(r)
          PROVE  event' \in [Lc!Hosts -> BOOLEAN] /\ late' \in [Requests -> BOOLEAN]
      BY <2>0, <2>5 DEF Lc!Post, Lc!GivesUp, Lc!Answer, Lc!Scene
    <2>6. CASE Lc!PartDown
      BY <2>0, <2>6 DEF Lc!PartDown, Lc!Scene
    <2>7. CASE Lc!Start \/ Lc!PartUp \/ Lc!Started \/ Lc!PartFails \/ Lc!Stopped \/ Lc!UserStops \/ Lc!LoopEnds
      BY <2>0, <2>7 DEF Lc!Start, Lc!PartUp, Lc!Started, Lc!PartFails, Lc!Stopped, Lc!UserStops, Lc!LoopEnds, Lc!Scene
    <2>8. CASE Lc!UserSaves \/ Lc!IdleEnds \/ Lc!MainReturns \/ Lc!UserQuits
            \/ Lc!Rewrite \/ Lc!BridgeReads \/ Lc!BridgeNames \/ Lc!BridgeForgets \/ UNCHANGED Lc!vars
      BY <2>0, <2>8 DEF Lc!UserSaves, Lc!IdleEnds, Lc!MainReturns, Lc!UserQuits, Lc!Rewrite, Lc!BridgeReads, Lc!BridgeNames, Lc!BridgeForgets, Lc!vars, Lc!Scene
    <2> QED
      BY <2>2, <2>3, <2>4, <2>5, <2>6, <2>7, <2>8 DEF Lc!Next
  <1>6. /\ lc_kind' \in [Requests -> Lc!Kinds] /\ lc_to' \in [Requests -> 0..MaxStarts]
        /\ lc_pc' \in [Requests -> {"idle", "waiting", "answered", "acting", "acted", "done"}]
    <2>0. lc_kind \in [Requests -> Lc!Kinds] /\ lc_to \in [Requests -> 0..MaxStarts]
      BY DEF Lc!TypeOK
    <2>1. ASSUME NEW h \in Lc!Hosts, Lc!Pump(h)
          PROVE  /\ UNCHANGED <<lc_kind, lc_to>>
                 /\ lc_pc' \in [Requests -> {"idle", "waiting", "answered", "acting", "acted", "done"}]
      <3>1. UNCHANGED lc_pc \/ \E r : lc_pc' \in {[lc_pc EXCEPT ![r] = "done"], [lc_pc EXCEPT ![r] = "answered"]}
        BY <2>1 DEF Lc!Pump, Lc!Check
      <3>2. UNCHANGED <<lc_kind, lc_to>>
        BY <2>1 DEF Lc!Pump
      <3> QED
        BY <3>1, <3>2, <1>0
    <2>2. ASSUME NEW r \in Requests, Lc!Post(r) \/ Lc!GivesUp(r) \/ Lc!Answer(r) \/ Lc!Act(r)
          PROVE  /\ lc_kind' \in [Requests -> Lc!Kinds] /\ lc_to' \in [Requests -> 0..MaxStarts]
                 /\ lc_pc' \in [Requests -> {"idle", "waiting", "answered", "acting", "acted", "done"}]
      <3>1. UNCHANGED lc_kind \/ \E k \in Lc!Kinds : lc_kind' = [lc_kind EXCEPT ![r] = k]
        BY <2>2 DEF Lc!Post, Lc!GivesUp, Lc!Answer, Lc!Act
      <3>2. UNCHANGED lc_to \/ lc_to' = [lc_to EXCEPT ![r] = entry]
        BY <2>2 DEF Lc!Post, Lc!GivesUp, Lc!Answer, Lc!Act
      <3>3. \E x \in {"waiting", "acting", "acted", "done"} : lc_pc' = [lc_pc EXCEPT ![r] = x]
        BY <2>2 DEF Lc!Post, Lc!GivesUp, Lc!Answer, Lc!Act
      <3>4. lc_kind' \in [Requests -> Lc!Kinds]
        BY <3>1, <2>0
      <3>5. lc_to' \in [Requests -> 0..MaxStarts]
        BY <3>2, <2>0, <1>0
      <3>6. lc_pc' \in [Requests -> {"idle", "waiting", "answered", "acting", "acted", "done"}]
        BY <3>3, <1>0
      <3> QED
        BY <3>4, <3>5, <3>6
    <2>3. CASE Lc!PartDown
      BY <2>0, <2>3, <1>0 DEF Lc!PartDown, Lc!Drained
    <2>4. CASE UNCHANGED <<lc_kind, lc_to, lc_pc>>
      BY <2>4, <2>0, <1>0
    <2>5. CASE Lc!Start \/ Lc!PartUp \/ Lc!Started \/ Lc!PartFails \/ Lc!Stopped \/ Lc!UserStops \/ Lc!LoopEnds
      BY <2>4, <2>5 DEF Lc!Start, Lc!PartUp, Lc!Started, Lc!PartFails, Lc!Stopped, Lc!UserStops, Lc!LoopEnds, Lc!Requesting
    <2>6. CASE Lc!Edit \/ Lc!UserSaves \/ Lc!IdleEnds \/ Lc!Signal \/ Lc!MainReturns \/ Lc!UserQuits
            \/ Lc!Rewrite \/ Lc!BridgeReads \/ Lc!BridgeNames \/ Lc!BridgeForgets \/ UNCHANGED Lc!vars
      BY <2>4, <2>6 DEF Lc!Edit, Lc!UserSaves, Lc!IdleEnds, Lc!Signal, Lc!MainReturns, Lc!UserQuits, Lc!Rewrite, Lc!BridgeReads, Lc!BridgeNames, Lc!BridgeForgets, Lc!vars, Lc!Requesting
    <2> QED
      BY <2>0, <2>1, <2>2, <2>3, <2>5, <2>6 DEF Lc!Next
  <1> QED
    BY <1>1, <1>2, <1>3, <1>4, <1>5, <1>6 DEF Lc!TypeOK

LEMMA WaitSteps == Lc!TypeOK /\ Waits /\ [Lc!Next]_(Lc!vars) => Waits'
  <1> SUFFICES ASSUME Lc!TypeOK, Waits, [Lc!Next]_(Lc!vars) PROVE Waits'
    OBVIOUS
  <1>0. /\ lc_pc \in [Requests -> {"idle", "waiting", "answered", "acting", "acted", "done"}]
        /\ lc_to \in [Requests -> 0..MaxStarts] /\ parts \in [Lc!Hosts -> SUBSET Lc!Parts]
        /\ entry \in 0..MaxStarts /\ MaxStarts \in Nat
    BY SessionAssumption DEF Lc!TypeOK
  \* Nobody more waits, and no executor goes.
  <1>1. ASSUME UNCHANGED <<lc_to, parts>>, \A r \in Requests : lc_pc'[r] = "waiting" => lc_pc[r] = "waiting"
        PROVE  Waits'
    BY <1>1 DEF Waits
  <1>2. CASE Lc!PartUp
    <2>1. UNCHANGED <<lc_pc, lc_to>> /\ \A h \in Lc!Hosts : parts[h] \subseteq parts'[h]
      BY <1>2, <1>0 DEF Lc!PartUp, Lc!Requesting
    <2> QED
      BY <2>1 DEF Waits
  <1>3. CASE Lc!PartDown
    <2> DEFINE h == main.host
               p == Head(main.next)
    <2>1. /\ UNCHANGED lc_to
          /\ parts' = [parts EXCEPT ![h] = CASE p = "hip" /\ "hip" \in @ -> @ \ {"hip", "events"}
                                              [] OTHER -> @ \ {p}]
          /\ lc_pc' = IF p = "executor" /\ p \in parts[h] THEN Lc!Drained(h) ELSE lc_pc
      BY <1>3 DEF Lc!PartDown
    <2> HIDE DEF h, p
    <2>2. ASSUME NEW r \in Requests, lc_pc'[r] = "waiting" PROVE "executor" \in parts'[lc_to[r]]
      <3>1. lc_pc[r] = "waiting" /\ (p = "executor" /\ p \in parts[h] => lc_to[r] # h)
        BY <2>1, <2>2 DEF Lc!Drained
      <3>2. lc_to[r] \in Lc!Hosts /\ "executor" \in parts[lc_to[r]]
        BY <3>1 DEF Waits
      <3> QED
        BY <2>1, <3>1, <3>2, <1>0
    <2>3. \A r \in Requests : lc_pc'[r] = "waiting" => lc_pc[r] = "waiting"
      BY <2>1 DEF Lc!Drained
    <2> QED
      BY <2>1, <2>2, <2>3 DEF Waits
  <1>4. ASSUME NEW r \in Requests, Lc!Post(r) PROVE Waits'
    <2>1. /\ lc_to' = [lc_to EXCEPT ![r] = entry] /\ UNCHANGED parts /\ entry # 0
          /\ \/ lc_pc' = [lc_pc EXCEPT ![r] = "waiting"] /\ "executor" \in parts[entry]
             \/ lc_pc' = [lc_pc EXCEPT ![r] = "acting"]
             \/ lc_pc' = [lc_pc EXCEPT ![r] = "done"]
      BY <1>4 DEF Lc!Post, Lc!Guarded
    <2>2. lc_to'[r] = entry /\ entry \in Lc!Hosts
      BY <2>1, <1>0 DEF Lc!Hosts
    <2>3. lc_pc'[r] = "waiting" => "executor" \in parts[entry]
      BY <2>1, <1>0
    <2>4. \A q \in Requests \ {r} : lc_pc'[q] = lc_pc[q] /\ lc_to'[q] = lc_to[q]
      BY <2>1, <1>0
    <2> QED
      BY <2>1, <2>2, <2>3, <2>4 DEF Waits
  <1>5. ASSUME NEW r \in Requests, Lc!GivesUp(r) \/ Lc!Answer(r) \/ Lc!Act(r) PROVE Waits'
    <2>1. UNCHANGED <<lc_to, parts>> /\ \E x \in {"acting", "acted", "done"} : lc_pc' = [lc_pc EXCEPT ![r] = x]
      BY <1>5 DEF Lc!GivesUp, Lc!Answer, Lc!Act
    <2>2. \A q \in Requests : lc_pc'[q] = "waiting" => lc_pc[q] = "waiting"
      BY <2>1, <1>0
    <2> QED
      BY <2>1, <2>2, <1>1
  <1>6. ASSUME NEW h \in Lc!Hosts, Lc!Pump(h) PROVE Waits'
    <2>1. UNCHANGED <<lc_to, parts>>
      BY <1>6 DEF Lc!Pump
    <2>2. UNCHANGED lc_pc \/ \E r : \E x \in {"done", "answered"} : lc_pc' = [lc_pc EXCEPT ![r] = x]
      BY <1>6 DEF Lc!Pump, Lc!Check
    <2>3. \A q \in Requests : lc_pc'[q] = "waiting" => lc_pc[q] = "waiting"
      BY <2>2, <1>0
    <2> QED
      BY <2>1, <2>3, <1>1
  <1>7. CASE UNCHANGED <<lc_pc, lc_to, parts>>
    BY <1>7, <1>1
  <1>8. CASE Lc!Start \/ Lc!Started \/ Lc!PartFails \/ Lc!Stopped \/ Lc!UserStops \/ Lc!LoopEnds
    BY <1>7, <1>8 DEF Lc!Start, Lc!Started, Lc!PartFails, Lc!Stopped, Lc!UserStops, Lc!LoopEnds, Lc!Requesting
  <1>9. CASE Lc!Edit \/ Lc!UserSaves \/ Lc!IdleEnds \/ Lc!Signal \/ Lc!MainReturns \/ Lc!UserQuits
    BY <1>7, <1>9 DEF Lc!Edit, Lc!UserSaves, Lc!IdleEnds, Lc!Signal, Lc!MainReturns, Lc!UserQuits, Lc!Requesting
  <1>10. CASE Lc!Rewrite \/ Lc!BridgeReads \/ Lc!BridgeNames \/ Lc!BridgeForgets \/ UNCHANGED Lc!vars
    BY <1>7, <1>10 DEF Lc!Rewrite, Lc!BridgeReads, Lc!BridgeNames, Lc!BridgeForgets, Lc!vars, Lc!Requesting
  <1> QED
    BY <1>2, <1>3, <1>4, <1>5, <1>6, <1>8, <1>9, <1>10 DEF Lc!Next

LEMMA FlagSteps == Lc!TypeOK /\ HostsFit /\ FlagFits /\ [Lc!Next]_(Lc!vars) => FlagFits'
  <1> SUFFICES ASSUME Lc!TypeOK, HostsFit, FlagFits, ~gone, [Lc!Next]_(Lc!vars) PROVE FlagFits'
    <2> SUFFICES ASSUME [Lc!Next]_(Lc!vars), gone PROVE gone'
      BY DEF FlagFits
    <2>1. CASE Lc!Next
      BY <2>1 DEF Lc!Next, Lc!Start, Lc!PartUp, Lc!Started, Lc!PartFails, Lc!PartDown, Lc!Stopped,
         Lc!UserStops, Lc!Edit, Lc!UserSaves, Lc!IdleEnds, Lc!LoopEnds, Lc!Signal, Lc!MainReturns,
         Lc!UserQuits, Lc!Rewrite, Lc!BridgeReads, Lc!BridgeNames, Lc!BridgeForgets, Lc!Post, Lc!GivesUp, Lc!Answer, Lc!Act, Lc!Pump
    <2> QED
      BY <2>1 DEF Lc!vars
  <1>0. /\ HostFits /\ lc_made \in 0..MaxStarts /\ parts \in [Lc!Hosts -> SUBSET Lc!Parts] /\ MaxStarts \in Nat
        /\ ui \in BOOLEAN /\ lc_dirty \in BOOLEAN /\ flag \in BOOLEAN /\ missed \in BOOLEAN
    BY SessionAssumption DEF HostsFit, Lc!TypeOK
  <1>f. /\ ~ui /\ (lc_made = 0 \/ main.do = "start") => ~lc_dirty
        /\ main.do = "start" /\ "events" \in parts[main.host] /\ lc_dirty => flag \/ missed
        /\ cur # 0 /\ lc_dirty => flag \/ missed
    BY DEF FlagFits
  <1>c. cur # 0 => lc_made # 0 /\ main = Lc!Idle
    BY <1>0 DEF HostFits
  \* The host is as it was, and the scene too, or clean.
  <1>1. CASE /\ UNCHANGED <<ui, lc_made, main, parts, cur>>
             /\ ~lc_dirty' \/ UNCHANGED <<lc_dirty, flag, missed>>
    BY <1>1, <1>f DEF FlagFits
  <1>2. CASE gone'
    BY <1>2 DEF FlagFits
  <1>3. CASE Lc!ModuleStop /\ main = Lc!Idle /\ UNCHANGED <<ui, lc_made, parts, lc_dirty, flag, missed>>
    <2>1. cur' = 0 /\ main'.do # "start"
      BY <1>3 DEF Lc!ModuleStop, Lc!StopsFor, Lc!Idle
    <2> QED
      BY <1>3, <2>1, <1>f DEF FlagFits
  <1>4. CASE Lc!Start
    <2>1. /\ UNCHANGED <<ui, cur, parts, lc_dirty, flag, missed>> /\ cur = 0 /\ main = Lc!Idle
          /\ (~ui => lc_made = 0) /\ main'.host = lc_made + 1 /\ lc_made < MaxStarts
      BY <1>4 DEF Lc!Start, Lc!Scene
    <2>2. lc_made + 1 \in Lc!Hosts /\ parts[lc_made + 1] = {}
      BY <2>1, <1>0 DEF HostFits, Lc!Hosts, Lc!Idle
    <2> QED
      BY <2>1, <2>2, <1>f DEF FlagFits
  <1>5. CASE Lc!PartUp
    <2> DEFINE h == main.host
               p == Head(main.next)
    <2>1. /\ main.do = "start" /\ main' = [main EXCEPT !.next = Tail(@)] /\ main.next # <<>>
          /\ UNCHANGED <<ui, cur, lc_made, lc_dirty>>
          /\ IF p = "entry" THEN UNCHANGED parts ELSE parts' = [parts EXCEPT ![h] = @ \union {p}]
          /\ \/ p = "server" /\ flag' = FALSE /\ UNCHANGED missed
             \/ /\ p = "events" /\ ui
                /\ \E shown \in BOOLEAN : /\ flag' = (flag \/ (lc_dirty /\ shown))
                                         /\ missed' = (missed \/ (lc_dirty /\ ~shown))
             \/ p # "server" /\ ~(p = "events" /\ ui) /\ UNCHANGED <<flag, missed>>
      BY <1>5 DEF Lc!PartUp, Lc!Tracked
    <2>2. cur = 0 /\ h \in 1..lc_made /\ Starting(h)
      BY <2>1, <1>0 DEF HostFits, Lc!Idle
    <2>3. main'.do = "start" /\ main'.host = h /\ h \in Lc!Hosts
      BY <2>1, <2>2, <1>0 DEF Lc!TypeOK, Lc!Hosts
    <2>4. p = "server" => parts[h] = {"executor"}
      BY <2>1, <2>2, Heads DEF Starting
    <2> HIDE DEF h, p
    <2>5. p # "events" /\ "events" \in parts'[h] => "events" \in parts[h]
      BY <2>1, <2>3, <1>0
    <2>6. CASE p = "server"
      BY <2>1, <2>2, <2>3, <2>4, <2>5, <2>6, <1>f DEF FlagFits, h
    <2>7. CASE p = "events"
      <3>1. ~ui => ~lc_dirty
        BY <2>1, <1>f
      <3>2. lc_dirty => flag' \/ missed'
        BY <2>1, <2>7, <3>1
      <3> QED
        BY <2>1, <2>2, <2>3, <3>1, <3>2 DEF FlagFits
    <2>8. CASE p \notin {"server", "events"}
      BY <2>1, <2>2, <2>3, <2>5, <2>8, <1>f DEF FlagFits, h
    <2> QED
      BY <2>6, <2>7, <2>8
  <1>6. CASE Lc!Started
    <2>1. /\ main.do = "start" /\ main.next = <<>> /\ cur' = main.host /\ main' = Lc!Idle
          /\ UNCHANGED <<ui, lc_made, parts, lc_dirty, flag, missed>>
      BY <1>6 DEF Lc!Started, Lc!Scene
    <2>2. Starting(main.host) /\ main.host \in 1..lc_made
      BY <2>1, <1>0 DEF HostFits, Lc!Idle
    <2>3. "events" \in parts[main.host] /\ lc_made # 0
      BY <2>1, <2>2 DEF Starting, Lc!Parts
    <2> QED
      BY <2>1, <2>3, <1>f DEF FlagFits, Lc!Idle
  <1>7. CASE Lc!PartFails \/ Lc!PartDown \/ Lc!Stopped
    <2>1. cur' = cur /\ cur = 0 /\ UNCHANGED <<ui, lc_made, lc_dirty>>
      BY <1>7, <1>c DEF Lc!PartFails, Lc!PartDown, Lc!Stopped, Lc!Scene, Lc!Idle
    <2>2. main'.do # "start" /\ lc_made # 0
      <3>1. main.do \in {"start", "stop"}
        BY <1>7 DEF Lc!PartFails, Lc!PartDown, Lc!Stopped
      <3>2. lc_made # 0
        BY <3>1, <1>0 DEF HostFits, Lc!Idle
      <3>3. main'.do \in {"idle", "stop"}
        BY <1>7 DEF Lc!PartFails, Lc!PartDown, Lc!Stopped, Lc!Failed, Lc!StopsFor, Lc!Idle, Lc!TypeOK
      <3> QED
        BY <3>2, <3>3
    <2> QED
      BY <2>1, <2>2 DEF FlagFits
  <1>8. CASE Lc!Edit
    <2>1. /\ main = Lc!Idle /\ (ui \/ cur # 0) /\ UNCHANGED <<ui, lc_made, main, cur, parts>>
          /\ \E marked \in BOOLEAN : flag' = (flag \/ marked) /\ missed' = (missed \/ ~marked)
      BY <1>8 DEF Lc!Edit
    <2>2. (flag' \/ missed') /\ main'.do # "start" /\ (ui \/ lc_made # 0)
      BY <2>1, <1>c DEF Lc!Idle
    <2> QED
      BY <2>1, <2>2 DEF FlagFits
  <1>9. CASE Lc!UserStops \/ Lc!LoopEnds
    BY <1>9, <1>3 DEF Lc!UserStops, Lc!LoopEnds, Lc!Scene
  <1>10. CASE Lc!UserSaves
    BY <1>10, <1>1 DEF Lc!UserSaves
  <1>11. CASE Lc!MainReturns \/ Lc!UserQuits
    BY <1>11, <1>2 DEF Lc!MainReturns, Lc!UserQuits
  <1>12. CASE Lc!IdleEnds \/ Lc!Signal \/ UNCHANGED Lc!vars
    BY <1>12, <1>1 DEF Lc!IdleEnds, Lc!Signal, Lc!vars, Lc!Scene
  <1>13. CASE Lc!Rewrite \/ Lc!BridgeReads \/ Lc!BridgeNames \/ Lc!BridgeForgets
    BY <1>13, <1>1 DEF Lc!Rewrite, Lc!BridgeReads, Lc!BridgeNames, Lc!BridgeForgets, Lc!Scene
  <1>14. ASSUME NEW r \in Requests, Lc!Post(r) \/ Lc!GivesUp(r) \/ Lc!Answer(r) \/ Lc!Act(r) PROVE FlagFits'
    BY <1>14, <1>1 DEF Lc!Post, Lc!GivesUp, Lc!Answer, Lc!Act, Lc!Scene
  <1>15. ASSUME NEW h \in Lc!Hosts, Lc!Pump(h) PROVE FlagFits'
    <2>1. main = Lc!Idle /\ UNCHANGED <<ui, lc_made, parts>>
      BY <1>15 DEF Lc!Pump
    <2>2. ASSUME NEW r, Lc!Check(r) PROVE FlagFits'
      BY <2>1, <2>2, <1>1 DEF Lc!Check
    <2>3. CASE Lc!ModuleStop /\ UNCHANGED Lc!Scene
      BY <2>1, <2>3, <1>3 DEF Lc!Scene
    <2>4. CASE UNCHANGED <<main, cur>> /\ UNCHANGED <<lc_dirty, flag, missed>>
      BY <2>1, <2>4, <1>1
    <2> QED
      BY <1>15, <2>2, <2>3, <2>4 DEF Lc!Pump, Lc!Scene
  <1> QED
    BY <1>4, <1>5, <1>6, <1>7, <1>8, <1>9, <1>10, <1>11, <1>12, <1>13, <1>14, <1>15 DEF Lc!Next

LEMMA QuitSteps ==
  Lc!TypeOK /\ HostsFit /\ Waits /\ FlagFits /\ QuitFits /\ [Lc!Next]_(Lc!vars) => QuitFits'
  <1> SUFFICES ASSUME Lc!TypeOK, HostsFit, Waits, FlagFits, QuitFits, [Lc!Next]_(Lc!vars) PROVE QuitFits'
    OBVIOUS
  <1> DEFINE Told == {"answered", "acting", "acted"}
  <1>0. /\ lc_pc \in [Requests -> {"idle", "waiting", "answered", "acting", "acted", "done"}]
        /\ lc_kind \in [Requests -> Lc!Kinds] /\ lc_dirty \in BOOLEAN /\ late \in [Requests -> BOOLEAN]
        /\ missed \in BOOLEAN /\ flag \in BOOLEAN
    BY DEF Lc!TypeOK
  <1>1. ~Lc!Loses
    BY DEF QuitFits, Lc!Loses, Lc!Acted
  \* Nobody learns more, and the scene got no dirtier.
  <1>2. ASSUME ~lost', lc_dirty' => lc_dirty /\ (missed => missed'), UNCHANGED <<lc_kind, late>>,
               \A r \in Requests : lc_pc'[r] \in Told => lc_pc[r] \in Told
        PROVE  QuitFits'
    BY <1>2 DEF QuitFits
  <1>3. CASE UNCHANGED <<lc_pc, lc_kind, late>> /\ (lc_dirty' => lc_dirty /\ (missed => missed')) /\ ~lost'
    BY <1>2, <1>3
  <1>4. ~lost
    BY DEF QuitFits
  <1>5. CASE Lc!Edit
    BY <1>0, <1>4, <1>5 DEF Lc!Edit, QuitFits, Lc!Requesting
  <1>6. CASE Lc!Signal
    BY <1>0, <1>4, <1>6 DEF Lc!Signal, QuitFits, Lc!Requesting
  <1>7. CASE Lc!PartDown
    <2>1. ~lost' /\ UNCHANGED <<lc_kind, late, lc_dirty, missed>>
      BY <1>7, <1>4 DEF Lc!PartDown, Lc!Scene
    <2>2. lc_pc' = lc_pc \/ \E h : lc_pc' = Lc!Drained(h)
      BY <1>7 DEF Lc!PartDown
    <2>3. \A r \in Requests : lc_pc'[r] \in Told => lc_pc[r] \in Told
      BY <2>2 DEF Lc!Drained
    <2> QED
      BY <2>1, <2>3, <1>2
  <1>8. ASSUME NEW h \in Lc!Hosts, Lc!Pump(h) PROVE QuitFits'
    <2>1. UNCHANGED lc_kind
      BY <1>8 DEF Lc!Pump
    <2>2. CASE UNCHANGED <<lc_pc, lc_dirty, missed, late>> /\ lost' \in {lost, Lc!Loses}
      BY <2>1, <2>2, <1>1, <1>4, <1>3
    <2>3. ASSUME NEW r, lc_pc[r] = "waiting", Lc!Check(r) PROVE QuitFits'
      <3>1. PICK saveable \in BOOLEAN :
              /\ lc_pc' = [lc_pc EXCEPT ![r] = IF Lc!Refuses(r, saveable) THEN "done" ELSE "answered"]
              /\ IF flag /\ lc_kind[r] = "save" /\ saveable THEN ~lc_dirty'
                 ELSE UNCHANGED <<lc_dirty, missed>>
        BY <2>3 DEF Lc!Check
      <3>2. UNCHANGED <<late, lost>>
        BY <2>3 DEF Lc!Check
      <3>3. lc_dirty' => lc_dirty /\ missed' = missed
        BY <3>1
      <3>4. \A s \in Requests \ {r} : lc_pc'[s] = lc_pc[s]
        BY <3>1, <1>0
      <3>5. ASSUME r \in Requests, lc_pc'[r] \in Told, lc_kind[r] \in {"fail", "save"}, lc_dirty' PROVE missed'
        <4>1. ~gone /\ main = Lc!Idle
          BY <1>8 DEF Lc!Pump
        <4>2. HostFits /\ lc_to[r] \in Lc!Hosts /\ "executor" \in parts[lc_to[r]]
          BY <4>1, <3>5, <2>3 DEF HostsFit, Waits
        <4>3. cur # 0
          BY <4>1, <4>2 DEF HostFits, Lc!Idle
        <4>4. lc_dirty => flag \/ missed
          BY <4>1, <4>3 DEF FlagFits
        <4>5. ~Lc!Refuses(r, saveable)
          BY <3>1, <3>5, <1>0
        <4>6. ~flag \/ ~lc_dirty'
          BY <4>5, <3>1, <3>5 DEF Lc!Refuses
        <4> QED
          BY <4>4, <4>6, <3>3, <3>5
      <3> QED
        BY <3>2, <3>3, <3>4, <3>5, <2>1, <1>4 DEF QuitFits
    <2> QED
      BY <1>8, <2>2, <2>3 DEF Lc!Pump, Lc!Scene
  <1>9. ASSUME NEW r \in Requests, Lc!Post(r) PROVE QuitFits'
    <2>1. PICK k \in Lc!Kinds :
            /\ lc_kind' = [lc_kind EXCEPT ![r] = k]
            /\ \/ k = "shutdown" /\ lc_pc' = [lc_pc EXCEPT ![r] = "acting"]
               \/ lc_pc' = [lc_pc EXCEPT ![r] = "waiting"]
               \/ lc_pc' = [lc_pc EXCEPT ![r] = "done"]
      BY <1>9 DEF Lc!Post
    <2>2. UNCHANGED <<lc_dirty, missed, late, lost>>
      BY <1>9 DEF Lc!Post, Lc!Scene
    <2>3. \A s \in Requests \ {r} : lc_pc'[s] = lc_pc[s] /\ lc_kind'[s] = lc_kind[s]
      BY <2>1, <1>0
    <2>4. lc_pc'[r] \in Told => lc_kind'[r] = "shutdown"
      BY <2>1, <1>0
    <2> QED
      BY <2>2, <2>3, <2>4 DEF QuitFits
  <1>10. ASSUME NEW r \in Requests, Lc!GivesUp(r) \/ Lc!Answer(r) \/ Lc!Act(r) PROVE QuitFits'
    <2>1. UNCHANGED <<lc_kind, lc_dirty, missed, late, lost>>
      BY <1>10 DEF Lc!GivesUp, Lc!Answer, Lc!Act, Lc!Scene
    <2>2. \/ lc_pc' = [lc_pc EXCEPT ![r] = "done"]
          \/ lc_pc[r] \in Told /\ \E x \in Told : lc_pc' = [lc_pc EXCEPT ![r] = x]
      BY <1>10 DEF Lc!GivesUp, Lc!Answer, Lc!Act
    <2>3. \A s \in Requests : lc_pc'[s] \in Told => lc_pc[s] \in Told
      BY <2>2, <1>0
    <2> QED
      BY <2>1, <2>3, <1>2, <1>4
  <1>11. CASE Lc!Start \/ Lc!Started \/ Lc!PartFails \/ Lc!Stopped \/ Lc!UserStops \/ Lc!LoopEnds
    BY <1>3, <1>4, <1>11 DEF Lc!Start, Lc!Started, Lc!PartFails, Lc!Stopped, Lc!UserStops, Lc!LoopEnds,
       Lc!Requesting, Lc!Scene
  <1>12. CASE Lc!UserSaves \/ Lc!IdleEnds \/ Lc!MainReturns \/ Lc!UserQuits \/ UNCHANGED Lc!vars
    BY <1>1, <1>3, <1>4, <1>12 DEF Lc!UserSaves, Lc!IdleEnds, Lc!MainReturns, Lc!UserQuits, Lc!vars, Lc!Requesting, Lc!Scene
  <1>13. CASE Lc!PartUp
    <2>1. UNCHANGED <<lc_pc, lc_kind, late, lc_dirty, lost>> /\ (missed => missed')
      <3>1. UNCHANGED <<lc_pc, lc_kind, late, lc_dirty, lost>>
        BY <1>13 DEF Lc!PartUp, Lc!Requesting
      <3>2. missed' = missed \/ \E shown : missed' = (missed \/ (lc_dirty /\ ~shown))
        BY <1>13 DEF Lc!PartUp
      <3> QED
        BY <3>1, <3>2, <1>0
    <2> QED
      BY <2>1, <1>3, <1>4
  <1>14. CASE Lc!Rewrite \/ Lc!BridgeReads \/ Lc!BridgeNames \/ Lc!BridgeForgets
    BY <1>3, <1>4, <1>14 DEF Lc!Rewrite, Lc!BridgeReads, Lc!BridgeNames, Lc!BridgeForgets, Lc!Requesting, Lc!Scene
  <1> QED
    BY <1>5, <1>6, <1>7, <1>8, <1>9, <1>10, <1>11, <1>12, <1>13, <1>14 DEF Lc!Next

\* The host, and what a quit was told, fit.
LifecycleInv == Lc!TypeOK /\ HostsFit /\ Waits /\ FlagFits /\ QuitFits

LEMMA HostIsOne == Lc!TypeOK /\ HostsFit => Lc!HostIsWhole
  <1> SUFFICES ASSUME Lc!TypeOK, HostsFit PROVE Lc!HostIsWhole
    OBVIOUS
  <1>1. CASE gone
    BY <1>1 DEF Lc!HostIsWhole, Lc!EntryIsServed
  <1>2. CASE ~gone
    <2>1. HostFits
      BY <1>2 DEF HostsFit
    <2>2. Lc!StoppedIsClean /\ Lc!RunningIsWhole
      <3>1. CASE main = Lc!Idle /\ cur = 0
        <4>1. On(0) /\ \A g \in Lc!Hosts : parts[g] = {} /\ g # 0
          BY <2>1, <3>1 DEF HostFits, Lc!Idle, Lc!Hosts
        <4> QED
          BY <3>1, <4>1 DEF On, Lc!StoppedIsClean, Lc!RunningIsWhole
      <3>2. CASE main = Lc!Idle /\ cur # 0
        <4>1. On(cur) /\ parts[cur] = Lc!Parts /\ Only(cur)
          BY <2>1, <3>2 DEF HostFits, Lc!Idle
        <4> QED
          BY <3>2, <4>1 DEF On, Only, Lc!StoppedIsClean, Lc!RunningIsWhole
      <3>3. CASE main # Lc!Idle
        BY <3>3 DEF Lc!StoppedIsClean, Lc!RunningIsWhole
      <3> QED
        BY <3>1, <3>2, <3>3
    <2>3. Lc!EntryIsServed
      <3>1. entry = 0 \/ foreign \/ {"server", "executor"} \subseteq parts[entry]
        <4>1. CASE main = Lc!Idle
          BY <4>1, <2>1 DEF HostFits, On, Lc!Idle, Lc!Parts
        <4>2. CASE main.do = "start" /\ Starting(main.host)
          BY <4>2 DEF Starting, On, Lc!Parts
        <4>3. CASE main.do = "stop" /\ Stopping(main.host)
          BY <4>3 DEF Stopping, On, Lc!Parts
        <4> QED
          BY <2>1, <4>1, <4>2, <4>3 DEF HostFits
      <3> QED
        BY <3>1 DEF Lc!EntryIsServed
    <2> QED
      BY <2>2, <2>3 DEF Lc!HostIsWhole
  <1> QED
    BY <1>1, <1>2

-----------------------------------------------------------------------------

\* The dialogs of a Houdini while calls run (Dialogs).

NamesOf == Dl!ToSet(Dl!Names)

\* What is on hou.ui is its own between works, and in one the stubs with what they stand for.
StubsFit ==
  /\ running = None => depth = 0 /\ ~installed /\ ~nested /\ attr = theirs
  /\ running # None =>
       /\ depth = 1
       /\ \A n \in NamesOf : theirs[n] = IF installed /\ n \in DOMAIN saved THEN saved[n] ELSE attr[n]
       /\ hard = {} => installed /\ \A n \in NamesOf : attr[n] \in {"stub", "none"}

\* What a call that has its answer was told.
IsTold(c) ==
  /\ reached[c] # {} => result[c] \in {"refused", "warned"}
  /\ result[c] \in {"refused", "warned"} => refused[c] # {}
  /\ result[c] = "warned" => dl_loaded[c] \/ c \in steps
  /\ result[c] = "ok" => ~raised[c]

CallFits(c) ==
  /\ dl_pc[c] = "work" <=> running = c
  /\ dl_pc[c] = "open" => c \in steps
  /\ reached[c] \subseteq refused[c]
  /\ dl_pc[c] = "work" /\ c \notin steps => generation = began[c] \/ dl_loaded[c]
  /\ dl_pc[c] = "done" => IsTold(c)

DialogsInv == Dl!TypeOK /\ StubsFit /\ \A c \in Calls : CallFits(c)

LEMMA DialogsBegin == Dl!Init => DialogsInv
  <1> SUFFICES ASSUME Dl!Init PROVE DialogsInv
    OBVIOUS
  <1>1. Dl!TypeOK
    <2>1. /\ generation \in 0 .. MaxLoads /\ depth \in 0 .. 1 /\ began \in [Calls -> 0 .. MaxLoads]
          /\ DOMAIN saved = {} /\ attr \in [NamesOf -> {"own", "none"}]
      BY SessionAssumption DEF Dl!Init, NamesOf
    <2>2. hard \subseteq NamesOf
      BY DEF Dl!Init, NamesOf
    <2> QED
      BY <2>1, <2>2 DEF Dl!Init, Dl!TypeOK, NamesOf
  <1> QED
    BY <1>1, SessionAssumption DEF Dl!Init, DialogsInv, StubsFit, CallFits, NamesOf

\* The stubs that go in, if they can.
LEMMA InstallIs ==
  ASSUME DialogsInv, ~installed, Dl!Install
  PROVE  /\ attr' \in [NamesOf -> {"own", "user", "stub", "none"}] /\ installed' \in BOOLEAN
         /\ DOMAIN saved' \subseteq NamesOf
         /\ \A n \in NamesOf : attr[n] = IF installed' /\ n \in DOMAIN saved' THEN saved'[n] ELSE attr'[n]
         /\ hard = {} => installed' /\ \A n \in NamesOf : attr'[n] \in {"stub", "none"}
  <1>1. Dl!Replaceable \subseteq NamesOf
    BY DEF Dl!Replaceable, NamesOf, Dl!ToSet
  <1>2. hard = {} => \A n \in NamesOf : n \in Dl!Replaceable \/ attr[n] \in {"none", "stub"}
    BY DEF Dl!Replaceable, NamesOf, Dl!ToSet
  <1>3. DOMAIN attr = NamesOf /\ attr \in [NamesOf -> {"own", "user", "stub", "none"}] /\ DOMAIN saved \subseteq NamesOf
    BY DEF DialogsInv, Dl!TypeOK, NamesOf
  <1>4. CASE Dl!Fails
    <2>1. attr' = attr /\ saved' = saved /\ installed' = FALSE /\ hard # {}
      BY <1>4 DEF Dl!Install, Dl!PutBack, Dl!Fails, DialogsInv, Dl!TypeOK
    <2> QED
      BY <1>3, <2>1
  <1>5. CASE ~Dl!Fails
    <2>1. /\ attr' = [n \in NamesOf |-> IF n \in Dl!Replaceable THEN "stub" ELSE attr[n]]
          /\ saved' = [n \in Dl!Replaceable |-> attr[n]] /\ installed' = TRUE
      BY <1>3, <1>5 DEF Dl!Install
    <2> QED
      BY <1>1, <1>2, <1>3, <2>1
  <1> QED
    BY <1>4, <1>5

\* The stubs that go.
LEMMA LeaveIs ==
  ASSUME DialogsInv, running # None, Dl!Leave
  PROVE  attr' = theirs /\ depth' = 0 /\ installed' = FALSE /\ (DOMAIN saved' \subseteq NamesOf)
  <1>1. /\ theirs \in [NamesOf -> {"own", "user", "none"}] /\ attr \in [NamesOf -> {"own", "user", "stub", "none"}]
        /\ DOMAIN saved \subseteq NamesOf /\ depth = 1 /\ depth' = 0
        /\ \A n \in NamesOf : theirs[n] = IF installed /\ n \in DOMAIN saved THEN saved[n] ELSE attr[n]
    BY DEF Dl!Leave, DialogsInv, Dl!TypeOK, StubsFit, NamesOf
  <1>2. CASE installed
    <2>1. /\ attr' = [n \in NamesOf |-> IF n \in DOMAIN saved THEN saved[n] ELSE attr[n]]
          /\ saved' = <<>> /\ installed' = FALSE
      BY <1>1, <1>2 DEF Dl!Leave
    <2>2. DOMAIN saved' = {}
      BY <2>1
    <2> QED
      BY <1>1, <1>2, <2>1, <2>2
  <1>3. CASE ~installed
    BY <1>1, <1>3 DEF Dl!Leave, DialogsInv, Dl!TypeOK
  <1> QED
    BY <1>2, <1>3

LEMMA DialogsStep == DialogsInv /\ [Dl!Next]_(Dl!vars) => DialogsInv'
  <1> SUFFICES ASSUME DialogsInv, [Dl!Next]_(Dl!vars) PROVE DialogsInv'
    OBVIOUS
  <1> USE SessionAssumption
  <1>1. ASSUME NEW c \in Calls, Dl!Open(c) PROVE DialogsInv'
    <2>1. Dl!TypeOK' /\ StubsFit'
      BY <1>1 DEF Dl!Open, Dl!host, DialogsInv, Dl!TypeOK, StubsFit
    <2>2. ASSUME NEW k \in Calls PROVE CallFits(k)'
      BY <1>1 DEF Dl!Open, Dl!host, DialogsInv, Dl!TypeOK, CallFits, IsTold
    <2> QED
      BY <2>1, <2>2 DEF DialogsInv
  <1>2. ASSUME NEW c \in Calls, Dl!Begin(c) PROVE DialogsInv'
    <2>1. /\ running = None /\ running' = c /\ depth = 0 /\ depth' = 1 /\ ~installed /\ Dl!Install
          /\ dl_pc[c] = IF c \in steps THEN "open" ELSE "idle"
          /\ dl_pc' = [dl_pc EXCEPT ![c] = "work"]
          /\ began' = IF c \in steps THEN began ELSE [began EXCEPT ![c] = generation]
          /\ UNCHANGED <<hard, nested, steps, refused, raised, generation, result, theirs, reached, dl_loaded>>
      BY <1>2 DEF Dl!Begin, Dl!Enter, DialogsInv, StubsFit
    <2>2. /\ attr' \in [NamesOf -> {"own", "user", "stub", "none"}] /\ installed' \in BOOLEAN
          /\ DOMAIN saved' \subseteq NamesOf
          /\ \A n \in NamesOf : attr[n] = IF installed' /\ n \in DOMAIN saved' THEN saved'[n] ELSE attr'[n]
          /\ hard = {} => installed' /\ \A n \in NamesOf : attr'[n] \in {"stub", "none"}
      BY <2>1, InstallIs
    <2>3. Dl!TypeOK'
      BY <2>1, <2>2 DEF DialogsInv, Dl!TypeOK, NamesOf
    <2>4. StubsFit'
      BY <2>1, <2>2 DEF DialogsInv, StubsFit, NamesOf
    <2>5. ASSUME NEW k \in Calls PROVE CallFits(k)'
      BY <2>1 DEF DialogsInv, Dl!TypeOK, CallFits, IsTold
    <2> QED
      BY <2>3, <2>4, <2>5 DEF DialogsInv
  <1>3. ASSUME NEW c \in Calls, Dl!Answer(c) PROVE DialogsInv'
    <2>1. Dl!TypeOK' /\ StubsFit'
      BY <1>3 DEF Dl!Answer, Dl!Told, Dl!host, DialogsInv, Dl!TypeOK, StubsFit
    <2>2. ASSUME NEW k \in Calls PROVE CallFits(k)'
      BY <1>3 DEF Dl!Answer, Dl!Told, Dl!host, DialogsInv, Dl!TypeOK, CallFits, IsTold
    <2> QED
      BY <2>1, <2>2 DEF DialogsInv
  <1>4. ASSUME NEW n \in NamesOf, Dl!Dialog(n) PROVE DialogsInv'
    <2>1. /\ running \in Calls /\ refused' = [refused EXCEPT ![running] = @ \cup {n}]
          /\ reached' = IF nested THEN reached ELSE [reached EXCEPT ![running] = @ \cup {n}]
          /\ raised' = raised \/ raised' = [raised EXCEPT ![running] = TRUE]
          /\ UNCHANGED <<attr, saved, installed, depth, hard, running, nested, steps, dl_pc, began, generation,
                         result, theirs, dl_loaded>>
      BY <1>4 DEF Dl!Dialog, Dl!host, DialogsInv, Dl!TypeOK
    <2>2. Dl!TypeOK' /\ StubsFit'
      BY <2>1 DEF DialogsInv, Dl!TypeOK, StubsFit, NamesOf
    <2>3. ASSUME NEW k \in Calls PROVE CallFits(k)'
      BY <2>1 DEF DialogsInv, Dl!TypeOK, CallFits, IsTold
    <2> QED
      BY <2>2, <2>3 DEF DialogsInv
  <1>5. ASSUME NEW n \in NamesOf, Dl!Patch(n) PROVE DialogsInv'
    <2>1. Dl!TypeOK' /\ StubsFit'
      BY <1>5 DEF Dl!Patch, DialogsInv, Dl!TypeOK, StubsFit, NamesOf
    <2>2. ASSUME NEW k \in Calls PROVE CallFits(k)'
      BY <1>5 DEF Dl!Patch, DialogsInv, CallFits, IsTold
    <2> QED
      BY <2>1, <2>2 DEF DialogsInv
  <1>6. CASE Dl!Fail
    <2>1. Dl!TypeOK' /\ StubsFit'
      BY <1>6 DEF Dl!Fail, Dl!host, DialogsInv, Dl!TypeOK, StubsFit
    <2>2. ASSUME NEW k \in Calls PROVE CallFits(k)'
      BY <1>6 DEF Dl!Fail, Dl!host, DialogsInv, Dl!TypeOK, CallFits, IsTold
    <2> QED
      BY <2>1, <2>2 DEF DialogsInv
  <1>7. CASE Dl!Load
    <2>1. Dl!TypeOK' /\ StubsFit'
      BY <1>7 DEF Dl!Load, Dl!host, DialogsInv, Dl!TypeOK, StubsFit
    <2>2. ASSUME NEW k \in Calls PROVE CallFits(k)'
      BY <1>7 DEF Dl!Load, Dl!host, DialogsInv, Dl!TypeOK, CallFits, IsTold
    <2> QED
      BY <2>1, <2>2 DEF DialogsInv
  <1>8. CASE Dl!Nest
    BY <1>8 DEF Dl!Nest, Dl!host, DialogsInv, Dl!TypeOK, StubsFit, CallFits, IsTold
  <1>9. CASE Dl!End
    <2>1. /\ running \in Calls /\ running' = None /\ ~nested /\ Dl!Leave
          /\ running \in steps =>
               dl_pc' = [dl_pc EXCEPT ![running] = "open"] /\ UNCHANGED result
          /\ running \notin steps =>
               /\ dl_pc' = [dl_pc EXCEPT ![running] = "done"]
               /\ result' = [result EXCEPT ![running] = Dl!Told(running)]
          /\ UNCHANGED <<hard, nested, steps, refused, began, raised, generation, theirs, reached, dl_loaded>>
      BY <1>9 DEF Dl!End, DialogsInv, Dl!TypeOK
    <2>2. attr' = theirs /\ depth' = 0 /\ installed' = FALSE /\ (DOMAIN saved' \subseteq NamesOf)
      BY <2>1, LeaveIs
    <2>3. Dl!Told(running) \in {"ok", "warned", "failed", "refused"}
      BY DEF Dl!Told
    <2>4. Dl!TypeOK'
      <3>1. dl_pc' \in [Calls -> {"idle", "open", "work", "done"}]
        BY <2>1 DEF DialogsInv, Dl!TypeOK
      <3>2. result' \in [Calls -> {None, "ok", "warned", "failed", "refused"}]
        BY <2>1, <2>3 DEF DialogsInv, Dl!TypeOK
      <3>3. attr' \in [NamesOf -> {"own", "user", "stub", "none"}]
        BY <2>2 DEF DialogsInv, Dl!TypeOK, NamesOf
      <3>4. hard' \subseteq NamesOf /\ nested' \in BOOLEAN
        BY <2>1 DEF DialogsInv, Dl!TypeOK, NamesOf
      <3>5. installed' \in BOOLEAN /\ DOMAIN saved' \subseteq NamesOf
        BY <2>2
      <3>6. depth' \in 0 .. 1
        BY <2>2
      <3>7. running' \in Calls \cup {None}
        BY <2>1
      <3> QED
        BY <2>1, <3>1, <3>2, <3>3, <3>4, <3>5, <3>6, <3>7 DEF DialogsInv, Dl!TypeOK, NamesOf
    <2>5. StubsFit'
      BY <2>1, <2>2 DEF DialogsInv, Dl!TypeOK, StubsFit
    <2>6. ASSUME NEW k \in Calls PROVE CallFits(k)'
      BY <2>1 DEF Dl!Told, DialogsInv, Dl!TypeOK, CallFits, IsTold
    <2> QED
      BY <2>4, <2>5, <2>6 DEF DialogsInv
  <1>10. CASE UNCHANGED Dl!vars
    BY <1>10 DEF Dl!vars, Dl!host, DialogsInv, Dl!TypeOK, StubsFit, CallFits, IsTold
  <1> QED
    BY <1>1, <1>2, <1>3, <1>4, <1>5, <1>6, <1>7, <1>8, <1>9, <1>10 DEF Dl!Next, NamesOf

-----------------------------------------------------------------------------

\* The package JSON of a pref dir that is not torn names a whole copy.
LEMMA WholeIsWhole == InstallsInv => In!PackageIsWhole
  BY DEF InstallsInv, Whole, In!PackageIsWhole, In!Status, In!TypeOK

SessionInv == InstallsInv /\ StartupInv /\ LifecycleInv /\ DialogsInv

LEMMA SessionKept == SessionSpec => []SessionInv
  <1>1. In!Spec => []InstallsInv
    BY InstallsBegin, InstallsStep, PTL DEF In!Spec
  <1>2. St!Spec => []StartupInv
    BY StartupBegins, StartupStep, PTL DEF St!Spec
  <1>3. Lc!Spec => []LifecycleInv
    <2>1. Lc!Init => LifecycleInv
      BY HostBegins DEF LifecycleInv
    <2>2. LifecycleInv /\ [Lc!Next]_(Lc!vars) => LifecycleInv'
      BY LifecycleTyped, HostSteps, WaitSteps, FlagSteps, QuitSteps DEF LifecycleInv
    <2> QED BY <2>1, <2>2, PTL DEF Lc!Spec
  <1>4. Dl!Spec => []DialogsInv
    BY DialogsBegin, DialogsStep, PTL DEF Dl!Spec
  <1> QED BY <1>1, <1>2, <1>3, <1>4, PTL DEF SessionSpec, SessionInv

\* Every variable of the installs, the launch, the host's life and the dialogs keeps its type.
THEOREM SessionTyped == SessionSpec => [](In!TypeOK /\ St!TypeOK /\ Lc!TypeOK /\ Dl!TypeOK)
  <1>1. SessionInv => In!TypeOK /\ St!TypeOK /\ Lc!TypeOK /\ Dl!TypeOK
    BY DEF SessionInv, InstallsInv, StartupInv, LifecycleInv, DialogsInv
  <1> QED BY SessionKept, <1>1, PTL

\* For any pref dirs and versions, over installs and uninstalls that fail or are interrupted: a
\* package JSON names a whole copy and what is left of HocusPocus is found by the next uninstall
\* (cli.py); and what a launch says of its Houdini's start is so (bridge/startup.py).
THEOREM InstallsAreFound == SessionSpec => []InstallIsFound
  <1>1. SessionInv => InstallIsFound
    BY WholeIsWhole DEF SessionInv, InstallsInv, StartupInv, InstallIsFound
  <1> QED BY SessionKept, <1>1, PTL

\* For any number of hosts, requests and calls: the registry entry names a host that serves, a
\* stopped host leaves nothing, a quit loses only what it may, and each call leaves the user's
\* dialogs as they were and tells of those that it kept from opening (host/runtime.py,
\* host/__init__.py, host/modal.py).
THEOREM HoudiniStaysTheUsers == SessionSpec => []HoudiniIsTheUsers
  <1>1. LifecycleInv => Lc!HostIsWhole /\ Lc!QuitLosesNothing
    BY HostIsOne DEF LifecycleInv, QuitFits, Lc!QuitLosesNothing
  <1>2. DialogsInv => Dl!NoDialogIsLost
    BY DEF DialogsInv, StubsFit, CallFits, IsTold, Dl!NoDialogIsLost, Dl!DialogsAreTheirs,
       Dl!RefusalIsTold, NamesOf
  <1>3. SessionInv => HoudiniIsTheUsers
    BY <1>1, <1>2 DEF SessionInv, HoudiniIsTheUsers
  <1> QED BY SessionKept, <1>3, PTL

=============================================================================
