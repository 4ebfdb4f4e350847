-------------------------------- MODULE Events --------------------------------
(***************************************************************************)
(* The events ring of one Houdini (host/tools/events.py) and a reader that *)
(* follows it through the bridge with the cursor <pid>:<seq> (server.py).  *)
(* Hip and node callbacks run on the main thread and are recorded in the   *)
(* ring, or, inside a HocusPocus call, in a batch that is published or     *)
(* discarded when the call's work ends; the pdg tool records from its own  *)
(* thread.  A node has an event callback once it is watched: tools watch   *)
(* what they read or create, a node the user makes is watched by a posted  *)
(* call.                                                                   *)
(*                                                                         *)
(* A scene is the nodes directly under a context manager and, in each, one *)
(* child.  Times are abstracted: whether a change comes soon after the     *)
(* last one of its kind is an input.  Names, flags and rewired inputs are  *)
(* left out, so are the changes a tool makes with undo disabled and puts   *)
(* back, which are never recorded.                                         *)
(***************************************************************************)
EXTENDS Sequences, SequencesExt, FiniteSets, Naturals

CONSTANTS
  Tops,        \* the nodes under the context managers
  NoBatch,     \* no batch is open
  NoWork,      \* the main thread is in no HocusPocus call
  RingSize,    \* RING_SIZE
  Limit,       \* the events of a page, by limit or by budget
  WatchCap,    \* WATCH_CAP
  MayStop,     \* whether the host is stopped and started again
  Errors,      \* how a call fails, see Fail
  MaxChanges,  \* bound: changes of the scene, pdg events, and stops of the host
  MaxWorks     \* bound: calls

VARIABLES
  node,       \* the scene
  changes,    \* how many changes were made
  installed, busy, watched, queued,  \* _HOOKS: hip_busy, watched, pending
  stale,      \* nodes in _HOOKS.watched that died while no event was recorded
  created,    \* _HOOKS.created: the nodes whose ChildCreated the call recorded
  posted,     \* _flush_pending is queued for the main thread
  batch,      \* EventLog._pending
  log,        \* every event that was published, by its seq
  ring,       \* EventLog._buf: the seqs that are still there, oldest first as they are numbers
  recent,     \* EventLog._recent_parm: the last event of each node's parm
  work,       \* the call: whether it has an undo group, and the scene before
  works, pid,
  cursor,     \* the reader's next_since
  seen,       \* history: the seqs it was given, or told that they were dropped
  taken,      \* history: the seqs that drop_recent_parms took back
  undone,     \* history: the changes of calls that were rolled back
  lost,       \* history: nodes that a call changed, and those under them, whose events were
              \*   discarded though the change stayed
  deaf        \* history: nodes that changed while no event was recorded

hooks == <<installed, busy, watched, stale, queued, created, posted>>
events == <<batch, log, ring, recent>>
reader == <<cursor, seen>>
history == <<taken, undone, lost, deaf>>
bounds == <<works, pid>>
vars == <<node, changes, hooks, events, work, bounds, reader, history>>

Node == Tops \X {"top", "kid"}
Hip == <<"hip", "hip">>
Gone == <<"gone", "gone">>
Top(t) == <<t, "top">>
Kid(t) == <<t, "kid">>
Under(p, root) == p = root \/ (p[1] = root[1] /\ root[2] = "top")
Below(p) == {q \in Node : Under(q, p)}

HipKinds == {"BeforeLoad", "AfterLoad"}
Kinds == HipKinds \cup {"ChildCreated", "ChildDeleted", "BeingDeleted", "ParmTupleChanged",
                        "SpareParmsChanged", "pdg"}
Origins == {"agent", "other", "houdini"}
Happenings == [kind : Kinds, path : Node \cup {Hip}, origin : Origins, n : 0 .. MaxChanges]
Works == [group : BOOLEAN, before : SUBSET Node, loaded : BOOLEAN]

ASSUME EventsAssumption ==
  /\ IsFiniteSet(Tops)
  /\ {RingSize, Limit, WatchCap} \subseteq Nat \ {0} /\ {MaxChanges, MaxWorks} \subseteq Nat
  /\ Errors \subseteq {"silent", "asks", "kept", "crash"}
  /\ NoBatch \notin Seq(Happenings) /\ NoWork \notin Works

EventOf(n, kind, path, origin) == [kind |-> kind, path |-> path, origin |-> origin, n |-> n]
Event(kind, path, origin) == EventOf(changes + 1, kind, path, origin)

Holding == batch # NoBatch
Origin == IF Holding THEN "agent" ELSE "other"

Init ==
  /\ node = {} /\ changes = 0
  /\ installed = TRUE /\ busy = FALSE /\ watched = {} /\ stale = 0 /\ queued = {} /\ created = {}
  /\ posted = FALSE
  /\ batch = NoBatch /\ log = <<>> /\ ring = {} /\ recent = [p \in Node |-> 0]
  /\ work = NoWork /\ works = 0 /\ pid = 1
  /\ cursor = [pid |-> 1, seq |-> 0] /\ seen = {}
  /\ taken = {} /\ undone = {} /\ lost = {} /\ deaf = {}

-----------------------------------------------------------------------------
(* EventLog. *)

\* The first n and the last n of a set of numbers.
First(S, n) == {s \in S : Cardinality({r \in S : r <= s}) <= n}
Latest(S, n) == {s \in S : Cardinality({r \in S : r >= s}) <= n}

\* What es has at the places in I, in its order.
Nth(I, k) == CHOOSE i \in I : Cardinality({j \in I : j <= i}) = k
Pick(es, I) == [k \in 1 .. Cardinality(I) |-> es[Nth(I, k)]]

Publish(es) ==
  /\ log' = log \o es
  /\ ring' = Latest(ring \cup (Len(log) + 1 .. Len(log) + Len(es)), RingSize)

\* _repeat: a ChildCreated or ChildDeleted like the last event on its path, with no hip event
\* since.
Looked == IF Holding THEN batch ELSE log
Places == IF Holding THEN DOMAIN batch ELSE ring
\* Mutant: like any earlier event on its path.
RepeatsAny(e) ==
  /\ e.kind \in {"ChildCreated", "ChildDeleted"}
  /\ \E i \in Places : [Looked[i] EXCEPT !.n = e.n] = e

Repeats(e) ==
  /\ e.kind \in {"ChildCreated", "ChildDeleted"}
  /\ \E i \in Places :
       /\ [Looked[i] EXCEPT !.n = e.n] = e
       /\ \A j \in Places : j > i => Looked[j].path # e.path /\ Looked[j].kind \notin HipKinds

\* record: held in a call, else published.
Record(es, soon) ==
  LET kept == Pick(es, {i \in DOMAIN es : ~(soon /\ Repeats(es[i]))}) IN
  IF Holding THEN batch' = batch \o kept /\ UNCHANGED <<log, ring>>
             ELSE Publish(kept) /\ batch' = batch

\* _settle: a node created and deleted in the batch leaves nothing.  The first such pair goes,
\* with what lies between them on the node and below it, then the first of what is left, ...
Transient(es, I) ==
  LET pairs == {p \in I \X I : /\ p[1] < p[2] /\ es[p[1]].path = es[p[2]].path
                               /\ es[p[1]].kind = "ChildCreated" /\ es[p[2]].kind = "ChildDeleted"}
      first == CHOOSE p \in pairs : \A q \in pairs : p[1] < q[1] \/ (p[1] = q[1] /\ p[2] <= q[2])
  IN IF pairs = {} THEN {}
     ELSE {first[1], first[2]} \cup
          {i \in I : first[1] < i /\ i < first[2] /\ Under(es[i].path, es[first[1]].path)}
Dropped(es) ==
  LET gone[k \in 0 .. Len(es)] ==
        IF k = 0 THEN {}
        ELSE LET before == gone[k - 1] IN before \cup Transient(es, DOMAIN es \ before)
  IN gone[Len(es)]
Settled(es) == Pick(es, DOMAIN es \ Dropped(es))

-----------------------------------------------------------------------------
(* Changes of the scene, by the user or by the call under way.             *)

\* Houdini is free for its user while no call runs.
Changes == changes < MaxChanges /\ changes' = changes + 1
\* _quiet, or no hooks at all.
Quiet == busy \/ ~installed
Unheard(nodes) == deaf' = IF Quiet THEN deaf \cup nodes ELSE deaf
UnheardKid(t) == deaf' = IF Quiet \/ Top(t) \notin watched THEN deaf \cup {Kid(t)} ELSE deaf

\* A watched node that dies unheard keeps its place.
ForgetNodes(gone) ==
  /\ watched' = watched \ gone
  /\ stale' = IF Quiet THEN stale + Cardinality(watched \cap gone) ELSE stale
  /\ queued' = IF queued \cap gone = {} THEN queued ELSE (queued \ gone) \cup {Gone}

\* _watch_later: a flush is posted unless nodes wait for one already.
WatchLater(p) == posted' = (posted \/ queued = {}) /\ queued' = queued \cup {p}

\* A node is made under a context manager, perhaps with a child by its creation script.
\* _watch_later watches it when the work under way is over.
CreateTop(t, kid, soon) ==
  /\ Top(t) \notin node /\ Changes
  /\ node' = node \cup {Top(t)} \cup (IF kid THEN {Kid(t)} ELSE {})
  /\ Unheard({Top(t), Kid(t)})
  /\ IF Quiet THEN UNCHANGED <<queued, posted, created, events>>
     ELSE /\ Record(<<Event("ChildCreated", Top(t), Origin)>>, soon)
          /\ created' = IF Holding THEN created \cup {Top(t)} ELSE created
          /\ WatchLater(Top(t))
          /\ recent' = recent
  /\ UNCHANGED <<installed, busy, watched, stale, work, bounds, reader, taken, undone, lost>>

\* A child's events come from its parent, if that is watched.
Child(kind, t, soon, before) ==
  IF Quiet THEN UNCHANGED events
  ELSE /\ Record(before \o (IF Top(t) \in watched THEN <<Event(kind, Kid(t), Origin)>> ELSE <<>>), soon)
       /\ recent' = recent

CreateKid(t, soon) ==
  /\ Top(t) \in node /\ Kid(t) \notin node /\ Changes
  /\ node' = node \cup {Kid(t)} /\ UnheardKid(t)
  /\ Child("ChildCreated", t, soon, <<>>)
  /\ created' = IF ~Quiet /\ Holding /\ Top(t) \in watched THEN created \cup {Kid(t)} ELSE created
  /\ UNCHANGED <<installed, busy, watched, stale, queued, posted, work, bounds, reader, taken, undone,
                 lost>>

\* The watched ones among the nodes under t that die tell of it, children first.
Family(t) == <<Kid(t), Top(t)>>
BeingDeleted(t, nodes) ==
  Pick([i \in 1 .. 2 |-> Event("BeingDeleted", Family(t)[i], Origin)],
       {i \in 1 .. 2 : Family(t)[i] \in nodes \cap watched})

DeleteKid(t, soon) ==
  /\ Kid(t) \in node /\ Changes
  /\ node' = node \ {Kid(t)} /\ UnheardKid(t)
  /\ Child("ChildDeleted", t, soon, BeingDeleted(t, {Kid(t)}))
  /\ ForgetNodes({Kid(t)}) /\ created' = created \ {Kid(t)}
  /\ UNCHANGED <<installed, busy, posted, work, bounds, reader, taken, undone, lost>>

DeleteTop(t, soon) ==
  /\ Top(t) \in node /\ Changes
  /\ node' = node \ Below(Top(t)) /\ Unheard(Below(Top(t)))
  /\ IF Quiet THEN UNCHANGED events
     ELSE /\ Record(BeingDeleted(t, Below(Top(t))) \o <<Event("ChildDeleted", Top(t), Origin)>>, soon)
          /\ recent' = recent
  /\ ForgetNodes(Below(Top(t))) /\ created' = created \ Below(Top(t))
  /\ UNCHANGED <<installed, busy, posted, work, bounds, reader, taken, undone, lost>>

\* record_parm: a change soon after another folds into its event, while that is held or still
\* in the ring.  A write the call did not make itself is Houdini's.
Alive(n, origin) ==
  \/ Holding /\ \E i \in DOMAIN batch : batch[i].n = n /\ batch[i].origin = origin
  \/ \E r \in ring, s \in DOMAIN log : r <= s /\ log[s].n = n /\ log[s].origin = origin

SetParm(p, houdini, soon) ==
  /\ p \in node /\ p \in watched /\ ~Quiet /\ Changes
  /\ houdini => Holding
  /\ LET origin == IF houdini THEN "houdini" ELSE Origin IN
     IF soon /\ recent[p] # 0 /\ Alive(recent[p], origin) THEN UNCHANGED events
     ELSE /\ Record(<<Event("ParmTupleChanged", p, origin)>>, FALSE)
          /\ recent' = [recent EXCEPT ![p] = changes + 1]
  /\ UNCHANGED <<node, hooks, work, bounds, reader, history>>

\* SpareParmTemplatesChanged takes back the parm events just before it.
SetSpare(p, soon) ==
  /\ p \in node /\ p \in watched /\ ~Quiet /\ Changes
  /\ LET mine == IF soon THEN recent[p] ELSE 0
         left == {s \in ring : log[s].n # mine}
         spare == <<Event("SpareParmsChanged", p, Origin)>> IN
     /\ recent' = IF soon THEN [recent EXCEPT ![p] = 0] ELSE recent
     /\ IF Holding
          THEN /\ batch' = Pick(batch, {i \in DOMAIN batch : batch[i].n # mine}) \o spare
               /\ ring' = left /\ log' = log
          ELSE /\ log' = log \o spare /\ ring' = Latest(left \cup {Len(log) + 1}, RingSize)
               /\ batch' = batch
     /\ taken' = taken \cup (ring \ left)
  /\ UNCHANGED <<node, hooks, work, bounds, reader, undone, lost, deaf>>

\* A hip is loaded, or cannot be: then AfterLoad never comes, the scene is as it was or
\* cleared, and hip_open ends the quiet itself, which neither a script nor the user does.
Load(scene, fails, tool) ==
  /\ installed /\ Changes /\ (tool => Holding) /\ (fails => scene \in {node, {}})
  /\ LET es == <<Event("BeforeLoad", Hip, Origin)>> IN
     Record(IF fails THEN es ELSE Append(es, Event("AfterLoad", Hip, Origin)), FALSE)
  /\ busy' = (fails /\ ~tool)
  /\ node' = scene
  /\ watched' = IF fails /\ scene = node THEN watched ELSE {}
  /\ stale' = IF fails /\ scene = node THEN stale ELSE 0
  /\ queued' = IF queued = {} \/ (fails /\ scene = node) THEN queued ELSE {Gone}
  /\ work' = IF Holding /\ ~(fails /\ scene = node) THEN [work EXCEPT !.loaded = TRUE] ELSE work
  /\ UNCHANGED <<installed, created, posted, recent, bounds, reader, history>>

-----------------------------------------------------------------------------
(* Watching. *)

CanWatch(p) == installed /\ p \in node \ watched /\ Cardinality(watched) + stale < WatchCap

\* watch_node in a call: a child of a node the call made gets the ChildCreated that its
\* parent could not record, after its parent's.
Watch(p) ==
  /\ Holding /\ CanWatch(p)
  /\ LET missed == p \notin created /\ p[2] = "kid" /\ Top(p[1]) \in created /\ ~Quiet
         hits == {i \in DOMAIN batch : Under(batch[i].path, Top(p[1]))}
         at == IF hits = {} THEN Len(batch) ELSE CHOOSE i \in hits : \A j \in hits : j <= i IN
     /\ batch' = IF missed THEN InsertAt(batch, at + 1, EventOf(changes, "ChildCreated", p, "agent"))
                           ELSE batch
     /\ created' = IF missed THEN created \cup {p} ELSE created
     /\ deaf' = IF missed THEN deaf \ {p} ELSE deaf
  /\ watched' = watched \cup {p}
  /\ UNCHANGED <<node, changes, installed, busy, stale, queued, posted, log, ring, recent, work,
                 bounds, reader, taken, undone, lost>>

\* _flush_pending, when the main thread is free.
FlushPending ==
  /\ posted /\ work = NoWork
  /\ posted' = FALSE /\ queued' = {}
  /\ \E S \in SUBSET (queued \cap node) :
       /\ watched' = watched \cup S
       /\ IF S = queued \cap node THEN Cardinality(watched') + stale <= WatchCap
                                  ELSE Cardinality(watched') + stale = WatchCap
  /\ UNCHANGED <<node, changes, installed, busy, stale, created, events, work, bounds, reader,
                 history>>

-----------------------------------------------------------------------------
(* Calls: agent_work around the dispatcher's undo group. *)

BeginWork(group) ==
  /\ installed /\ work = NoWork /\ works < MaxWorks
  /\ works' = works + 1
  /\ work' = [group |-> group, before |-> node, loaded |-> FALSE]
  /\ batch' = <<>> /\ created' = {}
  /\ UNCHANGED <<node, changes, installed, busy, watched, stale, queued, posted, log, ring, recent,
                 pid, reader, history>>

EndWork(discard, es) ==
  /\ work' = NoWork /\ batch' = NoBatch /\ created' = {}
  /\ IF discard THEN UNCHANGED <<log, ring>> ELSE Publish(Settled(es))

Succeed ==
  /\ work # NoWork
  /\ EndWork(FALSE, batch)
  /\ UNCHANGED <<node, changes, installed, busy, watched, stale, queued, posted, recent, bounds,
                 reader, history>>

\* The undo group of a failed call takes the scene back, last change first, which the hooks
\* hear too: of the nodes under the managers, and of a child whose parent is still watched.
Undoing ==
  LET back(kind) == IF kind = "ChildCreated" THEN "ChildDeleted" ELSE "ChildCreated"
      heard == {i \in DOMAIN batch : /\ batch[i].path[2] = "top"
                                     /\ batch[i].kind \in {"ChildCreated", "ChildDeleted"}}
      tops == Pick(batch, heard)
      last(i) == tops[Len(tops) + 1 - i]
      kept(t) == Top(t) \in watched /\ ~ \E i \in heard : batch[i].path = Top(t)
      kids == SetToSeq({p \in Node : /\ p[2] = "kid" /\ kept(p[1])
                                   /\ (p \in node) # (p \in work.before)}) IN
  IF Quiet THEN <<>>
  ELSE [i \in DOMAIN tops |-> EventOf(changes, back(last(i).kind), last(i).path, "agent")]
       \o [i \in DOMAIN kids |->
            EventOf(changes, IF kids[i] \in node THEN "ChildDeleted" ELSE "ChildCreated", kids[i], "agent")]

\* _rolled_back: by its error, which may say rolled_back (asks: the dispatcher fills in what
\* its undo group did; kept: false) or not (silent), or be no ToolError (crash).
Told(error, back) ==
  CASE error = "kept" -> "false"
    [] error = "asks" /\ work.group -> IF back THEN "true" ELSE "false"
    [] OTHER -> "none"
\* Mutant: only an error that says so is of a call that was rolled back.
DiscardsTold(error, back) == error # "crash" /\ Told(error, back) = "true"
Discards(error, back) == error # "crash" /\ Told(error, back) # "false"

\* A call fails.  Its undo group takes the scene back unless undo is disabled; one without an
\* entry on the stack, as after a load, says that it did too.
Fail(error, undo) ==
  /\ work # NoWork
  /\ LET undoes == work.group /\ undo /\ ~work.loaded
         says == work.group /\ undo
         after == IF undoes THEN work.before ELSE node
         discard == Discards(error, says)
         changed == UNION {Below(p) : p \in (after \ work.before) \cup (work.before \ after)} IN
     /\ node' = after
     /\ EndWork(discard, batch \o (IF undoes THEN Undoing ELSE <<>>))
     /\ ForgetNodes(node \ after)
     /\ undone' = undone \cup
          (IF undoes /\ error \in {"silent", "asks"}
             THEN {(batch \o Undoing)[i].n : i \in DOMAIN (batch \o Undoing)} ELSE {})
     /\ lost' = lost \cup
          (IF ~discard THEN {} ELSE IF work.loaded THEN Node ELSE changed)
     /\ deaf' = IF undoes /\ Quiet THEN deaf \cup Node ELSE deaf
  /\ UNCHANGED <<changes, installed, busy, posted, recent, bounds, reader, taken>>

-----------------------------------------------------------------------------
(* The pdg tool's thread, the reader, and the host. *)

\* record_pdg: published at once, whatever the main thread is doing.
RecordPdg ==
  /\ Changes
  /\ Publish(<<EventOf(0, "pdg", Hip, "agent")>>)
  /\ UNCHANGED <<node, hooks, batch, recent, work, bounds, reader, history>>

Highest(S) == CHOOSE s \in S : \A r \in S : r <= s
Lowest(S) == CHOOSE s \in S : \A r \in S : s <= r
\* Mutant: a page that was cut goes on after the last event scanned.
NextScanned(chunk, since) == IF since > Len(log) THEN since ELSE Len(log)
NextSince(chunk, since) ==
  IF chunk # {} THEN Highest(chunk) ELSE IF since > Len(log) THEN since ELSE Len(log)

\* EventLog.read through the bridge, which starts another Houdini's cursor from the start.
Read ==
  LET asked == IF cursor.pid = pid THEN cursor.seq ELSE 0
      since == IF asked > Len(log) THEN 0 ELSE asked
      oldest == IF ring = {} THEN Len(log) + 1 ELSE Lowest(ring)
      newer == {s \in ring : s > since}
      told == {s \in DOMAIN log : s > since /\ s < oldest} IN
  \E cut \in 1 .. Limit :
    LET chunk == First(newer, cut) IN
    /\ cursor' = [pid |-> pid, seq |-> NextSince(chunk, since)]
    /\ seen' = (IF cursor.pid = pid /\ since = asked THEN seen ELSE {}) \cup chunk \cup told
    /\ UNCHANGED <<node, changes, hooks, events, work, bounds, history>>

\* Host.stop and Host.start in the same Houdini: the ring stays, and what was posted is
\* dropped with the executor's queue.
Uninstall ==
  /\ MayStop /\ installed /\ work = NoWork /\ Changes
  /\ installed' = FALSE /\ watched' = {} /\ stale' = 0 /\ queued' = {} /\ posted' = FALSE
  /\ UNCHANGED <<node, busy, created, events, work, bounds, reader, history>>

Install ==
  /\ ~installed
  /\ installed' = TRUE /\ busy' = FALSE
  /\ UNCHANGED <<node, changes, watched, stale, queued, created, posted, events, work, bounds,
                 reader, history>>

\* Another Houdini takes the place of this one.
Restart ==
  /\ MayStop /\ Changes /\ pid' = pid + 1
  /\ node' = {} /\ installed' = TRUE /\ busy' = FALSE /\ watched' = {} /\ stale' = 0
  /\ queued' = {} /\ created' = {} /\ posted' = FALSE
  /\ batch' = NoBatch /\ log' = <<>> /\ ring' = {} /\ recent' = [p \in Node |-> 0]
  /\ work' = NoWork /\ taken' = {} /\ undone' = {} /\ lost' = {} /\ deaf' = {}
  /\ UNCHANGED <<works, reader>>

-----------------------------------------------------------------------------
Next ==
  \/ \E t \in Tops, soon \in BOOLEAN :
       \/ \E kid \in BOOLEAN : CreateTop(t, kid, soon)
       \/ CreateKid(t, soon) \/ DeleteKid(t, soon) \/ DeleteTop(t, soon)
  \/ \E p \in Node :
       \/ Watch(p)
       \/ \E soon \in BOOLEAN : SetSpare(p, soon) \/ \E houdini \in BOOLEAN : SetParm(p, houdini, soon)
  \/ \E scene \in {{}} \cup {{Top(t)} : t \in Tops} \cup {node} :
       \E fails, tool \in BOOLEAN : Load(scene, fails, tool)
  \/ FlushPending \/ Succeed \/ RecordPdg \/ Read \/ Uninstall \/ Install \/ Restart
  \/ \E group \in BOOLEAN : BeginWork(group)
  \/ \E error \in Errors, undo \in BOOLEAN : Fail(error, undo)

Spec == Init /\ [][Next]_vars

-----------------------------------------------------------------------------
(* Properties *)

\* Every variable keeps its type; the ring and the watched nodes stay within their bounds.
TypeOK ==
  /\ node \subseteq Node /\ watched \subseteq node /\ created \subseteq Node
  /\ queued \subseteq Node \cup {Gone}
  /\ {installed, busy, posted} \subseteq BOOLEAN
  /\ log \in Seq(Happenings) /\ batch \in Seq(Happenings) \cup {NoBatch}
  /\ work \in Works \cup {NoWork} /\ (batch = NoBatch <=> work = NoWork)
  /\ ring \subseteq DOMAIN log /\ Cardinality(ring) <= RingSize
  /\ stale \in Nat /\ Cardinality(watched) + stale <= WatchCap
  /\ recent \in [Node -> 0 .. MaxChanges]
  /\ changes \in 0 .. MaxChanges /\ works \in 0 .. MaxWorks /\ pid \in Nat
  /\ cursor \in [pid : Nat, seq : Nat] /\ cursor.pid <= pid
  /\ seen \subseteq Nat /\ taken \subseteq DOMAIN log
  /\ undone \subseteq 0 .. MaxChanges /\ lost \cup deaf \subseteq Node

\* "A page cut by either never skips an event": a reader that follows next_since was given
\* every event up to its cursor, or told that it was dropped, but for the parm events that a
\* spare parm edit took back.
PagesAreWhole ==
  cursor.pid = pid => 1 .. cursor.seq \subseteq seen \cup taken

\* "A call that fails and is rolled back publishes nothing."
UndoneIsSilent == \A s \in ring : log[s].n \notin undone

\* What the events say of a node, last.  A load makes everything unknown, a new parent its
\* children, and a deletion that only the node itself told of (an undo of it is not heard).
Says(p, e) ==
  \/ e.kind \in HipKinds
  \/ e.kind \in {"ChildCreated", "ChildDeleted", "BeingDeleted"} /\ Under(p, e.path)
ToldOf(p) ==
  LET says == {s \in DOMAIN log : Says(p, log[s])}
      e == log[CHOOSE s \in says : \A r \in says : r <= s] IN
  IF says = {} \/ e.kind \in HipKinds \cup {"BeingDeleted"} \/ (e.kind = "ChildCreated" /\ e.path # p)
  THEN "unknown"
  ELSE IF e.kind = "ChildCreated" THEN "there" ELSE "gone"

\* Between calls the events tell the scene: a node is there, or gone, when the last event on it
\* says so.  Only nodes that changed while the hooks were silent (a hip that could not be
\* loaded, a stopped host) or whose call's events were discarded may differ.
EventsTellScene ==
  work = NoWork =>
    \A p \in Node \ (lost \cup deaf) : ToldOf(p) # "unknown" => (ToldOf(p) = "there") = (p \in node)

\* A node waiting to be watched has a flush queued that will watch it.
FlushIsQueued == queued # {} => posted
=============================================================================
