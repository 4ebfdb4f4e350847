----------------------------- MODULE Lifecycle -----------------------------
(* The life of the host inside of one Houdini (runtime.py, host/__init__.py, *)
(* __main__.py): it starts part by part, any part may fail, it is stopped    *)
(* by the user, by POST /hp/v1/shutdown or by Houdini's own end, may start   *)
(* again in the same process, and POST /hp/v1/quit ends Houdini some time    *)
(* after the scene was looked at.  The main thread does one thing at a time; *)
(* requests are threads of the HTTP server and run in between.               *)
EXTENDS Naturals, Sequences, FiniteSets, SequencesExt

CONSTANTS
  Requests,    \* POST requests of bridges
  MaxHosts     \* bound on the hosts that are started in the process

VARIABLES
  ui,       \* hou.isUIAvailable()
  gone,     \* the process has ended
  cur,      \* _HOST: 0 for none
  made,     \* the hosts that were made so far
  main,     \* what the main thread is at: idle, or a start or stop of a host and its next part
  parts,    \* for each host, which parts of it are up
  entry,    \* whose registry entry is on the disk, 0 for none
  queue,    \* for each host, the queue of its executor
  drain,    \* the host whose event loop callback still takes from its queue, 0 for none
  event,    \* for each host, shutdown_event
  kind, to, \* what a request asks, and of which host
  pc,       \* how far the request is
  dirty,    \* the scene has unsaved changes
  flag,     \* what the host's SceneState says of that
  missed,   \* history: a change since the scene was last clean did not set the flag
  foreign,  \* history: the entry is not what the host last wrote or removed
  read,     \* the entry that a bridge read, to write it back or to remove it, 0 for none
  late,     \* ghost: the scene changed after the request's look at it
  lost      \* ghost: unsaved changes were lost to a quit that had found, or made, the scene clean

vars == <<ui, gone, cur, made, main, parts, entry, queue, drain, event, kind, to, pc,
          dirty, flag, missed, foreign, read, late, lost>>

Hosts == 1..MaxHosts
Kinds == {"shutdown", "fail", "save", "discard"}
Parts == {"executor", "server", "hip", "events"}
Idle == [do |-> "idle", host |-> 0, next |-> <<>>]

\* Host.start and Host.stop, in the order of the code.
StartOrder == <<"executor", "server", "hip", "events", "entry">>
\* Mutant: the server goes before the entry that names it.
StopOrderServer == <<"hip", "server", "entry", "executor">>
StopOrder == <<"hip", "entry", "server", "executor">>

Init ==
  /\ ui \in BOOLEAN
  /\ gone = FALSE /\ cur = 0 /\ made = 0 /\ main = Idle
  /\ parts = [h \in Hosts |-> {}]
  /\ entry = 0 /\ drain = 0
  /\ queue = [h \in Hosts |-> <<>>]
  /\ event = [h \in Hosts |-> FALSE]
  /\ kind = [r \in Requests |-> "fail"]
  /\ to = [r \in Requests |-> 0]
  /\ pc = [r \in Requests |-> "idle"]
  /\ dirty = FALSE /\ flag = FALSE /\ missed = FALSE /\ lost = FALSE
  /\ foreign = FALSE /\ read = 0
  /\ late = [r \in Requests |-> FALSE]

Requesting == <<kind, to, pc>>
Scene == <<dirty, flag, missed, late, lost>>
Files == <<foreign, read>>

\* The items of an executor that is stopped fail: the requests that wait for their check there
\* have their refusal.
Drained(h) == [r \in Requests |-> IF pc[r] = "waiting" /\ to[r] = h THEN "done" ELSE pc[r]]

StopsFor(h) == [do |-> "stop", host |-> h, next |-> StopOrder]

\* start(): one host at a time, and none while one runs.
Start ==
  /\ ~gone /\ main = Idle /\ drain = 0 /\ cur = 0 /\ made < MaxHosts
  /\ ~ui => made = 0
  /\ made' = made + 1
  /\ main' = [do |-> "start", host |-> made + 1, next |-> StartOrder]
  /\ UNCHANGED <<ui, gone, cur, parts, entry, queue, drain, event, Requesting, Scene, Files>>

\* Mutant: nothing marks it again.
TrackedNot(shown) == flag

\* A new SceneState, marked clean once the host serves (runtime.py:192): unsaved changes are still
\* there.  In a GUI they mark it again, if Houdini tells of them (_track_houdini_flag).
Tracked(shown) == flag \/ (dirty /\ shown)

PartUp ==
  /\ ~gone /\ main.do = "start" /\ main.next # <<>>
  /\ LET h == main.host  p == Head(main.next) IN
     /\ IF p = "entry" THEN entry' = h /\ foreign' = FALSE /\ UNCHANGED parts
                       ELSE parts' = [parts EXCEPT ![h] = @ \union {p}] /\ UNCHANGED <<entry, foreign>>
     /\ \/ p = "server" /\ flag' = FALSE /\ UNCHANGED missed
        \/ p = "events" /\ ui /\ \E shown \in BOOLEAN : flag' = Tracked(shown) /\ missed' = (missed \/ (dirty /\ ~shown))
        \/ p # "server" /\ ~(p = "events" /\ ui) /\ UNCHANGED <<flag, missed>>
  /\ main' = [main EXCEPT !.next = Tail(@)]
  /\ UNCHANGED <<ui, gone, cur, made, queue, drain, event, Requesting, dirty, read, late, lost>>

Started ==
  /\ ~gone /\ main.do = "start" /\ main.next = <<>>
  /\ cur' = main.host /\ main' = Idle
  /\ UNCHANGED <<ui, gone, made, parts, entry, queue, drain, event, Requesting, Scene, Files>>

\* What start() does with a host that it could not start.
Failed(h) == StopsFor(h)
\* A part cannot be had: the port is taken, the state directory is not writable.
PartFails ==
  /\ ~gone /\ main.do = "start" /\ main.next # <<>>
  /\ main' = Failed(main.host)
  /\ UNCHANGED <<ui, gone, cur, made, parts, entry, queue, drain, event, Requesting, Scene, Files>>

\* RegistryEntry.remove: a file that cannot be removed stays, and nothing tries again.
Removed(left) == entry' \in {0, left} /\ foreign' = (entry' # 0)

\* One part of Host.stop.  The event hooks go with the hip callback, if that was there.
PartDown ==
  /\ ~gone /\ main.do = "stop" /\ main.next # <<>>
  /\ LET h == main.host  p == Head(main.next) IN
     /\ event' = [event EXCEPT ![h] = TRUE]
     /\ parts' = [parts EXCEPT ![h] = CASE p = "hip" /\ "hip" \in @ -> @ \ {"hip", "events"}
                                        [] OTHER -> @ \ {p}]
     /\ IF p = "entry" THEN Removed(entry) ELSE UNCHANGED <<entry, foreign>>
     /\ queue' = IF p = "executor" /\ p \in parts[h] THEN [queue EXCEPT ![h] = <<>>] ELSE queue
     /\ pc' = IF p = "executor" /\ p \in parts[h] THEN Drained(h) ELSE pc
  /\ main' = [main EXCEPT !.next = Tail(@)]
  /\ UNCHANGED <<ui, gone, cur, made, drain, kind, to, Scene, read>>

\* The end of a stop: hython's main loop returns, and its process with it.
Stopped ==
  /\ ~gone /\ main.do = "stop" /\ main.next = <<>>
  /\ main' = Idle
  /\ UNCHANGED <<ui, gone, cur, made, parts, entry, queue, drain, event, Requesting, Scene, Files>>

\* stop() of the module, by the user or by a posted shutdown: the host that there is now.
ModuleStop == IF cur = 0 THEN main' = Idle /\ UNCHANGED cur
                         ELSE main' = StopsFor(cur) /\ cur' = 0

UserStops ==
  /\ ~gone /\ ui /\ main = Idle /\ drain = 0 /\ cur # 0 /\ ModuleStop
  /\ UNCHANGED <<ui, gone, made, parts, entry, queue, drain, event, Requesting, Scene, Files>>

\* The scene changes: a call, or the user.  Also while a call was queued behind the check.  The
\* host may see nothing of it (Scene).
Edit ==
  /\ ~gone /\ main = Idle /\ (ui \/ cur # 0) /\ ~(dirty /\ flag)
  /\ dirty' = TRUE
  /\ \E marked \in BOOLEAN : flag' = (flag \/ marked) /\ missed' = (missed \/ ~marked)
  /\ late' = [r \in Requests |-> late[r] \/ pc[r] \in {"answered", "acting", "acted"}]
  /\ UNCHANGED <<ui, gone, cur, made, main, parts, entry, queue, drain, event, Requesting, Files, lost>>

UserSaves ==
  /\ ~gone /\ ui /\ main = Idle /\ dirty
  /\ dirty' = FALSE /\ flag' = FALSE /\ missed' = FALSE
  /\ UNCHANGED <<ui, gone, cur, made, main, parts, entry, queue, drain, event, Requesting, Files, late, lost>>

\* RegistryEntry.update, after a hip event.
Rewrite ==
  /\ ~gone /\ main = Idle /\ cur # 0
  /\ entry' = cur /\ foreign' = FALSE
  /\ UNCHANGED <<ui, gone, cur, made, main, parts, queue, drain, event, Requesting, Scene, read>>

\* A bridge reads the entry, and writes it back with a name (set_name) whatever became of it since,
\* or removes it (forget): nobody answered at its port, or its host agreed to quit.
BridgeReads ==
  /\ ~gone /\ entry # 0 /\ read = 0
  /\ read' = entry
  /\ UNCHANGED <<ui, gone, cur, made, main, parts, entry, queue, drain, event, Requesting, Scene, foreign>>
BridgeNames ==
  /\ ~gone /\ read # 0
  /\ entry' = read /\ foreign' = (foreign \/ entry # read) /\ read' = 0
  /\ UNCHANGED <<ui, gone, cur, made, main, parts, queue, drain, event, Requesting, Scene>>
Agreed(h) == \E r \in Requests : to[r] = h /\ kind[r] # "shutdown" /\ pc[r] \in {"acting", "acted"}
BridgeForgets ==
  /\ ~gone /\ read # 0 /\ ("server" \notin parts[read] \/ Agreed(read))
  /\ entry' = 0 /\ foreign' = (foreign \/ entry # 0) /\ read' = 0
  /\ UNCHANGED <<ui, gone, cur, made, main, parts, queue, drain, event, Requesting, Scene>>

\* A request gets as far as its route when it has the entry's token and a JSON body.
Guarded == entry # 0 /\ "server" \in parts[entry]

\* A bridge that read the entry posts /shutdown or /quit.
Post(r) ==
  /\ ~gone /\ pc[r] = "idle" /\ Guarded
  /\ \E k \in Kinds :
       /\ kind' = [kind EXCEPT ![r] = k]
       /\ to' = [to EXCEPT ![r] = entry]
       /\ IF k = "shutdown"
          THEN pc' = [pc EXCEPT ![r] = "acting"] /\ UNCHANGED queue
          ELSE IF "executor" \in parts[entry]
          THEN /\ pc' = [pc EXCEPT ![r] = "waiting"]
               /\ queue' = [queue EXCEPT ![entry] = Append(@, <<"check", r>>)]
          ELSE pc' = [pc EXCEPT ![r] = "done"] /\ UNCHANGED queue
  /\ UNCHANGED <<ui, gone, cur, made, main, parts, entry, drain, event, Scene, Files>>

\* executor.run(check, 60.0) gives up on a check that has not begun.
GivesUp(r) ==
  /\ ~gone /\ pc[r] = "waiting"
  /\ pc' = [pc EXCEPT ![r] = "done"]
  /\ UNCHANGED <<ui, gone, cur, made, main, parts, entry, queue, drain, event, kind, to, Scene, Files>>

\* handle_unsaved refuses: unsaved changes, as far as the host's flag tells, and no leave to lose them or no way to save them
\* (an untitled scene, a read-only host).
Refuses(r, saveable) == flag /\ (kind[r] = "fail" \/ (kind[r] = "save" /\ ~saveable))
\* request_quit's check, on the main thread.
Check(r) ==
  /\ \E saveable \in BOOLEAN :
       /\ pc' = [pc EXCEPT ![r] = IF Refuses(r, saveable) THEN "done" ELSE "answered"]
       /\ IF flag /\ kind[r] = "save" /\ saveable
          THEN dirty' = FALSE /\ flag' = FALSE /\ missed' = FALSE
          ELSE UNCHANGED <<dirty, flag, missed>>
  /\ UNCHANGED <<gone, cur, main, late, lost>>

\* What a quit, or a stop of hython, loses though nobody agreed: what was there at the check, and
\* the host's flag was told of.
Acted == {r \in Requests : pc[r] = "acted"}
Loses == dirty /\ ~missed /\ Acted # {} /\ \A r \in Acted : kind[r] \in {"fail", "save"} /\ ~late[r]

\* One item of an executor's queue: by its event loop callback, also when the item before
\* stopped the host, or by hython's loop.
Pump(h) ==
  /\ ~gone /\ main = Idle /\ queue[h] # <<>>
  /\ "executor" \in parts[h] \/ drain = h
  /\ drain \in {0, h}
  /\ queue' = [queue EXCEPT ![h] = Tail(@)]
  /\ drain' = IF ui THEN h ELSE 0
  /\ LET item == Head(queue[h]) IN
     \/ item[1] = "check" /\ pc[item[2]] = "waiting" /\ Check(item[2])
     \/ item[1] = "check" /\ pc[item[2]] # "waiting" /\ UNCHANGED <<pc, cur, main, gone, Scene>>
     \/ item[1] = "stop" /\ ModuleStop /\ UNCHANGED <<pc, gone, Scene>>
     \/ /\ item[1] = "leave"
        /\ gone' = TRUE /\ lost' = Loses
        /\ UNCHANGED <<pc, cur, main, dirty, flag, missed, late>>
  /\ UNCHANGED <<ui, made, parts, entry, event, kind, to, Files>>

\* The callback's time is over, or its queue empty.
IdleEnds ==
  /\ ~gone /\ main = Idle /\ drain # 0
  /\ drain' = 0
  /\ UNCHANGED <<ui, gone, cur, made, main, parts, entry, queue, event, Requesting, Scene, Files>>

\* The answer is sent, and the thread that quits starts; no thread when it cannot be sent.
Answer(r) ==
  /\ ~gone /\ pc[r] = "answered"
  /\ \E sent \in BOOLEAN : pc' = [pc EXCEPT ![r] = IF sent THEN "acting" ELSE "done"]
  /\ UNCHANGED <<ui, gone, cur, made, main, parts, entry, queue, drain, event, kind, to, Scene, Files>>

\* request_shutdown: to the host it was asked of, running or not.
ActStop(r) ==
  /\ event' = [event EXCEPT ![to[r]] = TRUE]
  /\ queue' = [queue EXCEPT ![to[r]] = Append(@, <<"stop", r>>)]

\* request_shutdown, or _quit_now, which is that in hython.
Act(r) ==
  /\ ~gone /\ pc[r] = "acting"
  /\ pc' = [pc EXCEPT ![r] = "acted"]
  /\ IF kind[r] = "shutdown" \/ ~ui
     THEN ActStop(r)
     ELSE queue' = [queue EXCEPT ![to[r]] = Append(@, <<"leave", r>>)] /\ UNCHANGED event
  /\ UNCHANGED <<ui, gone, cur, made, main, parts, entry, drain, kind, to, Scene, Files>>

\* hython: pump_forever saw the event and found its queue empty; main() stops the host ...
LoopEnds ==
  /\ ~gone /\ ~ui /\ main = Idle /\ cur # 0 /\ event[cur] /\ queue[cur] = <<>>
  /\ ModuleStop
  /\ UNCHANGED <<ui, gone, made, parts, entry, queue, drain, event, Requesting, Scene, Files>>

\* A signal ends hython without a look at the scene.
Signal ==
  /\ ~gone /\ ~ui /\ main = Idle /\ cur # 0 /\ ~event[cur]
  /\ event' = [event EXCEPT ![cur] = TRUE]
  /\ late' = [r \in Requests |-> TRUE]
  /\ UNCHANGED <<ui, gone, cur, made, main, parts, entry, queue, drain, Requesting, Files, dirty, flag, missed, lost>>

\* ... and returns.
MainReturns ==
  /\ ~gone /\ ~ui /\ main = Idle /\ cur = 0 /\ made > 0
  /\ gone' = TRUE /\ lost' = Loses
  /\ UNCHANGED <<ui, cur, made, main, parts, entry, queue, drain, event, Requesting, Files, dirty, flag, missed, late>>

\* The user quits Houdini, which asks about unsaved changes itself: BeforeQuit stops the host.
UserQuits ==
  /\ ~gone /\ ui /\ main = Idle /\ drain = 0
  /\ gone' = TRUE
  /\ IF cur # 0 THEN Removed(entry) ELSE UNCHANGED <<entry, foreign>>
  /\ UNCHANGED <<ui, cur, made, main, parts, queue, drain, event, Requesting, Scene, read>>

Next ==
  \/ Start \/ PartUp \/ Started \/ PartFails \/ PartDown \/ Stopped
  \/ UserStops \/ Edit \/ UserSaves \/ IdleEnds \/ LoopEnds \/ Signal \/ MainReturns \/ UserQuits
  \/ Rewrite \/ BridgeReads \/ BridgeNames \/ BridgeForgets
  \/ \E r \in Requests : Post(r) \/ GivesUp(r) \/ Answer(r) \/ Act(r)
  \/ \E h \in Hosts : Pump(h)

Spec == Init /\ [][Next]_vars

-----------------------------------------------------------------------------

TypeOK ==
  /\ ui \in BOOLEAN /\ gone \in BOOLEAN /\ dirty \in BOOLEAN /\ lost \in BOOLEAN
  /\ flag \in BOOLEAN /\ missed \in BOOLEAN /\ foreign \in BOOLEAN /\ read \in 0..MaxHosts
  /\ cur \in 0..MaxHosts /\ made \in 0..MaxHosts /\ entry \in 0..MaxHosts /\ drain \in 0..MaxHosts
  /\ main \in [do : {"idle", "start", "stop"}, host : 0..MaxHosts, next : Seq(Parts \union {"entry"})]
  /\ parts \in [Hosts -> SUBSET Parts]
  /\ queue \in [Hosts -> Seq({"check", "stop", "leave"} \X Requests)]
  /\ event \in [Hosts -> BOOLEAN] /\ late \in [Requests -> BOOLEAN]
  /\ kind \in [Requests -> Kinds] /\ to \in [Requests -> 0..MaxHosts]
  /\ pc \in [Requests -> {"idle", "waiting", "answered", "acting", "acted", "done"}]

\* As long as Houdini lives, the registry entry is of a host that listens and whose executor
\* takes calls: it is written last and removed first (runtime.py:137, :273).  Not one that could not
\* be removed, or that a bridge wrote back after the host was gone: foreign.
EntryIsServed == ~gone /\ entry # 0 /\ ~foreign => {"server", "executor"} \subseteq parts[entry]

\* When no host is being started or stopped, a host that is not the module's has nothing left:
\* no socket, no callback, no queue that is served, no entry of its own - also after a start that
\* failed half-way (host/__init__.py:51).
StoppedIsClean ==
  main = Idle => \A h \in Hosts \ {cur} : parts[h] = {} /\ (entry # h \/ foreign)

\* And the module's host is whole, and registered, unless a bridge removed its entry.
RunningIsWhole == main = Idle /\ cur # 0 => parts[cur] = Parts /\ (entry = cur \/ foreign)

HostIsWhole == EntryIsServed /\ (gone \/ (StoppedIsClean /\ RunningIsWhole))

\* A quit that was to keep unsaved changes loses none that were there at its check, also those
\* from before the host was started (runtime.py:315, :251).  What changes in the 0.2 s and more
\* before Houdini ends is lost (late), and what the host did not see (missed, session.py:76).
QuitLosesNothing == ~lost

\* Not so: a posted shutdown stops the host that the module has when it runs.  After a stop and
\* a start within one item of the queue, the callback may still take the old host's shutdown.
ShutdownIsOfItsHost ==
  main.do = "stop" /\ (\E r \in Requests : kind[r] = "shutdown" /\ pc[r] = "acted")
    => \A r \in Requests : kind[r] = "shutdown" /\ pc[r] = "acted" => to[r] = main.host
=============================================================================
