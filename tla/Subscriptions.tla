---------------------------- MODULE Subscriptions ----------------------------
(***************************************************************************)
(* The bridge's resource subscriptions (bridge/resources.py, ResourceHub). *)
(* Clients subscribe to resources of Houdini; one poller compares the etag *)
(* of each subscribed resource with the one it remembers and notifies the  *)
(* clients of a difference.  The remembered etags, the subscribers and the *)
(* poll are three pieces of state kept by three threads: the event loop    *)
(* (add, remove, notify), the worker threads that read a new subscriber's  *)
(* baseline, and the worker thread of the poll, which reads an etag,       *)
(* fetches the resource and writes the etag back.                          *)
(*                                                                         *)
(* An etag is the version of the resource: contents never return to an     *)
(* earlier version.                                                        *)
(***************************************************************************)
EXTENDS Integers

CONSTANTS
  Clients,        \* subscriber keys: a session or a listen stream
  Status,         \* resources of kind "status": read at every tick
  Jobs,           \* resources of kind "jobs": the heartbeat has their etag
  Gated,          \* "node" and "events": read when the gate moved
  FallbackTicks,  \* FALLBACK_TICKS
  Visitors,       \* bound: the clients that leave; they subscribe to Gated only
  MaxChanges,     \* bound: how often the resources change
  MaxOutages      \* bound: how often Houdini stops answering

Uris == Status \cup Jobs \cup Gated

ASSUME SubscriptionsAssumption ==
  /\ Status \cap Jobs = {} /\ Status \cap Gated = {} /\ Jobs \cap Gated = {}
  /\ Uris # {}
  /\ FallbackTicks \in Nat \ {0}
  /\ MaxChanges \in Nat

NoEtag == -1       \* the uri has no entry in _etags
ErrorEtag == -2    \* "error:<code>"
Etags == Nat \cup {ErrorEtag}
ErrorGate == -1    \* the gate ("error", <code>); any other gate is a Nat
Phases == {"out", "read", "based", "in"}
PollerPCs == {"sleep", "heartbeat", "loop", "fetch", "record", "notify"}

VARIABLES
  version,  \* the version of each resource
  moves,    \* the scene generation and the last event's seq
  up,       \* Houdini answers
  changes, outages,  \* how often resources changed and Houdini stopped answering
  phase,    \* where each client is with its subscription to each resource
  base,     \* the etag baseline() read for it
  etags,    \* _etags
  gate,     \* _gate
  ticks,    \* _ticks modulo FallbackTicks
  poller,   \* where the poll is
  todo,     \* the snapshot of subscribed uris still to look at
  moved,    \* check's moved
  fresh,    \* check's fresh: the jobs etags the heartbeat read
  cur, last, got,  \* the uri being looked at, its remembered and fetched etag
  changed,  \* the uris whose subscribers are to be notified
  parted,   \* history: the resources someone unsubscribed from
  lag       \* history: 0, or 1 + the polls since a change the client is not told
            \* of, counted while Houdini answers

worldVars == <<version, moves, up, changes, outages>>
pollVars == <<gate, ticks, poller, todo, moved, fresh, cur, last, got, changed>>
history == <<parted, lag>>
vars == <<worldVars, phase, base, etags, pollVars, history>>

\* What a read of the resource answers.  The bridge serves "status" itself.
Etag(u) == IF up \/ u \in Status THEN version[u] ELSE ErrorEtag
Gate == IF up THEN moves ELSE ErrorGate

Subs(u) == {c \in Clients : phase[c][u] = "in"}

Init ==
  /\ version = [u \in Uris |-> 0]
  /\ moves = 0
  /\ up = TRUE
  /\ changes = 0
  /\ outages = 0
  /\ phase = [c \in Clients |-> [u \in Uris |-> "out"]]
  /\ base = [c \in Clients |-> [u \in Uris |-> NoEtag]]
  /\ etags = [u \in Uris |-> NoEtag]
  /\ gate = ErrorGate - 1          \* None
  /\ ticks = 0
  /\ poller = "sleep"
  /\ todo = {}
  /\ moved = FALSE
  /\ fresh = [u \in Jobs |-> NoEtag]
  /\ cur = CHOOSE u \in Uris : TRUE
  /\ last = NoEtag
  /\ got = NoEtag
  /\ changed = {}
  /\ parted = {}
  /\ lag = [c \in Clients |-> [u \in Uris |-> 0]]

-----------------------------------------------------------------------------
(* Houdini.  A change of a resource usually moves the gate; a node no tool *)
(* has read yet is not watched by the event ring, and its change is silent.*)

Change(u) ==
  /\ changes < MaxChanges
  /\ changes' = changes + 1
  /\ version' = [version EXCEPT ![u] = @ + 1]
  /\ moves' \in {moves, moves + 1}
  /\ lag' = [c \in Clients |-> [lag[c] EXCEPT ![u] =
               IF phase[c][u] = "in" /\ @ = 0 THEN 1 ELSE @]]
  /\ UNCHANGED <<up, outages, phase, base, etags, pollVars, parted>>

\* Houdini stops answering (busy or gone), or answers again.
Flip ==
  /\ outages < MaxOutages \/ ~up
  /\ outages' = IF up THEN outages + 1 ELSE outages
  /\ up' = ~up
  /\ lag' = [c \in Clients |-> [u \in Uris |-> IF lag[c][u] > 0 THEN 1 ELSE 0]]
  /\ UNCHANGED <<version, moves, changes, phase, base, etags, pollVars, parted>>

-----------------------------------------------------------------------------
(* The clients. *)

Goto(c, u, from, to) ==
  /\ phase[c][u] = from
  /\ phase' = [phase EXCEPT ![c][u] = to]

\* baseline() reads the resource in a worker thread ...
Baseline(c, u) ==
  /\ c \in Visitors => u \in Gated
  /\ Goto(c, u, "out", "read")
  /\ base' = [base EXCEPT ![c][u] = Etag(u)]
  /\ UNCHANGED <<worldVars, etags, pollVars, history>>

\* Mutant: the baseline of a new subscriber overwrites the etag.
KeptNew(c, u) == base[c][u]

\* The etag setdefault leaves.
Kept(c, u) == IF etags[u] = NoEtag THEN base[c][u] ELSE etags[u]

\* ... and remembers the etag unless one is known, under the lock.
KeepBaseline(c, u) ==
  /\ c \in Visitors => u \in Gated
  /\ Goto(c, u, "read", "based")
  /\ etags' = [etags EXCEPT ![u] = Kept(c, u)]
  /\ base' = [base EXCEPT ![c][u] = NoEtag]
  /\ UNCHANGED <<worldVars, pollVars, history>>

\* Back on the event loop the client is added and its subscribe returns.
Add(c, u) ==
  /\ Goto(c, u, "based", "in")
  /\ UNCHANGED <<worldVars, base, etags, pollVars, history>>

\* remove(): the last subscriber of a resource takes its etag along.
Remove(c, U) ==
  /\ phase' = [phase EXCEPT ![c] =
                 [u \in Uris |-> IF u \in U /\ @[u] = "in" THEN "out" ELSE @[u]]]
  /\ etags' = [u \in Uris |-> IF u \in U /\ Subs(u) = {c}
                              THEN NoEtag ELSE etags[u]]
  /\ lag' = [lag EXCEPT ![c] = [u \in Uris |-> IF u \in U THEN 0 ELSE @[u]]]
  /\ parted' = parted \cup {u \in U : phase[c][u] = "in"}
  /\ UNCHANGED <<worldVars, base, pollVars>>

Unsubscribe(c, u) ==
  /\ c \in Visitors
  /\ phase[c][u] = "in"
  /\ Remove(c, {u})

\* The listen stream ends, or a notification to the session fails.
Leave(c) ==
  /\ c \in Visitors
  /\ \E u \in Uris : phase[c][u] = "in"
  /\ Remove(c, Uris)

-----------------------------------------------------------------------------
(* The poller: run() and check(). *)

NextTick == IF ticks + 1 = FallbackTicks THEN 0 ELSE ticks + 1

\* A tick with subscribers: the counter and the snapshot of the uris.
Tick ==
  /\ poller = "sleep"
  /\ todo' = {u \in Uris : Subs(u) # {}}
  /\ todo' # {}
  /\ ticks' = NextTick
  /\ moved' = (ticks' = 0)
  /\ poller' = IF todo' \subseteq Status THEN "loop" ELSE "heartbeat"
  /\ lag' = [c \in Clients |-> [u \in Uris |->
               IF up /\ lag[c][u] \in 1..(FallbackTicks + 1) THEN lag[c][u] + 1
               ELSE lag[c][u]]]
  /\ UNCHANGED <<worldVars, phase, base, etags, gate, fresh, cur, last, got,
                 changed, parted>>

\* Mutant: the gate decides, fallback tick or not.
MovedByGate == Gate # gate

Moved == moved \/ Gate # gate

\* One read of houdini://jobs gives the gate and the etag of the jobs.
Heartbeat ==
  /\ poller = "heartbeat"
  /\ moved' = Moved
  /\ gate' = Gate
  /\ fresh' = [u \in Jobs |-> Etag(u)]
  /\ poller' = "loop"
  /\ UNCHANGED <<worldVars, phase, base, etags, ticks, todo, cur, last, got,
                 changed, history>>

MustFetch(u) == u \in Status \/ moved \/ etags[u] \in {NoEtag, ErrorEtag}

\* The remembered etag is read under the lock, the resource without it.
Look(u) ==
  /\ poller = "loop"
  /\ u \in todo
  /\ todo' = todo \ {u}
  /\ \/ /\ u \notin Jobs
        /\ ~MustFetch(u)
        /\ UNCHANGED <<cur, last, got, poller>>
     \/ /\ u \in Jobs
        /\ cur' = u /\ last' = etags[u] /\ got' = fresh[u]
        /\ poller' = "record"
     \/ /\ u \notin Jobs
        /\ MustFetch(u)
        /\ cur' = u /\ last' = etags[u]
        /\ poller' = "fetch"
        /\ UNCHANGED got
  /\ UNCHANGED <<worldVars, phase, base, etags, gate, ticks, moved, fresh,
                 changed, history>>

Fetch ==
  /\ poller = "fetch"
  /\ got' = Etag(cur)
  /\ poller' = "record"
  /\ UNCHANGED <<worldVars, phase, base, etags, gate, ticks, todo, moved,
                 fresh, cur, last, changed, history>>

StillSubscribed == Subs(cur) # {}

\* Under the lock again: a uri that lost its subscribers is skipped.
Record ==
  /\ poller = "record"
  /\ IF StillSubscribed
     THEN /\ etags' = [etags EXCEPT ![cur] = got]
          /\ changed' = IF last # NoEtag /\ got # last
                        THEN changed \cup {cur} ELSE changed
     ELSE UNCHANGED <<etags, changed>>
  /\ poller' = "loop"
  /\ last' = NoEtag
  /\ got' = NoEtag
  /\ UNCHANGED <<worldVars, phase, base, gate, ticks, todo, moved, fresh, cur,
                 history>>

Checked ==
  /\ poller = "loop"
  /\ todo = {}
  /\ poller' = IF changed = {} THEN "sleep" ELSE "notify"
  /\ moved' = FALSE
  /\ fresh' = [u \in Jobs |-> NoEtag]
  /\ UNCHANGED <<worldVars, phase, base, etags, gate, ticks, todo, cur, last,
                 got, changed, history>>

\* notify(): everyone subscribed by then is told.
Notify(u) ==
  /\ poller = "notify"
  /\ u \in changed
  /\ changed' = changed \ {u}
  /\ lag' = [c \in Clients |-> [lag[c] EXCEPT ![u] =
               IF c \in Subs(u) THEN 0 ELSE @]]
  /\ poller' = IF changed' = {} THEN "sleep" ELSE "notify"
  /\ UNCHANGED <<worldVars, phase, base, etags, gate, ticks, todo, moved,
                 fresh, cur, last, got, parted>>

-----------------------------------------------------------------------------

World == Flip \/ \E u \in Uris : Change(u)
Client(c) == Leave(c) \/ \E u \in Uris : \/ Baseline(c, u) \/ KeepBaseline(c, u)
                                         \/ Add(c, u) \/ Unsubscribe(c, u)
Poll == Tick \/ Heartbeat \/ Fetch \/ Record \/ Checked
          \/ \E u \in Uris : Look(u) \/ Notify(u)

Next == World \/ Poll \/ \E c \in Clients : Client(c)

Spec == Init /\ [][Next]_vars

-----------------------------------------------------------------------------
(* Type correctness of the hub, the world and the history variable. *)
TypeOK ==
  /\ version \in [Uris -> Nat] /\ moves \in Nat /\ up \in BOOLEAN
  /\ changes \in Nat /\ outages \in Nat
  /\ phase \in [Clients -> [Uris -> Phases]]
  /\ base \in [Clients -> [Uris -> Etags \cup {NoEtag}]]
  /\ etags \in [Uris -> Etags \cup {NoEtag}]
  /\ gate \in Nat \cup {ErrorGate, ErrorGate - 1}
  /\ ticks \in 0..(FallbackTicks - 1)
  /\ poller \in PollerPCs
  /\ todo \subseteq Uris /\ changed \subseteq Uris /\ cur \in Uris
  /\ moved \in BOOLEAN
  /\ fresh \in [Jobs -> Etags \cup {NoEtag}]
  /\ last \in Etags \cup {NoEtag} /\ got \in Etags \cup {NoEtag}
  /\ parted \subseteq Uris
  /\ lag \in [Clients -> [Uris -> 0..(FallbackTicks + 2)]]

(* baseline() is read before the subscribe returns, so "a change right      *)
(* after it is not missed": the remembered etag is not the one the resource *)
(* has, or its notification is on the way, until the client is told of the  *)
(* change.                                                                  *)
Unmissed(u) ==
  \A c \in Clients :
    phase[c][u] = "in" /\ lag[c][u] > 0 => etags[u] # version[u] \/ u \in changed

(* Of a resource that nobody ever unsubscribed from no change is missed.    *)
(* The baseline of another client that subscribes meanwhile does not hide   *)
(* the change, nor does the poll, whose read of the remembered etag, fetch  *)
(* and write are three steps.                                               *)
NoChangeMissed == \A u \in Uris \ parted : Unmissed(u)

(* "... and every 5 s regardless": a client is told of a change, a silent   *)
(* one included, by the end of the FallbackTicks-th poll after it.          *)
NotifiedInTime ==
  \A c \in Clients, u \in Uris \ parted : lag[c][u] <= FallbackTicks + 1

(* An etag is remembered only of a resource someone is subscribed to or is  *)
(* about to be: a later subscriber never starts from an old etag, though    *)
(* the poll was fetching when the last subscriber left.                     *)
NoEtagKept ==
  \A u \in Uris : etags[u] # NoEtag =>
    \E c \in Clients : phase[c][u] \in {"based", "in"}

=============================================================================
