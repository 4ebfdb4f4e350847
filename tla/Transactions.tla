---------------------------- MODULE Transactions ----------------------------
(***************************************************************************)
(* The transaction engine (host/tx.py): a plan of ops run on the main      *)
(* thread, each op a handler that changes the network step by step and     *)
(* registers a compensating action for what it changed, and the rollback   *)
(* that runs those actions newest first when an op fails.  What a failing  *)
(* op does to the plan depends on the tool: edit checks the rest and takes *)
(* the whole plan back, partial keeps the others, "stop" keeps those       *)
(* before, dry_run takes everything back.                                  *)
(*                                                                         *)
(* A handler is a script of steps; Houdini may refuse any of them.  A step *)
(* and a compensating action are records of one shape: what it does, to    *)
(* which node, and with which value.                                       *)
(***************************************************************************)
EXTENDS Network, Sequences, Functions

CONSTANTS
  Modes,       \* the calls made: "edit", "partial", "stop", "dry", "create", "parms"
  Kinds,       \* the kinds of op in their plans
  Initial,     \* the nodes of the network before the call
  MaxOps,      \* bound: ops of a plan
  MaxRefusals  \* bound: compensating actions Houdini refuses

AllModes == {"edit", "partial", "stop", "dry", "create", "parms"}
OpKinds == {"create", "delete", "connect", "set", "node", "copy", "layout", "build", "select"}

ASSUME TransactionsAssumption ==
  /\ Modes \subseteq AllModes
  /\ Kinds \subseteq OpKinds
  /\ Initial \subseteq Node /\ \E names \in [Initial -> Name] : IsInjective(names)
  /\ MaxOps \in Nat /\ MaxRefusals \in Nat

VARIABLES
  net,       \* the network
  before,    \* the network when the call began
  start,     \* the network when the op running now began
  mode,      \* the tool and its arguments; never changes
  index,     \* the ops of the plan handled so far
  pc,        \* where execute() is
  op,        \* the op running now
  script,    \* the steps its handler has left
  stack,     \* Rollback._actions, oldest first
  mark,      \* Rollback.mark() at the start of the op
  floor,     \* the rollback that runs goes back to here
  heeded,    \* execute() reads what this rollback returns
  ok,        \* Rollback.run's result so far
  checking,  \* State.checking
  problems,  \* the ops whose problem is collected
  failed,    \* the ops a later op may not refer to
  row,       \* rolled_back in the row of the last op: "none" unless it failed
  reply,     \* rolled_back in the error, "done" or "plan" without an error
  nodes,     \* the nodes the op running now touches
  touched,   \* Result.touched: the nodes that ops touched
  cooks,     \* those of them that an op cooks
  lost,      \* what no compensating action brings back
  refusals   \* how many compensating actions were refused

plan == <<index, op, script, nodes>>
rollback == <<stack, mark, floor, heeded, ok>>
outcome == <<problems, failed, row, reply, touched, cooks>>
ghosts == <<before, start, lost, refusals>>
vars == <<net, pc, checking, mode, plan, rollback, outcome, ghosts>>

Step(k, n, m, v) == [k |-> k, n |-> n, m |-> m, v |-> v]
NoOp == [kind |-> "none", n |-> None, m |-> None, x |-> None, v |-> 0, opt |-> "none"]

\* The tools' plans: edit collects the problems of its ops, a dry run too.
Collect == mode \in {"edit", "dry"}
Partial == mode \in {"partial", "stop"}
Deferred == mode \in {"edit", "dry", "partial", "stop"}

InitialNet ==
  LET first == CHOOSE n \in Initial \cup {None} : Initial # {} => n \in Initial
      names == CHOOSE f \in [Initial -> Name] : IsInjective(f)
  IN [alive |-> Initial, name |-> [n \in Node |-> IF n \in Initial THEN names[n] ELSE None],
      src |-> [n \in Node |-> IF n \in Initial /\ n # first THEN first ELSE None],
      attr |-> [n \in Node |-> Blank], display |-> first, sel |-> first,
      locked |-> {}]

Init ==
  /\ net = InitialNet /\ before = net /\ start = net
  /\ mode \in Modes
  /\ index = 0 /\ pc = "pick" /\ op = NoOp /\ script = <<>> /\ nodes = {}
  /\ stack = <<>> /\ mark = 0 /\ floor = 0 /\ heeded = TRUE /\ ok = TRUE
  /\ checking = (mode = "dry")
  /\ problems = {} /\ failed = {} /\ row = "none" /\ reply = "none"
  /\ touched = {} /\ cooks = {}
  /\ lost = {} /\ refusals = 0

-----------------------------------------------------------------------------
(* The handlers: the steps each kind of op takes. *)

\* The display and render flags of the network come back to the node that has them now.
Keep == <<Step("keep", None, None, 0)>>

\* set_flags on a node of the network.
ShowSteps(n) == <<Step("show", n, None, 0)>>

\* One parm of a set op: captured, set, and its callback run when the caller presses it,
\* but in check mode, where a press runs nothing.
Press(n) == IF checking THEN <<>> ELSE <<Step("press", n, None, 0)>>
SetItem(n, a, v, press) ==
  <<Step("save", n, a, 0), Step("put", n, a, v)>> \o (IF press THEN Press(n) ELSE <<>>)

\* A new block_end is paired with its block_begin, another node, where that one has no
\* partner yet; the new node's own parms go with it.
PairSteps(w, begin) ==
  IF begin = None \/ w.attr[begin]["parm"] # 0 THEN <<>>
  ELSE <<Step("putback", begin, "parm", 1)>>

\* keep_display, createNode, destroy_later, then everything else on the new node, which
\* goes with it: parms, wires, flags, presses; last the pairing.
CreateScript(w, o) ==
  Keep \o <<Step("new", o.n, o.x, 0), Step("put", o.n, "parm", o.v)>>
  \o (IF o.m = None THEN <<>> ELSE <<Step("wire", o.n, o.m, 0)>>)
  \o (CASE o.opt = "show" -> ShowSteps(o.n)
        [] o.opt = "press" -> Press(o.n)
        [] o.opt = "pair" -> PairSteps(w, o.m)
        [] OTHER -> <<>>)

SetScript(o) ==
  SetItem(o.n, "parm", o.v, o.opt = "press")
  \o (IF o.opt = "two" THEN SetItem(o.n, "inner", o.v, FALSE) ELSE <<>>)

ConnectScript(o) == <<Step("wireback", o.n, o.m, 0)>>

\* Spare parms: the template group and the values it drops come back together.
SpareSteps(o) == <<Step("putback", o.n, "parm", o.v)>>

\* A comment also sets the flag that shows it, which nobody takes back.  Houdini may refuse
\* the flag, and that is passed over: then the op is one of opt "look".
CommentSteps(o) ==
  <<Step("putback", o.n, "look", o.v), Step("stray", o.n, "badge", o.v)>>

\* Rename, flags, appearance, spare parms, and the lock last: check mode leaves lock: true
\* out.
NodeScript(w, o) ==
  (IF o.x \in {None, w.name[o.n]} THEN <<>> ELSE <<Step("rename", o.n, o.x, 0)>>)
  \o (CASE o.opt = "show" -> Keep \o ShowSteps(o.n)
        [] o.opt = "look" -> <<Step("putback", o.n, "look", o.v)>>
        [] o.opt = "comment" -> CommentSteps(o)
        [] o.opt = "spare" -> SpareSteps(o)
        [] o.opt = "lock" /\ ~checking /\ o.n \notin w.locked -> <<Step("lock", o.n, None, 0)>>
        [] o.opt = "unlock" /\ o.n \in w.locked -> <<Step("unlock", o.n, None, 0)>>
        [] OTHER -> <<>>)

\* The outputs of a node move to what feeds it (keep_connections) or are cut; then it is
\* destroyed, or in check mode set aside, where each wire moved is compensated.
DeleteScript(w, n, keep) ==
  LET to == IF keep THEN w.src[n] ELSE None
  IN  IF checking
        THEN <<Step("rewireback", n, to, 0), Step("rename", n, Aside(n), 0)>>
        ELSE (IF keep /\ to = None THEN <<>> ELSE <<Step("rewire", n, to, 0)>>)
             \o <<Step("doom", n, None, 0), Step("destroy", n, None, 0)>>

\* A delete of two nodes looks at the second one when the first is gone.
DeletesScript(o) ==
  <<Step("delete", o.n, None, o.v)>>
  \o (IF o.m = None THEN <<>> ELSE <<Step("delete", o.m, None, o.v)>>)

CopyScript(o) ==
  <<Step("copy", o.m, o.n, 0)>>
  \o (IF o.x = None THEN <<>> ELSE <<Step("name", o.m, o.x, 0)>>)
  \o (IF o.opt = "cut" THEN <<Step("wire", o.m, None, 0)>> ELSE <<>>)

\* The positions of the nodes asked for are saved, or of all of them when none is named;
\* moveToGoodPosition may move a neighbour of the one it places.
LayoutScript(o) ==
  <<Step("savelooks", IF o.opt = "all" THEN None ELSE o.n, None, 0),
    Step("put", o.n, "look", o.v)>>
  \o (IF o.opt = "good" THEN <<Step("stray", o.m, "look", o.v)>> ELSE <<>>)

\* The network is made from the data and verified: every node, parm and wire is there.
FillSteps(o) == <<Step("fill", o.n, o.x, o.v), Step("verify", o.n, None, 0)>>

\* A build: what it replaces is renamed aside, the new network is made and verified, its
\* callbacks run, the outputs move over and the old node is deleted, but in check mode.
BuildScript(o) ==
  Keep \o (IF o.m = None THEN <<>> ELSE <<Step("rename", o.m, Aside(o.m), 0)>>)
  \o FillSteps(o) \o (IF o.opt = "press" THEN Press(o.n) ELSE <<>>)
  \o (IF o.m = None THEN <<>>
      ELSE <<Step("rewireback", o.m, o.n, 0)>>
           \o (IF checking THEN <<>>
               ELSE <<Step("doom", o.m, None, 0), Step("destroy", o.m, None, 0)>>))

\* A selection moves panes of the user's: check mode makes none.
SelectScript(o) ==
  IF checking THEN <<>> ELSE <<Step("savesel", None, None, 0), Step("select", o.n, None, 0)>>

Script(w, o) ==
  CASE o.kind = "create" -> CreateScript(w, o)
    [] o.kind = "set" -> SetScript(o)
    [] o.kind = "connect" -> ConnectScript(o)
    [] o.kind = "node" -> NodeScript(w, o)
    [] o.kind = "delete" -> DeletesScript(o)
    [] o.kind = "copy" -> CopyScript(o)
    [] o.kind = "layout" -> LayoutScript(o)
    [] o.kind = "build" -> BuildScript(o)
    [] OTHER -> SelectScript(o)

\* The nodes of the op's result, and whether the echo cooks them.
Touches(w, o) ==
  CASE o.kind \in {"layout", "select"} -> {}
    [] o.kind = "copy" -> {o.m}
    [] o.kind = "delete" ->
         IF o.v = 1 /\ w.src[o.n] # None THEN Consumers(w, o.n) \ {o.m} ELSE {}
    [] OTHER -> {o.n}
Cooks(o) == o.kind # "node"

-----------------------------------------------------------------------------
(* The ops a caller sends: those the handler's validation lets through.  A kind of op  *)
(* reads the fields it has.                                                            *)

Op(kind, n, m, x, v, opt) == [kind |-> kind, n |-> n, m |-> m, x |-> x, v |-> v, opt |-> opt]

CreateOps(w) ==
  {Op("create", n, m, x, v, opt) :
     n \in Node \ (Initial \cup w.alive), m \in w.alive \cup {None}, x \in Free(w),
     v \in {1}, opt \in {"none", "show", "press", "pair"}}
SetOps(w) ==
  {Op("set", n, None, None, 1, opt) : n \in w.alive, opt \in {"none", "press"}}
  \cup {Op("set", n, None, None, 1, "two") : n \in w.alive \cap Asset}
ConnectOps(w) ==
  {Op("connect", d, s, None, 0, "none") : d \in w.alive, s \in w.alive \cup {None}}
NodeOps(w) ==
  {Op("node", n, None, x, 1, opt) :
     n \in w.alive, x \in Free(w) \cup {None}, opt \in {"show", "look", "spare"}}
  \cup {Op("node", n, None, None, 1, "comment") : n \in w.alive}
  \cup {Op("node", n, None, None, 0, opt) : n \in w.alive \cap Asset, opt \in {"lock", "unlock"}}
DeleteOps(w) ==
  {Op("delete", n, m, None, keep, "none") :
     n \in w.alive, m \in w.alive \cup {None}, keep \in {0, 1}}
CopyOps(w) ==
  {Op("copy", n, m, x, 0, opt) :
     n \in w.alive, m \in Node \ (Initial \cup w.alive), x \in Free(w) \cup {None},
     opt \in {"none", "cut"}}
LayoutOps(w) ==
  {Op("layout", n, None, None, 1, opt) : n \in w.alive, opt \in {"all", "paths"}}
  \cup {Op("layout", n, m, None, 1, "good") : n \in w.alive, m \in w.alive}
BuildOps(w) ==
  {Op("build", n, m, w.name[m], 1, opt) :
     n \in Node \ (Initial \cup w.alive), m \in {k \in w.alive : w.name[k] \in Name},
     opt \in {"none", "press"}}
  \cup {Op("build", n, None, x, 1, opt) :
     n \in Node \ (Initial \cup w.alive), x \in Free(w), opt \in {"none", "press"}}
SelectOps(w) == {Op("select", n, None, None, 0, "none") : n \in w.alive}

Ops(w) ==
  LET of(kind) ==
        CASE kind = "create" -> CreateOps(w) [] kind = "set" -> SetOps(w)
          [] kind = "connect" -> ConnectOps(w) [] kind = "node" -> NodeOps(w)
          [] kind = "delete" -> {o \in DeleteOps(w) : o.n # o.m}
          [] kind = "copy" -> CopyOps(w) [] kind = "layout" -> LayoutOps(w)
          [] kind = "build" -> BuildOps(w) [] OTHER -> SelectOps(w)
      sent == CASE mode = "create" -> {"create"} [] mode = "parms" -> {"set"} [] OTHER -> Kinds
  IN  UNION {of(kind) : kind \in sent \cap Kinds}

-----------------------------------------------------------------------------
(* Steps and their compensation. *)

\* Houdini refuses a wire that closes a loop and an edit inside a locked asset.
CanStep(w, s) ==
  /\ s.k \in {"wire", "wireback"} => CanWire(w, s.n, s.m)
  /\ s.k = "put" /\ s.m = "inner" => s.n \notin w.locked

Rewired(w, n, to) ==
  [w EXCEPT !.src = [d \in Node |-> IF d \in Consumers(w, n) THEN to ELSE w.src[d]]]

Effect(w, s) ==
  CASE s.k = "new" -> Created(w, s.n, s.m)
    [] s.k = "fill" -> Valued(Created(w, s.n, s.m), s.n, "parm", s.v)
    [] s.k = "copy" -> [Created(w, s.n, Aside(s.n)) EXCEPT
                          !.attr[s.n] = w.attr[s.m], !.src[s.n] = w.src[s.m],
                          !.locked = IF s.m \in w.locked THEN @ \cup {s.n} ELSE @]
    [] s.k \in {"put", "putback", "stray"} -> Valued(w, s.n, s.m, s.v)
    [] s.k \in {"wire", "wireback"} -> Wired(w, s.n, s.m)
    [] s.k \in {"rewire", "rewireback"} -> Rewired(w, s.n, s.m)
    [] s.k \in {"rename", "name"} -> Named(w, s.n, s.m)
    [] s.k = "show" -> Shown(w, s.n)
    [] s.k = "select" -> Selected(w, s.n)
    [] s.k = "lock" -> Matched(w, s.n)
    [] s.k = "unlock" -> Unlocked(w, s.n)
    [] s.k = "destroy" -> Destroyed(w, s.n)
    [] OTHER -> w

\* The value of a parm, its keys or its expression, to be put back; a wire's old source.
Snapshot(w, n, a) == <<Step("put", n, a, w.attr[n][a])>>
WireBack(w, d) == <<Step("wire", d, w.src[d], 0)>>
\* Mutant: only the new node's own flag is taken back.
KeepNothing(w) == <<>>

KeepDisplay(w) == IF w.display = None THEN <<>> ELSE <<Step("show", w.display, None, 0)>>
\* Mutant: the handler forgets to register the new node.
DestroyNever(n) == <<>>

DestroyLater(n) == <<Step("destroylater", n, None, 0)>>

\* What the step adds to the rollback: a captured value, the way back, or that there is
\* none.
Compensation(w, s) ==
  CASE s.k = "keep" -> KeepDisplay(w)
    [] s.k \in {"new", "copy"} -> DestroyLater(s.n)
    [] s.k = "fill" -> <<Step("destroy", s.n, None, 0)>>
    [] s.k \in {"save", "putback"} -> Snapshot(w, s.n, s.m)
    [] s.k = "savelooks" ->
         LET saved == IF s.n = None THEN w.alive ELSE {s.n}
         IN  <<Step("looks", None, None, [n \in saved |-> w.attr[n]["look"]])>>
    [] s.k = "wireback" -> WireBack(w, s.n)
    [] s.k = "rewireback" -> <<Step("feed", s.n, None, Consumers(w, s.n))>>
    [] s.k = "rename" -> <<Step("name", s.n, w.name[s.n], 0)>>
    [] s.k = "savesel" -> <<Step("select", w.sel, None, 0)>>
    [] s.k = "lock" -> <<Step("unlock", s.n, None, 0)>>
    [] s.k = "unlock" -> <<Step("lock", s.n, None, 0)>>
    [] s.k = "doom" -> <<Step("fail", None, None, 0)>>
    [] OTHER -> <<>>

\* What no compensation brings back: a callback's effects, the edits a lock discards, the
\* flag that shows a comment and the place of a neighbour that moved.
Losses(w, s) ==
  CASE s.k = "press" -> {"press"}
    [] s.k = "lock" /\ w.attr[s.n]["inner"] # 0 -> {"lock"}
    [] s.k = "stray" /\ w.attr[s.n][s.m] # s.v -> {IF s.m = "badge" THEN "comment" ELSE "moved"}
    [] OTHER -> {}

\* A compensating action raises when its node is gone, where none exists, where another node has
\* the name by now, in a locked asset and for a wire that would close a loop.
CanUndo(w, e) ==
  CASE e.k = "fail" -> FALSE
    [] e.k \in {"destroylater", "select"} -> TRUE
    [] e.k = "looks" -> DOMAIN e.v \subseteq w.alive
    [] e.k = "feed" -> e.n \in w.alive /\ e.v \subseteq w.alive /\ CanFeed(w, e.v, e.n)
    [] e.k = "put" -> e.n \in w.alive /\ (e.m = "inner" => e.n \notin w.locked)
    [] e.k = "wire" -> e.n \in w.alive /\ e.m \in w.alive \cup {None} /\ CanWire(w, e.n, e.m)
    [] e.k = "name" -> e.n \in w.alive /\ \A m \in w.alive \ {e.n} : w.name[m] # e.m
    [] OTHER -> e.n \in w.alive

Undone(w, e) ==
  CASE e.k \in {"destroylater", "destroy"} -> IF e.n \in w.alive THEN Destroyed(w, e.n) ELSE w
    [] e.k = "looks" ->
         [w EXCEPT !.attr = [n \in Node |-> IF n \in DOMAIN e.v
                                            THEN [w.attr[n] EXCEPT !["look"] = e.v[n]]
                                            ELSE w.attr[n]]]
    [] e.k = "feed" -> [w EXCEPT !.src = [d \in Node |-> IF d \in e.v THEN e.n ELSE w.src[d]]]
    [] e.k = "select" -> Selected(w, IF e.n \in w.alive THEN e.n ELSE None)
    [] OTHER -> Effect(w, e)

-----------------------------------------------------------------------------
(* execute(): the ops in order. *)

\* The next op: its $ids resolve and its arguments are valid.
BeginOp(o) ==
  /\ pc = "pick" /\ index < MaxOps
  /\ o \in Ops(net)
  /\ pc' = "step" /\ op' = o /\ script' = Script(net, o) /\ nodes' = Touches(net, o)
  /\ mark' = Len(stack) /\ start' = net /\ row' = "none"
  /\ UNCHANGED <<net, checking, mode, index, stack, floor, heeded, ok, problems, failed,
                 reply, touched, cooks, before, lost, refusals>>

\* An op whose handler raises before it changes anything, or one that refers to an id
\* without a node, where its problem is its own.
BeginBadOp(ref) ==
  /\ pc = "pick" /\ index < MaxOps
  /\ Collect => ref \notin failed
  /\ pc' = "step" /\ op' = NoOp /\ script' = <<Step("bad", None, None, 0)>> /\ nodes' = {}
  /\ mark' = Len(stack) /\ start' = net /\ row' = "none"
  /\ UNCHANGED <<net, checking, mode, index, stack, floor, heeded, ok, problems, failed,
                 reply, touched, cooks, before, lost, refusals>>

\* edit: an op that refers to one that failed is not tried; the cause is reported once.
SkipOp ==
  /\ pc = "pick" /\ index < MaxOps
  /\ Collect /\ failed # {}
  /\ index' = index + 1 /\ failed' = failed \cup {index + 1} /\ row' = "none"
  /\ UNCHANGED <<net, pc, checking, mode, op, script, nodes, rollback, problems, reply,
                 touched, cooks, ghosts>>

\* One delete op of several nodes comes to the next of them.
NextDelete ==
  /\ pc = "step" /\ script # <<>> /\ Head(script).k = "delete"
  /\ Head(script).n \in net.alive
  /\ script' = DeleteScript(net, Head(script).n, Head(script).v = 1) \o Tail(script)
  /\ UNCHANGED <<net, pc, checking, mode, index, op, nodes, rollback, outcome, ghosts>>

RunStep ==
  /\ pc = "step" /\ script # <<>> /\ Head(script).k \notin {"delete", "bad"}
  /\ CanStep(net, Head(script))
  /\ net' = Effect(net, Head(script))
  /\ stack' = stack \o Compensation(net, Head(script))
  /\ lost' = lost \cup Losses(net, Head(script))
  /\ script' = Tail(script)
  /\ UNCHANGED <<pc, checking, mode, index, op, nodes, mark, floor, heeded, ok, outcome,
                 before, start, refusals>>

EndOp ==
  /\ pc = "step" /\ script = <<>>
  /\ index' = index + 1 /\ pc' = "pick"
  /\ touched' = touched \cup nodes
  /\ cooks' = IF Cooks(op) THEN cooks \cup nodes ELSE cooks
  /\ UNCHANGED <<net, checking, mode, op, script, nodes, rollback, problems, failed, row,
                 reply, ghosts>>

\* The handler raises.  A build takes back what it did itself when Houdini cannot make or
\* verify the network or a callback fails, and nobody reads whether that worked.
Quietly == op.kind = "build" /\ script # <<>> /\ Head(script).k \in {"fill", "verify", "press"}

\* Mutant: a partial plan goes back to its start.
BackToStart == 0

\* How far an op that failed is taken back: edit and partial only the op, else all of it.
Back == IF Collect \/ Partial \/ Quietly THEN mark ELSE 0

\* A delete catches what its rewiring raises: nothing comes between it and cannot_undo.  A
\* refused comment flag is caught too.
Caught ==
  /\ script # <<>>
  /\ Head(script).k \in {"rewire", "doom"} \/ Head(script).m = "badge"

Raise ==
  /\ pc = "step" /\ ~Caught
  /\ pc' = "undo" /\ floor' = Back /\ heeded' = (~Quietly /\ ~Collect) /\ ok' = TRUE
  /\ script' = <<>>
  /\ UNCHANGED <<net, checking, mode, index, op, nodes, stack, mark, outcome, ghosts>>

\* parm_set: what is no ToolError ends the call at once, without compensation.
RaiseOther ==
  /\ pc = "step" /\ mode = "parms" /\ ~Caught
  /\ pc' = "raised" /\ reply' = "absent" /\ script' = <<>>
  /\ UNCHANGED <<net, checking, mode, index, op, nodes, rollback, problems, failed, row,
                 touched, cooks, ghosts>>

-----------------------------------------------------------------------------
(* Rollback.run, and what execute() makes of it. *)

Compensate ==
  /\ pc \in {"undo", "undoall"} /\ Len(stack) > floor
  /\ stack' = SubSeq(stack, 1, Len(stack) - 1)
  /\ LET e == stack[Len(stack)] IN
     \/ CanUndo(net, e) /\ net' = Undone(net, e) /\ UNCHANGED <<ok, lost, refusals>>
     \/ /\ CanUndo(net, e) => refusals < MaxRefusals
        /\ refusals' = IF CanUndo(net, e) THEN refusals + 1 ELSE refusals
        /\ ok' = FALSE
        /\ lost' = IF heeded THEN lost ELSE lost \cup {"revert"}
        /\ UNCHANGED net
  /\ UNCHANGED <<pc, checking, mode, plan, mark, floor, heeded, outcome, before, start>>

Undid == pc = "undo" /\ Len(stack) <= floor

Told(b) == IF b THEN "true" ELSE IF Deferred THEN "null" ELSE "false"

\* The failed op of a partial plan gets a row; "stop" ends the plan there.  A build that
\* took itself back leaves nothing for the rollback of the op to fail on.
PartialError ==
  /\ Undid /\ Partial
  /\ row' = IF ok \/ ~heeded THEN "true" ELSE "false"
  /\ failed' = failed \cup {index + 1} /\ index' = index + 1
  /\ pc' = IF mode = "stop" THEN "end" ELSE "pick"
  /\ UNCHANGED <<net, checking, mode, op, script, nodes, rollback, problems, reply, touched,
                 cooks, ghosts>>

\* edit: the problem is kept and the rest runs in check mode.
CollectError ==
  /\ Undid /\ Collect
  /\ problems' = problems \cup {index + 1} /\ checking' = TRUE
  /\ failed' = failed \cup {index + 1} /\ index' = index + 1
  /\ pc' = "pick"
  /\ UNCHANGED <<net, mode, op, script, nodes, rollback, row, reply, touched, cooks, ghosts>>

\* The tools without partial: the first failing op takes the call back.
BatchError ==
  /\ Undid /\ ~Partial /\ ~Collect
  /\ reply' = Told(ok) /\ pc' = "raised"
  /\ UNCHANGED <<net, checking, mode, plan, rollback, problems, failed, row, touched, cooks,
                 ghosts>>

\* The ops are done: collected problems and a dry run take the plan back.
EndPlan ==
  /\ pc = "end" \/ (pc = "pick" /\ index > 0)
  /\ IF problems # {} \/ mode = "dry"
       THEN pc' = "undoall" /\ reply' = reply
       ELSE pc' = "answered" /\ reply' = "done"
  /\ floor' = 0 /\ heeded' = TRUE /\ ok' = TRUE
  /\ UNCHANGED <<net, checking, mode, plan, stack, mark, problems, failed, row, touched,
                 cooks, ghosts>>

CombinedError ==
  /\ pc = "undoall" /\ stack = <<>>
  /\ problems # {}
  /\ reply' = Told(ok) /\ pc' = "raised"
  /\ UNCHANGED <<net, checking, mode, plan, rollback, problems, failed, row, touched, cooks,
                 ghosts>>

DryRun ==
  /\ pc = "undoall" /\ stack = <<>>
  /\ problems = {}
  /\ IF ok THEN reply' = "plan" /\ pc' = "answered"
           ELSE reply' = "absent" /\ pc' = "raised"
  /\ UNCHANGED <<net, checking, mode, plan, rollback, problems, failed, row, touched, cooks,
                 ghosts>>

\* The dispatcher's undo group around the call: it undoes what it recorded, unless undo is
\* off or Houdini refuses, and fills in what the error left open.  A dry run records
\* nothing: there is nothing to undo.
Filled(back) == IF reply = "null" THEN (IF back THEN "true" ELSE "false") ELSE reply

UndoGroup(back) ==
  /\ pc = "raised"
  /\ net' = IF back /\ mode # "dry" THEN before ELSE net
  /\ reply' = Filled(back) /\ pc' = "answered"
  /\ UNCHANGED <<checking, mode, plan, rollback, problems, failed, row, touched, cooks,
                 ghosts>>

Next ==
  \/ \E o \in Ops(net) : BeginOp(o)
  \/ \E ref \in {0} \cup failed : BeginBadOp(ref)
  \/ SkipOp \/ NextDelete \/ RunStep \/ EndOp \/ Raise \/ RaiseOther
  \/ Compensate \/ PartialError \/ CollectError \/ BatchError
  \/ EndPlan \/ CombinedError \/ DryRun
  \/ \E back \in BOOLEAN : UndoGroup(back)

Spec == Init /\ [][Next]_vars

-----------------------------------------------------------------------------
(* Properties *)

Reports == {"none", "done", "plan", "absent", "true", "false", "null"}

\* Every variable keeps its type.
TypeOK ==
  /\ {net, before, start} \subseteq Networks
  /\ mode \in Modes /\ checking \in BOOLEAN
  /\ index \in 0 .. MaxOps
  /\ pc \in {"pick", "step", "undo", "end", "undoall", "raised", "answered"}
  /\ op.kind \in OpKinds \cup {"none"}
  /\ {mark, floor} \subseteq Nat /\ heeded \in BOOLEAN /\ ok \in BOOLEAN
  /\ problems \subseteq 1 .. MaxOps /\ failed \subseteq 1 .. MaxOps
  /\ row \in {"none", "true", "false"} /\ reply \in Reports
  /\ nodes \subseteq Node /\ touched \subseteq Node /\ cooks \subseteq Node
  /\ lost \subseteq {"press", "lock", "comment", "moved", "revert"} /\ refusals \in 0 .. MaxRefusals

\* A failing call that says rolled_back: true left the network as it found it, whatever
\* its ops did and whichever of them failed where: but for a callback it ran, edits that
\* locking an asset discarded, the flag of a comment (tx.py:1052), neighbours that a
\* good_position moved, a rollback of one op whose result nobody reads, and a dry run
\* Houdini would not take back (tx.py, execute and Rollback).
RolledBackMeansBack ==
  pc = "answered" /\ reply = "true" /\ lost = {} /\ (mode = "dry" => refusals = 0)
    => net = before

\* With partial, an op whose row says rolled_back: true left the network as the ops before
\* it left it: the rollback to the op's mark takes back all of the op and nothing else.
RowMeansReverted == pc \in {"pick", "end"} /\ row = "true" /\ lost = {} => net = start

\* A dry run that answers with a plan ran no callback and discarded no edit, and it left the
\* network as before, also when its last ops reuse names its deletes freed: but for the flag
\* of a comment and the neighbours that a good_position moved.
DryRunLeavesNothing ==
  reply = "plan" => lost \subseteq {"comment", "moved"} /\ (lost = {} => net = before)

\* In check mode (a dry run, and edit after the first problem) nothing runs that
\* compensation cannot take back: no node from before the call is destroyed, no callback
\* runs, no lock discards edits.
CheckModeTakesNothing ==
  [][checking => /\ before.alive \cap net.alive \subseteq net'.alive
                 /\ lost' \subseteq lost \cup {"revert", "comment", "moved"}]_vars
=============================================================================
