# HocusPocus in TLA+

HocusPocus lets an agent drive Houdini: an MCP client talks to a **bridge**
(`src/src/hocuspocus/bridge`), which sends each tool call over loopback HTTP to
a **host** inside a running Houdini (`src/src/hocuspocus/host`). Houdini's Python
API may be used on its main thread only, so everything the host does is squeezed
through one thread while HTTP handlers, jobs and pollers run on others; and the
bridge keeps talking about Houdinis that stall, exit and come back. These modules
model that machinery: the hand-over to the main thread, the calls and their jobs,
what a call does to the scene and how it is taken back, what a reader hears of it,
the registry, routing and launch of several Houdinis, and the smaller parts around
them. `PROJECT.json` lists components, runs, the code each definition stands for,
hazards and theorems.

    tlc -config Executor.cfg Executor.tla      model-check a component
    tlapm ExecutorProofs.tla                   check its proofs

## Inventory

Paths are under `src/src/hocuspocus/`. M: modelled, P: partly, -: not.

| | part | module | state it keeps | what is hard | what makes it right |
|-|------|--------|----------------|--------------|---------------------|
| M | main-thread executor `host/executor.py` | `Executor` | queue, `_Work` state and event, `_running`, `_draining` | a wait that times out as the work starts, finishes or is dropped; nested event loops; interrupts | a call takes effect at most once, alone; what its caller is told is true |
| P | dispatcher `host/dispatch.py`, edit cooks `host/tools/edit.py` | `Calls` | the request, its work, cook job, rows, hand-off | a press that never returns; rows that move from a result to a job | each row arrives once; each call is answered |
| P | jobs `host/jobs.py` and the waits on them | `Jobs` | registry, state, result, error, two events per job | fields read one by one while the runner writes them; eviction; cancel | an answer is how the job ended; a held id reaches its job |
| P | edit transactions `host/tx.py` | `Network`, `Transactions` | plan, compensation stack, modes | a step or a compensation that Houdini refuses | `rolled_back: true` is true |
| P | undo, dirty flag `host/undo.py`, `tools/state.py`, `registry.py`, `hip.py` | `Scene` | labels, remembered redo stacks, dirty sources | labels are not identities; user and agent share one stack | a failed call is never redone; unsaved work counts as dirty |
| P | events ring `host/tools/events.py` | `Events` | ring, held batch, watched nodes, cursor | a batch published or discarded among other events | a page skips nothing; what was undone is not told |
| P | render, ranged cook, profile `tools/visual.py`, `cook.py` | `Renders` | overrides, playhead, posted restores | others act between the steps; a step outlasts its wait | what is borrowed is given back |
| P | look `host/look/`, `tools/look.py` | `Captures` | kept child, chain of renderers, snapshot | crashes, timeouts, a kept child's leftovers | the picture is of the scene asked; no child left |
| P | PDG `tools/pdg.py` | `PdgCooks` | graph, work items, polling job | starts late, items of an older cook, four ways to cancel | done is cooked; the end is told once |
| P | chained cooks `tools/cook.py` | `Chains` | order of inputs, what was cooked | the network changes between steps | rows are of files as they are |
| P | registry files `host/registry.py`, `bridge/instances.py`; routing, client, local tools, launch | `Fleet` | one file per pid, pins, verified, ledger roles | pids and ports come back; stale entries; unknown delivery | a call runs at most once |
| P | subscriptions `bridge/resources.py` | `Subscriptions` | remembered ETags, subscribers, gate, tick | three threads, three steps per ETag, outages | no change missed, each notified in time |
| M | ledger jobs `bridge/ledger.py` | `LedgerJobs` | SQLite rows, spill files | snapshots out of order; three steps to store; kills | no end invented; kept results readable |
| P | budget `bridge/budget.py` | `Budget` | page, cursor | two cuts of one page | no row skipped |
| P | listings `nodes.py`, `network.py`, `cook.py` | `Pages` | cursor over a changing scene | rows come and go between pages | what stays comes once |
| P | type index `tools/types.py` | `TypeIndex` | rows, dirty mark | libraries with and without an event | searches find what there is |
| M | arguments `bridge/validate.py` | `Arguments` | none: pure | integral floats, unions, hints | host and schema agree |
| M | settings `host/config.py`, `bridge/config.py` | `Settings` | file, environment | two processes, two converters | both run the same setting |
| P | digital assets `tools/hda.py` | `Assets` | libraries, instances | edits that are nowhere else; failures after a write | no edit is lost unasked |
| P | parm interfaces `tools/spare.py` | `Spares` | template group, values | planned before applied | the plan is what happens |
| P | parm values `tools/parms.py` | `ParmValues` | value, keys, text | conversions per kind; patches | set is what was meant |
| P | network builds `tools/network.py` | `Builds` | children, names, wires | clashes, renames, replaced nodes | data is built, the rest kept |
| P | package installer `cli.py` | `Installs` | package JSON, copies, record | kills between steps; files in use | what points points to a whole |
| P | startup watch `bridge/launch.py`, `startup.py`, `host/__init__.py` | `Startup` | record per pid, dialogs | looks one after the other | the verdict is so |
| P | runtime `host/runtime.py`, `server.py`, `__main__.py` | `Lifecycle` | parts that are up, entry, shutdown event | parts that fail; a quit after its check | whole or clean; unsaved work is kept |
| M | modal stubs `host/modal.py` | `Dialogs` | depth, originals, refusals | nesting; swallowed refusals | the user's dialogs come back |
| - | host resources, licence texts, readers, Python and time tools, catalogue | | | reads and text | input and output |

How they interact. An HTTP thread calls the dispatcher, which calls
`executor.run`; the main thread executes the callable inside the work wrappers
(dirty-flag sampling, held events, modal stubs, undo group). A tool may start a job, whose
thread calls the executor for each step, and wait for it up to a threshold before it
answers with the id. The bridge runs each tool call on a worker thread; the same call, a
progress poll and a `job` read write the ledger. The subscription poller reads the host's
heartbeat and resources through the same routing. Houdini's own callbacks (idle,
hip file, node events) come in on the main thread. `Host.stop` cancels jobs, then stops the executor.

The modules meet at these interfaces: `Calls`, `Renders`, `PdgCooks`, `Chains` and `Lifecycle`
take an executor's step as `Executor` promises it (runs whole, or is refused, or outlasts its
wait); `Transactions` ends in the `rolled_back` that `Scene` and `Events` start from;
`Fleet` sees a host as `Lifecycle` shows it (listens, then registers). `MCRollback`, `MCHostJobs`,
`MCSession` and `MCParts` put machines that share no state side by side.

## Modules, state and actions

**Executor** - one element of `Works` per callable handed over. Variables are
`_Work`'s fields (`state`, `done`, `outcome`, `longStep`), the executor's (`running`, `queue`,
`draining`) and program counters: `pc` of each caller, `main` of the main thread with
the stack of callables `executing`. A caller checks `_running` and puts in two
steps, waits, times out, withdraws under the lock, adopts a long step. The main
thread is Houdini's idle callback (GUI) or `pump_forever` (headless); a callable may
open a nested event loop, be interrupted, or stop the host. `stop()` is three steps. A wait
may time out whenever its event is not set; times themselves are not modelled.

**CallOnce** - the promise: an effect per call, at most once and alone; a result only
after the effect, "no effect" only without one, "unknown" otherwise. `Executor`
implements it (`ImplementsCallOnce`) with `effect` and `answer` read off `state` and `reply`.

**Calls** - request threads, the main thread and cook jobs of edits, presses and deletes. An
edit's targets are cooked by a job in slices; `HandOff` is the lock after which rows are the
job's to report; `Adopt` gives a call in a long press to a job that follows it and runs the
after-step too. The main thread may hold on to one item for ever.

**Jobs** - for each job its runner, the call that started it, a canceller and a
reader, and `Host.stop`. Each plain attribute is a step of its own. `Register` with
`_evict` is one step because the registry's lock makes it one. `MCJobs` adds the symmetry.

**Network, Transactions** - `Network` is one Houdini network with the calls of `hou` that
`tx.py` makes: names, wires with splicing deletes, parms, flags, selection, locks. In
`Transactions` an op's handler is a *script* of steps, each with the compensation it
registers; Houdini may refuse any step (`CanStep`: a name that is taken, a wire that closes a loop, an
edit inside a locked asset), and any of them for reasons of its own, as up to `MaxRefusals`
compensations. `execute()` is `BeginOp`, `RunStep`, `EndOp`, `Raise`, `Compensate`, ... under the modes edit, partial,
stop, dry run, create and parms. `lost` collects what the code knowingly cannot take back.
`CanUndo` is where Houdini refuses a compensation because of the network it meets. The flag that
shows a comment (`CommentSteps`) and the neighbours that `moveToGoodPosition` moves are steps without a
compensation, as in the code. The panes that `select` takes into another network are the user's view and not modelled.

**Scene** - a change is a number, the scene the set of changes in it; a step on
Houdini's stacks has a label and its changes. A call begins (work wrapper, stack sampled), changes the scene
inside or outside its group, then succeeds or fails: `Fail` is `RollBack` or `LeaveIt`.
The undo tool takes one step at a time. `failed` on a step and the variable `leak` are
history: `leak` becomes true when the scene changes in one of the ways nobody marks. The
20 remembered redo stacks are abstracted: any of the older ones may be forgotten. `hip_open`
is `hip_new` here; `hip_merge` a change. Calls run one at a time between which the
user acts, as `OneAtATime` of `Executor` says.

**Events** - `ring` is the set of the sequence numbers of `log` that are still in the buffer, which
its numbers order; a call's events go to `batch` and are published or discarded at its end. The scene is nodes under a manager and one child in each;
they are watched when a tool reads them, or later by a posted call. A reader keeps
`<pid>:<seq>`; `Restart` gives it another Houdini. `stale` counts dead nodes that keep their place
under `WATCH_CAP`, as their end was not heard. `undone`, `lost` and `deaf` are history: what a rollback
took back, what stayed though its events went, what changed while no hook was heard.

**Subscriptions** - `phase` and `base` per client and resource; `_etags`, `_gate`, `_ticks`;
the poll as a program: tick, heartbeat, look, fetch, record, notify. `lag` and `parted` are
history variables for the properties. ETags are version numbers.

**LedgerJobs** - `row`, `id`, `age`, `kept` are columns of a job's row, `files` the spill
files; a reader fetches a snapshot, then records it, looks up, spills, writes and presents
in steps other threads come between. `RecordJob` unlinks the spill files of what it prunes before its COMMIT, so a
kill, or a failing write, between the two leaves rows without their files (`Halfway`, `LoseFiles`). Houdini
may exit and the bridge restart at any step. A COMMIT that fails by itself is not modelled, and writing a file is one
step, which may be cut short.

**Fleet** - processes and hosts are numbered as they start; `os` says what runs under a pid,
`file` which host's entry is on the disk, `verified`, `pin`, `last`, `prev` what the bridge
remembers, `row` the ledger's instances. A call is routed, verified, sent, run and answered in steps;
`houdini_connect` in all its forms is `loc`, also of a pid that no scan has looked at. Hosts crash, stop, start again, take a used
pid or port. `MCFleet` adds the symmetry.

**Renders, Captures, PdgCooks, Chains** (together in `MCHostJobs`) - long jobs. `Renders`: a render that
overrides a ROP's parm, a ranged cook and a profile that move the playbar, two at a time, with a
user who edits, scrubs and deletes, steps that outlast their wait, and posted restores. A frame is set before its
node is looked for, so a cook whose node is gone leaves the playbar there (`SetFrame(j, FALSE)`).
`Captures`: looks of each kind on their threads, the kept child with its key, uses and lock, cold
children, crashes and kills, the chain's next renderer. `PdgCooks`: graph, job, cancels. `Chains`: `cook`
with force, plain, chained or profiled, on a net with a Switch or loop, references and files.

In `MCHostJobs` the renders and the looks are extended and the others are instances; each
moves alone, from all its initial states.

**MCParts** composes nine small machines: **Budget** (a page cut twice), **Pages** (a walk over a
listing that changes), **TypeIndex**, **Arguments** (schemas and values as records of their
keywords), **Settings**, **Assets**, **Spares**, **ParmValues** and **Builds**; the header of each says what
stands for what.

**Installs, Startup, Lifecycle, Dialogs** - what a user's Houdini goes through: the package, the
start, the host's life, the dialogs while calls run. In `Startup` the record may fail to be written, or be written
where the wait does not look. In `Lifecycle` the registry entry may outlive its host, be written back by a bridge
or be forgotten by it (`Removed`, `BridgeNames`, `BridgeForgets`), and the host's own dirty flag is a variable apart from whether there
are unsaved changes: it is what a quit asks. **Session** puts them together for the run
(`MCSession`) and for the proofs: its specification is the conjunction of theirs, and its two
properties are conjunctions over them.

## Runs

| run | bounds | shows |
|-----|--------|-------|
| `executor` | 2 calls, both backends, started once | `ReplyIsOutcome`, `EveryCallReturns`, `QueuedIsServed`; implements `CallOnce` |
| `calls` | 1 edit or press, 1 delete, 2 nodes | each cooked row arrives once, in the call or its job; "cooking" has a job; every call is answered, a followed one ends |
| `jobs` | 1 job of each tool in turn, 2 steps, cancel, reader, stop | answers and statuses are true, every call is answered, cancel and stop end the job |
| `jobs_evict` | 3 jobs, a registry of 1 | a running job and a handed-out id stay found |
| `rollback` | 3 changes, 2 labels, every tool, user, GUI or not, undo on or off; 2 ops of 9 kinds, 6 modes, 2 nodes and 1 new, 1 refused compensation | unsaved is dirty but for `leak`; failed calls are not redone; a reported rollback of call, row or dry run is one |
| `events` | 1 node with a child, ring 3, page 2, 4 changes, 1 call | no event skipped, nothing undone told, the events tell the scene |
| `subscriptions` | 2 clients (one leaves), 2 resources, 1 change, 1 outage, fallback 2 | no change missed of a resource nobody left, notified by the fallback |
| `ledger_jobs` | 2 jobs, a call, a poll, 1 row kept, 2 ids | no end invented, kept results readable, ids of running jobs resolve |
| `fleet` | 2 processes, hosts, pids and ports, 1 call, 1 connect, 2 stale retries | a call runs at most once, "not sent" never ran, a launch does not take the user's Houdini, roles are own |
| `host_jobs` | 2 jobs or looks, 2 frames, 2 acts of the user, 1 late step, 2 uses of a kept child | what a job borrows is back, pictures are of their scene, no child left, done is real |
| `session` | 2 pref dirs, versions, dialogs, hosts, requests and calls, 3 commands, 5 ticks | an install is found, a launch's verdict is true, Houdini stays its user's |
| `parts` | see `Parts.cfg` | reads are true, bridge and host agree, edits are as meant |

`rollback`, `host_jobs`, `session` and `parts` check machines that share nothing: `part` says which one
moves, from all its initial states, while the others stay in one. In the last two
a property names one conjunct per machine, so a violation tells where. Each conjunct is stated and commented in the machine's own module.

Why the bounds are enough. Two calls are what one needs to overtake, overlap or be
nested in another; each caller meets the main thread alone. In `Jobs` jobs share only
the registry and the sweep of `cancel_all`, so one job covers the races of its
threads and three in a registry of one cover eviction. Two ops give every pair of a failing op
and one before or after it, and two deletes that free and reuse names; one refused compensation
gives a partial rollback. A poll looks at one resource at a
time, so two resources give an order and two clients a baseline next to a subscriber; the lag
needs one change. Pruning needs one row more than is kept. Three changes make a stack with a
user's, an older call's and the failing call's step. A ring of three and a page of two
make dropped events, full pages and batches longer than a page. In `Fleet` one pid must come back
and two Houdinis must compete: two of each. Two jobs overlap, two frames give a step
between others, four asset bodies are one more than an asset, a version and an instance hold.
Where a theorem states the property
the bounds matter no more. Deadlock is not checked where the system stops: when Houdini exits, all
calls are answered, or the bounded changes are used up.

## Fairness

`Executor` (`FairSpec`): callers' threads are scheduled and their waits expire; the
event loop ticks; a tick drains at least one callable before its budget (strong
fairness on `Execute`, since the drain ends in between); a callable ends (the body of a
tool: the code has no other assumption); `stop()` goes on. `Jobs` (`LiveSpec`): threads are
scheduled; the callback of a press and a look end, the latter by its own timeout; a
cook, a render or a PDG graph need **not** end unless cancelled or refused
by a stopped executor, so `EveryCallIsAnswered` is about waits that expire, and `JobsEnd`
about jobs that are cancelled or whose executor stops. `Calls`: the threads of
requests and jobs go on and their waits expire; the main thread takes the next item when it is
idle, and owes nothing else - a press, a cook or a Houdini dialog may hold it for ever. So
`EveryCallIsAnswered` holds whatever the main thread does, and `FollowedEnds` is conditional on
`[]<>(main = Idle)`. Nobody is assumed to call, cancel, stop, edit or quit. All other modules
state safety only; `NotifiedInTime` counts polls instead of assuming them.

## What is proved

All theorems hold for every value of the constants under the named assumption of each module
(`ExecutorAssumption`, ...: finite sets where a cardinality is taken, naturals, positive capacities,
disjoint roles, "none" distinct from what there is), none of which restricts the code. Each
theorem follows from one inductive invariant of its module: it holds initially, each action keeps it
(one step, or one lemma, per action), and it implies the property.

- `ExecutorProofs`: type, `Serialised`, `NoEffectIsTrue`, `OutcomeIsTrue`, `StartedIsTrue`, and
  `Refinement`. The inductive invariant says what each `pc` and `main` imply of a work's
  fields (`CallerInv`, `MainInv`) and which answers go with which states
  (`Answers`): "not started" is true for ever only because a withdrawn work is
  `cancelled` under the lock, and the executing set only grows when it is empty.
- `JobsProofs`: type, eviction, `JobsAreFound` (ids that were handed out), truth of answers, statuses and
  refusals, `FinalStays`. `RunnerInv` ties the runner's place to the fields written so
  far, `RegistryInv` the order of birth to what eviction may take, `ReadInv` a reader's partial
  status to the state it read first.
- `JobsProofs`, on `Captures`: type, `ChildrenAreUsed` (no child left), `PicturesAreTrue`. `ChildInv`: who
  holds the kept child's lock, that a look which waits has a child of its own, and that every other child
  that lives is somebody's; it needs a pid for a new child that is nobody's, which there always is because
  each look has one child at most (`NewPidIsNew`, by counting). `ChainInv`: a look's place in its chain, and
  that what it passed over is guilty. `SceneInv`: what a child has read is no older than the key it was
  started with, and a child at work has a key as new as its look's snapshot; with that a kept child
  which is `Usable` draws the asset library of then.
- `JobsProofs`, on `Renders`: type, `BorrowedIsGivenBack`, `RendersAreWritten`. Unless `spoilt`, the parm is the
  user's or that of the one render that *owes* putting it back (`ParmInv`): it is at work, or its restore
  outlasts its wait, or was posted. An override that outlasts its wait owns the parm before its job knows
  that it saved anything. Unless `strayed`, every cook that owes would put the playbar where the user has it,
  and only one does (`FrameInv`, `Home`). `StepsFit` says which steps may be late or posted: else a late
  frame could move the playbar of a job that is over. (`Captures` and `Renders` say `CapturesInit`,
  `RendersInit` and so on because this module and `MCHostJobs` extend both.)
- `SubscriptionsProofs`: type, `NoEtagStays`, `NothingMissed`, `NotifiedByFallback`.
  A missed change needs `Known` (what an ETag may be while a client
  has read its baseline), `Past` (a fetched ETag is old or current) and `InPoll`; the
  deadline needs `OnTime`, which relates lag, ticks and the place of the poll.
- `LedgerJobsProofs`: type, `EndsAreTrue`, `ResultsAreReadable`, `IdsResolve`. `LedgerInv`
  adds what a reader holds (`ReadInv`: a final state it fetched is the job's), the order of
  rows, the files of rows being stored or `cut`, and the ids given.
- `RollbackProofs`, on `Scene`: type, `UnsavedIsDirty`, `RedoIsSafe`, `RollbackIsTrue`. `SceneInv`: only the last
  entry of the redo stack may be a failed call's, and the one-label stack it was left in is
  remembered (`StackInv`: Houdini cleared the stack when the call recorded its step,
  and forgetting drops only what cannot match); a call's group is the scene
  minus its start (`CallInv`); `DirtInv` is the dirty flag with the call in flight. (`Scene` says
  `SceneInit`, `SceneNext`, `SceneSpec` because this module extends `Transactions` too.)
- `RollbackProofs`, on `Transactions`: type, `RolledBackIsBack`, `RowIsReverted`, `DryRunIsDry`, `CheckModeIsSafe`.
  A rollback is right because there is a *path*: a sequence of networks from the one it has to
  reach to the one there is, one per entry of the stack, where each entry can be undone in its network
  and leads to the one before (`Path`, `Linked`). That alone is not inductive, so `IInv` adds, in order:
  - `Doing`: for each kind of op which steps its script has left and what they count on - a name that is
    free since the plan was checked, the step before that saved the old value, the display that was
    noted before a node was made (`DoingCreate`, `DoingDelete`, ...). Without it nothing says that the
    compensation a step registers can be undone in the network after the step.
  - `LeadsBack`: between ops the path is from the beginning of the call; while an op runs, and while it
    is taken back, there is one from the op's own start as well (`mark`), which is what a
    row and an `edit` with `partial` speak of. Two places have no path and never need one (`Way`,
    `WayBack`): when the outputs of a node that is about to be destroyed are moved, and when a value was saved inside
    a locked asset, whose setting is refused next and whose compensation is refused as well.
  - `Undoing`: how far the rollback under way goes, and that `ok` is false only with a
    refusal that `lost` tells; `Dry` and `Reported` tie `rolled_back` and the plan to that.
- `CallsProofs`: type, `RowsArriveOnce`, `CookingHasJob`. A call has one work and one slice, in the
  queue or on the main thread (`QueueInv`); the after-step runs on one of two threads, once the
  work is done (`RequestInv`); the job's thread and state agree (`JobInv`); and `RowsInv`
  says for each target whether its row is in the call, the job, still to come, or deleted, by the
  place of the slice and whether the rows were handed off.
- `FleetProofs`: type, `RanAtMostOnce`, `OfflineMeansNotRun`, `LaunchedIsOurs`, `RoleIsOwn`.
  Pids and ports are used again, so each fact is about a host and not its pid: a listener is of the
  process that has its pid now (`MachineInv`), a file names a host that had it (`FileInv`), the role
  in a row was given to this host or found by it unseen (`RowInv`), a waited launch's pid is nobody else's (`WaitInv`),
  and a call that a host took is sent nowhere else and refused by nobody (`SentOnce`).
- `FleetProofs`, on `Session`: type, `InstallsAreFound`, `HoudiniStaysTheUsers`. Four invariants, as the
  machines share no state:
  - `InstallsInv`: a command is at one of its pref dirs and in one of its steps (`CommandFits`); an install
    has all that it writes to on a list before it writes, and holds a pref dir for torn until its package JSON
    is there (`Installing`); an uninstall that nothing failed leaves all that it visited bare
    (`Uninstalling`), so the record may be forgotten then and only then.
  - `StartupInv`: how far the record and the host of this process agree, unless the record is `old`
    (`RecordFits`); that a phase which was looked at still says something about the host, since a host never goes
    back (`LookFits`); and that the looks which saw one dialog without a gap add up to its age (`LooksAdd`).
  - `LifecycleInv`: for every place of a start or a stop which parts may be up and whose entry is on the disk
    (`Starting`, `Stopping`), and that no other host has anything (`Only`). It is what makes a failed start
    clean: `stop` is right from each place a part can fail at. `FlagFits`: once its event hooks
    are there the host's flag tells of unsaved changes, but for a missed one; so a request that was told the scene is
    clean is right until something comes late, or was missed (`QuitFits`).
  - `DialogsInv`: what is on `hou.ui` is the user's between works, and within one what the stubs stand for
    (`StubsFit`); a call's refusals and loads are those its answer tells of (`CallFits`).
- `EventsProofs`: type (with the bounds `RING_SIZE` and `WATCH_CAP`), `PagesAreWhole`, `UndoneIsSilent`,
  `FlushIsQueued`. An event that left the ring is older than all that is there, or was taken
  back (`RingInv`), so a page and its `dropped` leave no gap (`ReaderInv`). What was told or taken
  back is numbered below what the call under way did (`NumberInv`), so a rollback never takes
  back a number that was told, and no later call tells one that was taken back. `Pick`, `First` and
  `Latest` (a comprehension, a page, a bounded deque) have lemmas of their own; their choices
  exist because a set of naturals has a least member (`LeastOf`, from the well-foundedness of
  `<`), which takes the place of an induction.

Each invariant was checked by TLC on the bounds above, or on those next to them (`IInv` of
`Transactions` on the bounds of its run, `RendersInv` with 2 jobs, 2 acts and 2 late steps). Two parts of
`EventsProofs`' invariant are there for the induction alone: a cursor of this Houdini is within the
log, and a call that changed the scene is numbered above the past even before it recorded an event.

Trying to prove `Transactions` showed where its model said too little, and it was brought closer to the
code: no two nodes have one name when a call begins (`TransactionsAssumption`), a node
that replaces one takes its name only when that name is one a plan may give, an output is fed by a
compensation only where the wire closes no loop (`CanFeed`), and a compensation that renames finds the
name free or is refused. `DryRunLeavesNothing` became stronger on the way: a plan comes only with nothing lost.

The reasons of `Startup` had a guard each, and two guards can hold at once; they are an order, as in
`startup.py`, since the proof asked which one is told.

Only model-checked: liveness (`EveryCallReturns`, `QueuedIsServed`, `EveryCallIsAnswered`,
`JobsEnd`, `FollowedEnds`), which is out of the prover's reach; `EventsTellScene`, which depends on
what `Dropped` (`_settle`, a recursive function) leaves of every batch: an induction over
data; `DoneIsReal`, whose part of the renders is proved (`RendersAreWritten`) while what a chained cook
cooks is a closure over its inputs, which `Chains` computes with RECURSIVE operators; and of the run
`parts` `ReadsAreTrue`, `BridgeAgrees` and `EditsAreMeant`: `Budget` and `Arguments` cut and convert with
RECURSIVE operators, `Spares` plans with folds over its template group, and the other parts of
these three (`Pages`, `TypeIndex`, `Settings`, `Assets`, `ParmValues`, `Builds`) are left to TLC.

Stated and true, but in no run because a stronger or a more telling one is:
`CheckModeTakesNothing` (`Transactions`), `FlushIsQueued` (`Events`), `NoEtagKept`
(`Subscriptions`), `StartedUnlessStopped` (`Executor`). All four are proved.

## Exceptions

A property that is true but for something the code knowingly leaves says so through a
history variable, written by the actions that do it and read by nothing but properties:

- `Scene`: `leak` - a change nobody marks (a failed call without rollback, a script that saves and goes on).
- `Transactions`: `lost` - what has no compensation: a replaced inner edit, what a callback did, the flag of a comment,
  neighbours that a layout or a new node moved; and what Houdini refused to take back.
- `Events`: `undone`, `lost`, `deaf` - what a rollback took back; what stayed though its events went; what changed while no hook was heard.
- `LedgerJobs`: `cut` - result files lost to a transaction or a write that did not end; `Subscriptions`: `parted` - a resource
  that its client left during the poll.
- `Fleet`: `given`, `unseen` - roles that somebody gave a Houdini, and those it found in the row of a pid that no scan had looked at.
- `Renders`: `spoilt`, `strayed` - two overrides of one parm, a user who edits it meanwhile; a scrub that is not noticed,
  cooks that overlap, a frame set for a node that is gone, restores that were posted and never ran.
- `Captures`: `guilty` - renderers that crashed in a process of their own. (`Undying`, the scenes with a node that
  a kept child cannot delete, is a constant.)
- `PdgCooks`: `excused` - jobs whose own cook never came to its end and that have nothing to see it by. Each is put there by
  the event that causes it: a poll before the own cook began that finds what an earlier one left (`stale`) or whose
  grace is over, a cancel before the cook began, and `dirty` of the items that were cut.
- `Chains`: `flipped` - the Switch was set since its inputs were asked for; `Budget`: `crossed`; `Pages`: `spoilt`; `TypeIndex`: `stale`; `Assets`: `dropped`.
- `Installs`: `torn`, `strays` - interrupted installs, and pref dirs no record lists; `Startup`: `hidden` - a host that began, or
  was disabled, and no record where the wait looks says so; `Lifecycle`: `late` - changes after a quit's look at the
  scene, and `missed` - changes that the host's flag did not show.

`Settings` (`Parts`) and `Spares` (`Tangled`) name the cases that are known to differ as
predicates on the input instead.

## Findings

Where the code does what its documents say it does not. Each was seen in a model, as the
counterexample that made the exception above or a property's hypothesis
necessary; the definitions named here as *not so* are kept in their modules so that a run of them shows it.

Calls, jobs and the ledger:
- a job told `cancelled: true` may end `done`, when the cancel comes after its last step;
- a call can be queued after `stop()` drained the queue (`executor.py:365` checks before the put), and waits out its timeout;
- a call that `stop()` cancels between its caller's timeout and its lock is reported as started;
- an edit's row stays `cooking` when its node is deleted before the job cooks it (`edit.py:114`): the job ends without it;
- a job that is started off the thread of its call is not filed under its request id, so a progress poll does not find it (`JobsAreFiled` is not so, `dispatch.py:70`);
- a prune unlinks result files before its COMMIT (`ledger.py:545`): a kill between leaves rows that promise a result;
- a progress poll can take a finished row back to `running`, and the stored result is not served (`StoredIsServed` is not so; `ledger.py:431`, against "`job result` of a finished job returns the stored result", docs/BIBLE.md:549).

Scene and undo:
- redo refuses a repaired call whose label an earlier failure had (`GoodIsRedoable` is not so, `undo.py:195`);
- a call that fails outside a group, as `hda` or a pressed button does, is redone;
- a call that fails without a rollback, or saves and goes on, leaves unsaved work that `hip_new` clears.

Transactions:
- `collect` ignores what a failed op's rollback reports (`tx.py:524`), `_op_build` ignores its own, and a dry run whose compensation is refused while problems exist still says `rolled_back: true`;
- `lock: true` followed by a failing op loses the edits inside the asset; `layout` may have moved neighbours; pressed callbacks are not compensated;
- a comment's display flag is not taken back (`tx.py:1052`), not even by a dry run.

Events:
- a batch is discarded although its change stays (`hip_open` with warnings);
- a change within 0.1 s of one that was read joins its event and is not told again;
- a failed load leaves `hip_busy` set; `_settle` does not see renames.

Renders, looks, PDG and cooks:
- two renders of a ROP can leave it at the other's override; a scrub during a render is taken back;
- `Host.stop` drops restores that were posted and not run (`runtime.py:292`);
- a kept child keeps what an earlier look left in variables and `hou.session` (`flipbook.py:60`);
- a PDG job ends early on the states of an older cook's items;
- a ranged cook whose node is gone at a later frame leaves the playbar there, taking its own frame for the user's (`cook.py:517`, against the docstring of `Playhead`);
- `clear_scene` passes over a node it cannot delete, which is then in the next picture (`look/child.py:207`);
- an ancestor reached by reference only is cooked before the wired inputs that feed it (`cook.py:117`), and an input shared by two rows tells its errors in the first only.

Several Houdinis, start and stop:
- a Houdini can lose the role it was given, and a launch can end with the Houdini of another launch that got the pid (`RoleIsKept`, `LaunchedIsTheOne` are not so);
- a posted shutdown stops the host that is there when it runs, which may not be the one that was asked (`ShutdownIsOfItsHost` is not so);
- a client that leaves a resource and comes back during a poll can miss a change for good (`resources.py:467`, `:423`);
- a quit in the GUI that `Host.stop` overtakes within 0.2 s never happens; hython's `/shutdown` loses unsaved edits unasked;
- a startup record of an earlier process with the pid can be read as the new one's, and one that cannot be written, or that a
  `state_dir` in `hocuspocus.toml` puts elsewhere, is taken for an autostart that did not run (`launch.py:433`);
- an entry that cannot be removed stays after its host stopped (`registry.py:278`), and `set_name` may write one back;
- a role given to a pid that no scan had looked at goes to whichever Houdini is found there (`ledger.py:312`);
- an installation forgets the earlier `--prefs`, and a killed one leaves a package JSON that points to a partial or removed copy.

Smaller parts:
- `_cut_rows` can cut the list the cursor does not count (`budget.py:318`);
- `3.0` below an `anyOf` stays a float where the host wants an integer, and `[1, 1.0]` counts as unique for one side (`validate.py`);
- bridge and host differ on a setting when Houdini uses another pref dir than the first with a file, when the file quotes a number or has a size under 1024 or with a fraction, when the environment's value is bad, and when `HOCUSPOCUS_PROFILE`
  is set but blank, which the host takes for `core` and the bridge passes over (docs/BIBLE.md:483 says both run the same);
- a definition in a library that is not loaded is overwritten by `create` (`hda.py:400`), and a failed save or create leaves its library behind;
- a plan of spare parms does not look at what a folder that goes or moves holds, at a template placed next to itself, or at the name of a folder it has to make (`spare.py`);
- an input named by index and by name in one build, an input name and a parm that the type has not pass the validation of a build, which
  fails afterwards;
- a changed label has no event, a table replaced by one of equal size without a callback is missed (`types.py:259`), and the bare name of a type that has only versioned names is not found (`types.py:841`);
- a page of problems after a slower scan repeats or skips rows;
- a dialog that is refused in a job after its call was answered is told nobody; a load by another call between two works makes a refusal a warning (`dispatch.py:283`).

## Not modelled

What Houdini itself does, beyond its stacks, flag, events, networks, parms and libraries;
what the wrappers of `hou` convert; HTTP, JSON and SQLite themselves. Of modelled
parts: waiting times (any wait may expire), the wording of errors and compacting of
results, the list of recorded undo labels, the consent to cross the user's steps in `undo`, and a
`KeyboardInterrupt` inside an undo group (it leaves what a failed call outside a group leaves). Whole parts: the
host's resources and the readers of geometry, USD, materials and images (reads without state),
search scoring and docs, licence texts, the Python and time tools (they run what they are given),
the bridge's catalogue and instructions (text), the Houdini package (data).

## Plan

Proofs: the end of a PDG cook, and of the small machines that are left `Pages`, `TypeIndex` and
`Settings`, which have no recursion. Then wider machines: several networks under one transaction, the events of a look's child, the ledger's
instance rows under two bridges.
