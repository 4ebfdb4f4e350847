------------------------------ MODULE MCParts ------------------------------
(* Small instances of the machines of the bridge, of the host and of its    *)
(* tools that are small: a call, a file or a record, and what may change    *)
(* beside it.  They share nothing, so each is checked alone: part names the *)
(* one that moves.                                                          *)
EXTENDS Naturals, FiniteSets, Sequences, TLC

CONSTANTS
  None, MaxRows, RowSizes, NameSizes, Limits, HostBytes, MaxBytes, Base, MaxNode, Limit,
  MaxChanges, MaxTypeChanges, Closed, MaxItems, Dirs, Assetted, Libs, AssetTypes, Writable,
  MaxMade, Subnet, typeParm, a, b, spareFolder, newParm, hp_new, newFolder, Top,
  MaxWrites

VARIABLES
  part,
  mode, named, bu_rows, bu_aside, limit, at, bu_got, page, crossed,
  listing, pg_nodes, probs, mirrors, cursor, state, pg_got, steady, pg_changes, spoilt,
  table, label, hidden, ty_rows, ty_dirty, count, callback, ty_last, stale, ty_changes,
  schema, sent, args, ar_stage, ar_call, hint,
  key, toml, env, prefVar, recorded, home, ran, edited,
  disk, as_loaded, embedded, node, as_made, dropped,
  spec, group, valued, before, sp_stage,
  pv_kind, strict, labels, locked, base, text, keys, now, pv_last, writes,
  bd_nodes, notes, feeds, was, bd_call, renamed, plan, bd_aside, pressed, bd_pc

buvars == <<mode, named, bu_rows, bu_aside, limit, at, bu_got, page, crossed>>
pgvars == <<listing, pg_nodes, probs, mirrors, cursor, state, pg_got, steady, pg_changes, spoilt>>
tyvars == <<table, label, hidden, ty_rows, ty_dirty, count, callback, ty_last, stale, ty_changes>>
arvars == <<schema, sent, args, ar_stage, ar_call, hint>>
sevars == <<key, toml, env, prefVar, recorded, home, ran, edited>>
asvars == <<disk, as_loaded, embedded, node, as_made, dropped>>
spvars == <<spec, group, valued, before, sp_stage>>
pvvars == <<pv_kind, strict, labels, locked, base, text, keys, now, pv_last, writes>>
bdvars == <<bd_nodes, notes, feeds, was, bd_call, renamed, plan, bd_aside, pressed, bd_pc>>
vars == <<part, buvars, pgvars, tyvars, arvars, sevars, asvars, spvars, pvvars, bdvars>>

Bu == INSTANCE Budget WITH rows <- bu_rows, aside <- bu_aside, got <- bu_got
Pg == INSTANCE Pages WITH nodes <- pg_nodes, got <- pg_got, changes <- pg_changes
Ty == INSTANCE TypeIndex WITH
       rows <- ty_rows, dirty <- ty_dirty, last <- ty_last, changes <- ty_changes,
       MaxChanges <- MaxTypeChanges
Ar == INSTANCE Arguments WITH stage <- ar_stage, call <- ar_call
Se == INSTANCE Settings
As == INSTANCE Assets WITH
       loaded <- as_loaded, made <- as_made, Nodes <- Assetted, Types <- AssetTypes
Sp == INSTANCE Spares WITH
       stage <- sp_stage, p <- typeParm, f <- spareFolder, n <- newParm, new <- newFolder
Pv == INSTANCE ParmValues WITH kind <- pv_kind, last <- pv_last
Bd == INSTANCE Builds WITH nodes <- bd_nodes, call <- bd_call, aside <- bd_aside, pc <- bd_pc

\* A part that is not looked at has no state.
BudgetOff ==
  /\ mode = None /\ named = None /\ bu_rows = None /\ bu_aside = None /\ limit = None
  /\ at = None /\ bu_got = None /\ page = None /\ crossed = None
PagesOff ==
  /\ listing = None /\ pg_nodes = None /\ probs = None /\ mirrors = None /\ cursor = None
  /\ state = None /\ pg_got = None /\ steady = None /\ pg_changes = None /\ spoilt = None
TypeIndexOff ==
  /\ table = None /\ label = None /\ hidden = None /\ ty_rows = None /\ ty_dirty = None
  /\ count = None /\ callback = None /\ ty_last = None /\ stale = None /\ ty_changes = None
ArgumentsOff ==
  /\ schema = None /\ sent = None /\ args = None /\ ar_stage = None /\ ar_call = None
  /\ hint = None
SettingsOff ==
  /\ key = None /\ toml = None /\ env = None /\ prefVar = None /\ recorded = None
  /\ home = None /\ ran = None /\ edited = None
AssetsOff ==
  /\ disk = None /\ as_loaded = None /\ embedded = None /\ node = None /\ as_made = None
  /\ dropped = None
SparesOff ==
  /\ spec = None /\ group = None /\ valued = None /\ before = None /\ sp_stage = None
ParmValuesOff ==
  /\ pv_kind = None /\ strict = None /\ labels = None /\ locked = None /\ base = None
  /\ text = None /\ keys = None /\ now = None /\ pv_last = None /\ writes = None
BuildsOff ==
  /\ bd_nodes = None /\ notes = None /\ feeds = None /\ was = None /\ bd_call = None
  /\ renamed = None /\ plan = None /\ bd_aside = None /\ pressed = None /\ bd_pc = None

Init ==
  /\ part \in {"budget", "pages", "types", "arguments", "settings", "assets", "spares", "parms",
              "builds"}
  /\ IF part = "budget" THEN Bu!Init ELSE BudgetOff
  /\ IF part = "pages" THEN Pg!Init ELSE PagesOff
  /\ IF part = "types" THEN Ty!Init ELSE TypeIndexOff
  /\ IF part = "arguments" THEN Ar!Init ELSE ArgumentsOff
  /\ IF part = "settings" THEN Se!Init ELSE SettingsOff
  /\ IF part = "assets" THEN As!Init ELSE AssetsOff
  /\ IF part = "spares" THEN Sp!Init ELSE SparesOff
  /\ IF part = "parms" THEN Pv!Init ELSE ParmValuesOff
  /\ IF part = "builds" THEN Bd!Init ELSE BuildsOff

BudgetStep ==
  /\ part = "budget" /\ Bu!Next
  /\ UNCHANGED <<part, pgvars, tyvars, arvars, sevars, asvars, spvars, pvvars, bdvars>>
PagesStep ==
  /\ part = "pages" /\ Pg!Next
  /\ UNCHANGED <<part, buvars, tyvars, arvars, sevars, asvars, spvars, pvvars, bdvars>>
TypeIndexStep ==
  /\ part = "types" /\ Ty!Next
  /\ UNCHANGED <<part, buvars, pgvars, arvars, sevars, asvars, spvars, pvvars, bdvars>>
ArgumentsStep ==
  /\ part = "arguments" /\ Ar!Next
  /\ UNCHANGED <<part, buvars, pgvars, tyvars, sevars, asvars, spvars, pvvars, bdvars>>
SettingsStep ==
  /\ part = "settings" /\ Se!Next
  /\ UNCHANGED <<part, buvars, pgvars, tyvars, arvars, asvars, spvars, pvvars, bdvars>>
AssetsStep ==
  /\ part = "assets" /\ As!Next
  /\ UNCHANGED <<part, buvars, pgvars, tyvars, arvars, sevars, spvars, pvvars, bdvars>>
SparesStep ==
  /\ part = "spares" /\ Sp!Next
  /\ UNCHANGED <<part, buvars, pgvars, tyvars, arvars, sevars, asvars, pvvars, bdvars>>
ParmValuesStep ==
  /\ part = "parms" /\ Pv!Next
  /\ UNCHANGED <<part, buvars, pgvars, tyvars, arvars, sevars, asvars, spvars, bdvars>>
BuildsStep ==
  /\ part = "builds" /\ Bd!Next
  /\ UNCHANGED <<part, buvars, pgvars, tyvars, arvars, sevars, asvars, spvars, pvvars>>

Next ==
  \/ BudgetStep
  \/ PagesStep
  \/ TypeIndexStep
  \/ ArgumentsStep
  \/ SettingsStep
  \/ AssetsStep
  \/ SparesStep
  \/ ParmValuesStep
  \/ BuildsStep

Spec == Init /\ [][Next]_vars
-----------------------------------------------------------------------------

\* A read answers with what there is: the pages that follow a cursor have every row once, whatever
\* is cut to the budget or changes between them, and a search names the types that Houdini has
\* (bridge/budget.py, host/tools/nodes.py, host/tools/types.py).
ReadsAreTrue ==
  /\ part = "budget" => Bu!PagesHaveAll
  /\ part = "pages" => Pg!PagesAreWhole
  /\ part = "types" => Ty!TypesAreTrue

\* What the bridge takes and says of a call is what the host does with it: arguments that it
\* accepts, a call that a hint spells, and the settings that both read (bridge/validate.py,
\* bridge/config.py).
BridgeAgrees ==
  /\ part = "arguments" => Ar!HostAgrees
  /\ part = "arguments" => Ar!HintIsCall
  /\ part = "settings" => Se!SettingsAreShared

\* An edit that says it is done did what was asked, and took nothing else with it: what an asset,
\* a parm, an interface or a network had is kept, or is replaced as the call said
\* (host/tools/hda.py, spare.py, parms.py, network.py).
EditsAreMeant ==
  /\ part = "assets" => As!EditsSurvive
  /\ part = "spares" => Sp!PlanIsDone
  /\ part = "parms" => Pv!SetIsMeant
  /\ part = "builds" => Bd!BuildIsMeant
=============================================================================
