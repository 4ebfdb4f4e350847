------------------------------ MODULE MCHostJobs ------------------------------
(* Small instances of the machines behind long jobs of the host: Renders,   *)
(* Captures, PdgCooks and Chains.  They share nothing, so each is checked   *)
(* alone: part names the one that moves, the others stay where they began.  *)
EXTENDS Captures, Renders, TLC

CONSTANTS
  MaxActs,                                 \* of PdgCooks
  MaxOthers                                \* of Chains

Jobs == Tasks
Swaps == Permutations(Jobs)

VARIABLES
  part,
  due, cooking, items, ppc, seen, found, flag, state, owning, told, acts, asked, inside, ended,
  stale, excused,
  wires, refs, sel, exists, bad, disk, read, mode, paths, at, todo, cooked, row, results, hpc,
  began, counts, flipped, changes

pvars == <<due, cooking, items, ppc, seen, found, flag, state, owning, told, acts, asked, inside,
           ended, stale, excused>>
hvars == <<wires, refs, sel, exists, bad, disk, read, mode, paths, at, todo, cooked, row, results,
           hpc, began, counts, flipped, changes>>

P == INSTANCE PdgCooks WITH pc <- ppc
H == INSTANCE Chains WITH pc <- hpc, done <- cooked, MaxChanges <- MaxOthers

Parts == {"renders", "captures", "pdg", "chains"}
vars == <<part, rendersVars, captureVars, pvars, hvars>>

\* A chain that is not looked at has no state.
ChainsOff ==
  /\ wires = None /\ refs = None /\ sel = None /\ exists = None /\ bad = None /\ disk = None
  /\ read = None /\ mode = None /\ paths = None /\ at = None /\ todo = None /\ cooked = None
  /\ row = None /\ results = None /\ hpc = None /\ began = None /\ counts = None
  /\ flipped = None /\ changes = None

Init ==
  /\ part \in Parts
  /\ RendersInit /\ CapturesInit /\ P!Init
  /\ part # "renders" => kind = [j \in Jobs |-> "render"]
  /\ part # "pdg" => items = "none"
  /\ IF part = "chains" THEN H!Init ELSE ChainsOff

RendersStep == part = "renders" /\ RendersNext /\ UNCHANGED <<part, captureVars, pvars, hvars>>
CapturesStep == part = "captures" /\ CapturesNext /\ UNCHANGED <<part, rendersVars, pvars, hvars>>
PdgStep == part = "pdg" /\ P!Next /\ UNCHANGED <<part, rendersVars, captureVars, hvars>>
ChainsStep == part = "chains" /\ H!Next /\ UNCHANGED <<part, rendersVars, captureVars, pvars>>

Next == RendersStep \/ CapturesStep \/ PdgStep \/ ChainsStep
Spec == Init /\ [][Next]_vars

\* A job that reports done did what it reports: a render wrote its frames, a graph was cooked and
\* its end told once, and what force "chain" cooked was made of the files as they were when it
\* began (tools/visual.py, tools/pdg.py, tools/cook.py).
DoneIsReal ==
  /\ DoneIsWritten
  /\ P!DoneIsCooked /\ P!EndIsTold
  /\ part = "chains" => H!ChainIsCooked
=============================================================================
