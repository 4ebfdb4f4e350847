------------------------------- MODULE Captures -------------------------------
(***************************************************************************)
(* A headless look (host/look) draws a snapshot of the scene in a child    *)
(* hython: the Flipbook ROP in a child that is kept between looks          *)
(* (flipbook.py), anything else, and every look that finds the kept child  *)
(* busy, in a child of its own (child.py).  A child that crashes hands     *)
(* over to the next renderer of the chain (select.py), the last of which   *)
(* is Karma in the host, on the live scene (karma.py).  A render of a ROP  *)
(* that cannot run in the host uses a child of its own too (visual.py).    *)
(*                                                                         *)
(* The looks run on the threads of their jobs.  The scene is known by a    *)
(* number that grows with every edit, its asset library by another, and by *)
(* whether one variable (set -g, hou.session) is set in it.                *)
(***************************************************************************)
EXTENDS Naturals, FiniteSets, Sequences, Functions

CONSTANTS
  Looks, None,
  MaxUses,     \* WARM_MAX_USES
  Undying,     \* the scenes with a node that a kept child cannot delete
  MaxChanges   \* bound: changes of the scene

Heard == {"image", "errors", "crash", "licence"}
Renderers == {"flipbook", "opengl", "karma", "rop"}

ASSUME CapturesAssumption ==
  /\ IsFiniteSet(Looks)
  /\ None \notin Looks \cup Nat \cup Heard
  /\ MaxUses \in Nat /\ MaxChanges \in Nat /\ Undying \subseteq Nat

VARIABLES
  scene,     \* [nodes, lib, var]
  looks,     \* per look: pc, kind, snap, at (its place in the chain), child, kept, fresh, heard
  procs,     \* the children that live
  warm,      \* _warm["child"]
  disabled,  \* _warm["disabled"]
  lock,      \* _warm_lock
  crashed,   \* _stage_crashed
  image,     \* per look: what its output file shows
  guilty     \* history: the renderers that crashed in a process of their own

childrenVars == <<warm, disabled, lock, crashed>>
captureVars == <<scene, looks, procs, childrenVars, image, guilty>>

\* A look of /obj, one of a stage, one in final quality, and a render of a user's ROP.
LookKinds == {"draft", "stage", "final", "render"}
Chain(k) ==
  CASE k = "final" -> <<"karma">> [] k = "render" -> <<"rop">>
    [] OTHER -> <<"flipbook", "opengl", "karma">>
Renderer(l) == Chain(looks[l].kind)[looks[l].at]

CapturesInit ==
  /\ scene = [nodes |-> 0, lib |-> 0, var |-> FALSE]
  /\ looks = [l \in Looks |-> [pc |-> "begin", kind |-> "final", snap |-> None, at |-> 1,
                               child |-> None, kept |-> FALSE, fresh |-> FALSE, heard |-> None]]
  /\ procs = <<>> /\ warm = None /\ disabled = FALSE /\ lock = None /\ crashed = {}
  /\ image = [l \in Looks |-> None] /\ guilty = {}

\* prepare: the target, the chain and the snapshot, in one step of the main thread.
Prepare(l, k) ==
  /\ looks[l].pc = "begin"
  /\ looks' = [looks EXCEPT ![l].pc = "choose", ![l].kind = k, ![l].snap = scene]
  /\ UNCHANGED <<scene, procs, childrenVars, image, guilty>>

-----------------------------------------------------------------------------
(* The children. *)

Pids == 1 .. 2 * Cardinality(Looks) + 1
NewPid == CHOOSE p \in Pids : p \notin DOMAIN procs \cup {warm}
\* key: the assets as warm_key saw them; lib: as the child read them, once.
NewChild(kept) ==
  [kept |-> kept, key |-> scene.lib, lib |-> None, nodes |-> {}, var |-> FALSE, uses |-> 0]

Kill(ps) == Restrict(procs, DOMAIN procs \ ps)
\* close: a child that is replaced is killed.
Close(p) == Kill({p})

\* Mutant: whatever became of the assets.
UsableAnyKey == warm \in DOMAIN procs /\ procs[warm].uses < MaxUses
\* usable, for a look that starts now.
Usable ==
  /\ warm \in DOMAIN procs
  /\ procs[warm].key = scene.lib /\ procs[warm].uses < MaxUses

\* Whether the look goes to the kept child.
Keeps(l) == Renderer(l) = "flipbook" /\ ~disabled /\ lock = None

Starts(l, p, kept, fresh) ==
  looks' = [looks EXCEPT ![l].pc = "wait", ![l].child = p, ![l].kept = kept, ![l].fresh = fresh,
                         ![l].heard = None]
\* The look is over, with a picture or an error: its files go.
LookEnds(l, well) ==
  looks' = [looks EXCEPT ![l].pc = IF well THEN "picture" ELSE "failed",
                         ![l].snap = IF well THEN @ ELSE None,
                         ![l].child = None, ![l].kept = FALSE, ![l].fresh = FALSE, ![l].heard = None]

\* request: to the kept child, or to a new one in its place.
StartKept(l) ==
  /\ looks[l].pc = "choose" /\ Keeps(l)
  /\ lock' = l
  /\ IF Usable
     THEN Starts(l, warm, TRUE, FALSE) /\ UNCHANGED <<procs, warm>>
     ELSE /\ Starts(l, NewPid, TRUE, TRUE) /\ warm' = NewPid
          /\ procs' = [p \in DOMAIN Close(warm) \cup {NewPid} |->
                         IF p = NewPid THEN NewChild(TRUE) ELSE procs[p]]
  /\ UNCHANGED <<scene, disabled, crashed, image, guilty>>

\* Popen or the file of the request fails, which is no ToolError: the look ends with it.
StartFails(l) ==
  /\ looks[l].pc = "choose" /\ Renderer(l) # "karma"
  /\ LookEnds(l, FALSE)
  /\ IF Keeps(l) /\ ~Usable
     THEN procs' = Close(warm) /\ warm' = None
     ELSE UNCHANGED <<procs, warm>>
  /\ UNCHANGED <<scene, disabled, lock, crashed, image, guilty>>

\* cold: a child of the look's own, also when the kept one crashed while the look held it.
StartCold(l) ==
  /\ \/ looks[l].pc = "choose" /\ Renderer(l) # "karma" /\ ~Keeps(l)
     \/ looks[l].pc = "retry"
  /\ Starts(l, NewPid, FALSE, TRUE)
  /\ procs' = [p \in DOMAIN procs \cup {NewPid} |->
                 IF p = NewPid THEN NewChild(FALSE) ELSE procs[p]]
  /\ UNCHANGED <<scene, childrenVars, image, guilty>>

\* Mutant: the nodes of the last look stay.
ClearNot(nodes) == nodes
\* clear_scene: a node whose destroy fails is passed over.
Clear(nodes) == nodes \cap Undying

\* load_scene: a variable that the scene does not set is not touched.
Loaded(p, snap) ==
  [p EXCEPT !.nodes = Clear(p.nodes) \cup {snap.nodes},
            !.lib = IF p.lib = None THEN scene.lib ELSE p.lib,
            !.var = p.var \/ snap.var, !.uses = p.uses + 1]

\* The child loads the snapshot and renders: an image, or errors; or it exits, after a crash,
\* which may have left an image, or without a licence.
ChildRenders(l, how, drew) ==
  LET child == Loaded(procs[looks[l].child], looks[l].snap) IN
  /\ looks[l].pc = "wait" /\ looks[l].heard = None
  /\ how \in {"errors", "licence"} => ~drew
  /\ how = "image" => drew
  /\ image' = IF drew
              THEN [image EXCEPT ![l] = [by |-> "child", nodes |-> child.nodes, lib |-> child.lib, var |-> child.var]]
              ELSE image
  /\ looks' = [looks EXCEPT ![l].heard = how]
  /\ procs' = IF child.kept /\ how \in {"image", "errors"}
              THEN [procs EXCEPT ![looks[l].child] = child] ELSE Kill({looks[l].child})
  /\ guilty' = IF how = "crash" /\ looks[l].fresh THEN guilty \cup {Renderer(l)} ELSE guilty
  /\ UNCHANGED <<scene, childrenVars>>

\* The kept child idles out, or something kills it.
KeptExits ==
  /\ warm \in DOMAIN procs /\ lock = None
  /\ procs' = Kill({warm})
  /\ UNCHANGED <<scene, looks, childrenVars, image, guilty>>

-----------------------------------------------------------------------------
(* The look goes on. *)

Freed(l) == IF lock = l THEN None ELSE lock
Waits(l) == looks[l].pc = "wait" /\ looks[l].heard # None

\* check_capture_output: an image, and no errors.
Answered(l) ==
  /\ Waits(l) /\ looks[l].heard \in {"image", "errors"}
  /\ LookEnds(l, looks[l].heard = "image")
  /\ lock' = Freed(l)
  /\ UNCHANGED <<scene, procs, warm, disabled, crashed, image, guilty>>

\* render_capture_child: whether a child that failed fails the renderer.
Raises(l) == ~looks[l].kept \/ looks[l].fresh \/ looks[l].heard # "crash"

\* The kept child crashed, and had rendered before: once more, in a child of the look's own.
RetryCold(l) ==
  /\ Waits(l) /\ looks[l].heard \in {"crash", "licence"} /\ ~Raises(l)
  /\ looks' = [looks EXCEPT ![l].pc = "retry"]
  /\ disabled' = TRUE /\ warm' = None
  /\ UNCHANGED <<scene, procs, lock, crashed, image, guilty>>

\* run_capture_chain: after a crash the next renderer, of which a stage keeps a note; any
\* other error is the look's.
NextRenderer(l) ==
  /\ Waits(l) /\ looks[l].heard \in {"crash", "licence"} /\ Raises(l)
  /\ warm' = IF looks[l].kept THEN None ELSE warm
  /\ lock' = Freed(l)
  /\ IF looks[l].heard = "crash" /\ looks[l].kind # "render"
     THEN looks' = [looks EXCEPT ![l].pc = "choose", ![l].at = @ + 1]
     ELSE LookEnds(l, FALSE)
  /\ crashed' = IF looks[l].heard = "crash" /\ looks[l].kind = "stage"
                THEN crashed \cup {Renderer(l)} ELSE crashed
  /\ UNCHANGED <<scene, procs, disabled, image, guilty>>

Skip(l) ==
  /\ looks[l].pc = "choose" /\ looks[l].kind = "stage" /\ Renderer(l) \in crashed
  /\ looks' = [looks EXCEPT ![l].at = @ + 1]
  /\ UNCHANGED <<scene, procs, childrenVars, image, guilty>>

\* Mutant: the look gives up, its child does not.
KilledNot(p) == procs
\* A wait that ends without the child kills it.
Killed(p) == Kill({p})

\* The wait times out; and a render, which alone asks for it, finds its job cancelled.
GiveUp(l) ==
  /\ looks[l].pc = "wait" /\ looks[l].heard = None
  /\ procs' = Killed(looks[l].child)
  /\ warm' = IF looks[l].kept THEN None ELSE warm
  /\ lock' = Freed(l)
  /\ LookEnds(l, FALSE)
  /\ UNCHANGED <<scene, disabled, crashed, image, guilty>>

\* capture_with_karma: in one step of the main thread, in the scene as it is by then.
Karma(l, works) ==
  /\ looks[l].pc = "choose" /\ Renderer(l) = "karma"
  /\ LookEnds(l, works)
  /\ image' = IF works
              THEN [image EXCEPT ![l] = [by |-> "karma", nodes |-> {scene.nodes}, lib |-> scene.lib, var |-> scene.var]]
              ELSE image
  /\ UNCHANGED <<scene, procs, childrenVars, guilty>>

\* The user and other calls change the scene, save its assets, set and unset the variable.
Change ==
  /\ scene.nodes + scene.lib < MaxChanges
  /\ \E new \in {[scene EXCEPT !.nodes = @ + 1], [scene EXCEPT !.lib = @ + 1],
                 [scene EXCEPT !.nodes = @ + 1, !.var = ~@]} : scene' = new
  /\ UNCHANGED <<looks, procs, childrenVars, image, guilty>>

CapturesNext ==
  \/ \E l \in Looks :
       \/ \E k \in LookKinds : Prepare(l, k)
       \/ StartKept(l) \/ StartFails(l) \/ StartCold(l)
       \/ \E how \in Heard, drew \in BOOLEAN : ChildRenders(l, how, drew)
       \/ Answered(l) \/ RetryCold(l) \/ NextRenderer(l) \/ Skip(l) \/ GiveUp(l)
       \/ \E works \in BOOLEAN : Karma(l, works)
  \/ KeptExits \/ Change

CapturesSpec == CapturesInit /\ [][CapturesNext]_captureVars

-----------------------------------------------------------------------------
(* Properties *)

Scenes == [nodes : Nat, lib : Nat, var : BOOLEAN]
Children == [kept : BOOLEAN, key : Nat, lib : Nat \cup {None}, nodes : SUBSET Nat, var : BOOLEAN, uses : Nat]
Pictures == [by : {"child", "karma"}, nodes : SUBSET Nat, lib : Nat \cup {None}, var : BOOLEAN]
PCs == {"begin", "choose", "wait", "retry", "picture", "failed"}
LookStates ==
  [pc : PCs, kind : LookKinds, snap : Scenes \cup {None}, at : 1 .. 3, child : Pids \cup {None},
   kept : BOOLEAN, fresh : BOOLEAN, heard : Heard \cup {None}]

CapturesTypeOK ==
  /\ scene \in Scenes
  /\ looks \in [Looks -> LookStates]
  /\ DOMAIN procs \subseteq Pids /\ procs \in [DOMAIN procs -> Children]
  /\ warm \in Pids \cup {None} /\ disabled \in BOOLEAN /\ lock \in Looks \cup {None}
  /\ crashed \subseteq Renderers /\ guilty \subseteq Renderers
  /\ image \in [Looks -> Pictures \cup {None}]

\* The nodes of a child are those of the scene n, with what the child could not delete of others.
NodesOf(nodes, n) == n \in nodes /\ nodes \subseteq {n} \cup Undying

\* The picture of a look is that of the scene it was asked of, of nothing that an earlier
\* look left in a kept child (but for what the child could not delete, which clear_scene passes
\* over without a word), and of no older assets, whichever renderer drew it after which
\* crashes; Karma draws the scene as it became meanwhile.  A variable is there if the scene
\* sets it (that one is gone which it set before is more than a kept child knows).
ShowsScene ==
  \A l \in Looks : looks[l].pc = "picture" =>
    LET shown == image[l]
        snap == looks[l].snap IN
    /\ shown.lib >= snap.lib
    /\ IF shown.by = "child"
       THEN NodesOf(shown.nodes, snap.nodes) /\ (snap.var => shown.var)
       ELSE \A n \in shown.nodes : n >= snap.nodes

\* A look passes over a renderer only after a child that rendered nothing before it crashed.
FallbackIsEarned ==
  \A l \in Looks : \A i \in 1 .. looks[l].at - 1 : Chain(looks[l].kind)[i] \in guilty

\* A headless look shows the scene it was asked of, drawn by the first renderer of its chain that
\* did not crash on its own account (look/flipbook.py, look/child.py, look/select.py).
PictureIsScene == ShowsScene /\ FallbackIsEarned

\* No child hython outlives its use: every one that lives, and holds a licence, is the kept one or
\* works for a look (look/flipbook.py, look/child.py).
NoChildLeft ==
  DOMAIN procs \subseteq {warm} \cup {looks[l].child : l \in {k \in Looks : looks[k].pc = "wait"}}
=============================================================================
