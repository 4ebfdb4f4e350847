----------------------------- MODULE MCRollback -----------------------------
(* Small instances of the two machines that take an edit back: the undo     *)
(* group and the undo tool (Scene), and the compensations of a plan's ops   *)
(* (Transactions).  They share nothing, so each is checked alone, from      *)
(* every initial state of its own, and the other stays in one: part names   *)
(* the one that moves.                                                      *)
EXTENDS Scene, Transactions

VARIABLE part

RollbackInit ==
  /\ part \in {"scene", "transactions"}
  /\ IF part = "scene" THEN SceneInit ELSE undoOn = TRUE /\ ui = TRUE /\ flag = FALSE /\ SceneInit
  /\ IF part = "transactions" THEN Init ELSE mode = "edit" /\ Init

SceneStep == part = "scene" /\ SceneNext /\ UNCHANGED <<part, vars>>
TransactionsStep == part = "transactions" /\ Next /\ UNCHANGED <<part, sceneVars>>

RollbackNext == SceneStep \/ TransactionsStep

RollbackSpec == RollbackInit /\ [][RollbackNext]_<<part, sceneVars, vars>>
=============================================================================
