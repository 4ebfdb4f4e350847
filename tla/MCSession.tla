------------------------------ MODULE MCSession ------------------------------
(* Small instances of the four machines of Session.  They share nothing, so *)
(* each is checked alone, from every initial state of its own: part names   *)
(* the one that moves, and the others stay in one initial state each.       *)
EXTENDS Session, TLC

VARIABLE part

invars == <<json, copies, in_record, held, command, failed, in_given, torn, strays>>
stvars == <<houdini, dialog, st_host, st_record, old, away, hidden, st_pc, watch, ticks, st_up, looked>>
lcvars == <<ui, gone, cur, lc_made, main, parts, entry, queue, drain, event, lc_kind, lc_to, lc_pc,
            lc_dirty, flag, missed, foreign, read, late, lost>>
dlvars == <<attr, hard, saved, installed, depth, running, nested, steps, dl_pc, refused, began,
            raised, generation, result, theirs, reached, dl_loaded>>
vars == <<part, invars, stvars, lcvars, dlvars>>

Init ==
  /\ part \in {"installs", "startup", "lifecycle", "dialogs"}
  /\ In!Init
  /\ IF part = "startup" THEN St!Init ELSE st_record = None /\ away = FALSE /\ St!Init
  /\ IF part = "lifecycle" THEN Lc!Init ELSE ui = TRUE /\ Lc!Init
  /\ IF part = "dialogs" THEN Dl!Init
     ELSE /\ attr = [name \in Dl!ToSet(Dl!Names) |-> "own"] /\ hard = {} /\ steps = {}
          /\ Dl!Init

InstallsStep == part = "installs" /\ In!Next /\ UNCHANGED <<part, stvars, lcvars, dlvars>>
StartupStep == part = "startup" /\ St!Next /\ UNCHANGED <<part, invars, lcvars, dlvars>>
LifecycleStep == part = "lifecycle" /\ Lc!Next /\ UNCHANGED <<part, invars, stvars, dlvars>>
DialogsStep == part = "dialogs" /\ Dl!Next /\ UNCHANGED <<part, invars, stvars, lcvars>>

Next == InstallsStep \/ StartupStep \/ LifecycleStep \/ DialogsStep

Spec == Init /\ [][Next]_vars

\* Nothing tells one request from another.
Alike == Permutations(Requests)
=============================================================================
