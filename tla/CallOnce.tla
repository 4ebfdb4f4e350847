------------------------------ MODULE CallOnce ------------------------------
(***************************************************************************)
(* What the main-thread executor promises its callers, whatever the        *)
(* threads do: a call takes effect at most once, never beside another one, *)
(* and never after its caller has been answered; a result is the answer to *)
(* a call that took effect, "no effect" to one that did not.  An answer    *)
(* "unknown" (houdini_busy, started) leaves the effect open: the call      *)
(* either was running when it was given, or never runs.                    *)
(***************************************************************************)
CONSTANT Works

VARIABLES
  effect,  \* per call: "none", "doing" or "did"
  answer   \* per call: "none", "result", "no_effect" or "unknown"

vars == <<effect, answer>>

Init ==
  /\ effect = [w \in Works |-> "none"]
  /\ answer = [w \in Works |-> "none"]

Begin(w) ==
  /\ effect[w] = "none"
  /\ answer[w] = "none"
  /\ \A v \in Works : effect[v] # "doing"
  /\ effect' = [effect EXCEPT ![w] = "doing"]
  /\ UNCHANGED answer

End(w) ==
  /\ effect[w] = "doing"
  /\ effect' = [effect EXCEPT ![w] = "did"]
  /\ UNCHANGED answer

Reply(w, a) ==
  /\ answer[w] = "none"
  /\ CASE a = "result" -> effect[w] = "did"
       [] a = "no_effect" -> effect[w] = "none"
       [] a = "unknown" -> effect[w] \in {"none", "doing"}
  /\ answer' = [answer EXCEPT ![w] = a]
  /\ UNCHANGED effect

Next ==
  \E w \in Works :
    \/ Begin(w)
    \/ End(w)
    \/ \E a \in {"result", "no_effect", "unknown"} : Reply(w, a)

Spec == Init /\ [][Next]_vars

=============================================================================
