------------------------- MODULE SubscriptionsProofs -------------------------
(* Proofs about the subscriptions of the bridge.  Of a resource nobody ever  *)
(* unsubscribed from, no change is missed and every change is notified in    *)
(* time, for any set of clients and resources and any fallback.              *)
EXTENDS Subscriptions, TLAPS

USE DEF Etags, NoEtag, ErrorEtag, ErrorGate, Phases, PollerPCs

LEMMA JobsAreUris == Jobs \subseteq Uris
  BY DEF Uris

LEMMA InitTypeOK == Init => TypeOK
<1> SUFFICES ASSUME Init PROVE TypeOK
  OBVIOUS
<1>1. cur \in Uris
  BY SubscriptionsAssumption DEF Init
<1>2. 0 \in 0..(FallbackTicks - 1) /\ 0 \in 0..(FallbackTicks + 2)
  BY SubscriptionsAssumption
<1>3. lag \in [Clients -> [Uris -> 0..(FallbackTicks + 2)]]
  BY <1>2 DEF Init
<1> QED
  BY <1>1, <1>2, <1>3 DEF Init, TypeOK

LEMMA TypeStep ==
  ASSUME TypeOK, [Next]_vars
  PROVE  TypeOK'
<1> USE SubscriptionsAssumption
<1>1. ASSUME NEW u \in Uris, Change(u) PROVE TypeOK'
  <2>1. /\ version' \in [Uris -> Nat] /\ moves' \in Nat
    BY <1>1 DEF TypeOK, Change
  <2>2. lag' \in [Clients -> [Uris -> 0..(FallbackTicks + 2)]]
    BY <1>1 DEF TypeOK, Change
  <2> QED
    BY <2>1, <2>2, <1>1 DEF TypeOK, Change, pollVars, history
<1>2. ASSUME Flip PROVE TypeOK'
  BY <1>2 DEF TypeOK, Flip, pollVars, history
<1>3. ASSUME NEW c \in Clients, NEW u \in Uris, Baseline(c, u) PROVE TypeOK'
  BY <1>3 DEF TypeOK, Baseline, Goto, Etag, worldVars, pollVars, history
<1>4. ASSUME NEW c \in Clients, NEW u \in Uris, KeepBaseline(c, u) PROVE TypeOK'
  BY <1>4 DEF TypeOK, KeepBaseline, Kept, Goto, worldVars, pollVars, history
<1>5. ASSUME NEW c \in Clients, NEW u \in Uris, Add(c, u) PROVE TypeOK'
  BY <1>5 DEF TypeOK, Add, Goto, worldVars, pollVars, history
<1>6. ASSUME NEW c \in Clients, NEW U \in SUBSET Uris, Remove(c, U) PROVE TypeOK'
  BY <1>6 DEF TypeOK, Remove, worldVars, pollVars, history
<1>7. ASSUME Tick PROVE TypeOK'
  BY <1>7 DEF TypeOK, Tick, NextTick, worldVars, history
<1>8. ASSUME Heartbeat PROVE TypeOK'
  BY <1>8, JobsAreUris DEF TypeOK, Heartbeat, Moved, Etag, Gate,
         worldVars, history
<1>9. ASSUME NEW u \in Uris, Look(u) PROVE TypeOK'
  BY <1>9 DEF TypeOK, Look, worldVars, history
<1>10. ASSUME Fetch PROVE TypeOK'
  BY <1>10 DEF TypeOK, Fetch, Etag, worldVars, history
<1>11. ASSUME Record PROVE TypeOK'
  BY <1>11 DEF TypeOK, Record, StillSubscribed, worldVars, history
<1>12. ASSUME Checked PROVE TypeOK'
  BY <1>12 DEF TypeOK, Checked, worldVars, history
<1>13. ASSUME NEW u \in Uris, Notify(u) PROVE TypeOK'
  BY <1>13 DEF TypeOK, Notify, worldVars, history
<1>14. CASE UNCHANGED vars
  BY <1>14 DEF TypeOK, vars, worldVars, pollVars, history
<1>15. ASSUME NEW c \in Clients, Client(c) PROVE TypeOK'
  BY <1>15, <1>3, <1>4, <1>5, <1>6 DEF Client, Unsubscribe, Leave
<1> QED
  BY <1>1, <1>2, <1>7, <1>8, <1>9, <1>10, <1>11, <1>12, <1>13, <1>14, <1>15
  DEF Next, World, Poll

(* The hub, the poll and the history variable keep their types.              *)
THEOREM TypeCorrect == Spec => []TypeOK
<1>1. TypeOK /\ [Next]_vars => TypeOK'
  BY TypeStep
<1> QED
  BY <1>1, InitTypeOK, PTL DEF Spec

(* Whoever leaves, and whenever: no etag is remembered of a resource that    *)
(* has no subscriber and none on its way.                                    *)
THEOREM NoEtagStays == Spec => []NoEtagKept
<1>1. Init => NoEtagKept
  BY DEF Init, NoEtagKept
<1>2. TypeOK /\ NoEtagKept /\ [Next]_vars => NoEtagKept'
  <2> SUFFICES ASSUME TypeOK, NoEtagKept, [Next]_vars PROVE NoEtagKept'
    OBVIOUS
  <2>1. ASSUME UNCHANGED <<phase, etags>> PROVE NoEtagKept'
    BY <2>1 DEF NoEtagKept
  <2>2. ASSUME NEW c \in Clients, NEW u \in Uris, Baseline(c, u) PROVE NoEtagKept'
    BY <2>2 DEF NoEtagKept, TypeOK, Baseline, Goto
  <2>3. ASSUME NEW c \in Clients, NEW u \in Uris, KeepBaseline(c, u) PROVE NoEtagKept'
    BY <2>3 DEF NoEtagKept, TypeOK, KeepBaseline, Kept, Goto
  <2>4. ASSUME NEW c \in Clients, NEW u \in Uris, Add(c, u) PROVE NoEtagKept'
    BY <2>4 DEF NoEtagKept, TypeOK, Add, Goto
  <2>5. ASSUME NEW c \in Clients, NEW U \in SUBSET Uris, Remove(c, U) PROVE NoEtagKept'
    BY <2>5 DEF NoEtagKept, TypeOK, Remove, Subs
  <2>6. ASSUME Record PROVE NoEtagKept'
    BY <2>6 DEF NoEtagKept, TypeOK, Record, StillSubscribed, Subs
  <2>7. CASE Poll
    BY <2>7, <2>1, <2>6 DEF Poll, Tick, NextTick, Heartbeat, Moved,
           Look, Fetch, Checked, Notify
  <2>8. CASE World \/ UNCHANGED vars
    BY <2>8, <2>1 DEF World, Change, Flip, vars
  <2>9. ASSUME NEW c \in Clients, Client(c) PROVE NoEtagKept'
    BY <2>9, <2>2, <2>3, <2>4, <2>5 DEF Client, Unsubscribe, Leave
  <2> QED
    BY <2>7, <2>8, <2>9 DEF Next
<1> QED
  BY <1>1, <1>2, TypeCorrect, PTL DEF Spec

-----------------------------------------------------------------------------
(* The inductive invariant.  The etag of a resource that has a subscriber    *)
(* and that nobody left stays known, and the etag a poll found before its    *)
(* fetch is still the remembered one when it writes.                         *)

Known == \A c \in Clients, u \in Uris :
  /\ phase[c][u] = "read" => base[c][u] # NoEtag
  /\ phase[c][u] \in {"based", "in"} => etags[u] # NoEtag \/ u \in parted
  /\ lag[c][u] > 0 => phase[c][u] = "in"

\* Whatever was read is not newer than the resource.
Past ==
  /\ \A u \in Uris : etags[u] <= version[u]
  /\ \A c \in Clients, u \in Uris : base[c][u] <= version[u]
  /\ \A u \in Jobs : fresh[u] <= version[u]
  /\ poller = "record" => got <= version[cur]

InPoll ==
  /\ \A u \in todo : Subs(u) # {} \/ u \in parted
  /\ poller = "sleep" => changed = {}
  /\ poller \in {"sleep", "notify"} => todo = {}
  /\ poller \in {"loop", "fetch", "record"} =>
       \A u \in todo \cap Jobs : fresh[u] # NoEtag
  /\ poller \in {"fetch", "record"} =>
       cur \in parted \/ (last = etags[cur] /\ Subs(cur) # {})
  /\ poller = "record" => got # NoEtag

\* A change older than the fallback is found by the poll that is under way.
OnTime == \A c \in Clients, u \in Uris \ parted :
  /\ ~up => lag[c][u] <= 1
  /\ lag[c][u] > ticks + 1 =>
       /\ ticks = 0 /\ lag[c][u] <= FallbackTicks + 1
       /\ \/ u \in changed
          \/ poller = "heartbeat" /\ u \in todo /\ moved
          \/ /\ poller \in {"loop", "fetch", "record"} /\ u \in todo
             /\ IF u \in Jobs THEN fresh[u] # etags[u] ELSE moved
          \/ poller = "fetch" /\ cur = u
          \/ poller = "record" /\ cur = u /\ got # last

IInv == TypeOK /\ Known /\ Past /\ InPoll /\ NoChangeMissed /\ OnTime

LEMMA InitIInv == Init => IInv
<1> SUFFICES ASSUME Init PROVE IInv
  OBVIOUS
<1>1. cur \in Uris
  BY SubscriptionsAssumption DEF Init
<1>2. TypeOK
  BY InitTypeOK
<1>3. Known /\ Past /\ InPoll /\ NoChangeMissed /\ OnTime
  BY <1>1, JobsAreUris, SubscriptionsAssumption
  DEF Init, Known, Past, InPoll, NoChangeMissed, Unmissed, OnTime
<1> QED
  BY <1>2, <1>3 DEF IInv

LEMMA ChangeIInv ==
  ASSUME IInv, TypeOK', NEW u \in Uris, Change(u)
  PROVE  IInv'
<1> USE SubscriptionsAssumption, JobsAreUris
<1>1. Known'
  BY DEF IInv, TypeOK, Change, Goto, Etag, worldVars, pollVars, history, Known
<1>2. Past'
  <2>1. \A k \in Uris : version'[k] \in Nat /\ version[k] \in Nat /\ version[k] <= version'[k]
    BY DEF IInv, TypeOK, Change
  <2>2. UNCHANGED <<etags, base, fresh, poller, got, cur>>
    BY DEF Change, pollVars
  <2>0. Etags \cup {NoEtag} \subseteq Int
    OBVIOUS
  <2>3. \A k \in Uris : etags[k] \in Int /\ \A c \in Clients : base[c][k] \in Int
    <3> HIDE DEF Etags, NoEtag, ErrorEtag
    <3>1. etags \in [Uris -> Int] /\ \A c \in Clients : base[c] \in [Uris -> Int]
      BY <2>0 DEF IInv, TypeOK
    <3> QED
      BY <3>1
  <2>4. \A k \in Jobs : k \in Uris /\ fresh[k] \in Int
    <3> HIDE DEF Etags, NoEtag, ErrorEtag
    <3>1. fresh \in [Jobs -> Int]
      BY <2>0 DEF IInv, TypeOK
    <3> QED
      BY <3>1
  <2>5. cur \in Uris /\ got \in Int
    BY DEF IInv, TypeOK
  <2> HIDE DEF Etags, NoEtag, ErrorEtag
  <2> QED
    BY <2>1, <2>2, <2>3, <2>4, <2>5 DEF IInv, Past
<1>3. InPoll'
  BY DEF IInv, TypeOK, Change, Goto, Etag, Subs, worldVars, pollVars,
         history, Known, InPoll
<1>4. NoChangeMissed'
  BY DEF IInv, TypeOK, Change, Goto, Etag, Subs, worldVars, pollVars,
         history, Known, Past, InPoll,
         NoChangeMissed, Unmissed
<1>5. OnTime'
  BY DEF IInv, TypeOK, Change, Goto, Etag, MustFetch, worldVars,
         pollVars, history, Known, Past, InPoll,
         NoChangeMissed, Unmissed, OnTime
<1> QED
  BY <1>1, <1>2, <1>3, <1>4, <1>5 DEF IInv

LEMMA FlipIInv ==
  ASSUME IInv, TypeOK', Flip
  PROVE  IInv'
<1> USE SubscriptionsAssumption, JobsAreUris
<1>1. Known'
  BY DEF IInv, TypeOK, Flip, Goto, Etag, worldVars, pollVars, history, Known
<1>2. Past'
  BY DEF IInv, TypeOK, Flip, Goto, Etag, worldVars, pollVars, history, Past
<1>3. InPoll'
  BY DEF IInv, TypeOK, Flip, Goto, Etag, Subs, worldVars, pollVars,
         history, Known, InPoll
<1>4. NoChangeMissed'
  BY DEF IInv, TypeOK, Flip, Goto, Etag, Subs, worldVars, pollVars,
         history, Known, Past, InPoll,
         NoChangeMissed, Unmissed
<1>5. OnTime'
  BY DEF IInv, TypeOK, Flip, Goto, Etag, MustFetch, worldVars, pollVars,
         history, Known, Past, InPoll,
         NoChangeMissed, Unmissed, OnTime
<1> QED
  BY <1>1, <1>2, <1>3, <1>4, <1>5 DEF IInv

LEMMA BaselineIInv ==
  ASSUME IInv, TypeOK', NEW c \in Clients, NEW u \in Uris, Baseline(c, u)
  PROVE  IInv'
<1> USE SubscriptionsAssumption, JobsAreUris
<1>1. Known'
  BY DEF IInv, TypeOK, Baseline, Goto, Etag, worldVars, pollVars,
         history, Known
<1>2. Past'
  BY DEF IInv, TypeOK, Baseline, Goto, Etag, worldVars, pollVars, history, Past
<1>3. InPoll'
  BY DEF IInv, TypeOK, Baseline, Goto, Etag, Subs, worldVars, pollVars,
         history, Known, InPoll
<1>4. NoChangeMissed'
  BY DEF IInv, TypeOK, Baseline, Goto, Etag, Subs, worldVars, pollVars,
         history, Known, Past, InPoll,
         NoChangeMissed, Unmissed
<1>5. OnTime'
  BY DEF IInv, TypeOK, Baseline, Goto, Etag, MustFetch, worldVars,
         pollVars, history, Known, Past, InPoll,
         NoChangeMissed, Unmissed, OnTime
<1> QED
  BY <1>1, <1>2, <1>3, <1>4, <1>5 DEF IInv

LEMMA KeepBaselineIInv ==
  ASSUME IInv, TypeOK', NEW c \in Clients, NEW u \in Uris, KeepBaseline(c, u)
  PROVE  IInv'
<1> USE SubscriptionsAssumption, JobsAreUris
<1>1. Known'
  BY DEF IInv, TypeOK, KeepBaseline, Kept, Goto, Etag, worldVars,
         pollVars, history, Known
<1>2. Past'
  BY DEF IInv, TypeOK, KeepBaseline, Kept, Goto, Etag, worldVars,
         pollVars, history, Past
<1>3. InPoll'
  BY DEF IInv, TypeOK, KeepBaseline, Kept, Goto, Etag, Subs, worldVars,
         pollVars, history, Known, InPoll
<1>4. NoChangeMissed'
  BY DEF IInv, TypeOK, KeepBaseline, Kept, Goto, Etag, Subs, worldVars,
         pollVars, history, Known, Past, InPoll,
         NoChangeMissed, Unmissed
<1>5. OnTime'
  BY DEF IInv, TypeOK, KeepBaseline, Kept, Goto, Etag, MustFetch,
         worldVars, pollVars, history, Known, Past, InPoll,
         NoChangeMissed, Unmissed, OnTime
<1> QED
  BY <1>1, <1>2, <1>3, <1>4, <1>5 DEF IInv

LEMMA AddIInv ==
  ASSUME IInv, TypeOK', NEW c \in Clients, NEW u \in Uris, Add(c, u)
  PROVE  IInv'
<1> USE SubscriptionsAssumption, JobsAreUris
<1>1. Known'
  BY DEF IInv, TypeOK, Add, Goto, Etag, worldVars, pollVars, history, Known
<1>2. Past'
  BY DEF IInv, TypeOK, Add, Goto, Etag, worldVars, pollVars, history, Past
<1>3. InPoll'
  BY DEF IInv, TypeOK, Add, Goto, Etag, Subs, worldVars, pollVars,
         history, Known, InPoll
<1>4. NoChangeMissed'
  BY DEF IInv, TypeOK, Add, Goto, Etag, Subs, worldVars, pollVars,
         history, Known, Past, InPoll,
         NoChangeMissed, Unmissed
<1>5. OnTime'
  BY DEF IInv, TypeOK, Add, Goto, Etag, MustFetch, worldVars, pollVars,
         history, Known, Past, InPoll,
         NoChangeMissed, Unmissed, OnTime
<1> QED
  BY <1>1, <1>2, <1>3, <1>4, <1>5 DEF IInv

LEMMA RemoveIInv ==
  ASSUME IInv, TypeOK', NEW c \in Clients, NEW U \in SUBSET Uris, Remove(c, U)
  PROVE  IInv'
<1> USE SubscriptionsAssumption, JobsAreUris
<1>1. Known'
  BY DEF IInv, TypeOK, Remove, Subs, worldVars, pollVars, history, Known
<1>2. Past'
  BY DEF IInv, TypeOK, Remove, Subs, worldVars, pollVars, history, Past
<1>3. InPoll'
  BY DEF IInv, TypeOK, Remove, Subs, worldVars, pollVars, history,
         Known, InPoll
<1>4. NoChangeMissed'
  BY DEF IInv, TypeOK, Remove, Subs, worldVars, pollVars, history,
         Known, Past, InPoll,
         NoChangeMissed, Unmissed
<1>5. OnTime'
  BY DEF IInv, TypeOK, Remove, Subs, MustFetch, worldVars, pollVars,
         history, Known, Past, InPoll,
         NoChangeMissed, Unmissed, OnTime
<1> QED
  BY <1>1, <1>2, <1>3, <1>4, <1>5 DEF IInv

LEMMA TickIInv ==
  ASSUME IInv, TypeOK', Tick
  PROVE  IInv'
<1> USE SubscriptionsAssumption, JobsAreUris
<1>1. Known'
  BY DEF IInv, TypeOK, Tick, NextTick, Goto, Etag, worldVars, pollVars,
         history, Known
<1>2. Past'
  BY DEF IInv, TypeOK, Tick, NextTick, Goto, Etag, worldVars, pollVars,
         history, Past
<1>3. InPoll'
  BY DEF IInv, TypeOK, Tick, NextTick, Goto, Etag, Subs, worldVars,
         pollVars, history, Known, InPoll
<1>4. NoChangeMissed'
  BY DEF IInv, TypeOK, Tick, NextTick, Goto, Etag, Subs, worldVars,
         pollVars, history, Known, Past, InPoll,
         NoChangeMissed, Unmissed
<1>5. OnTime'
  <2> SUFFICES ASSUME NEW c \in Clients, NEW u \in Uris \ parted
               PROVE  /\ ~up => lag'[c][u] <= 1
                      /\ lag'[c][u] > ticks' + 1 =>
                           /\ ticks' = 0 /\ lag'[c][u] <= FallbackTicks + 1 /\ up
                           /\ u \in todo' /\ moved'
    BY DEF Tick, NextTick, worldVars, history, OnTime, Uris
  <2>1. lag[c][u] \in Nat /\ lag[c][u] <= ticks + 1 /\ ticks + 1 <= FallbackTicks
    BY DEF IInv, TypeOK, Tick, NextTick, InPoll, OnTime
  <2>2. lag'[c][u] = IF up /\ lag[c][u] > 0 THEN lag[c][u] + 1 ELSE lag[c][u]
    BY <2>1 DEF Tick, NextTick
  <2>3. ~up => lag[c][u] <= 1
    BY DEF IInv, OnTime
  <2>4. lag[c][u] > 0 => u \in todo'
    BY DEF IInv, Known, Tick, NextTick, Subs
  <2>5. ticks' = 0 => moved'
    BY DEF Tick, NextTick
  <2>6. ticks' = ticks + 1 \/ (ticks' = 0 /\ ticks + 1 = FallbackTicks)
    BY DEF Tick, NextTick
  <2> QED
    BY <2>1, <2>2, <2>3, <2>4, <2>5, <2>6 DEF IInv, TypeOK
<1> QED
  BY <1>1, <1>2, <1>3, <1>4, <1>5 DEF IInv

LEMMA HeartbeatIInv ==
  ASSUME IInv, TypeOK', Heartbeat
  PROVE  IInv'
<1> USE SubscriptionsAssumption, JobsAreUris
<1>1. Known'
  BY DEF IInv, TypeOK, Heartbeat, Moved, Goto, Etag, worldVars,
         pollVars, history, Known
<1>2. Past'
  BY DEF IInv, TypeOK, Heartbeat, Moved, Goto, Etag, worldVars,
         pollVars, history, Past
<1>3. InPoll'
  BY DEF IInv, TypeOK, Heartbeat, Moved, Goto, Etag, Subs, worldVars,
         pollVars, history, Known, InPoll
<1>4. NoChangeMissed'
  BY DEF IInv, TypeOK, Heartbeat, Moved, Goto, Etag, Subs, worldVars,
         pollVars, history, Known, Past, InPoll,
         NoChangeMissed, Unmissed
<1>5. OnTime'
  <2> SUFFICES ASSUME NEW c \in Clients, NEW u \in Uris \ parted, lag[c][u] > ticks + 1
               PROVE  \/ u \in changed
                      \/ /\ u \in todo
                         /\ IF u \in Jobs THEN fresh'[u] # etags[u] ELSE moved'
    BY DEF IInv, OnTime, Heartbeat, Moved, worldVars, history
  <2>1. u \in changed \/ (u \in todo /\ moved)
    BY DEF IInv, OnTime, Heartbeat, Moved
  <2>2. lag[c][u] \in Nat /\ ticks \in Nat
    BY DEF IInv, TypeOK
  <2>2a. up /\ lag[c][u] > 0
    BY <2>2 DEF IInv, OnTime
  <2>2b. phase[c][u] = "in"
    BY <2>2a DEF IInv, Known
  <2>3. u \in changed \/ etags[u] # version[u]
    BY <2>2a, <2>2b DEF IInv, NoChangeMissed, Unmissed
  <2> QED
    BY <2>1, <2>2a, <2>3 DEF Heartbeat, Moved, Etag
<1> QED
  BY <1>1, <1>2, <1>3, <1>4, <1>5 DEF IInv

LEMMA LookIInv ==
  ASSUME IInv, TypeOK', NEW u \in Uris, Look(u)
  PROVE  IInv'
<1> USE SubscriptionsAssumption, JobsAreUris
<1>1. Known'
  BY DEF IInv, TypeOK, Look, Goto, Etag, worldVars, pollVars, history, Known
<1>2. Past'
  BY DEF IInv, TypeOK, Look, Goto, Etag, worldVars, pollVars, history, Past
<1>3. InPoll'
  BY DEF IInv, TypeOK, Look, Goto, Etag, Subs, worldVars, pollVars,
         history, Known, InPoll
<1>4. NoChangeMissed'
  BY DEF IInv, TypeOK, Look, Goto, Etag, Subs, worldVars, pollVars,
         history, Known, Past, InPoll,
         NoChangeMissed, Unmissed
<1>5. OnTime'
  BY DEF IInv, TypeOK, Look, Goto, Etag, MustFetch, worldVars, pollVars,
         history, Known, Past, InPoll,
         NoChangeMissed, Unmissed, OnTime
<1> QED
  BY <1>1, <1>2, <1>3, <1>4, <1>5 DEF IInv

LEMMA FetchIInv ==
  ASSUME IInv, TypeOK', Fetch
  PROVE  IInv'
<1> USE SubscriptionsAssumption, JobsAreUris
<1>1. Known'
  BY DEF IInv, TypeOK, Fetch, Goto, Etag, worldVars, pollVars, history, Known
<1>2. Past'
  BY DEF IInv, TypeOK, Fetch, Goto, Etag, worldVars, pollVars, history, Past
<1>3. InPoll'
  BY DEF IInv, TypeOK, Fetch, Goto, Etag, Subs, worldVars, pollVars,
         history, Known, InPoll
<1>4. NoChangeMissed'
  BY DEF IInv, TypeOK, Fetch, Goto, Etag, Subs, worldVars, pollVars,
         history, Known, Past, InPoll,
         NoChangeMissed, Unmissed
<1>5. OnTime'
  BY DEF IInv, TypeOK, Fetch, Goto, Etag, MustFetch, worldVars,
         pollVars, history, Known, Past, InPoll,
         NoChangeMissed, Unmissed, OnTime
<1> QED
  BY <1>1, <1>2, <1>3, <1>4, <1>5 DEF IInv

LEMMA RecordIInv ==
  ASSUME IInv, TypeOK', Record
  PROVE  IInv'
<1> USE SubscriptionsAssumption, JobsAreUris
<1>1. Known'
  BY DEF IInv, TypeOK, Record, StillSubscribed, worldVars, history,
         Known, InPoll
<1>2. Past'
  BY DEF IInv, TypeOK, Record, StillSubscribed, Goto, Etag, worldVars,
         pollVars, history, Past
<1>3. InPoll'
  BY DEF IInv, TypeOK, Record, StillSubscribed, Goto, Etag, Subs,
         worldVars, pollVars, history, Known, InPoll
<1>4. NoChangeMissed'
  BY DEF IInv, TypeOK, Record, StillSubscribed, Goto, Etag, Subs,
         worldVars, pollVars, history, Known, Past, InPoll,
         NoChangeMissed, Unmissed
<1>5. OnTime'
  BY DEF IInv, TypeOK, Record, StillSubscribed, Goto, Etag, MustFetch,
         worldVars, pollVars, history, Known, Past, InPoll,
         NoChangeMissed, Unmissed, OnTime
<1> QED
  BY <1>1, <1>2, <1>3, <1>4, <1>5 DEF IInv

LEMMA CheckedIInv ==
  ASSUME IInv, TypeOK', Checked
  PROVE  IInv'
<1> USE SubscriptionsAssumption, JobsAreUris
<1>1. Known'
  BY DEF IInv, TypeOK, Checked, Goto, Etag, worldVars, pollVars, history, Known
<1>2. Past'
  BY DEF IInv, TypeOK, Checked, Goto, Etag, worldVars, pollVars, history, Past
<1>3. InPoll'
  BY DEF IInv, TypeOK, Checked, Goto, Etag, Subs, worldVars, pollVars,
         history, Known, InPoll
<1>4. NoChangeMissed'
  BY DEF IInv, TypeOK, Checked, Goto, Etag, Subs, worldVars, pollVars,
         history, Known, Past, InPoll,
         NoChangeMissed, Unmissed
<1>5. OnTime'
  BY DEF IInv, TypeOK, Checked, Goto, Etag, MustFetch, worldVars,
         pollVars, history, Known, Past, InPoll,
         NoChangeMissed, Unmissed, OnTime
<1> QED
  BY <1>1, <1>2, <1>3, <1>4, <1>5 DEF IInv

LEMMA NotifyIInv ==
  ASSUME IInv, TypeOK', NEW u \in Uris, Notify(u)
  PROVE  IInv'
<1> USE SubscriptionsAssumption, JobsAreUris
<1>1. Known'
  BY DEF IInv, TypeOK, Notify, Goto, Etag, worldVars, pollVars, history, Known
<1>2. Past'
  BY DEF IInv, TypeOK, Notify, Goto, Etag, worldVars, pollVars, history, Past
<1>3. InPoll'
  BY DEF IInv, TypeOK, Notify, Goto, Etag, Subs, worldVars, pollVars,
         history, Known, InPoll
<1>4. NoChangeMissed'
  BY DEF IInv, TypeOK, Notify, Goto, Etag, Subs, worldVars, pollVars,
         history, Known, Past, InPoll,
         NoChangeMissed, Unmissed
<1>5. OnTime'
  <2> SUFFICES ASSUME NEW c \in Clients, NEW k \in Uris \ parted
               PROVE  /\ ~up => lag'[c][k] <= 1
                      /\ lag'[c][k] > ticks + 1 =>
                           /\ ticks = 0 /\ lag'[c][k] <= FallbackTicks + 1
                           /\ k \in changed'
    BY DEF Notify, worldVars, history, OnTime
  <2>1. /\ lag'[c][k] = lag[c][k] \/ lag'[c][k] = 0
        /\ k = u => lag'[c][k] = 0 \/ lag[c][k] = 0
    BY DEF IInv, TypeOK, Known, Notify, Subs
  <2>2. lag[c][k] \in Nat
    BY DEF IInv, TypeOK
  <2>3. lag[c][k] > ticks + 1 => k \in changed
    BY DEF IInv, OnTime, InPoll, Notify
  <2> QED
    BY <2>1, <2>2, <2>3 DEF IInv, OnTime, TypeOK, Notify
<1> QED
  BY <1>1, <1>2, <1>3, <1>4, <1>5 DEF IInv

-----------------------------------------------------------------------------

LEMMA NextIInv ==
  ASSUME IInv, [Next]_vars
  PROVE  IInv'
<1>1. TypeOK'
  BY TypeStep DEF IInv
<1>2. CASE UNCHANGED vars
  <2>1. Known' /\ Past' /\ InPoll'
    BY <1>2 DEF IInv, Known, Past, InPoll, Subs, vars, worldVars,
           pollVars, history
  <2>2. NoChangeMissed' /\ OnTime'
    BY <1>2 DEF IInv, NoChangeMissed, Unmissed, OnTime, vars, worldVars,
           pollVars, history
  <2> QED
    BY <1>1, <2>1, <2>2 DEF IInv
<1>3. CASE World
  BY <1>1, <1>3, ChangeIInv, FlipIInv DEF World
<1>4. CASE Poll
  BY <1>1, <1>4, TickIInv, HeartbeatIInv, LookIInv, FetchIInv, RecordIInv,
     CheckedIInv, NotifyIInv DEF Poll
<1>5. ASSUME NEW c \in Clients, Client(c) PROVE IInv'
  BY <1>1, <1>5, BaselineIInv, KeepBaselineIInv, AddIInv, RemoveIInv
  DEF Client, Leave, Unsubscribe
<1> QED
  BY <1>2, <1>3, <1>4, <1>5 DEF Next

LEMMA AlwaysIInv ==
  Spec => []IInv
<1>1. IInv /\ [Next]_vars => IInv'
  BY NextIInv
<1> QED
  BY <1>1, InitIInv, PTL DEF Spec

(* Of a resource nobody ever unsubscribed from, no change since a subscribe  *)
(* returned is missed: the next write of the poll, or a notification on its  *)
(* way, tells of it.                                                         *)
THEOREM NothingMissed ==
  Spec => []NoChangeMissed
<1>1. IInv => NoChangeMissed
  BY DEF IInv
<1> QED
  BY <1>1, AlwaysIInv, PTL

(* A change of such a resource is notified by the end of the FallbackTicks-  *)
(* th poll after it, whether the gate moved or not.                          *)
THEOREM NotifiedByFallback ==
  Spec => []NotifiedInTime
<1>1. IInv => NotifiedInTime
  <2> SUFFICES ASSUME IInv, NEW c \in Clients, NEW u \in Uris \ parted
               PROVE  lag[c][u] <= FallbackTicks + 1
    BY DEF NotifiedInTime
  <2>1. lag[c][u] > ticks + 1 => lag[c][u] <= FallbackTicks + 1
    BY DEF IInv, OnTime
  <2> QED
    BY <2>1, SubscriptionsAssumption DEF IInv, TypeOK
<1> QED
  BY <1>1, AlwaysIInv, PTL

=============================================================================
