---------------------------- MODULE EventsProofs ----------------------------
(***************************************************************************)
(* Proofs about Events: a reader that pages through the ring misses        *)
(* nothing, and what a rollback took back is never told.                   *)
(***************************************************************************)
EXTENDS Events, TLAPS, FiniteSetTheorems, SequenceTheorems, WellFoundedInduction

(* The inductive invariant.                                                *)

\* An event that left the ring is older than all that is there, or was taken out of it.
RingInv == \A s \in DOMAIN log : s \in ring \cup taken \/ \A r \in ring : s < r

\* The cursor is in the log of its Houdini.
ReaderInv == PagesAreWhole /\ (cursor.pid = pid => cursor.seq <= Len(log))

\* The numbers of what was told or taken back; 0 is a pdg event's.
Past == {0} \cup undone \cup {log[s].n : s \in DOMAIN log}

\* What the call under way did came after all of those, and so its changes of the scene.
NumberInv ==
  /\ \A m \in Past : m <= changes
  /\ 0 \notin undone /\ \A s \in DOMAIN log : log[s].n \notin undone
  /\ Holding =>
       /\ \A i \in DOMAIN batch : batch[i].n <= changes /\ \A m \in Past : m < batch[i].n
       /\ node # work.before \/ created # {} => \A m \in Past : m < changes

IInv == TypeOK /\ RingInv /\ ReaderInv /\ NumberInv

-----------------------------------------------------------------------------
(* Numbers.                                                                *)

\* A set of numbers has a least one: they are well-founded.
LEMMA LeastOf ==
  ASSUME NEW S, S \subseteq Nat, S # {}
  PROVE  \E m \in S : \A k \in S : m <= k
  <1> DEFINE R == OpToRel(<, Nat)
  <1>1. IsWellFoundedOn(R, Nat)
    BY NatLessThanWellFounded
  <1>2. R = {ss \in Nat \X Nat : ss[1] < ss[2]}
    BY DEF OpToRel
  <1> HIDE DEF R
  <1>3. PICK m \in S : \A y \in S : ~(<<y, m>> \in R)
    BY <1>1, WFMin
  <1>4. \A k \in S : m <= k
    <2> TAKE k \in S
    <2>1. m \in Nat /\ k \in Nat /\ <<k, m>> \notin R
      BY <1>3
    <2>2. k < m => <<k, m>> \in R
      <3>1. <<k, m>> \in Nat \X Nat /\ <<k, m>>[1] = k /\ <<k, m>>[2] = m
        BY <2>1
      <3> QED BY <1>2, <3>1
    <2> QED BY <2>1, <2>2
  <1> QED BY <1>4

\* A set of numbers with a bound has a greatest one.
LEMMA GreatestOf ==
  ASSUME NEW n \in Nat, NEW S, S \subseteq 1 .. n, S # {}
  PROVE  \E m \in S : \A k \in S : k <= m
  <1> DEFINE T == {n - x : x \in S}
  <1>1. \A x \in S : x \in Nat /\ n - x \in Nat
    OBVIOUS
  <1>2. T \subseteq Nat /\ T # {}
    BY <1>1
  <1>3. PICK t \in T : \A k \in T : t <= k
    BY <1>2, LeastOf
  <1>4. PICK m \in S : t = n - m
    OBVIOUS
  <1>5. \A k \in S : n - m <= n - k
    BY <1>3, <1>4
  <1> QED BY <1>1, <1>5

\* So has a finite set of numbers.
LEMMA HighestOf ==
  ASSUME NEW S \in SUBSET Nat, IsFiniteSet(S), S # {}
  PROVE  Highest(S) \in S /\ \A r \in S : r <= Highest(S)
  <1>1. \E s \in S : \A r \in S : r <= s
    <2> DEFINE Above(s) == {r \in S : r > s}
    <2> DEFINE Counts == {Cardinality(Above(s)) : s \in S}
    <2>1. \A s \in S : IsFiniteSet(Above(s)) /\ Cardinality(Above(s)) \in Nat
      BY FS_Subset, FS_CardinalityType
    <2>2. Counts \subseteq Nat /\ Counts # {}
      BY <2>1
    <2>3. PICK m \in Counts : \A k \in Counts : m <= k
      BY <2>2, LeastOf
    <2>4. PICK s \in S : m = Cardinality(Above(s))
      OBVIOUS
    <2>5. ASSUME NEW r \in S, r > s
          PROVE  FALSE
      <3>1. Above(r) \subseteq Above(s) /\ r \in Above(s) /\ r \notin Above(r)
        BY <2>4, <2>5
      <3>2. Cardinality(Above(r)) <= Cardinality(Above(s))
            /\ (Cardinality(Above(s)) = Cardinality(Above(r)) => Above(s) = Above(r))
        <4> HIDE DEF Above
        <4> QED BY <2>1, <3>1, FS_Subset
      <3>3. m <= Cardinality(Above(r))
        BY <2>3, <2>5
      <3> HIDE DEF Above
      <3> QED BY <2>1, <2>4, <2>5, <3>1, <3>2, <3>3
    <2> QED BY <2>5
  <1> QED BY <1>1 DEF Highest

\* The lowest of a set of numbers is one of them and below the others.
LEMMA LowestOf ==
  ASSUME NEW S \in SUBSET Nat, S # {}
  PROVE  Lowest(S) \in S /\ \A r \in S : Lowest(S) <= r
  BY LeastOf DEF Lowest

\* The k-th of some places is one of them.
LEMMA NthIs ==
  ASSUME NEW n \in Nat, NEW I \in SUBSET (1 .. n), NEW k \in 1 .. Cardinality(I)
  PROVE  Nth(I, k) \in I
  <1> DEFINE Upto(m) == {j \in I : j <= m}
  <1> DEFINE Enough == {m \in Nat : Cardinality(Upto(m)) >= k}
  <1>1. IsFiniteSet(I) /\ Cardinality(I) \in Nat /\ \A m \in Nat :
          IsFiniteSet(Upto(m)) /\ Cardinality(Upto(m)) \in Nat
    <2>1. IsFiniteSet(1 .. n)
      BY FS_Interval
    <2>2. IsFiniteSet(I)
      BY <2>1, FS_Subset
    <2> QED BY <2>2, FS_Subset, FS_CardinalityType
  <1>i. \A j \in I : j \in Nat /\ j # 0 /\ j <= n
    OBVIOUS
  <1>2. Upto(n) = I
    BY <1>i
  <1>3. PICK m \in Enough : \A i \in Enough : m <= i
    <2>1. n \in Enough
      <3> HIDE DEF Upto
      <3> QED BY <1>1, <1>2
    <2>2. Enough \subseteq Nat
      OBVIOUS
    <2> HIDE DEF Enough
    <2> QED BY <2>1, <2>2, LeastOf
  <1>n. m \in Nat
    BY <1>3
  <1>4. m # 0
    <2>1. \A j \in I : ~ (j <= 0)
      BY <1>i
    <2>3. Upto(0) = {}
      BY <2>1
    <2>2. Cardinality(Upto(0)) = 0
      BY <2>3, FS_EmptySet
    <2> HIDE DEF Upto
    <2> QED BY <1>3, <2>2
  <1>5. m - 1 \in Nat /\ ~ (Cardinality(Upto(m - 1)) >= k)
    <2>1. m - 1 \in Nat /\ m - 1 < m
      BY <1>4, <1>n
    <2>2. m - 1 \notin Enough
      <3> HIDE DEF Enough
      <3>1. m - 1 \in Enough => m <= m - 1
        BY <1>3
      <3> QED BY <1>n, <2>1, <3>1
    <2> HIDE DEF Upto
    <2> QED BY <2>1, <2>2
  <1>6. m \in I
    <2>1. SUFFICES ASSUME m \notin I PROVE FALSE
      OBVIOUS
    <2>2. Upto(m) = Upto(m - 1)
      <3>1. \A j \in I : j <= m <=> j <= m - 1
        BY <1>4, <1>i, <1>n, <2>1
      <3> QED BY <3>1
    <2> HIDE DEF Upto
    <2> QED BY <1>3, <1>5, <2>2
  <1>7. Cardinality(Upto(m)) = Cardinality(Upto(m - 1)) + 1
    <2>1. Upto(m) = Upto(m - 1) \cup {m} /\ m \notin Upto(m - 1)
      <3>1. \A j \in I : j <= m <=> j <= m - 1 \/ j = m
        BY <1>4, <1>6, <1>i, <1>n
      <3>2. m <= m /\ ~ (m <= m - 1)
        BY <1>n
      <3> QED BY <1>6, <3>1, <3>2
    <2> HIDE DEF Upto
    <2> QED BY <1>1, <1>5, <2>1, FS_AddElement
  <1>8. Cardinality(Upto(m)) = k
    <2> HIDE DEF Upto
    <2> QED BY <1>1, <1>3, <1>5, <1>7
  <1> QED BY <1>6, <1>8 DEF Nth

\* What is picked from a sequence is in it.
LEMMA PickIs ==
  ASSUME NEW S, NEW es \in Seq(S), NEW I \in SUBSET (DOMAIN es)
  PROVE  /\ Pick(es, I) \in Seq(S)
         /\ \A k \in DOMAIN Pick(es, I) : \E i \in I : Pick(es, I)[k] = es[i]
  <1>1. Len(es) \in Nat /\ DOMAIN es = 1 .. Len(es)
    OBVIOUS
  <1>2. Cardinality(I) \in Nat
    <2>1. IsFiniteSet(1 .. Len(es))
      BY <1>1, FS_Interval
    <2>2. IsFiniteSet(I)
      BY <1>1, <2>1, FS_Subset
    <2> QED BY <2>2, FS_CardinalityType
  <1>3. \A k \in 1 .. Cardinality(I) : Nth(I, k) \in I
    BY <1>1, NthIs
  <1>4. \A k \in 1 .. Cardinality(I) : es[Nth(I, k)] \in S
    BY <1>3
  <1> QED BY <1>2, <1>3, <1>4 DEF Pick

\* The newest of some numbers are above the others, and no more than asked for.
LEMMA LatestIs ==
  ASSUME NEW S \in SUBSET Nat, IsFiniteSet(S), NEW n \in Nat
  PROVE  /\ Latest(S, n) \subseteq S /\ Cardinality(Latest(S, n)) <= n
         /\ \A s \in S \ Latest(S, n), r \in Latest(S, n) : s < r
  <1> DEFINE From(s) == {r \in S : r >= s}
  <1>1. \A s \in Nat : IsFiniteSet(From(s)) /\ Cardinality(From(s)) \in Nat
    BY FS_Subset, FS_CardinalityType
  <1>2. Latest(S, n) = {s \in S : Cardinality(From(s)) <= n}
    BY DEF Latest
  <1>3. ASSUME NEW s \in S \ Latest(S, n), NEW r \in Latest(S, n), r <= s
        PROVE  FALSE
    <2>1. r \in S /\ s \in S /\ Cardinality(From(r)) <= n /\ ~ (Cardinality(From(s)) <= n)
      BY <1>2
    <2>2. From(s) \subseteq From(r)
      <3>1. r \in Nat /\ s \in Nat /\ r <= s /\ \A q \in S : q \in Nat
        BY <1>3, <2>1
      <3>2. \A q \in S : q >= s => q >= r
        BY <3>1
      <3> QED BY <3>2
    <2> HIDE DEF From
    <2>3. Cardinality(From(s)) <= Cardinality(From(r))
      BY <1>1, <2>1, <2>2, FS_Subset
    <2> QED BY <1>1, <2>1, <2>3
  <1>4. Cardinality(Latest(S, n)) <= n
    <2>1. CASE Latest(S, n) = {}
      BY <2>1, FS_EmptySet
    <2>2. CASE Latest(S, n) # {}
      <3>1. PICK m \in Latest(S, n) : \A k \in Latest(S, n) : m <= k
        <4>1. Latest(S, n) \subseteq Nat
          BY <1>2
        <4> QED BY <2>2, <4>1, LeastOf
      <3>2. m \in S /\ Cardinality(From(m)) <= n /\ Latest(S, n) \subseteq From(m)
        BY <1>2, <3>1
      <3> HIDE DEF From
      <3>3. Cardinality(Latest(S, n)) <= Cardinality(From(m))
            /\ IsFiniteSet(Latest(S, n)) /\ m \in Nat
        BY <1>1, <3>2, FS_Subset
      <3>4. Cardinality(Latest(S, n)) \in Nat
        BY <3>3, FS_CardinalityType
      <3> QED BY <1>1, <3>2, <3>3, <3>4
    <2> QED BY <2>1, <2>2
  <1>5. \A s \in S \ Latest(S, n), r \in Latest(S, n) : s \in Nat /\ r \in Nat
    BY <1>2
  <1> QED BY <1>2, <1>3, <1>4, <1>5

\* The first of some numbers are below the others, and there is one if there is any number.
LEMMA FirstIs ==
  ASSUME NEW S \in SUBSET Nat, IsFiniteSet(S), NEW n \in Nat \ {0}
  PROVE  /\ First(S, n) \subseteq S /\ (S # {} => First(S, n) # {})
         /\ \A s \in First(S, n), r \in S \ First(S, n) : s < r
  <1> DEFINE Upto(s) == {r \in S : r <= s}
  <1>1. \A s \in Nat : IsFiniteSet(Upto(s)) /\ Cardinality(Upto(s)) \in Nat
    BY FS_Subset, FS_CardinalityType
  <1>2. First(S, n) = {s \in S : Cardinality(Upto(s)) <= n}
    BY DEF First
  <1>3. ASSUME NEW s \in First(S, n), NEW r \in S \ First(S, n), r <= s
        PROVE  FALSE
    <2>1. r \in S /\ s \in S /\ Cardinality(Upto(s)) <= n /\ ~ (Cardinality(Upto(r)) <= n)
      BY <1>2
    <2>2. Upto(r) \subseteq Upto(s)
      <3>1. r \in Nat /\ s \in Nat /\ r <= s /\ \A q \in S : q \in Nat
        BY <1>3, <2>1
      <3>2. \A q \in S : q <= r => q <= s
        BY <3>1
      <3> QED BY <3>2
    <2> HIDE DEF Upto
    <2>3. Cardinality(Upto(r)) <= Cardinality(Upto(s))
      BY <1>1, <2>1, <2>2, FS_Subset
    <2> QED BY <1>1, <2>1, <2>3
  <1>4. ASSUME S # {}
        PROVE  First(S, n) # {}
    <2>1. PICK m \in S : \A k \in S : m <= k
      BY <1>4, LeastOf
    <2>2. Upto(m) = {m}
      <3>1. m \in S /\ \A q \in S : q \in Nat /\ m \in Nat /\ m <= q
        BY <2>1
      <3>2. \A q \in S : q <= m <=> q = m
        BY <3>1
      <3> QED BY <3>1, <3>2
    <2>3. Cardinality(Upto(m)) = 1
      BY <2>2, FS_Singleton
    <2> HIDE DEF Upto
    <2> QED BY <1>2, <2>1, <2>3
  <1>5. \A s \in First(S, n), r \in S \ First(S, n) : s \in Nat /\ r \in Nat
    BY <1>2
  <1> QED BY <1>2, <1>3, <1>4, <1>5

\* The ring keeps the newest of what was there and what is new.
LEMMA RingKept ==
  ASSUME EventsAssumption, NEW L \in Nat, NEW M \in Nat, L <= M, NEW R \in SUBSET (1 .. L), NEW T,
         \A s \in 1 .. L : s \in R \cup T \/ \A r \in R : s < r
  PROVE  LET N == Latest(R \cup (L + 1 .. M), RingSize) IN
         /\ N \subseteq 1 .. M /\ Cardinality(N) <= RingSize
         /\ \A s \in 1 .. M : s \in N \cup T \/ \A r \in N : s < r
  <1> DEFINE S == R \cup (L + 1 .. M)
  <1> DEFINE N == Latest(S, RingSize)
  <1>1. S \in SUBSET (1 .. M) /\ S \in SUBSET Nat /\ RingSize \in Nat
    BY DEF EventsAssumption
  <1>s. \A q \in S : q \in R \/ (q \in Nat /\ q > L)
    OBVIOUS
  <1>2. IsFiniteSet(S)
    <2>1. IsFiniteSet(1 .. M)
      BY FS_Interval
    <2> QED BY <1>1, <2>1, FS_Subset
  <1>3. /\ N \subseteq S /\ Cardinality(N) <= RingSize
        /\ \A s \in S \ N, r \in N : s < r
    <2> HIDE DEF S
    <2> QED BY <1>1, <1>2, LatestIs
  <1>4. ASSUME NEW s \in 1 .. M, s \notin N, s \notin T, NEW r \in N
        PROVE  s < r
    <2>1. CASE s \in S
      BY <1>3, <1>4, <2>1
    <2>2. CASE s \notin S
      <3>1. s \in 1 .. L /\ \A q \in R : s < q
        BY <1>4, <2>2
      <3>2. r \in R \/ (r \in Nat /\ r > L)
        <4>1. r \in S
          BY <1>3
        <4> QED BY <1>s, <4>1
      <3>3. s \in Nat /\ s <= L
        BY <3>1
      <3>4. CASE r \in R
        BY <3>1, <3>4
      <3>5. CASE r \in Nat /\ r > L
        BY <3>3, <3>5
      <3> QED BY <3>2, <3>4, <3>5
    <2> QED BY <2>1, <2>2
  <1> HIDE DEF N
  <1>5. /\ N \subseteq 1 .. M /\ Cardinality(N) <= RingSize
        /\ \A s \in 1 .. M : s \in N \cup T \/ \A r \in N : s < r
    BY <1>1, <1>3, <1>4
  <1> QED BY <1>5 DEF N

-----------------------------------------------------------------------------
(* What is recorded.                                                       *)

LEMMA SettledIs ==
  ASSUME NEW S, NEW es \in Seq(S)
  PROVE  /\ Settled(es) \in Seq(S)
         /\ \A k \in DOMAIN Settled(es) : \E i \in DOMAIN es : Settled(es)[k] = es[i]
  <1> DEFINE I == DOMAIN es \ Dropped(es)
  <1>1. I \in SUBSET (DOMAIN es)
    OBVIOUS
  <1>2. Settled(es) = Pick(es, I)
    BY DEF Settled
  <1> HIDE DEF I
  <1>3. /\ Pick(es, I) \in Seq(S)
        /\ \A k \in DOMAIN Pick(es, I) : \E i \in I : Pick(es, I)[k] = es[i]
    BY <1>1, PickIs
  <1> QED BY <1>1, <1>2, <1>3

\* Several nodes in some order.
LEMMA ListedIs ==
  ASSUME EventsAssumption, NEW S \in SUBSET Node
  PROVE  SetToSeq(S) \in Seq(S)
  <1>1. IsFiniteSet(S)
    <2>1. IsFiniteSet({"top", "kid"})
      <3>1. IsFiniteSet({"top"})
        BY FS_Singleton
      <3>2. {"top", "kid"} = {"top"} \cup {"kid"}
        OBVIOUS
      <3>3. IsFiniteSet({"top"} \cup {"kid"})
        BY <3>1, FS_AddElement
      <3> QED BY <3>2, <3>3
    <2>2. IsFiniteSet(Node)
      BY <2>1, FS_Product DEF Node, EventsAssumption
    <2> QED BY <2>2, FS_Subset
  <1>2. Cardinality(S) \in Nat /\ \E f \in [1 .. Cardinality(S) -> S] : IsInjective(f)
    <2>1. Cardinality(S) \in Nat /\ ExistsBijection(1 .. Cardinality(S), S)
      BY <1>1, FS_CardinalityType
    <2>2. PICK f \in [1 .. Cardinality(S) -> S] :
            \A i, j \in 1 .. Cardinality(S) : f[i] = f[j] => i = j
      BY <2>1 DEF ExistsBijection, Bijection, Injection, IsInjective
    <2> QED BY <2>1, <2>2 DEF IsInjective
  <1>3. SetToSeq(S) \in [1 .. Cardinality(S) -> S]
    BY <1>2 DEF SetToSeq
  <1> QED BY <1>2, <1>3

\* The events of an undo are new, and there are none if there was nothing to undo.
LEMMA UndoingIs ==
  ASSUME EventsAssumption, TypeOK, work # NoWork
  PROVE  /\ Undoing \in Seq(Happenings)
         /\ \A i \in DOMAIN Undoing : Undoing[i].n = changes
         /\ Undoing # <<>> => batch # <<>> \/ node # work.before
  <1> DEFINE heard == {i \in DOMAIN batch : /\ batch[i].path[2] = "top"
                                            /\ batch[i].kind \in {"ChildCreated", "ChildDeleted"}}
             tops == Pick(batch, heard)
             last(i) == tops[Len(tops) + 1 - i]
             kept(t) == Top(t) \in watched /\ ~ \E i \in heard : batch[i].path = Top(t)
             lone == {p \in Node : p[2] = "kid" /\ kept(p[1]) /\ (p \in node) # (p \in work.before)}
             kids == SetToSeq(lone)
             back(kind) == IF kind = "ChildCreated" THEN "ChildDeleted" ELSE "ChildCreated"
             first == [i \in DOMAIN tops |-> EventOf(changes, back(last(i).kind), last(i).path, "agent")]
             then == [i \in DOMAIN kids |->
                       EventOf(changes, IF kids[i] \in node THEN "ChildDeleted" ELSE "ChildCreated",
                               kids[i], "agent")]
  <1>1. Undoing = IF Quiet THEN <<>> ELSE first \o then
    BY DEF Undoing
  <1>2. batch \in Seq(Happenings) /\ changes \in 0 .. MaxChanges /\ MaxChanges \in Nat
    BY DEF TypeOK, EventsAssumption
  <1>3. /\ tops \in Seq(Happenings)
        /\ \A k \in DOMAIN tops : \E i \in heard : tops[k] = batch[i]
    <2>1. heard \in SUBSET (DOMAIN batch)
      OBVIOUS
    <2> HIDE DEF heard
    <2> QED BY <1>2, <2>1, PickIs
  <1>4. kids \in Seq(lone)
    <2>1. lone \in SUBSET Node
      OBVIOUS
    <2> HIDE DEF lone
    <2> QED BY <2>1, ListedIs
  <1>5. \A i \in DOMAIN first : first[i] \in Happenings /\ first[i].n = changes
    <2> HIDE DEF tops
    <2> TAKE i \in DOMAIN first
    <2>1. Len(tops) \in Nat /\ i \in 1 .. Len(tops)
      BY <1>3
    <2>2. Len(tops) + 1 - i \in DOMAIN tops
      BY <1>3, <2>1
    <2>3. last(i) \in Happenings
      BY <1>3, <2>2
    <2>4. last(i).path \in Node \cup {Hip} /\ back(last(i).kind) \in Kinds
      BY <2>3 DEF Happenings, Kinds
    <2> HIDE DEF last, back
    <2>5. first[i] = EventOf(changes, back(last(i).kind), last(i).path, "agent")
      OBVIOUS
    <2> QED BY <1>2, <2>4, <2>5 DEF EventOf, Happenings, Origins
  <1>6. \A i \in DOMAIN then : then[i] \in Happenings /\ then[i].n = changes
    <2> TAKE i \in DOMAIN then
    <2>1. kids[i] \in Node
      <3> HIDE DEF kids
      <3>1. kids[i] \in lone
        BY <1>4
      <3> QED BY <3>1
    <2> HIDE DEF kids
    <2>2. then[i] = EventOf(changes, IF kids[i] \in node THEN "ChildDeleted" ELSE "ChildCreated",
                            kids[i], "agent")
      OBVIOUS
    <2> QED BY <1>2, <2>1, <2>2 DEF EventOf, Happenings, Origins, Kinds
  <1>7. first \in Seq(Happenings) /\ Len(first) = Len(tops)
    <2> HIDE DEF tops, last, back
    <2>1. first = [i \in 1 .. Len(tops) |-> first[i]]
      BY <1>3
    <2> HIDE DEF first
    <2> QED BY <1>3, <1>5, <2>1
  <1>8. then \in Seq(Happenings) /\ Len(then) = Len(kids)
    <2> HIDE DEF kids
    <2>1. then = [i \in 1 .. Len(kids) |-> then[i]]
      BY <1>4
    <2> HIDE DEF then
    <2> QED BY <1>4, <1>6, <2>1
  <1>9. first \o then # <<>> => batch # <<>> \/ node # work.before
    <2>1. SUFFICES ASSUME batch = <<>>, node = work.before
                   PROVE  first \o then = <<>>
      OBVIOUS
    <2>2. heard = {} /\ lone = {}
      BY <2>1
    <2>3. Len(tops) = 0
      <3> HIDE DEF heard
      <3>1. DOMAIN tops = {}
        BY <1>3, <2>2
      <3> HIDE DEF tops
      <3> QED BY <1>3, <3>1
    <2>4. Len(kids) = 0
      <3> HIDE DEF lone
      <3>1. kids \in Seq({})
        BY <1>4, <2>2
      <3> HIDE DEF kids
      <3> QED BY <3>1
    <2> HIDE DEF first, then, tops, kids
    <2> QED BY <1>7, <1>8, <2>3, <2>4
  <1>a. first \o then \in Seq(Happenings)
        /\ \A i \in DOMAIN (first \o then) : (first \o then)[i].n = changes
    <2>1. \A i \in DOMAIN first : first[i].n = changes
      BY <1>5
    <2>2. \A i \in DOMAIN then : then[i].n = changes
      BY <1>6
    <2> HIDE DEF first, then, tops, kids
    <2> QED BY <1>7, <1>8, <2>1, <2>2
  <1> HIDE DEF first, then
  <1> QED BY <1>1, <1>9, <1>a

\* An event of a change of the scene.
LEMMA EventIs ==
  ASSUME EventsAssumption, TypeOK, changes + 1 <= MaxChanges,
         NEW kind \in Kinds, NEW path \in Node \cup {Hip}, NEW origin \in Origins
  PROVE  Event(kind, path, origin) \in Happenings /\ Event(kind, path, origin).n = changes + 1
  <1>1. changes + 1 \in 0 .. MaxChanges
    BY DEF TypeOK, EventsAssumption
  <1> QED BY <1>1 DEF Event, EventOf, Happenings

LEMMA OneIs ==
  ASSUME NEW e \in Happenings
  PROVE  <<e>> \in Seq(Happenings) /\ \A i \in DOMAIN <<e>> : <<e>>[i].n = e.n
  OBVIOUS

LEMMA BothAre ==
  ASSUME NEW m, NEW es \in Seq(Happenings), NEW fs \in Seq(Happenings),
         \A i \in DOMAIN es : es[i].n = m, \A i \in DOMAIN fs : fs[i].n = m
  PROVE  es \o fs \in Seq(Happenings) /\ \A i \in DOMAIN (es \o fs) : (es \o fs)[i].n = m
  OBVIOUS

\* The events of nodes that die.
LEMMA DyingAre ==
  ASSUME EventsAssumption, TypeOK, changes + 1 <= MaxChanges, NEW t \in Tops, NEW nodes
  PROVE  /\ BeingDeleted(t, nodes) \in Seq(Happenings)
         /\ \A i \in DOMAIN BeingDeleted(t, nodes) : BeingDeleted(t, nodes)[i].n = changes + 1
  <1> DEFINE es == [i \in 1 .. 2 |-> Event("BeingDeleted", Family(t)[i], Origin)]
             I == {i \in 1 .. 2 : Family(t)[i] \in nodes \cap watched}
  <1>1. \A i \in 1 .. 2 : es[i] \in Happenings /\ es[i].n = changes + 1
    <2> TAKE i \in 1 .. 2
    <2>1. Family(t)[i] \in Node
      BY DEF Family, Kid, Top, Node
    <2>2. "BeingDeleted" \in Kinds /\ Origin \in Origins
      BY DEF Kinds, Origins, Origin
    <2> QED BY <2>1, <2>2, EventIs
  <1>2. es \in Seq(Happenings) /\ I \in SUBSET (DOMAIN es) /\ DOMAIN es = 1 .. 2
    BY <1>1
  <1>3. BeingDeleted(t, nodes) = Pick(es, I)
    BY DEF BeingDeleted
  <1> HIDE DEF es, I
  <1>4. /\ Pick(es, I) \in Seq(Happenings)
        /\ \A k \in DOMAIN Pick(es, I) : \E i \in I : Pick(es, I)[k] = es[i]
    BY <1>2, PickIs
  <1> QED BY <1>1, <1>2, <1>3, <1>4

\* What is heard: held in a call, else published.
Heard(es) ==
  IF Holding THEN batch' = batch \o es /\ UNCHANGED <<log, ring>> ELSE Publish(es) /\ batch' = batch

LEMMA RecordIs ==
  ASSUME NEW m, NEW es \in Seq(Happenings), \A i \in DOMAIN es : es[i].n = m, NEW soon,
         Record(es, soon)
  PROVE  \E kept \in Seq(Happenings) : (\A i \in DOMAIN kept : kept[i].n = m) /\ Heard(kept)
  <1> DEFINE I == {i \in DOMAIN es : ~(soon /\ Repeats(es[i]))}
  <1>1. I \in SUBSET (DOMAIN es)
    OBVIOUS
  <1>2. Heard(Pick(es, I))
    BY DEF Record, Heard
  <1> HIDE DEF I
  <1>3. /\ Pick(es, I) \in Seq(Happenings)
        /\ \A k \in DOMAIN Pick(es, I) : \E i \in I : Pick(es, I)[k] = es[i]
    BY <1>1, PickIs
  <1>4. \A k \in DOMAIN Pick(es, I) : Pick(es, I)[k].n = m
    BY <1>1, <1>3
  <1> QED BY <1>2, <1>3, <1>4

\* A change of the scene: what the hooks hear of it has its number.
Change ==
  /\ changes' = changes + 1 /\ changes + 1 <= MaxChanges
  /\ \/ UNCHANGED <<batch, log, ring>>
     \/ \E es \in Seq(Happenings) : (\A i \in DOMAIN es : es[i].n = changes + 1) /\ Heard(es)
  /\ UNCHANGED <<works, pid, cursor, seen, taken, undone>>
  /\ work' = work \/ (Holding /\ work' = [work EXCEPT !.loaded = TRUE])

LEMMA ChangesIs ==
  ASSUME EventsAssumption, TypeOK, Changes
  PROVE  changes' = changes + 1 /\ changes + 1 <= MaxChanges
  BY DEF Changes, TypeOK, EventsAssumption

LEMMA CreateTopIs ==
  ASSUME EventsAssumption, TypeOK, NEW t \in Tops, NEW kid \in BOOLEAN, NEW soon \in BOOLEAN,
         CreateTop(t, kid, soon)
  PROVE  Change /\ recent' = recent
  <1>1. changes' = changes + 1 /\ changes + 1 <= MaxChanges
    BY ChangesIs DEF CreateTop
  <1>2. UNCHANGED <<works, pid, cursor, seen, taken, undone, work, recent>>
    BY DEF CreateTop, events, bounds, reader
  <1>3. \/ UNCHANGED <<batch, log, ring>>
        \/ \E es \in Seq(Happenings) : (\A i \in DOMAIN es : es[i].n = changes + 1) /\ Heard(es)
    <2>1. CASE Quiet
      BY <2>1 DEF CreateTop, events
    <2>2. CASE ~Quiet
      <3> DEFINE e == Event("ChildCreated", Top(t), Origin)
      <3>1. Record(<<e>>, soon)
        BY <2>2 DEF CreateTop
      <3>2. e \in Happenings /\ e.n = changes + 1
        <4>1. "ChildCreated" \in Kinds /\ Top(t) \in Node \cup {Hip} /\ Origin \in Origins
          BY DEF Kinds, Top, Node, Origins, Origin
        <4> QED BY <1>1, <4>1, EventIs
      <3> HIDE DEF e
      <3> QED BY <3>1, <3>2, OneIs, RecordIs
    <2> QED BY <2>1, <2>2
  <1> QED BY <1>1, <1>2, <1>3 DEF Change

\* What is heard of a child.
LEMMA ChildIs ==
  ASSUME EventsAssumption, TypeOK, changes + 1 <= MaxChanges, NEW t \in Tops, NEW soon \in BOOLEAN,
         NEW kind \in Kinds, NEW before \in Seq(Happenings),
         \A i \in DOMAIN before : before[i].n = changes + 1, Child(kind, t, soon, before)
  PROVE  /\ recent' = recent
         /\ \/ UNCHANGED <<batch, log, ring>>
            \/ \E es \in Seq(Happenings) : (\A i \in DOMAIN es : es[i].n = changes + 1) /\ Heard(es)
  <1>1. CASE Quiet
    BY <1>1 DEF Child, events
  <1>2. CASE ~Quiet
    <2> DEFINE e == Event(kind, Kid(t), Origin)
               then == IF Top(t) \in watched THEN <<e>> ELSE <<>>
    <2>1. Record(before \o then, soon) /\ recent' = recent
      BY <1>2 DEF Child
    <2>2. e \in Happenings /\ e.n = changes + 1
      <3>1. Kid(t) \in Node \cup {Hip} /\ Origin \in Origins
        BY DEF Kid, Node, Origins, Origin
      <3> QED BY <3>1, EventIs
    <2>3. then \in Seq(Happenings) /\ \A i \in DOMAIN then : then[i].n = changes + 1
      <3> HIDE DEF e
      <3>1. <<e>> \in Seq(Happenings) /\ \A i \in DOMAIN <<e>> : <<e>>[i].n = changes + 1
        BY <2>2, OneIs
      <3> QED BY <3>1
    <2> HIDE DEF then
    <2>4. before \o then \in Seq(Happenings)
          /\ \A i \in DOMAIN (before \o then) : (before \o then)[i].n = changes + 1
      BY <2>3, BothAre
    <2> QED BY <2>1, <2>4, RecordIs
  <1> QED BY <1>1, <1>2

LEMMA CreateKidIs ==
  ASSUME EventsAssumption, TypeOK, NEW t \in Tops, NEW soon \in BOOLEAN, CreateKid(t, soon)
  PROVE  Change /\ recent' = recent
  <1>1. changes' = changes + 1 /\ changes + 1 <= MaxChanges
    BY ChangesIs DEF CreateKid
  <1>2. UNCHANGED <<works, pid, cursor, seen, taken, undone, work>>
    BY DEF CreateKid, bounds, reader
  <1>3. "ChildCreated" \in Kinds /\ <<>> \in Seq(Happenings)
        /\ \A i \in DOMAIN <<>> : <<>>[i].n = changes + 1
    BY DEF Kinds
  <1>4. Child("ChildCreated", t, soon, <<>>)
    BY DEF CreateKid
  <1> QED BY <1>1, <1>2, <1>3, <1>4, ChildIs DEF Change

LEMMA DeleteKidIs ==
  ASSUME EventsAssumption, TypeOK, NEW t \in Tops, NEW soon \in BOOLEAN, DeleteKid(t, soon)
  PROVE  Change /\ recent' = recent
  <1>1. changes' = changes + 1 /\ changes + 1 <= MaxChanges
    BY ChangesIs DEF DeleteKid
  <1>2. UNCHANGED <<works, pid, cursor, seen, taken, undone, work>>
    BY DEF DeleteKid, bounds, reader
  <1>3. "ChildDeleted" \in Kinds
    BY DEF Kinds
  <1>4. Child("ChildDeleted", t, soon, BeingDeleted(t, {Kid(t)}))
    BY DEF DeleteKid
  <1>5. /\ BeingDeleted(t, {Kid(t)}) \in Seq(Happenings)
        /\ \A i \in DOMAIN BeingDeleted(t, {Kid(t)}) : BeingDeleted(t, {Kid(t)})[i].n = changes + 1
    BY <1>1, DyingAre
  <1> QED BY <1>1, <1>2, <1>3, <1>4, <1>5, ChildIs DEF Change

LEMMA DeleteTopIs ==
  ASSUME EventsAssumption, TypeOK, NEW t \in Tops, NEW soon \in BOOLEAN, DeleteTop(t, soon)
  PROVE  Change /\ recent' = recent
  <1>1. changes' = changes + 1 /\ changes + 1 <= MaxChanges
    BY ChangesIs DEF DeleteTop
  <1>2. UNCHANGED <<works, pid, cursor, seen, taken, undone, work, recent>>
    BY DEF DeleteTop, bounds, reader, events
  <1>3. \/ UNCHANGED <<batch, log, ring>>
        \/ \E es \in Seq(Happenings) : (\A i \in DOMAIN es : es[i].n = changes + 1) /\ Heard(es)
    <2>1. CASE Quiet
      BY <2>1 DEF DeleteTop, events
    <2>2. CASE ~Quiet
      <3> DEFINE e == Event("ChildDeleted", Top(t), Origin)
                 before == BeingDeleted(t, Below(Top(t)))
      <3>1. Record(before \o <<e>>, soon)
        BY <2>2 DEF DeleteTop
      <3>2. e \in Happenings /\ e.n = changes + 1
        <4>1. "ChildDeleted" \in Kinds /\ Top(t) \in Node \cup {Hip} /\ Origin \in Origins
          BY DEF Kinds, Top, Node, Origins, Origin
        <4> QED BY <1>1, <4>1, EventIs
      <3>3. before \in Seq(Happenings) /\ \A i \in DOMAIN before : before[i].n = changes + 1
        BY <1>1, DyingAre
      <3> HIDE DEF e, before
      <3>4. <<e>> \in Seq(Happenings) /\ \A i \in DOMAIN <<e>> : <<e>>[i].n = changes + 1
        BY <3>2, OneIs
      <3> DEFINE es == before \o <<e>>
      <3>5. es \in Seq(Happenings) /\ \A i \in DOMAIN es : es[i].n = changes + 1
        BY <3>3, <3>4, BothAre
      <3> HIDE DEF es
      <3>6. Record(es, soon)
        BY <3>1 DEF es
      <3> QED BY <3>5, <3>6, RecordIs
    <2> QED BY <2>1, <2>2
  <1> QED BY <1>1, <1>2, <1>3 DEF Change

LEMMA SetParmIs ==
  ASSUME EventsAssumption, TypeOK, NEW p \in Node, NEW houdini \in BOOLEAN, NEW soon \in BOOLEAN,
         SetParm(p, houdini, soon)
  PROVE  Change /\ (recent' = recent \/ recent' = [recent EXCEPT ![p] = changes + 1])
  <1>1. changes' = changes + 1 /\ changes + 1 <= MaxChanges
    BY ChangesIs DEF SetParm
  <1>2. UNCHANGED <<works, pid, cursor, seen, taken, undone, work>>
    BY DEF SetParm, bounds, reader, history
  <1> DEFINE origin == IF houdini THEN "houdini" ELSE Origin
             e == Event("ParmTupleChanged", p, origin)
  <1>3. \/ UNCHANGED events
        \/ Record(<<e>>, FALSE) /\ recent' = [recent EXCEPT ![p] = changes + 1]
    BY DEF SetParm
  <1>4. e \in Happenings /\ e.n = changes + 1
    <2>1. "ParmTupleChanged" \in Kinds /\ p \in Node \cup {Hip} /\ origin \in Origins
      BY DEF Kinds, Origins, Origin
    <2> HIDE DEF origin
    <2> QED BY <1>1, <2>1, EventIs
  <1> HIDE DEF e
  <1>5. CASE UNCHANGED events
    BY <1>1, <1>2, <1>5 DEF Change, events
  <1>6. CASE Record(<<e>>, FALSE) /\ recent' = [recent EXCEPT ![p] = changes + 1]
    <2>1. <<e>> \in Seq(Happenings) /\ \A i \in DOMAIN <<e>> : <<e>>[i].n = changes + 1
      BY <1>4, OneIs
    <2>2. \E es \in Seq(Happenings) : (\A i \in DOMAIN es : es[i].n = changes + 1) /\ Heard(es)
      BY <1>6, <2>1, RecordIs
    <2> QED BY <1>1, <1>2, <1>6, <2>2 DEF Change
  <1> QED BY <1>3, <1>5, <1>6

LEMMA LoadIs ==
  ASSUME EventsAssumption, TypeOK, NEW scene, NEW fails \in BOOLEAN, NEW tool \in BOOLEAN,
         Load(scene, fails, tool)
  PROVE  Change /\ recent' = recent
  <1>1. changes' = changes + 1 /\ changes + 1 <= MaxChanges
    BY ChangesIs DEF Load
  <1>2. /\ UNCHANGED <<works, pid, cursor, seen, taken, undone, recent>>
        /\ work' = work \/ (Holding /\ work' = [work EXCEPT !.loaded = TRUE])
    BY DEF Load, bounds, reader, history
  <1> DEFINE e == Event("BeforeLoad", Hip, Origin)
             f == Event("AfterLoad", Hip, Origin)
             es == IF fails THEN <<e>> ELSE Append(<<e>>, f)
  <1>3. Record(es, FALSE)
    BY DEF Load
  <1>4. e \in Happenings /\ e.n = changes + 1 /\ f \in Happenings /\ f.n = changes + 1
    <2>1. {"BeforeLoad", "AfterLoad"} \subseteq Kinds /\ Hip \in Node \cup {Hip} /\ Origin \in Origins
      BY DEF Kinds, HipKinds, Origins, Origin
    <2> QED BY <1>1, <2>1, EventIs
  <1>5. es \in Seq(Happenings) /\ \A i \in DOMAIN es : es[i].n = changes + 1
    <2> HIDE DEF e, f
    <2> QED BY <1>4
  <1> HIDE DEF es
  <1>6. \E kept \in Seq(Happenings) : (\A i \in DOMAIN kept : kept[i].n = changes + 1) /\ Heard(kept)
    BY <1>3, <1>5, RecordIs
  <1> QED BY <1>1, <1>2, <1>6 DEF Change

-----------------------------------------------------------------------------
(* The log and the ring.                                                   *)

LogInv ==
  /\ log \in Seq(Happenings) /\ ring \subseteq DOMAIN log /\ Cardinality(ring) <= RingSize
  /\ taken \subseteq DOMAIN log /\ RingInv

LEMMA PublishIs ==
  ASSUME EventsAssumption, LogInv, NEW es \in Seq(Happenings), Publish(es), taken' = taken
  PROVE  /\ LogInv' /\ Len(log') = Len(log) + Len(es) /\ log' = log \o es
  <1>1. log' = log \o es /\ log' \in Seq(Happenings) /\ Len(log') = Len(log) + Len(es)
        /\ Len(log) \in Nat /\ Len(es) \in Nat /\ Len(log') \in Nat
        /\ DOMAIN log = 1 .. Len(log) /\ DOMAIN log' = 1 .. Len(log')
    BY DEF LogInv, Publish
  <1>2. /\ ring \in SUBSET (1 .. Len(log)) /\ Len(log) <= Len(log')
        /\ \A s \in 1 .. Len(log) : s \in ring \cup taken \/ \A r \in ring : s < r
    <2>1. Len(log) <= Len(log')
      BY <1>1
    <2>2. ring \subseteq 1 .. Len(log)
      BY <1>1 DEF LogInv
    <2>3. \A s \in 1 .. Len(log) : s \in ring \cup taken \/ \A r \in ring : s < r
      BY <1>1 DEF LogInv, RingInv
    <2> QED BY <2>1, <2>2, <2>3
  <1>3. ring' = Latest(ring \cup (Len(log) + 1 .. Len(log')), RingSize)
    BY <1>1 DEF Publish
  <1>4. /\ ring' \subseteq 1 .. Len(log') /\ Cardinality(ring') <= RingSize
        /\ \A s \in 1 .. Len(log') : s \in ring' \cup taken \/ \A r \in ring' : s < r
    BY <1>1, <1>2, <1>3, RingKept
  <1>5. taken' \subseteq DOMAIN log'
    BY <1>1 DEF LogInv
  <1> QED BY <1>1, <1>4, <1>5 DEF LogInv, RingInv

\* What a change does to the log.
LEMMA LogHeard ==
  ASSUME EventsAssumption, LogInv, taken' = taken,
         \/ UNCHANGED <<batch, log, ring>>
         \/ \E es \in Seq(Happenings) : (\A i \in DOMAIN es : es[i].n = changes + 1) /\ Heard(es)
  PROVE  LogInv' /\ Len(log') >= Len(log)
  <1>1. Len(log) \in Nat
    BY DEF LogInv
  <1>2. CASE log' = log /\ ring' = ring
    BY <1>1, <1>2 DEF LogInv, RingInv
  <1>3. CASE \E es \in Seq(Happenings) : Publish(es)
    <2>1. PICK es \in Seq(Happenings) : Publish(es)
      BY <1>3
    <2>2. Len(es) \in Nat
      OBVIOUS
    <2> QED BY <1>1, <2>1, <2>2, PublishIs
  <1> QED BY <1>2, <1>3 DEF Heard

\* A spare parm edit takes events out of the ring.
LEMMA LogSpare ==
  ASSUME EventsAssumption, TypeOK, LogInv, NEW p \in Node, NEW soon \in BOOLEAN, SetSpare(p, soon)
  PROVE  LogInv' /\ Len(log') >= Len(log) /\ taken \subseteq taken'
  <1> DEFINE mine == IF soon THEN recent[p] ELSE 0
             left == {s \in ring : log[s].n # mine}
             e == Event("SpareParmsChanged", p, Origin)
  <1>1. changes' = changes + 1 /\ changes + 1 <= MaxChanges
    BY ChangesIs DEF SetSpare
  <1>2. e \in Happenings
    <2>1. "SpareParmsChanged" \in Kinds /\ p \in Node \cup {Hip} /\ Origin \in Origins
      BY DEF Kinds, Origins, Origin
    <2> QED BY <1>1, <2>1, EventIs
  <1>3. /\ \/ ring' = left /\ log' = log
           \/ log' = log \o <<e>> /\ ring' = Latest(left \cup {Len(log) + 1}, RingSize)
        /\ taken' = taken \cup (ring \ left)
    BY DEF SetSpare
  <1>4. /\ left \in SUBSET ring /\ IsFiniteSet(ring) /\ Len(log) \in Nat
        /\ DOMAIN log = 1 .. Len(log) /\ log \in Seq(Happenings)
    <2>1. Len(log) \in Nat /\ DOMAIN log = 1 .. Len(log) /\ ring \in SUBSET (1 .. Len(log))
          /\ log \in Seq(Happenings)
      BY DEF LogInv
    <2>2. IsFiniteSet(1 .. Len(log))
      BY <2>1, FS_Interval
    <2>3. IsFiniteSet(ring)
      BY <2>1, <2>2, FS_Subset
    <2> QED BY <2>1, <2>3
  <1> HIDE DEF e, left
  <1>5. /\ left \in SUBSET (1 .. Len(log)) /\ taken' \subseteq DOMAIN log
        /\ \A s \in 1 .. Len(log) : s \in left \cup taken' \/ \A r \in left : s < r
    BY <1>3, <1>4 DEF LogInv, RingInv
  <1>6. CASE ring' = left /\ log' = log
    <2>1. Cardinality(left) <= Cardinality(ring) /\ IsFiniteSet(left)
      BY <1>4, FS_Subset
    <2>2. Cardinality(left) \in Nat /\ Cardinality(ring) \in Nat /\ RingSize \in Nat
      BY <1>4, <2>1, FS_CardinalityType DEF EventsAssumption
    <2>3. Cardinality(left) <= RingSize
      BY <2>1, <2>2 DEF LogInv
    <2> QED BY <1>3, <1>4, <1>5, <1>6, <2>3 DEF LogInv, RingInv
  <1>7. CASE log' = log \o <<e>> /\ ring' = Latest(left \cup {Len(log) + 1}, RingSize)
    <2>1. /\ log' \in Seq(Happenings) /\ Len(log') = Len(log) + 1 /\ DOMAIN log' = 1 .. Len(log')
          /\ Len(log') \in Nat /\ Len(log) <= Len(log')
      BY <1>2, <1>4, <1>7
    <2>2. {Len(log) + 1} = Len(log) + 1 .. Len(log')
      BY <1>4, <2>1
    <2>3. ring' = Latest(left \cup (Len(log) + 1 .. Len(log')), RingSize)
      BY <1>7, <2>2
    <2>4. /\ ring' \subseteq 1 .. Len(log') /\ Cardinality(ring') <= RingSize
          /\ \A s \in 1 .. Len(log') : s \in ring' \cup taken' \/ \A r \in ring' : s < r
      BY <1>4, <1>5, <2>1, <2>3, RingKept
    <2>5. taken' \subseteq DOMAIN log'
      BY <1>4, <1>5, <2>1
    <2> QED BY <1>3, <2>1, <2>4, <2>5 DEF LogInv, RingInv
  <1> QED BY <1>3, <1>6, <1>7

\* What the end of a call publishes, if anything.
LEMMA EndIs ==
  ASSUME NEW discard \in BOOLEAN, NEW es \in Seq(Happenings), EndWork(discard, es)
  PROVE  /\ work' = NoWork /\ batch' = NoBatch /\ created' = {}
         /\ \/ UNCHANGED <<log, ring>>
            \/ \E fs \in Seq(Happenings) :
                 /\ ~discard /\ Publish(fs)
                 /\ \A k \in DOMAIN fs : \E i \in DOMAIN es : fs[k] = es[i]
  BY SettledIs DEF EndWork

\* A failed call's events: its batch and those of its undo.
FailedOf(undoes) == batch \o (IF undoes THEN Undoing ELSE <<>>)

LEMMA FailIs ==
  ASSUME EventsAssumption, TypeOK, NEW error \in Errors, NEW undo \in BOOLEAN, Fail(error, undo)
  PROVE  /\ work # NoWork /\ work \in Works /\ batch \in Seq(Happenings)
         /\ \E undoes, discard \in BOOLEAN :
              /\ EndWork(discard, FailedOf(undoes)) /\ FailedOf(undoes) \in Seq(Happenings)
              /\ node' = (IF undoes THEN work.before ELSE node)
              /\ \/ undone' = undone
                 \/ /\ discard
                    /\ undone' = undone \cup {(batch \o Undoing)[i].n : i \in DOMAIN (batch \o Undoing)}
         /\ UNCHANGED <<changes, installed, busy, posted, recent, works, pid, cursor, seen, taken>>
  <1> DEFINE undoes == work.group /\ undo /\ ~work.loaded
             says == work.group /\ undo
             discard == Discards(error, says)
             after == IF undoes THEN work.before ELSE node
  <1>1. work # NoWork /\ work \in Works /\ batch \in Seq(Happenings)
    BY DEF Fail, TypeOK
  <1>2. /\ node' = after /\ EndWork(discard, FailedOf(undoes))
        /\ undone' = undone \cup
             (IF undoes /\ error \in {"silent", "asks"}
                THEN {(batch \o Undoing)[i].n : i \in DOMAIN (batch \o Undoing)} ELSE {})
        /\ UNCHANGED <<changes, installed, busy, posted, recent, works, pid, cursor, seen, taken>>
    BY DEF Fail, FailedOf, bounds, reader
  <1>3. undoes \in BOOLEAN /\ says \in BOOLEAN /\ (undoes => says /\ work.group = TRUE)
    BY <1>1 DEF Works
  <1>4. discard \in BOOLEAN
    BY DEF Discards
  <1>5. undoes /\ error \in {"silent", "asks"} => discard
    <2>1. SUFFICES ASSUME undoes, error \in {"silent", "asks"} PROVE discard
      OBVIOUS
    <2>2. says /\ work.group
      BY <1>3, <2>1
    <2>3. Told(error, says) # "false"
      BY <2>1, <2>2 DEF Told
    <2> HIDE DEF says
    <2> QED BY <2>1, <2>3 DEF Discards
  <1>6. FailedOf(undoes) \in Seq(Happenings)
    <2>1. Undoing \in Seq(Happenings)
      BY <1>1, UndoingIs
    <2> HIDE DEF undoes
    <2> QED BY <1>1, <2>1 DEF FailedOf
  <1> HIDE DEF undoes, discard, says
  <1> QED BY <1>1, <1>2, <1>3, <1>4, <1>5, <1>6

\* The ring and the log in every step.
LEMMA LogStep ==
  ASSUME EventsAssumption, TypeOK, LogInv, [Next]_vars
  PROVE  /\ LogInv'
         /\ pid' = pid => Len(log') >= Len(log) /\ taken \subseteq taken'
         /\ pid' # pid => pid' = pid + 1 /\ cursor' = cursor
  <1> DEFINE Goal == /\ LogInv'
                     /\ Len(log') >= Len(log) /\ taken \subseteq taken' /\ pid' = pid
  <1>1. Len(log) \in Nat /\ pid \in Nat
    BY DEF LogInv, TypeOK
  <1>2. ASSUME UNCHANGED <<log, ring, taken, pid>>
        PROVE  Goal
    BY <1>1, <1>2 DEF LogInv, RingInv
  <1>3. ASSUME Change
        PROVE  Goal
    BY <1>1, <1>3, LogHeard DEF Change
  <1>4. ASSUME NEW t \in Tops, NEW soon \in BOOLEAN,
               \/ \E kid \in BOOLEAN : CreateTop(t, kid, soon)
               \/ CreateKid(t, soon) \/ DeleteKid(t, soon) \/ DeleteTop(t, soon)
        PROVE  Goal
    BY <1>3, <1>4, CreateTopIs, CreateKidIs, DeleteKidIs, DeleteTopIs
  <1>5. ASSUME NEW p \in Node, Watch(p)
        PROVE  Goal
    BY <1>2, <1>5 DEF Watch, bounds
  <1>6. ASSUME NEW p \in Node, NEW soon \in BOOLEAN, SetSpare(p, soon)
        PROVE  Goal
    <2>1. pid' = pid
      BY <1>6 DEF SetSpare, bounds
    <2> QED BY <1>6, <2>1, LogSpare
  <1>7. ASSUME NEW p \in Node, NEW soon \in BOOLEAN, NEW houdini \in BOOLEAN,
               SetParm(p, houdini, soon)
        PROVE  Goal
    BY <1>3, <1>7, SetParmIs
  <1>8. ASSUME NEW scene, NEW fails \in BOOLEAN, NEW tool \in BOOLEAN, Load(scene, fails, tool)
        PROVE  Goal
    BY <1>3, <1>8, LoadIs
  <1>9. ASSUME FlushPending
        PROVE  Goal
    BY <1>2, <1>9 DEF FlushPending, events, bounds, history
  <1>e. ASSUME NEW discard \in BOOLEAN, NEW es \in Seq(Happenings), EndWork(discard, es),
               UNCHANGED <<taken, pid>>
        PROVE  Goal
    <2>1. CASE UNCHANGED <<log, ring>>
      BY <1>2, <1>e, <2>1
    <2>2. CASE \E fs \in Seq(Happenings) : Publish(fs)
      <3>1. PICK fs \in Seq(Happenings) : Publish(fs)
        BY <2>2
      <3>2. Len(fs) \in Nat
        OBVIOUS
      <3> QED BY <1>1, <1>e, <3>1, <3>2, PublishIs
    <2> QED BY <1>e, <2>1, <2>2, EndIs
  <1>10. ASSUME Succeed
        PROVE  Goal
    <2>1. EndWork(FALSE, batch) /\ batch \in Seq(Happenings) /\ UNCHANGED <<taken, pid>>
      BY <1>10 DEF Succeed, bounds, history, TypeOK
    <2> QED BY <1>e, <2>1
  <1>11. ASSUME RecordPdg
        PROVE  Goal
    <2>1. Publish(<<EventOf(0, "pdg", Hip, "agent")>>) /\ UNCHANGED <<taken, pid>>
      BY <1>11 DEF RecordPdg, bounds, history
    <2> DEFINE e == EventOf(0, "pdg", Hip, "agent")
    <2>2. e \in Happenings
      BY DEF EventOf, Happenings, Kinds, Origins, EventsAssumption
    <2> HIDE DEF e
    <2>3. <<e>> \in Seq(Happenings) /\ Len(<<e>>) = 1 /\ Publish(<<e>>)
      BY <2>1, <2>2 DEF e
    <2>4. LogInv' /\ Len(log') = Len(log) + Len(<<e>>)
      BY <2>1, <2>3, PublishIs
    <2> QED BY <1>1, <2>1, <2>3, <2>4
  <1>12. ASSUME Read
        PROVE  Goal
    BY <1>2, <1>12 DEF Read, events, bounds, history
  <1>13. ASSUME Uninstall
        PROVE  Goal
    BY <1>2, <1>13 DEF Uninstall, events, bounds, history
  <1>14. ASSUME Install
        PROVE  Goal
    BY <1>2, <1>14 DEF Install, events, bounds, history
  <1>15. CASE Restart
    <2>1. log' = <<>> /\ ring' = {} /\ taken' = {} /\ pid' = pid + 1 /\ cursor' = cursor
      BY <1>15 DEF Restart, reader
    <2>2. Cardinality({}) <= RingSize
      BY FS_EmptySet DEF EventsAssumption
    <2> QED BY <1>1, <2>1, <2>2 DEF LogInv, RingInv
  <1>16. ASSUME NEW group \in BOOLEAN, BeginWork(group)
         PROVE  Goal
    BY <1>2, <1>16 DEF BeginWork, history
  <1>17. ASSUME NEW error \in Errors, NEW undo \in BOOLEAN, Fail(error, undo)
         PROVE  Goal
    <2>1. PICK discard \in BOOLEAN, undoes \in BOOLEAN :
            EndWork(discard, FailedOf(undoes)) /\ FailedOf(undoes) \in Seq(Happenings)
      BY <1>17, FailIs
    <2>2. UNCHANGED <<taken, pid>>
      BY <1>17, FailIs
    <2> QED BY <1>e, <2>1, <2>2
  <1>18. ASSUME UNCHANGED vars
        PROVE  Goal
    BY <1>2, <1>18 DEF vars, events, bounds, history
  <1> HIDE DEF Goal
  <1>19. Goal \/ Restart
    <2>1. CASE UNCHANGED vars
      BY <1>18, <2>1
    <2>2. CASE \E t \in Tops, soon \in BOOLEAN :
                 \/ \E kid \in BOOLEAN : CreateTop(t, kid, soon)
                 \/ CreateKid(t, soon) \/ DeleteKid(t, soon) \/ DeleteTop(t, soon)
      BY <1>4, <2>2
    <2>3. CASE \E p \in Node :
                 \/ Watch(p)
                 \/ \E soon \in BOOLEAN :
                      SetSpare(p, soon) \/ \E houdini \in BOOLEAN : SetParm(p, houdini, soon)
      BY <1>5, <1>6, <1>7, <2>3
    <2>4. CASE \E scene \in {{}} \cup {{Top(t)} : t \in Tops} \cup {node} :
                 \E fails, tool \in BOOLEAN : Load(scene, fails, tool)
      BY <1>8, <2>4
    <2>5. CASE \/ FlushPending \/ Succeed \/ RecordPdg \/ Read \/ Uninstall \/ Install \/ Restart
               \/ \E group \in BOOLEAN : BeginWork(group)
               \/ \E error \in Errors, undo \in BOOLEAN : Fail(error, undo)
      BY <1>9, <1>10, <1>11, <1>12, <1>13, <1>14, <1>16, <1>17, <2>5
    <2> QED BY <2>1, <2>2, <2>3, <2>4, <2>5 DEF Next
  <1> QED BY <1>1, <1>15, <1>19 DEF Goal

-----------------------------------------------------------------------------
(* The reader.                                                             *)

\* A page holds all that is in the ring up to the new cursor; what is not there was dropped
\* and the reader is told, or was taken back.
LEMMA ReadIs ==
  ASSUME EventsAssumption, TypeOK, LogInv, ReaderInv, Read
  PROVE  ReaderInv' /\ cursor' \in [pid : Nat, seq : Nat] /\ cursor'.pid = pid /\ seen' \subseteq Nat
  <1> DEFINE asked == IF cursor.pid = pid THEN cursor.seq ELSE 0
             since == IF asked > Len(log) THEN 0 ELSE asked
             oldest == IF ring = {} THEN Len(log) + 1 ELSE Lowest(ring)
             newer == {s \in ring : s > since}
             told == {s \in DOMAIN log : s > since /\ s < oldest}
             known == IF cursor.pid = pid /\ since = asked THEN seen ELSE {}
  <1>1. PICK cut \in 1 .. Limit :
          /\ cursor' = [pid |-> pid, seq |-> NextSince(First(newer, cut), since)]
          /\ seen' = known \cup First(newer, cut) \cup told
          /\ UNCHANGED <<log, taken, pid>>
    BY DEF Read, events, history, bounds
  <1> DEFINE chunk == First(newer, cut)
             next == NextSince(chunk, since)
  <1>2. /\ Len(log) \in Nat /\ DOMAIN log = 1 .. Len(log) /\ ring \in SUBSET (1 .. Len(log))
        /\ cursor.seq \in Nat /\ cursor.pid \in Nat /\ pid \in Nat /\ seen \subseteq Nat
        /\ cut \in Nat \ {0}
    BY DEF LogInv, TypeOK, EventsAssumption
  <1>3. since = asked /\ since \in Nat /\ since <= Len(log)
    BY <1>2 DEF ReaderInv
  <1>4. \A s \in 1 .. since : s \in known \cup taken
    BY <1>2, <1>3 DEF ReaderInv, PagesAreWhole
  <1>5. newer \in SUBSET ring /\ newer \in SUBSET Nat /\ IsFiniteSet(newer)
    <2>1. newer \in SUBSET ring /\ newer \in SUBSET (1 .. Len(log))
      BY <1>2
    <2>2. IsFiniteSet(1 .. Len(log))
      BY <1>2, FS_Interval
    <2> HIDE DEF newer
    <2>3. IsFiniteSet(newer)
      BY <2>1, <2>2, FS_Subset
    <2> QED BY <2>1, <2>3
  <1> HIDE DEF known
  <1>6. /\ chunk \subseteq newer /\ (newer # {} => chunk # {})
        /\ \A s \in chunk, r \in newer \ chunk : s < r
    <2> HIDE DEF newer
    <2> QED BY <1>2, <1>5, FirstIs
  <1>7. /\ next \in Nat /\ next <= Len(log)
        /\ chunk # {} => next \in chunk /\ \A s \in chunk : s <= next
    <2>1. CASE chunk = {}
      <3>1. next = Len(log)
        BY <1>2, <1>3, <2>1 DEF NextSince
      <3> QED BY <1>2, <2>1, <3>1
    <2>2. CASE chunk # {}
      <3>1. chunk \in SUBSET ring /\ chunk \in SUBSET Nat /\ IsFiniteSet(chunk)
        <4> HIDE DEF chunk, newer
        <4> QED BY <1>5, <1>6, FS_Subset
      <3>2. next = Highest(chunk)
        BY <2>2 DEF NextSince
      <3>3. next \in chunk /\ \A s \in chunk : s <= next
        <4> HIDE DEF chunk
        <4> QED BY <2>2, <3>1, <3>2, HighestOf
      <3> HIDE DEF chunk, next
      <3> QED BY <1>2, <3>1, <3>3
    <2> QED BY <2>1, <2>2
  <1> HIDE DEF chunk, next
  <1>8. ASSUME NEW s \in 1 .. next, s > since
        PROVE  s \in chunk \cup told \cup taken
    <2>1. s \in Nat /\ s <= next /\ s \in DOMAIN log
      BY <1>2, <1>7
    <2>2. CASE s \in ring
      <3>1. s \in newer
        BY <1>8, <2>2
      <3>2. chunk # {} /\ next \in chunk
        BY <1>6, <1>7, <3>1
      <3>3. s \in chunk
        BY <1>6, <1>7, <2>1, <3>1, <3>2
      <3> QED BY <3>3
    <2>3. CASE s \notin ring /\ s \notin taken
      <3>1. \A r \in ring : s < r
        BY <2>1, <2>3 DEF LogInv, RingInv
      <3>2. s < oldest
        <4>1. CASE ring = {}
          BY <1>2, <2>1, <4>1
        <4>2. CASE ring # {}
          <5>1. Lowest(ring) \in ring
            BY <1>2, <4>2, LowestOf
          <5> QED BY <3>1, <4>2, <5>1
        <4> QED BY <4>1, <4>2
      <3> QED BY <1>8, <2>1, <3>2
    <2> QED BY <2>2, <2>3
  <1>9. cursor' = [pid |-> pid, seq |-> next] /\ seen' = known \cup chunk \cup told
    BY <1>1 DEF chunk, next
  <1>10. cursor'.pid = pid /\ cursor'.seq = next /\ cursor' \in [pid : Nat, seq : Nat]
    BY <1>2, <1>7, <1>9
  <1>11. \A s \in 1 .. next : s \in seen' \cup taken
    <2> TAKE s \in 1 .. next
    <2>1. CASE s <= since
      <3>1. s \in 1 .. since
        BY <1>3, <1>7, <2>1
      <3> QED BY <1>4, <1>9, <3>1
    <2>2. CASE s > since
      BY <1>8, <1>9, <2>2
    <2> QED BY <1>3, <1>7, <2>1, <2>2
  <1>12. seen' \subseteq Nat
    <2>1. known \subseteq Nat /\ told \subseteq Nat
      BY <1>2 DEF known
    <2>2. chunk \subseteq Nat
      <3> HIDE DEF newer
      <3> QED BY <1>5, <1>6
    <2> HIDE DEF told
    <2> QED BY <1>9, <2>1, <2>2
  <1> QED BY <1>1, <1>7, <1>10, <1>11, <1>12 DEF ReaderInv, PagesAreWhole

LEMMA ReaderStep ==
  ASSUME EventsAssumption, TypeOK, LogInv, ReaderInv, [Next]_vars
  PROVE  /\ ReaderInv' /\ seen' \subseteq Nat
         /\ cursor' \in [pid : Nat, seq : Nat] /\ cursor'.pid <= pid' /\ pid' \in Nat
  <1>1. /\ cursor \in [pid : Nat, seq : Nat] /\ cursor.pid <= pid /\ pid \in Nat /\ seen \subseteq Nat
        /\ Len(log) \in Nat
    BY DEF TypeOK, LogInv
  <1>2. /\ LogInv'
        /\ pid' = pid => Len(log') >= Len(log) /\ taken \subseteq taken'
        /\ pid' # pid => pid' = pid + 1 /\ cursor' = cursor
    BY LogStep
  <1>3. Len(log') \in Nat
    BY <1>2 DEF LogInv
  <1>4. CASE Read
    <2>1. pid' = pid
      BY <1>4 DEF Read, bounds
    <2> QED BY <1>1, <1>4, <2>1, ReadIs
  <1>5. CASE UNCHANGED <<cursor, seen>>
    <2>1. CASE pid' = pid
      BY <1>1, <1>2, <1>3, <1>5, <2>1 DEF ReaderInv, PagesAreWhole
    <2>2. CASE pid' # pid
      BY <1>1, <1>2, <1>5, <2>2 DEF ReaderInv, PagesAreWhole
    <2> QED BY <2>1, <2>2
  <1>6. Read \/ UNCHANGED <<cursor, seen>>
    BY DEF Next, vars, reader, CreateTop, CreateKid, DeleteKid, DeleteTop, Watch, SetSpare, SetParm,
           Load, FlushPending, Succeed, RecordPdg, Uninstall, Install, Restart, BeginWork, Fail
  <1> QED BY <1>4, <1>5, <1>6

-----------------------------------------------------------------------------
(* The numbers.                                                            *)

\* Numbers that were told or taken back stay below the changes of the call.
LEMMA PastIs ==
  ASSUME TypeOK
  PROVE  /\ Past \subseteq Nat /\ 0 \in Past /\ undone \subseteq Past
         /\ \A s \in DOMAIN log : log[s].n \in Past
  <1>1. \A s \in DOMAIN log : log[s] \in Happenings
    BY DEF TypeOK
  <1>2. \A s \in DOMAIN log : log[s].n \in Nat
    BY <1>1 DEF Happenings
  <1>3. undone \subseteq Nat
    BY DEF TypeOK
  <1> DEFINE told == {log[s].n : s \in DOMAIN log}
  <1>4. told \subseteq Nat /\ \A s \in DOMAIN log : log[s].n \in told
    BY <1>2
  <1>5. Past = {0} \cup undone \cup told
    BY DEF Past
  <1> HIDE DEF told
  <1> QED BY <1>3, <1>4, <1>5

\* Nothing of it changes when no event is recorded, no change is made and no call ends.
LEMMA NumberStays ==
  ASSUME EventsAssumption, TypeOK, NumberInv, changes' = changes \/ changes' = changes + 1,
         UNCHANGED <<log, undone>>, batch' = NoBatch \/ UNCHANGED <<batch, node, created, work>>
  PROVE  NumberInv'
  <1>1. Past' = Past /\ changes \in Nat /\ changes <= changes' /\ changes' \in Nat
    BY DEF Past, TypeOK
  <1>2. Past \subseteq Nat
    BY PastIs
  <1>3. (\A m \in Past : m <= changes') /\ 0 \notin undone' /\ \A s \in DOMAIN log' : log'[s].n \notin undone'
    BY <1>1, <1>2 DEF NumberInv
  <1>4. ASSUME Holding'
        PROVE  /\ \A i \in DOMAIN batch' : batch'[i].n <= changes' /\ \A m \in Past : m < batch'[i].n
               /\ node' # work'.before \/ created' # {} => \A m \in Past : m < changes'
    <2>1. UNCHANGED <<batch, node, created, work>> /\ Holding
      BY <1>4 DEF Holding
    <2>2. \A i \in DOMAIN batch : batch[i].n \in Nat
      <3>1. \A i \in DOMAIN batch : batch[i] \in Happenings
        BY <2>1 DEF TypeOK, Holding
      <3> QED BY <3>1 DEF Happenings
    <2>3. \A i \in DOMAIN batch : batch[i].n <= changes /\ \A m \in Past : m < batch[i].n
      BY <2>1 DEF NumberInv
    <2>4. node # work.before \/ created # {} => \A m \in Past : m < changes
      BY <2>1 DEF NumberInv
    <2> QED BY <1>1, <1>2, <2>1, <2>2, <2>3, <2>4
  <1> QED BY <1>1, <1>3, <1>4 DEF NumberInv

\* A change has a number above all that there are.
LEMMA NumberOfChange ==
  ASSUME EventsAssumption, TypeOK, NumberInv, changes' = changes + 1, undone' = undone,
         \/ UNCHANGED <<batch, log>>
         \/ /\ Holding /\ log' = log
            /\ batch' \in Seq(Happenings)
            /\ \A i \in DOMAIN batch' :
                 batch'[i].n = changes + 1 \/ \E j \in DOMAIN batch : batch'[i] = batch[j]
         \/ /\ ~Holding /\ batch' = batch
            /\ \E es \in Seq(Happenings) :
                 log' = log \o es /\ \A i \in DOMAIN es : es[i].n = changes + 1
  PROVE  NumberInv'
  <1>1. changes \in Nat /\ changes' \in Nat /\ changes < changes' /\ log \in Seq(Happenings)
    BY DEF TypeOK
  <1>2. Past \subseteq Nat /\ \A m \in Past : m <= changes /\ m < changes' /\ m # changes'
    BY <1>1, PastIs DEF NumberInv
  <1>3. undone \subseteq Past
    BY PastIs
  <1>4. CASE log' = log /\ (batch' = batch \/ (Holding /\ batch' \in Seq(Happenings)
               /\ \A i \in DOMAIN batch' :
                    batch'[i].n = changes + 1 \/ \E j \in DOMAIN batch : batch'[i] = batch[j]))
    <2>1. Past' = Past
      BY <1>4 DEF Past
    <2>2. Holding' => Holding
      BY <1>4 DEF Holding
    <2>3. ASSUME Holding, NEW i \in DOMAIN batch'
          PROVE  batch'[i].n <= changes' /\ \A m \in Past : m < batch'[i].n
      <3>1. CASE batch'[i].n = changes + 1
        BY <1>1, <1>2, <3>1
      <3>2. CASE \E j \in DOMAIN batch : batch'[i] = batch[j]
        <4>1. PICK j \in DOMAIN batch : batch'[i] = batch[j]
          BY <3>2
        <4>2. batch[j].n <= changes /\ (\A m \in Past : m < batch[j].n) /\ batch[j].n \in Nat
          <5>1. batch[j].n <= changes /\ (\A m \in Past : m < batch[j].n)
            BY <2>3 DEF NumberInv
          <5>2. batch[j] \in Happenings
            BY <2>3 DEF TypeOK, Holding
          <5> QED BY <5>1, <5>2 DEF Happenings
        <4> QED BY <1>1, <4>1, <4>2
      <3>3. batch' = batch \/ batch'[i].n = changes + 1 \/ \E j \in DOMAIN batch : batch'[i] = batch[j]
        BY <1>4
      <3>4. CASE batch' = batch
        BY <3>2, <3>4
      <3> QED BY <3>1, <3>2, <3>3, <3>4
    <2>4. (\A m \in Past' : m <= changes') /\ 0 \notin undone'
          /\ \A s \in DOMAIN log' : log'[s].n \notin undone'
      BY <1>1, <1>2, <1>4, <2>1 DEF NumberInv
    <2> QED BY <1>2, <2>1, <2>2, <2>3, <2>4 DEF NumberInv
  <1>5. CASE /\ ~Holding /\ batch' = batch
             /\ \E es \in Seq(Happenings) :
                  log' = log \o es /\ \A i \in DOMAIN es : es[i].n = changes + 1
    <2>1. PICK es \in Seq(Happenings) :
            log' = log \o es /\ \A i \in DOMAIN es : es[i].n = changes + 1
      BY <1>5
    <2>2. \A s \in DOMAIN log' : (s \in DOMAIN log /\ log'[s] = log[s]) \/ log'[s].n = changes'
      BY <1>1, <2>1
    <2>3. \A s \in DOMAIN log' : log'[s].n \in Past \/ log'[s].n = changes'
      BY <2>2, PastIs
    <2>4. \A s \in DOMAIN log' : log'[s].n \notin undone'
      BY <1>2, <1>3, <2>2 DEF NumberInv
    <2>5. \A m \in Past' : m \in Past \/ m = changes'
      BY <1>3, <2>3 DEF Past
    <2>6. ~Holding' /\ 0 \notin undone' /\ \A m \in Past' : m <= changes'
      <3>1. ~Holding' /\ 0 \notin undone'
        BY <1>5 DEF Holding, NumberInv
      <3>2. ASSUME NEW m \in Past'
            PROVE  m <= changes'
        <4>1. CASE m = changes'
          BY <1>1, <4>1
        <4>2. CASE m \in Past
          <5>1. m \in Nat /\ m < changes'
            BY <1>2, <4>2
          <5> QED BY <1>1, <5>1
        <4> QED BY <2>5, <4>1, <4>2
      <3> QED BY <3>1, <3>2
    <2> QED BY <2>4, <2>6 DEF NumberInv
  <1> QED BY <1>4, <1>5

\* What a call did is new to all that was told before.
LEMMA CallIsNew ==
  ASSUME EventsAssumption, TypeOK, NumberInv, work # NoWork
  PROVE  /\ \A i \in DOMAIN batch : batch[i].n <= changes /\ \A m \in Past : m < batch[i].n
         /\ \A i \in DOMAIN (batch \o Undoing) :
              (batch \o Undoing)[i].n <= changes /\ \A m \in Past : m < (batch \o Undoing)[i].n
  <1>1. Holding /\ batch \in Seq(Happenings) /\ changes \in Nat
    BY DEF Holding, TypeOK
  <1>2. \A i \in DOMAIN batch : batch[i].n <= changes /\ \A m \in Past : m < batch[i].n
    BY <1>1 DEF NumberInv
  <1>3. /\ Undoing \in Seq(Happenings)
        /\ \A i \in DOMAIN Undoing : Undoing[i].n = changes
        /\ Undoing # <<>> => batch # <<>> \/ node # work.before
    BY UndoingIs
  <1>4. ASSUME Undoing # <<>>
        PROVE  \A m \in Past : m < changes
    <2>1. CASE node # work.before
      BY <1>1, <2>1 DEF NumberInv
    <2>2. CASE batch # <<>>
      <3>1. 1 \in DOMAIN batch /\ batch[1] \in Happenings
        BY <1>1, <2>2
      <3>2. batch[1].n \in Nat /\ batch[1].n <= changes /\ \A m \in Past : m < batch[1].n
        BY <1>2, <3>1 DEF Happenings
      <3> QED BY <1>1, <3>2, PastIs
    <2> QED BY <1>3, <1>4, <2>1, <2>2
  <1>5. \A i \in DOMAIN Undoing : Undoing[i].n <= changes /\ \A m \in Past : m < Undoing[i].n
    <2> TAKE i \in DOMAIN Undoing
    <2>1. Undoing # <<>>
      BY <1>3
    <2> QED BY <1>1, <1>3, <1>4, <2>1
  <1>6. \A i \in DOMAIN (batch \o Undoing) :
          \/ \E j \in DOMAIN batch : (batch \o Undoing)[i] = batch[j]
          \/ \E j \in DOMAIN Undoing : (batch \o Undoing)[i] = Undoing[j]
    <2> TAKE i \in DOMAIN (batch \o Undoing)
    <2>1. i \in 1 .. Len(batch) + Len(Undoing) /\ Len(batch) \in Nat /\ Len(Undoing) \in Nat
      BY <1>1, <1>3
    <2>2. CASE i <= Len(batch)
      BY <1>1, <1>3, <2>1, <2>2
    <2>3. CASE i > Len(batch)
      <3>1. i - Len(batch) \in DOMAIN Undoing /\ (batch \o Undoing)[i] = Undoing[i - Len(batch)]
        BY <1>1, <1>3, <2>1, <2>3
      <3> QED BY <3>1
    <2> QED BY <2>1, <2>2, <2>3
  <1> QED BY <1>2, <1>5, <1>6

\* The end of a call.
LEMMA NumberOfEnd ==
  ASSUME EventsAssumption, TypeOK, NumberInv, work # NoWork, changes' = changes, batch' = NoBatch,
         \/ /\ log' = log
            /\ \/ undone' = undone
               \/ undone' = undone \cup {(batch \o Undoing)[i].n : i \in DOMAIN (batch \o Undoing)}
         \/ /\ undone' = undone
            /\ \E fs \in Seq(Happenings) :
                 /\ log' = log \o fs
                 /\ \A k \in DOMAIN fs :
                      \/ \E i \in DOMAIN batch : fs[k] = batch[i]
                      \/ \E i \in DOMAIN (batch \o Undoing) : fs[k] = (batch \o Undoing)[i]
  PROVE  NumberInv'
  <1>1. /\ \A i \in DOMAIN batch : batch[i].n <= changes /\ \A m \in Past : m < batch[i].n
        /\ \A i \in DOMAIN (batch \o Undoing) :
             (batch \o Undoing)[i].n <= changes /\ \A m \in Past : m < (batch \o Undoing)[i].n
    BY CallIsNew
  <1>2. /\ Past \subseteq Nat /\ 0 \in Past /\ undone \subseteq Past
        /\ \A s \in DOMAIN log : log[s].n \in Past
    BY PastIs
  <1>3. log \in Seq(Happenings) /\ ~Holding'
    BY DEF TypeOK, Holding
  <1>4. /\ \A m \in Past : m <= changes
        /\ 0 \notin undone /\ \A s \in DOMAIN log : log[s].n \notin undone
    BY DEF NumberInv
  <1>5. CASE log' = log /\ undone' = undone
    BY <1>5, NumberStays
  <1>6. CASE log' = log /\ undone' = undone \cup {(batch \o Undoing)[i].n : i \in DOMAIN (batch \o Undoing)}
    <2> DEFINE new == {(batch \o Undoing)[i].n : i \in DOMAIN (batch \o Undoing)}
    <2>1. \A n \in new : n <= changes /\ \A m \in Past : m < n
      BY <1>1
    <2>2. Past' = Past \cup new
      BY <1>6 DEF Past
    <2>3. \A n \in new : n \notin Past
      <3>1. \A n \in Nat : ~ (n < n)
        OBVIOUS
      <3> HIDE DEF new
      <3> QED BY <1>2, <2>1, <3>1
    <2> HIDE DEF new
    <2>4. \A s \in DOMAIN log' : log'[s].n \notin undone'
      BY <1>2, <1>4, <1>6, <2>3 DEF new
    <2>5. 0 \notin undone'
      BY <1>2, <1>4, <1>6, <2>3 DEF new
    <2>6. \A m \in Past' : m <= changes'
      BY <1>4, <2>1, <2>2
    <2> QED BY <1>3, <2>4, <2>5, <2>6 DEF NumberInv
  <1>7. CASE /\ undone' = undone
             /\ \E fs \in Seq(Happenings) :
                  /\ log' = log \o fs
                  /\ \A k \in DOMAIN fs :
                       \/ \E i \in DOMAIN batch : fs[k] = batch[i]
                       \/ \E i \in DOMAIN (batch \o Undoing) : fs[k] = (batch \o Undoing)[i]
    <2>1. PICK fs \in Seq(Happenings) :
            /\ log' = log \o fs
            /\ \A k \in DOMAIN fs :
                 \/ \E i \in DOMAIN batch : fs[k] = batch[i]
                 \/ \E i \in DOMAIN (batch \o Undoing) : fs[k] = (batch \o Undoing)[i]
      BY <1>7
    <2>2. \A k \in DOMAIN fs : fs[k].n <= changes /\ \A m \in Past : m < fs[k].n
      BY <1>1, <2>1
    <2>3. \A s \in DOMAIN log' :
            (s \in DOMAIN log /\ log'[s] = log[s]) \/ \E k \in DOMAIN fs : log'[s] = fs[k]
      <3> TAKE s \in DOMAIN log'
      <3>1. s \in 1 .. Len(log) + Len(fs) /\ Len(log) \in Nat /\ Len(fs) \in Nat
        BY <1>3, <2>1
      <3>2. CASE s <= Len(log)
        BY <1>3, <2>1, <3>1, <3>2
      <3>3. CASE s > Len(log)
        <4>1. s - Len(log) \in DOMAIN fs /\ log'[s] = fs[s - Len(log)]
          BY <1>3, <2>1, <3>1, <3>3
        <4> QED BY <4>1
      <3> QED BY <3>1, <3>2, <3>3
    <2>4. \A s \in DOMAIN log' : log'[s].n <= changes /\ log'[s].n \notin undone
      <3> TAKE s \in DOMAIN log'
      <3>1. CASE s \in DOMAIN log /\ log'[s] = log[s]
        BY <1>2, <1>4, <3>1
      <3>2. CASE \E k \in DOMAIN fs : log'[s] = fs[k]
        <4>1. PICK k \in DOMAIN fs : log'[s] = fs[k]
          BY <3>2
        <4>2. fs[k].n <= changes /\ \A m \in undone : m \in Nat /\ m < fs[k].n
          BY <1>2, <2>2
        <4>3. fs[k].n \notin undone
          <5>1. \A n \in Nat : ~ (n < n)
            OBVIOUS
          <5> QED BY <4>2, <5>1
        <4> QED BY <4>1, <4>2, <4>3
      <3> QED BY <2>3, <3>1, <3>2
    <2>5. \A m \in Past' : m <= changes'
      <3>1. Past' = {0} \cup undone \cup {log'[s].n : s \in DOMAIN log'}
        BY <1>7 DEF Past
      <3> QED BY <1>2, <1>4, <2>4, <3>1
    <2> QED BY <1>3, <1>4, <1>7, <2>4, <2>5 DEF NumberInv
  <1> QED BY <1>5, <1>6, <1>7

\* InsertAt by its definition.
LEMMA InsertIs ==
  \A s, i, x : InsertAt(s, i, x) = SubSeq(s, 1, i - 1) \o <<x>> \o SubSeq(s, i, Len(s))
  BY Zenon DEF InsertAt

\* A child whose parent the call made gets its ChildCreated late, with the latest number.
LEMMA NumberOfWatch ==
  ASSUME EventsAssumption, TypeOK, NumberInv, NEW p \in Node, Watch(p)
  PROVE  NumberInv' /\ batch' \in Seq(Happenings) /\ work # NoWork
  <1>1. /\ Holding /\ batch \in Seq(Happenings) /\ changes \in 0 .. MaxChanges /\ work # NoWork
        /\ UNCHANGED <<node, changes, log, undone, work>>
    BY DEF Watch, bounds, TypeOK, Holding
  <1>2. Past' = Past /\ Past \subseteq Nat
    BY <1>1, PastIs DEF Past
  <1>3. \A i \in DOMAIN batch : batch[i].n <= changes /\ \A m \in Past : m < batch[i].n
    BY <1>1 DEF NumberInv
  <1>4. node # work.before \/ created # {} => \A m \in Past : m < changes
    BY <1>1 DEF NumberInv
  <1> DEFINE missed == p \notin created /\ p[2] = "kid" /\ Top(p[1]) \in created /\ ~Quiet
             hits == {i \in DOMAIN batch : Under(batch[i].path, Top(p[1]))}
             at == IF hits = {} THEN Len(batch) ELSE CHOOSE i \in hits : \A j \in hits : j <= i
             e == EventOf(changes, "ChildCreated", p, "agent")
  <1>5. /\ batch' = IF missed THEN InsertAt(batch, at + 1, e) ELSE batch
        /\ created' = IF missed THEN created \cup {p} ELSE created
    BY DEF Watch
  <1>6. Len(batch) \in Nat /\ at \in 0 .. Len(batch)
    <2>1. Len(batch) \in Nat /\ DOMAIN batch = 1 .. Len(batch)
      BY <1>1
    <2>2. CASE hits = {}
      BY <2>1, <2>2
    <2>3. CASE hits # {}
      <3>1. hits \subseteq 1 .. Len(batch)
        BY <2>1
      <3>2. at = CHOOSE i \in hits : \A j \in hits : j <= i
        BY <2>3
      <3> HIDE DEF hits
      <3>3. \E i \in hits : \A j \in hits : j <= i
        BY <2>1, <2>3, <3>1, GreatestOf
      <3>4. at \in hits
        <4> HIDE DEF at
        <4> QED BY <3>2, <3>3
      <3> HIDE DEF at
      <3> QED BY <2>1, <3>1, <3>4
    <2> QED BY <2>2, <2>3
  <1> HIDE DEF at
  <1>7. e \in Happenings /\ e.n = changes
    BY <1>1 DEF EventOf, Happenings, Kinds, Origins, EventsAssumption
  <1> HIDE DEF e
  <1>8. CASE missed
    <2>1. created # {}
      BY <1>8
    <2>2. \A m \in Past : m < changes
      BY <1>4, <2>1
    <2> HIDE DEF missed
    <2>3. PICK k \in 1 .. Len(batch) + 1, x \in Happenings :
            x.n = changes /\ batch' = InsertAt(batch, k, x)
      <3>1. at + 1 \in 1 .. Len(batch) + 1 /\ batch' = InsertAt(batch, at + 1, e)
        BY <1>5, <1>6, <1>8
      <3> QED BY <1>7, <3>1
    <2>4. batch' = SubSeq(batch, 1, k - 1) \o <<x>> \o SubSeq(batch, k, Len(batch))
      BY <2>3, InsertIs, Zenon
    <2> DEFINE head == SubSeq(batch, 1, k - 1)
               tail == SubSeq(batch, k, Len(batch))
    <2>5. head \in Seq(Happenings) /\ \A i \in DOMAIN head : \E j \in DOMAIN batch : head[i] = batch[j]
      BY <1>1, <1>6, <2>3
    <2>6. tail \in Seq(Happenings) /\ \A i \in DOMAIN tail : \E j \in DOMAIN batch : tail[i] = batch[j]
      BY <1>1, <1>6, <2>3
    <2> HIDE DEF head, tail
    <2>7. batch' = head \o <<x>> \o tail
      BY <2>4 DEF head, tail
    <2>8. batch' \in Seq(Happenings)
      BY <2>5, <2>6, <2>7
    <2> DEFINE New(h) == h.n <= changes /\ \A m \in Past : m < h.n
    <2>9. (\A i \in DOMAIN head : New(head[i])) /\ (\A i \in DOMAIN tail : New(tail[i])) /\ New(x)
      <3>1. New(x)
        BY <1>1, <2>2, <2>3
      <3> QED BY <1>3, <2>5, <2>6, <3>1
    <2>10. \A i \in DOMAIN batch' : New(batch'[i])
      <3> HIDE DEF New
      <3>1. <<x>> \in Seq(Happenings) /\ \A i \in DOMAIN <<x>> : New(<<x>>[i])
        BY <2>9
      <3> DEFINE most == head \o <<x>>
      <3>2. most \in Seq(Happenings) /\ \A i \in DOMAIN most : New(most[i])
        BY <2>5, <2>9, <3>1
      <3> HIDE DEF most
      <3>3. \A i \in DOMAIN (most \o tail) : New((most \o tail)[i])
        BY <2>6, <2>9, <3>2
      <3> QED BY <2>7, <3>3 DEF most
    <2> QED BY <1>1, <1>2, <2>2, <2>8, <2>10 DEF NumberInv
  <1>9. CASE ~missed
    <2>1. batch' = batch /\ created' = created
      BY <1>5, <1>9
    <2> HIDE DEF missed
    <2>2. NumberInv'
      BY <1>1, <2>1, NumberStays
    <2> QED BY <1>1, <2>1, <2>2
  <1> QED BY <1>8, <1>9

\* A spare parm edit is a change that also takes events back.
LEMMA NumberOfSpare ==
  ASSUME EventsAssumption, TypeOK, NumberInv, NEW p \in Node, NEW soon \in BOOLEAN,
         SetSpare(p, soon)
  PROVE  NumberInv' /\ (Holding => batch' \in Seq(Happenings)) /\ (~Holding => batch' = batch)
         /\ changes' = changes + 1 /\ changes + 1 <= MaxChanges
         /\ (recent' = recent \/ recent' = [recent EXCEPT ![p] = 0])
  <1> DEFINE mine == IF soon THEN recent[p] ELSE 0
             e == Event("SpareParmsChanged", p, Origin)
             I == {i \in DOMAIN batch : batch[i].n # mine}
  <1>1. changes' = changes + 1 /\ changes + 1 <= MaxChanges /\ undone' = undone
    BY ChangesIs DEF SetSpare
  <1>2. e \in Happenings /\ e.n = changes + 1
    <2>1. "SpareParmsChanged" \in Kinds /\ p \in Node \cup {Hip} /\ Origin \in Origins
      BY DEF Kinds, Origins, Origin
    <2> QED BY <1>1, <2>1, EventIs
  <1>3. recent' = recent \/ recent' = [recent EXCEPT ![p] = 0]
    BY DEF SetSpare
  <1>4. CASE Holding
    <2>1. batch' = Pick(batch, I) \o <<e>> /\ log' = log /\ batch \in Seq(Happenings)
      BY <1>4 DEF SetSpare, TypeOK, Holding
    <2>2. I \in SUBSET (DOMAIN batch)
      OBVIOUS
    <2> HIDE DEF I, e
    <2> DEFINE left == Pick(batch, I)
    <2>3. left \in Seq(Happenings) /\ \A k \in DOMAIN left : \E i \in I : left[k] = batch[i]
      BY <2>1, <2>2, PickIs
    <2> HIDE DEF left
    <2>4. batch' = left \o <<e>> /\ batch' \in Seq(Happenings)
      BY <1>2, <2>1, <2>3 DEF left
    <2>5. \A i \in DOMAIN batch' : batch'[i] = e \/ \E j \in DOMAIN left : batch'[i] = left[j]
      BY <1>2, <2>3, <2>4
    <2>6. \A i \in DOMAIN batch' : batch'[i].n = changes + 1 \/ \E j \in DOMAIN batch : batch'[i] = batch[j]
      BY <1>2, <2>2, <2>3, <2>5
    <2> QED BY <1>1, <1>3, <1>4, <2>1, <2>4, <2>6, NumberOfChange
  <1>5. CASE ~Holding
    <2>1. log' = log \o <<e>> /\ batch' = batch
      BY <1>5 DEF SetSpare
    <2> HIDE DEF e
    <2>2. <<e>> \in Seq(Happenings) /\ \A i \in DOMAIN <<e>> : <<e>>[i].n = changes + 1
      BY <1>2, OneIs
    <2>3. NumberInv'
      BY <1>1, <1>5, <2>1, <2>2, NumberOfChange
    <2> QED BY <1>1, <1>3, <1>5, <2>1, <2>3
  <1> QED BY <1>4, <1>5

\* So does any other change.
LEMMA NumberHeard ==
  ASSUME EventsAssumption, TypeOK, NumberInv, Change
  PROVE  NumberInv' /\ (Holding => batch' \in Seq(Happenings)) /\ (~Holding => batch' = batch)
  <1>1. changes' = changes + 1 /\ undone' = undone
    BY DEF Change
  <1>2. CASE UNCHANGED <<batch, log, ring>>
    <2>1. Holding => batch \in Seq(Happenings)
      BY DEF TypeOK, Holding
    <2> QED BY <1>1, <1>2, <2>1, NumberOfChange
  <1>3. CASE \E es \in Seq(Happenings) : (\A i \in DOMAIN es : es[i].n = changes + 1) /\ Heard(es)
    <2>1. PICK es \in Seq(Happenings) : (\A i \in DOMAIN es : es[i].n = changes + 1) /\ Heard(es)
      BY <1>3
    <2>2. CASE Holding
      <3>1. batch' = batch \o es /\ log' = log /\ batch \in Seq(Happenings)
        BY <2>1, <2>2 DEF Heard, TypeOK, Holding
      <3>2. batch' \in Seq(Happenings)
        BY <3>1
      <3>3. \A i \in DOMAIN batch' :
              (\E k \in DOMAIN es : batch'[i] = es[k]) \/ \E j \in DOMAIN batch : batch'[i] = batch[j]
        <4> TAKE i \in DOMAIN batch'
        <4>1. i \in 1 .. Len(batch) + Len(es) /\ Len(batch) \in Nat /\ Len(es) \in Nat
          BY <3>1
        <4>2. CASE i <= Len(batch)
          BY <3>1, <4>1, <4>2
        <4>3. CASE i > Len(batch)
          <5>1. i - Len(batch) \in DOMAIN es /\ batch'[i] = es[i - Len(batch)]
            BY <3>1, <4>1, <4>3
          <5> QED BY <5>1
        <4> QED BY <4>1, <4>2, <4>3
      <3>4. \A i \in DOMAIN batch' :
              batch'[i].n = changes + 1 \/ \E j \in DOMAIN batch : batch'[i] = batch[j]
        BY <2>1, <3>3
      <3> QED BY <1>1, <2>2, <3>1, <3>2, <3>4, NumberOfChange
    <2>3. CASE ~Holding
      <3>1. batch' = batch /\ log' = log \o es
        BY <2>1, <2>3 DEF Heard, Publish
      <3>2. NumberInv'
        BY <1>1, <2>1, <2>3, <3>1, NumberOfChange
      <3> QED BY <2>3, <3>1, <3>2
    <2> QED BY <2>2, <2>3
  <1> QED BY <1>2, <1>3 DEF Change

\* A pdg event has no change of the scene.
LEMMA NumberOfPdg ==
  ASSUME EventsAssumption, TypeOK, NumberInv, RecordPdg
  PROVE  NumberInv'
  <1> DEFINE e == EventOf(0, "pdg", Hip, "agent")
  <1>1. /\ changes' = changes + 1 /\ log' = log \o <<e>>
        /\ UNCHANGED <<batch, node, created, work, undone>>
    BY DEF RecordPdg, Changes, Publish, hooks, history
  <1>2. e.n = 0
    BY DEF EventOf
  <1> HIDE DEF e
  <1>3. changes \in Nat /\ log \in Seq(Happenings) /\ Past \subseteq Nat /\ 0 \in Past
    BY PastIs DEF TypeOK
  <1>4. \A s \in DOMAIN log' : (s \in DOMAIN log /\ log'[s] = log[s]) \/ log'[s].n = 0
    BY <1>1, <1>2, <1>3
  <1>5. \A s \in DOMAIN log : s \in DOMAIN log' /\ log'[s] = log[s]
    BY <1>1, <1>3
  <1>6. \A s \in DOMAIN log' : log'[s].n \in Past /\ log'[s].n \notin undone
    BY <1>3, <1>4, PastIs DEF NumberInv
  <1>7. Past' = Past
    <2> DEFINE told == {log[s].n : s \in DOMAIN log}
    <2>1. \A n \in told' : n \in Past
      BY <1>6
    <2>2. \A n \in told : n \in told'
      BY <1>5
    <2>3. Past = {0} \cup undone \cup told /\ Past' = {0} \cup undone \cup told'
      BY <1>1 DEF Past
    <2> HIDE DEF told
    <2> QED BY <2>1, <2>2, <2>3
  <1>8. \A m \in Past : m <= changes /\ m < changes'
    BY <1>1, <1>3 DEF NumberInv
  <1>9. ASSUME Holding'
        PROVE  /\ \A i \in DOMAIN batch' : batch'[i].n <= changes' /\ \A m \in Past : m < batch'[i].n
               /\ node' # work'.before \/ created' # {} => \A m \in Past : m < changes'
    <2>1. Holding
      BY <1>1, <1>9 DEF Holding
    <2>2. \A i \in DOMAIN batch : batch[i].n \in Nat
      <3>1. \A i \in DOMAIN batch : batch[i] \in Happenings
        BY <2>1 DEF TypeOK, Holding
      <3> QED BY <3>1 DEF Happenings
    <2>3. \A i \in DOMAIN batch : batch[i].n <= changes /\ \A m \in Past : m < batch[i].n
      BY <2>1 DEF NumberInv
    <2>4. \A i \in DOMAIN batch : batch[i].n <= changes'
      BY <1>1, <1>3, <2>2, <2>3
    <2> QED BY <1>1, <1>8, <2>3, <2>4
  <1>10. \A m \in Past' : m <= changes'
    <2> TAKE m \in Past'
    <2>1. m \in Nat /\ m < changes' /\ changes' \in Nat
      BY <1>1, <1>3, <1>7, <1>8
    <2> QED BY <2>1
  <1> QED BY <1>1, <1>6, <1>7, <1>9, <1>10 DEF NumberInv

\* The numbers in every step.
LEMMA NumberStep ==
  ASSUME EventsAssumption, TypeOK, NumberInv, [Next]_vars
  PROVE  NumberInv'
  <1>1. ASSUME UNCHANGED <<changes, log, undone, batch, node, created, work>>
        PROVE  NumberInv'
    BY <1>1, NumberStays
  <1>2. ASSUME NEW t \in Tops, NEW soon \in BOOLEAN,
               \/ \E kid \in BOOLEAN : CreateTop(t, kid, soon)
               \/ CreateKid(t, soon) \/ DeleteKid(t, soon) \/ DeleteTop(t, soon)
        PROVE  NumberInv'
    BY <1>2, CreateTopIs, CreateKidIs, DeleteKidIs, DeleteTopIs, NumberHeard
  <1>3. ASSUME NEW p \in Node, Watch(p)
        PROVE  NumberInv'
    BY <1>3, NumberOfWatch
  <1>4. ASSUME NEW p \in Node, NEW soon \in BOOLEAN, SetSpare(p, soon)
        PROVE  NumberInv'
    BY <1>4, NumberOfSpare
  <1>5. ASSUME NEW p \in Node, NEW soon \in BOOLEAN, NEW houdini \in BOOLEAN,
               SetParm(p, houdini, soon)
        PROVE  NumberInv'
    BY <1>5, SetParmIs, NumberHeard
  <1>6. ASSUME NEW scene, NEW fails \in BOOLEAN, NEW tool \in BOOLEAN, Load(scene, fails, tool)
        PROVE  NumberInv'
    BY <1>6, LoadIs, NumberHeard
  <1>7. ASSUME FlushPending
        PROVE  NumberInv'
    BY <1>1, <1>7 DEF FlushPending, events, history
  <1>8. ASSUME Succeed
        PROVE  NumberInv'
    <2>1. /\ EndWork(FALSE, batch) /\ batch \in Seq(Happenings) /\ work # NoWork
          /\ UNCHANGED <<changes, undone>>
      BY <1>8 DEF Succeed, history, TypeOK
    <2>2. batch' = NoBatch
      BY <2>1, EndIs
    <2>3. \/ log' = log
          \/ \E fs \in Seq(Happenings) :
               log' = log \o fs /\ \A k \in DOMAIN fs : \E i \in DOMAIN batch : fs[k] = batch[i]
      BY <2>1, EndIs DEF Publish
    <2> QED BY <2>1, <2>2, <2>3, NumberOfEnd
  <1>9. ASSUME NEW error \in Errors, NEW undo \in BOOLEAN, Fail(error, undo)
        PROVE  NumberInv'
    <2>1. work # NoWork /\ batch \in Seq(Happenings) /\ changes' = changes
      BY <1>9, FailIs
    <2>2. PICK undoes \in BOOLEAN, discard \in BOOLEAN :
            /\ EndWork(discard, FailedOf(undoes)) /\ FailedOf(undoes) \in Seq(Happenings)
            /\ \/ undone' = undone
               \/ /\ discard
                  /\ undone' = undone \cup {(batch \o Undoing)[i].n : i \in DOMAIN (batch \o Undoing)}
      BY <1>9, FailIs
    <2>3. FailedOf(undoes) = batch \/ FailedOf(undoes) = batch \o Undoing
      <3>1. batch \o <<>> = batch
        BY <2>1
      <3> QED BY <3>1 DEF FailedOf
    <2>4. batch' = NoBatch
      BY <2>2, EndIs
    <2>5. \/ log' = log
          \/ /\ ~discard
             /\ \E fs \in Seq(Happenings) :
                  /\ log' = log \o fs
                  /\ \A k \in DOMAIN fs : \E i \in DOMAIN FailedOf(undoes) : fs[k] = FailedOf(undoes)[i]
      BY <2>2, EndIs DEF Publish
    <2>6. CASE log' = log
      BY <2>1, <2>2, <2>4, <2>6, NumberOfEnd
    <2>7. CASE /\ ~discard
               /\ \E fs \in Seq(Happenings) :
                    /\ log' = log \o fs
                    /\ \A k \in DOMAIN fs : \E i \in DOMAIN FailedOf(undoes) : fs[k] = FailedOf(undoes)[i]
      <3>1. undone' = undone
        BY <2>2, <2>7
      <3>2. \E fs \in Seq(Happenings) :
              /\ log' = log \o fs
              /\ \A k \in DOMAIN fs :
                   \/ \E i \in DOMAIN batch : fs[k] = batch[i]
                   \/ \E i \in DOMAIN (batch \o Undoing) : fs[k] = (batch \o Undoing)[i]
        <4>1. PICK fs \in Seq(Happenings) :
                /\ log' = log \o fs
                /\ \A k \in DOMAIN fs : \E i \in DOMAIN FailedOf(undoes) : fs[k] = FailedOf(undoes)[i]
          BY <2>7
        <4>2. \A k \in DOMAIN fs :
                \/ \E i \in DOMAIN batch : fs[k] = batch[i]
                \/ \E i \in DOMAIN (batch \o Undoing) : fs[k] = (batch \o Undoing)[i]
          <5>1. CASE FailedOf(undoes) = batch
            BY <4>1, <5>1
          <5>2. CASE FailedOf(undoes) = batch \o Undoing
            <6> DEFINE both == batch \o Undoing
            <6> HIDE DEF both
            <6>1. FailedOf(undoes) = both
              BY <5>2 DEF both
            <6>2. \A k \in DOMAIN fs : \E i \in DOMAIN both : fs[k] = both[i]
              BY <4>1, <6>1
            <6> QED BY <6>2 DEF both
          <5> QED BY <2>3, <5>1, <5>2
        <4> QED BY <4>1, <4>2
      <3> QED BY <2>1, <2>4, <3>1, <3>2, NumberOfEnd
    <2> QED BY <2>5, <2>6, <2>7
  <1>10. ASSUME NEW group \in BOOLEAN, BeginWork(group)
         PROVE  NumberInv'
    <2>1. /\ UNCHANGED <<changes, log, undone, node>> /\ batch' = <<>> /\ created' = {}
          /\ work'.before = node
      BY <1>10 DEF BeginWork, history
    <2>2. Past' = Past
      BY <2>1 DEF Past
    <2>3. \A i \in DOMAIN batch' : FALSE
      BY <2>1
    <2> QED BY <2>1, <2>2, <2>3 DEF NumberInv
  <1>11. ASSUME Read \/ Install
         PROVE  NumberInv'
    BY <1>1, <1>11 DEF Read, Install, hooks, events, history
  <1>12. ASSUME Uninstall
         PROVE  NumberInv'
    <2>1. work = NoWork /\ UNCHANGED <<log, undone, batch>> /\ changes' = changes + 1
      BY <1>12 DEF Uninstall, Changes, events, history
    <2>2. batch = NoBatch
      BY <2>1 DEF TypeOK
    <2> QED BY <2>1, <2>2, NumberStays
  <1>13. ASSUME Restart
         PROVE  NumberInv'
    <2>1. changes' = changes + 1 /\ log' = <<>> /\ undone' = {} /\ batch' = NoBatch
      BY <1>13 DEF Restart, Changes
    <2>2. changes \in Nat
      BY DEF TypeOK
    <2>3. Past' = {0} /\ ~Holding'
      BY <2>1 DEF Past, Holding
    <2> QED BY <2>1, <2>2, <2>3 DEF NumberInv
  <1>14. CASE UNCHANGED vars
    BY <1>1, <1>14 DEF vars, hooks, events, history
  <1>15. CASE \E t \in Tops, soon \in BOOLEAN :
                \/ \E kid \in BOOLEAN : CreateTop(t, kid, soon)
                \/ CreateKid(t, soon) \/ DeleteKid(t, soon) \/ DeleteTop(t, soon)
    BY <1>2, <1>15
  <1>16. CASE \E p \in Node :
                \/ Watch(p)
                \/ \E soon \in BOOLEAN :
                     SetSpare(p, soon) \/ \E houdini \in BOOLEAN : SetParm(p, houdini, soon)
    BY <1>3, <1>4, <1>5, <1>16
  <1>17. CASE \E scene \in {{}} \cup {{Top(t)} : t \in Tops} \cup {node} :
                \E fails, tool \in BOOLEAN : Load(scene, fails, tool)
    BY <1>6, <1>17
  <1>18. CASE \/ FlushPending \/ Succeed \/ RecordPdg \/ Read \/ Uninstall \/ Install \/ Restart
              \/ \E group \in BOOLEAN : BeginWork(group)
              \/ \E error \in Errors, undo \in BOOLEAN : Fail(error, undo)
    BY <1>7, <1>8, <1>9, <1>10, <1>11, <1>12, <1>13, <1>18, NumberOfPdg
  <1> QED BY <1>14, <1>15, <1>16, <1>17, <1>18 DEF Next

-----------------------------------------------------------------------------
(* Types. *)

\* The hooks' part of the type invariant.
HookTypes ==
  /\ node \subseteq Node /\ watched \subseteq node /\ created \subseteq Node
  /\ queued \subseteq Node \cup {Gone}
  /\ installed \in BOOLEAN /\ busy \in BOOLEAN /\ posted \in BOOLEAN
  /\ stale \in Nat /\ Cardinality(watched) + stale <= WatchCap
  /\ lost \subseteq Node /\ deaf \subseteq Node

LEMMA NodesAre ==
  /\ \A t \in Tops : Top(t) \in Node /\ Kid(t) \in Node
  /\ \A p : Below(p) \subseteq Node
  BY DEF Node, Top, Kid, Below

\* Watched nodes are finitely many, and so are those that are left of them.
LEMMA FewerAre ==
  ASSUME EventsAssumption, TypeOK, NEW W, W \subseteq watched
  PROVE  /\ IsFiniteSet(watched) /\ Cardinality(watched) \in Nat
         /\ IsFiniteSet(W) /\ Cardinality(W) \in Nat /\ Cardinality(W) <= Cardinality(watched)
         /\ stale \in Nat /\ WatchCap \in Nat /\ Cardinality(watched) + stale <= WatchCap
  <1>1. IsFiniteSet(Node)
    <2>1. IsFiniteSet({"top"}) /\ IsFiniteSet({"kid"})
      BY FS_Singleton
    <2>2. IsFiniteSet({"top", "kid"})
      <3>1. {"top", "kid"} = {"top"} \cup {"kid"}
        OBVIOUS
      <3>2. IsFiniteSet({"top"} \cup {"kid"})
        BY <2>1, FS_Union
      <3> QED BY <3>1, <3>2
    <2> QED BY <2>2, FS_Product DEF Node, EventsAssumption
  <1>2. /\ watched \subseteq Node /\ WatchCap \in Nat
        /\ stale \in Nat /\ Cardinality(watched) + stale <= WatchCap
    BY DEF TypeOK, EventsAssumption
  <1>3. IsFiniteSet(watched)
    BY <1>1, <1>2, FS_Subset
  <1>4. IsFiniteSet(W) /\ Cardinality(W) <= Cardinality(watched)
    BY <1>3, FS_Subset
  <1>5. Cardinality(W) \in Nat /\ Cardinality(watched) \in Nat
    BY <1>3, <1>4, FS_CardinalityType
  <1> QED BY <1>2, <1>3, <1>4, <1>5

\* Nodes that die give up their places, or leave them stale.
LEMMA ForgetIs ==
  ASSUME EventsAssumption, TypeOK, NEW gone, ForgetNodes(gone)
  PROVE  /\ watched' = watched \ gone /\ queued' \subseteq queued \cup {Gone}
         /\ stale' \in Nat /\ Cardinality(watched') + stale' <= WatchCap
  <1>1. /\ watched' = watched \ gone /\ queued' \subseteq queued \cup {Gone}
        /\ stale' = IF Quiet THEN stale + Cardinality(watched \cap gone) ELSE stale
    BY DEF ForgetNodes
  <1> DEFINE dead == watched \cap gone
             alive == watched \ gone
  <1>2. dead \subseteq watched /\ alive \subseteq watched
    OBVIOUS
  <1>3. alive \cap dead = {} /\ alive \cup dead = watched
    OBVIOUS
  <1> HIDE DEF dead, alive
  <1>4. /\ IsFiniteSet(dead) /\ IsFiniteSet(alive)
        /\ Cardinality(dead) \in Nat /\ Cardinality(alive) \in Nat
        /\ Cardinality(watched) \in Nat /\ stale \in Nat /\ WatchCap \in Nat
        /\ Cardinality(watched) + stale <= WatchCap
    BY <1>2, FewerAre
  <1>5. Cardinality(alive \cup dead) =
          Cardinality(alive) + Cardinality(dead) - Cardinality(alive \cap dead)
    BY <1>4, FS_Union
  <1>6. Cardinality(alive) + Cardinality(dead) = Cardinality(watched)
    <2>1. Cardinality(alive \cap dead) = 0
      BY <1>3, FS_EmptySet
    <2>2. Cardinality(alive \cup dead) = Cardinality(watched)
      BY <1>3
    <2> QED BY <1>4, <1>5, <2>1, <2>2
  <1>7. watched' = alive /\ stale' = IF Quiet THEN stale + Cardinality(dead) ELSE stale
    BY <1>1 DEF dead, alive
  <1>8. stale' \in Nat /\ Cardinality(alive) + stale' <= WatchCap
    BY <1>4, <1>6, <1>7
  <1> QED BY <1>1, <1>7, <1>8

LEMMA HookStep ==
  ASSUME EventsAssumption, TypeOK, [Next]_vars
  PROVE  HookTypes'
  <1>1. HookTypes /\ NoWork \notin Works /\ work \in Works \cup {NoWork}
    BY DEF TypeOK, HookTypes, EventsAssumption
  <1>2. ASSUME NEW t \in Tops, NEW kid \in BOOLEAN, NEW soon \in BOOLEAN, CreateTop(t, kid, soon)
        PROVE  HookTypes'
    <2>1. /\ node' = node \cup {Top(t)} \cup (IF kid THEN {Kid(t)} ELSE {})
          /\ deaf' \subseteq deaf \cup {Top(t), Kid(t)}
          /\ created' \subseteq created \cup {Top(t)} /\ queued' \subseteq queued \cup {Top(t)}
          /\ posted' \in BOOLEAN
          /\ UNCHANGED <<installed, busy, watched, stale, lost>>
      BY <1>1, <1>2 DEF CreateTop, Unheard, WatchLater, HookTypes
    <2> QED BY <1>1, <2>1, NodesAre DEF HookTypes
  <1>3. ASSUME NEW t \in Tops, NEW soon \in BOOLEAN, CreateKid(t, soon)
        PROVE  HookTypes'
    <2>1. /\ node' = node \cup {Kid(t)} /\ deaf' \subseteq deaf \cup {Kid(t)}
          /\ created' \subseteq created \cup {Kid(t)}
          /\ UNCHANGED <<installed, busy, watched, stale, queued, posted, lost>>
      BY <1>3 DEF CreateKid, UnheardKid
    <2> QED BY <1>1, <2>1, NodesAre DEF HookTypes
  <1>4. ASSUME NEW gone, gone \subseteq Node, node' = node \ gone, ForgetNodes(gone),
               created' \subseteq created, deaf' \subseteq Node, lost' \subseteq Node,
               UNCHANGED <<installed, busy, posted>>
        PROVE  HookTypes'
    <2>1. /\ watched' = watched \ gone /\ queued' \subseteq queued \cup {Gone}
          /\ stale' \in Nat /\ Cardinality(watched') + stale' <= WatchCap
      BY <1>4, ForgetIs
    <2>2. watched' \subseteq node'
      BY <1>1, <1>4, <2>1 DEF HookTypes
    <2> QED BY <1>1, <1>4, <2>1, <2>2 DEF HookTypes
  <1>5. ASSUME NEW t \in Tops, NEW soon \in BOOLEAN, DeleteKid(t, soon) \/ DeleteTop(t, soon)
        PROVE  HookTypes'
    <2>1. CASE DeleteKid(t, soon)
      <3>1. /\ node' = node \ {Kid(t)} /\ ForgetNodes({Kid(t)}) /\ created' \subseteq created
            /\ deaf' \subseteq deaf \cup {Kid(t)} /\ UNCHANGED <<installed, busy, posted, lost>>
        BY <2>1 DEF DeleteKid, UnheardKid
      <3>2. {Kid(t)} \subseteq Node /\ deaf' \subseteq Node /\ lost' \subseteq Node
        BY <1>1, <3>1, NodesAre DEF HookTypes
      <3> QED BY <1>4, <3>1, <3>2
    <2>2. CASE DeleteTop(t, soon)
      <3> DEFINE gone == Below(Top(t))
      <3>1. /\ node' = node \ gone /\ ForgetNodes(gone) /\ created' \subseteq created
            /\ deaf' \subseteq deaf \cup gone /\ UNCHANGED <<installed, busy, posted, lost>>
        BY <2>2 DEF DeleteTop, Unheard
      <3>2. gone \subseteq Node /\ deaf' \subseteq Node /\ lost' \subseteq Node
        BY <1>1, <3>1, NodesAre DEF HookTypes
      <3> HIDE DEF gone
      <3> QED BY <1>4, <3>1, <3>2
    <2> QED BY <1>5, <2>1, <2>2
  <1>6. ASSUME NEW p \in Node, NEW soon \in BOOLEAN,
               SetSpare(p, soon) \/ \E houdini \in BOOLEAN : SetParm(p, houdini, soon)
        PROVE  HookTypes'
    <2>1. UNCHANGED <<node, installed, busy, watched, stale, queued, created, posted, lost, deaf>>
      BY <1>6 DEF SetSpare, SetParm, hooks, history
    <2> QED BY <1>1, <2>1 DEF HookTypes
  <1>7. ASSUME NEW scene \in {{}} \cup {{Top(t)} : t \in Tops} \cup {node},
               NEW fails \in BOOLEAN, NEW tool \in BOOLEAN, Load(scene, fails, tool)
        PROVE  HookTypes'
    <2>1. /\ node' = scene /\ busy' \in BOOLEAN
          /\ (watched' = watched /\ stale' = stale /\ node' = node) \/ (watched' = {} /\ stale' = 0)
          /\ queued' = queued \/ queued' = {Gone}
          /\ UNCHANGED <<installed, created, posted, lost, deaf>>
      BY <1>7 DEF Load, history
    <2>2. scene \subseteq Node
      BY <1>1, NodesAre DEF HookTypes
    <2>3. watched' \subseteq watched /\ watched' \subseteq node'
      BY <1>1, <2>1 DEF HookTypes
    <2>4. stale' \in Nat /\ Cardinality(watched') + stale' <= WatchCap
      <3>1. WatchCap \in Nat /\ Cardinality({}) = 0
        BY FewerAre, FS_EmptySet
      <3>2. stale \in Nat /\ Cardinality(watched) + stale <= WatchCap
        BY <1>1 DEF HookTypes
      <3>3. CASE watched' = watched /\ stale' = stale
        BY <3>2, <3>3
      <3>4. CASE watched' = {} /\ stale' = 0
        BY <3>1, <3>4
      <3> QED BY <2>1, <3>3, <3>4
    <2> QED BY <1>1, <2>1, <2>2, <2>3, <2>4 DEF HookTypes
  <1>8. ASSUME NEW p \in Node, Watch(p)
        PROVE  HookTypes'
    <2>1. /\ watched' = watched \cup {p} /\ p \in node /\ p \notin watched
          /\ Cardinality(watched) + stale < WatchCap
          /\ created' \subseteq created \cup {p} /\ deaf' \subseteq deaf
          /\ UNCHANGED <<node, installed, busy, stale, queued, posted, lost>>
      BY <1>8 DEF Watch, CanWatch
    <2>2. IsFiniteSet(watched) /\ Cardinality(watched) \in Nat /\ WatchCap \in Nat /\ stale \in Nat
      BY FewerAre
    <2>3. Cardinality(watched') = Cardinality(watched) + 1
      BY <2>1, <2>2, FS_AddElement
    <2>4. Cardinality(watched') + stale' <= WatchCap
      BY <2>1, <2>2, <2>3
    <2> QED BY <1>1, <2>1, <2>4 DEF HookTypes
  <1>9. ASSUME FlushPending
        PROVE  HookTypes'
    <2>1. PICK S \in SUBSET (queued \cap node) :
            /\ watched' = watched \cup S
            /\ IF S = queued \cap node THEN Cardinality(watched') + stale <= WatchCap
                                       ELSE Cardinality(watched') + stale = WatchCap
      BY <1>9 DEF FlushPending
    <2>2. /\ posted' = FALSE /\ queued' = {}
          /\ UNCHANGED <<node, installed, busy, stale, created, lost, deaf>>
      BY <1>9 DEF FlushPending, history
    <2>3. Cardinality(watched') + stale' <= WatchCap
      BY <2>1, <2>2 DEF EventsAssumption
    <2> QED BY <1>1, <2>1, <2>2, <2>3 DEF HookTypes
  <1>10. ASSUME UNCHANGED <<node, watched, stale, queued, posted, lost, deaf>>,
                created' = created \/ created' = {}, installed' \in BOOLEAN, busy' \in BOOLEAN
         PROVE  HookTypes'
    BY <1>1, <1>10 DEF HookTypes
  <1>11. ASSUME Succeed \/ (\E group \in BOOLEAN : BeginWork(group)) \/ RecordPdg \/ Read \/ Install
         PROVE  HookTypes'
    <2>1. /\ UNCHANGED <<node, watched, stale, queued, posted, lost, deaf>>
          /\ created' = created \/ created' = {}
          /\ installed' = installed \/ installed' = TRUE
          /\ busy' = busy \/ busy' = FALSE
      BY <1>11 DEF Succeed, BeginWork, EndWork, RecordPdg, Read, Install, hooks, history
    <2> QED BY <1>1, <1>10, <2>1 DEF HookTypes
  <1>12. ASSUME Uninstall \/ Restart
         PROVE  HookTypes'
    <2>1. /\ watched' = {} /\ stale' = 0 /\ queued' = {} /\ posted' = FALSE /\ installed' \in BOOLEAN
          /\ busy' = busy \/ busy' = FALSE
          /\ node' = node \/ node' = {}
          /\ created' = created \/ created' = {}
          /\ lost' = lost \/ lost' = {}
          /\ deaf' = deaf \/ deaf' = {}
      BY <1>12 DEF Uninstall, Restart, history
    <2>2. Cardinality(watched') + stale' <= WatchCap
      <3>1. WatchCap \in Nat /\ Cardinality({}) = 0
        BY FewerAre, FS_EmptySet
      <3> QED BY <2>1, <3>1
    <2> QED BY <1>1, <2>1, <2>2 DEF HookTypes
  <1>13. ASSUME NEW error \in Errors, NEW undo \in BOOLEAN, Fail(error, undo)
         PROVE  HookTypes'
    <2> DEFINE undoes == work.group /\ undo /\ ~work.loaded
               after == IF undoes THEN work.before ELSE node
               changed == UNION {Below(p) : p \in (after \ work.before) \cup (work.before \ after)}
    <2>1. /\ node' = after /\ ForgetNodes(node \ after) /\ created' = {}
          /\ lost' \subseteq lost \cup Node \cup changed
          /\ deaf' \subseteq deaf \cup Node
          /\ UNCHANGED <<installed, busy, posted>>
      BY <1>13 DEF Fail, EndWork
    <2>2. work.before \subseteq Node
      BY <1>1, <1>13 DEF Fail, Works
    <2>3. changed \subseteq Node
      BY NodesAre
    <2> HIDE DEF changed
    <2>4. after \subseteq Node
      BY <1>1, <2>2 DEF HookTypes
    <2> HIDE DEF after
    <2>5. /\ watched' = watched \ (node \ after) /\ queued' \subseteq queued \cup {Gone}
          /\ stale' \in Nat /\ Cardinality(watched') + stale' <= WatchCap
      BY <2>1, ForgetIs
    <2>6. watched' \subseteq node'
      BY <1>1, <2>1, <2>5 DEF HookTypes
    <2> QED BY <1>1, <2>1, <2>3, <2>4, <2>5, <2>6 DEF HookTypes
  <1>14. CASE UNCHANGED vars
    BY <1>1, <1>14 DEF vars, hooks, history, HookTypes
  <1>15. CASE \E t \in Tops, soon \in BOOLEAN :
                \/ \E kid \in BOOLEAN : CreateTop(t, kid, soon)
                \/ CreateKid(t, soon) \/ DeleteKid(t, soon) \/ DeleteTop(t, soon)
    BY <1>2, <1>3, <1>5, <1>15
  <1>16. CASE \E p \in Node :
                \/ Watch(p)
                \/ \E soon \in BOOLEAN :
                     SetSpare(p, soon) \/ \E houdini \in BOOLEAN : SetParm(p, houdini, soon)
    BY <1>6, <1>8, <1>16
  <1>17. CASE \E scene \in {{}} \cup {{Top(t)} : t \in Tops} \cup {node} :
                \E fails, tool \in BOOLEAN : Load(scene, fails, tool)
    BY <1>7, <1>17
  <1>18. CASE \/ FlushPending \/ Succeed \/ RecordPdg \/ Read \/ Uninstall \/ Install \/ Restart
              \/ \E group \in BOOLEAN : BeginWork(group)
              \/ \E error \in Errors, undo \in BOOLEAN : Fail(error, undo)
    BY <1>9, <1>11, <1>12, <1>13, <1>18
  <1> QED BY <1>14, <1>15, <1>16, <1>17, <1>18 DEF Next

\* The calls' part.
CallTypes ==
  /\ batch \in Seq(Happenings) \cup {NoBatch} /\ work \in Works \cup {NoWork}
  /\ batch = NoBatch <=> work = NoWork
  /\ recent \in [Node -> 0 .. MaxChanges]
  /\ changes \in 0 .. MaxChanges /\ works \in 0 .. MaxWorks
  /\ undone \subseteq 0 .. MaxChanges

LEMMA ChangeTypes ==
  ASSUME EventsAssumption, TypeOK, NumberInv, Change,
         \/ recent' = recent
         \/ \E p \in Node : recent' = [recent EXCEPT ![p] = changes + 1]
  PROVE  CallTypes'
  <1>1. /\ CallTypes /\ MaxChanges \in Nat
        /\ NoBatch \notin Seq(Happenings) /\ NoWork \notin Works
    BY DEF TypeOK, CallTypes, EventsAssumption
  <1>2. (Holding => batch' \in Seq(Happenings)) /\ (~Holding => batch' = batch)
    BY NumberHeard
  <1>3. /\ changes' = changes + 1 /\ changes + 1 <= MaxChanges /\ works' = works /\ undone' = undone
        /\ work' = work \/ (Holding /\ work' = [work EXCEPT !.loaded = TRUE])
    BY DEF Change
  <1>4. changes + 1 \in 0 .. MaxChanges
    BY <1>1, <1>3 DEF CallTypes
  <1>5. recent' \in [Node -> 0 .. MaxChanges]
    BY <1>1, <1>4 DEF CallTypes
  <1>6. Holding => work \in Works
    BY <1>1 DEF CallTypes, Holding
  <1>7. Holding => [work EXCEPT !.loaded = TRUE] \in Works
    BY <1>6 DEF Works
  <1>8. work' \in Works \cup {NoWork} /\ (work' = NoWork <=> work = NoWork)
    <2> DEFINE loaded == [work EXCEPT !.loaded = TRUE]
    <2> HIDE DEF loaded
    <2>1. CASE work' = work
      BY <1>1, <2>1 DEF CallTypes
    <2>2. CASE Holding /\ work' = loaded
      <3>1. loaded \in Works /\ work \in Works
        BY <1>6, <1>7, <2>2 DEF loaded
      <3> QED BY <1>1, <2>2, <3>1
    <2> QED BY <1>3, <2>1, <2>2 DEF loaded
  <1>9. batch' \in Seq(Happenings) \cup {NoBatch} /\ (batch' = NoBatch <=> batch = NoBatch)
    BY <1>1, <1>2 DEF Holding
  <1> QED BY <1>1, <1>3, <1>4, <1>5, <1>8, <1>9 DEF CallTypes

LEMMA CallStep ==
  ASSUME EventsAssumption, TypeOK, NumberInv, [Next]_vars
  PROVE  CallTypes'
  <1>1. /\ CallTypes /\ MaxChanges \in Nat /\ MaxWorks \in Nat
        /\ NoBatch \notin Seq(Happenings) /\ NoWork \notin Works
    BY DEF TypeOK, CallTypes, EventsAssumption
  <1>2. ASSUME NEW t \in Tops, NEW soon \in BOOLEAN,
               \/ \E kid \in BOOLEAN : CreateTop(t, kid, soon)
               \/ CreateKid(t, soon) \/ DeleteKid(t, soon) \/ DeleteTop(t, soon)
        PROVE  CallTypes'
    <2>1. Change /\ recent' = recent
      BY <1>2, CreateTopIs, CreateKidIs, DeleteKidIs, DeleteTopIs
    <2> QED BY <2>1, ChangeTypes
  <1>3. ASSUME NEW p \in Node, NEW soon \in BOOLEAN, NEW houdini \in BOOLEAN,
               SetParm(p, houdini, soon)
        PROVE  CallTypes'
    <2>1. Change /\ (recent' = recent \/ recent' = [recent EXCEPT ![p] = changes + 1])
      BY <1>3, SetParmIs
    <2> QED BY <2>1, ChangeTypes
  <1>4. ASSUME NEW scene, NEW fails \in BOOLEAN, NEW tool \in BOOLEAN, Load(scene, fails, tool)
        PROVE  CallTypes'
    <2>1. Change /\ recent' = recent
      BY <1>4, LoadIs
    <2> QED BY <2>1, ChangeTypes
  <1>5. ASSUME NEW p \in Node, NEW soon \in BOOLEAN, SetSpare(p, soon)
        PROVE  CallTypes'
    <2>1. /\ (Holding => batch' \in Seq(Happenings)) /\ (~Holding => batch' = batch)
          /\ changes' = changes + 1 /\ changes + 1 <= MaxChanges
          /\ (recent' = recent \/ recent' = [recent EXCEPT ![p] = 0])
      BY <1>5, NumberOfSpare
    <2>2. UNCHANGED <<work, works, undone>>
      BY <1>5 DEF SetSpare, bounds
    <2>3. 0 \in 0 .. MaxChanges /\ changes + 1 \in 0 .. MaxChanges
      BY <1>1, <2>1 DEF CallTypes
    <2>4. recent' \in [Node -> 0 .. MaxChanges]
      BY <1>1, <2>1, <2>3 DEF CallTypes
    <2>5. batch' \in Seq(Happenings) \cup {NoBatch} /\ (batch' = NoBatch <=> batch = NoBatch)
      BY <1>1, <2>1 DEF Holding
    <2> QED BY <1>1, <2>1, <2>2, <2>3, <2>4, <2>5 DEF CallTypes
  <1>6. ASSUME NEW p \in Node, Watch(p)
        PROVE  CallTypes'
    <2>1. batch' \in Seq(Happenings) /\ work # NoWork
      BY <1>6, NumberOfWatch
    <2>2. UNCHANGED <<recent, changes, works, undone, work>>
      BY <1>6 DEF Watch, bounds
    <2> QED BY <1>1, <2>1, <2>2 DEF CallTypes
  <1>7. ASSUME UNCHANGED <<recent, works, undone>>, changes' = changes \/ Changes,
               UNCHANGED <<batch, work>> \/ (batch' = NoBatch /\ work' = NoWork)
        PROVE  CallTypes'
    <2>1. changes' \in 0 .. MaxChanges
      BY <1>1, <1>7 DEF Changes, CallTypes
    <2> QED BY <1>1, <1>7, <2>1 DEF CallTypes
  <1>8. ASSUME FlushPending \/ RecordPdg \/ Read \/ Install \/ Uninstall \/ Succeed
        PROVE  CallTypes'
    BY <1>7, <1>8 DEF FlushPending, RecordPdg, Read, Install, Uninstall, Succeed, EndWork, events,
       bounds, history
  <1>9. ASSUME NEW group \in BOOLEAN, BeginWork(group)
        PROVE  CallTypes'
    <2>1. /\ work' = [group |-> group, before |-> node, loaded |-> FALSE]
          /\ batch' = <<>> /\ works < MaxWorks /\ works' = works + 1
          /\ UNCHANGED <<recent, changes, undone>>
      BY <1>9 DEF BeginWork, history
    <2>2. node \subseteq Node
      BY DEF TypeOK
    <2>3. work' \in Works
      BY <2>1, <2>2 DEF Works
    <2>4. batch' \in Seq(Happenings) /\ batch' # NoBatch
      <3>1. <<>> \in Seq(Happenings)
        OBVIOUS
      <3> QED BY <1>1, <2>1, <3>1
    <2>5. works' \in 0 .. MaxWorks
      BY <1>1, <2>1 DEF CallTypes
    <2> QED BY <1>1, <2>1, <2>3, <2>4, <2>5 DEF CallTypes
  <1>10. ASSUME NEW error \in Errors, NEW undo \in BOOLEAN, Fail(error, undo)
         PROVE  CallTypes'
    <2>1. /\ work # NoWork /\ batch \in Seq(Happenings)
          /\ UNCHANGED <<changes, recent, works>>
      BY <1>10, FailIs
    <2>2. PICK undoes \in BOOLEAN, discard \in BOOLEAN :
            /\ EndWork(discard, FailedOf(undoes)) /\ FailedOf(undoes) \in Seq(Happenings)
            /\ \/ undone' = undone
               \/ undone' = undone \cup {(batch \o Undoing)[i].n : i \in DOMAIN (batch \o Undoing)}
      BY <1>10, FailIs
    <2>3. work' = NoWork /\ batch' = NoBatch
      BY <2>2, EndIs
    <2>4. batch \o Undoing \in Seq(Happenings)
      BY <2>1, UndoingIs
    <2> DEFINE all == batch \o Undoing
    <2> HIDE DEF all
    <2>5. \A i \in DOMAIN all : all[i] \in Happenings
      BY <2>4 DEF all
    <2>6. {all[i].n : i \in DOMAIN all} \subseteq 0 .. MaxChanges
      BY <2>5 DEF Happenings
    <2>7. undone' \subseteq 0 .. MaxChanges
      BY <1>1, <2>2, <2>6 DEF all, CallTypes
    <2> QED BY <1>1, <2>1, <2>3, <2>7 DEF CallTypes
  <1>11. ASSUME Restart
         PROVE  CallTypes'
    <2>1. /\ Changes /\ batch' = NoBatch /\ work' = NoWork /\ undone' = {} /\ works' = works
          /\ recent' = [q \in Node |-> 0]
      BY <1>11 DEF Restart
    <2>2. changes' \in 0 .. MaxChanges
      BY <1>1, <2>1 DEF Changes, CallTypes
    <2>3. recent' \in [Node -> 0 .. MaxChanges]
      BY <1>1, <2>1
    <2> QED BY <1>1, <2>1, <2>2, <2>3 DEF CallTypes
  <1>12. CASE UNCHANGED vars
    BY <1>7, <1>12 DEF vars, events, bounds, history
  <1>13. CASE \E t \in Tops, soon \in BOOLEAN :
                \/ \E kid \in BOOLEAN : CreateTop(t, kid, soon)
                \/ CreateKid(t, soon) \/ DeleteKid(t, soon) \/ DeleteTop(t, soon)
    BY <1>2, <1>13
  <1>14. CASE \E p \in Node :
                \/ Watch(p)
                \/ \E soon \in BOOLEAN :
                     SetSpare(p, soon) \/ \E houdini \in BOOLEAN : SetParm(p, houdini, soon)
    BY <1>3, <1>5, <1>6, <1>14
  <1>15. CASE \E scene \in {{}} \cup {{Top(t)} : t \in Tops} \cup {node} :
                \E fails, tool \in BOOLEAN : Load(scene, fails, tool)
    BY <1>4, <1>15
  <1>16. CASE \/ FlushPending \/ Succeed \/ RecordPdg \/ Read \/ Uninstall \/ Install \/ Restart
              \/ \E group \in BOOLEAN : BeginWork(group)
              \/ \E error \in Errors, undo \in BOOLEAN : Fail(error, undo)
    BY <1>8, <1>9, <1>10, <1>11, <1>16
  <1> QED BY <1>12, <1>13, <1>14, <1>15, <1>16 DEF Next

-----------------------------------------------------------------------------
(* The theorems. *)

LEMMA InitInv ==
  ASSUME EventsAssumption, Init
  PROVE  IInv
  <1>1. Cardinality({}) = 0 /\ RingSize \in Nat /\ WatchCap \in Nat /\ MaxChanges \in Nat /\ MaxWorks \in Nat
    BY FS_EmptySet DEF EventsAssumption
  <1>2. TypeOK
    <2>1. recent \in [Node -> 0 .. MaxChanges] /\ log \in Seq(Happenings) /\ log = <<>> /\ ring = {}
      BY <1>1 DEF Init
    <2>2. cursor \in [pid : Nat, seq : Nat] /\ cursor.pid <= pid /\ pid \in Nat
      BY DEF Init
    <2>3. /\ node \subseteq Node /\ watched \subseteq node /\ created \subseteq Node
          /\ queued \subseteq Node \cup {Gone} /\ {installed, busy, posted} \subseteq BOOLEAN
          /\ lost \cup deaf \subseteq Node /\ undone \subseteq 0 .. MaxChanges
          /\ seen \subseteq Nat /\ taken \subseteq DOMAIN log /\ ring \subseteq DOMAIN log
      BY DEF Init
    <2>4. Cardinality(ring) <= RingSize /\ stale = 0 /\ Cardinality(watched) + stale <= WatchCap
      BY <1>1 DEF Init
    <2>5. changes \in 0 .. MaxChanges /\ works \in 0 .. MaxWorks
      BY <1>1 DEF Init
    <2>6. batch = NoBatch /\ work = NoWork
      BY DEF Init
    <2> QED BY <2>1, <2>2, <2>3, <2>4, <2>5, <2>6 DEF TypeOK
  <1>3. RingInv /\ ReaderInv
    BY DEF Init, RingInv, ReaderInv, PagesAreWhole
  <1>4. NumberInv
    <2>1. Past = {0} /\ changes = 0 /\ ~Holding
      BY DEF Init, Past, Holding
    <2> QED BY <2>1 DEF Init, NumberInv
  <1> QED BY <1>2, <1>3, <1>4 DEF IInv

LEMMA Inductive ==
  ASSUME EventsAssumption, IInv, [Next]_vars
  PROVE  IInv'
  <1>1. TypeOK /\ LogInv /\ ReaderInv /\ NumberInv
    BY DEF IInv, TypeOK, LogInv
  <1>2. LogInv' /\ HookTypes' /\ CallTypes' /\ NumberInv'
    BY <1>1, LogStep, HookStep, CallStep, NumberStep
  <1>3. /\ ReaderInv' /\ seen' \subseteq Nat
        /\ cursor' \in [pid : Nat, seq : Nat] /\ cursor'.pid <= pid' /\ pid' \in Nat
    BY <1>1, ReaderStep
  <1>4. TypeOK'
    BY <1>2, <1>3 DEF TypeOK, LogInv, HookTypes, CallTypes
  <1> QED BY <1>2, <1>3, <1>4 DEF IInv, LogInv

LEMMA Invariant == Spec => []IInv
  <1>1. Init => IInv
    BY EventsAssumption, InitInv
  <1>2. IInv /\ [Next]_vars => IInv'
    BY EventsAssumption, Inductive
  <1> QED BY <1>1, <1>2, PTL DEF Spec

\* Every variable keeps its type; the ring never holds more than RING_SIZE events, nor does a
\* Houdini have more than WATCH_CAP watched nodes, whoever watches them: a tool in its call or
\* the posted flush.
THEOREM TypesAreKept == Spec => []TypeOK
  <1>1. IInv => TypeOK
    BY DEF IInv
  <1> QED BY <1>1, Invariant, PTL

\* A reader that goes on from next_since misses nothing, whatever the limit and the budget cut a
\* page to, however far it falls behind the ring, and when another Houdini takes the place of
\* its own: EventLog.read and the bridge's cursor.
THEOREM PagesWhole == Spec => []PagesAreWhole
  <1>1. IInv => PagesAreWhole
    BY DEF IInv, ReaderInv
  <1> QED BY <1>1, Invariant, PTL

\* What a call did, and what its rollback did in turn, is never in the ring once the call was
\* rolled back: not by its batch, and not by a page, a flush or a pdg event in between.
THEOREM UndoneSilent == Spec => []UndoneIsSilent
  <1>1. IInv => UndoneIsSilent
    BY DEF IInv, TypeOK, NumberInv, UndoneIsSilent
  <1> QED BY <1>1, Invariant, PTL

\* A node that waits to be watched has a flush queued that will watch it: WatchLater posts one
\* when it finds none waiting, and what empties the executor's queue empties the waiting too.
THEOREM FlushStaysQueued == Spec => []FlushIsQueued
  <1>1. Init => FlushIsQueued
    BY DEF Init, FlushIsQueued
  <1>2. FlushIsQueued /\ [Next]_vars => FlushIsQueued'
    <2>1. SUFFICES ASSUME queued # {} => posted, [Next]_vars
                   PROVE  queued' # {} => posted'
      BY DEF FlushIsQueued
    <2>2. ASSUME posted' = posted, queued # {} \/ queued' = {}
          PROVE  queued' # {} => posted'
      BY <2>1, <2>2
    <2>3. ASSUME NEW gone, ForgetNodes(gone)
          PROVE  queued # {} \/ queued' = {}
      BY <2>3 DEF ForgetNodes
    <2>4. CASE \E t \in Tops, soon \in BOOLEAN :
                 \/ \E kid \in BOOLEAN : CreateTop(t, kid, soon)
                 \/ CreateKid(t, soon) \/ DeleteKid(t, soon) \/ DeleteTop(t, soon)
      <3>1. PICK t \in Tops, soon \in BOOLEAN :
              \/ \E kid \in BOOLEAN : CreateTop(t, kid, soon)
              \/ CreateKid(t, soon) \/ DeleteKid(t, soon) \/ DeleteTop(t, soon)
        BY <2>4
      <3>2. CASE \E kid \in BOOLEAN : CreateTop(t, kid, soon)
        BY <2>1, <3>2 DEF CreateTop, WatchLater
      <3>3. CASE CreateKid(t, soon)
        BY <2>1, <3>3 DEF CreateKid
      <3>4. CASE DeleteKid(t, soon) \/ DeleteTop(t, soon)
        BY <2>2, <2>3, <3>4 DEF DeleteKid, DeleteTop
      <3> QED BY <3>1, <3>2, <3>3, <3>4
    <2>5. CASE \E p \in Node :
                 \/ Watch(p)
                 \/ \E soon \in BOOLEAN :
                      SetSpare(p, soon) \/ \E houdini \in BOOLEAN : SetParm(p, houdini, soon)
      <3>1. PICK p \in Node :
              \/ Watch(p)
              \/ \E soon \in BOOLEAN :
                   SetSpare(p, soon) \/ \E houdini \in BOOLEAN : SetParm(p, houdini, soon)
        BY <2>5
      <3>2. UNCHANGED <<queued, posted>>
        <4>1. CASE Watch(p)
          BY <4>1 DEF Watch
        <4>2. CASE \E soon \in BOOLEAN :
                     SetSpare(p, soon) \/ \E houdini \in BOOLEAN : SetParm(p, houdini, soon)
          BY <4>2 DEF SetSpare, SetParm, hooks
        <4> QED BY <3>1, <4>1, <4>2
      <3> QED BY <2>1, <3>2
    <2>6. CASE \E scene \in {{}} \cup {{Top(t)} : t \in Tops} \cup {node} :
                 \E fails, tool \in BOOLEAN : Load(scene, fails, tool)
      BY <2>1, <2>6 DEF Load
    <2>7. CASE \/ FlushPending \/ Succeed \/ RecordPdg \/ Read \/ Uninstall \/ Install \/ Restart
               \/ \E group \in BOOLEAN : BeginWork(group)
               \/ \E error \in Errors, undo \in BOOLEAN : Fail(error, undo)
      <3>1. CASE \E error \in Errors, undo \in BOOLEAN : Fail(error, undo)
        <4>1. posted' = posted /\ \E gone : ForgetNodes(gone)
          BY <3>1 DEF Fail
        <4> QED BY <2>2, <2>3, <4>1
      <3>2. CASE FlushPending \/ Uninstall \/ Restart
        BY <3>2 DEF FlushPending, Uninstall, Restart
      <3>3. CASE Succeed \/ RecordPdg \/ Read \/ Install \/ \E group \in BOOLEAN : BeginWork(group)
        BY <2>1, <3>3 DEF Succeed, RecordPdg, Read, Install, BeginWork, hooks
      <3> QED BY <2>7, <3>1, <3>2, <3>3
    <2>8. CASE UNCHANGED vars
      BY <2>1, <2>8 DEF vars, hooks
    <2> QED BY <2>1, <2>4, <2>5, <2>6, <2>7, <2>8 DEF Next
  <1> QED BY <1>1, <1>2, PTL DEF Spec
=============================================================================
