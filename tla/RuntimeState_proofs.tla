-------------------------- MODULE RuntimeState_proofs --------------------------
(***************************************************************************)
(* What the operators of RuntimeState leave behind, for the proofs about   *)
(* what a process keeps in memory and about the duplicate detector.        *)
(***************************************************************************)
EXTENDS RuntimeState, Finite_proofs, SequenceTheorems

\* Sequence t is s without its first n elements.
IsRest(t, s, n) ==
    /\ Len(t) = Len(s) - n
    /\ \A i \in 1..(Len(s) - n) : t[i] = s[i + n]

LEMMA SubSeqIsSuffix ==
  ASSUME NEW E, NEW s \in Seq(E), NEW first \in 1..Len(s)
  PROVE  /\ SubSeq(s, first, Len(s)) \in Seq(E)
         /\ IsRest(SubSeq(s, first, Len(s)), s, first - 1)
<1>1. \A i \in first..Len(s) : s[i] \in E
  OBVIOUS
<1>2. /\ SubSeq(s, first, Len(s)) \in Seq(E)
      /\ Len(SubSeq(s, first, Len(s))) = Len(s) - first + 1
      /\ \A i \in 1..(Len(s) - first + 1) : SubSeq(s, first, Len(s))[i] = s[first + i - 1]
  BY <1>1, SubSeqProperties
<1> QED BY <1>2 DEF IsRest

\* Cutting a sequence at the first position to be kept drops others only.
LEMMA CutAtFirst ==
  ASSUME NEW E, NEW s \in Seq(E), NEW keep \in SUBSET DOMAIN s, NEW t,
         t = IF keep = {} THEN << >>
             ELSE SubSeq(s, CHOOSE i \in keep : \A j \in keep : i <= j, Len(s))
  PROVE  /\ t \in Seq(E)
         /\ \E n \in 0..Len(s) : IsRest(t, s, n) /\ \A i \in 1..n : i \notin keep
<1>1. CASE keep = {}
  <2>1. t = << >> /\ t \in Seq(E) /\ Len(t) = 0
    BY <1>1
  <2>2. IsRest(t, s, Len(s)) /\ Len(s) \in 0..Len(s)
    BY <2>1 DEF IsRest
  <2> QED BY <1>1, <2>1, <2>2
<1>2. CASE keep # {}
  <2> DEFINE first == CHOOSE i \in keep : \A j \in keep : i <= j
  <2>1. keep \in SUBSET Nat
    OBVIOUS
  <2>2. first \in keep /\ \A j \in keep : first <= j
    BY <1>2, <2>1, LeastExists
  <2>3. t = SubSeq(s, first, Len(s))
    BY <1>2
  <2> HIDE DEF first
  <2>4. first \in 1..Len(s) /\ \A i \in 1..(first - 1) : i \notin keep
    BY <2>2
  <2>5. t \in Seq(E) /\ IsRest(t, s, first - 1)
    BY <2>3, <2>4, SubSeqIsSuffix, Zenon
  <2>6. first - 1 \in 0..Len(s)
    BY <2>4
  <2> QED BY <2>4, <2>5, <2>6, Zenon
<1> QED BY <1>1, <1>2

\* Pruning a suppression set drops expired entries only.
LEMMA PruneDropsExpired ==
  ASSUME NEW E, NEW s \in Seq(E), NEW t \in Int, NEW ttl \in Int
  PROVE  /\ Prune(s, t, ttl) \in Seq(E)
         /\ \E n \in 0..Len(s) :
               /\ IsRest(Prune(s, t, ttl), s, n)
               /\ \A i \in 1..n : Expired(s[i], t, ttl)
<1> DEFINE alive == {i \in DOMAIN s : ~Expired(s[i], t, ttl)}
<1>1. Prune(s, t, ttl) = IF alive = {} THEN << >>
                         ELSE SubSeq(s, CHOOSE i \in alive : \A j \in alive : i <= j, Len(s))
  BY DEF Prune
<1>2. alive \in SUBSET DOMAIN s
  OBVIOUS
<1> HIDE DEF alive
<1>3. /\ Prune(s, t, ttl) \in Seq(E)
      /\ \E n \in 0..Len(s) : IsRest(Prune(s, t, ttl), s, n) /\ \A i \in 1..n : i \notin alive
  BY <1>1, <1>2, CutAtFirst
<1> QED BY <1>3 DEF alive

\* Trimming a bucket drops starts before the cutoff only.
LEMMA TrimDropsEarlier ==
  ASSUME NEW E, NEW s \in Seq(E), NEW cutoff
  PROVE  /\ Trim(s, cutoff) \in Seq(E)
         /\ \E n \in 0..Len(s) :
               /\ IsRest(Trim(s, cutoff), s, n)
               /\ \A i \in 1..n : ~(s[i] >= cutoff)
<1> DEFINE inside == {i \in DOMAIN s : s[i] >= cutoff}
<1>1. Trim(s, cutoff) = IF inside = {} THEN << >>
                        ELSE SubSeq(s, CHOOSE i \in inside : \A j \in inside : i <= j, Len(s))
  BY DEF Trim
<1>2. inside \in SUBSET DOMAIN s
  OBVIOUS
<1> HIDE DEF inside
<1>3. /\ Trim(s, cutoff) \in Seq(E)
      /\ \E n \in 0..Len(s) : IsRest(Trim(s, cutoff), s, n) /\ \A i \in 1..n : i \notin inside
  BY <1>1, <1>2, CutAtFirst
<1> QED BY <1>3 DEF inside

\* Whatever is asked about, the suppression set holds entries it held before
\* and, at most, a new one for the key.
LEMMA SeenKeepsEntries ==
  ASSUME NEW E, NEW s \in Seq(E), NEW key, NEW t \in Int, NEW ttl \in Int, NEW size \in Nat,
         [key |-> key, at |-> t] \in E
  PROVE  SeenRecently(s, key, t, ttl, size).items \in Seq(E)
<1> DEFINE kept == Prune(s, t, ttl)
<1>1. kept \in Seq(E)
  BY PruneDropsExpired
<1>2. SeenRecently(s, key, t, ttl, size).items =
        IF key \in Recorded(kept) THEN MoveToEnd(kept, key) ELSE Record(kept, key, t, size)
  BY DEF SeenRecently
<1> HIDE DEF kept
<1>3. CASE key \in Recorded(kept)
  <2>1. PICK p \in DOMAIN kept : kept[p].key = key
    BY <1>3 DEF Recorded
  <2>2. PositionOf(kept, key) \in DOMAIN kept
    BY <2>1 DEF PositionOf
  <2>3. \A i \in DOMAIN kept : MoveToEnd(kept, key)[i] \in E
    BY <1>1, <2>2 DEF MoveToEnd
  <2>4. DOMAIN kept = 1..Len(kept) /\ Len(kept) \in Nat /\ DOMAIN MoveToEnd(kept, key) = DOMAIN kept
    BY <1>1 DEF MoveToEnd
  <2>5. MoveToEnd(kept, key) \in [1..Len(kept) -> E]
    BY <2>3, <2>4 DEF MoveToEnd
  <2> QED BY <1>2, <1>3, <2>4, <2>5
<1>4. CASE key \notin Recorded(kept)
  <2> DEFINE added == Append(kept, [key |-> key, at |-> t])
  <2>1. added \in Seq(E) /\ added # << >>
    BY <1>1, AppendProperties
  <2>2. Record(kept, key, t, size) = IF Len(added) > size THEN Tail(added) ELSE added
    BY DEF Record
  <2> HIDE DEF added
  <2>3. Tail(added) \in Seq(E)
    BY <2>1, HeadTailProperties
  <2> QED BY <1>2, <1>4, <2>1, <2>2, <2>3
<1> QED BY <1>3, <1>4

-----------------------------------------------------------------------------
(* Suppression sets                                                        *)

\* No key twice.
Distinct(s) == \A i, j \in DOMAIN s : s[i].key = s[j].key => i = j

\* A suffix of a table without duplicates has none.
LEMMA SuffixDistinct ==
  ASSUME NEW E, NEW s \in Seq(E), NEW t \in Seq(E), NEW n \in 0..Len(s),
         IsRest(t, s, n), Distinct(s)
  PROVE  Distinct(t) /\ Len(t) <= Len(s)
<1>1. Len(t) = Len(s) - n /\ Len(t) \in Nat /\ Len(s) \in Nat
  BY DEF IsRest
<1>2. \A i \in DOMAIN t : t[i] = s[i + n] /\ i + n \in DOMAIN s /\ i \in Nat
  BY <1>1 DEF IsRest
<1>3. SUFFICES ASSUME NEW i \in DOMAIN t, NEW j \in DOMAIN t, t[i].key = t[j].key
               PROVE  i = j
  BY <1>1 DEF Distinct
<1>4. i + n = j + n
  BY <1>2, <1>3 DEF Distinct
<1> QED BY <1>2, <1>4

LEMMA PositionIsUnique ==
  ASSUME NEW E, NEW s \in Seq(E), Distinct(s), NEW i \in DOMAIN s
  PROVE  PositionOf(s, s[i].key) = i
BY DEF Distinct, PositionOf

\* A hit rearranges the entries.
LEMMA MoveToEndRearranges ==
  ASSUME NEW E, NEW s \in Seq(E), Distinct(s), NEW p \in DOMAIN s
  PROVE  LET t == MoveToEnd(s, s[p].key)
         IN  /\ t \in Seq(E) /\ Len(t) = Len(s)
             /\ \A i \in DOMAIN s : t[i] = s[IF i < p THEN i ELSE IF i < Len(s) THEN i + 1 ELSE p]
<1> DEFINE from(i) == IF i < p THEN i ELSE IF i < Len(s) THEN i + 1 ELSE p
           t == MoveToEnd(s, s[p].key)
<1>1. PositionOf(s, s[p].key) = p
  BY PositionIsUnique
<1>2. t = [i \in DOMAIN s |-> s[from(i)]]
  BY <1>1 DEF MoveToEnd
<1>3. DOMAIN s = 1..Len(s) /\ Len(s) \in Nat
  OBVIOUS
<1>4. \A i \in DOMAIN s : from(i) \in DOMAIN s
  BY <1>3
<1>5. \A i \in DOMAIN s : s[from(i)] \in E
  BY <1>4
<1>6. t \in [1..Len(s) -> E]
  BY <1>2, <1>3, <1>5
<1>7. t \in Seq(E) /\ Len(t) = Len(s)
  BY <1>3, <1>6
<1> QED BY <1>2, <1>7

LEMMA MoveToEndDistinct ==
  ASSUME NEW E, NEW s \in Seq(E), Distinct(s), NEW p \in DOMAIN s
  PROVE  Distinct(MoveToEnd(s, s[p].key))
<1> DEFINE from(i) == IF i < p THEN i ELSE IF i < Len(s) THEN i + 1 ELSE p
           t == MoveToEnd(s, s[p].key)
<1>1. t \in Seq(E) /\ Len(t) = Len(s) /\ \A i \in DOMAIN s : t[i] = s[from(i)]
  BY MoveToEndRearranges
<1> HIDE DEF t
<1>2. SUFFICES ASSUME NEW i \in DOMAIN t, NEW j \in DOMAIN t, t[i].key = t[j].key
               PROVE  i = j
  BY DEF Distinct, t
<1>3. i \in DOMAIN s /\ j \in DOMAIN s
  BY <1>1
<1>4. from(i) \in DOMAIN s /\ from(j) \in DOMAIN s
  BY <1>3
<1>5. s[from(i)].key = s[from(j)].key
  BY <1>1, <1>2, <1>3
<1>6. from(i) = from(j)
  BY <1>4, <1>5 DEF Distinct
<1> QED BY <1>3, <1>6

==============================================================================
