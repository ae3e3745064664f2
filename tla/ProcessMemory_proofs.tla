------------------------- MODULE ProcessMemory_proofs --------------------------
(***************************************************************************)
(* Proofs about what one process keeps in memory, each part for any values *)
(* of its parameters: the suppression set (TTLSet), the restart tracker    *)
(* (RestartTracker) and the settings with their sessions (WebSettings).    *)
(***************************************************************************)
EXTENDS MCRuntimeState, RuntimeState_proofs

-----------------------------------------------------------------------------
(* TTLSet                                                                  *)

SetIInv == TypeOK /\ WellFormed

\* RecordedAt as a function of the table.
TimesOf(s) ==
    [k \in Keys |-> IF k \in Recorded(s) THEN s[PositionOf(s, k)].at ELSE Never]

-----------------------------------------------------------------------------
(* The operators of RuntimeState                                           *)

\* A new key goes to the back; the entry at the front makes room for it.
LEMMA RecordAppends ==
  ASSUME NEW s \in Seq(Entries), Distinct(s), Len(s) <= MaxSize,
         NEW key \in Keys, NEW t \in 0..Horizon, key \notin Recorded(s)
  PROVE  LET r == Record(s, key, t, MaxSize)
             n == IF Len(s) = MaxSize THEN 1 ELSE 0
         IN  /\ r \in Seq(Entries) /\ Len(r) = Len(s) + 1 - n
             /\ \A i \in 1..(Len(s) - n) : r[i] = s[i + n]
             /\ r[Len(s) + 1 - n] = [key |-> key, at |-> t]
             /\ Distinct(r)
<1> DEFINE e == [key |-> key, at |-> t]
           added == Append(s, e)
           n == IF Len(s) = MaxSize THEN 1 ELSE 0
           r == Record(s, key, t, MaxSize)
<1>1. e \in Entries
  BY DEF Entries
<1>2. /\ added \in Seq(Entries) /\ Len(added) = Len(s) + 1 /\ added # << >>
      /\ \A i \in 1..Len(s) : added[i] = s[i]
      /\ added[Len(s) + 1] = e
  BY <1>1, AppendProperties
<1>3. r = IF Len(added) > MaxSize THEN Tail(added) ELSE added
  BY DEF Record
<1>4. MaxSize \in Nat /\ Len(s) \in Nat
  BY TTLSetAssumption
<1> HIDE DEF added, r, e
<1>5. /\ Tail(added) \in Seq(Entries) /\ Len(Tail(added)) = Len(s)
      /\ \A i \in 1..Len(s) : Tail(added)[i] = added[i + 1]
  BY <1>2, HeadTailProperties
<1>6. /\ r \in Seq(Entries) /\ Len(r) = Len(s) + 1 - n
      /\ \A i \in 1..(Len(s) - n) : r[i] = s[i + n]
      /\ r[Len(s) + 1 - n] = e
  <2>1. CASE Len(s) = MaxSize
    <3>1. n = 1 /\ r = Tail(added)
      BY <2>1, <1>2, <1>3, <1>4
    <3>2. \A i \in 1..Len(s) : Tail(added)[i] = added[i + 1] /\ i + 1 \in 1..(Len(s) + 1)
      BY <1>4, <1>5
    <3>3. \A i \in 1..(Len(s) - 1) : Tail(added)[i] = s[i + 1]
      BY <1>2, <1>4, <3>2
    <3>4. Len(s) \in 1..Len(s) /\ Tail(added)[Len(s)] = e
      BY <2>1, <1>2, <1>4, <3>2, TTLSetAssumption
    <3>5. Len(s) + 1 - n = Len(s) /\ Len(s) - n = Len(s) - 1
      BY <3>1, <1>4
    <3> HIDE DEF n
    <3>6. \A i \in 1..(Len(s) - n) : r[i] = s[i + n]
      BY <3>1, <3>3, <3>5
    <3> QED BY <3>1, <3>4, <3>5, <3>6, <1>5
  <2>2. CASE Len(s) # MaxSize
    <3>1. n = 0 /\ r = added
      BY <2>2, <1>2, <1>3, <1>4
    <3>2. Len(s) + 1 - n = Len(s) + 1 /\ \A i \in 1..(Len(s) - n) : i \in 1..Len(s) /\ i + n = i
      BY <3>1, <1>4
    <3> HIDE DEF n
    <3> QED BY <3>1, <3>2, <1>2
  <2> QED BY <2>1, <2>2
<1>7. \A i \in 1..Len(s) : s[i].key # key
  BY DEF Recorded
<1>8. e.key = key
  BY DEF e
<1>9. Distinct(r)
  <2> SUFFICES ASSUME NEW i \in DOMAIN r, NEW j \in DOMAIN r, r[i].key = r[j].key
               PROVE  i = j
    BY DEF Distinct
  <2>1. i \in 1..(Len(s) + 1 - n) /\ j \in 1..(Len(s) + 1 - n)
    BY <1>6
  <2>2. CASE i = Len(s) + 1 - n \/ j = Len(s) + 1 - n
    BY <2>1, <2>2, <1>4, <1>6, <1>7, <1>8
  <2>3. CASE i # Len(s) + 1 - n /\ j # Len(s) + 1 - n
    <3>1. /\ i \in 1..(Len(s) - n) /\ j \in 1..(Len(s) - n)
          /\ i + n \in DOMAIN s /\ j + n \in DOMAIN s
      BY <2>1, <2>3, <1>4
    <3>2. s[i + n].key = s[j + n].key
      BY <3>1, <1>6
    <3> QED BY <3>1, <3>2, <1>4 DEF Distinct
  <2> QED BY <2>2, <2>3
<1> QED BY <1>6, <1>9 DEF r, e
-----------------------------------------------------------------------------
(* Invariance                                                              *)

LEMMA SetInitInv == Init => SetIInv
<1> SUFFICES ASSUME Init PROVE SetIInv
  OBVIOUS
<1>1. items = << >> /\ items \in Seq(Entries) /\ Len(items) = 0 /\ DOMAIN items = {}
  BY DEF Init
<1>2. reply \in [key : Keys, seen : BOOLEAN] /\ now \in 0..Horizon
  BY DEF Init
<1> QED BY <1>1, <1>2, TTLSetAssumption DEF SetIInv, TypeOK, WellFormed

\* A call leaves a table of the right type, without duplicates, within bounds.
LEMMA AskInv ==
  ASSUME SetIInv, NEW key \in Keys, Ask(key)
  PROVE  SetIInv'
<1> DEFINE kept == Prune(items, now, TTL)
<1>1. /\ items \in Seq(Entries) /\ now \in 0..Horizon /\ now \in Int /\ TTL \in Int
      /\ Distinct(items) /\ Len(items) <= MaxSize /\ MaxSize \in Nat /\ Len(items) \in Nat
  BY TTLSetAssumption DEF SetIInv, TypeOK, WellFormed, Distinct
<1>2. PICK n \in 0..Len(items) : kept \in Seq(Entries) /\ IsRest(kept, items, n)
  BY <1>1, PruneDropsExpired
<1>3. Distinct(kept) /\ Len(kept) <= MaxSize
  BY <1>1, <1>2, SuffixDistinct
<1>4. now' = now /\ reply' \in [key : Keys, seen : BOOLEAN]
  BY DEF Ask, SeenRecently
<1>5. items' \in Seq(Entries) /\ Distinct(items') /\ Len(items') <= MaxSize
  <2>1. CASE key \in Recorded(kept)
    <3>1. items' = MoveToEnd(kept, key)
      BY <2>1 DEF Ask, SeenRecently
    <3>2. PICK p \in DOMAIN kept : kept[p].key = key
      BY <2>1 DEF Recorded
    <3> HIDE DEF kept
    <3>3. items' \in Seq(Entries) /\ Len(items') = Len(kept)
      BY <1>2, <1>3, <3>1, <3>2, MoveToEndRearranges
    <3>4. Distinct(items')
      BY <1>2, <1>3, <3>1, <3>2, MoveToEndDistinct
    <3> QED BY <1>3, <3>3, <3>4
  <2>2. CASE key \notin Recorded(kept)
    <3>1. items' = Record(kept, key, now, MaxSize)
      BY <2>2 DEF Ask, SeenRecently
    <3> HIDE DEF kept
    <3>2. /\ items' \in Seq(Entries) /\ Distinct(items')
          /\ Len(items') = Len(kept) + 1 - (IF Len(kept) = MaxSize THEN 1 ELSE 0)
      BY <1>1, <1>2, <1>3, <2>2, <3>1, RecordAppends
    <3>3. Len(kept) \in Nat
      BY <1>2
    <3> QED BY <1>1, <1>3, <3>2, <3>3
  <2> QED BY <2>1, <2>2
<1> QED BY <1>4, <1>5, <1>1 DEF SetIInv, TypeOK, WellFormed, Distinct

LEMMA SetNextInv == SetIInv /\ [Next]_vars => SetIInv'
<1> SUFFICES ASSUME SetIInv, [Next]_vars PROVE SetIInv'
  OBVIOUS
<1>1. CASE Pass
  BY <1>1, TTLSetAssumption DEF Pass, SetIInv, TypeOK, WellFormed
<1>2. ASSUME NEW key \in Keys, Ask(key) PROVE SetIInv'
  BY <1>2, AskInv
<1>3. CASE UNCHANGED vars
  BY <1>3 DEF vars, SetIInv, TypeOK, WellFormed
<1> QED BY <1>1, <1>2, <1>3 DEF Next

\* The suppression set of the detector never holds a key twice and never
\* outgrows its size (TTLSet.seen_recently), for any size and time to live.
THEOREM TableWellFormed == Spec => []WellFormed
<1>1. SetIInv => WellFormed
  BY DEF SetIInv
<1> QED BY <1>1, SetInitInv, SetNextInv, PTL DEF Spec

-----------------------------------------------------------------------------
(* Refinement                                                              *)

LEMMA TimeOfEntry ==
  ASSUME NEW s \in Seq(Entries), Distinct(s), NEW i \in DOMAIN s
  PROVE  s[i].key \in Recorded(s) /\ TimesOf(s)[s[i].key] = s[i].at
<1>1. s[i].key \in Keys
  <2>1. s[i] \in Entries
    OBVIOUS
  <2> QED BY <2>1 DEF Entries
<1>2. s[i].key \in Recorded(s)
  BY DEF Recorded
<1>3. PositionOf(s, s[i].key) = i
  BY PositionIsUnique
<1> QED BY <1>1, <1>2, <1>3 DEF TimesOf

\* Tables that share an entry agree on the time of its key.
LEMMA TimesAgree ==
  ASSUME NEW s \in Seq(Entries), Distinct(s), NEW t \in Seq(Entries), Distinct(t),
         \A i \in DOMAIN t : \E j \in DOMAIN s : s[j] = t[i],
         NEW k \in Recorded(t)
  PROVE  k \in Recorded(s) /\ TimesOf(t)[k] = TimesOf(s)[k]
<1>1. PICK i \in DOMAIN t : t[i].key = k
  BY DEF Recorded
<1>2. PICK j \in DOMAIN s : s[j] = t[i]
  BY <1>1
<1> QED BY <1>1, <1>2, TimeOfEntry

\* Pruning forgets keys that have expired and leaves the others alone.
LEMMA PruneForgets ==
  ASSUME NEW s \in Seq(Entries), Distinct(s), NEW t \in Int, NEW ttl \in Int
  PROVE  LET kept == Prune(s, t, ttl)
             gone == Recorded(s) \ Recorded(kept)
         IN  /\ Recorded(kept) \subseteq Recorded(s)
             /\ \A k \in gone : t - TimesOf(s)[k] > ttl
             /\ \A k \in Recorded(kept) : TimesOf(kept)[k] = TimesOf(s)[k]
<1> DEFINE kept == Prune(s, t, ttl)
<1>1. PICK n \in 0..Len(s) : /\ kept \in Seq(Entries) /\ IsRest(kept, s, n)
                             /\ \A i \in 1..n : Expired(s[i], t, ttl)
  BY PruneDropsExpired
<1> HIDE DEF kept
<1>2. Distinct(kept)
  BY <1>1, SuffixDistinct
<1>3. Len(kept) = Len(s) - n /\ Len(s) \in Nat
  BY <1>1 DEF IsRest
<1>4. \A i \in DOMAIN kept : i + n \in DOMAIN s /\ s[i + n] = kept[i]
  BY <1>1, <1>3 DEF IsRest
<1>5. \A k \in Recorded(kept) : k \in Recorded(s) /\ TimesOf(kept)[k] = TimesOf(s)[k]
  BY <1>1, <1>2, <1>4, TimesAgree
<1>6. ASSUME NEW k \in Recorded(s), k \notin Recorded(kept)
      PROVE  t - TimesOf(s)[k] > ttl
  <2>1. PICK i \in DOMAIN s : s[i].key = k
    BY DEF Recorded
  <2>2. CASE i > n
    <3>1. i - n \in DOMAIN kept /\ kept[i - n] = s[i]
      BY <1>1, <1>3, <2>1, <2>2, <1>4
    <3> QED BY <1>6, <2>1, <3>1 DEF Recorded
  <2>3. CASE i <= n
    <3>1. Expired(s[i], t, ttl)
      BY <1>1, <1>3, <2>1, <2>3
    <3> QED BY <2>1, <3>1, TimeOfEntry DEF Expired
  <2> QED BY <1>3, <2>1, <2>2, <2>3
<1> QED BY <1>5, <1>6 DEF kept

\* A hit changes no time.
LEMMA MoveToEndKeepsTimes ==
  ASSUME NEW s \in Seq(Entries), Distinct(s), NEW p \in DOMAIN s
  PROVE  /\ Recorded(MoveToEnd(s, s[p].key)) = Recorded(s)
         /\ TimesOf(MoveToEnd(s, s[p].key)) = TimesOf(s)
<1> DEFINE from(i) == IF i < p THEN i ELSE IF i < Len(s) THEN i + 1 ELSE p
           t == MoveToEnd(s, s[p].key)
<1>1. t \in Seq(Entries) /\ Len(t) = Len(s) /\ \A i \in DOMAIN s : t[i] = s[from(i)]
  BY MoveToEndRearranges
<1>2. Distinct(t)
  BY MoveToEndDistinct
<1> HIDE DEF t
<1>3. \A i \in DOMAIN t : \E j \in DOMAIN s : s[j] = t[i]
  <2> SUFFICES ASSUME NEW i \in DOMAIN t PROVE from(i) \in DOMAIN s /\ s[from(i)] = t[i]
    OBVIOUS
  <2> QED BY <1>1
<1>4. \A j \in DOMAIN s : \E i \in DOMAIN t : t[i] = s[j]
  <2> SUFFICES ASSUME NEW j \in DOMAIN s
               PROVE  \E i \in DOMAIN t : t[i] = s[j]
    OBVIOUS
  <2> DEFINE i == IF j < p THEN j ELSE IF j = p THEN Len(s) ELSE j - 1
  <2>1. i \in DOMAIN s /\ from(i) = j
    OBVIOUS
  <2>2. i \in DOMAIN t
    BY <1>1, <2>1
  <2> QED BY <1>1, <2>1, <2>2
<1>5. Recorded(t) = Recorded(s)
  BY <1>3, <1>4 DEF Recorded
<1>6. \A k \in Recorded(t) : TimesOf(t)[k] = TimesOf(s)[k]
  BY <1>1, <1>2, <1>3, TimesAgree
<1>7. \A k \in Keys : TimesOf(t)[k] = TimesOf(s)[k]
  BY <1>5, <1>6 DEF TimesOf
<1> QED BY <1>5, <1>7 DEF t, TimesOf

\* A table without duplicates has as many keys as entries.
LEMMA KeysAreCounted ==
  ASSUME NEW s \in Seq(Entries), Distinct(s)
  PROVE  Cardinality(Recorded(s)) = Len(s)
<1> DEFINE keyOf == [i \in 1..Len(s) |-> s[i].key]
<1>1. DOMAIN s = 1..Len(s) /\ Len(s) \in Nat
  OBVIOUS
<1>2. keyOf \in Injection(1..Len(s), Recorded(s))
  BY <1>1 DEF Injection, IsInjective, Recorded, Distinct
<1>3. keyOf \in Surjection(1..Len(s), Recorded(s))
  BY <1>1 DEF Surjection, Recorded
<1>4. ExistsBijection(1..Len(s), Recorded(s))
  BY <1>2, <1>3 DEF Bijection, ExistsBijection
<1>5. IsFiniteSet(1..Len(s)) /\ Cardinality(1..Len(s)) = Len(s)
  BY <1>1, FS_Interval
<1> QED BY <1>4, <1>5, FS_Bijection

\* Table r is what s becomes when key is recorded at time t.
Makes(s, r, key, t, evicted) ==
    /\ Cardinality(evicted) <= 1
    /\ evicted # {} => Len(s) = MaxSize
    /\ \A k \in Keys : TimesOf(r)[k] = IF k = key THEN t
                                      ELSE IF k \in evicted THEN Never
                                      ELSE TimesOf(s)[k]

\* A new key gets the time of the call; at most one other key is forgotten,
\* and that only by a full table.
LEMMA RecordEvicts ==
  ASSUME NEW s \in Seq(Entries), Distinct(s), Len(s) <= MaxSize,
         NEW key \in Keys, NEW t \in 0..Horizon, key \notin Recorded(s),
         NEW r, r = Record(s, key, t, MaxSize)
  PROVE  \E evicted \in SUBSET Recorded(s) : Makes(s, r, key, t, evicted)
<1> DEFINE n == IF Len(s) = MaxSize THEN 1 ELSE 0
           evicted == Recorded(s) \ Recorded(r)
<1>1. /\ r \in Seq(Entries) /\ Len(r) = Len(s) + 1 - n
      /\ \A i \in 1..(Len(s) - n) : r[i] = s[i + n]
      /\ r[Len(s) + 1 - n] = [key |-> key, at |-> t]
      /\ Distinct(r)
  BY RecordAppends
<1>2. n \in {0, 1} /\ Len(s) \in Nat /\ (n = 1 => Len(s) = MaxSize /\ Len(s) > 0)
  BY TTLSetAssumption
<1> HIDE DEF n
<1>3. Len(s) + 1 - n \in DOMAIN r
  BY <1>1, <1>2
<1>4. key \in Recorded(r) /\ TimesOf(r)[key] = t
  BY <1>1, <1>3, TimeOfEntry
<1>5. \A i \in DOMAIN s : i > n => i - n \in 1..(Len(s) - n) /\ i - n \in DOMAIN r /\ r[i - n] = s[i]
  <2> SUFFICES ASSUME NEW i \in DOMAIN s, i > n
               PROVE  i - n \in 1..(Len(s) - n) /\ i - n \in DOMAIN r /\ r[i - n] = s[i]
    OBVIOUS
  <2>1. i \in 1..Len(s) /\ DOMAIN r = 1..(Len(s) + 1 - n) /\ n \in Nat
    BY <1>1, <1>2
  <2>2. i - n \in 1..(Len(s) - n) /\ (i - n) + n = i
    BY <1>2, <2>1
  <2> QED BY <1>1, <1>2, <2>1, <2>2
<1>6. \A k \in evicted : n = 1 /\ k = s[1].key
  <2> SUFFICES ASSUME NEW k \in Recorded(s), k \notin Recorded(r)
               PROVE  n = 1 /\ k = s[1].key
    OBVIOUS
  <2>1. PICK i \in DOMAIN s : s[i].key = k
    BY DEF Recorded
  <2>2. ~ (i > n)
    BY <1>5, <2>1 DEF Recorded
  <2>3. n = 1 /\ i = 1
    BY <1>2, <2>1, <2>2
  <2> QED BY <2>1, <2>3
<1>7. Cardinality(evicted) <= 1
  <2>1. evicted \in SUBSET {s[1].key}
    BY <1>6
  <2>2. IsFiniteSet({s[1].key}) /\ Cardinality({s[1].key}) = 1
    BY FS_Singleton
  <2> QED BY <2>1, <2>2, FS_Subset
<1>8. evicted # {} => Len(s) = MaxSize
  BY <1>2, <1>6
<1>9. ASSUME NEW k \in Keys, k # key
      PROVE  TimesOf(r)[k] = IF k \in evicted THEN Never ELSE TimesOf(s)[k]
  <2>1. CASE k \in Recorded(r)
    <3>1. PICK i \in DOMAIN r : r[i].key = k
      BY <2>1 DEF Recorded
    <3>2. i # Len(s) + 1 - n
      BY <1>1, <1>9, <3>1
    <3>3. i \in 1..(Len(s) - n) /\ i + n \in DOMAIN s
      BY <1>1, <1>2, <3>1, <3>2
    <3>4. s[i + n] = r[i]
      BY <1>1, <3>3
    <3> QED BY <1>1, <2>1, <3>1, <3>3, <3>4, TimeOfEntry
  <2>2. CASE k \notin Recorded(r)
    BY <2>2 DEF TimesOf
  <2> QED BY <2>1, <2>2
<1>10. /\ evicted \in SUBSET Recorded(s)
       /\ \A k \in Keys : TimesOf(r)[k] = IF k = key THEN t
                                         ELSE IF k \in evicted THEN Never
                                         ELSE TimesOf(s)[k]
  BY <1>4, <1>9
<1> HIDE DEF evicted
<1> QED BY <1>7, <1>8, <1>10 DEF Makes

LEMMA RecordedAtIsTimesOf == RecordedAt = TimesOf(items)
BY DEF RecordedAt, TimesOf

LEMMA RememberedIsRecorded ==
  ASSUME TypeOK, Distinct(items)
  PROVE  Suppression!Remembered = Recorded(items)
<1>1. \A i \in DOMAIN items : items[i] \in Entries
  BY DEF TypeOK
<1>2. Recorded(items) \subseteq Keys
  BY <1>1 DEF Recorded, Entries
<1>3. \A k \in Recorded(items) : RecordedAt[k] # Suppression!Never
  <2> SUFFICES ASSUME NEW i \in DOMAIN items PROVE RecordedAt[items[i].key] # Suppression!Never
    BY DEF Recorded
  <2>1. items[i].at \in 0..Horizon
    BY <1>1 DEF Entries
  <2>2. RecordedAt[items[i].key] = items[i].at
    BY TimeOfEntry, RecordedAtIsTimesOf DEF TypeOK
  <2> QED BY <2>1, <2>2, TTLSetAssumption DEF Suppression!Never
<1>4. \A k \in Keys \ Recorded(items) : RecordedAt[k] = Suppression!Never
  BY DEF RecordedAt, Never, Suppression!Never
<1> QED BY <1>2, <1>3, <1>4 DEF Suppression!Remembered

LEMMA SameCardinality == \A S : Suppression!Cardinality(S) = Cardinality(S)
BY DEF Cardinality, Suppression!Cardinality

LEMMA InitImplements == Init => Suppression!AInit
<1> SUFFICES ASSUME Init PROVE Suppression!AInit
  OBVIOUS
<1>1. Recorded(items) = {}
  BY DEF Init, Recorded
<1> QED BY <1>1 DEF Init, Suppression!AInit, Suppression!Never, RecordedAt, Never

\* A call that finds the key answers as the window may.
LEMMA HitImplements ==
  ASSUME SetIInv, NEW key \in Keys, Ask(key), key \in Recorded(Prune(items, now, TTL))
  PROVE  Suppression!AnswerSeen(key)
<1> DEFINE kept == Prune(items, now, TTL)
           gone == Recorded(items) \ Recorded(kept)
<1>1. /\ items \in Seq(Entries) /\ now \in Int /\ TTL \in Int /\ Distinct(items)
  BY TTLSetAssumption DEF SetIInv, TypeOK, WellFormed, Distinct
<1>2. PICK n \in 0..Len(items) : kept \in Seq(Entries) /\ IsRest(kept, items, n)
  BY <1>1, PruneDropsExpired
<1>3. Distinct(kept)
  BY <1>1, <1>2, SuffixDistinct
<1>4. /\ Recorded(kept) \subseteq Recorded(items)
      /\ \A k \in gone : now - TimesOf(items)[k] > TTL
      /\ \A k \in Recorded(kept) : TimesOf(kept)[k] = TimesOf(items)[k]
  BY <1>1, PruneForgets
<1>5. items' = MoveToEnd(kept, key) /\ reply' = [key |-> key, seen |-> TRUE] /\ now' = now
  BY DEF Ask, SeenRecently
<1> HIDE DEF kept
<1>6. PICK p \in DOMAIN kept : kept[p].key = key
  BY DEF Recorded, kept
<1>7. TimesOf(items') = TimesOf(kept)
  BY <1>2, <1>3, <1>5, <1>6, MoveToEndKeepsTimes
<1>8. RecordedAt' = TimesOf(items') /\ RecordedAt = TimesOf(items)
  BY DEF RecordedAt, TimesOf
<1>9. Suppression!Remembered = Recorded(items)
  BY <1>1, RememberedIsRecorded DEF SetIInv
<1>10. key \in Recorded(items) /\ gone \in SUBSET (Suppression!Remembered \ {key})
  BY <1>4, <1>9 DEF kept
<1>11. RecordedAt' = [x \in Keys |-> IF x \in gone THEN Suppression!Never ELSE RecordedAt[x]]
  <2>1. \A x \in Keys : TimesOf(kept)[x] = IF x \in gone THEN Suppression!Never ELSE TimesOf(items)[x]
    BY <1>4 DEF TimesOf, Never, Suppression!Never
  <2>2. TimesOf(kept) = [x \in Keys |-> TimesOf(kept)[x]]
    BY DEF TimesOf
  <2> QED BY <1>7, <1>8, <2>1, <2>2
<1>12. \A g \in gone : Suppression!MayForget(g)
  BY <1>4, <1>8 DEF Suppression!MayForget
<1> QED BY <1>5, <1>9, <1>10, <1>11, <1>12 DEF Suppression!AnswerSeen

\* A call that does not find the key answers as the window may.
LEMMA MissImplements ==
  ASSUME SetIInv, NEW key \in Keys, Ask(key), key \notin Recorded(Prune(items, now, TTL))
  PROVE  Suppression!AnswerNew(key)
<1> DEFINE kept == Prune(items, now, TTL)
           gone == (Recorded(items) \ Recorded(kept)) \ {key}
<1>1. /\ items \in Seq(Entries) /\ now \in 0..Horizon /\ now \in Int /\ TTL \in Int
      /\ Distinct(items) /\ Len(items) <= MaxSize /\ MaxSize \in Nat /\ Len(items) \in Nat
  BY TTLSetAssumption DEF SetIInv, TypeOK, WellFormed, Distinct
<1>2. PICK n \in 0..Len(items) : kept \in Seq(Entries) /\ IsRest(kept, items, n)
  BY <1>1, PruneDropsExpired
<1>3. Distinct(kept) /\ Len(kept) <= MaxSize
  BY <1>1, <1>2, SuffixDistinct
<1>4. /\ Recorded(kept) \subseteq Recorded(items)
      /\ \A k \in Recorded(items) \ Recorded(kept) : now - TimesOf(items)[k] > TTL
      /\ \A k \in Recorded(kept) : TimesOf(kept)[k] = TimesOf(items)[k]
  BY <1>1, PruneForgets
<1>5. items' = Record(kept, key, now, MaxSize) /\ reply' = [key |-> key, seen |-> FALSE] /\ now' = now
  BY DEF Ask, SeenRecently
<1>6. key \notin Recorded(kept)
  OBVIOUS
<1> HIDE DEF kept
<1>7. PICK evicted \in SUBSET Recorded(kept) : Makes(kept, items', key, now, evicted)
  BY <1>1, <1>2, <1>3, <1>5, <1>6, RecordEvicts
<1>8. RecordedAt' = TimesOf(items') /\ RecordedAt = TimesOf(items)
  BY DEF RecordedAt, TimesOf
<1>9. Suppression!Remembered = Recorded(items)
  BY <1>1, RememberedIsRecorded DEF SetIInv
<1>10. /\ gone \in SUBSET (Suppression!Remembered \ {key})
       /\ evicted \in SUBSET (Suppression!Remembered \ {key})
  BY <1>4, <1>6, <1>7, <1>9
<1>11. \A k \in Recorded(items) \ Recorded(kept) : Suppression!MayForget(k)
  BY <1>4, <1>8 DEF Suppression!MayForget
<1>12. evicted # {} => Cardinality((Suppression!Remembered \ {key}) \ gone) >= MaxSize
  <2>1. (Suppression!Remembered \ {key}) \ gone = Recorded(kept)
    BY <1>4, <1>6, <1>9
  <2>2. Cardinality(Recorded(kept)) = Len(kept)
    BY <1>2, <1>3, KeysAreCounted
  <2>3. Cardinality(Recorded(kept)) = MaxSize \/ evicted = {}
    BY <1>7, <2>2 DEF Makes
  <2>4. Cardinality(Recorded(kept)) >= MaxSize \/ evicted = {}
    BY <1>1, <2>3
  <2> HIDE DEF gone
  <2> QED BY <2>1, <2>4, Zenon
<1>13. RecordedAt' = [x \in Keys |-> IF x = key THEN now
                                    ELSE IF x \in gone \cup evicted THEN Suppression!Never
                                    ELSE RecordedAt[x]]
  <2>1. \A x \in Keys : x # key => TimesOf(kept)[x] = IF x \in gone THEN Suppression!Never
                                                     ELSE TimesOf(items)[x]
    BY <1>4 DEF TimesOf, Never, Suppression!Never
  <2>2. TimesOf(items') = [x \in Keys |-> TimesOf(items')[x]]
    BY DEF TimesOf
  <2>3. Never = Suppression!Never
    BY DEF Never, Suppression!Never
  <2>4. \A x \in Keys : TimesOf(items')[x] = IF x = key THEN now
                                            ELSE IF x \in gone \cup evicted THEN Suppression!Never
                                            ELSE TimesOf(items)[x]
    BY <1>7, <2>1, <2>3 DEF Makes
  <2> QED BY <1>8, <2>2, <2>4
<1>14. key \in Suppression!Remembered => Suppression!MayForget(key)
  BY <1>6, <1>9, <1>11
<1>15. \A g \in gone : Suppression!MayForget(g)
  BY <1>11
<1>16. /\ Suppression!Cardinality(evicted) <= 1
       /\ evicted # {} => Suppression!Cardinality((Suppression!Remembered \ {key}) \ gone) >= MaxSize
  BY <1>7, <1>12, SameCardinality DEF Makes
<1> HIDE DEF gone
<1> QED BY <1>5, <1>10, <1>13, <1>14, <1>15, <1>16 DEF Suppression!AnswerNew

LEMMA NextImplements == SetIInv /\ [Next]_vars => [Suppression!ANext]_(Suppression!avars)
<1> SUFFICES ASSUME SetIInv, [Next]_vars PROVE [Suppression!ANext]_(Suppression!avars)
  OBVIOUS
<1>1. CASE Pass
  BY <1>1 DEF Pass, RecordedAt, Suppression!ANext, Suppression!APass
<1>2. ASSUME NEW key \in Keys, Ask(key) PROVE Suppression!ANext
  BY <1>2, HitImplements, MissImplements DEF Suppression!ANext
<1>3. CASE UNCHANGED vars
  BY <1>3 DEF vars, RecordedAt, Suppression!avars
<1> QED BY <1>1, <1>2, <1>3 DEF Next

\* seen_recently implements the suppression window: it calls a key new only if
\* the key was never recorded, has expired, or was evicted from a full table,
\* for any keys, size, time to live and clock.
THEOREM WindowImplemented == Spec => ImplementsWindow
BY SetInitInv, InitImplements, SetNextInv, NextImplements, PTL
   DEF Spec, ImplementsWindow, Suppression!ASpec

-----------------------------------------------------------------------------
(* RestartTracker                                                          *)

StartsIn(bucket) == {bucket[i] : i \in DOMAIN bucket}

NoRepeats(bucket) == \A i, j \in DOMAIN bucket : bucket[i] = bucket[j] => i = j

\* A start that was shown, and that no start shown since has left behind by
\* more than the window, is in its bucket.  LoopsAreCounted alone is not
\* inductive: it looks at the last observation only.
Covered ==
    \A fp \in Fingerprints, t \in Times :
        /\ << fp, t >> \in shown
        /\ \A u \in Times : << fp, u >> \in shown => t >= u - Window
        => fp \in DOMAIN starts /\ t \in StartsIn(starts[fp])

LastIsCurrent == last.count = Len(BucketOf(starts, last.fp))

TrackerIInv ==
    /\ TrackerTypeOK /\ IsFiniteSet(DOMAIN starts)
    /\ Bounded /\ Covered /\ LastIsCurrent

-----------------------------------------------------------------------------

\* Clearing an overfull tracker makes room for one more fingerprint.
LEMMA UncrowdedHasRoom ==
  ASSUME TrackerTypeOK, Bounded, IsFiniteSet(DOMAIN starts),
         NEW kept, kept = Uncrowded(starts, MaxFingerprints)
  PROVE  /\ IsFiniteSet(DOMAIN kept) /\ Cardinality(DOMAIN kept) <= MaxFingerprints
         /\ DOMAIN kept \subseteq Fingerprints
         /\ \A f \in DOMAIN kept : kept[f] \in Seq(Times) /\ NoRepeats(kept[f])
<1>1. Cardinality(DOMAIN starts) \in Nat /\ MaxFingerprints \in Nat
  BY FS_CardinalityType, RestartTrackerAssumption
<1>2. CASE Cardinality(DOMAIN starts) > MaxFingerprints
  <2>1. kept = << >> /\ DOMAIN kept = {}
    BY <1>2 DEF Uncrowded
  <2> QED BY <1>1, <2>1, FS_EmptySet
<1>3. CASE ~(Cardinality(DOMAIN starts) > MaxFingerprints)
  <2>1. kept = starts
    BY <1>3 DEF Uncrowded
  <2> QED BY <1>1, <1>3, <2>1 DEF TrackerTypeOK, Bounded, NoRepeats
<1> QED BY <1>2, <1>3

\* A bucket takes the observed start and loses starts outside the window only.
LEMMA BucketAfter ==
  ASSUME NEW old \in Seq(Times), NoRepeats(old), NEW start \in Times, NEW bucket,
         bucket = Trim(IF \E i \in DOMAIN old : old[i] = start THEN old ELSE Append(old, start),
                       start - Window)
  PROVE  /\ bucket \in Seq(Times) /\ NoRepeats(bucket)
         /\ \A t \in StartsIn(old) \cup {start} : t >= start - Window => t \in StartsIn(bucket)
<1> DEFINE grown == IF \E i \in DOMAIN old : old[i] = start THEN old ELSE Append(old, start)
<1>1. grown \in Seq(Times) /\ NoRepeats(grown) /\ StartsIn(old) \cup {start} \subseteq StartsIn(grown)
  <2>1. CASE \E i \in DOMAIN old : old[i] = start
    BY <2>1 DEF StartsIn
  <2>2. CASE ~ \E i \in DOMAIN old : old[i] = start
    <3> DEFINE longer == Append(old, start)
    <3>1. /\ longer \in Seq(Times) /\ Len(longer) = Len(old) + 1 /\ Len(old) \in Nat
          /\ \A i \in 1..Len(old) : longer[i] = old[i]
          /\ longer[Len(old) + 1] = start
      BY AppendProperties
    <3>2. grown = longer
      BY <2>2
    <3> HIDE DEF longer, grown
    <3>3. NoRepeats(longer)
      BY <2>2, <3>1 DEF NoRepeats
    <3>4. StartsIn(old) \subseteq StartsIn(longer) /\ start \in StartsIn(longer)
      <4>1. \A i \in DOMAIN old : i \in DOMAIN longer /\ longer[i] = old[i]
        BY <3>1
      <4>2. Len(old) + 1 \in DOMAIN longer
        BY <3>1
      <4> QED BY <3>1, <4>1, <4>2 DEF StartsIn
    <3> QED BY <3>1, <3>2, <3>3, <3>4
  <2> QED BY <2>1, <2>2
<1>2. bucket = Trim(grown, start - Window)
  OBVIOUS
<1> HIDE DEF grown
<1>3. PICK n \in 0..Len(grown) :
         /\ bucket \in Seq(Times) /\ IsRest(bucket, grown, n)
         /\ \A i \in 1..n : ~(grown[i] >= start - Window)
  BY <1>1, <1>2, TrimDropsEarlier, Zenon
<1>4. Len(bucket) = Len(grown) - n /\ Len(grown) \in Nat
  BY <1>1, <1>3 DEF IsRest
<1>5. \A i \in DOMAIN bucket : i \in Nat /\ i + n \in DOMAIN grown /\ bucket[i] = grown[i + n]
  BY <1>1, <1>3, <1>4 DEF IsRest
<1>6. NoRepeats(bucket)
  <2> SUFFICES ASSUME NEW i \in DOMAIN bucket, NEW j \in DOMAIN bucket, bucket[i] = bucket[j]
               PROVE  i = j
    BY DEF NoRepeats
  <2>1. i + n = j + n
    BY <1>1, <1>5 DEF NoRepeats
  <2> QED BY <1>5, <2>1
<1>7. ASSUME NEW t \in StartsIn(grown), t >= start - Window
      PROVE  t \in StartsIn(bucket)
  <2>1. PICK i \in DOMAIN grown : grown[i] = t
    BY DEF StartsIn
  <2>2. i > n
    BY <1>1, <1>3, <1>7, <2>1
  <2>3. i - n \in DOMAIN bucket /\ (i - n) + n = i
    BY <1>1, <1>3, <1>4, <2>1, <2>2
  <2>4. bucket[i - n] = t
    BY <1>5, <2>1, <2>3
  <2> QED BY <2>3, <2>4 DEF StartsIn
<1> QED BY <1>1, <1>3, <1>6, <1>7

\* A bucket that counts every start of a set is at least as long.
LEMMA CountedStarts ==
  ASSUME NEW bucket \in Seq(Times), NEW S \in SUBSET StartsIn(bucket)
  PROVE  Cardinality(S) <= Len(bucket)
<1> DEFINE at == [i \in 1..Len(bucket) |-> bucket[i]]
<1>1. DOMAIN bucket = 1..Len(bucket) /\ Len(bucket) \in Nat
  OBVIOUS
<1>2. at \in Surjection(1..Len(bucket), StartsIn(bucket))
  BY <1>1 DEF Surjection, StartsIn
<1>3. IsFiniteSet(1..Len(bucket)) /\ Cardinality(1..Len(bucket)) = Len(bucket)
  BY <1>1, FS_Interval
<1>4. IsFiniteSet(StartsIn(bucket)) /\ Cardinality(StartsIn(bucket)) <= Len(bucket)
  BY <1>2, <1>3, FS_Surjection
<1>5. Cardinality(S) <= Cardinality(StartsIn(bucket)) /\ IsFiniteSet(S)
  BY <1>4, FS_Subset
<1> QED BY <1>1, <1>4, <1>5, FS_CardinalityType

-----------------------------------------------------------------------------

LEMMA TrackerInitInv == TrackerInit => TrackerIInv
<1> SUFFICES ASSUME TrackerInit PROVE TrackerIInv
  OBVIOUS
<1>1. starts = << >> /\ DOMAIN starts = {} /\ shown = {}
  BY DEF TrackerInit
<1>2. last.fp \in Fingerprints /\ last.count = 0 /\ last \in [fp : Fingerprints, start : Times, count : Nat]
  BY RestartTrackerAssumption DEF TrackerInit, Times
<1>3. TrackerTypeOK
  BY <1>1, <1>2 DEF TrackerTypeOK
<1>4. IsFiniteSet(DOMAIN starts) /\ Bounded
  BY <1>1, FS_EmptySet, RestartTrackerAssumption DEF Bounded
<1>5. Covered
  BY <1>1 DEF Covered
<1>6. LastIsCurrent
  BY <1>1, <1>2 DEF LastIsCurrent, BucketOf
<1> QED BY <1>3, <1>4, <1>5, <1>6 DEF TrackerIInv

LEMMA ObserveInv ==
  ASSUME TrackerIInv, NEW fp \in Fingerprints, NEW start \in Times, ObserveStart(fp, start)
  PROVE  TrackerIInv'
<1> DEFINE kept   == Uncrowded(starts, MaxFingerprints)
           old    == BucketOf(kept, fp)
           bucket == Trim(IF \E i \in DOMAIN old : old[i] = start THEN old ELSE Append(old, start),
                          start - Window)
           cleared == Cardinality(DOMAIN starts) > MaxFingerprints
<1>1. /\ starts' = [f \in DOMAIN kept \cup {fp} |-> IF f = fp THEN bucket ELSE kept[f]]
      /\ shown' = (IF cleared THEN {} ELSE shown) \cup {<< fp, start >>}
      /\ last' = [fp |-> fp, start |-> start, count |-> Len(bucket)]
  BY DEF ObserveStart, Observe
<1>2. /\ IsFiniteSet(DOMAIN kept) /\ Cardinality(DOMAIN kept) <= MaxFingerprints
      /\ DOMAIN kept \subseteq Fingerprints
      /\ \A f \in DOMAIN kept : kept[f] \in Seq(Times) /\ NoRepeats(kept[f])
  BY UncrowdedHasRoom DEF TrackerIInv
<1>3. ~cleared => kept = starts
  BY DEF Uncrowded
<1> HIDE DEF kept, cleared
<1>4. old \in Seq(Times) /\ NoRepeats(old)
  BY <1>2 DEF BucketOf, NoRepeats
<1>5. fp \in DOMAIN kept => old = kept[fp]
  BY DEF BucketOf
<1> HIDE DEF old
<1>6. /\ bucket \in Seq(Times) /\ NoRepeats(bucket)
      /\ \A t \in StartsIn(old) \cup {start} : t >= start - Window => t \in StartsIn(bucket)
  BY <1>4, BucketAfter
<1> HIDE DEF bucket
<1>7. /\ DOMAIN starts' = DOMAIN kept \cup {fp}
      /\ starts'[fp] = bucket
      /\ \A f \in DOMAIN kept : f # fp => starts'[f] = kept[f]
  BY <1>1
<1>8. IsFiniteSet(DOMAIN starts') /\ Cardinality(DOMAIN starts') <= MaxFingerprints + 1
  <2>1. Cardinality(DOMAIN kept) \in Nat /\ MaxFingerprints \in Nat
    BY <1>2, FS_CardinalityType, RestartTrackerAssumption
  <2>2. /\ IsFiniteSet(DOMAIN kept \cup {fp})
        /\ Cardinality(DOMAIN kept \cup {fp})
              = IF fp \in DOMAIN kept THEN Cardinality(DOMAIN kept) ELSE Cardinality(DOMAIN kept) + 1
    BY <1>2, FS_AddElement
  <2>3. Cardinality(DOMAIN kept \cup {fp}) <= MaxFingerprints + 1
    BY <1>2, <2>1, <2>2
  <2> QED BY <1>7, <2>2, <2>3
<1>9. \A f \in DOMAIN starts' : starts'[f] \in Seq(Times) /\ NoRepeats(starts'[f])
  BY <1>2, <1>6, <1>7
<1>10. TrackerTypeOK'
  BY <1>1, <1>2, <1>6, <1>7, <1>9 DEF TrackerTypeOK, TrackerIInv
<1>11. Bounded'
  BY <1>8, <1>9 DEF Bounded, NoRepeats
<1>12. Covered'
  <2> SUFFICES ASSUME NEW f \in Fingerprints, NEW t \in Times, << f, t >> \in shown',
                      \A u \in Times : << f, u >> \in shown' => t >= u - Window
               PROVE  f \in DOMAIN starts' /\ t \in StartsIn(starts'[f])
    BY DEF Covered
  <2>1. ASSUME << f, t >> # << fp, start >>
        PROVE  f \in DOMAIN kept /\ t \in StartsIn(kept[f])
    <3>1. ~cleared /\ << f, t >> \in shown /\ shown \subseteq shown'
      BY <1>1, <2>1
    <3> QED BY <1>3, <3>1 DEF TrackerIInv, Covered
  <2>2. CASE f # fp
    BY <1>7, <2>1, <2>2
  <2>3. CASE f = fp
    <3>1. t \in StartsIn(old) \cup {start}
      BY <1>5, <2>1, <2>3
    <3>2. t >= start - Window
      BY <1>1, <2>3
    <3> QED BY <1>6, <1>7, <2>3, <3>1, <3>2
  <2> QED BY <2>2, <2>3
<1>13. LastIsCurrent'
  BY <1>1, <1>7 DEF LastIsCurrent, BucketOf
<1> QED BY <1>8, <1>10, <1>11, <1>12, <1>13 DEF TrackerIInv

LEMMA TrackerNextInv == TrackerIInv /\ [TrackerNext]_trackerVars => TrackerIInv'
<1> SUFFICES ASSUME TrackerIInv, [TrackerNext]_trackerVars PROVE TrackerIInv'
  OBVIOUS
<1>1. ASSUME NEW fp \in Fingerprints, NEW start \in Times, ObserveStart(fp, start) PROVE TrackerIInv'
  BY <1>1, ObserveInv
<1>2. CASE UNCHANGED trackerVars
  BY <1>2 DEF trackerVars, TrackerIInv, TrackerTypeOK, Bounded, Covered, LastIsCurrent
<1> QED BY <1>1, <1>2 DEF TrackerNext

LEMMA InvCounts == TrackerIInv => LoopsAreCounted
<1> SUFFICES ASSUME TrackerIInv, Newest(last.fp, last.start)
             PROVE  last.count >= Cardinality(Shown(last.fp, last.start - Window, last.start))
  BY DEF LoopsAreCounted
<1> DEFINE S == Shown(last.fp, last.start - Window, last.start)
<1>1. last.fp \in Fingerprints /\ last.start \in Times /\ last.count = Len(BucketOf(starts, last.fp))
  BY DEF TrackerIInv, TrackerTypeOK, LastIsCurrent
<1>2. ASSUME NEW t \in S PROVE last.fp \in DOMAIN starts /\ t \in StartsIn(starts[last.fp])
  <2>1. t \in Times /\ << last.fp, t >> \in shown /\ t >= last.start - Window
    BY <1>2 DEF Shown
  <2>2. \A u \in Times : << last.fp, u >> \in shown => t >= u - Window
    BY <1>1, <2>1, RestartTrackerAssumption DEF Newest, Times
  <2> QED BY <1>1, <2>1, <2>2 DEF TrackerIInv, Covered
<1> HIDE DEF S
<1>3. CASE S = {}
  <2>1. Cardinality(S) = 0
    BY <1>3, FS_EmptySet
  <2>2. last.count >= Cardinality(S)
    BY <2>1 DEF TrackerIInv, TrackerTypeOK
  <2> QED BY <2>2 DEF S
<1>4. CASE S # {}
  <2>1. last.fp \in DOMAIN starts /\ S \in SUBSET StartsIn(starts[last.fp])
    BY <1>2, <1>4
  <2>2. starts[last.fp] \in Seq(Times) /\ last.count = Len(starts[last.fp])
    BY <1>1, <2>1 DEF TrackerIInv, TrackerTypeOK, BucketOf
  <2>3. Cardinality(S) <= Len(starts[last.fp])
    BY <2>1, <2>2, CountedStarts
  <2>4. last.count >= Cardinality(S)
    <3>1. S \in SUBSET Nat /\ \A t \in S : t <= LastStart
      BY RestartTrackerAssumption DEF S, Shown, Times
    <3>2. Cardinality(S) \in Nat
      BY <3>1, FS_BoundedSetOfNaturals, FS_CardinalityType, RestartTrackerAssumption
    <3>3. Len(starts[last.fp]) \in Nat
      BY <2>2
    <3> QED BY <2>2, <2>3, <3>2, <3>3
  <2> QED BY <2>4 DEF S
<1> QED BY <1>3, <1>4

\* No real restart loop is missed (RestartTracker.observe): when the start shown
\* is the newest of its fingerprint, every start inside the window is counted.
THEOREM LoopsCounted == TrackerSpec => []LoopsAreCounted
BY TrackerInitInv, TrackerNextInv, InvCounts, PTL DEF TrackerSpec

\* The tracker holds at most one fingerprint more than its limit, and no bucket
\* counts a start twice, for any limit and window.
THEOREM TrackerBounded == TrackerSpec => []Bounded
<1>1. TrackerIInv => Bounded
  BY DEF TrackerIInv
<1> QED BY <1>1, TrackerInitInv, TrackerNextInv, PTL DEF TrackerSpec

-----------------------------------------------------------------------------
(* WebSettings                                                             *)

ThreadShape ==
    DOMAIN threads = Threads /\ \A h \in Threads : {"pc", "change", "data"} \subseteq DOMAIN threads[h]

\* Where file and memory part while one handler saves, and how.
InStep(h) ==
    LET t == threads[h] IN
      /\ t.pc \in {"idle", "reading", "opening", "writing", "written"}
      /\ t.pc \in {"reading", "opening"} => file.data = live
      /\ t.pc \in {"opening", "writing"} => t.data = Applied(live, t.change)
      /\ t.pc = "written" => file.data = Applied(live, t.change)

\* Undisturbed, there is one handler at most that saves.
Undisturbed ==
    ~disturbed =>
        /\ \A g, h \in Threads : Busy(g) /\ Busy(h) => g = h
        /\ (\A h \in Threads : ~Busy(h)) => file.data = live
        /\ \A h \in Threads : InStep(h)

SettingsIInv == ThreadShape /\ Undisturbed

\* What a handler has in hand after it moves on.
LEMMA Moves ==
  ASSUME ThreadShape, NEW h \in Threads, NEW t, threads' = [threads EXCEPT ![h] = t],
         {"pc", "change", "data"} \subseteq DOMAIN t
  PROVE  ThreadShape' /\ threads'[h] = t /\ \A g \in Threads \ {h} : threads'[g] = threads[g]
BY DEF ThreadShape

LEMMA WaitingShape == {"pc", "change", "data"} \subseteq DOMAIN Waiting /\ Waiting.pc = "idle"
BY DEF Waiting

\* A handler ends, and file and memory say the same, or it is noted.
LEMMA FinishInv ==
  ASSUME SettingsIInv, NEW h \in Threads, Busy(h), Finish(h), disturbed => disturbed',
         ~disturbed' => file'.data = live'
  PROVE  SettingsIInv'
<1>1. ThreadShape' /\ threads'[h] = Waiting /\ \A g \in Threads \ {h} : threads'[g] = threads[g]
  BY Moves, WaitingShape DEF Finish, SettingsIInv
<1>2. ASSUME ~disturbed' PROVE \A g \in Threads : threads'[g].pc = "idle"
  BY <1>1, <1>2, WaitingShape DEF SettingsIInv, Undisturbed, Busy
<1> QED BY <1>1, <1>2 DEF SettingsIInv, Undisturbed, Busy, InStep

\* A handler goes on, and the others do not.
LEMMA GoesOnInv ==
  ASSUME SettingsIInv, NEW h \in Threads, Busy(h), disturbed' = disturbed, ThreadShape',
         \A g \in Threads \ {h} : threads'[g] = threads[g],
         threads'[h].pc # "idle", ~disturbed => InStep(h)'
  PROVE  SettingsIInv'
<1>1. ASSUME ~disturbed, NEW g \in Threads \ {h} PROVE ~Busy(g) /\ ~Busy(g)' /\ InStep(g)'
  BY <1>1 DEF SettingsIInv, Undisturbed, Busy, InStep
<1> QED BY <1>1 DEF SettingsIInv, Undisturbed, Busy

LEMMA BeginInv ==
  ASSUME SettingsIInv, NEW h \in Threads, NEW change, Begin(h, change)
  PROVE  SettingsIInv'
<1> DEFINE t == [threads[h] EXCEPT !.pc = "reading", !.change = change]
<1>1. threads' = [threads EXCEPT ![h] = t] /\ UNCHANGED << file, live >>
      /\ ~Busy(h) /\ disturbed' = (disturbed \/ Overlapping(h))
  BY DEF Begin
<1>2. {"pc", "change", "data"} \subseteq DOMAIN t /\ t.pc = "reading"
  BY DEF SettingsIInv, ThreadShape
<1> HIDE DEF t
<1>3. ThreadShape' /\ threads'[h] = t /\ \A g \in Threads \ {h} : threads'[g] = threads[g]
  BY <1>1, <1>2, Moves DEF SettingsIInv
<1>4. ASSUME ~disturbed' PROVE /\ \A g \in Threads \ {h} : threads'[g].pc = "idle"
                              /\ file'.data = live'
  BY <1>1, <1>3, <1>4 DEF Overlapping, Busy, SettingsIInv, Undisturbed
<1> QED BY <1>2, <1>3, <1>4 DEF SettingsIInv, Undisturbed, Busy, InStep

LEMMA SaveInv ==
  ASSUME SettingsIInv, NEW h \in Threads, Save(h)
  PROVE  SettingsIInv'
<1> USE DEF SettingsIInv
<1>1. CASE ReadFile(h)
  <2> DEFINE t == [threads[h] EXCEPT !.pc = "opening", !.data = Applied(file.data, threads[h].change)]
  <2>1. UNCHANGED << file, live, disturbed >> /\ threads[h].pc = "reading" /\ Busy(h)
    BY <1>1 DEF ReadFile, AtStep, Busy
  <2>2. CASE Finish(h)
    BY <2>1, <2>2, FinishInv DEF Undisturbed, InStep
  <2>3. CASE threads' = [threads EXCEPT ![h] = t]
    <3>1. /\ {"pc", "change", "data"} \subseteq DOMAIN t /\ t.pc = "opening" /\ t.change = threads[h].change
          /\ t.data = Applied(file.data, threads[h].change)
      BY DEF ThreadShape
    <3> HIDE DEF t
    <3>2. ThreadShape' /\ threads'[h] = t /\ \A g \in Threads \ {h} : threads'[g] = threads[g]
      BY <2>3, <3>1, Moves
    <3>3. ~disturbed => InStep(h)'
      BY <2>1, <3>1, <3>2 DEF Undisturbed, InStep, Applied
    <3> QED BY <2>1, <3>1, <3>2, <3>3, GoesOnInv
  <2> QED BY <1>1, <2>2, <2>3 DEF ReadFile
<1>2. CASE OpenFile(h)
  <2>1. UNCHANGED << live, disturbed >> /\ threads[h].pc = "opening" /\ Busy(h)
    BY <1>2 DEF OpenFile, AtStep, Busy
  <2>2. CASE file' = file /\ Finish(h)
    BY <2>1, <2>2, FinishInv DEF Undisturbed, InStep
  <2>3. CASE file' = Empty /\ Goto(h, "writing")
    <3> DEFINE t == [threads[h] EXCEPT !.pc = "writing"]
    <3>1. /\ {"pc", "change", "data"} \subseteq DOMAIN t /\ t.pc = "writing"
          /\ t.change = threads[h].change /\ t.data = threads[h].data
      BY DEF ThreadShape
    <3>2. threads' = [threads EXCEPT ![h] = t]
      BY <2>3 DEF Goto
    <3> HIDE DEF t
    <3>3. ThreadShape' /\ threads'[h] = t /\ \A g \in Threads \ {h} : threads'[g] = threads[g]
      BY <3>1, <3>2, Moves
    <3>4. ~disturbed => InStep(h)'
      BY <2>1, <3>1, <3>3 DEF Undisturbed, InStep, Applied
    <3> QED BY <2>1, <3>1, <3>3, <3>4, GoesOnInv
  <2> QED BY <1>2, <2>2, <2>3 DEF OpenFile
<1>3. CASE WriteFile(h)
  <2>1. live' = live /\ threads[h].pc = "writing" /\ Busy(h)
    BY <1>3 DEF WriteFile, AtStep, Busy
  <2>2. CASE Finish(h) /\ disturbed' = TRUE
    BY <2>1, <2>2, FinishInv
  <2>3. CASE file' = Written(threads[h].data) /\ Goto(h, "written") /\ disturbed' = disturbed
    <3> DEFINE t == [threads[h] EXCEPT !.pc = "written"]
    <3>1. {"pc", "change", "data"} \subseteq DOMAIN t /\ t.pc = "written" /\ t.change = threads[h].change
      BY DEF ThreadShape
    <3>2. threads' = [threads EXCEPT ![h] = t]
      BY <2>3 DEF Goto
    <3> HIDE DEF t
    <3>3. ThreadShape' /\ threads'[h] = t /\ \A g \in Threads \ {h} : threads'[g] = threads[g]
      BY <3>1, <3>2, Moves
    <3>4. ~disturbed => InStep(h)'
      BY <2>1, <2>3, <3>1, <3>3 DEF Undisturbed, InStep, Applied, Written
    <3> QED BY <2>1, <2>3, <3>1, <3>3, <3>4, GoesOnInv
  <2> QED BY <1>3, <2>2, <2>3 DEF WriteFile
<1>4. CASE Apply(h)
  <2>1. file' = file /\ threads[h].pc = "written" /\ Busy(h) /\ Finish(h)
    BY <1>4 DEF Apply, AtStep, Busy
  <2>2. (disturbed => disturbed') /\ (~disturbed' => ~disturbed /\ live' = Applied(live, threads[h].change))
    BY <1>4 DEF Apply
  <2>3. ~disturbed' => file'.data = live'
    BY <2>1, <2>2 DEF Undisturbed, InStep
  <2> QED BY <2>1, <2>2, <2>3, FinishInv
<1> QED BY <1>1, <1>2, <1>3, <1>4 DEF Save

LEMMA SettingsNextInv == SettingsIInv /\ [SettingsNext]_settingsVars => SettingsIInv'
<1> SUFFICES ASSUME SettingsIInv, [SettingsNext]_settingsVars PROVE SettingsIInv'
  OBVIOUS
<1>1. ASSUME UNCHANGED << file, live, threads, disturbed >> PROVE SettingsIInv'
  BY <1>1 DEF SettingsIInv, ThreadShape, Undisturbed, InStep, Busy, Applied
<1>2. ASSUME NEW dot \in BOOLEAN, Login(dot) PROVE SettingsIInv'
  BY <1>1, <1>2 DEF Login
<1>3. ASSUME NEW h \in Threads, NEW p \in Passwords, ChangePassword(h, p) PROVE SettingsIInv'
  BY <1>3, BeginInv DEF ChangePassword
<1>4. ASSUME NEW h \in Threads, NEW name \in HostNames, AddHost(h, name) \/ DeleteHost(h, name) PROVE SettingsIInv'
  BY <1>4, BeginInv DEF AddHost, DeleteHost
<1>5. ASSUME NEW h \in Threads, Save(h) PROVE SettingsIInv'
  BY <1>5, SaveInv
<1>6. CASE Reboot
  <2>1. DOMAIN threads' = Threads /\ file' = file /\ live' = file.data
    BY <1>6 DEF Reboot, Loaded
  <2>2. \A h \in Threads : threads'[h] = Waiting
    BY <1>6 DEF Reboot
  <2>3. ThreadShape'
    BY <2>1, <2>2, WaitingShape DEF ThreadShape
  <2> QED BY <2>1, <2>2, <2>3, WaitingShape DEF SettingsIInv, Undisturbed, InStep, Busy
<1>7. CASE SettingsPass \/ UNCHANGED settingsVars
  BY <1>1, <1>7 DEF SettingsPass, settingsVars
<1> QED BY <1>2, <1>3, <1>4, <1>5, <1>6, <1>7 DEF SettingsNext

LEMMA SettingsInitInv == SettingsInit => SettingsIInv
<1> SUFFICES ASSUME SettingsInit PROVE SettingsIInv
  OBVIOUS
<1>1. DOMAIN threads = Threads /\ live = file.data /\ \A h \in Threads : threads[h] = Waiting
  BY DEF SettingsInit, Loaded
<1>2. ThreadShape
  BY <1>1, WaitingShape DEF ThreadShape
<1> QED BY <1>1, <1>2, WaitingShape DEF SettingsIInv, Undisturbed, InStep, Busy

\* A restart of the dashboard changes neither password nor hosts: saves that
\* do not overlap and do not break off leave file and memory in agreement, for
\* any number of handlers, restarts and saves.
THEOREM RestartsKeepSettings == SettingsSpec => []RestartKeepsWhatIsInForce
<1>1. SettingsIInv => RestartKeepsWhatIsInForce
  BY DEF SettingsIInv, Undisturbed, RestartKeepsWhatIsInForce, Loaded
<1> QED BY <1>1, SettingsInitInv, SettingsNextInv, PTL DEF SettingsSpec

Steps == {"idle", "reading", "opening", "writing", "written"}
Changes == [kind : {"none", "password", "hosts"}, config : Config]

\* SettingsTypeOK with what a handler has in hand: one that saves has a change
\* of one of the two kinds.
SettingsTypes ==
    /\ SettingsTypeOK
    /\ threads \in [Threads -> [pc : Steps, change : Changes, data : Config]]
    /\ \A h \in Threads : Busy(h) => threads[h].change.kind # "none"

LEMMA AppliedType ==
  ASSUME NEW config \in Config, NEW change \in Changes, change.kind # "none"
  PROVE  /\ Applied(config, change) \in Config
         /\ change.kind = "hosts" => /\ Applied(config, change).password = config.password
                                     /\ Applied(config, change).secret = config.secret
         /\ Applied(config, change).secret = config.secret
BY DEF Applied, Changes, Config

LEMMA WaitingType == Waiting \in [pc : Steps, change : Changes, data : Config] /\ Waiting.pc = "idle" /\ Defaults \in Config
BY DEF Waiting, Change, Defaults, Steps, Changes, Config

\* A handler that moves on keeps the types of what it has in hand.
LEMMA MoveTypes ==
  ASSUME SettingsTypes, NEW h \in Threads, NEW t \in [pc : Steps, change : Changes, data : Config],
         t.pc # "idle" => t.change.kind # "none", threads' = [threads EXCEPT ![h] = t]
  PROVE  /\ threads' \in [Threads -> [pc : Steps, change : Changes, data : Config]]
         /\ \A g \in Threads : Busy(g)' => threads'[g].change.kind # "none"
         /\ \A g \in Threads : /\ threads'[g].pc \in {"idle", "reading", "opening", "writing", "written"}
                               /\ threads'[g].data \in Config
<1>1. threads' \in [Threads -> [pc : Steps, change : Changes, data : Config]]
  BY DEF SettingsTypes
<1>2. ASSUME NEW g \in Threads, Busy(g)' PROVE threads'[g].change.kind # "none"
  <2>1. CASE g = h
    BY <1>2, <2>1 DEF SettingsTypes, Busy
  <2>2. CASE g # h
    BY <1>2, <2>2 DEF SettingsTypes, Busy
  <2> QED BY <2>1, <2>2
<1> QED BY <1>1, <1>2 DEF Steps

LEMMA SettingsTypesInit == SettingsInit => SettingsTypes
<1> SUFFICES ASSUME SettingsInit PROVE SettingsTypes
  OBVIOUS
<1>1. file \in [exists : BOOLEAN, data : Config]
  <2>1. Absent \in [exists : BOOLEAN, data : Config]
    BY WaitingType DEF Absent
  <2>2. ASSUME NEW p \in Passwords, NEW s \in BOOLEAN
        PROVE  Written([Defaults EXCEPT !.auth = TRUE, !.password = p, !.secret = s]) \in [exists : BOOLEAN, data : Config]
    <3>1. [Defaults EXCEPT !.auth = TRUE, !.password = p, !.secret = s] \in Config
      BY DEF Defaults, Config
    <3> QED BY <3>1 DEF Written
  <2>3. CASE file = Absent
    BY <2>1, <2>3
  <2>4. CASE \E p \in Passwords, s \in BOOLEAN :
               file = Written([Defaults EXCEPT !.auth = TRUE, !.password = p, !.secret = s])
    <3>1. PICK p \in Passwords, s \in BOOLEAN :
             file = Written([Defaults EXCEPT !.auth = TRUE, !.password = p, !.secret = s])
      BY <2>4
    <3> QED BY <2>2, <3>1
  <2>5. file = Absent \/ \E p \in Passwords, s \in BOOLEAN :
               file = Written([Defaults EXCEPT !.auth = TRUE, !.password = p, !.secret = s])
    BY DEF SettingsInit
  <2> QED BY <2>3, <2>4, <2>5
<1>2. live \in Config
  BY <1>1 DEF SettingsInit, Loaded
<1>3. threads \in [Threads -> [pc : Steps, change : Changes, data : Config]] /\ \A h \in Threads : threads[h] = Waiting
  BY WaitingType DEF SettingsInit
<1>4. /\ tokens = {} /\ wallClock = 0 /\ disturbed = FALSE /\ saves = 0 /\ boots = 0
      /\ SettingsHorizon \in Nat /\ MaxSaves \in Nat /\ MaxBoots \in Nat
  BY SettingsAssumption DEF SettingsInit
<1>5. \A h \in Threads : /\ threads[h].pc \in {"idle", "reading", "opening", "writing", "written"} /\ threads[h].data \in Config
  BY <1>3 DEF Steps
<1>6. \A h \in Threads : ~Busy(h)
  BY <1>3, WaitingType DEF Busy
<1>7. wallClock \in 0..SettingsHorizon /\ saves \in 0..MaxSaves /\ boots \in 0..MaxBoots
  BY <1>4
<1> QED BY <1>1, <1>2, <1>3, <1>4, <1>5, <1>6, <1>7 DEF SettingsTypes, SettingsTypeOK

LEMMA BeginTypes ==
  ASSUME SettingsTypes, NEW h \in Threads, NEW change \in Changes, change.kind # "none", Begin(h, change)
  PROVE  SettingsTypes'
<1> DEFINE t == [threads[h] EXCEPT !.pc = "reading", !.change = change]
<1>1. threads' = [threads EXCEPT ![h] = t] /\ saves < MaxSaves /\ saves' = saves + 1
      /\ disturbed' = (disturbed \/ Overlapping(h)) /\ UNCHANGED << file, live, tokens, wallClock, boots >>
  BY DEF Begin
<1>2. t \in [pc : Steps, change : Changes, data : Config] /\ t.change = change
  BY DEF SettingsTypes, Steps
<1> HIDE DEF t
<1>3. /\ threads' \in [Threads -> [pc : Steps, change : Changes, data : Config]]
      /\ \A g \in Threads : Busy(g)' => threads'[g].change.kind # "none"
      /\ \A g \in Threads : /\ threads'[g].pc \in {"idle", "reading", "opening", "writing", "written"}
                            /\ threads'[g].data \in Config
  BY <1>1, <1>2, MoveTypes
<1>4. saves' \in 0..MaxSaves
  BY <1>1, SettingsAssumption DEF SettingsTypes, SettingsTypeOK
<1>5. disturbed' \in BOOLEAN
  BY <1>1
<1> QED BY <1>1, <1>3, <1>4, <1>5 DEF SettingsTypes, SettingsTypeOK

LEMMA SaveTypes ==
  ASSUME SettingsTypes, NEW h \in Threads, Save(h)
  PROVE  SettingsTypes'
<1> DEFINE Hand == [pc : Steps, change : Changes, data : Config]
           t == threads'[h]
<1>0. /\ file \in [exists : BOOLEAN, data : Config] /\ live \in Config /\ disturbed \in BOOLEAN
      /\ threads[h] \in Hand /\ file.data \in Config /\ threads[h].change \in Changes /\ threads[h].data \in Config
      /\ threads \in [Threads -> Hand] /\ (threads[h].pc # "idle" => threads[h].change.kind # "none")
  BY DEF SettingsTypes, SettingsTypeOK, Busy
<1>1. /\ UNCHANGED << tokens, wallClock, counters >> /\ Busy(h)
  BY DEF Save, ReadFile, OpenFile, WriteFile, Apply, AtStep, Busy
<1>2. ASSUME NEW hand \in Hand, hand.pc # "idle" => hand.change.kind # "none", threads' = [threads EXCEPT ![h] = hand],
             file' \in [exists : BOOLEAN, data : Config], live' \in Config, disturbed' \in BOOLEAN
      PROVE  SettingsTypes'
  <2>1. /\ threads' \in [Threads -> Hand] /\ \A g \in Threads : Busy(g)' => threads'[g].change.kind # "none"
        /\ \A g \in Threads : /\ threads'[g].pc \in {"idle", "reading", "opening", "writing", "written"}
                              /\ threads'[g].data \in Config
    BY <1>2, MoveTypes
  <2> QED BY <1>1, <1>2, <2>1 DEF SettingsTypes, SettingsTypeOK, counters
<1>3. Applied(file.data, threads[h].change) \in Config /\ Applied(live, threads[h].change) \in Config
  BY <1>0, <1>1, AppliedType DEF Busy
<1>4. ASSUME Finish(h), file' \in [exists : BOOLEAN, data : Config], live' \in Config, disturbed' \in BOOLEAN
      PROVE  SettingsTypes'
  BY <1>2, <1>4, WaitingType DEF Finish
<1>5. CASE ReadFile(h)
  <2> DEFINE hand == [threads[h] EXCEPT !.pc = "opening", !.data = Applied(file.data, threads[h].change)]
  <2>1. UNCHANGED << file, live, disturbed >> /\ (Finish(h) \/ threads' = [threads EXCEPT ![h] = hand])
    BY <1>5 DEF ReadFile
  <2>2. hand \in Hand /\ hand.change = threads[h].change
    BY <1>0, <1>3 DEF Steps
  <2>3. hand.change.kind # "none"
    BY <1>0, <1>1, <2>2 DEF Busy
  <2> HIDE DEF hand
  <2> QED BY <1>0, <1>2, <1>4, <2>1, <2>2, <2>3
<1>6. CASE OpenFile(h) \/ WriteFile(h)
  <2>1. Empty \in [exists : BOOLEAN, data : Config] /\ Written(threads[h].data) \in [exists : BOOLEAN, data : Config]
    BY <1>0, WaitingType DEF Empty, Written
  <2>2. /\ live' = live /\ file' \in [exists : BOOLEAN, data : Config] /\ disturbed' \in BOOLEAN
        /\ Finish(h) \/ Goto(h, "writing") \/ Goto(h, "written")
    BY <1>0, <1>6, <2>1 DEF OpenFile, WriteFile
  <2>3. ASSUME NEW pc \in Steps, Goto(h, pc) PROVE SettingsTypes'
    <3> DEFINE hand == [threads[h] EXCEPT !.pc = pc]
    <3>1. hand \in Hand /\ hand.change = threads[h].change /\ threads' = [threads EXCEPT ![h] = hand]
      BY <1>0, <2>3 DEF Goto
    <3>2. hand.change.kind # "none"
      BY <1>0, <1>1, <3>1 DEF Busy
    <3> HIDE DEF hand
    <3> QED BY <1>0, <1>2, <2>2, <3>1, <3>2
  <2> QED BY <1>0, <1>4, <2>2, <2>3 DEF Steps
<1>7. CASE Apply(h)
  <2>1. file' = file /\ live' \in Config /\ disturbed' \in BOOLEAN /\ Finish(h)
    BY <1>0, <1>3, <1>7 DEF Apply
  <2> QED BY <1>0, <1>4, <2>1
<1> QED BY <1>5, <1>6, <1>7 DEF Save

LEMMA SettingsTypesNext ==
  ASSUME SettingsTypes, [SettingsNext]_settingsVars
  PROVE  SettingsTypes'
<1>0. /\ live \in Config /\ Defaults \in Config /\ wallClock \in 0..SettingsHorizon /\ boots \in 0..MaxBoots
      /\ SettingsHorizon \in Nat /\ MaxBoots \in Nat /\ file.data \in Config
  BY WaitingType, SettingsAssumption DEF SettingsTypes, SettingsTypeOK
<1>1. CASE UNCHANGED settingsVars
  BY <1>1 DEF settingsVars, counters, SettingsTypes, SettingsTypeOK, Busy
<1>2. ASSUME NEW dot \in BOOLEAN, Login(dot) PROVE SettingsTypes'
  <2>1. SessionSecret \in Passwords \cup {"secret", "dev-only-secret"}
    BY <1>0 DEF SessionSecret, Config
  <2>2. [key |-> SessionSecret, issued |-> wallClock, dot |-> dot] \in
           [key : Passwords \cup {"secret", "dev-only-secret"}, issued : 0..wallClock, dot : BOOLEAN]
    BY <1>0, <2>1
  <2> QED BY <1>2, <2>2 DEF Login, counters, SettingsTypes, SettingsTypeOK, Busy
<1>3. ASSUME NEW h \in Threads, NEW p \in Passwords, ChangePassword(h, p) PROVE SettingsTypes'
  <2> DEFINE change == Change("password", [Defaults EXCEPT !.password = p])
  <2>1. change \in Changes /\ change.kind # "none" /\ Begin(h, change)
    BY <1>3 DEF ChangePassword, Change, Changes, Config, Defaults
  <2> HIDE DEF change
  <2> QED BY <2>1, BeginTypes
<1>4. ASSUME NEW h \in Threads, NEW hosts \in SUBSET HostNames,
             Begin(h, Change("hosts", [Defaults EXCEPT !.hosts = hosts]))
      PROVE  SettingsTypes'
  <2> DEFINE change == Change("hosts", [Defaults EXCEPT !.hosts = hosts])
  <2>1. change \in Changes /\ change.kind # "none"
    BY DEF Change, Changes, Config, Defaults
  <2>2. Begin(h, change)
    BY <1>4
  <2> HIDE DEF change
  <2> QED BY <2>1, <2>2, BeginTypes
<1>5. ASSUME NEW h \in Threads, NEW name \in HostNames, AddHost(h, name) \/ DeleteHost(h, name) PROVE SettingsTypes'
  <2>1. live.hosts \cup {name} \in SUBSET HostNames /\ live.hosts \ {name} \in SUBSET HostNames
    BY <1>0 DEF Config
  <2> QED BY <1>4, <1>5, <2>1 DEF AddHost, DeleteHost
<1>6. ASSUME NEW h \in Threads, Save(h) PROVE SettingsTypes'
  BY <1>6, SaveTypes
<1>7. CASE Reboot
  <2>1. /\ boots < MaxBoots /\ boots' = boots + 1 /\ live' = file.data /\ disturbed' = FALSE
        /\ threads' = [h \in Threads |-> Waiting] /\ UNCHANGED << file, tokens, wallClock, saves >>
    BY <1>7 DEF Reboot, Loaded
  <2>2. boots' \in 0..MaxBoots
    BY <1>0, <2>1
  <2>3. /\ threads' \in [Threads -> [pc : Steps, change : Changes, data : Config]]
        /\ \A h \in Threads : threads'[h] = Waiting
    BY <2>1, WaitingType
  <2>4. \A h \in Threads : ~Busy(h)'
    BY <2>3, WaitingType DEF Busy
  <2>5. \A h \in Threads : /\ threads'[h].pc \in {"idle", "reading", "opening", "writing", "written"}
                           /\ threads'[h].data \in Config
    BY <2>3 DEF Steps
  <2> QED BY <1>0, <2>1, <2>2, <2>3, <2>4, <2>5 DEF SettingsTypes, SettingsTypeOK
<1>8. CASE SettingsPass
  <2>1. wallClock < SettingsHorizon /\ wallClock' = wallClock + 1
        /\ UNCHANGED << file, live, threads, tokens, disturbed, saves, boots >>
    BY <1>8 DEF SettingsPass, counters
  <2>2. wallClock' \in 0..SettingsHorizon /\ 0..wallClock \subseteq 0..wallClock'
    BY <1>0, <2>1
  <2>3. tokens' \subseteq [key : Passwords \cup {"secret", "dev-only-secret"}, issued : 0..wallClock', dot : BOOLEAN]
    BY <2>1, <2>2 DEF SettingsTypes, SettingsTypeOK
  <2> QED BY <2>1, <2>2, <2>3 DEF SettingsTypes, SettingsTypeOK, Busy
<1> QED BY <1>1, <1>2, <1>3, <1>5, <1>6, <1>7, <1>8 DEF SettingsNext

\* A token whose session ends between two steps: its age, the secret, or both.
LEMMA SessionsEndStep ==
  ASSUME SettingsTypes, SettingsTypes', SettingsIInv, [SettingsNext]_settingsVars,
         NEW token \in tokens, Valid(token), ~(Valid(token))'
  PROVE  \/ AgedOut(token)'
         \/ ~live.secret /\ live'.password # live.password /\ boots' = boots
         \/ boots' # boots /\ (disturbed \/ \E h \in Threads : Busy(h))
<1>1. token.issued \in Int /\ wallClock' \in Int /\ SessionAge \in Int
  BY SettingsAssumption DEF SettingsTypes, SettingsTypeOK
<1>2. ~AgedOut(token)' => wallClock' - token.issued < SessionAge
  BY <1>1 DEF AgedOut
<1>3. ~AgedOut(token)' => SessionSecret' # SessionSecret
  BY <1>2 DEF Valid
<1>4. live' = live => SessionSecret' = SessionSecret
  BY DEF SessionSecret
<1>5. CASE live' # live
  <2>1. CASE Reboot
    <3>1. boots' # boots
      BY <2>1 DEF Reboot, SettingsTypes, SettingsTypeOK
    <3>2. live' = Loaded
      BY <2>1 DEF Reboot
    <3>3. disturbed \/ \E h \in Threads : Busy(h)
      BY <1>5, <3>2 DEF SettingsIInv, Undisturbed, Loaded
    <3> QED BY <3>1, <3>3
  <2>2. ASSUME NEW h \in Threads, Apply(h)
        PROVE  AgedOut(token)' \/ (~live.secret /\ live'.password # live.password /\ boots' = boots)
    <3>1. live' = Applied(live, threads[h].change) /\ boots' = boots /\ Busy(h)
      BY <1>5, <2>2 DEF Apply, counters, AtStep, Busy
    <3>2. live'.secret = live.secret
      BY <3>1, AppliedType DEF SettingsTypes, SettingsTypeOK
    <3> QED BY <1>3, <3>1, <3>2 DEF SessionSecret
  <2> QED BY <1>5, <2>1, <2>2 DEF SettingsNext, settingsVars, Login, ChangePassword, AddHost, DeleteHost, Begin,
          Save, ReadFile, OpenFile, WriteFile, SettingsPass
<1> QED BY <1>3, <1>4, <1>5

\* A session ends by its age, with the password that signs it, or in a restart
\* that an unfinished or overlapping save preceded (read_session, the settings
\* routes and load_settings), for any passwords, hosts and handlers.
THEOREM SessionsEnd == SettingsSpec => SessionsEndForAReason
<1> DEFINE IInv == SettingsTypes /\ SettingsIInv
<1>1. SettingsInit => IInv
  BY SettingsTypesInit, SettingsInitInv
<1>2. IInv /\ [SettingsNext]_settingsVars => IInv'
  BY SettingsTypesNext, SettingsNextInv
<1>3. IInv /\ IInv' /\ [SettingsNext]_settingsVars =>
        [\A token \in tokens : Valid(token) /\ ~(Valid(token))' =>
            \/ AgedOut(token)'
            \/ ~live.secret /\ live'.password # live.password /\ boots' = boots
            \/ boots' # boots /\ (disturbed \/ \E h \in Threads : Busy(h))]_settingsVars
  BY SessionsEndStep
<1> HIDE DEF IInv
<1> QED BY <1>1, <1>2, <1>3, PTL DEF SettingsSpec, SessionsEndForAReason
-----------------------------------------------------------------------------
(* RateLimit                                                               *)

\* The places of a client's bucket, and those of its answers, with a request
\* that was let through at t or later.
EntriesSince(c, t) == IF c \in DOMAIN buckets THEN {i \in DOMAIN buckets[c] : buckets[c][i] >= t} ELSE {}
ServedSince(c, t) == {j \in DOMAIN answers[c] : answers[c][j].served /\ answers[c][j].at >= t}

\* Within the window a bucket has as many entries as requests were let through.
\* Older entries may be there or not: only a served request filters them out.
BucketsCount ==
    \A c \in Clients, t \in Int : t > rateClock - RateWindow =>
        Cardinality(EntriesSince(c, t)) = Cardinality(ServedSince(c, t))

RateIInv == RateTypeOK /\ BucketsCount /\ RequestsAreLimited

\* Of the elements that are picked, as many are recent as of all elements, if
\* all recent ones are picked.
LEMMA PickedCount ==
  ASSUME NEW S \in SUBSET Int, NEW list \in Seq(S), NEW places \in SUBSET DOMAIN list, NEW t \in Int,
         \A i \in DOMAIN list : list[i] >= t => i \in places
  PROVE  LET picked == Picked(list, places)
         IN  /\ IsFiniteSet({i \in DOMAIN picked : picked[i] >= t})
             /\ Cardinality({i \in DOMAIN picked : picked[i] >= t}) = Cardinality({i \in DOMAIN list : list[i] >= t})
<1> DEFINE picked == Picked(list, places)
           n == Cardinality(places)
           A == {i \in DOMAIN picked : picked[i] >= t}
           B == {i \in DOMAIN list : list[i] >= t}
           place == InOrder(places)
<1>1. place \in Bijection(1..n, places) /\ \A i \in 1..n : picked[i] = list[place[i]]
  BY PickedAre
<1>2. picked \in Seq(S) /\ Len(picked) = n
  BY PickedAre
<1>3. DOMAIN picked = 1..n
  BY <1>2
<1>4. /\ place \in [1..n -> places] /\ \A x \in places : \E i \in 1..n : place[i] = x
      /\ \A i, j \in 1..n : place[i] = place[j] => i = j
  BY <1>1 DEF Bijection, Injection, Surjection, IsInjective
<1> HIDE DEF picked, n, place
<1> DEFINE f == [i \in A |-> place[i]]
<1>5. \A i \in A : i \in 1..n /\ place[i] \in B
  BY <1>1, <1>3, <1>4
<1>6. \A x \in B : \E i \in A : place[i] = x
  BY <1>1, <1>3, <1>4
<1> HIDE DEF A, B
<1>7. f \in Bijection(A, B)
  BY <1>4, <1>5, <1>6 DEF Bijection, Injection, Surjection, IsInjective
<1>8. IsFiniteSet(A)
  <2>1. A \in SUBSET (1..n) /\ n \in Nat
    BY <1>2, <1>5
  <2>2. IsFiniteSet(1..n)
    BY <2>1, FS_Interval
  <2> QED BY <2>1, <2>2, FS_Subset
<1>9. Cardinality(A) = Cardinality(B)
  BY <1>7, <1>8, FS_Bijection DEF ExistsBijection
<1> QED BY <1>8, <1>9 DEF A, B, picked

\* One more entry at the end.
LEMMA SinceAppended ==
  ASSUME NEW n \in Nat, NEW A \in SUBSET (1..n), NEW B, B = A \/ B = A \cup {n + 1}
  PROVE  /\ Cardinality(A) \in Nat
         /\ Cardinality(B) = Cardinality(A) + IF B = A THEN 0 ELSE 1
<1>0. IsFiniteSet(1..n)
  BY FS_Interval
<1>1. IsFiniteSet(A)
  BY <1>0, FS_Subset
<1>11. n + 1 \notin A
  OBVIOUS
<1>2. Cardinality(A) \in Nat /\ Cardinality(A \cup {n + 1}) = Cardinality(A) + 1
  BY <1>1, <1>11, FS_AddElement, FS_CardinalityType
<1> QED BY <1>2

LEMMA RateTypes ==
  ASSUME RateTypeOK, NEW c \in Clients
  PROVE  /\ rateClock \in Nat /\ RateWindow \in Nat /\ RateLimit \in Nat /\ RateHorizon \in Nat
         /\ c \in DOMAIN buckets => buckets[c] \in Seq(0..rateClock)
         /\ answers[c] \in Seq([at : 0..rateClock, served : BOOLEAN])
         /\ \A j \in DOMAIN answers[c] : answers[c][j].at \in 0..rateClock
<1>1. /\ rateClock \in Nat /\ RateWindow \in Nat /\ RateLimit \in Nat /\ RateHorizon \in Nat
  BY RateAssumption DEF RateTypeOK
<1>2. answers[c] \in Seq([at : 0..rateClock, served : BOOLEAN])
  BY DEF RateTypeOK
<1>3. \A j \in DOMAIN answers[c] : answers[c][j] \in [at : 0..rateClock, served : BOOLEAN]
  BY <1>2, ElementOf
<1> QED BY <1>1, <1>2, <1>3 DEF RateTypeOK

\* What the limiter counts is what it has let through.
LEMMA LatelyCounts ==
  ASSUME RateIInv, NEW c \in Clients
  PROVE  /\ LatelyServed(c) \in Seq(0..rateClock)
         /\ Len(LatelyServed(c)) = Cardinality(ServedSince(c, rateClock - RateWindow + 1))
         /\ \A t \in Int : t > rateClock - RateWindow =>
               Cardinality({i \in DOMAIN LatelyServed(c) : LatelyServed(c)[i] >= t}) = Cardinality(ServedSince(c, t))
<1>0. RateTypeOK /\ rateClock \in Nat /\ RateWindow \in Nat
  BY RateTypes DEF RateIInv
<1>1. /\ rateClock - RateWindow + 1 \in Int /\ rateClock - RateWindow + 1 > rateClock - RateWindow
      /\ \A t \in Int : t > rateClock - RateWindow => Cardinality(EntriesSince(c, t)) = Cardinality(ServedSince(c, t))
  BY <1>0 DEF RateIInv, BucketsCount
<1>2. CASE c \in DOMAIN buckets
  <2> DEFINE bucket == buckets[c]
             late == {i \in DOMAIN bucket : rateClock - bucket[i] < RateWindow}
  <2>1. bucket \in Seq(0..rateClock) /\ LatelyServed(c) = Picked(bucket, late)
    BY <1>0, <1>2, RateTypes DEF LatelyServed
  <2>2. \A i \in DOMAIN bucket : bucket[i] \in Int
    BY <1>0, <2>1
  <2>3. late \in SUBSET DOMAIN bucket /\ 0..rateClock \in SUBSET Int
    OBVIOUS
  <2>4. late = EntriesSince(c, rateClock - RateWindow + 1)
    BY <1>0, <1>2, <2>2 DEF EntriesSince
  <2>5. \A t \in Int : t > rateClock - RateWindow => \A i \in DOMAIN bucket : bucket[i] >= t => i \in late
    BY <1>0, <2>2
  <2>6. \A t \in Int : {i \in DOMAIN bucket : bucket[i] >= t} = EntriesSince(c, t)
    BY <1>2 DEF EntriesSince
  <2> HIDE DEF bucket, late
  <2>7. Len(LatelyServed(c)) = Cardinality(late) /\ LatelyServed(c) \in Seq(0..rateClock)
    BY <2>1, <2>3, PickedAre
  <2>8. ASSUME NEW t \in Int, t > rateClock - RateWindow
        PROVE  Cardinality({i \in DOMAIN LatelyServed(c) : LatelyServed(c)[i] >= t}) = Cardinality(EntriesSince(c, t))
    <3>1. \A i \in DOMAIN bucket : bucket[i] >= t => i \in late
      BY <2>5, <2>8
    <3>2. Cardinality({i \in DOMAIN Picked(bucket, late) : Picked(bucket, late)[i] >= t})
             = Cardinality({i \in DOMAIN bucket : bucket[i] >= t})
      BY <2>1, <2>3, <3>1, PickedCount
    <3> QED BY <2>1, <2>6, <3>2
  <2> QED BY <1>1, <2>4, <2>7, <2>8
<1>3. CASE c \notin DOMAIN buckets
  <2>1. LatelyServed(c) = << >> /\ \A t \in Int : EntriesSince(c, t) = {}
    BY <1>3 DEF LatelyServed, EntriesSince
  <2>2. << >> \in Seq(0..rateClock) /\ Len(<< >>) = 0 /\ Cardinality({}) = 0 /\ DOMAIN << >> = {}
    BY FS_EmptySet
  <2>3. \A t \in Int : {i \in DOMAIN LatelyServed(c) : LatelyServed(c)[i] >= t} = {}
    BY <2>1, <2>2
  <2> QED BY <1>1, <2>1, <2>2, <2>3
<1> QED BY <1>2, <1>3

\* An answer that goes by what was let through lately.
LEMMA AnswerInv ==
  ASSUME RateIInv, NEW c \in Clients, NEW served \in BOOLEAN, Answer(c, served), rateClock' = rateClock,
         served <=> Cardinality(ServedSince(c, rateClock - RateWindow + 1)) <= RateLimit
  PROVE  /\ answers' \in [Clients -> Seq([at : 0..rateClock, served : BOOLEAN])]
         /\ RequestsAreLimited'
         /\ \A d \in Clients \ {c}, t \in Int : ServedSince(d, t)' = ServedSince(d, t)
         /\ \A t \in Int : /\ Cardinality(ServedSince(c, t)) \in Nat
                           /\ Cardinality(ServedSince(c, t)') = Cardinality(ServedSince(c, t)) +
                                 IF served /\ rateClock >= t THEN 1 ELSE 0
<1> DEFINE mine == answers[c]
           n == Len(mine)
           entry == [at |-> rateClock, served |-> served]
<1>0. RateTypeOK /\ rateClock \in Nat /\ RateWindow \in Nat /\ RequestsAreLimited
      /\ mine \in Seq([at : 0..rateClock, served : BOOLEAN])
      /\ \A j \in DOMAIN mine : mine[j].at \in 0..rateClock
  BY RateTypes DEF RateIInv
<1>1. entry \in [at : 0..rateClock, served : BOOLEAN]
  BY <1>0
<1>2. answers \in [Clients -> Seq([at : 0..rateClock, served : BOOLEAN])]
      /\ answers' = [answers EXCEPT ![c] = Append(mine, entry)]
  BY <1>0 DEF RateTypeOK, Answer
<1>30. entry.at = rateClock /\ entry.served = served
  OBVIOUS
<1> HIDE DEF mine, entry
<1>3. /\ n \in Nat /\ DOMAIN mine = 1..n
      /\ Append(mine, entry) \in Seq([at : 0..rateClock, served : BOOLEAN])
      /\ DOMAIN Append(mine, entry) = 1..(n + 1)
      /\ Append(mine, entry)[n + 1] = entry
      /\ \A i \in 1..n : Append(mine, entry)[i] = mine[i]
  BY <1>0, <1>1
<1>4. /\ answers' \in [Clients -> Seq([at : 0..rateClock, served : BOOLEAN])]
      /\ answers'[c] = Append(mine, entry)
      /\ \A d \in Clients \ {c} : answers'[d] = answers[d]
  BY <1>2, <1>3
<1>5. \A d \in Clients \ {c}, t \in Int : ServedSince(d, t)' = ServedSince(d, t)
  BY <1>4 DEF ServedSince
<1>6. ASSUME NEW t \in Int
      PROVE  /\ Cardinality(ServedSince(c, t)) \in Nat
             /\ Cardinality(ServedSince(c, t)') = Cardinality(ServedSince(c, t)) +
                   IF served /\ rateClock >= t THEN 1 ELSE 0
  <2>1. /\ ServedSince(c, t) \in SUBSET (1..n)
        /\ served /\ rateClock >= t => ServedSince(c, t)' = ServedSince(c, t) \cup {n + 1}
        /\ ~(served /\ rateClock >= t) => ServedSince(c, t)' = ServedSince(c, t)
    BY <1>3, <1>30, <1>4 DEF ServedSince, mine
  <2>2. n + 1 \notin ServedSince(c, t)
    BY <1>3, <2>1
  <2>3. ServedSince(c, t)' = ServedSince(c, t) <=> ~(served /\ rateClock >= t)
    BY <2>1, <2>2
  <2> QED BY <1>3, <2>1, <2>3, SinceAppended
<1>7. ASSUME NEW d \in Clients, NEW i \in DOMAIN answers'[d]
      PROVE  answers'[d][i].served <=> Cardinality(ServedBefore(d, i)') <= RateLimit
  <2>1. CASE d # c
    <3>1. answers'[d] = answers[d] /\ ServedBefore(d, i)' = ServedBefore(d, i)
      BY <1>4, <2>1 DEF ServedBefore
    <3> QED BY <1>0, <3>1 DEF RequestsAreLimited
  <2>2. CASE d = c /\ i \in 1..n
    <3>1. /\ answers'[d][i] = mine[i]
          /\ \A j \in 1..(i - 1) : answers'[d][j] = mine[j]
      BY <1>3, <1>4, <2>2
    <3>2. ServedBefore(d, i)' = ServedBefore(d, i)
      BY <2>2, <3>1 DEF ServedBefore, mine
    <3> QED BY <1>0, <1>3, <2>2, <3>1, <3>2 DEF RequestsAreLimited, mine
  <2>3. CASE d = c /\ i = n + 1
    <3>1. answers'[d][i] = entry /\ \A j \in 1..n : answers'[d][j] = mine[j]
      BY <1>3, <1>4, <2>3
    <3>2. ServedBefore(d, i)' = {j \in 1..n : mine[j].served /\ rateClock - mine[j].at < RateWindow}
      BY <1>3, <1>30, <2>3, <3>1 DEF ServedBefore
    <3>3. \A j \in 1..n : rateClock - mine[j].at < RateWindow <=> mine[j].at >= rateClock - RateWindow + 1
      <4>1. \A a \in 0..rateClock : rateClock - a < RateWindow <=> a >= rateClock - RateWindow + 1
        BY <1>0
      <4>2. \A j \in 1..n : mine[j].at \in 0..rateClock
        BY <1>0, <1>3
      <4> QED BY <4>1, <4>2
    <3>4. ServedBefore(d, i)' = ServedSince(c, rateClock - RateWindow + 1)
      BY <1>3, <3>2, <3>3 DEF ServedSince, mine
    <3> QED BY <1>30, <3>1, <3>4
  <2> QED BY <1>3, <1>4, <2>1, <2>2, <2>3
<1>8. RequestsAreLimited'
  BY <1>7 DEF RequestsAreLimited
<1> QED BY <1>4, <1>5, <1>6, <1>8

LEMMA RefuseInv == ASSUME RateIInv, NEW c \in Clients, Refuse(c) PROVE RateIInv'
<1>1. /\ UNCHANGED << rateClock, buckets >> /\ Answer(c, FALSE)
      /\ rateClock \in Nat /\ RateLimit \in Nat /\ RateTypeOK
      /\ ~(Len(LatelyServed(c)) <= RateLimit)
  <2>1. Len(LatelyServed(c)) \in Nat /\ RateTypeOK
    BY LatelyCounts DEF RateIInv
  <2>2. rateClock \in Nat /\ RateLimit \in Nat
    BY <2>1, RateTypes
  <2>3. UNCHANGED << rateClock, buckets >> /\ Answer(c, FALSE) /\ Len(LatelyServed(c)) > RateLimit
    BY DEF Refuse
  <2>4. ~(Len(LatelyServed(c)) <= RateLimit)
    BY <2>1, <2>2, <2>3
  <2> QED BY <2>1, <2>2, <2>3, <2>4
<1>2. FALSE <=> Cardinality(ServedSince(c, rateClock - RateWindow + 1)) <= RateLimit
  BY <1>1, LatelyCounts
<1>3. /\ answers' \in [Clients -> Seq([at : 0..rateClock, served : BOOLEAN])]
      /\ RequestsAreLimited'
      /\ \A d \in Clients \ {c}, t \in Int : ServedSince(d, t)' = ServedSince(d, t)
      /\ \A t \in Int : /\ Cardinality(ServedSince(c, t)) \in Nat
                        /\ Cardinality(ServedSince(c, t)') = Cardinality(ServedSince(c, t)) +
                              IF FALSE /\ rateClock >= t THEN 1 ELSE 0
  BY <1>1, <1>2, AnswerInv
<1>4. \A d \in Clients, t \in Int : Cardinality(ServedSince(d, t)') = Cardinality(ServedSince(d, t))
  <2>1. \A t \in Int : Cardinality(ServedSince(c, t)') = Cardinality(ServedSince(c, t))
    <3>1. \A t \in Int : Cardinality(ServedSince(c, t)) \in Nat /\ Cardinality(ServedSince(c, t)') = Cardinality(ServedSince(c, t)) + 0
      BY <1>3
    <3>2. \A k \in Nat : k + 0 = k
      OBVIOUS
    <3> QED BY <3>1, <3>2
  <2>2. \A d \in Clients \ {c}, t \in Int : Cardinality(ServedSince(d, t)') = Cardinality(ServedSince(d, t))
    BY <1>3
  <2> QED BY <2>1, <2>2
<1>5. \A d \in Clients, t \in Int : EntriesSince(d, t)' = EntriesSince(d, t)
  BY <1>1 DEF EntriesSince
<1>6. BucketsCount'
  BY <1>1, <1>4, <1>5 DEF BucketsCount, RateIInv
<1> QED BY <1>1, <1>3, <1>6 DEF RateIInv, RateTypeOK

LEMMA ServeInv == ASSUME RateIInv, NEW c \in Clients, Serve(c) PROVE RateIInv'
<1> DEFINE lately == LatelyServed(c)
           n == Len(lately)
           bucket == Append(lately, rateClock)
<1>1. /\ UNCHANGED rateClock /\ Answer(c, TRUE) /\ Enter(c, bucket)
      /\ rateClock \in Nat /\ RateWindow \in Nat /\ RateTypeOK /\ n <= RateLimit
  BY RateTypes DEF Serve, RateIInv
<1>2. /\ lately \in Seq(0..rateClock)
      /\ n = Cardinality(ServedSince(c, rateClock - RateWindow + 1))
      /\ \A t \in Int : t > rateClock - RateWindow =>
            Cardinality({i \in DOMAIN lately : lately[i] >= t}) = Cardinality(ServedSince(c, t))
  BY LatelyCounts
<1>3. /\ answers' \in [Clients -> Seq([at : 0..rateClock, served : BOOLEAN])]
      /\ RequestsAreLimited'
      /\ \A d \in Clients \ {c}, t \in Int : ServedSince(d, t)' = ServedSince(d, t)
      /\ \A t \in Int : /\ Cardinality(ServedSince(c, t)) \in Nat
                        /\ Cardinality(ServedSince(c, t)') = Cardinality(ServedSince(c, t)) +
                              IF rateClock >= t THEN 1 ELSE 0
  <2>1. TRUE <=> Cardinality(ServedSince(c, rateClock - RateWindow + 1)) <= RateLimit
    BY <1>1, <1>2
  <2> HIDE DEF bucket, n, lately
  <2> QED BY <1>1, <2>1, AnswerInv
<1> HIDE DEF lately
<1>4. /\ n \in Nat /\ DOMAIN lately = 1..n /\ bucket \in Seq(0..rateClock) /\ DOMAIN bucket = 1..(n + 1)
      /\ bucket[n + 1] = rateClock /\ \A i \in 1..n : bucket[i] = lately[i]
  BY <1>1, <1>2
<1> HIDE DEF bucket
<1>5. /\ DOMAIN buckets' = DOMAIN buckets \cup {c} /\ buckets'[c] = bucket
      /\ \A d \in DOMAIN buckets \ {c} : buckets'[d] = buckets[d]
  BY <1>1 DEF Enter
<1>6. ASSUME NEW t \in Int, t > rateClock - RateWindow
      PROVE  Cardinality(EntriesSince(c, t)') = Cardinality(ServedSince(c, t)')
  <2> DEFINE old == {i \in DOMAIN lately : lately[i] >= t}
  <2>1. /\ old \in SUBSET (1..n)
        /\ rateClock >= t => EntriesSince(c, t)' = old \cup {n + 1}
        /\ ~(rateClock >= t) => EntriesSince(c, t)' = old
    BY <1>4, <1>5 DEF EntriesSince
  <2>2. Cardinality(old) = Cardinality(ServedSince(c, t))
    BY <1>2, <1>6
  <2> HIDE DEF old
  <2>3. n + 1 \notin old
    BY <1>4, <2>1
  <2>4. EntriesSince(c, t)' = old <=> ~(rateClock >= t)
    BY <2>1, <2>3
  <2>5. Cardinality(EntriesSince(c, t)') = Cardinality(old) + IF rateClock >= t THEN 1 ELSE 0
    BY <1>4, <2>1, <2>4, SinceAppended
  <2> QED BY <1>3, <2>2, <2>5
<1>7. ASSUME NEW d \in Clients \ {c}, NEW t \in Int PROVE EntriesSince(d, t)' = EntriesSince(d, t)
  BY <1>5 DEF EntriesSince
<1>8. BucketsCount'
  BY <1>1, <1>3, <1>6, <1>7 DEF BucketsCount, RateIInv
<1>9. RateTypeOK'
  BY <1>1, <1>3, <1>4, <1>5 DEF RateTypeOK
<1> QED BY <1>3, <1>8, <1>9 DEF RateIInv

LEMMA RatePassInv == ASSUME RateIInv, RatePass PROVE RateIInv'
<1>1. /\ RateTypeOK /\ rateClock < RateHorizon /\ rateClock' = rateClock + 1 /\ UNCHANGED << buckets, answers >>
      /\ rateClock \in Nat /\ RateWindow \in Nat /\ RateHorizon \in Nat
  <2>1. RateWindow \in Nat /\ RateHorizon \in Nat
    BY RateAssumption
  <2>2. rateClock \in 0..RateHorizon
    BY DEF RateIInv, RateTypeOK
  <2> QED BY <2>1, <2>2 DEF RatePass, RateIInv
<1>2. /\ 0..rateClock \subseteq 0..rateClock'
      /\ [at : 0..rateClock, served : BOOLEAN] \subseteq [at : 0..rateClock', served : BOOLEAN]
      /\ rateClock' \in 0..RateHorizon
  BY <1>1
<1>3. \A d \in DOMAIN buckets : buckets[d] \in Seq(0..rateClock')
  BY <1>1, <1>2, WiderSeq DEF RateTypeOK
<1>4. answers \in [Clients -> Seq([at : 0..rateClock', served : BOOLEAN])]
  <2>1. \A c \in Clients : answers[c] \in Seq([at : 0..rateClock', served : BOOLEAN])
    <3> SUFFICES ASSUME NEW c \in Clients PROVE answers[c] \in Seq([at : 0..rateClock', served : BOOLEAN])
      OBVIOUS
    <3>1. answers[c] \in Seq([at : 0..rateClock, served : BOOLEAN])
      BY <1>1 DEF RateTypeOK
    <3> QED BY <1>2, <3>1, WiderSeq
  <2> QED BY <1>1, <2>1 DEF RateTypeOK
<1>5. RateTypeOK'
  BY <1>1, <1>2, <1>3, <1>4 DEF RateTypeOK
<1>6. \A t \in Int : t > rateClock' - RateWindow => t > rateClock - RateWindow
  BY <1>1
<1>7. BucketsCount'
  BY <1>1, <1>6 DEF RateIInv, BucketsCount, EntriesSince, ServedSince
<1>8. RequestsAreLimited'
  BY <1>1 DEF RateIInv, RequestsAreLimited, ServedBefore
<1> QED BY <1>5, <1>7, <1>8 DEF RateIInv

LEMMA RateInitInv == RateInit => RateIInv
<1> SUFFICES ASSUME RateInit PROVE RateIInv
  OBVIOUS
<1>1. << >> \in Seq([at : 0..rateClock, served : BOOLEAN]) /\ DOMAIN << >> = {}
  OBVIOUS
<1>2. RateTypeOK
  BY <1>1, RateAssumption DEF RateInit, RateTypeOK
<1>3. \A c \in Clients, t \in Int : EntriesSince(c, t) = {} /\ ServedSince(c, t) = {}
  BY <1>1 DEF RateInit, EntriesSince, ServedSince
<1>4. BucketsCount
  BY <1>3 DEF BucketsCount
<1>5. RequestsAreLimited
  BY <1>1 DEF RateInit, RequestsAreLimited
<1> QED BY <1>2, <1>4, <1>5 DEF RateIInv

LEMMA RateNextInv == RateIInv /\ [RateNext]_rateVars => RateIInv'
<1> SUFFICES ASSUME RateIInv, [RateNext]_rateVars PROVE RateIInv'
  OBVIOUS
<1>1. CASE UNCHANGED rateVars
  BY <1>1 DEF rateVars, RateIInv, RateTypeOK, BucketsCount, EntriesSince, ServedSince, RequestsAreLimited, ServedBefore
<1> QED BY <1>1, RatePassInv, RefuseInv, ServeInv DEF RateNext, Request

\* A request is let through exactly when no more than the limit were in the
\* minute before it (_install_rate_limit), for any clients, limit and window:
\* a bucket may hold stale stamps, but of the recent ones it has every one.
THEOREM RequestsLimited == RateSpec => []RequestsAreLimited
<1>1. RateIInv => RequestsAreLimited
  BY DEF RateIInv
<1> QED BY <1>1, RateInitInv, RateNextInv, PTL DEF RateSpec
-----------------------------------------------------------------------------
(* Scanner                                                                 *)

\* ScannerTypeOK with what its parts rest on: a cache of finitely many hashes,
\* a scan that has begun, and whole numbers for the rest.
ScanTypes ==
    /\ ScannerTypeOK
    /\ clock \in Nat
    /\ IsFiniteSet(hashes)
    /\ scan.begun \in 0..clock
    /\ scan.pc = "scanning" => clock <= scan.begun + ScanTime
    /\ losses \in [count : Nat, size : Nat]

LEMMA HostFinite ==
  ASSUME ScannerTypeOK
  PROVE  /\ IsFiniteSet(DOMAIN exe) /\ Cardinality(DOMAIN exe) \in Nat
         /\ LET mine == {<< pid, exe[pid] >> : pid \in DOMAIN exe}
            IN  IsFiniteSet(mine) /\ Cardinality(mine) = Cardinality(DOMAIN exe)
<1> DEFINE mine == {<< pid, exe[pid] >> : pid \in DOMAIN exe}
           f == [pid \in DOMAIN exe |-> << pid, exe[pid] >>]
<1>1. IsFiniteSet(DOMAIN exe)
  BY ScannerAssumption, FS_Subset DEF ScannerTypeOK
<1>2. f \in Bijection(DOMAIN exe, mine)
  BY DEF Bijection, Injection, Surjection, IsInjective
<1>3. IsFiniteSet(mine) /\ Cardinality(mine) = Cardinality(DOMAIN exe)
  BY <1>1, <1>2, FS_Bijection DEF ExistsBijection
<1> QED BY <1>1, <1>3, FS_CardinalityType

LEMMA HashingTypes ==
  ASSUME ScannerTypeOK, IsFiniteSet(hashes)
  PROVE  /\ Hashing.cache \subseteq ScanPids \X Executables
         /\ IsFiniteSet(Hashing.cache) /\ Cardinality(Hashing.cache) <= MaxHashes
         /\ Hashing.ok <=> Cardinality(Hashed) <= MaxHashes
         /\ ~Hashing.ok => Hashing.cache = {}
<1>1. IsFiniteSet(Hashed)
  BY HostFinite, FS_Union DEF Hashed
<1>2. Hashed \subseteq ScanPids \X Executables
  BY DEF Hashed, ScannerTypeOK
<1>3. Cardinality(Hashed) \in Nat /\ MaxHashes \in Nat
  BY <1>1, FS_CardinalityType, ScannerAssumption
<1>4. IsFiniteSet({}) /\ Cardinality({}) = 0
  BY FS_EmptySet
<1>5. CASE Cardinality(Hashed) > MaxHashes
  <2>1. Hashing = [cache |-> {}, ok |-> FALSE]
    BY <1>5 DEF Hashing
  <2> QED BY <1>3, <1>4, <1>5, <2>1
<1>6. CASE ~(Cardinality(Hashed) > MaxHashes)
  <2>1. Hashing = [cache |-> Hashed, ok |-> TRUE]
    BY <1>6 DEF Hashing
  <2> QED BY <1>1, <1>2, <1>3, <1>6, <2>1
<1> QED BY <1>5, <1>6

\* What CollectPorts leaves in the cache, and what is attached from it.
LEMMA MapperTypes ==
  ASSUME ScanTypes, NEW readable \in BOOLEAN, CollectPorts(readable)
  PROVE  /\ mapper' \in [ports : SUBSET (ScanPids \X Ports), outbound : SUBSET ScanPids, at : 0..clock]
         /\ IsSnapshots(Attached(readable))
<1>1. mapper' \in [ports : SUBSET (ScanPids \X Ports), outbound : SUBSET ScanPids, at : 0..clock]
  <2>1. mapper \in [ports : SUBSET (ScanPids \X Ports), outbound : SUBSET ScanPids, at : 0..clock]
    BY DEF ScanTypes, ScannerTypeOK
  <2>2. listening \in SUBSET (ScanPids \X Ports) /\ talking \in SUBSET ScanPids /\ clock \in 0..clock
    BY DEF ScanTypes, ScannerTypeOK
  <2> QED BY <2>1, <2>2 DEF CollectPorts
<1>2. DOMAIN Attached(readable) \subseteq ScanPids
  BY DEF Attached, ScanTypes, ScannerTypeOK
<1>3. \A pid \in DOMAIN Attached(readable) : Attached(readable)[pid] \in Snapshot
  BY DEF Attached, Snapshot
<1> QED BY <1>1, <1>2, <1>3 DEF IsSnapshots

LEMMA HostTypes ==
  ASSUME ScanTypes, Host
  PROVE  /\ DOMAIN exe' \subseteq ScanPids /\ \A pid \in DOMAIN exe' : exe'[pid] \in Executables
         /\ listening' \subseteq (DOMAIN exe') \X Ports /\ talking' \subseteq DOMAIN exe'
         /\ closedAt' \in [ScanPids \X Ports -> -1..clock]
<1>0. /\ DOMAIN exe \subseteq ScanPids /\ \A pid \in DOMAIN exe : exe[pid] \in Executables
      /\ listening \subseteq (DOMAIN exe) \X Ports /\ talking \subseteq DOMAIN exe
      /\ closedAt \in [ScanPids \X Ports -> -1..clock]
      /\ clock \in Nat /\ clock \in -1..clock
  BY DEF ScanTypes, ScannerTypeOK
<1>1. ASSUME NEW pid \in ScanPids, NEW path \in Executables, HostStart(pid, path)
      PROVE  /\ DOMAIN exe' \subseteq ScanPids /\ \A p \in DOMAIN exe' : exe'[p] \in Executables
             /\ DOMAIN exe \subseteq DOMAIN exe' /\ UNCHANGED << listening, talking, closedAt >>
  BY <1>0, <1>1 DEF HostStart
<1>2. ASSUME NEW pid \in ScanPids, HostExit(pid)
      PROVE  /\ DOMAIN exe' \subseteq ScanPids /\ \A p \in DOMAIN exe' : exe'[p] \in Executables
             /\ listening' \subseteq (DOMAIN exe') \X Ports /\ talking' \subseteq DOMAIN exe'
             /\ closedAt' \in [ScanPids \X Ports -> -1..clock]
  <2>1. /\ DOMAIN exe' = DOMAIN exe \ {pid}
        /\ \A p \in DOMAIN exe' : exe'[p] = exe[p]
    BY <1>2 DEF HostExit, Restrict
  <2>2. listening' = listening \ {s \in listening : s[1] = pid} /\ talking' = talking \ {pid}
    BY <1>2 DEF HostExit
  <2>3. closedAt' = [s \in ScanPids \X Ports |-> IF s \in {z \in listening : z[1] = pid} THEN clock ELSE closedAt[s]]
    BY <1>2 DEF HostExit, Closing
  <2>4. listening' \subseteq (DOMAIN exe') \X Ports
    BY <1>0, <2>1, <2>2
  <2>5. closedAt' \in [ScanPids \X Ports -> -1..clock]
    BY <1>0, <2>3
  <2> QED BY <1>0, <2>1, <2>2, <2>4, <2>5
<1>3. ASSUME NEW pid \in ScanPids, HostConnect(pid)
      PROVE  talking' \subseteq DOMAIN exe /\ UNCHANGED << exe, listening, closedAt >>
  BY <1>0, <1>3 DEF HostConnect
<1>4. ASSUME NEW pid \in ScanPids, NEW port \in Ports, HostListen(pid, port)
      PROVE  listening' \subseteq (DOMAIN exe) \X Ports /\ UNCHANGED << exe, talking, closedAt >>
  BY <1>0, <1>4 DEF HostListen
<1> QED
  <2>1. CASE \E pid \in ScanPids, path \in Executables : HostStart(pid, path)
    BY <1>0, <1>1, <2>1
  <2>2. CASE \E pid \in ScanPids : HostExit(pid)
    BY <1>2, <2>2
  <2>3. CASE \E pid \in ScanPids : HostConnect(pid)
    BY <1>0, <1>3, <2>3
  <2>4. CASE \E pid \in ScanPids, port \in Ports : HostListen(pid, port)
    BY <1>0, <1>4, <2>4
  <2> QED BY <2>1, <2>2, <2>3, <2>4 DEF Host
LEMMA ScanTypesInit == ScannerInit => ScanTypes
<1> SUFFICES ASSUME ScannerInit PROVE ScanTypes
  OBVIOUS
<1>1. DOMAIN << >> = {} /\ IsFiniteSet({}) /\ Cardinality({}) = 0 /\ MaxHashes \in Nat
  BY FS_EmptySet, ScannerAssumption
<1>2. IsSnapshots(<< >>)
  BY <1>1 DEF IsSnapshots
<1>3. ScannerTypeOK
  BY <1>1, <1>2 DEF ScannerInit, ScannerTypeOK, Unscanned, NoScan
<1> QED BY <1>1, <1>3 DEF ScannerInit, ScanTypes, NoScan

LEMMA ScanTypesNext ==
  ASSUME ScanTypes, [ScannerNext]_scannerVars
  PROVE  ScanTypes'
<1>0. /\ ScannerTypeOK /\ clock \in Nat /\ IsFiniteSet(hashes) /\ scan.begun \in 0..clock
      /\ (scan.pc = "scanning" => clock <= scan.begun + ScanTime) /\ losses \in [count : Nat, size : Nat]
      /\ ScanTime \in Nat
  BY ScannerAssumption DEF ScanTypes
<1>1. CASE UNCHANGED scannerVars
  BY <1>0, <1>1 DEF scannerVars, ScanTypes, ScannerTypeOK, IsSnapshots
<1>2. CASE Host
  <2>1. UNCHANGED << clock, mapper, hashes, scan, recent, delivered, losses >>
    BY <1>2 DEF Host
  <2>2. ScannerTypeOK'
    BY <1>0, <1>2, <2>1, HostTypes DEF ScannerTypeOK, IsSnapshots
  <2> QED BY <1>0, <2>1, <2>2 DEF ScanTypes
<1>3. CASE ScanAgain
  <2>1. /\ delivered' = [at |-> clock, snapshots |-> recent.snapshots]
        /\ UNCHANGED << exe, listening, talking, closedAt, clock, mapper, hashes, scan, recent, losses >>
    BY <1>3 DEF ScanAgain, hostState
  <2>2. delivered'.at \in 0..clock' /\ delivered'.snapshots = recent.snapshots
    BY <1>0, <2>1
  <2>3. ScannerTypeOK'
    BY <1>0, <2>1, <2>2 DEF ScannerTypeOK, IsSnapshots
  <2> QED BY <1>0, <2>1, <2>3 DEF ScanTypes
<1>4. ASSUME NEW readable \in BOOLEAN, ScanBegin(readable) PROVE ScanTypes'
  <2>1. /\ UNCHANGED << exe, listening, talking, closedAt, clock, recent, delivered >>
        /\ CollectPorts(readable) /\ hashes' = Hashing.cache /\ scan.pc = "idle"
    BY <1>4 DEF ScanBegin, hostState
  <2>2. /\ mapper' \in [ports : SUBSET (ScanPids \X Ports), outbound : SUBSET ScanPids, at : 0..clock]
        /\ IsSnapshots(Attached(readable))
    BY <2>1, MapperTypes
  <2>3. hashes' \subseteq ScanPids \X Executables /\ IsFiniteSet(hashes') /\ Cardinality(hashes') <= MaxHashes
    BY <1>0, <2>1, HashingTypes
  <2>4. CASE scan' = [pc |-> "scanning", begun |-> clock, snapshots |-> Attached(readable)]
             /\ losses' = [losses EXCEPT !.size = Cardinality(DOMAIN exe)]
    <3>1. scan'.pc = "scanning" /\ scan'.begun = clock /\ scan'.snapshots = Attached(readable)
      BY <2>4
    <3>0. losses' \in [count : Nat, size : Nat]
      BY <1>0, <2>4, HostFinite
    <3>2. scan'.begun \in 0..clock' /\ clock' <= scan'.begun + ScanTime
      BY <1>0, <2>1, <3>1
    <3>3. ScannerTypeOK'
      BY <1>0, <2>1, <2>2, <2>3, <3>1 DEF ScannerTypeOK, IsSnapshots
    <3> QED BY <1>0, <2>1, <2>3, <3>0, <3>2, <3>3 DEF ScanTypes
  <2>5. CASE scan' = scan /\ losses' = [count |-> losses.count + 1, size |-> Cardinality(DOMAIN exe)]
    <3>1. losses' \in [count : Nat, size : Nat]
      BY <1>0, <2>5, HostFinite
    <3>2. ScannerTypeOK'
      BY <1>0, <2>1, <2>2, <2>3, <2>5 DEF ScannerTypeOK, IsSnapshots
    <3> QED BY <1>0, <2>1, <2>3, <2>5, <3>1, <3>2 DEF ScanTypes
  <2> QED BY <1>4, <2>4, <2>5 DEF ScanBegin
<1>5. CASE ScanEnd
  <2>1. /\ recent' = [at |-> clock, snapshots |-> scan.snapshots] /\ delivered' = recent'
        /\ losses' = [losses EXCEPT !.count = 0] /\ scan' = NoScan
        /\ UNCHANGED << exe, listening, talking, closedAt, clock, mapper, hashes >>
    BY <1>5 DEF ScanEnd, hostState
  <2>2. /\ recent'.at \in 0..clock' /\ recent'.snapshots = scan.snapshots
        /\ delivered'.at \in 0..clock' /\ delivered'.snapshots = scan.snapshots
    BY <1>0, <2>1
  <2>3. scan'.pc = "idle" /\ scan'.begun = 0 /\ scan'.snapshots = << >>
    BY <2>1 DEF NoScan
  <2>4. IsSnapshots(<< >>)
    <3>1. DOMAIN << >> = {}
      OBVIOUS
    <3> QED BY <3>1 DEF IsSnapshots
  <2>5. ScannerTypeOK'
    BY <1>0, <2>1, <2>2, <2>3, <2>4 DEF ScannerTypeOK, IsSnapshots
  <2>6. scan'.begun \in 0..clock'
    BY <1>0, <2>1, <2>3
  <2>7. losses' \in [count : Nat, size : Nat]
    BY <1>0, <2>1
  <2> QED BY <1>0, <2>1, <2>3, <2>5, <2>6, <2>7 DEF ScanTypes
<1>6. CASE ScannerPass
  <2>1. /\ clock' = clock + 1
        /\ scan.pc = "scanning" => clock < scan.begun + ScanTime
        /\ UNCHANGED << exe, listening, talking, closedAt, mapper, hashes, scan, recent, delivered, losses >>
    BY <1>6 DEF ScannerPass, hostState
  <2>2. /\ clock' \in Nat /\ 0..clock \subseteq 0..clock' /\ -1..clock \subseteq -1..clock'
        /\ scan'.pc = "scanning" => clock' <= scan'.begun + ScanTime
    BY <1>0, <2>1
  <2>3. closedAt' \in [ScanPids \X Ports -> -1..clock']
    BY <1>0, <2>1, <2>2 DEF ScannerTypeOK
  <2>4. mapper' \in [ports : SUBSET (ScanPids \X Ports), outbound : SUBSET ScanPids, at : 0..clock']
    BY <1>0, <2>1, <2>2 DEF ScannerTypeOK
  <2>5. recent'.at \in 0..clock' /\ delivered'.at \in 0..clock' /\ scan'.begun \in 0..clock'
    BY <1>0, <2>1, <2>2 DEF ScannerTypeOK
  <2>6. ScannerTypeOK'
    BY <1>0, <2>1, <2>3, <2>4, <2>5 DEF ScannerTypeOK, IsSnapshots
  <2> QED BY <1>0, <2>1, <2>2, <2>5, <2>6 DEF ScanTypes
<1> QED BY <1>1, <1>2, <1>3, <1>4, <1>5, <1>6 DEF ScannerNext
\* The scanner's state is of its types for any set of processes, any windows
\* and any bound of the hash cache (ProcessScanner, PortMapper).
THEOREM ScannerTypeCorrect == ScannerSpec => []ScannerTypeOK
<1>1. ScanTypes => ScannerTypeOK
  BY DEF ScanTypes
<1>2. ScanTypes /\ [ScannerNext]_scannerVars => ScanTypes'
  BY ScanTypesNext
<1> QED BY <1>1, <1>2, ScanTypesInit, PTL DEF ScannerSpec

\* A socket was open at t, or later.  So it was if it is open now, and once so
\* it stays so: a socket that closes does so now.
OpenAt(s, t) == s \in listening \/ closedAt[s] >= t
AllOpenAt(list, t) == \A pid \in DOMAIN list : \A port \in list[pid].ports : OpenAt(<< pid, port >>, t)

\* Each list of ports goes back to a time at which it was true: the cache to
\* its reading of the sockets, a scan to what it took from the cache when it
\* began, the last snapshots to the scan they are from.
AgesHold ==
    /\ \A s \in mapper.ports : OpenAt(s, mapper.at)
    /\ scan.pc = "scanning" => AllOpenAt(scan.snapshots, scan.begun - Slack(Refresh))
    /\ AllOpenAt(recent.snapshots, recent.at - Slack(Refresh) - ScanTime)
    /\ AllOpenAt(delivered.snapshots, delivered.at - (Slack(Refresh) + ScanTime + Slack(MinInterval)))

AgesIInv == ScanTypes /\ AgesHold

LEMMA Slacks ==
  /\ Slack(Refresh) \in Nat /\ Slack(MinInterval) \in Nat /\ ScanTime \in Nat
  /\ \A d \in Nat : d < Refresh => d <= Slack(Refresh)
  /\ \A d \in Nat : d < MinInterval => d <= Slack(MinInterval)
<1>1. Refresh \in Nat /\ MinInterval \in Nat /\ ScanTime \in Nat
  BY ScannerAssumption
<1> QED BY <1>1 DEF Slack

LEMMA OpenEarlier ==
  ASSUME closedAt \in [ScanPids \X Ports -> Int], NEW s \in ScanPids \X Ports,
         NEW t \in Int, NEW u \in Int, u <= t, OpenAt(s, t)
  PROVE  OpenAt(s, u)
<1>1. closedAt[s] \in Int
  OBVIOUS
<1> QED BY <1>1 DEF OpenAt

LEMMA AllOpenEarlier ==
  ASSUME closedAt \in [ScanPids \X Ports -> Int], NEW list, IsSnapshots(list),
         NEW t \in Int, NEW u \in Int, u <= t, AllOpenAt(list, t)
  PROVE  AllOpenAt(list, u)
<1> SUFFICES ASSUME NEW pid \in DOMAIN list, NEW port \in list[pid].ports PROVE OpenAt(<< pid, port >>, u)
  BY DEF AllOpenAt
<1>1. << pid, port >> \in ScanPids \X Ports
  BY DEF IsSnapshots, Snapshot
<1>2. OpenAt(<< pid, port >>, t)
  BY DEF AllOpenAt
<1> QED BY <1>1, <1>2, OpenEarlier

\* What was open stays so, whatever the host does.
LEMMA StaysOpen ==
  ASSUME ScanTypes, Host \/ UNCHANGED << listening, closedAt >>,
         NEW s \in ScanPids \X Ports, NEW t \in Int, t <= clock, OpenAt(s, t)
  PROVE  OpenAt(s, t)'
<1>0. /\ clock \in Nat
      /\ closedAt[s] \in Int
  BY DEF ScanTypes, ScannerTypeOK
<1>1. CASE UNCHANGED << listening, closedAt >>
  BY <1>1 DEF OpenAt
<1>2. ASSUME NEW pid \in ScanPids, HostExit(pid) PROVE OpenAt(s, t)'
  <2>1. /\ listening' = listening \ {z \in listening : z[1] = pid}
        /\ closedAt'[s] = IF s \in {z \in listening : z[1] = pid} THEN clock ELSE closedAt[s]
    BY <1>2 DEF HostExit, Closing
  <2> QED BY <1>0, <2>1 DEF OpenAt
<1>3. ASSUME NEW pid \in ScanPids, NEW port \in Ports, HostListen(pid, port) PROVE OpenAt(s, t)'
  BY <1>3 DEF HostListen, OpenAt
<1>4. ASSUME NEW pid \in ScanPids, NEW path \in Executables, HostStart(pid, path) PROVE OpenAt(s, t)'
  BY <1>1, <1>4 DEF HostStart
<1>5. ASSUME NEW pid \in ScanPids, HostConnect(pid) PROVE OpenAt(s, t)'
  BY <1>1, <1>5 DEF HostConnect
<1> QED BY <1>1, <1>2, <1>3, <1>4, <1>5 DEF Host

LEMMA AllStayOpen ==
  ASSUME ScanTypes, Host \/ UNCHANGED << listening, closedAt >>,
         NEW list, IsSnapshots(list), NEW t \in Int, t <= clock, AllOpenAt(list, t)
  PROVE  \A pid \in DOMAIN list : \A port \in list[pid].ports : OpenAt(<< pid, port >>, t)'
<1> SUFFICES ASSUME NEW pid \in DOMAIN list, NEW port \in list[pid].ports PROVE OpenAt(<< pid, port >>, t)'
  OBVIOUS
<1>1. << pid, port >> \in ScanPids \X Ports
  BY DEF IsSnapshots, Snapshot
<1>2. OpenAt(<< pid, port >>, t)
  BY DEF AllOpenAt
<1> QED BY <1>1, <1>2, StaysOpen
\* What the lists said, they go on saying.
LEMMA AgesStay ==
  ASSUME AgesIInv, Host \/ UNCHANGED << listening, closedAt >>
  PROVE  /\ mapper' = mapper => (\A s \in mapper.ports : OpenAt(s, mapper.at))'
         /\ scan' = scan => (scan.pc = "scanning" => AllOpenAt(scan.snapshots, scan.begun - Slack(Refresh)))'
         /\ recent' = recent => AllOpenAt(recent.snapshots, recent.at - Slack(Refresh) - ScanTime)'
         /\ delivered' = delivered =>
              AllOpenAt(delivered.snapshots, delivered.at - (Slack(Refresh) + ScanTime + Slack(MinInterval)))'
<1>0. /\ clock \in Nat /\ scan.begun \in 0..clock /\ recent.at \in 0..clock /\ delivered.at \in 0..clock
      /\ mapper.at \in 0..clock /\ mapper.ports \in SUBSET (ScanPids \X Ports)
      /\ IsSnapshots(scan.snapshots) /\ IsSnapshots(recent.snapshots) /\ IsSnapshots(delivered.snapshots)
      /\ ScanTypes
  BY DEF AgesIInv, ScanTypes, ScannerTypeOK
<1>1. /\ mapper.at \in Int /\ mapper.at <= clock
      /\ scan.begun - Slack(Refresh) \in Int /\ scan.begun - Slack(Refresh) <= clock
      /\ recent.at - Slack(Refresh) - ScanTime \in Int /\ recent.at - Slack(Refresh) - ScanTime <= clock
  BY <1>0, Slacks
<1>2. /\ delivered.at - (Slack(Refresh) + ScanTime + Slack(MinInterval)) \in Int
      /\ delivered.at - (Slack(Refresh) + ScanTime + Slack(MinInterval)) <= clock
  BY <1>0, Slacks
<1>3. ASSUME NEW s \in mapper.ports, mapper' = mapper PROVE OpenAt(s, mapper.at)'
  <2>1. OpenAt(s, mapper.at) /\ s \in ScanPids \X Ports
    BY <1>0 DEF AgesIInv, AgesHold
  <2>2. s \in listening' \/ closedAt'[s] >= mapper.at
    BY <1>0, <1>1, <2>1, StaysOpen DEF OpenAt
  <2> QED BY <1>3, <2>2 DEF OpenAt
<1>4. ASSUME scan' = scan, scan'.pc = "scanning"
      PROVE  AllOpenAt(scan.snapshots, scan.begun - Slack(Refresh))'
  <2>1. AllOpenAt(scan.snapshots, scan.begun - Slack(Refresh))
    BY <1>4 DEF AgesIInv, AgesHold
  <2>2. \A pid \in DOMAIN scan.snapshots : \A port \in scan.snapshots[pid].ports :
           << pid, port >> \in listening' \/ closedAt'[<< pid, port >>] >= scan.begun - Slack(Refresh)
    BY <1>0, <1>1, <2>1, AllStayOpen DEF OpenAt
  <2> QED BY <1>4, <2>2 DEF AllOpenAt, OpenAt
<1>5. ASSUME recent' = recent PROVE AllOpenAt(recent.snapshots, recent.at - Slack(Refresh) - ScanTime)'
  <2>1. AllOpenAt(recent.snapshots, recent.at - Slack(Refresh) - ScanTime)
    BY DEF AgesIInv, AgesHold
  <2>2. \A pid \in DOMAIN recent.snapshots : \A port \in recent.snapshots[pid].ports :
           << pid, port >> \in listening' \/ closedAt'[<< pid, port >>] >= recent.at - Slack(Refresh) - ScanTime
    BY <1>0, <1>1, <2>1, AllStayOpen DEF OpenAt
  <2> QED BY <1>5, <2>2 DEF AllOpenAt, OpenAt
<1>6. ASSUME delivered' = delivered
      PROVE  AllOpenAt(delivered.snapshots, delivered.at - (Slack(Refresh) + ScanTime + Slack(MinInterval)))'
  <2> DEFINE t == delivered.at - (Slack(Refresh) + ScanTime + Slack(MinInterval))
  <2>1. AllOpenAt(delivered.snapshots, t)
    BY DEF AgesIInv, AgesHold
  <2>2. t \in Int /\ t <= clock
    BY <1>2
  <2> HIDE DEF t
  <2>3. \A pid \in DOMAIN delivered.snapshots : \A port \in delivered.snapshots[pid].ports :
           << pid, port >> \in listening' \/ closedAt'[<< pid, port >>] >= t
    BY <1>0, <2>1, <2>2, AllStayOpen DEF OpenAt
  <2> QED BY <1>6, <2>3 DEF AllOpenAt, OpenAt, t
<1> QED BY <1>3, <1>4, <1>5, <1>6

\* What a scan takes from the socket cache is not older than the cache may be.
LEMMA AttachedOpen ==
  ASSUME AgesIInv, NEW readable \in BOOLEAN, CollectPorts(readable)
  PROVE  /\ AllOpenAt(Attached(readable), clock - Slack(Refresh))
         /\ \A s \in mapper'.ports : OpenAt(s, mapper'.at)
<1>0. /\ clock \in Nat /\ mapper.at \in 0..clock /\ mapper.ports \in SUBSET (ScanPids \X Ports)
      /\ closedAt \in [ScanPids \X Ports -> Int] /\ Refresh \in Nat
      /\ \A s \in mapper.ports : OpenAt(s, mapper.at)
  BY ScannerAssumption DEF AgesIInv, AgesHold, ScanTypes, ScannerTypeOK
<1>1. clock - Slack(Refresh) \in Int
  BY <1>0, Slacks
<1>2. \A s \in CollectedPorts(readable) : OpenAt(s, clock - Slack(Refresh))
  <2>1. CASE MapperIsFresh
    <3>1. mapper.at \in Int /\ clock - Slack(Refresh) <= mapper.at
      <4>1. clock - mapper.at \in Nat /\ clock - mapper.at < Refresh
        BY <1>0, <2>1 DEF MapperIsFresh
      <4> QED BY <1>0, <4>1, Slacks
    <3> QED BY <1>0, <1>1, <2>1, <3>1, OpenEarlier DEF CollectedPorts
  <2>2. CASE ~MapperIsFresh
    BY <2>2 DEF CollectedPorts, OpenAt
  <2> QED BY <2>1, <2>2
<1>3. AllOpenAt(Attached(readable), clock - Slack(Refresh))
  BY <1>2 DEF AllOpenAt, Attached
<1>4. \A s \in mapper'.ports : OpenAt(s, mapper'.at)
  BY <1>0 DEF CollectPorts, OpenAt
<1> QED BY <1>3, <1>4

LEMMA AgesInit == ScannerInit => AgesIInv
<1> SUFFICES ASSUME ScannerInit PROVE AgesIInv
  OBVIOUS
<1>1. ScanTypes
  BY ScanTypesInit
<1>2. DOMAIN << >> = {}
  OBVIOUS
<1> QED BY <1>1, <1>2 DEF AgesIInv, AgesHold, AllOpenAt, ScannerInit, Unscanned, NoScan

LEMMA AgesNext == AgesIInv /\ [ScannerNext]_scannerVars => AgesIInv'
<1> SUFFICES ASSUME AgesIInv, [ScannerNext]_scannerVars PROVE AgesIInv'
  OBVIOUS
<1>0. /\ ScanTypes /\ ScanTypes' /\ clock \in Nat
      /\ recent.at \in 0..clock /\ scan.begun \in 0..clock /\ closedAt \in [ScanPids \X Ports -> Int]
      /\ IsSnapshots(recent.snapshots) /\ IsSnapshots(scan.snapshots)
  BY ScanTypesNext DEF AgesIInv, ScanTypes, ScannerTypeOK
<1>1. CASE Host \/ UNCHANGED scannerVars \/ ScannerPass
  <2>1. UNCHANGED << mapper, scan, recent, delivered >> /\ (Host \/ UNCHANGED << listening, closedAt >>)
    BY <1>1 DEF Host, scannerVars, ScannerPass, hostState
  <2>2. AgesHold'
    BY <2>1, AgesStay DEF AgesHold
  <2> QED BY <1>0, <2>2 DEF AgesIInv
<1>2. CASE ScanAgain
  <2>1. /\ UNCHANGED << listening, closedAt, mapper, scan, recent >>
        /\ delivered' = [at |-> clock, snapshots |-> recent.snapshots]
        /\ clock - recent.at < MinInterval
    BY <1>2 DEF ScanAgain, Debounced, hostState
  <2>2. AllOpenAt(recent.snapshots, recent.at - Slack(Refresh) - ScanTime)
    BY DEF AgesIInv, AgesHold
  <2>3. clock - recent.at <= Slack(MinInterval)
    BY <1>0, <2>1, Slacks
  <2>4. /\ clock - (Slack(Refresh) + ScanTime + Slack(MinInterval)) \in Int
        /\ recent.at - Slack(Refresh) - ScanTime \in Int
        /\ clock - (Slack(Refresh) + ScanTime + Slack(MinInterval)) <= recent.at - Slack(Refresh) - ScanTime
    BY <1>0, <2>3, Slacks
  <2>5. AllOpenAt(recent.snapshots, clock - (Slack(Refresh) + ScanTime + Slack(MinInterval)))
    BY <1>0, <2>2, <2>4, AllOpenEarlier
  <2>6. AllOpenAt(delivered.snapshots, delivered.at - (Slack(Refresh) + ScanTime + Slack(MinInterval)))'
    BY <2>1, <2>5 DEF AllOpenAt, OpenAt
  <2>7. AgesHold'
    BY <2>1, <2>6, AgesStay DEF AgesHold
  <2> QED BY <1>0, <2>7 DEF AgesIInv
<1>3. ASSUME NEW readable \in BOOLEAN, ScanBegin(readable) PROVE AgesIInv'
  <2>1. /\ UNCHANGED << listening, closedAt, recent, delivered >> /\ CollectPorts(readable)
        /\ \/ scan' = [pc |-> "scanning", begun |-> clock, snapshots |-> Attached(readable)]
           \/ scan' = scan
    BY <1>3 DEF ScanBegin, hostState
  <2>2. AllOpenAt(Attached(readable), clock - Slack(Refresh)) /\ \A s \in mapper'.ports : OpenAt(s, mapper'.at)
    BY <2>1, AttachedOpen
  <2>3. (\A s \in mapper.ports : OpenAt(s, mapper.at))'
    BY <2>1, <2>2 DEF OpenAt
  <2>4. (scan.pc = "scanning" => AllOpenAt(scan.snapshots, scan.begun - Slack(Refresh)))'
    <3>1. CASE scan' = scan
      BY <2>1, <3>1, AgesStay
    <3>2. CASE scan' = [pc |-> "scanning", begun |-> clock, snapshots |-> Attached(readable)]
      <4>1. scan'.snapshots = Attached(readable) /\ scan'.begun = clock
        BY <3>2
      <4> QED BY <2>1, <2>2, <4>1 DEF AllOpenAt, OpenAt
    <3> QED BY <2>1, <3>1, <3>2
  <2>5. AgesHold'
    BY <2>1, <2>3, <2>4, AgesStay DEF AgesHold
  <2> QED BY <1>0, <2>5 DEF AgesIInv
<1>4. CASE ScanEnd
  <2>1. /\ UNCHANGED << listening, closedAt, mapper >> /\ scan.pc = "scanning" /\ scan' = NoScan
        /\ recent' = [at |-> clock, snapshots |-> scan.snapshots] /\ delivered' = recent'
    BY <1>4 DEF ScanEnd, hostState
  <2>2. clock <= scan.begun + ScanTime /\ AllOpenAt(scan.snapshots, scan.begun - Slack(Refresh))
    BY <1>0, <2>1 DEF ScanTypes, AgesIInv, AgesHold
  <2>3. /\ scan.begun - Slack(Refresh) \in Int /\ clock - Slack(Refresh) - ScanTime \in Int
        /\ clock - Slack(Refresh) - ScanTime <= scan.begun - Slack(Refresh)
        /\ clock - (Slack(Refresh) + ScanTime + Slack(MinInterval)) \in Int
        /\ clock - (Slack(Refresh) + ScanTime + Slack(MinInterval)) <= scan.begun - Slack(Refresh)
    BY <1>0, <2>2, Slacks
  <2>4. /\ AllOpenAt(scan.snapshots, clock - Slack(Refresh) - ScanTime)
        /\ AllOpenAt(scan.snapshots, clock - (Slack(Refresh) + ScanTime + Slack(MinInterval)))
    BY <1>0, <2>2, <2>3, AllOpenEarlier
  <2>5. /\ AllOpenAt(recent.snapshots, recent.at - Slack(Refresh) - ScanTime)'
        /\ AllOpenAt(delivered.snapshots, delivered.at - (Slack(Refresh) + ScanTime + Slack(MinInterval)))'
    BY <2>1, <2>4 DEF AllOpenAt, OpenAt
  <2>6. scan'.pc # "scanning"
    BY <2>1 DEF NoScan
  <2>7. AgesHold'
    BY <2>1, <2>5, <2>6, AgesStay DEF AgesHold
  <2> QED BY <1>0, <2>7 DEF AgesIInv
<1> QED BY <1>1, <1>2, <1>3, <1>4 DEF ScannerNext

\* No snapshot shows a port longer after it was given up than the two windows
\* and a scan together allow (PortMapper.collect_ports, ProcessScanner.scan),
\* whatever they are set to: closed windows, of zero, add nothing.
THEOREM PortsRecent == ScannerSpec => []PortsAreRecent
<1>1. AgesIInv => PortsAreRecent
  <2> SUFFICES ASSUME AgesIInv, NEW pid \in DOMAIN delivered.snapshots, NEW port \in delivered.snapshots[pid].ports
               PROVE  \/ << pid, port >> \in listening
                      \/ delivered.at - closedAt[<< pid, port >>] <= Slack(Refresh) + ScanTime + Slack(MinInterval)
    BY DEF PortsAreRecent
  <2>1. /\ << pid, port >> \in ScanPids \X Ports /\ delivered.at \in Int
        /\ OpenAt(<< pid, port >>, delivered.at - (Slack(Refresh) + ScanTime + Slack(MinInterval)))
    BY DEF AgesIInv, AgesHold, AllOpenAt, ScanTypes, ScannerTypeOK, IsSnapshots, Snapshot
  <2>2. closedAt[<< pid, port >>] \in Int
    BY <2>1 DEF AgesIInv, ScanTypes, ScannerTypeOK
  <2> QED BY <2>1, <2>2, Slacks DEF OpenAt
<1> QED BY <1>1, AgesInit, AgesNext, PTL DEF ScannerSpec

\* An empty cache is what a lost scan leaves, and what the next one finds; then
\* it needs room for the processes there are, and for nothing else.
LossIInv ==
    /\ ScanTypes
    /\ losses.count > 0 /\ scan.pc = "idle" => hashes = {}
    /\ LossesAreSingle

LEMMA LossNext == LossIInv /\ [ScannerNext]_scannerVars => LossIInv'
<1> SUFFICES ASSUME LossIInv, [ScannerNext]_scannerVars PROVE LossIInv'
  OBVIOUS
<1>0. ScanTypes /\ ScanTypes' /\ losses \in [count : Nat, size : Nat]
  BY ScanTypesNext DEF LossIInv, ScanTypes
<1>1. CASE Host \/ UNCHANGED scannerVars \/ ScannerPass \/ ScanAgain
  <2>1. UNCHANGED << losses, scan, hashes >>
    BY <1>1 DEF Host, scannerVars, ScannerPass, ScanAgain
  <2> QED BY <1>0, <2>1 DEF LossIInv, LossesAreSingle
<1>2. ASSUME NEW readable \in BOOLEAN, ScanBegin(readable), losses.count < 2 PROVE LossIInv'
  <2>0. ScannerTypeOK /\ IsFiniteSet(hashes) /\ scan.pc = "idle" /\ hashes' = Hashing.cache
    BY <1>0, <1>2 DEF ScanTypes, ScanBegin
  <2>1. CASE Hashing.ok /\ scan' = [pc |-> "scanning", begun |-> clock, snapshots |-> Attached(readable)]
             /\ losses' = [losses EXCEPT !.size = Cardinality(DOMAIN exe)]
    <3>1. scan'.pc = "scanning" /\ losses'.count = losses.count
      BY <1>0, <2>1
    <3>2. ~(losses'.count > 1)
      BY <1>0, <1>2, <3>1
    <3> QED BY <1>0, <3>1, <3>2 DEF LossIInv, LossesAreSingle
  <2>2. CASE ~Hashing.ok /\ losses' = [count |-> losses.count + 1, size |-> Cardinality(DOMAIN exe)]
    <3>1. hashes' = {}
      BY <2>0, <2>2, HashingTypes
    <3>2. losses'.count = losses.count + 1 /\ losses'.size = Cardinality(DOMAIN exe)
      BY <2>2
    <3>3. ASSUME losses'.count > 1 PROVE losses'.size > MaxHashes
      <4>1. losses.count > 0
        BY <1>0, <3>2, <3>3
      <4>2. hashes = {}
        BY <2>0, <4>1 DEF LossIInv
      <4>3. Hashed = {<< pid, exe[pid] >> : pid \in DOMAIN exe}
        BY <4>2 DEF Hashed
      <4>4. Cardinality(Hashed) = Cardinality(DOMAIN exe) /\ Cardinality(DOMAIN exe) \in Nat
        BY <2>0, <4>3, HostFinite
      <4>5. ~(Cardinality(Hashed) <= MaxHashes)
        BY <2>0, <2>2, HashingTypes
      <4> QED BY <3>2, <4>4, <4>5, ScannerAssumption
    <3> QED BY <1>0, <3>1, <3>3 DEF LossIInv, LossesAreSingle
  <2> QED BY <1>2, <2>1, <2>2 DEF ScanBegin
<1>3. CASE ScanEnd
  <2>1. losses'.count = 0
    BY <1>0, <1>3 DEF ScanEnd
  <2>2. ~(losses'.count > 0) /\ ~(losses'.count > 1)
    BY <2>1
  <2> QED BY <1>0, <2>2 DEF LossIInv, LossesAreSingle
<1> QED BY <1>1, <1>2, <1>3 DEF ScannerNext

\* No two scans in a row are lost to the hash cache (ProcessScanner's
\* _file_hash clears it before the entry that did not fit is looked up), unless
\* the host runs more processes at once than the cache may hold.
THEOREM LossesSingle == ScannerSpec => []LossesAreSingle
<1>1. ScannerInit => LossIInv
  <2> SUFFICES ASSUME ScannerInit PROVE LossIInv
    OBVIOUS
  <2>1. losses.count = 0 /\ ScanTypes
    BY ScanTypesInit DEF ScannerInit
  <2>2. ~(losses.count > 0) /\ ~(losses.count > 1)
    BY <2>1
  <2> QED BY <2>1, <2>2 DEF LossIInv, LossesAreSingle
<1>2. LossIInv => LossesAreSingle
  BY DEF LossIInv
<1> QED BY <1>1, <1>2, LossNext, PTL DEF ScannerSpec

-----------------------------------------------------------------------------
(* All of them together                                                    *)

\* Every part keeps its state within its types while the others do what they
\* do (MCRuntimeState), for any values of all their parameters.
THEOREM MemoryTypeCorrect == MCSpec => []MCTypeOK
<1> DEFINE IInv == SetIInv /\ TrackerIInv /\ RateIInv /\ ScanTypes /\ SettingsTypes
<1>1. MCInit => IInv
  BY SetInitInv, TrackerInitInv, RateInitInv, ScanTypesInit, SettingsTypesInit DEF MCInit
<1>2. IInv /\ [MCNext]_<< vars, trackerVars, rateVars, scannerVars, settingsVars >> => IInv'
  <2> SUFFICES ASSUME IInv, [MCNext]_<< vars, trackerVars, rateVars, scannerVars, settingsVars >> PROVE IInv'
    OBVIOUS
  <2>1. /\ [Next]_vars /\ [TrackerNext]_trackerVars /\ [RateNext]_rateVars
        /\ [ScannerNext]_scannerVars /\ [SettingsNext]_settingsVars
    BY DEF MCNext
  <2> QED BY <2>1, SetNextInv, TrackerNextInv, RateNextInv, ScanTypesNext, SettingsTypesNext
<1>3. IInv => MCTypeOK
  BY DEF MCTypeOK, SetIInv, TrackerIInv, RateIInv, ScanTypes, SettingsTypes
<1> HIDE DEF IInv
<1> QED BY <1>1, <1>2, <1>3, PTL DEF MCSpec
================================================================================
