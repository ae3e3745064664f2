----------------------------- MODULE RuntimeState -----------------------------
(***************************************************************************)
(* The two bounded containers of app/core/runtime_state.py as operators on *)
(* values: the insertion-ordered suppression set (TTLSet) and the start    *)
(* time buckets of the restart tracker (RestartTracker).                   *)
(* Clock readings are integers.                                            *)
(***************************************************************************)
EXTENDS Integers, Sequences, FiniteSets

-----------------------------------------------------------------------------
(* TTLSet: an OrderedDict, oldest position first, as a sequence of entries. *)

Recorded(items) == {items[i].key : i \in DOMAIN items}

ExpiredEarly(entry, now, ttl) == now - entry.at >= ttl
Expired(entry, now, ttl) == now - entry.at > ttl

\* Position of an entry that has the key (there is one at most).
PositionOf(items, key) == CHOOSE i \in DOMAIN items : items[i].key = key

\* Entries are dropped from the front up to the first one still alive; an
\* expired entry behind a live one stays.
Prune(items, now, ttl) ==
    LET alive == {i \in DOMAIN items : ~Expired(items[i], now, ttl)}
    IN  IF alive = {} THEN << >>
        ELSE SubSeq(items, CHOOSE i \in alive : \A j \in alive : i <= j, Len(items))

\* A hit moves the entry to the back and keeps the time it was recorded.
MoveToEnd(items, key) ==
    LET p == PositionOf(items, key)
    IN  [i \in DOMAIN items |-> IF i < p THEN items[i]
                                ELSE IF i < Len(items) THEN items[i + 1]
                                ELSE items[p]]

\* A slip the code avoids: nothing is pushed out of a full set.
RecordUnbounded(items, key, now, maxSize) == Append(items, [key |-> key, at |-> now])

Record(items, key, now, maxSize) ==
    LET added == Append(items, [key |-> key, at |-> now])
    IN  IF Len(added) > maxSize THEN Tail(added) ELSE added

\* A slip the code avoids: a hit renews its entry.
SeenRecentlyRenewing(items, key, now, ttl, maxSize) ==
    LET kept == Prune(items, now, ttl)
        others == SelectSeq(kept, LAMBDA e : e.key # key)
    IN  [seen |-> key \in Recorded(kept), items |-> Record(others, key, now, maxSize)]

\* seen_recently: the answer, and the set it leaves behind.
SeenRecently(items, key, now, ttl, maxSize) ==
    LET kept == Prune(items, now, ttl)
    IN  IF key \in Recorded(kept)
        THEN [seen |-> TRUE,  items |-> MoveToEnd(kept, key)]
        ELSE [seen |-> FALSE, items |-> Record(kept, key, now, maxSize)]

-----------------------------------------------------------------------------
(* RestartTracker: a bucket of start times for each fingerprint.           *)

\* A slip the code avoids: the start at the cutoff is dropped.
TrimExclusive(bucket, cutoff) == SelectSeq(bucket, LAMBDA t : t > cutoff)

\* The front of the bucket is trimmed up to the first start inside the window.
Trim(bucket, cutoff) ==
    LET inside == {i \in DOMAIN bucket : bucket[i] >= cutoff}
    IN  IF inside = {} THEN << >>
        ELSE SubSeq(bucket, CHOOSE i \in inside : \A j \in inside : i <= j, Len(bucket))

BucketOf(starts, fp) == IF fp \in DOMAIN starts THEN starts[fp] ELSE << >>

\* An overfull tracker forgets everything before it takes the next start.
Uncrowded(starts, maxFingerprints) ==
    IF Cardinality(DOMAIN starts) > maxFingerprints THEN << >> ELSE starts

\* observe: the count, and the buckets it leaves behind.
Observe(starts, fp, start, window, maxFingerprints) ==
    LET kept   == Uncrowded(starts, maxFingerprints)
        old    == BucketOf(kept, fp)
        grown  == IF \E i \in DOMAIN old : old[i] = start THEN old ELSE Append(old, start)
        bucket == Trim(grown, start - window)
    IN  [count  |-> Len(bucket),
         starts |-> [f \in DOMAIN kept \cup {fp} |-> IF f = fp THEN bucket ELSE kept[f]]]
=============================================================================
