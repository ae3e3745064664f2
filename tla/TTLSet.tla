-------------------------------- MODULE TTLSet --------------------------------
(***************************************************************************)
(* The suppression set of the duplicate detector (TTLSet) as a state       *)
(* machine: callers ask about keys while a monotonic clock advances.       *)
(***************************************************************************)
EXTENDS RuntimeState

CONSTANTS
    Keys,      \* suppression keys (fingerprint and pids)
    TTL,       \* suppression_window_seconds, in ticks
    MaxSize,   \* max_size (4096 in the code)
    Horizon    \* bound on the clock, for model checking

ASSUME TTLSetAssumption ==
    /\ Keys # {}
    /\ TTL \in Nat
    /\ MaxSize \in Nat \ {0}
    /\ Horizon \in Nat

Never == -1

VARIABLES
    items,   \* _items
    now,     \* time.monotonic()
    reply    \* what the last seen_recently call answered

vars == << items, now, reply >>

Entries == [key : Keys, at : 0..Horizon]

TypeOK ==
    /\ items \in Seq(Entries)
    /\ now \in 0..Horizon
    /\ reply \in [key : Keys, seen : BOOLEAN]

Init ==
    /\ items = << >>
    /\ now \in 0..Horizon
    /\ reply \in [key : Keys, seen : {FALSE}]

Ask(key) ==
    LET outcome == SeenRecently(items, key, now, TTL, MaxSize)
    IN  /\ items' = outcome.items
        /\ reply' = [key |-> key, seen |-> outcome.seen]
        /\ now' = now

Pass ==
    /\ now < Horizon
    /\ now' = now + 1
    /\ UNCHANGED << items, reply >>

Next == Pass \/ \E key \in Keys : Ask(key)

Spec == Init /\ [][Next]_vars

-----------------------------------------------------------------------------

\* The table never holds a key twice and never outgrows its bound, whatever
\* order hits, expiries and evictions come in (TTLSet.seen_recently).
WellFormed ==
    /\ Len(items) <= MaxSize
    /\ \A i, j \in DOMAIN items : items[i].key = items[j].key => i = j

\* The time each key was recorded, as the abstract window sees it.
RecordedAt ==
    [k \in Keys |-> IF k \in Recorded(items) THEN items[PositionOf(items, k)].at ELSE Never]

Suppression == INSTANCE SuppressionWindow WITH recordedAt <- RecordedAt

\* seen_recently implements the suppression window: it calls a key new only
\* if the key was never recorded, has expired, or was evicted from a full table.
ImplementsWindow == Suppression!ASpec
=============================================================================
