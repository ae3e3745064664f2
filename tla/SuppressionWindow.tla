--------------------------- MODULE SuppressionWindow ---------------------------
(***************************************************************************)
(* What a caller of TTLSet.seen_recently may rely on, said without the     *)
(* ordered dictionary: a key is reported as new only when it is not        *)
(* remembered, and a remembered key is forgotten only once it has expired  *)
(* or when the table is full.  Nothing promises that an expired key IS     *)
(* forgotten: a hit moves an entry behind younger ones, and pruning stops  *)
(* at the first live entry (runtime_state.py:23,33).                       *)
(***************************************************************************)
EXTENDS Integers, FiniteSets

CONSTANTS Keys, TTL, MaxSize, Horizon

Never == -1

VARIABLES
    recordedAt,   \* when each key was last reported as new, or Never
    now,
    reply         \* the last answer given: [key, seen]

avars == << recordedAt, now, reply >>

Remembered == {k \in Keys : recordedAt[k] # Never}

MayForget(k) == now - recordedAt[k] > TTL

AInit ==
    /\ recordedAt = [k \in Keys |-> Never]
    /\ now \in 0..Horizon
    /\ reply \in [key : Keys, seen : {FALSE}]

AnswerSeen(k) ==
    /\ k \in Remembered
    /\ \E gone \in SUBSET (Remembered \ {k}) :
          /\ \A g \in gone : MayForget(g)
          /\ recordedAt' = [x \in Keys |-> IF x \in gone THEN Never ELSE recordedAt[x]]
    /\ reply' = [key |-> k, seen |-> TRUE]
    /\ now' = now

AnswerNew(k) ==
    /\ k \in Remembered => MayForget(k)
    /\ \E gone \in SUBSET (Remembered \ {k}), evicted \in SUBSET (Remembered \ {k}) :
          /\ \A g \in gone : MayForget(g)
          /\ Cardinality(evicted) <= 1
          /\ evicted # {} => Cardinality((Remembered \ {k}) \ gone) >= MaxSize
          /\ recordedAt' = [x \in Keys |-> IF x = k THEN now
                                           ELSE IF x \in gone \cup evicted THEN Never
                                           ELSE recordedAt[x]]
    /\ reply' = [key |-> k, seen |-> FALSE]
    /\ now' = now

APass ==
    /\ now < Horizon
    /\ now' = now + 1
    /\ UNCHANGED << recordedAt, reply >>

ANext == APass \/ \E k \in Keys : AnswerSeen(k) \/ AnswerNew(k)

ASpec == AInit /\ [][ANext]_avars
=============================================================================
