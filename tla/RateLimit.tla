------------------------------- MODULE RateLimit -------------------------------
(***************************************************************************)
(* The request limiter of the web process (app/web/app.py): per client, a  *)
(* list of the times of the requests let through in the last minute.  The  *)
(* handler does not await between reading and writing a bucket, so one     *)
(* request is one step.                                                    *)
(***************************************************************************)
EXTENDS Listing

CONSTANTS
    Clients,
    RateWindow,   \* 60 seconds, in ticks
    RateLimit,    \* 300
    MaxRequests,  \* bound on the requests of one client
    RateHorizon   \* bound on the clock

ASSUME RateAssumption == {RateWindow, RateLimit, MaxRequests, RateHorizon} \subseteq Nat

VARIABLES
    rateClock,  \* time.monotonic()
    buckets,    \* client -> times of requests let through; a client enters with its first
    answers     \* client -> every answer so far, the limiter keeps no such record

rateVars == << rateClock, buckets, answers >>

RateInit ==
    /\ rateClock = 0
    /\ buckets = << >>
    /\ answers = [c \in Clients |-> << >>]

LatelyServed(c) ==
    IF c \in DOMAIN buckets
    THEN Picked(buckets[c], {i \in DOMAIN buckets[c] : rateClock - buckets[c][i] < RateWindow})
    ELSE << >>

\* buckets[client] = bucket
Enter(c, bucket) ==
    buckets' = [d \in DOMAIN buckets \cup {c} |-> IF d = c THEN bucket ELSE buckets[d]]

Answer(c, served) == answers' = [answers EXCEPT ![c] = Append(@, [at |-> rateClock, served |-> served])]

\* A slip the code avoids: a request is entered before it is counted.
RefuseStored(c) ==
    /\ Len(LatelyServed(c)) > RateLimit
    /\ Enter(c, Append(LatelyServed(c), rateClock))
    /\ Answer(c, FALSE)
    /\ UNCHANGED rateClock

\* A refused request leaves no trace, not even the filtered bucket.
Refuse(c) ==
    /\ Len(LatelyServed(c)) > RateLimit
    /\ Answer(c, FALSE)
    /\ UNCHANGED << rateClock, buckets >>

Serve(c) ==
    /\ Len(LatelyServed(c)) <= RateLimit
    /\ Enter(c, Append(LatelyServed(c), rateClock))
    /\ Answer(c, TRUE)
    /\ UNCHANGED rateClock

Request(c) == Len(answers[c]) < MaxRequests /\ (Refuse(c) \/ Serve(c))

RatePass == rateClock < RateHorizon /\ rateClock' = rateClock + 1 /\ UNCHANGED << buckets, answers >>

RateNext == RatePass \/ \E c \in Clients : Request(c)

RateSpec == RateInit /\ [][RateNext]_rateVars

-----------------------------------------------------------------------------

RateTypeOK ==
    /\ rateClock \in 0..RateHorizon
    /\ DOMAIN buckets \subseteq Clients
    /\ \A c \in DOMAIN buckets : buckets[c] \in Seq(0..rateClock)
    /\ answers \in [Clients -> Seq([at : 0..rateClock, served : BOOLEAN])]

\* The requests of a client that were let through during the minute before its
\* i-th request.
ServedBefore(c, i) ==
    {j \in 1..(i - 1) : answers[c][j].served /\ answers[c][i].at - answers[c][j].at < RateWindow}

\* A request is let through exactly when no more than the limit were in the
\* minute before it: nobody gets more than limit + 1 in any minute, a client
\* that slows down is served again, however many refused requests it sent
\* meanwhile, and no client counts against another.
RequestsAreLimited ==
    \A c \in Clients : \A i \in DOMAIN answers[c] :
        answers[c][i].served <=> Cardinality(ServedBefore(c, i)) <= RateLimit
=============================================================================
