------------------------------ MODULE ProcessTable ------------------------------
(***************************************************************************)
(* What upsert_processes promises a scan loop that has the database to     *)
(* itself, with no session, lock or order of statements in it: one row per *)
(* pid, and each snapshot of the host written by one step.                 *)
(***************************************************************************)
EXTENDS Integers

CONSTANTS
    Pids,
    StartTimes,   \* times at which processes start
    Times,        \* times at which an upsert may begin
    Stale,        \* 30 seconds, in ticks
    Interval      \* history_sample_interval_seconds, in ticks

VARIABLES
    taken,        \* pid -> start time: the snapshot that is still to be written
    table,        \* pid -> [id, start, restarts, seen]
    samples       \* of the history: [process, at]

Snapshots == UNION {[pids -> StartTimes] : pids \in SUBSET Pids}

TableInit == taken = << >> /\ DOMAIN table = {} /\ samples = {}

\* A snapshot is never dropped for a later one.
TakeSnapshot ==
    /\ taken = << >> /\ taken' \in Snapshots
    /\ UNCHANGED << table, samples >>

\* A pid that is seen again keeps its row, whoever has it by now, and is told
\* restarted at most once for each upsert; an id is not shared.
Current(snapshot, at) ==
    \A pid \in DOMAIN snapshot :
        /\ table'[pid].start = snapshot[pid] /\ table'[pid].seen = at
        /\ IF pid \in DOMAIN table
           THEN /\ table'[pid].id = table[pid].id
                /\ table'[pid].restarts - table[pid].restarts \in {0, 1}
           ELSE table'[pid].restarts = 0

\* A row is due for a sample when the last under its id is older than the interval.
Due(snapshot, at) ==
    {pid \in DOMAIN snapshot :
        \A s \in samples : s.process = table'[pid].id => s.at < at - Interval}

UpsertAtOnce(snapshot, at) ==
    /\ \A pid \in DOMAIN table : table[pid].seen <= at
    /\ DOMAIN table' = DOMAIN snapshot \cup {pid \in DOMAIN table : table[pid].seen >= at - Stale}
    /\ Current(snapshot, at)
    /\ \A pid \in DOMAIN table' \ DOMAIN snapshot : table'[pid] = table[pid]
    /\ \A p, q \in DOMAIN table' : table'[p].id = table'[q].id => p = q
    /\ samples' = samples \cup {[process |-> table'[pid].id, at |-> at] : pid \in Due(snapshot, at)}

\* What is forgotten of the history is older than all that stays.
PurgeSamples ==
    /\ samples' \subseteq samples
    /\ \A s \in samples \ samples', t \in samples' : s.at < t.at
    /\ UNCHANGED << taken, table >>

TableNext ==
    \/ TakeSnapshot
    \/ taken' = << >> /\ \E at \in Times : UpsertAtOnce(taken, at)
    \/ PurgeSamples

TableSpec == TableInit /\ [][TableNext]_<< taken, table, samples >>
=============================================================================
