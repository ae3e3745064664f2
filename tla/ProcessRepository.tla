--------------------------- MODULE ProcessRepository ---------------------------
(***************************************************************************)
(* The processes and process_history tables of app/database/repository.py  *)
(* under the scanners that write them: the daemon and the web process each *)
(* run a scan loop against one SQLite file.  A session reads without a     *)
(* lock (pysqlite opens a transaction at the first write), so an upsert is *)
(* a load, a look at the history, and a locked write that takes all of its *)
(* changes or none.                                                        *)
(***************************************************************************)
EXTENDS Integers, FiniteSets, FiniteSetsExt

CONSTANTS
    Writers,     \* scan loops that may share the database
    Pids,
    Stale,       \* 30 seconds, in ticks
    Interval,    \* history_sample_interval_seconds, in ticks
    Retention,   \* history_retention_days, in ticks
    MaxStarts,   \* bound on processes started, with one scan loop
    MaxShared,   \* the same with several
    MaxRestarts, \* restart_count is not followed beyond this
    Horizon      \* bound on the clock

ASSUME RepositoryAssumption ==
    /\ Writers # {} /\ IsFiniteSet(Writers)
    /\ Pids \subseteq Nat \ {0} /\ IsFiniteSet(Pids)
    /\ {Stale, Interval, Retention, MaxStarts, MaxShared, MaxRestarts, Horizon} \subseteq Nat

VARIABLES
    loops,     \* the scan loops the operator runs: the daemon, the web process, or both
    procs,     \* the host: pid -> start time of the process that has it
    started,   \* processes started so far; a start time is a number of its own
    now,       \* utcnow()
    rows,      \* processes table
    history,   \* process_history table
    writer     \* what each scan loop is doing

vars == << loops, procs, started, now, rows, history, writer >>

Nobody == [pc |-> "idle", snapshot |-> << >>, at |-> 0, existing |-> << >>, sampled |-> << >>]

Init ==
    /\ loops \in {Writers, {CHOOSE w \in Writers : TRUE}}   \* the loops are alike
    /\ procs = << >> /\ started = 0 /\ now = 0
    /\ rows = {} /\ history = {}
    /\ writer = [w \in Writers |-> Nobody]

-----------------------------------------------------------------------------
(* Times.  A snapshot's start_time carries its zone; what SQLite gives     *)
(* back does not, and Python holds an aware and a naive time for unequal.  *)

Aware(start) == [at |-> start, zone |-> "utc"]
Naive(time)  == [time EXCEPT !.zone = "none"]

RestartSeen(loaded, start) == Naive(loaded.start) # Aware(start)

-----------------------------------------------------------------------------
(* The host                                                                *)

\* Pids are handed out upwards, and one that is free again at any time.
Start(pid) ==
    /\ pid \notin DOMAIN procs
    /\ Cardinality({p \in Pids : p < pid}) <= started
    /\ started < IF Cardinality(loops) > 1 THEN MaxShared ELSE MaxStarts
    /\ started' = started + 1
    /\ procs' = [p \in DOMAIN procs \cup {pid} |-> IF p = pid THEN started + 1 ELSE procs[p]]
    /\ UNCHANGED << loops, now, rows, history, writer >>

Exit(pid) ==
    /\ pid \in DOMAIN procs
    /\ procs' = [p \in DOMAIN procs \ {pid} |-> procs[p]]
    /\ UNCHANGED << loops, started, now, rows, history, writer >>

Pass ==
    /\ now < Horizon
    /\ now' = now + 1
    /\ UNCHANGED << loops, procs, started, rows, history, writer >>

-----------------------------------------------------------------------------
(* upsert_processes                                                        *)

Do(w, state) == writer' = [writer EXCEPT ![w] = state]

Scan(w) ==
    /\ writer[w].pc = "idle"
    /\ Do(w, [Nobody EXCEPT !.pc = "scanned", !.snapshot = procs])
    /\ UNCHANGED << loops, procs, started, now, rows, history >>

\* Of two rows with one pid the later one is taken.
RowOf(pid) == CHOOSE r \in rows : r.pid = pid /\ \A q \in rows : q.pid = pid => q.id <= r.id

\* A slip the code avoids: rows are looked up by pid and start time.
LoadByStart(w) ==
    /\ writer[w].pc = "scanned"
    /\ Do(w, [writer[w] EXCEPT
                !.pc = "loaded", !.at = now,
                !.existing = [pid \in {p \in DOMAIN writer[w].snapshot : \E r \in rows :
                                         r.pid = p /\ r.start = Aware(writer[w].snapshot[p])} |->
                                  RowOf(pid)]])
    /\ UNCHANGED << loops, procs, started, now, rows, history >>

\* A slip the code avoids: rows that will be purged are not looked up.
LoadFresh(w) ==
    /\ writer[w].pc = "scanned"
    /\ Do(w, [writer[w] EXCEPT
                !.pc = "loaded", !.at = now,
                !.existing = [pid \in {p \in DOMAIN writer[w].snapshot : \E r \in rows :
                                         r.pid = p /\ r.seen >= now - Stale} |-> RowOf(pid)]])
    /\ UNCHANGED << loops, procs, started, now, rows, history >>

Load(w) ==
    /\ writer[w].pc = "scanned"
    /\ Do(w, [writer[w] EXCEPT
                !.pc = "loaded", !.at = now,
                !.existing = [pid \in DOMAIN writer[w].snapshot \cap {r.pid : r \in rows} |->
                                  RowOf(pid)]])
    /\ UNCHANGED << loops, procs, started, now, rows, history >>

LastSample(id) == LET times == {h.at : h \in {x \in history : x.process = id}}
                  IN  IF times = {} THEN -1 ELSE Max(times)

Unknown(w) == DOMAIN writer[w].snapshot \ DOMAIN writer[w].existing

\* Up to its first insert a session looks at the history before it has the
\* write lock; the snapshot is gone through in pid order.
Unlocked(w) == {pid \in DOMAIN writer[w].existing : \A p \in Unknown(w) : pid < p}

Peek(w) ==
    /\ writer[w].pc = "loaded"
    /\ Do(w, [writer[w] EXCEPT
                !.pc = "write",
                !.sampled = [id \in {writer[w].existing[pid].id : pid \in Unlocked(w)} |->
                                LastSample(id)]])
    /\ UNCHANGED << loops, procs, started, now, rows, history >>

\* A slip: ids counted from the number of rows.
NextIdByCount == Cardinality(rows) + 1

\* Ids come from SQLite: one more than the largest in the table.
NextId == IF rows = {} THEN 1 ELSE Max({r.id : r \in rows}) + 1

Inserted(w, pid) ==
    [id |-> NextId + Cardinality({p \in Unknown(w) : p < pid}),
     pid |-> pid, start |-> Aware(writer[w].snapshot[pid]),
     restarts |-> 0, seen |-> writer[w].at]

\* A slip the code avoids: a reused pid keeps the start time of its row.
UpdatedKeepsStart(w, pid, row) ==
    LET old == writer[w].existing[pid]
    IN  [row EXCEPT !.restarts = IF RestartSeen(old, writer[w].snapshot[pid]) /\ old.restarts < MaxRestarts
                                 THEN old.restarts + 1 ELSE @,
                    !.seen = writer[w].at]

\* What is set on a loaded row replaces what the row of that id has by now; its
\* pid is not set.
Updated(w, pid, row) ==
    LET old == writer[w].existing[pid]
        start == writer[w].snapshot[pid]
    IN  [row EXCEPT !.start = Aware(start),
                    !.restarts = IF RestartSeen(old, start) /\ old.restarts < MaxRestarts
                                 THEN old.restarts + 1 ELSE @,
                    !.seen = writer[w].at]

Found(w, pid) == {r \in rows : r.id = writer[w].existing[pid].id}

Written(w) ==
    {Inserted(w, pid) : pid \in Unknown(w)}
    \cup UNION {{Updated(w, pid, row) : row \in Found(w, pid)} : pid \in DOMAIN writer[w].existing}

\* A slip the code avoids: a row seen exactly 30 seconds ago is stale.
KeptExclusive(w) == {r \in rows : /\ \A new \in Written(w) : new.id # r.id
                                  /\ r.seen > writer[w].at - Stale}

\* The rows a commit leaves in place: not rewritten, or not yet stale.
Kept(w) == {r \in rows : /\ \A new \in Written(w) : new.id # r.id
                         /\ r.seen >= writer[w].at - Stale}

\* The statements fail when a loaded row has been deleted, or when
\* (pid, start_time) would not be unique.
Conflict(w) ==
    LET untouched == {r \in rows : \A new \in Written(w) : new.id # r.id}
    IN  \/ \E pid \in DOMAIN writer[w].existing : Found(w, pid) = {}
        \/ \E r \in untouched, new \in Written(w) : r.pid = new.pid /\ r.start = new.start

\* A slip the code avoids: a sample is due after exactly the interval.
SamplesInclusive(w) ==
    LET last(new) == IF new.id \in DOMAIN writer[w].sampled
                     THEN writer[w].sampled[new.id] ELSE LastSample(new.id)
    IN  {[process |-> new.id, at |-> writer[w].at] :
            new \in {n \in Written(w) : last(n) = -1 \/ last(n) <= writer[w].at - Interval}}

\* A sample is due when there is none or the last is older than the interval.
Samples(w) ==
    LET last(new) == IF new.id \in DOMAIN writer[w].sampled
                     THEN writer[w].sampled[new.id] ELSE LastSample(new.id)
    IN  {[process |-> new.id, at |-> writer[w].at] :
            new \in {n \in Written(w) : last(n) = -1 \/ last(n) < writer[w].at - Interval}}

Commit(w) ==
    /\ writer[w].pc = "write" /\ ~Conflict(w)
    /\ rows' = Kept(w) \cup Written(w)
    /\ history' = history \cup Samples(w)
    /\ Do(w, Nobody)
    /\ UNCHANGED << loops, procs, started, now >>

\* IntegrityError or StaleDataError: the session rolls back, the cycle is over.
Rollback(w) ==
    /\ writer[w].pc = "write" /\ Conflict(w)
    /\ Do(w, Nobody)
    /\ UNCHANGED << loops, procs, started, now, rows, history >>

\* purge_old_history, from the hourly maintenance of a scan loop between two upserts.
Purge(w) ==
    /\ w \in loops /\ writer[w].pc = "idle"
    /\ history' = {h \in history : h.at >= now - Retention}
    /\ history' # history
    /\ UNCHANGED << loops, procs, started, now, rows, writer >>

Upsert(w) == w \in loops /\ (Scan(w) \/ Load(w) \/ Peek(w) \/ Commit(w) \/ Rollback(w))

Next ==
    \/ \E pid \in Pids : Start(pid) \/ Exit(pid)
    \/ Pass
    \/ \E w \in Writers : Upsert(w) \/ Purge(w)

\* The scan loops that run go on for ever; processes need not start or exit.
Spec == Init /\ [][Next]_vars /\ \A w \in Writers : WF_vars(Upsert(w))

-----------------------------------------------------------------------------
(* Properties                                                              *)

TypeOK ==
    /\ loops \subseteq Writers
    /\ DOMAIN procs \subseteq Pids
    /\ \A p \in DOMAIN procs : procs[p] \in 1..started
    /\ \A r \in rows :
          /\ r.pid \in Pids /\ r.id \in Nat \ {0} /\ r.restarts \in Nat
          /\ r.start.at \in 1..started /\ r.seen \in 0..now
    /\ \A r, q \in rows : r.id = q.id => r = q
    /\ \A h \in history : h.process \in Nat \ {0} /\ h.at \in 0..now
    /\ \A w \in Writers :
          writer[w].pc \in {"idle", "scanned", "loaded", "write"} /\ writer[w].at \in 0..now

\* With one scan loop a pid has one row, however often it is used again:
\* "Return one process by PID." (repository.py:155) is well defined.
OneRowPerPid == Cardinality(loops) = 1 => \A r, q \in rows : r.pid = q.pid => r = q

\* With one scan loop a row's history is sampled: two samples under one id lie
\* further apart than the interval, also when the id is a deleted row's.
SamplesAreSpaced ==
    Cardinality(loops) = 1 =>
        \A g, h \in history :
            g # h /\ g.process = h.process => g.at - h.at > Interval \/ h.at - g.at > Interval

\* The purge of stale rows never takes a row that some scan loop has seen
\* within the last 30 seconds, although each loop measures them from the time
\* its own upsert began.
FreshRowsAreKept ==
    [][\A r \in rows : (\A q \in rows' : q.id # r.id) => now - r.seen > Stale]_vars

\* What the table looks like to a loop that has it to itself.
Alone == Cardinality(loops) = 1

TableNow ==
    [pid \in IF Alone THEN {r.pid : r \in rows} ELSE {} |->
        LET row == RowOf(pid)
        IN  [id |-> row.id, start |-> row.start.at, restarts |-> row.restarts, seen |-> row.seen]]

InHand == IF Alone THEN writer[CHOOSE w \in Writers : w \in loops].snapshot ELSE << >>

Table == INSTANCE ProcessTable WITH
    taken <- InHand, table <- TableNow,
    samples <- IF Alone THEN history ELSE {},
    StartTimes <- 1..MaxStarts, Times <- 0..Horizon

\* To a scan loop that is alone an upsert is atomic, although it loads without
\* a lock, looks at part of the history before it has one, and time passes in
\* between: it is one step of the abstract table, over its own snapshot and at
\* the time it began.
ImplementsTable == Table!TableSpec

\* Rows of one pid: of these an upsert finds the later one, while the other may
\* already have the start time the first is to be given.
Twins(pid) == \E r, q \in rows : r # q /\ r.pid = pid /\ q.pid = pid

\* The rows a loop has found are not the ones the table has now.
Overtaken(w) ==
    \E pid \in DOMAIN writer[w].snapshot :
        IF pid \in DOMAIN writer[w].existing
        THEN \A r \in Found(w, pid) : r.pid # pid
        ELSE \E r \in rows : r.pid = pid

\* An upsert fails for one of two reasons, and never when its loop is alone:
\* another loop has committed since it loaded, which the next cycle gets over,
\* or two rows have one pid, which it does not.
UpsertsFailForAReason ==
    \A w \in loops : writer[w].pc = "write" /\ Conflict(w) =>
        ~Alone /\ (Overtaken(w) \/ \E pid \in DOMAIN writer[w].snapshot : Twins(pid))

\* The loops do not shut each other out: once host and clock rest, the table
\* comes to hold every live process as it is now, in spite of the upserts that
\* collide and roll back, unless the rows of some live pid have become two:
\* then every upsert fails as a whole until that process exits.
LiveProcessesGetRows ==
    <>[](\/ \A pid \in DOMAIN procs : \E r \in rows :
               r.pid = pid /\ r.start = Aware(procs[pid]) /\ r.seen = now
         \/ \E pid \in DOMAIN procs : Twins(pid))

\* The process page says of restart_count: "Number of recent restarts. >0 means
\* this process has died and respawned" (process_detail.html:12), and
\* test_pid_reuse_increments_restart_count (test_database.py:52) ties it to pid
\* reuse: a pid changes hands at most once for each process started after the
\* first.  The code does not keep this: see the run repository_restarts.
RestartsCountReuse == \A r \in rows : r.restarts < started
=============================================================================
