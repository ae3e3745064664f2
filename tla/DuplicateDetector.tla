--------------------------- MODULE DuplicateDetector ---------------------------
(***************************************************************************)
(* app/core/duplicate_detector.py: three stages (exact fingerprint, fuzzy  *)
(* fingerprint, pairwise) that share one suppression set and one restart   *)
(* tracker, run once per scan cycle over a process table that changes in   *)
(* between.  What a program looks like (fingerprints, executable, command, *)
(* ports, container, unit, worker patterns) is a record of Programs; text  *)
(* similarity is a constant operator, in percent.                          *)
(***************************************************************************)
EXTENDS RuntimeState, Listing, SequencesExt

CONSTANTS
    PidOrder,             \* process ids, in the order the host first hands them out
    Programs,             \* what can be started on the host
    Daemons,              \* what may run already when the scanner starts
    CwdSimilarity(_, _),  \* SequenceMatcher ratio of two directories
    ArgSimilarity(_, _),  \* SequenceMatcher ratio of two argument texts
    Threshold,            \* confidence_threshold
    SuppressionTTL,       \* suppression_window_seconds, in ticks
    RestartWindow,        \* restart_loop_window_seconds, in ticks
    RestartThreshold,     \* restart_loop_threshold
    SameStart,            \* 10 seconds, in ticks
    DistantStart,         \* 3600 seconds, in ticks
    MaxTracked,           \* max_size of the TTLSet and of the tracker
    Horizon,              \* bound on the clock
    MaxStarts             \* bound on the processes started

NoText == ""
InitPid == 1

Pids == ToSet(PidOrder)

ASSUME DetectorAssumption ==
    /\ PidOrder \in Seq(Nat \ {0, InitPid}) /\ PidOrder # << >> /\ IsInjective(PidOrder)
    /\ SuppressionTTL \in Nat /\ MaxTracked \in Nat
    /\ Threshold \in 0..100
    /\ RestartThreshold \in Nat \ {0, 1}

VARIABLES
    procs,        \* the host's process table: pid -> [prog, start, ppid]
    now,          \* clock
    suppressed,   \* DuplicateDetector._suppressed
    starts,       \* DuplicateDetector._restart_tracker._starts
    result,       \* what the last detect() returned and what it looked at
    reported,     \* history: << fingerprint, pids >> -> time of its last report
    started,      \* processes started so far
    exited        \* history: fingerprints one of whose processes has exited

vars == << procs, now, suppressed, starts, result, reported, started, exited >>

-----------------------------------------------------------------------------
(* Snapshots                                                               *)

\* trace_ancestry: parents upwards until the table ends or a pid repeats.
Ancestry(table, pid) ==
    LET parent(p) == IF p \in DOMAIN table THEN {table[p].ppid} \ {0} ELSE {}
        above[n \in 0..Cardinality(Pids)] ==
            IF n = 0 THEN parent(pid)
            ELSE LET nearer == above[n - 1]
                 IN  nearer \cup UNION {parent(p) : p \in nearer}
    IN  above[Cardinality(Pids)] \ {pid}

\* A process as a scan shows it.
Shot(table, pid) ==
    [pid |-> pid, prog |-> table[pid].prog, start |-> table[pid].start, ppid |-> table[pid].ppid,
     ancestry |-> Ancestry(table, pid)]

\* One scan: the process table in pid order.
Snapshots(table) ==
    LET order == InOrder(DOMAIN table)
    IN  SubSeq([i \in DOMAIN order |-> Shot(table, order[i])], 1, Len(order))

\* As a slip would write it: only an ancestor with the smaller pid counts.
AreRelatedDownwards(left, right) == left.pid \in right.ancestry /\ left.pid < right.pid
AreRelated(left, right) ==
    \/ left.pid \in right.ancestry \/ right.pid \in left.ancestry
    \/ left.ppid = right.pid \/ right.ppid = left.pid

PidsOf(bucket) == {bucket[i].pid : i \in DOMAIN bucket}

ContainsParentChild(bucket) ==
    \E i, j \in DOMAIN bucket : i # j /\ AreRelated(bucket[i], bucket[j])

MixedContainers(bucket) ==
    Cardinality({bucket[i].prog.container : i \in DOMAIN bucket} \ {NoText}) > 1

\* Worker pools are meant to run the same program many times.
IsIntentionalWorker(proc, table) ==
    \/ proc.prog.worker
    \/ proc.prog.initWorker /\ proc.ppid = InitPid
    \/ proc.ppid \in DOMAIN table /\ table[proc.ppid].prog.clusterMaster

-----------------------------------------------------------------------------
(* Pair scores                                                             *)

Points(condition, n) == IF condition THEN n ELSE 0

Delta(a, b) == IF a > b THEN a - b ELSE b - a

\* The entry point and the parent count for a pair, ancestry, a shared unit
\* and different containers against it.
PairScore(left, right) ==
    LET l == left.prog
        r == right.prog
        similar == ArgSimilarity(l.args, r.args)
        age == Delta(left.start, right.start)
        sum ==
            Points(l.exec = r.exec, 30)
          + Points(l.cwd # NoText /\ r.cwd # NoText /\ CwdSimilarity(l.cwd, r.cwd) > 88, 25)
          + Points(similar > 75, IF similar >= 90 THEN 25 ELSE 18)
          + Points(l.ports \cap r.ports # {}, 10)
          + Points(left.ppid # 0 /\ left.ppid = right.ppid, 10)
          + Points(l.script # NoText /\ l.script = r.script, 10)
          - Points(AreRelated(left, right), 45)
          - Points(l.unit # NoText /\ l.unit = r.unit, 20)
          - Points(l.container # NoText /\ r.container # NoText /\ l.container # r.container, 30)
          + Points(age <= SameStart, 5)
          - Points(age > DistantStart, 10)
    IN  IF sum < 0 THEN 0 ELSE IF sum > 99 THEN 99 ELSE sum

\* As a slip would write it: every ordered pair adds to the confidence.
BestScoreSummed(bucket) ==
    FoldLeft(LAMBDA n, p : n + PairScore(bucket[1], p), 0, Tail(bucket))
BestScore(bucket) ==
    Max({PairScore(bucket[p[1]], bucket[p[2]]) :
            p \in {q \in (DOMAIN bucket) \X (DOMAIN bucket) : q[1] # q[2]}})

-----------------------------------------------------------------------------
(* The stages.  A stage goes over its buckets, in order of first           *)
(* appearance, and hands on the set of pids dealt with, the suppression    *)
(* set and the groups found.                                               *)

SuppressionKey(fp, bucket) == << fp, PidsOf(bucket) >>

\* What processes are put into buckets by.
Fingerprints(list) == [i \in DOMAIN list |-> list[i].prog.fp]
FuzzyFingerprints(list) == [i \in DOMAIN list |-> list[i].prog.ffp]
EntryPoints(list) == [i \in DOMAIN list |-> << list[i].prog.exec, list[i].prog.cwd, list[i].prog.script >>]

\* Indices at which a key shows up for the first time.
FirstSeen(keys) == InOrder({i \in DOMAIN keys : \A j \in 1..(i - 1) : keys[j] # keys[i]})

\* The bucket of the i-th process.
Bucket(list, keys, i) == Picked(list, {j \in DOMAIN list : keys[j] = keys[i]})

\* Reports the bucket unless the same members were reported recently.
\* As slips would write it: the answer is taken and the updated set is lost,
\* or the set is asked about the fingerprint alone.
ReportForgetful(state, fp, bucket, confidence) ==
    LET asked == SeenRecently(state.suppressed, SuppressionKey(fp, bucket), now,
                              SuppressionTTL, MaxTracked)
    IN  IF asked.seen THEN state
        ELSE [state EXCEPT
                !.groups = Append(@, [fp |-> fp, confidence |-> confidence,
                                      members |-> bucket])]
ReportByFingerprint(state, fp, bucket, confidence) ==
    LET asked == SeenRecently(state.suppressed, << fp, {} >>, now, SuppressionTTL, MaxTracked)
    IN  IF asked.seen THEN [state EXCEPT !.suppressed = asked.items]
        ELSE [state EXCEPT
                !.suppressed = asked.items,
                !.groups = Append(@, [fp |-> fp, confidence |-> confidence,
                                      members |-> bucket])]
Report(state, fp, bucket, confidence) ==
    LET asked == SeenRecently(state.suppressed, SuppressionKey(fp, bucket), now,
                              SuppressionTTL, MaxTracked)
    IN  IF asked.seen THEN [state EXCEPT !.suppressed = asked.items]
        ELSE [state EXCEPT
                !.suppressed = asked.items,
                !.groups = Append(@, [fp |-> fp, confidence |-> confidence,
                                      members |-> bucket])]

Reported(state) == UNION {PidsOf(state.groups[i].members) : i \in DOMAIN state.groups}

ExactBucket(candidates, state, i) ==
    LET bucket == Bucket(candidates, Fingerprints(candidates), i)
    IN  IF Len(bucket) < 2 \/ MixedContainers(bucket) \/ ContainsParentChild(bucket)
        THEN state
        ELSE Report([state EXCEPT !.seen = @ \cup PidsOf(bucket)],
                    candidates[i].prog.fp, bucket, 99)

ExactStage(candidates, state) ==
    LET order == FirstSeen(Fingerprints(candidates))
        after[n \in 0..Len(order)] ==
            IF n = 0 THEN state ELSE ExactBucket(candidates, after[n - 1], order[n])
    IN  after[Len(order)]

FuzzyBucket(unseen, state, i) ==
    LET bucket == Bucket(unseen, FuzzyFingerprints(unseen), i)
        best   == BestScore(bucket)
    IN  IF Len(bucket) < 2 THEN state
        ELSE IF best < Threshold THEN state
        ELSE Report(state, unseen[i].prog.ffp, bucket, best)

\* As a slip would write it: the exact stage's pids are not passed over.
UnseenAll(candidates, seen) == candidates
Unseen(candidates, seen) ==
    Picked(candidates, {i \in DOMAIN candidates : candidates[i].pid \notin seen})

FuzzyStage(candidates, state) ==
    LET unseen == Unseen(candidates, state.seen)
        order  == FirstSeen(FuzzyFingerprints(unseen))
        after[n \in 0..Len(order)] ==
            IF n = 0 THEN state ELSE FuzzyBucket(unseen, after[n - 1], order[n])
    IN  after[Len(order)]

\* The processes to the right of the i-th that it is a near duplicate of.
NearRights(bucket, i, consumed) ==
    Picked(bucket, {j \in (i + 1)..Len(bucket) : /\ bucket[j].pid \notin consumed
                                                 /\ ~AreRelated(bucket[i], bucket[j])
                                                 /\ PairScore(bucket[i], bucket[j]) >= Threshold})

\* The i-th process of a bucket collects the near duplicates to its right.
NearGroup(bucket, state, i) ==
    LET rights  == NearRights(bucket, i, Reported(state))
        members == << bucket[i] >> \o rights
    IN  IF bucket[i].pid \in Reported(state) \/ rights = << >> \/ MixedContainers(members)
        THEN state
        ELSE Report(state, bucket[i].prog.ffp, members,
                    Max({PairScore(bucket[i], rights[j]) : j \in DOMAIN rights}))

NearBucket(bucket, state) ==
    LET after[i \in 0..Len(bucket)] ==
            IF i = 0 THEN state ELSE NearGroup(bucket, after[i - 1], i)
    IN  after[Len(bucket)]

NearStage(candidates, state) ==
    LET rest  == Unseen(candidates, state.seen \cup Reported(state))
        keys  == EntryPoints(rest)
        order == FirstSeen(keys)
        after[n \in 0..Len(order)] ==
            IF n = 0 THEN state ELSE NearBucket(Bucket(rest, keys, order[n]), after[n - 1])
    IN  after[Len(order)]

-----------------------------------------------------------------------------
(* detect                                                                  *)

\* _restart_loop_fingerprints: every start is shown to the tracker, and a
\* fingerprint that ever reaches the threshold in this pass is in a loop.
RestartLoops(procsSeq) ==
    LET step(acc, proc) ==
            LET seen == Observe(acc.starts, proc.prog.fp, proc.start, RestartWindow, MaxTracked)
            IN  [starts |-> seen.starts,
                 loops  |-> IF seen.count >= RestartThreshold
                            THEN acc.loops \cup {proc.prog.fp} ELSE acc.loops]
    IN  FoldLeft(step, [starts |-> starts, loops |-> {}], procsSeq)

Detection(table) ==
    LET snapshots == Snapshots(table)
        tracked   == RestartLoops(snapshots)
        candidates ==
            Picked(snapshots, {i \in DOMAIN snapshots : /\ ~IsIntentionalWorker(snapshots[i], table)
                                                        /\ ~snapshots[i].prog.allowlisted
                                                        /\ snapshots[i].prog.fp \notin tracked.loops})
        fresh == [seen |-> {}, suppressed |-> suppressed, groups |-> << >>]
        final == NearStage(candidates, FuzzyStage(candidates, ExactStage(candidates, fresh)))
    IN  [groups |-> final.groups, suppressed |-> final.suppressed,
         starts |-> tracked.starts, loops |-> tracked.loops, candidates |-> candidates]

KeyOf(group) == SuppressionKey(group.fp, group.members)

Idle == [groups |-> << >>, loops |-> {}, candidates |-> << >>]

Init ==
    /\ procs \in {<< >>} \cup {[p \in {PidOrder[1]} |-> [prog |-> d, start |-> 0, ppid |-> InitPid]] :
                                 d \in Daemons}
    /\ now = 0
    /\ suppressed = << >>
    /\ starts = << >>
    /\ result = Idle
    /\ reported = << >>
    /\ started = Cardinality(DOMAIN procs)
    /\ exited = {}

Detect ==
    LET d == Detection(procs)
        keys == {KeyOf(d.groups[i]) : i \in DOMAIN d.groups}
    IN  /\ suppressed' = d.suppressed
        /\ starts' = d.starts
        /\ result' = [groups |-> d.groups, loops |-> d.loops, candidates |-> d.candidates]
        /\ reported' = [k \in DOMAIN reported \cup keys |->
                            IF k \in keys THEN now ELSE reported[k]]
        /\ UNCHANGED << procs, now, started, exited >>

\* Pids are handed out in order; once processes have exited and the numbers
\* may have wrapped around, any free one may come next.
NextPids ==
    IF exited = {} THEN {PidOrder[i] : i \in (DOMAIN PidOrder) \cap {started + 1}}
    ELSE Pids \ DOMAIN procs

\* The host: processes start (under init or under a live parent) and exit,
\* orphans are handed to init, and pids are reused.
Start(pid, prog, ppid) ==
    /\ started < MaxStarts
    /\ started' = started + 1
    /\ pid \in NextPids
    /\ ppid \in {InitPid} \cup DOMAIN procs
    /\ procs' = [p \in DOMAIN procs \cup {pid} |->
                    IF p = pid THEN [prog |-> prog, start |-> now, ppid |-> ppid] ELSE procs[p]]
    /\ result' = Idle
    /\ UNCHANGED << now, suppressed, starts, reported, exited >>

Exit(pid) ==
    /\ pid \in DOMAIN procs
    /\ procs' = [p \in DOMAIN procs \ {pid} |->
                    IF procs[p].ppid = pid THEN [procs[p] EXCEPT !.ppid = InitPid] ELSE procs[p]]
    /\ exited' = exited \cup {procs[pid].prog.fp}
    /\ result' = Idle
    /\ UNCHANGED << now, suppressed, starts, reported, started >>

Pass ==
    /\ now < Horizon
    /\ now' = now + 1
    /\ result' = Idle
    /\ UNCHANGED << procs, suppressed, starts, reported, started, exited >>

Next ==
    \/ Detect
    \/ \E pid \in Pids, prog \in Programs, ppid \in Pids \cup {InitPid} : Start(pid, prog, ppid)
    \/ \E pid \in Pids : Exit(pid)
    \/ Pass

Spec == Init /\ [][Next]_vars

-----------------------------------------------------------------------------
(* Properties                                                              *)

Groups == {result.groups[i] : i \in DOMAIN result.groups}

TypeOK ==
    /\ DOMAIN procs \subseteq Pids
    /\ \A p \in DOMAIN procs :
          procs[p] \in [prog : Programs \cup Daemons, start : 0..now, ppid : {InitPid} \cup Pids]
    /\ \A i \in DOMAIN suppressed : suppressed[i].at \in 0..now
    /\ \A g \in Groups : Len(g.members) > 1 /\ g.confidence \in (Threshold..99) \cup {99}

\* The three stages never put a process into two groups of one cycle
\* (seen_pids, emitted_pids and consumed hand over correctly).
GroupsAreDisjoint ==
    \A i, j \in DOMAIN result.groups :
        i # j => PidsOf(result.groups[i].members) \cap PidsOf(result.groups[j].members) = {}

\* The same members are not reported again while their first report is
\* inside the suppression window, whatever else was asked in between.
NoRepeatInsideWindow ==
    [][\A g \in Groups' :
          KeyOf(g) \in DOMAIN reported => now - reported[KeyOf(g)] > SuppressionTTL]_vars

\* No group consists of one lineage only: some two of its members are not
\* ancestor and descendant, so a program that forks itself is not reported.
LineageIsNotDuplicate ==
    \A g \in Groups : \E i, j \in DOMAIN g.members :
        /\ i # j
        /\ g.members[i].pid \notin g.members[j].ancestry
        /\ g.members[j].pid \notin g.members[i].ancestry

\* Suppression only ever hides what was reported: after a cycle, two
\* candidates of one fingerprint that neither containers nor ancestry set
\* apart belong to some group that has been reported.
DuplicatesWereReported ==
    \A i, j \in DOMAIN result.candidates :
        LET bucket == Bucket(result.candidates, Fingerprints(result.candidates), i)
        IN  /\ i # j
            /\ result.candidates[i].prog.fp = result.candidates[j].prog.fp
            /\ ~MixedContainers(bucket) /\ ~ContainsParentChild(bucket)
            => SuppressionKey(result.candidates[i].prog.fp, bucket) \in DOMAIN reported

\* The restart loops of a cycle did restart: "Track PID reuse/restarts by
\* stable fingerprint." (runtime_state.py:44).  The code does not keep this:
\* see the run detector_loops_restart.
LoopsRestarted == result.loops \subseteq exited
=============================================================================
