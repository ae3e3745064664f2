----------------------------- MODULE KillWorkflow -----------------------------
(***************************************************************************)
(* The kill buttons of the dashboard: kill one process and kill an app     *)
(* (app/web/routes/processes.py), and kill the extras of a duplicate group *)
(* (app/web/routes/duplicates.py).  Handlers run in a thread pool and act  *)
(* on pids read from a table that trails the host by up to 30 seconds,     *)
(* while the scanner refreshes it, processes exit, and pids are used again.*)
(***************************************************************************)
EXTENDS Listing, SequencesExt

CONSTANTS
    Handlers,      \* threads that serve kill requests
    Pids,
    Programs,      \* what runs on the host; one program is one app and one fingerprint
    Untouchable,   \* programs the dashboard's user may not signal
    StaleScans,    \* scans a dead process's row outlives it (30 s / scan_interval)
    MaxStarts,     \* bound on processes started
    MaxRequests,   \* bound on kill requests
    MaxMishaps     \* bound on exits nobody asked for and failing kill log writes

ASSUME KillAssumption ==
    /\ Pids \subseteq Nat \ {0} /\ IsFiniteSet(Pids)
    /\ IsFiniteSet(Programs)
    /\ Untouchable \subseteq Programs
    /\ StaleScans \in Nat
    /\ {MaxStarts, MaxRequests, MaxMishaps} \subseteq Nat

VARIABLES
    procs,     \* the host: pid -> [prog, born]; born stands for the start time
    started,   \* processes started so far, the next `born`
    rows,      \* processes table: pid -> [prog, born, age]
    groups,    \* duplicate_groups: [prog, pids, who, resolved]
    log,       \* kill log: [pid, born]
    sent,      \* history: the signals delivered, in order, [to, pid, sig, by, group]
    job,       \* what each handler is doing
    requests,  \* kill requests so far
    mishaps    \* unsolicited exits and failed kill log writes so far

hostVars == << procs, started >>
tableVars == << rows, groups >>
vars == << hostVars, tableVars, log, sent, job, requests, mishaps >>

Idle == [kind |-> "idle", pc |-> "idle", group |-> 0, todo |-> << >>,
         members |-> << >>, proc |-> [pid |-> 0, born |-> 0]]

Init ==
    /\ procs = << >> /\ started = 0
    /\ rows = << >> /\ groups = << >>
    /\ log = << >> /\ sent = << >>
    /\ job = [h \in Handlers |-> Idle]
    /\ requests = 0 /\ mishaps = 0

Without(f, x) == [y \in DOMAIN f \ {x} |-> f[y]]
With(f, x, v) == [y \in DOMAIN f \cup {x} |-> IF y = x THEN v ELSE f[y]]

-----------------------------------------------------------------------------
(* The host                                                                *)

\* Pids are handed out upwards, and again only once they have wrapped around.
Start(pid, prog) ==
    /\ pid \notin DOMAIN procs
    /\ started < Cardinality(Pids) => Cardinality({p \in Pids : p < pid}) = started
    /\ started < MaxStarts
    /\ started' = started + 1
    /\ procs' = With(procs, pid, [prog |-> prog, born |-> started + 1])
    /\ UNCHANGED << tableVars, log, sent, job, requests, mishaps >>

Exit(pid) ==
    /\ pid \in DOMAIN procs
    /\ mishaps < MaxMishaps
    /\ mishaps' = mishaps + 1
    /\ procs' = Without(procs, pid)
    /\ UNCHANGED << started, tableVars, log, sent, job, requests >>

Signalled(born) == \E s \in ToSet(sent) : s.to = born

\* A process obeys a signal sooner, later or never: SIGTERM can be ignored, and
\* SIGKILL has to wait while the process sleeps in the kernel.
Obey(pid) ==
    /\ pid \in DOMAIN procs
    /\ Signalled(procs[pid].born)
    /\ procs' = Without(procs, pid)
    /\ UNCHANGED << started, tableVars, log, sent, job, requests, mishaps >>

-----------------------------------------------------------------------------
(* The scanner: upsert_processes, then add_duplicate_groups.               *)

\* Rows of live pids are rewritten in place, whatever ran there before; the
\* others go once they have not been seen for StaleScans scans.
Upserted ==
    [pid \in DOMAIN procs \cup {p \in DOMAIN rows : rows[p].age < StaleScans} |->
        IF pid \in DOMAIN procs
        THEN [prog |-> procs[pid].prog, born |-> procs[pid].born, age |-> 0]
        ELSE [rows[pid] EXCEPT !.age = @ + 1]]

Instances(prog) == {p \in DOMAIN procs : procs[p].prog = prog}

\* A group row names pids only.
NewGroups ==
    LET fresh == {prog \in Programs :
                    /\ Cardinality(Instances(prog)) > 1
                    /\ ~\E i \in DOMAIN groups :
                          groups[i].prog = prog /\ groups[i].pids = Instances(prog)}
    IN  SetToSeq({[prog |-> prog, pids |-> Instances(prog),
                   who |-> {procs[p].born : p \in Instances(prog)},
                   resolved |-> FALSE] : prog \in fresh})

Scan ==
    /\ rows' = Upserted
    /\ groups' = groups \o NewGroups
    /\ UNCHANGED << hostVars, log, sent, job, requests, mishaps >>

-----------------------------------------------------------------------------
(* Signals and the kill log                                                *)

\* What a signal to a pid does depends on who has the pid now.
Live(pid) == pid \in DOMAIN procs
Denied(pid) == Live(pid) /\ procs[pid].prog \in Untouchable

Deliver(h, pid, sig) ==
    /\ sent' = Append(sent, [to |-> procs[pid].born, pid |-> pid, sig |-> sig,
                             by |-> job[h].kind, group |-> job[h].group])
    /\ UNCHANGED hostVars

\* record_kill; an error while writing is swallowed.
Log(pid, born) ==
    \/ log' = Append(log, [pid |-> pid, born |-> born]) /\ UNCHANGED mishaps
    \/ mishaps < MaxMishaps /\ mishaps' = mishaps + 1 /\ UNCHANGED log

Set(h, j) == job' = [job EXCEPT ![h] = j]

Request(h, j) ==
    /\ job[h].pc = "idle"
    /\ requests < MaxRequests
    /\ requests' = requests + 1
    /\ Set(h, j)
    /\ UNCHANGED << hostVars, tableVars, log, sent, mishaps >>

-----------------------------------------------------------------------------
(* kill_extras                                                             *)

BeginExtras(h, g) ==
    /\ g \in DOMAIN groups /\ ~groups[g].resolved
    /\ Request(h, [Idle EXCEPT !.kind = "extras", !.pc = "read", !.group = g,
                               !.todo = InOrder(groups[g].pids)])

\* _resolve_group_members: one query for each pid.
ReadMember(h) ==
    /\ job[h].pc = "read" /\ job[h].todo # << >>
    /\ LET pid == Head(job[h].todo)
       IN  Set(h, [job[h] EXCEPT
                    !.todo = Tail(@),
                    !.members = IF pid \in DOMAIN rows
                                THEN Append(@, [pid |-> pid, born |-> rows[pid].born]) ELSE @])
    /\ UNCHANGED << hostVars, tableVars, log, sent, requests, mishaps >>

\* members.sort by start time; the sort is stable.
Before(members, i, j) ==
    \/ members[i].born < members[j].born
    \/ members[i].born = members[j].born /\ i < j

ByAge(members) ==
    LET rank == CHOOSE r \in [DOMAIN members -> DOMAIN members] :
                    \A i, j \in DOMAIN members : i < j => Before(members, r[i], r[j])
    IN  [i \in DOMAIN members |-> members[rank[i]]]

\* A slip the code avoids: the members are not sorted by start time.
ChooseKeepFirst(h) ==
    /\ job[h].pc = "read" /\ job[h].todo = << >>
    /\ Set(h, IF Len(job[h].members) < 2 THEN Idle
              ELSE [job[h] EXCEPT !.pc = "signal", !.members = Tail(@)])
    /\ UNCHANGED << hostVars, tableVars, log, sent, requests, mishaps >>

\* The member with the lowest start time is kept.
ChooseKeep(h) ==
    /\ job[h].pc = "read" /\ job[h].todo = << >>
    /\ LET members == ByAge(job[h].members)
       IN  Set(h, IF Len(members) < 2 THEN Idle
                  ELSE [job[h] EXCEPT !.pc = "signal", !.members = Tail(members)])
    /\ UNCHANGED << hostVars, tableVars, log, sent, requests, mishaps >>

\* A slip the code avoids: a signal that failed is logged as well.
SignalExtraLogsAll(h) ==
    /\ job[h].pc = "signal" /\ job[h].members # << >>
    /\ LET m == Head(job[h].members)
       IN  /\ IF Live(m.pid) /\ ~Denied(m.pid)
              THEN Deliver(h, m.pid, "TERM") ELSE UNCHANGED << hostVars, sent >>
           /\ Log(m.pid, m.born)
    /\ Set(h, [job[h] EXCEPT !.members = Tail(@)])
    /\ UNCHANGED << tableVars, requests >>

\* os.kill(pid, SIGTERM), to whatever runs under the pid by now.
SignalExtra(h) ==
    /\ job[h].pc = "signal" /\ job[h].members # << >>
    /\ LET m == Head(job[h].members)
       IN  \/ /\ Live(m.pid) /\ ~Denied(m.pid)
              /\ Deliver(h, m.pid, "TERM")
              /\ Log(m.pid, m.born)
           \/ /\ ~Live(m.pid) \/ Denied(m.pid)
              /\ UNCHANGED << hostVars, sent, log, mishaps >>
    /\ Set(h, [job[h] EXCEPT !.members = Tail(@)])
    /\ UNCHANGED << tableVars, requests >>

\* A slip the code avoids: the handler is free but keeps its request.
EndExtrasHeld(h) ==
    /\ job[h].pc = "signal" /\ job[h].members = << >>
    /\ groups' = [groups EXCEPT ![job[h].group].resolved = TRUE]
    /\ Set(h, [job[h] EXCEPT !.pc = "idle"])
    /\ UNCHANGED << hostVars, rows, log, sent, requests, mishaps >>

EndExtras(h) ==
    /\ job[h].pc = "signal" /\ job[h].members = << >>
    /\ groups' = [groups EXCEPT ![job[h].group].resolved = TRUE]
    /\ Set(h, Idle)
    /\ UNCHANGED << hostVars, rows, log, sent, requests, mishaps >>

-----------------------------------------------------------------------------
(* kill_process and kill_app: the rows are read once, then _terminate_pid  *)
(* deals with one pid after the other.                                     *)

BornOf(pid) == IF pid \in DOMAIN rows THEN rows[pid].born ELSE 0

BeginSingle(h, pid) ==
    Request(h, [Idle EXCEPT !.kind = "single", !.pc = "open",
                            !.members = << [pid |-> pid, born |-> BornOf(pid)] >>])

BeginApp(h, prog) ==
    LET order == InOrder({p \in DOMAIN rows : rows[p].prog = prog})
    IN  Request(h, [Idle EXCEPT !.kind = "app", !.pc = "open",
                                !.members = [i \in DOMAIN order |->
                                    [pid |-> order[i], born |-> rows[order[i]].born]]])

Target(h) == Head(job[h].members)

\* The handler goes on to its next target, or answers the request.
Proceed(h) == Set(h, [job[h] EXCEPT !.pc = "open", !.members = Tail(@)])

Answer(h) ==
    /\ job[h].pc = "open" /\ job[h].members = << >>
    /\ Set(h, Idle)
    /\ UNCHANGED << hostVars, tableVars, log, sent, requests, mishaps >>

\* psutil.Process(pid) remembers the start time of who has the pid now.
Open(h) ==
    /\ job[h].pc = "open" /\ job[h].members # << >>
    /\ IF Live(Target(h).pid)   \* else NoSuchProcess
       THEN Set(h, [job[h] EXCEPT !.pc = "term",
                        !.proc = [pid |-> Target(h).pid, born |-> procs[Target(h).pid].born]])
       ELSE Proceed(h)
    /\ UNCHANGED << hostVars, tableVars, log, sent, requests, mishaps >>

\* psutil refuses to signal a pid that has changed hands (NoSuchProcess).
SameProcess(h) == Live(job[h].proc.pid) /\ procs[job[h].proc.pid].born = job[h].proc.born

Terminate(h) ==
    /\ job[h].pc = "term"
    /\ \/ /\ SameProcess(h) /\ ~Denied(job[h].proc.pid)
          /\ Deliver(h, job[h].proc.pid, "TERM")
          /\ Set(h, [job[h] EXCEPT !.pc = "wait"])
       \/ /\ ~SameProcess(h) \/ Denied(job[h].proc.pid)   \* NoSuchProcess, AccessDenied
          /\ Proceed(h)
          /\ UNCHANGED << hostVars, sent >>
    /\ UNCHANGED << tableVars, log, requests, mishaps >>

\* A kill is logged from the row that was read, if there was one.
LogTarget(h) ==
    IF Target(h).born # 0 THEN Log(Target(h).pid, Target(h).born) ELSE UNCHANGED << log, mishaps >>

\* wait() looks for the pid: it may or may not notice that the process is gone
\* when the pid has been used again meanwhile.
Waited(h) ==
    /\ job[h].pc = "wait" /\ ~SameProcess(h)
    /\ LogTarget(h)
    /\ Proceed(h)
    /\ UNCHANGED << hostVars, tableVars, sent, requests >>

WaitTimesOut(h) ==
    /\ job[h].pc = "wait" /\ Live(job[h].proc.pid)
    /\ Set(h, [job[h] EXCEPT !.pc = "kill"])
    /\ UNCHANGED << hostVars, tableVars, log, sent, requests, mishaps >>

\* A slip the code avoids: SIGKILL goes to the bare pid.
EscalateBarePid(h) ==
    /\ job[h].pc = "kill"
    /\ \/ /\ Live(job[h].proc.pid)
          /\ Deliver(h, job[h].proc.pid, "KILL")
          /\ LogTarget(h)
       \/ /\ ~Live(job[h].proc.pid)
          /\ UNCHANGED << hostVars, sent, log, mishaps >>
    /\ Proceed(h)
    /\ UNCHANGED << tableVars, requests >>

Escalate(h) ==
    /\ job[h].pc = "kill"
    /\ \/ /\ SameProcess(h)
          /\ Deliver(h, job[h].proc.pid, "KILL")
          /\ LogTarget(h)
       \/ /\ ~SameProcess(h)                              \* NoSuchProcess
          /\ UNCHANGED << hostVars, sent, log, mishaps >>
    /\ Proceed(h)
    /\ UNCHANGED << tableVars, requests >>

-----------------------------------------------------------------------------

Step(h) ==
    \/ ReadMember(h) \/ ChooseKeep(h) \/ SignalExtra(h) \/ EndExtras(h)
    \/ Open(h) \/ Terminate(h) \/ Waited(h) \/ WaitTimesOut(h) \/ Escalate(h) \/ Answer(h)

Ask(h) ==
    \/ \E g \in DOMAIN groups : BeginExtras(h, g)
    \/ \E pid \in Pids : BeginSingle(h, pid)
    \/ \E prog \in Programs : BeginApp(h, prog)

Next ==
    \/ \E pid \in Pids, prog \in Programs : Start(pid, prog)
    \/ \E pid \in Pids : Exit(pid) \/ Obey(pid)
    \/ Scan
    \/ \E h \in Handlers : Ask(h) \/ Step(h)

Spec == Init /\ [][Next]_vars

-----------------------------------------------------------------------------
(* Properties                                                              *)

Targets == [pid : Pids, born : 0..MaxStarts]

TypeOK ==
    /\ DOMAIN procs \subseteq Pids
    /\ \A p \in DOMAIN procs : procs[p] \in [prog : Programs, born : 1..started]
    /\ DOMAIN rows \subseteq Pids
    /\ \A p \in DOMAIN rows : rows[p].age \in 0..StaleScans
    /\ log \in Seq(Targets)
    /\ \A h \in Handlers : job[h].members \in Seq(Targets)
    /\ \A h \in Handlers : job[h].pc = "idle" <=> job[h].kind = "idle"

\* Of the processes a group was reported for, kill-extras of that group never
\* signals the oldest: no second click, scan, exit, reused pid or slow read in
\* between makes the handler pick another member to keep while the oldest runs
\* (README.md:273).
OldestIsKept ==
    \A s \in ToSet(sent) :
        s.by = "extras" /\ s.to \in groups[s.group].who
        => \E b \in groups[s.group].who : b < s.to

\* "keep_member is the oldest still-alive process" (duplicates.py:18): when
\* kill-extras signals a process, another process of its group is left that
\* runs and has not been signalled.  The code does not keep this when the
\* oldest has exited and its row lingers: see the run kill_extras_leaves_none.
AliveMemberIsKept ==
    [][\A i \in DOMAIN groups :
          sent' # sent /\ Last(sent').by = "extras" /\ Last(sent').to \in groups[i].who
          => \E p \in DOMAIN procs :
                /\ procs[p].born \in groups[i].who
                /\ \A s \in ToSet(sent') : s.to # procs[p].born]_vars

\* Escalation never changes its victim: SIGKILL goes to an incarnation of a
\* pid that the same kind of request has sent SIGTERM before, even when the
\* process exits and its pid is used again during the grace period.
KillFollowsTerm ==
    \A i \in DOMAIN sent : sent[i].sig = "KILL" =>
        \E j \in 1..(i - 1) :
            sent[j].sig = "TERM" /\ sent[j].to = sent[i].to /\ sent[j].by = sent[i].by

\* The kill log never claims more kills of a pid than signals were delivered
\* to it: denied and vanished targets are not recorded as kills.
LogClaimsNoMore ==
    \A pid \in Pids :
        Cardinality({i \in DOMAIN log : log[i].pid = pid})
            <= Cardinality({i \in DOMAIN sent : sent[i].pid = pid /\ sent[i].sig = "TERM"})
=============================================================================
