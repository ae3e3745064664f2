------------------------------- MODULE ScanCycle -------------------------------
(***************************************************************************)
(* The scan loop of app/services/process_service.py under the two things   *)
(* that keep it alive: the dashboard's _run_scanner (app/web/app.py),      *)
(* which runs the same service object again after a crash, and systemd,    *)
(* which starts a new process.  A cycle goes through its stages in order,  *)
(* any stage that touches the host or the database may raise, and what the *)
(* earlier stages have done then stays done.                               *)
(*                                                                         *)
(* Time is relative: every stamp is minus its age, the present is 0, and   *)
(* an age beyond its limit no longer grows, so that time has no bound.     *)
(***************************************************************************)
EXTENDS RuntimeState

CONSTANTS
    Groups,        \* duplicate groups the host can show: fingerprint and pids
    TTL,           \* suppression_window_seconds, in ticks
    Cooldown,      \* cooldown_seconds of the alert service, in ticks
    Maintenance,   \* maintenance_interval_seconds, in ticks
    MaxTracked,    \* max_size of the suppression set
    MaxFaults      \* bound on stages that raise and on processes killed

ASSUME ScanCycleAssumption ==
    /\ Groups \subseteq Nat
    /\ {TTL, Cooldown, Maintenance, MaxFaults} \subseteq Nat
    /\ MaxTracked \in Nat \ {0}

VARIABLES
    runner,      \* who keeps the loop alive: "web" or "systemd"
    stopping,    \* stop() was called (and, under "web", the task cancelled)
    pc,          \* the stage the loop is in
    present,     \* the host: groups that run now
    snapshot,    \* groups in the snapshots of this cycle
    found,       \* `groups`: what detect() returns
    todo,        \* groups the running stage has still to deal with
    suppressed,  \* DuplicateDetector._suppressed
    emitted,     \* _last_emitted of the alert service, for the groups it has
    cleaned,     \* _last_cleanup_at
    filed,       \* groups with a row in duplicate_groups
    alerted,     \* groups with a duplicate alert in the alerts table
    faults       \* stages that have raised so far

memory == << suppressed, emitted, cleaned >>
tables == << filed, alerted >>
cycle  == << snapshot, found, todo >>
vars == << runner, stopping, pc, present, cycle, memory, tables, faults >>

\* A stamp older than every limit it is compared with stops ageing.
Aged(stamp, limit) == IF stamp > limit THEN stamp - 1 ELSE stamp

Stages == {"head", "scan", "detect", "upsert", "file", "maintain", "alert", "rest",
           "sleep", "crashed", "ended"}

\* A service that has just been made.  Its stamps are 0.0 on a clock that
\* counts from boot, so maintenance is due at once or after some uptime.
NewMemory == /\ suppressed' = << >> /\ emitted' = << >>
             /\ cleaned' \in {0, -(Maintenance + 1)}

Init ==
    /\ runner \in {"web", "systemd"}
    /\ stopping = FALSE /\ pc = "head"
    /\ present \in SUBSET Groups
    /\ snapshot = {} /\ found = {} /\ todo = {}
    /\ suppressed = << >> /\ emitted = << >> /\ cleaned \in {0, -(Maintenance + 1)}
    /\ filed = {} /\ alerted = {} /\ faults = 0

-----------------------------------------------------------------------------
(* The stages                                                              *)

Goto(stage) == pc' = stage

\* Groups are gone through in the order of their pids: g comes next.
IsNext(g) == g \in todo /\ \A h \in todo : g <= h

\* A slip the code avoids: the loop does not look at the flag.
LoopHeadBlind ==
    /\ pc = "head"
    /\ Goto("scan")
    /\ UNCHANGED << runner, stopping, present, cycle, memory, tables, faults >>

\* while not self._stop.is_set()
LoopHead ==
    /\ pc = "head"
    /\ Goto(IF stopping THEN "ended" ELSE "scan")
    /\ UNCHANGED << runner, stopping, present, cycle, memory, tables, faults >>

Scan ==
    /\ pc = "scan"
    /\ snapshot' = present /\ todo' = present
    /\ Goto("detect")
    /\ UNCHANGED << runner, stopping, present, found, memory, tables, faults >>

\* detect() asks the suppression set about every group it comes upon.
DetectNext(g) ==
    /\ pc = "detect" /\ IsNext(g)
    /\ LET asked == SeenRecently(suppressed, g, 0, TTL, MaxTracked)
       IN  /\ suppressed' = asked.items
           /\ found' = IF asked.seen THEN found ELSE found \cup {g}
    /\ todo' = todo \ {g}
    /\ UNCHANGED << runner, stopping, pc, present, snapshot, emitted, cleaned, tables, faults >>

Detected ==
    /\ pc = "detect" /\ todo = {}
    /\ Goto("upsert")
    /\ UNCHANGED << runner, stopping, present, cycle, memory, tables, faults >>

Upsert ==
    /\ pc = "upsert"
    /\ Goto("file")
    /\ UNCHANGED << runner, stopping, present, cycle, memory, tables, faults >>

\* add_duplicate_groups, one transaction for all of them.
File ==
    /\ pc = "file"
    /\ filed' = filed \cup found
    /\ todo' = found
    /\ Goto("maintain")
    /\ UNCHANGED << runner, stopping, present, snapshot, found, memory, alerted, faults >>

\* The stamp of a maintenance that raised is not set.
Maintain ==
    /\ pc = "maintain"
    /\ cleaned' = IF -cleaned > Maintenance THEN 0 ELSE cleaned
    /\ Goto("alert")
    /\ UNCHANGED << runner, stopping, present, cycle, suppressed, emitted, tables, faults >>

\* A key without a stamp counts from the clock's zero, long ago on a host that
\* has been up for a cooldown.
Cooling(g) == g \in DOMAIN emitted /\ -emitted[g] < Cooldown

Stamped(g) == [k \in DOMAIN emitted \cup {g} |-> IF k = g THEN 0 ELSE emitted[k]]

\* emit() for each group found.
AlertNext(g) ==
    /\ pc = "alert" /\ IsNext(g)
    /\ IF Cooling(g)
       THEN UNCHANGED << emitted, alerted >>
       ELSE emitted' = Stamped(g) /\ alerted' = alerted \cup {g}
    /\ todo' = todo \ {g}
    /\ UNCHANGED << runner, stopping, pc, present, snapshot, found, suppressed, cleaned, filed, faults >>

AlertsDone ==
    /\ pc = "alert" /\ todo = {}
    /\ Goto("rest")
    /\ UNCHANGED << runner, stopping, present, cycle, memory, tables, faults >>

\* Units, resource and security alerts, metrics.
Rest ==
    /\ pc = "rest"
    /\ Goto("sleep")
    /\ UNCHANGED << runner, stopping, present, cycle, memory, tables, faults >>

\* A slip the code avoids: the groups of one cycle are carried into the next.
WakeKeepsGroups ==
    /\ pc = "sleep"
    /\ Goto(IF stopping /\ runner = "web" THEN "ended" ELSE "head")
    /\ snapshot' = {}
    /\ UNCHANGED << runner, stopping, present, found, todo, memory, tables, faults >>

\* The wait ends after scan_interval, or as soon as stop() is called; a
\* cancelled task does not get to look at the flag again.
Wake ==
    /\ pc = "sleep"
    /\ Goto(IF stopping /\ runner = "web" THEN "ended" ELSE "head")
    /\ snapshot' = {} /\ found' = {}
    /\ UNCHANGED << runner, stopping, present, todo, memory, tables, faults >>

-----------------------------------------------------------------------------
(* Failure, restart, stop                                                  *)

Fault(kept) ==
    /\ faults < MaxFaults
    /\ faults' = faults + 1
    /\ kept
    /\ snapshot' = {} /\ found' = {} /\ todo' = {}
    /\ Goto("crashed")
    /\ UNCHANGED << runner, stopping, present, suppressed, cleaned, tables >>

\* A slip the code avoids: an error while groups are filed is swallowed.
StageRaisesSwallowed ==
    \/ pc \in {"scan", "upsert", "rest"} /\ Fault(UNCHANGED emitted)
    \/ /\ pc = "file" /\ faults < MaxFaults
       /\ faults' = faults + 1
       /\ todo' = found
       /\ Goto("maintain")
       /\ UNCHANGED << runner, stopping, present, snapshot, found, memory, tables >>

\* A stage raises; nothing of its own transaction is kept.
StageRaises == pc \in {"scan", "upsert", "file", "rest"} /\ Fault(UNCHANGED emitted)

MaintainRaises == pc = "maintain" /\ -cleaned > Maintenance /\ Fault(UNCHANGED emitted)

\* add_alert raises when the stamp is already set.
AlertRaises(g) ==
    /\ pc = "alert" /\ IsNext(g) /\ ~Cooling(g)
    /\ Fault(emitted' = Stamped(g))

\* The process is killed: out of memory, or RuntimeMaxSec.
Killed == pc \notin {"crashed", "ended"} /\ runner = "systemd" /\ Fault(UNCHANGED emitted)

\* _run_scanner sleeps and runs the same service again; systemd starts the
\* program anew.
Restart ==
    /\ pc = "crashed" /\ ~stopping
    /\ Goto("head")
    /\ IF runner = "web" THEN UNCHANGED memory ELSE NewMemory
    /\ UNCHANGED << runner, stopping, present, cycle, tables, faults >>

Stop ==
    /\ ~stopping
    /\ stopping' = TRUE
    /\ UNCHANGED << runner, pc, present, cycle, memory, tables, faults >>

\* Nothing is restarted once it is to stop, and a cancelled task ends where it
\* awaits its scan.
Cease ==
    /\ stopping
    /\ pc = "crashed" \/ (pc = "scan" /\ runner = "web")
    /\ Goto("ended")
    /\ UNCHANGED << runner, stopping, present, cycle, memory, tables, faults >>

-----------------------------------------------------------------------------
(* The host and its clock                                                  *)

Change(g) ==
    /\ pc # "ended"
    /\ present' = (present \ {g}) \cup ({g} \ present)
    /\ UNCHANGED << runner, stopping, pc, cycle, memory, tables, faults >>

Pass ==
    /\ pc # "ended"
    /\ suppressed' = [i \in DOMAIN suppressed |-> [suppressed[i] EXCEPT !.at = Aged(@, -(TTL + 1))]]
    /\ emitted' = [g \in DOMAIN emitted |-> Aged(emitted[g], -Cooldown)]
    /\ cleaned' = Aged(cleaned, -(Maintenance + 1))
    /\ UNCHANGED << runner, stopping, pc, present, cycle, tables, faults >>

Loop ==
    \/ LoopHead \/ Scan \/ Detected \/ Upsert \/ File \/ Maintain
    \/ AlertsDone \/ Rest \/ Wake \/ Restart \/ Cease
    \/ \E g \in Groups : DetectNext(g) \/ AlertNext(g)

Next ==
    \/ Loop
    \/ StageRaises \/ MaintainRaises \/ Killed
    \/ Stop \/ Pass
    \/ \E g \in Groups : AlertRaises(g) \/ Change(g)

\* The loop is scheduled and time passes.  Nothing has to fail, change or stop.
Spec == Init /\ [][Next]_vars /\ WF_vars(Loop) /\ WF_vars(Pass)

-----------------------------------------------------------------------------
(* Properties                                                              *)

TypeOK ==
    /\ pc \in Stages
    /\ \A i \in DOMAIN suppressed : suppressed[i].key \in Groups /\ suppressed[i].at \in -(TTL + 1)..0
    /\ DOMAIN emitted \subseteq Groups /\ \A g \in DOMAIN emitted : emitted[g] \in -Cooldown..0
    /\ cleaned \in -(Maintenance + 1)..0
    /\ found \subseteq snapshot
    /\ todo \subseteq (IF pc = "detect" THEN snapshot ELSE found)

\* The operator who follows a duplicate alert finds its group under
\* /duplicates, whichever stage raised and whoever restarted the loop.
AlertsHaveGroups == alerted \subseteq filed

\* A duplicate that lasts is filed and alerted in the end: a report that was
\* suppressed, but whose cycle raised before it was written, is made again
\* once the window has passed.
LastingDuplicatesAreReported ==
    \A g \in Groups :
        (<>[](g \in present) /\ []~stopping) => <>(g \in filed /\ g \in alerted)

\* A loop told to stop ends, from whatever stage, restart pause or crash.
StopEnds == stopping ~> pc = "ended"
=============================================================================
