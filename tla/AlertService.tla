----------------------------- MODULE AlertService -----------------------------
(***************************************************************************)
(* app/services/alert_service.py over the alerts table of                  *)
(* app/database/repository.py.  The cooldown stamps live in the memory of  *)
(* one scanner process and are measured on the monotonic clock, which      *)
(* starts at the boot of the host; the table outlives both.                *)
(***************************************************************************)
EXTENDS Integers, Sequences

CONSTANTS
    AlertKeys,    \* what emit() hashes: type, severity, pid, fingerprint, message
    Cooldown,     \* cooldown_seconds, in ticks
    FirstUptime,  \* monotonic clock when the scanner first starts
    Horizon,      \* bound on the monotonic clock
    MaxEpochs,    \* bound on scanner starts
    MaxFaults     \* bound on failing writes

ASSUME AlertServiceAssumption ==
    /\ Cooldown \in Nat \ {0}
    /\ Horizon \in Nat
    /\ FirstUptime \in 0..Horizon
    /\ MaxEpochs \in Nat \ {0}
    /\ MaxFaults \in Nat

VARIABLES
    uptime,        \* time.monotonic()
    epoch,         \* which incarnation of the scanner process runs
    lastEmitted,   \* _last_emitted; 0 for a key it does not hold
    alerts,        \* alerts table, in insertion order
    faults,        \* writes that have failed so far
    asked          \* history: the last emit() call, [key, outcome]

alertVars == << uptime, epoch, lastEmitted, alerts, faults, asked >>

Outcomes == {"none", "cooling", "written", "failed"}

Alert == [key : AlertKeys, at : 0..Horizon, epoch : 1..MaxEpochs, resolved : BOOLEAN]

TypeOK ==
    /\ uptime \in 0..Horizon
    /\ epoch \in 1..MaxEpochs
    /\ lastEmitted \in [AlertKeys -> 0..Horizon]
    /\ alerts \in Seq(Alert)
    /\ faults \in 0..MaxFaults
    /\ asked \in [key : AlertKeys, outcome : Outcomes]

Init ==
    /\ uptime = FirstUptime
    /\ epoch = 1
    /\ lastEmitted = [k \in AlertKeys |-> 0]
    /\ alerts = << >>
    /\ faults = 0
    /\ asked \in [key : AlertKeys, outcome : {"none"}]

-----------------------------------------------------------------------------
(* emit                                                                    *)

Cooling(key) == uptime - lastEmitted[key] < Cooldown

Row(key) == [key |-> key, at |-> uptime, epoch |-> epoch, resolved |-> FALSE]

EmitCooling(key) ==
    /\ Cooling(key)
    /\ asked' = [key |-> key, outcome |-> "cooling"]
    /\ UNCHANGED << uptime, epoch, lastEmitted, alerts, faults >>

\* A slip the code avoids: no stamp.
EmitWrittenUnstamped(key) ==
    /\ ~Cooling(key)
    /\ alerts' = Append(alerts, Row(key))
    /\ asked' = [key |-> key, outcome |-> "written"]
    /\ UNCHANGED << uptime, epoch, lastEmitted, faults >>

\* The stamp comes first, the row second.
EmitWritten(key) ==
    /\ ~Cooling(key)
    /\ lastEmitted' = [lastEmitted EXCEPT ![key] = uptime]
    /\ alerts' = Append(alerts, Row(key))
    /\ asked' = [key |-> key, outcome |-> "written"]
    /\ UNCHANGED << uptime, epoch, faults >>

\* add_alert raises (a locked or full database): the exception leaves emit()
\* after the stamp has been set.
EmitFailed(key) ==
    /\ ~Cooling(key)
    /\ faults < MaxFaults
    /\ faults' = faults + 1
    /\ lastEmitted' = [lastEmitted EXCEPT ![key] = uptime]
    /\ asked' = [key |-> key, outcome |-> "failed"]
    /\ UNCHANGED << uptime, epoch, alerts >>

Emit(key) == EmitCooling(key) \/ EmitWritten(key) \/ EmitFailed(key)

-----------------------------------------------------------------------------

\* A slip the code avoids: acknowledging twice opens the row again.
ResolveToggles(i) ==
    /\ i \in DOMAIN alerts
    /\ alerts' = [alerts EXCEPT ![i].resolved = ~@]
    /\ UNCHANGED << uptime, epoch, lastEmitted, faults, asked >>

\* resolve_alert: the operator acknowledges a row.
Resolve(i) ==
    /\ i \in DOMAIN alerts
    /\ alerts' = [alerts EXCEPT ![i].resolved = TRUE]
    /\ UNCHANGED << uptime, epoch, lastEmitted, faults, asked >>

Pass ==
    /\ uptime < Horizon
    /\ uptime' = uptime + 1
    /\ UNCHANGED << epoch, lastEmitted, alerts, faults, asked >>

\* The scanner process is started anew: a new AlertService with no stamps.
\* After a reboot the monotonic clock starts again as well.
Restart(clock) ==
    /\ epoch < MaxEpochs
    /\ epoch' = epoch + 1
    /\ uptime' = clock
    /\ lastEmitted' = [k \in AlertKeys |-> 0]
    /\ UNCHANGED << alerts, faults, asked >>

Next ==
    \/ \E key \in AlertKeys : Emit(key)
    \/ \E i \in DOMAIN alerts : Resolve(i)
    \/ Pass
    \/ Restart(uptime)
    \/ Restart(0)

Spec == Init /\ [][Next]_alertVars

-----------------------------------------------------------------------------
(* Properties                                                              *)

\* Two rows of one key written by one incarnation of the scanner are at least
\* a cooldown apart, whatever was acknowledged, failed or cooled in between.
RowsAreSpaced ==
    \A i, j \in DOMAIN alerts :
        /\ i < j
        /\ alerts[i].key = alerts[j].key
        /\ alerts[i].epoch = alerts[j].epoch
        => alerts[j].at - alerts[i].at >= Cooldown

\* The table is an append-only log in which only the resolved flag of a row
\* changes, and only from FALSE to TRUE: neither emit nor a restart rewrites
\* what an operator has acknowledged.
LogOnlyGrows ==
    [][/\ Len(alerts') >= Len(alerts)
       /\ \A i \in DOMAIN alerts :
             /\ [alerts'[i] EXCEPT !.resolved = FALSE] = [alerts[i] EXCEPT !.resolved = FALSE]
             /\ alerts[i].resolved => alerts'[i].resolved]_alertVars

\* "Persist an alert unless an equivalent alert is cooling down."
\* (alert_service.py:28): a call that declines to write has an equivalent row
\* younger than the cooldown in the table.  The code does not keep this in the
\* first cooldown after boot, when every key without a stamp looks recently
\* emitted (run alerts_after_boot), nor after a write that failed.
DeclinedMeansPersisted ==
    [][asked'.outcome = "cooling" /\ asked' # asked
       => \E i \in DOMAIN alerts :
             /\ alerts[i].key = asked'.key
             /\ alerts[i].epoch = epoch
             /\ uptime - alerts[i].at < Cooldown]_alertVars
=============================================================================
