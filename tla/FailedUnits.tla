------------------------------ MODULE FailedUnits ------------------------------
(***************************************************************************)
(* ProcessService._check_failed_units with the alert service it emits      *)
(* through: systemd units fail and recover on the host while the scanner   *)
(* probes them, compares with what it knew, emits one alert per change and *)
(* only then replaces what it knew.                                        *)
(***************************************************************************)
EXTENDS AlertService, Listing

CONSTANTS
    Units,         \* systemd units, ordered as sorted() orders their names
    LastChange,    \* units change and outages happen before this tick only (bound)
    MaxChanges     \* bound on unit state changes

Kinds == {"failed", "recovered"}

\* emit() hashes the message and the fingerprint, both of which name the unit.
UnitKeys == Kinds \X Units

ASSUME FailedUnitsAssumption ==
    /\ Units \subseteq Nat /\ IsFiniteSet(Units)
    /\ AlertKeys = UnitKeys

VARIABLES
    failed,      \* units that systemd reports as failed
    changes,     \* unit state changes so far
    known,       \* _known_failed_units
    lastCheck,   \* _last_unit_check_at
    checking,    \* a check is running
    probe,       \* its `current`
    todo,        \* the alerts it has still to emit
    since        \* history: the clock when this incarnation started

hostVars == << failed, changes >>
checkVars == << known, lastCheck, checking, probe, todo, since >>
vars == << alertVars, hostVars, checkVars >>

\* A slip the code avoids: the alerts do not name their unit.
KeysUnnamed(kind, set) == [i \in 1..Cardinality(set) |-> << kind, CHOOSE u \in Units : TRUE >>]
Keys(kind, set) == [i \in 1..Cardinality(set) |-> << kind, InOrder(set)[i] >>]

UnitsInit ==
    /\ Init
    /\ failed \in SUBSET Units
    /\ changes = 0
    /\ known = {}
    /\ lastCheck = 0
    /\ checking = FALSE
    /\ probe = {}
    /\ todo = << >>
    /\ since = FirstUptime

-----------------------------------------------------------------------------
(* The host                                                                *)

Change(unit) ==
    /\ uptime < LastChange
    /\ changes < MaxChanges
    /\ changes' = changes + 1
    /\ failed' = (failed \ {unit}) \cup ({unit} \ failed)
    /\ UNCHANGED << alertVars, checkVars >>

-----------------------------------------------------------------------------
(* The check.  A tick is longer than the 30 seconds between two checks, so *)
(* at most one starts in a tick; the first is due at once.                 *)

Due == ~checking /\ uptime > lastCheck

\* The probe answers: new failures first, then recoveries, each sorted.
Probe ==
    /\ Due
    /\ lastCheck' = uptime
    /\ checking' = TRUE
    /\ probe' = failed
    /\ todo' = Keys("failed", failed \ known) \o Keys("recovered", known \ failed)
    /\ UNCHANGED << alertVars, hostVars, known, since >>

\* systemctl is missing or times out: the cycle is skipped.
ProbeFails ==
    /\ Due
    /\ uptime < LastChange
    /\ lastCheck' = uptime
    /\ UNCHANGED << alertVars, hostVars, known, checking, probe, todo, since >>

EmitNext ==
    /\ checking /\ todo # << >>
    /\ EmitCooling(Head(todo)) \/ EmitWritten(Head(todo))
    /\ todo' = Tail(todo)
    /\ UNCHANGED << hostVars, known, lastCheck, checking, probe, since >>

\* A slip the code avoids: what is known is replaced even so.
EmitRaisesAnyway ==
    /\ checking /\ todo # << >>
    /\ uptime < LastChange
    /\ EmitFailed(Head(todo))
    /\ known' = probe
    /\ checking' = FALSE
    /\ probe' = {}
    /\ todo' = << >>
    /\ UNCHANGED << hostVars, lastCheck, since >>

\* The write raises, and the exception leaves the check: what is known stays.
EmitRaises ==
    /\ checking /\ todo # << >>
    /\ uptime < LastChange
    /\ EmitFailed(Head(todo))
    /\ checking' = FALSE
    /\ probe' = {}
    /\ todo' = << >>
    /\ UNCHANGED << hostVars, known, lastCheck, since >>

\* A slip the code avoids: what is known is added to, never replaced.
FinishAccumulates ==
    /\ checking /\ todo = << >>
    /\ known' = known \cup probe
    /\ checking' = FALSE
    /\ probe' = {}
    /\ UNCHANGED << alertVars, hostVars, lastCheck, todo, since >>

Finish ==
    /\ checking /\ todo = << >>
    /\ known' = probe
    /\ checking' = FALSE
    /\ probe' = {}
    /\ UNCHANGED << alertVars, hostVars, lastCheck, todo, since >>

Check == Probe \/ EmitNext \/ Finish

\* A check takes far less than a tick.
Tick ==
    /\ ~checking
    /\ Pass
    /\ UNCHANGED << hostVars, checkVars >>

Acknowledge(i) == Resolve(i) /\ UNCHANGED << hostVars, checkVars >>

\* A new ProcessService, from the middle of a check even.
Fresh(clock) ==
    /\ Restart(clock)
    /\ known' = {}
    /\ lastCheck' = 0
    /\ checking' = FALSE
    /\ probe' = {}
    /\ todo' = << >>
    /\ since' = clock

\* The scanner process dies and systemd starts it again on the same host.
Crash == Fresh(uptime) /\ UNCHANGED hostVars

\* The host goes down and comes up with whatever units fail at boot.
Reboot == Fresh(0) /\ failed' \in SUBSET Units /\ UNCHANGED changes

UnitsNext ==
    \/ \E unit \in Units : Change(unit)
    \/ Check
    \/ ProbeFails
    \/ EmitRaises
    \/ Tick
    \/ \E i \in DOMAIN alerts : Acknowledge(i)
    \/ Crash
    \/ Reboot

\* The scan loop keeps running and time keeps passing; nothing makes a probe
\* fail for ever, a write fail, a unit change or a process crash.
UnitsSpec == UnitsInit /\ [][UnitsNext]_vars /\ WF_vars(Check) /\ WF_vars(Tick)

-----------------------------------------------------------------------------
(* Properties                                                              *)

UnitsTypeOK ==
    /\ TypeOK
    /\ failed \subseteq Units
    /\ known \subseteq Units
    /\ lastCheck \in 0..Horizon
    /\ checking \in BOOLEAN
    /\ probe \subseteq Units
    /\ todo \in Seq(Kinds \X Units)
    /\ since \in 0..Horizon

\* A scanner started on a host that had been up for a cooldown takes a unit
\* for known, or calls it recovered, only after it put the failure to the
\* alert service itself: neither a write that raised halfway through a check
\* nor a restart makes it skip a failure it has not tried to report.
FailureIsTriedFirst ==
    since >= Cooldown =>
        /\ \A unit \in known : lastEmitted[<< "failed", unit >>] > 0
        /\ \A i \in DOMAIN alerts :
              alerts[i].epoch = epoch /\ alerts[i].key[1] = "recovered"
              => lastEmitted[<< "failed", alerts[i].key[2] >>] > 0

\* Once units and outages are quiet, the scanner comes to know exactly the
\* units that are failed, in spite of the cycles it lost (known is replaced
\* as a whole, and the next check starts from the last one completed).
CatchesUp == <>[](known = failed)

\* "Alert on units that newly entered the failed state; note recoveries."
\* (process_service.py:64), as far as it goes: as long as no write fails, and
\* unless the scanner was started in the first cooldown after boot, a check
\* ends with a row younger than a cooldown for every new failure, though not
\* always a row of its own (a unit that flaps is told once per cooldown).
NewFailureIsOnRecord ==
    [][checking /\ todo = << >> /\ ~checking' /\ epoch' = epoch
       /\ faults = 0 /\ since >= Cooldown
       => \A unit \in probe \ known : \E i \in DOMAIN alerts :
             /\ alerts[i].key = << "failed", unit >>
             /\ alerts[i].epoch = epoch
             /\ uptime - alerts[i].at < Cooldown]_vars
=============================================================================
