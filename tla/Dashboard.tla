------------------------------- MODULE Dashboard -------------------------------
(***************************************************************************)
(* The overview of the dashboard, which shows processes by the application *)
(* they belong to, and the button that ends an application                 *)
(* (app/web/routes/processes.py).  The page and the handler each read the  *)
(* table anew and work out everybody's application for themselves.  What   *)
(* becomes of a single signal is in KillWorkflow.                          *)
(***************************************************************************)
EXTENDS Listing, SequencesExt

CONSTANTS
    Projects,      \* names of project directories
    Services,      \* labels of well-known services
    ServiceUnits,  \* base names of systemd units, aliases resolved
    NoName,        \* None
    ListLimit,     \* 5000, the rows the overview reads
    KillLimit,     \* 2000, the rows kill_app reads
    Candidates,    \* the rows scans find
    MaxRows        \* bound on the table

VARIABLE table  \* rows, as list_processes orders them: by risk, then by load

GenericUnits == {"user", "session", "init", "system"}
Unit(base, instance) == [base |-> base, instance |-> instance]

\* A row: what its directory, its arguments, its unit, its comm and its first
\* argument name.
Rows == [cwd : Projects \cup {NoName}, args : Seq(Projects \cup {NoName}),
         unit : {NoName} \cup [base : GenericUnits \cup ServiceUnits, instance : BOOLEAN],
         comm : Services \cup {NoName}, first : Services \cup {NoName}]

Unknown == "unknown"

ASSUME DashboardAssumption ==
    /\ NoName \notin Projects \cup Services \cup ServiceUnits \cup {Unknown}
    /\ {ListLimit, KillLimit, MaxRows} \subseteq Nat
    /\ Candidates \subseteq Rows

-----------------------------------------------------------------------------
(* _detect_project                                                         *)

\* _systemd_unit_label: sessions and slices are nobody's application, and the
\* instances of a template are one.
UnitLabel(unit) == IF unit = NoName \/ unit.base \in GenericUnits THEN NoName ELSE unit.base

IsName(name) == name # NoName

\* The first of these that names one.
Clues(row) == << row.cwd >> \o row.args \o << UnitLabel(row.unit), row.comm, row.first >>

DetectProject(row) ==
    LET naming == {i \in DOMAIN Clues(row) : IsName(Clues(row)[i])}
    IN  IF naming = {} THEN NoName ELSE Clues(row)[Min(naming)]

-----------------------------------------------------------------------------
(* Pages                                                                   *)

\* list_processes
FirstOf(list, limit) == SubSeq(list, 1, IF limit < Len(list) THEN limit ELSE Len(list))
ListProcesses(limit) == FirstOf(table, limit)

GroupOf(row) == IF DetectProject(row) = NoName THEN Unknown ELSE DetectProject(row)

\* overview: every row in the bucket of its application.
OverviewOf(list) ==
    LET rows == FirstOf(list, ListLimit)
    IN  [name \in {GroupOf(rows[i]) : i \in DOMAIN rows} |->
            Picked(rows, {i \in DOMAIN rows : GroupOf(rows[i]) = name})]

Overview == OverviewOf(table)

\* A slip the code avoids: what kill_app goes by is what the detail page shows.
IsTargetByPath(row, name) == DetectProject([row EXCEPT !.unit = NoName, !.comm = NoName]) = name

\* kill_app
IsTarget(row, name) == DetectProject(row) = name

AppTargets(name) == {i \in DOMAIN ListProcesses(KillLimit) : IsTarget(table[i], name)}

-----------------------------------------------------------------------------

DashboardInit == table = << >>

\* A scan finds one process more, at any risk, or one less.
RowAppears(row, i) == Len(table) < MaxRows /\ table' = InsertAt(table, i, row)
RowDisappears(i) == table' = RemoveAt(table, i)

\* Every target ends, and its row is gone with the next scans.
KillApp(name) ==
    table' = Picked(table, DOMAIN table \ AppTargets(name))

DashboardNext ==
    \/ \E row \in Candidates, i \in 1..(Len(table) + 1) : RowAppears(row, i)
    \/ \E i \in DOMAIN table : RowDisappears(i)
    \/ \E name \in DOMAIN Overview : KillApp(name)

DashboardSpec == DashboardInit /\ [][DashboardNext]_table

-----------------------------------------------------------------------------

DashboardTypeOK == Len(table) <= MaxRows /\ \A i \in DOMAIN table : table[i] \in Rows

\* The button under a group of the overview ends that group: of the rows that
\* kill_app reads it takes every one the page shows under the name, and of no
\* other group any; only what lies beyond its smaller limit stays, and rows the
\* page had no room for move up.  Under "unknown" it takes nothing.
KillAppEmptiesItsGroup ==
    [][\A name \in DOMAIN Overview : KillApp(name) =>
        /\ \A other \in DOMAIN Overview \ {name} :
              /\ other \in DOMAIN OverviewOf(table')
              /\ IsPrefix(Overview[other], OverviewOf(table')[other])
        /\ name = Unknown => table' = table
        /\ name # Unknown /\ Len(table) <= KillLimit => name \notin DOMAIN OverviewOf(table')
        /\ name # Unknown /\ name \in DOMAIN OverviewOf(table') =>
              Len(OverviewOf(table')[name]) <= Len(table) - KillLimit]_table
=============================================================================
