------------------------------ MODULE MCRepository ------------------------------
(***************************************************************************)
(* The database from the start of its processes: init_db first, and the    *)
(* scan loops once it has come to an end in all of them.                   *)
(***************************************************************************)
EXTENDS ProcessRepository, Migrations

\* One table that has got columns since, and one that is younger.
MCColumns == [processes |-> {"unit", "zombie"}, kills |-> {}]
MCMigrated == << << "processes" >>, << "unit", "zombie" >>, << "kills" >> >>
MCOldSchemas == {NothingYet,
                 [objects |-> {"processes"}, versions |-> {}],
                 [objects |-> {"processes"}, versions |-> {1}]}

MCInit == Init /\ MigrationsInit

AllReady == \A a \in Agents : agent[a].pc = "ready"

MCUpsert(w) == AllReady /\ crashes = 0 /\ Upsert(w) /\ UNCHANGED migrationVars

MCNext ==
    \/ procs = << >> /\ now = 0 /\ started = 0 /\ MigrationsNext /\ UNCHANGED vars
    \/ AllReady /\ crashes = 0 /\ Next /\ UNCHANGED migrationVars

MCSpec ==
    /\ MCInit /\ [][MCNext]_<< vars, migrationVars >>
    /\ \A w \in Writers : WF_vars(MCUpsert(w))
    /\ MigrationsFairness

MCTypeOK == TypeOK /\ MigrationsTypeOK
=============================================================================
