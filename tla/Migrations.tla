------------------------------- MODULE Migrations -------------------------------
(***************************************************************************)
(* init_db (app/database/session.py): the processes of ProcSentry that     *)
(* start on one SQLite file each create the tables that are missing and    *)
(* apply the migration files that are not recorded.  pysqlite runs DDL     *)
(* outside of a transaction until the first INSERT opens one; from there   *)
(* to the commit a process holds the write lock, and what it does is its   *)
(* own.  A process that fails is started again (systemd: Restart=always).  *)
(***************************************************************************)
EXTENDS Integers, Sequences, FiniteSets, SequencesExt

CONSTANTS
    Agents,         \* the daemon, the web process
    Tables,         \* the tables of models.py
    Columns,        \* table -> the columns that came to it later
    Migrated,       \* migration files in order: the objects their statements create
    OldSchemas,     \* what databases of earlier versions hold: [objects, versions]
    MaxCrashes      \* bound on the crashes

Free == "free"
Files == DOMAIN Migrated
Objects == Tables \cup UNION {Columns[t] : t \in Tables}

\* A version that is recorded has been applied.
Whole(schema) == \A f \in schema.versions : ToSet(Migrated[f]) \subseteq schema.objects

ASSUME MigrationsAssumption ==
    /\ Free \notin Agents /\ MaxCrashes \in Nat
    /\ Migrated \in Seq(Seq(Objects))
    /\ \A t \in Tables : \A c \in Columns[t] : \E f \in Files : c \in ToSet(Migrated[f])
    /\ OldSchemas \subseteq {schema \in [objects : SUBSET Objects, versions : SUBSET Files] : Whole(schema)}

VARIABLES
    db,        \* what is committed: [objects, versions]
    lock,      \* who is in a transaction, or Free
    pending,   \* its objects and versions
    agent,     \* agent -> where it is in init_db
    crashes

migrationVars == << db, lock, pending, agent, crashes >>

NothingYet == [objects |-> {}, versions |-> {}]
Down == [pc |-> "down", missing |-> {}, applied |-> {}, file |-> 0, rest |-> << >>]

MigrationsInit ==
    /\ db \in OldSchemas
    /\ lock = Free /\ pending = NothingYet
    /\ agent = [a \in Agents |-> Down]
    /\ crashes = 0

-----------------------------------------------------------------------------
(* SQLite                                                                  *)

Both(x, y) == [objects |-> x.objects \cup y.objects, versions |-> x.versions \cup y.versions]

\* What an agent sees: its own changes, or what is committed.
Seen(a) == IF lock = a THEN Both(db, pending) ELSE db

CanWrite(a) == lock \in {a, Free}

\* A table comes with all of its columns, a column with its table only.
CreatedWith(object) == {object} \cup (IF object \in Tables THEN Columns[object] ELSE {})
HasPlace(object, objects) == object \in Tables \/ \E t \in Tables \cap objects : object \in Columns[t]

\* A statement takes effect at once, or with the transaction it is part of.
Adds(a, changes) ==
    IF lock = a THEN pending' = Both(pending, changes) /\ db' = db
                ELSE db' = Both(db, changes) /\ pending' = pending

-----------------------------------------------------------------------------
(* init_db                                                                 *)

Goes(a, state) == agent' = [agent EXCEPT ![a] = state]

\* The exception ends the process, and what it had not committed is gone.
Fails(a) ==
    /\ Goes(a, Down)
    /\ IF lock = a THEN lock' = Free /\ pending' = NothingYet ELSE UNCHANGED << lock, pending >>
    /\ db' = db

\* create_all looks at the tables before it creates the first.
Begins(a) ==
    /\ agent[a].pc = "down"
    /\ Goes(a, [Down EXCEPT !.pc = "creating", !.missing = Tables \ db.objects])
    /\ UNCHANGED << db, lock, pending, crashes >>

\* One that has come to be since is an error.
CreateTable(a) ==
    /\ agent[a].pc = "creating"
    /\ \E t \in agent[a].missing :
          \/ /\ t \notin db.objects /\ CanWrite(a)
             /\ Adds(a, [objects |-> CreatedWith(t), versions |-> {}])
             /\ Goes(a, [agent[a] EXCEPT !.missing = @ \ {t}])
             /\ lock' = lock
          \/ t \in db.objects /\ Fails(a)
    /\ crashes' = crashes

\* A slip the code avoids: every file is applied at every start.
ReadsNothing(a) ==
    /\ agent[a].pc = "creating" /\ agent[a].missing = {}
    /\ Goes(a, [agent[a] EXCEPT !.pc = "choosing"])
    /\ UNCHANGED << db, lock, pending, crashes >>

\* SELECT version FROM schema_migrations, which is created if it is not there.
ReadsVersions(a) ==
    /\ agent[a].pc = "creating" /\ agent[a].missing = {}
    /\ Goes(a, [agent[a] EXCEPT !.pc = "choosing", !.applied = db.versions])
    /\ UNCHANGED << db, lock, pending, crashes >>

NextFile(a) ==
    /\ agent[a].pc = "choosing" /\ agent[a].file < Len(Migrated)
    /\ LET f == agent[a].file + 1 IN
         Goes(a, [agent[a] EXCEPT !.file = f,
                                  !.pc = IF f \in agent[a].applied THEN "choosing" ELSE "applying",
                                  !.rest = IF f \in agent[a].applied THEN << >> ELSE Migrated[f]])
    /\ UNCHANGED << db, lock, pending, crashes >>

\* A slip the code avoids: the first object that is there already ends its file.
StatementEndsFile(a) ==
    /\ agent[a].pc = "applying" /\ agent[a].rest # << >>
    /\ LET object == Head(agent[a].rest) IN
         \/ /\ HasPlace(object, Seen(a).objects) /\ CanWrite(a)
            /\ IF object \in Seen(a).objects
               THEN Goes(a, [agent[a] EXCEPT !.rest = << >>]) /\ UNCHANGED << db, pending >>
               ELSE /\ Adds(a, [objects |-> CreatedWith(object), versions |-> {}])
                    /\ Goes(a, [agent[a] EXCEPT !.rest = Tail(@)])
            /\ lock' = lock
         \/ ~HasPlace(object, Seen(a).objects) /\ Fails(a)
    /\ crashes' = crashes

\* What is there already is passed over; that, and no other error.
Statement(a) ==
    /\ agent[a].pc = "applying" /\ agent[a].rest # << >>
    /\ LET object == Head(agent[a].rest) IN
         \/ /\ HasPlace(object, Seen(a).objects) /\ CanWrite(a)
            /\ Adds(a, [objects |-> IF object \in Seen(a).objects THEN {} ELSE CreatedWith(object),
                        versions |-> {}])
            /\ Goes(a, [agent[a] EXCEPT !.rest = Tail(@)])
            /\ lock' = lock
         \/ ~HasPlace(object, Seen(a).objects) /\ Fails(a)
    /\ crashes' = crashes

\* INSERT INTO schema_migrations: opens the transaction, and fails on a version
\* that another has recorded by now.
Record(a) ==
    /\ agent[a].pc = "applying" /\ agent[a].rest = << >> /\ CanWrite(a)
    /\ IF agent[a].file \in db.versions THEN Fails(a)
       ELSE /\ lock' = a
            /\ pending' = Both(pending, [objects |-> {}, versions |-> {agent[a].file}])
            /\ Goes(a, [agent[a] EXCEPT !.pc = "choosing"])
            /\ db' = db
    /\ crashes' = crashes

CommitMigrations(a) ==
    /\ agent[a].pc = "choosing" /\ agent[a].file = Len(Migrated)
    /\ db' = Seen(a)
    /\ IF lock = a THEN lock' = Free /\ pending' = NothingYet ELSE UNCHANGED << lock, pending >>
    /\ Goes(a, [Down EXCEPT !.pc = "ready"])
    /\ crashes' = crashes

Locked(a) == ~CanWrite(a) /\ (agent[a].pc = "applying" \/ (agent[a].pc = "creating" /\ agent[a].missing # {}))

\* Five seconds without the lock: "database is locked".
LockTimeout(a) == Locked(a) /\ Fails(a) /\ crashes' = crashes

Crash(a) ==
    /\ agent[a].pc # "down" /\ crashes < MaxCrashes
    /\ Fails(a)
    /\ crashes' = crashes + 1

InitDb(a) ==
    \/ Begins(a) \/ CreateTable(a) \/ ReadsVersions(a) \/ NextFile(a)
    \/ Statement(a) \/ Record(a) \/ CommitMigrations(a) \/ LockTimeout(a)

MigrationsNext == \E a \in Agents : InitDb(a) \/ Crash(a)

\* systemd starts what has ended, and a started process goes on.
MigrationsFairness == \A a \in Agents : WF_migrationVars(InitDb(a))

MigrationsSpec == MigrationsInit /\ [][MigrationsNext]_migrationVars /\ MigrationsFairness

-----------------------------------------------------------------------------

MigrationsTypeOK ==
    /\ {db, pending} \subseteq [objects : SUBSET Objects, versions : SUBSET Files]
    /\ lock \in Agents \cup {Free}
    /\ agent \in [Agents -> [pc : {"down", "creating", "choosing", "applying", "ready"},
                             missing : SUBSET Tables, applied : SUBSET Files,
                             file : Files \cup {0}, rest : Seq(Objects)]]
    /\ crashes \in 0..MaxCrashes

\* A version that is recorded has been applied: whatever crashes, and however
\* the starts of two processes interleave, every object of its file is there,
\* and a process that is ready works on the whole schema.
MigrationsAreWhole ==
    /\ Whole(db)
    /\ \A a \in Agents : agent[a].pc = "ready" => Objects \subseteq db.objects /\ db.versions = Files

\* Both processes come up in the end, from whatever a crash left behind and
\* although each may make the other fail: not every start ends in an error.
StartsSucceed == <>[](\A a \in Agents : agent[a].pc = "ready")
=============================================================================
