---------------------------- MODULE Database_proofs ----------------------------
(***************************************************************************)
(* Proofs about the database.  Migrations, for any processes, tables,      *)
(* columns and files, and any number of crashes: what is recorded as       *)
(* applied is applied.  ProcessRepository, for any scan loops, pids and    *)
(* bounds: no fresh row is purged, and one loop keeps one row per pid.     *)
(***************************************************************************)
EXTENDS MCRepository, Finite_proofs

-----------------------------------------------------------------------------
(* Migrations                                                              *)

Schemas == [objects : SUBSET Objects, versions : SUBSET Files]

\* How far a process has come shows in what it sees of the database.
Progress(a) ==
    /\ agent[a].pc \in {"down", "creating", "ready"} => lock # a
    /\ agent[a].pc = "creating" => agent[a].file = 0 /\ Tables \ agent[a].missing \subseteq db.objects
    /\ agent[a].pc \in {"choosing", "applying", "ready"} => Tables \subseteq db.objects
    /\ agent[a].pc \in {"choosing", "applying"} => agent[a].applied \subseteq db.versions
    /\ agent[a].pc = "choosing" => 1..agent[a].file \subseteq Seen(a).versions
    /\ agent[a].pc = "applying" =>
          /\ agent[a].file \in Files
          /\ 1..(agent[a].file - 1) \subseteq Seen(a).versions
          /\ ToSet(Migrated[agent[a].file]) \subseteq Seen(a).objects \cup ToSet(agent[a].rest)
    /\ agent[a].pc = "ready" => Files \subseteq db.versions

\* Without a transaction nothing is pending, and what is pending is no less
\* whole than what is committed.
SchemasAreWhole ==
    /\ lock = Free => pending = NothingYet
    /\ Whole(db) /\ Whole(Both(db, pending))

IInv == MigrationsTypeOK /\ SchemasAreWhole /\ \A a \in Agents : Progress(a)

-----------------------------------------------------------------------------
(* What the steps are made of                                              *)

LEMMA FilesAreCounted ==
  /\ Len(Migrated) \in Nat /\ Files = 1..Len(Migrated)
  /\ \A f \in Files : Migrated[f] \in Seq(Objects)
BY MigrationsAssumption DEF Files

LEMMA CreatedIsObjects ==
  ASSUME NEW object \in Objects
  PROVE  CreatedWith(object) \subseteq Objects /\ object \in CreatedWith(object)
BY DEF CreatedWith, Objects

\* Taking the first statement off a file.
LEMMA HeadAndTail ==
  ASSUME NEW s \in Seq(Objects), s # << >>
  PROVE  /\ Head(s) \in Objects /\ Tail(s) \in Seq(Objects)
         /\ ToSet(s) \subseteq {Head(s)} \cup ToSet(Tail(s))
<1>1. Head(s) \in Objects /\ Tail(s) \in Seq(Objects)
  OBVIOUS
<1>2. ASSUME NEW i \in DOMAIN s PROVE s[i] \in {Head(s)} \cup ToSet(Tail(s))
  <2>1. CASE i = 1
    BY <2>1
  <2>2. CASE i # 1
    <3>1. i - 1 \in DOMAIN Tail(s) /\ Tail(s)[i - 1] = s[i]
      BY <2>2
    <3> QED BY <3>1 DEF ToSet
  <2> QED BY <2>1, <2>2
<1> QED BY <1>1, <1>2 DEF ToSet

LEMMA EmptyFile == ToSet(<< >>) = {}
BY DEF ToSet

LEMMA WholeStaysWhole ==
  ASSUME NEW x \in Schemas, NEW y \in Schemas, Whole(x),
         x.versions = y.versions, x.objects \subseteq y.objects
  PROVE  Whole(y)
BY DEF Whole

\* The writer sees all there is.
LEMMA WriterSeesAll ==
  ASSUME IInv, NEW a \in Agents, CanWrite(a)
  PROVE  Seen(a) = Both(db, pending)
<1>1. CASE lock = a
  BY <1>1 DEF Seen
<1>2. CASE lock = Free
  <2>1. pending = NothingYet /\ db \in Schemas
    BY <1>2 DEF IInv, SchemasAreWhole, MigrationsTypeOK, Schemas
  <2>2. Both(db, NothingYet) = [objects |-> db.objects, versions |-> db.versions]
    BY DEF Both, NothingYet
  <2>3. db = [objects |-> db.objects, versions |-> db.versions]
    BY <2>1 DEF Schemas
  <2> QED BY <1>2, <2>1, <2>2, <2>3, MigrationsAssumption DEF Seen
<1> QED BY <1>1, <1>2 DEF CanWrite

\* A process that did not take the step has come no less far.
LEMMA OthersProgress ==
  ASSUME IInv, NEW b \in Agents, agent'[b] = agent[b],
         db.objects \subseteq db'.objects, db.versions \subseteq db'.versions,
         lock = b <=> lock' = b,
         lock = b => db' = db /\ pending' = pending
  PROVE  Progress(b)'
<1>1. Progress(b)
  BY DEF IInv
<1>2. Seen(b).objects \subseteq Seen(b)'.objects /\ Seen(b).versions \subseteq Seen(b)'.versions
  BY DEF Seen
<1> QED BY <1>1, <1>2 DEF Progress

\* A statement adds objects to what its process sees, and takes nothing away.
LEMMA AddsGrow ==
  ASSUME IInv, NEW a \in Agents, CanWrite(a), NEW new \in SUBSET Objects,
         Adds(a, [objects |-> new, versions |-> {}]), lock' = lock
  PROVE  /\ {db, pending}' \subseteq Schemas /\ SchemasAreWhole'
         /\ db.objects \subseteq db'.objects /\ db'.versions = db.versions
         /\ lock # a => db'.objects = db.objects \cup new
         /\ Seen(a)'.objects = Seen(a).objects \cup new
         /\ Seen(a)'.versions = Seen(a).versions
<1> DEFINE changes == [objects |-> new, versions |-> {}]
<1>1. db \in Schemas /\ pending \in Schemas /\ changes \in Schemas
  BY DEF IInv, MigrationsTypeOK, Schemas
<1>2. Both(db, changes) \in Schemas /\ Both(pending, changes) \in Schemas /\ Both(db, pending) \in Schemas
  BY <1>1 DEF Both, Schemas
<1>3. CASE lock = a
  <2>1. db' = db /\ pending' = Both(pending, changes) /\ lock # Free
    BY <1>3, MigrationsAssumption DEF Adds
  <2>2. /\ Both(db, pending').objects = Both(db, pending).objects \cup new
        /\ Both(db, pending').versions = Both(db, pending).versions
        /\ Both(db, pending') \in Schemas
    BY <2>1, <1>1 DEF Both, Schemas
  <2>3. Whole(db)' /\ Whole(Both(db, pending)')
    BY <2>1, <2>2, <1>2, WholeStaysWhole DEF IInv, SchemasAreWhole
  <2>4. Seen(a) = Both(db, pending) /\ Seen(a)' = Both(db, pending')
    BY <1>3, <2>1 DEF Seen
  <2> QED BY <1>1, <1>2, <1>3, <2>1, <2>2, <2>3, <2>4 DEF SchemasAreWhole, Whole, Both
<1>4. CASE lock # a
  <2>1. lock = Free /\ pending = NothingYet
    BY <1>4 DEF CanWrite, IInv, SchemasAreWhole
  <2>2. db' = Both(db, changes) /\ pending' = pending
    BY <1>4 DEF Adds
  <2>3. db'.objects = db.objects \cup new /\ db'.versions = db.versions
    BY <2>2 DEF Both
  <2>4. Whole(db')
    BY <2>2, <2>3, <1>1, <1>2, WholeStaysWhole DEF IInv, SchemasAreWhole
  <2>5. /\ Both(db', pending').objects = db'.objects /\ Both(db', pending').versions = db'.versions
        /\ Both(db', pending') \in Schemas
    BY <2>1, <2>2, <1>1, <1>2 DEF Both, NothingYet, Schemas
  <2>6. Whole(Both(db', pending'))
    BY <2>2, <2>4, <2>5, <1>2, WholeStaysWhole
  <2>7. Seen(a) = db /\ Seen(a)' = db'
    BY <1>4 DEF Seen
  <2> QED BY <1>1, <1>2, <1>4, <2>1, <2>2, <2>3, <2>4, <2>6, <2>7 DEF SchemasAreWhole
<1> QED BY <1>3, <1>4

-----------------------------------------------------------------------------
(* One step                                                                *)

StateOf == [pc : {"down", "creating", "choosing", "applying", "ready"},
            missing : SUBSET Tables, applied : SUBSET Files,
            file : Files \cup {0}, rest : Seq(Objects)]

\* A process that ends takes what it had not committed with it.
LEMMA FailsInv ==
  ASSUME IInv, NEW a \in Agents, Fails(a), crashes' \in 0..MaxCrashes
  PROVE  IInv'
<1>1. /\ agent' = [agent EXCEPT ![a] = Down] /\ db' = db
      /\ agent'[a] = Down /\ \A b \in Agents \ {a} : agent'[b] = agent[b]
  BY DEF Fails, Goes, IInv, MigrationsTypeOK
<1>2. lock' = (IF lock = a THEN Free ELSE lock) /\ pending' = (IF lock = a THEN NothingYet ELSE pending)
  BY DEF Fails
<1>3. Down \in StateOf /\ NothingYet \in Schemas
  BY DEF Down, StateOf, NothingYet, Schemas
<1>4. MigrationsTypeOK'
  BY <1>1, <1>2, <1>3 DEF IInv, MigrationsTypeOK, StateOf, Schemas
<1>5. SchemasAreWhole'
  <2>1. CASE lock = a
    <3>1. db \in Schemas /\ Both(db, NothingYet) \in Schemas
      BY <1>3 DEF IInv, MigrationsTypeOK, Schemas, Both
    <3>2. Both(db, NothingYet).objects = db.objects /\ Both(db, NothingYet).versions = db.versions
      BY DEF Both, NothingYet
    <3>3. Whole(db) /\ Whole(Both(db, NothingYet))
      BY <3>1, <3>2, WholeStaysWhole DEF IInv, SchemasAreWhole
    <3> QED BY <1>1, <1>2, <2>1, <3>3 DEF SchemasAreWhole
  <2>2. CASE lock # a
    BY <1>1, <1>2, <2>2 DEF IInv, SchemasAreWhole, Whole, Both
  <2> QED BY <2>1, <2>2
<1>6. Progress(a)'
  BY <1>1, <1>2, MigrationsAssumption DEF Progress, Down
<1>7. ASSUME NEW b \in Agents \ {a} PROVE Progress(b)'
  BY <1>1, <1>2, OthersProgress, MigrationsAssumption
<1> QED BY <1>4, <1>5, <1>6, <1>7 DEF IInv

\* A step of one process that leaves the database and the lock alone.
LEMMA GoesInv ==
  ASSUME IInv, NEW a \in Agents, NEW state \in StateOf, Goes(a, state),
         UNCHANGED << db, lock, pending, crashes >>, Progress(a)'
  PROVE  IInv'
<1>1. agent'[a] = state /\ \A b \in Agents \ {a} : agent'[b] = agent[b]
  BY DEF Goes, IInv, MigrationsTypeOK
<1>2. MigrationsTypeOK'
  BY DEF Goes, IInv, MigrationsTypeOK, StateOf
<1>3. SchemasAreWhole'
  BY DEF IInv, SchemasAreWhole, Whole, Both
<1>4. ASSUME NEW b \in Agents \ {a} PROVE Progress(b)'
  BY <1>1, OthersProgress
<1> QED BY <1>2, <1>3, <1>4 DEF IInv

\* A statement of one process.
LEMMA AddsInv ==
  ASSUME IInv, NEW a \in Agents, CanWrite(a), NEW new \in SUBSET Objects,
         Adds(a, [objects |-> new, versions |-> {}]), UNCHANGED << lock, crashes >>,
         NEW state \in StateOf, Goes(a, state), Progress(a)'
  PROVE  IInv'
<1>1. agent'[a] = state /\ \A b \in Agents \ {a} : agent'[b] = agent[b]
  BY DEF Goes, IInv, MigrationsTypeOK
<1>2. {db, pending}' \subseteq Schemas /\ SchemasAreWhole' /\ db.objects \subseteq db'.objects /\ db'.versions = db.versions
  BY AddsGrow
<1>3. MigrationsTypeOK'
  BY <1>2 DEF Goes, IInv, MigrationsTypeOK, StateOf, Schemas
<1>4. ASSUME NEW b \in Agents \ {a} PROVE Progress(b)'
  <2>1. lock # b
    BY MigrationsAssumption DEF CanWrite
  <2> QED BY <1>1, <1>2, <2>1, OthersProgress
<1> QED BY <1>2, <1>3, <1>4 DEF IInv

LEMMA AgentTyped ==
  ASSUME IInv, NEW a \in Agents
  PROVE  /\ agent[a] \in StateOf /\ Progress(a)
         /\ db \in Schemas /\ pending \in Schemas /\ crashes \in 0..MaxCrashes
BY DEF IInv, MigrationsTypeOK, StateOf, Schemas

LEMMA GoesGoes ==
  ASSUME IInv, NEW a \in Agents, NEW state, Goes(a, state)
  PROVE  agent'[a] = state
BY DEF Goes, IInv, MigrationsTypeOK

LEMMA BeginsInv == ASSUME IInv, NEW a \in Agents, Begins(a) PROVE IInv'
<1> DEFINE state == [Down EXCEPT !.pc = "creating", !.missing = Tables \ db.objects]
<1>1. Goes(a, state) /\ UNCHANGED << db, lock, pending, crashes >> /\ agent[a].pc = "down"
  BY DEF Begins
<1>2. state \in StateOf /\ state.pc = "creating" /\ state.file = 0 /\ state.missing = Tables \ db.objects
  <2>1. Down \in StateOf /\ Down.file = 0
    BY DEF StateOf, Down
  <2>2. \A d \in StateOf : LET s == [d EXCEPT !.pc = "creating", !.missing = Tables \ db.objects] IN
          s \in StateOf /\ s.pc = "creating" /\ s.file = d.file /\ s.missing = Tables \ db.objects
    BY DEF StateOf
  <2> QED BY <2>1, <2>2
<1>3. agent'[a] = state
  BY <1>1, GoesGoes
<1>4. Progress(a)'
  BY <1>1, <1>2, <1>3, AgentTyped DEF Progress
<1> QED BY <1>1, <1>2, <1>4, GoesInv

LEMMA CreateTableInv == ASSUME IInv, NEW a \in Agents, CreateTable(a) PROVE IInv'
<1> PICK t \in agent[a].missing :
      \/ /\ t \notin db.objects /\ CanWrite(a)
         /\ Adds(a, [objects |-> CreatedWith(t), versions |-> {}])
         /\ Goes(a, [agent[a] EXCEPT !.missing = @ \ {t}])
         /\ lock' = lock
      \/ t \in db.objects /\ Fails(a)
  BY DEF CreateTable
<1>1. CASE Fails(a)
  BY <1>1, FailsInv, AgentTyped DEF CreateTable
<1>2. CASE ~Fails(a)
  <2> DEFINE state == [agent[a] EXCEPT !.missing = @ \ {t}]
  <2>1. /\ agent[a] \in StateOf /\ Progress(a) /\ agent[a].pc = "creating"
        /\ crashes' = crashes
    BY AgentTyped DEF CreateTable
  <2>2. state \in StateOf /\ state.pc = "creating" /\ state.file = agent[a].file /\ state.missing = agent[a].missing \ {t}
    BY <2>1 DEF StateOf
  <2>3. t \in Tables /\ t \in Objects
    BY <2>1 DEF StateOf, Objects
  <2>4. CreatedWith(t) \in SUBSET Objects /\ t \in CreatedWith(t)
    BY <2>3, CreatedIsObjects
  <2>5. Goes(a, state) /\ Adds(a, [objects |-> CreatedWith(t), versions |-> {}]) /\ lock' = lock /\ CanWrite(a)
    BY <1>2
  <2>6. agent'[a] = state
    BY <2>5, GoesGoes
  <2>7. lock # a /\ db'.objects = db.objects \cup CreatedWith(t)
    BY <2>1, <2>4, <2>5, AddsGrow DEF Progress
  <2>8. Progress(a)'
    BY <2>1, <2>2, <2>4, <2>5, <2>6, <2>7 DEF Progress
  <2> QED BY <2>1, <2>2, <2>4, <2>5, <2>8, AddsInv
<1> QED BY <1>1, <1>2

LEMMA ReadsVersionsInv == ASSUME IInv, NEW a \in Agents, ReadsVersions(a) PROVE IInv'
<1> DEFINE state == [agent[a] EXCEPT !.pc = "choosing", !.applied = db.versions]
<1>1. /\ Goes(a, state) /\ UNCHANGED << db, lock, pending, crashes >>
      /\ agent[a].pc = "creating" /\ agent[a].missing = {}
  BY DEF ReadsVersions
<1>2. agent[a] \in StateOf /\ Progress(a) /\ db \in Schemas
  BY AgentTyped
<1>3. state \in StateOf /\ state.pc = "choosing" /\ state.applied = db.versions /\ state.file = agent[a].file
  BY <1>2 DEF StateOf, Schemas
<1>4. agent'[a] = state
  BY <1>1, GoesGoes
<1>5. Progress(a)'
  BY <1>1, <1>2, <1>3, <1>4 DEF Progress
<1> QED BY <1>1, <1>3, <1>5, GoesInv

LEMMA NextFileInv == ASSUME IInv, NEW a \in Agents, NextFile(a) PROVE IInv'
<1> DEFINE f == agent[a].file + 1
           passed == f \in agent[a].applied
           state == [agent[a] EXCEPT !.file = f,
                                     !.pc = IF passed THEN "choosing" ELSE "applying",
                                     !.rest = IF passed THEN << >> ELSE Migrated[f]]
<1>1. /\ Goes(a, state) /\ UNCHANGED << db, lock, pending, crashes >>
      /\ agent[a].pc = "choosing" /\ agent[a].file < Len(Migrated)
  BY DEF NextFile
<1>2. agent[a] \in StateOf /\ Progress(a)
  BY AgentTyped
<1>3. f \in Files /\ Migrated[f] \in Seq(Objects) /\ 1..(f - 1) \subseteq Seen(a).versions
  <2>1. agent[a].file \in Files \cup {0}
    BY <1>2 DEF StateOf
  <2>2. f \in Files /\ f - 1 = agent[a].file
    BY <1>1, <2>1, FilesAreCounted
  <2> QED BY <1>1, <1>2, <2>2, FilesAreCounted DEF Progress
<1>4. /\ state \in StateOf /\ state.file = f /\ state.applied = agent[a].applied
      /\ state.pc = IF passed THEN "choosing" ELSE "applying"
      /\ state.rest = IF passed THEN << >> ELSE Migrated[f]
  <2> DEFINE next == IF passed THEN "choosing" ELSE "applying"
             rest == IF passed THEN << >> ELSE Migrated[f]
  <2>1. f \in Files /\ next \in {"choosing", "applying"} /\ rest \in Seq(Objects)
    BY <1>3
  <2>2. state = [agent[a] EXCEPT !.file = f, !.pc = next, !.rest = rest]
    OBVIOUS
  <2> HIDE DEF next, rest, f, state
  <2>3. state \in StateOf
    BY <1>2, <2>1, <2>2 DEF StateOf
  <2>4. state.file = f /\ state.applied = agent[a].applied /\ state.pc = next /\ state.rest = rest
    BY <1>2, <2>2 DEF StateOf
  <2> QED BY <2>3, <2>4 DEF next, rest
<1>5. agent'[a] = state /\ Seen(a)' = Seen(a)
  BY <1>1, GoesGoes DEF Seen
<1>6. Tables \subseteq db.objects /\ agent[a].applied \subseteq db.versions
  BY <1>1, <1>2 DEF Progress
<1>7. passed => 1..f \subseteq Seen(a).versions
  <2>1. db.versions \subseteq Seen(a).versions
    BY DEF Seen, Both
  <2>2. f \in Nat /\ 1..f \subseteq 1..(f - 1) \cup {f}
    BY <1>3, FilesAreCounted
  <2> QED BY <1>3, <1>6, <2>1, <2>2
<1>8. Progress(a)'
  <2> HIDE DEF state, f, passed
  <2>1. state.pc \in {"choosing", "applying"}
    BY <1>4
  <2>2. Tables \subseteq db'.objects /\ state.applied \subseteq db'.versions
    BY <1>1, <1>4, <1>6
  <2>3. state.pc = "choosing" => 1..state.file \subseteq Seen(a)'.versions
    BY <1>4, <1>5, <1>7
  <2>4. state.pc = "applying" => /\ state.file \in Files /\ 1..(state.file - 1) \subseteq Seen(a)'.versions
                                 /\ state.rest = Migrated[state.file]
    BY <1>3, <1>4, <1>5
  <2> QED BY <1>5, <2>1, <2>2, <2>3, <2>4 DEF Progress
<1> QED BY <1>1, <1>4, <1>8, GoesInv

LEMMA StatementInv == ASSUME IInv, NEW a \in Agents, Statement(a) PROVE IInv'
<1> DEFINE object == Head(agent[a].rest)
           new == IF object \in Seen(a).objects THEN {} ELSE CreatedWith(object)
           state == [agent[a] EXCEPT !.rest = Tail(@)]
<1>1. /\ agent[a].pc = "applying" /\ agent[a].rest # << >> /\ crashes' = crashes
      /\ \/ /\ CanWrite(a) /\ Adds(a, [objects |-> new, versions |-> {}])
            /\ Goes(a, state) /\ lock' = lock
         \/ Fails(a)
  BY DEF Statement
<1>2. agent[a] \in StateOf /\ Progress(a) /\ crashes \in 0..MaxCrashes
  BY AgentTyped
<1>3. CASE Fails(a)
  BY <1>1, <1>2, <1>3, FailsInv
<1>4. CASE ~Fails(a)
  <2>1. /\ object \in Objects /\ Tail(agent[a].rest) \in Seq(Objects)
        /\ ToSet(agent[a].rest) \subseteq {object} \cup ToSet(Tail(agent[a].rest))
    BY <1>1, <1>2, HeadAndTail DEF StateOf
  <2>2. new \in SUBSET Objects /\ object \in Seen(a).objects \cup new
    BY <2>1, CreatedIsObjects
  <2>3. /\ state \in StateOf /\ state.pc = "applying" /\ state.file = agent[a].file
        /\ state.applied = agent[a].applied /\ state.rest = Tail(agent[a].rest)
    BY <1>1, <1>2, <2>1 DEF StateOf
  <2> HIDE DEF new, object, state
  <2>4. /\ db.objects \subseteq db'.objects /\ db'.versions = db.versions
        /\ Seen(a)'.objects = Seen(a).objects \cup new /\ Seen(a)'.versions = Seen(a).versions
    BY <1>1, <1>4, <2>2, AddsGrow
  <2>5. agent'[a] = state
    BY <1>1, <1>4, GoesGoes
  <2>6. /\ Tables \subseteq db.objects /\ agent[a].applied \subseteq db.versions /\ agent[a].file \in Files
        /\ 1..(agent[a].file - 1) \subseteq Seen(a).versions
        /\ ToSet(Migrated[agent[a].file]) \subseteq Seen(a).objects \cup ToSet(agent[a].rest)
    BY <1>1, <1>2 DEF Progress
  <2>7. ToSet(Migrated[state.file]) \subseteq Seen(a)'.objects \cup ToSet(state.rest)
    BY <2>1, <2>2, <2>3, <2>4, <2>6
  <2>8. Progress(a)'
    BY <2>3, <2>4, <2>5, <2>6, <2>7 DEF Progress
  <2> QED BY <1>1, <1>4, <2>2, <2>3, <2>8, AddsInv
<1> QED BY <1>3, <1>4

\* The first version recorded opens the transaction: from here on the process
\* is the only one that writes.
LEMMA RecordInv == ASSUME IInv, NEW a \in Agents, Record(a) PROVE IInv'
<1> DEFINE f == agent[a].file
           version == [objects |-> {}, versions |-> {f}]
           state == [agent[a] EXCEPT !.pc = "choosing"]
<1>1. /\ agent[a].pc = "applying" /\ agent[a].rest = << >> /\ CanWrite(a) /\ crashes' = crashes
  BY DEF Record
<1>2. agent[a] \in StateOf /\ Progress(a) /\ crashes \in 0..MaxCrashes /\ db \in Schemas /\ pending \in Schemas
  BY AgentTyped
<1>3. CASE f \in db.versions
  BY <1>1, <1>2, <1>3, FailsInv DEF Record
<1>4. CASE f \notin db.versions
  <2>1. /\ lock' = a /\ pending' = Both(pending, version) /\ Goes(a, state) /\ db' = db
    BY <1>4 DEF Record
  <2>2. /\ state \in StateOf /\ state.pc = "choosing" /\ state.file = f /\ state.applied = agent[a].applied
    BY <1>2 DEF StateOf
  <2>3. /\ Tables \subseteq db.objects /\ agent[a].applied \subseteq db.versions /\ f \in Files
        /\ 1..(f - 1) \subseteq Seen(a).versions /\ ToSet(Migrated[f]) \subseteq Seen(a).objects
    BY <1>1, <1>2, EmptyFile DEF Progress
  <2>4. agent'[a] = state /\ \A b \in Agents \ {a} : agent'[b] = agent[b]
    BY <2>1, GoesGoes DEF Goes, IInv, MigrationsTypeOK
  <2>5. Seen(a) = Both(db, pending)
    BY <1>1, WriterSeesAll
  <2> HIDE DEF f, state
  <2>6. /\ Both(db, pending').objects = Both(db, pending).objects
        /\ Both(db, pending').versions = Both(db, pending).versions \cup {f}
        /\ pending' \in Schemas
    BY <1>2, <2>1, <2>3 DEF Both, Schemas
  <2>7. Seen(a)' = Both(db, pending')
    BY <2>1 DEF Seen
  <2>8. SchemasAreWhole'
    <3>1. Whole(Both(db, pending'))
      BY <2>3, <2>5, <2>6 DEF IInv, SchemasAreWhole, Whole
    <3>2. lock' # Free
      BY <2>1, MigrationsAssumption
    <3> QED BY <2>1, <3>1, <3>2 DEF IInv, SchemasAreWhole, Whole, Both
  <2>9. MigrationsTypeOK'
    BY <1>1, <2>1, <2>2, <2>6 DEF IInv, MigrationsTypeOK, Goes, StateOf, Schemas
  <2>10. 1..f \subseteq Seen(a)'.versions
    <3>1. f \in Nat /\ 1..f \subseteq 1..(f - 1) \cup {f}
      BY <2>3, FilesAreCounted
    <3> QED BY <2>3, <2>5, <2>6, <2>7, <3>1
  <2>11. Progress(a)'
    BY <2>1, <2>2, <2>3, <2>4, <2>10 DEF Progress
  <2>12. ASSUME NEW b \in Agents \ {a} PROVE Progress(b)'
    <3>1. lock # b /\ lock' # b
      BY <1>1, <2>1, MigrationsAssumption DEF CanWrite
    <3> QED BY <2>1, <2>4, <3>1, OthersProgress
  <2> QED BY <2>8, <2>9, <2>11, <2>12 DEF IInv
<1> QED BY <1>3, <1>4

\* What is committed is what the process saw.
LEMMA CommitInv == ASSUME IInv, NEW a \in Agents, CommitMigrations(a) PROVE IInv'
<1> DEFINE state == [Down EXCEPT !.pc = "ready"]
<1>1. /\ agent[a].pc = "choosing" /\ agent[a].file = Len(Migrated) /\ Goes(a, state)
      /\ db' = Seen(a) /\ crashes' = crashes
  BY DEF CommitMigrations
<1>2. agent[a] \in StateOf /\ Progress(a) /\ db \in Schemas /\ pending \in Schemas
  BY AgentTyped
<1>3. state \in StateOf /\ state.pc = "ready"
  <2>1. Down \in StateOf
    BY DEF StateOf, Down
  <2>2. \A d \in StateOf : [d EXCEPT !.pc = "ready"] \in StateOf /\ [d EXCEPT !.pc = "ready"].pc = "ready"
    BY DEF StateOf
  <2> QED BY <2>1, <2>2
<1>4. agent'[a] = state /\ \A b \in Agents \ {a} : agent'[b] = agent[b]
  BY <1>1, GoesGoes DEF Goes, IInv, MigrationsTypeOK
<1>5. Tables \subseteq db.objects /\ Files \subseteq Seen(a).versions
  BY <1>1, <1>2, FilesAreCounted DEF Progress
<1>6. lock' # a /\ (lock # a => UNCHANGED << lock, pending >>) /\ (lock = a => lock' = Free /\ pending' = NothingYet)
  BY MigrationsAssumption DEF CommitMigrations
<1>7. db' \in Schemas /\ Whole(db') /\ db.objects \subseteq db'.objects /\ db.versions \subseteq db'.versions
  BY <1>1, <1>2 DEF Seen, Both, Schemas, IInv, SchemasAreWhole
<1> HIDE DEF state
<1>8. SchemasAreWhole' /\ pending' \in Schemas
  <2>1. CASE lock = a
    <3>1. Both(db', NothingYet) \in Schemas /\ NothingYet \in Schemas
      BY <1>7 DEF Both, NothingYet, Schemas
    <3>2. Both(db', NothingYet).objects = db'.objects /\ Both(db', NothingYet).versions = db'.versions
      BY DEF Both, NothingYet
    <3>3. Whole(Both(db', NothingYet))
      BY <1>7, <3>1, <3>2, WholeStaysWhole
    <3> QED BY <1>6, <1>7, <2>1, <3>1, <3>3 DEF SchemasAreWhole
  <2>2. CASE lock # a
    <3>1. db' = db /\ UNCHANGED << lock, pending >>
      BY <1>1, <1>6, <2>2 DEF Seen
    <3> QED BY <1>2, <3>1 DEF IInv, SchemasAreWhole, Whole, Both
  <2> QED BY <2>1, <2>2
<1>9. MigrationsTypeOK'
  BY <1>1, <1>3, <1>6, <1>7, <1>8 DEF IInv, MigrationsTypeOK, Goes, StateOf, Schemas
<1>10. Progress(a)'
  BY <1>1, <1>3, <1>4, <1>5, <1>6, <1>7 DEF Progress
<1>11. ASSUME NEW b \in Agents \ {a} PROVE Progress(b)'
  <2>1. lock = b <=> lock' = b
    BY <1>6, MigrationsAssumption
  <2>2. lock = b => db' = db /\ pending' = pending
    BY <1>1, <1>6 DEF Seen
  <2> QED BY <1>4, <1>7, <2>1, <2>2, OthersProgress
<1> QED BY <1>8, <1>9, <1>10, <1>11 DEF IInv

LEMMA NextIInv == IInv /\ [MigrationsNext]_migrationVars => IInv'
<1> SUFFICES ASSUME IInv, [MigrationsNext]_migrationVars PROVE IInv'
  OBVIOUS
<1>1. CASE UNCHANGED migrationVars
  BY <1>1 DEF migrationVars, IInv, MigrationsTypeOK, SchemasAreWhole, Whole, Both, Progress, Seen
<1>2. ASSUME NEW a \in Agents, InitDb(a) PROVE IInv'
  <2>1. LockTimeout(a) => IInv'
    BY FailsInv, AgentTyped DEF LockTimeout
  <2> QED BY <1>2, <2>1, BeginsInv, CreateTableInv, ReadsVersionsInv, NextFileInv, StatementInv,
             RecordInv, CommitInv DEF InitDb
<1>3. ASSUME NEW a \in Agents, Crash(a) PROVE IInv'
  <2>1. crashes' \in 0..MaxCrashes
    BY <1>3, AgentTyped, MigrationsAssumption DEF Crash
  <2> QED BY <1>3, <2>1, FailsInv DEF Crash
<1> QED BY <1>1, <1>2, <1>3 DEF MigrationsNext

LEMMA InitIInv == MigrationsInit => IInv
<1> SUFFICES ASSUME MigrationsInit PROVE IInv
  OBVIOUS
<1>1. db \in Schemas /\ Whole(db)
  BY MigrationsAssumption DEF MigrationsInit, Schemas
<1>2. Down \in StateOf /\ NothingYet \in Schemas /\ Down.pc = "down"
  BY DEF Down, StateOf, NothingYet, Schemas
<1>3. SchemasAreWhole
  <2>1. Both(db, NothingYet) \in Schemas
    BY <1>1, <1>2 DEF Both, Schemas
  <2>2. Both(db, NothingYet).objects = db.objects /\ Both(db, NothingYet).versions = db.versions
    BY DEF Both, NothingYet
  <2> QED BY <1>1, <2>1, <2>2, WholeStaysWhole DEF SchemasAreWhole, MigrationsInit
<1>4. MigrationsTypeOK
  BY <1>1, <1>2, MigrationsAssumption DEF MigrationsInit, MigrationsTypeOK, StateOf, Schemas
<1>5. ASSUME NEW a \in Agents PROVE Progress(a)
  BY <1>2, MigrationsAssumption DEF MigrationsInit, Progress
<1> QED BY <1>3, <1>4, <1>5 DEF IInv

\* The schema that init_db leaves is what its migrations say, for any number of
\* processes that start on one database and fail or are killed at any point:
\* a version is on record only if all of its file took effect, and a process
\* that is ready has every table and every column.
THEOREM MigrationsHold == MigrationsSpec => []MigrationsAreWhole
<1>1. IInv => MigrationsAreWhole
  <2> SUFFICES ASSUME IInv PROVE MigrationsAreWhole
    OBVIOUS
  <2>1. Whole(db) /\ db.versions \subseteq Files
    BY DEF IInv, SchemasAreWhole, MigrationsTypeOK
  <2>2. ASSUME NEW a \in Agents, agent[a].pc = "ready"
        PROVE  Objects \subseteq db.objects /\ db.versions = Files
    <3>1. Tables \subseteq db.objects /\ db.versions = Files
      BY <2>1, <2>2, AgentTyped DEF Progress
    <3>2. ASSUME NEW t \in Tables PROVE Columns[t] \subseteq db.objects
      BY <2>1, <3>1, MigrationsAssumption DEF Whole
    <3> QED BY <3>1, <3>2 DEF Objects
  <2> QED BY <2>1, <2>2 DEF MigrationsAreWhole
<1> QED BY <1>1, InitIInv, NextIInv, PTL DEF MigrationsSpec

-----------------------------------------------------------------------------
(* ProcessRepository                                                       *)

Starts == [at : Nat, zone : {"utc"}]
RowSet == [id : Nat, pid : Pids, start : Starts, restarts : Nat, seen : Nat]

\* Processes of the host, or in a snapshot of it: pid -> start time.
IsTable(f) == DOMAIN f \subseteq Pids /\ \A pid \in DOMAIN f : f[pid] \in Nat

WriterShape(state) ==
    /\ {"pc", "snapshot", "at", "existing", "sampled"} \subseteq DOMAIN state
    /\ state.at \in Nat
    /\ IsTable(state.snapshot)
    /\ DOMAIN state.existing \subseteq DOMAIN state.snapshot
    /\ \A pid \in DOMAIN state.existing : state.existing[pid] \in RowSet /\ state.existing[pid].pid = pid

\* The ids of a table have a largest one.
Bounded == \E bound \in Nat : \A r \in rows : r.id <= bound

TablesShape ==
    /\ now \in Nat /\ started \in Nat /\ IsTable(procs)
    /\ rows \subseteq RowSet /\ Bounded
    /\ DOMAIN writer = Writers
    /\ \A w \in Writers : WriterShape(writer[w]) /\ writer[w].at <= now

\* A loop that is alone writes what it has loaded before anything changes.
LoadedIsCurrent ==
    Cardinality(loops) = 1 =>
        \A w \in loops : writer[w].pc \in {"loaded", "write"} =>
            /\ DOMAIN writer[w].existing = DOMAIN writer[w].snapshot \cap {r.pid : r \in rows}
            /\ \A pid \in DOMAIN writer[w].existing : writer[w].existing[pid] \in rows

RowsInv == TablesShape /\ loops \subseteq Writers /\ LoadedIsCurrent /\ OneRowPerPid

LEMMA MaxIsLargest ==
  ASSUME NEW S \in SUBSET Nat, S # {}, NEW bound \in Nat, \A x \in S : x <= bound
  PROVE  Max(S) \in S /\ \A x \in S : Max(S) >= x
<1>1. \E m \in S : \A x \in S : m >= x
  BY LargestExists
<1> QED BY <1>1 DEF Max

LEMMA NextIdIsNew ==
  ASSUME TablesShape
  PROVE  NextId \in Nat /\ \A r \in rows : r.id < NextId
<1>1. CASE rows = {}
  BY <1>1 DEF NextId
<1>2. CASE rows # {}
  <2> DEFINE S == {r.id : r \in rows}
  <2>1. S \in SUBSET Nat /\ S # {} /\ \A r \in rows : r.id \in S /\ r.id \in Nat
    BY <1>2 DEF TablesShape, RowSet
  <2>2. PICK bound \in Nat : \A r \in rows : r.id <= bound
    BY DEF TablesShape, Bounded
  <2>3. \A x \in S : x <= bound
    BY <2>2
  <2>4. NextId = Max(S) + 1
    BY <1>2 DEF NextId
  <2> HIDE DEF S
  <2>5. Max(S) \in Nat /\ \A x \in S : Max(S) >= x
    BY <2>1, <2>2, <2>3, MaxIsLargest
  <2> QED BY <2>1, <2>4, <2>5
<1> QED BY <1>1, <1>2

\* Of the rows of a pid there is a last one.
LEMMA RowOfIsRow ==
  ASSUME TablesShape, NEW pid, \E r \in rows : r.pid = pid
  PROVE  RowOf(pid) \in rows /\ RowOf(pid).pid = pid
<1> DEFINE S == {r.id : r \in {q \in rows : q.pid = pid}}
<1>1. S \in SUBSET Nat /\ S # {}
  BY DEF TablesShape, RowSet
<1>2. PICK bound \in Nat : \A x \in S : x <= bound
  BY DEF TablesShape, Bounded
<1>3. PICK m \in S : \A x \in S : m >= x
  <2> HIDE DEF S
  <2> QED BY <1>1, <1>2, LargestExists
<1>4. PICK r \in rows : r.pid = pid /\ r.id = m
  OBVIOUS
<1>5. \A q \in rows : q.pid = pid => q.id <= r.id
  BY <1>1, <1>3, <1>4
<1> QED BY <1>4, <1>5 DEF RowOf

\* What a commit writes: rows with new ids, and rows that were loaded.
LEMMA InsertedIsRow ==
  ASSUME TablesShape, NEW w \in Writers, NEW pid \in Unknown(w)
  PROVE  /\ Inserted(w, pid) \in RowSet /\ Inserted(w, pid).pid = pid
         /\ Inserted(w, pid).id >= NextId
         /\ Inserted(w, pid).id <= NextId + Cardinality(Pids)
<1> DEFINE before == {p \in Unknown(w) : p < pid}
<1>1. WriterShape(writer[w]) /\ pid \in Pids /\ writer[w].snapshot[pid] \in Nat
  BY DEF TablesShape, Unknown, WriterShape, IsTable
<1>2. before \in SUBSET Pids
  BY <1>1 DEF Unknown, WriterShape, IsTable
<1>3. IsFiniteSet(Pids)
  BY RepositoryAssumption
<1>4. /\ IsFiniteSet(before) /\ Cardinality(before) <= Cardinality(Pids)
      /\ Cardinality(before) \in Nat /\ Cardinality(Pids) \in Nat
  <2> HIDE DEF before
  <2> QED BY <1>2, <1>3, FS_Subset, FS_CardinalityType
<1>5. NextId \in Nat
  BY NextIdIsNew
<1>6. Inserted(w, pid) = [id |-> NextId + Cardinality(before), pid |-> pid,
                          start |-> [at |-> writer[w].snapshot[pid], zone |-> "utc"],
                          restarts |-> 0, seen |-> writer[w].at]
  BY DEF Inserted, Aware
<1> HIDE DEF before
<1>7. writer[w].at \in Nat
  BY <1>1 DEF WriterShape
<1> QED BY <1>1, <1>4, <1>5, <1>6, <1>7 DEF RowSet, Starts

LEMMA UpdatedIsRow ==
  ASSUME TablesShape, NEW w \in Writers, NEW pid \in DOMAIN writer[w].existing, NEW row \in Found(w, pid)
  PROVE  /\ row \in rows /\ row \in RowSet
         /\ Updated(w, pid, row) \in RowSet /\ Updated(w, pid, row).pid = row.pid
         /\ Updated(w, pid, row).id = row.id /\ row.id = writer[w].existing[pid].id
         /\ Updated(w, pid, row).start = Aware(writer[w].snapshot[pid])
         /\ Updated(w, pid, row).seen = writer[w].at
<1> DEFINE old == writer[w].existing[pid]
           begun == writer[w].snapshot[pid]
           count == IF RestartSeen(old, begun) /\ old.restarts < MaxRestarts THEN old.restarts + 1 ELSE row.restarts
<1>1. old \in RowSet /\ begun \in Nat /\ writer[w].at \in Nat
  BY DEF TablesShape, WriterShape, IsTable
<1>2. row \in rows /\ row \in RowSet /\ row.id = old.id
  BY DEF Found, TablesShape
<1>3. Updated(w, pid, row) = [row EXCEPT !.start = Aware(begun), !.restarts = count, !.seen = writer[w].at]
  BY <1>2 DEF Updated, RowSet
<1>4. Aware(begun) \in Starts /\ count \in Nat
  BY <1>1, <1>2 DEF Aware, Starts, RowSet
<1> DEFINE new == Updated(w, pid, row)
<1> HIDE DEF old, count, begun, new
<1>5. new = [row EXCEPT !.start = Aware(begun), !.restarts = count, !.seen = writer[w].at]
  BY <1>3 DEF new
<1>6. new \in RowSet
  BY <1>1, <1>2, <1>4, <1>5 DEF RowSet
<1>7. new.pid = row.pid /\ new.id = row.id /\ new.start = Aware(begun) /\ new.seen = writer[w].at
  BY <1>2, <1>5 DEF RowSet
<1> QED BY <1>2, <1>6, <1>7 DEF new, old, begun

LEMMA WrittenAre ==
  ASSUME NEW w, NEW r \in Written(w)
  PROVE  \/ \E pid \in Unknown(w) : r = Inserted(w, pid)
         \/ \E pid \in DOMAIN writer[w].existing : \E row \in Found(w, pid) : r = Updated(w, pid, row)
BY DEF Written

\* A commit keeps the shape of the table.
LEMMA CommitRows ==
  ASSUME TablesShape, NEW w \in Writers, Commit(w)
  PROVE  rows' \subseteq RowSet /\ Bounded'
<1>1. rows' = Kept(w) \cup Written(w) /\ ~Conflict(w)
  BY DEF Commit
<1>2. ASSUME NEW r \in Written(w)
      PROVE  /\ r \in RowSet
             /\ (\E q \in rows : r.id = q.id) \/ r.id <= NextId + Cardinality(Pids)
  <2>1. CASE \E pid \in Unknown(w) : r = Inserted(w, pid)
    BY <2>1, InsertedIsRow
  <2>2. CASE \E pid \in DOMAIN writer[w].existing : \E row \in Found(w, pid) : r = Updated(w, pid, row)
    BY <2>2, UpdatedIsRow
  <2> QED BY <2>1, <2>2, WrittenAre
<1>3. rows \subseteq RowSet /\ Kept(w) \subseteq rows
  BY DEF TablesShape, Kept
<1>4. PICK bound \in Nat : \A r \in rows : r.id <= bound
  BY DEF TablesShape, Bounded
<1>5. NextId + Cardinality(Pids) \in Nat
  <2>1. Cardinality(Pids) \in Nat
    BY RepositoryAssumption, FS_CardinalityType
  <2> QED BY <2>1, NextIdIsNew
<1> DEFINE larger == bound + NextId + Cardinality(Pids)
<1>6. larger \in Nat /\ \A r \in rows' : r.id <= larger
  <2>1. NextId \in Nat /\ Cardinality(Pids) \in Nat
    BY RepositoryAssumption, FS_CardinalityType, NextIdIsNew
  <2>2. ASSUME NEW r \in rows' PROVE r.id <= larger
    <3>1. r \in RowSet /\ r.id \in Nat
      BY <1>1, <1>2, <1>3 DEF RowSet
    <3>2. (\E q \in rows : r.id = q.id) \/ r.id <= NextId + Cardinality(Pids)
      BY <1>1, <1>2, <1>3
    <3> QED BY <1>4, <2>1, <3>1, <3>2
  <2> QED BY <2>1, <2>2
<1> QED BY <1>1, <1>2, <1>3, <1>6 DEF Bounded

\* A scan loop takes a step that leaves the tables and the host alone.
LEMMA WriterStep ==
  ASSUME TablesShape, NEW w \in Writers, NEW state, Do(w, state), WriterShape(state), state.at <= now,
         UNCHANGED << procs, started, now, rows >>
  PROVE  TablesShape' /\ writer'[w] = state /\ \A v \in Writers \ {w} : writer'[v] = writer[v]
<1>1. DOMAIN writer' = Writers /\ writer'[w] = state /\ \A v \in Writers \ {w} : writer'[v] = writer[v]
  BY DEF Do, TablesShape
<1>2. ASSUME NEW v \in Writers PROVE WriterShape(writer[v])' /\ writer'[v].at <= now'
  BY <1>1 DEF TablesShape, WriterShape, IsTable
<1> QED BY <1>1, <1>2 DEF TablesShape, IsTable, Bounded

LEMMA NobodyShape ==
  WriterShape(Nobody) /\ Nobody.at = 0 /\ Nobody.pc = "idle"
BY DEF Nobody, WriterShape, IsTable

\* The steps of an upsert, one after the other, and what they leave in hand.
LEMMA ScanStep ==
  ASSUME TablesShape, NEW w \in Writers, Scan(w)
  PROVE  TablesShape' /\ rows' = rows /\ writer'[w].pc = "scanned"
         /\ \A v \in Writers \ {w} : writer'[v] = writer[v]
<1> DEFINE state == [Nobody EXCEPT !.pc = "scanned", !.snapshot = procs]
<1>1. Do(w, state) /\ UNCHANGED << procs, started, now, rows >>
  BY DEF Scan
<1>2. WriterShape(state) /\ state.at = 0 /\ state.pc = "scanned"
  BY DEF Nobody, WriterShape, IsTable, TablesShape
<1> HIDE DEF state
<1>3. state.at <= now
  BY <1>2 DEF TablesShape
<1> QED BY <1>1, <1>2, <1>3, WriterStep

LEMMA LoadStep ==
  ASSUME TablesShape, NEW w \in Writers, Load(w)
  PROVE  /\ TablesShape' /\ rows' = rows
         /\ \A v \in Writers \ {w} : writer'[v] = writer[v]
         /\ writer'[w].snapshot = writer[w].snapshot
         /\ DOMAIN writer'[w].existing = DOMAIN writer[w].snapshot \cap {r.pid : r \in rows}
         /\ \A pid \in DOMAIN writer'[w].existing : writer'[w].existing[pid] \in rows
<1> DEFINE loaded == [pid \in DOMAIN writer[w].snapshot \cap {r.pid : r \in rows} |-> RowOf(pid)]
           state == [writer[w] EXCEPT !.pc = "loaded", !.at = now, !.existing = loaded]
<1>1. Do(w, state) /\ UNCHANGED << procs, started, now, rows >>
  BY DEF Load
<1>2. \A pid \in DOMAIN loaded : loaded[pid] \in rows /\ loaded[pid].pid = pid
  <2> TAKE pid \in DOMAIN loaded
  <2>1. \E r \in rows : r.pid = pid
    OBVIOUS
  <2>2. RowOf(pid) \in rows /\ RowOf(pid).pid = pid
    BY <2>1, RowOfIsRow
  <2> QED BY <2>2
<1>3. /\ state.snapshot = writer[w].snapshot /\ state.at = now /\ state.existing = loaded
      /\ {"pc", "snapshot", "at", "existing", "sampled"} \subseteq DOMAIN state
  BY DEF TablesShape, WriterShape
<1>4. DOMAIN loaded = DOMAIN writer[w].snapshot \cap {r.pid : r \in rows}
  OBVIOUS
<1> HIDE DEF state, loaded
<1>5. WriterShape(state) /\ state.at <= now
  <2>1. now \in Nat /\ rows \subseteq RowSet /\ IsTable(writer[w].snapshot)
    BY DEF TablesShape, WriterShape
  <2> QED BY <1>2, <1>3, <1>4, <2>1 DEF WriterShape, IsTable
<1>6. TablesShape' /\ writer'[w] = state /\ \A v \in Writers \ {w} : writer'[v] = writer[v]
  BY <1>1, <1>5, WriterStep
<1> QED BY <1>1, <1>2, <1>3, <1>4, <1>6

LEMMA PeekStep ==
  ASSUME TablesShape, NEW w \in Writers, Peek(w)
  PROVE  /\ TablesShape' /\ rows' = rows /\ writer[w].pc = "loaded"
         /\ \A v \in Writers \ {w} : writer'[v] = writer[v]
         /\ writer'[w].snapshot = writer[w].snapshot /\ writer'[w].existing = writer[w].existing
<1>1. PICK sampled : Do(w, [writer[w] EXCEPT !.pc = "write", !.sampled = sampled])
  BY DEF Peek
<1> DEFINE state == [writer[w] EXCEPT !.pc = "write", !.sampled = sampled]
<1>2. Do(w, state) /\ UNCHANGED << procs, started, now, rows >> /\ writer[w].pc = "loaded"
  BY <1>1 DEF Peek
<1>3. /\ state.snapshot = writer[w].snapshot /\ state.at = writer[w].at /\ state.existing = writer[w].existing
      /\ {"pc", "snapshot", "at", "existing", "sampled"} \subseteq DOMAIN state
  BY DEF TablesShape, WriterShape
<1> HIDE DEF state
<1>4. WriterShape(state) /\ state.at <= now
  BY <1>3 DEF TablesShape, WriterShape, IsTable
<1>5. TablesShape' /\ writer'[w] = state /\ \A v \in Writers \ {w} : writer'[v] = writer[v]
  BY <1>2, <1>4, WriterStep
<1> QED BY <1>2, <1>3, <1>5

LEMMA CommitStep ==
  ASSUME TablesShape, NEW w \in Writers, Commit(w)
  PROVE  /\ TablesShape' /\ writer'[w].pc = "idle"
         /\ \A v \in Writers \ {w} : writer'[v] = writer[v]
<1>1. rows' \subseteq RowSet /\ Bounded' /\ UNCHANGED << procs, started, now >>
  BY CommitRows DEF Commit
<1>2. /\ DOMAIN writer' = Writers /\ writer'[w] = Nobody
      /\ \A v \in Writers \ {w} : writer'[v] = writer[v]
  BY DEF Commit, Do, TablesShape
<1>3. ASSUME NEW v \in Writers PROVE WriterShape(writer'[v]) /\ writer'[v].at <= now
  <2>1. CASE v = w
    BY <1>2, <2>1, NobodyShape DEF TablesShape, WriterShape, IsTable
  <2>2. CASE v # w
    BY <1>2, <2>2 DEF TablesShape, WriterShape, IsTable
  <2> QED BY <2>1, <2>2
<1> QED BY <1>1, <1>2, <1>3, NobodyShape DEF TablesShape, IsTable, WriterShape

LEMMA RollbackStep ==
  ASSUME TablesShape, NEW w \in Writers, Rollback(w)
  PROVE  /\ TablesShape' /\ rows' = rows /\ writer'[w].pc = "idle"
         /\ \A v \in Writers \ {w} : writer'[v] = writer[v]
<1>1. Do(w, Nobody) /\ UNCHANGED << procs, started, now, rows >>
  BY DEF Rollback
<1>2. Nobody.at <= now
  BY NobodyShape DEF TablesShape
<1> QED BY <1>1, <1>2, NobodyShape, WriterStep

\* The host moves on, time passes, history is purged.
LEMMA WorldStep ==
  ASSUME TablesShape,
         \/ \E pid \in Pids : Start(pid) \/ Exit(pid)
         \/ Pass
         \/ \E w \in Writers : Purge(w)
         \/ UNCHANGED vars
  PROVE  TablesShape' /\ UNCHANGED << rows, writer, loops >>
<1> now \in Nat /\ started \in Nat
  BY DEF TablesShape
<1>1. UNCHANGED << rows, writer, loops >> /\ now' \in Nat /\ now <= now' /\ started' \in Nat
  <2> DEFINE Moved == /\ UNCHANGED << rows, writer, loops >>
                      /\ now' \in Nat /\ now <= now' /\ started' \in Nat
  <2>1. ASSUME NEW pid \in Pids, Start(pid) \/ Exit(pid) PROVE Moved
    <3>1. UNCHANGED << rows, writer, loops, now >> /\ (started' = started + 1 \/ started' = started)
      BY <2>1 DEF Start, Exit
    <3> QED BY <3>1
  <2>2. ASSUME Pass PROVE Moved
    BY <2>2 DEF Pass
  <2>3. ASSUME NEW w \in Writers, Purge(w) PROVE Moved
    BY <2>3 DEF Purge
  <2>4. ASSUME UNCHANGED vars PROVE Moved
    BY <2>4 DEF vars
  <2> QED BY <2>1, <2>2, <2>3, <2>4
<1>2. IsTable(procs)'
  <2>1. ASSUME NEW pid \in Pids, Start(pid) PROVE IsTable(procs)'
    BY <2>1 DEF Start, TablesShape, IsTable
  <2>2. ASSUME NEW pid \in Pids, Exit(pid) PROVE IsTable(procs)'
    BY <2>2 DEF Exit, TablesShape, IsTable
  <2> QED BY <2>1, <2>2 DEF Pass, Purge, vars, TablesShape, IsTable
<1> QED BY <1>1, <1>2 DEF TablesShape, Bounded, WriterShape, IsTable

-----------------------------------------------------------------------------
(* The types of the tables.                                                *)

Begun == 1..started

\* Of what a scan loop has in hand, each row is another one.
Held(state) ==
    /\ state.pc \in {"idle", "scanned", "loaded", "write"}
    /\ \A pid \in DOMAIN state.snapshot : state.snapshot[pid] \in Begun
    /\ \A pid \in DOMAIN state.existing : state.existing[pid].id # 0
    /\ \A p, q \in DOMAIN state.existing : state.existing[p].id = state.existing[q].id => p = q

RowTyped(r) == r.id # 0 /\ r.start.at \in Begun /\ r.seen <= now
HistoryTyped == \A h \in history : h.process \in Nat \ {0} /\ h.at \in 0..now
IdsAreKeys == \A r, q \in rows : r.id = q.id => r = q

TypesInv ==
    /\ \A pid \in DOMAIN procs : procs[pid] \in Begun
    /\ \A r \in rows : RowTyped(r)
    /\ IdsAreKeys /\ HistoryTyped
    /\ \A w \in Writers : Held(writer[w])

\* What is inserted gets ids in the order of the pids.
LEMMA InsertedInOrder ==
  ASSUME TablesShape, NEW w \in Writers, NEW p \in Unknown(w), NEW q \in Unknown(w), p < q
  PROVE  Inserted(w, p).id < Inserted(w, q).id
<1> DEFINE before(r) == {x \in Unknown(w) : x < r}
<1>1. Unknown(w) \in SUBSET Pids
  BY DEF TablesShape, Unknown, WriterShape, IsTable
<1>2. IsFiniteSet(Pids) /\ Pids \subseteq Nat
  BY RepositoryAssumption
<1>3. before(p) \in SUBSET before(q) /\ p \in before(q) /\ p \notin before(p)
  <2>1. Unknown(w) \subseteq Nat /\ p \in Nat /\ q \in Nat
    BY <1>1, <1>2
  <2>2. ~(p < p) /\ \A x \in Unknown(w) : x < p => x < q
    BY <2>1
  <2> QED BY <2>2
<1>4. before(q) \in SUBSET Pids
  BY <1>1
<1>5. Inserted(w, p).id = NextId + Cardinality(before(p)) /\ Inserted(w, q).id = NextId + Cardinality(before(q))
  BY DEF Inserted
<1> HIDE DEF before
<1>6. IsFiniteSet(before(q)) /\ IsFiniteSet(before(p))
  BY <1>2, <1>3, <1>4, FS_Subset
<1>7. /\ Cardinality(before(p)) \in Nat /\ Cardinality(before(q)) \in Nat
      /\ Cardinality(before(p)) <= Cardinality(before(q))
      /\ Cardinality(before(p)) # Cardinality(before(q))
  BY <1>3, <1>6, FS_Subset, FS_CardinalityType
<1>8. NextId \in Nat
  BY NextIdIsNew
<1> QED BY <1>5, <1>7, <1>8

\* A commit writes each row once, and none under the id of another.
LEMMA WrittenIdsAreKeys ==
  ASSUME TablesShape, IdsAreKeys, NEW w \in Writers, Held(writer[w]),
         NEW r \in Written(w), NEW q \in Written(w), r.id = q.id
  PROVE  r = q
<1>1. ASSUME NEW p \in DOMAIN writer[w].existing, NEW row \in Found(w, p)
      PROVE  /\ Updated(w, p, row).id < NextId /\ Updated(w, p, row).id = writer[w].existing[p].id
             /\ Updated(w, p, row).id \in Nat
  BY <1>1, NextIdIsNew, UpdatedIsRow DEF RowSet
<1>2. ASSUME NEW p \in Unknown(w) PROVE Inserted(w, p).id >= NextId /\ Inserted(w, p).id \in Nat
  BY InsertedIsRow DEF RowSet
<1>3. ASSUME NEW p \in Unknown(w), NEW x \in DOMAIN writer[w].existing, NEW row \in Found(w, x)
      PROVE  Inserted(w, p).id # Updated(w, x, row).id
  <2>1. Updated(w, x, row).id < NextId /\ Updated(w, x, row).id \in Nat
    BY <1>1
  <2> QED BY <1>2, <2>1, NextIdIsNew
<1>4. ASSUME NEW p \in Unknown(w), NEW x \in Unknown(w), Inserted(w, p).id = Inserted(w, x).id PROVE p = x
  <2>1. p \in Nat /\ x \in Nat
    BY RepositoryAssumption DEF TablesShape, Unknown, WriterShape, IsTable
  <2>2. ~(p < x) /\ ~(x < p)
    BY <1>2, <1>4, InsertedInOrder
  <2> QED BY <2>1, <2>2
<1>5. ASSUME NEW p \in DOMAIN writer[w].existing, NEW x \in DOMAIN writer[w].existing,
             NEW row \in Found(w, p), NEW other \in Found(w, x),
             Updated(w, p, row).id = Updated(w, x, other).id
      PROVE  p = x /\ row = other
  <2>1. row.id = other.id /\ row \in rows /\ other \in rows
    BY <1>5, UpdatedIsRow
  <2>2. p = x
    BY <1>1, <1>5 DEF Held
  <2> QED BY <2>1, <2>2 DEF IdsAreKeys
<1>6. CASE \E p \in Unknown(w) : r = Inserted(w, p)
  BY <1>3, <1>4, <1>6, WrittenAre
<1>7. CASE \E p \in DOMAIN writer[w].existing : \E row \in Found(w, p) : r = Updated(w, p, row)
  BY <1>3, <1>5, <1>7, WrittenAre
<1> QED BY <1>6, <1>7, WrittenAre

\* A commit leaves well-typed rows under ids of their own.
LEMMA CommitTypes ==
  ASSUME TablesShape, TypesInv, NEW w \in Writers, Commit(w)
  PROVE  (\A r \in rows' : RowTyped(r)) /\ IdsAreKeys' /\ HistoryTyped'
<1>1. /\ rows' = Kept(w) \cup Written(w) /\ history' = history \cup Samples(w)
      /\ ~Conflict(w) /\ now' = now /\ started' = started
  BY DEF Commit
<1>2. writer[w].at \in Nat /\ writer[w].at <= now /\ now \in Nat /\ WriterShape(writer[w]) /\ Held(writer[w])
  BY DEF TablesShape, WriterShape, TypesInv
<1>3. ASSUME NEW r \in Written(w) PROVE RowTyped(r) /\ r.id \in Nat \ {0}
  <2>1. CASE \E pid \in Unknown(w) : r = Inserted(w, pid)
    <3>1. PICK pid \in Unknown(w) : r = Inserted(w, pid)
      BY <2>1
    <3>2. r \in RowSet /\ r.id >= NextId
      BY <3>1, InsertedIsRow
    <3>3. NextId \in Nat /\ NextId # 0
      <4>1. CASE rows = {}
        BY <4>1 DEF NextId
      <4>2. CASE rows # {}
        BY <4>2, NextIdIsNew DEF TablesShape, RowSet
      <4> QED BY <4>1, <4>2
    <3>4. r.start.at = writer[w].snapshot[pid] /\ r.seen = writer[w].at
      BY <3>1 DEF Inserted, Aware
    <3>5. pid \in DOMAIN writer[w].snapshot
      BY DEF Unknown
    <3>6. r.id \in Nat \ {0}
      BY <3>2, <3>3 DEF RowSet
    <3>7. r.start.at \in Begun
      BY <1>2, <3>4, <3>5 DEF Held
    <3> QED BY <1>2, <3>4, <3>6, <3>7 DEF RowTyped
  <2>2. CASE \E pid \in DOMAIN writer[w].existing : \E row \in Found(w, pid) : r = Updated(w, pid, row)
    <3>0. PICK pid \in DOMAIN writer[w].existing : \E row \in Found(w, pid) : r = Updated(w, pid, row)
      BY <2>2
    <3>1. PICK row \in Found(w, pid) : r = Updated(w, pid, row)
      BY <3>0
    <3>2. /\ r \in RowSet /\ r.id = writer[w].existing[pid].id
          /\ r.start = Aware(writer[w].snapshot[pid]) /\ r.seen = writer[w].at
      BY <3>1, UpdatedIsRow
    <3>3. pid \in DOMAIN writer[w].snapshot
      BY <1>2 DEF WriterShape
    <3>4. r.start.at = writer[w].snapshot[pid]
      BY <3>2 DEF Aware
    <3>5. r.id \in Nat \ {0}
      BY <1>2, <3>2 DEF Held, RowSet
    <3>6. r.start.at \in Begun
      BY <1>2, <3>3, <3>4 DEF Held
    <3> QED BY <1>2, <3>2, <3>5, <3>6 DEF RowTyped
  <2> QED BY <2>1, <2>2, WrittenAre
<1>4. Kept(w) \subseteq rows /\ \A r \in Kept(w), new \in Written(w) : new.id # r.id
  BY DEF Kept
<1>5. \A r \in rows' : RowTyped(r)
  BY <1>1, <1>3, <1>4 DEF TypesInv
<1>6. IdsAreKeys'
  <2> SUFFICES ASSUME NEW r \in rows', NEW q \in rows', r.id = q.id PROVE r = q
    BY DEF IdsAreKeys
  <2>1. CASE r \in Kept(w) /\ q \in Kept(w)
    BY <1>4, <2>1 DEF TypesInv, IdsAreKeys
  <2>2. CASE r \in Written(w) /\ q \in Written(w)
    BY <1>2, <2>2, WrittenIdsAreKeys DEF TypesInv
  <2> QED BY <1>1, <1>4, <2>1, <2>2
<1>7. HistoryTyped'
  <2>1. ASSUME NEW h \in Samples(w) PROVE h.process \in Nat \ {0} /\ h.at \in 0..now
    <3>1. PICK new \in Written(w) : h = [process |-> new.id, at |-> writer[w].at]
      BY DEF Samples
    <3> QED BY <1>2, <1>3, <3>1
  <2> QED BY <1>1, <2>1 DEF TypesInv, HistoryTyped
<1> QED BY <1>5, <1>6, <1>7
\* The ids of what was loaded are those of rows, each its own.
LEMMA LoadHolds ==
  ASSUME TablesShape, TypesInv, NEW w \in Writers, Load(w)
  PROVE  Held(writer'[w])
<1> DEFINE loaded == [pid \in DOMAIN writer[w].snapshot \cap {r.pid : r \in rows} |-> RowOf(pid)]
           state == [writer[w] EXCEPT !.pc = "loaded", !.at = now, !.existing = loaded]
<1>1. ASSUME NEW pid \in DOMAIN loaded PROVE loaded[pid] \in rows /\ loaded[pid].pid = pid
  <2>1. \E r \in rows : r.pid = pid
    OBVIOUS
  <2>2. RowOf(pid) \in rows /\ RowOf(pid).pid = pid
    BY <2>1, RowOfIsRow
  <2> QED BY <2>2
<1>2. writer'[w] = state
  BY DEF Load, Do, TablesShape
<1>3. state.snapshot = writer[w].snapshot /\ state.existing = loaded /\ state.pc = "loaded"
  BY DEF TablesShape, WriterShape
<1> HIDE DEF state, loaded
<1> QED BY <1>1, <1>2, <1>3 DEF Held, TypesInv, RowTyped, IdsAreKeys

LEMMA UpsertTypes ==
  ASSUME TablesShape, TypesInv, NEW w \in loops, w \in Writers, Upsert(w)
  PROVE  TypesInv'
<1>1. CASE Scan(w)
  <2>1. UNCHANGED << procs, started, now, rows, history >> /\ \A v \in Writers \ {w} : writer'[v] = writer[v]
    BY <1>1, ScanStep DEF Scan
  <2>2. Held(writer'[w])
    BY <1>1 DEF Scan, Do, TablesShape, Nobody, Held, TypesInv
  <2> QED BY <2>1, <2>2 DEF TypesInv, RowTyped, IdsAreKeys, HistoryTyped, Held, Begun
<1>2. CASE Load(w)
  <2>1. UNCHANGED << procs, started, now, rows, history >> /\ \A v \in Writers \ {w} : writer'[v] = writer[v]
    BY <1>2, LoadStep DEF Load
  <2>2. Held(writer'[w])
    BY <1>2, LoadHolds
  <2> QED BY <2>1, <2>2 DEF TypesInv, RowTyped, IdsAreKeys, HistoryTyped, Held, Begun
<1>3. CASE Peek(w)
  <2>1. UNCHANGED << procs, started, now, rows, history >> /\ \A v \in Writers \ {w} : writer'[v] = writer[v]
    BY <1>3, PeekStep DEF Peek
  <2>2. Held(writer'[w])
    <3>1. writer'[w].snapshot = writer[w].snapshot /\ writer'[w].existing = writer[w].existing
      BY <1>3, PeekStep
    <3>2. writer'[w].pc = "write"
      BY <1>3 DEF Peek, Do, TablesShape, WriterShape
    <3> QED BY <3>1, <3>2 DEF TypesInv, Held
  <2> QED BY <2>1, <2>2 DEF TypesInv, RowTyped, IdsAreKeys, HistoryTyped, Held, Begun
<1>4. CASE Commit(w)
  <2>1. UNCHANGED << procs, started, now >> /\ \A v \in Writers \ {w} : writer'[v] = writer[v]
    BY <1>4, CommitStep DEF Commit
  <2>2. Held(writer'[w])
    BY <1>4 DEF Commit, Do, TablesShape, Nobody, Held
  <2>3. (\A r \in rows' : RowTyped(r)) /\ IdsAreKeys' /\ HistoryTyped'
    BY <1>4, CommitTypes
  <2> QED BY <2>1, <2>2, <2>3 DEF TypesInv, RowTyped, Held, Begun
<1>5. CASE Rollback(w)
  <2>1. UNCHANGED << procs, started, now, rows, history >> /\ \A v \in Writers \ {w} : writer'[v] = writer[v]
    BY <1>5, RollbackStep DEF Rollback
  <2>2. Held(writer'[w])
    BY <1>5 DEF Rollback, Do, TablesShape, Nobody, Held
  <2> QED BY <2>1, <2>2 DEF TypesInv, RowTyped, IdsAreKeys, HistoryTyped, Held, Begun
<1> QED BY <1>1, <1>2, <1>3, <1>4, <1>5 DEF Upsert

LEMMA WorldTypes ==
  ASSUME TablesShape, TypesInv,
         \/ \E pid \in Pids : Start(pid) \/ Exit(pid)
         \/ Pass
         \/ \E w \in Writers : Purge(w)
         \/ UNCHANGED vars
  PROVE  TypesInv'
<1> now \in Nat /\ started \in Nat
  BY DEF TablesShape
<1>1. UNCHANGED << rows, writer >> /\ started <= started' /\ started' \in Nat /\ now <= now' /\ now' \in Nat
  <2> DEFINE Moved == UNCHANGED << rows, writer >> /\ started <= started' /\ started' \in Nat
                      /\ now <= now' /\ now' \in Nat
  <2>1. ASSUME NEW pid \in Pids, Start(pid) \/ Exit(pid) PROVE Moved
    <3>1. UNCHANGED << rows, writer, now >> /\ (started' = started + 1 \/ started' = started)
      BY <2>1 DEF Start, Exit
    <3> QED BY <3>1
  <2>2. ASSUME Pass PROVE Moved
    BY <2>2 DEF Pass
  <2>3. ASSUME NEW w \in Writers, Purge(w) PROVE Moved
    BY <2>3 DEF Purge
  <2>4. ASSUME UNCHANGED vars PROVE Moved
    BY <2>4 DEF vars
  <2> QED BY <2>1, <2>2, <2>3, <2>4
<1>2. Begun \subseteq Begun'
  BY <1>1 DEF Begun
<1>3. \A pid \in DOMAIN procs' : procs'[pid] \in Begun'
  <2>1. ASSUME NEW pid \in Pids, Start(pid) PROVE \A p \in DOMAIN procs' : procs'[p] \in Begun'
    <3>1. started + 1 \in Begun'
      BY <2>1 DEF Start, Begun
    <3> QED BY <1>2, <2>1, <3>1 DEF Start, TypesInv
  <2>2. ASSUME NEW pid \in Pids, Exit(pid) PROVE \A p \in DOMAIN procs' : procs'[p] \in Begun'
    BY <1>2, <2>2 DEF Exit, TypesInv
  <2> QED BY <1>2, <2>1, <2>2 DEF Pass, Purge, vars, TypesInv
<1>4. \A r \in rows' : RowTyped(r)'
  <2>1. \A r \in rows : r.seen \in Nat
    BY DEF TablesShape, RowSet
  <2>2. \A r \in rows : r.seen <= now'
    BY <1>1, <2>1 DEF TypesInv, RowTyped
  <2> QED BY <1>1, <1>2, <2>2 DEF TypesInv, RowTyped
<1>5. HistoryTyped'
  <2>1. history' \subseteq history
    BY DEF Start, Exit, Pass, Purge, vars
  <2>2. 0..now \subseteq 0..now'
    BY <1>1
  <2> QED BY <2>1, <2>2 DEF TypesInv, HistoryTyped
<1>6. \A w \in Writers : Held(writer[w])'
  BY <1>1, <1>2 DEF TypesInv, Held
<1> QED BY <1>1, <1>3, <1>4, <1>5, <1>6 DEF TypesInv, IdsAreKeys

LEMMA TypesInit == Init => TypesInv
<1> SUFFICES ASSUME Init PROVE TypesInv
  OBVIOUS
<1>1. DOMAIN procs = {} /\ rows = {} /\ history = {} /\ \A w \in Writers : writer[w] = Nobody
  BY DEF Init
<1>2. Held(Nobody)
  BY DEF Held, Nobody
<1> QED BY <1>1, <1>2 DEF TypesInv, IdsAreKeys, HistoryTyped

LEMMA TypesNext == RowsInv /\ TypesInv /\ [Next]_vars => TypesInv'
<1> SUFFICES ASSUME RowsInv, TypesInv, [Next]_vars PROVE TypesInv'
  OBVIOUS
<1>1. TablesShape /\ loops \subseteq Writers
  BY DEF RowsInv
<1>2. CASE \E w \in loops : Upsert(w)
  BY <1>1, <1>2, UpsertTypes
<1>3. CASE ~\E w \in loops : Upsert(w)
  BY <1>1, <1>3, WorldTypes DEF Next, Upsert
<1> QED BY <1>2, <1>3

LEMMA TypesSuffice == RowsInv /\ TypesInv => TypeOK
<1> SUFFICES ASSUME RowsInv, TypesInv PROVE TypeOK
  OBVIOUS
<1>1. DOMAIN procs \subseteq Pids /\ loops \subseteq Writers
  BY DEF RowsInv, TablesShape, IsTable
<1>2. ASSUME NEW r \in rows
      PROVE  /\ r.pid \in Pids /\ r.id \in Nat \ {0} /\ r.restarts \in Nat
             /\ r.start.at \in 1..started /\ r.seen \in 0..now
  <2>1. r \in RowSet /\ now \in Nat
    BY DEF RowsInv, TablesShape
  <2>2. r.id # 0 /\ r.start.at \in Begun /\ r.seen <= now
    BY DEF TypesInv, RowTyped
  <2>3. r.pid \in Pids /\ r.id \in Nat /\ r.restarts \in Nat /\ r.seen \in Nat
    BY <2>1 DEF RowSet
  <2> QED BY <2>1, <2>2, <2>3 DEF Begun
<1>3. ASSUME NEW w \in Writers
      PROVE  writer[w].pc \in {"idle", "scanned", "loaded", "write"} /\ writer[w].at \in 0..now
  BY DEF RowsInv, TablesShape, WriterShape, TypesInv, Held
<1> QED BY <1>1, <1>2, <1>3 DEF TypeOK, TypesInv, HistoryTyped, IdsAreKeys, Begun


-----------------------------------------------------------------------------

\* What a loop that is alone writes: for each pid of its snapshot a row, the
\* one it has loaded or a new one.
LEMMA WrittenWhenAlone ==
  ASSUME RowsInv, TypesInv, NEW w \in loops, Alone, writer[w].pc = "write"
  PROVE  /\ \A pid \in DOMAIN writer[w].existing :
               writer[w].existing[pid] \in rows /\ Found(w, pid) = {writer[w].existing[pid]}
         /\ \A r \in Written(w) :
               /\ r.pid \in DOMAIN writer[w].snapshot
               /\ r.pid \in Unknown(w) => r = Inserted(w, r.pid)
               /\ r.pid \notin Unknown(w) => /\ r.pid \in DOMAIN writer[w].existing
                                             /\ r = Updated(w, r.pid, writer[w].existing[r.pid])
         /\ \A r, q \in Written(w) : r.pid = q.pid => r = q
<1>1. /\ w \in Writers /\ TablesShape /\ WriterShape(writer[w])
      /\ DOMAIN writer[w].existing = DOMAIN writer[w].snapshot \cap {r.pid : r \in rows}
      /\ \A pid \in DOMAIN writer[w].existing : writer[w].existing[pid] \in rows
  BY DEF RowsInv, TablesShape, LoadedIsCurrent, Alone
<1>2. ASSUME NEW pid \in DOMAIN writer[w].existing
      PROVE  Found(w, pid) = {writer[w].existing[pid]} /\ writer[w].existing[pid].pid = pid
  BY <1>1 DEF Found, TypesInv, IdsAreKeys, WriterShape
<1>3. ASSUME NEW r \in Written(w)
      PROVE  /\ r.pid \in DOMAIN writer[w].snapshot
             /\ r.pid \in Unknown(w) => r = Inserted(w, r.pid)
             /\ r.pid \notin Unknown(w) => /\ r.pid \in DOMAIN writer[w].existing
                                           /\ r = Updated(w, r.pid, writer[w].existing[r.pid])
  <2>1. CASE \E pid \in Unknown(w) : r = Inserted(w, pid)
    BY <1>1, <2>1, InsertedIsRow DEF Unknown
  <2>2. CASE \E pid \in DOMAIN writer[w].existing : \E row \in Found(w, pid) : r = Updated(w, pid, row)
    <3>0. PICK pid \in DOMAIN writer[w].existing : \E row \in Found(w, pid) : r = Updated(w, pid, row)
      BY <2>2
    <3>1. PICK row \in Found(w, pid) : r = Updated(w, pid, row)
      BY <3>0
    <3>2. row = writer[w].existing[pid] /\ row.pid = pid
      BY <1>2
    <3>3. r.pid = pid
      BY <1>1, <3>1, <3>2, UpdatedIsRow
    <3> QED BY <1>1, <3>1, <3>2, <3>3 DEF Unknown
  <2> QED BY <2>1, <2>2, WrittenAre
<1> QED BY <1>1, <1>2, <1>3

\* The rows of the pids in its snapshot are replaced, the others left alone.
LEMMA KeptWhenAlone ==
  ASSUME RowsInv, TypesInv, NEW w \in loops, Alone, writer[w].pc = "write",
         NEW r \in rows, \A new \in Written(w) : new.id # r.id
  PROVE  r.pid \notin DOMAIN writer[w].snapshot
<1>1. /\ w \in Writers /\ TablesShape /\ WriterShape(writer[w])
      /\ DOMAIN writer[w].existing = DOMAIN writer[w].snapshot \cap {q.pid : q \in rows}
      /\ \A p, q \in rows : p.pid = q.pid => p = q
  BY DEF RowsInv, TablesShape, LoadedIsCurrent, Alone, OneRowPerPid
<1>2. SUFFICES ASSUME r.pid \in DOMAIN writer[w].snapshot PROVE FALSE
  OBVIOUS
<1>3. r.pid \in DOMAIN writer[w].existing
  BY <1>1, <1>2
<1>4. writer[w].existing[r.pid] \in rows /\ writer[w].existing[r.pid] \in Found(w, r.pid)
  BY <1>3, WrittenWhenAlone
<1>5. writer[w].existing[r.pid] = r
  BY <1>1, <1>3, <1>4 DEF WriterShape
<1>6. Updated(w, r.pid, r) \in Written(w)
  BY <1>3, <1>4, <1>5 DEF Written
<1>7. Updated(w, r.pid, r).id = r.id
  BY <1>1, <1>3, <1>4, <1>5, UpdatedIsRow
<1> QED BY <1>6, <1>7

\* With one loop, a commit keeps one row for each pid.
LEMMA CommitKeepsOne ==
  ASSUME RowsInv, TypesInv, NEW w \in loops, Commit(w), Cardinality(loops) = 1
  PROVE  \A r, q \in rows' : r.pid = q.pid => r = q
<1>1. rows' = Kept(w) \cup Written(w) /\ writer[w].pc = "write"
  BY DEF Commit
<1>2. \A r, q \in Kept(w) : r.pid = q.pid => r = q
  BY DEF Kept, RowsInv, OneRowPerPid
<1>3. Alone
  BY DEF Alone
<1>4. \A r \in Kept(w) : r.pid \notin DOMAIN writer[w].snapshot
  BY <1>1, <1>3, KeptWhenAlone DEF Kept
<1>5. /\ \A r \in Written(w) : r.pid \in DOMAIN writer[w].snapshot
      /\ \A r, q \in Written(w) : r.pid = q.pid => r = q
  BY <1>1, <1>3, WrittenWhenAlone
<1> QED BY <1>1, <1>2, <1>4, <1>5

LEMMA RowsNext == RowsInv /\ TypesInv /\ [Next]_vars => RowsInv'
<1> SUFFICES ASSUME RowsInv, TypesInv, [Next]_vars PROVE RowsInv'
  OBVIOUS
<1>1. ASSUME NEW w \in loops, Upsert(w) PROVE RowsInv'
  <2>1. w \in Writers /\ loops' = loops /\ TablesShape
    BY <1>1 DEF RowsInv, Upsert, Scan, Load, Peek, Commit, Rollback
  <2>2. TablesShape'
    BY <1>1, <2>1, ScanStep, LoadStep, PeekStep, CommitStep, RollbackStep DEF Upsert
  <2>3. ASSUME Cardinality(loops) = 1 PROVE loops = {w}
    <3>1. IsFiniteSet(loops)
      BY RepositoryAssumption, FS_Subset DEF RowsInv
    <3> QED BY <2>3, <3>1, FS_Singleton
  <2>4. LoadedIsCurrent'
    <3> SUFFICES ASSUME Cardinality(loops) = 1, writer'[w].pc \in {"loaded", "write"}
                 PROVE  /\ DOMAIN writer'[w].existing = DOMAIN writer'[w].snapshot \cap {r.pid : r \in rows'}
                        /\ \A pid \in DOMAIN writer'[w].existing : writer'[w].existing[pid] \in rows'
      BY <2>1, <2>3 DEF LoadedIsCurrent
    <3>1. ~Scan(w) /\ ~Commit(w) /\ ~Rollback(w)
      BY <2>1, ScanStep, CommitStep, RollbackStep
    <3>2. CASE Load(w)
      BY <2>1, <3>2, LoadStep
    <3>3. CASE Peek(w)
      BY <2>1, <3>3, PeekStep DEF RowsInv, LoadedIsCurrent
    <3> QED BY <1>1, <3>1, <3>2, <3>3 DEF Upsert
  <2>5. OneRowPerPid'
    <3>1. CASE Commit(w)
      BY <2>1, <3>1, CommitKeepsOne DEF OneRowPerPid
    <3>2. CASE ~Commit(w)
      <4>1. rows' = rows
        BY <1>1, <2>1, <3>2, ScanStep, LoadStep, PeekStep, RollbackStep DEF Upsert
      <4> QED BY <2>1, <4>1 DEF RowsInv, OneRowPerPid
    <3> QED BY <3>1, <3>2
  <2> QED BY <2>1, <2>2, <2>4, <2>5 DEF RowsInv
<1>2. CASE ~\E w \in loops : Upsert(w)
  <2>1. TablesShape' /\ UNCHANGED << rows, writer, loops >>
    BY <1>2, WorldStep DEF RowsInv, Next, Upsert
  <2> QED BY <2>1 DEF RowsInv, LoadedIsCurrent, OneRowPerPid
<1> QED BY <1>1, <1>2

LEMMA RowsInit == Init => RowsInv
<1> SUFFICES ASSUME Init PROVE RowsInv
  OBVIOUS
<1>1. /\ now = 0 /\ started = 0 /\ DOMAIN procs = {} /\ rows = {}
      /\ DOMAIN writer = Writers /\ \A w \in Writers : writer[w] = Nobody
  BY DEF Init
<1>2. loops \subseteq Writers
  BY RepositoryAssumption DEF Init
<1>3. \A w \in Writers : WriterShape(writer[w]) /\ writer[w].at = 0 /\ writer[w].pc = "idle"
  BY <1>1, NobodyShape DEF WriterShape
<1>4. TablesShape
  BY <1>1, <1>3 DEF TablesShape, IsTable, Bounded
<1> QED BY <1>1, <1>2, <1>3, <1>4 DEF RowsInv, LoadedIsCurrent, OneRowPerPid

\* "Return one process by PID." (repository.py:155) has one answer when one
\* loop scans, however often the pid is used again.
THEOREM OneRowHolds == Spec => []OneRowPerPid
<1>1. RowsInv => OneRowPerPid
  BY DEF RowsInv
<1> QED BY <1>1, RowsInit, RowsNext, TypesInit, TypesNext, PTL DEF Spec

\* However many loops share the table, each purging by the time its own upsert
\* began: what any of them has seen within the last 30 seconds stays.
THEOREM FreshRowsStay == Spec => FreshRowsAreKept
<1> DEFINE Fresh == \A r \in rows : (\A q \in rows' : q.id # r.id) => now - r.seen > Stale
<1>1. ASSUME RowsInv, [Next]_vars PROVE Fresh
  <2> SUFFICES ASSUME NEW r \in rows, \A q \in rows' : q.id # r.id PROVE now - r.seen > Stale
    OBVIOUS
  <2>1. rows' # rows
    OBVIOUS
  <2>2. PICK w \in Writers : Commit(w)
    BY <1>1, <2>1 DEF Next, Upsert, Start, Exit, Pass, Purge, Scan, Load, Peek, Rollback, vars
  <2>3. rows' = Kept(w) \cup Written(w)
    BY <2>2 DEF Commit
  <2>4. ~(r.seen >= writer[w].at - Stale)
    BY <2>3 DEF Kept
  <2>5. r.seen \in Nat /\ writer[w].at \in Nat /\ now \in Nat /\ writer[w].at <= now /\ Stale \in Nat
    BY <1>1, RepositoryAssumption DEF RowsInv, TablesShape, RowSet, WriterShape
  <2> QED BY <2>4, <2>5
<1> QED BY <1>1, RowsInit, RowsNext, TypesInit, TypesNext, PTL DEF Spec, FreshRowsAreKept

\* What the tables hold, for any number of scan loops: rows of processes that
\* have been started, under ids of their own, seen in the past.
THEOREM RepositoryTypeCorrect == Spec => []TypeOK
<1> QED BY RowsInit, RowsNext, TypesInit, TypesNext, TypesSuffice, PTL DEF Spec
-----------------------------------------------------------------------------
(* The samples of a row lie apart.                                         *)

\* A loop that is alone has looked at the history as it still is.
PeekedIsCurrent ==
    Cardinality(loops) = 1 =>
        \A w \in loops : writer[w].pc = "write" =>
            \A id \in DOMAIN writer[w].sampled : writer[w].sampled[id] = LastSample(id)

SamplesInv == PeekedIsCurrent /\ SamplesAreSpaced

LEMMA LastSampleIsLast ==
  ASSUME TablesShape, HistoryTyped, NEW id
  PROVE  \/ LastSample(id) = -1 /\ \A h \in history : h.process # id
         \/ /\ LastSample(id) \in Nat /\ \A h \in history : h.process = id => h.at <= LastSample(id)
            /\ \E h \in history : h.process = id /\ h.at = LastSample(id)
<1> DEFINE times == {h.at : h \in {x \in history : x.process = id}}
<1>1. CASE times = {}
  BY <1>1 DEF LastSample
<1>2. CASE times # {}
  <2>1. now \in Nat
    BY DEF TablesShape
  <2>2. \A t \in times : t \in 0..now
    BY DEF HistoryTyped
  <2>3. LastSample(id) = Max(times)
    BY <1>2 DEF LastSample
  <2>4. /\ \A h \in history : h.process = id => h.at \in times
        /\ \A t \in times : \E h \in history : h.process = id /\ h.at = t
    OBVIOUS
  <2> HIDE DEF times
  <2>5. times \in SUBSET Nat /\ \A t \in times : t <= now
    BY <2>1, <2>2
  <2>6. Max(times) \in times /\ \A t \in times : Max(times) >= t
    BY <1>2, <2>1, <2>5, MaxIsLargest
  <2>7. \A t \in times : t <= Max(times)
    BY <2>5, <2>6
  <2> QED BY <2>3, <2>4, <2>5, <2>6, <2>7
<1> QED BY <1>1, <1>2

\* A sample is taken under an id that has had none within the interval.
LEMMA SampleIsDue ==
  ASSUME RowsInv, TypesInv, SamplesInv, NEW w \in loops, Commit(w), Cardinality(loops) = 1,
         NEW new \in Samples(w)
  PROVE  /\ new = [process |-> new.process, at |-> writer[w].at]
         /\ \A h \in history : h.process = new.process => writer[w].at - h.at > Interval
<1> DEFINE last(row) == IF row.id \in DOMAIN writer[w].sampled
                        THEN writer[w].sampled[row.id] ELSE LastSample(row.id)
<1>1. PICK row \in Written(w) : /\ new = [process |-> row.id, at |-> writer[w].at]
                                /\ last(row) = -1 \/ last(row) < writer[w].at - Interval
  BY DEF Samples
<1>2. /\ w \in Writers /\ TablesShape /\ HistoryTyped /\ writer[w].pc = "write"
      /\ writer[w].at \in Nat /\ Interval \in Nat
  BY RepositoryAssumption DEF RowsInv, TablesShape, WriterShape, TypesInv, Commit
<1>3. last(row) = LastSample(row.id)
  BY <1>2 DEF SamplesInv, PeekedIsCurrent
<1> HIDE DEF last
<1>5. LastSample(row.id) = -1 \/ LastSample(row.id) < writer[w].at - Interval
  BY <1>1, <1>3
<1>6. ASSUME NEW h \in history, h.process = row.id PROVE writer[w].at - h.at > Interval
  <2>1. LastSample(row.id) \in Nat /\ h.at <= LastSample(row.id)
    BY <1>2, <1>6, LastSampleIsLast
  <2>2. h.at \in Nat
    BY <1>2 DEF HistoryTyped, TablesShape
  <2> QED BY <1>2, <1>5, <2>1, <2>2
<1> QED BY <1>1, <1>6

LEMMA SamplesNext == RowsInv /\ TypesInv /\ SamplesInv /\ [Next]_vars => SamplesInv'
<1> SUFFICES ASSUME RowsInv, TypesInv, SamplesInv, [Next]_vars, Cardinality(loops') = 1
             PROVE  SamplesInv'
  BY DEF SamplesInv, PeekedIsCurrent, SamplesAreSpaced
<1>1. loops' = loops /\ loops \subseteq Writers /\ TablesShape
  BY DEF RowsInv, Next, Upsert, Start, Exit, Pass, Purge, Scan, Load, Peek, Commit, Rollback, vars
<1>2. Cardinality(loops) = 1 /\ IsFiniteSet(loops)
  BY <1>1, RepositoryAssumption, FS_Subset
<1>3. ASSUME NEW w \in loops PROVE loops = {w}
  BY <1>2, FS_Singleton
<1>4. ASSUME NEW w \in loops, Commit(w) PROVE SamplesInv'
  <2>1. writer'[w].pc = "idle"
    BY <1>1, <1>4, CommitStep
  <2>2. PeekedIsCurrent'
    BY <1>1, <1>3, <2>1 DEF PeekedIsCurrent
  <2>3. \A g, h \in history' :
           g # h /\ g.process = h.process => g.at - h.at > Interval \/ h.at - g.at > Interval
    <3>1. history' = history \cup Samples(w)
      BY <1>4 DEF Commit
    <3>2. \A new \in Samples(w) :
             /\ new = [process |-> new.process, at |-> writer[w].at]
             /\ \A h \in history : h.process = new.process => writer[w].at - h.at > Interval
      BY <1>2, <1>4, SampleIsDue
    <3>3. \A new \in Samples(w) : new.at = writer[w].at
      BY <3>2
    <3>4. \A g, h \in history :
             g # h /\ g.process = h.process => g.at - h.at > Interval \/ h.at - g.at > Interval
      BY <1>2 DEF SamplesInv, SamplesAreSpaced
    <3>5. \A g, h \in Samples(w) : g.process = h.process => g = h
      BY <3>2
    <3> QED BY <3>1, <3>2, <3>3, <3>4, <3>5
  <2> QED BY <2>2, <2>3 DEF SamplesInv, SamplesAreSpaced
<1>5. ASSUME history' \subseteq history PROVE SamplesAreSpaced'
  BY <1>1, <1>5 DEF SamplesInv, SamplesAreSpaced
<1>6. ASSUME NEW w \in loops, Upsert(w), ~Commit(w) PROVE SamplesInv'
  <2>1. history' = history
    BY <1>6 DEF Upsert, Scan, Load, Peek, Rollback
  <2>2. CASE writer'[w].pc # "write"
    BY <1>1, <1>3, <1>5, <2>1, <2>2 DEF SamplesInv, PeekedIsCurrent
  <2>3. CASE writer'[w].pc = "write"
    <3>1. Peek(w)
      BY <1>1, <1>6, <2>3, ScanStep, RollbackStep DEF Upsert, Load, Do, TablesShape, WriterShape
    <3>2. writer'[w] = [writer[w] EXCEPT !.pc = "write",
                          !.sampled = [id \in {writer[w].existing[pid].id : pid \in Unlocked(w)} |->
                                          LastSample(id)]]
      BY <1>1, <3>1 DEF Peek, Do, TablesShape
    <3>3. writer'[w].sampled = [id \in {writer[w].existing[pid].id : pid \in Unlocked(w)} |-> LastSample(id)]
      BY <1>1, <3>2 DEF TablesShape, WriterShape
    <3>4. \A id : LastSample(id)' = LastSample(id)
      BY <2>1 DEF LastSample
    <3>5. PeekedIsCurrent'
      BY <1>1, <1>3, <3>3, <3>4 DEF PeekedIsCurrent
    <3> QED BY <1>5, <2>1, <3>5 DEF SamplesInv
  <2> QED BY <2>2, <2>3
<1>7. ASSUME NEW w \in Writers, Purge(w) PROVE SamplesInv'
  <2>1. writer' = writer /\ history' \subseteq history /\ w \in loops /\ writer[w].pc = "idle"
    BY <1>7 DEF Purge
  <2> QED BY <1>1, <1>3, <1>5, <2>1 DEF SamplesInv, PeekedIsCurrent
<1>8. CASE \/ \E pid \in Pids : Start(pid) \/ Exit(pid)
           \/ Pass
           \/ UNCHANGED vars
  <2>1. writer' = writer /\ history' = history
    BY <1>8 DEF Start, Exit, Pass, vars
  <2>2. \A id : LastSample(id)' = LastSample(id)
    BY <2>1 DEF LastSample
  <2> QED BY <1>1, <1>5, <2>1, <2>2 DEF SamplesInv, PeekedIsCurrent
<1> QED BY <1>4, <1>6, <1>7, <1>8 DEF Next, Upsert

LEMMA SamplesInit == Init => SamplesInv
<1> SUFFICES ASSUME Init PROVE SamplesInv
  OBVIOUS
<1>1. history = {} /\ \A w \in loops : w \in Writers => writer[w].pc = "idle"
  BY NobodyShape DEF Init
<1>2. loops \subseteq Writers
  BY RepositoryAssumption DEF Init
<1> QED BY <1>1, <1>2 DEF SamplesInv, PeekedIsCurrent, SamplesAreSpaced

\* With one scan loop the samples under one id lie further apart than the
\* interval, whatever is restarted, reused, rolled back and purged: what the
\* loop saw of the history before it had the lock is still so when it writes.
THEOREM SamplesSpaced == Spec => []SamplesAreSpaced
<1>1. SamplesInv => SamplesAreSpaced
  BY DEF SamplesInv
<1> QED BY <1>1, RowsInit, RowsNext, TypesInit, TypesNext, SamplesInit, SamplesNext, PTL DEF Spec

-----------------------------------------------------------------------------

(* To a loop that is alone an upsert is one step.                          *)

IsSnapshot(f) == f \in [DOMAIN f -> Nat]

\* Since a loop that is alone looked at the clock, no row has been seen.
SeenBefore ==
    Alone => \A w \in loops : writer[w].pc \in {"loaded", "write"} =>
                 \A r \in rows : r.seen <= writer[w].at

\* Times are within the bounds of the model.
TableInv ==
    /\ now <= Horizon /\ (Alone => started <= MaxStarts) /\ SeenBefore
    /\ IsSnapshot(procs) /\ \A w \in Writers : IsSnapshot(writer[w].snapshot)

\* A loop that has nothing to do has no snapshot left.
NothingLeft == \A w \in Writers : writer[w].pc = "idle" => writer[w].snapshot = << >>

View(row) == [id |-> row.id, start |-> row.start.at, restarts |-> row.restarts, seen |-> row.seen]

\* The row a loop that is alone writes for a pid of its snapshot.
New(w, pid) == IF pid \in Unknown(w) THEN Inserted(w, pid)
               ELSE Updated(w, pid, writer[w].existing[pid])

LEMMA TableIsRows ==
  ASSUME TablesShape, OneRowPerPid, Alone
  PROVE  /\ DOMAIN TableNow = {r.pid : r \in rows}
         /\ \A r \in rows : TableNow[r.pid] = View(r)
<1>1. DOMAIN TableNow = {r.pid : r \in rows}
  BY DEF TableNow
<1>2. ASSUME NEW r \in rows PROVE TableNow[r.pid] = View(r)
  <2>1. RowOf(r.pid) \in rows /\ RowOf(r.pid).pid = r.pid
    BY RowOfIsRow
  <2>2. RowOf(r.pid) = r
    BY <2>1 DEF OneRowPerPid, Alone
  <2> QED BY <2>2 DEF TableNow, View
<1> QED BY <1>1, <1>2

LEMMA NewRows ==
  ASSUME RowsInv, TypesInv, NEW w \in loops, Alone, writer[w].pc = "write"
  PROVE  /\ Written(w) = {New(w, pid) : pid \in DOMAIN writer[w].snapshot}
         /\ \A pid \in DOMAIN writer[w].snapshot :
               /\ New(w, pid) \in RowSet /\ New(w, pid).pid = pid
               /\ New(w, pid).start.at = writer[w].snapshot[pid] /\ New(w, pid).seen = writer[w].at
<1>1. w \in Writers /\ TablesShape /\ WriterShape(writer[w])
  BY DEF RowsInv, TablesShape
<1>2. ASSUME NEW pid \in DOMAIN writer[w].snapshot
      PROVE  /\ New(w, pid) \in Written(w)
             /\ New(w, pid) \in RowSet /\ New(w, pid).pid = pid
             /\ New(w, pid).start = Aware(writer[w].snapshot[pid]) /\ New(w, pid).seen = writer[w].at
  <2>1. CASE pid \in Unknown(w)
    <3>1. New(w, pid) = Inserted(w, pid)
      BY <2>1 DEF New
    <3>2. Inserted(w, pid) \in RowSet /\ Inserted(w, pid).pid = pid
      BY <1>1, <2>1, InsertedIsRow
    <3>3. Inserted(w, pid).start = Aware(writer[w].snapshot[pid]) /\ Inserted(w, pid).seen = writer[w].at
      BY DEF Inserted
    <3>4. Inserted(w, pid) \in Written(w)
      BY <2>1 DEF Written
    <3> QED BY <3>1, <3>2, <3>3, <3>4
  <2>2. CASE pid \notin Unknown(w)
    <3>1. pid \in DOMAIN writer[w].existing
      BY <2>2 DEF Unknown
    <3>2. writer[w].existing[pid] \in Found(w, pid) /\ writer[w].existing[pid].pid = pid
      BY <1>1, <3>1, WrittenWhenAlone DEF WriterShape
    <3>3. New(w, pid) = Updated(w, pid, writer[w].existing[pid])
      BY <2>2 DEF New
    <3>4. New(w, pid) \in Written(w)
      BY <3>1, <3>2, <3>3 DEF Written
    <3> QED BY <1>1, <3>1, <3>2, <3>3, <3>4, UpdatedIsRow
  <2> QED BY <2>1, <2>2
<1>3. ASSUME NEW r \in Written(w) PROVE r.pid \in DOMAIN writer[w].snapshot /\ r = New(w, r.pid)
  BY <1>3, WrittenWhenAlone DEF New
<1>4. Written(w) = {New(w, pid) : pid \in DOMAIN writer[w].snapshot}
  BY <1>2, <1>3
<1>5. \A time : Aware(time).at = time
  BY DEF Aware
<1> QED BY <1>2, <1>4, <1>5

\* The rows of other pids stay unless they have not been seen for too long.
LEMMA KeptRows ==
  ASSUME RowsInv, TypesInv, NEW w \in loops, Alone, writer[w].pc = "write"
  PROVE  Kept(w) = {r \in rows : r.pid \notin DOMAIN writer[w].snapshot /\ r.seen >= writer[w].at - Stale}
<1>1. w \in Writers /\ TablesShape /\ WriterShape(writer[w]) /\ rows \subseteq RowSet
  BY DEF RowsInv, TablesShape
<1>2. ASSUME NEW r \in rows, r.pid \notin DOMAIN writer[w].snapshot, NEW new \in Written(w)
      PROVE  new.id # r.id
  <2>1. CASE \E pid \in Unknown(w) : new = Inserted(w, pid)
    <3>1. new.id >= NextId /\ new.id \in Nat /\ r.id < NextId /\ r.id \in Nat /\ NextId \in Nat
      BY <1>1, <2>1, InsertedIsRow, NextIdIsNew DEF RowSet
    <3> QED BY <3>1
  <2>2. CASE \E pid \in DOMAIN writer[w].existing : \E row \in Found(w, pid) : new = Updated(w, pid, row)
    <3>1. PICK pid \in DOMAIN writer[w].existing : \E row \in Found(w, pid) : new = Updated(w, pid, row)
      BY <2>2
    <3>2. PICK row \in Found(w, pid) : new = Updated(w, pid, row)
      BY <3>1
    <3>3. row \in rows /\ new.id = row.id /\ row = writer[w].existing[pid]
      BY <1>1, <3>1, <3>2, UpdatedIsRow, WrittenWhenAlone
    <3>4. row.pid = pid /\ pid \in DOMAIN writer[w].snapshot
      BY <1>1, <3>3 DEF WriterShape
    <3> QED BY <1>2, <3>3, <3>4 DEF TypesInv, IdsAreKeys
  <2> QED BY <2>1, <2>2, WrittenAre
<1>3. ASSUME NEW r \in Kept(w)
      PROVE  r \in rows /\ r.pid \notin DOMAIN writer[w].snapshot /\ r.seen >= writer[w].at - Stale
  BY <1>3, KeptWhenAlone DEF Kept
<1> QED BY <1>2, <1>3 DEF Kept

\* The abstract table after a commit of a loop that is alone.
LEMMA TableAfter ==
  ASSUME RowsInv, TypesInv, RowsInv', NEW w \in loops, Alone, Commit(w)
  PROVE  /\ Alone' /\ DOMAIN TableNow' = DOMAIN writer[w].snapshot
                       \cup {pid \in DOMAIN TableNow : TableNow[pid].seen >= writer[w].at - Stale}
         /\ \A pid \in DOMAIN writer[w].snapshot : TableNow'[pid] = View(New(w, pid))
         /\ \A pid \in DOMAIN TableNow' \ DOMAIN writer[w].snapshot : TableNow'[pid] = TableNow[pid]
         /\ \A pid \in DOMAIN TableNow' : \E r \in rows' : r.pid = pid /\ TableNow'[pid] = View(r)
<1>1. /\ rows' = Kept(w) \cup Written(w) /\ writer[w].pc = "write" /\ loops' = loops
      /\ TablesShape /\ OneRowPerPid /\ TablesShape' /\ OneRowPerPid'
  BY DEF Commit, RowsInv
<1>2. Alone'
  BY <1>1 DEF Alone
<1>3. DOMAIN TableNow = {r.pid : r \in rows} /\ \A r \in rows : TableNow[r.pid] = View(r)
  BY <1>1, TableIsRows
<1>4. DOMAIN TableNow' = {r.pid : r \in rows'} /\ \A r \in rows' : TableNow'[r.pid] = View(r)
  <2>1. (TablesShape /\ OneRowPerPid /\ Alone => DOMAIN TableNow = {r.pid : r \in rows}
            /\ \A r \in rows : TableNow[r.pid] = View(r))'
    BY TableIsRows, PTL
  <2>2. \A r : View(r)' = View(r)
    BY DEF View
  <2> QED BY <1>1, <1>2, <2>1 DEF View
<1>5. /\ Written(w) = {New(w, pid) : pid \in DOMAIN writer[w].snapshot}
      /\ \A pid \in DOMAIN writer[w].snapshot : New(w, pid).pid = pid
      /\ Kept(w) = {r \in rows : r.pid \notin DOMAIN writer[w].snapshot /\ r.seen >= writer[w].at - Stale}
  BY <1>1, NewRows, KeptRows
<1>6. \A r \in rows : View(r).seen = r.seen
  BY DEF View
<1>7. DOMAIN TableNow' = DOMAIN writer[w].snapshot
          \cup {pid \in DOMAIN TableNow : TableNow[pid].seen >= writer[w].at - Stale}
  BY <1>1, <1>3, <1>4, <1>5, <1>6
<1>8. ASSUME NEW pid \in DOMAIN writer[w].snapshot PROVE TableNow'[pid] = View(New(w, pid))
  <2>1. New(w, pid) \in rows' /\ New(w, pid).pid = pid
    BY <1>1, <1>5
  <2> QED BY <1>4, <2>1
<1>9. ASSUME NEW pid \in DOMAIN TableNow' \ DOMAIN writer[w].snapshot
      PROVE  TableNow'[pid] = TableNow[pid]
  <2>1. PICK r \in rows' : r.pid = pid
    BY <1>4
  <2>2. r \in Kept(w)
    BY <1>1, <1>5, <2>1
  <2>3. r \in rows
    BY <2>2 DEF Kept
  <2> QED BY <1>3, <1>4, <2>1, <2>3
<1> QED BY <1>2, <1>4, <1>7, <1>8, <1>9

\* The count of restarts of a row goes up by one at most.
LEMMA RestartsOfNew ==
  ASSUME RowsInv, TypesInv, NEW w \in loops, Alone, writer[w].pc = "write",
         NEW pid \in DOMAIN writer[w].snapshot
  PROVE  /\ pid \in DOMAIN TableNow <=> pid \in DOMAIN writer[w].existing
         /\ pid \in DOMAIN TableNow =>
               /\ New(w, pid).id = TableNow[pid].id
               /\ New(w, pid).restarts - TableNow[pid].restarts \in {0, 1}
         /\ pid \notin DOMAIN TableNow => New(w, pid).restarts = 0
<1>1. /\ w \in Writers /\ TablesShape /\ WriterShape(writer[w]) /\ OneRowPerPid
      /\ DOMAIN writer[w].existing = DOMAIN writer[w].snapshot \cap {r.pid : r \in rows}
  BY DEF RowsInv, TablesShape, LoadedIsCurrent, Alone
<1>2. DOMAIN TableNow = {r.pid : r \in rows} /\ \A r \in rows : TableNow[r.pid] = View(r)
  BY <1>1, TableIsRows
<1>3. CASE pid \in DOMAIN TableNow
  <2> DEFINE old == writer[w].existing[pid]
             new == Updated(w, pid, old)
  <2>1. pid \in DOMAIN writer[w].existing
    BY <1>1, <1>2, <1>3
  <2>2. old \in rows /\ old \in Found(w, pid) /\ old.pid = pid /\ old \in RowSet
    BY <1>1, <2>1, WrittenWhenAlone DEF WriterShape
  <2>3. New(w, pid) = new
    BY <2>1 DEF New, Unknown
  <2>4. new.id = old.id
    BY <1>1, <2>1, <2>2, UpdatedIsRow
  <2>5. new.restarts \in {old.restarts + 1, old.restarts} /\ old.restarts \in Nat
    BY <2>2 DEF Updated, RowSet
  <2>6. TableNow[pid] = View(old)
    BY <1>2, <2>2
  <2> HIDE DEF old, new
  <2>7. TableNow[pid].id = old.id /\ TableNow[pid].restarts = old.restarts
    BY <2>6 DEF View
  <2> QED BY <1>3, <2>1, <2>3, <2>4, <2>5, <2>7
<1>4. CASE pid \notin DOMAIN TableNow
  <2>1. pid \in Unknown(w)
    BY <1>1, <1>2, <1>4 DEF Unknown
  <2> QED BY <1>4, <2>1 DEF New, Inserted, Unknown
<1> QED BY <1>3, <1>4

\* A loop that is alone samples the rows that are due.
LEMMA SamplesWhenAlone ==
  ASSUME RowsInv, TypesInv, SamplesInv, NEW w \in loops, Alone, writer[w].pc = "write"
  PROVE  Samples(w) =
            {[process |-> New(w, pid).id, at |-> writer[w].at] :
                pid \in {p \in DOMAIN writer[w].snapshot :
                            \A s \in history : s.process = New(w, p).id => s.at < writer[w].at - Interval}}
<1> DEFINE last(new) == IF new.id \in DOMAIN writer[w].sampled
                        THEN writer[w].sampled[new.id] ELSE LastSample(new.id)
           at == writer[w].at
           IsDue(id) == \A s \in history : s.process = id => s.at < at - Interval
<1>1. /\ w \in Writers /\ TablesShape /\ HistoryTyped /\ at \in Nat /\ Interval \in Nat
      /\ \A h \in history : h.at \in Nat
  BY RepositoryAssumption DEF RowsInv, TablesShape, WriterShape, TypesInv, HistoryTyped
<1>2. \A new : last(new) = LastSample(new.id)
  BY DEF SamplesInv, PeekedIsCurrent, Alone
<1>3. Samples(w) = {[process |-> new.id, at |-> at] :
                       new \in {n \in Written(w) : last(n) = -1 \/ last(n) < at - Interval}}
  BY DEF Samples
<1>4. ASSUME NEW id PROVE LastSample(id) = -1 \/ LastSample(id) < at - Interval <=> IsDue(id)
  <2>1. CASE LastSample(id) = -1 /\ \A h \in history : h.process # id
    BY <2>1
  <2>2. CASE /\ LastSample(id) \in Nat /\ \A h \in history : h.process = id => h.at <= LastSample(id)
             /\ \E h \in history : h.process = id /\ h.at = LastSample(id)
    BY <1>1, <2>2
  <2> QED BY <1>1, <2>1, <2>2, LastSampleIsLast
<1> HIDE DEF last, IsDue
<1>5. Samples(w) = {[process |-> new.id, at |-> at] : new \in {n \in Written(w) : IsDue(n.id)}}
  BY <1>2, <1>3, <1>4
<1>6. Written(w) = {New(w, pid) : pid \in DOMAIN writer[w].snapshot}
  BY NewRows
<1>7. Samples(w) = {[process |-> New(w, pid).id, at |-> at] :
                       pid \in {p \in DOMAIN writer[w].snapshot : IsDue(New(w, p).id)}}
  BY <1>5, <1>6
<1> QED BY <1>7 DEF IsDue

LEMMA CommitAtOnce ==
  ASSUME RowsInv, TypesInv, SamplesInv, TableInv, RowsInv', TypesInv', NEW w \in loops, Alone, Commit(w)
  PROVE  Table!UpsertAtOnce(writer[w].snapshot, writer[w].at) /\ Alone'
<1> DEFINE snapshot == writer[w].snapshot
           at == writer[w].at
<1>1. /\ writer[w].pc = "write" /\ TablesShape /\ OneRowPerPid /\ w \in Writers
      /\ history' = history \cup Samples(w)
  BY DEF Commit, RowsInv
<1>2. /\ Alone' /\ DOMAIN TableNow' = DOMAIN snapshot
                    \cup {pid \in DOMAIN TableNow : TableNow[pid].seen >= at - Stale}
      /\ \A pid \in DOMAIN snapshot : TableNow'[pid] = View(New(w, pid))
      /\ \A pid \in DOMAIN TableNow' \ DOMAIN snapshot : TableNow'[pid] = TableNow[pid]
      /\ \A pid \in DOMAIN TableNow' : \E r \in rows' : r.pid = pid /\ TableNow'[pid] = View(r)
  BY TableAfter
<1>3. \A r : View(r).id = r.id /\ View(r).seen = r.seen
  BY DEF View
<1>4. /\ \A pid \in DOMAIN TableNow : TableNow[pid].seen <= at
      /\ \A pid \in DOMAIN snapshot : TableNow'[pid].id = New(w, pid).id
  <2>1. \A r \in rows : r.seen <= at
    BY <1>1 DEF TableInv, SeenBefore
  <2>2. \A pid \in DOMAIN TableNow : \E r \in rows : TableNow[pid] = View(r)
    BY <1>1, TableIsRows
  <2> QED BY <1>2, <1>3, <2>1, <2>2
<1>5. Table!Current(snapshot, at)
  <2>1. ASSUME NEW pid \in DOMAIN snapshot
        PROVE  /\ TableNow'[pid].start = snapshot[pid] /\ TableNow'[pid].seen = at
               /\ IF pid \in DOMAIN TableNow
                  THEN /\ TableNow'[pid].id = TableNow[pid].id
                       /\ TableNow'[pid].restarts - TableNow[pid].restarts \in {0, 1}
                  ELSE TableNow'[pid].restarts = 0
    <3>1. TableNow'[pid] = View(New(w, pid))
      BY <1>2
    <3>2. New(w, pid).start.at = snapshot[pid] /\ New(w, pid).seen = at
      BY <1>1, NewRows
    <3>3. /\ TableNow'[pid].start = New(w, pid).start.at /\ TableNow'[pid].seen = New(w, pid).seen
          /\ TableNow'[pid].id = New(w, pid).id /\ TableNow'[pid].restarts = New(w, pid).restarts
      BY <3>1 DEF View
    <3> QED BY <1>1, <3>2, <3>3, RestartsOfNew
  <2> QED BY <2>1 DEF Table!Current
<1>6. \A p, q \in DOMAIN TableNow' : TableNow'[p].id = TableNow'[q].id => p = q
  <2> SUFFICES ASSUME NEW p \in DOMAIN TableNow', NEW q \in DOMAIN TableNow',
                       TableNow'[p].id = TableNow'[q].id
                PROVE  p = q
    OBVIOUS
  <2>1. PICK r \in rows' : r.pid = p /\ TableNow'[p] = View(r)
    BY <1>2
  <2>2. PICK o \in rows' : o.pid = q /\ TableNow'[q] = View(o)
    BY <1>2
  <2>3. r.id = o.id
    BY <1>3, <2>1, <2>2
  <2> QED BY <2>1, <2>2, <2>3 DEF TypesInv, IdsAreKeys
<1>7. history' = history \cup {[process |-> TableNow'[pid].id, at |-> at] :
                                  pid \in {p \in DOMAIN snapshot :
                                     \A s \in history : s.process = TableNow'[p].id => s.at < at - Interval}}
  BY <1>1, <1>4, SamplesWhenAlone
<1> HIDE DEF snapshot, at
<1>8. Table!UpsertAtOnce(snapshot, at)
  <2>1. (IF Alone THEN history ELSE {}) = history /\ (IF Alone' THEN history' ELSE {}) = history'
    BY <1>2
  <2> QED BY <1>2, <1>4, <1>5, <1>6, <1>7, <2>1 DEF Table!UpsertAtOnce, Table!Due
<1> QED BY <1>2, <1>8 DEF snapshot, at

LEMMA TableInvInit == Init => TableInv
<1> SUFFICES ASSUME Init PROVE TableInv
  OBVIOUS
<1>1. IsSnapshot(<< >>)
  BY DEF IsSnapshot
<1>2. procs = << >> /\ \A w \in Writers : writer[w].snapshot = << >>
  BY DEF Init, Nobody
<1>3. rows = {} /\ now = 0 /\ started = 0
  BY DEF Init
<1>4. IsSnapshot(procs) /\ \A w \in Writers : IsSnapshot(writer[w].snapshot)
  BY <1>1, <1>2
<1> QED BY <1>3, <1>4, RepositoryAssumption DEF TableInv, SeenBefore

LEMMA TableInvNext == RowsInv /\ TypesInv /\ TableInv /\ [Next]_vars => TableInv'
<1> SUFFICES ASSUME RowsInv, TypesInv, TableInv, [Next]_vars PROVE TableInv'
  OBVIOUS
<1>1. /\ TablesShape /\ loops \subseteq Writers /\ now \in Nat /\ started \in Nat
      /\ Horizon \in Nat /\ MaxStarts \in Nat /\ MaxShared \in Nat
  BY RepositoryAssumption DEF RowsInv, TablesShape
<1>2. loops' = loops
  BY DEF Next, Upsert, Start, Exit, Pass, Purge, Scan, Load, Peek, Commit, Rollback, vars
<1>3. IsFiniteSet(loops) /\ Cardinality(loops) \in Nat
  BY <1>1, RepositoryAssumption, FS_Subset, FS_CardinalityType
<1>4. now' <= Horizon /\ (Alone => started' <= MaxStarts) /\ IsSnapshot(procs')
  <2>1. ASSUME NEW pid \in Pids, Start(pid) PROVE started' <= MaxStarts \/ ~Alone
    BY <1>1, <1>3, <2>1 DEF Start, Alone
  <2>2. ASSUME NEW pid \in Pids, Start(pid) PROVE IsSnapshot(procs') /\ now' = now
    BY <1>1, <2>2 DEF Start, TableInv, IsSnapshot
  <2>3. ASSUME NEW pid \in Pids, Exit(pid) PROVE IsSnapshot(procs') /\ now' = now /\ started' = started
    BY <2>3 DEF Exit, TableInv, IsSnapshot
  <2>4. ASSUME Pass PROVE now' <= Horizon /\ UNCHANGED << procs, started >>
    BY <1>1, <2>4 DEF Pass
  <2>5. ASSUME NEW w \in Writers, Upsert(w) \/ Purge(w) PROVE UNCHANGED << procs, started, now >>
    BY <2>5 DEF Upsert, Scan, Load, Peek, Commit, Rollback, Purge
  <2>6. TableInv => now <= Horizon /\ (Alone => started <= MaxStarts) /\ IsSnapshot(procs)
    BY DEF TableInv
  <2> QED BY <2>1, <2>2, <2>3, <2>4, <2>5, <2>6 DEF Next, vars
<1>5. SeenBefore' /\ \A w \in Writers : IsSnapshot(writer'[w].snapshot)
  <2>1. ASSUME NEW w \in loops, Upsert(w) PROVE SeenBefore' /\ \A v \in Writers : IsSnapshot(writer'[v].snapshot)
    <3>1. w \in Writers /\ (Alone => loops = {w})
      BY <1>1, <1>3, FS_Singleton DEF Alone
    <3>2. \A v \in Writers \ {w} : writer'[v] = writer[v]
      BY <1>1, <2>1, <3>1, ScanStep, LoadStep, PeekStep, CommitStep, RollbackStep DEF Upsert
    <3>3. CASE Scan(w) \/ Commit(w) \/ Rollback(w)
      <4>1. writer'[w].pc \in {"idle", "scanned"}
        BY <1>1, <3>1, <3>3, ScanStep, CommitStep, RollbackStep
      <4>2. writer'[w].snapshot \in {procs, << >>}
        <5>1. Nobody.snapshot = << >> /\ [Nobody EXCEPT !.pc = "scanned", !.snapshot = procs].snapshot = procs
          BY DEF Nobody
        <5>2. writer'[w] \in {Nobody, [Nobody EXCEPT !.pc = "scanned", !.snapshot = procs]}
          BY <1>1, <3>1, <3>3 DEF Scan, Commit, Rollback, Do, TablesShape
        <5> QED BY <5>1, <5>2
      <4>3. IsSnapshot(<< >>)
        BY DEF IsSnapshot
      <4>4. IsSnapshot(writer'[w].snapshot)
        BY <4>2, <4>3 DEF TableInv
      <4> QED BY <1>2, <3>1, <3>2, <4>1, <4>4 DEF SeenBefore, Alone, TableInv
    <3>4. CASE Load(w)
      <4>1. writer'[w].snapshot = writer[w].snapshot /\ rows' = rows
        BY <1>1, <3>1, <3>4, LoadStep
      <4>2. writer'[w].at = now
        BY <1>1, <3>1, <3>4 DEF Load, Do, TablesShape, WriterShape
      <4>3. \A r \in rows : r.seen <= now
        BY DEF TypesInv, RowTyped
      <4> QED BY <1>2, <3>1, <3>2, <4>1, <4>2, <4>3 DEF SeenBefore, Alone, TableInv
    <3>5. CASE Peek(w)
      <4>1. writer'[w].snapshot = writer[w].snapshot /\ rows' = rows /\ writer[w].pc = "loaded"
        BY <1>1, <3>1, <3>5, PeekStep
      <4>2. writer'[w].at = writer[w].at
        BY <1>1, <3>1, <3>5 DEF Peek, Do, TablesShape, WriterShape
      <4> QED BY <1>2, <3>1, <3>2, <4>1, <4>2 DEF SeenBefore, Alone, TableInv
    <3> QED BY <2>1, <3>3, <3>4, <3>5 DEF Upsert
  <2>2. CASE ~\E w \in loops : Upsert(w)
    <3>1. UNCHANGED << rows, writer, loops >>
      BY <1>1, <2>2, WorldStep DEF Next, Upsert
    <3> QED BY <3>1 DEF SeenBefore, Alone, TableInv
  <2> QED BY <2>1, <2>2
<1>6. Alone' <=> Alone
  BY <1>2 DEF Alone
<1> QED BY <1>4, <1>5, <1>6 DEF TableInv

\* A loop that is alone is never told by the database that what it writes is
\* in conflict with what is there.
LEMMA AloneNeverFails ==
  ASSUME RowsInv, TypesInv, NEW w \in loops, Alone, writer[w].pc = "write"
  PROVE  ~Conflict(w)
<1>1. \A pid \in DOMAIN writer[w].existing : Found(w, pid) # {}
  BY WrittenWhenAlone
<1>2. ASSUME NEW r \in rows, \A new \in Written(w) : new.id # r.id, NEW new \in Written(w)
      PROVE  r.pid # new.pid
  BY <1>2, KeptWhenAlone, WrittenWhenAlone
<1> QED BY <1>1, <1>2 DEF Conflict

LEMMA NothingLeftInit == Init => NothingLeft
BY DEF Init, Nobody, NothingLeft

LEMMA NothingLeftNext == RowsInv /\ NothingLeft /\ [Next]_vars => NothingLeft'
<1> SUFFICES ASSUME RowsInv, NothingLeft, [Next]_vars PROVE NothingLeft'
  OBVIOUS
<1>1. TablesShape /\ loops \subseteq Writers
  BY DEF RowsInv, TablesShape
<1>2. ASSUME NEW w \in Writers, Scan(w) \/ Load(w) \/ Peek(w) PROVE writer'[w].pc # "idle"
  BY <1>1, <1>2 DEF Scan, Load, Peek, Do, Nobody, TablesShape, WriterShape
<1>3. ASSUME NEW w \in Writers, Commit(w) \/ Rollback(w) PROVE writer'[w].snapshot = << >>
  BY <1>1, <1>3 DEF Commit, Rollback, Do, Nobody, TablesShape
<1>4. ASSUME NEW w \in Writers, Upsert(w) PROVE NothingLeft'
  <2>1. \A v \in Writers \ {w} : writer'[v] = writer[v]
    BY <1>1, <1>4, ScanStep, LoadStep, PeekStep, CommitStep, RollbackStep DEF Upsert
  <2> QED BY <1>2, <1>3, <1>4, <2>1 DEF Upsert, NothingLeft
<1>5. CASE ~\E w \in Writers : Upsert(w)
  <2>1. writer' = writer
    BY <1>1, <1>5, WorldStep DEF Next
  <2> QED BY <2>1 DEF NothingLeft
<1> QED BY <1>4, <1>5

\* What a loop that is alone has in hand, before a step and after it.
LEMMA InHandIs ==
  ASSUME loops \subseteq Writers, loops' = loops, NEW w \in loops, Alone
  PROVE  InHand = writer[w].snapshot /\ InHand' = writer'[w].snapshot /\ Alone'
<1>1. IsFiniteSet(loops)
  BY RepositoryAssumption, FS_Subset
<1>2. loops = {w}
  BY <1>1, FS_Singleton DEF Alone
<1>3. (CHOOSE v \in Writers : v \in loops) = w
  BY <1>2
<1>4. Alone'
  BY DEF Alone
<1> QED BY <1>3, <1>4 DEF InHand

LEMMA StepsOfTable ==
  ASSUME RowsInv, TypesInv, SamplesInv, TableInv, NothingLeft, RowsInv', TypesInv', [Next]_vars
  PROVE  [Table!TableNext]_<< InHand, TableNow, IF Alone THEN history ELSE {} >>
<1>1. loops' = loops /\ TablesShape /\ loops \subseteq Writers
  BY DEF Next, Upsert, Start, Exit, Pass, Purge, Scan, Load, Peek, Commit, Rollback, vars, RowsInv
<1>2. Alone' <=> Alone
  BY <1>1 DEF Alone
<1>3. ASSUME rows' = rows PROVE TableNow' = TableNow
  BY <1>2, <1>3 DEF TableNow, RowOf
<1>4. ASSUME writer' = writer PROVE InHand' = InHand
  BY <1>1, <1>2, <1>4 DEF InHand
<1>5. CASE ~Alone
  BY <1>2, <1>5 DEF TableNow, InHand
<1>6. ASSUME NEW w \in loops, Alone, Scan(w) PROVE Table!TableNext
  <2>1. w \in Writers /\ InHand = writer[w].snapshot /\ InHand' = writer'[w].snapshot
    BY <1>1, <1>6, InHandIs
  <2>2. InHand = << >>
    BY <1>6, <2>1 DEF Scan, NothingLeft
  <2>3. InHand' = procs
    BY <1>1, <1>6, <2>1 DEF Scan, Do, Nobody, TablesShape
  <2>4. procs \in [DOMAIN procs -> Nat] /\ DOMAIN procs \in SUBSET Pids
    BY <1>1 DEF TableInv, IsSnapshot, TablesShape, IsTable
  <2>5. \A pid \in DOMAIN procs : procs[pid] \in 1..MaxStarts
    BY <1>1, <1>6, RepositoryAssumption DEF TypesInv, Begun, TableInv, TablesShape
  <2>6. procs \in Table!Snapshots
    BY <2>4, <2>5 DEF Table!Snapshots
  <2>7. rows' = rows /\ history' = history
    BY <1>6 DEF Scan
  <2> QED BY <1>2, <1>3, <2>2, <2>3, <2>6, <2>7 DEF Table!TableNext, Table!TakeSnapshot
<1>7. ASSUME NEW w \in loops, Alone, Commit(w) PROVE Table!TableNext
  <2>1. /\ writer[w].at \in Nat /\ writer[w].at <= now /\ now <= Horizon
        /\ now \in Nat /\ Horizon \in Nat
    BY <1>1, RepositoryAssumption DEF TablesShape, WriterShape, TableInv
  <2>2. InHand = writer[w].snapshot /\ InHand' = writer'[w].snapshot
    BY <1>1, <1>7, InHandIs
  <2>3. InHand' = << >>
    BY <1>1, <1>7, <2>2 DEF Commit, Do, Nobody, TablesShape
  <2>4. Table!UpsertAtOnce(InHand, writer[w].at)
    BY <1>7, <2>2, CommitAtOnce
  <2> QED BY <2>1, <2>3, <2>4 DEF Table!TableNext
<1>8. ASSUME NEW w \in Writers, Alone, Purge(w) PROVE Table!TableNext
  <2>1. rows' = rows /\ history' = {h \in history : h.at >= now - Retention} /\ writer' = writer
    BY <1>8 DEF Purge
  <2>2. now \in Nat /\ Retention \in Nat /\ \A h \in history : h.at \in Nat
    BY RepositoryAssumption DEF RowsInv, TablesShape, TypesInv, HistoryTyped
  <2>3. TableNow' = TableNow /\ InHand' = InHand
    BY <1>3, <1>4, <2>1
  <2> QED BY <1>2, <1>8, <2>1, <2>2, <2>3 DEF Table!TableNext, Table!PurgeSamples
<1>9. ASSUME NEW w \in loops, Alone, Load(w) \/ Peek(w) PROVE InHand' = InHand /\ UNCHANGED << rows, history >>
  <2>1. writer'[w].snapshot = writer[w].snapshot
    BY <1>1, <1>9, LoadStep, PeekStep
  <2> QED BY <1>1, <1>9, <2>1, InHandIs DEF Load, Peek
<1>10. ASSUME NEW w \in loops, Alone PROVE ~Rollback(w)
  BY <1>10, AloneNeverFails DEF Rollback
<1>11. CASE Alone /\ ~(\E w \in loops : Scan(w) \/ Commit(w)) /\ ~(\E w \in Writers : Purge(w))
  <2>1. rows' = rows /\ history' = history /\ InHand' = InHand
    <3>1. CASE \E w \in loops : Upsert(w)
      BY <1>9, <1>10, <1>11, <3>1 DEF Upsert
    <3>2. CASE ~\E w \in loops : Upsert(w)
      BY <1>4, <1>11, <3>2 DEF Next, Upsert, Start, Exit, Pass, vars
    <3> QED BY <3>1, <3>2
  <2> QED BY <1>2, <1>3, <2>1
<1> QED BY <1>5, <1>6, <1>7, <1>8, <1>11

\* For any pids, limits and bounds: a scan loop that has the database to itself
\* sees it change as if each of its upserts were one step at the time it began.
THEOREM TableImplemented == Spec => ImplementsTable
<1>1. ASSUME Init PROVE Table!TableInit
  <2>1. loops \subseteq Writers /\ loops # {}
    BY <1>1, RepositoryAssumption DEF Init
  <2>2. \A w \in Writers : writer[w].snapshot = << >>
    BY <1>1 DEF Init, Nobody
  <2>3. InHand = << >>
    BY <2>1, <2>2 DEF InHand
  <2> QED BY <1>1, <2>3 DEF Init, Table!TableInit, TableNow
<1> QED BY <1>1, StepsOfTable, RowsInit, RowsNext, TypesInit, TypesNext, SamplesInit, SamplesNext,
           TableInvInit, TableInvNext, NothingLeftInit, NothingLeftNext, PTL
           DEF Spec, ImplementsTable, Table!TableSpec

-----------------------------------------------------------------------------
(* What makes an upsert fail.                                              *)

LEMMA FailuresHaveReasons == RowsInv /\ TypesInv => UpsertsFailForAReason
<1> SUFFICES ASSUME RowsInv, TypesInv, NEW w \in loops, writer[w].pc = "write", Conflict(w), ~Overtaken(w)
             PROVE  ~Alone /\ \E pid \in DOMAIN writer[w].snapshot : Twins(pid)
  BY AloneNeverFails DEF UpsertsFailForAReason
<1>1. w \in Writers /\ TablesShape /\ WriterShape(writer[w])
  BY DEF RowsInv, TablesShape
<1>2. \A pid \in DOMAIN writer[w].existing : \E r \in Found(w, pid) : r.pid = pid
  BY <1>1 DEF Overtaken, WriterShape
<1>3. PICK r \in rows : /\ \A new \in Written(w) : new.id # r.id
                       /\ \E new \in Written(w) : r.pid = new.pid
  BY <1>2 DEF Conflict
<1>4. PICK new \in Written(w) : r.pid = new.pid
  BY <1>3
<1>5. ~\E pid \in Unknown(w) : new = Inserted(w, pid)
  BY <1>1, <1>4, InsertedIsRow DEF Overtaken, Unknown
<1>6. PICK pid \in DOMAIN writer[w].existing : \E row \in Found(w, pid) : new = Updated(w, pid, row)
  BY <1>5, WrittenAre
<1>7. PICK row \in Found(w, pid) : new = Updated(w, pid, row)
  BY <1>6
<1>8. row \in rows /\ new.pid = row.pid /\ new.id = row.id /\ row.id = writer[w].existing[pid].id
  BY <1>1, <1>7, UpdatedIsRow
<1>9. row.pid = pid
  BY <1>2, <1>8 DEF Found, TypesInv, IdsAreKeys
<1>10. r # row
  BY <1>3, <1>4, <1>8
<1>11. Twins(pid) /\ pid \in DOMAIN writer[w].snapshot
  BY <1>1, <1>4, <1>8, <1>9, <1>10 DEF Twins, WriterShape
<1> QED BY <1>11, AloneNeverFails

\* For any number of scan loops: an upsert that fails has been overtaken by
\* another loop's commit, or has met two rows of one pid; a loop that is alone
\* has no upsert that fails.
THEOREM UpsertsFailWithReason == Spec => []UpsertsFailForAReason
<1> QED BY RowsInit, RowsNext, TypesInit, TypesNext, FailuresHaveReasons, PTL DEF Spec

-----------------------------------------------------------------------------

\* From the start of init_db on, both parts of the database are well typed:
\* a scan loop's steps are the repository's, before them the migrations'.
THEOREM DatabaseTypeCorrect == MCSpec => []MCTypeOK
<1>1. MCNext => [Next]_vars /\ [MigrationsNext]_migrationVars
  BY DEF MCNext
<1>2. UNCHANGED << vars, migrationVars >> => UNCHANGED vars /\ UNCHANGED migrationVars
  BY DEF vars, migrationVars
<1>3. IInv => MigrationsTypeOK
  BY DEF IInv
<1>4. TypeOK /\ MigrationsTypeOK => MCTypeOK
  BY DEF MCTypeOK
<1>5. [MCNext]_<< vars, migrationVars >> => [Next]_vars /\ [MigrationsNext]_migrationVars
  BY <1>1, <1>2
<1>6. MCInit => Init /\ MigrationsInit
  BY DEF MCInit
<1> QED BY <1>3, <1>4, <1>5, <1>6, InitIInv, NextIInv, RowsInit, RowsNext, TypesInit, TypesNext,
           TypesSuffice, PTL DEF MCSpec
=============================================================================
