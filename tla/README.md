# ProcSentry in TLA+

ProcSentry watches the processes of a Linux host: a scan loop takes snapshots
of the process table, looks for duplicate processes, security findings and
failed systemd units, writes all of it to SQLite, raises alerts, and a web
dashboard shows the tables and kills processes on request. The modules here
model the parts of it whose correctness depends on the order of steps: what
survives a failure halfway through a cycle, what two scan loops do to one
database, what a kill handler signals when its rows are stale, what the
bounded, expiring sets and caches in memory forget, what a restart finds in
the configuration file and the schema; and the scores, fingerprints and
suggestions that many small conditions in a row decide.

Paths below are relative to the repository; `app/core/x.py:10` is line 10.

## 1. Inventory

### Components, their state and operations

| Component | State | Operations | Module |
| --- | --- | --- | --- |
| Suppression set and restart tracker (`app/core/runtime_state.py`) | ordered dict of key → time; fingerprint → deque of start times | `seen_recently`, `prune`; `observe` | `RuntimeState`, `TTLSet`, `SuppressionWindow`, `RestartTracker` |
| Duplicate detector (`app/core/duplicate_detector.py`) | one suppression set, one restart tracker | `detect`: exact, fuzzy and near stages | `DuplicateDetector` |
| Process tree (`app/core/process_tree.py`) | none | `trace_ancestry`, `build_tree` | in `DuplicateDetector` (ancestry) |
| Scanner (`app/core/scanner.py`, `app/collectors/`) | fingerprint and hash caches, last snapshots, last scan time | `scan`, debounced | `Scanner` |
| Port mapper (`app/core/port_mapper.py`) | socket cache with a time | `collect_ports`, `attach` | in `Scanner` |
| Alert service (`app/services/alert_service.py`) | key → time of last emit | `emit` | `AlertService` |
| Process service (`app/services/process_service.py`) | the above, known failed units, maintenance stamps, stop flag | `run_forever`, `scan_once`, `_check_failed_units`, `stop` | `ScanCycle`, `FailedUnits` |
| Runners (`app/main.py`, `app/web/app.py`, the systemd unit) | the service object, the task | `_run_daemon`, `_run_scanner`, lifespan | `ScanCycle` |
| Rate limit (`app/web/app.py`) | client → times of requests | the middleware | `RateLimit` |
| Repository (`app/database/`) | SQLite tables | `upsert_processes`, `add_duplicate_groups`, `add_alert`, `resolve_alert`, `record_kill`, purges, notes, queries | `ProcessRepository` over `ProcessTable`, and the tables they touch in `AlertService`, `KillWorkflow`, `ScanCycle` |
| Sessions and migrations (`app/database/session.py`) | the schema, SQLite's lock | `init_db`, transactional scope | `Migrations`; the scope in `ProcessRepository` |
| Kill endpoints (`app/web/routes/duplicates.py`, `processes.py`) | none of their own; many threads | `kill_extras`, `kill_process`, `kill_app`; the overview | `KillWorkflow`; the overview in `Dashboard` |
| Host services (`app/services/host_services.py`) | none | list failed units, control a unit, timers, cron | failed units, in `FailedUnits` |
| Resource tracker, security engine (`app/core/`) | none | `high_usage`; `scan` | `SecurityEngine` |
| Command normalizer, fingerprints (`app/core/`) | none | tokens to profiles, hashing | `Fingerprints` |
| Suggestions (`app/web/suggestions.py`) | none | protect list, two tiers | `Suggestions` |
| Remote hosts (`app/services/remote_ssh.py`, `app/web/routes/remote.py`) | hosts in memory and in the configuration file | list, kill over SSH; add and delete hosts | `RemoteKill`; the hosts in `WebSettings` |
| Settings, web security (`app/web/routes/settings.py`, `app/web/security.py`) | password in memory and in the file, cookies | password change; login, sessions | `WebSettings` |
| Roast, healing, metrics, rules engine | none or display counters | aggregates for pages | not modelled |
| Terminal UI, templates, list routes | none | presentation | not modelled |

### How they interact

* `scan_once` calls scanner, detector, security engine, repository and alert
  service in a fixed order in one asyncio task. Nothing is rolled back across
  stages: each repository call is a transaction of its own, and what the
  detector and the alert service remember is in memory. An exception leaves
  `run_forever`; `_run_scanner` of the web process then calls it again *on the
  same object*, while the daemon ends and systemd starts a new process with
  empty memory.
* The daemon and the web process may both scan, each in a loop of its own,
  over one SQLite file.
* Dashboard requests run in a thread pool. They read the tables the scan loops
  write, and act on the host by pid.
* Processes that start on one SQLite file each run the migrations first.
* The dashboard's handlers also change what later requests and later starts go
  by: the password, the hosts and the file both are kept in. Kills on other
  hosts go through a shell script over SSH.
* The host changes all the time: processes fork, exit, are re-parented to init
  and leave their pid to others; units fail and recover; the monotonic clock
  starts anew at each boot.

### What is hard, and what makes a part correct

| Part | Hard behaviour | What must hold |
| --- | --- | --- |
| Suppression set | expiry, hits that reorder, eviction when full | a key is called new only if it was never recorded, has expired, or was evicted; no key twice; bounded |
| Restart tracker | starts shown again at every scan, in pid order | no start inside the window is missed; bounded |
| Detector | three stages over shared sets, across cycles in which processes come and go | a process is in one group per cycle; no report twice inside the window; nothing hidden that was not reported; no lineage reported |
| Alerts | cooldown in memory over a table that outlives it; failing writes | rows of a key a cooldown apart; the table is a log |
| Failed units | a check interrupted by a raise or a crash | no failure skipped unreported; the scanner catches up |
| Scan loop | a raise at any stage, restart with old or new memory, stop at any moment | alerts have their groups; a lasting duplicate is reported in the end; a stopped loop ends |
| Repository | two loops that load without a lock and write back; purges by time; ids used again | one row per pid, sampled history, an upsert is one step (one loop); fresh rows survive, live processes get rows, an upsert fails for a reason (two) |
| Kill handlers | rows that trail the host, concurrent requests, pid reuse in a grace period | the oldest of a group is kept; SIGKILL only follows SIGTERM to the same process; the log claims no more than was sent |
| Overview and `kill_app` | each works out the groups anew, under limits of its own | the button ends the group it stands under and no other |
| Remote kill | a shell script over pids that change hands, a connection that breaks | the answer is true of what the signals hit |
| Scanner | two caches and a debounce whose ages add up; an overflow in mid-scan | bounded staleness; no two lost scans in a row |
| Settings | read, change, truncate, write, chmod, apply, by several threads | a restart finds what was in force; sessions end for a reason |
| Migrations | DDL outside of transactions, two processes, crashes, lock timeouts | recorded means applied; both come up |
| Scores, suggestions, fingerprints | many ordered conditions over many attributes | monotone; blind to what varies, to nothing else |

The hazards, each at its line with the properties that cover it, are in
`PROJECT.json`.

## 2. Modules

### `RuntimeState` — operators on values

Both containers as pure operators: `SeenRecently` returns the answer and the
set it leaves behind, `Observe` the count and the buckets. They are the only
definition of these containers; `TTLSet`, `RestartTracker`,
`DuplicateDetector` and `ScanCycle` all use them. An `OrderedDict` is a
sequence of `[key, at]`, oldest position first: `move_to_end` without a new
time is `MoveToEnd`, `prune` from the front is `Prune`. `observe` takes a
fingerprint and a start that are there: its guard for missing ones (lines
53–54) is not modelled, since snapshots of live processes have both.

### `SuppressionWindow`, `TTLSet`, `RestartTracker`, `MCRuntimeState`

`TTLSet` lets callers ask about keys while the clock moves. `SuppressionWindow`
is what a caller may rely on, without the dictionary: answers, and when a key
may be forgotten. `TTLSet` implements it under the mapping `RecordedAt` (the
time each key was recorded, or `Never`). `RestartTracker` shows starts in any
order. `MCRuntimeState` runs both in one model: they share nothing, so each is
followed while the other is unused, and their states add up instead of
multiplying.

### `DuplicateDetector`, `MCDuplicateDetector`

A host (`procs`: pid → program, start, parent) on which programs start under
init or under a parent, exit, orphan their children and reuse pids, and one
action `Detect` for a whole `detect()` call: restart loops, workers, exact
buckets, fuzzy buckets, near buckets, all over `RuntimeState`. Each stage is a
recursive function over its buckets in order of first appearance (a Python
dict), so what a stage adds to `seen_pids`, `emitted_pids` and `consumed` is seen by the next.
`PairScore` adds the same points as `_pair_score`; reason texts are left out.
A program is a record of what the detector looks at; the text similarity of
`difflib` is a constant operator, given the real ratios for the programs of
`MCDuplicateDetector`.

`MCDuplicateDetector` also follows, one at a time, the three components below.

### `Fingerprints`, `SecurityEngine`, `Suggestions` — decisions about one process

`Fingerprints` is the scan over the tokens of a command line that keeps, drops
or replaces each of them (`Scan`). Command lines are built of *units* (a
word, a flag with its value or without), so that what a fuzzy fingerprint must
keep is said without that scan. `SecurityEngine` looks for the signals in the
order of the code, with the category each sets, the capped score, severity,
confidence and the resource thresholds; what a pattern matches is a trait.
`Suggestions` is `build_suggestions` with its protect list and both tiers. The
last two have a state, the process as it was seen, whose steps make it worse
or better by one trait: monotonicity is then an action property.

### `AlertService`, `FailedUnits`

`emit` in three outcomes: cooling, written, or a write that raises after the
stamp was set. The table is a sequence, `epoch` numbers the incarnations of
the scanner process, `Restart(clock)` empties the stamps and after a reboot
restarts the clock. `FailedUnits` EXTENDS it with `_check_failed_units`: the
probe, one emit after the other, then the replacement of what is known; a
probe that fails, a write that raises, a crash or a reboot may come at any
point.

### `ScanCycle`

One cycle as a program counter over the stages of `scan_once`, under
`_run_scanner` (same memory) or systemd (new memory), with a fault at any stage
that touches host or database, a stop at any moment, and processes killed by
the kernel or `RuntimeMaxSec`. A duplicate group stands for its suppression key
and its alert key: confidence and message are functions of the members.
Resource and security alerts and the unit check are one stage (`rest`), which
may raise. The checkpoint and vacuum timers decide what maintenance asks of
SQLite and nothing else, so they are left out. Time is relative: a stamp is
minus its age and stops ageing once it is past every limit it is compared
with, so that behaviours are infinite and liveness means what it says.

### `ProcessRepository`, `ProcessTable`

`upsert_processes` of one or two scan loops as the steps a session really
takes: load the rows (no lock), look up the last sample of rows handled before
the first insert (still no lock), then write under SQLite's lock and commit, or
fail on a constraint or a row count and roll back. An update goes to the row
that has the loaded id by now, and sets all of it but the pid; inserts take the
next id, rows not seen for 30 seconds go, history is sampled. A start time
carries its zone in memory and loses it in the database.

`ProcessTable` is what a scan loop that has the database to itself may rely on,
without sessions, locks and the order of statements: one row per pid, and a
snapshot that is written by one step, at one time, and never dropped.
`ProcessRepository` implements it under the mapping `InHand`, `TableNow`.

`MCRepository` composes it with `Migrations`.

### `Migrations`, `MCRepository`

`init_db` of several processes on one file: `create_all` (which tables are
missing is looked up first), the versions recorded, then file by file its
statements and its record, and the commit. What SQLite and pysqlite make of
that is modelled, not wished: a statement outside of a transaction takes effect
at once; the first `INSERT` opens one, and from then to the commit what the
process does is `pending` and the others wait, for five seconds at most. An
error, a crash or a lock timeout ends the process, which systemd starts again.
In `MCRepository` the scan loops begin when every process is ready.

### `KillWorkflow`, `RemoteKill`, `Dashboard`, `Listing`, `MCKillWorkflow`

Handler threads run `kill_extras` (one query per member, choose the one to
keep, signal the others by bare pid, resolve the group), `kill_process` and
`kill_app` (psutil handle, SIGTERM, wait, SIGKILL), each step of which
interleaves with scans, exits and pid reuse. `born` stands for the start time.
A signalled process ends when it likes or never. psutil compares start times
before it signals; its `wait` polls the pid.

`RemoteKill` is the shell script of `remote_ssh.py`, one action per command,
among the exits and starts of that machine, other requests, and a connection
that may break with the script running on. `Dashboard` is the overview: the
application of a row (its directory, its arguments, its systemd unit, its
comm, its first argument: the first that names one), the page's buckets over
the rows it reads, and the rows `kill_app` reads and takes. What becomes of a
signal is `KillWorkflow`'s part. `Listing` says what a sorted set and a filtered
list are, here and in `FailedUnits`, `RateLimit` and `DuplicateDetector`.

### `RateLimit`, `Scanner`, `WebSettings`, and `MCRuntimeState` again

`RateLimit` keeps the code's bucket next to the full list of requests let
through, which the property speaks of. `Scanner` is `scan()` with its debounce,
the hash cache that is cleared when it overflows and read right after, and the
port mapper with its refresh interval and failed reads; a scan takes time in
which the host goes on. `WebSettings` takes a password change or a change of
hosts apart into its steps (take what is in memory, read the file, open it,
which empties it, write, chmod, apply to memory) for concurrent threads, with
failures and restarts in between, and issues and checks session cookies. Two
things its property has to know are recorded as history: that two saves
overlapped or one broke off (`disturbed`), and whether a signature holds a dot.
`MCRuntimeState` runs these three and the two containers one at a time.

## 3. Runs

| Run | Shows | Bounds, and why they are enough |
| --- | --- | --- |
| `runtime_state` | types, and the bounds of the containers (`MCTypeOK`); `ImplementsWindow` (refinement), `LoopsAreCounted`; `RequestsAreLimited`; `PortsAreRecent`, `LossesAreSingle`; `RestartKeepsWhatIsInForce`, `SessionsEndForAReason` | three keys for a set of two, so that eviction, reordering and expiry meet; TTL 2 of 7 ticks, so that a key expires, comes back and expires again; three fingerprints for a tracker that clears above one; five start times for a window of two. Two clients and four requests over two windows. One pid that two processes may have, two executables for a hash cache of one, scans of a tick each, windows of two ticks in four. Two threads and three saves of two passwords and one host, a restart, a session that may expire |
| `detector` | types; `GroupsAreDisjoint`, `NoRepeatInsideWindow`, `LineageIsNotDuplicate`, `DuplicatesWereReported`; `FuzzyKeepsShapeOnly`; `WorseNeverScoresLess`; `BusierIsNotSuggested` | three pids and three starts: a pair and a third process that may join it, exact, fuzzy or near; two containers, a program with a fingerprint of its own, a parent that forks (itself included) and a cluster master running from the start; three ticks for a window of one, so that a report expires. Pids come in a fixed order that is neither upward nor downward, until a process has exited and any free one may come next. Command lines of up to three units (with one more volatile flag at the end), every two of them compared; every combination of traits and of the values the code compares loads, counts and ages with |
| `failed_units` | `RowsAreSpaced`, `LogOnlyGrows`, `FailureIsTriedFirst`, `NewFailureIsOnRecord`, `CatchesUp` | two units, so that a check can be cut between two alerts; two changes, one failing write, one crash or reboot, a cooldown of two of five ticks |
| `scan_cycle` | types; `AlertsHaveGroups`, `LastingDuplicatesAreReported`, `StopEnds` | two groups, so that a raise falls between two alerts; one fault; time unbounded |
| `repository` | types; `OneRowPerPid`, `SamplesAreSpaced`, `ImplementsTable` (refinement; one loop); `FreshRowsAreKept`, `UpsertsFailForAReason`, `LiveProcessesGetRows` (one or two); `MigrationsAreWhole`, `StartsSucceed` | two pids; three starts with one loop; two with both, enough for a pid that changes hands between their scans and for the id of a purged row that goes to the other pid; stale, interval and retention of one tick of two, where `<` and `<=` differ. Pids come upwards, or again. Two processes, three migration files (a table, two columns, a younger table), databases of three earlier versions, one crash and as many lock timeouts as there may be; the scan loops only where nothing crashed before, since a finished migration leaves one schema |
| `kill_workflow` | types; `OldestIsKept`, `KillFollowsTerm`, `LogClaimsNoMore`; `RemoteAnswersAreTrue`; `KillAppEmptiesItsGroup` | two handlers with a request each, or one with two; two pids and three starts, so that a pid is used again under a handler; a program the user may not signal; one exit or failing log write. Pids come upwards until each was used; handlers are alike, hence the symmetry. Two constraints leave out what shows nothing: a host that goes on after the last answer (`SomethingIsAsked`), and other orders of the steps that only touch what one handler has in hand (`PrivateStepsFirst`). Remote: two requests at one pid that three processes may have. Overview: six kinds of rows that name applications in different places or several, up to four rows of a page of three and a kill of two |
| `detector_loops_restart`, `alerts_after_boot`, `kill_extras_leaves_none`, `repository_restarts`, `remote_gone`, `login_sessions` | counterexamples, see the findings | the smallest hosts that show them |

`CHECK_DEADLOCK FALSE` is set everywhere: bounds on clocks, starts, requests and
incarnations make finite models stop where the system would go on, and a scan
loop that was told to stop does stop. Where one run follows several components,
each is followed from its own initial state while the others stay in theirs:
they share no state, so nothing is lost, and their states add up instead of
multiplying.

### Fairness

* `ScanCycle`: weak fairness of `Loop` (the asyncio task runs whenever it can)
  and of `Pass` (time passes). Nothing has to fail, change, stop or be killed,
  and faults are bounded: the outage ends. `LastingDuplicatesAreReported` needs
  both: a report whose cycle raised is made again only once its window and
  cooldown have passed.
* `FailedUnits`: weak fairness of `Check` and of `Tick`, for the same reason.
* `ProcessRepository`: weak fairness of `Upsert(w)` for each loop that runs.
  Each is a task of its own process; neither can hold the other's off for ever,
  since SQLite's lock is held within a step.
* `Migrations`: weak fairness of `InitDb(a)` for each process: it runs, and
  systemd starts it again when it has ended (`Restart=always`). Lock timeouts
  may come whenever the lock is held, so `StartsSucceed` needs that their
  holder commits or ends.
* The other specifications have safety properties only.

## 4. Findings

Runs that show where the code departs from what it says (quotes in
`PROJECT.json`):

* **`detector_loops_restart`** The tracker counts starts of processes that all
  still run. Three instances started close together reach the threshold and
  their fingerprint is dropped from duplicate detection as a restart loop.
* **`alerts_after_boot`** A key without a stamp counts as emitted at clock
  zero, which is boot: for the first 300 seconds of uptime every alert is
  declined. Units that failed at boot are then known and never alerted, which
  is why `FailureIsTriedFirst` asks for a scanner started later.
* **`kill_extras_leaves_none`** The kept member is the oldest *row*. If its
  process has exited within the last 30 seconds, all live members are
  signalled.
* **`repository_restarts`** A start time read back from SQLite has no zone and
  never equals the snapshot's, so `restart_count` grows at every scan.
* **`remote_gone`** `kill -TERM` fails for a process of another user, and so
  does the `kill -0` meant to tell that case from a process that has ended: it
  is reported gone while it runs.
* **`login_sessions`** The signature of a session cookie is raw bytes, and the
  cookie is taken apart at its last dot. When a byte of the signature is a dot,
  the session a login has just issued is not valid.

Seen while modelling, in the models, but without a run of their own:

* A hit of the suppression set moves the entry behind younger ones without
  renewing it, so an expired key can still be answered with true
  (`app/core/runtime_state.py:23`); `SuppressionWindow` therefore promises no
  expiry.
* `observe` keeps a bucket in order of observation and trims its front only, so
  starts further apart than the window may be counted together
  (`app/core/runtime_state.py:61`).
* In the near stage a suppressed group's members are not consumed, so a part of
  it can be reported under a key of its own inside the window
  (`app/core/duplicate_detector.py:168`).
* A common parent adds 10 points to a pair
  (`app/core/duplicate_detector.py:212`), where README.md:350 says it lowers
  confidence.
* A write that raises leaves the stamp behind and the next calls decline an
  alert that is not in the table (`app/services/alert_service.py:34`); a unit
  that flaps within the cooldown is told once. `NewFailureIsOnRecord` says what
  is left.
* `detect()` marks groups as reported before anything is written: if the upsert
  raises under `_run_scanner`, the group is filed only when its window has
  passed. By default window and cooldown are both 300 seconds.
* A maintenance that raises comes before the alerts of its cycle and is tried
  again in the next: as long as it raises, no cycle gets to its alerts
  (`app/services/process_service.py:110`).
* `kill_extras` signals whoever has the pid by now
  (`app/web/routes/duplicates.py:110`); a SIGTERM to a pid without a row, to a
  process that ends before SIGKILL, or whose log write fails is not in the kill
  log, which README.md:671 says tracks every one.
* Foreign keys are off, so the purge of stale rows leaves their history to
  whoever gets the id next (`app/database/repository.py:116`).
* `ProcessRecord` is "Current process state keyed by PID."
  (`app/database/models.py:22`), and rows are looked up by pid; the key of the
  table is pid and start time. With two scan loops and a pid used again between
  their scans, one pid comes to have two rows. Both loops then load the one with
  the larger id, give it the start time the other has and fail on the unique
  constraint, at every cycle until the process exits; the purge of stale rows is
  part of the upsert that fails, so nothing clears them. `UpsertsFailForAReason`
  and `LiveProcessesGetRows` name this case (`Twins`), and without it the latter
  is violated in `repository`.
* With two scan loops the row a loop has loaded may be purged by the other and
  its id be given to another pid's row. The update then writes the one process
  over the other's row (`app/database/repository.py:66`), under the other's pid,
  and the statement succeeds. `Overtaken` in `UpsertsFailForAReason` is about
  the same rows.
* Suggestions never name a zombie, which `app/web/suggestions.py:6` promises: a
  zombie has no command line, and what has none is protected. Nor are confirmed
  duplicates or processes without children looked at, as the same text says;
  and since `restart_count` grows at every scan (above), nothing is in the
  second tier after the second.
* Signing falls back to the password when no `session_secret` is set
  (`app/web/security.py:137`), so a password change then ends every session,
  which `app/web/routes/settings.py:77` does not intend.
* Two saves that overlap lose one of the two updates, and a `chmod` that fails
  leaves a new password in the file and the old one in force.
* A host that runs more processes than the hash cache holds (4096)
  loses every scan, hence the condition in `LossesAreSingle`.
* A volatile flag that stands alone takes the next token for its value, be it
  a flag or the script. `-m`, `-b` and `-p` are among them.
* Two command lines may have equal exact fingerprints and different fuzzy ones.
* The detail page works out a process's application without its unit and comm
  (`app/web/routes/processes.py:441`), the overview with them.
* A project directory named "unknown" shares its group with the processes of
  no application, of which `kill_app` takes only the directory's. It reads 2000 rows
  where the overview reads 5000, so what lies beyond stays.
* Notes are listed only for a process that matches in pid and fingerprint
  (`app/database/repository.py:256`); the model documents either
  (`app/database/models.py:142`).
* A remote kill answers "denied" also when SIGTERM has been delivered and
  SIGKILL was not (the process ended, or passed its pid on, in between).

## 5. Proofs

`tlapm` proves, for every value of the constants that the named assumptions of
the modules allow, every safety property the passing runs check, and the refinements. Each theorem about states has an
inductive invariant of its own, named in its module; what it adds to the
property, and why, is said here.

**`Finite_proofs`** holds what the others need to know of finite sets and of
lists: that a finite set of numbers can be put in order, and in one order only
(`ListExists`, `InOrderLists`), what picking places of a list gives
(`PickedAre`), how counting follows a list that grows, and that two increasing
lists, one of a set and one of its elements followed by greater ones, begin
alike (`FirstOnesAgree`). What needs induction is proved over a set of numbers
(`EveryNumber`: a set that holds 0 and with `n` also `n + 1` holds every
number), since the induction theorems of the library take an operator.
`RuntimeState_proofs` says what cutting a sequence at its front leaves behind.

**`Alerts_proofs`**, about `AlertService` and `FailedUnits`.
* `RowsSpaced`: the next row is compared with the stamp of its key, not with
  the rows. The invariant adds `RowsAreStamped`: a row of the running
  incarnation is no younger than the stamp of its key, whether or not the write
  after the stamp succeeded, and no row is of a later incarnation.
* `UnitsUseAlertService`: the unit check implements the alert service, each of
  its steps being one of it or a stutter. What holds of the service
  (`UnitRowsSpaced`) is carried over.
* `FailuresTriedFirst` and `FailuresOnRecord` share `UnitsIInv`. It says at each
  point of a check what its alerts have become so far: `CheckIsSound` (what is
  left to tell is about units whose state changed, and no stamp lies ahead of
  the clock), `FailuresAreTold` (each new failure is still to be told or was put
  to the service within the cooldown), and `StampsHaveRows` (as long as no write
  has failed, a stamp has its row). Units are told of in a sorted order, which
  any finite set has.

**`Kill_proofs`**, about `KillWorkflow`, `RemoteKill` and `Dashboard`.
* `EscalationFollowsTerm`: a handler that waits for a process, or has given up
  waiting, has sent it SIGTERM (`WaitFollowsTerm`). The step to SIGKILL keeps
  this because psutil compares start times before it signals; with a signal to
  the bare pid the proof fails at that step.
* `OldestKept`, the property that takes most of the invariant. What is signalled
  is a bare pid from a row that was read, so it has to be carried along that
  rows and members in hand trail the host (`RowsTrail`, `Trailing`: who has the
  pid by now has not started before), that a start time belongs to one pid
  (`OnePid`), that whoever has a pid of a group is of the group or younger than
  all of it (`GroupsHold`), and that each pid is read once (`Reading`). The member
  kept is then older than the others in hand, and of the group or younger than
  all of it (`Chosen`): a process of the group that is signalled has an older one
  there. The property is about the group of the request. For all groups
  at once it would be false: with a third process, a later group may have a
  member of this one for its oldest.
* `LogClaimsNoMoreThanSent`: the log entries of a pid and the handlers that have
  signalled it and not yet logged that are together no more than its SIGTERMs
  (`CountIInv`), counted as cardinalities.
* `RemoteAnswersHold`: what is known at each command of the script (`Script`:
  what it has hit so far), and `StaysPut`: a process that took SIGTERM keeps its
  pid and its owner as long as it runs, so a pid that cannot be signalled any
  more is a process that has ended.
* `ButtonEndsItsGroup`: the page and the handler cut the table at limits of their
  own and the rows that are left move up, so the places of a group in the old
  and the new page are two increasing lists that must begin alike
  (`OthersStay`); what lies beyond the handler's limit is counted by an
  injection (`FewAreLeft`). Hypothesis `NobodyIsUnknown`: with a project called
  "unknown" the page puts it under one button with the processes of no
  application, of which `kill_app` then takes only the former.

**`ProcessMemory_proofs`**, about what one process keeps in memory.
* `TableWellFormed`, `WindowImplemented`: pruning leaves a suffix of the table, a
  hit permutes it, a new key is appended and pushes the first entry out of a
  full table. For the refinement, the time of a key is that of its only entry,
  so tables that share an entry agree on it; a miss evicts at most one key and
  only when the table holds `MaxSize`.
* `LoopsCounted`, `TrackerBounded`: `Covered` says of every start that was shown,
  and that no later one has left behind by more than the window, that it is in
  its bucket.
* `RequestsLimited`: `BucketsCount` equates, for every time inside the window,
  the bucket's entries since then with the requests let through since then.
  Outside they differ, for only a served request filters its bucket.
* `PortsRecent`: `AgesHold` gives each list along the way (socket cache, snapshot,
  debounced answer, what is shown) the latest time at which it was true; the
  bound of the property is the sum of the three.
* `LossesSingle`: a lost scan leaves an empty cache, which has room for every
  process unless the host runs more than it holds (`LossIInv`).
* `RestartsKeepSettings`, `SessionsEnd`: in between the quiet moments the
  properties speak of, `InStep` says how far file and memory are apart at each
  step of the one save under way, as long as nothing has disturbed it.
* `MemoryTypeCorrect` puts the invariants side by side for `MCRuntimeState`.

**`Database_proofs`**, about `Migrations` and `ProcessRepository`.
* `MigrationsHold`: what a process in a transaction sees is as whole as what is
  committed; the lock is free only with nothing pending; and `Progress` says of
  each process that the files before its own are recorded in what it sees, and
  that the statements of its own file which are not left over have taken
  effect. A step of one process only adds to what the others see
  (`OthersProgress`).
* `OneRowHolds`, `FreshRowsStay`: a loop that is alone commits over the rows it
  has loaded (`LoadedIsCurrent`), so its updates replace them and its inserts
  are for pids without any, under ids above the largest. `FreshRowsAreKept`
  needs only that a loop's clock reading is no later than now.
* `SamplesSpaced`: the sample a loop has looked up is still the last of that row
  when it commits (`PeekedIsCurrent`), though ids are handed out again to rows
  that inherit a history (`TypesInv`: nothing seen or sampled lies ahead).
* `UpsertsFailWithReason`: of a conflict, the row in the way has the pid of one
  that is written. If the loop was not overtaken, what is written under that pid
  is another row of the table with the same pid: twins. A loop that is alone has
  neither (`AloneNeverFails`).
* `TableImplemented`: the upsert takes effect at its commit, but at the time of
  its load. `SeenBefore` says that nothing was seen in between, so that rows
  which have become stale since are still those of that time; `New` is the row
  that a loop which is alone writes for a pid, `TableAfter` the table it leaves,
  `SamplesWhenAlone` the history (what was peeked at is still the last sample).
  `NothingLeft` gives that no snapshot is dropped, `AloneNeverFails` that none
  is lost in a rollback.

**`ScanCycle_proofs`**: `AlertsFollowGroups` adds `PendingAreFiled`: from the
moment the groups of a cycle are filed until the last is alerted, what is still
to be alerted is in the table, whichever stage raises in between.
`CycleTypeCorrect` is inductive as it stands.

**`Detector_proofs`**, about `DuplicateDetector`, `Fingerprints`,
`SecurityEngine` and `Suggestions`.
* A pass is one action of three stages, each a recursive function over its
  buckets. `Sound` is what holds of the findings at every point of a pass, and
  each stage keeps it (`ExactRun`, `FuzzyRun`, `NearGroupRun`, `NearBucketRun`,
  by induction over the buckets): groups are apart and away from the pids still
  to be looked at, none is a lineage, what the suppression set holds was
  reported. Between passes `DetectorInv` says the same of the result, and gives
  `GroupsNeverShare` and `DuplicatesOnRecord`.
* `LineagesAreSpared` needs `Threshold > 70` (the default is 75): parent and
  child lose 45 points, so that a pair of them scores 70 at most; with a lower
  threshold it can be reported.
* `ReportsAreSpaced` needs `RoomForAll`: that the suppression set has room for
  every key reported. To ask for room for those inside the window would not do:
  `prune` stops at the first entry that has not expired, hits leave the entries
  out of the order of their times, and so expired ones may take up the room.
  With it, `Window` says that the set holds every report inside the window.
* `ShapeOnly`: the property is about the whole line and about the line with a
  volatile flag at its end, the invariant about the scan itself. After the last
  unit its profile is exactly what the words and flags of the line make
  (`ScanReaches`, `Kept`), and it is about to skip nothing, so that a unit never
  begins inside the one before. A unit is one token or two; `UnitScanned` takes
  it through the scan (`FuzzilyIs`, case by case), and `FlagAtEndScanned` does
  the same for the flag at the end, which has no token to skip. What the scan
  makes of its last token depends on its being the last, so the invariant adds
  that this makes no difference for a line of whole units but for `skip`
  (`SameBut`).
* `WorseIsJudgedNoLess`, `BusyIsNotSuggested`: for every profile and process, by
  the conditions the score and the tiers consist of.

The three compositions have theorems of their own for the type invariants of
their runs (`MemoryTypeCorrect`, `DatabaseTypeCorrect`, `PartsTypeCorrect`,
`DetectorTypeCorrect`): a step of one part leaves the others' variables alone.

For the provers' sake some definitions have a closed form where a computed one
would be at hand: `Listing` says what sorted() and a filtered list are instead
of calling `SortSeq` and `SelectSeq`, whose definitions the provers do not see
through; the stages of the detector and the scan over tokens are functions of the place, since operators declared
`RECURSIVE` are beyond them; points are added one by one.

Model-checked only: liveness (`LastingDuplicatesAreReported`, `StopEnds`,
`CatchesUp`, `LiveProcessesGetRows`, `StartsSucceed`), which is beyond the
prover.

## 6. Not modelled

The collectors and the terminal UI are pure I/O and presentation: the host is
an environment of the models. Templates, list routes, schemas, logging,
diagnostics and configuration loading hold no state that later steps depend on;
nor do the roast page, healing (one action of the terminal UI, off by default)
and the metrics. `rules_engine.py` is called by nothing. What a text looks like
(commands, fingerprints, reasons, messages) is abstracted to what the
properties tell apart; the rewriting of paths and aliases inside a token, CSRF
tokens and public paths are left out with it. `build_tree` is presentation: of
rows whose parents form a cycle (a torn read can show one) it prints none.
The fingerprint cache of the scanner has a key that holds everything its value
is computed from, so it decides nothing. SQLite's pragmas are left out but for
the lock timeout.

One hazard is listed without a property. What the near stage reports of the
rest of a suppressed group (`app/core/duplicate_detector.py:168`) is what the
code is written to do, and nothing says how much that may be.

## 7. Plan

Done, in this order: `RuntimeState`, `TTLSet` over `SuppressionWindow`,
`RestartTracker`, `DuplicateDetector`, `AlertService`, `FailedUnits`,
`KillWorkflow`, `ProcessRepository`, `ScanCycle`; `RateLimit`, `Scanner`,
`WebSettings`, `RemoteKill`, `Migrations`, `Fingerprints`, `SecurityEngine`,
`Suggestions`, `Dashboard`; the eight proof modules; and `ProcessTable` under
`ProcessRepository`. The number of runs is kept small: components that share
nothing are followed one at a time in one run.

What could follow: `ScanCycle` with the alert service it uses, so that what is
proved of the one carries over to the other; an abstract table for two loops,
which would have to say what an upsert over another process's row leaves behind;
unit control and the labels of processes.
