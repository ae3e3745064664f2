-------------------------------- MODULE Scanner --------------------------------
(***************************************************************************)
(* The process scanner (app/core/scanner.py) and its port mapper           *)
(* (app/core/port_mapper.py) over a host whose processes and sockets come  *)
(* and go.  A scan collects the processes, attaches ports from a socket    *)
(* cache, and hashes executables through a cache of its own; a scan soon   *)
(* after another is answered with the snapshots of that one.  A scan runs  *)
(* in a thread and takes time.  The fingerprint cache is left out: its key *)
(* holds everything a fingerprint is computed from.                        *)
(***************************************************************************)
EXTENDS Integers, FiniteSets, Functions

CONSTANTS
    ScanPids,
    Executables,
    Ports,
    MinInterval,   \* min_scan_interval, in ticks
    Refresh,       \* PortMapper's refresh_interval, in ticks
    MaxHashes,     \* 4096, the bound of the hash cache
    ScanTime,      \* bound on how long a scan takes
    ScanHorizon    \* bound on the clock

ASSUME ScannerAssumption ==
    /\ IsFiniteSet(ScanPids)
    /\ {MinInterval, Refresh, MaxHashes, ScanTime, ScanHorizon} \subseteq Nat

VARIABLES
    exe,        \* the host: pid -> executable of the process that has it
    listening,  \* the host: << pid, port >> of every listening socket
    talking,    \* the host: pids with established outbound connections
    closedAt,   \* << pid, port >> -> when such a socket was last closed
    clock,      \* time.monotonic()
    mapper,     \* PortMapper: _cached_ports, _cached_outbound, _last_collect_at
    hashes,     \* keys of _pid_hash_cache
    scan,       \* the scan under way
    recent,     \* _last_snapshots and _last_scan_at
    delivered,  \* the last list of snapshots handed out, and when
    losses      \* scans that raised since the last that did not, and the size of the last one

hostState == << exe, listening, talking, closedAt >>
scannerVars == << exe, listening, talking, closedAt, clock, mapper, hashes, scan, recent, delivered, losses >>

Unscanned == [at |-> 0, snapshots |-> << >>]
NoScan == [pc |-> "idle", begun |-> 0, snapshots |-> << >>]

ScannerInit ==
    /\ exe = << >> /\ listening = {} /\ talking = {}
    /\ closedAt = [s \in ScanPids \X Ports |-> -1]
    /\ clock = 0
    /\ mapper = [ports |-> {}, outbound |-> {}, at |-> 0]
    /\ hashes = {}
    /\ scan = NoScan
    /\ recent = Unscanned /\ delivered = Unscanned
    /\ losses = [count |-> 0, size |-> 0]

-----------------------------------------------------------------------------
(* The host                                                                *)

HostStart(pid, path) ==
    /\ pid \notin DOMAIN exe
    /\ exe' = [p \in DOMAIN exe \cup {pid} |-> IF p = pid THEN path ELSE exe[p]]
    /\ UNCHANGED << listening, talking, closedAt >>

Closing(sockets) ==
    closedAt' = [s \in ScanPids \X Ports |-> IF s \in sockets THEN clock ELSE closedAt[s]]

HostExit(pid) ==
    LET owned == {s \in listening : s[1] = pid}
    IN  /\ pid \in DOMAIN exe
        /\ exe' = Restrict(exe, DOMAIN exe \ {pid})
        /\ listening' = listening \ owned
        /\ talking' = talking \ {pid}
        /\ Closing(owned)

HostListen(pid, port) ==
    /\ pid \in DOMAIN exe
    /\ \A s \in listening : s[2] # port
    /\ listening' = listening \cup {<< pid, port >>}
    /\ UNCHANGED << exe, talking, closedAt >>

HostConnect(pid) ==
    /\ pid \in DOMAIN exe
    /\ talking' = talking \cup {pid}
    /\ UNCHANGED << exe, listening, closedAt >>

Host ==
    /\ \/ \E pid \in ScanPids, path \in Executables : HostStart(pid, path)
       \/ \E pid \in ScanPids : HostExit(pid) \/ HostConnect(pid)
       \/ \E pid \in ScanPids, port \in Ports : HostListen(pid, port)
    /\ UNCHANGED << clock, mapper, hashes, scan, recent, delivered, losses >>

-----------------------------------------------------------------------------
(* The socket cache                                                        *)

\* An empty table of sockets is not worth caching.
MapperIsFresh == mapper.ports # {} /\ clock - mapper.at < Refresh

\* A slip the code avoids: what cannot be read is taken from the cache.
CollectedPortsStale(readable) ==
    IF MapperIsFresh \/ ~readable THEN mapper.ports ELSE listening

\* collect_ports: what cannot be read is no port at all.
CollectedPorts(readable) ==
    IF MapperIsFresh THEN mapper.ports ELSE IF readable THEN listening ELSE {}

\* Reading the sockets renews both maps; a failed read keeps both.
CollectPorts(readable) ==
    mapper' = IF MapperIsFresh \/ ~readable THEN mapper
              ELSE [ports |-> listening, outbound |-> talking, at |-> clock]

\* attach: by pid alone.  Outbound counts come from the cache, however old.
Attached(readable) ==
    [pid \in DOMAIN exe |->
        [ports |-> {port \in Ports : << pid, port >> \in CollectedPorts(readable)},
         outbound |-> pid \in mapper'.outbound]]

-----------------------------------------------------------------------------
(* The hash cache                                                          *)

\* The cache with an entry for every process.
Hashed == hashes \cup {<< pid, exe[pid] >> : pid \in DOMAIN exe}

\* A slip the code avoids: the cache stays as it is when it is full.
HashingFull ==
    IF Cardinality(Hashed) > MaxHashes THEN [cache |-> hashes, ok |-> FALSE]
    ELSE [cache |-> Hashed, ok |-> TRUE]

\* The entry that overflows the cache clears it and is looked up right after:
\* KeyError ends the scan, wherever in the list of processes it happens.
Hashing ==
    IF Cardinality(Hashed) > MaxHashes THEN [cache |-> {}, ok |-> FALSE]
    ELSE [cache |-> Hashed, ok |-> TRUE]

-----------------------------------------------------------------------------
(* Scans                                                                   *)

Debounced == recent.snapshots # << >> /\ clock - recent.at < MinInterval

\* The list of the last scan itself is handed out again.
ScanAgain ==
    /\ scan.pc = "idle"
    /\ Debounced
    /\ delivered' = [at |-> clock, snapshots |-> recent.snapshots]
    /\ UNCHANGED << hostState, clock, mapper, hashes, scan, recent, losses >>

ScanBegin(readable) ==
    /\ scan.pc = "idle"
    /\ ~Debounced
    /\ CollectPorts(readable)
    /\ hashes' = Hashing.cache
    /\ \/ /\ Hashing.ok
          /\ scan' = [pc |-> "scanning", begun |-> clock, snapshots |-> Attached(readable)]
          /\ losses' = [losses EXCEPT !.size = Cardinality(DOMAIN exe)]
       \/ /\ ~Hashing.ok
          /\ losses' = [count |-> losses.count + 1, size |-> Cardinality(DOMAIN exe)]
          /\ scan' = scan
    /\ UNCHANGED << hostState, clock, recent, delivered >>

ScanEnd ==
    /\ scan.pc = "scanning"
    /\ recent' = [at |-> clock, snapshots |-> scan.snapshots]
    /\ delivered' = recent'
    /\ losses' = [losses EXCEPT !.count = 0]
    /\ scan' = NoScan
    /\ UNCHANGED << hostState, clock, mapper, hashes >>

ScannerPass ==
    /\ clock < ScanHorizon
    /\ scan.pc = "scanning" => clock < scan.begun + ScanTime
    /\ clock' = clock + 1
    /\ UNCHANGED << hostState, mapper, hashes, scan, recent, delivered, losses >>

\* Scans are counted no further than the first loss that follows another.
ScannerNext ==
    /\ losses.count < 2
    /\ Host \/ ScanAgain \/ (\E readable \in BOOLEAN : ScanBegin(readable)) \/ ScanEnd \/ ScannerPass

ScannerSpec == ScannerInit /\ [][ScannerNext]_scannerVars

-----------------------------------------------------------------------------

Snapshot == [ports : SUBSET Ports, outbound : BOOLEAN]
IsSnapshots(list) == DOMAIN list \subseteq ScanPids /\ \A pid \in DOMAIN list : list[pid] \in Snapshot

ScannerTypeOK ==
    /\ DOMAIN exe \subseteq ScanPids /\ \A pid \in DOMAIN exe : exe[pid] \in Executables
    /\ listening \subseteq (DOMAIN exe) \X Ports /\ talking \subseteq DOMAIN exe
    /\ closedAt \in [ScanPids \X Ports -> -1..clock]
    /\ mapper \in [ports : SUBSET (ScanPids \X Ports), outbound : SUBSET ScanPids, at : 0..clock]
    /\ hashes \subseteq ScanPids \X Executables /\ Cardinality(hashes) <= MaxHashes
    /\ scan.pc \in {"idle", "scanning"} /\ IsSnapshots(scan.snapshots)
    /\ IsSnapshots(recent.snapshots) /\ recent.at \in 0..clock
    /\ IsSnapshots(delivered.snapshots) /\ delivered.at \in 0..clock

\* The greatest age, in ticks, that an open window lets pass.
Slack(window) == IF window = 0 THEN 0 ELSE window - 1

\* Snapshots may show a port under a pid that has lost it, or that belongs to
\* another process by now, but not for long: the socket cache, the scan and
\* the debounced answer add up, and each of the two windows is open at its end.
\* This is so although a failed read of the sockets keeps the old cache, from
\* which outbound counts go on being taken without any such limit.
PortsAreRecent ==
    \A pid \in DOMAIN delivered.snapshots : \A port \in delivered.snapshots[pid].ports :
        \/ << pid, port >> \in listening
        \/ delivered.at - closedAt[<< pid, port >>] <= Slack(Refresh) + ScanTime + Slack(MinInterval)

\* An overflow of the hash cache loses the scan it happens in, and with it
\* everything the cycle would have reported; the next scan succeeds, unless
\* the host runs more processes at once than the cache holds.
LossesAreSingle == losses.count > 1 => losses.size > MaxHashes
=============================================================================
