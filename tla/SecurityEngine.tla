----------------------------- MODULE SecurityEngine -----------------------------
(***************************************************************************)
(* The scoring of suspicious processes (app/core/security_engine.py) and   *)
(* the resource thresholds (app/core/resource_tracker.py), of a process    *)
(* that changes from scan to scan.  What a pattern or a name matches is a  *)
(* trait the process has or has not; counts and loads are taken at the     *)
(* values the code compares them with.                                     *)
(***************************************************************************)
EXTENDS Integers, FiniteSets

CONSTANTS
    SecurityEnabled,
    ExcessiveCpu,   \* excessive_cpu_percent
    CpuThreshold,   \* cpu_threshold_percent, of the resource alerts
    RamThreshold    \* ram_threshold_mb

ASSUME SecurityAssumption ==
    /\ SecurityEnabled \in BOOLEAN
    /\ {ExcessiveCpu, CpuThreshold, RamThreshold} \subseteq Nat

VARIABLES
    watched,   \* the process: [traits, cpu, ram, outbound]
    verdict   \* what the last scan says of it

securityVars == << watched, verdict >>

\* What each trait adds, in the order the code looks for them.
Weight == [temp |-> 30, deleted |-> 45, hidden |-> 20, random |-> 15, miner |-> 60,
           pattern |-> 45, port |-> 15, sockets |-> 10]
Traits == DOMAIN Weight

CpuLevels == {0, 50, ExcessiveCpu, CpuThreshold}
RamLevels == {0, RamThreshold}
OutboundLevels == {0, 15, 50}

Profiles == [traits : SUBSET Traits, cpu : CpuLevels, ram : RamLevels, outbound : OutboundLevels]

-----------------------------------------------------------------------------
(* SecurityEngine._score                                                   *)

\* Many connections, or fewer with a busy processor: one signal or the other.
TalksTooMuch(p) == p.outbound >= 50 \/ (p.outbound >= 15 /\ p.cpu >= 50)
RunsHot(p) == p.cpu >= ExcessiveCpu

Signals(p) ==
    p.traits \cup (IF RunsHot(p) THEN {"cpu"} ELSE {}) \cup (IF TalksTooMuch(p) THEN {"outbound"} ELSE {})

Capped(points) == IF points > 100 THEN 100 ELSE points

Score(p) ==
    LET from(trait) == IF trait \in p.traits THEN Weight[trait] ELSE 0
    IN  Capped(from("temp") + from("deleted") + from("hidden") + from("random")
               + from("miner") + from("pattern") + from("port") + from("sockets")
               + (IF RunsHot(p) THEN 20 ELSE 0) + (IF TalksTooMuch(p) THEN 40 ELSE 0))

\* A slip the code avoids: a temporary or deleted executable is looked at last.
CategoryOfLast(p) ==
    IF {"temp", "deleted"} \cap p.traits # {} THEN "WARNING"
    ELSE IF {"miner", "pattern"} \cap p.traits # {} THEN "CRITICAL"
    ELSE "INFO"

\* The last of the traits that set a category wins; the others leave it.
Category(p) ==
    IF {"miner", "pattern"} \cap p.traits # {} THEN "CRITICAL"
    ELSE IF {"temp", "deleted"} \cap p.traits # {} THEN "WARNING"
    ELSE "INFO"

Quiet == [found |-> FALSE, score |-> 0, severity |-> "INFO", category |-> "INFO", confidence |-> 0]

\* SecurityEngine.scan: below 40 a score is noted on the process and no more.
Finding(p) ==
    IF ~SecurityEnabled THEN Quiet
    ELSE IF Score(p) < 40 THEN [Quiet EXCEPT !.score = Score(p)]
    ELSE [found |-> TRUE, score |-> Score(p),
          severity |-> IF Score(p) >= 80 THEN "CRITICAL" ELSE "WARNING",
          category |-> Category(p),
          confidence |-> Capped(Score(p) + IF Cardinality(Signals(p)) > 1 THEN 10 ELSE 0)]

\* ResourceTracker.high_usage
HighUsage(p) ==
    (IF p.cpu >= CpuThreshold THEN {"cpu"} ELSE {}) \cup (IF p.ram >= RamThreshold THEN {"ram"} ELSE {})

Verdict(p) == [finding |-> Finding(p), usage |-> HighUsage(p)]

-----------------------------------------------------------------------------

SecurityInit ==
    /\ watched = [traits |-> {}, cpu |-> 0, ram |-> 0, outbound |-> 0]
    /\ verdict = Verdict(watched)

\* The profiles one step worse than p.
Worsened(p) ==
    {[p EXCEPT !.traits = @ \cup {t}] : t \in Traits \ p.traits}
    \cup {[p EXCEPT !.cpu = c] : c \in {c \in CpuLevels : c > p.cpu}}
    \cup {[p EXCEPT !.ram = r] : r \in {r \in RamLevels : r > p.ram}}
    \cup {[p EXCEPT !.outbound = n] : n \in {n \in OutboundLevels : n > p.outbound}}

\* Between two scans the process changes for the worse, or for the better: it
\* may be another one by now.
WatchedWorsens == watched' \in Worsened(watched) /\ verdict' = Verdict(watched')
WatchedIsReplaced ==
    /\ watched' = [watched EXCEPT !.traits = {}, !.cpu = 0]
    /\ verdict' = Verdict(watched')

SecurityNext == WatchedWorsens \/ WatchedIsReplaced

SecuritySpec == SecurityInit /\ [][SecurityNext]_securityVars

-----------------------------------------------------------------------------

Rank(level) == CASE level = "INFO" -> 0 [] level = "WARNING" -> 1 [] level = "CRITICAL" -> 2

SecurityTypeOK ==
    /\ watched \in Profiles
    /\ verdict.finding \in [found : BOOLEAN, score : 0..100, confidence : 0..100,
                             severity : {"INFO", "WARNING", "CRITICAL"},
                             category : {"INFO", "WARNING", "CRITICAL"}]
    /\ verdict.usage \subseteq {"cpu", "ram"}

\* A process that shows more is never judged less: no signal lowers the
\* score, the severity, the category or the confidence, or takes a finding or
\* a resource alert back, whatever the order the signals are looked for in,
\* the cap on the score and the two outbound signals that exclude each other.
WorseNeverScoresLess ==
    [][watched' \in Worsened(watched) =>
        LET before == verdict.finding  after == verdict'.finding IN
        /\ before.found => after.found
        /\ before.score <= after.score /\ before.confidence <= after.confidence
        /\ Rank(before.severity) <= Rank(after.severity)
        /\ Rank(before.category) <= Rank(after.category)
        /\ verdict.usage \subseteq verdict'.usage]_securityVars
=============================================================================
