---------------------------- MODULE Detector_proofs ----------------------------
(***************************************************************************)
(* Proofs about the duplicate detector and what follows it in a scan       *)
(* cycle: for any programs, processes, similarities, sizes and times, and  *)
(* for any process that is scored or suggested.                            *)
(***************************************************************************)
EXTENDS MCDuplicateDetector, RuntimeState_proofs

-----------------------------------------------------------------------------
(* SecurityEngine                                                          *)

SecurityInv == watched \in Profiles /\ verdict = Verdict(watched)

\* q shows all that p shows, or more of it.
ShowsMore(p, q) ==
    p.traits \subseteq q.traits /\ p.cpu <= q.cpu /\ p.ram <= q.ram /\ p.outbound <= q.outbound

LEMMA LevelsAreNumbers ==
  /\ CpuLevels \subseteq Nat /\ RamLevels \subseteq Nat /\ OutboundLevels \subseteq Nat
  /\ ExcessiveCpu \in Nat /\ CpuThreshold \in Nat /\ RamThreshold \in Nat
BY SecurityAssumption DEF CpuLevels, RamLevels, OutboundLevels

LEMMA WorsenedShowsMore ==
  ASSUME NEW p \in Profiles, NEW q \in Worsened(p)
  PROVE  q \in Profiles /\ ShowsMore(p, q)
<1>1. /\ p.traits \subseteq Traits /\ p.cpu \in CpuLevels /\ p.ram \in RamLevels /\ p.outbound \in OutboundLevels
      /\ p = [traits |-> p.traits, cpu |-> p.cpu, ram |-> p.ram, outbound |-> p.outbound]
  BY DEF Profiles
<1>2. p.cpu \in Nat /\ p.ram \in Nat /\ p.outbound \in Nat
  BY <1>1, LevelsAreNumbers
<1>3. CASE \E t \in Traits \ p.traits : q = [p EXCEPT !.traits = @ \cup {t}]
  BY <1>1, <1>2, <1>3 DEF Profiles, ShowsMore
<1>4. CASE \E c \in CpuLevels : c > p.cpu /\ q = [p EXCEPT !.cpu = c]
  BY <1>1, <1>2, <1>4, LevelsAreNumbers DEF Profiles, ShowsMore
<1>5. CASE \E r \in RamLevels : r > p.ram /\ q = [p EXCEPT !.ram = r]
  BY <1>1, <1>2, <1>5, LevelsAreNumbers DEF Profiles, ShowsMore
<1>6. CASE \E n \in OutboundLevels : n > p.outbound /\ q = [p EXCEPT !.outbound = n]
  BY <1>1, <1>2, <1>6, LevelsAreNumbers DEF Profiles, ShowsMore
<1> QED BY <1>3, <1>4, <1>5, <1>6 DEF Worsened

\* What a process adds to its score by a trait, and by its load.
From(p, trait) == IF trait \in p.traits THEN Weight[trait] ELSE 0
Heat(p) == IF RunsHot(p) THEN 20 ELSE 0
Talk(p) == IF TalksTooMuch(p) THEN 40 ELSE 0

LEMMA WeightsAre ==
  /\ Weight["temp"] = 30 /\ Weight["deleted"] = 45 /\ Weight["hidden"] = 20 /\ Weight["random"] = 15
  /\ Weight["miner"] = 60 /\ Weight["pattern"] = 45 /\ Weight["port"] = 15 /\ Weight["sockets"] = 10
BY DEF Weight

LEMMA ScoreIsSum ==
  ASSUME NEW p
  PROVE  Score(p) = Capped(From(p, "temp") + From(p, "deleted") + From(p, "hidden") + From(p, "random")
                           + From(p, "miner") + From(p, "pattern") + From(p, "port") + From(p, "sockets")
                           + Heat(p) + Talk(p))
BY DEF Score, From, Heat, Talk

LEMMA PartsOfScore ==
  ASSUME NEW p
  PROVE  /\ From(p, "temp") \in Nat /\ From(p, "deleted") \in Nat /\ From(p, "hidden") \in Nat
         /\ From(p, "random") \in Nat /\ From(p, "miner") \in Nat /\ From(p, "pattern") \in Nat
         /\ From(p, "port") \in Nat /\ From(p, "sockets") \in Nat /\ Heat(p) \in Nat /\ Talk(p) \in Nat
BY WeightsAre DEF From, Heat, Talk

LEMMA ScoreTyped ==
  ASSUME NEW p
  PROVE  Score(p) \in 0..100
<1> DEFINE sum == From(p, "temp") + From(p, "deleted") + From(p, "hidden") + From(p, "random")
                  + From(p, "miner") + From(p, "pattern") + From(p, "port") + From(p, "sockets")
                  + Heat(p) + Talk(p)
<1>1. sum \in Nat
  BY PartsOfScore
<1>2. Score(p) = Capped(sum)
  BY ScoreIsSum
<1> HIDE DEF sum
<1> QED BY <1>1, <1>2 DEF Capped

LEMMA ShowsMoreSignals ==
  ASSUME NEW p \in Profiles, NEW q \in Profiles, ShowsMore(p, q)
  PROVE  /\ RunsHot(p) => RunsHot(q)
         /\ TalksTooMuch(p) => TalksTooMuch(q)
         /\ Signals(p) \subseteq Signals(q) /\ HighUsage(p) \subseteq HighUsage(q)
<1>1. /\ p.cpu \in Nat /\ p.ram \in Nat /\ p.outbound \in Nat
      /\ q.cpu \in Nat /\ q.ram \in Nat /\ q.outbound \in Nat
  BY LevelsAreNumbers DEF Profiles
<1>2. /\ RunsHot(p) => RunsHot(q)
      /\ TalksTooMuch(p) => TalksTooMuch(q)
  BY <1>1, LevelsAreNumbers DEF RunsHot, TalksTooMuch, ShowsMore
<1>3. Signals(p) \subseteq Signals(q)
  BY <1>2 DEF Signals, ShowsMore
<1>4. HighUsage(p) \subseteq HighUsage(q)
  BY <1>1, LevelsAreNumbers DEF HighUsage, ShowsMore
<1> QED BY <1>2, <1>3, <1>4

LEMMA ShowsMoreScores ==
  ASSUME NEW p \in Profiles, NEW q \in Profiles, ShowsMore(p, q)
  PROVE  Score(p) <= Score(q)
<1>1. /\ From(p, "temp") <= From(q, "temp") /\ From(p, "deleted") <= From(q, "deleted")
      /\ From(p, "hidden") <= From(q, "hidden") /\ From(p, "random") <= From(q, "random")
  BY WeightsAre DEF From, ShowsMore
<1>2. /\ From(p, "miner") <= From(q, "miner") /\ From(p, "pattern") <= From(q, "pattern")
      /\ From(p, "port") <= From(q, "port") /\ From(p, "sockets") <= From(q, "sockets")
  BY WeightsAre DEF From, ShowsMore
<1>3. Heat(p) <= Heat(q) /\ Talk(p) <= Talk(q)
  BY ShowsMoreSignals DEF Heat, Talk
<1> QED BY <1>1, <1>2, <1>3, ScoreIsSum, PartsOfScore DEF Capped

LEMMA SignalsAreFinite ==
  ASSUME NEW p \in Profiles
  PROVE  IsFiniteSet(Signals(p))
<1> DEFINE all == {"temp", "deleted", "hidden", "random", "miner", "pattern", "port", "sockets", "cpu", "outbound"}
<1>1. IsFiniteSet({"temp", "deleted", "hidden", "random", "miner"})
  <2>1. IsFiniteSet({}) /\ IsFiniteSet({"temp"})
    BY FS_EmptySet, FS_Singleton
  <2>2. IsFiniteSet({"temp"} \cup {"deleted"})
    BY <2>1, FS_AddElement
  <2>3. IsFiniteSet(({"temp"} \cup {"deleted"}) \cup {"hidden"})
    BY <2>2, FS_AddElement
  <2>4. IsFiniteSet((({"temp"} \cup {"deleted"}) \cup {"hidden"}) \cup {"random"})
    BY <2>3, FS_AddElement
  <2>5. IsFiniteSet(((({"temp"} \cup {"deleted"}) \cup {"hidden"}) \cup {"random"}) \cup {"miner"})
    BY <2>4, FS_AddElement
  <2>6. ((({"temp"} \cup {"deleted"}) \cup {"hidden"}) \cup {"random"}) \cup {"miner"}
        = {"temp", "deleted", "hidden", "random", "miner"}
    OBVIOUS
  <2> QED BY <2>5, <2>6
<1>2. IsFiniteSet({"pattern", "port", "sockets", "cpu", "outbound"})
  <2>1. IsFiniteSet({"pattern"})
    BY FS_Singleton
  <2>2. IsFiniteSet({"pattern"} \cup {"port"})
    BY <2>1, FS_AddElement
  <2>3. IsFiniteSet(({"pattern"} \cup {"port"}) \cup {"sockets"})
    BY <2>2, FS_AddElement
  <2>4. IsFiniteSet((({"pattern"} \cup {"port"}) \cup {"sockets"}) \cup {"cpu"})
    BY <2>3, FS_AddElement
  <2>5. IsFiniteSet(((({"pattern"} \cup {"port"}) \cup {"sockets"}) \cup {"cpu"}) \cup {"outbound"})
    BY <2>4, FS_AddElement
  <2>6. ((({"pattern"} \cup {"port"}) \cup {"sockets"}) \cup {"cpu"}) \cup {"outbound"}
        = {"pattern", "port", "sockets", "cpu", "outbound"}
    OBVIOUS
  <2> QED BY <2>5, <2>6
<1>3. IsFiniteSet({"temp", "deleted", "hidden", "random", "miner"} \cup {"pattern", "port", "sockets", "cpu", "outbound"})
  BY <1>1, <1>2, FS_Union
<1>4. Signals(p) \in SUBSET ({"temp", "deleted", "hidden", "random", "miner"}
                             \cup {"pattern", "port", "sockets", "cpu", "outbound"})
  BY DEF Signals, Profiles, Traits, Weight
<1> QED BY <1>3, <1>4, FS_Subset

\* A process that shows more is never judged less.
LEMMA ShowsMoreJudged ==
  ASSUME NEW p \in Profiles, NEW q \in Profiles, ShowsMore(p, q)
  PROVE  LET before == Finding(p)  after == Finding(q) IN
         /\ before.found => after.found
         /\ before.score <= after.score /\ before.confidence <= after.confidence
         /\ Rank(before.severity) <= Rank(after.severity)
         /\ Rank(before.category) <= Rank(after.category)
<1>1. Score(p) \in 0..100 /\ Score(q) \in 0..100 /\ Score(p) <= Score(q)
  BY ScoreTyped, ShowsMoreScores
<1>2. Cardinality(Signals(p)) \in Nat /\ Cardinality(Signals(q)) \in Nat
      /\ Cardinality(Signals(p)) <= Cardinality(Signals(q))
  BY SignalsAreFinite, ShowsMoreSignals, FS_Subset, FS_CardinalityType
<1>3. Rank("INFO") = 0 /\ Rank("WARNING") = 1 /\ Rank("CRITICAL") = 2
  BY DEF Rank
<1>4. /\ Category(p) \in {"INFO", "WARNING", "CRITICAL"} /\ Category(q) \in {"INFO", "WARNING", "CRITICAL"}
      /\ Category(p) = "CRITICAL" => Category(q) = "CRITICAL"
      /\ Category(p) = "WARNING" => Category(q) # "INFO"
  BY DEF Category, ShowsMore
<1> DEFINE bonus(x) == IF Cardinality(Signals(x)) > 1 THEN 10 ELSE 0
           level(x) == IF Score(x) >= 80 THEN "CRITICAL" ELSE "WARNING"
<1>5. CASE ~SecurityEnabled
  BY <1>3, <1>5 DEF Finding, Quiet
<1>6. CASE SecurityEnabled
  <2>1. /\ Score(p) < 40 => /\ ~Finding(p).found /\ Finding(p).score = Score(p) /\ Finding(p).confidence = 0
                            /\ Finding(p).severity = "INFO" /\ Finding(p).category = "INFO"
        /\ Score(p) >= 40 => /\ Finding(p).found /\ Finding(p).score = Score(p)
                             /\ Finding(p).confidence = Capped(Score(p) + bonus(p))
                             /\ Finding(p).severity = level(p) /\ Finding(p).category = Category(p)
    BY <1>1, <1>6 DEF Finding, Quiet
  <2>2. /\ Score(q) < 40 => /\ ~Finding(q).found /\ Finding(q).score = Score(q) /\ Finding(q).confidence = 0
                            /\ Finding(q).severity = "INFO" /\ Finding(q).category = "INFO"
        /\ Score(q) >= 40 => /\ Finding(q).found /\ Finding(q).score = Score(q)
                             /\ Finding(q).confidence = Capped(Score(q) + bonus(q))
                             /\ Finding(q).severity = level(q) /\ Finding(q).category = Category(q)
    BY <1>1, <1>6 DEF Finding, Quiet
  <2>3. Capped(Score(p) + bonus(p)) <= Capped(Score(q) + bonus(q)) /\ 0 <= Capped(Score(q) + bonus(q))
    BY <1>1, <1>2 DEF Capped
  <2>4. Rank(level(p)) <= Rank(level(q)) /\ 0 <= Rank(level(q))
    BY <1>1, <1>3
  <2>5. Rank(Category(p)) <= Rank(Category(q)) /\ 0 <= Rank(Category(q))
    BY <1>3, <1>4
  <2> HIDE DEF bonus, level
  <2>6. CASE Score(p) < 40 /\ Score(q) < 40
    BY <1>1, <1>3, <2>1, <2>2, <2>6
  <2>7. CASE Score(p) < 40 /\ Score(q) >= 40
    BY <1>1, <1>3, <2>1, <2>2, <2>3, <2>4, <2>5, <2>7
  <2>8. CASE Score(p) >= 40
    BY <1>1, <2>1, <2>2, <2>3, <2>4, <2>5, <2>8
  <2> QED BY <1>1, <2>6, <2>7, <2>8
<1> QED BY <1>5, <1>6, SecurityAssumption

LEMMA SecurityInitInv == SecurityInit => SecurityInv
BY DEF SecurityInit, SecurityInv, Profiles, CpuLevels, RamLevels, OutboundLevels

LEMMA SecurityNextInv == SecurityInv /\ [SecurityNext]_securityVars => SecurityInv'
<1> SUFFICES ASSUME SecurityInv, [SecurityNext]_securityVars PROVE SecurityInv'
  OBVIOUS
<1>1. CASE WatchedWorsens
  BY <1>1, WorsenedShowsMore DEF WatchedWorsens, SecurityInv
<1>2. CASE WatchedIsReplaced
  BY <1>2 DEF WatchedIsReplaced, SecurityInv, Profiles, CpuLevels
<1>3. CASE UNCHANGED securityVars
  BY <1>3 DEF securityVars, SecurityInv, Verdict, Finding, HighUsage
<1> QED BY <1>1, <1>2, <1>3 DEF SecurityNext

\* SecurityEngine.scan and ResourceTracker.high_usage are monotone in all that
\* they look at, whatever the thresholds.
THEOREM WorseIsJudgedNoLess == SecuritySpec => WorseNeverScoresLess
<1> DEFINE Judged == watched' \in Worsened(watched) =>
              LET before == verdict.finding  after == verdict'.finding IN
              /\ before.found => after.found
              /\ before.score <= after.score /\ before.confidence <= after.confidence
              /\ Rank(before.severity) <= Rank(after.severity)
              /\ Rank(before.category) <= Rank(after.category)
              /\ verdict.usage \subseteq verdict'.usage
<1>1. ASSUME SecurityInv, SecurityInv' PROVE Judged
  <2> SUFFICES ASSUME watched' \in Worsened(watched)
               PROVE  LET before == verdict.finding  after == verdict'.finding IN
                      /\ before.found => after.found
                      /\ before.score <= after.score /\ before.confidence <= after.confidence
                      /\ Rank(before.severity) <= Rank(after.severity)
                      /\ Rank(before.category) <= Rank(after.category)
                      /\ verdict.usage \subseteq verdict'.usage
    OBVIOUS
  <2>1. watched \in Profiles /\ watched' \in Profiles /\ ShowsMore(watched, watched')
    BY <1>1, WorsenedShowsMore DEF SecurityInv
  <2>2. /\ verdict.finding = Finding(watched) /\ verdict.usage = HighUsage(watched)
        /\ verdict'.finding = Finding(watched') /\ verdict'.usage = HighUsage(watched')
    BY <1>1 DEF SecurityInv, Verdict
  <2> QED BY <2>1, <2>2, ShowsMoreJudged, ShowsMoreSignals
<1> HIDE DEF Judged
<1>2. SecurityInv /\ [SecurityNext]_securityVars => [Judged]_securityVars
  BY <1>1, SecurityNextInv
<1> QED BY <1>2, SecurityInitInv, SecurityNextInv, PTL DEF SecuritySpec, WorseNeverScoresLess, Judged

LEMMA SecurityTyped == SecurityInv => SecurityTypeOK
<1> SUFFICES ASSUME SecurityInv PROVE SecurityTypeOK
  OBVIOUS
<1>1. verdict.finding = Finding(watched) /\ verdict.usage = HighUsage(watched) /\ watched \in Profiles
  BY DEF SecurityInv, Verdict
<1>2. Score(watched) \in 0..100 /\ Category(watched) \in {"INFO", "WARNING", "CRITICAL"}
  BY ScoreTyped DEF Category
<1>3. Capped(Score(watched) + IF Cardinality(Signals(watched)) > 1 THEN 10 ELSE 0) \in 0..100
  BY <1>2 DEF Capped
<1>4. HighUsage(watched) \subseteq {"cpu", "ram"}
  BY DEF HighUsage
<1>5. Finding(watched) \in [found : BOOLEAN, score : 0..100, confidence : 0..100,
                            severity : {"INFO", "WARNING", "CRITICAL"},
                            category : {"INFO", "WARNING", "CRITICAL"}]
  <2>1. Quiet \in [found : BOOLEAN, score : 0..100, confidence : 0..100,
                   severity : {"INFO", "WARNING", "CRITICAL"}, category : {"INFO", "WARNING", "CRITICAL"}]
    BY DEF Quiet
  <2>2. [Quiet EXCEPT !.score = Score(watched)]
            \in [found : BOOLEAN, score : 0..100, confidence : 0..100,
                 severity : {"INFO", "WARNING", "CRITICAL"}, category : {"INFO", "WARNING", "CRITICAL"}]
    BY <1>2, <2>1
  <2>3. CASE ~SecurityEnabled \/ Score(watched) < 40
    BY <2>1, <2>2, <2>3 DEF Finding
  <2>4. CASE ~(~SecurityEnabled \/ Score(watched) < 40)
    <3> DEFINE severity == IF Score(watched) >= 80 THEN "CRITICAL" ELSE "WARNING"
               confidence == Capped(Score(watched) + IF Cardinality(Signals(watched)) > 1 THEN 10 ELSE 0)
    <3>1. Finding(watched) = [found |-> TRUE, score |-> Score(watched), severity |-> severity,
                              category |-> Category(watched), confidence |-> confidence]
      BY <2>4 DEF Finding
    <3>2. severity \in {"INFO", "WARNING", "CRITICAL"} /\ confidence \in 0..100
      BY <1>3
    <3> HIDE DEF severity, confidence
    <3> QED BY <1>2, <3>1, <3>2
  <2> QED BY <2>3, <2>4
<1> QED BY <1>1, <1>4, <1>5 DEF SecurityTypeOK

-----------------------------------------------------------------------------
(* Suggestions                                                             *)

SuggestionInv == SuggestionTypeOK /\ suggested = Tier(candidate)

LEMMA BusierIsRow ==
  ASSUME NEW p \in ProcessRows, OfHost(p), ~p.zombie, NEW q \in Busier(p)
  PROVE  q \in ProcessRows /\ OfHost(q) /\ Tier(q) \in {0, Tier(p)}
<1>1. \/ \E c \in 0..2 : c > p.cpu /\ q = [p EXCEPT !.cpu = c]
      \/ q = [p EXCEPT !.listening = TRUE] \/ q = [p EXCEPT !.outbound = 1]
      \/ q = [p EXCEPT !.restarts = 1] \/ q = [p EXCEPT !.suspicious = 1]
  BY DEF Busier
<1>2. q \in ProcessRows
  <2>1. CASE \E c \in 0..2 : c > p.cpu /\ q = [p EXCEPT !.cpu = c]
    BY <2>1 DEF ProcessRows
  <2>2. CASE q = [p EXCEPT !.listening = TRUE]
    BY <2>2 DEF ProcessRows
  <2>3. CASE q = [p EXCEPT !.outbound = 1]
    BY <2>3 DEF ProcessRows
  <2>4. CASE q = [p EXCEPT !.restarts = 1]
    BY <2>4 DEF ProcessRows
  <2>5. CASE q = [p EXCEPT !.suspicious = 1]
    BY <2>5 DEF ProcessRows
  <2> QED BY <1>1, <2>1, <2>2, <2>3, <2>4, <2>5
<1>3. /\ q.protected = p.protected /\ q.zombie = p.zombie /\ q.orphan = p.orphan /\ q.own = p.own /\ q.age = p.age
      /\ q.cpu \in Int /\ p.cpu \in Int /\ p.cpu <= q.cpu
      /\ p.listening => q.listening
      /\ q.outbound \in {p.outbound, 1} /\ q.restarts \in {p.restarts, 1} /\ q.suspicious \in {p.suspicious, 1}
  BY <1>1 DEF ProcessRows
<1>4. OfHost(q)
  BY <1>3 DEF OfHost
<1>5. Tier(q) \in {0, Tier(p)}
  <2>1. CASE IsProtected(p)
    BY <1>3, <2>1 DEF Tier, IsProtected
  <2>2. CASE ~IsProtected(p) /\ p.orphan /\ ~p.listening
    BY <1>3, <2>2 DEF Tier, IsProtected
  <2>3. CASE ~IsProtected(p) /\ ~(p.orphan /\ ~p.listening)
    BY <1>3, <2>3 DEF Tier, IsProtected
  <2> QED BY <2>1, <2>2, <2>3
<1> QED BY <1>2, <1>4, <1>5

LEMMA CalmerIsRow ==
  ASSUME NEW p \in ProcessRows, OfHost(p), NEW q \in Calmer(p)
  PROVE  q \in ProcessRows /\ OfHost(q)
<1>1. \/ q = [p EXCEPT !.cpu = 0] \/ q = [p EXCEPT !.listening = FALSE] \/ q = [p EXCEPT !.outbound = 0]
      \/ q = [p EXCEPT !.age = IF @ < IdleThreshold THEN @ + 1 ELSE @] \/ q = [p EXCEPT !.orphan = TRUE]
      \/ q = [p EXCEPT !.zombie = TRUE, !.protected = @ \cup {"no cmdline"}]
  BY DEF Calmer
<1>2. CASE q = [p EXCEPT !.cpu = 0]
  <2>1. 0 \in 0..2
    OBVIOUS
  <2> QED BY <1>2, <2>1 DEF ProcessRows, OfHost
<1>3. CASE q = [p EXCEPT !.listening = FALSE]
  BY <1>3 DEF ProcessRows, OfHost
<1>4. CASE q = [p EXCEPT !.outbound = 0]
  <2>1. 0 \in 0..1
    OBVIOUS
  <2> QED BY <1>4, <2>1 DEF ProcessRows, OfHost
<1>5. CASE q = [p EXCEPT !.age = IF @ < IdleThreshold THEN @ + 1 ELSE @]
  <2> DEFINE older == IF p.age < IdleThreshold THEN p.age + 1 ELSE p.age
  <2>1. older \in 0..IdleThreshold
    BY SuggestionAssumption DEF ProcessRows
  <2>2. q = [p EXCEPT !.age = older]
    BY <1>5
  <2> HIDE DEF older
  <2> QED BY <2>1, <2>2 DEF ProcessRows, OfHost
<1>6. CASE q = [p EXCEPT !.orphan = TRUE]
  BY <1>6 DEF ProcessRows, OfHost
<1>7. CASE q = [p EXCEPT !.zombie = TRUE, !.protected = @ \cup {"no cmdline"}]
  <2> DEFINE why == p.protected \cup {"no cmdline"}
  <2>1. why \in SUBSET Protections /\ "no cmdline" \in why
    BY DEF ProcessRows, Protections
  <2>2. q = [p EXCEPT !.zombie = TRUE, !.protected = why]
    BY <1>7
  <2> HIDE DEF why
  <2> QED BY <2>1, <2>2 DEF ProcessRows, OfHost
<1> QED BY <1>1, <1>2, <1>3, <1>4, <1>5, <1>6, <1>7

LEMMA TierTyped ==
  ASSUME NEW p
  PROVE  Tier(p) \in 0..2
BY DEF Tier

LEMMA SuggestionInitInv == SuggestionInit => SuggestionInv
BY TierTyped DEF SuggestionInit, SuggestionInv, SuggestionTypeOK

LEMMA SuggestionNextInv == SuggestionInv /\ [SuggestionNext]_suggestionVars => SuggestionInv'
<1> SUFFICES ASSUME SuggestionInv, [SuggestionNext]_suggestionVars PROVE SuggestionInv'
  OBVIOUS
<1>1. CASE GetsBusier
  BY <1>1, BusierIsRow, TierTyped DEF GetsBusier, SuggestionInv, SuggestionTypeOK
<1>2. CASE GetsCalmer
  BY <1>2, CalmerIsRow, TierTyped DEF GetsCalmer, SuggestionInv, SuggestionTypeOK
<1>3. CASE UNCHANGED suggestionVars
  BY <1>3 DEF suggestionVars, SuggestionInv, SuggestionTypeOK
<1> QED BY <1>1, <1>2, <1>3 DEF SuggestionNext

\* build_suggestions: being up to more never gets a process suggested.
THEOREM BusyIsNotSuggested == SuggestionSpec => BusierIsNotSuggested
<1> DEFINE Spared == ~candidate.zombie /\ candidate' \in Busier(candidate) => suggested' \in {0, suggested}
<1>1. SuggestionInv /\ SuggestionInv' => Spared
  BY BusierIsRow DEF SuggestionInv, SuggestionTypeOK
<1> HIDE DEF Spared
<1>2. SuggestionInv /\ [SuggestionNext]_suggestionVars => [Spared]_suggestionVars
  BY <1>1, SuggestionNextInv
<1> QED BY <1>2, SuggestionInitInv, SuggestionNextInv, PTL DEF SuggestionSpec, BusierIsNotSuggested, Spared
-----------------------------------------------------------------------------
(* Lists of processes                                                      *)

\* No pid twice.
OnePidEach(list) == \A i, j \in DOMAIN list : list[i].pid = list[j].pid => i = j

LEMMA PickedProcesses ==
  ASSUME NEW S, NEW list \in Seq(S), OnePidEach(list), NEW places \in SUBSET DOMAIN list
  PROVE  LET picked == Picked(list, places) IN
         /\ picked \in Seq(S) /\ OnePidEach(picked) /\ Len(picked) = Cardinality(places)
         /\ PidsOf(picked) = {list[i].pid : i \in places}
         /\ \A n \in DOMAIN picked : \E i \in places : picked[n] = list[i]
         /\ \A i \in places : \E n \in DOMAIN picked : picked[n] = list[i]
<1> DEFINE picked == Picked(list, places)
           place == InOrder(places)
           size == Cardinality(places)
<1>1. /\ picked \in Seq(S) /\ Len(picked) = size /\ DOMAIN picked = 1..size
      /\ place \in Bijection(1..size, places)
      /\ \A i \in 1..size : picked[i] = list[place[i]]
  BY PickedAre
<1> HIDE DEF picked, place, size
<1>2. /\ \A i \in 1..size : place[i] \in places
      /\ \A i, j \in 1..size : place[i] = place[j] => i = j
      /\ \A x \in places : \E i \in 1..size : place[i] = x
  BY <1>1 DEF Bijection, Injection, Surjection, IsInjective
<1>3. OnePidEach(picked)
  BY <1>1, <1>2 DEF OnePidEach
<1>4. \A n \in DOMAIN picked : \E i \in places : picked[n] = list[i]
  BY <1>1, <1>2
<1>5. \A i \in places : \E n \in DOMAIN picked : picked[n] = list[i]
  BY <1>1, <1>2
<1>6. PidsOf(picked) = {list[i].pid : i \in places}
  BY <1>4, <1>5 DEF PidsOf
<1> QED BY <1>1, <1>3, <1>4, <1>5, <1>6 DEF picked, size

\* Every key has a first place, and one only.
LEMMA FirstSeenAre ==
  ASSUME NEW n \in Nat, NEW keys, DOMAIN keys = 1..n
  PROVE  LET order == FirstSeen(keys) IN
         /\ Len(order) \in Nat /\ DOMAIN order = 1..Len(order)
         /\ \A m \in 1..Len(order) : order[m] \in 1..n
         /\ \A m, k \in 1..Len(order) : keys[order[m]] = keys[order[k]] => m = k
         /\ \A i \in 1..n : \E m \in 1..Len(order) : keys[order[m]] = keys[i]
<1> DEFINE order == FirstSeen(keys)
           firsts == {i \in DOMAIN keys : \A j \in 1..(i - 1) : keys[j] # keys[i]}
<1>1. order = InOrder(firsts) /\ firsts \in SUBSET (1..n)
  BY DEF FirstSeen
<1>2. IsFiniteSet(firsts) /\ firsts \in SUBSET Int
  <2>1. IsFiniteSet(1..n) /\ 1..n \in SUBSET Int
    BY FS_Interval
  <2> HIDE DEF firsts
  <2> QED BY <1>1, <2>1, FS_Subset
<1>3. /\ order \in Seq(firsts) /\ Len(order) \in Nat /\ DOMAIN order = 1..Len(order)
      /\ \A i, j \in 1..Len(order) : order[i] = order[j] => i = j
      /\ \A x \in firsts : \E i \in 1..Len(order) : order[i] = x
  <2> HIDE DEF firsts, order
  <2> QED BY <1>1, <1>2, InOrderLists
<1> HIDE DEF order
<1>4. \A m \in 1..Len(order) : order[m] \in firsts
  <2> HIDE DEF firsts
  <2> QED BY <1>3
<1>5. \A i, j \in firsts : keys[i] = keys[j] => i = j
  <2> SUFFICES ASSUME NEW i \in firsts, NEW j \in firsts, keys[i] = keys[j] PROVE i = j
    OBVIOUS
  <2>1. i \in 1..n /\ j \in 1..n
    BY <1>1
  <2>2. i < j => i \in 1..(j - 1)
    BY <2>1
  <2>3. j < i => j \in 1..(i - 1)
    BY <2>1
  <2> QED BY <2>1, <2>2, <2>3
<1>6. ASSUME NEW i \in 1..n PROVE \E f \in firsts : keys[f] = keys[i]
  <2> DEFINE same == {j \in 1..n : keys[j] = keys[i]}
  <2>1. same \in SUBSET Nat /\ same # {}
    OBVIOUS
  <2>2. PICK f \in same : \A j \in same : f <= j
    <3> HIDE DEF same
    <3> QED BY <2>1, LeastExists
  <2>3. f \in 1..n /\ keys[f] = keys[i]
    OBVIOUS
  <2>4. ASSUME NEW j \in 1..(f - 1) PROVE keys[j] # keys[f]
    <3>1. j \in 1..n /\ j < f
      BY <2>3
    <3>2. j \notin same
      <4> HIDE DEF same
      <4> QED BY <2>1, <2>2, <2>3, <3>1
    <3> QED BY <2>3, <3>1, <3>2
  <2>5. f \in firsts
    BY <2>3, <2>4
  <2> QED BY <2>3, <2>5
<1> HIDE DEF firsts
<1>7. \A i \in 1..n : \E m \in 1..Len(order) : keys[order[m]] = keys[i]
  BY <1>3, <1>6
<1>8. \A m, k \in 1..Len(order) : keys[order[m]] = keys[order[k]] => m = k
  BY <1>3, <1>4, <1>5
<1>9. \A m \in 1..Len(order) : order[m] \in 1..n
  BY <1>1, <1>4
<1> QED BY <1>3, <1>7, <1>8, <1>9 DEF order

LEMMA BucketIs ==
  ASSUME NEW S, NEW list \in Seq(S), OnePidEach(list), NEW keys, DOMAIN keys = DOMAIN list, NEW i \in DOMAIN list
  PROVE  LET bucket == Bucket(list, keys, i) IN
         /\ bucket \in Seq(S) /\ OnePidEach(bucket)
         /\ PidsOf(bucket) = {list[j].pid : j \in {j \in DOMAIN list : keys[j] = keys[i]}}
         /\ \A j \in DOMAIN list : j # i /\ keys[j] = keys[i] => Len(bucket) >= 2
<1> DEFINE places == {j \in DOMAIN list : keys[j] = keys[i]}
           bucket == Bucket(list, keys, i)
<1>1. places \in SUBSET DOMAIN list /\ bucket = Picked(list, places)
  BY DEF Bucket
<1>2. /\ bucket \in Seq(S) /\ OnePidEach(bucket) /\ PidsOf(bucket) = {list[j].pid : j \in places}
      /\ \A p \in places : \E n \in DOMAIN bucket : bucket[n] = list[p]
  <2> HIDE DEF places, bucket
  <2> QED BY <1>1, PickedProcesses
<1>3. ASSUME NEW j \in DOMAIN list, j # i, keys[j] = keys[i] PROVE Len(bucket) >= 2
  <2>1. i \in places /\ j \in places
    BY <1>3
  <2> HIDE DEF places, bucket
  <2>2. PICK m \in DOMAIN bucket : bucket[m] = list[i]
    BY <1>2, <2>1
  <2>3. PICK k \in DOMAIN bucket : bucket[k] = list[j]
    BY <1>2, <2>1
  <2>4. m # k
    BY <1>3, <2>2, <2>3 DEF OnePidEach
  <2>5. m \in 1..Len(bucket) /\ k \in 1..Len(bucket) /\ Len(bucket) \in Nat
    BY <1>2
  <2> QED BY <2>4, <2>5
<1> QED BY <1>2, <1>3

\* The pids in the first n buckets.
Covered(list, keys, n) ==
    {list[j].pid : j \in {j \in DOMAIN list : \E m \in 1..n : keys[FirstSeen(keys)[m]] = keys[j]}}

\* No process is in two buckets of a stage.
LEMMA BucketsApart ==
  ASSUME NEW S, NEW list \in Seq(S), OnePidEach(list), NEW keys, DOMAIN keys = DOMAIN list,
         NEW n \in 1..Len(FirstSeen(keys))
  PROVE  LET bucket == Bucket(list, keys, FirstSeen(keys)[n]) IN
         /\ FirstSeen(keys)[n] \in DOMAIN list
         /\ PidsOf(bucket) \cap Covered(list, keys, n - 1) = {}
         /\ PidsOf(bucket) \subseteq Covered(list, keys, n)
         /\ Covered(list, keys, n - 1) \subseteq Covered(list, keys, n)
<1> DEFINE order == FirstSeen(keys)
           bucket == Bucket(list, keys, order[n])
<1>1. /\ Len(order) \in Nat /\ order[n] \in DOMAIN list
      /\ \A m \in 1..Len(order) : order[m] \in DOMAIN list
      /\ \A m, k \in 1..Len(order) : keys[order[m]] = keys[order[k]] => m = k
  <2>1. Len(list) \in Nat /\ DOMAIN list = 1..Len(list)
    OBVIOUS
  <2> QED BY <2>1, FirstSeenAre
<1>2. PidsOf(bucket) = {list[j].pid : j \in {j \in DOMAIN list : keys[j] = keys[order[n]]}}
  BY <1>1, BucketIs
<1> HIDE DEF order, bucket
<1>3. n \in Nat /\ n \in 1..n /\ n - 1 \in Nat /\ 1..(n - 1) \subseteq 1..n /\ 1..n \subseteq 1..Len(order) /\ n \notin 1..(n - 1)
  BY <1>1 DEF order
<1>4. /\ Covered(list, keys, n) = {list[j].pid : j \in {j \in DOMAIN list : \E m \in 1..n : keys[order[m]] = keys[j]}}
      /\ Covered(list, keys, n - 1) = {list[j].pid : j \in {j \in DOMAIN list : \E m \in 1..(n - 1) : keys[order[m]] = keys[j]}}
  BY DEF Covered, order
<1>5. PidsOf(bucket) \subseteq Covered(list, keys, n)
  BY <1>2, <1>3, <1>4
<1>6. Covered(list, keys, n - 1) \subseteq Covered(list, keys, n)
  BY <1>3, <1>4
<1>7. ASSUME NEW p, p \in PidsOf(bucket), p \in Covered(list, keys, n - 1) PROVE FALSE
  <2>1. PICK j \in DOMAIN list : keys[j] = keys[order[n]] /\ p = list[j].pid
    BY <1>2, <1>7
  <2>2. PICK k \in DOMAIN list : (\E m \in 1..(n - 1) : keys[order[m]] = keys[k]) /\ p = list[k].pid
    BY <1>4, <1>7
  <2>3. PICK m \in 1..(n - 1) : keys[order[m]] = keys[k]
    BY <2>2
  <2>4. j = k
    BY <2>1, <2>2 DEF OnePidEach
  <2>5. m = n
    BY <1>1, <1>3, <2>1, <2>3, <2>4
  <2> QED BY <1>3, <2>5
<1> QED BY <1>1, <1>5, <1>6, <1>7 DEF order, bucket

LEMMA PidsAreFinite == IsFiniteSet(Pids) /\ Pids \subseteq Nat \ {0, InitPid}
<1>1. PidOrder \in [1..Len(PidOrder) -> Nat \ {0, InitPid}] /\ Len(PidOrder) \in Nat
  BY DetectorAssumption
<1>2. Pids = {PidOrder[i] : i \in 1..Len(PidOrder)} /\ Pids \subseteq Nat \ {0, InitPid}
  BY <1>1 DEF Pids, ToSet
<1>3. PidOrder \in Bijection(1..Len(PidOrder), Pids)
  BY <1>1, <1>2, DetectorAssumption DEF Bijection, Injection, Surjection, IsInjective
<1>4. IsFiniteSet(1..Len(PidOrder))
  BY <1>1, FS_Interval
<1>5. ExistsBijection(1..Len(PidOrder), Pids)
  BY <1>3 DEF ExistsBijection
<1> QED BY <1>2, <1>4, <1>5, FS_Bijection

Shots(table) == {Shot(table, pid) : pid \in DOMAIN table}

LEMMA SnapshotsAre ==
  ASSUME NEW table, DOMAIN table \subseteq Pids
  PROVE  Snapshots(table) \in Seq(Shots(table)) /\ OnePidEach(Snapshots(table))
<1> DEFINE order == InOrder(DOMAIN table)
           n == Cardinality(DOMAIN table)
<1>1. IsFiniteSet(DOMAIN table) /\ DOMAIN table \in SUBSET Int
  <2>1. IsFiniteSet(DOMAIN table)
    BY PidsAreFinite, FS_Subset
  <2>2. \A p \in Pids : p \in Int
    BY PidsAreFinite
  <2> QED BY <2>1, <2>2
<1>2. /\ n \in Nat /\ order \in Seq(DOMAIN table) /\ DOMAIN order = 1..n /\ Len(order) = n
      /\ \A i, j \in 1..n : order[i] = order[j] => i = j
  BY <1>1, InOrderLists
<1> DEFINE shots == [i \in DOMAIN order |-> Shot(table, order[i])]
<1>3. Snapshots(table) = SubSeq(shots, 1, Len(order))
  BY DEF Snapshots
<1> HIDE DEF order, n
<1>4. \A i \in 1..n : order[i] \in DOMAIN table /\ Shot(table, order[i]) \in Shots(table)
  BY <1>2 DEF Shots
<1>5. shots \in Seq(Shots(table)) /\ Len(shots) = n /\ \A i \in 1..n : shots[i].pid = order[i]
  BY <1>2, <1>4 DEF Shot
<1> HIDE DEF shots
<1>6. Snapshots(table) = shots
  BY <1>2, <1>3, <1>5
<1> QED BY <1>2, <1>5, <1>6 DEF OnePidEach
-----------------------------------------------------------------------------
(* What a pass keeps track of                                              *)

Prints == {p.fp : p \in Programs \cup Daemons} \cup {p.ffp : p \in Programs \cup Daemons}
Marks == [key : Prints \X SUBSET Pids, at : 0..now]
Confidences == (Threshold..99) \cup {99}
FoundGroups ==
    {g \in [fp : Prints, confidence : Confidences, members : Seq(Shots(procs))] : Len(g.members) > 1}
Findings == [seen : SUBSET Pids, suppressed : Seq(Marks), groups : Seq(FoundGroups)]

ReportKeys(groups) == {KeyOf(groups[i]) : i \in DOMAIN groups}

\* The reports on record once these groups are reported too.
ReportedWith(groups) ==
    [k \in DOMAIN reported \cup ReportKeys(groups) |-> IF k \in ReportKeys(groups) THEN now ELSE reported[k]]

\* The suppression set tells no other time of a report than that it was made,
\* and has forgotten none inside the window.
Window(items, reports) ==
    /\ Distinct(items)
    /\ \A i \in DOMAIN items : items[i].key \in DOMAIN reports /\ items[i].at = reports[items[i].key]
    /\ \A k \in DOMAIN reports : now - reports[k] <= SuppressionTTL => k \in Recorded(items)

\* The reports once one more is made.
Renewed(reports, key) == [k \in DOMAIN reports \cup {key} |-> IF k = key THEN now ELSE reports[k]]

\* No more has been reported than fits into the suppression set.
Roomy(reports) == Cardinality(DOMAIN reports) <= MaxTracked

\* What the variables are between two passes.
HistoryTyped ==
    /\ DOMAIN procs \subseteq Pids
    /\ \A p \in DOMAIN procs :
          procs[p] \in [prog : Programs \cup Daemons, start : 0..now, ppid : {InitPid} \cup Pids]
    /\ now \in Nat
    /\ suppressed \in Seq(Marks)
    /\ IsFiniteSet(DOMAIN reported) /\ reported \in [DOMAIN reported -> 0..now]

LEMMA EveryShot ==
  ASSUME HistoryTyped, NEW shot \in Shots(procs)
  PROVE  shot.pid \in Pids /\ shot.prog.fp \in Prints /\ shot.prog.ffp \in Prints
<1>1. PICK p \in DOMAIN procs : shot = Shot(procs, p)
  BY DEF Shots
<1>2. p \in Pids /\ procs[p].prog \in Programs \cup Daemons
  BY DEF HistoryTyped
<1> QED BY <1>1, <1>2 DEF Shot, Prints

LEMMA PidsOfShots ==
  ASSUME HistoryTyped, NEW bucket \in Seq(Shots(procs))
  PROVE  PidsOf(bucket) \subseteq Pids
<1>1. \A i \in DOMAIN bucket : bucket[i] \in Shots(procs)
  BY ElementOf
<1> QED BY <1>1, EveryShot DEF PidsOf

\* Whatever is asked about, nothing else gets onto the set.
LEMMA AskedIsRecorded ==
  ASSUME NEW E, NEW items \in Seq(E), NEW key, NEW t \in Int, [key |-> key, at |-> t] \in E
  PROVE  LET asked == SeenRecently(items, key, t, SuppressionTTL, MaxTracked) IN
         /\ asked.items \in Seq(E)
         /\ asked.seen \in BOOLEAN
         /\ asked.seen => key \in Recorded(items) /\ Recorded(asked.items) \subseteq Recorded(items)
         /\ Recorded(asked.items) \subseteq Recorded(items) \cup {key}
<1> DEFINE asked == SeenRecently(items, key, t, SuppressionTTL, MaxTracked)
           kept == Prune(items, t, SuppressionTTL)
<1>1. asked.items \in Seq(E)
  BY SeenKeepsEntries, DetectorAssumption
<1>2. kept \in Seq(E) /\ Recorded(kept) \subseteq Recorded(items)
  <2>1. kept \in Seq(E) /\ \E n \in 0..Len(items) : IsRest(kept, items, n)
    BY PruneDropsExpired, DetectorAssumption
  <2>2. PICK n \in 0..Len(items) : IsRest(kept, items, n)
    BY <2>1
  <2> HIDE DEF kept
  <2>3. /\ Len(items) \in Nat /\ DOMAIN items = 1..Len(items)
        /\ Len(kept) \in Nat /\ DOMAIN kept = 1..Len(kept)
    BY <2>1
  <2>4. \A i \in DOMAIN kept : i + n \in DOMAIN items /\ kept[i] = items[i + n]
    BY <2>2, <2>3 DEF IsRest
  <2> QED BY <2>1, <2>4 DEF Recorded
<1>3. /\ key \in Recorded(kept) => asked.seen = TRUE /\ asked.items = MoveToEnd(kept, key)
      /\ key \notin Recorded(kept) => asked.seen = FALSE /\ asked.items = Record(kept, key, t, MaxTracked)
  BY DEF SeenRecently
<1> HIDE DEF kept, asked
<1>4. CASE key \in Recorded(kept)
  <2>1. PositionOf(kept, key) \in DOMAIN kept
    BY <1>4 DEF Recorded, PositionOf
  <2>2. DOMAIN MoveToEnd(kept, key) = DOMAIN kept
    BY DEF MoveToEnd
  <2>3. \A i \in DOMAIN kept : \E j \in DOMAIN kept : MoveToEnd(kept, key)[i] = kept[j]
    BY <1>2, <2>1 DEF MoveToEnd
  <2>4. Recorded(MoveToEnd(kept, key)) \subseteq Recorded(kept)
    BY <2>2, <2>3 DEF Recorded
  <2> QED BY <1>1, <1>2, <1>3, <1>4, <2>4 DEF asked
<1>5. CASE key \notin Recorded(kept)
  <2> DEFINE added == Append(kept, [key |-> key, at |-> t])
  <2>1. /\ added \in Seq(E) /\ added # << >>
        /\ \A i \in DOMAIN added : (i \in DOMAIN kept /\ added[i] = kept[i]) \/ added[i] = [key |-> key, at |-> t]
    BY <1>2, AppendOf
  <2>2. Record(kept, key, t, MaxTracked) = IF Len(added) > MaxTracked THEN Tail(added) ELSE added
    BY DEF Record
  <2> HIDE DEF added
  <2>3. Recorded(added) \subseteq Recorded(kept) \cup {key}
    BY <2>1 DEF Recorded
  <2>4. Recorded(Tail(added)) \subseteq Recorded(added)
    BY <2>1, TailOf DEF Recorded
  <2>5. Recorded(asked.items) \subseteq Recorded(kept) \cup {key}
    BY <1>3, <1>5, <2>2, <2>3, <2>4
  <2> QED BY <1>1, <1>2, <1>3, <1>5, <2>5 DEF asked
<1> QED BY <1>4, <1>5

\* An answer of "new" means that the last report of the key is out of the
\* window, as long as there is room for all of them.
LEMMA AskKeepsWindow ==
  ASSUME NEW E, NEW items \in Seq(E), NEW wanted, now \in Nat, [key |-> wanted, at |-> now] \in E,
         NEW times, IsFiniteSet(DOMAIN times), \A k \in DOMAIN times : times[k] \in Int,
         Window(items, times),
         NEW outcome, outcome = SeenRecently(items, wanted, now, SuppressionTTL, MaxTracked)
  PROVE  /\ outcome.seen => Window(outcome.items, times)
         /\ ~outcome.seen /\ Roomy(Renewed(times, wanted)) => Window(outcome.items, Renewed(times, wanted))
         /\ ~outcome.seen /\ Roomy(Renewed(times, wanted)) /\ wanted \in DOMAIN times => now - times[wanted] > SuppressionTTL
<1> DEFINE kept == Prune(items, now, SuppressionTTL)
           later == Renewed(times, wanted)
<1>0. later = [k \in DOMAIN times \cup {wanted} |-> IF k = wanted THEN now ELSE times[k]]
  BY DEF Renewed
<1>1. kept \in Seq(E) /\ \E n \in 0..Len(items) : IsRest(kept, items, n) /\ \A i \in 1..n : Expired(items[i], now, SuppressionTTL)
  BY PruneDropsExpired, DetectorAssumption
<1>2. PICK n \in 0..Len(items) : IsRest(kept, items, n) /\ \A i \in 1..n : Expired(items[i], now, SuppressionTTL)
  BY <1>1
<1>3. /\ wanted \in Recorded(kept) => outcome.seen = TRUE /\ outcome.items = MoveToEnd(kept, wanted)
      /\ wanted \notin Recorded(kept) => outcome.seen = FALSE /\ outcome.items = Record(kept, wanted, now, MaxTracked)
  BY DEF SeenRecently
<1>4. /\ Len(items) \in Nat /\ DOMAIN items = 1..Len(items) /\ Len(kept) \in Nat /\ DOMAIN kept = 1..Len(kept)
  BY <1>1
<1> HIDE DEF kept, later
<1>5. \A i \in DOMAIN kept : i + n \in DOMAIN items /\ kept[i] = items[i + n]
  BY <1>2, <1>4 DEF IsRest
<1>6. \A i \in DOMAIN items : i \in 1..n \/ (i - n \in DOMAIN kept /\ kept[i - n] = items[i])
  BY <1>2, <1>4 DEF IsRest
<1>7. Window(kept, times)
  <2>1. Distinct(kept)
    BY <1>1, <1>2, SuffixDistinct DEF Window
  <2>2. \A i \in DOMAIN kept : kept[i].key \in DOMAIN times /\ kept[i].at = times[kept[i].key]
    BY <1>5 DEF Window
  <2>3. ASSUME NEW k \in DOMAIN times, now - times[k] <= SuppressionTTL PROVE k \in Recorded(kept)
    <3>1. PICK i \in DOMAIN items : items[i].key = k
      BY <2>3 DEF Window, Recorded
    <3>2. items[i].at = times[k]
      BY <3>1 DEF Window
    <3>3. ~ Expired(items[i], now, SuppressionTTL)
      BY <2>3, <3>2, DetectorAssumption DEF Expired
    <3>4. i - n \in DOMAIN kept /\ kept[i - n] = items[i]
      BY <1>2, <1>6, <3>3
    <3> QED BY <3>1, <3>4 DEF Recorded
  <2> QED BY <2>1, <2>2, <2>3 DEF Window
<1>8. CASE wanted \in Recorded(kept)
  <2>1. PICK p \in DOMAIN kept : kept[p].key = wanted
    BY <1>8 DEF Recorded
  <2> DEFINE t == MoveToEnd(kept, wanted)
             from(i) == IF i < p THEN i ELSE IF i < Len(kept) THEN i + 1 ELSE p
  <2>2. t \in Seq(E) /\ Len(t) = Len(kept) /\ \A i \in DOMAIN kept : t[i] = kept[from(i)]
    BY <1>1, <1>7, <2>1, MoveToEndRearranges DEF Window
  <2>3. Distinct(t)
    BY <1>1, <1>7, <2>1, MoveToEndDistinct DEF Window
  <2> HIDE DEF t
  <2>4. \A i \in DOMAIN t : \E j \in DOMAIN kept : t[i] = kept[j]
    <3> SUFFICES ASSUME NEW i \in DOMAIN t PROVE from(i) \in DOMAIN kept /\ i \in DOMAIN kept
      BY <2>2
    <3> QED BY <1>4, <2>1, <2>2
  <2>5. ASSUME NEW j \in DOMAIN kept PROVE \E i \in DOMAIN t : t[i] = kept[j]
    <3> DEFINE i == IF j < p THEN j ELSE IF j = p THEN Len(kept) ELSE j - 1
    <3>1. i \in DOMAIN kept /\ from(i) = j
      BY <1>4, <2>1
    <3>2. i \in DOMAIN t
      BY <1>4, <2>2, <3>1
    <3> QED BY <2>2, <3>1, <3>2
  <2>6. \A i \in DOMAIN t : t[i].key \in DOMAIN times /\ t[i].at = times[t[i].key]
    BY <1>7, <2>4 DEF Window
  <2>7. Recorded(kept) \subseteq Recorded(t)
    BY <2>5 DEF Recorded
  <2>8. Window(t, times)
    BY <1>7, <2>3, <2>6, <2>7 DEF Window
  <2> QED BY <1>3, <1>8, <2>8 DEF t
<1>9. CASE wanted \notin Recorded(kept)
  <2>1. ASSUME Roomy(later)
        PROVE  Window(outcome.items, later) /\ (wanted \in DOMAIN times => now - times[wanted] > SuppressionTTL)
    <3> DEFINE added == Append(kept, [key |-> wanted, at |-> now])
    <3>1. /\ added \in Seq(E) /\ Len(added) = Len(kept) + 1 /\ DOMAIN added = 1..(Len(kept) + 1)
          /\ \A i \in 1..Len(kept) : added[i] = kept[i]
          /\ added[Len(kept) + 1] = [key |-> wanted, at |-> now]
      BY <1>1
    <3>2. Record(kept, wanted, now, MaxTracked) = IF Len(added) > MaxTracked THEN Tail(added) ELSE added
      BY DEF Record
    <3> HIDE DEF added
    <3>3. \A i \in DOMAIN added : (i \in DOMAIN kept /\ added[i] = kept[i]) \/ i = Len(kept) + 1
      BY <1>4, <3>1
    <3>4. \A i \in DOMAIN kept : kept[i].key # wanted
      BY <1>9 DEF Recorded
    <3>5. Distinct(added)
      <4> SUFFICES ASSUME NEW i \in DOMAIN added, NEW j \in DOMAIN added, added[i].key = added[j].key PROVE i = j
        BY DEF Distinct
      <4> QED BY <1>7, <3>1, <3>3, <3>4 DEF Window, Distinct
    <3>6. \A i \in DOMAIN added : added[i].key \in DOMAIN later /\ added[i].at = later[added[i].key]
      <4> SUFFICES ASSUME NEW i \in DOMAIN added PROVE added[i].key \in DOMAIN later /\ added[i].at = later[added[i].key]
        OBVIOUS
      <4>1. CASE i \in DOMAIN kept /\ added[i] = kept[i]
        BY <1>0, <1>7, <3>4, <4>1 DEF Window
      <4>2. CASE i = Len(kept) + 1
        BY <1>0, <3>1, <4>2
      <4> QED BY <3>3, <4>1, <4>2
    <3>7. Len(added) <= MaxTracked
      <4> DEFINE f == [i \in DOMAIN added |-> added[i].key]
      <4>1. f \in Injection(1..Len(added), DOMAIN later)
        BY <1>0, <3>1, <3>5, <3>6 DEF Injection, IsInjective, Distinct
      <4>2. IsFiniteSet(DOMAIN later) /\ Cardinality(DOMAIN later) \in Nat
        BY <1>0, FS_AddElement, FS_CardinalityType
      <4>3. IsFiniteSet(1..Len(added)) /\ Cardinality(1..Len(added)) = Len(added) /\ Len(added) \in Nat
        <5>1. Len(added) \in Nat /\ Len(added) >= 1
          BY <1>4, <3>1
        <5>2. \A k \in Nat : k >= 1 => IsFiniteSet(1..k) /\ Cardinality(1..k) = k
          BY FS_Interval
        <5> QED BY <5>1, <5>2
      <4> HIDE DEF f
      <4>5. Cardinality(1..Len(added)) <= Cardinality(DOMAIN later)
        BY <4>1, <4>2, FS_Injection
      <4> QED BY <2>1, <4>2, <4>3, <4>5, DetectorAssumption DEF Roomy
    <3>8. outcome.items = added
      BY <1>3, <1>4, <1>9, <3>1, <3>2, <3>7, DetectorAssumption
    <3>9. ASSUME NEW k \in DOMAIN later, now - later[k] <= SuppressionTTL PROVE k \in Recorded(added)
      <4>1. CASE k = wanted
        BY <1>4, <3>1, <4>1 DEF Recorded
      <4>2. CASE k # wanted
        <5>1. k \in Recorded(kept)
          BY <1>0, <1>7, <3>9, <4>2 DEF Window
        <5>2. PICK i \in DOMAIN kept : kept[i].key = k
          BY <5>1 DEF Recorded
        <5>3. i \in DOMAIN added /\ added[i] = kept[i]
          BY <1>4, <3>1
        <5> QED BY <5>2, <5>3 DEF Recorded
      <4> QED BY <4>1, <4>2
    <3>10. ASSUME wanted \in DOMAIN times PROVE now - times[wanted] > SuppressionTTL
      BY <1>7, <1>9, <3>10, DetectorAssumption DEF Window
    <3>11. Window(added, later)
      BY <3>5, <3>6, <3>9 DEF Window
    <3> QED BY <3>8, <3>10, <3>11
  <2> QED BY <1>3, <1>9, <2>1 DEF later
<1> QED BY <1>8, <1>9
-----------------------------------------------------------------------------
(* A report                                                                *)

NotLineage(members) ==
    \E i, j \in DOMAIN members :
        i # j /\ members[i].pid \notin members[j].ancestry /\ members[j].pid \notin members[i].ancestry

Apart(groups) ==
    \A i, j \in DOMAIN groups : i # j => PidsOf(groups[i].members) \cap PidsOf(groups[j].members) = {}

Spaced(groups) ==
    \A i \in DOMAIN groups :
        KeyOf(groups[i]) \in DOMAIN reported => now - reported[KeyOf(groups[i])] > SuppressionTTL

\* What holds at every point of a pass.
Sound(state) ==
    /\ state \in Findings
    /\ Apart(state.groups)
    /\ Threshold > 70 => \A i \in DOMAIN state.groups : NotLineage(state.groups[i].members)
    /\ Recorded(state.suppressed) \subseteq DOMAIN reported \cup ReportKeys(state.groups)
    /\ Roomy(ReportedWith(state.groups)) =>
          Window(state.suppressed, ReportedWith(state.groups)) /\ Spaced(state.groups)

LEMMA SoundIgnoresSeen ==
  ASSUME NEW state, Sound(state), NEW pids \in SUBSET Pids
  PROVE  /\ Sound([state EXCEPT !.seen = @ \cup pids])
         /\ [state EXCEPT !.seen = @ \cup pids].seen = state.seen \cup pids
         /\ Reported([state EXCEPT !.seen = @ \cup pids]) = Reported(state)
<1> DEFINE new == [state EXCEPT !.seen = @ \cup pids]
<1>1. state \in Findings
  BY DEF Sound
<1>2. /\ new \in Findings /\ new.seen = state.seen \cup pids
      /\ new.suppressed = state.suppressed /\ new.groups = state.groups
  BY <1>1 DEF Findings
<1> HIDE DEF new
<1> QED BY <1>2 DEF Sound, Reported, new

\* One group more.
LEMMA OneMore ==
  ASSUME NEW groups \in Seq(FoundGroups), NEW g \in FoundGroups
  PROVE  LET more == Append(groups, g) IN
         /\ more \in Seq(FoundGroups)
         /\ ReportKeys(more) = ReportKeys(groups) \cup {KeyOf(g)}
         /\ ReportedWith(more) = Renewed(ReportedWith(groups), KeyOf(g))
         /\ \A i \in DOMAIN more : (i \in DOMAIN groups /\ more[i] = groups[i]) \/ (i = Len(groups) + 1 /\ more[i] = g)
         /\ Len(groups) + 1 \in DOMAIN more /\ more[Len(groups) + 1] = g
         /\ \A i \in DOMAIN groups : i \in DOMAIN more /\ more[i] = groups[i]
<1> DEFINE more == Append(groups, g)
<1>1. /\ more \in Seq(FoundGroups)
      /\ \A i \in DOMAIN more : (i \in DOMAIN groups /\ more[i] = groups[i]) \/ (i = Len(groups) + 1 /\ more[i] = g)
      /\ Len(groups) + 1 \in DOMAIN more /\ more[Len(groups) + 1] = g
      /\ \A i \in DOMAIN groups : i \in DOMAIN more /\ more[i] = groups[i]
  OBVIOUS
<1> HIDE DEF more
<1>2. ReportKeys(more) = ReportKeys(groups) \cup {KeyOf(g)}
  BY <1>1 DEF ReportKeys
<1>3. ReportedWith(more) = Renewed(ReportedWith(groups), KeyOf(g))
  <2>1. DOMAIN ReportedWith(groups) = DOMAIN reported \cup ReportKeys(groups)
    BY DEF ReportedWith
  <2>2. \A k \in DOMAIN ReportedWith(groups) :
            ReportedWith(groups)[k] = IF k \in ReportKeys(groups) THEN now ELSE reported[k]
    BY DEF ReportedWith
  <2>3. ReportedWith(more) = [k \in DOMAIN reported \cup ReportKeys(more) |->
                                 IF k \in ReportKeys(more) THEN now ELSE reported[k]]
    BY DEF ReportedWith
  <2> QED BY <1>2, <2>1, <2>2, <2>3 DEF Renewed
<1> QED BY <1>1, <1>2, <1>3 DEF more

LEMMA ReportsAreFinite ==
  ASSUME HistoryTyped, NEW groups \in Seq(FoundGroups)
  PROVE  /\ IsFiniteSet(DOMAIN ReportedWith(groups))
         /\ \A k \in DOMAIN ReportedWith(groups) : ReportedWith(groups)[k] \in 0..now
<1>1. IsFiniteSet(ReportKeys(groups))
  <2> DEFINE f == [i \in 1..Len(groups) |-> KeyOf(groups[i])]
  <2>1. f \in Surjection(1..Len(groups), ReportKeys(groups))
    BY DEF Surjection, ReportKeys
  <2>2. IsFiniteSet(1..Len(groups))
    BY FS_Interval
  <2> HIDE DEF f
  <2> QED BY <2>1, <2>2, FS_Surjection
<1>2. DOMAIN ReportedWith(groups) = DOMAIN reported \cup ReportKeys(groups)
  BY DEF ReportedWith
<1>3. IsFiniteSet(DOMAIN ReportedWith(groups))
  <2>1. IsFiniteSet(DOMAIN reported)
    BY DEF HistoryTyped
  <2> QED BY <1>1, <1>2, <2>1, FS_Union
<1>4. now \in 0..now
  BY DEF HistoryTyped
<1>5. \A k \in DOMAIN ReportedWith(groups) : ReportedWith(groups)[k] \in 0..now
  BY <1>4 DEF ReportedWith, HistoryTyped
<1> QED BY <1>3, <1>5

LEMMA ReportIsSound ==
  ASSUME HistoryTyped, NEW state, Sound(state), NEW fp \in Prints,
         NEW bucket \in Seq(Shots(procs)), Len(bucket) > 1, NEW confidence \in Confidences,
         PidsOf(bucket) \cap Reported(state) = {}, Threshold > 70 => NotLineage(bucket)
  PROVE  LET new == Report(state, fp, bucket, confidence) IN
         /\ Sound(new) /\ new.seen = state.seen
         /\ Reported(new) \subseteq Reported(state) \cup PidsOf(bucket)
         /\ ReportKeys(state.groups) \subseteq ReportKeys(new.groups)
         /\ SuppressionKey(fp, bucket) \in DOMAIN reported \cup ReportKeys(new.groups)
<1> DEFINE new == Report(state, fp, bucket, confidence)
           key == SuppressionKey(fp, bucket)
           asked == SeenRecently(state.suppressed, key, now, SuppressionTTL, MaxTracked)
           g == [fp |-> fp, confidence |-> confidence, members |-> bucket]
           reports == ReportedWith(state.groups)
           after == Renewed(reports, key)
<1>1. /\ state \in Findings /\ state.suppressed \in Seq(Marks) /\ state.groups \in Seq(FoundGroups)
      /\ now \in Nat
  BY DEF Sound, Findings, HistoryTyped
<1>2. [key |-> key, at |-> now] \in Marks
  <2>1. key \in Prints \X SUBSET Pids
    BY PidsOfShots DEF SuppressionKey
  <2>2. now \in 0..now
    BY <1>1
  <2> HIDE DEF key
  <2> QED BY <2>1, <2>2 DEF Marks
<1>3. g \in FoundGroups /\ KeyOf(g) = key
  BY DEF FoundGroups, KeyOf, SuppressionKey
<1>4. IsFiniteSet(DOMAIN reports) /\ \A k \in DOMAIN reports : reports[k] \in Int
  BY <1>1, ReportsAreFinite
<1>5. new = IF asked.seen THEN [state EXCEPT !.suppressed = asked.items]
            ELSE [state EXCEPT !.suppressed = asked.items, !.groups = Append(@, g)]
  BY DEF Report
<1> HIDE DEF asked, new
<1>6. /\ asked.items \in Seq(Marks) /\ asked.seen \in BOOLEAN
      /\ asked.seen => key \in Recorded(state.suppressed) /\ Recorded(asked.items) \subseteq Recorded(state.suppressed)
      /\ Recorded(asked.items) \subseteq Recorded(state.suppressed) \cup {key}
  BY <1>1, <1>2, AskedIsRecorded DEF asked
<1>7. Window(state.suppressed, reports) =>
         /\ asked.seen => Window(asked.items, reports)
         /\ ~asked.seen /\ Roomy(after) =>
               Window(asked.items, after) /\ (key \in DOMAIN reports => now - reports[key] > SuppressionTTL)
  <2> HIDE DEF reports, key, after
  <2> SUFFICES ASSUME Window(state.suppressed, reports)
               PROVE  /\ asked.seen => Window(asked.items, reports)
                      /\ ~asked.seen /\ Roomy(after) =>
                            /\ Window(asked.items, after)
                            /\ key \in DOMAIN reports => now - reports[key] > SuppressionTTL
    OBVIOUS
  <2>1. asked = SeenRecently(state.suppressed, key, now, SuppressionTTL, MaxTracked)
    BY DEF asked
  <2>2. after = Renewed(reports, key)
    BY DEF after
  <2>3. state.suppressed \in Seq(Marks) /\ now \in Nat
    BY <1>1
  <2>4. IsFiniteSet(DOMAIN reports)
    BY <1>4
  <2>5. \A k \in DOMAIN reports : reports[k] \in Int
    BY <1>4
  <2>6. asked.seen => Window(asked.items, reports)
    BY <1>2, <2>1, <2>2, <2>3, <2>4, <2>5, AskKeepsWindow
  <2>7. ASSUME ~asked.seen, Roomy(after) PROVE Window(asked.items, after)
    BY <1>2, <2>1, <2>2, <2>3, <2>4, <2>5, <2>7, AskKeepsWindow
  <2>8. ~asked.seen /\ Roomy(after) /\ key \in DOMAIN reports => now - reports[key] > SuppressionTTL
    BY <1>2, <2>1, <2>2, <2>3, <2>4, <2>5, AskKeepsWindow
  <2> QED BY <2>6, <2>7, <2>8
<1>8. CASE asked.seen
  <2>1. /\ new \in Findings /\ new.seen = state.seen /\ new.suppressed = asked.items /\ new.groups = state.groups
    BY <1>1, <1>5, <1>6, <1>8 DEF Findings
  <2>2. Sound(new)
    <3> HIDE DEF key
    <3> QED BY <1>6, <1>7, <1>8, <2>1 DEF Sound
  <2>3. key \in DOMAIN reported \cup ReportKeys(new.groups)
    <3> HIDE DEF key
    <3> QED BY <1>6, <1>8, <2>1 DEF Sound
  <2> QED BY <2>1, <2>2, <2>3 DEF new, Reported
<1>9. CASE ~asked.seen
  <2> DEFINE more == Append(state.groups, g)
  <2> HIDE DEF g
  <2>1. /\ more \in Seq(FoundGroups)
        /\ ReportKeys(more) = ReportKeys(state.groups) \cup {key}
        /\ ReportedWith(more) = after
        /\ \A i \in DOMAIN more : \/ i \in DOMAIN state.groups /\ more[i] = state.groups[i]
                                  \/ i = Len(state.groups) + 1 /\ more[i] = g
    <3>1. /\ more \in Seq(FoundGroups)
          /\ ReportKeys(more) = ReportKeys(state.groups) \cup {KeyOf(g)}
          /\ ReportedWith(more) = Renewed(ReportedWith(state.groups), KeyOf(g))
          /\ \A i \in DOMAIN more : (i \in DOMAIN state.groups /\ more[i] = state.groups[i])
                                       \/ (i = Len(state.groups) + 1 /\ more[i] = g)
      BY <1>1, <1>3, OneMore
    <3> HIDE DEF more, key
    <3> QED BY <1>3, <3>1
  <2> HIDE DEF more
  <2>2. new \in Findings /\ new.seen = state.seen /\ new.suppressed = asked.items /\ new.groups = more
    BY <1>1, <1>5, <1>6, <1>9, <2>1 DEF Findings, more
  <2>3. g.members = bucket /\ KeyOf(g) = key
    BY <1>3 DEF g
  <2> HIDE DEF key, reports, after
  <2>4. Apart(more)
    <3> SUFFICES ASSUME NEW i \in DOMAIN more, NEW j \in DOMAIN more, i # j
                 PROVE  PidsOf(more[i].members) \cap PidsOf(more[j].members) = {}
      BY DEF Apart
    <3>1. \A k \in DOMAIN state.groups : PidsOf(state.groups[k].members) \subseteq Reported(state)
      BY DEF Reported
    <3>2. CASE i \in DOMAIN state.groups /\ j \in DOMAIN state.groups /\ more[i] = state.groups[i] /\ more[j] = state.groups[j]
      BY <3>2 DEF Sound, Apart
    <3>3. CASE i \in DOMAIN state.groups /\ more[i] = state.groups[i] /\ more[j] = g
      BY <2>3, <3>1, <3>3
    <3>4. CASE j \in DOMAIN state.groups /\ more[j] = state.groups[j] /\ more[i] = g
      BY <2>3, <3>1, <3>4
    <3> QED BY <2>1, <3>2, <3>3, <3>4
  <2>5. Threshold > 70 => \A i \in DOMAIN more : NotLineage(more[i].members)
    BY <2>1, <2>3 DEF Sound
  <2>6. Recorded(asked.items) \subseteq DOMAIN reported \cup ReportKeys(more)
    BY <1>6, <2>1 DEF Sound
  <2>7. ASSUME Roomy(after) PROVE Window(asked.items, after) /\ Spaced(more)
    <3>1. Roomy(reports)
      <4>1. IsFiniteSet(DOMAIN after) /\ DOMAIN reports \subseteq DOMAIN after
        <5>1. DOMAIN after = DOMAIN reports \cup {key}
          BY DEF after, Renewed
        <5> QED BY <1>4, <5>1, FS_AddElement
      <4>2. Cardinality(DOMAIN reports) <= Cardinality(DOMAIN after) /\ Cardinality(DOMAIN reports) \in Nat
            /\ Cardinality(DOMAIN after) \in Nat
        BY <4>1, <1>4, FS_Subset, FS_CardinalityType
      <4> QED BY <2>7, <4>2, DetectorAssumption DEF Roomy
    <3>2. Window(state.suppressed, reports) /\ Spaced(state.groups)
      BY <3>1 DEF Sound, reports
    <3>3. Window(asked.items, after) /\ (key \in DOMAIN reports => now - reports[key] > SuppressionTTL)
      BY <1>7, <1>9, <2>7, <3>2
    <3>4. ASSUME key \in DOMAIN reported PROVE now - reported[key] > SuppressionTTL
      <4>1. key \in DOMAIN reports /\ (key \in ReportKeys(state.groups) => reports[key] = now)
            /\ (key \notin ReportKeys(state.groups) => reports[key] = reported[key])
        BY <3>4 DEF reports, ReportedWith
      <4>2. key \notin ReportKeys(state.groups)
        BY <1>1, <3>3, <4>1, DetectorAssumption
      <4> QED BY <3>3, <4>1, <4>2
    <3>5. Spaced(more)
      <4> SUFFICES ASSUME NEW i \in DOMAIN more, KeyOf(more[i]) \in DOMAIN reported
                   PROVE  now - reported[KeyOf(more[i])] > SuppressionTTL
        BY DEF Spaced
      <4>1. CASE i \in DOMAIN state.groups /\ more[i] = state.groups[i]
        BY <3>2, <4>1 DEF Spaced
      <4>2. CASE more[i] = g
        BY <2>3, <3>4, <4>2
      <4> QED BY <2>1, <4>1, <4>2
    <3> QED BY <3>3, <3>5
  <2>8. Sound(new)
    BY <2>1, <2>2, <2>4, <2>5, <2>6, <2>7 DEF Sound
  <2>9. Reported(new) \subseteq Reported(state) \cup PidsOf(bucket)
    BY <2>1, <2>2, <2>3 DEF Reported
  <2> QED BY <2>1, <2>2, <2>8, <2>9 DEF new, key
<1> QED BY <1>6, <1>8, <1>9
-----------------------------------------------------------------------------
(* A stage takes its steps one after the other: the functions that the     *)
(* stages are defined by exist.                                            *)

\* The states that a stage goes through.
ExactRun(candidates, state, order, after) ==
    after[0] = state /\ \A n \in 1..Len(order) : after[n] = ExactBucket(candidates, after[n - 1], order[n])
FuzzyRun(unseen, state, order, after) ==
    after[0] = state /\ \A n \in 1..Len(order) : after[n] = FuzzyBucket(unseen, after[n - 1], order[n])
NearGroupRun(bucket, state, after) ==
    after[0] = state /\ \A n \in 1..Len(bucket) : after[n] = NearGroup(bucket, after[n - 1], n)
NearBucketRun(rest, keys, state, order, after) ==
    after[0] = state /\ \A n \in 1..Len(order) : after[n] = NearBucket(Bucket(rest, keys, order[n]), after[n - 1])

LEMMA ExactSteps ==
  ASSUME NEW candidates, NEW state, NEW order, order = FirstSeen(Fingerprints(candidates)),
         NEW final, final = ExactStage(candidates, state), Len(order) \in Nat
  PROVE  \E after : ExactRun(candidates, state, order, after) /\ final = after[Len(order)]
<1> DEFINE last == Len(order)
           Step(s, n) == ExactBucket(candidates, s, order[n])
           Runs(h, m) == h = [n \in 0..m |-> IF n = 0 THEN state ELSE Step(h[n - 1], n)]
           Good == {m \in Nat : \E h : Runs(h, m)}
<1>1. final = (CHOOSE h : Runs(h, last))[last]
  BY DEF ExactStage
<1>0. last \in Nat
  OBVIOUS
<1> HIDE DEF Step, last
<1>2. 0 \in Good
  <2> DEFINE h == [n \in 0..0 |-> state]
  <2>1. \A n \in 0..0 : n = 0
    OBVIOUS
  <2>2. Runs(h, 0)
    BY <2>1
  <2> QED BY <2>2
<1>3. ASSUME NEW m \in Good PROVE m + 1 \in Good
  <2>1. PICK h : Runs(h, m)
    OBVIOUS
  <2> DEFINE g == [n \in 0..(m + 1) |-> IF n = m + 1 THEN Step(h[m], m + 1) ELSE h[n]]
             r == [n \in 0..(m + 1) |-> IF n = 0 THEN state ELSE Step(g[n - 1], n)]
  <2>2. m \in Nat /\ \A n \in 0..m : n \in 0..(m + 1) /\ n # m + 1 /\ (n # 0 => n - 1 \in 0..m)
    OBVIOUS
  <2>3. \A n \in 0..m : h[n] = IF n = 0 THEN state ELSE Step(h[n - 1], n)
    BY <2>1
  <2>4. \A n \in 0..m : g[n] = h[n]
    BY <2>2
  <2>5. \A n \in 0..m : g[n] = r[n]
    BY <2>2, <2>3, <2>4
  <2>6. m + 1 \in 0..(m + 1) /\ m + 1 # 0 /\ (m + 1) - 1 = m /\ m \in 0..m
    BY <2>2
  <2>7. g[m + 1] = r[m + 1]
    BY <2>4, <2>6
  <2>8. \A n \in 0..(m + 1) : n \in 0..m \/ n = m + 1
    BY <2>2
  <2>9. \A n \in 0..(m + 1) : g[n] = r[n]
    BY <2>5, <2>7, <2>8
  <2>10. g = r
    BY <2>9
  <2>11. Runs(g, m + 1)
    BY <2>10
  <2> HIDE DEF g, r, Runs
  <2> QED BY <2>2, <2>11
<1>4. Good \in SUBSET Nat
  OBVIOUS
<1> HIDE DEF Good
<1>5. last \in Good
  BY <1>0, <1>2, <1>3, <1>4, EveryNumber
<1> DEFINE after == CHOOSE h : Runs(h, last)
<1>6. Runs(after, last)
  BY <1>5 DEF Good
<1>7. \A n \in 0..last : after[n] = IF n = 0 THEN state ELSE Step(after[n - 1], n)
  <2> HIDE DEF after
  <2> QED BY <1>6
<1>8. 0 \in 0..last /\ \A n \in 1..last : n \in 0..last /\ n # 0
  BY <1>0
<1>9. after[0] = state /\ \A n \in 1..last : after[n] = Step(after[n - 1], n)
  <2> HIDE DEF after
  <2> QED BY <1>7, <1>8
<1> HIDE DEF after
<1> QED BY <1>1, <1>9 DEF after, last, Step, ExactRun

LEMMA FuzzySteps ==
  ASSUME NEW candidates, NEW state,
         NEW unseen, unseen = Unseen(candidates, state.seen),
         NEW order, order = FirstSeen(FuzzyFingerprints(unseen)),
         NEW final, final = FuzzyStage(candidates, state), Len(order) \in Nat
  PROVE  \E after : FuzzyRun(unseen, state, order, after) /\ final = after[Len(order)]
<1> DEFINE last == Len(order)
           Step(s, n) == FuzzyBucket(unseen, s, order[n])
           Runs(h, m) == h = [n \in 0..m |-> IF n = 0 THEN state ELSE Step(h[n - 1], n)]
           Good == {m \in Nat : \E h : Runs(h, m)}
<1>1. final = (CHOOSE h : Runs(h, last))[last]
  BY DEF FuzzyStage
<1>0. last \in Nat
  OBVIOUS
<1> HIDE DEF Step, last
<1>2. 0 \in Good
  <2> DEFINE h == [n \in 0..0 |-> state]
  <2>1. \A n \in 0..0 : n = 0
    OBVIOUS
  <2>2. Runs(h, 0)
    BY <2>1
  <2> QED BY <2>2
<1>3. ASSUME NEW m \in Good PROVE m + 1 \in Good
  <2>1. PICK h : Runs(h, m)
    OBVIOUS
  <2> DEFINE g == [n \in 0..(m + 1) |-> IF n = m + 1 THEN Step(h[m], m + 1) ELSE h[n]]
             r == [n \in 0..(m + 1) |-> IF n = 0 THEN state ELSE Step(g[n - 1], n)]
  <2>2. m \in Nat /\ \A n \in 0..m : n \in 0..(m + 1) /\ n # m + 1 /\ (n # 0 => n - 1 \in 0..m)
    OBVIOUS
  <2>3. \A n \in 0..m : h[n] = IF n = 0 THEN state ELSE Step(h[n - 1], n)
    BY <2>1
  <2>4. \A n \in 0..m : g[n] = h[n]
    BY <2>2
  <2>5. \A n \in 0..m : g[n] = r[n]
    BY <2>2, <2>3, <2>4
  <2>6. m + 1 \in 0..(m + 1) /\ m + 1 # 0 /\ (m + 1) - 1 = m /\ m \in 0..m
    BY <2>2
  <2>7. g[m + 1] = r[m + 1]
    BY <2>4, <2>6
  <2>8. \A n \in 0..(m + 1) : n \in 0..m \/ n = m + 1
    BY <2>2
  <2>9. \A n \in 0..(m + 1) : g[n] = r[n]
    BY <2>5, <2>7, <2>8
  <2>10. g = r
    BY <2>9
  <2>11. Runs(g, m + 1)
    BY <2>10
  <2> HIDE DEF g, r, Runs
  <2> QED BY <2>2, <2>11
<1>4. Good \in SUBSET Nat
  OBVIOUS
<1> HIDE DEF Good
<1>5. last \in Good
  BY <1>0, <1>2, <1>3, <1>4, EveryNumber
<1> DEFINE after == CHOOSE h : Runs(h, last)
<1>6. Runs(after, last)
  BY <1>5 DEF Good
<1>7. \A n \in 0..last : after[n] = IF n = 0 THEN state ELSE Step(after[n - 1], n)
  <2> HIDE DEF after
  <2> QED BY <1>6
<1>8. 0 \in 0..last /\ \A n \in 1..last : n \in 0..last /\ n # 0
  BY <1>0
<1>9. after[0] = state /\ \A n \in 1..last : after[n] = Step(after[n - 1], n)
  <2> HIDE DEF after
  <2> QED BY <1>7, <1>8
<1> HIDE DEF after
<1> QED BY <1>1, <1>9 DEF after, last, Step, FuzzyRun

LEMMA NearGroupSteps ==
  ASSUME NEW bucket, NEW state, NEW final, final = NearBucket(bucket, state), Len(bucket) \in Nat
  PROVE  \E after : NearGroupRun(bucket, state, after) /\ final = after[Len(bucket)]
<1> DEFINE last == Len(bucket)
           Step(s, n) == NearGroup(bucket, s, n)
           Runs(h, m) == h = [n \in 0..m |-> IF n = 0 THEN state ELSE Step(h[n - 1], n)]
           Good == {m \in Nat : \E h : Runs(h, m)}
<1>1. final = (CHOOSE h : Runs(h, last))[last]
  BY DEF NearBucket
<1>0. last \in Nat
  OBVIOUS
<1> HIDE DEF Step, last
<1>2. 0 \in Good
  <2> DEFINE h == [n \in 0..0 |-> state]
  <2>1. \A n \in 0..0 : n = 0
    OBVIOUS
  <2>2. Runs(h, 0)
    BY <2>1
  <2> QED BY <2>2
<1>3. ASSUME NEW m \in Good PROVE m + 1 \in Good
  <2>1. PICK h : Runs(h, m)
    OBVIOUS
  <2> DEFINE g == [n \in 0..(m + 1) |-> IF n = m + 1 THEN Step(h[m], m + 1) ELSE h[n]]
             r == [n \in 0..(m + 1) |-> IF n = 0 THEN state ELSE Step(g[n - 1], n)]
  <2>2. m \in Nat /\ \A n \in 0..m : n \in 0..(m + 1) /\ n # m + 1 /\ (n # 0 => n - 1 \in 0..m)
    OBVIOUS
  <2>3. \A n \in 0..m : h[n] = IF n = 0 THEN state ELSE Step(h[n - 1], n)
    BY <2>1
  <2>4. \A n \in 0..m : g[n] = h[n]
    BY <2>2
  <2>5. \A n \in 0..m : g[n] = r[n]
    BY <2>2, <2>3, <2>4
  <2>6. m + 1 \in 0..(m + 1) /\ m + 1 # 0 /\ (m + 1) - 1 = m /\ m \in 0..m
    BY <2>2
  <2>7. g[m + 1] = r[m + 1]
    BY <2>4, <2>6
  <2>8. \A n \in 0..(m + 1) : n \in 0..m \/ n = m + 1
    BY <2>2
  <2>9. \A n \in 0..(m + 1) : g[n] = r[n]
    BY <2>5, <2>7, <2>8
  <2>10. g = r
    BY <2>9
  <2>11. Runs(g, m + 1)
    BY <2>10
  <2> HIDE DEF g, r, Runs
  <2> QED BY <2>2, <2>11
<1>4. Good \in SUBSET Nat
  OBVIOUS
<1> HIDE DEF Good
<1>5. last \in Good
  BY <1>0, <1>2, <1>3, <1>4, EveryNumber
<1> DEFINE after == CHOOSE h : Runs(h, last)
<1>6. Runs(after, last)
  BY <1>5 DEF Good
<1>7. \A n \in 0..last : after[n] = IF n = 0 THEN state ELSE Step(after[n - 1], n)
  <2> HIDE DEF after
  <2> QED BY <1>6
<1>8. 0 \in 0..last /\ \A n \in 1..last : n \in 0..last /\ n # 0
  BY <1>0
<1>9. after[0] = state /\ \A n \in 1..last : after[n] = Step(after[n - 1], n)
  <2> HIDE DEF after
  <2> QED BY <1>7, <1>8
<1> HIDE DEF after
<1> QED BY <1>1, <1>9 DEF after, last, Step, NearGroupRun

LEMMA NearBucketSteps ==
  ASSUME NEW candidates, NEW state,
         NEW rest, rest = Unseen(candidates, state.seen \cup Reported(state)),
         NEW keys, keys = EntryPoints(rest), NEW order, order = FirstSeen(keys),
         NEW final, final = NearStage(candidates, state), Len(order) \in Nat
  PROVE  \E after : NearBucketRun(rest, keys, state, order, after) /\ final = after[Len(order)]
<1> DEFINE last == Len(order)
           Step(s, n) == NearBucket(Bucket(rest, keys, order[n]), s)
           Runs(h, m) == h = [n \in 0..m |-> IF n = 0 THEN state ELSE Step(h[n - 1], n)]
           Good == {m \in Nat : \E h : Runs(h, m)}
<1>1. final = (CHOOSE h : Runs(h, last))[last]
  BY DEF NearStage
<1>0. last \in Nat
  OBVIOUS
<1> HIDE DEF Step, last
<1>2. 0 \in Good
  <2> DEFINE h == [n \in 0..0 |-> state]
  <2>1. \A n \in 0..0 : n = 0
    OBVIOUS
  <2>2. Runs(h, 0)
    BY <2>1
  <2> QED BY <2>2
<1>3. ASSUME NEW m \in Good PROVE m + 1 \in Good
  <2>1. PICK h : Runs(h, m)
    OBVIOUS
  <2> DEFINE g == [n \in 0..(m + 1) |-> IF n = m + 1 THEN Step(h[m], m + 1) ELSE h[n]]
             r == [n \in 0..(m + 1) |-> IF n = 0 THEN state ELSE Step(g[n - 1], n)]
  <2>2. m \in Nat /\ \A n \in 0..m : n \in 0..(m + 1) /\ n # m + 1 /\ (n # 0 => n - 1 \in 0..m)
    OBVIOUS
  <2>3. \A n \in 0..m : h[n] = IF n = 0 THEN state ELSE Step(h[n - 1], n)
    BY <2>1
  <2>4. \A n \in 0..m : g[n] = h[n]
    BY <2>2
  <2>5. \A n \in 0..m : g[n] = r[n]
    BY <2>2, <2>3, <2>4
  <2>6. m + 1 \in 0..(m + 1) /\ m + 1 # 0 /\ (m + 1) - 1 = m /\ m \in 0..m
    BY <2>2
  <2>7. g[m + 1] = r[m + 1]
    BY <2>4, <2>6
  <2>8. \A n \in 0..(m + 1) : n \in 0..m \/ n = m + 1
    BY <2>2
  <2>9. \A n \in 0..(m + 1) : g[n] = r[n]
    BY <2>5, <2>7, <2>8
  <2>10. g = r
    BY <2>9
  <2>11. Runs(g, m + 1)
    BY <2>10
  <2> HIDE DEF g, r, Runs
  <2> QED BY <2>2, <2>11
<1>4. Good \in SUBSET Nat
  OBVIOUS
<1> HIDE DEF Good
<1>5. last \in Good
  BY <1>0, <1>2, <1>3, <1>4, EveryNumber
<1> DEFINE after == CHOOSE h : Runs(h, last)
<1>6. Runs(after, last)
  BY <1>5 DEF Good
<1>7. \A n \in 0..last : after[n] = IF n = 0 THEN state ELSE Step(after[n - 1], n)
  <2> HIDE DEF after
  <2> QED BY <1>6
<1>8. 0 \in 0..last /\ \A n \in 1..last : n \in 0..last /\ n # 0
  BY <1>0
<1>9. after[0] = state /\ \A n \in 1..last : after[n] = Step(after[n - 1], n)
  <2> HIDE DEF after
  <2> QED BY <1>7, <1>8
<1> HIDE DEF after
<1> QED BY <1>1, <1>9 DEF after, last, Step, NearBucketRun
-----------------------------------------------------------------------------
(* The stages                                                              *)

\* A bucket that the exact stage reports, unless it did so recently.
Duplicates(bucket) == Len(bucket) >= 2 /\ ~MixedContainers(bucket) /\ ~ContainsParentChild(bucket)

OnRecord(state, fp, bucket) == SuppressionKey(fp, bucket) \in DOMAIN reported \cup ReportKeys(state.groups)

LEMMA FirstTwo ==
  ASSUME NEW S, NEW list \in Seq(S), Len(list) >= 2
  PROVE  1 \in DOMAIN list /\ 2 \in DOMAIN list /\ 1 # 2
OBVIOUS

LEMMA UnrelatedNotLineage ==
  ASSUME NEW S, NEW bucket \in Seq(S), Duplicates(bucket)
  PROVE  NotLineage(bucket)
<1>1. 1 \in DOMAIN bucket /\ 2 \in DOMAIN bucket /\ 1 # 2
  BY FirstTwo DEF Duplicates
<1>2. ~ AreRelated(bucket[1], bucket[2])
  BY <1>1 DEF Duplicates, ContainsParentChild
<1> QED BY <1>1, <1>2 DEF NotLineage, AreRelated

LEMMA KeysOfLists ==
  ASSUME NEW list
  PROVE  /\ DOMAIN Fingerprints(list) = DOMAIN list /\ DOMAIN FuzzyFingerprints(list) = DOMAIN list
         /\ DOMAIN EntryPoints(list) = DOMAIN list
         /\ \A i \in DOMAIN list : Fingerprints(list)[i] = list[i].prog.fp
BY DEF Fingerprints, FuzzyFingerprints, EntryPoints

LEMMA ExactBucketIsSound ==
  ASSUME HistoryTyped, NEW candidates \in Seq(Shots(procs)), OnePidEach(candidates), NEW keys,
         keys = Fingerprints(candidates), NEW n \in 1..Len(FirstSeen(keys)), NEW state, Sound(state),
         Reported(state) \subseteq state.seen, state.seen \subseteq Covered(candidates, keys, n - 1)
  PROVE  LET i == FirstSeen(keys)[n]
             new == ExactBucket(candidates, state, i) IN
         /\ Sound(new) /\ Reported(new) \subseteq new.seen /\ new.seen \subseteq Covered(candidates, keys, n)
         /\ ReportKeys(state.groups) \subseteq ReportKeys(new.groups)
         /\ Duplicates(Bucket(candidates, keys, i)) => OnRecord(new, keys[i], Bucket(candidates, keys, i))
<1> DEFINE i == FirstSeen(keys)[n]
           bucket == Bucket(candidates, keys, i)
           passed == [state EXCEPT !.seen = @ \cup PidsOf(bucket)]
           fp == candidates[i].prog.fp
           new == ExactBucket(candidates, state, i)
<1>1. DOMAIN keys = DOMAIN candidates
  BY KeysOfLists
<1>2. /\ i \in DOMAIN candidates /\ PidsOf(bucket) \cap Covered(candidates, keys, n - 1) = {}
      /\ PidsOf(bucket) \subseteq Covered(candidates, keys, n)
      /\ Covered(candidates, keys, n - 1) \subseteq Covered(candidates, keys, n)
  BY <1>1, BucketsApart
<1> HIDE DEF i
<1>3. bucket \in Seq(Shots(procs)) /\ keys[i] = fp
  BY <1>1, <1>2, BucketIs, KeysOfLists
<1>4. new = IF ~Duplicates(bucket) THEN state ELSE Report(passed, fp, bucket, 99)
  <2>1. Len(bucket) \in Nat
    BY <1>3
  <2>2. Len(bucket) < 2 <=> ~(Len(bucket) >= 2)
    BY <2>1
  <2> QED BY <2>2 DEF ExactBucket, Duplicates
<1>5. candidates[i] \in Shots(procs)
  BY <1>2
<1>6. fp \in Prints
  BY <1>5, EveryShot
<1> HIDE DEF bucket, new, fp
<1>7. CASE ~Duplicates(bucket)
  BY <1>2, <1>4, <1>7 DEF new, i, bucket
<1>8. CASE Duplicates(bucket)
  <2>1. PidsOf(bucket) \in SUBSET Pids
    BY <1>3, PidsOfShots
  <2>2. Sound(passed) /\ passed.seen = state.seen \cup PidsOf(bucket) /\ Reported(passed) = Reported(state)
    BY <2>1, SoundIgnoresSeen
  <2>3. passed.groups = state.groups
    OBVIOUS
  <2> HIDE DEF passed
  <2>4. Len(bucket) > 1 /\ 99 \in Confidences /\ NotLineage(bucket)
    <3>1. Len(bucket) \in Nat /\ Len(bucket) >= 2
      BY <1>3, <1>8 DEF Duplicates
    <3> QED BY <1>3, <1>8, <3>1, UnrelatedNotLineage DEF Confidences
  <2>5. PidsOf(bucket) \cap Reported(passed) = {}
    BY <1>2, <2>2
  <2>6. /\ Sound(new) /\ new.seen = passed.seen
        /\ Reported(new) \subseteq Reported(passed) \cup PidsOf(bucket)
        /\ ReportKeys(passed.groups) \subseteq ReportKeys(new.groups)
        /\ SuppressionKey(fp, bucket) \in DOMAIN reported \cup ReportKeys(new.groups)
    <3>1. new = Report(passed, fp, bucket, 99)
      BY <1>4, <1>8
    <3>2. /\ Sound(passed) /\ fp \in Prints /\ bucket \in Seq(Shots(procs)) /\ Len(bucket) > 1 /\ 99 \in Confidences
          /\ PidsOf(bucket) \cap Reported(passed) = {} /\ (Threshold > 70 => NotLineage(bucket))
      BY <1>3, <1>6, <2>2, <2>4, <2>5
    <3> QED BY <3>1, <3>2, ReportIsSound
  <2>7. Reported(new) \subseteq new.seen /\ new.seen \subseteq Covered(candidates, keys, n)
    BY <1>2, <2>2, <2>6
  <2> QED BY <1>3, <2>3, <2>6, <2>7 DEF new, i, bucket, OnRecord
<1> QED BY <1>7, <1>8

LEMMA ExactStageIsSound ==
  ASSUME HistoryTyped, NEW candidates \in Seq(Shots(procs)), OnePidEach(candidates), NEW keys,
         keys = Fingerprints(candidates), NEW state, Sound(state), Reported(state) = {}, state.seen = {}
  PROVE  LET final == ExactStage(candidates, state) IN
         /\ Sound(final) /\ Reported(final) \subseteq final.seen
         /\ \A i \in DOMAIN candidates : Duplicates(Bucket(candidates, keys, i)) =>
               OnRecord(final, keys[i], Bucket(candidates, keys, i))
<1> DEFINE order == FirstSeen(keys)
           final == ExactStage(candidates, state)
<1>1. /\ DOMAIN keys = DOMAIN candidates /\ DOMAIN candidates = 1..Len(candidates) /\ Len(candidates) \in Nat
  BY KeysOfLists
<1>2. /\ Len(order) \in Nat
      /\ \A m \in 1..Len(order) : order[m] \in DOMAIN candidates
      /\ \A i \in DOMAIN candidates : \E m \in 1..Len(order) : keys[order[m]] = keys[i]
  BY <1>1, FirstSeenAre
<1>2a. Len(order) \in Nat /\ order = FirstSeen(Fingerprints(candidates)) /\ final = ExactStage(candidates, state)
  BY <1>2
<1>2b. \E after : ExactRun(candidates, state, order, after) /\ final = after[Len(order)]
  <2> HIDE DEF order, final
  <2> QED BY <1>2a, ExactSteps
<1>3. PICK after : /\ after[0] = state
                   /\ \A n \in 1..Len(order) : after[n] = ExactBucket(candidates, after[n - 1], order[n])
                   /\ final = after[Len(order)]
  <2> HIDE DEF order, final
  <2> QED BY <1>2b DEF ExactRun
<1> DEFINE Noted(n, m) == Duplicates(Bucket(candidates, keys, order[m])) =>
                              OnRecord(after[n], keys[order[m]], Bucket(candidates, keys, order[m]))
           Good == {n \in Nat : n <= Len(order) =>
                       /\ Sound(after[n]) /\ Reported(after[n]) \subseteq after[n].seen
                       /\ after[n].seen \subseteq Covered(candidates, keys, n)
                       /\ \A m \in 1..n : Noted(n, m)}
<1>4. 0 \in Good
  BY <1>3
<1>5. ASSUME NEW n \in Good PROVE n + 1 \in Good
  <2> SUFFICES ASSUME n + 1 <= Len(order)
               PROVE  /\ Sound(after[n + 1]) /\ Reported(after[n + 1]) \subseteq after[n + 1].seen
                      /\ after[n + 1].seen \subseteq Covered(candidates, keys, n + 1)
                      /\ \A m \in 1..(n + 1) : Noted(n + 1, m)
    OBVIOUS
  <2>0. n \in Nat
    OBVIOUS
  <2>1. n \in Nat /\ n <= Len(order) /\ n + 1 \in 1..Len(order) /\ (n + 1) - 1 = n
    <3>1. Len(order) \in Nat /\ n + 1 <= Len(order)
      BY <1>2
    <3>2. \A k \in Nat : n + 1 <= k => n <= k /\ n + 1 \in 1..k /\ (n + 1) - 1 = n
      BY <2>0
    <3> HIDE DEF Good, Noted, order
    <3> QED BY <2>0, <3>1, <3>2
  <2>2. /\ Sound(after[n]) /\ Reported(after[n]) \subseteq after[n].seen
        /\ after[n].seen \subseteq Covered(candidates, keys, n)
        /\ \A m \in 1..n : Noted(n, m)
    BY <2>1
  <2>3. after[n + 1] = ExactBucket(candidates, after[n], order[n + 1])
    BY <1>3, <2>1
  <2>4. /\ Sound(after[n + 1]) /\ Reported(after[n + 1]) \subseteq after[n + 1].seen
        /\ after[n + 1].seen \subseteq Covered(candidates, keys, n + 1)
        /\ ReportKeys(after[n].groups) \subseteq ReportKeys(after[n + 1].groups)
        /\ Noted(n + 1, n + 1)
    BY <2>1, <2>2, <2>3, ExactBucketIsSound
  <2>5. ASSUME NEW m \in 1..n PROVE Noted(n + 1, m)
    BY <2>2, <2>4 DEF OnRecord
  <2>6. \A m \in 1..(n + 1) : m \in 1..n \/ m = n + 1
    BY <2>1
  <2> HIDE DEF Noted
  <2> QED BY <2>4, <2>5, <2>6
<1>6. Good \in SUBSET Nat
  OBVIOUS
<1> HIDE DEF Good
<1>7. Len(order) \in Good
  BY <1>2, <1>4, <1>5, <1>6, EveryNumber
<1>8. /\ Sound(after[Len(order)]) /\ Reported(after[Len(order)]) \subseteq after[Len(order)].seen
      /\ \A m \in 1..Len(order) : Noted(Len(order), m)
  BY <1>2, <1>7 DEF Good
<1>9. ASSUME NEW i \in DOMAIN candidates, Duplicates(Bucket(candidates, keys, i))
      PROVE  OnRecord(after[Len(order)], keys[i], Bucket(candidates, keys, i))
  <2>1. PICK m \in 1..Len(order) : keys[order[m]] = keys[i]
    BY <1>2
  <2>2. Bucket(candidates, keys, order[m]) = Bucket(candidates, keys, i)
    BY <2>1 DEF Bucket
  <2> QED BY <1>8, <1>9, <2>1, <2>2
<1> QED BY <1>3, <1>8, <1>9

-----------------------------------------------------------------------------
(* Scores                                                                  *)

LEMMA PointsAre ==
  ASSUME NEW condition, NEW n
  PROVE  /\ Points(condition, n) \in {0, n}
         /\ condition => Points(condition, n) = n
BY DEF Points

\* The score of a pair is a percentage, and a lineage's is at most 70.
LEMMA PairScoreIs ==
  ASSUME NEW left, NEW right
  PROVE  /\ PairScore(left, right) \in 0..99
         /\ AreRelated(left, right) => PairScore(left, right) <= 70
<1> DEFINE l == left.prog
           r == right.prog
           similar == ArgSimilarity(l.args, r.args)
           age == Delta(left.start, right.start)
           a == Points(l.exec = r.exec, 30)
           b == Points(l.cwd # NoText /\ r.cwd # NoText /\ CwdSimilarity(l.cwd, r.cwd) > 88, 25)
           c == Points(similar > 75, IF similar >= 90 THEN 25 ELSE 18)
           d == Points(l.ports \cap r.ports # {}, 10)
           e == Points(left.ppid # 0 /\ left.ppid = right.ppid, 10)
           f == Points(l.script # NoText /\ l.script = r.script, 10)
           g == Points(AreRelated(left, right), 45)
           h == Points(l.unit # NoText /\ l.unit = r.unit, 20)
           i == Points(l.container # NoText /\ r.container # NoText /\ l.container # r.container, 30)
           j == Points(age <= SameStart, 5)
           k == Points(age > DistantStart, 10)
           sum == a + b + c + d + e + f - g - h - i + j - k
<1>1. PairScore(left, right) = IF sum < 0 THEN 0 ELSE IF sum > 99 THEN 99 ELSE sum
  BY DEF PairScore
<1>2. /\ a \in {0, 30} /\ b \in {0, 25} /\ d \in {0, 10} /\ e \in {0, 10} /\ f \in {0, 10} /\ g \in {0, 45}
      /\ h \in {0, 20} /\ i \in {0, 30} /\ j \in {0, 5} /\ k \in {0, 10}
      /\ AreRelated(left, right) => g = 45
  BY PointsAre
<1>3. c \in {0, 18, 25}
  <2> DEFINE n == IF similar >= 90 THEN 25 ELSE 18
  <2>1. n \in {18, 25}
    OBVIOUS
  <2> HIDE DEF n
  <2>2. Points(similar > 75, n) \in {0, n}
    BY PointsAre
  <2> QED BY <2>1, <2>2 DEF n
<1> HIDE DEF a, b, c, d, e, f, g, h, i, j, k
<1>4. sum \in Int
  BY <1>2, <1>3
<1>5. AreRelated(left, right) => sum <= 70
  BY <1>2, <1>3
<1> HIDE DEF sum
<1> QED BY <1>1, <1>4, <1>5

\* The best of some scores is one of them.
LEMMA BestIsOne ==
  ASSUME NEW scores \in SUBSET (0..99), scores # {}
  PROVE  Max(scores) \in scores /\ \A x \in scores : Max(scores) >= x
<1>1. scores \in SUBSET Nat /\ 99 \in Nat /\ \A x \in scores : x <= 99
  OBVIOUS
<1>2. \E m \in scores : \A x \in scores : m >= x
  BY <1>1, LargestExists
<1> QED BY <1>2 DEF Max

LEMMA BestScoreIs ==
  ASSUME NEW S, NEW bucket \in Seq(S), Len(bucket) >= 2
  PROVE  \E i, j \in DOMAIN bucket : i # j /\ BestScore(bucket) = PairScore(bucket[i], bucket[j])
<1> DEFINE pairs == {q \in (DOMAIN bucket) \X (DOMAIN bucket) : q[1] # q[2]}
           scores == {PairScore(bucket[p[1]], bucket[p[2]]) : p \in pairs}
<1>1. \A p \in pairs : PairScore(bucket[p[1]], bucket[p[2]]) \in 0..99
  BY PairScoreIs
<1>2. scores \in SUBSET (0..99)
  BY <1>1
<1>3. << 1, 2 >> \in pairs
  BY FirstTwo
<1>4. scores # {}
  BY <1>3
<1>5. Max(scores) \in scores
  <2> HIDE DEF scores
  <2> QED BY <1>2, <1>4, BestIsOne
<1>6. PICK p \in pairs : Max(scores) = PairScore(bucket[p[1]], bucket[p[2]])
  BY <1>5
<1>7. p[1] \in DOMAIN bucket /\ p[2] \in DOMAIN bucket /\ p[1] # p[2]
  OBVIOUS
<1>8. BestScore(bucket) = Max(scores)
  BY DEF BestScore
<1> QED BY <1>6, <1>7, <1>8

-----------------------------------------------------------------------------
(* The fuzzy stage                                                         *)

LEMMA UnrelatedPair ==
  ASSUME NEW members, NEW i \in DOMAIN members, NEW j \in DOMAIN members, i # j,
         ~AreRelated(members[i], members[j])
  PROVE  NotLineage(members)
BY DEF NotLineage, AreRelated

LEMMA FuzzyBucketIsSound ==
  ASSUME HistoryTyped, NEW unseen \in Seq(Shots(procs)), OnePidEach(unseen), NEW keys,
         keys = FuzzyFingerprints(unseen), NEW n \in 1..Len(FirstSeen(keys)), NEW taken,
         PidsOf(unseen) \cap taken = {}, NEW state, Sound(state),
         Reported(state) \subseteq taken \cup Covered(unseen, keys, n - 1)
  PROVE  LET new == FuzzyBucket(unseen, state, FirstSeen(keys)[n]) IN
         /\ Sound(new) /\ Reported(new) \subseteq taken \cup Covered(unseen, keys, n)
         /\ ReportKeys(state.groups) \subseteq ReportKeys(new.groups)
<1> DEFINE i == FirstSeen(keys)[n]
           bucket == Bucket(unseen, keys, i)
           best == BestScore(bucket)
           fp == unseen[i].prog.ffp
           new == FuzzyBucket(unseen, state, i)
<1>1. DOMAIN keys = DOMAIN unseen
  BY KeysOfLists
<1>2. /\ i \in DOMAIN unseen /\ PidsOf(bucket) \cap Covered(unseen, keys, n - 1) = {}
      /\ PidsOf(bucket) \subseteq Covered(unseen, keys, n)
      /\ Covered(unseen, keys, n - 1) \subseteq Covered(unseen, keys, n)
  BY <1>1, BucketsApart
<1> HIDE DEF i
<1>3. bucket \in Seq(Shots(procs)) /\ PidsOf(bucket) \subseteq PidsOf(unseen)
  <2>1. /\ bucket \in Seq(Shots(procs))
        /\ PidsOf(bucket) = {unseen[j].pid : j \in {j \in DOMAIN unseen : keys[j] = keys[i]}}
    BY <1>1, <1>2, BucketIs
  <2> QED BY <2>1 DEF PidsOf
<1>4. new = IF Len(bucket) < 2 THEN state ELSE IF best < Threshold THEN state
            ELSE Report(state, fp, bucket, best)
  BY DEF FuzzyBucket
<1>5. fp \in Prints
  <2>1. unseen[i] \in Shots(procs)
    BY <1>2
  <2> QED BY <2>1, EveryShot
<1> HIDE DEF bucket, best, new, fp
<1>6. CASE Len(bucket) < 2 \/ best < Threshold
  BY <1>2, <1>4, <1>6 DEF new, i
<1>7. CASE ~(Len(bucket) < 2 \/ best < Threshold)
  <2>1. Len(bucket) \in Nat /\ Len(bucket) >= 2 /\ Len(bucket) > 1
    BY <1>3, <1>7
  <2>2. PICK j, k \in DOMAIN bucket : j # k /\ best = PairScore(bucket[j], bucket[k])
    BY <1>3, <2>1, BestScoreIs DEF best
  <2>3. best \in 0..99 /\ (AreRelated(bucket[j], bucket[k]) => best <= 70)
    BY <2>2, PairScoreIs
  <2>4. best \in Confidences
    BY <1>7, <2>3, DetectorAssumption DEF Confidences
  <2>5. Threshold > 70 => NotLineage(bucket)
    <3> SUFFICES ASSUME Threshold > 70 PROVE NotLineage(bucket)
      OBVIOUS
    <3>1. ~AreRelated(bucket[j], bucket[k])
      BY <1>7, <2>3, DetectorAssumption
    <3> QED BY <2>2, <3>1, UnrelatedPair
  <2>6. PidsOf(bucket) \cap Reported(state) = {}
    BY <1>2, <1>3
  <2>7. new = Report(state, fp, bucket, best)
    BY <1>4, <1>7
  <2>8. /\ Sound(new) /\ Reported(new) \subseteq Reported(state) \cup PidsOf(bucket)
        /\ ReportKeys(state.groups) \subseteq ReportKeys(new.groups)
    BY <1>3, <1>5, <2>1, <2>4, <2>5, <2>6, <2>7, ReportIsSound
  <2> QED BY <1>2, <2>8 DEF new, i
<1> QED BY <1>6, <1>7

LEMMA UnseenAre ==
  ASSUME NEW S, NEW candidates \in Seq(S), OnePidEach(candidates), NEW pids
  PROVE  LET unseen == Unseen(candidates, pids) IN
         unseen \in Seq(S) /\ OnePidEach(unseen) /\ PidsOf(unseen) \cap pids = {}
<1> DEFINE places == {i \in DOMAIN candidates : candidates[i].pid \notin pids}
<1>1. places \in SUBSET DOMAIN candidates /\ Unseen(candidates, pids) = Picked(candidates, places)
  BY DEF Unseen
<1>2. {candidates[i].pid : i \in places} \cap pids = {}
  OBVIOUS
<1> HIDE DEF places
<1> QED BY <1>1, <1>2, PickedProcesses

LEMMA FuzzyStageIsSound ==
  ASSUME HistoryTyped, NEW candidates \in Seq(Shots(procs)), OnePidEach(candidates),
         NEW state, Sound(state), Reported(state) \subseteq state.seen
  PROVE  LET final == FuzzyStage(candidates, state) IN
         Sound(final) /\ ReportKeys(state.groups) \subseteq ReportKeys(final.groups)
<1> DEFINE taken == state.seen
           unseen == Unseen(candidates, taken)
           keys == FuzzyFingerprints(unseen)
           order == FirstSeen(keys)
           final == FuzzyStage(candidates, state)
<1>1. unseen \in Seq(Shots(procs)) /\ OnePidEach(unseen) /\ PidsOf(unseen) \cap taken = {}
  BY UnseenAre
<1>2. Len(order) \in Nat
  <2> HIDE DEF unseen
  <2>1. DOMAIN keys = 1..Len(unseen) /\ Len(unseen) \in Nat
    BY <1>1, KeysOfLists
  <2> QED BY <2>1, FirstSeenAre
<1>3. \E after : FuzzyRun(unseen, state, order, after) /\ final = after[Len(order)]
  <2>1. /\ unseen = Unseen(candidates, state.seen) /\ order = FirstSeen(FuzzyFingerprints(unseen))
        /\ final = FuzzyStage(candidates, state)
    OBVIOUS
  <2> HIDE DEF unseen, order, final
  <2> QED BY <1>2, <2>1, FuzzySteps
<1>4. keys = FuzzyFingerprints(unseen) /\ order = FirstSeen(keys)
  OBVIOUS
<1> HIDE DEF unseen, keys, order, final
<1>5. PICK after : /\ after[0] = state
                   /\ \A n \in 1..Len(order) : after[n] = FuzzyBucket(unseen, after[n - 1], order[n])
                   /\ final = after[Len(order)]
  BY <1>3 DEF FuzzyRun
<1> DEFINE Good == {n \in Nat : n <= Len(order) =>
                       /\ Sound(after[n]) /\ Reported(after[n]) \subseteq taken \cup Covered(unseen, keys, n)
                       /\ ReportKeys(state.groups) \subseteq ReportKeys(after[n].groups)}
<1>6. 0 \in Good
  BY <1>5
<1>7. ASSUME NEW n \in Good PROVE n + 1 \in Good
  <2> SUFFICES ASSUME n + 1 <= Len(order)
               PROVE  /\ Sound(after[n + 1])
                      /\ Reported(after[n + 1]) \subseteq taken \cup Covered(unseen, keys, n + 1)
                      /\ ReportKeys(state.groups) \subseteq ReportKeys(after[n + 1].groups)
    OBVIOUS
  <2>1. n \in Nat
    OBVIOUS
  <2>2. n <= Len(order) /\ n + 1 \in 1..Len(order) /\ (n + 1) - 1 = n
    <3>1. \A k \in Nat : n + 1 <= k => n <= k /\ n + 1 \in 1..k /\ (n + 1) - 1 = n
      BY <2>1
    <3> HIDE DEF Good
    <3> QED BY <1>2, <3>1
  <2>3. /\ Sound(after[n]) /\ Reported(after[n]) \subseteq taken \cup Covered(unseen, keys, n)
        /\ ReportKeys(state.groups) \subseteq ReportKeys(after[n].groups)
    BY <2>2
  <2>4. after[n + 1] = FuzzyBucket(unseen, after[n], FirstSeen(keys)[n + 1])
    BY <1>4, <1>5, <2>2
  <2> HIDE DEF Good
  <2> DEFINE place == n + 1
             prior == after[n]
             later == after[n + 1]
  <2>5. /\ place \in 1..Len(FirstSeen(keys)) /\ Sound(prior)
        /\ Reported(prior) \subseteq taken \cup Covered(unseen, keys, place - 1)
        /\ later = FuzzyBucket(unseen, prior, FirstSeen(keys)[place])
    BY <1>4, <2>2, <2>3, <2>4
  <2>6. /\ Sound(later) /\ Reported(later) \subseteq taken \cup Covered(unseen, keys, place)
        /\ ReportKeys(prior.groups) \subseteq ReportKeys(later.groups)
    <3> HIDE DEF place, prior, later, taken
    <3> QED BY <1>1, <1>4, <2>5, FuzzyBucketIsSound
  <2> QED BY <2>3, <2>6
<1>8. Good \in SUBSET Nat
  OBVIOUS
<1> HIDE DEF Good
<1>9. Len(order) \in Good
  BY <1>2, <1>6, <1>7, <1>8, EveryNumber
<1>10. Sound(after[Len(order)]) /\ ReportKeys(state.groups) \subseteq ReportKeys(after[Len(order)].groups)
  BY <1>2, <1>9 DEF Good
<1> QED BY <1>5, <1>10 DEF final

-----------------------------------------------------------------------------
(* The stage of near duplicates                                            *)

\* A sequence that starts with one element and goes on as another sequence.
Leads(all, first, rest) ==
    /\ Len(all) = Len(rest) + 1
    /\ 1 \in DOMAIN all /\ all[1] = first
    /\ \A j \in DOMAIN rest : j + 1 \in DOMAIN all /\ j + 1 # 1 /\ all[j + 1] = rest[j]
    /\ \A k \in DOMAIN all : k = 1 \/ \E j \in DOMAIN rest : k = j + 1

LEMMA FirstAndRest ==
  ASSUME NEW S, NEW first \in S, NEW rest \in Seq(S), NEW all, all = << first >> \o rest
  PROVE  all \in Seq(S) /\ Leads(all, first, rest)
<1>1. << first >> \in Seq(S) /\ Len(<< first >>) = 1 /\ << first >>[1] = first
  OBVIOUS
<1>2. all \in Seq(S) /\ Len(all) = 1 + Len(rest) /\ Len(rest) \in Nat
  BY <1>1
<1>3. all[1] = first /\ \A j \in 1..Len(rest) : all[j + 1] = rest[j]
  BY <1>1
<1>4. \A k \in 1..(1 + Len(rest)) : k = 1 \/ (k - 1 \in 1..Len(rest) /\ k = (k - 1) + 1)
  BY <1>2
<1>5. \A j \in 1..Len(rest) : j + 1 \in 1..(1 + Len(rest)) /\ j + 1 # 1
  BY <1>2
<1>6. DOMAIN all = 1..(1 + Len(rest)) /\ DOMAIN rest = 1..Len(rest) /\ 1 \in 1..(1 + Len(rest))
  BY <1>2
<1>7. \A k \in DOMAIN all : k = 1 \/ \E j \in DOMAIN rest : k = j + 1
  BY <1>4, <1>6
<1>8. \A j \in DOMAIN rest : j + 1 \in DOMAIN all /\ j + 1 # 1 /\ all[j + 1] = rest[j]
  BY <1>3, <1>5, <1>6
<1>9. Len(all) = Len(rest) + 1
  BY <1>2
<1> QED BY <1>2, <1>3, <1>6, <1>7, <1>8, <1>9 DEF Leads

LEMMA NearRightsAre ==
  ASSUME NEW S, NEW bucket \in Seq(S), OnePidEach(bucket), NEW i \in DOMAIN bucket, NEW consumed
  PROVE  LET rights == NearRights(bucket, i, consumed) IN
         /\ rights \in Seq(S) /\ PidsOf(rights) \subseteq PidsOf(bucket) /\ PidsOf(rights) \cap consumed = {}
         /\ \A n \in DOMAIN rights :
               ~AreRelated(bucket[i], rights[n]) /\ PairScore(bucket[i], rights[n]) >= Threshold
<1> DEFINE places == {j \in (i + 1)..Len(bucket) : /\ bucket[j].pid \notin consumed
                                                   /\ ~AreRelated(bucket[i], bucket[j])
                                                   /\ PairScore(bucket[i], bucket[j]) >= Threshold}
           rights == NearRights(bucket, i, consumed)
<1>1. \A j \in (i + 1)..Len(bucket) : j \in DOMAIN bucket
  OBVIOUS
<1>2. places \in SUBSET DOMAIN bucket
  BY <1>1
<1>3. rights = Picked(bucket, places)
  BY DEF NearRights
<1>4. \A j \in places : /\ bucket[j].pid \notin consumed /\ ~AreRelated(bucket[i], bucket[j])
                        /\ PairScore(bucket[i], bucket[j]) >= Threshold
  OBVIOUS
<1> HIDE DEF places, rights
<1>5. /\ rights \in Seq(S) /\ PidsOf(rights) = {bucket[j].pid : j \in places}
      /\ \A n \in DOMAIN rights : \E j \in places : rights[n] = bucket[j]
  BY <1>2, <1>3, PickedProcesses
<1>6. PidsOf(rights) \subseteq PidsOf(bucket) /\ PidsOf(rights) \cap consumed = {}
  BY <1>2, <1>4, <1>5 DEF PidsOf
<1> QED BY <1>4, <1>5, <1>6 DEF rights

LEMMA NearGroupIsSound ==
  ASSUME HistoryTyped, NEW bucket \in Seq(Shots(procs)), OnePidEach(bucket), NEW i \in DOMAIN bucket,
         NEW state, Sound(state)
  PROVE  LET new == NearGroup(bucket, state, i) IN
         Sound(new) /\ ReportKeys(state.groups) \subseteq ReportKeys(new.groups)
<1> DEFINE rights == NearRights(bucket, i, Reported(state))
           members == << bucket[i] >> \o rights
           scores == {PairScore(bucket[i], rights[j]) : j \in DOMAIN rights}
           fp == bucket[i].prog.ffp
           left == bucket[i]
           new == NearGroup(bucket, state, i)
<1>1. /\ rights \in Seq(Shots(procs)) /\ PidsOf(rights) \cap Reported(state) = {}
      /\ \A n \in DOMAIN rights : ~AreRelated(left, rights[n]) /\ PairScore(left, rights[n]) >= Threshold
  BY NearRightsAre
<1>2. left \in Shots(procs) /\ fp \in Prints
  <2>1. left \in Shots(procs)
    OBVIOUS
  <2> QED BY <2>1, EveryShot
<1>3. new = IF left.pid \in Reported(state) \/ rights = << >> \/ MixedContainers(members) THEN state
            ELSE Report(state, fp, members, Max(scores))
  BY DEF NearGroup
<1> HIDE DEF rights, new, fp, left
<1>4. CASE left.pid \in Reported(state) \/ rights = << >> \/ MixedContainers(members)
  BY <1>3, <1>4 DEF new
<1>5. CASE ~(left.pid \in Reported(state) \/ rights = << >> \/ MixedContainers(members))
  <2>1. Len(rights) \in Nat /\ 1 \in DOMAIN rights
    BY <1>1, <1>5
  <2>2. members \in Seq(Shots(procs)) /\ Leads(members, left, rights)
    <3>1. members = << left >> \o rights
      BY DEF left
    <3> HIDE DEF members, scores
    <3> QED BY <1>1, <1>2, <3>1, FirstAndRest
  <2> HIDE DEF members
  <2>3. Max(scores) \in Confidences
    <3>1. scores \in SUBSET (0..99)
      BY PairScoreIs
    <3>2. scores # {}
      BY <2>1
    <3>3. \A x \in scores : x >= Threshold
      BY <1>1 DEF left
    <3> HIDE DEF scores
    <3>4. Max(scores) \in scores
      BY <3>1, <3>2, BestIsOne
    <3> DEFINE best == Max(scores)
    <3>5. best \in 0..99 /\ best >= Threshold
      BY <3>1, <3>3, <3>4
    <3> HIDE DEF best
    <3>6. best \in Confidences
      BY <3>5, DetectorAssumption DEF Confidences
    <3> QED BY <3>6 DEF best
  <2> HIDE DEF scores
  <2>4. PidsOf(members) \cap Reported(state) = {}
    <3> SUFFICES ASSUME NEW k \in DOMAIN members PROVE members[k].pid \notin Reported(state)
      BY DEF PidsOf
    <3>1. CASE k = 1
      BY <1>5, <2>2, <3>1 DEF Leads
    <3>2. ASSUME NEW j \in DOMAIN rights, k = j + 1 PROVE members[k].pid \notin Reported(state)
      <4>1. rights[j].pid \in PidsOf(rights)
        BY DEF PidsOf
      <4> QED BY <1>1, <2>2, <3>2, <4>1 DEF Leads
    <3> QED BY <2>2, <3>1, <3>2 DEF Leads
  <2>5. NotLineage(members)
    <3>1. 1 + 1 \in DOMAIN members /\ 1 + 1 # 1 /\ members[1 + 1] = rights[1]
      BY <2>1, <2>2 DEF Leads
    <3>2. ~AreRelated(members[1], members[1 + 1])
      BY <1>1, <2>1, <2>2, <3>1 DEF Leads
    <3> QED BY <2>2, <3>1, <3>2, UnrelatedPair DEF Leads
  <2>6. Len(members) > 1
    <3>1. Len(rights) >= 1
      BY <1>1, <2>1
    <3> QED BY <2>1, <2>2, <3>1 DEF Leads
  <2>7. new = Report(state, fp, members, Max(scores))
    BY <1>3, <1>5
  <2>8. Sound(new) /\ ReportKeys(state.groups) \subseteq ReportKeys(new.groups)
    BY <1>2, <2>2, <2>3, <2>4, <2>5, <2>6, <2>7, ReportIsSound
  <2> QED BY <2>8 DEF new
<1> QED BY <1>4, <1>5

LEMMA NearBucketIsSound ==
  ASSUME HistoryTyped, NEW bucket \in Seq(Shots(procs)), OnePidEach(bucket), NEW state, Sound(state)
  PROVE  LET final == NearBucket(bucket, state) IN
         Sound(final) /\ ReportKeys(state.groups) \subseteq ReportKeys(final.groups)
<1> DEFINE final == NearBucket(bucket, state)
           size == Len(bucket)
<1>1. size \in Nat /\ \A n \in 1..size : n \in DOMAIN bucket
  OBVIOUS
<1>2. \E after : NearGroupRun(bucket, state, after) /\ final = after[size]
  <2>1. final = NearBucket(bucket, state) /\ Len(bucket) \in Nat
    OBVIOUS
  <2> HIDE DEF final
  <2> QED BY <2>1, NearGroupSteps
<1> HIDE DEF final
<1>3. PICK after : /\ after[0] = state
                   /\ \A n \in 1..size : after[n] = NearGroup(bucket, after[n - 1], n)
                   /\ final = after[size]
  BY <1>2 DEF NearGroupRun
<1> DEFINE Good == {n \in Nat : n <= size =>
                       Sound(after[n]) /\ ReportKeys(state.groups) \subseteq ReportKeys(after[n].groups)}
<1> HIDE DEF size
<1>4. 0 \in Good
  BY <1>3
<1>5. ASSUME NEW n \in Good PROVE n + 1 \in Good
  <2> SUFFICES ASSUME n + 1 <= size
               PROVE  /\ Sound(after[n + 1])
                      /\ ReportKeys(state.groups) \subseteq ReportKeys(after[n + 1].groups)
    OBVIOUS
  <2>1. n \in Nat
    OBVIOUS
  <2>2. n <= size /\ n + 1 \in 1..size /\ (n + 1) - 1 = n
    <3> HIDE DEF Good
    <3> QED BY <1>1, <2>1
  <2>3. Sound(after[n]) /\ ReportKeys(state.groups) \subseteq ReportKeys(after[n].groups)
    BY <2>2
  <2> DEFINE place == n + 1
             prior == after[n]
             later == after[n + 1]
  <2>4. place \in DOMAIN bucket /\ Sound(prior) /\ later = NearGroup(bucket, prior, place)
    BY <1>1, <1>3, <2>2, <2>3
  <2>5. Sound(later) /\ ReportKeys(prior.groups) \subseteq ReportKeys(later.groups)
    <3> HIDE DEF place, prior, later
    <3> QED BY <2>4, NearGroupIsSound
  <2> QED BY <2>3, <2>5
<1>6. Good \in SUBSET Nat
  OBVIOUS
<1> HIDE DEF Good
<1>7. size \in Good
  BY <1>1, <1>4, <1>5, <1>6, EveryNumber
<1>8. Sound(after[size]) /\ ReportKeys(state.groups) \subseteq ReportKeys(after[size].groups)
  BY <1>1, <1>7 DEF Good
<1> QED BY <1>3, <1>8 DEF final

LEMMA NearStageIsSound ==
  ASSUME HistoryTyped, NEW candidates \in Seq(Shots(procs)), OnePidEach(candidates), NEW state, Sound(state)
  PROVE  LET final == NearStage(candidates, state) IN
         Sound(final) /\ ReportKeys(state.groups) \subseteq ReportKeys(final.groups)
<1> DEFINE rest == Unseen(candidates, state.seen \cup Reported(state))
           keys == EntryPoints(rest)
           order == FirstSeen(keys)
           final == NearStage(candidates, state)
           last == Len(order)
<1>1. rest \in Seq(Shots(procs)) /\ OnePidEach(rest)
  BY UnseenAre
<1>2. /\ rest = Unseen(candidates, state.seen \cup Reported(state)) /\ keys = EntryPoints(rest)
      /\ order = FirstSeen(keys) /\ final = NearStage(candidates, state) /\ last = Len(order)
  OBVIOUS
<1> HIDE DEF rest, keys, order, final, last
<1>3. DOMAIN keys = DOMAIN rest /\ DOMAIN rest = 1..Len(rest) /\ Len(rest) \in Nat
  BY <1>1, <1>2, KeysOfLists
<1>4. last \in Nat /\ \A n \in 1..last : order[n] \in DOMAIN rest
  <2>1. Len(FirstSeen(keys)) \in Nat /\ \A n \in 1..Len(FirstSeen(keys)) : FirstSeen(keys)[n] \in DOMAIN rest
    BY <1>3, FirstSeenAre
  <2> QED BY <1>2, <2>1
<1>5. \E after : NearBucketRun(rest, keys, state, order, after) /\ final = after[Len(order)]
  BY <1>2, <1>4, NearBucketSteps
<1>6. PICK after : /\ after[0] = state
                   /\ \A n \in 1..last : after[n] = NearBucket(Bucket(rest, keys, order[n]), after[n - 1])
                   /\ final = after[last]
  BY <1>2, <1>5 DEF NearBucketRun
<1> DEFINE Good == {n \in Nat : n <= last =>
                       Sound(after[n]) /\ ReportKeys(state.groups) \subseteq ReportKeys(after[n].groups)}
<1>7. 0 \in Good
  BY <1>6
<1>8. ASSUME NEW n \in Good PROVE n + 1 \in Good
  <2> SUFFICES ASSUME n + 1 <= last
               PROVE  /\ Sound(after[n + 1])
                      /\ ReportKeys(state.groups) \subseteq ReportKeys(after[n + 1].groups)
    OBVIOUS
  <2>1. n \in Nat
    OBVIOUS
  <2>2. n <= last /\ n + 1 \in 1..last /\ (n + 1) - 1 = n
    <3> HIDE DEF Good
    <3> QED BY <1>4, <2>1
  <2>3. Sound(after[n]) /\ ReportKeys(state.groups) \subseteq ReportKeys(after[n].groups)
    BY <2>2
  <2> DEFINE bucket == Bucket(rest, keys, order[n + 1])
             prior == after[n]
             later == after[n + 1]
  <2>4. Sound(prior) /\ later = NearBucket(bucket, prior)
    BY <1>6, <2>2, <2>3
  <2>5. bucket \in Seq(Shots(procs)) /\ OnePidEach(bucket)
    BY <1>1, <1>3, <1>4, <2>2, BucketIs
  <2>6. Sound(later) /\ ReportKeys(prior.groups) \subseteq ReportKeys(later.groups)
    <3> HIDE DEF bucket, prior, later
    <3> QED BY <2>4, <2>5, NearBucketIsSound
  <2> QED BY <2>3, <2>6
<1>9. Good \in SUBSET Nat
  OBVIOUS
<1> HIDE DEF Good
<1>10. last \in Good
  BY <1>4, <1>7, <1>8, <1>9, EveryNumber
<1>11. Sound(after[last]) /\ ReportKeys(state.groups) \subseteq ReportKeys(after[last].groups)
  BY <1>4, <1>10 DEF Good
<1> QED BY <1>6, <1>11 DEF final

-----------------------------------------------------------------------------
(* detect                                                                  *)

\* What a pass finds, with the table, the suppression set and the reports as
\* they are.
DetectionSound(d) ==
    /\ d.groups \in Seq(FoundGroups) /\ d.suppressed \in Seq(Marks)
    /\ Apart(d.groups)
    /\ Threshold > 70 => \A i \in DOMAIN d.groups : NotLineage(d.groups[i].members)
    /\ Recorded(d.suppressed) \subseteq DOMAIN ReportedWith(d.groups)
    /\ Roomy(ReportedWith(d.groups)) => Window(d.suppressed, ReportedWith(d.groups)) /\ Spaced(d.groups)
    /\ \A i \in DOMAIN d.candidates :
          LET bucket == Bucket(d.candidates, Fingerprints(d.candidates), i)
          IN  Duplicates(bucket) =>
                 SuppressionKey(d.candidates[i].prog.fp, bucket) \in DOMAIN ReportedWith(d.groups)

LEMMA FreshIsSound ==
  ASSUME HistoryTyped, Recorded(suppressed) \subseteq DOMAIN reported,
         Roomy(reported) => Window(suppressed, reported),
         NEW fresh, fresh = [seen |-> {}, suppressed |-> suppressed, groups |-> << >>]
  PROVE  Sound(fresh) /\ Reported(fresh) = {} /\ fresh.seen = {}
<1>1. fresh.groups = << >> /\ fresh.suppressed = suppressed /\ fresh.seen = {} /\ DOMAIN << >> = {}
  OBVIOUS
<1>2. << >> \in Seq(FoundGroups)
  OBVIOUS
<1>3. fresh \in Findings
  BY <1>2 DEF Findings, HistoryTyped
<1>4. ReportKeys(fresh.groups) = {}
  BY <1>1 DEF ReportKeys
<1>5. ReportedWith(fresh.groups) = reported
  <2>1. ReportedWith(fresh.groups) = [k \in DOMAIN reported |-> reported[k]]
    BY <1>4 DEF ReportedWith
  <2>2. reported \in [DOMAIN reported -> 0..now]
    BY DEF HistoryTyped
  <2> QED BY <2>1, <2>2
<1>6. Apart(fresh.groups) /\ Spaced(fresh.groups)
  BY <1>1 DEF Apart, Spaced
<1>7. \A i \in DOMAIN fresh.groups : NotLineage(fresh.groups[i].members)
  BY <1>1
<1>8. Reported(fresh) = {}
  BY <1>1 DEF Reported
<1> HIDE DEF Window
<1> QED BY <1>1, <1>3, <1>4, <1>5, <1>6, <1>7, <1>8 DEF Sound

LEMMA CandidatesAre ==
  ASSUME NEW table, DOMAIN table \subseteq Pids
  PROVE  Detection(table).candidates \in Seq(Shots(table)) /\ OnePidEach(Detection(table).candidates)
<1> DEFINE snapshots == Snapshots(table)
           places == {i \in DOMAIN snapshots : /\ ~IsIntentionalWorker(snapshots[i], table)
                                               /\ ~snapshots[i].prog.allowlisted
                                               /\ snapshots[i].prog.fp \notin RestartLoops(snapshots).loops}
<1>1. snapshots \in Seq(Shots(table)) /\ OnePidEach(snapshots)
  BY SnapshotsAre
<1>2. Detection(table).candidates = Picked(snapshots, places)
  BY DEF Detection
<1>3. places \in SUBSET DOMAIN snapshots
  OBVIOUS
<1> HIDE DEF snapshots, places
<1> QED BY <1>1, <1>2, <1>3, PickedProcesses

LEMMA DetectionIsSound ==
  ASSUME HistoryTyped, Recorded(suppressed) \subseteq DOMAIN reported,
         Roomy(reported) => Window(suppressed, reported)
  PROVE  DetectionSound(Detection(procs))
<1> DEFINE d == Detection(procs)
           candidates == d.candidates
           keys == Fingerprints(candidates)
           fresh == [seen |-> {}, suppressed |-> suppressed, groups |-> << >>]
           exact == ExactStage(candidates, fresh)
           fuzzy == FuzzyStage(candidates, exact)
           final == NearStage(candidates, fuzzy)
<1>1. candidates \in Seq(Shots(procs)) /\ OnePidEach(candidates)
  BY CandidatesAre DEF HistoryTyped
<1>2. d.groups = final.groups /\ d.suppressed = final.suppressed
  BY DEF Detection
<1> HIDE DEF d
<1>3. Sound(fresh) /\ Reported(fresh) = {} /\ fresh.seen = {}
  BY FreshIsSound
<1> HIDE DEF fresh
<1>4. /\ Sound(exact) /\ Reported(exact) \subseteq exact.seen
      /\ \A i \in DOMAIN candidates : Duplicates(Bucket(candidates, keys, i)) =>
            OnRecord(exact, keys[i], Bucket(candidates, keys, i))
  <2>1. keys = Fingerprints(candidates)
    OBVIOUS
  <2> HIDE DEF candidates, keys
  <2> QED BY <1>1, <1>3, <2>1, ExactStageIsSound
<1>5. \A i \in DOMAIN candidates : keys[i] = candidates[i].prog.fp
  BY KeysOfLists
<1>6. keys = Fingerprints(candidates) /\ candidates = d.candidates
  OBVIOUS
<1> HIDE DEF candidates, keys, exact
<1>7. Sound(fuzzy) /\ ReportKeys(exact.groups) \subseteq ReportKeys(fuzzy.groups)
  BY <1>1, <1>4, FuzzyStageIsSound
<1> HIDE DEF fuzzy
<1>8. Sound(final) /\ ReportKeys(fuzzy.groups) \subseteq ReportKeys(final.groups)
  BY <1>1, <1>7, NearStageIsSound
<1> HIDE DEF final
<1>9. DOMAIN ReportedWith(final.groups) = DOMAIN reported \cup ReportKeys(final.groups)
  BY DEF ReportedWith
<1>10. ASSUME NEW i \in DOMAIN candidates, Duplicates(Bucket(candidates, keys, i))
       PROVE  SuppressionKey(candidates[i].prog.fp, Bucket(candidates, keys, i)) \in DOMAIN ReportedWith(final.groups)
  BY <1>4, <1>5, <1>7, <1>8, <1>9, <1>10 DEF OnRecord
<1>11. final.groups \in Seq(FoundGroups) /\ final.suppressed \in Seq(Marks)
  BY <1>8 DEF Sound, Findings
<1>12. DetectionSound(d)
  BY <1>2, <1>6, <1>8, <1>9, <1>10, <1>11 DEF DetectionSound, Sound
<1> QED BY <1>12 DEF d

-----------------------------------------------------------------------------
(* The detector over time                                                  *)

DetectorInv ==
    /\ HistoryTyped
    /\ result.groups \in Seq(FoundGroups)
    /\ Recorded(suppressed) \subseteq DOMAIN reported
    /\ Roomy(reported) => Window(suppressed, reported)
    /\ GroupsAreDisjoint
    /\ Threshold > 70 => LineageIsNotDuplicate
    /\ DuplicatesWereReported

LEMMA IdleFindsNothing ==
  ASSUME result = Idle
  PROVE  /\ result.groups \in Seq(FoundGroups) /\ GroupsAreDisjoint /\ LineageIsNotDuplicate
         /\ DuplicatesWereReported /\ Groups = {}
<1>1. result.groups = << >> /\ result.candidates = << >> /\ DOMAIN << >> = {} /\ << >> \in Seq(FoundGroups)
  BY DEF Idle
<1>2. Groups = {}
  BY <1>1 DEF Groups
<1> QED BY <1>1, <1>2 DEF GroupsAreDisjoint, LineageIsNotDuplicate, DuplicatesWereReported

LEMMA IdleFindsNothingNext ==
  ASSUME result' = Idle
  PROVE  /\ result'.groups \in Seq(FoundGroups') /\ GroupsAreDisjoint' /\ LineageIsNotDuplicate'
         /\ DuplicatesWereReported' /\ Groups' = {}
<1>1. result'.groups = << >> /\ result'.candidates = << >> /\ DOMAIN << >> = {} /\ << >> \in Seq(FoundGroups')
  BY DEF Idle
<1>2. Groups' = {}
  BY <1>1 DEF Groups
<1> QED BY <1>1, <1>2 DEF GroupsAreDisjoint, LineageIsNotDuplicate, DuplicatesWereReported

LEMMA DetectorInitInv == Init => DetectorInv
<1> SUFFICES ASSUME Init PROVE DetectorInv
  OBVIOUS
<1>1. DOMAIN << >> = {} /\ << >> \in Seq(Marks) /\ 0 \in 0..0
  OBVIOUS
<1>2. DOMAIN procs \subseteq Pids
      /\ \A p \in DOMAIN procs :
            procs[p] \in [prog : Programs \cup Daemons, start : 0..now, ppid : {InitPid} \cup Pids]
  <2>1. PidOrder[1] \in Pids
    <3>1. 1 \in DOMAIN PidOrder
      BY DetectorAssumption
    <3> QED BY <3>1 DEF Pids, ToSet
  <2>2. CASE procs = << >>
    BY <1>1, <2>2
  <2>3. ASSUME NEW d \in Daemons,
               procs = [p \in {PidOrder[1]} |-> [prog |-> d, start |-> 0, ppid |-> InitPid]]
        PROVE  DOMAIN procs \subseteq Pids
               /\ \A p \in DOMAIN procs :
                     procs[p] \in [prog : Programs \cup Daemons, start : 0..now, ppid : {InitPid} \cup Pids]
    <3>1. now = 0 /\ 0 \in 0..now
      BY DEF Init
    <3>2. DOMAIN procs = {PidOrder[1]} /\ procs[PidOrder[1]] = [prog |-> d, start |-> 0, ppid |-> InitPid]
      BY <2>3
    <3>3. [prog |-> d, start |-> 0, ppid |-> InitPid]
             \in [prog : Programs \cup Daemons, start : 0..now, ppid : {InitPid} \cup Pids]
      BY <3>1
    <3> QED BY <2>1, <3>2, <3>3
  <2> QED BY <2>2, <2>3 DEF Init
<1>3. now \in Nat /\ suppressed \in Seq(Marks)
  BY <1>1 DEF Init
<1>4. IsFiniteSet(DOMAIN reported) /\ reported \in [DOMAIN reported -> 0..now] /\ DOMAIN reported = {}
  <2>1. reported = << >> /\ DOMAIN reported = {}
    BY <1>1 DEF Init
  <2>2. << >> \in [{} -> 0..now]
    OBVIOUS
  <2> QED BY <2>1, <2>2, FS_EmptySet
<1>5. Recorded(suppressed) = {} /\ Window(suppressed, reported)
  BY <1>1, <1>4 DEF Init, Recorded, Window, Distinct
<1>6. result = Idle
  BY DEF Init
<1> QED BY <1>2, <1>3, <1>4, <1>5, <1>6, IdleFindsNothing DEF DetectorInv, HistoryTyped

LEMMA DetectKeeps ==
  ASSUME DetectorInv, Detect
  PROVE  DetectorInv' /\ (Roomy(reported)' => Spaced(result'.groups))
<1> DEFINE d == Detection(procs)
<1>1. /\ suppressed' = d.suppressed /\ result'.groups = d.groups /\ result'.candidates = d.candidates
      /\ reported' = ReportedWith(d.groups)
      /\ procs' = procs /\ now' = now
  BY DEF Detect, ReportedWith, ReportKeys
<1>2. DetectionSound(d)
  BY DetectionIsSound DEF DetectorInv
<1>3. d.candidates \in Seq(Shots(procs)) /\ OnePidEach(d.candidates)
  BY CandidatesAre DEF DetectorInv, HistoryTyped
<1> HIDE DEF d
<1>4. Marks' = Marks /\ FoundGroups' = FoundGroups
  BY <1>1 DEF Marks, FoundGroups, Shots, Shot
<1>5. HistoryTyped'
  <2>1. IsFiniteSet(DOMAIN reported') /\ reported' \in [DOMAIN reported' -> 0..now']
    <3>1. /\ IsFiniteSet(DOMAIN ReportedWith(d.groups))
          /\ \A k \in DOMAIN ReportedWith(d.groups) : ReportedWith(d.groups)[k] \in 0..now
      BY <1>2, ReportsAreFinite DEF DetectionSound, DetectorInv
    <3>2. ReportedWith(d.groups) \in [DOMAIN ReportedWith(d.groups) -> 0..now]
      <4> DEFINE known == DOMAIN reported \cup ReportKeys(d.groups)
      <4>1. ReportedWith(d.groups) = [k \in known |-> IF k \in ReportKeys(d.groups) THEN now ELSE reported[k]]
        BY DEF ReportedWith
      <4> HIDE DEF known
      <4> QED BY <3>1, <4>1
    <3> QED BY <1>1, <3>1, <3>2
  <2>2. suppressed' \in Seq(Marks')
    BY <1>1, <1>2, <1>4 DEF DetectionSound
  <2> QED BY <1>1, <2>1, <2>2 DEF HistoryTyped, DetectorInv
<1>6. result'.groups \in Seq(FoundGroups')
  BY <1>1, <1>2, <1>4 DEF DetectionSound
<1>7. Recorded(suppressed') \subseteq DOMAIN reported'
  BY <1>1, <1>2 DEF DetectionSound
<1>8. (Roomy(reported)' => Window(suppressed, reported)') /\ (Roomy(reported)' => Spaced(result'.groups))
  <2>1. Roomy(reported)' => Window(d.suppressed, ReportedWith(d.groups)) /\ Spaced(d.groups)
    <3>1. Roomy(reported)' = Roomy(ReportedWith(d.groups))
      BY <1>1 DEF Roomy
    <3> QED BY <1>2, <3>1 DEF DetectionSound
  <2>2. Window(suppressed, reported)' = Window(d.suppressed, ReportedWith(d.groups))
    BY <1>1 DEF Window
  <2> QED BY <1>1, <2>1, <2>2
<1>9. GroupsAreDisjoint'
  BY <1>1, <1>2 DEF DetectionSound, Apart, GroupsAreDisjoint
<1>10. Threshold > 70 => LineageIsNotDuplicate'
  BY <1>1, <1>2 DEF DetectionSound, NotLineage, LineageIsNotDuplicate, Groups
<1>11. DuplicatesWereReported'
  <2> DEFINE keys == Fingerprints(d.candidates)
  <2> SUFFICES ASSUME NEW i \in DOMAIN d.candidates, NEW j \in DOMAIN d.candidates, i # j,
                      d.candidates[i].prog.fp = d.candidates[j].prog.fp,
                      ~MixedContainers(Bucket(d.candidates, keys, i)),
                      ~ContainsParentChild(Bucket(d.candidates, keys, i))
               PROVE  SuppressionKey(d.candidates[i].prog.fp, Bucket(d.candidates, keys, i)) \in DOMAIN reported'
    BY <1>1 DEF DuplicatesWereReported
  <2>1. DOMAIN keys = DOMAIN d.candidates /\ keys[j] = keys[i]
    BY KeysOfLists
  <2>2. Len(Bucket(d.candidates, keys, i)) >= 2
    <3> HIDE DEF keys
    <3> QED BY <1>3, <2>1, BucketIs
  <2>3. Duplicates(Bucket(d.candidates, keys, i))
    BY <2>2 DEF Duplicates
  <2> QED BY <1>1, <1>2, <2>3 DEF DetectionSound
<1> QED BY <1>1, <1>5, <1>6, <1>7, <1>8, <1>9, <1>10, <1>11 DEF DetectorInv

LEMMA HostKeeps ==
  ASSUME DetectorInv,
         \/ \E pid \in Pids, prog \in Programs, ppid \in Pids \cup {InitPid} : Start(pid, prog, ppid)
         \/ \E pid \in Pids : Exit(pid)
  PROVE  DetectorInv' /\ Groups' = {}
<1> DEFINE Rows == [prog : Programs \cup Daemons, start : 0..now, ppid : {InitPid} \cup Pids]
<1>1. UNCHANGED << now, suppressed, reported >> /\ result' = Idle
  BY DEF Start, Exit
<1>2. DOMAIN procs \subseteq Pids /\ (\A p \in DOMAIN procs : procs[p] \in Rows) /\ now \in Nat
  BY DEF DetectorInv, HistoryTyped
<1>3. DOMAIN procs' \subseteq Pids /\ \A p \in DOMAIN procs' : procs'[p] \in Rows
  <2>1. ASSUME NEW pid \in Pids, NEW prog \in Programs, NEW ppid \in Pids \cup {InitPid}, Start(pid, prog, ppid)
        PROVE  DOMAIN procs' \subseteq Pids /\ \A p \in DOMAIN procs' : procs'[p] \in Rows
    <3>1. procs' = [p \in DOMAIN procs \cup {pid} |->
                      IF p = pid THEN [prog |-> prog, start |-> now, ppid |-> ppid] ELSE procs[p]]
      BY <2>1 DEF Start
    <3>2. [prog |-> prog, start |-> now, ppid |-> ppid] \in Rows
      BY <1>2
    <3> HIDE DEF Rows
    <3> QED BY <1>2, <3>1, <3>2
  <2>2. ASSUME NEW pid \in Pids, Exit(pid)
        PROVE  DOMAIN procs' \subseteq Pids /\ \A p \in DOMAIN procs' : procs'[p] \in Rows
    <3>1. procs' = [p \in DOMAIN procs \ {pid} |->
                      IF procs[p].ppid = pid THEN [procs[p] EXCEPT !.ppid = InitPid] ELSE procs[p]]
      BY <2>2 DEF Exit
    <3>2. \A row \in Rows : [row EXCEPT !.ppid = InitPid] \in Rows
      OBVIOUS
    <3> HIDE DEF Rows
    <3> QED BY <1>2, <3>1, <3>2
  <2> QED BY <2>1, <2>2
<1>4. HistoryTyped'
  BY <1>1, <1>3 DEF DetectorInv, HistoryTyped, Marks
<1>5. Recorded(suppressed)' \subseteq DOMAIN reported' /\ (Roomy(reported)' => Window(suppressed, reported)')
  BY <1>1 DEF DetectorInv, Window
<1> QED BY <1>1, <1>4, <1>5, IdleFindsNothingNext DEF DetectorInv

LEMMA PassKeeps ==
  ASSUME DetectorInv, Pass
  PROVE  DetectorInv' /\ Groups' = {}
<1>1. UNCHANGED << procs, suppressed, reported >> /\ result' = Idle /\ now' = now + 1
  BY DEF Pass
<1>2. now \in Nat /\ now' \in Nat /\ 0..now \subseteq 0..now'
  BY <1>1 DEF DetectorInv, HistoryTyped
<1>3. suppressed' \in Seq(Marks')
  <2>1. Marks \subseteq Marks'
    BY <1>2 DEF Marks
  <2>2. suppressed \in Seq(Marks)
    BY DEF DetectorInv, HistoryTyped
  <2> QED BY <1>1, <2>1, <2>2, WiderSeq
<1>4. HistoryTyped'
  <2>1. \A p \in DOMAIN procs' :
           procs'[p] \in [prog : Programs \cup Daemons, start : 0..now', ppid : {InitPid} \cup Pids]
    BY <1>1, <1>2 DEF DetectorInv, HistoryTyped
  <2>2. reported' \in [DOMAIN reported' -> 0..now'] /\ IsFiniteSet(DOMAIN reported')
    BY <1>1, <1>2 DEF DetectorInv, HistoryTyped
  <2> QED BY <1>1, <1>2, <1>3, <2>1, <2>2 DEF DetectorInv, HistoryTyped
<1>5. Roomy(reported)' => Window(suppressed, reported)'
  <2> SUFFICES ASSUME Roomy(reported) PROVE Window(suppressed, reported)'
    BY <1>1 DEF Roomy
  <2>1. Window(suppressed, reported)
    BY DEF DetectorInv
  <2>2. ASSUME NEW k \in DOMAIN reported, now' - reported[k] <= SuppressionTTL
        PROVE  k \in Recorded(suppressed)
    <3>1. reported[k] \in Int /\ now - reported[k] <= SuppressionTTL
      BY <1>1, <1>2, <2>2, DetectorAssumption DEF DetectorInv, HistoryTyped
    <3> QED BY <2>1, <3>1 DEF Window
  <2> QED BY <1>1, <2>1, <2>2 DEF Window
<1>6. Recorded(suppressed)' \subseteq DOMAIN reported'
  BY <1>1 DEF DetectorInv
<1> QED BY <1>1, <1>4, <1>5, <1>6, IdleFindsNothingNext DEF DetectorInv

LEMMA NothingKeeps ==
  ASSUME DetectorInv, UNCHANGED vars
  PROVE  DetectorInv'
<1>1. UNCHANGED << procs, now, suppressed, result, reported >>
  BY DEF vars
<1>2. Marks' = Marks /\ FoundGroups' = FoundGroups
  BY <1>1 DEF Marks, FoundGroups, Shots, Shot
<1>3. HistoryTyped' /\ result'.groups \in Seq(FoundGroups')
  BY <1>1, <1>2 DEF DetectorInv, HistoryTyped
<1>4. GroupsAreDisjoint' /\ DuplicatesWereReported' /\ (Threshold > 70 => LineageIsNotDuplicate')
  BY <1>1 DEF DetectorInv, GroupsAreDisjoint, DuplicatesWereReported, LineageIsNotDuplicate, Groups
<1>5. Recorded(suppressed)' \subseteq DOMAIN reported' /\ (Roomy(reported)' => Window(suppressed, reported)')
  BY <1>1 DEF DetectorInv, Window
<1> QED BY <1>3, <1>4, <1>5 DEF DetectorInv

LEMMA DetectorNextInv == DetectorInv /\ [Next]_vars => DetectorInv'
BY DetectKeeps, HostKeeps, PassKeeps, NothingKeeps DEF Next

\* The three stages never put a process into two groups of one cycle
\* (duplicate_detector.py: seen_pids, emitted_pids and consumed hand over
\* correctly), whatever runs on the host and whatever was suppressed before.
THEOREM GroupsNeverShare == Spec => []GroupsAreDisjoint
<1>1. DetectorInv => GroupsAreDisjoint
  BY DEF DetectorInv
<1> QED BY <1>1, DetectorInitInv, DetectorNextInv, PTL DEF Spec

\* Suppression hides only what was reported: two candidates of one fingerprint
\* that nothing sets apart are in a group on record.
THEOREM DuplicatesOnRecord == Spec => []DuplicatesWereReported
<1>1. DetectorInv => DuplicatesWereReported
  BY DEF DetectorInv
<1> QED BY <1>1, DetectorInitInv, DetectorNextInv, PTL DEF Spec

\* No lineage is reported as duplicates, as long as the confidence threshold
\* is above what a parent and its child can score (30 + 25 + 25 + 10 + 10 + 10
\* + 5 - 45, duplicate_detector.py: _pair_score); it is 75 by default.
THEOREM LineagesAreSpared ==
  ASSUME Threshold > 70
  PROVE  Spec => []LineageIsNotDuplicate
<1>1. DetectorInv => LineageIsNotDuplicate
  BY DEF DetectorInv
<1> QED BY <1>1, DetectorInitInv, DetectorNextInv, PTL DEF Spec

\* The suppression set has room for all that has been reported.
RoomForAll == Roomy(reported)

\* The same members are not reported again inside the suppression window, as
\* long as no entry of the suppression set is pushed out of it.
THEOREM ReportsAreSpaced == Spec /\ []RoomForAll => NoRepeatInsideWindow
<1> DEFINE Late == \A g \in Groups' : KeyOf(g) \in DOMAIN reported => now - reported[KeyOf(g)] > SuppressionTTL
<1>1. ASSUME DetectorInv, RoomForAll', [Next]_vars PROVE [Late]_vars
  <2>1. CASE Detect
    <3>1. Spaced(result'.groups)
      BY <1>1, <2>1, DetectKeeps DEF RoomForAll
    <3> QED BY <3>1 DEF Groups, Spaced
  <2>2. CASE \/ \E pid \in Pids, prog \in Programs, ppid \in Pids \cup {InitPid} : Start(pid, prog, ppid)
             \/ \E pid \in Pids : Exit(pid)
    BY <1>1, <2>2, HostKeeps
  <2>3. CASE Pass
    BY <1>1, <2>3, PassKeeps
  <2> QED BY <1>1, <2>1, <2>2, <2>3 DEF Next
<1> HIDE DEF Late
<1>2. DetectorInv /\ RoomForAll' /\ [Next]_vars => [Late]_vars
  BY <1>1
<1> QED BY <1>2, DetectorInitInv, DetectorNextInv, PTL DEF Spec, NoRepeatInsideWindow, Late

-----------------------------------------------------------------------------
(* Fingerprints: the scan goes along with the units of the command line.   *)

\* One list put behind another makes one flat list.
LEMMA FlatIs ==
  ASSUME NEW T, NEW s \in Seq(Seq(T)), Len(s) > 0
  PROVE  \E flat : /\ FlattenSeq(s) = flat[Len(s)]
                   /\ \A i \in 1..Len(s) : flat[i] = IF i = 1 THEN s[1] ELSE flat[i - 1] \o s[i]
<1> DEFINE last == Len(s)
           Runs(h, m) == h = [i \in 1..m |-> IF i = 1 THEN s[i] ELSE h[i - 1] \o s[i]]
           Good == {m \in Nat : \E h : Runs(h, m)}
<1>1. FlattenSeq(s) = (CHOOSE h : Runs(h, last))[last]
  BY DEF FlattenSeq
<1>2. last \in Nat
  OBVIOUS
<1> HIDE DEF last
<1>3. 0 \in Good
  <2>1. Runs([i \in {} |-> 0], 0)
    OBVIOUS
  <2> QED BY <2>1
<1>4. ASSUME NEW m \in Good PROVE m + 1 \in Good
  <2>1. PICK h : Runs(h, m)
    OBVIOUS
  <2> DEFINE new == IF m + 1 = 1 THEN s[m + 1] ELSE h[m] \o s[m + 1]
             g == [i \in 1..(m + 1) |-> IF i = m + 1 THEN new ELSE h[i]]
             r == [i \in 1..(m + 1) |-> IF i = 1 THEN s[i] ELSE g[i - 1] \o s[i]]
  <2>2. m \in Nat /\ \A i \in 1..m : i \in 1..(m + 1) /\ i # m + 1 /\ (i # 1 => i - 1 \in 1..m)
    OBVIOUS
  <2>3. \A i \in 1..m : h[i] = IF i = 1 THEN s[i] ELSE h[i - 1] \o s[i]
    BY <2>1
  <2>4. \A i \in 1..m : g[i] = h[i]
    BY <2>2
  <2>5. \A i \in 1..m : g[i] = r[i]
    <3> HIDE DEF new
    <3>1. ASSUME NEW i \in 1..m PROVE r[i] = IF i = 1 THEN s[i] ELSE g[i - 1] \o s[i]
      BY <2>2
    <3>2. ASSUME NEW i \in 1..m, i # 1 PROVE g[i - 1] = h[i - 1]
      BY <2>2, <2>4, <3>2
    <3> HIDE DEF g, r
    <3> QED BY <2>3, <2>4, <3>1, <3>2
  <2>6. m + 1 \in 1..(m + 1) /\ (m + 1) - 1 = m /\ (m + 1 # 1 => m \in 1..m)
    BY <2>2
  <2>7. g[m + 1] = r[m + 1]
    <3>1. g[m + 1] = new
      BY <2>6
    <3>2. r[m + 1] = IF m + 1 = 1 THEN s[m + 1] ELSE g[m] \o s[m + 1]
      BY <2>6
    <3> HIDE DEF g, r
    <3> QED BY <2>4, <2>6, <3>1, <3>2
  <2>8. \A i \in 1..(m + 1) : i \in 1..m \/ i = m + 1
    BY <2>2
  <2>9. \A i \in 1..(m + 1) : g[i] = r[i]
    <3> HIDE DEF g, r
    <3> QED BY <2>5, <2>7, <2>8
  <2>10. g = r
    <3> HIDE DEF new
    <3> QED BY <2>9
  <2>11. Runs(g, m + 1)
    BY <2>10
  <2> HIDE DEF g, r, Runs
  <2> QED BY <2>2, <2>11
<1>5. Good \in SUBSET Nat
  OBVIOUS
<1> HIDE DEF Good
<1>6. last \in Good
  <2>1. \A m \in Nat : m \in Good
    BY <1>3, <1>4, <1>5, EveryNumber
  <2> QED BY <1>2, <2>1
<1> DEFINE flat == CHOOSE h : Runs(h, last)
<1>7. Runs(flat, last)
  <2>1. \E h : Runs(h, last)
    BY <1>6 DEF Good
  <2> HIDE DEF Runs
  <2> QED BY <2>1
<1>8. \A i \in 1..last : flat[i] = IF i = 1 THEN s[1] ELSE flat[i - 1] \o s[i]
  <2> HIDE DEF flat
  <2> QED BY <1>7
<1> HIDE DEF flat
<1> QED BY <1>1, <1>8 DEF flat, last

LEMMA FlatAppended ==
  ASSUME NEW T, NEW s \in Seq(Seq(T)), NEW x \in Seq(T)
  PROVE  FlattenSeq(Append(s, x)) = FlattenSeq(s) \o x /\ FlattenSeq(s) \in Seq(T)
<1> DEFINE t == Append(s, x)
           n == Len(s)
<1>1. /\ t \in Seq(Seq(T)) /\ Len(t) = n + 1 /\ n \in Nat /\ t[n + 1] = x
      /\ \A i \in 1..n : t[i] = s[i] /\ s[i] \in Seq(T)
  OBVIOUS
<1>2. PICK g : /\ FlattenSeq(t) = g[n + 1]
               /\ \A i \in 1..(n + 1) : g[i] = IF i = 1 THEN t[1] ELSE g[i - 1] \o t[i]
  <2> HIDE DEF t, n
  <2>1. Len(t) > 0
    BY <1>1
  <2>2. \E g : /\ FlattenSeq(t) = g[Len(t)]
               /\ \A i \in 1..Len(t) : g[i] = IF i = 1 THEN t[1] ELSE g[i - 1] \o t[i]
    BY <1>1, <2>1, FlatIs
  <2> QED BY <1>1, <2>2
<1> HIDE DEF t
<1>3. CASE n = 0
  <2>1. s = << >> /\ FlattenSeq(s) = << >>
    BY <1>3 DEF FlattenSeq
  <2>2. g[1] = t[1] /\ t[1] = x /\ FlattenSeq(t) = g[1]
    <3>1. n + 1 = 1 /\ 1 \in 1..(n + 1)
      BY <1>3
    <3> HIDE DEF n
    <3> QED BY <1>1, <1>2, <3>1
  <2>3. << >> \o x = x /\ << >> \in Seq(T)
    OBVIOUS
  <2>4. FlattenSeq(t) = FlattenSeq(s) \o x /\ FlattenSeq(s) \in Seq(T)
    BY <2>1, <2>2, <2>3
  <2> QED BY <2>4 DEF t
<1>4. CASE n > 0
  <2>1. PICK h : /\ FlattenSeq(s) = h[n]
                 /\ \A i \in 1..n : h[i] = IF i = 1 THEN s[1] ELSE h[i - 1] \o s[i]
    BY <1>4, FlatIs DEF n
  <2> HIDE DEF n
  <2> DEFINE Same == {i \in Nat : i + 1 \in 1..n => g[i + 1] = h[i + 1] /\ h[i + 1] \in Seq(T)}
  <2>2. 0 \in Same
    <3>1. 1 \in 1..n /\ 1 \in 1..(n + 1) /\ 0 + 1 = 1
      BY <1>1, <1>4
    <3> QED BY <1>1, <1>2, <2>1, <3>1
  <2>3. ASSUME NEW i \in Same PROVE i + 1 \in Same
    <3> SUFFICES ASSUME i + 2 \in 1..n PROVE g[i + 2] = h[i + 2] /\ h[i + 2] \in Seq(T)
      OBVIOUS
    <3>1. i \in Nat /\ i + 1 \in 1..n /\ (i + 2) - 1 = i + 1 /\ i + 2 # 1 /\ i + 2 \in 1..(n + 1)
      BY <1>1
    <3>2. g[i + 1] = h[i + 1] /\ h[i + 1] \in Seq(T)
      BY <3>1
    <3>3. g[i + 2] = g[i + 1] \o t[i + 2] /\ h[i + 2] = h[i + 1] \o s[i + 2]
      BY <1>2, <2>1, <3>1
    <3>4. t[i + 2] = s[i + 2] /\ s[i + 2] \in Seq(T)
      BY <1>1
    <3> QED BY <3>2, <3>3, <3>4
  <2>4. Same \in SUBSET Nat
    OBVIOUS
  <2> HIDE DEF Same
  <2>5. n - 1 \in Nat /\ (n - 1) + 1 = n /\ n \in 1..n
    BY <1>1, <1>4
  <2>6. n - 1 \in Same
    BY <2>2, <2>3, <2>4, <2>5, EveryNumber
  <2>7. g[n] = h[n] /\ h[n] \in Seq(T)
    BY <2>5, <2>6 DEF Same
  <2>8. g[n + 1] = g[n] \o t[n + 1]
    <3>1. n + 1 \in 1..(n + 1) /\ n + 1 # 1 /\ (n + 1) - 1 = n
      BY <1>1, <1>4
    <3> QED BY <1>2, <3>1
  <2>9. FlattenSeq(t) = FlattenSeq(s) \o x /\ FlattenSeq(s) \in Seq(T)
    BY <1>1, <1>2, <2>1, <2>7, <2>8
  <2> QED BY <2>9 DEF t
<1> QED BY <1>1, <1>3, <1>4

\* The scan of a command line goes through these profiles.
ScanRun(tokens, after) ==
    /\ after[0] = NoProfile
    /\ \A i \in 1..Len(tokens) : after[i] = Fuzzily(after[i - 1], tokens[i], i = Len(tokens))

LEMMA ScanIs ==
  ASSUME NEW tokens, Len(tokens) \in Nat
  PROVE  \E after : ScanRun(tokens, after) /\ Scan(tokens) = after[Len(tokens)]
<1> DEFINE last == Len(tokens)
           Step(p, i) == Fuzzily(p, tokens[i], i = last)
           Runs(h, m) == h = [i \in 0..m |-> IF i = 0 THEN NoProfile ELSE Step(h[i - 1], i)]
           Good == {m \in Nat : \E h : Runs(h, m)}
<1>1. Scan(tokens) = (CHOOSE h : Runs(h, last))[last]
  BY DEF Scan
<1>0. last \in Nat
  OBVIOUS
<1> HIDE DEF Step, last
<1>2. 0 \in Good
  <2> DEFINE h == [i \in 0..0 |-> NoProfile]
  <2>1. \A i \in 0..0 : i = 0
    OBVIOUS
  <2>2. Runs(h, 0)
    BY <2>1
  <2> QED BY <2>2
<1>3. ASSUME NEW m \in Good PROVE m + 1 \in Good
  <2>1. PICK h : Runs(h, m)
    OBVIOUS
  <2> DEFINE g == [i \in 0..(m + 1) |-> IF i = m + 1 THEN Step(h[m], m + 1) ELSE h[i]]
             r == [i \in 0..(m + 1) |-> IF i = 0 THEN NoProfile ELSE Step(g[i - 1], i)]
  <2>2. m \in Nat /\ \A i \in 0..m : i \in 0..(m + 1) /\ i # m + 1 /\ (i # 0 => i - 1 \in 0..m)
    OBVIOUS
  <2>3. \A i \in 0..m : h[i] = IF i = 0 THEN NoProfile ELSE Step(h[i - 1], i)
    BY <2>1
  <2>4. \A i \in 0..m : g[i] = h[i]
    BY <2>2
  <2>5. \A i \in 0..m : g[i] = r[i]
    BY <2>2, <2>3, <2>4
  <2>6. m + 1 \in 0..(m + 1) /\ m + 1 # 0 /\ (m + 1) - 1 = m /\ m \in 0..m
    BY <2>2
  <2>7. g[m + 1] = r[m + 1]
    BY <2>4, <2>6
  <2>8. \A i \in 0..(m + 1) : i \in 0..m \/ i = m + 1
    BY <2>2
  <2>9. \A i \in 0..(m + 1) : g[i] = r[i]
    BY <2>5, <2>7, <2>8
  <2>10. g = r
    BY <2>9
  <2>11. Runs(g, m + 1)
    BY <2>10
  <2> HIDE DEF g, r, Runs
  <2> QED BY <2>2, <2>11
<1>4. Good \in SUBSET Nat
  OBVIOUS
<1> HIDE DEF Good
<1>5. last \in Good
  BY <1>0, <1>2, <1>3, <1>4, EveryNumber
<1> DEFINE after == CHOOSE h : Runs(h, last)
<1>6. Runs(after, last)
  BY <1>5 DEF Good
<1>7. \A i \in 0..last : after[i] = IF i = 0 THEN NoProfile ELSE Step(after[i - 1], i)
  <2> HIDE DEF after
  <2> QED BY <1>6
<1>8. 0 \in 0..last /\ \A i \in 1..last : i \in 0..last /\ i # 0
  BY <1>0
<1>9. after[0] = NoProfile /\ \A i \in 1..last : after[i] = Step(after[i - 1], i)
  <2> HIDE DEF after
  <2> QED BY <1>7, <1>8
<1> HIDE DEF after
<1> QED BY <1>1, <1>9 DEF after, last, Step, ScanRun

\* So far the scan has come to this profile, and there are tokens left.
ScanReaches(tokens, profile) ==
    \E after : /\ after[0] = NoProfile /\ profile = after[Len(tokens)]
               /\ \A i \in 1..Len(tokens) : after[i] = Fuzzily(after[i - 1], tokens[i], FALSE)

LEMMA ScanReachesNext ==
  ASSUME NEW T, NEW tokens \in Seq(T), NEW t \in T, NEW profile, ScanReaches(tokens, profile)
  PROVE  /\ ScanReaches(Append(tokens, t), Fuzzily(profile, t, FALSE))
         /\ Scan(Append(tokens, t)) = Fuzzily(profile, t, TRUE)
<1> DEFINE n == Len(tokens)
           more == Append(tokens, t)
<1>1. n \in Nat /\ Len(more) = n + 1 /\ more[n + 1] = t /\ \A i \in 1..n : more[i] = tokens[i]
  OBVIOUS
<1>2. PICK after : /\ after[0] = NoProfile /\ profile = after[n]
                   /\ \A i \in 1..n : after[i] = Fuzzily(after[i - 1], tokens[i], FALSE)
  BY DEF ScanReaches
<1>3. PICK full : ScanRun(more, full) /\ Scan(more) = full[n + 1]
  <2>1. \E full : ScanRun(more, full) /\ Scan(more) = full[Len(more)]
    <3>1. Len(more) \in Nat
      BY <1>1
    <3> HIDE DEF more
    <3> QED BY <3>1, ScanIs
  <2> QED BY <1>1, <2>1
<1> HIDE DEF n, more
<1>4. ScanReaches(more, Fuzzily(profile, t, FALSE))
  <2> DEFINE made == Fuzzily(profile, t, FALSE)
             new  == [i \in 0..(n + 1) |-> IF i = n + 1 THEN made ELSE after[i]]
  <2> HIDE DEF made
  <2>1. new[n + 1] = made /\ \A i \in 0..n : new[i] = after[i]
    <3>1. n + 1 \in 0..(n + 1) /\ \A i \in 0..n : i \in 0..(n + 1) /\ i # n + 1
      BY <1>1
    <3> QED BY <3>1, Zenon
  <2>2. 0 \in 0..n /\ n \in 0..n /\ n + 1 \in 1..(n + 1) /\ (n + 1) - 1 = n
    BY <1>1
  <2>3. \A i \in 1..n : i \in 0..n /\ i - 1 \in 0..n
    BY <1>1
  <2>4. \A i \in 1..(n + 1) : i \in 1..n \/ i = n + 1
    BY <1>1
  <2> HIDE DEF new
  <2>5. \A i \in 1..n : new[i] = Fuzzily(new[i - 1], more[i], FALSE)
    BY <1>1, <1>2, <2>1, <2>3
  <2>6. new[n + 1] = Fuzzily(new[(n + 1) - 1], more[n + 1], FALSE)
    <3>1. new[(n + 1) - 1] = profile
      BY <1>2, <2>1, <2>2
    <3> QED BY <1>1, <2>1, <3>1 DEF made
  <2>7. \A i \in 1..(n + 1) : new[i] = Fuzzily(new[i - 1], more[i], FALSE)
    BY <2>4, <2>5, <2>6
  <2>8. new[0] = NoProfile
    BY <1>2, <2>1, <2>2
  <2> QED BY <1>1, <2>1, <2>7, <2>8 DEF ScanReaches, made
<1>5. Scan(more) = Fuzzily(profile, t, TRUE)
  <2> DEFINE Same == {i \in Nat : i \in 0..n => full[i] = after[i]}
  <2>1. 0 \in Same
    BY <1>2, <1>3 DEF ScanRun
  <2>2. ASSUME NEW i \in Same PROVE i + 1 \in Same
    <3> SUFFICES ASSUME i + 1 \in 0..n PROVE full[i + 1] = after[i + 1]
      OBVIOUS
    <3>1. i \in 0..n /\ i + 1 \in 1..n /\ i + 1 \in 1..(n + 1) /\ (i + 1) - 1 = i /\ i + 1 # n + 1
      BY <1>1
    <3>2. full[i] = after[i]
      BY <3>1
    <3> HIDE DEF Same
    <3>3. full[i + 1] = Fuzzily(full[i], more[i + 1], FALSE)
      <4>1. full[i + 1] = Fuzzily(full[(i + 1) - 1], more[i + 1], i + 1 = n + 1)
        BY <1>1, <1>3, <3>1 DEF ScanRun
      <4>2. (i + 1 = n + 1) = FALSE
        BY <3>1
      <4> QED BY <3>1, <4>1, <4>2
    <3>4. after[i + 1] = Fuzzily(after[i], tokens[i + 1], FALSE)
      BY <1>2, <3>1
    <3> QED BY <1>1, <3>1, <3>2, <3>3, <3>4
  <2>3. Same \in SUBSET Nat
    OBVIOUS
  <2> HIDE DEF Same
  <2>4. full[n] = after[n]
    <3>1. n \in Same
      BY <1>1, <2>1, <2>2, <2>3, EveryNumber
    <3> QED BY <1>1, <3>1 DEF Same
  <2>5. n + 1 \in 1..(n + 1) /\ (n + 1) - 1 = n /\ (n + 1 = n + 1) = TRUE
    BY <1>1
  <2>6. full[n + 1] = Fuzzily(full[(n + 1) - 1], more[n + 1], n + 1 = n + 1)
    BY <1>1, <1>3, <2>5 DEF ScanRun
  <2> QED BY <1>1, <1>2, <1>3, <2>4, <2>5, <2>6
<1> QED BY <1>4, <1>5 DEF more

\* What a command line's scan has to come to, and how one more unit changes it.
Kept(line) ==
    [args |-> WordsOf(line), flags |-> FlagsOf(line), entry |-> FirstEntry(WordsOf(line)), skip |-> FALSE]

\* The same profile, but for what is passed over next.
SameBut(p, q) == p.args = q.args /\ p.flags = q.flags /\ p.entry = q.entry

AllTokens == [flag : Flags \cup {Nothing}, value : Values \cup {Nothing, "<dynamic>"}]

\* A unit, or a volatile flag that nothing follows.
Pieces == Units \cup {<< Token(f, Nothing) >> : f \in Volatile}

LEMMA PiecesAre ==
  ASSUME NEW unit \in Pieces
  PROVE  /\ unit \in Seq(AllTokens) /\ unit # << >>
         /\ Word(unit) \in Seq(Values) /\ Flag(unit) \in Seq(AllTokens)
<1>1. \A f \in Flags \cup {Nothing}, v \in Values \cup {Nothing, "<dynamic>"} :
         Token(f, v) \in AllTokens /\ Token(f, v).flag = f /\ Token(f, v).value = v
  BY DEF Token, AllTokens
<1>2. unit \in Seq(AllTokens) /\ Len(unit) \in 1..2 /\ unit[1] \in AllTokens
  <2>1. CASE \E t \in AllTokens : unit = << t >>
    BY <2>1
  <2>2. CASE \E t, u \in AllTokens : unit = << t, u >>
    BY <2>2
  <2> QED BY <1>1, <2>1, <2>2, FingerprintAssumption DEF Pieces, Units
<1>3. unit # << >>
  BY <1>2
<1>4. Word(unit) \in Seq(Values)
  <2>1. unit[1].flag = Nothing => unit[1].value \in Values
    <3>1. CASE \E v \in Values : unit = << Token(Nothing, v) >>
      BY <1>1, <3>1
    <3>2. CASE \E f \in Flags, v \in Values \cup {Nothing} : unit = << Token(f, v) >>
      BY <1>1, <3>2, FingerprintAssumption
    <3>3. CASE \E f \in Volatile, t \in AllTokens : unit = << Token(f, Nothing), t >>
      BY <1>1, <3>3, FingerprintAssumption
    <3> QED BY <1>1, <3>1, <3>2, <3>3, FingerprintAssumption DEF Pieces, Units
  <2>2. \A v \in Values : << v >> \in Seq(Values)
    OBVIOUS
  <2>3. << >> \in Seq(Values)
    OBVIOUS
  <2> QED BY <2>1, <2>2, <2>3 DEF Word
<1>5. Flag(unit) \in Seq(AllTokens)
  <2>1. unit[1].flag \in Flags \cup {Nothing}
    BY <1>2 DEF AllTokens
  <2>2. \A t \in AllTokens : << t >> \in Seq(AllTokens)
    OBVIOUS
  <2>3. << >> \in Seq(AllTokens)
    OBVIOUS
  <2> QED BY <1>1, <1>2, <2>1, <2>2, <2>3 DEF Flag
<1> QED BY <1>2, <1>3, <1>4, <1>5

LEMMA MappedAppend ==
  ASSUME NEW T, NEW line \in Seq(T), NEW unit \in T
  PROVE  /\ [i \in DOMAIN Append(line, unit) |-> Word(Append(line, unit)[i])]
            = Append([i \in DOMAIN line |-> Word(line[i])], Word(unit))
         /\ [i \in DOMAIN Append(line, unit) |-> Flag(Append(line, unit)[i])]
            = Append([i \in DOMAIN line |-> Flag(line[i])], Flag(unit))
<1> DEFINE more == Append(line, unit)
           n == Len(line)
           words == [i \in DOMAIN line |-> Word(line[i])]
           flags == [i \in DOMAIN line |-> Flag(line[i])]
<1>1. /\ n \in Nat /\ DOMAIN line = 1..n /\ DOMAIN more = 1..(n + 1)
      /\ more[n + 1] = unit /\ \A i \in 1..n : more[i] = line[i]
  OBVIOUS
<1>2. words \in Seq({Word(line[i]) : i \in 1..n}) /\ Len(words) = n
  BY <1>1
<1>3. flags \in Seq({Flag(line[i]) : i \in 1..n}) /\ Len(flags) = n
  BY <1>1
<1>4. Append(words, Word(unit)) = [i \in 1..(n + 1) |-> IF i = n + 1 THEN Word(unit) ELSE words[i]]
  BY <1>2
<1>5. Append(flags, Flag(unit)) = [i \in 1..(n + 1) |-> IF i = n + 1 THEN Flag(unit) ELSE flags[i]]
  BY <1>3
<1>6. \A i \in 1..(n + 1) : i = n + 1 \/ i \in 1..n
  BY <1>1
<1>7. \A i \in 1..n : words[i] = Word(line[i]) /\ flags[i] = Flag(line[i])
  BY <1>1
<1> HIDE DEF more, words, flags, n
<1>8. \A i \in 1..(n + 1) : Word(more[i]) = IF i = n + 1 THEN Word(unit) ELSE words[i]
  BY <1>1, <1>6, <1>7
<1>9. \A i \in 1..(n + 1) : Flag(more[i]) = IF i = n + 1 THEN Flag(unit) ELSE flags[i]
  BY <1>1, <1>6, <1>7
<1>10. [i \in DOMAIN more |-> Word(more[i])] = Append(words, Word(unit))
  BY <1>1, <1>4, <1>8
<1>11. [i \in DOMAIN more |-> Flag(more[i])] = Append(flags, Flag(unit))
  BY <1>1, <1>5, <1>9
<1> QED BY <1>10, <1>11 DEF more, words, flags

LEMMA OneMoreUnit ==
  ASSUME NEW line \in Seq(Units), NEW unit \in Pieces
  PROVE  /\ Tokens(line) \in Seq(AllTokens) /\ Tokens(Append(line, unit)) = Tokens(line) \o unit
         /\ WordsOf(line) \in Seq(Values) /\ WordsOf(Append(line, unit)) = WordsOf(line) \o Word(unit)
         /\ FlagsOf(line) \in Seq(AllTokens) /\ FlagsOf(Append(line, unit)) = FlagsOf(line) \o Flag(unit)
<1>1. line \in Seq(Pieces) /\ Units \subseteq Pieces
  <2>1. Units \subseteq Pieces
    BY DEF Pieces
  <2> QED BY <2>1, SeqMonotonic
<1>2. Pieces \subseteq Seq(AllTokens)
  BY PiecesAre
<1>3. line \in Seq(Seq(AllTokens))
  BY <1>1, <1>2, SeqMonotonic
<1>4. Tokens(line) \in Seq(AllTokens) /\ Tokens(Append(line, unit)) = Tokens(line) \o unit
  BY <1>2, <1>3, FlatAppended DEF Tokens
<1> DEFINE words == [i \in DOMAIN line |-> Word(line[i])]
           flags == [i \in DOMAIN line |-> Flag(line[i])]
<1>5. \A i \in DOMAIN line : line[i] \in Pieces
  BY <1>1
<1>6. DOMAIN line = 1..Len(line) /\ Len(line) \in Nat
  OBVIOUS
<1>7. words \in Seq(Seq(Values)) /\ Word(unit) \in Seq(Values)
  <2>1. words \in [1..Len(line) -> Seq(Values)]
    BY <1>5, <1>6, PiecesAre
  <2> HIDE DEF words
  <2>2. words \in Seq(Seq(Values))
    BY <1>6, <2>1
  <2>3. Word(unit) \in Seq(Values)
    BY PiecesAre
  <2> QED BY <2>2, <2>3
<1>8. flags \in Seq(Seq(AllTokens)) /\ Flag(unit) \in Seq(AllTokens)
  <2>1. flags \in [1..Len(line) -> Seq(AllTokens)]
    BY <1>5, <1>6, PiecesAre
  <2> HIDE DEF flags
  <2>2. flags \in Seq(Seq(AllTokens))
    BY <1>6, <2>1
  <2>3. Flag(unit) \in Seq(AllTokens)
    BY PiecesAre
  <2> QED BY <2>2, <2>3
<1>9. /\ WordsOf(line) = FlattenSeq(words)
      /\ WordsOf(Append(line, unit)) = FlattenSeq(Append(words, Word(unit)))
      /\ FlagsOf(line) = FlattenSeq(flags)
      /\ FlagsOf(Append(line, unit)) = FlattenSeq(Append(flags, Flag(unit)))
  <2>1. /\ [i \in DOMAIN Append(line, unit) |-> Word(Append(line, unit)[i])] = Append(words, Word(unit))
        /\ [i \in DOMAIN Append(line, unit) |-> Flag(Append(line, unit)[i])] = Append(flags, Flag(unit))
    BY <1>1, MappedAppend
  <2>2. /\ WordsOf(line) = FlattenSeq(words) /\ FlagsOf(line) = FlattenSeq(flags)
        /\ WordsOf(Append(line, unit))
              = FlattenSeq([i \in DOMAIN Append(line, unit) |-> Word(Append(line, unit)[i])])
        /\ FlagsOf(Append(line, unit))
              = FlattenSeq([i \in DOMAIN Append(line, unit) |-> Flag(Append(line, unit)[i])])
    BY DEF WordsOf, FlagsOf
  <2> HIDE DEF words, flags
  <2> QED BY <2>1, <2>2
<1> HIDE DEF words, flags
<1> QED BY <1>4, <1>7, <1>8, <1>9, FlatAppended

\* The script is the first word that looks like one.
LEMMA EntryOfMore ==
  ASSUME NEW words \in Seq(Values), NEW word \in Values
  PROVE  FirstEntry(Append(words, word)) =
            IF FirstEntry(words) = Nothing /\ word \in Entries THEN word ELSE FirstEntry(words)
<1> DEFINE n == Len(words)
           more == Append(words, word)
           Found(list) == {i \in DOMAIN list : list[i] \in Entries}
<1>1. /\ n \in Nat /\ DOMAIN words = 1..n /\ DOMAIN more = 1..(n + 1)
      /\ more[n + 1] = word /\ \A i \in 1..n : more[i] = words[i] /\ words[i] \in Values
  OBVIOUS
<1>2. Nothing \notin Values
  BY FingerprintAssumption DEF Values
<1>3. \A list : FirstEntry(list) = IF Found(list) = {} THEN Nothing ELSE list[Min(Found(list))]
  BY DEF FirstEntry
<1> HIDE DEF n, more
<1>4. CASE Found(words) = {}
  <2>1. Found(more) = IF word \in Entries THEN {n + 1} ELSE {}
    BY <1>1, <1>4
  <2>2. Min({n + 1}) = n + 1
    BY <1>1 DEF Min
  <2>3. FirstEntry(words) = Nothing
    BY <1>3, <1>4
  <2> HIDE DEF Found
  <2> QED BY <1>1, <1>3, <2>1, <2>2, <2>3 DEF more
<1>5. CASE Found(words) # {}
  <2>1. PICK m \in Found(words) : \A i \in Found(words) : m <= i
    <3>1. Found(words) \in SUBSET Nat
      BY <1>1
    <3> HIDE DEF Found
    <3> QED BY <1>5, <3>1, LeastExists
  <2>2. m \in 1..n /\ m \in Found(more) /\ \A i \in Found(more) : i \in Found(words) \/ i = n + 1
    BY <1>1, <2>1
  <2>3. \A i \in Found(more) : i \in Nat /\ m <= i
    BY <1>1, <2>1, <2>2
  <2>4. \A i \in Found(words) : i \in Nat
    BY <1>1
  <2> HIDE DEF Found
  <2>5. Min(Found(words)) = m /\ Min(Found(more)) = m
    <3>1. ASSUME NEW S \in SUBSET Nat, m \in S, \A i \in S : m <= i PROVE Min(S) = m
      <4>1. Min(S) \in S /\ \A i \in S : Min(S) <= i
        BY <3>1, Zenon DEF Min
      <4>2. Min(S) <= m /\ m <= Min(S) /\ Min(S) \in Nat /\ m \in Nat
        BY <3>1, <4>1
      <4> QED BY <4>2
    <3>2. Found(words) \in SUBSET Nat /\ Found(more) \in SUBSET Nat
      BY <2>3, <2>4
    <3> QED BY <2>1, <2>2, <2>3, <3>1, <3>2
  <2>6. FirstEntry(words) = words[m] /\ FirstEntry(more) = more[m]
    BY <1>3, <1>5, <2>2, <2>5
  <2>7. more[m] = words[m] /\ words[m] # Nothing
    BY <1>1, <1>2, <2>2
  <2> QED BY <2>6, <2>7 DEF more
<1> QED BY <1>4, <1>5

No == FALSE
Yes == TRUE
Filled(args, flags, entry, skip) == [args |-> args, flags |-> flags, entry |-> entry, skip |-> skip]

\* A profile after which a token is looked at, and one after which it is passed over.
Profile(args, flags, entry) == Filled(args, flags, entry, No)
Skipping(args, flags, entry) == Filled(args, flags, entry, Yes)

LEMMA FilledIs ==
  ASSUME NEW a, NEW b, NEW c, NEW d, NEW p, p = Filled(a, b, c, d), NEW x
  PROVE  /\ p.args = a /\ p.flags = b /\ p.entry = c /\ p.skip = d
         /\ [p EXCEPT !.args = x] = Filled(x, b, c, d)
         /\ [p EXCEPT !.flags = x] = Filled(a, x, c, d)
         /\ [p EXCEPT !.entry = x] = Filled(a, b, x, d)
         /\ [p EXCEPT !.skip = x] = Filled(a, b, c, x)
<1> DEFINE q == [p EXCEPT !.args = x]
           Fields == {"args", "flags", "entry", "skip"}
<1>1. DOMAIN p = Fields /\ p.args = a /\ p.flags = b /\ p.entry = c /\ p.skip = d
  BY DEF Filled
<1>2. q = Filled(x, b, c, d)
  <2>1. /\ q = [k \in Fields |-> q[k]]
        /\ q.args = x /\ q.flags = b /\ q.entry = c /\ q.skip = d
    BY <1>1
  <2> HIDE DEF q
  <2> QED BY <2>1 DEF Filled
<1>3. [p EXCEPT !.flags = x] = Filled(a, x, c, d)
  BY DEF Filled
<1>4. [p EXCEPT !.entry = x] = Filled(a, b, x, d)
  BY DEF Filled
<1>5. [p EXCEPT !.skip = x] = Filled(a, b, c, x)
  BY DEF Filled
<1> QED BY <1>1, <1>2, <1>3, <1>4, <1>5

LEMMA ProfileAfter ==
  ASSUME NEW a, NEW b, NEW c, NEW p, p = Profile(a, b, c)
  PROVE  /\ ~p.skip /\ [p EXCEPT !.skip = No] = p /\ [p EXCEPT !.skip = Yes] = Skipping(a, b, c)
         /\ \A f, v : AddFlag(p, f, v) = Profile(a, Append(b, Token(f, v)), c)
         /\ \A v : AddArg(p, v) = Profile(Append(a, v), b, IF c = Nothing /\ v \in Entries THEN v ELSE c)
<1>0. \A x : [p EXCEPT !.args = x] = Filled(x, b, c, No) /\ [p EXCEPT !.flags = x] = Filled(a, x, c, No)
  <2> SUFFICES ASSUME NEW x
               PROVE  [p EXCEPT !.args = x] = Filled(x, b, c, No) /\ [p EXCEPT !.flags = x] = Filled(a, x, c, No)
    OBVIOUS
  <2>1. p = Filled(a, b, c, No)
    BY DEF Profile
  <2> QED BY <2>1, FilledIs
<1>1. ASSUME NEW v
      PROVE  AddArg(p, v) = Profile(Append(a, v), b, IF c = Nothing /\ v \in Entries THEN v ELSE c)
  <2> DEFINE q == [p EXCEPT !.args = Append(@, v)]
             e == IF q.entry = Nothing /\ v \in Entries THEN v ELSE q.entry
  <2>1. q = Filled(Append(a, v), b, c, No)
    <3>1. p.args = a
      BY FilledIs DEF Profile
    <3> QED BY <1>0, <3>1
  <2>2. AddArg(p, v) = [q EXCEPT !.entry = e]
    BY Zenon DEF AddArg
  <2> HIDE DEF q
  <2>3. e = IF c = Nothing /\ v \in Entries THEN v ELSE c
    BY <2>1, FilledIs
  <2> HIDE DEF e
  <2>4. [q EXCEPT !.entry = e] = Filled(Append(a, v), b, e, No)
    BY <2>1, FilledIs
  <2> QED BY <2>2, <2>3, <2>4 DEF Profile
<1>2. ASSUME NEW f, NEW v PROVE AddFlag(p, f, v) = Profile(a, Append(b, Token(f, v)), c)
  <2>1. p.flags = b
    BY FilledIs DEF Profile
  <2> QED BY <1>0, <2>1 DEF AddFlag, Profile
<1>3. p.skip = No /\ [p EXCEPT !.skip = No] = p /\ [p EXCEPT !.skip = Yes] = Skipping(a, b, c)
  BY FilledIs DEF Profile, Skipping
<1>4. ~p.skip
  BY <1>3 DEF No
<1> QED BY <1>1, <1>2, <1>3, <1>4

LEMMA SkippingIs ==
  ASSUME NEW a, NEW b, NEW c, NEW p, p = Skipping(a, b, c)
  PROVE  p.skip /\ [p EXCEPT !.skip = No] = Profile(a, b, c)
<1>1. p.skip = Yes /\ [p EXCEPT !.skip = No] = Profile(a, b, c)
  BY FilledIs DEF Profile, Skipping
<1> QED BY <1>1 DEF Yes

\* What one token does to a profile.
LEMMA FuzzilyIs ==
  ASSUME NEW p, NEW t, NEW last \in BOOLEAN
  PROVE  /\ p.skip => Fuzzily(p, t, last) = [p EXCEPT !.skip = No]
         /\ ~p.skip /\ t.flag = Nothing =>
               Fuzzily(p, t, last) = IF t.value \in Dynamics THEN p ELSE AddArg(p, t.value)
         /\ ~p.skip /\ t.flag # Nothing /\ IsHarmless(t) => Fuzzily(p, t, last) = p
         /\ ~p.skip /\ t.flag # Nothing /\ ~IsHarmless(t) /\ t.flag \in Volatile =>
               /\ t.value = Nothing /\ ~last =>
                     Fuzzily(p, t, last) = [AddFlag(p, t.flag, Nothing) EXCEPT !.skip = Yes]
               /\ t.value # Nothing \/ last =>
                     Fuzzily(p, t, last) = [AddFlag(p, t.flag, Nothing) EXCEPT !.skip = No]
         /\ ~p.skip /\ t.flag # Nothing /\ ~IsHarmless(t) /\ t.flag \notin Volatile =>
               Fuzzily(p, t, last)
                  = AddFlag(p, t.flag, IF t.value \in Dynamics THEN "<dynamic>" ELSE t.value)
<1>1. p.skip => Fuzzily(p, t, last) = [p EXCEPT !.skip = No]
  BY DEF Fuzzily, No
<1>2. ~p.skip /\ t.flag = Nothing =>
         Fuzzily(p, t, last) = IF t.value \in Dynamics THEN p ELSE AddArg(p, t.value)
  BY DEF Fuzzily, IsDynamic
<1>3. ~p.skip /\ t.flag # Nothing /\ IsHarmless(t) => Fuzzily(p, t, last) = p
  BY DEF Fuzzily
<1>4. ~p.skip /\ t.flag # Nothing /\ ~IsHarmless(t) => Fuzzily(p, t, last) = FuzzyFlag(p, t, last)
  BY DEF Fuzzily
<1>5. t.flag \in Volatile =>
         FuzzyFlag(p, t, last) = [AddFlag(p, t.flag, Nothing) EXCEPT !.skip = t.value = Nothing /\ ~last]
  BY DEF FuzzyFlag
<1>6. t.value = Nothing /\ ~last => (t.value = Nothing /\ ~last) = TRUE
  OBVIOUS
<1>7. t.value # Nothing \/ last => (t.value = Nothing /\ ~last) = FALSE
  OBVIOUS
<1>8. t.flag \notin Volatile =>
         FuzzyFlag(p, t, last) = AddFlag(p, t.flag, IF t.value \in Dynamics THEN "<dynamic>" ELSE t.value)
  BY DEF FuzzyFlag, IsDynamic
<1> QED BY <1>1, <1>2, <1>3, <1>4, <1>5, <1>6, <1>7, <1>8 DEF Yes, No

LEMMA BareVolatile ==
  ASSUME NEW p, NEW t, ~p.skip, t.flag # Nothing, ~IsHarmless(t), t.flag \in Volatile, t.value = Nothing
  PROVE  /\ Fuzzily(p, t, FALSE) = [AddFlag(p, t.flag, Nothing) EXCEPT !.skip = Yes]
         /\ Fuzzily(p, t, TRUE) = [AddFlag(p, t.flag, Nothing) EXCEPT !.skip = No]
<1>1. Fuzzily(p, t, FALSE) = FuzzyFlag(p, t, FALSE) /\ Fuzzily(p, t, TRUE) = FuzzyFlag(p, t, TRUE)
  BY DEF Fuzzily
<1>2. /\ FuzzyFlag(p, t, FALSE) = [AddFlag(p, t.flag, Nothing) EXCEPT !.skip = t.value = Nothing /\ ~FALSE]
      /\ FuzzyFlag(p, t, TRUE) = [AddFlag(p, t.flag, Nothing) EXCEPT !.skip = t.value = Nothing /\ ~TRUE]
  BY DEF FuzzyFlag
<1>3. (t.value = Nothing /\ ~FALSE) = TRUE /\ (t.value = Nothing /\ ~TRUE) = FALSE
  OBVIOUS
<1> QED BY <1>1, <1>2, <1>3 DEF Yes, No

\* With one more unit the scan takes its word or its flag, and no more.
LEMMA UnitScanned ==
  ASSUME NEW line \in Seq(Units), ScanReaches(Tokens(line), Kept(line)), NEW unit \in Units
  PROVE  /\ ScanReaches(Tokens(Append(line, unit)), Kept(Append(line, unit)))
         /\ SameBut(Scan(Tokens(Append(line, unit))), Kept(Append(line, unit)))
<1> DEFINE tokens == Tokens(line)
           p == Kept(line)
           q == Kept(Append(line, unit))
<1>1. unit \in Pieces /\ unit \in Seq(AllTokens)
  BY PiecesAre DEF Pieces
<1>2. /\ tokens \in Seq(AllTokens) /\ Tokens(Append(line, unit)) = tokens \o unit
      /\ WordsOf(line) \in Seq(Values) /\ FlagsOf(line) \in Seq(AllTokens)
      /\ WordsOf(Append(line, unit)) = WordsOf(line) \o Word(unit)
      /\ FlagsOf(Append(line, unit)) = FlagsOf(line) \o Flag(unit)
  BY <1>1, OneMoreUnit
<1>3. /\ p = Profile(WordsOf(line), FlagsOf(line), FirstEntry(WordsOf(line)))
      /\ q = Profile(WordsOf(line) \o Word(unit), FlagsOf(line) \o Flag(unit),
                     FirstEntry(WordsOf(line) \o Word(unit)))
  BY <1>2 DEF Kept, Profile, Filled, No
<1>4. \A f \in Flags \cup {Nothing}, v \in Values \cup {Nothing} :
         Token(f, v) \in AllTokens /\ Token(f, v).flag = f /\ Token(f, v).value = v
  BY DEF Token, AllTokens
<1>5. \A t : \A s \in Seq(AllTokens) : s \o << t >> = Append(s, t) /\ s \o << >> = s
  OBVIOUS
<1>6. \A v : \A s \in Seq(Values) : s \o << v >> = Append(s, v) /\ s \o << >> = s
  OBVIOUS
<1>7. Nothing \notin Dynamics /\ Nothing \notin Flags /\ Volatile \subseteq Flags /\ Volatile \cap Harmless = {}
  BY FingerprintAssumption
<1>8. ScanReaches(tokens, p)
  OBVIOUS
<1> SUFFICES ScanReaches(tokens \o unit, q) /\ SameBut(Scan(tokens \o unit), q)
  BY <1>2
<1> HIDE DEF tokens, p, q
\* A unit of one token after which nothing is passed over.
<1>9. ASSUME NEW t \in AllTokens, unit = << t >>, \A last \in BOOLEAN : Fuzzily(p, t, last) = q
      PROVE  ScanReaches(tokens \o unit, q) /\ SameBut(Scan(tokens \o unit), q)
  <2>1. tokens \o unit = Append(tokens, t)
    BY <1>2, <1>5, <1>9
  <2>2. ScanReaches(Append(tokens, t), Fuzzily(p, t, FALSE)) /\ Scan(Append(tokens, t)) = Fuzzily(p, t, TRUE)
    BY <1>2, <1>8, ScanReachesNext
  <2> QED BY <1>9, <2>1, <2>2 DEF SameBut
<1>10. CASE \E v \in Values : unit = << Token(Nothing, v) >>
  <2>1. PICK v \in Values : unit = << Token(Nothing, v) >>
    BY <1>10
  <2> DEFINE t == Token(Nothing, v)
  <2>2. t \in AllTokens /\ t.flag = Nothing /\ t.value = v /\ unit = << t >> /\ unit[1] = t
    BY <1>4, <2>1
  <2> HIDE DEF t
  <2>3. ASSUME NEW last \in BOOLEAN PROVE Fuzzily(p, t, last) = q
    <3>1. Fuzzily(p, t, last) = IF v \in Dynamics THEN p ELSE AddArg(p, v)
      BY <1>3, <2>2, ProfileAfter, FuzzilyIs
    <3>2. Flag(unit) = << >> /\ Word(unit) = IF v \in Dynamics THEN << >> ELSE << v >>
      BY <2>2 DEF Flag, Word, IsDynamic
    <3>3. CASE v \in Dynamics
      BY <1>2, <1>3, <1>5, <1>6, <3>1, <3>2, <3>3
    <3>4. CASE v \notin Dynamics
      <4>1. FirstEntry(Append(WordsOf(line), v))
               = IF FirstEntry(WordsOf(line)) = Nothing /\ v \in Entries THEN v ELSE FirstEntry(WordsOf(line))
        BY <1>2, EntryOfMore
      <4>2. q = Profile(Append(WordsOf(line), v), FlagsOf(line),
                        FirstEntry(Append(WordsOf(line), v)))
        BY <1>2, <1>3, <1>5, <1>6, <3>2, <3>4
      <4>3. AddArg(p, v) = Profile(Append(WordsOf(line), v), FlagsOf(line),
                                   IF FirstEntry(WordsOf(line)) = Nothing /\ v \in Entries THEN v ELSE FirstEntry(WordsOf(line)))
        BY <1>3, ProfileAfter
      <4> QED BY <3>1, <3>4, <4>1, <4>2, <4>3
    <3> QED BY <3>3, <3>4
  <2> QED BY <1>9, <2>2, <2>3
<1>11. CASE \E f \in Flags, v \in Values \cup {Nothing} :
               unit = << Token(f, v) >> /\ (f \notin Volatile \/ v # Nothing)
  <2>1. PICK f \in Flags, v \in Values \cup {Nothing} :
               unit = << Token(f, v) >> /\ (f \notin Volatile \/ v # Nothing)
    BY <1>11
  <2> DEFINE t == Token(f, v)
  <2>2. t \in AllTokens /\ t.flag = f /\ t.value = v /\ unit = << t >> /\ unit[1] = t /\ f # Nothing
    BY <1>4, <1>7, <2>1
  <2>3. Word(unit) = << >>
    BY <2>2 DEF Word
  <2>4. Token(t.flag, Nothing) = Token(f, Nothing) /\ Token(f, v) = t
    BY <2>2
  <2> HIDE DEF t
  <2>5. ASSUME NEW last \in BOOLEAN PROVE Fuzzily(p, t, last) = q
    <3>1. ~p.skip
      BY <1>3, ProfileAfter
    <3>2. CASE IsHarmless(t)
      <4>1. Flag(unit) = << >> /\ Fuzzily(p, t, last) = p
        BY <2>2, <3>1, <3>2, FuzzilyIs DEF Flag
      <4> QED BY <1>2, <1>3, <1>5, <1>6, <2>3, <4>1
    <3>3. ASSUME NEW token, Flag(unit) = << token >>,
                 Fuzzily(p, t, last) = Profile(WordsOf(line), Append(FlagsOf(line), token),
                                               FirstEntry(WordsOf(line)))
          PROVE  Fuzzily(p, t, last) = q
      BY <1>2, <1>3, <1>5, <1>6, <2>3, <3>3
    <3>4. CASE ~IsHarmless(t) /\ f \in Volatile
      <4>1. Flag(unit) = << Token(f, Nothing) >>
        BY <2>2, <3>4 DEF Flag
      <4>2. Fuzzily(p, t, last) = [AddFlag(p, f, Nothing) EXCEPT !.skip = No]
        BY <2>1, <2>2, <3>1, <3>4, FuzzilyIs
      <4>3. AddFlag(p, f, Nothing) = Profile(WordsOf(line), Append(FlagsOf(line), Token(f, Nothing)),
                                             FirstEntry(WordsOf(line)))
        BY <1>3, ProfileAfter
      <4>4. [AddFlag(p, f, Nothing) EXCEPT !.skip = No] = AddFlag(p, f, Nothing)
        BY <4>3, ProfileAfter
      <4> QED BY <3>3, <4>1, <4>2, <4>3, <4>4
    <3>5. CASE ~IsHarmless(t) /\ f \notin Volatile /\ v \in Dynamics
      <4>1. Flag(unit) = << Token(f, "<dynamic>") >>
        BY <2>2, <3>5 DEF Flag, IsDynamic
      <4>2. Fuzzily(p, t, last) = AddFlag(p, f, "<dynamic>")
        BY <2>2, <3>1, <3>5, FuzzilyIs
      <4>3. AddFlag(p, f, "<dynamic>") = Profile(WordsOf(line), Append(FlagsOf(line), Token(f, "<dynamic>")),
                                                FirstEntry(WordsOf(line)))
        BY <1>3, ProfileAfter
      <4> QED BY <3>3, <4>1, <4>2, <4>3
    <3>6. CASE ~IsHarmless(t) /\ f \notin Volatile /\ v \notin Dynamics
      <4>1. Flag(unit) = << t >>
        BY <2>2, <3>6 DEF Flag, IsDynamic
      <4>2. Fuzzily(p, t, last) = AddFlag(p, f, v)
        BY <2>2, <3>1, <3>6, FuzzilyIs
      <4>3. AddFlag(p, f, v) = Profile(WordsOf(line), Append(FlagsOf(line), t), FirstEntry(WordsOf(line)))
        BY <1>3, <2>4, ProfileAfter
      <4> QED BY <3>3, <4>1, <4>2, <4>3
    <3> QED BY <3>2, <3>4, <3>5, <3>6
  <2> QED BY <1>9, <2>2, <2>5
<1>12. CASE \E f \in Volatile, u \in AllTokens : unit = << Token(f, Nothing), u >>
  <2>1. PICK f \in Volatile, u \in AllTokens : unit = << Token(f, Nothing), u >>
    BY <1>12
  <2> DEFINE t == Token(f, Nothing)
             between == Fuzzily(p, t, FALSE)
  <2>2. /\ t \in AllTokens /\ t.flag = f /\ t.value = Nothing /\ unit[1] = t /\ f # Nothing
        /\ ~IsHarmless(t) /\ tokens \o unit = Append(Append(tokens, t), u) /\ Append(tokens, t) \in Seq(AllTokens)
    BY <1>2, <1>4, <1>7, <2>1 DEF IsHarmless
  <2> HIDE DEF t
  <2>3. Word(unit) = << >> /\ Flag(unit) = << Token(f, Nothing) >>
    BY <2>2 DEF Word, Flag
  <2>4. between = [AddFlag(p, f, Nothing) EXCEPT !.skip = Yes]
    <3>1. ~p.skip
      BY <1>3, ProfileAfter
    <3> QED BY <2>1, <2>2, <3>1, BareVolatile
  <2>5. between.skip /\ [between EXCEPT !.skip = No] = q
    <3>1. AddFlag(p, f, Nothing) = Profile(WordsOf(line), Append(FlagsOf(line), Token(f, Nothing)),
                                           FirstEntry(WordsOf(line)))
      BY <1>3, ProfileAfter
    <3>2. between = Skipping(WordsOf(line), Append(FlagsOf(line), Token(f, Nothing)),
                            FirstEntry(WordsOf(line)))
      <4> DEFINE r == AddFlag(p, f, Nothing)
      <4>1. r = Profile(WordsOf(line), Append(FlagsOf(line), Token(f, Nothing)), FirstEntry(WordsOf(line)))
        BY <3>1
      <4>2. between = [r EXCEPT !.skip = Yes]
        BY <2>4
      <4> HIDE DEF r
      <4>3. [r EXCEPT !.skip = Yes] = Skipping(WordsOf(line), Append(FlagsOf(line), Token(f, Nothing)),
                                               FirstEntry(WordsOf(line)))
        BY <4>1, ProfileAfter
      <4> QED BY <4>2, <4>3
    <3> HIDE DEF between
    <3>3. [between EXCEPT !.skip = No] = Profile(WordsOf(line), Append(FlagsOf(line), Token(f, Nothing)),
                                                    FirstEntry(WordsOf(line)))
      BY <3>2, SkippingIs
    <3>4. q = Profile(WordsOf(line), Append(FlagsOf(line), Token(f, Nothing)),
                      FirstEntry(WordsOf(line)))
      BY <1>2, <1>3, <1>5, <1>6, <2>3
    <3> QED BY <3>2, <3>3, <3>4, SkippingIs
  <2> HIDE DEF between
  <2>6. \A last \in BOOLEAN : Fuzzily(between, u, last) = q
    BY <2>5, FuzzilyIs
  <2>7. ScanReaches(Append(tokens, t), between)
    BY <1>2, <1>8, <2>2, ScanReachesNext DEF between
  <2>8. /\ ScanReaches(Append(Append(tokens, t), u), Fuzzily(between, u, FALSE))
        /\ Scan(Append(Append(tokens, t), u)) = Fuzzily(between, u, TRUE)
    BY <2>2, <2>7, ScanReachesNext
  <2>9. ScanReaches(tokens \o unit, q) /\ SameBut(Scan(tokens \o unit), q)
    BY <2>2, <2>6, <2>8 DEF SameBut
  <2> QED BY <2>9
<1>13. \/ \E v \in Values : unit = << Token(Nothing, v) >>
       \/ \E f \in Flags, v \in Values \cup {Nothing} :
               unit = << Token(f, v) >> /\ (f \notin Volatile \/ v # Nothing)
       \/ \E f \in Volatile, u \in AllTokens : unit = << Token(f, Nothing), u >>
  <2>1. Nothing \notin Values
    BY FingerprintAssumption DEF Values
  <2> QED BY <1>4, <1>7, <2>1 DEF Units
<1> QED BY <1>10, <1>11, <1>12, <1>13

\* A volatile flag at the end of the line is all that is left to be scanned.
LEMMA FlagAtEndScanned ==
  ASSUME NEW line \in Seq(Units), ScanReaches(Tokens(line), Kept(line)), NEW f \in Volatile
  PROVE  LET more == Append(line, << Token(f, Nothing) >>) IN SameBut(Scan(Tokens(more)), Kept(more))
<1> DEFINE t == Token(f, Nothing)
           more == Append(line, << t >>)
           p == Kept(line)
<1>1. << t >> \in Pieces
  BY DEF Pieces
<1>2. /\ t \in AllTokens /\ t.flag = f /\ t.value = Nothing /\ f # Nothing /\ ~IsHarmless(t) /\ << t >>[1] = t
  BY FingerprintAssumption DEF Token, AllTokens, IsHarmless
<1> HIDE DEF t
<1>3. /\ Tokens(line) \in Seq(AllTokens) /\ Tokens(more) = Tokens(line) \o << t >>
      /\ WordsOf(line) \in Seq(Values) /\ FlagsOf(line) \in Seq(AllTokens)
      /\ WordsOf(more) = WordsOf(line) \o Word(<< t >>) /\ FlagsOf(more) = FlagsOf(line) \o Flag(<< t >>)
  BY <1>1, OneMoreUnit
<1>4. Word(<< t >>) = << >> /\ Flag(<< t >>) = << Token(f, Nothing) >>
  BY <1>2 DEF Word, Flag
<1>5. /\ WordsOf(more) = WordsOf(line) /\ FlagsOf(more) = Append(FlagsOf(line), Token(f, Nothing))
      /\ Tokens(more) = Append(Tokens(line), t)
  <2>1. \A u : \A s \in Seq(AllTokens) : s \o << u >> = Append(s, u)
    OBVIOUS
  <2>2. \A s \in Seq(Values) : s \o << >> = s
    OBVIOUS
  <2> HIDE DEF more
  <2> QED BY <1>3, <1>4, <2>1, <2>2
<1> HIDE DEF more, p
<1>6. Scan(Tokens(more)) = Fuzzily(p, t, TRUE)
  <2>1. ScanReaches(Tokens(line), p)
    BY DEF p
  <2>2. Scan(Append(Tokens(line), t)) = Fuzzily(p, t, TRUE)
    BY <1>2, <1>3, <2>1, ScanReachesNext
  <2> QED BY <1>5, <2>2
<1>7. p = Profile(WordsOf(line), FlagsOf(line), FirstEntry(WordsOf(line)))
  BY DEF p, Kept, Profile, Filled, No
<1>8. Fuzzily(p, t, TRUE) = [AddFlag(p, f, Nothing) EXCEPT !.skip = No]
  <2>1. ~p.skip
    BY <1>7, ProfileAfter
  <2> QED BY <1>2, <2>1, BareVolatile
<1>9. Fuzzily(p, t, TRUE) = Profile(WordsOf(more), FlagsOf(more), FirstEntry(WordsOf(more)))
  <2>1. AddFlag(p, f, Nothing) = Profile(WordsOf(more), FlagsOf(more),
                                         FirstEntry(WordsOf(more)))
    BY <1>5, <1>7, ProfileAfter
  <2> DEFINE r == AddFlag(p, f, Nothing)
  <2>2. [r EXCEPT !.skip = No] = r
    <3>1. r = Profile(WordsOf(more), FlagsOf(more), FirstEntry(WordsOf(more)))
      BY <2>1
    <3> HIDE DEF r
    <3> QED BY <3>1, ProfileAfter
  <2> QED BY <1>8, <2>1, <2>2
<1>10. SameBut(Scan(Tokens(more)), Kept(more))
  <2>1. Kept(more) = Profile(WordsOf(more), FlagsOf(more), FirstEntry(WordsOf(more)))
    BY DEF Kept, Profile, Filled, No
  <2> QED BY <1>6, <1>9, <2>1 DEF SameBut
<1> QED BY <1>10 DEF more, t

\* The scan stands where the units end, with nothing to be passed over, and
\* what it makes of the line is what is kept.
FingerprintInv ==
    /\ FingerprintTypeOK
    /\ ScanReaches(Tokens(commandLine), Kept(commandLine))
    /\ SameBut(Scan(Tokens(commandLine)), Kept(commandLine))

LEMMA FingerprintNextTyped ==
  FingerprintTypeOK /\ [FingerprintNext]_commandLine => FingerprintTypeOK'
<1> SUFFICES ASSUME FingerprintTypeOK, [FingerprintNext]_commandLine PROVE FingerprintTypeOK'
  OBVIOUS
<1>1. ASSUME NEW unit \in Units, Extend(unit) PROVE FingerprintTypeOK'
  <2>1. commandLine \in Seq(Units) /\ Len(commandLine) < MaxUnits /\ commandLine' = Append(commandLine, unit)
    BY <1>1 DEF Extend, FingerprintTypeOK
  <2>2. commandLine' \in Seq(Units) /\ Len(commandLine') = Len(commandLine) + 1 /\ Len(commandLine) \in Nat
    BY <2>1
  <2> QED BY <2>1, <2>2, FingerprintAssumption DEF FingerprintTypeOK
<1>2. CASE UNCHANGED commandLine
  BY <1>2 DEF FingerprintTypeOK
<1> QED BY <1>1, <1>2 DEF FingerprintNext

LEMMA FingerprintInitInv == FingerprintInit => FingerprintInv
<1> SUFFICES ASSUME FingerprintInit PROVE FingerprintInv
  OBVIOUS
<1>1. commandLine = << >> /\ << >> \in Seq(Units) /\ Len(<< >>) = 0
  BY DEF FingerprintInit
<1>2. DOMAIN << >> = {} /\ \A f, g : DOMAIN f = {} => [i \in {} |-> g] = << >>
  OBVIOUS
<1>3. FlattenSeq(<< >>) = << >>
  BY DEF FlattenSeq
<1>4. WordsOf(<< >>) = << >> /\ FlagsOf(<< >>) = << >> /\ Tokens(<< >>) = << >>
  BY <1>3 DEF WordsOf, FlagsOf, Tokens
<1>5. FirstEntry(<< >>) = Nothing
  BY DEF FirstEntry
<1>6. Kept(<< >>) = NoProfile
  BY <1>4, <1>5 DEF Kept, NoProfile
<1>7. ScanReaches(<< >>, NoProfile)
  <2> DEFINE after == [i \in {0} |-> NoProfile]
  <2>1. after[0] = NoProfile /\ Len(<< >>) = 0 /\ 1..0 = {}
    OBVIOUS
  <2> HIDE DEF after
  <2> QED BY <2>1 DEF ScanReaches
<1>8. Scan(<< >>) = NoProfile
  <2>1. Len(<< >>) = 0 /\ 0 \in Nat
    OBVIOUS
  <2>2. \E after : ScanRun(<< >>, after) /\ Scan(<< >>) = after[Len(<< >>)]
    BY <2>1, ScanIs
  <2> QED BY <2>1, <2>2 DEF ScanRun
<1> QED BY <1>1, <1>4, <1>6, <1>7, <1>8, FingerprintAssumption DEF FingerprintInv, FingerprintTypeOK, SameBut

LEMMA FingerprintNextInv == FingerprintInv /\ [FingerprintNext]_commandLine => FingerprintInv'
<1> SUFFICES ASSUME FingerprintInv, [FingerprintNext]_commandLine PROVE FingerprintInv'
  OBVIOUS
<1>1. FingerprintTypeOK'
  BY FingerprintNextTyped DEF FingerprintInv
<1>2. ASSUME NEW unit \in Units, Extend(unit) PROVE FingerprintInv'
  <2>1. commandLine' = Append(commandLine, unit) /\ commandLine \in Seq(Units)
    BY <1>2 DEF Extend, FingerprintInv, FingerprintTypeOK
  <2>2. /\ ScanReaches(Tokens(Append(commandLine, unit)), Kept(Append(commandLine, unit)))
        /\ SameBut(Scan(Tokens(Append(commandLine, unit))), Kept(Append(commandLine, unit)))
    BY <2>1, UnitScanned DEF FingerprintInv
  <2> QED BY <1>1, <2>1, <2>2 DEF FingerprintInv
<1>3. CASE UNCHANGED commandLine
  BY <1>1, <1>3 DEF FingerprintInv
<1> QED BY <1>2, <1>3 DEF FingerprintNext

LEMMA ShapeIsKept == FingerprintInv => FuzzyKeepsShapeOnly
<1> SUFFICES ASSUME FingerprintInv, NEW line \in Lines
             PROVE  Fuzzy(Tokens(line)) = [args |-> WordsOf(line), flags |-> ToBag(FlagsOf(line)),
                                           entry |-> FirstEntry(WordsOf(line))]
  BY DEF FuzzyKeepsShapeOnly
<1>1. SameBut(Scan(Tokens(line)), Kept(line))
  BY FlagAtEndScanned DEF FingerprintInv, FingerprintTypeOK, Lines
<1>2. /\ Kept(line).args = WordsOf(line) /\ Kept(line).flags = FlagsOf(line)
      /\ Kept(line).entry = FirstEntry(WordsOf(line))
  BY DEF Kept
<1> QED BY <1>1, <1>2 DEF SameBut, Fuzzy

\* For any flags, words and values, and command lines of any length: what the
\* fuzzy fingerprint keeps of a line is its words in order, its flags without
\* the values that vary, and the first word that looks like a script.
THEOREM ShapeOnly == FingerprintSpec => []FuzzyKeepsShapeOnly
<1> QED BY FingerprintInitInv, FingerprintNextInv, ShapeIsKept, PTL DEF FingerprintSpec

-----------------------------------------------------------------------------
(* The run's four parts together                                           *)

MCInv == DetectorInv /\ FingerprintTypeOK /\ SecurityInv /\ SuggestionInv

LEMMA DetectorTyped == DetectorInv => TypeOK
<1> SUFFICES ASSUME DetectorInv PROVE TypeOK
  OBVIOUS
<1>1. \A i \in DOMAIN suppressed : suppressed[i].at \in 0..now
  <2>1. \A i \in DOMAIN suppressed : suppressed[i] \in Marks
    BY ElementOf DEF DetectorInv, HistoryTyped
  <2> QED BY <2>1 DEF Marks
<1>2. \A g \in Groups : Len(g.members) > 1 /\ g.confidence \in (Threshold..99) \cup {99}
  <2>1. \A i \in DOMAIN result.groups : result.groups[i] \in FoundGroups
    BY ElementOf DEF DetectorInv
  <2>2. \A g \in FoundGroups : Len(g.members) > 1 /\ g.confidence \in Confidences
    BY DEF FoundGroups
  <2> QED BY <2>1, <2>2 DEF Groups, Confidences
<1> QED BY <1>1, <1>2 DEF TypeOK, DetectorInv, HistoryTyped

LEMMA MCInitInv == MCInit => MCInv
<1> SUFFICES ASSUME MCInit PROVE MCInv
  OBVIOUS
<1>1. FingerprintTypeOK
  <2>1. << >> \in Seq(Units) /\ Len(<< >>) = 0
    OBVIOUS
  <2> QED BY <2>1, FingerprintAssumption DEF MCInit, FingerprintInit, FingerprintTypeOK
<1> QED BY <1>1, DetectorInitInv, SecurityInitInv, SuggestionInitInv DEF MCInit, MCInv

LEMMA MCNextInv == MCInv /\ [MCNext]_<< vars, commandLine, securityVars, suggestionVars >> => MCInv'
<1> SUFFICES ASSUME MCInv, [MCNext]_<< vars, commandLine, securityVars, suggestionVars >> PROVE MCInv'
  OBVIOUS
<1>1. /\ [Next]_vars /\ [FingerprintNext]_commandLine /\ [SecurityNext]_securityVars
      /\ [SuggestionNext]_suggestionVars
  BY DEF MCNext
<1> QED BY <1>1, DetectorNextInv, FingerprintNextTyped, SecurityNextInv, SuggestionNextInv DEF MCInv

\* The detector, the command lines, the scores and the suggestions keep to
\* their types.
THEOREM DetectorTypeCorrect == MCSpec => []MCTypeOK
<1>1. MCInv => MCTypeOK
  BY DetectorTyped, SecurityTyped DEF MCInv, MCTypeOK, SuggestionInv
<1> QED BY <1>1, MCInitInv, MCNextInv, PTL DEF MCSpec
=============================================================================
