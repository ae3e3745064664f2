---------------------------- MODULE RestartTracker ----------------------------
(***************************************************************************)
(* The restart tracker as a state machine.  Every scan cycle shows it      *)
(* (fingerprint, start time) of each live process, so a start is observed  *)
(* any number of times, in any order, as long as its process lives.        *)
(***************************************************************************)
EXTENDS RuntimeState

CONSTANTS
    Fingerprints,      \* stable process fingerprints
    Window,            \* restart_loop_window_seconds, in ticks
    MaxFingerprints,   \* max_fingerprints (4096 in the code)
    LastStart          \* bound on start times, for model checking

ASSUME RestartTrackerAssumption ==
    /\ Fingerprints # {}
    /\ Window \in Nat
    /\ MaxFingerprints \in Nat
    /\ LastStart \in Nat

Times == 0..LastStart

VARIABLES
    starts,   \* _starts: the buckets, for the fingerprints that have one
    shown,    \* history: the starts observed since the tracker was last cleared
    last      \* the last observation and its count

trackerVars == << starts, shown, last >>

TrackerTypeOK ==
    /\ DOMAIN starts \subseteq Fingerprints
    /\ \A fp \in DOMAIN starts : starts[fp] \in Seq(Times)
    /\ shown \subseteq Fingerprints \X Times
    /\ last \in [fp : Fingerprints, start : Times, count : Nat]

TrackerInit ==
    /\ starts = << >>
    /\ shown = {}
    /\ last \in [fp : Fingerprints, start : {0}, count : {0}]

ObserveStart(fp, start) ==
    LET outcome == Observe(starts, fp, start, Window, MaxFingerprints)
        cleared == Cardinality(DOMAIN starts) > MaxFingerprints
    IN  /\ starts' = outcome.starts
        /\ shown' = (IF cleared THEN {} ELSE shown) \cup {<< fp, start >>}
        /\ last' = [fp |-> fp, start |-> start, count |-> outcome.count]

TrackerNext == \E fp \in Fingerprints, start \in Times : ObserveStart(fp, start)

TrackerSpec == TrackerInit /\ [][TrackerNext]_trackerVars

-----------------------------------------------------------------------------

Shown(fp, from, to) == {t \in Times : << fp, t >> \in shown /\ t >= from /\ t <= to}

Newest(fp, start) == \A t \in Times : << fp, t >> \in shown => t <= start

\* A real restart loop is not missed: when the observed start is the newest
\* one known of its fingerprint, every known start inside the window is
\* counted, in whatever order and however often the older ones were shown
\* (observe appends and trims only at the front).
LoopsAreCounted ==
    Newest(last.fp, last.start)
        => last.count >= Cardinality(Shown(last.fp, last.start - Window, last.start))

\* Clearing happens one insertion late, so the tracker holds at most one
\* fingerprint more than its limit; and no bucket counts a start twice.
Bounded ==
    /\ Cardinality(DOMAIN starts) <= MaxFingerprints + 1
    /\ \A fp \in DOMAIN starts : \A i, j \in DOMAIN starts[fp] :
          starts[fp][i] = starts[fp][j] => i = j
=============================================================================
