------------------------- MODULE MCDuplicateDetector -------------------------
(***************************************************************************)
(* Small hosts for DuplicateDetector: what runs on them.  In the same run, *)
(* the fingerprints it compares, the scores that follow it in a scan cycle *)
(* and the suggestions made of them, each one on its own.                  *)
(***************************************************************************)
EXTENDS DuplicateDetector, Fingerprints, SecurityEngine, Suggestions

\* A web application started by hand.
App == [fp |-> "app", ffp |-> "app", exec |-> "python", cwd |-> "/srv", script |-> "app.py",
        args |-> "app.py", ports |-> {}, container |-> NoText, unit |-> NoText,
        worker |-> FALSE, initWorker |-> FALSE, clusterMaster |-> FALSE, allowlisted |-> FALSE]

\* The application on a given port: the fuzzy profile keeps the flag and
\* strips its value, so the fuzzy fingerprint does not depend on the port.
OnPort(n) == [App EXCEPT !.fp = n, !.ffp = "app --port", !.args = "app.py --port", !.ports = {n}]

\* The application with a flag that tells both fingerprints apart.
Debug == [App EXCEPT !.fp = "app --debug", !.ffp = "app --debug", !.args = "app.py --debug"]

\* A program in a container, and a supervisor that forks it.
In(prog, box) == [prog EXCEPT !.container = box]
Master == [App EXCEPT !.fp = "gunicorn", !.ffp = "gunicorn", !.exec = "gunicorn",
                      !.script = NoText, !.clusterMaster = TRUE, !.worker = TRUE]

OneApp   == {App}
Masters  == {Master}
Mixed    == {In(OnPort("8000"), "c1"), In(OnPort("8000"), "c2"), Debug}

\* A child may have a smaller or a larger pid than its parent.
MCPidOrder == << 3, 4, 2 >>

MCCwdSimilarity(a, b) == IF a = b THEN 100 ELSE 0

\* Ratios of SequenceMatcher for the argument texts above.
MCArgSimilarity(a, b) ==
    IF a = b THEN 100
    ELSE IF {a, b} = {"app.py --port", "app.py --debug"} THEN 67
    ELSE 63

-----------------------------------------------------------------------------

DetectorUnused == procs = << >> /\ started = 0 /\ now = 0

\* One of the processes the suggestions may start with.
Ordinary == CHOOSE p \in ProcessRows : /\ p.protected = {} /\ ~p.orphan /\ p.own /\ p.age = 0 /\ p.cpu = 0
                                       /\ ~p.zombie /\ ~p.listening /\ p.outbound = 0
                                       /\ p.restarts = 0 /\ p.suspicious = 0

SuggestionsUnused == candidate = Ordinary

MCInit == Init /\ FingerprintInit /\ SecurityInit /\ SuggestionInit

MCNext ==
    \/ /\ FingerprintInit /\ SecurityInit /\ SuggestionsUnused
       /\ Next /\ UNCHANGED << commandLine, securityVars, suggestionVars >>
    \/ /\ DetectorUnused /\ SecurityInit /\ SuggestionsUnused
       /\ FingerprintNext /\ UNCHANGED << vars, securityVars, suggestionVars >>
    \/ /\ DetectorUnused /\ FingerprintInit /\ SuggestionsUnused
       /\ SecurityNext /\ UNCHANGED << vars, commandLine, suggestionVars >>
    \/ /\ DetectorUnused /\ FingerprintInit /\ SecurityInit
       /\ SuggestionNext /\ UNCHANGED << vars, commandLine, securityVars >>

MCSpec == MCInit /\ [][MCNext]_<< vars, commandLine, securityVars, suggestionVars >>

MCTypeOK == TypeOK /\ FingerprintTypeOK /\ SecurityTypeOK /\ SuggestionTypeOK
=============================================================================
