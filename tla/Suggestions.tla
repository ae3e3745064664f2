------------------------------ MODULE Suggestions ------------------------------
(***************************************************************************)
(* The suggestions of what to end (app/web/suggestions.py), for a process  *)
(* whose row changes from scan to scan.                                    *)
(***************************************************************************)
EXTENDS Integers, FiniteSets

CONSTANT IdleThreshold  \* 30 minutes, in ticks

ASSUME SuggestionAssumption == IdleThreshold \in Nat \ {0}

VARIABLES
    candidate,  \* of the process: what the suggestions look at
    suggested   \* 0, or the tier it is suggested in

suggestionVars == << candidate, suggested >>

\* Why a process is protected: its pid, its comm, its user, its project, or that
\* it has no command line.
Protections == {"pid", "comm", "user", "project", "no cmdline"}

\* Loads at the values they are compared with: 0 %, 0.5 %, more.
ProcessRows ==
    [protected : SUBSET Protections, zombie : BOOLEAN, orphan : BOOLEAN, own : BOOLEAN,
     cpu : 0..2, listening : BOOLEAN, outbound : 0..1, restarts : 0..1, suspicious : 0..1,
     age : 0..IdleThreshold]

\* A zombie has given its memory up, and the command line in it.
OfHost(p) == p.zombie => "no cmdline" \in p.protected

-----------------------------------------------------------------------------
(* build_suggestions                                                       *)

IsProtected(p) == p.protected # {}

\* A slip the code avoids: an orphan's ports are looked at once.
TierOrphanFallsThrough(p) ==
    IF IsProtected(p) THEN 0
    ELSE IF p.zombie \/ (p.orphan /\ ~p.listening) THEN 1
    ELSE IF p.own /\ p.cpu <= 1 /\ (p.listening => p.orphan) /\ p.outbound = 0
            /\ p.restarts = 0 /\ p.suspicious = 0 /\ p.age >= IdleThreshold THEN 2
    ELSE 0

\* Tier 1: what has ended, or has lost its parent and serves nobody.
\* Tier 2: one's own, idle in every respect, and old enough.
Tier(p) ==
    IF IsProtected(p) THEN 0
    ELSE IF p.zombie \/ (p.orphan /\ ~p.listening) THEN 1
    ELSE IF p.own /\ p.cpu <= 1 /\ ~p.listening /\ p.outbound = 0
            /\ p.restarts = 0 /\ p.suspicious = 0 /\ p.age >= IdleThreshold THEN 2
    ELSE 0

-----------------------------------------------------------------------------

SuggestionInit ==
    /\ candidate \in {p \in ProcessRows : OfHost(p) /\ p.age = 0 /\ p.cpu = 0 /\ ~p.zombie /\ ~p.listening
                                     /\ p.outbound = 0 /\ p.restarts = 0 /\ p.suspicious = 0}
    /\ suggested = Tier(candidate)

\* The process is up to more than it was.
Busier(p) ==
    {[p EXCEPT !.cpu = c] : c \in {c \in 0..2 : c > p.cpu}}
    \cup {[p EXCEPT !.listening = TRUE], [p EXCEPT !.outbound = 1],
          [p EXCEPT !.restarts = 1], [p EXCEPT !.suspicious = 1]}

\* ... or to less, or older, or has lost its parent, or has ended.
Calmer(p) ==
    {[p EXCEPT !.cpu = 0], [p EXCEPT !.listening = FALSE], [p EXCEPT !.outbound = 0],
     [p EXCEPT !.age = IF @ < IdleThreshold THEN @ + 1 ELSE @], [p EXCEPT !.orphan = TRUE],
     [p EXCEPT !.zombie = TRUE, !.protected = @ \cup {"no cmdline"}]}

GetsBusier == ~candidate.zombie /\ candidate' \in Busier(candidate) /\ suggested' = Tier(candidate')
GetsCalmer == ~candidate.zombie /\ candidate' \in Calmer(candidate) /\ suggested' = Tier(candidate')

SuggestionNext == GetsBusier \/ GetsCalmer

SuggestionSpec == SuggestionInit /\ [][SuggestionNext]_suggestionVars

-----------------------------------------------------------------------------

SuggestionTypeOK == candidate \in ProcessRows /\ OfHost(candidate) /\ suggested \in 0..2

\* What a process does more of never gets it suggested, or suggested more
\* strongly: an orphan that serves somebody does not come back as an idle
\* process, and nobody else's work is idle however quiet.
BusierIsNotSuggested ==
    [][~candidate.zombie /\ candidate' \in Busier(candidate) => suggested' \in {0, suggested}]_suggestionVars
=============================================================================
