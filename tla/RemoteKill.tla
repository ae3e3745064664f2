------------------------------ MODULE RemoteKill ------------------------------
(***************************************************************************)
(* Ending a process of another machine over SSH                            *)
(* (app/services/remote_ssh.py, app/web/routes/remote.py).  The handler    *)
(* sends a shell script and waits for the word it echoes; the processes    *)
(* of that machine, and the other scripts, go on between its commands, and *)
(* the connection may break while it runs.                                 *)
(***************************************************************************)
EXTENDS Integers, FiniteSets, Functions

CONSTANTS
    Callers,         \* requests under way at once
    RemotePids,
    Owners,
    Account,         \* the user the host is configured with
    MaxRemoteStarts, \* bound on the processes the machine starts
    MaxRemoteKills   \* bound on the requests

ASSUME RemoteAssumption == Account \in Owners /\ {MaxRemoteStarts, MaxRemoteKills} \subseteq Nat

VARIABLES
    remote,  \* the machine: pid -> [owner, id]
    spawned, \* processes it has spawned; the last one's id
    listed,  \* pids of the process table last shown
    calls,   \* request -> [pc, pid, target, hit, answer]
    asked

remoteVars == << remote, spawned, listed, calls, asked >>

\* "target" is the process that had the pid when TERM was tried, 0 for none;
\* "hit" is what the script's signals were delivered to.
NoCall == [pc |-> "idle", pid |-> 0, target |-> 0, hit |-> [TERM |-> 0, KILL |-> 0], answer |-> "none"]

RemoteInit ==
    /\ remote = << >> /\ spawned = 0
    /\ listed = {}
    /\ calls = [r \in Callers |-> NoCall]
    /\ asked = 0

-----------------------------------------------------------------------------
(* The machine                                                             *)

RemoteStart(pid, owner) ==
    /\ spawned < MaxRemoteStarts /\ pid \notin DOMAIN remote
    /\ spawned' = spawned + 1
    /\ remote' = [p \in DOMAIN remote \cup {pid} |->
                    IF p = pid THEN [owner |-> owner, id |-> spawned'] ELSE remote[p]]
    /\ UNCHANGED << listed, calls, asked >>

RemoteExit(pid) ==
    /\ pid \in DOMAIN remote
    /\ remote' = Restrict(remote, DOMAIN remote \ {pid})
    /\ UNCHANGED << spawned, listed, calls, asked >>

Exists(pid) == pid \in DOMAIN remote

\* kill: fails without a process and without permission alike.
MaySignal(pid) == Exists(pid) /\ remote[pid].owner = Account

-----------------------------------------------------------------------------
(* The script                                                              *)

At(r, pc) == calls[r].pc = pc
Advance(r, pc) == calls' = [calls EXCEPT ![r].pc = pc]
Echo(r, word) == calls' = [calls EXCEPT ![r].pc = "over", ![r].answer = IF @ = "none" THEN word ELSE @]
Elsewhere == UNCHANGED << remote, spawned, listed, asked >>

\* if ! kill -TERM pid
Term(r) ==
    LET pid == calls[r].pid
        target == IF Exists(pid) THEN remote[pid].id ELSE 0
    IN  /\ At(r, "term")
        /\ calls' = [calls EXCEPT ![r].target = target,
                                  ![r].pc = IF MaySignal(pid) THEN "sleep" ELSE "probe",
                                  ![r].hit.TERM = IF MaySignal(pid) THEN target ELSE 0]
        /\ Elsewhere

\* then if kill -0 pid: the probe asks the question TERM has answered.
Probe(r) ==
    /\ At(r, "probe")
    /\ Echo(r, IF MaySignal(calls[r].pid) THEN "denied" ELSE "gone")
    /\ Elsewhere

\* else sleep 2; if kill -0 pid
Check(r) ==
    /\ At(r, "sleep")
    /\ IF MaySignal(calls[r].pid) THEN Advance(r, "kill") ELSE Echo(r, "terminated")
    /\ Elsewhere

\* A slip the code avoids: KILLED is echoed whether or not the signal went out.
KillUnasked(r) ==
    LET pid == calls[r].pid
    IN  /\ At(r, "kill")
        /\ calls' = [calls EXCEPT ![r].pc = "over", ![r].answer = IF @ = "none" THEN "killed" ELSE @,
                                  ![r].hit.KILL = IF MaySignal(pid) THEN remote[pid].id ELSE 0]
        /\ Elsewhere

\* then kill -KILL pid && echo KILLED || echo DENIED
Kill(r) ==
    LET pid == calls[r].pid
    IN  /\ At(r, "kill")
        /\ \/ /\ MaySignal(pid)
              /\ calls' = [calls EXCEPT ![r].pc = "over", ![r].answer = IF @ = "none" THEN "killed" ELSE @,
                                        ![r].hit.KILL = remote[pid].id]
           \/ ~MaySignal(pid) /\ Echo(r, "denied")
        /\ Elsewhere

-----------------------------------------------------------------------------
(* The requests                                                            *)

\* list_processes: ps fails as a whole, and lines that cannot be parsed are
\* left out.
Fetched == SUBSET DOMAIN remote

\* remote_process_table
ListRemote ==
    /\ listed' \in Fetched
    /\ UNCHANGED << remote, spawned, calls, asked >>

\* remote_kill, of a row that is shown.  Without a connection there is no script.
AskKill(r, pid) ==
    /\ calls[r].pc \in {"idle", "over"} /\ asked < MaxRemoteKills
    /\ pid \in listed
    /\ asked' = asked + 1
    /\ calls' = [calls EXCEPT ![r] = [NoCall EXCEPT !.pc = "term", !.pid = pid]]
    /\ UNCHANGED << remote, spawned, listed >>

\* RemoteError: the caller is told, and the script may go on without it.
Disconnect(r) ==
    /\ calls[r].pc \notin {"idle", "over"} /\ calls[r].answer = "none"
    /\ \E pc \in {calls[r].pc, "over"} : calls' = [calls EXCEPT ![r].answer = "error", ![r].pc = pc]
    /\ Elsewhere

RemoteNext ==
    \/ \E pid \in RemotePids : RemoteExit(pid) \/ \E owner \in Owners : RemoteStart(pid, owner)
    \/ ListRemote
    \/ \E r \in Callers : \/ \E pid \in RemotePids : AskKill(r, pid)
                          \/ Term(r) \/ Probe(r) \/ Check(r) \/ Kill(r) \/ Disconnect(r)

RemoteSpec == RemoteInit /\ [][RemoteNext]_remoteVars

-----------------------------------------------------------------------------

Answers == {"none", "terminated", "killed", "gone", "denied", "error"}

RemoteTypeOK ==
    /\ DOMAIN remote \subseteq RemotePids
    /\ \A pid \in DOMAIN remote : remote[pid] \in [owner : Owners, id : 1..spawned]
    /\ spawned \in 0..MaxRemoteStarts /\ asked \in 0..MaxRemoteKills
    /\ listed \subseteq RemotePids
    /\ calls \in [Callers -> [pc : {"idle", "term", "probe", "sleep", "kill", "over"},
                              pid : RemotePids \cup {0}, target : 0..spawned,
                              hit : [TERM : 0..spawned, KILL : 0..spawned], answer : Answers]]

Running(id) == \E pid \in DOMAIN remote : remote[pid].id = id

\* Of what the script says: "terminated" is a process that took TERM and has
\* ended; "killed" took TERM, and KILL went to it, or to the one that has its
\* pid since it ended; "gone" is said of a request that signalled nothing, and
\* "denied" of one that killed nothing.  This is so although pids change hands
\* between the commands, other requests aim at the same process, and answers
\* are lost.
RemoteAnswersAreTrue ==
    \A r \in Callers : LET call == calls[r] IN
        /\ call.answer = "terminated" => call.hit.TERM # 0 /\ ~Running(call.hit.TERM) /\ call.hit.KILL = 0
        /\ call.answer = "killed" => /\ call.hit.TERM # 0 /\ call.hit.KILL # 0
                                     /\ Running(call.hit.TERM) => call.hit.KILL = call.hit.TERM
        /\ call.answer = "gone" => call.hit = NoCall.hit
        /\ call.answer = "denied" => call.hit.KILL = 0

\* "Process already gone" (the answer the handler gives to "gone"): the process
\* that had the pid has ended.
GoneIsGone ==
    \A r \in Callers : calls[r].answer = "gone" /\ calls[r].target # 0 => ~Running(calls[r].target)
=============================================================================
