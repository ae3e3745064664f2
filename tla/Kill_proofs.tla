------------------------------ MODULE Kill_proofs ------------------------------
(***************************************************************************)
(* Proofs about the ways to end a process, each for any processes,         *)
(* requests and bounds: on this machine (KillWorkflow), on another one     *)
(* (RemoteKill), and by application (Dashboard).                           *)
(***************************************************************************)
EXTENDS MCKillWorkflow, Finite_proofs

-----------------------------------------------------------------------------
(* KillWorkflow                                                            *)

SentIsSequence == \E S : sent \in Seq(S)

\* The signal sig went to the process born then, by that kind of request.
SentBefore(n, sig, born, kind) ==
    \E j \in 1..n : sent[j].sig = sig /\ sent[j].to = born /\ sent[j].by = kind

\* A handler that waits for a process, or is about to kill it, has sent it a
\* SIGTERM.  KillFollowsTerm alone is not inductive: it says nothing of what
\* the handlers are about to do.
WaitFollowsTerm ==
    \A h \in Handlers : job[h].pc \in {"wait", "kill"} =>
        SentBefore(Len(sent), "TERM", job[h].proc.born, job[h].kind)

JobShape ==
    /\ DOMAIN job = Handlers
    /\ \A h \in Handlers : {"pc", "kind", "proc"} \subseteq DOMAIN job[h]

KillIInv == JobShape /\ SentIsSequence /\ WaitFollowsTerm /\ KillFollowsTerm

-----------------------------------------------------------------------------

\* A handler takes a step; the others keep their places.
LEMMA SetKeepsShape ==
  ASSUME JobShape, NEW h \in Handlers, NEW j, Set(h, j),
         {"pc", "kind", "proc"} \subseteq DOMAIN j
  PROVE  JobShape' /\ job'[h] = j /\ \A g \in Handlers \ {h} : job'[g] = job[g]
BY DEF JobShape, Set

LEMMA IdleShape ==
  {"pc", "kind", "proc"} \subseteq DOMAIN Idle /\ Idle.pc = "idle"
BY DEF Idle

LEMMA AppendKeeps ==
  ASSUME SentIsSequence, NEW e, sent' = Append(sent, e)
  PROVE  /\ SentIsSequence'
         /\ Len(sent) \in Nat /\ Len(sent') = Len(sent) + 1
         /\ \A i \in 1..Len(sent) : sent'[i] = sent[i]
         /\ sent'[Len(sent) + 1] = e
<1>1. PICK S : sent \in Seq(S)
  BY DEF SentIsSequence
<1>2. sent \in Seq(S \cup {e}) /\ Len(sent) \in Nat
  BY <1>1
<1>3. sent' \in Seq(S \cup {e})
  BY <1>2
<1> QED BY <1>2, <1>3 DEF SentIsSequence

\* Signals that leave the other handlers alone: SIGTERM, or SIGKILL to a
\* process that was sent a SIGTERM.
LEMMA KillSignalInv ==
  ASSUME KillIInv, NEW h \in Handlers, NEW e, sent' = Append(sent, e),
         JobShape',
         e.sig = "KILL" => SentBefore(Len(sent), "TERM", e.to, e.by),
         \A g \in Handlers \ {h} : job'[g] = job[g],
         job'[h].pc \in {"wait", "kill"} =>
            e.sig = "TERM" /\ e.to = job'[h].proc.born /\ e.by = job'[h].kind
  PROVE  KillIInv'
<1>1. /\ SentIsSequence'
      /\ Len(sent) \in Nat /\ Len(sent') = Len(sent) + 1
      /\ \A i \in 1..Len(sent) : sent'[i] = sent[i]
      /\ sent'[Len(sent) + 1] = e
  BY AppendKeeps DEF KillIInv
<1>2. DOMAIN sent = 1..Len(sent) /\ DOMAIN sent' = 1..(Len(sent) + 1)
  BY <1>1 DEF KillIInv, SentIsSequence
<1>3. WaitFollowsTerm'
  <2> SUFFICES ASSUME NEW g \in Handlers, job'[g].pc \in {"wait", "kill"}
               PROVE  \E j \in 1..Len(sent') : /\ sent'[j].sig = "TERM"
                                              /\ sent'[j].to = job'[g].proc.born
                                              /\ sent'[j].by = job'[g].kind
    BY DEF WaitFollowsTerm, SentBefore
  <2>1. CASE g = h
    <3>1. Len(sent) + 1 \in 1..Len(sent')
      BY <1>1
    <3> QED BY <1>1, <2>1, <3>1
  <2>2. CASE g # h
    <3>1. job'[g] = job[g]
      BY <2>2
    <3>2. PICK j \in 1..Len(sent) : /\ sent[j].sig = "TERM"
                                    /\ sent[j].to = job[g].proc.born
                                    /\ sent[j].by = job[g].kind
      BY <3>1 DEF KillIInv, WaitFollowsTerm, SentBefore
    <3>3. j \in 1..Len(sent') /\ sent'[j] = sent[j]
      BY <1>1
    <3> QED BY <3>1, <3>2, <3>3
  <2> QED BY <2>1, <2>2
<1>4. KillFollowsTerm'
  <2> SUFFICES ASSUME NEW i \in 1..(Len(sent) + 1), sent'[i].sig = "KILL"
               PROVE  \E j \in 1..(i - 1) : /\ sent'[j].sig = "TERM"
                                           /\ sent'[j].to = sent'[i].to
                                           /\ sent'[j].by = sent'[i].by
    BY <1>2 DEF KillFollowsTerm
  <2>1. CASE i = Len(sent) + 1
    <3>1. PICK j \in 1..Len(sent) : sent[j].sig = "TERM" /\ sent[j].to = e.to /\ sent[j].by = e.by
      BY <1>1, <2>1 DEF SentBefore
    <3>2. j \in 1..(i - 1) /\ sent'[j] = sent[j] /\ sent'[i] = e
      BY <1>1, <2>1, <3>1
    <3> QED BY <3>1, <3>2
  <2>2. CASE i # Len(sent) + 1
    <3>1. i \in 1..Len(sent) /\ sent'[i] = sent[i]
      BY <1>1, <2>2
    <3>2. PICK j \in 1..(i - 1) : /\ sent[j].sig = "TERM"
                                  /\ sent[j].to = sent[i].to
                                  /\ sent[j].by = sent[i].by
      BY <1>2, <3>1 DEF KillIInv, KillFollowsTerm
    <3>3. sent'[j] = sent[j]
      BY <1>1, <3>1
    <3> QED BY <3>1, <3>2, <3>3
  <2> QED BY <2>1, <2>2
<1> QED BY <1>1, <1>3, <1>4 DEF KillIInv

\* A step without a signal in which no handler begins to wait.
LEMMA SilentInv ==
  ASSUME KillIInv, sent' = sent, JobShape',
         \A h \in Handlers : job'[h].pc \in {"wait", "kill"} =>
            /\ job[h].pc \in {"wait", "kill"}
            /\ job'[h].proc = job[h].proc /\ job'[h].kind = job[h].kind
  PROVE  KillIInv'
BY DEF KillIInv, SentIsSequence, WaitFollowsTerm, SentBefore, KillFollowsTerm

-----------------------------------------------------------------------------
(* One lemma for each kind of step                                         *)

LEMMA KillInitInv == Init => KillIInv
<1> SUFFICES ASSUME Init PROVE KillIInv
  OBVIOUS
<1>1. sent = << >> /\ sent \in Seq({}) /\ DOMAIN sent = {}
  BY DEF Init
<1>2. JobShape /\ \A h \in Handlers : job[h].pc = "idle"
  BY IdleShape DEF Init, JobShape
<1> QED BY <1>1, <1>2 DEF KillIInv, SentIsSequence, WaitFollowsTerm, KillFollowsTerm

\* Steps of the host and the scanner.
LEMMA KillHostInv ==
  ASSUME KillIInv, UNCHANGED << sent, job >>
  PROVE  KillIInv'
BY DEF KillIInv, JobShape, SentIsSequence, WaitFollowsTerm, SentBefore, KillFollowsTerm

\* A handler is given a record that neither waits nor kills, and signals nobody.
LEMMA KillQuietInv ==
  ASSUME KillIInv, sent' = sent, NEW h \in Handlers, NEW j, Set(h, j),
         {"pc", "kind", "proc"} \subseteq DOMAIN j,
         j.pc \in {"wait", "kill"} =>
            job[h].pc = "wait" /\ j.proc = job[h].proc /\ j.kind = job[h].kind
  PROVE  KillIInv'
<1>1. JobShape' /\ job'[h] = j /\ \A g \in Handlers \ {h} : job'[g] = job[g]
  BY SetKeepsShape DEF KillIInv
<1> QED BY <1>1, SilentInv

\* A handler is given a record after it has signalled a process.
LEMMA LoudInv ==
  ASSUME KillIInv, NEW h \in Handlers, NEW e, sent' = Append(sent, e), NEW j, Set(h, j),
         {"pc", "kind", "proc"} \subseteq DOMAIN j,
         e.sig = "KILL" => SentBefore(Len(sent), "TERM", e.to, e.by),
         j.pc \in {"wait", "kill"} => e.sig = "TERM" /\ e.to = j.proc.born /\ e.by = j.kind
  PROVE  KillIInv'
<1>1. JobShape' /\ job'[h] = j /\ \A g \in Handlers \ {h} : job'[g] = job[g]
  BY SetKeepsShape DEF KillIInv
<1> QED BY <1>1, KillSignalInv

LEMMA KillAskInv ==
  ASSUME KillIInv, NEW h \in Handlers, Ask(h)
  PROVE  KillIInv'
<1>1. ASSUME NEW j, Request(h, j), {"pc", "kind", "proc"} \subseteq DOMAIN j,
             j.pc \notin {"wait", "kill"}
      PROVE  KillIInv'
  BY <1>1, KillQuietInv DEF Request
<1>2. ASSUME NEW g \in DOMAIN groups, BeginExtras(h, g) PROVE KillIInv'
  <2> DEFINE j == [Idle EXCEPT !.kind = "extras", !.pc = "read", !.group = g,
                               !.todo = InOrder(groups[g].pids)]
  <2>1. Request(h, j)
    BY <1>2 DEF BeginExtras
  <2>2. {"pc", "kind", "proc"} \subseteq DOMAIN j /\ j.pc = "read"
    BY IdleShape
  <2> HIDE DEF j
  <2> QED BY <1>1, <2>1, <2>2
<1>3. ASSUME NEW pid \in Pids, BeginSingle(h, pid) PROVE KillIInv'
  <2> DEFINE j == [Idle EXCEPT !.kind = "single", !.pc = "open",
                               !.members = << [pid |-> pid, born |-> BornOf(pid)] >>]
  <2>1. Request(h, j)
    BY <1>3 DEF BeginSingle
  <2>2. {"pc", "kind", "proc"} \subseteq DOMAIN j /\ j.pc = "open"
    BY IdleShape
  <2> HIDE DEF j
  <2> QED BY <1>1, <2>1, <2>2
<1>4. ASSUME NEW prog \in Programs, BeginApp(h, prog) PROVE KillIInv'
  <2> DEFINE order == InOrder({p \in DOMAIN rows : rows[p].prog = prog})
             members == [i \in DOMAIN order |-> [pid |-> order[i], born |-> rows[order[i]].born]]
             j == [Idle EXCEPT !.kind = "app", !.pc = "open", !.members = members]
  <2>1. Request(h, j)
    BY <1>4 DEF BeginApp
  <2> HIDE DEF members
  <2>2. {"pc", "kind", "proc"} \subseteq DOMAIN j /\ j.pc = "open"
    BY IdleShape
  <2> HIDE DEF j
  <2> QED BY <1>1, <2>1, <2>2
<1> QED BY <1>2, <1>3, <1>4 DEF Ask

\* What a handler's record is after it moves on to its next target.
LEMMA ProceedShape ==
  ASSUME JobShape, NEW h \in Handlers
  PROVE  LET j == [job[h] EXCEPT !.pc = "open", !.members = Tail(@)]
         IN  {"pc", "kind", "proc"} \subseteq DOMAIN j /\ j.pc = "open"
BY DEF JobShape

LEMMA ProceedInv ==
  ASSUME KillIInv, NEW h \in Handlers, Proceed(h), sent' = sent
  PROVE  KillIInv'
<1> DEFINE j == [job[h] EXCEPT !.pc = "open", !.members = Tail(@)]
<1>1. {"pc", "kind", "proc"} \subseteq DOMAIN j /\ j.pc = "open"
  BY ProceedShape DEF KillIInv
<1>2. Set(h, j)
  BY DEF Proceed
<1> HIDE DEF j
<1> QED BY <1>1, <1>2, KillQuietInv

LEMMA KillEndInv ==
  ASSUME KillIInv, NEW h \in Handlers, Set(h, Idle), sent' = sent
  PROVE  KillIInv'
BY IdleShape, KillQuietInv

LEMMA ExtrasInv ==
  ASSUME KillIInv, NEW h \in Handlers,
         ReadMember(h) \/ ChooseKeep(h) \/ SignalExtra(h) \/ EndExtras(h)
  PROVE  KillIInv'
<1>1. CASE ReadMember(h)
  <2>1. PICK members : Set(h, [job[h] EXCEPT !.todo = Tail(@), !.members = members])
    BY <1>1 DEF ReadMember
  <2> DEFINE j == [job[h] EXCEPT !.todo = Tail(@), !.members = members]
  <2>2. {"pc", "kind", "proc"} \subseteq DOMAIN j /\ j.pc = "read" /\ sent' = sent
    BY <1>1 DEF ReadMember, KillIInv, JobShape
  <2> HIDE DEF j
  <2>3. Set(h, j)
    BY <2>1 DEF j
  <2> QED BY <2>2, <2>3, KillQuietInv
<1>2. CASE ChooseKeep(h)
  <2>1. PICK members : \/ Set(h, Idle)
                       \/ Set(h, [job[h] EXCEPT !.pc = "signal", !.members = members])
    BY <1>2 DEF ChooseKeep
  <2> DEFINE j == [job[h] EXCEPT !.pc = "signal", !.members = members]
  <2>2. {"pc", "kind", "proc"} \subseteq DOMAIN j /\ j.pc = "signal" /\ sent' = sent
    BY <1>2 DEF ChooseKeep, KillIInv, JobShape
  <2> HIDE DEF j
  <2>3. Set(h, Idle) \/ Set(h, j)
    BY <2>1 DEF j
  <2> QED BY <2>2, <2>3, KillQuietInv, KillEndInv
<1>3. CASE SignalExtra(h)
  <2> DEFINE j == [job[h] EXCEPT !.members = Tail(@)]
             m == Head(job[h].members)
             e == [to |-> procs[m.pid].born, pid |-> m.pid, sig |-> "TERM", by |-> job[h].kind, group |-> job[h].group]
  <2>1. {"pc", "kind", "proc"} \subseteq DOMAIN j /\ j.pc = "signal" /\ e.sig = "TERM"
    BY <1>3 DEF SignalExtra, KillIInv, JobShape
  <2>2. Set(h, j) /\ (sent' = Append(sent, e) \/ sent' = sent)
    BY <1>3 DEF SignalExtra, Deliver
  <2> HIDE DEF j, e
  <2> QED BY <2>1, <2>2, KillQuietInv, LoudInv
<1>4. CASE EndExtras(h)
  BY <1>4, KillEndInv DEF EndExtras
<1> QED BY <1>1, <1>2, <1>3, <1>4

LEMMA TerminateInv ==
  ASSUME KillIInv, NEW h \in Handlers, Terminate(h)
  PROVE  KillIInv'
<1> DEFINE j == [job[h] EXCEPT !.pc = "wait"]
           e == [to |-> procs[job[h].proc.pid].born, pid |-> job[h].proc.pid,
                 sig |-> "TERM", by |-> job[h].kind, group |-> job[h].group]
<1>1. CASE sent' = sent /\ Proceed(h)
  BY <1>1, ProceedInv
<1>2. CASE SameProcess(h) /\ sent' = Append(sent, e) /\ Set(h, j)
  <2>1. /\ {"pc", "kind", "proc"} \subseteq DOMAIN j
        /\ j.proc = job[h].proc /\ j.kind = job[h].kind
    BY DEF KillIInv, JobShape
  <2>2. e.sig = "TERM" /\ e.to = j.proc.born /\ e.by = j.kind
    BY <1>2, <2>1 DEF SameProcess
  <2> HIDE DEF j, e
  <2> QED BY <1>2, <2>1, <2>2, LoudInv
<1> QED BY <1>1, <1>2 DEF Terminate, Deliver

LEMMA EscalateInv ==
  ASSUME KillIInv, NEW h \in Handlers, Escalate(h)
  PROVE  KillIInv'
<1> DEFINE j == [job[h] EXCEPT !.pc = "open", !.members = Tail(@)]
           e == [to |-> procs[job[h].proc.pid].born, pid |-> job[h].proc.pid,
                 sig |-> "KILL", by |-> job[h].kind, group |-> job[h].group]
<1>1. CASE sent' = sent
  BY <1>1, ProceedInv DEF Escalate
<1>2. CASE SameProcess(h) /\ sent' = Append(sent, e)
  <2>1. {"pc", "kind", "proc"} \subseteq DOMAIN j /\ j.pc = "open"
    BY ProceedShape DEF KillIInv
  <2>2. Set(h, j)
    BY DEF Escalate, Proceed
  <2>3. SentBefore(Len(sent), "TERM", job[h].proc.born, job[h].kind)
    BY DEF Escalate, KillIInv, WaitFollowsTerm
  <2>4. e.to = job[h].proc.born /\ e.by = job[h].kind
    BY <1>2 DEF SameProcess
  <2>5. SentBefore(Len(sent), "TERM", e.to, e.by)
    BY <2>3, <2>4
  <2> HIDE DEF j, e
  <2> QED BY <1>2, <2>1, <2>2, <2>5, LoudInv
<1> QED BY <1>1, <1>2 DEF Escalate, Deliver

LEMMA TargetInv ==
  ASSUME KillIInv, NEW h \in Handlers,
         Open(h) \/ Waited(h) \/ WaitTimesOut(h) \/ Answer(h)
  PROVE  KillIInv'
<1>1. CASE Open(h)
  <2> DEFINE j == [job[h] EXCEPT !.pc = "term",
                       !.proc = [pid |-> Target(h).pid, born |-> procs[Target(h).pid].born]]
  <2>1. {"pc", "kind", "proc"} \subseteq DOMAIN j /\ j.pc = "term"
    BY DEF KillIInv, JobShape
  <2>2. sent' = sent /\ (Set(h, j) \/ Proceed(h))
    BY <1>1 DEF Open
  <2> HIDE DEF j
  <2> QED BY <2>1, <2>2, KillQuietInv, ProceedInv
<1>2. CASE Waited(h)
  BY <1>2, ProceedInv DEF Waited
<1>3. CASE WaitTimesOut(h)
  <2> DEFINE j == [job[h] EXCEPT !.pc = "kill"]
  <2>1. {"pc", "kind", "proc"} \subseteq DOMAIN j /\ j.proc = job[h].proc /\ j.kind = job[h].kind
    BY DEF KillIInv, JobShape
  <2>2. sent' = sent /\ Set(h, j) /\ job[h].pc = "wait"
    BY <1>3 DEF WaitTimesOut
  <2> HIDE DEF j
  <2> QED BY <2>1, <2>2, KillQuietInv
<1>4. CASE Answer(h)
  BY <1>4, KillEndInv DEF Answer
<1> QED BY <1>1, <1>2, <1>3, <1>4

LEMMA KillNextInv == KillIInv /\ [Next]_vars => KillIInv'
<1> SUFFICES ASSUME KillIInv, [Next]_vars PROVE KillIInv'
  OBVIOUS
<1>1. ASSUME NEW pid \in Pids, NEW prog \in Programs, Start(pid, prog) PROVE KillIInv'
  BY <1>1, KillHostInv DEF Start
<1>2. ASSUME NEW pid \in Pids, Exit(pid) \/ Obey(pid) PROVE KillIInv'
  BY <1>2, KillHostInv DEF Exit, Obey
<1>3. CASE Scan
  BY <1>3, KillHostInv DEF Scan
<1>4. ASSUME NEW h \in Handlers, Ask(h) \/ Step(h) PROVE KillIInv'
  BY <1>4, KillAskInv, ExtrasInv, TerminateInv, EscalateInv, TargetInv DEF Step
<1>5. CASE UNCHANGED vars
  BY <1>5, KillHostInv DEF vars
<1> QED BY <1>1, <1>2, <1>3, <1>4, <1>5 DEF Next

\* Escalation never changes its victim (_terminate_pid): SIGKILL goes to a
\* process that the same kind of request has sent SIGTERM before, whatever
\* exits, is signalled by others and reuses pids in the grace period.
THEOREM EscalationFollowsTerm == Spec => []KillFollowsTerm
<1>1. KillIInv => KillFollowsTerm
  BY DEF KillIInv
<1> QED BY <1>1, KillInitInv, KillNextInv, PTL DEF Spec

-----------------------------------------------------------------------------
(* KillWorkflow: types                                                     *)

JobKinds == {"idle", "extras", "single", "app"}

Jobs == [kind : JobKinds, pc : {"idle", "read", "signal", "open", "term", "wait", "kill"},
         group : Nat, todo : Seq(Pids), members : Seq(Targets), proc : [pid : Nat, born : Nat]]

GroupRows == [prog : Programs, pids : SUBSET Pids, who : SUBSET Nat, resolved : BOOLEAN]
Signals == [to : Nat, pid : Pids, sig : {"TERM", "KILL"}, by : JobKinds, group : Nat]

\* Where a handler can be with which kind of request; past Open it deals with
\* the process under the pid of its next target.
InPlace(j) ==
    /\ j.pc = "idle" <=> j.kind = "idle"
    /\ j.pc \in {"read", "signal"} <=> j.kind = "extras"
    /\ j.pc \in {"term", "wait", "kill"} => j.members # << >> /\ j.proc.pid = Head(j.members).pid

KillTypes ==
    /\ started \in 0..MaxStarts
    /\ DOMAIN procs \subseteq Pids
    /\ \A p \in DOMAIN procs : procs[p] \in [prog : Programs, born : 1..started]
    /\ DOMAIN rows \subseteq Pids
    /\ \A p \in DOMAIN rows : rows[p] \in [prog : Programs, born : 1..started, age : 0..StaleScans]
    /\ groups \in Seq(GroupRows) /\ log \in Seq(Targets) /\ sent \in Seq(Signals)
    /\ job \in [Handlers -> Jobs] /\ \A h \in Handlers : InPlace(job[h])

\* One handler moves on.
LEMMA SetTypes ==
  ASSUME KillTypes, NEW h \in Handlers, NEW j \in Jobs, InPlace(j), Set(h, j)
  PROVE  /\ job' \in [Handlers -> Jobs] /\ \A g \in Handlers : InPlace(job'[g])
         /\ job'[h] = j /\ \A g \in Handlers \ {h} : job'[g] = job[g]
<1>1. job' = [job EXCEPT ![h] = j] /\ job \in [Handlers -> Jobs]
  BY DEF Set, KillTypes
<1>2. job' \in [Handlers -> Jobs] /\ job'[h] = j /\ \A g \in Handlers \ {h} : job'[g] = job[g]
  BY <1>1
<1>3. \A g \in Handlers : InPlace(job'[g])
  BY <1>2 DEF KillTypes
<1> QED BY <1>2, <1>3

LEMMA IdleType == Idle \in Jobs /\ InPlace(Idle)
<1>1. << >> \in Seq(Pids) /\ << >> \in Seq(Targets)
  OBVIOUS
<1> QED BY <1>1 DEF Idle, Jobs, JobKinds, InPlace

\* The host, the table and the logs, when nothing but a job moves.
LEMMA OnlyJobTypes ==
  ASSUME KillTypes, NEW h \in Handlers, NEW j \in Jobs, InPlace(j), Set(h, j),
         UNCHANGED << hostVars, tableVars, log, sent >>
  PROVE  KillTypes'
BY SetTypes DEF KillTypes, hostVars, tableVars

\* sorted() lists the pids of a set, all of them, none twice.
LEMMA PidsInOrder ==
  ASSUME NEW set \in SUBSET Pids
  PROVE  /\ InOrder(set) \in Seq(set) /\ InOrder(set) \in Seq(Pids)
         /\ \A i, j \in DOMAIN InOrder(set) : InOrder(set)[i] = InOrder(set)[j] => i = j
<1>1. set \in SUBSET Int /\ IsFiniteSet(set)
  <2>1. Pids \subseteq Nat /\ IsFiniteSet(Pids)
    BY KillAssumption
  <2>2. IsFiniteSet(set)
    BY <2>1, FS_Subset
  <2> QED BY <2>1, <2>2
<1>2. Lists(InOrder(set), set) /\ Cardinality(set) \in Nat
  BY <1>1, ListExists DEF InOrder, Lists
<1>3. InOrder(set) \in Seq(set) /\ InOrder(set) \in Seq(Pids) /\ DOMAIN InOrder(set) = 1..Cardinality(set)
  BY <1>2 DEF Lists
<1>4. ASSUME NEW i \in DOMAIN InOrder(set), NEW j \in DOMAIN InOrder(set), InOrder(set)[i] = InOrder(set)[j]
      PROVE  i = j
  <2>1. i \in Int /\ j \in Int
    BY <1>3
  <2>2. InOrder(set)[i] \in set
    BY <1>2, <1>3 DEF Lists
  <2>3. InOrder(set)[i] \in Int
    BY <1>1, <2>2
  <2>4. i < j \/ j < i \/ i = j
    BY <2>1
  <2> QED BY <1>2, <1>4, <2>3, <2>4 DEF Lists
<1> QED BY <1>3, <1>4

\* A stable sort by start time rearranges the members.
LEMMA ByAgeSorts ==
  ASSUME NEW members \in Seq(Targets)
  PROVE  /\ ByAge(members) \in Seq(Targets) /\ Len(ByAge(members)) = Len(members)
         /\ \A i \in DOMAIN members : \E k \in DOMAIN members : ByAge(members)[i] = members[k]
         /\ \A i, j \in DOMAIN members : i < j =>
               /\ ByAge(members)[i].born <= ByAge(members)[j].born
               /\ \E k, l \in DOMAIN members :
                     k # l /\ ByAge(members)[i] = members[k] /\ ByAge(members)[j] = members[l]
<1> DEFINE D == DOMAIN members
           R == {p \in D \X D : Before(members, p[1], p[2])}
           IsRank(r) == r \in [D -> D] /\ \A i, j \in D : i < j => Before(members, r[i], r[j])
           rank == CHOOSE r \in [D -> D] : \A i, j \in D : i < j => Before(members, r[i], r[j])
<1>0. D = 1..Len(members) /\ Len(members) \in Nat /\ \A i \in D : members[i] \in Targets
  OBVIOUS
<1>1. D = 1..Len(members) /\ Len(members) \in Nat /\ \A i \in D : members[i] \in Targets /\ members[i].born \in Nat
  <2> HIDE DEF D
  <2> QED BY <1>0 DEF Targets
<1>2. \A i, j \in D : << i, j >> \in R <=> Before(members, i, j)
  OBVIOUS
<1>3. Orders(R, D)
  <2> HIDE DEF R, D
  <2>1. \A i \in D : i \in Nat
    BY <1>1
  <2>2. \A i \in D : << i, i >> \notin R
    BY <1>1, <1>2, <2>1 DEF Before
  <2>3. ASSUME NEW i \in D, NEW j \in D
        PROVE  i = j \/ Before(members, i, j) \/ Before(members, j, i)
    <3>1. i \in Int /\ j \in Int /\ members[i].born \in Int /\ members[j].born \in Int
      BY <1>1, <2>1
    <3>2. i = j \/ i < j \/ j < i
      BY <3>1
    <3>3. members[i].born = members[j].born \/ members[i].born < members[j].born \/ members[j].born < members[i].born
      BY <3>1
    <3> QED BY <3>2, <3>3 DEF Before
  <2>4. ASSUME NEW i \in D, NEW j \in D, NEW k \in D, Before(members, i, j), Before(members, j, k)
        PROVE  Before(members, i, k)
    BY <1>1, <2>1, <2>4 DEF Before
  <2> QED BY <1>2, <2>2, <2>3, <2>4 DEF Orders
<1>4. IsFiniteSet(D) /\ Cardinality(D) = Len(members)
  BY <1>1, FS_Interval
<1>5. PICK s : Sorts(s, D, R)
  <2> HIDE DEF R, D
  <2> QED BY <1>3, <1>4, SortedExists
<1>6. IsRank(s)
  <2> HIDE DEF R
  <2>1. s \in [D -> D] /\ DOMAIN s = D
    BY <1>1, <1>4, <1>5 DEF Sorts
  <2>2. \A i, j \in D : i < j => << s[i], s[j] >> \in R
    BY <1>5, <2>1 DEF Sorts
  <2> QED BY <1>2, <2>1, <2>2
<1>7. IsRank(rank)
  BY <1>6
<1>8. ByAge(members) = [i \in D |-> members[rank[i]]]
  BY DEF ByAge
<1> HIDE DEF D, R, rank
<1>9. ASSUME NEW i \in D, NEW j \in D, i < j
      PROVE  rank[i] # rank[j] /\ members[rank[i]].born <= members[rank[j]].born
  BY <1>1, <1>7, <1>9 DEF Before
<1>10. ByAge(members) \in Seq(Targets) /\ Len(ByAge(members)) = Len(members)
  BY <1>1, <1>7, <1>8
<1> QED BY <1>7, <1>8, <1>9, <1>10 DEF D

\* The first target, and the ones after it.
LEMMA FirstTarget ==
  ASSUME NEW j \in Jobs, j.members # << >>
  PROVE  /\ Head(j.members) \in Targets /\ Tail(j.members) \in Seq(Targets)
         /\ Head(j.members).pid \in Pids /\ Head(j.members).born \in 0..MaxStarts
         /\ Head(j.members) = j.members[1] /\ 1 \in DOMAIN j.members
         /\ \A i \in DOMAIN Tail(j.members) : i + 1 \in DOMAIN j.members /\ Tail(j.members)[i] = j.members[i + 1]
<1>1. j.members \in Seq(Targets)
  BY DEF Jobs
<1>2. /\ Head(j.members) \in Targets /\ Tail(j.members) \in Seq(Targets)
      /\ Head(j.members) = j.members[1] /\ 1 \in DOMAIN j.members
      /\ \A i \in DOMAIN Tail(j.members) : i + 1 \in DOMAIN j.members /\ Tail(j.members)[i] = j.members[i + 1]
  BY <1>1
<1> QED BY <1>2 DEF Targets

LEMMA LogTypes ==
  ASSUME log \in Seq(Targets), NEW pid \in Pids, NEW born \in 0..MaxStarts, Log(pid, born)
  PROVE  /\ log' \in Seq(Targets)
         /\ log' = log \/ log' = Append(log, [pid |-> pid, born |-> born])
<1>1. [pid |-> pid, born |-> born] \in Targets
  BY DEF Targets
<1> QED BY <1>1 DEF Log

\* A signal to who has the pid now.
LEMMA DeliverTypes ==
  ASSUME KillTypes, NEW h \in Handlers, NEW pid \in Pids, Live(pid), NEW sig \in {"TERM", "KILL"},
         Deliver(h, pid, sig)
  PROVE  sent' \in Seq(Signals) /\ UNCHANGED hostVars
<1>1. job[h].kind \in JobKinds /\ job[h].group \in Nat /\ procs[pid].born \in Nat
  BY DEF KillTypes, Jobs, Live
<1>2. [to |-> procs[pid].born, pid |-> pid, sig |-> sig, by |-> job[h].kind, group |-> job[h].group] \in Signals
  BY <1>1 DEF Signals
<1> QED BY <1>2 DEF Deliver, KillTypes

\* A handler moves on, signals perhaps, and logs perhaps.
LEMMA HandlerTypes ==
  ASSUME KillTypes, NEW h \in Handlers, NEW j \in Jobs, InPlace(j), Set(h, j),
         UNCHANGED << hostVars, rows >>,
         groups' \in Seq(GroupRows), log' \in Seq(Targets), sent' \in Seq(Signals)
  PROVE  KillTypes'
BY SetTypes DEF KillTypes, hostVars

\* Groups are reported of processes that run.
LEMMA NewGroupsAre ==
  ASSUME KillTypes
  PROVE  /\ NewGroups \in Seq(GroupRows)
         /\ \A i \in DOMAIN NewGroups : \E prog \in Programs :
               /\ NewGroups[i].prog = prog /\ NewGroups[i].pids = Instances(prog)
               /\ NewGroups[i].who = {procs[p].born : p \in Instances(prog)}
<1> DEFINE fresh == {prog \in Programs :
                        /\ Cardinality(Instances(prog)) > 1
                        /\ ~\E i \in DOMAIN groups :
                              groups[i].prog = prog /\ groups[i].pids = Instances(prog)}
           row(prog) == [prog |-> prog, pids |-> Instances(prog),
                         who |-> {procs[p].born : p \in Instances(prog)}, resolved |-> FALSE]
           new == {row(prog) : prog \in fresh}
           f == [prog \in fresh |-> row(prog)]
<1>1. IsFiniteSet(fresh)
  <2>1. IsFiniteSet(Programs)
    BY KillAssumption
  <2> QED BY <2>1, FS_Subset
<1>2. f \in Surjection(fresh, new)
  <2> HIDE DEF fresh, row
  <2> QED BY DEF Surjection
<1>3. IsFiniteSet(new)
  <2> HIDE DEF new, f, fresh
  <2> QED BY <1>1, <1>2, FS_Surjection
<1>4. \A prog \in fresh : row(prog) \in GroupRows
  <2> SUFFICES ASSUME NEW prog \in Programs PROVE row(prog) \in GroupRows
    OBVIOUS
  <2>1. Instances(prog) \in SUBSET Pids /\ \A p \in Instances(prog) : procs[p].born \in Nat
    BY DEF Instances, KillTypes
  <2> QED BY <2>1 DEF GroupRows
<1>5. NewGroups = SetToSeq(new)
  BY DEF NewGroups
<1> DEFINE g == SetToSeq(new)
<1>6. new \subseteq GroupRows
  <2> HIDE DEF fresh, row
  <2> QED BY <1>4
<1>7. \A x \in new : \E prog \in Programs :
          x.prog = prog /\ x.pids = Instances(prog) /\ x.who = {procs[p].born : p \in Instances(prog)}
  OBVIOUS
<1> HIDE DEF new
<1>8. PICK b : b \in Bijection(1..Cardinality(new), new)
  BY <1>3, FS_CardinalityType DEF ExistsBijection
<1>9. b \in [1..Cardinality(new) -> new] /\ IsInjective(b)
  BY <1>8 DEF Bijection, Injection
<1>10. g \in [1..Cardinality(new) -> new]
  BY <1>9 DEF SetToSeq
<1> HIDE DEF g
<1>11. Cardinality(new) \in Nat
  BY <1>3, FS_CardinalityType
<1>12. g \in Seq(GroupRows) /\ \A i \in DOMAIN g : g[i] \in new
  BY <1>6, <1>10, <1>11
<1> QED BY <1>5, <1>7, <1>12 DEF g

LEMMA UpsertedRows ==
  ASSUME KillTypes
  PROVE  /\ DOMAIN Upserted \subseteq Pids
         /\ \A p \in DOMAIN Upserted :
               /\ Upserted[p] \in [prog : Programs, born : 1..started, age : 0..StaleScans]
               /\ p \in DOMAIN procs => Upserted[p].born = procs[p].born
               /\ p \notin DOMAIN procs => p \in DOMAIN rows /\ Upserted[p].born = rows[p].born
         /\ DOMAIN procs \subseteq DOMAIN Upserted
<1> DEFINE D == DOMAIN procs \cup {p \in DOMAIN rows : rows[p].age < StaleScans}
<1>1. DOMAIN Upserted = D /\ D \subseteq Pids
  BY DEF Upserted, KillTypes
<1>2. ASSUME NEW p \in D
      PROVE  /\ Upserted[p] \in [prog : Programs, born : 1..started, age : 0..StaleScans]
             /\ p \in DOMAIN procs => Upserted[p].born = procs[p].born
             /\ p \notin DOMAIN procs => p \in DOMAIN rows /\ Upserted[p].born = rows[p].born
  <2>1. CASE p \in DOMAIN procs
    <3>1. Upserted[p] = [prog |-> procs[p].prog, born |-> procs[p].born, age |-> 0]
      BY <2>1 DEF Upserted
    <3>2. procs[p].prog \in Programs /\ procs[p].born \in 1..started /\ 0 \in 0..StaleScans
      BY <2>1, KillAssumption DEF KillTypes
    <3> QED BY <2>1, <3>1, <3>2
  <2>2. CASE p \notin DOMAIN procs
    <3>1. p \in DOMAIN rows /\ rows[p].age < StaleScans /\ Upserted[p] = [rows[p] EXCEPT !.age = @ + 1]
      BY <2>2 DEF Upserted
    <3>2. rows[p] \in [prog : Programs, born : 1..started, age : 0..StaleScans]
      BY <3>1 DEF KillTypes
    <3>3. rows[p].age + 1 \in 0..StaleScans
      BY <3>1, <3>2, KillAssumption
    <3> QED BY <2>2, <3>1, <3>2, <3>3
  <2> QED BY <2>1, <2>2
<1> HIDE DEF D
<1>3. DOMAIN procs \subseteq D
  BY DEF D
<1> QED BY <1>1, <1>2, <1>3

\* The host and the scanner keep the types.
LEMMA HostTypes ==
  ASSUME KillTypes,
         \/ \E pid \in Pids, prog \in Programs : Start(pid, prog)
         \/ \E pid \in Pids : Exit(pid) \/ Obey(pid)
         \/ Scan
  PROVE  KillTypes'
<1>1. ASSUME NEW pid \in Pids, NEW prog \in Programs, Start(pid, prog) PROVE KillTypes'
  <2>1. /\ started' = started + 1 /\ started < MaxStarts /\ MaxStarts \in Nat
        /\ DOMAIN procs' = DOMAIN procs \cup {pid}
        /\ procs'[pid] = [prog |-> prog, born |-> started + 1]
        /\ \A p \in DOMAIN procs \ {pid} : procs'[p] = procs[p]
        /\ UNCHANGED << tableVars, log, sent, job >>
    BY <1>1, KillAssumption DEF Start, With
  <2>2. started' \in 0..MaxStarts /\ 1..started \subseteq 1..started' /\ started + 1 \in 1..started'
    BY <2>1 DEF KillTypes
  <2>3. \A p \in DOMAIN procs' : procs'[p] \in [prog : Programs, born : 1..started']
    BY <2>1, <2>2 DEF KillTypes
  <2>4. \A p \in DOMAIN rows : rows[p] \in [prog : Programs, born : 1..started', age : 0..StaleScans]
    BY <2>2 DEF KillTypes
  <2> QED BY <2>1, <2>2, <2>3, <2>4 DEF KillTypes, tableVars
<1>2. ASSUME NEW pid \in Pids, Exit(pid) \/ Obey(pid) PROVE KillTypes'
  <2>1. /\ DOMAIN procs' \subseteq DOMAIN procs
        /\ \A p \in DOMAIN procs' : procs'[p] = procs[p]
        /\ UNCHANGED << started, tableVars, log, sent, job >>
    BY <1>2 DEF Exit, Obey, Without
  <2> QED BY <2>1 DEF KillTypes, tableVars
<1>3. CASE Scan
  <2>1. groups' \in Seq(GroupRows)
    BY <1>3, NewGroupsAre DEF Scan, KillTypes
  <2>2. /\ DOMAIN rows' \subseteq Pids
        /\ \A p \in DOMAIN rows' : rows'[p] \in [prog : Programs, born : 1..started, age : 0..StaleScans]
    BY <1>3, UpsertedRows DEF Scan
  <2> QED BY <1>3, <2>1, <2>2 DEF Scan, KillTypes, hostVars
<1> QED BY <1>1, <1>2, <1>3

\* The record a handler is given by each of its steps.
LEMMA JobSteps ==
  ASSUME NEW j \in Jobs, InPlace(j)
  PROVE  /\ \A members \in Seq(Targets), todo \in Seq(Pids) : j.pc = "read" =>
              LET k == [j EXCEPT !.todo = todo, !.members = members]
              IN  k \in Jobs /\ InPlace(k)
         /\ \A members \in Seq(Targets) : j.kind = "extras" =>
              LET k == [j EXCEPT !.pc = "signal", !.members = members]
              IN  k \in Jobs /\ InPlace(k)
         /\ \A members \in Seq(Targets) : j.pc \in {"open", "term", "wait", "kill"} =>
              LET k == [j EXCEPT !.pc = "open", !.members = members]
              IN  k \in Jobs /\ InPlace(k)
         /\ \A proc \in [pid : Nat, born : Nat] : j.pc = "open" /\ j.members # << >> /\ proc.pid = Head(j.members).pid =>
              LET k == [j EXCEPT !.pc = "term", !.proc = proc]
              IN  k \in Jobs /\ InPlace(k)
         /\ \A pc \in {"wait", "kill"} : j.pc \in {"term", "wait"} =>
              LET k == [j EXCEPT !.pc = pc]
              IN  k \in Jobs /\ InPlace(k)
BY DEF Jobs, InPlace, JobKinds

LEMMA GroupAt ==
  ASSUME KillTypes, NEW g \in DOMAIN groups
  PROVE  /\ g \in Nat /\ groups[g] \in GroupRows
         /\ groups[g].pids \in SUBSET Pids /\ groups[g].who \in SUBSET Nat
<1>1. groups \in Seq(GroupRows)
  BY DEF KillTypes
<1>2. g \in Nat /\ groups[g] \in GroupRows
  BY <1>1
<1> QED BY <1>2 DEF GroupRows

LEMMA AskTypes == ASSUME KillTypes, NEW h \in Handlers, Ask(h) PROVE KillTypes'
<1>1. ASSUME NEW j \in Jobs, InPlace(j), Request(h, j) PROVE KillTypes'
  BY <1>1, OnlyJobTypes DEF Request
<1>2. << >> \in Seq(Pids) /\ << >> \in Seq(Targets)
  OBVIOUS
<1>3. ASSUME NEW g \in DOMAIN groups, BeginExtras(h, g) PROVE KillTypes'
  <2> DEFINE j == [Idle EXCEPT !.kind = "extras", !.pc = "read", !.group = g,
                               !.todo = InOrder(groups[g].pids)]
  <2>1. groups[g].pids \in SUBSET Pids /\ g \in Nat
    BY GroupAt
  <2>2. InOrder(groups[g].pids) \in Seq(Pids)
    BY <2>1, PidsInOrder
  <2>3. j \in Jobs /\ InPlace(j)
    BY <1>2, <2>1, <2>2 DEF Idle, Jobs, JobKinds, InPlace
  <2>4. Request(h, j)
    BY <1>3 DEF BeginExtras
  <2> HIDE DEF j
  <2> QED BY <1>1, <2>3, <2>4
<1>4. ASSUME NEW pid \in Pids, BeginSingle(h, pid) PROVE KillTypes'
  <2> DEFINE m == [pid |-> pid, born |-> BornOf(pid)]
             j == [Idle EXCEPT !.kind = "single", !.pc = "open", !.members = << m >>]
  <2>1. BornOf(pid) \in 0..MaxStarts
    BY KillAssumption DEF BornOf, KillTypes
  <2>2. m \in Targets
    BY <2>1 DEF Targets
  <2> HIDE DEF m
  <2>3. << m >> \in Seq(Targets)
    BY <2>2
  <2>4. j \in Jobs /\ InPlace(j)
    BY <1>2, <2>3 DEF Idle, Jobs, JobKinds, InPlace
  <2>5. Request(h, j)
    BY <1>4 DEF BeginSingle, m
  <2> HIDE DEF j
  <2> QED BY <1>1, <2>4, <2>5
<1>5. ASSUME NEW prog \in Programs, BeginApp(h, prog) PROVE KillTypes'
  <2> DEFINE set == {p \in DOMAIN rows : rows[p].prog = prog}
             order == InOrder(set)
             members == [i \in DOMAIN order |-> [pid |-> order[i], born |-> rows[order[i]].born]]
             j == [Idle EXCEPT !.kind = "app", !.pc = "open", !.members = members]
  <2>1. set \in SUBSET Pids /\ set \subseteq DOMAIN rows
    BY DEF KillTypes
  <2> HIDE DEF set
  <2>2. order \in Seq(set)
    BY <2>1, PidsInOrder
  <2> HIDE DEF order
  <2>3. \A i \in DOMAIN order : order[i] \in Pids /\ order[i] \in DOMAIN rows
    BY <2>1, <2>2
  <2>4. \A i \in DOMAIN order : rows[order[i]].born \in 0..MaxStarts
    BY <2>3, KillAssumption DEF KillTypes
  <2>5. \A i \in DOMAIN order : members[i] \in Targets
    BY <2>3, <2>4 DEF Targets
  <2>6. DOMAIN members = 1..Len(order) /\ Len(order) \in Nat
    BY <2>2
  <2>7. members \in [1..Len(order) -> Targets]
    BY <2>5, <2>6
  <2>8. Request(h, j)
    BY <1>5 DEF BeginApp, order, set
  <2> HIDE DEF members
  <2>9. members \in Seq(Targets)
    BY <2>6, <2>7
  <2>10. j \in Jobs /\ InPlace(j)
    BY <1>2, <2>9 DEF Idle, Jobs, JobKinds, InPlace
  <2> HIDE DEF j
  <2> QED BY <1>1, <2>8, <2>10
<1> QED BY <1>3, <1>4, <1>5 DEF Ask

LEMMA ReadMemberTypes == ASSUME KillTypes, NEW h \in Handlers, ReadMember(h) PROVE KillTypes'
<1> DEFINE pid == Head(job[h].todo)
           m == [pid |-> pid, born |-> rows[pid].born]
           members == IF pid \in DOMAIN rows THEN Append(job[h].members, m) ELSE job[h].members
           j == [job[h] EXCEPT !.todo = Tail(job[h].todo), !.members = members]
<1>1. job[h] \in Jobs /\ InPlace(job[h]) /\ job[h].pc = "read" /\ job[h].todo # << >>
  BY DEF KillTypes, ReadMember
<1>2. job[h].todo \in Seq(Pids) /\ job[h].members \in Seq(Targets)
  BY <1>1 DEF Jobs
<1>3. pid \in Pids /\ Tail(job[h].todo) \in Seq(Pids)
  BY <1>1, <1>2
<1>31. Set(h, j)
  BY DEF ReadMember
<1> HIDE DEF pid
<1>4. pid \in DOMAIN rows => m \in Targets
  BY <1>3, KillAssumption DEF KillTypes, Targets
<1> HIDE DEF m
<1>5. members \in Seq(Targets)
  BY <1>2, <1>4
<1> HIDE DEF members
<1>6. j \in Jobs /\ InPlace(j)
  BY <1>1, <1>3, <1>5, JobSteps
<1>7. UNCHANGED << hostVars, tableVars, log, sent >>
  BY DEF ReadMember
<1> QED BY <1>31, <1>6, <1>7, OnlyJobTypes

LEMMA ChooseKeepTypes == ASSUME KillTypes, NEW h \in Handlers, ChooseKeep(h) PROVE KillTypes'
<1> DEFINE members == ByAge(job[h].members)
           j == [job[h] EXCEPT !.pc = "signal", !.members = Tail(members)]
<1>1. job[h] \in Jobs /\ InPlace(job[h]) /\ job[h].pc = "read"
  BY DEF KillTypes, ChooseKeep
<1>2. job[h].members \in Seq(Targets)
  BY <1>1 DEF Jobs
<1>3. members \in Seq(Targets)
  BY <1>2, ByAgeSorts
<1>31. Set(h, IF Len(members) < 2 THEN Idle ELSE j)
  BY DEF ChooseKeep
<1> HIDE DEF members
<1>4. ~(Len(members) < 2) => j \in Jobs /\ InPlace(j)
  <2>1. ~(Len(members) < 2) => Tail(members) \in Seq(Targets)
    BY <1>3
  <2>2. job[h].kind = "extras"
    BY <1>1 DEF InPlace
  <2> QED BY <1>1, <2>1, <2>2, JobSteps
<1>5. UNCHANGED << hostVars, tableVars, log, sent >>
  BY DEF ChooseKeep
<1> QED BY <1>31, <1>4, <1>5, IdleType, OnlyJobTypes

LEMMA SignalExtraTypes == ASSUME KillTypes, NEW h \in Handlers, SignalExtra(h) PROVE KillTypes'
<1> DEFINE m == Head(job[h].members)
           j == [job[h] EXCEPT !.members = Tail(job[h].members)]
<1>1. job[h] \in Jobs /\ InPlace(job[h]) /\ job[h].pc = "signal" /\ job[h].members # << >>
  BY DEF KillTypes, SignalExtra
<1>2. m.pid \in Pids /\ m.born \in 0..MaxStarts /\ Tail(job[h].members) \in Seq(Targets)
  BY <1>1, FirstTarget
<1>3. j \in Jobs /\ InPlace(j)
  BY <1>1, <1>2 DEF Jobs, InPlace
<1>4. Set(h, j) /\ UNCHANGED << tableVars, requests >>
  BY DEF SignalExtra
<1>5. \/ Live(m.pid) /\ Deliver(h, m.pid, "TERM") /\ Log(m.pid, m.born)
      \/ UNCHANGED << hostVars, sent, log, mishaps >>
  BY DEF SignalExtra
<1> HIDE DEF m, j
<1>6. /\ log' \in Seq(Targets) /\ sent' \in Seq(Signals)
      /\ UNCHANGED hostVars
  BY <1>2, <1>5, LogTypes, DeliverTypes DEF KillTypes
<1>7. groups' \in Seq(GroupRows) /\ UNCHANGED rows
  BY <1>4 DEF tableVars, KillTypes
<1> QED BY <1>3, <1>4, <1>6, <1>7, HandlerTypes

LEMMA EndExtrasTypes == ASSUME KillTypes, NEW h \in Handlers, EndExtras(h) PROVE KillTypes'
<1>1. groups' = [groups EXCEPT ![job[h].group].resolved = TRUE] /\ groups \in Seq(GroupRows)
  BY DEF EndExtras, KillTypes
<1>2. groups' \in Seq(GroupRows)
  <2>1. \A i \in DOMAIN groups : groups[i] \in GroupRows /\ [groups[i] EXCEPT !.resolved = TRUE] \in GroupRows
    <3>1. \A r \in GroupRows : [r EXCEPT !.resolved = TRUE] \in GroupRows
      BY DEF GroupRows
    <3> QED BY <3>1, GroupAt
  <2>2. DOMAIN groups = 1..Len(groups) /\ Len(groups) \in Nat
    BY <1>1
  <2>3. groups' \in [1..Len(groups) -> GroupRows]
    BY <1>1, <2>1, <2>2
  <2> QED BY <2>2, <2>3
<1> QED BY <1>2, IdleType, HandlerTypes DEF EndExtras, KillTypes, hostVars

\* On to the next target.
LEMMA ProceedTypes ==
  ASSUME KillTypes, NEW h \in Handlers, job[h].pc \in {"open", "term", "wait", "kill"}, job[h].members # << >>
  PROVE  LET j == [job[h] EXCEPT !.pc = "open", !.members = Tail(job[h].members)]
         IN  j \in Jobs /\ InPlace(j) /\ (Proceed(h) => Set(h, j))
<1>1. job[h] \in Jobs /\ InPlace(job[h])
  BY DEF KillTypes
<1>2. Tail(job[h].members) \in Seq(Targets)
  BY <1>1, FirstTarget
<1> QED BY <1>1, <1>2, JobSteps DEF Proceed

LEMMA AtTarget ==
  ASSUME KillTypes, NEW h \in Handlers, job[h].members # << >>
  PROVE  /\ Target(h) \in Targets /\ Target(h).pid \in Pids /\ Target(h).born \in 0..MaxStarts
         /\ job[h].pc \in {"term", "wait", "kill"} => job[h].proc.pid = Target(h).pid
<1>1. job[h] \in Jobs /\ InPlace(job[h])
  BY DEF KillTypes
<1> QED BY <1>1, FirstTarget DEF Target, InPlace

LEMMA HasTarget ==
  ASSUME KillTypes, NEW h \in Handlers, job[h].pc \in {"term", "wait", "kill"}
  PROVE  job[h].members # << >>
BY DEF KillTypes, InPlace

LEMMA OpenTypes == ASSUME KillTypes, NEW h \in Handlers, Open(h) PROVE KillTypes'
<1>1. job[h] \in Jobs /\ InPlace(job[h]) /\ job[h].pc = "open" /\ job[h].members # << >>
      /\ UNCHANGED << hostVars, tableVars, log, sent >>
  BY DEF KillTypes, Open
<1>2. CASE Live(Target(h).pid)
  <2> DEFINE proc == [pid |-> Target(h).pid, born |-> procs[Target(h).pid].born]
             j == [job[h] EXCEPT !.pc = "term", !.proc = proc]
  <2>1. proc \in [pid : Nat, born : Nat] /\ proc.pid = Head(job[h].members).pid
    <3>1. Target(h).pid \in Pids /\ Target(h).pid \in DOMAIN procs
      BY <1>1, <1>2, AtTarget DEF Live
    <3>2. Target(h).pid \in Nat
      BY <3>1, KillAssumption
    <3>3. procs[Target(h).pid].born \in Nat
      BY <3>1 DEF KillTypes
    <3> QED BY <3>2, <3>3 DEF Target
  <2>2. Set(h, j)
    BY <1>2 DEF Open
  <2> HIDE DEF proc
  <2>3. j \in Jobs /\ InPlace(j)
    BY <1>1, <2>1, JobSteps
  <2> HIDE DEF j
  <2> QED BY <1>1, <2>2, <2>3, OnlyJobTypes
<1>3. CASE ~Live(Target(h).pid)
  BY <1>1, <1>3, ProceedTypes, OnlyJobTypes DEF Open
<1> QED BY <1>2, <1>3

LEMMA TerminateTypes == ASSUME KillTypes, NEW h \in Handlers, Terminate(h) PROVE KillTypes'
<1> DEFINE pid == job[h].proc.pid
           j == [job[h] EXCEPT !.pc = "wait"]
<1>1. job[h] \in Jobs /\ InPlace(job[h]) /\ job[h].pc = "term" /\ job[h].members # << >>
      /\ UNCHANGED << tableVars, log >>
  BY HasTarget DEF KillTypes, Terminate
<1>2. CASE SameProcess(h) /\ Deliver(h, pid, "TERM") /\ Set(h, j)
  <2>1. pid \in Pids /\ Live(pid)
    BY <1>1, <1>2, AtTarget DEF SameProcess
  <2>2. j \in Jobs /\ InPlace(j)
    BY <1>1, JobSteps
  <2> HIDE DEF j
  <2>3. sent' \in Seq(Signals) /\ UNCHANGED hostVars
    BY <1>2, <2>1, DeliverTypes
  <2>4. UNCHANGED rows /\ groups' \in Seq(GroupRows) /\ log' \in Seq(Targets)
    BY <1>1 DEF tableVars, KillTypes
  <2> QED BY <1>2, <2>2, <2>3, <2>4, HandlerTypes
<1>3. CASE Proceed(h) /\ UNCHANGED << hostVars, sent >>
  BY <1>1, <1>3, ProceedTypes, OnlyJobTypes
<1> QED BY <1>2, <1>3 DEF Terminate

\* A target is logged, or not, and the handler goes on.
LEMMA GoesOnTypes ==
  ASSUME KillTypes, NEW h \in Handlers, job[h].pc \in {"wait", "kill"}, Proceed(h),
         UNCHANGED << hostVars, tableVars >>, sent' \in Seq(Signals),
         LogTarget(h) \/ UNCHANGED log
  PROVE  KillTypes'
<1>1. job[h].members # << >>
  BY HasTarget
<1>2. log' \in Seq(Targets)
  BY <1>1, AtTarget, LogTypes DEF LogTarget, KillTypes
<1> DEFINE j == [job[h] EXCEPT !.pc = "open", !.members = Tail(job[h].members)]
<1>3. j \in Jobs /\ InPlace(j) /\ Set(h, j)
  BY <1>1, ProceedTypes
<1> HIDE DEF j
<1>4. UNCHANGED rows /\ groups' \in Seq(GroupRows)
  BY DEF tableVars, KillTypes
<1> QED BY <1>2, <1>3, <1>4, HandlerTypes

LEMMA WaitedTypes == ASSUME KillTypes, NEW h \in Handlers, Waited(h) PROVE KillTypes'
BY GoesOnTypes DEF Waited, KillTypes

LEMMA WaitTimesOutTypes == ASSUME KillTypes, NEW h \in Handlers, WaitTimesOut(h) PROVE KillTypes'
<1> DEFINE j == [job[h] EXCEPT !.pc = "kill"]
<1>1. job[h] \in Jobs /\ InPlace(job[h]) /\ job[h].pc = "wait" /\ Set(h, j)
      /\ UNCHANGED << hostVars, tableVars, log, sent >>
  BY DEF KillTypes, WaitTimesOut
<1>2. j \in Jobs /\ InPlace(j)
  BY <1>1, JobSteps
<1> HIDE DEF j
<1> QED BY <1>1, <1>2, OnlyJobTypes

LEMMA EscalateTypes == ASSUME KillTypes, NEW h \in Handlers, Escalate(h) PROVE KillTypes'
<1> DEFINE pid == job[h].proc.pid
<1>1. job[h].pc = "kill" /\ Proceed(h) /\ UNCHANGED tableVars /\ job[h].members # << >>
  BY HasTarget DEF Escalate
<1>2. CASE SameProcess(h) /\ Deliver(h, pid, "KILL") /\ LogTarget(h)
  <2>1. pid \in Pids /\ Live(pid)
    BY <1>1, <1>2, AtTarget DEF SameProcess
  <2>2. sent' \in Seq(Signals) /\ UNCHANGED hostVars
    BY <1>2, <2>1, DeliverTypes
  <2> QED BY <1>1, <1>2, <2>2, GoesOnTypes
<1>3. CASE UNCHANGED << hostVars, sent, log, mishaps >>
  BY <1>1, <1>3, GoesOnTypes DEF KillTypes
<1> QED BY <1>2, <1>3 DEF Escalate

LEMMA AnswerTypes == ASSUME KillTypes, NEW h \in Handlers, Answer(h) PROVE KillTypes'
BY IdleType, OnlyJobTypes DEF Answer

LEMMA KillNextTypes == KillTypes /\ [Next]_vars => KillTypes'
<1> SUFFICES ASSUME KillTypes, [Next]_vars PROVE KillTypes'
  OBVIOUS
<1>1. ASSUME NEW h \in Handlers, Step(h) PROVE KillTypes'
  BY <1>1, ReadMemberTypes, ChooseKeepTypes, SignalExtraTypes, EndExtrasTypes, OpenTypes, TerminateTypes,
     WaitedTypes, WaitTimesOutTypes, EscalateTypes, AnswerTypes DEF Step
<1>2. CASE UNCHANGED vars
  BY <1>2 DEF vars, hostVars, tableVars, KillTypes
<1> QED BY <1>1, <1>2, HostTypes, AskTypes DEF Next

LEMMA KillInitTypes == Init => KillTypes
<1> SUFFICES ASSUME Init PROVE KillTypes
  OBVIOUS
<1>1. << >> \in Seq(GroupRows) /\ << >> \in Seq(Targets) /\ << >> \in Seq(Signals) /\ DOMAIN << >> = {}
  OBVIOUS
<1>2. 0 \in 0..MaxStarts
  BY KillAssumption
<1> QED BY <1>1, <1>2, IdleType DEF Init, KillTypes

LEMMA KillTypesAre == KillTypes => TypeOK
<1> SUFFICES ASSUME KillTypes PROVE TypeOK
  OBVIOUS
<1>1. \A p \in DOMAIN rows : rows[p].age \in 0..StaleScans
  BY DEF KillTypes
<1>2. \A h \in Handlers : job[h].members \in Seq(Targets) /\ (job[h].pc = "idle" <=> job[h].kind = "idle")
  BY DEF KillTypes, Jobs, InPlace
<1> QED BY <1>1, <1>2 DEF KillTypes, TypeOK

\* The host, the tables and the handlers stay what they are declared to be,
\* and a handler without a request holds none (kill_process, kill_app,
\* kill_duplicate_extras).
THEOREM KillsTypeCorrect == Spec => []TypeOK
<1> QED BY KillTypesAre, KillInitTypes, KillNextTypes, PTL DEF Spec

-----------------------------------------------------------------------------
(* KillWorkflow: what kill-extras keeps                                    *)

InOrAfter(born, who) == born \in who \/ \A b \in who : b < born

\* Who kill-extras still knows of: a start time belongs to one pid.
Seen(born, pid) ==
    \/ pid \in DOMAIN procs /\ procs[pid].born = born
    \/ pid \in DOMAIN rows /\ rows[pid].born = born
    \/ \E h \in Handlers : /\ job[h].kind = "extras"
                           /\ \E i \in DOMAIN job[h].members :
                                 job[h].members[i].pid = pid /\ job[h].members[i].born = born

OnePid ==
    \A born \in Nat, p \in Pids : Seen(born, p) =>
        born \in 1..started /\ \A q \in Pids : Seen(born, q) => q = p

RowsTrail == \A p \in DOMAIN rows : p \in DOMAIN procs => rows[p].born <= procs[p].born

\* Whoever has the pid of a member, on the host or in the table, is a member
\* or has started after all of them.
GroupsHold ==
    \A g \in DOMAIN groups :
        /\ groups[g].who \subseteq 1..started
        /\ \A p \in groups[g].pids :
              /\ p \in DOMAIN rows => InOrAfter(rows[p].born, groups[g].who)
              /\ p \in DOMAIN procs => InOrAfter(procs[p].born, groups[g].who)

\* No member has started after who has its pid now.
Trailing(members) ==
    \A i \in DOMAIN members :
        members[i].pid \in DOMAIN procs => members[i].born <= procs[members[i].pid].born

\* Each pid of the group is read once.
Reading(j) ==
    /\ j.todo \in Seq(groups[j.group].pids)
    /\ \A i, k \in DOMAIN j.todo : j.todo[i] = j.todo[k] => i = k
    /\ \A i, k \in DOMAIN j.members : j.members[i].pid = j.members[k].pid => i = k
    /\ \A i \in DOMAIN j.members, k \in DOMAIN j.todo : j.members[i].pid # j.todo[k]
    /\ \A i \in DOMAIN j.members : InOrAfter(j.members[i].born, groups[j.group].who)

\* The member that is kept is older than the others, and a member or younger
\* than all of them.
Chosen(j) ==
    \E k \in Nat :
        /\ InOrAfter(k, groups[j.group].who)
        /\ \A i \in DOMAIN j.members : k < j.members[i].born

ExtrasOf(j) ==
    j.kind = "extras" =>
        /\ j.group \in DOMAIN groups /\ Trailing(j.members)
        /\ j.pc = "read" => Reading(j)
        /\ j.pc = "signal" => Chosen(j)

SentHold == \A s \in ToSet(sent) : s.by = "extras" => s.group \in DOMAIN groups

TablesHold == OnePid /\ RowsTrail /\ GroupsHold /\ \A h \in Handlers : ExtrasOf(job[h])

OldestIInv == KillTypes /\ TablesHold /\ SentHold /\ OldestIsKept

GroupsGrow ==
    \A g \in DOMAIN groups :
        /\ g \in DOMAIN groups'
        /\ groups'[g].pids = groups[g].pids /\ groups'[g].who = groups[g].who

\* Steps without a signal.
LEMMA SentKept ==
  ASSUME SentHold, OldestIsKept, sent' = sent, GroupsGrow
  PROVE  SentHold' /\ OldestIsKept'
<1>1. ASSUME NEW s \in ToSet(sent), s.by = "extras"
      PROVE  s.group \in DOMAIN groups' /\ groups'[s.group].who = groups[s.group].who
  BY <1>1 DEF SentHold, GroupsGrow
<1>2. ToSet(sent)' = ToSet(sent)
  BY DEF ToSet
<1>3. \A s \in ToSet(sent)' : s.by = "extras" => s.group \in DOMAIN groups'
  BY <1>1, <1>2
<1>4. \A s \in ToSet(sent)' : s.by = "extras" /\ s.to \in groups'[s.group].who
          => \E b \in groups'[s.group].who : b < s.to
  BY <1>1, <1>2 DEF OldestIsKept
<1> QED BY <1>3, <1>4 DEF SentHold, OldestIsKept

LEMMA SentAppends ==
  ASSUME KillTypes, SentHold, OldestIsKept, NEW e, sent' = Append(sent, e), groups' = groups,
         e.by = "extras" => /\ e.group \in DOMAIN groups
                            /\ e.to \in groups[e.group].who => \E b \in groups[e.group].who : b < e.to
  PROVE  SentHold' /\ OldestIsKept'
<1>1. PICK S : sent \in Seq(S)
  BY DEF KillTypes
<1>2. /\ Len(sent) \in Nat /\ DOMAIN sent = 1..Len(sent) /\ DOMAIN sent' = 1..(Len(sent) + 1)
      /\ \A i \in DOMAIN sent' : sent'[i] = IF i = Len(sent) + 1 THEN e ELSE sent[i]
  <2>1. sent \in Seq(S \cup {e})
    BY <1>1
  <2> QED BY <2>1
<1>3. \A s \in ToSet(sent)' : s = e \/ s \in ToSet(sent)
  BY <1>2 DEF ToSet
<1>4. \A s \in ToSet(sent)' : s.by = "extras" => s.group \in DOMAIN groups
  BY <1>3 DEF SentHold
<1>5. \A s \in ToSet(sent)' : s.by = "extras" /\ s.to \in groups[s.group].who
          => \E b \in groups[s.group].who : b < s.to
  BY <1>3 DEF OldestIsKept
<1> QED BY <1>4, <1>5 DEF SentHold, OldestIsKept

\* What a handler relies on stands while processes come and go: who has a pid
\* now had it before, or is the youngest of all.
HostMoves ==
    /\ started' \in Nat /\ started <= started'
    /\ \A p \in DOMAIN procs' :
          \/ p \in DOMAIN procs /\ procs'[p].born = procs[p].born
          \/ procs'[p].born \in Nat /\ procs'[p].born > started

LEMMA MemberAt ==
  ASSUME KillTypes, NEW h \in Handlers, NEW i \in DOMAIN job[h].members
  PROVE  /\ job[h].members[i] \in Targets
         /\ job[h].members[i].pid \in Pids /\ job[h].members[i].born \in Nat
<1>1. job[h].members \in Seq(Targets)
  BY DEF KillTypes, Jobs
<1>2. job[h].members[i] \in Targets
  BY <1>1
<1> QED BY <1>2 DEF Targets

LEMMA JobStands ==
  ASSUME KillTypes, TablesHold, HostMoves, GroupsGrow, job' = job, NEW h \in Handlers
  PROVE  ExtrasOf(job[h])'
<1> DEFINE j == job[h]
<1> SUFFICES ASSUME j.kind = "extras"
             PROVE  /\ j.group \in DOMAIN groups' /\ Trailing(j.members)'
                    /\ j.pc = "read" => Reading(j)'
                    /\ j.pc = "signal" => Chosen(j)'
  BY DEF ExtrasOf
<1>1. ExtrasOf(j)
  BY DEF TablesHold
<1>2. j.group \in DOMAIN groups /\ j.group \in DOMAIN groups'
      /\ groups'[j.group].pids = groups[j.group].pids /\ groups'[j.group].who = groups[j.group].who
  BY <1>1 DEF ExtrasOf, GroupsGrow
<1>3. ASSUME NEW i \in DOMAIN j.members, j.members[i].pid \in DOMAIN procs'
      PROVE  j.members[i].born <= procs'[j.members[i].pid].born
  <2> DEFINE m == j.members[i]
  <2>1. m.pid \in Pids /\ m.born \in Nat /\ Seen(m.born, m.pid)
    BY MemberAt DEF Seen
  <2>2. m.born <= started /\ started \in Nat
    BY <2>1 DEF TablesHold, OnePid, KillTypes
  <2>3. m.pid \in DOMAIN procs => m.born <= procs[m.pid].born
    BY <1>1 DEF ExtrasOf, Trailing
  <2>4. (procs'[m.pid].born \in Nat /\ procs'[m.pid].born > started) \/ m.born <= procs'[m.pid].born
    BY <1>3, <2>3 DEF HostMoves
  <2>5. CASE procs'[m.pid].born \in Nat /\ procs'[m.pid].born > started
    <3>1. m.born \in Int /\ started \in Int
      BY <2>1, <2>2
    <3> QED BY <2>2, <2>5, <3>1
  <2> QED BY <2>4, <2>5
<1>4. Trailing(j.members)'
  BY <1>3 DEF Trailing
<1>5. j.pc = "read" => Reading(j)'
  BY <1>1, <1>2 DEF ExtrasOf, Reading
<1>6. j.pc = "signal" => Chosen(j)'
  BY <1>1, <1>2 DEF ExtrasOf, Chosen
<1> QED BY <1>2, <1>4, <1>5, <1>6

\* A start time is known of a pid only if it was before.
LEMMA OnePidStands ==
  ASSUME TablesHold, started' = started,
         \A born \in Nat, p \in Pids : Seen(born, p)' => Seen(born, p)
  PROVE  OnePid'
BY DEF TablesHold, OnePid

LEMMA RowAt ==
  ASSUME KillTypes, NEW p \in Pids
  PROVE  /\ p \in DOMAIN rows => rows[p].born \in 1..started /\ rows[p].born \in Nat
         /\ p \in DOMAIN procs => procs[p].born \in 1..started /\ procs[p].born \in Nat
         /\ started \in Nat
<1>1. started \in Nat
  BY KillAssumption DEF KillTypes
<1>2. p \in DOMAIN rows => rows[p].born \in 1..started
  BY DEF KillTypes
<1>3. p \in DOMAIN procs => procs[p].born \in 1..started
  BY DEF KillTypes
<1> QED BY <1>1, <1>2, <1>3

LEMMA StartKeepsOldest ==
  ASSUME OldestIInv, NEW pid \in Pids, NEW prog \in Programs, Start(pid, prog)
  PROVE  TablesHold' /\ SentHold' /\ OldestIsKept'
<1>1. /\ KillTypes /\ TablesHold /\ pid \notin DOMAIN procs /\ started \in Nat
      /\ started' = started + 1 /\ DOMAIN procs' = DOMAIN procs \cup {pid}
      /\ procs'[pid].born = started + 1
      /\ \A p \in DOMAIN procs : procs'[p] = procs[p]
      /\ UNCHANGED << rows, groups, sent, job >>
  BY KillAssumption DEF OldestIInv, KillTypes, Start, With, tableVars
<1>2. HostMoves /\ GroupsGrow
  BY <1>1 DEF HostMoves, GroupsGrow
<1>3. \A h \in Handlers : ExtrasOf(job[h])'
  BY <1>1, <1>2, JobStands
<1>4. ASSUME NEW born \in Nat, NEW p \in Pids, Seen(born, p)'
      PROVE  Seen(born, p) \/ (born = started + 1 /\ p = pid)
  BY <1>1, <1>4 DEF Seen
<1>5. ASSUME NEW born \in Nat, NEW p \in Pids, Seen(born, p)
      PROVE  born \in 1..started /\ born # started + 1 /\ \A q \in Pids : Seen(born, q) => q = p
  BY <1>1, <1>5 DEF TablesHold, OnePid
<1>6. OnePid'
  <2> SUFFICES ASSUME NEW born \in Nat, NEW p \in Pids, Seen(born, p)'
               PROVE  born \in 1..(started + 1) /\ \A q \in Pids : Seen(born, q)' => q = p
    BY <1>1 DEF OnePid
  <2> HIDE <1>1
  <2>1. born \in 1..(started + 1)
    BY <1>1, <1>4, <1>5
  <2>2. ASSUME NEW q \in Pids, Seen(born, q)' PROVE q = p
    BY <1>4, <1>5, <2>2
  <2> QED BY <2>1, <2>2
<1>7. ASSUME NEW p \in Pids, p \in DOMAIN rows PROVE rows[p].born < started + 1 /\ rows[p].born <= started + 1
  <2>1. rows[p].born \in 1..started /\ rows[p].born \in Nat /\ started \in Nat
    BY <1>1, <1>7, RowAt
  <2> QED BY <2>1
<1>8. RowsTrail'
  <2>1. DOMAIN rows \subseteq Pids /\ RowsTrail
    BY <1>1 DEF KillTypes, TablesHold
  <2> QED BY <1>1, <1>7, <2>1 DEF RowsTrail
<1>9. GroupsHold'
  <2> SUFFICES ASSUME NEW g \in DOMAIN groups
               PROVE  /\ groups[g].who \subseteq 1..(started + 1)
                      /\ \A p \in groups[g].pids :
                            /\ p \in DOMAIN rows => InOrAfter(rows[p].born, groups[g].who)
                            /\ p \in DOMAIN procs' => InOrAfter(procs'[p].born, groups[g].who)
    BY <1>1 DEF GroupsHold
  <2>1. groups[g].who \subseteq 1..started /\ groups[g].pids \in SUBSET Pids
    BY <1>1, GroupAt DEF TablesHold, GroupsHold
  <2>2. groups[g].who \subseteq 1..(started + 1) /\ \A b \in groups[g].who : b < started + 1
    BY <1>1, <2>1
  <2>3. InOrAfter(started + 1, groups[g].who)
    BY <2>2 DEF InOrAfter
  <2> QED BY <1>1, <2>2, <2>3 DEF TablesHold, GroupsHold
<1>10. SentHold' /\ OldestIsKept'
  BY <1>1, <1>2, SentKept DEF OldestIInv
<1> QED BY <1>1, <1>3, <1>6, <1>8, <1>9, <1>10 DEF TablesHold

LEMMA LeaveKeepsOldest ==
  ASSUME OldestIInv, NEW pid \in Pids, Exit(pid) \/ Obey(pid)
  PROVE  TablesHold' /\ SentHold' /\ OldestIsKept'
<1>1. /\ KillTypes /\ TablesHold /\ started \in Nat
      /\ DOMAIN procs' \subseteq DOMAIN procs
      /\ \A p \in DOMAIN procs' : procs'[p] = procs[p]
      /\ UNCHANGED << started, rows, groups, sent, job >>
  BY KillAssumption DEF OldestIInv, KillTypes, Exit, Obey, Without, tableVars
<1>2. HostMoves /\ GroupsGrow
  BY <1>1 DEF HostMoves, GroupsGrow
<1>3. \A h \in Handlers : ExtrasOf(job[h])'
  BY <1>1, <1>2, JobStands
<1>4. OnePid'
  <2>1. \A born \in Nat, p \in Pids : Seen(born, p)' => Seen(born, p)
    BY <1>1 DEF Seen
  <2> QED BY <1>1, <2>1, OnePidStands
<1>5. RowsTrail' /\ GroupsHold'
  BY <1>1 DEF TablesHold, RowsTrail, GroupsHold
<1>6. SentHold' /\ OldestIsKept'
  BY <1>1, <1>2, SentKept DEF OldestIInv
<1> QED BY <1>1, <1>3, <1>4, <1>5, <1>6 DEF TablesHold

LEMMA ScanKeepsOldest ==
  ASSUME OldestIInv, Scan
  PROVE  TablesHold' /\ SentHold' /\ OldestIsKept'
<1>1. /\ KillTypes /\ TablesHold /\ started \in Nat
      /\ rows' = Upserted /\ groups' = groups \o NewGroups
      /\ UNCHANGED << started, procs, sent, job >>
  BY KillAssumption DEF OldestIInv, KillTypes, Scan, hostVars
<1>2. /\ groups \in Seq(GroupRows) /\ NewGroups \in Seq(GroupRows)
  BY <1>1, NewGroupsAre DEF KillTypes
<1>3. /\ \A g \in DOMAIN groups : g \in DOMAIN groups' /\ groups'[g] = groups[g]
      /\ \A g \in DOMAIN groups' : g \in DOMAIN groups \/
            \E i \in DOMAIN NewGroups : groups'[g] = NewGroups[i]
  <2>1. /\ DOMAIN groups = 1..Len(groups) /\ DOMAIN NewGroups = 1..Len(NewGroups)
        /\ DOMAIN groups' = 1..(Len(groups) + Len(NewGroups))
        /\ Len(groups) \in Nat /\ Len(NewGroups) \in Nat
        /\ \A g \in DOMAIN groups' : groups'[g] = IF g <= Len(groups) THEN groups[g] ELSE NewGroups[g - Len(groups)]
    BY <1>1, <1>2
  <2>2. \A g \in DOMAIN groups' : g \notin DOMAIN groups => g - Len(groups) \in DOMAIN NewGroups
    BY <2>1
  <2> QED BY <2>1, <2>2
<1>4. HostMoves /\ GroupsGrow
  BY <1>1, <1>3 DEF HostMoves, GroupsGrow
<1>5. \A h \in Handlers : ExtrasOf(job[h])'
  BY <1>1, <1>4, JobStands
<1>6. ASSUME NEW p \in DOMAIN rows'
      PROVE  /\ p \in DOMAIN procs => rows'[p].born = procs[p].born
             /\ p \notin DOMAIN procs => p \in DOMAIN rows /\ rows'[p].born = rows[p].born
  BY <1>1, UpsertedRows
<1>7. OnePid'
  <2>1. \A born \in Nat, p \in Pids : Seen(born, p)' => Seen(born, p)
    BY <1>1, <1>6 DEF Seen
  <2> QED BY <1>1, <2>1, OnePidStands
<1>8. RowsTrail'
  <2>1. \A p \in DOMAIN rows' : p \in DOMAIN procs => rows'[p].born <= procs[p].born
    <3>1. \A p \in DOMAIN procs : procs[p].born \in Nat
      BY <1>1 DEF KillTypes
    <3> QED BY <1>6, <3>1
  <2> QED BY <1>1, <2>1 DEF RowsTrail
<1>9. ASSUME NEW g \in DOMAIN groups'
      PROVE  /\ groups'[g].who \subseteq 1..started
             /\ \A p \in groups'[g].pids :
                   /\ p \in DOMAIN rows' => InOrAfter(rows'[p].born, groups'[g].who)
                   /\ p \in DOMAIN procs => InOrAfter(procs[p].born, groups'[g].who)
  <2>1. CASE g \in DOMAIN groups
    <3>1. groups'[g] = groups[g]
      BY <1>3, <2>1
    <3>2. /\ groups[g].who \subseteq 1..started
          /\ \A p \in groups[g].pids :
                /\ p \in DOMAIN rows => InOrAfter(rows[p].born, groups[g].who)
                /\ p \in DOMAIN procs => InOrAfter(procs[p].born, groups[g].who)
      BY <1>1, <2>1 DEF TablesHold, GroupsHold
    <3> QED BY <1>6, <3>1, <3>2
  <2>2. CASE g \notin DOMAIN groups
    <3>1. PICK prog \in Programs : /\ groups'[g].pids = Instances(prog)
                                   /\ groups'[g].who = {procs[p].born : p \in Instances(prog)}
      BY <1>1, <1>3, <2>2, NewGroupsAre
    <3>2. \A p \in Instances(prog) : p \in DOMAIN procs /\ procs[p].born \in groups'[g].who
      BY <3>1 DEF Instances
    <3>3. groups'[g].who \subseteq 1..started
      BY <1>1, <3>1, <3>2 DEF KillTypes
    <3> QED BY <1>6, <3>1, <3>2, <3>3 DEF InOrAfter
  <2> QED BY <2>1, <2>2
<1>10. GroupsHold'
  BY <1>1, <1>9 DEF GroupsHold
<1>11. SentHold' /\ OldestIsKept'
  BY <1>1, <1>4, SentKept DEF OldestIInv
<1> QED BY <1>1, <1>5, <1>7, <1>8, <1>10, <1>11 DEF TablesHold

\* A handler's step, apart from its signal.
LEMMA HandlerKeeps ==
  ASSUME OldestIInv, NEW h \in Handlers, NEW j \in Jobs, InPlace(j), Set(h, j),
         UNCHANGED << hostVars, rows >>, GroupsGrow,
         DOMAIN groups' = DOMAIN groups, ExtrasOf(j),
         j.kind = "extras" => \A i \in DOMAIN j.members : Seen(j.members[i].born, j.members[i].pid)
  PROVE  TablesHold'
<1>1. /\ KillTypes /\ TablesHold /\ UNCHANGED << started, procs, rows >>
      /\ job'[h] = j /\ \A g \in Handlers \ {h} : job'[g] = job[g]
  BY SetTypes DEF OldestIInv, hostVars
<1>3. \A g \in Handlers : ExtrasOf(job'[g])
  BY <1>1 DEF TablesHold
<1>4. \A g \in Handlers : ExtrasOf(job[g])'
  <2>1. \A g \in Handlers : /\ job'[g].kind = "extras" => job'[g].group \in DOMAIN groups
    BY <1>3 DEF ExtrasOf
  <2> QED BY <1>1, <1>3, <2>1 DEF ExtrasOf, Trailing, Reading, Chosen, GroupsGrow
<1>5. OnePid'
  <2>1. ASSUME NEW born \in Nat, NEW p \in Pids, Seen(born, p)' PROVE Seen(born, p)
    BY <1>1, <2>1 DEF Seen
  <2> QED BY <1>1, <2>1, OnePidStands
<1>6. RowsTrail'
  BY <1>1 DEF TablesHold, RowsTrail
<1>7. GroupsHold'
  BY <1>1 DEF TablesHold, GroupsHold, GroupsGrow
<1> QED BY <1>4, <1>5, <1>6, <1>7 DEF TablesHold

\* A handler that signals nobody, and leaves the tables alone.
LEMMA QuietKeepsOldest ==
  ASSUME OldestIInv, NEW h \in Handlers, NEW j \in Jobs, InPlace(j), Set(h, j),
         UNCHANGED << hostVars, tableVars, sent >>, ExtrasOf(j),
         j.kind = "extras" => \A i \in DOMAIN j.members : Seen(j.members[i].born, j.members[i].pid)
  PROVE  TablesHold' /\ SentHold' /\ OldestIsKept'
<1>1. UNCHANGED << hostVars, rows, groups, sent >>
  BY DEF tableVars
<1>2. GroupsGrow /\ DOMAIN groups' = DOMAIN groups
  BY <1>1 DEF GroupsGrow
<1> QED BY <1>1, <1>2, HandlerKeeps, SentKept DEF OldestIInv

LEMMA OtherKinds ==
  ASSUME OldestIInv, NEW h \in Handlers, NEW j \in Jobs, InPlace(j), j.kind # "extras", Set(h, j),
         UNCHANGED << hostVars, tableVars, sent >>
  PROVE  TablesHold' /\ SentHold' /\ OldestIsKept'
BY QuietKeepsOldest DEF ExtrasOf

LEMMA AskKeepsOldest ==
  ASSUME OldestIInv, NEW h \in Handlers, Ask(h)
  PROVE  TablesHold' /\ SentHold' /\ OldestIsKept'
<1>0. KillTypes
  BY DEF OldestIInv
<1>1. << >> \in Seq(Pids) /\ << >> \in Seq(Targets) /\ DOMAIN << >> = {}
  OBVIOUS
<1>2. ASSUME NEW g \in DOMAIN groups, BeginExtras(h, g) PROVE TablesHold' /\ SentHold' /\ OldestIsKept'
  <2> DEFINE todo == InOrder(groups[g].pids)
             j == [Idle EXCEPT !.kind = "extras", !.pc = "read", !.group = g, !.todo = todo]
  <2>1. groups[g].pids \in SUBSET Pids /\ g \in Nat
    BY <1>0, GroupAt
  <2>2. todo \in Seq(Pids) /\ todo \in Seq(groups[g].pids)
        /\ \A i, k \in DOMAIN todo : todo[i] = todo[k] => i = k
    BY <2>1, PidsInOrder
  <2>3. Set(h, j) /\ UNCHANGED << hostVars, tableVars, sent >>
    BY <1>2 DEF BeginExtras, Request
  <2> HIDE DEF todo
  <2>4. /\ j \in Jobs /\ InPlace(j) /\ j.members = << >> /\ j.kind = "extras" /\ j.pc = "read"
        /\ j.todo = todo /\ j.group = g
    BY <1>1, <2>1, <2>2 DEF Idle, Jobs, JobKinds, InPlace
  <2> HIDE DEF j
  <2>5. Trailing(j.members) /\ Reading(j)
    BY <1>1, <2>2, <2>4 DEF Trailing, Reading
  <2> QED BY <1>1, <2>3, <2>4, <2>5, QuietKeepsOldest DEF ExtrasOf
<1>3. ASSUME \/ \E pid \in Pids : BeginSingle(h, pid)
             \/ \E prog \in Programs : BeginApp(h, prog)
      PROVE  TablesHold' /\ SentHold' /\ OldestIsKept'
  <2>1. KillTypes'
    BY <1>0, <1>3, AskTypes DEF Ask
  <2>2. PICK kind, members :
          /\ kind # "extras" /\ UNCHANGED << hostVars, tableVars, sent >>
          /\ Set(h, [Idle EXCEPT !.kind = kind, !.pc = "open", !.members = members])
    BY <1>3 DEF BeginSingle, BeginApp, Request
  <2> DEFINE j == [Idle EXCEPT !.kind = kind, !.pc = "open", !.members = members]
  <2>3. j.kind # "extras" /\ Set(h, j)
    BY <2>2 DEF Idle
  <2> HIDE DEF j
  <2>4. job'[h] = j
    BY <1>0, <2>3 DEF KillTypes, Set
  <2>5. j \in Jobs /\ InPlace(j)
    BY <2>1, <2>4 DEF KillTypes
  <2> QED BY <2>2, <2>3, <2>5, OtherKinds
<1> QED BY <1>2, <1>3 DEF Ask

\* What holds of a handler with a group.
LEMMA WithGroup ==
  ASSUME OldestIInv, NEW h \in Handlers, job[h].pc \in {"read", "signal"}
  PROVE  /\ job[h] \in Jobs /\ InPlace(job[h]) /\ job[h].kind = "extras"
         /\ job[h].members \in Seq(Targets) /\ job[h].todo \in Seq(Pids)
         /\ job[h].group \in DOMAIN groups /\ Trailing(job[h].members)
         /\ job[h].pc = "read" => Reading(job[h])
         /\ job[h].pc = "signal" => Chosen(job[h])
         /\ \A i \in DOMAIN job[h].members : Seen(job[h].members[i].born, job[h].members[i].pid)
<1>1. job[h] \in Jobs /\ InPlace(job[h]) /\ ExtrasOf(job[h])
  BY DEF OldestIInv, KillTypes, TablesHold
<1>2. job[h].kind = "extras"
  BY <1>1 DEF InPlace
<1>3. job[h].members \in Seq(Targets) /\ job[h].todo \in Seq(Pids)
  BY <1>1 DEF Jobs
<1>4. \A i \in DOMAIN job[h].members : Seen(job[h].members[i].born, job[h].members[i].pid)
  BY <1>2 DEF Seen
<1> QED BY <1>1, <1>2, <1>3, <1>4 DEF ExtrasOf

LEMMA ReadKeepsOldest ==
  ASSUME OldestIInv, NEW h \in Handlers, ReadMember(h)
  PROVE  TablesHold' /\ SentHold' /\ OldestIsKept'
<1> DEFINE was == job[h]
           pid == Head(was.todo)
           m == [pid |-> pid, born |-> rows[pid].born]
           members == IF pid \in DOMAIN rows THEN Append(was.members, m) ELSE was.members
           todo == Tail(was.todo)
           j == [was EXCEPT !.todo = todo, !.members = members]
           who == groups[was.group].who
<1>1. was.pc = "read" /\ was.todo # << >> /\ Set(h, j) /\ UNCHANGED << hostVars, tableVars, sent, log >>
  BY DEF ReadMember
<1>2. /\ KillTypes /\ TablesHold /\ was \in Jobs /\ InPlace(was) /\ was.kind = "extras"
      /\ was.members \in Seq(Targets) /\ was.todo \in Seq(Pids)
      /\ was.group \in DOMAIN groups /\ Trailing(was.members) /\ Reading(was)
      /\ \A i \in DOMAIN was.members : Seen(was.members[i].born, was.members[i].pid)
  BY <1>1, WithGroup DEF OldestIInv
<1>3. /\ was.todo \in Seq(groups[was.group].pids)
      /\ \A i, k \in DOMAIN was.todo : was.todo[i] = was.todo[k] => i = k
      /\ \A i, k \in DOMAIN was.members : was.members[i].pid = was.members[k].pid => i = k
      /\ \A i \in DOMAIN was.members, k \in DOMAIN was.todo : was.members[i].pid # was.todo[k]
      /\ \A i \in DOMAIN was.members : InOrAfter(was.members[i].born, who)
  BY <1>2 DEF Reading
<1> HIDE DEF was
<1>4. /\ pid \in Pids /\ pid \in groups[was.group].pids /\ todo \in Seq(Pids) /\ todo \in Seq(groups[was.group].pids)
      /\ pid = was.todo[1] /\ 1 \in DOMAIN was.todo
      /\ \A i \in DOMAIN todo : i \in Nat \ {0} /\ i + 1 \in DOMAIN was.todo /\ todo[i] = was.todo[i + 1]
  BY <1>1, <1>2, <1>3, TailOf
<1> HIDE DEF pid, todo, who
<1>5. /\ pid \in DOMAIN rows => /\ m \in Targets /\ m.pid = pid /\ m.born = rows[pid].born /\ Seen(m.born, m.pid)
                                /\ InOrAfter(m.born, who)
                                /\ pid \in DOMAIN procs => m.born <= procs[pid].born
  <2> SUFFICES ASSUME pid \in DOMAIN rows
               PROVE  /\ m \in Targets /\ m.pid = pid /\ m.born = rows[pid].born /\ Seen(m.born, m.pid)
                      /\ InOrAfter(m.born, who)
                      /\ pid \in DOMAIN procs => m.born <= procs[pid].born
    OBVIOUS
  <2>1. rows[pid].born \in 1..started /\ started \in 0..MaxStarts
    BY <1>2 DEF KillTypes
  <2>2. rows[pid].born \in 0..MaxStarts
    BY <2>1, KillAssumption
  <2>3. m \in Targets /\ m.pid = pid /\ m.born = rows[pid].born
    BY <1>4, <2>2 DEF Targets
  <2>4. Seen(m.born, m.pid)
    BY <2>3 DEF Seen
  <2>5. InOrAfter(rows[pid].born, who)
    BY <1>2, <1>4 DEF TablesHold, GroupsHold, who
  <2>6. pid \in DOMAIN procs => rows[pid].born <= procs[pid].born
    BY <1>2 DEF TablesHold, RowsTrail
  <2> QED BY <2>3, <2>4, <2>5, <2>6
<1> HIDE DEF m
<1>6. \/ members = was.members
      \/ /\ pid \in DOMAIN rows /\ members = Append(was.members, m)
  OBVIOUS
<1> HIDE DEF members
<1>7. /\ members \in Seq(Targets)
      /\ \A i \in DOMAIN members : \/ i \in DOMAIN was.members /\ members[i] = was.members[i]
                                   \/ pid \in DOMAIN rows /\ members[i] = m /\ i = Len(was.members) + 1
      /\ Len(was.members) + 1 \notin DOMAIN was.members
  <2>1. Len(was.members) + 1 \notin DOMAIN was.members
    BY <1>2
  <2>2. CASE members = was.members
    BY <1>2, <2>1, <2>2
  <2>3. CASE pid \in DOMAIN rows /\ members = Append(was.members, m)
    <3>1. m \in Targets /\ was.members \in Seq(Targets)
      BY <1>2, <1>5, <2>3
    <3> QED BY <2>1, <2>3, <3>1, AppendOf
  <2> QED BY <1>6, <2>2, <2>3
<1>8. /\ j \in Jobs /\ InPlace(j) /\ j.kind = "extras" /\ j.pc = "read" /\ j.members = members /\ j.todo = todo
      /\ j.group = was.group
  <2>1. j \in Jobs /\ InPlace(j)
    BY <1>1, <1>2, <1>4, <1>7, JobSteps
  <2> QED BY <1>1, <1>2, <2>1 DEF Jobs
<1> HIDE DEF j
<1>9. Trailing(members)
  BY <1>2, <1>5, <1>7 DEF Trailing
<1>10. \A i \in DOMAIN members : Seen(members[i].born, members[i].pid)
  BY <1>2, <1>5, <1>7
<1>11. \A i, k \in DOMAIN todo : todo[i] = todo[k] => i = k
  <2> SUFFICES ASSUME NEW i \in DOMAIN todo, NEW k \in DOMAIN todo, todo[i] = todo[k] PROVE i = k
    OBVIOUS
  <2>1. i + 1 = k + 1 /\ i \in Nat /\ k \in Nat
    BY <1>3, <1>4
  <2> QED BY <2>1
<1>12. \A k \in DOMAIN todo : todo[k] # pid
  <2> SUFFICES ASSUME NEW k \in DOMAIN todo, todo[k] = pid PROVE FALSE
    OBVIOUS
  <2>1. k + 1 = 1 /\ k \in Nat \ {0}
    BY <1>3, <1>4
  <2> QED BY <2>1
<1>13. \A i \in DOMAIN was.members : was.members[i].pid # pid
  BY <1>3, <1>4
<1>14. \A i, k \in DOMAIN members : members[i].pid = members[k].pid => i = k
  BY <1>3, <1>5, <1>7, <1>13
<1>15. \A i \in DOMAIN members, k \in DOMAIN todo : members[i].pid # todo[k]
  BY <1>3, <1>4, <1>5, <1>7, <1>12
<1>16. \A i \in DOMAIN members : InOrAfter(members[i].born, who)
  BY <1>3, <1>5, <1>7
<1>17. Reading(j)
  BY <1>4, <1>8, <1>11, <1>14, <1>15, <1>16 DEF Reading, who
<1>18. ExtrasOf(j)
  BY <1>2, <1>8, <1>9, <1>17 DEF ExtrasOf
<1> QED BY <1>1, <1>8, <1>10, <1>18, QuietKeepsOldest

LEMMA ChooseKeepsOldest ==
  ASSUME OldestIInv, NEW h \in Handlers, ChooseKeep(h)
  PROVE  TablesHold' /\ SentHold' /\ OldestIsKept'
<1> DEFINE was == job[h]
           sorted == ByAge(was.members)
           rest == Tail(sorted)
           j == [was EXCEPT !.pc = "signal", !.members = rest]
           who == groups[was.group].who
<1>1. /\ was.pc = "read" /\ UNCHANGED << hostVars, tableVars, sent, log >>
      /\ Set(h, IF Len(sorted) < 2 THEN Idle ELSE j)
  BY DEF ChooseKeep
<1>2. /\ KillTypes /\ TablesHold /\ was \in Jobs /\ InPlace(was) /\ was.kind = "extras"
      /\ was.members \in Seq(Targets)
      /\ was.group \in DOMAIN groups /\ Trailing(was.members) /\ Reading(was)
      /\ \A i \in DOMAIN was.members : Seen(was.members[i].born, was.members[i].pid)
  BY <1>1, WithGroup DEF OldestIInv
<1>3. CASE Len(sorted) < 2
  BY <1>1, <1>3, IdleType, OtherKinds DEF Idle
<1>4. CASE ~(Len(sorted) < 2)
  <2>1. /\ sorted \in Seq(Targets) /\ Len(sorted) = Len(was.members)
        /\ \A i \in DOMAIN was.members : \E k \in DOMAIN was.members : sorted[i] = was.members[k]
        /\ \A i, k \in DOMAIN was.members : i < k =>
              /\ sorted[i].born <= sorted[k].born
              /\ \E m, l \in DOMAIN was.members :
                    m # l /\ sorted[i] = was.members[m] /\ sorted[k] = was.members[l]
    BY <1>2, ByAgeSorts
  <2>20. Set(h, j)
    BY <1>1, <1>4
  <2> HIDE DEF was, sorted, who
  <2>2. /\ rest \in Seq(Targets) /\ 1 \in DOMAIN was.members
        /\ \A i \in DOMAIN rest : i + 1 \in DOMAIN was.members /\ rest[i] = sorted[i + 1] /\ 1 < i + 1
    BY <1>2, <1>4, <2>1
  <2> HIDE DEF rest
  <2>3. /\ j \in Jobs /\ InPlace(j) /\ j.kind = "extras" /\ j.pc = "signal" /\ j.members = rest /\ j.group = was.group
    <3>1. j \in Jobs /\ InPlace(j)
      BY <1>1, <1>2, <2>2, JobSteps
    <3> QED BY <1>1, <1>2, <3>1 DEF Jobs
  <2> HIDE DEF j
  <2>4. \A i \in DOMAIN rest : \E k \in DOMAIN was.members : rest[i] = was.members[k]
    BY <2>1, <2>2
  <2>5. Trailing(rest) /\ \A i \in DOMAIN rest : Seen(rest[i].born, rest[i].pid)
    BY <1>2, <2>4 DEF Trailing
  <2>6. \A i \in DOMAIN was.members : was.members[i].born \in Nat /\ was.members[i].pid \in Pids
    BY <1>2, MemberAt DEF was
  <2>7. sorted[1].born \in Nat /\ InOrAfter(sorted[1].born, who)
    BY <1>2, <2>1, <2>2, <2>6 DEF Reading, who
  <2>8. ASSUME NEW i \in DOMAIN rest PROVE sorted[1].born < rest[i].born
    <3>1. PICK m, l \in DOMAIN was.members : m # l /\ sorted[1] = was.members[m] /\ rest[i] = was.members[l]
      BY <2>1, <2>2
    <3>2. sorted[1].born <= rest[i].born
      BY <2>1, <2>2
    <3>3. was.members[m].pid # was.members[l].pid
      BY <1>2, <3>1 DEF Reading
    <3>4. was.members[m].born # was.members[l].born
      BY <1>2, <2>6, <3>3 DEF TablesHold, OnePid
    <3>5. sorted[1].born \in Nat /\ rest[i].born \in Nat
      BY <2>6, <3>1
    <3> QED BY <3>1, <3>2, <3>4, <3>5
  <2>9. Chosen(j)
    BY <2>3, <2>7, <2>8 DEF Chosen, who
  <2>10. ExtrasOf(j)
    BY <1>2, <2>3, <2>5, <2>9 DEF ExtrasOf
  <2> QED BY <1>1, <2>20, <2>3, <2>5, <2>10, QuietKeepsOldest
<1> QED BY <1>3, <1>4

LEMMA SignalKeepsOldest ==
  ASSUME OldestIInv, NEW h \in Handlers, SignalExtra(h)
  PROVE  TablesHold' /\ SentHold' /\ OldestIsKept'
<1> DEFINE was == job[h]
           m == Head(was.members)
           rest == Tail(was.members)
           j == [was EXCEPT !.members = rest]
           who == groups[was.group].who
           e == [to |-> procs[m.pid].born, pid |-> m.pid, sig |-> "TERM", by |-> was.kind, group |-> was.group]
<1>1. /\ was.pc = "signal" /\ was.members # << >> /\ UNCHANGED << hostVars, tableVars >>
      /\ Set(h, j)
      /\ \/ UNCHANGED sent
         \/ Live(m.pid) /\ sent' = Append(sent, e)
  BY DEF SignalExtra, Deliver
<1>2. /\ KillTypes /\ was \in Jobs /\ InPlace(was) /\ was.kind = "extras"
      /\ was.members \in Seq(Targets) /\ SentHold /\ OldestIsKept
      /\ was.group \in DOMAIN groups /\ Trailing(was.members) /\ Chosen(was)
      /\ \A i \in DOMAIN was.members : Seen(was.members[i].born, was.members[i].pid)
  BY <1>1, WithGroup DEF OldestIInv
<1>21. m.pid \in Pids /\ m.born \in Nat
  <2>1. m.pid \in Pids /\ m.born \in 0..MaxStarts
    BY <1>1, <1>2, FirstTarget
  <2> QED BY <2>1
<1> HIDE DEF was
<1>3. /\ m = was.members[1] /\ 1 \in DOMAIN was.members /\ rest \in Seq(Targets)
      /\ \A i \in DOMAIN rest : i + 1 \in DOMAIN was.members /\ rest[i] = was.members[i + 1]
  BY <1>1, <1>2, FirstTarget
<1> HIDE DEF rest, m, who
<1>4. /\ j \in Jobs /\ InPlace(j) /\ j.kind = "extras" /\ j.pc = "signal" /\ j.members = rest /\ j.group = was.group
  BY <1>1, <1>2, <1>3 DEF Jobs, InPlace
<1> HIDE DEF j
<1>5. Trailing(rest) /\ \A i \in DOMAIN rest : Seen(rest[i].born, rest[i].pid)
  BY <1>2, <1>3 DEF Trailing
<1>6. PICK k \in Nat : InOrAfter(k, who) /\ \A i \in DOMAIN was.members : k < was.members[i].born
  BY <1>2 DEF Chosen, who
<1>7. Chosen(j)
  BY <1>3, <1>4, <1>6 DEF Chosen, who
<1>8. ExtrasOf(j)
  BY <1>2, <1>4, <1>5, <1>7 DEF ExtrasOf
<1>9. GroupsGrow /\ DOMAIN groups' = DOMAIN groups /\ UNCHANGED << hostVars, rows, groups >>
  BY <1>1 DEF tableVars, GroupsGrow
<1>10. TablesHold'
  BY <1>1, <1>4, <1>5, <1>8, <1>9, HandlerKeeps
<1>11. ASSUME Live(m.pid), procs[m.pid].born \in who
       PROVE  \E b \in who : b < procs[m.pid].born
  <2>1. m.born <= procs[m.pid].born /\ k < m.born
    BY <1>2, <1>3, <1>6, <1>11 DEF Trailing, Live
  <2>2. procs[m.pid].born \in Nat
    BY <1>2, <1>11, RowAt, <1>21 DEF Live
  <2>4. k < procs[m.pid].born
    BY <1>21, <2>1, <2>2
  <2>5. CASE k \in who
    BY <2>4, <2>5
  <2>6. CASE \A b \in who : b < k
    <3>1. procs[m.pid].born < k
      BY <1>11, <2>6
    <3> QED BY <2>2, <2>4, <3>1
  <2> QED BY <1>6, <2>5, <2>6 DEF InOrAfter
<1>12. SentHold' /\ OldestIsKept'
  <2>1. CASE UNCHANGED sent
    BY <1>2, <1>9, <2>1, SentKept
  <2>2. CASE Live(m.pid) /\ sent' = Append(sent, e)
    <3>1. e.by = "extras" /\ e.group = was.group /\ e.to = procs[m.pid].born
      BY <1>2
    <3> HIDE DEF e
    <3>2. e.to \in groups[e.group].who => \E b \in groups[e.group].who : b < e.to
      BY <1>11, <2>2, <3>1 DEF who
    <3> QED BY <1>2, <1>9, <2>2, <3>1, <3>2, SentAppends
  <2> QED BY <1>1, <2>1, <2>2
<1> QED BY <1>10, <1>12

LEMMA EndKeepsOldest ==
  ASSUME OldestIInv, NEW h \in Handlers, EndExtras(h)
  PROVE  TablesHold' /\ SentHold' /\ OldestIsKept'
<1>1. /\ UNCHANGED << hostVars, rows, sent >> /\ Set(h, Idle)
      /\ groups' = [groups EXCEPT ![job[h].group].resolved = TRUE]
  BY DEF EndExtras
<1>2. DOMAIN groups' = DOMAIN groups
  BY <1>1
<1>3. \A g \in DOMAIN groups : groups[g] \in GroupRows
  BY GroupAt DEF OldestIInv
<1>4. \A g \in DOMAIN groups : groups'[g].pids = groups[g].pids /\ groups'[g].who = groups[g].who
  <2>1. \A r \in GroupRows : [r EXCEPT !.resolved = TRUE].pids = r.pids /\ [r EXCEPT !.resolved = TRUE].who = r.who
    BY DEF GroupRows
  <2>2. \A g \in DOMAIN groups : groups'[g] = groups[g] \/ groups'[g] = [groups[g] EXCEPT !.resolved = TRUE]
    BY <1>1
  <2> QED BY <1>3, <2>1, <2>2
<1>5. GroupsGrow
  BY <1>2, <1>4 DEF GroupsGrow
<1>6. Idle.kind # "extras"
  BY DEF Idle
<1>7. TablesHold'
  BY <1>1, <1>2, <1>5, <1>6, IdleType, HandlerKeeps DEF ExtrasOf
<1> QED BY <1>1, <1>5, <1>7, SentKept DEF OldestIInv

\* kill_process and kill_app: no group, and signals of another kind.
LEMMA OthersKeepOldest ==
  ASSUME OldestIInv, NEW h \in Handlers,
         Open(h) \/ Terminate(h) \/ Waited(h) \/ WaitTimesOut(h) \/ Escalate(h) \/ Answer(h)
  PROVE  TablesHold' /\ SentHold' /\ OldestIsKept'
<1>1. KillTypes /\ job[h] \in Jobs /\ InPlace(job[h]) /\ SentHold /\ OldestIsKept
  BY DEF OldestIInv, KillTypes
<1>2. KillTypes'
  BY <1>1, OpenTypes, TerminateTypes, WaitedTypes, WaitTimesOutTypes, EscalateTypes, AnswerTypes
<1>3. job[h].pc \in {"open", "term", "wait", "kill"}
  BY DEF Open, Terminate, Waited, WaitTimesOut, Escalate, Answer
<1>4. job[h].kind # "extras"
  BY <1>1, <1>3 DEF InPlace
<1>5. UNCHANGED << hostVars, tableVars >>
  BY DEF Open, Terminate, Waited, WaitTimesOut, Escalate, Answer, Deliver
<1>6. PICK j : Set(h, j) /\ j.kind # "extras"
  <2>1. Idle.kind # "extras"
    BY DEF Idle
  <2>2. \A pc, members, proc : /\ [job[h] EXCEPT !.pc = pc].kind # "extras"
                               /\ [job[h] EXCEPT !.pc = pc, !.members = members].kind # "extras"
                               /\ [job[h] EXCEPT !.pc = pc, !.proc = proc].kind # "extras"
    BY <1>1, <1>4 DEF Jobs
  <2> QED BY <2>1, <2>2 DEF Open, Terminate, Waited, WaitTimesOut, Escalate, Answer, Proceed
<1>7. job'[h] = j
  BY <1>1, <1>6 DEF KillTypes, Set
<1>8. j \in Jobs /\ InPlace(j)
  BY <1>2, <1>7 DEF KillTypes
<1>9. GroupsGrow /\ DOMAIN groups' = DOMAIN groups /\ UNCHANGED << hostVars, rows, groups >>
  BY <1>5 DEF tableVars, GroupsGrow
<1>10. TablesHold'
  BY <1>6, <1>8, <1>9, HandlerKeeps DEF ExtrasOf
<1>11. SentHold' /\ OldestIsKept'
  <2>1. CASE UNCHANGED sent
    BY <1>1, <1>9, <2>1, SentKept
  <2>2. CASE ~UNCHANGED sent
    <3>1. PICK e : sent' = Append(sent, e) /\ e.by = job[h].kind
      BY <2>2 DEF Open, Terminate, Waited, WaitTimesOut, Escalate, Answer, Deliver
    <3> QED BY <1>1, <1>4, <1>9, <3>1, SentAppends
  <2> QED BY <2>1, <2>2
<1> QED BY <1>10, <1>11

LEMMA OldestNextInv == OldestIInv /\ [Next]_vars => OldestIInv'
<1> SUFFICES ASSUME OldestIInv, [Next]_vars PROVE OldestIInv'
  OBVIOUS
<1>1. KillTypes'
  BY KillNextTypes DEF OldestIInv
<1>2. ASSUME NEW h \in Handlers, Step(h) PROVE TablesHold' /\ SentHold' /\ OldestIsKept'
  BY <1>2, ReadKeepsOldest, ChooseKeepsOldest, SignalKeepsOldest, EndKeepsOldest, OthersKeepOldest DEF Step
<1>3. ASSUME UNCHANGED vars PROVE TablesHold' /\ SentHold' /\ OldestIsKept'
  <2>1. UNCHANGED << procs, started, rows, groups, sent, job >>
    BY <1>3 DEF vars, hostVars, tableVars
  <2>2. HostMoves /\ GroupsGrow
    BY <2>1, KillAssumption DEF HostMoves, GroupsGrow, OldestIInv, KillTypes
  <2>3. \A h \in Handlers : ExtrasOf(job[h])'
    BY <2>1, <2>2, JobStands DEF OldestIInv
  <2>4. TablesHold'
    BY <2>1, <2>3 DEF OldestIInv, TablesHold, OnePid, Seen, RowsTrail, GroupsHold
  <2> QED BY <2>1, <2>2, <2>4, SentKept DEF OldestIInv
<1>4. TablesHold' /\ SentHold' /\ OldestIsKept'
  BY <1>2, <1>3, StartKeepsOldest, LeaveKeepsOldest, ScanKeepsOldest, AskKeepsOldest DEF Next
<1> QED BY <1>1, <1>4 DEF OldestIInv

LEMMA OldestInitInv == Init => OldestIInv
<1> SUFFICES ASSUME Init PROVE OldestIInv
  OBVIOUS
<1>1. KillTypes
  BY KillInitTypes
<1>2. /\ DOMAIN procs = {} /\ DOMAIN rows = {} /\ DOMAIN groups = {} /\ DOMAIN sent = {} /\ ToSet(sent) = {}
      /\ \A h \in Handlers : job[h].kind # "extras"
  BY DEF Init, Idle, ToSet
<1>3. TablesHold
  BY <1>2 DEF TablesHold, OnePid, Seen, RowsTrail, GroupsHold, ExtrasOf
<1> QED BY <1>1, <1>2, <1>3 DEF OldestIInv, SentHold, OldestIsKept

\* Of the processes a group was reported for, kill-extras of that group never
\* signals the oldest (kill_duplicate_extras), for any number of handlers,
\* pids, processes and stale rows: each click reads the table on its own, row
\* by row, while pids change hands below it.
THEOREM OldestKept == Spec => []OldestIsKept
<1>1. OldestIInv => OldestIsKept
  BY DEF OldestIInv
<1> QED BY <1>1, OldestInitInv, OldestNextInv, PTL DEF Spec

-----------------------------------------------------------------------------
(* KillWorkflow: the kill log                                              *)

Logged(pid) == {i \in DOMAIN log : log[i].pid = pid}
Termed(pid) == {i \in DOMAIN sent : sent[i].pid = pid /\ sent[i].sig = "TERM"}

\* The handlers that have signalled a process under the pid, and have yet to
\* log it.
Unlogged(pid) == {h \in Handlers : job[h].pc \in {"wait", "kill"} /\ job[h].proc.pid = pid}

CountIInv ==
    /\ KillTypes
    /\ \A pid \in Pids :
          /\ IsFiniteSet(Unlogged(pid))
          /\ Cardinality(Logged(pid)) + Cardinality(Unlogged(pid)) <= Cardinality(Termed(pid))

\* One more entry, and the entries that are counted.
LEMMA CountAppended ==
  ASSUME NEW S, NEW s \in Seq(S), NEW e, NEW old, NEW new,
         old \subseteq DOMAIN s,
         new = old \/ new = old \cup {Len(s) + 1}
  PROVE  /\ Cardinality(old) \in Nat /\ Cardinality(new) \in Nat
         /\ new # old => Cardinality(new) = Cardinality(old) + 1
<1>1. IsFiniteSet(DOMAIN s) /\ Len(s) + 1 \notin DOMAIN s
  BY FS_Interval
<1>2. IsFiniteSet(old)
  BY <1>1, FS_Subset
<1>3. Cardinality(old) \in Nat /\ Len(s) + 1 \notin old
  BY <1>1, <1>2, FS_CardinalityType
<1>4. Cardinality(old \cup {Len(s) + 1}) = Cardinality(old) + 1
  BY <1>2, <1>3, FS_AddElement
<1>5. CASE new = old
  BY <1>3, <1>5
<1>6. CASE new = old \cup {Len(s) + 1}
  BY <1>3, <1>4, <1>6
<1> QED BY <1>5, <1>6

LEMMA LogCount ==
  ASSUME KillTypes, NEW pid
  PROVE  /\ Cardinality(Logged(pid)) \in Nat
         /\ log' = log => Logged(pid)' = Logged(pid)
         /\ \A e : log' = Append(log, e) =>
               Cardinality(Logged(pid)') = Cardinality(Logged(pid)) + IF e.pid = pid THEN 1 ELSE 0
<1>1. log \in Seq(Targets) /\ Logged(pid) \subseteq DOMAIN log
  BY DEF KillTypes, Logged
<1>2. Cardinality(Logged(pid)) \in Nat
  BY <1>1, CountAppended
<1>3. ASSUME NEW e, log' = Append(log, e)
      PROVE  Cardinality(Logged(pid)') = Cardinality(Logged(pid)) + IF e.pid = pid THEN 1 ELSE 0
  <2>1. /\ DOMAIN log = 1..Len(log) /\ Len(log) \in Nat
        /\ DOMAIN log' = 1..(Len(log) + 1)
        /\ log'[Len(log) + 1] = e /\ \A i \in 1..Len(log) : log'[i] = log[i]
    BY <1>1, <1>3
  <2>2. /\ \A i \in DOMAIN log' : i \in DOMAIN log \/ i = Len(log) + 1
        /\ DOMAIN log \subseteq DOMAIN log' /\ Len(log) + 1 \in DOMAIN log'
        /\ Len(log) + 1 \notin DOMAIN log
    BY <2>1
  <2>3. /\ e.pid = pid => Logged(pid)' = Logged(pid) \cup {Len(log) + 1}
        /\ e.pid # pid => Logged(pid)' = Logged(pid)
    BY <2>1, <2>2 DEF Logged
  <2>4. e.pid = pid => Logged(pid)' # Logged(pid)
    BY <2>2, <2>3 DEF Logged
  <2> QED BY <1>1, <1>2, <2>3, <2>4, CountAppended
<1> QED BY <1>2, <1>3 DEF Logged

LEMMA SentCount ==
  ASSUME KillTypes, NEW pid
  PROVE  /\ Cardinality(Termed(pid)) \in Nat
         /\ sent' = sent => Termed(pid)' = Termed(pid)
         /\ \A e : sent' = Append(sent, e) =>
               Cardinality(Termed(pid)') = Cardinality(Termed(pid)) + IF e.pid = pid /\ e.sig = "TERM" THEN 1 ELSE 0
<1>1. sent \in Seq(Signals) /\ Termed(pid) \subseteq DOMAIN sent
  BY DEF KillTypes, Termed
<1>2. Cardinality(Termed(pid)) \in Nat
  BY <1>1, CountAppended
<1>3. ASSUME NEW e, sent' = Append(sent, e)
      PROVE  Cardinality(Termed(pid)') = Cardinality(Termed(pid)) + IF e.pid = pid /\ e.sig = "TERM" THEN 1 ELSE 0
  <2>1. /\ DOMAIN sent = 1..Len(sent) /\ Len(sent) \in Nat
        /\ DOMAIN sent' = 1..(Len(sent) + 1)
        /\ sent'[Len(sent) + 1] = e /\ \A i \in 1..Len(sent) : sent'[i] = sent[i]
    BY <1>1, <1>3
  <2>2. /\ \A i \in DOMAIN sent' : i \in DOMAIN sent \/ i = Len(sent) + 1
        /\ DOMAIN sent \subseteq DOMAIN sent' /\ Len(sent) + 1 \in DOMAIN sent'
        /\ Len(sent) + 1 \notin DOMAIN sent
    BY <2>1
  <2>3. /\ e.pid = pid /\ e.sig = "TERM" => Termed(pid)' = Termed(pid) \cup {Len(sent) + 1}
        /\ ~(e.pid = pid /\ e.sig = "TERM") => Termed(pid)' = Termed(pid)
    BY <2>1, <2>2 DEF Termed
  <2>4. e.pid = pid /\ e.sig = "TERM" => Termed(pid)' # Termed(pid)
    BY <2>2, <2>3 DEF Termed
  <2> QED BY <1>1, <1>2, <2>3, <2>4, CountAppended
<1> QED BY <1>2, <1>3 DEF Termed

LEMMA WaitCount ==
  ASSUME NEW pid, IsFiniteSet(Unlogged(pid)), NEW h \in Handlers,
         \A g \in Handlers \ {h} : job'[g] = job[g]
  PROVE  /\ Cardinality(Unlogged(pid)) \in Nat /\ IsFiniteSet(Unlogged(pid)')
         /\ Cardinality(Unlogged(pid)') + (IF h \in Unlogged(pid) THEN 1 ELSE 0)
               = Cardinality(Unlogged(pid)) + (IF h \in Unlogged(pid)' THEN 1 ELSE 0)
<1> DEFINE rest == Unlogged(pid) \ {h}
<1>1. /\ IsFiniteSet(rest) /\ Cardinality(rest) \in Nat /\ h \notin rest
  BY FS_Subset, FS_CardinalityType
<1>2. /\ h \in Unlogged(pid) => Unlogged(pid) = rest \cup {h}
      /\ h \notin Unlogged(pid) => Unlogged(pid) = rest
      /\ h \in Unlogged(pid)' => Unlogged(pid)' = rest \cup {h}
      /\ h \notin Unlogged(pid)' => Unlogged(pid)' = rest
  BY DEF Unlogged
<1> HIDE DEF rest
<1>3. IsFiniteSet(rest \cup {h}) /\ Cardinality(rest \cup {h}) = Cardinality(rest) + 1
  BY <1>1, FS_AddElement
<1> QED BY <1>1, <1>2, <1>3

\* A handler moves on: for each pid, what is logged and left to log grows by no
\* more than what was signalled.
LEMMA CountStep ==
  ASSUME CountIInv, KillTypes', NEW h \in Handlers, NEW j \in Jobs, InPlace(j), Set(h, j),
         NEW pid \in Pids, NEW logs \in {0, 1}, NEW terms \in {0, 1},
         \/ logs = 0 /\ log' = log
         \/ \E e : log' = Append(log, e) /\ logs = IF e.pid = pid THEN 1 ELSE 0,
         \/ terms = 0 /\ sent' = sent
         \/ \E e : sent' = Append(sent, e) /\ terms = IF e.pid = pid /\ e.sig = "TERM" THEN 1 ELSE 0,
         logs + (IF j.pc \in {"wait", "kill"} /\ j.proc.pid = pid THEN 1 ELSE 0)
            <= terms + (IF job[h].pc \in {"wait", "kill"} /\ job[h].proc.pid = pid THEN 1 ELSE 0)
  PROVE  /\ IsFiniteSet(Unlogged(pid)')
         /\ Cardinality(Logged(pid)') + Cardinality(Unlogged(pid)') <= Cardinality(Termed(pid)')
<1>1. KillTypes /\ IsFiniteSet(Unlogged(pid))
      /\ Cardinality(Logged(pid)) + Cardinality(Unlogged(pid)) <= Cardinality(Termed(pid))
  BY DEF CountIInv
<1>2. job'[h] = j /\ \A g \in Handlers \ {h} : job'[g] = job[g]
  BY <1>1, SetTypes
<1>3. /\ h \in Unlogged(pid) <=> job[h].pc \in {"wait", "kill"} /\ job[h].proc.pid = pid
      /\ h \in Unlogged(pid)' <=> j.pc \in {"wait", "kill"} /\ j.proc.pid = pid
  BY <1>2 DEF Unlogged
<1>4. /\ Cardinality(Logged(pid)) \in Nat /\ Cardinality(Logged(pid)') = Cardinality(Logged(pid)) + logs
  BY <1>1, LogCount
<1>5. /\ Cardinality(Termed(pid)) \in Nat /\ Cardinality(Termed(pid)') = Cardinality(Termed(pid)) + terms
  BY <1>1, SentCount
<1> DEFINE was == IF h \in Unlogged(pid) THEN 1 ELSE 0
           is == IF h \in Unlogged(pid)' THEN 1 ELSE 0
<1>6. /\ Cardinality(Unlogged(pid)) \in Nat /\ IsFiniteSet(Unlogged(pid)')
      /\ Cardinality(Unlogged(pid)') + was = Cardinality(Unlogged(pid)) + is
  BY <1>1, <1>2, WaitCount
<1>7. logs + is <= terms + was /\ was \in Nat /\ is \in Nat
  BY <1>3
<1> HIDE DEF was, is
<1>8. Cardinality(Unlogged(pid)') \in Nat
  BY <1>6, FS_CardinalityType
<1> QED BY <1>1, <1>4, <1>5, <1>6, <1>7, <1>8

\* Steps without a signal or an entry: the handler is no nearer to an entry.
LEMMA CountQuiet ==
  ASSUME CountIInv, KillTypes', NEW h \in Handlers, NEW j \in Jobs, InPlace(j), Set(h, j),
         UNCHANGED << log, sent >>,
         j.pc \in {"wait", "kill"} => job[h].pc \in {"wait", "kill"} /\ j.proc = job[h].proc
  PROVE  CountIInv'
<1> SUFFICES ASSUME NEW pid \in Pids
             PROVE  /\ IsFiniteSet(Unlogged(pid)')
                    /\ Cardinality(Logged(pid)') + Cardinality(Unlogged(pid)') <= Cardinality(Termed(pid)')
  BY DEF CountIInv
<1>1. 0 \in {0, 1} /\ log' = log /\ sent' = sent
  OBVIOUS
<1>2. 0 + (IF j.pc \in {"wait", "kill"} /\ j.proc.pid = pid THEN 1 ELSE 0)
        <= 0 + (IF job[h].pc \in {"wait", "kill"} /\ job[h].proc.pid = pid THEN 1 ELSE 0)
  OBVIOUS
<1> QED BY <1>1, <1>2, CountStep

LEMMA CountHost ==
  ASSUME CountIInv, KillTypes', UNCHANGED << log, sent, job >>
  PROVE  CountIInv'
BY DEF CountIInv, Logged, Termed, Unlogged

LEMMA CountAsk == ASSUME CountIInv, KillTypes', NEW h \in Handlers, Ask(h) PROVE CountIInv'
<1>1. PICK j : Set(h, j) /\ j.pc \in {"read", "open"} /\ UNCHANGED << log, sent >>
  <2>1. \/ \E kind, members : Set(h, [Idle EXCEPT !.kind = kind, !.pc = "open", !.members = members])
        \/ \E kind, g, todo : Set(h, [Idle EXCEPT !.kind = kind, !.pc = "read", !.group = g, !.todo = todo])
    BY DEF Ask, BeginExtras, BeginSingle, BeginApp, Request
  <2>2. UNCHANGED << log, sent >>
    BY DEF Ask, BeginExtras, BeginSingle, BeginApp, Request
  <2>3. ASSUME NEW kind, NEW members, Set(h, [Idle EXCEPT !.kind = kind, !.pc = "open", !.members = members])
        PROVE  \E j : Set(h, j) /\ j.pc = "open"
    <3> DEFINE j == [Idle EXCEPT !.kind = kind, !.pc = "open", !.members = members]
    <3>1. Set(h, j) /\ j.pc = "open"
      BY <2>3 DEF Idle
    <3> HIDE DEF j
    <3> QED BY <3>1
  <2>4. ASSUME NEW kind, NEW g, NEW todo, Set(h, [Idle EXCEPT !.kind = kind, !.pc = "read", !.group = g, !.todo = todo])
        PROVE  \E j : Set(h, j) /\ j.pc = "read"
    <3> DEFINE j == [Idle EXCEPT !.kind = kind, !.pc = "read", !.group = g, !.todo = todo]
    <3>1. Set(h, j) /\ j.pc = "read"
      BY <2>4 DEF Idle
    <3> HIDE DEF j
    <3> QED BY <3>1
  <2> QED BY <2>1, <2>2, <2>3, <2>4
<1>2. job'[h] = j
  BY <1>1 DEF CountIInv, KillTypes, Set
<1>3. j \in Jobs /\ InPlace(j)
  BY <1>2 DEF KillTypes
<1> QED BY <1>1, <1>3, CountQuiet

\* The record of a handler that goes on, waits or not.
LEMMA NextJob ==
  ASSUME KillTypes, KillTypes', NEW h \in Handlers, NEW j, Set(h, j)
  PROVE  j \in Jobs /\ InPlace(j) /\ job[h] \in Jobs /\ InPlace(job[h])
<1>1. job'[h] = j
  BY DEF KillTypes, Set
<1> QED BY <1>1 DEF KillTypes

LEMMA CountOthers ==
  ASSUME CountIInv, KillTypes', NEW h \in Handlers,
         ReadMember(h) \/ ChooseKeep(h) \/ EndExtras(h) \/ Open(h) \/ WaitTimesOut(h) \/ Answer(h)
  PROVE  CountIInv'
<1>1. PICK j : /\ Set(h, j) /\ UNCHANGED << log, sent >>
               /\ j.pc \in {"wait", "kill"} => job[h].pc \in {"wait", "kill"} /\ j.proc = job[h].proc
  <2>0. job[h] \in Jobs
    BY DEF CountIInv, KillTypes
  <2>1. Idle.pc \notin {"wait", "kill"}
    BY DEF Idle
  <2>2. \A todo, members, proc :
           /\ [job[h] EXCEPT !.todo = todo, !.members = members].pc = job[h].pc
           /\ [job[h] EXCEPT !.pc = "signal", !.members = members].pc = "signal"
           /\ [job[h] EXCEPT !.pc = "open", !.members = members].pc = "open"
           /\ [job[h] EXCEPT !.pc = "term", !.proc = proc].pc = "term"
           /\ [job[h] EXCEPT !.pc = "kill"].proc = job[h].proc
    BY <2>0 DEF Jobs
  <2>3. CASE ReadMember(h)
    <3>1. PICK todo, members : Set(h, [job[h] EXCEPT !.todo = todo, !.members = members])
      BY <2>3 DEF ReadMember
    <3> DEFINE j == [job[h] EXCEPT !.todo = todo, !.members = members]
    <3>2. Set(h, j) /\ j.pc = "read" /\ UNCHANGED << log, sent >>
      BY <2>2, <2>3, <3>1 DEF ReadMember
    <3> HIDE DEF j
    <3> QED BY <3>2
  <2>4. CASE ChooseKeep(h)
    <3>1. PICK members : \/ Set(h, Idle)
                         \/ Set(h, [job[h] EXCEPT !.pc = "signal", !.members = members])
      BY <2>4 DEF ChooseKeep
    <3> QED BY <2>1, <2>2, <2>4, <3>1 DEF ChooseKeep
  <2>5. CASE Open(h)
    BY <2>2, <2>5 DEF Open, Proceed
  <2>6. CASE WaitTimesOut(h)
    BY <2>2, <2>6 DEF WaitTimesOut
  <2> QED BY <2>1, <2>3, <2>4, <2>5, <2>6 DEF EndExtras, Answer
<1>2. j \in Jobs /\ InPlace(j)
  BY <1>1, NextJob DEF CountIInv
<1> QED BY <1>1, <1>2, CountQuiet

LEMMA LogOf ==
  ASSUME NEW p, NEW born, Log(p, born)
  PROVE  log' = log \/ \E e : log' = Append(log, e) /\ e.pid = p
BY DEF Log

LEMMA CountSignal == ASSUME CountIInv, KillTypes', NEW h \in Handlers, SignalExtra(h) PROVE CountIInv'
<1> SUFFICES ASSUME NEW pid \in Pids
             PROVE  /\ IsFiniteSet(Unlogged(pid)')
                    /\ Cardinality(Logged(pid)') + Cardinality(Unlogged(pid)') <= Cardinality(Termed(pid)')
  BY DEF CountIInv
<1> DEFINE m == Head(job[h].members)
           j == [job[h] EXCEPT !.members = Tail(@)]
<1>1. /\ job[h].pc = "signal" /\ Set(h, j)
      /\ \/ UNCHANGED << sent, log >>
         \/ /\ log' = log \/ \E e : log' = Append(log, e) /\ e.pid = m.pid
            /\ \E e : sent' = Append(sent, e) /\ e.pid = m.pid /\ e.sig = "TERM"
  BY LogOf DEF SignalExtra, Deliver
<1>2. j \in Jobs /\ InPlace(j) /\ j.pc = "signal"
  <2>1. j \in Jobs /\ InPlace(j) /\ job[h] \in Jobs
    BY <1>1, NextJob DEF CountIInv
  <2> QED BY <1>1, <2>1 DEF Jobs
<1> HIDE DEF m, j
<1>3. CASE UNCHANGED << sent, log >>
  BY <1>1, <1>2, <1>3, CountQuiet DEF CountIInv
<1>4. CASE /\ log' = log \/ \E e : log' = Append(log, e) /\ e.pid = m.pid
           /\ \E e : sent' = Append(sent, e) /\ e.pid = m.pid /\ e.sig = "TERM"
  <2> DEFINE one == IF m.pid = pid THEN 1 ELSE 0
  <2>1. one \in {0, 1} /\ 0 \in {0, 1} /\ one + 0 <= one + 0 /\ 0 + 0 <= one + 0
    OBVIOUS
  <2>2. \E e : sent' = Append(sent, e) /\ one = IF e.pid = pid /\ e.sig = "TERM" THEN 1 ELSE 0
    BY <1>4
  <2>3. \/ log' = log
        \/ \E e : log' = Append(log, e) /\ one = IF e.pid = pid THEN 1 ELSE 0
    BY <1>4
  <2> HIDE DEF one
  <2>4. j.pc \notin {"wait", "kill"} /\ job[h].pc \notin {"wait", "kill"}
    BY <1>1, <1>2
  <2> QED BY <1>1, <1>2, <2>1, <2>2, <2>3, <2>4, CountStep
<1> QED BY <1>1, <1>3, <1>4

LEMMA CountTerminate == ASSUME CountIInv, KillTypes', NEW h \in Handlers, Terminate(h) PROVE CountIInv'
<1>0. job[h].pc = "term" /\ log' = log /\ job[h] \in Jobs
  BY DEF Terminate, CountIInv, KillTypes
<1>1. CASE Proceed(h) /\ sent' = sent
  <2> DEFINE j == [job[h] EXCEPT !.pc = "open", !.members = Tail(@)]
  <2>1. Set(h, j) /\ j.pc = "open"
    BY <1>0, <1>1 DEF Proceed, Jobs
  <2> HIDE DEF j
  <2> QED BY <1>0, <1>1, <2>1, NextJob, CountQuiet DEF CountIInv
<1>2. CASE Deliver(h, job[h].proc.pid, "TERM") /\ Set(h, [job[h] EXCEPT !.pc = "wait"])
  <2> SUFFICES ASSUME NEW pid \in Pids
               PROVE  /\ IsFiniteSet(Unlogged(pid)')
                      /\ Cardinality(Logged(pid)') + Cardinality(Unlogged(pid)') <= Cardinality(Termed(pid)')
    BY DEF CountIInv
  <2> DEFINE j == [job[h] EXCEPT !.pc = "wait"]
             one == IF job[h].proc.pid = pid THEN 1 ELSE 0
  <2>1. Set(h, j) /\ j.pc = "wait" /\ j.proc = job[h].proc
    BY <1>0, <1>2 DEF Jobs
  <2>2. \E e : sent' = Append(sent, e) /\ one = IF e.pid = pid /\ e.sig = "TERM" THEN 1 ELSE 0
    BY <1>2 DEF Deliver
  <2> HIDE DEF j
  <2>3. j \in Jobs /\ InPlace(j)
    BY <2>1, NextJob DEF CountIInv
  <2>4. one \in {0, 1} /\ 0 \in {0, 1}
        /\ 0 + (IF j.pc \in {"wait", "kill"} /\ j.proc.pid = pid THEN 1 ELSE 0)
              <= one + (IF job[h].pc \in {"wait", "kill"} /\ job[h].proc.pid = pid THEN 1 ELSE 0)
    BY <1>0, <2>1
  <2> HIDE DEF one
  <2> QED BY <1>0, <2>1, <2>2, <2>3, <2>4, CountStep
<1> QED BY <1>1, <1>2 DEF Terminate

\* After the wait, and after the SIGKILL, a kill is logged once at most.
LEMMA CountLogged ==
  ASSUME CountIInv, KillTypes', NEW h \in Handlers, job[h].pc \in {"wait", "kill"}, Proceed(h),
         sent' = sent \/ \E e : sent' = Append(sent, e) /\ e.sig = "KILL",
         LogTarget(h) \/ log' = log
  PROVE  CountIInv'
<1> SUFFICES ASSUME NEW pid \in Pids
             PROVE  /\ IsFiniteSet(Unlogged(pid)')
                    /\ Cardinality(Logged(pid)') + Cardinality(Unlogged(pid)') <= Cardinality(Termed(pid)')
  BY DEF CountIInv
<1> DEFINE j == [job[h] EXCEPT !.pc = "open", !.members = Tail(@)]
           one == IF job[h].proc.pid = pid THEN 1 ELSE 0
<1>1. KillTypes /\ job[h] \in Jobs /\ Set(h, j) /\ job[h].proc.pid = Target(h).pid
  BY HasTarget, AtTarget DEF CountIInv, KillTypes, Proceed
<1>2. j.pc = "open"
  BY <1>1 DEF Jobs
<1> HIDE DEF j
<1>3. j \in Jobs /\ InPlace(j)
  BY <1>1, NextJob
<1>4. log' = log \/ \E e : log' = Append(log, e) /\ one = IF e.pid = pid THEN 1 ELSE 0
  BY <1>1, LogOf DEF LogTarget
<1>5. \/ 0 = 0 /\ sent' = sent
      \/ \E e : sent' = Append(sent, e) /\ 0 = IF e.pid = pid /\ e.sig = "TERM" THEN 1 ELSE 0
  OBVIOUS
<1>6. /\ one \in {0, 1} /\ 0 \in {0, 1}
      /\ one + (IF j.pc \in {"wait", "kill"} /\ j.proc.pid = pid THEN 1 ELSE 0)
            <= 0 + (IF job[h].pc \in {"wait", "kill"} /\ job[h].proc.pid = pid THEN 1 ELSE 0)
      /\ 0 + (IF j.pc \in {"wait", "kill"} /\ j.proc.pid = pid THEN 1 ELSE 0)
            <= 0 + (IF job[h].pc \in {"wait", "kill"} /\ job[h].proc.pid = pid THEN 1 ELSE 0)
  BY <1>2
<1> HIDE DEF one
<1>7. CASE log' = log
  BY <1>1, <1>3, <1>5, <1>6, <1>7, CountStep
<1>8. CASE \E e : log' = Append(log, e) /\ one = IF e.pid = pid THEN 1 ELSE 0
  BY <1>1, <1>3, <1>5, <1>6, <1>8, CountStep
<1> QED BY <1>4, <1>7, <1>8

LEMMA CountNextInv == CountIInv /\ [Next]_vars => CountIInv'
<1> SUFFICES ASSUME CountIInv, [Next]_vars PROVE CountIInv'
  OBVIOUS
<1>0. KillTypes'
  BY KillNextTypes DEF CountIInv
<1>1. CASE UNCHANGED vars
  BY <1>0, <1>1, CountHost DEF vars
<1>2. ASSUME \/ \E pid \in Pids, prog \in Programs : Start(pid, prog)
             \/ \E pid \in Pids : Exit(pid) \/ Obey(pid)
             \/ Scan
      PROVE  CountIInv'
  BY <1>0, <1>2, CountHost DEF Start, Exit, Obey, Scan
<1>3. ASSUME NEW h \in Handlers, Waited(h) \/ Escalate(h) PROVE CountIInv'
  BY <1>0, <1>3, CountLogged DEF Waited, Escalate, Deliver
<1>4. ASSUME NEW h \in Handlers, Step(h) PROVE CountIInv'
  BY <1>0, <1>3, <1>4, CountOthers, CountSignal, CountTerminate DEF Step
<1> QED BY <1>0, <1>1, <1>2, <1>4, CountAsk DEF Next

\* The kill log never claims more kills of a pid than SIGTERMs were delivered
\* to it (_terminate_pid, kill_duplicate_extras): each handler that logs has
\* signalled once for each entry, whatever became of its target meanwhile.
THEOREM LogClaimsNoMoreThanSent == Spec => []LogClaimsNoMore
<1>1. Init => CountIInv
  <2> SUFFICES ASSUME Init PROVE CountIInv
    OBVIOUS
  <2>1. KillTypes
    BY KillInitTypes
  <2>2. \A pid \in Pids : Logged(pid) = {} /\ Unlogged(pid) = {} /\ Termed(pid) = {}
    BY DEF Init, Idle, Logged, Unlogged, Termed
  <2>3. IsFiniteSet({}) /\ Cardinality({}) = 0
    BY FS_EmptySet
  <2>4. \A pid \in Pids : /\ IsFiniteSet(Unlogged(pid)) /\ Cardinality(Logged(pid)) = 0
                          /\ Cardinality(Unlogged(pid)) = 0 /\ Cardinality(Termed(pid)) = 0
    BY <2>2, <2>3
  <2> QED BY <2>1, <2>4 DEF CountIInv
<1>2. CountIInv => LogClaimsNoMore
  <2> SUFFICES ASSUME CountIInv, NEW pid \in Pids
               PROVE  Cardinality(Logged(pid)) <= Cardinality(Termed(pid))
    BY DEF LogClaimsNoMore, Logged, Termed
  <2>1. Cardinality(Logged(pid)) \in Nat /\ Cardinality(Unlogged(pid)) \in Nat /\ Cardinality(Termed(pid)) \in Nat
    BY LogCount, SentCount, FS_CardinalityType DEF CountIInv
  <2> QED BY <2>1 DEF CountIInv
<1> QED BY <1>1, <1>2, CountNextInv, PTL DEF Spec

-----------------------------------------------------------------------------
(* RemoteKill                                                              *)

Calls ==
    [pc : {"idle", "term", "probe", "sleep", "kill", "over"}, pid : RemotePids \cup {0},
     target : Nat, hit : [TERM : Nat, KILL : Nat], answer : Answers]

\* What is known of a script at each of its commands.
Script(call) ==
    /\ call \in Calls /\ call.hit.TERM <= spawned
    /\ call.pc \in {"term", "probe"} => call.hit.TERM = 0 /\ call.hit.KILL = 0
    /\ call.pc \in {"sleep", "kill"} => call.hit.TERM # 0 /\ call.hit.KILL = 0
    /\ call.pc # "over" => call.answer \in {"none", "error"}

\* A process that took TERM keeps its pid and its owner for as long as it runs.
StaysPut(call) ==
    call.hit.TERM # 0 /\ Running(call.hit.TERM) =>
        Exists(call.pid) /\ remote[call.pid].id = call.hit.TERM /\ remote[call.pid].owner = Account

Truth(call) ==
    /\ call.answer = "terminated" => call.hit.TERM # 0 /\ ~Running(call.hit.TERM) /\ call.hit.KILL = 0
    /\ call.answer = "killed" => /\ call.hit.TERM # 0 /\ call.hit.KILL # 0
                                 /\ Running(call.hit.TERM) => call.hit.KILL = call.hit.TERM
    /\ call.answer = "gone" => call.hit.TERM = 0 /\ call.hit.KILL = 0
    /\ call.answer = "denied" => call.hit.KILL = 0

Known(call) == Script(call) /\ StaysPut(call) /\ Truth(call)

\* A machine whose processes are told apart by their number.
Machine ==
    /\ spawned \in Nat
    /\ \A pid \in DOMAIN remote : remote[pid].id \in 1..spawned
    /\ \A p, q \in DOMAIN remote : remote[p].id = remote[q].id => p = q

RemoteIInv == Machine /\ DOMAIN calls = Callers /\ \A r \in Callers : Known(calls[r])

\* One request moves on, and the machine does not.
LEMMA CallInv ==
  ASSUME RemoteIInv, NEW r \in Callers, UNCHANGED << remote, spawned >>,
         DOMAIN calls' = Callers, \A q \in Callers \ {r} : calls'[q] = calls[q],
         Known(calls'[r])
  PROVE  RemoteIInv'
BY DEF RemoteIInv, Machine, Known, Script, StaysPut, Truth, Running, Exists

\* The machine moves on, and the requests do not.
LEMMA MachineInv ==
  ASSUME RemoteIInv, calls' = calls, Machine', spawned <= spawned', spawned' \in Nat,
         \A pid \in DOMAIN remote : pid \in DOMAIN remote' => remote'[pid] = remote[pid],
         \A pid \in DOMAIN remote' : pid \notin DOMAIN remote => remote'[pid].id > spawned
  PROVE  RemoteIInv'
<1>1. ASSUME NEW id \in Nat, id <= spawned, Running(id)'
      PROVE  /\ Running(id)
             /\ \A pid \in DOMAIN remote : remote[pid].id = id => pid \in DOMAIN remote' /\ remote'[pid] = remote[pid]
  <2>1. PICK pid \in DOMAIN remote' : remote'[pid].id = id
    BY <1>1 DEF Running
  <2>2. pid \in DOMAIN remote /\ remote[pid] = remote'[pid]
    BY <1>1, <2>1 DEF RemoteIInv, Machine
  <2> QED BY <2>1, <2>2 DEF RemoteIInv, Machine, Running
<1>2. ASSUME NEW r \in Callers PROVE Known(calls[r])'
  <2> DEFINE call == calls[r]
  <2>1. Known(call) /\ call \in Calls /\ call.hit.TERM \in Nat /\ call.hit.TERM <= spawned /\ spawned \in Nat
    BY DEF RemoteIInv, Known, Script, Calls, Machine
  <2>2. Script(call)'
    BY <2>1 DEF Known, Script
  <2>3. StaysPut(call)'
    BY <1>1, <2>1 DEF Known, StaysPut, Exists
  <2>4. Truth(call)'
    BY <1>1, <2>1 DEF Known, Truth
  <2> QED BY <2>2, <2>3, <2>4 DEF Known
<1> QED BY <1>2 DEF RemoteIInv

LEMMA RemoteStartInv ==
  ASSUME RemoteIInv, NEW pid \in RemotePids, NEW owner \in Owners, RemoteStart(pid, owner)
  PROVE  RemoteIInv'
<1>1. /\ DOMAIN remote' = DOMAIN remote \cup {pid} /\ spawned' = spawned + 1
      /\ remote'[pid].id = spawned + 1 /\ pid \notin DOMAIN remote /\ calls' = calls
      /\ \A p \in DOMAIN remote : remote'[p] = remote[p]
  BY DEF RemoteStart
<1>2. Machine'
  BY <1>1 DEF RemoteIInv, Machine
<1>3. spawned <= spawned' /\ spawned' \in Nat /\ remote'[pid].id > spawned
  BY <1>1 DEF RemoteIInv, Machine
<1> QED BY <1>1, <1>2, <1>3, MachineInv

LEMMA RemoteExitInv ==
  ASSUME RemoteIInv, NEW pid \in RemotePids, RemoteExit(pid)
  PROVE  RemoteIInv'
<1>1. /\ DOMAIN remote' = DOMAIN remote \ {pid} /\ UNCHANGED << spawned, calls >>
      /\ \A p \in DOMAIN remote' : remote'[p] = remote[p]
  BY DEF RemoteExit, Restrict
<1>2. Machine'
  BY <1>1 DEF RemoteIInv, Machine
<1> QED BY <1>1, <1>2, MachineInv DEF RemoteIInv, Machine

\* A script that ends with a word, unless its connection has broken before.
LEMMA EchoInv ==
  ASSUME RemoteIInv, NEW r \in Callers, NEW word \in Answers, Echo(r, word), UNCHANGED << remote, spawned >>,
         calls[r].pc \in {"probe", "sleep", "kill"},
         Truth([calls[r] EXCEPT !.answer = word])
  PROVE  RemoteIInv'
<1> DEFINE call == calls[r]
           next == calls'[r]
<1>1. call \in Calls /\ Known(call) /\ call.answer \in {"none", "error"}
  BY DEF RemoteIInv, Known, Script
<1>2. /\ DOMAIN calls' = Callers /\ \A q \in Callers \ {r} : calls'[q] = calls[q]
      /\ next = [call EXCEPT !.pc = "over", !.answer = IF call.answer = "none" THEN word ELSE call.answer]
  BY DEF Echo, RemoteIInv
<1>3. /\ next \in Calls /\ next.pc = "over" /\ next.hit = call.hit /\ next.pid = call.pid
      /\ next.answer \in {word, "error"}
  BY <1>1, <1>2 DEF Calls, Answers
<1>4. [call EXCEPT !.answer = word].answer = word /\ [call EXCEPT !.answer = word].hit = call.hit
  BY <1>1 DEF Calls
<1> HIDE DEF next
<1>5. Truth(next)
  BY <1>3, <1>4 DEF Truth
<1>6. Script(next) /\ StaysPut(next)
  BY <1>1, <1>3 DEF Known, Script, StaysPut
<1> QED BY <1>2, <1>5, <1>6, CallInv DEF Known, next

LEMMA RequestKnown ==
  ASSUME RemoteIInv, NEW r \in Callers
  PROVE  calls[r] \in Calls /\ Known(calls[r]) /\ spawned \in Nat
BY DEF RemoteIInv, Known, Script, Machine

LEMMA TermInv == ASSUME RemoteIInv, NEW r \in Callers, Term(r) PROVE RemoteIInv'
<1> DEFINE call == calls[r]
           id == IF Exists(call.pid) THEN remote[call.pid].id ELSE 0
           next == calls'[r]
<1>1. call \in Calls /\ Known(call) /\ call.pc = "term" /\ UNCHANGED << remote, spawned >>
  BY RequestKnown DEF Term, At, Elsewhere
<1>2. id \in 0..spawned /\ (MaySignal(call.pid) => id # 0 /\ Exists(call.pid) /\ id = remote[call.pid].id)
  BY DEF RemoteIInv, Machine, Exists, MaySignal
<1>3. /\ DOMAIN calls' = Callers /\ \A q \in Callers \ {r} : calls'[q] = calls[q]
      /\ next = [call EXCEPT !.target = id, !.pc = IF MaySignal(call.pid) THEN "sleep" ELSE "probe",
                             !.hit.TERM = IF MaySignal(call.pid) THEN id ELSE 0]
  BY DEF Term, RemoteIInv
<1> DEFINE pc == IF MaySignal(call.pid) THEN "sleep" ELSE "probe"
           took == IF MaySignal(call.pid) THEN id ELSE 0
<1>41. pc \in {"sleep", "probe"} /\ took \in Nat /\ id \in Nat
  BY <1>2, RequestKnown
<1>42. next = [call EXCEPT !.target = id, !.pc = pc, !.hit.TERM = took]
  BY <1>3
<1> HIDE DEF id, next, pc, took
<1>4. next \in Calls
  BY <1>1, <1>41, <1>42 DEF Calls
<1>5. /\ next.pc = (IF MaySignal(call.pid) THEN "sleep" ELSE "probe")
      /\ next.hit.TERM = (IF MaySignal(call.pid) THEN id ELSE 0) /\ next.hit.KILL = call.hit.KILL
      /\ next.pid = call.pid /\ next.answer = call.answer
  BY <1>1, <1>42 DEF Calls, pc, took
<1>6. call.hit.TERM = 0 /\ call.hit.KILL = 0 /\ call.answer \in {"none", "error"}
  BY <1>1 DEF Known, Script
<1>7. Script(next)
  BY <1>2, <1>4, <1>5, <1>6, RequestKnown DEF Script
<1>8. StaysPut(next)
  BY <1>2, <1>5 DEF StaysPut, MaySignal
<1>9. Truth(next)
  BY <1>5, <1>6 DEF Truth
<1> QED BY <1>1, <1>3, <1>7, <1>8, <1>9, CallInv DEF Known, next

LEMMA SetAnswer ==
  ASSUME NEW call \in Calls, NEW word \in Answers
  PROVE  [call EXCEPT !.answer = word].answer = word /\ [call EXCEPT !.answer = word].hit = call.hit
BY DEF Calls

LEMMA ProbeInv == ASSUME RemoteIInv, NEW r \in Callers, Probe(r) PROVE RemoteIInv'
<1> PICK word \in {"denied", "gone"} : Echo(r, word)
  BY DEF Probe
<1>1. calls[r].pc = "probe" /\ calls[r].hit.TERM = 0 /\ calls[r].hit.KILL = 0 /\ calls[r] \in Calls
      /\ word \in Answers /\ UNCHANGED << remote, spawned >>
  BY RequestKnown DEF Probe, At, Known, Script, Answers, Elsewhere
<1>2. Truth([calls[r] EXCEPT !.answer = word])
  BY <1>1, SetAnswer DEF Truth
<1> QED BY <1>1, <1>2, EchoInv

LEMMA CheckInv == ASSUME RemoteIInv, NEW r \in Callers, Check(r) PROVE RemoteIInv'
<1> DEFINE call == calls[r]
<1>1. /\ call.pc = "sleep" /\ call.hit.TERM # 0 /\ call.hit.KILL = 0 /\ call \in Calls /\ Known(call)
      /\ UNCHANGED << remote, spawned >>
  BY RequestKnown DEF Check, At, Known, Script, Elsewhere
<1>2. CASE MaySignal(call.pid)
  <2>1. /\ calls' = [calls EXCEPT ![r].pc = "kill"] /\ DOMAIN calls = Callers
    BY <1>2 DEF Check, Advance, RemoteIInv
  <2>2. /\ DOMAIN calls' = Callers /\ calls'[r] = [call EXCEPT !.pc = "kill"]
        /\ \A q \in Callers \ {r} : calls'[q] = calls[q]
    BY <2>1
  <2>3. /\ calls'[r] \in Calls /\ calls'[r].pc = "kill" /\ calls'[r].hit = call.hit /\ calls'[r].pid = call.pid
        /\ calls'[r].answer = call.answer
    BY <1>1, <2>2 DEF Calls
  <2>4. Known(calls'[r])
    BY <1>1, <2>3 DEF Known, Script, StaysPut, Truth
  <2> QED BY <1>1, <2>2, <2>4, CallInv
<1>3. CASE ~MaySignal(call.pid)
  <2>1. Echo(r, "terminated") /\ "terminated" \in Answers
    BY <1>3 DEF Check, Answers
  <2>2. ~Running(call.hit.TERM)
    BY <1>1, <1>3 DEF Known, StaysPut, MaySignal
  <2>3. Truth([call EXCEPT !.answer = "terminated"])
    BY <1>1, <2>1, <2>2, SetAnswer DEF Truth
  <2> QED BY <1>1, <2>1, <2>3, EchoInv
<1> QED BY <1>2, <1>3

LEMMA KillInv == ASSUME RemoteIInv, NEW r \in Callers, Kill(r) PROVE RemoteIInv'
<1> DEFINE call == calls[r]
           next == calls'[r]
<1>1. /\ call.pc = "kill" /\ call.hit.TERM # 0 /\ call.hit.KILL = 0 /\ call \in Calls /\ Known(call)
      /\ call.answer \in {"none", "error"} /\ UNCHANGED << remote, spawned >>
  BY RequestKnown DEF Kill, At, Known, Script, Elsewhere
<1>2. CASE ~MaySignal(call.pid)
  <2>1. Echo(r, "denied") /\ "denied" \in Answers
    BY <1>2 DEF Kill, Answers
  <2>2. Truth([call EXCEPT !.answer = "denied"])
    BY <1>1, <2>1, SetAnswer DEF Truth
  <2> QED BY <1>1, <2>1, <2>2, EchoInv
<1>3. CASE MaySignal(call.pid)
  <2> DEFINE id == remote[call.pid].id
  <2>1. Exists(call.pid) /\ id \in Nat /\ id # 0
    BY <1>3 DEF MaySignal, Exists, RemoteIInv, Machine
  <2>2. /\ DOMAIN calls' = Callers /\ \A q \in Callers \ {r} : calls'[q] = calls[q]
        /\ next = [call EXCEPT !.pc = "over", !.answer = IF call.answer = "none" THEN "killed" ELSE call.answer,
                               !.hit.KILL = id]
    BY <1>3 DEF Kill, RemoteIInv
  <2> HIDE DEF id, next
  <2>3. next \in Calls
    BY <1>1, <2>1, <2>2 DEF Calls, Answers
  <2>4. /\ next.pc = "over" /\ next.hit.TERM = call.hit.TERM /\ next.hit.KILL = id
        /\ next.pid = call.pid /\ next.answer \in {"killed", "error"}
    BY <1>1, <2>2 DEF Calls
  <2>5. Script(next) /\ StaysPut(next)
    BY <1>1, <2>3, <2>4 DEF Known, Script, StaysPut
  <2>6. Running(call.hit.TERM) => id = call.hit.TERM
    BY <1>1 DEF Known, StaysPut, id
  <2>7. Truth(next)
    BY <1>1, <2>1, <2>4, <2>6 DEF Truth
  <2> QED BY <1>1, <2>2, <2>5, <2>7, CallInv DEF Known, next
<1> QED BY <1>2, <1>3

LEMMA AskKillInv == ASSUME RemoteIInv, NEW r \in Callers, NEW pid \in RemotePids, AskKill(r, pid) PROVE RemoteIInv'
<1> DEFINE next == calls'[r]
<1>1. /\ DOMAIN calls' = Callers /\ \A q \in Callers \ {r} : calls'[q] = calls[q] 
      /\ next = [NoCall EXCEPT !.pc = "term", !.pid = pid]
      /\ UNCHANGED << remote, spawned >> /\ spawned \in Nat
  BY RequestKnown DEF AskKill, RemoteIInv
<1>2. NoCall \in Calls /\ NoCall.hit.TERM = 0 /\ NoCall.hit.KILL = 0 /\ NoCall.answer = "none"
  BY DEF NoCall, Calls, Answers
<1> HIDE DEF next
<1>3. next \in Calls /\ next.pc = "term" /\ next.hit = NoCall.hit /\ next.answer = NoCall.answer
  BY <1>1, <1>2 DEF Calls
<1>4. next.hit.TERM = 0 /\ next.hit.KILL = 0 /\ next.answer = "none" /\ 0 <= spawned
  BY <1>1, <1>2, <1>3
<1>5. Script(next)
  BY <1>3, <1>4 DEF Script
<1>6. StaysPut(next) /\ Truth(next)
  BY <1>4 DEF StaysPut, Truth
<1> QED BY <1>1, <1>5, <1>6, CallInv DEF Known, next

LEMMA DisconnectInv == ASSUME RemoteIInv, NEW r \in Callers, Disconnect(r) PROVE RemoteIInv'
<1> PICK pc \in {calls[r].pc, "over"} : calls' = [calls EXCEPT ![r].answer = "error", ![r].pc = pc]
  BY DEF Disconnect
<1> DEFINE call == calls[r]
           next == calls'[r]
<1>1. call \in Calls /\ Known(call) /\ UNCHANGED << remote, spawned >>
  BY RequestKnown DEF Disconnect, Elsewhere
<1>2. /\ DOMAIN calls' = Callers /\ \A q \in Callers \ {r} : calls'[q] = calls[q]
      /\ next = [call EXCEPT !.answer = "error", !.pc = pc]
  BY DEF RemoteIInv
<1> HIDE DEF next
<1>3. next \in Calls
  BY <1>1, <1>2 DEF Calls, Answers
<1>4. next.answer = "error" /\ next.pc = pc /\ next.hit = call.hit /\ next.pid = call.pid
  BY <1>1, <1>2 DEF Calls
<1>5. Known(next)
  BY <1>1, <1>3, <1>4 DEF Known, Script, StaysPut, Truth
<1> QED BY <1>1, <1>2, <1>5, CallInv DEF next

LEMMA RemoteNextInv == RemoteIInv /\ [RemoteNext]_remoteVars => RemoteIInv'
<1> SUFFICES ASSUME RemoteIInv, [RemoteNext]_remoteVars PROVE RemoteIInv'
  OBVIOUS
<1>1. CASE ListRemote \/ UNCHANGED remoteVars
  BY <1>1 DEF ListRemote, remoteVars, RemoteIInv, Machine, Known, Script, StaysPut, Truth, Running, Exists
<1>2. CASE RemoteNext /\ ~ListRemote
  BY <1>2, RemoteStartInv, RemoteExitInv, AskKillInv, TermInv, ProbeInv, CheckInv, KillInv, DisconnectInv
     DEF RemoteNext
<1> QED BY <1>1, <1>2

\* What the dashboard reports of a remote kill is true ("gone" aside) for any
\* number of requests for the same pids, however often these change hands
\* between the commands of the scripts and whichever connections break.
THEOREM RemoteAnswersHold == RemoteSpec => []RemoteAnswersAreTrue
<1>1. RemoteInit => RemoteIInv
  <2> SUFFICES ASSUME RemoteInit PROVE RemoteIInv
    OBVIOUS
  <2>1. NoCall \in Calls /\ NoCall.pc = "idle" /\ NoCall.hit.TERM = 0 /\ NoCall.hit.KILL = 0 /\ NoCall.answer = "none"
    BY DEF NoCall, Calls, Answers
  <2>2. spawned = 0 /\ DOMAIN remote = {} /\ \A r \in Callers : calls[r] = NoCall
    BY DEF RemoteInit
  <2>3. Known(NoCall)
    BY <2>1, <2>2 DEF Known, Script, StaysPut, Truth
  <2> QED BY <2>2, <2>3 DEF RemoteIInv, Machine, RemoteInit
<1>2. RemoteIInv => RemoteAnswersAreTrue
  <2> SUFFICES ASSUME RemoteIInv, NEW r \in Callers
               PROVE  /\ Truth(calls[r])
                      /\ calls[r].answer = "gone" => calls[r].hit = NoCall.hit
    BY DEF RemoteAnswersAreTrue, Truth
  <2>1. Truth(calls[r]) /\ calls[r] \in Calls
    BY RequestKnown DEF Known
  <2> QED BY <2>1 DEF Truth, Calls, NoCall
<1> QED BY <1>1, <1>2, RemoteNextInv, PTL DEF RemoteSpec

-----------------------------------------------------------------------------
(* Dashboard                                                               *)

\* What the overview reads of a table, and the places of it a group shows.
Page(list) == FirstOf(list, ListLimit)
Under(list, name) == {i \in DOMAIN list : i <= ListLimit /\ GroupOf(list[i]) = name}

DashboardTypes == table \in Seq(Rows) /\ Len(table) <= MaxRows

LEMMA ReadsFirst ==
  ASSUME NEW list \in Seq(Rows), NEW limit \in Nat
  PROVE  LET read == FirstOf(list, limit)
         IN  /\ read \in Seq(Rows) /\ DOMAIN read = {i \in DOMAIN list : i <= limit}
             /\ \A i \in DOMAIN read : read[i] = list[i]
<1> DEFINE n == IF limit < Len(list) THEN limit ELSE Len(list)
<1>1. Len(list) \in Nat /\ n = IF limit < Len(list) THEN limit ELSE Len(list)
  OBVIOUS
<1> HIDE DEF n
<1>2. n \in 0..Len(list) /\ 1..n = {i \in DOMAIN list : i <= limit}
  <2>1. DOMAIN list = 1..Len(list) /\ n \in 0..Len(list)
    BY <1>1
  <2>2. \A i \in 1..Len(list) : i <= n <=> i <= limit
    BY <1>1
  <2> QED BY <2>1, <2>2
<1>3. SubSeq(list, 1, n) \in Seq(Rows) /\ DOMAIN SubSeq(list, 1, n) = 1..n /\ \A i \in 1..n : SubSeq(list, 1, n)[i] = list[i]
  BY <1>2
<1> QED BY <1>2, <1>3 DEF n, FirstOf

LEMMA OverviewIs ==
  ASSUME NEW list \in Seq(Rows)
  PROVE  /\ DOMAIN OverviewOf(list) = {name \in {GroupOf(list[i]) : i \in DOMAIN list} : Under(list, name) # {}}
         /\ \A name : Under(list, name) \in SUBSET DOMAIN list
         /\ \A name \in DOMAIN OverviewOf(list) :
               /\ OverviewOf(list)[name] \in Seq(Rows)
               /\ Cardinality(Under(list, name)) \in Nat
               /\ Len(OverviewOf(list)[name]) = Cardinality(Under(list, name))
               /\ \A q \in 1..Cardinality(Under(list, name)) :
                     OverviewOf(list)[name][q] = list[InOrder(Under(list, name))[q]]
<1>1. /\ Page(list) \in Seq(Rows) /\ DOMAIN Page(list) = {i \in DOMAIN list : i <= ListLimit}
      /\ \A i \in DOMAIN Page(list) : Page(list)[i] = list[i]
  BY ReadsFirst, DashboardAssumption DEF Page
<1>2. ASSUME NEW name PROVE {i \in DOMAIN Page(list) : GroupOf(Page(list)[i]) = name} = Under(list, name)
  BY <1>1 DEF Under
<1>3. DOMAIN OverviewOf(list) = {GroupOf(Page(list)[i]) : i \in DOMAIN Page(list)}
  BY DEF OverviewOf, Page
<1>4. DOMAIN OverviewOf(list) = {name \in {GroupOf(list[i]) : i \in DOMAIN list} : Under(list, name) # {}}
  <2>1. ASSUME NEW i \in DOMAIN Page(list)
        PROVE  GroupOf(Page(list)[i]) \in {name \in {GroupOf(list[j]) : j \in DOMAIN list} : Under(list, name) # {}}
    BY <1>1 DEF Under
  <2>2. ASSUME NEW name, Under(list, name) # {} PROVE name \in {GroupOf(Page(list)[i]) : i \in DOMAIN Page(list)}
    BY <1>1, <2>2 DEF Under
  <2> QED BY <1>3, <2>1, <2>2
<1>5. ASSUME NEW name \in DOMAIN OverviewOf(list)
      PROVE  /\ OverviewOf(list)[name] \in Seq(Rows)
             /\ Cardinality(Under(list, name)) \in Nat
             /\ Len(OverviewOf(list)[name]) = Cardinality(Under(list, name))
             /\ \A q \in 1..Cardinality(Under(list, name)) :
                   OverviewOf(list)[name][q] = list[InOrder(Under(list, name))[q]]
  <2>1. OverviewOf(list)[name] = Picked(Page(list), Under(list, name))
    BY <1>2, <1>3 DEF OverviewOf, Page
  <2>2. Under(list, name) \in SUBSET DOMAIN Page(list)
    BY <1>1 DEF Under
  <2> DEFINE n == Cardinality(Under(list, name))
             order == InOrder(Under(list, name))
  <2>3. /\ n \in Nat /\ Picked(Page(list), Under(list, name)) \in Seq(Rows)
        /\ Len(Picked(Page(list), Under(list, name))) = n
        /\ order \in Bijection(1..n, Under(list, name))
        /\ \A q \in 1..n : Picked(Page(list), Under(list, name))[q] = Page(list)[order[q]]
    BY <1>1, <2>2, PickedAre
  <2>4. \A q \in 1..n : order[q] \in Under(list, name)
    BY <2>3 DEF Bijection, Injection
  <2> HIDE DEF n, order
  <2>5. \A q \in 1..n : Page(list)[order[q]] = list[order[q]]
    BY <1>1, <2>2, <2>4
  <2> QED BY <2>1, <2>3, <2>5 DEF n, order
<1>6. \A name : Under(list, name) \in SUBSET DOMAIN list
  BY DEF Under
<1> QED BY <1>4, <1>5, <1>6

LEMMA JoinOf ==
  ASSUME NEW S, NEW s \in Seq(S), NEW t \in Seq(S)
  PROVE  s \o t \in Seq(S) /\ Len(s \o t) = Len(s) + Len(t)
OBVIOUS

LEMMA DomainOf ==
  ASSUME NEW S, NEW s \in Seq(S)
  PROVE  /\ Len(s) \in Nat /\ DOMAIN s = 1..Len(s) /\ DOMAIN s \in SUBSET Int
         /\ IsFiniteSet(DOMAIN s) /\ Cardinality(DOMAIN s) = Len(s)
<1>1. Len(s) \in Nat /\ DOMAIN s = 1..Len(s)
  OBVIOUS
<1> DEFINE n == Len(s)
<1> HIDE DEF n
<1>2. n \in Nat => IsFiniteSet(1..n) /\ Cardinality(1..n) = n
  BY FS_Interval
<1> QED BY <1>1, <1>2 DEF n

LEMMA InOrderEnumerates ==
  ASSUME NEW set \in SUBSET Int, IsFiniteSet(set)
  PROVE  /\ Cardinality(set) \in Nat /\ InOrder(set) \in [1..Cardinality(set) -> set]
         /\ \A i, j \in 1..Cardinality(set) : i < j => InOrder(set)[i] < InOrder(set)[j]
         /\ \A x \in set : \E i \in 1..Cardinality(set) : InOrder(set)[i] = x
<1> DEFINE order == InOrder(set)
           n == Cardinality(set)
<1>1. \E f : Lists(f, set)
  BY ListExists
<1>2. order \in [1..n -> set]
  BY <1>1 DEF InOrder, Lists
<1> QED BY <1>2, InOrderLists

\* What is taken from a table leaves the groups that lose nothing where they
\* were, with what moves up behind them.
LEMMA OthersStay ==
  ASSUME NEW list \in Seq(Rows), NEW kept \in SUBSET DOMAIN list, NEW rest, rest = Picked(list, kept),
         NEW other \in DOMAIN OverviewOf(list),
         \A i \in DOMAIN list : GroupOf(list[i]) = other => i \in kept
  PROVE  other \in DOMAIN OverviewOf(rest) /\ IsPrefix(OverviewOf(list)[other], OverviewOf(rest)[other])
<1> DEFINE o == InOrder(kept)
           S == Under(list, other)
           T == Under(rest, other)
           r == InOrder(S)
           b == InOrder(T)
           l == Cardinality(kept)
           n == Cardinality(S)
           m == Cardinality(T)
           s == [q \in 1..m |-> o[b[q]]]
<1>1. /\ l \in Nat /\ rest \in Seq(Rows) /\ DOMAIN rest = 1..l
      /\ o \in [1..l -> kept] /\ \A x \in kept : \E k \in 1..l : o[k] = x
      /\ \A k \in 1..l : rest[k] = list[o[k]]
      /\ \A i, j \in 1..l : i < j => o[i] < o[j]
  <2>1. o \in [1..l -> kept] /\ \A x \in kept : \E k \in 1..l : o[k] = x
    <3>1. o \in Bijection(1..l, kept)
      BY PickedAre
    <3> HIDE DEF o, l
    <3> QED BY <3>1 DEF Bijection, Injection, Surjection
  <2>2. /\ l \in Nat /\ rest \in Seq(Rows) /\ DOMAIN rest = 1..l
        /\ \A k \in 1..l : rest[k] = list[o[k]]
    BY PickedAre
  <2>3. \A i, j \in 1..l : i < j => o[i] < o[j]
    BY PickedAre
  <2> HIDE DEF o, l
  <2> QED BY <2>1, <2>2, <2>3
<1>2. IsFiniteSet(S) /\ S \in SUBSET Int /\ IsFiniteSet(T) /\ T \in SUBSET Int
  <2>1. S \in SUBSET DOMAIN list /\ T \in SUBSET DOMAIN rest
    BY DEF Under
  <2>2. IsFiniteSet(DOMAIN list) /\ DOMAIN list \in SUBSET Int /\ IsFiniteSet(DOMAIN rest) /\ DOMAIN rest \in SUBSET Int
    <3>1. DOMAIN list = 1..Len(list) /\ Len(list) \in Nat
      OBVIOUS
    <3> HIDE DEF l
    <3> QED BY <1>1, <3>1, FS_Interval
  <2> HIDE DEF S, T
  <2> QED BY <2>1, <2>2, FS_Subset
<1>3. /\ n \in Nat /\ r \in [1..n -> S] /\ S \in SUBSET Int
      /\ \A i, j \in 1..n : i < j => r[i] < r[j]
      /\ \A x \in S : \E i \in 1..n : r[i] = x
  <2> HIDE DEF S
  <2> QED BY <1>2, InOrderEnumerates
<1>4. /\ m \in Nat /\ b \in [1..m -> T]
      /\ \A i, j \in 1..m : i < j => b[i] < b[j]
      /\ \A x \in T : \E i \in 1..m : b[i] = x
  <2> HIDE DEF T
  <2> QED BY <1>2, InOrderEnumerates
<1>5. /\ S = {i \in DOMAIN list : i <= ListLimit /\ GroupOf(list[i]) = other}
      /\ T = {i \in DOMAIN rest : i <= ListLimit /\ GroupOf(rest[i]) = other}
  BY DEF Under
<1>6. \A k \in 1..l : k <= o[k]
  <2>1. DOMAIN list = 1..Len(list)
    OBVIOUS
  <2>2. o \in [1..l -> Nat \ {0}]
    BY <1>1, <2>1
  <2> HIDE DEF o, l
  <2> QED BY <1>1, <2>2, PlacesAreAhead
<1>7. S # {} /\ \A name \in {GroupOf(rest[i]) : i \in DOMAIN rest} : Under(rest, name) # {} => name \in DOMAIN OverviewOf(rest)
  BY <1>1, OverviewIs
<1> HIDE DEF o, S, T, r, b, l, n, m
<1>8. DOMAIN list \subseteq Int /\ DOMAIN rest \subseteq Int /\ ListLimit \in Nat
  <2>1. DOMAIN list = 1..Len(list)
    OBVIOUS
  <2> QED BY <1>1, <2>1, DashboardAssumption
<1>9. /\ s \in [1..m -> Int]
      /\ \A i, j \in 1..m : i < j => s[i] < s[j]
  <2>1. \A q \in 1..m : b[q] \in 1..l
    BY <1>1, <1>4, <1>5
  <2>2. \A q \in 1..m : s[q] = o[b[q]] /\ s[q] \in Int
    BY <1>1, <1>8, <2>1
  <2> QED BY <1>1, <1>4, <2>1, <2>2
<1>10. ASSUME NEW x \in S PROVE \E q \in 1..m : s[q] = x
  <2>1. x \in DOMAIN list /\ x <= ListLimit /\ GroupOf(list[x]) = other
    BY <1>5
  <2>2. x \in kept
    BY <2>1
  <2>3. PICK k \in 1..l : o[k] = x
    BY <1>1, <2>2
  <2>4. k <= ListLimit
    BY <1>1, <1>6, <1>8, <2>1, <2>3
  <2>5. k \in T
    BY <1>1, <1>5, <2>1, <2>3, <2>4
  <2> QED BY <1>4, <2>3, <2>5
<1>11. ASSUME NEW q \in 1..m PROVE s[q] \in S \/ \A x \in S : x < s[q]
  <2>1. b[q] \in T /\ b[q] \in 1..l /\ s[q] = o[b[q]]
    BY <1>1, <1>4, <1>5
  <2>2. s[q] \in DOMAIN list /\ GroupOf(list[s[q]]) = other
    BY <1>1, <1>5, <2>1
  <2>3. CASE s[q] <= ListLimit
    BY <1>5, <2>2, <2>3
  <2>4. CASE ~(s[q] <= ListLimit)
    <3>1. s[q] \in Int /\ \A x \in S : x \in Int /\ x <= ListLimit
      BY <1>5, <1>8, <2>2
    <3> QED BY <1>8, <2>4, <3>1
  <2> QED BY <2>3, <2>4
<1> HIDE DEF s
<1>12. n <= m /\ \A q \in 1..n : q \in 1..m /\ r[q] = s[q]
  <2>1. S \in SUBSET Int /\ m \in Nat /\ n \in Nat /\ r \in [1..n -> S] /\ s \in [1..m -> Int]
    BY <1>3, <1>4, <1>9
  <2>2. Upwards(r, n) /\ Reaches(r, n, S)
    BY <1>3 DEF Upwards, Reaches
  <2>3. Upwards(s, m) /\ Reaches(s, m, S) /\ FollowedByGreater(s, m, S)
    BY <1>9, <1>10, <1>11 DEF Upwards, Reaches, FollowedByGreater
  <2> QED BY <2>1, <2>2, <2>3, FirstOnesAgree
<1>13. other \in DOMAIN OverviewOf(rest)
  <2>1. PICK q \in 1..n : TRUE
    BY <1>3, <1>7
  <2>2. b[q] \in T
    BY <1>4, <1>12
  <2>3. b[q] \in DOMAIN rest /\ other = GroupOf(rest[b[q]])
    BY <1>5, <2>2
  <2>4. Under(rest, other) # {}
    BY <2>2 DEF T
  <2> QED BY <1>7, <2>3, <2>4
<1> DEFINE before == OverviewOf(list)[other]
           after == OverviewOf(rest)[other]
<1>14. before \in Seq(Rows) /\ Len(before) = n /\ \A q \in 1..n : before[q] = list[r[q]]
  BY OverviewIs DEF n, S, r
<1>15. after \in Seq(Rows) /\ Len(after) = m /\ \A q \in 1..m : after[q] = rest[b[q]]
  BY <1>1, <1>13, OverviewIs DEF m, T, b
<1> HIDE DEF before, after
<1>16. ASSUME NEW q \in 1..n PROVE before[q] = after[q]
  <2>1. q \in 1..m /\ b[q] \in 1..l /\ r[q] = o[b[q]]
    BY <1>1, <1>4, <1>5, <1>12 DEF s
  <2> QED BY <1>1, <1>14, <1>15, <2>1
<1>17. SubSeq(before, 1, Len(before)) = SubSeq(after, 1, Len(before)) /\ Len(before) <= Len(after)
  BY <1>3, <1>4, <1>12, <1>14, <1>15, <1>16
<1>18. IsPrefix(before, after)
  BY <1>17 DEF IsPrefix
<1> QED BY <1>13, <1>18 DEF before, after

\* A group that loses what lies within the first rows keeps no more than lies
\* beyond them.
LEMMA FewAreLeft ==
  ASSUME NEW list \in Seq(Rows), NEW kept \in SUBSET DOMAIN list, NEW rest, rest = Picked(list, kept),
         NEW name, NEW limit \in Nat,
         \A i \in kept : GroupOf(list[i]) = name => i > limit,
         name \in DOMAIN OverviewOf(rest)
  PROVE  limit < Len(list) /\ Len(OverviewOf(rest)[name]) <= Len(list) - limit
<1> DEFINE o == InOrder(kept)
           T == Under(rest, name)
           l == Cardinality(kept)
           beyond == (limit + 1)..Len(list)
<1>1. /\ l \in Nat /\ rest \in Seq(Rows) /\ DOMAIN rest = 1..l
      /\ o \in [1..l -> kept] /\ \A i, j \in 1..l : o[i] = o[j] => i = j
      /\ \A k \in 1..l : rest[k] = list[o[k]]
  <2>1. o \in [1..l -> kept] /\ \A i, j \in 1..l : o[i] = o[j] => i = j
    <3>1. o \in Bijection(1..l, kept)
      BY PickedAre
    <3> HIDE DEF o, l
    <3> QED BY <3>1 DEF Bijection, Injection, IsInjective
  <2> QED BY <2>1, PickedAre
<1>2. T \in SUBSET (1..l) /\ T # {} /\ \A k \in T : GroupOf(rest[k]) = name
  <2>1. T # {}
    <3>1. name \in {other \in {GroupOf(rest[i]) : i \in DOMAIN rest} : Under(rest, other) # {}}
      BY <1>1, OverviewIs
    <3> QED BY <3>1 DEF T
  <2>2. T = {i \in DOMAIN rest : i <= ListLimit /\ GroupOf(rest[i]) = name}
    BY DEF Under
  <2> HIDE DEF T, l
  <2> QED BY <1>1, <2>1, <2>2
<1>3. Len(OverviewOf(rest)[name]) = Cardinality(T)
  BY <1>1, OverviewIs
<1> HIDE DEF o, T, l
<1>4. Len(list) \in Nat /\ DOMAIN list = 1..Len(list)
  OBVIOUS
<1>5. ASSUME NEW k \in T PROVE o[k] \in beyond
  <2>1. o[k] \in kept /\ GroupOf(list[o[k]]) = name
    BY <1>1, <1>2
  <2>2. o[k] > limit /\ o[k] \in 1..Len(list)
    BY <1>4, <2>1
  <2> QED BY <1>4, <2>2
<1>6. limit < Len(list)
  <2>1. PICK k \in T : TRUE
    BY <1>2
  <2>2. o[k] \in beyond
    BY <1>5
  <2> QED BY <1>4, <2>2
<1>7. IsFiniteSet(beyond) /\ Cardinality(beyond) = Len(list) - limit
  <2>1. limit + 1 \in Int /\ Len(list) \in Int /\ limit + 1 <= Len(list)
    BY <1>4, <1>6
  <2>2. IsFiniteSet(beyond) /\ Cardinality(beyond) = Len(list) - (limit + 1) + 1
    BY <2>1, FS_Interval
  <2> QED BY <1>4, <2>2
<1> HIDE DEF beyond
<1>8. IsFiniteSet(T)
  BY <1>1, <1>2, DomainOf, FS_Subset
<1> DEFINE f == [k \in T |-> o[k]]
<1>9. f \in Injection(T, beyond)
  BY <1>1, <1>2, <1>5 DEF Injection, IsInjective
<1> HIDE DEF f
<1>10. Cardinality(T) <= Cardinality(beyond)
  BY <1>7, <1>8, <1>9, FS_Injection
<1> QED BY <1>3, <1>6, <1>7, <1>10

\* Who picks everything has the list.
LEMMA AllAreLeft ==
  ASSUME NEW list \in Seq(Rows)
  PROVE  Picked(list, DOMAIN list) = list
<1> DEFINE n == Len(list)
           r == InOrder(DOMAIN list)
           s == [k \in 1..n |-> k]
           all == Picked(list, DOMAIN list)
<1>1. n \in Nat /\ DOMAIN list = 1..n /\ Cardinality(1..n) = n /\ 1..n \in SUBSET Int /\ IsFiniteSet(1..n)
  BY DomainOf
<1>2. r \in [1..n -> 1..n] /\ Upwards(r, n) /\ Reaches(r, n, 1..n)
  BY <1>1, InOrderEnumerates DEF Upwards, Reaches
<1>3. s \in [1..n -> Int] /\ Upwards(s, n) /\ Reaches(s, n, 1..n) /\ FollowedByGreater(s, n, 1..n)
  BY <1>1 DEF Upwards, Reaches, FollowedByGreater
<1>4. all \in Seq(Rows) /\ Len(all) = n /\ \A q \in 1..n : all[q] = list[r[q]]
  BY <1>1, PickedAre
<1> HIDE DEF n, r, s, all
<1> DEFINE places == 1..n
           m == n
<1>5. \A q \in 1..n : r[q] = s[q]
  <2>1. places \in SUBSET Int /\ n \in Nat /\ m \in Nat /\ r \in [1..n -> places] /\ s \in [1..m -> Int]
    BY <1>1, <1>2, <1>3
  <2>2. Upwards(r, n) /\ Reaches(r, n, places)
    BY <1>2
  <2>3. Upwards(s, m) /\ Reaches(s, m, places) /\ FollowedByGreater(s, m, places)
    BY <1>3
  <2> HIDE DEF places, m
  <2>4. n <= m /\ \A q \in 1..n : q \in 1..m /\ r[q] = s[q]
    BY <2>1, <2>2, <2>3, FirstOnesAgree
  <2> QED BY <2>4
<1>6. \A q \in 1..n : all[q] = list[q]
  BY <1>4, <1>5 DEF s
<1> QED BY <1>1, <1>4, <1>6 DEF n, all

\* A directory, a service or a unit may be called what the overview calls the
\* rest; then the two share a group.
NobodyIsUnknown == Unknown \notin Projects \cup Services \cup ServiceUnits

LEMMA SomebodyElse ==
  ASSUME NobodyIsUnknown, NEW row \in Rows
  PROVE  DetectProject(row) # Unknown
<1> DEFINE Names == Projects \cup Services \cup ServiceUnits \cup {NoName}
           clues == Clues(row)
           naming == {i \in DOMAIN clues : IsName(clues[i])}
<1>1. Unknown \notin Names
  BY DashboardAssumption DEF NobodyIsUnknown
<1>2. UnitLabel(row.unit) \in Names
  BY DEF UnitLabel, Rows
<1>3. clues \in Seq(Names)
  <2>1. << row.cwd >> \in Seq(Names) /\ row.args \in Seq(Names) /\ row.comm \in Names /\ row.first \in Names
    BY DEF Rows
  <2>2. << UnitLabel(row.unit), row.comm, row.first >> \in Seq(Names)
    BY <1>2, <2>1
  <2> HIDE DEF Names
  <2> QED BY <2>1, <2>2 DEF Clues
<1>4. ASSUME naming # {} PROVE Min(naming) \in naming
  <2>1. naming \in SUBSET Nat
    BY <1>3
  <2>2. \E m \in naming : \A y \in naming : m <= y
    BY <1>4, <2>1, LeastExists
  <2> HIDE DEF naming
  <2> QED BY <2>2 DEF Min
<1>5. DetectProject(row) = IF naming = {} THEN NoName ELSE clues[Min(naming)]
  BY DEF DetectProject
<1>6. ASSUME naming # {} PROVE clues[Min(naming)] \in Names
  <2>1. Min(naming) \in DOMAIN clues
    BY <1>4, <1>6
  <2> HIDE DEF Names, clues, naming
  <2> QED BY <1>3, <2>1
<1> QED BY <1>1, <1>5, <1>6

LEMMA KillAppTakes ==
  ASSUME DashboardTypes, NEW name, KillApp(name)
  PROVE  /\ table' = Picked(table, DOMAIN table \ AppTargets(name))
         /\ AppTargets(name) = {i \in DOMAIN table : i <= KillLimit /\ DetectProject(table[i]) = name}
         /\ DashboardTypes'
<1>1. table \in Seq(Rows) /\ Len(table) \in Nat
  BY DEF DashboardTypes
<1>2. table' = Picked(table, DOMAIN table \ AppTargets(name))
  BY DEF KillApp
<1>3. AppTargets(name) = {i \in DOMAIN table : i <= KillLimit /\ DetectProject(table[i]) = name}
  <2>1. DOMAIN ListProcesses(KillLimit) = {i \in DOMAIN table : i <= KillLimit}
    BY <1>1, ReadsFirst, DashboardAssumption DEF ListProcesses
  <2> QED BY <2>1 DEF AppTargets, IsTarget
<1> DEFINE kept == DOMAIN table \ AppTargets(name)
<1>4. kept \in SUBSET DOMAIN table
  OBVIOUS
<1> HIDE DEF kept
<1>5. Picked(table, kept) \in Seq(Rows) /\ Len(Picked(table, kept)) = Cardinality(kept) /\ Cardinality(kept) \in Nat
  BY <1>1, <1>4, PickedAre
<1>6. Cardinality(kept) <= Len(table)
  <2>1. DOMAIN table = 1..Len(table)
    BY <1>1
  <2>2. IsFiniteSet(1..Len(table)) /\ Cardinality(1..Len(table)) = Len(table)
    BY <1>1, FS_Interval
  <2> QED BY <1>4, <2>1, <2>2, FS_Subset
<1>7. Picked(table, kept) \in Seq(Rows) /\ Len(Picked(table, kept)) <= MaxRows
  BY <1>1, <1>5, <1>6, DashboardAssumption DEF DashboardTypes
<1> QED BY <1>2, <1>3, <1>7 DEF DashboardTypes, kept

LEMMA DashboardTypesInit == DashboardInit => DashboardTypes
BY DashboardAssumption DEF DashboardInit, DashboardTypes

LEMMA DashboardTypesNext == DashboardTypes /\ [DashboardNext]_table => DashboardTypes'
<1> SUFFICES ASSUME DashboardTypes, [DashboardNext]_table PROVE DashboardTypes'
  OBVIOUS
<1>1. table \in Seq(Rows) /\ Len(table) \in Nat /\ Len(table) <= MaxRows /\ MaxRows \in Nat
  BY DashboardAssumption DEF DashboardTypes
<1>2. ASSUME NEW row \in Candidates, NEW i \in 1..(Len(table) + 1), RowAppears(row, i) PROVE DashboardTypes'
  <2> DEFINE front == SubSeq(table, 1, i - 1)
             back == SubSeq(table, i, Len(table))
  <2>1. row \in Rows /\ Len(table) < MaxRows
    BY <1>2, DashboardAssumption DEF RowAppears
  <2>2. table' = front \o << row >> \o back
    BY <1>2 DEF RowAppears, InsertAt
  <2>3. /\ front \in Seq(Rows) /\ Len(front) = i - 1
        /\ back \in Seq(Rows) /\ Len(back) = Len(table) - i + 1
    BY <1>1
  <2>4. << row >> \in Seq(Rows) /\ Len(<< row >>) = 1
    BY <2>1
  <2>5. table' \in Seq(Rows) /\ Len(table') = Len(table) + 1
    <3> HIDE DEF front, back
    <3>1. front \o << row >> \in Seq(Rows) /\ Len(front \o << row >>) = i
      BY <1>1, <2>3, <2>4, JoinOf
    <3>2. table' \in Seq(Rows) /\ Len(table') = i + Len(back)
      BY <2>2, <2>3, <3>1, JoinOf
    <3> QED BY <1>1, <2>3, <3>2
  <2> QED BY <1>1, <2>1, <2>5 DEF DashboardTypes
<1>3. ASSUME NEW i \in DOMAIN table, RowDisappears(i) PROVE DashboardTypes'
  <2> DEFINE front == SubSeq(table, 1, i - 1)
             back == SubSeq(table, i + 1, Len(table))
  <2>1. table' = front \o back
    BY <1>3 DEF RowDisappears, RemoveAt
  <2>2. i \in 1..Len(table)
    BY <1>1
  <2>3. /\ front \in Seq(Rows) /\ Len(front) = i - 1
        /\ back \in Seq(Rows) /\ Len(back) = Len(table) - i
    BY <1>1, <2>2
  <2>4. table' \in Seq(Rows) /\ Len(table') = Len(table) - 1
    <3> HIDE DEF front, back
    <3>1. table' \in Seq(Rows) /\ Len(table') = Len(front) + Len(back)
      BY <2>1, <2>3, JoinOf
    <3> QED BY <1>1, <2>2, <2>3, <3>1
  <2> QED BY <1>1, <2>4 DEF DashboardTypes
<1>4. ASSUME NEW name \in DOMAIN Overview, KillApp(name) PROVE DashboardTypes'
  BY <1>4, KillAppTakes
<1>5. CASE UNCHANGED table
  BY <1>5 DEF DashboardTypes
<1> QED BY <1>2, <1>3, <1>4, <1>5 DEF DashboardNext

\* The button under an application ends the processes the page shows there and
\* no others (overview, kill_app), for any rows, limits and names: unless one
\* is called "unknown".
THEOREM ButtonEndsItsGroup ==
  ASSUME NobodyIsUnknown
  PROVE  DashboardSpec => KillAppEmptiesItsGroup
<1> DEFINE Empties(name) ==
             /\ \A other \in DOMAIN Overview \ {name} :
                   /\ other \in DOMAIN OverviewOf(table')
                   /\ IsPrefix(Overview[other], OverviewOf(table')[other])
             /\ name = Unknown => table' = table
             /\ name # Unknown /\ Len(table) <= KillLimit => name \notin DOMAIN OverviewOf(table')
             /\ name # Unknown /\ name \in DOMAIN OverviewOf(table') =>
                   Len(OverviewOf(table')[name]) <= Len(table) - KillLimit
<1>1. ASSUME DashboardTypes, NEW name \in DOMAIN Overview, KillApp(name) PROVE Empties(name)
  <2> DEFINE targets == AppTargets(name)
             kept == DOMAIN table \ targets
  <2>1. /\ table \in Seq(Rows) /\ table' \in Seq(Rows) /\ table' = Picked(table, kept)
        /\ targets = {i \in DOMAIN table : i <= KillLimit /\ DetectProject(table[i]) = name}
    BY <1>1, KillAppTakes DEF DashboardTypes
  <2>2. Overview = OverviewOf(table)
    BY DEF Overview
  <2> HIDE DEF targets
  <2>3. kept \in SUBSET DOMAIN table /\ KillLimit \in Nat
    BY DashboardAssumption
  <2>4. \A i \in DOMAIN table : table[i] \in Rows
    BY <2>1, ElementOf
  <2>5. PICK i \in DOMAIN table : name = GroupOf(table[i])
    <3>1. name \in DOMAIN OverviewOf(table)
      BY <2>2
    <3>2. name \in {GroupOf(table[j]) : j \in DOMAIN table}
      BY <2>1, <3>1, OverviewIs
    <3> QED BY <3>2
  <2>6. name # NoName
    BY <2>5, DashboardAssumption DEF GroupOf
  <2>7. \A j \in DOMAIN table : DetectProject(table[j]) = name => GroupOf(table[j]) = name
    BY <2>6 DEF GroupOf
  <2>8. \A j \in DOMAIN table : GroupOf(table[j]) = name /\ name # Unknown => DetectProject(table[j]) = name
    BY DEF GroupOf
  <2>9. ASSUME NEW other \in DOMAIN Overview \ {name}
        PROVE  other \in DOMAIN OverviewOf(table') /\ IsPrefix(Overview[other], OverviewOf(table')[other])
    <3>1. \A j \in DOMAIN table : GroupOf(table[j]) = other => j \in kept
      BY <2>1, <2>7
    <3> HIDE DEF kept
    <3> QED BY <2>1, <2>2, <2>3, <3>1, OthersStay
  <2>10. ASSUME name = Unknown PROVE table' = table
    <3>1. targets = {}
      BY <2>1, <2>4, <2>10, SomebodyElse
    <3>2. kept = DOMAIN table
      BY <3>1
    <3> QED BY <2>1, <3>2, AllAreLeft
  <2>11. ASSUME name # Unknown, name \in DOMAIN OverviewOf(table')
         PROVE  KillLimit < Len(table) /\ Len(OverviewOf(table')[name]) <= Len(table) - KillLimit
    <3>1. \A j \in kept : GroupOf(table[j]) = name => j > KillLimit
      <4> SUFFICES ASSUME NEW j \in kept, GroupOf(table[j]) = name PROVE j > KillLimit
        OBVIOUS
      <4>1. j \in DOMAIN table /\ ~(j <= KillLimit)
        BY <2>1, <2>8, <2>11
      <4>2. j \in Nat
        BY <2>1, <4>1
      <4> QED BY <2>3, <4>1, <4>2
    <3> HIDE DEF kept
    <3> QED BY <2>1, <2>2, <2>3, <2>11, <3>1, FewAreLeft
  <2>12. Len(table) \in Nat
    BY <2>1
  <2> QED BY <2>3, <2>9, <2>10, <2>11, <2>12
<1>2. ASSUME DashboardTypes, [DashboardNext]_table
      PROVE  \A name \in DOMAIN Overview : KillApp(name) => Empties(name)
  BY <1>1, <1>2
<1> QED BY <1>2, DashboardTypesInit, DashboardTypesNext, PTL DEF DashboardSpec, KillAppEmptiesItsGroup

-----------------------------------------------------------------------------
(* Types of RemoteKill                                                     *)

CallsUpTo(n) ==
    [pc : {"idle", "term", "probe", "sleep", "kill", "over"}, pid : RemotePids \cup {0},
     target : 0..n, hit : [TERM : 0..n, KILL : 0..n], answer : Answers]

\* A request that is set to one of the possible ones.
LEMMA CallTypes ==
  ASSUME RemoteTypeOK, NEW r \in Callers, NEW call \in CallsUpTo(spawned),
         calls' = [calls EXCEPT ![r] = call], UNCHANGED << remote, spawned >>,
         listed' \subseteq RemotePids, asked' \in 0..MaxRemoteKills
  PROVE  RemoteTypeOK'
<1>1. calls \in [Callers -> CallsUpTo(spawned)]
  BY DEF RemoteTypeOK, CallsUpTo
<1>2. calls' \in [Callers -> CallsUpTo(spawned)]
  BY <1>1
<1>3. calls' \in [Callers -> CallsUpTo(spawned')]
  BY <1>2
<1> QED BY <1>3 DEF RemoteTypeOK, CallsUpTo

LEMMA StepTypes ==
  ASSUME RemoteTypeOK, NEW r \in Callers,
         Term(r) \/ Probe(r) \/ Check(r) \/ Kill(r) \/ Disconnect(r)
  PROVE  RemoteTypeOK'
<1> DEFINE call == calls[r]
<1>1. call \in CallsUpTo(spawned) /\ spawned \in Nat /\ calls = [q \in Callers |-> calls[q]]
  BY DEF RemoteTypeOK, CallsUpTo
<1>2. \A pid \in DOMAIN remote : remote[pid].id \in 0..spawned
  BY DEF RemoteTypeOK
<1>3. UNCHANGED << remote, spawned, listed, asked >>
  BY DEF Term, Probe, Check, Kill, Disconnect, Elsewhere
<1>4. listed' \subseteq RemotePids /\ asked' \in 0..MaxRemoteKills
  BY <1>3 DEF RemoteTypeOK
<1>5. ASSUME NEW next \in CallsUpTo(spawned), calls' = [calls EXCEPT ![r] = next]
      PROVE  RemoteTypeOK'
  BY <1>3, <1>4, <1>5, CallTypes
<1> DEFINE Over(word) == [call EXCEPT !.pc = "over", !.answer = IF call.answer = "none" THEN word ELSE call.answer]
<1>6. ASSUME NEW word \in Answers, Echo(r, word) PROVE RemoteTypeOK'
  <2>1. Over(word) \in CallsUpTo(spawned)
    BY <1>1 DEF CallsUpTo
  <2>2. calls' = [calls EXCEPT ![r] = Over(word)]
    BY <1>1, <1>6 DEF Echo, CallsUpTo
  <2> QED BY <1>5, <2>1, <2>2
<1>7. CASE Term(r)
  <2> DEFINE pid == call.pid
             target == IF Exists(pid) THEN remote[pid].id ELSE 0
             next == [call EXCEPT !.target = target, !.pc = IF MaySignal(pid) THEN "sleep" ELSE "probe",
                                  !.hit.TERM = IF MaySignal(pid) THEN target ELSE 0]
  <2>1. target \in 0..spawned
    BY <1>1, <1>2 DEF Exists
  <2>2. calls' = [calls EXCEPT ![r] = next]
    BY <1>1, <1>7 DEF Term, CallsUpTo
  <2> HIDE DEF target
  <2>3. next \in CallsUpTo(spawned)
    <3> DEFINE hit == [call.hit EXCEPT !.TERM = IF MaySignal(pid) THEN target ELSE 0]
               pc == IF MaySignal(pid) THEN "sleep" ELSE "probe"
    <3>1. hit \in [TERM : 0..spawned, KILL : 0..spawned] /\ pc \in {"sleep", "probe"}
      BY <1>1, <2>1 DEF CallsUpTo
    <3>2. next = [call EXCEPT !.target = target, !.pc = pc, !.hit = hit]
      BY <1>1 DEF CallsUpTo
    <3> HIDE DEF hit, pc, next
    <3> QED BY <1>1, <2>1, <3>1, <3>2 DEF CallsUpTo
  <2> QED BY <1>5, <2>2, <2>3
<1>8. CASE Probe(r)
  BY <1>6, <1>8 DEF Probe, Answers
<1>9. CASE Check(r)
  <2>1. CASE MaySignal(call.pid)
    <3>1. calls' = [calls EXCEPT ![r] = [call EXCEPT !.pc = "kill"]]
      BY <1>1, <1>9, <2>1 DEF Check, Advance, CallsUpTo
    <3>2. [call EXCEPT !.pc = "kill"] \in CallsUpTo(spawned)
      BY <1>1 DEF CallsUpTo
    <3> QED BY <1>5, <3>1, <3>2
  <2>2. CASE ~MaySignal(call.pid)
    BY <1>6, <1>9, <2>2 DEF Check, Answers
  <2> QED BY <2>1, <2>2
<1>10. CASE Kill(r)
  <2>1. CASE MaySignal(call.pid)
    <3> DEFINE id == remote[call.pid].id
               next == [Over("killed") EXCEPT !.hit.KILL = id]
    <3>1. id \in 0..spawned
      BY <1>2, <2>1 DEF MaySignal, Exists
    <3>2. calls' = [calls EXCEPT ![r] = next]
      BY <1>1, <1>10, <2>1 DEF Kill, CallsUpTo
    <3> HIDE DEF id
    <3>3. next \in CallsUpTo(spawned)
      BY <1>1, <3>1 DEF CallsUpTo, Answers
    <3> QED BY <1>5, <3>2, <3>3
  <2>2. CASE ~MaySignal(call.pid)
    BY <1>6, <1>10, <2>2 DEF Kill, Answers
  <2> QED BY <2>1, <2>2
<1>11. CASE Disconnect(r)
  <2>1. PICK pc \in {call.pc, "over"} : calls' = [calls EXCEPT ![r].answer = "error", ![r].pc = pc]
    BY <1>11 DEF Disconnect
  <2> DEFINE next == [call EXCEPT !.answer = "error", !.pc = pc]
  <2>2. calls' = [calls EXCEPT ![r] = next]
    BY <1>1, <2>1 DEF CallsUpTo
  <2>3. next \in CallsUpTo(spawned)
    BY <1>1, <2>1 DEF CallsUpTo, Answers
  <2> QED BY <1>5, <2>2, <2>3
<1> QED BY <1>7, <1>8, <1>9, <1>10, <1>11

LEMMA RemoteInitTypes == RemoteInit => RemoteTypeOK
<1> SUFFICES ASSUME RemoteInit PROVE RemoteTypeOK
  OBVIOUS
<1>1. 0 \in 0..MaxRemoteStarts /\ 0 \in 0..MaxRemoteKills /\ 0 \in 0..0
  BY RemoteAssumption
<1>2. NoCall \in CallsUpTo(0)
  BY <1>1 DEF NoCall, CallsUpTo, Answers
<1> QED BY <1>1, <1>2 DEF RemoteInit, RemoteTypeOK, CallsUpTo

LEMMA RemoteNextTypes == RemoteTypeOK /\ [RemoteNext]_remoteVars => RemoteTypeOK'
<1> SUFFICES ASSUME RemoteTypeOK, [RemoteNext]_remoteVars PROVE RemoteTypeOK'
  OBVIOUS
<1>1. spawned \in Nat /\ asked \in Nat /\ MaxRemoteStarts \in Nat /\ MaxRemoteKills \in Nat
  BY RemoteAssumption DEF RemoteTypeOK
<1>2. ASSUME NEW pid \in RemotePids, NEW owner \in Owners, RemoteStart(pid, owner) PROVE RemoteTypeOK'
  <2>1. /\ spawned' = spawned + 1 /\ spawned' \in 0..MaxRemoteStarts
        /\ DOMAIN remote' = DOMAIN remote \cup {pid}
        /\ \A p \in DOMAIN remote' : remote'[p] = IF p = pid THEN [owner |-> owner, id |-> spawned + 1] ELSE remote[p]
        /\ UNCHANGED << listed, calls, asked >>
    BY <1>1, <1>2 DEF RemoteStart, RemoteTypeOK
  <2>2. \A n \in 0..spawned : n \in 0..(spawned + 1)
    BY <1>1
  <2>3. \A call \in CallsUpTo(spawned) : call \in CallsUpTo(spawned + 1)
    <3> SUFFICES ASSUME NEW call \in CallsUpTo(spawned) PROVE call \in CallsUpTo(spawned + 1)
      OBVIOUS
    <3>1. call.target \in 0..(spawned + 1) /\ call.hit.TERM \in 0..(spawned + 1) /\ call.hit.KILL \in 0..(spawned + 1)
      BY <2>2 DEF CallsUpTo
    <3> QED BY <3>1 DEF CallsUpTo
  <2>4. calls' \in [Callers -> CallsUpTo(spawned')]
    <3>1. calls \in [Callers -> CallsUpTo(spawned)]
      BY DEF RemoteTypeOK, CallsUpTo
    <3> QED BY <2>1, <2>3, <3>1
  <2>5. \A p \in DOMAIN remote' : remote'[p] \in [owner : Owners, id : 1..spawned']
    <3> SUFFICES ASSUME NEW p \in DOMAIN remote' PROVE remote'[p] \in [owner : Owners, id : 1..spawned']
      OBVIOUS
    <3>1. CASE p = pid
      BY <1>1, <2>1, <3>1
    <3>2. CASE p # pid
      <4>1. remote[p] \in [owner : Owners, id : 1..spawned] /\ remote'[p] = remote[p]
        BY <2>1, <3>2 DEF RemoteTypeOK
      <4>2. remote[p].id \in 1..(spawned + 1)
        BY <1>1, <4>1
      <4> QED BY <2>1, <4>1, <4>2
    <3> QED BY <3>1, <3>2
  <2>6. DOMAIN remote' \subseteq RemotePids /\ listed' \subseteq RemotePids /\ asked' \in 0..MaxRemoteKills
    BY <2>1 DEF RemoteTypeOK
  <2> QED BY <2>1, <2>4, <2>5, <2>6 DEF RemoteTypeOK, CallsUpTo
<1>3. ASSUME NEW pid \in RemotePids, RemoteExit(pid) PROVE RemoteTypeOK'
  <2>1. DOMAIN remote' = DOMAIN remote \ {pid} /\ \A p \in DOMAIN remote' : remote'[p] = remote[p]
    BY <1>3 DEF RemoteExit, Restrict
  <2> QED BY <1>3, <2>1 DEF RemoteExit, RemoteTypeOK
<1>4. CASE ListRemote
  <2>1. listed' \subseteq RemotePids
    BY <1>4 DEF ListRemote, Fetched, RemoteTypeOK
  <2> QED BY <1>4, <2>1 DEF ListRemote, RemoteTypeOK
<1>5. ASSUME NEW r \in Callers, NEW pid \in RemotePids, AskKill(r, pid) PROVE RemoteTypeOK'
  <2> DEFINE next == [NoCall EXCEPT !.pc = "term", !.pid = pid]
  <2>1. next \in CallsUpTo(spawned)
    <3>1. NoCall \in CallsUpTo(spawned)
      <4>1. 0 \in 0..spawned
        BY <1>1
      <4> QED BY <4>1 DEF NoCall, CallsUpTo, Answers
    <3> QED BY <3>1 DEF CallsUpTo
  <2>2. asked' \in 0..MaxRemoteKills
    BY <1>1, <1>5 DEF AskKill
  <2>3. listed' \subseteq RemotePids /\ UNCHANGED << remote, spawned >> /\ calls' = [calls EXCEPT ![r] = next]
    BY <1>5 DEF AskKill, RemoteTypeOK
  <2> QED BY <2>1, <2>2, <2>3, CallTypes
<1>6. CASE UNCHANGED remoteVars
  BY <1>6 DEF remoteVars, RemoteTypeOK
<1> QED BY <1>2, <1>3, <1>4, <1>5, <1>6, StepTypes DEF RemoteNext

-----------------------------------------------------------------------------
(* The three together                                                      *)

MCIInv == KillTypes /\ RemoteTypeOK /\ DashboardTypes

\* Handlers, requests to other machines and the table stay what they are
\* declared to be, in the three parts and in what composes them.
THEOREM PartsTypeCorrect == MCSpec => []MCTypeOK
<1>1. MCInit => MCIInv
  BY KillInitTypes, RemoteInitTypes, DashboardTypesInit DEF MCInit, MCIInv
<1>2. MCIInv /\ [MCNext]_<< vars, remoteVars, table >> => MCIInv'
  <2>1. [MCNext]_<< vars, remoteVars, table >> => [Next]_vars /\ [RemoteNext]_remoteVars /\ [DashboardNext]_table
    BY DEF MCNext
  <2> QED BY <2>1, KillNextTypes, RemoteNextTypes, DashboardTypesNext DEF MCIInv
<1>3. MCIInv => MCTypeOK
  <2>1. KillTypes => TypeOK
    BY KillTypesAre
  <2>2. DashboardTypes => DashboardTypeOK
    BY ElementOf DEF DashboardTypes, DashboardTypeOK
  <2> QED BY <2>1, <2>2 DEF MCIInv, MCTypeOK
<1> QED BY <1>1, <1>2, <1>3, PTL DEF MCSpec

================================================================================
