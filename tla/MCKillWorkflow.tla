---------------------------- MODULE MCKillWorkflow ----------------------------
(***************************************************************************)
(* The ways the dashboard offers to end a process: KillWorkflow with       *)
(* several handlers, which are alike; and, each one on its own, the same   *)
(* over SSH, and the applications of the overview.                         *)
(***************************************************************************)
EXTENDS KillWorkflow, RemoteKill, Dashboard, TLC

HandlerSymmetry == Permutations(Handlers)

\* Once every request is answered, no handler is left for what the host does.
SomethingIsAsked == requests < MaxRequests \/ \E h \in Handlers : job[h].pc # "idle"

\* A step that takes what its handler has in hand, and changes nothing else,
\* commutes with the steps of the others: it is taken at once.
Private(h) ==
    \/ job[h].pc = "open" /\ job[h].members = << >>
    \/ job[h].pc = "read" /\ job[h].todo = << >>
PrivateStepsFirst ==
    LET ready == {h \in Handlers : Private(h)}
    IN  ready # {} => \E h \in ready : job'[h] # job[h]

-----------------------------------------------------------------------------
(* Rows whose application shows in different places, or in several.        *)

Row(cwd, args, unit, comm) ==
    [cwd |-> cwd, args |-> args, unit |-> unit, comm |-> comm, first |-> NoName]

MCCandidates ==
    {Row("shop", << NoName, "blog" >>, NoName, NoName),
     Row(NoName, << NoName, "blog" >>, Unit("shop", TRUE), NoName),
     Row(NoName, << >>, Unit("shop", TRUE), "nginx"),
     Row(NoName, << >>, Unit("shop", FALSE), NoName),
     Row(NoName, << >>, Unit("user", TRUE), "nginx"),
     Row(NoName, << NoName >>, Unit("user", TRUE), NoName)}

-----------------------------------------------------------------------------

MCInit == Init /\ RemoteInit /\ DashboardInit

MCNext ==
    \/ RemoteInit /\ DashboardInit /\ Next /\ UNCHANGED << remoteVars, table >>
    \/ Init /\ DashboardInit /\ RemoteNext /\ UNCHANGED << vars, table >>
    \/ Init /\ RemoteInit /\ DashboardNext /\ UNCHANGED << vars, remoteVars >>

MCSpec == MCInit /\ [][MCNext]_<< vars, remoteVars, table >>

MCTypeOK == TypeOK /\ RemoteTypeOK /\ DashboardTypeOK
=============================================================================
