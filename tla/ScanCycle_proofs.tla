--------------------------- MODULE ScanCycle_proofs ---------------------------
(***************************************************************************)
(* Proofs about ScanCycle: its types, and no duplicate alert without its   *)
(* group, for any groups, windows and number of faults.                    *)
(***************************************************************************)
EXTENDS ScanCycle, RuntimeState_proofs

\* From the moment the groups of a cycle are filed until the last of them is
\* alerted, what is still to be alerted is in the table.
PendingAreFiled == pc \in {"maintain", "alert"} => todo \subseteq filed

IInv == PendingAreFiled /\ AlertsHaveGroups

\* Every step of the loop, of the host, and every failure keeps both.
LEMMA NextIInv == IInv /\ [Next]_vars => IInv'
<1> SUFFICES ASSUME IInv, [Next]_vars PROVE IInv'
  OBVIOUS
<1> USE DEF IInv, PendingAreFiled, AlertsHaveGroups
<1>1. CASE LoopHead \/ Scan \/ Detected \/ Upsert
  BY <1>1 DEF LoopHead, Scan, Detected, Upsert, Goto, cycle, tables
<1>2. ASSUME NEW g \in Groups, DetectNext(g) PROVE IInv'
  BY <1>2 DEF DetectNext, tables
<1>3. CASE File
  BY <1>3 DEF File, Goto
<1>4. CASE Maintain
  BY <1>4 DEF Maintain, Goto, cycle, tables
<1>5. ASSUME NEW g \in Groups, AlertNext(g) PROVE IInv'
  <2>1. g \in filed /\ filed' = filed /\ pc' = pc
    BY <1>5 DEF AlertNext, IsNext
  <2>2. todo' \subseteq filed'
    BY <1>5, <2>1 DEF AlertNext
  <2>3. alerted' \subseteq filed'
    BY <1>5, <2>1 DEF AlertNext
  <2> QED BY <2>2, <2>3
<1>6. CASE AlertsDone \/ Rest \/ Wake \/ Restart \/ Cease
  BY <1>6 DEF AlertsDone, Rest, Wake, Restart, Cease, Goto, cycle, tables
<1>7. ASSUME NEW kept, Fault(kept) PROVE IInv'
  BY <1>7 DEF Fault, Goto, tables
<1>8. CASE StageRaises \/ MaintainRaises \/ Killed
  BY <1>7, <1>8 DEF StageRaises, MaintainRaises, Killed
<1>9. ASSUME NEW g \in Groups, AlertRaises(g) PROVE IInv'
  BY <1>7, <1>9 DEF AlertRaises
<1>10. CASE Stop \/ Pass
  BY <1>10 DEF Stop, Pass, cycle, tables
<1>11. ASSUME NEW g \in Groups, Change(g) PROVE IInv'
  BY <1>11 DEF Change, cycle, tables
<1>12. CASE UNCHANGED vars
  BY <1>12 DEF vars, cycle, tables
<1> QED BY <1>1, <1>2, <1>3, <1>4, <1>5, <1>6, <1>8, <1>9, <1>10, <1>11, <1>12 DEF Next, Loop

\* An operator who follows a duplicate alert finds its group: scan_once emits
\* only for groups that add_duplicate_groups has written in the same cycle.
THEOREM AlertsFollowGroups == Spec => []AlertsHaveGroups
<1>1. Init => IInv
  BY DEF Init, IInv, PendingAreFiled, AlertsHaveGroups
<1>2. IInv => AlertsHaveGroups
  BY DEF IInv
<1> QED BY <1>1, <1>2, NextIInv, PTL DEF Spec

\* TypeOK with what its steps rest on: stamps of the right kind, and nothing
\* left over from one cycle to the next.
Types ==
    /\ pc \in Stages
    /\ suppressed \in Seq([key : Groups, at : -(TTL + 1)..0])
    /\ DOMAIN emitted \subseteq Groups /\ \A g \in DOMAIN emitted : emitted[g] \in -Cooldown..0
    /\ cleaned \in -(Maintenance + 1)..0
    /\ found \subseteq snapshot
    /\ todo \subseteq (IF pc = "detect" THEN snapshot ELSE found)
    /\ pc \in {"head", "scan", "crashed"} => found = {}
    /\ pc \in {"rest", "sleep"} => todo = {}

LEMMA Ages ==
  ASSUME NEW limit \in Nat, NEW stamp \in -limit..0
  PROVE  Aged(stamp, -limit) \in -limit..0
BY DEF Aged

LEMMA StampedTypes ==
  ASSUME Types, NEW g \in Groups
  PROVE  /\ DOMAIN Stamped(g) \subseteq Groups
         /\ \A k \in DOMAIN Stamped(g) : Stamped(g)[k] \in -Cooldown..0
<1>1. 0 \in -Cooldown..0
  BY ScanCycleAssumption
<1> QED BY <1>1 DEF Types, Stamped

LEMMA FaultTypes ==
  ASSUME Types, NEW kept, Fault(kept),
         DOMAIN emitted' \subseteq Groups /\ \A g \in DOMAIN emitted' : emitted'[g] \in -Cooldown..0
  PROVE  Types'
BY DEF Types, Fault, Goto, Stages, tables

LEMMA NextTypes ==
  ASSUME Types, [Next]_vars
  PROVE  Types'
<1>0. TTL \in Nat /\ Cooldown \in Nat /\ Maintenance \in Nat /\ MaxTracked \in Nat
  BY ScanCycleAssumption
<1>1. CASE LoopHead \/ Scan \/ Detected \/ Upsert \/ File
  BY <1>1 DEF LoopHead, Scan, Detected, Upsert, File, Types, Goto, Stages, cycle, tables, memory
<1>2. ASSUME NEW g \in Groups, DetectNext(g) PROVE Types'
  <2>1. /\ pc = "detect" /\ g \in todo /\ todo' = todo \ {g} /\ found' \in {found, found \cup {g}}
        /\ suppressed' = SeenRecently(suppressed, g, 0, TTL, MaxTracked).items
        /\ UNCHANGED << pc, snapshot, emitted, cleaned >>
    BY <1>2 DEF DetectNext, IsNext
  <2>2. 0 \in Int /\ TTL \in Int /\ [key |-> g, at |-> 0] \in [key : Groups, at : -(TTL + 1)..0]
    BY <1>0
  <2>3. suppressed' \in Seq([key : Groups, at : -(TTL + 1)..0])
    BY <1>0, <2>1, <2>2, SeenKeepsEntries DEF Types
  <2> QED BY <2>1, <2>3 DEF Types
<1>3. CASE Maintain
  <2>1. pc = "maintain" /\ pc' = "alert" /\ cleaned' \in {0, cleaned} /\ UNCHANGED << snapshot, found, todo, suppressed, emitted >>
    BY <1>3 DEF Maintain, Goto, cycle
  <2>2. 0 \in -(Maintenance + 1)..0
    BY <1>0
  <2> QED BY <2>1, <2>2 DEF Types, Stages
<1>4. ASSUME NEW g \in Groups, AlertNext(g) PROVE Types'
  <2>1. /\ pc = "alert" /\ todo' = todo \ {g} /\ emitted' \in {emitted, Stamped(g)}
        /\ UNCHANGED << pc, snapshot, found, suppressed, cleaned >>
    BY <1>4 DEF AlertNext
  <2>2. DOMAIN emitted' \subseteq Groups /\ \A k \in DOMAIN emitted' : emitted'[k] \in -Cooldown..0
    BY <2>1, StampedTypes DEF Types
  <2> QED BY <2>1, <2>2 DEF Types
<1>5. CASE AlertsDone \/ Rest \/ Wake \/ Cease
  BY <1>5 DEF AlertsDone, Rest, Wake, Cease, Types, Goto, Stages, cycle, tables, memory
<1>6. CASE Restart
  <2>1. pc = "crashed" /\ pc' = "head" /\ UNCHANGED << snapshot, found, todo >>
    BY <1>6 DEF Restart, Goto, cycle
  <2>2. CASE UNCHANGED memory
    BY <2>1, <2>2 DEF Types, Stages, memory
  <2>3. CASE NewMemory
    <3>1. suppressed' = << >> /\ emitted' = << >> /\ cleaned' \in {0, -(Maintenance + 1)}
      BY <2>3 DEF NewMemory
    <3>2. /\ DOMAIN << >> = {} /\ << >> \in Seq([key : Groups, at : -(TTL + 1)..0])
          /\ 0 \in -(Maintenance + 1)..0 /\ -(Maintenance + 1) \in -(Maintenance + 1)..0
      BY <1>0
    <3> QED BY <2>1, <3>1, <3>2 DEF Types, Stages
  <2> QED BY <1>6, <2>2, <2>3 DEF Restart
<1>7. CASE StageRaises \/ MaintainRaises \/ Killed
  <2>1. emitted' = emitted /\ \E kept : Fault(kept)
    BY <1>7 DEF StageRaises, MaintainRaises, Killed, Fault
  <2>2. DOMAIN emitted' \subseteq Groups /\ \A g \in DOMAIN emitted' : emitted'[g] \in -Cooldown..0
    BY <2>1 DEF Types
  <2> QED BY <2>1, <2>2, FaultTypes
<1>8. ASSUME NEW g \in Groups, AlertRaises(g) PROVE Types'
  <2>1. Fault(emitted' = Stamped(g)) /\ emitted' = Stamped(g)
    BY <1>8 DEF AlertRaises, Fault
  <2>2. DOMAIN emitted' \subseteq Groups /\ \A k \in DOMAIN emitted' : emitted'[k] \in -Cooldown..0
    BY <2>1, StampedTypes
  <2> QED BY <2>1, <2>2, FaultTypes
<1>9. CASE Stop
  BY <1>9 DEF Stop, Types, cycle, memory, tables
<1>10. ASSUME NEW g \in Groups, Change(g) PROVE Types'
  BY <1>10 DEF Change, Types, cycle, memory, tables
<1>11. CASE Pass
  <2>1. UNCHANGED << pc, snapshot, found, todo >>
    BY <1>11 DEF Pass, cycle
  <2>2. suppressed' \in Seq([key : Groups, at : -(TTL + 1)..0])
    <3>1. suppressed' = [i \in DOMAIN suppressed |-> [suppressed[i] EXCEPT !.at = Aged(@, -(TTL + 1))]]
      BY <1>11 DEF Pass
    <3>2. /\ DOMAIN suppressed = 1..Len(suppressed) /\ Len(suppressed) \in Nat
          /\ \A i \in DOMAIN suppressed : suppressed[i] \in [key : Groups, at : -(TTL + 1)..0]
      <4>1. suppressed \in Seq([key : Groups, at : -(TTL + 1)..0])
        BY DEF Types
      <4>2. \A i \in DOMAIN suppressed : suppressed[i] \in [key : Groups, at : -(TTL + 1)..0]
        BY <4>1, ElementOf
      <4> QED BY <4>1, <4>2
    <3>3. TTL + 1 \in Nat
      BY <1>0
    <3>4. \A i \in DOMAIN suppressed : Aged(suppressed[i].at, -(TTL + 1)) \in -(TTL + 1)..0
      BY <3>2, <3>3, Ages
    <3>5. \A i \in DOMAIN suppressed : suppressed'[i] \in [key : Groups, at : -(TTL + 1)..0]
      BY <3>1, <3>2, <3>4
    <3> QED BY <3>1, <3>2, <3>5
  <2>3. DOMAIN emitted' \subseteq Groups /\ \A g \in DOMAIN emitted' : emitted'[g] \in -Cooldown..0
    <3>1. emitted' = [g \in DOMAIN emitted |-> Aged(emitted[g], -Cooldown)]
      BY <1>11 DEF Pass
    <3> QED BY <1>0, <3>1, Ages DEF Types
  <2>4. cleaned' \in -(Maintenance + 1)..0
    <3>1. cleaned' = Aged(cleaned, -(Maintenance + 1)) /\ Maintenance + 1 \in Nat
      BY <1>0, <1>11 DEF Pass
    <3> QED BY <3>1, Ages DEF Types
  <2> QED BY <2>1, <2>2, <2>3, <2>4 DEF Types
<1>12. CASE UNCHANGED vars
  BY <1>12 DEF vars, cycle, memory, tables, Types
<1> QED BY <1>1, <1>2, <1>3, <1>4, <1>5, <1>6, <1>7, <1>8, <1>9, <1>10, <1>11, <1>12 DEF Next, Loop

\* Whatever stage raises and whoever restarts the loop, a cycle works on the
\* groups of its own snapshots alone (scan_once, run_forever), for any groups
\* and windows.
THEOREM CycleTypeCorrect == Spec => []TypeOK
<1>1. Init => Types
  <2> SUFFICES ASSUME Init PROVE Types
    OBVIOUS
  <2>1. /\ DOMAIN << >> = {} /\ << >> \in Seq([key : Groups, at : -(TTL + 1)..0])
        /\ 0 \in -(Maintenance + 1)..0 /\ -(Maintenance + 1) \in -(Maintenance + 1)..0
    BY ScanCycleAssumption
  <2> QED BY <2>1 DEF Init, Types, Stages
<1>2. Types => TypeOK
  <2> SUFFICES ASSUME Types PROVE TypeOK
    OBVIOUS
  <2>1. \A i \in DOMAIN suppressed : suppressed[i] \in [key : Groups, at : -(TTL + 1)..0]
    BY ElementOf DEF Types
  <2> QED BY <2>1 DEF Types, TypeOK
<1>3. Types /\ [Next]_vars => Types'
  BY NextTypes
<1> QED BY <1>1, <1>2, <1>3, PTL DEF Spec
=============================================================================
