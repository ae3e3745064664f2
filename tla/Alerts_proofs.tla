----------------------------- MODULE Alerts_proofs -----------------------------
(***************************************************************************)
(* Proofs about AlertService, for any keys, cooldown, clock bound and      *)
(* number of restarts: its type invariant, the spacing of the rows of one  *)
(* key, and that the table is a log; and about FailedUnits, for any units: *)
(* it uses the alert service as AlertService allows, and reports failures  *)
(* before it takes them for known.                                         *)
(***************************************************************************)
EXTENDS FailedUnits, Finite_proofs

-----------------------------------------------------------------------------
(* AlertService                                                            *)

\* A row of the running incarnation is no younger than the stamp of its key,
\* whether or not the write that followed the stamp succeeded; no row comes
\* from a later incarnation.
RowsAreStamped ==
    \A i \in DOMAIN alerts :
        /\ alerts[i].epoch <= epoch
        /\ alerts[i].epoch = epoch => alerts[i].at <= lastEmitted[alerts[i].key]

\* RowsAreSpaced alone is not inductive: the next row is compared with the
\* stamp and not with the rows.
IInv == TypeOK /\ RowsAreStamped /\ RowsAreSpaced

-----------------------------------------------------------------------------

\* Acknowledging a row changes its resolved flag and nothing else.
LEMMA Acknowledged ==
  ASSUME NEW a \in Alert, NEW b, b = [a EXCEPT !.resolved = TRUE]
  PROVE  /\ b \in Alert /\ b.resolved
         /\ b.key = a.key /\ b.at = a.at /\ b.epoch = a.epoch
         /\ [b EXCEPT !.resolved = FALSE] = [a EXCEPT !.resolved = FALSE]
BY DEF Alert

\* Resolve touches one row only.
LEMMA ResolvedRows ==
  ASSUME TypeOK, NEW i \in DOMAIN alerts, Resolve(i)
  PROVE  /\ alerts' \in Seq(Alert) /\ Len(alerts') = Len(alerts)
         /\ \A j \in DOMAIN alerts : alerts[j] \in Alert
         /\ alerts'[i] = [alerts[i] EXCEPT !.resolved = TRUE]
         /\ \A j \in DOMAIN alerts : j # i => alerts'[j] = alerts[j]
<1>1. alerts \in Seq(Alert) /\ alerts[i] \in Alert
  BY DEF TypeOK
<1> DEFINE row == [alerts[i] EXCEPT !.resolved = TRUE]
<1>2. row \in Alert
  BY <1>1, Acknowledged
<1>3. alerts' = [alerts EXCEPT ![i] = row]
  BY DEF Resolve
<1> HIDE DEF row
<1>4. /\ alerts' \in Seq(Alert) /\ Len(alerts') = Len(alerts)
      /\ \A j \in DOMAIN alerts : alerts[j] \in Alert
      /\ alerts'[i] = row
      /\ \A j \in DOMAIN alerts : j # i => alerts'[j] = alerts[j]
  BY <1>1, <1>2, <1>3
<1> QED BY <1>4 DEF row

\* Initially the types are right.
LEMMA InitTypeOK == Init => TypeOK
BY AlertServiceAssumption DEF Init, TypeOK, Outcomes

\* Every step keeps the types.
LEMMA NextTypeOK == TypeOK /\ [Next]_alertVars => TypeOK'
<1> SUFFICES ASSUME TypeOK, [Next]_alertVars PROVE TypeOK'
  OBVIOUS
<1> USE AlertServiceAssumption DEF TypeOK, Alert, Outcomes
<1>1. ASSUME NEW key \in AlertKeys, EmitCooling(key) PROVE TypeOK'
  BY <1>1 DEF EmitCooling
<1>2. ASSUME NEW key \in AlertKeys, EmitWritten(key) PROVE TypeOK'
  <2>1. Row(key) \in Alert
    BY DEF Row
  <2>2. alerts' \in Seq(Alert)
    BY <1>2, <2>1 DEF EmitWritten
  <2> QED BY <1>2, <2>2 DEF EmitWritten
<1>3. ASSUME NEW key \in AlertKeys, EmitFailed(key) PROVE TypeOK'
  BY <1>3 DEF EmitFailed
<1>4. ASSUME NEW i \in DOMAIN alerts, Resolve(i) PROVE TypeOK'
  <2>1. alerts' \in Seq(Alert)
    BY <1>4, ResolvedRows DEF TypeOK
  <2> QED BY <1>4, <2>1 DEF Resolve
<1>5. CASE Pass
  BY <1>5 DEF Pass
<1>6. CASE Restart(uptime) \/ Restart(0)
  BY <1>6 DEF Restart
<1>7. CASE UNCHANGED alertVars
  BY <1>7 DEF alertVars
<1> QED BY <1>1, <1>2, <1>3, <1>4, <1>5, <1>6, <1>7 DEF Next, Emit

\* The state of the alert service always has its type.
THEOREM TypeCorrect == Spec => []TypeOK
<1> QED BY InitTypeOK, NextTypeOK, PTL DEF Spec

-----------------------------------------------------------------------------

\* A step that neither writes a row nor restarts the scanner, and that moves
\* no stamp back, keeps the stamped and spaced rows as they are.
LEMMA QuietStep ==
  ASSUME IInv, TypeOK',
         alerts' = alerts, epoch' = epoch,
         \A k \in AlertKeys : lastEmitted'[k] >= lastEmitted[k]
  PROVE  IInv'
<1>1. RowsAreStamped'
  <2> SUFFICES ASSUME NEW i \in DOMAIN alerts
               PROVE  /\ alerts[i].epoch <= epoch
                      /\ alerts[i].epoch = epoch => alerts[i].at <= lastEmitted'[alerts[i].key]
    BY DEF RowsAreStamped
  <2>1. alerts[i] \in Alert
    BY DEF IInv, TypeOK
  <2>2. lastEmitted' \in [AlertKeys -> 0..Horizon] /\ lastEmitted \in [AlertKeys -> 0..Horizon]
    BY DEF IInv, TypeOK
  <2> QED BY <2>1, <2>2, AlertServiceAssumption DEF IInv, RowsAreStamped, Alert
<1>2. RowsAreSpaced'
  BY DEF IInv, RowsAreSpaced
<1> QED BY <1>1, <1>2 DEF IInv

\* A stamp moves forward when its key is not cooling.
LEMMA StampMovesForward ==
  ASSUME TypeOK, NEW key \in AlertKeys, ~Cooling(key),
         lastEmitted' = [lastEmitted EXCEPT ![key] = uptime]
  PROVE  \A k \in AlertKeys : lastEmitted'[k] >= lastEmitted[k]
BY AlertServiceAssumption DEF TypeOK, Cooling

\* emit() writes a row only a cooldown after every row of its key.
LEMMA WrittenStep ==
  ASSUME IInv, TypeOK', NEW key \in AlertKeys, EmitWritten(key)
  PROVE  IInv'
<1> USE AlertServiceAssumption
<1> DEFINE n == Len(alerts)
<1>1. /\ alerts \in Seq(Alert) /\ n \in Nat /\ DOMAIN alerts = 1..n
      /\ uptime \in 0..Horizon /\ epoch \in 1..MaxEpochs
      /\ lastEmitted \in [AlertKeys -> 0..Horizon]
  BY DEF IInv, TypeOK
<1>2. /\ DOMAIN alerts' = 1..(n + 1)
      /\ alerts'[n + 1] = Row(key)
      /\ \A i \in 1..n : alerts'[i] = alerts[i]
      /\ epoch' = epoch
      /\ lastEmitted' = [lastEmitted EXCEPT ![key] = uptime]
      /\ uptime - lastEmitted[key] >= Cooldown
  BY <1>1 DEF EmitWritten, Cooling
<1>3. \A i \in 1..n : alerts[i] \in Alert
  BY <1>1
<1>4. \A k \in AlertKeys : lastEmitted'[k] >= lastEmitted[k]
  BY StampMovesForward DEF IInv, EmitWritten
<1>5. \A i \in 1..n : /\ alerts[i].epoch <= epoch
                      /\ alerts[i].epoch = epoch => alerts[i].at <= lastEmitted[alerts[i].key]
  BY <1>1 DEF IInv, RowsAreStamped
<1>6. RowsAreStamped'
  <2> SUFFICES ASSUME NEW i \in 1..(n + 1)
               PROVE  /\ alerts'[i].epoch <= epoch
                      /\ alerts'[i].epoch = epoch => alerts'[i].at <= lastEmitted'[alerts'[i].key]
    BY <1>2 DEF RowsAreStamped
  <2>1. CASE i = n + 1
    BY <2>1, <1>1, <1>2 DEF Row
  <2>2. CASE i \in 1..n
    <3>1. alerts[i].key \in AlertKeys /\ alerts[i].at \in Nat
      BY <2>2, <1>3 DEF Alert
    <3>2. lastEmitted'[alerts[i].key] \in Nat /\ lastEmitted[alerts[i].key] \in Nat
      BY <3>1, <1>1, <1>2
    <3> QED BY <2>2, <3>1, <3>2, <1>2, <1>4, <1>5
  <2> QED BY <2>1, <2>2, <1>1
<1>7. RowsAreSpaced'
  <2> SUFFICES ASSUME NEW i \in 1..(n + 1), NEW j \in 1..(n + 1), i < j,
                      alerts'[i].key = alerts'[j].key, alerts'[i].epoch = alerts'[j].epoch
               PROVE  alerts'[j].at - alerts'[i].at >= Cooldown
    BY <1>2 DEF RowsAreSpaced
  <2>1. CASE j \in 1..n
    <3>1. i \in 1..n
      BY <2>1, <1>1
    <3>2. alerts'[i] = alerts[i] /\ alerts'[j] = alerts[j]
      BY <2>1, <3>1, <1>2
    <3> QED BY <2>1, <3>1, <3>2, <1>1 DEF IInv, RowsAreSpaced
  <2>2. CASE j = n + 1
    <3>1. i \in 1..n /\ alerts[i].key = key /\ alerts[i].epoch = epoch /\ alerts'[j].at = uptime
      BY <2>2, <1>1, <1>2 DEF Row
    <3>2. alerts[i].at \in Nat /\ lastEmitted[key] \in Nat
      <4>1. alerts[i] \in Alert
        BY <3>1, <1>3
      <4> QED BY <4>1, <1>1 DEF Alert
    <3>3. alerts[i].at <= lastEmitted[key]
      BY <3>1, <1>5
    <3>4. alerts'[i].at = alerts[i].at
      BY <3>1, <1>2
    <3>5. uptime - lastEmitted[key] >= Cooldown
      BY <1>2
    <3> QED BY <3>1, <3>2, <3>3, <3>4, <3>5, <1>1
  <2> QED BY <2>1, <2>2, <1>1
<1> QED BY <1>6, <1>7 DEF IInv

\* Acknowledging touches neither the key, nor the time, nor the incarnation.
LEMMA ResolveStep ==
  ASSUME IInv, TypeOK', NEW i \in DOMAIN alerts, Resolve(i)
  PROVE  IInv'
<1>1. /\ DOMAIN alerts' = DOMAIN alerts /\ epoch' = epoch /\ lastEmitted' = lastEmitted
      /\ \A j \in DOMAIN alerts : /\ alerts'[j].key = alerts[j].key
                                  /\ alerts'[j].at = alerts[j].at
                                  /\ alerts'[j].epoch = alerts[j].epoch
  <2>1. TypeOK
    BY DEF IInv
  <2>2. ASSUME NEW j \in DOMAIN alerts
        PROVE  /\ alerts'[j].key = alerts[j].key
               /\ alerts'[j].at = alerts[j].at
               /\ alerts'[j].epoch = alerts[j].epoch
    <3>1. CASE j = i
      <4>1. alerts[i] \in Alert /\ alerts'[i] = [alerts[i] EXCEPT !.resolved = TRUE]
        BY <2>1, ResolvedRows
      <4> QED BY <3>1, <4>1, Acknowledged
    <3>2. CASE j # i
      BY <2>1, <3>2, ResolvedRows
    <3> QED BY <3>1, <3>2
  <2>3. DOMAIN alerts' = DOMAIN alerts
    BY <2>1 DEF Resolve, TypeOK
  <2> QED BY <2>2, <2>3 DEF Resolve
<1>2. RowsAreStamped'
  BY <1>1 DEF IInv, RowsAreStamped
<1>3. RowsAreSpaced'
  BY <1>1 DEF IInv, RowsAreSpaced
<1> QED BY <1>2, <1>3 DEF IInv

\* After a restart no row is of the running incarnation.
LEMMA RestartStep ==
  ASSUME IInv, TypeOK', NEW clock, Restart(clock)
  PROVE  IInv'
<1>1. \A j \in DOMAIN alerts : alerts[j].epoch \in Nat /\ alerts[j].epoch <= epoch
  <2> SUFFICES ASSUME NEW j \in DOMAIN alerts
               PROVE  alerts[j].epoch \in Nat /\ alerts[j].epoch <= epoch
    OBVIOUS
  <2>1. alerts[j] \in Alert
    BY DEF IInv, TypeOK
  <2> QED BY <2>1 DEF IInv, Alert, RowsAreStamped
<1>2. RowsAreStamped'
  BY <1>1 DEF Restart, RowsAreStamped, IInv, TypeOK
<1>3. RowsAreSpaced'
  BY DEF Restart, IInv, RowsAreSpaced
<1> QED BY <1>2, <1>3 DEF IInv

\* Every step keeps the inductive invariant.
LEMMA NextIInv == IInv /\ [Next]_alertVars => IInv'
<1> SUFFICES ASSUME IInv, [Next]_alertVars PROVE IInv'
  OBVIOUS
<1>0. TypeOK'
  BY NextTypeOK DEF IInv
<1>1. ASSUME NEW key \in AlertKeys, EmitCooling(key) PROVE IInv'
  <2>1. \A k \in AlertKeys : lastEmitted'[k] >= lastEmitted[k]
    BY <1>1 DEF EmitCooling, IInv, TypeOK
  <2> QED BY <1>0, <1>1, <2>1, QuietStep DEF EmitCooling
<1>2. ASSUME NEW key \in AlertKeys, EmitWritten(key) PROVE IInv'
  BY <1>0, <1>2, WrittenStep
<1>3. ASSUME NEW key \in AlertKeys, EmitFailed(key) PROVE IInv'
  <2>1. \A k \in AlertKeys : lastEmitted'[k] >= lastEmitted[k]
    BY <1>3, StampMovesForward DEF EmitFailed, IInv
  <2> QED BY <1>0, <1>3, <2>1, QuietStep DEF EmitFailed
<1>4. ASSUME NEW i \in DOMAIN alerts, Resolve(i) PROVE IInv'
  BY <1>0, <1>4, ResolveStep
<1>5. CASE Pass
  <2>1. \A k \in AlertKeys : lastEmitted'[k] >= lastEmitted[k]
    BY <1>5 DEF Pass, IInv, TypeOK
  <2> QED BY <1>0, <1>5, <2>1, QuietStep DEF Pass
<1>6. CASE Restart(uptime) \/ Restart(0)
  BY <1>0, <1>6, RestartStep
<1>7. CASE UNCHANGED alertVars
  <2>1. \A k \in AlertKeys : lastEmitted'[k] >= lastEmitted[k]
    BY <1>7 DEF alertVars, IInv, TypeOK
  <2> QED BY <1>0, <1>7, <2>1, QuietStep DEF alertVars
<1> QED BY <1>1, <1>2, <1>3, <1>4, <1>5, <1>6, <1>7 DEF Next, Emit

\* Two rows of one key written by one incarnation of the scanner are at least
\* a cooldown apart (AlertService.emit stamps before it writes).
THEOREM RowsSpaced == Spec => []RowsAreSpaced
<1>1. Init => IInv
  BY InitTypeOK DEF Init, IInv, RowsAreStamped, RowsAreSpaced
<1>2. IInv => RowsAreSpaced
  BY DEF IInv
<1> QED BY <1>1, <1>2, NextIInv, PTL DEF Spec

-----------------------------------------------------------------------------

\* No step takes a row out of the alerts table, rewrites it, or takes an
\* acknowledgement back.
THEOREM TableIsLog == Spec => LogOnlyGrows
<1> DEFINE Grows ==
      /\ Len(alerts') >= Len(alerts)
      /\ \A i \in DOMAIN alerts :
            /\ [alerts'[i] EXCEPT !.resolved = FALSE] = [alerts[i] EXCEPT !.resolved = FALSE]
            /\ alerts[i].resolved => alerts'[i].resolved
<1>1. ASSUME TypeOK, [Next]_alertVars PROVE [Grows]_alertVars
  <2>1. CASE alerts' = alerts
    BY <2>1, <1>1 DEF TypeOK
  <2>2. ASSUME NEW key \in AlertKeys, EmitWritten(key) PROVE Grows
    <3>1. Len(alerts') = Len(alerts) + 1 /\ \A i \in DOMAIN alerts : alerts'[i] = alerts[i]
      BY <1>1, <2>2 DEF EmitWritten, TypeOK
    <3>2. Len(alerts) \in Nat
      BY <1>1 DEF TypeOK
    <3>3. ASSUME NEW i \in DOMAIN alerts
          PROVE  /\ [alerts'[i] EXCEPT !.resolved = FALSE] = [alerts[i] EXCEPT !.resolved = FALSE]
                 /\ alerts[i].resolved => alerts'[i].resolved
      <4>1. alerts'[i] = alerts[i]
        BY <3>1
      <4> QED BY <4>1
    <3>4. Len(alerts') >= Len(alerts)
      BY <3>1, <3>2
    <3> QED BY <3>3, <3>4
  <2>3. ASSUME NEW i \in DOMAIN alerts, Resolve(i) PROVE Grows
    <3>1. Len(alerts) \in Nat /\ Len(alerts') >= Len(alerts)
      <4>1. Len(alerts) \in Nat
        BY <1>1 DEF TypeOK
      <4>2. Len(alerts') = Len(alerts)
        BY <1>1, <2>3, ResolvedRows
      <4> QED BY <4>1, <4>2
    <3>2. ASSUME NEW j \in DOMAIN alerts
          PROVE  /\ [alerts'[j] EXCEPT !.resolved = FALSE] = [alerts[j] EXCEPT !.resolved = FALSE]
                 /\ alerts[j].resolved => alerts'[j].resolved
      <4>1. CASE j = i
        <5>1. alerts[i] \in Alert /\ alerts'[i] = [alerts[i] EXCEPT !.resolved = TRUE]
          BY <1>1, <2>3, ResolvedRows
        <5> QED BY <4>1, <5>1, Acknowledged
      <4>2. CASE j # i
        BY <1>1, <2>3, <4>2, ResolvedRows
      <4> QED BY <4>1, <4>2
    <3> QED BY <3>1, <3>2
  <2> QED BY <1>1, <2>1, <2>2, <2>3
          DEF Next, Emit, EmitCooling, EmitFailed, Pass, Restart, alertVars
<1> QED BY <1>1, TypeCorrect, PTL DEF Spec, LogOnlyGrows

-----------------------------------------------------------------------------
(* FailedUnits                                                             *)

Told(unit) == uptime - lastEmitted[<< "failed", unit >>] < Cooldown
Pending(unit) == \E i \in DOMAIN todo : todo[i] = << "failed", unit >>

\* What is left to emit is about units whose state changed, and the clock of
\* this incarnation is ahead of its start and of its stamps.
CheckIsSound ==
    /\ ~checking => todo = << >>
    /\ \A i \in DOMAIN todo : todo[i][1] = "recovered" => todo[i][2] \in known
    /\ since <= uptime
    /\ \A k \in AlertKeys : lastEmitted[k] <= uptime

\* While a check runs, each new failure it found is still to be emitted or
\* was put to the alert service within the cooldown.
FailuresAreTold ==
    since >= Cooldown =>
        /\ checking => \A unit \in probe \ known : Pending(unit) \/ Told(unit)
        /\ FailureIsTriedFirst

\* As long as no write has failed, a stamp has its row.
StampsHaveRows ==
    faults = 0 =>
        \A k \in AlertKeys : lastEmitted[k] > 0 =>
            \E i \in DOMAIN alerts :
                alerts[i].key = k /\ alerts[i].epoch = epoch /\ alerts[i].at = lastEmitted[k]

UnitsIInv ==
    /\ UnitsTypeOK /\ IInv
    /\ CheckIsSound /\ FailuresAreTold /\ StampsHaveRows

LEMMA KeysAreUnits == AlertKeys = Kinds \X Units
BY FailedUnitsAssumption DEF UnitKeys

\* sorted() lists the units of a set, all of them.
LEMMA KeysList ==
  ASSUME NEW kind \in Kinds, NEW set \in SUBSET Units
  PROVE  /\ Keys(kind, set) \in Seq(Kinds \X set)
         /\ \A unit \in set : \E i \in DOMAIN Keys(kind, set) : Keys(kind, set)[i] = << kind, unit >>
<1>1. set \in SUBSET Int /\ IsFiniteSet(set)
  <2>1. set \subseteq Units /\ Units \subseteq Nat /\ IsFiniteSet(Units)
    BY FailedUnitsAssumption
  <2>2. IsFiniteSet(set)
    BY <2>1, FS_Subset
  <2> QED BY <2>1, <2>2
<1>2. Lists(InOrder(set), set)
  BY <1>1, ListExists DEF InOrder, Lists
<1>3. Cardinality(set) \in Nat /\ \A x \in set : \E i \in 1..Cardinality(set) : InOrder(set)[i] = x
  BY <1>1, <1>2, ListExists
<1>4. InOrder(set) \in [1..Cardinality(set) -> set]
  BY <1>2 DEF Lists
<1>5. Keys(kind, set) \in [1..Cardinality(set) -> Kinds \X set]
  BY <1>4 DEF Keys
<1>6. Keys(kind, set) \in Seq(Kinds \X set)
  BY <1>3, <1>5
<1> QED BY <1>3, <1>4, <1>6 DEF Keys

\* What a check has to emit.
LEMMA TodoIsComplete ==
  ASSUME UnitsTypeOK, Probe
  PROVE  /\ todo' \in Seq(Kinds \X Units)
         /\ \A i \in DOMAIN todo' : todo'[i][1] = "recovered" => todo'[i][2] \in known
         /\ \A unit \in failed \ known : Pending(unit)'
<1> DEFINE new == Keys("failed", failed \ known)
           gone == Keys("recovered", known \ failed)
<1>1. /\ new \in Seq(Kinds \X (failed \ known)) /\ gone \in Seq(Kinds \X (known \ failed))
      /\ \A unit \in failed \ known : \E i \in DOMAIN new : new[i] = << "failed", unit >>
  <2>1. failed \ known \in SUBSET Units /\ known \ failed \in SUBSET Units
    BY DEF UnitsTypeOK
  <2>2. "failed" \in Kinds /\ "recovered" \in Kinds
    BY DEF Kinds
  <2> QED BY <2>1, <2>2, KeysList
<1>2. \A i \in DOMAIN new : new[i][1] = "failed"
  BY DEF Keys
<1>3. todo' = new \o gone
  BY DEF Probe
<1> HIDE DEF new, gone
<1>4. new \in Seq(Kinds \X Units) /\ gone \in Seq(Kinds \X Units)
  BY <1>1 DEF UnitsTypeOK
<1>5. /\ Len(new) \in Nat /\ Len(gone) \in Nat
      /\ DOMAIN new = 1..Len(new) /\ DOMAIN gone = 1..Len(gone)
      /\ DOMAIN todo' = 1..(Len(new) + Len(gone))
      /\ \A i \in 1..Len(new) : todo'[i] = new[i]
      /\ \A i \in 1..(Len(new) + Len(gone)) : i > Len(new) => todo'[i] = gone[i - Len(new)]
  BY <1>3, <1>4
<1>6. ASSUME NEW i \in DOMAIN todo', todo'[i][1] = "recovered" PROVE todo'[i][2] \in known
  <2>1. i \notin 1..Len(new)
    BY <1>2, <1>5, <1>6
  <2>2. i > Len(new) /\ i - Len(new) \in DOMAIN gone
    BY <1>5, <2>1
  <2>3. todo'[i] \in Kinds \X (known \ failed)
    BY <1>1, <1>5, <2>2
  <2> QED BY <2>3
<1>7. ASSUME NEW unit \in failed \ known PROVE Pending(unit)'
  <2>1. PICK i \in DOMAIN new : new[i] = << "failed", unit >>
    BY <1>1
  <2>2. i \in DOMAIN todo' /\ todo'[i] = << "failed", unit >>
    BY <1>5, <2>1
  <2> QED BY <2>2 DEF Pending
<1>8. todo' \in Seq(Kinds \X Units)
  BY <1>3, <1>4
<1> QED BY <1>6, <1>7, <1>8

\* The next alert of a check.
LEMMA NextToEmit ==
  ASSUME UnitsTypeOK, todo # << >>
  PROVE  /\ Head(todo) \in AlertKeys /\ Head(todo) \in Kinds \X Units
         /\ Tail(todo) \in Seq(Kinds \X Units)
         /\ Head(todo) = todo[1] /\ 1 \in DOMAIN todo
         /\ \A i \in DOMAIN Tail(todo) : i + 1 \in DOMAIN todo /\ Tail(todo)[i] = todo[i + 1]
         /\ \A i \in DOMAIN todo : i = 1 \/ (i - 1 \in DOMAIN Tail(todo) /\ Tail(todo)[i - 1] = todo[i])
<1>1. todo \in Seq(Kinds \X Units)
  BY DEF UnitsTypeOK
<1> QED BY <1>1, KeysAreUnits

\* Every step of the check and of the host is a step that AlertService allows.
LEMMA UnitsStepIsAlertStep ==
  UnitsTypeOK /\ [UnitsNext]_vars => [Next]_alertVars
<1> SUFFICES ASSUME UnitsTypeOK, [UnitsNext]_vars PROVE [Next]_alertVars
  OBVIOUS
<1>1. CASE EmitNext \/ EmitRaises
  <2>1. todo # << >> /\ Emit(Head(todo))
    BY <1>1 DEF EmitNext, EmitRaises, Emit
  <2> QED BY <2>1, NextToEmit DEF Next
<1>2. CASE Tick
  BY <1>2 DEF Tick, Next
<1>3. ASSUME NEW i \in DOMAIN alerts, Acknowledge(i) PROVE Next
  BY <1>3 DEF Acknowledge, Next
<1>4. CASE Crash \/ Reboot
  BY <1>4 DEF Crash, Reboot, Fresh, Next
<1>5. CASE (\E unit \in Units : Change(unit)) \/ Probe \/ ProbeFails \/ Finish \/ UNCHANGED vars
  BY <1>5 DEF Change, Probe, ProbeFails, Finish, vars
<1> QED BY <1>1, <1>2, <1>3, <1>4, <1>5 DEF UnitsNext, Check

\* What a new ProcessService starts from.
LEMMA NothingToDo == << >> \in Seq(Kinds \X Units) /\ 0 \in 0..Horizon
BY AlertServiceAssumption

LEMMA UnitsInitTypeOK == UnitsInit => UnitsTypeOK
<1> SUFFICES ASSUME UnitsInit PROVE UnitsTypeOK
  OBVIOUS
<1>1. TypeOK
  BY InitTypeOK DEF UnitsInit
<1>2. FirstUptime \in 0..Horizon
  BY AlertServiceAssumption
<1> QED BY <1>1, <1>2, NothingToDo DEF UnitsInit, UnitsTypeOK

LEMMA UnitsNextTypeOK == UnitsTypeOK /\ [UnitsNext]_vars => UnitsTypeOK'
<1> SUFFICES ASSUME UnitsTypeOK, [UnitsNext]_vars PROVE UnitsTypeOK'
  OBVIOUS
<1>0. TypeOK'
  BY UnitsStepIsAlertStep, NextTypeOK DEF UnitsTypeOK
<1> USE NothingToDo DEF UnitsTypeOK
<1>1. ASSUME NEW unit \in Units, Change(unit) PROVE UnitsTypeOK'
  BY <1>0, <1>1 DEF Change, checkVars
<1>2. CASE Probe
  <2>1. todo' \in Seq(Kinds \X Units)
    BY <1>2, TodoIsComplete
  <2>2. uptime \in 0..Horizon
    BY DEF TypeOK
  <2> QED BY <1>0, <1>2, <2>1, <2>2 DEF Probe, hostVars
<1>3. CASE ProbeFails
  <2>1. uptime \in 0..Horizon
    BY DEF TypeOK
  <2> QED BY <1>0, <1>3, <2>1 DEF ProbeFails, hostVars
<1>4. CASE EmitNext
  <2>1. todo' \in Seq(Kinds \X Units)
    BY <1>4, NextToEmit DEF EmitNext
  <2> QED BY <1>0, <1>4, <2>1 DEF EmitNext, hostVars
<1>5. CASE EmitRaises \/ Finish
  <2>1. /\ failed' = failed /\ known' \in {known, probe} /\ lastCheck' = lastCheck
        /\ checking' = FALSE /\ probe' = {} /\ since' = since /\ todo' = << >>
    BY <1>5 DEF EmitRaises, Finish, hostVars
  <2> QED BY <1>0, <2>1
<1>6. CASE Tick \/ (\E i \in DOMAIN alerts : Acknowledge(i)) \/ UNCHANGED vars
  BY <1>0, <1>6 DEF Tick, Acknowledge, vars, hostVars, checkVars
<1>7. CASE Crash \/ Reboot
  <2>1. uptime' \in 0..Horizon
    BY <1>0 DEF TypeOK
  <2>2. since' \in 0..Horizon
    BY <1>7, <2>1 DEF Crash, Reboot, Fresh, TypeOK
  <2>3. failed' \subseteq Units
    BY <1>7 DEF Crash, Reboot, hostVars
  <2>4. known' = {} /\ lastCheck' = 0 /\ checking' = FALSE /\ probe' = {} /\ todo' = << >>
    BY <1>7 DEF Crash, Reboot, Fresh
  <2> QED BY <1>0, <2>2, <2>3, <2>4
<1> QED BY <1>1, <1>2, <1>3, <1>4, <1>5, <1>6, <1>7 DEF UnitsNext, Check

\* The types of the check and of the alert service it uses are right.
THEOREM UnitsTypeCorrect == UnitsSpec => []UnitsTypeOK
BY UnitsInitTypeOK, UnitsNextTypeOK, PTL DEF UnitsSpec

\* The check of failed units uses the alert service as AlertService says it
\* may be used, so what holds there holds here.
THEOREM UnitsUseAlertService == UnitsSpec => Spec
<1>1. UnitsInit => Init
  BY DEF UnitsInit
<1> QED BY <1>1, UnitsStepIsAlertStep, UnitsTypeCorrect, PTL DEF UnitsSpec, Spec

\* Two rows of one unit and kind are at least a cooldown apart here too.
THEOREM UnitRowsSpaced == UnitsSpec => []RowsAreSpaced
BY UnitsUseAlertService, RowsSpaced, PTL

-----------------------------------------------------------------------------

\* What emit() does to the stamps and the rows.
LEMMA EmitStamps ==
  ASSUME UnitsTypeOK, CheckIsSound, NEW key \in AlertKeys,
         EmitCooling(key) \/ EmitWritten(key)
  PROVE  /\ UNCHANGED << uptime, epoch, faults >>
         /\ uptime - lastEmitted'[key] < Cooldown
         /\ \A k \in AlertKeys : lastEmitted'[k] \in {lastEmitted[k], uptime} /\ lastEmitted'[k] >= lastEmitted[k]
         /\ \A k \in AlertKeys \ {key} : lastEmitted'[k] = lastEmitted[k]
         /\ \A i \in DOMAIN alerts : i \in DOMAIN alerts' /\ alerts'[i] = alerts[i]
         /\ lastEmitted'[key] # lastEmitted[key] =>
               \E i \in DOMAIN alerts' : alerts'[i] = Row(key) /\ lastEmitted'[key] = uptime
         /\ \A i \in DOMAIN alerts' : i \in DOMAIN alerts \/ alerts'[i] = Row(key)
<1>1. /\ uptime \in Nat /\ alerts \in Seq(Alert)
      /\ lastEmitted \in [AlertKeys -> 0..Horizon]
  BY DEF UnitsTypeOK, TypeOK
<1>2. /\ \A k \in AlertKeys : lastEmitted[k] \in Nat
      /\ \A k \in AlertKeys : lastEmitted[k] <= uptime
  <2>1. \A k \in AlertKeys : lastEmitted[k] \in Nat
    BY <1>1
  <2> QED BY <2>1 DEF CheckIsSound
<1>3. CASE EmitCooling(key)
  BY <1>1, <1>2, <1>3 DEF EmitCooling, Cooling
<1>4. CASE EmitWritten(key)
  <2>1. alerts' = Append(alerts, Row(key)) /\ lastEmitted' = [lastEmitted EXCEPT ![key] = uptime]
    BY <1>4 DEF EmitWritten
  <2>2. /\ DOMAIN alerts = 1..Len(alerts) /\ Len(alerts) \in Nat
        /\ DOMAIN alerts' = 1..(Len(alerts) + 1)
        /\ alerts'[Len(alerts) + 1] = Row(key)
        /\ \A i \in 1..Len(alerts) : alerts'[i] = alerts[i]
    BY <1>1, <2>1
  <2>3. lastEmitted'[key] = uptime /\ \A k \in AlertKeys \ {key} : lastEmitted'[k] = lastEmitted[k]
    BY <1>1, <2>1
  <2>4. \A k \in AlertKeys : lastEmitted'[k] \in {lastEmitted[k], uptime} /\ lastEmitted'[k] >= lastEmitted[k]
    BY <1>1, <1>2, <2>3
  <2>5. uptime - lastEmitted'[key] < Cooldown
    BY <1>1, <2>3, AlertServiceAssumption
  <2>6. UNCHANGED << uptime, epoch, faults >>
    BY <1>4 DEF EmitWritten
  <2>7. \A i \in DOMAIN alerts' : i \in DOMAIN alerts \/ alerts'[i] = Row(key)
    BY <2>2
  <2>8. \E i \in DOMAIN alerts' : alerts'[i] = Row(key)
    BY <2>2
  <2> QED BY <2>2, <2>3, <2>4, <2>5, <2>6, <2>7, <2>8
<1> QED BY <1>3, <1>4

\* Acknowledging keeps what the rows say.
LEMMA AcknowledgedRows ==
  ASSUME UnitsTypeOK, NEW i \in DOMAIN alerts, Resolve(i)
  PROVE  /\ DOMAIN alerts' = DOMAIN alerts
         /\ \A j \in DOMAIN alerts : /\ alerts'[j].key = alerts[j].key
                                     /\ alerts'[j].at = alerts[j].at
                                     /\ alerts'[j].epoch = alerts[j].epoch
<1>1. TypeOK
  BY DEF UnitsTypeOK
<1>2. DOMAIN alerts' = DOMAIN alerts
  BY <1>1 DEF Resolve, TypeOK
<1>3. ASSUME NEW j \in DOMAIN alerts
      PROVE  alerts'[j].key = alerts[j].key /\ alerts'[j].at = alerts[j].at /\ alerts'[j].epoch = alerts[j].epoch
  <2>1. CASE j = i
    <3>1. alerts[i] \in Alert /\ alerts'[i] = [alerts[i] EXCEPT !.resolved = TRUE]
      BY <1>1, ResolvedRows
    <3> QED BY <2>1, <3>1, Acknowledged
  <2>2. CASE j # i
    BY <1>1, <2>2, ResolvedRows
  <2> QED BY <2>1, <2>2
<1> QED BY <1>2, <1>3

\* emit() writes an alert or lets it cool down, and the check goes on.
LEMMA EmitNextInv ==
  ASSUME UnitsIInv, EmitNext
  PROVE  CheckIsSound' /\ FailuresAreTold' /\ StampsHaveRows'
<1> DEFINE key == Head(todo)
<1>1. /\ UnitsTypeOK /\ CheckIsSound /\ FailuresAreTold /\ StampsHaveRows /\ RowsAreStamped
      /\ checking /\ todo # << >> /\ todo' = Tail(todo)
      /\ UNCHANGED << known, checking, probe, since >>
      /\ EmitCooling(key) \/ EmitWritten(key)
  BY DEF UnitsIInv, IInv, EmitNext
<1>2. /\ key \in AlertKeys /\ key = todo[1] /\ 1 \in DOMAIN todo
      /\ \A i \in DOMAIN todo' : i + 1 \in DOMAIN todo /\ todo'[i] = todo[i + 1]
      /\ \A i \in DOMAIN todo : i = 1 \/ (i - 1 \in DOMAIN todo' /\ todo'[i - 1] = todo[i])
  BY <1>1, NextToEmit
<1> HIDE DEF key
<1>3. /\ UNCHANGED << uptime, epoch, faults >>
      /\ uptime - lastEmitted'[key] < Cooldown
      /\ \A k \in AlertKeys : lastEmitted'[k] \in {lastEmitted[k], uptime} /\ lastEmitted'[k] >= lastEmitted[k]
      /\ \A k \in AlertKeys \ {key} : lastEmitted'[k] = lastEmitted[k]
      /\ \A i \in DOMAIN alerts : i \in DOMAIN alerts' /\ alerts'[i] = alerts[i]
      /\ lastEmitted'[key] # lastEmitted[key] =>
            \E i \in DOMAIN alerts' : alerts'[i] = Row(key) /\ lastEmitted'[key] = uptime
      /\ \A i \in DOMAIN alerts' : i \in DOMAIN alerts \/ alerts'[i] = Row(key)
  BY <1>1, <1>2, EmitStamps
<1>4. /\ uptime \in Nat /\ since \in Nat /\ Cooldown \in Nat \ {0} /\ since <= uptime
      /\ \A k \in AlertKeys : lastEmitted[k] \in Nat
      /\ \A k \in AlertKeys : lastEmitted[k] <= uptime
      /\ \A i \in DOMAIN alerts : alerts[i] \in Alert
  BY <1>1, AlertServiceAssumption DEF UnitsTypeOK, TypeOK, CheckIsSound
<1>5. CheckIsSound'
  <2>1. ASSUME NEW i \in DOMAIN todo', todo'[i][1] = "recovered" PROVE todo'[i][2] \in known
    BY <1>1, <1>2, <2>1 DEF CheckIsSound
  <2>2. \A k \in AlertKeys : lastEmitted'[k] <= uptime
    BY <1>3, <1>4
  <2> QED BY <1>1, <1>3, <1>4, <2>1, <2>2 DEF CheckIsSound
<1>6. FailuresAreTold'
  <2> SUFFICES ASSUME since >= Cooldown
               PROVE  /\ \A unit \in probe \ known : Pending(unit)' \/ Told(unit)'
                      /\ FailureIsTriedFirst'
    BY <1>1 DEF FailuresAreTold
  <2>0. \A unit \in Units : << "failed", unit >> \in AlertKeys
    BY KeysAreUnits DEF Kinds
  <2>1. ASSUME NEW unit \in probe \ known PROVE Pending(unit)' \/ Told(unit)'
    <3>0. << "failed", unit >> \in AlertKeys
      BY <1>1, <2>0 DEF UnitsTypeOK
    <3>1. CASE key = << "failed", unit >>
      BY <1>3, <3>1 DEF Told
    <3>2. CASE key # << "failed", unit >>
      <4>1. Pending(unit) \/ Told(unit)
        BY <1>1 DEF FailuresAreTold
      <4>2. Pending(unit) => Pending(unit)'
        BY <1>2, <3>2 DEF Pending
      <4>3. Told(unit) => Told(unit)'
        BY <1>3, <3>0, <3>2 DEF Told
      <4> QED BY <4>1, <4>2, <4>3
    <3> QED BY <3>1, <3>2
  <2>2. FailureIsTriedFirst
    BY <1>1 DEF FailuresAreTold
  <2>3. ASSUME NEW unit \in Units, lastEmitted[<< "failed", unit >>] > 0
        PROVE  lastEmitted'[<< "failed", unit >>] > 0
    BY <1>3, <1>4, <2>0, <2>3
  <2>4. ASSUME NEW unit \in known PROVE lastEmitted'[<< "failed", unit >>] > 0
    BY <1>1, <2>2, <2>3 DEF FailureIsTriedFirst, UnitsTypeOK
  <2>5. ASSUME NEW i \in DOMAIN alerts', alerts'[i].epoch = epoch, alerts'[i].key[1] = "recovered"
        PROVE  lastEmitted'[<< "failed", alerts'[i].key[2] >>] > 0
    <3>1. CASE i \in DOMAIN alerts
      <4>1. alerts'[i] = alerts[i] /\ alerts[i].key \in Kinds \X Units
        BY <1>3, <1>4, <3>1, KeysAreUnits DEF Alert
      <4>2. lastEmitted[<< "failed", alerts[i].key[2] >>] > 0
        BY <2>2, <2>5, <3>1, <4>1 DEF FailureIsTriedFirst
      <4> QED BY <2>3, <4>1, <4>2
    <3>2. CASE alerts'[i] = Row(key)
      <4>1. alerts'[i].key = key
        BY <3>2 DEF Row
      <4>2. key[2] \in known
        BY <1>1, <1>2, <2>5, <4>1 DEF CheckIsSound
      <4> QED BY <2>4, <4>1, <4>2
    <3> QED BY <1>3, <3>1, <3>2
  <2> QED BY <1>1, <1>3, <2>1, <2>4, <2>5 DEF FailureIsTriedFirst
<1>7. StampsHaveRows'
  <2> SUFFICES ASSUME faults = 0, NEW k \in AlertKeys, lastEmitted'[k] > 0
               PROVE  \E i \in DOMAIN alerts' : /\ alerts'[i].key = k /\ alerts'[i].epoch = epoch
                                               /\ alerts'[i].at = lastEmitted'[k]
    BY <1>3 DEF StampsHaveRows
  <2>1. CASE lastEmitted'[k] = lastEmitted[k]
    BY <1>1, <1>3, <2>1 DEF StampsHaveRows
  <2>2. CASE lastEmitted'[k] # lastEmitted[k]
    <3>1. k = key
      BY <1>3, <2>2
    <3> QED BY <1>3, <2>2, <3>1 DEF Row
  <2> QED BY <2>1, <2>2
<1> QED BY <1>5, <1>6, <1>7

\* Every step keeps the inductive invariant.
LEMMA UnitsNextInv == UnitsIInv /\ [UnitsNext]_vars => UnitsIInv'
<1> SUFFICES ASSUME UnitsIInv, [UnitsNext]_vars PROVE UnitsIInv'
  OBVIOUS
<1>0. UnitsTypeOK' /\ IInv'
  BY UnitsNextTypeOK, UnitsStepIsAlertStep, NextIInv DEF UnitsIInv
<1> SUFFICES CheckIsSound' /\ FailuresAreTold' /\ StampsHaveRows'
  BY <1>0 DEF UnitsIInv
<1>a. /\ UnitsTypeOK /\ CheckIsSound /\ FailuresAreTold /\ StampsHaveRows
      /\ uptime \in Nat /\ since \in Nat /\ Cooldown \in Nat \ {0}
      /\ \A k \in AlertKeys : lastEmitted[k] \in Nat
      /\ \A i \in DOMAIN alerts : alerts[i] \in Alert
  BY AlertServiceAssumption DEF UnitsIInv, UnitsTypeOK, TypeOK
<1>1. CASE (\E unit \in Units : Change(unit)) \/ ProbeFails \/ UNCHANGED vars
  BY <1>a, <1>1 DEF Change, ProbeFails, vars, alertVars, checkVars, CheckIsSound,
        FailuresAreTold, StampsHaveRows, FailureIsTriedFirst, Pending, Told
<1>2. CASE Probe
  <2>1. /\ UNCHANGED << alertVars, known, since >> /\ probe' = failed /\ checking'
        /\ \A i \in DOMAIN todo' : todo'[i][1] = "recovered" => todo'[i][2] \in known
        /\ \A unit \in failed \ known : Pending(unit)'
    BY <1>a, <1>2, TodoIsComplete DEF Probe
  <2> QED BY <1>a, <2>1 DEF alertVars, CheckIsSound, FailuresAreTold, StampsHaveRows, FailureIsTriedFirst
<1>3. CASE EmitNext
  BY <1>3, EmitNextInv
<1>4. CASE EmitRaises
  <2>1. /\ UNCHANGED << known, since, uptime, epoch, alerts >> /\ ~checking' /\ todo' = << >>
        /\ faults' = faults + 1 /\ lastEmitted' = [lastEmitted EXCEPT ![Head(todo)] = uptime]
        /\ ~Cooling(Head(todo)) /\ Head(todo) \in AlertKeys
    BY <1>a, <1>4, NextToEmit DEF EmitRaises, EmitFailed
  <2>2. faults' # 0
    BY <1>a, <2>1 DEF UnitsTypeOK, TypeOK
  <2>3. StampsHaveRows'
    BY <2>2 DEF StampsHaveRows
  <2>4. lastEmitted \in [AlertKeys -> 0..Horizon] /\ since <= uptime /\ \A k \in AlertKeys : lastEmitted[k] <= uptime
    BY <1>a DEF UnitsTypeOK, TypeOK, CheckIsSound
  <2>5. \A k \in AlertKeys : lastEmitted'[k] \in {lastEmitted[k], uptime}
    BY <2>1, <2>4
  <2>6. CheckIsSound'
    <3>1. \A k \in AlertKeys : lastEmitted'[k] <= uptime
      BY <1>a, <2>4, <2>5
    <3>2. todo' = << >> /\ ~checking' /\ (since <= uptime)' /\ DOMAIN todo' = {}
      BY <2>1, <2>4
    <3> QED BY <2>1, <3>1, <3>2 DEF CheckIsSound
  <2>7. FailuresAreTold'
    <3> SUFFICES ASSUME since >= Cooldown PROVE FailureIsTriedFirst'
      BY <2>1 DEF FailuresAreTold
    <3>1. FailureIsTriedFirst
      BY <1>a DEF FailuresAreTold
    <3>2. ASSUME NEW unit \in Units, lastEmitted[<< "failed", unit >>] > 0
          PROVE  lastEmitted'[<< "failed", unit >>] > 0
      <4>1. << "failed", unit >> \in AlertKeys
        BY KeysAreUnits DEF Kinds
      <4> QED BY <1>a, <2>4, <2>5, <3>2, <4>1
    <3>3. \A unit \in known : unit \in Units
      BY <1>a DEF UnitsTypeOK
    <3>4. \A i \in DOMAIN alerts : alerts[i].key[2] \in Units
      BY <1>a, KeysAreUnits DEF Alert
    <3> QED BY <2>1, <3>1, <3>2, <3>3, <3>4 DEF FailureIsTriedFirst
  <2> QED BY <2>3, <2>6, <2>7
<1>5. CASE Finish
  <2>1. /\ UNCHANGED << alertVars, since >> /\ ~checking' /\ known' = probe /\ todo' = << >> /\ todo = << >> /\ checking
    BY <1>5 DEF Finish
  <2>2. DOMAIN todo = {} /\ DOMAIN todo' = {}
    BY <2>1
  <2>3. CheckIsSound' /\ StampsHaveRows'
    BY <1>a, <2>1, <2>2 DEF alertVars, CheckIsSound, StampsHaveRows
  <2>4. FailuresAreTold'
    <3> SUFFICES ASSUME since >= Cooldown PROVE FailureIsTriedFirst'
      BY <2>1 DEF FailuresAreTold
    <3>1. FailureIsTriedFirst /\ \A unit \in probe \ known : Told(unit)
      BY <1>a, <2>1, <2>2 DEF FailuresAreTold, Pending
    <3>2. ASSUME NEW unit \in probe PROVE lastEmitted[<< "failed", unit >>] > 0
      <4>1. CASE unit \in known
        BY <3>1, <4>1 DEF FailureIsTriedFirst
      <4>2. CASE unit \notin known
        <5>1. uptime - lastEmitted[<< "failed", unit >>] < Cooldown
          BY <3>1, <4>2 DEF Told
        <5>2. << "failed", unit >> \in AlertKeys
          BY <1>a, KeysAreUnits DEF Kinds, UnitsTypeOK
        <5>3. lastEmitted[<< "failed", unit >>] \in Nat /\ since <= uptime
          BY <1>a, <5>2 DEF CheckIsSound
        <5> QED BY <1>a, <5>1, <5>3
      <4> QED BY <4>1, <4>2
    <3> QED BY <2>1, <3>1, <3>2 DEF FailureIsTriedFirst, alertVars
  <2> QED BY <2>3, <2>4
<1>6. CASE Tick
  <2>1. /\ UNCHANGED << checkVars, epoch, lastEmitted, alerts, faults >> /\ uptime' = uptime + 1 /\ ~checking
    BY <1>6 DEF Tick, Pass
  <2>2. /\ since <= uptime + 1
        /\ \A k \in AlertKeys : lastEmitted[k] <= uptime + 1
    BY <1>a DEF CheckIsSound
  <2>3. CheckIsSound'
    BY <1>a, <2>1, <2>2 DEF CheckIsSound, checkVars
  <2> QED BY <1>a, <2>1, <2>3 DEF FailuresAreTold, StampsHaveRows, FailureIsTriedFirst, checkVars
<1>7. ASSUME NEW i \in DOMAIN alerts, Acknowledge(i)
      PROVE  CheckIsSound' /\ FailuresAreTold' /\ StampsHaveRows'
  <2>1. /\ UNCHANGED << checkVars, uptime, epoch, lastEmitted, faults >> /\ Resolve(i)
    BY <1>7 DEF Acknowledge, Resolve
  <2>2. /\ DOMAIN alerts' = DOMAIN alerts
        /\ \A j \in DOMAIN alerts : /\ alerts'[j].key = alerts[j].key
                                    /\ alerts'[j].at = alerts[j].at
                                    /\ alerts'[j].epoch = alerts[j].epoch
    BY <1>a, <2>1, AcknowledgedRows
  <2> QED BY <1>a, <2>1, <2>2 DEF checkVars, CheckIsSound, FailuresAreTold, StampsHaveRows,
             FailureIsTriedFirst, Pending, Told
<1>8. ASSUME NEW clock \in Nat, Fresh(clock)
      PROVE  CheckIsSound' /\ FailuresAreTold' /\ StampsHaveRows'
  <2>1. /\ epoch' = epoch + 1 /\ uptime' = clock /\ since' = clock /\ known' = {} /\ ~checking' /\ todo' = << >>
        /\ \A k \in AlertKeys : lastEmitted'[k] = 0
        /\ alerts' = alerts
    BY <1>8 DEF Fresh, Restart
  <2>2. ASSUME NEW i \in DOMAIN alerts PROVE alerts[i].epoch # epoch + 1
    <3>1. alerts[i].epoch <= epoch /\ alerts[i].epoch \in Nat /\ epoch \in Nat
      BY <1>a DEF UnitsIInv, IInv, RowsAreStamped, Alert, UnitsTypeOK, TypeOK
    <3> QED BY <3>1
  <2>3. DOMAIN todo' = {}
    BY <2>1
  <2> QED BY <2>1, <2>2, <2>3 DEF CheckIsSound, FailuresAreTold, StampsHaveRows, FailureIsTriedFirst
<1>9. CASE Crash \/ Reboot
  BY <1>a, <1>8, <1>9 DEF Crash, Reboot
<1> QED BY <1>1, <1>2, <1>3, <1>4, <1>5, <1>6, <1>7, <1>9 DEF UnitsNext, Check

LEMMA UnitsInitInv == UnitsInit => UnitsIInv
<1> SUFFICES ASSUME UnitsInit PROVE UnitsIInv
  OBVIOUS
<1>1. /\ Init /\ known = {} /\ ~checking /\ todo = << >> /\ since = uptime /\ uptime \in Nat
      /\ \A k \in AlertKeys : lastEmitted[k] = 0
      /\ DOMAIN alerts = {} /\ DOMAIN todo = {}
  BY AlertServiceAssumption DEF UnitsInit, Init
<1>2. UnitsTypeOK
  BY UnitsInitTypeOK
<1>3. IInv
  BY <1>1, InitTypeOK DEF IInv, RowsAreStamped, RowsAreSpaced
<1>4. CheckIsSound /\ FailuresAreTold /\ StampsHaveRows
  BY <1>1 DEF CheckIsSound, FailuresAreTold, StampsHaveRows, FailureIsTriedFirst
<1> QED BY <1>2, <1>3, <1>4 DEF UnitsIInv

\* _check_failed_units takes a unit for known, or calls it recovered, only
\* after it put the failure to the alert service: neither a write that raised
\* halfway nor a restart makes it skip one.
THEOREM FailuresTriedFirst == UnitsSpec => []FailureIsTriedFirst
<1>1. UnitsIInv => FailureIsTriedFirst
  BY DEF UnitsIInv, FailuresAreTold, FailureIsTriedFirst
<1> QED BY <1>1, UnitsInitInv, UnitsNextInv, PTL DEF UnitsSpec

\* As long as no write fails, a check ends with a row younger than a cooldown
\* for every new failure it found.
THEOREM FailuresOnRecord == UnitsSpec => NewFailureIsOnRecord
<1> DEFINE Recorded ==
      checking /\ todo = << >> /\ ~checking' /\ epoch' = epoch /\ faults = 0 /\ since >= Cooldown
      => \A unit \in probe \ known : \E i \in DOMAIN alerts :
            /\ alerts[i].key = << "failed", unit >>
            /\ alerts[i].epoch = epoch
            /\ uptime - alerts[i].at < Cooldown
<1>1. ASSUME UnitsIInv PROVE Recorded
  <2> SUFFICES ASSUME checking, todo = << >>, faults = 0, since >= Cooldown, NEW unit \in probe \ known
               PROVE  \E i \in DOMAIN alerts :
                        /\ alerts[i].key = << "failed", unit >>
                        /\ alerts[i].epoch = epoch
                        /\ uptime - alerts[i].at < Cooldown
    OBVIOUS
  <2>1. Told(unit)
    BY <1>1 DEF UnitsIInv, FailuresAreTold, Pending
  <2>2. << "failed", unit >> \in AlertKeys
    BY <1>1, KeysAreUnits DEF UnitsIInv, UnitsTypeOK, Kinds
  <2>3. lastEmitted[<< "failed", unit >>] \in Nat /\ since <= uptime /\ since \in Nat /\ uptime \in Nat
    BY <1>1, <2>2 DEF UnitsIInv, UnitsTypeOK, TypeOK, CheckIsSound
  <2>4. lastEmitted[<< "failed", unit >>] > 0
    BY <2>1, <2>3, AlertServiceAssumption DEF Told
  <2> QED BY <1>1, <2>1, <2>2, <2>4 DEF UnitsIInv, StampsHaveRows, Told
<1> QED BY <1>1, UnitsInitInv, UnitsNextInv, PTL DEF UnitsSpec, NewFailureIsOnRecord
=============================================================================
