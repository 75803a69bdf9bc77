------------------------ MODULE AlertSnapshots_proofs ------------------------
(***************************************************************************)
(* Proofs about the snapshots of AlertLifecycle: an alert that waits has   *)
(* its timer, and a parked snapshot finds its alert.                       *)
(***************************************************************************)
EXTENDS AlertLifecycle_proofs

(* What PendingArmed needs to be inductive: while fire() has a row in      *)
(* hand, that row waits exactly when a hub-mode alert is being fired, and  *)
(* no timer is armed for it or for an id not yet handed out.               *)
FireHolds ==
  /\ fire.at \in {"republish", "request", "settle"} => row[fire.id].snap = "pending"
  /\ fire.at = "settle_box" => row[fire.id].snap # "pending"
  /\ fire.id \notin timers
  /\ fire # Idle => proc = "up"
TimersBelowLast == \A i \in timers : i <= lastId
WaitInv == FireHolds /\ TimersBelowLast /\ PendingArmed

LEMMA IdleIsNoRow == Idle.id \notin Ids /\ Idle.at \notin FirePoint
  BY DEF Idle, Ids, FirePoint

LEMMA InitWaitInv == LifecycleInit => WaitInv
  BY DEF LifecycleInit, WaitInv, FireHolds, TimersBelowLast, PendingArmed, Idle, NoRow

(* A step that leaves what WaitInv speaks of alone keeps it.               *)
LEMMA KeepsWaitInv ==
  ASSUME WaitInv, UNCHANGED <<lastId, proc, timers>>,
         \A i \in Ids : row'[i].snap = row[i].snap,
         fire.id \in Ids \/ fire = Idle,
         \/ fire' = fire
         \/ /\ fire.at \in {"republish", "request"} /\ fire'.at \in {"request", "settle"}
            /\ fire'.id = fire.id
  PROVE  WaitInv'
  BY DEF WaitInv, FireHolds, TimersBelowLast, PendingArmed, Idle

(* A row that is inserted by fire() is in its hands, any other waits for   *)
(* nothing.                                                                *)
LEMMA InsertKeepsWaitInv ==
  ASSUME TypeInv, WaitInv, NEW e \in Event, NEW s \in {"pending", "none"},
         Insert(e, s), UNCHANGED <<proc, timers>>,
         \/ /\ fire = Idle /\ proc = "up" /\ fire'.id = lastId + 1
            /\ \/ fire'.at = "republish" /\ s = "pending"
               \/ fire'.at = "settle_box" /\ s = "none"
         \/ fire' = fire /\ s = "none"
  PROVE  WaitInv'
<1>1. /\ lastId + 1 \in Ids /\ lastId \in Nat /\ lastId' = lastId + 1
      /\ ~Stored(lastId + 1)
      /\ \A i \in Ids : i # lastId + 1 => row'[i] = row[i]
  BY InsertFacts, LifecycleAssumption DEF TypeInv, LifecycleTypeOK
<1>2. row'[lastId + 1].snap = s
  BY <1>1 DEF Insert, TypeInv, LifecycleTypeOK
<1>3. timers \subseteq Ids /\ lastId + 1 \notin timers
  BY <1>1 DEF WaitInv, TimersBelowLast, TypeInv, LifecycleTypeOK
<1>4. fire.id # lastId + 1
  BY <1>1, IdleIsNoRow DEF TypeInv, FireStored
<1>5. TimersBelowLast'
  BY <1>1, <1>3 DEF WaitInv, TimersBelowLast, Ids
<1>6. CASE fire' = fire /\ s = "none"
  <2>1. fire = Idle \/ fire.id \in Ids
    BY DEF TypeInv, FireStored
  <2>2. FireHolds'
    BY <1>1, <1>4, <1>6, <2>1 DEF WaitInv, FireHolds, Idle
  <2>3. PendingArmed'
    BY <1>1, <1>2, <1>3, <1>6 DEF WaitInv, PendingArmed
  <2> QED BY <1>5, <2>2, <2>3 DEF WaitInv
<1>7. CASE fire = Idle /\ proc = "up" /\ fire'.id = lastId + 1
           /\ \/ fire'.at = "republish" /\ s = "pending"
              \/ fire'.at = "settle_box" /\ s = "none"
  <2>1. FireHolds'
    BY <1>2, <1>3, <1>7 DEF FireHolds
  <2>2. PendingArmed'
    BY <1>1, <1>7, IdleIsNoRow DEF WaitInv, PendingArmed
  <2> QED BY <1>5, <2>1, <2>2 DEF WaitInv
<1> QED BY <1>6, <1>7, Zenon

LEMMA NextWaitInv ==
  ASSUME PublishFails = FALSE, WriteFails = FALSE
  PROVE  TypeInv /\ WaitInv /\ [LifecycleNext]_alertVars => WaitInv'
<1> SUFFICES ASSUME TypeInv, WaitInv, [LifecycleNext]_alertVars PROVE WaitInv'
  OBVIOUS
<1> USE LifecycleAssumption
<1>0. /\ row \in [Ids -> Row] /\ timers \subseteq Ids
      /\ fire = Idle \/ fire.id \in Ids
      /\ fire \in {Idle} \cup [at : FirePoint, id : Ids]
  BY DEF TypeInv, LifecycleTypeOK, FireStored
<1>1. ASSUME NEW k \in HubKeys, Fire(k) PROVE WaitInv'
  <2>1. PICK n \in 1..MaxSeq : Insert(<<k, n>>, "pending")
    BY <1>1 DEF Fire
  <2>2. <<k, n>> \in Event
    BY DEF Event, EventKeys
  <2> QED BY <1>1, <2>1, <2>2, InsertKeepsWaitInv DEF Fire, IngestFree
<1>2. ASSUME NEW k \in HubKeys, FireConflict(k) PROVE WaitInv'
  BY <1>0, <1>2, KeepsWaitInv DEF FireConflict
<1>3. ASSUME Republish PROVE WaitInv'
  <2>1. fire'.at = "request" /\ fire'.id = fire.id
    BY <1>0, <1>3 DEF Republish, PublishRaises, Idle
  <2> QED BY <1>0, <1>3, <2>1, KeepsWaitInv DEF Republish
<1>4. ASSUME RequestSnapshot PROVE WaitInv'
  <2>1. fire'.at = "settle" /\ fire'.id = fire.id
    BY <1>0, <1>4 DEF RequestSnapshot, PublishRaises, Idle
  <2> QED BY <1>0, <1>4, <2>1, KeepsWaitInv DEF RequestSnapshot
<1>5. ASSUME Settle PROVE WaitInv'
  <2>1. fire' = Idle /\ lastId' = lastId /\ proc' = proc /\ fire.id \in Ids
    BY <1>0, <1>5 DEF Settle, Idle
  <2>2. fire.id <= lastId /\ fire.id \notin timers
    BY <1>5, <2>1 DEF TypeInv, RowsBelowLast, FireStored, WaitInv, FireHolds, Settle, Idle
  <2>3. CASE AttachTo(fire.id)
    <3>1. timers' = timers /\ row' = [row EXCEPT ![fire.id].snap = "received"]
      BY <2>2, <2>3 DEF AttachTo
    <3> QED BY <1>0, <2>1, <2>2, <3>1, IdleIsNoRow
            DEF WaitInv, FireHolds, TimersBelowLast, PendingArmed, Idle, Row
  <2>4. CASE row' = row /\ fire.at = "settle" /\ timers' = timers \cup {fire.id}
    BY <1>0, <2>1, <2>2, <2>4, IdleIsNoRow
       DEF WaitInv, FireHolds, TimersBelowLast, PendingArmed, Idle
  <2>5. CASE row' = row /\ fire.at = "settle_box" /\ timers' = timers
    BY <1>0, <2>1, <2>2, <2>5, IdleIsNoRow
       DEF WaitInv, FireHolds, TimersBelowLast, PendingArmed, Idle
  <2> QED BY <1>5, <2>3, <2>4, <2>5 DEF Settle
<1>6. ASSUME NEW e \in Event, OnEvent(e) PROVE WaitInv'
  BY <1>6, OnEventInserts, InsertKeepsWaitInv
     DEF OnEvent, IngestDeviceEvent, IngestFree
<1>7. ASSUME NEW e \in Event, OnSnapshot(e) PROVE WaitInv'
  <2>1. ASSUME NEW i \in Ids, AttachTo(i), StoredAs(i, e) PROVE WaitInv'
    <3>1. timers' = timers \ {i} /\ row' = [row EXCEPT ![i].snap = "received"]
      BY <2>1 DEF AttachTo
    <3>2. fire = Idle /\ fire' = fire /\ proc' = proc /\ lastId' = lastId
      BY <1>7 DEF OnSnapshot, IngestFree
    <3>3. FireHolds' /\ TimersBelowLast'
      BY <3>1, <3>2 DEF WaitInv, FireHolds, TimersBelowLast, Idle
    <3>4. PendingArmed'
      BY <1>0, <3>1, <3>2 DEF WaitInv, PendingArmed, Row, NoRow
    <3> QED BY <3>3, <3>4 DEF WaitInv
  <2>2. CASE UNCHANGED <<row, timers>>
    BY <1>0, <1>7, <2>2, KeepsWaitInv DEF OnSnapshot
  <2> QED BY <1>7, <2>1, <2>2 DEF OnSnapshot
<1>8. ASSUME NEW e \in Event, ParkedAges(e) PROVE WaitInv'
  BY <1>0, <1>8, KeepsWaitInv DEF ParkedAges
<1>9. ASSUME NEW m \in {"hub", "single_box"}, OnModeStatus(m) PROVE WaitInv'
  BY <1>0, <1>9, KeepsWaitInv DEF OnModeStatus
<1>10. ASSUME NEW i \in Ids, ExpireSnapshot(i) PROVE WaitInv'
  <2>1. /\ timers' = timers \ {i} /\ fire' = fire /\ lastId' = lastId /\ proc' = proc
        /\ i # fire.id
    BY <1>10 DEF ExpireSnapshot, WaitInv, FireHolds
  <2>2. \A j \in Ids : j # i => row'[j] = row[j]
    BY <1>0, <1>10 DEF ExpireSnapshot
  <2>3. row'[i].snap # "pending"
    BY <1>0, <1>10 DEF ExpireSnapshot, Row, NoRow
  <2>4. FireHolds' /\ TimersBelowLast'
    BY <1>0, <2>1, <2>2 DEF WaitInv, FireHolds, TimersBelowLast, Idle
  <2>5. PendingArmed'
    BY <2>1, <2>2, <2>3 DEF WaitInv, PendingArmed
  <2> QED BY <2>4, <2>5 DEF WaitInv
<1>11. ASSUME NEW i \in Ids, NEW target \in Disposition, Transition(i, target)
       PROVE WaitInv'
  <2>1. \A j \in Ids : row'[j].snap = row[j].snap
    BY <1>0, <1>11 DEF Transition, Row, NoRow, LegalTransitions
  <2> QED BY <1>0, <1>11, <2>1, KeepsWaitInv DEF Transition
<1>12. ASSUME Simulate PROVE WaitInv'
  <2>1. PICK n \in 1..MaxSeq : Insert(<<SimKey, n>>, "none")
    BY <1>12 DEF Simulate
  <2>2. <<SimKey, n>> \in Event
    BY DEF Event, EventKeys
  <2> QED BY <1>12, <2>1, <2>2, InsertKeepsWaitInv DEF Simulate
<1>13. ASSUME NEW n \in 0..MaxAlerts, RetentionPass(n) PROVE WaitInv'
  <2>1. \A i \in Ids : row'[i] = NoRow \/ row'[i] = row[i]
    BY <1>13 DEF RetentionPass, Purged
  <2>2. /\ fire' = fire /\ timers' = timers /\ lastId' = lastId /\ proc' = proc
        /\ fire # Idle => row'[fire.id] = row[fire.id]
    BY <1>0, <1>13 DEF RetentionPass, Purged, Ids
  <2>3. FireHolds' /\ TimersBelowLast'
    BY <2>2 DEF WaitInv, FireHolds, TimersBelowLast, Idle
  <2>4. PendingArmed'
    BY <2>1, <2>2 DEF WaitInv, PendingArmed, NoRow
  <2> QED BY <2>3, <2>4 DEF WaitInv
<1>14. ASSUME Crash PROVE WaitInv'
  BY <1>14 DEF Crash, WaitInv, FireHolds, TimersBelowLast, PendingArmed, Idle
<1>15. ASSUME Boot PROVE WaitInv'
  BY <1>15 DEF Boot, WaitInv, FireHolds, TimersBelowLast, PendingArmed
<1>16. ASSUME RearmPendingSnapshots PROVE WaitInv'
  <2>1. timers' = {i \in Ids : row[i].snap = "pending"} /\ row' = row
        /\ fire' = fire /\ lastId' = lastId
    BY <1>16 DEF RearmPendingSnapshots
  <2>2. TimersBelowLast'
    BY <2>1, WaitingRow DEF TimersBelowLast, TypeInv, RowsBelowLast
  <2>3. PendingArmed'
    BY <2>1 DEF PendingArmed
  <2>4. fire = Idle
    BY <1>16 DEF RearmPendingSnapshots, WaitInv, FireHolds
  <2>5. FireHolds'
    BY <2>1, <2>4, IdleIsNoRow DEF FireHolds, Idle
  <2> QED BY <2>2, <2>3, <2>5 DEF WaitInv
<1>17. ASSUME UNCHANGED alertVars PROVE WaitInv'
  BY <1>17 DEF alertVars, WaitInv, FireHolds, TimersBelowLast, PendingArmed
<1> QED
  BY <1>1, <1>2, <1>3, <1>4, <1>5, <1>6, <1>7, <1>8, <1>9, <1>10, <1>11,
     <1>12, <1>13, <1>14, <1>15, <1>16, <1>17 DEF LifecycleNext

(* An alert that waits for its picture has a timer that ends the waiting   *)
(* (PendingArmed), from the end of fire() on and after every restart, as   *)
(* long as the broker takes what is published and the tables what is       *)
(* written: an exception in fire() loses the timer.                        *)
THEOREM WaitingIsArmed ==
  ASSUME PublishFails = FALSE, WriteFails = FALSE
  PROVE  LifecycleSpec => []PendingArmed
<1>1. LifecycleInit => TypeInv /\ WaitInv
  BY InitTypeInv, InitWaitInv
<1>2. TypeInv /\ WaitInv /\ [LifecycleNext]_alertVars => (TypeInv /\ WaitInv)'
  BY NextTypeInv, NextWaitInv
<1>3. WaitInv => PendingArmed
  BY DEF WaitInv
<1> QED BY <1>1, <1>2, <1>3, PTL DEF LifecycleSpec

(* What ParkedHasNoAlert needs to be inductive: a snapshot is parked for,  *)
(* and asked for, events of cameras only, never for a simulated alert.     *)
NotSimulated ==
  /\ \A e \in Event : parked[e] # "none" => e[1] # SimKey
  /\ \A e \in asked : e[1] # SimKey
  /\ fire.at \in {"republish", "request"} => row[fire.id].event[1] # SimKey
ParkedInv == NotSimulated /\ ParkedHasNoAlert

(* A step that stores nothing, parks nothing and asks for nothing keeps    *)
(* ParkedInv.                                                              *)
LEMMA KeepsParkedInv ==
  ASSUME TypeInv, ParkedInv, asked' = asked,
         \A e \in Event : parked'[e] # "none" => parked[e] # "none",
         \A e \in Event, i \in Ids : StoredAs(i, e)' => StoredAs(i, e),
         \/ fire' = fire /\ (fire # Idle => row'[fire.id].event = row[fire.id].event)
         \/ /\ fire.at \in {"republish", "request"} /\ fire'.id = fire.id
            /\ \/ fire'.at = "settle"
               \/ fire'.at = "request" /\ row' = row
  PROVE  ParkedInv'
<1>1. fire = Idle \/ (fire.id \in Ids /\ fire # Idle)
  BY DEF TypeInv, FireStored
<1>2. fire'.id = fire.id
  OBVIOUS
<1>3. ParkedHasNoAlert'
  BY <1>2 DEF ParkedInv, ParkedHasNoAlert
<1>4. NotSimulated'
  BY <1>1 DEF ParkedInv, NotSimulated, Idle
<1> QED BY <1>3, <1>4 DEF ParkedInv

(* The row fire() inserts is in its hands; a simulated one has no snapshot *)
(* that could be parked.                                                   *)
LEMMA InsertKeepsParkedInv ==
  ASSUME TypeInv, ParkedInv, NEW e \in Event, NEW s \in {"pending", "none"},
         Insert(e, s), UNCHANGED <<parked, asked>>,
         \/ /\ fire = Idle /\ fire'.id = lastId + 1
            /\ \/ e[1] # SimKey
               \/ fire'.at = "settle_box"
         \/ fire' = fire /\ e[1] = SimKey
  PROVE  ParkedInv'
<1>1. /\ lastId + 1 \in Ids /\ ~Stored(lastId + 1)
      /\ row'[lastId + 1].event = e
      /\ \A i \in Ids : i # lastId + 1 => row'[i] = row[i]
  BY InsertFacts
<1>2. fire = Idle \/ (fire.id \in Ids /\ fire.id # lastId + 1)
  BY <1>1 DEF TypeInv, FireStored
<1>3. ParkedHasNoAlert'
  <2> SUFFICES ASSUME NEW f \in Event, NEW i \in Ids, parked'[f] # "none", StoredAs(i, f)'
               PROVE  fire'.id = i
    BY DEF ParkedHasNoAlert
  <2>1. CASE i = lastId + 1
    <3>1. f = e
      BY <1>1, <2>1 DEF StoredAs
    <3> QED BY <2>1, <3>1 DEF ParkedInv, NotSimulated
  <2>2. CASE i # lastId + 1
    <3>1. StoredAs(i, f)
      BY <1>1, <2>2 DEF StoredAs, Stored
    <3>2. fire.id = i
      BY <3>1 DEF ParkedInv, ParkedHasNoAlert
    <3> QED BY <1>2, <3>2, IdleIsNoRow
  <2> QED BY <2>1, <2>2
<1>4. NotSimulated'
  BY <1>1, <1>2 DEF ParkedInv, NotSimulated, Idle
<1> QED BY <1>3, <1>4 DEF ParkedInv

LEMMA InitParkedInv == LifecycleInit => ParkedInv
  BY DEF LifecycleInit, ParkedInv, NotSimulated, ParkedHasNoAlert, Idle

LEMMA NextParkedInv ==
  ASSUME PublishFails = FALSE
  PROVE  TypeInv /\ ParkedInv /\ [LifecycleNext]_alertVars => ParkedInv'
<1> SUFFICES ASSUME TypeInv, ParkedInv, [LifecycleNext]_alertVars PROVE ParkedInv'
  OBVIOUS
<1> USE LifecycleAssumption
<1>0. /\ row \in [Ids -> Row]
      /\ parked \in [Event -> {"none", "fresh", "stale"}]
      /\ fire = Idle \/ fire.id \in Ids
      /\ fire \in {Idle} \cup [at : FirePoint, id : Ids]
  BY DEF TypeInv, LifecycleTypeOK, FireStored
<1>1. ASSUME NEW k \in HubKeys, Fire(k) PROVE ParkedInv'
  <2>1. PICK n \in 1..MaxSeq : Insert(<<k, n>>, "pending")
    BY <1>1 DEF Fire
  <2>2. <<k, n>> \in Event /\ <<k, n>>[1] # SimKey
    BY DEF Event, EventKeys
  <2> QED BY <1>1, <2>1, <2>2, InsertKeepsParkedInv DEF Fire, IngestFree
<1>2. ASSUME NEW k \in HubKeys, FireConflict(k) PROVE ParkedInv'
  BY <1>2, KeepsParkedInv DEF FireConflict, StoredAs, Stored
<1>3. ASSUME Republish PROVE ParkedInv'
  <2>1. fire'.at = "request" /\ fire'.id = fire.id
    BY <1>0, <1>3 DEF Republish, PublishRaises, Idle
  <2> QED BY <1>3, <2>1, KeepsParkedInv DEF Republish, StoredAs, Stored
<1>4. ASSUME RequestSnapshot PROVE ParkedInv'
  <2>1. fire'.at = "settle" /\ fire'.id = fire.id /\ fire.at = "request"
    BY <1>0, <1>4 DEF RequestSnapshot, PublishRaises, Idle
  <2>2. UNCHANGED <<row, parked>> /\ asked' \subseteq asked \cup {row[fire.id].event}
    BY <1>4 DEF RequestSnapshot, PublishRaises
  <2>3. row[fire.id].event[1] # SimKey
    BY <2>1 DEF ParkedInv, NotSimulated
  <2>4. NotSimulated'
    BY <2>1, <2>2, <2>3 DEF ParkedInv, NotSimulated
  <2>5. ParkedHasNoAlert'
    BY <2>1, <2>2 DEF ParkedInv, ParkedHasNoAlert, StoredAs, Stored
  <2> QED BY <2>4, <2>5 DEF ParkedInv
<1>5. ASSUME Settle PROVE ParkedInv'
  <2> DEFINE own == row[fire.id].event
  <2>1. fire' = Idle /\ asked' = asked /\ fire.id \in Ids /\ Stored(fire.id)
    BY <1>5 DEF Settle, TypeInv, FireStored, Idle
  <2>2. /\ \A j \in Ids : row'[j].disp = row[j].disp /\ row'[j].event = row[j].event
        /\ \A e \in Event : parked'[e] # "none" => parked[e] # "none" /\ e # own
    <3>1. CASE AttachTo(fire.id) /\ parked' = [parked EXCEPT ![own] = "none"]
      BY <1>0, <2>1, <3>1, AttachFacts
    <3>2. CASE UNCHANGED <<row, parked>> /\ parked[own] = "none"
      BY <3>2
    <3> QED BY <1>5, <3>1, <3>2 DEF Settle
  <2>3. ParkedHasNoAlert'
    BY <2>2 DEF ParkedInv, ParkedHasNoAlert, StoredAs, Stored
  <2>4. NotSimulated'
    BY <2>1, <2>2 DEF ParkedInv, NotSimulated, Idle
  <2> QED BY <2>3, <2>4 DEF ParkedInv
<1>6. ASSUME NEW e \in Event, OnEvent(e) PROVE ParkedInv'
  <2>1. CASE UNCHANGED <<row, fire>>
    BY <1>6, <2>1, KeepsParkedInv DEF OnEvent, StoredAs, Stored
  <2>2. CASE Insert(e, "none") /\ fire' = [at |-> "settle_box", id |-> lastId + 1]
    BY <1>6, <2>2, InsertKeepsParkedInv DEF OnEvent, IngestFree
  <2> QED BY <1>6, <2>1, <2>2 DEF OnEvent, IngestDeviceEvent
<1>7. ASSUME NEW e \in Event, OnSnapshot(e) PROVE ParkedInv'
  <2>1. fire = Idle /\ fire' = fire /\ asked' = asked
    BY <1>7 DEF OnSnapshot, IngestFree
  <2>2. ASSUME NEW i \in Ids, StoredAs(i, e), AttachTo(i), parked' = parked
        PROVE  ParkedInv'
    <3>1. \A j \in Ids : row'[j].disp = row[j].disp /\ row'[j].event = row[j].event
      BY <2>2, AttachFacts DEF StoredAs
    <3> QED BY <2>1, <2>2, <3>1, KeepsParkedInv DEF StoredAs, Stored
  <2>3. CASE /\ ~IsStored(e) /\ row' = row
             /\ parked' = SweptParked([parked EXCEPT ![e] = "fresh"])
    <3>1. e[1] # SimKey
      BY <1>7 DEF OnSnapshot, BoxEvents, ParkedInv, NotSimulated
    <3>2. \A f \in Event : parked'[f] # "none" => parked[f] # "none" \/ f = e
      BY <1>0, <2>3 DEF SweptParked
    <3>3. NotSimulated'
      BY <2>1, <3>1, <3>2 DEF ParkedInv, NotSimulated, Idle
    <3>4. ParkedHasNoAlert'
      BY <2>1, <2>3, <3>2 DEF ParkedInv, ParkedHasNoAlert, IsStored, StoredAs, Stored
    <3> QED BY <3>3, <3>4 DEF ParkedInv
  <2> QED BY <1>7, <2>2, <2>3 DEF OnSnapshot
<1>8. ASSUME NEW e \in Event, ParkedAges(e) PROVE ParkedInv'
  <2>1. \A f \in Event : parked'[f] # "none" => parked[f] # "none"
    BY <1>0, <1>8 DEF ParkedAges
  <2> QED BY <1>8, <2>1, KeepsParkedInv DEF ParkedAges, StoredAs, Stored
<1>9. ASSUME NEW m \in {"hub", "single_box"}, OnModeStatus(m) PROVE ParkedInv'
  BY <1>9, KeepsParkedInv DEF OnModeStatus, StoredAs, Stored
<1>10. ASSUME NEW i \in Ids, ExpireSnapshot(i) PROVE ParkedInv'
  <2>1. \A j \in Ids : row'[j].disp = row[j].disp /\ row'[j].event = row[j].event
    BY <1>0, <1>10 DEF ExpireSnapshot, Row, NoRow
  <2> QED
    BY <1>0, <1>10, <2>1, KeepsParkedInv DEF ExpireSnapshot, StoredAs, Stored
<1>11. ASSUME NEW i \in Ids, NEW target \in Disposition, Transition(i, target)
       PROVE  ParkedInv'
  <2>1. Stored(i) /\ \A j \in Ids : /\ row'[j].event = row[j].event
                                    /\ j # i => row'[j] = row[j]
    BY <1>0, <1>11 DEF Transition, Row, NoRow, LegalTransitions, Stored
  <2> QED
    BY <1>0, <1>11, <2>1, KeepsParkedInv DEF Transition, StoredAs, Stored
<1>12. ASSUME Simulate PROVE ParkedInv'
  <2>1. PICK n \in 1..MaxSeq : Insert(<<SimKey, n>>, "none")
    BY <1>12 DEF Simulate
  <2>2. <<SimKey, n>> \in Event /\ <<SimKey, n>>[1] = SimKey
    BY DEF Event, EventKeys
  <2> QED BY <1>12, <2>1, <2>2, InsertKeepsParkedInv DEF Simulate
<1>13. ASSUME NEW n \in 0..MaxAlerts, RetentionPass(n) PROVE ParkedInv'
  <2>1. \A i \in Ids : row'[i] = NoRow \/ row'[i] = row[i]
    BY <1>13 DEF RetentionPass, Purged
  <2>2. fire # Idle => row'[fire.id] = row[fire.id]
    BY <1>0, <1>13 DEF RetentionPass, Purged, Ids
  <2>3. \A f \in Event : parked'[f] # "none" => parked[f] # "none"
    BY <1>0, <1>13 DEF RetentionPass, SweptParked
  <2> QED
    BY <1>13, <2>1, <2>2, <2>3, KeepsParkedInv
       DEF RetentionPass, StoredAs, Stored, NoRow
<1>14. ASSUME Crash PROVE ParkedInv'
  BY <1>14 DEF Crash, ParkedInv, NotSimulated, ParkedHasNoAlert, Idle
<1>15. ASSUME Boot PROVE ParkedInv'
  BY <1>15, KeepsParkedInv DEF Boot, StoredAs, Stored
<1>16. ASSUME RearmPendingSnapshots PROVE ParkedInv'
  BY <1>16, KeepsParkedInv DEF RearmPendingSnapshots, StoredAs, Stored
<1>17. ASSUME UNCHANGED alertVars PROVE ParkedInv'
  BY <1>17, KeepsParkedInv DEF alertVars, StoredAs, Stored
<1> QED
  BY <1>1, <1>2, <1>3, <1>4, <1>5, <1>6, <1>7, <1>8, <1>9, <1>10, <1>11,
     <1>12, <1>13, <1>14, <1>15, <1>16, <1>17 DEF LifecycleNext

(* A snapshot never stays parked beside its alert (ParkedHasNoAlert),      *)
(* whichever of the two comes first and however writes fail, as long as    *)
(* no publish raises between the INSERT and the end of fire().             *)
THEOREM ParkedIsFound ==
  ASSUME PublishFails = FALSE
  PROVE  LifecycleSpec => []ParkedHasNoAlert
<1>1. LifecycleInit => TypeInv /\ ParkedInv
  BY InitTypeInv, InitParkedInv
<1>2. TypeInv /\ ParkedInv /\ [LifecycleNext]_alertVars => (TypeInv /\ ParkedInv)'
  BY NextTypeInv, NextParkedInv
<1>3. ParkedInv => ParkedHasNoAlert
  BY DEF ParkedInv
<1> QED BY <1>1, <1>2, <1>3, PTL DEF LifecycleSpec
-----------------------------------------------------------------------------
(* The abstract specification.  What it sees of a step of the hub is what  *)
(* the step does to the two columns of the rows and to the last id.        *)
Disps == [i \in Ids |-> row[i].disp]
Snaps == [i \in Ids |-> row[i].snap]

LEMMA SeenUnchanged ==
  ASSUME UNCHANGED <<row, lastId>>
  PROVE  UNCHANGED Promise!specVars
  BY DEF Promise!specVars

LEMMA RaiseSeen ==
  ASSUME TypeInv, NEW e \in Event, NEW s \in {"pending", "none"}, Insert(e, s)
  PROVE  Promise!Raise
<1> DEFINE new == [event |-> e, disp |-> "new", snap |-> s]
<1>1. lastId + 1 \in Ids /\ row \in [Ids -> Row]
  BY InsertFacts DEF TypeInv, LifecycleTypeOK
<1>2. lastId < MaxAlerts /\ lastId' = lastId + 1 /\ row' = [row EXCEPT ![lastId + 1] = new]
  BY DEF Insert
<1>3. Disps' = [Disps EXCEPT ![lastId + 1] = "new"]
  BY <1>1, <1>2 DEF Disps
<1>4. Snaps' = [Snaps EXCEPT ![lastId + 1] = s]
  BY <1>1, <1>2 DEF Snaps
<1> QED BY <1>2, <1>3, <1>4 DEF Promise!Raise, Disps, Snaps

LEMMA AttachSeen ==
  ASSUME TypeInv, NEW i \in Ids, Stored(i), AttachTo(i), lastId' = lastId
  PROVE  Promise!Attach(i) \/ UNCHANGED Promise!specVars
<1>1. row \in [Ids -> Row] /\ row[i].snap \in SnapState
  BY StoredRow DEF TypeInv, LifecycleTypeOK
<1>2. row' = row \/ row' = [row EXCEPT ![i].snap = "received"]
  BY DEF AttachTo
<1>3. CASE row' = row
  BY <1>3, SeenUnchanged
<1>4. CASE row' = [row EXCEPT ![i].snap = "received"]
  <2>1. row[i] \in [event : Event, disp : Disposition, snap : SnapState]
    BY DEF TypeInv, LifecycleTypeOK, Row, Stored, NoRow
  <2>2. Disps' = Disps
    BY <1>1, <1>4, <2>1 DEF Disps
  <2>3. Snaps' = [Snaps EXCEPT ![i] = "received"]
    BY <1>1, <1>4, <2>1 DEF Snaps
  <2>4. CASE row[i].snap = "received"
    <3>1. Snaps' = Snaps
      BY <2>3, <2>4 DEF Snaps
    <3> QED BY <2>2, <3>1 DEF Promise!specVars, Disps, Snaps
  <2>5. CASE row[i].snap # "received"
    <3>1. Snaps[i] \in {"pending", "timeout", "none"}
      BY <1>1, <2>5 DEF Snaps, SnapState
    <3> QED BY <2>2, <2>3, <3>1 DEF Promise!Attach, Disps, Snaps
  <2> QED BY <2>4, <2>5
<1> QED BY <1>2, <1>3, <1>4

LEMMA ExpireSeen ==
  ASSUME TypeInv, NEW i \in Ids, ExpireSnapshot(i)
  PROVE  Promise!Expire(i) \/ UNCHANGED Promise!specVars
<1>1. lastId' = lastId /\ row \in [Ids -> Row]
  BY DEF ExpireSnapshot, TypeInv, LifecycleTypeOK
<1>2. CASE row[i].snap = "pending"
  <2>1. row' = [row EXCEPT ![i].snap = "timeout"]
    BY <1>2 DEF ExpireSnapshot
  <2>2. row[i] \in [event : Event, disp : Disposition, snap : SnapState]
    BY <1>1, <1>2 DEF Row, NoRow
  <2>3. Disps' = Disps
    BY <1>1, <2>1, <2>2 DEF Disps
  <2>4. Snaps' = [Snaps EXCEPT ![i] = "timeout"]
    BY <1>1, <2>1, <2>2 DEF Snaps
  <2>5. Snaps[i] = "pending"
    BY <1>2 DEF Snaps
  <2> QED BY <1>1, <2>3, <2>4, <2>5 DEF Promise!Expire, Disps, Snaps
<1>3. CASE row[i].snap # "pending"
  BY <1>1, <1>3, SeenUnchanged DEF ExpireSnapshot
<1> QED BY <1>2, <1>3

LEMMA DisposeSeen ==
  ASSUME TypeInv, NEW i \in Ids, NEW target \in Disposition, Transition(i, target)
  PROVE  target \in {"acked", "dismissed"} /\ Promise!Dispose(i, target)
<1>1. lastId' = lastId /\ row \in [Ids -> Row] /\ row' = [row EXCEPT ![i].disp = target]
  BY DEF Transition, TypeInv, LifecycleTypeOK
<1>2. target \in {"acked", "dismissed"} /\ row[i].disp \in Promise!LegalSource(target)
  BY DEF Transition, LegalTransitions, Disposition, Promise!LegalSource
<1>3. row[i] \in [event : Event, disp : Disposition, snap : SnapState]
  BY <1>1, <1>2 DEF Row, NoRow, Promise!LegalSource
<1>4. Disps' = [Disps EXCEPT ![i] = target]
  BY <1>1, <1>3 DEF Disps
<1>5. Snaps' = Snaps
  BY <1>1, <1>3 DEF Snaps
<1>6. Disps[i] \in Promise!LegalSource(target)
  BY <1>2 DEF Disps
<1> QED BY <1>1, <1>2, <1>4, <1>5, <1>6 DEF Promise!Dispose, Disps, Snaps

LEMMA RetireSeen ==
  ASSUME TypeInv, NEW n \in 0..MaxAlerts, RetentionPass(n)
  PROVE  \/ n \in 1..MaxAlerts /\ Promise!Retire(n)
         \/ UNCHANGED Promise!specVars
<1>1. /\ lastId' = lastId /\ n <= lastId /\ row \in [Ids -> Row]
      /\ row' = [i \in Ids |-> IF i <= n THEN NoRow ELSE row[i]]
  BY DEF RetentionPass, TypeInv, LifecycleTypeOK, Purged
<1>2. CASE n = 0
  <2>1. \A i \in Ids : ~(i <= n)
    BY <1>2, LifecycleAssumption DEF Ids
  <2>2. row' = row
    BY <1>1, <2>1
  <2> QED BY <1>1, <2>2, SeenUnchanged
<1>3. CASE n # 0
  <2>1. n \in 1..MaxAlerts
    BY <1>3, LifecycleAssumption
  <2>2. Disps' = [i \in Ids |-> IF i <= n THEN "absent" ELSE Disps[i]]
    BY <1>1 DEF Disps, NoRow
  <2>3. Snaps' = [i \in Ids |-> IF i <= n THEN "absent" ELSE Snaps[i]]
    BY <1>1 DEF Snaps, NoRow
  <2> QED BY <1>1, <2>1, <2>2, <2>3 DEF Promise!Retire, Disps, Snaps, Ids
<1> QED BY <1>2, <1>3

LEMMA NextSeen == TypeInv /\ [LifecycleNext]_alertVars => [Promise!SpecNext]_(Promise!specVars)
<1> SUFFICES ASSUME TypeInv, [LifecycleNext]_alertVars
             PROVE  Promise!SpecNext \/ UNCHANGED Promise!specVars
  OBVIOUS
<1>1. ASSUME NEW k \in HubKeys, Fire(k) PROVE Promise!Raise
  <2>1. PICK n \in 1..MaxSeq : Insert(<<k, n>>, "pending")
    BY <1>1 DEF Fire
  <2>2. <<k, n>> \in Event
    BY DEF Event, EventKeys
  <2> QED BY <2>1, <2>2, RaiseSeen
<1>2. ASSUME NEW e \in Event, OnEvent(e) PROVE Promise!SpecNext \/ UNCHANGED Promise!specVars
  <2>1. CASE IsStored(e)
    BY <1>2, <2>1, SeenUnchanged DEF OnEvent, IngestDeviceEvent
  <2>2. CASE ~IsStored(e)
    BY <1>2, <2>2, RaiseSeen DEF OnEvent, IngestDeviceEvent, Promise!SpecNext
  <2> QED BY <2>1, <2>2
<1>3. ASSUME NEW e \in Event, OnSnapshot(e) PROVE Promise!SpecNext \/ UNCHANGED Promise!specVars
  <2>1. CASE ~IsStored(e)
    BY <1>3, <2>1, SeenUnchanged DEF OnSnapshot
  <2>2. CASE IsStored(e)
    <3>1. PICK i \in Ids : StoredAs(i, e) /\ AttachTo(i)
      BY <1>3, <2>2 DEF OnSnapshot
    <3>2. Promise!Attach(i) \/ UNCHANGED Promise!specVars
      BY <1>3, <3>1, AttachSeen DEF OnSnapshot, StoredAs
    <3> QED BY <3>2 DEF Promise!SpecNext, Ids
  <2> QED BY <2>1, <2>2
<1>4. ASSUME Settle PROVE Promise!SpecNext \/ UNCHANGED Promise!specVars
  <2>1. fire.id \in Ids /\ Stored(fire.id)
    BY <1>4 DEF Settle, TypeInv, FireStored, Idle
  <2>2. CASE parked[row[fire.id].event] # "none"
    <3>1. PICK i \in Ids : i = fire.id
      BY <2>1
    <3>2. Stored(i) /\ AttachTo(i) /\ lastId' = lastId
      BY <1>4, <2>1, <2>2, <3>1 DEF Settle
    <3>3. Promise!Attach(i) \/ UNCHANGED Promise!specVars
      BY <3>2, AttachSeen
    <3> QED BY <3>3 DEF Promise!SpecNext, Ids
  <2>3. CASE parked[row[fire.id].event] = "none"
    BY <1>4, <2>3, SeenUnchanged DEF Settle
  <2> QED BY <2>2, <2>3
<1>5. ASSUME NEW i \in Ids, ExpireSnapshot(i) PROVE Promise!SpecNext \/ UNCHANGED Promise!specVars
  BY <1>5, ExpireSeen DEF Promise!SpecNext, Ids
<1>6. ASSUME NEW i \in Ids, NEW target \in Disposition, Transition(i, target)
      PROVE  Promise!SpecNext
  BY <1>6, DisposeSeen DEF Promise!SpecNext, Ids
<1>7. ASSUME Simulate PROVE Promise!Raise
  <2>1. PICK n \in 1..MaxSeq : Insert(<<SimKey, n>>, "none")
    BY <1>7 DEF Simulate
  <2>2. <<SimKey, n>> \in Event
    BY DEF Event, EventKeys
  <2> QED BY <2>1, <2>2, RaiseSeen
<1>8. ASSUME NEW n \in 0..MaxAlerts, RetentionPass(n)
      PROVE  Promise!SpecNext \/ UNCHANGED Promise!specVars
  BY <1>8, RetireSeen DEF Promise!SpecNext
<1>9. ASSUME \/ \E k \in HubKeys : FireConflict(k)
             \/ Republish \/ RequestSnapshot
             \/ \E e \in Event : ParkedAges(e)
             \/ \E m \in {"hub", "single_box"} : OnModeStatus(m)
             \/ Crash \/ Boot \/ RearmPendingSnapshots \/ UNCHANGED alertVars
      PROVE  UNCHANGED Promise!specVars
  <2>1. UNCHANGED <<row, lastId>>
    BY <1>9 DEF FireConflict, Republish, RequestSnapshot, ParkedAges, OnModeStatus,
                Crash, Boot, RearmPendingSnapshots, alertVars
  <2> QED BY <2>1, SeenUnchanged
<1> QED
  BY <1>1, <1>2, <1>3, <1>4, <1>5, <1>6, <1>7, <1>8, <1>9
     DEF LifecycleNext, Promise!SpecNext

(* The hub implements the promise of HUB_SPEC section 3: seen through the  *)
(* columns of the alerts table, every await, timer, snapshot, operator,    *)
(* purge and restart is a step of AlertSpec or none (alert_manager.py).    *)
THEOREM PromiseIsKept == LifecycleSpec => ImplementsPromise
<1>1. LifecycleInit => Promise!SpecInit
  <2> SUFFICES ASSUME LifecycleInit PROVE Promise!SpecInit
    OBVIOUS
  <2>1. Disps = [i \in Ids |-> "absent"] /\ Snaps = [i \in Ids |-> "absent"]
    BY DEF LifecycleInit, Disps, Snaps, NoRow
  <2> QED BY <2>1 DEF LifecycleInit, Promise!SpecInit, Disps, Snaps, Ids
<1>2. LifecycleSpec => []TypeInv
  BY InitTypeInv, NextTypeInv, PTL DEF LifecycleSpec
<1> QED
  BY <1>1, <1>2, NextSeen, PTL DEF LifecycleSpec, ImplementsPromise, Promise!Alerts
=============================================================================
