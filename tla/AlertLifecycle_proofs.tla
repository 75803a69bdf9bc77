------------------------ MODULE AlertLifecycle_proofs ------------------------
(***************************************************************************)
(* Proofs about AlertLifecycle for every number of alerts, keys, sequence  *)
(* numbers and restarts.                                                   *)
(***************************************************************************)
EXTENDS AlertLifecycle, TLAPS

(* What LifecycleTypeOK needs to be inductive: fire() works on a stored row, and    *)
(* rows above the last id handed out are empty.                            *)
FireStored == fire # Idle => fire.id \in Ids /\ Stored(fire.id)
RowsBelowLast == \A i \in Ids : Stored(i) => i <= lastId
TypeInv == LifecycleTypeOK /\ FireStored /\ RowsBelowLast

(* An INSERT that succeeds stores one well-typed row at a fresh id.        *)
LEMMA InsertFacts ==
  ASSUME TypeInv, NEW e \in Event, NEW s \in {"pending", "none"}, Insert(e, s)
  PROVE  /\ lastId + 1 \in Ids
         /\ ~Stored(lastId + 1)
         /\ row' \in [Ids -> Row]
         /\ lastId' = lastId + 1
         /\ lastId' \in 0..MaxAlerts
         /\ ~IsStored(e)
         /\ row'[lastId + 1].disp = "new"
         /\ row'[lastId + 1].event = e
         /\ \A i \in Ids : i # lastId + 1 => row'[i] = row[i]
<1>1. lastId + 1 \in Ids
  BY LifecycleAssumption DEF TypeInv, LifecycleTypeOK, Insert, Ids
<1>2. ~Stored(lastId + 1)
  BY <1>1, LifecycleAssumption DEF TypeInv, LifecycleTypeOK, RowsBelowLast, Ids
<1>3. [event |-> e, disp |-> "new", snap |-> s] \in Row
  BY DEF Row, Disposition, SnapState
<1> QED
  BY <1>1, <1>2, <1>3, LifecycleAssumption DEF TypeInv, LifecycleTypeOK, Insert

(* The columns of a stored row.                                            *)
LEMMA StoredRow ==
  ASSUME LifecycleTypeOK, NEW i \in Ids, Stored(i)
  PROVE  /\ row[i].event \in Event
         /\ row[i].disp \in Disposition
         /\ row[i].snap \in SnapState
  BY DEF LifecycleTypeOK, Row, Stored, NoRow

(* A row is empty in all its columns or in none.                           *)
LEMMA WaitingRow ==
  ASSUME LifecycleTypeOK, NEW i \in Ids, row[i].snap = "pending"
  PROVE  Stored(i)
  BY DEF LifecycleTypeOK, Row, Stored, NoRow, Disposition

LEMMA InitTypeInv == LifecycleInit => TypeInv
<1> SUFFICES ASSUME LifecycleInit PROVE TypeInv
  OBVIOUS
<1>1. row \in [Ids -> Row]
  BY DEF LifecycleInit, Row
<1>2. seq \in [EventKeys -> 0..MaxSeq] /\ crashes \in 0..MaxCrashes /\ lastId \in 0..MaxAlerts
  BY LifecycleAssumption DEF LifecycleInit
<1>3. parked \in [Event -> {"none", "fresh", "stale"}]
  BY DEF LifecycleInit
<1>4. LifecycleTypeOK
  BY <1>1, <1>2, <1>3 DEF LifecycleInit, LifecycleTypeOK
<1>5. FireStored /\ RowsBelowLast
  BY DEF LifecycleInit, FireStored, RowsBelowLast, Stored, NoRow
<1> QED BY <1>4, <1>5 DEF TypeInv

(* Attaching evidence changes one column of one stored row.                *)
LEMMA AttachFacts ==
  ASSUME TypeInv, NEW i \in Ids, Stored(i), AttachTo(i)
  PROVE  /\ row' \in [Ids -> Row]
         /\ timers' \subseteq Ids
         /\ \A j \in Ids : /\ row'[j].disp = row[j].disp
                           /\ row'[j].event = row[j].event
<1>1. row[i] \in [event : Event, disp : Disposition, snap : SnapState]
  BY DEF TypeInv, LifecycleTypeOK, Row, Stored, NoRow
<1>2. [row[i] EXCEPT !.snap = "received"] \in Row
  BY <1>1 DEF Row, SnapState
<1> QED
  BY <1>1, <1>2 DEF TypeInv, LifecycleTypeOK, AttachTo

LEMMA NextTypeInv == TypeInv /\ [LifecycleNext]_alertVars => TypeInv'
<1> SUFFICES ASSUME TypeInv, [LifecycleNext]_alertVars PROVE TypeInv'
  OBVIOUS
<1> USE LifecycleAssumption
<1>1. ASSUME NEW k \in HubKeys, Fire(k) PROVE TypeInv'
  <2>1. PICK n \in 1..MaxSeq : /\ seq' = [seq EXCEPT ![k] = n]
                               /\ Insert(<<k, n>>, "pending")
    BY <1>1 DEF Fire
  <2>2. <<k, n>> \in Event
    BY DEF Event, EventKeys
  <2>3. /\ lastId + 1 \in Ids
        /\ row' \in [Ids -> Row]
        /\ lastId' = lastId + 1
        /\ lastId' \in 0..MaxAlerts
        /\ row'[lastId + 1].disp = "new"
        /\ \A i \in Ids : i # lastId + 1 => row'[i] = row[i]
    BY <2>1, <2>2, InsertFacts
  <2>4. LifecycleTypeOK'
    BY <1>1, <2>1, <2>3 DEF Fire, TypeInv, LifecycleTypeOK, EventKeys, FirePoint
  <2>5. FireStored' /\ RowsBelowLast'
    BY <1>1, <2>3 DEF Fire, TypeInv, LifecycleTypeOK, FireStored, RowsBelowLast,
                      Stored, Ids
  <2> QED BY <2>4, <2>5 DEF TypeInv
<1>2. ASSUME NEW k \in HubKeys, FireConflict(k) PROVE TypeInv'
  BY <1>2 DEF FireConflict, TypeInv, LifecycleTypeOK, FireStored, RowsBelowLast,
              Stored, EventKeys
<1>3. ASSUME Republish PROVE TypeInv'
  <2>1. row[fire.id].event \in Event /\ fire.id \in Ids
    BY <1>3, StoredRow DEF Republish, TypeInv, FireStored, Idle
  <2> QED
    BY <1>3, <2>1 DEF Republish, PublishRaises, TypeInv, LifecycleTypeOK, FireStored,
                      RowsBelowLast, Stored, FirePoint, Idle
<1>4. ASSUME RequestSnapshot PROVE TypeInv'
  <2>1. row[fire.id].event \in Event /\ fire.id \in Ids
    BY <1>4, StoredRow DEF RequestSnapshot, TypeInv, FireStored, Idle
  <2> QED
    BY <1>4, <2>1 DEF RequestSnapshot, PublishRaises, TypeInv, LifecycleTypeOK,
                      FireStored, RowsBelowLast, Stored, FirePoint, Idle
<1>5. ASSUME Settle PROVE TypeInv'
  <2>1. fire.id \in Ids /\ Stored(fire.id)
    BY <1>5 DEF Settle, TypeInv, FireStored, Idle
  <2>2. CASE AttachTo(fire.id) /\ parked' = [parked EXCEPT ![row[fire.id].event] = "none"]
    <3>1. /\ row' \in [Ids -> Row]
          /\ timers' \subseteq Ids
          /\ \A j \in Ids : row'[j].disp = row[j].disp
      BY <2>1, <2>2, AttachFacts
    <3> QED
      BY <1>5, <2>2, <3>1 DEF Settle, TypeInv, LifecycleTypeOK, FireStored,
                              RowsBelowLast, Stored
  <2>3. CASE /\ UNCHANGED <<row, parked>>
             /\ timers' \in {timers, timers \cup {fire.id}}
    BY <1>5, <2>1, <2>3 DEF Settle, TypeInv, LifecycleTypeOK, FireStored,
                            RowsBelowLast, Stored
  <2> QED BY <1>5, <2>2, <2>3 DEF Settle
<1>6. ASSUME NEW e \in Event, OnEvent(e) PROVE TypeInv'
  <2>1. CASE UNCHANGED <<row, lastId, fire>>
    BY <1>6, <2>1 DEF OnEvent, NoteSingleBox, IngestDeviceEvent, TypeInv, LifecycleTypeOK, FireStored, RowsBelowLast,
                      Stored
  <2>2. CASE Insert(e, "none") /\ fire' = [at |-> "settle_box", id |-> lastId + 1]
    <3>1. /\ lastId + 1 \in Ids
          /\ row' \in [Ids -> Row]
          /\ lastId' = lastId + 1
          /\ lastId' \in 0..MaxAlerts
          /\ row'[lastId + 1].disp = "new"
          /\ \A i \in Ids : i # lastId + 1 => row'[i] = row[i]
      BY <2>2, InsertFacts
    <3>2. LifecycleTypeOK'
      BY <1>6, <2>2, <3>1 DEF OnEvent, NoteSingleBox, IngestDeviceEvent, TypeInv, LifecycleTypeOK, FirePoint
    <3>3. FireStored' /\ RowsBelowLast'
      BY <1>6, <2>2, <3>1 DEF OnEvent, NoteSingleBox, IngestDeviceEvent, TypeInv, LifecycleTypeOK, FireStored,
                              RowsBelowLast, Stored, Ids
    <3> QED BY <3>2, <3>3 DEF TypeInv
  <2> QED BY <1>6, <2>1, <2>2 DEF OnEvent, NoteSingleBox, IngestDeviceEvent
<1>7. ASSUME NEW e \in Event, OnSnapshot(e) PROVE TypeInv'
  <2>1. CASE IsStored(e)
    <3>1. PICK i \in Ids : StoredAs(i, e) /\ AttachTo(i)
      BY <1>7, <2>1 DEF OnSnapshot
    <3>2. /\ row' \in [Ids -> Row]
          /\ timers' \subseteq Ids
          /\ \A j \in Ids : row'[j].disp = row[j].disp
      BY <3>1, AttachFacts DEF StoredAs
    <3> QED
      BY <1>7, <2>1, <3>2 DEF OnSnapshot, IngestFree, TypeInv, LifecycleTypeOK,
                              FireStored, RowsBelowLast, Stored
  <2>2. CASE ~IsStored(e)
    <3>1. parked' \in [Event -> {"none", "fresh", "stale"}]
      BY <1>7, <2>2 DEF OnSnapshot, SweptParked, TypeInv, LifecycleTypeOK
    <3> QED
      BY <1>7, <2>2, <3>1 DEF OnSnapshot, TypeInv, LifecycleTypeOK, FireStored,
                              RowsBelowLast, Stored
  <2> QED BY <2>1, <2>2
<1>8. ASSUME NEW e \in Event, ParkedAges(e) PROVE TypeInv'
  BY <1>8 DEF ParkedAges, TypeInv, LifecycleTypeOK, FireStored, RowsBelowLast, Stored
<1>9. ASSUME NEW m \in {"hub", "single_box"}, OnModeStatus(m) PROVE TypeInv'
  BY <1>9 DEF OnModeStatus, TypeInv, LifecycleTypeOK, FireStored, RowsBelowLast, Stored
<1>10. ASSUME NEW i \in Ids, ExpireSnapshot(i) PROVE TypeInv'
  <2>1. CASE row[i].snap = "pending"
    <3>1. row[i] \in [event : Event, disp : Disposition, snap : SnapState]
      BY <2>1 DEF TypeInv, LifecycleTypeOK, Row, NoRow
    <3>2. [row[i] EXCEPT !.snap = "timeout"] \in Row
      BY <3>1 DEF Row, SnapState
    <3>3. /\ row' \in [Ids -> Row]
          /\ \A j \in Ids : row'[j].disp = row[j].disp
      BY <1>10, <2>1, <3>1, <3>2 DEF ExpireSnapshot, TypeInv, LifecycleTypeOK
    <3> QED
      BY <1>10, <3>3 DEF ExpireSnapshot, TypeInv, LifecycleTypeOK, FireStored,
                         RowsBelowLast, Stored
  <2>2. CASE row[i].snap # "pending"
    BY <1>10, <2>2 DEF ExpireSnapshot, TypeInv, LifecycleTypeOK, FireStored,
                       RowsBelowLast, Stored
  <2> QED BY <2>1, <2>2
<1>11. ASSUME NEW i \in Ids, NEW target \in Disposition, Transition(i, target)
       PROVE TypeInv'
  <2>1. row[i].disp # "absent"
    BY <1>11 DEF Transition, LegalTransitions
  <2>2. row[i] \in [event : Event, disp : Disposition, snap : SnapState]
    BY <2>1 DEF TypeInv, LifecycleTypeOK, Row, NoRow
  <2>3. [row[i] EXCEPT !.disp = target] \in Row
    BY <2>2 DEF Row
  <2>4. /\ row' \in [Ids -> Row]
        /\ \A j \in Ids : j # i => row'[j] = row[j]
        /\ row'[i].disp # "absent"
    BY <1>11, <2>2, <2>3 DEF Transition, TypeInv, LifecycleTypeOK, Disposition
  <2> QED
    BY <1>11, <2>1, <2>4 DEF Transition, TypeInv, LifecycleTypeOK, FireStored,
                             RowsBelowLast, Stored
<1>12. ASSUME Simulate PROVE TypeInv'
  <2>1. PICK n \in 1..MaxSeq : /\ seq' = [seq EXCEPT ![SimKey] = n]
                               /\ Insert(<<SimKey, n>>, "none")
    BY <1>12 DEF Simulate
  <2>2. <<SimKey, n>> \in Event
    BY DEF Event, EventKeys
  <2>3. /\ lastId + 1 \in Ids
        /\ row' \in [Ids -> Row]
        /\ lastId' = lastId + 1
        /\ lastId' \in 0..MaxAlerts
        /\ row'[lastId + 1].disp = "new"
        /\ \A i \in Ids : i # lastId + 1 => row'[i] = row[i]
    BY <2>1, <2>2, InsertFacts
  <2>4. LifecycleTypeOK'
    BY <1>12, <2>1, <2>3 DEF Simulate, TypeInv, LifecycleTypeOK, EventKeys
  <2>5. FireStored' /\ RowsBelowLast'
    BY <1>12, <2>3 DEF Simulate, TypeInv, LifecycleTypeOK, FireStored, RowsBelowLast,
                       Stored, Ids
  <2> QED BY <2>4, <2>5 DEF TypeInv
<1>13. ASSUME NEW n \in 0..MaxAlerts, RetentionPass(n) PROVE TypeInv'
  <2>1. /\ row' \in [Ids -> Row]
        /\ \A i \in Ids : i > n => row'[i] = row[i]
        /\ \A i \in Ids : row'[i].disp # "absent" => row'[i] = row[i]
    BY <1>13 DEF RetentionPass, Purged, TypeInv, LifecycleTypeOK, Row, NoRow, Ids
  <2>2. parked' \in [Event -> {"none", "fresh", "stale"}]
    BY <1>13 DEF RetentionPass, Purged, SweptParked, TypeInv, LifecycleTypeOK
  <2>3. FireStored'
    BY <1>13, <2>1 DEF RetentionPass, Purged, TypeInv, FireStored, Stored, Ids
  <2> QED
    BY <1>13, <2>1, <2>2, <2>3 DEF RetentionPass, Purged, TypeInv, LifecycleTypeOK,
                                   RowsBelowLast, Stored
<1>14. ASSUME Crash PROVE TypeInv'
  BY <1>14 DEF Crash, TypeInv, LifecycleTypeOK, FireStored, RowsBelowLast, Stored
<1>15. ASSUME Boot PROVE TypeInv'
  BY <1>15 DEF Boot, TypeInv, LifecycleTypeOK, FireStored, RowsBelowLast, Stored
<1>16. ASSUME RearmPendingSnapshots PROVE TypeInv'
  BY <1>16 DEF RearmPendingSnapshots, TypeInv, LifecycleTypeOK, FireStored,
               RowsBelowLast, Stored
<1>17. ASSUME UNCHANGED alertVars PROVE TypeInv'
  BY <1>17 DEF alertVars, TypeInv, LifecycleTypeOK, FireStored, RowsBelowLast, Stored
<1> QED
  BY <1>1, <1>2, <1>3, <1>4, <1>5, <1>6, <1>7, <1>8, <1>9, <1>10, <1>11,
     <1>12, <1>13, <1>14, <1>15, <1>16, <1>17 DEF LifecycleNext

(* Type correctness, from the stronger invariant TypeInv.                  *)
THEOREM TypeCorrect == LifecycleSpec => []LifecycleTypeOK
<1>1. LifecycleSpec => []TypeInv
  BY InitTypeInv, NextTypeInv, PTL DEF LifecycleSpec
<1>2. TypeInv => LifecycleTypeOK
  BY DEF TypeInv
<1> QED BY <1>1, <1>2, PTL

-----------------------------------------------------------------------------
(* Sequence numbers.  Once a key has a counter in memory, no stored row of *)
(* that key is ahead of it: the counter was seeded from the table or has   *)
(* handed out every number since.  Keys of the device's engine are left    *)
(* out: it makes ids of its own under them.                                *)
SeqAhead ==
  \A k \in OwnKeys :
    seq[k] # 0 =>
      \A i \in Ids : Stored(i) /\ row[i].event[1] = k => row[i].event[2] <= seq[k]

(* What next_event_id returns is above every stored number of its key.     *)
LEMMA NextIdAbove ==
  ASSUME TypeInv, SeqAhead, NEW k \in OwnKeys,
         NEW n \in 1..MaxSeq, NextEventId(k, n),
         NEW i \in Ids, Stored(i), row[i].event[1] = k
  PROVE  row[i].event[2] < n
<1>1. k \in EventKeys /\ seq[k] \in Nat
  BY LifecycleAssumption DEF EventKeys, OwnKeys, TypeInv, LifecycleTypeOK
<1>2. row[i].event[2] \in Nat
  <2>1. row[i].event \in EventKeys \X (1..MaxSeq)
    BY StoredRow DEF TypeInv, Event
  <2> QED BY <2>1, LifecycleAssumption
<1>3. CASE seq[k] = 0
  <2>1. row[i].event[2] <= n - 1
    BY <1>3 DEF NextEventId, MaxEventSeq
  <2> QED BY <1>2, <2>1
<1>4. CASE seq[k] # 0
  <2>1. n = seq[k] + 1 /\ row[i].event[2] <= seq[k]
    BY <1>4 DEF NextEventId, SeqAhead
  <2> QED BY <1>1, <1>2, <2>1
<1> QED BY <1>3, <1>4

(* An inserted row of key k numbered n keeps SeqAhead when n was handed    *)
(* out by next_event_id and the counter moved to it.                       *)
LEMMA FireKeepsSeqAhead ==
  ASSUME TypeInv, SeqAhead, NEW k \in OwnKeys,
         NEW n \in 1..MaxSeq, NextEventId(k, n),
         NEW s \in {"pending", "none"}, Insert(<<k, n>>, s),
         seq' = [seq EXCEPT ![k] = n]
  PROVE  SeqAhead'
<1>1. <<k, n>> \in Event
  BY DEF Event, EventKeys, OwnKeys
<1>2. /\ lastId + 1 \in Ids
      /\ row'[lastId + 1].event = <<k, n>>
      /\ \A i \in Ids : i # lastId + 1 => row'[i] = row[i]
  BY <1>1, InsertFacts
<1>3. seq'[k] = n /\ \A j \in OwnKeys : j # k => seq'[j] = seq[j]
  BY DEF TypeInv, LifecycleTypeOK, EventKeys, OwnKeys
<1>4. SUFFICES ASSUME NEW j \in OwnKeys, seq'[j] # 0,
                      NEW i \in Ids, Stored(i)', row'[i].event[1] = j
               PROVE  row'[i].event[2] <= seq'[j]
  BY DEF SeqAhead
<1>5. CASE i = lastId + 1
  BY <1>2, <1>3, <1>5, <1>4
<1>6. CASE i # lastId + 1
  <2>1. row'[i] = row[i] /\ Stored(i) /\ row[i].event[1] = j
    BY <1>2, <1>4, <1>6 DEF Stored
  <2>2. CASE j = k
    <3>1. row[i].event[2] < n
      BY <2>1, <2>2, NextIdAbove
    <3>2. row[i].event[2] \in Nat
      <4>1. row[i].event \in EventKeys \X (1..MaxSeq)
        BY <2>1, StoredRow DEF TypeInv, Event
      <4> QED BY <4>1, LifecycleAssumption
    <3> QED BY <1>3, <2>1, <2>2, <3>1, <3>2
  <2>3. CASE j # k
    BY <1>3, <1>4, <2>1, <2>3 DEF SeqAhead
  <2> QED BY <2>2, <2>3
<1> QED BY <1>5, <1>6

-----------------------------------------------------------------------------
(* Without retention a step either inserts one row, or leaves the ids and  *)
(* events of all rows as they are.                                         *)
SameRows ==
  \A i \in Ids : (Stored(i)' <=> Stored(i)) /\ row'[i].event = row[i].event

Quiet ==
  /\ SameRows
  /\ flipped' = flipped
  /\ \A e \in echo' : e \in echo \/ IsStored(e)
  /\ \/ \A k \in OwnKeys : seq'[k] \in {seq[k], 0}
     \/ \E k \in HubKeys : FireConflict(k)

(* A device event is inserted only when its id is not stored.              *)
LEMMA OnEventInserts ==
  ASSUME NEW e \in Event, OnEvent(e)
  PROVE  /\ ~IsStored(e)
         /\ Insert(e, "none")
         /\ e \in BoxEvents \/ e \in echo
         /\ seq' = seq /\ echo' = echo
         /\ flipped' = (flipped \/ e \notin BoxEvents)
  BY DEF OnEvent, NoteSingleBox, IngestDeviceEvent, EventDropped, EventMessage

LEMMA StepKinds ==
  ASSUME Retention = FALSE, TypeInv, [LifecycleNext]_alertVars
  PROVE  \/ \E k \in HubKeys : Fire(k)
         \/ Simulate
         \/ \E e \in Event : OnEvent(e)
         \/ Quiet
<1> USE DEF Quiet, SameRows, Stored
<1>1. ASSUME NEW k \in HubKeys, FireConflict(k) PROVE Quiet
  BY <1>1 DEF FireConflict
<1>2. ASSUME Republish PROVE Quiet
  <2>1. IsStored(row[fire.id].event)
    BY <1>2 DEF Republish, TypeInv, FireStored, IsStored, StoredAs, Idle
  <2> QED BY <1>2, <2>1 DEF Republish
<1>3. ASSUME RequestSnapshot PROVE Quiet
  BY <1>3 DEF RequestSnapshot
<1>4. ASSUME Settle PROVE Quiet
  <2>1. fire.id \in Ids /\ Stored(fire.id)
    BY <1>4 DEF Settle, TypeInv, FireStored, Idle
  <2>2. CASE AttachTo(fire.id)
    BY <1>4, <2>1, <2>2, AttachFacts DEF Settle
  <2>3. CASE UNCHANGED row
    BY <1>4, <2>3 DEF Settle
  <2> QED BY <1>4, <2>2, <2>3 DEF Settle
<1>5. ASSUME NEW e \in Event, OnSnapshot(e) PROVE Quiet
  <2>1. CASE \E i \in Ids : StoredAs(i, e) /\ AttachTo(i)
    BY <1>5, <2>1, AttachFacts DEF OnSnapshot, StoredAs
  <2>2. CASE UNCHANGED row
    BY <1>5, <2>2 DEF OnSnapshot
  <2> QED BY <1>5, <2>1, <2>2 DEF OnSnapshot
<1>6. ASSUME NEW e \in Event, ParkedAges(e) PROVE Quiet
  BY <1>6 DEF ParkedAges
<1>7. ASSUME NEW m \in {"hub", "single_box"}, OnModeStatus(m) PROVE Quiet
  BY <1>7 DEF OnModeStatus
<1>8. ASSUME NEW i \in Ids, ExpireSnapshot(i) PROVE Quiet
  <2>1. row' = row \/ row' = [row EXCEPT ![i].snap = "timeout"]
    BY <1>8 DEF ExpireSnapshot
  <2>2. row \in [Ids -> Row]
    BY DEF TypeInv, LifecycleTypeOK
  <2>3. SameRows
    BY <2>1, <2>2 DEF Row, NoRow
  <2> QED BY <1>8, <2>3 DEF ExpireSnapshot
<1>9. ASSUME NEW i \in Ids, NEW target \in Disposition, Transition(i, target)
      PROVE Quiet
  <2>1. row \in [Ids -> Row] /\ row' = [row EXCEPT ![i].disp = target]
    BY <1>9 DEF Transition, TypeInv, LifecycleTypeOK
  <2>2. row[i].disp # "absent" /\ target # "absent"
    BY <1>9 DEF Transition, LegalTransitions, Disposition
  <2>3. SameRows
    BY <2>1, <2>2 DEF Row, NoRow
  <2> QED BY <1>9, <2>3 DEF Transition
<1>10. ASSUME NEW n \in 0..MaxAlerts, RetentionPass(n) PROVE Quiet
  <2>1. row' = row
    BY <1>10 DEF RetentionPass, Purged, TypeInv, LifecycleTypeOK, Ids
  <2> QED BY <1>10, <2>1 DEF RetentionPass, Purged
<1>11. ASSUME Crash PROVE Quiet
  BY <1>11 DEF Crash, EventKeys, OwnKeys
<1>12. ASSUME Boot \/ RearmPendingSnapshots PROVE Quiet
  BY <1>12 DEF Boot, RearmPendingSnapshots
<1>13. ASSUME UNCHANGED alertVars PROVE Quiet
  BY <1>13 DEF alertVars
<1> QED
  BY <1>1, <1>2, <1>3, <1>4, <1>5, <1>6, <1>7, <1>8, <1>9, <1>10, <1>11,
     <1>12, <1>13 DEF LifecycleNext

(* Without retention every id that was republished is still stored.        *)
Kept == \A e \in echo : IsStored(e)

LEMMA NextKept ==
  ASSUME Retention = FALSE, TypeInv, Kept, [LifecycleNext]_alertVars
  PROVE  Kept'
<1>1. ASSUME NEW e \in Event, NEW s \in {"pending", "none"}, Insert(e, s),
             echo' = echo
      PROVE  Kept'
  <2>1. /\ lastId + 1 \in Ids /\ ~Stored(lastId + 1)
        /\ row'[lastId + 1].disp = "new"
        /\ row'[lastId + 1].event = e
        /\ \A i \in Ids : i # lastId + 1 => row'[i] = row[i]
    BY <1>1, InsertFacts
  <2> QED BY <1>1, <2>1 DEF Kept, IsStored, StoredAs, Stored
<1>2. ASSUME NEW k \in HubKeys, Fire(k) PROVE Kept'
  <2>1. PICK n \in 1..MaxSeq : Insert(<<k, n>>, "pending")
    BY <1>2 DEF Fire
  <2>2. <<k, n>> \in Event /\ echo' = echo
    BY <1>2 DEF Event, EventKeys, Fire
  <2> QED BY <1>1, <2>1, <2>2
<1>3. ASSUME Simulate PROVE Kept'
  <2>1. PICK n \in 1..MaxSeq : Insert(<<SimKey, n>>, "none")
    BY <1>3 DEF Simulate
  <2>2. <<SimKey, n>> \in Event /\ echo' = echo
    BY <1>3 DEF Event, EventKeys, Simulate
  <2> QED BY <1>1, <2>1, <2>2
<1>4. ASSUME NEW e \in Event, OnEvent(e) PROVE Kept'
  BY <1>1, <1>4, OnEventInserts
<1>5. ASSUME Quiet PROVE Kept'
  BY <1>5 DEF Quiet, SameRows, Kept, IsStored, StoredAs
<1> QED BY <1>2, <1>3, <1>4, <1>5, StepKinds

LEMMA NextSeqAhead ==
  ASSUME Retention = FALSE,
         TypeInv, Kept, SeqAhead, [LifecycleNext]_alertVars
  PROVE  SeqAhead'
<1>1. ASSUME NEW k \in HubKeys, Fire(k) PROVE SeqAhead'
  <2>1. PICK n \in 1..MaxSeq : /\ NextEventId(k, n)
                               /\ seq' = [seq EXCEPT ![k] = n]
                               /\ Insert(<<k, n>>, "pending")
    BY <1>1 DEF Fire
  <2>2. CASE k \in OwnKeys
    BY <2>1, <2>2, FireKeepsSeqAhead
  <2>3. CASE k \notin OwnKeys
    <3>1. <<k, n>> \in Event
      BY DEF Event, EventKeys
    <3>2. /\ row'[lastId + 1].event = <<k, n>>
          /\ \A i \in Ids : i # lastId + 1 => row'[i] = row[i]
      BY <2>1, <3>1, InsertFacts
    <3>3. \A j \in OwnKeys : seq'[j] = seq[j]
      BY <2>1, <2>3 DEF TypeInv, LifecycleTypeOK, EventKeys, OwnKeys
    <3> QED BY <2>3, <3>2, <3>3 DEF SeqAhead, Stored
  <2> QED BY <2>2, <2>3
<1>2. ASSUME Simulate PROVE SeqAhead'
  <2>1. PICK n \in 1..MaxSeq : /\ NextEventId(SimKey, n)
                               /\ seq' = [seq EXCEPT ![SimKey] = n]
                               /\ Insert(<<SimKey, n>>, "none")
    BY <1>2 DEF Simulate
  <2> QED BY <2>1, FireKeepsSeqAhead DEF OwnKeys
<1>3. ASSUME NEW e \in Event, OnEvent(e) PROVE SeqAhead'
  <2>1. /\ lastId + 1 \in Ids
        /\ row'[lastId + 1].event = e
        /\ \A i \in Ids : i # lastId + 1 => row'[i] = row[i]
    BY <1>3, OnEventInserts, InsertFacts
  <2>2. e \in BoxEvents /\ seq' = seq
    BY <1>3, OnEventInserts DEF Kept
  <2>3. e[1] \notin OwnKeys
    BY <2>2, LifecycleAssumption DEF BoxEvents, OwnKeys
  <2> QED BY <2>1, <2>2, <2>3 DEF SeqAhead, Stored
<1>4. ASSUME NEW k \in HubKeys, FireConflict(k) PROVE k \notin OwnKeys
  <2> SUFFICES ASSUME k \in OwnKeys PROVE FALSE
    OBVIOUS
  <2>1. PICK n \in 1..MaxSeq : NextEventId(k, n) /\ IsStored(<<k, n>>)
    BY <1>4 DEF FireConflict
  <2>2. PICK i \in Ids : Stored(i) /\ row[i].event = <<k, n>>
    BY <2>1 DEF IsStored, StoredAs
  <2>3. row[i].event[1] = k /\ row[i].event[2] = n
    BY <2>2
  <2>4. n < n
    BY <2>1, <2>2, <2>3, NextIdAbove
  <2> QED BY <2>4
<1>5. ASSUME Quiet PROVE SeqAhead'
  <2>1. \A j \in OwnKeys : seq'[j] \in {seq[j], 0}
    <3>1. CASE \E k \in HubKeys : FireConflict(k)
      <4>1. PICK k \in HubKeys : FireConflict(k)
        BY <3>1
      <4>2. PICK n : seq' = [seq EXCEPT ![k] = n]
        BY <4>1 DEF FireConflict
      <4>3. seq \in [EventKeys -> 0..MaxSeq] /\ OwnKeys \subseteq EventKeys
        BY DEF TypeInv, LifecycleTypeOK, EventKeys, OwnKeys
      <4>4. k \notin OwnKeys
        BY <1>4, <4>1
      <4> QED BY <4>2, <4>3, <4>4
    <3> QED BY <1>5, <3>1 DEF Quiet
  <2> QED BY <1>5, <2>1 DEF Quiet, SameRows, SeqAhead
<1> QED BY <1>1, <1>2, <1>3, <1>5, StepKinds

(* A restart never makes the hub hand out a stored id: NextIdFresh, as     *)
(* long as retention has removed no alert.                                 *)
THEOREM NextIdsAreFresh ==
  ASSUME Retention = FALSE
  PROVE  LifecycleSpec => []NextIdFresh
<1>1. LifecycleInit => TypeInv /\ Kept /\ SeqAhead
  <2>1. LifecycleInit => Kept /\ SeqAhead
    BY DEF LifecycleInit, Kept, SeqAhead, Stored, NoRow
  <2> QED BY <2>1, InitTypeInv
<1>2. TypeInv /\ Kept /\ SeqAhead /\ [LifecycleNext]_alertVars => (TypeInv /\ Kept /\ SeqAhead)'
  BY NextTypeInv, NextKept, NextSeqAhead
<1>3. TypeInv /\ SeqAhead => NextIdFresh
  <2> SUFFICES ASSUME TypeInv, SeqAhead, NEW k \in OwnKeys,
                      NEW n \in 1..MaxSeq, NextEventId(k, n),
                      NEW i \in Ids, Stored(i), row[i].event = <<k, n>>
               PROVE  FALSE
    BY DEF NextIdFresh, IsStored, StoredAs
  <2>1. row[i].event[1] = k /\ row[i].event[2] = n
    OBVIOUS
  <2>2. n < n
    BY <2>1, NextIdAbove
  <2> QED BY <2>2
<1> QED BY <1>1, <1>2, <1>3, PTL DEF LifecycleSpec

(* The echo of the hub's own events never turns a device into a single-box *)
(* one (EchoSafe): what was republished is stored, so it is dropped even   *)
(* when a bridge has lost its origin mark.                                 *)
THEOREM EchoNeverFlips ==
  ASSUME Retention = FALSE
  PROVE  LifecycleSpec => []EchoSafe
<1>1. LifecycleInit => TypeInv /\ Kept /\ EchoSafe
  BY InitTypeInv DEF LifecycleInit, Kept, EchoSafe
<1>2. TypeInv /\ Kept /\ EchoSafe /\ [LifecycleNext]_alertVars => (TypeInv /\ Kept /\ EchoSafe)'
  <2> SUFFICES ASSUME TypeInv, Kept, EchoSafe, [LifecycleNext]_alertVars PROVE EchoSafe'
    BY NextTypeInv, NextKept
  <2>1. ASSUME NEW e \in Event, OnEvent(e) PROVE EchoSafe'
    BY <2>1, OnEventInserts DEF Kept, EchoSafe
  <2>2. ASSUME NEW k \in HubKeys, Fire(k) PROVE EchoSafe'
    BY <2>2 DEF Fire, EchoSafe
  <2>3. ASSUME Simulate PROVE EchoSafe'
    BY <2>3 DEF Simulate, EchoSafe
  <2>4. ASSUME Quiet PROVE EchoSafe'
    BY <2>4 DEF Quiet, EchoSafe
  <2> QED BY <2>1, <2>2, <2>3, <2>4, StepKinds
<1> QED BY <1>1, <1>2, PTL DEF LifecycleSpec
=============================================================================
