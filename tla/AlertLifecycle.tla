--------------------------- MODULE AlertLifecycle ---------------------------
(***************************************************************************)
(* The life of the hub's alerts: AlertManager (alert_manager.py) over the  *)
(* alerts table (storage.py), the callers that reach it (app.py: the rule  *)
(* engine's candidates, a device's own events, the simulate endpoint) and  *)
(* the hourly retention pass.                                              *)
(*                                                                         *)
(* The hub is one asyncio process.  MQTT messages are handled by one task, *)
(* one message at a time; timers, HTTP handlers and retention are other    *)
(* tasks and run wherever that task awaits.  An action is a stretch of     *)
(* code between two awaits that changes state.  WebSocket pushes change    *)
(* none of it and are modelled in Console.                                 *)
(***************************************************************************)
EXTENDS Naturals, FiniteSets

CONSTANTS
  HubKeys,          \* (device, stream, session) keys whose frames the hub judges
  BoxKeys,          \* the keys under which the device's own engine makes event ids
  SimKey,           \* the key of simulated alerts: session_id "simulate"
  MaxSeq,           \* bound on a sequence number
  MaxAlerts,        \* bound on the rows ever inserted
  MaxCrashes,       \* bound on the restarts of the hub
  PublishFails,     \* TRUE: an MQTT publish may raise
  WriteFails,       \* TRUE: writing the JPEG may raise
  Retention         \* TRUE: rows may grow older than retention_days

EventKeys == HubKeys \cup BoxKeys \cup {SimKey}
Event == EventKeys \X (1..MaxSeq)
BoxEvents == BoxKeys \X (1..MaxSeq)
OwnKeys == (HubKeys \ BoxKeys) \cup {SimKey}
Ids == 1..MaxAlerts

ASSUME LifecycleAssumption ==
  /\ SimKey \notin HubKeys \cup BoxKeys
  /\ MaxSeq \in Nat /\ MaxAlerts \in Nat /\ MaxCrashes \in Nat
  /\ PublishFails \in BOOLEAN /\ WriteFails \in BOOLEAN /\ Retention \in BOOLEAN

NoEvent == <<SimKey, 0>>

VARIABLES
  row,              \* alerts table: id -> row (persistent)
  lastId,           \* sqlite_sequence of the AUTOINCREMENT key (persistent)
  proc,             \* "down", "http" (serving, not started up) or "up"
  seq,              \* _seq: key -> last sequence number, 0 when not in the dict
  timers,           \* _timers: ids with an armed snapshot timer
  parked,           \* _parked_snapshots: event -> "none", "fresh" or "stale"
  fire,             \* where the ingest task stands inside fire()
  mode,             \* the device's mode as the registry knows it
  asked,            \* events whose cmd/snapshot reached the broker
  echo,             \* events republished on events/<stream_id>
  flipped,          \* history: an echo made the device single-box
  crashes

alertVars == <<row, lastId, proc, seq, timers, parked, fire, mode, asked, echo,
               flipped, crashes>>

Disposition == {"new", "acked", "dismissed"}
SnapState == {"pending", "received", "timeout", "none"}
NoRow == [event |-> NoEvent, disp |-> "absent", snap |-> "absent"]
Row == {NoRow} \cup [event : Event, disp : Disposition, snap : SnapState]

Stored(i) == row[i].disp # "absent"
StoredAs(i, e) == Stored(i) /\ row[i].event = e

(* Storage.get_alert_by_event_id.                                          *)
IsStored(e) == \E i \in Ids : StoredAs(i, e)

Idle == [at |-> "idle", id |-> 0]
FirePoint == {"republish", "request", "settle", "settle_box"}

LifecycleInit ==
  /\ row = [i \in Ids |-> NoRow]
  /\ lastId = 0
  /\ proc = "http"
  /\ seq = [k \in EventKeys |-> 0]
  /\ timers = {}
  /\ parked = [e \in Event |-> "none"]
  /\ fire = Idle
  /\ mode = "hub"
  /\ asked = {} /\ echo = {}
  /\ flipped = FALSE
  /\ crashes = 0

-----------------------------------------------------------------------------
(* Event ids.                                                              *)

(* Storage.max_event_seq: m is the largest stored sequence number of k.    *)
MaxEventSeq(k, m) ==
  /\ \A i \in Ids : Stored(i) /\ row[i].event[1] = k => row[i].event[2] <= m
  /\ m = 0 \/ \E i \in Ids : StoredAs(i, <<k, m>>)

(* Mutant: the counter of a new process starts at 1.                       *)
NextEventId_Unseeded(k, n) == n \in 1..MaxSeq /\ n = seq[k] + 1

(* AlertManager.next_event_id: the number n it hands out for k, from the   *)
(* counter in memory or, on first use in this process, from the table.     *)
NextEventId(k, n) ==
  /\ n \in 1..MaxSeq
  /\ IF seq[k] = 0 THEN MaxEventSeq(k, n - 1) ELSE n = seq[k] + 1

(* Storage.insert_alert: a fresh AUTOINCREMENT id, event_id UNIQUE.        *)
Insert(e, s) ==
  /\ lastId < MaxAlerts
  /\ ~IsStored(e)
  /\ lastId' = lastId + 1
  /\ row' = [row EXCEPT ![lastId + 1] =
               [event |-> e, disp |-> "new", snap |-> s]]

-----------------------------------------------------------------------------
(* Firing, from the ingest task.                                           *)

IngestFree == proc = "up" /\ fire = Idle

(* fire(mode="hub") up to its first await: number, INSERT as pending.      *)
Fire(k) ==
  /\ IngestFree
  /\ mode = "hub"
  /\ \E n \in 1..MaxSeq :
       /\ NextEventId(k, n)
       /\ seq' = [seq EXCEPT ![k] = n]
       /\ Insert(<<k, n>>, "pending")
  /\ fire' = [at |-> "republish", id |-> lastId + 1]
  /\ UNCHANGED <<proc, timers, parked, mode, asked, echo, flipped, crashes>>

(* The same when the id is already in the table: INSERT raises, the ingest *)
(* loop counts the error, the number stays consumed.                       *)
FireConflict(k) ==
  /\ IngestFree
  /\ mode = "hub"
  /\ \E n \in 1..MaxSeq :
       /\ NextEventId(k, n)
       /\ IsStored(<<k, n>>)
       /\ seq' = [seq EXCEPT ![k] = n]
  /\ UNCHANGED <<row, lastId, proc, timers, parked, fire, mode, asked, echo,
                 flipped, crashes>>

(* A publish raises: the exception leaves fire() and the ingest loop       *)
(* contains it; nothing after it in fire() runs.                           *)
PublishRaises ==
  /\ PublishFails
  /\ fire' = Idle

(* _republish_event: delivered, or dropped without a broker connection.    *)
Republish ==
  /\ proc = "up" /\ fire.at = "republish"
  /\ \/ /\ echo' \in {echo, echo \cup {row[fire.id].event}}
        /\ fire' = [fire EXCEPT !.at = "request"]
     \/ PublishRaises /\ UNCHANGED echo
  /\ UNCHANGED <<row, lastId, proc, seq, timers, parked, mode, asked, flipped, crashes>>

(* _request_snapshot: cmd/snapshot reaches the broker, or is dropped.      *)
RequestSnapshot ==
  /\ proc = "up" /\ fire.at = "request"
  /\ \/ /\ asked' \in {asked, asked \cup {row[fire.id].event}}
        /\ fire' = [fire EXCEPT !.at = "settle"]
     \/ PublishRaises /\ UNCHANGED asked
  /\ UNCHANGED <<row, lastId, proc, seq, timers, parked, mode, echo, flipped, crashes>>

(* attach_snapshot on a stored alert: the timer is dropped first, then the *)
(* file is written, then the row updated; a failed write stops in between. *)
AttachTo(i) ==
  /\ timers' = timers \ {i}
  /\ \/ row' = [row EXCEPT ![i].snap = "received"]
     \/ WriteFails /\ UNCHANGED row

(* Mutant: fire() never looks at the parked snapshots.                     *)
Settle_ParkedIgnored ==
  /\ proc = "up" /\ fire.at \in {"settle", "settle_box"}
  /\ timers' = IF fire.at = "settle" THEN timers \cup {fire.id} ELSE timers
  /\ fire' = Idle
  /\ UNCHANGED <<row, lastId, proc, seq, parked, mode, asked, echo, flipped, crashes>>

(* The end of fire(): a parked snapshot is attached, otherwise a hub-mode  *)
(* alert gets its timer.                                                   *)
Settle ==
  /\ proc = "up" /\ fire.at \in {"settle", "settle_box"}
  /\ LET e == row[fire.id].event IN
       IF parked[e] # "none"
       THEN /\ parked' = [parked EXCEPT ![e] = "none"]
            /\ AttachTo(fire.id)
       ELSE /\ timers' = IF fire.at = "settle" THEN timers \cup {fire.id}
                                               ELSE timers
            /\ UNCHANGED <<row, parked>>
  /\ fire' = Idle
  /\ UNCHANGED <<lastId, proc, seq, mode, asked, echo, flipped,
                 crashes>>

-----------------------------------------------------------------------------
(* The other MQTT handlers of the ingest task.                             *)

(* Mutant: only the origin mark is looked at.                              *)
EventDropped_OriginOnly(e, origin) == origin = "hub"

(* Hub.on_event's two guards: the origin mark, and an id already stored.   *)
EventDropped(e, origin) == origin = "hub" \/ IsStored(e)

(* A message on events/<stream_id>: the device's own event, again on a     *)
(* QoS1 redelivery, or the echo of what the hub republished, with its mark *)
(* or, through a bridge that drops it, without.                            *)
EventMessage(e, origin) ==
  \/ e \in BoxEvents /\ origin = "device"
  \/ e \in echo /\ origin \in {"hub", "device"}

(* DeviceRegistry.note_single_box, for the event e.                        *)
NoteSingleBox(e) ==
  /\ mode' = "single_box"
  /\ flipped' = (flipped \/ e \notin BoxEvents)

(* ingest_device_event looks the id up again before it fires.              *)
IngestDeviceEvent(e) ==
  IF IsStored(e)
  THEN UNCHANGED <<row, lastId, fire>>
  ELSE /\ Insert(e, "none")
       /\ fire' = [at |-> "settle_box", id |-> lastId + 1]

(* on_event past its guards.                                               *)
OnEvent(e) ==
  /\ IngestFree
  /\ \E origin \in {"hub", "device"} :
       EventMessage(e, origin) /\ ~EventDropped(e, origin)
  /\ NoteSingleBox(e)
  /\ IngestDeviceEvent(e)
  /\ UNCHANGED <<proc, seq, timers, parked, asked, echo, crashes>>

(* The mode field of a status message is the device's configuration.       *)
OnModeStatus(m) ==
  /\ IngestFree
  /\ mode' = m
  /\ UNCHANGED <<row, lastId, proc, seq, timers, parked, fire, asked, echo,
                 flipped, crashes>>

(* sweep_parked drops what was parked longer than snapshot_timeout_s ago.  *)
SweptParked(p) == [e \in Event |-> IF p[e] = "stale" THEN "none" ELSE p[e]]

(* attach_snapshot: an answer to cmd/snapshot, however late or repeated,   *)
(* or the unprompted snapshot of a single-box device.                      *)
OnSnapshot(e) ==
  /\ IngestFree
  /\ e \in asked \cup BoxEvents
  /\ IF IsStored(e)
     THEN /\ \E i \in Ids : StoredAs(i, e) /\ AttachTo(i)
          /\ UNCHANGED parked
     ELSE /\ parked' = SweptParked([parked EXCEPT ![e] = "fresh"])
          /\ UNCHANGED <<row, timers>>
  /\ UNCHANGED <<lastId, proc, seq, fire, mode, asked, echo, flipped,
                 crashes>>

-----------------------------------------------------------------------------
(* The other tasks.                                                        *)

(* Mutant: the timer fires and the row is left alone.                      *)
ExpireSnapshot_RowLeft(i) ==
  /\ proc = "up"
  /\ i \in timers
  /\ timers' = timers \ {i}
  /\ UNCHANGED <<row, lastId, proc, seq, parked, fire, mode, asked, echo,
                 flipped, crashes>>

(* _snapshot_timeout wakes up: expire_snapshot.                            *)
ExpireSnapshot(i) ==
  /\ proc = "up"
  /\ i \in timers
  /\ timers' = timers \ {i}
  /\ row' = IF row[i].snap = "pending"
            THEN [row EXCEPT ![i].snap = "timeout"] ELSE row
  /\ UNCHANGED <<lastId, proc, seq, parked, fire, mode, asked, echo, flipped, crashes>>

(* Mutant: a dismissed alert may be reopened.                              *)
LegalTransitions_Reopen(target) ==
  IF target = "new" THEN {"dismissed"} ELSE {"new", "acked", "dismissed"}

(* LEGAL_TRANSITIONS: the dispositions from which target may be reached.   *)
LegalTransitions(target) ==
  CASE target = "acked" -> {"new", "dismissed"}
    [] target = "dismissed" -> {"new", "acked"}
    [] OTHER -> {}

(* An operator acks or dismisses an alert.                                 *)
Transition(i, target) ==
  /\ proc # "down"
  /\ row[i].disp \in LegalTransitions(target)
  /\ row' = [row EXCEPT ![i].disp = target]
  /\ UNCHANGED <<lastId, proc, seq, timers, parked, fire, mode, asked, echo,
                 flipped, crashes>>

(* POST simulate: a real row, no snapshot round trip, from the HTTP task.  *)
Simulate ==
  /\ proc # "down"
  /\ \E n \in 1..MaxSeq :
       /\ NextEventId(SimKey, n)
       /\ seq' = [seq EXCEPT ![SimKey] = n]
       /\ Insert(<<SimKey, n>>, "none")
  /\ UNCHANGED <<proc, timers, parked, fire, mode, asked, echo, flipped,
                 crashes>>

(* purge_older_than: the rows up to n are the old ones.                    *)
Purged(n) == [i \in Ids |-> IF i <= n THEN NoRow ELSE row[i]]

(* One pass of the retention loop: alerts older than retention_days go, in *)
(* the order of their ids, then parked snapshots are swept.  The alert     *)
(* being fired was received just now and is never among them.              *)
RetentionPass(n) ==
  /\ proc = "up"
  /\ n = 0 \/ Retention
  /\ n <= lastId /\ (fire # Idle => n < fire.id)
  /\ row' = Purged(n)
  /\ parked' = SweptParked(parked)
  /\ UNCHANGED <<lastId, proc, seq, timers, fire, mode, asked, echo, flipped, crashes>>

(* snapshot_timeout_s pass since e was parked.                             *)
ParkedAges(e) ==
  /\ proc = "up"
  /\ parked[e] = "fresh"
  /\ parked' = [parked EXCEPT ![e] = "stale"]
  /\ UNCHANGED <<row, lastId, proc, seq, timers, fire, mode, asked, echo,
                 flipped, crashes>>

-----------------------------------------------------------------------------
(* Restarts.  What AlertManager holds in memory is lost; SQLite is not.    *)

Crash ==
  /\ proc # "down" /\ crashes < MaxCrashes
  /\ proc' = "down"
  /\ seq' = [k \in EventKeys |-> 0]
  /\ timers' = {}
  /\ parked' = [e \in Event |-> "none"]
  /\ fire' = Idle
  /\ crashes' = crashes + 1
  /\ UNCHANGED <<row, lastId, mode, asked, echo, flipped>>

(* run(): the HTTP site is up before MQTT ingest and the timers are.       *)
Boot ==
  /\ proc = "down"
  /\ proc' = "http"
  /\ UNCHANGED <<row, lastId, seq, timers, parked, fire, mode, asked, echo,
                 flipped, crashes>>

(* Mutant: a restart forgets the alerts that were waiting.                 *)
RearmPendingSnapshots_None ==
  /\ proc = "http"
  /\ proc' = "up"
  /\ UNCHANGED <<row, lastId, seq, timers, parked, fire, mode, asked, echo,
                 flipped, crashes>>

(* start_background: rearm_pending_snapshots, before any message is read.  *)
RearmPendingSnapshots ==
  /\ proc = "http"
  /\ proc' = "up"
  /\ timers' = {i \in Ids : row[i].snap = "pending"}
  /\ UNCHANGED <<row, lastId, seq, parked, fire, mode, asked, echo, flipped, crashes>>

-----------------------------------------------------------------------------
LifecycleNext ==
  \/ \E k \in HubKeys : Fire(k) \/ FireConflict(k)
  \/ Republish \/ RequestSnapshot \/ Settle
  \/ \E e \in Event : OnEvent(e) \/ OnSnapshot(e) \/ ParkedAges(e)
  \/ \E m \in {"hub", "single_box"} : OnModeStatus(m)
  \/ \E i \in Ids : ExpireSnapshot(i)
  \/ \E i \in Ids, target \in Disposition : Transition(i, target)
  \/ Simulate
  \/ \E n \in 0..MaxAlerts : RetentionPass(n)
  \/ Crash \/ Boot \/ RearmPendingSnapshots

LifecycleSpec == LifecycleInit /\ [][LifecycleNext]_alertVars

(* The event loop runs what is ready: a fire() under way, a timer that is  *)
(* due, and start-up once a supervisor has restarted the process.          *)
Fairness ==
  /\ WF_alertVars(Republish) /\ WF_alertVars(RequestSnapshot) /\ WF_alertVars(Settle)
  /\ \A i \in Ids : WF_alertVars(ExpireSnapshot(i))
  /\ WF_alertVars(Boot) /\ WF_alertVars(RearmPendingSnapshots)

LifecycleFairSpec == LifecycleSpec /\ Fairness

-----------------------------------------------------------------------------
(* Every variable stays in its range.                                      *)
LifecycleTypeOK ==
  /\ row \in [Ids -> Row]
  /\ lastId \in 0..MaxAlerts
  /\ proc \in {"down", "http", "up"}
  /\ seq \in [EventKeys -> 0..MaxSeq]
  /\ timers \subseteq Ids
  /\ parked \in [Event -> {"none", "fresh", "stale"}]
  /\ fire \in {Idle} \cup [at : FirePoint, id : Ids]
  /\ mode \in {"hub", "single_box"}
  /\ asked \subseteq Event /\ echo \subseteq Event
  /\ flipped \in BOOLEAN
  /\ crashes \in 0..MaxCrashes

(* The id next_event_id is about to hand out, from memory or seeded from   *)
(* the table after a restart, is not stored: the INSERT of a hub-judged    *)
(* alert cannot hit the UNIQUE constraint (HUB_SPEC section 3, the failure *)
(* that silenced a device until it restarted), unless the device's own     *)
(* engine makes ids under the same key: it may then have taken the number. *)
NextIdFresh ==
  \A k \in OwnKeys, n \in 1..MaxSeq :
    NextEventId(k, n) => ~IsStored(<<k, n>>)

(* While the hub is up and no fire() is in flight for it, an alert waits   *)
(* for its snapshot exactly when its timer is armed: attach, expire, a     *)
(* restart and the end of fire() each keep the two in step.                *)
PendingArmed ==
  proc = "up" =>
    \A i \in Ids : fire.id # i =>
      /\ row[i].snap = "pending" => i \in timers
      /\ i \in timers => row[i].snap \in {"pending", "absent"}

(* A snapshot never stays parked beside the alert it belongs to: whichever *)
(* of event and snapshot is first, the second finds it.                    *)
ParkedHasNoAlert ==
  \A e \in Event, i \in Ids :
    parked[e] # "none" /\ StoredAs(i, e) => fire.id = i

(* The hub's own echo never makes a hub-mode device single-box, not even   *)
(* through a bridge that drops the origin mark (HUB_SPEC section 1.1).     *)
EchoSafe == ~flipped

(* Every alert stored as pending stops waiting: evidence, timeout, or      *)
(* removal, whatever restarts happen (HUB_SPEC section 3).                 *)
PendingSettles ==
  \A i \in Ids : row[i].snap = "pending" ~> row[i].snap # "pending"

(* The table implements the promise of AlertSpec: snapshots only move      *)
(* forward, nothing returns to "new", ids grow and are never reused.       *)
Promise == INSTANCE AlertSpec WITH
  disp <- [i \in Ids |-> row[i].disp],
  snap <- [i \in Ids |-> row[i].snap],
  last <- lastId

ImplementsPromise == Promise!Alerts
=============================================================================
