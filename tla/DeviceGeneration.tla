--------------------------- MODULE DeviceGeneration ---------------------------
(***************************************************************************)
(* Detector generations of one hub-mode device, end to end: the detector   *)
(* process and its MQTT sessions (platforms/generic/esk_generic), the      *)
(* broker's retained status and last wills, and the three parts of the hub *)
(* that hold state of a session: DeviceRegistry, RuleEngine (one stream,   *)
(* one track, one zone) and AlertManager's cooldowns.  Sessions are        *)
(* numbered in the order in which the processes start.                     *)
(***************************************************************************)
EXTENDS Integers, Sequences

CONSTANTS
  MaxSession,       \* bound on detector starts
  MaxFrame,         \* bound on the frames of one session
  MaxInbox,         \* bound on the messages on their way to the hub
  LateWills         \* may a will come after the next process has connected

ASSUME GenerationAssumption ==
  /\ MaxSession \in Nat /\ MaxFrame \in Nat /\ MaxInbox \in Nat
  /\ LateWills \in BOOLEAN

VARIABLES
  proc,             \* the running detector's session, 0 when none runs
  started,          \* sessions started so far
  frameId,          \* frames the running detector has published
  leaving,          \* it has said goodbye and has yet to disconnect
  overtaken,        \* history: its MQTT thread has spoken after the goodbye
  wills,            \* sessions cut off whose will the broker has yet to publish
  retained,         \* the status topic's retained message, as a sequence
  inbox,            \* messages on their way to the hub
  registry,         \* the device's row: session and online
  engine,           \* adopted session, watermark, is the track's entry held
  stamp,            \* the session that stamped the track's cooldown, 0 for none
  standing,         \* history: session whose last judged frame was inside, or 0
  verdict           \* history: the zone_enter candidate of the last step

detector == <<proc, started, frameId, leaving, overtaken, wills>>
hub == <<registry, engine, stamp, standing, verdict>>
vars == <<detector, retained, inbox, hub>>

NoEngine == [session |-> 0, watermark |-> 0, entered |-> FALSE]
NoVerdict == [enter |-> 0, cooledBy |-> 0]

Status(s, online, valid) ==
  [kind |-> "status", session |-> s, online |-> online, valid |-> valid]
Frame(s, f, inside) ==
  [kind |-> "frame", session |-> s, id |-> f, inside |-> inside]

Init ==
  /\ proc = 0 /\ started = 0 /\ frameId = 0 /\ wills = {}
  /\ leaving = FALSE /\ overtaken = FALSE
  /\ retained = <<>> /\ inbox = <<>>
  /\ registry = [session |-> 0, online |-> FALSE]
  /\ engine = NoEngine /\ stamp = 0
  /\ standing = 0 /\ verdict = NoVerdict

-----------------------------------------------------------------------------
(* The detector and the broker.                                            *)

(* A step in which the hub judges nothing.                                 *)
HubIdle ==
  /\ verdict' = NoVerdict
  /\ UNCHANGED <<registry, engine, stamp, standing>>

Room(n) == Len(inbox) + n <= MaxInbox

(* A retained publish on the status topic.                                 *)
PublishStatus(m) ==
  /\ Room(1)
  /\ retained' = <<m>>
  /\ inbox' = Append(inbox, m)

(* A process starts and announces itself on connect; the validator may not *)
(* know the state it announces.                                            *)
Start ==
  /\ proc = 0 /\ started < MaxSession
  /\ LateWills \/ wills = {}
  /\ proc' = started + 1 /\ started' = started + 1 /\ frameId' = 0
  /\ overtaken' = FALSE /\ UNCHANGED leaving
  /\ \E valid \in BOOLEAN : PublishStatus(Status(started + 1, TRUE, valid))
  /\ UNCHANGED wills /\ HubIdle

Heartbeat ==
  /\ proc # 0 /\ ~leaving
  /\ PublishStatus(Status(proc, TRUE, TRUE))
  /\ UNCHANGED detector /\ HubIdle

(* A command ends with a status, in the MQTT thread, which goes on until   *)
(* the disconnect whatever the main thread has said.                       *)
CommandEnds ==
  /\ proc # 0
  /\ PublishStatus(Status(proc, TRUE, TRUE))
  /\ overtaken' = (overtaken \/ leaving)
  /\ UNCHANGED <<proc, started, frameId, leaving, wills>> /\ HubIdle

(* Mutant: a clean exit leaves the last heartbeat as its last word.        *)
Goodbye_Silent(s) == UNCHANGED <<retained, inbox>>

(* publish_status(online=False) before the disconnect of a clean exit.     *)
Goodbye(s) == PublishStatus(Status(s, FALSE, TRUE))

BeginExit ==
  /\ proc # 0 /\ ~leaving
  /\ Goodbye(proc)
  /\ leaving' = TRUE
  /\ UNCHANGED <<proc, started, frameId, overtaken, wills>> /\ HubIdle

(* The DISCONNECT: the broker drops the will.                              *)
EndExit ==
  /\ leaving
  /\ proc' = 0 /\ leaving' = FALSE
  /\ UNCHANGED <<started, frameId, overtaken, wills, retained, inbox>> /\ HubIdle

(* The process or its network dies without a DISCONNECT.                   *)
Die ==
  /\ proc # 0
  /\ proc' = 0 /\ leaving' = FALSE
  /\ wills' = wills \cup {proc}
  /\ UNCHANGED <<started, frameId, overtaken, retained, inbox>> /\ HubIdle

WillFires(s) ==
  /\ s \in wills
  /\ wills' = wills \ {s}
  /\ PublishStatus(Status(s, FALSE, TRUE))
  /\ UNCHANGED <<proc, started, frameId, leaving, overtaken>> /\ HubIdle

(* The connection drops and comes back under the same client id: the       *)
(* broker publishes the will at the takeover, then on_connect the status.  *)
Reconnect ==
  /\ proc # 0 /\ Room(2)
  /\ retained' = <<Status(proc, TRUE, TRUE)>>
  /\ inbox' = inbox \o <<Status(proc, FALSE, TRUE), Status(proc, TRUE, TRUE)>>
  /\ overtaken' = (overtaken \/ leaving)
  /\ UNCHANGED <<proc, started, frameId, leaving, wills>> /\ HubIdle

(* A frame, published QoS0: it may be lost.                                *)
PublishFrame(inside, lost) ==
  /\ proc # 0 /\ frameId < MaxFrame
  /\ frameId' = frameId + 1
  /\ IF lost THEN UNCHANGED inbox
     ELSE Room(1) /\ inbox' = Append(inbox, Frame(proc, frameId + 1, inside))
  /\ UNCHANGED <<proc, started, leaving, overtaken, wills, retained>> /\ HubIdle

-----------------------------------------------------------------------------
(* The hub.                                                                *)

(* Mutant: a session change is acted on even if its frames came first.     *)
SessionChanged_NotAdopted(s) == registry.session \notin {0, s}

(* on_status calls _on_session_change, and that finds the session not yet  *)
(* adopted by the engine.                                                  *)
SessionChanged(s) == registry.session \notin {0, s} /\ engine.session # s

(* DeviceRegistry.on_status of a valid message: the row is replaced, and a *)
(* changed session resets the engine's device and its cooldowns.           *)
OnStatus(m) ==
  /\ m.kind = "status" /\ m.valid
  /\ registry' = [session |-> m.session, online |-> m.online]
  /\ IF SessionChanged(m.session)
     THEN engine' = NoEngine /\ stamp' = 0
     ELSE UNCHANGED <<engine, stamp>>
  /\ verdict' = NoVerdict
  /\ UNCHANGED standing

(* One the contract validator rejects changes nothing.                     *)
OnRejected(m) ==
  /\ m.kind = "status" /\ ~m.valid
  /\ HubIdle

(* The engine as a frame of session s finds it.                            *)
Adopted(s) ==
  IF engine.session = s THEN engine ELSE [NoEngine EXCEPT !.session = s]

(* A frame at or below the watermark is dropped.                           *)
OnLateFrame(m) ==
  /\ m.kind = "frame" /\ m.id <= Adopted(m.session).watermark
  /\ engine' = Adopted(m.session)
  /\ verdict' = NoVerdict
  /\ UNCHANGED <<registry, stamp, standing>>

(* Hub.on_detections: the engine adopts the session and judges the track;  *)
(* a zone_enter then passes AlertManager.allow, which stamps the cooldown, *)
(* or is suppressed by a stamp.                                            *)
OnFrame(m) ==
  /\ m.kind = "frame" /\ m.id > Adopted(m.session).watermark
  /\ engine' = [session |-> m.session, watermark |-> m.id, entered |-> m.inside]
  /\ IF m.inside /\ ~Adopted(m.session).entered
     THEN /\ verdict' = [enter |-> m.session, cooledBy |-> stamp]
          /\ stamp' = IF stamp = 0 THEN m.session ELSE stamp
     ELSE verdict' = NoVerdict /\ UNCHANGED stamp
  /\ standing' = IF m.inside THEN m.session ELSE 0
  /\ UNCHANGED registry

(* MqttIngest handles one message after the other.                         *)
Deliver ==
  /\ inbox # <<>>
  /\ inbox' = Tail(inbox)
  /\ LET m == Head(inbox)
     IN  OnStatus(m) \/ OnRejected(m) \/ OnLateFrame(m) \/ OnFrame(m)
  /\ UNCHANGED <<detector, retained>>

(* The cooldown's window ends.                                             *)
CooldownEnds ==
  /\ stamp # 0
  /\ stamp' = 0 /\ verdict' = NoVerdict
  /\ UNCHANGED <<detector, retained, inbox, registry, engine, standing>>

(* The hub's connection drops: what was on its way is lost, the retained   *)
(* status comes again with the subscription.                               *)
HubReconnect ==
  /\ inbox' = retained
  /\ HubIdle
  /\ UNCHANGED <<detector, retained>>

(* The hub restarts: only the devices table is kept.                       *)
HubRestart ==
  /\ inbox' = retained
  /\ engine' = NoEngine /\ stamp' = 0
  /\ standing' = 0 /\ verdict' = NoVerdict
  /\ UNCHANGED <<detector, retained, registry>>

Next ==
  \/ Start \/ Heartbeat \/ CommandEnds \/ BeginExit \/ EndExit \/ Die \/ Reconnect
  \/ \E s \in wills : WillFires(s)
  \/ \E inside, lost \in BOOLEAN : PublishFrame(inside, lost)
  \/ Deliver \/ CooldownEnds \/ HubReconnect \/ HubRestart

Spec == Init /\ [][Next]_vars

(* The detector's loop sends heartbeats, an exit that has begun goes on,   *)
(* the broker fires the wills of dead connections, and the ingest loop     *)
(* takes what arrives.  Nothing has to start, stop, die or lose a          *)
(* connection.                                                             *)
FairSpec ==
  /\ Spec
  /\ WF_vars(Heartbeat) /\ WF_vars(EndExit) /\ WF_vars(Deliver)
  /\ WF_vars(\E s \in wills : WillFires(s))

-----------------------------------------------------------------------------
(* Properties.                                                             *)

Sessions == 0..MaxSession
Statuses == [kind : {"status"}, session : Sessions, online : BOOLEAN, valid : BOOLEAN]
Frames == [kind : {"frame"}, session : Sessions, id : 1..MaxFrame, inside : BOOLEAN]

ExitTyped == leaving \in BOOLEAN /\ overtaken \in BOOLEAN /\ (leaving => proc # 0)

(* The state has its types, the running process is the newest, and the     *)
(* engine's watermark is one of the session it has adopted.                *)
TypeOK ==
  /\ started \in Sessions /\ proc \in {0, started}
  /\ frameId \in 0..MaxFrame
  /\ ExitTyped
  /\ wills \subseteq 1..started
  /\ retained \in {<<>>} \cup {<<m>> : m \in Statuses}
  /\ inbox \in Seq(Statuses \cup Frames)
  /\ registry \in [session : Sessions, online : BOOLEAN]
  /\ engine \in [session : Sessions, watermark : 0..MaxFrame, entered : BOOLEAN]
  /\ engine.session # 0 /\ engine.session = proc => engine.watermark <= frameId
  /\ stamp \in Sessions /\ standing \in Sessions
  /\ verdict \in [enter : Sessions, cooledBy : Sessions]

(* A track that was inside when its session was last judged is not found   *)
(* to enter again: no announcement of a session, however late, repeated or *)
(* rejected, wipes the generation the frames have established              *)
(* (Hub._on_session_change).                                               *)
EntriesAreReal ==
  [][verdict'.enter # 0 => verdict'.enter # standing]_vars

(* A detector that runs for good is shown online under its session again   *)
(* after every drop of its connection; one that is gone for good is shown  *)
(* offline for good, whether it said goodbye or its will did, and whatever *)
(* the hub missed (publish_status, on_status).  Except where its MQTT      *)
(* thread spoke after the goodbye, with the status of a command or of a    *)
(* new connection: run() disconnects before it stops that thread, and      *)
(* "online: true" is then the retained last word for good.                 *)
RegistryFollowsDevice ==
  /\ \A s \in 1..MaxSession :
       <>[](proc = s) => []<>(registry = [session |-> s, online |-> TRUE])
  /\ <>[](proc = 0 /\ ~overtaken) => <>[](~registry.online)
=============================================================================
