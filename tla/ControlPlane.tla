----------------------------- MODULE ControlPlane -----------------------------
(***************************************************************************)
(* Runtime control of one detector, from the REST call to the capture      *)
(* loop and back: the hub's half (hub/edge_hub/control.py and http_api.py  *)
(* _control), the QoS1 command and ack topics, the detector's decision     *)
(* table (esk_core/control.py), its stream registry (supervisor.py), its   *)
(* capture threads (streams.py) and the stream list in its config file     *)
(* (config_streams.py).  The generic platform has copies of its own of the *)
(* decision table and the supervisor (esk_generic), without a limit of     *)
(* streams.  The MQTT thread handles one command at a time and is blocked  *)
(* while an added source opens.                                            *)
(***************************************************************************)
EXTENDS Integers, SequencesExt

CONSTANTS
  Requests,         \* request ids, numbers from 1
  Streams,          \* stream ids
  Targets,          \* those that commands are about
  AtBoot,           \* the streams of the config file at first
  Default,          \* the stream of a config that lists none
  MaxStreams,       \* max_streams of the detector, 0 for no limit
  SeenLimit,        \* request ids the detector remembers
  RetryWindow,      \* commands among the latest that QoS1 may deliver again
  MaxRetries,       \* bound on such deliveries
  MaxSessions,      \* bound on detector starts
  MaxFrames         \* bound on the frames of a capture loop

ASSUME ControlAssumption ==
  /\ Requests \subseteq Nat \ {0} /\ AtBoot \subseteq Streams
  /\ Targets \subseteq Streams /\ Default \in Streams /\ AtBoot # {}
  /\ MaxStreams \in Nat /\ SeenLimit \in Nat \ {0} /\ RetryWindow \in 0..SeenLimit
  /\ MaxRetries \in Nat /\ MaxSessions \in Nat \ {0} /\ MaxFrames \in Nat

NoRequest == 0

VARIABLES
  cmd,              \* request -> its command, NoCommand before it is sent
  rest,             \* request -> where its REST call stands; a 409 is "rejected"
                    \* with the reason of a refusal, "fault" with an exception's text
  roster,           \* the stream ids in the hub's registry
  toDev,            \* cmd/control messages on their way, request ids
  toHub,            \* cmd/ack messages on their way
  published,        \* the streams of the retained status
  session,          \* detector starts so far
  seen,             \* _seen in its _order: acks already sent
  opening,          \* the add_stream the MQTT thread is waiting for
  workers,          \* _workers: stream -> worker, "dead" if it has no thread
  file,             \* the streams list on disk: stream -> threshold, or Absent
  ghost,            \* stream -> frame_id of a stopped loop that still runs
  delivered,        \* history: the commands of this session, repeats left out
  retries,          \* history: repeated deliveries so far
  done,             \* history: request -> times its change came into force
  latest,           \* history: stream -> the last request that changed it,
                    \* and whether its ack said persisted
  lastFrame         \* history: stream -> frame_id last published this session

rpc == <<cmd, rest, roster>>
wire == <<toDev, toHub, published>>
history == <<delivered, retries, done, latest, lastFrame>>
vars == <<rpc, wire, session, seen, opening, workers, file, ghost, history>>

Operations == {"add_stream", "remove_stream", "set_conf_threshold"}
Commands == [op : Operations, stream : Targets]
NoCommand == [op |-> "none", stream |-> Default]
NoChange == [by |-> NoRequest, kept |-> FALSE]

Absent == -1
NoWorker == [st |-> "off", conf |-> 0, by |-> NoRequest, frame |-> 0]
Worker(conf, by) == [st |-> "opening", conf |-> conf, by |-> by, frame |-> 0]

Unstarted(by) == [st |-> "dead", conf |-> 0, by |-> by, frame |-> 0]

Running == {s \in Streams : workers[s].st # "off"}

(* The streams a start finds in the file f: an empty list is taken for the *)
(* single-stream form, whose keys have defaults.                           *)
Configured(f) ==
  LET listed == {s \in Streams : f[s] # Absent}
  IN  IF listed = {} THEN {Default} ELSE listed

(* init_streams: conf is the request that set a threshold, 0 the default.  *)
FromFile(f) == [s \in Streams |-> IF s \in Configured(f)
                                  THEN Worker(IF f[s] = Absent THEN 0 ELSE f[s], NoRequest)
                                  ELSE NoWorker]

Init ==
  /\ cmd = [r \in Requests |-> NoCommand]
  /\ rest = [r \in Requests |-> "unsent"]
  /\ roster = AtBoot
  /\ toDev = <<>> /\ toHub = <<>> /\ published = AtBoot
  /\ session = 1 /\ seen = <<>> /\ opening = NoRequest
  /\ file = [s \in Streams |-> IF s \in AtBoot THEN 0 ELSE Absent]
  /\ workers = FromFile(file)
  /\ ghost = [s \in Streams |-> Absent]
  /\ delivered = <<>> /\ retries = 0
  /\ done = [r \in Requests |-> 0]
  /\ latest = [s \in Streams |-> NoChange]
  /\ lastFrame = [s \in Streams |-> 0]

-----------------------------------------------------------------------------
(* The hub.                                                                *)

(* The checks of the REST handlers: an add is refused when the registry    *)
(* shows its stream.                                                       *)
Accepted(c) == c.op = "add_stream" => c.stream \notin roster

(* A REST call passes its checks and ControlPlane.send parks a future and  *)
(* publishes: without a connection the publish is dropped silently, and    *)
(* one that raises ends the call with an error, sent or not.               *)
Send(r, c) ==
  /\ rest[r] = "unsent"
  /\ \A q \in Requests : q < r => rest[q] # "unsent"
  /\ Accepted(c)
  /\ cmd' = [cmd EXCEPT ![r] = c]
  /\ \E raises, sent \in BOOLEAN :
       /\ rest' = [rest EXCEPT ![r] = IF raises THEN "error" ELSE "waiting"]
       /\ toDev' = IF sent THEN Append(toDev, r) ELSE toDev
  /\ UNCHANGED <<roster, toHub, published, session, seen, opening, workers, file,
                 ghost, history>>

(* wait_for gives up: 504.                                                 *)
TimeOut(r) ==
  /\ rest[r] = "waiting"
  /\ rest' = [rest EXCEPT ![r] = "timeout"]
  /\ UNCHANGED <<cmd, roster, wire, session, seen, opening, workers, file, ghost,
                 history>>

(* Mutant: an ack settles the oldest request that waits.                   *)
Settles_Oldest(ack, r) ==
  rest[r] = "waiting" /\ \A q \in Requests : rest[q] = "waiting" => r <= q

(* The request an ack settles: the one it names, while it waits.           *)
Settles(ack, r) == ack.request = r /\ rest[r] = "waiting"

(* ControlPlane.on_ack; an ack nobody waits for is an orphan.              *)
OnAck ==
  /\ toHub # <<>>
  /\ toHub' = Tail(toHub)
  /\ rest' = [r \in Requests |->
                IF Settles(Head(toHub), r)
                THEN IF Head(toHub).ok THEN "ok"
                     ELSE IF Head(toHub).fault THEN "fault" ELSE "rejected"
                ELSE rest[r]]
  /\ UNCHANGED <<cmd, roster, toDev, published, session, seen, opening, workers,
                 file, ghost, history>>

(* The registry takes the streams of a status message.                     *)
OnStatus ==
  /\ roster' = published
  /\ UNCHANGED <<cmd, rest, wire, session, seen, opening, workers, file, ghost,
                 history>>

-----------------------------------------------------------------------------
(* The detector's answers.                                                 *)

AckOf(r, ok, kept) == [request |-> r, ok |-> ok, kept |-> kept, fault |-> FALSE]

(* "A fault must still be acked": ok is false, the error an exception.     *)
FaultOf(r) == [request |-> r, ok |-> FALSE, kept |-> FALSE, fault |-> TRUE]

IsSeen(r) == \E i \in DOMAIN seen : seen[i].request = r

(* Mutant: the newest verdict makes room.                                  *)
Remember_Newest(ack) ==
  seen' = IF Len(seen) < SeenLimit THEN Append(seen, ack) ELSE seen

(* _remember: the oldest verdict makes room.                               *)
Remember(ack) ==
  seen' = IF Len(seen) < SeenLimit THEN Append(seen, ack)
          ELSE Append(Tail(seen), ack)

Answer(ack) ==
  /\ toHub' = Append(toHub, ack)
  /\ Remember(ack)

(* Mutant: the list is taken before the change.                            *)
Persist_Before(new, kept) ==
  file' = IF kept
          THEN [s \in Streams |-> IF workers[s].st = "off" THEN Absent ELSE workers[s].conf]
          ELSE file

(* _persist_streams: the whole list is written, or nothing.                *)
Persist(new, kept) ==
  file' = IF kept
          THEN [s \in Streams |-> IF new[s].st = "off" THEN Absent ELSE new[s].conf]
          ELSE file

(* Mutant: a status names the streams whose source is open.                *)
Announce_Open(new) == published' = {s \in Streams : new[s].st = "open"}

(* status_payload: a status names every registered worker, open or not.    *)
Announce(new) == published' = {s \in Streams : new[s].st # "off"}

(* The end of a command that changed the streams to new.                   *)
Applied(r, new) ==
  /\ workers' = new
  /\ Announce(new)
  /\ done' = [done EXCEPT ![r] = @ + 1]
  /\ \E kept \in BOOLEAN :
       /\ Persist(new, kept)
       /\ latest' = [latest EXCEPT ![cmd[r].stream] = [by |-> r, kept |-> kept]]
       /\ Answer(AckOf(r, TRUE, kept))

(* The command raises when the streams are new already: in the write-back, *)
(* with something that persist_streams does not catch, or in the status    *)
(* that follows it.                                                        *)
Faulted(r, new, written) ==
  /\ workers' = new
  /\ Persist(new, written)
  /\ done' = [done EXCEPT ![r] = @ + 1]
  /\ latest' = [latest EXCEPT ![cmd[r].stream] = [by |-> r, kept |-> FALSE]]
  /\ Answer(FaultOf(r))
  /\ UNCHANGED published

Ends(r, new) == Applied(r, new) \/ \E written \in BOOLEAN : Faulted(r, new, written)

(* CommandError: the refusal is acked, nothing else changes.               *)
Refuse(r) ==
  /\ Answer(AckOf(r, FALSE, FALSE))
  /\ UNCHANGED <<published, opening, workers, file, ghost, done, latest>>

(* stop() joins for five seconds: a loop that is stuck in open or read     *)
(* then goes on to the end of its round without its worker.                *)
Stopped(s) ==
  \E stuck \in BOOLEAN :
    ghost' = [ghost EXCEPT ![s] = IF stuck /\ workers[s].st # "dead"
                                  THEN workers[s].frame ELSE @]

SetThreshold(r, s) ==
  IF s \notin Running THEN Refuse(r)
  ELSE /\ Ends(r, [workers EXCEPT ![s].conf = r])
       /\ UNCHANGED <<opening, ghost>>

RemoveStream(r, s) ==
  IF s \notin Running THEN Refuse(r)
  ELSE /\ Ends(r, [workers EXCEPT ![s] = NoWorker])
       /\ Stopped(s)
       /\ UNCHANGED opening

(* The thread of a registered worker cannot be started.                    *)
StartRaises(r, s) ==
  /\ Faulted(r, [workers EXCEPT ![s] = Unstarted(r)], FALSE)
  /\ UNCHANGED <<opening, ghost>>

(* _cmd_add_stream up to its wait: the worker is registered and started.   *)
AddStream(r, s) ==
  IF s \in Running \/ (MaxStreams > 0 /\ Cardinality(Running) >= MaxStreams)
  THEN Refuse(r)
  ELSE \/ /\ workers' = [workers EXCEPT ![s] = Worker(0, r)]
          /\ opening' = r
          /\ UNCHANGED <<toHub, published, seen, file, ghost, done, latest>>
       \/ StartRaises(r, s)

(* ControlHandler.handle of the next command: a request seen before is     *)
(* answered with the verdict it had.                                       *)
Handle ==
  /\ toDev # <<>> /\ opening = NoRequest
  /\ LET r == Head(toDev)
         s == cmd[r].stream
     IN  IF IsSeen(r)
         THEN /\ \E i \in DOMAIN seen : /\ seen[i].request = r
                                       /\ toHub' = Append(toHub, seen[i])
              /\ UNCHANGED <<published, seen, opening, workers, file, ghost, delivered,
                             done, latest>>
         ELSE /\ delivered' = Append(delivered, r)
              /\ \/ cmd[r].op = "set_conf_threshold" /\ SetThreshold(r, s)
                 \/ cmd[r].op = "remove_stream" /\ RemoveStream(r, s)
                 \/ cmd[r].op = "add_stream" /\ AddStream(r, s)
  /\ toDev' = Tail(toDev)
  /\ UNCHANGED <<rpc, session, retries, lastFrame>>

(* wait_until_open returns: the source has produced a frame.               *)
AddOpened ==
  /\ opening # NoRequest
  /\ workers[cmd[opening].stream].st = "open"
  /\ Ends(opening, workers)
  /\ opening' = NoRequest
  /\ UNCHANGED <<rpc, toDev, session, ghost, delivered, retries, lastFrame>>

(* Mutant: a stream that did not open stays behind.                        *)
Withdrawn_Kept(s) == workers

(* A worker that did not open is taken back.                               *)
Withdrawn(s) == [workers EXCEPT ![s] = NoWorker]

(* It runs out, or the source fails for good.                              *)
AddFails ==
  /\ opening # NoRequest
  /\ LET s == cmd[opening].stream
     IN  /\ workers[s].st = "opening"
         /\ workers' = Withdrawn(s)
         /\ Stopped(s)
  /\ Answer(AckOf(opening, FALSE, FALSE))
  /\ opening' = NoRequest
  /\ UNCHANGED <<rpc, toDev, published, session, file, delivered, retries, done,
                 latest, lastFrame>>

-----------------------------------------------------------------------------
(* Capture loops, heartbeats, and what may go wrong.                       *)

(* StreamWorker._run: the source produces its first frame, or a further    *)
(* one; build_payload numbers it.                                          *)
Capture(s) ==
  /\ workers[s].st \in {"opening", "open"} /\ workers[s].frame < MaxFrames
  /\ workers' = [workers EXCEPT ![s].st = "open", ![s].frame = @ + 1]
  /\ lastFrame' = [lastFrame EXCEPT ![s] = workers[s].frame + 1]
  /\ UNCHANGED <<rpc, wire, session, seen, opening, file, ghost, delivered,
                 retries, done, latest>>

(* A stopped loop ends, with or without publishing the frame it was at.    *)
GhostEnds(s) ==
  /\ ghost[s] # Absent
  /\ ghost' = [ghost EXCEPT ![s] = Absent]
  /\ lastFrame' \in {lastFrame, [lastFrame EXCEPT ![s] = ghost[s] + 1]}
  /\ UNCHANGED <<rpc, wire, session, seen, opening, workers, file, delivered,
                 retries, done, latest>>

(* The status heartbeat.                                                   *)
Heartbeat ==
  /\ Announce(workers)
  /\ UNCHANGED <<rpc, toDev, toHub, session, seen, opening, workers, file, ghost,
                 history>>

(* QoS1 delivers one of the latest commands again.                         *)
Redeliver ==
  /\ retries < MaxRetries
  /\ \E i \in DOMAIN delivered :
       /\ i > Len(delivered) - RetryWindow
       /\ toDev' = <<delivered[i]>> \o toDev
  /\ retries' = retries + 1
  /\ UNCHANGED <<rpc, toHub, published, session, seen, opening, workers, file,
                 ghost, delivered, done, latest, lastFrame>>

(* The process dies and starts again under a new session: what was on its  *)
(* way to it is gone, an ack it had not handed over too.                   *)
Restart ==
  /\ session < MaxSessions
  /\ session' = session + 1
  /\ toDev' = <<>> /\ toHub' \in {toHub, <<>>}
  /\ seen' = <<>> /\ opening' = NoRequest
  /\ workers' = FromFile(file)
  /\ Announce(FromFile(file))
  /\ ghost' = [s \in Streams |-> Absent]
  /\ delivered' = <<>>
  /\ lastFrame' = [s \in Streams |-> 0]
  /\ UNCHANGED <<rpc, file, retries, done, latest>>

Next ==
  \/ \E r \in Requests : (\E c \in Commands : Send(r, c)) \/ TimeOut(r)
  \/ OnAck \/ OnStatus
  \/ Handle \/ AddOpened \/ AddFails
  \/ \E s \in Streams : Capture(s) \/ GhostEnds(s)
  \/ Heartbeat \/ Redeliver \/ Restart

Spec == Init /\ [][Next]_vars

(* wait_for ends, the MQTT threads on both sides run, an add waits for     *)
(* OPEN_TIMEOUT_S at most, and the status is sent at an interval.  Nothing *)
(* is assumed of the sources, nor that a message is sent.                  *)
FairSpec ==
  /\ Spec
  /\ \A r \in Requests : WF_vars(TimeOut(r))
  /\ WF_vars(OnAck) /\ WF_vars(OnStatus)
  /\ WF_vars(Handle) /\ WF_vars(AddOpened \/ AddFails) /\ WF_vars(Heartbeat)

-----------------------------------------------------------------------------
(* Properties.                                                             *)

Acks == [request : Requests, ok : BOOLEAN, kept : BOOLEAN, fault : BOOLEAN]

(* Every variable has its type; the detector remembers no more verdicts    *)
(* than SeenLimit, and only an add of a registered stream is waited for.   *)
TypeOK ==
  /\ cmd \in [Requests -> Commands \cup {NoCommand}]
  /\ rest \in [Requests -> {"unsent", "waiting", "ok", "rejected", "fault", "timeout",
                       "error"}]
  /\ roster \subseteq Streams /\ published \subseteq Streams
  /\ toDev \in Seq(Requests) /\ toHub \in Seq(Acks) /\ delivered \in Seq(Requests)
  /\ session \in 1..MaxSessions /\ retries \in 0..MaxRetries
  /\ seen \in Seq(Acks) /\ Len(seen) <= SeenLimit
  /\ opening # NoRequest => cmd[opening].stream \in Running
  /\ workers \in [Streams -> [st : {"off", "opening", "open", "dead"}, by : Requests \cup {0},
                              conf : Requests \cup {0}, frame : 0..MaxFrames]]
  /\ file \in [Streams -> Requests \cup {0, Absent}]
  /\ ghost \in [Streams -> {Absent} \cup 0..MaxFrames]
  /\ done \in [Requests -> Nat]
  /\ latest \in [Streams -> [by : Requests \cup {0}, kept : BOOLEAN]]
  /\ lastFrame \in [Streams -> 0..MaxFrames + 1]

(* A REST caller who is told 200 has a change that is in force, and one    *)
(* who is told 409 with the reason of a refusal has changed nothing,       *)
(* whatever was sent, delivered again or answered late in between          *)
(* (control.py send, on_ack).  A 409 with the text of an exception says    *)
(* nothing of the device: the change may be in force (Faulted).            *)
OutcomeIsTrue ==
  \A r \in Requests : /\ rest[r] = "ok" => done[r] > 0
                      /\ rest[r] = "rejected" => done[r] = 0

(* A command that QoS1 delivers again is not applied again, a fault or not *)
(* (ControlHandler._seen).                                                 *)
AppliedOnce == \A r \in Requests : done[r] <= 1

(* An add that was refused or did not open leaves no capture loop in the   *)
(* registry: none tries for ever to open a camera nobody was given.  One   *)
(* that met a fault stays, and runs if its source had opened.              *)
NoOrphanStreams ==
  \A s \in Streams : workers[s].by # NoRequest => rest[workers[s].by] # "rejected"

(* A change whose ack said persisted is what a start finds, at any moment  *)
(* until the next change of the same stream, whatever is done to other     *)
(* streams, persisted or not, and through restarts.                        *)
PersistedHolds ==
  \A s \in Targets : latest[s].kept =>
    LET found == FromFile(file)[s]
        r == latest[s].by
    IN  IF cmd[r].op = "remove_stream" THEN found.st = "off"
        ELSE /\ found.st # "off"
             /\ found.conf = IF cmd[r].op = "add_stream" THEN 0 ELSE r

(* Once the commands are over, the hub's registry comes to hold the        *)
(* streams the detector runs: what a call that ended in 504 did to the     *)
(* device is learned from the status.                                      *)
RosterFollows == <>[](roster = Running)

(* What contracts/MQTT.md:247 says of publishers: within a session the     *)
(* frame ids of a stream increase.                                         *)
FrameIdsIncrease ==
  [][session' = session =>
       \A s \in Streams : lastFrame'[s] >= lastFrame[s]]_vars
=============================================================================
