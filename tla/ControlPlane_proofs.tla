------------------------- MODULE ControlPlane_proofs -------------------------
(***************************************************************************)
(* Proofs about ControlPlane for every set of requests and streams and     *)
(* every bound: what was persisted is found again, where no command is     *)
(* about the default stream (a start that finds an empty list runs that    *)
(* one whatever was persisted); every variable has its type; and the       *)
(* verdicts of commands are true.                                          *)
(***************************************************************************)
EXTENDS ControlPlane, SequenceTheorems, TLAPS

(* The requests whose REST call has gone on to send.                       *)
Sent == {r \in Requests : rest[r] # "unsent"}

Phase == {"unsent", "waiting", "ok", "rejected", "fault", "timeout", "error"}

WorkerRecord == [st : {"off", "opening", "open", "dead"}, conf : Requests \cup {0},
                 by : Requests \cup {0}, frame : Nat]

(* The entry of the file's list that a stream has after a change of it,    *)
(* and the one its worker has.                                             *)
Entry(r) == IF cmd[r].op = "remove_stream" THEN Absent
            ELSE IF cmd[r].op = "add_stream" THEN 0 ELSE r
Listed(ws, s) == IF ws[s].st = "off" THEN Absent ELSE ws[s].conf

BeingAdded(s) == opening # NoRequest /\ cmd[opening].stream = s

Messages ==
  /\ cmd \in [Requests -> Commands \cup {NoCommand}] /\ rest \in [Requests -> Phase]
  /\ \A r \in Sent : cmd[r] \in Commands
  /\ toDev \in Seq(Sent) /\ delivered \in Seq(Sent)
  /\ opening # NoRequest => opening \in Sent /\ cmd[opening].op = "add_stream"

Registry ==
  /\ workers \in [Streams -> WorkerRecord]
  /\ file \in [Streams -> Requests \cup {0, Absent}]
  /\ latest \in [Streams -> [by : Requests \cup {0}, kept : BOOLEAN]]
  /\ \A s \in Streams : BeingAdded(s) => Listed(workers, s) = 0

(* What was persisted last is in the file, and in the registry unless an   *)
(* add goes on, which follows a removal.                                   *)
KeptAgrees ==
  \A s \in Targets : latest[s].kept =>
    /\ latest[s].by \in Sent
    /\ file[s] = Entry(latest[s].by)
    /\ IF BeingAdded(s) THEN Entry(latest[s].by) = Absent
       ELSE Listed(workers, s) = Entry(latest[s].by)

ControlInv == Messages /\ Registry /\ KeptAgrees

(* An entry of the list is a request or none, and none after a removal.    *)
LEMMA Entries ==
  ASSUME ControlAssumption, NEW r \in Requests
  PROVE  /\ Entry(r) \in Requests \cup {0, Absent}
         /\ Entry(r) = Absent <=> cmd[r].op = "remove_stream"
  BY DEF ControlAssumption, Entry, Absent

(* The worker of a start or an add, and no worker.                         *)
LEMMA NoWorkerRecord ==
  /\ NoWorker \in WorkerRecord /\ NoWorker.st = "off"
  /\ \A c \in Requests \cup {0}, r \in Requests \cup {0} :
       Worker(c, r) \in WorkerRecord /\ Worker(c, r).st = "opening" /\ Worker(c, r).conf = c
  BY DEF NoWorker, Worker, WorkerRecord, NoRequest

(* The worker of an add whose thread cannot be started.                    *)
LEMMA UnstartedRecord ==
  ASSUME NEW r \in Requests
  PROVE  Unstarted(r) \in WorkerRecord /\ Unstarted(r).st = "dead" /\ Unstarted(r).conf = 0
         /\ Unstarted(r).by = r
  BY DEF Unstarted, WorkerRecord

(* A command that changed the streams ends with a verdict about it; what   *)
(* is told to be persisted was written.                                    *)
LEMMA EndsFacts ==
  ASSUME NEW r \in Requests, NEW new, Ends(r, new)
  PROVE  /\ workers' = new /\ done' = [done EXCEPT ![r] = @ + 1]
         /\ published' = published \/ Announce(new)
         /\ \E kept, written \in BOOLEAN :
              /\ kept => written
              /\ Persist(new, written)
              /\ latest' = [latest EXCEPT ![cmd[r].stream] = [by |-> r, kept |-> kept]]
         /\ \E ack \in Acks : /\ ack.request = r /\ (ack.ok \/ ack.fault)
                             /\ Answer(ack)
<1>1. CASE Applied(r, new)
  <2>1. PICK kept \in BOOLEAN :
          /\ Persist(new, kept)
          /\ latest' = [latest EXCEPT ![cmd[r].stream] = [by |-> r, kept |-> kept]]
          /\ Answer(AckOf(r, TRUE, kept))
    BY <1>1 DEF Applied
  <2>2. AckOf(r, TRUE, kept) \in Acks /\ AckOf(r, TRUE, kept).request = r
        /\ AckOf(r, TRUE, kept).ok = TRUE
    BY DEF AckOf, Acks
  <2>3. workers' = new /\ Announce(new) /\ done' = [done EXCEPT ![r] = @ + 1]
    BY <1>1 DEF Applied
  <2> QED BY <2>1, <2>2, <2>3
<1>2. CASE \E written \in BOOLEAN : Faulted(r, new, written)
  <2>1. PICK written \in BOOLEAN : Faulted(r, new, written)
    BY <1>2
  <2>2. FaultOf(r) \in Acks /\ FaultOf(r).request = r /\ FaultOf(r).fault = TRUE
    BY DEF FaultOf, Acks
  <2> QED BY <2>1, <2>2 DEF Faulted
<1> QED BY <1>1, <1>2 DEF Ends

(* A refusal is told as one.                                               *)
LEMMA Refusal ==
  ASSUME NEW r \in Requests
  PROVE  AckOf(r, FALSE, FALSE) \in Acks /\ AckOf(r, FALSE, FALSE).request = r
         /\ AckOf(r, FALSE, FALSE).ok = FALSE /\ AckOf(r, FALSE, FALSE).fault = FALSE
  BY DEF AckOf, Acks

(* A start finds what the list says of every stream but the default.       *)
LEMMA StartFinds ==
  ASSUME ControlAssumption, Registry
  PROVE  /\ FromFile(file) \in [Streams -> WorkerRecord]
         /\ \A s \in Streams : s # Default => Listed(FromFile(file), s) = file[s]
<1> DEFINE conf(s) == IF file[s] = Absent THEN 0 ELSE file[s]
<1>1. \A s \in Streams : conf(s) \in Requests \cup {0}
  BY DEF Registry
<1>2. ASSUME NEW s \in Streams
      PROVE  FromFile(file)[s] = IF s \in Configured(file)
                                 THEN Worker(conf(s), NoRequest) ELSE NoWorker
  BY DEF FromFile
<1>3. ASSUME NEW s \in Streams
      PROVE  FromFile(file)[s] \in WorkerRecord
  <2>1. Worker(conf(s), NoRequest) \in WorkerRecord
    BY <1>1, NoWorkerRecord DEF NoRequest
  <2> QED BY <1>2, <2>1, NoWorkerRecord
<1>4. FromFile(file) \in [Streams -> WorkerRecord]
  BY <1>3 DEF FromFile
<1>5. ASSUME NEW s \in Streams, s # Default
      PROVE  Listed(FromFile(file), s) = file[s]
  <2>1. s \in Configured(file) <=> file[s] # Absent
    BY <1>5 DEF Configured
  <2>2. CASE file[s] = Absent
    BY <1>2, <2>1, <2>2, NoWorkerRecord DEF Listed
  <2>3. CASE file[s] # Absent
    <3>1. FromFile(file)[s] = Worker(conf(s), NoRequest) /\ conf(s) = file[s]
      BY <1>2, <2>1, <2>3
    <3>2. Worker(conf(s), NoRequest).st = "opening"
          /\ Worker(conf(s), NoRequest).conf = conf(s)
      BY <1>1, NoWorkerRecord DEF NoRequest
    <3> QED BY <3>1, <3>2 DEF Listed
  <2> QED BY <2>2, <2>3
<1> QED BY <1>4, <1>5

(* The invariant says what a start finds.                                  *)
LEMMA InvGivesPersisted ==
  ASSUME ControlAssumption, Default \notin Targets, ControlInv
  PROVE  PersistedHolds
<1> SUFFICES ASSUME NEW s \in Targets, latest[s].kept
             PROVE  LET found == FromFile(file)[s]
                        r == latest[s].by
                    IN  IF cmd[r].op = "remove_stream" THEN found.st = "off"
                        ELSE /\ found.st # "off"
                             /\ found.conf = IF cmd[r].op = "add_stream" THEN 0 ELSE r
  BY DEF PersistedHolds
<1>1. s \in Streams /\ s # Default
  BY DEF ControlAssumption
<1>2. Listed(FromFile(file), s) = Entry(latest[s].by) /\ latest[s].by \in Requests
  BY <1>1, StartFinds DEF ControlInv, KeptAgrees, Sent
<1>3. FromFile(file)[s] \in WorkerRecord
  BY <1>1, StartFinds DEF ControlInv
<1>4. FromFile(file)[s].conf # Absent
  BY <1>3 DEF WorkerRecord, ControlAssumption, Absent
<1>5. Entry(latest[s].by) = Absent <=> cmd[latest[s].by].op = "remove_stream"
  BY <1>2, Entries
<1> QED BY <1>2, <1>4, <1>5 DEF Listed, Entry

LEMMA InitControlInv ==
  ASSUME ControlAssumption, Init
  PROVE  ControlInv
<1>1. Messages
  <2>1. Sent = {}
    BY DEF Init, Sent
  <2>2. toDev \in Seq(Sent) /\ delivered \in Seq(Sent)
    BY EmptySeq DEF Init
  <2>3. cmd \in [Requests -> Commands \cup {NoCommand}] /\ rest \in [Requests -> Phase]
    BY DEF Init, Phase
  <2>4. opening = NoRequest
    BY DEF Init
  <2> QED BY <2>1, <2>2, <2>3, <2>4 DEF Messages
<1>2. file \in [Streams -> Requests \cup {0, Absent}]
  BY DEF Init
<1>3. workers \in [Streams -> WorkerRecord]
  <2>1. \A s \in Streams : (IF file[s] = Absent THEN 0 ELSE file[s]) = 0
    BY DEF Init
  <2>2. \A s \in Streams : FromFile(file)[s] \in {NoWorker, Worker(0, NoRequest)}
    BY <2>1 DEF FromFile
  <2>3. \A s \in Streams : FromFile(file)[s] \in WorkerRecord
    BY <2>2, NoWorkerRecord DEF NoRequest
  <2> QED BY <2>3 DEF Init, FromFile
<1>4. \A s \in Streams : latest[s] = NoChange
  BY DEF Init
<1>5. latest \in [Streams -> [by : Requests \cup {0}, kept : BOOLEAN]]
  BY DEF Init, NoChange, NoRequest
<1>6. Registry
  BY <1>2, <1>3, <1>5 DEF Init, Registry, BeingAdded
<1>7. KeptAgrees
  BY <1>4 DEF KeptAgrees, NoChange, ControlAssumption
<1> QED BY <1>1, <1>6, <1>7 DEF ControlInv

(* A step that leaves requests, registry and file alone and sends only     *)
(* what was sent before.                                                   *)
LEMMA MessagesMove ==
  ASSUME ControlInv, UNCHANGED <<cmd, opening, workers, file, latest>>,
         rest' \in [Requests -> Phase], Sent' = Sent,
         toDev' \in Seq(Sent), delivered' \in Seq(Sent)
  PROVE  ControlInv'
  BY DEF ControlInv, Messages, Registry, KeptAgrees, Entry, Listed, BeingAdded

(* The end of a command, or of the add that was waited for: its stream has *)
(* the entry the command asks for, the other streams are as before.        *)
LEMMA EndsKeeps ==
  ASSUME ControlAssumption, ControlInv, NEW r \in Sent,
         NEW new \in [Streams -> WorkerRecord], Ends(r, new),
         opening = NoRequest \/ opening = r, opening' = NoRequest,
         \A s \in Streams : s # cmd[r].stream => new[s] = workers[s],
         Listed(new, cmd[r].stream) = Entry(r),
         UNCHANGED <<cmd, rest>>, toDev' \in Seq(Sent), delivered' \in Seq(Sent)
  PROVE  ControlInv'
<1> DEFINE s0 == cmd[r].stream
<1>0. r \in Requests /\ s0 \in Streams
  BY DEF ControlInv, Messages, Sent, Commands, ControlAssumption
<1>1. PICK kept \in BOOLEAN, written \in BOOLEAN :
        /\ kept => written
        /\ Persist(new, written)
        /\ latest' = [latest EXCEPT ![s0] = [by |-> r, kept |-> kept]]
  BY <1>0, EndsFacts
<1>2. workers' = new
  BY <1>0, EndsFacts
<1>3. /\ latest'[s0] = [by |-> r, kept |-> kept]
      /\ \A s \in Streams : s # s0 => latest'[s] = latest[s]
      /\ latest' \in [Streams -> [by : Requests \cup {0}, kept : BOOLEAN]]
  BY <1>0, <1>1 DEF ControlInv, Registry
<1>4. \A s \in Streams : Listed(new, s) \in Requests \cup {0, Absent}
  BY DEF Listed, WorkerRecord
<1>5. file' = IF written THEN [s \in Streams |-> Listed(new, s)] ELSE file
  BY <1>1 DEF Persist, Listed
<1>6. file' \in [Streams -> Requests \cup {0, Absent}]
  BY <1>4, <1>5 DEF ControlInv, Registry
<1>7. \A s \in Streams : ~BeingAdded(s)'
  BY DEF BeingAdded
<1>8. Messages'
  BY DEF ControlInv, Messages, Sent
<1>9. Registry'
  BY <1>2, <1>3, <1>6, <1>7 DEF Registry
<1>10. ASSUME NEW s \in Targets, latest'[s].kept
       PROVE  /\ latest'[s].by \in Sent
              /\ file'[s] = Entry(latest'[s].by)
              /\ Listed(new, s) = Entry(latest'[s].by)
  <2>1. s \in Streams
    BY DEF ControlAssumption
  <2>2. CASE s = s0
    BY <1>1, <1>3, <1>5, <1>10, <2>1, <2>2
  <2>3. CASE s # s0
    <3>1. latest'[s] = latest[s] /\ new[s] = workers[s] /\ ~BeingAdded(s)
      BY <1>3, <2>1, <2>3 DEF BeingAdded
    <3>2. /\ latest[s].by \in Sent /\ file[s] = Entry(latest[s].by)
          /\ Listed(workers, s) = Entry(latest[s].by)
      BY <1>10, <3>1 DEF ControlInv, KeptAgrees
    <3>3. Listed(new, s) = Listed(workers, s)
      BY <3>1 DEF Listed
    <3> QED BY <1>5, <2>1, <3>1, <3>2, <3>3
  <2> QED BY <2>2, <2>3
<1>11. \A q \in Requests : Entry(q)' = Entry(q)
  BY DEF Entry
<1>12. Sent' = Sent /\ Sent \subseteq Requests
  BY DEF Sent
<1>13. \A s \in Streams : Listed(workers, s)' = Listed(new, s)
  BY <1>2 DEF Listed
<1>14. KeptAgrees'
  <2> SUFFICES ASSUME NEW s \in Targets, latest'[s].kept
               PROVE  /\ latest'[s].by \in Sent'
                      /\ file'[s] = Entry(latest[s].by)'
                      /\ Listed(workers, s)' = Entry(latest[s].by)'
    BY <1>7 DEF KeptAgrees, ControlAssumption
  <2>1. s \in Streams
    BY DEF ControlAssumption
  <2>2. Entry(latest[s].by)' = Entry(latest'[s].by)
    BY DEF Entry
  <2> QED BY <1>10, <1>12, <1>13, <2>1, <2>2
<1> QED BY <1>8, <1>9, <1>14 DEF ControlInv

(* Nothing is persisted and no change is told of: the registry moves in a  *)
(* way the list does not show, or by the add that goes on.                 *)
LEMMA RegistryMoves ==
  ASSUME ControlAssumption, ControlInv, UNCHANGED <<cmd, rest, file, latest>>,
         toDev' \in Seq(Sent), delivered' \in Seq(Sent),
         opening' # NoRequest => opening' \in Sent /\ cmd[opening'].op = "add_stream",
         workers' \in [Streams -> WorkerRecord],
         \A s \in Streams : BeingAdded(s)' => Listed(workers, s)' = 0,
         \A s \in Streams :
           \/ (BeingAdded(s)' <=> BeingAdded(s)) /\ Listed(workers, s)' = Listed(workers, s)
           \/ BeingAdded(s)' /\ ~BeingAdded(s) /\ Listed(workers, s) = Absent
           \/ ~BeingAdded(s)' /\ BeingAdded(s) /\ Listed(workers, s)' = Absent
           \/ ~BeingAdded(s)' /\ s \in Targets /\ Listed(workers, s)' = file[s]
           \/ ~BeingAdded(s)' /\ s \notin Targets
  PROVE  ControlInv'
<1>1. Sent' = Sent
  BY DEF Sent
<1>2. Messages'
  BY <1>1 DEF ControlInv, Messages
<1>3. Registry'
  BY DEF ControlInv, Registry
<1>4. KeptAgrees'
  <2> SUFFICES ASSUME NEW s \in Targets, latest[s].kept
               PROVE  /\ latest[s].by \in Sent
                      /\ file[s] = Entry(latest[s].by)
                      /\ IF BeingAdded(s)' THEN Entry(latest[s].by) = Absent
                         ELSE Listed(workers, s)' = Entry(latest[s].by)
    BY <1>1 DEF KeptAgrees, Entry
  <2>1. s \in Streams
    BY DEF ControlAssumption
  <2>2. /\ latest[s].by \in Sent
        /\ file[s] = Entry(latest[s].by)
        /\ IF BeingAdded(s) THEN Entry(latest[s].by) = Absent
           ELSE Listed(workers, s) = Entry(latest[s].by)
    BY DEF ControlInv, KeptAgrees
  <2> QED BY <2>1, <2>2
<1> QED BY <1>2, <1>3, <1>4 DEF ControlInv

-----------------------------------------------------------------------------
(* The hub's answers, the heartbeat, deliveries and loops that end late.   *)
LEMMA HubKeeps ==
  ASSUME ControlAssumption, ControlInv,
         \/ \E r \in Requests : TimeOut(r)
         \/ OnAck \/ OnStatus \/ Heartbeat \/ Redeliver
         \/ \E s \in Streams : GhostEnds(s)
  PROVE  ControlInv'
<1>0. rest \in [Requests -> Phase] /\ toDev \in Seq(Sent) /\ delivered \in Seq(Sent)
  BY DEF ControlInv, Messages
<1>1. CASE \E r \in Requests : TimeOut(r)
  <2>1. PICK r \in Requests :
          rest[r] = "waiting" /\ rest' = [rest EXCEPT ![r] = "timeout"]
    BY <1>1 DEF TimeOut
  <2>2. rest' \in [Requests -> Phase] /\ Sent' = Sent
    BY <1>0, <2>1 DEF Sent, Phase
  <2> QED BY <1>0, <1>1, <2>2, MessagesMove DEF TimeOut, wire, history
<1>2. CASE OnAck
  <2>1. rest' = [r \in Requests |->
                   IF Settles(Head(toHub), r)
                   THEN IF Head(toHub).ok THEN "ok"
                        ELSE IF Head(toHub).fault THEN "fault" ELSE "rejected"
                   ELSE rest[r]]
    BY <1>2 DEF OnAck
  <2>2. rest' \in [Requests -> Phase] /\ Sent' = Sent
    BY <1>0, <2>1 DEF Sent, Settles, Phase
  <2>3. UNCHANGED <<cmd, opening, workers, file, latest, toDev, delivered>>
    BY <1>2 DEF OnAck, history
  <2> QED BY <1>0, <2>2, <2>3, MessagesMove
<1>3. CASE OnStatus \/ Heartbeat \/ \E s \in Streams : GhostEnds(s)
  <2>1. UNCHANGED <<cmd, rest, opening, workers, file, latest, toDev, delivered>>
    BY <1>3 DEF OnStatus, Heartbeat, GhostEnds, rpc, wire, history
  <2> QED BY <1>0, <2>1, MessagesMove DEF Sent
<1>4. CASE Redeliver
  <2>1. PICK i \in DOMAIN delivered : toDev' = <<delivered[i]>> \o toDev
    BY <1>4 DEF Redeliver
  <2>2. delivered[i] \in Sent
    BY <1>0, <2>1
  <2>3. toDev' \in Seq(Sent)
    BY <1>0, <2>1, <2>2
  <2>4. UNCHANGED <<cmd, rest, opening, workers, file, latest, delivered>>
    BY <1>4 DEF Redeliver, rpc
  <2> QED BY <1>0, <2>3, <2>4, MessagesMove DEF Sent
<1> QED BY <1>1, <1>2, <1>3, <1>4

(* A new command goes on its way.                                          *)
LEMMA SendMessages ==
  ASSUME Messages, NEW r \in Requests, NEW c \in Commands, Send(r, c)
  PROVE  Messages'
<1>1. /\ rest[r] = "unsent" /\ cmd' = [cmd EXCEPT ![r] = c]
      /\ opening' = opening /\ delivered' = delivered
  BY DEF Send, history
<1>2. PICK raises \in BOOLEAN, sent \in BOOLEAN :
        /\ rest' = [rest EXCEPT ![r] = IF raises THEN "error" ELSE "waiting"]
        /\ toDev' = IF sent THEN Append(toDev, r) ELSE toDev
  BY DEF Send
<1>3. /\ cmd \in [Requests -> Commands \cup {NoCommand}] /\ rest \in [Requests -> Phase]
      /\ toDev \in Seq(Sent) /\ delivered \in Seq(Sent)
      /\ \A q \in Sent : cmd[q] \in Commands
      /\ opening # NoRequest => opening \in Sent /\ cmd[opening].op = "add_stream"
  BY DEF Messages
<1>4. Sent' = Sent \cup {r} /\ r \notin Sent /\ Sent \subseteq Requests
  BY <1>1, <1>2, <1>3 DEF Sent
<1>5. \A q \in Sent : cmd'[q] = cmd[q]
  BY <1>1, <1>3, <1>4
<1>6. toDev \in Seq(Sent') /\ delivered' \in Seq(Sent')
  BY <1>1, <1>3, <1>4, SeqMonotonic
<1>7. toDev' \in Seq(Sent')
  BY <1>2, <1>4, <1>6, AppendProperties
<1>8. cmd' \in [Requests -> Commands \cup {NoCommand}]
  BY <1>1, <1>3
<1>9. rest' \in [Requests -> Phase]
  BY <1>2, <1>3 DEF Phase
<1>10. \A q \in Sent' : cmd'[q] \in Commands
  BY <1>1, <1>3, <1>4, <1>5
<1> QED BY <1>1, <1>3, <1>4, <1>5, <1>6, <1>7, <1>8, <1>9, <1>10 DEF Messages

(* A new command: no message and no entry speaks of it yet.                *)
LEMMA SendKeeps ==
  ASSUME ControlAssumption, ControlInv, NEW r \in Requests, NEW c \in Commands, Send(r, c)
  PROVE  ControlInv'
<1>1. /\ rest[r] = "unsent" /\ cmd' = [cmd EXCEPT ![r] = c]
      /\ UNCHANGED <<opening, workers, file, latest, delivered>>
  BY DEF Send, history
<1>2. PICK raises \in BOOLEAN, sent \in BOOLEAN :
        /\ rest' = [rest EXCEPT ![r] = IF raises THEN "error" ELSE "waiting"]
        /\ toDev' = IF sent THEN Append(toDev, r) ELSE toDev
  BY DEF Send
<1>3. /\ cmd \in [Requests -> Commands \cup {NoCommand}] /\ rest \in [Requests -> Phase]
      /\ toDev \in Seq(Sent) /\ delivered \in Seq(Sent)
      /\ \A q \in Sent : cmd[q] \in Commands
      /\ opening # NoRequest => opening \in Sent /\ cmd[opening].op = "add_stream"
  BY DEF ControlInv, Messages
<1>4. Sent' = Sent \cup {r} /\ r \notin Sent /\ Sent \subseteq Requests
  BY <1>1, <1>2, <1>3 DEF Sent
<1>5. \A q \in Sent : cmd'[q] = cmd[q]
  BY <1>1, <1>3, <1>4
<1>6. Messages'
  BY SendMessages DEF ControlInv
<1>7. \A s \in Streams : BeingAdded(s)' <=> BeingAdded(s)
  BY <1>1, <1>3, <1>5 DEF BeingAdded
<1>8. Registry'
  BY <1>1, <1>7 DEF ControlInv, Registry, Listed
<1>9. KeptAgrees'
  <2> SUFFICES ASSUME NEW s \in Targets, latest[s].kept
               PROVE  /\ latest[s].by \in Sent'
                      /\ file[s] = Entry(latest[s].by)'
                      /\ IF BeingAdded(s)' THEN Entry(latest[s].by)' = Absent
                         ELSE Listed(workers, s) = Entry(latest[s].by)'
    BY <1>1 DEF KeptAgrees, Listed
  <2>1. s \in Streams
    BY DEF ControlAssumption
  <2>2. latest[s].by \in Sent
    BY DEF ControlInv, KeptAgrees
  <2>3. Entry(latest[s].by)' = Entry(latest[s].by)
    BY <1>1, <1>5, <2>2 DEF Entry
  <2> QED BY <1>4, <1>7, <2>1, <2>2, <2>3 DEF ControlInv, KeptAgrees
<1> QED BY <1>6, <1>8, <1>9 DEF ControlInv

(* One field of a worker changes.                                          *)
LEMMA WorkerUpdates ==
  ASSUME NEW w \in WorkerRecord
  PROVE  /\ \A q \in Requests \cup {0} : [w EXCEPT !.conf = q] \in WorkerRecord
         /\ \A q \in Requests \cup {0} : [w EXCEPT !.conf = q].conf = q
         /\ \A q \in Requests \cup {0} : [w EXCEPT !.conf = q].st = w.st
         /\ [w EXCEPT !.st = "open"] \in WorkerRecord
         /\ [w EXCEPT !.st = "open"].st = "open"
         /\ [w EXCEPT !.st = "open"].conf = w.conf
         /\ [w EXCEPT !.st = "open"].frame = w.frame
         /\ \A n \in Nat : [w EXCEPT !.frame = n] \in WorkerRecord
         /\ \A n \in Nat : [w EXCEPT !.frame = n].st = w.st
         /\ \A n \in Nat : [w EXCEPT !.frame = n].conf = w.conf
  BY DEF WorkerRecord

(* The detector handles a command.                                         *)
LEMMA HandleKeeps ==
  ASSUME ControlAssumption, ControlInv, Handle
  PROVE  ControlInv'
<1> DEFINE r == Head(toDev)
           s == cmd[r].stream
<1>1. /\ toDev # <<>> /\ opening = NoRequest
      /\ toDev' = Tail(toDev) /\ UNCHANGED <<cmd, rest>>
      /\ delivered' = delivered \/ delivered' = Append(delivered, r)
  <2>1. CASE IsSeen(r)
    BY <2>1 DEF Handle, rpc
  <2>2. CASE ~IsSeen(r)
    BY <2>2 DEF Handle, rpc
  <2> QED BY <2>1, <2>2
<1>2. r \in Sent /\ toDev' \in Seq(Sent) /\ delivered' \in Seq(Sent)
  <2>1. toDev \in Seq(Sent) /\ delivered \in Seq(Sent)
    BY DEF ControlInv, Messages
  <2>2. r \in Sent /\ Tail(toDev) \in Seq(Sent)
    BY <1>1, <2>1, HeadTailProperties
  <2>3. Append(delivered, r) \in Seq(Sent)
    BY <2>1, <2>2, AppendProperties
  <2> QED BY <1>1, <2>1, <2>2, <2>3
<1>3. /\ r \in Requests /\ cmd[r] \in Commands /\ s \in Targets /\ s \in Streams
  BY <1>2 DEF ControlInv, Messages, Sent, Commands, ControlAssumption
<1>4. Sent' = Sent /\ rest' \in [Requests -> Phase]
  BY <1>1 DEF Sent, ControlInv, Messages
<1>5. workers \in [Streams -> WorkerRecord] /\ \A t \in Streams : ~BeingAdded(t)
  BY <1>1 DEF ControlInv, Registry, BeingAdded
<1>6. \/ UNCHANGED <<opening, workers, file, latest>>
      \/ cmd[r].op = "set_conf_threshold" /\ SetThreshold(r, s)
      \/ cmd[r].op = "remove_stream" /\ RemoveStream(r, s)
      \/ cmd[r].op = "add_stream" /\ AddStream(r, s)
  BY DEF Handle
<1> HIDE DEF r
<1>7. CASE UNCHANGED <<opening, workers, file, latest>>
  BY <1>1, <1>2, <1>4, <1>7, MessagesMove
<1>8. CASE Refuse(r)
  BY <1>1, <1>2, <1>4, <1>8, MessagesMove DEF Refuse
<1>9. CASE cmd[r].op = "set_conf_threshold" /\ SetThreshold(r, s) /\ s \in Running
  <2> DEFINE w == [workers[s] EXCEPT !.conf = r]
             new == [workers EXCEPT ![s] = w]
  <2>1. Ends(r, new) /\ opening' = NoRequest
    BY <1>1, <1>9 DEF SetThreshold
  <2>2. workers[s] \in WorkerRecord /\ r \in Requests \cup {0}
    BY <1>3, <1>5
  <2>3. w \in WorkerRecord /\ w.conf = r /\ w.st = workers[s].st
    BY <2>2, WorkerUpdates
  <2>4. workers[s].st # "off"
    BY <1>9 DEF Running
  <2> HIDE DEF w
  <2>5. new \in [Streams -> WorkerRecord] /\ new[s] = w
    BY <1>3, <1>5, <2>3
  <2>6. \A t \in Streams : t # s => new[t] = workers[t]
    BY <1>5
  <2>7. Listed(new, s) = Entry(r)
    BY <1>9, <2>3, <2>4, <2>5 DEF Listed, Entry
  <2> HIDE DEF new
  <2> QED BY <1>1, <1>2, <2>1, <2>5, <2>6, <2>7, EndsKeeps
<1>10. CASE cmd[r].op = "remove_stream" /\ RemoveStream(r, s) /\ s \in Running
  <2> DEFINE new == [workers EXCEPT ![s] = NoWorker]
  <2>1. Ends(r, new) /\ opening' = NoRequest
    BY <1>1, <1>10 DEF RemoveStream
  <2>2. new \in [Streams -> WorkerRecord] /\ new[s] = NoWorker
    BY <1>3, <1>5, NoWorkerRecord
  <2>3. \A t \in Streams : t # s => new[t] = workers[t]
    BY <1>5
  <2>4. Listed(new, s) = Entry(r)
    BY <1>10, <2>2, NoWorkerRecord DEF Listed, Entry
  <2> HIDE DEF new
  <2> QED BY <1>1, <1>2, <2>1, <2>2, <2>3, <2>4, EndsKeeps
<1>11. CASE cmd[r].op = "add_stream" /\ StartRaises(r, s)
  <2> DEFINE new == [workers EXCEPT ![s] = Unstarted(r)]
  <2>1. Ends(r, new) /\ opening' = NoRequest
    BY <1>1, <1>11 DEF StartRaises, Ends
  <2>2. new \in [Streams -> WorkerRecord] /\ new[s] = Unstarted(r)
    BY <1>3, <1>5, UnstartedRecord
  <2>3. \A t \in Streams : t # s => new[t] = workers[t]
    BY <1>5
  <2>4. Listed(new, s) = Entry(r)
    BY <1>3, <1>11, <2>2, UnstartedRecord DEF Listed, Entry
  <2> HIDE DEF new
  <2> QED BY <1>1, <1>2, <2>1, <2>2, <2>3, <2>4, EndsKeeps
<1>12. CASE cmd[r].op = "add_stream" /\ AddStream(r, s) /\ ~Refuse(r) /\ ~StartRaises(r, s)
  <2>1. /\ workers' = [workers EXCEPT ![s] = Worker(0, r)] /\ opening' = r
        /\ UNCHANGED <<file, latest>> /\ s \notin Running
    BY <1>12 DEF AddStream
  <2>2. Worker(0, r) \in WorkerRecord /\ Worker(0, r).st = "opening" /\ Worker(0, r).conf = 0
    BY <1>3, NoWorkerRecord
  <2>3. /\ workers' \in [Streams -> WorkerRecord] /\ workers'[s] = Worker(0, r)
        /\ \A t \in Streams : t # s => workers'[t] = workers[t]
    BY <1>3, <1>5, <2>1, <2>2
  <2>4. PICK u \in Streams : u = s
    BY <1>3
  <2>5. \A t \in Streams : BeingAdded(t)' <=> t = u
    BY <1>1, <1>3, <2>1, <2>4 DEF BeingAdded, ControlAssumption, NoRequest
  <2>6. Listed(workers, u) = Absent
    BY <1>3, <2>1, <2>4 DEF Running, Listed
  <2>7. Listed(workers, u)' = 0
    BY <2>2, <2>3, <2>4 DEF Listed
  <2>8. \A t \in Streams : t # u => Listed(workers, t)' = Listed(workers, t)
    BY <2>3, <2>4 DEF Listed
  <2>9. \A t \in Streams : BeingAdded(t)' => Listed(workers, t)' = 0
    BY <2>5, <2>7
  <2>10. \A t \in Streams :
           \/ (BeingAdded(t)' <=> BeingAdded(t)) /\ Listed(workers, t)' = Listed(workers, t)
           \/ BeingAdded(t)' /\ ~BeingAdded(t) /\ Listed(workers, t) = Absent
    BY <1>5, <2>5, <2>6, <2>8
  <2> QED BY <1>1, <1>2, <1>12, <2>1, <2>3, <2>9, <2>10, RegistryMoves
<1> QED BY <1>6, <1>7, <1>8, <1>9, <1>10, <1>11, <1>12 DEF SetThreshold, RemoveStream

(* The wait of an add ends, one way or the other.                          *)
LEMMA AddEndsKeeps ==
  ASSUME ControlAssumption, ControlInv, AddOpened \/ AddFails
  PROVE  ControlInv'
<1> DEFINE s == cmd[opening].stream
<1>1. /\ opening # NoRequest /\ opening \in Sent /\ opening' = NoRequest
      /\ cmd[opening].op = "add_stream" /\ cmd[opening] \in Commands
      /\ UNCHANGED <<cmd, rest, toDev, delivered>>
  BY DEF AddOpened, AddFails, ControlInv, Messages, rpc
<1>2. s \in Targets /\ s \in Streams /\ opening \in Requests
  BY <1>1 DEF Commands, ControlAssumption, Sent
<1>3. /\ workers \in [Streams -> WorkerRecord] /\ Listed(workers, s) = 0
      /\ toDev' \in Seq(Sent) /\ delivered' \in Seq(Sent)
      /\ \A t \in Streams : BeingAdded(t) <=> t = s
      /\ \A t \in Streams : ~BeingAdded(t)'
  BY <1>1, <1>2 DEF ControlInv, Registry, Messages, BeingAdded
<1>4. CASE AddOpened
  <2>1. Ends(opening, workers)
    BY <1>4 DEF AddOpened
  <2>2. Entry(opening) = 0
    BY <1>1 DEF Entry
  <2> QED BY <1>1, <1>3, <2>1, <2>2, EndsKeeps
<1>5. CASE AddFails
  <2>1. workers' = [workers EXCEPT ![s] = NoWorker] /\ UNCHANGED <<file, latest>>
    BY <1>5 DEF AddFails, Withdrawn
  <2>2. /\ workers' \in [Streams -> WorkerRecord] /\ workers'[s] = NoWorker
        /\ \A t \in Streams : t # s => workers'[t] = workers[t]
    BY <1>2, <1>3, <2>1, NoWorkerRecord
  <2>3. PICK u \in Streams : u = s
    BY <1>2
  <2>4. Listed(workers, u)' = Absent
    BY <2>2, <2>3, NoWorkerRecord DEF Listed
  <2>5. \A t \in Streams : t # u => Listed(workers, t)' = Listed(workers, t)
    BY <2>2, <2>3 DEF Listed
  <2>6. \A t \in Streams :
           \/ (BeingAdded(t)' <=> BeingAdded(t)) /\ Listed(workers, t)' = Listed(workers, t)
           \/ ~BeingAdded(t)' /\ BeingAdded(t) /\ Listed(workers, t)' = Absent
    BY <1>3, <2>3, <2>4, <2>5
  <2> QED BY <1>1, <1>3, <2>1, <2>2, <2>6, RegistryMoves
<1> QED BY <1>4, <1>5

(* A frame changes nothing of what the list would say.                     *)
LEMMA CaptureKeeps ==
  ASSUME ControlAssumption, ControlInv, NEW s \in Streams, Capture(s)
  PROVE  ControlInv'
<1> DEFINE o == [workers[s] EXCEPT !.st = "open"]
           w == [o EXCEPT !.frame = workers[s].frame + 1]
<1>1. /\ workers[s].st # "off"
      /\ UNCHANGED <<cmd, rest, opening, file, latest, toDev, delivered>>
  BY DEF Capture, rpc, wire
<1>2. workers \in [Streams -> WorkerRecord] /\ workers[s] \in WorkerRecord
  BY DEF ControlInv, Registry
<1>3. workers[s].frame + 1 \in Nat
  BY <1>2 DEF WorkerRecord
<1>4. o \in WorkerRecord /\ o.st = "open" /\ o.conf = workers[s].conf
  BY <1>2, WorkerUpdates
<1>5. workers' = [workers EXCEPT ![s] = w]
  BY <1>2 DEF Capture, WorkerRecord
<1> HIDE DEF o
<1>6. w \in WorkerRecord /\ w.st = "open" /\ w.conf = workers[s].conf
  BY <1>3, <1>4, WorkerUpdates
<1> HIDE DEF w
<1>7. /\ workers' \in [Streams -> WorkerRecord] /\ workers'[s] = w
      /\ \A t \in Streams : t # s => workers'[t] = workers[t]
  BY <1>2, <1>5, <1>6
<1>8. \A t \in Streams : Listed(workers, t)' = Listed(workers, t)
  BY <1>1, <1>6, <1>7 DEF Listed
<1>9. \A t \in Streams : BeingAdded(t)' <=> BeingAdded(t)
  BY <1>1 DEF BeingAdded
<1>10. /\ toDev' \in Seq(Sent) /\ delivered' \in Seq(Sent)
       /\ opening' # NoRequest => opening' \in Sent /\ cmd[opening'].op = "add_stream"
       /\ \A t \in Streams : BeingAdded(t)' => Listed(workers, t)' = 0
  BY <1>1, <1>8, <1>9 DEF ControlInv, Messages, Registry
<1> QED BY <1>1, <1>7, <1>8, <1>9, <1>10, RegistryMoves

(* A start finds in the file what the invariant says of it.                *)
LEMMA RestartKeeps ==
  ASSUME ControlAssumption, Default \notin Targets, ControlInv, Restart
  PROVE  ControlInv'
<1>1. /\ toDev' = <<>> /\ delivered' = <<>> /\ opening' = NoRequest
      /\ workers' = FromFile(file) /\ UNCHANGED <<cmd, rest, file, latest>>
  BY DEF Restart, rpc
<1>2. toDev' \in Seq(Sent) /\ delivered' \in Seq(Sent)
  BY <1>1, EmptySeq
<1>3. /\ workers' \in [Streams -> WorkerRecord]
      /\ \A s \in Streams : s # Default => Listed(FromFile(file), s) = file[s]
  BY <1>1, StartFinds DEF ControlInv
<1>4. \A s \in Streams : s # Default => Listed(workers, s)' = file[s]
  BY <1>1, <1>3 DEF Listed
<1>5. \A s \in Streams : ~BeingAdded(s)'
  BY <1>1 DEF BeingAdded
<1>6. \A s \in Streams :
        \/ ~BeingAdded(s)' /\ s \in Targets /\ Listed(workers, s)' = file[s]
        \/ ~BeingAdded(s)' /\ s \notin Targets
  BY <1>4, <1>5
<1> QED BY <1>1, <1>2, <1>3, <1>5, <1>6, RegistryMoves

LEMMA NextControlInv ==
  ASSUME ControlAssumption, Default \notin Targets
  PROVE  ControlInv /\ [Next]_vars => ControlInv'
<1> SUFFICES ASSUME ControlInv, [Next]_vars PROVE ControlInv'
  OBVIOUS
<1>1. CASE UNCHANGED vars
  <2>1. UNCHANGED <<cmd, rest, opening, workers, file, latest, toDev, delivered>>
    BY <1>1 DEF vars, rpc, wire, history
  <2> QED BY <2>1, MessagesMove DEF ControlInv, Messages, Sent
<1> QED
  BY <1>1, HubKeeps, SendKeeps, HandleKeeps, AddEndsKeeps, CaptureKeeps, RestartKeeps
     DEF Next

(* A change whose ack said persisted is what a start finds, until the next *)
(* change of its stream: for any streams, any order and number of          *)
(* commands, deliveries and restarts (supervisor.py _persist_streams;      *)
(* config_streams.py), as long as nobody commands the default stream.      *)
THEOREM PersistedIsFound ==
  ASSUME Default \notin Targets
  PROVE  Spec => []PersistedHolds
<1>1. Init => ControlInv
  BY ControlAssumption, InitControlInv
<1>2. ControlInv /\ [Next]_vars => ControlInv'
  BY ControlAssumption, NextControlInv
<1>3. ControlInv => PersistedHolds
  BY ControlAssumption, InvGivesPersisted
<1> QED BY <1>1, <1>2, <1>3, PTL DEF Spec
-----------------------------------------------------------------------------
(* Type correctness, with the part of Messages that makes it inductive.    *)
TypeInv == TypeOK /\ Messages

WorkerType == [st : {"off", "opening", "open", "dead"}, by : Requests \cup {0},
               conf : Requests \cup {0}, frame : 0..MaxFrames]

LEMMA InitTypeInv == ControlAssumption /\ Init => TypeInv
<1> SUFFICES ASSUME ControlAssumption, Init PROVE TypeInv
  OBVIOUS
<1>1. Messages
  BY InitControlInv DEF ControlInv
<1>2. toDev = <<>> /\ toHub = <<>> /\ delivered = <<>> /\ seen = <<>>
  BY DEF Init
<1>3. toDev \in Seq(Requests) /\ toHub \in Seq(Acks) /\ delivered \in Seq(Requests)
      /\ seen \in Seq(Acks) /\ Len(seen) <= SeenLimit
  BY <1>2, EmptySeq DEF ControlAssumption
<1>4. session \in 1..MaxSessions /\ retries \in 0..MaxRetries
  BY DEF Init, ControlAssumption
<1>5. workers \in [Streams -> WorkerType]
  <2>1. \A s \in Streams : (IF file[s] = Absent THEN 0 ELSE file[s]) = 0
    BY DEF Init
  <2>2. \A s \in Streams : FromFile(file)[s] \in {NoWorker, Worker(0, NoRequest)}
    BY <2>1 DEF FromFile
  <2>3. NoWorker \in WorkerType /\ Worker(0, NoRequest) \in WorkerType
    BY DEF NoWorker, Worker, WorkerType, NoRequest, ControlAssumption
  <2> QED BY <2>2, <2>3 DEF Init, FromFile
<1>6. roster \subseteq Streams /\ published \subseteq Streams /\ opening = NoRequest
  BY DEF Init, ControlAssumption
<1>7. /\ file \in [Streams -> Requests \cup {0, Absent}]
      /\ ghost \in [Streams -> {Absent} \cup 0..MaxFrames]
      /\ done \in [Requests -> Nat]
  BY DEF Init
<1>8. /\ latest \in [Streams -> [by : Requests \cup {0}, kept : BOOLEAN]]
      /\ lastFrame \in [Streams -> 0..MaxFrames + 1]
  BY DEF Init, NoChange, NoRequest, ControlAssumption
<1> QED BY <1>1, <1>3, <1>4, <1>5, <1>6, <1>7, <1>8
        DEF TypeInv, TypeOK, Messages, Phase, WorkerType

(* The conjuncts of TypeOK that the messages do not give, grouped.         *)
WiresOK ==
  /\ roster \subseteq Streams /\ published \subseteq Streams /\ toHub \in Seq(Acks)
  /\ seen \in Seq(Acks) /\ Len(seen) <= SeenLimit
  /\ session \in 1..MaxSessions /\ retries \in 0..MaxRetries
StreamsOK ==
  /\ opening # NoRequest => cmd[opening].stream \in Running
  /\ workers \in [Streams -> WorkerType]
  /\ file \in [Streams -> Requests \cup {0, Absent}]
  /\ ghost \in [Streams -> {Absent} \cup 0..MaxFrames]
  /\ lastFrame \in [Streams -> 0..MaxFrames + 1]
ChangesOK ==
  /\ done \in [Requests -> Nat]
  /\ latest \in [Streams -> [by : Requests \cup {0}, kept : BOOLEAN]]

LEMMA TypeParts == TypeInv <=> Messages /\ WiresOK /\ StreamsOK /\ ChangesOK
<1>1. Sent \subseteq Requests
  BY DEF Sent
<1>2. Messages => toDev \in Seq(Requests) /\ delivered \in Seq(Requests)
  BY <1>1, SeqMonotonic DEF Messages
<1>3. TypeInv => Messages /\ WiresOK /\ StreamsOK /\ ChangesOK
  BY DEF TypeInv, TypeOK, WiresOK, StreamsOK, ChangesOK, WorkerType
<1>4. Messages /\ WiresOK /\ StreamsOK /\ ChangesOK => TypeInv
  BY <1>2 DEF TypeInv, TypeOK, Messages, Phase, WiresOK, StreamsOK, ChangesOK, WorkerType
<1> QED BY <1>3, <1>4

(* _remember: the verdicts move up by at most one, the new one is last.    *)
LEMMA RememberFacts ==
  ASSUME ControlAssumption, seen \in Seq(Acks), Len(seen) <= SeenLimit,
         NEW ack \in Acks, Remember(ack)
  PROVE  /\ seen' \in Seq(Acks) /\ Len(seen') \in 1..SeenLimit
         /\ Len(seen') = IF Len(seen) < SeenLimit THEN Len(seen) + 1 ELSE SeenLimit
         /\ seen'[Len(seen')] = ack
         /\ \A i \in 1..Len(seen') - 1 : /\ i + (Len(seen) + 1 - Len(seen')) \in DOMAIN seen
                                         /\ seen'[i] = seen[i + (Len(seen) + 1 - Len(seen'))]
<1>1. CASE Len(seen) < SeenLimit
  <2>1. seen' = Append(seen, ack)
    BY <1>1 DEF Remember
  <2>2. seen' \in Seq(Acks) /\ Len(seen') = Len(seen) + 1 /\ seen'[Len(seen) + 1] = ack
        /\ \A i \in 1..Len(seen) : seen'[i] = seen[i]
    BY <2>1, AppendProperties
  <2> QED BY <1>1, <2>2 DEF ControlAssumption
<1>2. CASE ~(Len(seen) < SeenLimit)
  <2>1. seen' = Append(Tail(seen), ack) /\ seen # <<>> /\ Len(seen) = SeenLimit
    BY <1>2, EmptySeq DEF Remember, ControlAssumption
  <2>2. /\ Tail(seen) \in Seq(Acks) /\ Len(Tail(seen)) = Len(seen) - 1
        /\ \A i \in 1..Len(Tail(seen)) : Tail(seen)[i] = seen[i + 1]
    BY <2>1, HeadTailProperties
  <2>3. /\ seen' \in Seq(Acks) /\ Len(seen') = Len(Tail(seen)) + 1
        /\ seen'[Len(Tail(seen)) + 1] = ack
        /\ \A i \in 1..Len(Tail(seen)) : seen'[i] = Tail(seen)[i]
    BY <2>1, <2>2, AppendProperties
  <2> QED BY <1>2, <2>1, <2>2, <2>3 DEF ControlAssumption
<1> QED BY <1>1, <1>2

LEMMA AnswerType ==
  ASSUME ControlAssumption, WiresOK, NEW ack \in Acks, Answer(ack)
  PROVE  toHub' \in Seq(Acks) /\ seen' \in Seq(Acks) /\ Len(seen') <= SeenLimit
<1>1. Remember(ack) /\ toHub' = Append(toHub, ack)
  BY DEF Answer
<1>2. toHub' \in Seq(Acks)
  BY <1>1, AppendProperties DEF WiresOK
<1>3. seen' \in Seq(Acks) /\ Len(seen') \in 1..SeenLimit
  BY <1>1, RememberFacts DEF WiresOK
<1> QED BY <1>2, <1>3 DEF ControlAssumption

LEMMA EndsType ==
  ASSUME ControlAssumption, WiresOK, StreamsOK, ChangesOK, NEW r \in Requests,
         NEW new \in [Streams -> WorkerType], Ends(r, new), cmd[r].stream \in Streams
  PROVE  /\ workers' = new /\ published' \subseteq Streams
         /\ toHub' \in Seq(Acks) /\ seen' \in Seq(Acks) /\ Len(seen') <= SeenLimit
         /\ file' \in [Streams -> Requests \cup {0, Absent}]
         /\ ChangesOK'
<1>1. PICK kept \in BOOLEAN, written \in BOOLEAN :
        /\ kept => written
        /\ Persist(new, written)
        /\ latest' = [latest EXCEPT ![cmd[r].stream] = [by |-> r, kept |-> kept]]
  BY EndsFacts
<1>2. PICK ack \in Acks : ack.request = r /\ (ack.ok \/ ack.fault) /\ Answer(ack)
  BY EndsFacts
<1>3. toHub' \in Seq(Acks) /\ seen' \in Seq(Acks) /\ Len(seen') <= SeenLimit
  BY <1>2, AnswerType
<1>4. file' \in [Streams -> Requests \cup {0, Absent}]
  BY <1>1 DEF Persist, StreamsOK, WorkerType
<1>5. latest' \in [Streams -> [by : Requests \cup {0}, kept : BOOLEAN]]
  BY <1>1 DEF ChangesOK
<1>6. done' = [done EXCEPT ![r] = @ + 1] /\ workers' = new /\ published' \subseteq Streams
  BY EndsFacts DEF Announce, WiresOK
<1>7. done' \in [Requests -> Nat]
  BY <1>6 DEF ChangesOK
<1> QED BY <1>3, <1>4, <1>5, <1>6, <1>7 DEF ChangesOK

LEMMA QuietTypes ==
  ASSUME ControlAssumption, TypeInv,
         \/ \E r \in Requests : (\E c \in Commands : Send(r, c)) \/ TimeOut(r)
         \/ OnAck \/ OnStatus \/ Heartbeat \/ Redeliver
         \/ \E s \in Streams : GhostEnds(s)
  PROVE  TypeInv'
<1>0. Messages /\ WiresOK /\ StreamsOK /\ ChangesOK
  BY TypeParts
<1>1. CASE \E r \in Requests, c \in Commands : Send(r, c)
  <2>1. PICK r \in Requests, c \in Commands : Send(r, c)
    BY <1>1
  <2>2. /\ rest[r] = "unsent" /\ cmd' = [cmd EXCEPT ![r] = c]
        /\ UNCHANGED <<roster, toHub, published, session, seen, opening, workers,
                       file, ghost, delivered, retries, done, latest, lastFrame>>
    BY <2>1 DEF Send, history
  <2>3. Messages'
    BY <1>0, <2>1, SendMessages
  <2>4. opening # NoRequest => cmd'[opening] = cmd[opening]
    BY <1>0, <2>2 DEF Messages, Sent
  <2>5. WiresOK' /\ StreamsOK' /\ ChangesOK'
    BY <1>0, <2>2, <2>4 DEF WiresOK, StreamsOK, ChangesOK, Running
  <2> QED BY <2>3, <2>5, TypeParts, PTL
<1>2. CASE (\E r \in Requests : TimeOut(r)) \/ OnAck
  <2>1. /\ UNCHANGED <<cmd, roster, toDev, published, session, seen, opening, workers,
                       file, ghost, delivered, retries, done, latest, lastFrame>>
        /\ toHub' \in Seq(Acks)
    <3>1. toHub \in Seq(Acks)
      BY <1>0 DEF WiresOK
    <3>2. CASE \E r \in Requests : TimeOut(r)
      BY <3>1, <3>2 DEF TimeOut, wire, history
    <3>3. CASE OnAck
      <4>1. toHub # <<>> /\ toHub' = Tail(toHub)
        BY <3>3 DEF OnAck
      <4>2. toHub' \in Seq(Acks)
        BY <3>1, <4>1, HeadTailProperties
      <4> QED BY <3>3, <4>2 DEF OnAck, history
    <3> QED BY <1>2, <3>2, <3>3
  <2>2. rest' \in [Requests -> Phase] /\ Sent' = Sent
    BY <1>0, <1>2 DEF TimeOut, OnAck, Messages, Sent, Phase, Settles
  <2>3. Messages'
    BY <1>0, <2>1, <2>2 DEF Messages
  <2>4. WiresOK' /\ StreamsOK' /\ ChangesOK'
    BY <1>0, <2>1 DEF WiresOK, StreamsOK, ChangesOK, Running
  <2> QED BY <2>3, <2>4, TypeParts, PTL
<1>3. CASE OnStatus \/ Heartbeat \/ \E s \in Streams : GhostEnds(s)
  <2>1. /\ UNCHANGED <<cmd, rest, toDev, toHub, session, seen, opening, workers,
                       file, delivered, retries, done, latest>>
        /\ roster' \subseteq Streams /\ published' \subseteq Streams
    BY <1>0, <1>3
       DEF OnStatus, Heartbeat, GhostEnds, Announce, rpc, wire, history, WiresOK
  <2>2. /\ ghost' \in [Streams -> {Absent} \cup 0..MaxFrames]
        /\ lastFrame' \in [Streams -> 0..MaxFrames + 1]
    <3>1. CASE OnStatus \/ Heartbeat
      BY <1>0, <3>1 DEF OnStatus, Heartbeat, StreamsOK, history
    <3>2. CASE \E s \in Streams : GhostEnds(s)
      <4>1. PICK s \in Streams : GhostEnds(s)
        BY <3>2
      <4>2. ghost[s] \in 0..MaxFrames /\ ghost[s] + 1 \in 0..MaxFrames + 1
        BY <1>0, <4>1 DEF GhostEnds, StreamsOK, ControlAssumption
      <4> QED BY <1>0, <4>1, <4>2 DEF GhostEnds, StreamsOK
    <3> QED BY <1>3, <3>1, <3>2
  <2>3. Messages'
    BY <1>0, <2>1 DEF Messages, Sent
  <2>4. WiresOK' /\ StreamsOK' /\ ChangesOK'
    BY <1>0, <2>1, <2>2 DEF WiresOK, StreamsOK, ChangesOK, Running
  <2> QED BY <2>3, <2>4, TypeParts, PTL
<1>4. CASE Redeliver
  <2>1. /\ UNCHANGED <<cmd, rest, roster, toHub, published, session, seen, opening,
                       workers, file, ghost, delivered, done, latest, lastFrame>>
        /\ retries < MaxRetries /\ retries' = retries + 1
    BY <1>4 DEF Redeliver, rpc
  <2>2. PICK i \in DOMAIN delivered : toDev' = <<delivered[i]>> \o toDev
    BY <1>4 DEF Redeliver
  <2>3. delivered[i] \in Sent /\ toDev \in Seq(Sent)
    BY <1>0, <2>2 DEF Messages
  <2>4. toDev' \in Seq(Sent)
    BY <2>2, <2>3
  <2>5. Messages'
    BY <1>0, <2>1, <2>4 DEF Messages, Sent
  <2>6. retries' \in 0..MaxRetries
    BY <1>0, <2>1 DEF WiresOK, ControlAssumption
  <2>7. WiresOK' /\ StreamsOK' /\ ChangesOK'
    BY <1>0, <2>1, <2>6 DEF WiresOK, StreamsOK, ChangesOK, Running
  <2> QED BY <2>5, <2>7, TypeParts, PTL
<1> QED BY <1>1, <1>2, <1>3, <1>4

LEMMA CaptureTypes ==
  ASSUME ControlAssumption, TypeInv, NEW s \in Streams, Capture(s)
  PROVE  TypeInv'
<1>0. Messages /\ WiresOK /\ StreamsOK /\ ChangesOK
  BY TypeParts
<1>1. /\ UNCHANGED <<cmd, rest, roster, toDev, toHub, published, session, seen, opening,
                     file, ghost, delivered, retries, done, latest>>
      /\ workers[s].st # "off" /\ workers[s].frame < MaxFrames
      /\ workers' = [workers EXCEPT ![s].st = "open", ![s].frame = @ + 1]
      /\ lastFrame' = [lastFrame EXCEPT ![s] = workers[s].frame + 1]
  BY DEF Capture, rpc, wire
<1>2. workers[s] \in WorkerType
  BY <1>0 DEF StreamsOK
<1>3. workers[s].frame + 1 \in 0..MaxFrames /\ workers[s].frame + 1 \in 0..MaxFrames + 1
  BY <1>1, <1>2 DEF WorkerType, ControlAssumption
<1>4. PICK w \in WorkerType : w.st = "open" /\ workers' = [workers EXCEPT ![s] = w]
  <2> DEFINE w == [workers[s] EXCEPT !.st = "open", !.frame = workers[s].frame + 1]
  <2>1. w \in WorkerType /\ w.st = "open"
    BY <1>2, <1>3 DEF WorkerType
  <2>2. workers' = [workers EXCEPT ![s] = w]
    BY <1>0, <1>1, <1>2 DEF StreamsOK, WorkerType
  <2> QED BY <2>1, <2>2
<1>5. /\ workers' \in [Streams -> WorkerType] /\ workers'[s] = w
      /\ \A t \in Streams : t # s => workers'[t] = workers[t]
  BY <1>0, <1>4 DEF StreamsOK
<1>6. Running \subseteq Running'
  BY <1>4, <1>5 DEF Running
<1>7. lastFrame' \in [Streams -> 0..MaxFrames + 1]
  BY <1>0, <1>1, <1>3 DEF StreamsOK
<1>8. Messages'
  BY <1>0, <1>1 DEF Messages, Sent
<1>9. WiresOK' /\ StreamsOK' /\ ChangesOK'
  BY <1>0, <1>1, <1>5, <1>6, <1>7 DEF WiresOK, StreamsOK, ChangesOK
<1> QED BY <1>8, <1>9, TypeParts, PTL

(* What a handled command may do to the registry.                          *)
LEMMA HandleTypes ==
  ASSUME ControlAssumption, TypeInv, Handle
  PROVE  TypeInv'
<1> DEFINE r == Head(toDev)
           s == cmd[r].stream
<1>0. Messages /\ WiresOK /\ StreamsOK /\ ChangesOK
  BY TypeParts
<1>1. /\ toDev # <<>> /\ opening = NoRequest /\ toDev' = Tail(toDev)
      /\ UNCHANGED <<cmd, rest, roster, session, retries, lastFrame>>
  BY DEF Handle, rpc
<1>2. delivered' = delivered \/ delivered' = Append(delivered, r)
  <2>1. CASE IsSeen(r)
    BY <2>1 DEF Handle
  <2>2. CASE ~IsSeen(r)
    BY <2>2 DEF Handle
  <2> QED BY <2>1, <2>2
<1>3. r \in Sent /\ r \in Requests /\ toDev' \in Seq(Sent) /\ delivered' \in Seq(Sent)
  <2>1. toDev \in Seq(Sent) /\ delivered \in Seq(Sent)
    BY <1>0 DEF Messages
  <2>2. r \in Sent /\ Tail(toDev) \in Seq(Sent)
    BY <1>1, <2>1, HeadTailProperties
  <2>3. Append(delivered, r) \in Seq(Sent)
    BY <2>1, <2>2, AppendProperties
  <2> QED BY <1>1, <1>2, <2>1, <2>2, <2>3 DEF Sent
<1>4. cmd[r] \in Commands /\ s \in Streams
  BY <1>0, <1>3 DEF Messages, Commands, ControlAssumption
<1>5. \/ /\ \E i \in DOMAIN seen : toHub' = Append(toHub, seen[i])
         /\ UNCHANGED <<published, seen, opening, workers, file, ghost, done, latest>>
      \/ cmd[r].op = "set_conf_threshold" /\ SetThreshold(r, s)
      \/ cmd[r].op = "remove_stream" /\ RemoveStream(r, s)
      \/ cmd[r].op = "add_stream" /\ AddStream(r, s)
  BY DEF Handle
<1> HIDE DEF r
<1>6. SUFFICES /\ opening' # NoRequest => opening' = r /\ cmd[r].op = "add_stream"
               /\ WiresOK' /\ StreamsOK' /\ ChangesOK'
  <2>1. ASSUME opening' # NoRequest => opening' = r /\ cmd[r].op = "add_stream"
        PROVE  Messages'
    BY <1>0, <1>1, <1>3, <2>1 DEF Messages, Sent
  <2> QED BY <2>1, TypeParts, PTL
<1>7. CASE /\ \E i \in DOMAIN seen : toHub' = Append(toHub, seen[i])
           /\ UNCHANGED <<published, seen, opening, workers, file, ghost, done, latest>>
  <2>1. PICK i \in DOMAIN seen : toHub' = Append(toHub, seen[i])
    BY <1>7
  <2>2. seen[i] \in Acks
    BY <1>0 DEF WiresOK
  <2>3. toHub' \in Seq(Acks)
    BY <1>0, <2>1, <2>2, AppendProperties DEF WiresOK
  <2> QED BY <1>0, <1>1, <1>7, <2>3 DEF WiresOK, StreamsOK, ChangesOK
<1>8. CASE Refuse(r)
  <2>1. AckOf(r, FALSE, FALSE) \in Acks /\ Answer(AckOf(r, FALSE, FALSE))
    BY <1>3, <1>8, Refusal DEF Refuse
  <2>2. toHub' \in Seq(Acks) /\ seen' \in Seq(Acks) /\ Len(seen') <= SeenLimit
    BY <1>0, <2>1, AnswerType
  <2> QED BY <1>0, <1>1, <1>8, <2>2 DEF Refuse, WiresOK, StreamsOK, ChangesOK
<1>9. ASSUME NEW new \in [Streams -> WorkerType], Ends(r, new), opening' = opening,
             ghost' \in [Streams -> {Absent} \cup 0..MaxFrames]
      PROVE  opening' = NoRequest /\ WiresOK' /\ StreamsOK' /\ ChangesOK'
  <2>1. /\ workers' = new /\ published' \subseteq Streams
        /\ toHub' \in Seq(Acks) /\ seen' \in Seq(Acks) /\ Len(seen') <= SeenLimit
        /\ file' \in [Streams -> Requests \cup {0, Absent}] /\ ChangesOK'
    BY <1>0, <1>3, <1>4, <1>9, EndsType
  <2> QED BY <1>0, <1>1, <1>9, <2>1 DEF WiresOK, StreamsOK
<1>10. CASE SetThreshold(r, s) /\ s \in Running
  <2> DEFINE w == [workers[s] EXCEPT !.conf = r]
  <2>0. workers[s] \in WorkerType
    BY <1>0, <1>4 DEF StreamsOK
  <2>1. w \in WorkerType
    BY <1>3, <2>0 DEF WorkerType
  <2>2. Ends(r, [workers EXCEPT ![s] = w])
        /\ opening' = opening /\ ghost' = ghost
    BY <1>10 DEF SetThreshold
  <2>3. [workers EXCEPT ![s] = w] \in [Streams -> WorkerType]
    BY <1>0, <2>1 DEF StreamsOK
  <2> QED BY <1>0, <1>9, <2>2, <2>3 DEF StreamsOK
<1>11. CASE RemoveStream(r, s) /\ s \in Running
  <2>1. NoWorker \in WorkerType
    BY DEF NoWorker, WorkerType, NoRequest, ControlAssumption
  <2>2. Ends(r, [workers EXCEPT ![s] = NoWorker]) /\ opening' = opening /\ Stopped(s)
    BY <1>11 DEF RemoveStream
  <2>3. [workers EXCEPT ![s] = NoWorker] \in [Streams -> WorkerType]
    BY <1>0, <2>1 DEF StreamsOK
  <2>4. ghost' \in [Streams -> {Absent} \cup 0..MaxFrames]
    BY <1>0, <1>4, <2>2 DEF Stopped, StreamsOK, WorkerType
  <2> QED BY <1>9, <2>2, <2>3, <2>4
<1>12. CASE StartRaises(r, s)
  <2>1. Unstarted(r) \in WorkerType
    BY <1>3 DEF Unstarted, WorkerType, ControlAssumption
  <2>2. Ends(r, [workers EXCEPT ![s] = Unstarted(r)]) /\ opening' = opening /\ ghost' = ghost
    BY <1>12 DEF StartRaises, Ends
  <2>3. [workers EXCEPT ![s] = Unstarted(r)] \in [Streams -> WorkerType]
    BY <1>0, <2>1 DEF StreamsOK
  <2> QED BY <1>0, <1>9, <2>2, <2>3 DEF StreamsOK
<1>13. CASE cmd[r].op = "add_stream" /\ AddStream(r, s) /\ ~Refuse(r) /\ ~StartRaises(r, s)
  <2>1. /\ workers' = [workers EXCEPT ![s] = Worker(0, r)] /\ opening' = r
        /\ UNCHANGED <<toHub, published, seen, file, ghost, done, latest>>
    BY <1>13 DEF AddStream
  <2>2. Worker(0, r) \in WorkerType /\ Worker(0, r).st = "opening"
    BY <1>3 DEF Worker, WorkerType, ControlAssumption
  <2>3. workers' \in [Streams -> WorkerType] /\ s \in Running'
    BY <1>0, <1>4, <2>1, <2>2 DEF StreamsOK, Running
  <2>4. cmd'[opening'].stream \in Running'
    BY <1>1, <2>1, <2>3
  <2> QED BY <1>0, <1>1, <1>13, <2>1, <2>3, <2>4 DEF WiresOK, StreamsOK, ChangesOK
<1> QED BY <1>1, <1>5, <1>7, <1>8, <1>10, <1>11, <1>12, <1>13 DEF SetThreshold, RemoveStream

LEMMA AddEndsTypes ==
  ASSUME ControlAssumption, TypeInv, AddOpened \/ AddFails
  PROVE  TypeInv'
<1> DEFINE s == cmd[opening].stream
<1>0. Messages /\ WiresOK /\ StreamsOK /\ ChangesOK
  BY TypeParts
<1>1. /\ opening # NoRequest /\ opening' = NoRequest
      /\ UNCHANGED <<cmd, rest, roster, toDev, session, delivered, retries, lastFrame>>
  BY DEF AddOpened, AddFails, rpc
<1>2. opening \in Requests /\ s \in Streams
  BY <1>0, <1>1 DEF Messages, Sent, Commands, ControlAssumption
<1>3. Messages'
  BY <1>0, <1>1 DEF Messages, Sent
<1>4. CASE AddOpened
  <2>1. Ends(opening, workers) /\ ghost' = ghost /\ workers \in [Streams -> WorkerType]
    BY <1>0, <1>4 DEF AddOpened, StreamsOK
  <2>2. /\ workers' = workers /\ published' \subseteq Streams
        /\ toHub' \in Seq(Acks) /\ seen' \in Seq(Acks) /\ Len(seen') <= SeenLimit
        /\ file' \in [Streams -> Requests \cup {0, Absent}] /\ ChangesOK'
    BY <1>0, <1>2, <2>1, EndsType
  <2>3. WiresOK' /\ StreamsOK'
    BY <1>0, <1>1, <2>1, <2>2 DEF WiresOK, StreamsOK
  <2> QED BY <1>3, <2>2, <2>3, TypeParts, PTL
<1>5. CASE AddFails
  <2>1. /\ workers' = [workers EXCEPT ![s] = NoWorker] /\ Stopped(s)
        /\ Answer(AckOf(opening, FALSE, FALSE)) /\ UNCHANGED <<published, file, done, latest>>
    BY <1>5 DEF AddFails, Withdrawn
  <2>2. AckOf(opening, FALSE, FALSE) \in Acks
    BY <1>2, Refusal
  <2>3. toHub' \in Seq(Acks) /\ seen' \in Seq(Acks) /\ Len(seen') <= SeenLimit
    BY <1>0, <2>1, <2>2, AnswerType
  <2>4. NoWorker \in WorkerType
    BY DEF NoWorker, WorkerType, NoRequest, ControlAssumption
  <2>5. workers' \in [Streams -> WorkerType]
    BY <1>0, <2>1, <2>4 DEF StreamsOK
  <2>6. ghost' \in [Streams -> {Absent} \cup 0..MaxFrames]
    BY <1>0, <1>2, <2>1 DEF Stopped, StreamsOK, WorkerType
  <2>7. WiresOK' /\ StreamsOK' /\ ChangesOK'
    BY <1>0, <1>1, <2>1, <2>3, <2>5, <2>6 DEF WiresOK, StreamsOK, ChangesOK
  <2> QED BY <1>3, <2>7, TypeParts, PTL
<1> QED BY <1>4, <1>5

LEMMA RestartTypes ==
  ASSUME ControlAssumption, TypeInv, Restart
  PROVE  TypeInv'
<1>0. Messages /\ WiresOK /\ StreamsOK /\ ChangesOK
  BY TypeParts
<1>1. /\ session < MaxSessions /\ session' = session + 1
      /\ toDev' = <<>> /\ toHub' \in {toHub, <<>>} /\ seen' = <<>> /\ delivered' = <<>>
      /\ opening' = NoRequest /\ workers' = FromFile(file)
      /\ published' = {s \in Streams : FromFile(file)[s].st # "off"}
      /\ ghost' = [s \in Streams |-> Absent] /\ lastFrame' = [s \in Streams |-> 0]
      /\ UNCHANGED <<cmd, rest, roster, file, retries, done, latest>>
  BY DEF Restart, rpc, Announce
<1>2. <<>> \in Seq(Sent) /\ <<>> \in Seq(Acks) /\ Len(<<>>) = 0
  BY EmptySeq
<1>3. Messages'
  BY <1>0, <1>1, <1>2 DEF Messages, Sent
<1>4. WiresOK'
  <2>1. session' \in 1..MaxSessions
    BY <1>0, <1>1 DEF WiresOK, ControlAssumption
  <2>2. toHub' \in Seq(Acks) /\ seen' \in Seq(Acks) /\ Len(seen') <= SeenLimit
    <3>1. toHub \in Seq(Acks)
      BY <1>0 DEF WiresOK
    <3>2. seen' \in Seq(Acks) /\ Len(seen') = 0 /\ 0 <= SeenLimit
      BY <1>1, <1>2 DEF ControlAssumption
    <3> QED BY <1>1, <1>2, <3>1, <3>2
  <2> QED BY <1>0, <1>1, <2>1, <2>2 DEF WiresOK
<1>5. workers' \in [Streams -> WorkerType]
  <2> DEFINE conf(s) == IF file[s] = Absent THEN 0 ELSE file[s]
  <2>1. \A s \in Streams : conf(s) \in Requests \cup {0}
    BY <1>0 DEF StreamsOK
  <2>2. NoWorker \in WorkerType /\ \A c \in Requests \cup {0} : Worker(c, NoRequest) \in WorkerType
    BY DEF NoWorker, Worker, WorkerType, NoRequest, ControlAssumption
  <2>3. ASSUME NEW s \in Streams
        PROVE  FromFile(file)[s] \in WorkerType
    <3>1. Worker(conf(s), NoRequest) \in WorkerType
      BY <2>1, <2>2
    <3> QED BY <2>2, <3>1 DEF FromFile
  <2> QED BY <1>1, <2>3 DEF FromFile
<1>6. StreamsOK'
  BY <1>0, <1>1, <1>5 DEF StreamsOK, ControlAssumption
<1>7. ChangesOK'
  BY <1>0, <1>1 DEF ChangesOK
<1> QED BY <1>3, <1>4, <1>6, <1>7, TypeParts, PTL

LEMMA NextTypeInv == ControlAssumption /\ TypeInv /\ [Next]_vars => TypeInv'
<1> SUFFICES ASSUME ControlAssumption, TypeInv, [Next]_vars PROVE TypeInv'
  OBVIOUS
<1>1. CASE UNCHANGED vars
  <2>1. Messages' /\ WiresOK' /\ StreamsOK' /\ ChangesOK'
    BY <1>1, TypeParts DEF vars, rpc, wire, history, Messages, Sent, WiresOK, StreamsOK,
                           ChangesOK, Running
  <2> QED BY <2>1, TypeParts, PTL
<1>2. CASE Next
  BY <1>2, QuietTypes, CaptureTypes, HandleTypes, AddEndsTypes, RestartTypes DEF Next
<1> QED BY <1>1, <1>2

(* Every variable has its type, the memory of request ids stays within its *)
(* limit and an add that is waited for has its worker registered           *)
(* (esk_core/control.py _remember, supervisor.py _cmd_add_stream).         *)
THEOREM TypesHold == Spec => []TypeOK
<1>1. Init => TypeInv
  BY ControlAssumption, InitTypeInv
<1>2. TypeInv /\ [Next]_vars => TypeInv'
  BY ControlAssumption, NextTypeInv
<1>3. TypeInv => TypeOK
  BY DEF TypeInv
<1> QED BY <1>1, <1>2, <1>3, PTL DEF Spec
-----------------------------------------------------------------------------
(* The elements of a sequence that grows or shrinks at an end.             *)
LEMMA AppendSet ==
  ASSUME NEW S, NEW q \in Seq(S), NEW e \in S
  PROVE  ToSet(Append(q, e)) = ToSet(q) \cup {e}
<1> DEFINE new == Append(q, e)
<1>1. /\ new \in Seq(S) /\ Len(new) = Len(q) + 1 /\ new[Len(q) + 1] = e
      /\ \A i \in 1..Len(q) : new[i] = q[i]
  BY AppendProperties
<1>2. DOMAIN new = 1..Len(q) + 1 /\ DOMAIN q = 1..Len(q) /\ Len(q) \in Nat
  BY <1>1
<1> HIDE DEF new
<1>3. ToSet(new) \subseteq ToSet(q) \cup {e}
  BY <1>1, <1>2 DEF ToSet
<1>4. ToSet(q) \cup {e} \subseteq ToSet(new)
  BY <1>1, <1>2 DEF ToSet
<1> QED BY <1>3, <1>4 DEF new

LEMMA TailSet ==
  ASSUME NEW S, NEW q \in Seq(S), q # <<>>
  PROVE  ToSet(q) = ToSet(Tail(q)) \cup {Head(q)}
<1> DEFINE new == Tail(q)
<1>1. /\ new \in Seq(S) /\ Len(new) = Len(q) - 1 /\ Head(q) = q[1]
      /\ \A i \in 1..Len(new) : new[i] = q[i + 1]
  BY HeadTailProperties
<1>2. DOMAIN new = 1..Len(q) - 1 /\ DOMAIN q = 1..Len(q) /\ Len(q) \in Nat \ {0}
  BY <1>1, EmptySeq
<1> HIDE DEF new
<1>3. ToSet(new) \cup {Head(q)} \subseteq ToSet(q)
  BY <1>1, <1>2 DEF ToSet
<1>4. ASSUME NEW i \in DOMAIN q PROVE q[i] \in ToSet(new) \cup {Head(q)}
  <2>1. CASE i = 1
    BY <1>1, <2>1
  <2>2. CASE i # 1
    <3>1. i - 1 \in DOMAIN new /\ new[i - 1] = q[i]
      BY <1>1, <1>2, <2>2
    <3> QED BY <3>1 DEF ToSet
  <2> QED BY <2>1, <2>2
<1> QED BY <1>3, <1>4 DEF new, ToSet

LEMMA ConsSet ==
  ASSUME NEW S, NEW q \in Seq(S), NEW e \in S
  PROVE  /\ ToSet(<<e>> \o q) = ToSet(q) \cup {e}
         /\ <<e>> \o q \in Seq(S) /\ Len(<<e>> \o q) = Len(q) + 1
         /\ (<<e>> \o q)[1] = e
         /\ \A i \in 2..Len(q) + 1 : (<<e>> \o q)[i] = q[i - 1]
<1> DEFINE new == <<e>> \o q
<1>1. /\ new \in Seq(S) /\ Len(new) = Len(q) + 1 /\ new[1] = e
      /\ \A i \in 2..Len(q) + 1 : new[i] = q[i - 1]
  <2>1. <<e>> \in Seq(S) /\ Len(<<e>>) = 1 /\ <<e>>[1] = e /\ Len(q) \in Nat
    OBVIOUS
  <2> QED BY <2>1, ConcatProperties
<1>2. DOMAIN new = 1..Len(q) + 1 /\ DOMAIN q = 1..Len(q) /\ Len(q) \in Nat
  BY <1>1
<1> HIDE DEF new
<1>3. ToSet(new) \subseteq ToSet(q) \cup {e}
  <2>1. ASSUME NEW i \in DOMAIN new, i # 1 PROVE i - 1 \in DOMAIN q /\ new[i] = q[i - 1]
    BY <1>1, <1>2, <2>1
  <2> QED BY <1>1, <2>1 DEF ToSet
<1>4. ToSet(q) \cup {e} \subseteq ToSet(new)
  <2>1. ASSUME NEW i \in DOMAIN q PROVE i + 1 \in DOMAIN new /\ new[i + 1] = q[i]
    BY <1>1, <1>2
  <2>2. 1 \in DOMAIN new
    BY <1>2
  <2> QED BY <1>1, <2>1, <2>2 DEF ToSet
<1> QED BY <1>1, <1>3, <1>4 DEF new

-----------------------------------------------------------------------------
(* The verdicts.  Given are the commands of this session, Fresh the ones   *)
(* on their way for the first time; a request is pending until it has been *)
(* decided, and can then never be applied.                                 *)
Given == ToSet(delivered)
Fresh == ToSet(toDev) \ Given
Pending(r) == rest[r] = "unsent" \/ r \in Fresh \/ opening = r
Recent(r) ==
  \E i \in DOMAIN delivered : i > Len(delivered) - RetryWindow /\ delivered[i] = r

(* The commands of this session that have their verdict.                   *)
Decided == IF opening = NoRequest THEN Len(delivered) ELSE Len(delivered) - 1

(* Repeats are of recent commands and come before the fresh ones.          *)
Queue ==
  /\ \A i \in DOMAIN toDev : toDev[i] \in Given =>
       Recent(toDev[i]) /\ \A j \in 1..i : toDev[j] \in Given
  /\ \A i, j \in DOMAIN toDev : i < j /\ toDev[i] = toDev[j] => toDev[i] \in Given

(* The verdicts remembered are those of the latest decided commands.       *)
Memory ==
  /\ opening # NoRequest => delivered # <<>> /\ delivered[Len(delivered)] = opening
  /\ \A i, j \in DOMAIN delivered : delivered[i] = delivered[j] => i = j
  /\ Len(seen) = IF Decided < SeenLimit THEN Decided ELSE SeenLimit
  /\ \A i \in DOMAIN seen : seen[i].request = delivered[Decided - Len(seen) + i]

(* What an ack says: the text of an exception says nothing of the change,  *)
(* but that the command has been decided.                                  *)
Truth(a) == IF a.ok THEN done[a.request] > 0
            ELSE a.fault \/ (done[a.request] = 0 /\ ~Pending(a.request))
Told == ToSet(seen) \cup ToSet(toHub)
Verdicts == \A a \in Told : Truth(a)
Outcomes ==
  \A r \in Requests : /\ rest[r] = "ok" => done[r] > 0
                      /\ rest[r] = "rejected" => done[r] = 0 /\ ~Pending(r)
                      /\ Pending(r) => done[r] = 0
                      /\ done[r] <= 1

(* A worker that an add started is that of the add going on, or of one     *)
(* that was applied.                                                       *)
Owners ==
  \A s \in Streams : LET r == workers[s].by
                     IN  r # NoRequest => \/ opening = r /\ cmd[r].stream = s
                                          \/ done[r] > 0

VerdictInv == Queue /\ Memory /\ Verdicts /\ Outcomes /\ Owners

LEMMA VerdictsGive ==
  ASSUME TypeInv, VerdictInv
  PROVE  OutcomeIsTrue /\ AppliedOnce /\ NoOrphanStreams
<1>1. OutcomeIsTrue /\ AppliedOnce
  BY DEF VerdictInv, Outcomes, OutcomeIsTrue, AppliedOnce
<1>2. ASSUME NEW s \in Streams, workers[s].by # NoRequest, rest[workers[s].by] = "rejected"
      PROVE  FALSE
  <2>1. workers[s].by \in Requests
    BY <1>2, TypeParts DEF StreamsOK, WorkerType, NoRequest
  <2>2. done[workers[s].by] = 0 /\ ~Pending(workers[s].by)
    BY <1>2, <2>1 DEF VerdictInv, Outcomes
  <2> QED BY <1>2, <2>1, <2>2 DEF VerdictInv, Owners, Pending
<1> QED BY <1>1, <1>2 DEF NoOrphanStreams

LEMMA InitVerdictInv == ControlAssumption /\ Init => VerdictInv
<1> SUFFICES ASSUME ControlAssumption, Init PROVE VerdictInv
  OBVIOUS
<1>1. /\ toDev = <<>> /\ toHub = <<>> /\ delivered = <<>> /\ seen = <<>>
      /\ opening = NoRequest /\ rest = [r \in Requests |-> "unsent"]
      /\ done = [r \in Requests |-> 0]
  BY DEF Init
<1>2. Len(<<>>) = 0 /\ DOMAIN <<>> = {}
  BY EmptySeq
<1>3. Decided = 0
  BY <1>1, <1>2 DEF Decided
<1>4. Queue /\ Memory /\ Verdicts
  BY <1>1, <1>2, <1>3 DEF Queue, Memory, Verdicts, Told, ToSet, ControlAssumption
<1>5. Outcomes
  BY <1>1 DEF Outcomes
<1>6. \A s \in Streams : workers[s].by = NoRequest
  BY DEF Init, FromFile, Worker, NoWorker
<1> QED BY <1>4, <1>5, <1>6 DEF VerdictInv, Owners

(* A recent command has its verdict remembered, unless it is the add that  *)
(* goes on.                                                                *)
LEMMA RecentIsSeen ==
  ASSUME ControlAssumption, TypeInv, Memory, NEW r, Recent(r)
  PROVE  IsSeen(r) \/ opening = r
<1>1. PICK i \in DOMAIN delivered : i > Len(delivered) - RetryWindow /\ delivered[i] = r
  BY DEF Recent
<1>2. delivered \in Seq(Requests) /\ seen \in Seq(Acks) /\ RetryWindow \in 0..SeenLimit
      /\ SeenLimit \in Nat /\ Len(seen) \in Nat /\ Len(delivered) \in Nat
  BY DEF TypeInv, TypeOK, ControlAssumption
<1>3. CASE opening # NoRequest /\ i = Len(delivered)
  BY <1>1, <1>3 DEF Memory
<1>4. CASE ~(opening # NoRequest /\ i = Len(delivered))
  <2>1. i \in 1..Decided /\ Decided \in Nat /\ Decided <= Len(delivered)
    BY <1>1, <1>2, <1>4 DEF Decided
  <2>2. Decided - Len(seen) < i
    BY <1>1, <1>2, <2>1 DEF Memory
  <2> DEFINE k == i - (Decided - Len(seen))
  <2>3. k \in 1..Len(seen) /\ Decided - Len(seen) + k = i
    BY <1>2, <2>1, <2>2
  <2>4. k \in DOMAIN seen /\ seen[k].request = delivered[Decided - Len(seen) + k]
    BY <1>2, <2>3 DEF Memory
  <2> QED BY <1>1, <2>3, <2>4 DEF IsSeen
<1> QED BY <1>3, <1>4

(* What is remembered is of this session, and not of the add going on.     *)
LEMMA SeenIsGiven ==
  ASSUME ControlAssumption, TypeInv, Memory, NEW r, IsSeen(r)
  PROVE  r \in Given /\ opening # r
<1>1. PICK k \in DOMAIN seen : seen[k].request = r
  BY DEF IsSeen
<1>2. delivered \in Seq(Requests) /\ seen \in Seq(Acks)
      /\ SeenLimit \in Nat /\ Len(seen) \in Nat /\ Len(delivered) \in Nat
  BY DEF TypeInv, TypeOK, ControlAssumption
<1>3. Decided \in Int /\ Decided <= Len(delivered) /\ Len(seen) <= Decided
  BY <1>2 DEF Decided, Memory
<1> DEFINE i == Decided - Len(seen) + k
<1>4. i \in 1..Decided /\ i \in DOMAIN delivered /\ delivered[i] = r
  BY <1>1, <1>2, <1>3 DEF Memory
<1>5. r \in Given
  BY <1>4 DEF Given, ToSet
<1>6. ASSUME opening = r PROVE FALSE
  <2>1. r \in Requests
    BY <1>2, <1>4
  <2>2. opening # NoRequest
    BY <1>6, <2>1 DEF ControlAssumption, NoRequest
  <2>3. Len(delivered) \in DOMAIN delivered /\ delivered[Len(delivered)] = delivered[i]
    BY <1>2, <1>4, <1>6, <2>2, EmptySeq DEF Memory
  <2>4. i = Len(delivered) /\ Decided = Len(delivered) - 1
    BY <1>4, <2>2, <2>3 DEF Memory, Decided
  <2> QED BY <1>2, <1>4, <2>4
<1> QED BY <1>5, <1>6

(* Pending requests only become fewer, and only they are applied.          *)
Progress ==
  \A r \in Requests :
    /\ Pending(r)' => Pending(r)
    /\ \/ done'[r] = done[r]
       \/ Pending(r) /\ ~Pending(r)' /\ done'[r] = done[r] + 1

LEMMA TruthStays ==
  ASSUME TypeInv, Progress, NEW a \in Acks, Truth(a)
  PROVE  Truth(a)'
<1>1. a.request \in Requests /\ {a.ok, a.fault} \subseteq BOOLEAN /\ done[a.request] \in Nat
  BY DEF Acks, TypeInv, TypeOK
<1>2. CASE a.ok
  BY <1>1, <1>2 DEF Truth, Progress
<1>3. CASE ~a.ok
  BY <1>1, <1>3 DEF Truth, Progress
<1> QED BY <1>2, <1>3

(* A REST call ends with an ack that was on its way, or without one.       *)
Answered ==
  \A r \in Requests :
    \/ rest'[r] = rest[r] \/ rest'[r] \notin {"ok", "rejected"}
    \/ \E i \in DOMAIN toHub :
         /\ toHub[i].request = r
         /\ rest'[r] = IF toHub[i].ok THEN "ok"
                       ELSE IF toHub[i].fault THEN "fault" ELSE "rejected"

LEMMA OutcomesStay ==
  ASSUME TypeInv, Verdicts, Outcomes, Progress, Answered
  PROVE  Outcomes'
<1> SUFFICES ASSUME NEW r \in Requests
             PROVE  /\ rest'[r] = "ok" => done'[r] > 0
                    /\ rest'[r] = "rejected" => done'[r] = 0 /\ ~Pending(r)'
                    /\ Pending(r)' => done'[r] = 0
                    /\ done'[r] <= 1
  BY DEF Outcomes
<1>1. done[r] \in Nat
  BY DEF TypeInv, TypeOK
<1>2. /\ rest[r] = "ok" => done[r] > 0
      /\ rest[r] = "rejected" => done[r] = 0 /\ ~Pending(r)
      /\ Pending(r) => done[r] = 0
      /\ done[r] <= 1
  BY DEF Outcomes
<1>3. /\ Pending(r)' => Pending(r)
      /\ \/ done'[r] = done[r]
         \/ Pending(r) /\ ~Pending(r)' /\ done'[r] = done[r] + 1
  BY DEF Progress
<1>4. (Pending(r)' => done'[r] = 0) /\ done'[r] <= 1
  BY <1>1, <1>2, <1>3
<1>5. CASE rest'[r] = rest[r] \/ rest'[r] \notin {"ok", "rejected"}
  BY <1>1, <1>2, <1>3, <1>4, <1>5
<1>6. ASSUME NEW i \in DOMAIN toHub, toHub[i].request = r,
             rest'[r] = IF toHub[i].ok THEN "ok"
                        ELSE IF toHub[i].fault THEN "fault" ELSE "rejected"
      PROVE  /\ rest'[r] = "ok" => done'[r] > 0
             /\ rest'[r] = "rejected" => done'[r] = 0 /\ ~Pending(r)'
  <2>1. toHub[i] \in Acks /\ Truth(toHub[i])
    BY DEF TypeInv, TypeOK, Verdicts, Told, ToSet
  <2>2. IF toHub[i].ok THEN done[r] > 0
        ELSE toHub[i].fault \/ (done[r] = 0 /\ ~Pending(r))
    BY <1>6, <2>1 DEF Truth
  <2> QED BY <1>1, <1>3, <1>6, <2>2
<1> QED BY <1>4, <1>5, <1>6 DEF Answered

(* No verdict is made up: an ack after the step is one from before it, or  *)
(* is true after it.                                                       *)
LEMMA VerdictsStay ==
  ASSUME TypeInv, Verdicts, Progress, \A a \in Told' : a \in Told \/ Truth(a)'
  PROVE  Verdicts'
<1>1. Told \subseteq Acks
  BY DEF Told, ToSet, TypeInv, TypeOK
<1>2. ASSUME NEW a \in Told PROVE Truth(a)'
  BY <1>1, <1>2, TruthStays DEF Verdicts
<1> QED BY <1>2 DEF Verdicts

(* What an answer adds to the acks told.                                   *)
LEMMA AnswerTold ==
  ASSUME ControlAssumption, TypeInv, NEW ack \in Acks, Answer(ack)
  PROVE  Told' \subseteq Told \cup {ack}
<1>1. Remember(ack) /\ toHub' = Append(toHub, ack) /\ toHub \in Seq(Acks)
      /\ seen \in Seq(Acks) /\ Len(seen) <= SeenLimit
  BY DEF Answer, TypeInv, TypeOK
<1>2. ToSet(toHub') \subseteq ToSet(toHub) \cup {ack}
  BY <1>1, AppendProperties DEF ToSet
<1>3. ASSUME NEW i \in DOMAIN seen' PROVE seen'[i] \in ToSet(seen) \cup {ack}
  <2>1. seen' \in Seq(Acks) /\ i \in 1..Len(seen') /\ Len(seen') \in Nat
    BY <1>1, <1>3, RememberFacts
  <2>2. CASE i = Len(seen')
    BY <1>1, <2>2, RememberFacts
  <2>3. CASE i \in 1..Len(seen') - 1
    BY <1>1, <2>3, RememberFacts DEF ToSet
  <2> QED BY <2>1, <2>2, <2>3
<1>4. ToSet(seen') \subseteq ToSet(seen) \cup {ack}
  BY <1>3 DEF ToSet
<1> QED BY <1>2, <1>4 DEF Told

(* The verdict of the next command joins those remembered.                 *)
LEMMA MemoryGrows ==
  ASSUME ControlAssumption, TypeInv, Memory, NEW ack \in Acks, Remember(ack),
         delivered' \in Seq(Requests), Decided' = Decided + 1,
         Decided + 1 \in DOMAIN delivered', delivered'[Decided + 1] = ack.request,
         \A i \in 1..Decided : delivered'[i] = delivered[i]
  PROVE  /\ Len(seen') = IF Decided' < SeenLimit THEN Decided' ELSE SeenLimit
         /\ \A i \in DOMAIN seen' : seen'[i].request = delivered'[Decided' - Len(seen') + i]
<1>1. /\ seen \in Seq(Acks) /\ Len(seen) <= SeenLimit /\ delivered \in Seq(Requests)
      /\ SeenLimit \in Nat \ {0} /\ Len(seen) \in Nat /\ Len(delivered) \in Nat
  BY DEF TypeInv, TypeOK, ControlAssumption
<1>2. /\ seen' \in Seq(Acks) /\ Len(seen') \in 1..SeenLimit
      /\ Len(seen') = IF Len(seen) < SeenLimit THEN Len(seen) + 1 ELSE SeenLimit
      /\ seen'[Len(seen')] = ack
      /\ \A i \in 1..Len(seen') - 1 : /\ i + (Len(seen) + 1 - Len(seen')) \in DOMAIN seen
                                      /\ seen'[i] = seen[i + (Len(seen) + 1 - Len(seen'))]
  BY <1>1, RememberFacts
<1>3. /\ Len(seen) = IF Decided < SeenLimit THEN Decided ELSE SeenLimit
      /\ \A i \in DOMAIN seen : seen[i].request = delivered[Decided - Len(seen) + i]
      /\ Decided \in Int
  <2>1. Decided \in Int
    BY <1>1 DEF Decided
  <2> QED BY <2>1 DEF Memory
<1>4. /\ Len(seen') = IF Decided + 1 < SeenLimit THEN Decided + 1 ELSE SeenLimit
      /\ Len(seen') \in Nat /\ Len(seen') <= Decided + 1
  BY <1>1, <1>2, <1>3
<1>5. ASSUME NEW i \in 1..Len(seen') - 1
      PROVE  seen'[i].request = delivered'[Decided + 1 - Len(seen') + i]
  <2> DEFINE k == i + (Len(seen) + 1 - Len(seen'))
  <2>1. k \in DOMAIN seen /\ seen'[i] = seen[k]
    BY <1>2
  <2>2. seen'[i].request = delivered[Decided - Len(seen) + k]
    BY <1>3, <2>1
  <2>3. Decided - Len(seen) + k = Decided + 1 - Len(seen') + i
    BY <1>1, <1>2, <1>3
  <2>4. Decided + 1 - Len(seen') + i \in 1..Decided
    <3>1. \A d \in Int, n \in Nat, j \in Int :
            j \in 1..n - 1 /\ n <= d + 1 => d + 1 - n + j \in 1..d
      OBVIOUS
    <3> QED BY <1>3, <1>4, <3>1
  <2> QED BY <2>2, <2>3, <2>4
<1>6. seen'[Len(seen')].request = delivered'[Decided + 1 - Len(seen') + Len(seen')]
  BY <1>1, <1>2, <1>3
<1>7. \A i \in DOMAIN seen' : i = Len(seen') \/ i \in 1..Len(seen') - 1
  BY <1>1, <1>2
<1>8. \A i \in DOMAIN seen' : seen'[i].request = delivered'[Decided + 1 - Len(seen') + i]
  BY <1>5, <1>6, <1>7
<1>9. Len(seen') = IF Decided' < SeenLimit THEN Decided' ELSE SeenLimit
  BY <1>4
<1>10. ASSUME NEW i \in DOMAIN seen'
       PROVE  seen'[i].request = delivered'[Decided' - Len(seen') + i]
  <2>1. Decided' - Len(seen') + i = Decided + 1 - Len(seen') + i
    BY <1>1, <1>2, <1>3
  <2> QED BY <1>8, <2>1
<1> QED BY <1>9, <1>10

LEMMA QuietVerdicts ==
  ASSUME TypeInv, VerdictInv,
         UNCHANGED <<cmd, rest, toDev, toHub, seen, opening, delivered, done>>,
         \A s \in Streams : workers'[s].by = workers[s].by
  PROVE  VerdictInv'
<1>1. Given' = Given /\ Fresh' = Fresh /\ Decided' = Decided /\ Told' = Told
  BY DEF Given, Fresh, Decided, Told
<1>2. \A r \in Requests : Pending(r)' <=> Pending(r)
  BY <1>1 DEF Pending
<1>3. Queue' /\ Memory' /\ Owners'
  BY <1>1 DEF VerdictInv, Queue, Memory, Owners, Recent
<1>4. Progress /\ Answered
  BY <1>2 DEF Progress, Answered
<1>5. Verdicts' /\ Outcomes'
  BY <1>1, <1>4, VerdictsStay, OutcomesStay DEF VerdictInv
<1> QED BY <1>3, <1>5 DEF VerdictInv

(* The hub's side of an answer: nothing becomes pending.                   *)
LEMMA HubVerdicts ==
  ASSUME ControlAssumption, TypeInv, VerdictInv, OnAck \/ \E r \in Requests : TimeOut(r)
  PROVE  VerdictInv'
<1>1. UNCHANGED <<cmd, toDev, seen, opening, workers, delivered, done>>
  BY DEF OnAck, TimeOut, wire, history
<1>2. rest \in [Requests -> Phase] /\ toHub \in Seq(Acks)
  BY DEF TypeInv, TypeOK, Messages
<1>3. Told' \subseteq Told /\ Answered /\ \A r \in Requests : rest'[r] = "unsent" <=> rest[r] = "unsent"
  <2>1. CASE OnAck
    <3>1. toHub # <<>> /\ toHub' = Tail(toHub) /\ 1 \in DOMAIN toHub /\ Head(toHub) = toHub[1]
      BY <1>2, <2>1 DEF OnAck
    <3>2. ToSet(toHub') \subseteq ToSet(toHub)
      BY <1>2, <3>1, HeadTailProperties DEF ToSet
    <3>3. \A r \in Requests :
            \/ rest'[r] = rest[r]
            \/ /\ toHub[1].request = r /\ rest[r] = "waiting"
               /\ rest'[r] = IF toHub[1].ok THEN "ok"
                             ELSE IF toHub[1].fault THEN "fault" ELSE "rejected"
      BY <1>2, <2>1, <3>1 DEF OnAck, Settles
    <3> QED BY <1>1, <3>1, <3>2, <3>3 DEF Told, Answered
  <2>2. CASE \E r \in Requests : TimeOut(r)
    BY <1>2, <2>2 DEF TimeOut, wire, Told, Answered
  <2> QED BY <2>1, <2>2
<1>4. Given' = Given /\ Fresh' = Fresh /\ Decided' = Decided
  BY <1>1 DEF Given, Fresh, Decided
<1>5. \A r \in Requests : Pending(r)' <=> Pending(r)
  BY <1>1, <1>3, <1>4 DEF Pending
<1>6. Queue' /\ Memory' /\ Owners'
  BY <1>1, <1>4 DEF VerdictInv, Queue, Memory, Owners, Recent
<1>7. Progress
  BY <1>1, <1>5 DEF Progress
<1>8. Verdicts' /\ Outcomes'
  BY <1>3, <1>7, VerdictsStay, OutcomesStay DEF VerdictInv
<1> QED BY <1>6, <1>8 DEF VerdictInv

(* A command is sent: it joins the fresh ones, or is lost.                 *)
LEMMA SendVerdicts ==
  ASSUME ControlAssumption, TypeInv, VerdictInv, NEW r \in Requests, NEW c \in Commands,
         Send(r, c)
  PROVE  VerdictInv'
<1>1. /\ rest[r] = "unsent" /\ cmd' = [cmd EXCEPT ![r] = c]
      /\ UNCHANGED <<toHub, seen, opening, workers, delivered, done>>
  BY DEF Send, history
<1>2. PICK raises \in BOOLEAN, sent \in BOOLEAN :
        /\ rest' = [rest EXCEPT ![r] = IF raises THEN "error" ELSE "waiting"]
        /\ toDev' = IF sent THEN Append(toDev, r) ELSE toDev
  BY DEF Send
<1>3. /\ toDev \in Seq(Sent) /\ delivered \in Seq(Sent) /\ rest \in [Requests -> Phase]
      /\ opening # NoRequest => opening \in Sent
      /\ cmd \in [Requests -> Commands \cup {NoCommand}] /\ Sent \subseteq Requests
      /\ toDev \in Seq(Requests)
  BY DEF TypeInv, TypeOK, Messages, Sent
<1>4. r \notin Sent /\ r # NoRequest /\ opening # r
  BY <1>1, <1>3 DEF Sent, ControlAssumption, NoRequest
<1>5. r \notin Given /\ r \notin ToSet(toDev) /\ Given \subseteq Sent /\ ToSet(toDev) \subseteq Sent
  BY <1>3, <1>4 DEF Given, ToSet
<1>6. Given' = Given /\ Decided' = Decided /\ Told' = Told
  BY <1>1 DEF Given, Decided, Told
<1>7. ToSet(toDev') \subseteq ToSet(toDev) \cup {r} /\ ToSet(toDev) \subseteq ToSet(toDev')
  BY <1>2, <1>3, AppendSet
<1>8. Fresh' \subseteq Fresh \cup {r} /\ Fresh \subseteq Fresh'
  BY <1>6, <1>7 DEF Fresh
<1>9. \A q \in Requests : Pending(q)' => Pending(q)
  BY <1>1, <1>2, <1>3, <1>8 DEF Pending
<1>10. Queue'
  <2>1. CASE toDev' = toDev
    BY <1>1, <1>6, <2>1 DEF VerdictInv, Queue, Recent
  <2>2. CASE toDev' = Append(toDev, r)
    <3>1. /\ Len(toDev') = Len(toDev) + 1 /\ toDev'[Len(toDev) + 1] = r
          /\ \A i \in 1..Len(toDev) : toDev'[i] = toDev[i]
          /\ toDev' \in Seq(Requests) /\ Len(toDev) \in Nat
      BY <1>3, <2>2, AppendProperties
    <3>2. ASSUME NEW i \in DOMAIN toDev', toDev'[i] \in Given
          PROVE  Recent(toDev'[i]) /\ \A j \in 1..i : toDev'[j] \in Given
      <4>1. i \in DOMAIN toDev /\ toDev'[i] = toDev[i] /\ i \in 1..Len(toDev)
        BY <1>3, <1>5, <3>1, <3>2
      <4>2. Recent(toDev[i]) /\ \A j \in 1..i : toDev[j] \in Given
        BY <3>2, <4>1 DEF VerdictInv, Queue
      <4>3. \A j \in 1..i : toDev'[j] = toDev[j]
        BY <3>1, <4>1
      <4> QED BY <4>1, <4>2, <4>3
    <3>3. ASSUME NEW i \in DOMAIN toDev', NEW j \in DOMAIN toDev', i < j, toDev'[i] = toDev'[j]
          PROVE  toDev'[i] \in Given
      <4>1. i \in DOMAIN toDev /\ toDev'[i] = toDev[i] /\ toDev[i] \in ToSet(toDev)
        BY <1>3, <3>1, <3>3 DEF ToSet
      <4>2. j # Len(toDev) + 1
        BY <1>5, <3>1, <3>3, <4>1
      <4>3. j \in DOMAIN toDev /\ toDev'[j] = toDev[j]
        BY <1>3, <3>1, <3>3, <4>2
      <4> QED BY <3>3, <4>1, <4>3 DEF VerdictInv, Queue
    <3> QED BY <1>1, <1>6, <3>2, <3>3 DEF Queue, Recent
  <2> QED BY <1>2, <2>1, <2>2
<1>11. Memory'
  BY <1>1, <1>6 DEF VerdictInv, Memory
<1>12. Owners'
  BY <1>1, <1>3, <1>4 DEF VerdictInv, Owners
<1>13. Progress /\ Answered
  BY <1>1, <1>2, <1>3, <1>9 DEF Progress, Answered
<1>14. Verdicts' /\ Outcomes'
  BY <1>6, <1>13, VerdictsStay, OutcomesStay DEF VerdictInv
<1> QED BY <1>10, <1>11, <1>12, <1>14 DEF VerdictInv

(* A repeat is put before the rest of the queue.                           *)
LEMMA RedeliverVerdicts ==
  ASSUME ControlAssumption, TypeInv, VerdictInv, Redeliver
  PROVE  VerdictInv'
<1>1. UNCHANGED <<cmd, rest, toHub, seen, opening, workers, delivered, done>>
  BY DEF Redeliver, rpc
<1>2. PICK k \in DOMAIN delivered :
        k > Len(delivered) - RetryWindow /\ toDev' = <<delivered[k]>> \o toDev
  BY DEF Redeliver
<1>3. toDev \in Seq(Requests) /\ delivered[k] \in Requests
  BY <1>2 DEF TypeInv, TypeOK
<1>4. Recent(delivered[k]) /\ delivered[k] \in Given
  BY <1>2 DEF Recent, Given, ToSet
<1>5. /\ ToSet(toDev') = ToSet(toDev) \cup {delivered[k]}
      /\ toDev' \in Seq(Requests) /\ Len(toDev') = Len(toDev) + 1 /\ toDev'[1] = delivered[k]
      /\ \A i \in 2..Len(toDev) + 1 : toDev'[i] = toDev[i - 1]
  BY <1>2, <1>3, ConsSet
<1>6. Given' = Given /\ Decided' = Decided /\ Told' = Told
  BY <1>1 DEF Given, Decided, Told
<1>7. Fresh' = Fresh
  BY <1>4, <1>5, <1>6 DEF Fresh
<1>8. \A r \in Requests : Pending(r)' <=> Pending(r)
  BY <1>1, <1>7 DEF Pending
<1>9. \A i \in DOMAIN toDev' : i # 1 =>
        i - 1 \in DOMAIN toDev /\ i \in 2..Len(toDev) + 1 /\ toDev'[i] = toDev[i - 1]
  BY <1>3, <1>5
<1>10. ASSUME NEW i \in DOMAIN toDev', toDev'[i] \in Given
       PROVE  Recent(toDev'[i]) /\ \A j \in 1..i : toDev'[j] \in Given
  <2>1. CASE i = 1
    BY <1>4, <1>5, <2>1
  <2>2. CASE i # 1
    <3>1. i - 1 \in DOMAIN toDev /\ toDev'[i] = toDev[i - 1] /\ i \in 2..Len(toDev) + 1
      BY <1>9, <2>2
    <3>2. Recent(toDev[i - 1]) /\ \A j \in 1..i - 1 : toDev[j] \in Given
      BY <1>10, <3>1 DEF VerdictInv, Queue
    <3>3. ASSUME NEW j \in 1..i, j # 1 PROVE j - 1 \in 1..i - 1 /\ toDev'[j] = toDev[j - 1]
      BY <1>3, <1>5, <3>1, <3>3
    <3> QED BY <1>4, <1>5, <3>1, <3>2, <3>3
  <2> QED BY <2>1, <2>2
<1>11. ASSUME NEW i \in DOMAIN toDev', NEW j \in DOMAIN toDev', i < j, toDev'[i] = toDev'[j]
       PROVE  toDev'[i] \in Given
  <2>1. CASE i = 1
    BY <1>4, <1>5, <2>1
  <2>2. CASE i # 1
    <3>1. j # 1
      BY <1>5, <1>11, <2>2
    <3>2. i - 1 \in DOMAIN toDev /\ j - 1 \in DOMAIN toDev /\ i - 1 < j - 1
          /\ toDev'[i] = toDev[i - 1] /\ toDev'[j] = toDev[j - 1]
      BY <1>5, <1>9, <1>11, <2>2, <3>1
    <3> QED BY <1>11, <3>2 DEF VerdictInv, Queue
  <2> QED BY <2>1, <2>2
<1>12. Queue'
  BY <1>1, <1>6, <1>10, <1>11 DEF Queue, Recent
<1>13. Memory' /\ Owners'
  BY <1>1, <1>6 DEF VerdictInv, Memory, Owners
<1>14. Progress /\ Answered
  BY <1>1, <1>8 DEF Progress, Answered
<1>15. Verdicts' /\ Outcomes'
  BY <1>6, <1>14, VerdictsStay, OutcomesStay DEF VerdictInv
<1> QED BY <1>12, <1>13, <1>15 DEF VerdictInv

(* A start forgets its verdicts together with the commands they are about. *)
LEMMA RestartVerdicts ==
  ASSUME ControlAssumption, TypeInv, VerdictInv, Restart
  PROVE  VerdictInv'
<1>1. /\ toDev' = <<>> /\ toHub' \in {toHub, <<>>} /\ seen' = <<>> /\ delivered' = <<>>
      /\ opening' = NoRequest /\ workers' = FromFile(file) /\ UNCHANGED <<cmd, rest, done>>
  BY DEF Restart, rpc
<1>2. Len(<<>>) = 0 /\ DOMAIN <<>> = {} /\ ToSet(<<>>) = {}
  BY EmptySeq DEF ToSet
<1>3. Given' = {} /\ Fresh' = {} /\ Decided' = 0 /\ Told' \subseteq Told
  BY <1>1, <1>2 DEF Given, Fresh, Decided, Told
<1>4. Queue'
  BY <1>1, <1>2 DEF Queue
<1>5. Memory'
  <2>1. DOMAIN delivered' = {} /\ DOMAIN seen' = {} /\ Len(seen') = 0 /\ opening' = NoRequest
    BY <1>1, <1>2
  <2> QED BY <1>3, <2>1 DEF Memory, ControlAssumption
<1>6. ASSUME NEW r \in Requests PROVE Pending(r)' => Pending(r)
  <2>1. r # NoRequest
    BY DEF ControlAssumption, NoRequest
  <2> QED BY <1>1, <1>3, <2>1 DEF Pending
<1>7. Progress /\ Answered
  BY <1>1, <1>6 DEF Progress, Answered
<1>8. Verdicts' /\ Outcomes'
  BY <1>3, <1>7, VerdictsStay, OutcomesStay DEF VerdictInv
<1>9. \A s \in Streams : workers'[s].by = NoRequest
  BY <1>1 DEF FromFile, Worker, NoWorker
<1>10. Owners'
  BY <1>9 DEF Owners
<1> QED BY <1>4, <1>5, <1>8, <1>10 DEF VerdictInv

(* The wait of an add ends: its verdict joins those remembered.            *)
LEMMA AddEndsVerdicts ==
  ASSUME ControlAssumption, TypeInv, VerdictInv, AddOpened \/ AddFails
  PROVE  VerdictInv'
<1> DEFINE s == cmd[opening].stream
<1>1. /\ opening # NoRequest /\ opening' = NoRequest
      /\ UNCHANGED <<cmd, rest, toDev, delivered>>
  BY DEF AddOpened, AddFails, rpc
<1>2. PICK r \in Requests : r = opening
  BY <1>1 DEF TypeInv, Messages, Sent
<1>3. PICK ack \in Acks :
        /\ ack.request = r /\ Answer(ack)
        /\ IF ack.ok \/ ack.fault
           THEN done' = [done EXCEPT ![r] = @ + 1] /\ workers' = workers
           ELSE done' = done /\ workers' = [workers EXCEPT ![s] = NoWorker]
  <2>1. CASE AddOpened
    <3> QED BY <1>2, <2>1, EndsFacts DEF AddOpened
  <2>2. CASE AddFails
    <3>1. Answer(AckOf(r, FALSE, FALSE)) /\ done' = done
          /\ workers' = [workers EXCEPT ![s] = NoWorker]
      BY <1>2, <2>2 DEF AddFails, Withdrawn
    <3> QED BY <3>1, Refusal
  <2> QED BY <2>1, <2>2
<1>4. /\ delivered \in Seq(Requests) /\ toDev \in Seq(Requests)
      /\ done \in [Requests -> Nat] /\ workers \in [Streams -> WorkerType]
  BY TypeParts DEF TypeInv, TypeOK, StreamsOK
<1>5. Len(delivered) \in DOMAIN delivered /\ delivered[Len(delivered)] = r
      /\ Decided = Len(delivered) - 1 /\ Decided' = Len(delivered)
  BY <1>1, <1>2, <1>4, EmptySeq DEF VerdictInv, Memory, Decided
<1>6. r \in Given /\ Given' = Given /\ Fresh' = Fresh
  BY <1>1, <1>5 DEF Given, Fresh, ToSet
<1>7. Queue'
  BY <1>1, <1>6 DEF VerdictInv, Queue, Recent
<1>8. Memory'
  <2>1. /\ Decided' = Decided + 1 /\ Decided + 1 \in DOMAIN delivered'
        /\ delivered' \in Seq(Requests)
        /\ delivered'[Decided + 1] = ack.request /\ Remember(ack)
        /\ \A i \in 1..Decided : delivered'[i] = delivered[i]
    BY <1>1, <1>3, <1>4, <1>5 DEF Answer
  <2>2. /\ Len(seen') = IF Decided' < SeenLimit THEN Decided' ELSE SeenLimit
        /\ \A i \in DOMAIN seen' : seen'[i].request = delivered'[Decided' - Len(seen') + i]
    BY <2>1, MemoryGrows DEF VerdictInv
  <2> QED BY <1>1, <2>2 DEF VerdictInv, Memory
<1>9. rest[r] # "unsent" /\ Pending(r) /\ done[r] = 0
  BY <1>1, <1>2 DEF Pending, VerdictInv, Outcomes, TypeInv, Messages, Sent
<1>10. ~Pending(r)' /\ \A q \in Requests : q # r => (Pending(q)' <=> Pending(q))
  <2>1. r # NoRequest /\ \A q \in Requests : q # NoRequest
    BY DEF ControlAssumption, NoRequest
  <2>2. r \notin Fresh
    BY <1>6 DEF Fresh
  <2> QED BY <1>1, <1>2, <1>6, <1>9, <2>1, <2>2 DEF Pending
<1>11. Progress /\ Answered
  <2>1. done' = done \/ done' = [done EXCEPT ![r] = @ + 1]
    BY <1>3
  <2> QED BY <1>1, <1>4, <1>9, <1>10, <2>1 DEF Progress, Answered
<1>12. Truth(ack)'
  BY <1>3, <1>4, <1>9, <1>10 DEF Truth
<1>13. Verdicts' /\ Outcomes'
  <2>1. Told' \subseteq Told \cup {ack}
    BY <1>3, AnswerTold
  <2>2. ASSUME NEW a \in Told' PROVE a \in Told \/ Truth(a)'
    <3>1. ack' = ack
      OBVIOUS
    <3> QED BY <1>12, <2>1, <3>1
  <2> QED BY <1>11, <2>2, VerdictsStay, OutcomesStay DEF VerdictInv
<1>14. Owners'
  <2> SUFFICES ASSUME NEW t \in Streams, workers'[t].by # NoRequest
               PROVE  done'[workers'[t].by] > 0
    BY DEF Owners
  <2>1. CASE ack.ok \/ ack.fault
    <3>1. /\ workers'[t].by = r \/ done[workers'[t].by] > 0
          /\ workers'[t].by \in Requests
      BY <1>2, <1>3, <1>4, <2>1 DEF VerdictInv, Owners, WorkerType, NoRequest
    <3>2. \A q \in Requests : q = r \/ done[q] > 0 => done'[q] > 0
      BY <1>3, <1>4, <2>1
    <3> QED BY <3>1, <3>2
  <2>2. CASE ~(ack.ok \/ ack.fault)
    <3>1. t # s
      BY <1>3, <1>4, <2>2 DEF NoWorker
    <3>2. workers'[t] = workers[t] /\ done' = done
      BY <1>3, <1>4, <2>2, <3>1
    <3> QED BY <1>2, <3>1, <3>2 DEF VerdictInv, Owners
  <2> QED BY <2>1, <2>2
<1> QED BY <1>7, <1>8, <1>13, <1>14 DEF VerdictInv

(* A repeat is answered with the verdict that is remembered.               *)
LEMMA RepeatVerdicts ==
  ASSUME ControlAssumption, TypeInv, VerdictInv, Handle, IsSeen(Head(toDev))
  PROVE  VerdictInv'
<1>1. /\ toDev # <<>> /\ toDev' = Tail(toDev)
      /\ UNCHANGED <<cmd, rest, seen, opening, workers, delivered, done>>
  BY DEF Handle, rpc
<1>2. PICK k \in DOMAIN seen : toHub' = Append(toHub, seen[k])
  BY DEF Handle
<1>3. toDev \in Seq(Requests) /\ toHub \in Seq(Acks) /\ seen \in Seq(Acks) /\ seen[k] \in Acks
  BY <1>2 DEF TypeInv, TypeOK
<1>4. Given' = Given /\ Decided' = Decided
  BY <1>1 DEF Given, Decided
<1>5. Told' \subseteq Told
  <2>1. ToSet(toHub') = ToSet(toHub) \cup {seen[k]}
    BY <1>2, <1>3, AppendSet
  <2>2. seen[k] \in ToSet(seen)
    BY <1>2 DEF ToSet
  <2> QED BY <1>1, <2>1, <2>2 DEF Told
<1>6. Head(toDev) \in Given
  BY SeenIsGiven DEF VerdictInv
<1>7. ToSet(toDev) = ToSet(toDev') \cup {Head(toDev)}
  BY <1>1, <1>3, TailSet
<1>8. Fresh' = Fresh
  BY <1>4, <1>6, <1>7 DEF Fresh
<1>9. /\ toDev' \in Seq(Requests)
      /\ \A i \in DOMAIN toDev' : i + 1 \in DOMAIN toDev /\ toDev'[i] = toDev[i + 1]
      /\ DOMAIN toDev' \subseteq Nat
  BY <1>1, <1>3, HeadTailProperties
<1>10. ASSUME NEW i \in DOMAIN toDev', toDev'[i] \in Given
       PROVE  Recent(toDev'[i]) /\ \A j \in 1..i : toDev'[j] \in Given
  <2>1. Recent(toDev[i + 1]) /\ \A j \in 1..i + 1 : toDev[j] \in Given
    BY <1>9, <1>10 DEF VerdictInv, Queue
  <2>2. \A j \in 1..i : j \in DOMAIN toDev' /\ j + 1 \in 1..i + 1
    BY <1>9
  <2> QED BY <1>9, <2>1, <2>2
<1>11. ASSUME NEW i \in DOMAIN toDev', NEW j \in DOMAIN toDev', i < j, toDev'[i] = toDev'[j]
       PROVE  toDev'[i] \in Given
  <2>1. i + 1 < j + 1 /\ toDev[i + 1] = toDev[j + 1]
    BY <1>9, <1>11
  <2> QED BY <1>9, <2>1 DEF VerdictInv, Queue
<1>12. Queue'
  BY <1>1, <1>4, <1>10, <1>11 DEF Queue, Recent
<1>13. Memory' /\ Owners'
  BY <1>1, <1>4 DEF VerdictInv, Memory, Owners
<1>14. Progress /\ Answered
  BY <1>1, <1>8 DEF Progress, Answered, Pending
<1>15. Verdicts' /\ Outcomes'
  BY <1>5, <1>14, VerdictsStay, OutcomesStay DEF VerdictInv
<1> QED BY <1>12, <1>13, <1>15 DEF VerdictInv

(* The first delivery of a command: no repeats are left in the queue, and  *)
(* it is the only copy.                                                    *)
LEMMA FirstDelivery ==
  ASSUME ControlAssumption, TypeInv, VerdictInv, Handle, ~IsSeen(Head(toDev))
  PROVE  /\ Head(toDev) \in Requests /\ Head(toDev) # NoRequest
         /\ Head(toDev) \in Fresh /\ Head(toDev) \notin Given
         /\ Given' = Given \cup {Head(toDev)} /\ Fresh' = Fresh \ {Head(toDev)}
         /\ delivered' \in Seq(Requests) /\ Len(delivered') = Len(delivered) + 1
         /\ delivered'[Len(delivered')] = Head(toDev)
         /\ \A i \in 1..Len(delivered) : delivered'[i] = delivered[i]
         /\ \A i, j \in DOMAIN delivered' : delivered'[i] = delivered'[j] => i = j
         /\ Queue'
<1> DEFINE r == Head(toDev)
<1>1. /\ toDev # <<>> /\ toDev' = Tail(toDev) /\ opening = NoRequest
      /\ delivered' = Append(delivered, r)
  BY DEF Handle
<1>2. toDev \in Seq(Requests) /\ delivered \in Seq(Requests)
      /\ r \in Requests /\ r # NoRequest /\ 1 \in DOMAIN toDev /\ toDev[1] = r
  BY <1>1, HeadTailProperties DEF TypeInv, TypeOK, ControlAssumption, NoRequest
<1>3. r \notin Given
  <2> SUFFICES ASSUME r \in Given PROVE FALSE
    OBVIOUS
  <2>1. Recent(r)
    BY <1>2 DEF VerdictInv, Queue
  <2> QED BY <1>1, <1>2, <2>1, RecentIsSeen DEF VerdictInv
<1>4. ToSet(toDev) = ToSet(toDev') \cup {r}
  BY <1>1, <1>2, TailSet
<1>5. /\ toDev' \in Seq(Requests)
      /\ \A i \in DOMAIN toDev' : i + 1 \in DOMAIN toDev /\ toDev'[i] = toDev[i + 1]
      /\ DOMAIN toDev' \subseteq Nat \ {0}
  BY <1>1, <1>2, HeadTailProperties
<1>6. r \notin ToSet(toDev')
  <2> SUFFICES ASSUME NEW i \in DOMAIN toDev', toDev'[i] = r PROVE FALSE
    BY DEF ToSet
  <2>1. i + 1 \in DOMAIN toDev /\ toDev[i + 1] = toDev[1] /\ 1 < i + 1
    BY <1>2, <1>5
  <2> QED BY <1>2, <1>3, <2>1 DEF VerdictInv, Queue
<1>7. Given' = Given \cup {r}
  BY <1>1, <1>2, AppendSet DEF Given
<1>8. Fresh' = Fresh \ {r} /\ r \in Fresh
  BY <1>3, <1>4, <1>6, <1>7 DEF Fresh
<1>9. /\ delivered' \in Seq(Requests) /\ Len(delivered') = Len(delivered) + 1
      /\ delivered'[Len(delivered) + 1] = r
      /\ \A i \in 1..Len(delivered) : delivered'[i] = delivered[i]
  BY <1>1, <1>2, AppendProperties
<1>10. \A i, j \in DOMAIN delivered' : delivered'[i] = delivered'[j] => i = j
  <2>1. \A i \in 1..Len(delivered) : delivered'[i] # r
    BY <1>2, <1>3, <1>9 DEF Given, ToSet
  <2>2. DOMAIN delivered' = 1..Len(delivered) + 1 /\ Len(delivered) \in Nat
        /\ DOMAIN delivered = 1..Len(delivered)
    BY <1>2, <1>9
  <2>3. \A i, j \in DOMAIN delivered : delivered[i] = delivered[j] => i = j
    BY DEF VerdictInv, Memory
  <2> QED BY <1>9, <2>1, <2>2, <2>3
<1>11. \A i \in DOMAIN toDev' : toDev'[i] \notin Given'
  <2> SUFFICES ASSUME NEW i \in DOMAIN toDev', toDev'[i] \in Given' PROVE FALSE
    OBVIOUS
  <2>1. toDev'[i] # r
    BY <1>6 DEF ToSet
  <2>2. i + 1 \in DOMAIN toDev /\ toDev[i + 1] \in Given /\ 1 \in 1..i + 1
    BY <1>5, <1>7, <2>1
  <2> QED BY <1>2, <1>3, <2>2 DEF VerdictInv, Queue
<1>12. \A i, j \in DOMAIN toDev' : i < j => toDev'[i] # toDev'[j]
  <2> SUFFICES ASSUME NEW i \in DOMAIN toDev', NEW j \in DOMAIN toDev',
                      i < j, toDev'[i] = toDev'[j]
               PROVE  FALSE
    OBVIOUS
  <2>1. i + 1 \in DOMAIN toDev /\ j + 1 \in DOMAIN toDev /\ i + 1 < j + 1
        /\ toDev[i + 1] = toDev[j + 1] /\ toDev'[i] = toDev[i + 1]
    BY <1>5
  <2>2. toDev[i + 1] \in Given
    BY <2>1 DEF VerdictInv, Queue
  <2> QED BY <1>7, <1>11, <2>1, <2>2
<1>13. Queue'
  BY <1>11, <1>12 DEF Queue
<1> QED BY <1>2, <1>3, <1>7, <1>8, <1>9, <1>10, <1>13

(* A command is decided at its first delivery, or its add begins.          *)
LEMMA FirstVerdicts ==
  ASSUME ControlAssumption, TypeInv, VerdictInv, Handle, ~IsSeen(Head(toDev))
  PROVE  VerdictInv'
<1>0. PICK r \in Requests : r = Head(toDev)
  BY FirstDelivery
<1> DEFINE s == cmd[r].stream
<1>1. /\ r \in Requests /\ r # NoRequest /\ r \in Fresh /\ r \notin Given
      /\ Given' = Given \cup {r} /\ Fresh' = Fresh \ {r}
      /\ delivered' \in Seq(Requests) /\ Len(delivered') = Len(delivered) + 1
      /\ delivered'[Len(delivered')] = r
      /\ \A i \in 1..Len(delivered) : delivered'[i] = delivered[i]
      /\ \A i, j \in DOMAIN delivered' : delivered'[i] = delivered'[j] => i = j
      /\ Queue'
  BY <1>0, FirstDelivery
<1>2. /\ opening = NoRequest /\ UNCHANGED <<cmd, rest>>
      /\ \/ cmd[r].op = "set_conf_threshold" /\ SetThreshold(r, s)
         \/ cmd[r].op = "remove_stream" /\ RemoveStream(r, s)
         \/ cmd[r].op = "add_stream" /\ AddStream(r, s)
  BY <1>0 DEF Handle, rpc
<1>3. /\ delivered \in Seq(Requests) /\ Len(delivered) \in Nat
      /\ done \in [Requests -> Nat] /\ workers \in [Streams -> WorkerType]
      /\ Decided = Len(delivered) /\ toDev \in Seq(Sent)
  <2>1. delivered \in Seq(Requests) /\ done \in [Requests -> Nat]
    BY DEF TypeInv, TypeOK
  <2>2. workers \in [Streams -> WorkerType] /\ toDev \in Seq(Sent)
    BY TypeParts DEF StreamsOK, Messages
  <2>3. Decided = Len(delivered)
    BY <1>2 DEF Decided
  <2> QED BY <2>1, <2>2, <2>3
<1>4. rest[r] # "unsent" /\ Pending(r) /\ done[r] = 0
  BY <1>1, <1>3 DEF Fresh, ToSet, Sent, Pending, VerdictInv, Outcomes
<1>5. Answered
  BY <1>2 DEF Answered
<1>6. ASSUME NEW ack \in Acks, ack.request = r, Answer(ack), opening' = NoRequest,
             IF ack.ok \/ ack.fault THEN done' = [done EXCEPT ![r] = @ + 1]
             ELSE done' = done,
             \A t \in Streams : \/ workers'[t].by \in {workers[t].by, NoRequest}
                                \/ (workers'[t].by = r /\ (ack.ok \/ ack.fault))
      PROVE  VerdictInv'
  <2>1. ~Pending(r)' /\ \A q \in Requests : q # r => (Pending(q)' <=> Pending(q))
    <3>1. \A q \in Requests : q # NoRequest
      BY DEF ControlAssumption, NoRequest
    <3> QED BY <1>1, <1>2, <1>4, <1>6, <3>1 DEF Pending
  <2>2. Progress
    <3>1. done' = done \/ done' = [done EXCEPT ![r] = @ + 1]
      BY <1>6
    <3> QED BY <1>1, <1>3, <1>4, <2>1, <3>1 DEF Progress
  <2>3. Truth(ack)'
    BY <1>1, <1>3, <1>4, <1>6, <2>1 DEF Truth
  <2>4. Told' \subseteq Told \cup {ack}
    BY <1>6, AnswerTold
  <2>5. ASSUME NEW a \in Told' PROVE a \in Told \/ Truth(a)'
    BY <2>3, <2>4
  <2>6. Verdicts' /\ Outcomes'
    BY <1>5, <2>2, <2>5, VerdictsStay, OutcomesStay DEF VerdictInv
  <2>7. Memory'
    <3>1. /\ Decided' = Decided + 1 /\ Decided + 1 \in DOMAIN delivered'
          /\ delivered'[Decided + 1] = ack.request /\ Remember(ack)
          /\ \A i \in 1..Decided : delivered'[i] = delivered[i]
      BY <1>1, <1>3, <1>6 DEF Answer, Decided
    <3>2. /\ Len(seen') = IF Decided' < SeenLimit THEN Decided' ELSE SeenLimit
          /\ \A i \in DOMAIN seen' : seen'[i].request = delivered'[Decided' - Len(seen') + i]
      BY <1>1, <3>1, MemoryGrows DEF VerdictInv
    <3> QED BY <1>1, <1>6, <3>2 DEF Memory
  <2>8. Owners'
    <3> SUFFICES ASSUME NEW t \in Streams, workers'[t].by # NoRequest
                 PROVE  done'[workers'[t].by] > 0
      BY DEF Owners
    <3>1. CASE workers'[t].by = r /\ (ack.ok \/ ack.fault)
      BY <1>1, <1>3, <1>4, <1>6, <3>1
    <3>2. ASSUME NEW q \in Requests, done[q] > 0 PROVE done'[q] > 0
      <4>1. done[q] \in Nat /\ (done'[q] = done[q] \/ done'[q] = done[q] + 1)
        BY <1>3, <2>2 DEF Progress
      <4> QED BY <3>2, <4>1
    <3>3. CASE workers'[t].by = workers[t].by
      <4>1. workers[t].by \in Requests
        BY <1>3, <3>3 DEF WorkerType, NoRequest
      <4>2. done[workers[t].by] > 0
        BY <1>2, <3>3 DEF VerdictInv, Owners
      <4> QED BY <3>3, <3>2, <4>1, <4>2
    <3> QED BY <1>6, <3>1, <3>3
  <2> QED BY <1>1, <2>6, <2>7, <2>8 DEF VerdictInv
<1>7. CASE Refuse(r)
  <2>1. Answer(AckOf(r, FALSE, FALSE)) /\ UNCHANGED <<opening, workers, done>>
    BY <1>7 DEF Refuse
  <2>2. PICK ack \in Acks : ack = AckOf(r, FALSE, FALSE)
    BY <1>1, Refusal
  <2>3. ack.request = r /\ ack.ok = FALSE /\ ack.fault = FALSE /\ Answer(ack)
    BY <1>1, <2>1, <2>2, Refusal
  <2> QED BY <1>2, <1>6, <2>1, <2>3
<1>8. ASSUME NEW new, Ends(r, new), opening' = opening,
             \A t \in Streams : new[t].by \in {workers[t].by, NoRequest, r}
      PROVE  VerdictInv'
  <2>1. PICK ack \in Acks : ack.request = r /\ (ack.ok \/ ack.fault) /\ Answer(ack)
    BY <1>1, <1>8, EndsFacts
  <2>2. done' = [done EXCEPT ![r] = @ + 1] /\ workers' = new
    BY <1>1, <1>8, EndsFacts
  <2> QED BY <1>2, <1>6, <1>8, <2>1, <2>2
<1>9. CASE SetThreshold(r, s) /\ s \in Running
  <2>1. Ends(r, [workers EXCEPT ![s].conf = r]) /\ opening' = opening
    BY <1>9 DEF SetThreshold
  <2>2. ASSUME NEW t \in Streams
        PROVE  [workers EXCEPT ![s].conf = r][t].by = workers[t].by
    <3>1. workers[t] \in WorkerType
      BY <1>3
    <3>2. [workers[t] EXCEPT !.conf = r].by = workers[t].by
      BY <3>1 DEF WorkerType
    <3>3. [workers EXCEPT ![s].conf = r][t] \in {workers[t], [workers[t] EXCEPT !.conf = r]}
      BY <1>3
    <3> QED BY <3>2, <3>3
  <2> QED BY <1>8, <2>1, <2>2
<1>10. CASE RemoveStream(r, s) /\ s \in Running
  <2>1. Ends(r, [workers EXCEPT ![s] = NoWorker]) /\ opening' = opening
    BY <1>10 DEF RemoveStream
  <2>2. \A t \in Streams :
          [workers EXCEPT ![s] = NoWorker][t].by \in {workers[t].by, NoRequest}
    BY <1>3 DEF NoWorker
  <2> QED BY <1>8, <2>1, <2>2
<1>11. CASE StartRaises(r, s)
  <2>1. Ends(r, [workers EXCEPT ![s] = Unstarted(r)]) /\ opening' = opening
    BY <1>11 DEF StartRaises, Ends
  <2>2. \A t \in Streams : [workers EXCEPT ![s] = Unstarted(r)][t].by \in {workers[t].by, r}
    BY <1>1, <1>3, UnstartedRecord
  <2> QED BY <1>8, <2>1, <2>2
<1>12. CASE AddStream(r, s) /\ ~Refuse(r) /\ ~StartRaises(r, s)
  <2>1. /\ workers' = [workers EXCEPT ![s] = Worker(0, r)] /\ opening' = r
        /\ UNCHANGED <<toHub, seen, done>>
    BY <1>12 DEF AddStream
  <2>2. \A q \in Requests : Pending(q)' <=> Pending(q)
    <3>1. \A q \in Requests : q # NoRequest
      BY DEF ControlAssumption, NoRequest
    <3> QED BY <1>1, <1>2, <1>4, <2>1, <3>1 DEF Pending
  <2>3. Progress /\ Told' = Told
    BY <2>1, <2>2 DEF Progress, Told
  <2>4. Verdicts' /\ Outcomes'
    BY <1>5, <2>3, VerdictsStay, OutcomesStay DEF VerdictInv
  <2>5. Decided' = Decided
    BY <1>1, <1>3, <2>1 DEF Decided
  <2>6. Memory'
    <3>1. opening' # NoRequest => delivered' # <<>> /\ delivered'[Len(delivered')] = opening'
      BY <1>1, <1>3, <2>1, EmptySeq
    <3>2. Len(seen') = IF Decided' < SeenLimit THEN Decided' ELSE SeenLimit
      BY <2>1, <2>5 DEF VerdictInv, Memory
    <3>3. ASSUME NEW i \in DOMAIN seen'
          PROVE  seen'[i].request = delivered'[Decided - Len(seen) + i]
      <4>1. seen \in Seq(Acks) /\ i \in 1..Len(seen) /\ Len(seen) \in Nat /\ Len(seen) <= Decided
        BY <1>3, <2>1 DEF TypeInv, TypeOK, VerdictInv, Memory
      <4>2. Decided - Len(seen) + i \in 1..Len(delivered)
        BY <1>3, <4>1
      <4>3. seen[i].request = delivered[Decided - Len(seen) + i]
        BY <2>1 DEF VerdictInv, Memory
      <4> QED BY <1>1, <2>1, <4>2, <4>3
    <3> QED BY <1>1, <2>1, <2>5, <3>1, <3>2, <3>3 DEF Memory
  <2>7. Owners'
    <3> SUFFICES ASSUME NEW t \in Streams, workers'[t].by # NoRequest
                 PROVE  \/ opening' = workers'[t].by /\ cmd'[workers'[t].by].stream = t
                        \/ done'[workers'[t].by] > 0
      BY DEF Owners
    <3>1. CASE t = s
      BY <1>2, <1>3, <2>1, <3>1 DEF Worker
    <3>2. CASE t # s
      BY <1>2, <1>3, <2>1, <3>2 DEF VerdictInv, Owners
    <3> QED BY <3>1, <3>2
  <2> QED BY <1>1, <2>4, <2>6, <2>7 DEF VerdictInv
<1> QED BY <1>2, <1>7, <1>9, <1>10, <1>11, <1>12 DEF SetThreshold, RemoveStream

LEMMA NextVerdictInv == ControlAssumption /\ TypeInv /\ VerdictInv /\ [Next]_vars => VerdictInv'
<1> SUFFICES ASSUME ControlAssumption, TypeInv, VerdictInv, [Next]_vars PROVE VerdictInv'
  OBVIOUS
<1>1. CASE OnStatus \/ Heartbeat \/ (\E s \in Streams : GhostEnds(s)) \/ UNCHANGED vars
  <2>1. UNCHANGED <<cmd, rest, toDev, toHub, seen, opening, workers, delivered, done>>
    BY <1>1 DEF OnStatus, Heartbeat, GhostEnds, vars, rpc, wire, history
  <2> QED BY <2>1, QuietVerdicts
<1>2. ASSUME NEW s \in Streams, Capture(s) PROVE VerdictInv'
  <2>1. /\ UNCHANGED <<cmd, rest, toDev, toHub, seen, opening, delivered, done>>
        /\ workers' = [workers EXCEPT ![s].st = "open", ![s].frame = @ + 1]
    BY <1>2 DEF Capture, rpc, wire
  <2>2. \A t \in Streams : workers[t] \in WorkerType
    BY TypeParts DEF StreamsOK
  <2>3. \A t \in Streams : workers'[t].by = workers[t].by
    BY <2>1, <2>2, TypeParts DEF WorkerType, StreamsOK
  <2> QED BY <2>1, <2>3, QuietVerdicts
<1>3. CASE Handle
  BY <1>3, RepeatVerdicts, FirstVerdicts
<1>4. CASE OnAck \/ OnStatus \/ AddOpened \/ AddFails \/ Heartbeat \/ Redeliver \/ Restart
  BY <1>1, <1>4, HubVerdicts, AddEndsVerdicts, RedeliverVerdicts, RestartVerdicts
<1>5. ASSUME NEW r \in Requests, (\E c \in Commands : Send(r, c)) \/ TimeOut(r)
      PROVE  VerdictInv'
  BY <1>5, SendVerdicts, HubVerdicts
<1> QED BY <1>1, <1>2, <1>3, <1>4, <1>5 DEF Next

LEMMA VerdictsHold == Spec => [](TypeInv /\ VerdictInv)
<1>1. Init => TypeInv /\ VerdictInv
  BY ControlAssumption, InitTypeInv, InitVerdictInv
<1>2. TypeInv /\ VerdictInv /\ [Next]_vars => (TypeInv /\ VerdictInv)'
  BY ControlAssumption, NextTypeInv, NextVerdictInv
<1> QED BY <1>1, <1>2, PTL DEF Spec

(* Whatever is sent, lost, delivered again, answered late or cut short by  *)
(* a restart or an exception, a caller who is told 200 has a change that   *)
(* came into force and one who is told 409 with the reason of a refusal    *)
(* changed nothing (control.py on_ack).                                    *)
THEOREM CallersAreToldTheTruth == Spec => []OutcomeIsTrue
  BY VerdictsHold, VerdictsGive, PTL

(* A command is applied at most once, as long as what QoS1 delivers again  *)
(* is among the latest SeenLimit commands (esk_core/control.py handle,     *)
(* _remember).                                                             *)
THEOREM NoneAppliedTwice == Spec => []AppliedOnce
  BY VerdictsHold, VerdictsGive, PTL

(* An add that was refused or did not open leaves no capture loop in the   *)
(* registry; one that raised is no refusal (supervisor.py _cmd_add_stream, *)
(* esk_core/control.py handle).                                            *)
THEOREM RefusedLeaveNothing == Spec => []NoOrphanStreams
  BY VerdictsHold, VerdictsGive, PTL
=============================================================================
