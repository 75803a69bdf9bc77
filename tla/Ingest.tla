------------------------------- MODULE Ingest -------------------------------
(***************************************************************************)
(* The hub's one MQTT connection (mqtt_ingest.py): its loop of connecting, *)
(* subscribing, dispatching and backing off, the checks a message passes   *)
(* before a handler sees it (validation.py), and the counters that         *)
(* GET /api/health shows.                                                  *)
(*                                                                         *)
(* The loop awaits each handler, so messages are handled one at a time.    *)
(* The broker may cut the connection at any moment; the loop learns of it  *)
(* when it next asks for a message.  Without a persistent session, what is *)
(* published while the hub is not subscribed is lost.                      *)
(***************************************************************************)
EXTENDS Naturals, Sequences, FiniteSets

CONSTANTS
  MaxMessages,      \* bound on the messages ever published
  MaxCuts,          \* bound on the cuts and refused connections
  BackoffCap        \* 30 s: the longest wait before a connection attempt

(* What a message looks like: its topic's kind and what is wrong with it.  *)
Families == {"json", "snapshot"}
Faults == {"none", "topic", "payload", "device"}
Message == [n : 1..MaxMessages, family : Families, fault : Faults]

ASSUME IngestAssumption ==
  MaxMessages \in Nat /\ MaxCuts \in Nat /\ BackoffCap \in Nat \ {0}

VARIABLES
  loop,             \* where _run stands: "first" attempt, "waiting" for the
                    \* next, "subscribing", "ready", "handling", "stopped"
  link,             \* TRUE: the connection is up, as the broker sees it
  connected,        \* MqttIngest.connected
  backoff,          \* the local of that name: seconds of the wait
  inbox,            \* messages on the connection
  counts,           \* messages, accepted, failures and handler_errors
  published,        \* history: messages published so far
  handled,          \* history: the messages the handlers were given
  mismatched,       \* history: accepted, then refused for their device id
  cuts

ingestVars == <<loop, link, connected, backoff, inbox, counts, published,
                handled, mismatched, cuts>>

IngestInit ==
  /\ loop = "first" /\ link = FALSE /\ connected = FALSE
  /\ backoff = 1
  /\ inbox = <<>>
  /\ counts = [messages |-> 0, accepted |-> 0, failures |-> 0, errors |-> 0]
  /\ published = 0 /\ handled = <<>> /\ mismatched = 0
  /\ cuts = 0

Lesser(a, b) == IF a < b THEN a ELSE b

Doubled == Lesser(2 * backoff, BackoffCap)

-----------------------------------------------------------------------------
(* A device publishes, on the topics the hub subscribes to.                *)
Publish(family, fault) ==
  /\ published < MaxMessages
  /\ published' = published + 1
  /\ inbox' = IF link /\ loop # "subscribing"
              THEN Append(inbox, [n |-> published + 1, family |-> family,
                                  fault |-> fault])
              ELSE inbox
  /\ UNCHANGED <<loop, link, connected, backoff, counts, handled, mismatched,
                 cuts>>

(* Mutant: the loop does not try again.                                    *)
ConnectIngest_Once ==
  /\ loop = "first"
  /\ loop' = "subscribing" /\ link' = TRUE /\ connected' = TRUE
  /\ backoff' = 1
  /\ UNCHANGED <<inbox, counts, published, handled, mismatched, cuts>>

(* The broker answers an attempt: connected before the topics are          *)
(* subscribed, and the backoff starts over.                                *)
ConnectIngest ==
  /\ loop \in {"first", "waiting"}
  /\ loop' = "subscribing" /\ link' = TRUE /\ connected' = TRUE
  /\ backoff' = 1
  /\ UNCHANGED <<inbox, counts, published, handled, mismatched, cuts>>

(* It does not: after a first wait of one second each is twice as long.    *)
ConnectRefused ==
  /\ loop \in {"first", "waiting"} /\ cuts < MaxCuts
  /\ cuts' = cuts + 1
  /\ loop' = "waiting"
  /\ backoff' = IF loop = "first" THEN backoff ELSE Doubled
  /\ UNCHANGED <<link, connected, inbox, counts, published, handled,
                 mismatched>>

Subscribed ==
  /\ loop = "subscribing" /\ link
  /\ loop' = "ready"
  /\ UNCHANGED <<link, connected, backoff, inbox, counts, published, handled,
                 mismatched, cuts>>

(* The broker cuts the connection.                                         *)
CutLink ==
  /\ link /\ cuts < MaxCuts
  /\ link' = FALSE /\ inbox' = <<>> /\ cuts' = cuts + 1
  /\ UNCHANGED <<loop, connected, backoff, counts, published, handled,
                 mismatched>>

(* The loop notices: the client is dropped, then it waits.                 *)
NoticeCut ==
  /\ loop \in {"subscribing", "ready"} /\ ~link
  /\ loop' = "waiting" /\ connected' = FALSE
  /\ UNCHANGED <<link, backoff, inbox, counts, published, handled, mismatched, cuts>>

-----------------------------------------------------------------------------
(* dispatch: the topic is known, the payload valid for it, and its         *)
(* device_id the topic's; a snapshot has no device id to compare.          *)
Passes(m) == m.fault = "none" \/ (m.fault = "device" /\ m.family = "snapshot")

(* validate and snapshot_ok count what they accept before the device id is *)
(* compared; everything that does not pass is one failure.                 *)
Counted(c, m) ==
  LET valid == m.fault \in {"none", "device"}
  IN [c EXCEPT !.messages = @ + 1,
               !.accepted = IF valid THEN @ + 1 ELSE @,
               !.failures = IF Passes(m) THEN @ ELSE @ + 1]

(* The next message is checked, counted, and handed to its handler.        *)
Dispatch ==
  /\ loop = "ready" /\ inbox # <<>>
  /\ LET m == Head(inbox) IN
       /\ counts' = Counted(counts, m)
       /\ mismatched' = IF m.fault = "device" /\ ~Passes(m)
                        THEN mismatched + 1 ELSE mismatched
       /\ loop' = IF Passes(m) THEN "handling" ELSE "ready"
       /\ handled' = IF Passes(m) THEN Append(handled, m) ELSE handled
  /\ inbox' = Tail(inbox)
  /\ UNCHANGED <<link, connected, backoff, published, cuts>>

HandlerEnds ==
  /\ loop = "handling"
  /\ loop' = "ready"
  /\ UNCHANGED <<link, connected, backoff, inbox, counts, published, handled,
                 mismatched, cuts>>

(* A handler raises: counted and contained.                                *)
HandlerRaises ==
  /\ loop = "handling"
  /\ counts' = [counts EXCEPT !.errors = @ + 1]
  /\ loop' = "ready"
  /\ UNCHANGED <<link, connected, backoff, inbox, published, handled,
                 mismatched, cuts>>

(* stop(): the task is cancelled wherever it awaits.                       *)
StopIngest ==
  /\ loop # "stopped"
  /\ loop' = "stopped" /\ link' = FALSE /\ connected' = FALSE /\ inbox' = <<>>
  /\ UNCHANGED <<backoff, counts, published, handled, mismatched, cuts>>

IngestNext ==
  \/ \E family \in Families, fault \in Faults : Publish(family, fault)
  \/ ConnectIngest \/ ConnectRefused \/ Subscribed \/ CutLink \/ NoticeCut
  \/ Dispatch \/ HandlerEnds \/ HandlerRaises \/ StopIngest

(* The event loop runs the task, its sleep ends, and a broker that stays   *)
(* up answers; handlers end.                                               *)
IngestFairness ==
  /\ WF_ingestVars(ConnectIngest) /\ WF_ingestVars(Subscribed)
  /\ WF_ingestVars(NoticeCut) /\ WF_ingestVars(Dispatch)
  /\ WF_ingestVars(HandlerEnds)

IngestSpec == IngestInit /\ [][IngestNext]_ingestVars /\ IngestFairness

-----------------------------------------------------------------------------
(* Every variable stays in its range, and the wait within its cap.         *)
IngestTypeOK ==
  /\ loop \in {"first", "waiting", "subscribing", "ready", "handling",
               "stopped"}
  /\ link \in BOOLEAN /\ connected \in BOOLEAN
  /\ backoff \in 1..BackoffCap
  /\ inbox \in Seq(Message) /\ handled \in Seq(Message)
  /\ published \in 0..MaxMessages /\ cuts \in 0..MaxCuts

(* GET /api/health accounts for every message read from the broker: it was *)
(* handed on, or it is a schema failure, a mismatched device being counted *)
(* as accepted and as a failure (mqtt_ingest.py:156, :187).                *)
CountsAddUp ==
  /\ counts.messages = counts.accepted + counts.failures - mismatched
  /\ Len(handled) = counts.accepted - mismatched
  /\ counts.errors <= Len(handled)

=============================================================================
