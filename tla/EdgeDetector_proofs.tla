------------------------- MODULE EdgeDetector_proofs -------------------------
(***************************************************************************)
(* Proofs about EdgeDetector for every set of platforms and cameras and    *)
(* any number of workers.                                                  *)
(***************************************************************************)
EXTENDS EdgeDetector, TLAPS

Source == {"none", "hw", "sw", "shut"}
Point == {"none", "made", "top", "opening", "reading", "publishing", "ended"}
Thread == [stream : Cameras \cup {"none"}, source : Source, at : Point,
           decode : {"none", "hw", "sw"},
           opened : BOOLEAN, fatal : BOOLEAN, stop : BOOLEAN]

(* What the MQTT thread is at with a worker.                               *)
AtWorker == {"starting", "awaiting", "refusing", "refused", "removing"}

Typed ==
  /\ EdgeTypeOK
  /\ platform \in AllPlatforms
  /\ mq \in [at : {"idle", "saying"}, w : {0}] \cup [at : AtWorker, w : Workers]

(* A worker in the registry has been made.                                 *)
RegisteredMade == \A c \in Cameras : workers[c] # 0 => thread[workers[c]].at # "none"

(* The worker of an add is in the registry while the add goes on, and it   *)
(* has been told to stop before a refused one leaves it.                   *)
AddInHand ==
  /\ mq.at \in {"starting", "awaiting", "refusing", "refused"} => mq.w \in Registered
  /\ mq.at = "refused" => thread[mq.w].stop

EdgeInv == Typed /\ RegisteredMade /\ AddInHand /\ NothingLeftRunning

(* What Typed says of each variable.                                       *)
LEMMA TypedParts ==
  Typed <=> /\ thread \in [Workers -> Thread]
            /\ workers \in [Cameras -> 0..MaxWorkers] /\ toStop \subseteq Workers
            /\ \A c \in Cameras : workers[c] # 0 => thread[workers[c]].stream = c
            /\ platform \in AllPlatforms
            /\ mq \in [at : {"idle", "saying"}, w : {0}]
                      \cup [at : AtWorker, w : Workers]
  BY DEF Typed, EdgeTypeOK, Thread, Source, Point

LEMMA RestingTyped == Resting \in [at : {"idle", "saying"}, w : {0}]
  BY DEF Resting

(* A worker with one of its fields changed is a worker.                    *)
LEMMA Updates ==
  ASSUME NEW r \in Thread
  PROVE  /\ \A p \in Point : [r EXCEPT !.at = p] \in Thread
         /\ \A o \in Source : [r EXCEPT !.source = o] \in Thread
         /\ \A d \in {"none", "hw", "sw"} : [r EXCEPT !.decode = d] \in Thread
         /\ \A c \in Cameras : [r EXCEPT !.stream = c] \in Thread
         /\ \A b \in BOOLEAN : /\ [r EXCEPT !.opened = b] \in Thread
                               /\ [r EXCEPT !.fatal = b] \in Thread
                               /\ [r EXCEPT !.stop = b] \in Thread
  BY DEF Thread

(* StreamWorker.__init__ makes a worker of its camera.                     *)
LEMMA NewWorker ==
  ASSUME NEW s \in Cameras
  PROVE  /\ StreamWorker(s) \in Thread
         /\ StreamWorker(s).stream = s /\ StreamWorker(s).at = "made"
<1> DEFINE r == [NoWorker EXCEPT !.stream = s]
           q == [r EXCEPT !.at = "made"]
<1>1. NoWorker \in Thread
  BY DEF NoWorker, Thread, Source, Point
<1>2. r \in Thread
  BY <1>1, Updates
<1>3. q \in Thread
  BY <1>2, Updates DEF Point
<1>4. StreamWorker(s) = [q EXCEPT !.decode = DecodePrimary]
  BY DEF StreamWorker
<1>5. DecodePrimary \in {"none", "hw", "sw"}
  BY DEF DecodePrimary
<1> HIDE DEF q
<1>6. StreamWorker(s) \in Thread
  BY <1>3, <1>4, <1>5, Updates
<1>7. StreamWorker(s).stream = s /\ StreamWorker(s).at = "made"
  BY DEF StreamWorker, NoWorker
<1> QED BY <1>6, <1>7

(* The configured streams have a worker each.                              *)
LEMMA InitEdgeInv == EdgeInit => EdgeInv
<1> SUFFICES ASSUME EdgeInit PROVE EdgeInv
  OBVIOUS
<1> USE EdgeAssumption
<1>1. /\ workers \in [Cameras -> 0..MaxWorkers] /\ mq = Resting /\ toStop = {}
      /\ platform \in AllPlatforms
      /\ \A c \in Cameras : workers[c] # 0 <=> c \in Configured
      /\ \A c, d \in Configured : workers[c] = workers[d] => c = d
  BY DEF EdgeInit, InitStreams
<1>2. ASSUME NEW w \in Workers
      PROVE  /\ thread[w] \in Thread
             /\ w \notin Registered => thread[w].at = "none"
             /\ \A c \in Cameras : workers[c] = w =>
                  thread[w].stream = c /\ thread[w].at = "made"
             /\ thread[w].at # "ended"
  <2>0. thread[w] = IF \E c \in Configured : workers[c] = w
                    THEN StreamWorker(CHOOSE c \in Configured : workers[c] = w)
                    ELSE NoWorker
    BY DEF EdgeInit, InitStreams
  <2>1. CASE \E c \in Configured : workers[c] = w
    <3>1. PICK s \in Configured : thread[w] = StreamWorker(s) /\ workers[s] = w
      BY <2>0, <2>1
    <3>2. /\ s \in Cameras /\ s \in Configured
          /\ \A c \in Cameras : workers[c] = w => c = s
      BY <1>1, <3>1 DEF Workers
    <3> QED BY <3>1, <3>2, NewWorker DEF Registered
  <2>2. CASE ~\E c \in Configured : workers[c] = w
    <3>1. thread[w] = NoWorker
      BY <2>0, <2>2
    <3>2. \A c \in Cameras : workers[c] # w
      BY <1>1, <2>2 DEF Workers
    <3> QED BY <3>1, <3>2 DEF NoWorker, Thread, Source, Point
  <2> QED BY <2>1, <2>2
<1>3. thread \in [Workers -> Thread]
  BY <1>2 DEF EdgeInit, InitStreams
<1>4. \A c \in Cameras : workers[c] # 0 => workers[c] \in Workers
  BY <1>1 DEF Workers
<1>5. Typed
  BY <1>1, <1>2, <1>3, <1>4, TypedParts, RestingTyped
<1>6. RegisteredMade /\ AddInHand
  BY <1>1, <1>2, <1>4 DEF RegisteredMade, AddInHand, Resting
<1>7. NothingLeftRunning
  BY <1>2 DEF NothingLeftRunning
<1> QED BY <1>5, <1>6, <1>7 DEF EdgeInv

-----------------------------------------------------------------------------
(* What a capture thread may do to its own worker.                         *)
Runs(r, s) ==
  /\ s \in Thread
  /\ s.stream = r.stream /\ s.stop = r.stop
  /\ r.at \notin {"none", "made", "ended"} /\ s.at # "none"
  /\ s.at = "ended" => s.source = "none"

LEMMA OverOfAny ==
  ASSUME NEW r \in Thread
  PROVE  /\ Over(r) \in Thread /\ Over(r).at = "ended" /\ Over(r).source = "none"
         /\ Over(r).stream = r.stream /\ Over(r).stop = r.stop
<1> DEFINE q == [r EXCEPT !.at = "ended"]
<1>1. q \in Thread
  BY Updates DEF Point
<1>2. Over(r) = [q EXCEPT !.source = "none"]
  BY DEF Over
<1>3. Over(r) \in Thread
  BY <1>1, <1>2, Updates DEF Source
<1> QED BY <1>3 DEF Over, Thread

LEMMA OverFacts ==
  ASSUME NEW r \in Thread, r.at \notin {"none", "made", "ended"}
  PROVE  /\ Runs(r, Over(r))
         /\ Runs(r, [Over(r) EXCEPT !.fatal = TRUE])
<1>1. /\ Over(r) \in Thread /\ Over(r).at = "ended" /\ Over(r).source = "none"
      /\ Over(r).stream = r.stream /\ Over(r).stop = r.stop
  BY OverOfAny
<1>2. [Over(r) EXCEPT !.fatal = TRUE] \in Thread
  BY <1>1, Updates
<1> QED BY <1>1, <1>2 DEF Runs, Thread

LEMMA MovesOn ==
  ASSUME NEW r \in Thread, r.at \notin {"none", "made", "ended"},
         NEW p \in {"top", "opening", "reading", "publishing"}
  PROVE  /\ Runs(r, [r EXCEPT !.at = p])
         /\ \A o \in Source : Runs(r, [r EXCEPT !.at = p, !.source = o])
<1> DEFINE q == [r EXCEPT !.at = p]
<1>1. q \in Thread /\ q.at = p /\ q.stream = r.stream /\ q.stop = r.stop
  BY Updates DEF Point, Thread
<1>2. ASSUME NEW o \in Source PROVE Runs(r, [r EXCEPT !.at = p, !.source = o])
  <2>1. [r EXCEPT !.at = p, !.source = o] = [q EXCEPT !.source = o]
    OBVIOUS
  <2> HIDE DEF q
  <2>2. [q EXCEPT !.source = o] \in Thread
    BY <1>1, Updates
  <2>3. LET s == [q EXCEPT !.source = o]
        IN  s.at = p /\ s.stream = r.stream /\ s.stop = r.stop
    BY <1>1 DEF Thread
  <2> QED BY <2>1, <2>2, <2>3 DEF Runs
<1>3. Runs(r, q)
  BY <1>1 DEF Runs
<1> QED BY <1>2, <1>3

(* A turn of a capture thread is Runs, whichever it is.                    *)
LEMMA RunFacts ==
  ASSUME Typed, NEW w \in Workers, Run(w)
  PROVE  \E s \in Thread : Runs(thread[w], s) /\ thread' = [thread EXCEPT ![w] = s]
<1> DEFINE r == thread[w]
<1>0. r \in Thread /\ platform \in AllPlatforms
  BY TypedParts
<1>1. CASE RunTop(w)
  <2>1. r.at = "top"
    BY <1>1 DEF RunTop
  <2>2. \E s \in {Over(r), [r EXCEPT !.at = "opening"], [r EXCEPT !.at = "reading"]} :
          thread' = [thread EXCEPT ![w] = s]
    BY <1>1 DEF RunTop, SetWorker
  <2>3. /\ Runs(r, Over(r))
        /\ Runs(r, [r EXCEPT !.at = "opening"]) /\ Runs(r, [r EXCEPT !.at = "reading"])
    BY <1>0, <2>1, OverFacts, MovesOn
  <2> QED BY <2>2, <2>3 DEF Runs
<1>2. CASE RunOpen(w)
  <2>1. r.at = "opening"
    BY <1>2 DEF RunOpen
  <2>2. PICK o \in OpenResult :
          thread' = [thread EXCEPT ![w] =
            CASE o = "fatal" -> [Over(r) EXCEPT !.fatal = TRUE]
              [] o = "raise" -> [r EXCEPT !.at = "top"]
              [] OTHER -> [r EXCEPT !.at = "reading", !.source = o,
                             !.opened = @ \/ platform = "generic",
                             !.decode = DecodePath(o)]]
    BY <1>2 DEF RunOpen, SetWorker
  <2>3. o \in {"fatal", "raise", "hw", "sw"}
    BY <1>0 DEF OpenResult, RknnOpenSource, JetsonOpenSource, HailoOpen, GenericOpen,
                OpenCVStart, AllPlatforms
  <2>4. CASE o = "fatal"
    BY <1>0, <2>1, <2>2, <2>4, OverFacts DEF Runs
  <2>5. CASE o = "raise"
    BY <1>0, <2>1, <2>2, <2>5, MovesOn DEF Runs
  <2>6. CASE o \in {"hw", "sw"}
    <3> DEFINE open == r.opened \/ platform = "generic"
               s1 == [r EXCEPT !.at = "reading", !.source = o]
               s2 == [s1 EXCEPT !.opened = open]
               s == [s2 EXCEPT !.decode = DecodePath(o)]
    <3>1. thread' = [thread EXCEPT ![w] = s]
      BY <2>2, <2>6
    <3>2. Runs(r, s1)
      BY <1>0, <2>1, <2>6, MovesOn DEF Source
    <3>3. open \in BOOLEAN /\ DecodePath(o) \in {"none", "hw", "sw"}
      BY DEF DecodePath
    <3> HIDE DEF s1
    <3>4. s2 \in Thread
      BY <3>2, <3>3, Updates DEF Runs
    <3>5. s2.at = s1.at /\ s2.source = s1.source /\ s2.stream = s1.stream /\ s2.stop = s1.stop
      BY <3>2 DEF Runs, Thread
    <3> HIDE DEF s2
    <3>6. s \in Thread
      BY <3>3, <3>4, Updates
    <3>7. s.at = s2.at /\ s.source = s2.source /\ s.stream = s2.stream /\ s.stop = s2.stop
      BY <3>4 DEF Thread
    <3>8. Runs(r, s)
      BY <3>2, <3>5, <3>6, <3>7 DEF Runs
    <3> QED BY <3>1, <3>6, <3>8
  <2> QED BY <2>3, <2>4, <2>5, <2>6
<1>3. CASE RunRead(w)
  <2>1. r.at = "reading"
    BY <1>3 DEF RunRead
  <2>2. PICK o \in Read(w) :
          thread' = [thread EXCEPT ![w] =
            CASE o = "frame" -> [r EXCEPT !.at = "publishing", !.opened = TRUE,
                                          !.source = DecodePath(r.source)]
              [] o = "none" -> [r EXCEPT !.at = "top"]
              [] o = "shut" -> [r EXCEPT !.at = "top", !.source = "shut"]
              [] o = "lost" -> [r EXCEPT !.at = "top", !.source = "none"]]
    BY <1>3 DEF RunRead, SetWorker
  <2>3. o \in {"frame", "none", "shut", "lost"}
    BY <1>0 DEF Read, HailoRead, GenericRead, OpenCVRead, MppRead, NvdecRead
  <2>4. CASE o = "frame"
    <3> DEFINE s1 == [r EXCEPT !.at = "publishing"]
               s2 == [s1 EXCEPT !.opened = TRUE]
               s == [s2 EXCEPT !.source = DecodePath(r.source)]
    <3>1. thread' = [thread EXCEPT ![w] = s]
      BY <2>2, <2>4
    <3>2. Runs(r, s1) /\ s1.at = "publishing"
      BY <1>0, <2>1, MovesOn DEF Thread
    <3>3. DecodePath(r.source) \in Source
      BY DEF DecodePath, Source
    <3> HIDE DEF s1
    <3>4. s2 \in Thread
      BY <3>2, Updates DEF Runs
    <3>5. s2.at = s1.at /\ s2.stream = s1.stream /\ s2.stop = s1.stop
      BY <3>2 DEF Runs, Thread
    <3> HIDE DEF s2
    <3>6. s \in Thread
      BY <3>3, <3>4, Updates
    <3>7. s.at = s2.at /\ s.stream = s2.stream /\ s.stop = s2.stop
      BY <3>4 DEF Thread
    <3>8. Runs(r, s)
      BY <3>2, <3>5, <3>6, <3>7 DEF Runs
    <3> QED BY <3>1, <3>6, <3>8
  <2>5. CASE o = "none"
    BY <1>0, <2>1, <2>2, <2>5, MovesOn DEF Runs
  <2>6. CASE o = "shut"
    BY <1>0, <2>1, <2>2, <2>6, MovesOn DEF Runs, Source
  <2>7. CASE o = "lost"
    BY <1>0, <2>1, <2>2, <2>7, MovesOn DEF Runs, Source
  <2> QED BY <2>3, <2>4, <2>5, <2>6, <2>7
<1>4. CASE RunPublish(w)
  <2>1. r.at = "publishing"
    BY <1>4 DEF RunPublish
  <2>2. \E s \in {Over(r), [r EXCEPT !.at = "top"]} : thread' = [thread EXCEPT ![w] = s]
    BY <1>4 DEF RunPublish, SetWorker
  <2>3. Runs(r, Over(r)) /\ Runs(r, [r EXCEPT !.at = "top"])
    BY <1>0, <2>1, OverFacts, MovesOn
  <2> QED BY <2>2, <2>3 DEF Runs
<1> QED BY <1>1, <1>2, <1>3, <1>4 DEF Run

(* StreamWorker.stop: the event is set, the thread stands where it stood.  *)
LEMMA AskStopFacts ==
  ASSUME Typed, NEW w \in Workers, AskStop(w)
  PROVE  /\ thread' \in [Workers -> Thread] /\ thread'[w].stop
         /\ \A v \in Workers :
              /\ thread'[v].stream = thread[v].stream /\ thread'[v].at = thread[v].at
              /\ thread'[v].source = thread[v].source
              /\ thread[v].stop => thread'[v].stop
<1>1. thread \in [Workers -> Thread]
  BY TypedParts
<1>2. thread' = [thread EXCEPT ![w] = [thread[w] EXCEPT !.stop = TRUE]]
  BY DEF AskStop, SetWorker
<1>3. [thread[w] EXCEPT !.stop = TRUE] \in Thread
  BY <1>1, Updates
<1>4. LET r == [thread[w] EXCEPT !.stop = TRUE]
      IN  /\ r.stream = thread[w].stream /\ r.at = thread[w].at
          /\ r.source = thread[w].source /\ r.stop
  BY <1>1 DEF Thread
<1> QED BY <1>1, <1>2, <1>3, <1>4

-----------------------------------------------------------------------------
MqTyped == mq \in [at : {"idle", "saying"}, w : {0}] \cup [at : AtWorker, w : Workers]

(* What a step that leaves the registry alone must not do: unmake a        *)
(* worker, lose its camera, leave a source behind, or start a thread or    *)
(* take back a stop of a worker that nobody has any more.                  *)
LEMMA ThreadsKeep ==
  ASSUME EdgeInv, UNCHANGED <<platform, workers>>, toStop' \subseteq Workers,
         thread' \in [Workers -> Thread],
         \A w \in Workers :
           /\ thread'[w].stream = thread[w].stream
           /\ thread'[w].at = "none" <=> thread[w].at = "none"
           /\ thread'[w].at = "ended" => thread'[w].source = "none"
           /\ thread[w].at = "ended" => thread'[w].at = "ended" \/ w \in Registered
           /\ thread[w].stop => thread'[w].stop \/ w \in Registered,
         MqTyped', AddInHand',
         \/ mq.w \notin Workers \/ mq'.w = mq.w
         \/ mq.w \in Registered \/ thread'[mq.w].stop
  PROVE  EdgeInv'
<1>1. \A c \in Cameras : workers[c] # 0 => workers[c] \in Workers
  BY TypedParts DEF EdgeInv, Workers
<1>2. Typed'
  BY <1>1, TypedParts DEF EdgeInv, Typed, EdgeTypeOK, MqTyped, Thread, Source, Point
<1>3. RegisteredMade'
  BY <1>1 DEF EdgeInv, RegisteredMade
<1>4. Registered' = Registered
  BY DEF Registered
<1>5. NothingLeftRunning'
  BY <1>4 DEF EdgeInv, NothingLeftRunning
<1> QED BY <1>2, <1>3, <1>5 DEF EdgeInv

(* Only the MQTT thread goes on.                                           *)
LEMMA MqKeeps ==
  ASSUME EdgeInv, UNCHANGED <<platform, workers, thread>>, toStop' \subseteq Workers,
         MqTyped', AddInHand',
         mq.w \notin Workers \/ mq'.w = mq.w \/ mq.w \in Registered \/ thread[mq.w].stop
  PROVE  EdgeInv'
<1>1. thread \in [Workers -> Thread]
  BY TypedParts DEF EdgeInv
<1>2. \A w \in Workers : thread[w].at = "ended" => thread[w].source = "none"
  BY DEF EdgeInv, NothingLeftRunning
<1> QED BY <1>1, <1>2, ThreadsKeep

(* A turn of a capture thread.                                             *)
LEMMA RunKeeps ==
  ASSUME EdgeInv, NEW w \in Workers, Run(w)
  PROVE  EdgeInv'
<1>1. PICK s \in Thread : Runs(thread[w], s) /\ thread' = [thread EXCEPT ![w] = s]
  BY RunFacts DEF EdgeInv
<1>2. UNCHANGED <<platform, workers, toStop, mq>>
  BY DEF Run, RunTop, RunOpen, RunRead, RunPublish, Only, world
<1>3. thread \in [Workers -> Thread] /\ toStop \subseteq Workers /\ MqTyped
  BY TypedParts DEF EdgeInv, MqTyped
<1>4. thread' \in [Workers -> Thread]
  BY <1>1, <1>3
<1>5. \A v \in Workers :
        /\ thread'[v].stream = thread[v].stream
        /\ thread'[v].stop = thread[v].stop
        /\ thread'[v].at = "none" <=> thread[v].at = "none"
        /\ thread'[v].at = "ended" => thread'[v].source = "none"
        /\ thread[v].at = "ended" => thread'[v].at = "ended"
  BY <1>1, <1>3 DEF Runs, EdgeInv, NothingLeftRunning
<1>6. AddInHand' /\ MqTyped'
  BY <1>2, <1>3, <1>5 DEF EdgeInv, AddInHand, Registered, MqTyped, AtWorker
<1> QED BY <1>2, <1>3, <1>4, <1>5, <1>6, ThreadsKeep

(* A step of the main thread.                                              *)
LEMMA MainKeeps ==
  ASSUME EdgeInv, Main \/ MainHeartbeat \/ Signal
  PROVE  EdgeInv'
<1>0. /\ thread \in [Workers -> Thread] /\ toStop \subseteq Workers /\ MqTyped
      /\ Registered \subseteq Workers
      /\ \A w \in Workers : thread[w].at = "ended" => thread[w].source = "none"
  BY TypedParts DEF EdgeInv, MqTyped, Registered, NothingLeftRunning
<1>1. UNCHANGED <<platform, workers, mq>>
  BY DEF Main, MainHeartbeat, Signal, StartRun, SeeFatal, SeeSignal, StopNext,
         SayGoodbye, Disconnect, EndRun, MainOnly, world
<1>2. MqTyped'
  BY <1>0, <1>1 DEF MqTyped
<1>3. CASE thread' = thread
  <2>1. toStop' \subseteq Workers
    BY <1>0, <1>3 DEF Main, MainHeartbeat, Signal, StartRun, SeeFatal, SeeSignal,
       StopNext, SayGoodbye, Disconnect, EndRun, GoDown
  <2>2. AddInHand'
    BY <1>1, <1>3 DEF EdgeInv, AddInHand, Registered
  <2> QED BY <1>1, <1>2, <1>3, <2>1, <2>2, MqKeeps
<1>4. CASE StartRun
  <2>1. /\ toStop' = toStop
        /\ thread' = [w \in Workers |-> IF w \in Registered
                        THEN [thread[w] EXCEPT !.at = "top"] ELSE thread[w]]
    BY <1>4 DEF StartRun
  <2>2. thread' \in [Workers -> Thread]
    BY <1>0, <2>1, Updates DEF Point
  <2>3. \A w \in Workers :
          /\ thread'[w].stream = thread[w].stream /\ thread'[w].stop = thread[w].stop
          /\ w \notin Registered => thread'[w] = thread[w]
          /\ w \in Registered => thread'[w].at = "top"
    BY <1>0, <2>1 DEF Thread
  <2>4. \A w \in Workers : w \in Registered => thread[w].at # "none"
    BY DEF EdgeInv, RegisteredMade, Registered, Workers
  <2>5. AddInHand'
    BY <1>0, <1>1, <2>3 DEF EdgeInv, AddInHand, Registered
  <2> QED BY <1>0, <1>1, <1>2, <2>1, <2>2, <2>3, <2>4, <2>5, ThreadsKeep
<1>5. CASE StopNext
  <2>1. PICK w \in toStop : AskStop(w) /\ toStop' = toStop \ {w}
    BY <1>5 DEF StopNext
  <2>2. w \in Workers /\ Typed
    BY <1>0 DEF EdgeInv
  <2>3. /\ thread' \in [Workers -> Thread]
        /\ \A v \in Workers :
             /\ thread'[v].stream = thread[v].stream /\ thread'[v].at = thread[v].at
             /\ thread'[v].source = thread[v].source
             /\ thread[v].stop => thread'[v].stop
    BY <2>1, <2>2, AskStopFacts
  <2>4. AddInHand'
    BY <1>0, <1>1, <2>3 DEF EdgeInv, AddInHand, Registered
  <2> QED BY <1>0, <1>1, <1>2, <2>1, <2>3, <2>4, ThreadsKeep
<1>6. CASE EndRun
  <2>1. /\ toStop' = toStop /\ mq = Resting
        /\ thread' = [w \in Workers |-> IF thread[w].at = "none" THEN thread[w]
                                        ELSE Over(thread[w])]
    BY <1>6 DEF EndRun
  <2>2. \A w \in Workers :
          /\ Over(thread[w]) \in Thread /\ Over(thread[w]).at = "ended"
          /\ Over(thread[w]).source = "none"
          /\ Over(thread[w]).stream = thread[w].stream
          /\ Over(thread[w]).stop = thread[w].stop
    BY <1>0, OverOfAny
  <2>3. thread' \in [Workers -> Thread]
    BY <1>0, <2>1, <2>2
  <2>4. \A w \in Workers :
          /\ thread'[w].stream = thread[w].stream /\ thread'[w].stop = thread[w].stop
          /\ thread[w].at = "none" => thread'[w] = thread[w]
          /\ thread[w].at # "none" => thread'[w].at = "ended" /\ thread'[w].source = "none"
    BY <1>0, <2>1, <2>2
  <2>5. AddInHand'
    BY <1>1, <2>1 DEF AddInHand, Resting
  <2> QED BY <1>0, <1>1, <1>2, <2>1, <2>3, <2>4, <2>5, ThreadsKeep
<1> QED
  BY <1>3, <1>4, <1>5, <1>6 DEF Main, MainHeartbeat, Signal, SeeFatal, SeeSignal,
     SayGoodbye, Disconnect

(* A camera is added: its worker is in the MQTT thread's hands.            *)
LEMMA AddStreamKeeps ==
  ASSUME EdgeInv, NEW c \in Cameras, CmdAddStream(c)
  PROVE  EdgeInv'
<1>1. PICK w \in Workers :
        /\ thread[w].at = "none"
        /\ workers' = [workers EXCEPT ![c] = w]
        /\ thread' = [thread EXCEPT ![w] = StreamWorker(c)]
        /\ mq' = [at |-> "starting", w |-> w]
  BY DEF CmdAddStream, SetWorker
<1>2. mq = Resting /\ workers[c] = 0 /\ UNCHANGED <<platform, toStop>>
  BY DEF CmdAddStream, MqttOnly, world
<1>3. /\ thread \in [Workers -> Thread] /\ toStop \subseteq Workers
      /\ workers \in [Cameras -> 0..MaxWorkers] /\ platform \in AllPlatforms
      /\ \A d \in Cameras : workers[d] # 0 => thread[workers[d]].stream = d
      /\ \A d \in Cameras : workers[d] # 0 => workers[d] \in Workers
  BY TypedParts DEF EdgeInv, Workers
<1>4. StreamWorker(c) \in Thread /\ StreamWorker(c).stream = c /\ StreamWorker(c).at = "made"
  BY NewWorker
<1>5. \A d \in Cameras : workers[d] # w
  BY <1>1 DEF EdgeInv, RegisteredMade, Workers
<1>6. /\ thread'[w] = StreamWorker(c)
      /\ \A v \in Workers : v # w => thread'[v] = thread[v]
      /\ workers'[c] = w
      /\ \A d \in Cameras : d # c => workers'[d] = workers[d]
  BY <1>1, <1>3
<1>7. /\ thread' \in [Workers -> Thread]
      /\ workers' \in [Cameras -> 0..MaxWorkers]
  BY <1>1, <1>3, <1>4 DEF Workers
<1>8. mq' \in [at : AtWorker, w : Workers]
  BY <1>1 DEF AtWorker
<1>9. /\ \A d \in Cameras : workers'[d] # 0 => thread'[workers'[d]].stream = d
      /\ RegisteredMade'
  BY <1>3, <1>4, <1>5, <1>6 DEF EdgeInv, RegisteredMade
<1>10. Typed'
  BY <1>2, <1>3, <1>7, <1>8, <1>9 DEF Typed, EdgeTypeOK, Thread, Source, Point
<1>11. w \in Registered' /\ Registered \subseteq Registered'
  BY <1>1, <1>2, <1>6 DEF Registered, Workers
<1>12. AddInHand'
  BY <1>1, <1>11 DEF AddInHand
<1>13. NothingLeftRunning'
  BY <1>2, <1>4, <1>6, <1>11 DEF EdgeInv, NothingLeftRunning, Resting, Workers
<1> QED BY <1>9, <1>10, <1>12, <1>13 DEF EdgeInv

(* A camera leaves the registry: its worker is in the hands of the MQTT    *)
(* thread, which is about to stop it or has done so.                       *)
LEMMA UnregisterKeeps ==
  ASSUME EdgeInv, NEW c \in Cameras, workers[c] # 0,
         workers' = [workers EXCEPT ![c] = 0], UNCHANGED <<platform, thread, toStop>>,
         MqTyped', mq'.at \in {"idle", "removing"},
         \/ mq.w = 0 /\ mq'.w = workers[c]
         \/ mq.w = workers[c] /\ thread[mq.w].stop
  PROVE  EdgeInv'
<1>1. /\ workers \in [Cameras -> 0..MaxWorkers]
      /\ \A d \in Cameras : workers[d] # 0 => workers[d] \in Workers
      /\ workers'[c] = 0 /\ \A d \in Cameras : d # c => workers'[d] = workers[d]
      /\ workers' \in [Cameras -> 0..MaxWorkers]
  <2>1. /\ workers \in [Cameras -> 0..MaxWorkers]
        /\ \A d \in Cameras : workers[d] # 0 => workers[d] \in Workers
    BY TypedParts DEF EdgeInv, Workers
  <2>2. workers'[c] = 0 /\ \A d \in Cameras : d # c => workers'[d] = workers[d]
    BY <2>1
  <2>3. 0 \in 0..MaxWorkers
    BY EdgeAssumption
  <2>4. workers' \in [Cameras -> 0..MaxWorkers]
    BY <2>1, <2>3
  <2> QED BY <2>1, <2>2, <2>4
<1>2. Typed'
  BY <1>1, TypedParts DEF EdgeInv, Typed, EdgeTypeOK, MqTyped, Thread, Source, Point
<1>3. RegisteredMade' /\ AddInHand'
  BY <1>1 DEF EdgeInv, RegisteredMade, AddInHand
<1>4. \A v \in Workers : v \in Registered => v \in Registered' \/ v = workers[c]
  BY <1>1 DEF Registered
<1>5. NothingLeftRunning'
  BY <1>1, <1>4 DEF EdgeInv, NothingLeftRunning, Workers
<1> QED BY <1>2, <1>3, <1>5 DEF EdgeInv

(* A step of the MQTT thread.                                              *)
LEMMA MqttKeeps ==
  ASSUME EdgeInv, \/ Mqtt \/ CmdSetThreshold
                  \/ \E c \in Cameras : CmdAddStream(c) \/ CmdRemoveStream(c)
  PROVE  EdgeInv'
<1>0. /\ thread \in [Workers -> Thread] /\ toStop \subseteq Workers /\ MqTyped /\ Typed
      /\ workers \in [Cameras -> 0..MaxWorkers]
      /\ \A d \in Cameras : workers[d] # 0 =>
           workers[d] \in Workers /\ thread[workers[d]].stream = d
      /\ \A w \in Workers : thread[w].at = "ended" => thread[w].source = "none"
  BY TypedParts DEF EdgeInv, MqTyped, NothingLeftRunning, Workers
<1>1. mq.at \in AtWorker => mq.w \in Workers
  BY <1>0 DEF MqTyped, AtWorker
<1>2. mq.at \notin AtWorker => mq.w = 0 /\ mq.w \notin Workers
  BY <1>0 DEF MqTyped, AtWorker, Workers
<1>3. Resting.at \notin AtWorker /\ Resting.w = 0
  BY DEF Resting, AtWorker
<1>4. CASE OnConnect \/ CmdSetThreshold \/ SayDone
  <2>1. /\ UNCHANGED <<platform, workers, thread, toStop>> /\ mq.at \notin AtWorker
        /\ mq' \in [at : {"idle", "saying"}, w : {0}]
    <3>1. [at |-> "saying", w |-> 0] \in [at : {"idle", "saying"}, w : {0}]
      OBVIOUS
    <3>2. CASE OnConnect
      BY <1>3, <3>2, RestingTyped DEF OnConnect, MqttOnly, world
    <3>3. CASE CmdSetThreshold
      BY <1>3, <3>1, <3>3 DEF CmdSetThreshold, MqttOnly, world
    <3>4. CASE SayDone
      BY <3>4, RestingTyped DEF SayDone, MqttOnly, world, AtWorker
    <3> QED BY <1>4, <3>2, <3>3, <3>4
  <2>2. MqTyped' /\ AddInHand'
    BY <2>1 DEF MqTyped, AddInHand
  <2> QED BY <1>0, <1>2, <2>1, <2>2, MqKeeps
<1>5. CASE AddStart
  <2>1. /\ mq.at = "starting" /\ mq' = [mq EXCEPT !.at = "awaiting"]
        /\ thread' = [thread EXCEPT ![mq.w] =
                        [thread[mq.w] EXCEPT !.at = "top", !.stop = FALSE]]
        /\ UNCHANGED <<platform, workers, toStop>>
    BY <1>5 DEF AddStart, SetWorker, MqttOnly, world
  <2>2. mq.w \in Workers /\ mq.w \in Registered /\ thread[mq.w] \in Thread
    BY <1>0, <1>1, <2>1 DEF EdgeInv, AddInHand, AtWorker
  <2> DEFINE q == [thread[mq.w] EXCEPT !.at = "top"]
             s == [q EXCEPT !.stop = FALSE]
  <2>3. thread' = [thread EXCEPT ![mq.w] = s]
    BY <2>1
  <2>4. q \in Thread /\ q.at = "top" /\ q.stream = thread[mq.w].stream
    <3>1. "top" \in Point
      BY DEF Point
    <3>2. q \in Thread
      BY <2>2, <3>1, Updates
    <3>3. q.at = "top" /\ q.stream = thread[mq.w].stream
      BY <2>2 DEF Thread
    <3> QED BY <3>2, <3>3
  <2> HIDE DEF q
  <2>5. s \in Thread /\ s.at = "top" /\ s.stream = thread[mq.w].stream
    <3>1. s \in Thread
      BY <2>4, Updates
    <3>2. s.at = "top" /\ s.stream = thread[mq.w].stream
      BY <2>4 DEF Thread
    <3> QED BY <3>1, <3>2
  <2> HIDE DEF s
  <2>6. thread[mq.w].at # "none"
    BY <2>2 DEF EdgeInv, RegisteredMade, Registered, Workers
  <2>7. thread' \in [Workers -> Thread]
    BY <1>0, <2>3, <2>5
  <2>8. \A w \in Workers :
          /\ thread'[w].stream = thread[w].stream
          /\ thread'[w].at = "none" <=> thread[w].at = "none"
          /\ thread'[w].at = "ended" => thread'[w].source = "none"
          /\ thread[w].at = "ended" => thread'[w].at = "ended" \/ w \in Registered
          /\ thread[w].stop => thread'[w].stop \/ w \in Registered
    BY <1>0, <2>2, <2>3, <2>5, <2>6
  <2>9. mq'.w = mq.w /\ mq'.at = "awaiting" /\ mq' \in [at : AtWorker, w : Workers]
    BY <1>0, <2>1, <2>2 DEF MqTyped, AtWorker
  <2>10. Registered' = Registered
    BY <2>1 DEF Registered
  <2>11. MqTyped' /\ AddInHand'
    BY <2>2, <2>9, <2>10 DEF MqTyped, AddInHand
  <2> QED BY <1>0, <2>1, <2>7, <2>8, <2>9, <2>11, ThreadsKeep
<1>6. CASE WaitUntilOpen
  <2>1. /\ mq.at = "awaiting" /\ UNCHANGED <<platform, workers, thread, toStop>>
        /\ \/ mq' = [at |-> "saying", w |-> 0]
           \/ mq' = [mq EXCEPT !.at = "refusing"]
    BY <1>6 DEF WaitUntilOpen, MqttOnly, world
  <2>2. mq.w \in Workers /\ mq.w \in Registered
    BY <1>1, <2>1 DEF EdgeInv, AddInHand, AtWorker
  <2>3. \/ mq'.w = 0 /\ mq'.at = "saying" /\ mq' \in [at : {"idle", "saying"}, w : {0}]
        \/ mq'.w = mq.w /\ mq'.at = "refusing" /\ mq' \in [at : AtWorker, w : Workers]
    BY <1>0, <2>1, <2>2 DEF MqTyped, AtWorker
  <2>4. MqTyped' /\ AddInHand'
    BY <2>1, <2>2, <2>3 DEF MqTyped, AddInHand, Registered
  <2> QED BY <1>0, <2>1, <2>2, <2>4, MqKeeps
<1>7. CASE AddRefused \/ RemoveStops
  <2>1. /\ mq.at \in {"refusing", "removing"} /\ AskStop(mq.w)
        /\ UNCHANGED <<platform, workers, toStop>>
        /\ \/ mq.at = "refusing" /\ mq' = [mq EXCEPT !.at = "refused"]
           \/ mq' = [at |-> "saying", w |-> 0]
    BY <1>7 DEF AddRefused, RemoveStops, MqttOnly, world
  <2>2. mq.w \in Workers
    BY <1>1, <2>1 DEF AtWorker
  <2>3. /\ thread' \in [Workers -> Thread] /\ thread'[mq.w].stop
        /\ \A v \in Workers :
             /\ thread'[v].stream = thread[v].stream /\ thread'[v].at = thread[v].at
             /\ thread'[v].source = thread[v].source
             /\ thread[v].stop => thread'[v].stop
    BY <1>0, <2>1, <2>2, AskStopFacts
  <2>4. \/ /\ mq.at = "refusing" /\ mq'.w = mq.w /\ mq'.at = "refused"
           /\ mq' \in [at : AtWorker, w : Workers]
        \/ mq'.at = "saying" /\ mq' \in [at : {"idle", "saying"}, w : {0}]
    BY <1>0, <2>1, <2>2 DEF MqTyped, AtWorker
  <2>5. Registered' = Registered
    BY <2>1 DEF Registered
  <2>6. MqTyped' /\ AddInHand'
    BY <2>3, <2>4, <2>5 DEF EdgeInv, MqTyped, AddInHand
  <2> QED BY <1>0, <2>1, <2>3, <2>6, ThreadsKeep
<1>8. CASE AddUndone
  <2> DEFINE c == thread[mq.w].stream
  <2>1. /\ mq.at = "refused" /\ workers' = [workers EXCEPT ![c] = 0] /\ mq' = Resting
        /\ UNCHANGED <<platform, thread, toStop>>
    BY <1>8 DEF AddUndone, MqttOnly, world
  <2>2. mq.w \in Workers /\ mq.w \in Registered /\ thread[mq.w].stop
    BY <1>1, <2>1 DEF EdgeInv, AddInHand, AtWorker
  <2>3. c \in Cameras /\ workers[c] = mq.w /\ workers[c] # 0
    BY <1>0, <2>2 DEF Registered, Workers
  <2>4. MqTyped' /\ mq'.at = "idle"
    BY <2>1 DEF MqTyped, Resting
  <2> QED BY <2>1, <2>2, <2>3, <2>4, UnregisterKeeps
<1>9. ASSUME NEW c \in Cameras, CmdRemoveStream(c) PROVE EdgeInv'
  <2>1. /\ mq = Resting /\ workers[c] # 0 /\ workers' = [workers EXCEPT ![c] = 0]
        /\ mq' = [at |-> "removing", w |-> workers[c]]
        /\ UNCHANGED <<platform, thread, toStop>>
    BY <1>9 DEF CmdRemoveStream, MqttOnly, world
  <2>2. MqTyped' /\ mq'.at = "removing" /\ mq'.w = workers[c]
    BY <1>0, <2>1 DEF MqTyped, AtWorker
  <2> QED BY <1>3, <2>1, <2>2, UnregisterKeeps
<1> QED
  BY <1>4, <1>5, <1>6, <1>7, <1>8, <1>9, AddStreamKeeps DEF Mqtt

LEMMA NextEdgeInv == EdgeInv /\ [EdgeNext]_edgeVars => EdgeInv'
<1> SUFFICES ASSUME EdgeInv, [EdgeNext]_edgeVars PROVE EdgeInv'
  OBVIOUS
<1>1. CASE UNCHANGED edgeVars
  BY <1>1 DEF edgeVars, world, EdgeInv, Typed, EdgeTypeOK, RegisteredMade, AddInHand,
     NothingLeftRunning, Registered
<1> QED BY <1>1, RunKeeps, MqttKeeps, MainKeeps DEF EdgeNext

(* Whichever thread takes a worker out of the registry, and wherever the   *)
(* worker stands then, it has been told to stop, and a thread that has     *)
(* ended has let its source go (NothingLeftRunning).                       *)
THEOREM NoWorkerIsLost == EdgeSpec => []NothingLeftRunning
<1>1. EdgeInv => NothingLeftRunning
  BY DEF EdgeInv
<1> QED BY InitEdgeInv, NextEdgeInv, <1>1, PTL DEF EdgeSpec

-----------------------------------------------------------------------------
(* A thread reads and publishes from a source it has, and its decode path  *)
(* was resolved from the source it has.                                    *)
Honest(r) ==
  /\ r.at \in {"reading", "publishing"} => r.source # "none"
  /\ r.source # "none" => r.decode = DecodePath(r.source)

HonestThreads == \A w \in Workers : Honest(thread[w])

(* Neither a stop, a start, an end nor a new worker makes it dishonest.    *)
LEMMA StaysHonest ==
  ASSUME NEW r \in Thread, Honest(r)
  PROVE  /\ Honest([r EXCEPT !.stop = TRUE]) /\ Honest([r EXCEPT !.at = "top"])
         /\ Honest([r EXCEPT !.at = "top", !.stop = FALSE])
         /\ Honest([r EXCEPT !.at = "opening"]) /\ Honest(Over(r))
         /\ r.source # "none" => Honest([r EXCEPT !.at = "reading"])
  BY DEF Honest, Over, Thread

(* A new worker has no source.                                             *)
LEMMA NewIsHonest == \A c : Honest(StreamWorker(c))
  BY DEF Honest, StreamWorker, NoWorker

(* A turn of the capture thread: the decode path follows the source, to    *)
(* hardware, to the CPU and back.                                          *)
LEMMA RunIsHonest ==
  ASSUME Typed, HonestThreads, NEW w \in Workers, Run(w)
  PROVE  HonestThreads'
<1> DEFINE r == thread[w]
<1>0. /\ r \in Thread /\ Honest(r) /\ platform \in AllPlatforms
      /\ thread \in [Workers -> Thread]
  BY TypedParts DEF HonestThreads
<1>1. ASSUME NEW s, thread' = [thread EXCEPT ![w] = s], Honest(s)
      PROVE  HonestThreads'
  BY <1>0, <1>1 DEF HonestThreads, Honest, DecodePath
<1>2. CASE RunTop(w)
  <2>1. \/ thread' = [thread EXCEPT ![w] = Over(r)]
        \/ thread' = [thread EXCEPT ![w] = [r EXCEPT !.at = "opening"]]
        \/ /\ r.source # "none"
           /\ thread' = [thread EXCEPT ![w] = [r EXCEPT !.at = "reading"]]
    BY <1>2 DEF RunTop, SetWorker
  <2> QED BY <1>0, <1>1, <2>1, StaysHonest
<1>3. CASE RunOpen(w)
  <2>1. PICK o \in OpenResult :
          thread' = [thread EXCEPT ![w] =
            CASE o = "fatal" -> [Over(r) EXCEPT !.fatal = TRUE]
              [] o = "raise" -> [r EXCEPT !.at = "top"]
              [] OTHER -> [r EXCEPT !.at = "reading", !.source = o,
                             !.opened = @ \/ platform = "generic",
                             !.decode = DecodePath(o)]]
    BY <1>3 DEF RunOpen, SetWorker
  <2>2. o \in {"fatal", "raise", "hw", "sw"}
    BY <1>0 DEF OpenResult, RknnOpenSource, JetsonOpenSource, HailoOpen, GenericOpen,
                OpenCVStart, AllPlatforms
  <2>3. CASE o = "fatal"
    <3>1. Honest([Over(r) EXCEPT !.fatal = TRUE])
      BY <1>0 DEF Honest, Over, Thread
    <3> QED BY <1>1, <2>1, <2>3, <3>1
  <2>4. CASE o = "raise"
    BY <1>0, <1>1, <2>1, <2>4, StaysHonest
  <2>5. CASE o \in {"hw", "sw"}
    <3> DEFINE s == [r EXCEPT !.at = "reading", !.source = o,
                              !.opened = @ \/ platform = "generic",
                              !.decode = DecodePath(o)]
    <3>1. s.source = o /\ s.decode = DecodePath(o)
      BY <1>0 DEF Thread
    <3>2. Honest(s)
      BY <2>5, <3>1 DEF Honest
    <3>3. thread' = [thread EXCEPT ![w] = s]
      BY <2>1, <2>5
    <3> QED BY <1>1, <3>2, <3>3
  <2> QED BY <2>2, <2>3, <2>4, <2>5
<1>4. CASE RunRead(w)
  <2>0. r.at = "reading"
    BY <1>4 DEF RunRead
  <2>1. PICK o \in Read(w) :
          thread' = [thread EXCEPT ![w] =
            CASE o = "frame" -> [r EXCEPT !.at = "publishing", !.opened = TRUE,
                                          !.source = DecodePath(r.source)]
              [] o = "none" -> [r EXCEPT !.at = "top"]
              [] o = "shut" -> [r EXCEPT !.at = "top", !.source = "shut"]
              [] o = "lost" -> [r EXCEPT !.at = "top", !.source = "none"]]
    BY <1>4 DEF RunRead, SetWorker
  <2>2. o \in {"frame", "none", "shut", "lost"}
    BY <1>0 DEF Read, HailoRead, GenericRead, OpenCVRead, MppRead, NvdecRead
  <2>3. CASE o = "frame"
    <3> DEFINE s == [r EXCEPT !.at = "publishing", !.opened = TRUE,
                              !.source = DecodePath(r.source)]
    <3>1. s.source = DecodePath(r.source) /\ s.decode = r.decode
      BY <1>0 DEF Thread
    <3>2. Honest(s)
      BY <1>0, <2>0, <3>1 DEF Honest, DecodePath
    <3>3. thread' = [thread EXCEPT ![w] = s]
      BY <2>1, <2>3
    <3> QED BY <1>1, <3>2, <3>3
  <2>4. CASE o = "none"
    BY <1>0, <1>1, <2>1, <2>4, StaysHonest
  <2>5. CASE o = "shut"
    <3> DEFINE s == [r EXCEPT !.at = "top", !.source = "shut"]
    <3>1. r.source \in {"sw", "shut"}
      <4>1. "shut" \in Read(w)
        BY <2>1, <2>5
      <4> QED
        BY <4>1 DEF Read, HailoRead, GenericRead, OpenCVRead, MppRead, NvdecRead
    <3>2. s.source = "shut" /\ s.decode = r.decode /\ s.at = "top"
      BY <1>0 DEF Thread
    <3>3. Honest(s)
      BY <1>0, <3>1, <3>2 DEF Honest, DecodePath
    <3>4. thread' = [thread EXCEPT ![w] = s]
      BY <2>1, <2>5
    <3> QED BY <1>1, <3>3, <3>4
  <2>6. CASE o = "lost"
    <3>1. Honest([r EXCEPT !.at = "top", !.source = "none"])
      BY <1>0 DEF Honest, Thread
    <3> QED BY <1>1, <2>1, <2>6, <3>1
  <2> QED BY <2>2, <2>3, <2>4, <2>5, <2>6
<1>5. CASE RunPublish(w)
  <2>1. \/ thread' = [thread EXCEPT ![w] = Over(r)]
        \/ thread' = [thread EXCEPT ![w] = [r EXCEPT !.at = "top"]]
    BY <1>5 DEF RunPublish, SetWorker
  <2> QED BY <1>0, <1>1, <2>1, StaysHonest
<1> QED BY <1>2, <1>3, <1>4, <1>5 DEF Run

(* What the other threads do to a worker.                                  *)
Handled(r, s) ==
  \/ s = r \/ s = [r EXCEPT !.stop = TRUE] \/ s = [r EXCEPT !.at = "top"]
  \/ s = [r EXCEPT !.at = "top", !.stop = FALSE] \/ s = Over(r)
  \/ \E c \in Cameras : s = StreamWorker(c)

(* Every step but a turn of a capture thread is Handled.                   *)
LEMMA OthersHandle ==
  ASSUME EdgeInv, EdgeNext, ~\E w \in Workers : Run(w)
  PROVE  \A w \in Workers : Handled(thread[w], thread'[w])
<1>0. thread \in [Workers -> Thread] /\ toStop \subseteq Workers
  BY TypedParts DEF EdgeInv
<1>1. CASE UNCHANGED thread
  BY <1>1 DEF Handled
<1>2. ASSUME NEW v \in Workers, AskStop(v)
      PROVE  \A w \in Workers : Handled(thread[w], thread'[w])
  BY <1>0, <1>2 DEF AskStop, SetWorker, Handled
<1>3. mq.at \in AtWorker => mq.w \in Workers
  BY TypedParts DEF EdgeInv, AtWorker
<1>4. CASE AddRefused \/ RemoveStops
  <2>1. AskStop(mq.w) /\ mq.at \in AtWorker
    BY <1>4 DEF AddRefused, RemoveStops, AtWorker
  <2> QED BY <1>2, <1>3, <2>1
<1>5. CASE StopNext
  BY <1>0, <1>2, <1>5 DEF StopNext
<1>6. CASE AddStart
  BY <1>0, <1>6 DEF AddStart, SetWorker, Handled
<1>7. CASE StartRun
  BY <1>7 DEF StartRun, Handled
<1>8. CASE EndRun
  BY <1>8 DEF EndRun, Handled
<1>9. CASE \E c \in Cameras : CmdAddStream(c)
  BY <1>0, <1>9 DEF CmdAddStream, SetWorker, Handled
<1> QED
  BY <1>1, <1>4, <1>5, <1>6, <1>7, <1>8, <1>9
     DEF EdgeNext, Mqtt, Main, OnConnect, WaitUntilOpen, AddUndone, SayDone, SeeFatal,
         SeeSignal, SayGoodbye, Disconnect, MainHeartbeat, Signal, CmdSetThreshold,
         CmdRemoveStream

LEMMA NextHonest ==
  EdgeInv /\ HonestThreads /\ [EdgeNext]_edgeVars => HonestThreads'
<1> SUFFICES ASSUME EdgeInv, HonestThreads, [EdgeNext]_edgeVars PROVE HonestThreads'
  OBVIOUS
<1>0. thread \in [Workers -> Thread]
  BY TypedParts DEF EdgeInv
<1>1. CASE UNCHANGED edgeVars
  BY <1>1 DEF edgeVars, HonestThreads, Honest, DecodePath
<1>2. CASE \E w \in Workers : Run(w)
  BY <1>2, RunIsHonest DEF EdgeInv
<1>3. CASE EdgeNext /\ ~\E w \in Workers : Run(w)
  <2>1. ASSUME NEW w \in Workers PROVE Honest(thread'[w])
    <3>1. Handled(thread[w], thread'[w])
      BY <1>3, OthersHandle
    <3>2. thread[w] \in Thread /\ Honest(thread[w])
      BY <1>0 DEF HonestThreads
    <3> QED BY <3>1, <3>2, StaysHonest, NewIsHonest DEF Handled
  <2> QED BY <2>1 DEF HonestThreads, Honest, DecodePath
<1> QED BY <1>1, <1>2, <1>3

LEMMA InitHonest == EdgeInit => HonestThreads
<1> SUFFICES ASSUME EdgeInit, NEW w \in Workers PROVE Honest(thread[w])
  BY DEF HonestThreads
<1>1. thread[w] = NoWorker \/ \E c : thread[w] = StreamWorker(c)
  BY DEF EdgeInit, InitStreams
<1>2. Honest(NoWorker)
  BY DEF Honest, NoWorker
<1> QED BY <1>1, <1>2, NewIsHonest

(* What a detection says of the decoder is true of the frame it is about,  *)
(* whichever thread asked for the path and however often the source was    *)
(* reopened, fell back or came back (DecodeIsHonest).                      *)
THEOREM DecodeIsTold == EdgeSpec => []DecodeIsHonest
<1>1. EdgeInv /\ HonestThreads => DecodeIsHonest
  <2> SUFFICES ASSUME EdgeInv, HonestThreads, NEW w \in Registered,
                      thread[w].at = "publishing"
               PROVE  HealthDecode(thread[w].stream) = DecodePath(thread[w].source)
    BY DEF DecodeIsHonest
  <2>1. w \in Workers /\ w # 0 /\ Honest(thread[w])
    BY DEF Registered, Workers, HonestThreads
  <2>2. PICK c \in Cameras : workers[c] = w
    BY DEF Registered
  <2>3. thread[w].stream = c
    BY <2>1, <2>2, TypedParts DEF EdgeInv
  <2> QED BY <2>1, <2>2, <2>3 DEF Honest, HealthDecode
<1>2. EdgeInit => EdgeInv /\ HonestThreads
  BY InitEdgeInv, InitHonest
<1>3. EdgeInv /\ HonestThreads /\ [EdgeNext]_edgeVars => EdgeInv' /\ HonestThreads'
  BY NextEdgeInv, NextHonest
<1> QED BY <1>1, <1>2, <1>3, PTL DEF EdgeSpec
=============================================================================
