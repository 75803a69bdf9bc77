---------------------------- MODULE EdgeDetector ----------------------------
(***************************************************************************)
(* The detector process of the Rockchip, Jetson, Hailo and generic         *)
(* platforms: StreamWorker, one thread per camera, over the platform's     *)
(* backend; the supervisor's commands, which run in the MQTT client's      *)
(* thread; and Detector.run, the main thread, which publishes the          *)
(* heartbeat and takes everything down.  The generic platform has a        *)
(* worker and a supervisor of its own (esk_generic), the others share      *)
(* esk_core/streams.py and supervisor.py.                                  *)
(* An action is what one thread does between two points at which another   *)
(* may see or change what it works on.                                     *)
(*                                                                         *)
(* What a frame or a status says is left out: thresholds, fps, the state   *)
(* field, preview URLs.  Which request is refused before it reaches the    *)
(* supervisor is ControlPlane's subject.                                   *)
(***************************************************************************)
EXTENDS Naturals, FiniteSets

CONSTANTS
  Platforms,        \* subset of AllPlatforms
  Cameras,          \* stream ids
  Configured,       \* the streams of the config file, each a camera
  MaxWorkers        \* bound on the workers ever created

AllPlatforms == {"rknn", "jetson", "hailo", "generic"}
Fallible == {"rknn", "jetson"}      \* they have a hardware decoder

ASSUME EdgeAssumption ==
  /\ Platforms \subseteq AllPlatforms
  /\ Configured \subseteq Cameras /\ IsFiniteSet(Cameras)
  /\ MaxWorkers \in Nat /\ Cardinality(Configured) <= MaxWorkers

Workers == 1..MaxWorkers

VARIABLES
  platform, requireHw,    \* which detector this is; require_hw_decode
  thread,                 \* the StreamWorkers and where their threads stand
  workers,                \* _workers: camera -> worker, 0 when not in it
  main,                   \* the main thread: where it is
  toStop,                 \* workers stop_streams has not come to yet
  mq,                     \* the MQTT thread: what it is doing, for which worker
  link,                   \* the client: "down", "connecting", "up", "closed", or
                          \* "dead": its thread has ended, nothing is sent
  lastStatus,             \* the status the broker retains: "none", "online"
                          \* or "offline"
  signalled               \* SIGINT or SIGTERM has come

edgeVars == <<platform, requireHw, thread, workers, main, toStop, mq, link,
              lastStatus, signalled>>
world == <<platform, requireHw>>

NoWorker == [stream |-> "none", at |-> "none", source |-> "none", decode |-> "none",
             opened |-> FALSE, fatal |-> FALSE, stop |-> FALSE]

DecodePrimary == IF platform \in Fallible THEN "hw" ELSE "sw"

(* StreamWorker.__init__.                                                  *)
StreamWorker(s) == [NoWorker EXCEPT !.stream = s, !.at = "made",
                                    !.decode = DecodePrimary]

Resting == [at |-> "idle", w |-> 0]

(* _create_worker for every configured stream.                             *)
InitStreams(r, th) ==
  /\ \A c \in Cameras : r[c] # 0 <=> c \in Configured
  /\ \A c, d \in Configured : r[c] = r[d] => c = d
  /\ \A c \in Configured : r[c] <= Cardinality(Configured)
  /\ th = [w \in Workers |-> IF \E c \in Configured : r[c] = w
                             THEN StreamWorker(CHOOSE c \in Configured : r[c] = w)
                             ELSE NoWorker]

EdgeInit ==
  /\ platform \in Platforms
  /\ requireHw \in BOOLEAN /\ (platform \notin Fallible => ~requireHw)
  /\ workers \in [Cameras -> 0..MaxWorkers]
  /\ InitStreams(workers, thread)
  /\ main = "start" /\ toStop = {} /\ mq = Resting
  /\ link = "down" /\ lastStatus = "none" /\ signalled = FALSE

-----------------------------------------------------------------------------
(* The backends: what open() and read() of a source may come to, as the    *)
(* camera and the hardware decoder come and go.                            *)

OpenCVStart == {"sw", "raise"}

(* The pipeline is built without waiting for the camera; a missing binding *)
(* or element, or a refused PLAYING, is HardwareDecodeUnavailable, which   *)
(* open_source turns into the CPU decoder unless it is told to refuse.     *)
RknnOpenSource == {"hw"} \cup (IF requireHw THEN {"fatal"} ELSE OpenCVStart)
JetsonOpenSource == {"hw"} \cup (IF requireHw THEN {"fatal"} ELSE OpenCVStart)

(* cv2.VideoCapture only: this board decodes on the CPU.                   *)
HailoOpen == OpenCVStart
GenericOpen == OpenCVStart

OpenResult == CASE platform = "rknn" -> RknnOpenSource
          [] platform = "jetson" -> JetsonOpenSource
          [] platform = "hailo" -> HailoOpen
          [] platform = "generic" -> GenericOpen

(* GStreamerMPP.read, GStreamerNVDEC.read: a frame, a pull that timed out, *)
(* or an error or end of stream on the bus.                                *)
MppRead == {"frame", "none", "lost"}
NvdecRead == {"frame", "none", "lost"}

(* OpenCVFFmpeg.read: a failed read closes the capture and says None; the  *)
(* next one opens it again, or raises.                                     *)
OpenCVRead(w) ==
  {"frame", "shut"} \cup (IF thread[w].source = "shut" THEN {"lost"} ELSE {})

(* No frame is a lost source.                                              *)
HailoRead == {"frame", "lost"}
GenericRead == {"frame", "lost"}

Read(w) ==
  CASE platform = "hailo" -> HailoRead
    [] platform = "generic" -> GenericRead
    [] thread[w].source \in {"sw", "shut"} -> OpenCVRead(w)
    [] platform = "rknn" -> MppRead
    [] OTHER -> NvdecRead

(* DECODE_HW of the pipeline, DECODE_SW of the capture.                    *)
DecodePath(source) == IF source = "hw" THEN "hw" ELSE "sw"

-----------------------------------------------------------------------------
(* The MQTT side of the supervisor.                                        *)

(* Detector.health.  On the Hailo board the constructor has put a string   *)
(* in decode_path's place, and calling it raises.                          *)
HealthRaises == platform = "hailo"

(* Detector.decode_path: looked up by stream id at the time of asking.     *)
HealthDecode(s) ==
  IF workers[s] = 0 THEN DecodePrimary ELSE thread[workers[s]].decode

SetWorker(w, r) == thread' = [thread EXCEPT ![w] = r]

(* What the finally of _run leaves.                                        *)
Over(r) == [r EXCEPT !.at = "ended", !.source = "none"]

-----------------------------------------------------------------------------
(* StreamWorker._run.                                                      *)

Only(w) == UNCHANGED <<world, workers, main, toStop, mq, link, lastStatus,
                       signalled>>

(* The head of the loop.                                                   *)
RunTop(w) ==
  LET r == thread[w] IN
    /\ r.at = "top"
    /\ SetWorker(w, IF r.stop THEN Over(r)
                    ELSE IF r.source = "none"
                         THEN [r EXCEPT !.at = "opening"]
                         ELSE [r EXCEPT !.at = "reading"])
    /\ Only(w)

(* Mutant: the decode path is asked for once.                              *)
RunOpen_DecodeOnce(w) ==
  LET r == thread[w] IN
    /\ r.at = "opening"
    /\ \E o \in OpenResult :
         SetWorker(w, CASE o = "fatal" -> [Over(r) EXCEPT !.fatal = TRUE]
                        [] o = "raise" -> [r EXCEPT !.at = "top"]
                        [] OTHER -> [r EXCEPT !.at = "reading", !.source = o,
                                       !.opened = @ \/ platform = "generic",
                                       !.decode = IF r.opened THEN @ ELSE DecodePath(o)])
    /\ Only(w)

(* backend.open comes back: fatal, to be tried again (after a wait the stop *)
(* event cuts short), or a source, which goes on to the first read.  The    *)
(* generic worker calls itself open now, the others with the first frame.   *)
RunOpen(w) ==
  LET r == thread[w] IN
    /\ r.at = "opening"
    /\ \E o \in OpenResult :
         SetWorker(w, CASE o = "fatal" -> [Over(r) EXCEPT !.fatal = TRUE]
                        [] o = "raise" -> [r EXCEPT !.at = "top"]
                        [] OTHER -> [r EXCEPT !.at = "reading", !.source = o,
                                       !.opened = @ \/ platform = "generic",
                                       !.decode = DecodePath(o)])
    /\ Only(w)

(* backend.read: a frame, nothing this tick, or SourceLost and _release.   *)
RunRead(w) ==
  LET r == thread[w] IN
    /\ r.at = "reading"
    /\ \E o \in Read(w) :
         SetWorker(w, CASE o = "frame" ->
                             [r EXCEPT !.at = "publishing", !.opened = TRUE,
                                       !.source = DecodePath(r.source)]
                        [] o = "none" -> [r EXCEPT !.at = "top"]
                        [] o = "shut" -> [r EXCEPT !.at = "top", !.source = "shut"]
                        [] o = "lost" -> [r EXCEPT !.at = "top", !.source = "none"])
    /\ Only(w)

(* build_payload and _publish_detections; what they raise ends the thread. *)
RunPublish(w) ==
  LET r == thread[w] IN
    /\ r.at = "publishing"
    /\ SetWorker(w, IF HealthRaises THEN Over(r) ELSE [r EXCEPT !.at = "top"])
    /\ Only(w)

Run(w) == RunTop(w) \/ RunOpen(w) \/ RunRead(w) \/ RunPublish(w)

-----------------------------------------------------------------------------
(* StreamWorker.stop, from whichever thread calls it: the event is set, and *)
(* the join, which gives up after five seconds, promises nothing.          *)
AskStop(w) == SetWorker(w, [thread[w] EXCEPT !.stop = TRUE])

(* publish_status: the client sends in the order of the calls, and nothing *)
(* after its DISCONNECT.                                                   *)
SayStatus(online) ==
  lastStatus' = IF link \in {"connecting", "up"}
              THEN IF online THEN "online" ELSE "offline" ELSE lastStatus

(* The MQTT thread: on_connect, then commands one at a time.               *)
MqttOnly == UNCHANGED <<world, main, toStop, signalled>>

OnConnect ==
  /\ link = "connecting" /\ mq = Resting
  /\ IF HealthRaises THEN link' = "dead" /\ UNCHANGED lastStatus
     ELSE link' = "up" /\ SayStatus(TRUE)
  /\ MqttOnly /\ UNCHANGED <<thread, workers, mq>>

(* _cmd_set_threshold, whose change of the threshold is ControlPlane's.    *)
CmdSetThreshold ==
  /\ link = "up" /\ mq = Resting /\ \E c \in Cameras : workers[c] # 0
  /\ mq' = [at |-> "saying", w |-> 0]
  /\ MqttOnly /\ UNCHANGED <<thread, workers, link, lastStatus>>

(* A command that has done its work tells so in the retained status.         *)
SayDone ==
  /\ mq.at = "saying"
  /\ SayStatus(TRUE)
  /\ mq' = Resting
  /\ MqttOnly /\ UNCHANGED <<thread, workers, link>>

Registered == {w \in Workers : \E c \in Cameras : workers[c] = w}

(* _cmd_add_stream registers the worker, ...                               *)
CmdAddStream(c) ==
  /\ link = "up" /\ mq = Resting /\ workers[c] = 0
  /\ \E w \in Workers :
       /\ thread[w].at = "none" /\ \A v \in 1..(w - 1) : thread[v].at # "none"
       /\ workers' = [workers EXCEPT ![c] = w]
       /\ SetWorker(w, StreamWorker(c))
       /\ mq' = [at |-> "starting", w |-> w]
  /\ MqttOnly /\ UNCHANGED <<link, lastStatus>>

(* ... starts it, which clears its stop event, ...                         *)
AddStart ==
  /\ mq.at = "starting"
  /\ SetWorker(mq.w, [thread[mq.w] EXCEPT !.at = "top", !.stop = FALSE])
  /\ mq' = [mq EXCEPT !.at = "awaiting"]
  /\ MqttOnly /\ UNCHANGED <<workers, link, lastStatus>>

(* ... and waits for a frame, a fatal failure or the deadline.             *)
WaitUntilOpen ==
  /\ mq.at = "awaiting"
  /\ \/ thread[mq.w].opened /\ mq' = [at |-> "saying", w |-> 0]
     \/ ~thread[mq.w].opened /\ mq' = [mq EXCEPT !.at = "refusing"]
  /\ MqttOnly /\ UNCHANGED <<thread, workers, link, lastStatus>>

(* _cmd_remove_stream takes the worker out before it stops it.             *)
CmdRemoveStream(c) ==
  /\ link = "up" /\ mq = Resting /\ workers[c] # 0
  /\ workers' = [workers EXCEPT ![c] = 0]
  /\ mq' = [at |-> "removing", w |-> workers[c]]
  /\ MqttOnly /\ UNCHANGED <<thread, link, lastStatus>>

(* Mutant: a refused add takes the worker out and leaves it running.       *)
AddRefused_StillRuns ==
  /\ mq.at = "refusing"
  /\ mq' = [mq EXCEPT !.at = "refused"]
  /\ MqttOnly /\ UNCHANGED <<thread, workers, link, lastStatus>>

(* A refused worker is stopped and joined, ...                             *)
AddRefused ==
  /\ mq.at = "refusing"
  /\ AskStop(mq.w)
  /\ mq' = [mq EXCEPT !.at = "refused"]
  /\ MqttOnly /\ UNCHANGED <<workers, link, lastStatus>>

(* ... and leaves the registry only then.                                 *)
AddUndone ==
  /\ mq.at = "refused"
  /\ workers' = [workers EXCEPT ![thread[mq.w].stream] = 0]
  /\ mq' = Resting
  /\ MqttOnly /\ UNCHANGED <<thread, link, lastStatus>>

(* The rest of _cmd_remove_stream.                                         *)
RemoveStops ==
  /\ mq.at = "removing"
  /\ AskStop(mq.w)
  /\ mq' = [at |-> "saying", w |-> 0]
  /\ MqttOnly /\ UNCHANGED <<workers, link, lastStatus>>

Mqtt == \/ OnConnect \/ AddStart \/ WaitUntilOpen \/ AddRefused \/ AddUndone
        \/ RemoveStops \/ SayDone

-----------------------------------------------------------------------------
(* Detector.run.                                                           *)
MainOnly == UNCHANGED <<world, workers, mq>>
At(point) == main' = point

(* client.connect, loop_start, start_streams.                              *)
StartRun ==
  /\ main = "start"
  /\ At("loop") /\ link' = "connecting"
  /\ thread' = [w \in Workers |-> IF w \in Registered
                                 THEN [thread[w] EXCEPT !.at = "top"] ELSE thread[w]]
  /\ MainOnly /\ UNCHANGED <<toStop, lastStatus, signalled>>

GoDown == At("stopping") /\ toStop' = Registered

(* Mutant: a fatal stream is left to the log.                              *)
SeeFatal_Ignored ==
  /\ main = "loop" /\ FALSE
  /\ GoDown
  /\ MainOnly /\ UNCHANGED <<thread, link, lastStatus, signalled>>

(* raise worker.fatal; the generic worker knows no fatal failure.          *)
SeeFatal ==
  /\ main = "loop" /\ \E w \in Registered : thread[w].fatal
  /\ GoDown
  /\ MainOnly /\ UNCHANGED <<thread, link, lastStatus, signalled>>

(* publish_status in the loop; where health raises, it ends the loop.      *)
MainHeartbeat ==
  /\ main = "loop"
  /\ IF HealthRaises THEN GoDown /\ UNCHANGED lastStatus
     ELSE SayStatus(TRUE) /\ UNCHANGED <<main, toStop>>
  /\ MainOnly /\ UNCHANGED <<thread, link, signalled>>

(* install_signal_handlers.  The limits of a test run, max_seconds and     *)
(* max_frames, end the loop the same way and are left out.                 *)
Signal ==
  /\ main = "loop" /\ ~signalled /\ signalled' = TRUE
  /\ MainOnly /\ UNCHANGED <<thread, main, toStop, link, lastStatus>>

SeeSignal ==
  /\ main = "loop" /\ signalled
  /\ GoDown
  /\ MainOnly /\ UNCHANGED <<thread, link, lastStatus, signalled>>

(* stop_streams, one worker after the other.                               *)
StopNext ==
  /\ main = "stopping"
  /\ \E w \in toStop : AskStop(w) /\ toStop' = toStop \ {w}
  /\ MainOnly /\ UNCHANGED <<main, link, lastStatus, signalled>>

(* publish_status(online=False), ...                                       *)
SayGoodbye ==
  /\ main = "stopping" /\ toStop = {}
  /\ SayStatus(FALSE) /\ At("goodbye")
  /\ MainOnly /\ UNCHANGED <<thread, toStop, link, signalled>>

(* ... then disconnect.                                                    *)
Disconnect ==
  /\ main = "goodbye"
  /\ link' = IF link = "dead" THEN "dead" ELSE "closed"
  /\ At("loop_stop")
  /\ MainOnly /\ UNCHANGED <<thread, toStop, lastStatus, signalled>>

(* loop_stop waits for the MQTT thread; the process ends with its threads, *)
(* and a connection that did not say DISCONNECT leaves its will.           *)
EndRun ==
  /\ main = "loop_stop" /\ mq = Resting
  /\ At("ended")
  /\ thread' = [w \in Workers |-> IF thread[w].at = "none" THEN thread[w]
                                 ELSE Over(thread[w])]
  /\ lastStatus' = IF link = "closed" THEN lastStatus ELSE "offline"
  /\ MainOnly /\ UNCHANGED <<toStop, link, signalled>>

Main == \/ StartRun \/ SeeFatal \/ SeeSignal \/ StopNext
        \/ SayGoodbye \/ Disconnect \/ EndRun

-----------------------------------------------------------------------------
EdgeNext ==
  \/ \E w \in Workers : Run(w)
  \/ Mqtt \/ Main \/ MainHeartbeat \/ Signal \/ CmdSetThreshold
  \/ \E c \in Cameras : CmdAddStream(c) \/ CmdRemoveStream(c)

(* The MQTT thread and the main thread are scheduled and joins time out;   *)
(* nothing is asked of the capture threads, which may hang in a read.      *)
EdgeFairness == WF_edgeVars(Mqtt) /\ WF_edgeVars(Main)

EdgeSpec == EdgeInit /\ [][EdgeNext]_edgeVars /\ EdgeFairness

-----------------------------------------------------------------------------
EdgeTypeOK ==
  /\ thread \in [Workers ->
       [stream : Cameras \cup {"none"}, source : {"none", "hw", "sw", "shut"},
        at : {"none", "made", "top", "opening", "reading", "publishing",
              "ended"},
        decode : {"none", "hw", "sw"},
        opened : BOOLEAN, fatal : BOOLEAN, stop : BOOLEAN]]
  /\ workers \in [Cameras -> 0..MaxWorkers] /\ toStop \subseteq Workers
  /\ \A c \in Cameras : workers[c] # 0 => thread[workers[c]].stream = c

(* No thread leaves its source open behind it, and one that is in nobody's *)
(* registry any more has been told to stop, whoever took it out and       *)
(* wherever it stood (supervisor.py, _cmd_add_stream, _cmd_remove_stream). *)
NothingLeftRunning ==
  \A w \in Workers :
    /\ thread[w].at = "ended" => thread[w].source = "none"
    /\ thread[w].at \notin {"none", "ended"} /\ w \notin Registered /\ mq.w # w
         => thread[w].stop

(* The detection message of a camera in the registry names the decoder    *)
(* the frame came from, across reopens that fall back (MQTT.md, health.decode).*)
DecodeIsHonest ==
  \A w \in Registered :
    thread[w].at = "publishing" =>
      HealthDecode(thread[w].stream) = DecodePath(thread[w].source)

(* A stream that can never be decoded is not left as a grey tile: either   *)
(* its add is refused or the detector ends (detector.py, the loop of run). *)
FatalSurfaces ==
  \A w \in Workers :
    thread[w].fatal ~> (main = "ended" \/ w \notin Registered)

(* "Any failure [...] must ack ok: false" (MQTT.md): a refused add leaves  *)
(* the detector and its other cameras running, so it goes down only when   *)
(* it is told to or when one of its own streams cannot be decoded.         *)
RefusalIsHarmless ==
  main \notin {"start", "loop"} =>
    signalled \/ \E w \in 1..Cardinality(Configured) : thread[w].fatal

=============================================================================
