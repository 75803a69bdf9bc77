------------------------------ MODULE ReCamera ------------------------------
(***************************************************************************)
(* The reCamera application from setup to exit: the CPU frequency policy   *)
(* it may pin for a measurement (esk/cpufreq.py), the ffmpeg child of its  *)
(* replay source (esk/file_source.py), its MQTT publisher                  *)
(* (esk/publisher.py) and the frame loop that ties them together (app.py). *)
(*                                                                         *)
(* What a frame shows, the tracker and the preview are left out.  appmgr's *)
(* SIGTERM comes at any time.  Before run has installed its handlers, and  *)
(* in the bench mode, which installs none, it has Python's default action: *)
(* neither a finally nor an atexit hook runs.  (A handler of the kit's own *)
(* would not be in the repository.)                                        *)
(***************************************************************************)
EXTENDS Naturals

CONSTANT FreqSteps              \* the clock steps of the board

ASSUME FreqStepsAssumption == FreqSteps \subseteq Nat \ {0}

VARIABLES
  policy, found,    \* the cpufreq policy now, and as it was before the start
  root,             \* may the process write the policy
  asked,            \* the cpu_governor setting
  lock,             \* GovernorLock: what apply has recorded, has restore run
  hook,             \* is _restore_governor registered with atexit
  benchmark,        \* bench_infer is set
  feed,             \* "isp" or "rtsp" of the kit, or the "file" replay
  child,            \* the replay's ffmpeg runs
  at,               \* where the application is
  handlers,         \* are the stop handlers installed
  stopAsked,        \* _stop
  cut,              \* history: a SIGTERM ended the process on the spot
  decoder,          \* decode_path
  said              \* the last status published

cameraVars == <<policy, found, root, asked, lock, hook, benchmark, feed, child,
                at, handlers, stopAsked, cut, decoder, said>>
settings == <<found, root, asked, benchmark, feed>>

Governors == {"interactive", "performance"}
Policies == {q \in [governor : Governors, min : FreqSteps, max : FreqSteps] :
               q.min <= q.max}

NoSpec == [governor |-> "none", khz |-> 0]
(* A governor, pinned to a step where "@khz" says so.                      *)
Specs == {NoSpec, [governor |-> "interactive", khz |-> 0]}
         \cup [governor : {"performance"}, khz : {0} \cup FreqSteps]

NoLock == [prev |-> "none", restored |-> FALSE]
NothingSaid == [online |-> FALSE, decode |-> "sw"]

CameraInit ==
  /\ policy \in Policies /\ found = policy
  /\ root \in BOOLEAN /\ asked \in Specs /\ benchmark \in BOOLEAN
  /\ feed \in {"isp", "rtsp", "file"}
  /\ lock = NoLock /\ hook = FALSE /\ child = FALSE
  /\ at = "setup" /\ handlers = FALSE /\ stopAsked = FALSE /\ cut = FALSE
  /\ decoder = "unknown" /\ said = NothingSaid

-----------------------------------------------------------------------------
(* The policy files.                                                       *)

(* The kernel refuses a window that is upside down.                        *)
SetMin(q, v) == IF v <= q.max THEN [q EXCEPT !.min = v] ELSE q
SetMax(q, v) == IF v >= q.min THEN [q EXCEPT !.max = v] ELSE q
SetGovernor(q, g) == [q EXCEPT !.governor = g]

(* The step set_governor pins: the given one, or the top of the window.    *)
TargetOf(q, spec) == IF spec.khz # 0 THEN spec.khz ELSE q.max

(* set_governor: both ends of the window to the target, min first unless   *)
(* the target lies below it.                                               *)
SetTo(q, spec) ==
  LET t == TargetOf(q, spec)
      g == SetGovernor(q, spec.governor)
  IN IF spec.governor # "performance" THEN g
     ELSE IF t >= q.min THEN SetMax(SetMin(g, t), t)
     ELSE SetMin(SetMax(g, t), t)

(* Mutant: restore writes the governor only.                               *)
PutBack_Governor(q, prev) == SetGovernor(q, prev.governor)

(* GovernorLock.restore: max, min, governor.                               *)
PutBack(q, prev) == SetGovernor(SetMin(SetMax(q, prev.max), prev.min), prev.governor)

(* _restore_governor: nothing without a lock, and only once.               *)
RestoreGovernor ==
  IF lock.prev = "none" \/ lock.restored THEN UNCHANGED <<policy, lock>>
  ELSE /\ lock' = [lock EXCEPT !.restored = TRUE]
       /\ policy' = IF root THEN PutBack(policy, found) ELSE policy

-----------------------------------------------------------------------------
(* setup, up to the lock: GovernorLock.apply records the policy (which is  *)
(* the one found) and sets the governor, and atexit gets the restore.      *)
SetupLock ==
  /\ at = "setup" /\ at' = "configured"
  /\ IF asked = NoSpec THEN UNCHANGED <<lock, hook, policy>>
     ELSE /\ lock' = [lock EXCEPT !.prev = "found"] /\ hook' = TRUE
          /\ policy' = IF root THEN SetTo(policy, asked) ELSE policy
  /\ UNCHANGED <<settings, child, handlers, stopAsked, cut, decoder, said>>

(* The rest of setup: model, tracker, preview server, publisher.           *)
SetupEnds ==
  /\ at = "configured"
  /\ at' = IF benchmark THEN "bench" ELSE "ready"
  /\ UNCHANGED <<settings, policy, lock, hook, child, handlers, stopAsked, cut, decoder, said>>

(* ... of which several raise: a model of another board, a port in use.    *)
SetupFails ==
  /\ at = "configured" /\ at' = "exiting"
  /\ UNCHANGED <<settings, policy, lock, hook, child, handlers, stopAsked, cut, decoder, said>>

(* _run_bench and _run_equiv, which restore whether they raise or return.  *)
RunBench ==
  /\ at = "bench" /\ at' = "exiting"
  /\ RestoreGovernor
  /\ UNCHANGED <<settings, hook, child, handlers, stopAsked, cut, decoder, said>>

(* pub.connect raises before run has entered its try.                      *)
ConnectFails ==
  /\ at = "ready" /\ at' = "exiting"
  /\ UNCHANGED <<settings, policy, lock, hook, child, handlers, stopAsked, cut, decoder, said>>

(* pub.connect: the client's thread runs, the stop handlers are not there. *)
ConnectBroker ==
  /\ at = "ready" /\ at' = "connected"
  /\ UNCHANGED <<settings, policy, lock, hook, child, handlers, stopAsked, cut, decoder, said>>

(* The stop handlers, and the first read of the feed, for which the replay *)
(* starts its child.                                                       *)
InstallHandlers ==
  /\ at = "connected" /\ at' = "loop"
  /\ handlers' = TRUE
  /\ child' = (feed = "file")
  /\ UNCHANGED <<settings, policy, lock, hook, stopAsked, cut, decoder, said>>

(* publish_status, as health and the stream entry see the decoder.         *)
TellStatus(online) == said' = [online |-> online, decode |-> decoder]

(* Publisher._on_connect, in the MQTT client's thread, at the first        *)
(* connection and at every later one.                                      *)
BrokerAccepts ==
  /\ at \in {"connected", "loop"}
  /\ TellStatus(TRUE)
  /\ UNCHANGED <<settings, policy, lock, hook, child, at, handlers, stopAsked, cut, decoder>>

(* _resolve_decode_path: from the source, at the first frame.              *)
Resolved == IF feed = "isp" THEN "hw" ELSE "sw"

(* One turn of the frame loop; its status is due or it is not.             *)
TakeFrame ==
  /\ at = "loop" /\ ~stopAsked
  /\ decoder' = IF decoder = "unknown" THEN Resolved ELSE decoder
  /\ said' \in {said, [online |-> TRUE, decode |-> decoder']}
  /\ UNCHANGED <<settings, policy, lock, hook, child, at, handlers, stopAsked, cut>>

(* A SIGTERM, with the handlers installed: the loop will see _stop.        *)
StopSignal ==
  /\ handlers /\ at # "gone" /\ stopAsked' = TRUE
  /\ UNCHANGED <<settings, policy, lock, hook, child, at, handlers, cut, decoder, said>>

(* ... and without: the process is gone, whatever it had pinned.           *)
Killed ==
  /\ ~handlers /\ at # "gone"
  /\ at' = "gone" /\ cut' = TRUE
  /\ UNCHANGED <<settings, policy, lock, hook, child, handlers, stopAsked, decoder, said>>

(* The loop is left: asked to stop, out of time or frames, or by what its  *)
(* body raises.  Dropping the generator closes the replay, and the finally *)
(* says goodbye.                                                           *)
LoopEnds ==
  /\ at = "loop" /\ at' = "closing"
  /\ child' = FALSE
  /\ TellStatus(FALSE)
  /\ UNCHANGED <<settings, policy, lock, hook, handlers, stopAsked, cut, decoder>>

(* The rest of the finally: preview, sampler, governor.                    *)
CloseDown ==
  /\ at = "closing" /\ at' = "exiting"
  /\ RestoreGovernor
  /\ UNCHANGED <<settings, hook, child, handlers, stopAsked, cut, decoder, said>>

(* The interpreter's exit calls what atexit was given.                     *)
AtExit ==
  /\ at = "exiting" /\ at' = "gone"
  /\ IF hook THEN RestoreGovernor ELSE UNCHANGED <<policy, lock>>
  /\ UNCHANGED <<settings, hook, child, handlers, stopAsked, cut, decoder, said>>

CameraNext ==
  \/ SetupLock \/ SetupEnds \/ SetupFails \/ RunBench
  \/ ConnectFails \/ ConnectBroker \/ InstallHandlers \/ BrokerAccepts \/ TakeFrame
  \/ StopSignal \/ Killed \/ LoopEnds \/ CloseDown \/ AtExit

CameraSpec == CameraInit /\ [][CameraNext]_cameraVars

-----------------------------------------------------------------------------
CameraTypeOK ==
  /\ policy \in Policies /\ found \in Policies
  /\ lock \in [prev : {"none", "found"}, restored : BOOLEAN]
  /\ decoder \in {"unknown", "hw", "sw"}
  /\ at \in {"setup", "configured", "bench", "ready", "connected", "loop", "closing",
             "exiting", "gone"}

(* When the application has ended, by a stop in the frame loop, an         *)
(* exception, a failed setup, a failed connect or the end of a measurement *)
(* included, the board's clock is as it was found and no decoder is left   *)
(* running.  Only a SIGTERM that finds no handler may leave the clock      *)
(* pinned: cpufreq.py:20 promises the restore on SIGTERM alike, and        *)
(* app.py:680 installs the handlers after setup, not for the bench.        *)
BoardIsAsFound == at = "gone" => ~child /\ (policy = found \/ cut)

=============================================================================
