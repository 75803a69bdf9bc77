-------------------------- MODULE Detectors_proofs --------------------------
(***************************************************************************)
(* Proofs about what the platforms' detectors have of their own: the model *)
(* that the threads share (Engine), for every number of threads and        *)
(* frames, whichever backend it runs on; the reCamera's application        *)
(* (ReCamera), for every set of clock steps, every policy found at the     *)
(* start and every cpu_governor setting; the generations of a device's     *)
(* entry in the registry (DeviceGeneration), for every number of sessions  *)
(* and publications; the frames that are shown (PreviewServer), for every  *)
(* set of cameras and of threads that ask for them; the memory bench       *)
(* (NpuBench), for every graph, memory and number of iterations; the       *)
(* tracker (Tracker), for any boxes and threshold; and what becomes of the *)
(* network's output (Vision), for any input side, frames and thresholds.   *)
(*                                                                         *)
(* The last two choose greedily, by recursion over finite sets.  What such *)
(* a recursion picks is proved once, from the least set on which it would  *)
(* not, for orders and clashes given as sets of pairs.                     *)
(***************************************************************************)
EXTENDS Engine, ReCamera, DeviceGeneration, PreviewServer, NpuBench,
        Tracker, Vision, FiniteSetTheorems, WellFoundedInduction, TLAPS

-----------------------------------------------------------------------------
(* The shared model.                                                       *)

(* The lock is held exactly by the thread that is between taking it and    *)
(* letting it go, so one thread at most is there.                          *)
Exclusive == \A w \in Threads : holder = w <=> Inside(w)

(* What a thread finds in the model while it is inside the lock, and what  *)
(* it has taken from it afterwards, is of its own frame.                   *)
Carries(w) ==
  /\ doing[w] = "running" /\ KeepsBuffers => input = Mine(w)
  /\ doing[w] = "ran" =>
       /\ lastTime = Mine(w)
       /\ (IF KeepsBuffers THEN output ELSE raw[w]) = Mine(w)
  /\ doing[w] = "decoded" => lastTime = Mine(w)
  /\ doing[w] = "left" =>
       raw[w] = Mine(w) /\ time[w] = Mine(w) /\ model.kind = "onnx"
  /\ doing[w] = "done" => result[w].time = Mine(w)
  /\ doing[w] \in {"decoded", "done"} =>
       /\ result[w].of = Mine(w) /\ result[w].conf = conf[w]
       /\ model.kind = "hailo" => model.scores

CheckedOnce == rangeChecked => model.scores

EngineInv ==
  EngineTypeOK /\ Exclusive /\ CheckedOnce /\ \A w \in Threads : Carries(w)

LEMMA InitEngineInv == EngineInit => EngineInv
<1> SUFFICES ASSUME EngineInit PROVE EngineInv
  OBVIOUS
<1> USE EngineAssumption
<1>1. Empty \in Tags
  BY DEF Tags, Empty
<1>2. NoResult \in [of : Tags, time : Tags, conf : Thresholds \cup {0}]
  BY <1>1 DEF NoResult
<1>3. /\ raw \in [Threads -> Tags] /\ time \in [Threads -> Tags]
      /\ result \in [Threads -> [of : Tags, time : Tags, conf : Thresholds \cup {0}]]
      /\ frame \in [Threads -> 0..MaxFrames]
  BY <1>1, <1>2 DEF EngineInit
<1>4. EngineTypeOK
  BY <1>1, <1>3 DEF EngineInit, EngineTypeOK
<1>5. Exclusive /\ CheckedOnce /\ \A w \in Threads : Carries(w)
  BY DEF EngineInit, Exclusive, Inside, CheckedOnce, Carries
<1> QED BY <1>4, <1>5 DEF EngineInv

LEMMA NextEngineTypeOK == EngineTypeOK /\ [EngineNext]_engineVars => EngineTypeOK'
<1> SUFFICES ASSUME EngineTypeOK, [EngineNext]_engineVars PROVE EngineTypeOK'
  OBVIOUS
<1> USE EngineAssumption DEF EngineTypeOK, Step, shared, own
<1>1. ASSUME NEW w \in Threads PROVE Mine(w) \in Tags /\ Decoded(w) \in [of : Tags, time : Tags, conf : Thresholds \cup {0}]
  BY <1>1 DEF Mine, Tags, Decoded
<1>2. ASSUME NEW w \in Threads, NEW t \in Thresholds, SetThreshold(w, t)
      PROVE  EngineTypeOK'
  BY <1>2 DEF SetThreshold
<1>3. ASSUME NEW w \in Threads, CallDetect(w) PROVE EngineTypeOK'
  BY <1>3 DEF CallDetect
<1>4. ASSUME NEW w \in Threads, TakeLock(w) \/ PublishResult(w) PROVE EngineTypeOK'
  BY <1>4 DEF TakeLock, PublishResult
<1>5. ASSUME NEW w \in Threads, FillInput(w) PROVE EngineTypeOK'
  BY <1>1, <1>5 DEF FillInput
<1>6. ASSUME NEW w \in Threads, RunModel(w) PROVE EngineTypeOK'
  BY <1>1, <1>6 DEF RunModel
<1>7. ASSUME NEW w \in Threads, RunFails(w) \/ RangeIsWrong(w) PROVE EngineTypeOK'
  BY <1>1, <1>7 DEF RunFails, RangeIsWrong
<1>8. ASSUME NEW w \in Threads, Decode(w) PROVE EngineTypeOK'
  BY <1>1, <1>8 DEF Decode
<1>9. ASSUME NEW w \in Threads, ReadTime(w) PROVE EngineTypeOK'
  <2>1. time' \in [Threads -> Tags] /\ time'[w] = lastTime
    BY <1>9 DEF ReadTime
  <2>2. [result[w] EXCEPT !.time = lastTime]
          \in [of : Tags, time : Tags, conf : Thresholds \cup {0}]
    OBVIOUS
  <2>3. result' = [result EXCEPT ![w] = [result[w] EXCEPT !.time = lastTime]]
    BY <1>9, <2>1 DEF ReadTime
  <2>4. result' \in [Threads -> [of : Tags, time : Tags, conf : Thresholds \cup {0}]]
    BY <2>2, <2>3
  <2> QED BY <1>9, <2>1, <2>4 DEF ReadTime
<1>10. ASSUME NEW w \in Threads, DecodeLater(w) PROVE EngineTypeOK'
  BY <1>1, <1>10 DEF DecodeLater
<1>11. ASSUME UNCHANGED engineVars PROVE EngineTypeOK'
  BY <1>11 DEF engineVars
<1> HIDE DEF EngineTypeOK, Step, shared, own
<1> QED
  BY <1>2, <1>3, <1>4, <1>5, <1>6, <1>7, <1>8, <1>9, <1>10, <1>11
     DEF EngineNext, EngineStep

(* A step of one thread takes nothing away from another: what the shared   *)
(* buffers hold matters to a thread only while it is inside the lock.      *)
LEMMA OthersCarry ==
  ASSUME EngineInv, NEW w \in Threads, NEW v \in Threads, v # w,
         UNCHANGED <<model, frame[v], conf[v], raw[v], time[v], result[v], doing[v]>>,
         Inside(w) \/ UNCHANGED <<input, output, lastTime>>
  PROVE  Carries(v)'
<1>1. Inside(v) => UNCHANGED <<input, output, lastTime>>
  BY DEF EngineInv, Exclusive
<1> QED
  BY <1>1 DEF EngineInv, Carries, Inside, Mine, KeepsBuffers

LEMMA NextEngineInv == EngineInv /\ [EngineNext]_engineVars => EngineInv'
<1> SUFFICES ASSUME EngineInv, [EngineNext]_engineVars PROVE EngineInv'
  OBVIOUS
<1> USE EngineAssumption
<1> DEFINE Kept == Exclusive' /\ CheckedOnce' /\ \A v \in Threads : Carries(v)'
<1>0. EngineTypeOK /\ EngineTypeOK'
  BY NextEngineTypeOK DEF EngineInv
<1>1. ASSUME NEW w \in Threads, NEW t \in Thresholds, SetThreshold(w, t)
      PROVE  Kept
  BY <1>1 DEF EngineInv, SetThreshold, Exclusive, Inside, CheckedOnce, Carries,
              Mine, KeepsBuffers, shared, own
<1>2. ASSUME NEW w \in Threads, EngineStep(w) PROVE Kept
  <2> USE <1>0 DEF EngineTypeOK, Step, shared, own
  <2>1. \A v \in Threads : v # w =>
          UNCHANGED <<frame[v], conf[v], raw[v], time[v], result[v], doing[v]>>
    BY <1>2 DEF EngineStep, CallDetect, TakeLock, FillInput, RunModel, RunFails,
                RangeIsWrong, Decode, ReadTime, DecodeLater, PublishResult
  <2>2. Inside(w) \/ UNCHANGED <<input, output, lastTime>>
    BY <1>2 DEF EngineStep, CallDetect, TakeLock, FillInput, RunModel, RunFails,
                RangeIsWrong, Decode, ReadTime, DecodeLater, PublishResult, Inside
  <2>3. model' = model
    BY <1>2 DEF EngineStep, CallDetect, TakeLock, FillInput, RunModel, RunFails,
                RangeIsWrong, Decode, ReadTime, DecodeLater, PublishResult
  <2>4. \A v \in Threads : v # w => Carries(v)'
    BY <2>1, <2>2, <2>3, OthersCarry
  <2>5. Exclusive'
    <3>1. Exclusive
      BY DEF EngineInv
    <3>2. CASE CallDetect(w) \/ FillInput(w) \/ RunModel(w) \/ Decode(w)
               \/ DecodeLater(w) \/ PublishResult(w)
      <4>1. holder' = holder /\ (Inside(w) <=> Inside(w)')
        BY <3>2 DEF CallDetect, FillInput, RunModel, Decode, DecodeLater,
                    PublishResult, Inside
      <4> QED BY <2>1, <3>1, <4>1 DEF Exclusive, Inside
    <3>3. CASE TakeLock(w)
      BY <2>1, <3>1, <3>3 DEF TakeLock, Exclusive, Inside
    <3>4. CASE RunFails(w) \/ RangeIsWrong(w) \/ ReadTime(w)
      <4>1. Inside(w) /\ ~Inside(w)' /\ holder' = Nobody
        BY <3>4 DEF RunFails, RangeIsWrong, ReadTime, Inside
      <4> QED BY <2>1, <3>1, <4>1 DEF Exclusive, Inside
    <3> QED BY <1>2, <3>2, <3>3, <3>4 DEF EngineStep
  <2>6. CheckedOnce'
    BY <1>2 DEF EngineInv, CheckedOnce, EngineStep, CallDetect, TakeLock, FillInput,
                RunModel, RunFails, RangeIsWrong, Decode, ReadTime, DecodeLater,
                PublishResult
  <2>7. Carries(w)'
    <3> USE DEF Carries, Mine, KeepsBuffers
    <3>1. Carries(w) /\ CheckedOnce
      BY DEF EngineInv
    <3>2. CASE CallDetect(w) \/ TakeLock(w) \/ RunFails(w) \/ RangeIsWrong(w)
               \/ PublishResult(w)
      BY <3>2 DEF CallDetect, TakeLock, RunFails, RangeIsWrong, PublishResult
    <3>3. CASE FillInput(w)
      BY <3>3 DEF FillInput
    <3>4. CASE RunModel(w)
      BY <3>1, <3>4 DEF RunModel
    <3>5. CASE Decode(w)
      BY <3>1, <3>5 DEF Decode, Decoded, CheckedOnce
    <3>6. CASE ReadTime(w)
      BY <3>1, <3>6 DEF ReadTime
    <3>7. CASE DecodeLater(w)
      BY <3>1, <3>7 DEF DecodeLater, Decoded
    <3> QED BY <1>2, <3>2, <3>3, <3>4, <3>5, <3>6, <3>7 DEF EngineStep
  <2> QED BY <2>4, <2>5, <2>6, <2>7
<1>3. ASSUME UNCHANGED engineVars PROVE Kept
  BY <1>3 DEF EngineInv, engineVars, Exclusive, Inside, CheckedOnce, Carries, Mine,
              KeepsBuffers
<1>4. Kept
  BY <1>1, <1>2, <1>3 DEF EngineNext
<1> QED BY <1>0, <1>4 DEF EngineInv

(* Whatever the threads of one model do in whatever order, and whenever    *)
(* thresholds change, what a stream publishes is of its own frame, and the *)
(* lock is never left behind (ResultsAreOwn).                              *)
THEOREM OwnResults == EngineSpec => []ResultsAreOwn
<1>1. EngineInv => ResultsAreOwn
  BY DEF EngineInv, Exclusive, Carries, ResultsAreOwn
<1> QED BY InitEngineInv, NextEngineInv, <1>1, PTL DEF EngineSpec

-----------------------------------------------------------------------------
(* The reCamera.                                                           *)

Policy(g, lo, hi) == [governor |-> g, min |-> lo, max |-> hi]

(* A governor is taken, and an end of the window moves where the other     *)
(* lets it.                                                                *)
LEMMA PolicyWrites ==
  ASSUME NEW g, NEW lo \in Nat, NEW hi \in Nat
  PROVE  /\ \A v \in Nat : SetMin(Policy(g, lo, hi), v) =
                             IF v <= hi THEN Policy(g, v, hi) ELSE Policy(g, lo, hi)
         /\ \A v \in Nat : SetMax(Policy(g, lo, hi), v) =
                             IF v >= lo THEN Policy(g, lo, v) ELSE Policy(g, lo, hi)
  BY DEF SetMin, SetMax, Policy

LEMMA GovernorWrites ==
  ASSUME NEW g, NEW h, NEW lo, NEW hi
  PROVE  SetGovernor(Policy(g, lo, hi), h) = Policy(h, lo, hi)
  BY DEF SetGovernor, Policy

(* What set_governor leaves starts no higher than the window that was      *)
(* found ends: a pin above the found window raises its top only.           *)
LEMMA PinnedBelow ==
  ASSUME NEW g, NEW lo \in Nat, NEW hi \in Nat, lo <= hi, NEW spec \in Specs
  PROVE  \E h : \E lo2, hi2 \in Nat :
           SetTo(Policy(g, lo, hi), spec) = Policy(h, lo2, hi2) /\ lo2 <= hi
<1> DEFINE q == Policy(g, lo, hi)
           t == TargetOf(q, spec)
           p == Policy(spec.governor, lo, hi)
<1>1. t \in Nat
  <2>1. spec.khz \in Nat
    <3>1. CASE spec \in {NoSpec, [governor |-> "interactive", khz |-> 0]}
      <4>1. NoSpec.khz = 0 /\ [governor |-> "interactive", khz |-> 0].khz = 0
        BY DEF NoSpec
      <4>2. spec = NoSpec \/ spec = [governor |-> "interactive", khz |-> 0]
        BY <3>1
      <4>3. spec.khz = 0
        BY <4>1, <4>2
      <4> QED BY <4>3
    <3>2. CASE spec \in [governor : {"performance"}, khz : {0} \cup FreqSteps]
      <4>1. spec.khz = 0 \/ spec.khz \in FreqSteps
        BY <3>2
      <4>2. CASE spec.khz = 0
        BY <4>2
      <4>3. CASE spec.khz \in FreqSteps
        <5>1. FreqSteps \subseteq Nat
          BY FreqStepsAssumption
        <5> QED BY <4>3, <5>1
      <4> QED BY <4>1, <4>2, <4>3
    <3> QED BY <3>1, <3>2 DEF Specs
  <2>2. q.max = hi
    BY DEF Policy
  <2> QED BY <2>1, <2>2 DEF TargetOf
<1>2. SetTo(q, spec) = IF spec.governor # "performance" THEN p
                       ELSE IF t >= lo THEN SetMax(SetMin(p, t), t)
                       ELSE SetMin(SetMax(p, t), t)
  <2>1. SetGovernor(q, spec.governor) = p
    BY GovernorWrites
  <2>2. q.min = lo
    BY DEF Policy
  <2> QED BY <2>1, <2>2 DEF SetTo
<1>3. /\ SetMin(p, t) = IF t <= hi THEN Policy(spec.governor, t, hi) ELSE p
      /\ SetMax(p, t) = IF t >= lo THEN Policy(spec.governor, lo, t) ELSE p
  BY <1>1, PolicyWrites
<1> HIDE DEF t
<1>4. CASE spec.governor # "performance"
  BY <1>2, <1>4
<1>5. CASE spec.governor = "performance" /\ t >= lo
  <2>1. SetTo(q, spec) = SetMax(SetMin(p, t), t)
    BY <1>2, <1>5
  <2>2. CASE t <= hi
    <3>1. SetTo(q, spec) = Policy(spec.governor, t, t)
      BY <1>1, <1>3, <2>1, <2>2, PolicyWrites
    <3> QED BY <1>1, <2>2, <3>1
  <2>3. CASE ~(t <= hi)
    <3>1. SetTo(q, spec) = Policy(spec.governor, lo, t)
      BY <1>1, <1>3, <1>5, <2>1, <2>3
    <3> QED BY <1>1, <3>1
  <2> QED BY <2>2, <2>3
<1>6. CASE spec.governor = "performance" /\ ~(t >= lo)
  <2>1. SetTo(q, spec) = SetMin(SetMax(p, t), t)
    BY <1>2, <1>6
  <2>2. SetTo(q, spec) = Policy(spec.governor, t, hi) /\ t <= hi
    BY <1>1, <1>3, <1>6, <2>1
  <2> QED BY <1>1, <2>2
<1> QED BY <1>4, <1>5, <1>6

(* GovernorLock.restore undoes whatever set_governor has done.             *)
LEMMA PutBackUndoes ==
  ASSUME NEW q \in Policies, NEW spec \in Specs
  PROVE  PutBack(SetTo(q, spec), q) = q
<1>1. PICK g \in Governors, lo, hi \in FreqSteps : q = Policy(g, lo, hi) /\ lo <= hi
  BY DEF Policies, Policy
<1>2. lo \in Nat /\ hi \in Nat
  BY <1>1, FreqStepsAssumption
<1>3. PICK h : \E lo2, hi2 \in Nat : SetTo(q, spec) = Policy(h, lo2, hi2) /\ lo2 <= hi
  BY <1>1, <1>2, PinnedBelow
<1>4. PICK lo2 \in Nat, hi2 \in Nat : SetTo(q, spec) = Policy(h, lo2, hi2) /\ lo2 <= hi
  BY <1>3
<1>5. SetMax(SetTo(q, spec), hi) = Policy(h, lo2, hi)
  BY <1>2, <1>4, PolicyWrites
<1>6. SetMin(Policy(h, lo2, hi), lo) = Policy(h, lo, hi)
  BY <1>1, <1>2, <1>4, PolicyWrites
<1>7. SetGovernor(Policy(h, lo, hi), g) = Policy(g, lo, hi)
  BY GovernorWrites
<1>8. q.governor = g /\ q.min = lo /\ q.max = hi
  BY <1>1 DEF Policy
<1> QED BY <1>1, <1>5, <1>6, <1>7, <1>8 DEF PutBack

(* The policy is the one found, or the one set_governor makes of it while  *)
(* a lock that has not restored yet is registered with atexit; the replay  *)
(* runs in the frame loop only.                                            *)
CameraInv ==
  /\ found \in Policies /\ asked \in Specs
  /\ lock.prev = "none" => policy = found
  /\ lock.prev # "none" =>
       /\ hook
       /\ policy = IF root /\ ~lock.restored THEN SetTo(found, asked) ELSE found
  /\ at = "gone" => lock.prev = "none" \/ lock.restored \/ cut
  /\ child => at = "loop"
  /\ at = "loop" => handlers
  /\ lock \in [prev : {"none", "found"}, restored : BOOLEAN]
  /\ at = "setup" => lock.prev = "none" /\ ~lock.restored

(* restore, called again or without a lock, leaves the found policy.       *)
LEMMA RestoreGives ==
  ASSUME CameraInv, RestoreGovernor
  PROVE  /\ policy' = found
         /\ lock'.prev = lock.prev
         /\ lock'.prev # "none" => lock'.restored
         /\ lock' \in [prev : {"none", "found"}, restored : BOOLEAN]
<1>1. CASE lock.prev = "none" \/ lock.restored
  BY <1>1 DEF CameraInv, RestoreGovernor
<1>2. CASE ~(lock.prev = "none" \/ lock.restored)
  <2>1. /\ lock' = [lock EXCEPT !.restored = TRUE]
        /\ policy' = IF root THEN PutBack(policy, found) ELSE policy
    BY <1>2 DEF RestoreGovernor
  <2>2. policy = IF root THEN SetTo(found, asked) ELSE found
    BY <1>2 DEF CameraInv
  <2>3. PutBack(SetTo(found, asked), found) = found
    BY PutBackUndoes DEF CameraInv
  <2>4. policy' = found
    BY <2>1, <2>2, <2>3
  <2> QED BY <2>1, <2>4 DEF CameraInv
<1> QED BY <1>1, <1>2

LEMMA InitCameraInv == CameraInit => CameraInv
  BY DEF CameraInit, CameraInv, NoLock

LEMMA StepCameraInv == CameraInv /\ [CameraNext]_cameraVars => CameraInv'
<1> SUFFICES ASSUME CameraInv, [CameraNext]_cameraVars PROVE CameraInv'
  OBVIOUS
<1>1. CASE SetupLock
  BY <1>1 DEF CameraInv, SetupLock, settings
<1>2. CASE RunBench
  <2>1. UNCHANGED <<settings, hook, child, handlers, cut>> /\ at = "bench" /\ at' = "exiting"
    BY <1>2 DEF RunBench
  <2> QED BY <1>2, <2>1, RestoreGives DEF CameraInv, RunBench, settings
<1>3. CASE CloseDown
  <2>1. UNCHANGED <<settings, hook, child, handlers, cut>> /\ at = "closing" /\ at' = "exiting"
    BY <1>3 DEF CloseDown
  <2> QED BY <1>3, <2>1, RestoreGives DEF CameraInv, CloseDown, settings
<1>4. CASE AtExit
  <2>1. /\ UNCHANGED <<settings, hook, child, handlers, cut>> /\ at = "exiting" /\ at' = "gone"
        /\ IF hook THEN RestoreGovernor ELSE UNCHANGED <<policy, lock>>
    BY <1>4 DEF AtExit
  <2>2. CASE hook
    BY <2>1, <2>2, RestoreGives DEF CameraInv, settings
  <2>3. CASE ~hook
    BY <2>1, <2>3 DEF CameraInv, settings
  <2> QED BY <2>2, <2>3
<1>5. CASE UNCHANGED cameraVars
  BY <1>5 DEF CameraInv, cameraVars
<1>6. CASE SetupEnds
  BY <1>6 DEF CameraInv, settings, SetupEnds
<1>7. CASE SetupFails \/ ConnectFails
  BY <1>7 DEF CameraInv, settings, SetupFails, ConnectFails
<1>8. CASE ConnectBroker \/ InstallHandlers
  <2>1. /\ at \in {"ready", "connected"} /\ at' \in {"loop", "connected"}
        /\ child' => child \/ at' = "loop"
        /\ at' = "loop" => handlers'
        /\ UNCHANGED <<found, asked, policy, root, lock, hook, cut>>
    BY <1>8 DEF ConnectBroker, InstallHandlers, settings
  <2> QED BY <2>1 DEF CameraInv
<1>9. CASE BrokerAccepts \/ StopSignal \/ TakeFrame
  <2>1. UNCHANGED <<found, asked, policy, root, lock, hook, at, child, handlers, cut>>
    BY <1>9 DEF BrokerAccepts, StopSignal, TakeFrame, settings
  <2> QED BY <2>1 DEF CameraInv
<1>11. CASE Killed
  <2>1. ~handlers /\ at' = "gone" /\ cut'
        /\ UNCHANGED <<found, asked, policy, root, lock, hook, child>>
    BY <1>11 DEF Killed, settings
  <2> QED BY <2>1 DEF CameraInv
<1>10. CASE LoopEnds
  BY <1>10 DEF CameraInv, settings, LoopEnds
<1> QED BY <1>1, <1>2, <1>3, <1>4, <1>5, <1>6, <1>7, <1>8, <1>9, <1>10, <1>11 DEF CameraNext

(* When the application has ended by any way but a SIGTERM that found no   *)
(* handler, the governor and the clock window are as they were found, for  *)
(* every step the setting may ask for, above and below the found window    *)
(* included; and the replay's ffmpeg is gone however it ended (cpufreq.py  *)
(* set_governor and GovernorLock; app.py, run).                            *)
THEOREM BoardIsGivenBack == CameraSpec => []BoardIsAsFound
<1>1. CameraInv => BoardIsAsFound
  BY DEF CameraInv, BoardIsAsFound
<1> QED BY InitCameraInv, StepCameraInv, <1>1, PTL DEF CameraSpec

-----------------------------------------------------------------------------
(* Generations of a detector.  Where no will comes late, sessions reach    *)
(* the hub in the order of their starts, and what the broker retains is of *)
(* the newest.                                                             *)
StatusMsg == [kind : {"status"}, session : Nat, online : BOOLEAN, valid : BOOLEAN]
FrameMsg == [kind : {"frame"}, session : Nat, id : Nat \ {0}, inside : BOOLEAN]
Message == StatusMsg \cup FrameMsg

GenTyped ==
  /\ started \in Nat /\ proc \in {0, started} /\ frameId \in Nat
  /\ wills \subseteq {started}
  /\ inbox \in Seq(Message)
  /\ engine \in [session : Nat, watermark : Nat, entered : BOOLEAN]
  /\ standing \in Nat

RetainedIsNewest ==
  \/ started = 0 /\ retained = <<>>
  \/ \E m \in StatusMsg : retained = <<m>> /\ m.session = started

Rising(q) == \A i, j \in 1..Len(q) : i <= j => q[i].session <= q[j].session
NoneAfter(q, n) == \A i \in 1..Len(q) : q[i].session <= n
NoneBefore(q, n) == \A i \in 1..Len(q) : q[i].session >= n

(* A track that was inside is so in the engine, or belongs to a session of *)
(* which no frame will come any more.                                      *)
Standing ==
  standing # 0 =>
    \/ engine.session = standing /\ engine.entered
    \/ standing < started /\ NoneBefore(inbox, standing + 1)

GenInv ==
  /\ GenTyped /\ RetainedIsNewest
  /\ Rising(inbox) /\ NoneAfter(inbox, started)
  /\ NoneBefore(inbox, engine.session) /\ NoneBefore(inbox, standing)
  /\ engine.session <= started /\ standing <= started
  /\ Standing

LEMMA InitGenInv == Init => GenInv
<1> SUFFICES ASSUME Init PROVE GenInv
  OBVIOUS
<1>1. <<>> \in Seq(Message) /\ Len(<<>>) = 0
  OBVIOUS
<1> QED
  BY <1>1 DEF Init, GenInv, GenTyped, RetainedIsNewest, Rising, NoneAfter, NoneBefore, Standing,
              NoEngine

(* What may be on its way next: messages of the newest session behind the  *)
(* others, or the retained one instead of them.                            *)
Follows(q, n) ==
  /\ q \in Seq(Message) /\ Rising(q) /\ NoneAfter(q, n)
  /\ \A low \in Nat : low <= n /\ NoneBefore(inbox, low) => NoneBefore(q, low)

LEMMA InboxFollows ==
  ASSUME GenInv, NEW n \in Nat, started <= n
  PROVE  Follows(inbox, n)
<1>1. \A i \in 1..Len(inbox) : inbox[i].session \in Nat
  BY DEF GenInv, GenTyped, Message, StatusMsg, FrameMsg
<1>2. started \in Nat /\ NoneAfter(inbox, started) /\ Rising(inbox) /\ inbox \in Seq(Message)
  BY DEF GenInv, GenTyped
<1>3. NoneAfter(inbox, n)
  BY <1>1, <1>2 DEF NoneAfter
<1> QED BY <1>2, <1>3 DEF Follows

LEMMA RetainedFollows ==
  ASSUME GenInv
  PROVE  Follows(retained, started)
<1>1. CASE retained = <<>>
  <2>1. retained \in Seq(Message) /\ Len(retained) = 0
    BY <1>1
  <2> QED BY <2>1 DEF Follows, Rising, NoneAfter, NoneBefore
<1>2. CASE retained # <<>>
  <2>1. PICK m \in StatusMsg : retained = <<m>> /\ m.session = started
    BY <1>2 DEF GenInv, RetainedIsNewest
  <2>2. m \in Message /\ started \in Nat
    BY DEF Message, GenInv, GenTyped
  <2>3. retained \in Seq(Message) /\ Len(retained) = 1 /\ retained[1] = m
    BY <2>1, <2>2
  <2> HIDE DEF Message
  <2> QED BY <2>1, <2>2, <2>3 DEF Follows, Rising, NoneAfter, NoneBefore
<1> QED BY <1>1, <1>2

LEMMA OneMoreFollows ==
  ASSUME NEW n \in Nat, NEW q, Follows(q, n), NEW m \in Message, m.session = n
  PROVE  Follows(Append(q, m), n)
<1> DEFINE r == Append(q, m)
<1>1. /\ q \in Seq(Message) /\ Rising(q) /\ NoneAfter(q, n)
      /\ \A low \in Nat : low <= n /\ NoneBefore(inbox, low) => NoneBefore(q, low)
  BY DEF Follows
<1>2. /\ r \in Seq(Message) /\ Len(r) = Len(q) + 1 /\ r[Len(q) + 1] = m /\ Len(q) \in Nat
      /\ \A i \in 1..Len(q) : r[i] = q[i]
  BY <1>1
<1>3. \A i \in 1..Len(q) : q[i].session \in Nat
  BY <1>1 DEF Message, StatusMsg, FrameMsg
<1> HIDE DEF r
<1>4. \A i \in 1..Len(r) : i \in 1..Len(q) \/ (i = Len(q) + 1 /\ r[i] = m)
  BY <1>2
<1>5. NoneAfter(r, n)
  BY <1>1, <1>2, <1>3, <1>4 DEF NoneAfter
<1>6. Rising(r)
  BY <1>1, <1>2, <1>3, <1>4, <1>5 DEF Rising, NoneAfter
<1>7. ASSUME NEW low \in Nat, low <= n, NoneBefore(inbox, low) PROVE NoneBefore(r, low)
  BY <1>1, <1>2, <1>4, <1>7 DEF NoneBefore
<1> QED BY <1>2, <1>5, <1>6, <1>7 DEF Follows, r

(* A step in which the hub judges nothing keeps the order.                 *)
LEMMA DetectorKeeps ==
  ASSUME GenInv, UNCHANGED <<engine, standing>>,
         started' \in Nat, started <= started', proc' \in {0, started'}, frameId' \in Nat,
         wills' \subseteq {started'},
         Follows(inbox', started'),
         \/ retained' = retained /\ started' = started
         \/ \E m \in StatusMsg : m.session = started' /\ retained' = <<m>>
  PROVE  GenInv'
<1>1. /\ GenTyped /\ RetainedIsNewest /\ Standing
      /\ started \in Nat /\ engine.session \in Nat /\ standing \in Nat
      /\ engine.session <= started' /\ standing <= started'
  BY DEF GenInv, GenTyped
<1>2. RetainedIsNewest'
  BY <1>1 DEF RetainedIsNewest
<1>3. PICK q, n : q = inbox' /\ n = started'
  OBVIOUS
<1>4. /\ q \in Seq(Message) /\ Rising(q) /\ NoneAfter(q, n)
      /\ \A low \in Nat : low <= n /\ NoneBefore(inbox, low) => NoneBefore(q, low)
  BY <1>3 DEF Follows
<1>5. NoneBefore(q, engine.session) /\ NoneBefore(q, standing)
  BY <1>1, <1>3, <1>4 DEF GenInv
<1>6. GenTyped'
  BY <1>1, <1>3, <1>4 DEF GenTyped
<1>7. /\ Rising(inbox)' /\ NoneAfter(inbox, started)'
      /\ NoneBefore(inbox, engine.session)' /\ NoneBefore(inbox, standing)'
  BY <1>3, <1>4, <1>5 DEF Rising, NoneAfter, NoneBefore
<1>8. Standing'
  <2>1. standing < started /\ NoneBefore(inbox, standing + 1)
          => standing < n /\ NoneBefore(q, standing + 1)
    BY <1>1, <1>3, <1>4
  <2>2. NoneBefore(inbox, standing + 1)' <=> NoneBefore(q, standing + 1)
    BY <1>3 DEF NoneBefore
  <2> QED BY <1>1, <1>3, <2>1, <2>2 DEF Standing
<1> QED BY <1>1, <1>2, <1>6, <1>7, <1>8 DEF GenInv

(* The detector and the broker, one action each.                           *)
LEMMA StatusIsMessage ==
  ASSUME NEW s \in Nat, NEW online \in BOOLEAN, NEW valid \in BOOLEAN
  PROVE  Status(s, online, valid) \in StatusMsg /\ Status(s, online, valid).session = s
  BY DEF Status, StatusMsg

LEMMA PublishedFollows ==
  ASSUME GenInv, NEW n \in Nat, started <= n, NEW m \in StatusMsg, m.session = n,
         PublishStatus(m)
  PROVE  Follows(inbox', n) /\ retained' = <<m>>
<1>1. Follows(inbox, n) /\ m \in Message
  BY InboxFollows DEF Message
<1> QED BY <1>1, OneMoreFollows DEF PublishStatus

LEMMA DetectorsKeep ==
  ASSUME GenInv, ~LateWills,
         \/ Start \/ Heartbeat \/ CommandEnds \/ BeginExit \/ EndExit \/ Die
         \/ Reconnect \/ HubReconnect
         \/ \E s \in wills : WillFires(s)
         \/ \E inside, lost \in BOOLEAN : PublishFrame(inside, lost)
  PROVE  GenInv'
<1>1. /\ started \in Nat /\ proc \in {0, started} /\ frameId \in Nat
      /\ wills \subseteq {started}
  BY DEF GenInv, GenTyped
<1>2. Follows(inbox, started)
  BY <1>1, InboxFollows
<1>3. CASE Start
  <2>1. PICK valid \in BOOLEAN : PublishStatus(Status(started + 1, TRUE, valid))
    BY <1>3 DEF Start
  <2>2. PICK n, m : n = started + 1 /\ m = Status(n, TRUE, valid)
    OBVIOUS
  <2>3. n \in Nat /\ started <= n /\ m \in StatusMsg /\ m.session = n
    <3>1. n \in Nat /\ started <= n /\ TRUE \in BOOLEAN
      BY <1>1, <2>2
    <3> QED BY <2>2, <3>1, StatusIsMessage
  <2>4. Follows(inbox', n) /\ retained' = <<m>>
    <3>1. PublishStatus(m)
      BY <2>1, <2>2
    <3> QED BY <2>3, <3>1, PublishedFollows
  <2>5. /\ started' = n /\ proc' = n /\ frameId' = 0 /\ wills' = {}
        /\ UNCHANGED <<engine, standing>>
    BY <1>1, <1>3, <2>2 DEF Start, HubIdle
  <2>6. \E a \in StatusMsg : a.session = started' /\ retained' = <<a>>
    BY <2>3, <2>4, <2>5
  <2> QED BY <2>3, <2>4, <2>5, <2>6, DetectorKeeps
<1>4. ASSUME NEW m \in StatusMsg, m.session = started, PublishStatus(m),
             UNCHANGED <<started, frameId, engine, standing>>,
             proc' \in {0, proc}, wills' \subseteq wills
      PROVE  GenInv'
  <2>1. Follows(inbox', started) /\ retained' = <<m>>
    BY <1>1, <1>4, PublishedFollows
  <2> QED BY <1>1, <1>4, <2>1, DetectorKeeps
<1>5. CASE Heartbeat
  <2>1. Status(proc, TRUE, TRUE) \in StatusMsg /\ Status(proc, TRUE, TRUE).session = started
    BY <1>1, <1>5, StatusIsMessage DEF Heartbeat
  <2> QED BY <1>4, <1>5, <2>1 DEF Heartbeat, detector, HubIdle
<1>6. CASE BeginExit
  <2>1. Status(proc, FALSE, TRUE) \in StatusMsg /\ Status(proc, FALSE, TRUE).session = started
    BY <1>1, <1>6, StatusIsMessage DEF BeginExit
  <2> QED BY <1>4, <1>6, <2>1 DEF BeginExit, Goodbye, HubIdle
<1>12. CASE CommandEnds
  <2>1. Status(proc, TRUE, TRUE) \in StatusMsg /\ Status(proc, TRUE, TRUE).session = started
    BY <1>1, <1>12, StatusIsMessage DEF CommandEnds
  <2> QED BY <1>4, <1>12, <2>1 DEF CommandEnds, HubIdle
<1>13. CASE EndExit
  <2>1. /\ proc' = 0 /\ wills' \subseteq {started}
        /\ UNCHANGED <<started, frameId, retained, inbox, engine, standing>>
    BY <1>1, <1>13 DEF EndExit, HubIdle
  <2> QED BY <1>1, <1>2, <2>1, DetectorKeeps
<1>7. ASSUME NEW s \in wills, WillFires(s) PROVE GenInv'
  <2>1. Status(s, FALSE, TRUE) \in StatusMsg /\ Status(s, FALSE, TRUE).session = started
    BY <1>1, StatusIsMessage
  <2> QED BY <1>4, <1>7, <2>1 DEF WillFires, HubIdle
<1>8. CASE Die
  <2>1. /\ proc' = 0 /\ wills' \subseteq {started}
        /\ UNCHANGED <<started, frameId, retained, inbox, engine, standing>>
    BY <1>1, <1>8 DEF Die, HubIdle
  <2> QED BY <1>1, <1>2, <2>1, DetectorKeeps
<1>9. CASE Reconnect
  <2>1. PICK off, on : off = Status(proc, FALSE, TRUE) /\ on = Status(proc, TRUE, TRUE)
    OBVIOUS
  <2>2. /\ off \in StatusMsg /\ on \in StatusMsg /\ off \in Message /\ on \in Message
        /\ off.session = started /\ on.session = started
    BY <1>1, <1>9, <2>1, StatusIsMessage DEF Reconnect, Message
  <2>3. /\ retained' = <<on>> /\ inbox' = inbox \o <<off, on>>
        /\ UNCHANGED <<proc, started, frameId, wills, engine, standing>>
    BY <1>9, <2>1 DEF Reconnect, detector, HubIdle
  <2>4. inbox \in Seq(Message)
    BY <1>2 DEF Follows
  <2>5. inbox \o <<off, on>> = Append(Append(inbox, off), on)
    BY <2>2, <2>4
  <2>6. Follows(Append(inbox, off), started)
    BY <1>1, <1>2, <2>2, OneMoreFollows
  <2>7. Follows(Append(Append(inbox, off), on), started)
    BY <1>1, <2>2, <2>6, OneMoreFollows
  <2>8. \E a \in StatusMsg : a.session = started' /\ retained' = <<a>>
    BY <2>2, <2>3
  <2>9. Follows(inbox', started')
    BY <2>3, <2>5, <2>7
  <2> QED BY <1>1, <2>3, <2>8, <2>9, DetectorKeeps
<1>10. CASE HubReconnect
  <2>1. /\ inbox' = retained
        /\ UNCHANGED <<started, proc, frameId, wills, retained, engine, standing>>
    BY <1>10 DEF HubReconnect, detector, HubIdle
  <2> QED BY <1>1, <2>1, RetainedFollows, DetectorKeeps
<1>11. ASSUME NEW inside \in BOOLEAN, NEW lost \in BOOLEAN, PublishFrame(inside, lost)
       PROVE  GenInv'
  <2>1. PICK m : m = Frame(proc, frameId + 1, inside)
    OBVIOUS
  <2>2. m \in Message /\ m.session = started
    BY <1>1, <1>11, <2>1 DEF PublishFrame, Frame, Message, FrameMsg
  <2>3. /\ frameId' = frameId + 1 /\ inbox' \in {inbox, Append(inbox, m)}
        /\ UNCHANGED <<proc, started, wills, retained, engine, standing>>
    BY <1>11, <2>1 DEF PublishFrame, HubIdle
  <2>4. Follows(Append(inbox, m), started)
    BY <1>1, <1>2, <2>2, OneMoreFollows
  <2>5. Follows(inbox', started)
    BY <1>2, <2>3, <2>4
  <2> QED BY <1>1, <2>3, <2>5, DetectorKeeps
<1> QED BY <1>3, <1>5, <1>6, <1>7, <1>8, <1>9, <1>10, <1>11, <1>12, <1>13

(* What is left when the first message is taken.                           *)
LEMMA TakenFirst ==
  ASSUME GenInv, inbox # <<>>, NEW q, q = Tail(inbox), NEW m, m = Head(inbox)
  PROVE  /\ m \in Message /\ m.session \in Nat /\ m.session <= started
         /\ m.session >= engine.session /\ m.session >= standing
         /\ q \in Seq(Message) /\ Rising(q) /\ NoneAfter(q, started) /\ NoneBefore(q, m.session)
         /\ NoneBefore(q, engine.session) /\ NoneBefore(q, standing)
         /\ NoneBefore(inbox, standing + 1)
              => m.session # standing /\ NoneBefore(q, standing + 1)
<1>1. /\ inbox \in Seq(Message) /\ Rising(inbox) /\ NoneAfter(inbox, started)
      /\ NoneBefore(inbox, engine.session) /\ NoneBefore(inbox, standing) /\ standing \in Nat
  BY DEF GenInv, GenTyped
<1>2. /\ Len(inbox) \in Nat /\ Len(inbox) >= 1 /\ m = inbox[1] /\ m \in Message
      /\ q \in Seq(Message) /\ Len(q) = Len(inbox) - 1
      /\ \A i \in 1..Len(q) : q[i] = inbox[i + 1]
  BY <1>1
<1>3. m.session \in Nat
  BY <1>2 DEF Message, StatusMsg, FrameMsg
<1>4. \A i \in 1..Len(q) : i + 1 \in 1..Len(inbox) /\ 1 <= i + 1
  BY <1>2
<1>5. /\ m.session <= started /\ m.session >= engine.session /\ m.session >= standing
  BY <1>1, <1>2 DEF NoneAfter, NoneBefore
<1>6. Rising(q)
  BY <1>1, <1>2, <1>4 DEF Rising
<1>7. NoneAfter(q, started) /\ NoneBefore(q, engine.session) /\ NoneBefore(q, standing)
  BY <1>1, <1>2, <1>4 DEF NoneAfter, NoneBefore
<1>8. NoneBefore(q, m.session)
  BY <1>1, <1>2, <1>4 DEF NoneBefore, Rising
<1>9. NoneBefore(inbox, standing + 1) => m.session # standing /\ NoneBefore(q, standing + 1)
  BY <1>1, <1>2, <1>3, <1>4 DEF NoneBefore
<1> QED BY <1>2, <1>3, <1>5, <1>6, <1>7, <1>8, <1>9

(* The engine as a message leaves it, and the track's standing in it.      *)
LEMMA HubKeeps ==
  ASSUME GenInv, inbox # <<>>, inbox' = Tail(inbox), NEW m, m = Head(inbox),
         UNCHANGED <<started, proc, frameId, wills, retained>>,
         engine' \in [session : Nat, watermark : Nat, entered : BOOLEAN],
         engine'.session \in {0, engine.session, m.session},
         standing' \in {0, standing, m.session},
         standing' # 0 =>
           \/ engine'.session = standing' /\ engine'.entered
           \/ /\ standing' = standing
              /\ engine' = engine \/ m.session # engine.session
  PROVE  GenInv'
<1>1. PICK q : q = Tail(inbox)
  OBVIOUS
<1>2. /\ m.session \in Nat /\ m.session <= started
      /\ m.session >= engine.session /\ m.session >= standing
      /\ q \in Seq(Message) /\ Rising(q) /\ NoneAfter(q, started) /\ NoneBefore(q, m.session)
      /\ NoneBefore(q, engine.session) /\ NoneBefore(q, standing)
      /\ NoneBefore(inbox, standing + 1)
           => m.session # standing /\ NoneBefore(q, standing + 1)
  BY <1>1, TakenFirst
<1>3. /\ GenTyped /\ RetainedIsNewest /\ Standing
      /\ started \in Nat /\ engine.session \in Nat /\ standing \in Nat
      /\ engine.session <= started /\ standing <= started
  BY DEF GenInv, GenTyped
<1>4. \A i \in 1..Len(q) : q[i].session \in Nat
  BY <1>2 DEF Message, StatusMsg, FrameMsg
<1>5. GenTyped'
  BY <1>1, <1>2, <1>3 DEF GenTyped
<1>6. RetainedIsNewest'
  BY <1>3 DEF RetainedIsNewest
<1>7. PICK e, s : e = engine' /\ s = standing'
  OBVIOUS
<1>8. NoneBefore(q, e.session) /\ NoneBefore(q, s) /\ e.session <= started /\ s <= started
  <2>1. NoneBefore(q, 0)
    BY <1>4 DEF NoneBefore
  <2> QED BY <1>2, <1>3, <1>7, <2>1
<1>9. /\ Rising(inbox)' /\ NoneAfter(inbox, started)'
      /\ NoneBefore(inbox, engine.session)' /\ NoneBefore(inbox, standing)'
  BY <1>1, <1>2, <1>7, <1>8 DEF Rising, NoneAfter, NoneBefore
<1>10. s # 0 => \/ e.session = s /\ e.entered
                \/ s < started /\ NoneBefore(q, s + 1)
  <2>1. CASE s # 0 /\ s = standing /\ (e = engine \/ m.session # engine.session)
    <3>1. \/ engine.session = standing /\ engine.entered
          \/ standing < started /\ NoneBefore(inbox, standing + 1)
      BY <1>3, <2>1 DEF Standing
    <3>2. CASE standing < started /\ NoneBefore(inbox, standing + 1)
      BY <1>2, <2>1, <3>2
    <3>3. CASE engine.session = standing /\ engine.entered /\ e = engine
      BY <2>1, <3>3
    <3>4. CASE engine.session = standing /\ m.session # engine.session
      <4>1. m.session >= standing + 1 /\ standing < started
        BY <1>2, <1>3, <3>4
      <4>2. NoneBefore(q, standing + 1)
        BY <1>2, <1>3, <1>4, <4>1 DEF NoneBefore
      <4> QED BY <2>1, <4>1, <4>2
    <3> QED BY <2>1, <3>1, <3>2, <3>3, <3>4
  <2> QED BY <1>7, <2>1
<1>11. Standing'
  BY <1>1, <1>7, <1>10 DEF Standing, NoneBefore
<1> QED BY <1>3, <1>5, <1>6, <1>7, <1>8, <1>9, <1>11 DEF GenInv

LEMMA DeliverKeeps ==
  ASSUME GenInv, Deliver
  PROVE  GenInv' /\ (verdict'.enter # 0 => verdict'.enter # standing)
<1>1. PICK m : m = Head(inbox)
  OBVIOUS
<1>2. /\ inbox # <<>> /\ inbox' = Tail(inbox)
      /\ UNCHANGED <<started, proc, frameId, wills, retained>>
      /\ OnStatus(m) \/ OnRejected(m) \/ OnLateFrame(m) \/ OnFrame(m)
  BY <1>1 DEF Deliver, detector
<1>3. /\ m \in Message /\ m.session \in Nat
      /\ NoneBefore(inbox, standing + 1) => m.session # standing
  BY <1>1, <1>2, TakenFirst
<1>4. engine \in [session : Nat, watermark : Nat, entered : BOOLEAN]
  BY DEF GenInv, GenTyped
<1>5. NoVerdict.enter = 0
  BY DEF NoVerdict
<1>6. CASE OnStatus(m) \/ OnRejected(m)
  <2>1. /\ verdict' = NoVerdict /\ standing' = standing
        /\ \/ engine' = engine
           \/ engine' = NoEngine /\ engine.session # m.session
    BY <1>6 DEF OnStatus, OnRejected, HubIdle, SessionChanged
  <2>2. /\ NoEngine \in [session : Nat, watermark : Nat, entered : BOOLEAN]
        /\ NoEngine.session = 0
    BY DEF NoEngine
  <2>3. /\ engine' \in [session : Nat, watermark : Nat, entered : BOOLEAN]
        /\ engine'.session \in {0, engine.session, m.session}
    BY <1>4, <2>1, <2>2
  <2> QED BY <1>1, <1>2, <1>5, <2>1, <2>3, HubKeeps
<1>7. PICK a : a = Adopted(m.session)
  OBVIOUS
<1>8. /\ a \in [session : Nat, watermark : Nat, entered : BOOLEAN] /\ a.session = m.session
      /\ engine.session = m.session => a = engine
      /\ engine.session # m.session => a.watermark = 0
  BY <1>3, <1>4, <1>7 DEF Adopted, NoEngine
<1>9. CASE OnLateFrame(m)
  <2>1. /\ m.kind = "frame" /\ m.id <= a.watermark /\ engine' = a
        /\ verdict' = NoVerdict /\ standing' = standing
    BY <1>7, <1>9 DEF OnLateFrame
  <2>2. m.id \in Nat \ {0}
    BY <1>3, <2>1 DEF Message, StatusMsg, FrameMsg
  <2>3. engine' = engine
    BY <1>8, <2>1, <2>2
  <2> QED BY <1>1, <1>2, <1>4, <1>5, <2>1, <2>3, HubKeeps
<1>10. CASE OnFrame(m)
  <2>1. /\ m.kind = "frame"
        /\ engine' = [session |-> m.session, watermark |-> m.id, entered |-> m.inside]
        /\ standing' = IF m.inside THEN m.session ELSE 0
        /\ verdict' = NoVerdict \/ (verdict'.enter = m.session /\ ~a.entered)
    BY <1>7, <1>10 DEF OnFrame
  <2>2. m.id \in Nat /\ m.inside \in BOOLEAN
    BY <1>3, <2>1 DEF Message, StatusMsg, FrameMsg
  <2>3. /\ engine' \in [session : Nat, watermark : Nat, entered : BOOLEAN]
        /\ engine'.session = m.session /\ engine'.entered = m.inside
    BY <1>3, <2>1, <2>2
  <2>4. GenInv'
    BY <1>1, <1>2, <2>1, <2>2, <2>3, HubKeeps
  <2>5. ASSUME verdict'.enter # 0, verdict'.enter = standing PROVE FALSE
    <3>1. m.session = standing /\ standing # 0 /\ ~a.entered
      BY <1>5, <2>1, <2>5
    <3>2. \/ engine.session = standing /\ engine.entered
          \/ NoneBefore(inbox, standing + 1)
      BY <3>1 DEF GenInv, Standing
    <3> QED BY <1>3, <1>8, <3>1, <3>2
  <2> QED BY <2>4, <2>5
<1> QED BY <1>2, <1>6, <1>9, <1>10

LEMMA StepGenInv ==
  ASSUME GenInv, [Next]_vars, ~LateWills
  PROVE  GenInv' /\ [verdict'.enter # 0 => verdict'.enter # standing]_vars
<1>1. CASE UNCHANGED vars
  <2>1. UNCHANGED <<proc, started, frameId, wills, retained, inbox, engine, standing>>
    BY <1>1 DEF vars, detector, hub
  <2> QED BY <1>1, <2>1 DEF GenInv, GenTyped, RetainedIsNewest, Rising, NoneAfter, NoneBefore,
                            Standing
<1>2. NoVerdict.enter = 0
  BY DEF NoVerdict
<1>3. CASE Deliver
  BY <1>3, DeliverKeeps
<1>4. CASE CooldownEnds
  <2>1. /\ UNCHANGED <<proc, started, frameId, wills, retained, inbox, engine, standing>>
        /\ verdict' = NoVerdict
    BY <1>4 DEF CooldownEnds, detector
  <2> QED BY <1>2, <2>1 DEF GenInv, GenTyped, RetainedIsNewest, Rising, NoneAfter, NoneBefore,
                            Standing
<1>5. CASE HubRestart
  <2>1. /\ UNCHANGED <<proc, started, frameId, wills, retained>> /\ inbox' = retained
        /\ engine' = NoEngine /\ standing' = 0 /\ verdict' = NoVerdict
    BY <1>5 DEF HubRestart, detector
  <2>2. /\ retained \in Seq(Message) /\ Rising(retained) /\ NoneAfter(retained, started)
        /\ GenTyped /\ RetainedIsNewest
    BY RetainedFollows DEF Follows, GenInv
  <2>3. \A i \in 1..Len(retained) : retained[i].session >= 0
    BY <2>2 DEF Message, StatusMsg, FrameMsg
  <2>4. NoEngine \in [session : Nat, watermark : Nat, entered : BOOLEAN]
        /\ NoEngine.session = 0
    BY DEF NoEngine
  <2>5. GenTyped' /\ RetainedIsNewest'
    BY <2>1, <2>2, <2>4 DEF GenTyped, RetainedIsNewest
  <2>6. Rising(inbox)' /\ NoneAfter(inbox, started)'
    BY <2>1, <2>2 DEF Rising, NoneAfter
  <2>7. NoneBefore(inbox, engine.session)' /\ NoneBefore(inbox, standing)'
    BY <2>1, <2>3, <2>4 DEF NoneBefore
  <2>8. Standing' /\ engine'.session <= started' /\ standing' <= started'
    BY <2>1, <2>2, <2>4 DEF Standing, GenTyped
  <2> QED BY <1>2, <2>1, <2>5, <2>6, <2>7, <2>8 DEF GenInv
<1>6. ASSUME \/ Start \/ Heartbeat \/ CommandEnds \/ BeginExit \/ EndExit \/ Die
             \/ Reconnect \/ HubReconnect
             \/ \E s \in wills : WillFires(s)
             \/ \E inside, lost \in BOOLEAN : PublishFrame(inside, lost)
      PROVE  GenInv' /\ verdict' = NoVerdict
  <2>1. verdict' = NoVerdict
    BY <1>6 DEF Start, Heartbeat, CommandEnds, BeginExit, EndExit, Die, Reconnect,
                HubReconnect, WillFires, PublishFrame, HubIdle
  <2> QED BY <1>6, <2>1, DetectorsKeep
<1> QED BY <1>1, <1>2, <1>3, <1>4, <1>5, <1>6 DEF Next

(* A track that was inside when its session was last judged is not found   *)
(* to enter again, for any number of detector starts, frames, lost and     *)
(* repeated messages, drops and restarts, where the broker publishes a     *)
(* will before the next process has connected (Hub._on_session_change,     *)
(* RuleEngine.on_detections).                                              *)
THEOREM NoEntryTwice ==
  ASSUME ~LateWills
  PROVE  Spec => EntriesAreReal
<1>1. GenInv /\ [Next]_vars => GenInv'
  BY StepGenInv
<1>2. GenInv /\ [Next]_vars => [verdict'.enter # 0 => verdict'.enter # standing]_vars
  BY StepGenInv
<1> QED BY InitGenInv, <1>1, <1>2, PTL DEF Spec, EntriesAreReal

(* What the device's sessions so far may have sent: a frame is not ahead   *)
(* of those the running process has published.                             *)
Sent ==
  {m \in Statuses \cup Frames :
     /\ m.session <= started
     /\ m.kind = "frame" /\ proc # 0 /\ m.session = proc => m.id <= frameId}

GenTypeInv ==
  /\ TypeOK /\ engine.session <= started
  /\ inbox \in Seq(Sent) /\ retained \in Seq(Sent)

LEMMA InitGenTypeInv == Init => GenTypeInv
<1> SUFFICES ASSUME Init PROVE GenTypeInv
  OBVIOUS
<1>1. <<>> \in Seq(Sent) /\ <<>> \in Seq(Statuses \cup Frames)
  OBVIOUS
<1>2. ExitTyped
  BY DEF Init, ExitTyped
<1>3. TypeOK
  BY <1>1, <1>2, GenerationAssumption DEF Init, TypeOK, Sessions, NoEngine, NoVerdict
<1> QED BY <1>1, <1>3 DEF Init, GenTypeInv, NoEngine

LEMMA MoreIsSent ==
  ASSUME GenTypeInv, Sent \subseteq Sent'
  PROVE  inbox \in Seq(Sent') /\ retained \in Seq(Sent')
<1> DEFINE Now == Sent  Then == Sent'
<1>1. inbox \in Seq(Now) /\ retained \in Seq(Now) /\ Now \subseteq Then
  BY DEF GenTypeInv
<1> HIDE DEF Now, Then
<1>2. inbox \in Seq(Then) /\ retained \in Seq(Then)
  BY <1>1
<1> QED BY <1>2 DEF Then

(* A step of the detector or the broker: the hub judges nothing, and what  *)
(* comes newly on its way has been sent.                                   *)
LEMMA DetectorTyped ==
  ASSUME GenTypeInv, HubIdle,
         started' \in Sessions, started <= started', proc' \in {0, started'},
         frameId' \in 0..MaxFrame, wills' \subseteq 1..started', ExitTyped',
         proc' # 0 => \/ proc' = proc /\ frameId <= frameId'
                      \/ proc' > started,
         \/ retained' = retained
         \/ \E m \in Statuses \cap Sent' : retained' = <<m>>,
         \/ inbox' = inbox \/ inbox' = retained
         \/ \E m \in Sent' : inbox' = Append(inbox, m)
         \/ \E a, b \in Sent' : inbox' = inbox \o <<a, b>>
  PROVE  GenTypeInv'
<1> USE GenerationAssumption
<1>1. /\ started \in Nat /\ started' \in Nat /\ MaxFrame \in Nat
      /\ engine.session \in Nat /\ engine.watermark \in Nat /\ engine.session <= started
      /\ frameId \in Nat /\ frameId' \in Nat
  BY DEF GenTypeInv, TypeOK, Sessions
<1>2. \A m \in Statuses \cup Frames : m.session \in Nat /\ (m.kind = "frame" => m.id \in Nat)
  BY DEF Statuses, Frames, Sessions
<1>3. Sent \subseteq Sent'
  BY <1>1, <1>2 DEF Sent, Statuses, Frames
<1>4. PICK S : S = Sent'
  OBVIOUS
<1>5. /\ inbox \in Seq(S) /\ retained \in Seq(S)
      /\ S \subseteq Statuses \cup Frames
  <2>1. Sent' \subseteq Statuses \cup Frames
    BY DEF Sent, Statuses, Frames
  <2> QED BY <1>3, <1>4, <2>1, MoreIsSent
<1>6. retained' \in Seq(S)
  <2>1. CASE retained' = retained
    BY <1>5, <2>1
  <2>2. CASE retained' # retained
    <3>1. PICK m \in S : retained' = <<m>>
      BY <1>4, <2>2
    <3> QED BY <3>1
  <2> QED BY <2>1, <2>2
<1>7. inbox' \in Seq(S)
  <2>1. CASE inbox' = inbox \/ inbox' = retained
    BY <1>5, <2>1
  <2>2. ASSUME NEW m \in S, inbox' = Append(inbox, m) PROVE inbox' \in Seq(S)
    BY <1>5, <2>2
  <2>3. ASSUME NEW a \in S, NEW b \in S, inbox' = inbox \o <<a, b>> PROVE inbox' \in Seq(S)
    BY <1>5, <2>3
  <2> QED BY <1>4, <2>1, <2>2, <2>3
<1>8. inbox' \in Seq(Statuses \cup Frames)
  BY <1>5, <1>7
<1>9. retained' \in {<<>>} \cup {<<m>> : m \in Statuses}
  BY DEF GenTypeInv, TypeOK
<1>10. /\ registry' \in [session : Sessions, online : BOOLEAN]
       /\ engine' \in [session : Sessions, watermark : 0..MaxFrame, entered : BOOLEAN]
       /\ stamp' \in Sessions /\ standing' \in Sessions
       /\ verdict' \in [enter : Sessions, cooledBy : Sessions]
       /\ engine' = engine
  <2>1. NoVerdict \in [enter : Sessions, cooledBy : Sessions]
    BY DEF NoVerdict, Sessions
  <2> QED BY <2>1 DEF GenTypeInv, TypeOK, HubIdle
<1>11. engine.session # 0 /\ engine.session = proc' => engine.watermark <= frameId'
  BY <1>1 DEF GenTypeInv, TypeOK
<1>12. TypeOK'
  BY <1>8, <1>9, <1>10, <1>11 DEF TypeOK, Sessions, Statuses, Frames
<1>13. engine'.session <= started'
  BY <1>1, <1>10
<1> QED BY <1>4, <1>6, <1>7, <1>12, <1>13 DEF GenTypeInv

(* A step of the hub: what is on its way was sent, and the engine has not  *)
(* adopted what was not.                                                   *)
LEMMA HubTyped ==
  ASSUME GenTypeInv, UNCHANGED <<detector, retained>>,
         inbox' \in Seq(Sent),
         registry' \in [session : Sessions, online : BOOLEAN],
         engine' \in [session : Sessions, watermark : 0..MaxFrame, entered : BOOLEAN],
         engine'.session <= started,
         engine'.session # 0 /\ engine'.session = proc => engine'.watermark <= frameId,
         stamp' \in Sessions, standing' \in Sessions,
         verdict' \in [enter : Sessions, cooledBy : Sessions]
  PROVE  GenTypeInv'
<1>1. Sent' = Sent /\ Sent \subseteq Statuses \cup Frames
  BY DEF Sent, Statuses, Frames, detector
<1>2. inbox' \in Seq(Statuses \cup Frames)
  BY <1>1
<1>3. inbox' \in Seq(Sent') /\ retained' \in Seq(Sent')
  BY <1>1 DEF GenTypeInv
<1>4. ExitTyped' /\ UNCHANGED <<proc, started, frameId, wills, retained>>
  BY DEF GenTypeInv, TypeOK, ExitTyped, detector
<1>5. /\ started \in Sessions /\ proc \in {0, started} /\ frameId \in 0..MaxFrame
      /\ wills \subseteq 1..started
      /\ retained \in {<<>>} \cup {<<m>> : m \in Statuses}
  BY DEF GenTypeInv, TypeOK
<1>6. /\ (started \in Sessions)' /\ (proc \in {0, started})' /\ (frameId \in 0..MaxFrame)'
      /\ (wills \subseteq 1..started)'
      /\ (retained \in {<<>>} \cup {<<m>> : m \in Statuses})'
  BY <1>4, <1>5 DEF Sessions, Statuses
<1>7. Sessions' = Sessions /\ Statuses' = Statuses /\ Frames' = Frames
  BY DEF Sessions, Statuses, Frames
<1>8. (engine.session # 0 /\ engine.session = proc => engine.watermark <= frameId)'
  BY <1>4
<1>9. TypeOK'
  BY <1>2, <1>4, <1>6, <1>7, <1>8 DEF TypeOK
<1>10. engine'.session <= started'
  BY <1>4
<1> QED BY <1>3, <1>9, <1>10 DEF GenTypeInv

LEMMA NextGenTypeInv == GenTypeInv /\ [Next]_vars => GenTypeInv'
<1> SUFFICES ASSUME GenTypeInv, [Next]_vars
             PROVE  GenTypeInv'
  OBVIOUS
<1> USE GenerationAssumption
<1>1. /\ TypeOK /\ engine.session <= started
      /\ inbox \in Seq(Sent) /\ retained \in Seq(Sent)
      /\ started \in Nat /\ started <= MaxSession /\ proc \in {0, started}
      /\ frameId \in 0..MaxFrame /\ wills \subseteq 1..started
  BY DEF GenTypeInv, TypeOK, Sessions
<1>2. /\ registry \in [session : Sessions, online : BOOLEAN]
      /\ engine \in [session : Sessions, watermark : 0..MaxFrame, entered : BOOLEAN]
      /\ engine.session # 0 /\ engine.session = proc => engine.watermark <= frameId
      /\ stamp \in Sessions /\ standing \in Sessions
      /\ verdict \in [enter : Sessions, cooledBy : Sessions]
  BY <1>1 DEF TypeOK
<1>3. /\ NoVerdict \in [enter : Sessions, cooledBy : Sessions]
      /\ NoEngine \in [session : Sessions, watermark : 0..MaxFrame, entered : BOOLEAN]
      /\ NoEngine.session = 0 /\ 0 \in Sessions
  BY DEF NoVerdict, NoEngine, Sessions
<1>4. ASSUME NEW s \in 0..started', NEW on \in BOOLEAN, NEW valid \in BOOLEAN,
             started' \in Sessions
      PROVE  Status(s, on, valid) \in Statuses \cap Sent'
  BY <1>4 DEF Status, Statuses, Sent, Sessions
<1>5. CASE Start
  <2>1. /\ proc' = started + 1 /\ started' = started + 1 /\ frameId' = 0
        /\ wills' = wills /\ HubIdle /\ started' \in Sessions
    BY <1>1, <1>5 DEF Start, Sessions
  <2>2. PICK valid \in BOOLEAN : PublishStatus(Status(started + 1, TRUE, valid))
    BY <1>5 DEF Start
  <2>3. PICK m \in Statuses \cap Sent' : m = Status(started + 1, TRUE, valid)
    <3>1. PICK n : n = started + 1
      OBVIOUS
    <3>2. n \in 0..started' /\ TRUE \in BOOLEAN
      BY <1>1, <2>1, <3>1
    <3>3. Status(n, TRUE, valid) \in Statuses \cap Sent'
      BY <1>4, <2>1, <3>2
    <3> QED BY <3>1, <3>3
  <2>4. retained' = <<m>> /\ inbox' = Append(inbox, m)
    BY <2>2, <2>3 DEF PublishStatus
  <2>5. /\ wills' \subseteq 1..started' /\ started <= started' /\ frameId' \in 0..MaxFrame
        /\ proc' \in {0, started'} /\ proc' > started
    BY <1>1, <2>1
  <2>6. ExitTyped'
    <3>1. leaving' = leaving /\ overtaken' = FALSE /\ leaving \in BOOLEAN
      BY <1>1, <1>5 DEF Start, ExitTyped, TypeOK
    <3>2. proc' # 0
      BY <1>1, <2>1
    <3> QED BY <3>1, <3>2 DEF ExitTyped
  <2> QED BY <2>1, <2>3, <2>4, <2>5, <2>6, DetectorTyped
<1>6. ASSUME NEW s \in 0..started, NEW on \in BOOLEAN, PublishStatus(Status(s, on, TRUE)),
             UNCHANGED <<started, frameId>>, HubIdle, proc' \in {0, proc},
             wills' \subseteq wills, ExitTyped'
      PROVE  GenTypeInv'
  <2>1. PICK m \in Statuses \cap Sent' : m = Status(s, on, TRUE)
    <3>1. s \in 0..started' /\ started' \in Sessions /\ TRUE \in BOOLEAN
      BY <1>1, <1>6 DEF Sessions
    <3> QED BY <1>4, <3>1
  <2>2. retained' = <<m>> /\ inbox' = Append(inbox, m)
    BY <1>6, <2>1 DEF PublishStatus
  <2>3. /\ started' \in Sessions /\ started <= started' /\ proc' \in {0, started'}
        /\ frameId' \in 0..MaxFrame /\ wills' \subseteq 1..started'
        /\ proc' # 0 => proc' = proc /\ frameId <= frameId'
    BY <1>1, <1>6 DEF Sessions
  <2> QED BY <1>6, <2>1, <2>2, <2>3, DetectorTyped
<1>7. CASE Heartbeat
  <2>1. proc \in 0..started /\ TRUE \in BOOLEAN
    BY <1>1
  <2>2. PublishStatus(Status(proc, TRUE, TRUE)) /\ HubIdle
    BY <1>7 DEF Heartbeat
  <2>3. UNCHANGED <<proc, started, frameId, wills>> /\ ExitTyped'
    BY <1>1, <1>7 DEF Heartbeat, detector, ExitTyped, TypeOK
  <2> QED BY <1>6, <2>1, <2>2, <2>3
<1>8. CASE BeginExit
  <2>1. proc \in 0..started /\ FALSE \in BOOLEAN
    BY <1>1
  <2>2. PublishStatus(Status(proc, FALSE, TRUE)) /\ HubIdle
    BY <1>8 DEF BeginExit, Goodbye
  <2>3. UNCHANGED <<proc, started, frameId, wills>> /\ ExitTyped'
    BY <1>1, <1>8 DEF BeginExit, ExitTyped, TypeOK
  <2> QED BY <1>6, <2>1, <2>2, <2>3
<1>18. CASE CommandEnds
  <2>1. proc \in 0..started /\ TRUE \in BOOLEAN
    BY <1>1
  <2>2. PublishStatus(Status(proc, TRUE, TRUE)) /\ HubIdle
    BY <1>18 DEF CommandEnds
  <2>3. UNCHANGED <<proc, started, frameId, wills>> /\ ExitTyped'
    BY <1>1, <1>18 DEF CommandEnds, ExitTyped, TypeOK
  <2> QED BY <1>6, <2>1, <2>2, <2>3
<1>19. CASE EndExit
  <2>1. /\ proc' = 0 /\ wills' \subseteq 1..started /\ HubIdle /\ ExitTyped'
        /\ UNCHANGED <<started, frameId, retained, inbox>>
    BY <1>1, <1>19 DEF EndExit, ExitTyped, TypeOK
  <2> QED BY <1>1, <2>1, DetectorTyped DEF Sessions
<1>9. CASE Die
  <2>1. /\ proc' = 0 /\ wills' \subseteq 1..started /\ HubIdle
        /\ UNCHANGED <<started, frameId, retained, inbox>>
    BY <1>1, <1>9 DEF Die
  <2>2. ExitTyped'
    BY <1>1, <1>9 DEF Die, ExitTyped, TypeOK
  <2> QED BY <1>1, <2>1, <2>2, DetectorTyped DEF Sessions
<1>10. CASE Reconnect
  <2>1. UNCHANGED <<proc, started, frameId, wills>> /\ HubIdle /\ ExitTyped'
    BY <1>1, <1>10 DEF Reconnect, ExitTyped, TypeOK
  <2>2. PICK off, on \in Statuses \cap Sent' :
          off = Status(proc, FALSE, TRUE) /\ on = Status(proc, TRUE, TRUE)
    <3>1. /\ proc \in 0..started' /\ started' \in Sessions
          /\ TRUE \in BOOLEAN /\ FALSE \in BOOLEAN
      BY <1>1, <2>1 DEF Sessions
    <3>2. /\ Status(proc, FALSE, TRUE) \in Statuses \cap Sent'
          /\ Status(proc, TRUE, TRUE) \in Statuses \cap Sent'
      BY <1>4, <3>1
    <3> QED BY <3>2
  <2>3. retained' = <<on>> /\ inbox' = inbox \o <<off, on>>
    BY <1>10, <2>2 DEF Reconnect
  <2>4. /\ started' \in Sessions /\ started <= started' /\ proc' \in {0, started'}
        /\ frameId' \in 0..MaxFrame /\ wills' \subseteq 1..started'
    BY <1>1, <2>1 DEF Sessions
  <2>5. proc' # 0 => proc' = proc /\ frameId <= frameId'
    BY <1>1, <2>1
  <2> QED BY <2>1, <2>2, <2>3, <2>4, <2>5, DetectorTyped
<1>11. ASSUME NEW s \in wills, WillFires(s) PROVE GenTypeInv'
  <2>1. s \in 0..started /\ FALSE \in BOOLEAN
    BY <1>1
  <2>2. PublishStatus(Status(s, FALSE, TRUE)) /\ HubIdle
    BY <1>11 DEF WillFires
  <2>3. wills' \subseteq wills /\ UNCHANGED <<proc, started, frameId>> /\ ExitTyped'
    BY <1>1, <1>11 DEF WillFires, ExitTyped, TypeOK
  <2> QED BY <1>6, <2>1, <2>2, <2>3
<1>12. ASSUME NEW inside \in BOOLEAN, NEW lost \in BOOLEAN, PublishFrame(inside, lost)
       PROVE  GenTypeInv'
  <2>1. /\ proc = started /\ proc # 0 /\ frameId' = frameId + 1 /\ frameId' \in 1..MaxFrame
        /\ UNCHANGED <<proc, started, wills, retained>> /\ HubIdle /\ ExitTyped'
    BY <1>1, <1>12 DEF PublishFrame, ExitTyped, TypeOK
  <2>2. PICK m : m = Frame(proc, frameId + 1, inside)
    OBVIOUS
  <2>3. m \in Sent'
    BY <1>1, <2>1, <2>2 DEF Frame, Sent, Frames, Sessions
  <2>4. inbox' = inbox \/ inbox' = Append(inbox, m)
    BY <1>12, <2>2 DEF PublishFrame
  <2> QED BY <1>1, <2>1, <2>3, <2>4, DetectorTyped DEF Sessions
<1>13. CASE Deliver
  <2>1. PICK m : m = Head(inbox)
    OBVIOUS
  <2>2. /\ inbox # <<>> /\ inbox' = Tail(inbox)
        /\ UNCHANGED <<detector, retained>>
        /\ OnStatus(m) \/ OnRejected(m) \/ OnLateFrame(m) \/ OnFrame(m)
    BY <1>13, <2>1 DEF Deliver
  <2>3. inbox' \in Seq(Sent) /\ m \in Sent
    BY <1>1, <2>1, <2>2
  <2>4. /\ m \in Statuses \cup Frames /\ m.session \in Sessions /\ m.session <= started
        /\ m.kind = "status" => m.online \in BOOLEAN
        /\ m.kind = "frame" =>
             /\ m.id \in 1..MaxFrame /\ m.inside \in BOOLEAN
             /\ proc # 0 /\ m.session = proc => m.id <= frameId
    BY <2>3 DEF Sent, Statuses, Frames
  <2>5. CASE OnStatus(m)
    <3>1. /\ m.kind = "status" /\ registry' = [session |-> m.session, online |-> m.online]
          /\ \/ engine' = NoEngine /\ stamp' = 0
             \/ UNCHANGED <<engine, stamp>>
          /\ verdict' = NoVerdict /\ standing' = standing
      BY <2>5 DEF OnStatus
    <3>2. registry' \in [session : Sessions, online : BOOLEAN]
      BY <2>4, <3>1
    <3> QED BY <1>1, <1>2, <1>3, <2>2, <2>3, <3>1, <3>2, HubTyped
  <2>6. CASE OnRejected(m)
    BY <1>1, <1>2, <1>3, <2>2, <2>3, <2>6, HubTyped DEF OnRejected, HubIdle
  <2>7. PICK a : a = Adopted(m.session)
    OBVIOUS
  <2>8. /\ a \in [session : Sessions, watermark : 0..MaxFrame, entered : BOOLEAN]
        /\ a.session = m.session
        /\ proc # 0 /\ m.session = proc => a.watermark <= frameId
    <3>1. CASE engine.session = m.session
      BY <1>2, <2>7, <3>1 DEF Adopted
    <3>2. CASE engine.session # m.session
      <4>1. a = [session |-> m.session, watermark |-> 0, entered |-> FALSE]
        BY <2>7, <3>2 DEF Adopted, NoEngine
      <4> QED BY <1>1, <2>4, <4>1
    <3> QED BY <3>1, <3>2
  <2>9. CASE OnLateFrame(m)
    <3>1. /\ engine' = a /\ verdict' = NoVerdict
          /\ UNCHANGED <<registry, stamp, standing>>
      BY <2>7, <2>9 DEF OnLateFrame
    <3> QED BY <1>1, <1>2, <1>3, <2>2, <2>3, <2>4, <2>8, <3>1, HubTyped
  <2>10. CASE OnFrame(m)
    <3>1. /\ m.kind = "frame" /\ registry' = registry
          /\ engine' = [session |-> m.session, watermark |-> m.id, entered |-> m.inside]
          /\ stamp' \in {stamp, m.session} /\ standing' \in {0, m.session}
          /\ verdict' \in {NoVerdict, [enter |-> m.session, cooledBy |-> stamp]}
      BY <2>10 DEF OnFrame
    <3>2. /\ engine' \in [session : Sessions, watermark : 0..MaxFrame, entered : BOOLEAN]
          /\ engine'.session = m.session /\ engine'.watermark = m.id
      BY <2>4, <3>1
    <3>3. verdict' \in [enter : Sessions, cooledBy : Sessions]
      BY <1>2, <1>3, <2>4, <3>1
    <3>4. stamp' \in Sessions /\ standing' \in Sessions
      BY <1>2, <1>3, <2>4, <3>1
    <3>5. /\ engine'.session <= started
          /\ engine'.session # 0 /\ engine'.session = proc => engine'.watermark <= frameId
      BY <2>4, <3>1, <3>2
    <3> QED BY <1>2, <2>2, <2>3, <3>1, <3>2, <3>3, <3>4, <3>5, HubTyped
  <2> QED BY <2>2, <2>5, <2>6, <2>9, <2>10
<1>14. CASE CooldownEnds
  BY <1>1, <1>2, <1>3, <1>14, HubTyped DEF CooldownEnds
<1>15. CASE HubReconnect
  BY <1>1, <1>2, <1>3, <1>15, HubTyped DEF HubReconnect, HubIdle
<1>16. CASE HubRestart
  BY <1>1, <1>2, <1>3, <1>16, HubTyped DEF HubRestart
<1>17. CASE UNCHANGED vars
  BY <1>1, <1>2, <1>17, HubTyped DEF vars, hub
<1> QED
  BY <1>5, <1>7, <1>8, <1>9, <1>10, <1>11, <1>12, <1>13, <1>14, <1>15, <1>16, <1>17,
     <1>18, <1>19 DEF Next

(* The running process is the newest, and a watermark of its session is    *)
(* never ahead of the frames it has published, so its next frame is above  *)
(* it: whatever is lost, repeated, cut off, restarted, or comes after the  *)
(* next process has connected (engine.py, on_detections;                   *)
(* device_registry.py, on_status).                                         *)
THEOREM WatermarksAreOwn == Spec => []TypeOK
<1>1. GenTypeInv => TypeOK
  BY DEF GenTypeInv
<1> QED BY <1>1, InitGenTypeInv, NextGenTypeInv, PTL DEF Spec

-----------------------------------------------------------------------------
(* The frames a detector shows.                                            *)
AskPlaces == {"idle", "asked", "found", "copying", "copied", "done"}
Replies == {"none", "dropped", "gaveUp", "404", "503", "500", "200", "published"}
AskType == [at : AskPlaces, key : Watched \cup {NoStream}, listed : BOOLEAN, live : BOOLEAN,
            of : Nat, got : Nat \X Nat, reply : Replies, since : Nat,
            away : BOOLEAN, dark : BOOLEAN]

PreviewTyped ==
  /\ serving \in {"generic", "npu", "hailo", "recamera"}
  /\ order \in Seq(Watched) /\ worker \in [Watched -> Nat]
  /\ made \in Nat /\ taken \in Nat /\ changes \in Nat
  /\ pixels \in [Numbers -> Nat \X Nat]
  /\ held \in [Numbers -> Readers \cup {Free, Loop}]
  /\ asks \in [Readers -> AskType]

(* Every camera that is carried has a worker.                              *)
WorkersAreMade ==
  /\ 1 <= made /\ made <= changes + 1 /\ changes <= MaxChanges
  /\ serving = "recamera" => made = 1
  /\ \A c \in Carried : worker[c] \in 1..made

(* A store holds one whole frame, except while the reCamera's loop writes  *)
(* to its buffer under the lock; frames are numbered as they come.         *)
StoreIsWhole(w) ==
  /\ pixels[w][2] <= pixels[w][1] /\ pixels[w][1] <= taken
  /\ w > made => pixels[w] = Black
  /\ held[w] # Loop => pixels[w][1] = pixels[w][2]
  /\ held[w] = Loop => serving = "recamera" /\ w = 1 /\ pixels[w][1] = taken

(* The store of a worker is empty or shows no frame from before.           *)
NotBefore(w, since) == pixels[w][2] = 0 \/ pixels[w][2] >= since

(* A request on its way, before and after it has found a worker, and with  *)
(* half a frame or a whole one.                                            *)
Asking(a) ==
  /\ a.key \notin Carried => a.away /\ a.dark
  /\ a.key \in Carried => /\ NotBefore(worker[a.key], a.since)
                          /\ pixels[worker[a.key]][2] = 0 => a.dark

Finding(a) ==
  /\ a.of \in 1..made /\ NotBefore(a.of, a.since)
  /\ pixels[a.of][2] = 0 => a.dark

HasFrame(a) == a.got[1] # 0 /\ a.got[1] >= a.since

Answered(a) ==
  /\ a.reply \in Shown => a.got[1] = a.got[2] /\ HasFrame(a)
  /\ a.reply = "404" => a.away
  /\ a.reply \in {"503", "gaveUp"} => a.dark \/ a.got # Black

AskHolds(r, a) ==
  /\ a.at \in {"asked", "found"} => (a.listed \/ a.away) /\ a.since <= taken
  /\ a.at = "asked" => Asking(a)
  /\ a.at = "found" => Finding(a)
  /\ a.at = "copying" => /\ serving = "recamera" /\ a.of \in 1..made /\ held[a.of] = r
                         /\ HasFrame(a) /\ a.got[1] = pixels[a.of][1]
  /\ a.at = "copied" => a.got[1] = a.got[2] /\ HasFrame(a)
  /\ a.at = "done" => Answered(a)

ServerInv ==
  /\ PreviewTyped /\ WorkersAreMade
  /\ \A w \in Numbers : StoreIsWhole(w)
  /\ \A r \in Readers : AskHolds(r, asks[r])

LEMMA NoAskTyped ==
  NoAsk \in AskType /\ NoAsk.at = "idle"
  BY DEF NoAsk, AskType, AskPlaces, Replies, Black

LEMMA WorkersAreNumbers ==
  ASSUME ServerInv
  PROVE  1..made \subseteq Numbers
<1>1. made \in Nat /\ changes \in Nat /\ made <= changes + 1 /\ changes <= MaxChanges
  BY DEF ServerInv, PreviewTyped, WorkersAreMade
<1>2. MaxChanges \in Nat
  BY PreviewAssumption DEF PreviewAssumption
<1> QED BY <1>1, <1>2 DEF Numbers

LEMMA InitServerInv == PreviewServerInit => ServerInv
<1> SUFFICES ASSUME PreviewServerInit PROVE ServerInv
  OBVIOUS
<1>1. PICK c \in Watched : c = CHOOSE d \in Watched : TRUE
  BY PreviewAssumption DEF PreviewAssumption
<1>2. order = <<c>> /\ order \in Seq(Watched) /\ Len(order) = 1 /\ DOMAIN order = 1..1
  BY <1>1 DEF PreviewServerInit
<1>3. Carried = {c}
  BY <1>2 DEF Carried, ToSet
<1>4. /\ serving \in {"generic", "npu", "hailo", "recamera"}
      /\ worker = [d \in Watched |-> IF d \in Carried THEN 1 ELSE 0]
      /\ made = 1 /\ taken = 0 /\ changes = 0
      /\ pixels = [w \in Numbers |-> Black]
      /\ held = [w \in Numbers |-> Free]
      /\ asks = [r \in Readers |-> NoAsk]
  BY DEF PreviewServerInit
<1>5. PreviewTyped
  BY <1>2, <1>4, NoAskTyped DEF PreviewTyped, Black
<1>6. WorkersAreMade
  <2>1. MaxChanges \in Nat
    BY PreviewAssumption DEF PreviewAssumption
  <2>2. \A d \in Carried : worker[d] = 1
    BY <1>3, <1>4
  <2> QED BY <1>4, <2>1, <2>2 DEF WorkersAreMade
<1>7. ASSUME NEW w \in Numbers PROVE StoreIsWhole(w)
  BY <1>4 DEF StoreIsWhole, Black, Free, Loop
<1>8. ASSUME NEW r \in Readers PROVE AskHolds(r, asks[r])
  BY <1>4, NoAskTyped DEF AskHolds
<1> QED BY <1>5, <1>6, <1>7, <1>8 DEF ServerInv

(* A reader's step: its request moves on, and the lock of a store with it. *)
LEMMA ReaderKeeps ==
  ASSUME ServerInv, NEW r \in Readers, NEW b \in AskType, Goes(r, b), ReaderSteps,
         AskHolds(r, b)',
         \/ held' = held
         \/ \E w \in Numbers, x \in {Free, r} :
              held[w] \in {Free, r} /\ held' = [held EXCEPT ![w] = x]
  PROVE  ServerInv'
<1>1. /\ PreviewTyped /\ WorkersAreMade
      /\ UNCHANGED <<serving, order, worker, made, taken, pixels, changes>>
      /\ asks' = [asks EXCEPT ![r] = b]
  BY DEF ServerInv, ReaderSteps, Goes
<1>2. Free # Loop /\ \A q \in Readers : q # Free /\ q # Loop
  BY ReadersAssumption DEF Readers, ReadersAssumption, MqttThread, Free, Loop
<1>3. /\ held' \in [Numbers -> Readers \cup {Free, Loop}]
      /\ \A w \in Numbers : \/ held'[w] = held[w]
                            \/ held[w] \in {Free, r} /\ held'[w] \in {Free, r}
  BY <1>1 DEF PreviewTyped
<1>4. asks' \in [Readers -> AskType] /\ asks'[r] = b
      /\ \A q \in Readers : q # r => asks'[q] = asks[q]
  BY <1>1 DEF PreviewTyped
<1>5. PreviewTyped'
  BY <1>1, <1>3, <1>4 DEF PreviewTyped
<1>6. WorkersAreMade'
  BY <1>1 DEF WorkersAreMade, Carried
<1>7. ASSUME NEW w \in Numbers PROVE StoreIsWhole(w)'
  <2>1. StoreIsWhole(w) /\ (held'[w] = Loop <=> held[w] = Loop)
    BY <1>2, <1>3 DEF ServerInv
  <2> QED BY <1>1, <2>1 DEF StoreIsWhole
<1>8. ASSUME NEW q \in Readers PROVE AskHolds(q, asks[q])'
  <2>1. CASE q = r
    <3>1. PICK a : a = b
      OBVIOUS
    <3>2. asks'[q] = a
      BY <1>4, <2>1, <3>1
    <3> QED BY <2>1, <3>1, <3>2 DEF AskHolds, Asking, Finding, NotBefore, HasFrame,
                                     Answered, Carried
  <2>2. CASE q # r
    <3>1. PICK a \in AskType : a = asks[q]
      BY <1>1 DEF PreviewTyped
    <3>2. asks'[q] = a /\ AskHolds(q, a)
      BY <1>4, <2>2, <3>1 DEF ServerInv
    <3>3. a.of \in 1..made /\ held[a.of] = q => held'[a.of] = q
      BY <1>2, <1>3, <2>2, WorkersAreNumbers
    <3>4. AskHolds(q, a)'
      BY <1>1, <3>2, <3>3 DEF AskHolds, Asking, Finding, NotBefore, Carried
    <3> QED BY <3>2, <3>4 DEF AskHolds, Asking, Finding, NotBefore, HasFrame, Answered,
                              Carried
  <2> QED BY <2>1, <2>2
<1> QED BY <1>5, <1>6, <1>7, <1>8 DEF ServerInv

(* Requests by their fields.                                               *)
LEMMA AskFinds ==
  ASSUME NEW a \in AskType, NEW w \in Nat, NEW b,
         b = [a EXCEPT !.at = "found", !.of = w]
  PROVE  b \in AskType /\ b.at = "found" /\ b.of = w /\ b.listed = a.listed
         /\ b.since = a.since /\ b.away = a.away /\ b.dark = a.dark
  BY DEF AskType, AskPlaces

LEMMA AskCopies ==
  ASSUME NEW a \in AskType, NEW p \in {"copying", "copied"}, NEW g \in Nat \X Nat, NEW b,
         b = [a EXCEPT !.at = p, !.got = g]
  PROVE  b \in AskType /\ b.at = p /\ b.of = a.of /\ b.got = g /\ b.since = a.since
  BY DEF AskType, AskPlaces

(* The ends of a request.                                                  *)
LEMMA ReplyIsTyped ==
  ASSUME NEW r \in Readers, NEW code \in Replies
  PROVE  Otherwise(r, code) \in {code, "gaveUp"} /\ Otherwise(r, code) \in Replies
  BY DEF Otherwise, Replies

LEMMA EndKeeps ==
  ASSUME ServerInv, NEW r \in Readers, NEW rep \in Replies, Ends(r, rep), ReaderSteps,
         held' = held, rep \in Shown => asks[r].got[1] = asks[r].got[2] /\ HasFrame(asks[r]),
         rep = "404" => asks[r].away,
         rep \in {"503", "gaveUp"} => asks[r].dark \/ asks[r].got # Black
  PROVE  ServerInv'
<1>1. PICK a \in AskType : a = asks[r]
  BY DEF ServerInv, PreviewTyped
<1>2. PICK b : b = [a EXCEPT !.at = "done", !.reply = rep, !.key = NoStream, !.listed = FALSE, !.of = 0]
  OBVIOUS
<1>3. b \in AskType /\ b.at = "done" /\ b.reply = rep /\ b.got = a.got
      /\ b.since = a.since /\ b.away = a.away /\ b.dark = a.dark
  BY <1>2 DEF AskType, AskPlaces
<1>4. Goes(r, b)
  BY <1>1, <1>2 DEF Ends
<1>5. Answered(b)
  BY <1>1, <1>3 DEF Answered, HasFrame
<1>6. AskHolds(r, b)'
  BY <1>3, <1>5 DEF AskHolds, Answered, HasFrame
<1> QED BY <1>3, <1>4, <1>6, ReaderKeeps

LEMMA RequestsEnd ==
  ASSUME ServerInv, NEW r \in Readers,
         HandlerRaises(r) \/ FindNothing(r) \/ NothingYet(r) \/ Encode(r)
  PROVE  ServerInv'
<1>1. PICK a \in AskType : a = asks[r]
  BY DEF ServerInv, PreviewTyped
<1>2. AskHolds(r, a)
  BY <1>1 DEF ServerInv
<1>3. ReaderSteps /\ held' = held
  BY DEF HandlerRaises, FindNothing, NothingYet, Encode
<1>4. CASE HandlerRaises(r)
  <2>1. Ends(r, "dropped") /\ "dropped" \in Replies /\ "dropped" \notin Shown
    BY <1>4 DEF HandlerRaises, Replies, Shown
  <2> QED BY <1>3, <2>1, EndKeeps
<1>5. CASE FindNothing(r)
  <2>1. PICK code \in {"404", "503"} :
          Ends(r, Otherwise(r, code))
    BY <1>5 DEF FindNothing
  <2>2. PICK rep : rep = Otherwise(r, code)
    OBVIOUS
  <2>3. rep \in {code, "gaveUp"} /\ rep \in Replies /\ rep \notin Shown
    BY <2>1, <2>2, ReplyIsTyped DEF Replies, Shown
  <2>4. a.at = "asked" /\ a.key \notin Carried
    BY <1>1, <1>5 DEF FindNothing, Answers
  <2>5. a.away /\ a.dark
    BY <1>2, <2>4 DEF AskHolds, Asking
  <2>6. Ends(r, rep) /\ asks[r].away /\ asks[r].dark
    BY <1>1, <2>1, <2>2, <2>5
  <2> QED BY <1>3, <2>3, <2>6, EndKeeps
<1>6. CASE NothingYet(r)
  <2>1. PICK code \in {"404", "503"} :
          Ends(r, Otherwise(r, code)) /\ (code = "404" => ~a.listed)
    BY <1>1, <1>6 DEF NothingYet
  <2>2. PICK rep : rep = Otherwise(r, code)
    OBVIOUS
  <2>3. rep \in {code, "gaveUp"} /\ rep \in Replies /\ rep \notin Shown
    BY <2>1, <2>2, ReplyIsTyped DEF Replies, Shown
  <2>4. a.at = "found" /\ pixels[a.of] = Black
    BY <1>1, <1>6 DEF NothingYet, NoFrame
  <2>5. a.dark /\ (a.listed \/ a.away)
    BY <1>2, <2>4 DEF AskHolds, Finding, Black
  <2>6. rep = "404" => a.away
    BY <2>1, <2>3, <2>5
  <2>7. Ends(r, rep) /\ asks[r].dark /\ (rep = "404" => asks[r].away)
    BY <1>1, <2>1, <2>2, <2>5, <2>6
  <2> QED BY <1>3, <2>3, <2>7, EndKeeps
<1>7. CASE Encode(r)
  <2>1. a.at = "copied" /\ a.got[1] = a.got[2] /\ HasFrame(a)
    BY <1>1, <1>2, <1>7 DEF Encode, AskHolds
  <2>2. a.got # Black
    BY <2>1 DEF HasFrame, Black
  <2>3. asks[r].got[1] = asks[r].got[2] /\ HasFrame(asks[r]) /\ asks[r].got # Black
    BY <1>1, <2>1, <2>2
  <2>4. PICK rep \in {"published", "200", "500", "gaveUp"} : Ends(r, rep)
    BY <1>7 DEF Encode, Otherwise
  <2>5. rep \in Replies /\ rep # "404"
    BY <2>4 DEF Replies
  <2> QED BY <1>3, <2>3, <2>4, <2>5, EndKeeps
<1> QED BY <1>4, <1>5, <1>6, <1>7

(* The way to a frame.                                                     *)
LEMMA FindKeeps ==
  ASSUME ServerInv, NEW r \in Readers, FindWorker(r)
  PROVE  ServerInv'
<1>1. PICK a \in AskType : a = asks[r]
  BY DEF ServerInv, PreviewTyped
<1>2. AskHolds(r, a) /\ a.at = "asked" /\ a.key \in Carried
  BY <1>1 DEF ServerInv, FindWorker, Answers
<1>3. PICK w \in 1..made : w = worker[a.key]
  BY <1>2 DEF ServerInv, WorkersAreMade
<1>4. PICK b : b = [a EXCEPT !.at = "found", !.of = w]
  OBVIOUS
<1>5. w \in Nat
  BY <1>3 DEF ServerInv, PreviewTyped
<1>6. b \in AskType /\ b.at = "found" /\ b.of = w /\ b.listed = a.listed
      /\ b.since = a.since /\ b.away = a.away /\ b.dark = a.dark
  BY <1>4, <1>5 DEF AskType, AskPlaces
<1>7. Goes(r, b) /\ ReaderSteps /\ held' = held
  BY <1>1, <1>3, <1>4 DEF FindWorker
<1>8. (b.listed \/ b.away) /\ b.since <= taken /\ Finding(b)
  BY <1>2, <1>3, <1>6 DEF AskHolds, Asking, Finding
<1>9. AskHolds(r, b)'
  BY <1>6, <1>7, <1>8 DEF AskHolds, Finding, NotBefore, ReaderSteps
<1> QED BY <1>6, <1>7, <1>9, ReaderKeeps

LEMMA CopyKeeps ==
  ASSUME ServerInv, NEW r \in Readers, TakeNew(r) \/ CopyStarts(r) \/ CopyEnds(r)
  PROVE  ServerInv'
<1>1. PICK a \in AskType : a = asks[r]
  BY DEF ServerInv, PreviewTyped
<1>2. AskHolds(r, a) /\ PreviewTyped /\ ReaderSteps
  BY <1>1 DEF ServerInv, TakeNew, CopyStarts, CopyEnds
<1>3. PICK w : w = a.of
  OBVIOUS
<1>4. Free # Loop /\ r # Free /\ r # Loop
  BY ReadersAssumption DEF Readers, ReadersAssumption, MqttThread, Free, Loop
<1>5. w \in 1..made /\ w \in Numbers /\ (a.at = "found" => Finding(a))
  BY <1>1, <1>2, <1>3, WorkersAreNumbers
     DEF AskHolds, Finding, TakeNew, CopyStarts, CopyEnds
<1>6. PICK p \in Nat \X Nat : p = pixels[w]
  BY <1>2, <1>5 DEF PreviewTyped
<1>7. p[1] \in Nat /\ p[2] \in Nat /\ p = <<p[1], p[2]>>
  BY <1>6
<1>8. /\ p[2] <= p[1] /\ (held[w] # Loop => p[1] = p[2])
  BY <1>5, <1>6 DEF ServerInv, StoreIsWhole
<1>9. CASE TakeNew(r)
  <2>1. /\ a.at = "found" /\ held[w] = Free /\ p # Black /\ held' = held
        /\ Goes(r, [a EXCEPT !.at = "copied", !.got = p])
    BY <1>1, <1>3, <1>6, <1>9 DEF TakeNew, NoFrame
  <2>2. p[1] = p[2] /\ p[1] # 0 /\ p[1] >= a.since
    BY <1>3, <1>4, <1>5, <1>6, <1>7, <1>8, <2>1 DEF Finding, NotBefore, Black, AskType
  <2>3. PICK b : b = [a EXCEPT !.at = "copied", !.got = p]
    OBVIOUS
  <2>4. b \in AskType /\ b.at = "copied" /\ b.got = p /\ b.since = a.since
    BY <2>3 DEF AskType, AskPlaces
  <2>5. AskHolds(r, b)'
    BY <2>2, <2>4 DEF AskHolds, HasFrame
  <2>6. Goes(r, b)
    BY <2>1, <2>3
  <2> QED BY <1>2, <2>1, <2>4, <2>5, <2>6, ReaderKeeps
<1>10. CASE CopyStarts(r)
  <2>1. /\ serving = "recamera" /\ a.at = "found" /\ held[w] = Free /\ p # Black
        /\ held' = [held EXCEPT ![w] = r]
        /\ Goes(r, [a EXCEPT !.at = "copying", !.got = <<p[1], 0>>])
    BY <1>1, <1>3, <1>6, <1>10 DEF CopyStarts, NoFrame
  <2>2. p[1] = p[2] /\ p[1] # 0 /\ p[1] >= a.since
    BY <1>3, <1>4, <1>5, <1>6, <1>7, <1>8, <2>1 DEF Finding, NotBefore, Black, AskType
  <2>3. PICK b : b = [a EXCEPT !.at = "copying", !.got = <<p[1], 0>>]
    OBVIOUS
  <2>4. /\ b \in AskType /\ b.at = "copying" /\ b.got[1] = p[1] /\ b.since = a.since
        /\ b.of = w
    BY <1>3, <1>7, <2>3 DEF AskType, AskPlaces
  <2>5. held'[w] = r /\ pixels' = pixels /\ serving' = serving /\ made' = made
    BY <1>2, <1>5, <2>1 DEF PreviewTyped, ReaderSteps
  <2>6. AskHolds(r, b)'
    BY <1>5, <1>6, <2>1, <2>2, <2>4, <2>5 DEF AskHolds, HasFrame
  <2>7. Goes(r, b) /\ held[w] \in {Free, r}
    BY <2>1, <2>3
  <2> QED BY <1>2, <1>5, <2>1, <2>4, <2>6, <2>7, ReaderKeeps
<1>11. CASE CopyEnds(r)
  <2>1. a.at = "copying" /\ held[w] = r /\ HasFrame(a) /\ a.got[1] = p[1]
    BY <1>1, <1>2, <1>3, <1>6, <1>11 DEF CopyEnds, AskHolds
  <2>2. PICK g : g = <<a.got[1], p[2]>>
    OBVIOUS
  <2>3. g[1] = p[1] /\ g[2] = p[2] /\ g \in Nat \X Nat
    BY <1>7, <2>1, <2>2
  <2>4. g[1] = g[2] /\ g[1] # 0 /\ g[1] >= a.since
    BY <1>4, <1>8, <2>1, <2>3 DEF HasFrame
  <2>5. PICK b : b = [a EXCEPT !.at = "copied", !.got = g]
    OBVIOUS
  <2>6. b \in AskType /\ b.at = "copied" /\ b.got = g /\ b.since = a.since
    BY <2>3, <2>5 DEF AskType, AskPlaces
  <2>7. Goes(r, [a EXCEPT !.at = "copied", !.got = <<@[1], p[2]>>])
        /\ held' = [held EXCEPT ![w] = Free]
    BY <1>1, <1>3, <1>6, <1>11, <2>1 DEF CopyEnds
  <2>8. [a EXCEPT !.at = "copied", !.got = <<@[1], p[2]>>] = b
    BY <2>2, <2>5 DEF AskType
  <2>9. AskHolds(r, b)'
    BY <2>4, <2>6 DEF AskHolds, HasFrame
  <2>10. Goes(r, b) /\ held[w] \in {Free, r}
    BY <2>1, <2>7, <2>8
  <2> QED BY <1>2, <1>5, <2>6, <2>7, <2>9, <2>10, ReaderKeeps
<1> QED BY <1>9, <1>10, <1>11

LEMMA LoadedKeeps ==
  ASSUME ServerInv, NEW r \in Readers, Loaded(r)
  PROVE  ServerInv'
<1>1. Goes(r, NoAsk) /\ ReaderSteps /\ held' = held
  BY DEF Loaded
<1>2. PICK b : b = NoAsk
  OBVIOUS
<1>3. b \in AskType /\ b.at = "idle"
  BY <1>2, NoAskTyped
<1>4. AskHolds(r, b)'
  BY <1>3 DEF AskHolds
<1> QED BY <1>1, <1>2, <1>3, <1>4, ReaderKeeps

(* A request comes.                                                        *)
LEMMA KeysAreKnown ==
  ASSUME ServerInv, NEW path \in Watched \cup {"default"}
  PROVE  Target(path) \in Watched \cup {NoStream} /\ Carried \subseteq Watched
<1>1. order \in Seq(Watched)
  BY DEF ServerInv, PreviewTyped
<1>2. order = <<>> \/ order[1] \in Watched
  BY <1>1
<1> QED BY <1>1, <1>2 DEF Target, Carried, ToSet

LEMMA ComesKeeps ==
  ASSUME ServerInv, NEW r \in Readers, NEW path \in Watched \cup {"default"},
         NEW live \in BOOLEAN, Comes(r, path, live), held' = held
  PROVE  ServerInv'
<1>1. PICK key \in Watched \cup {NoStream} : key = Target(path)
  BY KeysAreKnown
<1>2. PICK since : since = Latest(key)
  OBVIOUS
<1>3. /\ since \in Nat /\ since <= taken
      /\ key \in Carried => since = pixels[worker[key]][2]
  <2>1. CASE key \in Carried
    <3>1. PICK w \in Numbers : w = worker[key]
      BY <2>1, WorkersAreNumbers DEF ServerInv, WorkersAreMade
    <3>2. /\ pixels[w] \in Nat \X Nat /\ taken \in Nat
          /\ pixels[w][2] <= pixels[w][1] /\ pixels[w][1] <= taken
      BY DEF ServerInv, PreviewTyped, StoreIsWhole
    <3>3. since = pixels[w][2]
      BY <1>2, <2>1, <3>1 DEF Latest
    <3> QED BY <3>1, <3>2, <3>3
  <2>2. CASE key \notin Carried
    <3>1. since = 0 /\ taken \in Nat
      BY <1>2, <2>2 DEF Latest, ServerInv, PreviewTyped
    <3> QED BY <2>2, <3>1
  <2> QED BY <2>1, <2>2
<1> DEFINE listed == key \in Carried
           away == key \notin Carried
           dark == since = 0
<1>7. listed \in BOOLEAN /\ away \in BOOLEAN /\ dark \in BOOLEAN
  OBVIOUS
<1>8. Goes(r, [NoAsk EXCEPT !.at = "asked", !.key = key, !.live = live,
                            !.listed = listed, !.since = since,
                            !.away = away, !.dark = dark]) /\ ReaderSteps
  BY <1>1, <1>2 DEF Comes
<1> HIDE DEF listed, away, dark
<1>9. PICK b : b = [NoAsk EXCEPT !.at = "asked", !.key = key, !.live = live,
                                 !.listed = listed, !.since = since,
                                 !.away = away, !.dark = dark]
  OBVIOUS
<1>10. b \in AskType /\ b.at = "asked" /\ b.key = key /\ b.since = since
       /\ b.listed = listed /\ b.away = away /\ b.dark = dark
  BY <1>3, <1>7, <1>9 DEF AskType, AskPlaces, NoAsk, Replies, Black
<1>11. /\ b.listed <=> key \in Carried
       /\ b.away <=> key \notin Carried
       /\ b.dark <=> since = 0
  BY <1>10 DEF listed, away, dark
<1>12. Asking(b)
  <2>1. key \notin Carried => since = 0
    BY <1>2 DEF Latest
  <2>2. CASE key \in Carried
    <3>1. pixels[worker[key]][2] = 0 => b.dark
      BY <1>3, <1>11, <2>2
    <3>2. NotBefore(worker[key], b.since)
      BY <1>3, <1>10, <2>2 DEF NotBefore
    <3> QED BY <1>10, <2>2, <3>1, <3>2 DEF Asking
  <2>3. CASE key \notin Carried
    BY <1>10, <1>11, <2>1, <2>3 DEF Asking
  <2> QED BY <2>2, <2>3
<1>13. (b.listed \/ b.away) /\ b.since <= taken
  BY <1>3, <1>10, <1>11
<1>14. AskHolds(r, b)'
  BY <1>8, <1>10, <1>12, <1>13 DEF AskHolds, Asking, NotBefore, ReaderSteps, Carried
<1>15. Goes(r, b)
  BY <1>8, <1>9
<1> QED BY <1>8, <1>10, <1>14, <1>15, ReaderKeeps

(* A loop leaves a frame.                                                  *)
LEMMA PutKeeps ==
  ASSUME ServerInv, NEW w \in Numbers, PutNew(w) \/ PutStarts(w) \/ PutEnds(w)
  PROVE  ServerInv'
<1>1. PreviewTyped /\ WorkersAreMade /\ StoreIsWhole(w)
  BY DEF ServerInv
<1>2. /\ UNCHANGED <<serving, order, worker, made, asks, changes>>
      /\ taken' \in Nat /\ taken <= taken'
  BY <1>1 DEF PreviewTyped, PutNew, PutStarts, PutEnds
<1>3. Free # Loop /\ \A q \in Readers : q # Free /\ q # Loop
  BY ReadersAssumption DEF Readers, ReadersAssumption, MqttThread, Free, Loop
<1>4. PICK p \in Nat \X Nat : p = pixels[w]
  BY <1>1 DEF PreviewTyped
<1>5. PICK n \in Nat \X Nat :
        /\ pixels' = [pixels EXCEPT ![w] = n]
        /\ n[1] <= taken' /\ n[2] <= n[1]
        /\ n[2] = p[2] \/ (n[2] # 0 /\ n[2] >= taken)
        /\ held'[w] = Loop => serving = "recamera" /\ n[1] = taken'
        /\ held'[w] # Loop => n[1] = n[2]
        /\ n # p => w <= made
        /\ \A v \in Numbers \ {w} : held[v] = Loop => taken' = taken
  <2>1. CASE PutNew(w)
    <3>1. PICK t \in Nat : t = taken' /\ t = taken + 1
      BY <1>1, <2>1 DEF PutNew, PreviewTyped
    <3>2. pixels' = [pixels EXCEPT ![w] = <<t, t>>] /\ held' = held /\ held[w] = Free
          /\ serving # "recamera" /\ w <= made
      BY <2>1, <3>1 DEF PutNew, Runs
    <3>3. PICK n : n = <<t, t>>
      OBVIOUS
    <3>4. \A v \in Numbers : held[v] # Loop
      BY <3>2 DEF ServerInv, StoreIsWhole
    <3>5. n \in Nat \X Nat /\ n[1] = t /\ n[2] = t
      BY <3>3
    <3>6. taken \in Nat
      BY <1>1 DEF PreviewTyped
    <3>7. /\ pixels' = [pixels EXCEPT ![w] = n]
          /\ n[1] <= taken' /\ n[2] <= n[1]
          /\ n[2] = p[2] \/ (n[2] # 0 /\ n[2] >= taken)
          /\ held'[w] = Loop => serving = "recamera" /\ n[1] = taken'
          /\ held'[w] # Loop => n[1] = n[2]
          /\ n # p => w <= made
          /\ \A v \in Numbers \ {w} : held[v] = Loop => taken' = taken
      BY <1>3, <3>1, <3>2, <3>3, <3>4, <3>5, <3>6
    <3> QED BY <3>5, <3>7
  <2>2. CASE PutStarts(w)
    <3>1. PICK t \in Nat : t = taken' /\ t = taken + 1
      BY <1>1, <2>2 DEF PutStarts, PreviewTyped
    <3>2. /\ pixels' = [pixels EXCEPT ![w] = <<t, @[2]>>]
          /\ held' = [held EXCEPT ![w] = Loop] /\ held[w] = Free
          /\ serving = "recamera" /\ w <= made
      BY <2>2, <3>1 DEF PutStarts, Runs
    <3>3. PICK n : n = <<t, p[2]>>
      OBVIOUS
    <3>4. n \in Nat \X Nat /\ n[1] = t /\ n[2] = p[2]
      BY <3>3
    <3>5. pixels' = [pixels EXCEPT ![w] = n]
      BY <1>1, <1>4, <3>2, <3>3 DEF PreviewTyped
    <3>6. p[2] <= p[1] /\ p[1] <= taken /\ taken \in Nat
      BY <1>1, <1>4 DEF PreviewTyped, StoreIsWhole
    <3>7. held'[w] = Loop
      BY <1>1, <3>2 DEF PreviewTyped
    <3>8. \A v \in Numbers \ {w} : held[v] # Loop
      <4>1. w = 1
        BY <1>1, <3>2 DEF WorkersAreMade, Numbers, PreviewTyped
      <4> QED BY <4>1 DEF ServerInv, StoreIsWhole
    <3>9. n[1] <= taken' /\ n[2] <= n[1]
      BY <3>1, <3>4, <3>6
    <3>10. held'[w] = Loop => n[1] = taken'
      BY <3>1, <3>4
    <3>11. /\ pixels' = [pixels EXCEPT ![w] = n]
           /\ n[1] <= taken' /\ n[2] <= n[1]
           /\ n[2] = p[2] \/ (n[2] # 0 /\ n[2] >= taken)
           /\ held'[w] = Loop => serving = "recamera" /\ n[1] = taken'
           /\ held'[w] # Loop => n[1] = n[2]
           /\ n # p => w <= made
           /\ \A v \in Numbers \ {w} : held[v] = Loop => taken' = taken
      BY <3>2, <3>4, <3>5, <3>7, <3>8, <3>9, <3>10
    <3> QED BY <3>4, <3>11
  <2>3. CASE PutEnds(w)
    <3>1. /\ held[w] = Loop /\ taken' = taken
          /\ pixels' = [pixels EXCEPT ![w] = <<@[1], taken>>]
          /\ held' = [held EXCEPT ![w] = Free]
      BY <2>3 DEF PutEnds
    <3>2. p[1] = taken /\ serving = "recamera" /\ p[2] <= p[1] /\ taken \in Nat
      BY <1>1, <1>4, <3>1 DEF StoreIsWhole, PreviewTyped
    <3>3. PICK n : n = <<taken, taken>>
      OBVIOUS
    <3>4. n \in Nat \X Nat /\ n[1] = taken /\ n[2] = taken
      BY <3>2, <3>3
    <3>5. pixels' = [pixels EXCEPT ![w] = n]
      BY <1>1, <1>4, <3>1, <3>2, <3>3 DEF PreviewTyped
    <3>6. held'[w] = Free
      BY <1>1, <3>1 DEF PreviewTyped
    <3>7. w = 1 /\ 1 <= made
      BY <1>1, <3>1 DEF StoreIsWhole, WorkersAreMade
    <3>8. n[2] = p[2] \/ n[2] # 0
      BY <1>4, <3>2, <3>4
    <3>9. n[1] <= taken' /\ n[2] <= n[1] /\ n[1] = n[2]
      BY <3>1, <3>2, <3>4
    <3>10. n[2] = p[2] \/ (n[2] # 0 /\ n[2] >= taken)
      BY <3>2, <3>4, <3>8
    <3>11. /\ pixels' = [pixels EXCEPT ![w] = n]
           /\ n[1] <= taken' /\ n[2] <= n[1]
           /\ n[2] = p[2] \/ (n[2] # 0 /\ n[2] >= taken)
           /\ held'[w] = Loop => serving = "recamera" /\ n[1] = taken'
           /\ held'[w] # Loop => n[1] = n[2]
           /\ n # p => w <= made
           /\ \A v \in Numbers \ {w} : held[v] = Loop => taken' = taken
      BY <1>3, <3>1, <3>5, <3>6, <3>7, <3>9, <3>10
    <3> QED BY <3>4, <3>11
  <2> QED BY <2>1, <2>2, <2>3
<1>6. /\ pixels'[w] = n /\ \A v \in Numbers \ {w} : pixels'[v] = pixels[v]
      /\ pixels' \in [Numbers -> Nat \X Nat]
  BY <1>1, <1>5 DEF PreviewTyped
<1>7. /\ held' \in [Numbers -> Readers \cup {Free, Loop}]
      /\ \A v \in Numbers \ {w} : held'[v] = held[v]
      /\ held[w] \in {Free, Loop} /\ held'[w] \in {Free, Loop}
  BY <1>1 DEF PreviewTyped, PutNew, PutStarts, PutEnds, Runs
<1>8. PreviewTyped'
  BY <1>1, <1>2, <1>6, <1>7 DEF PreviewTyped
<1>9. WorkersAreMade'
  BY <1>1, <1>2 DEF WorkersAreMade, Carried
<1>10. ASSUME NEW v \in Numbers PROVE StoreIsWhole(v)'
  <2>1. CASE v = w
    <3>1. n # p => w <= made
      BY <1>5
    <3>2. w > made => n = Black
      BY <1>1, <1>4, <3>1 DEF StoreIsWhole, PreviewTyped, Numbers
    <3>3. held'[w] = Loop => w = 1
      <4>1. serving = "recamera" => made = 1
        BY <1>1 DEF WorkersAreMade
      <4>2. held'[w] = Loop => serving = "recamera" /\ w <= made
        BY <1>1, <1>3, <1>5 DEF PutNew, PutStarts, PutEnds, PreviewTyped, Runs
      <4> QED BY <4>1, <4>2 DEF Numbers
    <3> QED BY <1>2, <1>5, <1>6, <2>1, <3>2, <3>3 DEF StoreIsWhole
  <2>2. CASE v # w
    <3>1. StoreIsWhole(v) /\ pixels[v] \in Nat \X Nat
      BY <1>1 DEF ServerInv, PreviewTyped
    <3>2. pixels'[v] = pixels[v] /\ held'[v] = held[v]
      BY <1>6, <1>7, <2>2
    <3>3. held[v] = Loop => taken' = taken
      BY <1>5, <2>2
    <3>4. pixels[v][1] <= taken => pixels[v][1] <= taken'
      BY <1>1, <1>2, <3>1 DEF PreviewTyped
    <3> QED BY <1>2, <3>1, <3>2, <3>3, <3>4 DEF StoreIsWhole
  <2> QED BY <2>1, <2>2
<1>11. ASSUME NEW v \in Numbers, NEW s \in Nat, s <= taken
       PROVE  /\ NotBefore(v, s) => NotBefore(v, s)'
              /\ pixels'[v][2] = 0 => pixels[v][2] = 0
  <2>1. CASE v = w
    <3>1. n[2] \in Nat /\ p[2] \in Nat /\ taken \in Nat
      BY <1>1 DEF PreviewTyped
    <3>2. n[2] = p[2] \/ (n[2] # 0 /\ n[2] >= s)
      BY <1>5, <1>11, <3>1
    <3> QED BY <1>4, <1>6, <2>1, <3>1, <3>2 DEF NotBefore
  <2> QED BY <1>6, <2>1 DEF NotBefore
<1>12. ASSUME NEW r \in Readers PROVE AskHolds(r, asks[r])'
  <2>1. PICK a \in AskType : a = asks[r]
    BY <1>1 DEF PreviewTyped
  <2>2. AskHolds(r, a) /\ a.since \in Nat
    BY <2>1 DEF ServerInv, AskType
  <2>3. a.at \in {"asked", "found"} => a.since <= taken'
    <3>1. taken \in Nat
      BY <1>1 DEF PreviewTyped
    <3> QED BY <1>2, <2>2, <3>1 DEF AskHolds
  <2>4. a.at = "asked" => Asking(a)'
    <3>1. SUFFICES ASSUME a.at = "asked" PROVE Asking(a)'
      OBVIOUS
    <3>2. Asking(a) /\ a.since <= taken
      BY <2>2, <3>1 DEF AskHolds
    <3>3. CASE a.key \in Carried
      <4>1. PICK v \in Numbers : v = worker[a.key]
        BY <3>3, WorkersAreNumbers DEF ServerInv, WorkersAreMade
      <4>2. NotBefore(v, a.since)' /\ (pixels'[v][2] = 0 => a.dark)
        BY <1>11, <2>2, <3>2, <3>3, <4>1 DEF Asking
      <4> QED BY <1>2, <3>2, <3>3, <4>1, <4>2 DEF Asking, Carried, NotBefore
    <3>4. CASE a.key \notin Carried
      BY <1>2, <3>2, <3>4 DEF Asking, Carried
    <3> QED BY <3>3, <3>4
  <2>5. a.at = "found" => Finding(a)'
    <3>1. SUFFICES ASSUME a.at = "found" PROVE Finding(a)'
      OBVIOUS
    <3>2. Finding(a) /\ a.since <= taken
      BY <2>2, <3>1 DEF AskHolds
    <3>3. PICK v \in Numbers : v = a.of
      BY <3>2, WorkersAreNumbers DEF Finding
    <3>4. NotBefore(v, a.since)' /\ (pixels'[v][2] = 0 => a.dark)
      BY <1>11, <2>2, <3>2, <3>3 DEF Finding
    <3> QED BY <1>2, <3>2, <3>3, <3>4 DEF Finding, NotBefore
  <2>6. a.at = "copying" =>
          held'[a.of] = r /\ a.got[1] = pixels'[a.of][1]
    <3>1. SUFFICES ASSUME a.at = "copying"
                   PROVE  held'[a.of] = r /\ a.got[1] = pixels'[a.of][1]
      OBVIOUS
    <3>2. a.of \in 1..made /\ held[a.of] = r /\ a.got[1] = pixels[a.of][1]
      BY <2>2, <3>1 DEF AskHolds
    <3>3. a.of \in Numbers /\ a.of # w
      BY <1>3, <1>7, <3>2, WorkersAreNumbers
    <3> QED BY <1>6, <1>7, <3>2, <3>3
  <2>7. asks'[r] = a
    BY <1>2, <2>1
  <2> QED BY <1>2, <2>2, <2>3, <2>4, <2>5, <2>6, <2>7 DEF AskHolds, HasFrame, Answered
<1> QED BY <1>8, <1>9, <1>10, <1>12 DEF ServerInv

(* Cameras come and go.                                                    *)
LEMMA OneMore ==
  ASSUME NEW s \in Seq(Watched), NEW c \in Watched
  PROVE  /\ Append(s, c) \in Seq(Watched)
         /\ ToSet(Append(s, c)) = ToSet(s) \cup {c}
<1>1. Append(s, c) \in Seq(Watched) /\ Len(Append(s, c)) = Len(s) + 1
  OBVIOUS
<1>2. /\ Append(s, c)[Len(s) + 1] = c
      /\ \A i \in 1..Len(s) : Append(s, c)[i] = s[i]
  OBVIOUS
<1>3. DOMAIN Append(s, c) = 1..(Len(s) + 1) /\ DOMAIN s = 1..Len(s) /\ Len(s) \in Nat
  BY <1>1
<1> QED BY <1>1, <1>2, <1>3 DEF ToSet

LEMMA Members ==
  ASSUME NEW s \in Seq(Watched), NEW x
  PROVE  (x \in ToSet(s) <=> \E i \in 1..Len(s) : s[i] = x) /\ ToSet(s) \subseteq Watched
<1>1. DOMAIN s = 1..Len(s) /\ \A i \in 1..Len(s) : s[i] \in Watched
  OBVIOUS
<1>2. x \in ToSet(s) <=> \E i \in 1..Len(s) : s[i] = x
  BY <1>1 DEF ToSet
<1>3. ToSet(s) \subseteq Watched
  BY <1>1 DEF ToSet
<1> QED BY <1>2, <1>3

LEMMA Joined ==
  ASSUME NEW u \in Seq(Watched), NEW v \in Seq(Watched)
  PROVE  u \o v \in Seq(Watched) /\ Len(u \o v) = Len(u) + Len(v)
  OBVIOUS

LEMMA OneLess ==
  ASSUME NEW s \in Seq(Watched), NEW i \in DOMAIN s
  PROVE  /\ RemoveAt(s, i) \in Seq(Watched)
         /\ ToSet(RemoveAt(s, i)) \subseteq ToSet(s)
         /\ ToSet(s) \ {s[i]} \subseteq ToSet(RemoveAt(s, i))
<1>1. DOMAIN s = 1..Len(s) /\ Len(s) \in Nat /\ i \in 1..Len(s)
  OBVIOUS
<1>2. PICK t : t = RemoveAt(s, i)
  OBVIOUS
<1>3. PICK u : u = SubSeq(s, 1, i - 1)
  OBVIOUS
<1>4. PICK v : v = SubSeq(s, i + 1, Len(s))
  OBVIOUS
<1>5. /\ u \in Seq(Watched) /\ Len(u) = i - 1
      /\ \A k \in 1..(i - 1) : u[k] = s[k]
  BY <1>1, <1>3
<1>6. /\ v \in Seq(Watched) /\ Len(v) = Len(s) - i
      /\ \A k \in 1..(Len(s) - i) : v[k] = s[i + k]
  BY <1>1, <1>4
<1>7. t = u \o v
  BY <1>2, <1>3, <1>4 DEF RemoveAt
<1>8. /\ t \in Seq(Watched) /\ Len(t) = Len(s) - 1 /\ DOMAIN t = 1..(Len(s) - 1)
      /\ \A k \in 1..(i - 1) : t[k] = s[k]
      /\ \A k \in i..(Len(s) - 1) : t[k] = s[k + 1]
  <2>1. t \in Seq(Watched) /\ Len(t) = Len(s) - 1
    <3>1. Len(u \o v) = Len(u) + Len(v) /\ u \o v \in Seq(Watched)
      BY <1>5, <1>6, Joined
    <3> QED BY <1>1, <1>5, <1>6, <1>7, <3>1
  <2>2. DOMAIN t = 1..(Len(s) - 1)
    BY <1>1, <2>1
  <2>3. ASSUME NEW k \in 1..(i - 1) PROVE t[k] = s[k]
    BY <1>1, <1>5, <1>6, <1>7
  <2>4. ASSUME NEW k \in i..(Len(s) - 1) PROVE t[k] = s[k + 1]
    <3>1. k - (i - 1) \in 1..(Len(s) - i) /\ i + (k - (i - 1)) = k + 1
      BY <1>1
    <3>2. t[k] = v[k - (i - 1)]
      BY <1>1, <1>5, <1>6, <1>7
    <3> QED BY <1>6, <3>1, <3>2
  <2> QED BY <2>1, <2>2, <2>3, <2>4
<1>9. ToSet(t) \subseteq ToSet(s)
  <2>1. ASSUME NEW k \in 1..(Len(s) - 1) PROVE \E j \in 1..Len(s) : t[k] = s[j]
    <3>1. CASE k < i
      BY <1>1, <1>8, <3>1
    <3>2. CASE k >= i
      <4>1. k \in i..(Len(s) - 1) /\ k + 1 \in 1..Len(s)
        BY <1>1, <3>2
      <4> QED BY <1>8, <4>1
    <3> QED BY <1>1, <3>1, <3>2
  <2>2. ASSUME NEW x \in ToSet(t) PROVE x \in ToSet(s)
    <3>1. PICK k \in 1..(Len(s) - 1) : t[k] = x
      BY <1>8, Members
    <3>2. PICK j \in 1..Len(s) : s[j] = x
      BY <2>1, <3>1
    <3> QED BY <3>2, Members
  <2> QED BY <2>2
<1>10. ToSet(s) \ {s[i]} \subseteq ToSet(t)
  <2>1. ASSUME NEW j \in 1..Len(s), j # i PROVE \E k \in 1..(Len(s) - 1) : t[k] = s[j]
    <3>1. CASE j < i
      <4>1. j \in 1..(i - 1) /\ j \in 1..(Len(s) - 1)
        BY <1>1, <3>1
      <4> QED BY <1>8, <4>1
    <3>2. CASE j > i
      <4>1. j - 1 \in i..(Len(s) - 1) /\ j - 1 \in 1..(Len(s) - 1) /\ (j - 1) + 1 = j
        BY <1>1, <3>2
      <4> QED BY <1>8, <4>1
    <3> QED BY <1>1, <2>1, <3>1, <3>2
  <2>2. ASSUME NEW x \in ToSet(s), x # s[i] PROVE x \in ToSet(t)
    <3>1. PICK j \in 1..Len(s) : s[j] = x
      BY Members
    <3>2. PICK k \in 1..(Len(s) - 1) : t[k] = x
      BY <2>1, <2>2, <3>1
    <3>3. k \in 1..Len(t)
      BY <1>8
    <3> QED BY <1>8, <3>2, <3>3, Members
  <2> QED BY <2>2
<1> QED BY <1>2, <1>8, <1>9, <1>10

LEMMA AddKeeps ==
  ASSUME ServerInv, NEW c \in Watched, AddCamera(c)
  PROVE  ServerInv'
<1>1. /\ PreviewTyped /\ WorkersAreMade /\ c \notin Carried /\ serving # "recamera"
      /\ changes < MaxChanges /\ changes' = changes + 1 /\ order' = Append(order, c)
      /\ made' = made + 1 /\ worker' = [worker EXCEPT ![c] = made']
      /\ UNCHANGED <<serving, taken, pixels, held, asks>>
  BY DEF ServerInv, AddCamera, Changes
<1>2. /\ made \in Nat /\ changes \in Nat /\ MaxChanges \in Nat /\ order \in Seq(Watched)
      /\ made <= changes + 1 /\ 1 <= made
  BY <1>1, PreviewAssumption DEF PreviewTyped, WorkersAreMade, PreviewAssumption
<1>3. PICK w \in Numbers : w = made'
  BY <1>1, <1>2 DEF Numbers
<1>4. order' \in Seq(Watched) /\ Carried' = Carried \cup {c}
  BY <1>1, <1>2, OneMore DEF Carried
<1>11. Carried \subseteq Watched
  BY <1>2, Members DEF Carried
<1>5. /\ worker' \in [Watched -> Nat] /\ worker'[c] = w
      /\ \A d \in Watched \ {c} : worker'[d] = worker[d]
  BY <1>1, <1>2, <1>3 DEF PreviewTyped
<1>6. pixels[w] = Black
  <2>1. w > made
    BY <1>1, <1>2, <1>3
  <2> QED BY <2>1 DEF ServerInv, StoreIsWhole
<1>7. PreviewTyped'
  BY <1>1, <1>2, <1>4, <1>5 DEF PreviewTyped
<1>8. WorkersAreMade'
  <2>1. ASSUME NEW d \in Carried' PROVE worker'[d] \in 1..made'
    <3>1. CASE d = c
      BY <1>1, <1>2, <1>3, <1>5, <3>1
    <3>2. CASE d # c
      <4>1. d \in Carried /\ d \in Watched
        BY <1>4, <1>11, <3>2
      <4>2. worker'[d] = worker[d] /\ worker[d] \in 1..made
        BY <1>1, <1>5, <3>2, <4>1 DEF WorkersAreMade
      <4> QED BY <1>1, <1>2, <4>2
    <3> QED BY <3>1, <3>2
  <2>2. 1 <= made' /\ made' <= changes' + 1 /\ changes' <= MaxChanges /\ serving' # "recamera"
    BY <1>1, <1>2
  <2> QED BY <2>1, <2>2 DEF WorkersAreMade
<1>9. ASSUME NEW v \in Numbers PROVE StoreIsWhole(v)'
  <2>1. StoreIsWhole(v) /\ (v > made' => v > made)
    BY <1>1, <1>2 DEF ServerInv, Numbers
  <2> QED BY <1>1, <2>1 DEF StoreIsWhole
<1>10. ASSUME NEW r \in Readers PROVE AskHolds(r, asks[r])'
  <2>1. PICK a \in AskType : a = asks[r]
    BY <1>1 DEF PreviewTyped
  <2>2. AskHolds(r, a) /\ asks'[r] = a
    BY <1>1, <2>1 DEF ServerInv
  <2>3. a.at = "asked" => Asking(a)'
    <3>1. SUFFICES ASSUME a.at = "asked" PROVE Asking(a)'
      OBVIOUS
    <3>2. Asking(a)
      BY <2>2, <3>1 DEF AskHolds
    <3>3. CASE a.key = c
      BY <1>1, <1>4, <1>5, <1>6, <3>2, <3>3 DEF Asking, NotBefore, Black
    <3>4. CASE a.key # c /\ a.key \in Carried
      <4>1. a.key \in Watched
        BY <1>11, <3>4
      <4>2. worker'[a.key] = worker[a.key] /\ a.key \in Carried'
        BY <1>4, <1>5, <3>4, <4>1
      <4> QED BY <1>1, <3>2, <3>4, <4>2 DEF Asking, NotBefore
    <3>5. CASE a.key # c /\ a.key \notin Carried
      BY <1>4, <3>2, <3>5 DEF Asking
    <3> QED BY <3>3, <3>4, <3>5
  <2>4. a.at \in {"found", "copying"} => a.of \in 1..made'
    BY <1>1, <1>2, <2>2 DEF AskHolds, Finding
  <2> QED BY <1>1, <2>2, <2>3, <2>4 DEF AskHolds, Finding, NotBefore, HasFrame, Answered
<1> QED BY <1>7, <1>8, <1>9, <1>10 DEF ServerInv

LEMMA WitnessedKeeps ==
  ASSUME NEW a \in AskType, NEW c, NEW b, b = Witnessed(a, c)
  PROVE  /\ b \in AskType /\ b.at = a.at /\ b.key = a.key /\ b.of = a.of
         /\ b.got = a.got /\ b.since = a.since /\ b.listed = a.listed /\ b.reply = a.reply
         /\ a.away => b.away
         /\ a.dark => b.dark
         /\ a.at \in {"asked", "found"} /\ a.key = c => b.away /\ b.dark
<1>1. CASE a.at \in {"idle", "done"} \/ a.key # c
  <2>1. b = a
    BY <1>1 DEF Witnessed
  <2> QED BY <1>1, <2>1
<1>2. CASE ~(a.at \in {"idle", "done"} \/ a.key # c)
  <2>1. b = [a EXCEPT !.away = TRUE, !.dark = TRUE]
    BY <1>2 DEF Witnessed
  <2> QED BY <2>1 DEF AskType
<1> QED BY <1>1, <1>2

LEMMA RemoveKeeps ==
  ASSUME ServerInv, NEW c \in Watched, RemoveCamera(c)
  PROVE  ServerInv'
<1>1. /\ PreviewTyped /\ WorkersAreMade /\ changes < MaxChanges /\ changes' = changes + 1
      /\ asks' = [r \in Readers |-> Witnessed(asks[r], c)]
      /\ UNCHANGED <<serving, worker, made, taken, pixels, held>>
  BY DEF ServerInv, RemoveCamera, Changes
<1>2. /\ made \in Nat /\ changes \in Nat /\ MaxChanges \in Nat /\ order \in Seq(Watched)
      /\ made <= changes + 1
  BY <1>1, PreviewAssumption DEF PreviewTyped, WorkersAreMade, PreviewAssumption
<1>3. PICK i \in DOMAIN order : order[i] = c /\ order' = RemoveAt(order, i)
  BY DEF RemoveCamera
<1>4. order' \in Seq(Watched) /\ Carried' \subseteq Carried /\ Carried \ {c} \subseteq Carried'
  BY <1>2, <1>3, OneLess DEF Carried
<1>5. ASSUME NEW r \in Readers
      PROVE  asks'[r] \in AskType /\ AskHolds(r, asks[r])'
  <2>1. PICK a \in AskType : a = asks[r]
    BY <1>1 DEF PreviewTyped
  <2>2. PICK b : b = Witnessed(a, c)
    OBVIOUS
  <2>3. /\ b \in AskType /\ b.at = a.at /\ b.key = a.key /\ b.of = a.of
        /\ b.got = a.got /\ b.since = a.since /\ b.listed = a.listed /\ b.reply = a.reply
        /\ a.away => b.away
        /\ a.dark => b.dark
        /\ a.at \in {"asked", "found"} /\ a.key = c => b.away /\ b.dark
    BY <2>2, WitnessedKeeps
  <2>4. asks'[r] = b /\ AskHolds(r, a)
    BY <1>1, <2>1, <2>2 DEF ServerInv
  <2>5. b.at = "asked" => Asking(b)'
    <3>1. SUFFICES ASSUME b.at = "asked" PROVE Asking(b)'
      OBVIOUS
    <3>2. Asking(a)
      BY <2>3, <2>4, <3>1 DEF AskHolds
    <3>3. b.key \notin Carried' => b.away /\ b.dark
      BY <1>4, <2>3, <3>1, <3>2 DEF Asking
    <3>4. b.key \in Carried' => /\ NotBefore(worker[b.key], b.since)
                                /\ pixels[worker[b.key]][2] = 0 => b.dark
      BY <1>4, <2>3, <3>2 DEF Asking, NotBefore
    <3> QED BY <1>1, <3>3, <3>4 DEF Asking, NotBefore
  <2>6. b.at = "found" => Finding(b)'
    BY <1>1, <2>3, <2>4 DEF AskHolds, Finding, NotBefore
  <2>7. b.at \in {"asked", "found"} => (b.listed \/ b.away) /\ b.since <= taken'
    BY <1>1, <2>3, <2>4 DEF AskHolds
  <2>8. b.at = "copying" => /\ serving' = "recamera" /\ b.of \in 1..made'
                            /\ held'[b.of] = r /\ HasFrame(b)
                            /\ b.got[1] = pixels'[b.of][1]
    BY <1>1, <2>3, <2>4 DEF AskHolds, HasFrame
  <2>9. /\ b.at = "copied" => b.got[1] = b.got[2] /\ HasFrame(b)
        /\ b.at = "done" => Answered(b)
    BY <2>3, <2>4 DEF AskHolds, HasFrame, Answered
  <2> QED BY <2>3, <2>4, <2>5, <2>6, <2>7, <2>8, <2>9 DEF AskHolds, HasFrame, Answered
<1>6. asks' \in [Readers -> AskType]
  BY <1>1, <1>5
<1>7. PreviewTyped'
  BY <1>1, <1>2, <1>4, <1>6 DEF PreviewTyped
<1>8. WorkersAreMade'
  BY <1>1, <1>2, <1>4 DEF WorkersAreMade
<1>9. ASSUME NEW v \in Numbers PROVE StoreIsWhole(v)'
  <2>1. StoreIsWhole(v)
    BY DEF ServerInv
  <2> QED BY <1>1, <2>1 DEF StoreIsWhole
<1> QED BY <1>5, <1>7, <1>8, <1>9 DEF ServerInv

LEMMA NextServerInv == ServerInv /\ [PreviewServerNext]_previewServerVars => ServerInv'
<1> SUFFICES ASSUME ServerInv, [PreviewServerNext]_previewServerVars PROVE ServerInv'
  OBVIOUS
<1>1. ASSUME NEW w \in Numbers, PutNew(w) \/ PutStarts(w) \/ PutEnds(w) PROVE ServerInv'
  BY <1>1, PutKeeps
<1>2. ASSUME NEW c \in Watched, AddCamera(c) PROVE ServerInv'
  BY <1>2, AddKeeps
<1>3. ASSUME NEW c \in Watched, RemoveCamera(c) PROVE ServerInv'
  BY <1>3, RemoveKeeps
<1>4. ASSUME NEW c \in Watched, NEW r \in Readers, Get(r, c) PROVE ServerInv'
  <2>1. Comes(r, c, FALSE) /\ held' = held /\ c \in Watched \cup {"default"}
    BY <1>4 DEF Get
  <2> QED BY <2>1, ComesKeeps
<1>5. ASSUME NEW path \in Watched \cup {"default"}, SnapshotAsked(path) PROVE ServerInv'
  <2>1. Comes(MqttThread, path, FALSE) /\ held' = held /\ MqttThread \in Readers
    BY <1>5 DEF SnapshotAsked, Readers
  <2> QED BY <2>1, ComesKeeps
<1>6. ASSUME NEW r \in Readers, LiveTick(r) PROVE ServerInv'
  <2>1. Comes(r, "default", TRUE) /\ held' = held
    BY <1>6 DEF LiveTick
  <2> QED BY <2>1, ComesKeeps
<1>7. ASSUME NEW r \in Readers,
             HandlerRaises(r) \/ FindNothing(r) \/ NothingYet(r) \/ Encode(r)
      PROVE  ServerInv'
  BY <1>7, RequestsEnd
<1>8. ASSUME NEW r \in Readers, FindWorker(r) PROVE ServerInv'
  BY <1>8, FindKeeps
<1>9. ASSUME NEW r \in Readers, TakeNew(r) \/ CopyStarts(r) \/ CopyEnds(r) PROVE ServerInv'
  BY <1>9, CopyKeeps
<1>10. ASSUME NEW r \in Readers, Loaded(r) PROVE ServerInv'
  BY <1>10, LoadedKeeps
<1>11. CASE UNCHANGED previewServerVars
  BY <1>11 DEF previewServerVars, ServerInv, PreviewTyped, WorkersAreMade, StoreIsWhole,
               AskHolds, Asking, Finding, NotBefore, HasFrame, Answered, Carried
<1> QED BY <1>1, <1>2, <1>3, <1>4, <1>5, <1>6, <1>7, <1>8, <1>9, <1>10, <1>11
        DEF PreviewServerNext

(* Whatever the loops, the requests and the cameras do meanwhile, a frame  *)
(* that is shown is one whole frame and none from before the request, and  *)
(* a refusal has had its reason.                                           *)
THEOREM FramesAreWhole == PreviewServerSpec => []ServedWhole
<1>1. ServerInv => ServedWhole
  <2>1. SUFFICES ASSUME ServerInv, NEW r \in Readers, asks[r].at = "done"
                 PROVE  /\ asks[r].reply \in Shown =>
                             /\ asks[r].got[1] = asks[r].got[2]
                             /\ asks[r].got[1] >= asks[r].since
                             /\ asks[r].got # Black
                        /\ asks[r].reply = "404" => asks[r].away
                        /\ asks[r].reply \in {"503", "gaveUp"} =>
                             asks[r].dark \/ asks[r].got # Black
    BY DEF ServedWhole
  <2>2. PICK a \in AskType : a = asks[r]
    BY <2>1 DEF ServerInv, PreviewTyped
  <2>3. Answered(a)
    BY <2>1, <2>2 DEF ServerInv, AskHolds
  <2>4. a.reply \in Shown => a.got # Black
    BY <2>3 DEF Answered, HasFrame, Black
  <2> QED BY <2>2, <2>3, <2>4 DEF Answered, HasFrame
<1> QED BY <1>1, InitServerInv, NextServerInv, PTL DEF PreviewServerSpec

-----------------------------------------------------------------------------
(* The reCamera's memory bench.                                            *)

BenchTyped ==
  /\ maxIterations \in Nat /\ iterations \in Nat /\ unreleased \in Nat
  /\ mems \in Nat /\ strays \in Nat
  /\ stage \in {"opening", "asking", "binding", "loop", "infer", "closing",
                "returned", "ended"}
  /\ outcome \in {"none", "raised", "returned"}
  /\ stoppedBy \in {"none", "error", "max_iterations", "min_free_mb"}

Building == stage \in {"opening", "asking", "binding"}

(* What the mode keeps for good, and what this iteration has on top of it. *)
Meant == IF benchMode = "leak" THEN iterations ELSE 0
InHand ==
  IF stage = "infer" /\ (call = "release" \/ (benchMode = "leak" /\ call = "none"))
    THEN 1 ELSE 0

(* Which calls a mode makes, and what it keeps while it makes them.        *)
KeepsAsMeant ==
  /\ call = "fetch" => benchMode \in {"get", "leak"}
  /\ call = "release" => benchMode = "get"
  /\ stage = "infer" /\ benchMode = "get" =>
       call \in {"inputs", "run", "fetch", "release", "none"}
  /\ stage = "infer" /\ benchMode = "leak" =>
       call \in {"inputs", "run", "fetch", "none"}
  /\ Building => iterations = 0 /\ unreleased = 0
  /\ stage \in {"loop", "infer"} => unreleased = Meant + InHand
  /\ stage = "closing" /\ stoppedBy # "error" => unreleased = Meant
  /\ outcome = "returned" => unreleased = Meant

(* Before an iteration fetches, the last one has left min_free_mb.         *)
LeavesRoom ==
  readable =>
    /\ unreleased <= 1 \/ Memory - unreleased + 1 >= MinFree
    /\ stage \in {"loop", "infer"} /\ InHand = 0 =>
         unreleased = 0 \/ Memory - unreleased >= MinFree

GivesBack ==
  /\ ~Owned => context = "none"
  /\ stage \notin {"returned", "ended"} => outcome = "none" /\ strays = 0
  /\ stage = "returned" => outcome = "returned"
  /\ outcome = "returned" => context # "open" /\ mems = 0 /\ strays = 0

(* A reason is written when the bench has stopped, and nothing counts      *)
(* after it.                                                               *)
Tells ==
  /\ (Building \/ stage \in {"loop", "infer"}) => stoppedBy = "none"
  /\ stage \notin {"returned", "ended"} => report.why \in {"nothing", "none"}
  /\ report.why \notin {"nothing", "unreadable", "none"} =>
       report = [of |-> iterations, why |-> stoppedBy]

BenchInv == BenchTyped /\ KeepsAsMeant /\ LeavesRoom /\ GivesBack /\ Tells

LEMMA InitBenchInv == BenchInit => BenchInv
<1> SUFFICES ASSUME BenchInit PROVE BenchInv
  OBVIOUS
<1> USE BenchAssumption DEF BenchInit
<1>1. BenchTyped
  BY DEF BenchTyped
<1>2. KeepsAsMeant /\ LeavesRoom
  BY DEF KeepsAsMeant, LeavesRoom, Building, Meant, InHand
<1>3. GivesBack /\ Tells
  BY DEF GivesBack, Tells, Owned, Building, NoReport
<1> QED BY <1>1, <1>2, <1>3 DEF BenchInv

(* Before the loop nothing is fetched.                                     *)
LEMMA BuildKeeps ==
  ASSUME BenchInv, OpenModel \/ AskTensors \/ BindTensor
  PROVE  BenchInv'
<1> USE BenchAssumption
        DEF BenchInv, OpenModel, AskTensors, BindTensor, BuildSteps, NotBuilt, Opened,
            benchSettings
<1>1. BenchTyped'
  BY DEF BenchTyped
<1>2. Building /\ stage' \in {"asking", "binding", "loop", "ended"}
  BY DEF Building
<1>3. iterations' = 0 /\ unreleased' = 0 /\ call' = call /\ outcome' # "returned"
  BY <1>2 DEF KeepsAsMeant, GivesBack, Building
<1>4. KeepsAsMeant' /\ LeavesRoom'
  BY <1>2, <1>3 DEF KeepsAsMeant, LeavesRoom, Building, Meant, InHand, BenchTyped
<1>5. GivesBack'
  BY <1>2 DEF GivesBack, Owned, NativeModes, Building, BenchTyped
<1>6. Tells'
  BY <1>2 DEF Tells, Building
<1> QED BY <1>1, <1>4, <1>5, <1>6

(* An iteration begins where the last one has left min_free_mb.            *)
LEMMA HeadKeeps ==
  ASSUME BenchInv, Deadline \/ TakesSample \/ NoSampleDue
  PROVE  BenchInv'
<1> USE BenchAssumption
        DEF BenchInv, Deadline, TakesSample, NoSampleDue, LoopSteps, Raises, benchSettings
<1>1. BenchTyped'
  BY DEF BenchTyped
<1>2. /\ stage = "loop" /\ stage' \in {"infer", "closing"}
      /\ iterations' = iterations /\ unreleased' = unreleased
      /\ outcome' = outcome /\ outcome = "none"
      /\ stage' = "infer" => call' = FirstCall /\ stoppedBy' = "none"
      /\ stoppedBy' \in {"none", "error"}
  BY DEF GivesBack, Tells
<1>3. unreleased = Meant
  BY <1>2 DEF KeepsAsMeant, InHand, BenchTyped, Meant
<1>4. stage' = "infer" => InHand' = 0
  BY <1>2 DEF InHand, FirstCall
<1>5. KeepsAsMeant'
  BY <1>2, <1>3, <1>4 DEF KeepsAsMeant, Building, Meant, FirstCall, BenchTyped
<1>6. LeavesRoom'
  BY <1>2, <1>3, <1>4 DEF LeavesRoom, BenchTyped, InHand
<1>7. GivesBack'
  BY <1>2 DEF GivesBack, Owned
<1>8. Tells'
  BY <1>2 DEF Tells, Building, Flushed
<1> QED BY <1>1, <1>5, <1>6, <1>7, <1>8

LEMMA CallKeeps ==
  ASSUME BenchInv, CallsNative
  PROVE  BenchInv'
<1> USE BenchAssumption DEF BenchInv, CallsNative, LoopSteps, benchSettings
<1>1. /\ stage = "infer" /\ stage' = "infer" /\ outcome' = outcome /\ outcome = "none"
      /\ unreleased = Meant + InHand /\ Meant' = Meant
      /\ call' = CallAfter(call) /\ call \notin {"none", "unknown"}
  BY DEF KeepsAsMeant, GivesBack, Meant
<1>2. InHand = IF call = "release" THEN 1 ELSE 0
  BY <1>1 DEF InHand
<1>3. InHand' = IF call = "fetch" THEN 1 ELSE 0
  BY <1>1 DEF InHand, CallAfter, KeepsAsMeant
<1>4. unreleased' = Meant' + InHand' /\ Meant \in Nat
  BY <1>1, <1>2, <1>3 DEF KeepsAsMeant, BenchTyped, Meant
<1>5. BenchTyped'
  BY <1>1, <1>3, <1>4 DEF BenchTyped
<1>6. KeepsAsMeant'
  BY <1>1, <1>4 DEF KeepsAsMeant, Building, CallAfter
<1>7. LeavesRoom'
  <2>1. call = "fetch" => unreleased' = unreleased + 1
    OBVIOUS
  <2>2. call = "release" => unreleased' = unreleased - 1 /\ unreleased' = Meant
    BY <1>1, <1>2, <1>3, <1>4
  <2>3. call = "release" => Meant = 0
    BY DEF KeepsAsMeant, Meant
  <2>4. call \notin {"fetch", "release"} => unreleased' = unreleased
    OBVIOUS
  <2> QED BY <1>1, <1>2, <1>3, <2>1, <2>2, <2>3, <2>4 DEF LeavesRoom, BenchTyped
<1>8. GivesBack'
  BY <1>1 DEF GivesBack, Owned
<1>9. Tells'
  BY <1>1 DEF Tells, Building
<1> QED BY <1>5, <1>6, <1>7, <1>8, <1>9

LEMMA FailKeeps ==
  ASSUME BenchInv, CallFails
  PROVE  BenchInv'
<1> USE BenchAssumption DEF BenchInv, CallFails, LoopSteps, Raises, benchSettings
<1>1. BenchTyped'
  BY DEF BenchTyped
<1>2. KeepsAsMeant'
  BY DEF KeepsAsMeant, Building, GivesBack
<1>3. LeavesRoom'
  BY DEF LeavesRoom, InHand
<1>4. GivesBack' /\ Tells'
  BY DEF GivesBack, Owned, Tells, Building
<1> QED BY <1>1, <1>2, <1>3, <1>4

(* The headroom is looked at after every iteration.                        *)
LEMMA CountKeeps ==
  ASSUME BenchInv, Counts
  PROVE  BenchInv'
<1> USE BenchAssumption DEF BenchInv
<1>1. PICK left \in 0..(Memory - unreleased) :
        /\ stoppedBy' \in {"none", "max_iterations", "min_free_mb"}
        /\ stoppedBy' = "none" => stage' = "loop" /\ ~LowMemory(left)
        /\ stoppedBy' # "none" => stage' = "closing"
  BY DEF Counts
<1>2. /\ stage = "infer" /\ call = "none" /\ iterations' = iterations + 1
      /\ stage' \in {"loop", "closing"}
      /\ UNCHANGED <<benchSettings, context, mems, strays, outcome, call, unreleased, report>>
  BY <1>1 DEF Counts, LoopSteps
<1>3. UNCHANGED <<benchMode, lent, maxIterations, readable>>
  BY <1>2 DEF benchSettings
<1>4. BenchTyped'
  BY <1>1, <1>2, <1>3 DEF BenchTyped
<1>5. unreleased' = Meant' /\ InHand' = 0
  BY <1>2, <1>3 DEF KeepsAsMeant, Meant, InHand, BenchTyped
<1>6. KeepsAsMeant'
  BY <1>2, <1>3, <1>4, <1>5 DEF KeepsAsMeant, Building, GivesBack, BenchTyped
<1>7. LeavesRoom'
  <2>1. SUFFICES ASSUME readable PROVE LeavesRoom'
    BY <1>3 DEF LeavesRoom
  <2>2. unreleased \in Nat /\ unreleased' = unreleased
    BY <1>2 DEF BenchTyped
  <2>3. unreleased <= 1 \/ Memory - unreleased + 1 >= MinFree
    BY <2>1 DEF LeavesRoom
  <2>4. stage' = "loop" => Memory - unreleased >= MinFree
    BY <1>1, <2>1, <2>2 DEF LowMemory
  <2> QED BY <1>2, <2>2, <2>3, <2>4 DEF LeavesRoom
<1>8. GivesBack'
  BY <1>2, <1>3 DEF GivesBack, Owned
<1>9. Tells'
  BY <1>1, <1>2 DEF Tells, Building
<1> QED BY <1>4, <1>6, <1>7, <1>8, <1>9

LEMMA CloseKeeps ==
  ASSUME BenchInv, Closes \/ FlushFails \/ WriteAgain
  PROVE  BenchInv'
<1> USE BenchAssumption
        DEF BenchInv, Closes, FlushFails, WriteAgain, Released, NotBuilt,
            benchSettings, native
<1>1. BenchTyped'
  BY DEF BenchTyped
<1>2. KeepsAsMeant'
  BY DEF KeepsAsMeant, Building, Meant, GivesBack
<1>3. LeavesRoom'
  BY DEF LeavesRoom
<1>4. GivesBack'
  BY DEF GivesBack, Owned
<1>5. Tells'
  BY DEF Tells, Building, Flushed, TornReport
<1> QED BY <1>1, <1>2, <1>3, <1>4, <1>5

LEMMA NextBenchInv == BenchInv /\ [BenchNext]_benchVars => BenchInv'
<1> SUFFICES ASSUME BenchInv, [BenchNext]_benchVars PROVE BenchInv'
  OBVIOUS
<1>1. CASE UNCHANGED benchVars
  BY <1>1 DEF benchVars, benchSettings, native, BenchInv, BenchTyped, KeepsAsMeant,
              LeavesRoom, GivesBack, Tells, Building, Meant, InHand, Owned
<1> QED BY <1>1, BuildKeeps, HeadKeeps, CallKeeps, FailKeeps, CountKeeps, CloseKeeps
        DEF BenchNext

(* For any graph, any memory and any number of iterations the curves of    *)
(* the modes can be told apart, the bench stops at its headroom, and who   *)
(* gets its result back finds everything given back and a true report.     *)
THEOREM CurvesAreTold == BenchSpec => []BenchIsHonest
<1>1. BenchInv => BenchIsHonest
  BY BenchAssumption
     DEF BenchInv, BenchIsHonest, BenchTyped, KeepsAsMeant, Meant, InHand, LeavesRoom,
         GivesBack, Tells
<1> QED BY <1>1, InitBenchInv, NextBenchInv, PTL DEF BenchSpec

-----------------------------------------------------------------------------
(* Greedy choice: what is best is taken, what clashes with it is dropped,  *)
(* and so on with the rest.  E is the finite set of what there is, R says  *)
(* which of two is better, K which clash.                                  *)

Ranks(E, R) ==
  /\ \A u, v, w \in E : <<u, v>> \in R /\ <<v, w>> \in R => <<u, w>> \in R
  /\ \A u, v \in E : u # v => <<u, v>> \in R \/ <<v, u>> \in R
  /\ \A u \in E : <<u, u>> \notin R

Best(R, S) == CHOOSE w \in S : \A q \in S \ {w} : <<w, q>> \in R
Rest(R, K, S) == {q \in S \ {Best(R, S)} : <<Best(R, S), q>> \notin K}

Greedy(E, R, K, f) ==
  f = [S \in SUBSET E |->
         IF S = {} THEN {} ELSE {Best(R, S)} \cup f[Rest(R, K, S)]]

(* The same said of the outcome: one of S is taken unless it clashes with  *)
(* a better one that is.                                                   *)
Picked(R, K, S, M) ==
  /\ M \subseteq S
  /\ \A p \in S : p \in M <=> \A q \in M : ~(<<q, p>> \in R /\ <<q, p>> \in K)

(* Of sets of subsets one has a member with no other below it.             *)
LEMMA SmallestSubset ==
  ASSUME NEW E, IsFiniteSet(E), NEW B \in SUBSET (SUBSET E), B # {}
  PROVE  \E S \in B : \A T \in B : T \subseteq S => T = S
<1>1. IsWellFoundedOn(StrictSubsetOrdering(E), FiniteSubsetsOf(E))
  BY FS_StrictSubsetOrderingWellFounded
<1>2. \A T \in B : IsFiniteSet(T)
  BY FS_Subset
<1>3. B \subseteq FiniteSubsetsOf(E)
  BY <1>2 DEF FiniteSubsetsOf
<1>4. PICK S \in B : \A T \in B : ~(<<T, S>> \in StrictSubsetOrdering(E))
  BY <1>1, <1>3, WFMin
<1> QED BY <1>4 DEF StrictSubsetOrdering

LEMMA BestIs ==
  ASSUME NEW E, IsFiniteSet(E), NEW R, Ranks(E, R), NEW S \in SUBSET E, S # {}
  PROVE  /\ Best(R, S) \in S
         /\ \A q \in S : q # Best(R, S) => <<Best(R, S), q>> \in R
<1> DEFINE Has(T) == \E w \in T : \A q \in T \ {w} : <<w, q>> \in R
           B == {T \in SUBSET E : T # {} /\ ~Has(T)}
<1>1. B = {}
  <2>1. SUFFICES ASSUME B # {} PROVE FALSE
    OBVIOUS
  <2>2. PICK T \in B : \A U \in B : U \subseteq T => U = T
    <3>1. B \in SUBSET (SUBSET E)
      OBVIOUS
    <3> HIDE DEF B
    <3> QED BY <2>1, <3>1, SmallestSubset
  <2>3. PICK x \in T : TRUE
    BY <2>2
  <2>4. ~Has(T) /\ T \in SUBSET E
    BY <2>2
  <2>5. CASE T = {x}
    BY <2>4, <2>5
  <2>6. CASE T # {x}
    <3>1. T \ {x} # {} /\ T \ {x} \in SUBSET E /\ T \ {x} # T
      BY <2>3, <2>4, <2>6
    <3>2. Has(T \ {x})
      BY <2>2, <3>1
    <3>3. PICK w \in T \ {x} : \A q \in (T \ {x}) \ {w} : <<w, q>> \in R
      BY <3>2
    <3>4. CASE <<w, x>> \in R
      BY <2>4, <3>3, <3>4
    <3>5. CASE <<x, w>> \in R
      <4>1. \A q \in T \ {x} : <<x, q>> \in R
        BY <2>3, <2>4, <3>3, <3>5 DEF Ranks
      <4> QED BY <2>3, <2>4, <4>1
    <3> QED BY <2>3, <2>4, <3>3, <3>4, <3>5 DEF Ranks
  <2> QED BY <2>5, <2>6
<1>2. Has(S)
  BY <1>1
<1> QED BY <1>2 DEF Best

LEMMA PickedOnce ==
  ASSUME NEW E, IsFiniteSet(E), NEW R, Ranks(E, R), NEW K, NEW S \in SUBSET E,
         NEW M, NEW N, Picked(R, K, S, M), Picked(R, K, S, N)
  PROVE  M = N
<1> DEFINE D == {p \in S : ~(p \in M <=> p \in N)}
<1>1. CASE D = {}
  BY <1>1 DEF Picked
<1>2. CASE D # {}
  <2>1. PICK p \in D : \A q \in D : q # p => <<p, q>> \in R
    <3>1. D \in SUBSET E
      OBVIOUS
    <3> HIDE DEF D
    <3> QED BY <1>2, <3>1, BestIs
  <2>2. \A q \in S : <<q, p>> \in R => (q \in M <=> q \in N)
    BY <2>1 DEF Ranks
  <2>3. p \in M <=> p \in N
    BY <2>1, <2>2 DEF Picked
  <2> QED BY <2>1, <2>3
<1> QED BY <1>1, <1>2

LEMMA PickedGrows ==
  ASSUME NEW E, IsFiniteSet(E), NEW R, Ranks(E, R), NEW K, NEW S \in SUBSET E,
         S # {}, NEW M, Picked(R, K, Rest(R, K, S), M)
  PROVE  Picked(R, K, S, {Best(R, S)} \cup M)
<1> DEFINE p == Best(R, S)
<1>1. p \in S /\ \A q \in S : q # p => <<p, q>> \in R
  BY BestIs
<1>2. M \subseteq Rest(R, K, S) /\ Rest(R, K, S) = {q \in S \ {p} : <<p, q>> \notin K}
  BY DEF Picked, Rest
<1>3. \A r \in Rest(R, K, S) :
        r \in M <=> \A q \in M : ~(<<q, r>> \in R /\ <<q, r>> \in K)
  BY DEF Picked
<1>4. \A q \in S : <<q, p>> \notin R
  BY <1>1 DEF Ranks
<1> HIDE DEF p
<1>5. \A r \in S :
        r \in {p} \cup M <=> \A q \in {p} \cup M : ~(<<q, r>> \in R /\ <<q, r>> \in K)
  <2> SUFFICES ASSUME NEW r \in S
               PROVE  r \in {p} \cup M
                        <=> \A q \in {p} \cup M : ~(<<q, r>> \in R /\ <<q, r>> \in K)
    OBVIOUS
  <2>1. CASE r = p
    BY <1>1, <1>2, <1>4, <2>1
  <2>2. CASE r # p /\ <<p, r>> \in K
    BY <1>1, <1>2, <2>2
  <2>3. CASE r # p /\ <<p, r>> \notin K
    BY <1>2, <1>3, <2>3
  <2> QED BY <2>1, <2>2, <2>3
<1>6. {p} \cup M \subseteq S
  BY <1>1, <1>2
<1> QED BY <1>5, <1>6 DEF Picked, p

LEMMA SomePicked ==
  ASSUME NEW E, IsFiniteSet(E), NEW R, Ranks(E, R), NEW K, NEW S \in SUBSET E
  PROVE  \E M : Picked(R, K, S, M)
<1> DEFINE B == {T \in SUBSET E : ~\E M : Picked(R, K, T, M)}
<1>1. B = {}
  <2>1. SUFFICES ASSUME B # {} PROVE FALSE
    OBVIOUS
  <2>2. PICK T \in B : \A U \in B : U \subseteq T => U = T
    <3>1. B \in SUBSET (SUBSET E)
      OBVIOUS
    <3> HIDE DEF B
    <3> QED BY <2>1, <3>1, SmallestSubset
  <2>3. CASE T = {}
    <3>1. Picked(R, K, {}, {})
      BY DEF Picked
    <3> QED BY <2>2, <2>3, <3>1
  <2>4. CASE T # {}
    <3>1. Best(R, T) \in T /\ Rest(R, K, T) \subseteq T /\ Best(R, T) \notin Rest(R, K, T)
      BY <2>4, BestIs DEF Rest
    <3>2. Rest(R, K, T) \in SUBSET E /\ Rest(R, K, T) \notin B
      BY <2>2, <3>1
    <3>3. PICK M : Picked(R, K, Rest(R, K, T), M)
      BY <3>2
    <3>4. Picked(R, K, T, {Best(R, T)} \cup M)
      BY <2>4, <3>3, PickedGrows
    <3> QED BY <2>2, <3>4
  <2> QED BY <2>3, <2>4
<1> QED BY <1>1

(* The recursion is well founded: there is a function that it defines.     *)
LEMMA GreedyIsDefined ==
  ASSUME NEW E, IsFiniteSet(E), NEW R, Ranks(E, R), NEW K
  PROVE  \E f : Greedy(E, R, K, f)
<1> DEFINE f == [S \in SUBSET E |-> CHOOSE M : Picked(R, K, S, M)]
<1>1. \A S \in SUBSET E : Picked(R, K, S, f[S])
  BY SomePicked
<1>2. ASSUME NEW S \in SUBSET E
      PROVE  f[S] = IF S = {} THEN {} ELSE {Best(R, S)} \cup f[Rest(R, K, S)]
  <2>1. CASE S = {}
    BY <1>1, <2>1 DEF Picked
  <2>2. CASE S # {}
    <3>1. Rest(R, K, S) \in SUBSET E
      BY DEF Rest
    <3>2. Picked(R, K, S, {Best(R, S)} \cup f[Rest(R, K, S)])
      <4> HIDE DEF f
      <4> QED BY <1>1, <2>2, <3>1, PickedGrows
    <3>3. f[S] = {Best(R, S)} \cup f[Rest(R, K, S)]
      <4> HIDE DEF f
      <4> QED BY <1>1, <3>2, PickedOnce
    <3> QED BY <2>2, <3>3
  <2> QED BY <2>1, <2>2
<1>3. f = [S \in SUBSET E |->
             IF S = {} THEN {} ELSE {Best(R, S)} \cup f[Rest(R, K, S)]]
  <2> DEFINE g == [S \in SUBSET E |->
                     IF S = {} THEN {} ELSE {Best(R, S)} \cup f[Rest(R, K, S)]]
  <2>1. \A S \in SUBSET E : f[S] = g[S]
    <3> HIDE DEF f
    <3> QED BY <1>2
  <2>2. DOMAIN f = SUBSET E /\ DOMAIN g = SUBSET E
    <3>1. DOMAIN f = SUBSET E
      OBVIOUS
    <3> HIDE DEF f
    <3> QED BY <3>1
  <2>3. f = [S \in SUBSET E |-> f[S]] /\ g = [S \in SUBSET E |-> g[S]]
    OBVIOUS
  <2>4. f = g
    <3> HIDE DEF f, g
    <3> QED BY <2>1, <2>3
  <2> HIDE DEF f
  <2> QED BY <2>4
<1> HIDE DEF f
<1> QED BY <1>3 DEF Greedy

(* And what it computes are the picked ones.                               *)
LEMMA GreedyPicks ==
  ASSUME NEW E, IsFiniteSet(E), NEW R, Ranks(E, R), NEW K, NEW f,
         Greedy(E, R, K, f), NEW S \in SUBSET E
  PROVE  Picked(R, K, S, f[S])
<1> DEFINE B == {T \in SUBSET E : ~Picked(R, K, T, f[T])}
<1>1. B = {}
  <2>1. SUFFICES ASSUME B # {} PROVE FALSE
    OBVIOUS
  <2>2. PICK T \in B : \A U \in B : U \subseteq T => U = T
    <3>1. B \in SUBSET (SUBSET E)
      OBVIOUS
    <3> HIDE DEF B
    <3> QED BY <2>1, <3>1, SmallestSubset
  <2>3. f[T] = IF T = {} THEN {} ELSE {Best(R, T)} \cup f[Rest(R, K, T)]
    BY DEF Greedy
  <2>4. CASE T = {}
    <3>1. Picked(R, K, T, f[T])
      BY <2>3, <2>4 DEF Picked
    <3> QED BY <2>2, <3>1
  <2>5. CASE T # {}
    <3>1. Best(R, T) \in T /\ Rest(R, K, T) \subseteq T /\ Best(R, T) \notin Rest(R, K, T)
      BY <2>5, BestIs DEF Rest
    <3>2. Picked(R, K, Rest(R, K, T), f[Rest(R, K, T)])
      BY <2>2, <3>1
    <3>3. Picked(R, K, T, f[T])
      BY <2>3, <2>5, <3>2, PickedGrows
    <3> QED BY <2>2, <3>3
  <2> QED BY <2>4, <2>5
<1> QED BY <1>1

-----------------------------------------------------------------------------
(* The tracker.                                                            *)

Fraction == Int \X (Nat \ {0})

LEMMA Scaled ==
  ASSUME NEW x \in Int, NEW y \in Int, NEW k \in Nat, k > 0
  PROVE  (x * k < y * k <=> x < y) /\ (x * k = y * k <=> x = y)
OBVIOUS

(* Fractions compared crosswise are ordered as they should be.             *)
LEMMA FractionsChain ==
  ASSUME NEW a \in Int, NEW b \in Nat, b > 0, NEW c \in Int, NEW d \in Nat, d > 0,
         NEW e \in Int, NEW f \in Nat, f > 0
  PROVE  /\ a * d < c * b /\ c * f < e * d => a * f < e * b
         /\ a * d < c * b /\ c * f = e * d => a * f < e * b
         /\ a * d = c * b /\ c * f < e * d => a * f < e * b
         /\ a * d = c * b /\ c * f = e * d => a * f = e * b
<1>1. PICK ad \in Int, cb \in Int, cf \in Int, ed \in Int, af \in Int, eb \in Int :
        /\ ad = a * d /\ cb = c * b /\ cf = c * f
        /\ ed = e * d /\ af = a * f /\ eb = e * b
  OBVIOUS
<1>2. ad * f = af * d /\ cb * f = cf * b /\ ed * b = eb * d
  BY <1>1
<1>3. PICK x \in Int, y \in Int, z \in Int : x = af * d /\ y = cf * b /\ z = eb * d
  OBVIOUS
<1>4. (ad < cb <=> x < y) /\ (ad = cb <=> x = y)
  BY <1>2, <1>3, Scaled
<1>5. (cf < ed <=> y < z) /\ (cf = ed <=> y = z)
  BY <1>2, <1>3, Scaled
<1>6. (af < eb <=> x < z) /\ (af = eb <=> x = z)
  BY <1>3, Scaled
<1> QED BY <1>1, <1>4, <1>5, <1>6

LEMMA FractionsRank ==
  ASSUME NEW u \in Fraction, NEW v \in Fraction, NEW w \in Fraction
  PROVE  /\ Less(u, v) \/ Same(u, v) \/ Less(v, u)
         /\ ~(Less(u, v) /\ Less(v, u)) /\ ~Less(u, u)
         /\ Same(u, v) <=> Same(v, u)
         /\ Same(u, v) => ~Less(u, v)
         /\ Less(u, v) /\ Less(v, w) => Less(u, w)
         /\ Less(u, v) /\ Same(v, w) => Less(u, w)
         /\ Same(u, v) /\ Less(v, w) => Less(u, w)
         /\ Same(u, v) /\ Same(v, w) => Same(u, w)
<1>1. /\ u[1] \in Int /\ u[2] \in Nat /\ u[2] > 0
      /\ v[1] \in Int /\ v[2] \in Nat /\ v[2] > 0
      /\ w[1] \in Int /\ w[2] \in Nat /\ w[2] > 0
  BY DEF Fraction
<1>2. PICK p \in Int, q \in Int : p = u[1] * v[2] /\ q = v[1] * u[2]
  BY <1>1
<1>3. /\ Less(u, v) <=> p < q
      /\ Less(v, u) <=> q < p
      /\ Same(u, v) <=> p = q
      /\ Same(v, u) <=> q = p
      /\ ~Less(u, u)
  BY <1>1, <1>2 DEF Less, Same
<1>4. /\ Less(u, v) /\ Less(v, w) => Less(u, w)
      /\ Less(u, v) /\ Same(v, w) => Less(u, w)
      /\ Same(u, v) /\ Less(v, w) => Less(u, w)
      /\ Same(u, v) /\ Same(v, w) => Same(u, w)
  <2>1. PICK a \in Int, b \in Nat, c \in Int, d \in Nat, e \in Int, f \in Nat :
          a = u[1] /\ b = u[2] /\ c = v[1] /\ d = v[2] /\ e = w[1] /\ f = w[2]
    BY <1>1
  <2>2. b > 0 /\ d > 0 /\ f > 0
    BY <1>1, <2>1
  <2>3. /\ a * d < c * b /\ c * f < e * d => a * f < e * b
        /\ a * d < c * b /\ c * f = e * d => a * f < e * b
        /\ a * d = c * b /\ c * f < e * d => a * f < e * b
        /\ a * d = c * b /\ c * f = e * d => a * f = e * b
    BY <2>2, FractionsChain
  <2>4. /\ Less(u, v) <=> a * d < c * b
        /\ Same(u, v) <=> a * d = c * b
        /\ Less(v, w) <=> c * f < e * d
        /\ Same(v, w) <=> c * f = e * d
        /\ Less(u, w) <=> a * f < e * b
        /\ Same(u, w) <=> a * f = e * b
    BY <2>1 DEF Less, Same
  <2> QED BY <2>3, <2>4
<1> QED BY <1>3, <1>4

Corners == Int \X Int \X Int \X Int

LEMMA IouIsFraction ==
  ASSUME NEW a \in Corners, NEW b \in Corners
  PROVE  Iou(a, b) \in Fraction
<1>1. /\ a[1] \in Int /\ a[2] \in Int /\ a[3] \in Int /\ a[4] \in Int
      /\ b[1] \in Int /\ b[2] \in Int /\ b[3] \in Int /\ b[4] \in Int
  BY DEF Corners
<1>2. \A u, v \in Int : Extent(u, v) \in Int /\ Larger(u, v) \in Int /\ Smaller(u, v) \in Int
  BY DEF Extent, Larger, Smaller
<1>3. Area(a) \in Int /\ Area(b) \in Int
  <2>1. /\ Extent(a[1], a[3]) \in Int /\ Extent(a[2], a[4]) \in Int
        /\ Extent(b[1], b[3]) \in Int /\ Extent(b[2], b[4]) \in Int
    BY <1>1, <1>2
  <2> QED BY <2>1 DEF Area
<1>4. Inter(a, b) \in Int
  <2>1. /\ Larger(a[1], b[1]) \in Int /\ Smaller(a[3], b[3]) \in Int
        /\ Larger(a[2], b[2]) \in Int /\ Smaller(a[4], b[4]) \in Int
    BY <1>1, <1>2
  <2>2. /\ Extent(Larger(a[1], b[1]), Smaller(a[3], b[3])) \in Int
        /\ Extent(Larger(a[2], b[2]), Smaller(a[4], b[4])) \in Int
    BY <1>2, <2>1
  <2> QED BY <2>2 DEF Inter
<1>5. Larger(1, Area(a) + Area(b) - Inter(a, b)) \in Nat \ {0}
  <2>1. PICK n \in Int : n = Area(a) + Area(b) - Inter(a, b)
    BY <1>3, <1>4
  <2> QED BY <2>1 DEF Larger
<1> QED BY <1>4, <1>5 DEF Iou, Fraction

(* What update works with.                                                 *)
Offered(live, dets) ==
  /\ DOMAIN live \subseteq Nat /\ IsFiniteSet(DOMAIN live)
  /\ DOMAIN dets \subseteq Nat /\ IsFiniteSet(DOMAIN dets)
  /\ \A i \in DOMAIN live : live[i].box \in Corners
  /\ \A d \in DOMAIN dets : dets[d] \in Corners

(* The pairs of which the first is tried before the second, and those that *)
(* want the same track or the same detection.                              *)
Sooner(live, dets) ==
  {pq \in Eligible(live, dets) \X Eligible(live, dets) :
     Before(live, dets, pq[1], pq[2])}
Rivals(live, dets) ==
  {pq \in Eligible(live, dets) \X Eligible(live, dets) :
     pq[1][1] = pq[2][1] \/ pq[1][2] = pq[2][2]}

LEMMA SoonerRanks ==
  ASSUME NEW live, NEW dets, Offered(live, dets)
  PROVE  /\ Ranks(Eligible(live, dets), Sooner(live, dets))
         /\ IsFiniteSet(Eligible(live, dets))
<1> DEFINE E == Eligible(live, dets)
           R == Sooner(live, dets)
           Bef(p, q) == Before(live, dets, p, q)
           iou(p) == Iou(live[p[1]].box, dets[p[2]])
<1>1. IsFiniteSet(E)
  <2>1. IsFiniteSet((DOMAIN live) \X (DOMAIN dets))
    BY FS_Product DEF Offered
  <2>2. E \in SUBSET ((DOMAIN live) \X (DOMAIN dets))
    BY DEF Eligible
  <2> QED BY <2>1, <2>2, FS_Subset
<1>2. \A p \in E : /\ p[1] \in Nat /\ p[2] \in Nat /\ iou(p) \in Fraction
                   /\ p = <<p[1], p[2]>>
  BY IouIsFraction DEF Offered, Eligible
<1>3. \A p, q \in E : <<p, q>> \in R <=> Bef(p, q)
  BY DEF Sooner
<1>4. \A p, q : Bef(p, q) <=>
        \/ Less(iou(q), iou(p))
        \/ Same(iou(p), iou(q)) /\ p[1] > q[1]
        \/ Same(iou(p), iou(q)) /\ p[1] = q[1] /\ p[2] > q[2]
  BY DEF Before
<1> HIDE DEF E, R, Bef, iou
<1>5. \A u, v, w \in E : Bef(u, v) /\ Bef(v, w) => Bef(u, w)
  <2> SUFFICES ASSUME NEW u \in E, NEW v \in E, NEW w \in E, Bef(u, v), Bef(v, w)
               PROVE  Bef(u, w)
    OBVIOUS
  <2>1. PICK fu \in Fraction, fv \in Fraction, fw \in Fraction :
          fu = iou(u) /\ fv = iou(v) /\ fw = iou(w)
    BY <1>2
  <2>2. /\ Less(fw, fv) /\ Less(fv, fu) => Less(fw, fu)
        /\ Less(fw, fv) /\ Same(fv, fu) => Less(fw, fu)
        /\ Same(fw, fv) /\ Less(fv, fu) => Less(fw, fu)
        /\ Same(fu, fv) /\ Same(fv, fw) => Same(fu, fw)
        /\ Same(fu, fv) <=> Same(fv, fu)
        /\ Same(fv, fw) <=> Same(fw, fv)
    BY FractionsRank
  <2>3. /\ u[1] \in Nat /\ u[2] \in Nat /\ v[1] \in Nat /\ v[2] \in Nat
        /\ w[1] \in Nat /\ w[2] \in Nat
    BY <1>2
  <2>4. \/ Less(fv, fu)
        \/ Same(fu, fv) /\ u[1] > v[1]
        \/ Same(fu, fv) /\ u[1] = v[1] /\ u[2] > v[2]
    BY <1>4, <2>1
  <2>5. \/ Less(fw, fv)
        \/ Same(fv, fw) /\ v[1] > w[1]
        \/ Same(fv, fw) /\ v[1] = w[1] /\ v[2] > w[2]
    BY <1>4, <2>1
  <2>6. \/ Less(fw, fu)
        \/ Same(fu, fw) /\ u[1] > w[1]
        \/ Same(fu, fw) /\ u[1] = w[1] /\ u[2] > w[2]
    BY <2>2, <2>3, <2>4, <2>5
  <2> QED BY <1>4, <2>1, <2>6
<1>6. \A u, v \in E : u # v => Bef(u, v) \/ Bef(v, u)
  <2> SUFFICES ASSUME NEW u \in E, NEW v \in E, u # v
               PROVE  Bef(u, v) \/ Bef(v, u)
    OBVIOUS
  <2>1. PICK fu \in Fraction, fv \in Fraction : fu = iou(u) /\ fv = iou(v)
    BY <1>2
  <2>2. /\ Less(fu, fv) \/ Same(fu, fv) \/ Less(fv, fu)
        /\ Same(fu, fv) <=> Same(fv, fu)
    BY FractionsRank
  <2>3. /\ u[1] \in Nat /\ u[2] \in Nat /\ v[1] \in Nat /\ v[2] \in Nat
        /\ u[1] # v[1] \/ u[2] # v[2]
    BY <1>2
  <2> QED BY <1>4, <2>1, <2>2, <2>3
<1>7. \A u \in E : ~Bef(u, u)
  <2> SUFFICES ASSUME NEW u \in E
               PROVE  ~Bef(u, u)
    OBVIOUS
  <2>1. ~Less(iou(u), iou(u)) /\ u[1] \in Nat /\ u[2] \in Nat
    BY <1>2, FractionsRank
  <2> QED BY <1>4, <2>1
<1>8. Ranks(E, R)
  BY <1>3, <1>5, <1>6, <1>7 DEF Ranks
<1> QED BY <1>1, <1>8 DEF E, R

(* The loop of update, as Matching has it.                                 *)
Takes(live, dets, take) ==
  take = [S \in SUBSET Eligible(live, dets) |->
            IF S = {} THEN {}
            ELSE LET p == CHOOSE w \in S : \A q \in S \ {w} : Before(live, dets, w, q)
                 IN {p} \cup take[{q \in S : q[1] # p[1] /\ q[2] # p[2]}]]

LEMMA TakesIsGreedy ==
  ASSUME NEW live, NEW dets, Offered(live, dets), NEW take
  PROVE  Takes(live, dets, take)
           <=> Greedy(Eligible(live, dets), Sooner(live, dets), Rivals(live, dets), take)
<1> DEFINE E == Eligible(live, dets)
           R == Sooner(live, dets)
           K == Rivals(live, dets)
           head(S) == CHOOSE w \in S : \A q \in S \ {w} : Before(live, dets, w, q)
           tail(S) == {q \in S : q[1] # head(S)[1] /\ q[2] # head(S)[2]}
           one == [S \in SUBSET E |-> IF S = {} THEN {} ELSE {head(S)} \cup take[tail(S)]]
           two == [S \in SUBSET E |->
                     IF S = {} THEN {} ELSE {Best(R, S)} \cup take[Rest(R, K, S)]]
<1>1. ASSUME NEW S \in SUBSET E, S # {}
      PROVE  head(S) = Best(R, S) /\ tail(S) = Rest(R, K, S)
  <2>1. /\ Best(R, S) \in S
        /\ \A q \in S : q # Best(R, S) => <<Best(R, S), q>> \in R
    BY <1>1, SoonerRanks, BestIs
  <2>2. \A p, q \in S : <<p, q>> \in R <=> Before(live, dets, p, q)
    BY DEF Sooner
  <2>3. \A q \in S \ {Best(R, S)} : Before(live, dets, Best(R, S), q)
    BY <2>1, <2>2
  <2>4. head(S) \in S /\ \A q \in S \ {head(S)} : Before(live, dets, head(S), q)
    <3>1. \E w \in S : \A q \in S \ {w} : Before(live, dets, w, q)
      BY <2>1, <2>3
    <3> QED BY <3>1
  <2> HIDE DEF head
  <2>5. head(S) = Best(R, S)
    <3>1. Ranks(E, R)
      BY SoonerRanks
    <3> QED BY <2>1, <2>2, <2>4, <3>1 DEF Ranks
  <2>6. \A p, q \in S : <<p, q>> \in K <=> p[1] = q[1] \/ p[2] = q[2]
    BY DEF Rivals
  <2>7. \A q : q \in tail(S) <=> q \in Rest(R, K, S)
    BY <2>1, <2>5, <2>6 DEF Rest
  <2>8. tail(S) = Rest(R, K, S)
    <3> HIDE DEF tail
    <3> QED BY <2>7
  <2> QED BY <2>5, <2>8
<1>2. \A S \in SUBSET E : one[S] = two[S]
  <2> HIDE DEF head, tail
  <2> QED BY <1>1
<1>3. one = two
  <2>1. one = [S \in SUBSET E |-> one[S]] /\ two = [S \in SUBSET E |-> two[S]]
    <3> HIDE DEF head, tail
    <3> QED OBVIOUS
  <2> HIDE DEF one, two
  <2> QED BY <1>2, <2>1
<1>4. Takes(live, dets, take) <=> take = one
  BY DEF Takes
<1>5. Greedy(E, R, K, take) <=> take = two
  BY DEF Greedy
<1> HIDE DEF one, two
<1> QED BY <1>3, <1>4, <1>5

LEMMA MatchingPicks ==
  ASSUME NEW live, NEW dets, Offered(live, dets)
  PROVE  Picked(Sooner(live, dets), Rivals(live, dets), Eligible(live, dets),
                Matching(live, dets))
<1> DEFINE f == CHOOSE take : Takes(live, dets, take)
<1>1. \E take : Takes(live, dets, take)
  BY SoonerRanks, GreedyIsDefined, TakesIsGreedy
<1>2. Takes(live, dets, f)
  BY <1>1
<1>3. Matching(live, dets) = f[Eligible(live, dets)]
  BY DEF Matching, Takes
<1> HIDE DEF f
<1>4. Greedy(Eligible(live, dets), Sooner(live, dets), Rivals(live, dets), f)
  BY <1>2, TakesIsGreedy
<1> QED BY <1>3, <1>4, SoonerRanks, GreedyPicks

Fresh(live, dets) == {d \in DOMAIN dets : \A p \in Matching(live, dets) : p[2] # d}

(* Whose ids the detections get.                                           *)
LEMMA IdsAreGiven ==
  ASSUME NEW live, NEW dets, Offered(live, dets), NEW next \in Nat
  PROVE  LET ids == Given(live, dets, next)
         IN  /\ DOMAIN ids = DOMAIN dets
             /\ \A d \in DOMAIN dets \ Fresh(live, dets) :
                  <<ids[d], d>> \in Matching(live, dets)
             /\ \A d \in Fresh(live, dets) :
                  ids[d] \in next..(next + Cardinality(DOMAIN dets))
             /\ \A d, e \in Fresh(live, dets) : d < e => ids[d] < ids[e]
<1> DEFINE ids == Given(live, dets, next)
           pairs == Matching(live, dets)
           F == Fresh(live, dets)
           older(d) == {e \in F : e < d}
<1>1. ids = [d \in DOMAIN dets |->
               IF d \in F THEN next + Cardinality(older(d))
               ELSE (CHOOSE p \in pairs : p[2] = d)[1]]
  BY DEF Given, Fresh
<1>2. F \subseteq DOMAIN dets /\ DOMAIN dets \subseteq Nat /\ IsFiniteSet(DOMAIN dets)
  BY DEF Fresh, Offered
<1>3. \A p \in pairs : p = <<p[1], p[2]>>
  BY MatchingPicks DEF Picked, Eligible
<1>4. \A d \in DOMAIN dets \ F : \E p \in pairs : p[2] = d
  BY DEF Fresh
<1> HIDE DEF ids, pairs, F
<1>5. DOMAIN ids = DOMAIN dets
  BY <1>1
<1>6. ASSUME NEW d \in DOMAIN dets \ F
      PROVE  <<ids[d], d>> \in pairs
  <2>1. PICK p \in pairs : p = CHOOSE r \in pairs : r[2] = d
    BY <1>4
  <2>2. p[2] = d
    BY <1>4, <2>1
  <2>3. ids[d] = p[1]
    BY <1>1, <1>6, <2>1
  <2> QED BY <1>3, <2>2, <2>3
<1>7. ASSUME NEW d \in F
      PROVE  /\ IsFiniteSet(older(d)) /\ Cardinality(older(d)) \in Nat
             /\ Cardinality(older(d)) <= Cardinality(DOMAIN dets)
             /\ Cardinality(DOMAIN dets) \in Nat
             /\ ids[d] = next + Cardinality(older(d))
  <2>1. older(d) \in SUBSET (DOMAIN dets)
    BY <1>2
  <2>2. ids[d] = next + Cardinality(older(d))
    BY <1>1, <1>2
  <2> HIDE DEF older
  <2>3. IsFiniteSet(older(d)) /\ Cardinality(older(d)) <= Cardinality(DOMAIN dets)
    BY <1>2, <2>1, FS_Subset
  <2> QED BY <1>2, <2>2, <2>3, FS_CardinalityType
<1>8. ASSUME NEW d \in F
      PROVE  ids[d] \in next..(next + Cardinality(DOMAIN dets))
  <2>1. PICK n \in Nat, m \in Nat :
          n = Cardinality(older(d)) /\ m = Cardinality(DOMAIN dets) /\ n <= m
    BY <1>7
  <2>2. ids[d] = next + n
    BY <1>7, <2>1
  <2> HIDE DEF older
  <2> QED BY <2>1, <2>2
<1>9. ASSUME NEW d \in F, NEW e \in F, d < e
      PROVE  ids[d] < ids[e]
  <2>1. d \in Nat /\ e \in Nat
    BY <1>2
  <2>2. older(d) \subseteq older(e) /\ d \in older(e) /\ d \notin older(d)
    <3>1. \A x \in F : x < d => x < e
      <4>1. \A x \in F : x \in Nat
        BY <1>2
      <4> QED BY <1>9, <2>1, <4>1
    <3>2. ~(d < d)
      BY <2>1
    <3> QED BY <1>9, <3>1, <3>2
  <2> HIDE DEF older
  <2>3. older(d) # older(e)
    BY <2>2
  <2>4. /\ Cardinality(older(d)) <= Cardinality(older(e))
        /\ Cardinality(older(d)) # Cardinality(older(e))
    BY <1>7, <2>2, <2>3, FS_Subset
  <2> QED BY <1>7, <2>4
<1> QED BY <1>5, <1>6, <1>8, <1>9 DEF ids, pairs, F

(* TracksHold, of a frame.                                                 *)
Held(live, dets, next, ids) ==
  /\ \A d, e \in DOMAIN ids : d # e => ids[d] # ids[e]
  /\ \A d \in DOMAIN ids : ids[d] \in DOMAIN live \/ ids[d] >= next
  /\ \A i \in DOMAIN live, d \in DOMAIN dets :
       ~Less(Iou(live[i].box, dets[d]), Threshold) /\ ids[d] # i =>
         \/ /\ ids[d] \in DOMAIN live
            /\ ~Less(Iou(live[ids[d]].box, dets[d]), Iou(live[i].box, dets[d]))
         \/ \E e \in DOMAIN ids :
              ids[e] = i /\ ~Less(Iou(live[i].box, dets[e]), Iou(live[i].box, dets[d]))

LEMMA GivenHolds ==
  ASSUME NEW live, NEW dets, Offered(live, dets), NEW next \in Nat,
         \A i \in DOMAIN live : i < next
  PROVE  Held(live, dets, next, Given(live, dets, next))
<1> DEFINE pairs == Matching(live, dets)
           E == Eligible(live, dets)
           F == Fresh(live, dets)
           over(p) == Iou(live[p[1]].box, dets[p[2]])
<1>1. PICK ids : ids = Given(live, dets, next)
  OBVIOUS
<1>2. /\ DOMAIN ids = DOMAIN dets
      /\ \A d \in DOMAIN dets \ F : <<ids[d], d>> \in pairs
      /\ \A d \in F : ids[d] \in next..(next + Cardinality(DOMAIN dets))
      /\ \A d, e \in F : d < e => ids[d] < ids[e]
  BY <1>1, IdsAreGiven
<1>3. /\ DOMAIN live \subseteq Nat /\ DOMAIN dets \subseteq Nat
      /\ F \subseteq DOMAIN dets
      /\ \A d \in F : \A p \in pairs : p[2] # d
      /\ E \subseteq (DOMAIN live) \X (DOMAIN dets)
  BY DEF Offered, Fresh, Eligible
<1>4. /\ pairs \subseteq E
      /\ \A p \in E : p \in pairs <=>
           \A q \in pairs : ~(/\ <<q, p>> \in Sooner(live, dets)
                              /\ <<q, p>> \in Rivals(live, dets))
  BY MatchingPicks DEF Picked
<1>5. \A p, q \in E : /\ <<q, p>> \in Rivals(live, dets) <=> q[1] = p[1] \/ q[2] = p[2]
                      /\ <<q, p>> \in Sooner(live, dets) => ~Less(over(q), over(p))
  <2> SUFFICES ASSUME NEW p \in E, NEW q \in E
               PROVE  /\ <<q, p>> \in Rivals(live, dets) <=> q[1] = p[1] \/ q[2] = p[2]
                      /\ <<q, p>> \in Sooner(live, dets) => ~Less(over(q), over(p))
    OBVIOUS
  <2>1. over(p) \in Fraction /\ over(q) \in Fraction
    BY <1>3, IouIsFraction DEF Offered
  <2>2. <<q, p>> \in Sooner(live, dets) =>
          Less(over(p), over(q)) \/ Same(over(q), over(p))
    BY DEF Sooner, Before
  <2> HIDE DEF over
  <2>3. <<q, p>> \in Sooner(live, dets) => ~Less(over(q), over(p))
    BY <2>1, <2>2, FractionsRank
  <2> QED BY <2>3 DEF Rivals
<1>6. \A p, q \in pairs : p[1] = q[1] \/ p[2] = q[2] => p = q
  <2> SUFFICES ASSUME NEW p \in pairs, NEW q \in pairs,
                      p[1] = q[1] \/ p[2] = q[2], p # q
               PROVE  FALSE
    OBVIOUS
  <2>1. <<p, q>> \in Sooner(live, dets) \/ <<q, p>> \in Sooner(live, dets)
    BY <1>4, SoonerRanks DEF Ranks
  <2> QED BY <1>4, <1>5, <2>1
<1> HIDE DEF pairs, E, F
<1>7. ASSUME NEW d \in DOMAIN ids, NEW e \in DOMAIN ids, d # e
      PROVE  ids[d] # ids[e]
  <2>1. CASE d \in F /\ e \in F
    <3>1. d \in Nat /\ e \in Nat
      BY <1>3, <2>1
    <3>2. ids[d] \in Int /\ ids[e] \in Int
      BY <1>2, <2>1
    <3>3. CASE d < e
      BY <1>2, <2>1, <3>2, <3>3
    <3>4. CASE e < d
      BY <1>2, <2>1, <3>2, <3>4
    <3> QED BY <1>7, <3>1, <3>3, <3>4
  <2>2. CASE d \notin F /\ e \notin F
    <3>1. PICK p \in pairs, q \in pairs : p = <<ids[d], d>> /\ q = <<ids[e], e>>
      BY <1>2, <2>2
    <3>2. p[1] = ids[d] /\ p[2] = d /\ q[1] = ids[e] /\ q[2] = e
      BY <3>1
    <3> QED BY <1>6, <1>7, <3>2
  <2>3. \A b \in DOMAIN ids, c \in DOMAIN ids :
          b \in F /\ c \notin F => ids[b] # ids[c]
    <3> SUFFICES ASSUME NEW b \in F, NEW c \in (DOMAIN ids) \ F
                 PROVE  ids[b] # ids[c]
      OBVIOUS
    <3>1. <<ids[c], c>> \in E
      BY <1>2, <1>4
    <3>2. ids[c] \in DOMAIN live
      BY <1>3, <3>1
    <3>3. ids[c] < next /\ ids[c] \in Nat
      BY <1>3, <3>2
    <3>4. ids[b] >= next /\ ids[b] \in Int
      BY <1>2
    <3> QED BY <3>3, <3>4
  <2> QED BY <2>1, <2>2, <2>3
<1>8. ASSUME NEW d \in DOMAIN ids
      PROVE  ids[d] \in DOMAIN live \/ ids[d] >= next
  <2>1. CASE d \in F
    BY <1>2, <2>1
  <2>2. CASE d \notin F
    <3>1. <<ids[d], d>> \in E
      BY <1>2, <1>4, <2>2
    <3> QED BY <1>3, <3>1
  <2> QED BY <2>1, <2>2
<1>9. ASSUME NEW i \in DOMAIN live, NEW d \in DOMAIN dets,
             ~Less(Iou(live[i].box, dets[d]), Threshold), ids[d] # i
      PROVE  \/ /\ ids[d] \in DOMAIN live
                /\ ~Less(Iou(live[ids[d]].box, dets[d]), Iou(live[i].box, dets[d]))
             \/ \E e \in DOMAIN ids :
                  ids[e] = i /\ ~Less(Iou(live[i].box, dets[e]), Iou(live[i].box, dets[d]))
  <2>1. <<i, d>> \in E
    BY <1>9 DEF Eligible, E
  <2>2. \A p \in pairs : p[2] \in DOMAIN dets \ F /\ p = <<ids[p[2]], p[2]>>
    <3> SUFFICES ASSUME NEW p \in pairs
                 PROVE  p[2] \in DOMAIN dets \ F /\ p = <<ids[p[2]], p[2]>>
      OBVIOUS
    <3>1. p[2] \in DOMAIN dets \ F
      BY <1>3, <1>4
    <3>2. <<ids[p[2]], p[2]>> \in pairs
      BY <1>2, <3>1
    <3> QED BY <1>6, <3>1, <3>2
  <2>3. <<i, d>> \notin pairs
    BY <1>9, <2>2
  <2>4. PICK q \in pairs : /\ <<q, <<i, d>>>> \in Sooner(live, dets)
                           /\ <<q, <<i, d>>>> \in Rivals(live, dets)
    BY <1>4, <2>1, <2>3
  <2>5. q \in E /\ q[1] \in DOMAIN live /\ q[2] \in DOMAIN dets /\ ids[q[2]] = q[1]
    BY <1>3, <1>4, <2>2
  <2>6. q[1] = i \/ q[2] = d
    BY <1>5, <2>1, <2>4, <2>5
  <2>7. ~Less(Iou(live[q[1]].box, dets[q[2]]), Iou(live[i].box, dets[d]))
    BY <1>5, <2>1, <2>4, <2>5
  <2>8. CASE q[1] = i
    BY <1>2, <2>5, <2>7, <2>8
  <2>9. CASE q[2] = d
    BY <1>2, <2>5, <2>7, <2>9
  <2> QED BY <2>6, <2>8, <2>9
<1> QED BY <1>1, <1>7, <1>8, <1>9 DEF Held

LEMMA SeenIs ==
  ASSUME NEW n \in Nat, NEW dets \in Seen(n)
  PROVE  /\ DOMAIN dets \subseteq Nat /\ IsFiniteSet(DOMAIN dets)
         /\ \A d \in DOMAIN dets : dets[d] \in Boxes
<1>1. PICK k \in 0..n : dets \in [1..k -> Boxes]
  BY DEF Seen
<1>2. IsFiniteSet(1..k)
  BY FS_Interval
<1> QED BY <1>1, <1>2

(* A finite set of numbers has a largest.                                  *)
LEMMA MaxIs ==
  ASSUME NEW S \in SUBSET Int, IsFiniteSet(S), S # {}
  PROVE  Max(S) \in S /\ \A x \in S : Max(S) >= x
<1> DEFINE R == {xy \in S \X S : xy[1] > xy[2]}
<1>1. \A x, y \in S : <<x, y>> \in R <=> x > y
  OBVIOUS
<1> HIDE DEF R
<1>2. Ranks(S, R)
  <2>1. \A x \in S : x \in Int
    OBVIOUS
  <2> QED BY <1>1, <2>1 DEF Ranks
<1>3. PICK w \in S : \A q \in S : q # w => <<w, q>> \in R
  <2>1. S \in SUBSET S
    OBVIOUS
  <2>2. /\ Best(R, S) \in S
        /\ \A q \in S : q # Best(R, S) => <<Best(R, S), q>> \in R
    BY <1>2, <2>1, BestIs
  <2> QED BY <2>2
<1>4. \A q \in S : w >= q
  <2> SUFFICES ASSUME NEW q \in S
               PROVE  w >= q
    OBVIOUS
  <2>1. w \in Int /\ q \in Int
    OBVIOUS
  <2>2. CASE q = w
    BY <2>1, <2>2
  <2>3. CASE q # w
    <3>1. w > q
      BY <1>1, <1>3, <2>3
    <3> QED BY <2>1, <3>1
  <2> QED BY <2>2, <2>3
<1> QED BY <1>4 DEF Max

TrackerInv == TrackerTypeOK /\ TracksHold

LEMMA InitTrackerInv == TrackerInit => TrackerInv
  BY TrackerAssumption DEF TrackerInit, TrackerInv, TrackerTypeOK, TracksHold

LEMMA UpdateKeeps ==
  ASSUME TrackerInv, NEW dets \in Seen(MaxSeen), NEW dt \in 1..(MaxLost + 1),
         Update(dets, dt)
  PROVE  TrackerInv'
<1> USE TrackerAssumption
<1>1. /\ nextId \in Nat \ {0} /\ MaxIds \in Nat /\ DOMAIN tracks \subseteq 1..(nextId - 1)
      /\ \A i \in DOMAIN tracks : tracks[i].box \in Boxes /\ tracks[i].age \in 0..MaxLost
  BY DEF TrackerInv, TrackerTypeOK
<1>2. PICK live : live = Live(tracks, dt)
  OBVIOUS
<1>3. /\ DOMAIN live \subseteq DOMAIN tracks
      /\ \A i \in DOMAIN live : live[i].box \in Boxes /\ live[i].age \in 0..MaxLost
  <2>1. dt \in Nat /\ MaxLost \in Nat
    OBVIOUS
  <2>2. ASSUME NEW i \in DOMAIN live
        PROVE  /\ i \in DOMAIN tracks /\ tracks[i].age + dt <= MaxLost
               /\ live[i] = [box |-> tracks[i].box, age |-> tracks[i].age + dt]
    BY <1>2, <2>2 DEF Live
  <2>3. \A i \in DOMAIN live : live[i].box \in Boxes /\ live[i].age \in 0..MaxLost
    <3> SUFFICES ASSUME NEW i \in DOMAIN live
                 PROVE  live[i].box \in Boxes /\ live[i].age \in 0..MaxLost
      OBVIOUS
    <3>1. tracks[i].box \in Boxes /\ tracks[i].age \in 0..MaxLost
      BY <1>1, <2>2
    <3>2. live[i].box = tracks[i].box /\ live[i].age = tracks[i].age + dt
      BY <2>2
    <3>3. tracks[i].age + dt <= MaxLost
      BY <2>2
    <3> QED BY <2>1, <3>1, <3>2, <3>3
  <2> QED BY <2>2, <2>3
<1>4. PICK ids : ids = Given(live, dets, nextId)
  OBVIOUS
<1>5. PICK seen : seen = {ids[d] : d \in DOMAIN dets}
  OBVIOUS
<1>6. /\ nextId' = Max({nextId} \cup {i + 1 : i \in seen})
      /\ nextId' <= MaxIds + 1
      /\ tracks' = [i \in (DOMAIN live) \cup seen |->
                      IF i \in seen
                      THEN [box |-> dets[CHOOSE d \in DOMAIN dets : ids[d] = i], age |-> 0]
                      ELSE live[i]]
      /\ shown' = ids
      /\ before' = [dets |-> dets, live |-> live, next |-> nextId]
  BY <1>2, <1>4, <1>5 DEF Update
<1>7. /\ DOMAIN dets \subseteq Nat /\ IsFiniteSet(DOMAIN dets)
      /\ \A d \in DOMAIN dets : dets[d] \in Boxes
  <2>1. MaxSeen \in Nat
    OBVIOUS
  <2> QED BY <2>1, SeenIs
<1>8. Offered(live, dets)
  <2>1. DOMAIN live \subseteq 1..(nextId - 1)
    BY <1>1, <1>3
  <2>2. DOMAIN live \subseteq Nat
    BY <1>1, <2>1
  <2>3. IsFiniteSet(1..(nextId - 1))
    <3>1. PICK n \in Int : n = nextId - 1
      BY <1>1
    <3>2. 1 \in Int
      OBVIOUS
    <3>3. IsFiniteSet(1..n)
      BY <3>2, FS_Interval
    <3> QED BY <3>1, <3>3
  <2>4. IsFiniteSet(DOMAIN live)
    BY <2>1, <2>3, FS_Subset
  <2>5. Boxes \subseteq Corners
    BY DEF Corners
  <2> QED BY <1>3, <1>7, <2>2, <2>4, <2>5 DEF Offered
<1>9. Held(live, dets, nextId, ids)
  <2>1. \A i \in DOMAIN live : i < nextId
    BY <1>1, <1>3
  <2> QED BY <1>1, <1>4, <1>8, <2>1, GivenHolds
<1>10. TracksHold'
  <2>1. before'.dets = dets /\ before'.live = live /\ before'.next = nextId
    BY <1>6
  <2> QED BY <1>6, <1>9, <2>1 DEF TracksHold, Held
<1>11. PICK top \in Nat : \A i \in seen : i \in 1..top
  <2>1. /\ DOMAIN ids = DOMAIN dets
        /\ \A d \in DOMAIN dets \ Fresh(live, dets) :
             <<ids[d], d>> \in Matching(live, dets)
        /\ \A d \in Fresh(live, dets) :
             ids[d] \in nextId..(nextId + Cardinality(DOMAIN dets))
    BY <1>1, <1>4, <1>8, IdsAreGiven
  <2>2. PICK m \in Nat : m = Cardinality(DOMAIN dets)
    BY <1>7, FS_CardinalityType
  <2>3. ASSUME NEW d \in DOMAIN dets
        PROVE  ids[d] \in 1..(nextId + m)
    <3>1. CASE d \in Fresh(live, dets)
      <4>1. ids[d] \in nextId..(nextId + m)
        BY <2>1, <2>2, <3>1
      <4> QED BY <1>1, <4>1
    <3>2. CASE d \notin Fresh(live, dets)
      <4>1. <<ids[d], d>> \in Eligible(live, dets)
        BY <1>8, <2>1, <3>2, MatchingPicks DEF Picked
      <4>2. ids[d] \in 1..(nextId - 1)
        BY <1>1, <1>3, <4>1 DEF Eligible
      <4> QED BY <1>1, <4>2
    <3> QED BY <3>1, <3>2
  <2>4. nextId + m \in Nat
    BY <1>1
  <2> QED BY <1>5, <2>3, <2>4
<1>12. /\ nextId' \in Nat /\ nextId' >= nextId
       /\ \A i \in seen : i \in Nat \ {0} /\ i < nextId'
  <2>1. PICK S : S = {nextId} \cup {i + 1 : i \in seen}
    OBVIOUS
  <2>2. \A x \in S : x \in 0..(nextId + top + 1)
    BY <1>1, <1>11, <2>1
  <2>3. S \in SUBSET Int /\ S \subseteq 0..(nextId + top + 1)
    BY <2>2
  <2>4. IsFiniteSet(S)
    <3>1. nextId + top + 1 \in Int
      BY <1>1
    <3>2. IsFiniteSet(0..(nextId + top + 1))
      BY <3>1, FS_Interval
    <3> QED BY <2>3, <3>2, FS_Subset
  <2>5. nextId \in S /\ \A i \in seen : i + 1 \in S
    BY <2>1
  <2>6. Max(S) \in S /\ \A x \in S : Max(S) >= x
    BY <2>3, <2>4, <2>5, MaxIs
  <2>7. nextId' = Max(S)
    BY <1>6, <2>1
  <2>8. PICK n : n = nextId'
    OBVIOUS
  <2>9. n \in Nat /\ n >= nextId /\ \A i \in seen : n >= i + 1
    BY <2>2, <2>5, <2>6, <2>7, <2>8
  <2> QED BY <1>11, <2>8, <2>9
<1>13. TrackerTypeOK'
  <2>1. nextId' \in 1..(MaxIds + 1)
    BY <1>1, <1>6, <1>12
  <2>2. DOMAIN tracks' \subseteq 1..(nextId' - 1)
    <3>1. DOMAIN tracks' = (DOMAIN live) \cup seen
      BY <1>6
    <3>2. \A i \in (DOMAIN live) \cup seen : i \in Nat \ {0} /\ i < nextId'
      BY <1>1, <1>3, <1>12
    <3> QED BY <1>12, <3>1, <3>2
  <2>3. ASSUME NEW i \in DOMAIN tracks'
        PROVE  tracks'[i].box \in Boxes /\ tracks'[i].age \in 0..MaxLost
    <3>1. CASE i \in seen
      <4>1. PICK d \in DOMAIN dets : d = CHOOSE e \in DOMAIN dets : ids[e] = i
        BY <1>5, <3>1
      <4>2. tracks'[i] = [box |-> dets[d], age |-> 0]
        BY <1>6, <3>1, <4>1
      <4> QED BY <1>7, <4>2
    <3>2. CASE i \notin seen
      <4>1. i \in DOMAIN live /\ tracks'[i] = live[i]
        BY <1>6, <3>2
      <4> QED BY <1>3, <4>1
    <3> QED BY <3>1, <3>2
  <2> QED BY <2>1, <2>2, <2>3 DEF TrackerTypeOK
<1> QED BY <1>10, <1>13 DEF TrackerInv

(* A frame names each of its boxes once, by a live track or by an id       *)
(* nobody has had, and greedy matching never leaves a box without a track  *)
(* that overlaps it enough unless one of the two has a partner at least as *)
(* good (tracker.py, update); for any boxes, threshold and number of them. *)
THEOREM IdsAreKept == TrackerSpec => []TracksHold
<1>1. TrackerInv /\ [TrackerNext]_trackerVars => TrackerInv'
  <2>1. CASE TrackerNext
    BY <2>1, UpdateKeeps DEF TrackerNext
  <2>2. CASE UNCHANGED trackerVars
    BY <2>2 DEF trackerVars, TrackerInv, TrackerTypeOK, TracksHold
  <2> QED BY <2>1, <2>2
<1>2. TrackerInv => TracksHold
  BY DEF TrackerInv
<1> QED BY InitTrackerInv, <1>1, <1>2, PTL DEF TrackerSpec

-----------------------------------------------------------------------------
(* The network's boxes.                                                    *)

LEMMA DivisionIs ==
  ASSUME NEW n \in Int, NEW d \in Nat, d > 0
  PROVE  /\ n \div d \in Int /\ n % d \in Int
         /\ 0 <= n % d /\ n % d < d
         /\ n = d * (n \div d) + (n % d)
OBVIOUS

(* Round is off by a half at most.                                         *)
LEMMA RoundIs ==
  ASSUME NEW n \in Nat, NEW d \in Nat, d > 0
  PROVE  /\ Round(n, d) \in Int
         /\ 2 * (Round(n, d) * d) <= 2 * n + d
         /\ 2 * n <= 2 * (Round(n, d) * d) + d
<1>1. PICK q \in Int, m \in Int :
        q = n \div d /\ m = n % d /\ 0 <= m /\ m < d /\ n = d * q + m
  BY DivisionIs
<1>2. PICK p \in Int : p = d * q
  OBVIOUS
<1>3. (q + 1) * d = p + d /\ q * d = p
  BY <1>2
<1>4. CASE 2 * m > d \/ (2 * m = d /\ q % 2 = 1)
  <2>1. Round(n, d) = q + 1
    BY <1>1, <1>4 DEF Round
  <2> QED BY <1>1, <1>2, <1>3, <1>4, <2>1
<1>5. CASE ~(2 * m > d \/ (2 * m = d /\ q % 2 = 1))
  <2>1. Round(n, d) = q
    BY <1>1, <1>5 DEF Round
  <2>2. 2 * m <= d
    BY <1>1, <1>5
  <2> QED BY <1>1, <1>2, <1>3, <2>1, <2>2
<1> QED BY <1>4, <1>5

(* The frame's size on the canvas: at least a pixel, and otherwise within  *)
(* half a pixel of the source's share of the side.                         *)
LEMMA FittedIs ==
  ASSUME NEW src \in Sources, NEW axis \in {1, 2}
  PROVE  LET F == Fitted(src, axis)
             L == LongSide(src)
         IN  /\ F \in Nat /\ F >= 1 /\ L \in Nat /\ L > 0 /\ Pad(src, axis) \in Int
             /\ src[axis] \in Nat /\ src[axis] > 0
             /\ 2 * (src[axis] * Side) <= 2 * (F * L) + L
             /\ \/ 2 * (F * L) <= 2 * (src[axis] * Side) + L
                \/ F = 1 /\ 2 * (src[axis] * Side) <= L
<1>1. src[1] \in Nat /\ src[1] > 0 /\ src[2] \in Nat /\ src[2] > 0 /\ Side \in Nat
  BY VisionAssumption
<1>2. LongSide(src) \in Nat /\ LongSide(src) > 0
  BY <1>1 DEF LongSide, AtLeast
<1>3. src[axis] \in Nat /\ src[axis] > 0
  BY <1>1
<1>4. PICK L \in Nat : L = LongSide(src) /\ L > 0
  BY <1>2
<1>5. PICK n \in Nat : n = src[axis] * Side
  BY <1>1, <1>3
<1>6. PICK r \in Int : /\ r = Round(n, L)
                       /\ 2 * (r * L) <= 2 * n + L
                       /\ 2 * n <= 2 * (r * L) + L
  BY <1>4, RoundIs
<1>7. PICK F \in Nat : F = Fitted(src, axis) /\ F = IF 1 > r THEN 1 ELSE r
  BY <1>4, <1>5, <1>6 DEF Fitted, AtLeast
<1>8. Pad(src, axis) \in Int
  <2>1. Side - F \in Int
    BY <1>1
  <2>2. \A g \in Int : g \div 2 \in Int
    OBVIOUS
  <2>3. (Side - F) \div 2 \in Int
    BY <2>1, <2>2
  <2> QED BY <1>7, <2>3 DEF Pad
<1>9. CASE r >= 1
  BY <1>3, <1>4, <1>5, <1>6, <1>7, <1>8, <1>9
<1>10. CASE r < 1
  <2>1. F = 1
    BY <1>6, <1>7, <1>10
  <2>2. r * L <= 0
    BY <1>4, <1>6, <1>10
  <2>3. PICK p \in Int : p = r * L
    BY <1>6
  <2>4. 2 * n <= L
    BY <1>4, <1>5, <1>6, <2>2, <2>3
  <2> QED BY <1>3, <1>4, <1>5, <1>7, <1>8, <2>1, <2>4
<1> QED BY <1>6, <1>9, <1>10

(* The two letterboxes, of scalars: the inner half pixels put back against *)
(* what the frame covers of them.                                          *)
LEMMA ProductsOf ==
  ASSUME NEW x \in Int, NEW y \in Int, NEW k \in Nat
  PROVE  /\ x * k \in Int
         /\ x <= y => x * k <= y * k
         /\ x < y /\ k > 0 => x * k < y * k
         /\ x >= 0 => x * k >= 0
OBVIOUS

LEMMA SharedIsNear ==
  ASSUME NEW inner \in Int, NEW F \in Nat, F >= 1, NEW L \in Nat, L > 0,
         NEW D \in Nat, D > 0, D <= 2 * (F * L) + L,
         2 * (F * L) <= D + L \/ (F = 1 /\ D <= L)
  PROVE  LET C == Clamp(inner, 0, 2 * F)
             a == Clamp(inner * L, 0, D)
             off == a * 2 * F - C * D
         IN  off <= D /\ -off <= D
<1>1. PICK p \in Int : p = inner * L
  BY ProductsOf
<1>2. PICK q \in Int : q = F * L
  BY ProductsOf
<1>3. PICK a \in Int : a = Clamp(inner * L, 0, D) /\ a = IF p < D THEN (IF p < 0 THEN 0 ELSE p) ELSE D
  BY <1>1 DEF Clamp, AtLeast, AtMost
<1>4. PICK C \in Int : /\ C = Clamp(inner, 0, 2 * F)
                       /\ C = IF inner < 2 * F THEN (IF inner < 0 THEN 0 ELSE inner) ELSE 2 * F
  BY DEF Clamp, AtLeast, AtMost
<1>5. PICK off \in Int : off = a * 2 * F - C * D
  <2>1. PICK u \in Int, v \in Int : u = a * 2 * F /\ v = C * D
    OBVIOUS
  <2>2. u - v \in Int
    OBVIOUS
  <2> QED BY <2>1, <2>2
<1>6. off <= D /\ -off <= D
  <2>1. CASE inner <= 0
    <3>1. p <= 0 /\ C = 0
      BY <1>1, <1>4, <2>1, ProductsOf
    <3>2. a = 0
      BY <1>3, <3>1
    <3> QED BY <1>5, <3>1, <3>2
  <2>2. CASE inner > 0 /\ p >= D /\ inner >= 2 * F
    <3>1. a = D /\ C = 2 * F
      BY <1>3, <1>4, <2>2
    <3> QED BY <1>5, <3>1
  <2>3. CASE inner > 0 /\ p >= D /\ inner < 2 * F
    <3>1. a = D /\ C = inner
      BY <1>3, <1>4, <2>3
    <3>2. inner >= 2 * F - 1
      <4>1. CASE F = 1
        BY <2>3, <4>1
      <4>2. CASE 2 * q <= D + L
        <5>1. (2 * F - 2) * L = 2 * q - 2 * L
          BY <1>2
        <5>2. inner > 2 * F - 2
          <6>1. SUFFICES ASSUME inner <= 2 * F - 2
                         PROVE  FALSE
            BY <2>3
          <6>2. inner * L <= (2 * F - 2) * L
            BY <6>1, ProductsOf
          <6> QED BY <1>1, <2>3, <4>2, <5>1, <6>2
        <5> QED BY <5>2
      <4> QED BY <1>2, <4>1, <4>2
    <3>3. PICK gap \in Int : gap = 2 * F - inner /\ 0 <= gap /\ gap <= 1
      BY <2>3, <3>2
    <3>4. off = gap * D
      BY <1>5, <3>1, <3>3
    <3>5. gap = 0 \/ gap = 1
      BY <3>3
    <3> QED BY <3>4, <3>5
  <2>4. CASE inner > 0 /\ p < D /\ inner >= 2 * F
    <3>1. a = p /\ C = 2 * F
      BY <1>1, <1>3, <1>4, <2>4, ProductsOf
    <3>2. 2 * F * L <= p
      BY <1>1, <2>4, ProductsOf
    <3>3. 2 * q <= p
      BY <1>2, <3>2
    <3>4. PICK gap \in Int : gap = D - p /\ 0 <= gap /\ gap <= L
      BY <2>4, <1>2, <3>3
    <3>5. off = -(gap * 2 * F)
      BY <1>5, <3>1, <3>4
    <3>6. gap * (2 * F) <= L * (2 * F)
      BY <3>4, ProductsOf
    <3>7. L * (2 * F) = 2 * q /\ gap * (2 * F) = gap * 2 * F
      BY <1>2, <3>4
    <3>8. gap * (2 * F) >= 0
      BY <3>4, ProductsOf
    <3>9. PICK g \in Int : g = gap * (2 * F)
      BY <3>4
    <3> QED BY <2>4, <3>3, <3>5, <3>6, <3>7, <3>8, <3>9
  <2>5. CASE inner > 0 /\ p < D /\ inner < 2 * F
    <3>1. a = p /\ C = inner
      BY <1>1, <1>3, <1>4, <2>5, ProductsOf
    <3>2. L <= p
      <4>1. 1 * L <= inner * L
        BY <2>5, ProductsOf
      <4> QED BY <1>1, <4>1
    <3>3. PICK gap \in Int : gap = 2 * q - D /\ gap <= L /\ -L <= gap
      <4>1. D <= 2 * q + L /\ 2 * q <= D + L
        BY <1>2, <2>5, <3>2
      <4>2. 2 * q - D \in Int /\ 2 * q - D <= L /\ -L <= 2 * q - D
        BY <4>1
      <4> QED BY <4>2
    <3>4. off = inner * gap
      <4>1. p * 2 * F = inner * (2 * q)
        BY <1>1, <1>2
      <4> QED BY <1>5, <3>1, <3>3, <4>1
    <3>5. gap * inner <= L * inner /\ (-L) * inner <= gap * inner
      BY <2>5, <3>3, ProductsOf
    <3>6. inner * gap = gap * inner /\ L * inner = p /\ (-L) * inner = -p
      BY <1>1, <3>3
    <3>7. PICK g \in Int : g = gap * inner
      BY <3>3
    <3> QED BY <2>5, <3>4, <3>5, <3>6, <3>7
  <2> QED BY <1>1, <2>1, <2>2, <2>3, <2>4, <2>5
<1> QED BY <1>3, <1>4, <1>5, <1>6

(* A box of which more than half a pixel is covered keeps some width.      *)
LEMMA SharedKeepsWidth ==
  ASSUME NEW v \in Int, NEW w \in Int, NEW F \in Nat, F >= 1, NEW L \in Nat, L > 0,
         NEW D \in Nat, D > 0,
         2 * (F * L) <= D + L \/ (F = 1 /\ D <= L),
         Clamp(w, 0, 2 * F) - Clamp(v, 0, 2 * F) > 1
  PROVE  Clamp(v * L, 0, D) < Clamp(w * L, 0, D)
<1>1. /\ \A x \in Int : Clamp(x, 0, 2 * F)
                          = IF x < 2 * F THEN (IF x < 0 THEN 0 ELSE x) ELSE 2 * F
      /\ \A x \in Int : Clamp(x, 0, D) = IF x < D THEN (IF x < 0 THEN 0 ELSE x) ELSE D
  BY DEF Clamp, AtLeast, AtMost
<1>2. v < w /\ w > 1 /\ v < 2 * F - 1
  BY <1>1
<1>3. PICK p \in Int, q \in Int, r \in Int : p = v * L /\ q = w * L /\ r = F * L
  BY ProductsOf
<1>4. p < q
  BY <1>2, <1>3, ProductsOf
<1>5. q > 0
  <2>1. 0 * L < w * L
    BY <1>2, ProductsOf
  <2> QED BY <1>3, <2>1
<1>6. p < D
  <2>1. CASE v <= 0
    <3>1. v * L <= 0 * L
      BY <2>1, ProductsOf
    <3> QED BY <1>3, <3>1
  <2>2. CASE v > 0
    <3>1. F # 1
      BY <1>2, <2>2
    <3>2. 2 * r <= D + L
      BY <1>3, <3>1
    <3>3. v * L <= (2 * F - 2) * L
      BY <1>2, ProductsOf
    <3>4. (2 * F - 2) * L = 2 * r - 2 * L
      BY <1>3
    <3> QED BY <1>3, <3>2, <3>3, <3>4
  <2> QED BY <2>1, <2>2
<1>7. Clamp(p, 0, D) < Clamp(q, 0, D)
  BY <1>1, <1>4, <1>5, <1>6
<1> QED BY <1>3, <1>7

(* With a scale of its own, an axis is exact.                              *)
LEMMA FitIsExact ==
  ASSUME NEW x \in Int, NEW F \in Nat, NEW s \in Nat, s > 0
  PROVE  Clamp(x * s, 0, 2 * F * s) = Clamp(x, 0, 2 * F) * s
<1>1. \A z \in Int, y \in Nat :
        Clamp(z, 0, y) = IF z < y THEN (IF z < 0 THEN 0 ELSE z) ELSE y
  BY DEF Clamp, AtLeast, AtMost
<1>2. PICK n \in Nat : n = 2 * F
  OBVIOUS
<1>3. PICK p \in Int, q \in Nat : p = x * s /\ q = n * s
  BY ProductsOf
<1>4. CASE x < 0
  <2>1. x * s < 0 * s
    BY <1>4, ProductsOf
  <2>2. p < 0
    BY <1>3, <2>1
  <2>3. Clamp(p, 0, q) = 0 /\ Clamp(x, 0, n) = 0
    BY <1>1, <1>4, <2>2
  <2> QED BY <1>2, <1>3, <2>3
<1>5. CASE x >= 0 /\ x < n
  <2>1. x * s < n * s /\ 0 <= x * s
    BY <1>5, ProductsOf
  <2>2. Clamp(p, 0, q) = p /\ Clamp(x, 0, n) = x
    BY <1>1, <1>3, <1>5, <2>1
  <2> QED BY <1>2, <1>3, <2>2
<1>6. CASE x >= n
  <2>1. n * s <= x * s
    BY <1>6, ProductsOf
  <2>2. Clamp(p, 0, q) = q /\ Clamp(x, 0, n) = n
    BY <1>1, <1>3, <1>6, <2>1
  <2> QED BY <1>2, <1>3, <2>2
<1> QED BY <1>2, <1>4, <1>5, <1>6

(* FrameNorm puts a coordinate where the canvas had it, up to half a pixel *)
(* of the model where one scale serves both axes.                          *)
Within(spot, F, C, slack) ==
  LET off == spot[1] * 2 * F - C * spot[2]
  IN off <= slack /\ -off <= slack

LEMMA FrameNormIsNear ==
  ASSUME NEW src \in Sources, NEW axis \in {1, 2}, NEW letterbox \in {"fit", "shared"},
         NEW v \in Int
  PROVE  LET spot == FrameNorm(src, letterbox, axis, v)
             F == Fitted(src, axis)
         IN  Within(spot, F, Clamp(v - 2 * Pad(src, axis), 0, 2 * F),
                    IF letterbox = "fit" THEN 0 ELSE spot[2])
<1>1. PICK F \in Nat, L \in Nat, s \in Nat, pad \in Int :
        /\ F = Fitted(src, axis) /\ L = LongSide(src) /\ s = src[axis]
        /\ pad = Pad(src, axis)
        /\ F >= 1 /\ L > 0 /\ s > 0 /\ 2 * (s * Side) <= 2 * (F * L) + L
        /\ 2 * (F * L) <= 2 * (s * Side) + L \/ (F = 1 /\ 2 * (s * Side) <= L)
  BY FittedIs
<1>2. PICK inner \in Int : inner = v - 2 * pad
  OBVIOUS
<1>3. PICK spot : spot = FrameNorm(src, letterbox, axis, v)
  OBVIOUS
<1>4. PICK C \in Int : C = Clamp(inner, 0, 2 * F)
  BY DEF Clamp, AtLeast, AtMost
<1>5. CASE letterbox = "fit"
  <2>1. spot = <<Clamp(inner * s, 0, 2 * F * s), 2 * F * s>>
    BY <1>1, <1>2, <1>3, <1>5 DEF FrameNorm
  <2>2. spot[1] = C * s /\ spot[2] = 2 * F * s
    BY <1>1, <1>4, <2>1, FitIsExact
  <2>3. spot[1] * 2 * F - C * spot[2] = 0
    <3>1. C * s * 2 * F - C * (2 * F * s) = 0
      OBVIOUS
    <3> QED BY <2>2, <3>1
  <2>4. Within(spot, F, C, 0)
    BY <2>3 DEF Within
  <2> QED BY <1>1, <1>2, <1>3, <1>4, <1>5, <2>4
<1>6. CASE letterbox = "shared"
  <2>1. Side \in Nat /\ Side > 0
    BY VisionAssumption
  <2>2. PICK D \in Nat : D = s * Side /\ D > 0
    <3>1. 0 * Side < s * Side /\ s * Side \in Int
      BY <1>1, <2>1, ProductsOf
    <3> QED BY <2>1, <3>1
  <2>3. 2 * Side * s = 2 * D
    BY <2>1, <2>2
  <2>4. spot = <<Clamp(inner * L, 0, 2 * D), 2 * D>>
    BY <1>1, <1>2, <1>3, <1>6, <2>3 DEF FrameNorm
  <2>5. PICK E \in Nat : E = 2 * D
    OBVIOUS
  <2>6. E > 0 /\ E <= 2 * (F * L) + L /\ (2 * (F * L) <= E + L \/ (F = 1 /\ E <= L))
    BY <1>1, <2>2, <2>5
  <2>7. spot[1] = Clamp(inner * L, 0, E) /\ spot[2] = E
    BY <2>4, <2>5
  <2>8. /\ Clamp(inner * L, 0, E) * 2 * F - C * E <= E
        /\ -(Clamp(inner * L, 0, E) * 2 * F - C * E) <= E
    BY <1>1, <1>4, <2>6, SharedIsNear
  <2>9. Within(spot, F, C, spot[2])
    BY <2>7, <2>8 DEF Within
  <2> QED BY <1>1, <1>2, <1>3, <1>4, <1>6, <2>9
<1> QED BY <1>5, <1>6

(* What the frame has more of than that is not cut off.                    *)
LEMMA FrameNormKeeps ==
  ASSUME NEW src \in Sources, NEW axis \in {1, 2}, NEW letterbox \in {"fit", "shared"},
         NEW v \in Int, NEW w \in Int,
         LET low == Clamp(v - 2 * Pad(src, axis), 0, 2 * Fitted(src, axis))
             high == Clamp(w - 2 * Pad(src, axis), 0, 2 * Fitted(src, axis))
         IN high - low > IF letterbox = "fit" THEN 0 ELSE 1
  PROVE  /\ FrameNorm(src, letterbox, axis, v)[1] < FrameNorm(src, letterbox, axis, w)[1]
         /\ FrameNorm(src, letterbox, axis, v)[1] \in Int
         /\ FrameNorm(src, letterbox, axis, w)[1] \in Int
<1>1. PICK F \in Nat, L \in Nat, s \in Nat, pad \in Int :
        /\ F = Fitted(src, axis) /\ L = LongSide(src) /\ s = src[axis]
        /\ pad = Pad(src, axis)
        /\ F >= 1 /\ L > 0 /\ s > 0
        /\ 2 * (F * L) <= 2 * (s * Side) + L \/ (F = 1 /\ 2 * (s * Side) <= L)
  BY FittedIs
<1>2. PICK a \in Int, b \in Int : a = v - 2 * pad /\ b = w - 2 * pad
  OBVIOUS
<1>3. PICK low \in Int, high \in Int :
        low = Clamp(a, 0, 2 * F) /\ high = Clamp(b, 0, 2 * F)
  BY DEF Clamp, AtLeast, AtMost
<1>4. high - low > IF letterbox = "fit" THEN 0 ELSE 1
  BY <1>1, <1>2, <1>3
<1>5. \A x \in Int, y \in Int : Clamp(x, 0, y) \in Int
  BY DEF Clamp, AtLeast, AtMost
<1>6. CASE letterbox = "fit"
  <2>1. /\ FrameNorm(src, letterbox, axis, v)[1] = Clamp(a * s, 0, 2 * F * s)
        /\ FrameNorm(src, letterbox, axis, w)[1] = Clamp(b * s, 0, 2 * F * s)
    BY <1>1, <1>2, <1>6 DEF FrameNorm
  <2>2. low < high
    BY <1>4, <1>6
  <2>3. Clamp(a * s, 0, 2 * F * s) < Clamp(b * s, 0, 2 * F * s)
    <3>1. Clamp(a * s, 0, 2 * F * s) = low * s /\ Clamp(b * s, 0, 2 * F * s) = high * s
      <4>1. s > 0
        BY <1>1
      <4>2. Clamp(a * s, 0, 2 * F * s) = Clamp(a, 0, 2 * F) * s
        BY <4>1, FitIsExact
      <4>3. Clamp(b * s, 0, 2 * F * s) = Clamp(b, 0, 2 * F) * s
        BY <4>1, FitIsExact
      <4> QED BY <1>3, <4>2, <4>3
    <3>2. low * s < high * s
      BY <1>1, <2>2, ProductsOf
    <3> QED BY <3>1, <3>2
  <2>4. a * s \in Int /\ b * s \in Int /\ 2 * F * s \in Int
    OBVIOUS
  <2> QED BY <1>5, <2>1, <2>3, <2>4
<1>7. CASE letterbox = "shared"
  <2>1. Side \in Nat /\ Side > 0
    BY VisionAssumption
  <2>2. PICK D \in Nat : D = s * Side /\ D > 0
    <3>1. 0 * Side < s * Side /\ s * Side \in Int
      BY <1>1, <2>1, ProductsOf
    <3> QED BY <2>1, <3>1
  <2>3. 2 * Side * s = 2 * D
    BY <2>1, <2>2
  <2>4. /\ FrameNorm(src, letterbox, axis, v)[1] = Clamp(a * L, 0, 2 * D)
        /\ FrameNorm(src, letterbox, axis, w)[1] = Clamp(b * L, 0, 2 * D)
    BY <1>1, <1>2, <1>7, <2>3 DEF FrameNorm
  <2>5. PICK E \in Nat : E = 2 * D /\ E > 0
    BY <2>2
  <2>6. 2 * (F * L) <= E + L \/ (F = 1 /\ E <= L)
    BY <1>1, <2>2, <2>5
  <2>7. Clamp(b, 0, 2 * F) - Clamp(a, 0, 2 * F) > 1
    BY <1>3, <1>4, <1>7
  <2>8. Clamp(a * L, 0, E) < Clamp(b * L, 0, E)
    BY <1>1, <2>5, <2>6, <2>7, SharedKeepsWidth
  <2>9. a * L \in Int /\ b * L \in Int
    OBVIOUS
  <2> QED BY <1>5, <2>4, <2>5, <2>8, <2>9
<1> QED BY <1>6, <1>7

-----------------------------------------------------------------------------
(* The threshold and the tensors.                                          *)

(* The byte threshold drops no anchor that the exact one keeps.            *)
LEMMA PassingIsConfident ==
  ASSUME NEW level \in Levels, NEW quantized \in BOOLEAN
  PROVE  Passing(level, quantized) <=> Confident(level)
<1>1. /\ level \in Nat /\ Zero \in Int
      /\ Scale[1] \in Nat /\ Scale[1] > 0 /\ Scale[2] \in Nat /\ Scale[2] > 0
      /\ Conf[1] \in Nat /\ Conf[2] \in Nat /\ Conf[2] > 0
  BY VisionAssumption
<1>2. PICK n \in Nat : n = Conf[1] * Scale[2]
  BY <1>1
<1>3. PICK d \in Nat : d = Conf[2] * Scale[1] /\ d > 0
  <2>1. 0 * Scale[1] < Conf[2] * Scale[1] /\ Conf[2] * Scale[1] \in Int
    BY <1>1, ProductsOf
  <2> QED BY <1>1, <2>1
<1>4. PICK q \in Int, m \in Int : q = n \div d /\ n = d * q + m /\ m >= 0
  <2>1. d > 0 /\ n \in Int
    BY <1>3
  <2>2. /\ n \div d \in Int /\ n % d \in Int /\ 0 <= n % d
        /\ n = d * (n \div d) + (n % d)
    BY <2>1, DivisionIs
  <2> QED BY <2>2
<1>5. PICK gap \in Int : gap = level - Zero
  BY <1>1
<1>6. Confident(level) <=> gap * d >= n
  <2>1. gap * Scale[1] * Conf[2] = gap * d
    BY <1>1, <1>3
  <2> QED BY <1>2, <1>5, <2>1 DEF Confident
<1>7. ASSUME Confident(level)
      PROVE  level >= LowestLevel
  <2>1. gap >= q
    <3>1. SUFFICES ASSUME gap < q
                   PROVE  FALSE
      BY <1>4
    <3>2. gap * d < q * d /\ q * d = d * q
      BY <1>3, <3>1, ProductsOf
    <3>3. PICK u \in Int, v \in Int : u = gap * d /\ v = d * q
      OBVIOUS
    <3> QED BY <1>4, <1>6, <1>7, <3>2, <3>3
  <2>2. LowestLevel = AtLeast(0, Zero + q)
    BY <1>2, <1>3, <1>4 DEF LowestLevel
  <2> QED BY <1>1, <1>5, <2>1, <2>2 DEF AtLeast
<1> QED BY <1>7 DEF Passing

(* A graph's tensors in order: each branch is read at its own grid and in  *)
(* its own layout.                                                         *)
ZooTensor(sums, last) ==
  LET each == IF sums THEN 3 ELSE 2
      channels == <<BoxChannels, Classes, 1>>
  IN [i \in 1..(3 * each) |->
        Tensor(Grids[((i - 1) \div each) + 1], channels[((i - 1) % each) + 1], last)]

LEMMA ZooPairsAre ==
  ASSUME NEW tensors \in ZooTensors, NEW b \in 1..3
  PROVE  ZooPairs(tensors)[b].grid = Grids[b] /\ ~ZooPairs(tensors)[b].misread
<1>1. PICK sums \in BOOLEAN, last \in BOOLEAN : tensors = ZooTensor(sums, last)
  <2>1. ZooTensors = {ZooTensor(s, l) : s \in BOOLEAN, l \in BOOLEAN}
    BY DEF ZooTensors, ZooTensor
  <2> QED BY <2>1
<1>2. PICK each \in {2, 3} : each = IF sums THEN 3 ELSE 2
  OBVIOUS
<1>3. PICK channels : channels = <<BoxChannels, Classes, 1>>
  OBVIOUS
<1>4. tensors = [i \in 1..(3 * each) |->
        Tensor(Grids[((i - 1) \div each) + 1], channels[((i - 1) % each) + 1], last)]
  BY <1>1, <1>2, <1>3 DEF ZooTensor
<1>5. Len(tensors) = 3 * each
  <2>1. 3 * each \in Nat
    OBVIOUS
  <2> QED BY <1>4, <2>1
<1>6. Len(tensors) \div 3 = each
  BY <1>2, <1>5
<1>7. PICK d \in Nat, c \in Nat : d = (each * (b - 1)) + 1 /\ c = (each * (b - 1)) + 2
  BY <1>2
<1>8. /\ d \in 1..(3 * each) /\ (d - 1) \div each = b - 1 /\ (d - 1) % each = 0
      /\ c \in 1..(3 * each) /\ (c - 1) \div each = b - 1 /\ (c - 1) % each = 1
  <2>1. b = 1 \/ b = 2 \/ b = 3
    OBVIOUS
  <2>2. CASE each = 2
    BY <1>7, <2>1, <2>2
  <2>3. CASE each = 3
    BY <1>7, <2>1, <2>3
  <2> QED BY <2>2, <2>3
<1>9. /\ tensors[d] = Tensor(Grids[b], BoxChannels, last)
      /\ tensors[c] = Tensor(Grids[b], Classes, last)
  <2>1. channels[0 + 1] = BoxChannels /\ channels[1 + 1] = Classes /\ (b - 1) + 1 = b
    BY <1>3
  <2> QED BY <1>4, <1>8, <2>1
<1>10. Grids[b] # BoxChannels
  BY VisionAssumption
<1>11. /\ tensors[d].last = last /\ tensors[c].last = last /\ tensors[c].channels = Classes
       /\ Shape(tensors[c])[IF last THEN 1 ELSE 2] = Grids[b]
       /\ ChannelsLast(tensors[d]) <=> last
  BY <1>9, <1>10 DEF Tensor, Shape, ChannelsLast
<1>12. ChannelsLast(tensors[d]) = last
  BY <1>11 DEF ChannelsLast
<1>13. PICK flag \in BOOLEAN :
         flag = (tensors[d].last # last \/ tensors[c].last # last
                 \/ tensors[c].channels # Classes)
  OBVIOUS
<1>14. flag = FALSE
  BY <1>11, <1>13
<1>15. ZooPairs(tensors)[b] =
         [dist |-> tensors[d], grid |-> Shape(tensors[c])[IF last THEN 1 ELSE 2],
          misread |-> flag]
  BY <1>6, <1>7, <1>12, <1>13 DEF ZooPairs
<1>16. ZooPairs(tensors)[b].misread = flag
  BY <1>15
<1> QED BY <1>11, <1>14, <1>15, <1>16

(* Tensors in any order are paired by their grids.                         *)
LEMMA SplitPairsAre ==
  ASSUME NEW tensors \in SplitTensors, NEW b \in 1..3
  PROVE  SplitPairs(tensors)[b].grid = Grids[b]
<1>1. PICK turn \in 1..6 :
        tensors = [i \in 1..6 |->
          LET k == ((i * turn) % 7) - 1
          IN Tensor(Grids[(k \div 2) + 1], IF k % 2 = 0 THEN BoxChannels ELSE Classes, TRUE)]
  BY DEF SplitTensors
<1>2. \A i \in 1..6 : (i * turn) % 7 \in 1..6
  <2>1. \A i \in 1..6 : i = 1 \/ i = 2 \/ i = 3 \/ i = 4 \/ i = 5 \/ i = 6
    OBVIOUS
  <2>2. turn = 1 \/ turn = 2 \/ turn = 3 \/ turn = 4 \/ turn = 5 \/ turn = 6
    OBVIOUS
  <2> QED BY <2>1, <2>2
<1>3. \A g \in 1..3 : \E i \in 1..6 : (i * turn) % 7 = 2 * g
  <2>1. turn = 1 \/ turn = 2 \/ turn = 3 \/ turn = 4 \/ turn = 5 \/ turn = 6
    OBVIOUS
  <2>2. \E i \in {1, 2, 3, 4, 5, 6} : (i * turn) % 7 = 2
    BY <2>1
  <2>3. \E i \in {1, 2, 3, 4, 5, 6} : (i * turn) % 7 = 4
    BY <2>1
  <2>4. \E i \in {1, 2, 3, 4, 5, 6} : (i * turn) % 7 = 6
    BY <2>1
  <2>5. 1..6 = {1, 2, 3, 4, 5, 6} /\ \A g \in 1..3 : g = 1 \/ g = 2 \/ g = 3
    OBVIOUS
  <2> QED BY <2>2, <2>3, <2>4, <2>5
<1>4. ASSUME NEW i \in 1..6, NEW g \in 1..3, (i * turn) % 7 = 2 * g
      PROVE  tensors[i].grid = Grids[g] /\ tensors[i].channels = Classes
  <2>2. PICK k \in Int : k = ((i * turn) % 7) - 1 /\ k = 2 * g - 1
    BY <1>4
  <2>3. tensors[i] = Tensor(Grids[(k \div 2) + 1], IF k % 2 = 0 THEN BoxChannels ELSE Classes, TRUE)
    BY <1>1, <2>2
  <2>4. k % 2 # 0 /\ (k \div 2) + 1 = g
    BY <2>2
  <2>5. tensors[i] = Tensor(Grids[g], Classes, TRUE)
    BY <2>3, <2>4
  <2> QED BY <2>5 DEF Tensor
<1>5. \A i \in 1..6 : tensors[i].grid \in {Grids[1], Grids[2], Grids[3]}
  <2>1. ASSUME NEW i \in 1..6
        PROVE  tensors[i].grid \in {Grids[1], Grids[2], Grids[3]}
    <3>1. PICK v \in 1..6 : v = (i * turn) % 7
      BY <1>2
    <3>2. (v - 1) \div 2 + 1 \in {1, 2, 3}
      OBVIOUS
    <3>3. tensors[i].grid = Grids[(v - 1) \div 2 + 1]
      BY <1>1, <3>1 DEF Tensor
    <3> QED BY <3>2, <3>3
  <2> QED BY <2>1
<1>6. DOMAIN tensors = 1..6
  BY <1>1
<1>7. PICK grids : grids = {tensors[i].grid : i \in DOMAIN tensors}
  OBVIOUS
<1>8. grids = {Grids[1], Grids[2], Grids[3]}
  <2>1. \A x \in grids : x \in {Grids[1], Grids[2], Grids[3]}
    BY <1>5, <1>6, <1>7
  <2>2. \A g \in 1..3 : Grids[g] \in grids
    BY <1>3, <1>4, <1>6, <1>7
  <2>3. Grids[1] \in grids /\ Grids[2] \in grids /\ Grids[3] \in grids
    BY <2>2
  <2> QED BY <2>1, <2>3
<1>9. /\ Grids[1] \in Nat /\ Grids[2] \in Nat /\ Grids[3] \in Nat
      /\ Grids[1] > Grids[2] /\ Grids[2] > Grids[3] /\ BoxChannels # Classes
  BY VisionAssumption
<1>10. /\ Cardinality({h \in grids : h > Grids[1]}) = 0
       /\ Cardinality({h \in grids : h > Grids[2]}) = 1
       /\ Cardinality({h \in grids : h > Grids[3]}) = 2
  <2>1. {h \in grids : h > Grids[1]} = {}
    BY <1>8, <1>9
  <2>2. {h \in grids : h > Grids[2]} = {} \cup {Grids[1]}
    BY <1>8, <1>9
  <2>3. {h \in grids : h > Grids[3]} = ({} \cup {Grids[1]}) \cup {Grids[2]}
    BY <1>8, <1>9
  <2>4. IsFiniteSet({}) /\ Cardinality({}) = 0
    BY FS_EmptySet
  <2>5. IsFiniteSet({} \cup {Grids[1]}) /\ Cardinality({} \cup {Grids[1]}) = 1
    BY <2>4, FS_AddElement
  <2>6. Cardinality(({} \cup {Grids[1]}) \cup {Grids[2]}) = 2
    <3>1. Grids[2] \notin {} \cup {Grids[1]}
      BY <1>9
    <3> QED BY <2>5, <3>1, FS_AddElement
  <2> QED BY <2>1, <2>2, <2>3, <2>4, <2>5, <2>6
<1>11. PICK nth : nth = CHOOSE g \in grids : Cardinality({h \in grids : h > g}) = b - 1
  OBVIOUS
<1>12. nth = Grids[b]
  <2>1. \A g \in grids : Cardinality({h \in grids : h > g}) = b - 1 <=> g = Grids[b]
    <3>1. b = 1 \/ b = 2 \/ b = 3
      OBVIOUS
    <3> QED BY <1>8, <1>9, <1>10, <3>1
  <2>2. Grids[b] \in grids
    BY <1>8
  <2> QED BY <1>11, <2>1, <2>2
<1>13. PICK slot : slot = CHOOSE i \in DOMAIN tensors :
          tensors[i].grid = nth /\ (tensors[i].channels = BoxChannels) = FALSE
  OBVIOUS
<1>14. tensors[slot].grid = Grids[b]
  <2>1. \E i \in DOMAIN tensors :
          tensors[i].grid = nth /\ (tensors[i].channels = BoxChannels) = FALSE
    BY <1>3, <1>4, <1>6, <1>9, <1>12
  <2> QED BY <1>12, <1>13, <2>1
<1>15. SplitPairs(tensors)[b].grid = tensors[slot].grid
  BY <1>7, <1>11, <1>13 DEF SplitPairs
<1> QED BY <1>14, <1>15

-----------------------------------------------------------------------------
(* The suppression.                                                        *)

Judged(cands) ==
  /\ IsFiniteSet(cands)
  /\ \A u \in cands : u.id \in Int /\ u.score \in Int
  /\ \A u, v \in cands : u.id = v.id => u = v

Ahead(cands) ==
  {uv \in cands \X cands :
     uv[1].score > uv[2].score \/ (uv[1].score = uv[2].score /\ uv[1].id > uv[2].id)}
Covering(cands) == {uv \in cands \X cands : Overlapping(uv[1].box, uv[2].box)}

LEMMA AheadRanks ==
  ASSUME NEW cands, Judged(cands)
  PROVE  Ranks(cands, Ahead(cands))
<1>1. \A u, v \in cands :
        <<u, v>> \in Ahead(cands) <=>
          u.score > v.score \/ (u.score = v.score /\ u.id > v.id)
  BY DEF Ahead
<1>2. \A u \in cands : u.id \in Int /\ u.score \in Int
  BY DEF Judged
<1>3. \A u, v \in cands : u # v => u.id # v.id
  BY DEF Judged
<1>4. \A u, v, w \in cands :
        <<u, v>> \in Ahead(cands) /\ <<v, w>> \in Ahead(cands) => <<u, w>> \in Ahead(cands)
  BY <1>1, <1>2
<1>5. \A u, v \in cands :
        u # v => <<u, v>> \in Ahead(cands) \/ <<v, u>> \in Ahead(cands)
  BY <1>1, <1>2, <1>3
<1>6. \A u \in cands : <<u, u>> \notin Ahead(cands)
  BY <1>1, <1>2
<1> QED BY <1>4, <1>5, <1>6 DEF Ranks

(* The loop of nms, as Suppressed has it.                                  *)
Keeps(cands, keep) ==
  LET first(u, v) == u.score > v.score \/ (u.score = v.score /\ u.id > v.id)
  IN keep = [S \in SUBSET cands |->
               IF S = {} THEN {}
               ELSE LET best == CHOOSE u \in S : \A v \in S \ {u} : first(u, v)
                    IN {best} \cup keep[{v \in S \ {best} : ~Overlapping(best.box, v.box)}]]

LEMMA KeepsIsGreedy ==
  ASSUME NEW cands, Judged(cands), NEW keep
  PROVE  Keeps(cands, keep) <=> Greedy(cands, Ahead(cands), Covering(cands), keep)
<1> DEFINE R == Ahead(cands)
           K == Covering(cands)
           first(u, v) == u.score > v.score \/ (u.score = v.score /\ u.id > v.id)
           head(S) == CHOOSE w \in S : \A q \in S \ {w} : first(w, q)
           tail(S) == {q \in S \ {head(S)} : ~Overlapping(head(S).box, q.box)}
           one == [S \in SUBSET cands |-> IF S = {} THEN {} ELSE {head(S)} \cup keep[tail(S)]]
           two == [S \in SUBSET cands |->
                     IF S = {} THEN {} ELSE {Best(R, S)} \cup keep[Rest(R, K, S)]]
<1>1. ASSUME NEW S \in SUBSET cands, S # {}
      PROVE  head(S) = Best(R, S) /\ tail(S) = Rest(R, K, S)
  <2>1. /\ Best(R, S) \in S
        /\ \A q \in S : q # Best(R, S) => <<Best(R, S), q>> \in R
    BY <1>1, AheadRanks, BestIs DEF Judged
  <2>2. \A p, q \in S : <<p, q>> \in R <=> first(p, q)
    BY DEF Ahead
  <2>3. \A q \in S \ {Best(R, S)} : first(Best(R, S), q)
    BY <2>1, <2>2
  <2>4. head(S) \in S /\ \A q \in S \ {head(S)} : first(head(S), q)
    <3>1. \E w \in S : \A q \in S \ {w} : first(w, q)
      BY <2>1, <2>3
    <3> HIDE DEF first
    <3> QED BY <3>1
  <2> HIDE DEF head, first
  <2>5. head(S) = Best(R, S)
    <3>1. Ranks(cands, R)
      BY AheadRanks
    <3> QED BY <2>1, <2>2, <2>4, <3>1 DEF Ranks
  <2>6. \A p, q \in S : <<p, q>> \in K <=> Overlapping(p.box, q.box)
    BY DEF Covering
  <2>7. \A q : q \in tail(S) <=> q \in Rest(R, K, S)
    BY <2>1, <2>5, <2>6 DEF Rest
  <2>8. tail(S) = Rest(R, K, S)
    <3> HIDE DEF tail
    <3> QED BY <2>7
  <2> QED BY <2>5, <2>8
<1>2. \A S \in SUBSET cands : one[S] = two[S]
  <2> HIDE DEF head, tail
  <2> QED BY <1>1
<1>3. one = two
  <2>1. one = [S \in SUBSET cands |-> one[S]] /\ two = [S \in SUBSET cands |-> two[S]]
    <3> HIDE DEF head, tail
    <3> QED OBVIOUS
  <2> HIDE DEF one, two
  <2> QED BY <1>2, <2>1
<1>4. Keeps(cands, keep) <=> keep = one
  BY DEF Keeps
<1>5. Greedy(cands, R, K, keep) <=> keep = two
  BY DEF Greedy
<1> HIDE DEF one, two
<1> QED BY <1>3, <1>4, <1>5

LEMMA SuppressedPicks ==
  ASSUME NEW cands, Judged(cands)
  PROVE  Picked(Ahead(cands), Covering(cands), cands, Suppressed(cands))
<1> DEFINE f == CHOOSE keep : Keeps(cands, keep)
<1>1. IsFiniteSet(cands) /\ Ranks(cands, Ahead(cands))
  BY AheadRanks DEF Judged
<1>2. \E keep : Keeps(cands, keep)
  BY <1>1, GreedyIsDefined, KeepsIsGreedy
<1>3. Keeps(cands, f)
  BY <1>2
<1>4. Suppressed(cands) = f[cands]
  BY DEF Suppressed, Keeps
<1> HIDE DEF f
<1>5. Greedy(cands, Ahead(cands), Covering(cands), f)
  BY <1>3, KeepsIsGreedy
<1>6. cands \in SUBSET cands
  OBVIOUS
<1> QED BY <1>1, <1>4, <1>5, <1>6, GreedyPicks

(* Which of two boxes is meant does not matter to their overlap.           *)
LEMMA OverlapsBoth ==
  ASSUME NEW p \in Corners, NEW q \in Corners
  PROVE  Overlapping(p, q) <=> Overlapping(q, p)
<1>1. /\ p[1] \in Int /\ p[2] \in Int /\ p[3] \in Int /\ p[4] \in Int
      /\ q[1] \in Int /\ q[2] \in Int /\ q[3] \in Int /\ q[4] \in Int
  BY DEF Corners
<1>2. \A u, v \in Int : /\ AtLeast(u, v) = AtLeast(v, u) /\ AtMost(u, v) = AtMost(v, u)
                        /\ AtLeast(u, v) \in Int /\ AtMost(u, v) \in Int
  BY DEF AtLeast, AtMost
<1> DEFINE side(r, s, i) == AtLeast(0, AtMost(r[i + 2], s[i + 2]) - AtLeast(r[i], s[i]))
           area(r) == AtLeast(0, r[3] - r[1]) * AtLeast(0, r[4] - r[2])
           inter(r, s) == side(r, s, 1) * side(r, s, 2)
<1>3. side(p, q, 1) = side(q, p, 1) /\ side(p, q, 2) = side(q, p, 2)
  <2>1. /\ AtMost(p[3], q[3]) = AtMost(q[3], p[3]) /\ AtLeast(p[1], q[1]) = AtLeast(q[1], p[1])
        /\ AtMost(p[4], q[4]) = AtMost(q[4], p[4]) /\ AtLeast(p[2], q[2]) = AtLeast(q[2], p[2])
    BY <1>1, <1>2
  <2>2. 1 + 2 = 3 /\ 2 + 2 = 4
    OBVIOUS
  <2> QED BY <2>1, <2>2
<1>4. area(p) \in Int /\ area(q) \in Int
  <2>1. /\ AtLeast(0, p[3] - p[1]) \in Int /\ AtLeast(0, p[4] - p[2]) \in Int
        /\ AtLeast(0, q[3] - q[1]) \in Int /\ AtLeast(0, q[4] - q[2]) \in Int
    <3>1. \A u, v \in Int : AtLeast(0, v - u) \in Int
      BY DEF AtLeast
    <3> QED BY <1>1, <3>1
  <2> QED BY <2>1
<1>5. inter(p, q) = inter(q, p)
  BY <1>3
<1>6. PICK n, a, b : n = inter(p, q) /\ n = inter(q, p) /\ a = area(p) /\ b = area(q)
  BY <1>5
<1>7. PICK sum : sum = a + b /\ sum = b + a
  BY <1>4, <1>6
<1>8. Overlap(p, q) = Overlap(q, p)
  <2>1. Overlap(p, q) = <<n, AtLeast(1, sum - n)>>
    BY <1>6, <1>7 DEF Overlap
  <2>2. Overlap(q, p) = <<n, AtLeast(1, sum - n)>>
    BY <1>6, <1>7 DEF Overlap
  <2> QED BY <2>1, <2>2
<1> QED BY <1>8 DEF Overlapping

-----------------------------------------------------------------------------
(* A frame.                                                                *)

Boxed(anchors, level, i) ==
  [id |-> i, score |-> level[i], box |-> BoxOf(anchors[i], Grids[anchors[i].branch])]
Anchored(anchors, level) ==
  {Boxed(anchors, level, i) : i \in {j \in 1..3 : Confident(level[j])}}

LEMMA ScoredAre ==
  ASSUME NEW anchors \in Views, NEW level \in [1..3 -> Levels], NEW grid,
         \A b \in 1..3 : grid[b] = Grids[b], NEW quantized \in BOOLEAN
  PROVE  Scored(anchors, level, grid, quantized) = Anchored(anchors, level)
<1>1. /\ DOMAIN anchors = 1..3
      /\ \A i \in 1..3 : anchors[i].branch \in 1..3
  BY VisionAssumption
<1>2. \A i \in 1..3 : Passing(level[i], quantized) <=> Confident(level[i])
  BY PassingIsConfident
<1>3. \A i \in 1..3 : grid[anchors[i].branch] = Grids[anchors[i].branch]
  BY <1>1
<1> QED BY <1>1, <1>2, <1>3 DEF Scored, Anchored, Boxed

LEMMA BoxOfIs ==
  ASSUME NEW anchors \in Views, NEW i \in 1..3
  PROVE  BoxOf(anchors[i], Grids[anchors[i].branch]) \in Corners
<1>1. anchors[i] \in [branch : 1..3, col : Nat, row : Nat, reach : [1..4 -> Nat]]
  BY VisionAssumption
<1>2. PICK a : a = anchors[i]
  OBVIOUS
<1>3. /\ a.branch \in 1..3 /\ a.col \in Nat /\ a.row \in Nat
      /\ a.reach[1] \in Nat /\ a.reach[2] \in Nat /\ a.reach[3] \in Nat /\ a.reach[4] \in Nat
  BY <1>1, <1>2
<1>4. Grids[a.branch] \in Nat /\ Grids[a.branch] > 0 /\ Side \in Nat
  BY <1>3, VisionAssumption
<1>5. PICK stride \in Int : stride = Side \div Grids[a.branch]
  BY <1>4, DivisionIs
<1>6. PICK c \in Int, r \in Int : c = 2 * a.col + 1 /\ r = 2 * a.row + 1
  BY <1>3
<1>7. /\ (c - 2 * a.reach[1]) * stride \in Int /\ (r - 2 * a.reach[2]) * stride \in Int
      /\ (c + 2 * a.reach[3]) * stride \in Int /\ (r + 2 * a.reach[4]) * stride \in Int
  BY <1>3
<1>8. BoxOf(a, Grids[a.branch]) =
        <<(c - 2 * a.reach[1]) * stride, (r - 2 * a.reach[2]) * stride,
          (c + 2 * a.reach[3]) * stride, (r + 2 * a.reach[4]) * stride>>
  BY <1>5, <1>6 DEF BoxOf
<1> QED BY <1>2, <1>7, <1>8 DEF Corners

LEMMA AnchoredAre ==
  ASSUME NEW anchors \in Views, NEW level \in [1..3 -> Levels]
  PROVE  /\ Judged(Anchored(anchors, level))
         /\ \A u \in Anchored(anchors, level) :
              /\ u.id \in 1..3 /\ u.score = level[u.id] /\ Confident(level[u.id])
              /\ u.box = BoxOf(anchors[u.id], Grids[anchors[u.id].branch])
         /\ \A i \in 1..3 : Confident(level[i]) =>
              \E u \in Anchored(anchors, level) : u.id = i
<1> DEFINE I == {j \in 1..3 : Confident(level[j])}
<1>1. \A u \in Anchored(anchors, level) : \E i \in I : u = Boxed(anchors, level, i)
  BY DEF Anchored
<1>2. \A i \in I : Boxed(anchors, level, i) \in Anchored(anchors, level)
  BY DEF Anchored
<1>3. \A i : /\ Boxed(anchors, level, i).id = i
             /\ Boxed(anchors, level, i).score = level[i]
             /\ Boxed(anchors, level, i).box = BoxOf(anchors[i], Grids[anchors[i].branch])
  BY DEF Boxed
<1>4. IsFiniteSet(Anchored(anchors, level))
  <2>1. PICK x, y, z : /\ x = Boxed(anchors, level, 1) /\ y = Boxed(anchors, level, 2)
                       /\ z = Boxed(anchors, level, 3)
    OBVIOUS
  <2>2. IsFiniteSet({} \cup {x})
    BY FS_EmptySet, FS_AddElement
  <2>3. IsFiniteSet(({} \cup {x}) \cup {y})
    BY <2>2, FS_AddElement
  <2>4. IsFiniteSet((({} \cup {x}) \cup {y}) \cup {z})
    BY <2>3, FS_AddElement
  <2>5. \A i \in I : i = 1 \/ i = 2 \/ i = 3
    OBVIOUS
  <2>6. Anchored(anchors, level) \in SUBSET ((({} \cup {x}) \cup {y}) \cup {z})
    BY <1>1, <2>1, <2>5
  <2> QED BY <2>4, <2>6, FS_Subset
<1>5. \A i \in 1..3 : level[i] \in Int
  <2>1. \A x \in Levels : x \in Int
    BY VisionAssumption
  <2> QED BY <2>1
<1>6. \A u \in Anchored(anchors, level) :
        /\ u.id \in I /\ u = Boxed(anchors, level, u.id) /\ u.score = level[u.id]
        /\ u.box = BoxOf(anchors[u.id], Grids[anchors[u.id].branch])
  <2> HIDE DEF I
  <2> QED BY <1>1, <1>3
<1>7. Judged(Anchored(anchors, level))
  <2>1. \A u \in Anchored(anchors, level) : u.id \in Int /\ u.score \in Int
    BY <1>5, <1>6
  <2>2. \A u, v \in Anchored(anchors, level) : u.id = v.id => u = v
    BY <1>6
  <2> QED BY <1>4, <2>1, <2>2 DEF Judged
<1>8. \A i \in 1..3 : Confident(level[i]) =>
        \E u \in Anchored(anchors, level) : u.id = i
  BY <1>2, <1>3
<1> QED BY <1>6, <1>7, <1>8

(* What a frame publishes of what the cut has left is what BoxesAreTrue    *)
(* says.                                                                   *)
LEMMA TakeIsTrue ==
  ASSUME NEW head \in {"whole", "branches", "split"},
         NEW letterbox \in {"fit", "shared"}, NEW src \in Sources,
         NEW anchors \in Views, NEW level \in [1..3 -> Levels],
         NEW T \in SUBSET Anchored(anchors, level),
         \A u \in T, v \in Anchored(anchors, level) \ T : u.score >= v.score,
         Take(head, letterbox, src, anchors, level, Anchored(anchors, level), T, FALSE)
  PROVE  BoxesAreTrue'
<1> DEFINE A == Anchored(anchors, level)
           S == Suppressed(T)
           P == Published(T, src, letterbox)
           box(i) == BoxOf(anchors[i], Grids[anchors[i].branch])
           on(i, side, axis) ==
             Clamp(box(i)[side] - 2 * Pad(src, axis), 0, 2 * Fitted(src, axis))
           slack == IF letterbox = "fit" THEN 0 ELSE 1
<1>1. /\ given'.head = head /\ given'.letterbox = letterbox /\ given'.src = src
      /\ given'.anchors = anchors /\ given'.level = level
      /\ given'.cut = A \ T /\ given'.misread = FALSE
  BY DEF Take
<1>2. given' # Nothing
  BY <1>1 DEF Nothing
<1>3. boxes' = {[id |-> u.id, at |-> InFrame(u.box, src, letterbox)] : u \in P}
  BY DEF Take
<1>4. /\ IsFiniteSet(A)
      /\ \A u \in A : /\ u.id \in 1..3 /\ u.id \in Int /\ u.score \in Int
                      /\ u.score = level[u.id] /\ Confident(level[u.id])
                      /\ u.box = box(u.id) /\ u.box \in Corners
      /\ \A u, v \in A : u.id = v.id => u = v
      /\ \A i \in 1..3 : Confident(level[i]) => \E u \in A : u.id = i
  BY AnchoredAre, BoxOfIs DEF Judged
<1>5. Judged(T)
  BY <1>4, FS_Subset DEF Judged
<1>6. /\ S \subseteq T
      /\ \A p \in T : p \in S <=>
           \A q \in S : ~(<<q, p>> \in Ahead(T) /\ <<q, p>> \in Covering(T))
  BY <1>5, SuppressedPicks DEF Picked
<1>7. \A u : u \in P <=> u \in S /\ ~CutOff(InFrame(u.box, src, letterbox))
  BY DEF Published
<1>8. \A u, v \in T : /\ <<u, v>> \in Covering(T) <=> Overlapping(u.box, v.box)
                      /\ <<u, v>> \in Ahead(T) => u.score >= v.score
                      /\ u # v => <<u, v>> \in Ahead(T) \/ <<v, u>> \in Ahead(T)
  <2>1. \A u, v \in T : <<u, v>> \in Covering(T) <=> Overlapping(u.box, v.box)
    BY DEF Covering
  <2>2. \A u, v \in T : <<u, v>> \in Ahead(T) => u.score >= v.score
    BY <1>5 DEF Ahead, Judged
  <2>3. \A u, v \in T : u # v => <<u, v>> \in Ahead(T) \/ <<v, u>> \in Ahead(T)
    BY <1>5, AheadRanks DEF Ranks
  <2> QED BY <2>1, <2>2, <2>3
<1>9. T \subseteq A /\ \A u \in T, v \in A \ T : u.score >= v.score
  OBVIOUS
<1>10. \A i : TrueBox(i)' = box(i)
  BY <1>1 DEF TrueBox
<1>11. \A i, side, axis : Covered(i, side, axis)' = on(i, side, axis)
  BY <1>1, <1>10 DEF Covered
<1> HIDE DEF A, S, P
<1>12. \A u \in P : u \in S /\ u \in T /\ u \in A
  BY <1>6, <1>7, <1>9
<1>13. ASSUME NEW b \in boxes'
       PROVE  /\ Confident(level[b.id])
              /\ Aligned(b.id, b.at, 1, 1)' /\ Aligned(b.id, b.at, 3, 1)'
              /\ Aligned(b.id, b.at, 2, 2)' /\ Aligned(b.id, b.at, 4, 2)'
  <2>1. PICK u \in P : b = [id |-> u.id, at |-> InFrame(u.box, src, letterbox)]
    BY <1>3
  <2>2. PICK i \in 1..3 : i = u.id /\ u.box = box(i) /\ Confident(level[i])
    BY <1>4, <1>12
  <2>3. b.id = i /\ b.at = InFrame(box(i), src, letterbox)
    BY <2>1, <2>2
  <2>4. /\ b.at[1] = FrameNorm(src, letterbox, 1, box(i)[1])
        /\ b.at[2] = FrameNorm(src, letterbox, 2, box(i)[2])
        /\ b.at[3] = FrameNorm(src, letterbox, 1, box(i)[3])
        /\ b.at[4] = FrameNorm(src, letterbox, 2, box(i)[4])
    <3>1. 1 % 2 = 1 /\ 2 % 2 # 1 /\ 3 % 2 = 1 /\ 4 % 2 # 1
      OBVIOUS
    <3> QED BY <2>3, <3>1 DEF InFrame
  <2>5. box(i)[1] \in Int /\ box(i)[2] \in Int /\ box(i)[3] \in Int /\ box(i)[4] \in Int
    BY BoxOfIs DEF Corners
  <2>6. ASSUME NEW side \in 1..4, NEW axis \in {1, 2}, box(i)[side] \in Int,
               b.at[side] = FrameNorm(src, letterbox, axis, box(i)[side])
        PROVE  Aligned(b.id, b.at, side, axis)'
    <3>1. Within(b.at[side], Fitted(src, axis), on(i, side, axis),
                 IF letterbox = "fit" THEN 0 ELSE b.at[side][2])
      BY <2>6, FrameNormIsNear
    <3>2. Covered(b.id, side, axis)' = on(i, side, axis)
      BY <1>11, <2>3
    <3> HIDE DEF on
    <3> QED BY <1>1, <3>1, <3>2 DEF Aligned, Within
  <2> HIDE DEF box, on, slack
  <2>7. Aligned(b.id, b.at, 1, 1)'
    BY <2>4, <2>5, <2>6
  <2>8. Aligned(b.id, b.at, 3, 1)'
    BY <2>4, <2>5, <2>6
  <2>9. Aligned(b.id, b.at, 2, 2)'
    BY <2>4, <2>5, <2>6
  <2>10. Aligned(b.id, b.at, 4, 2)'
    BY <2>4, <2>5, <2>6
  <2> QED BY <2>2, <2>3, <2>7, <2>8, <2>9, <2>10
<1>14. ASSUME NEW u \in P, NEW v \in P, u.id # v.id
       PROVE  ~Overlapping(box(u.id), box(v.id))
  <2>1. /\ u \in S /\ u \in T /\ u \in A /\ v \in S /\ v \in T /\ v \in A /\ u # v
    BY <1>12, <1>14
  <2>2. /\ u.box = box(u.id) /\ v.box = box(v.id)
        /\ Overlapping(u.box, v.box) <=> Overlapping(v.box, u.box)
    BY <1>4, <2>1, OverlapsBoth
  <2>3. CASE <<u, v>> \in Ahead(T)
    <3>1. ~Overlapping(u.box, v.box)
      BY <1>6, <1>8, <2>1, <2>3
    <3> QED BY <2>2, <3>1
  <2>4. CASE <<v, u>> \in Ahead(T)
    <3>1. ~Overlapping(v.box, u.box)
      BY <1>6, <1>8, <2>1, <2>4
    <3> QED BY <2>2, <3>1
  <2> QED BY <1>8, <2>1, <2>3, <2>4
<1>15. ASSUME NEW v \in T, v \notin P,
              on(v.id, 3, 1) - on(v.id, 1, 1) > slack,
              on(v.id, 4, 2) - on(v.id, 2, 2) > slack
       PROVE  \E q \in T : /\ q.id # v.id /\ q.score >= v.score
                           /\ Overlapping(q.box, v.box)
  <2>1. PICK i \in 1..3 : i = v.id /\ v.box = box(i)
    BY <1>4, <1>9
  <2>2. box(i)[1] \in Int /\ box(i)[2] \in Int /\ box(i)[3] \in Int /\ box(i)[4] \in Int
    BY BoxOfIs DEF Corners
  <2>3. PICK f : f = InFrame(v.box, src, letterbox)
    OBVIOUS
  <2>4. /\ f[1] = FrameNorm(src, letterbox, 1, box(i)[1])
        /\ f[2] = FrameNorm(src, letterbox, 2, box(i)[2])
        /\ f[3] = FrameNorm(src, letterbox, 1, box(i)[3])
        /\ f[4] = FrameNorm(src, letterbox, 2, box(i)[4])
    <3>1. 1 % 2 = 1 /\ 2 % 2 # 1 /\ 3 % 2 = 1 /\ 4 % 2 # 1
      OBVIOUS
    <3> QED BY <2>1, <2>3, <3>1 DEF InFrame
  <2>5. f[1][1] < f[3][1] /\ f[1][1] \in Int /\ f[3][1] \in Int
    <3>1. on(i, 3, 1) - on(i, 1, 1) > slack
      BY <1>15, <2>1
    <3> QED BY <2>2, <2>4, <3>1, FrameNormKeeps
  <2>6. f[2][1] < f[4][1] /\ f[2][1] \in Int /\ f[4][1] \in Int
    <3>1. on(i, 4, 2) - on(i, 2, 2) > slack
      BY <1>15, <2>1
    <3> QED BY <2>2, <2>4, <3>1, FrameNormKeeps
  <2>7. ~CutOff(f)
    BY <2>5, <2>6 DEF CutOff
  <2>8. v \notin S
    BY <1>7, <1>15, <2>3, <2>7
  <2>9. PICK q \in S : <<q, v>> \in Ahead(T) /\ <<q, v>> \in Covering(T)
    BY <1>6, <2>8
  <2>10. q \in T /\ q.score >= v.score /\ Overlapping(q.box, v.box)
    BY <1>6, <1>8, <2>9
  <2>11. q.id # v.id
    BY <1>4, <1>9, <2>8, <2>9, <2>10
  <2> QED BY <2>10, <2>11
<1>16. PICK out : out = {b.id : b \in boxes'}
  OBVIOUS
<1>17. /\ \A i \in out : \E u \in P : u.id = i
       /\ \A u \in P : u.id \in out
  <2>1. \A b \in boxes' : \E u \in P : b.id = u.id
    BY <1>3
  <2>2. \A u \in P : \E b \in boxes' : b.id = u.id
    <3> SUFFICES ASSUME NEW u \in P
                 PROVE  \E b \in boxes' : b.id = u.id
      OBVIOUS
    <3>1. PICK b : b = [id |-> u.id, at |-> InFrame(u.box, src, letterbox)]
      OBVIOUS
    <3>2. b \in boxes' /\ b.id = u.id
      BY <1>3, <3>1
    <3> QED BY <3>2
  <2> QED BY <1>16, <2>1, <2>2
<1>18. PICK severed : severed = {u.id : u \in given'.cut}
  OBVIOUS
<1>19. \A i : i \in severed <=> \E u \in A \ T : u.id = i
  BY <1>1, <1>18
<1>20. ASSUME NEW i \in out, NEW j \in out, i # j
       PROVE  ~Overlapping(box(i), box(j))
  <2>1. PICK u \in P, v \in P : u.id = i /\ v.id = j
    BY <1>17
  <2> HIDE DEF box
  <2> QED BY <1>14, <1>20, <2>1
<1>21. ASSUME NEW j \in (1..3) \ out, Confident(level[j]),
              on(j, 3, 1) - on(j, 1, 1) > slack, on(j, 4, 2) - on(j, 2, 2) > slack
       PROVE  \/ j \in severed /\ \A i \in out : level[i] >= level[j]
              \/ \E i \in (1..3) \ {j} :
                   /\ i \notin severed /\ level[i] >= level[j] /\ Confident(level[i])
                   /\ Overlapping(box(i), box(j))
  <2>1. PICK v \in A : v.id = j
    BY <1>4, <1>21
  <2>2. v \notin P
    BY <1>17, <1>21, <2>1
  <2>3. CASE v \notin T
    <3>1. j \in severed
      BY <1>19, <2>1, <2>3
    <3>2. ASSUME NEW i \in out
          PROVE  level[i] >= level[j]
      <4>1. PICK u \in P : u.id = i
        BY <1>17
      <4>2. u.score >= v.score /\ u.score = level[i] /\ v.score = level[j]
        BY <1>4, <1>9, <1>12, <2>1, <2>3, <4>1
      <4> QED BY <4>2
    <3> QED BY <3>1, <3>2
  <2>4. CASE v \in T
    <3>1. PICK q \in T : /\ q.id # v.id /\ q.score >= v.score
                         /\ Overlapping(q.box, v.box)
      <4> HIDE DEF on, slack
      <4> QED BY <1>15, <1>21, <2>1, <2>2, <2>4
    <3>2. q \in A /\ q.id \in 1..3 /\ Confident(level[q.id])
      BY <1>4, <1>9
    <3>3. q.id \notin severed
      BY <1>4, <1>19, <3>1, <3>2
    <3>4. level[q.id] >= level[j] /\ Overlapping(box(q.id), box(j))
      BY <1>4, <2>1, <3>1, <3>2
    <3> QED BY <2>1, <3>1, <3>2, <3>3, <3>4
  <2> QED BY <2>3, <2>4
<1>22. DOMAIN anchors = 1..3
  BY VisionAssumption
<1> HIDE DEF box, on
<1>23. \A i, j \in out : i # j => ~Overlapping(TrueBox(i)', TrueBox(j)')
  BY <1>10, <1>20
<1>24. ASSUME NEW j \in (DOMAIN given'.anchors) \ out, Confident(given'.level[j]),
              Covered(j, 3, 1)' - Covered(j, 1, 1)' > slack,
              Covered(j, 4, 2)' - Covered(j, 2, 2)' > slack
       PROVE  \/ j \in severed /\ \A i \in out : given'.level[i] >= given'.level[j]
              \/ \E i \in (DOMAIN given'.anchors) \ {j} :
                   /\ i \notin severed /\ given'.level[i] >= given'.level[j]
                   /\ Confident(given'.level[i])
                   /\ Overlapping(TrueBox(i)', TrueBox(j)')
  <2>1. /\ j \in (1..3) \ out /\ Confident(level[j])
        /\ on(j, 3, 1) - on(j, 1, 1) > slack /\ on(j, 4, 2) - on(j, 2, 2) > slack
    BY <1>1, <1>11, <1>22, <1>24
  <2>2. \/ j \in severed /\ \A i \in out : level[i] >= level[j]
        \/ \E i \in (1..3) \ {j} :
             /\ i \notin severed /\ level[i] >= level[j] /\ Confident(level[i])
             /\ Overlapping(box(i), box(j))
    BY <1>21, <2>1
  <2> QED BY <1>1, <1>10, <1>22, <2>2
<1> QED BY <1>1, <1>2, <1>13, <1>16, <1>18, <1>23, <1>24 DEF BoxesAreTrue

LEMMA InitBoxesAreTrue == VisionInit => BoxesAreTrue
  BY DEF VisionInit, BoxesAreTrue

(* The cut leaves out the lowest scores.                                   *)
LEMMA CutsAre ==
  ASSUME NEW cands, Judged(cands), NEW T \in Cuts(cands) \cup {cands}
  PROVE  T \in SUBSET cands /\ \A u \in T, v \in cands \ T : u.score >= v.score
  BY DEF Cuts

LEMMA WholeIsTrue ==
  ASSUME NEW src \in Sources, NEW anchors \in Views, NEW level \in [1..3 -> Levels],
         NEW letterbox \in {"fit", "shared"}, DecodeWhole(letterbox, src, anchors, level)
  PROVE  BoxesAreTrue'
<1>1. PICK A : A = Anchored(anchors, level)
  OBVIOUS
<1>2. Scored(anchors, level, Grids, FALSE) = A
  BY <1>1, ScoredAre
<1>3. PICK T \in Cuts(A) \cup {A} :
        Take("whole", letterbox, src, anchors, level, A, T, FALSE)
  BY <1>2 DEF DecodeWhole
<1>4. T \in SUBSET A /\ \A u \in T, v \in A \ T : u.score >= v.score
  BY <1>1, AnchoredAre, CutsAre
<1> QED BY <1>1, <1>3, <1>4, TakeIsTrue

LEMMA ZooIsTrue ==
  ASSUME NEW src \in Sources, NEW anchors \in Views, NEW level \in [1..3 -> Levels],
         NEW tensors \in ZooTensors, DecodeZoo(tensors, src, anchors, level)
  PROVE  BoxesAreTrue'
<1>1. PICK A : A = Anchored(anchors, level)
  OBVIOUS
<1>2. PICK grid : grid = [b \in 1..3 |-> ZooPairs(tensors)[b].grid]
  OBVIOUS
<1>3. \A b \in 1..3 : grid[b] = Grids[b]
  BY <1>2, ZooPairsAre
<1>4. Scored(anchors, level, grid, FALSE) = A
  BY <1>1, <1>3, ScoredAre
<1>5. PICK flag \in BOOLEAN : flag = \E b \in 1..3 : ZooPairs(tensors)[b].misread
  OBVIOUS
<1>6. flag = FALSE
  BY <1>5, ZooPairsAre
<1>7. PICK T \in Cuts(A) :
        Take("branches", "fit", src, anchors, level, A, T, flag)
  BY <1>2, <1>4, <1>5 DEF DecodeZoo
<1>8. T \in SUBSET A /\ \A u \in T, v \in A \ T : u.score >= v.score
  BY <1>1, AnchoredAre, CutsAre
<1> QED BY <1>1, <1>6, <1>7, <1>8, TakeIsTrue

LEMMA SplitIsTrue ==
  ASSUME NEW src \in Sources, NEW anchors \in Views, NEW level \in [1..3 -> Levels],
         NEW tensors \in SplitTensors, NEW quantized \in BOOLEAN,
         DecodeSplit(tensors, src, anchors, level, quantized)
  PROVE  BoxesAreTrue'
<1>1. PICK A : A = Anchored(anchors, level)
  OBVIOUS
<1>2. PICK grid : grid = [b \in 1..3 |-> SplitPairs(tensors)[b].grid]
  OBVIOUS
<1>3. \A b \in 1..3 : grid[b] = Grids[b]
  BY <1>2, SplitPairsAre
<1>4. Scored(anchors, level, grid, quantized) = A
  BY <1>1, <1>3, ScoredAre
<1>5. PICK T \in Cuts(A) :
        Take("split", "shared", src, anchors, level, A, T, FALSE)
  BY <1>2, <1>4 DEF DecodeSplit
<1>6. T \in SUBSET A /\ \A u \in T, v \in A \ T : u.score >= v.score
  BY <1>1, AnchoredAre, CutsAre
<1> QED BY <1>1, <1>5, <1>6, TakeIsTrue

(* Whichever head the graph has, in whatever order and layout its tensors  *)
(* come, as bytes or as floats, the boxes published are where the network  *)
(* saw them, confident and apart, and what is left out is left out for a   *)
(* better one or is at most half a model pixel in the frame                *)
(* (decode_person_head, decode_zoo_head, decode_split_head, nms and        *)
(* xyxy_to_frame_norm); for any input side, frame sizes, thresholds and    *)
(* anchors.                                                                *)
THEOREM BoxesAreWhereSeen == VisionSpec => []BoxesAreTrue
<1>1. BoxesAreTrue /\ [VisionNext]_visionVars => BoxesAreTrue'
  <2> SUFFICES ASSUME BoxesAreTrue, [VisionNext]_visionVars
               PROVE  BoxesAreTrue'
    OBVIOUS
  <2>1. CASE VisionNext
    <3>1. PICK src \in Sources, anchors \in Views, level \in [1..3 -> Levels] :
            \/ \E letterbox \in {"fit", "shared"} :
                 DecodeWhole(letterbox, src, anchors, level)
            \/ \E tensors \in ZooTensors : DecodeZoo(tensors, src, anchors, level)
            \/ \E tensors \in SplitTensors, quantized \in BOOLEAN :
                 DecodeSplit(tensors, src, anchors, level, quantized)
      BY <2>1 DEF VisionNext
    <3> QED BY <3>1, WholeIsTrue, ZooIsTrue, SplitIsTrue
  <2>2. CASE UNCHANGED visionVars
    <3>1. given' = given /\ boxes' = boxes
      BY <2>2 DEF visionVars
    <3>2. \A i : TrueBox(i)' = TrueBox(i)
      BY <3>1 DEF TrueBox
    <3>3. \A i, side, axis : Covered(i, side, axis)' = Covered(i, side, axis)
      BY <3>1, <3>2 DEF Covered
    <3>4. \A i, spot, side, axis :
            Aligned(i, spot, side, axis)' = Aligned(i, spot, side, axis)
      BY <3>1, <3>3 DEF Aligned
    <3> QED BY <3>1, <3>2, <3>3, <3>4 DEF BoxesAreTrue
  <2> QED BY <2>1, <2>2
<1> QED BY InitBoxesAreTrue, <1>1, PTL DEF VisionSpec
=============================================================================
