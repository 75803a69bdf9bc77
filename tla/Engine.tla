------------------------------- MODULE Engine -------------------------------
(***************************************************************************)
(* One model on the accelerator and the capture threads that share it: the *)
(* backends' detect (backend.py; detector.py, _infer on generic), the      *)
(* buffers and the time a model keeps between calls, and the threshold,    *)
(* which belongs to a stream and is changed by the MQTT thread.            *)
(*                                                                         *)
(* A buffer holds what it was written for last: <<worker, frame>>.  Steps  *)
(* are as fine as the places where another thread may come in between.     *)
(* close, which the main thread calls when its joins have timed out, is    *)
(* left out.                                                               *)
(***************************************************************************)
EXTENDS Naturals

CONSTANTS
  Threads,          \* the capture threads
  Thresholds,       \* values a stream's threshold may have
  MaxFrames         \* bound on the frames of a thread

Nobody == "nobody"

ASSUME EngineAssumption ==
  MaxFrames \in Nat /\ Thresholds # {} /\ Nobody \notin Threads

Kinds == {"onnx", "rknn", "tensorrt", "hailo"}

VARIABLES
  model,            \* its kind, and was it built so that it yields scores
  holder,           \* the thread that has the lock
  input, output,    \* the buffers a model keeps
  lastTime,         \* last_inference_ms: of which frame
  rangeChecked,     \* hailo: the class range has been looked at
  setting,          \* a stream's threshold
  doing,            \* where a thread is
  frame, conf,      \* the frame it is at, the threshold it called with
  raw, time,        \* what it has taken from the model
  result            \* what it publishes

engineVars == <<model, holder, input, output, lastTime, rangeChecked, setting,
                doing, frame, conf, raw, time, result>>
shared == <<input, output, lastTime, rangeChecked>>
own == <<frame, conf, raw, time, result>>

Empty == <<Nobody, 0>>
NoResult == [of |-> Empty, time |-> Empty, conf |-> 0]

Mine(w) == <<w, frame[w]>>

(* TensorRT and Hailo keep their buffers; the others make new ones.        *)
KeepsBuffers == model.kind \in {"tensorrt", "hailo"}

EngineInit ==
  /\ model \in [kind : Kinds, scores : BOOLEAN]
  /\ model.kind # "hailo" => model.scores
  /\ holder = Nobody /\ input = Empty /\ output = Empty /\ lastTime = Empty
  /\ rangeChecked = FALSE
  /\ setting \in [Threads -> Thresholds]
  /\ doing = [w \in Threads |-> "reading"]
  /\ frame = [w \in Threads |-> 0] /\ conf = setting
  /\ raw = [w \in Threads |-> Empty] /\ time = raw
  /\ result = [w \in Threads |-> NoResult]

-----------------------------------------------------------------------------
Step(w, here, there) == doing[w] = here /\ doing' = [doing EXCEPT ![w] = there]

(* _cmd_set_threshold.                                                     *)
SetThreshold(w, t) ==
  /\ setting' = [setting EXCEPT ![w] = t]
  /\ UNCHANGED <<model, holder, shared, doing, own>>

(* A frame is read and detect is called with the stream's threshold.       *)
CallDetect(w) ==
  /\ frame[w] < MaxFrames
  /\ Step(w, "reading", "waiting")
  /\ frame' = [frame EXCEPT ![w] = @ + 1]
  /\ conf' = [conf EXCEPT ![w] = setting[w]]
  /\ UNCHANGED <<model, holder, shared, setting, raw, time, result>>

TakeLock(w) ==
  /\ holder = Nobody /\ holder' = w
  /\ Step(w, "waiting", "filling")
  /\ UNCHANGED <<model, shared, setting, own>>

(* preprocess_into, or the binding of the canvas.                          *)
FillInput(w) ==
  /\ Step(w, "filling", "running")
  /\ input' = IF KeepsBuffers THEN Mine(w) ELSE input
  /\ UNCHANGED <<model, holder, output, lastTime, rangeChecked, setting, own>>

(* infer: the output is that of what the input holds.                      *)
RunModel(w) ==
  /\ Step(w, "running", "ran")
  /\ output' = IF KeepsBuffers THEN input ELSE output
  /\ raw' = [raw EXCEPT ![w] = IF KeepsBuffers THEN @ ELSE Mine(w)]
  /\ lastTime' = Mine(w)
  /\ UNCHANGED <<model, holder, input, rangeChecked, setting, frame, conf, time, result>>

(* ... or it raises: the with statement lets the lock go, and the thread   *)
(* ends.                                                                   *)
RunFails(w) ==
  /\ Step(w, "running", "ended")
  /\ holder' = Nobody
  /\ lastTime' \in {lastTime, Mine(w)}
  /\ UNCHANGED <<model, input, output, rangeChecked, setting, own>>

(* _check_class_range, on the first frame that gets this far.              *)
RangeIsWrong(w) ==
  /\ model.kind = "hailo" /\ ~rangeChecked /\ ~model.scores
  /\ Step(w, "ran", "ended")
  /\ holder' = Nobody
  /\ UNCHANGED <<model, shared, setting, own>>

Decoded(w) ==
  [of |-> IF KeepsBuffers THEN output ELSE raw[w], time |-> time[w], conf |-> conf[w]]

(* The decoder reads the output while the lock is held.                    *)
Decode(w) ==
  /\ model.kind # "onnx"
  /\ model.kind = "hailo" => rangeChecked \/ model.scores
  /\ Step(w, "ran", "decoded")
  /\ rangeChecked' = (rangeChecked \/ model.kind = "hailo")
  /\ result' = [result EXCEPT ![w] = Decoded(w)]
  /\ UNCHANGED <<model, holder, input, output, lastTime, setting, frame, conf, raw, time>>

(* Mutant: the lock is let go before the time is read.                     *)
ReadTime_Unlocked(w) ==
  /\ IF holder = w
     THEN /\ doing[w] = (IF model.kind = "onnx" THEN "ran" ELSE "decoded")
          /\ holder' = Nobody /\ UNCHANGED <<doing, time, result>>
     ELSE /\ doing[w] = (IF model.kind = "onnx" THEN "ran" ELSE "decoded")
          /\ doing' = [doing EXCEPT ![w] = IF model.kind = "onnx" THEN "left" ELSE "done"]
          /\ time' = [time EXCEPT ![w] = lastTime]
          /\ result' = [result EXCEPT ![w].time = time'[w]]
          /\ UNCHANGED holder
  /\ UNCHANGED <<model, shared, setting, frame, conf, raw>>

(* The time is read inside the lock, which is then let go.                 *)
ReadTime(w) ==
  /\ IF model.kind = "onnx" THEN Step(w, "ran", "left") ELSE Step(w, "decoded", "done")
  /\ time' = [time EXCEPT ![w] = lastTime]
  /\ result' = [result EXCEPT ![w].time = time'[w]]
  /\ holder' = Nobody
  /\ UNCHANGED <<model, shared, setting, frame, conf, raw>>

(* generic decodes its own array after the lock.                           *)
DecodeLater(w) ==
  /\ Step(w, "left", "done")
  /\ result' = [result EXCEPT ![w] = Decoded(w)]
  /\ UNCHANGED <<model, holder, shared, setting, frame, conf, raw, time>>

(* The payload is published and the next frame read.                       *)
PublishResult(w) ==
  /\ Step(w, "done", "reading")
  /\ UNCHANGED <<model, holder, shared, setting, own>>

EngineStep(w) ==
  \/ CallDetect(w) \/ TakeLock(w) \/ FillInput(w) \/ RunModel(w) \/ RunFails(w)
  \/ RangeIsWrong(w) \/ Decode(w) \/ ReadTime(w) \/ DecodeLater(w) \/ PublishResult(w)

EngineNext ==
  \E w \in Threads : EngineStep(w) \/ \E t \in Thresholds : SetThreshold(w, t)

EngineSpec == EngineInit /\ [][EngineNext]_engineVars

-----------------------------------------------------------------------------
Tags == (Threads \cup {Nobody}) \X (0..MaxFrames)

EngineTypeOK ==
  /\ model \in [kind : Kinds, scores : BOOLEAN]
  /\ holder \in Threads \cup {Nobody}
  /\ input \in Tags /\ output \in Tags /\ lastTime \in Tags
  /\ rangeChecked \in BOOLEAN
  /\ setting \in [Threads -> Thresholds] /\ conf \in [Threads -> Thresholds]
  /\ doing \in [Threads -> {"reading", "waiting", "filling", "running", "ran",
                            "decoded", "left", "done", "ended"}]
  /\ frame \in [Threads -> 0..MaxFrames]
  /\ raw \in [Threads -> Tags] /\ time \in [Threads -> Tags]
  /\ result \in [Threads -> [of : Tags, time : Tags, conf : Thresholds \cup {0}]]

(* A thread that is inside the lock, by where it is.                       *)
Inside(w) == doing[w] \in {"filling", "running", "ran", "decoded"}

(* What a stream publishes - boxes, threshold and inference time - is of   *)
(* its own frame, whatever the other threads put into the buffers of the   *)
(* one model meanwhile (backend.py, detect); a model whose class branch is *)
(* no probability publishes nothing (_check_class_range); and a failed     *)
(* inference does not keep the others out.                                 *)
ResultsAreOwn ==
  /\ \A w \in Threads : doing[w] = "done" =>
       /\ result[w].of = Mine(w) /\ result[w].time = Mine(w)
       /\ result[w].conf = conf[w]
       /\ model.kind = "hailo" => model.scores
  /\ \A w \in Threads : holder = w <=> Inside(w)
=============================================================================
