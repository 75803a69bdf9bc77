----------------------------- MODULE MCDetectors -----------------------------
(* The detector's side, one part at a time: "part" says which module the   *)
(* behaviour is about, the others rest.                                    *)
EXTENDS EdgeDetector, DeviceGeneration, ReCamera, Tracker, Vision, Engine,
        PreviewServer, NpuBench, SequencesExt

VARIABLE part

generationVars == vars
Parts == {"edge", "generation", "camera", "tracker", "vision", "engine", "preview",
          "bench"}
detectorVars == <<part, edgeVars, generationVars, cameraVars, trackerVars,
                  visionVars, engineVars, previewServerVars, benchVars>>

(* Variables of a part rest while it is not the behaviour's.               *)
Rests(p, v) == IF part = p THEN TRUE ELSE UNCHANGED v

OthersRest ==
  /\ UNCHANGED part
  /\ Rests("edge", edgeVars) /\ Rests("generation", generationVars)
  /\ Rests("camera", cameraVars) /\ Rests("tracker", trackerVars)
  /\ Rests("vision", visionVars) /\ Rests("engine", engineVars)
  /\ Rests("preview", previewServerVars) /\ Rests("bench", benchVars)

DetectorsInit ==
  /\ part \in Parts
  /\ part # "edge" => platform = "generic"
  /\ part # "preview" => serving = "generic"
  /\ part # "bench" =>
       /\ benchMode = "idle" /\ lent = TRUE /\ readable = TRUE /\ maxIterations = 0
  /\ part # "camera" =>
       /\ policy = [governor |-> "interactive", min |-> 1, max |-> 1]
       /\ asked = NoSpec /\ root = TRUE /\ feed = "isp" /\ benchmark = FALSE
  /\ part # "engine" => model = [kind |-> "onnx", scores |-> TRUE]
  /\ EdgeInit /\ Init /\ CameraInit /\ TrackerInit /\ VisionInit /\ EngineInit
  /\ PreviewServerInit /\ BenchInit
  /\ part # "engine" => \A w \in Threads, t \in Thresholds : setting[w] <= t

Part(p, A) == part = p /\ A /\ OthersRest

DetectorsNext ==
  \/ Part("edge", EdgeNext) \/ Part("generation", Next)
  \/ Part("camera", CameraNext) \/ Part("tracker", TrackerNext)
  \/ Part("vision", VisionNext) \/ Part("engine", EngineNext)
  \/ Part("preview", PreviewServerNext) \/ Part("bench", BenchNext)

(* EdgeFairness and the fairness of FairSpec.                              *)
DetectorsFairness ==
  /\ WF_edgeVars(part = "edge" /\ Mqtt) /\ WF_edgeVars(part = "edge" /\ Main)
  /\ WF_generationVars(part = "generation" /\ Heartbeat)
  /\ WF_generationVars(part = "generation" /\ EndExit)
  /\ WF_generationVars(part = "generation" /\ Deliver)
  /\ WF_generationVars(part = "generation" /\ \E s \in wills : WillFires(s))

DetectorsSpec == DetectorsInit /\ [][DetectorsNext]_detectorVars /\ DetectorsFairness

-----------------------------------------------------------------------------
(* Three boxes of a person who walks past another.                         *)
SomeBoxes == {<<0, 0, 4, 1>>, <<1, 0, 5, 1>>, <<3, 0, 7, 1>>}
OneFifth == <<1, 5>>

(* A tenth of the model's input, with its strides; the class map has as    *)
(* many channels as the finest grid has columns, as 80 is in the code.     *)
ThreeGrids == <<8, 4, 2>>
FrameSizes == {<<128, 72>>, <<127, 71>>, <<30, 40>>}
(* Overlapping and apart, across the padding and out of the frame.         *)
SomeAnchors ==
  {[branch |-> 1, col |-> 3, row |-> 2, reach |-> <<1, 1, 2, 2>>],
   [branch |-> 2, col |-> 1, row |-> 1, reach |-> <<0, 1, 1, 1>>],
   [branch |-> 3, col |-> 1, row |-> 0, reach |-> <<1, 0, 1, 1>>],
   [branch |-> 1, col |-> 0, row |-> 0, reach |-> <<1, 1, 0, 0>>],
   [branch |-> 1, col |-> 4, row |-> 2, reach |-> <<1, 1, 2, 2>>]}
SomeViews == {SetToSeq(S) : S \in kSubset(3, SomeAnchors)}
OneQuarter == <<1, 4>>
ThreeFifths == <<3, 5>>
NineTwentieths == <<9, 20>>
=============================================================================
