------------------------------- MODULE MCHub -------------------------------
(***************************************************************************)
(* The hub's services that share no state with each other, and the pages   *)
(* of the workbench that call them, each checked on its own by one run:    *)
(* "part" says which of them the behaviour is about, the others rest.      *)
(***************************************************************************)
EXTENDS ConfigStore, Sessions, Ingest, PreviewProxy, MCRuleEngine, MCGeometry,
        RulesEditor, WebSession, AlertLifecycle

VARIABLE part

ruleVars == vars
Parts == {"store", "sessions", "ingest", "preview", "rules", "geometry", "editor", "web",
          "alerts"}
hubVars == <<part, storeVars, sessionVars, ingestVars, previewVars, ruleVars,
             geoVars, editorVars, webVars, alertVars>>

(* Variables of a part rest while it is not the behaviour's.               *)
Rests(q, v) == IF part = q THEN TRUE ELSE UNCHANGED v

OthersRest ==
  /\ UNCHANGED part
  /\ Rests("store", storeVars) /\ Rests("sessions", sessionVars)
  /\ Rests("ingest", ingestVars) /\ Rests("preview", previewVars)
  /\ Rests("rules", ruleVars) /\ Rests("geometry", geoVars)
  /\ Rests("editor", editorVars) /\ Rests("web", webVars)
  /\ Rests("alerts", alertVars)

Part(q, Does) == part = q /\ Does /\ OthersRest

HubInit ==
  /\ part \in Parts
  /\ StoreInit /\ IngestInit /\ PreviewInit /\ SessionInit /\ Init
  /\ EditorInit /\ WebInit /\ LifecycleInit
  /\ IF part = "geometry" THEN GeoInit
     ELSE A = <<0, 0>> /\ B = <<0, 0>> /\ C = <<0, 0>> /\ X = <<0, 0>>
  /\ part # "sessions" => \A d \in IdleTimes : idle <= d
  /\ part # "rules" => features = NoRules
  /\ part # "web" => cookie /\ ~rotate

HubNext ==
  \/ Part("store", StoreNext) \/ Part("sessions", SessionNext)
  \/ Part("ingest", IngestNext) \/ Part("preview", PreviewNext)
  \/ Part("rules", Next) \/ Part("geometry", GeoNext)
  \/ Part("editor", EditorNext) \/ Part("web", WebNext)
  \/ Part("alerts", LifecycleNext)

(* IngestFairness and WebFairness.                                         *)
HubFairness ==
  /\ WF_ingestVars(part = "ingest" /\ ConnectIngest)
  /\ WF_ingestVars(part = "ingest" /\ Subscribed)
  /\ WF_ingestVars(part = "ingest" /\ NoticeCut)
  /\ WF_ingestVars(part = "ingest" /\ Dispatch)
  /\ WF_ingestVars(part = "ingest" /\ HandlerEnds)
  /\ WF_webVars(part = "web" /\ SockOpens)
  /\ WF_webVars(part = "web" /\ SockIsLost)
  /\ WF_webVars(part = "web" /\ Reopen)
  /\ WF_webVars(part = "web" /\ RunEffect)
  /\ WF_webVars(part = "web" /\ BootSession)
  /\ WF_webVars(part = "web" /\ BootDevices)
  /\ WF_webVars(part = "web" /\ ServeProbe)
  /\ WF_webVars(part = "web" /\ ProbeEnds)

HubSpec == HubInit /\ [][HubNext]_hubVars /\ HubFairness

(* Unless it is stopped, the hub is connected again after every cut, and   *)
(* reads what is on the connection (mqtt_ingest.py, the loop of _run).     *)
HubIngestRecovers ==
  /\ (part = "ingest" /\ ~connected) ~> (connected \/ loop = "stopped")
  /\ (part = "ingest" /\ inbox # <<>>) ~> inbox = <<>>
=============================================================================
