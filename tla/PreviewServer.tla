----------------------------- MODULE PreviewServer -----------------------------
(***************************************************************************)
(* The frames a detector shows: each capture loop leaves its latest one in *)
(* a store, the threads of the preview server and the MQTT thread of       *)
(* cmd/snapshot take it from there, while cameras come and go (FrameStore, *)
(* encode_jpeg and do_GET of the platforms' preview.py, put_frame and      *)
(* get_frame of streams.py, publish_snapshot).                             *)
(*                                                                         *)
(* A frame is a number, its two halves stand for its pixels.  A loop makes *)
(* a new array for each frame, except that the reCamera's store copies     *)
(* every frame into one buffer.  A copy takes two steps wherever a frame   *)
(* could change under it.                                                  *)
(***************************************************************************)
EXTENDS Integers, SequencesExt

CONSTANTS
  Watched,          \* the cameras
  Viewers,          \* threads of the server, each with one request at a time
  MaxShots,         \* bound on frames
  MaxChanges        \* bound on cameras added and removed

NoStream == ""
ASSUME PreviewAssumption ==
  /\ Watched # {} /\ {"default", NoStream} \cap Watched = {}
  /\ MaxShots \in Nat /\ MaxChanges \in Nat

MqttThread == "mqtt"
Readers == Viewers \cup {MqttThread}
Free == "free"
Loop == "loop"
ASSUME ReadersAssumption == {MqttThread, Free, Loop} \cap Viewers = {}

VARIABLES
  serving,          \* "generic", "npu" (rknn and jetson), "hailo", "recamera"
  order,            \* stream_ids: the keys of _workers as they were added
  worker,           \* camera -> its worker's number
  made,             \* workers so far
  taken,            \* frames so far, of all loops
  pixels,           \* worker -> the halves of the array its store holds
  held,             \* worker -> who holds its store's held, or "free"
  asks,             \* reader -> its request
  busy,             \* the live page waits for an image
  changes

previewServerVars ==
  <<serving, order, worker, made, taken, pixels, held, asks, busy, changes>>

Numbers == 1..(MaxChanges + 1)
Black == <<0, 0>>

(* A request: where it stands, its stream and whether that was listed when *)
(* the thread read the list, whether the live page makes it, the worker    *)
(* found, the halves copied, the reply; and as history the frame that was  *)
(* the latest when it came, and whether its camera was away, or without a  *)
(* frame, at some moment since.                                            *)
NoAsk == [at |-> "idle", key |-> NoStream, listed |-> FALSE, live |-> FALSE, of |-> 0,
            got |-> Black, reply |-> "none", since |-> 0, away |-> FALSE, dark |-> FALSE]

Carried == ToSet(order)

(* The frame a request for key would get now, 0 for none.                  *)
Latest(key) == IF key \in Carried THEN pixels[worker[key]][2] ELSE 0

PreviewServerInit ==
  /\ serving \in {"generic", "npu", "hailo", "recamera"}
  /\ order = <<CHOOSE c \in Watched : TRUE>>
  /\ worker = [c \in Watched |-> IF c \in Carried THEN 1 ELSE 0]
  /\ made = 1 /\ taken = 0
  /\ pixels = [w \in Numbers |-> Black]
  /\ held = [w \in Numbers |-> Free]
  /\ asks = [r \in Readers |-> NoAsk] /\ busy = FALSE /\ changes = 0

(* History: what a request that is under way lives through when a camera   *)
(* is taken away.                                                          *)
Witnessed(a, c) ==
  IF a.at \in {"idle", "done"} \/ a.key # c THEN a
  ELSE [a EXCEPT !.away = TRUE, !.dark = TRUE]

-----------------------------------------------------------------------------
(* The capture loops.                                                      *)

(* A loop that was stopped may have a frame still to put.                  *)
Runs(w) == w <= made /\ taken < MaxShots /\ held[w] = Free

(* put and put_frame, by reference: the array is the loop's no longer.     *)
PutNew(w) ==
  /\ serving # "recamera" /\ Runs(w)
  /\ taken' = taken + 1
  /\ pixels' = [pixels EXCEPT ![w] = <<taken', taken'>>]
  /\ UNCHANGED <<serving, order, worker, made, held, asks, busy, changes>>

(* put of the reCamera, under the lock.                                    *)
PutStarts(w) ==
  /\ serving = "recamera" /\ Runs(w)
  /\ taken' = taken + 1
  /\ pixels' = [pixels EXCEPT ![w] = <<taken', @[2]>>]
  /\ held' = [held EXCEPT ![w] = Loop]
  /\ UNCHANGED <<serving, order, worker, made, asks, busy, changes>>

PutEnds(w) ==
  /\ held[w] = Loop
  /\ pixels' = [pixels EXCEPT ![w] = <<@[1], taken>>]
  /\ held' = [held EXCEPT ![w] = Free]
  /\ UNCHANGED <<serving, order, worker, made, taken, asks, busy, changes>>

(* The supervisor, in the MQTT thread; the reCamera has the one camera.    *)
Changes == serving # "recamera" /\ asks[MqttThread].at = "idle" /\ changes < MaxChanges

AddCamera(c) ==
  /\ Changes /\ c \in Watched \ Carried
  /\ changes' = changes + 1
  /\ order' = Append(order, c)
  /\ made' = made + 1 /\ worker' = [worker EXCEPT ![c] = made']
  /\ UNCHANGED <<serving, taken, pixels, held, asks, busy>>

RemoveCamera(c) ==
  /\ Changes /\ c \in Carried
  /\ changes' = changes + 1
  /\ \E i \in DOMAIN order : order[i] = c /\ order' = RemoveAt(order, i)
  /\ asks' = [r \in Readers |-> Witnessed(asks[r], c)]
  /\ UNCHANGED <<serving, worker, made, taken, pixels, held, busy>>

-----------------------------------------------------------------------------
(* A request, from the path to the store it names.                         *)

Goes(r, ask) == asks' = [asks EXCEPT ![r] = ask]
ReaderSteps == UNCHANGED <<serving, order, worker, made, taken, pixels, changes>>

(* What is not about the reply is forgotten.                               *)
Ends(r, reply) ==
  Goes(r, [asks[r] EXCEPT !.at = "done", !.reply = reply,
                          !.key = NoStream, !.listed = FALSE, !.of = 0])

(* publish_snapshot gives up where the server answers with a code.         *)
Otherwise(r, code) == IF r = MqttThread THEN "gaveUp" ELSE code

Target(path) ==
  IF path # "default" THEN path ELSE IF order = <<>> THEN NoStream ELSE order[1]

Comes(r, path, live) ==
  LET key == Target(path)
  IN  /\ asks[r].at = "idle" /\ ReaderSteps
      /\ Goes(r, [NoAsk EXCEPT !.at = "asked", !.key = key, !.live = live,
                               !.listed = key \in Carried, !.since = Latest(key),
                               !.away = key \notin Carried, !.dark = Latest(key) = 0])

(* A GET of /preview.jpg or of a stream's; stream_ids is read first.       *)
Get(r, path) == r \in Viewers /\ Comes(r, path, FALSE) /\ UNCHANGED <<held, busy>>

(* tick of the live page, for the first stream.                            *)
LiveTick(r) == r \in Viewers /\ ~busy /\ Comes(r, "default", TRUE) /\ busy' = TRUE /\ UNCHANGED held

(* _on_message: cmd/snapshot for a stream of the detector, or for none.    *)
ForUs(path) == path = "default" \/ path \in Carried

SnapshotAsked(path) ==
  /\ ForUs(path)
  /\ Comes(MqttThread, path, FALSE) /\ UNCHANGED <<held, busy>>

(* The Hailo server is given other names than its handler reads, and the   *)
(* request ends without a reply; the snapshot does not go through it.      *)
HandlerRaises(r) ==
  /\ serving = "hailo" /\ r \in Viewers /\ asks[r].at = "asked"
  /\ Ends(r, "dropped") /\ ReaderSteps /\ UNCHANGED <<held, busy>>

Answers(r) == asks[r].at = "asked" /\ ~(serving = "hailo" /\ r \in Viewers)

(* No worker: the generic server says 404 at once, the others 404 for a    *)
(* stream that was not listed either, and 503 for one that was; a snapshot *)
(* is given up.                                                            *)
FindNothing(r) ==
  /\ Answers(r) /\ asks[r].key \notin Carried
  /\ Ends(r, Otherwise(r, IF serving = "generic" \/ ~asks[r].listed
                          THEN "404" ELSE "503"))
  /\ ReaderSteps /\ UNCHANGED <<held, busy>>

(* _store_for, worker: the registry's lock is released again.              *)
FindWorker(r) ==
  /\ Answers(r) /\ asks[r].key \in Carried
  /\ Goes(r, [asks[r] EXCEPT !.at = "found", !.of = worker[asks[r].key]])
  /\ ReaderSteps /\ UNCHANGED <<held, busy>>

-----------------------------------------------------------------------------
(* The frame.                                                              *)

NoFrame(r) == pixels[asks[r].of] = Black

(* The store is empty.  On the platforms of streams.py a stream that was   *)
(* not listed when the request came does not exist for it.                 *)
NothingYet(r) ==
  /\ asks[r].at = "found" /\ held[asks[r].of] = Free /\ NoFrame(r)
  /\ Ends(r, Otherwise(r, IF serving = "npu" /\ ~asks[r].listed
                          THEN "404" ELSE "503"))
  /\ ReaderSteps /\ UNCHANGED <<held, busy>>

(* get and get_frame, by reference: nobody writes to the array any more,   *)
(* whether it is copied under the lock or after it.                        *)
TakeNew(r) ==
  LET w == asks[r].of
  IN  /\ serving # "recamera" /\ asks[r].at = "found" /\ held[w] = Free /\ ~NoFrame(r)
      /\ Goes(r, [asks[r] EXCEPT !.at = "copied", !.got = pixels[w]])
      /\ ReaderSteps /\ UNCHANGED <<held, busy>>

(* Mutant: the reCamera's buffer is copied without its lock.               *)
CopyStarts_Unlocked(r) ==
  LET w == asks[r].of
  IN  /\ serving = "recamera" /\ asks[r].at = "found" /\ ~NoFrame(r)
      /\ Goes(r, [asks[r] EXCEPT !.at = "copying", !.got = <<pixels[w][1], 0>>])
      /\ ReaderSteps /\ UNCHANGED <<held, busy>>

(* get of the reCamera, under the lock.                                    *)
CopyStarts(r) ==
  LET w == asks[r].of
  IN  /\ serving = "recamera" /\ asks[r].at = "found" /\ held[w] = Free /\ ~NoFrame(r)
      /\ Goes(r, [asks[r] EXCEPT !.at = "copying", !.got = <<pixels[w][1], 0>>])
      /\ held' = [held EXCEPT ![w] = r]
      /\ ReaderSteps /\ UNCHANGED busy

CopyEnds(r) ==
  LET w == asks[r].of
  IN  /\ asks[r].at = "copying"
      /\ Goes(r, [asks[r] EXCEPT !.at = "copied", !.got = <<@[1], pixels[w][2]>>])
      /\ held' = IF held[w] = r THEN [held EXCEPT ![w] = Free] ELSE held
      /\ ReaderSteps /\ UNCHANGED busy

(* encode_jpeg: some quality and scale bring the frame under the cap, or   *)
(* none does, or the encoder does not work at all.                         *)
Encode(r) ==
  /\ asks[r].at = "copied"
  /\ \/ Ends(r, IF r = MqttThread THEN "published" ELSE "200")
     \/ Ends(r, Otherwise(r, "500"))
  /\ ReaderSteps /\ UNCHANGED <<held, busy>>

(* onload and onerror.                                                     *)
Loaded(r) ==
  /\ asks[r].at = "done" /\ Goes(r, NoAsk)
  /\ busy' = (busy /\ ~asks[r].live)
  /\ ReaderSteps /\ UNCHANGED held

-----------------------------------------------------------------------------
PreviewServerNext ==
  \/ \E w \in Numbers : PutNew(w) \/ PutStarts(w) \/ PutEnds(w)
  \/ \E c \in Watched :
       \/ AddCamera(c) \/ RemoveCamera(c)
       \/ \E r \in Readers : Get(r, c)
       \/ SnapshotAsked(c)
  \/ SnapshotAsked("default")
  \/ \E r \in Readers :
       \/ LiveTick(r) \/ HandlerRaises(r) \/ FindNothing(r) \/ FindWorker(r)
       \/ NothingYet(r) \/ TakeNew(r) \/ CopyStarts(r) \/ CopyEnds(r)
       \/ Encode(r) \/ Loaded(r)

PreviewServerSpec == PreviewServerInit /\ [][PreviewServerNext]_previewServerVars

-----------------------------------------------------------------------------
(* Properties.                                                             *)

Shown == {"200", "published"}

(* Whoever gets a frame gets one whole frame, not older than the one that  *)
(* was there when the request came, whatever loops and other threads do    *)
(* meanwhile; a 404 is for a stream that was away at some moment of the    *)
(* request, and a 503, or a snapshot given up, for one that had no frame   *)
(* at some moment, unless the frame that was taken cannot be encoded.      *)
ServedWhole ==
  \A r \in Readers : asks[r].at = "done" =>
    LET a == asks[r]
    IN  /\ a.reply \in Shown => a.got[1] = a.got[2] /\ a.got[1] >= a.since /\ a.got # Black
        /\ a.reply = "404" => a.away
        /\ a.reply \in {"503", "gaveUp"} => a.dark \/ a.got # Black
===============================================================================
