---------------------------- MODULE PreviewProxy ----------------------------
(***************************************************************************)
(* The hub's proxy for one stream's still frame (http_api.py): a cache of  *)
(* one JPEG, and a fetch from the device for every request that misses it. *)
(* The handler awaits the fetch, so fetches of several operators overlap   *)
(* and end in any order.  The device hands out the last frame its capture  *)
(* loop stored (put_frame, get_frame), however long ago that was.  A frame *)
(* is the moment it was stored.                                            *)
(***************************************************************************)
EXTENDS Naturals

CONSTANTS
  Viewers,          \* requests that may be in flight
  Window,           \* PREVIEW_CACHE_MS
  FetchTimeout,     \* PREVIEW_TIMEOUT_S
  LastTick          \* bound on the clock

ASSUME PreviewAssumption ==
  Window \in Nat /\ FetchTimeout \in Nat /\ LastTick \in Nat \ {0}

VARIABLES
  tick,             \* wall clock
  stored,           \* the device's frame, 0 for None
  heldAt,           \* history: moment -> what it held as the moment began
  cache,            \* (stamp, frame), stamp 0 without an entry
  fetch,            \* per viewer: start of its fetch, 0 without; the frame
  answer            \* what the last step answered: frame, age, moment

previewVars == <<tick, stored, heldAt, cache, fetch, answer>>
deviceVars == <<stored, heldAt>>

NoFetch == [start |-> 0, frame |-> 0]
NoAnswer == [frame |-> 0, age |-> 0, at |-> 0, cached |-> FALSE]

PreviewInit ==
  /\ tick = 1 /\ stored = 0 /\ heldAt = [t \in 1..LastTick |-> 0]
  /\ cache = [stamp |-> 0, frame |-> 0]
  /\ fetch = [v \in Viewers |-> NoFetch]
  /\ answer = NoAnswer

Hit == cache.stamp # 0 /\ tick - cache.stamp < Window

FromCache(v) ==
  /\ fetch[v] = NoFetch /\ Hit
  /\ answer' = [frame |-> cache.frame, age |-> tick - cache.stamp,
                at |-> tick, cached |-> TRUE]
  /\ UNCHANGED <<tick, cache, fetch, deviceVars>>

(* A miss on a stream that announces a preview_url.                        *)
StartFetch(v) ==
  /\ fetch[v] = NoFetch /\ ~Hit
  /\ fetch' = [fetch EXCEPT ![v] = [start |-> tick, frame |-> 0]]
  /\ answer' = NoAnswer
  /\ UNCHANGED <<tick, cache, deviceVars>>

(* The camera delivers: the loop replaces the frame.  It may stall at any  *)
(* moment and for any time, and nothing takes the old frame back.          *)
PutFrame ==
  /\ stored # tick
  /\ stored' = tick
  /\ answer' = NoAnswer
  /\ UNCHANGED <<tick, heldAt, cache, fetch>>

(* The stream is removed and added again: its new worker has no frame yet. *)
ReplaceWorker ==
  /\ stored # 0
  /\ stored' = 0
  /\ answer' = NoAnswer
  /\ UNCHANGED <<tick, heldAt, cache, fetch>>

(* The device's do_GET answers with the frame it holds; without one it is  *)
(* 503, which the hub takes for a failure (FetchFails).                    *)
GetFrame(v) ==
  /\ fetch[v].start # 0 /\ fetch[v].frame = 0
  /\ stored # 0
  /\ fetch' = [fetch EXCEPT ![v].frame = stored]
  /\ answer' = NoAnswer
  /\ UNCHANGED <<tick, cache, deviceVars>>

(* Mutant: the entry is stamped when the fetch ends.                       *)
EndFetch_StampsNow(v) ==
  /\ fetch[v].frame # 0
  /\ cache' = [stamp |-> tick, frame |-> fetch[v].frame]
  /\ fetch' = [fetch EXCEPT ![v] = NoFetch]
  /\ answer' = [frame |-> fetch[v].frame, age |-> 0, at |-> tick,
                cached |-> FALSE]
  /\ UNCHANGED <<tick, deviceVars>>

(* The entry is stamped with the moment the request came in.               *)
EndFetch(v) ==
  /\ fetch[v].frame # 0
  /\ cache' = [stamp |-> fetch[v].start, frame |-> fetch[v].frame]
  /\ fetch' = [fetch EXCEPT ![v] = NoFetch]
  /\ answer' = [frame |-> fetch[v].frame, age |-> 0, at |-> tick,
                cached |-> FALSE]
  /\ UNCHANGED <<tick, deviceVars>>

(* Unreachable, too slow, too large or no JPEG: 502, and no entry is left. *)
FetchFails(v) ==
  /\ fetch[v] # NoFetch
  /\ cache' = [stamp |-> 0, frame |-> 0]
  /\ fetch' = [fetch EXCEPT ![v] = NoFetch]
  /\ answer' = NoAnswer
  /\ UNCHANGED <<tick, deviceVars>>

(* A fetch is given up when its time is over.                              *)
PreviewTick ==
  /\ tick < LastTick
  /\ \A v \in Viewers : fetch[v].start # 0 => tick < fetch[v].start + FetchTimeout
  /\ tick' = tick + 1
  /\ heldAt' = [heldAt EXCEPT ![tick + 1] = stored]
  /\ answer' = NoAnswer
  /\ UNCHANGED <<stored, cache, fetch>>

PreviewNext ==
  \/ \E v \in Viewers :
       \/ FromCache(v) \/ StartFetch(v) \/ GetFrame(v) \/ EndFetch(v)
       \/ FetchFails(v)
  \/ PutFrame \/ ReplaceWorker \/ PreviewTick

PreviewSpec == PreviewInit /\ [][PreviewNext]_previewVars

-----------------------------------------------------------------------------
(* X-Preview-Age-Ms is the time since the hub asked for the picture, and   *)
(* that is a bound on what the cache adds: however the fetches overlapped, *)
(* a cached frame is at least as new as the one the device itself would    *)
(* have shown that long ago, and none is shown beyond the window           *)
(* (http_api.py, stream_preview).  It is no bound on the frame's own age:  *)
(* a stalled camera's last frame is stored, fetched and shown for ever.    *)
CachedAgeIsHonest ==
  answer.cached =>
    /\ answer.age < Window
    /\ heldAt[answer.at - answer.age] <= answer.frame
=============================================================================
