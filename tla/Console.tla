------------------------------- MODULE Console -------------------------------
(***************************************************************************)
(* What an operator's browser shows of the hub's alerts: the push of       *)
(* alert.new and alert.update to its socket (hub/edge_hub/http_api.py      *)
(* broadcast), the list pulled by the alerts page, the catch-up after a    *)
(* reconnect (web/dist/js/ws.js), the store (store.js), and dispositions   *)
(* that wait five seconds for an undo (undo.js).  Another operator acts on *)
(* the same alerts.  REST calls and the socket are connections of their    *)
(* own: a response is computed at the hub and arrives later, or never.     *)
(* The operator is logged in and on the alerts page, without a filter and  *)
(* with fewer alerts than the page's limit.                                *)
(***************************************************************************)
EXTENDS Integers, FiniteSetsExt, SequencesExt

CONSTANTS
  Stored,           \* alerts in the table when the page is opened
  MaxAlerts,        \* bound on the alerts
  MaxEvents,        \* bound on alerts, changes of rows by others and dispositions
  CatchUpLimit,     \* rows of one catch-up
  MaxOpens,         \* bound on WebSocket connections
  MaxStages,        \* bound on dispositions of this browser
  Targets,          \* the dispositions made in this browser
  OthersTargets     \* the dispositions of the other operator

ASSUME ConsoleAssumption ==
  /\ MaxAlerts \in Nat /\ Stored \in 0..MaxAlerts /\ MaxEvents \in Nat
  /\ CatchUpLimit \in Nat \ {0} /\ MaxOpens \in Nat \ {0} /\ MaxStages \in Nat
  /\ Targets \cup OthersTargets \subseteq {"acked", "dismissed"}

Ids == 1..MaxAlerts
Opens == 1..MaxOpens
Stages == 1..MaxStages

VARIABLES
  rows,             \* the alerts table: id -> state of the row
  casts,            \* broadcasts that have yet to write to this socket; two
                    \* that are equal are one
  wire,             \* messages written to this socket
  conn, opens,      \* whether the socket is open; connections so far
  list,             \* state.alerts: id -> the state shown, or NotShown
  lastId,           \* state.lastAlertId
  load,             \* the GET of the alerts page
  catchUps,         \* connection -> its catch-up GET
  stages,           \* disposition -> where it stands
  changes,          \* history: changes by others so far
  had,              \* history: id -> states the row had at the hub
  rang,             \* history: id -> times the console rang for it
  dropped,          \* history: ids that a page load took off the list
  forfeited         \* history: ids not shown that a call should have brought

feed == <<casts, wire, conn, opens>>
calls == <<load, catchUps>>
history == <<changes, had, rang, dropped, forfeited>>
vars == <<rows, feed, list, lastId, calls, stages, history>>

NotShown == "absent"
Shown == {i \in Ids : list[i] # NotShown}

Message(type, i, state) == [type |-> type, id |-> i, state |-> state]
Call(st, after, got) == [st |-> st, after |-> after, got |-> got]
NoRows == [i \in {} |-> "new"]
Unstaged == [st |-> "unused", target |-> "acked", ids |-> {}, prev |-> NoRows,
             timer |-> FALSE, todo |-> {}, done |-> NoRows]

Init ==
  /\ rows = [i \in 1..Stored |-> "new"]
  /\ casts = {} /\ wire = <<>> /\ conn = FALSE /\ opens = 0
  /\ list = [i \in Ids |-> NotShown] /\ lastId = 0
  /\ load = Call("asked", 0, NoRows)
  /\ catchUps = [e \in Opens |-> Call("unused", 0, NoRows)]
  /\ stages = [t \in Stages |-> Unstaged]
  /\ changes = 0 /\ had = [i \in Ids |-> {"new"}]
  /\ rang = [i \in Ids |-> 0] /\ dropped = {} /\ forfeited = {}

Events == Len(rows) - Stored + changes + Cardinality({t \in Stages : stages[t].st # "unused"})
MoreHappens == Events < MaxEvents

-----------------------------------------------------------------------------
(* The hub.                                                                *)

(* broadcast writes to the sockets there are when it starts.               *)
Broadcast(m) == casts' = IF conn THEN casts \cup {m} ELSE casts

(* The ingest task waits for its own broadcast.                            *)
IngestIsFree == \A m \in casts : m.type # "alert.new"

(* AlertManager.fire, up to its push, by the ingest task; an operator's    *)
(* simulated alerts, fired by another task, are left out.                  *)
Fire ==
  /\ Len(rows) < MaxAlerts /\ MoreHappens /\ IngestIsFree
  /\ rows' = Append(rows, "new")
  /\ Broadcast(Message("alert.new", Len(rows) + 1, "new"))
  /\ UNCHANGED <<wire, conn, opens, list, lastId, calls, stages, history>>

Change(i, state) ==
  /\ rows' = [rows EXCEPT ![i] = state]
  /\ Broadcast(Message("alert.update", i, state))
  /\ had' = [had EXCEPT ![i] = @ \cup {state}]

Inserted == 1..Len(rows)

(* LEGAL_TRANSITIONS: from any state but the target itself.                *)
Legal(i, target) == rows[i] # target

(* A snapshot arrives or is given up, or another operator disposes of it.  *)
ChangeByOthers(i) ==
  /\ i \in Inserted /\ MoreHappens
  /\ changes' = changes + 1
  /\ \/ Change(i, rows[i])
     \/ \E target \in OthersTargets : Legal(i, target) /\ Change(i, target)
  /\ UNCHANGED <<wire, conn, opens, list, lastId, calls, stages, rang, dropped, forfeited>>

(* One broadcast gets to this socket; the others may be ahead or behind.   *)
Push(m) ==
  /\ m \in casts
  /\ casts' = casts \ {m}
  /\ wire' = Append(wire, m)
  /\ UNCHANGED <<rows, conn, opens, list, lastId, calls, stages, history>>

(* query_alerts with after_id: ascending ids, limit rows.                  *)
RowsAfter(after, limit) ==
  LET more == {i \in Inserted : i > after}
  IN  [i \in {j \in more : Cardinality({k \in more : k < j}) < limit} |-> rows[i]]

-----------------------------------------------------------------------------
(* The list.                                                               *)

(* Mutant: a row that is replaced counts as new.                           *)
Upserted_AlwaysNew(got) ==
  /\ list' = [i \in Ids |-> IF i \in DOMAIN got THEN got[i] ELSE list[i]]
  /\ lastId' = Max({lastId} \cup (DOMAIN got \ Shown))
  /\ rang' = [i \in Ids |-> IF i \in DOMAIN got THEN rang[i] + 1 ELSE rang[i]]
  /\ forfeited' = forfeited \ DOMAIN got

(* upsertAlert of the rows got; the console rings for those that are new.  *)
Upserted(got) ==
  /\ list' = [i \in Ids |-> IF i \in DOMAIN got THEN got[i] ELSE list[i]]
  /\ lastId' = Max({lastId} \cup (DOMAIN got \ Shown))
  /\ rang' = [i \in Ids |-> IF i \in DOMAIN got \ Shown THEN rang[i] + 1 ELSE rang[i]]
  /\ forfeited' = forfeited \ DOMAIN got

(* A call did not bring these ids.                                         *)
Forfeits(ids) == forfeited' = forfeited \cup (ids \ Shown)

(* handle(msg).  A row that is not shown is pulled when it is updated, as  *)
(* are the rows without a snapshot after a catch-up, but the answer of     *)
(* GET /alerts/{id} has no id at its top: upsertAlert changes no alert.    *)
Receive ==
  /\ conn /\ wire # <<>>
  /\ wire' = Tail(wire)
  /\ LET m == Head(wire)
     IN  IF m.type = "alert.new" \/ m.id \in Shown
         THEN Upserted([i \in {m.id} |-> m.state])
         ELSE UNCHANGED <<list, lastId, rang, forfeited>>
  /\ UNCHANGED <<rows, casts, conn, opens, calls, stages, changes, had, dropped>>

ServeLoad ==
  /\ load.st = "asked"
  /\ load' = Call("answered", 0, [i \in Inserted |-> rows[i]])
  /\ UNCHANGED <<rows, feed, list, lastId, catchUps, stages, history>>

(* setAlerts replaces the list whatever was pushed since the answer.       *)
LoadArrives ==
  /\ load.st = "answered"
  /\ LET got == DOMAIN load.got
     IN  /\ list' = [i \in Ids |-> IF i \in got THEN load.got[i] ELSE NotShown]
         /\ lastId' = Max({0} \cup got)
         /\ dropped' = dropped \cup (Shown \ got)
         /\ forfeited' = (forfeited \cup Shown) \ got
  /\ load' = Call("done", 0, NoRows)
  /\ UNCHANGED <<rows, feed, catchUps, stages, changes, had, rang>>

LoadFails ==
  /\ load.st \in {"asked", "answered"}
  /\ load' = Call("done", 0, NoRows)
  /\ Forfeits(IF load.st = "asked" THEN Inserted ELSE DOMAIN load.got)
  /\ UNCHANGED <<rows, feed, list, lastId, catchUps, stages, changes, had, rang, dropped>>

-----------------------------------------------------------------------------
(* The socket and the catch-up.                                            *)

(* Mutant: the catch-up starts one after the next id.                      *)
CatchUp_SkipsOne == Call(IF lastId > 0 THEN "asked" ELSE "done", lastId + 1, NoRows)

(* catchUp up to its first await; an empty list asks for nothing.          *)
CatchUp == Call(IF lastId > 0 THEN "asked" ELSE "done", lastId, NoRows)

Connect ==
  /\ ~conn /\ opens < MaxOpens
  /\ conn' = TRUE /\ opens' = opens + 1
  /\ catchUps' = [catchUps EXCEPT ![opens + 1] = CatchUp]
  /\ Forfeits(IF lastId > 0 THEN {} ELSE Inserted)
  /\ UNCHANGED <<rows, casts, wire, list, lastId, load, stages, changes, had, rang, dropped>>

(* The connection is lost with what was on it.  The last one stays.        *)
Cut ==
  /\ conn /\ opens < MaxOpens
  /\ conn' = FALSE
  /\ casts' = {} /\ wire' = <<>>
  /\ UNCHANGED <<rows, opens, list, lastId, calls, stages, history>>

ServeCatchUp(e) ==
  /\ catchUps[e].st = "asked"
  /\ LET after == catchUps[e].after
         got == RowsAfter(after, CatchUpLimit)
     IN  /\ catchUps' = [catchUps EXCEPT ![e] = Call("answered", after, got)]
         /\ Forfeits({i \in Inserted : i > after} \ DOMAIN got)
  /\ UNCHANGED <<rows, feed, list, lastId, load, stages, changes, had, rang, dropped>>

CatchUpArrives(e) ==
  /\ catchUps[e].st = "answered"
  /\ Upserted(catchUps[e].got)
  /\ catchUps' = [catchUps EXCEPT ![e] = Call("done", 0, NoRows)]
  /\ UNCHANGED <<rows, feed, load, stages, changes, had, dropped>>

(* The exception is swallowed.                                             *)
CatchUpFails(e) ==
  /\ catchUps[e].st \in {"asked", "answered"}
  /\ catchUps' = [catchUps EXCEPT ![e] = Call("done", 0, NoRows)]
  /\ Forfeits(IF catchUps[e].st = "asked"
              THEN {i \in Inserted : i > catchUps[e].after}
              ELSE DOMAIN catchUps[e].got)
  /\ UNCHANGED <<rows, feed, list, lastId, load, stages, changes, had, rang, dropped>>

-----------------------------------------------------------------------------
(* Dispositions.                                                           *)

Queued == {t \in Stages : stages[t].st = "queued"}

(* flush, up to its first await.                                           *)
Flushed(entry) == [entry EXCEPT !.st = "sent", !.timer = FALSE, !.todo = @ \cup entry.ids]

(* Mutant: a disposition that is queued gives way silently.                *)
Superseded_Dropped(entry) == [entry EXCEPT !.timer = FALSE]

(* A new disposition commits the one that is queued.                       *)
Superseded(entry) == Flushed(entry)

Stage(t, target, ids) ==
  /\ stages[t].st = "unused" /\ MoreHappens
  /\ \A u \in Stages : u < t => stages[u].st # "unused"
  /\ ids # {} /\ ids \subseteq Shown
  /\ stages' = [u \in Stages |->
       IF u = t THEN [Unstaged EXCEPT !.st = "queued", !.target = target, !.ids = ids,
                                      !.prev = [i \in ids |-> list[i]], !.timer = TRUE]
       ELSE IF u \in Queued THEN Superseded(stages[u])
       ELSE stages[u]]
  /\ list' = [i \in Ids |-> IF i \in ids THEN target ELSE list[i]]
  /\ UNCHANGED <<rows, feed, lastId, calls, history>>

(* The five seconds are over.                                              *)
Timer(t) ==
  /\ stages[t].timer
  /\ stages' = [stages EXCEPT ![t] = Flushed(@)]
  /\ UNCHANGED <<rows, feed, list, lastId, calls, history>>

(* Mutant: nothing is put back.                                            *)
Restored_Nothing(prev) == list' = list

(* restoreAlerts puts back the state each row had when it was staged.      *)
Restored(prev) ==
  list' = [i \in Ids |-> IF i \in DOMAIN prev /\ i \in Shown
                         THEN prev[i] ELSE list[i]]

(* Mutant: the timer is not cleared.                                       *)
Undone_TimerRuns(entry) == [entry EXCEPT !.st = "undone"]

Undone(entry) == [Unstaged EXCEPT !.st = "undone", !.target = entry.target]

Undo(t) ==
  /\ t \in Queued
  /\ stages' = [stages EXCEPT ![t] = Undone(@)]
  /\ Restored(stages[t].prev)
  /\ UNCHANGED <<rows, feed, lastId, calls, history>>

(* The hub takes the ids of a request one by one, broadcasting in between. *)
ServeDisposition(t) ==
  /\ stages[t].todo # {}
  /\ LET i == Min(stages[t].todo)
         target == stages[t].target
     IN  IF Legal(i, target)
         THEN /\ Change(i, target)
              /\ stages' = [stages EXCEPT ![t].todo = @ \ {i},
                                          ![t].done = [j \in DOMAIN @ \cup {i} |-> target]]
         ELSE /\ stages' = [stages EXCEPT ![t].todo = @ \ {i}]
              /\ UNCHANGED <<rows, casts, had>>
  /\ UNCHANGED <<wire, conn, opens, list, lastId, calls, changes, rang, dropped, forfeited>>

(* The answer of a batch has the rows; that of one alert has no id at the  *)
(* top and changes nothing, nor does the pull of a row that was skipped.   *)
DispositionEnds(t) ==
  /\ stages[t].st = "sent" /\ stages[t].todo = {}
  /\ stages' = [stages EXCEPT ![t] = [Unstaged EXCEPT !.st = "ended"]]
  /\ LET got == IF Cardinality(stages[t].ids) > 1 THEN stages[t].done ELSE NoRows
     IN  list' = [i \in Ids |-> IF i \in DOMAIN got /\ i \in Shown THEN got[i] ELSE list[i]]
  /\ UNCHANGED <<rows, feed, lastId, calls, history>>

(* The call fails, before the hub has it or after.                         *)
DispositionFails(t) ==
  /\ stages[t].st = "sent"
  /\ \E todo \in {{}, stages[t].todo} :
       stages' = [stages EXCEPT ![t] = [Unstaged EXCEPT !.st = "failed", !.target = stages[t].target,
                                                        !.todo = todo]]
  /\ Restored(stages[t].prev)
  /\ UNCHANGED <<rows, feed, lastId, calls, history>>

-----------------------------------------------------------------------------
Next ==
  \/ Fire \/ \E i \in Ids : ChangeByOthers(i)
  \/ \E m \in casts : Push(m)
  \/ Receive \/ ServeLoad \/ LoadArrives \/ LoadFails \/ Connect \/ Cut
  \/ \E e \in Opens : ServeCatchUp(e) \/ CatchUpArrives(e) \/ CatchUpFails(e)
  \/ \E t \in Stages : \/ \E target \in Targets, ids \in SUBSET Ids : Stage(t, target, ids)
                       \/ Timer(t) \/ Undo(t)
                       \/ ServeDisposition(t) \/ DispositionEnds(t) \/ DispositionFails(t)

Spec == Init /\ [][Next]_vars

(* The hub's event loop and the browser's run what is ready, timers fire,  *)
(* calls end one way or another, and the socket is opened again after its  *)
(* backoff.  Nothing is assumed of the hub's alerts or of the operators.   *)
(* No step can be taken forever, so fairness to their disjunction will do. *)
Ready ==
  \/ \E m \in casts : Push(m)
  \/ Receive \/ ServeLoad \/ LoadArrives \/ LoadFails \/ Connect
  \/ \E e \in Opens : ServeCatchUp(e) \/ CatchUpArrives(e) \/ CatchUpFails(e)
  \/ \E t \in Stages : \/ Timer(t) \/ ServeDisposition(t)
                       \/ DispositionEnds(t) \/ DispositionFails(t)

FairSpec == Spec /\ WF_vars(Ready)

-----------------------------------------------------------------------------
(* Properties.                                                             *)

States == Targets \cup OthersTargets \cup {"new"}
HoldsRows(got) == DOMAIN got \subseteq Ids /\ \A i \in DOMAIN got : got[i] \in States

(* Every variable has its type, and at most one disposition is queued.     *)
TypeOK ==
  /\ rows \in Seq(States) /\ Len(rows) <= MaxAlerts
  /\ casts \cup ToSet(wire) \subseteq
       [type : {"alert.new", "alert.update"}, id : Ids, state : States]
  /\ conn \in BOOLEAN /\ opens \in 0..MaxOpens
  /\ list \in [Ids -> States \cup {NotShown}] /\ lastId \in 0..MaxAlerts
  /\ load.st \in {"asked", "answered", "done"} /\ HoldsRows(load.got)
  /\ \A e \in Opens : /\ catchUps[e].st \in {"unused", "asked", "answered", "done"}
                      /\ HoldsRows(catchUps[e].got)
  /\ \A t \in Stages : /\ stages[t].st \in {"unused", "queued", "undone", "sent", "failed", "ended"}
                       /\ HoldsRows(stages[t].prev) /\ HoldsRows(stages[t].done)
                       /\ stages[t].ids \cup stages[t].todo \subseteq Ids
                       /\ stages[t].timer <=> t \in Queued
  /\ Cardinality(Queued) <= 1
  /\ changes \in 0..MaxEvents /\ had \in [Ids -> SUBSET States]
  /\ rang \in [Ids -> Nat] /\ dropped \subseteq Ids /\ forfeited \subseteq Ids

(* The console rings once for an alert, however its push and the catch-ups *)
(* of several connections overlap, unless a page load took the alert off   *)
(* the list in between (ws.js handle and catchUp, store.js upsertAlert).   *)
RingsOnce == \A i \in Ids \ dropped : rang[i] <= 1

(* What still brings alert i: the next catch-up, a push, or a call.        *)
Owed(i) ==
  \/ ~conn /\ i > lastId
  \/ \E m \in casts \cup ToSet(wire) : m.type = "alert.new" /\ m.id = i
  \/ \E e \in Opens : \/ catchUps[e].st = "asked" /\ i > catchUps[e].after
                      \/ catchUps[e].st = "answered" /\ i \in DOMAIN catchUps[e].got
  \/ load.st = "asked"
  \/ load.st = "answered" /\ i \in DOMAIN load.got

(* No alert is lost between the push and the catch-up: one that is not     *)
(* shown is on its way, or a call that should have brought it failed, was  *)
(* cut at its limit, was not made because the list was empty, or was       *)
(* overwritten by a page load (FRONTEND_SPEC 7).                           *)
NoneSlipsThrough == \A i \in Inserted : i \in Shown \/ Owed(i) \/ i \in forfeited

(* Every alert is shown in the end, with the same exceptions, and every    *)
(* disposition is undone or its call is made and ends: the next one does   *)
(* not drop it (undo.js stage).                                            *)
ConsoleSettles ==
  []<>(/\ Inserted \subseteq Shown \cup forfeited
       /\ \A t \in Stages : stages[t].st \in {"unused", "undone", "ended", "failed"})

(* A disposition that was undone never reaches the hub, whatever was      *)
(* staged before or after it and whichever timer fires (undo.js undoNow).  *)
UndoneNeverSent ==
  [][\A t \in Stages : stages[t].st = "undone" => stages'[t] = stages[t]]_vars

(* While no disposition of this browser has failed, a row shows a state    *)
(* that it had at the hub, or one that this browser has asked for and the  *)
(* hub has yet to answer: no guess stays on the screen, however pushes,    *)
(* undos and answers overlap (undo.js stage, undoNow, flush).              *)
ShownIsReal ==
  (\A t \in Stages : stages[t].st # "failed")
    => \A i \in Shown : \/ list[i] \in had[i]
                        \/ \E t \in Stages : /\ stages[t].st \in {"queued", "sent"}
                                             /\ i \in stages[t].ids
                                             /\ list[i] = stages[t].target
=============================================================================
