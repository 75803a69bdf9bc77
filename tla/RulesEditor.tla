----------------------------- MODULE RulesEditor -----------------------------
(***************************************************************************)
(* The rules page of the workbench (web/dist/js/pages/rules.js): it loads  *)
(* the rules of the stream that is picked, lets them be drawn, dragged and *)
(* deleted, saves them all with one PUT and can go back to what was saved. *)
(* A call's answer is computed at the hub and arrives later, or never,     *)
(* when another stream may have been picked.  Another operator saves rules *)
(* of the same streams.  The session holds and the page stays open.        *)
(***************************************************************************)
EXTENDS Integers

CONSTANTS
  Edited,           \* the streams that can be picked
  MaxPicks,         \* bound on changes of the picked stream
  MaxSaves,         \* bound on the page's saves
  MaxEdits          \* bound on shapes drawn, dragged or deleted

Nobody == "nobody"

ASSUME EditorAssumption ==
  /\ Nobody \notin Edited
  /\ MaxPicks \in Nat /\ MaxSaves \in Nat /\ MaxEdits \in Nat

VARIABLES
  picked,           \* deviceId and streamId of the route, or Nobody
  body,             \* the shapes on the canvas
  saved,            \* what was last persisted as the page knows, or Unknown
  status,           \* "clean", "saving", "saved", "netfail" or "validfail"
  loading,          \* the canvas is replaced by a spinner
  gets,             \* GETs of rules on their way; one that is dead is ignored
  sends,             \* save -> its PUT
  atHub,            \* the rules table: stream -> shapes
  count,            \* history: picks and edits so far
  had,              \* history: stream -> the rules it ever had at the hub
  bodyOf, savedOf,  \* history: the stream body, or saved, was made for
  crossed           \* history: streams saved while the page held another's

page == <<picked, body, saved, status, loading>>
calls == <<gets, sends>>
origin == <<had, bodyOf, savedOf, crossed>>
editorVars == <<page, calls, atHub, count, origin>>

Picks == Edited \cup {Nobody}
Saves == 1..MaxSaves

(* A shape belongs to the stream it was drawn on; a zone that crosses      *)
(* itself or a line without length is wrong.                               *)
Places == {"here", "wrong"}
Shape(s, n, at) == [on |-> s, n |-> n, at |-> at]
FirstOf(s) == Shape(s, 0, "here")
NoShape == Shape(Nobody, 0, "here")
Unknown == {NoShape}

NoPut == [st |-> "unused", to |-> Nobody, body |-> {}]

EditorInit ==
  /\ picked = Nobody /\ body = {} /\ saved = Unknown /\ status = "clean"
  /\ loading = FALSE
  /\ gets = {} /\ sends = [i \in Saves |-> NoPut]
  /\ atHub = [s \in Edited |-> {FirstOf(s)}]
  /\ count = [picks |-> 0, edits |-> 0]
  /\ had = [s \in Edited |-> {atHub[s]}]
  /\ bodyOf = Nobody /\ savedOf = Nobody /\ crossed = {}

Ready == picked # Nobody
Dirty == saved # Unknown /\ body # saved

(* The canvas is there to be drawn on.                                     *)
Drawable == Ready /\ ~loading

-----------------------------------------------------------------------------
(* The rules of the picked stream.                                         *)

(* The clean-up of the effect: the answers still to come are ignored.      *)
Buried(calling) == {[g EXCEPT !.dead = TRUE] : g \in calling}

Pick(s) ==
  /\ s \in Picks \ {picked} /\ count.picks < MaxPicks
  /\ picked' = s /\ count' = [count EXCEPT !.picks = @ + 1]
  /\ IF s = Nobody
     THEN /\ body' = {} /\ saved' = Unknown /\ status' = "clean"
          /\ bodyOf' = Nobody /\ savedOf' = Nobody
          /\ gets' = Buried(gets) /\ UNCHANGED loading
     ELSE /\ loading' = TRUE
          /\ gets' = Buried(gets) \cup
                       {[from |-> s, no |-> count.picks, dead |-> FALSE, st |-> "asked", got |-> {}]}
          /\ UNCHANGED <<body, saved, status, bodyOf, savedOf>>
  /\ UNCHANGED <<sends, atHub, had, crossed>>

(* get_rules.                                                              *)
ServeRules(g) ==
  /\ g \in gets /\ g.st = "asked"
  /\ gets' = (gets \ {g}) \cup {[g EXCEPT !.st = "answered", !.got = atHub[g.from]]}
  /\ UNCHANGED <<page, sends, atHub, count, origin>>

(* normalizeBody of the answer replaces what the page holds.               *)
RulesArrive(g) ==
  /\ g \in gets /\ g.st = "answered"
  /\ gets' = gets \ {g}
  /\ IF g.dead THEN UNCHANGED <<page, bodyOf, savedOf>>
     ELSE /\ body' = g.got /\ saved' = g.got /\ status' = "clean" /\ loading' = FALSE
          /\ bodyOf' = picked /\ savedOf' = picked
          /\ UNCHANGED picked
  /\ UNCHANGED <<sends, atHub, count, had, crossed>>

(* What the page held stays on the canvas.                                 *)
RulesFail(g) ==
  /\ g \in gets
  /\ gets' = gets \ {g}
  /\ loading' = (loading /\ g.dead)
  /\ UNCHANGED <<picked, body, saved, status, sends, atHub, count, origin>>

-----------------------------------------------------------------------------
(* The canvas and the sidebar.  What the pointer is about is local to the  *)
(* canvas, which is taken down with every load: the points of a zone that  *)
(* is not closed, the first end of a line and a grabbed shape are left out.*)

(* What is edited while another stream's rules are shown is no stream's.   *)
Edit(shapes) ==
  /\ Drawable /\ count.edits < MaxEdits
  /\ count' = [count EXCEPT !.edits = @ + 1]
  /\ body' = shapes
  /\ bodyOf' = IF bodyOf = picked THEN picked ELSE Nobody
  /\ UNCHANGED <<picked, saved, status, loading, calls, atHub, had, savedOf, crossed>>

(* finalizeZone, with three points at least, or a line's second click.     *)
DrawShape(at) ==
  Edit(body \cup {Shape(picked, count.edits + 1, at)})

(* onPointerMove with a shape or one of its points grabbed, and the        *)
(* sidebar's patches.                                                      *)
Drag(x, at) ==
  /\ x \in body /\ x.at # at
  /\ Edit((body \ {x}) \cup {[x EXCEPT !.at = at]})

(* The delete tool or key, once confirmed, or the sidebar's button.        *)
Delete(x) ==
  x \in body /\ Edit(body \ {x})

-----------------------------------------------------------------------------
(* Save and revert.                                                        *)

LocalIssues == {x \in body : x.at = "wrong"}

(* The button is there once a stream is picked, loaded or not.             *)
Save(i) ==
  /\ Ready /\ status # "saving"
  /\ sends[i].st = "unused" /\ \A j \in Saves : j < i => sends[j].st # "unused"
  /\ IF LocalIssues # {}
     THEN status' = "validfail" /\ UNCHANGED <<sends, crossed>>
     ELSE /\ status' = "saving"
          /\ sends' = [sends EXCEPT ![i] = [st |-> "sent", to |-> picked, body |-> body]]
          /\ crossed' = IF bodyOf = picked THEN crossed ELSE crossed \cup {picked}
  /\ UNCHANGED <<picked, body, saved, loading, gets, atHub, count, had, bodyOf, savedOf>>

Stores(s, rules) ==
  /\ atHub' = [atHub EXCEPT ![s] = rules]
  /\ had' = [had EXCEPT ![s] = @ \cup {rules}]

(* put_rules: the whole of the stream's rules, or a 400.                   *)
ServeSave(i) ==
  /\ sends[i].st = "sent"
  /\ \/ Stores(sends[i].to, sends[i].body) /\ sends' = [sends EXCEPT ![i].st = "stored"]
     \/ sends' = [sends EXCEPT ![i].st = "refused"] /\ UNCHANGED <<atHub, had>>
  /\ UNCHANGED <<page, gets, count, bodyOf, savedOf, crossed>>

(* Mutant: what is on the canvas now counts as saved.                      *)
Persisted_Current(i) == body

(* save goes on with the body it was called with.                          *)
Persisted(i) == sends[i].body

SaveEnds(i) ==
  /\ sends[i].st \in {"stored", "refused"}
  /\ sends' = [sends EXCEPT ![i] = [NoPut EXCEPT !.st = "ended"]]
  /\ IF sends[i].st = "stored"
     THEN saved' = Persisted(i) /\ status' = "saved" /\ savedOf' = sends[i].to
     ELSE status' = "validfail" /\ UNCHANGED <<saved, savedOf>>
  /\ UNCHANGED <<picked, body, loading, gets, atHub, count, had, bodyOf, crossed>>

(* The network or a 5xx, before the hub stores the rules or after.         *)
SaveFails(i) ==
  /\ sends[i].st \in {"sent", "stored"}
  /\ sends' = [sends EXCEPT ![i] = [NoPut EXCEPT !.st = "ended"]]
  /\ status' = "netfail"
  /\ UNCHANGED <<picked, body, saved, loading, gets, atHub, count, origin>>

(* revert, once confirmed.                                                 *)
Revert ==
  /\ Dirty
  /\ body' = saved /\ status' = "clean" /\ bodyOf' = savedOf
  /\ UNCHANGED <<picked, saved, loading, calls, atHub, count, had, savedOf, crossed>>

(* Another operator deletes the rules of a stream, once.                   *)
OthersSave(s) ==
  /\ \A r \in Edited : {} \notin had[r]
  /\ Stores(s, {})
  /\ UNCHANGED <<page, calls, count, bodyOf, savedOf, crossed>>

-----------------------------------------------------------------------------
EditorNext ==
  \/ \E s \in Picks : Pick(s)
  \/ \E g \in gets : ServeRules(g) \/ RulesArrive(g) \/ RulesFail(g)
  \/ Revert
  \/ \E at \in Places : DrawShape(at) \/ \E x \in body : Drag(x, at)
  \/ \E x \in body : Delete(x)
  \/ \E i \in Saves : Save(i) \/ ServeSave(i) \/ SaveEnds(i) \/ SaveFails(i)
  \/ \E s \in Edited : OthersSave(s)

EditorSpec == EditorInit /\ [][EditorNext]_editorVars

-----------------------------------------------------------------------------
(* Properties.                                                             *)

(* The status line says that there is nothing left to save.                *)
Claims == Drawable /\ ~Dirty /\ status \in {"clean", "saved"}

(* When the page says that what it shows is persisted, the hub has had     *)
(* these very rules for this stream, whatever was drawn while a save was   *)
(* under way and whichever answers came late; and what the hub has for a   *)
(* stream was made for it.  The exceptions are the page's own: it keeps    *)
(* the rules of the stream before when a load is under way or has failed,  *)
(* and takes the end of a save for the stream that is picked by then.      *)
EditorIsHonest ==
  /\ Claims /\ bodyOf = picked /\ savedOf = picked => body \in had[picked]
  /\ \A s \in Edited \ crossed : \A x \in atHub[s] : x.on = s
=============================================================================
