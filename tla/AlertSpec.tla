------------------------------ MODULE AlertSpec ------------------------------
(***************************************************************************)
(* What the hub promises about one alert, whatever the interleaving of     *)
(* timers, snapshots, operators, retention and restarts: the two state     *)
(* machines of HUB_SPEC section 3 (disposition and snapshot association),  *)
(* side by side, and alert ids that are handed out in increasing order and *)
(* never a second time.  AlertLifecycle implements it.                     *)
(***************************************************************************)
EXTENDS Naturals

CONSTANT MaxAlerts              \* bound on the ids handed out

VARIABLES
  disp,                         \* id -> disposition, "absent" when not stored
  snap,                         \* id -> snapshot association state
  last                          \* the largest id ever handed out

specVars == <<disp, snap, last>>

(* The only legal sources of each disposition: nothing returns to "new".   *)
LegalSource(target) ==
  IF target = "acked" THEN {"new", "dismissed"} ELSE {"new", "acked"}

SpecInit ==
  /\ disp = [i \in 1..MaxAlerts |-> "absent"]
  /\ snap = [i \in 1..MaxAlerts |-> "absent"]
  /\ last = 0

(* A new alert takes the next id; a hub-judged one waits for its evidence. *)
Raise ==
  /\ last < MaxAlerts
  /\ last' = last + 1
  /\ disp' = [disp EXCEPT ![last + 1] = "new"]
  /\ \E s \in {"pending", "none"} : snap' = [snap EXCEPT ![last + 1] = s]

(* Evidence is attached at any time before it was attached.                *)
Attach(i) ==
  /\ snap[i] \in {"pending", "timeout", "none"}
  /\ snap' = [snap EXCEPT ![i] = "received"]
  /\ UNCHANGED <<disp, last>>

Expire(i) ==
  /\ snap[i] = "pending"
  /\ snap' = [snap EXCEPT ![i] = "timeout"]
  /\ UNCHANGED <<disp, last>>

Dispose(i, target) ==
  /\ disp[i] \in LegalSource(target)
  /\ disp' = [disp EXCEPT ![i] = target]
  /\ UNCHANGED <<snap, last>>

(* Retention removes the oldest alerts together.                           *)
Retire(n) ==
  /\ n <= last
  /\ disp' = [i \in 1..MaxAlerts |-> IF i <= n THEN "absent" ELSE disp[i]]
  /\ snap' = [i \in 1..MaxAlerts |-> IF i <= n THEN "absent" ELSE snap[i]]
  /\ UNCHANGED last

SpecNext ==
  \/ Raise
  \/ \E i \in 1..MaxAlerts :
       \/ Attach(i)
       \/ Expire(i)
       \/ \E target \in {"acked", "dismissed"} : Dispose(i, target)
  \/ \E n \in 1..MaxAlerts : Retire(n)

Alerts == SpecInit /\ [][SpecNext]_specVars
=============================================================================
