------------------------------ MODULE WebSession ------------------------------
(***************************************************************************)
(* The workbench page as a whole: who it takes to be signed in and whether *)
(* its WebSocket is open (web/dist/js/main.js, ws.js, pages/login.js and   *)
(* the sign-out of components/topbar.js).  The cookie is the session, the  *)
(* hub may lose it or be out of reach; the page learns of it from a 401.   *)
(* Of the router only the way to and from /login is modelled.              *)
(***************************************************************************)
EXTENDS Integers

CONSTANTS
  MaxLoads,         \* bound on loads of the page
  MaxSignIns,       \* bound on sign-ins
  MaxLapses,        \* bound on sessions that end at the hub
  MaxOutages        \* bound on outages of the hub

ASSUME WebSessionAssumption ==
  /\ MaxLoads \in Nat \ {0} /\ MaxSignIns \in Nat
  /\ MaxLapses \in Nat /\ MaxOutages \in Nat

VARIABLES
  cookie,           \* the hub would accept the browser's cookie
  reachable,        \* the hub answers
  rotate,           \* the account's must_change
  boot,             \* where bootstrap() stands
  user,             \* session.user is set
  mustChange,       \* session.mustChange
  onLogin,          \* the route is /login
  effectDue,        \* App has to run its effect on [user, checked]
  wsStarted,        \* main.js
  stopped, sock,    \* ws.js; sock is "none", "opening" or "open"
  retry,            \* retryTimer runs
  badge,            \* conn of the store
  probing,          \* probeSession: "no", "asked", "fine" or "refused"
  happened,         \* history: loads, sign-ins, lapses and outages so far
  wasOut            \* history: signed out since the page was loaded

hub == <<cookie, reachable, rotate>>
who == <<user, mustChange, onLogin, effectDue>>
socket == <<wsStarted, stopped, sock, retry, badge>>
webVars == <<hub, boot, who, socket, probing, happened, wasOut>>

Fresh ==
  /\ boot' = "session" /\ user' = FALSE /\ mustChange' = FALSE /\ onLogin' = FALSE
  /\ effectDue' = FALSE /\ wsStarted' = FALSE /\ stopped' = FALSE /\ sock' = "none"
  /\ retry' = FALSE /\ badge' = "offline" /\ probing' = "no" /\ wasOut' = FALSE

WebInit ==
  /\ cookie \in BOOLEAN /\ reachable = TRUE /\ rotate \in BOOLEAN
  /\ boot = "session" /\ user = FALSE /\ mustChange = FALSE /\ onLogin = FALSE
  /\ effectDue = FALSE /\ wsStarted = FALSE /\ stopped = FALSE /\ sock = "none"
  /\ retry = FALSE /\ badge = "offline" /\ probing = "no" /\ wasOut = FALSE
  /\ happened = [loads |-> 1, signIns |-> 0, lapses |-> 0, outages |-> 0]

Happens(what, limit) ==
  happened[what] < limit /\ happened' = [happened EXCEPT ![what] = @ + 1]

-----------------------------------------------------------------------------
(* The socket.                                                             *)

(* Mutant: the socket is closed and a retry is still to come.              *)
StopWs_KeepsTrying ==
  stopped' = FALSE /\ retry' = TRUE /\ sock' = "none" /\ badge' = "offline"

(* stopWs: onclose of the socket it closes finds "stopped" and returns.    *)
StopWs == stopped' = TRUE /\ retry' = FALSE /\ sock' = "none" /\ badge' = "offline"

(* ensureWs: startWs is called once in the life of the page.               *)
EnsureWs ==
  IF wsStarted THEN UNCHANGED <<wsStarted, stopped, sock, retry, badge>>
  ELSE /\ wsStarted' = TRUE /\ stopped' = FALSE /\ sock' = "opening"
       /\ UNCHANGED <<retry, badge>>

(* onopen.                                                                 *)
SockOpens ==
  /\ sock = "opening" /\ reachable /\ cookie
  /\ sock' = "open" /\ badge' = "connected"
  /\ UNCHANGED <<hub, boot, who, wsStarted, stopped, retry, probing, happened, wasOut>>

(* onclose: the handshake is refused or the hub is out of reach.           *)
SockIsLost ==
  /\ \/ sock = "opening" /\ ~(reachable /\ cookie)
     \/ sock = "open" /\ ~reachable
  /\ sock' = "none"
  /\ IF stopped THEN UNCHANGED <<retry, badge, probing>>
     ELSE /\ retry' = TRUE /\ badge' \in {"reconnecting", "offline"}
          /\ probing' = IF probing = "no" THEN "asked" ELSE probing
  /\ UNCHANGED <<hub, boot, who, wsStarted, stopped, happened, wasOut>>

(* open, when the backoff is over.                                         *)
Reopen ==
  /\ retry /\ retry' = FALSE
  /\ sock' = IF stopped THEN sock ELSE "opening"
  /\ UNCHANGED <<hub, boot, who, wsStarted, stopped, badge, probing, happened, wasOut>>

-----------------------------------------------------------------------------
(* Who is signed in.                                                       *)

SignedOut ==
  user' = FALSE /\ mustChange' = FALSE /\ onLogin' = TRUE /\ effectDue' = TRUE /\ wasOut' = TRUE

SignedIn(change) ==
  user' = TRUE /\ mustChange' = change /\ onLogin' = change /\ effectDue' = TRUE

(* bootstrap, up to the answer of GET /auth/session.                       *)
BootSession ==
  /\ boot = "session"
  /\ IF reachable /\ cookie
     THEN /\ SignedIn(rotate) /\ UNCHANGED wasOut
          /\ boot' = IF rotate THEN "done" ELSE "devices"
     ELSE /\ boot' = "done" /\ onLogin' = TRUE
          /\ UNCHANGED <<user, mustChange, effectDue, wasOut>>
  /\ UNCHANGED <<hub, socket, probing, happened>>

(* The answer of GET /devices.  A 401 has called toLogin by now, and       *)
(* ensureWs follows all the same.                                          *)
BootDevices ==
  /\ boot = "devices" /\ boot' = "done"
  /\ IF reachable /\ ~cookie
     THEN /\ SignedOut
          /\ wsStarted' = TRUE /\ stopped' = wsStarted /\ retry' = FALSE /\ badge' = "offline"
          /\ sock' = IF wsStarted THEN "none" ELSE "opening"
     ELSE EnsureWs /\ UNCHANGED <<who, wasOut>>
  /\ UNCHANGED <<hub, probing, happened>>

(* The effect of App.                                                      *)
RunEffect ==
  /\ effectDue /\ effectDue' = FALSE
  /\ IF user THEN EnsureWs ELSE UNCHANGED socket
  /\ UNCHANGED <<hub, boot, user, mustChange, onLogin, probing, happened, wasOut>>

(* toLogin, called for every 401.                                          *)
ToLogin == StopWs /\ SignedOut /\ UNCHANGED wsStarted

(* A call of the page is answered with a 401.                              *)
CallRefused ==
  /\ user /\ reachable /\ ~cookie /\ ToLogin
  /\ UNCHANGED <<hub, boot, probing, happened>>

(* probeSession.  Its answer may be about a session before this one.       *)
ServeProbe ==
  /\ probing = "asked"
  /\ probing' = IF ~reachable THEN "no" ELSE IF cookie THEN "fine" ELSE "refused"
  /\ UNCHANGED <<hub, boot, who, socket, happened, wasOut>>

ProbeEnds ==
  /\ probing \in {"fine", "refused"} /\ probing' = "no"
  /\ IF probing = "refused" THEN ToLogin ELSE UNCHANGED <<who, socket, wasOut>>
  /\ UNCHANGED <<hub, boot, happened>>

(* submit of the login page.                                               *)
SignIn ==
  /\ boot = "done" /\ ~user /\ reachable /\ Happens("signIns", MaxSignIns)
  /\ cookie' = TRUE /\ SignedIn(rotate)
  /\ UNCHANGED <<reachable, rotate, boot, socket, probing, wasOut>>

(* submitChange; the hub keeps the session.                                *)
ChangePassword ==
  /\ user /\ mustChange /\ reachable /\ cookie
  /\ rotate' = FALSE /\ mustChange' = FALSE /\ onLogin' = FALSE
  /\ UNCHANGED <<cookie, reachable, boot, user, effectDue, socket, probing, happened, wasOut>>

(* logout of the top bar, whatever comes of its call.                      *)
SignOut ==
  /\ user /\ ~onLogin
  /\ cookie' = (cookie /\ ~reachable)
  /\ StopWs /\ SignedOut
  /\ UNCHANGED <<reachable, rotate, boot, wsStarted, probing, happened>>

-----------------------------------------------------------------------------
(* What happens around the page.                                           *)

Lapse ==
  /\ cookie /\ Happens("lapses", MaxLapses) /\ cookie' = FALSE
  /\ UNCHANGED <<reachable, rotate, boot, who, socket, probing, wasOut>>

Outage ==
  /\ reachable /\ Happens("outages", MaxOutages) /\ reachable' = FALSE
  /\ UNCHANGED <<cookie, rotate, boot, who, socket, probing, wasOut>>

HubIsBack ==
  /\ ~reachable /\ reachable' = TRUE
  /\ UNCHANGED <<cookie, rotate, boot, who, socket, probing, happened, wasOut>>

Reload == Happens("loads", MaxLoads) /\ Fresh /\ UNCHANGED hub

PageRuns ==
  \/ SockOpens \/ SockIsLost \/ Reopen \/ BootSession \/ BootDevices
  \/ RunEffect \/ ServeProbe \/ ProbeEnds

WebNext ==
  \/ PageRuns \/ CallRefused \/ SignIn \/ ChangePassword \/ SignOut
  \/ Lapse \/ Outage \/ HubIsBack \/ Reload

(* The browser runs callbacks, timers and effects, and calls end.  Each    *)
(* step of the page is one of its own, so that a retry that goes on and on *)
(* does not stand for the others.                                          *)
WebFairness ==
  /\ WF_webVars(SockOpens) /\ WF_webVars(SockIsLost) /\ WF_webVars(Reopen)
  /\ WF_webVars(BootSession) /\ WF_webVars(BootDevices) /\ WF_webVars(RunEffect)
  /\ WF_webVars(ServeProbe) /\ WF_webVars(ProbeEnds)

WebSpec == WebInit /\ [][WebNext]_webVars /\ WebFairness

-----------------------------------------------------------------------------
(* Properties.                                                             *)

Served == user /\ cookie /\ reachable

(* Who is signed in for good has live alerts: the socket is open again and *)
(* again while the session and the hub hold (FRONTEND_SPEC 3.1).           *)
SignedInIsConnected == <>[]Served => []<>(sock = "open")

(* The socket follows the session: who is signed in for good on a page     *)
(* that was not signed out since it was loaded is connected, whichever of  *)
(* the effect and bootstrap starts the socket and whatever was out of      *)
(* reach; and a page that is signed out for good comes to rest and opens   *)
(* no socket any more (main.js ensureWs, toLogin, ws.js).                  *)
SocketFollowsSession ==
  /\ <>[](Served /\ ~wasOut) => <>[](sock = "open")
  /\ <>[](~user /\ reachable) => <>[](sock # "opening" /\ ~retry)
=============================================================================
