------------------------------ MODULE Sessions ------------------------------
(***************************************************************************)
(* The single account and its login sessions (auth.py) in the SQLite file  *)
(* (storage.py), the middleware that resolves the cookie and the handlers  *)
(* behind it (http_api.py), and the first start (app.py run).              *)
(*                                                                         *)
(* A request is resolved by the middleware and its handler may then await  *)
(* the body: what was resolved may have ended when the handler goes on.    *)
(***************************************************************************)
EXTENDS Naturals, FiniteSets

CONSTANTS
  MaxTokens,        \* bound on the sessions ever issued
  MaxPasswords,     \* bound on the passwords ever set
  IdleTimes,        \* values session_idle_days may take
  MaxTime,          \* bound on the wall clock
  AdminPassword     \* TRUE: HUB_ADMIN_PASSWORD is set

Tokens == 1..MaxTokens
Passwords == 1..MaxPasswords

ASSUME SessionAssumption ==
  /\ MaxTokens \in Nat /\ MaxPasswords \in Nat \ {0} /\ MaxTime \in Nat \ {0}
  /\ IdleTimes \subseteq Nat \ {0} /\ IdleTimes # {}
  /\ AdminPassword \in BOOLEAN

VARIABLES
  clock,              \* wall clock
  idle,             \* auth.idle_ms, from the hub's settings
  expires,          \* sessions table: token -> deadline, 0 without a row
  issued,           \* tokens handed out so far
  password,         \* auth table: 0 without an account
  readable,         \* the password somebody was shown, in the log or a file
  server,           \* "down", "created", "changing" or "up"
  held,             \* tokens whose POST /auth/password awaits its body
  keeper,           \* the token that is changing the password, 0 without one
  upgrading,        \* tokens whose WebSocket handshake is being answered
  sockets,          \* tokens whose WebSocket is open
  barred            \* history: tokens a confirmed password change has ended

sessionVars == <<clock, idle, expires, issued, password, readable, server, held,
                 keeper, upgrading, sockets, barred>>

Live == {t \in Tokens : expires[t] > clock}

SessionInit ==
  /\ clock = 1 /\ idle \in IdleTimes
  /\ expires = [t \in Tokens |-> 0] /\ issued = 0
  /\ password = 0 /\ readable = 0
  /\ server = "down"
  /\ held = {} /\ keeper = 0 /\ upgrading = {} /\ sockets = {} /\ barred = {}

-----------------------------------------------------------------------------
(* Start and end of the process.                                           *)

(* purge_expired_sessions, once per start.                                 *)
Swept == [t \in Tokens |-> IF expires[t] <= clock THEN 0 ELSE expires[t]]

(* AuthManager.__init__ and ensure_default_account: an empty auth table    *)
(* gets its account, which commits at once.                                *)
StartHub ==
  /\ server = "down"
  /\ expires' = Swept
  /\ IF password = 0
     THEN /\ password' = 1
          /\ readable' = IF AdminPassword THEN 1 ELSE readable
          /\ server' = "created"
     ELSE server' = "up" /\ UNCHANGED <<password, readable>>
  /\ UNCHANGED <<clock, idle, issued, held, keeper, upgrading, sockets, barred>>

(* run(): the generated password goes to initial-password.txt, if that can *)
(* be written, and in any case to the log.                                 *)
ShowPassword ==
  /\ server = "created"
  /\ readable' = password
  /\ server' = "up"
  /\ UNCHANGED <<clock, idle, expires, issued, password, held, keeper, upgrading,
                 sockets, barred>>

CrashHub ==
  /\ server # "down"
  /\ server' = "down"
  /\ held' = {} /\ keeper' = 0 /\ upgrading' = {} /\ sockets' = {}
  /\ UNCHANGED <<clock, idle, expires, issued, password, readable, barred>>

-----------------------------------------------------------------------------
(* Requests.                                                               *)

(* POST /auth/login with the right password: an open path, no cookie.      *)
Login ==
  /\ server = "up" /\ issued < MaxTokens
  /\ readable = password
  /\ issued' = issued + 1
  /\ expires' = [expires EXCEPT ![issued + 1] = clock + idle]
  /\ UNCHANGED <<clock, idle, password, readable, server, held, keeper,
                 upgrading, sockets, barred>>

(* Mutant: a row past its deadline is pushed forward like any other.       *)
Resolve_NoDeadline(t) ==
  /\ expires[t] # 0
  /\ expires' = [expires EXCEPT ![t] = clock + idle]

(* auth_middleware and AuthManager.resolve on a live row: the deadline     *)
(* slides to idle_ms from now.                                             *)
Resolve(t) ==
  /\ expires[t] > clock
  /\ expires' = [expires EXCEPT ![t] = clock + idle]

(* Any request that reads, or changes other state without awaiting it.     *)
Request(t) ==
  /\ server = "up" /\ Resolve(t)
  /\ UNCHANGED <<clock, idle, issued, password, readable, server, held, keeper,
                 upgrading, sockets, barred>>

(* A row past its deadline is deleted on sight, the caller gets a 401.     *)
RequestLapsed(t) ==
  /\ server = "up" /\ expires[t] # 0 /\ expires[t] <= clock
  /\ expires' = [expires EXCEPT ![t] = 0]
  /\ UNCHANGED <<clock, idle, issued, password, readable, server, held, keeper,
                 upgrading, sockets, barred>>

(* POST /auth/logout: resolved, then deleted.                              *)
Logout(t) ==
  /\ server = "up" /\ t \in Live
  /\ expires' = [expires EXCEPT ![t] = 0]
  /\ UNCHANGED <<clock, idle, issued, password, readable, server, held, keeper,
                 upgrading, sockets, barred>>

(* GET /ws: resolved, then the upgrade is awaited.                         *)
Handshake(t) ==
  /\ server = "up" /\ t \notin upgrading \cup sockets /\ Resolve(t)
  /\ upgrading' = upgrading \cup {t}
  /\ UNCHANGED <<clock, idle, issued, password, readable, server, held, keeper,
                 sockets, barred>>

SocketOpens(t) ==
  /\ server = "up" /\ t \in upgrading
  /\ upgrading' = upgrading \ {t} /\ sockets' = sockets \cup {t}
  /\ UNCHANGED <<clock, idle, expires, issued, password, readable, server, held,
                 keeper, barred>>

SocketCloses(t) ==
  /\ t \in sockets
  /\ sockets' = sockets \ {t}
  /\ UNCHANGED <<clock, idle, expires, issued, password, readable, server, held,
                 keeper, upgrading, barred>>

(* POST /auth/password: resolved, then the body is awaited.                *)
AskChange(t) ==
  /\ server = "up" /\ t \notin held /\ Resolve(t)
  /\ held' = held \cup {t}
  /\ UNCHANGED <<clock, idle, issued, password, readable, server, keeper,
                 upgrading, sockets, barred>>

(* The body is there: the old password is wrong or the new one too short.  *)
RefuseChange(t) ==
  /\ server = "up" /\ t \in held
  /\ held' = held \ {t}
  /\ UNCHANGED <<clock, idle, expires, issued, password, readable, server,
                 keeper, upgrading, sockets, barred>>

(* change_password, its first statement: the new hash commits at once.     *)
SetPassword(t) ==
  /\ server = "up" /\ t \in held
  /\ readable = password /\ password < MaxPasswords
  /\ password' = password + 1 /\ readable' = password + 1
  /\ held' = held \ {t} /\ keeper' = t
  /\ server' = "changing"
  /\ UNCHANGED <<clock, idle, expires, issued, upgrading, sockets, barred>>

(* Mutant: the other sessions are left alone.                              *)
EndOthers_KeepsAll ==
  /\ server = "changing"
  /\ server' = "up" /\ keeper' = 0
  /\ barred' = barred \cup ((1..issued) \ {keeper})
  /\ UNCHANGED <<clock, idle, expires, issued, password, readable, held,
                 upgrading, sockets>>

(* Its second: delete_sessions_except the caller's, who is then told.      *)
EndOthers ==
  /\ server = "changing"
  /\ expires' = [t \in Tokens |-> IF t = keeper THEN expires[t] ELSE 0]
  /\ server' = "up" /\ keeper' = 0
  /\ barred' = barred \cup ((1..issued) \ {keeper})
  /\ UNCHANGED <<clock, idle, issued, password, readable, held, upgrading,
                 sockets>>

(* PUT /config with another session_idle_days.                             *)
Retune(d) ==
  /\ server = "up" /\ d # idle
  /\ idle' = d
  /\ UNCHANGED <<clock, expires, issued, password, readable, server, held,
                 keeper, upgrading, sockets, barred>>

ClockMoves ==
  /\ server \in {"up", "down"} /\ clock < MaxTime
  /\ clock' = clock + 1
  /\ UNCHANGED <<idle, expires, issued, password, readable, server, held,
                 keeper, upgrading, sockets, barred>>

SessionNext ==
  \/ StartHub \/ ShowPassword \/ CrashHub \/ Login \/ EndOthers \/ ClockMoves
  \/ \E t \in Tokens :
       \/ Request(t) \/ RequestLapsed(t) \/ Logout(t)
       \/ Handshake(t) \/ SocketOpens(t) \/ SocketCloses(t)
       \/ AskChange(t) \/ RefuseChange(t) \/ SetPassword(t)
  \/ \E d \in IdleTimes : Retune(d)

SessionSpec == SessionInit /\ [][SessionNext]_sessionVars

-----------------------------------------------------------------------------
(* Every variable stays in its range.                                      *)
SessionTypeOK ==
  /\ clock \in 1..MaxTime /\ idle \in IdleTimes
  /\ expires \in [Tokens -> Nat] /\ issued \in 0..MaxTokens
  /\ password \in 0..MaxPasswords /\ readable \in 0..MaxPasswords
  /\ server \in {"down", "created", "changing", "up"}
  /\ held \subseteq Tokens /\ keeper \in 0..MaxTokens
  /\ upgrading \subseteq Tokens /\ sockets \subseteq Tokens
  /\ barred \subseteq Tokens

(* Once a change of the password is confirmed, the sessions from before    *)
(* it, but for the one that made it, are over for good: no request in      *)
(* flight, sliding deadline or restart brings one back (HUB_SPEC 7).       *)
BarredStayOut == \A t \in barred : expires[t] = 0

(* A session that has lapsed or ended is never live again, and one that is *)
(* live ends by the clock, a logout or a change of the password and by     *)
(* nothing else: not by a restart, not by its sweep (HUB_SPEC section 7).  *)
SessionLife ==
  [][\A t \in Tokens :
       /\ t \in Live' /\ t \notin Live => t = issued' /\ issued' > issued
       /\ t \in Live /\ t \notin Live' =>
            \/ clock' > clock
            \/ t \in barred'
            \/ Logout(t)
    ]_sessionVars

=============================================================================
