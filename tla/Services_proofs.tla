--------------------------- MODULE Services_proofs ---------------------------
(***************************************************************************)
(* Proofs about services of the hub and a page that calls them: its login  *)
(* sessions, what its MQTT ingest counts, the age its preview proxy tells, *)
(* the editor's claim to be saved, what the rule engine makes of the       *)
(* tracks it is told, and the geometry it decides them with; for any       *)
(* number of sessions, messages, viewers, streams, tracks and zones, and   *)
(* any idle time, timeout, dwell time and size of the grid.                *)
(***************************************************************************)
EXTENDS Sessions, Ingest, PreviewProxy, RulesEditor, RuleEngine, MCGeometry,
        FiniteSetTheorems, TLAPS


(* Only a token that was handed out has a row.                             *)
RowsAreIssued == \A t \in Tokens : expires[t] # 0 => t <= issued

(* A barred token has no row, and it is not one to be handed out yet.      *)
BarredAreIssued == \A t \in barred : t <= issued

SessionInv == SessionTypeOK /\ RowsAreIssued /\ BarredAreIssued /\ BarredStayOut

LEMMA InitSessionInv == SessionInit => SessionInv
  BY SessionAssumption
     DEF SessionInit, SessionInv, SessionTypeOK, RowsAreIssued, BarredAreIssued,
         BarredStayOut, Tokens

(* A step that leaves the sessions, their number and their history alone.  *)
LEMMA SessionsRest ==
  ASSUME SessionInv, UNCHANGED <<expires, issued, barred>>, SessionTypeOK'
  PROVE  SessionInv'
  BY DEF SessionInv, RowsAreIssued, BarredAreIssued, BarredStayOut

(* Resolving a cookie moves the deadline of a live session on, nothing     *)
(* else.                                                                   *)
LEMMA ResolveFacts ==
  ASSUME SessionTypeOK, NEW t \in Tokens, Resolve(t), clock' = clock
  PROVE  /\ t \in Live /\ t \in Live'
         /\ expires' \in [Tokens -> Nat]
         /\ \A u \in Tokens : u # t => expires'[u] = expires[u]
<1>1. clock \in Nat /\ idle \in Nat \ {0} /\ clock + idle > clock
  BY SessionAssumption DEF SessionTypeOK
<1> QED BY <1>1 DEF Resolve, Live, SessionTypeOK

LEMMA ResolveKeeps ==
  ASSUME SessionInv, NEW t \in Tokens, Resolve(t), UNCHANGED <<clock, issued, barred>>,
         SessionTypeOK'
  PROVE  SessionInv'
<1>1. /\ t \in Live
      /\ \A u \in Tokens : u # t => expires'[u] = expires[u]
  BY ResolveFacts DEF SessionInv
<1>2. expires[t] # 0
  BY <1>1 DEF Live, SessionInv, SessionTypeOK
<1> QED
  BY <1>1, <1>2 DEF SessionInv, RowsAreIssued, BarredAreIssued, BarredStayOut,
                    SessionTypeOK

(* Rows are deleted, none is written.                                      *)
LEMMA DeletionsKeep ==
  ASSUME SessionInv, UNCHANGED <<issued, barred>>, SessionTypeOK',
         \A t \in Tokens : expires'[t] \in {0, expires[t]}
  PROVE  SessionInv'
  BY DEF SessionInv, RowsAreIssued, BarredAreIssued, BarredStayOut, SessionTypeOK

LEMMA NextSessionTypeOK ==
  SessionTypeOK /\ [SessionNext]_sessionVars => SessionTypeOK'
<1> SUFFICES ASSUME SessionTypeOK, [SessionNext]_sessionVars PROVE SessionTypeOK'
  OBVIOUS
<1> USE SessionAssumption DEF SessionTypeOK
<1>1. idle \in Nat /\ clock \in Nat
  OBVIOUS
<1>2. CASE StartHub \/ ShowPassword \/ CrashHub
  BY <1>2 DEF StartHub, ShowPassword, CrashHub, Swept, Passwords
<1>3. CASE Login
  BY <1>1, <1>3 DEF Login, Tokens
<1>4. CASE EndOthers
  <2>1. barred' \subseteq Tokens /\ expires' \in [Tokens -> Nat]
    BY <1>4 DEF EndOthers, Tokens
  <2> QED BY <1>4, <2>1 DEF EndOthers
<1>10. CASE ClockMoves
  BY <1>1, <1>10 DEF ClockMoves
<1>5. ASSUME NEW t \in Tokens, Request(t) \/ Handshake(t) \/ AskChange(t)
      PROVE  SessionTypeOK'
  <2>1. expires' \in [Tokens -> Nat]
    BY <1>1, <1>5 DEF Request, Handshake, AskChange, Resolve
  <2> QED BY <1>5, <2>1 DEF Request, Handshake, AskChange
<1>6. ASSUME NEW t \in Tokens, \/ RequestLapsed(t) \/ Logout(t) \/ SocketOpens(t)
                               \/ SocketCloses(t) \/ RefuseChange(t)
      PROVE  SessionTypeOK'
  BY <1>6 DEF RequestLapsed, Logout, SocketOpens, SocketCloses, RefuseChange
<1>7. ASSUME NEW t \in Tokens, SetPassword(t) PROVE SessionTypeOK'
  BY <1>7 DEF SetPassword, Tokens
<1>8. ASSUME NEW d \in IdleTimes, Retune(d) PROVE SessionTypeOK'
  BY <1>8 DEF Retune
<1>9. CASE UNCHANGED sessionVars
  BY <1>9 DEF sessionVars
<1> HIDE DEF SessionTypeOK
<1> QED BY <1>2, <1>3, <1>4, <1>5, <1>6, <1>7, <1>8, <1>9, <1>10
     DEF SessionNext

LEMMA NextSessionInv == SessionInv /\ [SessionNext]_sessionVars => SessionInv'
<1> SUFFICES ASSUME SessionInv, [SessionNext]_sessionVars PROVE SessionInv'
  OBVIOUS
<1>0. SessionTypeOK /\ SessionTypeOK'
  BY NextSessionTypeOK DEF SessionInv
<1>1. CASE ShowPassword \/ CrashHub \/ ClockMoves
  BY <1>0, <1>1, SessionsRest DEF ShowPassword, CrashHub, ClockMoves
<1>2. CASE StartHub
  <2>1. \A t \in Tokens : expires'[t] \in {0, expires[t]}
    BY <1>2 DEF StartHub, Swept
  <2> QED BY <1>0, <1>2, <2>1, DeletionsKeep DEF StartHub
<1>3. CASE Login
  <2>1. issued \in Nat /\ issued' = issued + 1 /\ barred' = barred
        /\ expires' = [expires EXCEPT ![issued + 1] = clock + idle]
    BY <1>0, <1>3, SessionAssumption DEF Login, SessionTypeOK
  <2>2. RowsAreIssued' /\ BarredAreIssued'
    BY <1>0, <2>1 DEF SessionInv, RowsAreIssued, BarredAreIssued, SessionTypeOK, Tokens
  <2>3. BarredStayOut'
    BY <1>0, <2>1 DEF SessionInv, BarredAreIssued, BarredStayOut, SessionTypeOK, Tokens
  <2> QED BY <1>0, <2>2, <2>3 DEF SessionInv
<1>4. CASE EndOthers
  <2>1. /\ issued' = issued /\ issued \in 0..MaxTokens
        /\ expires' = [t \in Tokens |-> IF t = keeper THEN expires[t] ELSE 0]
        /\ barred' = barred \cup ((1..issued) \ {keeper})
    BY <1>0, <1>4 DEF EndOthers, SessionTypeOK
  <2>2. RowsAreIssued' /\ BarredAreIssued'
    BY <1>0, <2>1 DEF SessionInv, RowsAreIssued, BarredAreIssued, SessionTypeOK, Tokens
  <2>3. BarredStayOut'
    BY <1>0, <2>1, SessionAssumption DEF SessionInv, BarredStayOut, SessionTypeOK, Tokens
  <2> QED BY <1>0, <2>2, <2>3 DEF SessionInv
<1>5. ASSUME NEW t \in Tokens, Request(t) \/ Handshake(t) \/ AskChange(t)
      PROVE  SessionInv'
  BY <1>0, <1>5, ResolveKeeps DEF Request, Handshake, AskChange
<1>6. ASSUME NEW t \in Tokens, RequestLapsed(t) \/ Logout(t) PROVE SessionInv'
  <2>1. \A u \in Tokens : expires'[u] \in {0, expires[u]}
    BY <1>0, <1>6 DEF RequestLapsed, Logout, SessionTypeOK
  <2> QED BY <1>0, <1>6, <2>1, DeletionsKeep DEF RequestLapsed, Logout
<1>7. ASSUME NEW t \in Tokens, \/ SocketOpens(t) \/ SocketCloses(t)
                               \/ RefuseChange(t) \/ SetPassword(t)
      PROVE  SessionInv'
  BY <1>0, <1>7, SessionsRest DEF SocketOpens, SocketCloses, RefuseChange, SetPassword
<1>8. ASSUME NEW d \in IdleTimes, Retune(d) PROVE SessionInv'
  BY <1>0, <1>8, SessionsRest DEF Retune
<1>9. CASE UNCHANGED sessionVars
  BY <1>0, <1>9, SessionsRest DEF sessionVars
<1> QED BY <1>1, <1>2, <1>3, <1>4, <1>5, <1>6, <1>7, <1>8, <1>9 DEF SessionNext

(* What a confirmed change of the password has ended stays ended           *)
(* (BarredStayOut): a request that was resolved before it, a sliding       *)
(* deadline, another login and a restart bring no such session back.       *)
THEOREM BarredForGood == SessionSpec => []BarredStayOut
<1>1. SessionInv => BarredStayOut
  BY DEF SessionInv
<1> QED BY InitSessionInv, NextSessionInv, <1>1, PTL DEF SessionSpec

(* A session begins with a login and ends by the clock, a logout or a      *)
(* confirmed change of the password, and by nothing else (SessionLife).    *)
THEOREM SessionsEndAsTold == SessionSpec => SessionLife
<1> DEFINE Told(t) ==
      /\ t \in Live' /\ t \notin Live => t = issued' /\ issued' > issued
      /\ t \in Live /\ t \notin Live' => clock' > clock \/ t \in barred' \/ Logout(t)
<1>1. SessionInv /\ [SessionNext]_sessionVars =>
        [\A t \in Tokens :
           /\ t \in Live' /\ t \notin Live => t = issued' /\ issued' > issued
           /\ t \in Live /\ t \notin Live' =>
                \/ clock' > clock
                \/ t \in barred'
                \/ Logout(t)
        ]_sessionVars
  <2> SUFFICES ASSUME SessionInv, SessionNext, NEW t \in Tokens PROVE Told(t)
    OBVIOUS
  <2>0. SessionTypeOK
    BY DEF SessionInv
  <2>1. CASE UNCHANGED <<expires, clock>>
    BY <2>1 DEF Live
  <2>2. CASE StartHub
    BY <2>0, <2>2 DEF StartHub, Swept, Live, SessionTypeOK
  <2>3. CASE Login
    <3>1. /\ issued \in Nat /\ issued' = issued + 1 /\ clock' = clock
          /\ t # issued + 1 => expires'[t] = expires[t]
      BY <2>0, <2>3, SessionAssumption DEF Login, SessionTypeOK
    <3>2. issued + 1 \notin Live
      BY <2>0, <3>1 DEF SessionInv, RowsAreIssued, Live, SessionTypeOK
    <3>3. t = issued + 1 => t \notin Live /\ t = issued' /\ issued' > issued
      BY <3>1, <3>2
    <3>4. t # issued + 1 => (t \in Live <=> t \in Live')
      BY <3>1 DEF Live
    <3> QED BY <3>3, <3>4
  <2>4. CASE EndOthers
    <3>1. /\ clock' = clock /\ expires'[t] = IF t = keeper THEN expires[t] ELSE 0
          /\ barred' = barred \cup ((1..issued) \ {keeper})
      BY <2>4 DEF EndOthers
    <3>2. CASE t = keeper
      BY <3>1, <3>2 DEF Live
    <3>3. CASE t # keeper
      <4>1. t \notin Live'
        BY <2>0, <3>1, <3>3 DEF Live, SessionTypeOK
      <4>2. t \in Live => t \in 1..issued
        BY <2>0 DEF SessionInv, RowsAreIssued, Live, SessionTypeOK, Tokens
      <4> QED BY <3>1, <3>3, <4>1, <4>2
    <3> QED BY <3>2, <3>3
  <2>5. CASE ClockMoves
    BY <2>0, <2>5 DEF ClockMoves, Live, SessionTypeOK
  <2>6. ASSUME NEW u \in Tokens, Request(u) \/ Handshake(u) \/ AskChange(u)
        PROVE  Told(t)
    <3>1. Resolve(u) /\ clock' = clock
      BY <2>6 DEF Request, Handshake, AskChange
    <3>2. /\ u \in Live /\ u \in Live'
          /\ t # u => expires'[t] = expires[t]
      BY <2>0, <3>1, ResolveFacts
    <3> QED BY <3>1, <3>2 DEF Live
  <2>7. ASSUME NEW u \in Tokens, RequestLapsed(u) PROVE Told(t)
    <3>1. /\ clock' = clock /\ u \notin Live
          /\ expires'[t] = IF t = u THEN 0 ELSE expires[t]
      BY <2>0, <2>7 DEF RequestLapsed, Live, SessionTypeOK
    <3> QED BY <2>0, <3>1 DEF Live, SessionTypeOK
  <2>8. ASSUME NEW u \in Tokens, Logout(u) PROVE Told(t)
    <3>1. clock' = clock /\ expires'[t] = IF t = u THEN 0 ELSE expires[t]
      BY <2>0, <2>8 DEF Logout, SessionTypeOK
    <3> QED BY <2>0, <2>8, <3>1 DEF Live, SessionTypeOK
  <2> QED
    BY <2>1, <2>2, <2>3, <2>4, <2>5, <2>6, <2>7, <2>8
       DEF SessionNext, ShowPassword, CrashHub, SocketOpens, SocketCloses,
           RefuseChange, SetPassword, Retune
<1> QED
  BY InitSessionInv, NextSessionInv, <1>1, PTL DEF SessionSpec, SessionLife

-----------------------------------------------------------------------------

(* The counters are numbers, and a message a handler is at work on is      *)
(* among those handled and not yet among the errors.                       *)
CountersOK ==
  /\ counts \in [messages : Nat, accepted : Nat, failures : Nat, errors : Nat]
  /\ mismatched \in Nat
  /\ inbox \in Seq(Message) /\ handled \in Seq(Message)
  /\ published \in 0..MaxMessages
ErrorsTrail == loop = "handling" => counts.errors < Len(handled)
CountInv == CountersOK /\ ErrorsTrail /\ CountsAddUp

LEMMA InitCountInv == IngestInit => CountInv
  BY IngestAssumption
     DEF IngestInit, CountInv, CountersOK, ErrorsTrail, CountsAddUp

LEMMA DispatchCounts ==
  ASSUME CountInv, Dispatch
  PROVE  CountInv'
<1>1. PICK m \in Message :
        /\ counts' = Counted(counts, m)
        /\ mismatched' = IF m.fault = "device" /\ ~Passes(m)
                         THEN mismatched + 1 ELSE mismatched
        /\ loop' = IF Passes(m) THEN "handling" ELSE "ready"
        /\ handled' = IF Passes(m) THEN Append(handled, m) ELSE handled
  BY DEF Dispatch, CountInv, CountersOK
<1>2. inbox' \in Seq(Message) /\ published' = published /\ loop = "ready"
  BY DEF Dispatch, CountInv, CountersOK
<1>3. /\ handled \in Seq(Message) /\ Len(handled) \in Nat
      /\ Passes(m) => handled' \in Seq(Message) /\ Len(handled') = Len(handled) + 1
  BY <1>1 DEF CountInv, CountersOK
<1>4. counts \in [messages : Nat, accepted : Nat, failures : Nat, errors : Nat]
      /\ mismatched \in Nat
  BY DEF CountInv, CountersOK
<1> DEFINE Valid == m.fault \in {"none", "device"}
<1> DEFINE Tally == [messages : Nat, accepted : Nat, failures : Nat, errors : Nat]
<1>5. counts.messages = counts.accepted + counts.failures - mismatched
  BY DEF CountInv, CountsAddUp
<1>6. Len(handled) = counts.accepted - mismatched /\ counts.errors <= Len(handled)
  BY DEF CountInv, CountsAddUp
<1>7. Passes(m) => Valid
  BY DEF Passes
<1>8. CASE Passes(m)
  <2>1. counts' = [counts EXCEPT !.messages = @ + 1, !.accepted = @ + 1]
    BY <1>1, <1>4, <1>7, <1>8 DEF Counted
  <2>2. counts' = [messages |-> counts.messages + 1, accepted |-> counts.accepted + 1,
                   failures |-> counts.failures, errors |-> counts.errors]
    BY <1>4, <2>1
  <2>3. /\ counts'.messages = counts.messages + 1 /\ counts'.accepted = counts.accepted + 1
        /\ counts'.failures = counts.failures /\ counts'.errors = counts.errors
    BY <2>2
  <2>4. counts' \in Tally
    BY <1>4, <2>2
  <2>5. /\ handled' \in Seq(Message) /\ Len(handled') = Len(handled) + 1
        /\ mismatched' = mismatched /\ loop' = "handling"
    BY <1>1, <1>3, <1>8
  <2>6. mismatched' = mismatched
    BY <2>5
  <2>7. CountersOK'
    BY <1>2, <1>3, <1>4, <2>4, <2>5 DEF CountInv, CountersOK
  <2>8. ErrorsTrail'
    BY <1>2, <1>3, <1>4, <2>2, <2>5 DEF CountInv, ErrorsTrail, CountsAddUp
  <2>9. counts'.messages = counts'.accepted + counts'.failures - mismatched'
    BY <1>4, <1>5, <2>3, <2>6
  <2>10. Len(handled') = counts'.accepted - mismatched' /\ counts'.errors <= Len(handled')
    BY <1>3, <1>4, <1>6, <2>3, <2>5
  <2> QED BY <2>7, <2>8, <2>9, <2>10 DEF CountInv, CountsAddUp
<1>9. CASE ~Passes(m) /\ Valid
  <2>1. counts' = [counts EXCEPT !.messages = @ + 1, !.accepted = @ + 1, !.failures = @ + 1]
    BY <1>1, <1>4, <1>9 DEF Counted
  <2>2. counts' = [messages |-> counts.messages + 1, accepted |-> counts.accepted + 1,
                   failures |-> counts.failures + 1, errors |-> counts.errors]
    BY <1>4, <2>1
  <2>3. /\ counts'.messages = counts.messages + 1 /\ counts'.accepted = counts.accepted + 1
        /\ counts'.failures = counts.failures + 1 /\ counts'.errors = counts.errors
    BY <2>2
  <2>4. counts' \in Tally
    BY <1>4, <2>2
  <2>5. /\ handled' = handled
        /\ mismatched' = mismatched + 1 /\ loop' = "ready"
    BY <1>1, <1>3, <1>9 DEF Passes
  <2>6. mismatched' = mismatched + 1
    BY <2>5
  <2>7. CountersOK'
    BY <1>2, <1>3, <1>4, <2>4, <2>5 DEF CountInv, CountersOK
  <2>8. ErrorsTrail'
    BY <1>2, <1>3, <1>4, <2>2, <2>5 DEF CountInv, ErrorsTrail, CountsAddUp
  <2>9. counts'.messages = counts'.accepted + counts'.failures - mismatched'
    BY <1>4, <1>5, <2>3, <2>6
  <2>10. Len(handled') = counts'.accepted - mismatched' /\ counts'.errors <= Len(handled')
    BY <1>3, <1>4, <1>6, <2>3, <2>5
  <2> QED BY <2>7, <2>8, <2>9, <2>10 DEF CountInv, CountsAddUp
<1>10. CASE ~Passes(m) /\ ~Valid
  <2>1. counts' = [counts EXCEPT !.messages = @ + 1, !.failures = @ + 1]
    BY <1>1, <1>4, <1>10 DEF Counted
  <2>2. counts' = [messages |-> counts.messages + 1, accepted |-> counts.accepted,
                   failures |-> counts.failures + 1, errors |-> counts.errors]
    BY <1>4, <2>1
  <2>3. /\ counts'.messages = counts.messages + 1 /\ counts'.accepted = counts.accepted
        /\ counts'.failures = counts.failures + 1 /\ counts'.errors = counts.errors
    BY <2>2
  <2>4. counts' \in Tally
    BY <1>4, <2>2
  <2>5. /\ handled' = handled
        /\ mismatched' = mismatched /\ loop' = "ready"
    BY <1>1, <1>3, <1>10
  <2>6. mismatched' = mismatched
    BY <2>5
  <2>7. CountersOK'
    BY <1>2, <1>3, <1>4, <2>4, <2>5 DEF CountInv, CountersOK
  <2>8. ErrorsTrail'
    BY <1>2, <1>3, <1>4, <2>2, <2>5 DEF CountInv, ErrorsTrail, CountsAddUp
  <2>9. counts'.messages = counts'.accepted + counts'.failures - mismatched'
    BY <1>4, <1>5, <2>3, <2>6
  <2>10. Len(handled') = counts'.accepted - mismatched' /\ counts'.errors <= Len(handled')
    BY <1>3, <1>4, <1>6, <2>3, <2>5
  <2> QED BY <2>7, <2>8, <2>9, <2>10 DEF CountInv, CountsAddUp
<1> QED BY <1>8, <1>9, <1>10

LEMMA NextCountInv == CountInv /\ [IngestNext]_ingestVars => CountInv'
<1> SUFFICES ASSUME CountInv, [IngestNext]_ingestVars PROVE CountInv'
  OBVIOUS
<1> USE IngestAssumption DEF CountInv, CountersOK, ErrorsTrail, CountsAddUp
<1>1. ASSUME NEW family \in Families, NEW fault \in Faults, Publish(family, fault)
      PROVE  CountInv'
  <2>1. [n |-> published + 1, family |-> family, fault |-> fault] \in Message
    BY <1>1 DEF Publish, Message
  <2> QED BY <1>1, <2>1 DEF Publish
<1>2. CASE ConnectIngest \/ ConnectRefused \/ Subscribed \/ NoticeCut
  BY <1>2 DEF ConnectIngest, ConnectRefused, Subscribed, NoticeCut
<1>3. CASE CutLink \/ StopIngest
  <2>1. inbox' = <<>> /\ <<>> \in Seq(Message)
    BY <1>3 DEF CutLink, StopIngest
  <2>2. UNCHANGED <<counts, mismatched, handled, published>>
        /\ loop' \in {loop, "stopped"}
    BY <1>3 DEF CutLink, StopIngest
  <2> QED BY <2>1, <2>2
<1>4. CASE HandlerEnds \/ HandlerRaises
  <2>1. /\ UNCHANGED <<inbox, mismatched, handled, published>>
        /\ loop = "handling" /\ loop' = "ready"
        /\ \/ counts' = counts
           \/ counts' = [counts EXCEPT !.errors = @ + 1]
    BY <1>4 DEF HandlerEnds, HandlerRaises
  <2>2. Len(handled) \in Nat /\ Len(handled') = Len(handled)
    BY <2>1
  <2>3. /\ counts'.messages = counts.messages /\ counts'.accepted = counts.accepted
        /\ counts'.failures = counts.failures
        /\ counts'.errors \in {counts.errors, counts.errors + 1}
        /\ counts' \in [messages : Nat, accepted : Nat, failures : Nat, errors : Nat]
    BY <2>1
  <2> QED BY <2>1, <2>2, <2>3
<1>5. CASE UNCHANGED ingestVars
  BY <1>5 DEF ingestVars
<1> HIDE DEF CountInv
<1> QED BY <1>1, <1>2, <1>3, <1>4, <1>5, DispatchCounts DEF IngestNext

(* What GET /api/health shows accounts for every message that was read     *)
(* from the broker (CountsAddUp), however often the connection is cut and  *)
(* handlers raise.                                                         *)
THEOREM CountersAccount == IngestSpec => []CountsAddUp
<1>1. CountInv => CountsAddUp
  BY DEF CountInv
<1> QED BY InitCountInv, NextCountInv, <1>1, PTL DEF IngestSpec

-----------------------------------------------------------------------------
(* The device's frame only gets newer, so whatever a fetch brings is no    *)
(* older than what was held as it began, and neither is an entry that is   *)
(* stamped with the beginning.                                             *)
Newer(stamp, frame) == stamp # 0 => heldAt[stamp] <= frame

PreviewInv ==
  /\ tick \in 1..LastTick
  /\ stored \in Nat /\ stored <= tick
  /\ heldAt \in [1..LastTick -> Nat]
  /\ \A t \in 1..tick : heldAt[t] <= t /\ (stored # 0 => heldAt[t] <= stored)
  /\ cache \in [stamp : 0..tick, frame : Nat]
  /\ Newer(cache.stamp, cache.frame)
  /\ fetch \in [Viewers -> [start : 0..tick, frame : Nat]]
  /\ \A v \in Viewers :
       fetch[v].frame # 0 => /\ fetch[v].start # 0
                             /\ Newer(fetch[v].start, fetch[v].frame)
  /\ answer \in [frame : Nat, age : Nat, at : Nat, cached : BOOLEAN]
  /\ answer.cached => answer.at - answer.age \in 1..tick
  /\ CachedAgeIsHonest

LEMMA InitPreviewInv == PreviewInit => PreviewInv
  BY PreviewAssumption DEF PreviewInit, PreviewInv, NoFetch, NoAnswer, CachedAgeIsHonest, Newer

LEMMA NextPreviewInv == PreviewInv /\ [PreviewNext]_previewVars => PreviewInv'
<1> SUFFICES ASSUME PreviewInv, [PreviewNext]_previewVars PROVE PreviewInv'
  OBVIOUS
<1> USE PreviewAssumption DEF PreviewInv, CachedAgeIsHonest, Newer, deviceVars, NoAnswer
<1>1. ASSUME NEW v \in Viewers, FromCache(v) PROVE PreviewInv'
  BY <1>1 DEF FromCache, Hit
<1>2. ASSUME NEW v \in Viewers, StartFetch(v) PROVE PreviewInv'
  BY <1>2 DEF StartFetch
<1>3. ASSUME NEW v \in Viewers, GetFrame(v) PROVE PreviewInv'
  <2>0. [fetch[v] EXCEPT !.frame = stored] = [start |-> fetch[v].start, frame |-> stored]
    OBVIOUS
  <2>1. fetch' = [fetch EXCEPT ![v] = [start |-> fetch[v].start, frame |-> stored]]
    BY <1>3, <2>0 DEF GetFrame
  <2>2. fetch'[v].frame = stored /\ fetch'[v].start = fetch[v].start
    BY <2>1
  <2>3. /\ tick' = tick /\ heldAt' = heldAt /\ stored' = stored /\ cache' = cache
        /\ ~answer'.cached /\ answer' = NoAnswer
    BY <1>3 DEF GetFrame
  <2>4. heldAt[fetch[v].start] <= stored
    BY <1>3 DEF GetFrame
  <2>5. fetch' \in [Viewers -> [start : 0..tick, frame : Nat]]
    BY <2>1
  <2>6. ASSUME NEW u \in Viewers, fetch'[u].frame # 0
        PROVE  fetch'[u].start # 0 /\ heldAt[fetch'[u].start] <= fetch'[u].frame
    <3>1. CASE u = v
      BY <3>1, <1>3, <2>2, <2>4 DEF GetFrame
    <3>2. CASE u # v
      <4>1. fetch'[u] = fetch[u]
        BY <3>2, <2>1
      <4> QED BY <4>1, <2>6
    <3> QED BY <3>1, <3>2
  <2> QED BY <2>3, <2>5, <2>6
<1>4. ASSUME NEW v \in Viewers, EndFetch(v) PROVE PreviewInv'
  <2>1. /\ tick' = tick /\ heldAt' = heldAt /\ stored' = stored
        /\ cache' = [stamp |-> fetch[v].start, frame |-> fetch[v].frame]
        /\ fetch' = [fetch EXCEPT ![v] = [start |-> 0, frame |-> 0]]
        /\ answer' = [frame |-> fetch[v].frame, age |-> 0, at |-> tick, cached |-> FALSE]
    BY <1>4 DEF EndFetch, NoFetch
  <2>2. cache' \in [stamp : 0..tick, frame : Nat] /\ Newer(cache.stamp, cache.frame)'
    BY <1>4, <2>1 DEF EndFetch
  <2>3. fetch' \in [Viewers -> [start : 0..tick, frame : Nat]]
    BY <2>1
  <2>4. ASSUME NEW u \in Viewers, fetch'[u].frame # 0
        PROVE  fetch'[u].start # 0 /\ heldAt[fetch'[u].start] <= fetch'[u].frame
    <3>1. u # v /\ fetch'[u] = fetch[u]
      BY <2>1, <2>4
    <3> QED BY <3>1, <2>4
  <2> QED BY <2>1, <2>2, <2>3, <2>4
<1>5. ASSUME NEW v \in Viewers, FetchFails(v) PROVE PreviewInv'
  BY <1>5 DEF FetchFails, NoFetch
<1>6. CASE PreviewTick
  <2>1. /\ tick' = tick + 1 /\ tick' \in 1..LastTick
        /\ heldAt' = [heldAt EXCEPT ![tick + 1] = stored]
        /\ stored' = stored /\ cache' = cache /\ fetch' = fetch
        /\ answer' = [frame |-> 0, age |-> 0, at |-> 0, cached |-> FALSE]
    BY <1>6 DEF PreviewTick
  <2>2. \A t \in 0..tick : t # 0 => heldAt'[t] = heldAt[t]
    BY <2>1
  <2>3. /\ heldAt' \in [1..LastTick -> Nat]
        /\ heldAt'[tick + 1] = stored
    BY <2>1
  <2>4. \A t \in 1..tick' : heldAt'[t] <= t /\ (stored # 0 => heldAt'[t] <= stored)
    <3> SUFFICES ASSUME NEW t \in 1..tick'
                 PROVE  heldAt'[t] <= t /\ (stored # 0 => heldAt'[t] <= stored)
      OBVIOUS
    <3>1. CASE t = tick + 1
      BY <3>1, <2>3
    <3>2. CASE t \in 1..tick
      BY <3>2, <2>2
    <3> QED BY <3>1, <3>2, <2>1
  <2>5. Newer(cache.stamp, cache.frame)' /\ cache' \in [stamp : 0..tick', frame : Nat]
    BY <2>1, <2>2
  <2>6. fetch' \in [Viewers -> [start : 0..tick', frame : Nat]]
    <3>1. \A v \in Viewers : fetch'[v] \in [start : 0..tick', frame : Nat]
      <4> TAKE v \in Viewers
      <4>1. fetch[v] \in [start : 0..tick, frame : Nat]
        OBVIOUS
      <4> QED BY <4>1, <2>1
    <3> QED BY <3>1, <2>1
  <2>7. \A v \in Viewers :
          fetch'[v].frame # 0 => /\ fetch'[v].start # 0
                                 /\ Newer(fetch[v].start, fetch[v].frame)'
    <3> TAKE v \in Viewers
    <3>1. fetch[v].start \in 0..tick
      OBVIOUS
    <3> QED BY <3>1, <2>1, <2>2
  <2> QED BY <2>1, <2>3, <2>4, <2>5, <2>6, <2>7
<1>7. CASE PutFrame
  BY <1>7 DEF PutFrame
<1>8. CASE ReplaceWorker
  BY <1>8 DEF ReplaceWorker
<1>9. CASE UNCHANGED previewVars
  BY <1>9 DEF previewVars
<1> HIDE DEF PreviewInv
<1> QED BY <1>1, <1>2, <1>3, <1>4, <1>5, <1>6, <1>7, <1>8, <1>9 DEF PreviewNext

(* However the fetches of a stream's viewers overlap, and whenever the     *)
(* camera stalls or its worker is replaced, a cached frame is no older     *)
(* than what the device held the told age ago (CachedAgeIsHonest).         *)
THEOREM AgeIsHonest == PreviewSpec => []CachedAgeIsHonest
<1>1. PreviewInv => CachedAgeIsHonest
  BY DEF PreviewInv
<1> QED BY InitPreviewInv, NextPreviewInv, <1>1, PTL DEF PreviewSpec

-----------------------------------------------------------------------------
(* The rules page.  Every shape is of a stream, so a body that was saved   *)
(* is never taken for "not known".                                         *)
Shapes == [on : Edited, n : Nat, at : Places]
Bodies == SUBSET Shapes
GetType == [from : Edited, no : Nat, dead : BOOLEAN, st : {"asked", "answered"},
            got : Bodies]
SendType == [st : {"unused", "sent", "stored", "refused", "ended"}, to : Picks,
             body : Bodies]

EditorTyped ==
  /\ picked \in Picks /\ bodyOf \in Picks /\ savedOf \in Picks
  /\ body \in Bodies /\ saved \in Bodies \cup {Unknown}
  /\ gets \subseteq GetType /\ sends \in [Saves -> SendType]
  /\ atHub \in [Edited -> Bodies] /\ had \in [Edited -> SUBSET Bodies]
  /\ count \in [picks : Nat, edits : Nat]

(* What was made for a stream is of that stream, unless the stream was     *)
(* saved while the page held another's rules.                              *)
MadeFor(s, shapes) == s \in Edited \ crossed => \A x \in shapes : x.on = s

OwnShapes ==
  /\ MadeFor(bodyOf, body) /\ MadeFor(savedOf, saved)
  /\ \A s \in Edited : MadeFor(s, atHub[s])
  /\ \A g \in gets : g.st = "answered" => MadeFor(g.from, g.got)
  /\ \A i \in Saves : sends[i].st \in {"sent", "stored"} =>
       sends[i].to \in Edited /\ MadeFor(sends[i].to, sends[i].body)

(* What the page takes for persisted the hub has had: it is an answer, or  *)
(* what a PUT stored.                                                      *)
Persistent ==
  /\ \A s \in Edited : atHub[s] \in had[s]
  /\ savedOf \in Edited => saved \in had[savedOf]
  /\ \A g \in gets : g.st = "answered" => g.got \in had[g.from]
  /\ \A i \in Saves : sends[i].st = "stored" => sends[i].body \in had[sends[i].to]

(* An answer that is still awaited is for the stream that is picked.       *)
AwaitedIsPicked == \A g \in gets : ~g.dead => g.from = picked

EditorInv == EditorTyped /\ OwnShapes /\ Persistent /\ AwaitedIsPicked

LEMMA InitEditorInv == EditorInit => EditorInv
<1> SUFFICES ASSUME EditorInit PROVE EditorInv
  OBVIOUS
<1>1. ASSUME NEW s \in Edited PROVE FirstOf(s) \in Shapes /\ FirstOf(s).on = s
  BY DEF FirstOf, Shape, Shapes, Places
<1>2. /\ picked = Nobody /\ body = {} /\ saved = Unknown /\ gets = {}
      /\ bodyOf = Nobody /\ savedOf = Nobody /\ count = [picks |-> 0, edits |-> 0]
      /\ sends = [i \in Saves |-> NoPut]
      /\ atHub = [s \in Edited |-> {FirstOf(s)}]
      /\ had = [s \in Edited |-> {atHub[s]}]
  BY DEF EditorInit
<1>3. atHub \in [Edited -> Bodies] /\ had \in [Edited -> SUBSET Bodies]
  BY <1>1, <1>2 DEF Bodies
<1>4. NoPut \in SendType /\ NoPut.st = "unused"
  BY DEF NoPut, SendType, Picks, Bodies
<1>5. EditorTyped
  BY <1>2, <1>3, <1>4 DEF EditorTyped, Picks, Bodies
<1>6. OwnShapes
  BY <1>1, <1>2, <1>4, EditorAssumption DEF OwnShapes, MadeFor, EditorAssumption
<1>7. Persistent /\ AwaitedIsPicked
  BY <1>2, <1>4, EditorAssumption DEF Persistent, AwaitedIsPicked, EditorAssumption
<1> QED BY <1>5, <1>6, <1>7 DEF EditorInv

(* A call is given up, served or ended: what a record is then.             *)
LEMMA GetEntries ==
  ASSUME NEW g \in GetType, NEW rules \in Bodies
  PROVE  /\ [g EXCEPT !.dead = TRUE] \in GetType
         /\ [g EXCEPT !.dead = TRUE].from = g.from /\ [g EXCEPT !.dead = TRUE].dead = TRUE
         /\ [g EXCEPT !.dead = TRUE].st = g.st /\ [g EXCEPT !.dead = TRUE].got = g.got
         /\ [g EXCEPT !.st = "answered", !.got = rules]
              = [from |-> g.from, no |-> g.no, dead |-> g.dead, st |-> "answered",
                 got |-> rules]
<1>2. PICK b : b = [g EXCEPT !.dead = TRUE]
  OBVIOUS
<1>3. /\ b \in GetType /\ b.from = g.from /\ b.dead = TRUE /\ b.st = g.st
      /\ b.got = g.got
  BY <1>2 DEF GetType
<1>4. PICK a : a = [g EXCEPT !.st = "answered"]
  OBVIOUS
<1>5. PICK c : c = [a EXCEPT !.got = rules]
  OBVIOUS
<1>6. a = [from |-> g.from, no |-> g.no, dead |-> g.dead, st |-> "answered", got |-> g.got]
  BY <1>4 DEF GetType
<1>7. c = [from |-> g.from, no |-> g.no, dead |-> g.dead, st |-> "answered", got |-> rules]
  BY <1>5, <1>6
<1>8. [g EXCEPT !.st = "answered", !.got = rules] = c
  BY <1>4, <1>5
<1> QED BY <1>2, <1>3, <1>7, <1>8

(* Another stream is picked, or none.                                      *)
LEMMA PickKeeps ==
  ASSUME EditorInv, NEW s \in Picks, Pick(s)
  PROVE  EditorInv'
<1> DEFINE asked == [from |-> s, no |-> count.picks, dead |-> FALSE, st |-> "asked",
                     got |-> {}]
<1>1. /\ EditorTyped /\ OwnShapes /\ Persistent
      /\ picked' = s /\ count' = [count EXCEPT !.picks = @ + 1]
      /\ UNCHANGED <<sends, atHub, had, crossed>>
  BY DEF EditorInv, Pick
<1>2. count' \in [picks : Nat, edits : Nat] /\ count.picks \in Nat
  BY <1>1 DEF EditorTyped
<1>3. \A b \in Buried(gets) : \E g \in gets :
        /\ b \in GetType /\ b.dead /\ b.from = g.from /\ b.st = g.st /\ b.got = g.got
  <2>1. ASSUME NEW g \in gets
        PROVE  LET b == [g EXCEPT !.dead = TRUE] IN
               b \in GetType /\ b.dead /\ b.from = g.from /\ b.st = g.st /\ b.got = g.got
    <3>1. g \in GetType /\ {} \in Bodies
      BY <1>1 DEF EditorTyped, Bodies
    <3> QED BY <3>1, GetEntries
  <2> QED BY <2>1 DEF Buried
<1>4. CASE s = Nobody
  <2>1. /\ body' = {} /\ saved' = Unknown /\ bodyOf' = Nobody /\ savedOf' = Nobody
        /\ gets' = Buried(gets)
    BY <1>4 DEF Pick
  <2>2. EditorTyped'
    BY <1>1, <1>2, <1>3, <1>4, <2>1 DEF EditorTyped, Picks, Bodies
  <2>3. OwnShapes'
    BY <1>1, <1>3, <2>1, EditorAssumption DEF OwnShapes, MadeFor, EditorAssumption
  <2>4. Persistent' /\ AwaitedIsPicked'
    BY <1>1, <1>3, <2>1, EditorAssumption DEF Persistent, AwaitedIsPicked, EditorAssumption
  <2> QED BY <2>2, <2>3, <2>4 DEF EditorInv
<1>5. CASE s # Nobody
  <2>1. gets' = Buried(gets) \cup {asked} /\ UNCHANGED <<body, saved, bodyOf, savedOf>>
    BY <1>5 DEF Pick
  <2>2. asked \in GetType /\ asked.from = s /\ asked.st # "answered"
    BY <1>2, <1>5 DEF GetType, Picks, Bodies
  <2> HIDE DEF asked
  <2>3. EditorTyped'
    BY <1>1, <1>2, <1>3, <2>1, <2>2 DEF EditorTyped
  <2>4. OwnShapes'
    BY <1>1, <1>3, <2>1, <2>2 DEF OwnShapes, MadeFor
  <2>5. Persistent' /\ AwaitedIsPicked'
    BY <1>1, <1>3, <2>1, <2>2 DEF Persistent, AwaitedIsPicked
  <2> QED BY <2>3, <2>4, <2>5 DEF EditorInv
<1> QED BY <1>4, <1>5

(* A GET is answered at the hub, its answer arrives, or it fails.          *)
LEMMA GetKeeps ==
  ASSUME EditorInv, NEW g \in gets, ServeRules(g) \/ RulesArrive(g) \/ RulesFail(g)
  PROVE  EditorInv'
<1>1. EditorTyped /\ OwnShapes /\ Persistent /\ AwaitedIsPicked /\ g \in GetType
  BY DEF EditorInv, EditorTyped
<1>2. g.from \in Edited /\ g.got \in Bodies
  BY <1>1 DEF GetType
<1>3. CASE ServeRules(g)
  <2> DEFINE replied == [from |-> g.from, no |-> g.no, dead |-> g.dead,
                         st |-> "answered", got |-> atHub[g.from]]
  <2>1. atHub[g.from] \in Bodies
    BY <1>1, <1>2 DEF EditorTyped
  <2>2. /\ gets' = (gets \ {g}) \cup {replied}
        /\ UNCHANGED <<picked, body, saved, sends, atHub, count, had, bodyOf, savedOf,
                       crossed>>
    BY <1>1, <1>3, <2>1, GetEntries DEF ServeRules, page, origin
  <2>3. /\ replied \in GetType /\ replied.from = g.from /\ replied.dead = g.dead
        /\ replied.got = atHub[g.from]
    BY <1>1, <2>1 DEF GetType
  <2> HIDE DEF replied
  <2>4. EditorTyped'
    BY <1>1, <2>2, <2>3 DEF EditorTyped
  <2>5. OwnShapes'
    BY <1>1, <1>2, <2>2, <2>3 DEF OwnShapes, MadeFor
  <2>6. Persistent' /\ AwaitedIsPicked'
    BY <1>1, <1>2, <2>2, <2>3 DEF Persistent, AwaitedIsPicked
  <2> QED BY <2>4, <2>5, <2>6 DEF EditorInv
<1>4. ASSUME gets' = gets \ {g},
             UNCHANGED <<picked, sends, atHub, count, had, crossed>>,
             \/ UNCHANGED <<body, saved, bodyOf, savedOf>>
             \/ /\ ~g.dead /\ g.st = "answered"
                /\ body' = g.got /\ saved' = g.got /\ bodyOf' = picked /\ savedOf' = picked
      PROVE  EditorInv'
  <2>1. EditorTyped'
    BY <1>1, <1>2, <1>4 DEF EditorTyped
  <2>2. OwnShapes'
    BY <1>1, <1>4 DEF OwnShapes, MadeFor, AwaitedIsPicked
  <2>3. Persistent' /\ AwaitedIsPicked'
    BY <1>1, <1>2, <1>4 DEF Persistent, AwaitedIsPicked
  <2> QED BY <2>1, <2>2, <2>3 DEF EditorInv
<1>5. CASE RulesArrive(g) \/ RulesFail(g)
  BY <1>4, <1>5 DEF RulesArrive, RulesFail, page, origin
<1> QED BY <1>3, <1>5

(* A shape is drawn, dragged or deleted.                                   *)
LEMMA EditKeeps ==
  ASSUME EditorInv, NEW shapes \in Bodies, Edit(shapes),
         \A x \in shapes : x.on = picked \/ \E y \in body : x.on = y.on
  PROVE  EditorInv'
<1>1. EditorTyped /\ OwnShapes /\ Persistent /\ AwaitedIsPicked
  BY DEF EditorInv
<1>2. /\ body' = shapes /\ bodyOf' = IF bodyOf = picked THEN picked ELSE Nobody
      /\ count' = [count EXCEPT !.edits = @ + 1]
      /\ UNCHANGED <<picked, saved, gets, sends, atHub, had, savedOf, crossed>>
  BY DEF Edit, calls
<1>3. count' \in [picks : Nat, edits : Nat]
  BY <1>1, <1>2 DEF EditorTyped
<1>4. EditorTyped'
  BY <1>1, <1>2, <1>3 DEF EditorTyped, Picks
<1>5. MadeFor(bodyOf', shapes)
  BY <1>1, <1>2, EditorAssumption DEF OwnShapes, MadeFor, EditorAssumption
<1>6. OwnShapes'
  BY <1>1, <1>2, <1>5 DEF OwnShapes, MadeFor
<1>7. Persistent' /\ AwaitedIsPicked'
  BY <1>1, <1>2 DEF Persistent, AwaitedIsPicked
<1> QED BY <1>4, <1>6, <1>7 DEF EditorInv

LEMMA ShapesKeep ==
  ASSUME EditorInv,
         \/ \E at \in Places : DrawShape(at) \/ \E x \in body : Drag(x, at)
         \/ \E x \in body : Delete(x)
  PROVE  EditorInv'
<1>1. body \in Bodies /\ picked \in Picks /\ count.edits \in Nat
  BY DEF EditorInv, EditorTyped
<1>2. ASSUME NEW at \in Places, DrawShape(at) PROVE EditorInv'
  <2>1. PICK x : x = Shape(picked, count.edits + 1, at)
    OBVIOUS
  <2>2. Edit(body \cup {x}) /\ x \in Shapes /\ x.on = picked
    BY <1>1, <1>2, <2>1 DEF DrawShape, Edit, Drawable, Ready, Picks, Shape, Shapes
  <2>3. body \cup {x} \in Bodies
    BY <1>1, <2>2 DEF Bodies
  <2> QED BY <2>2, <2>3, EditKeeps
<1>3. ASSUME NEW at \in Places, NEW x \in body, Drag(x, at) PROVE EditorInv'
  <2>1. PICK y : y = [x EXCEPT !.at = at]
    OBVIOUS
  <2>2. Edit((body \ {x}) \cup {y}) /\ y \in Shapes /\ y.on = x.on
    BY <1>1, <1>3, <2>1 DEF Drag, Bodies, Shapes
  <2>3. (body \ {x}) \cup {y} \in Bodies
    BY <1>1, <2>2 DEF Bodies
  <2> QED BY <2>2, <2>3, EditKeeps
<1>4. ASSUME NEW x \in body, Delete(x) PROVE EditorInv'
  <2>1. Edit(body \ {x}) /\ body \ {x} \in Bodies
    BY <1>1, <1>4 DEF Delete, Bodies
  <2> QED BY <2>1, EditKeeps
<1> QED BY <1>2, <1>3, <1>4

(* The page's PUT is sent, ends, or fails.                                 *)
LEMMA SaveKeeps ==
  ASSUME EditorInv, NEW i \in Saves, Save(i) \/ SaveEnds(i) \/ SaveFails(i)
  PROVE  EditorInv'
<1>1. EditorTyped /\ OwnShapes /\ Persistent /\ AwaitedIsPicked
  BY DEF EditorInv
<1>2. NoPut \in SendType /\ [NoPut EXCEPT !.st = "ended"] \in SendType
      /\ [NoPut EXCEPT !.st = "ended"].st = "ended"
  BY DEF NoPut, SendType, Picks, Bodies
<1>3. PICK ended : ended = [NoPut EXCEPT !.st = "ended"]
  OBVIOUS
<1>4. CASE Save(i)
  <2>1. PICK put : put = [st |-> "sent", to |-> picked, body |-> body]
    OBVIOUS
  <2>2. put.st = "sent" /\ put.to = picked /\ put.body = body
    BY <2>1
  <2>3. /\ picked \in Edited
        /\ UNCHANGED <<picked, body, saved, gets, atHub, count, had, bodyOf, savedOf>>
        /\ \/ UNCHANGED <<sends, crossed>>
           \/ /\ sends' = [sends EXCEPT ![i] = put]
              /\ crossed' = IF bodyOf = picked THEN crossed ELSE crossed \cup {picked}
    BY <1>1, <1>4, <2>1 DEF Save, Ready, EditorTyped, Picks
  <2>4. put \in SendType
    BY <1>1, <2>1 DEF EditorTyped, SendType
  <2>5. EditorTyped'
    BY <1>1, <2>3, <2>4 DEF EditorTyped
  <2>6. crossed \subseteq crossed' /\ (sends' # sends => MadeFor(picked, body)')
    BY <1>1, <2>3 DEF OwnShapes, MadeFor
  <2>7. \A j \in Saves : sends'[j] = sends[j] \/ (sends'[j] = put /\ sends' # sends)
    BY <1>1, <2>3 DEF EditorTyped
  <2>8. OwnShapes'
    <3>1. MadeFor(bodyOf, body)' /\ MadeFor(savedOf, saved)'
      BY <1>1, <2>3, <2>6 DEF OwnShapes, MadeFor
    <3>2. \A s \in Edited : MadeFor(s, atHub[s])'
      BY <1>1, <2>3, <2>6 DEF OwnShapes, MadeFor
    <3>3. \A g \in gets : g.st = "answered" => MadeFor(g.from, g.got)'
      BY <1>1, <2>3, <2>6 DEF OwnShapes, MadeFor
    <3>4. ASSUME NEW j \in Saves, sends'[j].st \in {"sent", "stored"}
          PROVE  sends'[j].to \in Edited /\ MadeFor(sends[j].to, sends[j].body)'
      <4>1. CASE sends'[j] = sends[j]
        BY <1>1, <2>6, <3>4, <4>1 DEF OwnShapes, MadeFor
      <4>2. CASE sends'[j] = put /\ sends' # sends
        BY <2>2, <2>3, <2>6, <4>2 DEF MadeFor
      <4> QED BY <2>7, <4>1, <4>2
    <3> QED BY <2>3, <3>1, <3>2, <3>3, <3>4 DEF OwnShapes
  <2>9. Persistent' /\ AwaitedIsPicked'
    BY <1>1, <2>2, <2>3, <2>7 DEF Persistent, AwaitedIsPicked
  <2> QED BY <2>5, <2>8, <2>9 DEF EditorInv
<1>5. ASSUME sends' = [sends EXCEPT ![i] = ended],
             UNCHANGED <<picked, body, gets, atHub, count, had, bodyOf, crossed>>,
             \/ UNCHANGED <<saved, savedOf>>
             \/ sends[i].st = "stored" /\ saved' = sends[i].body /\ savedOf' = sends[i].to
      PROVE  EditorInv'
  <2>1. sends[i] \in SendType /\ sends[i].to \in Picks /\ sends[i].body \in Bodies
    BY <1>1 DEF EditorTyped, SendType
  <2>2. EditorTyped'
    BY <1>1, <1>2, <1>3, <1>5, <2>1 DEF EditorTyped
  <2>3. \A j \in Saves : sends'[j] = sends[j] \/ sends'[j].st = "ended"
    BY <1>1, <1>2, <1>3, <1>5 DEF EditorTyped
  <2>4. MadeFor(savedOf, saved)'
    BY <1>1, <1>5 DEF OwnShapes, MadeFor
  <2>5. ASSUME NEW j \in Saves, sends'[j].st \in {"sent", "stored"}
        PROVE  sends'[j].to \in Edited /\ MadeFor(sends[j].to, sends[j].body)'
    BY <1>1, <1>5, <2>3, <2>5 DEF OwnShapes, MadeFor
  <2>6. OwnShapes'
    BY <1>1, <1>5, <2>4, <2>5 DEF OwnShapes, MadeFor
  <2>7. Persistent' /\ AwaitedIsPicked'
    BY <1>1, <1>5, <2>3 DEF Persistent, AwaitedIsPicked
  <2> QED BY <2>2, <2>6, <2>7 DEF EditorInv
<1>6. CASE SaveEnds(i) \/ SaveFails(i)
  BY <1>3, <1>5, <1>6 DEF SaveEnds, SaveFails, Persisted, origin
<1> QED BY <1>4, <1>6

(* The hub stores the rules of a PUT, of this page or of another operator, *)
(* or refuses them.                                                        *)
LEMMA StoresKeep ==
  ASSUME EditorInv,
         (\E i \in Saves : ServeSave(i)) \/ (\E s \in Edited : OthersSave(s))
  PROVE  EditorInv'
<1>1. EditorTyped /\ OwnShapes /\ Persistent /\ AwaitedIsPicked
  BY DEF EditorInv
<1>2. ASSUME NEW s \in Edited, NEW rules \in Bodies, Stores(s, rules), MadeFor(s, rules),
             UNCHANGED <<picked, body, saved, gets, count, bodyOf, savedOf, crossed>>,
             sends' \in [Saves -> SendType],
             \A j \in Saves : /\ sends'[j].to = sends[j].to /\ sends'[j].body = sends[j].body
                              /\ \/ sends'[j].st = sends[j].st
                                 \/ /\ sends[j].st = "sent" /\ sends'[j].st = "stored"
                                    /\ sends[j].to = s /\ sends[j].body = rules
      PROVE  EditorInv'
  <2>1. /\ atHub' \in [Edited -> Bodies] /\ had' \in [Edited -> SUBSET Bodies]
        /\ atHub'[s] = rules /\ rules \in had'[s]
        /\ \A t \in Edited : had[t] \subseteq had'[t] /\ (t # s => atHub'[t] = atHub[t])
    BY <1>1, <1>2 DEF Stores, EditorTyped
  <2>2. EditorTyped'
    BY <1>1, <1>2, <2>1 DEF EditorTyped
  <2>3. OwnShapes'
    <3>1. MadeFor(bodyOf, body)' /\ MadeFor(savedOf, saved)'
      BY <1>1, <1>2 DEF OwnShapes, MadeFor
    <3>2. \A t \in Edited : MadeFor(t, atHub[t])'
      BY <1>1, <1>2, <2>1 DEF OwnShapes, MadeFor
    <3>3. \A g \in gets : g.st = "answered" => MadeFor(g.from, g.got)'
      BY <1>1, <1>2 DEF OwnShapes, MadeFor
    <3>4. \A j \in Saves : sends'[j].st \in {"sent", "stored"} =>
            sends'[j].to \in Edited /\ MadeFor(sends[j].to, sends[j].body)'
      BY <1>1, <1>2 DEF OwnShapes, MadeFor
    <3> QED BY <1>2, <3>1, <3>2, <3>3, <3>4 DEF OwnShapes, MadeFor
  <2>4. Persistent'
    <3>1. \A t \in Edited : atHub'[t] \in had'[t]
      BY <1>1, <2>1 DEF Persistent
    <3>2. savedOf \in Edited => saved \in had'[savedOf]
      BY <1>1, <2>1 DEF Persistent
    <3>3. ASSUME NEW g \in gets, g.st = "answered" PROVE g.got \in had'[g.from]
      <4>1. g.from \in Edited
        BY <1>1 DEF EditorTyped, GetType
      <4> QED BY <1>1, <2>1, <3>3, <4>1 DEF Persistent
    <3>4. ASSUME NEW j \in Saves, sends'[j].st = "stored"
          PROVE  sends'[j].body \in had'[sends'[j].to]
      <4>1. CASE sends'[j].st = sends[j].st
        <5>1. sends[j].to \in Edited /\ sends[j].body \in had[sends[j].to]
          BY <1>1, <3>4, <4>1 DEF Persistent, OwnShapes
        <5> QED BY <1>2, <2>1, <5>1
      <4>2. CASE sends[j].to = s /\ sends[j].body = rules
        BY <1>2, <2>1, <4>2
      <4> QED BY <1>2, <4>1, <4>2
    <3> QED BY <1>2, <3>1, <3>2, <3>3, <3>4 DEF Persistent
  <2>5. AwaitedIsPicked'
    BY <1>1, <1>2 DEF AwaitedIsPicked
  <2> QED BY <2>2, <2>3, <2>4, <2>5 DEF EditorInv
<1>3. ASSUME NEW i \in Saves, ServeSave(i) PROVE EditorInv'
  <2>1. PICK put : put = sends[i]
    OBVIOUS
  <2>2. /\ put \in SendType /\ put.st = "sent" /\ put.to \in Edited /\ put.body \in Bodies
        /\ MadeFor(put.to, put.body) /\ sends \in [Saves -> SendType]
        /\ UNCHANGED <<picked, body, saved, gets, count, bodyOf, savedOf, crossed>>
    BY <1>1, <1>3, <2>1 DEF ServeSave, EditorTyped, OwnShapes, SendType, page
  <2>3. CASE Stores(put.to, put.body) /\ sends' = [sends EXCEPT ![i].st = "stored"]
    <3>1. /\ sends' \in [Saves -> SendType]
          /\ sends'[i].to = put.to /\ sends'[i].body = put.body /\ sends'[i].st = "stored"
          /\ \A j \in Saves : j # i => sends'[j] = sends[j]
      BY <2>1, <2>2, <2>3 DEF SendType
    <3> QED BY <1>2, <2>1, <2>2, <2>3, <3>1
  <2>4. CASE sends' = [sends EXCEPT ![i].st = "refused"] /\ UNCHANGED <<atHub, had>>
    <3>1. /\ sends' \in [Saves -> SendType] /\ sends'[i].st = "refused"
          /\ \A j \in Saves : j # i => sends'[j] = sends[j]
      BY <2>1, <2>2, <2>4 DEF SendType
    <3>2. EditorTyped'
      BY <1>1, <2>2, <2>4, <3>1 DEF EditorTyped
    <3>3. \A j \in Saves : sends'[j].st \in {"sent", "stored"} => sends'[j] = sends[j]
      BY <3>1
    <3>4. OwnShapes'
      BY <1>1, <2>2, <2>4, <3>3 DEF OwnShapes, MadeFor
    <3>5. Persistent' /\ AwaitedIsPicked'
      BY <1>1, <2>2, <2>4, <3>3 DEF Persistent, AwaitedIsPicked
    <3> QED BY <3>2, <3>4, <3>5 DEF EditorInv
  <2> QED BY <1>3, <2>1, <2>3, <2>4 DEF ServeSave
<1>4. ASSUME NEW s \in Edited, OthersSave(s) PROVE EditorInv'
  <2>1. /\ Stores(s, {}) /\ {} \in Bodies /\ MadeFor(s, {})
        /\ UNCHANGED <<picked, body, saved, gets, sends, count, bodyOf, savedOf, crossed>>
    BY <1>4 DEF OthersSave, page, calls, Bodies, MadeFor
  <2>2. sends' \in [Saves -> SendType]
    BY <1>1, <2>1 DEF EditorTyped
  <2> QED BY <1>2, <2>1, <2>2
<1> QED BY <1>3, <1>4

LEMMA NextEditorInv == EditorInv /\ [EditorNext]_editorVars => EditorInv'
<1> SUFFICES ASSUME EditorInv, [EditorNext]_editorVars PROVE EditorInv'
  OBVIOUS
<1>1. EditorTyped /\ OwnShapes /\ Persistent /\ AwaitedIsPicked
  BY DEF EditorInv
<1>2. CASE Revert
  <2>1. /\ saved # Unknown /\ body' = saved /\ bodyOf' = savedOf
        /\ UNCHANGED <<picked, saved, gets, sends, atHub, count, had, savedOf, crossed>>
    BY <1>2 DEF Revert, Dirty, calls
  <2>2. EditorTyped'
    BY <1>1, <2>1 DEF EditorTyped
  <2>3. OwnShapes'
    BY <1>1, <2>1 DEF OwnShapes, MadeFor
  <2>4. Persistent' /\ AwaitedIsPicked'
    BY <1>1, <2>1 DEF Persistent, AwaitedIsPicked
  <2> QED BY <2>2, <2>3, <2>4 DEF EditorInv
<1>3. CASE UNCHANGED editorVars
  <2>1. UNCHANGED <<picked, body, saved, gets, sends, atHub, count, had, bodyOf, savedOf,
                    crossed>>
    BY <1>3 DEF editorVars, page, calls, origin
  <2> QED BY <1>1, <2>1 DEF EditorInv, EditorTyped, OwnShapes, MadeFor, Persistent,
                            AwaitedIsPicked
<1> QED
  BY <1>2, <1>3, PickKeeps, GetKeeps, ShapesKeep, SaveKeeps, StoresKeep DEF EditorNext

(* When the rules page says that what it shows is persisted, the hub has   *)
(* had these rules for this stream; and what the hub has for a stream was  *)
(* made for it, where the page did not hold another stream's rules when it *)
(* saved: for any number of streams, picks, edits and saves, with answers  *)
(* that come late or never (rules.js load, save, revert).                  *)
THEOREM PageIsHonest == EditorSpec => []EditorIsHonest
<1>1. ASSUME EditorInv PROVE EditorIsHonest
  <2>1. EditorTyped /\ OwnShapes /\ Persistent
    BY <1>1 DEF EditorInv
  <2>2. ASSUME Claims, bodyOf = picked, savedOf = picked PROVE body \in had[picked]
    <3>1. picked \in Edited /\ ~Dirty
      BY <2>1, <2>2 DEF Claims, Drawable, Ready, EditorTyped, Picks
    <3>2. saved \in had[picked]
      BY <2>1, <2>2, <3>1 DEF Persistent
    <3>3. saved # Unknown
      <4>1. NoShape \notin Shapes
        BY EditorAssumption DEF NoShape, Shape, Shapes, EditorAssumption
      <4>2. saved \in Bodies
        BY <2>1, <3>1, <3>2 DEF EditorTyped
      <4> QED BY <4>1, <4>2 DEF Unknown, Bodies
    <3> QED BY <3>1, <3>2, <3>3 DEF Dirty
  <2> QED BY <2>1, <2>2 DEF EditorIsHonest, OwnShapes, MadeFor
<1> QED BY InitEditorInv, NextEditorInv, <1>1, PTL DEF EditorSpec

-----------------------------------------------------------------------------
(* The rule engine.                                                        *)

(* The trail of one track and the messages' instants as values: what       *)
(* BornAt, Visit and Chain say of the state.                               *)
SweptIn(fr, o, p) == \E k \in (o.n + 1)..(p.n - 1) : fr[k] - o.at > TrackExpiry

BornIn(fr, h) ==
  CHOOSE i \in DOMAIN h :
    /\ i = 1 \/ SweptIn(fr, h[i - 1], h[i])
    /\ \A j \in (i + 1)..Len(h) : ~SweptIn(fr, h[j - 1], h[j])

Judged(h, i) == "zone_detection" \in h[i].on

VisitFrom(h, b, z) ==
  {i \in b..Len(h) :
     Judged(h, i) /\ \A j \in i..Len(h) : Judged(h, j) => Inside(h[j].pt, z)}

Breaks(h, i) ==
  "line_crossing" \notin h[i].on \/ h[i].at - h[i - 1].at > ChainGap

ChainFrom(h, b) ==
  {i \in b..Len(h) : \A j \in (i + 1)..Len(h) : ~Breaks(h, j)}

OffIn(h, b, l) == {i \in ChainFrom(h, b) : SideOf(l, h[i].pt) # 0}

(* The track of trail h was born at its observation b.                     *)
Born(fr, h, b) ==
  /\ b \in 1..Len(h)
  /\ b = 1 \/ SweptIn(fr, h[b - 1], h[b])
  /\ \A j \in (b + 1)..Len(h) : ~SweptIn(fr, h[j - 1], h[j])

(* A message since its last observation o forgot the track.                *)
Forgotten(fr, o) == \E k \in (o.n + 1)..Len(fr) : fr[k] - o.at > TrackExpiry

Seen0 == [pt : Points, at : Nat, n : Nat, on : FeatureSets]
StateType ==
  [seen : Int, entered : [Zones -> Int], chainAt : Int,
   side : [Lines -> Int], anchor : [Lines -> Points \cup {<<>>}]]

(* The engine's state of a track stands for its observations from b on:    *)
(* the instant at which its visit of a zone began, and the newest          *)
(* observation off a line in its chain.                                    *)
RecallsZone(ts, h, b, z) ==
  \/ VisitFrom(h, b, z) = {} /\ ts.entered[z] = Never
  \/ \E f \in VisitFrom(h, b, z) :
       ts.entered[z] = h[f].at /\ \A j \in VisitFrom(h, b, z) : f <= j

RecallsLine(ts, h, b, l) ==
  \/ OffIn(h, b, l) = {} /\ ts.side[l] = 0
  \/ \E m \in OffIn(h, b, l) :
       /\ ts.side[l] = SideOf(l, h[m].pt) /\ ts.anchor[l] = h[m].pt
       /\ \A j \in OffIn(h, b, l) : m >= j

(* Observation b is the first of a life that has begun, or is to begin.    *)
Recalls(ts, h, b) ==
  /\ b \in 1..(Len(h) + 1)
  /\ ts.chainAt = IF b <= Len(h) THEN h[Len(h)].at ELSE Never
  /\ \A z \in Zones : RecallsZone(ts, h, b, z)
  /\ \A l \in Lines : RecallsLine(ts, h, b, l)

Knows(fr, h, ts) ==
  /\ h = <<>> => ts = NoTrack
  /\ h # <<>> =>
       \E b \in 1..Len(h) :
         /\ Born(fr, h, b)
         /\ IF Forgotten(fr, h[Len(h)]) THEN ts = NoTrack
            ELSE Recalls(ts, h, b) /\ ts.seen = h[Len(h)].at

RuleTyped ==
  /\ now \in Nat /\ features \in FeatureSets
  /\ tracks \in [Tracks -> StateType]
  /\ frames \in Seq(Nat) /\ trail \in [Tracks -> Seq(Seen0)]
  /\ \A t \in Tracks : \A i \in 1..Len(trail[t]) : trail[t][i].n <= Len(frames)

(* The zone verdicts are those of the state the engine holds, whatever it  *)
(* has overlooked.                                                         *)
StateHits(t) == ZoneHitsSince(t, BornAt(t))

StateVerdicts ==
  out.evaluated =>
    {h \in out.hits : h.type \in ZoneTypes}
      = IF ZoneOn THEN UNION {StateHits(t) : t \in Seen} ELSE {}

RuleInv ==
  /\ RuleTyped
  /\ \A t \in Tracks : Knows(frames, trail[t], tracks[t])
  /\ StateVerdicts /\ CrossingsAreEarned

LEMMA TrailGrows ==
  ASSUME NEW S, NEW h \in Seq(S), NEW o \in S
  PROVE  /\ Append(h, o) \in Seq(S)
         /\ Len(Append(h, o)) = Len(h) + 1
         /\ \A i \in 1..Len(h) : Append(h, o)[i] = h[i] /\ h[i] \in S
         /\ Append(h, o)[Len(h) + 1] = o
         /\ Len(h) \in Nat
  OBVIOUS

(* A new observation goes on with the visit, ends it or does not count.    *)
LEMMA VisitGrows ==
  ASSUME NEW h \in Seq(Seen0), NEW o \in Seen0, NEW b \in 1..(Len(h) + 1),
         NEW z \in Zones
  PROVE  VisitFrom(Append(h, o), b, z) =
           IF "zone_detection" \notin o.on THEN VisitFrom(h, b, z)
           ELSE IF Inside(o.pt, z) THEN VisitFrom(h, b, z) \cup {Len(h) + 1} ELSE {}
<1> DEFINE k == Append(h, o)
           n == Len(h)
<1>1. /\ Len(k) = n + 1 /\ n \in Nat /\ b \in Nat
      /\ \A i \in 1..n : k[i] = h[i]
      /\ k[n + 1] = o
  BY TrailGrows
<1> HIDE DEF k
<1>2. /\ \A i \in 1..n : Judged(k, i) <=> Judged(h, i)
      /\ Judged(k, n + 1) <=> "zone_detection" \in o.on
  BY <1>1 DEF Judged
<1>3. \A i \in b..n : i \in VisitFrom(k, b, z) <=>
         /\ i \in VisitFrom(h, b, z)
         /\ "zone_detection" \in o.on => Inside(o.pt, z)
  <2> SUFFICES ASSUME NEW i \in b..n
               PROVE  i \in VisitFrom(k, b, z) <=>
                         /\ i \in VisitFrom(h, b, z)
                         /\ "zone_detection" \in o.on => Inside(o.pt, z)
    OBVIOUS
  <2>1. \A j \in i..(n + 1) : j \in i..n \/ j = n + 1
    BY <1>1
  <2>2. i \in 1..n /\ i..n \subseteq 1..n /\ i \in b..(n + 1) /\ n + 1 \in i..(n + 1)
        /\ i..n \subseteq i..(n + 1)
    BY <1>1
  <2> QED BY <1>1, <1>2, <2>1, <2>2 DEF VisitFrom
<1>4. n + 1 \in VisitFrom(k, b, z) <=>
         "zone_detection" \in o.on /\ Inside(o.pt, z)
  <2>1. (n + 1)..(n + 1) = {n + 1} /\ n + 1 \in b..(n + 1)
    BY <1>1
  <2> QED BY <1>1, <1>2, <2>1 DEF VisitFrom
<1>5. /\ VisitFrom(k, b, z) \subseteq (b..n) \cup {n + 1}
      /\ VisitFrom(h, b, z) \subseteq b..n
      /\ n + 1 \notin b..n
      /\ "zone_detection" \notin o.on => n + 1 \notin VisitFrom(k, b, z)
  BY <1>1, <1>4 DEF VisitFrom
<1>6. CASE "zone_detection" \notin o.on
  <2>1. VisitFrom(k, b, z) \subseteq b..n /\ VisitFrom(h, b, z) \subseteq b..n
    BY <1>5, <1>6
  <2>2. \A i \in b..n : i \in VisitFrom(k, b, z) <=> i \in VisitFrom(h, b, z)
    BY <1>3, <1>6
  <2>3. VisitFrom(k, b, z) = VisitFrom(h, b, z)
    BY <2>1, <2>2
  <2> QED BY <2>3, <1>6 DEF k
<1>7. CASE "zone_detection" \in o.on /\ Inside(o.pt, z)
  BY <1>3, <1>4, <1>5, <1>7 DEF k
<1>8. CASE "zone_detection" \in o.on /\ ~Inside(o.pt, z)
  BY <1>3, <1>4, <1>5, <1>8 DEF k
<1> QED BY <1>6, <1>7, <1>8

(* A new observation goes on with the chain or starts one.                 *)
LEMMA ChainGrows ==
  ASSUME NEW h \in Seq(Seen0), NEW o \in Seen0, NEW b \in 1..(Len(h) + 1)
  PROVE  ChainFrom(Append(h, o), b) =
           IF b <= Len(h) /\ ~Breaks(Append(h, o), Len(h) + 1)
           THEN ChainFrom(h, b) \cup {Len(h) + 1} ELSE {Len(h) + 1}
<1> DEFINE k == Append(h, o)
           n == Len(h)
<1>1. /\ Len(k) = n + 1 /\ n \in Nat /\ b \in Nat
      /\ \A i \in 1..n : k[i] = h[i]
      /\ k[n + 1] = o
  BY TrailGrows
<1> HIDE DEF k
<1>2. \A i \in 2..n : Breaks(k, i) <=> Breaks(h, i)
  BY <1>1 DEF Breaks
<1>3. \A i \in b..n : i \in ChainFrom(k, b) <=>
         i \in ChainFrom(h, b) /\ ~Breaks(k, n + 1)
  <2> SUFFICES ASSUME NEW i \in b..n
               PROVE  i \in ChainFrom(k, b) <=>
                         i \in ChainFrom(h, b) /\ ~Breaks(k, n + 1)
    OBVIOUS
  <2>1. \A j \in (i + 1)..(n + 1) : j \in (i + 1)..n \/ j = n + 1
    BY <1>1
  <2>2. /\ (i + 1)..n \subseteq 2..n /\ i \in b..(n + 1)
        /\ n + 1 \in (i + 1)..(n + 1)
        /\ (i + 1)..n \subseteq (i + 1)..(n + 1)
    BY <1>1
  <2> QED BY <1>1, <1>2, <2>1, <2>2 DEF ChainFrom
<1>4. n + 1 \in ChainFrom(k, b)
  BY <1>1 DEF ChainFrom
<1>5. /\ ChainFrom(k, b) \subseteq (b..n) \cup {n + 1}
      /\ ChainFrom(h, b) \subseteq b..n
      /\ n + 1 \notin b..n
      /\ ~(b <= n) => b..n = {}
  BY <1>1 DEF ChainFrom
<1>6. CASE b <= n /\ ~Breaks(k, n + 1)
  BY <1>3, <1>4, <1>5, <1>6 DEF k
<1>7. CASE ~(b <= n /\ ~Breaks(k, n + 1))
  BY <1>3, <1>4, <1>5, <1>7 DEF k
<1> QED BY <1>6, <1>7 DEF k

LEMMA FirstIs ==
  ASSUME NEW S \in SUBSET Nat, NEW f \in S, \A j \in S : f <= j
  PROVE  First(S) = f
<1>1. First(S) \in S /\ \A j \in S : First(S) <= j
  BY DEF First
<1>2. First(S) \in Nat /\ f \in Nat
  BY <1>1
<1>3. First(S) <= f /\ f <= First(S)
  BY <1>1
<1> QED BY <1>2, <1>3

LEMMA NewestIs ==
  ASSUME NEW S \in SUBSET Nat, NEW f \in S, \A j \in S : f >= j
  PROVE  Newest(S) = f
<1>1. Newest(S) \in S /\ \A j \in S : Newest(S) >= j
  BY DEF Newest
<1>2. Newest(S) \in Nat /\ f \in Nat
  BY <1>1
<1>3. Newest(S) >= f /\ f >= Newest(S)
  BY <1>1
<1> QED BY <1>2, <1>3

(* One instant in the state of a track is replaced.                        *)
LEMMA InstantReplaced ==
  ASSUME NEW ts \in StateType, NEW n \in Int
  PROVE  /\ [ts EXCEPT !.chainAt = n] \in StateType
         /\ [ts EXCEPT !.chainAt = n].chainAt = n
         /\ [ts EXCEPT !.chainAt = n].entered = ts.entered
         /\ [ts EXCEPT !.chainAt = n].side = ts.side
         /\ [ts EXCEPT !.chainAt = n].anchor = ts.anchor
  BY DEF StateType

(* What an evaluation makes of the state of a track.                       *)
GoesOn(ts) == LinesOn /\ ChainOk(ts)

LEMMA EvaluatedIs ==
  ASSUME NEW ts \in StateType, NEW pt \in Points, now \in Nat
  PROVE  /\ Evaluated(ts, pt) \in StateType
         /\ Evaluated(ts, pt).seen = now /\ Evaluated(ts, pt).chainAt = now
         /\ Evaluated(ts, pt).entered =
              IF ZoneOn THEN EnteredAt(ts.entered, pt) ELSE ts.entered
         /\ \A l \in Lines :
              /\ Evaluated(ts, pt).side[l] =
                   IF GoesOn(ts) THEN Noted(ts.side[l], l, pt) ELSE SideOf(l, pt)
              /\ Evaluated(ts, pt).anchor[l] =
                   IF SideOf(l, pt) # 0 THEN pt
                   ELSE IF GoesOn(ts) THEN ts.anchor[l] ELSE <<>>
         /\ \A l \in Lines : SideOf(l, pt) \in -1..1
<1>1. \A l \in Lines : SideOf(l, pt) \in -1..1
  BY DEF SideOf, Side
<1>2. EnteredAt(ts.entered, pt) \in [Zones -> Int]
  BY DEF EnteredAt, StateType, Never
<1> DEFINE zs == AfterZones(ts, pt)
<1>3. /\ zs \in StateType
      /\ zs.entered = IF ZoneOn THEN EnteredAt(ts.entered, pt) ELSE ts.entered
      /\ zs.side = ts.side /\ zs.anchor = ts.anchor /\ zs.chainAt = ts.chainAt
  BY <1>2 DEF AfterZones, StateType
<1> HIDE DEF zs
<1>4. ChainOk(zs) <=> ChainOk(ts)
  BY <1>3 DEF ChainOk
<1> DEFINE ls == IF LinesOn /\ ChainOk(zs) THEN Followed(zs, pt) ELSE Reanchored(zs, pt)
<1>5. /\ Followed(zs, pt) \in StateType /\ Followed(zs, pt).entered = zs.entered
      /\ \A l \in Lines :
           /\ Followed(zs, pt).side[l] = Noted(zs.side[l], l, pt)
           /\ Followed(zs, pt).anchor[l] = IF SideOf(l, pt) = 0 THEN zs.anchor[l] ELSE pt
  <2> DEFINE sides == [l \in Lines |-> Noted(zs.side[l], l, pt)]
             anchors == [l \in Lines |-> IF SideOf(l, pt) = 0 THEN zs.anchor[l] ELSE pt]
  <2>1. sides \in [Lines -> Int]
    BY <1>1, <1>3 DEF StateType, Noted
  <2>2. anchors \in [Lines -> Points \cup {<<>>}]
    BY <1>3 DEF StateType
  <2>3. Followed(zs, pt) = [zs EXCEPT !.side = sides, !.anchor = anchors]
    BY DEF Followed
  <2>4. /\ \A l \in Lines : sides[l] = Noted(zs.side[l], l, pt)
        /\ \A l \in Lines : anchors[l] = IF SideOf(l, pt) = 0 THEN zs.anchor[l] ELSE pt
    OBVIOUS
  <2> HIDE DEF sides, anchors
  <2>5. PICK r : r = [zs EXCEPT !.side = sides, !.anchor = anchors]
    OBVIOUS
  <2>6. r \in StateType /\ r.entered = zs.entered /\ r.side = sides /\ r.anchor = anchors
    BY <1>3, <2>1, <2>2, <2>5 DEF StateType
  <2>7. Followed(zs, pt) = r
    BY <2>3, <2>5
  <2> QED BY <2>4, <2>6, <2>7
<1>6. /\ Reanchored(zs, pt) \in StateType /\ Reanchored(zs, pt).entered = zs.entered
      /\ \A l \in Lines :
           /\ Reanchored(zs, pt).side[l] = SideOf(l, pt)
           /\ Reanchored(zs, pt).anchor[l] = IF SideOf(l, pt) = 0 THEN <<>> ELSE pt
  <2> DEFINE sides == [l \in Lines |-> SideOf(l, pt)]
             anchors == [l \in Lines |-> IF SideOf(l, pt) = 0 THEN <<>> ELSE pt]
  <2>1. sides \in [Lines -> Int]
    BY <1>1
  <2>2. anchors \in [Lines -> Points \cup {<<>>}]
    OBVIOUS
  <2>3. Reanchored(zs, pt) = [zs EXCEPT !.side = sides, !.anchor = anchors]
    BY DEF Reanchored
  <2>4. /\ \A l \in Lines : sides[l] = SideOf(l, pt)
        /\ \A l \in Lines : anchors[l] = IF SideOf(l, pt) = 0 THEN <<>> ELSE pt
    OBVIOUS
  <2> HIDE DEF sides, anchors
  <2>5. PICK r : r = [zs EXCEPT !.side = sides, !.anchor = anchors]
    OBVIOUS
  <2>6. r \in StateType /\ r.entered = zs.entered /\ r.side = sides /\ r.anchor = anchors
    BY <1>3, <2>1, <2>2, <2>5 DEF StateType
  <2>7. Reanchored(zs, pt) = r
    BY <2>3, <2>5
  <2> QED BY <2>4, <2>6, <2>7
<1>7. /\ ls \in StateType /\ ls.entered = zs.entered
      /\ \A l \in Lines :
           /\ ls.side[l] = IF GoesOn(ts) THEN Noted(ts.side[l], l, pt) ELSE SideOf(l, pt)
           /\ ls.anchor[l] = IF SideOf(l, pt) # 0 THEN pt
                             ELSE IF GoesOn(ts) THEN ts.anchor[l] ELSE <<>>
  BY <1>3, <1>4, <1>5, <1>6 DEF GoesOn
<1>8. AfterLines(zs, pt) = [ls EXCEPT !.chainAt = now]
  BY DEF AfterLines
<1> HIDE DEF ls
<1>9. /\ AfterLines(zs, pt) \in StateType
      /\ AfterLines(zs, pt).entered = ls.entered /\ AfterLines(zs, pt).chainAt = now
      /\ AfterLines(zs, pt).side = ls.side /\ AfterLines(zs, pt).anchor = ls.anchor
  <2>1. now \in Int /\ ls \in StateType
    BY <1>7
  <2> QED BY <1>8, <2>1, InstantReplaced
<1>10. Evaluated(ts, pt) = [AfterLines(zs, pt) EXCEPT !.seen = now]
  BY DEF Evaluated, zs
<1>11. /\ Evaluated(ts, pt) \in StateType
       /\ Evaluated(ts, pt).seen = now /\ Evaluated(ts, pt).chainAt = now
       /\ Evaluated(ts, pt).entered = zs.entered
       /\ Evaluated(ts, pt).side = ls.side /\ Evaluated(ts, pt).anchor = ls.anchor
  BY <1>7, <1>9, <1>10 DEF StateType
<1> QED BY <1>1, <1>3, <1>7, <1>11

(* What a message sees of track h at pt.                                   *)
Sighting(pt, n) == [pt |-> pt, at |-> now, n |-> n, on |-> features]

(* The engine answers about zone z what the visit has earned.              *)
ZoneAnswered(ts, pt, k, b, z) ==
  /\ VisitFrom(k, b, z) = {Len(k)} <=> Inside(pt, z) /\ ts.entered[z] = Never
  /\ (VisitFrom(k, b, z) # {} /\ now - k[First(VisitFrom(k, b, z))].at >= Dwell[z])
       <=> Inside(pt, z) /\ now - EnteredAt(ts.entered, pt)[z] >= Dwell[z]

(* The zone part of a track's state, and what it answers, follow the visit *)
(* that the new observation makes.                                         *)
LEMMA ZoneJudged ==
  ASSUME NEW ts \in StateType, NEW h \in Seq(Seen0), NEW b \in 1..(Len(h) + 1),
         NEW z \in Zones, RecallsZone(ts, h, b, z), NEW pt \in Points,
         NEW n \in Nat, now \in Nat, features \in FeatureSets,
         NEW k, k = Append(h, Sighting(pt, n)), Dwell[z] \in Nat
  PROVE  /\ RecallsZone(Evaluated(ts, pt), k, b, z)
         /\ ZoneOn => ZoneAnswered(ts, pt, k, b, z)
<1> DEFINE o == Sighting(pt, n)
           V == VisitFrom(h, b, z)
           W == VisitFrom(k, b, z)
           new == Evaluated(ts, pt)
<1>1. o \in Seen0 /\ o.pt = pt /\ o.at = now /\ ("zone_detection" \in o.on <=> ZoneOn)
  BY DEF Sighting, Seen0, ZoneOn
<1>2. /\ Len(k) = Len(h) + 1 /\ k[Len(h) + 1] = o /\ Len(h) \in Nat
      /\ \A i \in 1..Len(h) : k[i] = h[i] /\ h[i] \in Seen0
  BY <1>1, TrailGrows
<1>3. /\ V \subseteq 1..Len(h) /\ V \in SUBSET Nat /\ W \in SUBSET Nat
  BY <1>2 DEF VisitFrom
<1>4. W = IF ~ZoneOn THEN V ELSE IF Inside(pt, z) THEN V \cup {Len(h) + 1} ELSE {}
  <2> HIDE DEF o
  <2>1. VisitFrom(Append(h, o), b, z) =
           IF "zone_detection" \notin o.on THEN V
           ELSE IF Inside(o.pt, z) THEN V \cup {Len(h) + 1} ELSE {}
    BY <1>1, VisitGrows
  <2>2. k = Append(h, o)
    BY DEF o
  <2> QED BY <1>1, <2>1, <2>2
<1>5. new.entered = IF ZoneOn THEN EnteredAt(ts.entered, pt) ELSE ts.entered
  BY EvaluatedIs
<1>6. EnteredAt(ts.entered, pt)[z] =
        IF ~Inside(pt, z) THEN Never
        ELSE IF ts.entered[z] = Never THEN now ELSE ts.entered[z]
  BY DEF EnteredAt
<1>7. \A i \in 1..Len(h) : k[i].at = h[i].at /\ h[i].at \in Nat /\ h[i].at # Never
  <2>1. \A s \in Seen0 : s.at \in Nat /\ s.at # Never
    BY DEF Seen0, Never
  <2> HIDE DEF Seen0, o, V, W, new
  <2> QED BY <1>2, <2>1
<1> HIDE DEF V, W, new, o
<1>8. CASE V = {} /\ ts.entered[z] = Never
  <2>1. First({Len(h) + 1}) = Len(h) + 1
    BY <1>2, FirstIs
  <2>2. k[Len(h) + 1].at = now
    BY <1>1, <1>2
  <2>3. RecallsZone(new, k, b, z)
    <3>1. CASE ~ZoneOn \/ ~Inside(pt, z)
      <4>1. W = {} /\ new.entered[z] = Never
        BY <1>4, <1>5, <1>6, <1>8, <3>1
      <4> QED BY <4>1 DEF RecallsZone, W
    <3>2. CASE ZoneOn /\ Inside(pt, z)
      <4>1. W = {Len(h) + 1} /\ new.entered[z] = k[Len(h) + 1].at
        BY <1>4, <1>5, <1>6, <1>8, <2>2, <3>2
      <4> QED BY <1>2, <4>1 DEF RecallsZone, W
    <3> QED BY <3>1, <3>2
  <2>4. ZoneOn =>
          /\ W = {Len(k)} <=> Inside(pt, z) /\ ts.entered[z] = Never
          /\ (W # {} /\ now - k[First(W)].at >= Dwell[z])
               <=> Inside(pt, z) /\ now - EnteredAt(ts.entered, pt)[z] >= Dwell[z]
    <3> SUFFICES ASSUME ZoneOn
                 PROVE  /\ W = {Len(k)} <=> Inside(pt, z) /\ ts.entered[z] = Never
                        /\ (W # {} /\ now - k[First(W)].at >= Dwell[z])
                             <=> Inside(pt, z) /\ now - EnteredAt(ts.entered, pt)[z] >= Dwell[z]
      OBVIOUS
    <3>1. CASE Inside(pt, z)
      <4>1. W = {Len(h) + 1}
        BY <1>4, <1>8, <3>1
      <4>2. First(W) = Len(h) + 1 /\ EnteredAt(ts.entered, pt)[z] = now
        BY <2>1, <4>1, <1>6, <1>8, <3>1
      <4> QED BY <1>2, <1>8, <2>2, <3>1, <4>1, <4>2
    <3>2. CASE ~Inside(pt, z)
      BY <1>4, <3>2
    <3> QED BY <3>1, <3>2
  <2> QED BY <2>3, <2>4 DEF W, new, ZoneAnswered
<1>9. CASE \E f \in V : ts.entered[z] = h[f].at /\ \A j \in V : f <= j
  <2>1. PICK f \in V : ts.entered[z] = h[f].at /\ \A j \in V : f <= j
    BY <1>9
  <2>2. f \in 1..Len(h) /\ f \in Nat /\ f <= Len(h) /\ f # Len(h) + 1
    BY <1>2, <1>3, <2>1
  <2>3. ts.entered[z] = k[f].at /\ ts.entered[z] # Never
    BY <1>7, <2>1, <2>2
  <2>4. RecallsZone(new, k, b, z)
    <3>1. CASE ZoneOn /\ ~Inside(pt, z)
      <4>1. W = {} /\ new.entered[z] = Never
        BY <1>4, <1>5, <1>6, <3>1
      <4> QED BY <4>1 DEF RecallsZone, W
    <3>2. CASE ~ZoneOn \/ Inside(pt, z)
      <4>1. f \in W /\ new.entered[z] = k[f].at
        BY <1>4, <1>5, <1>6, <2>1, <2>3, <3>2
      <4>2. \A j \in W : f <= j
        <5>1. W = V \/ W = V \cup {Len(h) + 1}
          BY <1>4, <3>2
        <5>2. f <= Len(h) + 1
          BY <1>2, <2>2
        <5>3. \A j \in W : j \in V \/ j = Len(h) + 1
          BY <5>1
        <5> QED BY <2>1, <5>2, <5>3
      <4> QED BY <4>1, <4>2 DEF RecallsZone, W
    <3> QED BY <3>1, <3>2
  <2>5. ZoneOn =>
          /\ W = {Len(k)} <=> Inside(pt, z) /\ ts.entered[z] = Never
          /\ (W # {} /\ now - k[First(W)].at >= Dwell[z])
               <=> Inside(pt, z) /\ now - EnteredAt(ts.entered, pt)[z] >= Dwell[z]
    <3> SUFFICES ASSUME ZoneOn
                 PROVE  /\ W = {Len(k)} <=> Inside(pt, z) /\ ts.entered[z] = Never
                        /\ (W # {} /\ now - k[First(W)].at >= Dwell[z])
                             <=> Inside(pt, z) /\ now - EnteredAt(ts.entered, pt)[z] >= Dwell[z]
      OBVIOUS
    <3>1. CASE Inside(pt, z)
      <4>1. f \in W /\ \A j \in W : f <= j
        BY <1>2, <1>3, <1>4, <2>1, <2>2, <3>1
      <4>2. First(W) = f
        BY <1>3, <4>1, FirstIs
      <4>3. EnteredAt(ts.entered, pt)[z] = k[f].at
        BY <1>6, <2>3, <3>1
      <4>4. W # {Len(k)}
        BY <1>2, <2>2, <4>1
      <4> QED BY <2>3, <3>1, <4>1, <4>2, <4>3, <4>4
    <3>2. CASE ~Inside(pt, z)
      BY <1>4, <3>2
    <3> QED BY <3>1, <3>2
  <2> QED BY <2>4, <2>5 DEF W, new, ZoneAnswered
<1> QED BY <1>8, <1>9 DEF RecallsZone, V

(* The observations of a chain before the newest that are off line l.      *)
OffBefore(k, b, l) == {i \in ChainFrom(k, b) \ {Len(k)} : SideOf(l, k[i].pt) # 0}

(* EarnedCrossings of one line, of a trail and its birth.                  *)
CrossingIn(k, b, l, pt) ==
  /\ OffBefore(k, b, l) # {}
  /\ LET from == k[Newest(OffBefore(k, b, l))].pt
     IN  /\ SideOf(l, pt) = -SideOf(l, from)
         /\ SegmentsIntersect(from, pt, Segment[l].start, Segment[l].end)
         /\ Segment[l].direction \in
              {"any", IF SideOf(l, pt) < 0 THEN "forward" ELSE "backward"}

LEMMA SidesAre ==
  ASSUME NEW l, NEW pt
  PROVE  SideOf(l, pt) \in -1..1
  BY DEF SideOf, Side

(* A change of sides is the direction's name.                              *)
LEMMA DirectionNamed ==
  ASSUME NEW s \in -1..1, NEW c \in -1..1
  PROVE  /\ (s # 0 /\ DirectionFromSides(s, c) # "none") <=> (s # 0 /\ c = -s)
         /\ s # 0 /\ c = -s =>
              DirectionFromSides(s, c) = IF c < 0 THEN "forward" ELSE "backward"
         /\ DirectionFromSides(s, c) \in {"forward", "backward", "none"}
  BY DEF DirectionFromSides

(* The line part of a track's state, and what it answers, follow the chain *)
(* that the new observation makes.                                         *)
LEMMA LineJudged ==
  ASSUME NEW ts \in StateType, NEW h \in Seq(Seen0), NEW b \in 1..(Len(h) + 1),
         NEW l \in Lines, RecallsLine(ts, h, b, l), NEW pt \in Points,
         ts.chainAt = IF b <= Len(h) THEN h[Len(h)].at ELSE Never,
         NEW n \in Nat, now \in Nat, features \in FeatureSets,
         NEW k, k = Append(h, Sighting(pt, n))
  PROVE  /\ RecallsLine(Evaluated(ts, pt), k, b, l)
         /\ LinesOn =>
              (CrossingIn(k, b, l, pt)
                 <=> GoesOn(ts) /\ Crosses(l, ts.side[l], ts.anchor[l], pt))
<1> DEFINE o == Sighting(pt, n)
           new == Evaluated(ts, pt)
           N == Len(h)
           on == b <= N /\ ~Breaks(k, N + 1)
<1>1. /\ o \in Seen0 /\ o.pt = pt /\ o.at = now
      /\ ("line_crossing" \in o.on <=> LinesOn)
  BY DEF Sighting, Seen0, LinesOn
<1>2. /\ Len(k) = N + 1 /\ k[N + 1] = o /\ N \in Nat
      /\ \A i \in 1..N : k[i] = h[i] /\ h[i] \in Seen0
  BY <1>1, TrailGrows
<1>3. ChainFrom(k, b) = IF on THEN ChainFrom(h, b) \cup {N + 1} ELSE {N + 1}
  <2> HIDE DEF o
  <2>1. k = Append(h, o)
    BY DEF o
  <2> QED BY <1>1, <2>1, ChainGrows
<1>4. ChainFrom(h, b) \subseteq b..N /\ b \in Nat /\ b >= 1
  BY <1>2 DEF ChainFrom
<1>5. on <=> GoesOn(ts)
  <2>1. CASE b <= N
    <3>1. N \in 1..N /\ N + 1 - 1 = N
      BY <1>2, <1>4, <2>1
    <3>2. h[N] \in Seen0 /\ k[N] = h[N]
      BY <1>2, <3>1
    <3>3. h[N].at \in Nat
      BY <3>2 DEF Seen0
    <3>4. ts.chainAt = h[N].at /\ h[N].at # Never
      BY <2>1, <3>3 DEF Never
    <3>5. Breaks(k, N + 1) <=> (~LinesOn \/ now - h[N].at > ChainGap)
      BY <1>1, <1>2, <3>1, <3>2 DEF Breaks
    <3>6. now - h[N].at \in Int /\ ChainGap \in Nat
      BY <3>3, EngineAssumption
    <3> QED BY <2>1, <3>4, <3>5, <3>6 DEF GoesOn, ChainOk
  <2>2. CASE ~(b <= N)
    BY <2>2 DEF GoesOn, ChainOk
  <2> QED BY <2>1, <2>2
<1>6. \A i \in b..N : k[i] = h[i] /\ i # N + 1 /\ i \in Nat /\ i <= N
  BY <1>2, <1>4
<1>7. SideOf(l, k[N + 1].pt) = SideOf(l, pt) /\ k[N + 1].pt = pt
  BY <1>1, <1>2
<1> DEFINE P == OffIn(h, b, l)
           Q == OffIn(k, b, l)
<1>8. P \subseteq b..N
  BY <1>4 DEF OffIn
<1> HIDE DEF on, new, o
<1>9. Q = (IF GoesOn(ts) THEN P ELSE {})
          \cup (IF SideOf(l, pt) # 0 THEN {N + 1} ELSE {})
  <2>1. CASE GoesOn(ts)
    <3>1. ChainFrom(k, b) = ChainFrom(h, b) \cup {N + 1}
      BY <1>3, <1>5, <2>1
    <3>2. \A i \in ChainFrom(h, b) : k[i] = h[i]
      BY <1>4, <1>6
    <3> QED BY <1>7, <2>1, <3>1, <3>2 DEF OffIn
  <2>2. CASE ~GoesOn(ts)
    <3>1. ChainFrom(k, b) = {N + 1}
      BY <1>3, <1>5, <2>2
    <3> QED BY <1>7, <2>2, <3>1 DEF OffIn
  <2> QED BY <2>1, <2>2
<1>10. OffBefore(k, b, l) = IF GoesOn(ts) THEN P ELSE {}
  <2>1. OffBefore(k, b, l) = Q \ {N + 1}
    BY <1>2 DEF OffBefore, OffIn
  <2>2. N + 1 \notin P
    BY <1>6, <1>8
  <2> QED BY <1>9, <2>1, <2>2
<1>11. /\ new.side[l] = IF GoesOn(ts) THEN Noted(ts.side[l], l, pt) ELSE SideOf(l, pt)
       /\ new.anchor[l] = IF SideOf(l, pt) # 0 THEN pt
                          ELSE IF GoesOn(ts) THEN ts.anchor[l] ELSE <<>>
  BY EvaluatedIs DEF new
<1>12. P \in SUBSET Nat /\ Q \in SUBSET Nat
  <2>1. b..N \subseteq Nat /\ N + 1 \in Nat
    BY <1>2, <1>4
  <2> QED BY <1>8, <1>9, <2>1
<1> HIDE DEF P, Q
<1>13. ASSUME SideOf(l, pt) # 0
       PROVE  RecallsLine(new, k, b, l)
  <2>1. N + 1 \in Q /\ new.side[l] = SideOf(l, k[N + 1].pt) /\ new.anchor[l] = k[N + 1].pt
    BY <1>7, <1>9, <1>11, <1>13 DEF Noted
  <2>2. \A j \in Q : N + 1 >= j
    <3>1. \A j \in Q : j \in b..N \/ j = N + 1
      BY <1>8, <1>9
    <3> QED BY <1>2, <1>6, <3>1
  <2> QED BY <2>1, <2>2 DEF RecallsLine, Q
<1>14. ASSUME SideOf(l, pt) = 0 /\ ~GoesOn(ts)
       PROVE  RecallsLine(new, k, b, l)
  <2>1. Q = {} /\ new.side[l] = 0
    BY <1>9, <1>11, <1>14
  <2> QED BY <2>1 DEF RecallsLine, Q
<1>15. ASSUME SideOf(l, pt) = 0 /\ GoesOn(ts)
       PROVE  RecallsLine(new, k, b, l)
  <2>1. Q = P /\ new.side[l] = ts.side[l] /\ new.anchor[l] = ts.anchor[l]
    BY <1>9, <1>11, <1>15 DEF Noted
  <2>2. CASE P = {} /\ ts.side[l] = 0
    BY <2>1, <2>2 DEF RecallsLine, Q
  <2>3. CASE \E m \in P : /\ ts.side[l] = SideOf(l, h[m].pt) /\ ts.anchor[l] = h[m].pt
                          /\ \A j \in P : m >= j
    <3>1. PICK m \in P : /\ ts.side[l] = SideOf(l, h[m].pt) /\ ts.anchor[l] = h[m].pt
                         /\ \A j \in P : m >= j
      BY <2>3
    <3>2. k[m] = h[m]
      BY <1>6, <1>8, <3>1
    <3>3. m \in Q /\ new.side[l] = SideOf(l, k[m].pt) /\ new.anchor[l] = k[m].pt
      BY <2>1, <3>1, <3>2
    <3>4. \A j \in Q : m >= j
      BY <2>1, <3>1
    <3> QED BY <3>3, <3>4 DEF RecallsLine, Q
  <2> QED BY <2>2, <2>3 DEF RecallsLine, P
<1>16. RecallsLine(new, k, b, l)
  BY <1>13, <1>14, <1>15 DEF new
<1>17. ASSUME GoesOn(ts)
       PROVE  CrossingIn(k, b, l, pt) <=> Crosses(l, ts.side[l], ts.anchor[l], pt)
  <2>1. CASE P = {} /\ ts.side[l] = 0
    <3>1. OffBefore(k, b, l) = {}
      BY <1>10, <1>17, <2>1
    <3> QED BY <2>1, <3>1 DEF CrossingIn, Crosses
  <2>2. CASE \E m \in P : /\ ts.side[l] = SideOf(l, h[m].pt) /\ ts.anchor[l] = h[m].pt
                          /\ \A j \in P : m >= j
    <3>1. PICK m \in P : /\ ts.side[l] = SideOf(l, h[m].pt) /\ ts.anchor[l] = h[m].pt
                         /\ \A j \in P : m >= j
      BY <2>2
    <3>2. /\ k[m] = h[m] /\ Newest(P) = m /\ OffBefore(k, b, l) = P
      BY <1>6, <1>8, <1>10, <1>12, <1>17, <3>1, NewestIs
    <3>3. SideOf(l, h[m].pt) # 0
      BY <3>1 DEF P, OffIn
    <3>4. k[Newest(OffBefore(k, b, l))].pt = ts.anchor[l] /\ OffBefore(k, b, l) # {}
      BY <3>1, <3>2
    <3>5. /\ SideOf(l, ts.anchor[l]) = ts.side[l] /\ ts.side[l] # 0
          /\ ts.side[l] \in -1..1 /\ SideOf(l, pt) \in -1..1
      BY <3>1, <3>3, SidesAre
    <3>6. CrossingIn(k, b, l, pt) <=>
            /\ SideOf(l, pt) = -ts.side[l]
            /\ SegmentsIntersect(ts.anchor[l], pt, Segment[l].start, Segment[l].end)
            /\ Segment[l].direction \in
                 {"any", IF SideOf(l, pt) < 0 THEN "forward" ELSE "backward"}
      BY <3>4, <3>5 DEF CrossingIn
    <3> DEFINE dir == DirectionFromSides(ts.side[l], SideOf(l, pt))
    <3>7. /\ dir # "none" <=> SideOf(l, pt) = -ts.side[l]
          /\ SideOf(l, pt) = -ts.side[l] =>
               dir = IF SideOf(l, pt) < 0 THEN "forward" ELSE "backward"
      BY <3>5, DirectionNamed
    <3>8. Crosses(l, ts.side[l], ts.anchor[l], pt) <=>
            /\ dir # "none"
            /\ SegmentsIntersect(ts.anchor[l], pt, Segment[l].start, Segment[l].end)
            /\ Segment[l].direction \in {"any", dir}
      BY <3>5 DEF Crosses
    <3> HIDE DEF dir
    <3> QED BY <3>6, <3>7, <3>8
  <2> QED BY <2>1, <2>2 DEF RecallsLine, P
<1>18. ASSUME ~GoesOn(ts)
       PROVE  ~CrossingIn(k, b, l, pt)
  BY <1>10, <1>18 DEF CrossingIn
<1> QED BY <1>16, <1>17, <1>18 DEF new

LEMMA RecallsGrows ==
  ASSUME NEW ts \in StateType, NEW h \in Seq(Seen0), NEW b, Recalls(ts, h, b),
         NEW pt \in Points, NEW n \in Nat, now \in Nat, features \in FeatureSets,
         NEW k, k = Append(h, Sighting(pt, n))
  PROVE  Recalls(Evaluated(ts, pt), k, b)
<1>1. /\ b \in 1..(Len(h) + 1)
      /\ ts.chainAt = IF b <= Len(h) THEN h[Len(h)].at ELSE Never
      /\ \A z \in Zones : RecallsZone(ts, h, b, z)
      /\ \A l \in Lines : RecallsLine(ts, h, b, l)
  BY DEF Recalls
<1>2. \A z \in Zones : Dwell[z] \in Nat
  BY EngineAssumption
<1>3. \A z \in Zones : RecallsZone(Evaluated(ts, pt), k, b, z)
  BY <1>1, <1>2, ZoneJudged
<1>4. \A l \in Lines : RecallsLine(Evaluated(ts, pt), k, b, l)
  BY <1>1, LineJudged
<1>5. Sighting(pt, n) \in Seen0 /\ Sighting(pt, n).at = now
  BY DEF Sighting, Seen0
<1>6. Len(k) = Len(h) + 1 /\ k[Len(h) + 1] = Sighting(pt, n) /\ Len(h) \in Nat
  BY <1>5, TrailGrows
<1>7. b \in 1..(Len(k) + 1) /\ b <= Len(k) /\ k[Len(k)].at = now
  BY <1>1, <1>5, <1>6
<1>8. Evaluated(ts, pt).chainAt = now
  BY EvaluatedIs
<1> QED BY <1>3, <1>4, <1>7, <1>8 DEF Recalls

LEMMA NoTrackIs == NoTrack \in StateType
  BY DEF NoTrack, StateType, Never

(* A track without state recalls nothing of its trail.                     *)
LEMMA NothingRecalled ==
  ASSUME NEW h \in Seq(Seen0)
  PROVE  Recalls(NoTrack, h, Len(h) + 1)
<1>1. Len(h) \in Nat /\ (Len(h) + 1)..Len(h) = {}
  OBVIOUS
<1>2. /\ \A z \in Zones : VisitFrom(h, Len(h) + 1, z) = {}
      /\ ChainFrom(h, Len(h) + 1) = {}
  BY <1>1 DEF VisitFrom, ChainFrom
<1>3. \A l \in Lines : OffIn(h, Len(h) + 1, l) = {}
  BY <1>2 DEF OffIn
<1>4. /\ \A z \in Zones : NoTrack.entered[z] = Never
      /\ \A l \in Lines : NoTrack.side[l] = 0
      /\ NoTrack.chainAt = Never
  BY DEF NoTrack
<1> QED BY <1>1, <1>2, <1>3, <1>4 DEF Recalls, RecallsZone, RecallsLine

(* A track has one birth.                                                  *)
LEMMA BornIs ==
  ASSUME NEW fr, NEW h \in Seq(Seen0), NEW b, Born(fr, h, b)
  PROVE  BornIn(fr, h) = b
<1>1. DOMAIN h = 1..Len(h) /\ Len(h) \in Nat
  OBVIOUS
<1>2. b \in 1..Len(h)
  BY DEF Born
<1>3. PICK c : c = BornIn(fr, h)
  OBVIOUS
<1>4. Born(fr, h, c)
  BY <1>1, <1>2, <1>3 DEF Born, BornIn
<1>5. \A x, y \in 1..Len(h) : Born(fr, h, x) /\ Born(fr, h, y) => ~(x < y)
  <2> SUFFICES ASSUME NEW x \in 1..Len(h), NEW y \in 1..Len(h),
                      Born(fr, h, x), Born(fr, h, y), x < y
               PROVE  FALSE
    OBVIOUS
  <2>1. y \in (x + 1)..Len(h) /\ y # 1
    BY <1>1
  <2> QED BY <2>1 DEF Born
<1>6. c \in 1..Len(h)
  BY <1>4 DEF Born
<1>7. ~(b < c) /\ ~(c < b)
  BY <1>2, <1>4, <1>5, <1>6
<1> QED BY <1>1, <1>2, <1>3, <1>6, <1>7

(* A later message sweeps nothing between two earlier observations.        *)
LEMMA SweptSame ==
  ASSUME NEW fr \in Seq(Nat), NEW w \in Nat, NEW o \in Seen0, NEW p \in Seen0,
         p.n <= Len(fr)
  PROVE  SweptIn(Append(fr, w), o, p) <=> SweptIn(fr, o, p)
<1>1. o.n \in Nat /\ p.n \in Nat /\ Len(fr) \in Nat
  BY DEF Seen0
<1>2. \A k \in (o.n + 1)..(p.n - 1) : Append(fr, w)[k] = fr[k]
  <2>1. \A k \in (o.n + 1)..(p.n - 1) : k \in 1..Len(fr)
    BY <1>1
  <2> QED BY <2>1, TrailGrows
<1> QED BY <1>2 DEF SweptIn

(* What was swept before an observation that a message now makes.          *)
LEMMA SweptNow ==
  ASSUME NEW fr \in Seq(Nat), NEW w \in Nat, NEW o \in Seen0, NEW p \in Seen0,
         p.n = Len(fr) + 1
  PROVE  SweptIn(Append(fr, w), o, p) <=> Forgotten(fr, o)
<1>1. o.n \in Nat /\ Len(fr) \in Nat /\ p.n - 1 = Len(fr)
  BY DEF Seen0
<1>2. \A k \in (o.n + 1)..Len(fr) : Append(fr, w)[k] = fr[k]
  <2>1. \A k \in (o.n + 1)..Len(fr) : k \in 1..Len(fr)
    BY <1>1
  <2> QED BY <2>1, TrailGrows
<1> QED BY <1>1, <1>2 DEF SweptIn, Forgotten

(* A message forgets the tracks whose last observation is too old for it.  *)
LEMMA ForgottenNow ==
  ASSUME NEW fr \in Seq(Nat), NEW w \in Nat, NEW o \in Seen0
  PROVE  /\ o.n <= Len(fr) =>
              (Forgotten(Append(fr, w), o)
                 <=> Forgotten(fr, o) \/ w - o.at > TrackExpiry)
         /\ o.n = Len(fr) + 1 => ~Forgotten(Append(fr, w), o)
<1> DEFINE g == Append(fr, w)
<1>1. /\ o.n \in Nat /\ Len(fr) \in Nat /\ Len(g) = Len(fr) + 1
      /\ g[Len(fr) + 1] = w /\ \A i \in 1..Len(fr) : g[i] = fr[i]
  BY TrailGrows DEF Seen0
<1> HIDE DEF g
<1>2. \A k \in (o.n + 1)..Len(fr) : g[k] = fr[k]
  <2>1. \A k \in (o.n + 1)..Len(fr) : k \in 1..Len(fr)
    BY <1>1
  <2> QED BY <1>1, <2>1
<1>3. ASSUME o.n <= Len(fr)
      PROVE  Forgotten(g, o) <=> Forgotten(fr, o) \/ w - o.at > TrackExpiry
  <2>1. (o.n + 1)..Len(g) = ((o.n + 1)..Len(fr)) \cup {Len(fr) + 1}
    BY <1>1, <1>3
  <2> QED BY <1>1, <1>2, <2>1 DEF Forgotten
<1>4. ASSUME o.n = Len(fr) + 1
      PROVE  ~Forgotten(g, o)
  <2>1. (o.n + 1)..Len(g) = {}
    BY <1>1, <1>4
  <2> QED BY <2>1 DEF Forgotten
<1> QED BY <1>3, <1>4 DEF g

(* A trail of observations by the messages so far.                         *)
TrailOf(fr, h) ==
  h \in Seq(Seen0) /\ \A i \in 1..Len(h) : h[i].n <= Len(fr)

(* A message without the track leaves its state, unless it expires.        *)
LEMMA UnseenTrack ==
  ASSUME NEW fr \in Seq(Nat), NEW h, TrailOf(fr, h), NEW ts, Knows(fr, h, ts),
         now \in Nat
  PROVE  Knows(Append(fr, now), h, IF Expired(ts) THEN NoTrack ELSE ts)
<1> DEFINE g == Append(fr, now)
           us == IF Expired(ts) THEN NoTrack ELSE ts
<1>1. h \in Seq(Seen0) /\ Len(h) \in Nat
  BY DEF TrailOf
<1>2. CASE h = <<>>
  BY <1>2 DEF Knows
<1>3. CASE h # <<>>
  <2>1. Len(h) \in 1..Len(h) /\ h[Len(h)] \in Seen0 /\ h[Len(h)].n <= Len(fr)
    BY <1>1, <1>3 DEF TrailOf
  <2>2. PICK b \in 1..Len(h) :
          /\ Born(fr, h, b)
          /\ IF Forgotten(fr, h[Len(h)]) THEN ts = NoTrack
             ELSE Recalls(ts, h, b) /\ ts.seen = h[Len(h)].at
    BY <1>3 DEF Knows
  <2>3. Born(g, h, b)
    <3>1. \A i \in 1..Len(h) : h[i] \in Seen0 /\ h[i].n <= Len(fr)
      BY <1>1 DEF TrailOf
    <3>2. \A i \in 2..Len(h) : SweptIn(g, h[i - 1], h[i]) <=> SweptIn(fr, h[i - 1], h[i])
      <4> SUFFICES ASSUME NEW i \in 2..Len(h)
                   PROVE  SweptIn(g, h[i - 1], h[i]) <=> SweptIn(fr, h[i - 1], h[i])
        OBVIOUS
      <4>1. i \in 1..Len(h) /\ i - 1 \in 1..Len(h)
        BY <1>1
      <4>2. h[i] \in Seen0 /\ h[i - 1] \in Seen0 /\ h[i].n <= Len(fr)
        BY <3>1, <4>1
      <4> QED BY <4>2, SweptSame
    <3> HIDE DEF g
    <3>3. \A j \in (b + 1)..Len(h) : j \in 2..Len(h)
      BY <1>1, <2>2
    <3>4. b = 1 \/ b \in 2..Len(h)
      BY <1>1, <2>2
    <3> QED BY <2>2, <3>2, <3>3, <3>4 DEF Born
  <2>4. /\ Forgotten(g, h[Len(h)])
             <=> Forgotten(fr, h[Len(h)]) \/ now - h[Len(h)].at > TrackExpiry
        /\ h[Len(h)].at \in Nat
    BY <2>1, ForgottenNow DEF Seen0
  <2> HIDE DEF g, us
  <2>5. ASSUME Forgotten(fr, h[Len(h)])
        PROVE  Knows(g, h, us)
    <3>1. ts = NoTrack /\ Forgotten(g, h[Len(h)])
      BY <2>2, <2>4, <2>5
    <3>2. us = NoTrack
      BY <3>1 DEF us
    <3> QED BY <1>3, <2>3, <3>1, <3>2 DEF Knows
  <2>6. ASSUME ~Forgotten(fr, h[Len(h)])
        PROVE  Knows(g, h, us)
    <3>1. Recalls(ts, h, b) /\ ts.seen = h[Len(h)].at
      BY <2>2, <2>6
    <3>2. Expired(ts) <=> Forgotten(g, h[Len(h)])
      BY <2>4, <2>6, <3>1 DEF Expired, Never
    <3>3. us = IF Forgotten(g, h[Len(h)]) THEN NoTrack ELSE ts
      BY <3>2 DEF us
    <3> QED BY <1>3, <2>3, <3>1, <3>3 DEF Knows
  <2> QED BY <2>5, <2>6 DEF g, us
<1> QED BY <1>2, <1>3

(* The life that a new observation of the track belongs to.                *)
LEMMA LifeOf ==
  ASSUME NEW fr \in Seq(Nat), NEW h, TrailOf(fr, h), NEW ts, Knows(fr, h, ts),
         now \in Nat, NEW pt \in Points, features \in FeatureSets,
         NEW k, k = Append(h, Sighting(pt, Len(fr) + 1))
  PROVE  \E b \in 1..Len(k) : Recalls(ts, h, b) /\ Born(Append(fr, now), k, b)
<1> DEFINE o == Sighting(pt, Len(fr) + 1)
           g == Append(fr, now)
<1>1. /\ h \in Seq(Seen0) /\ Len(h) \in Nat
      /\ \A i \in 1..Len(h) : h[i] \in Seen0 /\ h[i].n <= Len(fr)
  BY DEF TrailOf
<1>0. PICK n \in Nat : n = Len(h)
  BY <1>1
<1>2. o \in Seen0 /\ o.n = Len(fr) + 1
  BY DEF Sighting, Seen0
<1>3. /\ Len(k) = n + 1 /\ k[n + 1] = o
      /\ \A i \in 1..n : k[i] = h[i]
  BY <1>0, <1>1, <1>2, TrailGrows
<1>4. \A i \in 2..n : SweptIn(g, k[i - 1], k[i]) <=> SweptIn(fr, h[i - 1], h[i])
  <2> SUFFICES ASSUME NEW i \in 2..n
               PROVE  SweptIn(g, k[i - 1], k[i]) <=> SweptIn(fr, h[i - 1], h[i])
    OBVIOUS
  <2>1. i \in 1..n /\ i - 1 \in 1..n
    BY <1>0, <1>1
  <2>2. h[i] \in Seen0 /\ h[i - 1] \in Seen0 /\ h[i].n <= Len(fr)
    BY <1>0, <1>1, <2>1
  <2>3. k[i] = h[i] /\ k[i - 1] = h[i - 1]
    BY <1>0, <1>3, <2>1
  <2> QED BY <2>2, <2>3, SweptSame
<1>5. n >= 1 => (SweptIn(g, k[n], k[n + 1]) <=> Forgotten(fr, h[n]))
  <2> SUFFICES ASSUME n >= 1
               PROVE  SweptIn(g, k[n], k[n + 1]) <=> Forgotten(fr, h[n])
    OBVIOUS
  <2>1. k[n] = h[n] /\ h[n] \in Seen0 /\ k[n + 1] = o
    BY <1>0, <1>1, <1>3
  <2> HIDE DEF o
  <2> QED BY <1>2, <2>1, SweptNow
<1> HIDE DEF g, o
<1>6. n + 1 \in 1..Len(k) /\ n + 1 - 1 = n
  BY <1>0, <1>1, <1>3
<1>7. CASE h = <<>>
  <2>1. n = 0 /\ ts = NoTrack
    BY <1>0, <1>7 DEF Knows
  <2>2. Recalls(ts, h, n + 1)
    BY <1>0, <1>1, <2>1, NothingRecalled
  <2>3. Born(g, k, n + 1)
    BY <1>0, <1>3, <2>1 DEF Born
  <2> QED BY <1>0, <1>6, <2>2, <2>3 DEF g
<1>8. CASE h # <<>>
  <2>1. PICK b \in 1..Len(h) :
          /\ Born(fr, h, b)
          /\ IF Forgotten(fr, h[Len(h)]) THEN ts = NoTrack
             ELSE Recalls(ts, h, b) /\ ts.seen = h[Len(h)].at
    BY <1>8 DEF Knows
  <2>2. n >= 1
    BY <1>0, <1>1, <1>8
  <2>3. CASE Forgotten(fr, h[n])
    <3>1. Recalls(ts, h, n + 1)
      BY <1>0, <1>1, <2>1, <2>3, NothingRecalled
    <3>2. SweptIn(g, k[n + 1 - 1], k[n + 1])
      BY <1>0, <1>5, <1>6, <2>2, <2>3
    <3>3. (n + 1 + 1)..Len(k) = {}
      BY <1>0, <1>1, <1>3
    <3>4. Born(g, k, n + 1)
      BY <1>0, <1>1, <1>6, <3>2, <3>3 DEF Born
    <3> QED BY <1>0, <1>6, <3>1, <3>4 DEF g
  <2>4. CASE ~Forgotten(fr, h[n])
    <3>1. Recalls(ts, h, b) /\ b \in 1..Len(k)
      BY <1>0, <1>1, <1>3, <2>1, <2>4
    <3>2. ~SweptIn(g, k[n], k[n + 1])
      BY <1>0, <1>5, <2>2, <2>4
    <3>3. \A j \in (b + 1)..Len(k) : (j \in (b + 1)..n /\ j \in 2..n) \/ j = n + 1
      <4>1. b \in Nat /\ b >= 1 /\ Len(k) = n + 1
        BY <1>0, <1>3
      <4> QED BY <4>1
    <3>4. \A j \in (b + 1)..Len(k) : ~SweptIn(g, k[j - 1], k[j])
      <4> SUFFICES ASSUME NEW j \in (b + 1)..Len(k)
                   PROVE  ~SweptIn(g, k[j - 1], k[j])
        OBVIOUS
      <4>1. CASE j \in (b + 1)..n /\ j \in 2..n
        BY <1>0, <1>4, <2>1, <4>1 DEF Born
      <4>2. CASE j = n + 1
        <5>1. k[j - 1] = k[n] /\ k[j] = k[n + 1]
          BY <1>0, <1>1, <1>6, <4>2
        <5> QED BY <3>2, <5>1
      <4> QED BY <3>3, <4>1, <4>2
    <3>5. b = 1 \/ SweptIn(g, k[b - 1], k[b])
      <4>1. b = 1 \/ b \in 2..n
        BY <1>0, <1>1, <2>1
      <4> QED BY <1>0, <1>4, <2>1, <4>1 DEF Born
    <3>6. Born(g, k, b)
      BY <3>1, <3>4, <3>5 DEF Born
    <3> QED BY <3>1, <3>6 DEF g
  <2> QED BY <2>3, <2>4
<1> QED BY <1>7, <1>8

(* A message with the track: the state that results stands for the trail   *)
(* with the new observation.                                               *)
LEMMA SeenTrack ==
  ASSUME NEW fr \in Seq(Nat), NEW h, TrailOf(fr, h),
         NEW ts \in StateType, now \in Nat, NEW pt \in Points, features \in FeatureSets,
         NEW k, k = Append(h, Sighting(pt, Len(fr) + 1)),
         NEW b \in 1..Len(k), Recalls(ts, h, b), Born(Append(fr, now), k, b)
  PROVE  /\ TrailOf(Append(fr, now), k)
         /\ Knows(Append(fr, now), k, Evaluated(ts, pt))
         /\ ~Expired(Evaluated(ts, pt))
<1> DEFINE o == Sighting(pt, Len(fr) + 1)
           g == Append(fr, now)
           new == Evaluated(ts, pt)
<1>1. /\ h \in Seq(Seen0) /\ Len(h) \in Nat
      /\ \A i \in 1..Len(h) : h[i].n \in Nat /\ h[i].n <= Len(fr)
  <2>1. h \in Seq(Seen0) /\ \A i \in 1..Len(h) : h[i].n <= Len(fr)
    BY DEF TrailOf
  <2>2. Len(h) \in Nat /\ \A i \in 1..Len(h) : h[i] \in Seen0
    BY <2>1
  <2> QED BY <2>1, <2>2 DEF Seen0
<1>2. o \in Seen0 /\ o.n = Len(fr) + 1 /\ o.at = now
  BY DEF Sighting, Seen0
<1>3. /\ Len(k) = Len(h) + 1 /\ k[Len(h) + 1] = o /\ k \in Seq(Seen0)
      /\ \A i \in 1..Len(h) : k[i] = h[i]
  BY <1>1, <1>2, TrailGrows
<1>4. Len(g) = Len(fr) + 1 /\ Len(fr) \in Nat
  OBVIOUS
<1> HIDE DEF g, o
<1>5. TrailOf(g, k)
  <2>1. \A i \in 1..Len(k) : k[i].n <= Len(g)
    <3> SUFFICES ASSUME NEW i \in 1..Len(k)
                 PROVE  k[i].n <= Len(g)
      OBVIOUS
    <3>1. i \in 1..Len(h) \/ i = Len(h) + 1
      BY <1>1, <1>3
    <3> QED BY <1>1, <1>2, <1>3, <1>4, <3>1
  <2> QED BY <1>3, <2>1 DEF TrailOf
<1>6. Recalls(new, k, b)
  <2>1. Len(fr) + 1 \in Nat
    BY <1>4
  <2> HIDE DEF new
  <2>2. Recalls(Evaluated(ts, pt), k, b)
    BY <1>1, <2>1, RecallsGrows
  <2> QED BY <2>2 DEF new
<1>7. ~Forgotten(g, k[Len(k)])
  BY <1>2, <1>3, ForgottenNow DEF g
<1>8. new.seen = now /\ k[Len(k)].at = now
  BY <1>2, <1>3, EvaluatedIs
<1> HIDE DEF new
<1>9. Born(g, k, b) /\ k # <<>>
  BY <1>1, <1>3 DEF g
<1>10. Knows(g, k, new)
  BY <1>6, <1>7, <1>8, <1>9 DEF Knows
<1>11. ~Expired(new)
  BY <1>8, EngineAssumption DEF Expired
<1> QED BY <1>5, <1>10, <1>11 DEF g, new

(* ZoneHitsSince and EarnedCrossings of a trail and its birth.            *)
ZoneHitsIn(t, k, b) ==
  {[type |-> "zone_enter", track |-> t, rule |-> z] :
     z \in {y \in Zones : VisitFrom(k, b, y) = {Len(k)}}}
  \cup
  {[type |-> "loitering", track |-> t, rule |-> z] :
     z \in {y \in Zones : /\ LoiteringOn /\ VisitFrom(k, b, y) # {}
                          /\ now - k[First(VisitFrom(k, b, y))].at >= Dwell[y]}}

CrossingsIn(t, k, b, pt) ==
  {[type |-> IF SideOf(l, pt) < 0 THEN "forward" ELSE "backward",
    track |-> t, rule |-> l] : l \in {y \in Lines : CrossingIn(k, b, y, pt)}}

(* What the engine answers about a track is what its trail has earned.     *)
AnswersEarned(t, ts, pt, k, b) ==
  /\ ZoneOn => ZoneHitsIn(t, k, b) = ZoneCandidates(t, ts.entered, pt)
  /\ LinesOn => CrossingsIn(t, k, b, pt) =
                  IF GoesOn(ts) THEN LineCandidates(t, ts, pt) ELSE {}
  /\ \A c \in ZoneCandidates(t, ts.entered, pt) : c.type \in ZoneTypes
  /\ GoesOn(ts) => \A c \in LineCandidates(t, ts, pt) : c.type \notin ZoneTypes

LEMMA HitsEarned ==
  ASSUME NEW ts \in StateType, NEW h \in Seq(Seen0), NEW b, Recalls(ts, h, b),
         NEW pt \in Points, NEW n \in Nat, now \in Nat, features \in FeatureSets,
         NEW k, k = Append(h, Sighting(pt, n)), NEW t
  PROVE  AnswersEarned(t, ts, pt, k, b)
<1>1. /\ b \in 1..(Len(h) + 1)
      /\ ts.chainAt = IF b <= Len(h) THEN h[Len(h)].at ELSE Never
      /\ \A z \in Zones : RecallsZone(ts, h, b, z)
      /\ \A l \in Lines : RecallsLine(ts, h, b, l)
      /\ \A z \in Zones : Dwell[z] \in Nat
  BY EngineAssumption DEF Recalls
<1>2. ASSUME ZoneOn
      PROVE  ZoneHitsIn(t, k, b) = ZoneCandidates(t, ts.entered, pt)
  <2>1. \A z \in Zones :
          /\ VisitFrom(k, b, z) = {Len(k)} <=> Inside(pt, z) /\ ts.entered[z] = Never
          /\ (VisitFrom(k, b, z) # {} /\ now - k[First(VisitFrom(k, b, z))].at >= Dwell[z])
               <=> Inside(pt, z) /\ now - EnteredAt(ts.entered, pt)[z] >= Dwell[z]
    <3>1. \A z \in Zones : ZoneAnswered(ts, pt, k, b, z)
      BY <1>1, <1>2, ZoneJudged
    <3> QED BY <3>1 DEF ZoneAnswered
  <2>2. {y \in Zones : VisitFrom(k, b, y) = {Len(k)}}
          = {y \in Zones : Inside(pt, y) /\ ts.entered[y] = Never}
    BY <2>1
  <2>3. {y \in Zones : /\ LoiteringOn /\ VisitFrom(k, b, y) # {}
                       /\ now - k[First(VisitFrom(k, b, y))].at >= Dwell[y]}
          = {y \in Zones : /\ LoiteringOn /\ Inside(pt, y)
                           /\ now - EnteredAt(ts.entered, pt)[y] >= Dwell[y]}
    BY <2>1
  <2> QED BY <2>2, <2>3 DEF ZoneHitsIn, ZoneCandidates
<1>3. ASSUME LinesOn
      PROVE  CrossingsIn(t, k, b, pt) =
               IF GoesOn(ts) THEN LineCandidates(t, ts, pt) ELSE {}
  <2>1. \A l \in Lines :
          CrossingIn(k, b, l, pt)
            <=> GoesOn(ts) /\ Crosses(l, ts.side[l], ts.anchor[l], pt)
    BY <1>1, <1>3, LineJudged
  <2>2. CASE ~GoesOn(ts)
    BY <2>1, <2>2 DEF CrossingsIn
  <2>3. CASE GoesOn(ts)
    <3>1. {y \in Lines : CrossingIn(k, b, y, pt)}
            = {y \in Lines : Crosses(y, ts.side[y], ts.anchor[y], pt)}
      BY <2>1, <2>3
    <3>2. \A l \in {y \in Lines : Crosses(y, ts.side[y], ts.anchor[y], pt)} :
             DirectionFromSides(ts.side[l], SideOf(l, pt))
               = IF SideOf(l, pt) < 0 THEN "forward" ELSE "backward"
      <4> SUFFICES ASSUME NEW l \in Lines, Crosses(l, ts.side[l], ts.anchor[l], pt)
                   PROVE  DirectionFromSides(ts.side[l], SideOf(l, pt))
                            = IF SideOf(l, pt) < 0 THEN "forward" ELSE "backward"
        OBVIOUS
      <4>1. ts.side[l] \in -1..1 /\ SideOf(l, pt) \in -1..1
        <5>1. ts.side[l] = 0 \/ \E m \in OffIn(h, b, l) : ts.side[l] = SideOf(l, h[m].pt)
          BY <1>1 DEF RecallsLine
        <5> QED BY <5>1, SidesAre
      <4>2. ts.side[l] # 0 /\ DirectionFromSides(ts.side[l], SideOf(l, pt)) # "none"
        BY DEF Crosses
      <4> QED BY <4>1, <4>2, DirectionNamed
    <3>3. LineCandidates(t, ts, pt) =
            {[type |-> IF SideOf(l, pt) < 0 THEN "forward" ELSE "backward",
              track |-> t, rule |-> l] :
               l \in {y \in Lines : Crosses(y, ts.side[y], ts.anchor[y], pt)}}
      BY <3>2 DEF LineCandidates, LineCandidate
    <3> QED BY <2>3, <3>1, <3>3 DEF CrossingsIn
  <2> QED BY <2>2, <2>3
<1>4. \A c \in ZoneCandidates(t, ts.entered, pt) : c.type \in ZoneTypes
  BY DEF ZoneCandidates, ZoneTypes
<1>5. \A c \in CrossingsIn(t, k, b, pt) : c.type \notin ZoneTypes
  BY DEF CrossingsIn, ZoneTypes
<1>6. GoesOn(ts) => \A c \in LineCandidates(t, ts, pt) : c.type \notin ZoneTypes
  BY <1>3, <1>5 DEF GoesOn
<1> QED BY <1>2, <1>3, <1>4, <1>6 DEF AnswersEarned

(* What the properties say of a track after a step, from its trail.        *)
LEMMA VerdictsAre ==
  ASSUME NEW t \in Tracks, NEW fr, NEW k \in Seq(Seen0), NEW b, Born(fr, k, b),
         trail'[t] = k, frames' = fr, now' = now, features' = features
  PROVE  /\ StateHits(t)' = ZoneHitsIn(t, k, b)
         /\ EarnedCrossings(t)' = CrossingsIn(t, k, b, k[Len(k)].pt)
<1>1. Len(k) \in Nat /\ b \in Nat /\ b >= 1 /\ b <= Len(k)
  BY DEF Born
<1>2. BornAt(t)' = BornIn(fr, k)
  BY DEF BornAt, SweptBetween, BornIn, SweptIn
<1>3. BornAt(t)' = b
  BY <1>2, BornIs
<1>4. ZoneSightings(t, b)' = {i \in b..Len(k) : Judged(k, i)}
  BY DEF ZoneSightings, Judged
<1>5. \A z \in Zones : Visit(t, b, z)' = VisitFrom(k, b, z)
  <2> SUFFICES ASSUME NEW z \in Zones
               PROVE  Visit(t, b, z)' = VisitFrom(k, b, z)
    OBVIOUS
  <2> DEFINE Z == {i \in b..Len(k) : Judged(k, i)}
  <2>1. Visit(t, b, z)' = {i \in Z : \A j \in Z : j >= i => Inside(k[j].pt, z)}
    BY <1>4 DEF Visit, Inside
  <2>2. \A i \in b..Len(k) :
           (\A j \in Z : j >= i => Inside(k[j].pt, z))
             <=> \A j \in i..Len(k) : Judged(k, j) => Inside(k[j].pt, z)
    <3> SUFFICES ASSUME NEW i \in b..Len(k)
                 PROVE  (\A j \in Z : j >= i => Inside(k[j].pt, z))
                          <=> \A j \in i..Len(k) : Judged(k, j) => Inside(k[j].pt, z)
      OBVIOUS
    <3>1. \A j \in i..Len(k) : j \in b..Len(k) /\ j >= i
      BY <1>1
    <3>2. \A j \in b..Len(k) : j >= i => j \in i..Len(k)
      BY <1>1
    <3> QED BY <3>1, <3>2
  <2> QED BY <2>1, <2>2 DEF VisitFrom
<1>6. Chain(t)' = ChainFrom(k, b)
  <2>1. \A i \in b..Len(k) : \A j \in (i + 1)..Len(k) :
           StartsChain(t, j)' <=> Breaks(k, j)
    <3> SUFFICES ASSUME NEW i \in b..Len(k), NEW j \in (i + 1)..Len(k)
                 PROVE  StartsChain(t, j)' <=> Breaks(k, j)
      OBVIOUS
    <3>1. j # b
      BY <1>1
    <3> QED BY <1>3, <3>1 DEF StartsChain, Breaks
  <2>2. Chain(t)' = {i \in b..Len(k) : \A j \in (i + 1)..Len(k) : ~StartsChain(t, j)'}
    BY <1>3 DEF Chain
  <2> QED BY <2>1, <2>2 DEF ChainFrom
<1>7. StateHits(t)' = ZoneHitsIn(t, k, b)
  <2>1. LoiteringOn' <=> LoiteringOn
    BY DEF LoiteringOn
  <2>2. {y \in Zones : Visit(t, b, y)' = {Len(k)}} = {y \in Zones : VisitFrom(k, b, y) = {Len(k)}}
    BY <1>5
  <2>3. {y \in Zones : /\ LoiteringOn' /\ Visit(t, b, y)' # {}
                       /\ now - k[First(Visit(t, b, y)')].at >= Dwell[y]}
          = {y \in Zones : /\ LoiteringOn /\ VisitFrom(k, b, y) # {}
                           /\ now - k[First(VisitFrom(k, b, y))].at >= Dwell[y]}
    BY <1>5, <2>1
  <2>4. ZoneHitsSince(t, b)' = ZoneHitsIn(t, k, b)
    BY <2>2, <2>3 DEF ZoneHitsSince, ZoneHitsIn, First
  <2> QED BY <1>3, <2>4 DEF StateHits
<1>8. \A l \in Lines : OffLine(t, l)' = OffBefore(k, b, l)
  BY <1>6 DEF OffLine, OffBefore, SideOf
<1>9. Last(trail[t])' = k[Len(k)]
  BY DEF Last
<1> QED BY <1>7, <1>8, <1>9 DEF EarnedCrossings, CrossingsIn, CrossingIn, Newest, SideOf

LEMMA InitRuleInv == Init => RuleInv
<1> SUFFICES ASSUME Init
             PROVE  RuleInv
  OBVIOUS
<1>1. /\ now = 0 /\ features \in FeatureSets /\ out = Nothing /\ frames = <<>>
      /\ tracks = [t \in Tracks |-> NoTrack] /\ trail = [t \in Tracks |-> <<>>]
  BY DEF Init
<1>2. NoTrack \in StateType
  BY NoTrackIs
<1>3. RuleTyped
  BY <1>1, <1>2 DEF RuleTyped
<1>4. \A t \in Tracks : Knows(frames, trail[t], tracks[t])
  BY <1>1 DEF Knows
<1>5. StateVerdicts /\ CrossingsAreEarned
  BY <1>1 DEF StateVerdicts, CrossingsAreEarned, Nothing
<1> QED BY <1>3, <1>4, <1>5 DEF RuleInv

(* A step that answers nothing and leaves the tracks alone.                *)
LEMMA SilentStep ==
  ASSUME RuleInv, out' = Nothing, UNCHANGED <<tracks, trail, frames>>,
         now' \in Nat, features' \in FeatureSets
  PROVE  RuleInv'
<1>1. RuleTyped'
  BY DEF RuleInv, RuleTyped
<1>2. (\A t \in Tracks : Knows(frames, trail[t], tracks[t]))'
  <2>1. \A t \in Tracks : Knows(frames', trail'[t], tracks'[t])
    BY DEF RuleInv
  <2> QED BY <2>1 DEF Knows, Born, SweptIn, Forgotten, Recalls, RecallsZone, RecallsLine,
         VisitFrom, ChainFrom, OffIn, Judged, Breaks, Inside, SideOf, NoTrack
<1>3. StateVerdicts' /\ CrossingsAreEarned'
  BY DEF StateVerdicts, CrossingsAreEarned, Nothing
<1> QED BY <1>1, <1>2, <1>3 DEF RuleInv

LEMMA ResetForgets ==
  ASSUME RuleInv, ResetDevice
  PROVE  RuleInv'
<1>1. /\ now' = now /\ features' = features /\ out' = Nothing /\ frames' = <<>>
      /\ tracks' = [t \in Tracks |-> NoTrack] /\ trail' = [t \in Tracks |-> <<>>]
  BY DEF ResetDevice
<1>2. NoTrack \in StateType
  BY NoTrackIs
<1>3. RuleTyped'
  BY <1>1, <1>2 DEF RuleInv, RuleTyped
<1>4. (\A t \in Tracks : Knows(frames, trail[t], tracks[t]))'
  BY <1>1 DEF Knows
<1>5. StateVerdicts' /\ CrossingsAreEarned'
  BY <1>1 DEF StateVerdicts, CrossingsAreEarned, Nothing
<1> QED BY <1>3, <1>4, <1>5 DEF RuleInv

(* A message that is judged answers what the trails have earned.           *)
LEMMA MessageKeeps ==
  ASSUME RuleInv, NEW f, NEW dets \in Detections, OnDetections(f, dets)
  PROVE  RuleInv'
<1>1. /\ now \in Nat /\ features \in FeatureSets /\ frames \in Seq(Nat)
      /\ \A t \in Tracks : /\ tracks[t] \in StateType
                           /\ TrailOf(frames, trail[t])
                           /\ Knows(frames, trail[t], tracks[t])
  BY DEF RuleInv, RuleTyped, TrailOf
<1>2. /\ DOMAIN dets \subseteq Tracks
      /\ \A t \in DOMAIN dets : dets[t] \in Points
  BY DEF Detections
<1> DEFINE fr == Append(frames, now)
           k(t) == Append(trail[t], Sighting(dets[t], Len(frames) + 1))
           hits == UNION {Candidates(t, tracks[t], dets[t]) : t \in DOMAIN dets}
<1>3. /\ now' = now /\ features' = features /\ frames' = fr /\ out' = Returned(hits)
      /\ trail' = [t \in Tracks |-> IF t \in DOMAIN dets THEN k(t) ELSE trail[t]]
      /\ tracks' = TracksAfter(dets)
  BY DEF OnDetections, Observation, Sighting
<1>4. \A t \in Tracks :
        tracks'[t] =
          IF t \in DOMAIN dets
          THEN IF Expired(Evaluated(tracks[t], dets[t])) THEN NoTrack
               ELSE Evaluated(tracks[t], dets[t])
          ELSE IF Expired(tracks[t]) THEN NoTrack ELSE tracks[t]
  BY <1>3 DEF TracksAfter
<1>5. tracks' = [t \in Tracks |-> tracks'[t]]
  BY <1>3 DEF TracksAfter
<1>6. \A t \in DOMAIN dets :
        /\ trail'[t] = k(t)
        /\ \E b \in 1..Len(k(t)) : Recalls(tracks[t], trail[t], b) /\ Born(fr, k(t), b)
  <2> SUFFICES ASSUME NEW t \in DOMAIN dets
               PROVE  /\ trail'[t] = k(t)
                      /\ \E b \in 1..Len(k(t)) : /\ Recalls(tracks[t], trail[t], b)
                                                 /\ Born(fr, k(t), b)
    OBVIOUS
  <2>1. t \in Tracks /\ dets[t] \in Points
    BY <1>2
  <2>2. PICK kt : kt = k(t)
    OBVIOUS
  <2>3. \E b \in 1..Len(kt) : Recalls(tracks[t], trail[t], b) /\ Born(fr, kt, b)
    BY <1>1, <2>1, <2>2, LifeOf
  <2> QED BY <1>3, <2>1, <2>2, <2>3
<1>7. \A t \in DOMAIN dets :
        /\ tracks'[t] = Evaluated(tracks[t], dets[t])
        /\ Evaluated(tracks[t], dets[t]) \in StateType
        /\ TrailOf(fr, k(t)) /\ Knows(fr, k(t), Evaluated(tracks[t], dets[t]))
  <2> SUFFICES ASSUME NEW t \in DOMAIN dets
               PROVE  /\ tracks'[t] = Evaluated(tracks[t], dets[t])
                      /\ Evaluated(tracks[t], dets[t]) \in StateType
                      /\ TrailOf(fr, k(t)) /\ Knows(fr, k(t), Evaluated(tracks[t], dets[t]))
    OBVIOUS
  <2>1. t \in Tracks /\ dets[t] \in Points /\ tracks[t] \in StateType
    BY <1>1, <1>2
  <2>2. PICK kt : kt = k(t)
    OBVIOUS
  <2>3. PICK b \in 1..Len(kt) : Recalls(tracks[t], trail[t], b) /\ Born(fr, kt, b)
    BY <1>6, <2>2
  <2>4. /\ TrailOf(fr, kt) /\ Knows(fr, kt, Evaluated(tracks[t], dets[t]))
        /\ ~Expired(Evaluated(tracks[t], dets[t]))
    BY <1>1, <2>1, <2>2, <2>3, SeenTrack
  <2>5. Evaluated(tracks[t], dets[t]) \in StateType
    BY <1>1, <2>1, EvaluatedIs
  <2> QED BY <1>4, <2>1, <2>2, <2>4, <2>5
<1>8. \A t \in Tracks \ DOMAIN dets :
        /\ trail'[t] = trail[t]
        /\ tracks'[t] \in StateType
        /\ TrailOf(fr, trail[t]) /\ Knows(fr, trail[t], tracks'[t])
  <2> SUFFICES ASSUME NEW t \in Tracks, t \notin DOMAIN dets
               PROVE  /\ trail'[t] = trail[t]
                      /\ tracks'[t] \in StateType
                      /\ TrailOf(fr, trail[t]) /\ Knows(fr, trail[t], tracks'[t])
    OBVIOUS
  <2>1. trail'[t] = trail[t]
        /\ tracks'[t] = IF Expired(tracks[t]) THEN NoTrack ELSE tracks[t]
    BY <1>3, <1>4
  <2>2. Knows(fr, trail[t], IF Expired(tracks[t]) THEN NoTrack ELSE tracks[t])
    BY <1>1, UnseenTrack
  <2>3. tracks'[t] \in StateType
    BY <1>1, <2>1, NoTrackIs
  <2>4. TrailOf(fr, trail[t])
    <3>1. Len(fr) = Len(frames) + 1 /\ Len(frames) \in Nat
      BY <1>1
    <3> HIDE DEF fr
    <3>2. trail[t] \in Seq(Seen0) /\ \A i \in 1..Len(trail[t]) : trail[t][i].n <= Len(frames)
      BY <1>1 DEF TrailOf
    <3>3. \A i \in 1..Len(trail[t]) : trail[t][i].n \in Nat
      <4>1. \A i \in 1..Len(trail[t]) : trail[t][i] \in Seen0
        BY <3>2
      <4> QED BY <4>1 DEF Seen0
    <3> QED BY <3>1, <3>2, <3>3 DEF TrailOf
  <2> QED BY <2>1, <2>2, <2>3, <2>4
<1>9. \A t \in Tracks :
        /\ tracks'[t] \in StateType
        /\ TrailOf(frames', trail'[t]) /\ Knows(frames', trail'[t], tracks'[t])
  BY <1>3, <1>6, <1>7, <1>8
<1>10. RuleTyped'
  <2>1. tracks' \in [Tracks -> StateType]
    BY <1>5, <1>9
  <2>2. trail' \in [Tracks -> Seq(Seen0)]
    <3>1. \A t \in Tracks : trail'[t] \in Seq(Seen0)
      BY <1>9 DEF TrailOf
    <3>2. trail' = [t \in Tracks |-> trail'[t]]
      BY <1>3
    <3> QED BY <3>1, <3>2
  <2>3. frames' \in Seq(Nat)
    BY <1>1, <1>3
  <2>4. \A t \in Tracks : \A i \in 1..Len(trail'[t]) : trail'[t][i].n <= Len(frames')
    BY <1>9 DEF TrailOf
  <2> QED BY <1>1, <1>3, <2>1, <2>2, <2>3, <2>4 DEF RuleTyped
<1>11. Seen' = DOMAIN dets
  <2>1. Len(frames') = Len(frames) + 1 /\ Len(frames) \in Nat
    BY <1>1, <1>3
  <2>2. \A t \in DOMAIN dets : t \in Tracks /\ trail'[t] # <<>>
                               /\ trail'[t][Len(trail'[t])].n = Len(frames')
    <3> SUFFICES ASSUME NEW t \in DOMAIN dets
                 PROVE  t \in Tracks /\ trail'[t] # <<>>
                        /\ trail'[t][Len(trail'[t])].n = Len(frames')
      OBVIOUS
    <3> DEFINE o == Sighting(dets[t], Len(frames) + 1)
    <3>1. t \in Tracks /\ dets[t] \in Points /\ trail[t] \in Seq(Seen0)
      BY <1>1, <1>2 DEF TrailOf
    <3>2. o \in Seen0 /\ o.n = Len(frames')
      BY <1>1, <2>1, <3>1 DEF Sighting, Seen0
    <3> HIDE DEF o
    <3>3. trail'[t] = Append(trail[t], o)
      BY <1>6 DEF o
    <3>4. /\ Len(trail'[t]) = Len(trail[t]) + 1 /\ Len(trail[t]) \in Nat
          /\ trail'[t][Len(trail[t]) + 1] = o
      BY <3>1, <3>2, <3>3, TrailGrows
    <3> QED BY <3>1, <3>2, <3>4
  <2>3. \A t \in Tracks \ DOMAIN dets :
          trail'[t] = <<>> \/ trail'[t][Len(trail'[t])].n # Len(frames')
    <3> SUFFICES ASSUME NEW t \in Tracks, t \notin DOMAIN dets, trail[t] # <<>>
                 PROVE  trail[t][Len(trail[t])].n # Len(frames')
      BY <1>8
    <3>1. trail[t] \in Seq(Seen0) /\ \A i \in 1..Len(trail[t]) : trail[t][i].n <= Len(frames)
      BY <1>1 DEF TrailOf
    <3>2. Len(trail[t]) \in 1..Len(trail[t])
      BY <3>1
    <3>3. trail[t][Len(trail[t])].n \in Nat /\ trail[t][Len(trail[t])].n <= Len(frames)
      <4>1. trail[t][Len(trail[t])] \in Seen0
        BY <3>1, <3>2
      <4> QED BY <3>1, <3>2, <4>1 DEF Seen0
    <3> QED BY <2>1, <3>3
  <2> QED BY <1>2, <2>2, <2>3 DEF Seen, Last
<1>12. \A t \in DOMAIN dets :
         /\ ZoneOn => StateHits(t)' = ZoneCandidates(t, tracks[t].entered, dets[t])
         /\ LinesOn => EarnedCrossings(t)' =
              IF GoesOn(tracks[t]) THEN LineCandidates(t, tracks[t], dets[t]) ELSE {}
         /\ \A c \in ZoneCandidates(t, tracks[t].entered, dets[t]) : c.type \in ZoneTypes
         /\ GoesOn(tracks[t]) =>
              \A c \in LineCandidates(t, tracks[t], dets[t]) : c.type \notin ZoneTypes
  <2> SUFFICES ASSUME NEW t \in DOMAIN dets
               PROVE  /\ ZoneOn => StateHits(t)'
                                     = ZoneCandidates(t, tracks[t].entered, dets[t])
                      /\ LinesOn => EarnedCrossings(t)' =
                           IF GoesOn(tracks[t]) THEN LineCandidates(t, tracks[t], dets[t])
                           ELSE {}
                      /\ \A c \in ZoneCandidates(t, tracks[t].entered, dets[t]) :
                            c.type \in ZoneTypes
                      /\ GoesOn(tracks[t]) =>
                           \A c \in LineCandidates(t, tracks[t], dets[t]) :
                              c.type \notin ZoneTypes
    OBVIOUS
  <2>1. /\ t \in Tracks /\ dets[t] \in Points /\ tracks[t] \in StateType
        /\ trail[t] \in Seq(Seen0) /\ Len(frames) + 1 \in Nat
    BY <1>1, <1>2 DEF TrailOf
  <2>2. PICK kt : kt = k(t)
    OBVIOUS
  <2>3. PICK b \in 1..Len(kt) : Recalls(tracks[t], trail[t], b) /\ Born(fr, kt, b)
    BY <1>6, <2>2
  <2>4. trail'[t] = kt /\ kt \in Seq(Seen0)
    BY <1>6, <1>7, <2>2 DEF TrailOf
  <2>5. kt[Len(kt)].pt = dets[t]
    <3> DEFINE o == Sighting(dets[t], Len(frames) + 1)
    <3>1. o \in Seen0 /\ o.pt = dets[t]
      BY <1>1, <2>1 DEF Sighting, Seen0
    <3> HIDE DEF o
    <3>2. kt = Append(trail[t], o)
      BY <2>2 DEF o
    <3>3. Len(kt) = Len(trail[t]) + 1 /\ kt[Len(trail[t]) + 1] = o
      BY <2>1, <3>1, <3>2, TrailGrows
    <3> QED BY <3>1, <3>3
  <2>6. /\ StateHits(t)' = ZoneHitsIn(t, kt, b)
        /\ EarnedCrossings(t)' = CrossingsIn(t, kt, b, dets[t])
    <3> HIDE DEF fr
    <3>1. /\ StateHits(t)' = ZoneHitsIn(t, kt, b)
          /\ EarnedCrossings(t)' = CrossingsIn(t, kt, b, kt[Len(kt)].pt)
      BY <1>3, <2>1, <2>3, <2>4, VerdictsAre
    <3> QED BY <2>5, <3>1
  <2>7. /\ ZoneOn => ZoneHitsIn(t, kt, b) = ZoneCandidates(t, tracks[t].entered, dets[t])
        /\ LinesOn => CrossingsIn(t, kt, b, dets[t]) =
             IF GoesOn(tracks[t]) THEN LineCandidates(t, tracks[t], dets[t]) ELSE {}
        /\ \A c \in ZoneCandidates(t, tracks[t].entered, dets[t]) : c.type \in ZoneTypes
        /\ GoesOn(tracks[t]) =>
             \A c \in LineCandidates(t, tracks[t], dets[t]) : c.type \notin ZoneTypes
    <3>1. PICK ts \in StateType : ts = tracks[t]
      BY <2>1
    <3>2. PICK h \in Seq(Seen0) : h = trail[t]
      BY <2>1
    <3>3. PICK pt \in Points : pt = dets[t]
      BY <2>1
    <3>4. PICK n \in Nat : n = Len(frames) + 1
      BY <2>1
    <3>5. kt = Append(h, Sighting(pt, n)) /\ Recalls(ts, h, b)
      BY <2>2, <2>3, <3>1, <3>2, <3>3, <3>4
    <3>6. AnswersEarned(t, ts, pt, kt, b)
      BY <1>1, <3>5, HitsEarned
    <3> QED BY <3>1, <3>3, <3>6 DEF AnswersEarned
  <2> QED BY <2>6, <2>7
<1> DEFINE zs(t) == IF ZoneOn THEN ZoneCandidates(t, tracks[t].entered, dets[t]) ELSE {}
           ls(t) == IF LinesOn /\ GoesOn(tracks[t])
                    THEN LineCandidates(t, tracks[t], dets[t]) ELSE {}
<1>13. \A t \in DOMAIN dets : Candidates(t, tracks[t], dets[t]) = zs(t) \cup ls(t)
  BY DEF Candidates, GoesOn
<1>14. /\ \A t \in DOMAIN dets : \A c \in zs(t) : c.type \in ZoneTypes
       /\ \A t \in DOMAIN dets : \A c \in ls(t) : c.type \notin ZoneTypes
  BY <1>12
<1>15. (ZoneOn' <=> ZoneOn) /\ (LinesOn' <=> LinesOn) /\ out'.hits = hits
  BY <1>3 DEF ZoneOn, LinesOn, Returned
<1>16. StateVerdicts'
  <2>1. {c \in hits : c.type \in ZoneTypes} = UNION {zs(t) : t \in DOMAIN dets}
    <3> HIDE DEF zs, ls
    <3> QED BY <1>13, <1>14
  <2>2. UNION {zs(t) : t \in DOMAIN dets}
          = IF ZoneOn THEN UNION {StateHits(t)' : t \in DOMAIN dets} ELSE {}
    BY <1>12
  <2> HIDE DEF zs, ls, hits
  <2>3. {c \in out'.hits : c.type \in ZoneTypes}
          = IF ZoneOn' THEN UNION {StateHits(t)' : t \in Seen'} ELSE {}
    BY <1>11, <1>15, <2>1, <2>2
  <2> QED BY <2>3 DEF StateVerdicts
<1>17. CrossingsAreEarned'
  <2>1. {c \in hits : c.type \notin ZoneTypes} = UNION {ls(t) : t \in DOMAIN dets}
    <3> HIDE DEF zs, ls
    <3> QED BY <1>13, <1>14
  <2>2. UNION {ls(t) : t \in DOMAIN dets}
          = IF LinesOn THEN UNION {EarnedCrossings(t)' : t \in DOMAIN dets} ELSE {}
    BY <1>12
  <2> HIDE DEF zs, ls, hits
  <2>3. {c \in out'.hits : c.type \notin ZoneTypes}
          = IF LinesOn' THEN UNION {EarnedCrossings(t)' : t \in Seen'} ELSE {}
    BY <1>11, <1>15, <2>1, <2>2
  <2> QED BY <2>3 DEF CrossingsAreEarned
<1>18. (\A t \in Tracks : Knows(frames, trail[t], tracks[t]))'
  <2>1. \A t \in Tracks : \A g, h, ts : Knows(g, h, ts)' <=> Knows(g, h, ts)
    BY DEF Knows, Born, SweptIn, Forgotten, Recalls, RecallsZone, RecallsLine,
           VisitFrom, ChainFrom, OffIn, Judged, Breaks, Inside, SideOf, NoTrack
  <2> QED BY <1>9 DEF Knows, Born, SweptIn, Forgotten, Recalls, RecallsZone, RecallsLine,
           VisitFrom, ChainFrom, OffIn, Judged, Breaks, Inside, SideOf, NoTrack
<1> QED BY <1>10, <1>16, <1>17, <1>18 DEF RuleInv

LEMMA NextRuleInv == RuleInv /\ [Next]_vars => RuleInv'
<1> SUFFICES ASSUME RuleInv, [Next]_vars
             PROVE  RuleInv'
  OBVIOUS
<1>1. now \in Nat /\ features \in FeatureSets
  BY DEF RuleInv, RuleTyped
<1>2. ASSUME NEW f \in 1..MaxFrames, NEW dets \in Detections, OnDetections(f, dets)
      PROVE  RuleInv'
  BY <1>2, MessageKeeps
<1>3. ASSUME NEW f \in 1..MaxFrames, OnDetectionsNoRules(f) \/ OnDetectionsLate(f)
      PROVE  RuleInv'
  BY <1>1, <1>3, SilentStep DEF OnDetectionsNoRules, OnDetectionsLate
<1>4. CASE ResetDevice
  BY <1>4, ResetForgets
<1>5. CASE ChangeRules
  BY <1>1, <1>5, SilentStep DEF ChangeRules
<1>6. CASE Tick
  <2>1. now' \in Nat /\ features' = features
    BY <1>1, <1>6 DEF Tick
  <2> QED BY <1>1, <1>6, <2>1, SilentStep DEF Tick
<1>7. CASE UNCHANGED vars
  <2>1. UNCHANGED <<now, features, watermark, tracks, out, trail, frames>>
    BY <1>7 DEF vars
  <2>2. RuleTyped'
    BY <2>1 DEF RuleInv, RuleTyped
  <2>3. (\A t \in Tracks : Knows(frames, trail[t], tracks[t]))'
    <3>1. \A t \in Tracks : Knows(frames', trail'[t], tracks'[t])
      BY <2>1 DEF RuleInv
    <3> QED BY <3>1 DEF Knows, Born, SweptIn, Forgotten, Recalls, RecallsZone, RecallsLine,
         VisitFrom, ChainFrom, OffIn, Judged, Breaks, Inside, SideOf, NoTrack
  <2>4. /\ \A t : BornAt(t)' = BornAt(t)
        /\ Seen' = Seen /\ (ZoneOn' <=> ZoneOn) /\ (LinesOn' <=> LinesOn)
        /\ (LoiteringOn' <=> LoiteringOn)
    BY <2>1 DEF BornAt, SweptBetween, Seen, Last, ZoneOn, LinesOn, LoiteringOn
  <2>5. \A t, b : ZoneSightings(t, b)' = ZoneSightings(t, b)
    BY <2>1, <2>4 DEF ZoneSightings
  <2>6. \A t, b, z : Visit(t, b, z)' = Visit(t, b, z)
    BY <2>1, <2>5 DEF Visit, Inside
  <2>7. \A t : StateHits(t)' = StateHits(t)
    BY <2>1, <2>4, <2>6 DEF StateHits, ZoneHitsSince, First
  <2>8. \A t, i : StartsChain(t, i)' <=> StartsChain(t, i)
    BY <2>1, <2>4 DEF StartsChain
  <2>9. \A t : Chain(t)' = Chain(t)
    BY <2>1, <2>4, <2>8 DEF Chain
  <2>10. \A t, l : OffLine(t, l)' = OffLine(t, l)
    BY <2>1, <2>9 DEF OffLine, SideOf
  <2>11. \A t : EarnedCrossings(t)' = EarnedCrossings(t)
    BY <2>1, <2>10 DEF EarnedCrossings, Newest, SideOf, Last
  <2>12. StateVerdicts' /\ CrossingsAreEarned'
    BY <2>1, <2>4, <2>7, <2>11 DEF RuleInv, StateVerdicts, CrossingsAreEarned
  <2> QED BY <2>2, <2>3, <2>12 DEF RuleInv
<1> QED BY <1>2, <1>3, <1>4, <1>5, <1>6, <1>7 DEF Next

(* The messages' instants follow the clock, and no message before an       *)
(* observation came after it.                                              *)
InstantsInv ==
  /\ \A k \in 1..Len(frames) : frames[k] <= now
  /\ \A t \in Tracks : \A i \in 1..Len(trail[t]) :
       \A k \in 1..trail[t][i].n : k <= Len(frames) => frames[k] <= trail[t][i].at

LEMMA InitInstantsInv == Init => InstantsInv
  BY DEF Init, InstantsInv

LEMMA NextInstantsInv ==
  RuleTyped /\ RuleTyped' /\ InstantsInv /\ [Next]_vars => InstantsInv'
<1> SUFFICES ASSUME RuleTyped, RuleTyped', InstantsInv, [Next]_vars
             PROVE  InstantsInv'
  OBVIOUS
<1>1. ASSUME NEW f \in 1..MaxFrames, NEW dets \in Detections, OnDetections(f, dets)
      PROVE  InstantsInv'
  <2>1. /\ frames' = Append(frames, now) /\ frames \in Seq(Nat) /\ now' = now /\ now \in Nat
        /\ Len(frames) \in Nat
    BY <1>1 DEF OnDetections, RuleTyped
  <2>2. /\ Len(frames') = Len(frames) + 1 /\ frames'[Len(frames) + 1] = now
        /\ \A k \in 1..Len(frames) : frames'[k] = frames[k]
    BY <2>1
  <2>3. \A k \in 1..Len(frames') : frames'[k] <= now
    BY <2>1, <2>2 DEF InstantsInv
  <2>4. ASSUME NEW t \in Tracks, NEW i \in 1..Len(trail'[t]), NEW k \in 1..trail'[t][i].n,
               k <= Len(frames')
        PROVE  frames'[k] <= trail'[t][i].at
    <3>1. trail[t] \in Seq(Seen0) /\ trail'[t] \in Seq(Seen0)
      BY DEF RuleTyped
    <3>2. CASE i \in 1..Len(trail[t]) /\ trail'[t][i] = trail[t][i]
      <4>1. trail[t][i].n <= Len(frames) /\ trail[t][i].n \in Nat
        <5>1. trail[t][i] \in Seen0
          BY <3>1, <3>2
        <5> QED BY <3>2, <5>1 DEF RuleTyped, Seen0
      <4>2. k \in 1..Len(frames) /\ k \in 1..trail[t][i].n
        BY <2>1, <3>2, <4>1
      <4> QED BY <2>2, <3>2, <4>2 DEF InstantsInv
    <3>3. CASE trail'[t][i].at = now
      BY <2>1, <2>2, <2>3, <2>4, <3>3
    <3>4. (i \in 1..Len(trail[t]) /\ trail'[t][i] = trail[t][i]) \/ trail'[t][i].at = now
      <4>1. CASE t \notin DOMAIN dets
        BY <1>1, <4>1 DEF OnDetections
      <4>2. CASE t \in DOMAIN dets
        <5> DEFINE o == Observation(dets, t)
        <5>1. trail'[t] = Append(trail[t], o) /\ o.at = now
          BY <1>1, <4>2 DEF OnDetections, Observation
        <5> HIDE DEF o
        <5>2. /\ Len(trail'[t]) = Len(trail[t]) + 1 /\ Len(trail[t]) \in Nat
              /\ trail'[t][Len(trail[t]) + 1] = o
              /\ \A j \in 1..Len(trail[t]) : trail'[t][j] = trail[t][j]
          BY <3>1, <5>1
        <5> QED BY <5>1, <5>2
      <4> QED BY <4>1, <4>2
    <3> QED BY <3>2, <3>3, <3>4
  <2> QED BY <2>1, <2>3, <2>4 DEF InstantsInv
<1>2. CASE ResetDevice
  BY <1>2 DEF ResetDevice, InstantsInv
<1>3. ASSUME UNCHANGED <<trail, frames>>, now' \in Nat, now' >= now
      PROVE  InstantsInv'
  <2>1. now \in Nat /\ frames \in Seq(Nat)
    BY DEF RuleTyped
  <2>2. \A k \in 1..Len(frames) : frames[k] \in Nat
    BY <2>1
  <2> QED BY <1>3, <2>1, <2>2 DEF InstantsInv
<1>4. now \in Nat
  BY DEF RuleTyped
<1>5. CASE Tick
  BY <1>3, <1>4, <1>5 DEF Tick
<1>6. CASE ChangeRules
  BY <1>3, <1>4, <1>6 DEF ChangeRules
<1>7. ASSUME NEW f \in 1..MaxFrames, OnDetectionsNoRules(f) \/ OnDetectionsLate(f)
      PROVE  InstantsInv'
  BY <1>3, <1>4, <1>7 DEF OnDetectionsNoRules, OnDetectionsLate
<1>8. CASE UNCHANGED vars
  BY <1>3, <1>4, <1>8 DEF vars
<1> QED BY <1>1, <1>2, <1>5, <1>6, <1>7, <1>8 DEF Next

(* Where nothing was overlooked, the life HUB_SPEC speaks of is the life   *)
(* of the state: an absence that was noticed is one.                       *)
LEMMA LifeIsState ==
  ASSUME RuleInv, InstantsInv, NEW t \in Seen, ~Overlooked(t)
  PROVE  AppearedAt(t) = BornAt(t)
<1> DEFINE h == trail[t]
<1>1. t \in Tracks /\ h # <<>> /\ h \in Seq(Seen0) /\ Len(h) \in Nat
      /\ DOMAIN h = 1..Len(h)
  BY DEF Seen, RuleInv, RuleTyped
<1>2. PICK b \in 1..Len(h) : Born(frames, h, b)
  BY <1>1 DEF RuleInv, Knows
<1>3. BornAt(t) = b
  <2>1. BornAt(t) = BornIn(frames, h)
    BY DEF BornAt, SweptBetween, BornIn, SweptIn
  <2> QED BY <1>1, <1>2, <2>1, BornIs
<1>4. \A i \in 1..Len(h) : h[i].at \in Nat /\ h[i].n \in Nat /\ h[i].n <= Len(frames)
  <2>1. \A i \in 1..Len(h) : h[i] \in Seen0
    BY <1>1
  <2> QED BY <1>1, <2>1 DEF Seen0, RuleInv, RuleTyped
<1>5. b = 1 \/ Absent(h[b - 1], h[b])
  <2> SUFFICES ASSUME b # 1 PROVE Absent(h[b - 1], h[b])
    OBVIOUS
  <2>1. b - 1 \in 1..Len(h)
    BY <1>1, <1>2
  <2>2. PICK k \in (h[b - 1].n + 1)..(h[b].n - 1) : frames[k] - h[b - 1].at > TrackExpiry
    BY <1>2 DEF Born, SweptIn
  <2>3. h[b].n \in Nat /\ h[b - 1].n \in Nat /\ h[b].n <= Len(frames) /\ h[b - 1].at \in Nat
        /\ h[b].at \in Nat
    BY <1>2, <1>4, <2>1
  <2>4. k \in 1..h[b].n /\ k <= Len(frames) /\ k \in 1..Len(frames)
    <3>1. Len(frames) \in Nat
      BY DEF RuleInv, RuleTyped
    <3> QED BY <2>2, <2>3, <3>1
  <2>5. frames[k] <= h[b].at
    BY <1>1, <1>2, <2>4 DEF InstantsInv
  <2>6. frames[k] \in Nat
    BY <2>4 DEF RuleInv, RuleTyped
  <2>7. h[b].at - h[b - 1].at > TrackExpiry
    <3>1. \A x, y, z, e \in Nat : z - x > e /\ z <= y => y - x > e
      OBVIOUS
    <3> HIDE DEF h
    <3> QED BY <2>2, <2>3, <2>5, <2>6, <3>1, EngineAssumption
  <2> QED BY <2>7 DEF Absent
<1>6. \A j \in (b + 1)..Len(h) : ~Absent(h[j - 1], h[j])
  BY <1>3 DEF Overlooked
<1> DEFINE First1(i) == /\ i = 1 \/ Absent(h[i - 1], h[i])
                        /\ \A j \in (i + 1)..Len(h) : ~Absent(h[j - 1], h[j])
<1>7. AppearedAt(t) = CHOOSE i \in DOMAIN h : First1(i)
  BY DEF AppearedAt
<1>8. b \in DOMAIN h /\ First1(b)
  BY <1>1, <1>2, <1>5, <1>6
<1>9. \A i \in DOMAIN h : First1(i) => i = b
  <2> SUFFICES ASSUME NEW i \in 1..Len(h), First1(i), i # b PROVE FALSE
    BY <1>1
  <2>1. CASE i < b
    <3>1. b \in (i + 1)..Len(h) /\ b # 1
      BY <1>1, <1>2, <2>1
    <3> QED BY <1>5, <3>1
  <2>2. CASE b < i
    <3>1. i \in (b + 1)..Len(h) /\ i # 1
      BY <1>1, <1>2, <2>2
    <3> QED BY <1>6, <3>1
  <2> QED BY <1>1, <1>2, <2>1, <2>2
<1> HIDE DEF First1
<1>10. AppearedAt(t) = b
  BY <1>7, <1>8, <1>9
<1> QED BY <1>3, <1>10

(* The hits of a track are its own.                                        *)
LEMMA VerdictsByTrack ==
  ASSUME RuleInv, InstantsInv, out.evaluated, NEW t \in Tracks, ~Overlooked(t)
  PROVE  ZoneVerdicts(t) = EarnedZoneHits(t)
<1>1. {h \in out.hits : h.type \in ZoneTypes}
        = IF ZoneOn THEN UNION {StateHits(u) : u \in Seen} ELSE {}
  BY DEF RuleInv, StateVerdicts
<1>2. \A u : \A h \in StateHits(u) : h.track = u
  BY DEF StateHits, ZoneHitsSince
<1>3. ZoneVerdicts(t) = IF ZoneOn /\ t \in Seen THEN StateHits(t) ELSE {}
  BY <1>1, <1>2 DEF ZoneVerdicts
<1>4. t \in Seen => StateHits(t) = ZoneHitsSince(t, AppearedAt(t))
  BY LifeIsState DEF StateHits
<1> QED BY <1>3, <1>4 DEF EarnedZoneHits

(* Whatever is toggled, forgotten, repeated or reset: for a track none of  *)
(* whose absences was overlooked, a message answers a zone_enter exactly   *)
(* for the first observation of a visit, and a loitering exactly when the  *)
(* visit is as long as the dwell, where leaving the zone or an absence     *)
(* beyond track_expiry_s ends a visit (rules/engine.py, rules/zone.py,     *)
(* state.py; ZoneVerdictsAreEarned).                                       *)
THEOREM ZonesAreJudged == Spec => []ZoneVerdictsAreEarned
<1>1. RuleInv /\ InstantsInv => ZoneVerdictsAreEarned
  BY VerdictsByTrack DEF ZoneVerdictsAreEarned
<1>2. RuleInv => RuleTyped
  BY DEF RuleInv
<1> QED BY <1>1, <1>2, InitRuleInv, NextRuleInv, InitInstantsInv, NextInstantsInv, PTL
        DEF Spec

(* A message answers a crossing exactly when the chord from the newest     *)
(* earlier position off the line, in an unbroken chain of observations,    *)
(* changes sides and meets the segment (rules/line.py).                    *)
THEOREM CrossingsAreJudged == Spec => []CrossingsAreEarned
<1>1. RuleInv => CrossingsAreEarned
  BY DEF RuleInv
<1> QED BY <1>1, InitRuleInv, NextRuleInv, PTL DEF Spec

(* A remembered side is that of the remembered anchor, in every state that *)
(* evaluations make.                                                       *)
LEMMA EvaluatedTyped ==
  ASSUME NEW ts \in TrackState, NEW pt \in Points, now \in 0..MaxTicks,
         \A l \in Lines : SideMatchesAnchor(ts, l)
  PROVE  LET ev == Evaluated(ts, pt)
         IN  /\ ev \in TrackState /\ ev.chainAt = ev.seen
             /\ \A l \in Lines : SideMatchesAnchor(ev, l)
<1>1. MaxTicks \in Nat /\ now \in Nat /\ pt \in Int \X Int /\ pt # <<>>
  <2>1. MaxTicks \in Nat /\ Points \subseteq Int \X Int
    BY EngineAssumption
  <2>2. PICK x, y \in Int : pt = <<x, y>>
    BY <2>1
  <2>3. Len(<<x, y>>) = 2 /\ Len(<<>>) = 0
    OBVIOUS
  <2>4. pt # <<>>
    BY <2>2, <2>3
  <2>5. pt \in Int \X Int /\ now \in Nat
    BY <2>1
  <2> QED BY <2>1, <2>4, <2>5
<1>2. ts \in StateType
  BY <1>1 DEF TrackState, StateType, Never
<1>3. PICK ev : ev = Evaluated(ts, pt)
  OBVIOUS
<1>4. /\ ev \in StateType /\ ev.seen = now /\ ev.chainAt = now
      /\ ev.entered = IF ZoneOn THEN EnteredAt(ts.entered, pt) ELSE ts.entered
      /\ \A l \in Lines :
           /\ ev.side[l] = IF GoesOn(ts) THEN Noted(ts.side[l], l, pt) ELSE SideOf(l, pt)
           /\ ev.anchor[l] = IF SideOf(l, pt) # 0 THEN pt
                             ELSE IF GoesOn(ts) THEN ts.anchor[l] ELSE <<>>
      /\ \A l \in Lines : SideOf(l, pt) \in -1..1
  BY <1>1, <1>2, <1>3, EvaluatedIs
<1>5. now \in Never..MaxTicks /\ Never \in Never..MaxTicks
  BY <1>1 DEF Never
<1>6. ev.entered \in [Zones -> Never..MaxTicks]
  BY <1>4, <1>5 DEF TrackState, EnteredAt
<1>7. \A l \in Lines : ev.side[l] \in -1..1
  BY <1>4 DEF TrackState, Noted
<1>8. \A l \in Lines : SideMatchesAnchor(ev, l)
  BY <1>1, <1>4 DEF SideMatchesAnchor, Noted
<1>9. ev \in TrackState
  BY <1>4, <1>5, <1>6, <1>7 DEF StateType, TrackState
<1> QED BY <1>3, <1>4, <1>8, <1>9

(* The state of a track has its types, and its line chain is never apart   *)
(* from the state it belongs to: forgetting a track forgets both, and no   *)
(* toggling of features leaves a side without its anchor (state.py,        *)
(* TrackState; line.py, _reanchor).                                        *)
THEOREM ChainsAreWhole == Spec => []TypeOK
<1> USE EngineAssumption
<1>1. /\ NoTrack \in TrackState /\ NoTrack.chainAt = NoTrack.seen
      /\ \A l \in Lines : SideMatchesAnchor(NoTrack, l)
  BY DEF NoTrack, TrackState, Never, SideMatchesAnchor
<1>2. Init => TypeOK
  BY <1>1 DEF Init, TypeOK
<1>3. TypeOK /\ [Next]_vars => TypeOK'
  <2> SUFFICES ASSUME TypeOK, [Next]_vars
               PROVE  TypeOK'
    OBVIOUS
  <2>1. ASSUME UNCHANGED tracks, now' \in 0..MaxTicks, features' \in FeatureSets,
               watermark' \in 0..MaxFrames
        PROVE  TypeOK'
    BY <2>1 DEF TypeOK, SideMatchesAnchor, SideOf
  <2>2. ASSUME NEW f \in 1..MaxFrames, NEW dets \in Detections, OnDetections(f, dets)
        PROVE  TypeOK'
    <3>1. ASSUME NEW t \in Tracks
          PROVE  /\ tracks'[t] \in TrackState /\ tracks'[t].chainAt = tracks'[t].seen
                 /\ \A l \in Lines : SideMatchesAnchor(tracks'[t], l)
      <4>1. /\ tracks[t] \in TrackState /\ tracks[t].chainAt = tracks[t].seen
            /\ \A l \in Lines : SideMatchesAnchor(tracks[t], l)
            /\ now \in 0..MaxTicks
        BY DEF TypeOK
      <4>2. \/ tracks'[t] = NoTrack \/ tracks'[t] = tracks[t]
            \/ t \in DOMAIN dets /\ tracks'[t] = Evaluated(tracks[t], dets[t])
        <5>1. tracks' = TracksAfter(dets)
          BY <2>2 DEF OnDetections
        <5>2. tracks'[t] =
                IF t \in DOMAIN dets
                THEN IF Expired(Evaluated(tracks[t], dets[t])) THEN NoTrack
                     ELSE Evaluated(tracks[t], dets[t])
                ELSE IF Expired(tracks[t]) THEN NoTrack ELSE tracks[t]
          BY <5>1 DEF TracksAfter
        <5> QED BY <5>2
      <4>3. CASE t \in DOMAIN dets /\ tracks'[t] = Evaluated(tracks[t], dets[t])
        <5>1. PICK pt \in Points : pt = dets[t]
          BY <4>3 DEF Detections
        <5> QED BY <4>1, <4>3, <5>1, EvaluatedTyped
      <4> QED BY <1>1, <4>1, <4>2, <4>3
    <3>2. tracks' \in [Tracks -> TrackState]
      <4>1. tracks' = [t \in Tracks |-> tracks'[t]]
        BY <2>2 DEF OnDetections, TracksAfter
      <4> QED BY <3>1, <4>1
    <3>3. /\ now' = now /\ features' = features /\ watermark' \in 0..MaxFrames
      BY <2>2 DEF OnDetections
    <3>4. \A t \in Tracks : \A l \in Lines : SideMatchesAnchor(tracks[t], l)'
      BY <3>1 DEF SideMatchesAnchor, SideOf
    <3> QED BY <3>1, <3>2, <3>3, <3>4 DEF TypeOK
  <2>3. ASSUME NEW f \in 1..MaxFrames, OnDetectionsNoRules(f) \/ OnDetectionsLate(f)
        PROVE  TypeOK'
    BY <2>1, <2>3 DEF OnDetectionsNoRules, OnDetectionsLate, TypeOK
  <2>4. CASE ResetDevice
    <3>1. /\ tracks' = [t \in Tracks |-> NoTrack] /\ watermark' = 0
          /\ UNCHANGED <<now, features>>
      BY <2>4 DEF ResetDevice
    <3>2. \A t \in Tracks : \A l \in Lines : SideMatchesAnchor(tracks[t], l)'
      BY <1>1, <3>1 DEF SideMatchesAnchor, SideOf
    <3> QED BY <1>1, <3>1, <3>2 DEF TypeOK
  <2>5. CASE ChangeRules
    BY <2>1, <2>5 DEF ChangeRules, TypeOK
  <2>6. CASE Tick
    BY <2>1, <2>6 DEF Tick, TypeOK
  <2>7. CASE UNCHANGED vars
    BY <2>1, <2>7 DEF vars, TypeOK
  <2> QED BY <2>2, <2>3, <2>4, <2>5, <2>6, <2>7 DEF Next
<1> QED BY <1>2, <1>3, PTL DEF Spec

-----------------------------------------------------------------------------
(* Geometry.                                                               *)

Pt == Int \X Int

(* The cross product whose sign is Side.                                   *)
Cross(a, b, p) == (b[1] - a[1]) * (p[2] - a[2]) - (b[2] - a[2]) * (p[1] - a[1])

LEMMA ProductSign ==
  ASSUME NEW x \in Int, NEW y \in Int
  PROVE  /\ x * y \in Int
         /\ (x > 0 /\ y > 0) => x * y > 0
         /\ (x < 0 /\ y > 0) => x * y < 0
         /\ (x > 0 /\ y < 0) => x * y < 0
         /\ (x < 0 /\ y < 0) => x * y > 0
         /\ (x = 0 \/ y = 0) => x * y = 0
  OBVIOUS

(* The same area from each corner, and the opposite one the other way.     *)
LEMMA AreaTurns ==
  ASSUME NEW a1 \in Int, NEW a2 \in Int, NEW b1 \in Int, NEW b2 \in Int,
         NEW c1 \in Int, NEW c2 \in Int
  PROVE  /\ (b1 - a1) * (c2 - a2) - (b2 - a2) * (c1 - a1)
              = (c1 - b1) * (a2 - b2) - (c2 - b2) * (a1 - b1)
         /\ (b1 - a1) * (c2 - a2) - (b2 - a2) * (c1 - a1)
              = -((a1 - b1) * (c2 - b2) - (a2 - b2) * (c1 - b1))
  OBVIOUS

(* A point is the mean of three corners, weighted with the areas opposite. *)
LEMMA AreasBalance ==
  ASSUME NEW a1 \in Int, NEW a2 \in Int, NEW b1 \in Int, NEW b2 \in Int,
         NEW c1 \in Int, NEW c2 \in Int, NEW x1 \in Int, NEW x2 \in Int
  PROVE  ((c1 - b1) * (x2 - b2) - (c2 - b2) * (x1 - b1)) * (a2 - x2)
         + ((a1 - c1) * (x2 - c2) - (a2 - c2) * (x1 - c1)) * (b2 - x2)
         + ((b1 - a1) * (x2 - a2) - (b2 - a2) * (x1 - a1)) * (c2 - x2) = 0
  OBVIOUS

(* Side is the sign of the cross product, and Ccw says it is positive.     *)
LEMMA CrossSigns ==
  ASSUME NEW a \in Pt, NEW b \in Pt, NEW p \in Pt
  PROVE  /\ Cross(a, b, p) \in Int
         /\ Side(a, b, p) = IF Cross(a, b, p) > 0 THEN 1
                            ELSE IF Cross(a, b, p) < 0 THEN -1 ELSE 0
         /\ Ccw(a, b, p) <=> Cross(a, b, p) > 0
<1>1. /\ a[1] \in Int /\ a[2] \in Int /\ b[1] \in Int /\ b[2] \in Int
      /\ p[1] \in Int /\ p[2] \in Int
  BY DEF Pt
<1>2. Cross(a, b, p) \in Int
  BY <1>1, ProductSign DEF Cross
<1>3. Side(a, b, p) = IF Cross(a, b, p) > 0 THEN 1
                      ELSE IF Cross(a, b, p) < 0 THEN -1 ELSE 0
  BY DEF Side, Cross
<1>4. Ccw(a, b, p) <=> Cross(a, b, p) > 0
  <2>1. PICK m \in Int : m = (b[1] - a[1]) * (p[2] - a[2])
    BY <1>1, ProductSign
  <2>2. PICK n \in Int : n = (b[2] - a[2]) * (p[1] - a[1])
    BY <1>1, ProductSign
  <2>3. (p[2] - a[2]) * (b[1] - a[1]) = m
    BY <1>1, <2>1
  <2>4. Cross(a, b, p) = m - n
    BY <2>1, <2>2 DEF Cross
  <2>5. Ccw(a, b, p) <=> m > n
    BY <2>2, <2>3 DEF Ccw
  <2> QED BY <2>4, <2>5
<1> QED BY <1>2, <1>3, <1>4

LEMMA CrossTurns ==
  ASSUME NEW a \in Pt, NEW b \in Pt, NEW c \in Pt
  PROVE  /\ Cross(a, b, c) = Cross(b, c, a)
         /\ Cross(a, b, c) = -Cross(b, a, c)
<1>1. /\ a[1] \in Int /\ a[2] \in Int /\ b[1] \in Int /\ b[2] \in Int
      /\ c[1] \in Int /\ c[2] \in Int
  BY DEF Pt
<1>2. Cross(a, b, c) = Cross(b, c, a)
  BY <1>1, AreaTurns DEF Cross
<1>3. Cross(a, b, c) = -Cross(b, a, c)
  BY <1>1, AreaTurns DEF Cross
<1> QED BY <1>2, <1>3

LEMMA CrossesBalance ==
  ASSUME NEW a \in Pt, NEW b \in Pt, NEW c \in Pt, NEW x \in Pt
  PROVE  Cross(b, c, x) * (a[2] - x[2]) + Cross(c, a, x) * (b[2] - x[2])
         + Cross(a, b, x) * (c[2] - x[2]) = 0
<1>1. /\ a[1] \in Int /\ a[2] \in Int /\ b[1] \in Int /\ b[2] \in Int
      /\ c[1] \in Int /\ c[2] \in Int /\ x[1] \in Int /\ x[2] \in Int
  BY DEF Pt
<1> QED BY <1>1, AreasBalance DEF Cross

Odd(S) == Cardinality(S) % 2 = 1

LEMMA OddTurns ==
  ASSUME NEW S, IsFiniteSet(S), NEW i, i \notin S
  PROVE  IsFiniteSet(S \cup {i}) /\ (Odd(S \cup {i}) <=> ~Odd(S))
<1>1. /\ IsFiniteSet(S \cup {i}) /\ Cardinality(S \cup {i}) = Cardinality(S) + 1
      /\ Cardinality(S) \in Nat
  BY FS_AddElement, FS_CardinalityType
<1> QED BY <1>1 DEF Odd

(* The number of edges that are hit, of up to four.                        *)
LEMMA OddOfFour ==
  ASSUME NEW S \in SUBSET {1, 2, 3, 4}
  PROVE  Odd(S) <=> ~((1 \in S <=> 2 \in S) <=> (3 \in S <=> 4 \in S))
<1> DEFINE T1 == S \cap {1}
           T2 == S \cap {1, 2}
           T3 == S \cap {1, 2, 3}
<1>1. IsFiniteSet({}) /\ ~Odd({})
  BY FS_EmptySet DEF Odd
<1>2. IsFiniteSet(T1) /\ (Odd(T1) <=> 1 \in S)
  <2>1. CASE 1 \in S
    <3>1. T1 = {} \cup {1}
      BY <2>1
    <3> QED BY <1>1, <2>1, <3>1, OddTurns
  <2>2. CASE 1 \notin S
    <3>1. T1 = {}
      BY <2>2
    <3> QED BY <1>1, <2>2, <3>1
  <2> QED BY <2>1, <2>2
<1>3. IsFiniteSet(T2) /\ (Odd(T2) <=> ~(1 \in S <=> 2 \in S))
  <2>1. CASE 2 \in S
    <3>1. T2 = T1 \cup {2} /\ 2 \notin T1
      BY <2>1
    <3> HIDE DEF T1, T2
    <3> QED BY <1>2, <2>1, <3>1, OddTurns
  <2>2. CASE 2 \notin S
    <3>1. T2 = T1
      BY <2>2
    <3> QED BY <1>2, <2>2, <3>1
  <2> QED BY <2>1, <2>2
<1>4. IsFiniteSet(T3) /\ (Odd(T3) <=> ~(~(1 \in S <=> 2 \in S) <=> 3 \in S))
  <2>1. CASE 3 \in S
    <3>1. T3 = T2 \cup {3} /\ 3 \notin T2
      BY <2>1
    <3> HIDE DEF T2, T3
    <3> QED BY <1>3, <2>1, <3>1, OddTurns
  <2>2. CASE 3 \notin S
    <3>1. T3 = T2
      BY <2>2
    <3> QED BY <1>3, <2>2, <3>1
  <2> QED BY <2>1, <2>2
<1>5. CASE 4 \in S
  <2>1. \A i \in S : i \in {1, 2, 3} \/ i = 4
    OBVIOUS
  <2>2. S = T3 \cup {4} /\ 4 \notin T3
    <3>1. \A i : i \in S <=> i \in T3 \cup {4}
      BY <1>5, <2>1
    <3>2. 4 \notin T3
      OBVIOUS
    <3> QED BY <3>1, <3>2
  <2> HIDE DEF T3
  <2>3. Odd(S) <=> ~Odd(T3)
    BY <1>4, <2>2, OddTurns
  <2> QED BY <1>4, <1>5, <2>3
<1>6. CASE 4 \notin S
  <2>1. \A i \in S : i \in {1, 2, 3} \/ i = 4
    OBVIOUS
  <2>2. S = T3
    BY <1>6, <2>1
  <2> QED BY <1>4, <1>6, <2>2
<1> QED BY <1>5, <1>6

-----------------------------------------------------------------------------
(* The canvas.                                                             *)

(* An edge that spans the height of x is hit when x is on its left.        *)
LEMMA CanvasEdgeSide ==
  ASSUME NEW x \in Pt, NEW a \in Pt, NEW b \in Pt
  PROVE  CanvasEdgeHit(x, a, b) <=>
           \/ a[2] > x[2] /\ ~(b[2] > x[2]) /\ Cross(a, b, x) < 0
           \/ b[2] > x[2] /\ ~(a[2] > x[2]) /\ Cross(a, b, x) > 0
<1>1. /\ a[1] \in Int /\ a[2] \in Int /\ b[1] \in Int /\ b[2] \in Int
      /\ x[1] \in Int /\ x[2] \in Int
  BY DEF Pt
<1>2. PICK run \in Int : run = (b[1] - a[1]) * (x[2] - a[2])
  BY <1>1, ProductSign
<1>3. PICK off \in Int : off = (b[2] - a[2]) * (x[1] - a[1])
  BY <1>1, ProductSign
<1>4. (x[1] - a[1]) * (b[2] - a[2]) = off
  BY <1>1, <1>3
<1>5. Cross(a, b, x) = run - off
  BY <1>2, <1>3 DEF Cross
<1>6. CanvasEdgeHit(x, a, b) <=>
        /\ (a[2] > x[2]) # (b[2] > x[2])
        /\ IF b[2] - a[2] > 0 THEN off < run ELSE off > run
  BY <1>2, <1>4 DEF CanvasEdgeHit
<1> QED BY <1>1, <1>5, <1>6

(* Of three areas that balance at the heights of their corners, an odd     *)
(* number of edges is hit when all are of one sign.                        *)
LEMMA SignsDecide ==
  ASSUME NEW xa \in Int, NEW xb \in Int, NEW xc \in Int,
         NEW u \in Int, NEW v \in Int, NEW w \in Int,
         xa * u + xb * v + xc * w = 0,
         ~(u = 0 /\ v = 0 /\ w = 0),
         ~(xa = 0 /\ ((xb >= 0 /\ xc >= 0) \/ (xb <= 0 /\ xc <= 0))),
         ~(xb = 0 /\ ((xa >= 0 /\ xc >= 0) \/ (xa <= 0 /\ xc <= 0))),
         ~(xc = 0 /\ ((xb >= 0 /\ xa >= 0) \/ (xb <= 0 /\ xa <= 0))),
         NEW h1, h1 <=> ((u > 0 /\ w <= 0 /\ xb > 0) \/ (w > 0 /\ u <= 0 /\ xb < 0)),
         NEW h2, h2 <=> ((v > 0 /\ u <= 0 /\ xc > 0) \/ (u > 0 /\ v <= 0 /\ xc < 0)),
         NEW h3, h3 <=> ((w > 0 /\ v <= 0 /\ xa > 0) \/ (v > 0 /\ w <= 0 /\ xa < 0))
  PROVE  ~((h1 <=> h2) <=> ~h3)
           <=> ((xa > 0 /\ xb > 0 /\ xc > 0) \/ (xa < 0 /\ xb < 0 /\ xc < 0))
<1>1. PICK pa \in Int : /\ pa = xa * u
                        /\ (xa > 0 /\ u > 0) => pa > 0
                        /\ (xa < 0 /\ u > 0) => pa < 0
                        /\ (xa > 0 /\ u < 0) => pa < 0
                        /\ (xa < 0 /\ u < 0) => pa > 0
                        /\ (xa = 0 \/ u = 0) => pa = 0
  BY ProductSign
<1>2. PICK pb \in Int : /\ pb = xb * v
                        /\ (xb > 0 /\ v > 0) => pb > 0
                        /\ (xb < 0 /\ v > 0) => pb < 0
                        /\ (xb > 0 /\ v < 0) => pb < 0
                        /\ (xb < 0 /\ v < 0) => pb > 0
                        /\ (xb = 0 \/ v = 0) => pb = 0
  BY ProductSign
<1>3. PICK pc \in Int : /\ pc = xc * w
                        /\ (xc > 0 /\ w > 0) => pc > 0
                        /\ (xc < 0 /\ w > 0) => pc < 0
                        /\ (xc > 0 /\ w < 0) => pc < 0
                        /\ (xc < 0 /\ w < 0) => pc > 0
                        /\ (xc = 0 \/ w = 0) => pc = 0
  BY ProductSign
<1>4. pa + pb + pc = 0
  BY <1>1, <1>2, <1>3
<1> QED BY <1>1, <1>2, <1>3, <1>4

LEMMA TriangleDecided ==
  ASSUME NEW a \in Pt, NEW b \in Pt, NEW c \in Pt, NEW x \in Pt,
         Side(a, b, c) # 0,
         NEW S, S = {Side(a, b, x), Side(b, c, x), Side(c, a, x)},
         ~(0 \in S /\ (S \subseteq {0, 1} \/ S \subseteq {0, -1}))
  PROVE  CanvasPointInPolygon(x, <<a, b, c>>) <=> (S = {1} \/ S = {-1})
<1> DEFINE poly == <<a, b, c>>
           hits == {i \in 1..Len(poly) : CanvasEdgeHit(x, poly[i], Before(poly, i))}
<1>1. /\ a[1] \in Int /\ a[2] \in Int /\ b[1] \in Int /\ b[2] \in Int
      /\ c[1] \in Int /\ c[2] \in Int /\ x[1] \in Int /\ x[2] \in Int
  BY DEF Pt
<1>2. PICK u \in Int, v \in Int, w \in Int :
        u = a[2] - x[2] /\ v = b[2] - x[2] /\ w = c[2] - x[2]
  BY <1>1
<1>3. PICK xa \in Int, xb \in Int, xc \in Int :
        xa = Cross(b, c, x) /\ xb = Cross(c, a, x) /\ xc = Cross(a, b, x)
  BY CrossSigns
<1>4. /\ Cross(a, c, x) = -xb /\ Cross(b, a, x) = -xc /\ Cross(c, b, x) = -xa
  <2>1. /\ Cross(c, a, x) = -Cross(a, c, x) /\ Cross(a, b, x) = -Cross(b, a, x)
        /\ Cross(b, c, x) = -Cross(c, b, x)
    BY CrossTurns
  <2>2. Cross(a, c, x) \in Int /\ Cross(b, a, x) \in Int /\ Cross(c, b, x) \in Int
    BY CrossSigns
  <2> QED BY <1>3, <2>1, <2>2
<1>5. /\ 1 \in hits <=> CanvasEdgeHit(x, a, c)
      /\ 2 \in hits <=> CanvasEdgeHit(x, b, a)
      /\ 3 \in hits <=> CanvasEdgeHit(x, c, b)
      /\ 4 \notin hits /\ hits \in SUBSET {1, 2, 3, 4}
  <2>1. Len(poly) = 3 /\ poly[1] = a /\ poly[2] = b /\ poly[3] = c
    OBVIOUS
  <2>2. Before(poly, 1) = c /\ Before(poly, 2) = a /\ Before(poly, 3) = b
    BY <2>1 DEF Before
  <2>3. 1..3 = {1, 2, 3}
    OBVIOUS
  <2> HIDE DEF poly
  <2> QED BY <2>1, <2>2, <2>3
<1>6. /\ a[2] > x[2] <=> u > 0
      /\ b[2] > x[2] <=> v > 0
      /\ c[2] > x[2] <=> w > 0
  BY <1>1, <1>2
<1> HIDE DEF hits
<1>7. /\ 1 \in hits <=> ((u > 0 /\ w <= 0 /\ xb > 0) \/ (w > 0 /\ u <= 0 /\ xb < 0))
      /\ 2 \in hits <=> ((v > 0 /\ u <= 0 /\ xc > 0) \/ (u > 0 /\ v <= 0 /\ xc < 0))
      /\ 3 \in hits <=> ((w > 0 /\ v <= 0 /\ xa > 0) \/ (v > 0 /\ w <= 0 /\ xa < 0))
  <2>1. /\ CanvasEdgeHit(x, a, c) <=>
             \/ a[2] > x[2] /\ ~(c[2] > x[2]) /\ Cross(a, c, x) < 0
             \/ c[2] > x[2] /\ ~(a[2] > x[2]) /\ Cross(a, c, x) > 0
        /\ CanvasEdgeHit(x, b, a) <=>
             \/ b[2] > x[2] /\ ~(a[2] > x[2]) /\ Cross(b, a, x) < 0
             \/ a[2] > x[2] /\ ~(b[2] > x[2]) /\ Cross(b, a, x) > 0
        /\ CanvasEdgeHit(x, c, b) <=>
             \/ c[2] > x[2] /\ ~(b[2] > x[2]) /\ Cross(c, b, x) < 0
             \/ b[2] > x[2] /\ ~(c[2] > x[2]) /\ Cross(c, b, x) > 0
    BY CanvasEdgeSide
  <2> QED BY <1>4, <1>5, <1>6, <2>1
<1>8. xa * u + xb * v + xc * w = 0
  BY <1>2, <1>3, CrossesBalance
<1>9. ~(u = 0 /\ v = 0 /\ w = 0)
  <2>1. CASE u = 0 /\ v = 0 /\ w = 0
    <3>1. b[2] = a[2] /\ c[2] = a[2]
      BY <1>1, <1>2, <2>1
    <3>2. Cross(a, b, c) = 0
      BY <1>1, <3>1 DEF Cross
    <3> QED BY <3>2, CrossSigns
  <2> QED BY <2>1
<1>10. /\ Side(b, c, x) = IF xa > 0 THEN 1 ELSE IF xa < 0 THEN -1 ELSE 0
       /\ Side(c, a, x) = IF xb > 0 THEN 1 ELSE IF xb < 0 THEN -1 ELSE 0
       /\ Side(a, b, x) = IF xc > 0 THEN 1 ELSE IF xc < 0 THEN -1 ELSE 0
  BY <1>3, CrossSigns
<1>11. (S = {1} \/ S = {-1})
         <=> ((xa > 0 /\ xb > 0 /\ xc > 0) \/ (xa < 0 /\ xb < 0 /\ xc < 0))
  BY <1>10
<1>12. /\ ~(xa = 0 /\ ((xb >= 0 /\ xc >= 0) \/ (xb <= 0 /\ xc <= 0)))
       /\ ~(xb = 0 /\ ((xa >= 0 /\ xc >= 0) \/ (xa <= 0 /\ xc <= 0)))
       /\ ~(xc = 0 /\ ((xb >= 0 /\ xa >= 0) \/ (xb <= 0 /\ xa <= 0)))
  BY <1>10
<1>13. ~((1 \in hits <=> 2 \in hits) <=> ~(3 \in hits))
         <=> ((xa > 0 /\ xb > 0 /\ xc > 0) \/ (xa < 0 /\ xb < 0 /\ xc < 0))
  BY <1>7, <1>8, <1>9, <1>12, SignsDecide
<1>14. CanvasPointInPolygon(x, poly) <=> Odd(hits)
  BY DEF CanvasPointInPolygon, Odd, hits
<1>15. Odd(hits) <=> ~((1 \in hits <=> 2 \in hits) <=> ~(3 \in hits))
  BY <1>5, OddOfFour
<1> QED BY <1>11, <1>13, <1>14, <1>15

-----------------------------------------------------------------------------
(* The hub.                                                                *)

(* A level edge is never hit, an upright one from its left.                *)
LEMMA HubEdges ==
  ASSUME NEW x \in Pt, NEW a \in Pt, NEW b \in Pt
  PROVE  /\ a[2] = b[2] => ~HubEdgeHit(x, a, b)
         /\ a[1] = b[1] =>
              (HubEdgeHit(x, a, b)
                 <=> ~(a[2] > x[2] <=> b[2] > x[2]) /\ x[1] < a[1])
<1>1. /\ a[1] \in Int /\ a[2] \in Int /\ b[1] \in Int /\ b[2] \in Int
      /\ x[1] \in Int /\ x[2] \in Int
  BY DEF Pt
<1>2. a[2] = b[2] => ~HubEdgeHit(x, a, b)
  BY DEF HubEdgeHit
<1>3. ASSUME a[1] = b[1]
      PROVE  HubEdgeHit(x, a, b)
               <=> ~(a[2] > x[2] <=> b[2] > x[2]) /\ x[1] < a[1]
  <2>1. (b[1] - a[1]) * (x[2] - a[2]) = 0
    BY <1>1, <1>3, ProductSign
  <2>2. PICK rise \in Int : rise = b[2] - a[2]
    BY <1>1
  <2>3. PICK gap \in Int : gap = x[1] - a[1]
    BY <1>1
  <2>4. rise > 0 => (gap * rise < 0 <=> gap < 0)
    BY ProductSign
  <2>5. HubEdgeHit(x, a, b) <=>
          /\ (a[2] > x[2]) # (b[2] > x[2])
          /\ IF rise > 0 THEN gap * rise < 0 ELSE x[1] < a[1]
    BY <2>1, <2>2, <2>3 DEF HubEdgeHit
  <2>6. gap < 0 <=> x[1] < a[1]
    BY <1>1, <2>3
  <2>7. (a[2] > x[2]) # (b[2] > x[2]) <=> ~(a[2] > x[2] <=> b[2] > x[2])
    OBVIOUS
  <2> QED BY <2>4, <2>5, <2>6, <2>7
<1> QED BY <1>2, <1>3

(* A rectangle: the heights of its corners straddle x, and x is to the     *)
(* left of one of its upright edges.                                       *)
RightOfOne(x, a, b) ==
  ~(a[2] > x[2] <=> b[2] > x[2]) /\ ~(x[1] < a[1] <=> x[1] < b[1])

LEMMA RectangleDecided ==
  ASSUME NEW a \in Pt, NEW b \in Pt, NEW x \in Pt
  PROVE  /\ PointInPolygon(x, <<a, <<b[1], a[2]>>, b, <<a[1], b[2]>>>>)
              <=> RightOfOne(x, a, b)
         /\ PointInPolygon(x, <<a, <<a[1], b[2]>>, b, <<b[1], a[2]>>>>)
              <=> RightOfOne(x, a, b)
<1>1. /\ a[1] \in Int /\ a[2] \in Int /\ b[1] \in Int /\ b[2] \in Int
      /\ x[1] \in Int /\ x[2] \in Int
  BY DEF Pt
<1>2. PICK d \in Pt : d = <<b[1], a[2]>>
  BY <1>1 DEF Pt
<1>3. PICK e \in Pt : e = <<a[1], b[2]>>
  BY <1>1 DEF Pt
<1>4. d[1] = b[1] /\ d[2] = a[2] /\ e[1] = a[1] /\ e[2] = b[2]
  BY <1>2, <1>3
<1>5. \A p1, p2, p3, p4 :
        LET poly == <<p1, p2, p3, p4>>
        IN  PointInPolygon(x, poly) <=>
              ~((HubEdgeHit(x, p1, p4) <=> HubEdgeHit(x, p2, p1))
                 <=> (HubEdgeHit(x, p3, p2) <=> HubEdgeHit(x, p4, p3)))
  <2> SUFFICES ASSUME NEW p1, NEW p2, NEW p3, NEW p4, NEW poly, poly = <<p1, p2, p3, p4>>
               PROVE  PointInPolygon(x, poly) <=>
                        ~((HubEdgeHit(x, p1, p4) <=> HubEdgeHit(x, p2, p1))
                           <=> (HubEdgeHit(x, p3, p2) <=> HubEdgeHit(x, p4, p3)))
    OBVIOUS
  <2> DEFINE hits == {i \in 1..Len(poly) : HubEdgeHit(x, poly[i], Before(poly, i))}
  <2>1. Len(poly) = 4 /\ poly[1] = p1 /\ poly[2] = p2 /\ poly[3] = p3 /\ poly[4] = p4
    OBVIOUS
  <2>2. /\ Before(poly, 1) = p4 /\ Before(poly, 2) = p1
        /\ Before(poly, 3) = p2 /\ Before(poly, 4) = p3
    BY <2>1 DEF Before
  <2>3. 1..4 = {1, 2, 3, 4}
    OBVIOUS
  <2>4. /\ 1 \in hits <=> HubEdgeHit(x, p1, p4)
        /\ 2 \in hits <=> HubEdgeHit(x, p2, p1)
        /\ 3 \in hits <=> HubEdgeHit(x, p3, p2)
        /\ 4 \in hits <=> HubEdgeHit(x, p4, p3)
        /\ hits \in SUBSET {1, 2, 3, 4}
    BY <2>1, <2>2, <2>3
  <2>5. PointInPolygon(x, poly) <=> Odd(hits)
    BY <2>1 DEF PointInPolygon, Odd
  <2> HIDE DEF hits
  <2>6. Odd(hits) <=> ~((1 \in hits <=> 2 \in hits) <=> (3 \in hits <=> 4 \in hits))
    BY <2>4, OddOfFour
  <2> QED BY <2>4, <2>5, <2>6
<1>6. PointInPolygon(x, <<a, d, b, e>>) <=> RightOfOne(x, a, b)
  <2>1. PointInPolygon(x, <<a, d, b, e>>) <=>
          ~((HubEdgeHit(x, a, e) <=> HubEdgeHit(x, d, a))
             <=> (HubEdgeHit(x, b, d) <=> HubEdgeHit(x, e, b)))
    BY <1>5
  <2>2. /\ HubEdgeHit(x, a, e) <=> ~(a[2] > x[2] <=> b[2] > x[2]) /\ x[1] < a[1]
        /\ ~HubEdgeHit(x, d, a) /\ ~HubEdgeHit(x, e, b)
        /\ HubEdgeHit(x, b, d) <=> ~(b[2] > x[2] <=> a[2] > x[2]) /\ x[1] < b[1]
    BY <1>4, HubEdges
  <2> QED BY <2>1, <2>2 DEF RightOfOne
<1>7. PointInPolygon(x, <<a, e, b, d>>) <=> RightOfOne(x, a, b)
  <2>1. PointInPolygon(x, <<a, e, b, d>>) <=>
          ~((HubEdgeHit(x, a, d) <=> HubEdgeHit(x, e, a))
             <=> (HubEdgeHit(x, b, e) <=> HubEdgeHit(x, d, b)))
    BY <1>5
  <2>2. /\ HubEdgeHit(x, e, a) <=> ~(b[2] > x[2] <=> a[2] > x[2]) /\ x[1] < a[1]
        /\ ~HubEdgeHit(x, a, d) /\ ~HubEdgeHit(x, b, e)
        /\ HubEdgeHit(x, d, b) <=> ~(a[2] > x[2] <=> b[2] > x[2]) /\ x[1] < b[1]
    BY <1>4, HubEdges
  <2> QED BY <2>1, <2>2 DEF RightOfOne
<1> QED BY <1>2, <1>3, <1>6, <1>7

LEMMA SegmentsStraddle ==
  ASSUME NEW a \in Pt, NEW b \in Pt, NEW c \in Pt, NEW x \in Pt,
         Side(a, b, c) # 0, Side(a, b, x) # 0, Side(c, x, a) # 0, Side(c, x, b) # 0
  PROVE  SegmentsIntersect(a, b, c, x) <=>
           /\ Side(a, b, c) # Side(a, b, x)
           /\ Side(c, x, a) # Side(c, x, b)
<1>1. /\ Ccw(a, b, c) <=> Side(a, b, c) = 1
      /\ Ccw(a, b, x) <=> Side(a, b, x) = 1
      /\ Side(a, b, c) \in {1, -1} /\ Side(a, b, x) \in {1, -1}
  BY CrossSigns
<1>2. Cross(a, c, x) = Cross(c, x, a) /\ Cross(b, c, x) = Cross(c, x, b)
  BY CrossTurns
<1>3. /\ Ccw(a, c, x) <=> Side(c, x, a) = 1
      /\ Ccw(b, c, x) <=> Side(c, x, b) = 1
      /\ Side(c, x, a) \in {1, -1} /\ Side(c, x, b) \in {1, -1}
  BY <1>2, CrossSigns
<1>4. /\ (Ccw(a, b, c) # Ccw(a, b, x)) <=> ~(Ccw(a, b, c) <=> Ccw(a, b, x))
      /\ (Ccw(a, c, x) # Ccw(b, c, x)) <=> ~(Ccw(a, c, x) <=> Ccw(b, c, x))
  BY DEF Ccw
<1>5. /\ Side(a, b, c) # Side(a, b, x) <=> ~(Ccw(a, b, c) <=> Ccw(a, b, x))
      /\ Side(c, x, a) # Side(c, x, b) <=> ~(Ccw(a, c, x) <=> Ccw(b, c, x))
  BY <1>1, <1>3
<1> QED BY <1>4, <1>5 DEF SegmentsIntersect

(* The canvas decides every triangle, the hub every rectangle, and two     *)
(* segments in general position intersect when they straddle each other,   *)
(* on a grid of any width (geometry.py, coords.js).                        *)
THEOREM GeometryDecides == GeoSpec => []GeometryIsRight
<1> DEFINE Placed == A \in Grid /\ B \in Grid /\ C \in Grid /\ X \in Grid
<1>1. GeoInit => Placed
  BY WidthAssumption DEF GeoInit, Grid
<1>2. Placed /\ [GeoNext]_geoVars => Placed'
  BY DEF GeoNext, MoveC, MoveX, geoVars, Grid
<1>3. Placed => GeometryIsRight
  <2> SUFFICES ASSUME Placed
               PROVE  GeometryIsRight
    OBVIOUS
  <2>1. A \in Pt /\ B \in Pt /\ C \in Pt /\ X \in Pt
    BY WidthAssumption DEF Grid, Pt
  <2>2. CanvasIsRayCasting
    <3> SUFFICES ASSUME Side(A, B, C) # 0, ~OnTriangle
                 PROVE  CanvasPointInPolygon(X, Triangle) <=> InsideTriangle
      BY DEF CanvasIsRayCasting
    <3>1. PICK S : S = Sides
      OBVIOUS
    <3>2. S = {Side(A, B, X), Side(B, C, X), Side(C, A, X)}
      BY <3>1 DEF Sides
    <3>3. ~(0 \in S /\ (S \subseteq {0, 1} \/ S \subseteq {0, -1}))
      BY <3>1 DEF OnTriangle
    <3>4. CanvasPointInPolygon(X, <<A, B, C>>) <=> (S = {1} \/ S = {-1})
      BY <2>1, <3>2, <3>3, TriangleDecided
    <3> QED BY <3>1, <3>4 DEF Triangle, InsideTriangle
  <2>3. HubDecidesRectangles
    <3> SUFFICES ASSUME NEW r \in Rectangles
                 PROVE  /\ InsideRectangle => PointInPolygon(X, r)
                        /\ OutsideRectangle => ~PointInPolygon(X, r)
      BY DEF HubDecidesRectangles
    <3>1. PointInPolygon(X, r) <=> RightOfOne(X, A, B)
      BY <2>1, RectangleDecided DEF Rectangles
    <3>2. /\ A[1] \in Int /\ A[2] \in Int /\ B[1] \in Int /\ B[2] \in Int
          /\ X[1] \in Int /\ X[2] \in Int
      BY <2>1 DEF Pt
    <3>3. InsideRectangle => RightOfOne(X, A, B)
      BY <3>2 DEF InsideRectangle, Between, RightOfOne
    <3>4. OutsideRectangle => ~RightOfOne(X, A, B)
      BY <3>2 DEF OutsideRectangle, RightOfOne
    <3> QED BY <3>1, <3>3, <3>4
  <2>4. StraddleWhenClear
    BY <2>1, SegmentsStraddle DEF StraddleWhenClear
  <2> QED BY <2>2, <2>3, <2>4 DEF GeometryIsRight
<1> QED BY <1>1, <1>2, <1>3, PTL DEF GeoSpec
=============================================================================
