---------------------------- MODULE Console_proofs ----------------------------
(***************************************************************************)
(* Proofs about Console for every number of alerts, connections and        *)
(* dispositions and every limit of a catch-up.                             *)
(***************************************************************************)
EXTENDS Console, FiniteSetTheorems, WellFoundedInduction, TLAPS

-----------------------------------------------------------------------------
(* Types.                                                                  *)

MessageType == [type : {"alert.new", "alert.update"}, id : Ids, state : States]
Answers == UNION {[D -> States] : D \in SUBSET Ids}
CallType == [st : {"unused", "asked", "answered", "done"}, after : Nat, got : Answers]
StageType == [st : {"unused", "queued", "undone", "sent", "failed", "ended"},
              target : States \cup {"acked"}, ids : SUBSET Ids, prev : Answers,
              timer : BOOLEAN, todo : SUBSET Ids, done : Answers]

(* The part of the state that the hub and the socket keep.                 *)
HubTypes ==
  /\ rows \in Seq(States) /\ Len(rows) \in Stored..MaxAlerts
  /\ casts \subseteq MessageType /\ wire \in Seq(MessageType)
  /\ conn \in BOOLEAN /\ opens \in 0..MaxOpens
  /\ had \in [Ids -> SUBSET States] /\ changes \in 0..MaxEvents

(* The part that the page keeps.                                           *)
PageTypes ==
  /\ list \in [Ids -> States \cup {NotShown}] /\ lastId \in 0..MaxAlerts
  /\ rang \in [Ids -> Nat] /\ dropped \subseteq Ids /\ forfeited \subseteq Ids

CallTypes ==
  /\ load \in CallType /\ load.st # "unused"
  /\ catchUps \in [Opens -> CallType]
  /\ \A e \in Opens : e > opens => catchUps[e].st = "unused"

(* Only a disposition that is queued has a timer, and there is one of them *)
(* at most; only what was sent has requests that the hub may yet take.     *)
StageTypes ==
  /\ stages \in [Stages -> StageType]
  /\ \A t \in Stages :
       /\ stages[t].timer <=> t \in Queued
       /\ stages[t].todo # {} => stages[t].st \in {"sent", "failed"}
       /\ stages[t].st \in {"queued", "sent", "failed"} => stages[t].target \in Targets
  /\ \A t, u \in Queued : t = u

Types == HubTypes /\ PageTypes /\ CallTypes /\ StageTypes

-----------------------------------------------------------------------------
(* What is told of an alert is of one that the hub has fired.              *)
KnownPage == lastId <= Len(rows) /\ Shown \subseteq Inserted
KnownMessages == \A m \in casts \cup ToSet(wire) : m.id \in Inserted
KnownCalls ==
  /\ DOMAIN load.got \subseteq Inserted
  /\ \A e \in Opens : catchUps[e].after <= Len(rows) /\ DOMAIN catchUps[e].got \subseteq Inserted
KnownStages == \A t \in Stages : stages[t].ids \cup stages[t].todo \subseteq Inserted
Known == KnownPage /\ KnownMessages /\ KnownCalls /\ KnownStages

(* An alert that was never shown has not rung.                             *)
Ringing ==
  \A i \in Ids \ dropped : rang[i] <= 1 /\ (i \notin Shown => rang[i] = 0)

(* An answer that is under way has every row up to its last one: from the  *)
(* first in a page load, from the one after the last seen in a catch-up.   *)
GapFree(got, after) ==
  \A j \in DOMAIN got : j > after /\ \A k \in Ids : after < k /\ k < j => k \in DOMAIN got

CalledBy(e, i) ==
  \/ catchUps[e].st = "asked" /\ i > catchUps[e].after
  \/ catchUps[e].st = "answered" /\ i \in DOMAIN catchUps[e].got

Called(i) ==
  \/ \E e \in Opens : CalledBy(e, i)
  \/ load.st = "asked"
  \/ load.st = "answered" /\ i \in DOMAIN load.got

(* What is settled remains so: an alert that is shown or forfeited, or     *)
(* that a call will bring or forfeit.                                      *)
Settled(i) == i \in Shown \/ i \in forfeited \/ Called(i)

New(m, i) == m.type = "alert.new" /\ m.id = i

(* The pushes of new alerts are in the order of their ids, and what is     *)
(* before the last id the page knows is settled: the next catch-up, which  *)
(* starts there, leaves no gap.                                            *)
Gaps ==
  /\ load.st = "answered" => GapFree(load.got, 0)
  /\ \A e \in Opens : catchUps[e].st = "answered" => GapFree(catchUps[e].got, catchUps[e].after)
LastSettled == \A i \in Inserted : i <= lastId => Settled(i)
AfterSettled ==
  \A i \in Inserted : \A e \in Opens :
    catchUps[e].st \in {"asked", "answered"} /\ i <= catchUps[e].after => Settled(i)
CastsInOrder ==
  \A i \in Inserted : \A m \in casts :
    m.type = "alert.new" /\ i < m.id => Settled(i) \/ \E q \in DOMAIN wire : New(wire[q], i)
WireInOrder ==
  \A i \in Inserted : \A p \in DOMAIN wire :
    wire[p].type = "alert.new" /\ i < wire[p].id =>
      Settled(i) \/ \E q \in DOMAIN wire : q < p /\ New(wire[q], i)
AllAccounted ==
  \A i \in Inserted : \/ Settled(i) \/ (~conn /\ i > lastId)
                      \/ \E m \in casts \cup ToSet(wire) : New(m, i)
Accounted ==
  Gaps /\ LastSettled /\ AfterSettled /\ CastsInOrder /\ WireInOrder /\ AllAccounted

(* Every state under way is one that the row had.                          *)
RealRows == \A i \in Ids : "new" \in had[i] /\ (i \in Inserted => rows[i] \in had[i])
RealMessages == \A m \in casts \cup ToSet(wire) : m.state \in had[m.id]
RealCalls ==
  /\ \A i \in DOMAIN load.got : load.got[i] \in had[i]
  /\ \A e \in Opens : \A i \in DOMAIN catchUps[e].got : catchUps[e].got[i] \in had[i]
RealStages ==
  \A t \in Stages :
    /\ \A i \in DOMAIN stages[t].done :
         stages[t].done[i] = stages[t].target /\ stages[t].target \in had[i]
    /\ stages[t].st = "sent" =>
         \A i \in stages[t].ids \ stages[t].todo : stages[t].target \in had[i]
Real == RealRows /\ RealMessages /\ RealCalls /\ RealStages

AskedFor(i, s, kinds) ==
  \E t \in Stages : stages[t].st \in kinds /\ i \in stages[t].ids /\ s = stages[t].target

(* What an undo puts back is a state that the row had, or one that the hub *)
(* has been asked for: by then the earlier disposition is not queued.      *)
Restorable ==
  \A t \in Stages : stages[t].st \in {"queued", "sent"} =>
    /\ DOMAIN stages[t].prev = stages[t].ids
    /\ \A i \in stages[t].ids :
         stages[t].prev[i] \in had[i] \/ AskedFor(i, stages[t].prev[i], {"sent"})

NoneFailed == \A t \in Stages : stages[t].st # "failed"

Honest == NoneFailed => Restorable /\ \A i \in Shown :
            list[i] \in had[i] \/ AskedFor(i, list[i], {"queued", "sent"})

Inv == Types /\ Known /\ Ringing /\ Accounted /\ Real /\ Honest

-----------------------------------------------------------------------------
(* Lemmas about the operators.                                             *)

(* A nonempty set of numbers up to n has a largest one, which Max is.      *)
LEMMA MaxIsLargest ==
  ASSUME NEW n \in Nat, NEW S \in SUBSET (0..n), S # {}
  PROVE  Max(S) \in S /\ \A x \in S : x <= Max(S)
<1> DEFINE Bounds == {b \in Nat : \A x \in S : x <= b}
<1>1. n \in Bounds
  OBVIOUS
<1>2. PICK b \in Bounds : \A c \in Bounds : ~ (<<c, b>> \in OpToRel(<, Nat))
  BY <1>1, WFMin, NatLessThanWellFounded
<1>3. \A c \in Bounds : ~ (c < b)
  BY <1>2 DEF OpToRel
<1>4. b \in S
  <2>1. CASE b = 0
    <3>1. PICK x \in S : x \in 0..n /\ x <= b
      BY <1>2
    <3> QED
      BY <3>1, <2>1
  <2>2. CASE b # 0 /\ b \notin S
    <3>1. b - 1 \in Bounds
      BY <2>2
    <3> QED
      BY <3>1, <1>3
  <2> QED
    BY <2>1, <2>2
<1>5. \E x \in S : \A y \in S : x >= y
  BY <1>4
<1> QED
  BY <1>5 DEF Max

LEMMA MinIsSmallest ==
  ASSUME NEW S \in SUBSET Nat, S # {}
  PROVE  Min(S) \in S /\ \A x \in S : Min(S) <= x
<1>1. PICK b \in S : \A c \in S : ~ (<<c, b>> \in OpToRel(<, Nat))
  BY WFMin, NatLessThanWellFounded
<1>2. ASSUME NEW c \in S
      PROVE  b <= c
  <2>1. b \in Nat /\ c \in Nat
    OBVIOUS
  <2>2. ~ (c < b)
    BY <1>1, <2>1 DEF OpToRel
  <2> QED
    BY <2>1, <2>2
<1>3. \E x \in S : \A y \in S : x =< y
  BY <1>2
<1> QED
  BY <1>3 DEF Min


LEMMA ConstantsAreNumbers ==
  /\ MaxAlerts \in Nat /\ Stored \in 0..MaxAlerts /\ MaxEvents \in Nat
  /\ CatchUpLimit \in Nat \ {0} /\ MaxOpens \in Nat \ {0} /\ MaxStages \in Nat
  /\ Ids \subseteq Nat /\ Opens \subseteq Nat /\ Stages \subseteq Nat
  /\ "new" \in States /\ NotShown \notin States
  BY ConsoleAssumption DEF Ids, Opens, Stages, States, NotShown

LEMMA AnswersAreFunctions ==
  /\ NoRows \in Answers /\ DOMAIN NoRows = {}
  /\ \A D \in SUBSET Ids : \A f \in [D -> States] : f \in Answers
  /\ \A got \in Answers : /\ DOMAIN got \in SUBSET Ids /\ got \in [DOMAIN got -> States]
                          /\ \A i \in DOMAIN got : got[i] \in States
<1>1. NoRows \in [{} -> States]
  BY DEF NoRows
<1> QED
  BY <1>1 DEF Answers, NoRows

LEMMA CallsAreRecords ==
  /\ \A st \in {"unused", "asked", "answered", "done"}, after \in Nat, got \in Answers :
       /\ Call(st, after, got) \in CallType
       /\ Call(st, after, got).st = st /\ Call(st, after, got).after = after
       /\ Call(st, after, got).got = got
  /\ \A c \in CallType :
       /\ c.st \in {"unused", "asked", "answered", "done"} /\ c.after \in Nat /\ c.got \in Answers
       /\ DOMAIN c.got \in SUBSET Ids /\ \A i \in DOMAIN c.got : c.got[i] \in States
<1>1. \A c \in CallType : c.got \in Answers
  BY DEF CallType
<1> QED
  BY <1>1, AnswersAreFunctions DEF Call, CallType

LEMMA MessagesAreRecords ==
  \A type \in {"alert.new", "alert.update"}, i \in Ids, s \in States :
    /\ Message(type, i, s) \in MessageType
    /\ Message(type, i, s).type = type /\ Message(type, i, s).id = i
    /\ Message(type, i, s).state = s
  BY DEF Message, MessageType

Standings == {"unused", "queued", "undone", "sent", "failed", "ended"}

LEMMA EntriesAreRecords ==
  \A c \in StageType :
    /\ c.st \in Standings /\ c.target \in States \cup {"acked"} /\ c.ids \in SUBSET Ids
    /\ c.prev \in Answers /\ c.timer \in BOOLEAN /\ c.todo \in SUBSET Ids /\ c.done \in Answers
  BY DEF StageType, Standings

LEMMA SetSt ==
  ASSUME NEW c \in StageType, NEW x \in Standings, NEW d, d = [c EXCEPT !.st = x]
  PROVE  /\ d \in StageType /\ d.st = x
         /\ d.target = c.target /\ d.ids = c.ids /\ d.prev = c.prev
         /\ d.timer = c.timer /\ d.todo = c.todo /\ d.done = c.done
  BY DEF StageType, Standings

LEMMA SetTimer ==
  ASSUME NEW c \in StageType, NEW x \in BOOLEAN, NEW d, d = [c EXCEPT !.timer = x]
  PROVE  /\ d \in StageType /\ d.timer = x
         /\ d.st = c.st /\ d.target = c.target /\ d.ids = c.ids
         /\ d.prev = c.prev /\ d.todo = c.todo /\ d.done = c.done
  BY DEF StageType

LEMMA SetTodo ==
  ASSUME NEW c \in StageType, NEW x \in SUBSET Ids, NEW d, d = [c EXCEPT !.todo = x]
  PROVE  /\ d \in StageType /\ d.todo = x
         /\ d.st = c.st /\ d.target = c.target /\ d.ids = c.ids
         /\ d.prev = c.prev /\ d.timer = c.timer /\ d.done = c.done
  BY DEF StageType

LEMMA SetDone ==
  ASSUME NEW c \in StageType, NEW x \in Answers, NEW d, d = [c EXCEPT !.done = x]
  PROVE  /\ d \in StageType /\ d.done = x
         /\ d.st = c.st /\ d.target = c.target /\ d.ids = c.ids
         /\ d.prev = c.prev /\ d.timer = c.timer /\ d.todo = c.todo
  BY DEF StageType

LEMMA FlushedEntry ==
  ASSUME NEW c \in StageType
  PROVE  /\ Flushed(c) \in StageType
         /\ Flushed(c).st = "sent" /\ Flushed(c).target = c.target /\ Flushed(c).ids = c.ids
         /\ Flushed(c).prev = c.prev /\ Flushed(c).timer = FALSE
         /\ Flushed(c).todo = c.todo \cup c.ids /\ Flushed(c).done = c.done
<1> PICK todo : todo = c.todo \cup c.ids
  OBVIOUS
<1>0. "sent" \in Standings /\ FALSE \in BOOLEAN /\ todo \in SUBSET Ids
  BY EntriesAreRecords DEF Standings
<1>1. PICK a : a = [c EXCEPT !.st = "sent"]
  OBVIOUS
<1>2. PICK b : b = [a EXCEPT !.timer = FALSE]
  OBVIOUS
<1>3. PICK d : d = [b EXCEPT !.todo = todo]
  OBVIOUS
<1>4. /\ a \in StageType /\ a.st = "sent" /\ a.target = c.target /\ a.ids = c.ids
      /\ a.prev = c.prev /\ a.timer = c.timer /\ a.todo = c.todo /\ a.done = c.done
  BY <1>0, <1>1, SetSt
<1>5. /\ b \in StageType /\ b.timer = FALSE /\ b.st = a.st /\ b.target = a.target
      /\ b.ids = a.ids /\ b.prev = a.prev /\ b.todo = a.todo /\ b.done = a.done
  BY <1>0, <1>2, <1>4, SetTimer
<1>6. /\ d \in StageType /\ d.todo = todo /\ d.st = b.st /\ d.target = b.target
      /\ d.ids = b.ids /\ d.prev = b.prev /\ d.timer = b.timer /\ d.done = b.done
  BY <1>0, <1>3, <1>5, SetTodo
<1>7. Flushed(c) = d
  BY <1>1, <1>2, <1>3 DEF Flushed
<1> QED
  BY <1>4, <1>5, <1>6, <1>7


LEMMA ClearedEntries ==
  /\ Unstaged \in StageType
  /\ Unstaged.st = "unused" /\ Unstaged.todo = {} /\ Unstaged.ids = {} /\ Unstaged.timer = FALSE
  /\ Unstaged.done = NoRows /\ Unstaged.prev = NoRows
  BY AnswersAreFunctions DEF Unstaged, StageType

LEMMA UndoneEntry ==
  ASSUME NEW c \in StageType
  PROVE  /\ Undone(c) \in StageType
         /\ Undone(c).st = "undone" /\ Undone(c).target = c.target /\ Undone(c).ids = {}
         /\ Undone(c).timer = FALSE /\ Undone(c).todo = {} /\ Undone(c).done = NoRows
<1>1. c.target \in States \cup {"acked"} /\ NoRows \in Answers
  BY EntriesAreRecords, AnswersAreFunctions
<1> QED
  BY <1>1 DEF Undone, Unstaged, StageType

LEMMA EndedEntry ==
  ASSUME NEW d, d = [Unstaged EXCEPT !.st = "ended"]
  PROVE  /\ d \in StageType
         /\ d.st = "ended" /\ d.ids = {} /\ d.timer = FALSE /\ d.todo = {} /\ d.done = NoRows
<1>1. NoRows \in Answers
  BY AnswersAreFunctions
<1> QED
  BY <1>1 DEF Unstaged, StageType

Taken(c, i) == [c EXCEPT !.todo = @ \ {i}]
Moved(c, i, s) == [c EXCEPT !.done = [j \in DOMAIN @ \cup {i} |-> s]]

LEMMA ServedEntry ==
  ASSUME NEW c \in StageType, c.target \in Targets, NEW i \in Ids,
         NEW a, a = Taken(c, i), NEW d, d = Moved(a, i, c.target)
  PROVE  /\ a \in StageType /\ a.todo = c.todo \ {i} /\ a.st = c.st /\ a.target = c.target
         /\ a.ids = c.ids /\ a.prev = c.prev /\ a.timer = c.timer /\ a.done = c.done
         /\ d \in StageType /\ d.todo = c.todo \ {i} /\ d.st = c.st /\ d.target = c.target
         /\ d.ids = c.ids /\ d.prev = c.prev /\ d.timer = c.timer
         /\ DOMAIN d.done = DOMAIN c.done \cup {i} /\ \A j \in DOMAIN d.done : d.done[j] = c.target
<1>1. c.todo \ {i} \in SUBSET Ids
  BY EntriesAreRecords
<1>2. /\ a \in StageType /\ a.todo = c.todo \ {i} /\ a.st = c.st /\ a.target = c.target
      /\ a.ids = c.ids /\ a.prev = c.prev /\ a.timer = c.timer /\ a.done = c.done
  BY <1>1, SetTodo DEF Taken
<1> DEFINE done == [j \in DOMAIN c.done \cup {i} |-> c.target]
<1>3. done \in Answers
  <2>1. DOMAIN c.done \cup {i} \in SUBSET Ids
    BY EntriesAreRecords, AnswersAreFunctions
  <2>2. c.target \in States
    BY DEF States
  <2>3. done \in [DOMAIN c.done \cup {i} -> States]
    BY <2>2
  <2> QED
    BY <2>1, <2>3, AnswersAreFunctions
<1>4. d = [a EXCEPT !.done = done]
  BY <1>2 DEF Moved
<1> HIDE DEF done
<1>5. /\ d \in StageType /\ d.done = done /\ d.st = a.st /\ d.target = a.target
      /\ d.ids = a.ids /\ d.prev = a.prev /\ d.timer = a.timer /\ d.todo = a.todo
  BY <1>2, <1>3, <1>4, SetDone
<1>6. DOMAIN done = DOMAIN c.done \cup {i} /\ \A j \in DOMAIN done : done[j] = c.target
  BY DEF done
<1> QED
  BY <1>2, <1>5, <1>6

(* The messages on a wire, written, and taken from its head.               *)
LEMMA WireMessages ==
  ASSUME NEW w \in Seq(MessageType)
  PROVE  /\ ToSet(w) \subseteq MessageType
         /\ \A m \in MessageType : Append(w, m) \in Seq(MessageType)
                                   /\ ToSet(Append(w, m)) = ToSet(w) \cup {m}
         /\ w # <<>> => /\ Head(w) \in MessageType /\ Head(w) \in ToSet(w) /\ Head(w) = w[1]
                        /\ Tail(w) \in Seq(MessageType) /\ ToSet(Tail(w)) \subseteq ToSet(w)
<1>1. ToSet(w) \subseteq MessageType
  BY DEF ToSet
<1>2. ASSUME NEW m \in MessageType
      PROVE  Append(w, m) \in Seq(MessageType) /\ ToSet(Append(w, m)) = ToSet(w) \cup {m}
  <2>1. Append(w, m) \in Seq(MessageType) /\ Len(Append(w, m)) = Len(w) + 1
    OBVIOUS
  <2>2. \A k \in 1..Len(w) : Append(w, m)[k] = w[k]
    OBVIOUS
  <2>3. Append(w, m)[Len(w) + 1] = m
    OBVIOUS
  <2>4. DOMAIN w = 1..Len(w) /\ DOMAIN Append(w, m) = 1..(Len(w) + 1) /\ Len(w) \in Nat
    BY <2>1
  <2>5. ToSet(Append(w, m)) \subseteq ToSet(w) \cup {m}
    <3>1. ASSUME NEW k \in 1..(Len(w) + 1)
          PROVE  Append(w, m)[k] \in ToSet(w) \cup {m}
      <4>1. CASE k \in 1..Len(w)
        BY <4>1, <2>2, <2>4 DEF ToSet
      <4>2. CASE k = Len(w) + 1
        BY <4>2, <2>3
      <4> QED
        BY <4>1, <4>2, <2>4
    <3> QED
      BY <3>1, <2>4 DEF ToSet
  <2>6. ToSet(w) \subseteq ToSet(Append(w, m))
    <3>1. \A k \in 1..Len(w) : k \in 1..(Len(w) + 1)
      BY <2>4
    <3> QED
      BY <3>1, <2>2, <2>4 DEF ToSet
  <2>7. m \in ToSet(Append(w, m))
    <3>1. Len(w) + 1 \in 1..(Len(w) + 1)
      BY <2>4
    <3> QED
      BY <3>1, <2>3, <2>4 DEF ToSet
  <2> QED
    BY <2>1, <2>5, <2>6, <2>7
<1>3. ASSUME w # <<>>
      PROVE  /\ Head(w) \in MessageType /\ Head(w) \in ToSet(w) /\ Head(w) = w[1]
             /\ Tail(w) \in Seq(MessageType) /\ ToSet(Tail(w)) \subseteq ToSet(w)
  <2>1. /\ Len(w) \in Nat /\ Len(w) >= 1 /\ DOMAIN w = 1..Len(w)
        /\ Head(w) = w[1] /\ Tail(w) \in Seq(MessageType) /\ Len(Tail(w)) = Len(w) - 1
        /\ DOMAIN Tail(w) = 1..(Len(w) - 1)
        /\ \A k \in 1..(Len(w) - 1) : Tail(w)[k] = w[k + 1]
    BY <1>3
  <2>2. \A k \in 1..(Len(w) - 1) : k + 1 \in 1..Len(w)
    BY <2>1
  <2> QED
    BY <1>1, <2>1, <2>2 DEF ToSet
<1> QED
  BY <1>1, <1>2, <1>3


-----------------------------------------------------------------------------
(* Types are kept.                                                         *)

LEMMA FewerChanges ==
  ASSUME HubTypes, MoreHappens
  PROVE  changes + 1 \in 0..MaxEvents
<1> DEFINE used == {t \in Stages : stages[t].st # "unused"}
<1>1. IsFiniteSet(Stages)
  BY ConstantsAreNumbers, FS_Interval DEF Stages
<1>2. Cardinality(used) \in Nat
  BY <1>1, FS_Subset, FS_CardinalityType
<1> HIDE DEF used
<1>3. Events = Len(rows) - Stored + changes + Cardinality(used)
  BY DEF Events, used
<1>4. Len(rows) \in Nat /\ Len(rows) >= Stored /\ changes \in Nat /\ Stored \in Nat
  BY ConstantsAreNumbers DEF HubTypes
<1> QED
  BY <1>2, <1>3, <1>4, ConstantsAreNumbers DEF MoreHappens

LEMMA Broadcasts ==
  ASSUME HubTypes, NEW m \in MessageType, Broadcast(m)
  PROVE  casts' \subseteq casts \cup {m} /\ casts' \subseteq MessageType /\ (~conn => casts' = casts)
         /\ (conn => casts' = casts \cup {m})
  BY DEF HubTypes, Broadcast

(* A row of the table is changed.                                          *)
LEMMA RowChanges ==
  ASSUME HubTypes, NEW i \in Inserted, NEW s \in States, Change(i, s)
  PROVE  /\ rows' \in Seq(States) /\ Len(rows') = Len(rows) /\ Inserted' = Inserted
         /\ rows'[i] = s /\ \A j \in Inserted \ {i} : rows'[j] = rows[j]
         /\ casts' \subseteq casts \cup {Message("alert.update", i, s)}
         /\ casts \subseteq casts' /\ casts' \subseteq MessageType
         /\ had' \in [Ids -> SUBSET States] /\ had'[i] = had[i] \cup {s}
         /\ \A j \in Ids \ {i} : had'[j] = had[j]
<1>1. /\ rows \in Seq(States) /\ Len(rows) \in Nat /\ Len(rows) <= MaxAlerts
      /\ DOMAIN rows = 1..Len(rows) /\ MaxAlerts \in Nat /\ had \in [Ids -> SUBSET States]
  BY ConstantsAreNumbers DEF HubTypes
<1>2. i \in Ids
  BY <1>1 DEF Inserted, Ids
<1>3. rows' = [rows EXCEPT ![i] = s] /\ had' = [had EXCEPT ![i] = @ \cup {s}]
  BY DEF Change
<1>4. /\ rows' \in Seq(States) /\ Len(rows') = Len(rows)
      /\ rows'[i] = s /\ \A j \in Inserted \ {i} : rows'[j] = rows[j]
  BY <1>1, <1>3 DEF Inserted
<1>5. /\ had' \in [Ids -> SUBSET States] /\ had'[i] = had[i] \cup {s}
      /\ \A j \in Ids \ {i} : had'[j] = had[j]
  BY <1>1, <1>2, <1>3
<1>6. Message("alert.update", i, s) \in MessageType
  BY <1>2, MessagesAreRecords
<1>7. /\ casts' \subseteq casts \cup {Message("alert.update", i, s)}
      /\ casts \subseteq casts' /\ casts' \subseteq MessageType
  BY <1>6, Broadcasts DEF Change
<1> QED
  BY <1>4, <1>5, <1>7 DEF Inserted

(* The alert that is fired.                                                *)
LEMMA RowFired ==
  ASSUME HubTypes, Fire
  PROVE  /\ Len(rows) + 1 \in Ids /\ Len(rows') = Len(rows) + 1
         /\ rows' \in Seq(States) /\ Len(rows') \in Stored..MaxAlerts
         /\ rows'[Len(rows) + 1] = "new" /\ \A j \in Inserted : rows'[j] = rows[j]
         /\ Message("alert.new", Len(rows) + 1, "new") \in MessageType
         /\ casts' \subseteq casts \cup {Message("alert.new", Len(rows) + 1, "new")}
         /\ casts' \subseteq MessageType
         /\ ~conn => casts' = casts
         /\ conn => casts' = casts \cup {Message("alert.new", Len(rows) + 1, "new")}
<1>1. /\ rows \in Seq(States) /\ Len(rows) \in Nat /\ Len(rows) < MaxAlerts
      /\ MaxAlerts \in Nat /\ "new" \in States /\ Stored \in Nat /\ Len(rows) >= Stored
      /\ rows' = Append(rows, "new")
  BY ConstantsAreNumbers DEF HubTypes, Fire
<1>2. Len(rows) + 1 \in Ids
  BY <1>1 DEF Ids
<1>3. Message("alert.new", Len(rows) + 1, "new") \in MessageType
  BY <1>1, <1>2, MessagesAreRecords
<1>4. /\ casts' \subseteq casts \cup {Message("alert.new", Len(rows) + 1, "new")}
      /\ casts' \subseteq MessageType
      /\ ~conn => casts' = casts
      /\ conn => casts' = casts \cup {Message("alert.new", Len(rows) + 1, "new")}
  BY <1>3, Broadcasts DEF Fire
<1>5. /\ rows' \in Seq(States) /\ Len(rows') = Len(rows) + 1
      /\ rows'[Len(rows) + 1] = "new" /\ \A j \in Inserted : rows'[j] = rows[j]
  BY <1>1 DEF Inserted
<1>6. Len(rows') \in Stored..MaxAlerts
  BY <1>1, <1>5
<1> QED
  BY <1>2, <1>3, <1>4, <1>5, <1>6


LEMMA HubTypesKept ==
  ASSUME Types, Known, [Next]_vars
  PROVE  HubTypes'
<1> USE DEF Types
<1>0. ASSUME UNCHANGED <<rows, casts, wire, conn, opens, had, changes>>
      PROVE  HubTypes'
  BY <1>0 DEF HubTypes
<1>1. CASE UNCHANGED vars
  BY <1>0, <1>1 DEF vars, feed, calls, history
<1>2. CASE Fire
  BY <1>2, RowFired DEF Fire, HubTypes, history
<1>3. ASSUME NEW i \in Ids, ChangeByOthers(i)
      PROVE  HubTypes'
  <2>1. \E s \in States : Change(i, s)
    <3>1. i \in Inserted /\ rows \in Seq(States) /\ DOMAIN rows = Inserted
      BY <1>3 DEF ChangeByOthers, HubTypes, Inserted
    <3>2. rows[i] \in States
      BY <3>1
    <3>3. OthersTargets \subseteq States
      BY DEF States
    <3> QED
      BY <1>3, <3>2, <3>3 DEF ChangeByOthers
  <2>2. changes' \in 0..MaxEvents
    BY <1>3, FewerChanges DEF ChangeByOthers
  <2>3. i \in Inserted
    BY <1>3 DEF ChangeByOthers
  <2> QED
    BY <1>3, <2>1, <2>2, <2>3, RowChanges DEF ChangeByOthers, HubTypes
<1>4. ASSUME NEW m \in casts, Push(m)
      PROVE  HubTypes'
  <2>1. m \in MessageType /\ casts' \subseteq MessageType /\ wire' \in Seq(MessageType)
    BY <1>4, WireMessages DEF Push, HubTypes
  <2> QED
    BY <1>4, <2>1 DEF Push, HubTypes, history
<1>5. CASE Receive
  <2>1. wire' \in Seq(MessageType)
    BY <1>5, WireMessages DEF Receive, HubTypes
  <2> QED
    BY <1>5, <2>1 DEF Receive, HubTypes
<1>6. CASE ServeLoad \/ LoadArrives \/ LoadFails
  BY <1>0, <1>6 DEF ServeLoad, LoadArrives, LoadFails, feed, history
<1>7. CASE Connect
  BY <1>7, ConstantsAreNumbers DEF Connect, HubTypes
<1>8. CASE Cut
  <2>1. /\ casts' = {} /\ wire' = <<>> /\ conn' = FALSE
        /\ UNCHANGED <<rows, opens, had, changes>>
    BY <1>8 DEF Cut, history
  <2>2. <<>> \in Seq(MessageType)
    OBVIOUS
  <2> QED
    BY <2>1, <2>2 DEF HubTypes
<1>9. ASSUME NEW e \in Opens, ServeCatchUp(e) \/ CatchUpArrives(e) \/ CatchUpFails(e)
      PROVE  HubTypes'
  BY <1>0, <1>9 DEF ServeCatchUp, CatchUpArrives, CatchUpFails, feed
<1>10. ASSUME NEW t \in Stages,
              \/ \E target \in Targets, ids \in SUBSET Ids : Stage(t, target, ids)
              \/ Timer(t) \/ Undo(t) \/ DispositionEnds(t) \/ DispositionFails(t)
       PROVE  HubTypes'
  BY <1>0, <1>10 DEF Stage, Timer, Undo, DispositionEnds, DispositionFails, feed, history
<1>11. ASSUME NEW t \in Stages, ServeDisposition(t)
       PROVE  HubTypes'
  <2> DEFINE i == Min(stages[t].todo)
  <2>1. i \in Inserted
    <3>1. stages[t].todo \in SUBSET Ids /\ stages[t].todo # {} /\ Ids \subseteq Nat
      BY <1>11, EntriesAreRecords, ConstantsAreNumbers DEF StageTypes, ServeDisposition
    <3>2. i \in stages[t].todo
      BY <3>1, MinIsSmallest
    <3> QED
      BY <3>2 DEF Known, KnownStages
  <2>2. stages[t].target \in States
    BY <1>11 DEF ServeDisposition, StageTypes, States
  <2> HIDE DEF i
  <2>3. CASE Change(i, stages[t].target)
    BY <1>11, <2>1, <2>2, <2>3, RowChanges DEF ServeDisposition, HubTypes
  <2>4. CASE UNCHANGED <<rows, casts, had>>
    BY <1>11, <2>4 DEF ServeDisposition, HubTypes
  <2> QED
    BY <1>11, <2>3, <2>4 DEF ServeDisposition, i
<1> QED
  BY <1>1, <1>2, <1>3, <1>4, <1>5, <1>6, <1>7, <1>8, <1>9, <1>10, <1>11 DEF Next


(* The rows of one catch-up: those after an id, without a gap.             *)
LEMMA CatchUpRows ==
  ASSUME HubTypes, NEW after \in Nat
  PROVE  LET got == RowsAfter(after, CatchUpLimit)
         IN  /\ got \in Answers /\ DOMAIN got \subseteq Inserted /\ GapFree(got, after)
             /\ \A i \in DOMAIN got : got[i] = rows[i]
<1> DEFINE more == {i \in Inserted : i > after}
           D == {j \in more : Cardinality({k \in more : k < j}) < CatchUpLimit}
           got == RowsAfter(after, CatchUpLimit)
<1>1. /\ rows \in Seq(States) /\ DOMAIN rows = Inserted /\ Inserted = 1..Len(rows)
      /\ Len(rows) \in Nat /\ Inserted \subseteq Ids /\ CatchUpLimit \in Nat
  BY ConstantsAreNumbers DEF HubTypes, Inserted, Ids
<1>2. got = [i \in D |-> rows[i]]
  BY DEF RowsAfter
<1>3. got \in Answers
  <2>1. D \in SUBSET Ids /\ \A i \in D : rows[i] \in States
    BY <1>1
  <2>2. got \in [D -> States]
    BY <1>2, <2>1
  <2> QED
    BY <2>1, <2>2, AnswersAreFunctions
<1>4. \A j \in D : j > after /\ j \in Inserted
  OBVIOUS
<1>5. ASSUME NEW j \in D, NEW k \in Ids, after < k, k < j
      PROVE  k \in D
  <2>1. k \in more
    BY <1>1, <1>5 DEF Ids
  <2> DEFINE below(l) == {x \in more : x < l}
  <2>2. below(k) \subseteq below(j)
    BY <1>1, <1>5, ConstantsAreNumbers
  <2>3. IsFiniteSet(1..Len(rows))
    BY <1>1, FS_Interval
  <2>4. IsFiniteSet(below(j))
    <3>1. below(j) \in SUBSET (1..Len(rows))
      BY <1>1
    <3> QED
      BY <2>3, <3>1, FS_Subset
  <2>5. Cardinality(below(k)) <= Cardinality(below(j))
    BY <2>2, <2>4, FS_Subset
  <2>6. Cardinality(below(j)) \in Nat /\ Cardinality(below(k)) \in Nat
    BY <2>2, <2>4, FS_Subset, FS_CardinalityType
  <2>7. Cardinality(below(j)) < CatchUpLimit
    OBVIOUS
  <2>8. Cardinality(below(k)) < CatchUpLimit
    <3> HIDE DEF below
    <3> QED
      BY <2>5, <2>6, <2>7, <1>1
  <2> QED
    BY <2>1, <2>8
<1> HIDE DEF D, more
<1>6. DOMAIN got = D /\ \A i \in D : got[i] = rows[i]
  BY <1>2
<1> HIDE DEF got
<1>7. got \in Answers /\ DOMAIN got \subseteq Inserted /\ GapFree(got, after)
      /\ \A i \in DOMAIN got : got[i] = rows[i]
  BY <1>3, <1>4, <1>5, <1>6 DEF GapFree
<1> QED
  BY <1>7 DEF got

(* The rows of the page's list.                                            *)
LEMMA LoadRows ==
  ASSUME HubTypes, NEW got, got = [i \in Inserted |-> rows[i]]
  PROVE  /\ got \in Answers /\ DOMAIN got = Inserted /\ GapFree(got, 0)
         /\ \A i \in DOMAIN got : got[i] = rows[i]
<1>1. /\ rows \in Seq(States) /\ DOMAIN rows = Inserted /\ Inserted = 1..Len(rows)
      /\ Len(rows) \in Nat /\ Inserted \subseteq Ids
  BY ConstantsAreNumbers DEF HubTypes, Inserted, Ids
<1>2. got \in [Inserted -> States]
  BY <1>1
<1>3. got \in Answers
  BY <1>1, <1>2, AnswersAreFunctions
<1>4. DOMAIN got = Inserted /\ GapFree(got, 0)
  BY <1>1, ConstantsAreNumbers DEF GapFree
<1> QED
  BY <1>3, <1>4


LEMMA CallTypesKept ==
  ASSUME Types, [Next]_vars
  PROVE  CallTypes'
<1> USE DEF Types
<1>0. ASSUME UNCHANGED <<load, catchUps, opens>>
      PROVE  CallTypes'
  BY <1>0 DEF CallTypes
<1>a. /\ 0 \in Nat /\ NoRows \in Answers /\ HubTypes /\ CallTypes
      /\ opens \in Nat /\ lastId \in Nat /\ Opens \subseteq Nat
  BY AnswersAreFunctions, ConstantsAreNumbers DEF HubTypes, PageTypes
<1>1. CASE UNCHANGED vars
  BY <1>0, <1>1 DEF vars, feed, calls, history
<1>2. CASE Fire \/ Receive \/ Cut
  BY <1>0, <1>2 DEF Fire, Receive, Cut, calls
<1>3. ASSUME NEW i \in Ids, ChangeByOthers(i)
      PROVE  CallTypes'
  BY <1>0, <1>3 DEF ChangeByOthers, calls
<1>4. ASSUME NEW m \in casts, Push(m)
      PROVE  CallTypes'
  BY <1>0, <1>4 DEF Push, calls
<1>5. CASE ServeLoad
  <2>1. PICK got : got = [i \in Inserted |-> rows[i]]
    OBVIOUS
  <2>2. load' = Call("answered", 0, got) /\ UNCHANGED <<catchUps, opens>>
    BY <1>5, <2>1 DEF ServeLoad, feed
  <2>3. got \in Answers
    BY <1>a, <2>1, LoadRows
  <2>4. load' \in CallType /\ load'.st # "unused"
    BY <1>a, <2>2, <2>3, CallsAreRecords
  <2> QED
    BY <2>2, <2>4 DEF CallTypes
<1>6. CASE LoadArrives \/ LoadFails
  <2>1. load' = Call("done", 0, NoRows) /\ UNCHANGED <<catchUps, opens>>
    BY <1>6 DEF LoadArrives, LoadFails, feed
  <2>2. load' \in CallType /\ load'.st # "unused"
    BY <1>a, <2>1, CallsAreRecords
  <2> QED
    BY <2>1, <2>2 DEF CallTypes
<1>7. CASE Connect
  <2>1. opens + 1 \in Opens /\ opens' = opens + 1 /\ UNCHANGED load
    BY <1>7, <1>a, ConstantsAreNumbers DEF Connect, Opens
  <2>2. CatchUp \in CallType
    BY <1>a, CallsAreRecords DEF CatchUp
  <2>3. catchUps' = [catchUps EXCEPT ![opens + 1] = CatchUp]
    BY <1>7 DEF Connect
  <2>4. \A e \in Opens : e > opens + 1 => e > opens /\ e # opens + 1
    BY <1>a
  <2> QED
    BY <2>1, <2>2, <2>3, <2>4 DEF CallTypes
<1>8. ASSUME NEW e \in Opens, ServeCatchUp(e)
      PROVE  CallTypes'
  <2>1. PICK got : got = RowsAfter(catchUps[e].after, CatchUpLimit)
    OBVIOUS
  <2>2. catchUps[e].after \in Nat
    BY CallsAreRecords DEF CallTypes
  <2>3. got \in Answers
    BY <1>a, <2>1, <2>2, CatchUpRows
  <2>4. PICK c : c = Call("answered", catchUps[e].after, got)
    OBVIOUS
  <2>5. c \in CallType
    BY <2>2, <2>3, <2>4, CallsAreRecords
  <2>6. catchUps' = [catchUps EXCEPT ![e] = c] /\ UNCHANGED <<load, opens>>
    BY <1>8, <2>1, <2>4 DEF ServeCatchUp, feed
  <2>7. ~ (e > opens)
    BY <1>8 DEF ServeCatchUp, CallTypes
  <2> QED
    BY <2>5, <2>6, <2>7 DEF CallTypes
<1>9. ASSUME NEW e \in Opens, CatchUpArrives(e) \/ CatchUpFails(e)
      PROVE  CallTypes'
  <2>1. PICK c : c = Call("done", 0, NoRows)
    OBVIOUS
  <2>2. c \in CallType
    BY <1>a, <2>1, CallsAreRecords
  <2>3. catchUps' = [catchUps EXCEPT ![e] = c] /\ UNCHANGED <<load, opens>>
    BY <1>9, <2>1 DEF CatchUpArrives, CatchUpFails, feed
  <2>4. ~ (e > opens)
    BY <1>9 DEF CatchUpArrives, CatchUpFails, CallTypes
  <2> QED
    BY <2>2, <2>3, <2>4 DEF CallTypes
<1>10. ASSUME NEW t \in Stages,
              \/ \E target \in Targets, ids \in SUBSET Ids : Stage(t, target, ids)
              \/ Timer(t) \/ Undo(t) \/ ServeDisposition(t)
              \/ DispositionEnds(t) \/ DispositionFails(t)
       PROVE  CallTypes'
  BY <1>0, <1>10
    DEF Stage, Timer, Undo, ServeDisposition, DispositionEnds, DispositionFails, feed, calls
<1> QED
  BY <1>1, <1>2, <1>3, <1>4, <1>5, <1>6, <1>7, <1>8, <1>9, <1>10 DEF Next

(* upsertAlert: a list with the rows got, and the bell.                    *)
LEMMA Upserts ==
  ASSUME PageTypes, NEW got \in Answers, Upserted(got)
  PROVE  /\ list' \in [Ids -> States \cup {NotShown}] /\ lastId' \in 0..MaxAlerts
         /\ \A i \in DOMAIN got : list'[i] = got[i]
         /\ \A i \in Ids \ DOMAIN got : list'[i] = list[i] /\ rang'[i] = rang[i]
         /\ Shown' = Shown \cup DOMAIN got
         /\ rang' \in [Ids -> Nat] /\ forfeited' = forfeited \ DOMAIN got
         /\ \A i \in DOMAIN got : rang'[i] = IF i \in Shown THEN rang[i] ELSE rang[i] + 1
         /\ lastId' \in {lastId} \cup (DOMAIN got \ Shown) /\ lastId <= lastId'
         /\ \A i \in DOMAIN got \ Shown : i <= lastId'
<1>1. /\ DOMAIN got \in SUBSET Ids /\ \A i \in DOMAIN got : got[i] \in States
      /\ list \in [Ids -> States \cup {NotShown}] /\ rang \in [Ids -> Nat]
      /\ NotShown \notin States
  BY AnswersAreFunctions, ConstantsAreNumbers DEF PageTypes
<1>2. list' = [i \in Ids |-> IF i \in DOMAIN got THEN got[i] ELSE list[i]]
  BY DEF Upserted
<1>3. rang' = [i \in Ids |-> IF i \in DOMAIN got \ Shown THEN rang[i] + 1 ELSE rang[i]]
  BY DEF Upserted
<1>4. /\ list' \in [Ids -> States \cup {NotShown}]
      /\ \A i \in DOMAIN got : list'[i] = got[i]
      /\ \A i \in Ids \ DOMAIN got : list'[i] = list[i]
  BY <1>1, <1>2
<1>5. /\ rang' \in [Ids -> Nat]
      /\ \A i \in Ids \ DOMAIN got : rang'[i] = rang[i]
      /\ \A i \in DOMAIN got : rang'[i] = IF i \in Shown THEN rang[i] ELSE rang[i] + 1
  BY <1>1, <1>3
<1>6. Shown' = Shown \cup DOMAIN got
  BY <1>1, <1>4 DEF Shown
<1> DEFINE ids == {lastId} \cup (DOMAIN got \ Shown)
<1>7. ids \in SUBSET (0..MaxAlerts) /\ ids # {}
  BY <1>1, ConstantsAreNumbers DEF PageTypes, Ids
<1>8. lastId' = Max(ids)
  BY DEF Upserted
<1>9. lastId' \in ids /\ \A x \in ids : x <= lastId'
  BY <1>7, <1>8, MaxIsLargest, ConstantsAreNumbers
<1> QED
  BY <1>4, <1>5, <1>6, <1>7, <1>9 DEF Upserted


(* setAlerts: the list is the answer.                                      *)
LEMMA Loads ==
  ASSUME Types, LoadArrives
  PROVE  /\ list' \in [Ids -> States \cup {NotShown}] /\ lastId' \in 0..MaxAlerts
         /\ Shown' = DOMAIN load.got /\ \A i \in DOMAIN load.got : list'[i] = load.got[i]
         /\ lastId' \in {0} \cup DOMAIN load.got /\ \A i \in DOMAIN load.got : i <= lastId'
         /\ dropped' = dropped \cup (Shown \ DOMAIN load.got) /\ rang' = rang
         /\ forfeited' = (forfeited \cup Shown) \ DOMAIN load.got
<1>1. /\ DOMAIN load.got \in SUBSET Ids /\ \A i \in DOMAIN load.got : load.got[i] \in States
      /\ NotShown \notin States
  BY CallsAreRecords, ConstantsAreNumbers DEF Types, CallTypes
<1>2. /\ list' = [i \in Ids |-> IF i \in DOMAIN load.got THEN load.got[i] ELSE NotShown]
      /\ lastId' = Max({0} \cup DOMAIN load.got)
      /\ dropped' = dropped \cup (Shown \ DOMAIN load.got) /\ rang' = rang
      /\ forfeited' = (forfeited \cup Shown) \ DOMAIN load.got
  BY DEF LoadArrives
<1>3. /\ list' \in [Ids -> States \cup {NotShown}]
      /\ Shown' = DOMAIN load.got /\ \A i \in DOMAIN load.got : list'[i] = load.got[i]
  BY <1>1, <1>2 DEF Shown
<1> DEFINE ids == {0} \cup DOMAIN load.got
<1>4. ids \in SUBSET (0..MaxAlerts) /\ ids # {}
  BY <1>1, ConstantsAreNumbers DEF Ids
<1>5. lastId' \in ids /\ \A x \in ids : x <= lastId'
  BY <1>2, <1>4, MaxIsLargest, ConstantsAreNumbers
<1> QED
  BY <1>2, <1>3, <1>4, <1>5

(* The list keeps the rows it shows, whatever dispositions do to it.       *)
LEMMA ListKept ==
  ASSUME PageTypes, NEW got \in Answers,
         list' = [i \in Ids |-> IF i \in DOMAIN got /\ i \in Shown THEN got[i] ELSE list[i]]
  PROVE  /\ list' \in [Ids -> States \cup {NotShown}] /\ Shown' = Shown
         /\ \A i \in DOMAIN got \cap Shown : list'[i] = got[i]
         /\ \A i \in Ids \ DOMAIN got : list'[i] = list[i]
<1>1. /\ DOMAIN got \in SUBSET Ids /\ \A i \in DOMAIN got : got[i] \in States
      /\ list \in [Ids -> States \cup {NotShown}] /\ NotShown \notin States
  BY AnswersAreFunctions, ConstantsAreNumbers DEF PageTypes
<1>2. /\ list' \in [Ids -> States \cup {NotShown}]
      /\ \A i \in DOMAIN got \cap Shown : list'[i] = got[i]
      /\ \A i \in Ids \ DOMAIN got : list'[i] = list[i]
      /\ \A i \in Ids \ Shown : list'[i] = list[i]
  BY <1>1
<1>3. Shown' = Shown
  BY <1>1, <1>2 DEF Shown
<1> QED
  BY <1>2, <1>3

LEMMA Restores ==
  ASSUME PageTypes, NEW prev \in Answers, Restored(prev)
  PROVE  /\ list' \in [Ids -> States \cup {NotShown}] /\ Shown' = Shown
         /\ \A i \in DOMAIN prev \cap Shown : list'[i] = prev[i]
         /\ \A i \in Ids \ DOMAIN prev : list'[i] = list[i]
  BY ListKept DEF Restored

(* The entry of one disposition changes.                                   *)
OnlyEntry(t, d) ==
  /\ stages' \in [Stages -> StageType] /\ stages'[t] = d
  /\ \A u \in Stages \ {t} : stages'[u] = stages[u]

LEMMA TimerEntries ==
  ASSUME StageTypes, NEW t \in Stages, Timer(t)
  PROVE  OnlyEntry(t, Flushed(stages[t])) /\ t \in Queued
<1>1. stages' = [stages EXCEPT ![t] = Flushed(stages[t])] /\ stages[t].timer
  BY DEF Timer
<1>2. Flushed(stages[t]) \in StageType
  BY FlushedEntry DEF StageTypes
<1> QED
  BY <1>1, <1>2 DEF OnlyEntry, StageTypes

LEMMA UndoEntries ==
  ASSUME StageTypes, NEW t \in Stages, Undo(t)
  PROVE  OnlyEntry(t, Undone(stages[t])) /\ t \in Queued
<1>1. stages' = [stages EXCEPT ![t] = Undone(stages[t])] /\ t \in Queued
  BY DEF Undo
<1>2. Undone(stages[t]) \in StageType
  BY UndoneEntry DEF StageTypes
<1> QED
  BY <1>1, <1>2 DEF OnlyEntry, StageTypes

LEMMA EndEntries ==
  ASSUME StageTypes, NEW t \in Stages, DispositionEnds(t)
  PROVE  OnlyEntry(t, [Unstaged EXCEPT !.st = "ended"])
<1>1. PICK d : d = [Unstaged EXCEPT !.st = "ended"]
  OBVIOUS
<1>2. d \in StageType
  BY <1>1, EndedEntry
<1>3. stages' = [stages EXCEPT ![t] = d]
  BY <1>1 DEF DispositionEnds
<1>4. OnlyEntry(t, d)
  BY <1>2, <1>3 DEF OnlyEntry, StageTypes
<1> QED
  BY <1>1, <1>4

LEMMA FailEntries ==
  ASSUME StageTypes, NEW t \in Stages, DispositionFails(t)
  PROVE  \E d \in StageType :
           /\ OnlyEntry(t, d) /\ d.st = "failed" /\ d.target = stages[t].target /\ d.ids = {}
           /\ d.timer = FALSE /\ d.todo \subseteq stages[t].todo /\ d.done = NoRows
<1>1. PICK todo \in {{}, stages[t].todo} :
        stages' = [stages EXCEPT ![t] = [Unstaged EXCEPT !.st = "failed", !.target = stages[t].target,
                                                         !.todo = todo]]
  BY DEF DispositionFails
<1>2. PICK d : d = [Unstaged EXCEPT !.st = "failed", !.target = stages[t].target, !.todo = todo]
  OBVIOUS
<1>3. stages[t].target \in States \cup {"acked"} /\ todo \in SUBSET Ids /\ NoRows \in Answers
  BY EntriesAreRecords, AnswersAreFunctions DEF StageTypes
<1>4. /\ d \in StageType
      /\ d.st = "failed" /\ d.target = stages[t].target /\ d.ids = {} /\ d.timer = FALSE
      /\ d.todo = todo /\ d.done = NoRows
  BY <1>2, <1>3 DEF Unstaged, StageType
<1>5. stages' = [stages EXCEPT ![t] = d]
  BY <1>1, <1>2
<1>6. OnlyEntry(t, d)
  BY <1>4, <1>5 DEF OnlyEntry, StageTypes
<1> QED
  BY <1>4, <1>6


Staged(t, x, ids) ==
  /\ stages' \in [Stages -> StageType] /\ t \notin Queued
  /\ stages'[t].st = "queued" /\ stages'[t].target = x /\ stages'[t].ids = ids
  /\ stages'[t].timer = TRUE /\ stages'[t].todo = {} /\ stages'[t].done = NoRows
  /\ DOMAIN stages'[t].prev = ids /\ \A i \in ids : stages'[t].prev[i] = list[i]
  /\ \A u \in Queued : stages'[u] = Flushed(stages[u])
  /\ \A u \in Stages \ (Queued \cup {t}) : stages'[u] = stages[u]

LEMMA StageEntries ==
  ASSUME StageTypes, PageTypes, NEW t \in Stages, NEW x \in Targets, NEW ids \in SUBSET Ids,
         Stage(t, x, ids)
  PROVE  Staged(t, x, ids)
<1>1. PICK prev : prev = [i \in ids |-> list[i]]
  OBVIOUS
<1>2. prev \in Answers
  <2>1. \A i \in ids : list[i] \in States
    BY ConstantsAreNumbers DEF Stage, Shown, PageTypes
  <2>2. prev \in [ids -> States]
    BY <1>1, <2>1
  <2> QED
    BY <2>2, AnswersAreFunctions
<1>3. PICK d : d = [Unstaged EXCEPT !.st = "queued", !.target = x, !.ids = ids,
                                    !.prev = prev, !.timer = TRUE]
  OBVIOUS
<1>4. /\ d \in StageType
      /\ d.st = "queued" /\ d.target = x /\ d.ids = ids /\ d.prev = prev
      /\ d.timer = TRUE /\ d.todo = {} /\ d.done = NoRows
  <2>1. x \in States \cup {"acked"} /\ NoRows \in Answers
    BY AnswersAreFunctions DEF States
  <2> QED
    BY <1>2, <1>3, <2>1 DEF Unstaged, StageType
<1>5. stages' = [u \in Stages |-> IF u = t THEN d
                                  ELSE IF u \in Queued THEN Flushed(stages[u]) ELSE stages[u]]
  BY <1>1, <1>3 DEF Stage, Superseded
<1>6. \A u \in Stages : stages[u] \in StageType /\ Flushed(stages[u]) \in StageType
  BY FlushedEntry DEF StageTypes
<1>7. t \notin Queued
  BY DEF Stage, Queued
<1>8. stages' \in [Stages -> StageType]
  BY <1>4, <1>5, <1>6
<1>9. Queued \subseteq Stages
  BY DEF Queued
<1>10. stages'[t] = d
  BY <1>5
<1>11. \A u \in Queued : stages'[u] = Flushed(stages[u])
  BY <1>5, <1>7, <1>9
<1>12. \A u \in Stages \ (Queued \cup {t}) : stages'[u] = stages[u]
  BY <1>5
<1>13. DOMAIN prev = ids /\ \A i \in ids : prev[i] = list[i]
  BY <1>1
<1> QED
  BY <1>4, <1>7, <1>8, <1>10, <1>11, <1>12, <1>13 DEF Staged

(* One id of a request is taken: it is legal and the row changes, or the   *)
(* row is there already.                                                   *)
LEMMA ServeEntries ==
  ASSUME StageTypes, NEW t \in Stages, ServeDisposition(t)
  PROVE  \E i \in stages[t].todo : \E d \in StageType :
           /\ OnlyEntry(t, d) /\ d.todo = stages[t].todo \ {i} /\ d.st = stages[t].st
           /\ d.target = stages[t].target /\ d.ids = stages[t].ids /\ d.prev = stages[t].prev
           /\ d.timer = stages[t].timer
           /\ \/ /\ Change(i, stages[t].target)
                 /\ DOMAIN d.done = DOMAIN stages[t].done \cup {i}
                 /\ \A j \in DOMAIN d.done : d.done[j] = stages[t].target
              \/ /\ rows[i] = stages[t].target /\ UNCHANGED <<rows, casts, had>>
                 /\ d.done = stages[t].done
<1>1. PICK c \in StageType : c = stages[t]
  BY DEF StageTypes
<1>2. /\ c.todo \in SUBSET Ids /\ c.todo # {} /\ Ids \subseteq Nat /\ c.target \in Targets
      /\ stages \in [Stages -> StageType]
  BY <1>1, EntriesAreRecords, ConstantsAreNumbers DEF StageTypes, ServeDisposition
<1>3. PICK i \in c.todo : i = Min(c.todo)
  BY <1>2, MinIsSmallest
<1>4. i \in Ids
  BY <1>2
<1>5. PICK a : a = Taken(c, i)
  OBVIOUS
<1>6. PICK d : d = Moved(a, i, c.target)
  OBVIOUS
<1>10. /\ a \in StageType /\ a.todo = c.todo \ {i} /\ a.st = c.st /\ a.target = c.target
       /\ a.ids = c.ids /\ a.prev = c.prev /\ a.timer = c.timer /\ a.done = c.done
  BY <1>2, <1>4, <1>5, <1>6, ServedEntry
<1>11. /\ d \in StageType /\ d.todo = c.todo \ {i} /\ d.st = c.st /\ d.target = c.target
       /\ d.ids = c.ids /\ d.prev = c.prev /\ d.timer = c.timer
  BY <1>2, <1>4, <1>5, <1>6, ServedEntry
<1>12. DOMAIN d.done = DOMAIN c.done \cup {i}
  BY <1>2, <1>4, <1>5, <1>6, ServedEntry
<1>14. d.done = [j \in DOMAIN a.done \cup {i} |-> c.target]
  BY <1>6, <1>10 DEF Moved, StageType
<1>13. ASSUME NEW j \in DOMAIN d.done
       PROVE  d.done[j] = c.target
  BY <1>10, <1>12, <1>14
<1>7. /\ a \in StageType /\ a.todo = c.todo \ {i} /\ a.st = c.st /\ a.target = c.target
      /\ a.ids = c.ids /\ a.prev = c.prev /\ a.timer = c.timer /\ a.done = c.done
      /\ d \in StageType /\ d.todo = c.todo \ {i} /\ d.st = c.st /\ d.target = c.target
      /\ d.ids = c.ids /\ d.prev = c.prev /\ d.timer = c.timer
      /\ DOMAIN d.done = DOMAIN c.done \cup {i} /\ \A j \in DOMAIN d.done : d.done[j] = c.target
  BY <1>10, <1>11, <1>12, <1>13
<1>8. CASE Legal(i, c.target)
  <2>1. Change(i, c.target)
    BY <1>1, <1>3, <1>8 DEF ServeDisposition
  <2>2. stages' = [stages EXCEPT ![t].todo = @ \ {i},
                                 ![t].done = [j \in DOMAIN @ \cup {i} |-> c.target]]
    BY <1>1, <1>3, <1>8 DEF ServeDisposition
  <2>3. PICK s1 : s1 = [stages EXCEPT ![t].todo = @ \ {i}]
    OBVIOUS
  <2>4. s1 = [stages EXCEPT ![t] = a]
    BY <1>1, <1>2, <1>5, <2>3 DEF Taken
  <2>5. s1 \in [Stages -> StageType] /\ s1[t] = a /\ \A u \in Stages \ {t} : s1[u] = stages[u]
    BY <1>2, <1>7, <2>4
  <2>6. stages' = [s1 EXCEPT ![t].done = [j \in DOMAIN @ \cup {i} |-> c.target]]
    BY <2>2, <2>3
  <2>7. stages' = [s1 EXCEPT ![t] = d]
    BY <1>6, <2>5, <2>6 DEF Moved
  <2>8. OnlyEntry(t, d)
    BY <1>7, <2>5, <2>7 DEF OnlyEntry
  <2> QED
    BY <1>1, <1>7, <2>1, <2>8
<1>9. CASE ~Legal(i, c.target)
  <2>1. UNCHANGED <<rows, casts, had>> /\ stages' = [stages EXCEPT ![t].todo = @ \ {i}]
    BY <1>1, <1>3, <1>9 DEF ServeDisposition
  <2>2. stages' = [stages EXCEPT ![t] = a]
    BY <1>1, <1>2, <1>5, <2>1 DEF Taken
  <2>3. OnlyEntry(t, a)
    BY <1>2, <1>7, <2>2 DEF OnlyEntry
  <2>4. rows[i] = c.target
    BY <1>9 DEF Legal
  <2> QED
    BY <1>1, <1>7, <2>1, <2>3, <2>4
<1> QED
  BY <1>8, <1>9


LEMMA PageTypesKept ==
  ASSUME Types, [Next]_vars
  PROVE  PageTypes'
<1> USE DEF Types
<1>0. ASSUME UNCHANGED <<list, lastId, rang, dropped>>,
             \/ UNCHANGED forfeited
             \/ \E ids : ids \cap Ids = ids /\ forfeited' = forfeited \cup (ids \ Shown)
      PROVE  PageTypes'
  BY <1>0 DEF PageTypes
<1>a. Inserted \subseteq Ids
  BY ConstantsAreNumbers DEF HubTypes, Inserted, Ids
<1>b. DOMAIN load.got \subseteq Ids /\ \A e \in Opens : DOMAIN catchUps[e].got \subseteq Ids
  BY CallsAreRecords DEF CallTypes
<1>c. \A ids : ids \subseteq Ids => ids \cap Ids = ids
  OBVIOUS
<1>1. CASE UNCHANGED vars
  BY <1>0, <1>1 DEF vars, history
<1>2. CASE Fire \/ ServeLoad \/ Cut
  BY <1>0, <1>2 DEF Fire, ServeLoad, Cut, history
<1>3. ASSUME NEW i \in Ids, ChangeByOthers(i)
      PROVE  PageTypes'
  BY <1>0, <1>3 DEF ChangeByOthers
<1>4. ASSUME NEW m \in casts, Push(m)
      PROVE  PageTypes'
  BY <1>0, <1>4 DEF Push, history
<1>5. CASE Receive
  <2>1. PICK m : m = Head(wire)
    OBVIOUS
  <2>2. m \in MessageType
    BY <1>5, <2>1, WireMessages DEF Receive, HubTypes
  <2>3. PICK got : got = [i \in {m.id} |-> m.state]
    OBVIOUS
  <2>4. got \in Answers
    <3>1. m.id \in Ids /\ m.state \in States
      BY <2>2 DEF MessageType
    <3>2. got \in [{m.id} -> States] /\ {m.id} \in SUBSET Ids
      BY <2>3, <3>1
    <3> QED
      BY <3>2, AnswersAreFunctions
  <2>5. CASE Upserted(got)
    BY <1>5, <2>4, <2>5, Upserts DEF Receive, PageTypes
  <2>6. CASE UNCHANGED <<list, lastId, rang, forfeited>>
    BY <1>5, <2>6 DEF Receive, PageTypes
  <2> QED
    BY <1>5, <2>1, <2>3, <2>5, <2>6 DEF Receive
<1>6. CASE LoadArrives
  <2>1. Shown \subseteq Ids
    BY DEF Shown
  <2> QED
    BY <1>6, <2>1, Loads DEF PageTypes
<1>7. CASE LoadFails
  BY <1>0, <1>7, <1>a, <1>b, <1>c DEF LoadFails, Forfeits
<1>8. CASE Connect
  BY <1>0, <1>8, <1>a, <1>c DEF Connect, Forfeits
<1>9. ASSUME NEW e \in Opens, ServeCatchUp(e)
      PROVE  PageTypes'
  <2>1. PICK ids \in SUBSET Ids : Forfeits(ids)
    BY <1>9, <1>a DEF ServeCatchUp
  <2> QED
    BY <1>0, <1>9, <1>c, <2>1 DEF ServeCatchUp, Forfeits
<1>10. ASSUME NEW e \in Opens, CatchUpArrives(e)
       PROVE  PageTypes'
  <2>1. PICK got \in Answers : got = catchUps[e].got
    BY CallsAreRecords DEF CallTypes
  <2> QED
    BY <1>10, <2>1, Upserts DEF CatchUpArrives, PageTypes
<1>11. ASSUME NEW e \in Opens, CatchUpFails(e)
       PROVE  PageTypes'
  <2>1. PICK ids \in SUBSET Ids : Forfeits(ids)
    BY <1>11, <1>a, <1>b DEF CatchUpFails
  <2> QED
    BY <1>0, <1>11, <1>c, <2>1 DEF CatchUpFails, Forfeits
<1>12. ASSUME NEW t \in Stages, Timer(t) \/ ServeDisposition(t)
       PROVE  PageTypes'
  BY <1>0, <1>12 DEF Timer, ServeDisposition, history
<1>13. ASSUME NEW t \in Stages, NEW target \in Targets, NEW ids \in SUBSET Ids,
              Stage(t, target, ids)
       PROVE  PageTypes'
  <2>1. list' = [i \in Ids |-> IF i \in ids THEN target ELSE list[i]]
        /\ UNCHANGED <<lastId, rang, dropped, forfeited>>
    BY <1>13 DEF Stage, history
  <2>2. target \in States
    BY DEF States
  <2> QED
    BY <2>1, <2>2 DEF PageTypes
<1>14. ASSUME NEW t \in Stages, Undo(t) \/ DispositionFails(t)
       PROVE  PageTypes'
  <2>1. PICK prev \in Answers : prev = stages[t].prev
    BY EntriesAreRecords DEF StageTypes
  <2>2. Restored(prev) /\ UNCHANGED <<lastId, rang, dropped, forfeited>>
    BY <1>14, <2>1 DEF Undo, DispositionFails, history
  <2> QED
    BY <2>2, Restores DEF PageTypes
<1>15. ASSUME NEW t \in Stages, DispositionEnds(t)
       PROVE  PageTypes'
  <2>1. PICK got \in Answers :
          list' = [i \in Ids |-> IF i \in DOMAIN got /\ i \in Shown THEN got[i] ELSE list[i]]
    BY <1>15, EntriesAreRecords, AnswersAreFunctions DEF DispositionEnds, StageTypes
  <2>2. UNCHANGED <<lastId, rang, dropped, forfeited>>
    BY <1>15 DEF DispositionEnds, history
  <2> QED
    BY <2>1, <2>2, ListKept DEF PageTypes
<1> QED
  BY <1>1, <1>2, <1>3, <1>4, <1>5, <1>6, <1>7, <1>8, <1>9, <1>10, <1>11, <1>12, <1>13, <1>14, <1>15
     DEF Next

LEMMA StageTypesKept ==
  ASSUME Types, [Next]_vars
  PROVE  StageTypes'
<1> USE DEF Types
<1>0. CASE UNCHANGED stages
  BY <1>0 DEF StageTypes, Queued
<1>a. \A t \in Stages : stages[t] \in StageType
  BY DEF StageTypes
<1>1. CASE \/ UNCHANGED vars \/ Fire \/ \E i \in Ids : ChangeByOthers(i)
           \/ \E m \in casts : Push(m)
           \/ Receive \/ ServeLoad \/ LoadArrives \/ LoadFails \/ Connect \/ Cut
           \/ \E e \in Opens : ServeCatchUp(e) \/ CatchUpArrives(e) \/ CatchUpFails(e)
  BY <1>0, <1>1 DEF vars, Fire, ChangeByOthers, Push, Receive, ServeLoad, LoadArrives, LoadFails,
                    Connect, Cut, ServeCatchUp, CatchUpArrives, CatchUpFails
<1>2. ASSUME NEW t \in Stages, NEW d, OnlyEntry(t, d), d.st # "queued", d.timer = FALSE,
             d.todo # {} => d.st \in {"sent", "failed"},
             d.st \in {"sent", "failed"} => d.target \in Targets
      PROVE  StageTypes'
  BY <1>2 DEF StageTypes, OnlyEntry, Queued
<1>3. ASSUME NEW t \in Stages, Timer(t)
      PROVE  StageTypes'
  <2>1. PICK d : d = Flushed(stages[t])
    OBVIOUS
  <2>2. OnlyEntry(t, d) /\ d.st = "sent" /\ d.timer = FALSE /\ d.target \in Targets
    BY <1>a, <1>3, <2>1, FlushedEntry, TimerEntries DEF StageTypes, Queued
  <2> QED
    BY <1>2, <2>2
<1>4. ASSUME NEW t \in Stages, Undo(t)
      PROVE  StageTypes'
  <2>1. PICK d : d = Undone(stages[t])
    OBVIOUS
  <2>2. OnlyEntry(t, d) /\ d.st = "undone" /\ d.timer = FALSE /\ d.todo = {}
    BY <1>a, <1>4, <2>1, UndoneEntry, UndoEntries
  <2> QED
    BY <1>2, <2>2
<1>5. ASSUME NEW t \in Stages, DispositionEnds(t)
      PROVE  StageTypes'
  <2>1. PICK d : d = [Unstaged EXCEPT !.st = "ended"]
    OBVIOUS
  <2>2. OnlyEntry(t, d) /\ d.st = "ended" /\ d.timer = FALSE /\ d.todo = {}
    BY <1>5, <2>1, EndedEntry, EndEntries
  <2> QED
    BY <1>2, <2>2
<1>6. ASSUME NEW t \in Stages, DispositionFails(t)
      PROVE  StageTypes'
  <2>1. PICK d : OnlyEntry(t, d) /\ d.st = "failed" /\ d.timer = FALSE
                 /\ d.target = stages[t].target
    BY <1>6, FailEntries
  <2>2. d.target \in Targets
    BY <1>6, <2>1 DEF DispositionFails, StageTypes
  <2> QED
    BY <1>2, <2>1, <2>2
<1>7. ASSUME NEW t \in Stages, ServeDisposition(t)
      PROVE  StageTypes'
  <2>1. PICK i \in stages[t].todo, d \in StageType :
          OnlyEntry(t, d) /\ d.todo = stages[t].todo \ {i} /\ d.st = stages[t].st
          /\ d.target = stages[t].target /\ d.timer = stages[t].timer
    BY <1>7, ServeEntries
  <2>2. stages[t].st \in {"sent", "failed"} /\ stages[t].timer = FALSE
        /\ stages[t].target \in Targets
    BY <1>a, <2>1, EntriesAreRecords DEF StageTypes, Queued
  <2> QED
    BY <1>2, <2>1, <2>2
<1>8. ASSUME NEW t \in Stages, NEW x \in Targets, NEW ids \in SUBSET Ids,
             Stage(t, x, ids)
      PROVE  StageTypes'
  <2>9. Staged(t, x, ids)
    BY <1>8, StageEntries
  <2>1. /\ stages' \in [Stages -> StageType]
        /\ stages'[t].st = "queued" /\ stages'[t].target \in Targets
        /\ stages'[t].timer = TRUE /\ stages'[t].todo = {}
    BY <2>9 DEF Staged
  <2>2. /\ \A u \in Queued : stages'[u] = Flushed(stages[u])
        /\ \A u \in Stages \ (Queued \cup {t}) : stages'[u] = stages[u]
    BY <2>9 DEF Staged
  <2>3. ASSUME NEW u \in Queued
        PROVE  /\ u \in Stages /\ stages'[u].st = "sent" /\ stages'[u].timer = FALSE
               /\ stages'[u].target \in Targets
    <3>1. u \in Stages /\ stages[u].st = "queued"
      BY DEF Queued
    <3>2. stages[u] \in StageType /\ stages[u].target \in Targets
      BY <3>1 DEF StageTypes
    <3> QED
      BY <2>2, <3>1, <3>2, FlushedEntry
  <2>4. \A u \in Stages \ (Queued \cup {t}) :
          /\ stages'[u].st # "queued" /\ ~ stages'[u].timer
          /\ stages'[u].todo # {} => stages'[u].st \in {"sent", "failed"}
          /\ stages'[u].st \in {"queued", "sent", "failed"} => stages'[u].target \in Targets
    BY <2>2 DEF StageTypes, Queued
  <2>5. \A u \in Stages : u = t \/ u \in Queued \/ u \in Stages \ (Queued \cup {t})
    OBVIOUS
  <2>6. \A u \in Stages : stages'[u].st = "queued" <=> u = t
    BY <2>1, <2>3, <2>4, <2>5
  <2>7. \A u \in Stages : stages'[u].timer <=> u = t
    BY <2>1, <2>3, <2>4, <2>5
  <2>8. \A u \in Stages :
          /\ stages'[u].todo # {} => stages'[u].st \in {"sent", "failed"}
          /\ stages'[u].st \in {"queued", "sent", "failed"} => stages'[u].target \in Targets
    BY <2>1, <2>3, <2>4, <2>5
  <2> QED
    BY <2>1, <2>6, <2>7, <2>8 DEF StageTypes, Queued
<1> QED
  BY <1>1, <1>3, <1>4, <1>5, <1>6, <1>7, <1>8 DEF Next


LEMMA TypesKept ==
  ASSUME Types, Known, [Next]_vars
  PROVE  Types'
  BY HubTypesKept, PageTypesKept, CallTypesKept, StageTypesKept DEF Types

-----------------------------------------------------------------------------
(* What the hub has fired, and what its rows have been, is never less.     *)

LEMMA ServedKnown ==
  ASSUME Types, Known, NEW t \in Stages, ServeDisposition(t)
  PROVE  \E i \in stages[t].todo : \E d \in StageType :
           /\ OnlyEntry(t, d) /\ d.todo = stages[t].todo \ {i} /\ d.st = stages[t].st
           /\ d.target = stages[t].target /\ d.ids = stages[t].ids /\ d.prev = stages[t].prev
           /\ i \in Inserted /\ stages[t].target \in States
           /\ \/ /\ Change(i, stages[t].target)
                 /\ DOMAIN d.done = DOMAIN stages[t].done \cup {i}
                 /\ \A j \in DOMAIN d.done : d.done[j] = stages[t].target
              \/ /\ rows[i] = stages[t].target /\ UNCHANGED <<rows, casts, had>>
                 /\ d.done = stages[t].done
<1>1. PICK i \in stages[t].todo, d \in StageType :
           /\ OnlyEntry(t, d) /\ d.todo = stages[t].todo \ {i} /\ d.st = stages[t].st
           /\ d.target = stages[t].target /\ d.ids = stages[t].ids /\ d.prev = stages[t].prev
           /\ d.timer = stages[t].timer
           /\ \/ /\ Change(i, stages[t].target)
                 /\ DOMAIN d.done = DOMAIN stages[t].done \cup {i}
                 /\ \A j \in DOMAIN d.done : d.done[j] = stages[t].target
              \/ /\ rows[i] = stages[t].target /\ UNCHANGED <<rows, casts, had>>
                 /\ d.done = stages[t].done
  BY ServeEntries DEF Types
<1>2. i \in Inserted
  BY DEF Known, KnownStages
<1>3. stages[t].target \in Targets
  BY DEF Types, StageTypes
<1>4. stages[t].target \in States
  BY <1>3 DEF States
<1> QED
  BY <1>1, <1>2, <1>4

(* A row is changed by another operator or by a snapshot.                  *)
LEMMA OthersChange ==
  ASSUME Types, NEW i \in Ids, ChangeByOthers(i)
  PROVE  i \in Inserted /\ \E s \in States : Change(i, s)
<1>1. i \in Inserted /\ rows \in Seq(States) /\ DOMAIN rows = Inserted
  BY DEF ChangeByOthers, Types, HubTypes, Inserted
<1>2. rows[i] \in States /\ OthersTargets \subseteq States
  BY <1>1 DEF States
<1> QED
  BY <1>1, <1>2 DEF ChangeByOthers

LEMMA HubGrows ==
  ASSUME Types, Known, [Next]_vars
  PROVE  /\ Len(rows) \in Nat /\ Len(rows') \in Nat /\ Len(rows) <= Len(rows')
         /\ Inserted \subseteq Inserted' /\ Inserted \subseteq Ids
         /\ \A i \in Ids : had[i] \subseteq had'[i]
<1>0. Len(rows) \in Nat /\ Len(rows) <= MaxAlerts /\ MaxAlerts \in Nat
      /\ had \in [Ids -> SUBSET States]
  BY ConstantsAreNumbers DEF Types, HubTypes
<1>1. Len(rows') \in Nat /\ Len(rows) <= Len(rows') /\ \A i \in Ids : had[i] \subseteq had'[i]
  <2>1. CASE UNCHANGED <<rows, had>>
    BY <1>0, <2>1
  <2>2. ASSUME NEW i \in Inserted, NEW s \in States, Change(i, s)
        PROVE  Len(rows') = Len(rows) /\ \A j \in Ids : had[j] \subseteq had'[j]
    BY <2>2, RowChanges DEF Types
  <2>3. CASE Fire
    BY <1>0, <2>3, RowFired DEF Types, Fire, history
  <2>4. CASE \/ UNCHANGED vars \/ \E m \in casts : Push(m)
             \/ Receive \/ ServeLoad \/ LoadArrives \/ LoadFails \/ Connect \/ Cut
             \/ \E e \in Opens : ServeCatchUp(e) \/ CatchUpArrives(e) \/ CatchUpFails(e)
             \/ \E t \in Stages :
                  \/ \E target \in Targets, ids \in SUBSET Ids : Stage(t, target, ids)
                  \/ Timer(t) \/ Undo(t) \/ DispositionEnds(t) \/ DispositionFails(t)
    BY <2>1, <2>4 DEF vars, Push, Receive, ServeLoad, LoadArrives, LoadFails,
       Connect, Cut, ServeCatchUp, CatchUpArrives, CatchUpFails, Stage, Timer, Undo,
       DispositionEnds, DispositionFails, history
  <2>5. ASSUME NEW i \in Ids, ChangeByOthers(i)
        PROVE  Len(rows') = Len(rows) /\ \A j \in Ids : had[j] \subseteq had'[j]
    BY <2>2, <2>5, OthersChange
  <2>6. ASSUME NEW t \in Stages, ServeDisposition(t)
        PROVE  Len(rows') = Len(rows) /\ \A j \in Ids : had[j] \subseteq had'[j]
    <3>1. PICK i \in Inserted : \/ Change(i, stages[t].target) /\ stages[t].target \in States
                                \/ UNCHANGED <<rows, had>>
      BY <2>6, ServedKnown
    <3> QED
      BY <2>2, <3>1
  <2> QED
    BY <1>0, <2>3, <2>4, <2>5, <2>6 DEF Next
<1> QED
  BY <1>0, <1>1 DEF Inserted, Ids


(* A message that is new tells of a row what it is.                        *)
LEMMA MessagesKept ==
  ASSUME Types, Known, RealRows, RealMessages, [Next]_vars
  PROVE  KnownMessages' /\ RealMessages'
<1>0. HubTypes /\ wire \in Seq(MessageType)
  BY DEF Types, HubTypes
<1>1. /\ Inserted \subseteq Inserted' /\ Inserted \subseteq Ids
      /\ \A i \in Ids : had[i] \subseteq had'[i]
  BY HubGrows
<1>2. SUFFICES ASSUME NEW m \in (casts \cup ToSet(wire))', m \notin casts \cup ToSet(wire)
               PROVE  m.id \in Inserted' /\ m.state \in had'[m.id]
  <2>1. \A m \in casts \cup ToSet(wire) : m.id \in Inserted /\ m.state \in had[m.id]
    BY DEF Known, KnownMessages, RealMessages
  <2>2. \A m \in casts \cup ToSet(wire) : m.id \in Inserted' /\ m.state \in had'[m.id]
    BY <1>1, <2>1
  <2> QED
    BY <1>2, <2>2 DEF KnownMessages, RealMessages
<1>3. CASE UNCHANGED <<casts, wire>>
  BY <1>2, <1>3
<1>4. ASSUME NEW i \in Inserted, NEW s \in States, Change(i, s), UNCHANGED wire
      PROVE  m.id \in Inserted' /\ m.state \in had'[m.id]
  <2>1. i \in Ids /\ m = Message("alert.update", i, s) /\ s \in had'[i]
    BY <1>0, <1>1, <1>2, <1>4, RowChanges
  <2>2. m.id = i /\ m.state = s
    BY <2>1, MessagesAreRecords
  <2> QED
    BY <1>1, <2>1, <2>2
<1>5. CASE Fire
  <2>1. /\ m = Message("alert.new", Len(rows) + 1, "new") /\ Len(rows) + 1 \in Ids
        /\ Len(rows') = Len(rows) + 1 /\ had' = had
    BY <1>0, <1>2, <1>5, RowFired DEF Fire, history
  <2>2. m.id = Len(rows) + 1 /\ m.state = "new"
    BY <2>1, MessagesAreRecords, ConstantsAreNumbers
  <2>3. Len(rows) + 1 \in Inserted'
    BY <2>1, ConstantsAreNumbers DEF Inserted, Ids
  <2> QED
    BY <2>1, <2>2, <2>3 DEF RealRows
<1>6. ASSUME NEW c \in casts, Push(c)
      PROVE  FALSE
  <2>1. c \in MessageType /\ wire' = Append(wire, c) /\ casts' = casts \ {c}
    BY <1>0, <1>6 DEF Push, HubTypes
  <2>2. ToSet(wire') = ToSet(wire) \cup {c}
    BY <1>0, <2>1, WireMessages
  <2> QED
    BY <1>2, <2>1, <2>2
<1>7. CASE Receive
  <2>1. ToSet(wire') \subseteq ToSet(wire) /\ casts' = casts
    BY <1>0, <1>7, WireMessages DEF Receive
  <2> QED
    BY <1>2, <2>1
<1>8. CASE Cut
  BY <1>2, <1>8 DEF Cut, ToSet
<1>9. CASE \/ UNCHANGED vars \/ ServeLoad \/ LoadArrives \/ LoadFails \/ Connect
           \/ \E e \in Opens : ServeCatchUp(e) \/ CatchUpArrives(e) \/ CatchUpFails(e)
           \/ \E t \in Stages :
                \/ \E target \in Targets, ids \in SUBSET Ids : Stage(t, target, ids)
                \/ Timer(t) \/ Undo(t) \/ DispositionEnds(t) \/ DispositionFails(t)
  BY <1>3, <1>9 DEF vars, feed, ServeLoad, LoadArrives, LoadFails,
     Connect, ServeCatchUp, CatchUpArrives, CatchUpFails, Stage, Timer, Undo,
     DispositionEnds, DispositionFails
<1>10. ASSUME NEW i \in Ids, ChangeByOthers(i)
       PROVE  m.id \in Inserted' /\ m.state \in had'[m.id]
  <2>1. UNCHANGED wire
    BY <1>10 DEF ChangeByOthers
  <2> QED
    BY <1>4, <1>10, <2>1, OthersChange
<1>11. ASSUME NEW t \in Stages, ServeDisposition(t)
       PROVE  m.id \in Inserted' /\ m.state \in had'[m.id]
  <2>1. PICK i \in Inserted : \/ Change(i, stages[t].target) /\ stages[t].target \in States
                              \/ UNCHANGED casts
    BY <1>11, ServedKnown
  <2>2. UNCHANGED wire
    BY <1>11 DEF ServeDisposition
  <2> QED
    BY <1>3, <1>4, <2>1, <2>2
<1> QED
  BY <1>5, <1>6, <1>7, <1>8, <1>9, <1>10, <1>11 DEF Next

LEMMA CallsKept ==
  ASSUME Types, Known, RealRows, RealCalls, [Next]_vars
  PROVE  KnownCalls' /\ RealCalls'
<1>0. HubTypes /\ \A e \in Opens : catchUps[e] \in CallType
  BY DEF Types, CallTypes
<1>1. /\ Len(rows) \in Nat /\ Len(rows') \in Nat /\ Len(rows) <= Len(rows')
      /\ Inserted \subseteq Inserted' /\ Inserted \subseteq Ids
      /\ \A i \in Ids : had[i] \subseteq had'[i]
  BY HubGrows
<1>2. /\ DOMAIN load.got \subseteq Inserted' /\ \A i \in DOMAIN load.got : load.got[i] \in had'[i]
      /\ \A e \in Opens :
           /\ catchUps[e].after <= Len(rows') /\ DOMAIN catchUps[e].got \subseteq Inserted'
           /\ \A i \in DOMAIN catchUps[e].got : catchUps[e].got[i] \in had'[i]
  <2>1. /\ DOMAIN load.got \subseteq Inserted /\ \A i \in DOMAIN load.got : load.got[i] \in had[i]
        /\ \A e \in Opens :
             /\ catchUps[e].after <= Len(rows) /\ DOMAIN catchUps[e].got \subseteq Inserted
             /\ \A i \in DOMAIN catchUps[e].got : catchUps[e].got[i] \in had[i]
    BY DEF Known, KnownCalls, RealCalls
  <2>2. \A e \in Opens : catchUps[e].after \in Nat
    BY <1>0, CallsAreRecords
  <2>3. \A e \in Opens : catchUps[e].after <= Len(rows')
    BY <1>1, <2>1, <2>2
  <2> QED
    BY <1>1, <2>1, <2>3
<1>a. DOMAIN NoRows = {} /\ NoRows \in Answers /\ 0 \in Nat
  BY AnswersAreFunctions
<1>3. CASE UNCHANGED <<load, catchUps>>
  BY <1>2, <1>3 DEF KnownCalls, RealCalls
<1>4. CASE \/ UNCHANGED vars \/ Fire \/ \E i \in Ids : ChangeByOthers(i)
           \/ \E m \in casts : Push(m)
           \/ Receive \/ Cut
           \/ \E t \in Stages :
                \/ \E target \in Targets, ids \in SUBSET Ids : Stage(t, target, ids)
                \/ Timer(t) \/ Undo(t) \/ ServeDisposition(t)
                \/ DispositionEnds(t) \/ DispositionFails(t)
  BY <1>3, <1>4 DEF vars, calls, Fire, ChangeByOthers, Push, Receive, Cut, Stage, Timer, Undo,
     ServeDisposition, DispositionEnds, DispositionFails
<1>5. CASE ServeLoad
  <2>1. PICK got : got = [i \in Inserted |-> rows[i]]
    OBVIOUS
  <2>2. load' = Call("answered", 0, got) /\ UNCHANGED catchUps
    BY <1>5, <2>1 DEF ServeLoad
  <2>3. got \in Answers /\ DOMAIN got = Inserted /\ \A i \in DOMAIN got : got[i] = rows[i]
    BY <1>0, <2>1, LoadRows
  <2>4. load'.got = got
    BY <2>2 DEF Call
  <2>5. \A i \in Inserted : rows[i] \in had'[i]
    BY <1>1 DEF RealRows
  <2> QED
    BY <1>1, <1>2, <2>2, <2>3, <2>4, <2>5 DEF KnownCalls, RealCalls
<1>6. CASE LoadArrives \/ LoadFails
  <2>1. load' = Call("done", 0, NoRows) /\ UNCHANGED catchUps
    BY <1>6 DEF LoadArrives, LoadFails
  <2>2. load'.got = NoRows
    BY <1>a, <2>1, CallsAreRecords
  <2> QED
    BY <1>2, <1>a, <2>1, <2>2 DEF KnownCalls, RealCalls
<1>7. ASSUME NEW e \in Opens, NEW c \in CallType, catchUps' = [catchUps EXCEPT ![e] = c],
             UNCHANGED load, c.after <= Len(rows'), DOMAIN c.got \subseteq Inserted',
             \A i \in DOMAIN c.got : c.got[i] \in had'[i]
      PROVE  KnownCalls' /\ RealCalls'
  <2>1. catchUps \in [Opens -> CallType]
    BY DEF Types, CallTypes
  <2>2. catchUps'[e] = c /\ \A f \in Opens \ {e} : catchUps'[f] = catchUps[f]
    BY <1>7, <2>1
  <2> QED
    BY <1>2, <1>7, <2>2 DEF KnownCalls, RealCalls
<1>8. CASE Connect
  <2>1. PICK c : c = CatchUp
    OBVIOUS
  <2>2. lastId \in Nat /\ lastId <= Len(rows') /\ opens + 1 \in Opens
    BY <1>1, <1>8, ConstantsAreNumbers
    DEF Types, HubTypes, PageTypes, Known, KnownPage, Connect, Opens
  <2>3. c \in CallType /\ c.after = lastId /\ c.got = NoRows
    BY <1>a, <2>1, <2>2, CallsAreRecords DEF CatchUp
  <2>4. catchUps' = [catchUps EXCEPT ![opens + 1] = c] /\ UNCHANGED load
    BY <1>8, <2>1 DEF Connect
  <2>5. PICK e \in Opens : e = opens + 1
    BY <2>2
  <2> QED
    BY <1>7, <1>a, <2>2, <2>3, <2>4, <2>5
<1>9. ASSUME NEW e \in Opens, ServeCatchUp(e)
      PROVE  KnownCalls' /\ RealCalls'
  <2>1. PICK got : got = RowsAfter(catchUps[e].after, CatchUpLimit)
    OBVIOUS
  <2>2. catchUps[e].after \in Nat /\ catchUps[e].after <= Len(rows')
    BY <1>0, <1>2, CallsAreRecords
  <2>3. got \in Answers /\ DOMAIN got \subseteq Inserted /\ \A i \in DOMAIN got : got[i] = rows[i]
    BY <1>0, <2>1, <2>2, CatchUpRows
  <2>4. PICK c : c = Call("answered", catchUps[e].after, got)
    OBVIOUS
  <2>5. c \in CallType /\ c.after = catchUps[e].after /\ c.got = got
    BY <2>2, <2>3, <2>4, CallsAreRecords
  <2>6. catchUps' = [catchUps EXCEPT ![e] = c] /\ UNCHANGED load
    BY <1>9, <2>1, <2>4 DEF ServeCatchUp
  <2>7. \A i \in DOMAIN got : i \in Inserted' /\ rows[i] \in had'[i]
    BY <1>1, <2>3 DEF RealRows
  <2> QED
    BY <1>7, <2>2, <2>3, <2>5, <2>6, <2>7
<1>10. ASSUME NEW e \in Opens, CatchUpArrives(e) \/ CatchUpFails(e)
      PROVE  KnownCalls' /\ RealCalls'
  <2>1. PICK c : c = Call("done", 0, NoRows)
    OBVIOUS
  <2>2. c \in CallType /\ c.after = 0 /\ c.got = NoRows
    BY <1>a, <2>1, CallsAreRecords
  <2>3. catchUps' = [catchUps EXCEPT ![e] = c] /\ UNCHANGED load
    BY <1>10, <2>1 DEF CatchUpArrives, CatchUpFails
  <2>4. c.after <= Len(rows') /\ DOMAIN c.got = {}
    BY <1>1, <1>a, <2>2
  <2> QED
    BY <1>7, <2>2, <2>3, <2>4
<1> QED
  BY <1>4, <1>5, <1>6, <1>8, <1>9, <1>10 DEF Next


LEMMA RowsKept ==
  ASSUME Types, Known, RealRows, [Next]_vars
  PROVE  RealRows'
<1>0. /\ HubTypes /\ Inserted \subseteq Ids /\ \A i \in Ids : had[i] \subseteq had'[i]
      /\ Len(rows) \in Nat
  BY HubGrows DEF Types
<1>1. CASE UNCHANGED <<rows, had>>
  BY <1>1 DEF RealRows, Inserted
<1>2. CASE Fire
  <2>1. /\ rows'[Len(rows) + 1] = "new" /\ \A j \in Inserted : rows'[j] = rows[j]
        /\ Len(rows') = Len(rows) + 1
    BY <1>0, <1>2, RowFired
  <2>2. had' = had
    BY <1>2 DEF Fire, history
  <2>3. \A i \in Inserted' : i = Len(rows) + 1 \/ i \in Inserted
    BY <1>0, <2>1 DEF Inserted
  <2> QED
    BY <2>1, <2>2, <2>3 DEF RealRows
<1>3. ASSUME NEW i \in Inserted, NEW s \in States, Change(i, s)
      PROVE  RealRows'
  <2>1. /\ Inserted' = Inserted /\ rows'[i] = s /\ \A j \in Inserted \ {i} : rows'[j] = rows[j]
        /\ had'[i] = had[i] \cup {s}
    BY <1>0, <1>3, RowChanges
  <2>2. \A j \in Inserted' : j = i \/ j \in Inserted \ {i}
    BY <2>1
  <2>3. \A j \in Inserted : rows'[j] \in had'[j]
    BY <1>0, <2>1, <2>2 DEF RealRows
  <2> QED
    BY <1>0, <2>1, <2>3 DEF RealRows
<1>4. CASE \/ UNCHANGED vars \/ \E m \in casts : Push(m)
           \/ Receive \/ ServeLoad \/ LoadArrives \/ LoadFails \/ Connect \/ Cut
           \/ \E e \in Opens : ServeCatchUp(e) \/ CatchUpArrives(e) \/ CatchUpFails(e)
           \/ \E t \in Stages :
                \/ \E target \in Targets, ids \in SUBSET Ids : Stage(t, target, ids)
                \/ Timer(t) \/ Undo(t) \/ DispositionEnds(t) \/ DispositionFails(t)
  BY <1>1, <1>4 DEF vars, Push, Receive, ServeLoad, LoadArrives, LoadFails,
     Connect, Cut, ServeCatchUp, CatchUpArrives, CatchUpFails, Stage, Timer, Undo,
     DispositionEnds, DispositionFails, history
<1>5. ASSUME NEW i \in Ids, ChangeByOthers(i)
      PROVE  RealRows'
  BY <1>3, <1>5, OthersChange
<1>6. ASSUME NEW t \in Stages, ServeDisposition(t)
      PROVE  RealRows'
  <2>1. PICK i \in Inserted : \/ Change(i, stages[t].target) /\ stages[t].target \in States
                              \/ UNCHANGED <<rows, had>>
    BY <1>6, ServedKnown
  <2> QED
    BY <1>1, <1>3, <2>1
<1> QED
  BY <1>2, <1>4, <1>5, <1>6 DEF Next

(* A step leaves the page's list alone but for the states it shows, puts   *)
(* rows on it that the hub has, or replaces it by the page's answer.       *)
Quiet ==
  /\ Shown' = Shown
  /\ UNCHANGED <<lastId, rang, dropped>>
  /\ \E ids : forfeited' = forfeited \cup (ids \ Shown)

LEMMA PageSteps ==
  ASSUME Types, Known, [Next]_vars
  PROVE  \/ Quiet
         \/ \E got \in Answers : DOMAIN got \subseteq Inserted /\ Upserted(got) /\ dropped' = dropped
         \/ LoadArrives
<1>0. PageTypes
  BY DEF Types
<1>1. ASSUME UNCHANGED <<list, lastId, rang, dropped>>,
             UNCHANGED forfeited \/ \E ids : Forfeits(ids)
      PROVE  Quiet
  <2>1. \E ids : forfeited' = forfeited \cup (ids \ Shown)
    <3>1. CASE UNCHANGED forfeited
      <4>1. forfeited' = forfeited \cup ({} \ Shown)
        BY <3>1
      <4> QED
        BY <4>1
    <3>2. CASE \E ids : Forfeits(ids)
      BY <3>2 DEF Forfeits
    <3> QED
      BY <1>1, <3>1, <3>2
  <2>2. Shown' = Shown
    BY <1>1 DEF Shown
  <2> QED
    BY <1>1, <2>1, <2>2 DEF Quiet
<1>2. ASSUME Shown' = Shown, UNCHANGED <<lastId, rang, dropped, forfeited>>
      PROVE  Quiet
  <2>1. forfeited' = forfeited \cup ({} \ Shown)
    BY <1>2
  <2> QED
    BY <1>2, <2>1 DEF Quiet
<1>3. CASE UNCHANGED vars
  BY <1>1, <1>3 DEF vars, history
<1>4. CASE Fire \/ ServeLoad \/ Cut
  BY <1>1, <1>4 DEF Fire, ServeLoad, Cut, history
<1>5. CASE \/ \E i \in Ids : ChangeByOthers(i)
           \/ \E t \in Stages : ServeDisposition(t)
  BY <1>1, <1>5 DEF ChangeByOthers, ServeDisposition
<1>6. CASE (\E m \in casts : Push(m)) \/ \E t \in Stages : Timer(t)
  BY <1>1, <1>6 DEF Push, Timer, history
<1>7. CASE LoadFails
  BY <1>1, <1>7 DEF LoadFails
<1>8. CASE Connect
  BY <1>1, <1>8 DEF Connect
<1>9. ASSUME NEW e \in Opens, ServeCatchUp(e)
      PROVE  Quiet
  <2>1. \E ids : Forfeits(ids)
    BY <1>9 DEF ServeCatchUp
  <2> QED
    BY <1>1, <1>9, <2>1 DEF ServeCatchUp
<1>10. ASSUME NEW e \in Opens, CatchUpFails(e)
       PROVE  Quiet
  <2>1. \E ids : Forfeits(ids)
    BY <1>10 DEF CatchUpFails
  <2> QED
    BY <1>1, <1>10, <2>1 DEF CatchUpFails
<1>11. ASSUME NEW e \in Opens, CatchUpArrives(e)
       PROVE  \E got \in Answers : DOMAIN got \subseteq Inserted /\ Upserted(got)
                                   /\ dropped' = dropped
  <2>1. PICK got : got = catchUps[e].got
    OBVIOUS
  <2>2. got \in Answers /\ DOMAIN got \subseteq Inserted
    BY <2>1, CallsAreRecords DEF Types, CallTypes, Known, KnownCalls
  <2> QED
    BY <1>11, <2>1, <2>2 DEF CatchUpArrives
<1>12. ASSUME Receive
       PROVE  \/ Quiet
              \/ \E got \in Answers : DOMAIN got \subseteq Inserted /\ Upserted(got)
                                      /\ dropped' = dropped
  <2>1. PICK m : m = Head(wire)
    OBVIOUS
  <2>2. m \in MessageType /\ m.id \in Inserted
    BY <1>12, <2>1, WireMessages DEF Receive, Types, HubTypes, Known, KnownMessages
  <2>3. PICK got : got = [i \in {m.id} |-> m.state]
    OBVIOUS
  <2>4. got \in Answers /\ DOMAIN got = {m.id}
    <3>1. m.id \in Ids /\ m.state \in States
      BY <2>2 DEF MessageType
    <3>2. got \in [{m.id} -> States] /\ {m.id} \in SUBSET Ids
      BY <2>3, <3>1
    <3> QED
      BY <2>3, <3>2, AnswersAreFunctions
  <2>5. Upserted(got) \/ UNCHANGED <<list, lastId, rang, forfeited>>
    BY <1>12, <2>1, <2>3 DEF Receive
  <2>6. dropped' = dropped
    BY <1>12 DEF Receive
  <2> QED
    BY <1>1, <2>2, <2>4, <2>5, <2>6
<1>13. ASSUME NEW t \in Stages, NEW target \in Targets, NEW ids \in SUBSET Ids,
              Stage(t, target, ids)
       PROVE  Quiet
  <2>1. list' = [i \in Ids |-> IF i \in ids THEN target ELSE list[i]] /\ ids \subseteq Shown
    BY <1>13 DEF Stage
  <2>2. target \in States /\ NotShown \notin States
    BY ConstantsAreNumbers DEF States
  <2>3. Shown' = Shown
    BY <2>1, <2>2 DEF Shown
  <2> QED
    BY <1>2, <1>13, <2>3 DEF Stage, history
<1>14. ASSUME NEW t \in Stages, Undo(t) \/ DispositionFails(t)
       PROVE  Quiet
  <2>1. PICK prev \in Answers : prev = stages[t].prev
    BY EntriesAreRecords DEF Types, StageTypes
  <2>2. Restored(prev) /\ UNCHANGED <<lastId, rang, dropped, forfeited>>
    BY <1>14, <2>1 DEF Undo, DispositionFails, history
  <2> QED
    BY <1>0, <1>2, <2>2, Restores
<1>15. ASSUME NEW t \in Stages, DispositionEnds(t)
       PROVE  Quiet
  <2>1. PICK got \in Answers :
          list' = [i \in Ids |-> IF i \in DOMAIN got /\ i \in Shown THEN got[i] ELSE list[i]]
    BY <1>15, EntriesAreRecords, AnswersAreFunctions DEF DispositionEnds, Types, StageTypes
  <2>2. UNCHANGED <<lastId, rang, dropped, forfeited>>
    BY <1>15 DEF DispositionEnds, history
  <2> QED
    BY <1>0, <1>2, <2>1, <2>2, ListKept
<1> QED
  BY <1>3, <1>4, <1>5, <1>6, <1>7, <1>8, <1>9, <1>10, <1>11, <1>12, <1>13, <1>14, <1>15 DEF Next

LEMMA PageKept ==
  ASSUME Types, Known, [Next]_vars
  PROVE  KnownPage'
<1>0. /\ Len(rows) \in Nat /\ Len(rows') \in Nat /\ Len(rows) <= Len(rows')
      /\ Inserted \subseteq Inserted' /\ Inserted \subseteq Ids
  BY HubGrows
<1>1. lastId \in Nat /\ lastId <= Len(rows) /\ Shown \subseteq Inserted
  BY ConstantsAreNumbers DEF Types, PageTypes, Known, KnownPage
<1>2. \A n \in Nat : n <= Len(rows) => n <= Len(rows')
  BY <1>0
<1>3. \A i \in Inserted : i \in Nat /\ i <= Len(rows)
  BY <1>0 DEF Inserted
<1>4. CASE Quiet
  BY <1>0, <1>1, <1>2, <1>4 DEF Quiet, KnownPage
<1>5. ASSUME NEW got \in Answers, DOMAIN got \subseteq Inserted, Upserted(got)
      PROVE  KnownPage'
  <2>1. /\ Shown' = Shown \cup DOMAIN got
        /\ lastId' \in {lastId} \cup (DOMAIN got \ Shown)
    BY <1>5, Upserts DEF Types
  <2>2. lastId' \in Nat /\ lastId' <= Len(rows)
    BY <1>5, <1>1, <1>3, <2>1
  <2> QED
    BY <1>0, <1>5, <1>1, <1>2, <2>1, <2>2 DEF KnownPage
<1>6. CASE LoadArrives
  <2>1. Shown' = DOMAIN load.got /\ lastId' \in {0} \cup DOMAIN load.got
    BY <1>6, Loads
  <2>2. DOMAIN load.got \subseteq Inserted
    BY DEF Known, KnownCalls
  <2>3. lastId' \in Nat /\ lastId' <= Len(rows)
    BY <1>0, <1>3, <2>1, <2>2
  <2> QED
    BY <1>0, <1>2, <2>1, <2>2, <2>3 DEF KnownPage
<1> QED
  BY <1>4, <1>5, <1>6, PageSteps

(* What an entry may be after a step.                                      *)
KnownEntry(d, ins) == d.ids \cup d.todo \subseteq ins
RealEntry(d, h) ==
  /\ \A i \in DOMAIN d.done : d.done[i] = d.target /\ d.target \in h[i]
  /\ d.st = "sent" => \A i \in d.ids \ d.todo : d.target \in h[i]

LEMMA EntriesKept ==
  ASSUME Types, Known, RealRows, RealStages, [Next]_vars
  PROVE  KnownStages' /\ RealStages'
<1>0. /\ Inserted \subseteq Inserted' /\ Inserted \subseteq Ids
      /\ \A i \in Ids : had[i] \subseteq had'[i]
  BY HubGrows
<1>a. \A t \in Stages : stages[t] \in StageType
  BY DEF Types, StageTypes
<1>b. DOMAIN NoRows = {}
  BY AnswersAreFunctions
<1>1. ASSUME NEW t \in Stages
      PROVE  KnownEntry(stages[t], Inserted') /\ RealEntry(stages[t], had')
  <2>1. stages[t].ids \in SUBSET Ids /\ DOMAIN stages[t].done \in SUBSET Ids
    BY <1>a, EntriesAreRecords, AnswersAreFunctions
  <2> QED
    BY <1>0, <2>1 DEF Known, KnownStages, RealStages, KnownEntry, RealEntry
<1>2. SUFFICES \A t \in Stages : KnownEntry(stages'[t], Inserted') /\ RealEntry(stages'[t], had')
  BY <1>2 DEF KnownStages, RealStages, KnownEntry, RealEntry
<1>3. ASSUME NEW t \in Stages, NEW d, OnlyEntry(t, d),
             KnownEntry(d, Inserted') /\ RealEntry(d, had')
      PROVE  \A u \in Stages : KnownEntry(stages'[u], Inserted') /\ RealEntry(stages'[u], had')
  BY <1>1, <1>3 DEF OnlyEntry
<1>4. CASE \/ UNCHANGED vars \/ Fire \/ \E i \in Ids : ChangeByOthers(i)
           \/ \E m \in casts : Push(m)
           \/ Receive \/ ServeLoad \/ LoadArrives \/ LoadFails \/ Connect \/ Cut
           \/ \E e \in Opens : ServeCatchUp(e) \/ CatchUpArrives(e) \/ CatchUpFails(e)
  <2>1. UNCHANGED stages
    BY <1>4 DEF vars, Fire, ChangeByOthers, Push, Receive, ServeLoad, LoadArrives, LoadFails,
                Connect, Cut, ServeCatchUp, CatchUpArrives, CatchUpFails
  <2> QED
    BY <1>1, <2>1
<1>5. ASSUME NEW t \in Stages
      PROVE  KnownEntry(Flushed(stages[t]), Inserted') /\ RealEntry(Flushed(stages[t]), had')
  <2>1. PICK c \in StageType : c = stages[t]
    BY <1>a
  <2>2. /\ Flushed(c).target = c.target /\ Flushed(c).ids = c.ids
        /\ Flushed(c).todo = c.todo \cup c.ids /\ Flushed(c).done = c.done
    BY <2>1, FlushedEntry
  <2> QED
    BY <1>1, <2>1, <2>2 DEF KnownEntry, RealEntry
<1>6. ASSUME NEW t \in Stages, Timer(t)
      PROVE  \A u \in Stages : KnownEntry(stages'[u], Inserted') /\ RealEntry(stages'[u], had')
  BY <1>3, <1>5, <1>6, TimerEntries DEF Types
<1>7. ASSUME NEW t \in Stages, Undo(t)
      PROVE  \A u \in Stages : KnownEntry(stages'[u], Inserted') /\ RealEntry(stages'[u], had')
  <2>1. PICK d : d = Undone(stages[t])
    OBVIOUS
  <2>2. OnlyEntry(t, d)
    BY <1>7, <2>1, UndoEntries DEF Types
  <2>3. d.st = "undone" /\ d.ids = {} /\ d.todo = {} /\ d.done = NoRows
    BY <1>a, <2>1, UndoneEntry
  <2> QED
    BY <1>3, <1>b, <2>2, <2>3 DEF KnownEntry, RealEntry
<1>8. ASSUME NEW t \in Stages, DispositionEnds(t)
      PROVE  \A u \in Stages : KnownEntry(stages'[u], Inserted') /\ RealEntry(stages'[u], had')
  <2>1. PICK d : d = [Unstaged EXCEPT !.st = "ended"]
    OBVIOUS
  <2>2. OnlyEntry(t, d)
    BY <1>8, <2>1, EndEntries DEF Types
  <2>3. d.st = "ended" /\ d.ids = {} /\ d.todo = {} /\ d.done = NoRows
    BY <2>1, EndedEntry
  <2> QED
    BY <1>3, <1>b, <2>2, <2>3 DEF KnownEntry, RealEntry
<1>9. ASSUME NEW t \in Stages, DispositionFails(t)
      PROVE  \A u \in Stages : KnownEntry(stages'[u], Inserted') /\ RealEntry(stages'[u], had')
  <2>1. PICK d \in StageType : OnlyEntry(t, d) /\ d.st = "failed" /\ d.ids = {} /\ d.done = NoRows
                               /\ d.todo \subseteq stages[t].todo
    BY <1>9, FailEntries DEF Types
  <2> QED
    BY <1>1, <1>3, <1>b, <2>1 DEF KnownEntry, RealEntry
<1>10. ASSUME NEW t \in Stages, ServeDisposition(t)
       PROVE  \A u \in Stages : KnownEntry(stages'[u], Inserted') /\ RealEntry(stages'[u], had')
  <2>1. PICK i \in stages[t].todo, d \in StageType :
           /\ OnlyEntry(t, d) /\ d.todo = stages[t].todo \ {i} /\ d.st = stages[t].st
           /\ d.target = stages[t].target /\ d.ids = stages[t].ids /\ d.prev = stages[t].prev
           /\ i \in Inserted /\ stages[t].target \in States
           /\ \/ /\ Change(i, stages[t].target)
                 /\ DOMAIN d.done = DOMAIN stages[t].done \cup {i}
                 /\ \A j \in DOMAIN d.done : d.done[j] = stages[t].target
              \/ /\ rows[i] = stages[t].target /\ UNCHANGED <<rows, casts, had>>
                 /\ d.done = stages[t].done
    BY <1>10, ServedKnown
  <2>2. stages[t].target \in had'[i]
    <3>1. CASE Change(i, stages[t].target)
      BY <2>1, <3>1, RowChanges DEF Types
    <3>2. CASE rows[i] = stages[t].target /\ had' = had
      BY <1>0, <2>1, <3>2 DEF RealRows
    <3> QED
      BY <2>1, <3>1, <3>2
  <2>3. KnownEntry(d, Inserted')
    BY <1>1, <2>1 DEF KnownEntry
  <2>4. \A j \in DOMAIN d.done : d.done[j] = d.target /\ d.target \in had'[j]
    BY <1>1, <2>1, <2>2 DEF RealEntry
  <2>5. d.st = "sent" => \A j \in d.ids \ d.todo : d.target \in had'[j]
    BY <1>1, <2>1, <2>2 DEF RealEntry
  <2> QED
    BY <1>3, <2>1, <2>3, <2>4, <2>5 DEF RealEntry
<1>11. ASSUME NEW t \in Stages, NEW x \in Targets, NEW ids \in SUBSET Ids, Stage(t, x, ids)
       PROVE  \A u \in Stages : KnownEntry(stages'[u], Inserted') /\ RealEntry(stages'[u], had')
  <2>1. Staged(t, x, ids)
    BY <1>11, StageEntries DEF Types
  <2>2. ids \subseteq Inserted
    BY <1>11 DEF Stage, Known, KnownPage
  <2>3. KnownEntry(stages'[t], Inserted') /\ RealEntry(stages'[t], had')
    BY <1>0, <1>b, <2>1, <2>2 DEF Staged, KnownEntry, RealEntry
  <2>4. \A u \in Queued : u \in Stages /\ stages'[u] = Flushed(stages[u])
    BY <2>1 DEF Staged, Queued
  <2>5. \A u \in Stages \ (Queued \cup {t}) : stages'[u] = stages[u]
    BY <2>1 DEF Staged
  <2> QED
    BY <1>1, <1>5, <2>3, <2>4, <2>5
<1> QED
  BY <1>4, <1>6, <1>7, <1>8, <1>9, <1>10, <1>11 DEF Next


-----------------------------------------------------------------------------
(* The console rings once.                                                 *)

LEMMA RingingKept ==
  ASSUME Types, Known, Ringing, [Next]_vars
  PROVE  Ringing'
<1>0. PageTypes /\ rang \in [Ids -> Nat]
  BY DEF Types, PageTypes
<1>1. CASE Quiet
  BY <1>1 DEF Quiet, Ringing
<1>2. ASSUME NEW got \in Answers, Upserted(got), dropped' = dropped
      PROVE  Ringing'
  <2>1. /\ Shown' = Shown \cup DOMAIN got
        /\ \A i \in DOMAIN got : rang'[i] = IF i \in Shown THEN rang[i] ELSE rang[i] + 1
        /\ \A i \in Ids \ DOMAIN got : rang'[i] = rang[i]
    BY <1>0, <1>2, Upserts
  <2>2. ASSUME NEW i \in Ids \ dropped
        PROVE  rang'[i] <= 1 /\ (i \notin Shown' => rang'[i] = 0)
    <3>1. rang[i] \in Nat /\ rang[i] <= 1 /\ (i \notin Shown => rang[i] = 0)
      BY <1>0 DEF Ringing
    <3> QED
      BY <2>1, <3>1
  <2> QED
    BY <1>2, <2>2 DEF Ringing
<1>3. CASE LoadArrives
  <2>1. /\ Shown' = DOMAIN load.got /\ dropped' = dropped \cup (Shown \ DOMAIN load.got)
        /\ rang' = rang
    BY <1>3, Loads
  <2> QED
    BY <2>1 DEF Ringing
<1> QED
  BY <1>1, <1>2, <1>3, PageSteps


-----------------------------------------------------------------------------
(* No alert slips through.                                                 *)

LEMMA SettledStays ==
  ASSUME Types, Known, [Next]_vars, NEW i \in Inserted, Settled(i)
  PROVE  Settled(i)'
<1>0. /\ HubTypes /\ PageTypes /\ i \in Ids /\ load \in CallType
      /\ catchUps \in [Opens -> CallType] /\ \A e \in Opens : catchUps[e] \in CallType
  BY HubGrows DEF Types, CallTypes
<1>1. ASSUME i \in Shown \/ i \in forfeited
      PROVE  i \in Shown' \/ i \in forfeited'
  <2>1. CASE Quiet
    BY <1>1, <2>1 DEF Quiet
  <2>2. ASSUME NEW got \in Answers, Upserted(got)
        PROVE  i \in Shown' \/ i \in forfeited'
    <3>1. Shown' = Shown \cup DOMAIN got /\ forfeited' = forfeited \ DOMAIN got
      BY <1>0, <2>2, Upserts
    <3> QED
      BY <1>1, <3>1
  <2>3. CASE LoadArrives
    <3>1. Shown' = DOMAIN load.got /\ forfeited' = (forfeited \cup Shown) \ DOMAIN load.got
      BY <2>3, Loads
    <3> QED
      BY <1>1, <3>1
  <2> QED
    BY <2>1, <2>2, <2>3, PageSteps
<1>2. SUFFICES ASSUME Called(i), i \notin Shown, i \notin forfeited
               PROVE  i \in Shown' \/ i \in forfeited' \/ Called(i)'
  BY <1>1, <1>2 DEF Settled
<1>3. CASE UNCHANGED <<load, catchUps>>
  BY <1>2, <1>3 DEF Called, CalledBy
<1>4. CASE \/ UNCHANGED vars \/ Fire \/ \E k \in Ids : ChangeByOthers(k)
           \/ \E m \in casts : Push(m)
           \/ Receive \/ Cut
           \/ \E t \in Stages :
                \/ \E target \in Targets, ids \in SUBSET Ids : Stage(t, target, ids)
                \/ Timer(t) \/ Undo(t) \/ ServeDisposition(t)
                \/ DispositionEnds(t) \/ DispositionFails(t)
  BY <1>3, <1>4 DEF vars, calls, Fire, ChangeByOthers, Push, Receive, Cut, Stage, Timer, Undo,
     ServeDisposition, DispositionEnds, DispositionFails
<1>5. CASE ServeLoad
  <2>1. PICK got : got = [k \in Inserted |-> rows[k]]
    OBVIOUS
  <2>2. load' = Call("answered", 0, got) /\ UNCHANGED catchUps /\ load.st = "asked"
    BY <1>5, <2>1 DEF ServeLoad
  <2>3. load'.st = "answered" /\ load'.got = got
    BY <2>2 DEF Call
  <2>4. i \in DOMAIN got
    BY <2>1
  <2> QED
    BY <2>3, <2>4 DEF Called, CalledBy
<1>6. ASSUME UNCHANGED catchUps,
             load.st = "asked" \/ (load.st = "answered" /\ i \in DOMAIN load.got)
                => i \in Shown' \/ i \in forfeited'
      PROVE  i \in Shown' \/ i \in forfeited' \/ Called(i)'
  BY <1>2, <1>6 DEF Called, CalledBy
<1>7. CASE LoadArrives
  <2>1. Shown' = DOMAIN load.got /\ UNCHANGED catchUps /\ load.st = "answered"
    BY <1>7, Loads DEF LoadArrives
  <2> QED
    BY <1>6, <2>1
<1>8. CASE LoadFails
  <2>1. UNCHANGED catchUps /\ Forfeits(IF load.st = "asked" THEN Inserted ELSE DOMAIN load.got)
    BY <1>8 DEF LoadFails
  <2>2. load.st = "asked" \/ (load.st = "answered" /\ i \in DOMAIN load.got) => i \in forfeited'
    BY <1>2, <2>1 DEF Forfeits
  <2> QED
    BY <1>6, <2>1, <2>2
<1>9. CASE Connect
  <2>1. /\ load' = load /\ opens + 1 \in Opens /\ catchUps[opens + 1].st = "unused"
        /\ \A e \in Opens \ {opens + 1} : catchUps'[e] = catchUps[e]
    BY <1>0, <1>9, ConstantsAreNumbers DEF Connect, Types, HubTypes, CallTypes, Opens
  <2> QED
    BY <1>2, <2>1 DEF Called, CalledBy
<1>10. ASSUME NEW e \in Opens, UNCHANGED load, \A f \in Opens \ {e} : catchUps'[f] = catchUps[f],
              CalledBy(e, i) => i \in Shown' \/ i \in forfeited' \/ Called(i)'
       PROVE  i \in Shown' \/ i \in forfeited' \/ Called(i)'
  BY <1>2, <1>10 DEF Called, CalledBy
<1>11. ASSUME NEW e \in Opens, ServeCatchUp(e)
       PROVE  i \in Shown' \/ i \in forfeited' \/ Called(i)'
  <2>1. PICK got : got = RowsAfter(catchUps[e].after, CatchUpLimit)
    OBVIOUS
  <2>2. PICK c : c = Call("answered", catchUps[e].after, got)
    OBVIOUS
  <2>3. catchUps' = [catchUps EXCEPT ![e] = c] /\ UNCHANGED load /\ catchUps[e].st = "asked"
        /\ Forfeits({k \in Inserted : k > catchUps[e].after} \ DOMAIN got)
    BY <1>11, <2>1, <2>2 DEF ServeCatchUp
  <2>4. catchUps'[e] = c /\ \A f \in Opens \ {e} : catchUps'[f] = catchUps[f]
    BY <1>0, <2>3
  <2>5. c.st = "answered" /\ c.got = got
    BY <2>2 DEF Call
  <2>6. ASSUME i > catchUps[e].after
        PROVE  i \in Shown' \/ i \in forfeited' \/ Called(i)'
    <3>1. CASE i \in DOMAIN got
      BY <2>4, <2>5, <3>1 DEF Called, CalledBy
    <3>2. CASE i \notin DOMAIN got
      BY <1>2, <2>3, <2>6, <3>2 DEF Forfeits
    <3> QED
      BY <3>1, <3>2
  <2> QED
    BY <1>10, <2>3, <2>4, <2>6 DEF CalledBy
<1>12. ASSUME NEW e \in Opens, CatchUpArrives(e)
       PROVE  i \in Shown' \/ i \in forfeited' \/ Called(i)'
  <2>1. PICK got : got = catchUps[e].got
    OBVIOUS
  <2>2. got \in Answers /\ Upserted(got)
    BY <1>0, <1>12, <2>1, CallsAreRecords DEF CatchUpArrives
  <2>3. Shown' = Shown \cup DOMAIN got
    BY <1>0, <2>2, Upserts
  <2>4. UNCHANGED load /\ \A f \in Opens \ {e} : catchUps'[f] = catchUps[f]
    BY <1>0, <1>12 DEF CatchUpArrives
  <2>5. catchUps[e].st = "answered"
    BY <1>12 DEF CatchUpArrives
  <2> QED
    BY <1>10, <2>1, <2>3, <2>4, <2>5 DEF CalledBy
<1>13. ASSUME NEW e \in Opens, CatchUpFails(e)
       PROVE  i \in Shown' \/ i \in forfeited' \/ Called(i)'
  <2>1. UNCHANGED load /\ \A f \in Opens \ {e} : catchUps'[f] = catchUps[f]
    BY <1>0, <1>13 DEF CatchUpFails
  <2>2. Forfeits(IF catchUps[e].st = "asked" THEN {k \in Inserted : k > catchUps[e].after}
                 ELSE DOMAIN catchUps[e].got)
    BY <1>13 DEF CatchUpFails
  <2>3. CalledBy(e, i) => i \in forfeited'
    BY <1>2, <2>2 DEF Forfeits, CalledBy
  <2> QED
    BY <1>10, <2>1, <2>3
<1> QED
  BY <1>4, <1>5, <1>7, <1>8, <1>9, <1>11, <1>12, <1>13 DEF Next


LEMMA OnlyFireInserts ==
  ASSUME Types, Known, [Next]_vars, NEW i \in Inserted'
  PROVE  i \in Inserted \/ (Fire /\ i = Len(rows) + 1)
<1>0. HubTypes /\ Len(rows) \in Nat
  BY HubGrows DEF Types
<1>1. CASE Len(rows') = Len(rows)
  BY <1>1 DEF Inserted
<1>2. CASE Fire
  BY <1>0, <1>2, RowFired DEF Inserted
<1>3. CASE \/ UNCHANGED vars \/ \E m \in casts : Push(m)
           \/ Receive \/ ServeLoad \/ LoadArrives \/ LoadFails \/ Connect \/ Cut
           \/ \E e \in Opens : ServeCatchUp(e) \/ CatchUpArrives(e) \/ CatchUpFails(e)
           \/ \E t \in Stages :
                \/ \E target \in Targets, ids \in SUBSET Ids : Stage(t, target, ids)
                \/ Timer(t) \/ Undo(t) \/ DispositionEnds(t) \/ DispositionFails(t)
  BY <1>1, <1>3 DEF vars, Push, Receive, ServeLoad, LoadArrives, LoadFails,
     Connect, Cut, ServeCatchUp, CatchUpArrives, CatchUpFails, Stage, Timer, Undo,
     DispositionEnds, DispositionFails
<1>4. ASSUME NEW k \in Ids, ChangeByOthers(k)
      PROVE  Len(rows') = Len(rows)
  BY <1>0, <1>4, OthersChange, RowChanges
<1>5. ASSUME NEW t \in Stages, ServeDisposition(t)
      PROVE  Len(rows') = Len(rows)
  <2>1. PICK k \in Inserted : \/ Change(k, stages[t].target) /\ stages[t].target \in States
                              \/ UNCHANGED rows
    BY <1>5, ServedKnown
  <2> QED
    BY <1>0, <2>1, RowChanges
<1> QED
  BY <1>1, <1>2, <1>3, <1>4, <1>5 DEF Next

LEMMA GapsKept ==
  ASSUME Types, Known, Gaps, [Next]_vars
  PROVE  Gaps'
<1>0. HubTypes /\ catchUps \in [Opens -> CallType]
  BY DEF Types, CallTypes
<1>1. CASE UNCHANGED <<load, catchUps>>
  BY <1>1 DEF Gaps, GapFree
<1>2. CASE \/ UNCHANGED vars \/ Fire \/ \E k \in Ids : ChangeByOthers(k)
           \/ \E m \in casts : Push(m)
           \/ Receive \/ Cut
           \/ \E t \in Stages :
                \/ \E target \in Targets, ids \in SUBSET Ids : Stage(t, target, ids)
                \/ Timer(t) \/ Undo(t) \/ ServeDisposition(t)
                \/ DispositionEnds(t) \/ DispositionFails(t)
  BY <1>1, <1>2 DEF vars, calls, Fire, ChangeByOthers, Push, Receive, Cut, Stage, Timer, Undo,
     ServeDisposition, DispositionEnds, DispositionFails
<1>3. CASE ServeLoad
  <2>1. PICK got : got = [k \in Inserted |-> rows[k]]
    OBVIOUS
  <2>2. load' = Call("answered", 0, got) /\ UNCHANGED catchUps
    BY <1>3, <2>1 DEF ServeLoad
  <2>3. load'.got = got
    BY <2>2 DEF Call
  <2>4. GapFree(got, 0)
    BY <1>0, <2>1, LoadRows
  <2> QED
    BY <2>2, <2>3, <2>4 DEF Gaps, GapFree
<1>4. CASE LoadArrives \/ LoadFails
  <2>1. load' = Call("done", 0, NoRows) /\ UNCHANGED catchUps
    BY <1>4 DEF LoadArrives, LoadFails
  <2>2. load'.st = "done"
    BY <2>1 DEF Call
  <2> QED
    BY <2>1, <2>2 DEF Gaps, GapFree
<1>5. ASSUME NEW e \in Opens, NEW c \in CallType, catchUps' = [catchUps EXCEPT ![e] = c],
             UNCHANGED load, c.st = "answered" => GapFree(c.got, c.after)
      PROVE  Gaps'
  <2>1. catchUps'[e] = c /\ \A f \in Opens \ {e} : catchUps'[f] = catchUps[f]
    BY <1>0, <1>5
  <2> QED
    BY <1>5, <2>1 DEF Gaps, GapFree
<1>6. CASE Connect
  <2>1. PICK c : c = CatchUp
    OBVIOUS
  <2>2. catchUps' = [catchUps EXCEPT ![opens + 1] = c] /\ UNCHANGED load
    BY <1>6, <2>1 DEF Connect
  <2>3. PICK e \in Opens : e = opens + 1
    BY <1>6, ConstantsAreNumbers DEF Connect, Types, HubTypes, Opens
  <2>4. c \in CallType /\ c.st # "answered"
    <3>1. lastId \in Nat /\ NoRows \in Answers
      BY ConstantsAreNumbers, AnswersAreFunctions DEF Types, PageTypes
    <3> QED
      BY <2>1, <3>1, CallsAreRecords DEF CatchUp
  <2> QED
    BY <1>5, <2>2, <2>3, <2>4
<1>7. ASSUME NEW e \in Opens, ServeCatchUp(e)
      PROVE  Gaps'
  <2>1. PICK got : got = RowsAfter(catchUps[e].after, CatchUpLimit)
    OBVIOUS
  <2>2. PICK c : c = Call("answered", catchUps[e].after, got)
    OBVIOUS
  <2>3. catchUps' = [catchUps EXCEPT ![e] = c] /\ UNCHANGED load
    BY <1>7, <2>1, <2>2 DEF ServeCatchUp
  <2>4. catchUps[e].after \in Nat
    BY <1>0, CallsAreRecords
  <2>5. got \in Answers /\ GapFree(got, catchUps[e].after)
    BY <1>0, <2>1, <2>4, CatchUpRows
  <2>6. c \in CallType /\ c.got = got /\ c.after = catchUps[e].after
    BY <2>2, <2>4, <2>5, CallsAreRecords
  <2> QED
    BY <1>5, <2>3, <2>5, <2>6
<1>8. ASSUME NEW e \in Opens, CatchUpArrives(e) \/ CatchUpFails(e)
      PROVE  Gaps'
  <2>1. PICK c : c = Call("done", 0, NoRows)
    OBVIOUS
  <2>2. c \in CallType /\ c.st = "done"
    <3>1. NoRows \in Answers /\ 0 \in Nat
      BY AnswersAreFunctions
    <3> QED
      BY <2>1, <3>1, CallsAreRecords
  <2>3. catchUps' = [catchUps EXCEPT ![e] = c] /\ UNCHANGED load
    BY <1>8, <2>1 DEF CatchUpArrives, CatchUpFails
  <2> QED
    BY <1>5, <2>2, <2>3
<1> QED
  BY <1>2, <1>3, <1>4, <1>6, <1>7, <1>8 DEF Next

(* The row that a received message brings is on the list.                  *)
LEMMA Received ==
  ASSUME Types, Known, Receive
  PROVE  \E m \in MessageType :
           /\ m = wire[1] /\ 1 \in DOMAIN wire /\ m.id \in Inserted
           /\ m.type = "alert.new" => m.id \in Shown'
           /\ lastId' = lastId \/ (lastId' = m.id /\ m.type = "alert.new")
           /\ DOMAIN wire = 1..Len(wire) /\ Len(wire) \in Nat
           /\ DOMAIN wire' = 1..(Len(wire) - 1)
           /\ \A k \in DOMAIN wire' : wire'[k] = wire[k + 1]
           /\ \A x \in ToSet(wire) : x = m \/ x \in ToSet(wire')
<1>0. wire \in Seq(MessageType) /\ wire # <<>> /\ wire' = Tail(wire)
  BY DEF Receive, Types, HubTypes
<1>1. PICK m : m = Head(wire)
  OBVIOUS
<1>2. m \in MessageType /\ m \in ToSet(wire) /\ m = wire[1]
  BY <1>0, <1>1, WireMessages
<1>3. /\ DOMAIN wire = 1..Len(wire) /\ Len(wire) \in Nat /\ 1 \in DOMAIN wire
      /\ Len(wire') = Len(wire) - 1 /\ wire' \in Seq(MessageType)
      /\ \A k \in 1..(Len(wire) - 1) : wire'[k] = wire[k + 1]
  BY <1>0
<1>4. DOMAIN wire' = 1..(Len(wire) - 1)
  BY <1>3
<1>5. \A x \in ToSet(wire) : x = m \/ x \in ToSet(wire')
  <2>1. ASSUME NEW k \in DOMAIN wire
        PROVE  wire[k] = m \/ \E l \in DOMAIN wire' : wire'[l] = wire[k]
    <3>1. CASE k = 1
      BY <1>2, <3>1
    <3>2. CASE k # 1
      <4>1. k - 1 \in 1..(Len(wire) - 1) /\ (k - 1) + 1 = k
        BY <1>3, <3>2
      <4> QED
        BY <1>3, <1>4, <4>1
    <3> QED
      BY <3>1, <3>2
  <2> QED
    BY <2>1 DEF ToSet
<1>6. m.id \in Inserted /\ m.id \in Ids /\ m.state \in States
  BY <1>2 DEF Known, KnownMessages, MessageType
<1>7. PICK got : got = [i \in {m.id} |-> m.state]
  OBVIOUS
<1>8. got \in Answers /\ DOMAIN got = {m.id}
  <2>1. got \in [{m.id} -> States] /\ {m.id} \in SUBSET Ids
    BY <1>6, <1>7
  <2> QED
    BY <1>7, <2>1, AnswersAreFunctions
<1>9. /\ m.type = "alert.new" => m.id \in Shown'
      /\ lastId' = lastId \/ (lastId' = m.id /\ m.type = "alert.new")
  <2>1. CASE m.type = "alert.new" \/ m.id \in Shown
    <3>1. Upserted(got)
      BY <1>1, <1>7, <2>1 DEF Receive
    <3>2. Shown' = Shown \cup DOMAIN got /\ lastId' \in {lastId} \cup (DOMAIN got \ Shown)
      BY <1>8, <3>1, Upserts DEF Types
    <3> QED
      BY <1>8, <2>1, <3>2
  <2>2. CASE ~(m.type = "alert.new" \/ m.id \in Shown)
    BY <1>1, <2>2 DEF Receive
  <2> QED
    BY <2>1, <2>2
<1> QED
  BY <1>2, <1>3, <1>4, <1>5, <1>6, <1>9


(* The last id moves on what is received, on a catch-up and on a load.     *)
LEMMA LastIdMoves ==
  ASSUME [Next]_vars, lastId' # lastId
  PROVE  Receive \/ LoadArrives \/ \E e \in Opens : CatchUpArrives(e)
BY DEF Next, vars, Fire, ChangeByOthers, Push, ServeLoad, LoadFails, Connect, Cut, ServeCatchUp,
       CatchUpFails, Stage, Timer, Undo, ServeDisposition, DispositionEnds, DispositionFails

LEMMA LastSettledKept ==
  ASSUME Types, Known, Accounted, [Next]_vars
  PROVE  LastSettled'
<1>0. /\ Len(rows) \in Nat /\ Inserted \subseteq Ids /\ Ids \subseteq Nat
      /\ lastId \in Nat /\ lastId <= Len(rows) /\ \A k \in Ids : k >= 1
      /\ LastSettled /\ AfterSettled /\ Gaps /\ WireInOrder /\ PageTypes
  BY HubGrows, ConstantsAreNumbers DEF Types, PageTypes, Known, KnownPage, Accounted, Ids
<1>1. SUFFICES ASSUME NEW i \in Inserted', i <= lastId'
               PROVE  Settled(i)'
  BY <1>1 DEF LastSettled
<1>2. CASE Fire /\ i = Len(rows) + 1
  BY <1>0, <1>1, <1>2 DEF Fire
<1>3. SUFFICES ASSUME i \in Inserted
               PROVE  Settled(i)'
  BY <1>2, <1>3, OnlyFireInserts
<1>a. i \in Nat /\ i \in Ids
  BY <1>0, <1>3
<1>4. CASE Settled(i)
  BY <1>3, <1>4, SettledStays
<1>5. ASSUME i \in Shown'
      PROVE  Settled(i)'
  BY <1>5 DEF Settled
<1>6. CASE lastId' = lastId
  BY <1>0, <1>1, <1>3, <1>4, <1>6 DEF LastSettled
<1>7. CASE Receive /\ lastId' # lastId
  <2>1. PICK m \in MessageType :
           /\ m = wire[1] /\ 1 \in DOMAIN wire /\ m.id \in Inserted
           /\ m.type = "alert.new" => m.id \in Shown'
           /\ lastId' = lastId \/ (lastId' = m.id /\ m.type = "alert.new")
           /\ DOMAIN wire = 1..Len(wire)
    BY <1>7, Received
  <2>2. lastId' = m.id /\ m.type = "alert.new" /\ m.id \in Shown' /\ m.id \in Nat
    BY <1>0, <1>7, <2>1
  <2>3. CASE i = m.id
    BY <1>5, <2>2, <2>3
  <2>4. CASE i < m.id
    <3>1. ~ \E q \in DOMAIN wire : q < 1 /\ New(wire[q], i)
      BY <2>1
    <3>2. Settled(i) \/ \E q \in DOMAIN wire : q < 1 /\ New(wire[q], i)
      BY <1>0, <1>3, <2>1, <2>2, <2>4 DEF WireInOrder
    <3> QED
      BY <1>4, <3>1, <3>2
  <2> QED
    BY <1>a, <1>1, <2>2, <2>3, <2>4
<1>8. CASE LoadArrives
  <2>1. Shown' = DOMAIN load.got /\ lastId' \in {0} \cup DOMAIN load.got /\ load.st = "answered"
    BY <1>8, Loads DEF LoadArrives
  <2>2. GapFree(load.got, 0)
    BY <1>0, <2>1 DEF Gaps
  <2>3. lastId' \in DOMAIN load.got /\ lastId' \in Nat
    <3>1. lastId' # 0
      BY <1>0, <1>a, <1>1
    <3>2. DOMAIN load.got \subseteq Inserted
      BY DEF Known, KnownCalls
    <3> QED
      BY <1>0, <2>1, <3>1, <3>2
  <2>4. i \in DOMAIN load.got
    BY <1>0, <1>a, <1>1, <2>2, <2>3 DEF GapFree
  <2> QED
    BY <1>5, <2>1, <2>4
<1>9. ASSUME NEW e \in Opens, CatchUpArrives(e), lastId' # lastId
      PROVE  Settled(i)'
  <2>1. PICK got : got = catchUps[e].got
    OBVIOUS
  <2>2. got \in Answers /\ DOMAIN got \subseteq Inserted /\ catchUps[e].st = "answered"
        /\ catchUps[e].after \in Nat /\ Upserted(got)
    BY <1>9, <2>1, CallsAreRecords DEF CatchUpArrives, Types, CallTypes, Known, KnownCalls
  <2>3. Shown' = Shown \cup DOMAIN got /\ lastId' \in DOMAIN got /\ lastId' \in Nat
    BY <1>0, <1>9, <2>2, Upserts
  <2>4. GapFree(got, catchUps[e].after)
    BY <1>0, <2>1, <2>2 DEF Gaps
  <2>5. CASE i <= catchUps[e].after
    BY <1>0, <1>3, <1>4, <2>2, <2>5 DEF AfterSettled
  <2>6. CASE i > catchUps[e].after
    <3>1. i \in DOMAIN got
      BY <1>a, <1>1, <2>2, <2>3, <2>4, <2>6 DEF GapFree
    <3> QED
      BY <1>5, <2>3, <3>1
  <2> QED
    BY <1>a, <2>2, <2>5, <2>6
<1> QED
  BY <1>6, <1>7, <1>8, <1>9, LastIdMoves

(* A catch-up that is under way starts where it did, or where the page was *)
(* when its connection was opened.                                         *)
LEMMA AfterMoves ==
  ASSUME Types, [Next]_vars, NEW e \in Opens, catchUps'[e].st \in {"asked", "answered"}
  PROVE  \/ catchUps[e].st \in {"asked", "answered"} /\ catchUps'[e].after = catchUps[e].after
         \/ catchUps'[e].after = lastId
<1>0. catchUps \in [Opens -> CallType]
  BY DEF Types, CallTypes
<1>1. CASE UNCHANGED catchUps
  BY <1>1
<1>2. CASE \/ UNCHANGED vars \/ Fire \/ \E k \in Ids : ChangeByOthers(k)
           \/ \E m \in casts : Push(m)
           \/ Receive \/ Cut \/ ServeLoad \/ LoadArrives \/ LoadFails
           \/ \E t \in Stages :
                \/ \E target \in Targets, ids \in SUBSET Ids : Stage(t, target, ids)
                \/ Timer(t) \/ Undo(t) \/ ServeDisposition(t)
                \/ DispositionEnds(t) \/ DispositionFails(t)
  BY <1>1, <1>2 DEF vars, calls, Fire, ChangeByOthers, Push, Receive, Cut, ServeLoad, LoadArrives,
     LoadFails, Stage, Timer, Undo, ServeDisposition, DispositionEnds, DispositionFails
<1>3. CASE Connect
  <2>1. PICK c : c = CatchUp
    OBVIOUS
  <2>2. catchUps' = [catchUps EXCEPT ![opens + 1] = c] /\ c.after = lastId
    BY <1>3, <2>1 DEF Connect, CatchUp, Call
  <2> QED
    BY <1>0, <2>2
<1>4. ASSUME NEW f \in Opens, ServeCatchUp(f)
      PROVE  catchUps[e].st \in {"asked", "answered"} /\ catchUps'[e].after = catchUps[e].after
  <2>1. PICK c : c = Call("answered", catchUps[f].after, RowsAfter(catchUps[f].after, CatchUpLimit))
    OBVIOUS
  <2>2. catchUps' = [catchUps EXCEPT ![f] = c] /\ catchUps[f].st = "asked"
    BY <1>4, <2>1 DEF ServeCatchUp
  <2>3. c.after = catchUps[f].after
    BY <2>1 DEF Call
  <2> QED
    BY <1>0, <2>2, <2>3
<1>5. ASSUME NEW f \in Opens, CatchUpArrives(f) \/ CatchUpFails(f)
      PROVE  catchUps[e].st \in {"asked", "answered"} /\ catchUps'[e].after = catchUps[e].after
  <2>1. PICK c : c = Call("done", 0, NoRows)
    OBVIOUS
  <2>2. catchUps' = [catchUps EXCEPT ![f] = c] /\ c.st = "done"
    BY <1>5, <2>1 DEF CatchUpArrives, CatchUpFails, Call
  <2> QED
    BY <1>0, <2>2
<1> QED
  BY <1>2, <1>3, <1>4, <1>5 DEF Next

LEMMA AfterSettledKept ==
  ASSUME Types, Known, Accounted, [Next]_vars
  PROVE  AfterSettled'
<1>0. /\ Len(rows) \in Nat /\ Inserted \subseteq Ids /\ Ids \subseteq Nat
      /\ lastId \in Nat /\ lastId <= Len(rows)
      /\ \A e \in Opens : catchUps[e].after \in Nat /\ catchUps[e].after <= Len(rows)
      /\ LastSettled /\ AfterSettled
  BY HubGrows, ConstantsAreNumbers, CallsAreRecords
     DEF Types, PageTypes, CallTypes, Known, KnownPage, KnownCalls, Accounted
<1>1. SUFFICES ASSUME NEW i \in Inserted', NEW e \in Opens,
                      catchUps'[e].st \in {"asked", "answered"}, i <= catchUps'[e].after
               PROVE  Settled(i)'
  BY <1>1 DEF AfterSettled
<1>2. \/ catchUps[e].st \in {"asked", "answered"} /\ catchUps'[e].after = catchUps[e].after
      \/ catchUps'[e].after = lastId
  BY <1>1, AfterMoves
<1>3. ~ (i = Len(rows) + 1)
  BY <1>0, <1>1, <1>2
<1>4. i \in Inserted
  BY <1>3, OnlyFireInserts
<1>5. Settled(i)
  BY <1>0, <1>1, <1>2, <1>4 DEF LastSettled, AfterSettled
<1> QED
  BY <1>4, <1>5, SettledStays

(* A step leaves the socket and what is on its way to it as they are, adds *)
(* a message, moves one on, or opens or cuts the connection.               *)
LEMMA FeedSteps ==
  ASSUME Types, Known, [Next]_vars
  PROVE  \/ UNCHANGED <<casts, wire, conn>>
         \/ Fire
         \/ \E k \in Inserted, s \in States : Change(k, s) /\ UNCHANGED <<wire, conn>>
         \/ \E m \in casts : Push(m)
         \/ Receive \/ Connect \/ Cut
<1>1. CASE \/ UNCHANGED vars \/ ServeLoad \/ LoadArrives \/ LoadFails
           \/ \E e \in Opens : ServeCatchUp(e) \/ CatchUpArrives(e) \/ CatchUpFails(e)
           \/ \E t \in Stages :
                \/ \E target \in Targets, ids \in SUBSET Ids : Stage(t, target, ids)
                \/ Timer(t) \/ Undo(t) \/ DispositionEnds(t) \/ DispositionFails(t)
  BY <1>1 DEF vars, feed, ServeLoad, LoadArrives, LoadFails, ServeCatchUp, CatchUpArrives,
     CatchUpFails, Stage, Timer, Undo, DispositionEnds, DispositionFails
<1>2. ASSUME NEW k \in Ids, ChangeByOthers(k)
      PROVE  \E l \in Inserted, s \in States : Change(l, s) /\ UNCHANGED <<wire, conn>>
  <2>1. UNCHANGED <<wire, conn>>
    BY <1>2 DEF ChangeByOthers
  <2> QED
    BY <1>2, <2>1, OthersChange
<1>3. ASSUME NEW t \in Stages, ServeDisposition(t)
      PROVE  \/ UNCHANGED <<casts, wire, conn>>
             \/ \E k \in Inserted, s \in States : Change(k, s) /\ UNCHANGED <<wire, conn>>
  <2>1. UNCHANGED <<wire, conn>>
    BY <1>3 DEF ServeDisposition
  <2>2. PICK k \in Inserted : \/ Change(k, stages[t].target) /\ stages[t].target \in States
                              \/ UNCHANGED casts
    BY <1>3, ServedKnown
  <2> QED
    BY <2>1, <2>2
<1> QED
  BY <1>1, <1>2, <1>3 DEF Next

(* A push of a new alert that is on the wire stays there, unless it is     *)
(* received, which shows the alert, or the wire is cut.                    *)
LEMMA WireKeeps ==
  ASSUME Types, Known, [Next]_vars, NEW q \in DOMAIN wire, NEW i \in Ids, New(wire[q], i)
  PROVE  i \in Shown' \/ Cut \/ \E p \in DOMAIN wire' : New(wire'[p], i)
<1>0. wire \in Seq(MessageType) /\ q \in 1..Len(wire) /\ Len(wire) \in Nat
  BY DEF Types, HubTypes
<1>1. CASE wire' = wire
  BY <1>1
<1>2. ASSUME NEW m \in casts, Push(m)
      PROVE  \E p \in DOMAIN wire' : New(wire'[p], i)
  <2>1. wire' = Append(wire, m) /\ m \in MessageType
    BY <1>2 DEF Push, Types, HubTypes
  <2>2. q \in DOMAIN wire' /\ wire'[q] = wire[q]
    BY <1>0, <2>1
  <2> QED
    BY <2>2
<1>3. CASE Receive
  <2>1. PICK m \in MessageType :
           /\ m = wire[1] /\ (m.type = "alert.new" => m.id \in Shown')
           /\ DOMAIN wire' = 1..(Len(wire) - 1)
           /\ \A k \in DOMAIN wire' : wire'[k] = wire[k + 1]
    BY <1>3, Received
  <2>2. CASE q = 1
    BY <2>1, <2>2 DEF New
  <2>3. CASE q # 1
    <3>1. q - 1 \in DOMAIN wire' /\ (q - 1) + 1 = q
      BY <1>0, <2>1, <2>3
    <3>2. wire'[q - 1] = wire[q]
      BY <2>1, <3>1
    <3> QED
      BY <3>1, <3>2
  <2> QED
    BY <2>2, <2>3
<1> QED
  BY <1>1, <1>2, <1>3, FeedSteps DEF Fire, Connect

LEMMA CastsInOrderKept ==
  ASSUME Types, Known, Accounted, [Next]_vars
  PROVE  CastsInOrder'
<1>0. /\ HubTypes /\ Len(rows) \in Nat /\ Inserted \subseteq Ids /\ Ids \subseteq Nat
      /\ \A m \in casts : m.id \in Inserted /\ m.id \in Nat /\ m.id <= Len(rows)
      /\ CastsInOrder /\ AllAccounted
  BY HubGrows, ConstantsAreNumbers DEF Types, Known, KnownMessages, Accounted, Inserted
<1>1. SUFFICES ASSUME NEW i \in Inserted', NEW m \in casts', m.type = "alert.new", i < m.id
               PROVE  Settled(i)' \/ \E q \in DOMAIN wire' : New(wire'[q], i)
  BY <1>1 DEF CastsInOrder
<1>2. m \in casts \/ (Fire /\ m = Message("alert.new", Len(rows) + 1, "new"))
  <2>1. ASSUME NEW k \in Inserted, NEW s \in States, Change(k, s)
        PROVE  m \in casts
    <3>1. casts' \subseteq casts \cup {Message("alert.update", k, s)}
      BY <1>0, <2>1, RowChanges
    <3>2. Message("alert.update", k, s).type = "alert.update"
      BY <1>0, MessagesAreRecords
    <3> QED
      BY <1>1, <3>1, <3>2
  <2>2. CASE Fire
    BY <1>0, <1>1, <2>2, RowFired
  <2>3. CASE (\E x \in casts : Push(x)) \/ Receive \/ Connect \/ Cut
    BY <1>1, <2>3 DEF Push, Receive, Connect, Cut
  <2> QED
    BY <1>1, <2>1, <2>2, <2>3, FeedSteps
<1>3. m.id \in Nat /\ m.id <= Len(rows) + 1
  <2>1. CASE m \in casts
    BY <1>0, <2>1
  <2>2. CASE Fire /\ m = Message("alert.new", Len(rows) + 1, "new")
    BY <1>0, <2>2 DEF Message
  <2> QED
    BY <1>2, <2>1, <2>2
<1>4. i \in Inserted
  BY <1>0, <1>1, <1>3, OnlyFireInserts
<1>5. ~Cut
  BY <1>1 DEF Cut
<1>6. Settled(i) \/ \E q \in DOMAIN wire : New(wire[q], i)
  <2>1. CASE m \in casts
    BY <1>0, <1>1, <1>4, <2>1 DEF CastsInOrder
  <2>2. CASE Fire /\ m \notin casts
    <3>1. conn /\ IngestIsFree
      BY <1>0, <1>1, <2>2, RowFired DEF Fire
    <3>2. ~ \E x \in casts : New(x, i)
      BY <3>1 DEF IngestIsFree, New
    <3>3. Settled(i) \/ \E x \in casts \cup ToSet(wire) : New(x, i)
      BY <1>0, <1>4, <3>1 DEF AllAccounted
    <3>4. Settled(i) \/ \E x \in ToSet(wire) : New(x, i)
      BY <3>2, <3>3
    <3> QED
      BY <3>4 DEF ToSet
  <2> QED
    BY <1>2, <2>1, <2>2
<1>7. CASE Settled(i)
  BY <1>4, <1>7, SettledStays
<1>8. ASSUME NEW q \in DOMAIN wire, New(wire[q], i)
      PROVE  Settled(i)' \/ \E p \in DOMAIN wire' : New(wire'[p], i)
  <2>1. i \in Shown' \/ \E p \in DOMAIN wire' : New(wire'[p], i)
    BY <1>0, <1>4, <1>5, <1>8, WireKeeps
  <2> QED
    BY <2>1 DEF Settled
<1> QED
  BY <1>6, <1>7, <1>8

LEMMA WireInOrderKept ==
  ASSUME Types, Known, Accounted, [Next]_vars
  PROVE  WireInOrder'
<1>0. /\ HubTypes /\ Len(rows) \in Nat /\ Inserted \subseteq Ids /\ Ids \subseteq Nat
      /\ CastsInOrder /\ WireInOrder
      /\ wire \in Seq(MessageType) /\ DOMAIN wire = 1..Len(wire) /\ Len(wire) \in Nat
  BY HubGrows, ConstantsAreNumbers DEF Types, HubTypes, Accounted
<1>1. \A m \in casts \cup ToSet(wire) : m.id \in Nat /\ m.id <= Len(rows)
  BY <1>0 DEF Known, KnownMessages, Inserted
<1>2. SUFFICES ASSUME NEW i \in Inserted', NEW p \in DOMAIN wire',
                      wire'[p].type = "alert.new", i < wire'[p].id
               PROVE  Settled(i)' \/ \E q \in DOMAIN wire' : q < p /\ New(wire'[q], i)
  BY <1>2 DEF WireInOrder
<1>3. ASSUME i \in Inserted, Settled(i)
      PROVE  Settled(i)'
  BY <1>3, SettledStays
<1>4. CASE wire' = wire
  <2>1. wire[p] \in ToSet(wire) /\ wire'[p] = wire[p] /\ p \in DOMAIN wire
    BY <1>4 DEF ToSet
  <2>2. ~ (i = Len(rows) + 1)
    BY <1>0, <1>1, <1>2, <2>1
  <2>3. i \in Inserted
    BY <2>2, OnlyFireInserts
  <2>4. Settled(i) \/ \E q \in DOMAIN wire : q < p /\ New(wire[q], i)
    BY <1>0, <1>2, <2>1, <2>3 DEF WireInOrder
  <2> QED
    BY <1>3, <1>4, <2>3, <2>4
<1>5. ASSUME NEW m \in casts, Push(m)
      PROVE  Settled(i)' \/ \E q \in DOMAIN wire' : q < p /\ New(wire'[q], i)
  <2>1. wire' = Append(wire, m) /\ m \in MessageType /\ rows' = rows
    BY <1>0, <1>5 DEF Push, HubTypes
  <2>2. i \in Inserted
    BY <2>1 DEF Inserted
  <2>3. /\ DOMAIN wire' = 1..(Len(wire) + 1) /\ wire'[Len(wire) + 1] = m
        /\ \A k \in DOMAIN wire : k \in DOMAIN wire' /\ wire'[k] = wire[k]
    BY <1>0, <2>1
  <2>4. CASE p \in DOMAIN wire
    <3>1. Settled(i) \/ \E q \in DOMAIN wire : q < p /\ New(wire[q], i)
      BY <1>0, <1>2, <2>2, <2>3, <2>4 DEF WireInOrder
    <3> QED
      BY <1>3, <2>2, <2>3, <3>1
  <2>5. CASE p = Len(wire) + 1
    <3>1. Settled(i) \/ \E q \in DOMAIN wire : New(wire[q], i)
      BY <1>0, <1>2, <2>2, <2>3, <2>5 DEF CastsInOrder
    <3>2. \A q \in DOMAIN wire : q < p
      BY <1>0, <2>5
    <3> QED
      BY <1>3, <2>2, <2>3, <3>1, <3>2
  <2> QED
    BY <1>0, <2>3, <2>4, <2>5
<1>6. CASE Receive
  <2>1. PICK m \in MessageType :
           /\ m = wire[1] /\ (m.type = "alert.new" => m.id \in Shown')
           /\ DOMAIN wire' = 1..(Len(wire) - 1)
           /\ \A k \in DOMAIN wire' : wire'[k] = wire[k + 1]
    BY <1>6, Received
  <2>2. i \in Inserted
    BY <1>6 DEF Receive, Inserted
  <2>3. p + 1 \in DOMAIN wire /\ wire'[p] = wire[p + 1] /\ p \in Nat
    BY <1>0, <2>1
  <2>4. Settled(i) \/ \E q \in DOMAIN wire : q < p + 1 /\ New(wire[q], i)
    BY <1>0, <1>2, <2>2, <2>3 DEF WireInOrder
  <2>5. ASSUME NEW q \in DOMAIN wire, q < p + 1, New(wire[q], i)
        PROVE  Settled(i)' \/ \E r \in DOMAIN wire' : r < p /\ New(wire'[r], i)
    <3>1. CASE q = 1
      BY <2>1, <2>5, <3>1 DEF New, Settled
    <3>2. CASE q # 1
      <4>1. q - 1 \in DOMAIN wire' /\ (q - 1) + 1 = q /\ q - 1 < p
        BY <1>0, <2>1, <2>3, <2>5, <3>2
      <4>2. wire'[q - 1] = wire[q]
        BY <2>1, <4>1
      <4> QED
        BY <2>5, <4>1, <4>2
    <3> QED
      BY <3>1, <3>2
  <2> QED
    BY <1>3, <2>2, <2>4, <2>5
<1>7. CASE Cut
  BY <1>2, <1>7 DEF Cut
<1> QED
  BY <1>4, <1>5, <1>6, <1>7, FeedSteps DEF Fire, Connect

LEMMA AllAccountedKept ==
  ASSUME Types, Known, Accounted, [Next]_vars
  PROVE  AllAccounted'
<1>0. /\ HubTypes /\ PageTypes /\ Len(rows) \in Nat /\ Inserted \subseteq Ids /\ Ids \subseteq Nat
      /\ lastId \in Nat /\ lastId <= Len(rows) /\ AllAccounted
  BY HubGrows, ConstantsAreNumbers DEF Types, PageTypes, Known, KnownPage, Accounted
<1>a. lastId' \in Nat
  BY TypesKept, ConstantsAreNumbers DEF Types, PageTypes
<1>1. SUFFICES ASSUME NEW i \in Inserted'
               PROVE  \/ Settled(i)' \/ (~conn' /\ i > lastId')
                      \/ \E m \in casts' \cup ToSet(wire') : New(m, i)
  BY <1>1 DEF AllAccounted
<1>2. CASE Fire /\ i = Len(rows) + 1
  <2>1. lastId' = lastId /\ conn' = conn
    BY <1>2 DEF Fire
  <2>2. CASE conn
    <3>1. Message("alert.new", i, "new") \in casts'
      BY <1>0, <1>2, <2>2, RowFired
    <3>2. New(Message("alert.new", i, "new"), i)
      BY DEF New, Message
    <3> QED
      BY <3>1, <3>2
  <2> QED
    BY <1>0, <1>2, <2>1, <2>2
<1>3. SUFFICES ASSUME i \in Inserted
               PROVE  \/ Settled(i)' \/ (~conn' /\ i > lastId')
                      \/ \E m \in casts' \cup ToSet(wire') : New(m, i)
  BY <1>2, <1>3, OnlyFireInserts
<1>b. i \in Nat /\ i \in Ids
  BY <1>0, <1>3
<1>4. CASE Settled(i)
  BY <1>3, <1>4, SettledStays
<1>5. i <= lastId' => Settled(i)'
  BY LastSettledKept DEF LastSettled
<1>6. CASE Cut
  BY <1>a, <1>b, <1>5, <1>6 DEF Cut
<1>7. CASE ~conn /\ i > lastId
  <2>1. CASE Connect
    <3>1. PICK c : c = CatchUp
      OBVIOUS
    <3>2. PICK e \in Opens : e = opens + 1
      BY <1>0, <2>1, ConstantsAreNumbers DEF Connect, HubTypes, Opens
    <3>3. /\ catchUps' = [catchUps EXCEPT ![e] = c]
          /\ Forfeits(IF lastId > 0 THEN {} ELSE Inserted) /\ list' = list
      BY <2>1, <3>1, <3>2 DEF Connect
    <3>4. catchUps'[e] = c
      BY <3>3 DEF Types, CallTypes
    <3>5. CASE lastId > 0
      <4>1. c.st = "asked" /\ c.after = lastId
        BY <3>1, <3>5 DEF CatchUp, Call
      <4> QED
        BY <1>7, <3>4, <4>1 DEF Settled, Called, CalledBy
    <3>6. CASE ~(lastId > 0)
      <4>1. i \in forfeited' \/ i \in Shown
        BY <1>3, <3>3, <3>6 DEF Forfeits
      <4> QED
        BY <3>3, <4>1 DEF Settled, Shown
    <3> QED
      BY <3>5, <3>6
  <2>2. CASE conn' = conn
    BY <1>a, <1>b, <1>5, <1>7, <2>2
  <2> QED
    BY <1>7, <2>1, <2>2, FeedSteps DEF Fire, Push, Receive, Cut
<1>8. ASSUME NEW m \in casts, New(m, i), ~Cut
      PROVE  \E x \in casts' \cup ToSet(wire') : New(x, i)
  <2>1. CASE casts \subseteq casts'
    BY <1>8, <2>1
  <2>2. ASSUME NEW k \in Inserted, NEW s \in States, Change(k, s)
        PROVE  casts \subseteq casts'
    BY <1>0, <2>2, RowChanges
  <2>3. CASE Fire
    BY <2>1, <2>3 DEF Fire, Broadcast
  <2>4. ASSUME NEW x \in casts, Push(x)
        PROVE  m \in casts' \cup ToSet(wire')
    <3>1. x \in MessageType /\ wire \in Seq(MessageType)
      BY DEF Types, HubTypes
    <3>2. ToSet(wire') = ToSet(wire) \cup {x} /\ casts' = casts \ {x}
      BY <2>4, <3>1, WireMessages DEF Push
    <3> QED
      BY <3>2
  <2>5. CASE Receive \/ Connect
    BY <2>1, <2>5 DEF Receive, Connect
  <2> QED
    BY <1>8, <2>1, <2>2, <2>3, <2>4, <2>5, FeedSteps
<1>9. ASSUME NEW m \in ToSet(wire), New(m, i), ~Cut
      PROVE  Settled(i)' \/ \E x \in casts' \cup ToSet(wire') : New(x, i)
  <2>1. PICK q \in DOMAIN wire : wire[q] = m
    BY DEF ToSet
  <2>2. i \in Shown' \/ \E p \in DOMAIN wire' : New(wire'[p], i)
    BY <1>b, <1>9, <2>1, WireKeeps
  <2> QED
    BY <2>2 DEF Settled, ToSet
<1> QED
  BY <1>0, <1>3, <1>4, <1>6, <1>7, <1>8, <1>9 DEF AllAccounted

-----------------------------------------------------------------------------
(* What is shown is real.                                                  *)

(* A disposition goes on: what it asks for is the same.                    *)
Goes(u) ==
  /\ stages'[u].st = stages[u].st \/ (stages[u].st = "queued" /\ stages'[u].st = "sent")
  /\ stages'[u].target = stages[u].target /\ stages'[u].ids = stages[u].ids
  /\ stages'[u].prev = stages[u].prev

Staging(u) == \E x \in Targets, ids \in SUBSET Ids : Stage(u, x, ids)

LEMMA EntrySteps ==
  ASSUME Types, [Next]_vars, NEW u \in Stages
  PROVE  Goes(u) \/ Undo(u) \/ DispositionEnds(u) \/ DispositionFails(u) \/ Staging(u)
<1>0. StageTypes /\ PageTypes /\ stages[u] \in StageType
  BY DEF Types, StageTypes
<1>1. ASSUME stages'[u] = stages[u]
      PROVE  Goes(u)
  BY <1>1 DEF Goes
<1>2. CASE \/ UNCHANGED vars \/ Fire \/ \E i \in Ids : ChangeByOthers(i)
           \/ \E m \in casts : Push(m)
           \/ Receive \/ ServeLoad \/ LoadArrives \/ LoadFails \/ Connect \/ Cut
           \/ \E e \in Opens : ServeCatchUp(e) \/ CatchUpArrives(e) \/ CatchUpFails(e)
  <2>1. UNCHANGED stages
    BY <1>2 DEF vars, Fire, ChangeByOthers, Push, Receive, ServeLoad, LoadArrives, LoadFails,
                Connect, Cut, ServeCatchUp, CatchUpArrives, CatchUpFails
  <2> QED
    BY <1>1, <2>1
<1>3. ASSUME u \in Queued, stages'[u] = Flushed(stages[u])
      PROVE  Goes(u)
  <2>1. PICK c \in StageType : c = stages[u]
    BY <1>0
  <2>2. /\ Flushed(c).st = "sent" /\ Flushed(c).target = c.target /\ Flushed(c).ids = c.ids
        /\ Flushed(c).prev = c.prev
    BY FlushedEntry
  <2> QED
    BY <1>3, <2>1, <2>2 DEF Goes, Queued
<1>4. ASSUME NEW t \in Stages, NEW d, OnlyEntry(t, d), u # t
      PROVE  Goes(u)
  BY <1>1, <1>4 DEF OnlyEntry
<1>5. ASSUME NEW t \in Stages, Timer(t)
      PROVE  Goes(u)
  <2>1. PICK d : d = Flushed(stages[t])
    OBVIOUS
  <2>2. OnlyEntry(t, d) /\ t \in Queued
    BY <1>0, <1>5, <2>1, TimerEntries
  <2>3. CASE u = t
    BY <1>3, <2>1, <2>2, <2>3 DEF OnlyEntry
  <2> QED
    BY <1>4, <2>2, <2>3
<1>6. ASSUME NEW t \in Stages, Undo(t)
      PROVE  Goes(u) \/ Undo(u)
  <2>1. PICK d : d = Undone(stages[t])
    OBVIOUS
  <2>2. OnlyEntry(t, d)
    BY <1>0, <1>6, <2>1, UndoEntries
  <2> QED
    BY <1>4, <1>6, <2>2
<1>7. ASSUME NEW t \in Stages, DispositionEnds(t)
      PROVE  Goes(u) \/ DispositionEnds(u)
  <2>1. PICK d : d = [Unstaged EXCEPT !.st = "ended"]
    OBVIOUS
  <2>2. OnlyEntry(t, d)
    BY <1>0, <1>7, <2>1, EndEntries
  <2> QED
    BY <1>4, <1>7, <2>2
<1>8. ASSUME NEW t \in Stages, DispositionFails(t)
      PROVE  Goes(u) \/ DispositionFails(u)
  <2>1. PICK d \in StageType : OnlyEntry(t, d)
    BY <1>0, <1>8, FailEntries
  <2> QED
    BY <1>4, <1>8, <2>1
<1>9. ASSUME NEW t \in Stages, ServeDisposition(t)
      PROVE  Goes(u)
  <2>1. PICK d \in StageType :
          /\ OnlyEntry(t, d) /\ d.st = stages[t].st
          /\ d.target = stages[t].target /\ d.ids = stages[t].ids /\ d.prev = stages[t].prev
    BY <1>0, <1>9, ServeEntries
  <2>2. CASE u = t
    BY <2>1, <2>2 DEF OnlyEntry, Goes
  <2> QED
    BY <1>4, <2>1, <2>2
<1>10. ASSUME NEW t \in Stages, NEW x \in Targets, NEW ids \in SUBSET Ids, Stage(t, x, ids)
       PROVE  Goes(u) \/ Staging(u)
  <2>1. Staged(t, x, ids)
    BY <1>0, <1>10, StageEntries
  <2>2. CASE u = t
    BY <1>10, <2>2 DEF Staging
  <2>3. CASE u \in Queued
    BY <1>3, <2>1, <2>3 DEF Staged
  <2>4. CASE u \in Stages \ (Queued \cup {t})
    BY <1>1, <2>1, <2>4 DEF Staged
  <2> QED
    BY <2>2, <2>3, <2>4
<1> QED
  BY <1>2, <1>5, <1>6, <1>7, <1>8, <1>9, <1>10 DEF Next

(* What failed remains so.                                                 *)
LEMMA NoneFailedBefore ==
  ASSUME Types, [Next]_vars, NoneFailed'
  PROVE  NoneFailed /\ \A t \in Stages : ~DispositionFails(t)
<1>1. ASSUME NEW t \in Stages, DispositionFails(t)
      PROVE  FALSE
  <2>1. PICK d \in StageType : OnlyEntry(t, d) /\ d.st = "failed"
    BY <1>1, FailEntries DEF Types
  <2> QED
    BY <2>1 DEF OnlyEntry, NoneFailed
<1>2. ASSUME NEW t \in Stages, stages[t].st = "failed"
      PROVE  FALSE
  <2>1. ~Undo(t) /\ ~DispositionEnds(t) /\ ~Staging(t)
    BY <1>2 DEF Undo, Queued, DispositionEnds, Staging, Stage
  <2>2. Goes(t)
    BY <1>1, <2>1, EntrySteps
  <2> QED
    BY <1>2, <2>2 DEF Goes, NoneFailed
<1> QED
  BY <1>1, <1>2 DEF NoneFailed

(* What has been asked for after a step.                                   *)
AskedNext(i, s, kinds) ==
  \E t \in Stages : stages'[t].st \in kinds /\ i \in stages'[t].ids /\ s = stages'[t].target

(* A state that an undo may put back remains one.                          *)
LEMMA RestorableStays ==
  ASSUME Types, Known, RealStages, [Next]_vars, NoneFailed', NEW i \in Ids, NEW s,
         s \in had[i] \/ AskedFor(i, s, {"sent"})
  PROVE  s \in had'[i] \/ AskedNext(i, s, {"sent"})
<1>1. had[i] \subseteq had'[i]
  BY HubGrows
<1>2. ASSUME NEW u \in Stages, stages[u].st = "sent", i \in stages[u].ids, s = stages[u].target
      PROVE  s \in had'[i] \/ AskedNext(i, s, {"sent"})
  <2>1. ~Undo(u) /\ ~Staging(u) /\ ~DispositionFails(u)
    BY <1>2, NoneFailedBefore DEF Undo, Queued, Staging, Stage
  <2>2. CASE Goes(u)
    BY <1>2, <2>2 DEF Goes, AskedNext
  <2>3. CASE DispositionEnds(u)
    <3>1. stages[u].todo = {}
      BY <2>3 DEF DispositionEnds
    <3>2. s \in had[i]
      BY <1>2, <3>1 DEF RealStages
    <3> QED
      BY <1>1, <3>2
  <2> QED
    BY <2>1, <2>2, <2>3, EntrySteps
<1> QED
  BY <1>1, <1>2 DEF AskedFor

LEMMA RestorableKept ==
  ASSUME Types, Known, RealStages, Honest, [Next]_vars, NoneFailed'
  PROVE  Restorable'
<1>0. StageTypes /\ PageTypes /\ \A t \in Stages : stages[t] \in StageType
  BY DEF Types, StageTypes
<1>a. /\ Restorable /\ \A i \in Ids : had[i] \subseteq had'[i]
      /\ \A i \in Shown : list[i] \in had[i] \/ AskedFor(i, list[i], {"queued", "sent"})
  BY HubGrows, NoneFailedBefore DEF Honest
<1>1. SUFFICES ASSUME NEW t \in Stages, stages'[t].st \in {"queued", "sent"}
               PROVE  /\ DOMAIN stages'[t].prev = stages'[t].ids
                      /\ \A i \in stages'[t].ids : \/ stages'[t].prev[i] \in had'[i]
                                                   \/ AskedNext(i, stages'[t].prev[i], {"sent"})
  BY <1>1 DEF Restorable, AskedFor, AskedNext
<1>2. CASE Goes(t)
  <2>1. /\ stages[t].st \in {"queued", "sent"}
        /\ stages'[t].ids = stages[t].ids /\ stages'[t].prev = stages[t].prev
    BY <1>1, <1>2 DEF Goes
  <2>2. DOMAIN stages[t].prev = stages[t].ids
    BY <1>a, <2>1 DEF Restorable
  <2>3. ASSUME NEW i \in stages[t].ids
        PROVE  stages[t].prev[i] \in had'[i] \/ AskedNext(i, stages[t].prev[i], {"sent"})
    <3>1. i \in Ids
      BY <1>0, EntriesAreRecords
    <3>2. stages[t].prev[i] \in had[i] \/ AskedFor(i, stages[t].prev[i], {"sent"})
      BY <1>a, <2>1 DEF Restorable
    <3> QED
      BY <3>1, <3>2, RestorableStays
  <2> QED
    BY <2>1, <2>2, <2>3
<1>3. ASSUME NEW x \in Targets, NEW ids \in SUBSET Ids, Stage(t, x, ids)
      PROVE  /\ DOMAIN stages'[t].prev = stages'[t].ids
             /\ \A i \in stages'[t].ids : \/ stages'[t].prev[i] \in had'[i]
                                          \/ AskedNext(i, stages'[t].prev[i], {"sent"})
  <2>1. Staged(t, x, ids)
    BY <1>0, <1>3, StageEntries
  <2>2. DOMAIN stages'[t].prev = ids /\ stages'[t].ids = ids
        /\ \A i \in ids : stages'[t].prev[i] = list[i]
    BY <2>1 DEF Staged
  <2>3. ASSUME NEW i \in ids
        PROVE  list[i] \in had'[i] \/ AskedNext(i, list[i], {"sent"})
    <3>1. list[i] \in had[i] \/ AskedFor(i, list[i], {"queued", "sent"})
      BY <1>a, <1>3 DEF Stage
    <3>2. CASE list[i] \in had[i] \/ AskedFor(i, list[i], {"sent"})
      BY <3>2, RestorableStays
    <3>3. ASSUME NEW u \in Stages, stages[u].st = "queued", i \in stages[u].ids,
                 list[i] = stages[u].target
          PROVE  AskedNext(i, list[i], {"sent"})
      <4>1. u \in Queued
        BY <3>3 DEF Queued
      <4>2. stages'[u] = Flushed(stages[u])
        BY <2>1, <4>1 DEF Staged
      <4>3. PICK c \in StageType : c = stages[u]
        BY <1>0
      <4>4. Flushed(c).st = "sent" /\ Flushed(c).target = c.target /\ Flushed(c).ids = c.ids
        BY FlushedEntry
      <4> QED
        BY <3>3, <4>2, <4>3, <4>4 DEF AskedNext
    <3> QED
      BY <3>1, <3>2, <3>3 DEF AskedFor
  <2> QED
    BY <2>2, <2>3
<1>4. CASE Undo(t)
  <2>1. PICK d : d = Undone(stages[t])
    OBVIOUS
  <2>2. stages'[t] = d /\ d.st = "undone"
    BY <1>0, <1>4, <2>1, UndoEntries, UndoneEntry DEF OnlyEntry
  <2> QED
    BY <1>1, <2>2
<1>5. CASE DispositionEnds(t)
  <2>1. PICK d : d = [Unstaged EXCEPT !.st = "ended"]
    OBVIOUS
  <2>2. OnlyEntry(t, d) /\ d.st = "ended"
    BY <1>0, <1>5, <2>1, EndEntries, EndedEntry
  <2> QED
    BY <1>1, <2>2 DEF OnlyEntry
<1> QED
  BY <1>2, <1>3, <1>4, <1>5, EntrySteps, NoneFailedBefore DEF Staging

(* A state that the page shows is a real one for as long as it is not      *)
(* undone.                                                                 *)
LEMMA RealStays ==
  ASSUME Types, Known, RealStages, [Next]_vars, NoneFailed', NEW i \in Ids, NEW s,
         \A t \in Stages : Undo(t) => i \notin stages[t].ids,
         s \in had[i] \/ AskedFor(i, s, {"queued", "sent"})
  PROVE  s \in had'[i] \/ AskedNext(i, s, {"queued", "sent"})
<1>1. CASE s \in had[i] \/ AskedFor(i, s, {"sent"})
  BY <1>1, RestorableStays DEF AskedNext
<1>2. ASSUME NEW u \in Stages, stages[u].st = "queued", i \in stages[u].ids, s = stages[u].target
      PROVE  AskedNext(i, s, {"queued", "sent"})
  <2>1. ~Undo(u) /\ ~DispositionEnds(u) /\ ~Staging(u) /\ ~DispositionFails(u)
    BY <1>2, NoneFailedBefore DEF DispositionEnds, Staging, Stage
  <2>2. Goes(u)
    BY <2>1, EntrySteps
  <2> QED
    BY <1>2, <2>2 DEF Goes, AskedNext
<1> QED
  BY <1>1, <1>2 DEF AskedFor

(* Steps other than dispositions show states that the row had.             *)
LEMMA ListSteps ==
  ASSUME Types, Known, RealMessages, RealCalls, [Next]_vars, NEW i \in Shown'
  PROVE  \/ i \in Shown /\ list'[i] = list[i]
         \/ list'[i] \in had[i]
         \/ \E t \in Stages : Staging(t) \/ Undo(t) \/ DispositionEnds(t) \/ DispositionFails(t)
<1>0. PageTypes /\ i \in Ids
  BY DEF Types, Shown
<1>1. CASE UNCHANGED list
  BY <1>1 DEF Shown
<1>2. ASSUME NEW got \in Answers, Upserted(got), \A k \in DOMAIN got : got[k] \in had[k]
      PROVE  (i \in Shown /\ list'[i] = list[i]) \/ list'[i] \in had[i]
  <2>1. /\ \A k \in DOMAIN got : list'[k] = got[k]
        /\ \A k \in Ids \ DOMAIN got : list'[k] = list[k]
        /\ Shown' = Shown \cup DOMAIN got
    BY <1>0, <1>2, Upserts
  <2> QED
    BY <1>0, <1>2, <2>1
<1>3. CASE LoadArrives
  <2>1. Shown' = DOMAIN load.got /\ \A k \in DOMAIN load.got : list'[k] = load.got[k]
    BY <1>3, Loads
  <2> QED
    BY <2>1 DEF RealCalls
<1>4. CASE Receive
  <2>1. PICK m : m = Head(wire)
    OBVIOUS
  <2>2. m \in MessageType /\ m \in ToSet(wire)
    BY <1>4, <2>1, WireMessages DEF Receive, Types, HubTypes
  <2>3. PICK got : got = [k \in {m.id} |-> m.state]
    OBVIOUS
  <2>4. got \in Answers
    <3>1. m.id \in Ids /\ m.state \in States
      BY <2>2 DEF MessageType
    <3>2. got \in [{m.id} -> States] /\ {m.id} \in SUBSET Ids
      BY <2>3, <3>1
    <3> QED
      BY <3>2, AnswersAreFunctions
  <2>5. \A k \in DOMAIN got : got[k] \in had[k]
    BY <2>2, <2>3 DEF RealMessages
  <2>6. Upserted(got) \/ UNCHANGED list
    BY <1>4, <2>1, <2>3 DEF Receive
  <2> QED
    BY <1>1, <1>2, <2>4, <2>5, <2>6
<1>5. ASSUME NEW e \in Opens, CatchUpArrives(e)
      PROVE  (i \in Shown /\ list'[i] = list[i]) \/ list'[i] \in had[i]
  <2>1. PICK got \in Answers : got = catchUps[e].got
    BY CallsAreRecords DEF Types, CallTypes
  <2>2. Upserted(got) /\ \A k \in DOMAIN got : got[k] \in had[k]
    BY <1>5, <2>1 DEF CatchUpArrives, RealCalls
  <2> QED
    BY <1>2, <2>2
<1> QED
  BY <1>1, <1>3, <1>4, <1>5 DEF Next, vars, history, Fire, ChangeByOthers, Push, ServeLoad,
     LoadFails, Connect, Cut, ServeCatchUp, CatchUpFails, Timer, ServeDisposition, Staging

LEMMA HonestKept ==
  ASSUME Types, Known, Real, Honest, [Next]_vars
  PROVE  Honest'
<1>0. /\ StageTypes /\ PageTypes /\ \A t \in Stages : stages[t] \in StageType
      /\ RealStages /\ RealMessages /\ RealCalls
  BY DEF Types, StageTypes, Real
<1>1. SUFFICES ASSUME NoneFailed', NEW i \in Shown'
               PROVE  list'[i] \in had'[i] \/ AskedNext(i, list'[i], {"queued", "sent"})
  <2>1. NoneFailed' => Restorable'
    BY <1>0, RestorableKept
  <2> QED
    BY <1>1, <2>1 DEF Honest, AskedFor, AskedNext
<1>a. /\ Restorable /\ i \in Ids /\ had[i] \subseteq had'[i]
      /\ \A k \in Shown : list[k] \in had[k] \/ AskedFor(k, list[k], {"queued", "sent"})
      /\ \A t \in Stages : ~DispositionFails(t)
  <2>1. i \in Ids
    BY DEF Shown
  <2>2. NoneFailed /\ \A t \in Stages : ~DispositionFails(t)
    BY <1>1, NoneFailedBefore
  <2>3. \A k \in Ids : had[k] \subseteq had'[k]
    BY HubGrows
  <2> QED
    BY <2>1, <2>2, <2>3 DEF Honest
<1>2. ASSUME i \in Shown, list'[i] = list[i],
             \A t \in Stages : Undo(t) => i \notin stages[t].ids
      PROVE  list'[i] \in had'[i] \/ AskedNext(i, list'[i], {"queued", "sent"})
  <2>1. PICK s : s = list[i]
    OBVIOUS
  <2>2. s \in had[i] \/ AskedFor(i, s, {"queued", "sent"})
    BY <1>a, <1>2, <2>1
  <2>3. s \in had'[i] \/ AskedNext(i, s, {"queued", "sent"})
    BY <1>0, <1>1, <1>a, <1>2, <2>2, RealStays
  <2> QED
    BY <1>2, <2>1, <2>3
<1>3. ASSUME NEW t \in Stages, NEW x \in Targets, NEW ids \in SUBSET Ids, Stage(t, x, ids)
      PROVE  list'[i] \in had'[i] \/ AskedNext(i, list'[i], {"queued", "sent"})
  <2>1. /\ list' = [k \in Ids |-> IF k \in ids THEN x ELSE list[k]] /\ ids \subseteq Shown
    BY <1>3 DEF Stage
  <2>a. Staged(t, x, ids)
    BY <1>0, <1>3, StageEntries
  <2>2. stages'[t].st = "queued" /\ stages'[t].target = x /\ stages'[t].ids = ids
    BY <2>a DEF Staged
  <2>3. CASE i \in ids
    BY <1>a, <2>1, <2>2, <2>3 DEF AskedNext
  <2>4. CASE i \notin ids
    <3>1. list'[i] = list[i] /\ i \in Shown
      BY <1>1, <1>a, <2>1, <2>4 DEF Shown
    <3>2. ASSUME NEW u \in Stages, Undo(u)
          PROVE  FALSE
      <4>1. u \in Queued /\ Undone(stages[u]).st = "undone" /\ stages'[u] = Undone(stages[u])
        BY <1>0, <3>2, UndoEntries, UndoneEntry DEF OnlyEntry
      <4>2. stages'[u] = Flushed(stages[u]) /\ Flushed(stages[u]).st = "sent"
        BY <1>0, <2>a, <4>1, FlushedEntry DEF Staged
      <4> QED
        BY <4>1, <4>2
    <3> QED
      BY <1>2, <3>1, <3>2
  <2> QED
    BY <2>3, <2>4
<1>4. ASSUME NEW t \in Stages, Undo(t)
      PROVE  list'[i] \in had'[i] \/ AskedNext(i, list'[i], {"queued", "sent"})
  <2>1. PICK prev \in Answers : prev = stages[t].prev
    BY <1>0, EntriesAreRecords
  <2>2. /\ Shown' = Shown /\ \A k \in DOMAIN prev \cap Shown : list'[k] = prev[k]
        /\ \A k \in Ids \ DOMAIN prev : list'[k] = list[k]
    BY <1>0, <1>4, <2>1, Restores DEF Undo
  <2>3. t \in Queued /\ stages[t].st = "queued"
    BY <1>4 DEF Undo, Queued
  <2>4. DOMAIN prev = stages[t].ids
        /\ \A k \in stages[t].ids : prev[k] \in had[k] \/ AskedFor(k, prev[k], {"sent"})
    BY <1>a, <2>1, <2>3 DEF Restorable
  <2>5. CASE i \in DOMAIN prev
    <3>1. PICK s : s = prev[i]
      OBVIOUS
    <3>2. list'[i] = s /\ (s \in had[i] \/ AskedFor(i, s, {"sent"}))
      BY <1>1, <2>2, <2>4, <2>5, <3>1
    <3>3. s \in had'[i] \/ AskedNext(i, s, {"sent"})
      BY <1>0, <1>1, <1>a, <3>2, RestorableStays
    <3> QED
      BY <3>2, <3>3 DEF AskedNext
  <2>6. CASE i \notin DOMAIN prev
    <3>1. ASSUME NEW u \in Stages, Undo(u)
          PROVE  i \notin stages[u].ids
      <4>1. u \in Queued
        BY <3>1 DEF Undo
      <4>2. u = t
        BY <1>0, <2>3, <4>1 DEF StageTypes
      <4> QED
        BY <2>4, <2>6, <4>2
    <3> QED
      BY <1>1, <1>2, <1>a, <2>2, <2>6, <3>1
  <2> QED
    BY <2>5, <2>6
<1>5. ASSUME NEW t \in Stages, DispositionEnds(t)
      PROVE  list'[i] \in had'[i] \/ AskedNext(i, list'[i], {"queued", "sent"})
  <2>1. PICK got \in Answers :
          /\ list' = [k \in Ids |-> IF k \in DOMAIN got /\ k \in Shown THEN got[k] ELSE list[k]]
          /\ got = stages[t].done \/ got = NoRows
    BY <1>0, <1>5, EntriesAreRecords, AnswersAreFunctions DEF DispositionEnds
  <2>2. \A k \in DOMAIN got : got[k] \in had[k]
    BY <1>0, <2>1, AnswersAreFunctions DEF RealStages
  <2>3. /\ Shown' = Shown /\ \A k \in DOMAIN got \cap Shown : list'[k] = got[k]
        /\ \A k \in Ids \ DOMAIN got : list'[k] = list[k]
    BY <1>0, <2>1, ListKept
  <2>4. CASE i \in DOMAIN got
    BY <1>1, <1>a, <2>2, <2>3, <2>4
  <2>5. CASE i \notin DOMAIN got
    <3>1. ASSUME NEW u \in Stages, Undo(u)
          PROVE  FALSE
      <4>1. u \in Queued /\ stages'[u] = Undone(stages[u]) /\ Undone(stages[u]).st = "undone"
        BY <1>0, <3>1, UndoEntries, UndoneEntry DEF OnlyEntry
      <4>2. u # t
        BY <1>5, <4>1 DEF DispositionEnds, Queued
      <4>3. stages'[u] = stages[u]
        BY <1>0, <1>5, <4>2, EndEntries DEF OnlyEntry
      <4> QED
        BY <4>1, <4>3 DEF Queued
    <3> QED
      BY <1>1, <1>2, <1>a, <2>3, <2>5, <3>1
  <2> QED
    BY <2>4, <2>5
<1>6. CASE \E t \in Stages : Staging(t) \/ Undo(t) \/ DispositionEnds(t) \/ DispositionFails(t)
  BY <1>3, <1>4, <1>5, <1>6, <1>a DEF Staging
<1>7. CASE ~ \E t \in Stages : Staging(t) \/ Undo(t) \/ DispositionEnds(t) \/ DispositionFails(t)
  <2>1. (i \in Shown /\ list'[i] = list[i]) \/ list'[i] \in had[i]
    BY <1>0, <1>1, <1>7, ListSteps
  <2> QED
    BY <1>2, <1>7, <1>a, <2>1
<1> QED
  BY <1>6, <1>7

-----------------------------------------------------------------------------
(* The invariant.                                                          *)

LEMMA InvInitially == Init => Inv
<1> SUFFICES ASSUME Init
             PROVE  Inv
  OBVIOUS
<1> USE DEF Init
<1>0. /\ MaxAlerts \in Nat /\ Stored \in 0..MaxAlerts /\ "new" \in States /\ Stored \in Nat
      /\ DOMAIN NoRows = {} /\ NoRows \in Answers /\ Ids \subseteq Nat /\ Opens \subseteq Nat
      /\ MaxOpens \in Nat /\ MaxEvents \in Nat
  BY ConstantsAreNumbers, AnswersAreFunctions
<1>1. Shown = {} /\ \A i \in Ids : i > 0
  BY <1>0 DEF Shown, Ids
<1>2. rows \in Seq(States) /\ Len(rows) = Stored /\ DOMAIN rows = 1..Stored
      /\ \A i \in 1..Stored : rows[i] = "new"
  BY <1>0
<1>3. /\ wire \in Seq(MessageType) /\ DOMAIN wire = {} /\ ToSet(wire) = {}
      /\ casts \cup ToSet(wire) = {}
  <2>1. wire \in Seq(MessageType)
    OBVIOUS
  <2>2. DOMAIN wire = {}
    OBVIOUS
  <2> QED
    BY <2>1, <2>2 DEF ToSet
<1>4. /\ load \in CallType /\ load.st = "asked" /\ load.got = NoRows
      /\ \A e \in Opens : /\ catchUps[e] \in CallType /\ catchUps[e].st = "unused"
                          /\ catchUps[e].after = 0 /\ catchUps[e].got = NoRows
  BY <1>0, CallsAreRecords
<1>5. \A t \in Stages : stages[t] = Unstaged
  OBVIOUS
<1>6. Types
  <2>1. HubTypes
    <3>1. casts = {} /\ conn = FALSE /\ opens = 0 /\ changes = 0
      OBVIOUS
    <3>2. had \in [Ids -> SUBSET States]
      BY <1>0
    <3>3. Len(rows) \in Stored..MaxAlerts /\ 0 \in 0..MaxOpens /\ 0 \in 0..MaxEvents
      BY <1>0, <1>2
    <3> HIDE DEF Init
    <3> QED
      BY <1>2, <1>3, <3>1, <3>2, <3>3 DEF HubTypes
  <2>2. PageTypes
    BY <1>0 DEF PageTypes
  <2>3. CallTypes
    BY <1>4 DEF CallTypes
  <2>4. StageTypes
    BY <1>5, ClearedEntries DEF StageTypes, Queued
  <2> QED
    BY <2>1, <2>2, <2>3, <2>4 DEF Types
<1>7. Known
  <2>1. KnownPage /\ KnownMessages
    BY <1>0, <1>1, <1>2, <1>3 DEF KnownPage, KnownMessages
  <2>2. KnownCalls
    BY <1>0, <1>2, <1>4 DEF KnownCalls
  <2>3. KnownStages
    BY <1>5, ClearedEntries DEF KnownStages
  <2> QED
    BY <2>1, <2>2, <2>3 DEF Known
<1>8. Ringing
  BY DEF Ringing
<1>9. Accounted
  <2>1. \A i \in Inserted : Settled(i)
    BY <1>4 DEF Settled, Called
  <2>2. Gaps
    BY <1>4 DEF Gaps
  <2> QED
    BY <2>1, <2>2
       DEF Accounted, LastSettled, AfterSettled, CastsInOrder, WireInOrder, AllAccounted
<1>10. Real
  <2>1. RealRows /\ RealMessages
    BY <1>2, <1>3 DEF RealRows, RealMessages, Inserted
  <2>2. RealCalls
    BY <1>0, <1>4 DEF RealCalls
  <2>3. RealStages
    BY <1>0, <1>5, ClearedEntries DEF RealStages
  <2> QED
    BY <2>1, <2>2, <2>3 DEF Real
<1>11. Honest
  BY <1>1, <1>5, ClearedEntries DEF Honest, Restorable
<1> QED
  BY <1>6, <1>7, <1>8, <1>9, <1>10, <1>11 DEF Inv

LEMMA InvKept == Inv /\ [Next]_vars => Inv'
<1> SUFFICES ASSUME Inv, [Next]_vars
             PROVE  Inv'
  OBVIOUS
<1>0. /\ Types /\ Known /\ Ringing /\ Accounted /\ Real /\ Honest /\ Gaps
      /\ RealRows /\ RealMessages /\ RealCalls /\ RealStages
  BY DEF Inv, Accounted, Real
<1>1. Types'
  BY <1>0, TypesKept
<1>2. Known'
  BY <1>0, PageKept, MessagesKept, CallsKept, EntriesKept DEF Known
<1>3. Ringing'
  BY <1>0, RingingKept
<1>4. Accounted'
  BY <1>0, GapsKept, LastSettledKept, AfterSettledKept, CastsInOrderKept, WireInOrderKept,
     AllAccountedKept DEF Accounted
<1>5. Real'
  BY <1>0, RowsKept, MessagesKept, CallsKept, EntriesKept DEF Real
<1>6. Honest'
  BY <1>0, HonestKept
<1> QED
  BY <1>1, <1>2, <1>3, <1>4, <1>5, <1>6 DEF Inv

LEMMA InvHolds == Spec => []Inv
  BY InvInitially, InvKept, PTL DEF Spec

(* The console rings once for an alert, however its push and the catch-ups *)
(* of any number of connections overlap, unless a page load took it off    *)
(* the list in between.                                                    *)
THEOREM RingsOnceHolds == Spec => []RingsOnce
<1>1. Inv => RingsOnce
  BY DEF Inv, Ringing, RingsOnce
<1> QED
  BY <1>1, InvHolds, PTL

(* No alert is lost between the push and the catch-up: one that is not     *)
(* shown is on its way, or was given up by a call that is to blame for it. *)
THEOREM NoAlertIsLost == Spec => []NoneSlipsThrough
<1>1. ASSUME Inv
      PROVE  NoneSlipsThrough
  <2>1. AllAccounted
    BY <1>1 DEF Inv, Accounted
  <2>2. ASSUME NEW i \in Inserted
        PROVE  i \in Shown \/ Owed(i) \/ i \in forfeited
    BY <2>1 DEF AllAccounted, Settled, Called, CalledBy, New, Owed
  <2> QED
    BY <2>2 DEF NoneSlipsThrough
<1> QED
  BY <1>1, InvHolds, PTL

(* While no disposition has failed, every row shows a state that it had at *)
(* the hub or one that this browser has asked for, however pushes, undos   *)
(* and answers overlap.                                                    *)
THEOREM NoGuessStays == Spec => []ShownIsReal
<1>1. Inv => ShownIsReal
  BY DEF Inv, Honest, NoneFailed, AskedFor, ShownIsReal
<1> QED
  BY <1>1, InvHolds, PTL

(* A disposition that was undone never reaches the hub, whatever is staged *)
(* before or after it.                                                     *)
THEOREM UndoneStaysUndone == Spec => UndoneNeverSent
<1> DEFINE Untouched == \A t \in Stages : stages[t].st = "undone" => stages'[t] = stages[t]
<1>1. ASSUME Inv, [Next]_vars
      PROVE  Untouched
  <2>1. SUFFICES ASSUME NEW t \in Stages, stages[t].st = "undone"
                 PROVE  stages'[t] = stages[t]
    OBVIOUS
  <2>2. /\ StageTypes /\ PageTypes /\ Types /\ ~stages[t].timer /\ stages[t].todo = {}
        /\ t \notin Queued
    BY <1>1, <2>1 DEF Inv, Types, StageTypes, Queued
  <2>3. ASSUME NEW u \in Stages, NEW d, OnlyEntry(u, d), u # t
        PROVE  stages'[t] = stages[t]
    BY <2>3 DEF OnlyEntry
  <2>4. ASSUME NEW u \in Stages, Timer(u)
        PROVE  stages'[t] = stages[t]
    <3>1. u # t
      BY <2>2, <2>4 DEF Timer
    <3> QED
      BY <2>2, <2>3, <2>4, <3>1, TimerEntries
  <2>5. ASSUME NEW u \in Stages, Undo(u)
        PROVE  stages'[t] = stages[t]
    <3>1. u # t
      BY <2>2, <2>5 DEF Undo
    <3> QED
      BY <2>2, <2>3, <2>5, <3>1, UndoEntries
  <2>6. ASSUME NEW u \in Stages, DispositionEnds(u)
        PROVE  stages'[t] = stages[t]
    <3>1. u # t
      BY <2>1, <2>6 DEF DispositionEnds
    <3> QED
      BY <2>2, <2>3, <2>6, <3>1, EndEntries
  <2>7. ASSUME NEW u \in Stages, DispositionFails(u)
        PROVE  stages'[t] = stages[t]
    <3>1. u # t
      BY <2>1, <2>7 DEF DispositionFails
    <3>2. PICK d \in StageType : OnlyEntry(u, d)
      BY <2>2, <2>7, FailEntries
    <3> QED
      BY <2>3, <3>1, <3>2
  <2>8. ASSUME NEW u \in Stages, ServeDisposition(u)
        PROVE  stages'[t] = stages[t]
    <3>1. u # t
      BY <2>2, <2>8 DEF ServeDisposition
    <3>2. PICK d \in StageType : OnlyEntry(u, d)
      BY <2>2, <2>8, ServeEntries
    <3> QED
      BY <2>3, <3>1, <3>2
  <2>9. ASSUME NEW u \in Stages, NEW x \in Targets, NEW ids \in SUBSET Ids, Stage(u, x, ids)
        PROVE  stages'[t] = stages[t]
    <3>1. u # t
      BY <2>1, <2>9 DEF Stage
    <3>2. Staged(u, x, ids)
      BY <2>2, <2>9, StageEntries
    <3> QED
      BY <2>2, <3>1, <3>2 DEF Staged
  <2> QED
    BY <1>1, <2>4, <2>5, <2>6, <2>7, <2>8, <2>9
       DEF Next, vars, Fire, ChangeByOthers, Push, Receive, ServeLoad, LoadArrives, LoadFails,
           Connect, Cut, ServeCatchUp, CatchUpArrives, CatchUpFails
<1>2. Inv /\ [Next]_vars => [Untouched]_vars
  BY <1>1
<1> QED
  BY <1>2, InvHolds, PTL DEF Spec, UndoneNeverSent

(* Every variable has its type, and at most one disposition is queued.     *)
THEOREM TypesHold == Spec => []TypeOK
<1>1. ASSUME Inv
      PROVE  TypeOK
  <2>0. HubTypes /\ PageTypes /\ CallTypes /\ StageTypes
    BY <1>1 DEF Inv, Types
  <2>1. casts \cup ToSet(wire) \subseteq MessageType
    BY <2>0, WireMessages DEF HubTypes
  <2>2. \A got \in Answers : HoldsRows(got)
    BY AnswersAreFunctions DEF HoldsRows
  <2>3. \A c \in CallType : HoldsRows(c.got) /\ c.st \in {"unused", "asked", "answered", "done"}
    BY <2>2, CallsAreRecords
  <2>4. /\ load.st \in {"asked", "answered", "done"} /\ HoldsRows(load.got)
        /\ \A e \in Opens : /\ catchUps[e].st \in {"unused", "asked", "answered", "done"}
                            /\ HoldsRows(catchUps[e].got)
    BY <2>0, <2>3 DEF CallTypes
  <2>5. ASSUME NEW t \in Stages
        PROVE  /\ stages[t].st \in {"unused", "queued", "undone", "sent", "failed", "ended"}
               /\ HoldsRows(stages[t].prev) /\ HoldsRows(stages[t].done)
               /\ stages[t].ids \cup stages[t].todo \subseteq Ids
               /\ stages[t].timer <=> t \in Queued
    <3>1. PICK c \in StageType : c = stages[t]
      BY <2>0 DEF StageTypes
    <3> QED
      BY <2>0, <2>2, <3>1, EntriesAreRecords DEF StageTypes, Standings
  <2>6. Cardinality(Queued) <= 1
    <3>1. CASE Queued = {}
      BY <3>1, FS_EmptySet
    <3>2. ASSUME NEW t \in Queued
          PROVE  Cardinality(Queued) <= 1
      <4>1. Queued = {t}
        BY <2>0 DEF StageTypes
      <4>2. Cardinality({t}) = 1
        BY FS_Singleton
      <4> QED
        BY <4>1, <4>2
    <3> QED
      BY <3>1, <3>2
  <2>7. /\ rows \in Seq(States) /\ Len(rows) <= MaxAlerts
        /\ conn \in BOOLEAN /\ opens \in 0..MaxOpens
        /\ changes \in 0..MaxEvents /\ had \in [Ids -> SUBSET States]
    BY <2>0, ConstantsAreNumbers DEF HubTypes
  <2> QED
    BY <2>0, <2>1, <2>4, <2>5, <2>6, <2>7 DEF TypeOK, PageTypes, MessageType
<1> QED
  BY <1>1, InvHolds, PTL

=============================================================================
