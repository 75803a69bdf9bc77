-------------------------- MODULE ConfigStore_proofs --------------------------
(***************************************************************************)
(* Proofs about ConfigStore for any streams, keys and overrides, any       *)
(* number of PUTs and any number of versions kept.                         *)
(***************************************************************************)
EXTENDS ConfigStore, FiniteSetTheorems, TLAPS

(* The tables: every row has an id below the next one, and of the hub's    *)
(* rows one has the largest revision, which is the current value.          *)
RowType == [id : Nat, scope : Scopes, rev : Nat, body : [Keys -> Nat]]
EntryType == [rev : Nat, body : [Keys -> Nat]]
Newest(rows, v) == v \in Of(rows, Hub) /\ \A w \in Of(rows, Hub) : w = v \/ w.rev < v.rev

GoodTables(d) ==
  /\ d \in [rules : [Streams -> EntryType], versions : SUBSET RowType, next : Nat]
  /\ \A v \in d.versions : v.id < d.next
  /\ Of(d.versions, Hub) # {} => \E v \in d.versions : Newest(d.versions, v)

(* The CHOOSE of get_hub_config finds the newest row.                      *)
LEMMA HubConfigIsNewest ==
  ASSUME NEW rows \in SUBSET RowType, NEW v \in RowType, Newest(rows, v)
  PROVE  HubConfig(rows) = [rev |-> v.rev, body |-> v.body]
<1> DEFINE Top(u) == u \in Of(rows, Hub) /\ \A w \in Of(rows, Hub) : w.rev <= u.rev
<1>1. Of(rows, Hub) \subseteq RowType
  BY DEF Of
<1>2. Top(v)
  BY <1>1 DEF Newest, RowType
<1>3. \A u : Top(u) => u = v
  BY <1>1 DEF Newest, RowType
<1>4. (CHOOSE u \in Of(rows, Hub) : \A w \in Of(rows, Hub) : w.rev <= u.rev) = v
  BY <1>2, <1>3
<1>5. Of(rows, Hub) # {}
  BY DEF Newest
<1> QED BY <1>4, <1>5 DEF HubConfig

(* The current value of a scope is a revision with a body.                 *)
LEMMA CurrentTyped ==
  ASSUME NEW d, GoodTables(d), NEW s \in Scopes
  PROVE  Current(d, s) \in EntryType
<1>1. CASE s # Hub
  BY <1>1 DEF GoodTables, Current, Scopes
<1>2. CASE s = Hub /\ Of(d.versions, Hub) = {}
  <2>1. NoEntry \in EntryType
    BY DEF NoEntry, NoBody, EntryType
  <2> QED BY <1>2, <2>1 DEF Current, HubConfig
<1>3. CASE s = Hub /\ Of(d.versions, Hub) # {}
  <2>1. PICK v \in d.versions : Newest(d.versions, v)
    BY <1>3 DEF GoodTables
  <2>2. d.versions \in SUBSET RowType
    BY DEF GoodTables
  <2>3. Current(d, s) = [rev |-> v.rev, body |-> v.body]
    BY <1>3, <2>1, <2>2, HubConfigIsNewest DEF Current
  <2>4. v \in RowType
    BY <2>2
  <2> QED BY <2>3, <2>4 DEF RowType, EntryType
<1> QED BY <1>1, <1>2, <1>3

(* The pruning keeps the row just inserted and touches no other scope's.   *)
LEMMA Inserted ==
  ASSUME StoreAssumption, NEW rows \in SUBSET RowType, NEW s \in Scopes,
         NEW row \in RowType, row.scope = s, \A v \in rows : v.id < row.id
  PROVE  /\ Pruned(rows \cup {row}, s) \subseteq rows \cup {row}
         /\ row \in Pruned(rows \cup {row}, s)
<1> DEFINE rs == rows \cup {row}
           all == Pruned(rs, s)
           newer == {w \in Of(rs, s) : w.id >= row.id}
<1>1. all \subseteq rs
  BY DEF Pruned
<1>2. newer = {row}
  BY DEF Of, RowType
<1>3. Cardinality(newer) <= Keep
  <2>1. Cardinality(newer) = 1
    BY <1>2, FS_Singleton
  <2>2. Keep \in Nat /\ 1 <= Keep
    BY DEF StoreAssumption
  <2> HIDE DEF newer
  <2> QED BY <2>1, <2>2
<1>4. row \in all
  BY <1>3 DEF Pruned
<1> QED BY <1>1, <1>4

(* The pruning of one scope leaves the rows of another.                    *)
LEMMA Others ==
  ASSUME NEW rows \in SUBSET RowType, NEW s \in Scopes, NEW t \in Scopes, t # s,
         NEW row, row.scope = s
  PROVE  Of(Pruned(rows \cup {row}, s), t) = Of(rows, t)
<1>1. ASSUME NEW v \in rows, v.scope = t PROVE v \in Pruned(rows \cup {row}, s)
  BY <1>1 DEF Pruned
<1> QED BY <1>1 DEF Of, Pruned

(* A row inserted for the hub becomes its current value, one inserted for  *)
(* a stream leaves it.                                                     *)
LEMMA InsertGood ==
  ASSUME StoreAssumption, NEW d, GoodTables(d), NEW s \in Scopes, NEW e \in EntryType,
         s = Hub => e.rev > HubConfig(d.versions).rev
  PROVE  LET i == InsertVersion(d, s, e) IN
           /\ GoodTables(i) /\ i.rules = d.rules
           /\ HubConfig(i.versions) = IF s = Hub THEN e ELSE HubConfig(d.versions)
<1> DEFINE row == [id |-> d.next, scope |-> s, rev |-> e.rev, body |-> e.body]
           all == Pruned(d.versions \cup {row}, s)
           i == InsertVersion(d, s, e)
<1>1. /\ d \in [rules : [Streams -> EntryType], versions : SUBSET RowType, next : Nat]
      /\ d.versions \in SUBSET RowType /\ d.next \in Nat
      /\ d.rules \in [Streams -> EntryType]
      /\ \A v \in d.versions : v.id < d.next
  BY DEF GoodTables
<1>2. row \in RowType /\ row.id = d.next /\ row.scope = s
  BY <1>1 DEF RowType, EntryType
<1> HIDE DEF row
<1>3. /\ all \subseteq d.versions \cup {row} /\ row \in all
      /\ \A t \in Scopes : t # s => Of(all, t) = Of(d.versions, t)
  <2>1. d.versions \in SUBSET RowType /\ \A v \in d.versions : v.id < row.id
    BY <1>1, <1>2
  <2> DEFINE rows == d.versions
  <2>2. rows \in SUBSET RowType /\ \A v \in rows : v.id < row.id
    BY <2>1
  <2>3. row \in RowType /\ row.scope = s
    BY <1>2
  <2> HIDE DEF rows
  <2>4. row \in Pruned(rows \cup {row}, s)
    BY <2>2, <2>3, StoreAssumption, Inserted
  <2>5. Pruned(rows \cup {row}, s) \subseteq rows \cup {row}
    BY <2>2, <2>3, StoreAssumption, Inserted
  <2>6. ASSUME NEW t \in Scopes, t # s
        PROVE  Of(Pruned(rows \cup {row}, s), t) = Of(rows, t)
    BY <2>2, <2>3, <2>6, StoreAssumption, Others
  <2> QED BY <2>4, <2>5, <2>6 DEF rows
<1> HIDE DEF all
<1>4. i.versions = all /\ i.next = d.next + 1 /\ i.rules = d.rules
  <2>1. i = [[d EXCEPT !.versions = all] EXCEPT !.next = d.next + 1]
    BY <1>1 DEF InsertVersion, row, all
  <2> QED BY <1>1, <2>1
<1>5. i \in [rules : [Streams -> EntryType], versions : SUBSET RowType, next : Nat]
  <2>1. all \in SUBSET RowType /\ d.next + 1 \in Nat
    BY <1>1, <1>2, <1>3
  <2>2. [d EXCEPT !.versions = all]
          \in [rules : [Streams -> EntryType], versions : SUBSET RowType, next : Nat]
    BY <1>1, <2>1
  <2>3. i = [[d EXCEPT !.versions = all] EXCEPT !.next = d.next + 1]
    BY <1>1 DEF InsertVersion, row, all
  <2> QED BY <2>1, <2>2, <2>3
<1>6. ASSUME NEW v \in i.versions PROVE v.id < i.next
  <2>1. v \in d.versions \/ v = row
    BY <1>3, <1>4
  <2>2. v.id \in Nat /\ (v.id < d.next \/ v.id = d.next)
    BY <1>1, <1>2, <2>1 DEF RowType
  <2> QED BY <1>1, <1>4, <2>2
<1>7. CASE s = Hub
  <2>1. ASSUME NEW w \in Of(d.versions, Hub) PROVE w.rev < e.rev
    <3>1. PICK v \in d.versions : Newest(d.versions, v)
      BY DEF GoodTables
    <3>2. HubConfig(d.versions).rev = v.rev
      BY <1>1, <3>1, HubConfigIsNewest
    <3>3. w \in RowType /\ v \in RowType
      BY <1>1 DEF Of
    <3>4. w.rev \in Nat /\ v.rev \in Nat /\ e.rev \in Nat
      BY <3>3 DEF RowType, EntryType
    <3>5. w.rev < v.rev \/ w = v
      BY <3>1 DEF Newest
    <3> QED BY <1>7, <3>2, <3>4, <3>5
  <2>2. Of(all, Hub) \subseteq Of(d.versions, Hub) \cup {row}
    BY <1>3 DEF Of
  <2>3. row.rev = e.rev /\ row.body = e.body
    BY DEF row
  <2>4. Newest(i.versions, row)
    BY <1>2, <1>3, <1>4, <1>7, <2>1, <2>2, <2>3 DEF Newest, Of
  <2>5. GoodTables(i)
    BY <1>3, <1>4, <1>5, <1>6, <2>4 DEF GoodTables
  <2>6. HubConfig(i.versions) = [rev |-> e.rev, body |-> e.body]
    BY <1>2, <1>5, <2>3, <2>4, HubConfigIsNewest
  <2>7. e = [rev |-> e.rev, body |-> e.body]
    BY DEF EntryType
  <2> QED BY <1>4, <1>7, <2>5, <2>6, <2>7
<1>8. CASE s # Hub
  <2>1. Of(i.versions, Hub) = Of(d.versions, Hub)
    BY <1>3, <1>4, <1>8 DEF Scopes
  <2>2. GoodTables(i)
    <3>1. CASE Of(d.versions, Hub) = {}
      BY <1>5, <1>6, <2>1, <3>1 DEF GoodTables
    <3>2. CASE Of(d.versions, Hub) # {}
      <4>1. PICK v \in d.versions : Newest(d.versions, v)
        BY <3>2 DEF GoodTables
      <4>2. Newest(i.versions, v) /\ v \in i.versions
        BY <2>1, <4>1 DEF Newest, Of
      <4> QED BY <1>5, <1>6, <4>2 DEF GoodTables
    <3> QED BY <3>1, <3>2
  <2> QED BY <1>4, <1>8, <2>1, <2>2 DEF HubConfig
<1> QED BY <1>7, <1>8

(* One item of a transaction: its scope moves on to the next revision and  *)
(* gets what the PUT was asked to write, the others keep theirs.           *)
Written(d, s) == IF s = Hub THEN WriteHub(d) ELSE WriteRules(d, s)
RowOf(d, s, e) == [id |-> d.next, scope |-> s, rev |-> e.rev, body |-> e.body]

LEMMA WriteGood ==
  ASSUME NEW d, GoodTables(d), NEW s \in Scopes, puts \in Nat
  PROVE  LET i == Written(d, s) IN
           /\ GoodTables(i)
           /\ \A t \in Scopes : t # s => Current(i, t) = Current(d, t)
           /\ Current(i, s).rev = Current(d, s).rev + 1
           /\ \A k \in Keys : Current(i, s).body[k] \in {puts, Current(d, s).body[k]}
           /\ \A k \in Keys : s # Hub \/ <<s, k>> \in wrote[puts]
                => Current(i, s).body[k] = puts
           /\ i.versions = Pruned(d.versions \cup {RowOf(d, s, Current(i, s))}, s)
<1> DEFINE now == Current(d, s)
           i == Written(d, s)
<1>1. now \in EntryType /\ now.rev \in Nat /\ now.rev + 1 \in Nat
  BY CurrentTyped DEF EntryType
<1>2. /\ d \in [rules : [Streams -> EntryType], versions : SUBSET RowType, next : Nat]
      /\ d.rules \in [Streams -> EntryType]
  BY DEF GoodTables
<1>3. CASE s = Hub
  <2> DEFINE body == [k \in Keys |-> IF <<Hub, k>> \in wrote[puts] THEN puts
                                     ELSE now.body[k]]
             e == [rev |-> now.rev + 1, body |-> body]
  <2>1. now = HubConfig(d.versions)
    BY <1>3 DEF Current
  <2>2. i = InsertVersion(d, Hub, e)
    BY <1>3, <2>1 DEF Written, WriteHub
  <2>3. body \in [Keys -> Nat]
    BY <1>1 DEF EntryType
  <2> HIDE DEF body
  <2>4. e \in EntryType /\ e.rev = now.rev + 1 /\ e.body = body
    BY <1>1, <2>3 DEF EntryType
  <2>5. Hub = Hub => e.rev > HubConfig(d.versions).rev
    BY <1>1, <2>1, <2>4
  <2>5a. i.versions = Pruned(d.versions \cup {RowOf(d, s, e)}, s)
    BY <1>2, <1>3, <2>2 DEF InsertVersion, RowOf
  <2> HIDE DEF e, now, i
  <2>6. /\ GoodTables(i) /\ i.rules = d.rules /\ HubConfig(i.versions) = e
    BY <1>3, <2>2, <2>4, <2>5, StoreAssumption, InsertGood
  <2>7. Current(i, s) = e
    BY <1>3, <2>6 DEF Current
  <2>8. \A t \in Scopes : t # s => Current(i, t) = Current(d, t)
    BY <1>3, <2>6 DEF Current
  <2>9. \A k \in Keys : e.body[k] = IF <<s, k>> \in wrote[puts] THEN puts ELSE now.body[k]
    BY <1>3, <2>4 DEF body
  <2> QED BY <1>3, <2>4, <2>5a, <2>6, <2>7, <2>8, <2>9 DEF now, i
<1>4. CASE s # Hub
  <2> DEFINE body == [k \in Keys |-> puts]
             e == [rev |-> d.rules[s].rev + 1, body |-> body]
             m == [d EXCEPT !.rules[s] = e]
  <2>0. s \in Streams /\ now = d.rules[s]
    BY <1>4 DEF Scopes, Current
  <2>1. i = InsertVersion(m, s, e)
    BY <1>4 DEF Written, WriteRules
  <2>2. e \in EntryType /\ e.rev = now.rev + 1 /\ \A k \in Keys : e.body[k] = puts
    BY <1>1, <2>0 DEF EntryType
  <2> HIDE DEF e
  <2>3. /\ m.rules \in [Streams -> EntryType] /\ m.rules[s] = e
        /\ \A t \in Streams : t # s => m.rules[t] = d.rules[t]
        /\ m.versions = d.versions /\ m.next = d.next
        /\ m \in [rules : [Streams -> EntryType], versions : SUBSET RowType, next : Nat]
    BY <1>2, <2>0, <2>2
  <2>4. GoodTables(m)
    BY <2>3 DEF GoodTables
  <2> HIDE DEF m
  <2>4a. i.versions = Pruned(d.versions \cup {RowOf(d, s, e)}, s)
    BY <2>1, <2>3 DEF InsertVersion, RowOf
  <2> HIDE DEF now, i
  <2>5. /\ GoodTables(i) /\ i.rules = m.rules
        /\ HubConfig(i.versions) = HubConfig(d.versions)
    BY <1>4, <2>1, <2>2, <2>3, <2>4, StoreAssumption, InsertGood
  <2>6. Current(i, s) = e
    BY <1>4, <2>3, <2>5 DEF Current
  <2>7. \A t \in Scopes : t # s => Current(i, t) = Current(d, t)
    BY <2>3, <2>5 DEF Current, Scopes
  <2> QED BY <2>2, <2>4a, <2>5, <2>6, <2>7 DEF now, i
<1> QED BY <1>3, <1>4

(* What the transaction sees of a scope is what is committed or newer; a   *)
(* caller is told ok only when both tables and mirror have what was asked. *)
TxAhead(s) ==
  /\ Current(tx, s).rev >= Current(db, s).rev
  /\ Current(tx, s).rev = Current(db, s).rev => Current(tx, s) = Current(db, s)
  /\ \A k \in Keys : /\ Current(tx, s).body[k] >= Current(db, s).body[k]
                     /\ Current(tx, s).body[k] <= puts

StoreTyped ==
  /\ GoodTables(db) /\ GoodTables(tx)
  /\ mirror \in [Scopes -> EntryType] /\ settings \in [Keys -> Nat]
  /\ running \in [Keys -> Nat]
  /\ puts \in Nat /\ todo \subseteq Scopes
  /\ wrote \in [Puts -> SUBSET (Scopes \X Keys)]
  /\ told \in [Puts -> {"none", "ok", "refused", "failed", "lost"}]

InHand ==
  /\ at \in {"open", "mirror"} => puts \in Puts /\ told[puts] # "ok"
  /\ at = "open" => \A w \in wrote[puts] :
       w[1] \in todo \/ Current(tx, w[1]).body[w[2]] = puts
  /\ at = "mirror" => \A w \in wrote[puts] : Current(db, w[1]).body[w[2]] = puts

StoreInv ==
  /\ StoreTyped /\ InHand
  /\ \A s \in Scopes : TxAhead(s)
  /\ \A r \in Puts : told[r] = "ok" => r <= puts
  /\ ConfirmedHolds

(* What a confirmed PUT wrote is in the tables, in config.json and, of the *)
(* hub's settings, in Hub.config and where it is handed on to, or was      *)
(* overwritten by a later one.                                             *)
Settled(r) ==
  \A w \in wrote[r] :
    /\ Current(db, w[1]).body[w[2]] >= r
    /\ mirror[w[1]].body[w[2]] >= r
    /\ w[1] = Hub /\ w[2] \notin EnvKeys => settings[w[2]] >= r
    /\ w[1] = Hub /\ w[2] \in Handed \ EnvKeys => running[w[2]] >= r

(* ConfirmedHolds, in terms of Settled; and of the next state.             *)
LEMMA ConfirmedParts ==
  ConfirmedHolds <=> /\ \A s \in Scopes : MirrorIsPast(s)
                     /\ \A r \in Puts : told[r] = "ok" => Settled(r)
  BY DEF ConfirmedHolds, Settled

LEMMA ConfirmedNext ==
  ASSUME \A s \in Scopes : MirrorIsPast(s)',
         \A r \in Puts : told'[r] = "ok" => Settled(r)'
  PROVE  ConfirmedHolds'
  BY DEF ConfirmedHolds, Settled

(* Revisions and the contents of bodies are numbers.                       *)
LEMMA Numbers ==
  ASSUME NEW d, GoodTables(d), NEW s \in Scopes
  PROVE  /\ Current(d, s).rev \in Nat
         /\ \A k \in Keys : Current(d, s).body[k] \in Nat
  BY CurrentTyped DEF EntryType

(* What a PUT was asked to write is a key of a scope.                      *)
LEMMA WrittenPlace ==
  ASSUME StoreTyped, NEW r \in Puts, NEW w \in wrote[r]
  PROVE  w[1] \in Scopes /\ w[2] \in Keys
  BY DEF StoreTyped

(* config.json as composed from good tables.                               *)
LEMMA MirrorOfTyped ==
  ASSUME NEW d, GoodTables(d)
  PROVE  /\ MirrorOf(d) \in [Scopes -> EntryType]
         /\ \A s \in Scopes : MirrorOf(d)[s] = Current(d, s)
  BY CurrentTyped DEF MirrorOf

(* The settings resolved from good tables.                                 *)
LEMMA ResolvedTyped ==
  ASSUME NEW d, GoodTables(d)
  PROVE  /\ ResolveSettings(HubConfig(d.versions).body) \in [Keys -> Nat]
         /\ \A k \in Keys \ EnvKeys :
              ResolveSettings(HubConfig(d.versions).body)[k] = Current(d, Hub).body[k]
<1>1. Hub \in Scopes /\ HubConfig(d.versions) = Current(d, Hub)
  BY DEF Scopes, Current
<1>2. \A k \in Keys : Current(d, Hub).body[k] \in Nat
  BY <1>1, Numbers
<1> QED BY <1>1, <1>2 DEF ResolveSettings

(* The transaction starts from the tables as they are, or is given up.     *)
LEMMA FromTables ==
  ASSUME StoreInv, tx' = db, db' = db, puts' \in Nat, puts' >= puts
  PROVE  \A s \in Scopes : TxAhead(s)'
<1> SUFFICES ASSUME NEW s \in Scopes PROVE TxAhead(s)'
  OBVIOUS
<1>1. /\ Current(db, s).rev \in Nat /\ Current(tx, s).rev \in Nat
      /\ \A k \in Keys : Current(db, s).body[k] \in Nat /\ Current(tx, s).body[k] \in Nat
  BY Numbers DEF StoreInv, StoreTyped
<1>2. TxAhead(s) /\ puts \in Nat
  BY DEF StoreInv, StoreTyped
<1>3. Current(tx, s)' = Current(db, s) /\ Current(db, s)' = Current(db, s)
  BY DEF Current
<1>4. \A k \in Keys : Current(db, s).body[k] <= puts'
  BY <1>1, <1>2 DEF TxAhead
<1> QED BY <1>1, <1>3, <1>4 DEF TxAhead

(* A step keeps the record of the PUTs that are confirmed after it.        *)
ClaimsKept ==
  /\ wrote' \in [Puts -> SUBSET (Scopes \X Keys)]
  /\ \A r \in Puts : told'[r] = "ok" => wrote'[r] = wrote[r]

LEMMA NoClaimKeeps ==
  ASSUME StoreTyped, NoClaim, NEW o \in {"refused", "failed", "lost"},
         told' = [told EXCEPT ![puts] = o]
  PROVE  ClaimsKept
<1>1. /\ wrote \in [Puts -> SUBSET (Scopes \X Keys)]
      /\ told \in [Puts -> {"none", "ok", "refused", "failed", "lost"}]
  BY DEF StoreTyped
<1>2. wrote' = [wrote EXCEPT ![puts] = {}]
  BY DEF NoClaim
<1> QED BY <1>1, <1>2 DEF ClaimsKept

LEMMA SameKeeps ==
  ASSUME StoreTyped, UNCHANGED wrote
  PROVE  ClaimsKept
  BY DEF StoreTyped, ClaimsKept

(* A step that only takes promises back keeps those that are left.         *)
LEMMA ConfirmedStays ==
  ASSUME ConfirmedHolds, UNCHANGED <<db, mirror, settings, running>>, ClaimsKept,
         \A r \in Puts : told'[r] = "ok" => told[r] = "ok"
  PROVE  ConfirmedHolds'
<1>1. \A s \in Scopes : MirrorIsPast(s)'
  BY ConfirmedParts DEF MirrorIsPast, Current
<1>2. ASSUME NEW r \in Puts, told'[r] = "ok" PROVE Settled(r)'
  BY <1>2, ConfirmedParts DEF Settled, Current, ClaimsKept
<1> QED BY <1>1, <1>2, ConfirmedNext

(* A PUT begins.                                                           *)
LEMMA OpenKeeps ==
  ASSUME StoreInv, NEW scopes \in SUBSET Scopes, NEW keys \in SUBSET Keys,
         Open(scopes, keys)
  PROVE  StoreInv'
<1>1. /\ puts < MaxPuts /\ puts' = puts + 1 /\ at' = "open" /\ tx' = db /\ todo' = scopes
      /\ wrote' = [wrote EXCEPT ![puts + 1] = scopes \X keys]
      /\ UNCHANGED <<db, mirror, settings, running, told>>
  BY DEF Open
<1>2. /\ StoreTyped /\ puts \in Nat /\ puts' \in Puts
      /\ \A r \in Puts : told[r] = "ok" => r <= puts
  BY <1>1, StoreAssumption DEF StoreInv, StoreTyped, Puts
<1>3. /\ wrote' \in [Puts -> SUBSET (Scopes \X Keys)]
      /\ wrote'[puts'] = scopes \X keys
      /\ \A r \in Puts : r # puts' => wrote'[r] = wrote[r]
  BY <1>1, <1>2 DEF StoreTyped
<1>4. StoreTyped'
  BY <1>1, <1>2, <1>3 DEF StoreTyped, GoodTables, Newest
<1>5. told[puts'] # "ok"
  BY <1>1, <1>2
<1>6. InHand'
  BY <1>1, <1>2, <1>3, <1>5 DEF InHand
<1>7. \A s \in Scopes : TxAhead(s)'
  BY <1>1, <1>2, FromTables
<1>8. \A r \in Puts : told'[r] = "ok" => r <= puts'
  BY <1>1, <1>2 DEF Puts
<1>9. ASSUME NEW r \in Puts, told'[r] = "ok" PROVE Settled(r)'
  <2>1. told[r] = "ok" /\ wrote'[r] = wrote[r]
    BY <1>1, <1>3, <1>5, <1>9
  <2>2. Settled(r)
    BY <2>1, ConfirmedParts DEF StoreInv
  <2> QED BY <1>1, <2>1, <2>2 DEF Settled, Current
<1>10. \A s \in Scopes : MirrorIsPast(s)'
  BY <1>1, ConfirmedParts DEF StoreInv, MirrorIsPast, Current
<1>11. ConfirmedHolds'
  BY <1>9, <1>10, ConfirmedNext
<1> QED BY <1>4, <1>6, <1>7, <1>8, <1>11 DEF StoreInv

(* An item is written in the transaction.                                  *)
LEMMA WriteItemKeeps ==
  ASSUME StoreInv, NEW s \in Scopes, WriteItem(s)
  PROVE  StoreInv'
<1>1. /\ at = "open" /\ tx' = Written(tx, s) /\ todo' = todo \ {s}
      /\ UNCHANGED <<db, mirror, settings, running, at, puts, wrote, told>>
  BY DEF WriteItem, Written
<1>2. /\ StoreTyped /\ puts \in Nat /\ puts \in Puts /\ GoodTables(tx)
  BY <1>1 DEF StoreInv, StoreTyped, InHand
<1>3. /\ GoodTables(tx')
      /\ \A t \in Scopes : t # s => Current(tx', t) = Current(tx, t)
      /\ Current(tx', s).rev = Current(tx, s).rev + 1
      /\ \A k \in Keys : Current(tx', s).body[k] \in {puts, Current(tx, s).body[k]}
      /\ \A k \in Keys : s # Hub \/ <<s, k>> \in wrote[puts]
            => Current(tx', s).body[k] = puts
  <2> DEFINE i == Written(tx, s)
  <2>1. /\ GoodTables(i)
        /\ \A t \in Scopes : t # s => Current(i, t) = Current(tx, t)
        /\ Current(i, s).rev = Current(tx, s).rev + 1
        /\ \A k \in Keys : Current(i, s).body[k] \in {puts, Current(tx, s).body[k]}
        /\ \A k \in Keys : s # Hub \/ <<s, k>> \in wrote[puts]
              => Current(i, s).body[k] = puts
    BY <1>2, WriteGood
  <2>2. tx' = i
    BY <1>1
  <2> HIDE DEF i
  <2> QED BY <2>1, <2>2
<1>4. StoreTyped'
  BY <1>1, <1>2, <1>3 DEF StoreTyped, GoodTables, Newest
<1>5. ASSUME NEW w \in wrote[puts]
      PROVE  w[1] \in todo' \/ Current(tx', w[1]).body[w[2]] = puts
  <2>1. /\ w[1] \in Scopes /\ w[2] \in Keys /\ w = <<w[1], w[2]>>
        /\ w[1] \in todo \/ Current(tx, w[1]).body[w[2]] = puts
    BY <1>1, <1>2 DEF StoreInv, InHand, StoreTyped
  <2>2. CASE w[1] = s
    BY <1>3, <2>1, <2>2
  <2>3. CASE w[1] # s
    BY <1>1, <1>3, <2>1, <2>3
  <2> QED BY <2>2, <2>3
<1>6. InHand'
  BY <1>1, <1>5 DEF StoreInv, InHand
<1>7. ASSUME NEW t \in Scopes PROVE TxAhead(t)'
  <2>1. /\ Current(db, t).rev \in Nat /\ Current(tx, t).rev \in Nat
        /\ \A k \in Keys : Current(db, t).body[k] \in Nat /\ Current(tx, t).body[k] \in Nat
    BY Numbers DEF StoreInv, StoreTyped
  <2>2. TxAhead(t)
    BY DEF StoreInv
  <2>3. Current(db, t)' = Current(db, t) /\ Current(tx, t)' = Current(tx', t)
    BY <1>1 DEF Current
  <2>4. CASE t = s
    <3>1. /\ Current(tx', t).rev >= Current(db, t).rev
          /\ Current(tx', t).rev # Current(db, t).rev
      BY <1>3, <2>1, <2>2, <2>4 DEF TxAhead
    <3>2. ASSUME NEW k \in Keys
          PROVE  /\ Current(tx', t).body[k] >= Current(db, t).body[k]
                 /\ Current(tx', t).body[k] <= puts
      BY <1>2, <1>3, <2>1, <2>2, <2>4 DEF TxAhead
    <3> QED BY <1>1, <2>3, <3>1, <3>2 DEF TxAhead
  <2>5. CASE t # s
    BY <1>1, <1>3, <2>2, <2>3, <2>5 DEF TxAhead
  <2> QED BY <2>4, <2>5
<1>8. ConfirmedHolds'
  BY <1>1, ConfirmedStays, SameKeeps DEF StoreInv
<1> QED BY <1>1, <1>4, <1>6, <1>7, <1>8 DEF StoreInv

(* A transaction is given up, or a PUT refused: the tables are as before.  *)
LEMMA GivenUpKeeps ==
  ASSUME StoreInv, Refuse \/ Rollback
  PROVE  StoreInv'
<1>0. StoreTyped /\ puts \in Nat /\ \A r \in Puts : told[r] = "ok" => r <= puts
  BY DEF StoreInv, StoreTyped
<1>1. PICK q \in {puts, puts + 1}, o \in {"refused", "failed"} :
        /\ told' = [told EXCEPT ![q] = o] /\ puts' = q /\ at' = "idle"
        /\ UNCHANGED <<db, mirror, settings, running>>
        /\ UNCHANGED wrote \/ (NoClaim /\ q = puts)
        /\ tx' \in {tx, db} /\ todo' \in {todo, {}}
  BY DEF Refuse, Rollback
<1>a. ClaimsKept
  BY <1>0, <1>1, NoClaimKeeps, SameKeeps
<1>2. puts' \in Nat /\ puts' >= puts
  BY <1>0, <1>1
<1>3. /\ told' \in [Puts -> {"none", "ok", "refused", "failed", "lost"}]
      /\ \A r \in Puts : told'[r] = "ok" => told[r] = "ok"
  BY <1>0, <1>1 DEF StoreTyped
<1>4. GoodTables(db)' /\ GoodTables(tx)'
  BY <1>0, <1>1 DEF StoreTyped, GoodTables, Newest
<1>5. StoreTyped'
  BY <1>0, <1>a, <1>1, <1>2, <1>3, <1>4 DEF StoreTyped, ClaimsKept
<1>6. InHand'
  BY <1>1 DEF InHand
<1>7. \A s \in Scopes : TxAhead(s)'
  <2>1. CASE tx' = db
    BY <1>1, <1>2, <2>1, FromTables
  <2>2. CASE tx' = tx
    <3> SUFFICES ASSUME NEW s \in Scopes PROVE TxAhead(s)'
      OBVIOUS
    <3>1. \A k \in Keys : Current(tx, s).body[k] \in Nat
      BY <1>0, Numbers DEF StoreTyped
    <3>2. TxAhead(s) /\ puts \in Nat
      BY <1>0 DEF StoreInv
    <3>3. Current(tx, s)' = Current(tx, s) /\ Current(db, s)' = Current(db, s)
      BY <1>1, <2>2 DEF Current
    <3>4. \A k \in Keys : Current(tx, s).body[k] <= puts'
      BY <1>2, <3>1, <3>2 DEF TxAhead
    <3> QED BY <3>2, <3>3, <3>4 DEF TxAhead
  <2> QED BY <1>1, <2>1, <2>2
<1>8. \A r \in Puts : told'[r] = "ok" => r <= puts'
  BY <1>0, <1>2, <1>3 DEF Puts
<1>9. ConfirmedHolds'
  BY <1>1, <1>3, <1>a, ConfirmedStays DEF StoreInv
<1> QED BY <1>5, <1>6, <1>7, <1>8, <1>9 DEF StoreInv

(* The transaction is committed: the tables are what it saw.               *)
LEMMA CommitKeeps ==
  ASSUME StoreInv, Commit
  PROVE  StoreInv'
<1>1. /\ at = "open" /\ todo = {} /\ db' = tx /\ tx' = tx /\ at' = "mirror"
      /\ UNCHANGED <<mirror, settings, running, todo, puts, wrote, told>>
  BY DEF Commit
<1>2. StoreTyped /\ puts \in Nat /\ \A r \in Puts : told[r] = "ok" => r <= puts
  BY DEF StoreInv, StoreTyped
<1>3. StoreTyped'
  BY <1>1, <1>2 DEF StoreTyped, GoodTables, Newest
<1>4. InHand'
  BY <1>1 DEF StoreInv, InHand, Current
<1>5. ASSUME NEW s \in Scopes PROVE TxAhead(s)'
  <2>1. /\ Current(tx, s)' = Current(tx, s) /\ Current(db, s)' = Current(tx, s)
        /\ Current(tx, s).rev \in Nat
        /\ \A k \in Keys : Current(tx, s).body[k] \in Nat
    BY <1>1, <1>2, Numbers DEF Current, StoreTyped
  <2> QED BY <1>1, <2>1 DEF StoreInv, TxAhead
<1>6. ASSUME NEW s \in Scopes PROVE MirrorIsPast(s)'
  <2>1. /\ Current(db, s).rev \in Nat /\ Current(tx, s).rev \in Nat
        /\ mirror[s].rev \in Nat
    BY <1>2, Numbers DEF StoreTyped, EntryType
  <2>2. TxAhead(s) /\ MirrorIsPast(s)
    BY ConfirmedParts DEF StoreInv
  <2>3. mirror'[s] = mirror[s] /\ Current(db, s)' = Current(tx, s)
    BY <1>1 DEF Current
  <2> QED BY <2>1, <2>2, <2>3 DEF TxAhead, MirrorIsPast
<1>7. ASSUME NEW r \in Puts, told'[r] = "ok" PROVE Settled(r)'
  <2>1. Settled(r)
    BY <1>1, <1>7, ConfirmedParts DEF StoreInv
  <2>2. ASSUME NEW w \in wrote[r]
        PROVE  Current(tx, w[1]).body[w[2]] >= r
    <3>1. w[1] \in Scopes /\ w[2] \in Keys
      BY <1>2, WrittenPlace
    <3>2. /\ Current(db, w[1]).body[w[2]] \in Nat
          /\ Current(tx, w[1]).body[w[2]] \in Nat /\ r \in Nat
      BY <1>2, <3>1, Numbers DEF StoreTyped, Puts
    <3>3. /\ Current(db, w[1]).body[w[2]] >= r
          /\ Current(tx, w[1]).body[w[2]] >= Current(db, w[1]).body[w[2]]
      BY <2>1, <3>1 DEF StoreInv, TxAhead, Settled
    <3> QED BY <3>2, <3>3
  <2> QED BY <1>1, <2>1, <2>2 DEF Settled, Current
<1>8. ConfirmedHolds'
  BY <1>6, <1>7, ConfirmedNext
<1> QED BY <1>1, <1>2, <1>3, <1>4, <1>5, <1>8 DEF StoreInv

(* After the commit config.json is rewritten, or it is not, and a hub that *)
(* starts resolves what is stored; nobody who was told ok loses by it.     *)
LEMMA ResolveKeeps ==
  ASSUME StoreInv, UNCHANGED <<db, puts>>, ClaimsKept, tx' = tx \/ tx' = db,
         at' \in {"idle", "dead"}, todo' = todo \/ todo' = {},
         mirror' = mirror \/ mirror' = MirrorOf(db),
         settings' \in {settings, StoredSettings},
         running' \in [Keys -> Nat],
         \A k \in Handed : running'[k] \in {running[k], StoredSettings[k]},
         told' \in [Puts -> {"none", "ok", "refused", "failed", "lost"}],
         \A r \in Puts : told'[r] = "ok" =>
            \/ told[r] = "ok"
            \/ /\ at = "mirror" /\ r = puts /\ mirror' = MirrorOf(db)
               /\ (\E w \in wrote[puts] : w[1] = Hub) =>
                    settings' = StoredSettings /\ \A k \in Handed : running'[k] = StoredSettings[k]
  PROVE  StoreInv'
<1>0. /\ StoreTyped /\ puts \in Nat /\ GoodTables(db) /\ GoodTables(tx)
      /\ \A r \in Puts : told[r] = "ok" => r <= puts
  BY DEF StoreInv, StoreTyped
<1>1. /\ MirrorOf(db) \in [Scopes -> EntryType]
      /\ \A s \in Scopes : MirrorOf(db)[s] = Current(db, s)
      /\ StoredSettings \in [Keys -> Nat]
      /\ \A k \in Keys \ EnvKeys : StoredSettings[k] = Current(db, Hub).body[k]
  BY <1>0, MirrorOfTyped, ResolvedTyped DEF StoredSettings
<1>2. StoreTyped'
  <2>1. GoodTables(db)' /\ GoodTables(tx)'
    BY <1>0 DEF GoodTables, Newest
  <2> QED BY <1>0, <1>1, <2>1 DEF StoreTyped, ClaimsKept
<1>3. InHand'
  BY DEF InHand
<1>4. \A s \in Scopes : TxAhead(s)'
  <2>1. CASE tx' = db
    BY <1>0, <2>1, FromTables
  <2>2. CASE tx' = tx
    BY <2>2 DEF StoreInv, TxAhead, Current
  <2> QED BY <2>1, <2>2
<1>5. \A r \in Puts : told'[r] = "ok" => r <= puts
  BY <1>0
<1>6. ASSUME NEW s \in Scopes PROVE MirrorIsPast(s)'
  <2>1. Current(db, s).rev \in Nat /\ MirrorIsPast(s)
    BY <1>0, Numbers, ConfirmedParts DEF StoreInv
  <2>2. mirror'[s] = mirror[s] \/ mirror'[s] = Current(db, s)
    BY <1>1
  <2>3. Current(db, s)' = Current(db, s)
    BY DEF Current
  <2> QED BY <2>1, <2>2, <2>3 DEF MirrorIsPast
<1>7. ASSUME NEW r \in Puts, told'[r] = "ok" PROVE Settled(r)'
  <2> SUFFICES ASSUME NEW w \in wrote[r]
               PROVE  /\ Current(db, w[1]).body[w[2]] >= r
                      /\ mirror'[w[1]].body[w[2]] >= r
                      /\ w[1] = Hub /\ w[2] \notin EnvKeys => settings'[w[2]] >= r
                      /\ w[1] = Hub /\ w[2] \in Handed \ EnvKeys => running'[w[2]] >= r
    BY <1>7 DEF Settled, Current, ClaimsKept
  <2>1. w[1] \in Scopes /\ w[2] \in Keys
    BY <1>0, WrittenPlace
  <2>2. CASE told[r] = "ok"
    <3>1. /\ Current(db, w[1]).body[w[2]] >= r
          /\ mirror[w[1]].body[w[2]] >= r
          /\ w[1] = Hub /\ w[2] \notin EnvKeys => settings[w[2]] >= r
          /\ w[1] = Hub /\ w[2] \in Handed \ EnvKeys => running[w[2]] >= r
      BY <2>2, ConfirmedParts DEF StoreInv, Settled
    <3> QED BY <1>1, <2>1, <3>1
  <2>3. CASE told[r] # "ok"
    <3>1. /\ at = "mirror" /\ r = puts /\ mirror' = MirrorOf(db)
          /\ w[1] = Hub => /\ settings' = StoredSettings
                           /\ \A k \in Handed : running'[k] = StoredSettings[k]
      BY <1>7, <2>3
    <3>2. Current(db, w[1]).body[w[2]] = r
      BY <3>1 DEF StoreInv, InHand
    <3> QED BY <1>0, <1>1, <2>1, <3>1, <3>2
  <2> QED BY <2>2, <2>3
<1>8. ConfirmedHolds'
  BY <1>6, <1>7, ConfirmedNext
<1> QED BY <1>2, <1>3, <1>4, <1>5, <1>8 DEF StoreInv

(* A PUT ends after its commit, or the hub restarts anywhere.              *)
LEMMA EndsKeep ==
  ASSUME StoreInv, Confirm \/ RefuseValue \/ MirrorFails \/ RestartHub
  PROVE  StoreInv'
<1>0. /\ told \in [Puts -> {"none", "ok", "refused", "failed", "lost"}]
      /\ wrote \in [Puts -> SUBSET (Scopes \X Keys)] /\ (at = "mirror" => puts \in Puts)
      /\ running \in [Keys -> Nat] /\ Handed \subseteq Keys /\ GoodTables(db)
  BY StoreAssumption DEF StoreInv, StoreTyped, InHand, StoreAssumption
<1>b. StoreTyped
  BY DEF StoreInv
<1>a. StoredSettings \in [Keys -> Nat]
  BY <1>0, ResolvedTyped DEF StoredSettings
<1>1. CASE Confirm
  <2>1. /\ at = "mirror" /\ at' = "idle" /\ mirror' = MirrorOf(db)
        /\ UNCHANGED <<db, tx, todo, puts, wrote>>
        /\ settings' = IF OfHub THEN StoredSettings ELSE settings
        /\ running' = [k \in Keys |-> IF OfHub /\ k \in Handed THEN StoredSettings[k]
                                       ELSE running[k]]
        /\ told' = [told EXCEPT ![puts] = "ok"]
    BY <1>1 DEF Confirm
  <2>2. (\E w \in wrote[puts] : w[1] = Hub) => OfHub
    BY <1>0, <2>1 DEF OfHub
  <2>3. /\ running' \in [Keys -> Nat]
        /\ \A k \in Handed : running'[k] = IF OfHub THEN StoredSettings[k] ELSE running[k]
    BY <1>0, <1>a, <2>1
  <2>4. \A r \in Puts : told'[r] = "ok" => told[r] = "ok" \/ r = puts
    BY <1>0, <2>1
  <2>5. told' \in [Puts -> {"none", "ok", "refused", "failed", "lost"}]
    BY <1>0, <2>1
  <2>6. ClaimsKept
    BY <1>b, <2>1, SameKeeps
  <2> QED BY <2>1, <2>2, <2>3, <2>4, <2>5, <2>6, ResolveKeeps
<1>2. CASE RefuseValue
  <2>1. /\ at' = "idle" /\ mirror' = MirrorOf(db) /\ settings' = StoredSettings
        /\ told' = [told EXCEPT ![puts] = "refused"]
        /\ NoClaim /\ UNCHANGED <<db, tx, todo, puts>>
    BY <1>2 DEF RefuseValue
  <2>2. PICK before \in SUBSET Handed :
          running' = [k \in Keys |-> IF k \in before THEN StoredSettings[k] ELSE running[k]]
    BY <1>2 DEF RefuseValue
  <2>3. /\ running' \in [Keys -> Nat]
        /\ \A k \in Handed : running'[k] \in {running[k], StoredSettings[k]}
    BY <1>0, <1>a, <2>2
  <2>4. /\ \A r \in Puts : told'[r] = "ok" => told[r] = "ok"
        /\ told' \in [Puts -> {"none", "ok", "refused", "failed", "lost"}]
    BY <1>0, <2>1
  <2>5. ClaimsKept
    BY <1>b, <2>1, NoClaimKeeps
  <2> QED BY <2>1, <2>3, <2>4, <2>5, ResolveKeeps
<1>3. CASE MirrorFails
  <2>1. /\ at' = "idle" /\ mirror' \in {mirror, MirrorOf(db)}
        /\ told' = [told EXCEPT ![puts] = "failed"]
        /\ NoClaim /\ UNCHANGED <<db, settings, running, tx, todo, puts>>
    BY <1>3 DEF MirrorFails
  <2>2. /\ \A r \in Puts : told'[r] = "ok" => told[r] = "ok"
        /\ told' \in [Puts -> {"none", "ok", "refused", "failed", "lost"}]
    BY <1>0, <2>1
  <2>3. ClaimsKept
    BY <1>b, <2>1, NoClaimKeeps
  <2> QED BY <1>0, <2>1, <2>2, <2>3, ResolveKeeps
<1>4. CASE RestartHub
  <2>1. /\ at' \in {"idle", "dead"} /\ tx' = db /\ todo' = {}
        /\ settings' = StoredSettings /\ running' = StoredSettings
        /\ \/ UNCHANGED <<told, wrote>>
           \/ told' = [told EXCEPT ![puts] = "lost"] /\ NoClaim
        /\ UNCHANGED <<db, mirror, puts>>
    BY <1>4 DEF RestartHub
  <2>2. /\ \A r \in Puts : told'[r] = "ok" => told[r] = "ok"
        /\ told' \in [Puts -> {"none", "ok", "refused", "failed", "lost"}]
    BY <1>0, <2>1
  <2>3. ClaimsKept
    BY <1>b, <2>1, NoClaimKeeps, SameKeeps
  <2> QED BY <1>a, <2>1, <2>2, <2>3, ResolveKeeps
<1> QED BY <1>1, <1>2, <1>3, <1>4

LEMMA InitStoreInv == StoreInit => StoreInv
<1> SUFFICES ASSUME StoreInit PROVE StoreInv
  OBVIOUS
<1>1. GoodTables(EmptyTables)
  <2>1. NoEntry \in EntryType
    BY DEF NoEntry, NoBody, EntryType
  <2>2. EmptyTables.versions = {} /\ Of({}, Hub) = {}
    BY DEF EmptyTables, Of
  <2> QED BY <2>1, <2>2 DEF GoodTables, EmptyTables
<1>2. db = EmptyTables /\ tx = EmptyTables /\ mirror = MirrorOf(EmptyTables)
  BY DEF StoreInit
<1>3. \A s \in Scopes : Current(EmptyTables, s) = NoEntry
  BY DEF Current, HubConfig, Of, EmptyTables, Scopes
<1>4. /\ settings = [k \in Keys |-> 0] /\ running = settings /\ at = "idle"
      /\ todo = {} /\ puts = 0
      /\ \A r \in Puts : told[r] = "none"
      /\ wrote \in [Puts -> SUBSET (Scopes \X Keys)]
      /\ told \in [Puts -> {"none", "ok", "refused", "failed", "lost"}]
  BY DEF StoreInit, ResolveSettings, NoBody
<1>5. StoreTyped
  BY <1>1, <1>2, <1>4, MirrorOfTyped DEF StoreTyped
<1>6. \A s \in Scopes : TxAhead(s)
  BY <1>2, <1>3, <1>4 DEF TxAhead, NoEntry, NoBody
<1>7. \A s \in Scopes : MirrorIsPast(s)
  BY <1>1, <1>2, <1>3, MirrorOfTyped DEF MirrorIsPast, NoEntry
<1>8. ConfirmedHolds
  BY <1>4, <1>7, ConfirmedParts
<1> QED BY <1>4, <1>5, <1>6, <1>8 DEF StoreInv, InHand

LEMMA NextStoreInv == StoreInv /\ [StoreNext]_storeVars => StoreInv'
<1> SUFFICES ASSUME StoreInv, [StoreNext]_storeVars PROVE StoreInv'
  OBVIOUS
<1>1. CASE UNCHANGED storeVars
  <2>1. UNCHANGED <<db, tx, mirror, settings, running, at, todo, puts, wrote, told>>
    BY <1>1 DEF storeVars
  <2>2. StoreTyped' /\ InHand' /\ \A s \in Scopes : TxAhead(s)'
    BY <2>1 DEF StoreInv, StoreTyped, GoodTables, Newest, InHand, TxAhead, Current
  <2>3. ConfirmedHolds'
    BY <2>1, ConfirmedStays, SameKeeps DEF StoreInv
  <2> QED BY <2>1, <2>2, <2>3 DEF StoreInv
<1>2. ASSUME NEW s \in Streams, PutRules(s) PROVE StoreInv'
  <2>1. {s} \in SUBSET Scopes /\ Keys \in SUBSET Keys /\ Open({s}, Keys)
    BY <1>2 DEF PutRules, Scopes
  <2> QED BY <2>1, OpenKeeps
<1>3. ASSUME NEW scopes \in SUBSET Streams, ImportDevice(scopes) PROVE StoreInv'
  <2>1. scopes \in SUBSET Scopes /\ Keys \in SUBSET Keys /\ Open(scopes, Keys)
    BY <1>3 DEF ImportDevice, Scopes
  <2> QED BY <2>1, OpenKeeps
<1>4. ASSUME NEW keys \in SUBSET Keys, PutConfig(keys) PROVE StoreInv'
  <2>1. {Hub} \in SUBSET Scopes /\ Open({Hub}, keys)
    BY <1>4 DEF PutConfig, Scopes
  <2> QED BY <2>1, OpenKeeps
<1> QED
  BY <1>1, <1>2, <1>3, <1>4, WriteItemKeeps, GivenUpKeeps, CommitKeeps, EndsKeep
     DEF StoreNext

(* What a caller was told is saved stays saved, in the tables, in          *)
(* config.json and in Hub.config, and a setting that is handed on is what  *)
(* its component runs with, through failures of the disk and restarts in   *)
(* any place, for any streams, settings and length of history.  Of a       *)
(* setting read when a component is built nothing is said until the next   *)
(* start (HUB_SPEC section 4; storage.py put_rules, put_hub_config,        *)
(* _mirror_config; app.py update_config).                                  *)
THEOREM SavedIsSaved == StoreSpec => []ConfirmedHolds
<1>1. StoreInv => ConfirmedHolds
  BY DEF StoreInv
<1> QED BY InitStoreInv, NextStoreInv, <1>1, PTL DEF StoreSpec

(* The history of one scope: its rows are the last Keep revisions, one row *)
(* each, their ids in the same order, and the newest holds the value.      *)
History(rows, now) ==
  /\ {v.rev : v \in rows} = {n \in 1..now.rev : n + Keep > now.rev}
  /\ \A v, w \in rows : /\ w.rev = v.rev => w = v
                        /\ w.id >= v.id <=> w.rev >= v.rev
  /\ \A v \in rows : v.rev = now.rev => v.body = now.body

InStep(d) == \A s \in Scopes : History(Of(d.versions, s), Current(d, s))

(* As many rows as revisions from a to b, where each has one.              *)
LEMMA RowsOfRevisions ==
  ASSUME NEW rows, NEW a \in Nat, NEW b \in Nat, a <= b,
         \A w \in rows : w.rev \in a..b,
         \A v, w \in rows : w.rev = v.rev => w = v,
         \A n \in a..b : \E w \in rows : w.rev = n
  PROVE  Cardinality(rows) = b - a + 1
<1> DEFINE f == [w \in rows |-> w.rev]
<1>1. f \in Injection(rows, a..b)
  BY DEF Injection, IsInjective
<1>2. f \in Surjection(rows, a..b)
  BY DEF Surjection
<1>3. IsFiniteSet(a..b) /\ Cardinality(a..b) = b - a + 1
  BY FS_Interval
<1> HIDE DEF f
<1>4. Cardinality(rows) = Cardinality(a..b)
  BY <1>1, <1>2, <1>3, FS_Injection
<1> QED BY <1>3, <1>4

(* A new row takes the history one revision on: the row that falls out of  *)
(* the last Keep, if there is one, is the one that is deleted.             *)
LEMMA HistoryGrows ==
  ASSUME StoreAssumption, NEW rows \in SUBSET RowType, NEW s \in Scopes,
         NEW now \in EntryType, NEW row \in RowType,
         History(Of(rows, s), now), \A v \in rows : v.id < row.id,
         row.scope = s, row.rev = now.rev + 1
  PROVE  History(Of(Pruned(rows \cup {row}, s), s), [rev |-> row.rev, body |-> row.body])
<1> DEFINE old == Of(rows, s)
           all == Of(rows \cup {row}, s)
           kept == Of(Pruned(rows \cup {row}, s), s)
           top == now.rev + 1
<1>1. now.rev \in Nat /\ Keep \in Nat /\ Keep >= 1 /\ top \in Nat
  BY DEF EntryType, StoreAssumption
<1>2. old \subseteq rows /\ all = old \cup {row}
  BY DEF Of
<1>3. \A v \in all : v.rev \in Nat /\ v.id \in Nat
  BY <1>2 DEF RowType
<1>4. \A v \in old : v.rev \in 1..now.rev /\ v.rev + Keep > now.rev /\ v.id < row.id
  BY <1>2 DEF History
<1>5. \A n \in 1..now.rev : n + Keep > now.rev => \E v \in old : v.rev = n
  BY DEF History
<1>6. \A v, w \in old : /\ w.rev = v.rev => w = v
                        /\ w.id >= v.id <=> w.rev >= v.rev
  BY DEF History
<1>7. kept = {v \in all : Cardinality({w \in all : w.id >= v.id}) <= Keep}
  BY DEF Pruned, Of
<1> HIDE DEF old, all, kept
<1>8. \A v, w \in all : /\ w.rev = v.rev => w = v
                        /\ w.id >= v.id <=> w.rev >= v.rev
  BY <1>1, <1>2, <1>3, <1>4, <1>6
<1>9. ASSUME NEW v \in all
      PROVE  Cardinality({w \in all : w.id >= v.id}) = top - v.rev + 1
  <2> DEFINE newer == {w \in all : w.id >= v.id}
  <2>1. v.rev \in Nat /\ v.rev <= top
    BY <1>1, <1>2, <1>3, <1>4
  <2>2. \A w \in newer : w.rev \in v.rev..top
    BY <1>1, <1>2, <1>3, <1>4, <1>8
  <2>3. \A n \in v.rev..top : \E w \in newer : w.rev = n
    <3> SUFFICES ASSUME NEW n \in v.rev..top PROVE \E w \in all : w.rev = n /\ w.id >= v.id
      OBVIOUS
    <3>1. CASE n = top
      BY <1>2, <1>3, <1>8, <2>1, <3>1
    <3>2. CASE n # top
      <4>1. v \in old /\ n \in 1..now.rev /\ n + Keep > now.rev /\ n >= v.rev
        BY <1>1, <1>2, <1>4, <2>1, <3>2
      <4>2. PICK w \in old : w.rev = n
        BY <1>5, <4>1
      <4> QED BY <1>2, <1>8, <4>1, <4>2
    <3> QED BY <3>1, <3>2
  <2>4. \A u, w \in newer : w.rev = u.rev => w = u
    BY <1>8
  <2> DEFINE a == v.rev
  <2>5. /\ a \in Nat /\ top \in Nat /\ a <= top
        /\ \A w \in newer : w.rev \in a..top
        /\ \A n \in a..top : \E w \in newer : w.rev = n
    BY <1>1, <2>1, <2>2, <2>3
  <2> HIDE DEF newer, top, a
  <2>6. Cardinality(newer) = top - a + 1
    BY <2>4, <2>5, RowsOfRevisions
  <2> QED BY <2>6 DEF newer, a
<1>10. \A v \in all : v \in kept <=> v.rev + Keep > top
  BY <1>1, <1>3, <1>7, <1>9
<1>11. {v.rev : v \in kept} = {n \in 1..top : n + Keep > top}
  <2>1. ASSUME NEW v \in kept PROVE v.rev \in 1..top /\ v.rev + Keep > top
    BY <1>1, <1>2, <1>4, <1>7, <1>10
  <2>2. ASSUME NEW n \in 1..top, n + Keep > top PROVE \E v \in kept : v.rev = n
    <3>1. CASE n = top
      BY <1>1, <1>2, <1>10, <2>2, <3>1
    <3>2. CASE n # top
      <4>1. n \in 1..now.rev /\ n + Keep > now.rev
        BY <1>1, <2>2, <3>2
      <4>2. PICK v \in old : v.rev = n
        BY <1>5, <4>1
      <4> QED BY <1>2, <1>10, <2>2, <4>2
    <3> QED BY <3>1, <3>2
  <2> QED BY <2>1, <2>2
<1>12. \A v \in kept : v.rev = top => v.body = row.body
  BY <1>1, <1>2, <1>4, <1>7
<1>13. kept \subseteq all
  BY <1>7
<1> DEFINE new == [rev |-> row.rev, body |-> row.body]
<1>14. new.rev = top /\ new.body = row.body
  OBVIOUS
<1> HIDE DEF new, top
<1>15. History(kept, new)
  BY <1>8, <1>11, <1>12, <1>13, <1>14 DEF History
<1> QED BY <1>15 DEF kept, new

(* An item written in the transaction keeps every scope's history.         *)
LEMMA WrittenInStep ==
  ASSUME NEW d, GoodTables(d), InStep(d), NEW s \in Scopes, puts \in Nat
  PROVE  InStep(Written(d, s))
<1> DEFINE i == Written(d, s)
           now == Current(d, s)
           new == Current(i, s)
           row == RowOf(d, s, new)
           rows == d.versions
<1>1. /\ GoodTables(i) /\ new.rev = now.rev + 1
      /\ \A t \in Scopes : t # s => Current(i, t) = Current(d, t)
      /\ i.versions = Pruned(rows \cup {row}, s)
  BY WriteGood
<1>2. now \in EntryType /\ new \in EntryType
  BY <1>1, CurrentTyped
<1>3. rows \in SUBSET RowType /\ d.next \in Nat /\ \A v \in rows : v.id < d.next
  BY DEF GoodTables
<1>4. row \in RowType /\ row.scope = s /\ row.id = d.next /\ row.rev = new.rev
       /\ row.body = new.body
  BY <1>2, <1>3 DEF RowOf, RowType, EntryType
<1>5. new = [rev |-> row.rev, body |-> row.body]
  BY <1>2, <1>4 DEF EntryType
<1>6. \A t \in Scopes : History(Of(rows, t), Current(d, t))
  BY DEF InStep
<1>7. History(Of(rows, s), now)
  BY <1>6
<1> HIDE DEF i, now, new, row, rows
<1>8. History(Of(i.versions, s), new)
  BY <1>1, <1>2, <1>3, <1>4, <1>5, <1>7, HistoryGrows, StoreAssumption
<1>9. ASSUME NEW t \in Scopes, t # s PROVE History(Of(i.versions, t), Current(i, t))
  <2>1. Of(i.versions, t) = Of(rows, t)
    BY <1>1, <1>3, <1>4, <1>9, Others
  <2> QED BY <1>1, <1>6, <1>9, <2>1
<1>10. \A t \in Scopes : History(Of(i.versions, t), Current(i, t))
  BY <1>8, <1>9 DEF new
<1> QED BY <1>10 DEF InStep, i

(* Tables and open transaction agree with their histories in every step.   *)
HistoryInv == StoreInv /\ InStep(db) /\ InStep(tx)

LEMMA NextHistoryInv == HistoryInv /\ [StoreNext]_storeVars => HistoryInv'
<1> SUFFICES ASSUME HistoryInv, [StoreNext]_storeVars PROVE HistoryInv'
  OBVIOUS
<1>1. StoreInv /\ StoreInv'
  BY NextStoreInv DEF HistoryInv
<1>2. \/ db' = db /\ tx' \in {tx, db}
      \/ db' = tx /\ tx' = tx
      \/ \E s \in Scopes : db' = db /\ tx' = Written(tx, s)
  BY DEF StoreNext, storeVars, PutRules, ImportDevice, PutConfig, Open, Refuse, WriteItem,
         Rollback, Commit, Confirm, RefuseValue, MirrorFails, RestartHub, Written
<1>3. ASSUME NEW s \in Scopes PROVE InStep(Written(tx, s))
  BY <1>1, WrittenInStep DEF HistoryInv, StoreInv, StoreTyped
<1>4. PICK d, x : d = db' /\ x = tx'
  OBVIOUS
<1>5. InStep(d) /\ InStep(x)
  BY <1>2, <1>3, <1>4 DEF HistoryInv
<1>6. InStep(db)' /\ InStep(tx)'
  BY <1>4, <1>5 DEF InStep, Current
<1> QED BY <1>1, <1>6 DEF HistoryInv

LEMMA InitHistoryInv == StoreInit => HistoryInv
<1> SUFFICES ASSUME StoreInit PROVE HistoryInv
  OBVIOUS
<1>1. EmptyTables.versions = {} /\ Of({}, Hub) = {}
  BY DEF EmptyTables, Of
<1>2. ASSUME NEW s \in Scopes
      PROVE  Of({}, s) = {} /\ Current(EmptyTables, s) = NoEntry
  BY <1>1 DEF Current, HubConfig, Of, EmptyTables, Scopes
<1>3. NoEntry.rev = 0 /\ Keep \in Nat
  BY StoreAssumption DEF NoEntry, StoreAssumption
<1>4. History({}, NoEntry)
  BY <1>3 DEF History
<1>5. InStep(EmptyTables)
  BY <1>1, <1>2, <1>4 DEF InStep
<1> QED BY <1>5, InitStoreInv DEF HistoryInv, StoreInit

(* For every scope the versions kept are its last Keep revisions, without  *)
(* a gap or a double, and the newest is the current value, whatever was    *)
(* rolled back, failed or cut short by a restart (storage.py               *)
(* _insert_version; HUB_SPEC section 4).                                   *)
THEOREM HistoryIsComplete == StoreSpec => []HistoryInStep
<1>1. HistoryInv => HistoryInStep
  BY DEF HistoryInv, InStep, History, HistoryInStep
<1> QED BY InitHistoryInv, NextHistoryInv, <1>1, PTL DEF StoreSpec

(* An import is committed for all its streams or for none, through crashes *)
(* and failing statements (storage.py put_device_rules).                   *)
THEOREM ImportsAreWhole == StoreSpec => ImportIsWhole
<1> DEFINE Whole == \A s \in Streams : db'.rules[s] # db.rules[s] =>
                      \A w \in wrote[puts] : Current(db', w[1]).body[w[2]] = puts
<1>1. ASSUME StoreInv, [StoreNext]_storeVars PROVE [Whole]_storeVars
  <2>1. CASE Commit
    <3>1. db' = tx /\ at = "open" /\ todo = {}
      BY <2>1 DEF Commit
    <3> QED BY <1>1, <3>1 DEF StoreInv, InHand
  <2>2. CASE ~Commit
    <3>1. db' = db
      BY <1>1, <2>2 DEF StoreNext, storeVars, PutRules, ImportDevice, PutConfig, Open,
           Refuse, WriteItem, Rollback, Confirm, RefuseValue, MirrorFails, RestartHub
    <3> QED BY <3>1
  <2> QED BY <2>1, <2>2
<1> QED BY InitStoreInv, NextStoreInv, <1>1, PTL DEF StoreSpec, ImportIsWhole
=============================================================================
