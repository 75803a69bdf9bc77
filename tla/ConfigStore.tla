----------------------------- MODULE ConfigStore -----------------------------
(***************************************************************************)
(* The hub's configuration: the rules of each stream and the hub's own     *)
(* settings (storage.py, http_api.py, config.py).  A PUT is one SQLite     *)
(* transaction, then config.json is rewritten, then the settings in memory *)
(* are resolved anew, and three of them are handed to the components that  *)
(* run: the others reach a component when it is built, at the start.  The  *)
(* handler does not await in between, so no other handler runs there; a    *)
(* crash and a failing disk can.                                           *)
(***************************************************************************)
EXTENDS Naturals, FiniteSets

CONSTANTS
  Streams,          \* the (device, stream) pairs that may have rules
  Hub,              \* the scope of the hub's own settings
  Keys,             \* the keys of a body
  EnvKeys,          \* the settings the environment overrides
  Keep,             \* CONFIG_VERSION_KEEP
  MaxPuts,          \* bound on the PUTs
  Parsed,           \* the settings the start makes numbers of
  Handed            \* those update_config makes numbers of too, and hands on

Scopes == Streams \cup {Hub}
Puts == 1..MaxPuts

ASSUME StoreAssumption ==
  /\ Hub \notin Streams /\ EnvKeys \subseteq Keys
  /\ Parsed \subseteq Keys /\ Handed \subseteq Parsed
  /\ Keep \in Nat \ {0} /\ MaxPuts \in Nat

VARIABLES
  db,               \* the tables rules and config_versions, and its next id
  mirror,           \* config.json
  settings,         \* Hub.config, in memory
  running,          \* what the components hold of it
  at,               \* where the PUT stands: "idle", "open" or "mirror"; or
                    \* "dead": the hub cannot start
  tx,               \* the tables as the open transaction sees them
  todo,             \* scopes the transaction has yet to write
  puts,             \* PUTs so far: the number of a PUT stands for its content
  bad,              \* the values that are no number: their PUTs and keys
  wrote,            \* history: what each PUT is to write, if it may be confirmed
  told              \* history: what the caller of each PUT was told

storeVars == <<db, mirror, settings, running, at, tx, todo, puts, bad,
              wrote, told>>

(* A body gives each key the PUT that set it, 0 when it is not there.      *)
Body == [Keys -> 0..MaxPuts]
NoBody == [k \in Keys |-> 0]
Entry == [rev : Nat, body : Body]
NoEntry == [rev |-> 0, body |-> NoBody]
VersionRow == [id : Nat, scope : Scopes, rev : Nat, body : Body]
Tables == [rules : [Streams -> Entry], versions : SUBSET VersionRow,
           next : Nat]
EmptyTables == [rules |-> [s \in Streams |-> NoEntry], versions |-> {},
                next |-> 1]

Of(rows, s) == {v \in rows : v.scope = s}

(* get_hub_config: the hub has no table of its own, the row of its scope   *)
(* with the largest revision is the current value.                         *)
HubConfig(rows) ==
  IF Of(rows, Hub) = {} THEN NoEntry
  ELSE LET top == CHOOSE v \in Of(rows, Hub) :
                    \A w \in Of(rows, Hub) : w.rev <= v.rev
       IN [rev |-> top.rev, body |-> top.body]

Current(d, s) == IF s = Hub THEN HubConfig(d.versions) ELSE d.rules[s]

(* config.json, as _mirror_config composes it from the tables.             *)
MirrorOf(d) == [s \in Scopes |-> Current(d, s)]

(* config.resolve: the environment wins over what is stored.               *)
ResolveSettings(body) == [k \in Keys |-> IF k \in EnvKeys THEN 0 ELSE body[k]]

StoreInit ==
  /\ db = EmptyTables
  /\ mirror = MirrorOf(EmptyTables)
  /\ settings = ResolveSettings(NoBody) /\ running = settings
  /\ at = "idle" /\ tx = EmptyTables /\ todo = {}
  /\ puts = 0 /\ bad = {}
  /\ wrote = [r \in Puts |-> {}]
  /\ told = [r \in Puts |-> "none"]

-----------------------------------------------------------------------------
(* The transaction.                                                        *)

(* Mutant: the limit counts the rows of every scope.                       *)
Pruned_AllScopes(rows, s) ==
  {v \in rows : v.scope = s =>
                  Cardinality({w \in rows : w.id >= v.id}) <= Keep}

(* Everything of the scope but its newest Keep rows is deleted.            *)
Pruned(rows, s) ==
  {v \in rows : v.scope = s =>
                  Cardinality({w \in Of(rows, s) : w.id >= v.id}) <= Keep}

(* _insert_version: a row with an AUTOINCREMENT id, then the pruning.      *)
InsertVersion(d, s, e) ==
  [d EXCEPT !.versions = Pruned(@ \cup {[id |-> d.next, scope |-> s,
                                         rev |-> e.rev, body |-> e.body]}, s),
            !.next = @ + 1]

(* _put_rules_many, one item: the whole body is replaced.                  *)
WriteRules(d, s) ==
  LET e == [rev |-> d.rules[s].rev + 1, body |-> [k \in Keys |-> puts]]
  IN InsertVersion([d EXCEPT !.rules[s] = e], s, e)

(* update_config and put_hub_config: the patch is merged into what is      *)
(* stored.                                                                 *)
WriteHub(d) ==
  LET now == HubConfig(d.versions)
      patched(k) == <<Hub, k>> \in wrote[puts]
      body == [k \in Keys |-> IF patched(k) THEN puts ELSE now.body[k]]
  IN InsertVersion(d, Hub, [rev |-> now.rev + 1, body |-> body])

(* The settings as they are stored, and the keys of those whose float or   *)
(* int raises.                                                             *)
StoredSettings == ResolveSettings(HubConfig(db.versions).body)
Unparsable(keys) == {k \in keys : <<StoredSettings[k], k>> \in bad}

(* update_config: only a PUT of settings resolves them.                    *)
OfHub == wrote[puts] = {} \/ wrote[puts] \cap ({Hub} \X Keys) # {}

(* A PUT that passed its checks opens a transaction.                       *)
Open(scopes, keys) ==
  /\ at = "idle" /\ puts < MaxPuts
  /\ puts' = puts + 1
  /\ wrote' = [wrote EXCEPT ![puts + 1] = scopes \X keys]
  /\ at' = "open" /\ tx' = db /\ todo' = scopes
  /\ UNCHANGED <<db, mirror, settings, running, told>>

PutRules(s) == Open({s}, Keys) /\ UNCHANGED bad

(* import_device_config: every stream's body was validated before.         *)
ImportDevice(scopes) == Open(scopes, Keys) /\ UNCHANGED bad

(* update_config checks the names of the keys, and nothing of the values.  *)
PutConfig(keys) ==
  /\ Open({Hub}, keys)
  /\ \E wrong \in SUBSET (keys \cap Parsed) : bad' = bad \cup ({puts + 1} \X wrong)

(* The body of one stream is malformed, or a key is unknown: 400.          *)
Refuse ==
  /\ at = "idle" /\ puts < MaxPuts
  /\ puts' = puts + 1
  /\ told' = [told EXCEPT ![puts + 1] = "refused"]
  /\ UNCHANGED <<db, mirror, settings, running, at, tx, todo, bad, wrote>>

(* Mutant: every item is committed on its own.                             *)
WriteItem_Autocommit(s) ==
  /\ at = "open" /\ s \in todo
  /\ tx' = IF s = Hub THEN WriteHub(tx) ELSE WriteRules(tx, s)
  /\ db' = tx'
  /\ todo' = todo \ {s}
  /\ UNCHANGED <<mirror, settings, running, at, puts, bad, wrote, told>>

WriteItem(s) ==
  /\ at = "open" /\ s \in todo
  /\ tx' = IF s = Hub THEN WriteHub(tx) ELSE WriteRules(tx, s)
  /\ todo' = todo \ {s}
  /\ UNCHANGED <<db, mirror, settings, running, at, puts, bad, wrote, told>>

(* A PUT that ends unconfirmed makes no claim; one that is not committed   *)
(* leaves no value.                                                        *)
NoClaim == wrote' = [wrote EXCEPT ![puts] = {}]
NoValue == bad' = {b \in bad : b[1] # puts}

(* A statement raises: ROLLBACK, and the caller gets a 500.                *)
Rollback ==
  /\ at = "open"
  /\ at' = "idle" /\ tx' = db /\ todo' = {}
  /\ told' = [told EXCEPT ![puts] = "failed"]
  /\ NoClaim /\ NoValue
  /\ UNCHANGED <<db, mirror, settings, running, puts>>

Commit ==
  /\ at = "open" /\ todo = {}
  /\ db' = tx
  /\ at' = "mirror"
  /\ UNCHANGED <<mirror, settings, running, tx, todo, puts, bad, wrote, told>>

(* Mutant: the settings are resolved, and no component hears of it.        *)
Confirm_HandsNothingOn ==
  /\ at = "mirror" /\ (OfHub => Unparsable(Handed) = {})
  /\ mirror' = MirrorOf(db)
  /\ settings' = IF OfHub THEN StoredSettings ELSE settings
  /\ at' = "idle"
  /\ told' = [told EXCEPT ![puts] = "ok"]
  /\ UNCHANGED <<db, running, tx, todo, puts, bad, wrote>>

(* _mirror_config succeeds; of a PUT of settings, update_config resolves   *)
(* them and hands on what it does; the caller gets a 200.                  *)
Confirm ==
  /\ at = "mirror" /\ (OfHub => Unparsable(Handed) = {})
  /\ mirror' = MirrorOf(db)
  /\ settings' = IF OfHub THEN StoredSettings ELSE settings
  /\ running' = [k \in Keys |-> IF OfHub /\ k \in Handed THEN StoredSettings[k]
                                                     ELSE running[k]]
  /\ at' = "idle"
  /\ told' = [told EXCEPT ![puts] = "ok"]
  /\ UNCHANGED <<db, tx, todo, puts, bad, wrote>>

(* ... but a handed value turns out not to be a number, of this PUT or of  *)
(* an earlier one: a 400, with the body stored, the settings resolved and  *)
(* the values that come before that one in the code handed on.             *)
RefuseValue ==
  /\ at = "mirror" /\ OfHub /\ Unparsable(Handed) # {}
  /\ mirror' = MirrorOf(db)
  /\ settings' = StoredSettings
  /\ \E before \in SUBSET (Handed \ Unparsable(Handed)) :
       running' = [k \in Keys |-> IF k \in before THEN StoredSettings[k] ELSE running[k]]
  /\ at' = "idle"
  /\ told' = [told EXCEPT ![puts] = "refused"]
  /\ NoClaim
  /\ UNCHANGED <<db, tx, todo, puts, bad>>

(* atomic_write_json raises, before its rename or after it: the change is  *)
(* stored, the settings in memory are not resolved, the caller gets a 500. *)
MirrorFails ==
  /\ at = "mirror"
  /\ mirror' \in {mirror, MirrorOf(db)}
  /\ at' = "idle"
  /\ told' = [told EXCEPT ![puts] = "failed"]
  /\ NoClaim
  /\ UNCHANGED <<db, settings, running, tx, todo, puts, bad>>

(* The process ends anywhere and starts anew, every component with the     *)
(* settings of now, or dies of one that is no number.  (A power cut could  *)
(* also take the WAL's last transactions, synchronous=NORMAL: left out.)   *)
RestartHub ==
  /\ settings' = StoredSettings /\ running' = StoredSettings
  /\ at' = IF Unparsable(Parsed) # {} THEN "dead" ELSE "idle"
  /\ tx' = db /\ todo' = {}
  /\ IF at \in {"idle", "dead"} THEN UNCHANGED <<told, wrote>>
     ELSE told' = [told EXCEPT ![puts] = "lost"] /\ NoClaim
  /\ IF at = "open" THEN NoValue ELSE UNCHANGED bad
  /\ UNCHANGED <<db, mirror, puts>>

StoreNext ==
  \/ \E s \in Streams : PutRules(s)
  \/ \E scopes \in SUBSET Streams \ {{}} : ImportDevice(scopes)
  \/ \E keys \in SUBSET Keys : PutConfig(keys)
  \/ Refuse
  \/ \E s \in Scopes : WriteItem(s)
  \/ Rollback \/ Commit \/ Confirm \/ RefuseValue \/ MirrorFails \/ RestartHub

StoreSpec == StoreInit /\ [][StoreNext]_storeVars

-----------------------------------------------------------------------------
(* Every variable stays in its range.                                      *)
StoreTypeOK ==
  /\ db \in Tables /\ tx \in Tables
  /\ mirror \in [Scopes -> Entry]
  /\ settings \in Body /\ running \in Body
  /\ at \in {"idle", "open", "mirror", "dead"} /\ bad \subseteq Puts \X Parsed
  /\ todo \subseteq Scopes
  /\ puts \in 0..MaxPuts
  /\ wrote \in [Puts -> SUBSET (Scopes \X Keys)]
  /\ told \in [Puts -> {"none", "ok", "refused", "failed", "lost"}]

(* Of two equal revisions the content is one.                              *)
MirrorIsPast(s) ==
  /\ mirror[s].rev <= Current(db, s).rev
  /\ mirror[s].rev = Current(db, s).rev => mirror[s] = Current(db, s)

(* What a caller was told is saved is saved, and stays until a later PUT   *)
(* overwrites it, whatever crashed or failed since: in the tables, in      *)
(* config.json and, for a setting that the environment leaves alone, in    *)
(* Hub.config.  A handed setting is also in force, in the component that   *)
(* uses it; the others are in force after the next start only, and the     *)
(* answer does not say so of all of them.  And config.json never lists     *)
(* what was not committed (HUB_SPEC section 4, persistence).               *)
ConfirmedHolds ==
  /\ \A s \in Scopes : MirrorIsPast(s)
  /\ \A r \in Puts : told[r] = "ok" =>
       \A w \in wrote[r] :
         LET s == w[1] k == w[2] IN
           /\ Current(db, s).body[k] >= r
           /\ mirror[s].body[k] >= r
           /\ s = Hub /\ k \notin EnvKeys => settings[k] >= r
           /\ s = Hub /\ k \in Handed \ EnvKeys => running[k] >= r

(* The versions of a scope are its last Keep revisions, without a gap, and *)
(* the newest is the current value (HUB_SPEC section 4: an operator rolls  *)
(* back by PUTting the body of an older one).                              *)
HistoryInStep ==
  \A s \in Scopes :
    LET now == Current(db, s).rev IN
      /\ {v.rev : v \in Of(db.versions, s)} =
           {n \in 1..now : n + Keep > now}
      /\ \A v \in Of(db.versions, s) :
           v.rev = now => v.body = Current(db, s).body

(* An import replaces the rules of all its streams or of none, through     *)
(* crashes and failures (put_device_rules, one transaction).               *)
ImportIsWhole ==
  [][\A s \in Streams : db'.rules[s] # db.rules[s] =>
       \A w \in wrote[puts] : Current(db', w[1]).body[w[2]] = puts]_storeVars
=============================================================================
