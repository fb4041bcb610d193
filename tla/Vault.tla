--------------------------------- MODULE Vault ---------------------------------
(***************************************************************************)
(* The vault: the KDF salt and the DEK envelope the engine keeps in the    *)
(* meta table, and the browser sessions that create, unlock and rotate the *)
(* vault and save journal entries under its key.                           *)
(*                                                                         *)
(* A key-encryption key is the pair of the passphrase and the salt it was  *)
(* derived with; an envelope is the pair of the DEK and the KEK that wraps *)
(* it, and opens under that KEK only.  The two requests of a session       *)
(* (kdf-params, dek-envelope) run as separate steps of the engine, and     *)
(* each of them reads the database and writes it in separate statements    *)
(* that other requests may come between.                                   *)
(*                                                                         *)
(* The agent token of InstallToken guards the replacement of an envelope,  *)
(* so the engine here is the engine there.                                 *)
(***************************************************************************)
EXTENDS InstallToken

CONSTANTS
  Tabs,             \* browser sessions
  Creators,         \* those of them that may create a vault
  Passphrases,
  MaxOps,           \* bound: vault operations begun
  MaxPowerLosses,   \* bound: power losses
  FirstVisitAlone,  \* does nobody else begin while the first request finds no salt?
  None              \* no salt, no envelope, no session

ASSUME VaultAssumption ==
  /\ Creators \subseteq Tabs
  /\ MaxOps \in Nat
  /\ MaxPowerLosses \in Nat
  /\ FirstVisitAlone \in BOOLEAN

VARIABLES
  db,           \* [salt, envelope, records], the committed database
  recoverable,  \* the database states a power loss may fall back to
  step,         \* [Tabs -> Steps]
  op,           \* [Tabs -> {"none", "create", "unlock", "rotate"}]
  pass,         \* [Tabs -> Passphrases \cup {None}], what the user typed
  salt,         \* [Tabs -> Nat \cup {None}], the salt kdf-params answered
  newDek,       \* [Tabs -> Nat \cup {None}], the DEK of the envelope being sent
  session,      \* [Tabs -> Session \cup {None}]
  salts, deks,  \* generated so far
  ops, losses   \* bounds

tabVars   == <<step, op, pass, salt, newDek, session>>
vaultVars == <<db, recoverable, tabVars, salts, deks, ops, losses>>
vars      == <<tokenVars, vaultVars>>

Steps == {"idle", "params", "nosalt", "derived", "checked", "stored"}

Kek(p, s) == <<p, s>>
KekSalt(k) == k[2]

Envelope == [dek : Nat, kek : Passphrases \X Nat]
Session  ==
  [version : {1}, key : Passphrases \X Nat] \cup [version : {2}, key : Nat]

ASSUME NoneAssumption == None \notin Nat \cup Passphrases \cup Envelope \cup Session

VaultInit ==
  /\ TokenInit
  /\ db = [salt |-> None, envelope |-> None, records |-> {}]
  /\ recoverable = {db}
  /\ step = [t \in Tabs |-> "idle"]
  /\ op = [t \in Tabs |-> "none"]
  /\ pass = [t \in Tabs |-> None]
  /\ salt = [t \in Tabs |-> None]
  /\ newDek = [t \in Tabs |-> None]
  /\ session = [t \in Tabs |-> None]
  /\ salts = 0
  /\ deks = 0
  /\ ops = 0
  /\ losses = 0

EngineUp == stage["engine"] = "up"

\* A statement commits: WAL with synchronous = NORMAL keeps every earlier
\* state since the last checkpoint possible after a power loss.
Commits(field, value) ==
  /\ db' = [db EXCEPT ![field] = value]
  /\ recoverable' = recoverable \cup {db'}

\* The operation of t is over; s is its session from now on.
Ends(t, s) ==
  /\ step' = [step EXCEPT ![t] = "idle"]
  /\ op' = [op EXCEPT ![t] = "none"]
  /\ pass' = [pass EXCEPT ![t] = None]
  /\ salt' = [salt EXCEPT ![t] = None]
  /\ newDek' = [newDek EXCEPT ![t] = None]
  /\ session' = [session EXCEPT ![t] = s]

------------------------------------------------------------------------------
(* createVault, unlockVault, and the rotation SELF_HOST.md describes.        *)

\* The user starts an operation; the tab asks for the KDF parameters.  The
\* code does not make the first visit alone: FirstVisitAlone assumes it.
Begin(t, o, p) ==
  /\ step[t] = "idle"
  /\ ops < MaxOps
  /\ o = "create" => t \in Creators
  /\ o = "rotate" => session[t] # None /\ session[t].version = 2
  /\ FirstVisitAlone /\ db.salt = None => \A u \in Tabs : step[u] = "idle"
  /\ ops' = ops + 1
  /\ step' = [step EXCEPT ![t] = "params"]
  /\ op' = [op EXCEPT ![t] = o]
  /\ pass' = [pass EXCEPT ![t] = p]
  /\ session' = [session EXCEPT ![t] = IF o = "rotate" THEN @ ELSE None]
  /\ UNCHANGED <<tokenVars, db, recoverable, salt, newDek, salts, deks, losses>>

\* Mutant: a salt is generated whether or not there is one.
ReadSaltNever(t) ==
  /\ EngineUp
  /\ step[t] = "params"
  /\ step' = [step EXCEPT ![t] = "nosalt"]
  /\ UNCHANGED <<tokenVars, db, recoverable, op, pass, salt, newDek, session, salts, deks, ops, losses>>

\* get_kdf_salt: SELECT ...
ReadSalt(t) ==
  /\ EngineUp
  /\ step[t] = "params"
  /\ \/ /\ db.salt # None
        /\ step' = [step EXCEPT ![t] = "derived"]
        /\ salt' = [salt EXCEPT ![t] = db.salt]
     \/ /\ db.salt = None
        /\ step' = [step EXCEPT ![t] = "nosalt"]
        /\ UNCHANGED salt
  /\ UNCHANGED <<tokenVars, db, recoverable, op, pass, newDek, session, salts, deks, ops, losses>>

\* ... and, where there was none, an upsert of a fresh one.
SetSalt(t) ==
  /\ EngineUp
  /\ step[t] = "nosalt"
  /\ salts' = salts + 1
  /\ Commits("salt", salts')
  /\ step' = [step EXCEPT ![t] = "derived"]
  /\ salt' = [salt EXCEPT ![t] = salts']
  /\ UNCHANGED <<tokenVars, op, pass, newDek, session, deks, ops, losses>>

\* unlockVault: without an envelope the KEK is the session's key, and any
\* passphrase will do; with one, only the KEK that wraps it opens it.
Unlock(t) ==
  /\ EngineUp
  /\ step[t] = "derived"
  /\ op[t] = "unlock"
  /\ LET kek == Kek(pass[t], salt[t])
     IN  Ends(t, IF db.envelope = None
                   THEN [key |-> kek, version |-> 1]
                 ELSE IF db.envelope.kek = kek
                   THEN [key |-> db.envelope.dek, version |-> 2]
                 ELSE None)
  /\ UNCHANGED <<tokenVars, db, recoverable, salts, deks, ops, losses>>

\* The user's token, read from the file, is the one the engine holds.
TokenAccepted == file \in Token /\ file = token["engine"]

\* Mutant: set_dek_envelope replaces whatever is stored.
CheckEnvelopeNever(t) ==
  /\ EngineUp
  /\ step[t] = "derived"
  /\ op[t] \in {"create", "rotate"}
  /\ deks' = IF op[t] = "create" THEN deks + 1 ELSE deks
  /\ step' = [step EXCEPT ![t] = "checked"]
  /\ newDek' = [newDek EXCEPT ![t] = IF op[t] = "create" THEN deks' ELSE session[t].key]
  /\ UNCHANGED <<tokenVars, db, recoverable, op, pass, salt, session, salts, ops, losses>>

\* set_dek_envelope: an envelope that is there may only be replaced with the
\* token, which createVault does not send; otherwise 409.
CheckEnvelope(t) ==
  /\ EngineUp
  /\ step[t] = "derived"
  /\ op[t] \in {"create", "rotate"}
  /\ deks' = IF op[t] = "create" THEN deks + 1 ELSE deks
  /\ IF db.envelope = None \/ (op[t] = "rotate" /\ TokenAccepted)
       THEN /\ step' = [step EXCEPT ![t] = "checked"]
            /\ newDek' = [newDek EXCEPT ![t] = IF op[t] = "create" THEN deks' ELSE session[t].key]
            /\ UNCHANGED <<op, pass, salt, session>>
       ELSE Ends(t, session[t])
  /\ UNCHANGED <<tokenVars, db, recoverable, salts, ops, losses>>

\* Mutant: the envelope wraps under a salt the client was not told.
StoreEnvelopeOtherSalt(t) ==
  /\ EngineUp
  /\ step[t] = "checked"
  /\ Commits("envelope", [dek |-> newDek[t], kek |-> Kek(pass[t], salt[t] + 1)])
  /\ step' = [step EXCEPT ![t] = "stored"]
  /\ UNCHANGED <<tokenVars, op, pass, salt, newDek, session, salts, deks, ops, losses>>

\* ... and the upsert.
StoreEnvelope(t) ==
  /\ EngineUp
  /\ step[t] = "checked"
  /\ Commits("envelope", [dek |-> newDek[t], kek |-> Kek(pass[t], salt[t])])
  /\ step' = [step EXCEPT ![t] = "stored"]
  /\ UNCHANGED <<tokenVars, op, pass, salt, newDek, session, salts, deks, ops, losses>>

\* The 204 arrives: the tab works with the DEK it wrapped.
Created(t) ==
  /\ step[t] = "stored"
  /\ Ends(t, [key |-> newDek[t], version |-> 2])
  /\ UNCHANGED <<tokenVars, db, recoverable, salts, deks, ops, losses>>

\* A statement fails or the answer is lost, at any step: the tab reports an
\* error and keeps the session it had (none, unless it was rotating).  A
\* handler whose client has given up runs on all the same; it is a tab that
\* has not failed yet, and what its user tries again meanwhile is another's.
Fails(t) ==
  /\ step[t] # "idle"
  /\ Ends(t, session[t])
  /\ UNCHANGED <<tokenVars, db, recoverable, salts, deks, ops, losses>>

\* The journal encrypts an entry with the session's key and appends it.
SaveEntry(t) ==
  /\ EngineUp
  /\ step[t] = "idle"
  /\ session[t] # None
  /\ Commits("records", db.records \cup {session[t]})
  /\ UNCHANGED <<tokenVars, tabVars, salts, deks, ops, losses>>

\* The tab locks the vault or is closed.
Lock(t) ==
  /\ step[t] = "idle"
  /\ session[t] # None
  /\ session' = [session EXCEPT ![t] = None]
  /\ UNCHANGED <<tokenVars, db, recoverable, step, op, pass, salt, newDek, salts, deks, ops, losses>>

TabStep(t) ==
  \/ \E o \in {"create", "unlock", "rotate"}, p \in Passphrases : Begin(t, o, p)
  \/ ReadSalt(t) \/ SetSalt(t) \/ Unlock(t)
  \/ CheckEnvelope(t) \/ StoreEnvelope(t) \/ Created(t) \/ Fails(t)
  \/ SaveEntry(t) \/ Lock(t)

------------------------------------------------------------------------------
(* The engine and the machine under it.                                      *)

\* A request in an engine that goes down fails.
TabsLoseEngine ==
  IF EngineUp /\ stage'["engine"] # "up"
    THEN /\ step' = [t \in Tabs |-> "idle"]
         /\ op' = [t \in Tabs |-> "none"]
         /\ pass' = [t \in Tabs |-> None]
         /\ salt' = [t \in Tabs |-> None]
         /\ newDek' = [t \in Tabs |-> None]
         /\ UNCHANGED session
    ELSE UNCHANGED tabVars

Checkpoint ==
  /\ recoverable # {db}
  /\ recoverable' = {db}
  /\ UNCHANGED <<tokenVars, db, tabVars, salts, deks, ops, losses>>

\* The machine loses power: everything starts again from a database state
\* the disk kept, and the token file, which nobody syncs, may be cut short.
PowerLoss ==
  /\ losses < MaxPowerLosses
  /\ losses' = losses + 1
  /\ db' \in recoverable
  /\ recoverable' = {db'}
  /\ file' \in {file} \cup (IF file = Absent THEN {} ELSE {Absent, Empty})
  /\ stage' = [p \in Process |-> "down"]
  /\ token' = [p \in Process |-> Absent]
  /\ serving' = {}
  /\ step' = [t \in Tabs |-> "idle"]
  /\ op' = [t \in Tabs |-> "none"]
  /\ pass' = [t \in Tabs |-> None]
  /\ salt' = [t \in Tabs |-> None]
  /\ newDek' = [t \in Tabs |-> None]
  /\ session' = [t \in Tabs |-> None]
  /\ UNCHANGED <<drawn, kills, salts, deks, ops>>

VaultNext ==
  \/ TokenNext /\ TabsLoseEngine /\ UNCHANGED <<db, recoverable, salts, deks, ops, losses>>
  \/ \E t \in Tabs : TabStep(t)
  \/ Checkpoint
  \/ PowerLoss

VaultSpec == VaultInit /\ [][VaultNext]_vars

------------------------------------------------------------------------------
(* Properties.                                                               *)

\* Every variable has its type; a tab between operations carries nothing of
\* the last one, and a salt it was told is one that was generated.
VaultTypeOK ==
  /\ TokenTypeOK
  /\ \A d \in recoverable \cup {db} :
       /\ d.salt \in (1..salts) \cup {None}
       /\ d.envelope # None => /\ d.envelope.dek \in 1..deks
                               /\ d.envelope.kek \in Passphrases \X (1..salts)
       /\ \A r \in d.records : r.version \in {1, 2}
  /\ db \in recoverable
  /\ step \in [Tabs -> Steps]
  /\ op \in [Tabs -> {"none", "create", "unlock", "rotate"}]
  /\ pass \in [Tabs -> Passphrases \cup {None}]
  /\ salt \in [Tabs -> (1..salts) \cup {None}]
  /\ newDek \in [Tabs -> (1..deks) \cup {None}]
  /\ \A t \in Tabs :
       /\ step[t] = "idle" <=> op[t] = "none"
       /\ step[t] = "idle" <=> pass[t] = None
       /\ step[t] \in {"derived", "checked", "stored"} <=> salt[t] # None
       /\ step[t] \in {"checked", "stored"} <=> newDek[t] # None
       /\ session[t] # None => session[t].version \in {1, 2}

\* A stored envelope is wrapped under a key that the stored salt still
\* derives, so its passphrase opens it, also after crashes and power losses
\* (db.rs:413, "What matters is stability across restarts").  Refuted when
\* two first requests for the salt race: the second upsert replaces the salt.
EnvelopeOpens ==
  db.envelope # None => db.salt # None /\ KekSalt(db.envelope.kek) = db.salt

\* What a v2 session encrypts with is the DEK a later unlock will get.
SessionIsEnvelope ==
  \A t \in Tabs : session[t] # None /\ session[t].version = 2 =>
    db.envelope # None /\ session[t].key = db.envelope.dek

\* Every entry saved by a v2 session can be decrypted with the DEK in the
\* stored envelope, in every state the disk may fall back to.
EntriesOpen ==
  \A d \in recoverable : \A r \in d.records : r.version = 2 =>
    d.envelope # None /\ r.key = d.envelope.dek

\* Once an envelope exists, only a request that presents the agent token
\* replaces it (crypto_api.rs:265).  Refuted when two vault creations race.
EnvelopeGuarded ==
  [][losses' = losses /\ db.envelope # None /\ db'.envelope # db.envelope =>
       \E t \in Tabs : step[t] = "checked" /\ op[t] = "rotate"]_vars
==============================================================================
