------------------------------- MODULE VaultProofs -------------------------------
(***************************************************************************)
(* Machine-checked facts about InstallToken, for any number of starts,     *)
(* races and kills of the two processes, and about Vault, for any number   *)
(* of tabs, operations, crashes and power losses.                          *)
(***************************************************************************)
EXTENDS Vault, TLAPS

-----------------------------------------------------------------------------
(* The token: its inductive invariant.                                       *)

\* Whoever has created the file and not yet written it is alone in that, and
\* the file is still empty; whoever lost the race has seen a file.
CreatorAlone ==
  \A p \in Process :
    /\ stage[p] = "created" => /\ file = Empty
                               /\ \A q \in Process \ {p} : stage[q] # "created"
    /\ stage[p] = "lost" => file # Absent

\* A process that is about to create or write holds the token it has drawn,
\* and analytics is not up without having read or written the file.
HoldsDrawn ==
  /\ \A p \in Process : stage[p] \in {"drawn", "created"} => token[p] \in Token
  /\ stage["analytics"] = "up" => token["analytics"] # Absent

TokenInv == TokenTypeOK /\ CreatorAlone /\ HoldsDrawn /\ AnalyticsAgrees

LEMMA TokenInitInv == TokenInit => TokenInv
<1> SUFFICES ASSUME TokenInit PROVE TokenInv
  OBVIOUS
<1>1. TokenTypeOK
  BY DEF TokenInit, TokenTypeOK, Stages
<1> QED
  BY <1>1 DEF TokenInit, TokenInv, CreatorAlone, HoldsDrawn, AnalyticsAgrees, Process

LEMMA TokenStepInv ==
  ASSUME TokenInv, NEW p \in Process, TokenStep(p) \/ Resolve(p) \/ Kill(p)
  PROVE  TokenInv'
<1> USE TokenAssumption DEF TokenInv, Goes, Holds, Token
<1> USE DEF TokenTypeOK, CreatorAlone, HoldsDrawn, AnalyticsAgrees, Process, Stages
<1>1. CASE ReadFile(p)
  BY <1>1 DEF ReadFile
<1>2. CASE CreateFile(p)
  BY <1>2 DEF CreateFile
<1>3. CASE WriteFile(p)
  BY <1>3 DEF WriteFile
<1>4. CASE ReadAgain(p)
  BY <1>4 DEF ReadAgain
<1>5. CASE CannotWrite(p)
  BY <1>5 DEF CannotWrite
<1>6. CASE Resolve(p)
  BY <1>6 DEF Resolve
<1>7. CASE Kill(p)
  BY <1>7 DEF Kill
<1> QED
  BY <1>1, <1>2, <1>3, <1>4, <1>5, <1>6, <1>7 DEF TokenStep

LEMMA TokenNextInv == TokenInv /\ [TokenNext]_tokenVars => TokenInv'
<1> SUFFICES ASSUME TokenInv, [TokenNext]_tokenVars
             PROVE  TokenInv'
  OBVIOUS
<1> USE DEF TokenInv, TokenTypeOK, CreatorAlone, HoldsDrawn, AnalyticsAgrees, Process
<1>1. CASE DeleteFile
  BY <1>1 DEF DeleteFile
<1>2. CASE UNCHANGED tokenVars
  BY <1>2 DEF tokenVars
<1>3. CASE \E p \in Process : Resolve(p) \/ TokenStep(p) \/ Kill(p)
  BY <1>3, TokenStepInv
<1> QED
  BY <1>1, <1>2, <1>3 DEF TokenNext

-----------------------------------------------------------------------------
(* The token by itself: theorems of TokenSpec.                               *)

\* The inductive invariant holds in every reachable state.
THEOREM TokenInvariance == TokenSpec => []TokenInv
  BY TokenInitInv, TokenNextInv, PTL DEF TokenSpec

\* Every variable keeps its type.
THEOREM TokenTypeCorrect == TokenSpec => []TokenTypeOK
<1>1. TokenInv => TokenTypeOK
  BY DEF TokenInv
<1> QED
  BY <1>1, TokenInvariance, PTL

\* Analytics never accepts a token that is not the install's.
THEOREM AnalyticsFollowsFile == TokenSpec => []AnalyticsAgrees
<1>1. TokenInv => AnalyticsAgrees
  BY DEF TokenInv
<1> QED
  BY <1>1, TokenInvariance, PTL

\* Of the steps that touch the file, the write finds it empty, the creation
\* finds it absent, and only the deletion finds a token, with both down.
LEMMA TokenStepKeeps ==
  ASSUME TokenInv, TokenNext, file' # file, file \in Token
  PROVE  \A p \in Process : stage'[p] = "down"
<1>1. Absent \notin Token /\ Empty \notin Token
  BY TokenAssumption DEF Token
<1>2. ~ \E p \in Process : Resolve(p) \/ TokenStep(p) \/ Kill(p)
  BY <1>1 DEF Resolve, Kill, TokenStep, ReadFile, CreateFile, WriteFile, ReadAgain, CannotWrite,
              TokenInv, CreatorAlone
<1> QED
  BY <1>2 DEF TokenNext, DeleteFile

\* A token in the file stays until both processes are down.
THEOREM TokenKept == TokenSpec => TokenNeverReplaced
<1> DEFINE Kept == file' # file /\ file \in Token => \A p \in Process : stage'[p] = "down"
<1>1. TokenInv /\ [TokenNext]_tokenVars => [Kept]_tokenVars
  BY TokenStepKeeps DEF tokenVars
<1>2. TokenSpec => [][Kept]_tokenVars
  BY <1>1, TokenInvariance, PTL DEF TokenSpec
<1> QED
  BY <1>2 DEF TokenNeverReplaced

-----------------------------------------------------------------------------
(* The vault: its types, made inductive.                                     *)

\* A database state has a salt, an envelope and the entries saved so far.
DbTyped ==
  /\ recoverable \subseteq [salt : Nat \cup {None}, envelope : Envelope \cup {None},
                            records : SUBSET Session]
  /\ <<salts, deks, ops, losses>> \in Nat \X Nat \X Nat \X Nat

\* The key of a v2 session is a DEK; only such a session rotates, only a
\* creator creates, and nothing else gets as far as checking the envelope.
TabsTyped ==
  /\ session \in [Tabs -> Session \cup {None}]
  /\ \A t \in Tabs :
       /\ session[t] # None /\ session[t].version = 2 => session[t].key \in 1..deks
       /\ op[t] = "rotate" => session[t] # None /\ session[t].version = 2
       /\ op[t] = "create" => t \in Creators
       /\ step[t] \in {"checked", "stored"} => op[t] \in {"create", "rotate"}

VaultTypeInv == TokenInv /\ VaultTypeOK /\ DbTyped /\ TabsTyped

LEMMA VaultInitTyped == VaultInit => VaultTypeInv
<1> SUFFICES ASSUME VaultInit PROVE VaultTypeInv
  OBVIOUS
<1>1. TokenInv
  BY TokenInitInv DEF VaultInit
<1>2. VaultTypeOK
  BY <1>1, NoneAssumption DEF VaultInit, VaultTypeOK, Steps, TokenInv
<1>3. DbTyped /\ TabsTyped
  BY DEF VaultInit, DbTyped, TabsTyped
<1> QED
  BY <1>1, <1>2, <1>3 DEF VaultTypeInv

\* What a power loss leaves of the token is consistent: everyone is down.
LEMMA PowerLossToken == TokenInv /\ PowerLoss => TokenInv'
<1> SUFFICES ASSUME TokenInv, PowerLoss PROVE TokenInv'
  OBVIOUS
<1> QED
  BY DEF PowerLoss, TokenInv, TokenTypeOK, CreatorAlone, HoldsDrawn, AnalyticsAgrees, Process, Stages

LEMMA VaultNextToken == TokenInv /\ [VaultNext]_vars => TokenInv'
<1> SUFFICES ASSUME TokenInv, [VaultNext]_vars PROVE TokenInv'
  OBVIOUS
<1>1. CASE TokenNext
  BY <1>1, TokenNextInv
<1>2. CASE UNCHANGED tokenVars
  BY <1>2, TokenNextInv
<1>3. CASE PowerLoss
  BY <1>3, PowerLossToken
<1>4. ASSUME NEW t \in Tabs, TabStep(t) PROVE UNCHANGED tokenVars
  BY <1>4 DEF TabStep, Begin, ReadSalt, SetSalt, Unlock, CheckEnvelope, StoreEnvelope, Created,
              Fails, SaveEntry, Lock
<1> QED
  BY <1>1, <1>2, <1>3, <1>4 DEF VaultNext, vars, Checkpoint

LEMMA TabStepTyped ==
  ASSUME VaultTypeInv, NEW t \in Tabs, TabStep(t), TokenTypeOK'
  PROVE  (VaultTypeOK /\ DbTyped /\ TabsTyped)'
<1> USE NoneAssumption DEF VaultTypeInv, VaultTypeOK, DbTyped, TabsTyped, Steps
<1>1. ASSUME NEW o \in {"create", "unlock", "rotate"}, NEW p \in Passphrases, Begin(t, o, p)
      PROVE  (VaultTypeOK /\ DbTyped /\ TabsTyped)'
  BY <1>1 DEF Begin
<1>2. CASE ReadSalt(t)
  BY <1>2 DEF ReadSalt
<1>3. CASE SetSalt(t)
  BY <1>3 DEF SetSalt, Commits
<1>4. CASE Unlock(t)
  BY <1>4 DEF Unlock, Ends, Kek, Session, Envelope
<1>5. CASE CheckEnvelope(t)
  <2>1. ASSUME step' = [step EXCEPT ![t] = "checked"], UNCHANGED <<op, pass, salt, session>>,
               newDek' = [newDek EXCEPT ![t] = IF op[t] = "create" THEN deks' ELSE session[t].key]
        PROVE  (VaultTypeOK /\ DbTyped /\ TabsTyped)'
    BY <1>5, <2>1 DEF CheckEnvelope
  <2>2. CASE Ends(t, session[t])
    BY <1>5, <2>2 DEF CheckEnvelope, Ends
  <2> QED
    BY <1>5, <2>1, <2>2 DEF CheckEnvelope
<1>6. CASE StoreEnvelope(t)
  BY <1>6 DEF StoreEnvelope, Commits, Kek, Envelope
<1>7. CASE Created(t)
  BY <1>7 DEF Created, Ends, Session
<1>8. CASE Fails(t)
  BY <1>8 DEF Fails, Ends
<1>9. CASE SaveEntry(t)
  BY <1>9 DEF SaveEntry, Commits, Session, tabVars
<1>10. CASE Lock(t)
  BY <1>10 DEF Lock
<1> QED
  BY <1>1, <1>2, <1>3, <1>4, <1>5, <1>6, <1>7, <1>8, <1>9, <1>10 DEF TabStep

LEMMA VaultNextTyped == VaultTypeInv /\ [VaultNext]_vars => VaultTypeInv'
<1> SUFFICES ASSUME VaultTypeInv, [VaultNext]_vars PROVE VaultTypeInv'
  OBVIOUS
<1>1. TokenInv' /\ TokenTypeOK'
  BY VaultNextToken DEF VaultTypeInv, TokenInv
<1> SUFFICES (VaultTypeOK /\ DbTyped /\ TabsTyped)'
  BY <1>1 DEF VaultTypeInv
<1>2. CASE \E t \in Tabs : TabStep(t)
  BY <1>1, <1>2, TabStepTyped
<1> USE NoneAssumption DEF VaultTypeInv, VaultTypeOK, DbTyped, TabsTyped
<1>3. CASE UNCHANGED vaultVars
  BY <1>1, <1>3 DEF vaultVars, tabVars
<1>4. CASE TokenNext /\ TabsLoseEngine /\ UNCHANGED <<db, recoverable, salts, deks, ops, losses>>
  BY <1>1, <1>4 DEF TabsLoseEngine, tabVars, Steps
<1>5. CASE Checkpoint
  BY <1>1, <1>5 DEF Checkpoint, tabVars
<1>6. CASE PowerLoss
  BY <1>1, <1>6 DEF PowerLoss, Steps
<1> QED
  BY <1>2, <1>3, <1>4, <1>5, <1>6 DEF VaultNext, vars

-----------------------------------------------------------------------------
(* The salt, when no two requests that found none overlap.                   *)

SaltsApart == \A t, u \in Tabs : step[t] = "nosalt" /\ step[u] = "nosalt" => t = u

\* Every state the disk may fall back to has the salt its envelope was made
\* with; the tabs were told that salt; and who generates it still finds none.
SaltInv ==
  /\ \A d \in recoverable :
       d.envelope # None => d.salt # None /\ KekSalt(d.envelope.kek) = d.salt
  /\ \A t \in Tabs : salt[t] # None => salt[t] = db.salt
  /\ \A t \in Tabs : step[t] = "nosalt" => db.salt = None

LEMMA TabStepSalt ==
  ASSUME SaltsApart, VaultTypeInv, SaltInv, NEW t \in Tabs, TabStep(t)
  PROVE  SaltInv'
<1> USE NoneAssumption DEF VaultTypeInv, VaultTypeOK, DbTyped, SaltInv, Steps, KekSalt
<1>1. ASSUME NEW o \in {"create", "unlock", "rotate"}, NEW p \in Passphrases, Begin(t, o, p)
      PROVE  SaltInv'
  BY <1>1 DEF Begin
<1>2. CASE ReadSalt(t)
  BY <1>2 DEF ReadSalt
<1>3. CASE SetSalt(t)
  BY <1>3 DEF SetSalt, Commits, SaltsApart
<1>4. CASE Unlock(t)
  BY <1>4 DEF Unlock, Ends
<1>5. CASE CheckEnvelope(t)
  BY <1>5 DEF CheckEnvelope, Ends
<1>6. CASE StoreEnvelope(t)
  BY <1>6 DEF StoreEnvelope, Commits, Kek
<1>7. CASE Created(t)
  BY <1>7 DEF Created, Ends
<1>8. CASE Fails(t)
  BY <1>8 DEF Fails, Ends
<1>9. CASE SaveEntry(t)
  BY <1>9 DEF SaveEntry, Commits, tabVars
<1>10. CASE Lock(t)
  BY <1>10 DEF Lock
<1> QED
  BY <1>1, <1>2, <1>3, <1>4, <1>5, <1>6, <1>7, <1>8, <1>9, <1>10 DEF TabStep

LEMMA VaultNextSalt ==
  ASSUME SaltsApart, VaultTypeInv, SaltInv, [VaultNext]_vars
  PROVE  SaltInv'
<1>1. CASE \E t \in Tabs : TabStep(t)
  BY <1>1, TabStepSalt
<1> USE NoneAssumption DEF VaultTypeInv, VaultTypeOK, SaltInv
<1>2. CASE UNCHANGED vaultVars
  BY <1>2 DEF vaultVars, tabVars
<1>3. CASE TokenNext /\ TabsLoseEngine /\ UNCHANGED <<db, recoverable, salts, deks, ops, losses>>
  BY <1>3 DEF TabsLoseEngine, tabVars
<1>4. CASE Checkpoint
  BY <1>4 DEF Checkpoint, tabVars
<1>5. CASE PowerLoss
  BY <1>5 DEF PowerLoss
<1> QED
  BY <1>1, <1>2, <1>3, <1>4, <1>5 DEF VaultNext, vars

\* While there is no salt, one tab at most is at work, so that one at most
\* generates it.
AloneInv ==
  /\ \A t \in Tabs : step[t] = "nosalt" => db.salt = None
  /\ db.salt = None => \A t, u \in Tabs : step[t] # "idle" /\ step[u] # "idle" => t = u

LEMMA VaultNextAlone ==
  ASSUME FirstVisitAlone, VaultTypeInv, AloneInv, [VaultNext]_vars
  PROVE  AloneInv'
<1> USE NoneAssumption DEF VaultTypeInv, VaultTypeOK, AloneInv, Steps
<1>1. ASSUME NEW t \in Tabs, TabStep(t)
      PROVE  AloneInv'
  <2>1. ASSUME NEW o \in {"create", "unlock", "rotate"}, NEW p \in Passphrases, Begin(t, o, p)
        PROVE  AloneInv'
    BY <2>1 DEF Begin
  <2>2. CASE ReadSalt(t)
    BY <2>2 DEF ReadSalt
  <2>3. CASE SetSalt(t)
    BY <2>3 DEF SetSalt, Commits, DbTyped
  <2>4. CASE Unlock(t) \/ Created(t) \/ Fails(t)
    BY <2>4 DEF Unlock, Created, Fails, Ends
  <2>5. CASE CheckEnvelope(t)
    BY <2>5 DEF CheckEnvelope, Ends
  <2>6. CASE StoreEnvelope(t)
    BY <2>6 DEF StoreEnvelope, Commits, DbTyped
  <2>7. CASE SaveEntry(t)
    BY <2>7 DEF SaveEntry, Commits, DbTyped, tabVars
  <2>8. CASE Lock(t)
    BY <2>8 DEF Lock
  <2> QED
    BY <1>1, <2>1, <2>2, <2>3, <2>4, <2>5, <2>6, <2>7, <2>8 DEF TabStep
<1>2. CASE UNCHANGED vaultVars
  BY <1>2 DEF vaultVars, tabVars
<1>3. CASE TokenNext /\ TabsLoseEngine /\ UNCHANGED <<db, recoverable, salts, deks, ops, losses>>
  BY <1>3 DEF TabsLoseEngine, tabVars
<1>4. CASE Checkpoint
  BY <1>4 DEF Checkpoint, tabVars
<1>5. CASE PowerLoss
  BY <1>5 DEF PowerLoss
<1> QED
  BY <1>1, <1>2, <1>3, <1>4, <1>5 DEF VaultNext, vars

-----------------------------------------------------------------------------
(* The key, when no two creations of the vault overlap.                      *)

CreationsApart == \A t, u \in Tabs : op[t] = "create" /\ op[u] = "create" => t = u

\* A session, a rotation and an envelope just stored agree on the DEK; whoever
\* is about to create the envelope still finds none.
KeyInv ==
  /\ SessionIsEnvelope
  /\ EntriesOpen
  /\ \A t \in Tabs :
       /\ op[t] = "create" /\ step[t] = "checked" => db.envelope = None
       /\ op[t] = "rotate" /\ newDek[t] # None => newDek[t] = session[t].key
       /\ step[t] = "stored" => db.envelope # None /\ newDek[t] = db.envelope.dek

LEMMA TabStepKey ==
  ASSUME CreationsApart, VaultTypeInv, KeyInv, NEW t \in Tabs, TabStep(t)
  PROVE  KeyInv'
<1> USE NoneAssumption DEF VaultTypeInv, VaultTypeOK, DbTyped, TabsTyped, KeyInv, SessionIsEnvelope,
                          EntriesOpen, Steps
<1>1. ASSUME NEW o \in {"create", "unlock", "rotate"}, NEW p \in Passphrases, Begin(t, o, p)
      PROVE  KeyInv'
  BY <1>1 DEF Begin
<1>2. CASE ReadSalt(t)
  BY <1>2 DEF ReadSalt
<1>3. CASE SetSalt(t)
  BY <1>3 DEF SetSalt, Commits
<1>4. CASE Unlock(t)
  BY <1>4 DEF Unlock, Ends
<1>5. CASE CheckEnvelope(t)
  BY <1>5 DEF CheckEnvelope, Ends
<1>6. CASE StoreEnvelope(t)
  BY <1>6 DEF StoreEnvelope, Commits, Kek, CreationsApart, Envelope
<1>7. CASE Created(t)
  BY <1>7 DEF Created, Ends
<1>8. CASE Fails(t)
  BY <1>8 DEF Fails, Ends
<1>9. CASE SaveEntry(t)
  BY <1>9 DEF SaveEntry, Commits, tabVars
<1>10. CASE Lock(t)
  BY <1>10 DEF Lock
<1> QED
  BY <1>1, <1>2, <1>3, <1>4, <1>5, <1>6, <1>7, <1>8, <1>9, <1>10 DEF TabStep

LEMMA VaultNextKey ==
  ASSUME CreationsApart, VaultTypeInv, KeyInv, [VaultNext]_vars
  PROVE  KeyInv'
<1>1. CASE \E t \in Tabs : TabStep(t)
  BY <1>1, TabStepKey
<1> USE NoneAssumption DEF VaultTypeInv, VaultTypeOK, KeyInv, SessionIsEnvelope, EntriesOpen
<1>2. CASE UNCHANGED vaultVars
  BY <1>2 DEF vaultVars, tabVars
<1>3. CASE TokenNext /\ TabsLoseEngine /\ UNCHANGED <<db, recoverable, salts, deks, ops, losses>>
  BY <1>3 DEF TabsLoseEngine, tabVars
<1>4. CASE Checkpoint
  BY <1>4 DEF Checkpoint, tabVars
<1>5. CASE PowerLoss
  BY <1>5 DEF PowerLoss
<1> QED
  BY <1>1, <1>2, <1>3, <1>4, <1>5 DEF VaultNext, vars

-----------------------------------------------------------------------------
(* Theorems of VaultSpec.                                                    *)

\* Three statements write the database.
LEMMA Writers ==
  ASSUME VaultTypeInv, [VaultNext]_vars, losses' = losses, db' # db
  PROVE  \E t \in Tabs : SetSalt(t) \/ StoreEnvelope(t) \/ SaveEntry(t)
<1>1. ~PowerLoss
  BY DEF VaultTypeInv, DbTyped, PowerLoss
<1>2. PICK t \in Tabs : TabStep(t)
  BY <1>1 DEF VaultNext, vars, vaultVars, Checkpoint
<1> QED
  BY <1>2 DEF TabStep, Begin, ReadSalt, Unlock, CheckEnvelope, Created, Fails, Lock

\* The types, the token's part included, hold in every reachable state.
THEOREM VaultInvariance == VaultSpec => []VaultTypeInv
  BY VaultInitTyped, VaultNextTyped, PTL DEF VaultSpec

\* Every variable keeps its type, and a tab carries nothing from one operation
\* to the next.
THEOREM VaultTypeCorrect == VaultSpec => []VaultTypeOK
<1>1. VaultTypeInv => VaultTypeOK
  BY DEF VaultTypeInv
<1> QED
  BY <1>1, VaultInvariance, PTL

\* Analytics never accepts a token that is not the install's, also when the
\* machine loses power and the token file is cut short.
THEOREM AnalyticsFollowsFileStill == VaultSpec => []AnalyticsAgrees
<1>1. VaultTypeInv => AnalyticsAgrees
  BY DEF VaultTypeInv, TokenInv
<1> QED
  BY <1>1, VaultInvariance, PTL

\* While no two requests generate a salt at once, every state of the disk has
\* the salt its envelope was made with.
THEOREM SaltInvariance == VaultSpec /\ []SaltsApart => []SaltInv
<1>1. VaultInit => SaltInv
  BY DEF VaultInit, SaltInv
<1>2. SaltsApart /\ VaultTypeInv /\ SaltInv /\ [VaultNext]_vars => SaltInv'
  BY VaultNextSalt
<1> QED
  BY <1>1, <1>2, VaultInvariance, PTL DEF VaultSpec

\* The passphrase of a stored envelope always opens it, the salt it was made
\* with being the one kdf-params answers, unless two requests that found no
\* salt overlap: get_kdf_salt has no other way to replace it, through crashes,
\* lost answers, rotations and power losses.
THEOREM EnvelopesOpen == VaultSpec /\ []SaltsApart => []EnvelopeOpens
<1>1. VaultTypeInv /\ SaltInv => EnvelopeOpens
  BY DEF VaultTypeInv, VaultTypeOK, SaltInv, EnvelopeOpens
<1> QED
  BY <1>1, VaultInvariance, SaltInvariance, PTL

\* Requests that find no salt do not overlap where nobody begins beside the
\* first visitor.
THEOREM FirstVisitApart == FirstVisitAlone => (VaultSpec => []SaltsApart)
<1> SUFFICES ASSUME FirstVisitAlone PROVE VaultSpec => []SaltsApart
  OBVIOUS
<1>1. VaultInit => AloneInv
  BY DEF VaultInit, AloneInv
<1>2. VaultTypeInv /\ AloneInv /\ [VaultNext]_vars => AloneInv'
  BY VaultNextAlone
<1>3. AloneInv => SaltsApart
  BY DEF AloneInv, SaltsApart
<1> QED
  BY <1>1, <1>2, <1>3, VaultInvariance, PTL DEF VaultSpec

\* While creations of the vault do not overlap, sessions, entries and envelope
\* belong together.
THEOREM KeyInvariance == VaultSpec /\ []CreationsApart => []KeyInv
<1>1. VaultInit => KeyInv
  BY DEF VaultInit, KeyInv, SessionIsEnvelope, EntriesOpen
<1>2. CreationsApart /\ VaultTypeInv /\ KeyInv /\ [VaultNext]_vars => KeyInv'
  BY VaultNextKey
<1> QED
  BY <1>1, <1>2, VaultInvariance, PTL DEF VaultSpec

\* What a v2 session encrypts with is the DEK a later unlock gets.
THEOREM SessionsAgree == VaultSpec /\ []CreationsApart => []SessionIsEnvelope
<1>1. KeyInv => SessionIsEnvelope
  BY DEF KeyInv
<1> QED
  BY <1>1, KeyInvariance, PTL

\* Every entry of a v2 session is readable with the DEK of the envelope stored
\* with it, in every state the disk may fall back to.
THEOREM EntriesReadable == VaultSpec /\ []CreationsApart => []EntriesOpen
<1>1. KeyInv => EntriesOpen
  BY DEF KeyInv
<1> QED
  BY <1>1, KeyInvariance, PTL

\* An envelope is only ever replaced by a rotation that presented the token:
\* of the writers of the envelope, a creation still finds none.
THEOREM EnvelopesGuarded == VaultSpec /\ []CreationsApart => EnvelopeGuarded
<1> DEFINE Guarded == losses' = losses /\ db.envelope # None /\ db'.envelope # db.envelope =>
                        \E t \in Tabs : step[t] = "checked" /\ op[t] = "rotate"
<1>1. ASSUME VaultTypeInv, KeyInv, [VaultNext]_vars,
             losses' = losses, db.envelope # None, db'.envelope # db.envelope
      PROVE  \E t \in Tabs : step[t] = "checked" /\ op[t] = "rotate"
  <2>1. PICK t \in Tabs : SetSalt(t) \/ StoreEnvelope(t) \/ SaveEntry(t)
    BY <1>1, Writers
  <2>2. StoreEnvelope(t)
    BY <1>1, <2>1 DEF SetSalt, SaveEntry, Commits, VaultTypeInv, VaultTypeOK, DbTyped
  <2> QED
    BY <1>1, <2>2 DEF StoreEnvelope, KeyInv, VaultTypeInv, TabsTyped
<1>2. VaultTypeInv /\ KeyInv /\ [VaultNext]_vars => [Guarded]_vars
  BY <1>1
<1>3. VaultSpec /\ []CreationsApart => [][Guarded]_vars
  BY <1>2, VaultInvariance, KeyInvariance, PTL DEF VaultSpec
<1> QED
  BY <1>3 DEF EnvelopeGuarded

\* Creations do not overlap where one tab alone may create the vault.
THEOREM SoleCreatorApart ==
  (\A t, u \in Creators : t = u) => (VaultSpec => []CreationsApart)
<1> SUFFICES ASSUME \A t, u \in Creators : t = u PROVE VaultSpec => []CreationsApart
  OBVIOUS
<1>1. VaultTypeInv => CreationsApart
  BY DEF VaultTypeInv, TabsTyped, CreationsApart
<1> QED
  BY <1>1, VaultInvariance, PTL

\* The install's token is not replaced under a process that is up, whatever
\* the vault does meanwhile: a power loss takes both processes down.
THEOREM TokenStillKept == VaultSpec => TokenNeverReplaced
<1> DEFINE Kept == file' # file /\ file \in Token => \A p \in Process : stage'[p] = "down"
<1>1. ASSUME VaultTypeInv, [VaultNext]_vars, file' # file, file \in Token
      PROVE  \A p \in Process : stage'[p] = "down"
  <2>1. CASE PowerLoss
    BY <2>1 DEF PowerLoss
  <2>2. CASE ~PowerLoss
    <3>1. TokenNext
      BY <1>1, <2>2 DEF VaultNext, vars, tokenVars, Checkpoint, TabStep, Begin, ReadSalt, SetSalt,
                        Unlock, CheckEnvelope, StoreEnvelope, Created, Fails, SaveEntry, Lock
    <3> QED
      BY <1>1, <3>1, TokenStepKeeps DEF VaultTypeInv
  <2> QED
    BY <2>1, <2>2
<1>2. VaultTypeInv /\ [VaultNext]_vars => [Kept]_tokenVars
  BY <1>1
<1>3. VaultSpec => [][Kept]_tokenVars
  BY <1>2, VaultInvariance, PTL DEF VaultSpec
<1> QED
  BY <1>3 DEF TokenNeverReplaced
==============================================================================
