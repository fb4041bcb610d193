----------------------------- MODULE VersionStore -----------------------------
(***************************************************************************)
(* The engine's append-only version store and the processes around it:     *)
(*                                                                         *)
(*   - table    the version_records table of pae.db (one file, shared by   *)
(*              every engine process pointed at it);                       *)
(*   - records  each engine's in-memory index, the map behind the RwLock;  *)
(*   - handlers POST /api/v1/version requests, each in the middle of       *)
(*              append_version: build under the write lock, persist,       *)
(*              index, unlock, then read the latest version again to       *)
(*              answer;                                                    *)
(*   - phases   an engine loads the history BEFORE it binds its port, and  *)
(*              a stopped engine gives its port up while its last          *)
(*              requests are still running, so two engines overlap over    *)
(*              one database for a while.                                  *)
(*                                                                         *)
(* Rows of one entity are kept in version order, which is the order the    *)
(* load query asks for (ORDER BY entity_id, version).  SHA-256 is taken    *)
(* to be injective on (entity, version, content).  Requests that fail      *)
(* validation (400) change nothing and do not appear.                      *)
(***************************************************************************)
EXTENDS Integers, Sequences, FiniteSets, SequencesExt

CONSTANTS
  Entities,          \* entity ids
  Contents,          \* ciphertexts
  Types,             \* entity types
  Clients,           \* concurrent HTTP requests
  Engines,           \* engine processes that may run over one pae.db
  MaxRequests,       \* bound: appends asked for
  MaxLaunches,       \* bound: engine starts
  MaxPowerLosses,    \* bound: power losses; 0 = only processes crash
  MaxClock,          \* bound: wall-clock readings
  ClockMayStepBack,  \* may Utc::now() go backwards?
  LoadMayFail,       \* may open_persistent fail at start?
  None               \* no parent, no holder, no answer

ASSUME BoundsAssumption ==
  /\ MaxRequests \in Nat
  /\ MaxLaunches \in Nat
  /\ MaxPowerLosses \in Nat
  /\ MaxClock \in Nat
  /\ ClockMayStepBack \in BOOLEAN
  /\ LoadMayFail \in BOOLEAN

VARIABLES
  table,      \* [Entities -> Seq(Record)], committed rows in version order
  wal,        \* entities of the rows committed since the last checkpoint
  records,    \* [Engines -> [Entities -> Seq(Record)]], the index
  backend,    \* [Engines -> BOOLEAN], is the index backed by the database?
  phase,      \* [Engines -> Phases]
  writer,     \* [Engines -> Clients \cup {None}], holder of the write lock
  pc,         \* [Clients -> Steps], where each request is
  job,        \* [Clients -> Job], what it was asked to append, and where
  pending,    \* [Clients -> Record], the record it has built
  reply,      \* [Clients -> Answer \cup {None}], its last successful append
  acked,      \* history: records whose append a backed engine answered
  now,        \* the wall clock
  requests,   \* bound: appends begun
  launches,   \* bound: engine starts
  losses      \* bound: power losses

requestVars == <<writer, pc, job, pending, reply, acked, requests>>
boundVars   == <<now, launches, losses>>
vars == <<table, wal, records, backend, phase, requestVars, boundVars>>

Phases == {"down", "opened", "serving", "draining"}
Steps  == {"idle", "arrived", "built", "persisted", "indexed"}

ComputeHash(e, v, x) == <<e, v, x>>
Hash == Entities \X Nat \X Contents

Record ==
  [entity : Entities, type : Types, version : Nat, content : Contents,
   created_at : Nat, hash : Hash, parent : Hash \cup {None}]
Job == [engine : Engines, entity : Entities, type : Types, content : Contents]
Answer == [record : Record, version : Nat]

ASSUME NoneAssumption == None \notin Clients \cup Hash \cup Job \cup Record \cup Answer

EmptyIndex == [e \in Entities |-> <<>>]

------------------------------------------------------------------------------
(* The record append() builds from the index, and the checks on chains.      *)

ParentHash(chain) ==
  IF chain = <<>> THEN None ELSE chain[Len(chain)].hash

\* Mutant: the next version number comes from the wrong end of the chain.
NewRecordUnderflow(chain, j, at) ==
  LET v == Len(chain) - 1
  IN  [entity |-> j.entity, type |-> j.type, version |-> v,
       content |-> j.content, created_at |-> at,
       hash |-> ComputeHash(j.entity, v, j.content),
       parent |-> ParentHash(chain)]

NewRecord(chain, j, at) ==
  LET v == Len(chain) + 1
  IN  [entity |-> j.entity, type |-> j.type, version |-> v,
       content |-> j.content, created_at |-> at,
       hash |-> ComputeHash(j.entity, v, j.content),
       parent |-> ParentHash(chain)]

VerifyIntegrity(r) == r.hash = ComputeHash(r.entity, r.version, r.content)

\* verify_chain: every hash recomputes, every parent is the predecessor's.
VerifyChain(chain) ==
  \A i \in 1..Len(chain) :
    /\ VerifyIntegrity(chain[i])
    /\ chain[i].parent = IF i = 1 THEN None ELSE chain[i-1].hash

\* Mutant: the table has no uniqueness constraint.
InsertableAlways(r) == TRUE

\* PRIMARY KEY (version_hash) and UNIQUE (entity_id, version).
Insertable(r) ==
  \A e \in Entities : \A i \in 1..Len(table[e]) :
    /\ table[e][i].hash # r.hash
    /\ ~(table[e][i].entity = r.entity /\ table[e][i].version = r.version)

------------------------------------------------------------------------------
Init ==
  /\ table = EmptyIndex
  /\ wal = <<>>
  /\ records = [g \in Engines |-> EmptyIndex]
  /\ backend = [g \in Engines |-> FALSE]
  /\ phase = [g \in Engines |-> "down"]
  /\ writer = [g \in Engines |-> None]
  /\ pc = [c \in Clients |-> "idle"]
  /\ job = [c \in Clients |-> None]
  /\ pending = [c \in Clients |-> None]
  /\ reply = [c \in Clients |-> None]
  /\ acked = {}
  /\ now = 0
  /\ requests = 0
  /\ launches = 0
  /\ losses = 0

------------------------------------------------------------------------------
(* POST /api/v1/version, one action per access to shared state.              *)

\* A valid request reaches a serving engine.
BeginAppend(c, j) ==
  /\ pc[c] = "idle"
  /\ phase[j.engine] = "serving"
  /\ requests < MaxRequests
  /\ requests' = requests + 1
  /\ pc' = [pc EXCEPT ![c] = "arrived"]
  /\ job' = [job EXCEPT ![c] = j]
  /\ reply' = [reply EXCEPT ![c] = None]
  /\ UNCHANGED <<table, wal, records, backend, phase, writer, pending, acked, boundVars>>

\* append() takes the write lock and builds the next record of the chain it
\* sees in the index, stamped with the clock it reads under the lock.
BuildRecord(c) ==
  /\ pc[c] = "arrived"
  /\ writer[job[c].engine] = None
  /\ writer' = [writer EXCEPT ![job[c].engine] = c]
  /\ pc' = [pc EXCEPT ![c] = "built"]
  /\ pending' = [pending EXCEPT ![c] =
                   NewRecord(records[job[c].engine][job[c].entity], job[c], now)]
  /\ UNCHANGED <<table, wal, records, backend, phase, job, reply, acked, requests, boundVars>>

\* Mutant: INSERT OR IGNORE, a conflicting row counts as written.
PersistOrIgnore(c) ==
  /\ pc[c] = "built"
  /\ backend[job[c].engine]
  /\ IF Insertable(pending[c])
       THEN /\ table' = [table EXCEPT ![pending[c].entity] = Append(@, pending[c])]
            /\ wal' = Append(wal, pending[c].entity)
       ELSE UNCHANGED <<table, wal>>
  /\ pc' = [pc EXCEPT ![c] = "persisted"]
  /\ UNCHANGED <<records, backend, phase, writer, job, pending, reply, acked, requests, boundVars>>

\* The INSERT commits, while the write lock is held.
PersistRecord(c) ==
  /\ pc[c] = "built"
  /\ backend[job[c].engine]
  /\ Insertable(pending[c])
  /\ table' = [table EXCEPT ![pending[c].entity] = Append(@, pending[c])]
  /\ wal' = Append(wal, pending[c].entity)
  /\ pc' = [pc EXCEPT ![c] = "persisted"]
  /\ UNCHANGED <<records, backend, phase, writer, job, pending, reply, acked, requests, boundVars>>

\* The request is over and leaves nothing behind.
Forget(c) ==
  /\ pc' = [pc EXCEPT ![c] = "idle"]
  /\ job' = [job EXCEPT ![c] = None]
  /\ pending' = [pending EXCEPT ![c] = None]

\* Mutant: the early return leaves the write lock taken.
PersistFailsLocked(c) ==
  /\ pc[c] = "built"
  /\ backend[job[c].engine]
  /\ Forget(c)
  /\ UNCHANGED <<table, wal, records, backend, phase, writer, reply, acked, requests, boundVars>>

\* Mutant: the version is indexed although its INSERT failed.
PersistFailsIndexed(c) ==
  /\ pc[c] = "built"
  /\ backend[job[c].engine]
  /\ records' = [records EXCEPT ![job[c].engine][job[c].entity] = Append(@, pending[c])]
  /\ writer' = [writer EXCEPT ![job[c].engine] = None]
  /\ Forget(c)
  /\ UNCHANGED <<table, wal, backend, phase, reply, acked, requests, boundVars>>

\* The INSERT fails: a constraint conflict, an exhausted pool, any SQLite
\* error.  append() returns early, the lock is dropped, the answer is a 500.
PersistFails(c) ==
  /\ pc[c] = "built"
  /\ backend[job[c].engine]
  /\ writer' = [writer EXCEPT ![job[c].engine] = None]
  /\ Forget(c)
  /\ UNCHANGED <<table, wal, records, backend, phase, reply, acked, requests, boundVars>>

\* Mutant: the record is indexed before, and whether or not, it is persisted.
IndexUnpersisted(c) ==
  /\ pc[c] \in {"built", "persisted"}
  /\ records' = [records EXCEPT ![job[c].engine][job[c].entity] = Append(@, pending[c])]
  /\ writer' = [writer EXCEPT ![job[c].engine] = None]
  /\ pc' = [pc EXCEPT ![c] = "indexed"]
  /\ UNCHANGED <<table, wal, backend, phase, job, pending, reply, acked, requests, boundVars>>

\* The record is pushed on the index and the write lock is dropped.  Without
\* a database behind the index this follows the build directly.
IndexRecord(c) ==
  /\ \/ pc[c] = "persisted"
     \/ pc[c] = "built" /\ ~backend[job[c].engine]
  /\ records' = [records EXCEPT ![job[c].engine][job[c].entity] = Append(@, pending[c])]
  /\ writer' = [writer EXCEPT ![job[c].engine] = None]
  /\ pc' = [pc EXCEPT ![c] = "indexed"]
  /\ UNCHANGED <<table, wal, backend, phase, job, pending, reply, acked, requests, boundVars>>

\* Mutant: the first version where the latest is meant.
FirstVersion(g, e) == records[g][e][1].version

\* The latest version of an entity, as get_latest answers it.
LatestVersion(g, e) == records[g][e][Len(records[g][e])].version

\* The handler reads the latest record again, under a read lock it had to
\* wait for, and answers the hash of its append with THAT record's version.
Respond(c) ==
  /\ pc[c] = "indexed"
  /\ writer[job[c].engine] = None
  /\ reply' = [reply EXCEPT ![c] =
       [record |-> pending[c], version |-> LatestVersion(job[c].engine, job[c].entity)]]
  /\ acked' = IF backend[job[c].engine] THEN acked \cup {pending[c]} ELSE acked
  /\ Forget(c)
  /\ UNCHANGED <<table, wal, records, backend, phase, writer, requests, boundVars>>

HandlerStep(c) ==
  BuildRecord(c) \/ PersistRecord(c) \/ PersistFails(c) \/ IndexRecord(c) \/ Respond(c)

------------------------------------------------------------------------------
(* Engine processes.                                                         *)

\* Mutant: an engine whose load failed is taken to have its database.
LaunchUnloaded(g) ==
  /\ phase[g] = "down"
  /\ launches < MaxLaunches
  /\ launches' = launches + 1
  /\ phase' = [phase EXCEPT ![g] = "opened"]
  /\ backend' = [backend EXCEPT ![g] = TRUE]
  /\ \/ records' = [records EXCEPT ![g] = table]
     \/ LoadMayFail /\ records' = [records EXCEPT ![g] = EmptyIndex]
  /\ UNCHANGED <<table, wal, requestVars, now, losses>>

\* Start: open the database, load the history.  If the load fails the
\* engine goes on with an empty index and no database behind it.
Launch(g) ==
  /\ phase[g] = "down"
  /\ launches < MaxLaunches
  /\ launches' = launches + 1
  /\ phase' = [phase EXCEPT ![g] = "opened"]
  /\ \/ /\ records' = [records EXCEPT ![g] = table]
        /\ backend' = [backend EXCEPT ![g] = TRUE]
     \/ /\ LoadMayFail
        /\ records' = [records EXCEPT ![g] = EmptyIndex]
        /\ backend' = [backend EXCEPT ![g] = FALSE]
  /\ UNCHANGED <<table, wal, requestVars, now, losses>>

\* Only now does it bind the port: one engine listens at a time.
BindPort(g) ==
  /\ phase[g] = "opened"
  /\ \A h \in Engines : phase[h] # "serving"
  /\ phase' = [phase EXCEPT ![g] = "serving"]
  /\ UNCHANGED <<table, wal, records, backend, requestVars, boundVars>>

\* SIGTERM: the listener is dropped, requests already accepted run on.
RequestStop(g) ==
  /\ phase[g] = "serving"
  /\ phase' = [phase EXCEPT ![g] = "draining"]
  /\ UNCHANGED <<table, wal, records, backend, requestVars, boundVars>>

RunsOn(c, g) == pc[c] # "idle" /\ job[c].engine = g

\* What a process takes with it: its index, its lock, its requests.
Vanish(G) ==
  /\ phase' = [g \in Engines |-> IF g \in G THEN "down" ELSE phase[g]]
  /\ records' = [g \in Engines |-> IF g \in G THEN EmptyIndex ELSE records[g]]
  /\ backend' = [g \in Engines |-> IF g \in G THEN FALSE ELSE backend[g]]
  /\ writer' = [g \in Engines |-> IF g \in G THEN None ELSE writer[g]]
  /\ pc' = [c \in Clients |-> IF \E g \in G : RunsOn(c, g) THEN "idle" ELSE pc[c]]
  /\ job' = [c \in Clients |-> IF \E g \in G : RunsOn(c, g) THEN None ELSE job[c]]
  /\ pending' = [c \in Clients |-> IF \E g \in G : RunsOn(c, g) THEN None ELSE pending[c]]
  /\ UNCHANGED <<reply, acked, requests>>

\* A drained engine exits; so does one that finds its port taken.  The last
\* process to close the database checkpoints it.
Exit(g) ==
  /\ \/ phase[g] = "draining" /\ \A c \in Clients : ~RunsOn(c, g)
     \/ phase[g] = "opened" /\ \E h \in Engines : phase[h] = "serving"
  /\ Vanish({g})
  /\ wal' = IF \A h \in Engines \ {g} : phase[h] = "down" THEN <<>> ELSE wal
  /\ UNCHANGED <<table, boundVars>>

\* kill -9, a panic that aborts, the launcher's 15 s limit.
Crash(g) ==
  /\ phase[g] # "down"
  /\ Vanish({g})
  /\ UNCHANGED <<table, wal, boundVars>>

------------------------------------------------------------------------------
(* SQLite in WAL mode with synchronous = NORMAL, and the machine.            *)

\* A checkpoint syncs the database file: what it holds is safe for good.
Checkpoint ==
  /\ wal # <<>>
  /\ \E g \in Engines : phase[g] # "down"
  /\ wal' = <<>>
  /\ UNCHANGED <<table, records, backend, phase, requestVars, boundVars>>

\* How many rows of e lie beyond the first k commits of the WAL.
CommitsBeyond(e, k) == Cardinality({i \in (k+1)..Len(wal) : wal[i] = e})

\* Power is lost: commits are not synced one by one under NORMAL, so a
\* suffix of the WAL may be gone; the frames before it are intact.
PowerLoss ==
  /\ losses < MaxPowerLosses
  /\ losses' = losses + 1
  /\ \E k \in 0..Len(wal) :
       table' = [e \in Entities |->
                   SubSeq(table[e], 1, Len(table[e]) - CommitsBeyond(e, k))]
  /\ wal' = <<>>
  /\ Vanish(Engines)
  /\ UNCHANGED <<now, launches>>

Tick ==
  /\ now < MaxClock
  /\ now' = now + 1
  /\ UNCHANGED <<table, wal, records, backend, phase, requestVars, launches, losses>>

\* The wall clock is set back (NTP, the user).
StepBack ==
  /\ ClockMayStepBack
  /\ now > 0
  /\ now' = now - 1
  /\ UNCHANGED <<table, wal, records, backend, phase, requestVars, launches, losses>>

------------------------------------------------------------------------------
Next ==
  \/ \E c \in Clients, j \in Job : BeginAppend(c, j)
  \/ \E c \in Clients : HandlerStep(c)
  \/ \E g \in Engines : Launch(g) \/ BindPort(g) \/ RequestStop(g) \/ Exit(g) \/ Crash(g)
  \/ Checkpoint
  \/ PowerLoss
  \/ Tick
  \/ StepBack

Spec == Init /\ [][Next]_vars

\* Handlers run on a multi-threaded runtime, every step of one ends, and a
\* released lock goes to a waiter.  Requests are finitely many (MaxRequests),
\* so weak fairness is enough and no claim is made about a writer that
\* competes with endlessly many others.  Engines and the clock owe nothing.
FairSpec == Spec /\ \A c \in Clients : WF_vars(HandlerStep(c))

------------------------------------------------------------------------------
(* Properties.                                                               *)

InTable(r) ==
  /\ r.version \in 1..Len(table[r.entity])
  /\ table[r.entity][r.version] = r

\* A chain that is what verify_chain accepts, numbered 1, 2, 3, ... and
\* holding records of one entity.
Chained(e, chain) ==
  /\ VerifyChain(chain)
  /\ \A i \in 1..Len(chain) : chain[i].entity = e /\ chain[i].version = i

\* Every variable has its type, and a request that is over holds nothing.
TypeOK ==
  /\ table \in [Entities -> Seq(Record)]
  /\ wal \in Seq(Entities)
  /\ records \in [Engines -> [Entities -> Seq(Record)]]
  /\ backend \in [Engines -> BOOLEAN]
  /\ phase \in [Engines -> Phases]
  /\ writer \in [Engines -> Clients \cup {None}]
  /\ pc \in [Clients -> Steps]
  /\ job \in [Clients -> Job \cup {None}]
  /\ pending \in [Clients -> Record \cup {None}]
  /\ \A c \in Clients :
       /\ pc[c] = "idle" <=> job[c] = None
       /\ pc[c] \in {"idle", "arrived"} <=> pending[c] = None
  /\ reply \in [Clients -> Answer \cup {None}]
  /\ acked \subseteq Record
  /\ now \in Nat
  /\ requests \in Nat
  /\ launches \in Nat
  /\ losses \in Nat

\* Whatever requests, failures, crashes, overlapping engines and power losses
\* came before, the stored history and every engine's view of it pass
\* verify_chain and are numbered without gaps: no fork, no version twice
\* (types.rs: "Monotonically increasing version number per entity").
ChainIntact ==
  \A e \in Entities :
    /\ Chained(e, table[e])
    /\ \A g \in Engines : Chained(e, records[g][e])

\* An engine backed by the database serves only versions that are stored
\* there (store.rs:110, "a failed write must not create a version that
\* exists only in this process's memory").
ServedIsPersisted ==
  \A g \in Engines : backend[g] => \A e \in Entities : IsPrefix(records[g][e], table[e])

\* When no append is under way, a serving engine that loaded its history has
\* all of it (store.rs:40, "exactly as the previous process left them").
\* True of an engine alone on its database; refuted when two overlap.
HistoryRestored ==
  \A g \in Engines :
    phase[g] = "serving" /\ backend[g] /\ writer[g] = None => records[g] = table

\* What a backed engine acknowledged is stored under the version and hash it
\* was acknowledged with, through every crash and restart of the engines.
AckedPersisted == losses = 0 => \A r \in acked : InTable(r)

\* No two successful appends of backed engines share a record: the second of
\* two racing writers is never told that the first one's version is its own.
AckOnce ==
  [][losses = 0 => \A c \in Clients :
       /\ reply'[c] # reply[c]
       /\ reply'[c] # None
       /\ backend[job[c].engine]
       => reply'[c].record \notin acked]_vars

\* The version number in an answer is never older than the append it answers.
ReplyNotBehind ==
  \A c \in Clients : reply[c] # None => reply[c].version >= reply[c].record.version

\* The answer's hash is the content address of the answer's version
\* (types.rs:14, "Content-addressed ID: SHA-256(entity_id + version +
\* content)").  Refuted: the version is read after the lock was released.
ReplyIsContentAddressed ==
  \A c \in Clients : reply[c] # None =>
    reply[c].record.hash =
      ComputeHash(reply[c].record.entity, reply[c].version, reply[c].record.content)

\* Every append that reached an engine ends: answered, failed, or cut off
\* with its engine.  No lock is kept and nobody waits for ever.
AppendsAnswered == \A c \in Clients : pc[c] # "idle" ~> pc[c] = "idle"

------------------------------------------------------------------------------
(* The inductive invariant.                                                  *)

\* The write lock of an engine is held exactly by the request that has built
\* a record and not yet indexed it, and requests run on live engines.
LockHeld ==
  /\ \A c \in Clients : pc[c] # "idle" => phase[job[c].engine] \in {"serving", "draining"}
  /\ \A c \in Clients : pc[c] \in {"built", "persisted"} => writer[job[c].engine] = c
  /\ \A g \in Engines : writer[g] # None =>
       /\ pc[writer[g]] \in {"built", "persisted"}
       /\ job[writer[g]].engine = g

\* A record that waits to be indexed is the successor of the index it was
\* built from: the lock kept that index from moving.
PendingIsNext ==
  \A c \in Clients : pc[c] \in {"built", "persisted"} =>
    pending[c] = NewRecord(records[job[c].engine][job[c].entity], job[c], pending[c].created_at)

\* A record past its INSERT is stored, and past its push it is indexed.
PersistedStored ==
  \A c \in Clients :
    /\ pc[c] = "persisted" => backend[job[c].engine] /\ InTable(pending[c])
    /\ pc[c] = "indexed" =>
         /\ backend[job[c].engine] => InTable(pending[c])
         /\ pending[c].entity = job[c].entity
         /\ pending[c].version \in 1..Len(records[job[c].engine][job[c].entity])

IInv ==
  /\ TypeOK
  /\ ChainIntact
  /\ ServedIsPersisted
  /\ LockHeld
  /\ PendingIsNext
  /\ PersistedStored
  /\ AckedPersisted
  /\ ReplyNotBehind

\* A stored version that waits for its answer is acknowledged to nobody yet,
\* and no other request waits with the same one.
Unanswered(c) == pc[c] \in {"persisted", "indexed"} /\ backend[job[c].engine]

PendingUnacked ==
  losses = 0 => \A c \in Clients : Unanswered(c) =>
    /\ pending[c] \notin acked
    /\ \A d \in Clients \ {c} : Unanswered(d) => pending[d] # pending[c]

\* There is one engine, however often it is started.
SoleEngine == \A g, h \in Engines : g = h

\* The row that is stored and not yet indexed, if there is one.
Unindexed(g) == writer[g] # None /\ pc[writer[g]] = "persisted"

\* The index of an engine alone on its database is the table, short of that row.
IndexComplete ==
  \A g \in Engines : backend[g] => \A e \in Entities :
    table[e] = IF Unindexed(g) /\ job[writer[g]].entity = e
                 THEN Append(records[g][e], pending[writer[g]])
                 ELSE records[g][e]

------------------------------------------------------------------------------
(* The store implements the append-only log: the log is the table's contents *)
(* and an acknowledgement is the (entity, version, content) of the record.   *)

ContentsOf(chain) == [i \in 1..Len(chain) |-> chain[i].content]

Abs == INSTANCE AppendOnlyLog WITH
  log     <- [e \in Entities |-> ContentsOf(table[e])],
  acked   <- {<<r.entity, r.version, r.content>> : r \in acked}

\* Every step of every process is one append, one acknowledgement of a stored
\* version, a loss of power, or invisible to the clients of the log.
ImplementsLog == Abs!Spec
==============================================================================
