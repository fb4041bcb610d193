# PAE: a TLA+ model of its stores and of the processes that share them

PAE runs on one machine: a Rust **engine** (axum on a multi-threaded tokio
runtime, loopback port 3001, one SQLite file `pae.db`), a Python **analytics**
server (FastAPI, port 3002, its own SQLite files) and a Python **MCP server** on
standard input that opens the same files, a **browser UI** that does all the
cryptography of the user's vault and imports holdings, and a **launcher** that
starts and stops the processes.  The engine stores only ciphertexts, as an
append-only history of versions; analytics keeps portfolios and holdings, a
knowledge base and a cache of market data.  This directory holds TLA+ models of
the parts where the order of steps matters, TLC configurations that check them
on small instances, and TLAPS proofs for every value of the constants.

    cd tla
    tlc -workers 2 -config VersionStoreOverlap.cfg MCVersionStore
    for m in VersionStoreProofs VersionReadersProofs VaultProofs KnowledgeProofs \
             AnalyticsStoreProofs AnalyticsStoreBook MarketDataProofs CsvImportProofs
    do tlapm $m.tla; done

## 1. Inventory

| component | state | operations | what is hard |
|---|---|---|---|
| **version store** `engine/src/versioning/{store,types}.rs`, `storage/db.rs` | `version_records` table; a per-process index `entity -> versions` behind a `RwLock` | `append`, `open_persistent`, `get_latest`, `query`, `snapshot_records`, `verify_chain` | numbering comes from the index, durability from the table; INSERT and push are two steps; two engines may overlap |
| **version API and readers** `api/versioning_api.rs`, `versioning/snapshot.rs` | none of its own | append, history, snapshot, diff, integrity | several requests look at the index more than once, with the lock released in between |
| **engine life cycle** `main.rs`, `scripts/launcher/pae` | phase of each process, port | load, bind, serve, drain, exit, kill | history is loaded before the port is bound; a failed load is not fatal |
| **vault meta and crypto API** `storage/db.rs`, `api/crypto_api.rs` | KDF salt and DEK envelope in `meta` | kdf-params, get/set dek-envelope | read and write are separate statements on pooled connections |
| **vault client** `ui/src/crypto/vault-client.ts` | the session's key | create, unlock, (rotate) | lost answers; a session key that no stored envelope wraps |
| **agent token** `main.rs`, `analytics/pae/auth.py` | one file, and a copy per process | get_or_create, check, rotate by deletion | create and write are two steps, in two processes |
| **analytics database** `analytics/pae/storage/db.py` | portfolios, accounts, holdings; a schema version; SQLite's write lock | create tables, migrate, stamp, insert, update, delete, import | two programs share the file; migration and stamp are two commits; an update reads and then writes |
| **analytics server, MCP server, demo seed** `server.py`, `mcp/{__main__,server,tools}.py`, `scripts/seed_demo.py` | none of their own | CRUD, confirm import, start, seed | both programs migrate and look for a default portfolio; the seed is interrupted and run again |
| **CSV import** `storage/csv_import.py`, `server.py` | none | preview, confirm | a bad row; a file that the preview accepts and the database refuses |
| **import view, shell, selection** `ui/src/components/{pae-import,pae-app}.ts`, `ui/src/portfolio-selection.ts` | view status, file, review, selected portfolio, `localStorage` | pick, confirm, reset, select, navigate | views that are gone with a request on its way; two tabs share the choice; lost answers |
| **data cache, adapters** `analytics/pae/data` | cache file with expiry and checksum; health per source | look up, evict, fetch, put, gate | processes interleave between read, fetch and write; product mode shares the file with development mode |
| **knowledge store** `analytics/pae/pke` | chunks, vectors, meta | ingest, search, list | four transactions for one ingest; rows under different keys |
| **holdings of the engine** `storage/db.rs`, `api/{holdings,import}_api.rs` | tables of `pae.db`, pool of 4 connections | insert, update, delete, aggregate, import | several statements per request; the pool never waits |
| **analytics proxy** `main.rs` | in-flight request | forward with timeout | 502 for a request that was applied |
| **journal view** `ui/src/components/pae-journal.ts` | session, cached plaintexts, open entry | unlock, lock, open, save | answers that arrive after lock or after a later click |
| **Shamir shares** `ui/src/crypto/shamir.ts` | none | split, combine | arithmetic over GF(256) |
| numerical models, packaging, loopback guard | none that matters here | | floating point, file handling, a predicate on headers |

How they interact: a browser request reaches the engine by HTTP and runs as a
task of its own; tasks share the index (one `RwLock`) and the SQLite file (a
pool of four connections).  The engine forwards analytics requests to port 3002.
Both servers share the token file.  An engine being stopped and its successor
share `pae.db`.  The analytics server handles one request at a time on its event
loop; it shares the database, the knowledge base and the cache with the MCP
server and with scripts, each in a process of its own, so that they interleave
between any two commits.

What makes each component correct, in one line each:

- version store: the history of an entity is a hash chain without gaps or forks;
  nothing is served that is not stored; what was acknowledged stays; no version
  is acknowledged to two appends; every append ends.
- readers: an answer about a past instant does not change later; the two looks
  of one request are consistent; what was acknowledged before a history request
  is in its answer.
- vault: whatever order sessions, crashes and power losses come in, the stored
  envelope opens under the stored salt and every saved entry opens under the
  envelope's key; an envelope is replaced only with the token.
- token: no process replaces the install's token under a running one; the
  processes agree on it.
- analytics database: a committed holding has its portfolio and account; an
  import is stored whole or not at all; a stop in the middle of a start is
  repaired by the next one; an update leaves the fields it does not name.
- CSV import and its view: what is stored is what the user had reviewed, in the
  portfolio the selector showed.
- data cache: what is served was delivered for that very key and is not older
  than its time to live; a process in product mode never touches Yahoo's data.
- knowledge store: the index never points nowhere and follows the text; a row is
  read only with its key.

## 2. Modules

| module | models | state and actions |
|---|---|---|
| `AppendOnlyLog` | the promise of the version store | one sequence per entity, a set of acknowledgements, a count of losses; append, acknowledge, lose a tail |
| `VersionStore` | `append_version` end to end, engine processes, SQLite under power loss | see below |
| `VersionStoreProofs` | theorems about `VersionStore`: its invariant, `AckOnce`, the refinement, a sole engine | |
| `VersionReaders` | history, snapshot, diff, integrity; extends `VersionStore` | one action per look at the index; a history may be filtered by type, limited, or of the latest versions only |
| `InstallToken` | `get_or_create_agent_token` in both processes | one action per access to the file |
| `VersionReadersProofs` | theorems about `VersionReaders` | |
| `Vault` | KDF salt, envelope, sessions, saved entries; extends `InstallToken` | one action per statement on `meta`, per answer received |
| `VaultProofs` | theorems about `InstallToken` and `Vault` | |
| `Knowledge` | ingestion, retrieval and the requests of the knowledge base | one action per transaction of `add_chunks`, per search and per passage read |
| `KnowledgeProofs` | theorems about `Knowledge` | |
| `HoldingsBook` | the promise of the analytics database about holdings | add, change, remove, submit a file, import it whole or drop it |
| `AnalyticsStore` | the database of analytics, the two programs on it, the seed | one action per statement that commits; migration and import on a copy |
| `AnalyticsStoreProofs` | theorems about `AnalyticsStore` | |
| `AnalyticsStoreBook` | its theorems about updates and the seed, and that it implements `HoldingsBook` | |
| `MarketData` | `DataAdapter`, the adapters, the cache file | one action per access to the cache or to a source |
| `MarketDataProofs` | theorems about `MarketData` | |
| `CsvParser` | `import_csv_string`, as operators | |
| `CsvImport` | the shell, the import view and the server's import requests | one action per click, request handled and answer received |
| `CsvImportProofs` | theorems about `CsvParser` and `CsvImport` | |
| `MCVersionStore`, `MCVersionReaders`, `MCVault`, `MCKnowledge`, `MCCsvImport` | instances for TLC | symmetry sets, documents, files |

`VersionStore` follows one request through the code:

| action | code |
|---|---|
| `BeginAppend` | the handler has validated its input (`versioning_api.rs:174-194`); 400s change nothing and are left out |
| `BuildRecord` | `append` takes the write lock and builds the next record (`store.rs:82-108`) |
| `PersistRecord`, `PersistFails` | the INSERT, under the lock (`store.rs:110-116`, `db.rs:457-495`); failure returns early and drops the lock |
| `IndexRecord` | the push, then the lock is dropped (`store.rs:118`) |
| `Respond` | the handler reads the latest version under a new lock and answers (`versioning_api.rs:208-220`) |
| `Launch` | `open_persistent`, or, if the load fails, an empty index with no database (`store.rs:46-69`, `main.rs:387-399`) |
| `BindPort`, `RequestStop`, `Exit`, `Crash` | `main.rs:903-948`, the launcher's `stop_one` |
| `Checkpoint`, `PowerLoss` | WAL mode with `synchronous = NORMAL` (`db.rs:245-249`) |
| `Tick`, `StepBack` | the wall clock that `created_at` is read from |

In `VersionReaders` a diff is two actions because `SnapshotEngine::diff` takes
two snapshots under two locks, and an integrity report is two because the
handler verifies the chain and then counts it.  In `InstallToken` creating the
file and writing it are two actions; after a write that fails an engine goes on with
a token of its own, an analytics server does not start, and one that is serving
fails the call in hand and goes on.  In `Vault`, `ReadSalt`/`SetSalt` and
`CheckEnvelope`/`StoreEnvelope` are the two statements of `get_kdf_salt` and
`set_dek_envelope`.

In `AnalyticsStore` a statement outside a transaction is one action with its
commit.  Creating the tables needs the write lock only where there are none yet.  The migration and an import work on `open`, a copy only a commit
publishes, and hold SQLite's one write lock from their first write to their last
statement.  `Dies` takes a program down between any two statements.
`BeginUpdate` and `WriteBack` are the SELECT and the UPDATE of `update_holding`,
between which the other program may run.  `AnalyticsStore` implements
`HoldingsBook`: the refinement shows every commit to be one whole operation.

`CsvImport` takes a request of the server as one step and asks which portfolio
and which file it carries; `AnalyticsStore` takes the rows as given and asks what
happens inside.  `Mounts` replaces the view, whose requests are still answered:
the answer is dropped, the stored choice is not.  A request whose client or proxy
has given up may still be handled: `Lost` leaves a confirmation on its way, and
drops a preview, which changes nothing.  Amounts in `CsvParser` are numbers,
`Blank` or `Unreadable`; both of the last read as 0, but a row counts as empty
only if no cell of it has text, so that one without a symbol and with an
unreadable amount, a name or a cost refuses the file (`csv_import.py:147`, 259).

In `MarketData` a request is a sequence of lookups and a lookup is gate, read of
the cache, eviction, fetch and store, each a step; the content of a datum is the
time at which its source delivered it.  In `Knowledge` a passage is a head (the
part its id is computed from) and a tail.

Definitions whose comment starts with "Mutant:" are deliberately wrong variants
of the definition below them.  They are not part of any specification; each
stands for a plausible mistake, and substituting it makes one property fail.

## 3. What the runs check

| run | configuration | shows |
|---|---|---|
| `vs_overlap` | `VersionStoreOverlap` | two engines over one file, failed INSERTs and loads, crashes, one power loss: `ChainIntact`, `ServedIsPersisted`, `AckedPersisted`, `ReplyNotBehind`, `AckOnce`, `ImplementsLog` (every step is a step of the abstract log), `AppendsAnswered` |
| `readers` | `VersionReaders` | `SnapshotRepeatable`, `DiffForward`, `IntegrityReported`, `HistoryHasAcked`, `HistoryRestored` for one engine, among appends, three starts, loads that fail, a power loss and a clock that may step back |
| `vault` | `Vault` | `EnvelopeOpens`, `SessionIsEnvelope`, `EntriesOpen`, `EnvelopeGuarded`, `AnalyticsAgrees`, `TokenNeverReplaced` |
| `knowledge` | `Knowledge` | two ingesting programs, edits, re-encryption, interruptions between the four transactions, a reader: `VectorHasChunk`, `IndexFollowsText`, `ReadersNeedTheKey`, `RefusedOnlyForKeys` |
| `analytics_store` | `AnalyticsStore` | both programs start, migrate, write, import and die, the seed is interrupted: `ReferencesResolve`, `StampedIsMigrated`, `UpdateKeepsFields`, `DemoOnce`, `ImplementsBook`, `LockReleased` |
| `market_data` | `MarketData` | a development and a product process on one cache, failing sources, damage, expiry: `AnswersAreCurrent`, `FirstSourcesOnly`, `SnapshotSurvives`, `HealthFollowsAnswers`, `EveryCallEnds` |
| `csv_import` | `CsvImport` | one file from preview to confirmation among remounts, other tabs and clients, and lost answers: `ImportsAsReviewed`, and `ImportsWhereShown` for a browser with `localStorage` |
| `vs_stale_engine` | `VersionStoreStale` | **violated**: with two engines `HistoryRestored` fails |
| `vs_answered_version` | `VersionStoreReply` | **violated**: `ReplyIsContentAddressed` |
| `salt_race` | `VaultSaltRace` | **violated**: `EnvelopeOpens`, with two first visitors |
| `envelope_race` | `VaultEnvelopeRace` | **violated**: `EnvelopeGuarded`, with two creators |
| `token_race` | `InstallToken` | **violated**: `EngineAgrees` |

The five violations are disagreements between the code and what its comments say:

1. A successor engine loads the history before it binds the port, while its
   predecessor, port already released, still stores versions.  The successor
   serves without them ("exactly as the previous process left them",
   `store.rs:40`), and appends to those entities fail on the UNIQUE constraint
   until it restarts.  No chain is damaged: `vs_overlap` shows that.
2. `append_version` reads the version number for its answer after the write lock
   was released.  Of two concurrent appends to one entity the first can be
   answered with its own hash and the other's number, a pair that is not the
   content address `types.rs:14` describes.
3. `get_kdf_salt` reads and upserts in two statements.  Of two first visitors both
   may find no salt; each is given one, and the second replaces the first.  A
   vault created under the first is stored beside a salt with which no passphrase
   opens it.
4. `set_dek_envelope` checks and stores in two statements, so of two first
   envelopes the second replaces the first without the token that
   `crypto_api.rs:265` asks for.
5. The engine that loses the create-new race reads the file once; if the winner
   has not written it yet the engine keeps a token of its own, although
   `main.rs:64` calls the creation race-safe.

A sixth has no run of its own.  "Imports land in the shell's selected portfolio",
says `pae-import.ts:66`; "every view agrees on the same portfolio", says
`portfolio-selection.ts:50`, and "selection lasts for the view only" where there is
no `localStorage` (line 76).  It does not last that long: selecting a portfolio
mounts the view anew (`pae-app.ts:296`), the new view finds no stored choice and
resolves the default again (`portfolio-selection.ts:56`),
and one user with one tab imports into the first portfolio under a selector that
shows the second.  `ImportsWhereShown` says so by its hypothesis `storage`; checking
`StoredWhereShown`, which has none, in the run `csv_import` gives the trace (twelve
states).

### Bounds, and why they are enough

- Clients = 2 in `vs_overlap`: every interference there is between two requests,
  and a third adds only another waiter for the same lock.  Entities = 1: entities
  share the lock and nothing else, and the theorems are about any number.
- MaxRequests = 2 in `vs_overlap`, one append at either engine or two at one: the
  second is built from an index that has the first, lacks it, or has lost it with
  a power loss, and that is all a numbering can go wrong by.  `vs_stale_engine`
  and `vs_answered_version` have what their counterexamples need; that chains of
  any length do not fork is proved.
- Contents = 1: equal ciphertexts are the hard case (the hash must still differ
  by version), and no property depends on contents being different.
- Engines = 2, MaxLaunches = 3: an overlap, then a restart of the stale engine.
  The port admits one listener at a time, so a third process would only repeat
  the second one's part.
- `readers`: one client, as the interference is between an append and a reader
  (that of two appends is in the other runs); two types for the filters;
  MaxLaunches = 3 for a start with the database, one without and one with it
  again; a limit of a history of at most two, or none; two appends, so that a
  power loss may take one and leave the other.
- MaxPowerLosses = 1: a loss may happen after any number of commits and drop any
  suffix; what follows starts from a prefix of a legal table.
- MaxClock = 1: before and after is all a timestamp comparison tells apart.  In
  `vs_overlap` and `readers` it may also be set back.
- `Vault`: two tabs, two passphrases (right and wrong), three operations
  (create, then an unlock and a rotation racing), one kill, one power loss.
  `salt_race` has none of the last two: the race needs neither.
- `Knowledge`: one document with two passages, an edit of it, and one whose
  passages share an id; two ingestions, so that one repairs or overtakes the
  other; two keys, one model.  Two models would add nothing that a vector of an
  older text does not already show.
- `AnalyticsStore`: the initial states are a new file and every small schema-1
  file; FileSize = 2 so that an import can fail in its middle; two holdings and
  two portfolios, so that one remains when the other is deleted; two fields, so
  that an update leaves one alone; MaxRequests = 2, one for each program to
  interfere with the other.  Deaths and restarts are not bounded.
- `MarketData`: one process in development and one in product mode; six of the
  fourteen requests are made, one of every way to look up and to fail (the
  others differ in which key they ask for); two calls, one tick of the clock, one
  damaged entry, and a series an earlier process left.
- `CsvImport`: two portfolios; two views, so that one may be gone; three
  requests, so that a confirmation can be sent again; one step of others.  The
  user has one of eleven files: six with a row of every fate between two good ones,
  two of a single row, and three refused as a whole.  That
  files of any length are read alike is proved (`ParserTells`).

Deadlock is not checked: the bounds stop the models, and a system with no
request under way may really rest.

### Fairness

`FairSpec` adds weak fairness of `HandlerStep(c)` for each client and nothing
else.  The handler is a task of a multi-threaded runtime: each of its steps is
either runnable (and runs to its end: the INSERT is bounded by SQLite's busy
timeout) or waits for the index lock, which only another handler holds.
Requests are finitely many, so a waiter is not starved for ever and strong
fairness is not needed.  Engines need not start, clocks need not advance, and
the progress property `AppendsAnswered` counts being cut off with one's engine
as an end.

`AnalyticsStore` asks weak fairness of the steps of a start, of finishing an
update and of the steps of an import: a program goes on with what it has begun,
and a statement that waits for the lock ends with SQLite's busy timeout.
Programs need not start or be asked anything.  `MarketData` asks it of a lookup:
every fetch has a timeout, and retries are counted.

### Assumptions

- SHA-256 does not collide, so a hash is the triple it was computed from.
- A write lock is not poisoned: `append` has no panic between lock and unlock.
- SQLite commits are atomic.  Under WAL with `synchronous = NORMAL` a power loss
  drops a suffix of the commits since the last checkpoint, and a killed process
  loses nothing.
- `Vault.cfg`: the first request for the salt is made with no other under way
  (`FirstVisitAlone`), and one tab creates vaults (`Creators`).  The code ensures
  neither.  What happens without the first is what run `salt_race` shows, without
  the second what run `envelope_race` shows.
- In `Vault` a handler that runs on after its client gave up is a tab that has
  not failed yet, and what its user tries meanwhile is another tab's.  A creation
  tried again while the handler of the first still runs is thus two creations
  that overlap, as in `envelope_race`.
- A key opens exactly the ciphertexts made with it.
- `Rounded` stands for Python's `round` to six digits: the error of the floating
  point division, and how a half is rounded, are left out.
- A uuid is never drawn twice (`Fresh`), and no holding is given an id that an
  import under way has drawn.
- The clock of `MarketData` only advances; how often a source was asked and how
  long it took are left out of its health.
- A request of the dashboard is handled in one step; a browser tab keeps its
  `localStorage` for as long as it runs, or never has it.
- `PAE_AGENT_TOKEN` and `PAE_DEV` are not set.

## 4. What is proved

Every theorem is about the specification the runs check, for all values of its
constants.  They assume only the ASSUMEs of the modules (bounds are numbers,
`None` is none of the values, the user's files are sequences of rows, ...); where
one needs a hypothesis beyond that, the hypothesis is part of its statement.

### The version store and its readers

| theorem of `VersionStoreProofs` | statement |
|---|---|
| `Invariance` | `Spec => []IInv` |
| `TypeCorrect` | `Spec => []TypeOK` |
| `ChainsIntact` | `Spec => []ChainIntact` |
| `NothingServedUnstored` | `Spec => []ServedIsPersisted` |
| `AcknowledgedStays` | `Spec => []AckedPersisted` |
| `AnswersNotBehind` | `Spec => []ReplyNotBehind` |
| `WaitingAlone` | `Spec => []PendingUnacked` |
| `NoVersionTwice` | `Spec => AckOnce` |
| `SoleIndexComplete` | `SoleEngine => (Spec => []IndexComplete)` |
| `RestartsRestore` | `SoleEngine => (Spec => []HistoryRestored)` |
| `StoreIsLog` | `Spec => ImplementsLog` |

The argument is one inductive invariant, `IInv`.  The properties alone are not
inductive: that a pushed record continues the chain depends on the index not
having moved since the record was built.  `LockHeld` says the lock is held
exactly by the request between build and push, `PendingIsNext` that the record
it carries is still the successor of the index it was built from, and
`PersistedStored` that a record past its INSERT is in the table.  With these,
`ServedIsPersisted` (the index is a prefix of the table) makes the INSERT
conflict whenever the index lags behind the table, so that an accepted row
always extends the table's chain: this is why overlapping engines cannot fork
it.  `CommitsBeyondType` bounds what a power loss removes, which leaves prefixes
of chains, and prefixes of chains are chains.  The proof has one lemma per
action (`BuildRecordInv`, `PersistRecordInv`, ...), and `NextIInv` combines
them.

`AckOnce` is about a step and needs one more fact, `PendingUnacked`: a stored
version that waits for its answer belongs to no other waiting request and to no
acknowledgement.  It holds because the INSERT refuses what is in the table, and
everything waiting or acknowledged is there.  The refinement maps the INSERT to
the append, the answer to the acknowledgement, a power loss to the loss of a
tail, and every other step to a stutter (`AbsStep`).

`HistoryRestored` is false with two engines, which run `vs_stale_engine` shows.
With one (`SoleEngine`) the index lags behind the table by at most the row that
is stored and not yet pushed; that is `IndexComplete`, and it is inductive
because nobody else writes the table and a launch reads all of it.

| theorem of `VersionReadersProofs` | statement |
|---|---|
| `ReaderInvariance` | `ReaderSpec => []ReaderInv` |
| `DiffsRunForward` | `ReaderSpec => []DiffForward` |
| `IntegrityHolds` | `ReaderSpec => []IntegrityReported` |
| `SoleInvariance` | `SoleEngine => (ReaderSpec => []SoleInv)` |
| `HistoriesComplete` | `SoleEngine => (ReaderSpec => []HistoryHasAcked)` |
| `AuditsRepeat` | `SoleEngine => (ReaderSpec => []SnapshotRepeatable)` |

A diff and an integrity report look twice, and what matters is what the first
look still means at the second: `HalfHolds` says the versions the first snapshot
chose are still eligible and the chain it verified is still there.  It survives
every step because an index only grows while its engine lives (`IndexGrows`) and
a request does not outlive its engine.  These two need no hypothesis, also not
about the clock.

The other two promise something across restarts and hold for one engine
(`SoleEngine`), however often it is started: a second one may be stale, and with
two engines in `VersionReaders.cfg` (without its SYMMETRY) TLC refutes both.  An
engine whose load failed serves an empty history and a power loss takes
acknowledged rows back; both are in the theorems and in run `readers`,
and the properties say what is left of the promise.  They speak of answers given
by an engine with its database.  A history must have what was acknowledged
before the request and not lost since (`StillAcked`); an answer about a past
instant is to be repeated until power is lost, also if the engine was started
without its database in between.

`BeforeStored` says that what a request counts as acknowledged stays in the table
for as long as the request lasts (`RowsStay`: only a power loss takes rows back,
and no request outlives one).  `AuditFixed` carries the audit: what was answered
about a past instant is what the *table* shows of it, and no row on its way to
the table is that old, as long as the clock has not been set back
(`SnapshotRepeatable` says so itself).  With `IndexComplete` a backed engine
whose lock is free answers from exactly that table (`LookSeesTable`).

### The token and the vault

| theorem of `VaultProofs` | statement |
|---|---|
| `TokenInvariance` | `TokenSpec => []TokenInv` |
| `TokenTypeCorrect` | `TokenSpec => []TokenTypeOK` |
| `AnalyticsFollowsFile` | `TokenSpec => []AnalyticsAgrees` |
| `TokenKept` | `TokenSpec => TokenNeverReplaced` |
| `VaultInvariance` | `VaultSpec => []VaultTypeInv` |
| `VaultTypeCorrect` | `VaultSpec => []VaultTypeOK` |
| `AnalyticsFollowsFileStill` | `VaultSpec => []AnalyticsAgrees` |
| `TokenStillKept` | `VaultSpec => TokenNeverReplaced` |
| `SaltInvariance` | `VaultSpec /\ []SaltsApart => []SaltInv` |
| `EnvelopesOpen` | `VaultSpec /\ []SaltsApart => []EnvelopeOpens` |
| `FirstVisitApart` | `FirstVisitAlone => (VaultSpec => []SaltsApart)` |
| `KeyInvariance` | `VaultSpec /\ []CreationsApart => []KeyInv` |
| `SessionsAgree` | `VaultSpec /\ []CreationsApart => []SessionIsEnvelope` |
| `EntriesReadable` | `VaultSpec /\ []CreationsApart => []EntriesOpen` |
| `EnvelopesGuarded` | `VaultSpec /\ []CreationsApart => EnvelopeGuarded` |
| `SoleCreatorApart` | `(\A t, u \in Creators : t = u) => (VaultSpec => []CreationsApart)` |

For the token, `CreatorAlone` says that between creation and writing the file is
empty and its creator the only one; `HoldsDrawn` that what will be written is a
token and that analytics is never up without having seen a file.  The writer
therefore only ever fills an empty file.

Of the vault, `SaltInv` looks at every state the disk may fall back to: each has
the salt its envelope was made with, the tabs were told the salt that is stored,
and whoever is about to generate one still finds none.  Its hypothesis is exactly
that no two requests are between the two statements of `get_kdf_salt`
(`SaltsApart`), which the code does not ensure and run `salt_race` refutes
`EnvelopeOpens` without; a first visit alone, as in `Vault.cfg`, is enough for it
(`FirstVisitApart`), a power loss that undoes the first visit included.
`KeyInv` says that a session, a rotation and an envelope just stored agree on the
data key, and that whoever is about to create the envelope still finds none.
Its hypothesis is that no two creations overlap (`CreationsApart`), for any
number of tabs that unlock, rotate, save and lock beside them; run
`envelope_race` refutes `EnvelopeGuarded` without it, and one creating tab, as in
`Vault.cfg`, is enough for it (`SoleCreatorApart`).  Neither hypothesis excludes
kills, lost answers or power losses.

### The knowledge base

| theorem of `KnowledgeProofs` | statement |
|---|---|
| `KnowledgeTypeCorrect` | `Spec => []KnowledgeTypeOK` |
| `VectorsHaveChunks` | `Spec => []VectorHasChunk` |
| `IndexIsOfStoredText` | `Spec => []IndexFollowsText` |
| `AnswersNeedTheKey` | `Spec => []ReadersNeedTheKey` |
| `RefusalsHaveACause` | `Spec => []RefusedOnlyForKeys` |

The invariant follows each ingestion through its four transactions and says what
the passages it has still to index are.

### The analytics database

| theorem of `AnalyticsStoreProofs`, `AnalyticsStoreBook` | statement |
|---|---|
| `TypeHolds` | `Spec => []StoreTypeOK` |
| `ReferencesHold` | `Spec => []ReferencesResolve` |
| `StampHolds` | `Spec => []StampedIsMigrated` |
| `FieldsKept` | `Spec => []UpdateKeepsFields` |
| `DemoIsSeededOnce` | `Spec => []DemoOnce` |
| `StoreIsBook` | `Spec => ImplementsBook` |

The inductive invariant `StoreInv` asks of the working copy what it asks of the
database, adds that it has the tables of schema 2 (`OpenOk`), and ties the lock
to the place each program has reached (`InTransaction`); `JobsOk` says that
whoever is past the migration finds schema 2 for good, which is what makes the
second program's late migration harmless.  `GoesOn` is the one lemma about steps
that move a program, `WriteOk` the one about statements that do not; the
`...Good` lemmas say what each statement does to a database.

That the store is a book needs what an open transaction adds to the database:
`OpenAdds` says an open transaction differs from the committed tables, as a book,
by the rows of the file already inserted (a migration has no file and adds
nothing), `FilesOk` that the file's ids have never been stored.  The commit of an
import then maps to one `Import` of the whole file, a death or a failure to the
loss of the open transaction, and every other commit to one operation on the
book or to a stutter.  `UsedOk` keeps deleted ids from coming back, and `SeedOk`
says there is no demo portfolio while the seed is about to create one.

### Market data

| theorem of `MarketDataProofs` | statement |
|---|---|
| `DataInvariance` | `Spec => []DataInv` |
| `DataTypeCorrect` | `Spec => []DataTypeOK` |
| `AnswersStayCurrent` | `Spec => []AnswersAreCurrent` |
| `ProductSourcesOnly` | `Spec => []FirstSourcesOnly` |
| `SnapshotsSurvive` | `Spec => []SnapshotSurvives` |
| `HealthAgrees` | `Spec => []HealthFollowsAnswers` |

These need no hypothesis: they hold for any set of processes, each in either
mode, any number of retries, any damage and any length of time.  `Shaped` ties
the place a lookup has reached to what it carries, and says that an entry of the
cache expires its time to live after it was stored, and was stored in the past.
`Fresh` adds that every intact entry, and what is about to be stored, was
delivered under its key: an entry read before another process evicts or replaces
it is still one that was delivered, and this is why the steps between read and
answer do not matter.  `FirstSourcesOnly` is inductive with `Shaped`: it speaks
of the lookup in hand, which the gate has let pass, and an entry is reached only
by a key of its own source.  `Accounted` counts the lookups of a call as obtained,
missed or left, unless it was cut short, which a snapshot only is by the cache or
by an unreadable answer.

### The import from the dashboard

| theorem of `CsvImportProofs` | statement |
|---|---|
| `ParserTells` | for every `sheet` whose `rows` are in `Seq(Row)`, `TellsEveryRow(sheet, ImportCsvString(sheet))` |
| `ImportInvariance` | `Spec => []ImportInv` |
| `ImportsStoreReviews` | `Spec => []StoredAsReviewed` |
| `ImportsGoWhereShown` | `Spec => []ImportsWhereShown` |
| `ImportsFollowReviews` | `Spec => []ImportsAsReviewed` |

`ParserTells` is about files of any length.  What a loop over the rows has made
of the first n of them is a recursive function, and `TellsUpTo` its loop
invariant.  The induction is on sets of numbers: the n for which the statement
fails, if there are any, have a least one (`NatLessThanWellFounded` with `WFMin`),
which is not 0 and whose predecessor does not fail (`CountUp`); that the function
exists at all is shown the same way (`Recursion`).  That the weights add up to
the unit, but for one step of rounding per holding, is `WeightsAddUp`, from the
share of one holding (`RoundedShare`) by the same induction.

The invariant of the dialogue has four parts.  `ViewShape` says that what a view
shows for review is what the parser makes of the user's file, `RequestsShaped`
that a confirmation carries what its user had reviewed and that a view waits for
one answer at a time, so that a late preview cannot take the place of a newer
one.  `ListsCurrent` and `ChoiceAgrees` say that, in a browser with
`localStorage`, selector, view and stored choice mean the same portfolio until
another tab or client moves something, and again once the user has chosen from a
selector that is up to date: a view may be mounted before or after the shell has
loaded its list, and both default to the first.  Without `localStorage` they do
not agree, and `ImportsGoWhereShown` says nothing of such a browser (section 3);
that an import stores what was reviewed (`ImportsFollowReviews`) holds there too.

### Only model-checked

`AppendsAnswered`, `LockReleased` and `EveryCallEnds` are liveness: they need
fairness and ENABLED, which the proof system does not handle.  The five
violations are counterexamples, found by TLC.  Every safety property that a
passing run checks is proved.

The hypotheses above are met by the runs: `readers` has one engine, and `vault`
one first visitor and one creator.

## 5. What is not modelled, and why

- Floating-point models (risk, Monte Carlo, factor models): no state, and TLC
  has no floating point.
- The stateless `/encrypt` and `/decrypt` helpers, static files, CORS and the
  loopback guard: no state that lasts beyond a request.
- Validation failures (400): they change nothing.
- The v1 vault without an envelope is modelled only as far as its session; what
  happens to v1 entries once an envelope exists is a decision the code documents.
- The engine's own holdings and import, the proxy, the asynchronous state of the
  journal view and Shamir's shares: planned below.
- Of analytics: requests that only read or compute, the journal table and
  `delete_account` (no handler calls it), the counters of the health record, the
  parsing of payloads, and the rows of a series.  That factors with gaps are
  aligned by their tails is a question about those rows.
- Of the knowledge base: the cutting of a text into passages, themes and ranking;
  a query picks any TopK rows its search may find.
- `analytics/pae/data/csv_import.py`, an older copy of the importer.
- What does not hold and nothing promises: an interrupted seed may leave a demo
  portfolio without its holdings, a new database may get two default portfolios,
  and a confirmation that is sent again stores the file again.  The models reach
  these states.

## 6. Plan

Done, in this order: `AppendOnlyLog` and `VersionStore`, `VersionReaders`,
`InstallToken`, `Vault`, `Knowledge`, `HoldingsBook` and `AnalyticsStore`,
`MarketData`, `CsvParser` and `CsvImport`; and proofs about each of them, of
every safety property a passing run checks.

Left:

1. `JournalView`: the asynchronous view state (unlock, lock, open, save) against
   late answers; composed with the sessions of `Vault`.
2. The engine's holdings: the connection pool as a counter that never waits,
   `confirm_import` that fails in the middle and is retried.
3. `Proxy`: timeouts of `forward_http` against a server that did the work.
4. Pure algorithms (Shamir over a small field, Brinson sums, `chunk_text`)
   against reference definitions, in modules only TLC uses.
