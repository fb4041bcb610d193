---------------------------- MODULE AnalyticsStore ----------------------------
(***************************************************************************)
(* The analytics database (SQLite, WAL) and the two programs that share    *)
(* it: the HTTP server, whose handlers run one at a time on one event      *)
(* loop, and the MCP server on standard input.  Both run the same start:   *)
(* create the tables, read the schema version, migrate, stamp, and insert  *)
(* a default portfolio.  Either may die between any two statements.        *)
(*                                                                         *)
(* A statement outside a transaction of several is one step with its       *)
(* commit.  The transactions of several statements, the migration and an   *)
(* import, work on a copy that only a commit publishes, and hold SQLite's  *)
(* single write lock; a writer waits for it up to the busy timeout.        *)
(*                                                                         *)
(* Requests that are refused before they change anything (validation, an   *)
(* unknown id, a missing reference) leave the state as it is and are not   *)
(* steps of their own, except where they end a transaction.                *)
(***************************************************************************)
EXTENDS Naturals, FiniteSets

CONSTANTS
  HoldingIds, Portfolios, Accounts, \* uuids that may be drawn
  Fields,     \* columns of a holding an update may name
  Amounts,    \* their values
  FirstAmount, \* the value every field of a new holding has
  FileSize,   \* rows of an imported file
  DemoSize,   \* holdings the demo seed posts
  None,
  MaxRequests \* bound: requests that write

Server == "server"
Mcp == "mcp"
Programs == {Server, Mcp}
\* The account of a holding that has none: '' in schema 1, NULL in schema 2.
Blank == "blank"

ASSUME StoreAssumption ==
  /\ FileSize \in Nat \ {0} /\ DemoSize \in Nat \ {0} /\ MaxRequests \in Nat
  /\ FirstAmount \in Amounts
  /\ None \notin Portfolios \cup Programs /\ {None, Blank} \cap Accounts = {} /\ None # Blank

VARIABLES
  db,       \* what is committed
  open,     \* the working copy of the transaction of several statements
  writer,   \* who holds the write lock through that transaction, or None
  job,      \* program -> what it is doing
  seed,     \* the demo seed script
  used,     \* history: holding ids ever committed
  last,     \* history: holding -> the values last written to its fields
  raced,    \* history: holdings updated from a row that had changed meanwhile
  requests

storeVars == <<db, open, writer, job, seed, used, last, raced, requests>>

-------------------------------------------------------------------------------
(* Rows and tables.                                                          *)

Row == [portfolio : Portfolios, account : Accounts \cup {Blank, None},
        fields : [Fields -> Amounts]]

NewFields == [f \in Fields |-> FirstAmount]

\* Portfolios are told apart by what they are called.
Names == {"Default", "Demo", "Own"}

\* A table maps the ids in use to their rows.
Tables(ids, rows) == UNION {[some -> rows] : some \in SUBSET ids}

\* The shape of the tables, and the schema version that is stamped.
Databases ==
  [layout : 0..2, stamp : 0..2, portfolios : Tables(Portfolios, Names),
   accounts : SUBSET Accounts, holdings : Tables(HoldingIds, Row)]

ASSUME NoDatabase == None \notin Databases

Override(old, new) ==
  [x \in DOMAIN old \cup DOMAIN new |-> IF x \in DOMAIN new THEN new[x] ELSE old[x]]

PutHoldings(base, new) == [base EXCEPT !.holdings = Override(@, new)]
DropHoldings(base, ids) ==
  [base EXCEPT !.holdings = [id \in DOMAIN @ \ ids |-> @[id]]]
PutPortfolio(base, p, name) ==
  [base EXCEPT !.portfolios = Override(@, [q \in {p} |-> name])]

HoldingsOf(base, p) == {id \in DOMAIN base.holdings : base.holdings[id].portfolio = p}

\* FOREIGN KEY with PRAGMA foreign_keys=ON; an empty account is stored as NULL.
References(base, row) ==
  row.portfolio \in DOMAIN base.portfolios /\ row.account \in base.accounts \cup {None}

\* Mutant: the foreign keys are not enforced, nothing cascades.
DropPortfolioOnly(base, p) ==
  [base EXCEPT !.portfolios = [q \in DOMAIN @ \ {p} |-> @[q]]]

\* ON DELETE CASCADE.
DropPortfolio(base, p) ==
  [DropHoldings(base, HoldingsOf(base, p)) EXCEPT
     !.portfolios = [q \in DOMAIN @ \ {p} |-> @[q]]]

\* _migrate_v2_account_nullable: every row is copied, '' becomes NULL.
NullBlank(row) == [row EXCEPT !.account = IF row.account = Blank THEN None ELSE row.account]
MigrateAccounts(base) ==
  [base EXCEPT !.layout = 2,
     !.holdings = [id \in DOMAIN base.holdings |-> NullBlank(base.holdings[id])]]

EmptyDb == [layout |-> 0, stamp |-> 0, portfolios |-> <<>>, accounts |-> {},
            holdings |-> <<>>]
NoRows == <<>>
DownJob == [pc |-> "down", id |-> None, row |-> None, changes |-> NoRows,
            file |-> NoRows, left |-> {}]
IdleSeed == [pc |-> "idle", portfolio |-> None, posted |-> 0]

\* A new file, or one that schema 1 left: stamped 1, with or without accounts.
Init ==
  /\ \/ db = EmptyDb /\ used = {}
     \/ \E p \in Portfolios, h \in HoldingIds, a \in Accounts, blank \in BOOLEAN :
          /\ db = [layout |-> 1, stamp |-> 1,
                   portfolios |-> [q \in {p} |-> "Own"], accounts |-> {a},
                   holdings |-> [id \in {h} |-> [portfolio |-> p, fields |-> NewFields,
                     account |-> IF blank THEN Blank ELSE a]]]
          /\ used = {h}
  /\ last = [id \in DOMAIN db.holdings |-> db.holdings[id].fields]
  /\ open = None /\ writer = None
  /\ job = [p \in Programs |-> DownJob]
  /\ seed = IdleSeed
  /\ raced = {}
  /\ requests = 0

-------------------------------------------------------------------------------
(* Starting: PAEDatabase.initialize, then the default portfolio.             *)

LockFree == writer = None
historyVars == <<used, last, raced>>

Goes(p, pc) == job' = [job EXCEPT ![p] = [DownJob EXCEPT !.pc = pc]]
Commits(new) == db' = new /\ UNCHANGED <<open, writer>>

Start(p) ==
  /\ job[p].pc = "down"
  /\ Goes(p, "tables")
  /\ UNCHANGED <<db, open, writer, seed, historyVars, requests>>

\* CREATE TABLE IF NOT EXISTS changes nothing where the tables are, and then
\* needs no lock.  (Where they are not, each CREATE commits by itself; no
\* program looks at a table before its own script is through, and a program
\* that dies halfway leaves the rest to the next one's, so the last CREATE
\* stands for all.)
CreateTables(p) ==
  /\ job[p].pc = "tables"
  /\ \/ /\ db.layout = 0
        /\ LockFree
        /\ Commits([db EXCEPT !.layout = 2])
     \/ /\ db.layout # 0
        /\ UNCHANGED <<db, open, writer>>
  /\ Goes(p, "version")
  /\ UNCHANGED <<seed, historyVars, requests>>

\* Mutant: an older database is stamped and not migrated.
ReadVersionStampsOld(p) ==
  /\ job[p].pc = "version"
  /\ Goes(p, IF db.stamp < 2 THEN "stamp" ELSE "check")
  /\ UNCHANGED <<db, open, writer, seed, historyVars, requests>>

\* _apply_migrations: no stamp means that this program made the tables.
ReadVersion(p) ==
  /\ job[p].pc = "version"
  /\ Goes(p, CASE db.stamp = 0 -> "stamp" [] db.stamp = 1 -> "migrate" [] OTHER -> "check")
  /\ UNCHANGED <<db, open, writer, seed, historyVars, requests>>

BeginMigration(p) ==
  /\ job[p].pc = "migrate"
  /\ LockFree
  /\ writer' = p
  /\ open' = MigrateAccounts(db)
  /\ Goes(p, "migrating")
  /\ UNCHANGED <<db, seed, historyVars, requests>>

\* Mutant: the script of the migration ends without COMMIT.
CommitMigrationNever(p) ==
  /\ job[p].pc = "migrating"
  /\ Goes(p, "stamp")
  /\ UNCHANGED <<db, open, writer, seed, historyVars, requests>>

CommitMigration(p) ==
  /\ job[p].pc = "migrating"
  /\ db' = open
  /\ open' = None /\ writer' = None
  /\ Goes(p, "stamp")
  /\ UNCHANGED <<seed, historyVars, requests>>

Stamp(p) ==
  /\ job[p].pc = "stamp"
  /\ LockFree
  /\ Commits([db EXCEPT !.stamp = 2])
  /\ Goes(p, "check")
  /\ UNCHANGED <<seed, historyVars, requests>>

LookForPortfolio(p) ==
  /\ job[p].pc = "check"
  /\ Goes(p, IF db.portfolios = <<>> THEN "default" ELSE "ready")
  /\ UNCHANGED <<db, open, writer, seed, historyVars, requests>>

InsertDefault(p) ==
  /\ job[p].pc = "default"
  /\ LockFree
  /\ \E new \in Portfolios \ DOMAIN db.portfolios : Commits(PutPortfolio(db, new, "Default"))
  /\ Goes(p, "ready")
  /\ UNCHANGED <<seed, historyVars, requests>>

\* The process dies, or a statement of the start fails; what it had not
\* committed is gone and the lock is free again.
Dies(p) ==
  /\ job[p].pc # "down"
  /\ Goes(p, "down")
  /\ writer' = IF writer = p THEN None ELSE writer
  /\ open' = IF writer = p THEN None ELSE open
  /\ UNCHANGED <<db, seed, historyVars, requests>>

-------------------------------------------------------------------------------
(* Requests.  Both programs create, update and delete holdings; portfolios,  *)
(* accounts and imports are the server's.                                    *)

\* A uuid that nobody has drawn.
Fresh == HoldingIds \ (used \cup DOMAIN job[Server].file)

Accepts(p) == job[p].pc = "ready" /\ requests < MaxRequests /\ requests' = requests + 1
WritesAtOnce(p) == Accepts(p) /\ LockFree /\ UNCHANGED job

CreatePortfolio ==
  /\ WritesAtOnce(Server)
  /\ \E new \in Portfolios \ DOMAIN db.portfolios : Commits(PutPortfolio(db, new, "Own"))
  /\ UNCHANGED <<seed, historyVars>>

DeletePortfolio ==
  /\ WritesAtOnce(Server)
  /\ \E q \in DOMAIN db.portfolios : Commits(DropPortfolio(db, q))
  /\ UNCHANGED <<seed, historyVars>>

CreateAccount ==
  /\ WritesAtOnce(Server)
  /\ \E new \in Accounts \ db.accounts : Commits([db EXCEPT !.accounts = @ \cup {new}])
  /\ UNCHANGED <<seed, historyVars>>

Remember(rows) ==
  /\ used' = used \cup DOMAIN rows
  /\ last' = Override(last, [id \in DOMAIN rows |-> rows[id].fields])
  /\ UNCHANGED raced

CreateHolding(p) ==
  /\ WritesAtOnce(p)
  /\ \E id \in Fresh, q \in DOMAIN db.portfolios,
        a \in db.accounts \cup {None} :
       LET new == [i \in {id} |-> [portfolio |-> q, account |-> a, fields |-> NewFields]]
       IN  Commits(PutHoldings(db, new)) /\ Remember(new)
  /\ UNCHANGED seed

DeleteHolding(p) ==
  /\ WritesAtOnce(p)
  /\ \E id \in DOMAIN db.holdings : Commits(DropHoldings(db, {id}))
  /\ UNCHANGED <<seed, historyVars>>

GetHolding(id) == db.holdings[id].fields

\* update_holding: SELECT the row, change the named fields, UPDATE all of them.
BeginUpdate(p) ==
  /\ Accepts(p)
  /\ \E id \in DOMAIN db.holdings, named \in (SUBSET Fields) \ {{}} :
       \E changes \in [named -> Amounts] :
         job' = [job EXCEPT ![p] = [DownJob EXCEPT !.pc = "update", !.id = id,
                   !.row = GetHolding(id), !.changes = changes]]
  /\ UNCHANGED <<db, open, writer, seed, historyVars>>

\* Mutant: the fields the request does not name get their defaults.
WriteBackDefaults(p) ==
  LET id == job[p].id
      changes == job[p].changes
  IN  /\ job[p].pc = "update" /\ LockFree
      /\ id \in DOMAIN db.holdings
      /\ Commits([db EXCEPT !.holdings[id].fields = Override(NewFields, changes)])
      /\ last' = [last EXCEPT ![id] = Override(@, changes)]
      /\ Goes(p, "ready")
      /\ UNCHANGED <<used, raced, seed, requests>>

\* Without the row the request is answered 404.
WriteBack(p) ==
  LET id == job[p].id
      changes == job[p].changes
  IN  /\ job[p].pc = "update"
      /\ LockFree
      /\ IF id \in DOMAIN db.holdings
         THEN /\ Commits([db EXCEPT !.holdings[id].fields = Override(job[p].row, changes)])
              /\ last' = [last EXCEPT ![id] = Override(@, changes)]
              /\ raced' = IF db.holdings[id].fields = job[p].row THEN raced ELSE raced \cup {id}
         ELSE UNCHANGED <<db, open, writer, last, raced>>
      /\ Goes(p, "ready")
      /\ UNCHANGED <<used, seed, requests>>

\* confirm_import: the file is parsed and validated before anything is written;
\* its rows share the portfolio and account of the request, known or not.
BeginImport ==
  /\ Accepts(Server)
  /\ \E q \in Portfolios, a \in Accounts \cup {None}, ids \in SUBSET Fresh :
       /\ Cardinality(ids) = FileSize
       /\ job' = [job EXCEPT ![Server] = [DownJob EXCEPT !.pc = "import", !.left = ids,
            !.file = [id \in ids |-> [portfolio |-> q, account |-> a, fields |-> NewFields]]]]
  /\ UNCHANGED <<db, open, writer, seed, historyVars>>

\* The first INSERT takes the lock.
Copy == IF writer = Server THEN open ELSE db

\* Mutant: every row is committed by itself.
InsertRowCommitted ==
  /\ job[Server].pc = "import" /\ LockFree
  /\ \E id \in job[Server].left :
       LET row == job[Server].file[id]
       IN  /\ References(db, row)
           /\ Commits(PutHoldings(db, [i \in {id} |-> row]))
           /\ job' = [job EXCEPT ![Server].left = @ \ {id}]
  /\ UNCHANGED <<seed, historyVars, requests>>

InsertRow ==
  /\ job[Server].pc = "import"
  /\ writer \in {None, Server}
  /\ \E id \in job[Server].left :
       LET row == job[Server].file[id]
       IN  /\ References(Copy, row)
           /\ open' = PutHoldings(Copy, [i \in {id} |-> row])
           /\ writer' = Server
           /\ job' = [job EXCEPT ![Server].left = @ \ {id}]
  /\ UNCHANGED <<db, seed, historyVars, requests>>

CommitImport ==
  /\ job[Server].pc = "import" /\ job[Server].left = {}
  /\ db' = open
  /\ open' = None /\ writer' = None
  /\ Remember(job[Server].file)
  /\ Goes(Server, "ready")
  /\ UNCHANGED <<seed, requests>>

\* Mutant: no rollback.
FailImportKeepsLock ==
  /\ job[Server].pc = "import"
  /\ Goes(Server, "ready")
  /\ UNCHANGED <<db, open, writer, seed, historyVars, requests>>

\* An INSERT fails, for a missing reference or any other reason SQLite has; the
\* transaction is rolled back.
FailImport ==
  /\ job[Server].pc = "import"
  /\ Goes(Server, "ready")
  /\ writer' = IF writer = Server THEN None ELSE writer
  /\ open' = IF writer = Server THEN None ELSE open
  /\ UNCHANGED <<db, seed, historyVars, requests>>

\* The busy timeout of an update; an import that waits fails with FailImport.
UpdateTimesOut(p) ==
  /\ job[p].pc = "update" /\ ~LockFree
  /\ Goes(p, "ready")
  /\ UNCHANGED <<db, open, writer, seed, historyVars, requests>>

-------------------------------------------------------------------------------
(* The demo seed, a script that calls the server.                            *)

SeedAsks(pc) == seed.pc = pc /\ job[Server].pc = "ready" /\ UNCHANGED <<job, requests>>

\* Mutant: the list of portfolios is not looked at.
SeedListsNothing ==
  /\ SeedAsks("idle")
  /\ seed' = [seed EXCEPT !.pc = "create"]
  /\ UNCHANGED <<db, open, writer, historyVars>>

\* Nothing is done where a portfolio of that name is listed.
SeedLists ==
  /\ SeedAsks("idle")
  /\ \A q \in DOMAIN db.portfolios : db.portfolios[q] # "Demo"
  /\ seed' = [seed EXCEPT !.pc = "create"]
  /\ UNCHANGED <<db, open, writer, historyVars>>

\* The answer may be lost.
SeedCreates ==
  /\ SeedAsks("create")
  /\ LockFree
  /\ \E new \in Portfolios \ DOMAIN db.portfolios, answered \in BOOLEAN :
       /\ Commits(PutPortfolio(db, new, "Demo"))
       /\ seed' = IF answered THEN [seed EXCEPT !.pc = "post", !.portfolio = new]
                  ELSE IdleSeed
  /\ UNCHANGED historyVars

SeedPosts ==
  /\ SeedAsks("post")
  /\ LockFree
  /\ seed.portfolio \in DOMAIN db.portfolios
  /\ \E id \in Fresh :
       LET new == [i \in {id} |-> [portfolio |-> seed.portfolio, account |-> None,
                                   fields |-> NewFields]]
       IN  Commits(PutHoldings(db, new)) /\ Remember(new)
  /\ seed' = IF seed.posted + 1 = DemoSize THEN IdleSeed
             ELSE [seed EXCEPT !.posted = @ + 1]

\* A request fails or the script is interrupted; it can be run again.
SeedFails ==
  /\ seed.pc # "idle"
  /\ seed' = IdleSeed
  /\ UNCHANGED <<db, open, writer, job, historyVars, requests>>

-------------------------------------------------------------------------------
StartStep(p) ==
  \/ CreateTables(p) \/ ReadVersion(p) \/ BeginMigration(p) \/ CommitMigration(p)
  \/ Stamp(p) \/ LookForPortfolio(p) \/ InsertDefault(p)

ImportStep == InsertRow \/ CommitImport \/ FailImport

RequestStep(p) == CreateHolding(p) \/ DeleteHolding(p) \/ BeginUpdate(p)

Next ==
  \/ \E p \in Programs :
       Start(p) \/ StartStep(p) \/ Dies(p) \/ RequestStep(p) \/ WriteBack(p) \/ UpdateTimesOut(p)
  \/ CreatePortfolio \/ DeletePortfolio \/ CreateAccount
  \/ BeginImport \/ ImportStep
  \/ SeedLists \/ SeedCreates \/ SeedPosts \/ SeedFails

Spec == Init /\ [][Next]_storeVars

\* What a running program has begun it goes on with.
FairSpec ==
  /\ Spec
  /\ \A p \in Programs : WF_storeVars(StartStep(p)) /\ WF_storeVars(WriteBack(p) \/ UpdateTimesOut(p))
  /\ WF_storeVars(ImportStep)

-------------------------------------------------------------------------------
(* Properties.                                                               *)

\* Shape of the tables and of the work in progress; the write lock is held
\* exactly by the program whose transaction is open.
StoreTypeOK ==
  /\ db \in Databases /\ open \in Databases \cup {None}
  /\ writer # None <=> open # None
  /\ \A p \in Programs :
       writer = p <=> \/ job[p].pc = "migrating"
                      \/ job[p].pc = "import" /\ job[p].left # DOMAIN job[p].file

\* Every committed holding has its portfolio and its account, whichever of the
\* two programs deletes, imports or migrates at the same time.
ReferencesResolve ==
  db.layout = 2 => \A id \in DOMAIN db.holdings : References(db, db.holdings[id])

\* A database that is stamped with schema 2 has the tables of schema 2: a stop
\* between the migration and the stamp is repaired by the next start.
StampedIsMigrated == db.stamp = 2 => db.layout = 2

\* A field keeps the value last written to it through updates of other fields,
\* unless an update was computed from a row the other program had changed.
UpdateKeepsFields ==
  \A id \in DOMAIN db.holdings :
    id \in raced \/ db.holdings[id].fields = last[id]

\* However often the seed is interrupted and run again there is one demo portfolio.
DemoOnce ==
  \A q, r \in DOMAIN db.portfolios :
    db.portfolios[q] = "Demo" /\ db.portfolios[r] = "Demo" => q = r

\* The write lock is given back, also by a transaction that fails.
LockReleased == \A p \in Programs : writer = p ~> writer # p

\* The database is a HoldingsBook: imports are stored whole or not at all, the
\* migration and crashes lose no holding, and no deleted one returns.
Entries(rows) ==
  [id \in DOMAIN rows |-> [portfolio |-> rows[id].portfolio, fields |-> rows[id].fields]]
Book == INSTANCE HoldingsBook WITH
  book <- Entries(db.holdings),
  pending <- [s \in {Server} |-> Entries(job[s].file)],
  Importers <- {Server}

ImplementsBook == Book!BookSpec
===============================================================================
