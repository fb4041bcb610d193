-------------------------- MODULE AnalyticsStoreBook --------------------------
(***************************************************************************)
(* AnalyticsStore implements HoldingsBook, an update leaves the fields it  *)
(* does not name, and there is one demo portfolio: what needs the history  *)
(* variables and what an open transaction adds to the database.            *)
(***************************************************************************)
EXTENDS AnalyticsStoreProofs

-------------------------------------------------------------------------------
(* The invariant, on top of StoreInv.                                        *)

\* A file is held only by an import, and its ids have never been stored.
FilesOk ==
  /\ \A p \in Programs : job[p].pc # "import" => job[p].file = <<>> /\ job[p].left = {}
  /\ DOMAIN job[Server].file \cap used = {}

SameEntry(row, other) == row.portfolio = other.portfolio /\ row.fields = other.fields

\* What the open transaction of p adds to the database: the rows already inserted.
Adds(p) ==
  LET file == job[p].file
  IN  /\ open.portfolios = db.portfolios
      /\ DOMAIN open.holdings = DOMAIN db.holdings \cup (DOMAIN file \ job[p].left)
      /\ \A id \in DOMAIN open.holdings :
           SameEntry(open.holdings[id], IF id \in DOMAIN file THEN file[id] ELSE db.holdings[id])
OpenAdds == \A p \in Programs : writer = p => Adds(p)

UsedOk ==
  /\ DOMAIN db.holdings \subseteq used /\ DOMAIN db.holdings \subseteq DOMAIN last
  /\ used \subseteq HoldingIds

SeedOk ==
  /\ seed \in [pc : {"idle", "create", "post"}, portfolio : Portfolios \cup {None}, posted : Nat]
  /\ seed.pc = "create" => \A q \in DOMAIN db.portfolios : db.portfolios[q] # "Demo"

HistoryInv == FilesOk /\ OpenAdds /\ UsedOk /\ UpdateKeepsFields /\ SeedOk /\ DemoOnce

LEMMA InitIds ==
  ASSUME Init
  PROVE  /\ DOMAIN db.holdings = used /\ used \subseteq HoldingIds
         /\ \A q \in DOMAIN db.portfolios : db.portfolios[q] # "Demo"
<1>1. CASE db = EmptyDb /\ used = {}
  BY <1>1 DEF EmptyDb
<1>2. ASSUME NEW p \in Portfolios, NEW h \in HoldingIds, NEW a \in Accounts, NEW blank \in BOOLEAN,
             db = [layout |-> 1, stamp |-> 1,
                   portfolios |-> [q \in {p} |-> "Own"], accounts |-> {a},
                   holdings |-> [id \in {h} |-> [portfolio |-> p, fields |-> NewFields,
                     account |-> IF blank THEN Blank ELSE a]]],
             used = {h}
      PROVE  /\ DOMAIN db.holdings = used /\ used \subseteq HoldingIds
             /\ \A q \in DOMAIN db.portfolios : db.portfolios[q] # "Demo"
  BY <1>2
<1> QED
  BY <1>1, <1>2 DEF Init

LEMMA HistoryInit == Init => HistoryInv
<1> SUFFICES ASSUME Init PROVE HistoryInv
  OBVIOUS
<1>1. FilesOk /\ OpenAdds
  BY NoneApart DEF Init, FilesOk, OpenAdds, DownJob, NoRows, Programs
<1>2. \A id \in DOMAIN db.holdings : last[id] = db.holdings[id].fields
  BY DEF Init
<1>3. DOMAIN last = DOMAIN db.holdings
  BY DEF Init
<1>4. /\ DOMAIN db.holdings = used /\ used \subseteq HoldingIds
      /\ \A q \in DOMAIN db.portfolios : db.portfolios[q] # "Demo"
  BY InitIds
<1>5. SeedOk
  BY DEF Init, SeedOk, IdleSeed
<1>6. DemoOnce
  BY <1>4 DEF DemoOnce
<1> QED
  BY <1>1, <1>2, <1>3, <1>4, <1>5, <1>6 DEF HistoryInv, UsedOk, UpdateKeepsFields

-------------------------------------------------------------------------------
(* Steps that leave the committed database alone.                            *)

\* p goes on without a file; a transaction of its own is given up.
LEMMA MovesOn ==
  ASSUME StoreInv, HistoryInv, NEW p \in Programs,
         job'[p].pc # "import", job'[p].file = <<>>, job'[p].left = {},
         \A q \in Programs \ {p} : job'[q] = job[q],
         UNCHANGED <<db, used, last, raced>>,
         \/ writer # p /\ UNCHANGED <<open, writer>>
         \/ writer' = None,
         SeedOk'
  PROVE  HistoryInv'
<1> USE DEF HistoryInv
<1>1. FilesOk'
  BY DEF FilesOk, Programs
<1>2. OpenAdds'
  BY NoneApart DEF OpenAdds, Adds, StoreInv, OpenOk
<1> QED
  BY <1>1, <1>2 DEF UsedOk, UpdateKeepsFields, DemoOnce

LEMMA GoesFacts ==
  ASSUME StoreInv, NEW p \in Programs, NEW pc, Goes(p, pc)
  PROVE  /\ job'[p].pc = pc /\ job'[p].file = <<>> /\ job'[p].left = {}
         /\ \A q \in Programs \ {p} : job'[q] = job[q]
  BY DEF StoreInv, JobsOk, Goes, DownJob, NoRows

LEMMA SeedKept ==
  ASSUME SeedOk, UNCHANGED seed,
         \A q \in DOMAIN db'.portfolios :
           db'.portfolios[q] = "Demo" => q \in DOMAIN db.portfolios /\ db.portfolios[q] = "Demo"
  PROVE  SeedOk'
  BY DEF SeedOk

LEMMA StartHistory ==
  ASSUME StoreInv, HistoryInv, NEW p \in Programs,
         \/ Start(p) \/ ReadVersion(p) \/ LookForPortfolio(p)
         \/ CreateTables(p) /\ db.layout # 0
  PROVE  HistoryInv'
<1>1. PICK pc \in Starting \cup Migrated : Goes(p, pc)
  BY DEF Start, CreateTables, ReadVersion, LookForPortfolio, Starting, Migrated
<1>2. writer # p /\ UNCHANGED <<db, open, writer, seed, used, last, raced>>
  BY DEF StoreInv, OpenOk, InTransaction, Start, CreateTables, ReadVersion, LookForPortfolio,
         historyVars
<1>3. pc # "import"
  BY DEF Starting, Migrated
<1>4. SeedOk'
  BY <1>2 DEF HistoryInv, SeedOk
<1> QED
  BY <1>1, <1>2, <1>3, <1>4, GoesFacts, MovesOn

LEMMA DiesHistory ==
  ASSUME StoreInv, HistoryInv, NEW p \in Programs, Dies(p)
  PROVE  HistoryInv'
<1>1. SeedOk'
  BY DEF HistoryInv, SeedOk, Dies
<1> QED
  BY <1>1, GoesFacts, MovesOn DEF Dies, historyVars

LEMMA FailImportHistory ==
  ASSUME StoreInv, HistoryInv, FailImport
  PROVE  HistoryInv'
<1>1. SeedOk' /\ Server \in Programs
  BY DEF HistoryInv, SeedOk, FailImport, Programs
<1> QED
  BY <1>1, GoesFacts, MovesOn DEF FailImport, historyVars

LEMMA UpdateTimesOutHistory ==
  ASSUME StoreInv, HistoryInv, NEW p \in Programs, UpdateTimesOut(p)
  PROVE  HistoryInv'
<1>1. writer # p /\ SeedOk'
  BY DEF HistoryInv, SeedOk, UpdateTimesOut, StoreInv, OpenOk, InTransaction
<1> QED
  BY <1>1, GoesFacts, MovesOn DEF UpdateTimesOut, historyVars

LEMMA BeginUpdateHistory ==
  ASSUME StoreInv, HistoryInv, NEW p \in Programs, BeginUpdate(p)
  PROVE  HistoryInv'
<1>1. job[p].pc = "ready" /\ UNCHANGED <<db, open, writer, seed, used, last, raced>>
  BY DEF BeginUpdate, Accepts, historyVars
<1>2. /\ job'[p].pc = "update" /\ job'[p].file = <<>> /\ job'[p].left = {}
      /\ \A q \in Programs \ {p} : job'[q] = job[q]
  BY DEF BeginUpdate, DownJob, NoRows, StoreInv, JobsOk
<1>3. writer # p /\ SeedOk'
  BY <1>1 DEF StoreInv, OpenOk, InTransaction, HistoryInv, SeedOk
<1> QED
  BY <1>1, <1>2, <1>3, MovesOn

-------------------------------------------------------------------------------
(* Steps of a start that write.                                              *)

LEMMA FilesKept ==
  ASSUME StoreInv, HistoryInv, UNCHANGED used,
         \/ UNCHANGED job
         \/ \E p \in Programs, pc \in Starting \cup Migrated \cup {"migrating"} : Goes(p, pc)
  PROVE  FilesOk'
<1>1. CASE UNCHANGED job
  BY <1>1 DEF HistoryInv, FilesOk
<1>2. ASSUME NEW p \in Programs, NEW pc \in Starting \cup Migrated \cup {"migrating"}, Goes(p, pc)
      PROVE  FilesOk'
  BY <1>2, GoesFacts DEF HistoryInv, FilesOk, Programs
<1> QED
  BY <1>1, <1>2

LEMMA Unlocked == ASSUME writer' = None PROVE OpenAdds'
  BY NoneApart DEF OpenAdds

LEMMA HoldingsKept ==
  ASSUME HistoryInv, UNCHANGED <<used, last, raced>>,
         DOMAIN db'.holdings \subseteq DOMAIN db.holdings,
         \A id \in DOMAIN db'.holdings : db'.holdings[id].fields = db.holdings[id].fields
  PROVE  UsedOk' /\ UpdateKeepsFields'
  BY DEF HistoryInv, UsedOk, UpdateKeepsFields

LEMMA PortfoliosKept ==
  ASSUME HistoryInv, UNCHANGED seed,
         DOMAIN db'.portfolios \subseteq DOMAIN db.portfolios,
         \A q \in DOMAIN db'.portfolios : db'.portfolios[q] = db.portfolios[q]
  PROVE  SeedOk' /\ DemoOnce'
  BY DEF HistoryInv, SeedOk, DemoOnce

LEMMA CreateTablesHistory ==
  ASSUME StoreInv, HistoryInv, NEW p \in Programs,
         (CreateTables(p) /\ db.layout = 0) \/ Stamp(p)
  PROVE  HistoryInv'
<1>1. db'.holdings = db.holdings /\ db'.portfolios = db.portfolios
  BY DEF CreateTables, Stamp, Commits, StoreInv, Good, Databases
<1>2. writer' = None /\ UNCHANGED <<seed, used, last, raced>>
  BY DEF CreateTables, Stamp, Commits, LockFree, historyVars
<1>3. FilesOk'
  BY <1>2, FilesKept DEF CreateTables, Stamp, Starting, Migrated
<1> QED
  BY <1>1, <1>2, <1>3, Unlocked, HoldingsKept, PortfoliosKept DEF HistoryInv

\* The migration changes accounts only.
LEMMA MigrateEntries ==
  ASSUME NEW base, Good(base)
  PROVE  LET next == MigrateAccounts(base)
         IN  /\ next.portfolios = base.portfolios
             /\ DOMAIN next.holdings = DOMAIN base.holdings
             /\ \A id \in DOMAIN base.holdings : SameEntry(next.holdings[id], base.holdings[id])
<1> DEFINE rows == [id \in DOMAIN base.holdings |-> NullBlank(base.holdings[id])]
<1>1. PICK D \in SUBSET HoldingIds : base.holdings \in [D -> Row]
  BY DEF Good, Databases, Tables
<1>2. \A id \in D : SameEntry(rows[id], base.holdings[id])
  BY <1>1 DEF Row, NullBlank, SameEntry
<1>3. MigrateAccounts(base) = [base EXCEPT !.layout = 2, !.holdings = rows]
  BY DEF MigrateAccounts
<1>4. DOMAIN rows = D /\ DOMAIN base.holdings = D
  BY <1>1
<1> HIDE DEF rows
<1>5. MigrateAccounts(base).portfolios = base.portfolios /\ MigrateAccounts(base).holdings = rows
  BY <1>3 DEF Good, Databases
<1> QED
  BY <1>2, <1>4, <1>5

LEMMA BeginMigrationHistory ==
  ASSUME StoreInv, HistoryInv, NEW p \in Programs, BeginMigration(p)
  PROVE  HistoryInv'
<1>1. UNCHANGED <<db, seed, used, last, raced>> /\ Goes(p, "migrating") /\ writer' = p
  BY DEF BeginMigration, historyVars
<1>2. FilesOk'
  BY <1>1, FilesKept
<1>3. job'[p].file = <<>> /\ job'[p].left = {}
  BY <1>1, GoesFacts
<1>4. Adds(p)'
  BY <1>1, <1>3, MigrateEntries DEF Adds, BeginMigration, StoreInv
<1>5. OpenAdds'
  BY <1>1, <1>4 DEF OpenAdds
<1> QED
  BY <1>1, <1>2, <1>5, HoldingsKept, PortfoliosKept DEF HistoryInv

LEMMA MigratingFacts ==
  ASSUME StoreInv, HistoryInv, NEW p \in Programs, CommitMigration(p)
  PROVE  /\ db'.portfolios = db.portfolios
         /\ DOMAIN db'.holdings = DOMAIN db.holdings
         /\ \A id \in DOMAIN db.holdings : SameEntry(db'.holdings[id], db.holdings[id])
<1>1. writer = p
  BY DEF StoreInv, OpenOk, InTransaction, CommitMigration
<1>2. job[p].file = <<>> /\ job[p].left = {} /\ db' = open
  BY DEF HistoryInv, FilesOk, CommitMigration
<1>3. DOMAIN job[p].file = {}
  BY <1>2
<1>4. Adds(p)
  BY <1>1 DEF HistoryInv, OpenAdds
<1> QED
  BY <1>2, <1>3, <1>4 DEF Adds

LEMMA CommitMigrationHistory ==
  ASSUME StoreInv, HistoryInv, NEW p \in Programs, CommitMigration(p)
  PROVE  HistoryInv'
<1>1. writer' = None /\ UNCHANGED <<seed, used, last, raced>>
  BY DEF CommitMigration, historyVars
<1>2. FilesOk'
  BY <1>1, FilesKept DEF CommitMigration, Starting, Migrated
<1> QED
  BY <1>1, <1>2, MigratingFacts, Unlocked, HoldingsKept, PortfoliosKept DEF HistoryInv, SameEntry

LEMMA PutPortfolioFacts ==
  ASSUME NEW base, Good(base), NEW p, NEW name
  PROVE  LET next == PutPortfolio(base, p, name)
         IN  /\ next.holdings = base.holdings
             /\ DOMAIN next.portfolios = DOMAIN base.portfolios \cup {p}
             /\ next.portfolios[p] = name
             /\ \A q \in DOMAIN base.portfolios \ {p} : next.portfolios[q] = base.portfolios[q]
<1> DEFINE names == Override(base.portfolios, [q \in {p} |-> name])
<1>1. PutPortfolio(base, p, name) = [base EXCEPT !.portfolios = names]
  BY DEF PutPortfolio
<1>2. /\ DOMAIN names = DOMAIN base.portfolios \cup {p}
      /\ names[p] = name
      /\ \A q \in DOMAIN base.portfolios \ {p} : names[q] = base.portfolios[q]
  BY DEF Override
<1> HIDE DEF names
<1> QED
  BY <1>1, <1>2 DEF Good, Databases

\* A portfolio that is not the demo, by a start or a request.
LEMMA NewPortfolioHistory ==
  ASSUME StoreInv, HistoryInv, NEW new \in Portfolios, NEW name \in {"Own", "Default"},
         Commits(PutPortfolio(db, new, name)), LockFree, FilesOk',
         UNCHANGED <<seed, used, last, raced>>
  PROVE  HistoryInv'
<1>1. /\ db'.holdings = db.holdings
      /\ DOMAIN db'.portfolios = DOMAIN db.portfolios \cup {new}
      /\ db'.portfolios[new] # "Demo"
      /\ \A q \in DOMAIN db.portfolios \ {new} : db'.portfolios[q] = db.portfolios[q]
  BY PutPortfolioFacts DEF Commits, StoreInv
<1>2. SeedOk' /\ DemoOnce'
  BY <1>1 DEF HistoryInv, SeedOk, DemoOnce
<1>3. writer' = None
  BY DEF Commits, LockFree
<1> QED
  BY <1>1, <1>2, <1>3, Unlocked, HoldingsKept DEF HistoryInv

LEMMA InsertDefaultHistory ==
  ASSUME StoreInv, HistoryInv, NEW p \in Programs, InsertDefault(p)
  PROVE  HistoryInv'
<1>1. PICK new \in Portfolios : Commits(PutPortfolio(db, new, "Default"))
  BY DEF InsertDefault
<1>2. FilesOk'
  BY FilesKept DEF InsertDefault, Starting, Migrated, historyVars
<1> QED
  BY <1>1, <1>2, NewPortfolioHistory DEF InsertDefault, historyVars

-------------------------------------------------------------------------------
(* Requests.                                                                 *)

LEMMA CreatePortfolioHistory ==
  ASSUME StoreInv, HistoryInv, CreatePortfolio
  PROVE  HistoryInv'
<1>1. PICK new \in Portfolios : Commits(PutPortfolio(db, new, "Own"))
  BY DEF CreatePortfolio
<1>2. LockFree /\ UNCHANGED <<job, seed, used, last, raced>>
  BY DEF CreatePortfolio, WritesAtOnce, historyVars
<1> QED
  BY <1>1, <1>2, FilesKept, NewPortfolioHistory

\* Holdings go, entries that stay are the same.
LEMMA DropHoldingsFacts ==
  ASSUME NEW base, Good(base), NEW ids
  PROVE  LET next == DropHoldings(base, ids)
         IN  /\ next.portfolios = base.portfolios
             /\ next.holdings = [id \in DOMAIN base.holdings \ ids |-> base.holdings[id]]
  BY DEF DropHoldings, Good, Databases

LEMMA DropPortfolioFacts ==
  ASSUME NEW base, Good(base), NEW p
  PROVE  LET next == DropPortfolio(base, p)
         IN  /\ next.portfolios = [q \in DOMAIN base.portfolios \ {p} |-> base.portfolios[q]]
             /\ next.holdings =
                  [id \in DOMAIN base.holdings \ HoldingsOf(base, p) |-> base.holdings[id]]
<1> DEFINE kept == DropHoldings(base, HoldingsOf(base, p))
           names == [q \in DOMAIN kept.portfolios \ {p} |-> kept.portfolios[q]]
<1>1. /\ Good(kept) /\ kept.portfolios = base.portfolios
      /\ kept.holdings = [id \in DOMAIN base.holdings \ HoldingsOf(base, p) |-> base.holdings[id]]
  BY DropHoldingsGood, DropHoldingsFacts
<1>2. DropPortfolio(base, p) = [kept EXCEPT !.portfolios = names]
  BY DEF DropPortfolio
<1> HIDE DEF kept
<1>3. DropPortfolio(base, p).portfolios = names /\ DropPortfolio(base, p).holdings = kept.holdings
  BY <1>1, <1>2 DEF Good, Databases
<1> QED
  BY <1>1, <1>3

LEMMA DeletePortfolioHistory ==
  ASSUME StoreInv, HistoryInv, DeletePortfolio
  PROVE  HistoryInv'
<1>1. PICK q \in DOMAIN db.portfolios : Commits(DropPortfolio(db, q))
  BY DEF DeletePortfolio
<1>2. LockFree /\ UNCHANGED <<job, seed, used, last, raced>>
  BY DEF DeletePortfolio, WritesAtOnce, historyVars
<1>3. writer' = None
  BY <1>1, <1>2 DEF LockFree, Commits
<1>4. /\ db'.portfolios = [r \in DOMAIN db.portfolios \ {q} |-> db.portfolios[r]]
      /\ db'.holdings = [id \in DOMAIN db.holdings \ HoldingsOf(db, q) |-> db.holdings[id]]
  BY <1>1, DropPortfolioFacts DEF Commits, StoreInv
<1> QED
  BY <1>2, <1>3, <1>4, FilesKept, Unlocked, HoldingsKept, PortfoliosKept DEF HistoryInv

LEMMA DeleteHoldingHistory ==
  ASSUME StoreInv, HistoryInv, NEW p \in Programs, DeleteHolding(p)
  PROVE  HistoryInv'
<1>1. PICK id \in DOMAIN db.holdings : Commits(DropHoldings(db, {id}))
  BY DEF DeleteHolding
<1>2. LockFree /\ UNCHANGED <<job, seed, used, last, raced>>
  BY DEF DeleteHolding, WritesAtOnce, historyVars
<1>3. writer' = None
  BY <1>1, <1>2 DEF LockFree, Commits
<1>4. /\ db'.portfolios = db.portfolios
      /\ db'.holdings = [i \in DOMAIN db.holdings \ {id} |-> db.holdings[i]]
  BY <1>1, DropHoldingsFacts DEF Commits, StoreInv
<1> QED
  BY <1>2, <1>3, <1>4, FilesKept, Unlocked, HoldingsKept, PortfoliosKept DEF HistoryInv

LEMMA CreateAccountHistory ==
  ASSUME StoreInv, HistoryInv, CreateAccount
  PROVE  HistoryInv'
<1>1. LockFree /\ UNCHANGED <<job, seed, used, last, raced>>
  BY DEF CreateAccount, WritesAtOnce, historyVars
<1>2. db'.portfolios = db.portfolios /\ db'.holdings = db.holdings /\ writer' = None
  BY <1>1 DEF CreateAccount, Commits, LockFree, StoreInv, Good, Databases
<1> QED
  BY <1>1, <1>2, FilesKept, Unlocked, HoldingsKept, PortfoliosKept DEF HistoryInv

LEMMA PutHoldingsFacts ==
  ASSUME NEW base, Good(base), NEW new
  PROVE  LET next == PutHoldings(base, new)
         IN  /\ next.portfolios = base.portfolios
             /\ DOMAIN next.holdings = DOMAIN base.holdings \cup DOMAIN new
             /\ \A id \in DOMAIN next.holdings :
                  next.holdings[id] = IF id \in DOMAIN new THEN new[id] ELSE base.holdings[id]
<1> DEFINE rows == Override(base.holdings, new)
<1>1. PutHoldings(base, new) = [base EXCEPT !.holdings = rows]
  BY DEF PutHoldings
<1>2. /\ DOMAIN rows = DOMAIN base.holdings \cup DOMAIN new
      /\ \A id \in DOMAIN rows : rows[id] = IF id \in DOMAIN new THEN new[id] ELSE base.holdings[id]
  BY DEF Override
<1> HIDE DEF rows
<1> QED
  BY <1>1, <1>2 DEF Good, Databases

\* Rows that are remembered as they are stored.
LEMMA RememberHistory ==
  ASSUME HistoryInv, NEW rows, DOMAIN rows \subseteq HoldingIds, Remember(rows),
         DOMAIN db'.holdings = DOMAIN db.holdings \cup DOMAIN rows,
         \A id \in DOMAIN db'.holdings :
           db'.holdings[id].fields =
             IF id \in DOMAIN rows THEN rows[id].fields ELSE db.holdings[id].fields
  PROVE  UsedOk' /\ UpdateKeepsFields'
<1>1. /\ DOMAIN last' = DOMAIN last \cup DOMAIN rows
      /\ \A id \in DOMAIN last' : last'[id] = IF id \in DOMAIN rows THEN rows[id].fields ELSE last[id]
  BY DEF Remember, Override
<1>2. used' = used \cup DOMAIN rows /\ UNCHANGED raced
  BY DEF Remember
<1> QED
  BY <1>1, <1>2 DEF HistoryInv, UsedOk, UpdateKeepsFields

LEMMA OneHoldingHistory ==
  ASSUME StoreInv, HistoryInv, UNCHANGED job, LockFree, NEW id \in Fresh, NEW row,
         Commits(PutHoldings(db, [i \in {id} |-> row])), Remember([i \in {id} |-> row]),
         SeedOk'
  PROVE  HistoryInv'
<1> DEFINE new == [i \in {id} |-> row]
<1>1. DOMAIN new = {id} /\ id \in HoldingIds \ (used \cup DOMAIN job[Server].file)
  BY DEF Fresh
<1> HIDE DEF new
<1>2. /\ db'.portfolios = db.portfolios
      /\ DOMAIN db'.holdings = DOMAIN db.holdings \cup DOMAIN new
      /\ \A i \in DOMAIN db'.holdings :
           db'.holdings[i] = IF i \in DOMAIN new THEN new[i] ELSE db.holdings[i]
  BY PutHoldingsFacts DEF Commits, StoreInv, new
<1>3. Remember(new)
  BY DEF new
<1>4. UsedOk' /\ UpdateKeepsFields'
  BY <1>1, <1>2, <1>3, RememberHistory
<1>5. FilesOk'
  BY <1>1, <1>3 DEF HistoryInv, FilesOk, Remember
<1>6. OpenAdds'
  BY Unlocked DEF Commits, LockFree
<1>7. DemoOnce'
  BY <1>2 DEF HistoryInv, DemoOnce
<1> QED
  BY <1>4, <1>5, <1>6, <1>7 DEF HistoryInv

LEMMA CreateHoldingHistory ==
  ASSUME StoreInv, HistoryInv, NEW p \in Programs, CreateHolding(p)
  PROVE  HistoryInv'
<1>1. PICK id \in Fresh, q \in DOMAIN db.portfolios, a \in db.accounts \cup {None} :
        LET new == [i \in {id} |-> [portfolio |-> q, account |-> a, fields |-> NewFields]]
        IN  Commits(PutHoldings(db, new)) /\ Remember(new)
  BY DEF CreateHolding
<1>2. UNCHANGED <<job, seed>> /\ LockFree
  BY DEF CreateHolding, WritesAtOnce
<1>3. SeedOk'
  BY <1>1, <1>2, PutHoldingsFacts DEF HistoryInv, SeedOk, Commits, StoreInv
<1> QED
  BY <1>1, <1>2, <1>3, OneHoldingHistory

\* What an update writes to the row, when it is still there.
LEMMA WriteBackFacts ==
  ASSUME StoreInv, NEW p \in Programs, WriteBack(p), job[p].id \in DOMAIN db.holdings
  PROVE  LET id == job[p].id
             fields == Override(job[p].row, job[p].changes)
         IN  /\ fields \in [Fields -> Amounts]
             /\ db'.portfolios = db.portfolios
             /\ db'.holdings = [db.holdings EXCEPT ![id].fields = fields]
             /\ DOMAIN db'.holdings = DOMAIN db.holdings
             /\ \A i \in DOMAIN db.holdings :
                  /\ db'.holdings[i].portfolio = db.holdings[i].portfolio
                  /\ db'.holdings[i].fields = IF i = id THEN fields ELSE db.holdings[i].fields
<1> DEFINE id == job[p].id
           fields == Override(job[p].row, job[p].changes)
<1>1. fields \in [Fields -> Amounts]
  <2>1. PICK named \in SUBSET Fields : job[p].changes \in [named -> Amounts]
    BY DEF StoreInv, JobsOk, Jobs, Tables
  <2>2. job[p].row \in [Fields -> Amounts]
    BY DEF StoreInv, JobsOk, WriteBack
  <2> QED
    BY <2>1, <2>2 DEF Override
<1>2. db' = [db EXCEPT !.holdings[id].fields = fields]
  BY DEF WriteBack, Commits
<1> HIDE DEF fields
<1>3. PICK D \in SUBSET HoldingIds : db.holdings \in [D -> Row]
  BY DEF StoreInv, Good, Databases, Tables
<1> DEFINE rows == [db.holdings EXCEPT ![id].fields = fields]
<1>4. /\ DOMAIN rows = DOMAIN db.holdings
      /\ \A i \in DOMAIN db.holdings :
           /\ rows[i].portfolio = db.holdings[i].portfolio
           /\ rows[i].fields = IF i = id THEN fields ELSE db.holdings[i].fields
  BY <1>3 DEF Row
<1>5. db'.holdings = rows /\ db'.portfolios = db.portfolios
  BY <1>2 DEF StoreInv, Good, Databases
<1> QED
  BY <1>1, <1>4, <1>5 DEF fields

LEMMA WriteBackHistory ==
  ASSUME StoreInv, HistoryInv, NEW p \in Programs, WriteBack(p)
  PROVE  HistoryInv'
<1> DEFINE id == job[p].id
           changes == job[p].changes
<1>1. UNCHANGED <<used, seed>> /\ Goes(p, "ready") /\ writer' = None /\ writer # p
  BY NoneApart DEF WriteBack, Commits, LockFree
<1>2. FilesOk' /\ OpenAdds'
  BY <1>1, FilesKept, Unlocked DEF Migrated
<1>3. CASE id \notin DOMAIN db.holdings
  <2>1. UNCHANGED <<db, last, raced>>
    BY <1>3 DEF WriteBack
  <2> QED
    BY <1>1, <1>2, <2>1, HoldingsKept, PortfoliosKept DEF HistoryInv
<1>4. CASE id \in DOMAIN db.holdings
  <2>1. /\ last' = [last EXCEPT ![id] = Override(last[id], changes)]
        /\ raced' = IF db.holdings[id].fields = job[p].row THEN raced ELSE raced \cup {id}
    BY <1>4 DEF WriteBack
  <2>2. /\ db'.portfolios = db.portfolios /\ DOMAIN db'.holdings = DOMAIN db.holdings
        /\ \A i \in DOMAIN db.holdings :
             db'.holdings[i].fields = IF i = id THEN Override(job[p].row, changes)
                                      ELSE db.holdings[i].fields
    BY <1>4, WriteBackFacts
  <2>3. UsedOk'
    BY <1>1, <2>1, <2>2 DEF HistoryInv, UsedOk
  <2>4. UpdateKeepsFields'
    <3> SUFFICES ASSUME NEW i \in DOMAIN db'.holdings, i \notin raced'
                 PROVE  db'.holdings[i].fields = last'[i]
      BY DEF UpdateKeepsFields
    <3>1. i \in DOMAIN db.holdings /\ i \in DOMAIN last /\ i \notin raced
      BY <2>1, <2>2 DEF HistoryInv, UsedOk
    <3>2. db.holdings[i].fields = last[i]
      BY <3>1 DEF HistoryInv, UpdateKeepsFields
    <3>3. CASE i = id
      <4>1. db.holdings[id].fields = job[p].row
        BY <2>1, <3>3
      <4> QED
        BY <2>1, <2>2, <3>1, <3>2, <3>3, <4>1
    <3>4. CASE i # id
      BY <2>1, <2>2, <3>1, <3>2, <3>4
    <3> QED
      BY <3>3, <3>4
  <2> QED
    BY <1>1, <1>2, <2>2, <2>3, <2>4, PortfoliosKept DEF HistoryInv
<1> QED
  BY <1>3, <1>4

-------------------------------------------------------------------------------
(* Imports.                                                                  *)

LEMMA BeginImportFacts ==
  ASSUME StoreInv, BeginImport
  PROVE  /\ job'[Server].pc = "import" /\ job'[Mcp] = job[Mcp]
         /\ job'[Server].left = DOMAIN job'[Server].file
         /\ DOMAIN job'[Server].file \cap used = {}
         /\ job'[Server].file \in Tables(HoldingIds, Row)
<1>1. PICK q \in Portfolios, a \in Accounts \cup {None}, ids \in SUBSET Fresh :
        /\ Cardinality(ids) = FileSize
        /\ job' = [job EXCEPT ![Server] = [DownJob EXCEPT !.pc = "import", !.left = ids,
             !.file = [id \in ids |-> [portfolio |-> q, account |-> a, fields |-> NewFields]]]]
  BY Zenon DEF BeginImport
<1> DEFINE row == [portfolio |-> q, account |-> a, fields |-> NewFields]
           file == [id \in ids |-> row]
<1>2. row \in Row /\ ids \in SUBSET HoldingIds /\ ids \cap used = {}
  BY StoreAssumption DEF Row, NewFields, Fresh
<1>3. file \in [ids -> Row]
  BY <1>2
<1>4. file \in Tables(HoldingIds, Row) /\ DOMAIN file = ids
  BY <1>2, <1>3 DEF Tables
<1>5. /\ job'[Server].pc = "import" /\ job'[Server].left = ids /\ job'[Server].file = file
      /\ job'[Mcp] = job[Mcp]
  BY <1>1 DEF StoreInv, JobsOk, DownJob, Programs, Server, Mcp
<1> QED
  BY <1>2, <1>4, <1>5

LEMMA BeginImportHistory ==
  ASSUME StoreInv, HistoryInv, BeginImport
  PROVE  HistoryInv'
<1>1. job[Server].pc = "ready" /\ UNCHANGED <<db, open, writer, seed, used, last, raced>>
  BY DEF BeginImport, Accepts, historyVars
<1>2. writer # Server
  BY <1>1 DEF StoreInv, OpenOk, InTransaction, Programs
<1>3. FilesOk'
  BY <1>1, BeginImportFacts DEF HistoryInv, FilesOk, Programs
<1>4. OpenAdds'
  BY <1>1, <1>2, BeginImportFacts DEF HistoryInv, OpenAdds, Adds, Programs
<1> QED
  BY <1>1, <1>3, <1>4, HoldingsKept, PortfoliosKept DEF HistoryInv

LEMMA InsertRowHistory ==
  ASSUME StoreInv, HistoryInv, InsertRow
  PROVE  HistoryInv'
<1>1. PICK id \in job[Server].left :
        /\ open' = PutHoldings(Copy, [i \in {id} |-> job[Server].file[id]])
        /\ writer' = Server
        /\ job' = [job EXCEPT ![Server].left = job[Server].left \ {id}]
  BY DEF InsertRow
<1> DEFINE file == job[Server].file
           left == job[Server].left
           new == [i \in {id} |-> file[id]]
<1>2. /\ job[Server].pc = "import" /\ Server \in Programs /\ left \subseteq DOMAIN file
      /\ UNCHANGED <<db, seed, used, last, raced>>
  BY DEF InsertRow, StoreInv, JobsOk, Programs, historyVars
<1>3. /\ job'[Server].pc = "import" /\ job'[Server].file = file /\ job'[Server].left = left \ {id}
      /\ \A q \in Programs \ {Server} : job'[q] = job[q]
  BY <1>1, <1>2 DEF StoreInv, JobsOk, Jobs
<1>4. FilesOk'
  BY <1>2, <1>3 DEF HistoryInv, FilesOk
<1>5. /\ Good(Copy) /\ Copy.portfolios = db.portfolios
      /\ DOMAIN Copy.holdings = DOMAIN db.holdings \cup (DOMAIN file \ left)
      /\ \A i \in DOMAIN Copy.holdings :
           SameEntry(Copy.holdings[i], IF i \in DOMAIN file THEN file[i] ELSE db.holdings[i])
  <2>1. CASE writer = Server
    BY <1>2, <2>1, NoneApart DEF Copy, HistoryInv, OpenAdds, Adds, StoreInv, OpenOk
  <2>2. CASE writer # Server
    <3>1. left = DOMAIN file
      BY <1>2, <2>2 DEF StoreInv, OpenOk, InTransaction
    <3>2. \A i \in DOMAIN db.holdings : i \notin DOMAIN file
      BY DEF HistoryInv, FilesOk, UsedOk
    <3> QED
      BY <2>2, <3>1, <3>2 DEF Copy, StoreInv, SameEntry
  <2> QED
    BY <2>1, <2>2
<1>6. DOMAIN new = {id} /\ new[id] = file[id]
  OBVIOUS
<1>7. open' = PutHoldings(Copy, new)
  BY <1>1
<1> HIDE DEF new
<1>8. /\ open'.portfolios = Copy.portfolios
      /\ DOMAIN open'.holdings = DOMAIN Copy.holdings \cup {id}
      /\ \A i \in DOMAIN open'.holdings :
           open'.holdings[i] = IF i = id THEN file[id] ELSE Copy.holdings[i]
  BY <1>5, <1>6, <1>7, PutHoldingsFacts
<1>9. Adds(Server)'
  BY <1>2, <1>3, <1>5, <1>8 DEF Adds, SameEntry
<1>10. OpenAdds'
  BY <1>1, <1>9 DEF OpenAdds
<1> QED
  BY <1>2, <1>4, <1>10, HoldingsKept, PortfoliosKept DEF HistoryInv

LEMMA CommitImportFacts ==
  ASSUME StoreInv, HistoryInv, CommitImport
  PROVE  LET file == job[Server].file
         IN  /\ db'.portfolios = db.portfolios
             /\ file \in Tables(HoldingIds, Row) /\ DOMAIN file \cap used = {}
             /\ DOMAIN db'.holdings = DOMAIN db.holdings \cup DOMAIN file
             /\ \A i \in DOMAIN db'.holdings :
                  SameEntry(db'.holdings[i], IF i \in DOMAIN file THEN file[i] ELSE db.holdings[i])
<1>1. Server \in Programs /\ job[Server].pc = "import" /\ job[Server].left = {} /\ db' = open
  BY DEF CommitImport, Programs
<1>2. writer = Server
  BY <1>1 DEF StoreInv, OpenOk, JobsOk, InTransaction
<1>3. Adds(Server)
  BY <1>1, <1>2 DEF HistoryInv, OpenAdds
<1>4. job[Server].file \in Tables(HoldingIds, Row) /\ DOMAIN job[Server].file \cap used = {}
  BY <1>1 DEF StoreInv, JobsOk, Jobs, HistoryInv, FilesOk
<1> QED
  BY <1>1, <1>3, <1>4 DEF Adds

LEMMA CommitImportHistory ==
  ASSUME StoreInv, HistoryInv, CommitImport
  PROVE  HistoryInv'
<1> DEFINE file == job[Server].file
<1>1. /\ Goes(Server, "ready") /\ Server \in Programs /\ writer' = None
      /\ Remember(file) /\ UNCHANGED seed
  BY DEF CommitImport, Programs
<1>2. FilesOk'
  BY <1>1, GoesFacts DEF HistoryInv, FilesOk, Programs
<1>3. DOMAIN file \subseteq HoldingIds
  BY CommitImportFacts DEF Tables
<1>4. UsedOk' /\ UpdateKeepsFields'
  BY <1>1, <1>3, CommitImportFacts, RememberHistory DEF SameEntry
<1>5. SeedOk' /\ DemoOnce'
  BY <1>1, CommitImportFacts, PortfoliosKept
<1> QED
  BY <1>1, <1>2, <1>4, <1>5, Unlocked DEF HistoryInv

-------------------------------------------------------------------------------
(* The seed.                                                                 *)

LEMMA SeedCreatesHistory ==
  ASSUME StoreInv, HistoryInv, SeedCreates
  PROVE  HistoryInv'
<1>1. PICK new \in Portfolios \ DOMAIN db.portfolios, answered \in BOOLEAN :
        /\ Commits(PutPortfolio(db, new, "Demo"))
        /\ seed' = IF answered THEN [seed EXCEPT !.pc = "post", !.portfolio = new] ELSE IdleSeed
  BY DEF SeedCreates
<1>2. UNCHANGED <<job, used, last, raced>> /\ writer' = None /\ seed.pc = "create"
  BY <1>1 DEF SeedCreates, SeedAsks, LockFree, Commits, historyVars
<1>3. /\ db'.holdings = db.holdings
      /\ DOMAIN db'.portfolios = DOMAIN db.portfolios \cup {new}
      /\ \A q \in DOMAIN db.portfolios \ {new} : db'.portfolios[q] = db.portfolios[q]
  BY <1>1, PutPortfolioFacts DEF Commits, StoreInv
<1>4. SeedOk'
  BY <1>1 DEF HistoryInv, SeedOk, IdleSeed
<1>5. DemoOnce'
  BY <1>1, <1>2, <1>3 DEF HistoryInv, SeedOk, DemoOnce
<1> QED
  BY <1>2, <1>3, <1>4, <1>5, FilesKept, Unlocked, HoldingsKept DEF HistoryInv

LEMMA SeedPostsHistory ==
  ASSUME StoreInv, HistoryInv, SeedPosts
  PROVE  HistoryInv'
<1>1. PICK id \in Fresh :
        LET new == [i \in {id} |-> [portfolio |-> seed.portfolio, account |-> None,
                                    fields |-> NewFields]]
        IN  Commits(PutHoldings(db, new)) /\ Remember(new)
  BY DEF SeedPosts
<1>2. UNCHANGED job /\ LockFree /\ seed.pc = "post"
  BY DEF SeedPosts, SeedAsks
<1>3. seed' = IdleSeed \/ seed' = [seed EXCEPT !.posted = seed.posted + 1]
  BY DEF SeedPosts
<1>4. SeedOk'
  BY <1>2, <1>3 DEF HistoryInv, SeedOk, IdleSeed
<1> QED
  BY <1>1, <1>2, <1>4, OneHoldingHistory

LEMMA SeedRestHistory ==
  ASSUME StoreInv, HistoryInv, SeedLists \/ SeedFails
  PROVE  HistoryInv'
<1>1. UNCHANGED <<db, open, writer, job, used, last, raced>>
  BY DEF SeedLists, SeedAsks, SeedFails, historyVars
<1>2. SeedOk'
  BY DEF SeedLists, SeedAsks, SeedFails, HistoryInv, SeedOk, IdleSeed
<1>3. FilesOk' /\ OpenAdds'
  BY <1>1 DEF HistoryInv, FilesOk, OpenAdds, Adds
<1> QED
  BY <1>1, <1>2, <1>3 DEF HistoryInv, UsedOk, UpdateKeepsFields, DemoOnce

-------------------------------------------------------------------------------
(* The theorems about states.                                                *)

LEMMA HistoryStep == StoreInv /\ HistoryInv /\ [Next]_storeVars => HistoryInv'
<1> SUFFICES ASSUME StoreInv, HistoryInv, [Next]_storeVars PROVE HistoryInv'
  OBVIOUS
<1>1. ASSUME NEW p \in Programs, Start(p) \/ StartStep(p) \/ Dies(p) PROVE HistoryInv'
  BY <1>1, StartHistory, CreateTablesHistory, BeginMigrationHistory, CommitMigrationHistory,
     InsertDefaultHistory, DiesHistory DEF StartStep
<1>2. ASSUME NEW p \in Programs, RequestStep(p) \/ WriteBack(p) \/ UpdateTimesOut(p) PROVE HistoryInv'
  BY <1>2, CreateHoldingHistory, DeleteHoldingHistory, BeginUpdateHistory, WriteBackHistory,
     UpdateTimesOutHistory DEF RequestStep
<1>3. ASSUME CreatePortfolio \/ DeletePortfolio \/ CreateAccount PROVE HistoryInv'
  BY <1>3, CreatePortfolioHistory, DeletePortfolioHistory, CreateAccountHistory
<1>4. ASSUME BeginImport \/ ImportStep PROVE HistoryInv'
  BY <1>4, BeginImportHistory, InsertRowHistory, CommitImportHistory, FailImportHistory DEF ImportStep
<1>5. ASSUME SeedLists \/ SeedCreates \/ SeedPosts \/ SeedFails PROVE HistoryInv'
  BY <1>5, SeedRestHistory, SeedCreatesHistory, SeedPostsHistory
<1>6. ASSUME UNCHANGED storeVars PROVE HistoryInv'
  <2>1. FilesOk' /\ OpenAdds' /\ UsedOk' /\ SeedOk'
    BY <1>6 DEF storeVars, HistoryInv, FilesOk, OpenAdds, Adds, UsedOk, SeedOk
  <2> QED
    BY <1>6, <2>1 DEF storeVars, HistoryInv, UpdateKeepsFields, DemoOnce
<1> QED
  BY <1>1, <1>2, <1>3, <1>4, <1>5, <1>6 DEF Next

\* The files of imports, the open transaction, the used ids and the seed's progress
\* stay in step with the database, whichever program moves or dies.
THEOREM HistoryHolds == Spec => []HistoryInv
  BY HistoryInit, HistoryStep, InvHolds, PTL DEF Spec

\* An update changes only the fields it names (PAETools.holdings_update writes all
\* columns back), unless the row had changed since it was read.
THEOREM FieldsKept == Spec => []UpdateKeepsFields
<1>1. HistoryInv => UpdateKeepsFields
  BY DEF HistoryInv
<1> QED
  BY <1>1, HistoryHolds, PTL

\* However often seed_analytics is stopped and run again there is one demo portfolio.
THEOREM DemoIsSeededOnce == Spec => []DemoOnce
<1>1. HistoryInv => DemoOnce
  BY DEF HistoryInv
<1> QED
  BY <1>1, HistoryHolds, PTL

-------------------------------------------------------------------------------
(* The refinement of HoldingsBook.                                           *)

LEMMA EntriesOf ==
  ASSUME NEW rows \in Tables(HoldingIds, Row)
  PROVE  Entries(rows) \in Book!Books
<1>1. PICK D \in SUBSET HoldingIds : rows \in [D -> Row]
  BY DEF Tables
<1>2. Entries(rows) \in [D -> Book!Entry]
  BY <1>1 DEF Entries, Row, Book!Entry
<1> QED
  BY <1>1, <1>2 DEF Book!Books

LEMMA NoEntries == Entries(<<>>) = <<>>
  BY DEF Entries

LEMMA BookInitOk == Init => Book!BookInit
<1> SUFFICES ASSUME Init PROVE Book!BookInit
  OBVIOUS
<1>1. db.holdings \in Tables(HoldingIds, Row)
  BY InitOk DEF StoreInv, Good, Databases
<1>2. DOMAIN db.holdings = used
  BY InitIds
<1>3. job[Server].file = <<>>
  BY DEF Init, DownJob, NoRows, Programs
<1> QED
  BY <1>1, <1>2, <1>3, EntriesOf, NoEntries DEF Book!BookInit, Entries

\* The entries, the ids and the files are as they were.
LEMMA BookStutters ==
  ASSUME UNCHANGED used, Entries(db'.holdings) = Entries(db.holdings),
         job'[Server].file = job[Server].file
  PROVE  UNCHANGED Book!bookVars
  BY DEF Book!bookVars

LEMMA SameEntries ==
  ASSUME NEW rows, NEW others, DOMAIN rows = DOMAIN others,
         \A id \in DOMAIN others : SameEntry(rows[id], others[id])
  PROVE  Entries(rows) = Entries(others)
  BY DEF Entries, SameEntry

\* Only an import has a file: other programs and requests leave what is pending.
LEMMA GoesPending ==
  ASSUME StoreInv, HistoryInv, NEW p \in Programs, NEW pc, Goes(p, pc), job[p].pc # "import"
  PROVE  job'[Server].file = job[Server].file
  BY GoesFacts DEF HistoryInv, FilesOk, Programs

LEMMA MovesStutter ==
  ASSUME StoreInv, HistoryInv, NEW p \in Programs,
         \/ Start(p) \/ CreateTables(p) \/ ReadVersion(p) \/ BeginMigration(p)
         \/ Stamp(p) \/ LookForPortfolio(p) \/ InsertDefault(p) \/ UpdateTimesOut(p)
  PROVE  UNCHANGED Book!bookVars
<1>1. UNCHANGED used
  BY DEF Start, CreateTables, ReadVersion, BeginMigration, Stamp, LookForPortfolio,
         InsertDefault, UpdateTimesOut, historyVars
<1>2. job'[Server].file = job[Server].file
  BY GoesPending DEF Start, CreateTables, ReadVersion, BeginMigration, Stamp, LookForPortfolio,
         InsertDefault, UpdateTimesOut
<1>3. db'.holdings = db.holdings
  <2>1. CASE CreateTables(p) \/ Stamp(p)
    BY <2>1 DEF CreateTables, Stamp, Commits, StoreInv, Good, Databases
  <2>2. CASE InsertDefault(p)
    BY <2>2, PutPortfolioFacts DEF InsertDefault, Commits, StoreInv
  <2> QED
    BY <2>1, <2>2 DEF Start, ReadVersion, BeginMigration, LookForPortfolio, UpdateTimesOut
<1> QED
  BY <1>1, <1>2, <1>3, BookStutters

LEMMA CommitMigrationStutters ==
  ASSUME StoreInv, HistoryInv, NEW p \in Programs, CommitMigration(p)
  PROVE  UNCHANGED Book!bookVars
<1>1. Entries(db'.holdings) = Entries(db.holdings)
  BY MigratingFacts, SameEntries
<1>2. UNCHANGED used /\ job'[Server].file = job[Server].file
  BY GoesPending DEF CommitMigration, historyVars
<1> QED
  BY <1>1, <1>2, BookStutters

LEMMA BeginUpdateStutters ==
  ASSUME StoreInv, HistoryInv, NEW p \in Programs, BeginUpdate(p)
  PROVE  UNCHANGED Book!bookVars
<1>1. job[p].pc = "ready" /\ UNCHANGED <<db, used>>
  BY DEF BeginUpdate, Accepts, historyVars
<1>2. /\ job'[p].file = <<>>
      /\ \A q \in Programs \ {p} : job'[q] = job[q]
  BY DEF BeginUpdate, DownJob, NoRows, StoreInv, JobsOk
<1>3. job'[Server].file = job[Server].file
  BY <1>1, <1>2 DEF HistoryInv, FilesOk, Programs
<1> QED
  BY <1>1, <1>3, BookStutters

\* Requests that leave holdings alone, and the rows of an import before its end.
LEMMA OthersStutter ==
  ASSUME StoreInv, HistoryInv,
         \/ CreatePortfolio \/ CreateAccount \/ InsertRow
         \/ SeedLists \/ SeedCreates \/ SeedFails \/ UNCHANGED storeVars
  PROVE  UNCHANGED Book!bookVars
<1>1. UNCHANGED used
  BY DEF CreatePortfolio, CreateAccount, InsertRow, SeedLists, SeedCreates, SeedFails,
         storeVars, historyVars
<1>2. job'[Server].file = job[Server].file
  <2>1. CASE InsertRow
    <3>1. PICK id : job' = [job EXCEPT ![Server].left = job[Server].left \ {id}]
      BY <2>1 DEF InsertRow
    <3>2. job \in [Programs -> Jobs] /\ Server \in Programs
      BY DEF StoreInv, JobsOk, Programs
    <3> QED
      BY <3>1, <3>2 DEF Jobs
  <2> QED
    BY <2>1 DEF CreatePortfolio, CreateAccount, SeedLists, SeedCreates, SeedFails, SeedAsks,
                WritesAtOnce, storeVars
<1>3. db'.holdings = db.holdings
  <2>1. CASE CreatePortfolio \/ SeedCreates
    <3>1. PICK new, name : Commits(PutPortfolio(db, new, name))
      BY <2>1 DEF CreatePortfolio, SeedCreates
    <3> QED
      BY <3>1, PutPortfolioFacts DEF Commits, StoreInv
  <2>2. CASE CreateAccount
    BY <2>2 DEF CreateAccount, Commits, StoreInv, Good, Databases
  <2> QED
    BY <2>1, <2>2 DEF InsertRow, SeedLists, SeedFails, storeVars
<1> QED
  BY <1>1, <1>2, <1>3, BookStutters

\* A holding that is stored by itself, or all those of an import.
LEMMA Stores ==
  ASSUME NEW rows, DOMAIN rows \cap used = {}, used' = used \cup DOMAIN rows,
         DOMAIN db'.holdings = DOMAIN db.holdings \cup DOMAIN rows,
         \A i \in DOMAIN db'.holdings :
           SameEntry(db'.holdings[i], IF i \in DOMAIN rows THEN rows[i] ELSE db.holdings[i])
  PROVE  Book!Store(Entries(rows))
<1> DEFINE new == Entries(rows)
           book == Entries(db.holdings)
           next == [id \in DOMAIN book \cup DOMAIN new |->
                      IF id \in DOMAIN new THEN new[id] ELSE book[id]]
<1>1. /\ DOMAIN new = DOMAIN rows /\ DOMAIN book = DOMAIN db.holdings
      /\ \A i \in DOMAIN rows : new[i] = [portfolio |-> rows[i].portfolio, fields |-> rows[i].fields]
      /\ \A i \in DOMAIN db.holdings :
           book[i] = [portfolio |-> db.holdings[i].portfolio, fields |-> db.holdings[i].fields]
  BY DEF Entries
<1>2. Entries(db'.holdings) = next
  <2> HIDE DEF new, book
  <2>1. Entries(db'.holdings) =
          [i \in DOMAIN db'.holdings |->
             [portfolio |-> db'.holdings[i].portfolio, fields |-> db'.holdings[i].fields]]
    BY DEF Entries
  <2>2. \A i \in DOMAIN db'.holdings :
          [portfolio |-> db'.holdings[i].portfolio, fields |-> db'.holdings[i].fields] =
            IF i \in DOMAIN new THEN new[i] ELSE book[i]
    BY <1>1 DEF SameEntry
  <2>3. DOMAIN db'.holdings = DOMAIN book \cup DOMAIN new
    BY <1>1
  <2> QED
    BY <2>1, <2>2, <2>3
<1> HIDE DEF next
<1>3. DOMAIN new \cap used = {} /\ used' = used \cup DOMAIN new
  BY <1>1
<1> HIDE DEF new, book
<1> QED
  BY <1>2, <1>3 DEF Book!Store, next, new, book

LEMMA OneHoldingAdds ==
  ASSUME StoreInv, HistoryInv, UNCHANGED job, NEW id \in Fresh, NEW q \in Portfolios, NEW a,
         LET new == [i \in {id} |-> [portfolio |-> q, account |-> a, fields |-> NewFields]]
         IN  Commits(PutHoldings(db, new)) /\ Remember(new)
  PROVE  Book!Add
<1> DEFINE row == [portfolio |-> q, account |-> a, fields |-> NewFields]
           e == [portfolio |-> q, fields |-> NewFields]
           new == [i \in {id} |-> row]
<1>1. id \in HoldingIds \ used /\ DOMAIN new = {id} /\ new[id] = row
  BY DEF Fresh
<1>2. e \in Book!Entry
  BY StoreAssumption DEF Book!Entry, NewFields
<1>3. Entries(new) = [i \in {id} |-> e]
  BY DEF Entries
<1>4. Commits(PutHoldings(db, new)) /\ Remember(new)
  OBVIOUS
<1> HIDE DEF new
<1>5. /\ DOMAIN db'.holdings = DOMAIN db.holdings \cup DOMAIN new
      /\ \A i \in DOMAIN db'.holdings :
           SameEntry(db'.holdings[i], IF i \in DOMAIN new THEN new[i] ELSE db.holdings[i])
  <2>1. Good(db) /\ db' = PutHoldings(db, new)
    BY <1>4 DEF Commits, StoreInv
  <2>2. /\ DOMAIN db'.holdings = DOMAIN db.holdings \cup DOMAIN new
        /\ \A i \in DOMAIN db'.holdings :
             db'.holdings[i] = IF i \in DOMAIN new THEN new[i] ELSE db.holdings[i]
    BY <2>1, PutHoldingsFacts
  <2> QED
    BY <2>2 DEF SameEntry
<1>6. Book!Store(Entries(new))
  BY <1>1, <1>4, <1>5, Stores DEF Remember
<1> HIDE DEF e
<1> QED
  BY <1>1, <1>2, <1>3, <1>6 DEF Book!Add

LEMMA CreateHoldingAdds ==
  ASSUME StoreInv, HistoryInv, NEW p \in Programs, CreateHolding(p)
  PROVE  Book!Add
<1>1. PICK id \in Fresh, q \in DOMAIN db.portfolios, a \in db.accounts \cup {None} :
        LET new == [i \in {id} |-> [portfolio |-> q, account |-> a, fields |-> NewFields]]
        IN  Commits(PutHoldings(db, new)) /\ Remember(new)
  BY DEF CreateHolding
<1>2. UNCHANGED job /\ q \in Portfolios
  BY DEF CreateHolding, WritesAtOnce, StoreInv, Good, Databases, Tables
<1> QED
  BY <1>1, <1>2, OneHoldingAdds

LEMMA SeedPostsAdds ==
  ASSUME StoreInv, HistoryInv, SeedPosts
  PROVE  Book!Add
<1>1. PICK id \in Fresh :
        LET new == [i \in {id} |-> [portfolio |-> seed.portfolio, account |-> None,
                                    fields |-> NewFields]]
        IN  Commits(PutHoldings(db, new)) /\ Remember(new)
  BY DEF SeedPosts
<1>2. UNCHANGED job /\ seed.portfolio \in Portfolios
  BY DEF SeedPosts, SeedAsks, StoreInv, Good, Databases, Tables
<1> QED
  BY <1>1, <1>2, OneHoldingAdds

LEMMA WriteBackChanges ==
  ASSUME StoreInv, HistoryInv, NEW p \in Programs, WriteBack(p)
  PROVE  Book!Change \/ UNCHANGED Book!bookVars
<1> DEFINE id == job[p].id
           fields == Override(job[p].row, job[p].changes)
<1>1. UNCHANGED used /\ job'[Server].file = job[Server].file
  BY GoesPending DEF WriteBack
<1>2. CASE id \notin DOMAIN db.holdings
  BY <1>1, <1>2, BookStutters DEF WriteBack
<1>3. CASE id \in DOMAIN db.holdings
  <2>1. /\ fields \in [Fields -> Amounts]
        /\ DOMAIN db'.holdings = DOMAIN db.holdings
        /\ \A i \in DOMAIN db.holdings :
             /\ db'.holdings[i].portfolio = db.holdings[i].portfolio
             /\ db'.holdings[i].fields = IF i = id THEN fields ELSE db.holdings[i].fields
    BY <1>3, WriteBackFacts
  <2> HIDE DEF fields
  <2>2. Entries(db'.holdings) = [Entries(db.holdings) EXCEPT ![id].fields = fields]
    BY <2>1 DEF Entries
  <2>3. id \in DOMAIN Entries(db.holdings)
    BY <1>3 DEF Entries
  <2> QED
    BY <1>1, <2>1, <2>2, <2>3 DEF Book!Change
<1> QED
  BY <1>2, <1>3

LEMMA DeletesRemove ==
  ASSUME StoreInv, HistoryInv,
         DeletePortfolio \/ \E p \in Programs : DeleteHolding(p)
  PROVE  Book!Remove
<1>1. UNCHANGED <<used, job>>
  BY DEF DeletePortfolio, DeleteHolding, WritesAtOnce, historyVars
<1>2. ASSUME NEW ids, db'.holdings = [i \in DOMAIN db.holdings \ ids |-> db.holdings[i]]
      PROVE  Entries(db'.holdings) = Book!Without(ids)
  BY <1>2 DEF Entries, Book!Without
<1>3. CASE DeletePortfolio
  <2>1. PICK q \in DOMAIN db.portfolios : Commits(DropPortfolio(db, q))
    BY <1>3 DEF DeletePortfolio
  <2>2. q \in Portfolios
    BY DEF StoreInv, Good, Databases, Tables
  <2>3. db'.holdings = [i \in DOMAIN db.holdings \ HoldingsOf(db, q) |-> db.holdings[i]]
    BY <2>1, DropPortfolioFacts DEF Commits, StoreInv
  <2>4. HoldingsOf(db, q) =
          {id \in DOMAIN Entries(db.holdings) : Entries(db.holdings)[id].portfolio = q}
    BY DEF HoldingsOf, Entries
  <2>5. Entries(db'.holdings) = Book!Without(HoldingsOf(db, q))
    BY <1>2, <2>3
  <2> QED
    BY <1>1, <2>2, <2>4, <2>5 DEF Book!Remove
<1>4. CASE \E p \in Programs : DeleteHolding(p)
  <2>1. PICK id \in DOMAIN db.holdings : Commits(DropHoldings(db, {id}))
    BY <1>4 DEF DeleteHolding
  <2>2. db'.holdings = [i \in DOMAIN db.holdings \ {id} |-> db.holdings[i]]
    BY <2>1, DropHoldingsFacts DEF Commits, StoreInv
  <2>3. id \in DOMAIN Entries(db.holdings) /\ Entries(db'.holdings) = Book!Without({id})
    BY <1>2, <2>2 DEF Entries
  <2> QED
    BY <1>1, <2>3 DEF Book!Remove
<1> QED
  BY <1>3, <1>4

LEMMA BeginImportSubmits ==
  ASSUME StoreInv, BeginImport
  PROVE  Book!Submit(Server)
<1>1. UNCHANGED <<db, used>>
  BY DEF BeginImport, historyVars
<1>2. Entries(job'[Server].file) \in Book!Books
  BY BeginImportFacts, EntriesOf
<1> QED
  BY <1>1, <1>2 DEF Book!Submit

LEMMA CommitImportImports ==
  ASSUME StoreInv, HistoryInv, CommitImport
  PROVE  Book!Import(Server)
<1>1. Goes(Server, "ready") /\ Server \in Programs /\ Remember(job[Server].file)
  BY DEF CommitImport, Programs
<1>2. Book!Store(Entries(job[Server].file))
  BY <1>1, CommitImportFacts, Stores DEF Remember
<1>3. Entries(job'[Server].file) = <<>>
  BY <1>1, GoesFacts, NoEntries
<1> QED
  BY <1>2, <1>3 DEF Book!Import

\* An import that fails or dies drops its file; other deaths have none.
LEMMA EndsDrop ==
  ASSUME StoreInv, HistoryInv, FailImport \/ \E p \in Programs : Dies(p)
  PROVE  Book!Drop(Server) \/ UNCHANGED Book!bookVars
<1>1. UNCHANGED <<db, used>>
  BY DEF FailImport, Dies, historyVars
<1>2. CASE \E pc : Goes(Server, pc)
  <2>1. Entries(job'[Server].file) = <<>>
    BY <1>2, GoesFacts, NoEntries DEF Programs
  <2> QED
    BY <1>1, <2>1 DEF Book!Drop
<1>3. CASE \E pc : Goes(Mcp, pc)
  <2>1. job'[Server].file = job[Server].file
    BY <1>3, GoesFacts DEF Programs, Server, Mcp
  <2> QED
    BY <1>1, <2>1, BookStutters
<1> QED
  BY <1>2, <1>3 DEF FailImport, Dies, Programs

LEMMA BookStep == StoreInv /\ HistoryInv /\ [Next]_storeVars => [Book!BookNext]_(Book!bookVars)
<1> SUFFICES ASSUME StoreInv, HistoryInv, [Next]_storeVars PROVE [Book!BookNext]_(Book!bookVars)
  OBVIOUS
<1> USE DEF Book!BookNext
<1>1. ASSUME NEW p \in Programs, Start(p) \/ StartStep(p) PROVE UNCHANGED Book!bookVars
  BY <1>1, MovesStutter, CommitMigrationStutters DEF StartStep
<1>2. ASSUME NEW p \in Programs, RequestStep(p) \/ WriteBack(p) \/ UpdateTimesOut(p)
      PROVE  [Book!BookNext]_(Book!bookVars)
  BY <1>2, CreateHoldingAdds, DeletesRemove, BeginUpdateStutters, WriteBackChanges, MovesStutter
     DEF RequestStep
<1>3. ASSUME CreatePortfolio \/ DeletePortfolio \/ CreateAccount \/ UNCHANGED storeVars
      PROVE  [Book!BookNext]_(Book!bookVars)
  BY <1>3, OthersStutter, DeletesRemove
<1>4. ASSUME BeginImport \/ ImportStep \/ \E p \in Programs : Dies(p)
      PROVE  [Book!BookNext]_(Book!bookVars)
  BY <1>4, BeginImportSubmits, OthersStutter, CommitImportImports, EndsDrop DEF ImportStep
<1>5. ASSUME SeedLists \/ SeedCreates \/ SeedPosts \/ SeedFails
      PROVE  [Book!BookNext]_(Book!bookVars)
  BY <1>5, OthersStutter, SeedPostsAdds
<1> QED
  BY <1>1, <1>2, <1>3, <1>4, <1>5 DEF Next

\* Every step of the two programs, their deaths included, is one whole operation on
\* the book of holdings or none: an import is stored whole or not at all
\* (PAEDatabase._transaction), and no migration or crash loses or revives a holding.
THEOREM StoreIsBook == Spec => ImplementsBook
  BY BookInitOk, BookStep, InvHolds, HistoryHolds, PTL DEF Spec, ImplementsBook, Book!BookSpec
===============================================================================
