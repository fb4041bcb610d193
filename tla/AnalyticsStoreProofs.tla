------------------------- MODULE AnalyticsStoreProofs -------------------------
(***************************************************************************)
(* Machine-checked facts about AnalyticsStore, for any set of portfolios,  *)
(* accounts, holdings and values, any size of files and any number of      *)
(* requests and of deaths of the two programs.                             *)
(***************************************************************************)
EXTENDS AnalyticsStore, FiniteSetTheorems, TLAPS

-------------------------------------------------------------------------------
(* The inductive invariant.                                                  *)

\* A row of a committed or working copy has its portfolio, and its account or,
\* in schema 1, the empty one.
Consistent(base) ==
  \A id \in DOMAIN base.holdings :
    /\ base.holdings[id].portfolio \in DOMAIN base.portfolios
    /\ \/ base.holdings[id].account \in base.accounts \cup {None}
       \/ base.layout = 1 /\ base.holdings[id].account = Blank

Good(base) == base \in Databases /\ Consistent(base)

\* No stamp means no tables or those of schema 2; the stamp of schema 2 means its tables.
StampOk(base) ==
  /\ base.stamp = 2 => base.layout = 2
  /\ base.stamp = 0 => base.layout # 1

\* Where a program is; those who migrated or found nothing to migrate are past
\* the schema 1 for good.
Starting == {"down", "tables", "version", "migrate"}
Migrated == {"stamp", "check", "default", "ready"}
Working == {"migrating", "import", "update"}

Jobs ==
  [pc : Starting \cup Migrated \cup Working, id : HoldingIds \cup {None},
   row : [Fields -> Amounts] \cup {None}, changes : Tables(Fields, Amounts),
   file : Tables(HoldingIds, Row), left : SUBSET HoldingIds]

JobsOk ==
  /\ job \in [Programs -> Jobs]
  /\ \A p \in Programs :
       /\ job[p].pc = "version" => db.layout # 0
       /\ job[p].pc \in Migrated \cup {"import", "update"} => db.layout = 2
       /\ job[p].pc = "update" => job[p].row \in [Fields -> Amounts]
       /\ job[p].pc = "import" =>
            p = Server /\ DOMAIN job[p].file # {} /\ job[p].left \subseteq DOMAIN job[p].file

InTransaction(p) ==
  \/ job[p].pc = "migrating"
  \/ job[p].pc = "import" /\ job[p].left # DOMAIN job[p].file

\* What is open belongs to the holder of the lock, and is a database of schema 2.
OpenOk ==
  /\ writer \in Programs \cup {None}
  /\ writer = None => open = None
  /\ writer # None => Good(open) /\ open.layout = 2
  /\ \A p \in Programs : writer = p <=> InTransaction(p)

StoreInv == Good(db) /\ StampOk(db) /\ JobsOk /\ OpenOk

LEMMA EmptyTable == ASSUME NEW I, NEW S PROVE <<>> \in Tables(I, S)
<1>1. <<>> \in [{} -> S]
  OBVIOUS
<1> QED
  BY <1>1 DEF Tables

LEMMA OneRow ==
  ASSUME NEW I, NEW S, NEW i \in I, NEW s \in S
  PROVE  [x \in {i} |-> s] \in Tables(I, S)
<1>1. [x \in {i} |-> s] \in [{i} -> S] /\ {i} \in SUBSET I
  OBVIOUS
<1> QED
  BY <1>1 DEF Tables

LEMMA NoneApart == None \notin Programs /\ None \notin Databases /\ Blank \notin Accounts
  BY StoreAssumption, NoDatabase

\* A step that leaves the transactions of others alone, possibly gives up or
\* commits one's own, and goes on to a point outside of transactions.
LEMMA GoesOn ==
  ASSUME StoreInv, NEW p \in Programs, NEW pc \in Starting \cup Migrated, Goes(p, pc),
         Good(db)', StampOk(db)', db'.layout \in {db.layout, 2},
         pc = "version" => db'.layout # 0, pc \in Migrated => db'.layout = 2,
         \/ writer # p /\ UNCHANGED <<open, writer>>
         \/ writer = p /\ open' = None /\ writer' = None
  PROVE  StoreInv'
<1> USE DEF Starting, Migrated, Working
<1>1. /\ job' \in [Programs -> Jobs]
      /\ job'[p].pc = pc
      /\ \A q \in Programs \ {p} : job'[q] = job[q]
  BY EmptyTable DEF StoreInv, JobsOk, Jobs, Goes, DownJob, NoRows
<1>2. JobsOk'
  BY <1>1 DEF StoreInv, JobsOk
<1>3. ~InTransaction(p)' /\ \A q \in Programs \ {p} : InTransaction(q)' <=> InTransaction(q)
  BY <1>1 DEF InTransaction
<1>4. OpenOk'
  BY <1>3, NoneApart DEF StoreInv, OpenOk, Good, Consistent
<1> QED
  BY <1>2, <1>4 DEF StoreInv

\* A statement that is its own transaction.
LEMMA WritesOnce ==
  ASSUME StoreInv, UNCHANGED <<job, open, writer>>,
         Good(db)', StampOk(db)', db'.layout = db.layout
  PROVE  StoreInv'
<1>1. JobsOk'
  BY DEF StoreInv, JobsOk
<1>2. OpenOk'
  BY DEF StoreInv, OpenOk, InTransaction, Good, Consistent
<1> QED
  BY <1>1, <1>2 DEF StoreInv

LEMMA Waits == ASSUME StoreInv, UNCHANGED <<db, job, open, writer>> PROVE StoreInv'
  BY WritesOnce DEF StoreInv, Good, Consistent, StampOk

-------------------------------------------------------------------------------
(* What the statements do to a database.                                     *)

LEMMA PutHoldingsGood ==
  ASSUME NEW base, Good(base), NEW new \in Tables(HoldingIds, Row),
         \A id \in DOMAIN new : References(base, new[id])
  PROVE  LET next == PutHoldings(base, new)
         IN  Good(next) /\ next.layout = base.layout /\ next.stamp = base.stamp
<1> DEFINE rows == Override(base.holdings, new)
<1>1. PICK D \in SUBSET HoldingIds : base.holdings \in [D -> Row]
  BY DEF Good, Databases, Tables
<1>2. PICK E \in SUBSET HoldingIds : new \in [E -> Row]
  BY DEF Tables
<1>3. rows \in [D \cup E -> Row]
  BY <1>1, <1>2 DEF Override
<1>4. rows \in Tables(HoldingIds, Row)
  BY <1>3 DEF Tables
<1>5. PutHoldings(base, new) = [base EXCEPT !.holdings = rows]
  BY DEF PutHoldings
<1>6. PutHoldings(base, new) \in Databases
  BY <1>4, <1>5 DEF Good, Databases
<1>7. \A id \in D \cup E : rows[id] = IF id \in E THEN new[id] ELSE base.holdings[id]
  BY <1>1, <1>2 DEF Override
<1>8. Consistent(PutHoldings(base, new))
  <2> HIDE DEF rows
  <2> QED
    BY <1>1, <1>2, <1>3, <1>5, <1>7 DEF Good, Consistent, References, Databases
<1> QED
  BY <1>5, <1>6, <1>8 DEF Good, Databases

LEMMA DropHoldingsGood ==
  ASSUME NEW base, Good(base), NEW ids
  PROVE  LET next == DropHoldings(base, ids)
         IN  /\ Good(next) /\ next.layout = base.layout /\ next.stamp = base.stamp
             /\ next.portfolios = base.portfolios
             /\ DOMAIN next.holdings = DOMAIN base.holdings \ ids
             /\ \A id \in DOMAIN next.holdings : next.holdings[id] = base.holdings[id]
<1> DEFINE rows == [id \in DOMAIN base.holdings \ ids |-> base.holdings[id]]
<1>1. PICK D \in SUBSET HoldingIds : base.holdings \in [D -> Row]
  BY DEF Good, Databases, Tables
<1>2. rows \in [D \ ids -> Row]
  BY <1>1
<1>3. rows \in Tables(HoldingIds, Row)
  BY <1>2 DEF Tables
<1>4. DropHoldings(base, ids) = [base EXCEPT !.holdings = rows]
  BY DEF DropHoldings
<1>5. DropHoldings(base, ids) \in Databases
  BY <1>3, <1>4 DEF Good, Databases
<1>6. Consistent(DropHoldings(base, ids))
  BY <1>1, <1>4 DEF Good, Consistent, Databases
<1> QED
  BY <1>1, <1>4, <1>5, <1>6 DEF Good, Databases

LEMMA DropPortfolioGood ==
  ASSUME NEW base, Good(base), NEW p
  PROVE  LET next == DropPortfolio(base, p)
         IN  Good(next) /\ next.layout = base.layout /\ next.stamp = base.stamp
<1> DEFINE kept == DropHoldings(base, HoldingsOf(base, p))
           names == [q \in DOMAIN kept.portfolios \ {p} |-> kept.portfolios[q]]
<1>1. /\ Good(kept) /\ kept.layout = base.layout /\ kept.stamp = base.stamp
      /\ kept.portfolios = base.portfolios
      /\ DOMAIN kept.holdings = DOMAIN base.holdings \ HoldingsOf(base, p)
      /\ \A id \in DOMAIN kept.holdings : kept.holdings[id] = base.holdings[id]
  BY DropHoldingsGood
<1>2. DropPortfolio(base, p) = [kept EXCEPT !.portfolios = names]
  BY DEF DropPortfolio
<1>3. \A id \in DOMAIN kept.holdings : kept.holdings[id].portfolio # p
  BY <1>1 DEF HoldingsOf
<1> HIDE DEF kept
<1>4. names \in Tables(Portfolios, Names)
  <2>1. PICK D \in SUBSET Portfolios : kept.portfolios \in [D -> Names]
    BY <1>1 DEF Good, Databases, Tables
  <2>2. names \in [D \ {p} -> Names]
    BY <2>1
  <2> QED
    BY <2>2 DEF Tables
<1>5. DOMAIN names = DOMAIN kept.portfolios \ {p}
  OBVIOUS
<1> HIDE DEF names
<1>6. DropPortfolio(base, p) \in Databases
  BY <1>1, <1>2, <1>4 DEF Good, Databases
<1>7. Consistent(DropPortfolio(base, p))
  BY <1>1, <1>2, <1>3, <1>5 DEF Good, Consistent, Databases
<1> QED
  BY <1>1, <1>2, <1>6, <1>7 DEF Good, Databases

LEMMA PutPortfolioGood ==
  ASSUME NEW base, Good(base), NEW p \in Portfolios, NEW name \in Names
  PROVE  LET next == PutPortfolio(base, p, name)
         IN  Good(next) /\ next.layout = base.layout /\ next.stamp = base.stamp
<1> DEFINE names == Override(base.portfolios, [q \in {p} |-> name])
<1>1. PICK D \in SUBSET Portfolios : base.portfolios \in [D -> Names]
  BY DEF Good, Databases, Tables
<1>2. names \in [D \cup {p} -> Names]
  BY <1>1 DEF Override
<1>3. names \in Tables(Portfolios, Names)
  BY <1>2 DEF Tables
<1>4. PutPortfolio(base, p, name) = [base EXCEPT !.portfolios = names]
  BY DEF PutPortfolio
<1>5. PutPortfolio(base, p, name) \in Databases
  BY <1>3, <1>4 DEF Good, Databases
<1>6. DOMAIN base.portfolios \subseteq DOMAIN names
  BY <1>1, <1>2
<1>7. Consistent(PutPortfolio(base, p, name))
  <2> HIDE DEF names
  <2> QED
    BY <1>4, <1>6 DEF Good, Consistent, Databases
<1> QED
  BY <1>4, <1>5, <1>7 DEF Good, Databases

LEMMA MigrateGood ==
  ASSUME NEW base, Good(base)
  PROVE  Good(MigrateAccounts(base)) /\ MigrateAccounts(base).layout = 2
<1> DEFINE rows == [id \in DOMAIN base.holdings |-> NullBlank(base.holdings[id])]
<1>1. PICK D \in SUBSET HoldingIds : base.holdings \in [D -> Row]
  BY DEF Good, Databases, Tables
<1>2. \A id \in D : /\ rows[id] \in Row
                    /\ rows[id].portfolio = base.holdings[id].portfolio
                    /\ rows[id].account = IF base.holdings[id].account = Blank THEN None
                                          ELSE base.holdings[id].account
  BY <1>1 DEF Row, NullBlank
<1>3. rows \in [D -> Row]
  BY <1>1, <1>2
<1>4. rows \in Tables(HoldingIds, Row)
  BY <1>3 DEF Tables
<1>5. MigrateAccounts(base) = [base EXCEPT !.layout = 2, !.holdings = rows]
  BY DEF MigrateAccounts
<1> HIDE DEF rows
<1>6. MigrateAccounts(base) \in Databases /\ MigrateAccounts(base).layout = 2
  <2> DEFINE tables == [base EXCEPT !.layout = 2]
  <2>1. tables \in Databases /\ tables.layout = 2
    BY DEF Good, Databases
  <2>2. MigrateAccounts(base) = [tables EXCEPT !.holdings = rows]
    BY <1>5 DEF Good, Databases
  <2> HIDE DEF tables
  <2> QED
    BY <2>1, <2>2, <1>4 DEF Databases
<1>7. Consistent(MigrateAccounts(base))
  BY <1>1, <1>2, <1>3, <1>5 DEF Good, Consistent, Databases
<1> QED
  BY <1>6, <1>7 DEF Good

-------------------------------------------------------------------------------
(* The initial databases.                                                    *)

LEMMA InitOk == Init => StoreInv
<1> SUFFICES ASSUME Init PROVE StoreInv
  OBVIOUS
<1>1. Good(db) /\ StampOk(db)
  <2>1. CASE db = EmptyDb
    <3>1. db \in Databases
      BY <2>1, EmptyTable DEF EmptyDb, Databases
    <3>2. DOMAIN db.holdings = {}
      BY <2>1 DEF EmptyDb
    <3> QED
      BY <2>1, <3>1, <3>2 DEF EmptyDb, Good, Consistent, StampOk
  <2>2. ASSUME NEW p \in Portfolios, NEW h \in HoldingIds, NEW a \in Accounts, NEW blank \in BOOLEAN,
               db = [layout |-> 1, stamp |-> 1,
                     portfolios |-> [q \in {p} |-> "Own"], accounts |-> {a},
                     holdings |-> [id \in {h} |-> [portfolio |-> p, fields |-> NewFields,
                       account |-> IF blank THEN Blank ELSE a]]]
        PROVE  Good(db) /\ StampOk(db)
    <3> DEFINE row == [portfolio |-> p, fields |-> NewFields, account |-> IF blank THEN Blank ELSE a]
    <3>1. row \in Row
      BY StoreAssumption DEF Row, NewFields
    <3>2. [id \in {h} |-> row] \in Tables(HoldingIds, Row)
      BY <3>1, OneRow
    <3>3. [q \in {p} |-> "Own"] \in Tables(Portfolios, Names)
      BY OneRow DEF Names
    <3>4. /\ db.layout = 1 /\ db.stamp = 1 /\ db.accounts = {a}
          /\ db.portfolios = [q \in {p} |-> "Own"] /\ db.holdings = [id \in {h} |-> row]
      BY <2>2
    <3>5. db \in Databases
      BY <2>2, <3>2, <3>3 DEF Databases
    <3> QED
      BY <3>4, <3>5 DEF Good, Consistent, StampOk
  <2> QED
    BY <2>1, <2>2 DEF Init
<1>2. job = [p \in Programs |-> DownJob] /\ open = None /\ writer = None
  BY DEF Init
<1>3. DownJob \in Jobs
  BY EmptyTable DEF DownJob, Jobs, NoRows, Starting
<1>4. JobsOk
  BY <1>2, <1>3 DEF JobsOk, DownJob, Migrated
<1>5. OpenOk
  BY <1>2, NoneApart DEF OpenOk, InTransaction, DownJob
<1> QED
  BY <1>1, <1>4, <1>5 DEF StoreInv

-------------------------------------------------------------------------------
(* Starting and dying.                                                       *)

LEMMA StartOk ==
  ASSUME StoreInv, NEW p \in Programs, Start(p)
  PROVE  StoreInv'
<1> USE DEF Starting, Migrated, Working
<1>1. writer # p
  BY DEF StoreInv, OpenOk, InTransaction, Start
<1> QED
  BY <1>1, GoesOn DEF Start, StoreInv

LEMMA CreateTablesOk ==
  ASSUME StoreInv, NEW p \in Programs, CreateTables(p)
  PROVE  StoreInv'
<1> USE DEF Starting, Migrated, Working
<1> DEFINE shape == IF db.layout = 0 THEN 2 ELSE db.layout
<1>0. db = [db EXCEPT !.layout = db.layout]
  BY DEF StoreInv, Good, Databases
<1>1. db' = [db EXCEPT !.layout = shape] /\ UNCHANGED <<open, writer>> /\ Goes(p, "version")
  BY <1>0 DEF CreateTables, Commits
<1>2. writer # p
  BY DEF StoreInv, OpenOk, InTransaction, CreateTables
<1>3. shape \in 1..2 /\ (db.layout # 0 => shape = db.layout) /\ (db.layout = 0 => shape = 2)
  BY DEF StoreInv, Good, Databases
<1> HIDE DEF shape
<1>4. Good(db)' /\ db'.layout = shape /\ db'.stamp = db.stamp
  BY <1>1, <1>3, NoneApart DEF StoreInv, Good, Databases, Consistent, StampOk
<1>5. StampOk(db)' /\ db'.layout \in {db.layout, 2} /\ db'.layout # 0
  BY <1>3, <1>4 DEF StoreInv, StampOk
<1> QED
  BY <1>1, <1>2, <1>4, <1>5, GoesOn

LEMMA ReadVersionOk ==
  ASSUME StoreInv, NEW p \in Programs, ReadVersion(p)
  PROVE  StoreInv'
<1> USE DEF Starting, Migrated, Working
<1> DEFINE pc == CASE db.stamp = 0 -> "stamp" [] db.stamp = 1 -> "migrate" [] OTHER -> "check"
<1>1. writer # p /\ Goes(p, pc) /\ UNCHANGED <<db, open, writer>>
  BY DEF StoreInv, OpenOk, InTransaction, ReadVersion
<1>2. db.layout \in 1..2 /\ db.stamp \in 0..2
  BY DEF ReadVersion, StoreInv, JobsOk, Good, Databases
<1>3. pc \in {"stamp", "migrate", "check"} /\ (pc # "migrate" => db.layout = 2)
  BY <1>2 DEF StoreInv, StampOk
<1> HIDE DEF pc
<1> QED
  BY <1>1, <1>3, GoesOn DEF StoreInv

LEMMA BeginMigrationOk ==
  ASSUME StoreInv, NEW p \in Programs, BeginMigration(p)
  PROVE  StoreInv'
<1> USE DEF Starting, Migrated, Working
<1>1. Good(open') /\ open'.layout = 2 /\ writer' = p /\ UNCHANGED db
  BY MigrateGood DEF BeginMigration, StoreInv
<1>2. /\ job' \in [Programs -> Jobs]
      /\ job'[p].pc = "migrating"
      /\ \A q \in Programs \ {p} : job'[q] = job[q]
  BY EmptyTable DEF StoreInv, JobsOk, Jobs, BeginMigration, Goes, DownJob, NoRows
<1>3. JobsOk'
  BY <1>1, <1>2 DEF StoreInv, JobsOk
<1>4. writer = None
  BY DEF BeginMigration, LockFree
<1>5. InTransaction(p)' /\ \A q \in Programs \ {p} : ~InTransaction(q)'
  BY <1>2, <1>4, NoneApart DEF InTransaction, StoreInv, OpenOk
<1>6. OpenOk'
  BY <1>1, <1>5, NoneApart DEF OpenOk, Good, Consistent
<1> QED
  BY <1>1, <1>3, <1>6 DEF StoreInv, Good, Consistent, StampOk

\* What a transaction publishes satisfies what is asked of a committed database.
LEMMA OpenPublishes ==
  ASSUME StoreInv, writer # None, db' = open
  PROVE  Good(db)' /\ StampOk(db)' /\ db'.layout = 2
  BY DEF StoreInv, OpenOk, Good, Consistent, StampOk

LEMMA CommitMigrationOk ==
  ASSUME StoreInv, NEW p \in Programs, CommitMigration(p)
  PROVE  StoreInv'
<1> USE DEF Starting, Migrated, Working
<1>1. writer = p /\ writer # None
  BY NoneApart DEF StoreInv, OpenOk, InTransaction, CommitMigration
<1> QED
  BY <1>1, OpenPublishes, GoesOn DEF CommitMigration

LEMMA StampStepOk ==
  ASSUME StoreInv, NEW p \in Programs, Stamp(p)
  PROVE  StoreInv'
<1> USE DEF Starting, Migrated, Working
<1>1. db' = [db EXCEPT !.stamp = 2] /\ UNCHANGED <<open, writer>> /\ Goes(p, "check")
  BY DEF Stamp, Commits
<1>2. writer # p
  BY NoneApart DEF Stamp, LockFree
<1>3. db.layout = 2
  BY DEF Stamp, StoreInv, JobsOk
<1>4. Good(db)' /\ StampOk(db)' /\ db'.layout = 2
  BY <1>1, <1>3 DEF StoreInv, Good, Databases, Consistent, StampOk
<1> QED
  BY <1>1, <1>2, <1>4, GoesOn

LEMMA LookForPortfolioOk ==
  ASSUME StoreInv, NEW p \in Programs, LookForPortfolio(p)
  PROVE  StoreInv'
<1> USE DEF Starting, Migrated, Working
<1>1. writer # p /\ db.layout = 2
  BY DEF StoreInv, OpenOk, JobsOk, InTransaction, LookForPortfolio
<1>2. PICK pc \in {"default", "ready"} : Goes(p, pc)
  BY DEF LookForPortfolio
<1> QED
  BY <1>1, <1>2, GoesOn DEF LookForPortfolio, StoreInv

LEMMA InsertDefaultOk ==
  ASSUME StoreInv, NEW p \in Programs, InsertDefault(p)
  PROVE  StoreInv'
<1> USE DEF Starting, Migrated, Working
<1>1. writer # p /\ db.layout = 2
  BY NoneApart DEF StoreInv, JobsOk, InsertDefault, LockFree
<1>2. PICK new \in Portfolios : Commits(PutPortfolio(db, new, "Default"))
  BY DEF InsertDefault
<1>3. Good(db)' /\ db'.layout = db.layout /\ db'.stamp = db.stamp
  BY <1>2, PutPortfolioGood DEF Commits, StoreInv, Names, Good, Consistent
<1> QED
  BY <1>1, <1>2, <1>3, GoesOn DEF InsertDefault, Commits, StoreInv, StampOk

LEMMA DiesOk ==
  ASSUME StoreInv, NEW p \in Programs, Dies(p)
  PROVE  StoreInv'
<1> USE DEF Starting, Migrated, Working
<1> QED
  BY GoesOn DEF Dies, StoreInv

-------------------------------------------------------------------------------
(* Requests.                                                                 *)

LEMMA WriteOk ==
  ASSUME StoreInv, NEW base, Commits(base), UNCHANGED job,
         Good(base), base.layout = db.layout, base.stamp = db.stamp
  PROVE  StoreInv'
<1>1. Good(db)' /\ StampOk(db)'
  BY DEF Commits, StoreInv, Good, Consistent, StampOk
<1> QED
  BY <1>1, WritesOnce DEF Commits

LEMMA CreatePortfolioOk ==
  ASSUME StoreInv, CreatePortfolio
  PROVE  StoreInv'
<1>1. PICK new \in Portfolios : Commits(PutPortfolio(db, new, "Own"))
  BY DEF CreatePortfolio
<1> QED
  BY <1>1, PutPortfolioGood, WriteOk DEF CreatePortfolio, WritesAtOnce, Names, StoreInv

LEMMA DeletePortfolioOk ==
  ASSUME StoreInv, DeletePortfolio
  PROVE  StoreInv'
<1>1. PICK q \in DOMAIN db.portfolios : Commits(DropPortfolio(db, q))
  BY DEF DeletePortfolio
<1> QED
  BY <1>1, DropPortfolioGood, WriteOk DEF DeletePortfolio, WritesAtOnce, StoreInv

LEMMA CreateAccountOk ==
  ASSUME StoreInv, CreateAccount
  PROVE  StoreInv'
<1>1. PICK new \in Accounts : Commits([db EXCEPT !.accounts = db.accounts \cup {new}])
  BY DEF CreateAccount
<1> DEFINE base == [db EXCEPT !.accounts = db.accounts \cup {new}]
<1>2. Good(base) /\ base.layout = db.layout /\ base.stamp = db.stamp
  BY DEF StoreInv, Good, Databases, Consistent
<1> QED
  BY <1>1, <1>2, WriteOk DEF CreateAccount, WritesAtOnce

\* One holding in a stored portfolio, for the server, the MCP server or the seed.
LEMMA OneHoldingOk ==
  ASSUME StoreInv, UNCHANGED job, NEW id \in HoldingIds, NEW q \in DOMAIN db.portfolios,
         NEW a \in db.accounts \cup {None},
         Commits(PutHoldings(db,
           [i \in {id} |-> [portfolio |-> q, account |-> a, fields |-> NewFields]]))
  PROVE  StoreInv'
<1> DEFINE row == [portfolio |-> q, account |-> a, fields |-> NewFields]
           new == [i \in {id} |-> row]
<1>1. row \in Row /\ References(db, row)
  BY StoreAssumption DEF StoreInv, Good, Databases, Tables, Row, References, NewFields
<1>2. new \in Tables(HoldingIds, Row)
  BY <1>1, OneRow
<1>3. \A i \in DOMAIN new : References(db, new[i])
  BY <1>1
<1> HIDE DEF new
<1>4. LET next == PutHoldings(db, new)
      IN  Good(next) /\ next.layout = db.layout /\ next.stamp = db.stamp
  BY <1>2, <1>3, PutHoldingsGood DEF StoreInv
<1> QED
  BY <1>4, WriteOk DEF new

LEMMA CreateHoldingOk ==
  ASSUME StoreInv, NEW p \in Programs, CreateHolding(p)
  PROVE  StoreInv'
<1>1. UNCHANGED job
  BY DEF CreateHolding, WritesAtOnce
<1>2. PICK id \in HoldingIds, q \in DOMAIN db.portfolios, a \in db.accounts \cup {None} :
        Commits(PutHoldings(db,
          [i \in {id} |-> [portfolio |-> q, account |-> a, fields |-> NewFields]]))
  BY DEF CreateHolding, Fresh
<1> QED
  BY <1>1, <1>2, OneHoldingOk

LEMMA DeleteHoldingOk ==
  ASSUME StoreInv, NEW p \in Programs, DeleteHolding(p)
  PROVE  StoreInv'
<1>1. PICK id \in DOMAIN db.holdings : Commits(DropHoldings(db, {id}))
  BY DEF DeleteHolding
<1> QED
  BY <1>1, DropHoldingsGood, WriteOk DEF DeleteHolding, WritesAtOnce, StoreInv

LEMMA BeginUpdateOk ==
  ASSUME StoreInv, NEW p \in Programs, BeginUpdate(p)
  PROVE  StoreInv'
<1> USE DEF Starting, Migrated, Working
<1>1. PICK id \in DOMAIN db.holdings, named \in (SUBSET Fields) \ {{}} :
        \E changes \in [named -> Amounts] :
          job' = [job EXCEPT ![p] = [DownJob EXCEPT !.pc = "update", !.id = id,
                    !.row = GetHolding(id), !.changes = changes]]
  BY DEF BeginUpdate
<1>2. PICK changes \in [named -> Amounts] :
        job' = [job EXCEPT ![p] = [DownJob EXCEPT !.pc = "update", !.id = id,
                  !.row = GetHolding(id), !.changes = changes]]
  BY <1>1
<1>3. id \in HoldingIds /\ GetHolding(id) \in [Fields -> Amounts] /\ changes \in Tables(Fields, Amounts)
  BY DEF StoreInv, Good, Databases, Tables, Row, GetHolding
<1> DEFINE new == [DownJob EXCEPT !.pc = "update", !.id = id,
                     !.row = GetHolding(id), !.changes = changes]
<1>4. new \in Jobs /\ new.pc = "update" /\ new.row \in [Fields -> Amounts]
  BY <1>3, EmptyTable DEF DownJob, Jobs, NoRows
<1> HIDE DEF new
<1>5. /\ job' \in [Programs -> Jobs]
      /\ job'[p].pc = "update" /\ job'[p].row \in [Fields -> Amounts]
      /\ \A r \in Programs \ {p} : job'[r] = job[r]
  BY <1>2, <1>4 DEF StoreInv, JobsOk, new
<1>6. job[p].pc = "ready" /\ UNCHANGED <<db, open, writer>>
  BY DEF BeginUpdate, Accepts
<1>7. JobsOk'
  BY <1>5, <1>6 DEF StoreInv, JobsOk
<1>8. \A r \in Programs : InTransaction(r)' <=> InTransaction(r)
  BY <1>5, <1>6 DEF InTransaction
<1>9. OpenOk'
  BY <1>6, <1>8 DEF StoreInv, OpenOk, Good, Consistent
<1> QED
  BY <1>6, <1>7, <1>9 DEF StoreInv, Good, Consistent, StampOk

LEMMA WriteBackOk ==
  ASSUME StoreInv, NEW p \in Programs, WriteBack(p)
  PROVE  StoreInv'
<1> USE DEF Starting, Migrated, Working
<1> DEFINE id == job[p].id
           fields == Override(job[p].row, job[p].changes)
<1>1. writer # p /\ db.layout = 2 /\ UNCHANGED <<open, writer>> /\ Goes(p, "ready")
  BY NoneApart DEF WriteBack, LockFree, StoreInv, JobsOk, Commits
<1>2. CASE id \notin DOMAIN db.holdings
  BY <1>1, <1>2, GoesOn DEF WriteBack, StoreInv
<1>3. CASE id \in DOMAIN db.holdings
  <2>1. db' = [db EXCEPT !.holdings[id].fields = fields]
    BY <1>3 DEF WriteBack, Commits
  <2>2. Good(db)' /\ db'.layout = db.layout /\ db'.stamp = db.stamp
    <3>1. fields \in [Fields -> Amounts]
      <4>1. PICK named \in SUBSET Fields : job[p].changes \in [named -> Amounts]
        BY DEF StoreInv, JobsOk, Jobs, Tables
      <4>2. job[p].row \in [Fields -> Amounts]
        BY DEF StoreInv, JobsOk, WriteBack
      <4> QED
        BY <4>1, <4>2 DEF Override
    <3> HIDE DEF fields
    <3>2. PICK D \in SUBSET HoldingIds : db.holdings \in [D -> Row]
      BY DEF StoreInv, Good, Databases, Tables
    <3> DEFINE rows == [db.holdings EXCEPT ![id].fields = fields]
    <3>3. /\ rows \in [D -> Row]
          /\ \A i \in D : /\ rows[i].portfolio = db.holdings[i].portfolio
                          /\ rows[i].account = db.holdings[i].account
      BY <3>1, <3>2 DEF Row
    <3>4. db' = [db EXCEPT !.holdings = rows]
      BY <2>1
    <3> HIDE DEF rows
    <3>5. rows \in Tables(HoldingIds, Row)
      BY <3>3 DEF Tables
    <3>6. db' \in Databases /\ db'.layout = db.layout /\ db'.stamp = db.stamp
      BY <3>4, <3>5 DEF StoreInv, Good, Databases
    <3> QED
      BY <3>2, <3>3, <3>4, <3>6 DEF StoreInv, Good, Databases, Consistent
  <2> QED
    BY <1>1, <2>2, GoesOn DEF StoreInv, StampOk
<1> QED
  BY <1>2, <1>3

LEMMA UpdateTimesOutOk ==
  ASSUME StoreInv, NEW p \in Programs, UpdateTimesOut(p)
  PROVE  StoreInv'
<1> USE DEF Starting, Migrated, Working
<1>1. writer # p /\ db.layout = 2
  BY DEF UpdateTimesOut, StoreInv, JobsOk, OpenOk, InTransaction
<1> QED
  BY <1>1, GoesOn DEF UpdateTimesOut, StoreInv

-------------------------------------------------------------------------------
(* Imports, which work on a copy.                                            *)

LEMMA BeginImportOk ==
  ASSUME StoreInv, BeginImport
  PROVE  StoreInv'
<1> USE DEF Starting, Migrated, Working
<1>1. PICK q \in Portfolios, a \in Accounts \cup {None}, ids \in SUBSET Fresh :
        /\ Cardinality(ids) = FileSize
        /\ job' = [job EXCEPT ![Server] = [DownJob EXCEPT !.pc = "import", !.left = ids,
             !.file = [id \in ids |-> [portfolio |-> q, account |-> a, fields |-> NewFields]]]]
  BY DEF BeginImport
<1> DEFINE file == [id \in ids |-> [portfolio |-> q, account |-> a, fields |-> NewFields]]
           new == [DownJob EXCEPT !.pc = "import", !.left = ids, !.file = file]
<1>2. ids # {} /\ ids \in SUBSET HoldingIds
  BY <1>1, FS_EmptySet, StoreAssumption DEF Fresh
<1>3. file \in [ids -> Row]
  BY StoreAssumption DEF Row, NewFields
<1>4. file \in Tables(HoldingIds, Row) /\ DOMAIN file = ids
  BY <1>2, <1>3 DEF Tables
<1> HIDE DEF file
<1>5. new \in Jobs /\ new.pc = "import" /\ new.left = ids /\ new.file = file
  BY <1>2, <1>4, EmptyTable DEF DownJob, Jobs, NoRows
<1>6. job' = [job EXCEPT ![Server] = new]
  BY <1>1 DEF file
<1> HIDE DEF new
<1>7. /\ job' \in [Programs -> Jobs]
      /\ job'[Server].pc = "import" /\ job'[Server].left = ids /\ job'[Server].file = file
      /\ \A r \in Programs \ {Server} : job'[r] = job[r]
  BY <1>5, <1>6 DEF StoreInv, JobsOk, Programs
<1>8. job[Server].pc = "ready" /\ UNCHANGED <<db, open, writer>>
  BY DEF BeginImport, Accepts
<1>9. JobsOk'
  BY <1>2, <1>4, <1>7, <1>8 DEF StoreInv, JobsOk, Programs
<1>10. \A r \in Programs : InTransaction(r)' <=> InTransaction(r)
  BY <1>4, <1>7, <1>8 DEF InTransaction
<1>11. OpenOk'
  BY <1>8, <1>10 DEF StoreInv, OpenOk, Good, Consistent
<1> QED
  BY <1>8, <1>9, <1>11 DEF StoreInv, Good, Consistent, StampOk

LEMMA InsertRowOk ==
  ASSUME StoreInv, InsertRow
  PROVE  StoreInv'
<1> USE DEF Starting, Migrated, Working
<1>1. PICK id \in job[Server].left :
        /\ References(Copy, job[Server].file[id])
        /\ open' = PutHoldings(Copy, [i \in {id} |-> job[Server].file[id]])
        /\ writer' = Server
        /\ job' = [job EXCEPT ![Server].left = job[Server].left \ {id}]
  BY DEF InsertRow
<1> DEFINE row == job[Server].file[id]
           new == [i \in {id} |-> row]
<1>2. /\ job[Server].pc = "import" /\ UNCHANGED db /\ Server \in Programs
      /\ job[Server] \in Jobs /\ job[Server].left \subseteq DOMAIN job[Server].file
  BY DEF InsertRow, StoreInv, JobsOk, Programs
<1>3. Good(Copy) /\ Copy.layout = 2
  BY <1>2, NoneApart DEF Copy, StoreInv, OpenOk, JobsOk
<1>4. id \in HoldingIds /\ row \in Row
  BY <1>2 DEF Jobs, Tables
<1>5. Good(open') /\ open'.layout = 2
  <2>1. new \in Tables(HoldingIds, Row)
    BY <1>4, OneRow
  <2>2. \A i \in DOMAIN new : References(Copy, new[i])
    BY <1>1
  <2>3. open' = PutHoldings(Copy, new)
    BY <1>1
  <2> HIDE DEF new
  <2> QED
    BY <1>3, <2>1, <2>2, <2>3, PutHoldingsGood
<1>6. /\ job' \in [Programs -> Jobs]
      /\ job'[Server].pc = "import" /\ job'[Server].file = job[Server].file
      /\ job'[Server].left = job[Server].left \ {id}
      /\ \A r \in Programs \ {Server} : job'[r] = job[r]
  BY <1>1, <1>2 DEF StoreInv, JobsOk, Jobs
<1>7. JobsOk'
  BY <1>2, <1>6 DEF StoreInv, JobsOk
<1>8. InTransaction(Server)' /\ \A r \in Programs \ {Server} : ~InTransaction(r)'
  BY <1>2, <1>6, NoneApart DEF InTransaction, InsertRow, StoreInv, OpenOk
<1>9. OpenOk'
  BY <1>1, <1>2, <1>5, <1>8, NoneApart DEF OpenOk, Good, Consistent
<1> QED
  BY <1>2, <1>7, <1>9 DEF StoreInv, Good, Consistent, StampOk

LEMMA CommitImportOk ==
  ASSUME StoreInv, CommitImport
  PROVE  StoreInv'
<1> USE DEF Starting, Migrated, Working
<1>1. writer = Server /\ writer # None /\ Server \in Programs
  BY NoneApart DEF StoreInv, OpenOk, JobsOk, InTransaction, CommitImport, Programs
<1> QED
  BY <1>1, OpenPublishes, GoesOn DEF CommitImport

LEMMA FailImportOk ==
  ASSUME StoreInv, FailImport
  PROVE  StoreInv'
<1> USE DEF Starting, Migrated, Working
<1>1. db.layout = 2 /\ Server \in Programs
  BY DEF FailImport, StoreInv, JobsOk, Programs
<1> QED
  BY <1>1, GoesOn DEF FailImport, StoreInv

-------------------------------------------------------------------------------
(* The seed.                                                                 *)

LEMMA SeedCreatesOk ==
  ASSUME StoreInv, SeedCreates
  PROVE  StoreInv'
<1>1. PICK new \in Portfolios : Commits(PutPortfolio(db, new, "Demo"))
  BY DEF SeedCreates
<1> QED
  BY <1>1, PutPortfolioGood, WriteOk DEF SeedCreates, SeedAsks, Names, StoreInv

LEMMA SeedPostsOk ==
  ASSUME StoreInv, SeedPosts
  PROVE  StoreInv'
<1>1. UNCHANGED job /\ seed.portfolio \in DOMAIN db.portfolios
  BY DEF SeedPosts, SeedAsks
<1>2. PICK id \in HoldingIds :
        Commits(PutHoldings(db, [i \in {id} |->
          [portfolio |-> seed.portfolio, account |-> None, fields |-> NewFields]]))
  BY DEF SeedPosts, Fresh
<1> QED
  BY <1>1, <1>2, OneHoldingOk

-------------------------------------------------------------------------------
(* The theorems.                                                             *)

LEMMA StepOk == StoreInv /\ [Next]_storeVars => StoreInv'
<1> SUFFICES ASSUME StoreInv, [Next]_storeVars PROVE StoreInv'
  OBVIOUS
<1>1. ASSUME NEW p \in Programs, Start(p) \/ StartStep(p) \/ Dies(p) PROVE StoreInv'
  BY <1>1, StartOk, CreateTablesOk, ReadVersionOk, BeginMigrationOk, CommitMigrationOk,
     StampStepOk, LookForPortfolioOk, InsertDefaultOk, DiesOk DEF StartStep
<1>2. ASSUME NEW p \in Programs, RequestStep(p) \/ WriteBack(p) \/ UpdateTimesOut(p) PROVE StoreInv'
  BY <1>2, CreateHoldingOk, DeleteHoldingOk, BeginUpdateOk, WriteBackOk, UpdateTimesOutOk
     DEF RequestStep
<1>3. ASSUME CreatePortfolio \/ DeletePortfolio \/ CreateAccount PROVE StoreInv'
  BY <1>3, CreatePortfolioOk, DeletePortfolioOk, CreateAccountOk
<1>4. ASSUME BeginImport \/ ImportStep PROVE StoreInv'
  BY <1>4, BeginImportOk, InsertRowOk, CommitImportOk, FailImportOk DEF ImportStep
<1>5. ASSUME SeedCreates \/ SeedPosts PROVE StoreInv'
  BY <1>5, SeedCreatesOk, SeedPostsOk
<1>6. ASSUME SeedLists \/ SeedFails \/ UNCHANGED storeVars PROVE StoreInv'
  BY <1>6, Waits DEF SeedLists, SeedAsks, SeedFails, storeVars
<1> QED
  BY <1>1, <1>2, <1>3, <1>4, <1>5, <1>6 DEF Next

\* The inductive invariant holds of every reachable state, however the two
\* programs start, migrate, write, import, die and are seeded.
THEOREM InvHolds == Spec => []StoreInv
  BY InitOk, StepOk, PTL DEF Spec

\* The tables keep their shape, and the write lock is held exactly by the
\* program whose migration or import is open (_transaction, COMMIT of the script).
THEOREM TypeHolds == Spec => []StoreTypeOK
<1>1. StoreInv => StoreTypeOK
  BY NoneApart DEF StoreInv, StoreTypeOK, OpenOk, Good, InTransaction
<1> QED
  BY <1>1, InvHolds, PTL

\* No committed holding names a portfolio or an account that is not there, in
\* spite of deletions by the other program, imports and the migration of old rows.
THEOREM ReferencesHold == Spec => []ReferencesResolve
<1>1. StoreInv => ReferencesResolve
  BY DEF StoreInv, Good, Consistent, ReferencesResolve, References
<1> QED
  BY <1>1, InvHolds, PTL

\* The stamp of schema 2 is never on tables of schema 1, wherever a start stops
\* between _migrate_v2_account_nullable and the UPDATE of the version.
THEOREM StampHolds == Spec => []StampedIsMigrated
<1>1. StoreInv => StampedIsMigrated
  BY DEF StoreInv, StampOk, StampedIsMigrated
<1> QED
  BY <1>1, InvHolds, PTL
===============================================================================
