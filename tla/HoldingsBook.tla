----------------------------- MODULE HoldingsBook -----------------------------
(***************************************************************************)
(* What the analytics database promises about holdings, whoever uses it:   *)
(* every change is one whole operation.  A holding appears by itself or    *)
(* with all the holdings of one import, keeps its portfolio, disappears    *)
(* only by being deleted, alone or with its portfolio, and never returns.  *)
(***************************************************************************)
CONSTANTS HoldingIds, Portfolios, Fields, Amounts, Importers

VARIABLES
  book,     \* the stored holdings: id -> [portfolio, fields]
  used,     \* ids that have ever been stored
  pending   \* importer -> the holdings of the file it is importing

bookVars == <<book, used, pending>>

Entry == [portfolio : Portfolios, fields : [Fields -> Amounts]]
Books == UNION {[ids -> Entry] : ids \in SUBSET HoldingIds}
Without(ids) == [id \in DOMAIN book \ ids |-> book[id]]
Store(new) ==
  /\ DOMAIN new \cap used = {}
  /\ book' = [id \in DOMAIN book \cup DOMAIN new |->
                IF id \in DOMAIN new THEN new[id] ELSE book[id]]
  /\ used' = used \cup DOMAIN new

Add ==
  /\ \E id \in HoldingIds, e \in Entry : Store([i \in {id} |-> e])
  /\ UNCHANGED pending

Change ==
  /\ \E id \in DOMAIN book, f \in [Fields -> Amounts] :
       book' = [book EXCEPT ![id].fields = f]
  /\ UNCHANGED <<used, pending>>

Remove ==
  /\ \/ \E id \in DOMAIN book : book' = Without({id})
     \/ \E p \in Portfolios : book' = Without({id \in DOMAIN book : book[id].portfolio = p})
  /\ UNCHANGED <<used, pending>>

\* A file is taken, and later stored as a whole or dropped.
Submit(i) == \E rows \in Books : pending' = [pending EXCEPT ![i] = rows] /\ UNCHANGED <<book, used>>

Import(i) == Store(pending[i]) /\ pending' = [pending EXCEPT ![i] = <<>>]

Drop(i) == pending' = [pending EXCEPT ![i] = <<>>] /\ UNCHANGED <<book, used>>

BookNext ==
  \/ Add \/ Change \/ Remove
  \/ \E i \in Importers : Submit(i) \/ Import(i) \/ Drop(i)

BookInit ==
  /\ book \in Books /\ used = DOMAIN book
  /\ pending = [i \in Importers |-> <<>>]

BookSpec == BookInit /\ [][BookNext]_bookVars
===============================================================================
