------------------------------ MODULE CsvImport -------------------------------
(***************************************************************************)
(* Importing a file of holdings from the dashboard: the shell (pae-app)    *)
(* with its portfolio selector, the import view (pae-import), and the      *)
(* server's requests to list portfolios, to preview a file and to confirm  *)
(* it.  The view is mounted anew whenever the user navigates or selects    *)
(* another portfolio; requests of a view that is gone are still answered.  *)
(* Other tabs of the browser share the stored choice, and other clients    *)
(* change the portfolios.  A request is handled in one step (AnalyticsStore*)
(* has what an import does inside); its answer may be lost on either way.  *)
(***************************************************************************)
EXTENDS CsvParser, FiniteSets

CONSTANTS
  Portfolios,  \* numbered in the order of their names, which is how they are listed
  Sheets,      \* bound: files, of which the user has one
  None,
  MaxViews,    \* bound: mounted import views
  MaxRequests, \* bound: previews and confirmations
  MaxChanges   \* bound: steps of other tabs and clients

ASSUME ImportAssumption ==
  /\ Portfolios \subseteq Nat /\ None \notin Portfolios
  /\ {MaxViews, MaxRequests, MaxChanges} \subseteq Nat
  /\ \A sheet \in Sheets : sheet.rows \in Seq(Row)
  /\ None \notin {ImportCsvString(sheet) : sheet \in Sheets}

VARIABLES
  file,       \* what the user has to import
  portfolios, \* those in the database
  stored,     \* its holdings: [portfolio, holdings] of one client or import
  storage,    \* whether the browser has localStorage
  chosen,     \* the choice kept there, or None
  fetched,    \* loader -> the list of portfolios it waits for, or None
  shell,      \* what the selector offers and shows
  view,       \* the import view
  requests,   \* previews and confirmations on their way
  sent,       \* how many there have been
  changes,    \* how many steps others have taken
  moved       \* history: others have changed the choice or the portfolios since
              \* the user's last choice from a selector that was up to date

importVars ==
  <<file, portfolios, stored, storage, chosen, fetched, shell, view, requests, sent, changes, moved>>
serverVars == <<file, portfolios, stored>>
requestVars == <<requests, sent>>
othersVars == <<changes, moved>>

\* The shell and every view load the list once.
Shell == 0
Loaders == Shell .. MaxViews
Asked == [asked |-> TRUE]
Others == <<[by |-> "another client"]>>
Refused == [refused |-> TRUE]
Held == {s.portfolio : s \in {t \in stored : t.holdings # <<>>}}
First(set) == CHOOSE p \in set : \A q \in set : p <= q

NewView(number) ==
  [number |-> number, status |-> "idle", portfolio |-> None, sheet |-> None, preview |-> None]

Init ==
  /\ file \in Sheets
  /\ portfolios \in (SUBSET Portfolios) \ {{}}
  /\ stored \in {{[portfolio |-> p, holdings |-> Others] : p \in ps} : ps \in SUBSET portfolios}
  /\ storage \in BOOLEAN /\ chosen = None
  /\ fetched = [l \in Loaders |-> IF l = Shell THEN Asked ELSE None]
  /\ shell = [offers |-> {}, shows |-> None]
  /\ view = NewView(0)
  /\ requests = {} /\ sent = 0 /\ changes = 0 /\ moved = FALSE

-------------------------------------------------------------------------------
(* The selected portfolio.                                                   *)

\* list_portfolios answers with every portfolio, in order.
ListPortfolios(l) ==
  /\ fetched[l] = Asked
  /\ fetched' = [fetched EXCEPT ![l] = [all |-> portfolios, held |-> Held]]
  /\ UNCHANGED <<serverVars, storage, chosen, shell, view, requestVars, othersVars>>

\* The first portfolio with holdings, else the first.
DefaultPortfolioId(list) == First(IF list.held # {} THEN list.held ELSE list.all)

\* resolveSelectedPortfolioId.
Selected(list) ==
  IF chosen # None /\ chosen \in list.all THEN chosen ELSE DefaultPortfolioId(list)

Keeps(p) == chosen' = IF storage THEN p ELSE chosen

\* loadPortfolios of the shell and loadPortfolioId of a view.  A view that is
\* gone still stores the choice it resolves.
Resolve(l) ==
  LET list == fetched[l]
      selected == IF list.all = {} THEN None ELSE Selected(list)
  IN  /\ fetched[l] \notin {None, Asked}
      /\ fetched' = [fetched EXCEPT ![l] = None]
      /\ IF selected = None THEN UNCHANGED chosen ELSE Keeps(selected)
      /\ shell' = IF l = Shell THEN [offers |-> list.all, shows |-> selected] ELSE shell
      /\ view' = IF l # Shell /\ l = view.number THEN [view EXCEPT !.portfolio = selected] ELSE view
      /\ UNCHANGED <<serverVars, storage, requestVars, othersVars>>

\* The selector stays empty, or the view without a portfolio.
ListFails(l) ==
  /\ fetched[l] # None
  /\ fetched' = [fetched EXCEPT ![l] = None]
  /\ UNCHANGED <<serverVars, storage, chosen, shell, view, requestVars, othersVars>>

Mounts ==
  /\ view.number < MaxViews
  /\ view' = NewView(view.number + 1)
  /\ fetched' = [fetched EXCEPT ![view.number + 1] = Asked]

\* The import view is opened, or left and opened again.
Navigate == Mounts /\ UNCHANGED <<serverVars, storage, chosen, shell, requestVars, othersVars>>

\* History: the selector and the lists on their way are those of the database.
ListsPresent ==
  /\ shell.offers \subseteq portfolios
  /\ \A l \in Loaders : fetched[l] \notin {None, Asked} => fetched[l].all = portfolios

Chooses ==
  /\ \E p \in shell.offers \ {shell.shows} : shell' = [shell EXCEPT !.shows = p] /\ Keeps(p)
  /\ moved' = (moved /\ ~ListsPresent)

\* Mutant: the view is not mounted anew.
SelectPortfolioOnly ==
  /\ Chooses
  /\ UNCHANGED <<serverVars, storage, fetched, view, requestVars, changes>>

\* The selector remounts the view that is open.
SelectPortfolio ==
  /\ Chooses
  /\ IF view.number = 0 THEN UNCHANGED <<view, fetched>> ELSE Mounts
  /\ UNCHANGED <<serverVars, storage, requestVars, changes>>

-------------------------------------------------------------------------------
(* The view.                                                                 *)

\* What a request carries; the last three fields are history: what the user
\* had been shown when it was sent.
Sends(kind, sheet) ==
  /\ sent < MaxRequests /\ sent' = sent + 1
  /\ requests' = requests \cup
       {[number |-> sent, kind |-> kind, view |-> view.number, portfolio |-> view.portfolio,
         sheet |-> sheet, answer |-> None, review |-> view.preview, shows |-> shell.shows,
         excused |-> moved \/ shell.shows = None]}

\* handleDrop, handleFileSelect and parseFile; there is a drop zone only in an
\* idle view.
PickFile ==
  /\ view.number > 0 /\ view.status = "idle"
  /\ IF view.portfolio = None
     THEN /\ view' = [view EXCEPT !.sheet = file, !.status = "error"]
          /\ UNCHANGED requestVars
     ELSE /\ view' = [view EXCEPT !.sheet = file, !.status = "parsing"]
          /\ Sends("preview", file)
  /\ UNCHANGED <<serverVars, storage, chosen, fetched, shell, othersVars>>

ConfirmImport ==
  /\ view.status = "previewing"
  /\ view' = [view EXCEPT !.status = "importing"]
  /\ Sends("confirm", view.sheet)
  /\ UNCHANGED <<serverVars, storage, chosen, fetched, shell, othersVars>>

\* Cancel, Try Again, Import Another.
Reset ==
  /\ view.status \in {"previewing", "done", "error"}
  /\ view' = [view EXCEPT !.status = "idle", !.sheet = None, !.preview = None]
  /\ UNCHANGED <<serverVars, storage, chosen, fetched, shell, requestVars, othersVars>>

\* An answer reaches the view that asked, if it is still there.
Tells(r, ok) ==
  view' = IF r.view # view.number THEN view
          ELSE CASE ~ok -> [view EXCEPT !.status = "error"]
                 [] ok /\ r.kind = "preview" -> [view EXCEPT !.status = "previewing", !.preview = r.answer]
                 [] OTHER -> [view EXCEPT !.status = "done"]

Answered ==
  /\ \E r \in requests :
       /\ r.answer # None
       /\ requests' = requests \ {r}
       /\ Tells(r, r.answer # Refused)
  /\ UNCHANGED <<serverVars, storage, chosen, fetched, shell, sent, othersVars>>

\* The connection fails, or the client or the proxy gives up: the request does
\* not arrive, or its answer does not, or the server has yet to handle it and
\* nobody waits for it any more (a preview handled then changes nothing).
Lost ==
  /\ \E r \in requests :
       /\ Tells(r, FALSE)
       /\ \/ requests' = requests \ {r}
          \/ /\ r.kind = "confirm" /\ r.answer = None
             /\ requests' = (requests \ {r}) \cup {[r EXCEPT !.view = 0]}
  /\ UNCHANGED <<serverVars, storage, chosen, fetched, shell, sent, othersVars>>

-------------------------------------------------------------------------------
(* The server.                                                               *)

Answers(r, answer) == requests' = (requests \ {r}) \cup {[r EXCEPT !.answer = answer]}

\* import_csv: nothing is stored, and the portfolio is not looked at.
Preview ==
  /\ \E r \in requests :
       /\ r.kind = "preview" /\ r.answer = None
       /\ Answers(r, IF r.sheet.kind \in {"foreign", "large"} THEN Refused
                     ELSE ImportCsvString(r.sheet))
  /\ UNCHANGED <<serverVars, storage, chosen, fetched, shell, view, sent, othersVars>>

Stores(r, holdings) ==
  stored' = stored \cup
    {[portfolio |-> r.portfolio, holdings |-> holdings, number |-> r.number,
      review |-> r.review, shows |-> r.shows, excused |-> r.excused]}

\* confirm_import: the file is parsed again; one error, one negative amount or
\* a portfolio that is gone refuses all of it.
Confirm ==
  /\ \E r \in requests :
       LET result == ImportCsvString(r.sheet)
           valid == /\ result.errors = {}
                    /\ \A n \in DOMAIN result.holdings : ValidHolding(result.holdings[n])
                    /\ result.holdings = <<>> \/ r.portfolio \in portfolios
       IN  /\ r.kind = "confirm" /\ r.answer = None
           /\ IF valid THEN Stores(r, result.holdings) /\ Answers(r, result)
              ELSE UNCHANGED stored /\ Answers(r, Refused)
  /\ UNCHANGED <<file, portfolios, storage, chosen, fetched, shell, view, sent, othersVars>>

-------------------------------------------------------------------------------
(* Other tabs and clients.                                                   *)

OthersStep(mayMove) ==
  /\ changes < MaxChanges /\ changes' = changes + 1
  /\ moved' = (moved \/ mayMove)
  /\ UNCHANGED <<storage, fetched, shell, view, requestVars>>

OtherTabSelects ==
  /\ storage /\ \E p \in portfolios \ {chosen} : chosen' = p
  /\ UNCHANGED serverVars
  /\ OthersStep(TRUE)

\* A list that is on its way does not have the new portfolio yet.
CreatePortfolio ==
  /\ \E p \in Portfolios \ portfolios : portfolios' = portfolios \cup {p}
  /\ UNCHANGED <<file, stored, chosen>>
  /\ OthersStep(\E l \in Loaders : fetched[l] \notin {None, Asked})

DeletePortfolio ==
  /\ \E p \in portfolios :
       /\ portfolios' = portfolios \ {p}
       /\ stored' = {s \in stored : s.portfolio # p}
  /\ UNCHANGED <<file, chosen>>
  /\ OthersStep(TRUE)

AddHolding ==
  /\ \E p \in portfolios \ Held :
       stored' = stored \cup {[portfolio |-> p, holdings |-> Others]}
  /\ UNCHANGED <<file, portfolios, chosen>>
  /\ OthersStep(FALSE)

-------------------------------------------------------------------------------
Next ==
  \/ \E l \in Loaders : ListPortfolios(l) \/ Resolve(l) \/ ListFails(l)
  \/ Navigate \/ SelectPortfolio
  \/ PickFile \/ ConfirmImport \/ Reset \/ Answered \/ Lost
  \/ Preview \/ Confirm
  \/ OtherTabSelects \/ CreatePortfolio \/ DeletePortfolio \/ AddHolding

Spec == Init /\ [][Next]_importVars

-------------------------------------------------------------------------------
(* Properties.                                                               *)

Imports == {s \in stored : s.holdings # Others}

\* Every row that is not empty is listed as a holding or named in an error or a
\* warning, rows are listed in order, and shares of positive amounts add up to
\* the whole but for the rounding.
TellsEveryRow(sheet, result) ==
  LET listed == [n \in DOMAIN result.holdings |-> result.holdings[n].row]
      named == result.errors \cup {w[1] : w \in result.warnings}
      weights == Added([n \in DOMAIN result.holdings |-> result.holdings[n].weight])
  IN  \/ 0 \in result.errors
      \/ /\ \A n \in DOMAIN sheet.rows :
              IsEmptyRow(sheet.rows[n]) \/ n \in Range(listed) \cup named
         /\ \A m, n \in DOMAIN listed : m < n => listed[m] < listed[n]
         /\ result.parsed = Len(listed) + result.skipped
         /\ Total(result.holdings) > 0 =>
              weights \in (Unit - Len(listed)) .. (Unit + Len(listed))

ReviewsAreComplete == view.preview # None => TellsEveryRow(view.sheet, view.preview)

\* What an import stores is what its user had seen listed.
StoredAsReviewed ==
  \A i \in Imports : i.review # None /\ i.holdings = i.review.holdings

\* It goes to the portfolio the selector showed, unless another tab or client
\* had changed the choice or the portfolios since the user last chose from an
\* up-to-date selector, or nothing was shown.
StoredWhereShown == \A i \in Imports : i.excused \/ i.portfolio = i.shows

\* A user who confirms a review gets what it lists, all of it and nothing else,
\* whatever views are left with a request on its way, whatever answer is lost
\* and whatever file is tried (pae-import.ts:6, "preview-then-confirm").
ImportsAsReviewed == ReviewsAreComplete /\ StoredAsReviewed

\* Where the browser keeps the choice, an import lands in the portfolio the
\* selector shows (pae-import.ts:66, "Imports land in the shell's selected
\* portfolio"), unless others have moved the choice or the portfolios after
\* the user chose, or the selector shows none.  Without localStorage the code
\* does not do so: the view that is mounted when a portfolio is selected finds
\* no stored choice and resolves the default again.
ImportsWhereShown == storage => StoredWhereShown
===============================================================================
