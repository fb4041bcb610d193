------------------------------ MODULE CsvParser -------------------------------
(***************************************************************************)
(* import_csv_string of pae.storage.csv_import: a file of rows becomes a   *)
(* list of holdings, warnings and errors.  Of a row the model keeps what   *)
(* decides its fate: whether it has a symbol, its quantity, its market     *)
(* value, and whether any other cell has text.  An amount is a number,     *)
(* Blank (the cell is missing or empty) or Unreadable (not a finite        *)
(* number): parse_float makes 0 of the last two, but only a row without    *)
(* any text is empty.                                                      *)
(***************************************************************************)
EXTENDS Integers, Sequences, Functions

CONSTANTS Blank, Unreadable

ASSUME ParserAssumption == Blank # Unreadable /\ {Blank, Unreadable} \cap Int = {}

\* Weights are rounded to six digits.
Unit == 1000000

\* What a file says, and in which state it is as a whole: its kind is "csv",
\* "broken" (the csv module fails), "foreign" (an extension that is not
\* accepted) or "large" (above 10 MB); `symbols` is whether a symbol column is
\* found in the header.
Sheet(kind, symbols, rows) == [kind |-> kind, symbols |-> symbols, rows |-> rows]

Cell == {Blank, Unreadable} \cup Int
Row == [symbol : BOOLEAN, quantity : Cell, value : Cell, others : BOOLEAN]

ParseFloat(cell) == IF cell \in {Blank, Unreadable} THEN 0 ELSE cell

IsEmptyRow(row) == ~row.symbol /\ row.quantity = Blank /\ row.value = Blank /\ ~row.others

NoResult == [holdings |-> <<>>, warnings |-> {}, errors |-> {}, parsed |-> 0, skipped |-> 0]

Holding(n, row) ==
  [row |-> n, quantity |-> ParseFloat(row.quantity), value |-> ParseFloat(row.value), weight |-> 0]

\* Mutant: the row is dropped without a word.
SkipSilently(result, h) == [result EXCEPT !.skipped = @ + 1]

\* A position without quantity and value is left out with a warning.
Skip(result, h) ==
  [result EXCEPT !.skipped = @ + 1, !.warnings = @ \cup {<<h.row, "skipped">>}]

\* Negative amounts are kept with a warning.
Keep(result, h) ==
  [result EXCEPT !.holdings = Append(@, h),
     !.warnings = @ \cup {<<h.row, f>> : f \in {g \in {"quantity", "value"} : h[g] < 0}}]

Fault(result, n) == [result EXCEPT !.errors = @ \cup {n}, !.skipped = @ + 1]

\* _parse_row and the body of the loop over the rows; row numbers count from
\* the first row under the header.
ParseRow(result, sheet, n) ==
  LET row == sheet.rows[n]
      h == Holding(n, row)
      seen == [result EXCEPT !.parsed = @ + 1]
  IN  CASE IsEmptyRow(row) -> result
        [] ~sheet.symbols \/ ~row.symbol -> Fault(seen, n)
        [] OTHER -> IF h.quantity = 0 /\ h.value = 0 THEN Skip(seen, h) ELSE Keep(seen, h)

Rounded(a, b) == (2 * a + b) \div (2 * b)

Added(numbers) ==
  LET sum[n \in 0..Len(numbers)] == IF n = 0 THEN 0 ELSE sum[n - 1] + numbers[n]
  IN  sum[Len(numbers)]

Total(holdings) == Added([n \in DOMAIN holdings |-> holdings[n].value])

\* Weights are shares of the file's total, where that is positive.
WithWeights(holdings) ==
  IF Total(holdings) <= 0 THEN holdings
  ELSE [n \in DOMAIN holdings |->
          [holdings[n] EXCEPT !.weight = Rounded(holdings[n].value * Unit, Total(holdings))]]

ImportCsvString(sheet) ==
  IF sheet.kind = "broken" \/ sheet.rows = <<>> THEN [NoResult EXCEPT !.errors = {0}]
  ELSE LET after[n \in 0..Len(sheet.rows)] ==
             IF n = 0 THEN NoResult ELSE ParseRow(after[n - 1], sheet, n)
       IN  [after[Len(sheet.rows)] EXCEPT !.holdings = WithWeights(@)]

\* _validate_holding of the database, for what the parser leaves open: a
\* negative amount is refused.
ValidHolding(h) == h.quantity >= 0 /\ h.value >= 0
===============================================================================
