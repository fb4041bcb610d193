----------------------------- MODULE MCCsvImport ------------------------------
(* A file of every fate: all rows kept, one left out, left blank, negative,  *)
(* at fault, or the file refused as a whole.                                 *)
EXTENDS CsvImport

Texts(symbol, quantity, value, others) ==
  [symbol |-> symbol, quantity |-> quantity, value |-> value, others |-> others]
R(symbol, quantity, value) == Texts(symbol, quantity, value, FALSE)

\* Rows between two that are kept.
Odd == {R(TRUE, 1, 1), R(TRUE, Unreadable, 0), R(FALSE, Blank, Blank), R(TRUE, 1, -1),
        R(FALSE, Unreadable, Blank), Texts(FALSE, Blank, Blank, TRUE)}

MCSheets ==
  {Sheet("csv", TRUE, <<R(TRUE, 1, 1), r, R(TRUE, 0, 2)>>) : r \in Odd}
  \cup {Sheet("csv", TRUE, <<R(TRUE, Blank, Blank)>>), Sheet("csv", FALSE, <<R(TRUE, 1, 1)>>)}
  \cup {Sheet(kind, TRUE, <<>>) : kind \in {"broken", "foreign", "large"}}
===============================================================================
