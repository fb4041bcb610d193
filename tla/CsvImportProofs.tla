---------------------------- MODULE CsvImportProofs -----------------------------
(***************************************************************************)
(* Machine-checked facts about CsvImport, for every set of portfolios and  *)
(* files and any number of views, requests and steps of others.            *)
(***************************************************************************)
EXTENDS CsvImport, WellFoundedInduction, TLAPS

-----------------------------------------------------------------------------
(* Counting up and defining step by step; induction over a set of numbers    *)
(* (a least counterexample), since the provers do not instantiate operators. *)

LEMMA CountUp ==
  ASSUME NEW L \in Nat, NEW P, 0 \in P, \A n \in 1..L : n - 1 \in P => n \in P
  PROVE  \A n \in 0..L : n \in P
<1> DEFINE Bad == {n \in 0..L : n \notin P}
<1> SUFFICES ASSUME Bad # {} PROVE FALSE
  OBVIOUS
<1>0. Bad \subseteq Nat
  OBVIOUS
<1>1. PICK m \in Bad : \A y \in Bad : ~(<<y, m>> \in OpToRel(<, Nat))
  <2> HIDE DEF Bad
  <2> QED
    BY <1>0, NatLessThanWellFounded, WFMin
<1>2. \A y \in Bad : ~(y < m)
  BY <1>0, <1>1 DEF OpToRel
<1>3. m \in 1..L
  OBVIOUS
<1>4. m - 1 \in 0..L /\ m - 1 < m
  BY <1>3
<1>5. m - 1 \in P
  BY <1>2, <1>4
<1> QED
  BY <1>3, <1>5

\* A start and L steps within S, and a function that follows them.
Steps(L, S, a, step) == L \in Nat /\ a \in S /\ step \in [1..L -> [S -> S]]

Follows(f, L, S, a, step) ==
  f \in [0..L -> S] /\ f[0] = a /\ \A n \in 1..L : f[n] = step[n][f[n - 1]]

LEMMA Recursion ==
  ASSUME NEW L, NEW S, NEW a, NEW step, Steps(L, S, a, step)
  PROVE  \E f : Follows(f, L, S, a, step)
<1> USE DEF Steps
<1> DEFINE P == {k \in 0..L : \E f \in [0..k -> S] :
                   f[0] = a /\ \A n \in 1..k : f[n] = step[n][f[n - 1]]}
<1>1. 0 \in P
  <2>1. PICK f : f = [n \in 0..0 |-> a]
    OBVIOUS
  <2>2. f \in [0..0 -> S] /\ f[0] = a
    BY <2>1
  <2> QED
    BY <2>2
<1>2. ASSUME NEW k \in 1..L, k - 1 \in P
      PROVE  k \in P
  <2>1. PICK g \in [0..(k - 1) -> S] :
          g[0] = a /\ \A n \in 1..(k - 1) : g[n] = step[n][g[n - 1]]
    BY <1>2
  <2>2. PICK f : f = [n \in 0..k |-> IF n = k THEN step[k][g[k - 1]] ELSE g[n]]
    OBVIOUS
  <2>3. g[k - 1] \in S /\ step[k][g[k - 1]] \in S
    OBVIOUS
  <2>4. \A n \in 0..k : n = k \/ n \in 0..(k - 1)
    OBVIOUS
  <2>5. f \in [0..k -> S]
    BY <2>2, <2>3, <2>4
  <2>6. f[0] = a
    BY <2>1, <2>2
  <2>7. ASSUME NEW n \in 1..k
        PROVE  f[n] = step[n][f[n - 1]]
    <3>1. n - 1 \in 0..k /\ n - 1 # k /\ f[n - 1] = g[n - 1]
      BY <2>2
    <3>2. CASE n = k
      BY <2>2, <3>1, <3>2
    <3>3. CASE n # k
      <4>1. n \in 1..(k - 1) /\ f[n] = g[n]
        BY <2>2, <3>3
      <4> QED
        BY <2>1, <3>1, <4>1
    <3> QED
      BY <3>2, <3>3
  <2> QED
    BY <2>5, <2>6, <2>7
<1>3. L \in P
  <2> HIDE DEF P
  <2>1. \A n \in 0..L : n \in P
    BY <1>1, <1>2, CountUp
  <2> QED
    BY <2>1
<1> QED
  BY <1>3 DEF Follows

\* The sum of a list, number by number.
LEMMA AddedSums ==
  ASSUME NEW s \in Seq(Int)
  PROVE  \E f \in [0..Len(s) -> Int] :
           /\ f[0] = 0
           /\ \A n \in 1..Len(s) : f[n] = f[n - 1] + s[n]
           /\ Added(s) = f[Len(s)]
<1>1. PICK L \in Nat : L = Len(s)
  OBVIOUS
<1>2. PICK step : step = [n \in 1..L |-> [x \in Int |-> x + s[n]]]
  OBVIOUS
<1>3. \A n \in 1..L : s[n] \in Int
  BY <1>1
<1>4. step \in [1..L -> [Int -> Int]]
  BY <1>2, <1>3
<1>5. PICK g \in [0..L -> Int] : g[0] = 0 /\ \A n \in 1..L : g[n] = step[n][g[n - 1]]
  <2>1. Steps(L, Int, 0, step)
    BY <1>1, <1>4 DEF Steps
  <2>2. \E g : Follows(g, L, Int, 0, step)
    BY <2>1, Recursion
  <2> QED
    BY <2>2 DEF Follows
<1>6. ASSUME NEW n \in 0..L
      PROVE  g[n] = IF n = 0 THEN 0 ELSE g[n - 1] + s[n]
  <2>1. n # 0 => n \in 1..L /\ n - 1 \in 0..L /\ g[n - 1] \in Int
    BY <1>5
  <2>2. n # 0 => step[n][g[n - 1]] = g[n - 1] + s[n]
    BY <1>2, <2>1
  <2> QED
    BY <1>5, <2>1, <2>2
<1>7. g = [n \in 0..L |-> IF n = 0 THEN 0 ELSE g[n - 1] + s[n]]
  BY <1>5, <1>6
<1>8. PICK f : /\ f = [n \in 0..L |-> IF n = 0 THEN 0 ELSE f[n - 1] + s[n]]
               /\ Added(s) = f[L]
  BY <1>1, <1>7 DEF Added
<1>9. f[0] = 0 /\ \A n \in 1..L : f[n] = f[n - 1] + s[n]
  BY <1>8
<1>10. \A n \in 0..L : f[n] \in Int
  <2> DEFINE P == {n \in 0..L : f[n] \in Int}
  <2>1. 0 \in P
    BY <1>9
  <2>2. ASSUME NEW n \in 1..L, n - 1 \in P
        PROVE  n \in P
    <3>1. f[n - 1] \in Int /\ s[n] \in Int /\ f[n] = f[n - 1] + s[n]
      BY <1>3, <1>9, <2>2
    <3> QED
      BY <3>1
  <2> HIDE DEF P
  <2>3. \A n \in 0..L : n \in P
    BY <2>1, <2>2, CountUp
  <2> QED
    BY <2>3 DEF P
<1> QED
  BY <1>1, <1>8, <1>9, <1>10

-----------------------------------------------------------------------------
(* Weights.                                                                  *)

\* Each share is the exact one but for half a unit.
LEMMA RoundedShare ==
  ASSUME NEW v \in Int, NEW t \in Nat, t > 0
  PROVE  /\ Rounded(v * Unit, t) \in Int
         /\ 2 * (t * Rounded(v * Unit, t)) <= 2 * (v * Unit) + t
         /\ 2 * (v * Unit) - t <= 2 * (t * Rounded(v * Unit, t))
<1>1. PICK a \in Int : a = v * Unit
  BY DEF Unit
<1>2. PICK b \in Nat : b = 2 * t /\ b > 0
  OBVIOUS
<1>3. PICK c \in Int : c = 2 * a + t
  OBVIOUS
<1>4. PICK q \in Int : q = c \div b /\ b * q <= c /\ c < b * q + b
  BY <1>2
<1>5. Rounded(v * Unit, t) = q
  BY <1>1, <1>2, <1>3, <1>4 DEF Rounded
<1>6. b * q = 2 * (t * q) /\ t * q \in Int
  BY <1>2
<1>7. 2 * (t * q) <= 2 * a + t /\ 2 * a + t < 2 * (t * q) + 2 * t
  BY <1>2, <1>3, <1>4, <1>6
<1>8. 2 * a - t <= 2 * (t * q)
  BY <1>6, <1>7
<1> QED
  BY <1>1, <1>5, <1>7, <1>8

\* A factor is cancelled.
LEMMA Cancelled ==
  ASSUME NEW t \in Nat, t > 0, NEW w \in Int, NEW u \in Int, NEW m \in Nat,
         2 * (t * w) <= 2 * (t * u) + m * t
  PROVE  w <= u + m
<1> SUFFICES ASSUME w > u + m PROVE FALSE
  OBVIOUS
<1>1. PICK d \in Nat : d = w - (u + m + 1)
  OBVIOUS
<1>2. w = u + m + 1 + d
  BY <1>1
<1>3. PICK tu \in Int : tu = t * u
  OBVIOUS
<1>4. PICK tm \in Nat : tm = t * m
  OBVIOUS
<1>5. PICK td \in Nat : td = t * d
  OBVIOUS
<1>6. t * w = tu + tm + t + td /\ m * t = tm
  BY <1>2, <1>3, <1>4, <1>5
<1>7. 2 * (tu + tm + t + td) <= 2 * tu + tm
  BY <1>3, <1>6
<1> QED
  BY <1>7

Listed == [row : Nat, quantity : Int, value : Int, weight : Int]

\* The weights of a file of positive worth are its shares, rounded; together
\* they miss the whole by no more than there are positions.
LEMMA WeightsAddUp ==
  ASSUME NEW holdings \in Seq(Listed), Total(holdings) > 0,
         NEW weighted, weighted = WithWeights(holdings)
  PROVE  Added([n \in DOMAIN weighted |-> weighted[n].weight])
           \in (Unit - Len(holdings)) .. (Unit + Len(holdings))
<1>1. PICK k \in Nat : k = Len(holdings) /\ DOMAIN holdings = 1..k
  OBVIOUS
<1>2. PICK values : values = [n \in 1..k |-> holdings[n].value]
  OBVIOUS
<1>3. values \in Seq(Int) /\ Len(values) = k
  <2>1. \A n \in 1..k : holdings[n] \in Listed
    BY <1>1
  <2>2. values \in [1..k -> Int]
    BY <1>2, <2>1 DEF Listed
  <2> QED
    BY <2>2
<1>4. PICK V \in [0..k -> Int] : /\ V[0] = 0
                                 /\ \A n \in 1..k : V[n] = V[n - 1] + values[n]
                                 /\ Total(holdings) = V[k]
  <2>1. Total(holdings) = Added(values)
    BY <1>1, <1>2 DEF Total
  <2>2. PICK V \in [0..Len(values) -> Int] : /\ V[0] = 0
                                             /\ \A n \in 1..Len(values) : V[n] = V[n - 1] + values[n]
                                             /\ Added(values) = V[Len(values)]
    <3>1. values \in Seq(Int)
      BY <1>3
    <3> QED
      BY <3>1, AddedSums, Zenon
  <2>3. V \in [0..k -> Int] /\ V[0] = 0 /\ Total(holdings) = V[k]
    BY <1>3, <2>1, <2>2
  <2>4. \A n \in 1..k : V[n] = V[n - 1] + values[n]
    BY <1>3, <2>2
  <2> QED
    BY <2>3, <2>4
<1>5. PICK t \in Nat : t = Total(holdings) /\ t > 0
  BY <1>1, <1>4
<1>6. weighted = [n \in 1..k |-> [holdings[n] EXCEPT !.weight = Rounded(holdings[n].value * Unit, t)]]
  BY <1>1, <1>5 DEF WithWeights
<1>7. PICK weights : weights = [n \in DOMAIN weighted |-> weighted[n].weight]
  OBVIOUS
<1>8. \A n \in 1..k : holdings[n] \in Listed /\ values[n] \in Int
  BY <1>1, <1>2, <1>3
<1>9. weights = [n \in 1..k |-> Rounded(values[n] * Unit, t)]
  <2>1. \A n \in 1..k : weighted[n].weight = Rounded(values[n] * Unit, t)
    BY <1>2, <1>6, <1>8 DEF Listed
  <2> QED
    BY <1>6, <1>7, <2>1
<1>10. \A n \in 1..k : /\ weights[n] \in Int
                       /\ 2 * (t * weights[n]) <= 2 * (values[n] * Unit) + t
                       /\ 2 * (values[n] * Unit) - t <= 2 * (t * weights[n])
  BY <1>5, <1>8, <1>9, RoundedShare
<1>11. weights \in Seq(Int) /\ Len(weights) = k
  BY <1>1, <1>9, <1>10
<1>12. PICK W \in [0..k -> Int] : /\ W[0] = 0
                                  /\ \A n \in 1..k : W[n] = W[n - 1] + weights[n]
                                  /\ Added(weights) = W[k]
  BY <1>11, AddedSums
<1> DEFINE P == {n \in 0..k : /\ 2 * (t * W[n]) <= 2 * (V[n] * Unit) + n * t
                              /\ 2 * (V[n] * Unit) - n * t <= 2 * (t * W[n])}
<1>13. 0 \in P
  BY <1>4, <1>5, <1>12 DEF Unit
<1>14. ASSUME NEW n \in 1..k, n - 1 \in P
       PROVE  n \in P
  <2>1. PICK w \in Int, v \in Int, x \in Int, y \in Int :
          w = weights[n] /\ v = values[n] /\ x = W[n - 1] /\ y = V[n - 1]
    <3>1. n - 1 \in 0..k
      OBVIOUS
    <3>2. W[n - 1] \in Int /\ V[n - 1] \in Int /\ weights[n] \in Int /\ values[n] \in Int
      BY <1>8, <1>10, <3>1
    <3> QED
      BY <3>2
  <2>2. W[n] = x + w /\ V[n] = y + v
    BY <1>4, <1>12, <2>1
  <2>3. /\ 2 * (t * x) <= 2 * (y * Unit) + (n - 1) * t
        /\ 2 * (y * Unit) - (n - 1) * t <= 2 * (t * x)
    BY <1>14, <2>1
  <2>4. 2 * (t * w) <= 2 * (v * Unit) + t /\ 2 * (v * Unit) - t <= 2 * (t * w)
    BY <1>10, <2>1
  <2>5. PICK tx \in Int, tw \in Int, yu \in Int, vu \in Int, nt \in Int :
          tx = t * x /\ tw = t * w /\ yu = y * Unit /\ vu = v * Unit /\ nt = n * t
    BY DEF Unit
  <2>6. t * (x + w) = tx + tw /\ (y + v) * Unit = yu + vu /\ (n - 1) * t = nt - t
    BY <2>5 DEF Unit
  <2>7. 2 * tx <= 2 * yu + (nt - t) /\ 2 * yu - (nt - t) <= 2 * tx
    BY <2>3, <2>5, <2>6
  <2>8. 2 * tw <= 2 * vu + t /\ 2 * vu - t <= 2 * tw
    BY <2>4, <2>5
  <2>9. /\ 2 * (tx + tw) <= 2 * (yu + vu) + nt
        /\ 2 * (yu + vu) - nt <= 2 * (tx + tw)
    BY <2>7, <2>8
  <2>10. /\ 2 * (t * W[n]) <= 2 * (V[n] * Unit) + n * t
         /\ 2 * (V[n] * Unit) - n * t <= 2 * (t * W[n])
    BY <2>2, <2>5, <2>6, <2>9
  <2> QED
    BY <2>10
<1>15. k \in P
  <2> HIDE DEF P
  <2>1. \A n \in 0..k : n \in P
    BY <1>13, <1>14, CountUp
  <2> QED
    BY <2>1
<1>16. /\ 2 * (t * W[k]) <= 2 * (t * Unit) + k * t
       /\ 2 * (t * Unit) - k * t <= 2 * (t * W[k])
  BY <1>4, <1>5, <1>15
<1>17. PICK u \in Int, w \in Int : u = Unit /\ w = W[k]
  BY DEF Unit
<1>18. /\ 2 * (t * w) <= 2 * (t * u) + k * t
       /\ 2 * (t * u) <= 2 * (t * w) + k * t
  BY <1>16, <1>17
<1>19. w <= u + k /\ u <= w + k
  BY <1>5, <1>18, Cancelled
<1>20. w \in (u - k) .. (u + k)
  BY <1>19
<1> QED
  BY <1>1, <1>7, <1>12, <1>17, <1>20

-----------------------------------------------------------------------------
(* Every row of a file is told of.                                           *)

Warning == Nat \X {"skipped", "quantity", "value"}

Result == [holdings : Seq(Listed), warnings : SUBSET Warning, errors : SUBSET Nat,
           parsed : Nat, skipped : Nat]

IsToldOf(sheet, m, r) ==
  \/ IsEmptyRow(sheet.rows[m])
  \/ \E i \in DOMAIN r.holdings : r.holdings[i].row = m
  \/ m \in r.errors
  \/ \E w \in r.warnings : w[1] = m

\* What is known after the first n rows tells of each of them, in order.
TellsUpTo(sheet, n, r) ==
  /\ r.parsed = Len(r.holdings) + r.skipped
  /\ \A i \in DOMAIN r.holdings : r.holdings[i].row \in 1..n
  /\ \A i, j \in DOMAIN r.holdings : i < j => r.holdings[i].row < r.holdings[j].row
  /\ \A m \in 1..n : IsToldOf(sheet, m, r)

\* The four ends of a row: it is empty, at fault, left out or kept.
RowEnd(sheet, n, r, new) ==
  \/ IsEmptyRow(sheet.rows[n]) /\ new = r
  \/ new = [r EXCEPT !.parsed = r.parsed + 1, !.errors = r.errors \cup {n},
                     !.skipped = r.skipped + 1]
  \/ new = [r EXCEPT !.parsed = r.parsed + 1, !.skipped = r.skipped + 1,
                     !.warnings = r.warnings \cup {<<n, "skipped">>}]
  \/ \E h \in Listed, more \in SUBSET Warning :
       /\ h.row = n
       /\ new = [r EXCEPT !.parsed = r.parsed + 1, !.holdings = Append(r.holdings, h),
                          !.warnings = r.warnings \cup more]

LEMMA RowEnds ==
  ASSUME NEW sheet, sheet.rows \in Seq(Row), NEW n \in 1..Len(sheet.rows), NEW r \in Result
  PROVE  RowEnd(sheet, n, r, ParseRow(r, sheet, n))
<1> SUFFICES ASSUME NEW new, new = ParseRow(r, sheet, n)
             PROVE  RowEnd(sheet, n, r, new)
  OBVIOUS
<1>1. PICK row \in Row : row = sheet.rows[n]
  OBVIOUS
<1>2. PICK h : h = Holding(n, row)
  OBVIOUS
<1>3. h \in Listed /\ h.row = n
  <2>1. ParseFloat(row.quantity) \in Int /\ ParseFloat(row.value) \in Int
    BY DEF ParseFloat, Row, Cell
  <2> QED
    BY <1>2, <2>1 DEF Holding, Listed
<1>4. PICK seen : seen = [r EXCEPT !.parsed = @ + 1]
  OBVIOUS
<1>5. \/ IsEmptyRow(row) /\ new = r
      \/ new = Fault(seen, n)
      \/ new = Skip(seen, h)
      \/ new = Keep(seen, h)
  BY <1>1, <1>2, <1>4 DEF ParseRow
<1>6. CASE new = Fault(seen, n)
  BY <1>4, <1>6 DEF Fault, Result, RowEnd
<1>7. CASE new = Skip(seen, h)
  BY <1>3, <1>4, <1>7 DEF Skip, Result, RowEnd
<1>8. CASE new = Keep(seen, h)
  <2>1. PICK more : more = {<<h.row, f>> : f \in {g \in {"quantity", "value"} : h[g] < 0}}
    OBVIOUS
  <2>2. more \in SUBSET Warning
    <3>1. h.row \in Nat
      BY <1>3
    <3>2. \A f \in {"quantity", "value"} : <<h.row, f>> \in Warning
      BY <3>1 DEF Warning
    <3> QED
      BY <2>1, <3>2
  <2>3. new = [r EXCEPT !.parsed = r.parsed + 1, !.holdings = Append(r.holdings, h),
                        !.warnings = r.warnings \cup more]
    BY <1>4, <1>8, <2>1 DEF Keep, Result
  <2> QED
    BY <1>3, <2>2, <2>3 DEF RowEnd
<1> QED
  BY <1>1, <1>5, <1>6, <1>7, <1>8 DEF RowEnd

\* None of them leaves the row untold, or forgets one.
LEMMA RowTells ==
  ASSUME NEW sheet, sheet.rows \in Seq(Row), NEW n \in 1..Len(sheet.rows), NEW r \in Result,
         NEW new, RowEnd(sheet, n, r, new)
  PROVE  new \in Result /\ (TellsUpTo(sheet, n - 1, r) => TellsUpTo(sheet, n, new))
<1>1. n \in Nat /\ \A m \in 1..n : m = n \/ m \in 1..(n - 1)
  OBVIOUS
<1>0. /\ r.holdings \in Seq(Listed) /\ r.warnings \in SUBSET Warning
      /\ r.errors \in SUBSET Nat /\ r.parsed \in Nat /\ r.skipped \in Nat
      /\ r = [holdings |-> r.holdings, warnings |-> r.warnings, errors |-> r.errors,
              parsed |-> r.parsed, skipped |-> r.skipped]
  BY DEF Result
<1>2. ASSUME new.holdings = r.holdings, r.warnings \subseteq new.warnings,
             r.errors \subseteq new.errors,
             new.parsed - new.skipped = r.parsed - r.skipped, IsToldOf(sheet, n, new),
             new \in Result, TellsUpTo(sheet, n - 1, r)
      PROVE  TellsUpTo(sheet, n, new)
  <2>1. \A m \in 1..(n - 1) : IsToldOf(sheet, m, new)
    BY <1>2 DEF TellsUpTo, IsToldOf
  <2>2. \A i \in DOMAIN new.holdings : new.holdings[i].row \in 1..n
    BY <1>2 DEF TellsUpTo
  <2>3. new.parsed = Len(new.holdings) + new.skipped
    <3>1. Len(r.holdings) \in Nat
      BY DEF Result
    <3> QED
      BY <1>2, <3>1 DEF TellsUpTo, Result
  <2> QED
    BY <1>1, <1>2, <2>1, <2>2, <2>3 DEF TellsUpTo
<1>3. CASE IsEmptyRow(sheet.rows[n]) /\ new = r
  BY <1>2, <1>3 DEF IsToldOf
<1>4. CASE new = [r EXCEPT !.parsed = r.parsed + 1, !.errors = r.errors \cup {n},
                           !.skipped = r.skipped + 1]
  <2>1. new \in Result
    <3>1. r.errors \cup {n} \in SUBSET Nat
      BY <1>0, <1>1
    <3>2. new = [holdings |-> r.holdings, warnings |-> r.warnings, errors |-> r.errors \cup {n},
                 parsed |-> r.parsed + 1, skipped |-> r.skipped + 1]
      BY <1>0, <1>4
    <3> QED
      BY <1>0, <3>1, <3>2 DEF Result
  <2>2. /\ new.holdings = r.holdings /\ r.warnings \subseteq new.warnings
        /\ r.errors \subseteq new.errors /\ n \in new.errors
        /\ new.parsed - new.skipped = r.parsed - r.skipped
    BY <1>4 DEF Result
  <2> QED
    BY <1>2, <2>1, <2>2 DEF IsToldOf
<1>5. CASE new = [r EXCEPT !.parsed = r.parsed + 1, !.skipped = r.skipped + 1,
                           !.warnings = r.warnings \cup {<<n, "skipped">>}]
  <2>1. new \in Result
    <3>1. r.warnings \cup {<<n, "skipped">>} \in SUBSET Warning
      BY <1>0, <1>1 DEF Warning
    <3>2. new = [holdings |-> r.holdings, warnings |-> r.warnings \cup {<<n, "skipped">>},
                 errors |-> r.errors, parsed |-> r.parsed + 1, skipped |-> r.skipped + 1]
      BY <1>0, <1>5
    <3> QED
      BY <1>0, <3>1, <3>2 DEF Result
  <2>2. /\ new.holdings = r.holdings /\ r.errors \subseteq new.errors
        /\ new.warnings = r.warnings \cup {<<n, "skipped">>}
        /\ new.parsed - new.skipped = r.parsed - r.skipped
    BY <1>5 DEF Result
  <2>3. IsToldOf(sheet, n, new)
    <3>1. <<n, "skipped">> \in new.warnings /\ <<n, "skipped">>[1] = n
      BY <2>2
    <3> QED
      BY <3>1 DEF IsToldOf
  <2> QED
    BY <1>2, <2>1, <2>2, <2>3
<1>6. ASSUME NEW h \in Listed, NEW more \in SUBSET Warning, h.row = n,
             new = [r EXCEPT !.parsed = r.parsed + 1, !.holdings = Append(r.holdings, h),
                             !.warnings = r.warnings \cup more]
      PROVE  new \in Result /\ (TellsUpTo(sheet, n - 1, r) => TellsUpTo(sheet, n, new))
  <2>1. r.holdings \in Seq(Listed) /\ Append(r.holdings, h) \in Seq(Listed)
    BY DEF Result
  <2>2. new \in Result
    <3>1. r.warnings \cup more \in SUBSET Warning
      BY <1>0
    <3>2. new = [holdings |-> Append(r.holdings, h), warnings |-> r.warnings \cup more,
                 errors |-> r.errors, parsed |-> r.parsed + 1, skipped |-> r.skipped]
      BY <1>0, <1>6
    <3> QED
      BY <1>0, <2>1, <3>1, <3>2 DEF Result
  <2>3. /\ new.holdings = Append(r.holdings, h) /\ r.warnings \subseteq new.warnings
        /\ new.errors = r.errors /\ new.parsed = r.parsed + 1 /\ new.skipped = r.skipped
    BY <1>6 DEF Result
  <2>4. PICK k \in Nat : k = Len(r.holdings) /\ DOMAIN r.holdings = 1..k
    BY <2>1
  <2>5. /\ Len(new.holdings) = k + 1 /\ DOMAIN new.holdings = 1..(k + 1)
        /\ new.holdings[k + 1] = h
        /\ \A i \in 1..k : new.holdings[i] = r.holdings[i]
    BY <2>1, <2>3, <2>4
  <2> SUFFICES ASSUME TellsUpTo(sheet, n - 1, r) PROVE TellsUpTo(sheet, n, new)
    BY <2>2
  <2>6. new.parsed = Len(new.holdings) + new.skipped
    BY <2>3, <2>4, <2>5 DEF TellsUpTo, Result
  <2>7. \A i \in 1..(k + 1) : i = k + 1 \/ i \in 1..k
    OBVIOUS
  <2>8. \A i \in 1..k : new.holdings[i].row \in 1..(n - 1)
    BY <2>4, <2>5 DEF TellsUpTo
  <2>9. new.holdings[k + 1].row = n
    BY <1>6, <2>5
  <2>10. \A i \in DOMAIN new.holdings : new.holdings[i].row \in 1..n
    BY <2>5, <2>7, <2>8, <2>9
  <2>11. ASSUME NEW i \in 1..(k + 1), NEW j \in 1..(k + 1), i < j
         PROVE  new.holdings[i].row < new.holdings[j].row
    <3>1. i \in 1..k
      BY <2>11
    <3>2. CASE j = k + 1
      BY <2>8, <2>9, <3>1, <3>2
    <3>3. CASE j \in 1..k
      BY <2>4, <2>5, <2>11, <3>1, <3>3 DEF TellsUpTo
    <3> QED
      BY <2>7, <3>2, <3>3
  <2>12. \A m \in 1..(n - 1) : IsToldOf(sheet, m, new)
    BY <2>3, <2>4, <2>5 DEF TellsUpTo, IsToldOf
  <2>13. IsToldOf(sheet, n, new)
    <3>1. k + 1 \in DOMAIN new.holdings
      BY <2>5
    <3> QED
      BY <2>9, <3>1 DEF IsToldOf
  <2> QED
    BY <1>1, <2>5, <2>6, <2>10, <2>11, <2>12, <2>13 DEF TellsUpTo
<1>7. CASE \E h \in Listed, more \in SUBSET Warning :
             /\ h.row = n
             /\ new = [r EXCEPT !.parsed = r.parsed + 1, !.holdings = Append(r.holdings, h),
                                !.warnings = r.warnings \cup more]
  BY <1>6, <1>7
<1> QED
  BY <1>3, <1>4, <1>5, <1>7 DEF RowEnd

\* The whole file, row after row.
LEMMA FileTells ==
  ASSUME NEW sheet, sheet.rows \in Seq(Row), sheet.kind # "broken", sheet.rows # <<>>
  PROVE  \E r \in Result : /\ TellsUpTo(sheet, Len(sheet.rows), r)
                           /\ ImportCsvString(sheet) = [r EXCEPT !.holdings = WithWeights(r.holdings)]
<1>1. PICK L \in Nat : L = Len(sheet.rows)
  OBVIOUS
<1>2. PICK step : step = [n \in 1..L |-> [r \in Result |-> ParseRow(r, sheet, n)]]
  OBVIOUS
<1>3. ASSUME NEW n \in 1..L, NEW r \in Result
      PROVE  /\ ParseRow(r, sheet, n) \in Result
             /\ TellsUpTo(sheet, n - 1, r) => TellsUpTo(sheet, n, ParseRow(r, sheet, n))
  BY <1>1, RowEnds, RowTells
<1>4. NoResult \in Result
  <2>1. <<>> \in Seq(Listed)
    OBVIOUS
  <2> QED
    BY <2>1 DEF NoResult, Result
<1>5. \E g : Follows(g, L, Result, NoResult, step)
  <2>1. Steps(L, Result, NoResult, step)
    BY <1>1, <1>2, <1>3, <1>4 DEF Steps
  <2> QED
    BY <2>1, Recursion
<1>6. PICK g \in [0..L -> Result] : g[0] = NoResult /\ \A n \in 1..L : g[n] = step[n][g[n - 1]]
  BY <1>5 DEF Follows
<1>7. ASSUME NEW n \in 0..L
      PROVE  g[n] = IF n = 0 THEN NoResult ELSE ParseRow(g[n - 1], sheet, n)
  <2>1. n # 0 => n \in 1..L /\ n - 1 \in 0..L /\ g[n - 1] \in Result
    BY <1>6
  <2>2. n # 0 => step[n][g[n - 1]] = ParseRow(g[n - 1], sheet, n)
    BY <1>2, <2>1
  <2> QED
    BY <1>6, <2>1, <2>2
<1>8. g = [n \in 0..L |-> IF n = 0 THEN NoResult ELSE ParseRow(g[n - 1], sheet, n)]
  BY <1>6, <1>7
<1>9. PICK f : /\ f = [n \in 0..L |-> IF n = 0 THEN NoResult ELSE ParseRow(f[n - 1], sheet, n)]
               /\ ImportCsvString(sheet) = [f[L] EXCEPT !.holdings = WithWeights(@)]
  BY <1>1, <1>8 DEF ImportCsvString
<1>10. f[0] = NoResult /\ \A n \in 1..L : f[n] = ParseRow(f[n - 1], sheet, n)
  <2>1. ASSUME NEW n \in 0..L
        PROVE  f[n] = IF n = 0 THEN NoResult ELSE ParseRow(f[n - 1], sheet, n)
    BY <1>9
  <2>2. \A n \in 1..L : n \in 0..L /\ n # 0
    OBVIOUS
  <2> QED
    BY <2>1, <2>2
<1>11. f[L] \in Result /\ TellsUpTo(sheet, L, f[L])
  <2> DEFINE P == {n \in 0..L : f[n] \in Result /\ TellsUpTo(sheet, n, f[n])}
  <2>1. 0 \in P
    <3>1. TellsUpTo(sheet, 0, NoResult)
      BY DEF TellsUpTo, NoResult
    <3> QED
      BY <1>4, <1>10, <3>1
  <2>2. ASSUME NEW n \in 1..L, n - 1 \in P
        PROVE  n \in P
    <3>1. f[n - 1] \in Result /\ TellsUpTo(sheet, n - 1, f[n - 1])
      BY <2>2
    <3>2. f[n] \in Result /\ TellsUpTo(sheet, n, f[n])
      BY <1>3, <1>10, <3>1
    <3> QED
      BY <3>2
  <2> HIDE DEF P
  <2>3. \A n \in 0..L : n \in P
    BY <2>1, <2>2, CountUp
  <2> QED
    BY <2>3 DEF P
<1> QED
  BY <1>1, <1>9, <1>11

\* Weights leave everything else of a holding alone.
LEMMA WeightsOnly ==
  ASSUME NEW holdings \in Seq(Listed)
  PROVE  /\ WithWeights(holdings) \in Seq(Listed)
         /\ Len(WithWeights(holdings)) = Len(holdings)
         /\ \A n \in 1..Len(holdings) : /\ WithWeights(holdings)[n].row = holdings[n].row
                                       /\ WithWeights(holdings)[n].value = holdings[n].value
<1>1. PICK k \in Nat : k = Len(holdings) /\ DOMAIN holdings = 1..k
  OBVIOUS
<1>2. PICK t : t = Total(holdings)
  OBVIOUS
<1>3. CASE t <= 0
  BY <1>2, <1>3 DEF WithWeights
<1>4. CASE ~(t <= 0)
  <2>1. PICK w : w = [n \in 1..k |->
                        [holdings[n] EXCEPT !.weight = Rounded(holdings[n].value * Unit, t)]]
    OBVIOUS
  <2>2. WithWeights(holdings) = w
    BY <1>1, <1>2, <1>4, <2>1 DEF WithWeights
  <2>3. t \in Nat /\ t > 0
    <3>1. [n \in DOMAIN holdings |-> holdings[n].value] \in Seq(Int)
      <4>1. \A n \in 1..k : holdings[n] \in Listed
        BY <1>1
      <4> QED
        BY <1>1, <4>1 DEF Listed
    <3>2. t \in Int
      BY <1>2, <3>1, AddedSums DEF Total
    <3> QED
      BY <1>4, <3>2
  <2>4. ASSUME NEW n \in 1..k
        PROVE  w[n] \in Listed /\ w[n].row = holdings[n].row /\ w[n].value = holdings[n].value
    <3>1. holdings[n] \in Listed
      BY <1>1
    <3>2. Rounded(holdings[n].value * Unit, t) \in Int
      BY <2>3, <3>1, RoundedShare DEF Listed
    <3> QED
      BY <2>1, <3>1, <3>2 DEF Listed
  <2>5. w \in Seq(Listed) /\ Len(w) = k
    BY <2>1, <2>4
  <2> QED
    BY <1>1, <2>2, <2>4, <2>5
<1> QED
  BY <1>3, <1>4

\* import_csv_string tells of every row of every file, lists holdings in the
\* order of their rows, and weighs them to the whole but for the rounding.
THEOREM ParserTells ==
  ASSUME NEW sheet, sheet.rows \in Seq(Row)
  PROVE  TellsEveryRow(sheet, ImportCsvString(sheet))
<1>1. CASE sheet.kind = "broken" \/ sheet.rows = <<>>
  <2>1. 0 \in ImportCsvString(sheet).errors
    BY <1>1 DEF ImportCsvString, NoResult
  <2> QED
    BY <2>1 DEF TellsEveryRow
<1>2. CASE ~(sheet.kind = "broken" \/ sheet.rows = <<>>)
  <2>1. PICK r \in Result : /\ TellsUpTo(sheet, Len(sheet.rows), r)
                           /\ ImportCsvString(sheet) = [r EXCEPT !.holdings = WithWeights(r.holdings)]
    BY <1>2, FileTells
  <2>2. PICK result : result = ImportCsvString(sheet)
    OBVIOUS
  <2>3. PICK hs, ws : hs \in Seq(Listed) /\ hs = r.holdings /\ ws = WithWeights(hs)
    BY DEF Result
  <2>4. /\ result.holdings = ws /\ result.errors = r.errors /\ result.warnings = r.warnings
        /\ result.parsed = r.parsed /\ result.skipped = r.skipped
    BY <2>1, <2>2, <2>3 DEF Result
  <2>5. PICK k \in Nat : k = Len(hs) /\ DOMAIN hs = 1..k
    BY <2>3
  <2>6. /\ ws \in Seq(Listed) /\ Len(ws) = k /\ DOMAIN ws = 1..k
        /\ \A n \in 1..k : ws[n].row = hs[n].row /\ ws[n].value = hs[n].value
    BY <2>3, <2>5, WeightsOnly
  <2>7. PICK listed : listed = [n \in DOMAIN result.holdings |-> result.holdings[n].row]
    OBVIOUS
  <2>8. DOMAIN listed = 1..k /\ \A n \in 1..k : listed[n] = hs[n].row
    BY <2>4, <2>6, <2>7
  <2>9. Len(listed) = k
    BY <2>4, <2>6, <2>7
  <2>10. PICK named : named = result.errors \cup {w[1] : w \in result.warnings}
    OBVIOUS
  <2>11. ASSUME NEW n \in DOMAIN sheet.rows
         PROVE  IsEmptyRow(sheet.rows[n]) \/ n \in Range(listed) \cup named
    <3>1. IsToldOf(sheet, n, r)
      BY <2>1, <2>11 DEF TellsUpTo
    <3>2. \A i \in DOMAIN r.holdings : r.holdings[i].row = n => n \in Range(listed)
      BY <2>3, <2>5, <2>8 DEF Range
    <3> QED
      BY <2>4, <2>10, <3>1, <3>2 DEF IsToldOf
  <2>12. \A m, n \in DOMAIN listed : m < n => listed[m] < listed[n]
    BY <2>1, <2>3, <2>5, <2>8 DEF TellsUpTo
  <2>13. result.parsed = Len(listed) + result.skipped
    BY <2>1, <2>3, <2>4, <2>5, <2>9 DEF TellsUpTo
  <2>14. Total(result.holdings) > 0 =>
           Added([n \in DOMAIN result.holdings |-> result.holdings[n].weight])
             \in (Unit - Len(listed)) .. (Unit + Len(listed))
    <3>1. [n \in DOMAIN ws |-> ws[n].value] = [n \in DOMAIN hs |-> hs[n].value]
      BY <2>5, <2>6
    <3>2. Total(ws) = Total(hs)
      BY <3>1 DEF Total
    <3> QED
      BY <2>3, <2>4, <2>5, <2>9, <3>2, WeightsAddUp
  <2> QED
    BY <2>2, <2>7, <2>10, <2>11, <2>12, <2>13, <2>14 DEF TellsEveryRow
<1> QED
  BY <1>1, <1>2

-----------------------------------------------------------------------------
(* The inductive invariant.                                                  *)

Refusable == {"foreign", "large"}

\* Until another tab or client changes the choice or the portfolios, and again
\* once the user has chosen from an up-to-date selector, every list that is on
\* its way is the present one.
ListsCurrent == ~moved => portfolios # {} /\ ListsPresent

\* No holding is stored for a portfolio that is not there.
HeldExists == Held \subseteq portfolios

\* The loaders and the selector are records throughout, and of the portfolios
\* listed some have holdings.
Formed ==
  /\ portfolios \subseteq Portfolios
  /\ fetched = [l \in Loaders |-> fetched[l]]
  /\ \A l \in Loaders : fetched[l] \notin {None, Asked} => fetched[l].held \subseteq fetched[l].all
  /\ shell = [offers |-> shell.offers, shows |-> shell.shows]

\* Until then, too, if the browser keeps the choice, selector, view and stored
\* choice agree as far as each of them has been resolved, and a file is only
\* handed in with a portfolio.
ChoiceAgrees ==
  ~moved /\ storage =>
    /\ chosen = None \/ chosen \in portfolios
    /\ shell.shows \in {None, chosen}
    /\ view.portfolio \in {None, chosen}
    /\ view.status \in {"parsing", "previewing"} => view.portfolio # None

\* What a view shows for review is what the parser makes of the user's file.
ViewShape ==
  /\ file \in Sheets
  /\ view = [number |-> view.number, status |-> view.status, portfolio |-> view.portfolio,
             sheet |-> view.sheet, preview |-> view.preview]
  /\ view.number \in 0..MaxViews
  /\ view.number = 0 => view.portfolio = None /\ view.status = "idle"
  /\ view.status \in {"parsing", "previewing"} => view.sheet = file
  /\ view.status = "previewing" => view.preview # None
  /\ view.preview # None => /\ view.sheet = file /\ file.kind \notin Refusable
                            /\ view.preview = ImportCsvString(file)

\* Where the browser keeps the choice, a confirmation and what it stores are
\* for the portfolio that was shown.
ForShown(x) == storage => x.excused \/ x.portfolio = x.shows

\* A view waits for one answer at a time; a confirmation is of what its user
\* had reviewed.
RequestShape(r) ==
  /\ r = [number |-> r.number, kind |-> r.kind, view |-> r.view, portfolio |-> r.portfolio,
          sheet |-> r.sheet, answer |-> r.answer, review |-> r.review, shows |-> r.shows,
          excused |-> r.excused]
  /\ r.kind \in {"preview", "confirm"} /\ r.view \in 0..view.number /\ r.sheet = file
  /\ r.view = view.number => view.status = IF r.kind = "preview" THEN "parsing" ELSE "importing"
  /\ r.kind = "preview" /\ r.answer \notin {None, Refused} =>
       r.answer = ImportCsvString(file) /\ file.kind \notin Refusable
  /\ r.kind = "confirm" => /\ r.review # None /\ r.review = ImportCsvString(file)
                           /\ ForShown(r)

RequestsShaped ==
  /\ \A r \in requests : RequestShape(r)
  /\ \A q, r \in requests : q.view = view.number /\ r.view = view.number => q = r

Agreed == Formed /\ ListsCurrent /\ HeldExists /\ ChoiceAgrees

Reviewed == ViewShape /\ RequestsShaped

ImportInv == Agreed /\ Reviewed /\ StoredAsReviewed /\ ImportsWhereShown

-----------------------------------------------------------------------------
(* The first portfolio of a list.                                            *)

LEMMA FirstOf ==
  ASSUME NEW S \in SUBSET Nat, S # {}
  PROVE  First(S) \in S
<1>1. PICK m \in S : \A y \in S : ~(<<y, m>> \in OpToRel(<, Nat))
  BY NatLessThanWellFounded, WFMin
<1>2. \A y \in S : ~(y < m)
  BY <1>1 DEF OpToRel
<1>3. \A y \in S : m <= y
  BY <1>2
<1> QED
  BY <1>3 DEF First

\* Whatever the selector or a view resolves is in its list, and it is the
\* stored choice where that is in the list.
LEMMA SelectedOf ==
  ASSUME NEW list, list.all \subseteq Portfolios, list.all # {}, list.held \subseteq list.all
  PROVE  /\ Selected(list) \in list.all
         /\ Selected(list) # None
         /\ chosen \in list.all => Selected(list) = chosen
<1>1. list.all \subseteq Nat /\ None \notin list.all
  BY ImportAssumption
<1>2. DefaultPortfolioId(list) \in list.all
  <2>1. CASE list.held # {}
    BY <1>1, <2>1, FirstOf DEF DefaultPortfolioId
  <2>2. CASE list.held = {}
    BY <1>1, <2>2, FirstOf DEF DefaultPortfolioId
  <2> QED
    BY <2>1, <2>2
<1> QED
  BY <1>1, <1>2 DEF Selected

-----------------------------------------------------------------------------
(* The beginning.                                                            *)

LEMMA ImportStarts ==
  ASSUME Init
  PROVE  ImportInv
<1>1. view = NewView(0) /\ requests = {} /\ moved = FALSE /\ chosen = None
  BY DEF Init
<1>2. Formed /\ ListsCurrent
  <2>1. \A l \in Loaders : fetched[l] \in {None, Asked}
    BY DEF Init
  <2>2. fetched = [l \in Loaders |-> fetched[l]]
    BY DEF Init
  <2>3. shell = [offers |-> {}, shows |-> None]
    BY DEF Init
  <2>4. portfolios \subseteq Portfolios /\ portfolios # {}
    BY DEF Init
  <2> QED
    BY <2>1, <2>2, <2>3, <2>4 DEF Formed, ListsCurrent, ListsPresent
<1>3. PICK ps \in SUBSET portfolios : stored = {[portfolio |-> p, holdings |-> Others] : p \in ps}
  BY DEF Init
<1>4. HeldExists
  BY <1>3 DEF HeldExists, Held
<1>5. ChoiceAgrees
  BY <1>1 DEF Init, ChoiceAgrees, NewView
<1>6. ViewShape
  BY <1>1, ImportAssumption DEF Init, ViewShape, NewView
<1>7. RequestsShaped
  BY <1>1 DEF RequestsShaped
<1>8. Imports = {}
  BY <1>3 DEF Imports
<1> QED
  BY <1>2, <1>4, <1>5, <1>6, <1>7, <1>8
     DEF ImportInv, Agreed, Reviewed, StoredAsReviewed, ImportsWhereShown, StoredWhereShown

-----------------------------------------------------------------------------
(* The choice.                                                               *)

LEMMA ListPortfoliosAgrees ==
  ASSUME ImportInv, NEW l \in Loaders, ListPortfolios(l)
  PROVE  Agreed'
<1> DEFINE list == [all |-> portfolios, held |-> Held]
<1> USE DEF ImportInv, Agreed
<1>1. /\ fetched' = [fetched EXCEPT ![l] = list]
      /\ UNCHANGED <<portfolios, stored, storage, chosen, shell, view, moved>>
  BY DEF ListPortfolios, serverVars, othersVars
<1>2. fetched' = [k \in Loaders |-> IF k = l THEN list ELSE fetched[k]]
  BY <1>1 DEF Formed
<1>5. list.all = portfolios /\ list.held \subseteq portfolios
  BY DEF HeldExists
<1>3. Formed'
  BY <1>1, <1>2, <1>5 DEF Formed
<1>4. HeldExists'
  BY <1>1 DEF HeldExists, Held
<1>6. ListsCurrent'
  BY <1>1, <1>2, <1>5 DEF ListsCurrent, ListsPresent
<1>7. ChoiceAgrees'
  BY <1>1 DEF ChoiceAgrees
<1> QED
  BY <1>3, <1>4, <1>6, <1>7

LEMMA ResolveAgrees ==
  ASSUME ImportInv, NEW l \in Loaders, Resolve(l)
  PROVE  Agreed'
<1> DEFINE list == fetched[l]
           selected == IF list.all = {} THEN None ELSE Selected(list)
<1> USE DEF ImportInv, Agreed
<1>1. /\ list \notin {None, Asked}
      /\ fetched' = [fetched EXCEPT ![l] = None]
      /\ IF selected = None THEN UNCHANGED chosen ELSE Keeps(selected)
      /\ shell' = IF l = Shell THEN [offers |-> list.all, shows |-> selected] ELSE shell
      /\ view' = IF l # Shell /\ l = view.number THEN [view EXCEPT !.portfolio = selected] ELSE view
      /\ UNCHANGED <<portfolios, stored, storage, moved>>
  BY DEF Resolve, serverVars, othersVars
<1>2. fetched' = [k \in Loaders |-> IF k = l THEN None ELSE fetched[k]]
  BY <1>1 DEF Formed
<1>3. Formed'
  BY <1>1, <1>2 DEF Formed
<1>4. HeldExists'
  BY <1>1 DEF HeldExists, Held
<1>5. ~moved => /\ list.all = portfolios /\ list.held \subseteq portfolios
                /\ portfolios \subseteq Portfolios /\ portfolios # {}
  BY <1>1 DEF ListsCurrent, ListsPresent, Formed
<1>6. ~moved => /\ selected \in portfolios /\ selected # None
                /\ chosen \in portfolios => selected = chosen
  BY <1>5, SelectedOf
<1> HIDE DEF selected
<1>7. ListsCurrent'
  <2>1. shell'.offers = IF l = Shell THEN list.all ELSE shell.offers
    BY <1>1
  <2> QED
    BY <1>1, <1>2, <1>5, <2>1 DEF ListsCurrent, ListsPresent
<1>8. ChoiceAgrees'
  <2> SUFFICES ASSUME ~moved', storage'
               PROVE  /\ chosen' = None \/ chosen' \in portfolios'
                      /\ shell'.shows \in {None, chosen'}
                      /\ view'.portfolio \in {None, chosen'}
                      /\ view'.status \in {"parsing", "previewing"} => view'.portfolio # None
    BY DEF ChoiceAgrees
  <2>1. ~moved /\ storage
    BY <1>1
  <2>2. chosen' = selected
    BY <1>1, <1>6, <2>1 DEF Keeps
  <2>3. chosen \in {None, selected}
    BY <1>6, <2>1 DEF ChoiceAgrees
  <2>4. /\ shell.shows \in {None, selected}
        /\ view.portfolio \in {None, selected}
        /\ view.status \in {"parsing", "previewing"} => view.portfolio # None
    BY <2>1, <2>3 DEF ChoiceAgrees
  <2>5. shell'.shows \in {None, selected}
    BY <1>1, <2>4
  <2>6. /\ view'.portfolio \in {selected, view.portfolio}
        /\ view'.status = view.status
    <3> view = [number |-> view.number, status |-> view.status, portfolio |-> view.portfolio,
                sheet |-> view.sheet, preview |-> view.preview]
      BY DEF Reviewed, ViewShape
    <3> QED
      BY <1>1
  <2> QED
    BY <1>1, <1>6, <2>1, <2>2, <2>4, <2>5, <2>6
<1> QED
  BY <1>3, <1>4, <1>7, <1>8

LEMMA ListFailsAgrees ==
  ASSUME ImportInv, NEW l \in Loaders, ListFails(l)
  PROVE  Agreed'
<1> USE DEF ImportInv, Agreed
<1>1. /\ fetched' = [fetched EXCEPT ![l] = None]
      /\ UNCHANGED <<portfolios, stored, storage, chosen, shell, view, moved>>
  BY DEF ListFails, serverVars, othersVars
<1>2. fetched' = [k \in Loaders |-> IF k = l THEN None ELSE fetched[k]]
  BY <1>1 DEF Formed
<1>3. Formed' /\ HeldExists' /\ ChoiceAgrees'
  BY <1>1, <1>2 DEF Formed, HeldExists, Held, ChoiceAgrees
<1>4. ListsCurrent'
  BY <1>1, <1>2 DEF ListsCurrent, ListsPresent
<1> QED
  BY <1>3, <1>4

\* A newly mounted view asks for the list, and has no portfolio yet.
LEMMA MountsLoads ==
  ASSUME ImportInv, Mounts
  PROVE  /\ view' = NewView(view.number + 1) /\ view.number + 1 \in 1..MaxViews
         /\ fetched' = [k \in Loaders |-> IF k = view.number + 1 THEN Asked ELSE fetched[k]]
<1>1. fetched = [k \in Loaders |-> fetched[k]]
  BY DEF ImportInv, Agreed, Formed
<1>2. view.number \in 0..MaxViews /\ MaxViews \in Nat
  BY ImportAssumption DEF ImportInv, Reviewed, ViewShape
<1>3. view.number + 1 \in 1..MaxViews
  BY <1>2 DEF Mounts
<1>4. fetched' = [fetched EXCEPT ![view.number + 1] = Asked]
  BY DEF Mounts
<1> QED
  BY <1>1, <1>3, <1>4 DEF Mounts

LEMMA NavigateAgrees ==
  ASSUME ImportInv, Navigate
  PROVE  Agreed'
<1> USE DEF ImportInv, Agreed
<1>1. UNCHANGED <<portfolios, stored, storage, chosen, shell, moved>>
  BY DEF Navigate, serverVars, othersVars
<1>2. /\ view' = NewView(view.number + 1)
      /\ fetched' = [k \in Loaders |-> IF k = view.number + 1 THEN Asked ELSE fetched[k]]
  BY MountsLoads DEF Navigate
<1>3. Formed' /\ HeldExists'
  BY <1>1, <1>2 DEF Formed, HeldExists, Held
<1>4. ListsCurrent'
  BY <1>1, <1>2 DEF ListsCurrent, ListsPresent
<1>5. ChoiceAgrees'
  BY <1>1, <1>2 DEF ChoiceAgrees, NewView
<1> QED
  BY <1>3, <1>4, <1>5

LEMMA SelectPortfolioAgrees ==
  ASSUME ImportInv, SelectPortfolio
  PROVE  Agreed'
<1> USE DEF ImportInv, Agreed
<1>1. UNCHANGED <<portfolios, stored, storage>> /\ moved' = (moved /\ ~ListsPresent)
  BY DEF SelectPortfolio, Chooses, serverVars
<1>2. PICK p \in shell.offers : shell' = [shell EXCEPT !.shows = p] /\ Keeps(p)
  BY DEF SelectPortfolio, Chooses
<1>0. ~moved' => ListsPresent /\ p \in portfolios
  BY <1>1, <1>2 DEF ListsCurrent, ListsPresent
<1>3. /\ shell'.offers = shell.offers /\ shell'.shows = p
      /\ shell' = [offers |-> shell'.offers, shows |-> shell'.shows]
  BY <1>2 DEF Formed
<1>4. \/ view.number = 0 /\ UNCHANGED <<view, fetched>>
      \/ /\ view' = NewView(view.number + 1)
         /\ fetched' = [k \in Loaders |-> IF k = view.number + 1 THEN Asked ELSE fetched[k]]
  BY MountsLoads DEF SelectPortfolio
<1>5. Formed' /\ HeldExists'
  BY <1>1, <1>3, <1>4 DEF Formed, HeldExists, Held
<1>6. ListsCurrent'
  BY <1>0, <1>1, <1>3, <1>4 DEF ListsCurrent, ListsPresent
<1>7. ChoiceAgrees'
  <2>2. storage => chosen' = p
    BY <1>2 DEF Keeps
  <2>3. view'.portfolio = None /\ view'.status = "idle"
    BY <1>4 DEF Reviewed, ViewShape, NewView
  <2> QED
    BY <1>0, <1>1, <1>3, <2>2, <2>3 DEF ChoiceAgrees
<1> QED
  BY <1>5, <1>6, <1>7

\* The steps of the view and of the server that leave lists and choice alone.
LEMMA ViewAgrees ==
  ASSUME ImportInv, UNCHANGED <<portfolios, storage, chosen, fetched, shell, moved>>,
         Held' \subseteq portfolios,
         view'.portfolio = view.portfolio,
         view'.status \in {"parsing", "previewing"} =>
           view.portfolio # None \/ view.status \in {"parsing", "previewing"}
  PROVE  Agreed'
<1>1. Formed' /\ HeldExists' /\ ListsCurrent'
  BY DEF ImportInv, Agreed, Formed, HeldExists, ListsCurrent, ListsPresent
<1>2. ChoiceAgrees'
  BY DEF ImportInv, Agreed, ChoiceAgrees
<1> QED
  BY <1>1, <1>2 DEF Agreed

LEMMA OthersAgree ==
  ASSUME ImportInv, OtherTabSelects \/ CreatePortfolio \/ DeletePortfolio \/ AddHolding
  PROVE  Agreed'
<1> USE DEF ImportInv, Agreed
<1>1. UNCHANGED <<storage, fetched, shell, view>>
  BY DEF OtherTabSelects, CreatePortfolio, DeletePortfolio, AddHolding, OthersStep
<1>2. Formed'
  <2>1. portfolios' \subseteq Portfolios
    BY DEF Formed, OtherTabSelects, CreatePortfolio, DeletePortfolio, AddHolding, serverVars
  <2> QED
    BY <1>1, <2>1 DEF Formed
<1>3. CASE OtherTabSelects
  <2>1. moved' /\ UNCHANGED <<portfolios, stored>>
    BY <1>3 DEF OtherTabSelects, OthersStep, serverVars
  <2>2. HeldExists'
    BY <2>1 DEF HeldExists, Held
  <2> QED
    BY <1>2, <2>1, <2>2 DEF ListsCurrent, ChoiceAgrees
<1>4. CASE CreatePortfolio
  <2>1. PICK p \in Portfolios \ portfolios : portfolios' = portfolios \cup {p}
    BY <1>4 DEF CreatePortfolio
  <2>2. /\ UNCHANGED <<stored, chosen>>
        /\ moved' = (moved \/ \E l \in Loaders : fetched[l] \notin {None, Asked})
    BY <1>4 DEF CreatePortfolio, OthersStep
  <2>3. HeldExists'
    BY <2>1, <2>2 DEF HeldExists, Held
  <2>4. ListsCurrent'
    BY <1>1, <2>1, <2>2 DEF ListsCurrent, ListsPresent
  <2>5. ChoiceAgrees'
    BY <1>1, <2>1, <2>2 DEF ChoiceAgrees
  <2> QED
    BY <1>2, <2>3, <2>4, <2>5
<1>5. CASE DeletePortfolio
  <2>1. moved'
    BY <1>5 DEF DeletePortfolio, OthersStep
  <2>2. PICK p \in portfolios : /\ portfolios' = portfolios \ {p}
                                /\ stored' = {s \in stored : s.portfolio # p}
    BY <1>5 DEF DeletePortfolio
  <2>3. HeldExists'
    BY <2>2 DEF HeldExists, Held
  <2> QED
    BY <1>2, <2>1, <2>3 DEF ListsCurrent, ChoiceAgrees
<1>6. CASE AddHolding
  <2>1. UNCHANGED <<portfolios, chosen>> /\ moved' = (moved \/ FALSE)
    BY <1>6 DEF AddHolding, OthersStep
  <2>2. PICK p \in portfolios \ Held : stored' = stored \cup {[portfolio |-> p, holdings |-> Others]}
    BY <1>6 DEF AddHolding
  <2>3. HeldExists'
    BY <2>1, <2>2 DEF HeldExists, Held
  <2>4. ListsCurrent' /\ ChoiceAgrees'
    BY <1>1, <2>1 DEF ListsCurrent, ListsPresent, ChoiceAgrees
  <2> QED
    BY <1>2, <2>3, <2>4
<1> QED
  BY <1>3, <1>4, <1>5, <1>6

-----------------------------------------------------------------------------
(* The reviews.                                                              *)

ViewFields ==
  view = [number |-> view.number, status |-> view.status, portfolio |-> view.portfolio,
          sheet |-> view.sheet, preview |-> view.preview]

\* A step that leaves the file, what the view shows and the requests alone.
LEMMA ReviewedKept ==
  ASSUME ImportInv, UNCHANGED <<file, storage, requests>>, ViewFields',
         view'.number = view.number, view'.status = view.status,
         view'.sheet = view.sheet, view'.preview = view.preview,
         view.number = 0 => view'.portfolio = view.portfolio
  PROVE  Reviewed'
<1>1. ViewShape'
  BY DEF ImportInv, Reviewed, ViewShape, ViewFields
<1>2. RequestsShaped'
  BY DEF ImportInv, Reviewed, RequestsShaped, RequestShape, ForShown
<1> QED
  BY <1>1, <1>2 DEF Reviewed

\* A view that is mounted awaits nothing; the requests of the one before it
\* are not its own.
LEMMA MountsReviewed ==
  ASSUME ImportInv, Mounts, UNCHANGED <<file, storage, requests>>
  PROVE  Reviewed'
<1>1. /\ view' = NewView(view.number + 1) /\ view.number + 1 \in 1..MaxViews
      /\ view.number \in 0..MaxViews
  BY MountsLoads DEF ImportInv, Reviewed, ViewShape
<1>2. ViewShape'
  BY <1>1, ImportAssumption DEF ImportInv, Reviewed, ViewShape, NewView
<1>3. \A r \in requests : r.view \in 0..view.number /\ r.view # view.number + 1
  BY <1>1 DEF ImportInv, Reviewed, RequestsShaped, RequestShape
<1>4. view'.number = view.number + 1
  BY <1>1 DEF NewView
<1>5. ASSUME NEW r \in requests
      PROVE  RequestShape(r)'
  <2>1. r.view \in 0..view'.number /\ r.view # view'.number
    BY <1>1, <1>3, <1>4
  <2> QED
    BY <2>1 DEF ImportInv, Reviewed, RequestsShaped, RequestShape, ForShown
<1>6. RequestsShaped'
  BY <1>3, <1>4, <1>5 DEF RequestsShaped
<1> QED
  BY <1>2, <1>6 DEF Reviewed

\* A view that awaits an answer can only be parsing or importing.
LEMMA NothingAwaited ==
  ASSUME ImportInv, view.status \notin {"parsing", "importing"}
  PROVE  \A r \in requests : r.view # view.number
BY DEF ImportInv, Reviewed, RequestsShaped, RequestShape

\* Handing in a file and confirming a review: the view awaits one answer more.
LEMMA SendsReviewed ==
  ASSUME ImportInv, NEW kind \in {"preview", "confirm"}, Sends(kind, file),
         UNCHANGED <<file, storage>>,
         view.status \notin {"parsing", "importing"}, view.number > 0,
         view' = [view EXCEPT !.sheet = file,
                    !.status = IF kind = "preview" THEN "parsing" ELSE "importing"],
         kind = "confirm" => view.status = "previewing"
  PROVE  Reviewed'
<1>1. PICK new : /\ new = [number |-> sent, kind |-> kind, view |-> view.number,
                          portfolio |-> view.portfolio, sheet |-> file, answer |-> None,
                          review |-> view.preview, shows |-> shell.shows,
                          excused |-> moved \/ shell.shows = None]
                 /\ requests' = requests \cup {new}
  BY DEF Sends
<1>2. /\ view.number \in 0..MaxViews
      /\ view'.number = view.number /\ view'.sheet = file /\ view'.preview = view.preview
      /\ view'.status = IF kind = "preview" THEN "parsing" ELSE "importing"
      /\ view'.portfolio = view.portfolio /\ ViewFields'
  BY DEF ImportInv, Reviewed, ViewShape, ViewFields
<1>3. ViewShape'
  BY <1>2 DEF ImportInv, Reviewed, ViewShape, ViewFields
<1>4. \A r \in requests : RequestShape(r) /\ r.view # view.number
  BY NothingAwaited DEF ImportInv, Reviewed, RequestsShaped
<1>5. \A r \in requests : RequestShape(r)'
  BY <1>2, <1>4 DEF RequestShape, ForShown
<1>6. kind = "confirm" => view.preview # None /\ view.preview = ImportCsvString(file)
  BY DEF ImportInv, Reviewed, ViewShape
<1>7. kind = "confirm" => ForShown(new)'
  <2> SUFFICES ASSUME kind = "confirm", ~moved, storage, shell.shows # None
               PROVE  view.portfolio = shell.shows
    BY <1>1 DEF ForShown
  <2> QED
    BY DEF ImportInv, Agreed, ChoiceAgrees
<1>8. RequestShape(new)'
  <2>1. new.view \in 0..view'.number
    BY <1>1, <1>2
  <2>2. new = [number |-> new.number, kind |-> new.kind, view |-> new.view,
               portfolio |-> new.portfolio, sheet |-> new.sheet, answer |-> new.answer,
               review |-> new.review, shows |-> new.shows, excused |-> new.excused]
    BY <1>1
  <2>3. new.kind = kind /\ new.sheet = file /\ new.answer = None /\ new.review = view.preview
    BY <1>1
  <2> QED
    BY <1>2, <1>6, <1>7, <2>1, <2>2, <2>3 DEF RequestShape
<1>9. RequestsShaped'
  BY <1>1, <1>2, <1>4, <1>5, <1>8 DEF RequestsShaped
<1> QED
  BY <1>3, <1>9 DEF Reviewed

\* A request that nobody waits for any more.
GivenUp(r) == [r EXCEPT !.view = 0]

\* An answer, or the end of the connection: the request is gone, or nobody
\* waits for it, and the view that sent it awaits nothing more.
LEMMA TellsReviewed ==
  ASSUME ImportInv, NEW r \in requests, UNCHANGED <<file, storage>>,
         \/ requests' = requests \ {r}
         \/ r.kind = "confirm" /\ requests' = (requests \ {r}) \cup {GivenUp(r)},
         NEW ok \in BOOLEAN, Tells(r, ok),
         ok => r.answer \notin {None, Refused}
  PROVE  Reviewed' /\ view'.portfolio = view.portfolio
<1>1. RequestShape(r) /\ ViewShape /\ ViewFields
  BY DEF ImportInv, Reviewed, RequestsShaped, ViewShape, ViewFields
<1>4. view.number # 0 /\ view.number \in Nat
  BY <1>1, ImportAssumption DEF RequestShape, ViewShape
<1>5. ASSUME NEW q \in requests'
      PROVE  RequestShape(q) /\ (q \in requests \ {r} \/ q.view # view.number)
  <2>1. CASE q \in requests \ {r}
    BY <2>1 DEF ImportInv, Reviewed, RequestsShaped
  <2>2. CASE r.kind = "confirm" /\ q = GivenUp(r)
    <3>1. q = [number |-> r.number, kind |-> r.kind, view |-> 0, portfolio |-> r.portfolio,
               sheet |-> r.sheet, answer |-> r.answer, review |-> r.review, shows |-> r.shows,
               excused |-> r.excused]
      BY <1>1, <2>2 DEF RequestShape, GivenUp
    <3>2. RequestShape(q)
      BY <1>1, <1>4, <2>2, <3>1 DEF RequestShape, ForShown
    <3> QED
      BY <1>4, <3>1, <3>2
  <2> QED
    BY <1>5, <2>1, <2>2
<1>2. CASE r.view # view.number
  <2>1. view' = view
    BY <1>2 DEF Tells
  <2>2. ViewShape'
    BY <1>1, <2>1 DEF ViewShape
  <2>3. RequestsShaped'
    <3>1. \A q \in requests' : RequestShape(q)'
      BY <1>5, <2>1 DEF RequestShape, ForShown
    <3>2. \A p, q \in requests' : p.view = view.number /\ q.view = view.number => p = q
      BY <1>5 DEF ImportInv, Reviewed, RequestsShaped
    <3> QED
      BY <2>1, <3>1, <3>2 DEF RequestsShaped
  <2> QED
    BY <2>1, <2>2, <2>3 DEF Reviewed
<1>3. CASE r.view = view.number
  <2>1. /\ view.status = IF r.kind = "preview" THEN "parsing" ELSE "importing"
        /\ r.kind \in {"preview", "confirm"} /\ view.number # 0
    BY <1>1, <1>3 DEF RequestShape, ViewShape
  <2>2. \A q \in requests' : RequestShape(q) /\ q.view # view.number
    BY <1>3, <1>5 DEF ImportInv, Reviewed, RequestsShaped
  <2>3. \/ ~ok /\ view' = [view EXCEPT !.status = "error"]
        \/ /\ ok /\ r.kind = "preview"
           /\ view' = [view EXCEPT !.status = "previewing", !.preview = r.answer]
        \/ ok /\ r.kind = "confirm" /\ view' = [view EXCEPT !.status = "done"]
    BY <1>3, <2>1 DEF Tells
  <2>4. /\ view'.number = view.number /\ view'.portfolio = view.portfolio
        /\ view'.sheet = view.sheet /\ ViewFields'
    BY <1>1, <2>3 DEF ViewFields
  <2>5. \A q \in requests' : RequestShape(q)'
    BY <2>2, <2>4 DEF RequestShape, ForShown
  <2>6. RequestsShaped'
    BY <2>2, <2>4, <2>5 DEF RequestsShaped
  <2>7. ViewShape'
    <3>1. CASE ok /\ r.kind = "preview"
      <4>1. /\ view'.status = "previewing" /\ view'.preview = r.answer
            /\ view.sheet = file
        BY <1>1, <2>1, <2>3, <3>1 DEF ViewFields, ViewShape
      <4>2. r.answer # None /\ r.answer = ImportCsvString(file) /\ file.kind \notin Refusable
        BY <1>1, <3>1 DEF RequestShape
      <4> QED
        BY <1>1, <2>1, <2>4, <4>1, <4>2 DEF ViewShape, ViewFields
    <3>2. CASE ~(ok /\ r.kind = "preview")
      <4>1. view'.status \in {"error", "done"} /\ view'.preview = view.preview
        BY <1>1, <2>3, <3>2 DEF ViewFields
      <4> QED
        BY <1>1, <2>1, <2>4, <4>1 DEF ViewShape, ViewFields
    <3> QED
      BY <3>1, <3>2
  <2> QED
    BY <2>4, <2>6, <2>7 DEF Reviewed
<1> QED
  BY <1>2, <1>3

\* The server answers: only the answer of the request changes.
LEMMA AnswersReviewed ==
  ASSUME ImportInv, NEW r \in requests, NEW answer, Answers(r, answer),
         UNCHANGED <<file, storage, view>>,
         r.kind = "preview" /\ answer # Refused =>
           answer = ImportCsvString(file) /\ file.kind \notin Refusable
  PROVE  Reviewed'
<1>1. RequestShape(r)
  BY DEF ImportInv, Reviewed, RequestsShaped
<1>2. PICK new : /\ new = [r EXCEPT !.answer = answer]
                 /\ requests' = (requests \ {r}) \cup {new}
  BY DEF Answers
<1>3. new = [number |-> r.number, kind |-> r.kind, view |-> r.view, portfolio |-> r.portfolio,
             sheet |-> r.sheet, answer |-> answer, review |-> r.review, shows |-> r.shows,
             excused |-> r.excused]
  BY <1>1, <1>2 DEF RequestShape
<1>4. RequestShape(new)
  BY <1>1, <1>3 DEF RequestShape, ForShown
<1>5. \A q \in requests' : RequestShape(q)
  BY <1>2, <1>4 DEF ImportInv, Reviewed, RequestsShaped
<1>6. \A q \in requests' : RequestShape(q)'
  BY <1>5 DEF RequestShape, ForShown
<1>7. ASSUME NEW p \in requests', NEW q \in requests', p.view = view.number, q.view = view.number
      PROVE  p = q
  <2>1. new.view = r.view
    BY <1>3
  <2>2. \A s, t \in requests : s.view = view.number /\ t.view = view.number => s = t
    BY DEF ImportInv, Reviewed, RequestsShaped
  <2> QED
    BY <1>2, <1>7, <2>1, <2>2
<1>8. RequestsShaped'
  BY <1>6, <1>7 DEF RequestsShaped
<1>9. ViewShape'
  BY DEF ImportInv, Reviewed, ViewShape
<1> QED
  BY <1>8, <1>9 DEF Reviewed

-----------------------------------------------------------------------------
(* What is stored.                                                           *)

StoredInv == StoredAsReviewed /\ ImportsWhereShown

LEMMA StoredKept ==
  ASSUME ImportInv, UNCHANGED storage, \A i \in stored' : i \in stored \/ i.holdings = Others
  PROVE  StoredInv'
BY DEF ImportInv, StoredInv, StoredAsReviewed, ImportsWhereShown, StoredWhereShown, Imports

\* A confirmation stores what its review lists, where it was to go.
LEMMA ConfirmStores ==
  ASSUME ImportInv, Confirm
  PROVE  ImportInv'
<1>1. PICK r \in requests :
        LET result == ImportCsvString(r.sheet)
            valid == /\ result.errors = {}
                     /\ \A n \in DOMAIN result.holdings : ValidHolding(result.holdings[n])
                     /\ result.holdings = <<>> \/ r.portfolio \in portfolios
        IN  /\ r.kind = "confirm" /\ r.answer = None
            /\ IF valid THEN Stores(r, result.holdings) /\ Answers(r, result)
               ELSE UNCHANGED stored /\ Answers(r, Refused)
  BY DEF Confirm
<1>2. UNCHANGED <<file, portfolios, storage, chosen, fetched, shell, view, moved>>
  BY DEF Confirm, othersVars
<1>3. RequestShape(r)
  BY DEF ImportInv, Reviewed, RequestsShaped
<1>4. Reviewed'
  BY <1>1, <1>2, <1>3, AnswersReviewed
<1>5. CASE UNCHANGED stored
  <2>1. Held' \subseteq portfolios
    BY <1>5 DEF ImportInv, Agreed, HeldExists, Held
  <2>2. Agreed'
    BY <1>2, <2>1, ViewAgrees
  <2> QED
    BY <1>2, <1>4, <1>5, <2>2, StoredKept DEF ImportInv, StoredInv
<1>6. CASE ~UNCHANGED stored
  <2> DEFINE result == ImportCsvString(file)
  <2>1. /\ r.kind = "confirm" /\ Stores(r, result.holdings)
        /\ result.holdings = <<>> \/ r.portfolio \in portfolios
    BY <1>1, <1>3, <1>6 DEF RequestShape
  <2>2. PICK i : /\ i = [portfolio |-> r.portfolio, holdings |-> result.holdings, number |-> r.number,
                          review |-> r.review, shows |-> r.shows, excused |-> r.excused]
                 /\ stored' = stored \cup {i}
    BY <2>1 DEF Stores
  <2>3. Held' \subseteq portfolios
    BY <2>1, <2>2 DEF ImportInv, Agreed, HeldExists, Held
  <2>4. Agreed'
    BY <1>2, <2>3, ViewAgrees
  <2>5. /\ i.review # None /\ i.holdings = i.review.holdings
        /\ ForShown(i)
    BY <1>3, <2>1, <2>2 DEF RequestShape, ForShown
  <2>6. StoredInv'
    BY <1>2, <2>2, <2>5
       DEF ImportInv, StoredInv, StoredAsReviewed, ImportsWhereShown, StoredWhereShown, Imports,
           ForShown
  <2> QED
    BY <1>4, <2>4, <2>6 DEF ImportInv, StoredInv
<1> QED
  BY <1>5, <1>6

-----------------------------------------------------------------------------
(* Every step.                                                               *)

LEMMA HeldKept ==
  ASSUME ImportInv, UNCHANGED <<stored, storage>>
  PROVE  Held' \subseteq portfolios /\ StoredInv'
<1>1. Held' \subseteq portfolios
  BY DEF ImportInv, Agreed, HeldExists, Held
<1> QED
  BY <1>1, StoredKept

LEMMA ImportStepKeeps ==
  ASSUME ImportInv, [Next]_importVars
  PROVE  ImportInv'
<1>1. ViewFields /\ view.number \in 0..MaxViews
  BY DEF ImportInv, Reviewed, ViewShape, ViewFields
<1>2. ASSUME NEW l \in Loaders, ListPortfolios(l) \/ ListFails(l)
      PROVE  ImportInv'
  <2>1. UNCHANGED <<file, stored, storage, view, requests>>
    BY <1>2 DEF ListPortfolios, ListFails, serverVars, requestVars
  <2>2. Agreed'
    BY <1>2, ListPortfoliosAgrees, ListFailsAgrees
  <2>3. ViewFields'
    BY <1>1, <2>1 DEF ViewFields
  <2>4. Reviewed'
    BY <2>1, <2>3, ReviewedKept
  <2> QED
    BY <2>1, <2>2, <2>4, HeldKept DEF ImportInv, StoredInv
<1>3. ASSUME NEW l \in Loaders, Resolve(l)
      PROVE  ImportInv'
  <2>1. /\ UNCHANGED <<file, stored, storage, requests>>
        /\ \/ view' = view
           \/ view.number # 0 /\ \E p : view' = [view EXCEPT !.portfolio = p]
    BY <1>3 DEF Resolve, serverVars, requestVars, Shell
  <2>2. Agreed'
    BY <1>3, ResolveAgrees
  <2>3. /\ ViewFields'
        /\ view'.number = view.number /\ view'.status = view.status
        /\ view'.sheet = view.sheet /\ view'.preview = view.preview
        /\ view.number = 0 => view'.portfolio = view.portfolio
    BY <1>1, <2>1 DEF ViewFields
  <2>4. Reviewed'
    BY <2>1, <2>3, ReviewedKept
  <2> QED
    BY <2>1, <2>2, <2>4, HeldKept DEF ImportInv, StoredInv
<1>4. CASE Navigate
  <2>1. UNCHANGED <<file, stored, storage, requests>> /\ Mounts
    BY <1>4 DEF Navigate, serverVars, requestVars
  <2> QED
    BY <1>4, <2>1, NavigateAgrees, MountsReviewed, HeldKept DEF ImportInv, StoredInv
<1>5. CASE SelectPortfolio
  <2>1. UNCHANGED <<file, stored, storage, requests>> /\ (view' = view \/ Mounts)
    BY <1>5 DEF SelectPortfolio, serverVars, requestVars
  <2>2. Reviewed'
    <3>1. CASE Mounts
      BY <2>1, <3>1, MountsReviewed
    <3>2. CASE view' = view
      <4>1. ViewFields'
        BY <1>1, <3>2 DEF ViewFields
      <4> QED
        BY <2>1, <3>2, <4>1, ReviewedKept
    <3> QED
      BY <2>1, <3>1, <3>2
  <2> QED
    BY <1>5, <2>1, <2>2, SelectPortfolioAgrees, HeldKept DEF ImportInv, StoredInv
<1>6. CASE PickFile
  <2>1. /\ UNCHANGED <<file, portfolios, stored, storage, chosen, fetched, shell, moved>>
        /\ view.number > 0 /\ view.status = "idle"
    BY <1>6 DEF PickFile, serverVars, othersVars
  <2>2. CASE view.portfolio = None
    <3>1. view' = [view EXCEPT !.sheet = file, !.status = "error"] /\ UNCHANGED requests
      BY <1>6, <2>2 DEF PickFile, requestVars
    <3>2. /\ view'.number = view.number /\ view'.portfolio = view.portfolio
          /\ view'.status = "error" /\ view'.sheet = file /\ view'.preview = view.preview
          /\ ViewFields'
      BY <1>1, <3>1 DEF ViewFields
    <3>3. Agreed'
      BY <2>1, <3>2, HeldKept, ViewAgrees
    <3>4. ViewShape'
      BY <2>1, <3>2 DEF ImportInv, Reviewed, ViewShape, ViewFields
    <3>5. \A r \in requests : r.view # view.number /\ RequestShape(r)
      BY <2>1, NothingAwaited DEF ImportInv, Reviewed, RequestsShaped
    <3>6. RequestsShaped'
      BY <2>1, <3>1, <3>2, <3>5 DEF RequestsShaped, RequestShape, ForShown
    <3> QED
      BY <2>1, <3>3, <3>4, <3>6, HeldKept DEF ImportInv, Reviewed, StoredInv
  <2>3. CASE view.portfolio # None
    <3>1. view' = [view EXCEPT !.sheet = file, !.status = "parsing"] /\ Sends("preview", file)
      BY <1>6, <2>3 DEF PickFile
    <3>2. view'.portfolio = view.portfolio
      BY <1>1, <3>1 DEF ViewFields
    <3>3. Agreed'
      BY <2>1, <2>3, <3>2, HeldKept, ViewAgrees
    <3>4. Reviewed'
      BY <2>1, <3>1, SendsReviewed
    <3> QED
      BY <2>1, <3>3, <3>4, HeldKept DEF ImportInv, StoredInv
  <2> QED
    BY <2>2, <2>3
<1>7. CASE ConfirmImport
  <2>1. /\ UNCHANGED <<file, portfolios, stored, storage, chosen, fetched, shell, moved>>
        /\ view.status = "previewing" /\ view' = [view EXCEPT !.status = "importing"]
        /\ Sends("confirm", view.sheet)
    BY <1>7 DEF ConfirmImport, serverVars, othersVars
  <2>2. view.sheet = file /\ view.number > 0
    BY <1>1, <2>1 DEF ImportInv, Reviewed, ViewShape
  <2>3. view' = [view EXCEPT !.sheet = file, !.status = "importing"]
    BY <1>1, <2>1, <2>2 DEF ViewFields
  <2>4. view'.portfolio = view.portfolio /\ view'.status = "importing"
    BY <1>1, <2>1 DEF ViewFields
  <2>5. Agreed'
    BY <2>1, <2>4, HeldKept, ViewAgrees
  <2>6. Reviewed'
    BY <2>1, <2>2, <2>3, SendsReviewed
  <2> QED
    BY <2>1, <2>5, <2>6, HeldKept DEF ImportInv, StoredInv
<1>8. CASE Reset
  <2>1. /\ UNCHANGED <<file, portfolios, stored, storage, chosen, fetched, shell, moved, requests>>
        /\ view.status \in {"previewing", "done", "error"}
        /\ view' = [view EXCEPT !.status = "idle", !.sheet = None, !.preview = None]
    BY <1>8 DEF Reset, serverVars, othersVars, requestVars
  <2>2. /\ view'.number = view.number /\ view'.portfolio = view.portfolio
        /\ view'.status = "idle" /\ view'.preview = None /\ ViewFields'
    BY <1>1, <2>1 DEF ViewFields
  <2>3. Agreed'
    BY <2>1, <2>2, HeldKept, ViewAgrees
  <2>4. ViewShape'
    BY <2>1, <2>2 DEF ImportInv, Reviewed, ViewShape, ViewFields
  <2>5. \A r \in requests : r.view # view.number /\ RequestShape(r)
    BY <2>1, NothingAwaited DEF ImportInv, Reviewed, RequestsShaped
  <2>6. RequestsShaped'
    BY <2>1, <2>2, <2>5 DEF RequestsShaped, RequestShape, ForShown
  <2> QED
    BY <2>1, <2>3, <2>4, <2>6, HeldKept DEF ImportInv, Reviewed, StoredInv
<1>9. CASE Answered \/ Lost
  <2>1. UNCHANGED <<file, portfolios, stored, storage, chosen, fetched, shell, moved>>
    BY <1>9 DEF Answered, Lost, serverVars, othersVars
  <2>2. PICK r \in requests, ok \in BOOLEAN :
          /\ \/ requests' = requests \ {r}
             \/ r.kind = "confirm" /\ requests' = (requests \ {r}) \cup {GivenUp(r)}
          /\ Tells(r, ok)
          /\ ok => r.answer \notin {None, Refused}
    <3>1. CASE Answered
      <4>1. PICK r \in requests : /\ r.answer # None /\ requests' = requests \ {r}
                                  /\ Tells(r, r.answer # Refused)
        BY <3>1 DEF Answered
      <4>2. (r.answer # Refused) \in BOOLEAN
        OBVIOUS
      <4> QED
        BY <4>1, <4>2
    <3>2. CASE Lost
      BY <3>2 DEF Lost, GivenUp
    <3> QED
      BY <1>9, <3>1, <3>2
  <2>3. Reviewed' /\ view'.portfolio = view.portfolio
    BY <2>1, <2>2, TellsReviewed
  <2>4. view'.status \in {"parsing", "previewing"} => view.status \in {"parsing", "previewing"}
    <3>1. RequestShape(r)
      BY DEF ImportInv, Reviewed, RequestsShaped
    <3>2. CASE r.view # view.number
      BY <2>2, <3>2 DEF Tells
    <3>3. CASE r.view = view.number
      BY <1>1, <2>2, <3>1, <3>3 DEF Tells, RequestShape, ViewFields
    <3> QED
      BY <3>2, <3>3
  <2>5. Agreed'
    BY <2>1, <2>3, <2>4, HeldKept, ViewAgrees
  <2> QED
    BY <2>1, <2>3, <2>5, HeldKept DEF ImportInv, StoredInv
<1>10. CASE Preview
  <2>1. UNCHANGED <<file, portfolios, stored, storage, chosen, fetched, shell, view, moved>>
    BY <1>10 DEF Preview, serverVars, othersVars
  <2>2. PICK r \in requests :
          Answers(r, IF r.sheet.kind \in {"foreign", "large"} THEN Refused
                     ELSE ImportCsvString(r.sheet))
    BY <1>10 DEF Preview
  <2>3. r.sheet = file
    BY DEF ImportInv, Reviewed, RequestsShaped, RequestShape
  <2>4. Reviewed'
    <3>1. CASE file.kind \in {"foreign", "large"}
      BY <2>1, <2>2, <2>3, <3>1, AnswersReviewed
    <3>2. CASE file.kind \notin {"foreign", "large"}
      BY <2>1, <2>2, <2>3, <3>2, AnswersReviewed DEF Refusable
    <3> QED
      BY <3>1, <3>2
  <2>5. Agreed'
    BY <2>1, HeldKept, ViewAgrees
  <2> QED
    BY <2>1, <2>4, <2>5, HeldKept DEF ImportInv, StoredInv
<1>11. CASE OtherTabSelects \/ CreatePortfolio \/ DeletePortfolio \/ AddHolding
  <2>1. /\ UNCHANGED <<file, storage, view, requests>>
        /\ \A i \in stored' : i \in stored \/ i.holdings = Others
    BY <1>11 DEF OtherTabSelects, CreatePortfolio, DeletePortfolio, AddHolding, OthersStep,
                 serverVars, requestVars
  <2>2. ViewFields'
    BY <1>1, <2>1 DEF ViewFields
  <2>3. Reviewed'
    BY <2>1, <2>2, ReviewedKept
  <2> QED
    BY <1>11, <2>1, <2>3, OthersAgree, StoredKept DEF ImportInv, StoredInv
<1>12. CASE UNCHANGED importVars
  <2>1. /\ UNCHANGED <<file, portfolios, stored, storage, chosen, fetched, shell, view, requests, moved>>
        /\ ViewFields'
    BY <1>1, <1>12 DEF importVars, ViewFields
  <2>2. Agreed' /\ Reviewed'
    BY <2>1, HeldKept, ViewAgrees, ReviewedKept
  <2> QED
    BY <2>1, <2>2, HeldKept DEF ImportInv, StoredInv
<1> QED
  BY <1>2, <1>3, <1>4, <1>5, <1>6, <1>7, <1>8, <1>9, <1>10, <1>11, <1>12, ConfirmStores DEF Next

-----------------------------------------------------------------------------
(* The theorems.                                                             *)

\* Lists, selector, stored choice, view and requests hold together throughout
\* (pae-app, pae-import and the handlers of import and confirmation).
THEOREM ImportInvariance == Spec => []ImportInv
<1>1. Init => ImportInv
  BY ImportStarts
<1>2. ImportInv /\ [Next]_importVars => ImportInv'
  BY ImportStepKeeps
<1> QED
  BY <1>1, <1>2, PTL DEF Spec

\* What an import stores is what its user had seen listed, however many views
\* have a request on its way and whichever answers are lost (confirm_import
\* parses the file anew).
THEOREM ImportsStoreReviews == Spec => []StoredAsReviewed
<1>1. ImportInv => StoredAsReviewed
  BY DEF ImportInv
<1> QED
  BY <1>1, ImportInvariance, PTL

\* In a browser with localStorage an import goes to the portfolio the selector
\* showed when it was confirmed, if it showed one, and if no other tab or
\* client has changed the choice or the portfolios since the user last chose
\* from an up-to-date selector (resolveSelectedPortfolioId, in the shell and in
\* every view).
THEOREM ImportsGoWhereShown == Spec => []ImportsWhereShown
<1>1. ImportInv => ImportsWhereShown
  BY DEF ImportInv
<1> QED
  BY <1>1, ImportInvariance, PTL

\* A review tells of every row of the file, and a user who confirms it gets
\* what it lists, all of it and nothing else, in whichever portfolio.
THEOREM ImportsFollowReviews == Spec => []ImportsAsReviewed
<1>1. ImportInv => ImportsAsReviewed
  <2> SUFFICES ASSUME ImportInv PROVE ReviewsAreComplete
    BY DEF ImportInv, ImportsAsReviewed
  <2>1. \A sheet \in Sheets : sheet.rows \in Seq(Row)
    BY ImportAssumption
  <2>2. TellsEveryRow(file, ImportCsvString(file))
    BY <2>1, ParserTells DEF ImportInv, Reviewed, ViewShape
  <2> QED
    BY <2>2 DEF ImportInv, Reviewed, ViewShape, ReviewsAreComplete
<1> QED
  BY <1>1, ImportInvariance, PTL
==============================================================================
