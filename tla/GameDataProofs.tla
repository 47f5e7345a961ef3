--------------------------- MODULE GameDataProofs ---------------------------
(***************************************************************************)
(* Proofs about GameData, for all data bases, tables, slots and bounds.    *)
(***************************************************************************)
EXTENDS GameData, SequenceTheorems, FiniteSetTheorems, WellFoundedInduction, TLAPS

-----------------------------------------------------------------------------
(***************************************************************************)
(* Least and greatest.                                                     *)
(***************************************************************************)
LEMMA LeastNat ==
  ASSUME NEW T, T \subseteq Nat, T # {}
  PROVE  \E x \in T : \A y \in T : x <= y
<1>1. PICK x \in T : \A y \in T : <<y, x>> \notin OpToRel(<, Nat)
  BY NatLessThanWellFounded, WFMin, Zenon
<1>2. \A y \in T : ~(y < x)
  BY <1>1 DEF OpToRel
<1> QED
  BY <1>2

LEMMA MinIs ==
  ASSUME NEW T, T \subseteq Nat, T # {}
  PROVE  Min(T) \in T /\ \A y \in T : Min(T) <= y
BY LeastNat DEF Min

LEMMA MaxIs ==
  ASSUME NEW T, T \subseteq Int, T # {}, NEW b \in Int, \A y \in T : y <= b
  PROVE  Max(T) \in T /\ \A y \in T : y <= Max(T)
<1> DEFINE D == {b - y : y \in T}
<1>0. \A y \in T : b - y \in Nat
  OBVIOUS
<1>1. D \subseteq Nat /\ D # {}
  BY <1>0
<1>2. PICK d \in D : \A e \in D : d <= e
  BY <1>1, LeastNat, Zenon
<1>3. PICK x \in T : d = b - x
  BY <1>2
<1>4. \A y \in T : b - x <= b - y
  BY <1>2, <1>3
<1>5. \A y \in T : x >= y
  BY <1>4
<1> QED
  BY <1>5 DEF Max

-----------------------------------------------------------------------------
(***************************************************************************)
(* Tables.                                                                 *)
(***************************************************************************)
\* a table is a function on the numbers of its rows
LEMMA TableIs ==
  ASSUME NEW rows, IsTable(rows)
  PROVE  /\ Len(rows) \in Nat /\ DOMAIN rows = 1..Len(rows)
         /\ \A k \in DOMAIN rows : rows[k] \in Row
BY DEF IsTable

\* the indexes of the first n rows have a bound: there is no least n for which they have none
LEMMA IndexesAreBounded ==
  ASSUME NEW rows, IsTable(rows)
  PROVE  \E b \in Nat : \A k \in DOMAIN rows : rows[k].index <= b
<1> DEFINE Bounded(n) == \E b \in Nat : \A k \in 1..n : rows[k].index <= b
           T == {n \in 0..Len(rows) : ~Bounded(n)}
<1>1. Len(rows) \in Nat /\ DOMAIN rows = 1..Len(rows) /\ \A k \in 1..Len(rows) : rows[k].index \in Int
  BY TableIs DEF Row
<1>2. Bounded(0)
  <2>1. \A k \in 1..0 : rows[k].index <= 0
    OBVIOUS
  <2> QED
    BY <2>1
<1>3. ASSUME NEW n \in 1..Len(rows), Bounded(n - 1) PROVE Bounded(n)
  <2>1. PICK b \in Nat : \A k \in 1..(n - 1) : rows[k].index <= b
    BY <1>3
  <2>2. rows[n].index \in Int
    BY <1>1
  <2>3. ASSUME NEW c \in Nat, b <= c, rows[n].index <= c PROVE Bounded(n)
    <3>1. ASSUME NEW k \in 1..n PROVE rows[k].index <= c
      <4>1. CASE k = n
        BY <4>1, <2>3
      <4>2. CASE k # n
        <5>1. k \in 1..(n - 1) /\ rows[k].index \in Int
          BY <4>2, <1>1
        <5>2. rows[k].index <= b
          BY <5>1, <2>1
        <5> QED
          BY <5>1, <5>2, <2>1, <2>3
      <4> QED
        BY <4>1, <4>2
    <3> QED
      BY <3>1, <2>3
  <2> HIDE DEF Bounded
  <2>4. CASE rows[n].index <= b
    BY <2>1, <2>3, <2>4
  <2>5. CASE ~(rows[n].index <= b)
    <3>1. rows[n].index \in Nat /\ b <= rows[n].index /\ rows[n].index <= rows[n].index
      BY <2>1, <2>2, <2>5
    <3> QED
      BY <3>1, <2>3
  <2> QED
    BY <2>4, <2>5
<1> HIDE DEF Bounded
<1>4. ASSUME T # {} PROVE FALSE
  <2>1. PICK n \in T : \A m \in T : n <= m
    <3>1. T \subseteq Nat
      BY <1>1
    <3> HIDE DEF T
    <3> QED
      BY <3>1, <1>4, LeastNat
  <2>2. n \in 0..Len(rows) /\ ~Bounded(n)
    BY <2>1
  <2>3. n # 0
    BY <2>2, <1>2
  <2>4. n \in 1..Len(rows) /\ n - 1 \in 0..Len(rows)
    BY <2>2, <2>3, <1>1
  <2>5. n - 1 \notin T
    BY <2>1, <2>4, <1>1
  <2>6. Bounded(n - 1)
    BY <2>4, <2>5
  <2> QED
    BY <2>2, <2>4, <2>6, <1>3
<1>5. Bounded(Len(rows))
  BY <1>1, <1>4
<1> QED
  BY <1>1, <1>5 DEF Bounded

LEMMA MaxIndexIs ==
  ASSUME NEW rows, IsTable(rows)
  PROVE  MaxIndex(rows) \in Nat /\ \A k \in DOMAIN rows : rows[k].index <= MaxIndex(rows)
<1> DEFINE T == {0} \cup {rows[k].index : k \in DOMAIN rows}
<1>1. PICK b \in Nat : \A k \in DOMAIN rows : rows[k].index <= b
  BY IndexesAreBounded
<1>2. T \subseteq Int /\ T # {} /\ \A y \in T : y <= b
  BY <1>1, TableIs DEF Row
<1>3. Max(T) \in T /\ \A y \in T : y <= Max(T)
  <2>1. b \in Int
    BY <1>1
  <2> HIDE DEF T
  <2> QED
    BY <1>2, <2>1, MaxIs
<1>4. Max(T) \in Nat
  BY <1>2, <1>3
<1> QED
  BY <1>3, <1>4 DEF MaxIndex

\* of the rows for a number there is a last one
LEMMA LastRow ==
  ASSUME NEW rows, IsTable(rows), NEW i \in Int, RowsAt(rows, i) # {}
  PROVE  /\ Max(RowsAt(rows, i)) \in DOMAIN rows
         /\ rows[Max(RowsAt(rows, i))].index = i
         /\ \A k \in RowsAt(rows, i) : k <= Max(RowsAt(rows, i))
<1>1. RowsAt(rows, i) \subseteq Int /\ Len(rows) \in Int /\ \A k \in RowsAt(rows, i) : k <= Len(rows)
  BY TableIs DEF RowsAt
<1>2. Max(RowsAt(rows, i)) \in RowsAt(rows, i) /\ \A k \in RowsAt(rows, i) : k <= Max(RowsAt(rows, i))
  BY <1>1, MaxIs
<1> QED
  BY <1>2 DEF RowsAt

\* where no row is the name is empty
TableNames == STRING \cup {Blank}

LEMMA NamesAre ==
  ASSUME NEW rows, IsTable(rows)
  PROVE  /\ Names(rows) \in Seq(TableNames)
         /\ Len(Names(rows)) = MaxIndex(rows) + 1
         /\ DOMAIN Names(rows) = 1..(MaxIndex(rows) + 1)
         /\ DOMAIN Prices(rows) = 1..(MaxIndex(rows) + 1)
<1>1. MaxIndex(rows) + 1 \in Nat
  BY MaxIndexIs
<1>2. ASSUME NEW i \in 1..(MaxIndex(rows) + 1), RowsAt(rows, i - 1) # {}
      PROVE  rows[Max(RowsAt(rows, i - 1))].name \in STRING
  <2>1. i - 1 \in Int
    BY <1>1
  <2>2. rows[Max(RowsAt(rows, i - 1))] \in Row
    BY <1>2, <2>1, LastRow, TableIs
  <2> QED
    BY <2>2 DEF Row
<1>3. Names(rows) \in [1..(MaxIndex(rows) + 1) -> TableNames]
  BY <1>2 DEF Names, TableNames
<1>4. Names(rows) \in Seq(TableNames) /\ Len(Names(rows)) = MaxIndex(rows) + 1
  BY <1>1, <1>3
<1> QED
  BY <1>3, <1>4 DEF Prices

\* the place of a name is one that has it, and -1 stands for none
LEMMA IndexIs ==
  ASSUME NEW names \in Seq(TableNames), NEW n
  PROVE  /\ IndexOf(names, n) \in Int /\ -1 <= IndexOf(names, n) /\ IndexOf(names, n) < Len(names)
         /\ IndexOf(names, n) >= 0 => n # Blank /\ names[IndexOf(names, n) + 1] = n
         /\ (\E i \in DOMAIN names : names[i] = n /\ n # Blank) => IndexOf(names, n) >= 0
<1>1. Len(names) \in Nat /\ DOMAIN names = 1..Len(names)
  OBVIOUS
<1>2. CASE \E i \in DOMAIN names : names[i] = n /\ n # Blank
  <2> DEFINE T == {i \in DOMAIN names : names[i] = n}
  <2>1. T \subseteq Int /\ T # {} /\ Len(names) \in Int /\ \A y \in T : y <= Len(names)
    BY <1>1, <1>2
  <2>2. Max(T) \in T
    <3> HIDE DEF T
    <3> QED
      BY <2>1, MaxIs
  <2>3. IndexOf(names, n) = Max(T) - 1
    BY <1>2, Zenon DEF IndexOf
  <2>4. Max(T) \in 1..Len(names) /\ names[Max(T)] = n
    BY <2>2, <1>1
  <2> HIDE DEF T
  <2> QED
    BY <2>3, <2>4, <1>1, <1>2
<1>3. CASE ~(\E i \in DOMAIN names : names[i] = n /\ n # Blank)
  BY <1>1, <1>3 DEF IndexOf
<1> QED
  BY <1>2, <1>3

\* the name and the price of a number are those of its last row
LEMMA AtNumber ==
  ASSUME NEW rows, IsTable(rows), NEW i \in Nat, i <= MaxIndex(rows)
  PROVE  /\ i + 1 \in DOMAIN Names(rows) /\ i + 1 \in DOMAIN Prices(rows)
         /\ Names(rows)[i + 1] = IF RowsAt(rows, i) = {} THEN Blank ELSE rows[Max(RowsAt(rows, i))].name
         /\ Prices(rows)[i + 1] = IF RowsAt(rows, i) = {} THEN 0 ELSE rows[Max(RowsAt(rows, i))].price
<1>1. PICK m \in Nat : m = i + 1
  OBVIOUS
<1>2. m \in 1..(MaxIndex(rows) + 1) /\ m - 1 = i
  BY <1>1, MaxIndexIs
<1>3. m \in DOMAIN Names(rows) /\ m \in DOMAIN Prices(rows)
  BY <1>2, NamesAre
<1>4. Names(rows)[m] = IF RowsAt(rows, m - 1) = {} THEN Blank ELSE rows[Max(RowsAt(rows, m - 1))].name
  BY <1>2 DEF Names
<1>5. Prices(rows)[m] = IF RowsAt(rows, m - 1) = {} THEN 0 ELSE rows[Max(RowsAt(rows, m - 1))].price
  BY <1>3 DEF Prices
<1> QED
  BY <1>1, <1>2, <1>3, <1>4, <1>5, Zenon

\* A table that is not refused gives each number the name and the price of its
\* last row, and each name its number (constant.go:66).
LEMMA TablesHold ==
  ASSUME NEW rows, IsTable(rows), ~RefusesRows(rows)
  PROVE  TableIsRows(rows)
<1>1. /\ Names(rows) \in Seq(TableNames)
      /\ Len(Names(rows)) = MaxIndex(rows) + 1
      /\ DOMAIN Names(rows) = 1..(MaxIndex(rows) + 1)
      /\ DOMAIN Prices(rows) = 1..(MaxIndex(rows) + 1)
  BY NamesAre
<1>2. MaxIndex(rows) \in Nat
  BY MaxIndexIs
<1>3. ASSUME NEW k \in DOMAIN rows, k = Max(RowsAt(rows, rows[k].index))
      PROVE  /\ CsvName(rows, rows[k].index) = rows[k].name
             /\ CsvField(rows, rows[k].index) = rows[k].price
             /\ rows[k].name # Blank => CsvName(rows, CsvIndex(rows, rows[k].name)) = rows[k].name
  <2>1. PICK i : i = rows[k].index
    OBVIOUS
  <2>2. PICK n : n = rows[k].name
    OBVIOUS
  <2>3. i \in Nat /\ i <= MaxIndex(rows)
    BY <2>1, MaxIndexIs, TableIs DEF RefusesRows, Row
  <2>4. k \in RowsAt(rows, i)
    BY <2>1 DEF RowsAt
  <2>5. /\ i + 1 \in DOMAIN Names(rows) /\ i + 1 \in DOMAIN Prices(rows)
        /\ Names(rows)[i + 1] = n /\ Prices(rows)[i + 1] = rows[k].price
    BY <2>1, <2>2, <2>3, <2>4, <1>3, AtNumber
  <2>6. CsvName(rows, i) = n /\ CsvField(rows, i) = rows[k].price
    BY <2>5 DEF CsvName, CsvField
  <2>7. ASSUME n # Blank PROVE CsvName(rows, CsvIndex(rows, n)) = n
    <3>1. PICK j : j = IndexOf(Names(rows), n)
      OBVIOUS
    <3>2. j \in Int /\ j >= 0 /\ j < MaxIndex(rows) + 1 /\ Names(rows)[j + 1] = n
      BY <2>5, <2>7, <3>1, <1>1, IndexIs
    <3>3. CsvIndex(rows, n) = j
      BY <3>1, <3>2 DEF CsvIndex
    <3>4. j + 1 \in DOMAIN Names(rows)
      BY <1>1, <1>2, <3>2
    <3> QED
      BY <3>2, <3>3, <3>4 DEF CsvName
  <2> QED
    BY <2>1, <2>2, <2>6, <2>7
<1>4. ASSUME NEW i \in DOMAIN Names(rows), RowsAt(rows, i - 1) = {}
      PROVE  CsvName(rows, i - 1) = Blank /\ CsvField(rows, i - 1) = 0
  <2>1. PICK j \in Nat : j = i - 1
    BY <1>1, <1>2
  <2>2. j <= MaxIndex(rows)
    BY <1>1, <1>2, <2>1
  <2> QED
    BY <2>1, <2>2, <1>4, AtNumber DEF CsvName, CsvField
<1> QED
  BY <1>3, <1>4 DEF TableIsRows

-----------------------------------------------------------------------------
(***************************************************************************)
(* Parts of arrays.                                                        *)
(***************************************************************************)
\* a part, of whatever slices it is one, has the names of the whole that lie in it
IsPart(p, names) ==
  /\ p.at \in Nat /\ p.len \in Nat /\ p.at + p.len <= Len(names)
  /\ DOMAIN p.index = {names[i] : i \in DOMAIN names}
  /\ \A n \in DOMAIN p.index :
       p.index[n] = IF IndexOf(names, n) \in p.at..(p.at + p.len - 1) THEN IndexOf(names, n) - p.at ELSE -1

LEMMA WholeIsPart ==
  ASSUME NEW names \in Seq(TableNames), NEW vals, Len(vals) = Len(names)
  PROVE  IsPart(GetInt(vals, names), names)
<1>1. \A n : IndexOf(names, n) \in Int /\ -1 <= IndexOf(names, n) /\ IndexOf(names, n) < Len(names)
  BY IndexIs
<1>2. Len(names) \in Nat
  OBVIOUS
<1> QED
  BY <1>1, <1>2 DEF IsPart, GetInt, NewParam

LEMMA SliceIsPart ==
  ASSUME NEW names \in Seq(TableNames), NEW p, IsPart(p, names),
         NEW from \in 0..p.len, NEW to \in from..p.len
  PROVE  IsPart(Slice(p, from, to), names)
<1> DEFINE q == Slice(p, from, to)
<1>1. p.at \in Nat /\ p.len \in Nat /\ p.at + p.len <= Len(names) /\ Len(names) \in Nat
  BY DEF IsPart
<1>2. q.at = p.at + from /\ q.len = to - from /\ DOMAIN q.index = DOMAIN p.index
  BY DEF Slice
<1>3. ASSUME NEW n \in DOMAIN q.index
      PROVE  q.index[n] = IF IndexOf(names, n) \in q.at..(q.at + q.len - 1) THEN IndexOf(names, n) - q.at ELSE -1
  <2>1. q.index[n] = Shifted(p.index[n], from, to)
    BY <1>2 DEF Slice
  <2>2. IndexOf(names, n) \in Int
    BY IndexIs
  <2>3. CASE IndexOf(names, n) \in p.at..(p.at + p.len - 1)
    <3>1. p.index[n] = IndexOf(names, n) - p.at
      BY <1>2, <2>3 DEF IsPart
    <3> QED
      BY <1>1, <1>2, <2>1, <2>2, <3>1 DEF Shifted
  <2>4. CASE IndexOf(names, n) \notin p.at..(p.at + p.len - 1)
    <3>1. p.index[n] = -1
      BY <1>2, <2>4 DEF IsPart
    <3>2. q.index[n] = -1
      BY <1>1, <2>1, <3>1 DEF Shifted
    <3>3. IndexOf(names, n) \notin q.at..(q.at + q.len - 1)
      BY <1>1, <1>2, <2>2, <2>4
    <3> QED
      BY <3>2, <3>3
  <2> QED
    BY <2>3, <2>4
<1> HIDE DEF q
<1>4. q.at \in Nat /\ q.len \in Nat /\ q.at + q.len <= Len(names)
  BY <1>1, <1>2
<1>5. DOMAIN q.index = {names[i] : i \in DOMAIN names}
  BY <1>2 DEF IsPart
<1>6. IsPart(q, names)
  BY <1>3, <1>4, <1>5 DEF IsPart
<1> QED
  BY <1>6 DEF q

LEMMA ByName ==
  ASSUME NEW vals, NEW p, NEW n, NEW x, ~(p.index[n] < 0), ~(p.index[n] >= p.len)
  PROVE  /\ GetByStr(vals, p, n) = vals[p.at + p.index[n] + 1]
         /\ SetByStr(vals, p, n, x) = [vals EXCEPT ![p.at + p.index[n] + 1] = x]
BY Zenon DEF GetByStr, SetByStr

LEMMA ByNoName ==
  ASSUME NEW vals, NEW p, NEW n, NEW x, p.index[n] < 0, ~(p.index[n] >= p.len)
  PROVE  GetByStr(vals, p, n) = None /\ SetByStr(vals, p, n, x) = vals
BY Zenon DEF GetByStr, SetByStr

LEMMA PartsAgree ==
  ASSUME NEW names \in Seq(TableNames), NEW S, NEW vals \in Seq(S), Len(vals) = Len(names),
         NEW p, IsPart(p, names)
  PROVE  PartAgrees(vals, names, GetInt(vals, names), p)
<1> DEFINE whole == GetInt(vals, names)
<1>1. p.at \in Nat /\ p.len \in Nat /\ p.at + p.len <= Len(names) /\ Len(names) \in Nat
  BY DEF IsPart
<1>2. DOMAIN vals = 1..Len(names)
  OBVIOUS
<1>3. \A i \in 0..(p.len - 1) : GetAt(vals, p, i) = vals[p.at + i + 1]
  BY DEF GetAt
<1>4. ASSUME NEW n \in DOMAIN p.index \ {Blank}
      PROVE  IF IndexOf(names, n) \in p.at..(p.at + p.len - 1)
               THEN /\ GetByStr(vals, p, n) = GetByStr(vals, whole, n)
                    /\ GetByStr(vals, p, n) = GetAt(vals, p, p.index[n])
                    /\ SetByStr(vals, p, n, None) = SetByStr(vals, whole, n, None)
               ELSE GetByStr(vals, p, n) = None /\ SetByStr(vals, p, n, None) = vals
  <2> DEFINE j == IndexOf(names, n)
  <2>1. j \in Int /\ -1 <= j /\ j < Len(names)
    BY IndexIs
  <2> HIDE DEF j
  <2>2. CASE j \in p.at..(p.at + p.len - 1)
    <3>1. p.index[n] = j - p.at /\ whole.index[n] = j /\ whole.at = 0 /\ whole.len = Len(names)
      BY <2>2 DEF IsPart, GetInt, NewParam, j
    <3>2. ~(j - p.at < 0) /\ ~(j - p.at >= p.len) /\ j - p.at \in 0..(p.len - 1)
      BY <1>1, <2>1, <2>2
    <3>3. ~(j < 0) /\ ~(j >= whole.len)
      BY <1>1, <2>1, <2>2, <3>1
    <3> HIDE DEF whole
    <3>4. /\ GetByStr(vals, p, n) = vals[p.at + p.index[n] + 1]
          /\ SetByStr(vals, p, n, None) = [vals EXCEPT ![p.at + p.index[n] + 1] = None]
      <4>1. ~(p.index[n] < 0) /\ ~(p.index[n] >= p.len)
        BY <3>1, <3>2
      <4> QED
        BY <4>1, ByName
    <3>5. /\ GetByStr(vals, whole, n) = vals[whole.at + whole.index[n] + 1]
          /\ SetByStr(vals, whole, n, None) = [vals EXCEPT ![whole.at + whole.index[n] + 1] = None]
      BY <3>1, <3>3, ByName
    <3>6. p.at + p.index[n] + 1 = j + 1 /\ whole.at + whole.index[n] + 1 = j + 1
      BY <1>1, <2>1, <3>1
    <3>7. GetAt(vals, p, p.index[n]) = vals[p.at + p.index[n] + 1]
      BY <3>1, <3>2, <1>3
    <3> QED
      BY <2>2, <3>4, <3>5, <3>6, <3>7 DEF j, whole
  <2>3. CASE j \notin p.at..(p.at + p.len - 1)
    <3>1. p.index[n] < 0 /\ ~(p.index[n] >= p.len)
      BY <2>3, <1>1 DEF IsPart, j
    <3> QED
      BY <2>3, <3>1, ByNoName DEF j
  <2> QED
    BY <2>2, <2>3
<1>5. \A i \in DOMAIN vals : Fill(vals, p, None)[i] = IF i \in (p.at + 1)..(p.at + p.len) THEN None ELSE vals[i]
  BY <1>1, <1>2 DEF Fill
<1> QED
  BY <1>3, <1>4, <1>5 DEF PartAgrees

\* A name means the same value in a slice, and in a slice of a slice, as in the
\* whole array, and none that lies outside (param.go:29, :105).
LEMMA SlicesHold ==
  ASSUME NEW names \in Seq(TableNames)
  PROVE  SlicesAgree(names)
<1> DEFINE n0    == Len(names)
           vals  == [i \in 1..n0 |-> ToString(i)]
           S     == {ToString(i) : i \in 1..n0}
           whole == GetInt(vals, names)
<1>1. n0 \in Nat /\ vals \in Seq(S) /\ Len(vals) = n0
  OBVIOUS
<1>2. whole.len = n0
  BY <1>1 DEF GetInt, NewParam
<1> HIDE DEF vals, S
<1>3. IsPart(whole, names)
  BY <1>1, WholeIsPart
<1> SUFFICES ASSUME NEW from \in 0..n0, NEW to \in from..n0
             PROVE  /\ PartAgrees(vals, names, whole, Slice(whole, from, to))
                    /\ \A sub \in 0..(to - from) : \A end \in sub..(to - from) :
                         PartAgrees(vals, names, whole, Slice(Slice(whole, from, to), sub, end))
  BY DEF SlicesAgree, vals
<1> HIDE DEF whole
<1>4. IsPart(Slice(whole, from, to), names) /\ Slice(whole, from, to).len = to - from
  BY <1>2, <1>3, SliceIsPart DEF Slice
<1>5. \A sub \in 0..(to - from) : \A end \in sub..(to - from) : IsPart(Slice(Slice(whole, from, to), sub, end), names)
  BY <1>4, SliceIsPart
<1> QED
  BY <1>1, <1>4, <1>5, PartsAgree DEF whole

-----------------------------------------------------------------------------
(***************************************************************************)
(* Data bases.                                                             *)
(***************************************************************************)
LEMMA ZerosAre ==
  ASSUME NEW n \in Nat
  PROVE  Zeros(n) \in Seq(Int) /\ Len(Zeros(n)) = n /\ \A i \in 1..n : Zeros(n)[i] = 0
BY DEF Zeros

LEMMA BuiltinIs ==
  /\ DOMAIN Builtin = {"Item", "ItemStock", "Money", "Abl"}
  /\ Builtin["Item"].scope = "System" /\ Builtin["ItemStock"].scope = "System" /\ Builtin["Money"].scope = "System"
  /\ Builtin["Item"].file = "Item.csv" /\ Builtin["ItemStock"].file = "Item.csv" /\ "Item.csv" # Blank
  /\ CompiledSizes \in [DOMAIN Builtin -> Nat]
  /\ CompiledSizes["Item"] = 0 /\ CompiledSizes["ItemStock"] = 0 /\ CompiledSizes["Money"] = 1
<1>1. DOMAIN Builtin = {"Item", "ItemStock", "Money", "Abl"}
  BY DEF Builtin
<1>2. Builtin["Item"].scope = "System" /\ Builtin["ItemStock"].scope = "System" /\ Builtin["Money"].scope = "System"
  BY DEF Builtin
<1>3. Builtin["Item"].file = "Item.csv" /\ Builtin["ItemStock"].file = "Item.csv"
  BY DEF Builtin
<1>4. "Item.csv" # Blank
  BY DEF Blank
<1>5. /\ CompiledSizes \in [DOMAIN Builtin -> Nat]
      /\ CompiledSizes["Item"] = 0 /\ CompiledSizes["ItemStock"] = 0 /\ CompiledSizes["Money"] = 1
  BY <1>1 DEF CompiledSizes
<1> QED
  BY <1>1, <1>2, <1>3, <1>4, <1>5

LEMMA SpecIs ==
  ASSUME NEW base, IsDataBase(base), NEW v \in Variables(base) \ DOMAIN Builtin
  PROVE  SpecAt(base, v) \in SpecRow /\ SpecAt(base, v).name = v
<1>1. \E j \in DOMAIN base.specs : base.specs[j].name = v
  BY DEF Variables
<1> DEFINE k == CHOOSE j \in DOMAIN base.specs : base.specs[j].name = v
<1>2. k \in DOMAIN base.specs /\ base.specs[k].name = v
  BY <1>1
<1>3. SpecAt(base, v) = base.specs[k]
  BY DEF SpecAt
<1> HIDE DEF k
<1>4. base.specs \in Seq(SpecRow)
  BY DEF IsDataBase
<1> QED
  BY <1>2, <1>3, <1>4

LEMMA NamesOfAre ==
  ASSUME NEW base, IsDataBase(base), NEW v
  PROVE  NamesOf(base, v) \in Seq(TableNames)
<1>1. CASE v \in Constants(base)
  BY <1>1, NamesAre DEF NamesOf, IsDataBase
<1>2. CASE v \notin Constants(base)
  <2>1. << >> \in Seq(TableNames)
    OBVIOUS
  <2> QED
    BY <1>2, <2>1 DEF NamesOf
<1> QED
  BY <1>1, <1>2

LEMMA SizesAre ==
  ASSUME NEW base, IsDataBase(base), NEW b \in [DOMAIN Builtin -> Nat]
  PROVE  Sizes(base, b) \in [Variables(base) -> Nat]
<1>1. ASSUME NEW v \in Variables(base)
      PROVE  (IF Declared(base, b, v) > 0 THEN Declared(base, b, v) ELSE Len(NamesOf(base, v))) \in Nat
  <2>1. Declared(base, b, v) \in Nat
    <3>1. CASE v \in DOMAIN Builtin
      BY <3>1 DEF Declared
    <3>2. CASE v \notin DOMAIN Builtin
      BY <3>2, SpecIs DEF Declared, SpecRow
    <3> QED
      BY <3>1, <3>2
  <2>2. Len(NamesOf(base, v)) \in Nat
    BY NamesOfAre
  <2> QED
    BY <2>1, <2>2
<1> QED
  BY <1>1 DEF Sizes

LEMMA PricesAre ==
  ASSUME NEW rows, IsTable(rows), NEW i \in DOMAIN Prices(rows)
  PROVE  Prices(rows)[i] \in Int
<1>1. PICK m \in Nat : i = m + 1 /\ m <= MaxIndex(rows)
  <2>1. i \in 1..(MaxIndex(rows) + 1) /\ MaxIndex(rows) \in Nat
    BY NamesAre, MaxIndexIs
  <2>2. i - 1 \in Nat /\ i = (i - 1) + 1 /\ i - 1 <= MaxIndex(rows)
    BY <2>1
  <2> QED
    BY <2>2
<1>2. Prices(rows)[m + 1] = IF RowsAt(rows, m) = {} THEN 0 ELSE rows[Max(RowsAt(rows, m))].price
  BY <1>1, AtNumber
<1>3. ASSUME RowsAt(rows, m) # {} PROVE rows[Max(RowsAt(rows, m))].price \in Int
  BY <1>3, LastRow, TableIs DEF Row
<1> QED
  BY <1>1, <1>2, <1>3

\* the sizes that the shop relies on
LEMMA ShopSizes ==
  ASSUME NEW base, IsDataBase(base)
  PROVE  /\ IsTable(base.tables["Item.csv"])
         /\ {"Item", "ItemStock", "Money"} \subseteq InScope(base, "System")
         /\ Sizes(base, CompiledSizes)["Money"] = 1
         /\ \A v \in {"Item", "ItemStock"} : DOMAIN Prices(base.tables["Item.csv"]) = 1..Sizes(base, CompiledSizes)[v]
<1>1. {"Item", "ItemStock", "Money"} \subseteq Variables(base)
  BY BuiltinIs DEF Variables
<1>2. {"Item", "ItemStock", "Money"} \subseteq InScope(base, "System")
  BY <1>1, BuiltinIs DEF InScope, Scope
<1>3. Sizes(base, CompiledSizes)["Money"] = 1
  BY <1>1, BuiltinIs DEF Sizes, Declared
<1>4. \A v \in {"Item", "ItemStock"} : File(base, v) = "Item.csv"
  BY BuiltinIs DEF File
<1>5. {"Item", "ItemStock"} \subseteq Constants(base)
  BY <1>1, <1>4, BuiltinIs DEF Constants
<1>6. \A v \in {"Item", "ItemStock"} : Sizes(base, CompiledSizes)[v] = Len(Names(base.tables["Item.csv"]))
  BY <1>1, <1>4, <1>5, BuiltinIs DEF Sizes, Declared, NamesOf
<1>7. IsTable(base.tables["Item.csv"])
  BY <1>4, <1>5 DEF IsDataBase
<1> QED
  BY <1>2, <1>3, <1>6, <1>7, NamesAre

\* the variables of a new character are those of the data base, in their sizes
LEMMA InitialVarsAre ==
  ASSUME NEW base, IsDataBase(base), NEW sz \in [Variables(base) -> Nat], NEW id \in CharaIds(base)
  PROVE  /\ InitialVars(base, sz, id) \in [InScope(base, "Chara") -> Seq(Int)]
         /\ \A v \in InScope(base, "Chara") : Len(InitialVars(base, sz, id)[v]) = sz[v]
<1> DEFINE k    == CHOOSE j \in DOMAIN base.charas : base.charas[j].id = id
           sets == base.charas[k].sets
           RowsFor(v, i) == {r \in DOMAIN sets : sets[r].var = v /\ Place(base, sets[r]) = i - 1}
           Value(v, i) == IF RowsFor(v, i) = {} THEN 0 ELSE sets[Max(RowsFor(v, i))].val
<1>1. k \in DOMAIN base.charas
  BY DEF CharaIds
<1>3. InitialVars(base, sz, id) = [v \in InScope(base, "Chara") |-> [i \in 1..sz[v] |-> Value(v, i)]]
  BY DEF InitialVars
<1> HIDE DEF k
<1>2. sets \in Seq(SetRow)
  <2>1. base.charas[k] \in CharaFile
    BY <1>1 DEF IsDataBase
  <2> QED
    BY <2>1 DEF CharaFile
<1>4. Len(sets) \in Int /\ DOMAIN sets = 1..Len(sets) /\ \A r \in DOMAIN sets : sets[r].val \in Int
  <2> HIDE DEF sets
  <2>1. DOMAIN sets = 1..Len(sets) /\ Len(sets) \in Int /\ \A r \in DOMAIN sets : sets[r] \in SetRow
    BY <1>2
  <2> QED
    BY <2>1 DEF SetRow
<1> HIDE DEF sets
<1>5. ASSUME NEW v, NEW i PROVE Value(v, i) \in Int
  <2>1. RowsFor(v, i) \subseteq DOMAIN sets
    OBVIOUS
  <2> HIDE DEF RowsFor
  <2>2. CASE RowsFor(v, i) = {}
    BY <2>2
  <2>3. CASE RowsFor(v, i) # {}
    <3>1. RowsFor(v, i) \subseteq Int /\ \A y \in RowsFor(v, i) : y <= Len(sets)
      BY <1>4, <2>1
    <3>2. Max(RowsFor(v, i)) \in RowsFor(v, i)
      BY <1>4, <2>3, <3>1, MaxIs
    <3> QED
      BY <1>4, <2>1, <2>3, <3>2
  <2> QED
    BY <2>2, <2>3
<1> HIDE DEF Value
<1>6. \A v \in InScope(base, "Chara") : sz[v] \in Nat
  BY DEF InScope
<1>7. \A v \in InScope(base, "Chara") : /\ [i \in 1..sz[v] |-> Value(v, i)] \in Seq(Int)
                                        /\ Len([i \in 1..sz[v] |-> Value(v, i)]) = sz[v]
  BY <1>5, <1>6
<1> QED
  BY <1>3, <1>7

-----------------------------------------------------------------------------
(***************************************************************************)
(* What the data and the files are made of.                                *)
(***************************************************************************)
VarMaps == UNION {[D -> Seq(Int)] : D \in SUBSET AllVariables}
Arrays == {a \in [vals : Seq(Int), cap : Nat, held : BOOLEAN] : Len(a.vals) <= a.cap}
ArrayMaps == UNION {[D -> Arrays] : D \in SUBSET AllVariables}
Charas == [id : Ids \cup {-1}, uid : 1..MaxUid, vars : VarMaps]
Titles == {"short", "long"}
Flags == [sys : BOOLEAN, share : BOOLEAN]
HalfMaps == UNION {[D -> [len : Nat, vals : Seq(Int)]] : D \in SUBSET AllVariables}
SystemFiles == [parts : 0..Parts, title : Titles, mixed : BOOLEAN, list : Seq(Charas),
                count : 0..MaxUid, refs : Seq(Nat), ints : VarMaps, half : HalfMaps]
ShareFiles == [parts : 0..Parts, ints : VarMaps, half : HalfMaps]

\* what is left behind the list has tables: the rest went when the list was decoded
Spares == {m \in VarMaps : DOMAIN m \subseteq Tabled[csv]}

LEMMA VarMapIs ==
  ASSUME NEW m
  PROVE  /\ m \in VarMaps => /\ m = [v \in DOMAIN m |-> m[v]] /\ DOMAIN m \subseteq AllVariables
                             /\ \A v \in DOMAIN m : m[v] \in Seq(Int)
         /\ \A D \in SUBSET AllVariables : m \in [D -> Seq(Int)] => m \in VarMaps
BY DEF VarMaps

LEMMA ArrayMapIs ==
  ASSUME NEW m
  PROVE  /\ m \in ArrayMaps => /\ m = [v \in DOMAIN m |-> m[v]] /\ DOMAIN m \subseteq AllVariables
                               /\ \A v \in DOMAIN m : m[v] \in Arrays
         /\ \A D \in SUBSET AllVariables : m \in [D -> Arrays] => m \in ArrayMaps
BY DEF ArrayMaps

LEMMA ArrayIs ==
  ASSUME NEW a \in Arrays
  PROVE  /\ a.vals \in Seq(Int) /\ a.cap \in Nat /\ a.held \in BOOLEAN /\ Len(a.vals) <= a.cap
         /\ \A s \in Seq(Int) : Len(s) <= a.cap => [a EXCEPT !.vals = s] \in Arrays
BY DEF Arrays

LEMMA NothingIs ==
  /\ << >> \in VarMaps /\ << >> \in ArrayMaps /\ << >> \in Seq(Charas) /\ << >> \in Seq(Nat)
  /\ DOMAIN << >> = {} /\ Len(<< >>) = 0
<1>1. << >> \in Seq(Charas)
  OBVIOUS
<1>2. << >> \in Seq(Nat)
  OBVIOUS
<1>3. DOMAIN << >> = {} /\ Len(<< >>) = 0
  OBVIOUS
<1>4. << >> \in [{} -> Seq(Int)] /\ << >> \in [{} -> Arrays]
  BY <1>3
<1>5. {} \in SUBSET AllVariables
  OBVIOUS
<1> QED
  BY <1>1, <1>2, <1>3, <1>4, <1>5, VarMapIs, ArrayMapIs

LEMMA HalfMapIs ==
  ASSUME NEW m
  PROVE  /\ m \in HalfMaps => \A v \in DOMAIN m : m[v].len \in Nat /\ m[v].vals \in Seq(Int)
         /\ \A D \in SUBSET AllVariables : m \in [D -> [len : Nat, vals : Seq(Int)]] => m \in HalfMaps
         /\ << >> \in HalfMaps
<1>1. m \in HalfMaps => \A v \in DOMAIN m : m[v] \in [len : Nat, vals : Seq(Int)]
  BY DEF HalfMaps
<1>2. \A D \in SUBSET AllVariables : m \in [D -> [len : Nat, vals : Seq(Int)]] => m \in HalfMaps
  BY DEF HalfMaps
<1>3. << >> \in HalfMaps
  <2>1. << >> \in [{} -> [len : Nat, vals : Seq(Int)]] /\ {} \in SUBSET AllVariables
    BY NothingIs
  <2> QED
    BY <2>1 DEF HalfMaps
<1>4. \A r \in [len : Nat, vals : Seq(Int)] : r.len \in Nat /\ r.vals \in Seq(Int)
  OBVIOUS
<1> QED
  BY <1>1, <1>2, <1>3, <1>4

\* the rest of a sequence
LEMMA SubSeqIs ==
  ASSUME NEW S, NEW q \in Seq(S), NEW n \in Nat
  PROVE  SubSeq(q, n + 1, Len(q)) \in Seq(S)
OBVIOUS

LEMMA FreshIs ==
  ASSUME NEW s \in Seq(Int)
  PROVE  Fresh(s) \in Arrays /\ Fresh(s).vals = s
BY DEF Fresh, Arrays

\* the variables of a scope are variables of the data base
LEMMA ScopesAre ==
  ASSUME NEW d \in DOMAIN Dbs, NEW s \in {"System", "Share", "Chara"}
  PROVE  /\ ScopedVars[d][s] = InScope(Dbs[d], s)
         /\ ScopedVars[d][s] \subseteq Variables(Dbs[d]) /\ ScopedVars[d][s] \subseteq AllVariables
         /\ IsDataBase(Dbs[d])
<1>1. ScopedVars[d][s] = InScope(Dbs[d], s)
  BY DEF ScopedVars
<1>2. InScope(Dbs[d], s) \subseteq Variables(Dbs[d]) /\ Variables(Dbs[d]) \subseteq AllVariables
  BY DEF InScope, AllVariables
<1> QED
  BY <1>1, <1>2, DataAssumption

LEMMA FitIs ==
  ASSUME NEW s \in Seq(Int), NEW n \in Nat, NEW t \in Seq(Int), Len(t) = n
  PROVE  Fit(s, n, t) \in Seq(Int) /\ Len(Fit(s, n, t)) = n
<1>1. \A i \in 1..n : (IF i \in DOMAIN s THEN s[i] ELSE t[i]) \in Int
  OBVIOUS
<1> QED
  BY <1>1 DEF Fit

LEMMA FitNothing ==
  ASSUME NEW n \in Nat, NEW t \in Seq(Int), Len(t) = n
  PROVE  Fit(<< >>, n, t) = t
<1>1. Fit(<< >>, n, t) = [i \in 1..n |-> t[i]]
  BY NothingIs DEF Fit
<1> QED
  BY <1>1

-----------------------------------------------------------------------------
(***************************************************************************)
(* What the operations make of maps of variables.                          *)
(***************************************************************************)
LEMMA NewVarsAre ==
  ASSUME NEW d \in DOMAIN Dbs, NEW sz \in [Variables(Dbs[d]) -> Nat], NEW s \in {"System", "Share", "Chara"}
  PROVE  /\ NewVars(d, sz, s) \in ArrayMaps /\ DOMAIN NewVars(d, sz, s) = ScopedVars[d][s]
         /\ \A v \in ScopedVars[d][s] : Len(NewVars(d, sz, s)[v].vals) = sz[v]
<1>1. ScopedVars[d][s] \in SUBSET AllVariables /\ \A v \in ScopedVars[d][s] : sz[v] \in Nat
  BY ScopesAre
<1>2. \A n \in Nat : Array(n) \in Arrays /\ Len(Array(n).vals) = n
  BY ZerosAre DEF Array, Arrays
<1>3. NewVars(d, sz, s) \in [ScopedVars[d][s] -> Arrays]
  BY <1>1, <1>2 DEF NewVars
<1>4. \A v \in ScopedVars[d][s] : NewVars(d, sz, s)[v] = Array(sz[v])
  BY DEF NewVars
<1> QED
  BY <1>1, <1>2, <1>3, <1>4, ArrayMapIs

LEMMA DroppedIs ==
  ASSUME NEW m
  PROVE  /\ DOMAIN Dropped(m) = DOMAIN m \cap Tabled[csv] /\ \A v \in DOMAIN Dropped(m) : Dropped(m)[v] = m[v]
         /\ m \in ArrayMaps => Dropped(m) \in ArrayMaps
         /\ m \in VarMaps => Dropped(m) \in VarMaps
<1> DEFINE D == DOMAIN m \cap Tabled[csv]
<1>1. DOMAIN Dropped(m) = D /\ \A v \in D : Dropped(m)[v] = m[v]
  BY DEF Dropped
<1>2. ASSUME m \in ArrayMaps PROVE Dropped(m) \in ArrayMaps
  <2>1. D \in SUBSET AllVariables /\ Dropped(m) \in [D -> Arrays]
    BY <1>2, ArrayMapIs DEF Dropped
  <2> QED
    BY <2>1, ArrayMapIs
<1>3. ASSUME m \in VarMaps PROVE Dropped(m) \in VarMaps
  <2>1. D \in SUBSET AllVariables /\ Dropped(m) \in [D -> Seq(Int)]
    BY <1>3, VarMapIs DEF Dropped
  <2> QED
    BY <2>1, VarMapIs
<1> QED
  BY <1>1, <1>2, <1>3

LEMMA DecodedOne ==
  ASSUME NEW a \in Arrays, NEW s \in Seq(Int)
  PROVE  Decoded(a, s) \in Arrays /\ Decoded(a, s).vals = s
<1>1. CASE Len(s) <= a.cap
  <2>1. Decoded(a, s) = [a EXCEPT !.vals = s]
    BY <1>1 DEF Decoded
  <2>2. [a EXCEPT !.vals = s].vals = s
    BY DEF Arrays
  <2> QED
    BY <1>1, <2>1, <2>2, ArrayIs
<1>2. CASE ~(Len(s) <= a.cap)
  BY <1>2, FreshIs DEF Decoded, Fresh
<1> QED
  BY <1>1, <1>2

LEMMA DecodedIs ==
  ASSUME NEW old \in ArrayMaps, NEW ints \in VarMaps
  PROVE  /\ DecodedAll(old, ints) \in ArrayMaps
         /\ DOMAIN DecodedAll(old, ints) = DOMAIN old \cup DOMAIN ints
         /\ \A v \in DOMAIN ints : DecodedAll(old, ints)[v].vals = ints[v]
         /\ \A v \in DOMAIN old \ DOMAIN ints : DecodedAll(old, ints)[v] = old[v]
<1> DEFINE m == DecodedAll(old, ints)
<1>1. DOMAIN m = DOMAIN old \cup DOMAIN ints /\ m = [v \in DOMAIN m |-> m[v]]
  BY Zenon DEF DecodedAll
<1>2. ASSUME NEW v \in DOMAIN old \ DOMAIN ints PROVE m[v] = old[v]
  BY Zenon DEF DecodedAll
<1>3. ASSUME NEW v \in DOMAIN ints \ DOMAIN old PROVE m[v] = Fresh(ints[v])
  BY Zenon DEF DecodedAll
<1>4. ASSUME NEW v \in DOMAIN ints \cap DOMAIN old PROVE m[v] = Decoded(old[v], ints[v])
  BY Zenon DEF DecodedAll
<1> HIDE DEF m
<1>5. \A v \in DOMAIN old : old[v] \in Arrays
  BY ArrayMapIs
<1>6. \A v \in DOMAIN ints : ints[v] \in Seq(Int)
  BY VarMapIs
<1>7. \A a \in Arrays, s \in Seq(Int) : Decoded(a, s) \in Arrays /\ Decoded(a, s).vals = s
  BY DecodedOne
<1>8. \A v \in DOMAIN ints : m[v] \in Arrays /\ m[v].vals = ints[v]
  BY <1>3, <1>4, <1>5, <1>6, <1>7, FreshIs
<1>9. \A v \in DOMAIN m : m[v] \in Arrays
  BY <1>1, <1>2, <1>5, <1>8
<1>10. DOMAIN m \in SUBSET AllVariables
  BY <1>1, ArrayMapIs, VarMapIs
<1>11. m \in [DOMAIN m -> Arrays]
  BY <1>1, <1>9
<1>12. m \in ArrayMaps
  BY <1>10, <1>11, ArrayMapIs
<1> QED
  BY <1>1, <1>2, <1>8, <1>12 DEF m

\* an array that goes into the one that is there keeps its place
LEMMA DecodedInPlace ==
  ASSUME NEW old \in ArrayMaps, NEW ints \in VarMaps, NEW v \in DOMAIN old \cap DOMAIN ints, Len(ints[v]) <= old[v].cap
  PROVE  DecodedAll(old, ints)[v].held = old[v].held
<1>1. DecodedAll(old, ints)[v] = Decoded(old[v], ints[v])
  BY Zenon DEF DecodedAll
<1>2. Decoded(old[v], ints[v]) = [old[v] EXCEPT !.vals = ints[v]]
  BY DEF Decoded
<1>3. old[v] \in Arrays
  BY ArrayMapIs
<1>4. \A a \in Arrays : \A s : [a EXCEPT !.vals = s].held = a.held
  BY DEF Arrays
<1> QED
  BY <1>1, <1>2, <1>3, <1>4

\* an array that a file is cut in keeps its place and its length
LEMMA OverwrittenIs ==
  ASSUME NEW m \in ArrayMaps, NEW half \in HalfMaps
  PROVE  /\ Overwritten(m, half) \in ArrayMaps /\ DOMAIN Overwritten(m, half) = DOMAIN m
         /\ \A v \in DOMAIN m : /\ Len(Overwritten(m, half)[v].vals) = Len(m[v].vals)
                                /\ Overwritten(m, half)[v].held = m[v].held
<1> DEFINE q == Overwritten(m, half)
           s(v) == [i \in DOMAIN m[v].vals |-> IF i \in DOMAIN half[v].vals THEN half[v].vals[i] ELSE m[v].vals[i]]
<1>1. DOMAIN m \in SUBSET AllVariables /\ \A v \in DOMAIN m : m[v] \in Arrays
  BY ArrayMapIs
<1>2. q = [v \in DOMAIN m |-> IF v \in DOMAIN half /\ half[v].len <= m[v].cap
                              THEN [m[v] EXCEPT !.vals = s(v)] ELSE m[v]]
  BY DEF Overwritten
<1> HIDE DEF q
<1>3. ASSUME NEW v \in DOMAIN m, v \in DOMAIN half
      PROVE  s(v) \in Seq(Int) /\ Len(s(v)) = Len(m[v].vals)
  <2>1. PICK a \in Seq(Int) : a = m[v].vals
    BY <1>1, ArrayIs
  <2>2. PICK b \in Seq(Int) : b = half[v].vals
    BY <1>3, HalfMapIs
  <2>3. [i \in DOMAIN a |-> IF i \in DOMAIN b THEN b[i] ELSE a[i]] \in [1..Len(a) -> Int]
    BY <2>1, <2>2
  <2>4. s(v) \in [1..Len(a) -> Int] /\ Len(a) \in Nat
    BY <2>1, <2>2, <2>3
  <2> HIDE DEF s
  <2>5. s(v) \in Seq(Int) /\ Len(s(v)) = Len(a)
    BY <2>4
  <2> QED
    BY <2>1, <2>5
<1> HIDE DEF s
<1>4. ASSUME NEW v \in DOMAIN m
      PROVE  q[v] \in Arrays /\ Len(q[v].vals) = Len(m[v].vals) /\ q[v].held = m[v].held
  <2>1. PICK a \in Arrays : a = m[v]
    BY <1>1
  <2>2. ASSUME NEW t \in Seq(Int), Len(t) = Len(a.vals)
        PROVE  LET b == [a EXCEPT !.vals = t] IN b \in Arrays /\ b.vals = t /\ b.held = a.held
    <3>1. [a EXCEPT !.vals = t] \in Arrays
      BY <2>2, ArrayIs
    <3>2. [a EXCEPT !.vals = t].vals = t /\ [a EXCEPT !.vals = t].held = a.held
      BY DEF Arrays
    <3> QED
      BY <3>1, <3>2
  <2>3. CASE v \in DOMAIN half /\ half[v].len <= m[v].cap
    <3>1. q[v] = [a EXCEPT !.vals = s(v)]
      BY <1>2, <2>1, <2>3
    <3>2. s(v) \in Seq(Int) /\ Len(s(v)) = Len(a.vals)
      BY <1>3, <2>1, <2>3
    <3> QED
      BY <2>1, <2>2, <3>1, <3>2
  <2>4. CASE ~(v \in DOMAIN half /\ half[v].len <= m[v].cap)
    BY <1>2, <2>1, <2>4
  <2> QED
    BY <2>3, <2>4
<1>5. DOMAIN q = DOMAIN m /\ q \in [DOMAIN m -> Arrays]
  BY <1>2, <1>4
<1>6. q \in ArrayMaps
  BY <1>1, <1>5, ArrayMapIs
<1> QED
  BY <1>4, <1>5, <1>6 DEF q

LEMMA RefitIs ==
  ASSUME NEW a \in Arrays, NEW n \in Nat
  PROVE  Refit(a, n) \in Arrays /\ Refit(a, n).vals = Fit(a.vals, n, Zeros(n)) /\ Len(Refit(a, n).vals) = n
<1> DEFINE s == Fit(a.vals, n, Zeros(n))
<1>1. s \in Seq(Int) /\ Len(s) = n
  BY FitIs, ZerosAre, ArrayIs
<1>2. CASE n <= a.cap
  <2>1. Refit(a, n) = [a EXCEPT !.vals = s]
    BY <1>2 DEF Refit
  <2> HIDE DEF s
  <2>2. [a EXCEPT !.vals = s].vals = s
    BY DEF Arrays
  <2> QED
    BY <1>1, <1>2, <2>1, <2>2, ArrayIs DEF s
<1>3. CASE ~(n <= a.cap)
  <2>1. Refit(a, n) = Fresh(s)
    BY <1>3 DEF Refit
  <2> QED
    BY <1>1, <2>1, FreshIs
<1> QED
  BY <1>2, <1>3

\* what a variable of the data base holds when it is put right
Righted(m, v) == Fit(IF v \in DOMAIN m THEN m[v].vals ELSE << >>, size[v], Zeros(size[v]))

LEMMA RefinedIs ==
  ASSUME NEW m \in ArrayMaps, NEW specs \in SUBSET AllVariables, \A v \in specs : size[v] \in Nat
  PROVE  /\ Refined(m, specs) \in ArrayMaps /\ DOMAIN Refined(m, specs) = DOMAIN m \cup specs
         /\ \A v \in specs : /\ Refined(m, specs)[v].vals = Righted(m, v)
                             /\ Len(Refined(m, specs)[v].vals) = size[v]
         /\ \A v \in DOMAIN m \ specs : Refined(m, specs)[v] = m[v]
<1> DEFINE q == Refined(m, specs)
<1>1. DOMAIN q = DOMAIN m \cup specs /\ q = [v \in DOMAIN q |-> q[v]]
  BY Zenon DEF Refined
<1>2. ASSUME NEW v \in DOMAIN m \ specs PROVE q[v] = m[v]
  BY Zenon DEF Refined
<1>3. ASSUME NEW v \in specs \ DOMAIN m PROVE q[v] = Fresh(Zeros(size[v]))
  BY Zenon DEF Refined
<1>4. ASSUME NEW v \in specs \cap DOMAIN m PROVE q[v] = Refit(m[v], size[v])
  BY Zenon DEF Refined
<1> HIDE DEF q
<1>5. \A v \in DOMAIN m : m[v] \in Arrays
  BY ArrayMapIs
<1>6. ASSUME NEW v \in specs
      PROVE  q[v] \in Arrays /\ q[v].vals = Righted(m, v) /\ Len(q[v].vals) = size[v]
  <2>1. CASE v \in DOMAIN m
    BY <1>4, <1>5, <2>1, RefitIs DEF Righted
  <2>2. CASE v \notin DOMAIN m
    <3>1. Zeros(size[v]) \in Seq(Int) /\ Len(Zeros(size[v])) = size[v]
      BY ZerosAre
    <3>2. Righted(m, v) = Zeros(size[v])
      BY <2>2, <3>1, FitNothing DEF Righted
    <3> QED
      BY <1>3, <2>2, <3>1, <3>2, FreshIs
  <2> QED
    BY <2>1, <2>2
<1>7. \A v \in DOMAIN q : q[v] \in Arrays
  BY <1>1, <1>2, <1>5, <1>6
<1>8. DOMAIN q \in SUBSET AllVariables /\ q \in [DOMAIN q -> Arrays]
  BY <1>1, <1>7, ArrayMapIs
<1>9. q \in ArrayMaps
  BY <1>8, ArrayMapIs
<1> QED
  BY <1>1, <1>2, <1>6, <1>9 DEF q

LEMMA HeldIs ==
  ASSUME NEW m \in ArrayMaps, NEW anew \in BOOLEAN
  PROVE  /\ Registered(m, anew) \in ArrayMaps /\ DOMAIN Registered(m, anew) = DOMAIN m
         /\ \A v \in DOMAIN m : /\ Registered(m, anew)[v].vals = m[v].vals
                                /\ anew => Registered(m, anew)[v].held = TRUE
<1>1. \A a \in Arrays : /\ [a EXCEPT !.held = TRUE] \in Arrays
                         /\ [a EXCEPT !.held = TRUE].vals = a.vals /\ [a EXCEPT !.held = TRUE].held = TRUE
  BY DEF Arrays
<1>2. DOMAIN m \in SUBSET AllVariables /\ \A v \in DOMAIN m : m[v] \in Arrays
  BY ArrayMapIs
<1>3. DOMAIN Held(m) = DOMAIN m /\ \A v \in DOMAIN m : Held(m)[v] = [m[v] EXCEPT !.held = TRUE]
  BY DEF Held
<1>4. Held(m) \in [DOMAIN m -> Arrays]
  BY <1>1, <1>2 DEF Held
<1>5. Held(m) \in ArrayMaps
  BY <1>2, <1>4, ArrayMapIs
<1>6. CASE anew
  BY <1>1, <1>2, <1>3, <1>5, <1>6 DEF Registered
<1>7. CASE ~anew
  BY <1>7 DEF Registered
<1> QED
  BY <1>6, <1>7

LEMMA ZeroedIs ==
  ASSUME NEW m \in ArrayMaps
  PROVE  /\ Zeroed(m) \in ArrayMaps /\ DOMAIN Zeroed(m) = DOMAIN m
         /\ \A v \in DOMAIN m : Len(Zeroed(m)[v].vals) = Len(m[v].vals) /\ Zeroed(m)[v].held = m[v].held
<1>1. DOMAIN m \in SUBSET AllVariables /\ \A v \in DOMAIN m : m[v] \in Arrays
  BY ArrayMapIs
<1>2. ASSUME NEW a \in Arrays
      PROVE  /\ [a EXCEPT !.vals = Zeros(Len(a.vals))] \in Arrays
             /\ Len([a EXCEPT !.vals = Zeros(Len(a.vals))].vals) = Len(a.vals)
             /\ [a EXCEPT !.vals = Zeros(Len(a.vals))].held = a.held
  <2>1. Len(a.vals) \in Nat /\ Len(a.vals) <= a.cap
    BY ArrayIs
  <2>2. Zeros(Len(a.vals)) \in Seq(Int) /\ Len(Zeros(Len(a.vals))) = Len(a.vals)
    BY <2>1, ZerosAre
  <2>3. PICK z : z = Zeros(Len(a.vals))
    OBVIOUS
  <2>4. [a EXCEPT !.vals = z].vals = z /\ [a EXCEPT !.vals = z].held = a.held
    BY DEF Arrays
  <2> QED
    BY <2>1, <2>2, <2>3, <2>4, ArrayIs
<1>3. DOMAIN Zeroed(m) = DOMAIN m /\ \A v \in DOMAIN m : Zeroed(m)[v] = [m[v] EXCEPT !.vals = Zeros(Len(m[v].vals))]
  BY DEF Zeroed
<1>4. Zeroed(m) \in [DOMAIN m -> Arrays]
  BY <1>1, <1>2 DEF Zeroed
<1> QED
  BY <1>1, <1>2, <1>3, <1>4, ArrayMapIs

\* a value is written into an array
Put(m, v, i, x) == [m EXCEPT ![v].vals[i] = x]

LEMMA PutIs ==
  ASSUME NEW m \in ArrayMaps, NEW v \in DOMAIN m, NEW i \in DOMAIN m[v].vals, NEW x \in Int
  PROVE  LET w == Put(m, v, i, x) IN
         /\ w \in ArrayMaps /\ DOMAIN w = DOMAIN m
         /\ \A u \in DOMAIN m : Len(w[u].vals) = Len(m[u].vals) /\ w[u].held = m[u].held
<1> DEFINE s == [m[v].vals EXCEPT ![i] = x]
           a == [m[v] EXCEPT !.vals = s]
           w == Put(m, v, i, x)
<1>0. w = [m EXCEPT ![v] = a]
  BY DEF Put
<1>1. DOMAIN m \in SUBSET AllVariables /\ \A u \in DOMAIN m : m[u] \in Arrays
  BY ArrayMapIs
<1>2. m[v].vals \in Seq(Int) /\ m[v].cap \in Nat /\ Len(m[v].vals) <= m[v].cap
  BY <1>1, ArrayIs
<1>3. s \in Seq(Int) /\ Len(s) = Len(m[v].vals)
  BY <1>2
<1> HIDE DEF s, w
<1>4. a \in Arrays /\ a.vals = s /\ a.held = m[v].held
  <2>1. m[v] \in Arrays
    BY <1>1
  <2>2. a.vals = s /\ a.held = m[v].held
    BY <2>1 DEF Arrays
  <2> QED
    BY <2>1, <2>2, <1>2, <1>3, ArrayIs
<1> HIDE DEF a
<1>5. DOMAIN w = DOMAIN m /\ w \in [DOMAIN m -> Arrays] /\ w[v] = a /\ \A u \in DOMAIN m \ {v} : w[u] = m[u]
  <2>1. m = [u \in DOMAIN m |-> m[u]]
    BY ArrayMapIs
  <2> QED
    BY <1>0, <1>1, <1>4, <2>1
<1>6. w \in ArrayMaps
  BY <1>1, <1>5, ArrayMapIs
<1>7. \A u \in DOMAIN m : Len(w[u].vals) = Len(m[u].vals) /\ w[u].held = m[u].held
  BY <1>3, <1>4, <1>5
<1> QED
  BY <1>5, <1>6, <1>7 DEF w

LEMMA ValuesAre ==
  ASSUME NEW m \in ArrayMaps
  PROVE  Values1(m) \in VarMaps
<1>1. DOMAIN m \in SUBSET AllVariables /\ \A v \in DOMAIN m : m[v].vals \in Seq(Int)
  BY ArrayMapIs, ArrayIs
<1>2. Values1(m) \in [DOMAIN m -> Seq(Int)]
  BY <1>1 DEF Values1
<1> QED
  BY <1>1, <1>2, VarMapIs

\* what a write has written, wherever it breaks off
LEMMA IntsAre ==
  ASSUME NEW m \in ArrayMaps, NEW p \in 0..Parts, NEW cut, cut.upTo \in Nat
  PROVE  Ints(m, p, cut) \in VarMaps /\ Half(m, p, cut) \in HalfMaps
<1> DEFINE D == DOMAIN m \cap cut.whole
           E == (DOMAIN m \cap {cut.at}) \ cut.whole
<1>1. DOMAIN m \in SUBSET AllVariables /\ \A v \in DOMAIN m : m[v].vals \in Seq(Int)
  BY ArrayMapIs, ArrayIs
<1>2. [v \in D |-> m[v].vals] \in VarMaps
  <2>1. [v \in D |-> m[v].vals] \in [D -> Seq(Int)] /\ D \in SUBSET AllVariables
    BY <1>1
  <2> QED
    BY <2>1, VarMapIs
<1>3. Ints(m, p, cut) \in VarMaps
  <2>1. CASE p = Parts
    <3>1. p # Amid
      BY <2>1 DEF Parts, Amid
    <3>2. Ints(m, p, cut) = Values1(m)
      BY <2>1, <3>1 DEF Ints
    <3> QED
      BY <3>2, ValuesAre
  <2>2. CASE p = Amid
    <3>1. p # Parts
      BY <2>2 DEF Parts, Amid
    <3>2. Ints(m, p, cut) = [v \in D |-> m[v].vals]
      BY <2>2, <3>1 DEF Ints
    <3> QED
      BY <1>2, <3>2
  <2>3. CASE p # Parts /\ p # Amid
    <3>1. Ints(m, p, cut) = << >>
      BY <2>3, Zenon DEF Ints
    <3> QED
      BY <3>1, NothingIs
  <2> QED
    BY <2>1, <2>2, <2>3
<1> DEFINE upTo(s) == Min({cut.upTo, Len(s)})
           half(s) == [len |-> Len(s), vals |-> SubSeq(s, 1, upTo(s))]
<1>4. ASSUME NEW s \in Seq(Int) PROVE half(s) \in [len : Nat, vals : Seq(Int)]
  <2>1. Len(s) \in Nat
    OBVIOUS
  <2>2. upTo(s) \in Nat /\ upTo(s) <= Len(s)
    <3> DEFINE S == {cut.upTo, Len(s)}
    <3>1. S \subseteq Nat /\ S # {}
      BY <2>1
    <3>2. Min(S) \in S /\ \A y \in S : Min(S) <= y
      BY <3>1, MinIs
    <3> QED
      BY <3>1, <3>2, <2>1
  <2> HIDE DEF upTo
  <2>3. SubSeq(s, 1, upTo(s)) \in Seq(Int)
    BY <2>1, <2>2
  <2> QED
    BY <2>1, <2>3
<1> HIDE DEF upTo
<1>5. Half(m, p, cut) \in HalfMaps
  <2>1. CASE p # Amid
    BY <2>1, HalfMapIs DEF Half
  <2>2. CASE p = Amid
    <3>1. Half(m, p, cut) = [v \in E |-> half(m[v].vals)]
      BY <2>2 DEF Half, upTo
    <3> HIDE DEF half
    <3>2. Half(m, p, cut) \in [E -> [len : Nat, vals : Seq(Int)]] /\ E \in SUBSET AllVariables
      BY <1>1, <1>4, <3>1
    <3> QED
      BY <3>2, HalfMapIs
  <2> QED
    BY <2>1, <2>2
<1> QED
  BY <1>3, <1>5

-----------------------------------------------------------------------------
(***************************************************************************)
(* What the operations make of lists of characters.                        *)
(***************************************************************************)
\* the sizes are those that a data base has given
Sized == csv \in DOMAIN Dbs /\ size \in [Variables(db) -> Nat]

VarsFit(m) == \A v \in CharaVariables : v \in DOMAIN m /\ Len(m[v]) = size[v]
ListFits(l) == \A k \in DOMAIN l : VarsFit(l[k].vars)

\* one list has the characters of another, whatever their variables
SameCharas(l, m) == Len(l) = Len(m) /\ \A k \in DOMAIN m : l[k].id = m[k].id /\ l[k].uid = m[k].uid

LEMMA SizedIs ==
  ASSUME Sized
  PROVE  /\ IsDataBase(db)
         /\ SysVars \in SUBSET AllVariables /\ ShareVars \in SUBSET AllVariables
         /\ CharaVariables \in SUBSET AllVariables /\ CharaVariables = InScope(db, "Chara")
         /\ \A v \in SysVars \cup ShareVars \cup CharaVariables : size[v] \in Nat
<1>1. csv \in DOMAIN Dbs
  BY DEF Sized
<1>2. SysVars \subseteq Variables(db) /\ ShareVars \subseteq Variables(db) /\ CharaVariables \subseteq Variables(db)
  BY <1>1, ScopesAre DEF SysVars, ShareVars, CharaVariables, db
<1>3. \A v \in Variables(db) : size[v] \in Nat
  BY DEF Sized
<1>4. IsDataBase(db) /\ CharaVariables = InScope(db, "Chara")
  BY <1>1, ScopesAre DEF CharaVariables, db
<1>5. Variables(db) \subseteq AllVariables
  BY <1>1 DEF AllVariables, db
<1> QED
  BY <1>2, <1>3, <1>4, <1>5

LEMMA CharaIs ==
  ASSUME NEW c \in Charas
  PROVE  /\ c.id \in Ids \cup {-1} /\ c.uid \in 1..MaxUid /\ c.vars \in VarMaps
         /\ \A m \in VarMaps : LET b == [c EXCEPT !.vars = m]
                              IN b \in Charas /\ b.id = c.id /\ b.uid = c.uid /\ b.vars = m
BY DEF Charas

LEMMA UniqueSame ==
  ASSUME NEW l \in Seq(Charas), NEW m \in Seq(Charas), SameCharas(l, m), NEW n, UniqueUpTo(m, n)
  PROVE  UniqueUpTo(l, n)
<1>1. DOMAIN l = DOMAIN m /\ \A k \in DOMAIN m : l[k].uid = m[k].uid
  BY DEF SameCharas
<1> QED
  BY <1>1 DEF UniqueUpTo

LEMMA StartVarsAre ==
  ASSUME Sized, NEW id
  PROVE  /\ StartVars(id) \in [CharaVariables -> Seq(Int)] /\ StartVars(id) \in VarMaps
         /\ VarsFit(StartVars(id)) /\ \A v \in CharaVariables : Len(StartVars(id)[v]) = size[v]
<1>1. /\ IsDataBase(db) /\ CharaVariables \in SUBSET AllVariables /\ CharaVariables = InScope(db, "Chara")
      /\ \A v \in CharaVariables : size[v] \in Nat
  BY SizedIs
<1>2. size \in [Variables(db) -> Nat]
  BY DEF Sized
<1>3. StartVars(id) \in [CharaVariables -> Seq(Int)] /\ \A v \in CharaVariables : Len(StartVars(id)[v]) = size[v]
  <2>1. CASE id \in CharaIds(db)
    BY <1>1, <1>2, <2>1, InitialVarsAre DEF StartVars
  <2>2. CASE id \notin CharaIds(db)
    BY <1>1, <2>2, ZerosAre DEF StartVars, ZeroVars
  <2> QED
    BY <2>1, <2>2
<1> QED
  BY <1>1, <1>3, VarMapIs DEF VarsFit

\* the characters that there are in the array of the list
LEMMA InPlaceIs ==
  ASSUME list \in Seq(Charas), spare \in Seq(Spares)
  PROVE  InPlace \in Seq(Spares)
<1> DEFINE l == [k \in DOMAIN list |-> Dropped(list[k].vars)]
<1>1. \A k \in DOMAIN list : list[k] \in Charas
  OBVIOUS
<1>2. \A k \in DOMAIN list : Dropped(list[k].vars) \in Spares
  BY <1>1, CharaIs, DroppedIs DEF Spares
<1>3. DOMAIN list = 1..Len(list) /\ Len(list) \in Nat
  OBVIOUS
<1>4. l \in [1..Len(list) -> Spares]
  BY <1>2, <1>3
<1>5. l \in Seq(Spares)
  BY <1>3, <1>4
<1> HIDE DEF l
<1> QED
  BY <1>5 DEF InPlace, l

LEMMA LeftIs ==
  ASSUME list \in Seq(Charas), spare \in Seq(Spares), NEW f \in SystemFiles
  PROVE  Left(f) \in Seq(Spares)
<1>1. InPlace \in Seq(Spares)
  BY InPlaceIs
<1>2. Len(f.list) \in Nat
  BY DEF SystemFiles
<1> QED
  BY <1>1, <1>2, SubSeqIs DEF Left

LEMMA MergedIs ==
  ASSUME list \in Seq(Charas), spare \in Seq(Spares), NEW k, NEW c \in Charas
  PROVE  /\ Merged(k, c) \in VarMaps
         /\ \A v \in DOMAIN c.vars : v \in DOMAIN Merged(k, c) /\ Merged(k, c)[v] = c.vars[v]
         /\ \A v \in DOMAIN Merged(k, c) : v \in DOMAIN c.vars \/ v \in Tabled[csv]
<1> DEFINE live == IF k \in DOMAIN InPlace THEN InPlace[k] ELSE << >>
           m == Merged(k, c)
<1>1. live \in VarMaps /\ DOMAIN live \subseteq Tabled[csv]
  <2>1. CASE k \in DOMAIN InPlace
    <3>1. InPlace[k] \in Spares
      BY <2>1, InPlaceIs
    <3> QED
      BY <2>1, <3>1 DEF Spares
  <2>2. CASE k \notin DOMAIN InPlace
    BY <2>2, NothingIs
  <2> QED
    BY <2>1, <2>2
<1>2. m = [v \in DOMAIN live \cup DOMAIN c.vars |-> IF v \in DOMAIN c.vars THEN c.vars[v] ELSE live[v]]
  BY DEF Merged
<1> HIDE DEF live, m
<1>3. c.vars \in VarMaps
  BY CharaIs
<1>4. /\ DOMAIN live \in SUBSET AllVariables /\ DOMAIN c.vars \in SUBSET AllVariables
      /\ \A v \in DOMAIN live : live[v] \in Seq(Int)
      /\ \A v \in DOMAIN c.vars : c.vars[v] \in Seq(Int)
  BY <1>1, <1>3, VarMapIs
<1>5. DOMAIN m \in SUBSET AllVariables /\ m \in [DOMAIN m -> Seq(Int)]
  BY <1>2, <1>4
<1>6. m \in VarMaps
  BY <1>5, VarMapIs
<1>7. \A v \in DOMAIN c.vars : v \in DOMAIN m /\ m[v] = c.vars[v]
  BY <1>2
<1>8. \A v \in DOMAIN m : v \in DOMAIN c.vars \/ v \in Tabled[csv]
  BY <1>1, <1>2
<1> QED
  BY <1>6, <1>7, <1>8 DEF m

LEMMA CharaVarsAre ==
  ASSUME Sized, NEW c \in Charas
  PROVE  /\ CharaVars(c) \in VarMaps
         /\ VarsFit(CharaVars(c))
         /\ \A v \in CharaVariables :
              CharaVars(c)[v] = Fit(IF v \in DOMAIN c.vars THEN c.vars[v] ELSE << >>, size[v], StartVars(c.id)[v])
<1> DEFINE start == StartVars(c.id)
           m == CharaVars(c)
           s(v) == IF v \in DOMAIN c.vars THEN c.vars[v] ELSE << >>
<1>1. start \in [CharaVariables -> Seq(Int)] /\ \A v \in CharaVariables : Len(start[v]) = size[v]
  BY StartVarsAre
<1>2. CharaVariables \in SUBSET AllVariables /\ \A v \in CharaVariables : size[v] \in Nat
  BY SizedIs
<1>3. c.vars \in VarMaps
  BY CharaIs
<1>4. DOMAIN c.vars \in SUBSET AllVariables /\ \A v \in DOMAIN c.vars : c.vars[v] \in Seq(Int)
  BY <1>3, VarMapIs
<1>5. m = [v \in DOMAIN c.vars \cup DOMAIN start |-> IF v \notin DOMAIN start THEN c.vars[v] ELSE Fit(s(v), size[v], start[v])]
  BY DEF CharaVars
<1>6. \A v : s(v) \in Seq(Int)
  BY <1>4, NothingIs
<1> HIDE DEF start, m, s
<1>7. \A v \in CharaVariables : Fit(s(v), size[v], start[v]) \in Seq(Int) /\ Len(Fit(s(v), size[v], start[v])) = size[v]
  BY <1>1, <1>2, <1>6, FitIs
<1>8. DOMAIN start = CharaVariables /\ DOMAIN m = DOMAIN c.vars \cup CharaVariables
  BY <1>1, <1>5
<1>9. \A v \in CharaVariables : m[v] = Fit(s(v), size[v], start[v])
  BY <1>5, <1>8
<1>10. \A v \in DOMAIN m \ CharaVariables : m[v] = c.vars[v]
  BY <1>5, <1>8
<1>11. m = [v \in DOMAIN m |-> m[v]]
  BY <1>5
<1>12. m \in [DOMAIN m -> Seq(Int)] /\ DOMAIN m \in SUBSET AllVariables
  <2>1. \A v \in DOMAIN m : m[v] \in Seq(Int)
    BY <1>4, <1>7, <1>8, <1>9, <1>10
  <2> QED
    BY <2>1, <1>2, <1>4, <1>8, <1>11
<1>13. m \in VarMaps
  BY <1>12, VarMapIs
<1>14. VarsFit(m)
  BY <1>7, <1>8, <1>9 DEF VarsFit
<1> QED
  BY <1>9, <1>13, <1>14 DEF m, s, start

LEMMA DroppedListIs ==
  ASSUME list \in Seq(Charas)
  PROVE  DroppedList \in Seq(Charas) /\ SameCharas(DroppedList, list)
<1>1. \A k \in DOMAIN list : list[k] \in Charas
  OBVIOUS
<1>2. ASSUME NEW c \in Charas
      PROVE  LET b == [c EXCEPT !.vars = Dropped(c.vars)]
             IN b \in Charas /\ b.id = c.id /\ b.uid = c.uid
  <2>1. Dropped(c.vars) \in VarMaps
    BY CharaIs, DroppedIs
  <2> QED
    BY <2>1, CharaIs
<1>3. DOMAIN list = 1..Len(list) /\ Len(list) \in Nat
  OBVIOUS
<1>4. DroppedList \in [1..Len(list) -> Charas]
  BY <1>1, <1>2, <1>3 DEF DroppedList
<1>5. \A k \in DOMAIN list : DroppedList[k].id = list[k].id /\ DroppedList[k].uid = list[k].uid
  BY <1>1, <1>2 DEF DroppedList
<1> QED
  BY <1>3, <1>4, <1>5 DEF SameCharas

LEMMA DecodedListIs ==
  ASSUME list \in Seq(Charas), spare \in Seq(Spares), NEW f \in SystemFiles
  PROVE  /\ DecodedList(f) \in Seq(Charas) /\ SameCharas(DecodedList(f), f.list)
         /\ \A k \in DOMAIN f.list : DecodedList(f)[k].vars = Merged(k, f.list[k])
<1>0. f.list \in Seq(Charas)
  BY DEF SystemFiles
<1>1. \A k \in DOMAIN f.list : f.list[k] \in Charas /\ Merged(k, f.list[k]) \in VarMaps
  BY <1>0, MergedIs
<1>2. \A k \in DOMAIN f.list : LET b == [f.list[k] EXCEPT !.vars = Merged(k, f.list[k])]
                              IN /\ b \in Charas /\ b.id = f.list[k].id /\ b.uid = f.list[k].uid
                                 /\ b.vars = Merged(k, f.list[k])
  BY <1>1, CharaIs
<1>3. DOMAIN f.list = 1..Len(f.list) /\ Len(f.list) \in Nat
  BY <1>0
<1> QED
  BY <1>2, <1>3 DEF DecodedList, SameCharas

LEMMA RefinedListIs ==
  ASSUME Sized, NEW l \in Seq(Charas)
  PROVE  /\ RefinedList(l) \in Seq(Charas) /\ SameCharas(RefinedList(l), l) /\ ListFits(RefinedList(l))
         /\ \A k \in DOMAIN l : RefinedList(l)[k].vars = CharaVars(l[k])
<1>1. \A k \in DOMAIN l : l[k] \in Charas /\ CharaVars(l[k]) \in VarMaps
  BY CharaVarsAre
<1>2. \A k \in DOMAIN l : LET b == [l[k] EXCEPT !.vars = CharaVars(l[k])]
                         IN /\ b \in Charas /\ b.id = l[k].id /\ b.uid = l[k].uid
                            /\ b.vars = CharaVars(l[k])
  BY <1>1, CharaIs
<1>3. DOMAIN l = 1..Len(l) /\ Len(l) \in Nat
  OBVIOUS
<1>4. /\ RefinedList(l) \in [1..Len(l) -> Charas]
      /\ \A k \in DOMAIN l : /\ RefinedList(l)[k].vars = CharaVars(l[k])
                            /\ RefinedList(l)[k].id = l[k].id /\ RefinedList(l)[k].uid = l[k].uid
  BY <1>2, <1>3 DEF RefinedList
<1>5. RefinedList(l) \in Seq(Charas) /\ DOMAIN RefinedList(l) = DOMAIN l /\ SameCharas(RefinedList(l), l)
  BY <1>3, <1>4 DEF SameCharas
<1> QED
  BY <1>1, <1>4, <1>5, CharaVarsAre DEF ListFits

\* what AppendAll takes
NewCharas == [id : Ids \cup {-1}, vars : VarMaps]
Added(new) == [n \in DOMAIN new |-> [id |-> new[n].id, uid |-> NextUid(n), vars |-> new[n].vars]]

LEMMA AddedIs ==
  ASSUME Sized, list \in Seq(Charas), count \in 0..MaxUid,
         NEW new \in Seq(NewCharas), count + Len(new) <= MaxUid
  PROVE  /\ list \o Added(new) \in Seq(Charas)
         /\ UniqueUpTo(list, count) => UniqueUpTo(list \o Added(new), count + Len(new))
         /\ ListFits(list) /\ (\A n \in DOMAIN new : VarsFit(new[n].vars))
              => ListFits(list \o Added(new))
<1> DEFINE added == Added(new)
           l     == list \o added
<1>1. DOMAIN new = 1..Len(new) /\ Len(new) \in Nat /\ MaxUid \in Nat /\ \A n \in DOMAIN new : new[n] \in NewCharas
  BY DataAssumption
<1>2. \A n \in DOMAIN new : NextUid(n) \in 1..MaxUid /\ NextUid(n) = count + n
  BY <1>1 DEF NextUid
<1>3. \A n \in DOMAIN new : [id |-> new[n].id, uid |-> NextUid(n), vars |-> new[n].vars] \in Charas
  BY <1>1, <1>2 DEF NewCharas, Charas
<1>4. added \in [1..Len(new) -> Charas]
  BY <1>1, <1>3 DEF Added
<1>5. added \in Seq(Charas) /\ Len(added) = Len(new)
  BY <1>1, <1>4
<1>6. \A n \in 1..Len(new) : added[n].uid = count + n /\ added[n].vars = new[n].vars
  BY <1>1, <1>2 DEF Added
<1> HIDE DEF added
<1>7. l \in Seq(Charas) /\ Len(l) = Len(list) + Len(new)
  BY <1>1, <1>5
<1>8. Len(list) \in Nat
  OBVIOUS
<1>9. ASSUME NEW j \in 1..Len(l)
      PROVE  \/ j \in 1..Len(list) /\ l[j] = list[j]
             \/ j - Len(list) \in 1..Len(new) /\ l[j] = added[j - Len(list)]
  <2>1. CASE j <= Len(list)
    BY <2>1, <1>5, <1>8
  <2>2. CASE ~(j <= Len(list))
    BY <2>2, <1>1, <1>5, <1>7, <1>8
  <2> QED
    BY <2>1, <2>2
<1> HIDE DEF l
<1>10. ASSUME UniqueUpTo(list, count) PROVE UniqueUpTo(l, count + Len(new))
  <2>1. DOMAIN list = 1..Len(list) /\ DOMAIN l = 1..Len(l)
    BY <1>7
  <2>2. \A j \in 1..Len(list) : list[j].uid \in Nat /\ list[j].uid <= count
    BY <1>10, <2>1, CharaIs DEF UniqueUpTo
  <2>3. \A j \in 1..Len(list), k \in 1..Len(list) : list[j].uid = list[k].uid => j = k
    BY <1>10, <2>1 DEF UniqueUpTo
  <2>4. ASSUME NEW j \in 1..Len(l) PROVE l[j].uid <= count + Len(new)
    <3>1. CASE j \in 1..Len(list) /\ l[j] = list[j]
      BY <3>1, <2>2, <1>1
    <3>2. CASE j - Len(list) \in 1..Len(new) /\ l[j] = added[j - Len(list)]
      BY <3>2, <1>1, <1>6
    <3> QED
      BY <3>1, <3>2, <1>9
  <2>5. ASSUME NEW j \in 1..Len(l), NEW k \in 1..Len(l), l[j].uid = l[k].uid PROVE j = k
    <3>1. CASE l[j] = list[j] /\ j \in 1..Len(list) /\ l[k] = list[k] /\ k \in 1..Len(list)
      BY <3>1, <2>3, <2>5
    <3>2. ASSUME NEW n \in 1..Len(new), NEW i \in 1..Len(list), added[n].uid = list[i].uid PROVE FALSE
      BY <3>2, <2>2, <1>1, <1>6
    <3>3. CASE /\ j - Len(list) \in 1..Len(new) /\ l[j] = added[j - Len(list)]
               /\ k - Len(list) \in 1..Len(new) /\ l[k] = added[k - Len(list)]
      <4>1. count + (j - Len(list)) = count + (k - Len(list))
        BY <3>3, <2>5, <1>6
      <4> QED
        BY <4>1, <1>7, <1>8
    <3> QED
      BY <3>1, <3>2, <3>3, <1>9, <2>5
  <2> QED
    BY <2>1, <2>4, <2>5 DEF UniqueUpTo
<1>11. ASSUME ListFits(list), \A n \in DOMAIN new : VarsFit(new[n].vars)
       PROVE  ListFits(l)
  <2>1. DOMAIN list = 1..Len(list) /\ DOMAIN l = 1..Len(l)
    BY <1>7
  <2>2. ASSUME NEW j \in 1..Len(l) PROVE VarsFit(l[j].vars)
    <3>1. CASE j \in 1..Len(list) /\ l[j] = list[j]
      BY <3>1, <2>1, <1>11 DEF ListFits
    <3>2. CASE j - Len(list) \in 1..Len(new) /\ l[j] = added[j - Len(list)]
      BY <3>2, <1>1, <1>6, <1>11
    <3> QED
      BY <3>1, <3>2, <1>9
  <2> QED
    BY <2>1, <2>2 DEF ListFits
<1> QED
  BY <1>7, <1>10, <1>11 DEF l, added

\* the list without one of its characters
LEMMA RemovedIs ==
  ASSUME Sized, list \in Seq(Charas), NEW k \in DOMAIN list
  PROVE  LET l == SubSeq(list, 1, k - 1) \o SubSeq(list, k + 1, Len(list))
         IN /\ l \in Seq(Charas)
            /\ \A n : UniqueUpTo(list, n) => UniqueUpTo(l, n)
            /\ ListFits(list) => ListFits(l)
<1> DEFINE a == SubSeq(list, 1, k - 1)
           b == SubSeq(list, k + 1, Len(list))
           l == a \o b
           At(j) == IF j < k THEN j ELSE j + 1
<1>1. k \in 1..Len(list) /\ Len(list) \in Nat /\ DOMAIN list = 1..Len(list)
  OBVIOUS
<1>2. a \in Seq(Charas) /\ Len(a) = k - 1 /\ \A j \in 1..(k - 1) : a[j] = list[j]
  BY <1>1
<1>3. b \in Seq(Charas) /\ Len(b) = Len(list) - k /\ \A j \in 1..(Len(list) - k) : b[j] = list[k + j]
  BY <1>1
<1> HIDE DEF a, b
<1>4. l \in Seq(Charas) /\ Len(l) = Len(list) - 1 /\ DOMAIN l = 1..(Len(list) - 1)
  <2>0. a \in Seq(Charas) /\ b \in Seq(Charas)
    BY <1>2, <1>3
  <2>1. l \in Seq(Charas) /\ Len(l) = Len(a) + Len(b) /\ DOMAIN l = 1..Len(l)
    BY <2>0
  <2>2. Len(a) + Len(b) = Len(list) - 1
    BY <1>1, <1>2, <1>3
  <2> QED
    BY <2>1, <2>2
<1>5. ASSUME NEW j \in 1..(Len(list) - 1) PROVE At(j) \in 1..Len(list) /\ l[j] = list[At(j)]
  <2>1. CASE j < k
    <3>1. j \in 1..(k - 1)
      BY <2>1, <1>1
    <3>2. l[j] = a[j]
      BY <3>1, <1>1, <1>2, <1>3
    <3> QED
      BY <2>1, <3>1, <3>2, <1>1, <1>2
  <2>2. CASE ~(j < k)
    <3>1. j - (k - 1) \in 1..(Len(list) - k) /\ j \in 1..(Len(a) + Len(b)) /\ ~(j <= Len(a))
      BY <2>2, <1>1, <1>2, <1>3
    <3>2. l[j] = b[j - (k - 1)]
      BY <3>1, <1>2, <1>3
    <3>3. b[j - (k - 1)] = list[k + (j - (k - 1))] /\ k + (j - (k - 1)) = j + 1
      BY <3>1, <1>1, <1>3
    <3> QED
      BY <2>2, <3>2, <3>3, <1>1
  <2> QED
    BY <2>1, <2>2
<1>6. \A i, j \in 1..(Len(list) - 1) : At(i) = At(j) => i = j
  BY <1>1
<1> HIDE DEF l, At
<1>7. ASSUME NEW n, UniqueUpTo(list, n) PROVE UniqueUpTo(l, n)
  <2>1. \A i \in 1..Len(list) : /\ list[i].uid <= n
                                 /\ \A j \in 1..Len(list) : list[i].uid = list[j].uid => i = j
    BY <1>1, <1>7 DEF UniqueUpTo
  <2>2. ASSUME NEW i \in 1..(Len(list) - 1)
        PROVE  /\ l[i].uid <= n
               /\ \A j \in 1..(Len(list) - 1) : l[i].uid = l[j].uid => i = j
    BY <2>1, <1>5, <1>6
  <2> QED
    BY <1>4, <2>2 DEF UniqueUpTo
<1>8. ASSUME ListFits(list) PROVE ListFits(l)
  BY <1>1, <1>4, <1>5, <1>8 DEF ListFits
<1> QED
  BY <1>4, <1>7, <1>8 DEF l, a, b

LEMMA IndexIsThere ==
  ASSUME list \in Seq(Charas), NEW k \in DOMAIN list
  PROVE  IndexByUid(list[k].uid) \in Nat /\ IndexByUid(list[k].uid) < Len(list)
<1> DEFINE T == {j \in DOMAIN list : list[j].uid = list[k].uid}
<1>1. T \subseteq Nat /\ T # {} /\ T \subseteq 1..Len(list)
  OBVIOUS
<1>2. IndexByUid(list[k].uid) = Min(T) - 1
  BY DEF IndexByUid
<1> HIDE DEF T
<1>3. Min(T) \in T
  BY <1>1, MinIs
<1>4. Min(T) \in 1..Len(list)
  BY <1>1, <1>3, Zenon
<1>5. Len(list) \in Nat
  OBVIOUS
<1> QED
  BY <1>2, <1>4, <1>5

\* the ids before the first that is none of a character
LEMMA KnownIs ==
  ASSUME NEW S, NEW ids \in Seq(S)
  PROVE  KnownOf(ids) \in Seq(S) /\ \A n \in DOMAIN KnownOf(ids) : KnownOf(ids)[n] \in CharaIds(db) \cap S
<1> DEFINE T == {n \in 0..Len(ids) : n = Len(ids) \/ ids[n + 1] \notin CharaIds(db)}
<1>1. Len(ids) \in Nat
  OBVIOUS
<1>2. T \subseteq Nat /\ T # {}
  BY <1>1
<1>3. KnownOf(ids) = SubSeq(ids, 1, Min(T))
  BY DEF KnownOf
<1>4. Min(T) \in T /\ \A y \in T : Min(T) <= y
  <2> HIDE DEF T
  <2> QED
    BY <1>2, MinIs
<1>5. PICK m : m = Min(T)
  OBVIOUS
<1>6. m \in 0..Len(ids) /\ KnownOf(ids) = SubSeq(ids, 1, m)
  BY <1>3, <1>4, <1>5
<1>7. ASSUME NEW n \in 1..m PROVE ids[n] \in CharaIds(db)
  <2>1. n - 1 \in 0..Len(ids) /\ n - 1 # Len(ids) /\ n - 1 + 1 = n /\ ~(m <= n - 1)
    BY <1>1, <1>6
  <2>2. n - 1 \notin T
    BY <1>4, <1>5, <2>1
  <2>3. ids[n - 1 + 1] \in CharaIds(db)
    BY <2>1, <2>2
  <2> QED
    BY <2>1, <2>3
<1>8. Len(KnownOf(ids)) = m /\ KnownOf(ids) \in Seq(S) /\ \A n \in 1..m : KnownOf(ids)[n] = ids[n]
  BY <1>1, <1>6
<1> QED
  BY <1>6, <1>7, <1>8

-----------------------------------------------------------------------------
(***************************************************************************)
(* The invariant.  The files may be of games of other data bases, so of    *)
(* their contents it says only what holds under all of them: their form,   *)
(* and that the uids in them name one character each.                      *)
(***************************************************************************)
Typed ==
  /\ builtin \in [DOMAIN Builtin -> Nat] /\ phase \in {"off", "play", "panic"} /\ csv \in DOMAIN Dbs
  /\ sys \in ArrayMaps /\ share \in ArrayMaps
  /\ reg \in [sys : SUBSET AllVariables, share : SUBSET AllVariables]
  /\ list \in Seq(Charas) /\ spare \in Seq(Spares) /\ count \in 0..MaxUid /\ refs \in Seq(Nat)
  /\ comment \in Titles /\ mixed \in Flags /\ ops \in 0..MaxOps

\* a game has the sizes of its data base, and a process without one no objects
HasGame == IF phase = "off" THEN reg.sys = {} /\ reg.share = {} ELSE Sized

FilesTyped == /\ file \in [Slots -> {NoFile} \cup SystemFiles]
              /\ shareFile \in {NoFile} \cup ShareFiles
FilesUnique == \A s \in Slots : file[s] \in SystemFiles /\ ~file[s].mixed => UniqueUpTo(file[s].list, file[s].count)

GameInv == Typed /\ HasGame /\ FitsTables /\ UidsUnique /\ ShopIsSafe
FilesInv == FilesTyped /\ FilesUnique
IInv == GameInv /\ FilesInv

\* the parts of FitsTables, of given data
SysFits(m) == \A v \in SysVars : v \in DOMAIN m /\ Len(m[v].vals) = size[v]
ShareFits(m) == \A v \in DOMAIN m \cap ShareVars : Len(m[v].vals) = size[v]

LEMMA GameHas ==
  ASSUME IInv, Playing
  PROVE  /\ Sized /\ phase = "play" /\ ops + 1 \in 0..MaxOps
         /\ sys \in ArrayMaps /\ share \in ArrayMaps /\ list \in Seq(Charas) /\ spare \in Seq(Spares)
         /\ count \in 0..MaxUid /\ refs \in Seq(Nat) /\ comment \in Titles /\ mixed \in Flags
         /\ reg \in [sys : SUBSET AllVariables, share : SUBSET AllVariables]
         /\ (~mixed.share => ShareFits(share)) /\ (~mixed.sys => SysFits(sys) /\ ListFits(list) /\ UniqueUpTo(list, count))
<1>1. phase = "play" /\ ops < MaxOps /\ MaxOps \in Nat
  BY DataAssumption DEF Playing
<1>2. Sized
  BY <1>1 DEF IInv, GameInv, HasGame
<1>3. (~mixed.share => ShareFits(share)) /\ (~mixed.sys => SysFits(sys) /\ ListFits(list))
  BY <1>1 DEF IInv, GameInv, FitsTables, ShareFits, SysFits, ListFits, VarsFit
<1>4. ~mixed.sys => UniqueUpTo(list, count)
  BY DEF IInv, GameInv, UidsUnique
<1>5. ops \in 0..MaxOps
  BY DEF IInv, GameInv, Typed
<1>6. /\ sys \in ArrayMaps /\ share \in ArrayMaps /\ list \in Seq(Charas) /\ spare \in Seq(Spares)
      /\ count \in 0..MaxUid /\ refs \in Seq(Nat) /\ comment \in Titles /\ mixed \in Flags
      /\ reg \in [sys : SUBSET AllVariables, share : SUBSET AllVariables]
  BY DEF IInv, GameInv, Typed
<1> QED
  BY <1>1, <1>2, <1>3, <1>4, <1>5, <1>6

\* a game goes on when what a step makes of the data is of their form, fits, and
\* has a uid for each character
LEMMA GameGoesOn ==
  ASSUME IInv, Playing, Did,
         sys' \in ArrayMaps, share' \in ArrayMaps, list' \in Seq(Charas), spare' \in Seq(Spares),
         reg' \in [sys : SUBSET AllVariables, share : SUBSET AllVariables],
         count' \in 0..MaxUid, refs' \in Seq(Nat), comment' \in Titles, mixed' \in Flags,
         ~mixed'.share => ShareFits(share'),
         ~mixed'.sys => SysFits(sys') /\ ListFits(list') /\ UniqueUpTo(list', count')
  PROVE  GameInv'
<1>1. phase' = "play" /\ csv' = csv /\ size' = size /\ builtin' = builtin /\ ops' \in 0..MaxOps
  BY GameHas DEF Did
<1>2. SysVars' = SysVars /\ ShareVars' = ShareVars /\ CharaVariables' = CharaVariables /\ db' = db
  BY <1>1 DEF SysVars, ShareVars, CharaVariables, db
<1>3. builtin \in [DOMAIN Builtin -> Nat] /\ csv \in DOMAIN Dbs
  BY DEF IInv, GameInv, Typed
<1>4. Typed'
  <2>1. Spares' = Spares
    BY <1>1 DEF Spares
  <2> QED
    BY <1>1, <1>3, <2>1 DEF Typed
<1>5. HasGame'
  <2>1. Sized
    BY GameHas
  <2> QED
    BY <1>1, <1>2, <2>1 DEF HasGame, Sized
<1>6. FitsTables'
  BY <1>1, <1>2 DEF FitsTables, ShareFits, SysFits, ListFits, VarsFit
<1>7. UidsUnique'
  BY DEF UidsUnique, UniqueUpTo
<1>8. ShopIsSafe'
  BY <1>1 DEF ShopIsSafe
<1> QED
  BY <1>4, <1>5, <1>6, <1>7, <1>8 DEF GameInv

\* no game is left
LEMMA GameIsGone ==
  ASSUME NoData, phase' = "off", csv' \in DOMAIN Dbs, builtin' \in [DOMAIN Builtin -> Nat], ops' \in 0..MaxOps
  PROVE  GameInv'
<1>0. spare' \in Seq(Spares')
  BY DEF NoData
<1>1. /\ sys' = << >> /\ share' = << >> /\ list' = << >> /\ spare' = << >> /\ count' = 0 /\ refs' = << >> /\ comment' = "short"
      /\ mixed' = Whole /\ reg' = [sys |-> {}, share |-> {}]
  BY NothingIs DEF NoData, Objects
<1>2. Typed'
  <2>1. count' \in 0..MaxUid
    BY <1>1, DataAssumption
  <2>2. sys' \in ArrayMaps /\ share' \in ArrayMaps /\ list' \in Seq(Charas) /\ refs' \in Seq(Nat)
    BY <1>1, NothingIs
  <2>3. reg' \in [sys : SUBSET AllVariables, share : SUBSET AllVariables] /\ comment' \in Titles /\ mixed' \in Flags
    BY <1>1 DEF Titles, Flags, Whole
  <2> QED
    BY <1>0, <2>1, <2>2, <2>3 DEF Typed
<1>3. HasGame' /\ FitsTables' /\ ShopIsSafe'
  BY <1>1 DEF HasGame, FitsTables, ShopIsSafe
<1>4. UidsUnique'
  BY <1>1, NothingIs DEF UidsUnique, UniqueUpTo
<1> QED
  BY <1>2, <1>3, <1>4 DEF GameInv

LEMMA FilesStay ==
  ASSUME FilesInv, UNCHANGED saved
  PROVE  FilesInv'
BY DEF FilesInv, FilesTyped, FilesUnique, saved

LEMMA FileIs ==
  ASSUME IInv, NEW s \in Slots
  PROVE  /\ file[s] = NoFile \/ file[s] \in SystemFiles
         /\ file[s].parts >= 0 => file[s] \in SystemFiles
         /\ file[s] \in SystemFiles /\ ~file[s].mixed => UniqueUpTo(file[s].list, file[s].count)
<1>1. NoFile.parts = -1
  BY DEF NoFile
<1> QED
  BY <1>1 DEF IInv, FilesInv, FilesTyped, FilesUnique

-----------------------------------------------------------------------------
(***************************************************************************)
(* The script changes variables and characters.                            *)
(***************************************************************************)
LEMMA WriteVarKeeps ==
  ASSUME IInv, NEW v, NEW i, NEW x \in Values, WriteVar(v, i, x)
  PROVE  IInv'
<1>1. /\ Playing /\ Did /\ v \in DOMAIN sys /\ i \in DOMAIN sys[v].vals /\ sys' = Put(sys, v, i, x)
      /\ UNCHANGED <<share, reg, list, spare, count, refs, comment, mixed, saved>>
  BY DEF WriteVar, Put
<1>2. x \in Int
  BY DataAssumption
<1>3. sys' \in ArrayMaps /\ DOMAIN sys' = DOMAIN sys /\ \A u \in DOMAIN sys : Len(sys'[u].vals) = Len(sys[u].vals)
  <2>1. sys \in ArrayMaps
    BY <1>1, GameHas
  <2> QED
    BY <1>1, <1>2, <2>1, PutIs
<1>4. SysFits(sys) => SysFits(sys')
  BY <1>3 DEF SysFits
<1>5. GameInv'
  BY <1>1, <1>3, <1>4, GameHas, GameGoesOn
<1> QED
  BY <1>1, <1>5, FilesStay DEF IInv

LEMMA WriteSharedKeeps ==
  ASSUME IInv, NEW v, NEW i, NEW x \in Values, WriteShared(v, i, x)
  PROVE  IInv'
<1>1. /\ Playing /\ Did /\ v \in DOMAIN share /\ i \in DOMAIN share[v].vals /\ share' = Put(share, v, i, x)
      /\ UNCHANGED <<sys, reg, list, spare, count, refs, comment, mixed, saved>>
  BY DEF WriteShared, Put
<1>2. x \in Int
  BY DataAssumption
<1>3. share' \in ArrayMaps /\ DOMAIN share' = DOMAIN share /\ \A u \in DOMAIN share : Len(share'[u].vals) = Len(share[u].vals)
  <2>1. share \in ArrayMaps
    BY <1>1, GameHas
  <2> QED
    BY <1>1, <1>2, <2>1, PutIs
<1>4. ShareFits(share) => ShareFits(share')
  BY <1>3 DEF ShareFits
<1>5. GameInv'
  BY <1>1, <1>3, <1>4, GameHas, GameGoesOn
<1> QED
  BY <1>1, <1>5, FilesStay DEF IInv

LEMMA AppendAllKeeps ==
  ASSUME IInv, NEW new \in Seq(NewCharas), AppendAll(new),
         \A n \in DOMAIN new : VarsFit(new[n].vars)
  PROVE  IInv'
<1>1. /\ Playing /\ Did /\ count + Len(new) <= MaxUid /\ list' = list \o Added(new) /\ count' = count + Len(new)
      /\ spare' = SubSeq(spare, Len(new) + 1, Len(spare))
      /\ UNCHANGED <<sys, share, reg, refs, comment, mixed, saved>>
  BY DEF AppendAll, Added
<1>2. /\ list' \in Seq(Charas)
      /\ UniqueUpTo(list, count) => UniqueUpTo(list', count')
      /\ ListFits(list) => ListFits(list')
  BY <1>1, GameHas, AddedIs
<1>3. count' \in 0..MaxUid
  <2>1. Len(new) \in Nat /\ count \in 0..MaxUid /\ MaxUid \in Nat
    BY <1>1, GameHas, DataAssumption
  <2> QED
    BY <1>1, <2>1
<1>4. spare' \in Seq(Spares)
  BY <1>1, GameHas, SubSeqIs
<1>5. GameInv'
  BY <1>1, <1>2, <1>3, <1>4, GameHas, GameGoesOn
<1> QED
  BY <1>1, <1>5, FilesStay DEF IInv

LEMMA AddCharasKeeps ==
  ASSUME IInv, NEW S, NEW ids \in Seq(S), AddCharas(ids)
  PROVE  IInv'
<1> DEFINE known == KnownOf(ids)
           new == [n \in DOMAIN known |-> [id |-> known[n], vars |-> InitialVars(db, size, known[n])]]
<1>1. AppendAll(new) /\ Playing
  BY DEF AddCharas, AppendAll
<1>2. known \in Seq(S) /\ \A n \in DOMAIN known : known[n] \in CharaIds(db)
  BY KnownIs
<1>3. Sized
  BY <1>1, GameHas
<1> HIDE DEF known
<1>4. CharaIds(db) \subseteq Ids
  BY <1>3 DEF Sized, Ids, db
<1>5. \A n \in DOMAIN known : StartVars(known[n]) = InitialVars(db, size, known[n])
  BY <1>2 DEF StartVars
<1>6. \A n \in DOMAIN known : /\ InitialVars(db, size, known[n]) \in VarMaps
                             /\ VarsFit(InitialVars(db, size, known[n]))
  BY <1>3, <1>5, StartVarsAre
<1>7. new \in [1..Len(known) -> NewCharas] /\ Len(known) \in Nat
  BY <1>2, <1>4, <1>6 DEF NewCharas
<1>8. new \in Seq(NewCharas)
  BY <1>7
<1>9. \A n \in DOMAIN new : VarsFit(new[n].vars)
  BY <1>6
<1> HIDE DEF new
<1> QED
  BY <1>1, <1>8, <1>9, AppendAllKeeps

LEMMA AddEmptyKeeps ==
  ASSUME IInv, AddEmpty
  PROVE  IInv'
<1> DEFINE new == << [id |-> -1, vars |-> ZeroVars] >>
<1>1. AppendAll(new) /\ Playing
  BY DEF AddEmpty, AppendAll
<1>2. Sized
  BY <1>1, GameHas
<1>3. CharaVariables \in SUBSET AllVariables /\ \A v \in CharaVariables : size[v] \in Nat
  BY <1>2, SizedIs
<1>4. ZeroVars \in [CharaVariables -> Seq(Int)] /\ VarsFit(ZeroVars)
  BY <1>3, ZerosAre DEF ZeroVars, VarsFit
<1>5. ZeroVars \in VarMaps
  BY <1>3, <1>4, VarMapIs
<1>6. [id |-> -1, vars |-> ZeroVars] \in NewCharas
  BY <1>5 DEF NewCharas
<1>7. new \in Seq(NewCharas) /\ \A n \in DOMAIN new : new[n].vars = ZeroVars
  BY <1>6
<1> HIDE DEF new
<1> QED
  BY <1>1, <1>4, <1>7, AppendAllKeeps

LEMMA NoCharas ==
  ASSUME NEW n
  PROVE  UniqueUpTo(<< >>, n) /\ ListFits(<< >>)
BY NothingIs DEF UniqueUpTo, ListFits

LEMMA NoSpares == << >> \in Seq(Spares)
OBVIOUS

LEMMA ClearCharasKeeps ==
  ASSUME IInv, ClearCharas
  PROVE  IInv'
<1>1. /\ Playing /\ Did /\ list' = << >> /\ spare' = << >>
      /\ UNCHANGED <<sys, share, reg, count, refs, comment, mixed, saved>>
  BY DEF ClearCharas
<1>2. GameInv'
  BY <1>1, NothingIs, NoCharas, NoSpares, GameHas, GameGoesOn
<1> QED
  BY <1>1, <1>2, FilesStay DEF IInv

LEMMA RemoveCharaKeeps ==
  ASSUME IInv, NEW k, RemoveChara(k)
  PROVE  IInv'
<1>1. /\ Playing /\ Did /\ k \in DOMAIN list /\ list' = SubSeq(list, 1, k - 1) \o SubSeq(list, k + 1, Len(list))
      /\ spare' = << << >> >> \o spare
      /\ UNCHANGED <<sys, share, reg, count, refs, comment, mixed, saved>>
  BY DEF RemoveChara, InRange
<1>2. list' \in Seq(Charas) /\ (UniqueUpTo(list, count) => UniqueUpTo(list', count)) /\ (ListFits(list) => ListFits(list'))
  BY <1>1, GameHas, RemovedIs
<1>3. spare' \in Seq(Spares)
  <2>1. spare \in Seq(Spares) /\ << >> \in Spares
    BY <1>1, GameHas, NothingIs DEF Spares
  <2>2. << << >> >> \in Seq(Spares)
    BY <2>1
  <2> QED
    BY <1>1, <2>1, <2>2
<1>4. GameInv'
  BY <1>1, <1>2, <1>3, GameHas, GameGoesOn
<1> QED
  BY <1>1, <1>4, FilesStay DEF IInv

LEMMA WriteCharaKeeps ==
  ASSUME IInv, NEW k, NEW v, NEW i, NEW x \in Values, WriteChara(k, v, i, x)
  PROVE  IInv'
<1> DEFINE s == [list[k].vars[v] EXCEPT ![i] = x]
           m == [list[k].vars EXCEPT ![v] = s]
           c == [list[k] EXCEPT !.vars = m]
<1>1. /\ Playing /\ Did /\ k \in DOMAIN list /\ v \in DOMAIN list[k].vars /\ i \in DOMAIN list[k].vars[v]
      /\ list' = [list EXCEPT ![k] = c]
      /\ UNCHANGED <<sys, share, reg, spare, count, refs, comment, mixed, saved>>
  BY DEF WriteChara, InRange
<1>2. list \in Seq(Charas) /\ list[k] \in Charas /\ x \in Int
  BY <1>1, GameHas, DataAssumption
<1>3. list[k].vars \in VarMaps
  BY <1>2, CharaIs
<1>4. DOMAIN list[k].vars \in SUBSET AllVariables /\ list[k].vars = [u \in DOMAIN list[k].vars |-> list[k].vars[u]]
      /\ \A u \in DOMAIN list[k].vars : list[k].vars[u] \in Seq(Int)
  BY <1>3, VarMapIs
<1>5. s \in Seq(Int) /\ Len(s) = Len(list[k].vars[v])
  BY <1>1, <1>2, <1>4
<1> HIDE DEF s
<1>6. /\ m \in [DOMAIN list[k].vars -> Seq(Int)] /\ m[v] = s
      /\ \A u \in DOMAIN list[k].vars : u # v => m[u] = list[k].vars[u]
  BY <1>1, <1>4, <1>5
<1>7. m \in VarMaps
  BY <1>4, <1>6, VarMapIs
<1>8. VarsFit(list[k].vars) => VarsFit(m)
  BY <1>5, <1>6 DEF VarsFit
<1> HIDE DEF m
<1>9. c \in Charas /\ c.vars = m /\ c.uid = list[k].uid
  BY <1>2, <1>7, CharaIs
<1> HIDE DEF c
<1>11. list' \in Seq(Charas) /\ DOMAIN list' = DOMAIN list /\ list'[k] = c /\ \A j \in DOMAIN list : j # k => list'[j] = list[j]
  BY <1>1, <1>2, <1>9
<1>12. UniqueUpTo(list, count) => UniqueUpTo(list', count)
  BY <1>9, <1>11 DEF UniqueUpTo
<1>13. ListFits(list) => ListFits(list')
  BY <1>1, <1>8, <1>9, <1>11 DEF ListFits
<1>14. GameInv'
  BY <1>1, <1>11, <1>12, <1>13, GameHas, GameGoesOn
<1> QED
  BY <1>1, <1>14, FilesStay DEF IInv

LEMMA SetRefKeeps ==
  ASSUME IInv, NEW i, NEW k, SetRef(i, k)
  PROVE  IInv'
<1>1. /\ Playing /\ Did /\ k \in DOMAIN list /\ i \in DOMAIN refs /\ refs' = [refs EXCEPT ![i] = IndexByUid(list[k].uid)]
      /\ UNCHANGED <<sys, share, reg, list, spare, count, comment, mixed, saved>>
  BY DEF SetRef, InRange, RefExists
<1>2. IndexByUid(list[k].uid) \in Nat /\ refs \in Seq(Nat)
  BY <1>1, GameHas, IndexIsThere
<1>3. refs' \in Seq(Nat)
  BY <1>1, <1>2
<1>4. GameInv'
  BY <1>1, <1>3, GameHas, GameGoesOn
<1> QED
  BY <1>1, <1>4, FilesStay DEF IInv

LEMMA ClearSystemKeeps ==
  ASSUME IInv, ClearSystem
  PROVE  IInv'
<1>1. /\ Playing /\ Did /\ list' = << >> /\ spare' = << >> /\ refs' = [i \in DOMAIN refs |-> First] /\ sys' = Zeroed(sys)
      /\ UNCHANGED <<share, reg, count, comment, mixed, saved>>
  BY DEF ClearSystem
<1>2. refs' \in Seq(Nat)
  <2>1. refs \in Seq(Nat)
    BY <1>1, GameHas
  <2>2. First \in Nat
    BY DEF First
  <2> QED
    BY <1>1, <2>1, <2>2
<1>3. sys' \in ArrayMaps /\ (SysFits(sys) => SysFits(sys'))
  BY <1>1, GameHas, ZeroedIs DEF SysFits
<1>4. GameInv'
  BY <1>1, <1>2, <1>3, NothingIs, NoCharas, NoSpares, GameHas, GameGoesOn
<1> QED
  BY <1>1, <1>4, FilesStay DEF IInv

LEMMA ClearShareKeeps ==
  ASSUME IInv, ClearShare
  PROVE  IInv'
<1>1. /\ Playing /\ Did /\ share' = Zeroed(share) /\ UNCHANGED <<sys, reg, list, spare, count, refs, comment, mixed, saved>>
  BY DEF ClearShare
<1>2. share' \in ArrayMaps /\ (ShareFits(share) => ShareFits(share'))
  BY <1>1, GameHas, ZeroedIs DEF ShareFits
<1>3. GameInv'
  BY <1>1, <1>2, GameHas, GameGoesOn
<1> QED
  BY <1>1, <1>3, FilesStay DEF IInv

LEMMA SetCommentKeeps ==
  ASSUME IInv, NEW c \in Titles, SetComment(c)
  PROVE  IInv'
<1>1. /\ Playing /\ Did /\ comment' = c /\ UNCHANGED <<sys, share, reg, list, spare, count, refs, mixed, saved>>
  BY DEF SetComment
<1>2. GameInv'
  BY <1>1, GameHas, GameGoesOn
<1> QED
  BY <1>1, <1>2, FilesStay DEF IInv

\* what is bought has a place and a price, and there is money, unless a load failed
\* midway or another data base has set the sizes
LEMMA ShopHas ==
  ASSUME IInv, Playing, ~mixed.sys, size = Sizes(db, CompiledSizes)
  PROVE  /\ DOMAIN ValuesOf("ItemStock") = DOMAIN ItemPrices /\ DOMAIN ValuesOf("Item") = DOMAIN ItemPrices
         /\ ValuesOf("Money") # << >>
<1>1. IsDataBase(db) /\ SysFits(sys) /\ sys \in ArrayMaps
  BY GameHas, SizedIs
<1>2. {"ItemStock", "Item", "Money"} \subseteq SysVars
  <2>1. csv \in DOMAIN Dbs
    BY DEF IInv, GameInv, Typed
  <2> QED
    BY <1>1, <2>1, ScopesAre, ShopSizes DEF SysVars, db
<1>3. /\ "ItemStock" \in DOMAIN sys /\ Len(sys["ItemStock"].vals) = size["ItemStock"]
      /\ "Item" \in DOMAIN sys /\ Len(sys["Item"].vals) = size["Item"]
      /\ "Money" \in DOMAIN sys /\ Len(sys["Money"].vals) = 1
  BY <1>1, <1>2, ShopSizes DEF SysFits
<1>4. sys["ItemStock"].vals \in Seq(Int) /\ sys["Item"].vals \in Seq(Int) /\ sys["Money"].vals \in Seq(Int)
  BY <1>1, <1>3, ArrayMapIs, ArrayIs
<1>5. DOMAIN ValuesOf("ItemStock") = 1..size["ItemStock"] /\ DOMAIN ValuesOf("Item") = 1..size["Item"]
  BY <1>3, <1>4 DEF ValuesOf
<1>6. DOMAIN ItemPrices = 1..size["ItemStock"] /\ DOMAIN ItemPrices = 1..size["Item"]
  BY <1>1, ShopSizes DEF ItemPrices
<1>7. ValuesOf("Money") # << >>
  <2>1. PICK m : m = sys["Money"].vals
    OBVIOUS
  <2>2. Len(m) = 1 /\ ValuesOf("Money") = m
    BY <1>3, <2>1 DEF ValuesOf
  <2> QED
    BY <2>2, NothingIs
<1> QED
  BY <1>5, <1>6, <1>7

\* what a purchase writes: the money that is left, and one more of the item
Paid(i) == Put(sys, "Money", 1, sys["Money"].vals[1] - ItemPrices[i])
Bought(i) == Put(Paid(i), "Item", i, sys["Item"].vals[i] + 1)

LEMMA BoughtIs ==
  ASSUME IInv, Playing, NEW i \in DOMAIN ItemPrices \cap DOMAIN ValuesOf("Item"), ValuesOf("Money") # << >>
  PROVE  /\ Bought(i) \in ArrayMaps /\ DOMAIN Bought(i) = DOMAIN sys
         /\ \A u \in DOMAIN sys : Len(Bought(i)[u].vals) = Len(sys[u].vals) /\ Bought(i)[u].held = sys[u].held
         /\ Bought(i) = [sys EXCEPT !["Money"].vals[1] = @ - ItemPrices[i], !["Item"].vals[i] = @ + 1]
<1>1. sys \in ArrayMaps /\ IsDataBase(db)
  BY GameHas, SizedIs
<1>2. "Money" \in DOMAIN sys /\ sys["Money"].vals # << >>
  BY DEF ValuesOf
<1>3. "Item" \in DOMAIN sys /\ i \in DOMAIN sys["Item"].vals
  BY NothingIs DEF ValuesOf
<1>4. sys["Money"].vals \in Seq(Int) /\ sys["Item"].vals \in Seq(Int)
  BY <1>1, <1>2, <1>3, ArrayMapIs, ArrayIs
<1>5. 1 \in DOMAIN sys["Money"].vals /\ sys["Money"].vals[1] \in Int /\ sys["Item"].vals[i] \in Int
  BY <1>2, <1>3, <1>4
<1>6. ItemPrices[i] \in Int
  BY <1>1, ShopSizes, PricesAre DEF ItemPrices
<1>7. PICK x \in Int : x = sys["Money"].vals[1] - ItemPrices[i]
  BY <1>5, <1>6
<1>8. PICK y \in Int : y = sys["Item"].vals[i] + 1
  BY <1>5
<1>9. PICK m : m = Put(sys, "Money", 1, x)
  OBVIOUS
<1>10. /\ m \in ArrayMaps /\ DOMAIN m = DOMAIN sys
       /\ \A u \in DOMAIN sys : Len(m[u].vals) = Len(sys[u].vals) /\ m[u].held = sys[u].held
  BY <1>1, <1>2, <1>5, <1>9, PutIs
<1>11. m["Item"] = sys["Item"]
  BY <1>3, <1>9 DEF Put
<1>12. Bought(i) = Put(m, "Item", i, y)
  BY <1>7, <1>8, <1>9 DEF Bought, Paid
<1>13. /\ Put(m, "Item", i, y) \in ArrayMaps /\ DOMAIN Put(m, "Item", i, y) = DOMAIN m
       /\ \A u \in DOMAIN m : Len(Put(m, "Item", i, y)[u].vals) = Len(m[u].vals) /\ Put(m, "Item", i, y)[u].held = m[u].held
  BY <1>3, <1>10, <1>11, PutIs
<1>14. Bought(i) = [sys EXCEPT !["Money"].vals[1] = @ - ItemPrices[i], !["Item"].vals[i] = @ + 1]
  <2>1. [sys EXCEPT !["Money"].vals[1] = @ - ItemPrices[i], !["Item"].vals[i] = @ + 1]
          = [Paid(i) EXCEPT !["Item"].vals[i] = @ + 1]
    BY DEF Paid, Put
  <2>2. Paid(i) = m
    BY <1>7, <1>9 DEF Paid
  <2>3. [m EXCEPT !["Item"].vals[i] = @ + 1] = [m EXCEPT !["Item"].vals[i] = m["Item"].vals[i] + 1]
    OBVIOUS
  <2> QED
    BY <2>1, <2>2, <2>3, <1>8, <1>11, <1>12 DEF Put
<1> QED
  BY <1>10, <1>12, <1>13, <1>14

LEMMA BuyKeeps ==
  ASSUME IInv, NEW i, Buy(i)
  PROVE  IInv'
<1>1. Playing /\ i \in DOMAIN ValuesOf("ItemStock")
  BY DEF Buy, Offers
<1>2. ASSUME phase' = "panic", i \notin DOMAIN ItemPrices \cap DOMAIN ValuesOf("Item") \/ ValuesOf("Money") = << >>,
             UNCHANGED <<builtin, csv, data, saved, ops>>
      PROVE  IInv'
  <2>1. mixed.sys \/ size # Sizes(db, CompiledSizes)
    BY <1>1, <1>2, ShopHas
  <2>2. /\ UNCHANGED <<builtin, csv, size, sys, share, reg, list, spare, count, refs, comment, mixed, ops>>
        /\ db' = db /\ Spares' = Spares
    BY <1>2 DEF data, db, Spares
  <2>3. Typed'
    BY <1>2, <2>2 DEF Typed, IInv, GameInv
  <2>4. HasGame'
    BY <1>1, <1>2, <2>2, GameHas DEF HasGame, Sized
  <2>5. FitsTables'
    BY <1>2 DEF FitsTables
  <2>6. UidsUnique'
    BY <2>2 DEF UidsUnique, UniqueUpTo, IInv, GameInv
  <2>7. ShopIsSafe'
    BY <2>1, <2>2 DEF ShopIsSafe
  <2>8. FilesInv'
    BY <1>2, FilesStay DEF IInv
  <2> QED
    BY <2>3, <2>4, <2>5, <2>6, <2>7, <2>8 DEF IInv, GameInv
<1>3. ASSUME i \in DOMAIN ItemPrices \cap DOMAIN ValuesOf("Item"), ValuesOf("Money") # << >>,
             sys' = [sys EXCEPT !["Money"].vals[1] = @ - ItemPrices[i], !["Item"].vals[i] = @ + 1],
             Did, UNCHANGED <<share, reg, list, spare, count, refs, comment, mixed, saved>>
      PROVE  IInv'
  <2>1. sys' = Bought(i)
    BY <1>1, <1>3, BoughtIs
  <2>2. sys' \in ArrayMaps /\ DOMAIN sys' = DOMAIN sys /\ \A u \in DOMAIN sys : Len(sys'[u].vals) = Len(sys[u].vals)
    BY <1>1, <1>3, <2>1, BoughtIs
  <2>3. SysFits(sys) => SysFits(sys')
    BY <2>2 DEF SysFits
  <2>4. GameInv'
    BY <1>1, <1>3, <2>2, <2>3, GameHas, GameGoesOn
  <2> QED
    BY <1>3, <2>4, FilesStay DEF IInv
<1> QED
  BY <1>2, <1>3 DEF Buy

-----------------------------------------------------------------------------
(***************************************************************************)
(* Saves.                                                                  *)
(***************************************************************************)
LEMMA CutsAre == NoCut.upTo \in Nat /\ \A cut \in Cuts : cut.upTo \in Nat
BY DataAssumption DEF NoCut

LEMMA WrittenIs ==
  ASSUME IInv, NEW p \in 0..Parts, NEW cut, cut.upTo \in Nat
  PROVE  /\ Written(p, cut) \in SystemFiles /\ WrittenShare(p, cut) \in ShareFiles
         /\ Written(p, cut).mixed = mixed.sys
         /\ ~mixed.sys => UniqueUpTo(Written(p, cut).list, Written(p, cut).count)
<1>1. /\ sys \in ArrayMaps /\ share \in ArrayMaps /\ list \in Seq(Charas) /\ count \in 0..MaxUid
      /\ refs \in Seq(Nat) /\ comment \in Titles /\ mixed.sys \in BOOLEAN
  BY DEF IInv, GameInv, Typed, Flags
<1>2. /\ Ints(sys, p, cut) \in VarMaps /\ Half(sys, p, cut) \in HalfMaps
      /\ Ints(share, p, cut) \in VarMaps /\ Half(share, p, cut) \in HalfMaps
  BY <1>1, IntsAre
<1>3. 0 \in 0..MaxUid
  BY DataAssumption
<1>4. /\ (IF p > 1 THEN list ELSE << >>) \in Seq(Charas)
      /\ (IF p > 1 THEN count ELSE 0) \in 0..MaxUid
      /\ (IF p > 2 THEN refs ELSE << >>) \in Seq(Nat)
  BY <1>1, <1>3, NothingIs
<1>5. Written(p, cut) \in SystemFiles
  BY <1>1, <1>2, <1>4 DEF Written, SystemFiles
<1>6. WrittenShare(p, cut) \in ShareFiles
  BY <1>2 DEF WrittenShare, ShareFiles
<1>7. ASSUME ~mixed.sys PROVE UniqueUpTo(Written(p, cut).list, Written(p, cut).count)
  <2>1. CASE p > 1
    BY <1>7, <2>1 DEF Written, IInv, GameInv, UidsUnique
  <2>2. CASE ~(p > 1)
    BY <2>2, NoCharas DEF Written
  <2> QED
    BY <2>1, <2>2
<1>8. Written(p, cut).mixed = mixed.sys
  BY DEF Written
<1> QED
  BY <1>5, <1>6, <1>7, <1>8

LEMMA FileWritten ==
  ASSUME IInv, NEW s, NEW p \in 0..Parts, NEW cut, cut.upTo \in Nat,
         file' = [file EXCEPT ![s] = Written(p, cut)], UNCHANGED shareFile
  PROVE  FilesInv'
<1>1. FilesTyped'
  BY WrittenIs DEF IInv, FilesInv, FilesTyped
<1>2. ASSUME NEW t \in Slots, file'[t] \in SystemFiles, ~file'[t].mixed
      PROVE  UniqueUpTo(file'[t].list, file'[t].count)
  <2>1. file \in [Slots -> {NoFile} \cup SystemFiles]
    BY DEF IInv, FilesInv, FilesTyped
  <2>2. CASE t = s
    <3>1. file'[t] = Written(p, cut)
      BY <2>1, <2>2
    <3> QED
      BY <1>2, <3>1, WrittenIs
  <2>3. CASE t # s
    <3>1. file'[t] = file[t]
      BY <2>1, <2>3
    <3> QED
      BY <1>2, <3>1, FileIs
  <2> QED
    BY <2>2, <2>3
<1>3. FilesUnique'
  BY <1>2 DEF FilesUnique, UniqueUpTo
<1> QED
  BY <1>1, <1>3 DEF FilesInv

LEMMA ShareFileWritten ==
  ASSUME IInv, NEW p \in 0..Parts, NEW cut, cut.upTo \in Nat, shareFile' = WrittenShare(p, cut), UNCHANGED file
  PROVE  FilesInv'
BY WrittenIs DEF IInv, FilesInv, FilesTyped, FilesUnique, UniqueUpTo

LEMMA GameUnchanged ==
  ASSUME IInv, Playing, Did, UNCHANGED <<sys, share, reg, list, spare, count, refs, comment, mixed>>
  PROVE  GameInv'
BY GameHas, GameGoesOn

LEMMA SaveSystemKeeps ==
  ASSUME IInv, NEW s \in Slots, SaveSystem(s)
  PROVE  IInv'
<1>1. Parts \in 0..Parts
  BY DEF Parts
<1>2. FilesInv'
  BY <1>1, CutsAre, FileWritten DEF SaveSystem
<1>3. GameInv'
  BY GameUnchanged DEF SaveSystem
<1> QED
  BY <1>2, <1>3 DEF IInv

LEMMA SaveBreaksKeeps ==
  ASSUME IInv, NEW s \in Slots, NEW p \in 0..Amid, NEW cut, cut.upTo \in Nat, SaveBreaks(s, p, cut)
  PROVE  IInv'
<1>1. p \in 0..Parts
  BY DEF Parts, Amid
<1>2. FilesInv'
  BY <1>1, FileWritten DEF SaveBreaks
<1>3. GameInv'
  BY GameUnchanged DEF SaveBreaks, Breaks
<1> QED
  BY <1>2, <1>3 DEF IInv

LEMMA SaveShareKeeps ==
  ASSUME IInv, SaveShare
  PROVE  IInv'
<1>1. Parts \in 0..Parts
  BY DEF Parts
<1>2. FilesInv'
  BY <1>1, CutsAre, ShareFileWritten DEF SaveShare
<1>3. GameInv'
  BY GameUnchanged DEF SaveShare
<1> QED
  BY <1>2, <1>3 DEF IInv

LEMMA SaveShareBreaksKeeps ==
  ASSUME IInv, NEW p \in 0..Amid, NEW cut, cut.upTo \in Nat, SaveShareBreaks(p, cut)
  PROVE  IInv'
<1>1. p \in 0..Parts
  BY DEF Parts, Amid
<1>2. FilesInv'
  BY <1>1, ShareFileWritten DEF SaveShareBreaks
<1>3. GameInv'
  BY GameUnchanged DEF SaveShareBreaks, Breaks
<1> QED
  BY <1>2, <1>3 DEF IInv

-----------------------------------------------------------------------------
(***************************************************************************)
(* Loads.                                                                  *)
(***************************************************************************)
LEMMA LoadedIs ==
  ASSUME NEW old \in ArrayMaps, NEW ints \in VarMaps, NEW specs \in SUBSET AllVariables,
         \A v \in specs : size[v] \in Nat
  PROVE  LET l == Refined(DecodedAll(Dropped(old), ints), specs)
         IN /\ l \in ArrayMaps
            /\ DOMAIN l = specs \cup DOMAIN ints \cup Kept(old, ints)
            /\ \A v \in specs : /\ l[v].vals = Fit(FromFile(ints, old, v), size[v], Zeros(size[v]))
                                /\ Len(l[v].vals) = size[v]
            /\ \A v \in DOMAIN l \ specs : l[v].vals = FromFile(ints, old, v)
<1> DEFINE d == Dropped(old)
           m == DecodedAll(d, ints)
           l == Refined(m, specs)
<1>1. d \in ArrayMaps /\ DOMAIN d = DOMAIN old \cap Tabled[csv] /\ \A v \in DOMAIN d : d[v] = old[v]
  BY DroppedIs
<1> HIDE DEF d
<1>2. /\ m \in ArrayMaps /\ DOMAIN m = DOMAIN d \cup DOMAIN ints
      /\ \A v \in DOMAIN ints : m[v].vals = ints[v]
      /\ \A v \in DOMAIN d \ DOMAIN ints : m[v] = d[v]
  BY <1>1, DecodedIs
<1> HIDE DEF m
<1>3. /\ l \in ArrayMaps /\ DOMAIN l = DOMAIN m \cup specs
      /\ \A v \in specs : l[v].vals = Righted(m, v) /\ Len(l[v].vals) = size[v]
      /\ \A v \in DOMAIN m \ specs : l[v] = m[v]
  BY <1>2, RefinedIs
<1> HIDE DEF l
<1>4. Kept(old, ints) = DOMAIN d \ DOMAIN ints
  BY <1>1 DEF Kept
<1>5. ASSUME NEW v \in DOMAIN m PROVE m[v].vals = FromFile(ints, old, v)
  <2>1. CASE v \in DOMAIN ints
    <3>1. FromFile(ints, old, v) = ints[v]
      BY <2>1, <1>4, Zenon DEF FromFile
    <3> QED
      BY <2>1, <3>1, <1>2
  <2>2. CASE v \in Kept(old, ints)
    <3>1. FromFile(ints, old, v) = old[v].vals
      BY <2>2, <1>4, Zenon DEF FromFile
    <3> QED
      BY <2>2, <3>1, <1>1, <1>2, <1>4
  <2> QED
    BY <2>1, <2>2, <1>2, <1>4
<1>6. ASSUME NEW v, v \notin DOMAIN m PROVE FromFile(ints, old, v) = << >>
  <2>1. v \notin DOMAIN ints /\ v \notin Kept(old, ints)
    BY <1>2, <1>4, <1>6
  <2> QED
    BY <2>1, Zenon DEF FromFile
<1>7. \A v \in specs : l[v].vals = Fit(FromFile(ints, old, v), size[v], Zeros(size[v]))
  <2>1. ASSUME NEW v \in specs
        PROVE  (IF v \in DOMAIN m THEN m[v].vals ELSE << >>) = FromFile(ints, old, v)
    BY <1>5, <1>6
  <2> QED
    BY <1>3, <2>1 DEF Righted
<1>8. DOMAIN l = specs \cup DOMAIN ints \cup Kept(old, ints)
  BY <1>2, <1>3, <1>4
<1>9. \A v \in DOMAIN l \ specs : l[v].vals = FromFile(ints, old, v)
  BY <1>3, <1>5
<1> QED
  BY <1>3, <1>7, <1>8, <1>9 DEF l, m, d

\* a load that takes nothing of the file
LEMMA SkippedIs ==
  ASSUME Sized, sys \in ArrayMaps
  PROVE  Refined(Dropped(sys), SysVars) \in ArrayMaps /\ SysFits(Refined(Dropped(sys), SysVars))
<1>1. Dropped(sys) \in ArrayMaps
  BY DroppedIs
<1>2. SysVars \in SUBSET AllVariables /\ \A v \in SysVars : size[v] \in Nat
  BY SizedIs
<1> QED
  BY <1>1, <1>2, RefinedIs DEF SysFits

LEMMA LoadsKeep ==
  ASSUME IInv, Playing, NEW s \in Slots, NEW anew \in BOOLEAN, Loads(file[s], anew)
  PROVE  /\ sys' \in ArrayMaps /\ list' \in Seq(Charas) /\ spare' \in Seq(Spares) /\ count' \in 0..MaxUid /\ refs' \in Seq(Nat)
         /\ mixed' \in Flags /\ mixed'.share = mixed.share
         /\ ~mixed'.sys => SysFits(sys') /\ ListFits(list') /\ UniqueUpTo(list', count')
<1> DEFINE f == file[s]
<1>0. /\ Sized /\ sys \in ArrayMaps /\ list \in Seq(Charas) /\ spare \in Seq(Spares) /\ count \in 0..MaxUid
      /\ refs \in Seq(Nat) /\ mixed \in Flags /\ (~mixed.sys => UniqueUpTo(list, count))
  BY GameHas
<1>1. SysVars \in SUBSET AllVariables /\ \A v \in SysVars : size[v] \in Nat
  BY <1>0, SizedIs
<1>2. ASSUME NEW m \in ArrayMaps, SysFits(m)
      PROVE  Registered(m, anew) \in ArrayMaps /\ SysFits(Registered(m, anew))
  BY <1>2, HeldIs DEF SysFits
<1>3. f.parts > 0 => f \in SystemFiles /\ (~f.mixed => UniqueUpTo(f.list, f.count))
  BY FileIs DEF NoFile
<1> HIDE DEF f
<1>4. ASSUME Reads(f), sys' = Registered(LoadedSys(f), anew), list' = RefinedList(DecodedList(f)),
             spare' = Left(f), count' = LoadedCount(f), refs' = f.refs, mixed' = [mixed EXCEPT !.sys = f.mixed]
      PROVE  /\ sys' \in ArrayMaps /\ list' \in Seq(Charas) /\ spare' \in Seq(Spares) /\ count' \in 0..MaxUid /\ refs' \in Seq(Nat)
             /\ mixed' \in Flags /\ mixed'.share = mixed.share
             /\ ~mixed'.sys => SysFits(sys') /\ ListFits(list') /\ UniqueUpTo(list', count')
  <2>1. f \in SystemFiles /\ (~f.mixed => UniqueUpTo(f.list, f.count))
    BY <1>3, <1>4 DEF Reads, Parts
  <2>2. /\ f.ints \in VarMaps /\ f.list \in Seq(Charas) /\ f.count \in 0..MaxUid /\ f.refs \in Seq(Nat)
        /\ f.mixed \in BOOLEAN
    BY <2>1 DEF SystemFiles
  <2>3. LoadedSys(f) \in ArrayMaps /\ SysFits(LoadedSys(f))
    <3> DEFINE l == Refined(DecodedAll(Dropped(sys), f.ints), SysVars)
    <3>1. /\ l \in ArrayMaps /\ DOMAIN l = SysVars \cup DOMAIN f.ints \cup Kept(sys, f.ints)
          /\ \A v \in SysVars : Len(l[v].vals) = size[v]
      BY <1>0, <1>1, <2>2, LoadedIs
    <3>2. LoadedSys(f) = l
      BY DEF LoadedSys
    <3> HIDE DEF l
    <3> QED
      BY <3>1, <3>2 DEF SysFits
  <2>4. sys' \in ArrayMaps /\ SysFits(sys')
    BY <1>2, <1>4, <2>3
  <2>5. DecodedList(f) \in Seq(Charas) /\ SameCharas(DecodedList(f), f.list)
    BY <1>0, <2>1, DecodedListIs
  <2>6. list' \in Seq(Charas) /\ SameCharas(list', DecodedList(f)) /\ ListFits(list')
    BY <1>0, <1>4, <2>5, RefinedListIs
  <2>8. spare' \in Seq(Spares)
    BY <1>0, <1>4, <2>1, LeftIs
  <2>9. mixed' \in Flags /\ mixed'.sys = f.mixed /\ mixed'.share = mixed.share
    BY <1>0, <1>4, <2>2 DEF Flags
  <2>7. ~f.mixed => UniqueUpTo(list', f.count)
    BY <2>1, <2>2, <2>5, <2>6, UniqueSame
  <2> QED
    BY <1>4, <2>2, <2>4, <2>6, <2>7, <2>8, <2>9 DEF LoadedCount
<1>5. ASSUME Skips(f), sys' = Registered(Refined(Dropped(sys), SysVars), anew),
             list' = RefinedList(DroppedList), UNCHANGED <<spare, count, refs, mixed>>
      PROVE  /\ sys' \in ArrayMaps /\ list' \in Seq(Charas) /\ spare' \in Seq(Spares) /\ count' \in 0..MaxUid /\ refs' \in Seq(Nat)
             /\ mixed' \in Flags /\ mixed'.share = mixed.share
             /\ ~mixed'.sys => SysFits(sys') /\ ListFits(list') /\ UniqueUpTo(list', count')
  <2>1. sys' \in ArrayMaps /\ SysFits(sys')
    BY <1>0, <1>2, <1>5, SkippedIs
  <2>2. DroppedList \in Seq(Charas) /\ SameCharas(DroppedList, list)
    BY <1>0, DroppedListIs
  <2>3. list' \in Seq(Charas) /\ SameCharas(list', DroppedList) /\ ListFits(list')
    BY <1>0, <1>5, <2>2, RefinedListIs
  <2>4. ~mixed.sys => UniqueUpTo(list', count)
    BY <1>0, <2>2, <2>3, UniqueSame
  <2> QED
    BY <1>0, <1>5, <2>1, <2>3, <2>4
<1> QED
  BY <1>4, <1>5 DEF Loads, f

\* what is decoded of a file that is cut amid the variables
LEMMA CutIs ==
  ASSUME NEW m \in ArrayMaps, NEW ints \in VarMaps, NEW half \in HalfMaps
  PROVE  LET q == Overwritten(DecodedAll(Dropped(m), ints), half)
         IN /\ q \in ArrayMaps /\ DOMAIN q = (DOMAIN m \cap Tabled[csv]) \cup DOMAIN ints
            /\ \A v \in (DOMAIN m \cap DOMAIN q) \ Replaced(m, ints) : q[v].held = m[v].held
<1> DEFINE d == Dropped(m)
           a == DecodedAll(d, ints)
           q == Overwritten(a, half)
<1>1. d \in ArrayMaps /\ DOMAIN d = DOMAIN m \cap Tabled[csv] /\ \A v \in DOMAIN d : d[v] = m[v]
  BY DroppedIs
<1>2. Replaced(m, ints) = {v \in DOMAIN ints : v \in DOMAIN d => Len(ints[v]) > m[v].cap}
  BY DEF Replaced
<1> HIDE DEF d
<1>3. a \in ArrayMaps /\ DOMAIN a = DOMAIN d \cup DOMAIN ints /\ \A v \in DOMAIN d \ DOMAIN ints : a[v] = d[v]
  BY <1>1, DecodedIs
<1>4. ASSUME NEW v \in DOMAIN d \cap DOMAIN ints, Len(ints[v]) <= d[v].cap PROVE a[v].held = d[v].held
  BY <1>1, <1>4, DecodedInPlace
<1> HIDE DEF a
<1>5. q \in ArrayMaps /\ DOMAIN q = DOMAIN a /\ \A v \in DOMAIN a : q[v].held = a[v].held
  BY <1>3, OverwrittenIs
<1> HIDE DEF q
<1>6. ASSUME NEW v \in (DOMAIN m \cap DOMAIN q) \ Replaced(m, ints) PROVE q[v].held = m[v].held
  <2>1. CASE v \in DOMAIN d \ DOMAIN ints
    BY <2>1, <1>1, <1>3, <1>5
  <2>2. CASE v \in DOMAIN ints
    <3>1. v \in DOMAIN d /\ ~(Len(ints[v]) > m[v].cap)
      BY <1>2, <1>6, <2>2
    <3>2. Len(ints[v]) \in Nat /\ m[v].cap \in Nat
      <4>1. ints[v] \in Seq(Int)
        BY <2>2, VarMapIs
      <4>2. m[v] \in Arrays
        BY <1>6, ArrayMapIs
      <4> QED
        BY <4>1, <4>2, ArrayIs
    <3>3. Len(ints[v]) <= d[v].cap
      BY <1>1, <3>1, <3>2
    <3> QED
      BY <1>1, <1>3, <1>4, <1>5, <2>2, <3>1, <3>3
  <2> QED
    BY <1>3, <1>5, <2>1, <2>2
<1>7. DOMAIN q = (DOMAIN m \cap Tabled[csv]) \cup DOMAIN ints
  BY <1>1, <1>3, <1>5
<1> QED
  BY <1>5, <1>6, <1>7 DEF q, a, d

\* a load that fails has decoded a part of the variables, or none
LEMMA DecodedSysIs ==
  ASSUME IInv, Playing, NEW s \in Slots
  PROVE  /\ DecodedSys(file[s]) \in ArrayMaps
         /\ file[s].parts < Amid \/ file[s].title = "long" => DecodedSys(file[s]) = Dropped(sys)
         /\ ~(file[s].parts < Amid \/ file[s].title = "long") =>
              /\ file[s] \in SystemFiles /\ file[s].title = "short"
              /\ \A v \in (DOMAIN sys \cap DOMAIN DecodedSys(file[s])) \ Replaced(sys, file[s].ints) :
                   DecodedSys(file[s])[v].held = sys[v].held
<1> DEFINE f == file[s]
<1>1. sys \in ArrayMaps
  BY GameHas
<1>2. ~(f.parts < Amid) => f \in SystemFiles
  BY FileIs DEF NoFile, Amid, Parts
<1> HIDE DEF f
<1>3. CASE f.parts < Amid \/ f.title = "long"
  <2>1. DecodedSys(f) = Dropped(sys)
    BY <1>3 DEF DecodedSys
  <2> QED
    BY <1>1, <1>3, <2>1, DroppedIs DEF f
<1>4. CASE ~(f.parts < Amid \/ f.title = "long")
  <2>1. f \in SystemFiles
    BY <1>2, <1>4
  <2>2. f.ints \in VarMaps /\ f.half \in HalfMaps /\ f.title = "short"
    BY <1>4, <2>1 DEF SystemFiles, Titles
  <2>3. DecodedSys(f) = Overwritten(DecodedAll(Dropped(sys), f.ints), f.half)
    BY <1>4 DEF DecodedSys
  <2> DEFINE q == Overwritten(DecodedAll(Dropped(sys), f.ints), f.half)
  <2>4. /\ q \in ArrayMaps
        /\ \A v \in (DOMAIN sys \cap DOMAIN q) \ Replaced(sys, f.ints) : q[v].held = sys[v].held
    BY <1>1, <2>2, CutIs
  <2>5. DecodedSys(f) = q
    BY <2>3
  <2> HIDE DEF q
  <2> QED
    BY <1>4, <2>1, <2>2, <2>4, <2>5 DEF f
<1> QED
  BY <1>3, <1>4

LEMMA LoadFailsKeeps ==
  ASSUME IInv, Playing, NEW s \in Slots, LoadFails(file[s])
  PROVE  /\ sys' \in ArrayMaps /\ list' \in Seq(Charas) /\ spare' \in Seq(Spares) /\ count' \in 0..MaxUid /\ refs' \in Seq(Nat)
         /\ mixed' \in Flags /\ mixed'.sys = TRUE /\ mixed'.share = mixed.share
<1> DEFINE f == file[s]
<1>0. /\ list \in Seq(Charas) /\ spare \in Seq(Spares) /\ count \in 0..MaxUid /\ refs \in Seq(Nat)
      /\ mixed \in Flags
  BY GameHas
<1>1. f.parts > 1 \/ f.parts > 2 => f \in SystemFiles
  BY FileIs DEF NoFile
<1>3. sys' \in ArrayMaps
  BY DecodedSysIs DEF LoadFails
<1> HIDE DEF f
<1>2. /\ mixed' = [mixed EXCEPT !.sys = TRUE]
      /\ IF f.parts > 1 /\ f.title = "short"
           THEN list' = DecodedList(f) /\ spare' = Left(f) /\ count' = f.count
           ELSE list' = DroppedList /\ UNCHANGED <<spare, count>>
      /\ IF f.parts > 2 /\ f.title = "short" THEN refs' = f.refs ELSE UNCHANGED refs
  BY DEF LoadFails, f
<1>4. list' \in Seq(Charas) /\ spare' \in Seq(Spares) /\ count' \in 0..MaxUid
  <2>1. CASE f.parts > 1 /\ f.title = "short"
    <3>1. f \in SystemFiles
      BY <1>1, <2>1
    <3>2. f.count \in 0..MaxUid
      BY <3>1 DEF SystemFiles
    <3> QED
      BY <1>0, <1>2, <2>1, <3>1, <3>2, DecodedListIs, LeftIs
  <2>2. CASE ~(f.parts > 1 /\ f.title = "short")
    BY <1>0, <1>2, <2>2, DroppedListIs
  <2> QED
    BY <2>1, <2>2
<1>5. refs' \in Seq(Nat)
  <2>1. CASE f.parts > 2 /\ f.title = "short"
    <3>1. f \in SystemFiles
      BY <1>1, <2>1
    <3>2. f.refs \in Seq(Nat)
      BY <3>1 DEF SystemFiles
    <3> QED
      BY <1>2, <2>1, <3>2
  <2>2. CASE ~(f.parts > 2 /\ f.title = "short")
    BY <1>0, <1>2, <2>2
  <2> QED
    BY <2>1, <2>2
<1>6. mixed' \in Flags /\ mixed'.sys = TRUE /\ mixed'.share = mixed.share
  BY <1>0, <1>2 DEF Flags
<1> QED
  BY <1>3, <1>4, <1>5, <1>6

LEMMA ObjectsAre ==
  ASSUME NEW a \in ArrayMaps, NEW b \in ArrayMaps
  PROVE  /\ Objects(a, b) \in [sys : SUBSET AllVariables, share : SUBSET AllVariables]
         /\ Objects(a, b).sys = DOMAIN a /\ Objects(a, b).share = DOMAIN b
BY ArrayMapIs DEF Objects

LEMMA LoadSystemKeeps ==
  ASSUME IInv, NEW s \in Slots, LoadSystem(s)
  PROVE  IInv'
<1>1. Playing /\ Did /\ UNCHANGED <<comment, saved>>
  BY DEF LoadSystem
<1>2. ASSUME Loads(file[s], TRUE), share' = Held(share), reg' = Objects(sys', share') PROVE GameInv'
  <2>1. /\ sys' \in ArrayMaps /\ list' \in Seq(Charas) /\ spare' \in Seq(Spares) /\ count' \in 0..MaxUid /\ refs' \in Seq(Nat)
        /\ mixed' \in Flags /\ mixed'.share = mixed.share
        /\ ~mixed'.sys => SysFits(sys') /\ ListFits(list') /\ UniqueUpTo(list', count')
    BY <1>1, <1>2, LoadsKeep
  <2>2. share' = Registered(share, TRUE)
    BY <1>2 DEF Registered
  <2>3. share' \in ArrayMaps /\ (~mixed'.share => ShareFits(share'))
    <3>1. share \in ArrayMaps /\ (~mixed.share => ShareFits(share))
      BY <1>1, GameHas
    <3>2. /\ Registered(share, TRUE) \in ArrayMaps /\ DOMAIN Registered(share, TRUE) = DOMAIN share
          /\ \A v \in DOMAIN share : Registered(share, TRUE)[v].vals = share[v].vals
      BY <3>1, HeldIs
    <3>3. ShareFits(share) => ShareFits(share')
      BY <2>2, <3>2 DEF ShareFits
    <3> QED
      BY <2>1, <2>2, <3>1, <3>2, <3>3
  <2>4. reg' \in [sys : SUBSET AllVariables, share : SUBSET AllVariables]
    BY <1>2, <2>1, <2>3, ObjectsAre
  <2> QED
    BY <1>1, <2>1, <2>3, <2>4, GameHas, GameGoesOn
<1>3. ASSUME LoadFails(file[s]), UNCHANGED <<share, reg>> PROVE GameInv'
  <2>1. /\ sys' \in ArrayMaps /\ list' \in Seq(Charas) /\ spare' \in Seq(Spares) /\ count' \in 0..MaxUid /\ refs' \in Seq(Nat)
        /\ mixed' \in Flags /\ mixed'.sys = TRUE /\ mixed'.share = mixed.share
    BY <1>1, <1>3, LoadFailsKeeps
  <2> QED
    BY <1>1, <1>3, <2>1, GameHas, GameGoesOn
<1>4. GameInv'
  BY <1>2, <1>3 DEF LoadSystem
<1> QED
  BY <1>1, <1>4, FilesStay DEF IInv

LEMMA EndsKeeps ==
  ASSUME IInv, Ends
  PROVE  IInv'
<1>1. csv' \in DOMAIN Dbs /\ builtin' \in [DOMAIN Builtin -> Nat] /\ ops' \in 0..MaxOps
  BY DEF Ends, IInv, GameInv, Typed
<1>2. GameInv'
  BY <1>1, GameIsGone DEF Ends
<1> QED
  BY <1>2, FilesStay DEF IInv, Ends

LEMMA LoadFromTitleKeeps ==
  ASSUME IInv, NEW s \in Slots, LoadFromTitle(s)
  PROVE  IInv'
<1>1. Playing
  BY DEF LoadFromTitle
<1>2. ASSUME Loads(file[s], FALSE), Did, UNCHANGED <<share, reg, comment, saved>> PROVE IInv'
  <2>1. /\ sys' \in ArrayMaps /\ list' \in Seq(Charas) /\ spare' \in Seq(Spares) /\ count' \in 0..MaxUid /\ refs' \in Seq(Nat)
        /\ mixed' \in Flags /\ mixed'.share = mixed.share
        /\ ~mixed'.sys => SysFits(sys') /\ ListFits(list') /\ UniqueUpTo(list', count')
    BY <1>1, <1>2, LoadsKeep
  <2>2. GameInv'
    BY <1>1, <1>2, <2>1, GameHas, GameGoesOn
  <2> QED
    BY <1>2, <2>2, FilesStay DEF IInv
<1> QED
  BY <1>2, EndsKeeps DEF LoadFromTitle

LEMMA ShareFileIs ==
  ASSUME IInv
  PROVE  /\ ShareReads \/ ~(shareFile.parts < Amid) => shareFile \in ShareFiles
         /\ shareFile \in ShareFiles => shareFile.ints \in VarMaps /\ shareFile.half \in HalfMaps
<1>1. shareFile = NoFile \/ shareFile \in ShareFiles
  BY DEF IInv, FilesInv, FilesTyped
<1>2. NoFile.parts = -1
  BY DEF NoFile
<1> QED
  BY <1>1, <1>2 DEF ShareReads, ShareFiles, Parts, Amid

\* a load of the shared variables that fails has decoded a part of them, or none
LEMMA DecodedShareIs ==
  ASSUME IInv, Playing
  PROVE  /\ DecodedShare \in ArrayMaps
         /\ shareFile.parts < Amid => DecodedShare = Dropped(share)
         /\ ~(shareFile.parts < Amid) =>
              \A v \in (DOMAIN share \cap DOMAIN DecodedShare) \ Replaced(share, shareFile.ints) :
                DecodedShare[v].held = share[v].held
<1>1. share \in ArrayMaps
  BY GameHas
<1>2. CASE shareFile.parts < Amid
  <2>1. DecodedShare = Dropped(share)
    BY <1>2 DEF DecodedShare
  <2> QED
    BY <1>1, <1>2, <2>1, DroppedIs
<1>3. CASE ~(shareFile.parts < Amid)
  <2>1. shareFile.ints \in VarMaps /\ shareFile.half \in HalfMaps
    BY <1>3, ShareFileIs
  <2>2. DecodedShare = Overwritten(DecodedAll(Dropped(share), shareFile.ints), shareFile.half)
    BY <1>3 DEF DecodedShare
  <2> QED
    BY <1>1, <1>3, <2>1, <2>2, CutIs
<1> QED
  BY <1>2, <1>3

LEMMA LoadShareKeeps ==
  ASSUME IInv, LoadShare
  PROVE  IInv'
<1>0. /\ Playing /\ Did /\ UNCHANGED <<list, spare, count, refs, comment, saved>>
      /\ Sized /\ sys \in ArrayMaps /\ share \in ArrayMaps /\ mixed \in Flags
  BY GameHas DEF LoadShare
<1>1. ASSUME ShareReads, mixed' = [mixed EXCEPT !.share = FALSE], share' = Registered(LoadedShare, TRUE), sys' = Registered(sys, TRUE),
             reg' = Objects(sys', share')
      PROVE  GameInv'
  <2> DEFINE l == Refined(DecodedAll(Dropped(share), shareFile.ints), ShareVars)
  <2>1. shareFile.ints \in VarMaps
    BY <1>1, ShareFileIs
  <2>2. ShareVars \in SUBSET AllVariables /\ \A v \in ShareVars : size[v] \in Nat
    BY <1>0, SizedIs
  <2>3. l \in ArrayMaps /\ \A v \in ShareVars : Len(l[v].vals) = size[v]
    BY <1>0, <2>1, <2>2, LoadedIs
  <2>4. share' = Registered(l, TRUE)
    BY <1>1 DEF LoadedShare
  <2> HIDE DEF l
  <2>5. share' \in ArrayMaps /\ ShareFits(share')
    BY <2>3, <2>4, HeldIs DEF ShareFits
  <2>6. sys' \in ArrayMaps /\ (SysFits(sys) => SysFits(sys'))
    BY <1>0, <1>1, HeldIs DEF SysFits
  <2>7. reg' \in [sys : SUBSET AllVariables, share : SUBSET AllVariables]
    BY <1>1, <2>5, <2>6, ObjectsAre
  <2>8. mixed' \in Flags /\ mixed'.sys = mixed.sys
    BY <1>0, <1>1 DEF Flags
  <2> QED
    BY <1>0, <2>5, <2>6, <2>7, <2>8, GameHas, GameGoesOn
<1>2. ASSUME ~ShareReads, share' = DecodedShare, mixed' = [mixed EXCEPT !.share = @ \/ shareFile.parts = Amid],
             UNCHANGED <<sys, reg>>
      PROVE  GameInv'
  <2>1. /\ mixed' \in Flags /\ mixed'.sys = mixed.sys
        /\ mixed'.share = (mixed.share \/ shareFile.parts = Amid)
    BY <1>0, <1>2 DEF Flags
  <2>2. share' \in ArrayMaps
    BY <1>0, <1>2, DecodedShareIs
  <2>3. ~mixed'.share => ShareFits(share')
    <3>1. SUFFICES ASSUME ~mixed'.share PROVE ShareFits(share')
      OBVIOUS
    <3>2. ShareFits(share) /\ shareFile.parts # Amid
      BY <1>0, <2>1, <3>1, GameHas
    <3>3. shareFile.parts < Amid
      <4>1. ~(shareFile.parts < Amid) => shareFile \in ShareFiles
        BY ShareFileIs
      <4> QED
        BY <1>2, <3>2, <4>1 DEF ShareReads, ShareFiles, Amid, Parts
    <3>4. share' = Dropped(share)
      BY <1>0, <1>2, <3>3, DecodedShareIs
    <3> QED
      BY <3>2, <3>4, DroppedIs DEF ShareFits
  <2> QED
    BY <1>0, <1>2, <2>1, <2>2, <2>3, GameHas, GameGoesOn
<1> QED
  BY <1>0, <1>1, <1>2, FilesStay DEF LoadShare, IInv

-----------------------------------------------------------------------------
(***************************************************************************)
(* The game starts and ends.                                               *)
(***************************************************************************)
LEMMA CharactersAreMany ==
  ASSUME NEW base, IsDataBase(base)
  PROVE  Cardinality(CharaIds(base)) \in Nat
<1> DEFINE D == 1..Len(base.charas)
           f == [k \in D |-> base.charas[k].id]
<1>1. base.charas \in Seq(CharaFile) /\ DOMAIN base.charas = D /\ Len(base.charas) \in Nat
  BY DEF IsDataBase
<1>2. IsFiniteSet(D)
  <2>1. \A n \in Nat : IsFiniteSet(1..n)
    BY FS_Interval
  <2> QED
    BY <1>1, <2>1
<1>3. f \in Surjection(D, CharaIds(base))
  BY <1>1 DEF CharaIds, Surjection
<1> QED
  BY <1>2, <1>3, FS_Surjection, FS_CardinalityType

LEMMA BootKeeps ==
  ASSUME IInv, NEW d \in DOMAIN Dbs, Boot(d)
  PROVE  IInv'
<1> DEFINE sizes == Sizes(Dbs[d], builtin)
<1>1. phase = "off" /\ builtin' = Fitted(sizes) /\ UNCHANGED <<saved, ops>>
  BY DEF Boot
<1>2. IsDataBase(Dbs[d])
  BY DataAssumption
<1>3. sizes \in [Variables(Dbs[d]) -> Nat]
  BY <1>2, SizesAre DEF IInv, GameInv, Typed
<1> HIDE DEF sizes
<1>4. builtin' \in [DOMAIN Builtin -> Nat]
  BY <1>1, <1>3 DEF Fitted, Variables
<1>5. ASSUME UNCHANGED <<phase, csv, data, ops>> PROVE GameInv'
  <2>1. UNCHANGED <<phase, csv, size, sys, share, reg, list, spare, count, refs, comment, mixed, ops>>
    BY <1>5 DEF data
  <2>2. Typed'
    <3>1. Spares' = Spares
      BY <2>1 DEF Spares
    <3> QED
      BY <1>4, <2>1, <3>1 DEF IInv, GameInv, Typed
  <2>3. HasGame'
    BY <1>1, <2>1 DEF HasGame, IInv, GameInv
  <2>4. FitsTables' /\ ShopIsSafe'
    BY <1>1, <2>1 DEF FitsTables, ShopIsSafe
  <2>5. UidsUnique'
    BY <2>1 DEF UidsUnique, UniqueUpTo, IInv, GameInv
  <2> QED
    BY <2>2, <2>3, <2>4, <2>5 DEF GameInv
<1>6. ASSUME phase' = "play", csv' = d, NewData(d, sizes) PROVE GameInv'
  <2>1. /\ size' = sizes
        /\ sys' = NewVars(d, sizes, "System") /\ share' = NewVars(d, sizes, "Share")
        /\ reg' = Objects(sys', share') /\ list' = << >> /\ spare' = << >> /\ count' = 0
        /\ refs' = [i \in 1..Cardinality(CharaIds(Dbs[d])) |-> 0]
        /\ comment' = "short" /\ mixed' = Whole
    BY <1>6 DEF NewData
  <2>2. /\ sys' \in ArrayMaps /\ DOMAIN sys' = ScopedVars[d]["System"]
        /\ \A v \in ScopedVars[d]["System"] : Len(sys'[v].vals) = sizes[v]
    BY <1>3, <2>1, NewVarsAre
  <2>3. /\ share' \in ArrayMaps /\ DOMAIN share' = ScopedVars[d]["Share"]
        /\ \A v \in ScopedVars[d]["Share"] : Len(share'[v].vals) = sizes[v]
    BY <1>3, <2>1, NewVarsAre
  <2>4. refs' \in Seq(Nat)
    BY <1>2, <2>1, CharactersAreMany
  <2>5. list' \in Seq(Charas) /\ count' \in 0..MaxUid
    BY <2>1, NothingIs, DataAssumption
  <2>6. Typed'
    <3>1. reg' \in [sys : SUBSET AllVariables, share : SUBSET AllVariables]
      BY <2>1, <2>2, <2>3, ObjectsAre
    <3>2. ops' \in 0..MaxOps
      BY <1>1 DEF IInv, GameInv, Typed
    <3>3. spare' \in Seq(Spares')
      BY <2>1
    <3>4. mixed' \in Flags /\ comment' \in Titles
      BY <2>1 DEF Flags, Whole, Titles
    <3> QED
      BY <1>4, <1>6, <2>2, <2>3, <2>4, <2>5, <3>1, <3>2, <3>3, <3>4 DEF Typed
  <2>7. HasGame'
    BY <1>3, <1>6, <2>1 DEF HasGame, Sized, db
  <2>8. FitsTables'
    <3>1. SysVars' = ScopedVars[d]["System"] /\ ShareVars' = ScopedVars[d]["Share"]
      BY <1>6 DEF SysVars, ShareVars
    <3> QED
      BY <2>1, <2>2, <2>3, <3>1, NothingIs DEF FitsTables
  <2>9. UidsUnique'
    BY <2>1, NothingIs DEF UidsUnique, UniqueUpTo
  <2>10. ShopIsSafe'
    BY <1>6 DEF ShopIsSafe
  <2> QED
    BY <2>6, <2>7, <2>8, <2>9, <2>10 DEF GameInv
<1>7. GameInv'
  BY <1>5, <1>6 DEF Boot, sizes
<1> QED
  BY <1>1, <1>7, FilesStay DEF IInv

LEMMA RestartKeeps ==
  ASSUME IInv, Restart
  PROVE  IInv'
<1>1. csv' \in DOMAIN Dbs /\ builtin' \in [DOMAIN Builtin -> Nat] /\ ops' \in 0..MaxOps
  BY BuiltinIs DEF Restart, IInv, GameInv, Typed
<1>2. GameInv'
  BY <1>1, GameIsGone DEF Restart
<1> QED
  BY <1>2, FilesStay DEF IInv, Restart

-----------------------------------------------------------------------------
(***************************************************************************)
(* The specification keeps the invariant.                                  *)
(***************************************************************************)
LEMMA InitHolds == Init => IInv
<1> SUFFICES ASSUME Init PROVE IInv
  OBVIOUS
<1>1. /\ builtin = CompiledSizes /\ phase = "off" /\ csv = CHOOSE d \in DOMAIN Dbs : TRUE
      /\ sys = << >> /\ share = << >> /\ reg = Objects(sys, share) /\ list = << >> /\ spare = << >> /\ count = 0
      /\ refs = << >> /\ comment = "short" /\ file = [s \in Slots |-> NoFile] /\ shareFile = NoFile
      /\ mixed = Whole /\ ops = 0
  BY DEF Init
<1>2. csv \in DOMAIN Dbs
  BY <1>1, DataAssumption
<1>3. Typed
  <2>1. sys \in ArrayMaps /\ share \in ArrayMaps /\ list \in Seq(Charas) /\ refs \in Seq(Nat)
    BY <1>1, NothingIs
  <2>2. count \in 0..MaxUid /\ ops \in 0..MaxOps
    BY <1>1, DataAssumption
  <2>3. reg \in [sys : SUBSET AllVariables, share : SUBSET AllVariables]
    BY <1>1, <2>1, ObjectsAre
  <2> QED
    <3>1. spare \in Seq(Spares) /\ mixed \in Flags /\ comment \in Titles
      BY <1>1, NoSpares DEF Flags, Whole, Titles
    <3> QED
      BY <1>1, <1>2, <2>1, <2>2, <2>3, <3>1, BuiltinIs DEF Typed
<1>4. HasGame /\ FitsTables /\ ShopIsSafe
  BY <1>1, NothingIs DEF HasGame, FitsTables, ShopIsSafe, Objects
<1>5. UidsUnique
  BY <1>1, NothingIs DEF UidsUnique, UniqueUpTo
<1>6. FilesInv
  <2>1. \A s \in Slots : file[s].parts = -1
    BY <1>1 DEF NoFile
  <2>2. \A f \in SystemFiles : f.parts \in 0..Parts
    BY DEF SystemFiles
  <2>3. FilesUnique
    BY <2>1, <2>2 DEF FilesUnique, Parts
  <2> QED
    BY <1>1, <2>3 DEF FilesInv, FilesTyped
<1> QED
  BY <1>3, <1>4, <1>5, <1>6 DEF IInv, GameInv

LEMMA CharactersKeep ==
  ASSUME IInv, Characters
  PROVE  IInv'
<1>1. ASSUME NEW id \in Ids, NEW next \in {0, NoId}, AddCharas(<<id, next>>) PROVE IInv'
  <2>1. <<id, next>> \in Seq({id, next})
    OBVIOUS
  <2> QED
    BY <1>1, <2>1, AddCharasKeeps
<1>2. ASSUME NEW k \in 1..MaxUid, RemoveChara(k) PROVE IInv'
  BY <1>2, RemoveCharaKeeps
<1>3. ASSUME NEW k \in 1..MaxUid, NEW i \in Positions, SetRef(i, k) PROVE IInv'
  BY <1>3, SetRefKeeps
<1>4. ASSUME NEW k \in 1..MaxUid, NEW i \in Positions, NEW x \in Values, WriteChara(k, "Abl", i, x) PROVE IInv'
  BY <1>4, WriteCharaKeeps
<1> QED
  BY <1>1, <1>2, <1>3, <1>4, AddEmptyKeeps, ClearCharasKeeps DEF Characters

LEMMA ScriptsKeep ==
  ASSUME IInv, Scripts
  PROVE  IInv'
<1>1. ASSUME NEW v \in reg.sys \cup reg.share, NEW i \in Positions, NEW x \in Values,
             WriteVar(v, i, x) \/ WriteShared(v, i, x)
      PROVE  IInv'
  BY <1>1, WriteVarKeeps, WriteSharedKeeps
<1>2. ASSUME NEW c \in {"short", "long"}, SetComment(c) PROVE IInv'
  BY <1>2, SetCommentKeeps DEF Titles
<1>3. ASSUME NEW i \in Positions, Buy(i) PROVE IInv'
  BY <1>3, BuyKeeps
<1> QED
  BY <1>1, <1>2, <1>3, CharactersKeep, ClearSystemKeeps, ClearShareKeeps DEF Scripts

LEMMA SavesKeep ==
  ASSUME IInv, Saves
  PROVE  IInv'
<1>1. PICK s \in Slots : \/ SaveSystem(s) \/ (\E p \in 0..(Amid - 1) : SaveBreaks(s, p, NoCut))
                         \/ (\E cut \in Cuts : SaveBreaks(s, Amid, cut))
                         \/ LoadSystem(s) \/ LoadFromTitle(s)
  BY DEF Saves
<1>2. ASSUME NEW p \in 0..(Amid - 1), SaveBreaks(s, p, NoCut) PROVE IInv'
  BY <1>2, CutsAre, SaveBreaksKeeps DEF Amid, Parts
<1>3. ASSUME NEW cut \in Cuts, SaveBreaks(s, Amid, cut) PROVE IInv'
  BY <1>3, CutsAre, SaveBreaksKeeps DEF Amid, Parts
<1> QED
  BY <1>1, <1>2, <1>3, SaveSystemKeeps, LoadSystemKeeps, LoadFromTitleKeeps

LEMMA NextKeeps ==
  ASSUME IInv, Next
  PROVE  IInv'
<1>1. Shutdown => IInv'
  BY EndsKeeps DEF Shutdown
<1>2. ASSUME Shares PROVE IInv'
  <2>1. ASSUME SaveShareBreaks(0, NoCut) PROVE IInv'
    BY <2>1, CutsAre, SaveShareBreaksKeeps DEF Amid, Parts
  <2>2. ASSUME NEW cut \in Cuts, SaveShareBreaks(Amid, cut) PROVE IInv'
    BY <2>2, CutsAre, SaveShareBreaksKeeps DEF Amid, Parts
  <2> QED
    BY <1>2, <2>1, <2>2, SaveShareKeeps, LoadShareKeeps DEF Shares
<1> QED
  BY <1>1, <1>2, BootKeeps, RestartKeeps, ScriptsKeep, SavesKeep DEF Next

LEMMA StutterKeeps ==
  ASSUME IInv, UNCHANGED vars
  PROVE  IInv'
<1>1. /\ UNCHANGED <<builtin, phase, csv, size, sys, share, reg, list, spare, count, refs, comment, mixed, ops>>
      /\ UNCHANGED saved
  BY DEF vars, data, saved
<1>2. Typed' /\ HasGame' /\ ShopIsSafe'
  BY <1>1 DEF Typed, Spares, HasGame, Sized, db, ShopIsSafe, IInv, GameInv
<1>3. FitsTables' /\ UidsUnique'
  BY <1>1 DEF FitsTables, SysVars, ShareVars, CharaVariables, UidsUnique, UniqueUpTo, IInv, GameInv
<1> QED
  BY <1>1, <1>2, <1>3, FilesStay DEF IInv, GameInv

LEMMA Invariance == Spec => []IInv
<1>1. IInv /\ [Next]_vars => IInv'
  BY NextKeeps, StutterKeeps
<1> QED
  BY InitHolds, <1>1, PTL DEF Spec

LEMMA AgreesFromInvariant == IInv => DataAgree
<1> SUFFICES ASSUME IInv PROVE DataAgree
  OBVIOUS
<1>1. /\ builtin \in [DOMAIN Builtin -> Nat] /\ phase \in {"off", "play", "panic"} /\ csv \in DOMAIN Dbs
      /\ sys \in ArrayMaps /\ share \in ArrayMaps
      /\ reg \in [sys : SUBSET AllVariables, share : SUBSET AllVariables]
      /\ list \in Seq(Charas) /\ spare \in Seq(Spares) /\ count \in 0..MaxUid /\ refs \in Seq(Nat)
      /\ comment \in Titles /\ mixed \in Flags /\ ops \in 0..MaxOps
  BY DEF IInv, GameInv, Typed
<1>2. \A a \in Arrays : ArrayOK(a)
  BY ArrayIs DEF ArrayOK
<1>3. \A c \in Charas : CharaOK(c)
  BY CharaIs, VarMapIs DEF CharaOK
<1>4. /\ \A v \in DOMAIN sys : ArrayOK(sys[v])
      /\ \A v \in DOMAIN share : ArrayOK(share[v])
      /\ \A k \in DOMAIN list : CharaOK(list[k])
      /\ \A k \in DOMAIN spare : SpareOK(spare[k])
  <2>1. \A m \in Spares : SpareOK(m)
    BY VarMapIs DEF Spares, SpareOK
  <2> QED
    BY <1>1, <1>2, <1>3, <2>1, ArrayMapIs
<1>5. TypeOK
  BY <1>1, <1>4 DEF TypeOK, Titles, Flags
<1>6. ASSUME NEW rows \in Rows, ~RefusesRows(rows) PROVE TableIsRows(rows) /\ SlicesAgree(Names(rows))
  <2>1. IsTable(rows)
    BY DataAssumption
  <2> QED
    BY <1>6, <2>1, TablesHold, NamesAre, SlicesHold
<1>7. TablesAreRows /\ SlicesKeepNames
  BY <1>6 DEF TablesAreRows, SlicesKeepNames
<1> QED
  BY <1>5, <1>7 DEF DataAgree, IInv, GameInv

\* The data of a game agree with the tables of its data base for all data bases, slots and
\* bounds: every variable is there in its size however files were cut off and of whichever
\* version they are, unless a load of one failed midway, uids name one character each, the shop has its prices, and the tables
\* and slices say what the rows of the CSV files say (gamestate.go:244, file.go:56, :93).
THEOREM DataAlwaysAgree == Spec => []DataAgree
BY Invariance, AgreesFromInvariant, PTL

-----------------------------------------------------------------------------
(***************************************************************************)
(* What a load takes from a file.                                          *)
(***************************************************************************)
LEMMA CharaTaken ==
  ASSUME Sized, list \in Seq(Charas), spare \in Seq(Spares), NEW f \in SystemFiles, NEW k \in DOMAIN f.list
  PROVE  TookChara(RefinedList(DecodedList(f))[k], f.list[k])
<1> DEFINE c == f.list[k]
           d == DecodedList(f)[k]
           r == RefinedList(DecodedList(f))[k]
<1>1. f.list \in Seq(Charas) /\ c \in Charas
  BY DEF SystemFiles
<1>2. /\ DecodedList(f) \in Seq(Charas) /\ SameCharas(DecodedList(f), f.list)
      /\ d.vars = Merged(k, c)
  BY DecodedListIs
<1>3. k \in DOMAIN DecodedList(f) /\ d \in Charas /\ d.id = c.id /\ d.uid = c.uid
  BY <1>1, <1>2 DEF SameCharas
<1>4. r.id = d.id /\ r.uid = d.uid /\ r.vars = CharaVars(d)
  BY <1>2, <1>3, RefinedListIs DEF SameCharas
<1> HIDE DEF c, d, r
<1>5. ASSUME NEW v \in CharaVariables, v \in DOMAIN c.vars \/ v \notin Tabled[csv]
      PROVE  (IF v \in DOMAIN d.vars THEN d.vars[v] ELSE << >>) = (IF v \in DOMAIN c.vars THEN c.vars[v] ELSE << >>)
  <2>1. CASE v \in DOMAIN c.vars
    BY <1>1, <1>2, <2>1, MergedIs
  <2>2. CASE v \notin DOMAIN c.vars
    <3>1. v \notin DOMAIN d.vars
      BY <1>1, <1>2, <1>5, <2>2, MergedIs
    <3> QED
      BY <2>2, <3>1
  <2> QED
    BY <2>1, <2>2
<1>6. \A v \in CharaVariables :
        CharaVars(d)[v] = Fit(IF v \in DOMAIN d.vars THEN d.vars[v] ELSE << >>, size[v], StartVars(d.id)[v])
  BY <1>3, CharaVarsAre
<1>7. TookChara(r, c)
  BY <1>3, <1>4, <1>5, <1>6 DEF TookChara
<1> QED
  BY <1>7 DEF r, c

LEMMA HeldAre ==
  ASSUME NEW m \in ArrayMaps
  PROVE  /\ Values1(Held(m)) = Values1(m) /\ DOMAIN Held(m) = DOMAIN m
         /\ \A v \in DOMAIN Held(m) : Held(m)[v].held = TRUE
<1>1. DOMAIN Held(m) = DOMAIN m /\ \A v \in DOMAIN m : Held(m)[v] = [m[v] EXCEPT !.held = TRUE]
  BY DEF Held
<1>2. ASSUME NEW v \in DOMAIN m PROVE Held(m)[v].held = TRUE /\ Held(m)[v].vals = m[v].vals
  <2>1. m[v] \in Arrays
    BY ArrayMapIs
  <2> QED
    BY <1>1, <2>1 DEF Arrays
<1>3. Values1(Held(m)) = Values1(m)
  BY <1>1, <1>2 DEF Values1
<1> QED
  BY <1>1, <1>2, <1>3

LEMMA SysTaken ==
  ASSUME IInv, Playing, NEW f \in SystemFiles, NEW anew \in BOOLEAN, sys' = Registered(LoadedSys(f), anew)
  PROVE  Took(sys', sys, f.ints, SysVars)
<1> DEFINE l == Refined(DecodedAll(Dropped(sys), f.ints), SysVars)
<1>1. sys \in ArrayMaps /\ SysVars \in SUBSET AllVariables /\ \A v \in SysVars : size[v] \in Nat
  BY GameHas, SizedIs
<1>2. f.ints \in VarMaps
  BY DEF SystemFiles
<1>3. /\ l \in ArrayMaps /\ DOMAIN l = SysVars \cup DOMAIN f.ints \cup Kept(sys, f.ints)
      /\ \A v \in SysVars : l[v].vals = Fit(FromFile(f.ints, sys, v), size[v], Zeros(size[v]))
      /\ \A v \in DOMAIN l \ SysVars : l[v].vals = FromFile(f.ints, sys, v)
  BY <1>1, <1>2, LoadedIs
<1>4. sys' = Registered(l, anew)
  BY DEF LoadedSys
<1> HIDE DEF l
<1>5. DOMAIN sys' = DOMAIN l /\ \A v \in DOMAIN l : sys'[v].vals = l[v].vals
  <2>1. /\ DOMAIN Registered(l, anew) = DOMAIN l
        /\ \A v \in DOMAIN l : Registered(l, anew)[v].vals = l[v].vals
    BY <1>3, HeldIs
  <2> QED
    BY <1>4, <2>1
<1> QED
  BY <1>3, <1>5 DEF Took

LEMMA ReadRestores ==
  ASSUME IInv, NEW s \in Slots, Reads(file[s]), LoadSystem(s) \/ LoadFromTitle(s)
  PROVE  Restored(file[s]) /\ Values1(share') = Values1(share)
<1> DEFINE f == file[s]
<1>1. Playing /\ f.parts = Parts /\ f.title = "short"
  BY DEF LoadSystem, LoadFromTitle, Reads
<1>2. f \in SystemFiles
  BY <1>1, FileIs DEF Parts
<1>3. ~Skips(f) /\ ~LoadFails(f)
  BY <1>1 DEF Skips, LoadFails
<1>4. PICK anew \in BOOLEAN : /\ Loads(f, anew)
                              /\ IF anew THEN share' = Held(share) ELSE share' = share
  <2>1. CASE LoadSystem(s)
    BY <1>3, <2>1 DEF LoadSystem
  <2>2. CASE LoadFromTitle(s)
    BY <2>2 DEF LoadFromTitle
  <2> QED
    BY <2>1, <2>2
<1> HIDE DEF f
<1>5. /\ sys' = Registered(LoadedSys(f), anew) /\ list' = RefinedList(DecodedList(f))
      /\ count' = f.count /\ refs' = f.refs
  BY <1>3, <1>4 DEF Loads, LoadedCount
<1>6. Sized /\ list \in Seq(Charas) /\ spare \in Seq(Spares) /\ share \in ArrayMaps
  BY <1>1, GameHas
<1>7. Took(sys', sys, f.ints, SysVars)
  BY <1>1, <1>2, <1>5, SysTaken
<1>8. Len(list') = Len(f.list)
  BY <1>2, <1>5, <1>6, DecodedListIs, RefinedListIs DEF SameCharas
<1>9. \A k \in DOMAIN f.list : TookChara(list'[k], f.list[k])
  BY <1>2, <1>5, <1>6, CharaTaken
<1>10. Values1(share') = Values1(share)
  BY <1>4, <1>6, HeldAre
<1> QED
  BY <1>5, <1>7, <1>8, <1>9, <1>10 DEF Restored, f

LEMMA ShareTaken ==
  ASSUME IInv, ShareReads, LoadShare
  PROVE  Took(share', share, shareFile.ints, ShareVars)
<1> DEFINE l == Refined(DecodedAll(Dropped(share), shareFile.ints), ShareVars)
<1>1. Playing /\ share' = Registered(l, TRUE)
  BY DEF LoadShare, LoadedShare
<1>2. share \in ArrayMaps /\ ShareVars \in SUBSET AllVariables /\ \A v \in ShareVars : size[v] \in Nat
  BY <1>1, GameHas, SizedIs
<1>3. shareFile.ints \in VarMaps
  BY ShareFileIs
<1>4. /\ l \in ArrayMaps /\ DOMAIN l = ShareVars \cup DOMAIN shareFile.ints \cup Kept(share, shareFile.ints)
      /\ \A v \in ShareVars : l[v].vals = Fit(FromFile(shareFile.ints, share, v), size[v], Zeros(size[v]))
      /\ \A v \in DOMAIN l \ ShareVars : l[v].vals = FromFile(shareFile.ints, share, v)
  BY <1>2, <1>3, LoadedIs
<1> HIDE DEF l
<1>5. DOMAIN share' = DOMAIN l /\ \A v \in DOMAIN l : share'[v].vals = l[v].vals
  BY <1>1, <1>4, HeldIs
<1> QED
  BY <1>4, <1>5 DEF Took

\* After a load that reads its file to the end, the variables, the characters, their count and
\* the references are those of the file, fitted to the tables of the game, for every game that
\* was played before; of what was there only a variable stays that has a table and that the
\* file lacks (file.go:266, gamestate.go:52, :291).
THEOREM LoadsForget == Spec => LoadForgets
<1> DEFINE A == /\ \A s \in Slots : /\ Reads(file[s])
                                    /\ LoadSystem(s) \/ LoadFromTitle(s)
                                    => Restored(file[s]) /\ Values1(share') = Values1(share)
                /\ ShareReads /\ LoadShare
                     => Took(share', share, shareFile.ints, ShareVars)
<1>1. IInv => A
  BY ReadRestores, ShareTaken
<1>2. IInv => [A]_vars
  BY <1>1
<1>3. [][A]_vars => LoadForgets
  BY PTL DEF LoadForgets
<1> HIDE DEF A
<1> QED
  BY Invariance, <1>2, <1>3, PTL

-----------------------------------------------------------------------------
(***************************************************************************)
(* The objects that the script holds.                                      *)
(***************************************************************************)
\* those that reached the variables of one map reach the ones of the next that it has
Follow(objects, m, objectsNext, mNext) ==
  DOMAIN mNext \cap Live(objects, m) \subseteq Live(objectsNext, mNext)

LEMMA FollowKept ==
  ASSUME NEW objects, NEW m, NEW mNext, \A v \in DOMAIN m \cap DOMAIN mNext : mNext[v].held = m[v].held
  PROVE  Follow(objects, m, objects, mNext)
BY DEF Follow, Live

LEMMA FollowAnew ==
  ASSUME NEW objects, NEW m, NEW mNext, \A v \in DOMAIN mNext : mNext[v].held = TRUE
  PROVE  Follow(objects, m, DOMAIN mNext, mNext)
BY DEF Follow, Live

LEMMA FollowGone ==
  ASSUME NEW objects, NEW m, NEW objectsNext
  PROVE  Follow(objects, m, objectsNext, << >>)
BY NothingIs DEF Follow

\* what stays but for some variables loses those at most
LEMMA FollowBut ==
  ASSUME NEW objects, NEW m, NEW mNext, NEW R,
         \A v \in (DOMAIN m \cap DOMAIN mNext) \ R : mNext[v].held = m[v].held
  PROVE  (DOMAIN mNext \cap Live(objects, m)) \ Live(objects, mNext) \subseteq R
BY DEF Live

\* the variables that objects of the script no longer reach, and the loads that may do so
SysLost == (DOMAIN sys' \cap Live(reg.sys, sys)) \ Live(reg'.sys, sys')
ShareLost == (DOMAIN share' \cap Live(reg.share, share)) \ Live(reg'.share, share')
SysMoves == \E s \in Slots : LoadFromTitle(s) \/ (FailsAmid(s) /\ SysLost \subseteq Replaced(sys, file[s].ints))
ShareMoves == shareFile.parts = Amid /\ LoadShare /\ ShareLost \subseteq Replaced(share, shareFile.ints)

SysFollow == Follow(reg.sys, sys, reg'.sys, sys')
ShareFollow == Follow(reg.share, share, reg'.share, share')

LEMMA Unmoved ==
  /\ UNCHANGED <<sys, reg>> => SysFollow
  /\ UNCHANGED <<share, reg>> => ShareFollow
BY DEF SysFollow, ShareFollow, Follow, Live

LEMMA NothingFollows ==
  ASSUME NoData
  PROVE  SysFollow /\ ShareFollow
BY FollowGone DEF NoData, SysFollow, ShareFollow

LEMMA WritesFollow ==
  ASSUME IInv, NEW v, NEW i, NEW x \in Values, WriteVar(v, i, x) \/ WriteShared(v, i, x)
  PROVE  SysFollow /\ ShareFollow
<1>1. Playing /\ x \in Int
  BY DataAssumption DEF WriteVar, WriteShared
<1>2. sys \in ArrayMaps /\ share \in ArrayMaps
  BY <1>1, GameHas
<1>3. CASE WriteVar(v, i, x)
  <2>1. v \in DOMAIN sys /\ i \in DOMAIN sys[v].vals /\ sys' = Put(sys, v, i, x) /\ UNCHANGED <<share, reg>>
    BY <1>3 DEF WriteVar, Put
  <2>2. \A u \in DOMAIN sys : sys'[u].held = sys[u].held
    BY <1>1, <1>2, <2>1, PutIs
  <2> QED
    BY <2>1, <2>2, FollowKept, Unmoved DEF SysFollow
<1>4. CASE WriteShared(v, i, x)
  <2>1. v \in DOMAIN share /\ i \in DOMAIN share[v].vals /\ share' = Put(share, v, i, x) /\ UNCHANGED <<sys, reg>>
    BY <1>4 DEF WriteShared, Put
  <2>2. \A u \in DOMAIN share : share'[u].held = share[u].held
    BY <1>1, <1>2, <2>1, PutIs
  <2> QED
    BY <2>1, <2>2, FollowKept, Unmoved DEF ShareFollow
<1> QED
  BY <1>3, <1>4

LEMMA BuyFollows ==
  ASSUME IInv, NEW i, Buy(i)
  PROVE  SysFollow /\ ShareFollow
<1>1. CASE UNCHANGED data
  BY <1>1, Unmoved DEF data
<1>2. ASSUME i \in DOMAIN ItemPrices \cap DOMAIN ValuesOf("Item"), ValuesOf("Money") # << >>,
             sys' = [sys EXCEPT !["Money"].vals[1] = @ - ItemPrices[i], !["Item"].vals[i] = @ + 1],
             UNCHANGED <<share, reg>>
      PROVE  SysFollow
  <2>1. \A u \in DOMAIN sys \cap DOMAIN sys' : sys'[u].held = sys[u].held
    BY <1>2, BoughtIs DEF Buy
  <2> QED
    BY <1>2, <2>1, FollowKept DEF SysFollow
<1> QED
  BY <1>1, <1>2, Unmoved DEF Buy

LEMMA ClearsFollow ==
  ASSUME IInv, ClearSystem \/ ClearShare
  PROVE  SysFollow /\ ShareFollow
<1>1. sys \in ArrayMaps /\ share \in ArrayMaps
  BY DEF IInv, GameInv, Typed
<1>2. CASE ClearSystem
  BY <1>1, <1>2, ZeroedIs, FollowKept, Unmoved DEF ClearSystem, SysFollow
<1>3. CASE ClearShare
  BY <1>1, <1>3, ZeroedIs, FollowKept, Unmoved DEF ClearShare, ShareFollow
<1> QED
  BY <1>2, <1>3

LEMMA ScriptsFollow ==
  ASSUME IInv, Scripts
  PROVE  SysFollow /\ ShareFollow
<1>1. Characters => UNCHANGED <<sys, share, reg>>
  BY DEF Characters, AddCharas, AddEmpty, AppendAll, ClearCharas, RemoveChara, SetRef, WriteChara
<1>2. ASSUME NEW c, SetComment(c) PROVE UNCHANGED <<sys, share, reg>>
  BY <1>2 DEF SetComment
<1> QED
  BY <1>1, <1>2, WritesFollow, BuyFollows, ClearsFollow, Unmoved DEF Scripts

\* what a load makes the objects for
LEMMA RegisteredMap ==
  ASSUME IInv, Playing, NEW s \in Slots, Loads(file[s], TRUE)
  PROVE  \E m \in ArrayMaps : sys' = Held(m)
<1>1. Sized /\ sys \in ArrayMaps
  BY GameHas
<1>2. SysVars \in SUBSET AllVariables /\ \A v \in SysVars : size[v] \in Nat
  BY <1>1, SizedIs
<1>3. CASE Reads(file[s]) /\ sys' = Registered(LoadedSys(file[s]), TRUE)
  <2>1. file[s] \in SystemFiles
    BY <1>3, FileIs DEF Reads, Parts
  <2>2. file[s].ints \in VarMaps
    BY <2>1 DEF SystemFiles
  <2>3. LoadedSys(file[s]) \in ArrayMaps
    BY <1>1, <1>2, <2>2, LoadedIs DEF LoadedSys
  <2> QED
    BY <1>3, <2>3 DEF Registered
<1>4. CASE sys' = Registered(Refined(Dropped(sys), SysVars), TRUE)
  BY <1>1, <1>4, SkippedIs DEF Registered
<1> QED
  BY <1>3, <1>4 DEF Loads

LEMMA LoadSystemFollows ==
  ASSUME IInv, NEW s \in Slots, LoadSystem(s)
  PROVE  (SysFollow \/ SysMoves) /\ ShareFollow
<1>1. Playing
  BY DEF LoadSystem
<1>2. ASSUME Loads(file[s], TRUE), share' = Held(share), reg' = Objects(sys', share')
      PROVE  SysFollow /\ ShareFollow
  <2>1. \A v \in DOMAIN sys' : sys'[v].held = TRUE
    <3>1. PICK m \in ArrayMaps : sys' = Held(m)
      BY <1>1, <1>2, RegisteredMap
    <3> QED
      BY <3>1, HeldAre
  <2>2. \A v \in DOMAIN share' : share'[v].held = TRUE
    <3>1. share \in ArrayMaps
      BY <1>1, GameHas
    <3> QED
      BY <1>2, <3>1, HeldAre
  <2>3. reg'.sys = DOMAIN sys' /\ reg'.share = DOMAIN share'
    BY <1>2 DEF Objects
  <2> QED
    BY <2>1, <2>2, <2>3, FollowAnew DEF SysFollow, ShareFollow
<1>3. ASSUME LoadFails(file[s]), UNCHANGED <<share, reg>>
      PROVE  (SysFollow \/ SysMoves) /\ ShareFollow
  <2>1. sys' = DecodedSys(file[s]) /\ ~Reads(file[s])
    BY <1>3 DEF LoadFails
  <2>2. CASE file[s].parts < Amid \/ file[s].title = "long"
    <3>1. sys' = Dropped(sys)
      BY <1>1, <2>1, <2>2, DecodedSysIs
    <3>2. \A v \in DOMAIN sys' : sys'[v] = sys[v]
      BY <3>1, DroppedIs
    <3> QED
      BY <1>3, <3>2, FollowKept, Unmoved DEF SysFollow
  <2>3. CASE ~(file[s].parts < Amid \/ file[s].title = "long")
    <3>1. /\ file[s] \in SystemFiles /\ file[s].title = "short"
          /\ \A v \in (DOMAIN sys \cap DOMAIN sys') \ Replaced(sys, file[s].ints) : sys'[v].held = sys[v].held
      BY <1>1, <2>1, <2>3, DecodedSysIs
    <3>2. file[s].parts = Amid
      <4>1. file[s].parts \in 0..Parts
        BY <3>1 DEF SystemFiles
      <4> QED
        BY <2>1, <2>3, <3>1, <4>1 DEF Reads, Amid, Parts
    <3>3. (DOMAIN sys' \cap Live(reg.sys, sys)) \ Live(reg.sys, sys') \subseteq Replaced(sys, file[s].ints)
      BY <3>1, FollowBut
    <3>4. SysLost \subseteq Replaced(sys, file[s].ints)
      BY <1>3, <3>3 DEF SysLost
    <3> QED
      BY <1>3, <3>1, <3>2, <3>4, Unmoved DEF SysMoves, FailsAmid
  <2> QED
    BY <2>2, <2>3
<1> QED
  BY <1>2, <1>3 DEF LoadSystem

LEMMA LoadShareFollows ==
  ASSUME IInv, LoadShare
  PROVE  SysFollow /\ (ShareFollow \/ ShareMoves)
<1>0. Playing /\ Sized /\ sys \in ArrayMaps /\ share \in ArrayMaps
  BY GameHas DEF LoadShare
<1>1. ASSUME ShareReads, share' = Registered(LoadedShare, TRUE), sys' = Registered(sys, TRUE),
             reg' = Objects(sys', share')
      PROVE  SysFollow /\ ShareFollow
  <2>1. \A v \in DOMAIN sys' : sys'[v].held = TRUE
    BY <1>0, <1>1, HeldAre DEF Registered
  <2>2. \A v \in DOMAIN share' : share'[v].held = TRUE
    <3>1. shareFile.ints \in VarMaps
      BY <1>1, ShareFileIs
    <3>2. ShareVars \in SUBSET AllVariables /\ \A v \in ShareVars : size[v] \in Nat
      BY <1>0, SizedIs
    <3>3. LoadedShare \in ArrayMaps
      BY <1>0, <3>1, <3>2, LoadedIs DEF LoadedShare
    <3> QED
      BY <1>1, <3>3, HeldAre DEF Registered
  <2>3. reg'.sys = DOMAIN sys' /\ reg'.share = DOMAIN share'
    BY <1>1 DEF Objects
  <2> QED
    BY <2>1, <2>2, <2>3, FollowAnew DEF SysFollow, ShareFollow
<1>2. ASSUME ~ShareReads, share' = DecodedShare, UNCHANGED <<sys, reg>>
      PROVE  SysFollow /\ (ShareFollow \/ ShareMoves)
  <2>1. CASE shareFile.parts < Amid
    <3>1. share' = Dropped(share)
      BY <1>0, <1>2, <2>1, DecodedShareIs
    <3>2. \A v \in DOMAIN share' : share'[v] = share[v]
      BY <3>1, DroppedIs
    <3> QED
      BY <1>2, <3>2, FollowKept, Unmoved DEF ShareFollow
  <2>2. CASE ~(shareFile.parts < Amid)
    <3>1. \A v \in (DOMAIN share \cap DOMAIN share') \ Replaced(share, shareFile.ints) : share'[v].held = share[v].held
      BY <1>0, <1>2, <2>2, DecodedShareIs
    <3>2. shareFile.parts = Amid
      <4>1. shareFile.parts \in 0..Parts
        BY <2>2, ShareFileIs DEF ShareFiles
      <4> QED
        BY <1>2, <2>2, <4>1 DEF ShareReads, Amid, Parts
    <3>3. (DOMAIN share' \cap Live(reg.share, share)) \ Live(reg.share, share') \subseteq Replaced(share, shareFile.ints)
      BY <3>1, FollowBut
    <3>4. ShareLost \subseteq Replaced(share, shareFile.ints)
      BY <1>2, <3>3 DEF ShareLost
    <3> QED
      BY <1>2, <3>2, <3>4, Unmoved DEF ShareMoves
  <2> QED
    BY <2>1, <2>2
<1> QED
  BY <1>1, <1>2 DEF LoadShare

LEMMA SavesFollow ==
  ASSUME IInv, Saves \/ Shares
  PROVE  (SysFollow \/ SysMoves) /\ (ShareFollow \/ ShareMoves)
<1>1. Breaks => SysFollow /\ ShareFollow
  BY Unmoved DEF Breaks
<1>2. ASSUME NEW s \in Slots, LoadFromTitle(s) PROVE SysMoves /\ ShareFollow
  BY <1>2, NothingFollows, Unmoved DEF LoadFromTitle, Ends, SysMoves
<1>3. ASSUME NEW s \in Slots, SaveSystem(s) PROVE SysFollow /\ ShareFollow
  BY <1>3, Unmoved DEF SaveSystem
<1>4. ASSUME NEW s \in Slots, NEW p, NEW cut, SaveBreaks(s, p, cut) PROVE SysFollow /\ ShareFollow
  BY <1>1, <1>4 DEF SaveBreaks
<1>5. ASSUME NEW p, NEW cut, SaveShareBreaks(p, cut) PROVE SysFollow /\ ShareFollow
  BY <1>1, <1>5 DEF SaveShareBreaks
<1>6. SaveShare => SysFollow /\ ShareFollow
  BY Unmoved DEF SaveShare
<1> QED
  BY <1>2, <1>3, <1>4, <1>5, <1>6, LoadSystemFollows, LoadShareFollows DEF Saves, Shares

LEMMA NextFollows ==
  ASSUME IInv, [Next]_vars
  PROVE  (SysFollow \/ SysMoves) /\ (ShareFollow \/ ShareMoves)
<1>1. ASSUME NEW d \in DOMAIN Dbs, Boot(d) PROVE SysFollow /\ ShareFollow
  <2>1. reg.sys = {} /\ reg.share = {}
    BY <1>1 DEF Boot, IInv, GameInv, HasGame
  <2> QED
    BY <2>1 DEF SysFollow, ShareFollow, Follow, Live
<1>2. Shutdown \/ Restart => SysFollow /\ ShareFollow
  BY NothingFollows DEF Shutdown, Restart, Ends
<1>3. UNCHANGED vars => SysFollow /\ ShareFollow
  BY Unmoved DEF vars, data
<1> QED
  BY <1>1, <1>2, <1>3, ScriptsFollow, SavesFollow DEF Next

\* For all data bases, files and runs of loads, saves and restarts: an object that reached the
\* array of a variable reaches the one the game uses after every step that leaves the game the
\* variable, but for a load from the title, which makes no objects for the variables of scope
\* System, and for the arrays that a load which fails amid the variables has put in the place of
\* smaller ones (era_functions.go:228, :272; scene_save_load_game.go:38).
THEOREM HandlesAlwaysFollow == Spec => HandlesFollow
<1> DEFINE A == /\ LET lost == (DOMAIN sys' \cap Live(reg.sys, sys)) \ Live(reg.sys, sys)'
                   IN lost # {} => \E s \in Slots : LoadFromTitle(s) \/ (FailsAmid(s) /\ lost \subseteq Replaced(sys, file[s].ints))
                /\ LET lost == (DOMAIN share' \cap Live(reg.share, share)) \ Live(reg.share, share)'
                   IN lost # {} => shareFile.parts = Amid /\ LoadShare /\ lost \subseteq Replaced(share, shareFile.ints)
<1>1. ASSUME IInv, [Next]_vars PROVE A
  <2>1. (SysFollow \/ SysMoves) /\ (ShareFollow \/ ShareMoves)
    BY <1>1, NextFollows
  <2>2. /\ (DOMAIN sys' \cap Live(reg.sys, sys)) \ Live(reg.sys, sys)' = SysLost
        /\ (DOMAIN share' \cap Live(reg.share, share)) \ Live(reg.share, share)' = ShareLost
    BY DEF SysLost, ShareLost, Live
  <2>3. (SysFollow => SysLost = {}) /\ (ShareFollow => ShareLost = {})
    BY DEF SysFollow, ShareFollow, Follow, SysLost, ShareLost
  <2> QED
    BY <2>1, <2>2, <2>3 DEF SysMoves, ShareMoves
<1>2. IInv /\ [Next]_vars => [A]_vars
  BY <1>1
<1>3. [][A]_vars => HandlesFollow
  BY PTL DEF HandlesFollow
<1> HIDE DEF A
<1> QED
  BY Invariance, <1>2, <1>3, PTL DEF Spec

=============================================================================
