------------------------------ MODULE CsvTables ------------------------------
(***************************************************************************)
(* The data base a game reads from its CSV files (state/csv): tables of    *)
(* names with the fields of their own, the variables it declares, whose    *)
(* sizes come from the tables, and the characters it defines.  Reading     *)
(* never waits, so it is a set of functions of a data base `db':           *)
(*   tables  the rows of each file, [index, name, price]                   *)
(*   specs   the rows of VariableSpec.csv, [name, scope, file, size]       *)
(*   charas  the files of characters, [id, sets], sets being rows          *)
(*           [var, name, index, val]: `name' is Blank where the row says a *)
(*           number                                                        *)
(* Positions of arrays count from 0 in the code and from 1 in sequences.   *)
(***************************************************************************)
EXTENDS Integers, Sequences, FiniteSets, FiniteSetsExt, TLC

\* the name in a row without one, and the file of a variable that has none
Blank == ""

\* builtinVSpecs: those whose data differ.  Param, Juel, Talent, Mark and Exp are like
\* Abl; no data are kept for Train and Source.
Builtin == [v \in {"Item", "ItemStock", "Money", "Abl"} |->
              [scope |-> IF v = "Abl" THEN "Chara" ELSE "System",
               file  |-> CASE v = "Abl" -> "Abl.csv" [] v = "Money" -> Blank [] OTHER -> "Item.csv"]]

\* the sizes that builtinVSpecs is compiled with
CompiledSizes == [v \in DOMAIN Builtin |-> IF v = "Money" THEN 1 ELSE 0]

\* what the rows of the files hold
Row == [index : Int, name : STRING, price : Int]
SpecRow == [name : STRING, scope : {"System", "Share", "Chara"}, file : STRING, size : Nat]
SetRow == [var : STRING, name : STRING, index : Int, val : Int]
CharaFile == [id : Int, sets : Seq(SetRow)]
IsTable(rows) == rows \in Seq(Row)

(***************************************************************************)
(* A table of names.                                                       *)
(***************************************************************************)
MaxIndex(rows) == Max({0} \cup {rows[k].index : k \in DOMAIN rows})

RowsAt(rows, i) == {k \in DOMAIN rows : rows[k].index = i}

\* a number below zero, or a second row for one that has a name
RefusesRows(rows) == \E k \in DOMAIN rows :
                       \/ rows[k].index < 0
                       \/ \E j \in 1..(k - 1) : rows[j].index = rows[k].index /\ rows[j].name # Blank

Names(rows) == [i \in 1..(MaxIndex(rows) + 1) |->
                  IF RowsAt(rows, i - 1) = {} THEN Blank ELSE rows[Max(RowsAt(rows, i - 1))].name]

\* the field of the rows, for as many as there are names; 0 where no row is
Prices(rows) == [i \in DOMAIN Names(rows) |->
                   IF RowsAt(rows, i - 1) = {} THEN 0 ELSE rows[Max(RowsAt(rows, i - 1))].price]

\* NameIndex.GetIndex: -1 for a name the table does not have
IndexOf(names, n) == IF \E i \in DOMAIN names : names[i] = n /\ n # Blank
                     THEN Max({i \in DOMAIN names : names[i] = n}) - 1 ELSE -1

(***************************************************************************)
(* The variables.                                                          *)
(***************************************************************************)
SpecAt(db, v) == db.specs[CHOOSE k \in DOMAIN db.specs : db.specs[k].name = v]

RefusesSpecs(db) == \E k \in DOMAIN db.specs :
                      \/ db.specs[k].name \in DOMAIN Builtin
                      \/ \E j \in 1..(k - 1) : db.specs[j].name = db.specs[k].name

Variables(db) == DOMAIN Builtin \cup {db.specs[k].name : k \in DOMAIN db.specs}
Scope(db, v) == IF v \in DOMAIN Builtin THEN Builtin[v].scope ELSE SpecAt(db, v).scope
File(db, v)  == IF v \in DOMAIN Builtin THEN Builtin[v].file ELSE SpecAt(db, v).file
InScope(db, s) == {v \in Variables(db) : Scope(db, v) = s}

\* CsvManager.constants: the variables that have a table
Constants(db) == {v \in Variables(db) : File(db, v) # Blank}
NamesOf(db, v) == IF v \in Constants(db) THEN Names(db.tables[File(db, v)]) ELSE << >>

\* Initialize fits the sizes that are not set to the tables.  Those of the builtin
\* variables are in slices that all data bases of the process share.
Declared(db, sizes, v) == IF v \in DOMAIN Builtin THEN sizes[v] ELSE SpecAt(db, v).size

Sizes(db, sizes) == [v \in Variables(db) |->
                       IF Declared(db, sizes, v) > 0 THEN Declared(db, sizes, v) ELSE Len(NamesOf(db, v))]

Zeros(n) == [i \in 1..n |-> 0]

(***************************************************************************)
(* The characters.                                                         *)
(***************************************************************************)
\* where a row of a character's file sets: the name's place, or the number's
Place(db, row) == LET named == IndexOf(NamesOf(db, row.var), row.name)
                  IN IF named < 0 THEN row.index ELSE named

RefusesSet(db, size, row) == \/ row.var \notin InScope(db, "Chara")
                             \/ row.name # Blank /\ IndexOf(NamesOf(db, row.var), row.name) < 0
                             \/ Place(db, row) \notin 0..(size[row.var] - 1)

RefusesCharas(db, size) == \E k \in DOMAIN db.charas :
                             \/ db.charas[k].id < 0
                             \/ \E j \in 1..(k - 1) : db.charas[j].id = db.charas[k].id
                             \/ \E r \in DOMAIN db.charas[k].sets : RefusesSet(db, size, db.charas[k].sets[r])

CharaIds(db) == {db.charas[k].id : k \in DOMAIN db.charas}

\* the variables a new character of this id starts with
InitialVars(db, size, id) ==
  LET sets == db.charas[CHOOSE k \in DOMAIN db.charas : db.charas[k].id = id].sets
      RowsFor(v, i) == {r \in DOMAIN sets : sets[r].var = v /\ Place(db, sets[r]) = i - 1}
  IN [v \in InScope(db, "Chara") |->
        [i \in 1..size[v] |-> IF RowsFor(v, i) = {} THEN 0 ELSE sets[Max(RowsFor(v, i))].val]]

(***************************************************************************)
(* Initialize.  An index below zero panics, the others are errors; none is *)
(* a game.                                                                 *)
(***************************************************************************)
RefusesTables(db) == \/ RefusesSpecs(db)
                     \/ \E v \in Constants(db) : RefusesRows(db.tables[File(db, v)])

\* what the files are read as, accepted or not
IsDataBase(db) == /\ \A f \in DOMAIN db.tables : IsTable(db.tables[f])
                  /\ \A v \in Constants(db) : File(db, v) \in DOMAIN db.tables
                  /\ db.specs \in Seq(SpecRow) /\ db.charas \in Seq(CharaFile)

(***************************************************************************)
(* What a script reads: era.csv.X[i], era.csvindex.X[n] and                *)
(* era.csvfields.X.price[i]; None stands for the error that is raised.     *)
(***************************************************************************)
None == "none"
CsvName(rows, i)  == IF i + 1 \in DOMAIN Names(rows) THEN Names(rows)[i + 1] ELSE None
CsvIndex(rows, n) == IF IndexOf(Names(rows), n) < 0 THEN None ELSE IndexOf(Names(rows), n)
CsvField(rows, i) == IF i + 1 \in DOMAIN Prices(rows) THEN Prices(rows)[i + 1] ELSE None

\* what the table says of each row that no later one repeats, and of nothing else
TableIsRows(rows) ==
  /\ \A k \in DOMAIN rows : k = Max(RowsAt(rows, rows[k].index)) =>
       /\ CsvName(rows, rows[k].index) = rows[k].name
       /\ CsvField(rows, rows[k].index) = rows[k].price
       /\ rows[k].name # Blank => CsvName(rows, CsvIndex(rows, rows[k].name)) = rows[k].name
  /\ \A i \in DOMAIN Names(rows) :
       RowsAt(rows, i - 1) = {} => CsvName(rows, i - 1) = Blank /\ CsvField(rows, i - 1) = 0

(***************************************************************************)
(* A parameter object is a part of an array: where it starts, its length,  *)
(* and the position in it that it gives to each name (its indexer), -1 for *)
(* none.  A slice of it is another part of the same array, and takes the   *)
(* names with it (LimitedRangeNameIndexer).                                *)
(***************************************************************************)
NewParam(vals, index) == [at |-> 0, len |-> Len(vals), index |-> index]

\* the object of a variable, with the names of its table
GetInt(vals, names) == NewParam(vals, [n \in {names[i] : i \in DOMAIN names} |-> IndexOf(names, n)])

Shifted(i, from, to) == IF i \in from..(to - 1) THEN i - from ELSE -1

Slice(p, from, to) == [at |-> p.at + from, len |-> to - from,
                       index |-> [n \in DOMAIN p.index |-> Shifted(p.index[n], from, to)]]

\* by the number of a script, checked, or by a name, which is not: one that the indexer
\* puts outside panics
GetAt(vals, p, i) == IF i \in 0..(p.len - 1) THEN vals[p.at + i + 1] ELSE None
GetByStr(vals, p, n) == CASE p.index[n] < 0      -> None
                          [] p.index[n] >= p.len -> "panic"
                          [] OTHER               -> vals[p.at + p.index[n] + 1]
SetByStr(vals, p, n, x) == CASE p.index[n] < 0      -> vals
                             [] p.index[n] >= p.len -> << >>
                             [] OTHER               -> [vals EXCEPT ![p.at + p.index[n] + 1] = x]
Fill(vals, p, x) == [i \in DOMAIN vals |-> IF i - p.at \in 1..p.len THEN x ELSE vals[i]]

\* a part agrees with the whole on what its numbers and its names mean
PartAgrees(vals, names, whole, p) ==
  /\ \A i \in 0..(p.len - 1) : GetAt(vals, p, i) = vals[p.at + i + 1]
  /\ \A n \in DOMAIN p.index \ {Blank} :
       IF IndexOf(names, n) \in p.at..(p.at + p.len - 1)
         THEN /\ GetByStr(vals, p, n) = GetByStr(vals, whole, n)
              /\ GetByStr(vals, p, n) = GetAt(vals, p, p.index[n])
              /\ SetByStr(vals, p, n, None) = SetByStr(vals, whole, n, None)
         ELSE GetByStr(vals, p, n) = None /\ SetByStr(vals, p, n, None) = vals
  /\ \A i \in DOMAIN vals : Fill(vals, p, None)[i] = IF i \in (p.at + 1)..(p.at + p.len) THEN None ELSE vals[i]

SlicesAgree(names) ==
  LET n0    == Len(names)
      vals  == [i \in 1..n0 |-> ToString(i)]
      whole == GetInt(vals, names)
  IN \A from \in 0..n0 : \A to \in from..n0 :
       /\ PartAgrees(vals, names, whole, Slice(whole, from, to))
       /\ \A sub \in 0..(to - from) : \A end \in sub..(to - from) :
            PartAgrees(vals, names, whole, Slice(Slice(whole, from, to), sub, end))
=============================================================================
