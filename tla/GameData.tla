------------------------------ MODULE GameData ------------------------------
(***************************************************************************)
(* The data of a game (state.GameState): the variables of scopes System    *)
(* and Share, the list of characters, the references to them, the files    *)
(* they are saved to, and the objects by which the script reaches them.    *)
(* A game is made from a data base of CSV files; a save file outlives it   *)
(* and may be loaded under another version of the data base.               *)
(*                                                                         *)
(* Decoding writes into what is there: an array keeps its place in memory  *)
(* when the one loaded fits into its capacity, a key the file lacks keeps  *)
(* its value.  The object that the script holds for a variable is a view   *)
(* of the array it was made for, hence `held': whether that is the array   *)
(* the game uses now.  One reference list stands for the four.             *)
(***************************************************************************)
EXTENDS CsvTables

CONSTANTS
  Dbs,       \* data bases by name, the versions of a game
  Rows,      \* tables to read, for TablesAreRows
  Slots,     \* numbers of save files
  Cuts,      \* bound of where a write breaks off amid the variables
  Values,    \* what a script writes into a variable
  MaxUid,    \* bound of the characters made in a game and the games it descends from
  MaxOps     \* bound of the operations of scripts in a behaviour

ASSUME DataAssumption ==
  /\ DOMAIN Dbs # {} /\ \A d \in DOMAIN Dbs : IsDataBase(Dbs[d])
  /\ \A rows \in Rows : IsTable(rows)
  /\ \A c \in Cuts : c.whole \subseteq STRING /\ c.upTo \in Nat
  /\ Values \subseteq Int /\ MaxUid \in Nat /\ MaxOps \in Nat

VARIABLES
  builtin,   \* the sizes of the builtin variables, shared by the games of a process
  phase,     \* "off", "play" or "panic"
  csv, size, \* the data base of the game and the sizes it gave the variables
  sys,       \* variable -> [vals, cap, held], UserVariables.IntMap of SystemData
  share,     \* the same for ShareData
  reg,       \* the variables that the tables era.system and era.share have an object for
  list,      \* Characters.List: [id, uid, vars]
  spare,     \* vars of the characters that are left behind the list in its array, << >> for nil
  count,     \* Characters.CountNewChara
  refs,      \* CharaReferences.Indexes
  comment,   \* SaveInfo.SaveComment: "short", or "long" for more than MetaTitleLimit
  file,      \* slot -> save file
  shareFile, \* share.sav
  mixed,     \* whether a load has failed midway since the data were whole: [sys, share]
  ops

data == <<size, sys, share, reg, list, spare, count, refs, comment, mixed>>
saved == <<file, shareFile>>
vars == <<builtin, phase, csv, data, saved, ops>>

db == Dbs[csv]
ScopedVars == [d \in DOMAIN Dbs |-> [s \in {"System", "Share", "Chara"} |-> InScope(Dbs[d], s)]]
SysVars == ScopedVars[csv]["System"]
ShareVars == ScopedVars[csv]["Share"]
CharaVariables == ScopedVars[csv]["Chara"]
Tabled == [d \in DOMAIN Dbs |-> Constants(Dbs[d])]
Playing == phase = "play" /\ ops < MaxOps

\* the two tables are made together
Objects(system, shared) == [sys |-> DOMAIN system, share |-> DOMAIN shared]

(***************************************************************************)
(* Files.  A write truncates the file and goes on in the order of the      *)
(* parts: nothing, the header, the characters, the references, the         *)
(* variables.  A Go map has no order of its own, so a write that breaks    *)
(* off amid the variables has written any of them, and one by half.  One   *)
(* that breaks off amid an earlier part is taken to break off before it:   *)
(* the load of either fails, and of the data it leaves nothing is said.    *)
(***************************************************************************)
Parts == 4
Amid == Parts - 1
NoFile == [parts |-> -1]
Values1(m) == [v \in DOMAIN m |-> m[v].vals]

\* the arrays that a write has written when it breaks off, and the one it was at
Ints(m, p, cut) == CASE p = Parts -> Values1(m)
                     [] p = Amid  -> [v \in DOMAIN m \cap cut.whole |-> m[v].vals]
                     [] OTHER     -> << >>
Half(m, p, cut) == IF p # Amid THEN << >>
                   ELSE [v \in (DOMAIN m \cap {cut.at}) \ cut.whole |->
                           [len |-> Len(m[v].vals), vals |-> SubSeq(m[v].vals, 1, Min({cut.upTo, Len(m[v].vals)}))]]

Written(p, cut) == [parts |-> p, title |-> comment, mixed |-> mixed.sys,
                    list  |-> IF p > 1 THEN list ELSE << >>, count |-> IF p > 1 THEN count ELSE 0,
                    refs  |-> IF p > 2 THEN refs ELSE << >>,
                    ints  |-> Ints(sys, p, cut), half |-> Half(sys, p, cut)]

\* share.sav has the header and the variables
WrittenShare(p, cut) == [parts |-> p, ints |-> Ints(share, p, cut), half |-> Half(share, p, cut)]
NoCut == [whole |-> {}, at |-> Blank, upTo |-> 0]

(***************************************************************************)
(* The game starts and ends.                                               *)
(***************************************************************************)
Array(n) == [vals |-> Zeros(n), cap |-> n, held |-> TRUE]

Whole == [sys |-> FALSE, share |-> FALSE]

Init ==
  /\ builtin = CompiledSizes /\ phase = "off" /\ csv = CHOOSE d \in DOMAIN Dbs : TRUE
  /\ size = << >> /\ sys = << >> /\ share = << >> /\ reg = Objects(sys, share) /\ list = << >> /\ spare = << >> /\ count = 0
  /\ refs = << >> /\ comment = "short" /\ file = [s \in Slots |-> NoFile] /\ shareFile = NoFile
  /\ mixed = Whole /\ ops = 0

\* the shared slices take the sizes that a table gave them
Fitted(sizes) == [v \in DOMAIN Builtin |-> sizes[v]]

NewVars(d, sizes, scope) == [v \in ScopedVars[d][scope] |-> Array(sizes[v])]
NewData(d, sizes) ==
     /\ size' = sizes
     /\ sys' = NewVars(d, sizes, "System") /\ share' = NewVars(d, sizes, "Share")
     /\ reg' = Objects(sys', share')
     /\ list' = << >> /\ spare' = << >> /\ count' = 0
     /\ refs' = [i \in 1..Cardinality(CharaIds(Dbs[d])) |-> 0]
     /\ comment' = "short" /\ mixed' = Whole

\* Initialize, NewGameState and NewInterpreter; a data base that is refused is no game,
\* but its tables have set the sizes when it is for its characters
Boot(d) ==
  LET sizes == Sizes(Dbs[d], builtin)
  IN /\ phase = "off" /\ ~RefusesTables(Dbs[d])
     /\ builtin' = Fitted(sizes)
     /\ IF RefusesCharas(Dbs[d], sizes)
          THEN UNCHANGED <<phase, csv, data, ops>>
          ELSE phase' = "play" /\ csv' = d /\ NewData(d, sizes) /\ UNCHANGED ops
     /\ UNCHANGED saved

NoData == /\ size' = << >> /\ sys' = << >> /\ share' = << >> /\ reg' = Objects(sys', share')
          /\ list' = << >> /\ spare' = << >> /\ count' = 0 /\ refs' = << >> /\ comment' = "short" /\ mixed' = Whole

\* the game ends; the process may start another one (the mobile application does)
Ends == phase' = "off" /\ NoData /\ UNCHANGED <<builtin, csv, saved, ops>>
Shutdown == phase # "off" /\ Ends

\* the process ends, or is killed, and another one starts
Restart == /\ phase # "off" \/ builtin # CompiledSizes
           /\ phase' = "off" /\ builtin' = CompiledSizes /\ NoData /\ UNCHANGED <<csv, saved, ops>>

(***************************************************************************)
(* The script changes variables and characters.                            *)
(***************************************************************************)
Did == ops' = ops + 1 /\ UNCHANGED <<builtin, phase, csv, size>>

\* what is written through a view of another array is seen by nobody else
WriteVar(v, i, x) ==
  /\ Playing /\ v \in reg.sys /\ v \in DOMAIN sys /\ sys[v].held /\ i \in DOMAIN sys[v].vals
  /\ sys' = [sys EXCEPT ![v].vals[i] = x]
  /\ Did /\ UNCHANGED <<share, reg, list, spare, count, refs, comment, mixed, saved>>
WriteShared(v, i, x) ==
  /\ Playing /\ v \in reg.share /\ v \in DOMAIN share /\ share[v].held /\ i \in DOMAIN share[v].vals
  /\ share' = [share EXCEPT ![v].vals[i] = x]
  /\ Did /\ UNCHANGED <<sys, reg, list, spare, count, refs, comment, mixed, saved>>

\* (mutant) the uid is the position in the list
UidOfPosition(n) == Len(list) + n

NextUid(n) == count + n
ZeroVars == [v \in CharaVariables |-> Zeros(size[v])]
AppendAll(new) ==
  /\ Playing /\ count + Len(new) <= MaxUid
  /\ spare' = SubSeq(spare, Len(new) + 1, Len(spare))
  /\ list' = list \o [n \in DOMAIN new |-> [id |-> new[n].id, uid |-> NextUid(n), vars |-> new[n].vars]]
  /\ count' = count + Len(new)
  /\ Did /\ UNCHANGED <<sys, share, reg, refs, comment, mixed, saved>>

\* the first number that is none of a character raises an error; those before it stay
KnownOf(ids) == SubSeq(ids, 1, Min({n \in 0..Len(ids) : n = Len(ids) \/ ids[n + 1] \notin CharaIds(db)}))
AddCharas(ids) ==
  LET known == KnownOf(ids)
  IN known # << >> /\ AppendAll([n \in DOMAIN known |-> [id |-> known[n], vars |-> InitialVars(db, size, known[n])]])
AddEmpty == AppendAll(<< [id |-> -1, vars |-> ZeroVars] >>)

InRange(k) == k \in DOMAIN list
WriteChara(k, v, i, x) ==
  /\ Playing /\ InRange(k) /\ v \in DOMAIN list[k].vars /\ i \in DOMAIN list[k].vars[v]
  /\ list' = [list EXCEPT ![k].vars[v][i] = x]
  /\ Did /\ UNCHANGED <<sys, share, reg, spare, count, refs, comment, mixed, saved>>

RemoveChara(k) ==
  /\ Playing /\ InRange(k)
  /\ list' = SubSeq(list, 1, k - 1) \o SubSeq(list, k + 1, Len(list)) /\ spare' = << << >> >> \o spare
  /\ Did /\ UNCHANGED <<sys, share, reg, count, refs, comment, mixed, saved>>

ClearCharas ==
  /\ Playing /\ list # << >> /\ list' = << >> /\ spare' = << >>
  /\ Did /\ UNCHANGED <<sys, share, reg, count, refs, comment, mixed, saved>>

\* the reference is the first position with the uid of the character
IndexByUid(uid) == Min({k \in DOMAIN list : list[k].uid = uid}) - 1
RefExists(i) == i \in DOMAIN refs
SetRef(i, k) ==
  /\ Playing /\ RefExists(i) /\ InRange(k)
  /\ refs' = [refs EXCEPT ![i] = IndexByUid(list[k].uid)]
  /\ Did /\ UNCHANGED <<sys, share, reg, list, spare, count, comment, mixed, saved>>

First == 0
Zeroed(m) == [v \in DOMAIN m |-> [m[v] EXCEPT !.vals = Zeros(Len(m[v].vals))]]
ClearSystem ==
  /\ Playing
  /\ list' = << >> /\ spare' = << >> /\ refs' = [i \in DOMAIN refs |-> First]
  /\ sys' = Zeroed(sys)
  /\ Did /\ UNCHANGED <<share, reg, count, comment, mixed, saved>>

ClearShare ==
  /\ Playing /\ share' = Zeroed(share)
  /\ Did /\ UNCHANGED <<sys, reg, list, spare, count, refs, comment, mixed, saved>>

(***************************************************************************)
(* Saves.  A comment stays for the saves that come without one.            *)
(***************************************************************************)
SetComment(c) ==
  /\ Playing /\ comment' = c /\ c # comment
  /\ Did /\ UNCHANGED <<sys, share, reg, list, spare, count, refs, mixed, saved>>

SaveSystem(s) ==
  /\ Playing /\ file' = [file EXCEPT ![s] = Written(Parts, NoCut)]
  /\ Did /\ UNCHANGED <<sys, share, reg, list, spare, count, refs, comment, mixed, shareFile>>

SaveShare ==
  /\ Playing /\ shareFile' = WrittenShare(Parts, NoCut)
  /\ Did /\ UNCHANGED <<sys, share, reg, list, spare, count, refs, comment, mixed, file>>

\* the write fails and the script gets an error; the process may die with it, by Restart
Breaks == Did /\ UNCHANGED <<sys, share, reg, list, spare, count, refs, comment, mixed>>
SaveBreaks(s, p, cut) ==
  Playing /\ file' = [file EXCEPT ![s] = Written(p, cut)] /\ Breaks /\ UNCHANGED shareFile
SaveShareBreaks(p, cut) ==
  Playing /\ shareFile' = WrittenShare(p, cut) /\ Breaks /\ UNCHANGED file

(***************************************************************************)
(* Loads.                                                                  *)
(***************************************************************************)
\* UserVariables.dropExtra: variables without a table go, loaded ones of an older
\* data base and those of this one that name no file alike
Dropped(m) == [v \in DOMAIN m \cap Tabled[csv] |-> m[v]]

\* an array of the file goes into the one that is there, or into one of its own
Decoded(old, vals) == IF Len(vals) <= old.cap THEN [old EXCEPT !.vals = vals]
                      ELSE [vals |-> vals, cap |-> Len(vals), held |-> FALSE]

\* the array that the file is cut in is decoded as far as it goes, when it goes into the one that is there
Overwritten(m, half) ==
  [v \in DOMAIN m |-> IF v \in DOMAIN half /\ half[v].len <= m[v].cap
                     THEN [m[v] EXCEPT !.vals = [i \in DOMAIN @ |-> IF i \in DOMAIN half[v].vals THEN half[v].vals[i] ELSE @[i]]]
                     ELSE m[v]]
Fresh(vals) == [vals |-> vals, cap |-> Len(vals), held |-> FALSE]
DecodedAll(old, ints) ==
  [v \in DOMAIN old \cup DOMAIN ints |->
     CASE v \notin DOMAIN ints -> old[v]
       [] v \notin DOMAIN old  -> Fresh(ints[v])
       [] OTHER                -> Decoded(old[v], ints[v])]

\* values cut or extended to a size, by those of `tail' from the same place on
Fit(vals, n, tail) == [i \in 1..n |-> IF i \in DOMAIN vals THEN vals[i] ELSE tail[i]]

\* UserVariables.refine: every variable of the data base, in its size
Refit(a, n) == IF n <= a.cap THEN [a EXCEPT !.vals = Fit(@, n, Zeros(n))] ELSE Fresh(Fit(a.vals, n, Zeros(n)))
Refined(m, specs) == [v \in DOMAIN m \cup specs |->
                 CASE v \notin specs    -> m[v]
                   [] v \notin DOMAIN m -> Fresh(Zeros(size[v]))
                   [] OTHER             -> Refit(m[v], size[v])]

\* a character of the file goes into the one at its position in the array of the list, which
\* has room for all (its capacity is 16 at least; that it is copied to grow or shrink is left out)
InPlace == [k \in DOMAIN list |-> Dropped(list[k].vars)] \o spare
Merged(k, c) ==
  LET live == IF k \in DOMAIN InPlace THEN InPlace[k] ELSE << >>
  IN [v \in DOMAIN live \cup DOMAIN c.vars |-> IF v \in DOMAIN c.vars THEN c.vars[v] ELSE live[v]]
DecodedList(f) == [k \in DOMAIN f.list |-> [f.list[k] EXCEPT !.vars = Merged(k, f.list[k])]]
Left(f) == SubSeq(InPlace, Len(f.list) + 1, Len(InPlace))

\* refine, or refineByCsvChara
StartVars(id) == IF id \in CharaIds(db) THEN InitialVars(db, size, id) ELSE ZeroVars
CharaVars(c) ==
  LET start == StartVars(c.id)
  IN [v \in DOMAIN c.vars \cup DOMAIN start |->
        IF v \notin DOMAIN start THEN c.vars[v]
        ELSE Fit(IF v \in DOMAIN c.vars THEN c.vars[v] ELSE << >>, size[v], start[v])]
RefinedList(l) == [k \in DOMAIN l |-> [l[k] EXCEPT !.vars = CharaVars(l[k])]]

\* SystemData.dropExtra
DroppedList == [k \in DOMAIN list |-> [list[k] EXCEPT !.vars = Dropped(list[k].vars)]]

\* (mutant) the count goes on from the one of the game that was played
CountGoesOn(f) == count
LoadedCount(f) == f.count

(***************************************************************************)
(* After a comment that is too long the decoder starts in the rest of the  *)
(* comment, and refuses it unless that looks like an empty map.            *)
(***************************************************************************)
Reads(f) == f.parts = Parts /\ f.title = "short"
Skips(f) == f.parts > 0 /\ f.title = "long"

LoadedSys(f) == Refined(DecodedAll(Dropped(sys), f.ints), SysVars)

Held(m) == [v \in DOMAIN m |-> [m[v] EXCEPT !.held = TRUE]]

\* (mutant) the objects of the script are not made anew
NotRegistered(m, anew) == m

Registered(m, anew) == IF anew THEN Held(m) ELSE m

Loads(f, anew) ==
  \/ /\ Reads(f) /\ sys' = Registered(LoadedSys(f), anew) /\ list' = RefinedList(DecodedList(f))
     /\ spare' = Left(f) /\ count' = LoadedCount(f) /\ refs' = f.refs /\ mixed' = [mixed EXCEPT !.sys = f.mixed]
  \/ /\ Skips(f) /\ sys' = Registered(Refined(Dropped(sys), SysVars), anew)
     /\ list' = RefinedList(DroppedList) /\ UNCHANGED <<spare, count, refs, mixed>>

\* what has been decoded by then stays, and nothing is put right
DecodedSys(f) == IF f.parts < Amid \/ f.title = "long" THEN Dropped(sys)
                 ELSE Overwritten(DecodedAll(Dropped(sys), f.ints), f.half)
LoadFails(f) ==
  /\ ~Reads(f)
  /\ sys' = DecodedSys(f) /\ mixed' = [mixed EXCEPT !.sys = TRUE]
  /\ IF f.parts > 1 /\ f.title = "short"
       THEN list' = DecodedList(f) /\ spare' = Left(f) /\ count' = f.count
       ELSE list' = DroppedList /\ UNCHANGED <<spare, count>>
  /\ IF f.parts > 2 /\ f.title = "short" THEN refs' = f.refs ELSE UNCHANGED refs

\* era.loadSystem, and the load scene that a script asks for: objects are made anew
LoadSystem(s) ==
  /\ Playing
  /\ \/ Loads(file[s], TRUE) /\ share' = Held(share) /\ reg' = Objects(sys', share')
     \/ LoadFails(file[s]) /\ UNCHANGED <<share, reg>>
  /\ Did /\ UNCHANGED <<comment, saved>>

\* the load scene that the title leads to leaves the objects; an error ends the game
LoadFromTitle(s) ==
  /\ Playing /\ file[s] # NoFile
  /\ \/ Loads(file[s], FALSE) /\ Did /\ UNCHANGED <<share, reg, comment, saved>>
     \/ ~Reads(file[s]) /\ Ends

ShareReads == shareFile.parts = Parts
LoadedShare == Refined(DecodedAll(Dropped(share), shareFile.ints), ShareVars)

DecodedShare == IF shareFile.parts < Amid THEN Dropped(share)
                ELSE Overwritten(DecodedAll(Dropped(share), shareFile.ints), shareFile.half)

\* era.loadShare makes the objects of the system's variables anew as well
LoadShare ==
  /\ Playing
  /\ IF ShareReads
       THEN /\ share' = Registered(LoadedShare, TRUE) /\ mixed' = [mixed EXCEPT !.share = FALSE]
            /\ sys' = Registered(sys, TRUE) /\ reg' = Objects(sys', share')
       ELSE /\ share' = DecodedShare /\ mixed' = [mixed EXCEPT !.share = @ \/ shareFile.parts = Amid]
            /\ UNCHANGED <<sys, reg>>
  /\ Did /\ UNCHANGED <<list, spare, count, refs, comment, saved>>

(***************************************************************************)
(* The shop: the stock says what may be bought, the table its price.       *)
(***************************************************************************)
ItemPrices == Prices(db.tables["Item.csv"])
ValuesOf(v) == IF v \in DOMAIN sys THEN sys[v].vals ELSE << >>

\* that there are never more than 2^63 - 1 of an item is left out
Offers(i) == i \in DOMAIN ValuesOf("ItemStock") /\ ValuesOf("ItemStock")[i] > 0
Buy(i) ==
  /\ Playing /\ Offers(i)
  /\ IF i \notin DOMAIN ItemPrices \cap DOMAIN ValuesOf("Item") \/ ValuesOf("Money") = << >>
       THEN phase' = "panic" /\ UNCHANGED <<builtin, csv, data, saved, ops>>
       ELSE /\ sys["Money"].vals[1] >= ItemPrices[i]
            /\ sys' = [sys EXCEPT !["Money"].vals[1] = @ - ItemPrices[i], !["Item"].vals[i] = @ + 1]
            /\ Did /\ UNCHANGED <<share, reg, list, spare, count, refs, comment, mixed, saved>>

(***************************************************************************)
(* The specification.                                                      *)
(***************************************************************************)
Positions == 1..2
NoId == 9
Ids == {NoId} \cup UNION {CharaIds(Dbs[d]) : d \in DOMAIN Dbs}
Characters == \/ \E id \in Ids, next \in {0, NoId} : AddCharas(<<id, next>>)
              \/ AddEmpty \/ ClearCharas
              \/ \E k \in 1..MaxUid : \/ RemoveChara(k)
                                      \/ \E i \in Positions : SetRef(i, k)
                                      \/ \E i \in Positions, x \in Values : WriteChara(k, "Abl", i, x)
Scripts == \/ \E v \in reg.sys \cup reg.share, i \in Positions, x \in Values : WriteVar(v, i, x) \/ WriteShared(v, i, x)
           \/ Characters \/ ClearSystem \/ ClearShare \/ (\E c \in {"short", "long"} : SetComment(c))
           \/ \E i \in Positions : Buy(i)
Saves == \E s \in Slots : \/ SaveSystem(s) \/ (\E p \in 0..(Amid - 1) : SaveBreaks(s, p, NoCut)) \/ (\E cut \in Cuts : SaveBreaks(s, Amid, cut))
                          \/ LoadSystem(s) \/ LoadFromTitle(s)
Shares == SaveShare \/ SaveShareBreaks(0, NoCut) \/ (\E cut \in Cuts : SaveShareBreaks(Amid, cut)) \/ LoadShare
Next == (\E d \in DOMAIN Dbs : Boot(d)) \/ Shutdown \/ Restart \/ Scripts \/ Saves \/ Shares
Spec == Init /\ [][Next]_vars

(***************************************************************************)
(* Properties.                                                             *)
(***************************************************************************)
\* The state is of the form that its variables say.
ArrayOK(a) == a.vals \in Seq(Int) /\ a.cap \in Nat /\ Len(a.vals) <= a.cap /\ a.held \in BOOLEAN
AllVariables == UNION {Variables(Dbs[d]) : d \in DOMAIN Dbs}
CharaOK(c) == c.id \in Ids \cup {-1} /\ c.uid \in 1..MaxUid /\ \A v \in DOMAIN c.vars : c.vars[v] \in Seq(Int)
SpareOK(m) == DOMAIN m \subseteq Tabled[csv] /\ \A v \in DOMAIN m : m[v] \in Seq(Int)
TypeOK ==
  /\ phase \in {"off", "play", "panic"} /\ csv \in DOMAIN Dbs /\ mixed \in [sys : BOOLEAN, share : BOOLEAN]
  /\ reg.sys \subseteq AllVariables /\ reg.share \subseteq AllVariables
  /\ \A v \in DOMAIN Builtin : builtin[v] \in Nat
  /\ \A v \in DOMAIN sys : ArrayOK(sys[v])
  /\ \A v \in DOMAIN share : ArrayOK(share[v])
  /\ \A k \in DOMAIN list : CharaOK(list[k])
  /\ \A k \in DOMAIN spare : SpareOK(spare[k])
  /\ count \in 0..MaxUid /\ refs \in Seq(Nat) /\ comment \in {"short", "long"} /\ ops \in 0..MaxOps

\* The code indexes variables by the tables of the data base without looking at their length
\* (shop, training, objects of scripts): whatever files of other versions were loaded, and wherever
\* the writes of those files were cut off, each variable is there in the size of the data base, unless
\* a load failed midway and the script went on (gamestate.go:244, :291; file.go:56, :93).
FitsTables ==
  /\ \A v \in DOMAIN share \cap ShareVars : phase = "play" /\ ~mixed.share => Len(share[v].vals) = size[v]
  /\ phase = "play" /\ ~mixed.sys =>
     /\ \A v \in SysVars : v \in DOMAIN sys /\ Len(sys[v].vals) = size[v]
     /\ \A k \in DOMAIN list : \A v \in CharaVariables : v \in DOMAIN list[k].vars /\ Len(list[k].vars[v]) = size[v]

\* A uid names one character, also among those that come after a load, a removal or a clear: the
\* count of all that were ever made goes with the file (chara.go:150, chara_reference.go:60).
UniqueUpTo(l, n) == \A j \in DOMAIN l : l[j].uid <= n /\ \A k \in DOMAIN l : l[j].uid = l[k].uid => j = k
UidsUnique == ~mixed.sys => UniqueUpTo(list, count)

\* The shop of a game ends in a panic only after a load that failed midway, or when the tables of
\* another data base, read before in the same process, have set the sizes (scene_title_shop.go:349).
ShopIsSafe == phase = "panic" => mixed.sys \/ size # Sizes(db, CompiledSizes)

\* A load gives the data that the same file gives to a game just started, whatever was played
\* before; only a variable that has a table and that the file lacks keeps its values
\* (decoding into live maps and lists: file.go:266, gamestate.go:52).
Kept(m, f) == (DOMAIN m \cap Tabled[csv]) \ DOMAIN f
FromFile(f, m, v) == CASE v \in DOMAIN f     -> f[v]
                       [] v \in Kept(m, f)   -> m[v].vals
                       [] OTHER               -> << >>
Took(new, old, f, specs) ==
  /\ DOMAIN new = specs \cup DOMAIN f \cup Kept(old, f)
  /\ \A v \in DOMAIN new : new[v].vals = IF v \in specs THEN Fit(FromFile(f, old, v), size[v], Zeros(size[v]))
                                         ELSE FromFile(f, old, v)
TookChara(new, c) ==
  /\ new.id = c.id /\ new.uid = c.uid
  /\ \A v \in CharaVariables : v \in DOMAIN c.vars \/ v \notin Tabled[csv] =>
       new.vars[v] = Fit(IF v \in DOMAIN c.vars THEN c.vars[v] ELSE << >>, size[v], StartVars(c.id)[v])
Restored(f) ==
  /\ Took(sys', sys, f.ints, SysVars)
  /\ count' = f.count /\ refs' = f.refs /\ Len(list') = Len(f.list)
  /\ \A k \in DOMAIN f.list : TookChara(list'[k], f.list[k])
LoadForgets == [][/\ \A s \in Slots : /\ Reads(file[s])
                                      /\ LoadSystem(s) \/ LoadFromTitle(s)
                                      => Restored(file[s]) /\ Values1(share') = Values1(share)
                  /\ ShareReads /\ LoadShare
                       => Took(share', share, shareFile.ints, ShareVars)]_vars

\* What the script writes through the objects it has been given is what the game uses, as long as
\* the game has the variable, until a load from the title, or one that fails amid the variables of the
\* file: that one has put an array that is larger in the place of another, and makes no objects anew
\* (era_functions.go:228, :272; scene_save_load_game.go:38).
Live(objects, m) == {v \in objects \cap DOMAIN m : m[v].held}
Replaced(m, ints) == {v \in DOMAIN ints : v \in DOMAIN Dropped(m) => Len(ints[v]) > m[v].cap}
FailsAmid(s) == file[s].parts = Amid /\ file[s].title = "short" /\ LoadSystem(s)
HandlesFollow ==
  [][/\ LET lost == (DOMAIN sys' \cap Live(reg.sys, sys)) \ Live(reg.sys, sys)'
        IN lost # {} => \E s \in Slots : LoadFromTitle(s) \/ (FailsAmid(s) /\ lost \subseteq Replaced(sys, file[s].ints))
     /\ LET lost == (DOMAIN share' \cap Live(reg.share, share)) \ Live(reg.share, share)'
        IN lost # {} => shareFile.parts = Amid /\ LoadShare /\ lost \subseteq Replaced(share, shareFile.ints)]_vars

\* A table gives each number its name and its price, in whatever order the rows are, or is refused
\* (constant.go:66).
TablesAreRows == phase = "off" /\ ops = 0 /\ builtin = CompiledSizes =>
                   \A rows \in Rows : RefusesRows(rows) \/ TableIsRows(rows)

\* A name means the same value in a slice of an array as in the whole of it, and none that lies
\* outside the slice, also in a slice of a slice: what is written or filled through the one is seen
\* through the other, and nothing else is (param.go:29, :105).
SlicesKeepNames == phase = "off" /\ ops = 0 /\ builtin = CompiledSizes =>
                     \A rows \in Rows : RefusesRows(rows) \/ SlicesAgree(Names(rows))

\* The data agree with the tables of the data base, whatever was loaded and in
\* whatever order the games followed one another.
DataAgree == TypeOK /\ FitsTables /\ UidsUnique /\ ShopIsSafe /\ TablesAreRows /\ SlicesKeepNames
=============================================================================
