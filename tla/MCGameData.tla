---------------------------- MODULE MCGameData ----------------------------
(***************************************************************************)
(* Two versions of a game: the second has an item more, in a row before    *)
(* the first one's, another ability, another character, and one variable   *)
(* instead of another.  Five more that Initialize refuses.                 *)
(***************************************************************************)
EXTENDS GameData

row(i, n, p) == [index |-> i, name |-> n, price |-> p]
shared(n, f) == [name |-> n, scope |-> "Share", file |-> f, size |-> IF f = "" THEN 1 ELSE 0]
spec(n, f) == [name |-> n, scope |-> "System", file |-> f, size |-> IF f = "" THEN 1 ELSE 0]
chara(id, sets) == [id |-> id, sets |-> sets]
set(n, i, x) == [var |-> "Abl", name |-> n, index |-> i, val |-> x]
game(items, abls, specs, charas) ==
  [tables |-> [f \in {"Item.csv", "Abl.csv", "New.csv"} |->
                 CASE f = "Item.csv" -> items [] f = "Abl.csv" -> abls [] OTHER -> << row(0, "new", 0) >>],
   specs |-> specs, charas |-> charas]

I1 == << row(0, "pen", 1) >>
I2 == << row(1, "ink", 0), row(0, "pen", 1) >>
A1 == << row(0, "wit", 0) >>
A2 == << row(0, "wit", 0), row(1, "awe", 0) >>
C1 == << chara(0, << set("wit", 0, 1) >>) >>
C2 == << chara(0, << set("awe", 0, 1), set("", 0, 1) >>), chara(1, << >>) >>

MCDbs == [v1 |-> game(I1, A1, << spec("Old", ""), shared("Seen", "") >>, C1),
          v2 |-> game(I2, A2, << spec("New", "New.csv"), shared("Seen", "Abl.csv") >>, C2),
          twice |-> game(<< row(0, "pen", 1), row(0, "ink", 0) >>, A1, << >>, C1),
          below |-> game(<< row(-1, "pen", 1) >>, A1, << >>, C1),
          builtinName |-> game(I1, A1, << spec("Money", "") >>, C1),
          outside |-> game(I2, A1, << >>, << chara(0, << set("", 1, 1) >>) >>)]

\* a write breaks off before the first variable, amid one, and behind some; the list of characters
\* and the names of tables have nothing to do with it
MCCuts == {NoCut, [whole |-> {"ItemStock", "Seen"}, at |-> "Item", upTo |-> 1],
           [whole |-> {"Money", "New"}, at |-> "Seen", upTo |-> 1]}

\* tables of up to three rows, numbers below zero and doubles among them
MCRows == UNION {[1..n -> {row(i, s, p) : i \in -1..2, s \in {"", "pen", "ink"}, p \in {0, 1}}] : n \in 0..3}
=============================================================================
