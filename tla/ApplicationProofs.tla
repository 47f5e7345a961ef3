------------------------- MODULE ApplicationProofs -------------------------
(***************************************************************************)
(* Proofs about the two programs that run games.                           *)
(*                                                                         *)
(* Desktop, for any set of views, layouts, length of a view and number of  *)
(* games: what a walk over a layout has built is described node by node    *)
(* (Walked), hence what SetLayout leaves on screen; every call of a script *)
(* then changes the text of one view, or keeps what all views hold         *)
(* (Moves).  With the games (only the last one runs, LastRuns, and an      *)
(* error that was sent has been printed and stays readable until another   *)
(* game starts, ErrorsTold) this is inductive.                             *)
(*                                                                         *)
(* MobileApp: Sync is a barrier.  For any number of calls, of paragraphs   *)
(* and of deadlines that pass, whatever the UI fails at and whenever the   *)
(* application quits, a Sync that returned without an error has delivered  *)
(* everything, and a paragraph is lost only with the looper that had it.   *)
(***************************************************************************)
EXTENDS Desktop, MobileApp, SequenceTheorems, FiniteSetTheorems, WellFoundedInduction, TLAPS

-----------------------------------------------------------------------------
(***************************************************************************)
(* The walk over a layout.                                                 *)
(***************************************************************************)
LEMMA LeastNat ==
  ASSUME NEW T, T \subseteq Nat, T # {}
  PROVE  \E x \in T : \A y \in T : x <= y
<1>1. PICK x \in T : \A y \in T : <<y, x>> \notin OpToRel(<, Nat)
  BY NatLessThanWellFounded, WFMin, Zenon
<1>2. \A y \in T : ~(y < x)
  BY <1>1 DEF OpToRel
<1> QED
  BY <1>2

\* Each step of the walk is made on what the one before it left.
LEMMA WalkTakesSteps ==
  ASSUME NEW l, Len(l) \in Nat, NEW s
  PROVE  /\ Walk(l, s)[0] = Begun(s)
         /\ \A i \in 1..Len(l) : Walk(l, s)[i] = ParseNode(Walk(l, s)[i - 1], l[i])
<1> DEFINE Body(h, m) == [i \in 0..m |-> IF i = 0 THEN Begun(s) ELSE ParseNode(h[i - 1], l[i])]
           Missed == {m \in 0..Len(l) : \A h : h # Body(h, m)}
           after == CHOOSE h : h = Body(h, Len(l))
<1>1. Missed = {}
  <2> SUFFICES ASSUME Missed # {} PROVE FALSE
    OBVIOUS
  <2>1. PICK m \in Missed : \A k \in Missed : m <= k
    <3>1. Missed \subseteq Nat
      OBVIOUS
    <3> HIDE DEF Missed
    <3> QED
      BY <3>1, LeastNat
  <2>2. m # 0
    <3>1. [i \in 0..0 |-> Begun(s)] = Body([i \in 0..0 |-> Begun(s)], 0)
      OBVIOUS
    <3> QED
      BY <2>1, <3>1
  <2>3. m - 1 \in 0..Len(l) /\ m \in 1..Len(l)
    BY <2>1, <2>2
  <2>4. PICK h : h = Body(h, m - 1)
    <3>1. m - 1 \notin Missed
      <4> HIDE DEF Missed
      <4> QED
        BY <2>1, <2>3
    <3> HIDE DEF Body
    <3> QED
      BY <2>3, <3>1
  <2> DEFINE g == [i \in 0..m |-> IF i = m THEN ParseNode(h[m - 1], l[m]) ELSE h[i]]
  <2>5. ASSUME NEW i \in 0..m
        PROVE  g[i] = Body(g, m)[i]
    <3>1. CASE i = 0
      <4>1. h[0] = Begun(s)
        BY <2>3, <2>4
      <4> QED
        BY <3>1, <2>2, <4>1
    <3>2. CASE i # 0 /\ i # m
      <4>1. i \in 0 .. (m - 1) /\ i - 1 \in 0..m /\ i - 1 # m
        BY <3>2, <2>3
      <4>2. h[i] = ParseNode(h[i - 1], l[i])
        BY <4>1, <3>2, <2>4
      <4> QED
        BY <4>1, <4>2, <3>2
    <3>3. CASE i = m
      <4>1. m - 1 \in 0..m /\ m - 1 # m
        BY <2>3
      <4>2. g[m - 1] = h[m - 1]
        BY <4>1
      <4> QED
        BY <3>3, <2>2, <4>2
    <3> QED
      BY <3>1, <3>2, <3>3
  <2>6. g = Body(g, m)
    BY <2>5
  <2> QED
    BY <2>1, <2>6
<1>2. Len(l) \in 0..Len(l)
  OBVIOUS
<1>3. \E h : h = Body(h, Len(l))
  BY <1>1, <1>2
<1>4. after = Body(after, Len(l))
  BY <1>3
<1>5. Walk(l, s) = after
  BY DEF Walk
<1> HIDE DEF after
<1>6. after[0] = Begun(s)
  BY <1>2, <1>4
<1>7. ASSUME NEW i \in 1..Len(l)
      PROVE  after[i] = ParseNode(after[i - 1], l[i])
  <2>1. i \in 0..Len(l) /\ i # 0
    OBVIOUS
  <2> QED
    BY <2>1, <1>4
<1> QED
  BY <1>5, <1>6, <1>7

Counted(n, c) == n + 1 - (IF c.type = "container" THEN c.children ELSE 0)

\* Each step changes the number of the nodes without a parent.
LEMMA TopsTakeSteps ==
  ASSUME NEW l, Len(l) \in Nat
  PROVE  /\ Tops(l)[0] = 0
         /\ \A i \in 1..Len(l) : Tops(l)[i] = Counted(Tops(l)[i - 1], l[i])
<1> DEFINE Body(h, m) == [i \in 0..m |-> IF i = 0 THEN 0 ELSE Counted(h[i - 1], l[i])]
           Missed == {m \in 0..Len(l) : \A h : h # Body(h, m)}
           tops == CHOOSE h : h = Body(h, Len(l))
<1>1. Missed = {}
  <2> SUFFICES ASSUME Missed # {} PROVE FALSE
    OBVIOUS
  <2>1. PICK m \in Missed : \A k \in Missed : m <= k
    <3>1. Missed \subseteq Nat
      OBVIOUS
    <3> HIDE DEF Missed
    <3> QED
      BY <3>1, LeastNat
  <2>2. m # 0
    <3>1. [i \in 0..0 |-> 0] = Body([i \in 0..0 |-> 0], 0)
      OBVIOUS
    <3> QED
      BY <2>1, <3>1
  <2>3. m - 1 \in 0..Len(l) /\ m \in 1..Len(l)
    BY <2>1, <2>2
  <2>4. PICK h : h = Body(h, m - 1)
    <3>1. m - 1 \notin Missed
      <4> HIDE DEF Missed
      <4> QED
        BY <2>1, <2>3
    <3> HIDE DEF Body
    <3> QED
      BY <2>3, <3>1
  <2> DEFINE g == [i \in 0..m |-> IF i = m THEN Counted(h[m - 1], l[m]) ELSE h[i]]
  <2>5. ASSUME NEW i \in 0..m
        PROVE  g[i] = Body(g, m)[i]
    <3>1. CASE i = 0
      <4>1. h[0] = 0
        BY <2>3, <2>4
      <4> QED
        BY <3>1, <2>2, <4>1
    <3>2. CASE i # 0 /\ i # m
      <4>1. i \in 0 .. (m - 1) /\ i - 1 \in 0..m /\ i - 1 # m
        BY <3>2, <2>3
      <4>2. h[i] = Counted(h[i - 1], l[i])
        BY <4>1, <3>2, <2>4
      <4> QED
        BY <4>1, <4>2, <3>2
    <3>3. CASE i = m
      <4>1. m - 1 \in 0..m /\ m - 1 # m
        BY <2>3
      <4>2. g[m - 1] = h[m - 1]
        BY <4>1
      <4> QED
        BY <3>3, <2>2, <4>2
    <3> QED
      BY <3>1, <3>2, <3>3
  <2>6. g = Body(g, m)
    BY <2>5
  <2> QED
    BY <2>1, <2>6
<1>2. Len(l) \in 0..Len(l)
  OBVIOUS
<1>3. \E h : h = Body(h, Len(l))
  BY <1>1, <1>2
<1>4. tops = Body(tops, Len(l))
  BY <1>3
<1>5. Tops(l) = tops
  BY DEF Tops, Counted
<1> HIDE DEF tops
<1>6. tops[0] = 0
  BY <1>2, <1>4
<1>7. ASSUME NEW i \in 1..Len(l)
      PROVE  tops[i] = Counted(tops[i - 1], l[i])
  <2>1. i \in 0..Len(l) /\ i # 0
    OBVIOUS
  <2> QED
    BY <2>1, <1>4
<1> QED
  BY <1>5, <1>6, <1>7


-----------------------------------------------------------------------------
(***************************************************************************)
(* Screens.  While a layout is walked over, some views hang in what is     *)
(* "new".                                                                  *)
(***************************************************************************)
Lines == Pens \cup {"error"}
Texts == {q \in Seq(Lines) : Len(q) <= MaxLines}

IsScreen(s) ==
  /\ s = [text |-> s.text, pen |-> s.pen, parent |-> s.parent,
          root |-> s.root, current |-> s.current, torn |-> s.torn]
  /\ Views(s) \subseteq Names
  /\ s.text \in [Views(s) -> Texts] /\ s.pen \in [Views(s) -> Pens]
  /\ s.parent \in [Views(s) -> {"screen", "none", "new"}]
  /\ s.root \in Views(s) \cup {NoView} /\ s.current \in Names /\ s.torn \in BOOLEAN

\* no view that lives is closed behind the back of what prints
CurrentIn(s) == Views(s) # {} => s.current \in Views(s)

\* what the views of s hold, they hold in t
Keeps(s, t) == \A v \in Views(s) \cap Views(t) : t.text[v] = s.text[v] /\ t.pen[v] = s.pen[v]

LEMMA EmptyText == <<>> \in Texts
  BY MaxLinesAssumption DEF Texts

LEMMA SetCurrentViewIs ==
  ASSUME NEW s, IsScreen(s), NEW v \in Names, NEW t, t = SetCurrentView(s, v)
  PROVE  /\ IsScreen(t) /\ Views(t) = Views(s)
         /\ t.text = s.text /\ t.pen = s.pen /\ t.parent = s.parent
         /\ t.root = s.root /\ t.current = v /\ t.torn = s.torn
<1>1. t = [text |-> s.text, pen |-> s.pen, parent |-> s.parent,
           root |-> s.root, current |-> v, torn |-> s.torn]
  BY DEF IsScreen, SetCurrentView
<1>2. Views(t) = Views(s)
  BY <1>1 DEF Views
<1> QED
  BY <1>1, <1>2 DEF IsScreen

LEMMA PurgeIs ==
  ASSUME NEW s, IsScreen(s), NEW v \in Views(s), NEW t, t = Purge(s, v)
  PROVE  /\ IsScreen(t) /\ Views(t) = Views(s)
         /\ t.text = s.text /\ t.pen = s.pen
         /\ \A u \in Views(s) : u # v => t.parent[u] = s.parent[u]
         /\ t.root = s.root /\ t.current = s.current /\ t.torn = s.torn
<1>1. t = [text |-> s.text, pen |-> s.pen, parent |-> [s.parent EXCEPT ![v] = "none"],
           root |-> s.root, current |-> s.current, torn |-> s.torn]
  BY DEF IsScreen, Purge
<1>2. Views(t) = Views(s)
  BY <1>1 DEF Views
<1>3. /\ [s.parent EXCEPT ![v] = "none"] \in [Views(s) -> {"screen", "none", "new"}]
      /\ \A u \in Views(s) : u # v => [s.parent EXCEPT ![v] = "none"][u] = s.parent[u]
  BY DEF IsScreen
<1> QED
  BY <1>1, <1>2, <1>3 DEF IsScreen

LEMMA AppendTextViewIs ==
  ASSUME NEW s, IsScreen(s), NEW v \in Names \ Views(s), NEW t, t = AppendTextView(s, v)
  PROVE  /\ IsScreen(t) /\ Views(t) = Views(s) \cup {v}
         /\ \A u \in Views(s) : /\ t.text[u] = s.text[u] /\ t.pen[u] = s.pen[u]
                                /\ t.parent[u] = s.parent[u]
         /\ t.root = s.root /\ t.current = s.current /\ t.torn = s.torn
<1> DEFINE texts == With(s.text, v, <<>>)
           pens == With(s.pen, v, "plain")
           parents == With(s.parent, v, "none")
<1>1. t = [text |-> texts, pen |-> pens, parent |-> parents,
           root |-> s.root, current |-> s.current, torn |-> s.torn]
  BY DEF IsScreen, AppendTextView
<1>2. ASSUME NEW R, NEW f \in [Views(s) -> R], NEW x \in R
      PROVE  /\ With(f, v, x) \in [Views(s) \cup {v} -> R]
             /\ \A u \in Views(s) : With(f, v, x)[u] = f[u]
  <2>1. \A u \in Views(s) : u # v
    OBVIOUS
  <2> QED
    BY <2>1 DEF With
<1>3. /\ texts \in [Views(s) \cup {v} -> Texts] /\ \A u \in Views(s) : texts[u] = s.text[u]
      /\ pens \in [Views(s) \cup {v} -> Pens] /\ \A u \in Views(s) : pens[u] = s.pen[u]
      /\ parents \in [Views(s) \cup {v} -> {"screen", "none", "new"}]
      /\ \A u \in Views(s) : parents[u] = s.parent[u]
  <2>1. "plain" \in Pens /\ "none" \in {"screen", "none", "new"}
    BY DEF Pens
  <2>2. texts \in [Views(s) \cup {v} -> Texts] /\ \A u \in Views(s) : texts[u] = s.text[u]
    <3>1. s.text \in [Views(s) -> Texts]
      BY DEF IsScreen
    <3>2. PICK e \in Texts : e = <<>>
      BY EmptyText
    <3>3. texts = With(s.text, v, e)
      BY <3>2
    <3> HIDE DEF texts
    <3> QED
      BY <1>2, <3>1, <3>3
  <2>3. pens \in [Views(s) \cup {v} -> Pens] /\ \A u \in Views(s) : pens[u] = s.pen[u]
    <3>1. s.pen \in [Views(s) -> Pens]
      BY DEF IsScreen
    <3> QED
      BY <1>2, <2>1, <3>1
  <2>4. /\ parents \in [Views(s) \cup {v} -> {"screen", "none", "new"}]
        /\ \A u \in Views(s) : parents[u] = s.parent[u]
    <3>1. s.parent \in [Views(s) -> {"screen", "none", "new"}]
      BY DEF IsScreen
    <3> QED
      BY <1>2, <2>1, <3>1
  <2> QED
    BY <2>2, <2>3, <2>4
<1> HIDE DEF texts, pens, parents
<1>4. Views(t) = Views(s) \cup {v}
  BY <1>1, <1>3 DEF Views
<1> QED
  BY <1>1, <1>3, <1>4 DEF IsScreen

LEMMA RemoveViewsIs ==
  ASSUME NEW s, IsScreen(s), NEW vs, NEW t, t = RemoveViews(s, vs)
  PROVE  /\ IsScreen(t) /\ Views(t) = Views(s) \ vs
         /\ \A u \in Views(t) : /\ t.text[u] = s.text[u] /\ t.pen[u] = s.pen[u]
                                /\ t.parent[u] = s.parent[u]
         /\ t.current = s.current /\ t.torn = s.torn
<1> DEFINE root == IF s.root \in vs THEN NoView ELSE s.root
<1>1. t = [text |-> Without(s.text, vs), pen |-> Without(s.pen, vs), parent |-> Without(s.parent, vs),
           root |-> root, current |-> s.current, torn |-> s.torn]
  BY DEF IsScreen, RemoveViews
<1>2. ASSUME NEW R, NEW f \in [Views(s) -> R]
      PROVE  /\ Without(f, vs) \in [Views(s) \ vs -> R]
             /\ \A u \in Views(s) \ vs : Without(f, vs)[u] = f[u]
  BY DEF Without
<1>3. /\ Without(s.text, vs) \in [Views(s) \ vs -> Texts]
      /\ \A u \in Views(s) \ vs : Without(s.text, vs)[u] = s.text[u]
      /\ Without(s.pen, vs) \in [Views(s) \ vs -> Pens]
      /\ \A u \in Views(s) \ vs : Without(s.pen, vs)[u] = s.pen[u]
      /\ Without(s.parent, vs) \in [Views(s) \ vs -> {"screen", "none", "new"}]
      /\ \A u \in Views(s) \ vs : Without(s.parent, vs)[u] = s.parent[u]
  BY <1>2 DEF IsScreen
<1>4. root \in (Views(s) \ vs) \cup {NoView}
  BY DEF IsScreen
<1> HIDE DEF root
<1>5. Views(t) = Views(s) \ vs
  BY <1>1, <1>3 DEF Views
<1> QED
  BY <1>1, <1>3, <1>4, <1>5 DEF IsScreen

LEMMA InsertAllIs ==
  ASSUME NEW s, IsScreen(s), NEW nodes, NEW t, t = InsertAll(s, nodes)
  PROVE  /\ IsScreen(t) /\ Views(t) = Views(s)
         /\ t.text = s.text /\ t.pen = s.pen
         /\ \A u \in Views(s) : t.parent[u] = IF u \in ToSet(nodes) THEN "new" ELSE s.parent[u]
         /\ t.root = s.root /\ t.current = s.current /\ t.torn = s.torn
<1> DEFINE parents == [v \in DOMAIN s.parent |-> IF v \in ToSet(nodes) THEN "new" ELSE s.parent[v]]
<1>1. t = [text |-> s.text, pen |-> s.pen, parent |-> parents,
           root |-> s.root, current |-> s.current, torn |-> s.torn]
  BY DEF IsScreen, InsertAll
<1>2. /\ parents \in [Views(s) -> {"screen", "none", "new"}]
      /\ \A u \in Views(s) : parents[u] = IF u \in ToSet(nodes) THEN "new" ELSE s.parent[u]
  BY DEF IsScreen
<1> HIDE DEF parents
<1>3. Views(t) = Views(s)
  BY <1>1 DEF Views
<1> QED
  BY <1>1, <1>2, <1>3 DEF IsScreen

-----------------------------------------------------------------------------
(***************************************************************************)
(* What the walk leaves after i nodes of layout l.                         *)
(***************************************************************************)
NamesTo(l, i) == {n \in Names : \E j \in 1..i : l[j] = TextNode(n)}

\* The views named so far live, hang in what is new or wait for their parent,
\* and one of them is printed to.
Built(l, i, w) ==
  /\ Len(w.nodes) = Tops(l)[i] /\ ToSet(w.nodes) \subseteq NamesTo(l, i) \cup {NoView}
  /\ \A v \in NamesTo(l, i) : v \in Views(w.screen)
                              /\ (w.screen.parent[v] = "new" \/ v \in ToSet(w.nodes))
  /\ NamesTo(l, i) # {} => w.screen.current \in NamesTo(l, i)

\* The views of before keep what they hold, whether the walk fails or not.
Walked(l, s, i, w) ==
  /\ w \in [screen : {w.screen}, nodes : Seq(Names \cup {NoView}), failed : BOOLEAN]
  /\ IsScreen(w.screen) /\ CurrentIn(w.screen)
  /\ Views(s) \subseteq Views(w.screen) /\ Keeps(s, w.screen)
  /\ Views(w.screen) \subseteq Views(s) \cup NamesTo(l, i)
  /\ ~w.failed => Built(l, i, w)

LEMMA WalkExcept ==
  ASSUME NEW S, NEW w, w \in [screen : {w.screen}, nodes : Seq(S), failed : BOOLEAN],
         NEW t, NEW nodes \in Seq(S), NEW failed \in BOOLEAN, NEW x,
         \/ x = [w EXCEPT !.screen = t, !.nodes = nodes] /\ failed = w.failed
         \/ x = [w EXCEPT !.nodes = nodes] /\ t = w.screen /\ failed = w.failed
         \/ x = [w EXCEPT !.failed = failed] /\ t = w.screen /\ nodes = w.nodes
  PROVE  /\ x \in [screen : {t}, nodes : Seq(S), failed : BOOLEAN]
         /\ x.screen = t /\ x.nodes = nodes /\ x.failed = failed
  OBVIOUS

LEMMA NodeIsOneOf ==
  ASSUME NEW c \in Nodes
  PROVE  \/ \E n \in Names : c = TextNode(n) /\ c.type = "text" /\ c.name = n
         \/ c.type = "image" /\ \A n \in Names : c # TextNode(n)
         \/ c.type = "container" /\ c.children \in Nat /\ c.fits \in BOOLEAN /\ \A n \in Names : c # TextNode(n)
<1>1. \A n \in Names : TextNode(n).type = "text" /\ TextNode(n).name = n
  BY DEF TextNode
<1>2. CASE \E n \in Names : c = TextNode(n)
  BY <1>1, <1>2
<1>3. CASE c = ImageNode
  <2>1. c.type = "image"
    BY <1>3 DEF ImageNode
  <2> QED
    BY <1>1, <2>1
<1>4. CASE c \in [type : {"container"}, children : Nat, fits : BOOLEAN]
  BY <1>1, <1>4
<1> QED
  BY <1>2, <1>3, <1>4 DEF Nodes

\* one node more
LEMMA NamesGrow ==
  ASSUME NEW l, NEW i \in Nat \ {0}
  PROVE  NamesTo(l, i) = NamesTo(l, i - 1) \cup {m \in Names : l[i] = TextNode(m)}
<1>1. \A j : j \in 1..i <=> j \in 1 .. (i - 1) \/ j = i
  OBVIOUS
<1> QED
  BY <1>1 DEF NamesTo

LEMMA ToSetOfAppend ==
  ASSUME NEW S, NEW q \in Seq(S), NEW e \in S
  PROVE  ToSet(Append(q, e)) = ToSet(q) \cup {e}
<1>1. /\ Len(q) \in Nat /\ DOMAIN q = 1..Len(q) /\ Append(q, e) \in Seq(S)
      /\ DOMAIN Append(q, e) = 1 .. Len(q) + 1
      /\ \A i \in 1..Len(q) : Append(q, e)[i] = q[i]
      /\ Append(q, e)[Len(q) + 1] = e
  OBVIOUS
<1>2. \A i : i \in 1 .. Len(q) + 1 <=> i \in 1..Len(q) \/ i = Len(q) + 1
  BY <1>1
<1>3. ToSet(Append(q, e)) = {Append(q, e)[i] : i \in 1 .. Len(q) + 1} /\ ToSet(q) = {q[i] : i \in 1..Len(q)}
  BY <1>1 DEF ToSet
<1> QED
  BY <1>1, <1>2, <1>3

LEMMA WalkBegins ==
  ASSUME NEW l, Len(l) \in Nat, NEW s, IsScreen(s), CurrentIn(s)
  PROVE  Walked(l, s, 0, Begun(s))
<1>1. NamesTo(l, 0) = {}
  BY DEF NamesTo
<1>2. Begun(s).screen = s /\ Begun(s).nodes = <<>> /\ Begun(s).failed = FALSE
  BY DEF Begun
<1>3. Begun(s) \in [screen : {s}, nodes : Seq(Names \cup {NoView}), failed : BOOLEAN]
  BY DEF Begun
<1>4. <<>> \in Seq(Names \cup {NoView}) /\ Len(<<>>) = 0
  OBVIOUS
<1> QED
  BY <1>1, <1>2, <1>3, <1>4, TopsTakeSteps DEF Walked, Built, Keeps, ToSet

LEMMA TextIsWalked ==
  ASSUME NEW l \in Seq(Nodes), NEW i \in 1..Len(l), NEW s, IsScreen(s),
         NEW w, Walked(l, s, i - 1, w), ~w.failed,
         NEW n \in Names, l[i] = TextNode(n)
  PROVE  Walked(l, s, i, ParseText(w, n))
<1> DEFINE x == ParseText(w, n)
           found == IF n \in Views(w.screen) THEN Purge(w.screen, n) ELSE AppendTextView(w.screen, n)
           t == SetCurrentView(found, n)
<1>1. /\ IsScreen(found) /\ Views(found) = Views(w.screen) \cup {n}
      /\ Keeps(w.screen, found)
      /\ \A u \in Views(w.screen) : u # n => found.parent[u] = w.screen.parent[u]
  <2>1. CASE n \in Views(w.screen)
    BY <2>1, PurgeIs DEF Walked, Keeps
  <2>2. CASE n \notin Views(w.screen)
    BY <2>2, AppendTextViewIs DEF Walked, Keeps
  <2> QED
    BY <2>1, <2>2
<1>2. x = [w EXCEPT !.screen = t, !.nodes = Append(w.nodes, n)]
  BY Zenon DEF ParseText
<1>3. w \in [screen : {w.screen}, nodes : Seq(Names \cup {NoView}), failed : BOOLEAN]
  BY DEF Walked
<1>4. /\ Append(w.nodes, n) \in Seq(Names \cup {NoView})
      /\ Len(Append(w.nodes, n)) = Len(w.nodes) + 1
      /\ ToSet(Append(w.nodes, n)) = ToSet(w.nodes) \cup {n}
  BY <1>3, AppendProperties, ToSetOfAppend
<1> HIDE DEF found
<1>5. /\ IsScreen(t) /\ Views(t) = Views(w.screen) \cup {n} /\ t.current = n
      /\ Keeps(w.screen, t) /\ t.parent = found.parent
  BY <1>1, SetCurrentViewIs DEF Keeps
<1> HIDE DEF t, x
<1>6. /\ x \in [screen : {t}, nodes : Seq(Names \cup {NoView}), failed : BOOLEAN]
      /\ x.screen = t /\ x.nodes = Append(w.nodes, n) /\ x.failed = FALSE
  BY <1>2, <1>3, <1>4, WalkExcept
<1>7. NamesTo(l, i) = NamesTo(l, i - 1) \cup {n}
  <2>1. \A m \in Names : l[i] = TextNode(m) <=> m = n
    BY DEF TextNode
  <2>2. NamesTo(l, i) = NamesTo(l, i - 1) \cup {m \in Names : l[i] = TextNode(m)}
    BY <2>1, NamesGrow
  <2> QED
    BY <2>1, <2>2
<1>8. Tops(l)[i] = Tops(l)[i - 1] + 1
  <2>1. l[i].type # "container"
    BY DEF TextNode
  <2>2. Tops(l)[i] = Counted(Tops(l)[i - 1], l[i])
    BY TopsTakeSteps
  <2>3. Len(w.nodes) = Tops(l)[i - 1] /\ Len(w.nodes) \in Nat
    BY LenProperties DEF Walked, Built
  <2> QED
    BY <2>1, <2>2, <2>3 DEF Counted
<1>9. Built(l, i, x)
  BY <1>1, <1>5, <1>6, <1>7, <1>8, <1>4 DEF Walked, Built
<1>10. Views(s) \subseteq Views(t) /\ Keeps(s, t) /\ Views(t) \subseteq Views(s) \cup NamesTo(l, i)
  BY <1>5, <1>7 DEF Walked, Keeps
<1>11. CurrentIn(t)
  BY <1>5 DEF CurrentIn
<1>12. Walked(l, s, i, x)
  BY <1>5, <1>6, <1>9, <1>10, <1>11 DEF Walked
<1> QED
  BY <1>12 DEF x

LEMMA ImageIsWalked ==
  ASSUME NEW l \in Seq(Nodes), NEW i \in 1..Len(l), NEW s, IsScreen(s),
         NEW w, Walked(l, s, i - 1, w), ~w.failed,
         l[i].type = "image", \A n \in Names : l[i] # TextNode(n)
  PROVE  Walked(l, s, i, ParseImage(w))
<1> DEFINE x == ParseImage(w)
<1>1. w \in [screen : {w.screen}, nodes : Seq(Names \cup {NoView}), failed : BOOLEAN]
  BY DEF Walked
<1>2. /\ Append(w.nodes, NoView) \in Seq(Names \cup {NoView})
      /\ Len(Append(w.nodes, NoView)) = Len(w.nodes) + 1
      /\ ToSet(Append(w.nodes, NoView)) = ToSet(w.nodes) \cup {NoView}
  BY <1>1, AppendProperties, ToSetOfAppend
<1>3. x = [w EXCEPT !.nodes = Append(w.nodes, NoView)]
  BY DEF ParseImage
<1> HIDE DEF x
<1>4. /\ x \in [screen : {w.screen}, nodes : Seq(Names \cup {NoView}), failed : BOOLEAN]
      /\ x.screen = w.screen /\ x.nodes = Append(w.nodes, NoView) /\ x.failed = FALSE
  BY <1>1, <1>2, <1>3, WalkExcept
<1>5. NamesTo(l, i) = NamesTo(l, i - 1)
  <2>1. i \in Nat \ {0} /\ {n \in Names : l[i] = TextNode(n)} = {}
    OBVIOUS
  <2>2. NamesTo(l, i) = NamesTo(l, i - 1) \cup {m \in Names : l[i] = TextNode(m)}
    BY <2>1, NamesGrow
  <2> QED
    BY <2>1, <2>2
<1>6. Tops(l)[i] = Tops(l)[i - 1] + 1
  <2>1. Tops(l)[i] = Counted(Tops(l)[i - 1], l[i])
    BY TopsTakeSteps
  <2>2. Len(w.nodes) = Tops(l)[i - 1] /\ Len(w.nodes) \in Nat
    BY <1>1, LenProperties DEF Walked, Built
  <2> QED
    BY <2>1, <2>2 DEF Counted
<1>7. Built(l, i, x)
  BY <1>2, <1>4, <1>5, <1>6 DEF Walked, Built
<1>8. Walked(l, s, i, x)
  BY <1>4, <1>5, <1>7 DEF Walked
<1> QED
  BY <1>8 DEF x

LEMMA SplitSeq ==
  ASSUME NEW S, NEW q \in Seq(S), NEW m \in 0..Len(q)
  PROVE  /\ SubSeq(q, 1, m) \in Seq(S) /\ Len(SubSeq(q, 1, m)) = m
         /\ ToSet(SubSeq(q, 1, m)) \subseteq ToSet(q)
         /\ ToSet(q) \subseteq ToSet(SubSeq(q, 1, m)) \cup ToSet(SubSeq(q, m + 1, Len(q)))
<1>1. Len(q) \in Nat /\ \A j \in 1..Len(q) : q[j] \in S
  BY LenProperties, ElementOfSeq
<1>2. /\ SubSeq(q, 1, m) \in Seq(S) /\ Len(SubSeq(q, 1, m)) = m
      /\ \A j \in 1..m : SubSeq(q, 1, m)[j] = q[j]
  BY <1>1, SubSeqProperties
<1>3. /\ SubSeq(q, m + 1, Len(q)) \in Seq(S) /\ Len(SubSeq(q, m + 1, Len(q))) = Len(q) - m
      /\ \A j \in 1 .. Len(q) - m : SubSeq(q, m + 1, Len(q))[j] = q[m + j]
  BY <1>1, SubSeqProperties
<1> DEFINE left == SubSeq(q, 1, m)
           right == SubSeq(q, m + 1, Len(q))
<1>4. /\ left \in Seq(S) /\ Len(left) = m /\ DOMAIN left = 1..m
      /\ right \in Seq(S) /\ Len(right) = Len(q) - m /\ DOMAIN right = 1 .. Len(q) - m
      /\ DOMAIN q = 1..Len(q)
  BY <1>2, <1>3
<1>5. /\ \A j \in 1..m : left[j] = q[j]
      /\ \A j \in 1 .. Len(q) - m : right[j] = q[m + j]
  BY <1>2, <1>3
<1> HIDE DEF left, right
<1>6. ASSUME NEW j \in 1..Len(q)
      PROVE  q[j] \in ToSet(left) \cup ToSet(right)
  <2>1. CASE j <= m
    BY <1>1, <1>4, <1>5, <2>1 DEF ToSet
  <2>2. CASE j > m
    <3>1. j - m \in 1 .. Len(q) - m /\ m + (j - m) = j
      BY <1>1, <2>2
    <3> QED
      BY <1>1, <1>4, <1>5, <3>1 DEF ToSet
  <2> QED
    BY <1>1, <2>1, <2>2
<1>7. ToSet(q) \subseteq ToSet(left) \cup ToSet(right)
  BY <1>4, <1>6 DEF ToSet
<1>8. ToSet(left) \subseteq ToSet(q)
  BY <1>1, <1>4, <1>5 DEF ToSet
<1> QED
  BY <1>4, <1>7, <1>8 DEF left, right

LEMMA ContainerIsWalked ==
  ASSUME NEW l \in Seq(Nodes), NEW i \in 1..Len(l), NEW s, IsScreen(s),
         NEW w, Walked(l, s, i - 1, w), ~w.failed,
         l[i].type = "container", \A n \in Names : l[i] # TextNode(n),
         NEW k \in Nat, k = l[i].children, Tops(l)[i] > 0, NEW fits
  PROVE  Walked(l, s, i, ParseContainer(w, k, fits))
<1> DEFINE first == Len(w.nodes) - k
           children == SubSeq(w.nodes, first + 1, Len(w.nodes))
           left == SubSeq(w.nodes, 1, first)
           x == ParseContainer(w, k, fits)
<1>1. w \in [screen : {w.screen}, nodes : Seq(Names \cup {NoView}), failed : BOOLEAN]
  BY DEF Walked
<1>2. NamesTo(l, i) = NamesTo(l, i - 1)
  <2>1. i \in Nat \ {0} /\ {n \in Names : l[i] = TextNode(n)} = {}
    OBVIOUS
  <2>2. NamesTo(l, i) = NamesTo(l, i - 1) \cup {m \in Names : l[i] = TextNode(m)}
    BY <2>1, NamesGrow
  <2> QED
    BY <2>1, <2>2
<1>3. first \in 0..Len(w.nodes) /\ Tops(l)[i] = first + 1
  <2>1. Tops(l)[i] = Counted(Tops(l)[i - 1], l[i])
    BY TopsTakeSteps
  <2>2. Len(w.nodes) = Tops(l)[i - 1] /\ Len(w.nodes) \in Nat
    BY <1>1, LenProperties DEF Walked, Built
  <2> QED
    BY <2>1, <2>2 DEF Counted
<1>4. /\ left \in Seq(Names \cup {NoView}) /\ Len(left) = first
      /\ ToSet(left) \subseteq ToSet(w.nodes)
      /\ ToSet(w.nodes) \subseteq ToSet(left) \cup ToSet(children)
  <2>1. \A m \in 0..Len(w.nodes) :
          /\ SubSeq(w.nodes, 1, m) \in Seq(Names \cup {NoView}) /\ Len(SubSeq(w.nodes, 1, m)) = m
          /\ ToSet(SubSeq(w.nodes, 1, m)) \subseteq ToSet(w.nodes)
          /\ ToSet(w.nodes) \subseteq ToSet(SubSeq(w.nodes, 1, m)) \cup ToSet(SubSeq(w.nodes, m + 1, Len(w.nodes)))
    BY <1>1, SplitSeq
  <2> HIDE DEF first
  <2> QED
    BY <1>3, <2>1
<1>5. CASE fits /\ Insertable(w.screen, children)
  <2> DEFINE t == InsertAll(w.screen, children)
  <2>1. x = [w EXCEPT !.screen = t, !.nodes = Append(left, NoView)]
    BY <1>5 DEF ParseContainer
  <2>2. /\ IsScreen(t) /\ Views(t) = Views(w.screen)
        /\ t.text = w.screen.text /\ t.pen = w.screen.pen
        /\ \A u \in Views(w.screen) : t.parent[u] = IF u \in ToSet(children) THEN "new" ELSE w.screen.parent[u]
        /\ t.current = w.screen.current
    BY InsertAllIs DEF Walked
  <2> HIDE DEF t, x, left, children
  <2>3. /\ Append(left, NoView) \in Seq(Names \cup {NoView})
        /\ Len(Append(left, NoView)) = first + 1
        /\ ToSet(Append(left, NoView)) = ToSet(left) \cup {NoView}
    BY <1>4, AppendProperties, ToSetOfAppend
  <2>4. /\ x \in [screen : {t}, nodes : Seq(Names \cup {NoView}), failed : BOOLEAN]
        /\ x.screen = t /\ x.nodes = Append(left, NoView) /\ x.failed = FALSE
    BY <1>1, <2>1, <2>3, WalkExcept
  <2>5. Built(l, i, x)
    BY <1>2, <1>3, <1>4, <2>2, <2>3, <2>4 DEF Walked, Built
  <2>6. Views(s) \subseteq Views(t) /\ Keeps(s, t) /\ CurrentIn(t)
    BY <2>2 DEF Walked, Keeps, CurrentIn
  <2>7. Walked(l, s, i, x)
    BY <1>2, <2>2, <2>4, <2>5, <2>6 DEF Walked
  <2> QED
    BY <2>7 DEF x
<1>6. CASE ~(fits /\ Insertable(w.screen, children))
  <2>1. x = [w EXCEPT !.failed = TRUE]
    BY <1>6 DEF ParseContainer
  <2> HIDE DEF x, children
  <2>2. /\ x \in [screen : {w.screen}, nodes : Seq(Names \cup {NoView}), failed : BOOLEAN]
        /\ x.screen = w.screen /\ x.failed = TRUE
    BY <1>1, <2>1, WalkExcept
  <2>3. Walked(l, s, i, x)
    BY <1>2, <2>2 DEF Walked
  <2> QED
    BY <2>3 DEF x
<1> QED
  BY <1>5, <1>6

\* Once the walk has failed it stays where it is.
LEMMA FailedIsWalked ==
  ASSUME NEW l \in Seq(Nodes), NEW i \in 1..Len(l), NEW s,
         NEW w, Walked(l, s, i - 1, w), w.failed
  PROVE  Walked(l, s, i, w)
<1>1. i \in Nat \ {0}
  OBVIOUS
<1>2. NamesTo(l, i - 1) \subseteq NamesTo(l, i)
  BY <1>1, NamesGrow
<1> QED
  BY <1>2 DEF Walked

LEMMA NodeIsWalked ==
  ASSUME NEW l, IsLayout(l), NEW i \in 1..Len(l), NEW s, IsScreen(s),
         NEW w, Walked(l, s, i - 1, w)
  PROVE  Walked(l, s, i, ParseNode(w, l[i]))
<1>1. l \in Seq(Nodes) /\ l[i] \in Nodes /\ Tops(l)[i] > 0
  BY ElementOfSeq DEF IsLayout
<1>2. w.failed \in BOOLEAN
  BY DEF Walked
<1>3. CASE w.failed
  <2>1. ParseNode(w, l[i]) = w
    BY <1>3, Zenon DEF ParseNode
  <2> QED
    BY <1>1, <1>3, <2>1, FailedIsWalked
<1>4. CASE ~w.failed
  <2>1. CASE \E n \in Names : l[i] = TextNode(n) /\ l[i].type = "text" /\ l[i].name = n
    <3>1. PICK n \in Names : l[i] = TextNode(n) /\ l[i].type = "text" /\ l[i].name = n
      BY <2>1
    <3>2. ParseNode(w, l[i]) = ParseText(w, n)
      BY <1>4, <3>1 DEF ParseNode
    <3> QED
      BY <1>1, <1>4, <3>1, <3>2, TextIsWalked
  <2>2. CASE l[i].type = "image" /\ \A n \in Names : l[i] # TextNode(n)
    <3>1. ParseNode(w, l[i]) = ParseImage(w)
      BY <1>4, <2>2 DEF ParseNode
    <3> QED
      BY <1>1, <1>4, <2>2, <3>1, ImageIsWalked
  <2>3. CASE l[i].type = "container" /\ l[i].children \in Nat /\ \A n \in Names : l[i] # TextNode(n)
    <3>1. ParseNode(w, l[i]) = ParseContainer(w, l[i].children, l[i].fits)
      BY <1>4, <2>3 DEF ParseNode
    <3> QED
      BY <1>1, <1>4, <2>3, <3>1, ContainerIsWalked
  <2> QED
    BY <1>1, <2>1, <2>2, <2>3, NodeIsOneOf
<1> QED
  BY <1>2, <1>3, <1>4

LEMMA WalkHolds ==
  ASSUME NEW l, IsLayout(l), NEW s, IsScreen(s), CurrentIn(s)
  PROVE  Walked(l, s, Len(l), ParseLayoutData(l, s))
<1>1. l \in Seq(Nodes) /\ Len(l) \in Nat
  BY LenProperties DEF IsLayout
<1> DEFINE Missed == {i \in 0..Len(l) : ~Walked(l, s, i, Walk(l, s)[i])}
<1>2. Missed = {}
  <2> SUFFICES ASSUME Missed # {} PROVE FALSE
    OBVIOUS
  <2>1. PICK i \in Missed : \A j \in Missed : i <= j
    <3>1. Missed \subseteq Nat
      OBVIOUS
    <3> HIDE DEF Missed
    <3> QED
      BY <3>1, LeastNat
  <2>2. i # 0
    BY <1>1, <2>1, WalkBegins, WalkTakesSteps
  <2>3. i \in 1..Len(l) /\ i - 1 \in 0..Len(l)
    BY <1>1, <2>1, <2>2
  <2>4. Walked(l, s, i - 1, Walk(l, s)[i - 1])
    <3>1. i - 1 \notin Missed
      <4> HIDE DEF Missed
      <4> QED
        BY <2>1, <2>3
    <3> QED
      BY <2>3, <3>1
  <2>5. Walk(l, s)[i] = ParseNode(Walk(l, s)[i - 1], l[i])
    BY <1>1, <2>3, WalkTakesSteps
  <2>6. Walked(l, s, i, Walk(l, s)[i])
    BY <2>3, <2>4, <2>5, NodeIsWalked
  <2> QED
    BY <2>1, <2>6
<1>3. Len(l) \in 0..Len(l)
  BY <1>1
<1> QED
  BY <1>2, <1>3 DEF ParseLayoutData

-----------------------------------------------------------------------------
(***************************************************************************)
(* Layouts and printing.                                                   *)
(***************************************************************************)
\* between the steps nothing is new
Settled(s) == s.parent \in [Views(s) -> {"screen", "none"}]

\* the views that live are those on screen, and one of them is printed to
Shows(s) == OnScreen(s) = Views(s) /\ s.current \in Views(s)

LEMMA InsertedIs ==
  ASSUME NEW s, IsScreen(s), NEW root \in Views(s) \cup {NoView}, NEW t, t = Inserted(s, root)
  PROVE  /\ IsScreen(t) /\ Settled(t) /\ Views(t) = Views(s)
         /\ t.text = s.text /\ t.pen = s.pen /\ t.current = s.current
         /\ \A u \in Views(s) : s.parent[u] = "new" \/ u = root => t.parent[u] = "screen"
<1> DEFINE parents == Hung(s, {root}, "screen")
           torn == FALSE
<1>1. t = [text |-> s.text, pen |-> s.pen, parent |-> parents,
           root |-> root, current |-> s.current, torn |-> torn]
  BY DEF IsScreen, Inserted
<1>2. /\ parents \in [Views(s) -> {"screen", "none"}]
      /\ \A u \in Views(s) : s.parent[u] = "new" \/ u = root => parents[u] = "screen"
  BY DEF IsScreen, Hung
<1>3. torn \in BOOLEAN /\ torn = FALSE
  OBVIOUS
<1> HIDE DEF parents, torn
<1>4. Views(t) = Views(s)
  BY <1>1 DEF Views
<1>5. parents \in [Views(s) -> {"screen", "none", "new"}]
  BY <1>2
<1>6. IsScreen(t)
  BY <1>1, <1>4, <1>5, <1>3 DEF IsScreen
<1>7. t.parent = parents /\ t.text = s.text /\ t.pen = s.pen /\ t.current = s.current
  BY <1>1
<1> QED
  BY <1>1, <1>2, <1>4, <1>6, <1>7 DEF Settled

LEMMA DroppedIs ==
  ASSUME NEW s, IsScreen(s), NEW t, t = Dropped(s)
  PROVE  /\ IsScreen(t) /\ Settled(t) /\ Views(t) = Views(s)
         /\ t.text = s.text /\ t.pen = s.pen /\ t.current = s.current /\ t.torn = TRUE
<1> DEFINE parents == Hung(s, {}, "none")
           torn == TRUE
<1>1. t = [text |-> s.text, pen |-> s.pen, parent |-> parents,
           root |-> s.root, current |-> s.current, torn |-> torn]
  BY DEF IsScreen, Dropped
<1>2. parents \in [Views(s) -> {"screen", "none"}]
  BY DEF IsScreen, Hung
<1>3. torn \in BOOLEAN /\ torn = TRUE
  OBVIOUS
<1> HIDE DEF parents, torn
<1>4. Views(t) = Views(s)
  BY <1>1 DEF Views
<1>5. parents \in [Views(s) -> {"screen", "none", "new"}]
  BY <1>2
<1>6. IsScreen(t)
  <2>1. /\ Views(s) \subseteq Names /\ s.text \in [Views(s) -> Texts] /\ s.pen \in [Views(s) -> Pens]
        /\ s.root \in Views(s) \cup {NoView} /\ s.current \in Names
    BY DEF IsScreen
  <2>2. /\ t.text = s.text /\ t.pen = s.pen /\ t.parent = parents
        /\ t.root = s.root /\ t.current = s.current /\ t.torn = torn
    BY <1>1
  <2>3. t = [text |-> t.text, pen |-> t.pen, parent |-> t.parent,
             root |-> t.root, current |-> t.current, torn |-> t.torn]
    BY <1>1, <2>2
  <2> QED
    BY <1>4, <1>5, <1>3, <2>1, <2>2, <2>3 DEF IsScreen
<1>7. t.parent = parents /\ t.text = s.text /\ t.pen = s.pen /\ t.current = s.current /\ t.torn = TRUE
  BY <1>1, <1>3
<1> QED
  BY <1>1, <1>2, <1>4, <1>6, <1>7 DEF Settled

\* A layout that succeeds shows its views and no other, one of them printed to;
\* the views that stay keep what they hold, and none that is printed to is closed
\* while another lives, also when it fails.
LEMMA SetLayoutIs ==
  ASSUME NEW l, IsLayout(l), NEW s, IsScreen(s), CurrentIn(s), NEW t, t = SetLayout(s, l)
  PROVE  /\ IsScreen(t) /\ Settled(t) /\ CurrentIn(t) /\ Keeps(s, t)
         /\ ~t.torn => Shows(t)
<1> DEFINE w == ParseLayoutData(l, s)
           r == RemoveIntersect(w.screen, l, Views(s))
<1>1. t = IF w.failed THEN Dropped(w.screen)
          ELSE IF Views(r) = {} THEN Dropped(r)
          ELSE Inserted(r, w.nodes[1])
  BY DEF SetLayout
<1>2. Walked(l, s, Len(l), w)
  BY WalkHolds
<1>3. r = RemoveViews(w.screen, Views(s) \ TextNames(l))
  BY DEF RemoveIntersect
<1> HIDE DEF w, r
<1>4. TextNames(l) = NamesTo(l, Len(l))
  <2>1. l \in Seq(Nodes)
    BY DEF IsLayout
  <2>2. DOMAIN l = 1..Len(l)
    BY <2>1
  <2> QED
    BY <2>2 DEF TextNames, NamesTo
<1>5. CASE w.failed
  <2>1. t = Dropped(w.screen) /\ IsScreen(w.screen)
    BY <1>1, <1>2, <1>5 DEF Walked
  <2>2. /\ IsScreen(t) /\ Settled(t) /\ Views(t) = Views(w.screen)
        /\ t.text = w.screen.text /\ t.pen = w.screen.pen /\ t.current = w.screen.current /\ t.torn = TRUE
    BY <2>1, DroppedIs
  <2> QED
    BY <1>2, <2>2 DEF Walked, Keeps, CurrentIn
<1>6. CASE ~w.failed
  <2>1. /\ IsScreen(r) /\ Views(r) = Views(w.screen) \ (Views(s) \ TextNames(l))
        /\ \A u \in Views(r) : /\ r.text[u] = w.screen.text[u] /\ r.pen[u] = w.screen.pen[u]
                               /\ r.parent[u] = w.screen.parent[u]
        /\ r.current = w.screen.current
    BY <1>2, <1>3, RemoveViewsIs DEF Walked
  <2>2. Built(l, Len(l), w)
    BY <1>2, <1>6 DEF Walked
  <2>3. Views(r) = NamesTo(l, Len(l))
    BY <1>2, <1>4, <2>1, <2>2 DEF Walked, Built
  <2>4. Keeps(s, r)
    BY <1>2, <2>1 DEF Walked, Keeps
  <2>5. CASE Views(r) = {}
    <3>1. t = Dropped(r)
      BY <1>1, <1>6, <2>5
    <3> QED
      BY <2>1, <2>4, <2>5, <3>1, DroppedIs DEF CurrentIn, Keeps
  <2>6. CASE Views(r) # {}
    <3>1. t = Inserted(r, w.nodes[1])
      BY <1>1, <1>6, <2>6
    <3>2. w.nodes \in Seq(Names \cup {NoView}) /\ Len(w.nodes) = 1
      BY <1>2, <2>2 DEF Walked, Built, IsLayout
    <3>3. ToSet(w.nodes) = {w.nodes[1]}
      BY <3>2 DEF ToSet
    <3>4. w.nodes[1] \in Views(r) \cup {NoView}
      BY <2>2, <2>3, <3>3 DEF Built
    <3>5. /\ IsScreen(t) /\ Settled(t) /\ Views(t) = Views(r)
          /\ t.text = r.text /\ t.pen = r.pen /\ t.current = r.current
          /\ \A u \in Views(r) : r.parent[u] = "new" \/ u = w.nodes[1] => t.parent[u] = "screen"
      BY <2>1, <3>1, <3>4, InsertedIs
    <3>6. \A u \in Views(r) : r.parent[u] = "new" \/ u = w.nodes[1]
      BY <2>1, <2>2, <2>3, <3>3 DEF Built
    <3>7. t.current \in Views(t)
      BY <2>1, <2>2, <2>3, <2>6, <3>5 DEF Built
    <3> QED
      BY <2>4, <3>5, <3>6, <3>7 DEF Keeps, CurrentIn, Shows, OnScreen
  <2> QED
    BY <2>5, <2>6
<1>7. w.failed \in BOOLEAN
  BY <1>2 DEF Walked
<1> QED
  BY <1>5, <1>6, <1>7

\* t is s with another text or pen of the view v
ChangesAt(s, t, v) ==
  /\ IsScreen(t) /\ Views(t) = Views(s)
  /\ t.parent = s.parent /\ t.root = s.root /\ t.current = s.current /\ t.torn = s.torn
  /\ \A u \in Views(s) : u # v => t.text[u] = s.text[u] /\ t.pen[u] = s.pen[u]

LEMMA TextChanges ==
  ASSUME NEW s, IsScreen(s), s.current \in Views(s), NEW q \in Texts,
         NEW t, t = [s EXCEPT !.text[s.current] = q]
  PROVE  ChangesAt(s, t, s.current) /\ t.text[s.current] = q
<1> DEFINE texts == [s.text EXCEPT ![s.current] = q]
<1>1. t = [text |-> texts, pen |-> s.pen, parent |-> s.parent,
           root |-> s.root, current |-> s.current, torn |-> s.torn]
  BY DEF IsScreen
<1>2. /\ texts \in [Views(s) -> Texts] /\ texts[s.current] = q
      /\ \A u \in Views(s) : u # s.current => texts[u] = s.text[u]
  BY DEF IsScreen
<1> HIDE DEF texts
<1>3. Views(t) = Views(s)
  BY <1>1, <1>2 DEF Views
<1>4. IsScreen(t)
  BY <1>1, <1>2, <1>3 DEF IsScreen
<1> QED
  BY <1>1, <1>2, <1>3, <1>4 DEF ChangesAt

LEMMA PenChanges ==
  ASSUME NEW s, IsScreen(s), s.current \in Views(s), NEW p \in Pens,
         NEW t, t = SetPen(s, p)
  PROVE  ChangesAt(s, t, s.current)
<1> DEFINE pens == [s.pen EXCEPT ![s.current] = p]
<1>1. t = [text |-> s.text, pen |-> pens, parent |-> s.parent,
           root |-> s.root, current |-> s.current, torn |-> s.torn]
  BY DEF IsScreen, SetPen
<1>2. /\ pens \in [Views(s) -> Pens]
      /\ \A u \in Views(s) : u # s.current => pens[u] = s.pen[u]
  BY DEF IsScreen
<1> HIDE DEF pens
<1>3. Views(t) = Views(s)
  BY <1>1 DEF Views
<1>4. IsScreen(t)
  BY <1>1, <1>2, <1>3 DEF IsScreen
<1> QED
  BY <1>1, <1>2, <1>3, <1>4 DEF ChangesAt

\* The line printed is the last one, whatever a frame forgets.
LEMMA PrintLineIs ==
  ASSUME NEW s, IsScreen(s), s.current \in Views(s), NEW line \in Lines,
         NEW t, t = PrintLine(s, line)
  PROVE  /\ ChangesAt(s, t, s.current)
         /\ t.text[s.current] # <<>> /\ Last(t.text[s.current]) = line
<1> DEFINE old == s.text[s.current]
           q == Append(old, line)
           new == IF Len(q) > MaxLines THEN Tail(q) ELSE q
<1>1. t = [s EXCEPT !.text[s.current] = new]
  BY DEF PrintLine
<1>2. old \in Texts
  BY DEF IsScreen
<1>3. old \in Seq(Lines) /\ Len(old) <= MaxLines /\ Len(old) \in Nat
  BY <1>2, LenProperties DEF Texts
<1> HIDE DEF old
<1>4. q \in Seq(Lines) /\ Len(q) = Len(old) + 1 /\ q[Len(old) + 1] = line /\ q # <<>>
  BY <1>3, AppendProperties
<1> HIDE DEF q
<1>5. Tail(q) \in Seq(Lines) /\ Len(Tail(q)) = Len(old) /\ \A i \in 1..Len(old) : Tail(q)[i] = q[i + 1]
  BY <1>3, <1>4, HeadTailProperties
<1>6. new \in Texts
  BY <1>3, <1>4, <1>5, MaxLinesAssumption DEF Texts
<1>7. new # <<>> /\ Last(new) = line
  <2>1. CASE Len(q) > MaxLines
    <3>1. Len(old) \in 1..Len(old) /\ Len(old) # 0
      BY <1>3, <1>4, <2>1, MaxLinesAssumption
    <3>2. Tail(q)[Len(old)] = line /\ Tail(q) # <<>>
      BY <1>3, <1>4, <1>5, <3>1
    <3> QED
      BY <1>5, <2>1, <3>2 DEF Last
  <2>2. CASE ~(Len(q) > MaxLines)
    BY <1>4, <2>2 DEF Last
  <2> QED
    BY <2>1, <2>2
<1> HIDE DEF new
<1> QED
  BY <1>1, <1>6, <1>7, TextChanges

LEMMA ClearLineIs ==
  ASSUME NEW s, IsScreen(s), s.current \in Views(s), NEW t,
         t = ClearLine(s) \/ t = ClearLineAll(s)
  PROVE  ChangesAt(s, t, s.current)
<1> DEFINE old == s.text[s.current]
           new == IF old = <<>> THEN old ELSE Front(old)
<1>1. old \in Texts
  BY DEF IsScreen
<1>2. new \in Texts
  <2>1. CASE old = <<>>
    BY <1>1, <2>1
  <2>2. CASE old # <<>>
    <3>1. old \in Seq(Lines) /\ Len(old) <= MaxLines /\ Len(old) \in Nat \ {0}
      BY <1>1, <2>2, EmptySeq, LenProperties DEF Texts
    <3> HIDE DEF old
    <3>2. Front(old) \in Seq(Lines) /\ Len(Front(old)) = Len(old) - 1
      <4>1. \A i \in 1..Len(old) : old[i] \in Lines
        BY <3>1, ElementOfSeq
      <4>2. /\ SubSeq(old, 1, Len(old) - 1) \in Seq(Lines)
            /\ Len(SubSeq(old, 1, Len(old) - 1)) = Len(old) - 1
        <5> DEFINE n == Len(old) - 1
        <5>1. n \in Int /\ n >= 0 /\ 1 \in Int /\ \A i \in 1..n : old[i] \in Lines
          BY <3>1, <4>1
        <5> HIDE DEF n
        <5>2. SubSeq(old, 1, n) \in Seq(Lines) /\ Len(SubSeq(old, 1, n)) = IF 1 <= n THEN n - 1 + 1 ELSE 0
          BY <5>1, SubSeqProperties
        <5>3. SubSeq(old, 1, n) \in Seq(Lines) /\ Len(SubSeq(old, 1, n)) = n
          BY <5>1, <5>2
        <5> QED
          BY <5>3 DEF n
      <4> QED
        BY <4>2 DEF Front
    <3> QED
      BY <2>2, <3>1, <3>2, MaxLinesAssumption DEF Texts
  <2> QED
    BY <2>1, <2>2
<1>3. CASE t = ClearLine(s)
  <2>1. t = [s EXCEPT !.text[s.current] = new]
    BY <1>3 DEF ClearLine
  <2> HIDE DEF new
  <2> QED
    BY <1>2, <2>1, TextChanges
<1>4. CASE t = ClearLineAll(s)
  <2>1. PICK e \in Texts : e = <<>>
    BY EmptyText
  <2>2. t = [s EXCEPT !.text[s.current] = e]
    BY <1>4, <2>1 DEF ClearLineAll
  <2> QED
    BY <2>2, TextChanges
<1> QED
  BY <1>3, <1>4

-----------------------------------------------------------------------------
(***************************************************************************)
(* What a script does to the screen.                                       *)
(***************************************************************************)
ScreenInv(s) == /\ IsScreen(s) /\ Settled(s) /\ CurrentIn(s)
                /\ ~s.torn => Shows(s)

\* t is s with another text or pen of the view v, which has been made current
ChangesIn(s, t, v) == t.current = v /\ \E u : u = SetCurrentView(s, v) /\ ChangesAt(u, t, v)

\* a call prints to one view and leaves the current one, or that one if it fails, or
\* leaves what all of them hold
Moves(s, t, fails) ==
  \/ \E v \in Views(s) : ChangesAt(s, t, v) /\ (fails => v = s.current)
  \/ \E v \in Views(s) : ChangesIn(s, t, v) /\ fails
  \/ Keeps(s, t)

LEMMA ChangeKeepsInv ==
  ASSUME NEW s, ScreenInv(s), NEW v \in Views(s), NEW t, ChangesAt(s, t, v)
  PROVE  /\ ScreenInv(t) /\ Moves(s, t, FALSE)
         /\ v = s.current => \A fails : Moves(s, t, fails)
BY DEF ScreenInv, ChangesAt, Settled, CurrentIn, Shows, OnScreen, Moves

LEMMA SetLayoutMoves ==
  ASSUME NEW s, ScreenInv(s), NEW l, IsLayout(l), NEW t, t = SetLayout(s, l), NEW fails
  PROVE  ScreenInv(t) /\ Moves(s, t, fails)
BY SetLayoutIs DEF ScreenInv, Moves

\* The layout of one view, which the title scene asks for.
LEMMA TextIsLayout ==
  ASSUME NEW n \in Names
  PROVE  IsLayout(Text(n))
<1> DEFINE c == TextNode(n)
           l == Text(n)
<1>1. c \in Nodes /\ c.type = "text"
  BY DEF Nodes, TextNode
<1>2. l = <<c>>
  BY DEF Text
<1> HIDE DEF c
<1>3. l \in Seq(Nodes) /\ Len(l) = 1 /\ DOMAIN l = {1} /\ l[1] = c
  BY <1>1, <1>2
<1> HIDE DEF l
<1>4. Tops(l)[0] = 0 /\ \A i \in 1..1 : Tops(l)[i] = Counted(Tops(l)[i - 1], l[i])
  BY <1>3, TopsTakeSteps
<1>5. Tops(l)[1] = 1
  BY <1>1, <1>3, <1>4 DEF Counted
<1>6. IsLayout(l)
  BY <1>3, <1>5 DEF IsLayout
<1> QED
  BY <1>6 DEF l

LEMMA SetViewMoves ==
  ASSUME NEW s, ScreenInv(s), NEW v \in Views(s), NEW t, t = SetCurrentView(s, v), NEW fails
  PROVE  ScreenInv(t) /\ Moves(s, t, fails)
<1>1. v \in Names
  BY DEF ScreenInv, IsScreen
<1>2. /\ IsScreen(t) /\ Views(t) = Views(s)
      /\ t.text = s.text /\ t.pen = s.pen /\ t.parent = s.parent
      /\ t.root = s.root /\ t.current = v /\ t.torn = s.torn
  BY <1>1, SetCurrentViewIs DEF ScreenInv
<1> QED
  BY <1>2 DEF ScreenInv, Moves, Keeps, Settled, CurrentIn, Shows, OnScreen

\* What changes at a view that was made current is at that view, and the one that
\* was current is so again.
LEMMA SetBackIs ==
  ASSUME NEW s, ScreenInv(s), NEW v \in Views(s),
         NEW d, ChangesAt(SetCurrentView(s, v), d, v), NEW t, t = SetBack(d, s.current)
  PROVE  ChangesAt(s, t, v)
<1> DEFINE u == SetCurrentView(s, v)
<1>1. v \in Names /\ s.current \in Views(s) /\ s.current \in Names
  BY DEF ScreenInv, IsScreen, CurrentIn
<1>2. /\ IsScreen(u) /\ Views(u) = Views(s)
      /\ u.text = s.text /\ u.pen = s.pen /\ u.parent = s.parent
      /\ u.root = s.root /\ u.current = v /\ u.torn = s.torn
  BY <1>1, SetCurrentViewIs DEF ScreenInv
<1> HIDE DEF u
<1>3. ChangesAt(u, d, v)
  BY DEF u
<1>4. t = SetCurrentView(d, s.current) /\ IsScreen(d) /\ Views(d) = Views(s)
  BY <1>1, <1>2, <1>3 DEF SetBack, ChangesAt
<1>5. /\ IsScreen(t) /\ Views(t) = Views(d)
      /\ t.text = d.text /\ t.pen = d.pen /\ t.parent = d.parent
      /\ t.root = d.root /\ t.current = s.current /\ t.torn = d.torn
  BY <1>1, <1>4, SetCurrentViewIs
<1> QED
  BY <1>2, <1>3, <1>4, <1>5 DEF ChangesAt

LEMMA PrintInIs ==
  ASSUME NEW s, IsScreen(s), s.current \in Views(s)
  PROVE  ChangesAt(s, PrintIn(s), s.current)
<1>1. s.pen[s.current] \in Lines
  BY DEF IsScreen, Lines
<1> QED
  BY <1>1, PrintLineIs DEF PrintIn

\* Every call of a script leaves a screen that holds.
LEMMA CallMoves ==
  ASSUME NEW g, ScriptCalls(g), ScreenInv(screen)
  PROVE  ScreenInv(screen') /\ Moves(screen, screen', raised')
<1>1. IsScreen(screen) /\ CurrentIn(screen)
  BY DEF ScreenInv
<1>2. CASE ScriptPrints(g)
  <2>1. screen.current \in Views(screen) /\ (screen' = PrintIn(screen) \/ screen' = screen)
    BY <1>2 DEF ScriptPrints, CanPrint, Call, Panics
  <2>2. CASE screen' = PrintIn(screen)
    BY <1>1, <2>1, <2>2, PrintInIs, ChangeKeepsInv
  <2>3. CASE screen' = screen
    BY <2>3 DEF Moves, Keeps
  <2> QED
    BY <2>1, <2>2, <2>3
<1>3. CASE ScriptClears(g)
  <2>1. screen.current \in Views(screen) /\ (screen' = ClearLine(screen) \/ screen' = ClearLineAll(screen))
    BY <1>3 DEF ScriptClears, CanPrint, Call
  <2> QED
    BY <1>1, <2>1, ClearLineIs, ChangeKeepsInv
<1>4. CASE ScriptSetsPen(g)
  <2>1. PICK p \in Pens : screen.current \in Views(screen) /\ screen' = SetPen(screen, p)
    BY <1>4 DEF ScriptSetsPen, CanPrint, Call
  <2> QED
    BY <1>1, <2>1, PenChanges, ChangeKeepsInv
<1>5. CASE ScriptVPrints(g)
  <2>1. PICK v \in Views(screen) :
          \/ screen' = SetBack(PrintIn(SetCurrentView(screen, v)), screen.current) /\ raised' = FALSE
          \/ screen' = PrintIn(SetCurrentView(screen, v)) /\ raised' = TRUE
          \/ screen' = SetCurrentView(screen, v)
    BY <1>5 DEF ScriptVPrints, VPrint, Panics, Call
  <2>2. PICK u : u = SetCurrentView(screen, v)
    OBVIOUS
  <2>3. IsScreen(u) /\ u.current = v /\ v \in Views(u)
    BY <1>1, <2>2, SetCurrentViewIs DEF IsScreen
  <2>4. PICK d : d = PrintIn(u)
    OBVIOUS
  <2>5. ChangesAt(u, d, v)
    BY <2>3, <2>4, PrintInIs
  <2>6. CASE screen' = SetBack(d, screen.current) /\ raised' = FALSE
    <3>1. ChangesAt(screen, screen', v)
      BY <2>2, <2>5, <2>6, SetBackIs
    <3> QED
      BY <2>6, <3>1, ChangeKeepsInv
  <2>7. CASE screen' = d /\ raised' = TRUE
    <3>1. ScreenInv(u) /\ v \in Views(u)
      BY <2>2, <2>3, SetViewMoves
    <3>2. ScreenInv(screen')
      BY <2>5, <2>7, <3>1, ChangeKeepsInv
    <3>3. ChangesIn(screen, screen', v)
      BY <2>2, <2>3, <2>5, <2>7 DEF ChangesIn, ChangesAt
    <3> QED
      BY <2>7, <3>2, <3>3 DEF Moves
  <2>8. CASE screen' = u
    BY <2>2, <2>8, SetViewMoves
  <2> QED
    BY <2>1, <2>2, <2>4, <2>6, <2>7, <2>8
<1>6. CASE ScriptVClears(g)
  <2>1. PICK v \in Views(screen) :
          screen' = SetBack(ClearLineAll(SetCurrentView(screen, v)), screen.current) /\ raised' = FALSE
    BY <1>6 DEF ScriptVClears, VClear, Call
  <2>2. PICK u : u = SetCurrentView(screen, v)
    OBVIOUS
  <2>3. IsScreen(u) /\ u.current = v /\ v \in Views(u)
    BY <1>1, <2>2, SetCurrentViewIs DEF IsScreen
  <2>4. PICK d : d = ClearLineAll(u)
    OBVIOUS
  <2>5. ChangesAt(u, d, v)
    BY <2>3, <2>4, ClearLineIs
  <2>6. ChangesAt(screen, screen', v)
    BY <2>1, <2>2, <2>4, <2>5, SetBackIs
  <2> QED
    BY <2>1, <2>6, ChangeKeepsInv
<1>7. CASE ScriptSetsView(g)
  <2>1. PICK v \in Views(screen) : screen' = SetCurrentView(screen, v)
    BY <1>7 DEF ScriptSetsView, Call
  <2> QED
    BY <2>1, SetViewMoves
<1>8. CASE ScriptSetsLayout(g)
  <2>1. PICK l \in Layouts : screen' = SetLayout(screen, l)
    BY <1>8 DEF ScriptSetsLayout, SetsLayout, Call
  <2>2. IsLayout(l)
    BY LayoutsAssumption
  <2> QED
    BY <2>1, <2>2, SetLayoutMoves
<1>9. CASE TitleSetsLayout(g)
  <2>1. screen' = SetLayout(screen, Text(screen.current))
    BY <1>9 DEF TitleSetsLayout, SetsLayout, Call
  <2>2. IsLayout(Text(screen.current))
    BY <1>1, TextIsLayout DEF IsScreen
  <2> QED
    BY <2>1, <2>2, SetLayoutMoves
<1> QED
  BY <1>2, <1>3, <1>4, <1>5, <1>6, <1>7, <1>8, <1>9 DEF ScriptCalls

-----------------------------------------------------------------------------
(***************************************************************************)
(* The games.                                                              *)
(***************************************************************************)
Stations == {"init", "main", "failing", "done"}

\* the error of a game is what one reads
Readable(s) ==
  CanPrint(s) /\ s.text[s.current] # <<>> /\ Last(s.text[s.current]) = "error"

\* errors of games are on their way, or kept
ErrorOf(g) == mef = g \/ ModelError(g, "error") \in ToSet(queue)

StageNames == {"dead", "alive", "visible", "focused"}

Events == [type : {"lifecycle"}, from : StageNames, to : StageNames]
          \cup [type : {"key"}, code : {"f5", "enter"}]
          \cup [type : {"model error"}, game : Nat \ {0}, cause : {"nil", "restart", "error"}]

GamesTyped ==
  /\ app \in {"running", "waiting", "ended", "crashed"}
  /\ running \in BOOLEAN /\ restart \in BOOLEAN
  /\ thread \in Seq(Stations) /\ queue \in Seq(Events)
  /\ stage \in StageNames

\* Only the last game runs; the loop that runs and has none waits for the first.
LastRuns ==
  /\ \A g \in DOMAIN thread : IsRunning(g) => g = gen
  /\ app = "running" /\ ~running => thread = <<>>

\* A game whose error is told of is over, and if it was the last one, the error is
\* what one reads.
ErrorsTold ==
  /\ mef # NoError => mef \in DOMAIN thread
  /\ \A g \in Nat \ {0} : ErrorOf(g) =>
        g \in DOMAIN thread /\ thread[g] = "done" /\ (g = gen => Readable(screen))

DesktopInv == ScreenInv(screen) /\ GamesTyped /\ LastRuns /\ ErrorsTold

\* events that are no errors
LEMMA EventsAre ==
  /\ \A from, to \in StageNames : LifecycleEvent(from, to) \in Events
  /\ \A code \in {"f5", "enter"} : KeyEvent(code) \in Events
  /\ \A g \in Nat \ {0}, cause \in {"nil", "restart", "error"} : ModelError(g, cause) \in Events
  /\ \A from, to, g : LifecycleEvent(from, to) # ModelError(g, "error")
  /\ \A code, g : KeyEvent(code) # ModelError(g, "error")
  /\ \A g, h, c : ModelError(g, c) = ModelError(h, "error") <=> g = h /\ c = "error"
<1>1. /\ \A from, to : LifecycleEvent(from, to).type = "lifecycle"
      /\ \A code : KeyEvent(code).type = "key"
      /\ \A g, c : /\ ModelError(g, c).type = "model error" /\ ModelError(g, c).game = g
                   /\ ModelError(g, c).cause = c
  BY DEF LifecycleEvent, KeyEvent, ModelError
<1>2. /\ \A from, to \in StageNames : LifecycleEvent(from, to) \in Events
      /\ \A code \in {"f5", "enter"} : KeyEvent(code) \in Events
      /\ \A g \in Nat \ {0}, cause \in {"nil", "restart", "error"} : ModelError(g, cause) \in Events
  BY DEF Events, LifecycleEvent, KeyEvent, ModelError
<1>3. ASSUME NEW from, NEW to, NEW g
      PROVE  LifecycleEvent(from, to) # ModelError(g, "error")
  BY <1>1, LifecycleEvent(from, to).type # ModelError(g, "error").type
<1>4. ASSUME NEW code, NEW g
      PROVE  KeyEvent(code) # ModelError(g, "error")
  BY <1>1, KeyEvent(code).type # ModelError(g, "error").type
<1>5. ASSUME NEW g, NEW h, NEW c
      PROVE  ModelError(g, c) = ModelError(h, "error") <=> g = h /\ c = "error"
  <2>1. ASSUME ModelError(g, c) = ModelError(h, "error")
        PROVE  g = h /\ c = "error"
    <3>1. ModelError(g, c).game = ModelError(h, "error").game
      BY <2>1
    <3>2. ModelError(g, c).cause = ModelError(h, "error").cause
      BY <2>1
    <3>3. g = h
      BY <3>1 DEF ModelError
    <3>4. c = "error"
      BY <3>2 DEF ModelError
    <3> QED
      BY <3>3, <3>4
  <2> QED
    BY <2>1
<1> QED
  BY <1>2, <1>3, <1>4, <1>5, Zenon

LEMMA ToSetOfTail ==
  ASSUME NEW S, NEW q \in Seq(S), q # <<>>, NEW r \in Seq(S)
  PROVE  /\ Tail(q) \o r \in Seq(S)
         /\ ToSet(Tail(q) \o r) \subseteq ToSet(q) \cup ToSet(r)
         /\ Head(q) \in ToSet(q) /\ Head(q) \in S
<1>1. /\ Len(q) \in Nat \ {0} /\ DOMAIN q = 1..Len(q) /\ Len(r) \in Nat /\ DOMAIN r = 1..Len(r)
      /\ Tail(q) \in Seq(S) /\ Len(Tail(q)) = Len(q) - 1 /\ Head(q) = q[1] /\ q[1] \in S
  OBVIOUS
<1>2. \A i \in 1 .. Len(q) - 1 : Tail(q)[i] = q[i + 1]
  OBVIOUS
<1> DEFINE t == Tail(q)
<1> HIDE DEF t
<1>3. /\ t \o r \in Seq(S) /\ Len(t \o r) = Len(t) + Len(r)
      /\ \A i \in 1 .. Len(t) + Len(r) : (t \o r)[i] = IF i <= Len(t) THEN t[i] ELSE r[i - Len(t)]
  BY <1>1, ConcatProperties DEF t
<1>4. t \in Seq(S) /\ Len(t) = Len(q) - 1 /\ \A i \in 1 .. Len(q) - 1 : t[i] = q[i + 1]
  BY <1>1, <1>2 DEF t
<1>5. ASSUME NEW i \in 1 .. Len(t) + Len(r)
      PROVE  (t \o r)[i] \in ToSet(q) \cup ToSet(r)
  <2>1. CASE i <= Len(t)
    <3>1. i + 1 \in DOMAIN q /\ (t \o r)[i] = q[i + 1]
      BY <1>1, <1>3, <1>4, <2>1
    <3> QED
      BY <3>1 DEF ToSet
  <2>2. CASE ~(i <= Len(t))
    <3>1. i - Len(t) \in DOMAIN r /\ (t \o r)[i] = r[i - Len(t)]
      BY <1>1, <1>3, <1>4, <2>2
    <3> QED
      BY <3>1 DEF ToSet
  <2> QED
    BY <2>1, <2>2
<1>6. ToSet(t \o r) \subseteq ToSet(q) \cup ToSet(r)
  <2>1. DOMAIN (t \o r) = 1 .. Len(t) + Len(r)
    BY <1>3
  <2> QED
    BY <1>5, <2>1 DEF ToSet
<1>7. Head(q) \in ToSet(q)
  BY <1>1 DEF ToSet
<1> QED
  BY <1>1, <1>3, <1>6, <1>7 DEF t

LEMMA FirstScreenHolds == ScreenInv(FirstScreen)
<1> DEFINE vs == {FirstView}
           none == FALSE
<1>1. PICK e \in Texts : e = <<>>
  BY EmptyText
<1> DEFINE texts == [v \in vs |-> e]
           pens == [v \in vs |-> "plain"]
           parents == [v \in vs |-> "screen"]
<1>2. PICK s : s = FirstScreen
  OBVIOUS
<1>3. s = [text |-> texts, pen |-> pens, parent |-> parents,
           root |-> FirstView, current |-> FirstView, torn |-> none]
  BY <1>1, <1>2 DEF FirstScreen
<1>4. /\ texts \in [vs -> Texts] /\ pens \in [vs -> Pens]
      /\ parents \in [vs -> {"screen", "none"}] /\ parents[FirstView] = "screen"
      /\ none \in BOOLEAN /\ ~none /\ FirstView \in Names /\ vs \subseteq Names
  BY NamesAssumption DEF Pens
<1> HIDE DEF texts, pens, parents, none
<1>5. Views(s) = vs
  BY <1>3, <1>4 DEF Views
<1>6. /\ s.text = texts /\ s.pen = pens /\ s.parent = parents
      /\ s.root = FirstView /\ s.current = FirstView /\ s.torn = none
  BY <1>3
<1>7. IsScreen(s)
  <2>1. s = [text |-> s.text, pen |-> s.pen, parent |-> s.parent,
             root |-> s.root, current |-> s.current, torn |-> s.torn]
    BY <1>3, <1>6
  <2>2. parents \in [vs -> {"screen", "none", "new"}]
    BY <1>4
  <2> QED
    BY <1>4, <1>5, <1>6, <2>1, <2>2 DEF IsScreen
<1> QED
  BY <1>2, <1>4, <1>5, <1>6, <1>7 DEF ScreenInv, Settled, CurrentIn, Shows, OnScreen

LEMMA DesktopInitHolds ==
  ASSUME DesktopInit
  PROVE  DesktopInv
<1>1. ScreenInv(screen)
  BY FirstScreenHolds DEF DesktopInit
<1>2. queue = <<>> /\ thread = <<>> /\ mef = NoError /\ DOMAIN thread = {} /\ DOMAIN queue = {}
  BY DEF DesktopInit
<1>3. GamesTyped
  <2>1. thread \in Seq(Stations) /\ queue \in Seq(Events)
    BY <1>2
  <2>2. running \in BOOLEAN /\ restart \in BOOLEAN
    BY DEF DesktopInit
  <2>3. app = "running" /\ stage = "dead"
    BY DEF DesktopInit
  <2> QED
    BY <2>1, <2>2, <2>3 DEF GamesTyped, StageNames
<1>4. LastRuns
  BY <1>2 DEF LastRuns
<1>5. ToSet(queue) = {}
  BY <1>2 DEF ToSet
<1>6. ErrorsTold
  BY <1>2, <1>5 DEF ErrorsTold, ErrorOf, NoError
<1> QED
  BY <1>1, <1>3, <1>4, <1>6 DEF DesktopInv

\* A step that leaves the screen and the games alone, and adds no error.
LEMMA NothingStarts ==
  ASSUME DesktopInv, screen' = screen, thread' = thread,
         queue' \in Seq(Events), stage' \in StageNames,
         app' \in {"running", "waiting", "ended", "crashed"},
         running' \in BOOLEAN, restart' \in BOOLEAN,
         app' = "running" /\ ~running' => app = "running" /\ ~running,
         mef' = NoError \/ (mef' \in Nat \ {0} /\ ErrorOf(mef')),
         \A g \in Nat \ {0} : ModelError(g, "error") \in ToSet(queue')
                                => ModelError(g, "error") \in ToSet(queue)
  PROVE  DesktopInv'
<1>1. ScreenInv(screen)' /\ GamesTyped'
  BY DEF DesktopInv, ScreenInv, GamesTyped
<1>2. gen' = gen /\ \A g : IsRunning(g)' <=> IsRunning(g)
  BY DEF gen, IsRunning
<1>3. LastRuns'
  BY <1>2 DEF DesktopInv, LastRuns
<1>4. \A g \in Nat \ {0} : ErrorOf(g)' => ErrorOf(g)
  BY DEF ErrorOf, NoError
<1>5. ErrorsTold'
  BY <1>2, <1>4 DEF DesktopInv, ErrorsTold, Readable, CanPrint
<1> QED
  BY <1>1, <1>3, <1>5 DEF DesktopInv

\* A game starts when no other runs.
LEMMA GameStarts ==
  ASSUME DesktopInv, RunGameThread, \A g \in DOMAIN thread : ~ IsRunning(g),
         screen' = screen, queue' \in Seq(Events), stage' \in StageNames,
         app' \in {"running", "waiting", "ended", "crashed"}, mef' \in {mef, NoError},
         \A g \in Nat \ {0} : ModelError(g, "error") \in ToSet(queue')
                                => ModelError(g, "error") \in ToSet(queue)
  PROVE  DesktopInv'
<1>1. thread \in Seq(Stations) /\ "init" \in Stations
  BY DEF DesktopInv, GamesTyped, Stations
<1>2. /\ thread' \in Seq(Stations) /\ Len(thread') = Len(thread) + 1 /\ Len(thread) \in Nat
      /\ DOMAIN thread = 1..Len(thread) /\ DOMAIN thread' = 1..(Len(thread) + 1)
      /\ \A g \in DOMAIN thread : thread'[g] = thread[g]
  <2>1. thread' = Append(thread, "init")
    BY DEF RunGameThread
  <2> QED
    BY <1>1, <2>1, AppendProperties
<1>3. ScreenInv(screen)' /\ GamesTyped'
  BY <1>2 DEF DesktopInv, ScreenInv, GamesTyped, RunGameThread
<1>4. LastRuns'
  BY <1>2 DEF LastRuns, IsRunning, gen, RunGameThread
<1>5. \A g \in Nat \ {0} : ErrorOf(g)' => ErrorOf(g)
  BY DEF ErrorOf, NoError
<1>6. \A g \in DOMAIN thread : g # gen'
  BY <1>2 DEF gen
<1>7. ErrorsTold'
  <2>1. mef' # NoError => mef' \in DOMAIN thread'
    BY <1>2 DEF DesktopInv, ErrorsTold
  <2>2. \A g \in Nat \ {0} : ErrorOf(g)' => g \in DOMAIN thread /\ thread[g] = "done"
    BY <1>5 DEF DesktopInv, ErrorsTold
  <2> QED
    BY <1>2, <1>6, <2>1, <2>2 DEF ErrorsTold
<1> QED
  BY <1>3, <1>4, <1>7 DEF DesktopInv

\* The errors in a queue that has one more event.
LEMMA QueueGrows ==
  ASSUME GamesTyped, NEW e \in Events, queue' = Append(queue, e)
  PROVE  /\ queue' \in Seq(Events)
         /\ \A g : ModelError(g, "error") \in ToSet(queue')
                     <=> ModelError(g, "error") \in ToSet(queue) \/ e = ModelError(g, "error")
<1>1. queue \in Seq(Events)
  BY DEF GamesTyped
<1>2. ToSet(queue') = ToSet(queue) \cup {e}
  BY <1>1, ToSetOfAppend
<1> QED
  BY <1>1, <1>2

LEMMA WindowHolds ==
  ASSUME DesktopInv, Window
  PROVE  DesktopInv'
<1>1. PICK e \in Events :
        /\ Event(e) /\ stage' \in StageNames
        /\ \A g : e # ModelError(g, "error")
  <2>1. CASE \E to \in {"dead", "alive", "visible", "focused"} : WindowChanges(to)
    <3>1. PICK to \in StageNames : WindowChanges(to)
      BY <2>1 DEF StageNames
    <3>2. stage \in StageNames
      BY DEF DesktopInv, GamesTyped
    <3> QED
      BY <3>1, <3>2, EventsAre DEF WindowChanges
  <2>2. CASE \E code \in {"f5", "enter"} : KeyPressed(code)
    <3>1. PICK code \in {"f5", "enter"} : KeyPressed(code)
      BY <2>2
    <3>2. stage' \in StageNames
      BY <3>1 DEF KeyPressed, DesktopInv, GamesTyped
    <3> QED
      BY <3>1, <3>2, EventsAre DEF KeyPressed
  <2> QED
    BY <2>1, <2>2 DEF Window
<1>2. queue' = Append(queue, e) /\ UNCHANGED <<screen, app, running, restart, thread, mef>>
  BY <1>1 DEF Event, game
<1>3. /\ queue' \in Seq(Events)
      /\ \A g : ModelError(g, "error") \in ToSet(queue') => ModelError(g, "error") \in ToSet(queue)
  BY <1>1, <1>2, QueueGrows DEF DesktopInv
<1>4. mef = NoError \/ (mef \in Nat \ {0} /\ ErrorOf(mef))
  <2>1. DOMAIN thread \subseteq Nat \ {0}
    BY DEF DesktopInv, GamesTyped
  <2> QED
    BY <2>1 DEF DesktopInv, ErrorsTold, ErrorOf
<1> QED
  BY <1>1, <1>2, <1>3, <1>4, NothingStarts DEF DesktopInv, GamesTyped

\* What the loop makes of an event: it goes on, or starts a game when no other
\* runs.
LEMMA EventIsTaken ==
  ASSUME DesktopInv, NextEvent
  PROVE  DesktopInv'
<1> DEFINE e == Head(queue)
<1>1. /\ app = "running" /\ UNCHANGED <<screen, stage>>
      /\ queue' = Tail(queue) \o SendsItself(e) /\ queue \in Seq(Events) /\ queue # <<>>
  BY DEF NextEvent, DesktopInv, GamesTyped
<1>2. SendsItself(e) \in Seq(Events) /\ \A g : ModelError(g, "error") \notin ToSet(SendsItself(e))
  <2>1. StageRestartEvent \in Events /\ \A g : StageRestartEvent # ModelError(g, "error")
    BY EventsAre DEF StageRestartEvent, StageNames
  <2>2. PICK r : r = StageRestartEvent
    OBVIOUS
  <2>3. <<r>> \in Seq(Events) /\ ToSet(<<r>>) = {r}
    BY <2>1, <2>2 DEF ToSet
  <2>4. <<>> \in Seq(Events) /\ ToSet(<<>>) = {}
    BY DEF ToSet
  <2> QED
    BY <2>1, <2>2, <2>3, <2>4 DEF SendsItself
<1>3. /\ queue' \in Seq(Events) /\ e \in Events /\ e \in ToSet(queue)
      /\ \A g : ModelError(g, "error") \in ToSet(queue') => ModelError(g, "error") \in ToSet(queue)
  <2>1. PICK r \in Seq(Events) : r = SendsItself(e)
    BY <1>2
  <2> QED
    BY <1>1, <1>2, <2>1, ToSetOfTail
<1>4. mef = NoError \/ (mef \in Nat \ {0} /\ ErrorOf(mef))
  <2>1. DOMAIN thread \subseteq Nat \ {0}
    BY DEF DesktopInv, GamesTyped
  <2> QED
    BY <2>1 DEF DesktopInv, ErrorsTold, ErrorOf
<1>5. /\ stage' \in StageNames /\ running \in BOOLEAN /\ restart \in BOOLEAN
      /\ ~running => \A g \in DOMAIN thread : ~ IsRunning(g)
  BY <1>1 DEF DesktopInv, GamesTyped, LastRuns
<1>6. \/ e.type = "lifecycle" /\ OnLifecycle(e)
      \/ e.type = "model error" /\ OnModelError(e)
      \/ e.type = "key" /\ OnKey(e)
  <2>1. e.type \in {"lifecycle", "model error", "key"}
    BY <1>3 DEF Events
  <2>2. CASE e.type = "lifecycle"
    BY <2>2 DEF NextEvent
  <2>3. CASE e.type = "model error"
    BY <2>3 DEF NextEvent
  <2>4. CASE e.type = "key"
    BY <2>4 DEF NextEvent
  <2> QED
    BY <2>1, <2>2, <2>3, <2>4
<1> HIDE DEF e
<1>7. CASE AppEnds
  BY <1>1, <1>3, <1>4, <1>5, <1>7, NothingStarts DEF AppEnds, QuitGame
<1>8. CASE UNCHANGED <<app, game, mef>>
  BY <1>1, <1>3, <1>4, <1>5, <1>8, NothingStarts DEF game, DesktopInv, GamesTyped
<1>9. CASE ~running /\ RunGameThread /\ app' = app /\ mef' \in {mef, NoError}
  BY <1>1, <1>3, <1>5, <1>9, GameStarts
<1>10. CASE app' = "waiting" /\ restart' = TRUE /\ QuitGame /\ UNCHANGED <<thread, mef>>
  BY <1>1, <1>3, <1>4, <1>5, <1>10, NothingStarts DEF QuitGame
<1>11. CASE e.type = "model error" /\ OnModelError(e) /\ ~AppEnds
  <2>1. /\ e.cause # "nil" /\ mef' = (IF e.cause = "restart" THEN NoError ELSE e.game)
        /\ UNCHANGED <<app, running, restart, thread>>
    BY <1>11 DEF OnModelError, game
  <2>2. e.cause # "restart" => e.game \in Nat \ {0} /\ e = ModelError(e.game, "error")
    BY <1>3, <1>11, <2>1 DEF Events, ModelError
  <2>3. mef' = NoError \/ (mef' \in Nat \ {0} /\ ErrorOf(mef'))
    BY <1>3, <2>1, <2>2 DEF ErrorOf
  <2> QED
    BY <1>1, <1>3, <1>5, <2>1, <2>3, NothingStarts DEF DesktopInv, GamesTyped
<1>12. CASE OnLifecycle(e)
  BY <1>7, <1>8, <1>9, <1>10, <1>12 DEF OnLifecycle, OnRestart, OnVisible
<1>13. CASE OnKey(e)
  BY <1>7, <1>8, <1>13 DEF OnKey
<1> QED
  BY <1>6, <1>7, <1>11, <1>12, <1>13

\* Another game starts when the last has ended, and only then.
LEMMA RestartHolds ==
  ASSUME DesktopInv, RestartGameThread
  PROVE  DesktopInv'
<1>1. \A g \in DOMAIN thread : ~ IsRunning(g)
  BY DEF DesktopInv, LastRuns, RestartGameThread, GameStopped
<1> QED
  BY <1>1, GameStarts DEF RestartGameThread, DesktopInv, GamesTyped

LEMMA TimeoutHolds ==
  ASSUME DesktopInv, QuitTimeout
  PROVE  DesktopInv'
<1>1. mef = NoError \/ (mef \in Nat \ {0} /\ ErrorOf(mef))
  <2>1. DOMAIN thread \subseteq Nat \ {0}
    BY DEF DesktopInv, GamesTyped
  <2> QED
    BY <2>1 DEF DesktopInv, ErrorsTold, ErrorOf
<1> QED
  BY <1>1, NothingStarts DEF QuitTimeout, AppEnds, QuitGame, DesktopInv, GamesTyped

\* A game goes from one station to another; its error, if it is told of now, can be
\* read.
LEMMA GameGoes ==
  ASSUME DesktopInv, NEW g, NEW from, NEW to \in Stations, Goes(g, from, to), from # "done",
         ScreenInv(screen'), queue' \in Seq(Events), UNCHANGED <<stage, running, mef>>,
         app' \in {app, "crashed"}, restart' \in BOOLEAN,
         \A h : ModelError(h, "error") \in ToSet(queue')
                  => \/ ModelError(h, "error") \in ToSet(queue)
                     \/ h = g /\ to = "done" /\ Readable(screen')
  PROVE  DesktopInv'
<1>1. /\ thread \in Seq(Stations) /\ g \in DOMAIN thread /\ thread[g] = from
      /\ thread' = [thread EXCEPT ![g] = to]
  BY DEF Goes, DesktopInv, GamesTyped
<1>2. /\ thread' \in Seq(Stations) /\ Len(thread') = Len(thread) /\ DOMAIN thread' = DOMAIN thread
      /\ thread'[g] = to /\ \A h \in DOMAIN thread : h # g => thread'[h] = thread[h]
  BY <1>1
<1>3. g = gen /\ gen' = gen
  BY <1>1, <1>2 DEF DesktopInv, LastRuns, IsRunning, gen
<1>4. ScreenInv(screen)' /\ GamesTyped'
  BY <1>2 DEF DesktopInv, GamesTyped
<1>5. LastRuns'
  <2>1. thread # <<>>
    BY <1>1
  <2> QED
    BY <1>2, <1>3, <2>1 DEF DesktopInv, LastRuns, IsRunning
<1>6. \A h \in Nat \ {0} : ErrorOf(h) => h # g
  BY <1>1 DEF DesktopInv, ErrorsTold
<1>7. ErrorsTold'
  <2>1. mef' # NoError => mef' \in DOMAIN thread'
    BY <1>2 DEF DesktopInv, ErrorsTold
  <2>2. ASSUME NEW h \in Nat \ {0}, ErrorOf(h)'
        PROVE  h \in DOMAIN thread' /\ thread'[h] = "done" /\ (h = gen' => Readable(screen'))
    <3>1. CASE ErrorOf(h)
      BY <1>2, <1>3, <1>6, <3>1 DEF DesktopInv, ErrorsTold
    <3>2. CASE ~ErrorOf(h)
      BY <1>1, <1>2, <2>2, <3>2 DEF ErrorOf
    <3> QED
      BY <3>1, <3>2
  <2> QED
    BY <2>1, <2>2 DEF ErrorsTold
<1> QED
  BY <1>4, <1>5, <1>7 DEF DesktopInv

LEMMA GameThreadHolds ==
  ASSUME DesktopInv, NEW g, GameThread(g)
  PROVE  DesktopInv' /\ Moves(screen, screen', raised')
<1>1. /\ queue \in Seq(Events) /\ running \in BOOLEAN /\ restart \in BOOLEAN
      /\ ScreenInv(screen) /\ IsScreen(screen) /\ thread \in Seq(Stations)
  BY DEF DesktopInv, GamesTyped, ScreenInv
<1>2. UNCHANGED screen => Moves(screen, screen', raised')
  BY DEF Moves, Keeps
<1>3. CASE InitEnds(g)
  <2>1. PICK to \in {"main", "failing"} : Goes(g, "init", to)
    BY <1>3 DEF InitEnds
  <2>2. UNCHANGED <<screen, queue, app, mef, stage, running, restart>>
    BY <1>3 DEF InitEnds, loop
  <2> QED
    BY <1>1, <1>2, <2>1, <2>2, GameGoes DEF Stations
<1>4. CASE MainFails(g)
  <2>1. Goes(g, "main", "failing") /\ UNCHANGED <<screen, queue, app, mef, stage, running, restart>>
    BY <1>4 DEF MainFails, loop
  <2> QED
    BY <1>1, <1>2, <2>1, GameGoes DEF Stations
<1>5. CASE MainReturns(g)
  <2>1. PICK cause \in {"restart", "nil"} : queue' = Append(queue, ModelError(g, cause))
    BY <1>5 DEF MainReturns
  <2>2. /\ Goes(g, "main", "done") /\ UNCHANGED <<screen, stage, app, mef, running>>
        /\ restart' \in BOOLEAN
    BY <1>5 DEF MainReturns
  <2>3. g \in Nat \ {0}
    BY <1>1, <2>2 DEF Goes
  <2>4. ModelError(g, cause) \in Events /\ \A h : ModelError(g, cause) # ModelError(h, "error")
    BY <2>3, EventsAre
  <2>5. /\ queue' \in Seq(Events)
        /\ \A h : ModelError(h, "error") \in ToSet(queue') => ModelError(h, "error") \in ToSet(queue)
    BY <2>1, <2>4, QueueGrows DEF DesktopInv
  <2> QED
    BY <1>1, <1>2, <2>2, <2>5, GameGoes DEF Stations
<1>6. CASE OnErrorInModel(g)
  <2>1. CASE CanPrint(screen)
    <3>1. /\ Goes(g, "failing", "done") /\ screen' = PrintLine(screen, "error")
          /\ queue' = Append(queue, ModelError(g, "error"))
          /\ UNCHANGED <<app, stage, mef, running, restart>>
      BY <1>6, <2>1 DEF OnErrorInModel
    <3>2. screen.current \in Views(screen) /\ "error" \in Lines
      BY <2>1 DEF CanPrint, Lines
    <3>3. /\ ChangesAt(screen, screen', screen.current)
          /\ screen'.text[screen.current] # <<>> /\ Last(screen'.text[screen.current]) = "error"
      BY <1>1, <3>1, <3>2, PrintLineIs
    <3>4. Readable(screen')
      BY <3>2, <3>3 DEF ChangesAt, Readable, CanPrint
    <3>5. ScreenInv(screen') /\ Moves(screen, screen', raised')
      BY <1>1, <3>2, <3>3, ChangeKeepsInv
    <3>6. g \in Nat \ {0}
      BY <1>1, <3>1 DEF Goes
    <3>7. ModelError(g, "error") \in Events
      BY <3>6, EventsAre
    <3>8. /\ queue' \in Seq(Events)
          /\ \A h : ModelError(h, "error") \in ToSet(queue')
                      => ModelError(h, "error") \in ToSet(queue) \/ h = g
      BY <3>1, <3>7, QueueGrows, EventsAre DEF DesktopInv
    <3> QED
      BY <1>1, <3>1, <3>4, <3>5, <3>8, GameGoes DEF Stations
  <2>2. CASE ~CanPrint(screen)
    <3>1. /\ Goes(g, "failing", "failing") /\ app' = "crashed"
          /\ UNCHANGED <<screen, queue, stage, mef, running, restart>>
      BY <1>6, <2>2 DEF OnErrorInModel
    <3> QED
      BY <1>1, <1>2, <3>1, GameGoes DEF Stations
  <2> QED
    BY <2>1, <2>2
<1>7. CASE ScriptCalls(g)
  <2>1. ScreenInv(screen') /\ Moves(screen, screen', raised')
    BY <1>1, <1>7, CallMoves
  <2>2. /\ g \in DOMAIN thread /\ thread[g] = "main"
        /\ UNCHANGED <<queue, app, mef, stage, running, restart, thread>>
    BY <1>7 DEF ScriptCalls, ScriptPrints, ScriptClears, ScriptSetsPen, ScriptVPrints, ScriptVClears,
       ScriptSetsView, ScriptSetsLayout, TitleSetsLayout, SetsLayout, Call, loop, game
  <2>3. g = gen
    BY <2>2 DEF DesktopInv, LastRuns, IsRunning
  <2>4. \A h \in Nat \ {0} : ErrorOf(h) => h # gen
    BY <2>2, <2>3 DEF DesktopInv, ErrorsTold
  <2>5. GamesTyped' /\ LastRuns' /\ gen' = gen /\ \A h : ErrorOf(h)' <=> ErrorOf(h)
    BY <2>2 DEF DesktopInv, GamesTyped, LastRuns, IsRunning, gen, ErrorOf
  <2>6. ErrorsTold'
    BY <2>2, <2>4, <2>5 DEF DesktopInv, ErrorsTold
  <2> QED
    BY <2>1, <2>5, <2>6 DEF DesktopInv
<1> QED
  BY <1>3, <1>4, <1>5, <1>6, <1>7 DEF GameThread

LEMMA DesktopStepHolds ==
  ASSUME DesktopInv, [DesktopNext]_desktopVars
  PROVE  DesktopInv' /\ Moves(screen, screen', raised')
<1>1. UNCHANGED screen => Moves(screen, screen', raised')
  BY DEF Moves, Keeps
<1>2. CASE Window
  BY <1>1, <1>2, WindowHolds DEF Window, WindowChanges, KeyPressed, Event
<1>3. CASE EventLoop
  BY <1>1, <1>3, EventIsTaken, RestartHolds, TimeoutHolds
  DEF EventLoop, NextEvent, RestartGameThread, QuitTimeout
<1>4. CASE \E g \in DOMAIN thread : GameThread(g)
  BY <1>4, GameThreadHolds
<1>5. CASE UNCHANGED desktopVars
  BY <1>1, <1>5 DEF desktopVars, DesktopInv, GamesTyped, LastRuns, ErrorsTold, ErrorOf, IsRunning, gen
<1> QED
  BY <1>2, <1>3, <1>4, <1>5 DEF DesktopNext

-----------------------------------------------------------------------------
(***************************************************************************)
(* The theorems.                                                           *)
(***************************************************************************)
LEMMA DesktopHolds == DesktopSpec => []DesktopInv
<1>1. DesktopInit => DesktopInv
  BY DesktopInitHolds
<1>2. DesktopInv /\ [DesktopNext]_desktopVars => DesktopInv'
  BY DesktopStepHolds
<1> QED
  BY <1>1, <1>2, PTL DEF DesktopSpec

LEMMA DesktopInvSuffices ==
  ASSUME DesktopInv
  PROVE  ScreenHolds /\ OneGame
<1>1. ScreenInv(screen) /\ IsScreen(screen)
  BY DEF DesktopInv, ScreenInv
<1>2. Texts \subseteq UNION {[1..n -> Pens \cup {"error"}] : n \in 0..MaxLines}
  <2>1. ASSUME NEW q \in Texts
        PROVE  \E n \in 0..MaxLines : q \in [1..n -> Lines]
    <3>1. q \in Seq(Lines) /\ Len(q) \in Nat /\ Len(q) <= MaxLines
      BY DEF Texts
    <3>2. q \in [1..Len(q) -> Lines] /\ Len(q) \in 0..MaxLines
      BY <3>1, MaxLinesAssumption
    <3> QED
      BY <3>2
  <2> QED
    BY <2>1 DEF Lines
<1>3. DesktopTypeOK
  <2>1. screen.text \in [Views(screen) -> UNION {[1..n -> Pens \cup {"error"}] : n \in 0..MaxLines}]
    <3> DEFINE U == UNION {[1..n -> Pens \cup {"error"}] : n \in 0..MaxLines}
    <3>1. Texts \subseteq U
      BY <1>2
    <3> HIDE DEF U
    <3>2. screen.text \in [Views(screen) -> U]
      BY <1>1, <3>1 DEF IsScreen
    <3> QED
      BY <3>2 DEF U
  <2>2. /\ Views(screen) \subseteq Names /\ screen.pen \in [Views(screen) -> Pens]
        /\ screen.parent \in [Views(screen) -> {"screen", "none"}]
        /\ screen.current \in Names /\ screen.root \in Views(screen) \cup {NoView}
    BY <1>1 DEF ScreenInv, IsScreen, Settled
  <2>3. mef \in DOMAIN thread \cup {NoError}
    BY DEF DesktopInv, ErrorsTold
  <2> QED
    BY <2>1, <2>2, <2>3 DEF DesktopTypeOK, DesktopInv, GamesTyped, Stations
<1>4. CurrentLives /\ LayoutHolds
  BY <1>1 DEF ScreenInv, CurrentIn, Shows, CurrentLives, LayoutHolds
<1>5. ErrorShown
  <2>1. ASSUME mef # NoError, mef = gen
        PROVE  Readable(screen)
    <3>1. mef \in Nat \ {0} /\ ErrorOf(mef)
      BY <2>1 DEF DesktopInv, GamesTyped, ErrorsTold, ErrorOf
    <3> QED
      BY <2>1, <3>1 DEF DesktopInv, ErrorsTold
  <2> QED
    BY <2>1 DEF ErrorShown, Readable
<1>6. OneGame
  BY DEF OneGame, DesktopInv, LastRuns
<1> QED
  BY <1>3, <1>4, <1>5, <1>6 DEF ScreenHolds

\* There is a view to print to as long as one lives, a layout that did not fail is
\* what is on screen, and the error that stopped the game is what one reads while
\* the window waits for Enter (ScreenHolds): SetLayout closes what it does not name
\* after it has made another view current, and OnErrorInModel prints before it sends.
THEOREM ScreenAlwaysHolds == DesktopSpec => []ScreenHolds
<1>1. DesktopInv => ScreenHolds
  BY DesktopInvSuffices
<1> QED
  BY <1>1, DesktopHolds, PTL

\* At most one game runs (OneGame), however many restarts are asked for: the loop
\* waits for the thread of the game, or gives the application up.
THEOREM OneGameAlways == DesktopSpec => []OneGame
<1>1. DesktopInv => OneGame
  BY DesktopInvSuffices
<1> QED
  BY <1>1, DesktopHolds, PTL

LEMMA MovesKeeps ==
  ASSUME Moves(screen, screen', raised')
  PROVE  /\ Cardinality(Changed) <= 1 /\ (~SameLayout => Changed = {})
         /\ SameLayout /\ Changed # {} =>
              IF raised' THEN screen'.current \in Changed ELSE screen'.current = screen.current
<1>1. CASE Keeps(screen, screen')
  <2>1. Changed = {}
    BY <1>1 DEF Keeps, Changed, Kept, Views
  <2> QED
    BY <2>1, FS_EmptySet
<1>2. ASSUME NEW v \in Views(screen), Changed \subseteq {v}
      PROVE  Cardinality(Changed) <= 1
  <2>1. IsFiniteSet({v}) /\ Cardinality({v}) = 1
    BY FS_Singleton
  <2> QED
    BY <1>2, <2>1, FS_Subset
<1>3. ASSUME NEW v \in Views(screen), ChangesAt(screen, screen', v), raised' => v = screen.current
      PROVE  /\ Cardinality(Changed) <= 1 /\ SameLayout
             /\ Changed # {} =>
                  IF raised' THEN screen'.current \in Changed ELSE screen'.current = screen.current
  <2>1. SameLayout /\ screen'.current = screen.current
    BY <1>3 DEF ChangesAt, SameLayout, Views
  <2>2. Changed \subseteq {v}
    BY <1>3 DEF ChangesAt, Changed, Kept, Views
  <2> QED
    BY <1>2, <1>3, <2>1, <2>2
<1>4. ASSUME NEW v \in Views(screen), ChangesIn(screen, screen', v), raised'
      PROVE  /\ Cardinality(Changed) <= 1 /\ SameLayout
             /\ Changed # {} => screen'.current \in Changed
  <2>1. PICK u : u = SetCurrentView(screen, v) /\ ChangesAt(u, screen', v)
    BY <1>4 DEF ChangesIn
  <2>2. /\ u.text = screen.text /\ u.pen = screen.pen
        /\ u.parent = screen.parent /\ u.root = screen.root
    BY <2>1 DEF SetCurrentView
  <2>3. SameLayout /\ Changed \subseteq {v}
    BY <2>1, <2>2 DEF ChangesAt, SameLayout, Changed, Kept, Views
  <2> QED
    BY <1>2, <1>4, <2>3 DEF ChangesIn
<1> QED
  BY <1>1, <1>3, <1>4 DEF Moves

\* A layout keeps what the views it names again hold, and any other call changes one
\* view at most (TextKept): parseLayoutData takes a view that lives out of the tree
\* and never makes it anew.
THEOREM TextIsKept == DesktopSpec => TextKept
<1>1. DesktopInv /\ [DesktopNext]_desktopVars
        => [Cardinality(Changed) <= 1 /\ (~SameLayout => Changed = {})]_desktopVars
  BY DesktopStepHolds, MovesKeeps
<1> QED
  BY <1>1, DesktopHolds, PTL DEF DesktopSpec, TextKept

\* After a call that prints to a view by its name and does not fail, what was printed
\* to before is printed to again; after one that fails, the view printed to is the one
\* that it wrote to (CurrentIsRestored).
THEOREM CurrentComesBack == DesktopSpec => CurrentIsRestored
<1>1. DesktopInv /\ [DesktopNext]_desktopVars
        => [SameLayout /\ Changed # {} =>
              IF raised' THEN screen'.current \in Changed ELSE screen'.current = screen.current]_desktopVars
  BY DesktopStepHolds, MovesKeeps
<1> QED
  BY <1>1, DesktopHolds, PTL DEF DesktopSpec, CurrentIsRestored

-----------------------------------------------------------------------------
(***************************************************************************)
(* The application of the phone.                                           *)
(***************************************************************************)
Labels == {"off", "run", "sendE", "waitE", "sendT", "sendL", "waitT", "ending", "panic", "notify",
           "notified", "failed", "open", "wait", "thrClose", "thrWait", "closed", "select", "done",
           "gone", "task", "closing"}

\* the places of each thread
Placed ==
  /\ pc \in [Threads -> Labels]
  /\ pc["game"] \in Places["game"] /\ pc["app"] \in Places["app"]
  /\ pc["editor"] \in Places["editor"] /\ pc["loop"] \in Places["loop"]
  /\ pc["looper"] \in Places["looper"]

\* the types of what is sent, and of the rest
Told == out \in [Threads -> Messages] /\ emsg \in Messages /\ tmsg \in Messages

Flags ==
  /\ eErr \in BOOLEAN /\ closedE \in BOOLEAN /\ closedT \in BOOLEAN
  /\ thrClosed \in BOOLEAN /\ ctxDone \in BOOLEAN /\ late \in BOOLEAN

Typed ==
  /\ todo \in Nat /\ unseen \in Nat /\ pending \in Nat
  /\ nextE \in Nat /\ nextT \in Nat /\ prints \in 0..MaxPrints /\ waits \in 0..MaxWaits
  /\ res \in {"ok", "synced", "error"}
  /\ mainDone \in {"nil", "open", "closed"}

\* what each thread sends where it is
Sent ==
  /\ pc["app"] = "off" => \A t \in Threads : pc[t] = "off"
  /\ pc["game"] = "sendE" => out["game"].task \in {"print", "set", "sync", "get"}
  /\ pc["app"] = "sendE" => out["app"].task = "close"
  /\ pc["game"] = "sendT" => out["game"].task = "request"
  /\ pc["game"] = "sendL" => out["game"].task = "sync"
  /\ pc["editor"] = "sendL" => out["editor"].task = "sync"
  /\ pc["loop"] = "sendT" => out["loop"].task \in {"publish", "sync"}
  /\ pc["game"] = "sendE" /\ out["game"].task = "print" => out["game"].n > 0

\* where paragraphs are on their way: in the editor's task, in the message the
\* throttler's looper works on, in pendingEvents
OnTheWay ==
  /\ pc["editor"] # "sendT" => todo = 0
  /\ pc["editor"] = "sendT" =>
       \/ emsg.task = "print" /\ out["editor"].task = "add" /\ todo > 0
       \/ emsg.task = "sync" /\ out["editor"].task = "temporary" /\ todo = 0
  /\ pc["editor"] \in {"sendL", "waitT"} => emsg.task = "sync"
  /\ pc["looper"] # "task" => tmsg.task # "add"
  /\ InFlight <= unseen
  /\ LossClosesLooper

\* the barrier, step by step: the throttler has published, the editor has heard
\* of it, the game has
Barrier ==
  /\ pc["looper"] = "closing" => closedT
  /\ pc["looper"] = "done" => pending = 0 \/ closedT
  /\ pc["editor"] = "done" /\ emsg.task = "sync" /\ ~eErr => unseen = 0 \/ closedE
  /\ pc["game"] \in {"off", "run"} /\ res = "synced" => unseen = 0

IInv == Placed /\ Told /\ Flags /\ Typed /\ Sent /\ OnTheWay /\ Barrier

USE PipelineAssumption DEF Threads, At

\* the absent message is one
LEMMA NothingIsMessage == Nothing \in Messages
  BY DEF Nothing, Message, Messages, Tasks

\* before anything has started
LEMMA InitHolds == Init => IInv
<1> SUFFICES ASSUME Init PROVE IInv
  OBVIOUS
<1>1. \A t \in Threads : pc[t] = "off"
  BY DEF Init, PipeInit
<1>2. Told
  <2>1. out = [t \in Threads |-> Nothing] /\ emsg = Nothing /\ tmsg = Nothing
    BY DEF Init, PipeInit
  <2> HIDE DEF Threads
  <2> QED
    BY <2>1, NothingIsMessage DEF Told
<1>3. Placed
  BY <1>1 DEF Placed, Places, Labels, Init, PipeInit
<1>4. Flags /\ Typed
  <2>1. 0 \in 0..MaxPrints /\ 0 \in 0..MaxWaits
    OBVIOUS
  <2> QED
    BY <2>1 DEF Flags, Typed, Init, PipeInit
<1>5. Sent
  BY <1>1 DEF Sent
<1>6. OnTheWay /\ Barrier
  BY <1>1 DEF OnTheWay, Barrier, InFlight, LossClosesLooper, Init, PipeInit, Nothing, Message
<1> QED
  BY <1>2, <1>3, <1>4, <1>5, <1>6 DEF IInv

\* a call of the game begins
LEMMA CallsKeep == ASSUME IInv, GameCalls PROVE IInv'
<1>1. CASE GamePrints /\ UNCHANGED mainDone
  BY <1>1, SMTT(60) DEF GamePrints, Calls, Message, Async, Go, Sends, taskVars, loopVars, lineVars,
    idVars, IInv, Placed, Told, Flags, Typed, Labels, Places, Tasks, Messages, Sent, OnTheWay,
    InFlight, LossClosesLooper, Barrier
<1>2. CASE GameSets /\ UNCHANGED mainDone
  BY <1>2, SMTT(60) DEF GameSets, Calls, Message, Async, Go, Sends, taskVars, loopVars, lineVars,
    idVars, IInv, Placed, Told, Flags, Typed, Labels, Places, Tasks, Messages, Sent, OnTheWay,
    InFlight, LossClosesLooper, Barrier
<1>3. CASE GameSyncs /\ UNCHANGED mainDone
  BY <1>3, SMTT(60) DEF GameSyncs, Waits, Calls, Message, Async, Go, Sends, taskVars, loopVars,
    lineVars, IInv, Placed, Told, Flags, Typed, Labels, Places, Tasks, Messages, Sent, OnTheWay,
    InFlight, LossClosesLooper, Barrier
<1>4. CASE GameGets /\ UNCHANGED mainDone
  BY <1>4, SMTT(60) DEF GameGets, Waits, Calls, Message, Async, Go, Sends, taskVars, loopVars,
    lineVars, IInv, Placed, Told, Flags, Typed, Labels, Places, Tasks, Messages, Sent, OnTheWay,
    InFlight, LossClosesLooper, Barrier
<1>5. CASE GameTells /\ UNCHANGED mainDone
  BY <1>5, SMTT(60) DEF GameTells, Calls, Message, Async, Go, Sends, taskVars, loopVars, lineVars,
    idVars, IInv, Placed, Told, Flags, Typed, Labels, Places, Tasks, Messages, Sent, OnTheWay,
    InFlight, LossClosesLooper, Barrier
<1> QED
  BY <1>1, <1>2, <1>3, <1>4, <1>5 DEF GameCalls

\* a call ends early
LEMMA EndsKeep == ASSUME IInv, (Refused \/ Deadline) /\ UNCHANGED mainDone PROVE IInv'
<1>1. CASE Refused /\ UNCHANGED mainDone
  <2>1. Told'
    BY <1>1, NothingIsMessage, SMTT(30) DEF Refused, EditorRefuses, RequestRefused, SyncRefused,
      GivesUp, Sends, Go, loopVars, lineVars, idVars, IInv, Told
  <2>2. Placed'
    BY <1>1, SMTT(30) DEF Refused, EditorRefuses, RequestRefused, SyncRefused, GivesUp, Sends, Go,
      loopVars, lineVars, idVars, IInv, Placed, Places, Labels
  <2>3. Typed'
    BY <1>1, SMTT(30) DEF Refused, EditorRefuses, RequestRefused, SyncRefused, GivesUp, Sends,
      Nothing, Go, Message, loopVars, lineVars, idVars, IInv, Placed, Told, Messages, Places, Typed,
      Sent, OnTheWay, InFlight
  <2>4. Flags'
    BY <1>1 DEF Refused, EditorRefuses, RequestRefused, SyncRefused, GivesUp, Sends, Nothing, Go,
      Message, loopVars, lineVars, idVars, IInv, Flags
  <2>5. (Sent /\ OnTheWay /\ Barrier)'
    BY <1>1, SMTT(60) DEF Refused, EditorRefuses, RequestRefused, SyncRefused, GivesUp, Sends,
      Nothing, Go, Message, loopVars, lineVars, idVars, IInv, Placed, Told, Flags, Typed, Labels,
      Places, Tasks, Messages, Sent, OnTheWay, InFlight, LossClosesLooper, Barrier
  <2> QED
    BY <2>1, <2>2, <2>3, <2>4, <2>5 DEF IInv
<1>2. CASE Deadline /\ UNCHANGED mainDone
  <2>1. Told'
    BY <1>2, NothingIsMessage, SMTT(30) DEF Deadline, GivesUp, Sends, Go, loopVars, lineVars,
      idVars, IInv, Told
  <2>2. Placed'
    BY <1>2, SMTT(30) DEF Deadline, GivesUp, Sends, Go, loopVars, lineVars, idVars, IInv, Placed,
      Places, Labels
  <2>3. Typed'
    BY <1>2, SMTT(30) DEF Deadline, GivesUp, Sends, Nothing, Go, Message, loopVars, lineVars,
      idVars, IInv, Placed, Told, Messages, Places, Typed, Sent, OnTheWay, InFlight
  <2>4. Flags'
    BY <1>2 DEF Deadline, GivesUp, Sends, Nothing, Go, Message, loopVars, lineVars, idVars, IInv,
      Flags
  <2>5. (Sent /\ OnTheWay /\ Barrier)'
    BY <1>2, SMTT(60) DEF Deadline, GivesUp, Sends, Nothing, Go, Message, loopVars, lineVars,
      idVars, IInv, Placed, Told, Flags, Typed, Labels, Places, Tasks, Messages, Sent, OnTheWay,
      InFlight, LossClosesLooper, Barrier
  <2> QED
    BY <2>1, <2>2, <2>3, <2>4, <2>5 DEF IInv
<1> QED
  BY <1>1, <1>2

\* the editor's looper
LEMMA EditorKeeps == ASSUME IInv, Editor /\ UNCHANGED mainDone PROVE IInv'
<1>1. CASE EditorTakes /\ UNCHANGED mainDone
  BY <1>1, SMTT(60) DEF EditorTakes, Async, Nothing, Go, Sends, Message, idVars, IInv, Placed, Told,
    Flags, Typed, Labels, Places, Tasks, Messages, Sent, OnTheWay, InFlight, LossClosesLooper,
    Barrier
<1>2. CASE EditorFails /\ UNCHANGED mainDone
  <2>1. Told'
    BY <1>2, NothingIsMessage, SMTT(30) DEF EditorFails, Sends, EditorRests, Go, lineVars, idVars,
      callVars, IInv, Told
  <2>2. Placed'
    BY <1>2, SMTT(30) DEF EditorFails, Sends, EditorRests, Go, lineVars, idVars, callVars, IInv,
      Placed, Places, Labels
  <2>3. Typed'
    BY <1>2, SMTT(30) DEF EditorFails, Sends, Nothing, EditorRests, Go, Message, lineVars, idVars,
      callVars, IInv, Placed, Told, Messages, Places, Typed, Sent, OnTheWay, InFlight
  <2>4. Flags'
    BY <1>2 DEF EditorFails, Sends, Nothing, EditorRests, Go, Message, lineVars, idVars, callVars,
      IInv, Flags
  <2>5. (Sent /\ OnTheWay /\ Barrier)'
    BY <1>2, SMTT(60) DEF EditorFails, Sends, Nothing, EditorRests, Go, Message, lineVars, idVars,
      callVars, IInv, Placed, Told, Flags, Typed, Labels, Places, Tasks, Messages, Sent, OnTheWay,
      InFlight, LossClosesLooper, Barrier
  <2> QED
    BY <2>1, <2>2, <2>3, <2>4, <2>5 DEF IInv
<1>3. CASE EditorDone /\ UNCHANGED mainDone
  <2>1. Told'
    BY <1>3, NothingIsMessage, SMTT(30) DEF EditorDone, IsFor, Sends, Go, Abandoned, loopVars,
      lineVars, idVars, IInv, Told
  <2>2. Placed'
    BY <1>3, SMTT(30) DEF EditorDone, IsFor, Sends, Go, Abandoned, loopVars, lineVars, idVars, IInv,
      Placed, Places, Labels
  <2>3. Typed'
    BY <1>3, SMTT(30) DEF EditorDone, IsFor, Sends, Nothing, Go, Abandoned, Message, loopVars,
      lineVars, idVars, IInv, Placed, Told, Messages, Places, Typed, Sent, OnTheWay, InFlight
  <2>4. Flags'
    BY <1>3 DEF EditorDone, IsFor, Sends, Nothing, Go, Abandoned, Message, loopVars, lineVars,
      idVars, IInv, Flags
  <2>5. (Sent /\ OnTheWay /\ Barrier)'
    BY <1>3, SMTT(60) DEF EditorDone, IsFor, Sends, Nothing, Go, Abandoned, Message, loopVars,
      lineVars, idVars, IInv, Placed, Told, Flags, Typed, Labels, Places, Tasks, Messages, Sent,
      OnTheWay, InFlight, LossClosesLooper, Barrier
  <2> QED
    BY <2>1, <2>2, <2>3, <2>4, <2>5 DEF IInv
<1>4. CASE EditorEnds /\ UNCHANGED mainDone
  BY <1>4, SMTT(60) DEF EditorEnds, Go, taskVars, loopVars, lineVars, idVars, callVars, IInv,
    Placed, Told, Flags, Typed, Labels, Places, Tasks, Messages, Sent, OnTheWay, InFlight,
    LossClosesLooper, Barrier
<1> QED
  BY <1>1, <1>2, <1>3, <1>4 DEF Editor

\* the throttle loop
LEMMA LoopKeeps == ASSUME IInv, Loop /\ UNCHANGED mainDone PROVE IInv'
<1>1. CASE LoopTicks /\ UNCHANGED mainDone
  BY <1>1, SMTT(60) DEF LoopTicks, Go, Sends, Message, taskVars, loopVars, lineVars, idVars,
    callVars, IInv, Placed, Told, Flags, Typed, Labels, Places, Tasks, Messages, Sent, OnTheWay,
    InFlight, LossClosesLooper, Barrier
<1>2. CASE LoopTakes /\ UNCHANGED mainDone
  BY <1>2, SMTT(60) DEF LoopTakes, Sends, taskVars, loopVars, lineVars, idVars, callVars, IInv,
    Placed, Told, Flags, Typed, Labels, Places, Tasks, Messages, Sent, OnTheWay, InFlight,
    LossClosesLooper, Barrier
<1>3. CASE LoopFails /\ UNCHANGED mainDone
  BY <1>3, SMTT(60) DEF LoopFails, Go, Sends, Nothing, Message, taskVars, lineVars, idVars,
    callVars, IInv, Placed, Told, Flags, Typed, Labels, Places, Tasks, Messages, Sent, OnTheWay,
    InFlight, LossClosesLooper, Barrier
<1>4. CASE LoopEnds /\ UNCHANGED mainDone
  BY <1>4, SMTT(60) DEF LoopEnds, Go, taskVars, loopVars, lineVars, idVars, callVars, IInv, Placed,
    Told, Flags, Typed, Labels, Places, Tasks, Messages, Sent, OnTheWay, InFlight, LossClosesLooper,
    Barrier
<1> QED
  BY <1>1, <1>2, <1>3, <1>4 DEF Loop

\* the throttler's looper
LEMMA LooperKeeps == ASSUME IInv, Looper /\ UNCHANGED mainDone PROVE IInv'
<1>1. CASE (\E t \in {"game", "editor", "loop"} : LooperTakes(t)) /\ UNCHANGED mainDone
  <2> PICK t \in {"game", "editor", "loop"} : LooperTakes(t)
    BY <1>1
  <2> QED
    BY <1>1, SMTT(60) DEF LooperTakes, Onward, Nothing, Sends, Message, loopVars, lineVars, IInv,
      Placed, Told, Flags, Typed, Labels, Places, Tasks, Messages, Sent, OnTheWay, InFlight,
      LossClosesLooper, Barrier
<1>2. CASE LooperAdds /\ UNCHANGED mainDone
  BY <1>2, SMTT(60) DEF LooperAdds, LooperRests, Go, Nothing, Message, loopVars, idVars, callVars,
    IInv, Placed, Told, Flags, Typed, Labels, Places, Tasks, Messages, Sent, OnTheWay, InFlight,
    LossClosesLooper, Barrier
<1>3. CASE LooperPublishes /\ UNCHANGED mainDone
  BY <1>3, SMTT(60) DEF LooperPublishes, LooperRests, Go, Nothing, Message, loopVars, idVars,
    callVars, IInv, Placed, Told, Flags, Typed, Labels, Places, Tasks, Messages, Sent, OnTheWay,
    InFlight, LossClosesLooper, Barrier
<1>4. CASE LooperFails /\ UNCHANGED mainDone
  <2>1. Told'
    BY <1>4, NothingIsMessage, SMTT(30) DEF LooperFails, LooperRests, Go, lineVars, idVars,
      callVars, IInv, Told
  <2>2. Placed'
    BY <1>4, SMTT(30) DEF LooperFails, LooperRests, Go, lineVars, idVars, callVars, IInv, Placed,
      Places, Labels
  <2>3. Typed'
    BY <1>4, SMTT(30) DEF LooperFails, LooperRests, Go, Nothing, Message, lineVars, idVars,
      callVars, IInv, Placed, Told, Messages, Places, Typed, Sent, OnTheWay, InFlight
  <2>4. Flags'
    BY <1>4 DEF LooperFails, LooperRests, Go, Nothing, Message, lineVars, idVars, callVars, IInv,
      Flags
  <2>5. (Sent /\ OnTheWay /\ Barrier)'
    BY <1>4, SMTT(60) DEF LooperFails, LooperRests, Go, Nothing, Message, lineVars, idVars,
      callVars, IInv, Placed, Told, Flags, Typed, Labels, Places, Tasks, Messages, Sent, OnTheWay,
      InFlight, LossClosesLooper, Barrier
  <2> QED
    BY <2>1, <2>2, <2>3, <2>4, <2>5 DEF IInv
<1>5. CASE LooperClosed /\ UNCHANGED mainDone
  BY <1>5, SMTT(60) DEF LooperClosed, Go, taskVars, loopVars, lineVars, idVars, callVars, IInv,
    Placed, Told, Flags, Typed, Labels, Places, Tasks, Messages, Sent, OnTheWay, InFlight,
    LossClosesLooper, Barrier
<1>6. CASE LooperDone /\ UNCHANGED mainDone
  <2>1. Told'
    BY <1>6, NothingIsMessage, SMTT(30) DEF LooperDone, IsFor, Sends, Go, Abandoned, loopVars,
      lineVars, idVars, IInv, Told
  <2>2. Placed'
    BY <1>6, SMTT(30) DEF LooperDone, IsFor, Sends, Go, Abandoned, loopVars, lineVars, idVars, IInv,
      Placed, Places, Labels
  <2>3. Typed'
    BY <1>6, SMTT(30) DEF LooperDone, IsFor, Sends, Nothing, Go, Abandoned, Message, loopVars,
      lineVars, idVars, IInv, Placed, Told, Messages, Places, Typed, Sent, OnTheWay, InFlight
  <2>4. Flags'
    BY <1>6 DEF LooperDone, IsFor, Sends, Nothing, Go, Abandoned, Message, loopVars, lineVars,
      idVars, IInv, Flags
  <2>5. (Sent /\ OnTheWay /\ Barrier)'
    BY <1>6, SMTT(60) DEF LooperDone, IsFor, Sends, Nothing, Go, Abandoned, Message, loopVars,
      lineVars, idVars, IInv, Placed, Told, Flags, Typed, Labels, Places, Tasks, Messages, Sent,
      OnTheWay, InFlight, LossClosesLooper, Barrier
  <2> QED
    BY <2>1, <2>2, <2>3, <2>4, <2>5 DEF IInv
<1>7. CASE LooperEnds /\ UNCHANGED mainDone
  BY <1>7, SMTT(60) DEF LooperEnds, Go, taskVars, loopVars, lineVars, idVars, callVars, IInv,
    Placed, Told, Flags, Typed, Labels, Places, Tasks, Messages, Sent, OnTheWay, InFlight,
    LossClosesLooper, Barrier
<1> QED
  BY <1>1, <1>2, <1>3, <1>4, <1>5, <1>6, <1>7 DEF Looper

\* the thread of the application
LEMMA AppKeeps == ASSUME IInv, App PROVE IInv'
<1>1. CASE Starts
  BY <1>1, SMTT(60) DEF Starts, taskVars, lineVars, idVars, callVars, IInv, Placed, Told, Flags,
    Typed, Labels, Places, Tasks, Messages, Sent, OnTheWay, InFlight, LossClosesLooper, Barrier
<1>2. CASE Main
  BY <1>2, SMTT(60) DEF Main, Go, taskVars, loopVars, lineVars, idVars, callVars, IInv, Placed,
    Told, Flags, Typed, Labels, Places, Tasks, Messages, Sent, OnTheWay, InFlight, LossClosesLooper,
    Barrier
<1>3. CASE Quit
  BY <1>3, SMTT(60) DEF Quit, Go, taskVars, loopVars, lineVars, idVars, callVars, IInv, Placed,
    Told, Flags, Typed, Labels, Places, Tasks, Messages, Sent, OnTheWay, InFlight, LossClosesLooper,
    Barrier
<1>4. CASE SeesEnd
  BY <1>4, SMTT(60) DEF SeesEnd, ClosesEditor, Go, Sends, Message, taskVars, loopVars, lineVars,
    callVars, IInv, Placed, Told, Flags, Typed, Labels, Places, Tasks, Messages, Sent, OnTheWay,
    InFlight, LossClosesLooper, Barrier
<1>5. CASE Overruns
  BY <1>5, SMTT(60) DEF Overruns, ClosesEditor, Go, Sends, Message, taskVars, loopVars, lineVars,
    callVars, IInv, Placed, Told, Flags, Typed, Labels, Places, Tasks, Messages, Sent, OnTheWay,
    InFlight, LossClosesLooper, Barrier
<1>6. CASE ClosesThrottler
  BY <1>6, SMTT(60) DEF ClosesThrottler, Go, taskVars, lineVars, idVars, callVars, IInv, Placed,
    Told, Flags, Typed, Labels, Places, Tasks, Messages, Sent, OnTheWay, InFlight, LossClosesLooper,
    Barrier
<1>7. CASE Cancels
  BY <1>7, SMTT(60) DEF Cancels, Go, taskVars, lineVars, idVars, callVars, IInv, Placed, Told,
    Flags, Typed, Labels, Places, Tasks, Messages, Sent, OnTheWay, InFlight, LossClosesLooper,
    Barrier
<1> QED
  BY <1>1, <1>2, <1>3, <1>4, <1>5, <1>6, <1>7 DEF App

\* the game thread ends
LEMMA EndKeeps == ASSUME IInv, GameEnds \/ GameCloses \/ Notifies PROVE IInv'
<1>1. CASE GameEnds
  BY <1>1, SMTT(60) DEF GameEnds, Go, taskVars, loopVars, lineVars, idVars, callVars, IInv, Placed,
    Told, Flags, Typed, Labels, Places, Tasks, Messages, Sent, OnTheWay, InFlight, LossClosesLooper,
    Barrier
<1>2. CASE GameCloses
  BY <1>2, SMTT(60) DEF GameCloses, Go, taskVars, loopVars, lineVars, idVars, callVars, IInv,
    Placed, Told, Flags, Typed, Labels, Places, Tasks, Messages, Sent, OnTheWay, InFlight,
    LossClosesLooper, Barrier
<1>3. CASE Notifies
  BY <1>3, SMTT(60) DEF Notifies, Go, taskVars, loopVars, lineVars, idVars, callVars, IInv, Placed,
    Told, Flags, Typed, Labels, Places, Tasks, Messages, Sent, OnTheWay, InFlight, LossClosesLooper,
    Barrier
<1> QED
  BY <1>1, <1>2, <1>3

\* any step, or none
LEMMA StepHolds == IInv /\ [Next]_vars => IInv'
<1> SUFFICES ASSUME IInv, [Next]_vars PROVE IInv'
  OBVIOUS
<1>1. CASE App
  BY <1>1, AppKeeps
<1>2. CASE GameCalls
  BY <1>2, CallsKeep
<1>3. CASE GameEnds \/ GameCloses \/ Notifies
  BY <1>3, EndKeeps
<1>4. CASE Pipes
  BY <1>4, EditorKeeps, LoopKeeps, LooperKeeps, EndsKeep DEF Pipes
<1>5. CASE UNCHANGED vars
  BY <1>5 DEF vars, pipeVars, taskVars, loopVars, lineVars, idVars, callVars, IInv, Placed, Told,
    Flags, Typed, Sent, OnTheWay, InFlight, LossClosesLooper, Barrier
<1> QED
  BY <1>1, <1>2, <1>3, <1>4, <1>5 DEF Next

\* the invariant holds in every state of every behaviour
LEMMA Reached == Spec => []IInv
  BY InitHolds, StepHolds, PTL DEF Spec

\* it implies the types, the barrier and that losses close the looper
LEMMA IInvSuffices == IInv => NothingSwallowed
<1> SUFFICES ASSUME IInv PROVE NothingSwallowed
  OBVIOUS
<1>1. DOMAIN pc = Threads /\ \A t \in Threads : pc[t] \in Places[t]
  BY DEF IInv, Placed
<1>2. {eErr, closedE, closedT, thrClosed, ctxDone, late} \subseteq BOOLEAN
  BY DEF IInv, Flags
<1>3. pending \in 0..unseen
  BY DEF IInv, Told, Typed, OnTheWay, InFlight
<1>4. TypeOK
  BY <1>1, <1>2, <1>3 DEF IInv, Told, Typed, TypeOK
<1>5. SyncDelivers
  BY DEF IInv, Barrier, SyncDelivers
<1> QED
  BY <1>4, <1>5 DEF IInv, OnTheWay, NothingSwallowed

\* In every behaviour of the game, the two loopers, the throttle loop and the
\* thread that quits, a Sync that returned without an error has delivered every
\* paragraph, and none is lost while the editor's looper still takes calls: for
\* any number of calls and of paragraphs, with and without errors of the UI and
\* deadlines that pass (editor.go:330, callback_throttler.go:216).
THEOREM NothingIsSwallowed == Spec => []NothingSwallowed
  BY Reached, IInvSuffices, PTL
=============================================================================
