--------------------------- MODULE PendingEvents ---------------------------
(***************************************************************************)
(* The events that the callback throttler of the mobile side keeps between *)
(* two publications (mobile/model/v2/callback_throttler.go): how an event  *)
(* merges into those that wait, and what the UI makes of the list.         *)
(***************************************************************************)
EXTENDS Integers, Sequences, SequencesExt

CONSTANT Blank      \* the text of an empty paragraph

\* a paragraph; not fixed, it is the line still being written
Paragraph(id, text, fixed) == [id |-> id, text |-> text, fixed |-> fixed]

Listing(ps) == [type |-> "list", ps |-> ps]
Removal(n)  == [type |-> "remove", n |-> n]
Clearing    == [type |-> "removeAll"]
Asking(r)   == [type |-> "request", req |-> r]

IsA(ev, t) == ev.type = t

\* p replaces the paragraph of its own id when that is the last one
Put(ps, p) == IF ps # << >> /\ Last(ps).id = p.id THEN Append(Front(ps), p) ELSE Append(ps, p)

AddParagraph(pe, p) ==
  IF pe # << >> /\ IsA(Last(pe), "list")
    THEN Append(Front(pe), Listing(Put(Last(pe).ps, p)))
    ELSE Append(pe, Listing(<< p >>))

(***************************************************************************)
(* The removal of n fixed paragraphs, and of the one being written, meets  *)
(* event ev: what is left of ev (<< >> when nothing is), how many are left *)
(* to remove, and whether the two could be merged at all.                  *)
(***************************************************************************)
Meet(left, rest, merged) == [left |-> left, rest |-> rest, merged |-> merged]

\* (mutant) the rest of a removal is forgotten with the list it emptied
MeetFixedOnce(ps, n) ==
  IF n < Len(ps) THEN Meet(<< Listing(SubSeq(ps, 1, Len(ps) - n)) >>, 0, TRUE)
                 ELSE Meet(<< >>, 0, TRUE)

MeetFixed(ps, n) ==
  IF n < Len(ps) THEN Meet(<< Listing(SubSeq(ps, 1, Len(ps) - n)) >>, 0, TRUE)
                 ELSE Meet(<< >>, n - Len(ps), TRUE)

MeetUnfixed(ps, n) ==
  IF n < Len(ps)
    THEN Meet(<< Listing(SubSeq(ps, 1, Len(ps) - n - 1) \o << [Last(ps) EXCEPT !.text = Blank] >>) >>, 0, TRUE)
    ELSE Meet(<< Listing(ps) >>, n, FALSE)

MergeRemoveCount(ev, n) ==
  CASE IsA(ev, "list")      -> IF Last(ev.ps).fixed THEN MeetFixed(ev.ps, n) ELSE MeetUnfixed(ev.ps, n)
    [] IsA(ev, "remove")    -> Meet(<< Removal(ev.n + n) >>, 0, TRUE)
    [] IsA(ev, "removeAll") -> Meet(<< Clearing >>, 0, TRUE)
    [] IsA(ev, "request")   -> Meet(<< ev >>, n, FALSE)

\* the removal of k paragraphs meets event i of pe; before[r] is what becomes of
\* the events before it and of r paragraphs still to remove
RemoveFrom(pe, i, k, before) ==
  IF i <= 1
    THEN Append(SubSeq(pe, 1, i), Removal(k))
    ELSE LET m == MergeRemoveCount(pe[i], k)
         IN CASE ~m.merged -> Append(SubSeq(pe, 1, i), Removal(m.rest))
              [] m.merged /\ m.left # << >> -> SubSeq(pe, 1, i - 1) \o m.left
              [] m.merged /\ m.left = << >> /\ m.rest = 0 -> SubSeq(pe, 1, i - 1)
              [] m.merged /\ m.left = << >> /\ m.rest > 0 -> before[m.rest]

\* from the last event back to the second: the first one is never touched
RemoveParagraph(pe, n) ==
  LET from[i \in 0 .. Len(pe)] == [k \in 0 .. n |-> RemoveFrom(pe, i, k, from[i - 1])]
  IN from[Len(pe)][n]

Requests(pe) == { i \in DOMAIN pe : IsA(pe[i], "request") }

\* (mutant) every event is dropped, the requests too
RemoveAllEvents(pe) == << Clearing >>

\* everything since the last request is dropped
RemoveParagraphAll(pe) ==
  LET kept == IF Requests(pe) = {} THEN 0 ELSE CHOOSE i \in Requests(pe) : \A j \in Requests(pe) : j <= i
  IN Append(SubSeq(pe, 1, kept), Clearing)

InputRequest(pe, r) ==
  IF pe # << >> /\ Last(pe) = Asking(r) THEN pe ELSE Append(pe, Asking(r))

\* publish: a raw input is asked for as a command
Callback(r) == IF r = "rawinput" THEN "command" ELSE r

(***************************************************************************)
(* The UI (external): a list of paragraphs, of which only the last is not  *)
(* fixed, and the input it is asked for.  A paragraph replaces one of its  *)
(* own id.                                                                 *)
(***************************************************************************)
Written(ps) == IF ps # << >> /\ ~Last(ps).fixed THEN Front(ps) ELSE ps

Drop(ps, n) == SubSeq(ps, 1, Len(ps) - n)

\* each of the paragraphs qs is put to ps
PutAll(ps, qs) ==
  LET put[i \in 0 .. Len(qs)] == IF i = 0 THEN ps ELSE Put(put[i - 1], qs[i])
  IN put[Len(qs)]

Handle(ui, ev) ==
  CASE IsA(ev, "list")      -> [ui EXCEPT !.ps = PutAll(@, ev.ps)]
    [] IsA(ev, "remove")    -> [ui EXCEPT !.ps = Drop(Written(@), ev.n)]
    [] IsA(ev, "removeAll") -> [ui EXCEPT !.ps = << >>]
    [] IsA(ev, "request")   -> [ui EXCEPT !.req = Callback(ev.req)]

\* what the UI is after it was told of the events
Told(ui, pe) ==
  LET told[i \in 0 .. Len(pe)] == IF i = 0 THEN ui ELSE Handle(told[i - 1], pe[i])
  IN told[Len(pe)]
=============================================================================
