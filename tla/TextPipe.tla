------------------------------ MODULE TextPipe ------------------------------
(***************************************************************************)
(* The output of the game on its way to the UI of the mobile side: the     *)
(* tasks of the publisher's Editor (view/exp/text/publisher/editor.go),    *)
(* which number the paragraphs, and the throttler, which keeps, merges and *)
(* publishes them.  Both loops run; Pipeline has their goroutines.         *)
(***************************************************************************)
EXTENDS PendingEvents

CONSTANTS Texts,        \* what a game prints in a line
          Clears,       \* the numbers of lines it clears
          MaxLines,     \* bound: lines on the screen
          MaxPending    \* bound: events that wait, and with MaxLines what they remove

ASSUME TextAssumption == /\ Blank \notin Texts
                         /\ Clears \subseteq Nat \ {0}
                         /\ MaxLines \in Nat /\ MaxPending \in Nat

VARIABLES
  screen,     \* the lines the game has written, the last one still open: what should be seen
  current,    \* the paragraph of Editor.frame: the text of the open line
  publishId,  \* Editor.publishId
  pending,    \* CallbackThrottler.pendingEvents
  ui,         \* what the UI shows: paragraphs, and the input it asks for
  at,         \* where the game thread is: running, in Sync, synced, telling of a request, or waiting
  request     \* the request it makes

vars == << screen, current, publishId, pending, ui, at, request >>

Kinds == {"command", "input", "rawinput"}

Init == /\ screen = << Blank >> /\ current = Blank /\ publishId = 0
        /\ pending = << >> /\ ui = [ps |-> << >>, req |-> "none"]
        /\ at = "runs" /\ request = "none"

\* bounds: events that wait, and what a removal among them has come to
Room == /\ Len(pending) < MaxPending
        /\ \A i \in DOMAIN pending : IsA(pending[i], "remove") => pending[i].n <= MaxLines

(***************************************************************************)
(* The tasks of the Editor.                                                *)
(***************************************************************************)
\* Print and the other writers: the open line changes
WriteText == \E t \in Texts :
               /\ at \in {"runs", "synced"}
               /\ current' = t
               /\ screen' = Append(Front(screen), t)
               /\ at' = "runs"
               /\ UNCHANGED << publishId, pending, ui, request >>

\* publishParagraph, at each line break
Publish == /\ at \in {"runs", "synced"} /\ Room /\ Len(screen) < MaxLines
           /\ pending' = AddParagraph(pending, Paragraph(publishId, current, TRUE))
           /\ publishId' = publishId + 1
           /\ current' = Blank
           /\ screen' = Append(screen, Blank)
           /\ at' = "runs"
           /\ UNCHANGED << ui, request >>

\* ClearLine: n lines, the open one first; the ids of the others are used again
ClearLine == \E n \in Clears :
               /\ at \in {"runs", "synced"} /\ Room
               /\ pending' = RemoveParagraph(pending, n - 1)
               /\ publishId' = IF n - 1 >= publishId THEN 0 ELSE publishId - (n - 1)
               /\ current' = Blank
               /\ screen' = Append(Drop(screen, n), Blank)
               /\ at' = "runs"
               /\ UNCHANGED << ui, request >>

ClearLineAll == /\ at \in {"runs", "synced"} /\ Room
                /\ pending' = RemoveParagraphAll(pending)
                /\ publishId' = 0
                /\ current' = Blank
                /\ screen' = << Blank >>
                /\ at' = "runs"
                /\ UNCHANGED << ui, request >>

\* Sync: the open line is passed on as it is ...
SyncPasses == /\ at \in {"runs", "synced"}
              /\ pending' = AddParagraph(pending, Paragraph(publishId, current, FALSE))
              /\ at' = "syncs"
              /\ UNCHANGED << screen, current, publishId, ui, request >>

(***************************************************************************)
(* The throttler's publication: everything that waits goes to the UI.      *)
(***************************************************************************)
PublishPending == ui' = Told(ui, pending) /\ pending' = << >>

\* on a tick, at any time
Tick == /\ PublishPending
        /\ UNCHANGED << screen, current, publishId, at, request >>

\* ... and the game waits in OnSync for a publication
Syncs == /\ at = "syncs"
         /\ PublishPending
         /\ at' = "synced"
         /\ UNCHANGED << screen, current, publishId, request >>

(***************************************************************************)
(* OnRequestChanged.  The input port synchronises the output, tells of the *)
(* request, waits for the answer, and tells that it is over.               *)
(***************************************************************************)

Asks == /\ at = "synced" /\ Room
        /\ request' \in Kinds
        /\ pending' = InputRequest(pending, request')
        /\ at' = IF request' \in {"command", "input"} THEN "tells" ELSE "waits"
        /\ UNCHANGED << screen, current, publishId, ui >>

\* requests that may have a timeout are published at once
Tells == /\ at = "tells"
         /\ PublishPending
         /\ at' = "waits"
         /\ UNCHANGED << screen, current, publishId, request >>

Answered == /\ at = "waits" /\ Room
            /\ request' = "none"
            /\ pending' = InputRequest(pending, "none")
            /\ at' = "runs"
            /\ UNCHANGED << screen, current, publishId, ui >>

Next == \/ WriteText \/ Publish \/ ClearLine \/ ClearLineAll \/ SyncPasses
        \/ Tick \/ Syncs \/ Asks \/ Tells \/ Answered

Spec == Init /\ [][Next]_vars

(***************************************************************************)
(* Properties.                                                             *)
(***************************************************************************)
Paragraphs == [id : Nat, text : Texts \cup {Blank}, fixed : BOOLEAN]

Events == [type : {"list"}, ps : Seq(Paragraphs)] \cup [type : {"remove"}, n : Nat]
            \cup [type : {"removeAll"}] \cup [type : {"request"}, req : Kinds \cup {"none"}]

UIs == [ps : Seq(Paragraphs), req : Kinds \cup {"none"}]

\* only the last of several paragraphs is still being written
OpenIsLast(ps) == \A i \in DOMAIN ps : ~ps[i].fixed => i = Len(ps)

\* The variables have their types; no list that waits is empty, and the open
\* line is the last of its list.
TypeOK ==
  /\ screen \in Seq(Texts \cup {Blank}) /\ screen # << >>
  /\ current \in Texts \cup {Blank} /\ publishId \in Nat
  /\ pending \in Seq(Events)
  /\ \A i \in DOMAIN pending :
       IsA(pending[i], "list") => pending[i].ps # << >> /\ OpenIsLast(pending[i].ps)
  /\ ui \in UIs /\ OpenIsLast(ui.ps)
  /\ at \in {"runs", "syncs", "synced", "tells", "waits"} /\ request \in Kinds \cup {"none"}

TextsOf(ps) == [i \in DOMAIN ps |-> ps[i].text]

\* However events were merged, dropped and cut up by ticks: once what waits and
\* the open line are published, the UI shows the lines the game has written and
\* not cleared (pendingEvents, callback_throttler.go:285).
NoLineLost ==
  TextsOf(Put(Told(ui, pending).ps, Paragraph(publishId, current, FALSE))) = screen

\* `to assign same Id for same position of Paragraph' (editor.go:557): the
\* paragraphs of the UI are numbered through, also after lines were cleared.
IdIsPosition == LET ps == Told(ui, pending).ps
                IN \A i \in DOMAIN ps : ps[i].id = i - 1

\* A game that waits for a command or an input waits in front of a UI that
\* shows all of its lines and asks the player for just that
\* (OnRequestChanged, callback_throttler.go:258).
AskedOnScreen == at = "waits" => /\ TextsOf(ui.ps) = screen
                                 /\ request \in {"command", "input"} => ui.req = Callback(request)

\* No removal takes a request with it: once what waits is published, the UI
\* asks for what the game waits for.
RequestKept == Told(ui, pending).req = Callback(request)

\* What is on its way to the UI is all that the game has printed, each line
\* with the number of its place.
ListingIsWhole == TypeOK /\ NoLineLost /\ IdIsPosition

\* What is asked for reaches the UI, at once when it may time out, and no removal
\* of lines takes it away.
AskingReaches == RequestKept /\ AskedOnScreen
=============================================================================
