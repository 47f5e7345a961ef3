------------------------------- MODULE Images -------------------------------
(***************************************************************************)
(* Images of the text that publisher.Editor sends to a UI.                 *)
(*                                                                         *)
(* A script gives the size of an image in text cells.  Two caches lie      *)
(* between the file and the box that is published: ImageBytesLoader keeps  *)
(* what it answered for a file and a size in cells, and the Loader under   *)
(* it, which has room for one entry, the picture it decoded last, scaled.  *)
(* Both belong to a text unit, the pixels of a cell; another unit brings   *)
(* new ones.  All of this runs in the tasks of one looper, but the files   *)
(* may change at any time.                                                 *)
(*                                                                         *)
(* Sizes are [w |-> _, h |-> _]: of pictures in pixels, of boxes in cells, *)
(* of the unit in 1/64 pixel (fixed.Int26_6, its overflow left out).       *)
(***************************************************************************)
EXTENDS Integers, Sequences, FiniteSets

CONSTANTS
    Files,        \* the image files a script names
    Pictures,     \* what a file may hold: a size, and is it decoded to RGBA?
    Units,        \* the text units a UI may set
    Asks,         \* the sizes a script may give
    FetchTypes,   \* the ways to send the pixels
    CacheSize,    \* bound: entries of the cache of ImageBytesLoader
    MaxBoxes,     \* bound: images of one paragraph
    MaxChanges,   \* bound: changes of files
    MaxSets       \* bound: settings of the unit

\* a file that is missing or cannot be decoded
Absent == [w |-> 0, h |-> 0, rgba |-> FALSE]

ASSUME ImagesAssumption ==
  /\ Pictures \subseteq [w : Nat \ {0}, h : Nat \ {0}, rgba : BOOLEAN]
  /\ Units \subseteq [w : Nat \ {0}, h : Nat \ {0}]
  /\ Asks \subseteq [w : Int, h : Int]
  /\ FetchTypes \subseteq {"none", "rgba", "png"}
  /\ CacheSize \in Nat \ {0} /\ {MaxBoxes, MaxChanges, MaxSets} \subseteq Nat

VARIABLES
    fetchType,   \* how pixels are sent in this session
    disk,        \* the picture in each file
    unit,        \* the text unit of the loaders
    cache,       \* the entries of ImageBytesLoader, the one used last first
    decoded,     \* the entries of the inner Loader, at most one
    open,        \* the images of the paragraph that is written
    looper,      \* what the looper of the editor does
    boxes,       \* the images made so far of the paragraph that is published
    measured,    \* what MeasureImageSize told last, {} for nothing
    touched,     \* the files changed since the unit was set
    changes,     \* changes so far
    sets         \* settings of the unit so far

caches == <<cache, decoded>>
vars == <<fetchType, disk, unit, cache, decoded, open, looper, boxes, measured, touched, changes, sets>>

Size(x, y) == [w |-> x, h |-> y]
Zero == Size(0, 0)

-----------------------------------------------------------------------------
(***************************************************************************)
(* Sizes.                                                                  *)
(***************************************************************************)
Ceil64(x) == (x + 63) \div 64

\* pixels of so many cells
CalcImageSize(cells) == Size(Ceil64(unit.w * cells.w), Ceil64(unit.h * cells.h))

\* (mutant) the cells that the pixels fill
FilledSize(px) == Size((64 * px.w) \div unit.w, (64 * px.h) \div unit.h)

\* the cells that so many pixels need
CalcTextScaleSize(px) == Size(Ceil64((4096 * px.w) \div unit.w), Ceil64((4096 * px.h) \div unit.h))

\* a side that is not given follows from the other one
FixedAspectRateSize(src, px) ==
  IF px.w = 0 THEN Size((px.h * src.w) \div src.h, px.h)
  ELSE IF px.h = 0 THEN Size(px.w, (px.w * src.h) \div src.w)
  ELSE px

\* the picture as GetWithOptions scales it; no size means its own
Resized(picture, px) ==
  IF px = Zero THEN picture
  ELSE LET s == FixedAspectRateSize(picture, px) IN [w |-> s.w, h |-> s.h, rgba |-> TRUE]

-----------------------------------------------------------------------------
(***************************************************************************)
(* The loaders.                                                            *)
(***************************************************************************)
\* the pixels that can be sent: raw ones only of an RGBA image, PNG ones only
\* of an image with an area
SentAs(img) == CASE fetchType = "rgba" -> IF img.rgba THEN "rgba" ELSE "none"
                 [] fetchType = "png"  -> IF img.w > 0 /\ img.h > 0 THEN "png" ELSE "none"
                 [] OTHER              -> "none"

ResultOf(img, cells) == [ts |-> cells, px |-> CalcImageSize(cells), img |-> img, bytes |-> SentAs(img)]

\* a file that cannot be loaded is shown as ten by ten black cells
Fallback == LET cells == Size(10, 10)
                px == CalcImageSize(cells)
            IN ResultOf([w |-> px.w, h |-> px.h, rgba |-> TRUE], cells)

\* what the files say now, without any cache
Fresh(f, ask) ==
  IF disk[f] = Absent THEN Fallback
  ELSE LET img == Resized(disk[f], CalcImageSize(ask)) IN ResultOf(img, CalcTextScaleSize(img))

\* GetWithOptions answers from the one entry it has; it does not keep a failure
Decodes(f, px) == IF decoded # <<>> /\ decoded[1].file = f /\ decoded[1].px = px THEN decoded
                  ELSE IF disk[f] = Absent THEN <<>>
                  ELSE <<[file |-> f, px |-> px, img |-> Resized(disk[f], px)]>>

\* imageKey
Key(f, ask) == [file |-> f, ask |-> ask]

\* where the cache has the answer, if it has: no key is there twice
Hits(f, ask) == {i \in DOMAIN cache : cache[i].key = Key(f, ask)}

\* loadInternal
Loads(d) == IF d = <<>> THEN Fallback ELSE ResultOf(d[1].img, CalcTextScaleSize(d[1].img))

\* LoadBytes: the answer ...
Answer(f, ask) == IF Hits(f, ask) # {} THEN cache[CHOOSE i \in Hits(f, ask) : TRUE].result
                  ELSE Loads(Decodes(f, CalcImageSize(ask)))

\* the entries for other keys
Others(f, ask) ==
  IF Hits(f, ask) = {} THEN cache
  ELSE LET i == CHOOSE i \in Hits(f, ask) : TRUE
       IN SubSeq(cache, 1, i - 1) \o SubSeq(cache, i + 1, Len(cache))

\* ... and what it leaves in the caches: an answer of its own goes to the front,
\* a failure too, and the last one drops out
LoadBytes(f, ask) ==
  LET entries == <<[key |-> Key(f, ask), result |-> Answer(f, ask)]>> \o Others(f, ask)
  IN /\ cache' = SubSeq(entries, 1, IF Len(entries) > CacheSize THEN CacheSize ELSE Len(entries))
     /\ decoded' = IF Hits(f, ask) # {} THEN decoded
                   ELSE LET d == Decodes(f, CalcImageSize(ask)) IN IF d = <<>> THEN decoded ELSE d

-----------------------------------------------------------------------------
(***************************************************************************)
(* The tasks.                                                              *)
(***************************************************************************)
\* checkImageParams
Clamped(ask) == Size(IF ask.w < 0 THEN 0 ELSE ask.w, IF ask.h < 0 THEN 0 ELSE ask.h)

\* WriteImage refuses a width of zero, and a task that fails closes the looper:
\* nothing is loaded or published any more (what the paragraph held is forgotten here)
WriteImage(f, ask) ==
  \/ /\ ask.w > 0 /\ Len(open) < MaxBoxes
     /\ open' = Append(open, [file |-> f, ask |-> ask]) /\ UNCHANGED <<looper, measured, touched>>
  \/ /\ ask.w <= 0
     /\ looper' = "closed" /\ open' = <<>> /\ measured' = {} /\ touched' = Files

PrintImage == \E f \in Files, ask \in Asks :
  /\ looper = "idle"
  /\ WriteImage(f, Clamped(ask))
  /\ UNCHANGED <<fetchType, disk, unit, caches, boxes, changes, sets>>

MeasureImageSize == \E f \in Files, ask \in Asks :
  /\ looper = "idle"
  /\ LoadBytes(f, Clamped(ask))
  /\ measured' = {[file |-> f, ask |-> Clamped(ask), ts |-> Answer(f, Clamped(ask)).ts]}
  /\ UNCHANGED <<fetchType, disk, unit, open, looper, boxes, touched, changes, sets>>

\* createCurrentParagraph, for Sync and for a new line
StartParagraph ==
  /\ looper = "idle" /\ open # <<>>
  /\ looper' = "publishing"
  /\ UNCHANGED <<fetchType, disk, unit, caches, open, boxes, measured, touched, changes, sets>>

\* (mutant) the box keeps the size the script gave
CreateBoxAsAsked ==
  /\ looper = "publishing" /\ Len(boxes) < Len(open)
  /\ LET b == open[Len(boxes) + 1]
     IN /\ boxes' = Append(boxes, [file |-> b.file, ask |-> b.ask, result |-> [Answer(b.file, b.ask) EXCEPT !.ts = b.ask]])
        /\ LoadBytes(b.file, b.ask)
  /\ UNCHANGED <<fetchType, disk, unit, open, looper, measured, touched, changes, sets>>

\* one image after the other is loaded; the box gets the size it came out with
CreateImageBox ==
  /\ looper = "publishing" /\ Len(boxes) < Len(open)
  /\ LET b == open[Len(boxes) + 1]
     IN /\ boxes' = Append(boxes, [file |-> b.file, ask |-> b.ask, result |-> Answer(b.file, b.ask)])
        /\ LoadBytes(b.file, b.ask)
  /\ UNCHANGED <<fetchType, disk, unit, open, looper, measured, touched, changes, sets>>

\* Sync publishes the open paragraph as it is, a new line publishes and drops it
Publish == \E fixed \in BOOLEAN :
  /\ looper = "publishing" /\ Len(boxes) = Len(open)
  /\ looper' = "idle"
  /\ open' = IF fixed THEN <<>> ELSE open
  /\ boxes' = <<>>
  /\ UNCHANGED <<fetchType, disk, unit, caches, measured, touched, changes, sets>>

\* (mutant) the loader is told the unit and keeps what it has
SetUnitOnly == \E u \in Units :
  /\ looper = "idle" /\ sets < MaxSets
  /\ unit' = u /\ sets' = sets + 1
  /\ measured' = {} /\ touched' = {}
  /\ UNCHANGED <<fetchType, disk, caches, open, looper, boxes, changes>>

\* new loaders; what was measured before is not looked at any more
SetTextUnitPx == \E u \in Units :
  /\ looper = "idle" /\ sets < MaxSets
  /\ unit' = u /\ sets' = sets + 1
  /\ cache' = <<>> /\ decoded' = <<>>
  /\ measured' = {} /\ touched' = {}
  /\ UNCHANGED <<fetchType, disk, open, looper, boxes, changes>>

FileChanges == \E f \in Files, p \in Pictures \cup {Absent} :
  /\ looper # "closed" /\ changes < MaxChanges /\ changes' = changes + 1
  /\ disk[f] # p /\ disk' = [disk EXCEPT ![f] = p]
  /\ touched' = touched \cup {f}
  /\ UNCHANGED <<fetchType, unit, caches, open, looper, boxes, measured, sets>>

\* the unit the editor starts with: 8 and 14, taken as Int26_6
TemporaryUnit == Size(8, 14)

Init ==
  /\ fetchType \in FetchTypes
  /\ disk \in [Files -> Pictures \cup {Absent}]
  /\ unit = TemporaryUnit
  /\ cache = <<>> /\ decoded = <<>>
  /\ open = <<>> /\ looper = "idle" /\ boxes = <<>>
  /\ measured = {} /\ touched = {} /\ changes = 0 /\ sets = 0

Next == PrintImage \/ MeasureImageSize \/ StartParagraph \/ CreateImageBox \/ Publish
        \/ SetTextUnitPx \/ FileChanges

Spec == Init /\ [][Next]_vars

-----------------------------------------------------------------------------
(***************************************************************************)
(* Properties.                                                             *)
(***************************************************************************)
\* the variables have their types, and no key is in the cache twice
TypeOK ==
  /\ disk \in [Files -> Pictures \cup {Absent}]
  /\ unit \in Units \cup {TemporaryUnit}
  /\ Len(cache) <= CacheSize /\ Len(decoded) <= 1
  /\ \A i, j \in DOMAIN cache : cache[i].key = cache[j].key => i = j
  /\ Len(open) <= MaxBoxes /\ Len(boxes) <= MaxBoxes
  /\ looper \in {"idle", "publishing", "closed"}
  /\ looper = "publishing" => Len(boxes) <= Len(open)
  /\ touched \subseteq Files /\ changes \in 0 .. MaxChanges /\ sets \in 0 .. MaxSets

\* The two caches are not seen: of a file that did not change since the unit was
\* set, every cached answer is the one that loading it now, in the unit of now,
\* would give, whatever else was asked, evicted or failed before.
\* (LoadBytes, GetWithOptions, SetTextUnitPx)
CachesAreTransparent ==
  /\ \A i \in DOMAIN cache :
       cache[i].key.file \notin touched => cache[i].result = Fresh(cache[i].key.file, cache[i].key.ask)
  /\ \A i \in DOMAIN decoded :
       decoded[i].file \notin touched => /\ disk[decoded[i].file] # Absent
                                        /\ decoded[i].img = Resized(disk[decoded[i].file], decoded[i].px)

\* What MeasureImageSize told a script is the size at which the image is drawn,
\* also when other images were loaded in between: unless the file changed, the
\* box that is published has the size that was measured for the same arguments.
\* Scripts count lines by it. (MeasureImageSize, createImageBox)
ShownAsMeasured ==
  \A i \in DOMAIN boxes, m \in measured :
    (m.file = boxes[i].file /\ m.ask = boxes[i].ask /\ m.file \notin touched) => boxes[i].result.ts = m.ts

\* The cells of a published image hold all of its pixels, and no row or column
\* of cells is empty: whatever the size asked for and the picture, the rounding
\* up of both directions leaves less than one cell free.  (The number of cells
\* is cut to 1/64 before it is rounded up, so in a unit of more than 64 pixels
\* the last of the pixels may be left out.)
\* (calcTextScaleSize, CalcImageSize, fixedAspectRateSize)
CellsCoverImage ==
  \A i \in DOMAIN boxes :
    LET r == boxes[i].result
    IN /\ unit.w <= 4096 => r.img.w <= r.px.w
       /\ unit.h <= 4096 => r.img.h <= r.px.h
       /\ r.ts.w > 0 => 64 * r.img.w > unit.w * (r.ts.w - 1)
       /\ r.ts.h > 0 => 64 * r.img.h > unit.h * (r.ts.h - 1)

\* If pixels are to be sent they are: every published image with an area carries
\* them, of a missing file too.  Raw pixels need a scaled image, so this rests on
\* the refusal of a width of zero, though MeasureImageSize loads with no size.
\* (createImageBytes, WriteImage)
PixelsCome ==
  \A i \in DOMAIN boxes :
    (boxes[i].result.img.w > 0 /\ boxes[i].result.img.h > 0) => boxes[i].result.bytes = fetchType

\* The caches hold what is fresh, within their bounds.
CachesHold == TypeOK /\ CachesAreTransparent

\* An image that is published is whole: its cells hold it, and its pixels come.
ImageIsWhole == CellsCoverImage /\ PixelsCome
=============================================================================
