------------------------------ MODULE CropRect ------------------------------
(***************************************************************************)
(* The crop screen of ImageCrop: CropActivity checks its arguments,        *)
(* CropScreen fits the image into the view, puts a crop rectangle on it,   *)
(* lets the user drag a corner or the whole rectangle, with or without a   *)
(* fixed aspect ratio, and maps the rectangle back to the source image.    *)
(* Screen coordinates are Floats in the code and whole units here; where   *)
(* the code divides, the model rounds down to a unit.  A Float error is    *)
(* less than a unit: it matters where two bounds would be equal, and may   *)
(* then cross them (BoundsMeet).                                           *)
(***************************************************************************)
EXTENDS Integers

CONSTANTS
  ViewW, ViewH,   \* the view
  BmpW, BmpH,     \* the bitmap shown in it
  MinCrop,        \* minCropWidth
  Reach,          \* 2 * radius: how near to a corner a drag must start
  Step,           \* the longest offset of one drag event (bounds the model)
  Aspects,        \* cropArgs.aspectRatio: pairs of integers
  Sources         \* sizes of the source image, as [w, h]

ASSUME ViewAssumption == ViewW \in Nat \ {0} /\ ViewH \in Nat \ {0}
ASSUME BmpAssumption == BmpW \in Nat \ {0} /\ BmpH \in Nat \ {0}
\* The bitmap is shown at least one unit wide and high.
ASSUME FitAssumption == BmpW <= ViewW * BmpH /\ BmpH <= ViewH * BmpW
ASSUME DragAssumption == MinCrop \in Nat \ {0} /\ Reach \in Nat /\ Step \in Nat
ASSUME AspectsAssumption == Aspects \subseteq [a : Int, b : Int]
ASSUME SourcesAssumption == Sources \subseteq [w : Nat \ {0}, h : Nat \ {0}]

Lefts == {"TOP_LEFT", "BOTTOM_LEFT"}
Tops == {"TOP_LEFT", "TOP_RIGHT"}
Corners == Lefts \union Tops \union {"BOTTOM_RIGHT"}

VARIABLES
  aspect,   \* cropArgs.aspectRatio
  source,   \* the image that cropArgs.input names
  phase,    \* "new", "open", how the screen was left, or where it threw
  rect,     \* the crop rectangle
  corner,   \* activeCorner
  crop      \* the rectangle handed to the region decoder

vars == <<aspect, source, phase, rect, corner, crop>>

\* x * p / q of the code, rounded down.
Scaled(x, p, q) == IF q > 0 THEN (x * p) \div q ELSE (-(x * p)) \div (-q)

Rects == [left : Int, top : Int, right : Int, bottom : Int]
Box(l, t, w, h) == [left |-> l, top |-> t, right |-> l + w, bottom |-> t + h]
Centred(w, h, within) ==
  Box(within.left + (within.right - within.left - w) \div 2,
      within.top + (within.bottom - within.top - h) \div 2, w, h)
Zero == Box(0, 0, 0, 0)

\* imageRect: the bitmap scaled to fit the view, in its middle.
image ==
  IF ViewW * BmpH <= ViewH * BmpW
    THEN Centred(ViewW, Scaled(BmpH, ViewW, BmpW), Box(0, 0, ViewW, ViewH))
    ELSE Centred(Scaled(BmpW, ViewH, BmpH), ViewH, Box(0, 0, ViewW, ViewH))
imageW == image.right - image.left
imageH == image.bottom - image.top

Fixed == aspect.a # 0 /\ aspect.b # 0

\* The first crop rectangle: the whole image, or its largest part of that ratio.
FirstRect ==
  IF ~Fixed THEN image
  ELSE IF Scaled(imageW, aspect.b, aspect.a) > imageH
    THEN Centred(Scaled(imageH, aspect.a, aspect.b), imageH, image)
    ELSE Centred(imageW, Scaled(imageW, aspect.b, aspect.a), image)

Init ==
  /\ aspect \in Aspects
  /\ source \in Sources
  /\ phase = "new"
  /\ rect = Zero
  /\ corner = "NONE"
  /\ crop = Zero

\* CropActivity.onCreate: it throws unless the arguments are as required.
Open ==
  /\ phase = "new"
  /\ IF aspect.a >= 0 \/ aspect.b >= 0
       THEN phase' = "open" /\ rect' = FirstRect
       ELSE phase' = "rejected" /\ UNCHANGED rect
  /\ UNCHANGED <<aspect, source, corner, crop>>

-----------------------------------------------------------------------------
(* Drags.                                                                  *)

Near(x, y, cx, cy) == (x - cx) * (x - cx) + (y - cy) * (y - cy) < Reach * Reach
Contains(r, x, y) == r.left <= x /\ x < r.right /\ r.top <= y /\ y < r.bottom

\* Which corner a drag that starts at (x, y) moves, in the order the code tries them.
CornerAt(x, y) ==
  CASE Near(x, y, rect.left, rect.top) -> "TOP_LEFT"
    [] OTHER ->
  CASE Near(x, y, rect.right, rect.top) -> "TOP_RIGHT"
    [] OTHER ->
  CASE Near(x, y, rect.left, rect.bottom) -> "BOTTOM_LEFT"
    [] OTHER ->
  CASE Near(x, y, rect.right, rect.bottom) -> "BOTTOM_RIGHT"
    [] Contains(rect, x, y) -> "MOVE"
    [] OTHER -> "NONE"

DragStart ==
  /\ phase = "open" /\ corner = "NONE"
  /\ \E x \in 0 .. ViewW, y \in 0 .. ViewH : corner' = CornerAt(x, y)
  /\ UNCHANGED <<aspect, source, phase, rect, crop>>

DragEnd ==
  /\ phase = "open"
  /\ corner' = "NONE"
  /\ UNCHANGED <<aspect, source, phase, rect, crop>>

\* n.coerceIn(lo, hi), which throws if lo > hi.
Coerce(n, lo, hi) == IF n < lo THEN lo ELSE IF n > hi THEN hi ELSE n

\* Where a corner may go: the bounds the code coerces its two sides into.  The
\* mutant forgets minCropWidth for the right side.
LoXWithoutMin(c) == IF c \in Lefts THEN image.left ELSE rect.left
LoX(c) == IF c \in Lefts THEN image.left ELSE rect.left + MinCrop
HiX(c) == IF c \in Lefts THEN rect.right - MinCrop ELSE image.right
LoY(c) == IF c \in Tops THEN image.top ELSE rect.top + MinCrop
HiY(c) == IF c \in Tops THEN rect.bottom - MinCrop ELSE image.bottom

DragThrows(c) == LoX(c) > HiX(c) \/ LoY(c) > HiY(c)

\* Bounds that are equal but for rounding: as Floats, the one computed from the opposite
\* side may lie on either side of the image's edge, or on it.
BoundsMeet(c) == LoX(c) = HiX(c) \/ LoY(c) = HiY(c)

\* Where the corner goes: its x and y without a fixed ratio, ...
FreeX(c, dx) == Coerce((IF c \in Lefts THEN rect.left ELSE rect.right) + dx, LoX(c), HiX(c))
FreeY(c, dy) == Coerce((IF c \in Tops THEN rect.top ELSE rect.bottom) + dy, LoY(c), HiY(c))

\* ... the rectangle with its corner c at (x, y), ...
WithCorner(c, x, y) ==
  [left   |-> IF c \in Lefts THEN x ELSE rect.left,
   right  |-> IF c \in Lefts THEN rect.right ELSE x,
   top    |-> IF c \in Tops THEN y ELSE rect.top,
   bottom |-> IF c \in Tops THEN rect.bottom ELSE y]

\* ... and the rectangle of width w and height h whose opposite corner stays.
Anchored(c, w, h) ==
  WithCorner(c, IF c \in Lefts THEN rect.right - w ELSE rect.left + w,
                IF c \in Tops THEN rect.bottom - h ELSE rect.top + h)

\* With a fixed ratio the width decides, unless there is no room for the height.
WidthTo(c, x) == IF c \in Lefts THEN rect.right - x ELSE x - rect.left
RoomY(c) == IF c \in Tops THEN rect.bottom - image.top ELSE image.bottom - rect.top

\* Mutants of FixedSize: the height is cut off but the width kept; the height is not
\* compared with the room there is.
FixedSizeCut(c, w) ==
  LET h == Scaled(w, aspect.b, aspect.a)
  IN  <<w, IF h > RoomY(c) THEN RoomY(c) ELSE h>>
FixedSizeUnbounded(c, w) == <<w, Scaled(w, aspect.b, aspect.a)>>

FixedSize(c, w) ==
  LET h == Scaled(w, aspect.b, aspect.a)
  IN  IF h > RoomY(c) THEN <<Scaled(RoomY(c), aspect.a, aspect.b), RoomY(c)>>
                      ELSE <<w, h>>

Resized(c, dx, dy) ==
  IF Fixed
    THEN LET size == FixedSize(c, WidthTo(c, FreeX(c, dx))) IN Anchored(c, size[1], size[2])
    ELSE WithCorner(c, FreeX(c, dx), FreeY(c, dy))

\* How far a move by d goes that may not pass lo and hi.
Moved(from, to, d, lo, hi) ==
  IF from + d < lo THEN lo - from ELSE IF to + d > hi THEN hi - to ELSE d

Translated(dx, dy) ==
  [left |-> rect.left + dx, right |-> rect.right + dx,
   top |-> rect.top + dy, bottom |-> rect.bottom + dy]

DragCorner(c, dx, dy) ==
  /\ corner = c /\ c \in Corners
  /\ \/ /\ DragThrows(c) \/ BoundsMeet(c)
        /\ phase' = "dragThrew"
        /\ UNCHANGED rect
     \/ /\ ~DragThrows(c)
        /\ rect' = Resized(c, dx, dy)
        /\ UNCHANGED phase

DragMove(dx, dy) ==
  /\ corner = "MOVE"
  /\ rect' = Translated(Moved(rect.left, rect.right, dx, image.left, image.right),
                        Moved(rect.top, rect.bottom, dy, image.top, image.bottom))
  /\ UNCHANGED phase

Drag ==
  /\ phase = "open"
  /\ \E dx \in -Step .. Step, dy \in -Step .. Step :
       DragMove(dx, dy) \/ \E c \in Corners : DragCorner(c, dx, dy)
  /\ UNCHANGED <<aspect, source, corner, crop>>

-----------------------------------------------------------------------------
(* Leaving the screen.                                                     *)

Exit ==
  /\ phase = "open"
  /\ phase' = "cancelled"
  /\ UNCHANGED <<aspect, source, rect, corner, crop>>

\* The crop rectangle in pixels of the source, and its mutant that forgets where the
\* image starts in the view.
ToSourceUnshifted ==
  [left |-> Scaled(rect.left, source.w, imageW),
   top |-> Scaled(rect.top, source.h, imageH),
   right |-> Scaled(rect.right, source.w, imageW),
   bottom |-> Scaled(rect.bottom, source.h, imageH)]
ToSource ==
  [left |-> Scaled(rect.left - image.left, source.w, imageW),
   top |-> Scaled(rect.top - image.top, source.h, imageH),
   right |-> Scaled(rect.right - image.left, source.w, imageW),
   bottom |-> Scaled(rect.bottom - image.top, source.h, imageH)]

\* BitmapRegionDecoder.decodeRegion refuses a rectangle that misses the image.
Misses(r) == r.right <= 0 \/ r.bottom <= 0 \/ r.left >= source.w \/ r.top >= source.h

\* Confirm: the region of the source that is to be written. (A provider that returns
\* no stream makes the press do nothing.)
Confirm ==
  /\ phase = "open"
  /\ phase' = "confirmed"
  /\ crop' = ToSource
  /\ UNCHANGED <<aspect, source, rect, corner>>

\* Decode it, subsampled, and write it; nothing catches what the streams, the
\* computation of the sample and the decoder throw.
DecodeEnds == {"unreadable", "sampleThrew"} \union
              (IF Misses(crop) THEN {"decoderThrew"} ELSE {"saved", "failed"})
Decode ==
  /\ phase = "confirmed"
  /\ phase' \in DecodeEnds
  /\ UNCHANGED <<aspect, source, rect, corner, crop>>

Next == Open \/ DragStart \/ Drag \/ DragEnd \/ Exit \/ Confirm \/ Decode

Spec == Init /\ [][Next]_vars

-----------------------------------------------------------------------------
(* Properties.                                                             *)

TypeOK ==
  /\ aspect \in Aspects /\ source \in Sources
  /\ phase \in {"new", "rejected", "open", "cancelled", "dragThrew",
                "confirmed", "saved", "failed", "unreadable", "sampleThrew", "decoderThrew"}
  /\ rect \in Rects /\ crop \in Rects
  /\ corner \in Corners \union {"MOVE", "NONE"}
  /\ phase \in {"new", "rejected"} => rect = Zero /\ corner = "NONE" /\ crop = Zero

\* What CropActivity's message demands of an aspect ratio; its test, any where all is
\* meant, also lets one negative side pass, and the first rectangle is then upside down.
AspectPositive == aspect.a >= 0 /\ aspect.b >= 0

\* No drag, of whatever corner and however long, takes a side of the crop rectangle
\* out of the image or past the opposite side.
Inside ==
  /\ image.left <= rect.left /\ rect.left <= rect.right /\ rect.right <= image.right
  /\ image.top <= rect.top /\ rect.top <= rect.bottom /\ rect.bottom <= image.bottom
InsideImage == phase \notin {"new", "rejected"} /\ AspectPositive => Inside

\* A fixed aspect ratio survives every drag (to a rounding of one side).
RatioKept ==
  phase = "open" /\ Fixed /\ AspectPositive =>
    LET w == rect.right - rect.left  h == rect.bottom - rect.top
    IN  h = Scaled(w, aspect.b, aspect.a) \/ w = Scaled(h, aspect.a, aspect.b)

\* A drag can throw (coerceIn of an empty range kills the process) only if the first
\* rectangle was too small, the fixed ratio makes the rectangle wider than high, or it has
\* been dragged to the minimum at an edge, where only rounding decides.
LargeFirst == FirstRect.right - FirstRect.left >= MinCrop
              /\ FirstRect.bottom - FirstRect.top >= MinCrop
Upright == \/ ~Fixed
           \/ AspectPositive /\ \E k \in 1 .. aspect.b : aspect.b = k * aspect.a
Tight ==
  \/ /\ rect.right - rect.left = MinCrop
     /\ rect.left = image.left \/ rect.right = image.right
  \/ /\ rect.bottom - rect.top = MinCrop
     /\ rect.top = image.top \/ rect.bottom = image.bottom
DragThrowsOnlyIfCramped ==
  phase = "dragThrew" /\ AspectPositive => ~LargeFirst \/ ~Upright \/ Tight

\* The region that is decoded lies in the source image, the right way round, and the
\* decoder refuses it only if the source is smaller than it is shown.
DecodedInSource ==
  phase \in {"confirmed", "saved", "failed"} /\ AspectPositive =>
    /\ 0 <= crop.left /\ crop.left <= crop.right /\ crop.right <= source.w
    /\ 0 <= crop.top /\ crop.top <= crop.bottom /\ crop.bottom <= source.h
RefusedOnlyIfEnlarged ==
  phase = "decoderThrew" /\ AspectPositive /\ LargeFirst /\ Upright =>
    source.w * MinCrop < imageW \/ source.h * MinCrop < imageH
CropInSource == TypeOK /\ DecodedInSource /\ RefusedOnlyIfEnlarged
=============================================================================
