--------------------------- MODULE CropRectProofs ---------------------------
(***************************************************************************)
(* Theorems about CropRect, for every view, bitmap, minimum, aspect ratio  *)
(* and length of a drag event, and about the crop screen, ImageCrop, which *)
(* is shown to be CropRect with its samplings hidden.                      *)
(*                                                                         *)
(* That no drag takes the rectangle out of the image, and when a drag can  *)
(* throw, rest on one inductive invariant: the rectangle is inside, at     *)
(* least MinCrop wide and high if it was so at first, and never wider than *)
(* an upright ratio says.  The ratio itself survives the drags of the      *)
(* corners by RatioInv, and CropInv carries the rectangle to the source.   *)
(* The two samplings each find the largest power of two, by induction over *)
(* the powers of two.                                                      *)
(***************************************************************************)
EXTENDS ImageCrop, WellFoundedInduction, TLAPS

USE ViewAssumption, BmpAssumption, FitAssumption, DragAssumption, AspectsAssumption, SourcesAssumption

-----------------------------------------------------------------------------
(* Division, rounded down.                                                 *)

LEMMA DivType ==
  ASSUME NEW x \in Int, NEW y \in Nat \ {0}
  PROVE  x \div y \in Int
OBVIOUS

LEMMA DivAtMost ==
  ASSUME NEW x \in Int, NEW y \in Nat \ {0}, NEW z \in Int, x <= z * y
  PROVE  x \div y <= z
OBVIOUS

LEMMA DivAtLeast ==
  ASSUME NEW x \in Int, NEW y \in Nat \ {0}, NEW z \in Int, z * y <= x
  PROVE  z <= x \div y
OBVIOUS

LEMMA DivBack ==
  ASSUME NEW x \in Int, NEW y \in Nat \ {0}
  PROVE  (x \div y) * y <= x
OBVIOUS

\* Scaled by a positive ratio it is a plain division.
LEMMA ScaledIs ==
  ASSUME NEW x \in Int, NEW p \in Int, NEW q \in Nat \ {0}
  PROVE  Scaled(x, p, q) = (x * p) \div q /\ Scaled(x, p, q) \in Int
BY DivType DEF Scaled

LEMMA ScaledType ==
  ASSUME NEW x \in Int, NEW p \in Int, NEW q \in Int \ {0}
  PROVE  Scaled(x, p, q) \in Int
<1>1. CASE q > 0
  BY <1>1, ScaledIs
<1>2. CASE ~(q > 0)
  <2>1. -q \in Nat \ {0} /\ -(x * p) \in Int
    BY <1>2
  <2>2. (-(x * p)) \div (-q) \in Int
    BY <2>1, DivType
  <2> QED BY <1>2, <2>2 DEF Scaled
<1> QED BY <1>1, <1>2

\* A side that does not fit, scaled to the room there is, is no longer than it was.
LEMMA ScaledFits ==
  ASSUME NEW w \in Nat, NEW room \in Nat, NEW a \in Nat \ {0}, NEW b \in Nat \ {0},
         Scaled(w, b, a) > room
  PROVE  Scaled(room, a, b) \in Nat /\ Scaled(room, a, b) <= w
<1> DEFINE h == Scaled(w, b, a)
<1>1. h = (w * b) \div a /\ h \in Int
  BY ScaledIs
<1>2. h * a <= w * b
  BY <1>1, DivBack
<1>3. room * a <= w * b
  <2>1. room * a <= h * a
    BY <1>1
  <2> QED BY <1>1, <1>2, <2>1
<1>4. (room * a) \div b <= w
  BY <1>3, DivAtMost
<1>5. 0 <= (room * a) \div b
  <2>1. room * a \in Int /\ 0 * b <= room * a
    OBVIOUS
  <2> QED BY ONLY <2>1, b \in Nat \ {0}, 0 \in Int, DivAtLeast
<1>6. Scaled(room, a, b) = (room * a) \div b /\ Scaled(room, a, b) \in Int
  BY ONLY room \in Int, a \in Int, b \in Nat \ {0}, ScaledIs
<1> QED BY ONLY <1>4, <1>5, <1>6

\* With b = k * a, height is exactly k widths, and a width fitted to a room is the
\* largest of which k fit.
LEMMA ScaledByWhole ==
  ASSUME NEW w \in Nat, NEW a \in Nat \ {0}, NEW b \in Nat \ {0},
         NEW k \in Nat \ {0}, b = k * a
  PROVE  Scaled(w, b, a) = k * w
<1>1. (k * w) * a = w * b
  OBVIOUS
<1>2. (w * b) \div a <= k * w /\ k * w <= (w * b) \div a
  BY <1>1, DivAtMost, DivAtLeast
<1> QED BY <1>2, ScaledIs

LEMMA FittedByWhole ==
  ASSUME NEW room \in Nat, NEW a \in Nat \ {0}, NEW b \in Nat \ {0},
         NEW k \in Nat \ {0}, b = k * a
  PROVE  /\ k * Scaled(room, a, b) <= room
         /\ \A m \in Nat : k * m <= room => m <= Scaled(room, a, b)
<1> DEFINE w == Scaled(room, a, b)
<1>1. w = (room * a) \div b /\ w \in Int
  <2>1. room \in Int /\ a \in Int /\ b \in Nat \ {0}
    OBVIOUS
  <2> QED BY ONLY <2>1, ScaledIs
<1>2. k * w <= room
  <2>1. w * b <= room * a
    <3>1. room * a \in Int
      OBVIOUS
    <3>2. ((room * a) \div b) * b <= room * a
      BY ONLY <3>1, b \in Nat \ {0}, DivBack
    <3> QED BY ONLY <1>1, <3>2
  <2>2. w * b = (k * w) * a
    BY ONLY <1>1, k \in Nat, a \in Nat, b = k * a
  <2>3. (k * w) * a <= room * a
    BY ONLY <2>1, <2>2
  <2> QED BY <1>1, <2>3
<1>3. ASSUME NEW m \in Nat, k * m <= room
      PROVE  m <= w
  <2>1. (k * m) * a <= room * a
    BY <1>3
  <2>2. m * b = (k * m) * a
    OBVIOUS
  <2>3. m * b <= room * a
    BY <2>1, <2>2
  <2>4. m <= (room * a) \div b
    <3>1. room * a \in Int
      OBVIOUS
    <3> HIDE DEF w
    <3> QED BY ONLY <2>3, <3>1, m \in Nat, b \in Nat \ {0}, DivAtLeast
  <2> QED BY <1>1, <2>4
<1> QED BY <1>2, <1>3

-----------------------------------------------------------------------------
(* The image in the view and the first rectangle in the image.             *)

LEMMA CentredInside ==
  ASSUME NEW within \in Rects, NEW w \in Nat, NEW h \in Nat,
         w <= within.right - within.left, h <= within.bottom - within.top
  PROVE  LET r == Centred(w, h, within)
         IN  /\ r \in Rects /\ r.right - r.left = w /\ r.bottom - r.top = h
             /\ within.left <= r.left /\ r.right <= within.right
             /\ within.top <= r.top /\ r.bottom <= within.bottom
BY DEF Centred, Box, Rects

LEMMA CentredType ==
  ASSUME NEW within \in Rects, NEW w \in Int, NEW h \in Int
  PROVE  LET r == Centred(w, h, within)
         IN  r \in Rects /\ r.right - r.left = w /\ r.bottom - r.top = h
BY DEF Centred, Box, Rects

LEMMA ScaledNat ==
  ASSUME NEW x \in Nat, NEW p \in Nat, NEW q \in Nat \ {0}
  PROVE  Scaled(x, p, q) \in Nat
<1>1. x * p \in Int /\ 0 * q <= x * p
  OBVIOUS
<1>2. 0 <= (x * p) \div q
  BY ONLY <1>1, q \in Nat \ {0}, 0 \in Int, DivAtLeast
<1> QED BY <1>2, ScaledIs

LEMMA ScaledPositive ==
  ASSUME NEW x \in Nat, NEW p \in Nat, NEW q \in Nat \ {0}, q <= x * p
  PROVE  Scaled(x, p, q) \in Nat \ {0}
<1>1. x * p \in Int /\ 1 * q <= x * p
  OBVIOUS
<1>2. 1 <= (x * p) \div q
  BY ONLY <1>1, q \in Nat \ {0}, 1 \in Int, DivAtLeast
<1> QED BY <1>2, ScaledIs

LEMMA ImageIsRect == image \in Rects /\ imageW \in Nat \ {0} /\ imageH \in Nat \ {0}
<1> DEFINE view == Box(0, 0, ViewW, ViewH)
<1>1. view \in Rects
  BY DEF Box, Rects
<1>2. Scaled(BmpH, ViewW, BmpW) \in Nat \ {0} /\ Scaled(BmpW, ViewH, BmpH) \in Nat \ {0}
  BY ScaledPositive
<1>3. CASE ViewW * BmpH <= ViewH * BmpW
  <2>1. image = Centred(ViewW, Scaled(BmpH, ViewW, BmpW), view)
    BY <1>3 DEF image
  <2> QED BY ONLY <2>1, <1>1, <1>2, ViewAssumption, CentredType DEF imageW, imageH
<1>4. CASE ~(ViewW * BmpH <= ViewH * BmpW)
  <2>1. image = Centred(Scaled(BmpW, ViewH, BmpH), ViewH, view)
    BY <1>4 DEF image
  <2> QED BY ONLY <2>1, <1>1, <1>2, ViewAssumption, CentredType DEF imageW, imageH
<1> QED BY <1>3, <1>4

\* A rectangle is inside the image, as Inside says of rect.
Within(r) ==
  /\ image.left <= r.left /\ r.left <= r.right /\ r.right <= image.right
  /\ image.top <= r.top /\ r.top <= r.bottom /\ r.bottom <= image.bottom

LEMMA CentredWithin ==
  ASSUME NEW w \in Nat, NEW h \in Nat, w <= imageW, h <= imageH
  PROVE  LET r == Centred(w, h, image)
         IN  Within(r) /\ r.right - r.left = w /\ r.bottom - r.top = h
<1>1. w <= image.right - image.left /\ h <= image.bottom - image.top
  BY DEF imageW, imageH
<1> DEFINE r == Centred(w, h, image)
<1>2. /\ r \in Rects /\ r.right - r.left = w /\ r.bottom - r.top = h
      /\ image.left <= r.left /\ r.right <= image.right
      /\ image.top <= r.top /\ r.bottom <= image.bottom
  BY ONLY <1>1, w \in Nat, h \in Nat, ImageIsRect, CentredInside
<1> HIDE DEF r
<1>3. r.left <= r.right /\ r.top <= r.bottom
  BY <1>2 DEF Rects
<1> QED BY <1>2, <1>3 DEF Within, r

\* With b = k * a, k widths fit into the height.
Slim(r) ==
  Fixed => \A k \in 1 .. aspect.b :
             aspect.b = k * aspect.a => k * (r.right - r.left) <= r.bottom - r.top

AspectType == aspect \in [a : Int, b : Int]

LEMMA FirstRectType ==
  ASSUME AspectType
  PROVE  FirstRect \in Rects
<1> USE ImageIsRect DEF AspectType
<1>1. CASE ~Fixed
  BY <1>1 DEF FirstRect
<1>2. CASE Fixed
  <2>1. aspect.a \in Int \ {0} /\ aspect.b \in Int \ {0}
    BY <1>2 DEF Fixed
  <2>2. Scaled(imageH, aspect.a, aspect.b) \in Int /\ Scaled(imageW, aspect.b, aspect.a) \in Int
    <3>1. /\ imageW \in Int /\ imageH \in Int
          /\ aspect.a \in Int /\ aspect.b \in Int
      BY ONLY <2>1, ImageIsRect
    <3>2. Scaled(imageH, aspect.a, aspect.b) \in Int
      BY ONLY <3>1, <2>1, ScaledType
    <3>3. Scaled(imageW, aspect.b, aspect.a) \in Int
      BY ONLY <3>1, <2>1, ScaledType
    <3> QED BY ONLY <3>2, <3>3
  <2>3. FirstRect \in {Centred(Scaled(imageH, aspect.a, aspect.b), imageH, image),
                       Centred(imageW, Scaled(imageW, aspect.b, aspect.a), image)}
    BY <1>2 DEF FirstRect
  <2> QED BY ONLY <2>2, <2>3, ImageIsRect, CentredType
<1> QED BY <1>1, <1>2

LEMMA FirstRectInside ==
  ASSUME AspectType, AspectPositive
  PROVE  Within(FirstRect) /\ Slim(FirstRect)
<1> USE ImageIsRect DEF AspectType, AspectPositive
<1> DEFINE a == aspect.a
           b == aspect.b
<1>1. CASE ~Fixed
  BY <1>1 DEF FirstRect, Within, Slim, Rects, imageW, imageH
<1>2. CASE Fixed
  <2>1. a \in Nat \ {0} /\ b \in Nat \ {0}
    BY <1>2 DEF Fixed
  <2>2. CASE Scaled(imageW, b, a) > imageH
    <3> DEFINE w == Scaled(imageH, a, b)
    <3>1. w \in Nat /\ w <= imageW
      BY ONLY <2>1, <2>2, ImageIsRect, ScaledFits
    <3>2. FirstRect = Centred(w, imageH, image)
      BY <1>2, <2>2 DEF FirstRect
    <3>3. ASSUME NEW k \in 1 .. b, b = k * a
          PROVE  k * w <= imageH
      <4>1. k \in Nat \ {0}
        BY <2>1
      <4> QED BY ONLY <2>1, <3>3, <4>1, ImageIsRect, FittedByWhole
    <3> HIDE DEF w
    <3>4. Within(FirstRect) /\ FirstRect.right - FirstRect.left = w
                            /\ FirstRect.bottom - FirstRect.top = imageH
      BY ONLY <3>1, <3>2, ImageIsRect, CentredWithin
    <3> QED BY <3>3, <3>4 DEF Slim
  <2>3. CASE ~(Scaled(imageW, b, a) > imageH)
    <3> DEFINE h == Scaled(imageW, b, a)
    <3>1. h \in Nat /\ h <= imageH
      <4>1. h \in Nat
        BY ONLY <2>1, ImageIsRect, ScaledNat
      <4> QED BY ONLY <4>1, <2>3, ImageIsRect
    <3>2. FirstRect = Centred(imageW, h, image)
      BY <1>2, <2>3 DEF FirstRect
    <3>3. ASSUME NEW k \in 1 .. b, b = k * a
          PROVE  k * imageW <= h
      <4>1. k \in Nat \ {0}
        BY <2>1
      <4>2. h = k * imageW
        <5>1. imageW \in Nat
          BY ImageIsRect
        <5> HIDE DEF a, b
        <5> QED BY ONLY <2>1, <3>3, <4>1, <5>1, ScaledByWhole
      <4> QED BY <4>2, <3>1
    <3> HIDE DEF h
    <3>4. Within(FirstRect) /\ FirstRect.right - FirstRect.left = imageW
                            /\ FirstRect.bottom - FirstRect.top = h
      BY ONLY <3>1, <3>2, ImageIsRect, CentredWithin
    <3> QED BY <3>3, <3>4 DEF Slim
  <2> QED BY <2>2, <2>3
<1> QED BY <1>1, <1>2

-----------------------------------------------------------------------------
(* Types.                                                                  *)

LEMMA FixedSizeType ==
  ASSUME AspectType, Fixed, rect \in Rects, NEW c, NEW w \in Int
  PROVE  FixedSize(c, w)[1] \in Int /\ FixedSize(c, w)[2] \in Int
<1> DEFINE h == Scaled(w, aspect.b, aspect.a)
           fitted == Scaled(RoomY(c), aspect.a, aspect.b)
<1>1. aspect.a \in Int \ {0} /\ aspect.b \in Int \ {0} /\ aspect.a \in Int /\ aspect.b \in Int
  BY DEF AspectType, Fixed
<1>2. RoomY(c) \in Int
  BY ImageIsRect DEF RoomY, Rects
<1>3. h \in Int
  BY ONLY <1>1, w \in Int, ScaledType
<1>4. fitted \in Int
  BY ONLY <1>1, <1>2, ScaledType
<1>5. FixedSize(c, w) \in {<<fitted, RoomY(c)>>, <<w, h>>}
  BY DEF FixedSize
<1> HIDE DEF h, fitted
<1> QED BY ONLY <1>2, <1>3, <1>4, <1>5, w \in Int

LEMMA WithCornerType ==
  ASSUME rect \in Rects, NEW c, NEW x \in Int, NEW y \in Int
  PROVE  WithCorner(c, x, y) \in Rects
BY DEF WithCorner, Rects

LEMMA AnchoredType ==
  ASSUME rect \in Rects, NEW c, NEW w \in Int, NEW h \in Int
  PROVE  Anchored(c, w, h) \in Rects
BY WithCornerType DEF Anchored, Rects

LEMMA BoundsType ==
  ASSUME rect \in Rects, NEW c
  PROVE  LoX(c) \in Int /\ HiX(c) \in Int /\ LoY(c) \in Int /\ HiY(c) \in Int
BY ImageIsRect DEF LoX, HiX, LoY, HiY, Rects

LEMMA FreeType ==
  ASSUME rect \in Rects, NEW c, NEW d \in Int
  PROVE  FreeX(c, d) \in Int /\ FreeY(c, d) \in Int
BY BoundsType DEF FreeX, FreeY, Coerce, Rects

LEMMA ResizedType ==
  ASSUME AspectType, rect \in Rects, NEW c, NEW dx \in Int, NEW dy \in Int
  PROVE  Resized(c, dx, dy) \in Rects
<1>1. CASE Fixed
  <2> DEFINE w == WidthTo(c, FreeX(c, dx))
  <2>1. w \in Int
    BY FreeType DEF WidthTo, Rects
  <2>2. Resized(c, dx, dy) = Anchored(c, FixedSize(c, w)[1], FixedSize(c, w)[2])
    BY <1>1 DEF Resized
  <2> HIDE DEF w
  <2> QED BY <1>1, <2>1, <2>2, FixedSizeType, AnchoredType
<1>2. CASE ~Fixed
  BY <1>2, FreeType, WithCornerType DEF Resized
<1> QED BY <1>1, <1>2

LEMMA TranslatedType ==
  ASSUME rect \in Rects, NEW dx \in Int, NEW dy \in Int
  PROVE  Translated(dx, dy) \in Rects
BY DEF Translated, Rects

LEMMA MovedType ==
  ASSUME NEW from \in Int, NEW to \in Int, NEW d \in Int, NEW lo \in Int, NEW hi \in Int
  PROVE  Moved(from, to, d, lo, hi) \in Int
BY DEF Moved

LEMMA SourceType ==
  ASSUME rect \in Rects, source \in Sources
  PROVE  ToSource \in Rects
<1>1. source.w \in Int /\ source.h \in Int
  OBVIOUS
<1>2. /\ rect.left - image.left \in Int /\ rect.right - image.left \in Int
      /\ rect.top - image.top \in Int /\ rect.bottom - image.top \in Int
  BY ImageIsRect DEF Rects
<1>3. /\ Scaled(rect.left - image.left, source.w, imageW) \in Int
      /\ Scaled(rect.right - image.left, source.w, imageW) \in Int
  BY ONLY <1>1, <1>2, ImageIsRect, ScaledIs
<1>4. /\ Scaled(rect.top - image.top, source.h, imageH) \in Int
      /\ Scaled(rect.bottom - image.top, source.h, imageH) \in Int
  BY ONLY <1>1, <1>2, ImageIsRect, ScaledIs
<1> QED BY ONLY <1>3, <1>4 DEF ToSource, Rects

\* What Open sees of the arguments and the corner a drag starts at.
LEMMA CornerType ==
  ASSUME NEW x, NEW y
  PROVE  CornerAt(x, y) \in Corners \union {"MOVE", "NONE"}
BY DEF CornerAt, Corners, Lefts, Tops

\* The types are as TypeOK says, and nothing is placed or dragged before CropActivity
\* has accepted its arguments.
THEOREM TypeCorrect == Spec => []TypeOK
<1>1. Init => TypeOK
  BY DEF Init, TypeOK, Zero, Box, Rects
<1>2. TypeOK /\ [Next]_vars => TypeOK'
  <2> SUFFICES ASSUME TypeOK, [Next]_vars PROVE TypeOK'
    OBVIOUS
  <2>1. AspectType /\ rect \in Rects /\ source \in Sources
    BY DEF TypeOK, AspectType
  <2>2. CASE Open
    BY <2>1, <2>2, FirstRectType DEF Open, TypeOK
  <2>3. CASE DragStart
    <3>1. corner' \in Corners \union {"MOVE", "NONE"}
      BY <2>3, CornerType DEF DragStart
    <3> QED BY <2>3, <3>1 DEF DragStart, TypeOK
  <2>4. CASE Drag
    <3> USE <2>4 DEF Drag
    <3>1. rect' \in Rects /\ phase' \in {"open", "dragThrew"}
      <4>1. PICK dx \in -Step .. Step, dy \in -Step .. Step :
              DragMove(dx, dy) \/ \E c \in Corners : DragCorner(c, dx, dy)
        OBVIOUS
      <4>2. dx \in Int /\ dy \in Int
        OBVIOUS
      <4>3. CASE DragMove(dx, dy)
        <5> DEFINE mx == Moved(rect.left, rect.right, dx, image.left, image.right)
                   my == Moved(rect.top, rect.bottom, dy, image.top, image.bottom)
        <5>1. mx \in Int /\ my \in Int
          BY <2>1, <4>2, ImageIsRect, MovedType DEF Rects
        <5>2. rect' = Translated(mx, my) /\ phase' = "open"
          BY <4>3 DEF DragMove
        <5> HIDE DEF mx, my
        <5> QED BY ONLY <5>1, <5>2, <2>1, TranslatedType
      <4>4. ASSUME NEW c \in Corners, DragCorner(c, dx, dy)
            PROVE  rect' \in Rects /\ phase' \in {"open", "dragThrew"}
        <5>1. \/ rect' = rect /\ phase' = "dragThrew"
              \/ rect' = Resized(c, dx, dy) /\ phase' = "open"
          BY <4>4 DEF DragCorner
        <5> QED BY ONLY <5>1, <4>2, <2>1, ResizedType
      <4> QED BY <4>1, <4>3, <4>4
    <3>2. phase = "open" /\ UNCHANGED <<aspect, source, corner, crop>>
      OBVIOUS
    <3> QED BY ONLY TypeOK, <3>1, <3>2 DEF TypeOK
  <2>5. CASE DragEnd
    BY <2>5 DEF DragEnd, TypeOK
  <2>6. CASE Exit
    BY <2>6 DEF Exit, TypeOK
  <2>7. CASE Confirm
    <3>1. crop' \in Rects
      BY <2>1, <2>7, SourceType DEF Confirm
    <3>2. phase' = "confirmed"
      BY <2>7 DEF Confirm
    <3>3. UNCHANGED <<aspect, source, rect, corner>>
      BY <2>7 DEF Confirm
    <3> QED BY ONLY TypeOK, <3>1, <3>2, <3>3 DEF TypeOK
  <2>8. CASE Decode
    BY <2>8 DEF Decode, DecodeEnds, TypeOK
  <2>9. CASE UNCHANGED vars
    BY <2>9 DEF vars, TypeOK
  <2> QED BY <2>2, <2>3, <2>4, <2>5, <2>6, <2>7, <2>8, <2>9 DEF Next
<1> QED BY <1>1, <1>2, PTL DEF Spec

-----------------------------------------------------------------------------
(* One drag of a corner.                                                   *)

Big(r) == r.right - r.left >= MinCrop /\ r.bottom - r.top >= MinCrop

\* How wide the rectangle may become if its corner c is dragged.
RoomX(c) == IF c \in Lefts THEN rect.right - image.left ELSE image.right - rect.left

LEMMA Rooms ==
  ASSUME rect \in Rects, Within(rect), NEW c
  PROVE  /\ RoomX(c) \in Nat /\ RoomY(c) \in Nat
         /\ rect.right - rect.left <= RoomX(c) /\ rect.bottom - rect.top <= RoomY(c)
BY ImageIsRect DEF RoomX, RoomY, Within, Rects

\* A coerced corner leaves at least MinCrop and at most the room there is.
LEMMA FreeRange ==
  ASSUME rect \in Rects, NEW c, ~DragThrows(c), NEW d \in Int
  PROVE  /\ LoX(c) <= FreeX(c, d) /\ FreeX(c, d) <= HiX(c)
         /\ LoY(c) <= FreeY(c, d) /\ FreeY(c, d) <= HiY(c)
BY BoundsType DEF DragThrows, FreeX, FreeY, Coerce, Rects

LEMMA FreeWidth ==
  ASSUME rect \in Rects, NEW c, ~DragThrows(c), NEW d \in Int
  PROVE  /\ WidthTo(c, FreeX(c, d)) \in Nat
         /\ MinCrop <= WidthTo(c, FreeX(c, d)) /\ WidthTo(c, FreeX(c, d)) <= RoomX(c)
<1> DEFINE x == FreeX(c, d)
<1>1. x \in Int /\ LoX(c) <= x /\ x <= HiX(c)
  BY FreeType, FreeRange
<1> HIDE DEF x
<1>2. WidthTo(c, x) \in Nat /\ MinCrop <= WidthTo(c, x) /\ WidthTo(c, x) <= RoomX(c)
  BY <1>1, ImageIsRect DEF WidthTo, RoomX, LoX, HiX, Rects
<1> QED BY <1>2 DEF x

LEMMA WithCornerWithin ==
  ASSUME rect \in Rects, Within(rect), NEW c, NEW x \in Int, NEW y \in Int,
         LoX(c) <= x, x <= HiX(c), LoY(c) <= y, y <= HiY(c)
  PROVE  Within(WithCorner(c, x, y)) /\ Big(WithCorner(c, x, y))
BY ImageIsRect DEF WithCorner, Within, Big, LoX, HiX, LoY, HiY, Rects

LEMMA AnchoredWithin ==
  ASSUME rect \in Rects, Within(rect), NEW c, NEW w \in Nat, NEW h \in Nat,
         w <= RoomX(c), h <= RoomY(c)
  PROVE  LET r == Anchored(c, w, h)
         IN  Within(r) /\ r.right - r.left = w /\ r.bottom - r.top = h
BY ImageIsRect DEF Anchored, WithCorner, Within, RoomX, RoomY, Rects

\* The size a fixed ratio gives: it fits, it is slim, and it is not too small if the
\* rectangle it replaces was not and the ratio is upright.
LEMMA FixedSizeFits ==
  ASSUME AspectType, AspectPositive, Fixed, NEW c, RoomY(c) \in Nat, NEW w \in Nat
  PROVE  LET size == FixedSize(c, w)
         IN  /\ size[1] \in Nat /\ size[1] <= w
             /\ size[2] \in Nat /\ size[2] <= RoomY(c)
<1> DEFINE a == aspect.a
           b == aspect.b
           h == Scaled(w, b, a)
           fitted == Scaled(RoomY(c), a, b)
<1>1. a \in Nat \ {0} /\ b \in Nat \ {0}
  BY DEF AspectType, AspectPositive, Fixed
<1>2. h \in Nat
  BY ONLY <1>1, w \in Nat, ScaledNat
<1>3. CASE h > RoomY(c)
  <2>1. FixedSize(c, w) = <<fitted, RoomY(c)>>
    BY <1>3 DEF FixedSize
  <2>2. fitted \in Nat /\ fitted <= w
    BY ONLY <1>1, <1>3, w \in Nat, RoomY(c) \in Nat, ScaledFits
  <2> HIDE DEF fitted
  <2> QED BY <2>1, <2>2
<1>4. CASE ~(h > RoomY(c))
  <2>1. FixedSize(c, w) = <<w, h>>
    BY <1>4 DEF FixedSize
  <2> HIDE DEF h
  <2> QED BY <1>2, <1>4, <2>1
<1> QED BY <1>3, <1>4

LEMMA FixedSizeSlim ==
  ASSUME AspectType, AspectPositive, Fixed, NEW c, RoomY(c) \in Nat, NEW w \in Nat,
         NEW k \in 1 .. aspect.b, aspect.b = k * aspect.a
  PROVE  LET size == FixedSize(c, w)
         IN  /\ k * size[1] <= size[2]
             /\ MinCrop <= w /\ k * MinCrop <= RoomY(c) => MinCrop <= size[1]
<1> DEFINE a == aspect.a
           b == aspect.b
           h == Scaled(w, b, a)
           fitted == Scaled(RoomY(c), a, b)
<1>1. a \in Nat \ {0} /\ b \in Nat \ {0} /\ k \in Nat \ {0} /\ b = k * a
  BY DEF AspectType, AspectPositive, Fixed
<1>2. CASE h > RoomY(c)
  <2>1. FixedSize(c, w) = <<fitted, RoomY(c)>>
    BY <1>2 DEF FixedSize
  <2>2. /\ k * fitted <= RoomY(c)
        /\ \A m \in Nat : k * m <= RoomY(c) => m <= fitted
    BY ONLY <1>1, RoomY(c) \in Nat, FittedByWhole
  <2> HIDE DEF fitted
  <2> QED BY ONLY <2>1, <2>2, DragAssumption
<1>3. CASE ~(h > RoomY(c))
  <2>1. FixedSize(c, w) = <<w, h>>
    BY <1>3 DEF FixedSize
  <2>2. h = k * w
    <3>1. w \in Nat
      OBVIOUS
    <3> HIDE DEF a, b
    <3> QED BY ONLY <1>1, <3>1, ScaledByWhole
  <2> HIDE DEF h
  <2> QED BY ONLY <2>1, <2>2, <1>1, w \in Nat
<1> QED BY <1>2, <1>3

LEMMA CornerKeeps ==
  ASSUME AspectType, AspectPositive, rect \in Rects, Within(rect), Slim(rect),
         NEW c, NEW dx \in Int, NEW dy \in Int, ~DragThrows(c)
  PROVE  LET r == Resized(c, dx, dy)
         IN  Within(r) /\ Slim(r) /\ (Upright /\ Big(rect) => Big(r))
<1>1. CASE ~Fixed
  <2>1. Resized(c, dx, dy) = WithCorner(c, FreeX(c, dx), FreeY(c, dy))
    BY <1>1 DEF Resized
  <2>2. Within(Resized(c, dx, dy)) /\ Big(Resized(c, dx, dy))
    BY ONLY <2>1, rect \in Rects, Within(rect), dx \in Int, dy \in Int, ~DragThrows(c),
            FreeType, FreeRange, WithCornerWithin
  <2> QED BY <1>1, <2>2 DEF Slim
<1>2. CASE Fixed
  <2> DEFINE w == WidthTo(c, FreeX(c, dx))
             sw == FixedSize(c, w)[1]
             sh == FixedSize(c, w)[2]
             r == Resized(c, dx, dy)
  <2>1. r = Anchored(c, sw, sh)
    BY <1>2 DEF Resized
  <2>2. w \in Nat /\ MinCrop <= w /\ w <= RoomX(c)
    BY ONLY rect \in Rects, dx \in Int, ~DragThrows(c), FreeWidth
  <2>3. /\ RoomX(c) \in Nat /\ RoomY(c) \in Nat
        /\ rect.right - rect.left <= RoomX(c) /\ rect.bottom - rect.top <= RoomY(c)
    BY ONLY rect \in Rects, Within(rect), Rooms
  <2> HIDE DEF w
  <2>4. sw \in Nat /\ sw <= w /\ sh \in Nat /\ sh <= RoomY(c)
    BY ONLY AspectType, AspectPositive, <1>2, <2>2, <2>3, FixedSizeFits
  <2> HIDE DEF sw, sh
  <2>5. Within(r) /\ r.right - r.left = sw /\ r.bottom - r.top = sh
    <3>1. sw <= RoomX(c)
      BY ONLY <2>2, <2>3, <2>4
    <3> HIDE DEF r
    <3> QED BY ONLY <2>1, <2>3, <2>4, <3>1, rect \in Rects, Within(rect), AnchoredWithin
  <2> HIDE DEF r
  <2>6. ASSUME NEW k \in 1 .. aspect.b, aspect.b = k * aspect.a
        PROVE  k * sw <= sh /\ (Big(rect) => Big(r))
    <3>1. k * sw <= sh /\ (MinCrop <= w /\ k * MinCrop <= RoomY(c) => MinCrop <= sw)
      BY ONLY AspectType, AspectPositive, <1>2, <2>2, <2>3, <2>6, FixedSizeSlim DEF sw, sh
    <3>2. k \in Nat \ {0}
      BY DEF AspectType
    <3>3. ASSUME Big(rect) PROVE Big(r)
      <4>1. rect.right - rect.left \in Int /\ rect.bottom - rect.top \in Int
        BY DEF Rects
      <4>2. k * (rect.right - rect.left) <= rect.bottom - rect.top
        BY <1>2, <2>6 DEF Slim
      <4>3. k * MinCrop <= k * (rect.right - rect.left)
        BY ONLY <3>2, <3>3, <4>1, DragAssumption DEF Big
      <4>4. k * MinCrop <= RoomY(c)
        BY ONLY <3>2, <4>1, <4>2, <4>3, <2>3, DragAssumption
      <4>5. MinCrop <= sw
        BY ONLY <4>4, <2>2, <3>1
      <4>6. sw <= k * sw
        BY ONLY <3>2, <2>4
      <4>7. MinCrop <= sh
        BY ONLY <3>1, <3>2, <4>5, <4>6, <2>4, DragAssumption
      <4> QED BY ONLY <4>5, <4>7, <2>5 DEF Big
    <3> QED BY <3>1, <3>3
  <2>7. Slim(r)
    BY <2>5, <2>6 DEF Slim
  <2>8. Upright /\ Big(rect) => Big(r)
    BY <1>2, <2>6 DEF Upright
  <2> QED BY <2>5, <2>7, <2>8 DEF r
<1> QED BY <1>1, <1>2

\* A move by an offset cut off at the edges keeps the size.
LEMMA MovedWithin ==
  ASSUME NEW from \in Int, NEW to \in Int, NEW d \in Int, NEW lo \in Int, NEW hi \in Int,
         lo <= from, from <= to, to <= hi
  PROVE  LET m == Moved(from, to, d, lo, hi)
         IN  lo <= from + m /\ to + m <= hi
BY DEF Moved

LEMMA MoveKeeps ==
  ASSUME rect \in Rects, Within(rect), Slim(rect), NEW mx \in Int, NEW my \in Int,
         image.left <= rect.left + mx, rect.right + mx <= image.right,
         image.top <= rect.top + my, rect.bottom + my <= image.bottom
  PROVE  LET r == Translated(mx, my)
         IN  Within(r) /\ Slim(r) /\ (Big(rect) => Big(r))
<1> DEFINE r == Translated(mx, my)
<1>1. r.right - r.left = rect.right - rect.left /\ r.bottom - r.top = rect.bottom - rect.top
  BY DEF Translated, Rects
<1>2. Within(r)
  BY ImageIsRect DEF Translated, Within, Rects
<1> HIDE DEF r
<1>3. Slim(r) /\ (Big(rect) => Big(r))
  BY ONLY <1>1, Slim(rect) DEF Slim, Big
<1> QED BY <1>2, <1>3 DEF r

\* Within the image and large enough, no corner's range is empty, and its bounds meet only
\* at the minimum at an edge.
LEMMA BigDragsFreely ==
  ASSUME rect \in Rects, Within(rect), Big(rect), NEW c
  PROVE  ~DragThrows(c) /\ (BoundsMeet(c) => Tight)
BY ImageIsRect DEF Within, Big, DragThrows, BoundsMeet, Tight, LoX, HiX, LoY, HiY, Rects

-----------------------------------------------------------------------------
(* The inductive invariant.                                                *)

Accepted == phase \notin {"new", "rejected"}

IInv ==
  Accepted /\ AspectPositive =>
    /\ Within(rect) /\ Slim(rect)
    /\ LargeFirst /\ Upright => Big(rect) /\ (phase = "dragThrew" => Tight)

LEMMA OpenKeeps ==
  ASSUME TypeOK, Open
  PROVE  IInv'
<1>1. CASE rect' = FirstRect /\ phase' = "open" /\ aspect' = aspect
  <2>1. AspectType
    BY DEF TypeOK, AspectType
  <2>2. AspectPositive => Within(FirstRect) /\ Slim(FirstRect)
    BY <2>1, FirstRectInside
  <2>3. AspectPositive' = AspectPositive /\ Fixed' = Fixed
    BY <1>1 DEF AspectPositive, Fixed
  <2>4. FirstRect' = FirstRect
    BY <1>1, <2>3 DEF FirstRect
  <2>5. Within(rect)' = Within(FirstRect)
    BY <1>1 DEF Within
  <2>6. Slim(rect)' = Slim(FirstRect)
    BY <1>1, <2>3 DEF Slim
  <2>7. LargeFirst' => Big(rect)'
    BY <1>1, <2>4 DEF LargeFirst, Big
  <2> QED BY <1>1, <2>2, <2>3, <2>5, <2>6, <2>7 DEF IInv
<1>2. CASE phase' = "rejected"
  BY <1>2 DEF IInv, Accepted
<1> QED BY <1>1, <1>2 DEF Open

\* A step that leaves the rectangle and the arguments alone and does not throw.
LEMMA StillKeeps ==
  ASSUME IInv, rect' = rect, aspect' = aspect,
         Accepted' = Accepted, phase' = "dragThrew" => phase = "dragThrew"
  PROVE  IInv'
<1>1. AspectPositive' = AspectPositive /\ Fixed' = Fixed
  BY DEF AspectPositive, Fixed
<1>2. LargeFirst' = LargeFirst /\ Upright' = Upright
  BY <1>1 DEF LargeFirst, FirstRect, Upright
<1>3. /\ Within(rect)' = Within(rect) /\ Slim(rect)' = Slim(rect) /\ Big(rect)' = Big(rect)
      /\ Tight' = Tight
  BY <1>1 DEF Within, Slim, Big, Tight
<1> QED BY <1>1, <1>2, <1>3 DEF IInv

LEMMA DragKeeps ==
  ASSUME TypeOK, IInv, Drag
  PROVE  IInv'
<1> SUFFICES ASSUME AspectPositive PROVE IInv'
  BY DEF IInv, AspectPositive, Drag
<1>1. /\ AspectType /\ rect \in Rects /\ phase = "open"
      /\ aspect' = aspect
  BY DEF TypeOK, AspectType, Drag
<1>2. Within(rect) /\ Slim(rect) /\ (LargeFirst /\ Upright => Big(rect))
  BY <1>1 DEF IInv, Accepted
<1>3. AspectPositive' = AspectPositive /\ Fixed' = Fixed
  BY <1>1 DEF AspectPositive, Fixed
<1>4. LargeFirst' = LargeFirst /\ Upright' = Upright
  BY <1>1, <1>3 DEF LargeFirst, FirstRect, Upright
<1>5. ASSUME NEW r, rect' = r, Within(r), Slim(r), phase' = "open",
             Upright /\ Big(rect) => Big(r)
      PROVE  IInv'
  <2>1. Within(rect)' = Within(r) /\ Slim(rect)' = Slim(r) /\ Big(rect)' = Big(r)
    BY <1>1, <1>3, <1>5 DEF Within, Slim, Big
  <2> QED BY <1>2, <1>4, <1>5, <2>1 DEF IInv
<1>6. PICK dx \in -Step .. Step, dy \in -Step .. Step :
        DragMove(dx, dy) \/ \E c \in Corners : DragCorner(c, dx, dy)
  BY DEF Drag
<1>7. dx \in Int /\ dy \in Int
  OBVIOUS
<1>8. CASE DragMove(dx, dy)
  <2> DEFINE mx == Moved(rect.left, rect.right, dx, image.left, image.right)
             my == Moved(rect.top, rect.bottom, dy, image.top, image.bottom)
  <2>1. rect' = Translated(mx, my) /\ phase' = "open"
    BY <1>1, <1>8 DEF DragMove
  <2>2. /\ rect.left \in Int /\ rect.right \in Int /\ rect.top \in Int /\ rect.bottom \in Int
        /\ image.left \in Int /\ image.right \in Int /\ image.top \in Int /\ image.bottom \in Int
    BY <1>1, ImageIsRect DEF Rects
  <2>3. mx \in Int /\ my \in Int
    BY ONLY <1>7, <2>2, MovedType
  <2>4. image.left <= rect.left + mx /\ rect.right + mx <= image.right
    BY ONLY <1>7, <2>2, <1>2, MovedWithin DEF Within
  <2>5. image.top <= rect.top + my /\ rect.bottom + my <= image.bottom
    BY ONLY <1>7, <2>2, <1>2, MovedWithin DEF Within
  <2> HIDE DEF mx, my
  <2>6. /\ Within(Translated(mx, my)) /\ Slim(Translated(mx, my))
        /\ Big(rect) => Big(Translated(mx, my))
    BY ONLY <1>1, <1>2, <2>3, <2>4, <2>5, MoveKeeps
  <2> QED BY <1>5, <2>1, <2>6
<1>9. ASSUME NEW c \in Corners, DragCorner(c, dx, dy)
      PROVE  IInv'
  <2>1. CASE (DragThrows(c) \/ BoundsMeet(c)) /\ phase' = "dragThrew" /\ rect' = rect
    <3>1. Big(rect) => Tight
      BY <1>1, <1>2, <2>1, BigDragsFreely
    <3>2. /\ Within(rect)' = Within(rect) /\ Slim(rect)' = Slim(rect)
          /\ Big(rect)' = Big(rect) /\ Tight' = Tight
      BY <1>1, <1>3, <2>1 DEF Within, Slim, Big, Tight
    <3> QED BY <1>2, <1>4, <3>1, <3>2 DEF IInv
  <2>2. CASE ~DragThrows(c) /\ rect' = Resized(c, dx, dy) /\ phase' = phase
    <3>1. phase' = "open" /\ ~DragThrows(c)
      BY <1>1, <2>2
    <3>2. /\ Within(Resized(c, dx, dy)) /\ Slim(Resized(c, dx, dy))
          /\ Upright /\ Big(rect) => Big(Resized(c, dx, dy))
      BY ONLY <1>1, <1>2, <1>7, <3>1, AspectPositive, CornerKeeps
    <3> QED BY <1>5, <2>2, <3>1, <3>2
  <2> QED BY <1>9, <2>1, <2>2 DEF DragCorner
<1> QED BY <1>6, <1>8, <1>9

\* The rectangle of accepted arguments is inside, has the minimum size it had at first, and
\* is never wider than an upright ratio says, whatever is dragged.
THEOREM Invariance == Spec => []IInv
<1>1. Init => IInv
  BY DEF Init, IInv, Accepted
<1>2. TypeOK /\ IInv /\ [Next]_vars => IInv'
  <2> SUFFICES ASSUME TypeOK, IInv, [Next]_vars PROVE IInv'
    OBVIOUS
  <2>1. CASE Open
    BY <2>1, OpenKeeps
  <2>2. CASE DragStart
    BY <2>2, StillKeeps DEF DragStart, Accepted
  <2>3. CASE Drag
    BY <2>3, DragKeeps
  <2>4. CASE DragEnd
    BY <2>4, StillKeeps DEF DragEnd, Accepted
  <2>5. CASE Exit
    BY <2>5, StillKeeps DEF Exit, Accepted
  <2>6. CASE Confirm
    BY <2>6, StillKeeps DEF Confirm, Accepted
  <2>7. CASE Decode
    BY <2>7, StillKeeps DEF Decode, DecodeEnds, Accepted
  <2>8. CASE UNCHANGED vars
    BY <2>8, StillKeeps DEF vars, Accepted
  <2> QED BY <2>1, <2>2, <2>3, <2>4, <2>5, <2>6, <2>7, <2>8 DEF Next
<1> QED BY <1>1, <1>2, TypeCorrect, PTL DEF Spec

\* No drag takes a side of the rectangle out of the image or past the opposite side.
THEOREM StaysInside == Spec => []InsideImage
<1>1. IInv => InsideImage
  BY DEF IInv, Accepted, Within, InsideImage, Inside
<1> QED BY <1>1, Invariance, PTL

\* A drag throws only if the first rectangle was too small, the ratio is not upright, or the
\* rectangle has the minimum size at an edge of the image.
THEOREM DragsThrowOnlyIfCramped == Spec => []DragThrowsOnlyIfCramped
<1>1. IInv => DragThrowsOnlyIfCramped
  BY DEF IInv, Accepted, DragThrowsOnlyIfCramped
<1> QED BY <1>1, Invariance, PTL

-----------------------------------------------------------------------------
(* The fixed ratio.                                                        *)

\* One side of r follows from the other by the ratio.
Ratio(r) ==
  LET w == r.right - r.left  h == r.bottom - r.top
  IN  h = Scaled(w, aspect.b, aspect.a) \/ w = Scaled(h, aspect.a, aspect.b)

\* Anchored gives the rectangle the size asked for, wherever that takes it.
LEMMA AnchoredSize ==
  ASSUME rect \in Rects, NEW c, NEW w \in Int, NEW h \in Int
  PROVE  LET r == Anchored(c, w, h)
         IN  r.right - r.left = w /\ r.bottom - r.top = h
BY DEF Anchored, WithCorner, Rects

LEMMA ResizedRatio ==
  ASSUME AspectType, Fixed, rect \in Rects, NEW c, NEW dx \in Int, NEW dy \in Int
  PROVE  Ratio(Resized(c, dx, dy))
<1> DEFINE w == WidthTo(c, FreeX(c, dx))
           sw == FixedSize(c, w)[1]
           sh == FixedSize(c, w)[2]
           r == Resized(c, dx, dy)
<1>1. w \in Int
  BY FreeType DEF WidthTo, Rects
<1> HIDE DEF w
<1>2. sw \in Int /\ sh \in Int
  BY <1>1, FixedSizeType
<1>3. sh = Scaled(sw, aspect.b, aspect.a) \/ sw = Scaled(sh, aspect.a, aspect.b)
  BY DEF FixedSize
<1>4. r = Anchored(c, sw, sh)
  BY DEF Resized, w
<1> HIDE DEF sw, sh, r
<1>5. r.right - r.left = sw /\ r.bottom - r.top = sh
  BY ONLY <1>2, <1>4, rect \in Rects, AnchoredSize
<1> QED BY <1>3, <1>5 DEF Ratio, r

LEMMA FirstRectRatio ==
  ASSUME AspectType, Fixed
  PROVE  Ratio(FirstRect)
<1> DEFINE fitW == Scaled(imageH, aspect.a, aspect.b)
           fitH == Scaled(imageW, aspect.b, aspect.a)
<1>1. aspect.a \in Int /\ aspect.b \in Int /\ aspect.a \in Int \ {0} /\ aspect.b \in Int \ {0}
  BY DEF AspectType, Fixed
<1>2. imageW \in Int /\ imageH \in Int /\ image \in Rects
  BY ImageIsRect
<1>3. fitW \in Int /\ fitH \in Int
  <2>1. fitW \in Int
    BY ONLY <1>1, <1>2, ScaledType
  <2>2. fitH \in Int
    BY ONLY <1>1, <1>2, ScaledType
  <2> QED BY <2>1, <2>2
<1>4. \/ FirstRect = Centred(fitW, imageH, image)
      \/ FirstRect = Centred(imageW, fitH, image)
  BY DEF FirstRect
<1>5. \/ /\ FirstRect.right - FirstRect.left = fitW
         /\ FirstRect.bottom - FirstRect.top = imageH
      \/ /\ FirstRect.right - FirstRect.left = imageW
         /\ FirstRect.bottom - FirstRect.top = fitH
  <2> HIDE DEF fitW, fitH
  <2> QED BY ONLY <1>2, <1>3, <1>4, CentredType
<1> QED BY <1>5 DEF Ratio

\* A rectangle moved keeps its size.
LEMMA TranslatedRatio ==
  ASSUME rect \in Rects, NEW mx \in Int, NEW my \in Int, Ratio(rect)
  PROVE  Ratio(Translated(mx, my))
<1> DEFINE r == Translated(mx, my)
<1>1. r.right - r.left = rect.right - rect.left /\ r.bottom - r.top = rect.bottom - rect.top
  BY DEF Translated, Rects
<1> HIDE DEF r
<1>2. Ratio(r)
  BY ONLY <1>1, Ratio(rect) DEF Ratio
<1> QED BY <1>2 DEF r

RatioInv == Accepted /\ Fixed => Ratio(rect)

LEMMA DragKeepsRatio ==
  ASSUME TypeOK, RatioInv, Drag, Fixed
  PROVE  Ratio(rect')
<1>1. AspectType /\ rect \in Rects /\ Ratio(rect)
  BY DEF TypeOK, AspectType, RatioInv, Accepted, Drag
<1>2. PICK dx \in -Step .. Step, dy \in -Step .. Step :
        DragMove(dx, dy) \/ \E c \in Corners : DragCorner(c, dx, dy)
  BY DEF Drag
<1>3. dx \in Int /\ dy \in Int
  OBVIOUS
<1>4. CASE DragMove(dx, dy)
  <2> DEFINE mx == Moved(rect.left, rect.right, dx, image.left, image.right)
             my == Moved(rect.top, rect.bottom, dy, image.top, image.bottom)
  <2>1. mx \in Int /\ my \in Int
    BY <1>1, <1>3, ImageIsRect, MovedType DEF Rects
  <2>2. rect' = Translated(mx, my)
    BY <1>4 DEF DragMove
  <2> HIDE DEF mx, my
  <2> QED BY ONLY <1>1, <2>1, <2>2, TranslatedRatio
<1>5. ASSUME NEW c \in Corners, DragCorner(c, dx, dy)
      PROVE  Ratio(rect')
  <2>1. rect' = rect \/ rect' = Resized(c, dx, dy)
    BY <1>5 DEF DragCorner
  <2> QED BY ONLY <2>1, <1>1, <1>3, Fixed, ResizedRatio
<1> QED BY <1>2, <1>4, <1>5

\* A fixed ratio survives every drag: RatioInv, which says it of the rectangle of every
\* screen that was opened, the ratio upside down or not, is inductive.
THEOREM RatioSurvives == Spec => []RatioKept
<1>1. Init => RatioInv
  BY DEF Init, RatioInv, Accepted
<1>2. TypeOK /\ RatioInv /\ [Next]_vars => RatioInv'
  <2> SUFFICES ASSUME TypeOK, RatioInv, [Next]_vars, Accepted', Fixed' PROVE Ratio(rect)'
    BY DEF RatioInv
  <2>1. aspect' = aspect
    BY DEF Next, vars, Open, DragStart, Drag, DragEnd, Exit, Confirm, Decode
  <2>2. Fixed /\ AspectType
    BY <2>1 DEF Fixed, TypeOK, AspectType
  <2>3. Ratio(rect)' = Ratio(rect')
    BY <2>1 DEF Ratio
  <2>4. CASE Open
    <3>1. rect' = FirstRect
      BY <2>4 DEF Open, Accepted
    <3> QED BY <2>2, <2>3, <3>1, FirstRectRatio
  <2>5. CASE Drag
    BY <2>2, <2>3, <2>5, DragKeepsRatio
  <2>6. CASE DragStart \/ DragEnd \/ Exit \/ Confirm \/ Decode \/ UNCHANGED vars
    <3>1. rect' = rect /\ Accepted
      BY <2>6 DEF DragStart, DragEnd, Exit, Confirm, Decode, vars, Accepted
    <3> QED BY <2>2, <2>3, <3>1 DEF RatioInv
  <2> QED BY <2>4, <2>5, <2>6 DEF Next
<1>3. RatioInv => RatioKept
  BY DEF RatioInv, Accepted, RatioKept, Ratio
<1> QED BY <1>1, <1>2, <1>3, TypeCorrect, PTL DEF Spec

-----------------------------------------------------------------------------
(* The region of the source.                                               *)

\* What is decoded is what was confirmed, and the decoder refuses only a miss.
CropInv ==
  phase \in {"confirmed", "saved", "failed", "decoderThrew"} =>
    crop = ToSource /\ (phase = "decoderThrew" => Misses(crop))

\* Scaling x of n units to m keeps it between nothing and everything.
LEMMA ScaledWithin ==
  ASSUME NEW x \in Nat, NEW y \in Nat, NEW m \in Nat \ {0}, NEW n \in Nat \ {0}, x <= y, y <= n
  PROVE  0 <= Scaled(x, m, n) /\ Scaled(x, m, n) <= Scaled(y, m, n) /\ Scaled(y, m, n) <= m
<1>1. Scaled(x, m, n) = (x * m) \div n /\ Scaled(y, m, n) = (y * m) \div n
  BY ScaledIs
<1>2. /\ x * m \in Int /\ y * m \in Int /\ 0 * n <= x * m /\ x * m <= y * m /\ y * m <= m * n
  OBVIOUS
<1>3. 0 <= (x * m) \div n
  BY ONLY <1>2, n \in Nat \ {0}, 0 \in Int, DivAtLeast
<1>4. (y * m) \div n <= m
  BY ONLY <1>2, n \in Nat \ {0}, m \in Nat \ {0}, DivAtMost
<1>5. (x * m) \div n <= (y * m) \div n
  <2>1. ((x * m) \div n) * n <= x * m /\ (x * m) \div n \in Int
    BY ONLY <1>2, n \in Nat \ {0}, DivBack, DivType
  <2>2. ((x * m) \div n) * n <= y * m
    BY ONLY <2>1, <1>2, n \in Nat \ {0}
  <2> QED BY ONLY <2>1, <2>2, <1>2, n \in Nat \ {0}, DivAtLeast
<1> QED BY ONLY <1>1, <1>3, <1>4, <1>5

\* A far side that vanishes means less than one pixel per MinCrop units; a near side
\* never reaches the far end.
LEMMA ScaledMisses ==
  ASSUME NEW x \in Nat, NEW y \in Nat, NEW m \in Nat \ {0}, NEW n \in Nat \ {0},
         x + MinCrop <= y, y <= n
  PROVE  /\ Scaled(y, m, n) <= 0 => m * MinCrop < n
         /\ Scaled(x, m, n) < m
<1>1. Scaled(x, m, n) = (x * m) \div n /\ Scaled(y, m, n) = (y * m) \div n
  BY ScaledIs
<1>2. x * m \in Int /\ y * m \in Int /\ m * MinCrop \in Int /\ m * MinCrop <= y * m
  OBVIOUS
<1>3. ASSUME n <= m * MinCrop
      PROVE  1 <= (y * m) \div n
  <2>1. 1 * n <= y * m
    BY ONLY <1>2, <1>3, n \in Nat \ {0}
  <2> QED BY ONLY <2>1, <1>2, n \in Nat \ {0}, 1 \in Int, DivAtLeast
<1>4. (y * m) \div n \in Int /\ (x * m) \div n \in Int
  BY ONLY <1>2, n \in Nat \ {0}, DivType
<1>5. Scaled(y, m, n) <= 0 => m * MinCrop < n
  BY ONLY <1>1, <1>2, <1>3, <1>4, n \in Nat \ {0}
<1>6. (x * m) \div n < m
  <2> DEFINE q == (x * m) \div n
  <2>1. q * n <= x * m /\ q \in Int
    BY ONLY <1>2, n \in Nat \ {0}, DivBack, DivType
  <2> HIDE DEF q
  <2>2. m <= q => m * n <= q * n
    BY ONLY <2>1, m \in Nat \ {0}, n \in Nat \ {0}
  <2>3. x < n
    OBVIOUS
  <2>4. x * m < m * n
    BY ONLY <2>3, x \in Nat, m \in Nat \ {0}, n \in Nat \ {0}
  <2>5. q < m
    BY ONLY <2>1, <2>2, <2>4, <1>2, m \in Nat \ {0}, n \in Nat \ {0}
  <2> QED BY <2>5 DEF q
<1> QED BY ONLY <1>1, <1>5, <1>6

\* A rectangle within the image lies in the source when it is scaled ...
LEMMA SourceWithin ==
  ASSUME rect \in Rects, Within(rect), source \in Sources
  PROVE  LET r == ToSource
         IN  /\ 0 <= r.left /\ r.left <= r.right /\ r.right <= source.w
             /\ 0 <= r.top /\ r.top <= r.bottom /\ r.bottom <= source.h
<1>1. source.w \in Nat \ {0} /\ source.h \in Nat \ {0}
  OBVIOUS
<1>2. /\ rect.left - image.left \in Nat /\ rect.right - image.left \in Nat
      /\ rect.left - image.left <= rect.right - image.left
      /\ rect.right - image.left <= imageW
  BY ImageIsRect DEF Within, Rects, imageW
<1>3. /\ rect.top - image.top \in Nat /\ rect.bottom - image.top \in Nat
      /\ rect.top - image.top <= rect.bottom - image.top
      /\ rect.bottom - image.top <= imageH
  BY ImageIsRect DEF Within, Rects, imageH
<1>4. 0 <= ToSource.left /\ ToSource.left <= ToSource.right /\ ToSource.right <= source.w
  BY ONLY <1>1, <1>2, ImageIsRect, ScaledWithin DEF ToSource
<1>5. 0 <= ToSource.top /\ ToSource.top <= ToSource.bottom /\ ToSource.bottom <= source.h
  BY ONLY <1>1, <1>3, ImageIsRect, ScaledWithin DEF ToSource
<1> QED BY <1>4, <1>5

\* ... and misses it only if a side of MinCrop is less than a pixel there.
LEMMA SourceMisses ==
  ASSUME rect \in Rects, Within(rect), Big(rect), source \in Sources, Misses(ToSource)
  PROVE  source.w * MinCrop < imageW \/ source.h * MinCrop < imageH
<1>1. source.w \in Nat \ {0} /\ source.h \in Nat \ {0}
  OBVIOUS
<1>2. /\ rect.left - image.left \in Nat /\ rect.right - image.left \in Nat
      /\ (rect.left - image.left) + MinCrop <= rect.right - image.left
      /\ rect.right - image.left <= imageW
  BY ImageIsRect DEF Within, Big, Rects, imageW
<1>3. /\ rect.top - image.top \in Nat /\ rect.bottom - image.top \in Nat
      /\ (rect.top - image.top) + MinCrop <= rect.bottom - image.top
      /\ rect.bottom - image.top <= imageH
  BY ImageIsRect DEF Within, Big, Rects, imageH
<1>4. /\ ToSource.right <= 0 => source.w * MinCrop < imageW
      /\ ToSource.left < source.w
  BY ONLY <1>1, <1>2, ImageIsRect, ScaledMisses DEF ToSource
<1>5. /\ ToSource.bottom <= 0 => source.h * MinCrop < imageH
      /\ ToSource.top < source.h
  BY ONLY <1>1, <1>3, ImageIsRect, ScaledMisses DEF ToSource
<1>6. ToSource.left \in Int /\ ToSource.top \in Int
  BY SourceType DEF Rects
<1> QED BY ONLY <1>1, <1>4, <1>5, <1>6, Misses(ToSource) DEF Misses

\* What is decoded lies in the source, the right way round, and the decoder refuses it
\* only if the source is smaller than it is shown.
THEOREM DecodesWithinTheSource == Spec => []CropInSource
<1>1. Init => CropInv
  BY DEF Init, CropInv
<1>2. CropInv /\ [Next]_vars => CropInv'
  <2> SUFFICES ASSUME CropInv, [Next]_vars,
                      phase' \in {"confirmed", "saved", "failed", "decoderThrew"}
               PROVE  (crop = ToSource /\ (phase = "decoderThrew" => Misses(crop)))'
    BY DEF CropInv
  <2>1. CASE Confirm
    <3>1. rect' = rect /\ source' = source /\ crop' = ToSource /\ phase' = "confirmed"
      BY <2>1 DEF Confirm
    <3> QED BY <3>1 DEF ToSource
  <2>2. CASE Decode
    <3>1. rect' = rect /\ source' = source /\ crop' = crop /\ phase = "confirmed"
      BY <2>2 DEF Decode
    <3>2. phase' = "decoderThrew" => Misses(crop)
      BY <2>2 DEF Decode, DecodeEnds
    <3>3. ToSource' = ToSource /\ Misses(crop)' = Misses(crop)
      BY <3>1 DEF ToSource, Misses
    <3> QED BY <3>1, <3>2, <3>3 DEF CropInv
  <2>3. CASE UNCHANGED vars
    <3>1. ToSource' = ToSource /\ Misses(crop)' = Misses(crop)
      BY <2>3 DEF ToSource, Misses, vars
    <3> QED BY <2>3, <3>1 DEF CropInv, vars
  <2>4. CASE Open \/ DragStart \/ Drag \/ DragEnd \/ Exit
    BY <2>4 DEF Open, DragStart, Drag, DragMove, DragCorner, DragEnd, Exit
  <2> QED BY <2>1, <2>2, <2>3, <2>4 DEF Next
<1>3. TypeOK /\ IInv /\ CropInv => CropInSource
  <2> SUFFICES ASSUME TypeOK, IInv, CropInv PROVE DecodedInSource /\ RefusedOnlyIfEnlarged
    BY DEF CropInSource
  <2>1. rect \in Rects /\ source \in Sources
    BY DEF TypeOK
  <2>2. DecodedInSource
    BY <2>1, SourceWithin DEF DecodedInSource, IInv, Accepted, CropInv
  <2>3. RefusedOnlyIfEnlarged
    <3> SUFFICES ASSUME phase = "decoderThrew", AspectPositive, LargeFirst, Upright
                 PROVE  source.w * MinCrop < imageW \/ source.h * MinCrop < imageH
      BY DEF RefusedOnlyIfEnlarged
    <3>1. Within(rect) /\ Big(rect)
      BY DEF IInv, Accepted
    <3>2. Misses(ToSource)
      BY DEF CropInv
    <3> QED BY <2>1, <3>1, <3>2, SourceMisses
  <2> QED BY <2>2, <2>3
<1> QED BY <1>1, <1>2, <1>3, TypeCorrect, Invariance, PTL DEF Spec

-----------------------------------------------------------------------------
(* The crop screen as a whole: the calls of calculateInSampleSize only     *)
(* delay the steps of CropRect.                                            *)

\* With the sampling hidden the screen is CropRect, which leaves open how long the
\* decoding takes and whether it throws.
THEOREM ScreenIsCropRect == SpecCrop => Spec
<1>1. InitCrop => Init
  BY DEF InitCrop
<1>2. [NextCrop]_<<vars, sampling>> => [Next]_vars
  <2>1. CASE Show
    BY <2>1 DEF Show, Next
  <2>2. CASE Touch
    BY <2>2 DEF Touch, Next
  <2>3. CASE Done
    BY <2>3 DEF Done, Next
  <2>4. CASE Loop
    BY <2>4 DEF Loop
  <2>5. CASE Finish
    BY <2>5 DEF Finish, Next
  <2> QED BY <2>1, <2>2, <2>3, <2>4, <2>5 DEF NextCrop
<1> QED BY <1>1, <1>2, PTL DEF SpecCrop, Spec

\* So the rectangle of the screen stays inside its image, a fixed ratio survives every drag,
\* and what is decoded lies in the source.
THEOREM ScreenStaysInside == SpecCrop => []InsideImage /\ []RatioKept /\ []CropInSource
BY ScreenIsCropRect, StaysInside, RatioSurvives, DecodesWithinTheSource, PTL

-----------------------------------------------------------------------------
(* Induction over the natural numbers, for sets: a set that holds 0 and    *)
(* with every number the next is all of Nat, because a set of numbers has  *)
(* a least one.                                                            *)

Smaller == {p \in Nat \X Nat : p[1] < p[2]}

LEMMA LeastNumber ==
  ASSUME NEW S \in SUBSET Nat, S # {}
  PROVE  \E n \in S : \A m \in S : n <= m
<1>1. IsWellFoundedOn(Smaller, Nat)
  BY NatLessThanWellFounded DEF Smaller, OpToRel
<1>2. PICK n \in S : \A m \in S : ~(<<m, n>> \in Smaller)
  BY <1>1, WFMin
<1>3. ASSUME NEW m \in S PROVE n <= m
  <2>1. m \in Nat /\ n \in Nat /\ ~(<<m, n>> \in Smaller)
    BY <1>2
  <2>2. m < n => <<m, n>> \in Smaller
    BY <2>1 DEF Smaller
  <2> QED BY <2>1, <2>2
<1> QED BY <1>3

LEMMA AllNumbers ==
  ASSUME NEW S \in SUBSET Nat, 0 \in S, \A n \in S : n + 1 \in S
  PROVE  S = Nat
<1> SUFFICES ASSUME Nat \ S # {} PROVE FALSE
  OBVIOUS
<1>1. PICK n \in Nat \ S : \A m \in Nat \ S : n <= m
  BY LeastNumber
<1>2. n - 1 \in S
  BY <1>1
<1> QED BY <1>1, <1>2

-----------------------------------------------------------------------------
(* The powers of two.                                                      *)

\* f doubles its way up to n.
Doubles(f, n) == f \in [0 .. n -> Nat] /\ f[0] = 1 /\ \A i \in 1 .. n : f[i] = 2 * f[i - 1]

LEMMA DoublesExist == \A n \in Nat : \E f : Doubles(f, n)
<1> DEFINE S == {n \in Nat : \E f : Doubles(f, n)}
<1>1. 0 \in S
  <2>1. Doubles([i \in 0 .. 0 |-> 1], 0)
    BY DEF Doubles
  <2> QED BY <2>1
<1>2. ASSUME NEW n \in S PROVE n + 1 \in S
  <2>1. PICK f : Doubles(f, n)
    OBVIOUS
  <2> DEFINE g == [i \in 0 .. n + 1 |-> IF i = n + 1 THEN 2 * f[n] ELSE f[i]]
  <2>2. f[n] \in Nat /\ \A i \in 0 .. n : f[i] \in Nat
    BY <2>1 DEF Doubles
  <2>3. g \in [0 .. n + 1 -> Nat] /\ g[0] = 1
    BY <2>1, <2>2 DEF Doubles
  <2>4. ASSUME NEW i \in 1 .. n + 1 PROVE g[i] = 2 * g[i - 1]
    <3>1. CASE i = n + 1
      BY <3>1
    <3>2. CASE i # n + 1
      <4>1. i \in 1 .. n /\ g[i] = f[i] /\ g[i - 1] = f[i - 1]
        BY <3>2
      <4> QED BY <2>1, <4>1 DEF Doubles
    <3> QED BY <3>1, <3>2
  <2>5. Doubles(g, n + 1)
    BY <2>3, <2>4 DEF Doubles
  <2> QED BY <2>5
<1>3. S = Nat
  BY <1>1, <1>2, AllNumbers
<1> QED BY <1>3

LEMMA DoublesUnique ==
  ASSUME NEW m \in Nat, NEW n \in Nat, NEW f, NEW g, Doubles(f, m), Doubles(g, n),
         NEW k \in Nat, k <= m, k <= n
  PROVE  f[k] = g[k]
<1> DEFINE S == {i \in Nat : i <= m /\ i <= n => f[i] = g[i]}
<1>1. 0 \in S
  BY DEF Doubles
<1>2. ASSUME NEW i \in S PROVE i + 1 \in S
  <2> SUFFICES ASSUME i + 1 <= m, i + 1 <= n PROVE f[i + 1] = g[i + 1]
    OBVIOUS
  <2>1. i + 1 \in 1 .. m /\ i + 1 \in 1 .. n /\ (i + 1) - 1 = i /\ f[i] = g[i]
    OBVIOUS
  <2>2. f[i + 1] = 2 * f[i] /\ g[i + 1] = 2 * g[i]
    BY <2>1 DEF Doubles
  <2> QED BY <2>1, <2>2
<1>3. S = Nat
  BY <1>1, <1>2, AllNumbers
<1> QED BY <1>3

\* So the function that Power defines by recursion exists.
LEMMA PowerIs ==
  Sample!Power = [n \in Nat |-> IF n = 0 THEN 1 ELSE 2 * Sample!Power[n - 1]]
<1> DEFINE Up(n) == CHOOSE f : Doubles(f, n)
           F == [n \in Nat |-> Up(n)[n]]
<1>1. \A n \in Nat : Doubles(Up(n), n)
  BY DoublesExist
<1> HIDE DEF Up
<1>2. F[0] = 1
  BY <1>1 DEF Doubles
<1>3. ASSUME NEW n \in Nat, n # 0 PROVE F[n] = 2 * F[n - 1]
  <2>1. n - 1 \in Nat /\ n \in 1 .. n /\ n - 1 <= n
    BY <1>3
  <2>2. Doubles(Up(n), n) /\ Doubles(Up(n - 1), n - 1)
    BY <1>1, <2>1
  <2>3. Up(n)[n] = 2 * Up(n)[n - 1]
    BY <2>1, <2>2 DEF Doubles
  <2>4. Up(n)[n - 1] = Up(n - 1)[n - 1]
    BY <2>1, <2>2, DoublesUnique
  <2>5. F[n] = Up(n)[n] /\ F[n - 1] = Up(n - 1)[n - 1]
    BY <2>1
  <2> QED BY <2>3, <2>4, <2>5
<1>4. F = [n \in Nat |-> IF n = 0 THEN 1 ELSE 2 * F[n - 1]]
  <2>1. \A n \in Nat : F[n] = IF n = 0 THEN 1 ELSE 2 * F[n - 1]
    BY <1>2, <1>3
  <2>2. F = [n \in Nat |-> F[n]]
    OBVIOUS
  <2> HIDE DEF F
  <2> QED BY <2>1, <2>2
<1> HIDE DEF F
<1> QED BY <1>4 DEF Sample!Power

LEMMA PowerFacts ==
  /\ Sample!Power[0] = 1
  /\ \A n \in Nat : Sample!Power[n + 1] = 2 * Sample!Power[n] /\ Sample!Power[n] \in Nat \ {0}
<1>1. Sample!Power[0] = 1
  BY PowerIs
<1>2. \A n \in Nat : Sample!Power[n + 1] = 2 * Sample!Power[n]
  <2> SUFFICES ASSUME NEW n \in Nat PROVE Sample!Power[n + 1] = 2 * Sample!Power[n]
    OBVIOUS
  <2>1. n + 1 \in Nat /\ n + 1 # 0 /\ (n + 1) - 1 = n
    OBVIOUS
  <2> QED BY <2>1, PowerIs
<1> DEFINE S == {n \in Nat : Sample!Power[n] \in Nat \ {0}}
<1>3. 0 \in S /\ \A n \in S : n + 1 \in S
  BY <1>1, <1>2
<1>4. S = Nat
  BY <1>3, AllNumbers
<1> QED BY <1>1, <1>2, <1>4

LEMMA PowerGrows ==
  ASSUME NEW m \in Nat, NEW n \in Nat, m < n
  PROVE  2 * Sample!Power[m] <= Sample!Power[n]
<1> DEFINE S == {k \in Nat : m < k => 2 * Sample!Power[m] <= Sample!Power[k]}
<1>1. 0 \in S
  OBVIOUS
<1>2. ASSUME NEW k \in S PROVE k + 1 \in S
  <2>1. /\ Sample!Power[k + 1] = 2 * Sample!Power[k]
        /\ Sample!Power[k] \in Nat /\ Sample!Power[m] \in Nat
    BY PowerFacts
  <2>2. CASE m < k
    BY <2>1, <2>2
  <2>3. CASE m = k
    BY <2>1, <2>3
  <2> QED BY <2>2, <2>3
<1>3. S = Nat
  BY <1>1, <1>2, AllNumbers
<1> QED BY <1>3

-----------------------------------------------------------------------------
(* Doubling an Int.                                                        *)

LEMMA LimitFacts ==
  /\ Bits - 2 \in Nat /\ Sample!Limit \in Nat \ {0}
  /\ Sample!Limit = 2 * Sample!Power[Bits - 2]
  /\ \A i \in 0 .. Bits - 2 : /\ Sample!Power[i] \in Nat \ {0}
                              /\ i # Bits - 2 => 2 * Sample!Power[i] < Sample!Limit
<1>1. Bits - 2 \in Nat /\ Bits - 1 \in Nat /\ (Bits - 2) + 1 = Bits - 1
  BY BitsAssumption
<1>2. Sample!Limit \in Nat \ {0} /\ Sample!Limit = 2 * Sample!Power[Bits - 2]
  BY <1>1, PowerFacts DEF Sample!Limit
<1>3. ASSUME NEW i \in 0 .. Bits - 2, i # Bits - 2
      PROVE  2 * Sample!Power[i] < Sample!Limit
  <2>1. i \in Nat /\ i < Bits - 2
    BY <1>1, <1>3
  <2>2. 2 * Sample!Power[i] <= Sample!Power[Bits - 2]
    BY <1>1, <2>1, PowerGrows
  <2>3. Sample!Power[i] \in Nat \ {0} /\ Sample!Power[Bits - 2] \in Nat \ {0}
    BY <1>1, <2>1, PowerFacts
  <2> QED BY <1>2, <2>2, <2>3
<1> QED BY <1>1, <1>2, <1>3, PowerFacts

LEMMA ModSmall ==
  ASSUME NEW x \in Nat, NEW y \in Nat \ {0}, x < y
  PROVE  x % y = x
OBVIOUS

LEMMA ModSelf ==
  ASSUME NEW y \in Nat \ {0}
  PROVE  y % y = 0
OBVIOUS

LEMMA ModMinus ==
  ASSUME NEW y \in Nat \ {0}
  PROVE  (-y) % (2 * y) = y
<1>1. 2 * y \in Nat \ {0} /\ -y = (2 * y) * (-1) + y /\ 0 <= y /\ y < 2 * y
  OBVIOUS
<1> QED BY <1>1

Samples == {0, -Sample!Limit} \union {Sample!Power[i] : i \in 0 .. Bits - 2}

\* Twice a power of two is the next one, twice the largest the lowest Int, twice that zero.
LEMMA DoubledPower ==
  ASSUME NEW i \in 0 .. Bits - 2
  PROVE  Sample!Wrap(2 * Sample!Power[i]) =
           IF i = Bits - 2 THEN -Sample!Limit ELSE Sample!Power[i + 1]
<1> DEFINE L == Sample!Limit
           p == Sample!Power[i]
<1>1. L \in Nat \ {0} /\ p \in Nat \ {0} /\ Bits - 2 \in Nat
  BY LimitFacts
<1>2. CASE i = Bits - 2
  <2>1. 2 * p + L = 2 * L
    BY <1>2, LimitFacts
  <2>2. (2 * L) % (2 * L) = 0
    <3>1. 2 * L \in Nat \ {0}
      BY <1>1
    <3> HIDE DEF L
    <3> QED BY <3>1, ModSelf
  <2> QED BY <1>1, <1>2, <2>1, <2>2 DEF Sample!Wrap
<1>3. CASE i # Bits - 2
  <2>1. 2 * p < L
    BY <1>3, LimitFacts
  <2>2. 2 * p + L \in Nat /\ 2 * L \in Nat \ {0} /\ 2 * p + L < 2 * L
    BY <1>1, <2>1
  <2>3. (2 * p + L) % (2 * L) = 2 * p + L
    BY ONLY <2>2, ModSmall
  <2>4. Sample!Power[i + 1] = 2 * p
    BY <1>1, PowerFacts
  <2> QED BY <1>1, <1>3, <2>3, <2>4 DEF Sample!Wrap
<1> QED BY <1>2, <1>3

LEMMA DoubledLowest == Sample!Wrap(2 * (-Sample!Limit)) = 0
<1> DEFINE L == Sample!Limit
<1>1. L \in Nat \ {0}
  BY LimitFacts
<1>2. 2 * (-L) + L = -L
  BY <1>1
<1>3. (-L) % (2 * L) = L
  BY <1>1, ModMinus
<1> QED BY <1>1, <1>2, <1>3 DEF Sample!Wrap

LEMMA SamplesClosed ==
  ASSUME NEW s \in Samples, s # 0
  PROVE  Sample!Wrap(2 * s) \in Samples
<1>1. CASE s = -Sample!Limit
  BY <1>1, DoubledLowest DEF Samples
<1>2. CASE s # -Sample!Limit
  <2>1. PICK i \in 0 .. Bits - 2 : s = Sample!Power[i]
    BY <1>2 DEF Samples
  <2>2. i # Bits - 2 => i + 1 \in 0 .. Bits - 2
    BY LimitFacts
  <2> QED BY <2>1, <2>2, DoubledPower DEF Samples
<1> QED BY <1>1, <1>2

LEMMA SampleCases ==
  ASSUME NEW s \in Samples
  PROVE  /\ s \in Int
         /\ s > 0 => \E i \in 0 .. Bits - 2 : s = Sample!Power[i]
         /\ s < 0 => s = -Sample!Limit
BY LimitFacts DEF Samples

-----------------------------------------------------------------------------
(* Halving a side.                                                         *)

Halves(h, s) == Sample!Quotient(Sample!Quotient(h, 2), s)

LEMMA HalvesPlain ==
  ASSUME NEW h \in Nat, NEW s \in Nat \ {0}
  PROVE  /\ h \div 2 \in Nat
         /\ Halves(h, s) = (h \div 2) \div s /\ Halves(h, -s) = -((h \div 2) \div s)
<1>1. h \div 2 \in Nat
  OBVIOUS
<1>2. Sample!Quotient(h, 2) = h \div 2
  BY DEF Sample!Quotient, Sample!Magnitude
<1> DEFINE x == h \div 2
<1> HIDE DEF x
<1>3. Sample!Quotient(x, s) = x \div s /\ Sample!Quotient(x, -s) = -(x \div s)
  BY <1>1 DEF Sample!Quotient, Sample!Magnitude, x
<1> QED BY <1>1, <1>2, <1>3 DEF Halves, x

\* The loop's halves are what twice the sample leaves of the side.
LEMMA HalvesAre ==
  ASSUME NEW h \in Nat, NEW s \in Nat \ {0}
  PROVE  Halves(h, s) = h \div (2 * s) /\ Halves(h, s) \in Nat
<1> DEFINE x == h \div 2
           q == x \div s
           r == h \div (2 * s)
<1>1. x \in Nat /\ 2 * x <= h /\ h <= 2 * x + 1 /\ 2 * s \in Nat \ {0}
  OBVIOUS
<1>2. q \in Int /\ r \in Int
  BY <1>1, DivType
<1>3. q * s <= x
  BY <1>1, DivBack
<1>4. r * (2 * s) <= h
  BY <1>1, DivBack
<1> HIDE DEF x, q, r
<1>5. q <= r
  <2>1. q * (2 * s) <= h
    BY <1>1, <1>2, <1>3
  <2> QED BY ONLY <1>1, <1>2, <2>1, h \in Nat, DivAtLeast DEF r
<1>6. r <= q
  <2>1. 2 * (r * s) <= 2 * x + 1 /\ r * s \in Int
    BY <1>1, <1>2, <1>4
  <2>2. r * s <= x
    BY ONLY <1>1, <2>1
  <2> QED BY ONLY <1>1, <1>2, <2>2, s \in Nat \ {0}, DivAtLeast DEF q
<1>7. 0 <= q
  <2>1. 0 * s <= x
    BY <1>1
  <2> QED BY ONLY <1>1, <2>1, 0 \in Int, s \in Nat \ {0}, DivAtLeast DEF q
<1>8. q = r /\ q \in Nat
  BY <1>2, <1>5, <1>6, <1>7
<1>9. Halves(h, s) = q
  BY HalvesPlain DEF q, x
<1> QED BY <1>8, <1>9 DEF r

LEMMA DivOne ==
  ASSUME NEW x \in Int
  PROVE  x \div 1 = x
OBVIOUS

LEMMA DivNat ==
  ASSUME NEW x \in Nat, NEW y \in Nat \ {0}
  PROVE  x \div y \in Nat
OBVIOUS

LEMMA DivVanishes ==
  ASSUME NEW x \in Nat, NEW y \in Nat \ {0}, x < y
  PROVE  x \div y = 0
OBVIOUS

\* By the largest power of two, and by the lowest Int, nothing is left of a side.
LEMMA HalvesVanish ==
  ASSUME NEW h \in Sample!Sides
  PROVE  h \in Nat /\ Halves(h, Sample!Power[Bits - 2]) = 0 /\ Halves(h, -Sample!Limit) = 0
<1> DEFINE p == Sample!Power[Bits - 2]
           L == Sample!Limit
<1>1. p \in Nat \ {0} /\ L \in Nat \ {0} /\ L = 2 * p
  BY LimitFacts
<1>2. h \in Nat /\ h < L
  BY <1>1 DEF Sample!Sides
<1> HIDE DEF p, L
<1>3. h \div 2 \in Nat /\ h \div 2 < p /\ h \div 2 < L
  BY <1>1, <1>2
<1>4. (h \div 2) \div p = 0 /\ (h \div 2) \div L = 0
  BY <1>1, <1>3, DivVanishes
<1>5. Halves(h, p) = 0
  <2>1. Halves(h, p) = (h \div 2) \div p
    BY ONLY <1>1, <1>2, HalvesPlain
  <2> QED BY <1>4, <2>1
<1>6. Halves(h, -L) = 0
  <2>1. Halves(h, -L) = -((h \div 2) \div L)
    BY ONLY <1>1, <1>2, HalvesPlain
  <2> QED BY <1>4, <2>1
<1> QED BY <1>2, <1>5, <1>6 DEF p, L

-----------------------------------------------------------------------------
(* The sample.  While the loop runs, either the sample is positive and the *)
(* sides it leaves are large enough, or nothing was requested and it has   *)
(* overflowed.  That the sides of a region are Ints, so that doubling      *)
(* brings their halves below every positive request, is RegionInv: the     *)
(* region was in the source when it was confirmed, and stays what it was.  *)

Confirmed == {"confirmed", "saved", "failed", "unreadable", "sampleThrew", "decoderThrew"}

CallInv ==
  /\ asker \in {"screen", "result"} /\ pc \in {"idle", "loop", "done", "threw"}
  /\ req \in [width : Int, height : Int]
  /\ inSampleSize \in Samples
  /\ asker = "result" => phase \in Confirmed

RegionInv ==
  asker = "result" => /\ crop.right - crop.left \in 0 .. source.w
                      /\ crop.bottom - crop.top \in 0 .. source.h

Nothing == req.height <= 0 /\ req.width <= 0
Larger == Sample!Height > req.height \/ Sample!Width > req.width
BothKept ==
  /\ Sample!Height \div inSampleSize >= req.height
  /\ Sample!Width \div inSampleSize >= req.width

LoopInv ==
  /\ Busy => /\ Larger
             /\ inSampleSize > 0 => inSampleSize = 1 \/ BothKept
             /\ inSampleSize <= 0 => Nothing
  /\ pc = "threw" => Nothing /\ Larger
  /\ pc = "done" => /\ ~(Nothing /\ Larger)
                    /\ Sample!Keeps(Sample!Height, Sample!Width)
                    /\ Sample!Largest(Sample!Height, Sample!Width)

SampleInv == CallInv /\ (AspectPositive => RegionInv /\ LoopInv)

\* It says what the comment in the loop says, and when the call throws.
LEMMA InvSaysLargest == SampleInv => LargestSample
<1> SUFFICES ASSUME SampleInv, AspectPositive PROVE Sample!LargestSample
  BY DEF LargestSample
<1>1. Sample!TypeOK
  BY DEF SampleInv, CallInv, Samples, Sample!TypeOK
<1>2. Sample!ThrowsIffNothingRequested
  BY DEF SampleInv, LoopInv, Nothing, Larger, Sample!ThrowsIffNothingRequested
<1> QED BY <1>1, <1>2 DEF SampleInv, LoopInv, Sample!LargestSample

LEMMA SidesAre ==
  ASSUME TypeOK, SampleInv, AspectPositive
  PROVE  Sample!Height \in Sample!Sides /\ Sample!Width \in Sample!Sides
<1>1. /\ source.w \in Sample!Sides /\ source.h \in Sample!Sides
      /\ Sample!Limit \in Nat \ {0}
  BY SidesAssumption, LimitFacts DEF TypeOK
<1>2. CASE asker = "screen"
  BY <1>1, <1>2 DEF Sampled, Sample!Height, Sample!Width
<1>3. CASE asker # "screen"
  <2>1. /\ crop.right - crop.left \in 0 .. source.w
        /\ crop.bottom - crop.top \in 0 .. source.h
    BY <1>3 DEF SampleInv, CallInv, RegionInv
  <2>2. crop.right - crop.left \in Sample!Sides /\ crop.bottom - crop.top \in Sample!Sides
    BY <1>1, <2>1 DEF Sample!Sides
  <2>3. asker = "result"
    BY <1>3 DEF SampleInv, CallInv
  <2> QED BY <1>3, <2>2, <2>3 DEF Sampled, Sample!Height, Sample!Width
<1> QED BY <1>2, <1>3

\* The loop's condition, in terms of what the sample would leave when doubled.
LEMMA ConditionIs ==
  Sample!HalvesLargeEnough <=>
    /\ Halves(Sample!Height, inSampleSize) >= req.height
    /\ Halves(Sample!Width, inSampleSize) >= req.width
BY DEF Sample!HalvesLargeEnough, Halves

\* Steps that leave the call and its image alone.
LEMMA CallStands ==
  ASSUME SampleInv, UNCHANGED sampling, aspect' = aspect, source' = source, crop' = crop,
         asker = "result" => phase' \in Confirmed
  PROVE  SampleInv'
<1>1. /\ asker' = asker /\ req' = req /\ inSampleSize' = inSampleSize /\ pc' = pc
      /\ aspect' = aspect /\ source' = source /\ crop' = crop
  BY DEF sampling
<1>2. CallInv'
  <2>1. Samples' = Samples
    BY DEF Samples
  <2> QED BY <1>1, <2>1 DEF SampleInv, CallInv
<1>3. Sample!Height' = Sample!Height /\ Sample!Width' = Sample!Width
  BY <1>1 DEF Sample!Height, Sample!Width, Sampled
<1>4. LoopInv => LoopInv'
  BY <1>1, <1>3 DEF LoopInv, Busy, Nothing, Larger, BothKept, Sample!Keeps, Sample!Largest
<1>5. (AspectPositive' <=> AspectPositive) /\ (RegionInv' <=> RegionInv)
  BY <1>1 DEF AspectPositive, RegionInv
<1> QED BY <1>2, <1>4, <1>5 DEF SampleInv

LEMMA DoubleKeeps ==
  ASSUME TypeOK, SampleInv, UNCHANGED vars, Sample!Double
  PROVE  SampleInv'
<1>1. /\ pc = "loop" /\ pc' = pc /\ asker' = asker /\ req' = req
      /\ inSampleSize # 0 /\ inSampleSize' = Sample!Wrap(2 * inSampleSize)
      /\ aspect' = aspect /\ source' = source /\ crop' = crop /\ phase' = phase
      /\ Sample!HalvesLargeEnough
  BY DEF Sample!Double, Sampled, vars
<1>2. inSampleSize \in Samples /\ req \in [width : Int, height : Int]
  BY DEF SampleInv, CallInv
<1>3. CallInv'
  <2>1. Samples' = Samples
    BY DEF Samples
  <2> QED BY <1>1, <1>2, <2>1, SamplesClosed DEF SampleInv, CallInv
<1>4. Sample!Height' = Sample!Height /\ Sample!Width' = Sample!Width
  BY <1>1 DEF Sample!Height, Sample!Width, Sampled
<1>5. (AspectPositive' <=> AspectPositive) /\ (RegionInv' <=> RegionInv)
  BY <1>1 DEF AspectPositive, RegionInv
<1>6. ASSUME AspectPositive PROVE LoopInv'
  <2>1. /\ Larger /\ (inSampleSize <= 0 => Nothing)
        /\ Larger' = Larger /\ Nothing' = Nothing
    BY <1>1, <1>4, <1>6 DEF SampleInv, LoopInv, Busy, Larger, Nothing
  <2>2. Sample!Height \in Sample!Sides /\ Sample!Width \in Sample!Sides
    BY <1>6, SidesAre
  <2>3. /\ Halves(Sample!Height, inSampleSize) >= req.height
        /\ Halves(Sample!Width, inSampleSize) >= req.width
    BY <1>1, ConditionIs
  <2>4. \/ Nothing
        \/ inSampleSize' > 0 /\ BothKept'
    <3>1. CASE inSampleSize > 0
      <4>1. PICK i \in 0 .. Bits - 2 : inSampleSize = Sample!Power[i]
        BY <1>2, <3>1, SampleCases
      <4>2. CASE i = Bits - 2
        BY <1>2, <2>2, <2>3, <4>1, <4>2, HalvesVanish DEF Nothing
      <4>3. CASE i # Bits - 2
        <5>1. /\ inSampleSize \in Nat \ {0} /\ i \in Nat
              /\ inSampleSize' = 2 * inSampleSize
          BY <1>1, <4>1, <4>3, DoubledPower, LimitFacts, PowerFacts
        <5>2. /\ Sample!Height \div inSampleSize' >= req.height
              /\ Sample!Width \div inSampleSize' >= req.width
          <6>1. Sample!Height \in Nat /\ Sample!Width \in Nat
            BY <2>2, HalvesVanish
          <6>2. /\ Halves(Sample!Height, inSampleSize) = Sample!Height \div (2 * inSampleSize)
                /\ Halves(Sample!Width, inSampleSize) = Sample!Width \div (2 * inSampleSize)
            BY ONLY <5>1, <6>1, HalvesAre
          <6> QED BY ONLY <2>3, <5>1, <6>2
        <5>3. BothKept'
          BY <1>1, <1>4, <5>2 DEF BothKept
        <5> QED BY <5>1, <5>3
      <4> QED BY <4>2, <4>3
    <3>2. CASE ~(inSampleSize > 0)
      BY <1>2, <2>1, <3>2, SampleCases
    <3> QED BY <3>1, <3>2
  <2>5. inSampleSize' > 0 => inSampleSize' = 1 \/ BothKept'
    <3> SUFFICES ASSUME Nothing, inSampleSize' > 0 PROVE BothKept'
      BY <2>4
    <3>1. PICK i \in 0 .. Bits - 2 : inSampleSize' = Sample!Power[i]
      <4>1. inSampleSize' \in Samples
        BY <1>1, <1>2, SamplesClosed
      <4> QED BY <4>1, SampleCases
    <3>2. inSampleSize' \in Nat \ {0}
      BY <3>1, LimitFacts
    <3>3. Sample!Height \in Nat /\ Sample!Width \in Nat
      BY <2>2, HalvesVanish
    <3>4. Sample!Height \div inSampleSize' \in Nat /\ Sample!Width \div inSampleSize' \in Nat
      BY ONLY <3>2, <3>3, DivNat
    <3>5. /\ Sample!Height \div inSampleSize' >= req.height
          /\ Sample!Width \div inSampleSize' >= req.width
      BY <1>2, <3>4 DEF Nothing
    <3> QED BY <1>1, <1>4, <3>5 DEF BothKept
  <2>6. inSampleSize' <= 0 => Nothing
    BY <2>4, <1>1, <1>2, SamplesClosed, SampleCases
  <2> QED BY <1>1, <2>1, <2>5, <2>6 DEF LoopInv, Busy
<1> QED BY <1>3, <1>5, <1>6 DEF SampleInv

LEMMA LeaveKeeps ==
  ASSUME TypeOK, SampleInv, UNCHANGED vars, Sample!Leave
  PROVE  SampleInv'
<1>1. /\ pc = "loop" /\ pc' = "done" /\ asker' = asker /\ req' = req
      /\ inSampleSize # 0 /\ inSampleSize' = inSampleSize
      /\ aspect' = aspect /\ source' = source /\ crop' = crop /\ phase' = phase
      /\ ~Sample!HalvesLargeEnough
  BY DEF Sample!Leave, Sampled, vars
<1>2. inSampleSize \in Samples /\ req \in [width : Int, height : Int]
  BY DEF SampleInv, CallInv
<1>3. CallInv'
  <2>1. Samples' = Samples
    BY DEF Samples
  <2> QED BY <1>1, <1>2, <2>1 DEF SampleInv, CallInv
<1>4. Sample!Height' = Sample!Height /\ Sample!Width' = Sample!Width
  BY <1>1 DEF Sample!Height, Sample!Width, Sampled
<1>5. (AspectPositive' <=> AspectPositive) /\ (RegionInv' <=> RegionInv)
  BY <1>1 DEF AspectPositive, RegionInv
<1>6. ASSUME AspectPositive PROVE LoopInv'
  <2> DEFINE h == Sample!Height
             w == Sample!Width
             s == inSampleSize
  <2>1. /\ Larger /\ (s <= 0 => Nothing) /\ (s > 0 => s = 1 \/ BothKept)
        /\ Larger' = Larger /\ Nothing' = Nothing
    BY <1>1, <1>4, <1>6 DEF SampleInv, LoopInv, Busy, Larger, Nothing
  <2>2. h \in Sample!Sides /\ w \in Sample!Sides /\ h \in Nat /\ w \in Nat
    BY <1>6, SidesAre, HalvesVanish
  <2>3. ~(Halves(h, s) >= req.height /\ Halves(w, s) >= req.width)
    BY <1>1, ConditionIs
  <2>4. s > 0
    <3> SUFFICES ASSUME ~(s > 0) PROVE FALSE
      OBVIOUS
    <3>1. s = -Sample!Limit /\ Nothing
      BY <1>1, <1>2, <2>1, SampleCases
    <3>2. Halves(h, s) = 0 /\ Halves(w, s) = 0
      BY <2>2, <3>1, HalvesVanish
    <3> QED BY <1>2, <2>3, <3>1, <3>2 DEF Nothing
  <2>5. s \in Nat \ {0}
    BY <1>2, <2>4, SampleCases, LimitFacts
  <2> HIDE DEF h, w, s
  <2>6. /\ Halves(h, s) = h \div (2 * s) /\ Halves(w, s) = w \div (2 * s)
        /\ Halves(h, s) \in Nat /\ Halves(w, s) \in Nat
    BY <2>2, <2>5, HalvesAre
  <2>7. ~Nothing
    BY <1>2, <2>3, <2>6 DEF Nothing
  <2>8. h >= req.height /\ w >= req.width => h \div s >= req.height /\ w \div s >= req.width
    <3>1. s = 1 => h \div s = h /\ w \div s = w
      BY <2>2
    <3>2. BothKept => h \div s >= req.height /\ w \div s >= req.width
      BY DEF BothKept, h, w, s
    <3> QED BY <2>1, <2>4, <3>1, <3>2
  <2>9. Sample!Keeps(h, w)'
    BY <1>1, <1>4, <2>8 DEF Sample!Keeps, h, w, s
  <2>10. Sample!Largest(h, w)'
    <3>1. ~(h \div (2 * s) >= req.height /\ w \div (2 * s) >= req.width)
      BY <2>3, <2>6
    <3>2. h \div (2 * s) \in Nat /\ w \div (2 * s) \in Nat
      BY <2>6
    <3>3. h \div (2 * s) < req.height \/ w \div (2 * s) < req.width
      BY <1>2, <3>1, <3>2
    <3> QED BY <1>1, <1>4, <3>3 DEF Sample!Largest, h, w, s
  <2> QED BY <1>1, <1>4, <2>1, <2>7, <2>9, <2>10 DEF LoopInv, Busy, h, w
<1> QED BY <1>3, <1>5, <1>6 DEF SampleInv

LEMMA DivideByZeroKeeps ==
  ASSUME TypeOK, SampleInv, UNCHANGED vars, Sample!DivideByZero
  PROVE  SampleInv'
<1>1. /\ pc = "loop" /\ pc' = "threw" /\ asker' = asker /\ req' = req
      /\ inSampleSize = 0 /\ inSampleSize' = inSampleSize
      /\ aspect' = aspect /\ source' = source /\ crop' = crop /\ phase' = phase
  BY DEF Sample!DivideByZero, Sampled, vars
<1>2. CallInv'
  <2>1. Samples' = Samples
    BY DEF Samples
  <2> QED BY <1>1, <2>1 DEF SampleInv, CallInv
<1>3. Sample!Height' = Sample!Height /\ Sample!Width' = Sample!Width
  BY <1>1 DEF Sample!Height, Sample!Width, Sampled
<1>4. (AspectPositive' <=> AspectPositive) /\ (RegionInv' <=> RegionInv)
  BY <1>1 DEF AspectPositive, RegionInv
<1>5. ASSUME AspectPositive PROVE LoopInv'
  <2>1. Larger /\ Nothing /\ Larger' = Larger /\ Nothing' = Nothing
    BY <1>1, <1>3, <1>5 DEF SampleInv, LoopInv, Busy, Larger, Nothing
  <2> QED BY <1>1, <2>1 DEF LoopInv, Busy
<1> QED BY <1>2, <1>4, <1>5 DEF SampleInv

\* A call begins with a sample of one.
LEMMA CallBegins ==
  ASSUME TypeOK', NEW who \in {"screen", "result"}, NEW size \in [width : Int, height : Int],
         Calls(who, size), who = "result" => phase' \in Confirmed,
         AspectPositive' => RegionInv'
  PROVE  SampleInv'
<1>1. /\ asker' = who /\ req' = size /\ inSampleSize' = 1 /\ pc' = Sample!FirstPc'
      /\ Sample!FirstPc' = IF Larger' THEN "loop" ELSE "done"
  BY DEF Calls, Larger, Sample!FirstPc
<1>2. CallInv'
  <2>1. 0 \in 0 .. Bits - 2 /\ Sample!Power[0] = 1
    BY LimitFacts, PowerFacts
  <2>2. 1 \in Samples'
    BY <2>1 DEF Samples
  <2> QED BY <1>1, <2>2 DEF CallInv
<1>3. LoopInv'
  <2>1. Sample!Height' \in Int /\ Sample!Width' \in Int
    <3>1. crop' \in Rects /\ source'.w \in Nat /\ source'.h \in Nat
      BY DEF TypeOK
    <3> QED BY <1>1, <3>1 DEF Rects, Sampled, Sample!Height, Sample!Width
  <2>2. pc' = "done" => /\ Sample!Keeps(Sample!Height, Sample!Width)'
                        /\ Sample!Largest(Sample!Height, Sample!Width)'
    <3>1. Sample!Height' \div 1 = Sample!Height' /\ Sample!Width' \div 1 = Sample!Width'
      BY ONLY <2>1, DivOne
    <3>2. pc' = "done" => ~(Sample!Height' > req'.height \/ Sample!Width' > req'.width)
      BY <1>1 DEF Larger
    <3>3. Sample!Keeps(Sample!Height, Sample!Width)'
      BY <1>1, <3>1 DEF Sample!Keeps
    <3>4. pc' = "done" => Sample!Largest(Sample!Height, Sample!Width)'
      BY <1>1, <3>2 DEF Sample!Largest
    <3> QED BY <3>3, <3>4
  <2>3. CASE Larger'
    BY <1>1, <2>3 DEF LoopInv, Busy
  <2>4. CASE ~Larger'
    BY <1>1, <2>2, <2>4 DEF LoopInv, Busy
  <2> QED BY <2>3, <2>4
<1> QED BY <1>2, <1>3 DEF SampleInv

\* For every source whose sides are Ints, every view and every maxResultSize: whenever
\* the loop ends, the sample is the largest power of two that keeps both of the sides it
\* compares, and it throws exactly when nothing positive is requested of a larger image.
THEOREM SampleIsLargest == SpecCrop => []LargestSample
<1>1. InitCrop => SampleInv
  <2> SUFFICES ASSUME InitCrop PROVE SampleInv
    OBVIOUS
  <2>1. 1 \in Samples
    <3>1. 0 \in 0 .. Bits - 2 /\ Sample!Power[0] = 1
      BY LimitFacts, PowerFacts
    <3> QED BY <3>1 DEF Samples
  <2>2. CallInv
    BY <2>1 DEF InitCrop, CallInv
  <2> QED BY <2>2 DEF InitCrop, SampleInv, RegionInv, LoopInv, Busy
<1>2. TypeOK /\ TypeOK' /\ IInv /\ SampleInv /\ [NextCrop]_<<vars, sampling>> => SampleInv'
  <2> SUFFICES ASSUME TypeOK, TypeOK', IInv, SampleInv, [NextCrop]_<<vars, sampling>>
               PROVE  SampleInv'
    OBVIOUS
  <2>1. CASE Show
    <3>1. phase = "new" /\ UNCHANGED <<aspect, source, crop>>
      BY <2>1 DEF Show, Open
    <3>2. asker = "screen"
      BY <3>1 DEF SampleInv, CallInv, Confirmed
    <3>3. CASE phase' = "open"
      <4>1. Calls("screen", [width |-> ViewW, height |-> ViewH])
        BY <2>1, <3>3 DEF Show
      <4>2. [width |-> ViewW, height |-> ViewH] \in [width : Int, height : Int]
        OBVIOUS
      <4>3. RegionInv'
        BY <4>1 DEF Calls, RegionInv
      <4> QED BY <4>1, <4>2, <4>3, CallBegins
    <3>4. CASE phase' # "open"
      BY <2>1, <3>1, <3>2, <3>4, CallStands DEF Show
    <3> QED BY <3>3, <3>4
  <2>2. CASE Touch
    <3>1. phase = "open" /\ UNCHANGED <<aspect, source, crop, sampling>>
      BY <2>2 DEF Touch, DragStart, Drag, DragEnd, Exit
    <3>2. asker # "result"
      BY <3>1 DEF SampleInv, CallInv, Confirmed
    <3> QED BY <3>1, <3>2, CallStands
  <2>3. CASE Done
    <3>1. PICK size \in MaxResults : Calls("result", size)
      BY <2>3 DEF Done
    <3>2. size \in [width : Int, height : Int]
      BY MaxResultsAssumption
    <3>3. /\ phase = "open" /\ phase' = "confirmed" /\ crop' = ToSource
          /\ source' = source /\ aspect' = aspect
      BY <2>3 DEF Done, Confirm
    <3>4. ASSUME AspectPositive' PROVE RegionInv'
      <4>1. AspectPositive /\ rect \in Rects /\ source \in Sources
        BY <3>3, <3>4 DEF AspectPositive, TypeOK
      <4>2. Within(rect)
        BY <3>3, <4>1 DEF IInv, Accepted
      <4>3. /\ 0 <= crop'.left /\ crop'.left <= crop'.right /\ crop'.right <= source'.w
            /\ 0 <= crop'.top /\ crop'.top <= crop'.bottom /\ crop'.bottom <= source'.h
        BY <3>3, <4>1, <4>2, SourceWithin
      <4>4. /\ crop'.left \in Int /\ crop'.right \in Int /\ crop'.top \in Int /\ crop'.bottom \in Int
            /\ source'.w \in Int /\ source'.h \in Int
        BY <3>3, <4>1 DEF TypeOK, Rects
      <4> QED BY <4>3, <4>4 DEF RegionInv
    <3> QED BY <3>1, <3>2, <3>3, <3>4, CallBegins DEF Confirmed
  <2>4. CASE Loop
    BY <2>4, DoubleKeeps, LeaveKeeps, DivideByZeroKeeps DEF Loop, Sample!Next
  <2>5. CASE Finish
    <3>1. phase' \in DecodeEnds /\ UNCHANGED <<aspect, source, crop, sampling>>
      BY <2>5 DEF Finish, Decode
    <3>2. phase' \in Confirmed \union {"decoderThrew"}
      BY <3>1 DEF DecodeEnds, Confirmed
    <3> QED BY <3>1, <3>2, CallStands DEF Confirmed
  <2>6. CASE UNCHANGED <<vars, sampling>>
    <3>1. UNCHANGED <<aspect, source, crop, phase, sampling>>
      BY <2>6 DEF vars
    <3> QED BY <3>1, CallStands DEF SampleInv, CallInv
  <2> QED BY <2>1, <2>2, <2>3, <2>4, <2>5, <2>6 DEF NextCrop
<1> QED BY <1>1, <1>2, ScreenIsCropRect, TypeCorrect, Invariance, InvSaysLargest, PTL DEF SpecCrop
=============================================================================
