----------------------------- MODULE SampleSize -----------------------------
(***************************************************************************)
(* The two calculateInSampleSize functions of the image cropper: how much  *)
(* a bitmap may be subsampled when it is decoded, for the screen (from the *)
(* bounds the decoder reported) and for the result (from the size of the   *)
(* crop).  The loop doubles an Int; the model's Int has Bits bits, so that *)
(* its overflow is within reach. A call begins in a state of Init; who     *)
(* calls, and with what, is ImageCrop's matter, which also assumes that    *)
(* Bits is a natural number above 1.                                       *)
(***************************************************************************)
EXTENDS Integers

CONSTANT Bits   \* width of Int (32 in the code)

\* The powers of two; and the values of an Int, with those that are the side of an image.
Power[n \in Nat] == IF n = 0 THEN 1 ELSE 2 * Power[n - 1]
Limit == Power[Bits - 1]
Ints == -Limit .. Limit - 1
Sides == 0 .. Limit - 1

VARIABLES
  caller,        \* who asks: "screen" or "result"
  image,         \* the image, as [width, height]
  req,           \* what is requested, as [width, height]
  inSampleSize,
  pc             \* "idle" (not called yet), "loop", "done", or "threw"

vars == <<caller, image, req, inSampleSize, pc>>

Wrap(n) == ((n + Limit) % (2 * Limit)) - Limit

\* n / d of the code: truncated towards zero.
Magnitude(n) == IF n < 0 THEN -n ELSE n
Quotient(n, d) ==
  LET q == Magnitude(n) \div Magnitude(d) IN IF (n < 0) = (d < 0) THEN q ELSE -q

\* The function for the screen reads the sides as they are; the one for the result
\* binds its arguments to (height, width) in the wrong order.
Height == IF caller = "screen" THEN image.height ELSE image.width
Width == IF caller = "screen" THEN image.width ELSE image.height

\* An image no larger than requested is left as it is.
FirstPc == IF Height > req.height \/ Width > req.width THEN "loop" ELSE "done"

Init ==
  /\ caller \in {"screen", "result"}
  /\ image \in [width : Sides, height : Sides]
  /\ req \in [width : Ints, height : Ints]
  /\ inSampleSize = 1
  /\ pc = FirstPc

\* The loop's condition, for a divisor that is not zero, and its mutant that goes on
\* while either side is still large enough.
HalvesLargeEnoughEither ==
  \/ Quotient(Quotient(Height, 2), inSampleSize) >= req.height
  \/ Quotient(Quotient(Width, 2), inSampleSize) >= req.width
HalvesLargeEnough ==
  /\ Quotient(Quotient(Height, 2), inSampleSize) >= req.height
  /\ Quotient(Quotient(Width, 2), inSampleSize) >= req.width

\* Mutant of Double: it stops at the largest power of two.
DoubleSaturating ==
  /\ pc = "loop" /\ inSampleSize # 0 /\ HalvesLargeEnough
  /\ inSampleSize' = IF Wrap(2 * inSampleSize) < 1 THEN inSampleSize ELSE 2 * inSampleSize
  /\ UNCHANGED <<caller, image, req, pc>>
Double ==
  /\ pc = "loop" /\ inSampleSize # 0 /\ HalvesLargeEnough
  /\ inSampleSize' = Wrap(2 * inSampleSize)
  /\ UNCHANGED <<caller, image, req, pc>>

Leave ==
  /\ pc = "loop" /\ inSampleSize # 0 /\ ~HalvesLargeEnough
  /\ pc' = "done"
  /\ UNCHANGED <<caller, image, req, inSampleSize>>

\* A division by an inSampleSize that overflowed to zero.
DivideByZero ==
  /\ pc = "loop" /\ inSampleSize = 0
  /\ pc' = "threw"
  /\ UNCHANGED <<caller, image, req, inSampleSize>>

Next == Double \/ Leave \/ DivideByZero

-----------------------------------------------------------------------------
(* Properties.                                                             *)

\* inSampleSize is a power of two, the lowest Int, or zero: what doubling can reach.
TypeOK ==
  /\ caller \in {"screen", "result"} /\ pc \in {"idle", "loop", "done", "threw"}
  /\ inSampleSize \in {0, -Limit} \union {Power[i] : i \in 0 .. Bits - 2}

\* It throws exactly if neither side of the request is positive and the image is
\* larger than the request: then the halves never become small enough.
ThrowsIffNothingRequested ==
  pc \in {"done", "threw"} =>
    (pc = "threw" <=> /\ req.height <= 0 /\ req.width <= 0
                      /\ Height > req.height \/ Width > req.width)

\* What the comment in the loop asks for: both sides of the subsampled image are at
\* least the requested ones if those of the image were ...
Keeps(h, w) ==
  h >= req.height /\ w >= req.width =>
    h \div inSampleSize >= req.height /\ w \div inSampleSize >= req.width
\* ... and the sample is the largest power of two of that kind.
Largest(h, w) ==
  h > req.height \/ w > req.width =>
    h \div (2 * inSampleSize) < req.height \/ w \div (2 * inSampleSize) < req.width

\* Both hold of the sides the function compares, whenever it does not throw.
LargestSample ==
  /\ TypeOK /\ ThrowsIffNothingRequested
  /\ pc = "done" => Keeps(Height, Width) /\ Largest(Height, Width)

\* "keeps both height and width larger than the requested height and width", of the
\* image's own sides: it fails for the function that swaps them.
KeepsRequestedSize == pc = "done" => Keeps(image.height, image.width)
=============================================================================
