------------------------------ MODULE ImageCrop ------------------------------
(***************************************************************************)
(* The crop screen (CropRect) with its two calls of calculateInSampleSize  *)
(* (SampleSize): one when the screen opens, for the image shown, with the  *)
(* size of the view requested, and one when the crop is confirmed, for the *)
(* region cropped, with the caller's maxResultSize requested. Both run on  *)
(* the main thread, which takes no drag and no press meanwhile. What the   *)
(* first one throws is caught and the placeholder is shown; what the       *)
(* second one throws ends the process.                                     *)
(***************************************************************************)
EXTENDS CropRect

CONSTANTS
  Bits,          \* width of an Int
  MaxResults     \* cropArgs.maxResultSize, as [width, height]

ASSUME BitsAssumption == Bits \in Nat /\ Bits > 1
ASSUME MaxResultsAssumption == MaxResults \subseteq [width : Int, height : Int]

VARIABLES
  asker,         \* whose call of calculateInSampleSize the next three belong to
  req, inSampleSize, pc

sampling == <<asker, req, inSampleSize, pc>>

\* The image the call is about: the source, or the region cropped from it.
Sampled ==
  IF asker = "screen" THEN [width |-> source.w, height |-> source.h]
  ELSE [width |-> crop.right - crop.left, height |-> crop.bottom - crop.top]

Sample == INSTANCE SampleSize WITH caller <- asker, image <- Sampled

\* The decoder reports the sides of an image as Ints.
ASSUME SidesAssumption == Sources \subseteq [w : Sample!Sides, h : Sample!Sides]

Calls(who, requested) ==
  /\ asker' = who /\ req' = requested
  /\ inSampleSize' = 1
  /\ pc' = Sample!FirstPc'

Busy == pc = "loop"

InitCrop ==
  /\ Init
  /\ asker = "screen" /\ req = [width |-> 0, height |-> 0]
  /\ inSampleSize = 1 /\ pc = "idle"

\* Both requires accept a pair of which one side is not negative.
Show ==
  /\ Open
  /\ IF phase' = "open" THEN Calls("screen", [width |-> ViewW, height |-> ViewH])
                        ELSE UNCHANGED sampling

Touch ==
  /\ ~Busy
  /\ DragStart \/ Drag \/ DragEnd \/ Exit
  /\ UNCHANGED sampling

Done ==
  /\ ~Busy
  /\ Confirm
  /\ \E size \in MaxResults :
       /\ size.width >= 0 \/ size.height >= 0
       /\ Calls("result", size)

Loop == UNCHANGED vars /\ Sample!Next

\* With the sample known the region is decoded; without it the click has thrown.
Finish ==
  /\ ~Busy
  /\ Decode
  /\ (phase' = "sampleThrew") <=> (pc = "threw")
  /\ UNCHANGED sampling

NextCrop == Show \/ Touch \/ Done \/ Loop \/ Finish

\* The main thread stays in the loop until it ends.
SpecCrop == InitCrop /\ [][NextCrop]_<<vars, sampling>> /\ WF_<<vars, sampling>>(Loop)

-----------------------------------------------------------------------------
(* Properties.                                                             *)

\* The sample is the largest power of two the comment in the loop allows, of the sides
\* it compares, and the call throws exactly when nothing is requested. (With an aspect
\* ratio of one negative side the region can be upside down, its sides negative.)
LargestSample == AspectPositive => Sample!LargestSample

\* Opening the screen and confirming never leave the main thread in the loop, even if
\* maxResultSize has nothing positive: doubling overflows to zero, and that ends it.
Returns == []<>~Busy

\* The result is not subsampled below the size requested: it fails where the function
\* for the result exchanges width and height.
KeepsRequestedSize == Sample!KeepsRequestedSize
=============================================================================
