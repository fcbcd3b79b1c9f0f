----------------------------- MODULE Transcode -----------------------------
(***************************************************************************)
(* What a caller of one conversion function of AudioExtractManager may     *)
(* rely on: the destination file receives the units of the source one at a *)
(* time and in order, but for those the codec had no output buffer for,    *)
(* and the suspended call returns only when none is left. The file keeps   *)
(* growing after the caller was cancelled: cancelling withdraws the        *)
(* caller's interest and nothing else.                                     *)
(***************************************************************************)
EXTENDS Naturals, Sequences

CONSTANT Deliverable(_)     \* how many units of a source must reach the file

VARIABLES
  request,  \* the source to convert
  file,     \* the units the destination holds
  missing,  \* how many units the codec put out without a buffer
  answer    \* what the suspended caller knows

vars == <<request, file, missing, answer>>

Init ==
  /\ file = << >>
  /\ missing = 0
  /\ answer = "active"

\* The units put out so far, written or not.
Done == Len(file) + missing

\* The next unit in order reaches the file, whoever still waits for it.  The
\* call may return with the last one.
Deliver ==
  /\ Done < Deliverable(request)
  /\ file' = Append(file, Done + 1)
  /\ \/ answer' = answer
     \/ /\ answer = "active"
        /\ Done + 1 = Deliverable(request)
        /\ answer' = "resumed"
  /\ UNCHANGED <<request, missing>>

\* The codec has no buffer for the next unit: it never reaches the file.
Miss ==
  /\ Done < Deliverable(request)
  /\ missing' = missing + 1
  /\ UNCHANGED <<request, file, answer>>

\* The call returns: the file is complete.
Return ==
  /\ answer = "active"
  /\ Done = Deliverable(request)
  /\ answer' = "resumed"
  /\ UNCHANGED <<request, file, missing>>

\* The device has no codec of that type: the call returns with an empty file.
ReturnUnsupported ==
  /\ answer = "active"
  /\ Done = 0
  /\ answer' = "resumed"
  /\ UNCHANGED <<request, file, missing>>

\* Setting the codec or the streams up throws to the caller.
Throw ==
  /\ answer = "active"
  /\ Done = 0
  /\ answer' = "threw"
  /\ UNCHANGED <<request, file, missing>>

Abandon ==
  /\ answer = "active"
  /\ answer' = "cancelled"
  /\ UNCHANGED <<request, file, missing>>

Next == Deliver \/ Miss \/ Return \/ ReturnUnsupported \/ Throw \/ Abandon

Spec == Init /\ [][Next]_vars
=============================================================================
