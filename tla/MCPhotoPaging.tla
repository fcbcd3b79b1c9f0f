--------------------------- MODULE MCPhotoPaging ---------------------------
(* PhotoPaging with a list of four pages of one photo. The coroutines are  *)
(* interchangeable.                                                        *)
EXTENDS PhotoPaging, TLC

CONSTANTS j1, j2
MCJobs == {j1, j2}
Symmetry == Permutations(MCJobs)
=============================================================================
