---------------------------- MODULE MCImageCrop ----------------------------
(***************************************************************************)
(* ImageCrop in a view of 7 x 6 with a bitmap that leaves a margin at both *)
(* sides: corners, edges and the minimum of two units are a drag or two    *)
(* apart. The sources have the bitmap's ratio, up to a size that is        *)
(* subsampled for the screen; the last one could not be decoded at first,  *)
(* and is smaller than the placeholder shown in its stead.                 *)
(***************************************************************************)
EXTENDS ImageCrop

Aspect(p, q) == [a |-> p, b |-> q]
MCAspects == {Aspect(0, 0), Aspect(0, 3), Aspect(1, 1), Aspect(1, 2), Aspect(2, 1),
              Aspect(3, 2), Aspect(2, 3), Aspect(-1, -1), Aspect(-1, 2), Aspect(2, -1)}

Size(p, q) == [w |-> p, h |-> q]
MCSources == {Size(5, 6), Size(10, 12), Size(25, 30), Size(1, 1)}

Requests(S) == [width : S, height : S]
MCMaxResults == Requests({-1, 0, 1, 4})
MCPositive == Requests({1, 2})
=============================================================================
