------------------------------ MODULE SurfaceMask ------------------------------
(***************************************************************************)
(* surface_analysis.py: the bright pixels of the panel without its bus     *)
(* bars and cell edges.  A mask is a set of pixels; a kernel is a line of  *)
(* 2 * half + 1 pixels around its anchor.                                  *)
(***************************************************************************)
EXTENDS Integers

CONSTANTS Width, Height,  \* the straightened panel
          HHalf, VHalf    \* (SURFACE_HLINE_LENGTH - 1) / 2, likewise vertical

ASSUME SurfaceAssumption ==
    /\ Width \in Nat \ {0} /\ Height \in Nat \ {0}
    /\ HHalf \in Nat /\ VHalf \in Nat

Columns == 0..(Width - 1)
Rows    == 0..(Height - 1)
Pixels  == Columns \X Rows

Abs(n) == IF n < 0 THEN -n ELSE n

(* The pixels of the image under a kernel anchored at q. *)
HLine == [q \in Pixels |-> {r \in Pixels : r[2] = q[2] /\ Abs(r[1] - q[1]) <= HHalf}]
VLine == [q \in Pixels |-> {r \in Pixels : r[1] = q[1] /\ Abs(r[2] - q[2]) <= VHalf}]

(* OpenCV's borders: what is outside neither prevents an erosion nor adds  *)
(* to a dilation.  The kernels are symmetric.                              *)
Eroded(mask, line)  == {q \in Pixels : line[q] \subseteq mask}
Dilated(mask, line) == {q \in Pixels : line[q] \cap mask # {}}

Opened_Closing(mask, line) == Eroded(Dilated(mask, line), line)
Opened_NotDilated(mask, line) == Eroded(mask, line)
Opened(mask, line) == Dilated(Eroded(mask, line), line)

RemoveBusBars(mask) == mask \ (Opened(mask, HLine) \cup Opened(mask, VLine))
===============================================================================
