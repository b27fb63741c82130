------------------------------ MODULE MCLegacy ------------------------------
(* Legacy for TLC: three paths, one hash, model values.                    *)
EXTENDS Legacy, TLC

CONSTANTS pA, pB, pC

(* The paths other than the initial one are interchangeable.              *)
MCSymmetry == Permutations({pB, pC})
=============================================================================
