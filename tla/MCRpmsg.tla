------------------------------ MODULE MCRpmsg ------------------------------
(* Model values and symmetry for checking the rpmsg transport with TLC.    *)
EXTENDS RpmsgImplements, TLC

CONSTANTS m1, m2, huge   \* two messages that fit in a buffer, one that does not

MCSymmetry == Permutations({m1, m2})
=============================================================================
