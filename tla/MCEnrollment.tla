---------------------------- MODULE MCEnrollment ----------------------------
EXTENDS Enrollment, TLC
CONSTANTS m1, m2
SlotSymmetry == Permutations(Slots)
\* Two computers that use the same network adapter.
MCHW  == m1 :> "h1" @@ m2 :> "h2"
MCMAC == m1 :> "x" @@ m2 :> "x"
=============================================================================
