-------------------------- MODULE MCSessionControl --------------------------
(***************************************************************************)
(* TLC instances of SessionControl.                                        *)
(***************************************************************************)
EXTENDS SessionControl, TLC

MCSymmetry == Permutations(Caller) \cup Permutations(Collector)
=============================================================================
