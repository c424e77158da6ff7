---------------------------- MODULE MCTraceStore ----------------------------
(***************************************************************************)
(* TLC instance of TraceStore: three traces through a buffer of two, and   *)
(* span groups of two sizes of which three small ones fill MaxMemory.      *)
(***************************************************************************)
EXTENDS TraceStore

CONSTANTS t1, t2, t3, small, large

MCTraceID == {t1, t2, t3}
MCSpan == {small, large}
MCSpanSize == [span \in MCSpan |-> IF span = small THEN 1 ELSE 2]
MCSymmetry == Permutations(MCTraceID)
=============================================================================
