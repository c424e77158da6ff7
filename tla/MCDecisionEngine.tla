-------------------------- MODULE MCDecisionEngine --------------------------
(***************************************************************************)
(* TLC instances of DecisionEngine.  The policy errors keeps traces with   *)
(* the span group bad; everything drops nothing; ottl drops traces of bad  *)
(* alone and does not evaluate on good.                                    *)
(***************************************************************************)
EXTENDS DecisionEngine

CONSTANTS good, bad, errors, everything, ottl

MCSpan == {good, bad}
MCSpanSize == [span \in MCSpan |-> 1]
MCKeepsOn == [p \in Policy |-> CASE p = everything -> MCSpan
                                   [] p = errors -> {bad}
                                   [] p = ottl -> {}]
MCFailsOn == [p \in Policy |-> IF p = ottl THEN {good} ELSE {}]
MCWait == [p \in Policy |-> 1]
MCSymmetry == Permutations(TraceID) \cup Permutations(Setter)
=============================================================================
