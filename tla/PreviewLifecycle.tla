-------------------------- MODULE PreviewLifecycle --------------------------
(***************************************************************************)
(* What the preview promises of the life of a trace, whoever looks at the  *)
(* store and whenever: nothing is asserted of a trace that waits for its   *)
(* decision (spec.md:712); a verdict is given once, and stands until spans *)
(* reopen the trace, the trace is evicted or a policy update reviews it;   *)
(* each update reviews once, and decides nothing that was undecided.       *)
(***************************************************************************)
EXTENDS Integers

CONSTANTS
  TraceID,
  Reviewer    \* policy updates that may be under way

VARIABLES
  arrivals,   \* batches of spans so far
  phase,      \* of each trace
  reviewing   \* policy updates that have not reviewed the traces yet

Verdicts == {"KEEP", "DROP"}
Concluded == { id \in TraceID : phase[id] \in Verdicts }

Init ==
  /\ arrivals = 0
  /\ phase = [id \in TraceID |-> "absent"]
  /\ reviewing = {}

\* Spans of some traces arrive, and room is made for them.
Arrive ==
  /\ arrivals' = arrivals + 1
  /\ \E came, gone \in SUBSET TraceID :
       phase' = [id \in TraceID |-> IF id \in gone THEN "absent"
                                    ELSE IF id \in came THEN "pending" ELSE phase[id]]
  /\ UNCHANGED reviewing

Conclude ==
  /\ \E id \in TraceID, verdict \in Verdicts :
       /\ phase[id] = "pending"
       /\ phase' = [phase EXCEPT ![id] = verdict]
  /\ UNCHANGED <<arrivals, reviewing>>

Announce ==
  /\ \E r \in Reviewer \ reviewing : reviewing' = reviewing \cup {r}
  /\ UNCHANGED <<arrivals, phase>>

Review ==
  /\ \E r \in reviewing : reviewing' = reviewing \ {r}
  /\ \E verdict \in [Concluded -> Verdicts] :
       phase' = [id \in TraceID |-> IF id \in Concluded THEN verdict[id] ELSE phase[id]]
  /\ UNCHANGED arrivals

Next == Arrive \/ Conclude \/ Announce \/ Review

Spec == Init /\ [][Next]_<<arrivals, phase, reviewing>>
=============================================================================
