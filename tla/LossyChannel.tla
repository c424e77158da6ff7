---------------------------- MODULE LossyChannel ----------------------------
(***************************************************************************)
(* What the exporter promises the pipeline and whoever reads its counters: *)
(* a channel that never refuses to return, that may lose what it is given  *)
(* (README.md: "traces are shadowed best-effort"), that holds a bounded    *)
(* number of payloads, and that delivers or loses each of them once.       *)
(***************************************************************************)
EXTENDS Integers

CONSTANT
  Capacity    \* payloads the channel holds at most

VARIABLES
  given,      \* payloads handed over
  delivered,  \* written to a connection
  lost        \* given up

Held == given - delivered - lost

Init == given = 0 /\ delivered = 0 /\ lost = 0

Accept ==
  /\ Held < Capacity
  /\ given' = given + 1
  /\ UNCHANGED <<delivered, lost>>

Refuse ==
  /\ given' = given + 1 /\ lost' = lost + 1
  /\ UNCHANGED delivered

Deliver ==
  /\ Held > 0
  /\ delivered' = delivered + 1
  /\ UNCHANGED <<given, lost>>

Lose ==
  /\ Held > 0
  /\ lost' = lost + 1
  /\ UNCHANGED <<given, delivered>>

Next == Accept \/ Refuse \/ Deliver \/ Lose

Spec == Init /\ [][Next]_<<given, delivered, lost>>
=============================================================================
