--------------------------- MODULE DecisionEngine ---------------------------
(***************************************************************************)
(* How internal/server/server.go decides traces: the ticker goroutine runs *)
(* decideDue while collector connections call Store.Ingest and any number  *)
(* of browsers call SetPolicy, with internal/statistics counting.          *)
(*                                                                         *)
(* Each step is what happens under one lock (Server.mu, Store.mu or        *)
(* Engine.mu); the goroutines interleave between them.  A policy is what   *)
(* it concludes from the span groups of a trace: it fails on a group in    *)
(* FailsOn (an OTTL condition that does not evaluate), keeps on a group in *)
(* KeepsOn, drops otherwise.                                               *)
(***************************************************************************)
EXTENDS Integers, FiniteSets, Sequences, SequencesExt

CONSTANTS
  TraceID, Span, SpanSize, MaxTraces, MaxAge, MaxMemory, MaxBatch, MaxLag,
  MaxClock, MaxEvicted,   \* as in TraceStore
  Policy,     \* policy sets that compile
  None,       \* no policy set
  KeepsOn,    \* span groups on which one of the policies of the set samples
  FailsOn,    \* span groups on which evaluating the set returns an error
  Wait,       \* decision_wait of the set, 30s where it is not positive
  Setter,     \* concurrent callers of SetPolicy
  MaxFrames,  \* bound on the frames received
  MaxUpdates  \* bound on the policy updates

ASSUME EngineAssumption ==
  /\ None \notin Policy
  /\ KeepsOn \in [Policy -> SUBSET Span]
  /\ FailsOn \in [Policy -> SUBSET Span]
  /\ Wait \in [Policy -> Nat \ {0}]
  /\ SpanSize \in [Span -> Nat \ {0}]
  /\ MaxTraces \in Nat \ {0} /\ MaxAge \in Nat \ {0} /\ MaxMemory \in Nat \ {0}
  /\ MaxBatch \in Nat /\ MaxLag \in Nat
  /\ MaxClock \in Nat /\ MaxEvicted \in Nat
  /\ MaxFrames \in Nat
  /\ MaxUpdates \in Nat

VARIABLES
  byID, order, totalBytes, evicted, clock,   \* the Store and the time
  evaluator,  \* Server.evaluator
  stats,      \* statistics.Engine
  tick,       \* the ticker goroutine inside decideDue
  setter,     \* each SetPolicy call
  frames, updates,  \* what arrived so far
  overlap,    \* history: the evaluator was replaced while a decideDue or
              \* another SetPolicy was still using its predecessor
  late        \* history: traces that got spans between the copy decideDue
              \* evaluates and the ApplyDecision of its result

history == <<overlap, late>>

Store == INSTANCE TraceStore WITH DecisionWaits <- Range(Wait)

storeVars == <<byID, order, totalBytes, evicted>>
vars == <<byID, order, totalBytes, evicted, clock, evaluator, stats, tick,
          setter, frames, updates, overlap, late>>

Verdicts == {"KEEP", "DROP", "ERROR"}

\* Evaluator.Evaluate on the spans of a trace.
Evaluate(p, spans) ==
  CASE spans \cap FailsOn[p] # {} -> "ERROR"
    [] spans \cap FailsOn[p] = {} /\ spans \cap KeepsOn[p] # {} -> "KEEP"
    [] OTHER -> "DROP"

NoStats == [observed |-> 0, keep |-> 0, drop |-> 0]

\* Engine.Record of one result.
Record(verdict) ==
  stats' = [observed |-> stats.observed + 1,
            keep |-> stats.keep + (IF verdict = "KEEP" THEN 1 ELSE 0),
            drop |-> stats.drop + (IF verdict = "KEEP" THEN 0 ELSE 1)]

Idle == [pc |-> "idle", ev |-> None, now |-> 0, due |-> << >>,
         result |-> "ERROR"]
Resting == [pc |-> "idle", ev |-> None, todo |-> << >>]

\* ForEachMutate holds Store.mu while its callback records the results.
StoreFree == \A s \in Setter : setter[s].pc # "record"

-----------------------------------------------------------------------------
Init ==
  /\ Store!Init
  /\ evaluator \in Policy
  /\ stats = NoStats
  /\ tick = Idle
  /\ setter = [s \in Setter |-> Resting]
  /\ frames = 0 /\ updates = 0
  /\ overlap = FALSE
  /\ late = {}

TimePasses ==
  /\ Store!Tick
  /\ UNCHANGED <<evaluator, stats, tick, setter, frames, updates, history>>

\* What a walk along the list q finds of the set S.
InOrder(q, S) ==
  LET found[n \in 0 .. Len(q)] ==
        IF n = 0 THEN << >>
        ELSE IF q[n] \in S THEN Append(found[n - 1], q[n]) ELSE found[n - 1]
  IN found[Len(q)]

Decided == { id \in Store!Retained : byID[id].state = "DECIDED" }

\* The traces decideDue holds a copy of and has not decided yet.
Copied == { tick.due[i].id : i \in DOMAIN tick.due }

\* handleTraceFrame: the spans of one frame go to the store.  Frames stop in
\* time for every trace to become due before MaxClock.
ReceiveFrame ==
  /\ StoreFree
  /\ frames < MaxFrames /\ evicted < MaxEvicted
  /\ clock + Max(Range(Wait)) <= MaxClock
  /\ frames' = frames + 1
  /\ \E now \in Store!Instants, ids \in Store!Batches :
       /\ \E spans \in [Range(ids) -> Span] : Store!Ingest(now, ids, spans)
       /\ late' = late \cup (Range(ids) \cap Copied)
  /\ UNCHANGED <<clock, evaluator, stats, tick, setter, updates, overlap>>

-----------------------------------------------------------------------------
(* decideDue, run by the ticker goroutine only. *)

ReadEvaluator ==
  /\ tick.pc = "idle"
  /\ tick' = [Idle EXCEPT !.pc = "due", !.ev = evaluator, !.now = clock]
  /\ UNCHANGED <<storeVars, clock, evaluator, stats, setter, frames, updates,
                 history>>

CollectDue ==
  /\ tick.pc = "due"
  /\ StoreFree
  /\ LET due == Store!Due(tick.now, Wait[tick.ev])
         ids == InOrder(order, due)
     IN /\ tick' = IF due = {} THEN Idle
                   ELSE [tick EXCEPT
                          !.pc = "decide",
                          !.due = [i \in DOMAIN ids |->
                                     [id |-> ids[i], spans |-> byID[ids[i]].spans]]]
        /\ late' = late \ due
  /\ Store!DueForDecision(tick.now, Wait[tick.ev])
  /\ UNCHANGED <<clock, evaluator, stats, setter, frames, updates, overlap>>

\* Mutant of Decide: a failed evaluation ends the loop.
DecideUntilError ==
  /\ tick.pc = "decide"
  /\ StoreFree
  /\ LET t == Head(tick.due)
         verdict == Evaluate(tick.ev, t.spans)
     IN IF verdict = "ERROR"
        THEN tick' = Idle /\ UNCHANGED storeVars
        ELSE /\ Store!ApplyDecision(t.id, verdict)
             /\ tick' = [tick EXCEPT !.pc = "record", !.due = Tail(@),
                                     !.result = verdict]
  /\ UNCHANGED <<clock, evaluator, stats, setter, frames, updates, history>>

\* One turn of the loop: evaluate the copy, then ApplyDecision.  A failed
\* evaluation and a trace that is gone are skipped.
Decide ==
  /\ tick.pc = "decide"
  /\ StoreFree
  /\ LET t == Head(tick.due)
         verdict == Evaluate(tick.ev, t.spans)
         rest == Tail(tick.due)
     IN \/ /\ verdict # "ERROR"
           /\ Store!ApplyDecision(t.id, verdict)
           /\ tick' = IF t.id \in Store!Retained
                      THEN [tick EXCEPT !.pc = "record", !.due = rest,
                                        !.result = verdict]
                      ELSE IF rest = << >> THEN Idle
                      ELSE [tick EXCEPT !.due = rest]
        \/ /\ verdict = "ERROR"
           /\ tick' = IF rest = << >> THEN Idle ELSE [tick EXCEPT !.due = rest]
           /\ UNCHANGED storeVars
  /\ UNCHANGED <<clock, evaluator, stats, setter, frames, updates, history>>

RecordDecision ==
  /\ tick.pc = "record"
  /\ Record(tick.result)
  /\ tick' = IF tick.due = << >> THEN Idle
             ELSE [tick EXCEPT !.pc = "decide", !.result = "ERROR"]
  /\ UNCHANGED <<storeVars, clock, evaluator, setter, frames, updates, history>>

-----------------------------------------------------------------------------
(* SetPolicy, run by any number of request handlers. *)

\* A configuration that does not compile changes nothing.
SwapEvaluator(s) ==
  /\ setter[s].pc = "idle"
  /\ updates < MaxUpdates
  /\ updates' = updates + 1
  /\ \E p \in Policy :
       /\ evaluator' = p
       /\ setter' = [setter EXCEPT ![s].pc = "reset", ![s].ev = p]
  /\ overlap' = (overlap \/ tick.pc # "idle"
                         \/ \E u \in Setter \ {s} : setter[u].pc # "idle")
  /\ UNCHANGED <<storeVars, clock, stats, tick, frames, late>>

ResetStats(s) ==
  /\ setter[s].pc = "reset"
  /\ stats' = NoStats
  /\ setter' = [setter EXCEPT ![s].pc = "visit"]
  /\ UNCHANGED <<storeVars, clock, evaluator, tick, frames, updates, history>>

\* Mutant of ReEvaluate: it records the decisions of before.
ReEvaluateStale(s) ==
  /\ setter[s].pc = "visit"
  /\ StoreFree
  /\ LET counted == InOrder(order, Decided)
     IN setter' = [setter EXCEPT
          ![s] = IF counted = << >> THEN Resting
                 ELSE [@ EXCEPT !.pc = "record",
                                !.todo = [i \in DOMAIN counted |-> byID[counted[i]].decision]]]
  /\ Store!ForEachMutate([id \in Store!Retained |->
                            Evaluate(setter[s].ev, byID[id].spans)])
  /\ UNCHANGED <<clock, evaluator, stats, tick, frames, updates, history>>

\* ForEachMutate re-evaluates every trace; todo keeps the results it will
\* record, for the traces that are DECIDED, before it gives Store.mu back.
ReEvaluate(s) ==
  /\ setter[s].pc = "visit"
  /\ StoreFree
  /\ LET visit == [id \in Store!Retained |-> Evaluate(setter[s].ev, byID[id].spans)]
         counted == InOrder(order, { id \in Decided : visit[id] # "ERROR" })
     IN /\ Store!ForEachMutate(visit)
        /\ setter' = [setter EXCEPT
             ![s] = IF counted = << >> THEN Resting
                    ELSE [@ EXCEPT !.pc = "record",
                                   !.todo = [i \in DOMAIN counted |-> visit[counted[i]]]]]
  /\ UNCHANGED <<clock, evaluator, stats, tick, frames, updates, history>>

RecordReEvaluated(s) ==
  /\ setter[s].pc = "record"
  /\ Record(Head(setter[s].todo))
  /\ LET rest == Tail(setter[s].todo)
     IN setter' = [setter EXCEPT
          ![s] = IF rest = << >> THEN Resting ELSE [@ EXCEPT !.todo = rest]]
  /\ UNCHANGED <<storeVars, clock, evaluator, tick, frames, updates, history>>

-----------------------------------------------------------------------------
DecideDue == ReadEvaluator \/ CollectDue \/ Decide \/ RecordDecision

SetPolicy(s) ==
  SwapEvaluator(s) \/ ResetStats(s) \/ ReEvaluate(s) \/ RecordReEvaluated(s)

Next ==
  \/ TimePasses
  \/ ReceiveFrame
  \/ DecideDue
  \/ \E s \in Setter : SetPolicy(s)

Spec == Init /\ [][Next]_vars

\* The ticker keeps firing, a started SetPolicy runs to its end, time passes.
Fairness ==
  /\ WF_vars(TimePasses)
  /\ WF_vars(DecideDue)
  /\ \A s \in Setter :
       WF_vars(ResetStats(s) \/ ReEvaluate(s) \/ RecordReEvaluated(s))

FairSpec == Spec /\ Fairness

-----------------------------------------------------------------------------
Copy == [id : TraceID, spans : SUBSET Span]
Pending == { id \in Store!Retained : byID[id].state # "DECIDED" }
\* Decided traces on which no policy fails.
Evaluable == { id \in Decided : \A p \in Policy : byID[id].spans \cap FailsOn[p] = {} }

TypeOK ==
  /\ Store!TypeOK
  /\ evaluator \in Policy
  /\ stats \in [observed : Nat, keep : Nat, drop : Nat]
  /\ tick \in [pc : {"idle", "due", "decide", "record"},
               ev : Policy \cup {None}, now : Nat, due : Seq(Copy),
               result : Verdicts]
  /\ setter \in [Setter -> [pc : {"idle", "reset", "visit", "record"},
                            ev : Policy \cup {None}, todo : Seq(Verdicts)]]
  /\ frames \in Nat /\ updates \in Nat
  /\ overlap \in BOOLEAN /\ late \subseteq TraceID

\* No SetPolicy is between its swap of the evaluator and its re-evaluation.
PolicyInForce == \A s \in Setter : setter[s].pc \in {"idle", "record"}

\* No result is applied to the store and still to be recorded.
StatsSettled == tick.pc # "record" /\ \A s \in Setter : setter[s].pc = "idle"

\* A decided trace shows what the policy in force concludes from all of its
\* spans, across every reopening, eviction and policy update that did not
\* replace the evaluator under a running decideDue or SetPolicy, unless its
\* spans changed under the copy being decided (server.go:108-161).
DecisionsFollowPolicy ==
  PolicyInForce /\ ~ overlap =>
    \A id \in Decided \ late :
      Evaluate(evaluator, byID[id].spans) \in {byID[id].decision, "ERROR"}

\* A trace flipped to READY is on decideDue's list, or its evaluation failed:
\* no other interleaving can leave it where DueForDecision never looks again
\* (store.go:117, server.go:119-131).
ReadyIsPending ==
  \A id \in Store!Retained :
    byID[id].state = "READY" =>
      \/ id \in Copied
      \/ \E p \in Policy : byID[id].spans \cap FailsOn[p] # {}

\* No trace is decided before a decision_wait has passed since its first
\* span, eviction and return of the same identifier included, unless its
\* spans changed under the copy being decided (store.go:120).
NoEarlyDecision ==
  \A id \in Decided \ late :
    \E p \in Policy : clock - byID[id].firstSeen >= Wait[p]

\* Whatever races, no decided trace that is retained is missing from the
\* statistics once they settle, but those SetPolicy failed to re-evaluate, and
\* each is counted under the verdict it shows, even if that is the verdict of a
\* replaced evaluator (server.go:125-129, 149-161).
StatsMatchVerdicts ==
  StatsSettled =>
    /\ stats.observed >= Cardinality(Evaluable)
    /\ stats.keep >= Cardinality({ id \in Evaluable : byID[id].decision = "KEEP" })
    /\ stats.drop >= Cardinality({ id \in Evaluable : byID[id].decision = "DROP" })

\* The preview as its users see it.
Phase(id) ==
  IF id \notin Store!Retained THEN "absent"
  ELSE IF byID[id].state = "DECIDED" THEN byID[id].decision ELSE "pending"

Preview == INSTANCE PreviewLifecycle WITH
  Reviewer <- Setter,
  arrivals <- frames,
  phase <- [id \in TraceID |-> Phase(id)],
  reviewing <- { s \in Setter : setter[s].pc \in {"reset", "visit"} }

\* It keeps the promises of PreviewLifecycle: a verdict is given to a trace that
\* waits, and nothing but new spans, eviction and the one review of a SetPolicy
\* takes it back (server.go:108-161, store.go:80-97).
ImplementsPreview == Preview!Spec

\* Every trace is decided or evicted in the end, however often late spans
\* reopen it (server.go:87-98, 108-133).
EventuallyDecided ==
  \A id \in TraceID : id \in Pending ~> id \notin Pending

-----------------------------------------------------------------------------
\* Without the provisos: once no SetPolicy and no decideDue is running, every
\* decided trace shows what the policy in force concludes from all of its
\* spans.  SetPolicy "immediately re-evaluates every retained trace"
\* (server.go:135-136), and late spans "re-open the trace for a fresh decision
\* rather than silently discarding them" (store.go:81-82).
AlwaysFollowPolicy ==
  PolicyInForce /\ tick.pc = "idle" =>
    \A id \in Decided : Evaluate(evaluator, byID[id].spans) = byID[id].decision
=============================================================================
