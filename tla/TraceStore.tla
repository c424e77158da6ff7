----------------------------- MODULE TraceStore -----------------------------
(***************************************************************************)
(* The in-memory ring buffer of internal/trace/store.go.                   *)
(*                                                                         *)
(* Every method of Store takes s.mu for its whole body, so each is one     *)
(* action here.  byID is the map and order the linked list threaded        *)
(* through it; a group of spans that one frame carries for one trace is a  *)
(* member of Span, and SpanSize is what approxSizeBytes adds up for it.    *)
(* The instant is a parameter of the methods: their callers read the clock *)
(* before they wait for s.mu, so it may lag behind clock by up to MaxLag.  *)
(***************************************************************************)
EXTENDS Integers, FiniteSets, Sequences, SequencesExt

CONSTANTS
  TraceID,      \* trace identifiers
  Span,         \* span groups a frame may carry for a trace
  SpanSize,     \* approximate bytes of each group
  MaxTraces, MaxAge, MaxMemory,   \* StoreConfig
  DecisionWaits,\* decision_wait of the policies that may be in force
  MaxBatch,     \* traces in one frame at most
  MaxLag,       \* how long a caller may wait for s.mu with its instant
  MaxClock, MaxEvicted            \* bounds of the exploration

ASSUME StoreAssumption ==
  /\ SpanSize \in [Span -> Nat \ {0}]
  /\ MaxTraces \in Nat \ {0}
  /\ MaxAge \in Nat \ {0}
  /\ MaxMemory \in Nat \ {0}
  /\ DecisionWaits \subseteq Nat
  /\ MaxBatch \in Nat
  /\ MaxLag \in Nat
  /\ MaxClock \in Nat
  /\ MaxEvicted \in Nat

VARIABLES
  byID,       \* retained aggregates, a function on the retained identifiers
  order,      \* identifiers from the next to evict to the last touched
  totalBytes, \* approximate bytes retained
  evicted,    \* aggregates dropped so far
  clock       \* what time.Now() returns

storeVars == <<byID, order, totalBytes, evicted>>
vars == <<byID, order, totalBytes, evicted, clock>>

States == {"RECEIVING", "READY", "DECIDED", "EXPIRED"}
Decisions == {"PENDING", "KEEP", "DROP"}

Trace == [firstSeen : Nat, lastSeen : Nat, spans : SUBSET Span,
          sizeBytes : Nat, state : States, decision : Decisions]

\* The frames Assemble can produce: distinct traces in the order in which
\* ranging over the Go map visits them, each with a group of spans.
Batches ==
  { ids \in BoundedSeq(TraceID, MaxBatch) : IsInjective(ids) }

-----------------------------------------------------------------------------
Retained == DOMAIN byID

SizeOf(traces) == [id \in DOMAIN traces |-> traces[id].sizeBytes]

\* Mutants of Merge: the size of a group is added twice, replaces what the
\* trace held before, or the group does not reopen a decided trace.
MergeTwice(now, id, span) ==
  [firstSeen |-> IF id \in Retained THEN byID[id].firstSeen ELSE now,
   lastSeen |-> now, spans |-> {span},
   sizeBytes |-> IF id \in Retained THEN byID[id].sizeBytes + 2 * SpanSize[span]
                 ELSE SpanSize[span],
   state |-> "RECEIVING", decision |-> "PENDING"]
MergeReplaced(now, id, span) ==
  [firstSeen |-> IF id \in Retained THEN byID[id].firstSeen ELSE now,
   lastSeen |-> now, spans |-> {span}, sizeBytes |-> SpanSize[span],
   state |-> "RECEIVING", decision |-> "PENDING"]
MergeClosed(now, id, span) ==
  IF id \in Retained
  THEN [byID[id] EXCEPT !.spans = @ \cup {span}, !.lastSeen = now,
                        !.sizeBytes = @ + SpanSize[span]]
  ELSE [firstSeen |-> now, lastSeen |-> now, spans |-> {span},
        sizeBytes |-> SpanSize[span],
        state |-> "RECEIVING", decision |-> "PENDING"]

\* The aggregate of id once the spans of a frame are merged into it.
Merge(now, id, span) ==
  IF id \in Retained
  THEN [byID[id] EXCEPT
          !.spans = @ \cup {span},
          !.lastSeen = now,
          !.sizeBytes = @ + SpanSize[span],
          !.state = IF @ \in {"DECIDED", "EXPIRED"} THEN "RECEIVING" ELSE @]
  ELSE [firstSeen |-> now, lastSeen |-> now, spans |-> {span},
        sizeBytes |-> SpanSize[span],
        state |-> "RECEIVING", decision |-> "PENDING"]

\* Mutants of MoveToBack: without MoveToBack, or with PushBack in its place.
MoveToBackUnmoved(q, id) == IF id \in Range(q) THEN q ELSE Append(q, id)
MoveToBackTwice(q, id) == Append(q, id)

\* MoveToBack when the list holds id, PushBack when it does not.
MoveToBack(q, id) ==
  IF id \in Range(q)
  THEN LET i == CHOOSE j \in DOMAIN q : q[j] = id
       IN Append(RemoveAt(q, i), id)
  ELSE Append(q, id)

\* The list once the traces of a frame are touched in turn.
ToBack(ids) ==
  LET q[n \in 0 .. Len(ids)] ==
        IF n = 0 THEN order ELSE MoveToBack(q[n - 1], ids[n])
  IN q[Len(ids)]

\* Mutants of OverLimit: one limit is not looked at.
OverLimitUncounted(now, front, count, bytes) ==
  now - front.lastSeen > MaxAge \/ bytes > MaxMemory
OverLimitAgeless(now, front, count, bytes) ==
  count > MaxTraces \/ bytes > MaxMemory

\* Some limit is exceeded with front at the front of a list of count traces
\* and bytes bytes.
OverLimit(now, front, count, bytes) ==
  \/ count > MaxTraces
  \/ now - front.lastSeen > MaxAge
  \/ bytes > MaxMemory

\* The eviction loop on the list q of traces holding total bytes: it drops
\* the front until the list is empty or no limit is exceeded.
EvictLocked(now, traces, q, total) ==
  LET Freed(n) == SumFunctionOnSet(SizeOf(traces), Range(SubSeq(q, 1, n)))
      dropped == Min({ n \in 0 .. Len(q) :
                         n < Len(q) => ~ OverLimit(now, traces[q[n + 1]],
                                                   Len(q) - n, total - Freed(n)) })
  IN /\ order' = SubSeq(q, dropped + 1, Len(q))
     /\ byID' = Restrict(traces, Range(order'))
     /\ totalBytes' = total - Freed(dropped)
     /\ evicted' = evicted + dropped

Ingest(now, ids, spans) ==
  LET traces == [id \in Retained \cup Range(ids) |->
                   IF id \in Range(ids) THEN Merge(now, id, spans[id])
                                        ELSE byID[id]]
      added == SumFunctionOnSet([id \in Range(ids) |-> SpanSize[spans[id]]],
                                Range(ids))
  IN EvictLocked(now, traces, ToBack(ids), totalBytes + added)

\* Mutants of Due: an off-by-one, a test that a late tick misses, and traces
\* that were decided before.
DueSoon(now, wait) ==
  { id \in Retained : /\ byID[id].state = "RECEIVING"
                      /\ now - byID[id].firstSeen >= wait - 1 }
DueExactly(now, wait) ==
  { id \in Retained : /\ byID[id].state = "RECEIVING"
                      /\ now - byID[id].firstSeen = wait }

DueAgain(now, wait) ==
  { id \in Retained : now - byID[id].firstSeen >= wait }

\* The traces DueForDecision returns, and flips to READY.
Due(now, wait) ==
  { id \in Retained : /\ byID[id].state = "RECEIVING"
                      /\ now - byID[id].firstSeen >= wait }

DueForDecision(now, wait) ==
  /\ byID' = [id \in Retained |->
                IF id \in Due(now, wait)
                THEN [byID[id] EXCEPT !.state = "READY"] ELSE byID[id]]
  /\ UNCHANGED <<order, totalBytes, evicted>>

ApplyDecision(id, decision) ==
  /\ byID' = IF id \in Retained
             THEN [byID EXCEPT ![id].decision = decision,
                               ![id].state = "DECIDED"]
             ELSE byID
  /\ UNCHANGED <<order, totalBytes, evicted>>

\* Mutants of ForEachMutate: a failed evaluation overwrites the decision, or
\* decided traces are passed over.
ForEachMutateFailed(visit) ==
  /\ byID' = [id \in Retained |-> [byID[id] EXCEPT !.decision = visit[id]]]
  /\ UNCHANGED <<order, totalBytes, evicted>>
ForEachMutatePending(visit) ==
  /\ byID' = [id \in Retained |->
                IF visit[id] = "ERROR" \/ byID[id].state = "DECIDED" THEN byID[id]
                ELSE [byID[id] EXCEPT !.decision = visit[id]]]
  /\ UNCHANGED <<order, totalBytes, evicted>>

\* ForEachMutate with the callback SetPolicy gives it: visit holds the
\* verdict on every retained trace, "ERROR" when the evaluation failed.
ForEachMutate(visit) ==
  /\ byID' = [id \in Retained |->
                IF visit[id] = "ERROR" THEN byID[id]
                ELSE [byID[id] EXCEPT !.decision = visit[id]]]
  /\ UNCHANGED <<order, totalBytes, evicted>>

-----------------------------------------------------------------------------
Init ==
  /\ byID = [id \in {} |-> 0]
  /\ order = << >>
  /\ totalBytes = 0
  /\ evicted = 0
  /\ clock = 0

Tick ==
  /\ clock < MaxClock
  /\ clock' = clock + 1
  /\ UNCHANGED storeVars

Instants == { now \in clock - MaxLag .. clock : now >= 0 }

Frame ==
  /\ evicted < MaxEvicted
  /\ \E now \in Instants, ids \in Batches :
       \E spans \in [Range(ids) -> Span] : Ingest(now, ids, spans)
  /\ UNCHANGED clock

\* Its caller may have read the clock at any time before.
Sweep ==
  /\ \E now \in 0 .. clock, wait \in DecisionWaits : DueForDecision(now, wait)
  /\ UNCHANGED clock

Verdict ==
  /\ \E id \in TraceID, decision \in {"KEEP", "DROP"} :
       ApplyDecision(id, decision)
  /\ UNCHANGED clock

PolicyUpdate ==
  /\ \E visit \in [Retained -> {"KEEP", "DROP", "ERROR"}] :
       ForEachMutate(visit)
  /\ UNCHANGED clock

Next == Tick \/ Frame \/ Sweep \/ Verdict \/ PolicyUpdate

Spec == Init /\ [][Next]_vars

-----------------------------------------------------------------------------
TypeOK ==
  /\ Retained \subseteq TraceID
  /\ byID \in [Retained -> Trace]
  /\ order \in Seq(TraceID)
  /\ totalBytes \in Nat
  /\ evicted \in Nat
  /\ clock \in Nat

\* The list and the map always hold the same traces, each once: an entry in
\* one only would leak, or be evicted twice (removeLocked, store.go:236-242).
IndexConsistent ==
  /\ IsInjective(order)
  /\ Range(order) = Retained

\* totalBytes is exactly what the retained traces add up to, however they
\* grew, moved and went; otherwise the unsigned subtraction of removeLocked
\* (store.go:238) drifts or wraps and the memory limit evicts everything.
BytesAccounted == totalBytes = SumFunction(SizeOf(byID))

\* No call of Ingest leaves more than MaxTraces traces or MaxMemory bytes
\* behind, whatever one frame brought (store.go:101, 218-234).
WithinLimits ==
  /\ Len(order) <= MaxTraces
  /\ totalBytes <= MaxMemory

\* The list is ordered by recency up to MaxLag, so its front is the best
\* candidate for eviction or as good as the best (store.go:214-217): callers
\* that read the clock before they wait for s.mu may overtake one another.
RecencyOrder ==
  \A i, j \in 1 .. Len(order) :
    i <= j => byID[order[i]].lastSeen <= byID[order[j]].lastSeen + MaxLag

\* Nothing older than MaxAge outlives a call of Ingest that added, moved or
\* dropped a trace, up to the lag of its caller and of the one whose trace is
\* in front (store.go:227).
FreshAfterIngest ==
  [][<<order, totalBytes>>' # <<order, totalBytes>> =>
       \A id \in Retained' : clock - byID'[id].lastSeen <= MaxAge + 2 * MaxLag]_vars
=============================================================================
