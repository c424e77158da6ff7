------------------------ MODULE DecisionEngineProofs ------------------------
(***************************************************************************)
(* Proofs about DecisionEngine, for any traces, policies, limits of the    *)
(* store and number of SetPolicy callers.                                  *)
(***************************************************************************)
EXTENDS DecisionEngine, FiniteSums, SequenceTheorems

\* What is proved about the store.
P == INSTANCE TraceStoreProofs WITH DecisionWaits <- Range(Wait)

\* The engine's parameters are what TraceStoreProofs assumes of the store's.
LEMMA StoreAssumed ==
  /\ SpanSize \in [Span -> Nat \ {0}]
  /\ MaxTraces \in Nat \ {0}
  /\ MaxAge \in Nat \ {0}
  /\ MaxMemory \in Nat \ {0}
  /\ Range(Wait) \subseteq Nat
  /\ MaxBatch \in Nat
  /\ MaxLag \in Nat
  /\ MaxClock \in Nat
  /\ MaxEvicted \in Nat
  BY EngineAssumption DEF EngineAssumption, Range

-----------------------------------------------------------------------------
(* Store and P are instances of the same module. *)

LEMMA SameRange == \A f : Store!Range(f) = Range(f) /\ P!Range(f) = Range(f)
  BY DEF Store!Range, P!Range, Range

LEMMA SameToBack == \A ids : Store!ToBack(ids) = P!ToBack(ids)
  <1>1. \A q, id : Store!MoveToBack(q, id) = P!MoveToBack(q, id)
    BY DEF Store!MoveToBack, P!MoveToBack, Store!Range, P!Range, Store!RemoveAt, P!RemoveAt
  <1> QED
    BY <1>1 DEF Store!ToBack, P!ToBack

LEMMA SameMerge == \A now, id, span : Store!Merge(now, id, span) = P!Merge(now, id, span)
  BY DEF Store!Merge, P!Merge, Store!Retained, P!Retained

LEMMA SameSum == \A f, S : Store!SumFunctionOnSet(f, S) = P!SumFunctionOnSet(f, S)
  BY DEF Store!SumFunctionOnSet, P!SumFunctionOnSet, Store!FoldFunctionOnSet,
         P!FoldFunctionOnSet, Store!MapThenFoldSet, P!MapThenFoldSet

LEMMA SameEvict ==
  ASSUME NEW now, NEW traces, NEW q, NEW total
  PROVE  Store!EvictLocked(now, traces, q, total) <=> P!EvictLocked(now, traces, q, total)
  BY DEF Store!EvictLocked, P!EvictLocked, Store!OverLimit, P!OverLimit, Store!SizeOf, P!SizeOf,
     Store!SumFunctionOnSet, P!SumFunctionOnSet, Store!FoldFunctionOnSet,
     P!FoldFunctionOnSet, Store!MapThenFoldSet, P!MapThenFoldSet, Store!Min, P!Min,
     Store!Range, P!Range, Store!Restrict, P!Restrict

LEMMA SameIngest ==
  ASSUME NEW now, NEW ids, NEW spans
  PROVE  Store!Ingest(now, ids, spans) <=> P!Ingest(now, ids, spans)
  BY SameRange, SameToBack, SameMerge, SameSum, SameEvict
     DEF Store!Ingest, P!Ingest, Store!Retained, P!Retained


\* A step of one is a step of the other.
LEMMA SameNext == [Store!Next]_(Store!vars) <=> [P!Next]_(P!vars)
  <1>1. Store!Batches = P!Batches /\ Store!Instants = P!Instants
    BY DEF Store!Batches, P!Batches, Store!Instants, P!Instants, Store!BoundedSeq,
       P!BoundedSeq, Store!SeqOf, P!SeqOf, Store!IsInjective, P!IsInjective
  <1>2. Store!Frame <=> P!Frame
    BY <1>1, SameIngest, SameRange DEF Store!Frame, P!Frame
  <1>3. Store!Tick <=> P!Tick
    BY DEF Store!Tick, P!Tick, Store!storeVars, P!storeVars
  <1>4. Store!Sweep <=> P!Sweep
    BY DEF Store!Sweep, P!Sweep, Store!DueForDecision, P!DueForDecision, Store!Due, P!Due,
       Store!Retained, P!Retained
  <1>5. Store!Verdict <=> P!Verdict
    BY DEF Store!Verdict, P!Verdict, Store!ApplyDecision, P!ApplyDecision,
       Store!Retained, P!Retained
  <1>6. Store!PolicyUpdate <=> P!PolicyUpdate
    BY DEF Store!PolicyUpdate, P!PolicyUpdate, Store!ForEachMutate, P!ForEachMutate,
       Store!Retained, P!Retained
  <1>7. Store!vars = P!vars
    BY DEF Store!vars, P!vars
  <1> QED
    BY <1>2, <1>3, <1>4, <1>5, <1>6, <1>7 DEF Store!Next, P!Next, Store!vars, P!vars

LEMMA SameType == Store!TypeOK <=> P!TypeOK
  BY DEF Store!TypeOK, P!TypeOK, Store!Retained, P!Retained, Store!Trace, P!Trace,
     Store!States, P!States, Store!Decisions, P!Decisions

-----------------------------------------------------------------------------
\* A walk along a list of distinct traces finds each trace of the set once.
LEMMA InOrderFinds ==
  ASSUME NEW q \in Seq(TraceID), IsInjective(q), NEW S
  PROVE  /\ InOrder(q, S) \in Seq(TraceID)
         /\ IsInjective(InOrder(q, S))
         /\ Range(InOrder(q, S)) = Range(q) \cap S
  <1> DEFINE More(r, id) == IF id \in S THEN Append(r, id) ELSE r
             Step(n, g) == [k \in 0 .. n |-> IF k = 0 THEN << >> ELSE More(g[k - 1], q[k])]
             Seen(n) == { q[k] : k \in 1 .. n }
             Good(r, n) == /\ r \in Seq(TraceID) /\ IsInjective(r)
                           /\ Range(r) = Seen(n) \cap S
             N == { n \in Nat : n <= Len(q) => \E g : g = Step(n, g) }
             found == CHOOSE g : g = Step(Len(q), g)
             M == { n \in Nat : n <= Len(q) => Good(found[n], n) }
  <1>0. InOrder(q, S) = found[Len(q)]
    BY DEF InOrder
  <1> HIDE DEF More
  <1>1. Len(q) \in N
    <2>1. 0 \in N
      <3>1. [k \in 0 .. 0 |-> << >>] = Step(0, [k \in 0 .. 0 |-> << >>])
        OBVIOUS
      <3> QED
        BY <3>1
    <2>2. ASSUME NEW n \in Nat, n \in N PROVE n + 1 \in N
      <3> SUFFICES ASSUME n + 1 <= Len(q) PROVE \E g : g = Step(n + 1, g)
        OBVIOUS
      <3>1. PICK g : g = Step(n, g)
        BY <2>2
      <3> DEFINE h == Step(n + 1, g)
      <3>2. \A k \in 0 .. n : h[k] = g[k]
        BY <3>1
      <3>3. \A k \in 1 .. n + 1 : More(h[k - 1], q[k]) = More(g[k - 1], q[k])
        <4> SUFFICES ASSUME NEW k \in 1 .. n + 1 PROVE h[k - 1] = g[k - 1]
          OBVIOUS
        <4>1. k - 1 \in 0 .. n
          OBVIOUS
        <4> QED
          BY <3>2, <4>1
      <3>4. h = Step(n + 1, h)
        <4> HIDE <3>2
        <4> QED
          BY <3>3
      <3> QED
        BY <3>4
    <2> HIDE DEF N
    <2>3. Nat \subseteq N
      BY <2>1, <2>2, NatInSet
    <2> QED
      BY <2>3
  <1>2. found = Step(Len(q), found)
    BY <1>1
  <1> HIDE DEF found
  <1>4. /\ found[0] = << >>
        /\ \A n \in Nat : n + 1 <= Len(q) =>
             found[n + 1] = More(found[n], q[n + 1])
    <2> DEFINE s == Step(Len(q), found)
    <2>1. s[0] = << >>
      OBVIOUS
    <2>2. ASSUME NEW n \in Nat, n + 1 <= Len(q)
          PROVE  s[n + 1] = More(found[n], q[n + 1])
      BY <2>2
    <2> HIDE DEF s
    <2> QED
      BY <1>2, <2>1, <2>2 DEF s
  <1>5. 0 \in M
    <2>1. << >> \in Seq(TraceID) /\ IsInjective(<< >>) /\ Range(<< >>) = {} /\ Seen(0) = {}
      BY DEF IsInjective, Range
    <2> QED
      BY <1>4, <2>1
  <1>6. ASSUME NEW n \in Nat, n \in M PROVE n + 1 \in M
    <2> SUFFICES ASSUME n + 1 <= Len(q) PROVE Good(found[n + 1], n + 1)
      OBVIOUS
    <2> DEFINE r == found[n]  id == q[n + 1]
    <2>1. r \in Seq(TraceID) /\ IsInjective(r) /\ Range(r) = Seen(n) \cap S
      BY <1>6
    <2>2. id \in TraceID
      OBVIOUS
    <2>3. Seen(n + 1) = Seen(n) \cup {id}
      <3>1. \A k \in 1 .. n + 1 : k \in 1 .. n \/ k = n + 1
        OBVIOUS
      <3> QED
        BY <3>1
    <2>4. id \notin Seen(n)
      <3>1. \A k \in 1 .. n : k \in DOMAIN q /\ n + 1 \in DOMAIN q /\ k # n + 1
        OBVIOUS
      <3> QED
        BY <3>1 DEF IsInjective
    <2>5. found[n + 1] = IF id \in S THEN Append(r, id) ELSE r
      BY <1>4 DEF More
    <2> HIDE DEF Seen, r, id
    <2>6. CASE id \notin S
      BY <2>1, <2>3, <2>5, <2>6
    <2>7. CASE id \in S
      <3> DEFINE a == Append(r, id)
      <3>1. /\ a \in Seq(TraceID) /\ Len(a) = Len(r) + 1
            /\ \A k \in 1 .. Len(r) : a[k] = r[k] /\ r[k] \in Range(r)
            /\ a[Len(r) + 1] = id
        BY <2>1, <2>2 DEF Range
      <3>2. id \notin Range(r)
        BY <2>1, <2>4
      <3> HIDE DEF a
      <3>3. Range(a) = Range(r) \cup {id}
        <4>1. DOMAIN a = 1 .. Len(r) + 1 /\ DOMAIN r = 1 .. Len(r) /\ Len(r) \in Nat
          BY <2>1, <3>1
        <4>2. ASSUME NEW e \in Range(a) PROVE e \in Range(r) \cup {id}
          BY <3>1, <4>1 DEF Range
        <4>3. ASSUME NEW e \in Range(r) PROVE e \in Range(a)
          <5>1. PICK k \in 1 .. Len(r) : e = r[k]
            BY <4>1 DEF Range
          <5>2. k \in DOMAIN a /\ a[k] = e
            BY <3>1, <4>1, <5>1
          <5> QED
            BY <5>2 DEF Range
        <4>4. id \in Range(a)
          <5>1. Len(r) + 1 \in DOMAIN a
            BY <4>1
          <5> QED
            BY <3>1, <5>1 DEF Range
        <4> QED
          BY <4>2, <4>3, <4>4
      <3>4. IsInjective(a)
        <4> SUFFICES ASSUME NEW i \in DOMAIN a, NEW j \in DOMAIN a, a[i] = a[j] PROVE i = j
          BY DEF IsInjective
        <4>1. DOMAIN a = 1 .. Len(r) + 1 /\ DOMAIN r = 1 .. Len(r) /\ Len(r) \in Nat
          BY <2>1, <3>1
        <4>2. CASE i \in 1 .. Len(r) /\ j \in 1 .. Len(r)
          BY <2>1, <3>1, <4>1, <4>2 DEF IsInjective
        <4>3. CASE i = Len(r) + 1 \/ j = Len(r) + 1
          BY <3>1, <3>2, <4>1, <4>3
        <4> QED
          BY <4>1, <4>2, <4>3
      <3> QED
        BY <2>1, <2>3, <2>5, <2>7, <3>1, <3>3, <3>4 DEF a
    <2> QED
      BY <2>6, <2>7
  <1> HIDE DEF M
  <1>7. Nat \subseteq M
    BY <1>5, <1>6, NatInSet
  <1>8. Good(found[Len(q)], Len(q))
    <2>1. Len(q) \in M
      BY <1>7
    <2> QED
      BY <2>1 DEF M
  <1>9. Seen(Len(q)) = Range(q)
    BY DEF Range
  <1> QED
    BY <1>0, <1>8, <1>9

-----------------------------------------------------------------------------
(* What holds in every state: types, the store's invariant, and where the  *)
(* goroutines stand.                                                       *)

Result == {"KEEP", "DROP"}

Typed ==
  /\ P!StoreInv
  /\ evaluator \in Policy
  /\ stats \in [observed : Nat, keep : Nat, drop : Nat]
  /\ tick \in [pc : {"idle", "due", "decide", "record"},
               ev : Policy \cup {None}, now : Nat, due : Seq(Copy),
               result : Verdicts]
  /\ setter \in [Setter -> [pc : {"idle", "reset", "visit", "record"},
                            ev : Policy \cup {None}, todo : Seq(Verdicts)]]
  /\ frames \in Nat /\ updates \in Nat
  /\ overlap \in BOOLEAN /\ late \subseteq TraceID

\* The ticker holds copies exactly while it decides, by a policy set and an
\* instant it has read.
TickPlaced ==
  /\ tick.pc # "idle" => tick.ev \in Policy /\ tick.now <= clock
  /\ tick.pc = "decide" => tick.due # << >>
  /\ tick.pc \in {"idle", "due"} => tick.due = << >>
  /\ tick.pc = "record" => tick.result \in Result

\* A SetPolicy that records has verdicts to record, and it is the only one.
SettersPlaced ==
  /\ \A s \in Setter :
       /\ setter[s].pc # "idle" => setter[s].ev \in Policy
       /\ setter[s].pc = "record" => setter[s].todo # << >>
       /\ setter[s].todo \in Seq(Result)
  /\ \A s, u \in Setter : setter[s].pc = "record" /\ setter[u].pc = "record" => s = u

EngineInv == Typed /\ TickPlaced /\ SettersPlaced

\* What the store's invariant says of the traces.
LEMMA StoreFacts ==
  ASSUME P!StoreInv
  PROVE  /\ Store!Retained = DOMAIN byID /\ P!Retained = DOMAIN byID
         /\ DOMAIN byID \subseteq TraceID
         /\ byID \in [DOMAIN byID -> Store!Trace]
         /\ order \in Seq(TraceID) /\ IsInjective(order) /\ Range(order) = DOMAIN byID
         /\ clock \in Nat
  BY SameRange DEF P!StoreInv, P!TypeOK, P!IndexConsistent, Store!Retained, P!Retained,
     P!Trace, Store!Trace, P!States, Store!States, P!Decisions, Store!Decisions,
     P!IsInjective, IsInjective

LEMMA EvaluateVerdict ==
  ASSUME NEW p, NEW spans
  PROVE  Evaluate(p, spans) \in Verdicts
  BY DEF Evaluate, Verdicts

-----------------------------------------------------------------------------
\* The engine changes the store through its methods only.
LEMMA StoreSteps ==
  ASSUME EngineInv, [Next]_vars
  PROVE  [Store!Next]_(Store!vars)
  <1>0. /\ Store!Retained = DOMAIN byID /\ DOMAIN byID \subseteq TraceID /\ clock \in Nat
        /\ tick.now \in Nat /\ tick.due \in Seq(Copy)
    BY StoreFacts DEF EngineInv, Typed
  <1>1. CASE TimePasses
    BY <1>1 DEF TimePasses, Store!Next
  <1>2. CASE ReceiveFrame
    <2>1. PICK now \in Store!Instants, ids \in Store!Batches :
            \E spans \in [Range(ids) -> Span] : Store!Ingest(now, ids, spans)
      BY <1>2 DEF ReceiveFrame
    <2>2. evicted < MaxEvicted /\ UNCHANGED clock
      BY <1>2 DEF ReceiveFrame
    <2>3. Store!Frame
      BY <2>1, <2>2, SameRange DEF Store!Frame
    <2> QED
      BY <2>3 DEF Store!Next
  <1>3. CASE CollectDue
    <2>1. tick.now \in 0 .. clock /\ tick.ev \in Policy
      BY <1>0, <1>3 DEF CollectDue, EngineInv, TickPlaced
    <2>2. Wait[tick.ev] \in Range(Wait)
      BY <2>1, EngineAssumption DEF EngineAssumption, Range
    <2>3. Store!Sweep
      BY <1>3, <2>1, <2>2 DEF CollectDue, Store!Sweep
    <2> QED
      BY <2>3 DEF Store!Next
  <1>4. CASE Decide
    <2> DEFINE t == Head(tick.due)
               verdict == Evaluate(tick.ev, t.spans)
    <2>1. t \in Copy
      BY <1>0, <1>4 DEF Decide, EngineInv, TickPlaced
    <2>2. verdict \in Verdicts
      BY EvaluateVerdict
    <2>3. UNCHANGED clock
      BY <1>4 DEF Decide
    <2>4. CASE verdict # "ERROR" /\ Store!ApplyDecision(t.id, verdict)
      <3>1. t.id \in TraceID /\ verdict \in {"KEEP", "DROP"}
        BY <2>1, <2>2, <2>4 DEF Copy, Verdicts
      <3>2. Store!Verdict
        BY <2>3, <2>4, <3>1 DEF Store!Verdict
      <3> QED
        BY <3>2 DEF Store!Next
    <2>5. CASE UNCHANGED storeVars
      BY <2>3, <2>5 DEF storeVars, Store!vars
    <2> QED
      BY <1>4, <2>4, <2>5 DEF Decide
  <1>5. ASSUME NEW s \in Setter, ReEvaluate(s) PROVE [Store!Next]_(Store!vars)
    <2> DEFINE visit == [id \in Store!Retained |-> Evaluate(setter[s].ev, byID[id].spans)]
    <2>1. visit \in [Store!Retained -> {"KEEP", "DROP", "ERROR"}]
      BY EvaluateVerdict DEF Verdicts
    <2>2. Store!ForEachMutate(visit) /\ UNCHANGED clock
      BY <1>5 DEF ReEvaluate
    <2> HIDE DEF visit
    <2>3. Store!PolicyUpdate
      BY <2>1, <2>2 DEF Store!PolicyUpdate
    <2> QED
      BY <2>3 DEF Store!Next
  <1>6. CASE UNCHANGED <<storeVars, clock>>
    BY <1>6 DEF storeVars, Store!vars
  <1>7. ReadEvaluator \/ RecordDecision => UNCHANGED <<storeVars, clock>>
    BY DEF ReadEvaluator, RecordDecision
  <1>8. \A s \in Setter : SwapEvaluator(s) \/ ResetStats(s) \/ RecordReEvaluated(s) =>
          UNCHANGED <<storeVars, clock>>
    BY DEF SwapEvaluator, ResetStats, RecordReEvaluated
  <1>9. UNCHANGED vars => UNCHANGED <<storeVars, clock>>
    BY DEF vars, storeVars
  <1> QED
    BY <1>1, <1>2, <1>3, <1>4, <1>5, <1>6, <1>7, <1>8, <1>9 DEF Next, DecideDue, SetPolicy

LEMMA StoreInvKept ==
  ASSUME EngineInv, [Next]_vars
  PROVE  P!StoreInv'
  <1>1. [P!Next]_(P!vars)
    BY StoreSteps, SameNext
  <1> QED
    BY <1>1, P!StoreInvNext, StoreAssumed DEF EngineInv, Typed

\* What a frame leaves behind: the traces it touched are undecided, and READY
\* only if they were, with the spans they had; the others are as they were.
LEMMA FrameEffect ==
  ASSUME Typed, ReceiveFrame
  PROVE  \E touched \in SUBSET TraceID :
           /\ late' = late \cup (touched \cap Copied)
           /\ \A id \in DOMAIN byID' \ touched : id \in DOMAIN byID /\ byID'[id] = byID[id]
           /\ \A id \in DOMAIN byID' \cap touched :
                /\ byID'[id].state # "DECIDED"
                /\ byID'[id].state = "READY" =>
                     /\ id \in DOMAIN byID /\ byID[id].state = "READY"
                     /\ byID[id].spans \subseteq byID'[id].spans
  <1>1. PICK now \in Store!Instants, ids \in Store!Batches :
          /\ \E spans \in [Range(ids) -> Span] : Store!Ingest(now, ids, spans)
          /\ late' = late \cup (Range(ids) \cap Copied)
    BY DEF ReceiveFrame
  <1>2. PICK spans \in [Range(ids) -> Span] : Store!Ingest(now, ids, spans)
    BY <1>1
  <1>3. ids \in Seq(TraceID)
    BY DEF Store!Batches, Store!BoundedSeq, Store!SeqOf
  <1>4. now \in Nat
    BY StoreFacts, StoreAssumed DEF Typed, Store!Instants
  <1>5. P!Ingest(now, ids, spans) /\ spans \in [P!Range(ids) -> Span]
    BY <1>2, SameIngest, SameRange
  <1>6. /\ P!Retained' = P!Range(order')
        /\ \A id \in P!Range(order') :
             /\ id \in P!Retained \cup P!Range(ids)
             /\ byID'[id] = IF id \in P!Range(ids) THEN P!Merge(now, id, spans[id]) ELSE byID[id]
    BY <1>3, <1>4, <1>5, P!IngestLeaves, StoreAssumed DEF Typed
  <1>7. P!Retained' = DOMAIN byID' /\ P!Retained = DOMAIN byID /\ P!Range(ids) = Range(ids)
    BY SameRange DEF P!Retained
  <1>8. \A id \in DOMAIN byID' :
          /\ id \in DOMAIN byID \cup Range(ids)
          /\ byID'[id] = IF id \in Range(ids) THEN P!Merge(now, id, spans[id]) ELSE byID[id]
    BY <1>6, <1>7
  <1>9. ASSUME NEW id \in DOMAIN byID' \cap Range(ids)
        PROVE  /\ byID'[id].state # "DECIDED"
               /\ byID'[id].state = "READY" =>
                    /\ id \in DOMAIN byID /\ byID[id].state = "READY"
                    /\ byID[id].spans \subseteq byID'[id].spans
    <2>1. byID'[id] = P!Merge(now, id, spans[id])
      BY <1>8, <1>9
    <2>2. CASE id \in DOMAIN byID
      <3>1. byID[id] \in Store!Trace
        BY <2>2, StoreFacts DEF Typed
      <3>2. P!Merge(now, id, spans[id])
              = P!Touched(byID[id], byID[id].spans \cup {spans[id]}, now,
                          byID[id].sizeBytes + SpanSize[spans[id]],
                          IF byID[id].state \in {"DECIDED", "EXPIRED"} THEN "RECEIVING"
                          ELSE byID[id].state)
        BY <1>7, <2>2 DEF P!Merge, P!Touched
      <3> QED
        BY <2>1, <2>2, <3>1, <3>2 DEF P!Touched, Store!Trace
    <2>3. CASE id \notin DOMAIN byID
      BY <1>7, <2>1, <2>3 DEF P!Merge
    <2> QED
      BY <2>2, <2>3
  <1>10. Range(ids) \in SUBSET TraceID
    BY <1>3 DEF Range
  <1> QED
    BY <1>1, <1>8, <1>9, <1>10

-----------------------------------------------------------------------------
(* The invariant is kept, action by action. *)

\* What DueForDecision returns: one copy per trace that was due, in the order
\* of the list.
LEMMA DueCopies ==
  ASSUME Typed, NEW due \in SUBSET DOMAIN byID
  PROVE  LET ids == InOrder(order, due)
             copies == [i \in DOMAIN ids |-> [id |-> ids[i], spans |-> byID[ids[i]].spans]]
         IN /\ copies \in Seq(Copy)
            /\ due # {} => copies # << >>
            /\ { copies[i].id : i \in DOMAIN copies } = due
            /\ \A i \in DOMAIN copies : copies[i].spans = byID[copies[i].id].spans
  <1> DEFINE ids == InOrder(order, due)
             copies == [i \in DOMAIN ids |-> [id |-> ids[i], spans |-> byID[ids[i]].spans]]
  <1>1. ids \in Seq(TraceID) /\ Range(ids) = due
    <2>1. order \in Seq(TraceID) /\ IsInjective(order) /\ Range(order) = DOMAIN byID
      BY StoreFacts DEF Typed
    <2>2. ids \in Seq(TraceID) /\ Range(ids) = Range(order) \cap due
      BY <2>1, InOrderFinds
    <2> QED
      BY <2>1, <2>2
  <1>2. \A id \in due : byID[id].spans \in SUBSET Span /\ id \in TraceID
    BY StoreFacts DEF Typed, Store!Trace
  <1> HIDE DEF ids
  <1>3. DOMAIN ids = 1 .. Len(ids) /\ Len(ids) \in Nat
    BY <1>1
  <1>4. \A i \in DOMAIN ids : ids[i] \in due
    BY <1>1 DEF Range
  <1>5. copies \in [1 .. Len(ids) -> Copy]
    BY <1>2, <1>3, <1>4 DEF Copy
  <1>6. copies \in Seq(Copy)
    BY <1>3, <1>5
  <1>7. due # {} => copies # << >>
    <2> SUFFICES ASSUME due # {} PROVE DOMAIN copies # {}
      OBVIOUS
    <2>1. PICK i \in DOMAIN ids : TRUE
      BY <1>1 DEF Range
    <2> QED
      BY <2>1
  <1>8. { copies[i].id : i \in DOMAIN copies } = { ids[i] : i \in DOMAIN ids }
    OBVIOUS
  <1>9. { ids[i] : i \in DOMAIN ids } = due
    BY <1>1 DEF Range
  <1> QED
    BY <1>6, <1>7, <1>8, <1>9 DEF ids

LEMMA DueFacts ==
  Store!Due(tick.now, Wait[tick.ev]) \in SUBSET DOMAIN byID
  BY DEF Store!Due, Store!Retained

\* The steps of the ticker.
LEMMA TickSteps ==
  ASSUME EngineInv, DecideDue
  PROVE  /\ tick' \in [pc : {"idle", "due", "decide", "record"},
                       ev : Policy \cup {None}, now : Nat, due : Seq(Copy),
                       result : Verdicts]
         /\ TickPlaced'
         /\ UNCHANGED <<clock, evaluator, setter, frames, updates, overlap>>
  <1> DEFINE Tick == [pc : {"idle", "due", "decide", "record"}, ev : Policy \cup {None},
                      now : Nat, due : Seq(Copy), result : Verdicts]
  <1>0. tick \in Tick /\ evaluator \in Policy /\ clock \in Nat
    BY StoreFacts DEF EngineInv, Typed
  <1>i. Idle \in Tick /\ Idle.pc = "idle" /\ Idle.due = << >>
    BY DEF Idle, Verdicts
  <1>1. CASE ReadEvaluator
    <2>1. tick' = [Idle EXCEPT !.pc = "due", !.ev = evaluator, !.now = clock]
      BY <1>1 DEF ReadEvaluator
    <2>2. tick' \in Tick /\ tick'.pc = "due" /\ tick'.ev \in Policy /\ tick'.now = clock /\ tick'.due = << >>
      BY <1>0, <1>i, <2>1 DEF Idle
    <2>3. UNCHANGED <<clock, evaluator, setter, frames, updates, overlap>>
      BY <1>1 DEF ReadEvaluator, history
    <2> QED
      BY <1>0, <2>2, <2>3 DEF TickPlaced
  <1>2. CASE CollectDue
    <2> DEFINE due == Store!Due(tick.now, Wait[tick.ev])
               ids == InOrder(order, due)
               copies == [i \in DOMAIN ids |-> [id |-> ids[i], spans |-> byID[ids[i]].spans]]
    <2>1. tick.pc = "due" /\ tick' = IF due = {} THEN Idle
                                     ELSE [tick EXCEPT !.pc = "decide", !.due = copies]
      BY <1>2 DEF CollectDue
    <2>2. copies \in Seq(Copy) /\ (due # {} => copies # << >>)
      BY DueCopies, DueFacts DEF EngineInv
    <2> HIDE DEF copies, due
    <2>3. UNCHANGED <<clock, evaluator, setter, frames, updates, overlap>>
      BY <1>2 DEF CollectDue
    <2>4. CASE due = {}
      BY <1>i, <2>1, <2>3, <2>4 DEF TickPlaced
    <2>5. CASE due # {}
      <3>1. /\ tick' \in Tick /\ tick'.pc = "decide" /\ tick'.ev = tick.ev
            /\ tick'.now = tick.now /\ tick'.due = copies
        BY <1>0, <2>1, <2>2, <2>5
      <3> QED
        BY <2>1, <2>2, <2>3, <2>5, <3>1 DEF TickPlaced, EngineInv
    <2> QED
      BY <2>4, <2>5
  <1>3. CASE Decide
    <2> DEFINE t == Head(tick.due)
               verdict == Evaluate(tick.ev, t.spans)
               rest == Tail(tick.due)
    <2>1. tick.pc = "decide" /\ tick.due # << >>
      BY <1>3 DEF Decide, EngineInv, TickPlaced
    <2>2. rest \in Seq(Copy) /\ verdict \in Verdicts
      BY <1>0, <2>1, EvaluateVerdict
    <2>3. \/ tick' = Idle
          \/ verdict # "ERROR" /\ tick' = [tick EXCEPT !.pc = "record", !.due = rest,
                                                       !.result = verdict]
          \/ rest # << >> /\ tick' = [tick EXCEPT !.due = rest]
      BY <1>3 DEF Decide
    <2> HIDE DEF verdict, rest
    <2>4. UNCHANGED <<clock, evaluator, setter, frames, updates, overlap>>
      BY <1>3 DEF Decide, history
    <2>5. CASE tick' = Idle
      BY <1>i, <2>4, <2>5 DEF TickPlaced
    <2>6. CASE verdict # "ERROR" /\ tick' = [tick EXCEPT !.pc = "record", !.due = rest,
                                                         !.result = verdict]
      <3>1. /\ tick' \in Tick /\ tick'.pc = "record" /\ tick'.ev = tick.ev
            /\ tick'.now = tick.now /\ tick'.result = verdict
        BY <1>0, <2>2, <2>6
      <3> QED
        BY <2>1, <2>2, <2>4, <2>6, <3>1 DEF TickPlaced, EngineInv, Verdicts, Result
    <2>7. CASE rest # << >> /\ tick' = [tick EXCEPT !.due = rest]
      <3>1. /\ tick' \in Tick /\ tick'.pc = "decide" /\ tick'.ev = tick.ev
            /\ tick'.now = tick.now /\ tick'.due = rest
        BY <1>0, <2>1, <2>2, <2>7
      <3> QED
        BY <2>1, <2>2, <2>4, <2>7, <3>1 DEF TickPlaced, EngineInv
    <2> QED
      BY <2>3, <2>5, <2>6, <2>7
  <1>4. CASE RecordDecision
    <2>1. /\ tick.pc = "record"
          /\ tick' = IF tick.due = << >> THEN Idle
                     ELSE [tick EXCEPT !.pc = "decide", !.result = "ERROR"]
          /\ UNCHANGED <<clock, evaluator, setter, frames, updates, overlap>>
      BY <1>4 DEF RecordDecision, history
    <2>2. CASE tick.due = << >>
      BY <1>i, <2>1, <2>2 DEF TickPlaced
    <2>3. CASE tick.due # << >>
      <3>1. /\ tick' \in Tick /\ tick'.pc = "decide" /\ tick'.ev = tick.ev
            /\ tick'.now = tick.now /\ tick'.due = tick.due
        BY <1>0, <2>1, <2>3 DEF Verdicts
      <3> QED
        BY <2>1, <2>3, <3>1 DEF TickPlaced, EngineInv
    <2> QED
      BY <2>2, <2>3
  <1> QED
    BY <1>1, <1>2, <1>3, <1>4 DEF DecideDue

\* The verdicts a re-evaluation leaves to record: those on the decided traces
\* that evaluate, each once.
LEMMA ToRecord ==
  ASSUME Typed, NEW visit, visit \in [DOMAIN byID -> Verdicts]
  PROVE  LET good == { id \in Decided : visit[id] # "ERROR" }
             ids == InOrder(order, good)
         IN /\ ids \in Seq(TraceID) /\ IsInjective(ids) /\ Range(ids) = good
            /\ [i \in DOMAIN ids |-> visit[ids[i]]] \in Seq(Result)
  <1> DEFINE good == { id \in Decided : visit[id] # "ERROR" }
             ids == InOrder(order, good)
  <1>1. ids \in Seq(TraceID) /\ IsInjective(ids) /\ Range(ids) = good
    <2>1. order \in Seq(TraceID) /\ IsInjective(order) /\ Range(order) = DOMAIN byID
      BY StoreFacts DEF Typed
    <2>2. good \subseteq DOMAIN byID
      BY DEF Decided, Store!Retained
    <2> HIDE DEF good
    <2>3. /\ ids \in Seq(TraceID) /\ IsInjective(ids)
          /\ Range(ids) = Range(order) \cap good
      BY <2>1, InOrderFinds
    <2> QED
      BY <2>1, <2>2, <2>3
  <1>2. \A id \in good : visit[id] \in Result
    BY DEF Decided, Store!Retained, Verdicts, Result
  <1> HIDE DEF ids, good
  <1>3. DOMAIN ids = 1 .. Len(ids) /\ Len(ids) \in Nat
    BY <1>1
  <1>4. \A i \in DOMAIN ids : ids[i] \in good
    BY <1>1 DEF Range
  <1>5. [i \in DOMAIN ids |-> visit[ids[i]]] \in [1 .. Len(ids) -> Result]
    BY <1>2, <1>3, <1>4
  <1>6. [i \in DOMAIN ids |-> visit[ids[i]]] \in Seq(Result)
    BY <1>3, <1>5
  <1> QED
    BY <1>1, <1>6 DEF ids, good

\* The steps of a SetPolicy.
LEMMA SetterSteps ==
  ASSUME EngineInv, NEW s \in Setter, SetPolicy(s)
  PROVE  /\ setter' \in [Setter -> [pc : {"idle", "reset", "visit", "record"},
                                    ev : Policy \cup {None}, todo : Seq(Verdicts)]]
         /\ SettersPlaced'
         /\ evaluator' \in Policy /\ updates' \in Nat /\ overlap' \in BOOLEAN
         /\ UNCHANGED <<clock, tick, frames, late>>
  <1> DEFINE One == [pc : {"idle", "reset", "visit", "record"},
                     ev : Policy \cup {None}, todo : Seq(Verdicts)]
  <1>0. /\ setter \in [Setter -> One] /\ evaluator \in Policy /\ updates \in Nat
        /\ overlap \in BOOLEAN /\ Seq(Result) \subseteq Seq(Verdicts)
    BY DEF EngineInv, Typed, Result, Verdicts
  <1>i. Resting \in One /\ Resting.pc = "idle" /\ Resting.todo \in Seq(Result)
    BY DEF Resting
  \* One moves, the others stay.
  <1>m. ASSUME NEW x \in One, setter' = [setter EXCEPT ![s] = x],
               x.pc # "idle" => x.ev \in Policy,
               x.todo \in Seq(Result),
               x.pc = "record" => /\ x.todo # << >>
                                  /\ \A u \in Setter : setter[u].pc = "record" => u = s
        PROVE  setter' \in [Setter -> One] /\ SettersPlaced'
    <2>1. /\ setter' \in [Setter -> One] /\ setter'[s] = x
          /\ \A u \in Setter \ {s} : setter'[u] = setter[u]
      BY <1>0, <1>m
    <2>2. ASSUME NEW u \in Setter
          PROVE  /\ setter'[u].pc # "idle" => setter'[u].ev \in Policy
                 /\ setter'[u].pc = "record" => setter'[u].todo # << >>
                 /\ setter'[u].todo \in Seq(Result)
      BY <1>m, <2>1 DEF EngineInv, SettersPlaced
    <2>3. ASSUME NEW u \in Setter, NEW v \in Setter,
                 setter'[u].pc = "record", setter'[v].pc = "record"
          PROVE  u = v
      BY <1>m, <2>1, <2>3 DEF EngineInv, SettersPlaced
    <2> QED
      BY <2>1, <2>2, <2>3 DEF SettersPlaced
  <1>1. CASE SwapEvaluator(s)
    <2>1. PICK p \in Policy : /\ evaluator' = p
                              /\ setter' = [setter EXCEPT ![s].pc = "reset", ![s].ev = p]
      BY <1>1 DEF SwapEvaluator
    <2>2. /\ updates' = updates + 1
          /\ overlap' = (overlap \/ tick.pc # "idle"
                                 \/ \E u \in Setter \ {s} : setter[u].pc # "idle")
          /\ UNCHANGED <<clock, tick, frames, late>>
      BY <1>1 DEF SwapEvaluator
    <2> DEFINE x == [setter[s] EXCEPT !.pc = "reset", !.ev = p]
    <2>3. setter' = [setter EXCEPT ![s] = x]
      BY <1>0, <2>1
    <2>4. x \in One /\ x.pc = "reset" /\ x.ev \in Policy /\ x.todo = setter[s].todo
      BY <1>0
    <2> HIDE DEF x
    <2>5. setter[s].todo \in Seq(Result)
      BY DEF EngineInv, SettersPlaced
    <2>6. overlap' \in BOOLEAN /\ updates' \in Nat /\ evaluator' \in Policy
      BY <1>0, <2>1, <2>2
    <2>7. setter' \in [Setter -> One] /\ SettersPlaced'
      BY <1>m, <2>3, <2>4, <2>5
    <2> QED
      BY <2>2, <2>6, <2>7
  <1>2. CASE ResetStats(s)
    <2> DEFINE x == [setter[s] EXCEPT !.pc = "visit"]
    <2>1. /\ setter[s].pc = "reset" /\ setter' = [setter EXCEPT ![s].pc = "visit"]
          /\ UNCHANGED <<clock, evaluator, tick, frames, updates, overlap, late>>
      BY <1>2 DEF ResetStats, history
    <2>2. setter' = [setter EXCEPT ![s] = x]
      BY <1>0, <2>1
    <2>3. x \in One /\ x.pc = "visit" /\ x.ev = setter[s].ev /\ x.todo = setter[s].todo
      BY <1>0
    <2> HIDE DEF x
    <2>4. setter[s].todo \in Seq(Result) /\ setter[s].ev \in Policy
      BY <2>1 DEF EngineInv, SettersPlaced
    <2> QED
      BY <1>0, <1>m, <2>1, <2>2, <2>3, <2>4
  <1>3. CASE ReEvaluate(s)
    <2> DEFINE visit == [id \in Store!Retained |-> Evaluate(setter[s].ev, byID[id].spans)]
               ids == InOrder(order, { id \in Decided : visit[id] # "ERROR" })
               todo == [i \in DOMAIN ids |-> visit[ids[i]]]
               x == IF ids = << >> THEN Resting
                    ELSE [setter[s] EXCEPT !.pc = "record", !.todo = todo]
    <2>1. /\ setter[s].pc = "visit" /\ StoreFree
          /\ setter' = [setter EXCEPT ![s] = IF ids = << >> THEN Resting
                                             ELSE [@ EXCEPT !.pc = "record", !.todo = todo]]
          /\ UNCHANGED <<clock, evaluator, tick, frames, updates, overlap, late>>
      BY <1>3 DEF ReEvaluate, history
    <2>2. visit \in [DOMAIN byID -> Verdicts]
      BY EvaluateVerdict, StoreFacts DEF EngineInv, Typed
    <2> HIDE DEF visit
    <2>3. ids \in Seq(TraceID) /\ todo \in Seq(Result)
      BY <2>2, ToRecord DEF EngineInv
    <2> HIDE DEF ids
    <2>4. DOMAIN todo = DOMAIN ids
      OBVIOUS
    <2>5. ids # << >> => todo # << >>
      BY <2>3, <2>4
    <2> HIDE DEF todo
    <2>6. setter' = [setter EXCEPT ![s] = x]
      BY <1>0, <2>1
    <2>7. setter[s].ev \in Policy /\ \A u \in Setter : setter[u].pc # "record"
      BY <2>1 DEF EngineInv, SettersPlaced, StoreFree
    <2>8. CASE ids = << >>
      BY <1>0, <1>i, <1>m, <2>1, <2>6, <2>8
    <2>9. CASE ids # << >>
      <3>1. x \in One /\ x.pc = "record" /\ x.ev = setter[s].ev /\ x.todo = todo
        BY <1>0, <2>3, <2>9
      <3> HIDE DEF x
      <3> QED
        BY <1>0, <1>m, <2>1, <2>3, <2>5, <2>6, <2>7, <2>9, <3>1
    <2> QED
      BY <2>8, <2>9
  <1>4. CASE RecordReEvaluated(s)
    <2> DEFINE rest == Tail(setter[s].todo)
               x == IF rest = << >> THEN Resting ELSE [setter[s] EXCEPT !.todo = rest]
    <2>1. /\ setter[s].pc = "record"
          /\ UNCHANGED <<clock, evaluator, tick, frames, updates, overlap, late>>
      BY <1>4 DEF RecordReEvaluated, history
    <2>2. setter' = [setter EXCEPT ![s] = x]
      BY <1>4 DEF RecordReEvaluated
    <2>3. /\ rest \in Seq(Result) /\ setter[s].ev \in Policy
          /\ \A u \in Setter : setter[u].pc = "record" => u = s
      BY <2>1 DEF EngineInv, SettersPlaced
    <2> HIDE DEF rest
    <2>4. CASE rest = << >>
      BY <1>0, <1>i, <1>m, <2>1, <2>2, <2>4
    <2>5. CASE rest # << >>
      <3>1. x \in One /\ x.pc = "record" /\ x.ev = setter[s].ev /\ x.todo = rest
        BY <1>0, <2>1, <2>3, <2>5
      <3> HIDE DEF x
      <3> QED
        BY <1>0, <1>m, <2>1, <2>2, <2>3, <2>5, <3>1
    <2> QED
      BY <2>4, <2>5
  <1> QED
    BY <1>1, <1>2, <1>3, <1>4 DEF SetPolicy

LEMMA RecordTyped ==
  ASSUME Typed, NEW verdict, Record(verdict)
  PROVE  stats' \in [observed : Nat, keep : Nat, drop : Nat]
  BY DEF Typed, Record

LEMMA EngineInvInit ==
  ASSUME Init
  PROVE  EngineInv
  <1>1. P!Init
    BY DEF Init, Store!Init, P!Init
  <1>2. P!StoreInv
    BY <1>1, P!StoreInvInit, StoreAssumed
  <1>3. stats \in [observed : Nat, keep : Nat, drop : Nat]
    BY DEF Init, NoStats
  <1>4. /\ tick \in [pc : {"idle", "due", "decide", "record"}, ev : Policy \cup {None},
                     now : Nat, due : Seq(Copy), result : Verdicts]
        /\ TickPlaced
    BY DEF Init, Idle, Verdicts, TickPlaced
  <1>5. /\ setter \in [Setter -> [pc : {"idle", "reset", "visit", "record"},
                                  ev : Policy \cup {None}, todo : Seq(Verdicts)]]
        /\ SettersPlaced
    <2>1. Resting.pc = "idle" /\ Resting.ev = None /\ Resting.todo = << >>
      BY DEF Resting
    <2>2. Resting \in [pc : {"idle", "reset", "visit", "record"},
                      ev : Policy \cup {None}, todo : Seq(Verdicts)]
      BY DEF Resting
    <2>3. \A s \in Setter : setter[s] = Resting
      BY DEF Init
    <2> QED
      BY <2>1, <2>2, <2>3 DEF Init, SettersPlaced
  <1> QED
    BY <1>2, <1>3, <1>4, <1>5 DEF Init, EngineInv, Typed

LEMMA EngineInvNext ==
  ASSUME EngineInv, [Next]_vars
  PROVE  EngineInv'
  <1> DEFINE StatsOK == stats \in [observed : Nat, keep : Nat, drop : Nat]
             TickOK == tick \in [pc : {"idle", "due", "decide", "record"},
                                 ev : Policy \cup {None}, now : Nat, due : Seq(Copy),
                                 result : Verdicts]
             SetterOK == setter \in [Setter -> [pc : {"idle", "reset", "visit", "record"},
                                                ev : Policy \cup {None},
                                                todo : Seq(Verdicts)]]
  <1>0. StatsOK /\ TickOK /\ SetterOK /\ late \subseteq TraceID /\ TickPlaced /\ SettersPlaced
    BY DEF EngineInv, Typed
  <1>1. P!StoreInv'
    BY StoreInvKept
  <1>2. ASSUME UNCHANGED <<evaluator, stats, tick, setter, updates, overlap>>,
               clock' \in Nat, clock' >= clock, frames' \in Nat, late' \subseteq TraceID
        PROVE  EngineInv'
    <2>1. TickPlaced'
      <3>1. tick.now \in Nat /\ clock \in Nat
        BY StoreFacts DEF EngineInv, Typed
      <3> QED
        BY <1>0, <1>2, <3>1 DEF TickPlaced
    <2>2. SettersPlaced'
      BY <1>0, <1>2 DEF SettersPlaced
    <2>3. Typed'
      BY <1>1, <1>2 DEF EngineInv, Typed
    <2> QED
      BY <2>1, <2>2, <2>3 DEF EngineInv
  <1>3. CASE TimePasses
    <2>1. /\ UNCHANGED <<evaluator, stats, tick, setter, frames, updates, overlap, late>>
          /\ clock' = clock + 1
      BY <1>3 DEF TimePasses, Store!Tick, history
    <2>2. clock \in Nat /\ frames \in Nat
      BY StoreFacts DEF EngineInv, Typed
    <2> QED
      BY <1>0, <1>2, <2>1, <2>2
  <1>4. CASE ReceiveFrame
    <2>1. late' \subseteq TraceID
      BY <1>0, <1>4, FrameEffect DEF EngineInv
    <2>2. UNCHANGED <<clock, evaluator, stats, tick, setter, updates, overlap>> /\ frames' = frames + 1
      BY <1>4 DEF ReceiveFrame
    <2>3. clock \in Nat /\ frames \in Nat
      BY StoreFacts DEF EngineInv, Typed
    <2> QED
      BY <1>2, <2>1, <2>2, <2>3
  <1>5. CASE DecideDue
    <2>1. TickOK' /\ TickPlaced' /\ UNCHANGED <<clock, evaluator, setter, frames, updates, overlap>>
      BY <1>5, TickSteps
    <2>2. SettersPlaced'
      BY <1>0, <2>1 DEF SettersPlaced
    <2>3. StatsOK'
      <3>1. ReadEvaluator \/ CollectDue \/ Decide => UNCHANGED stats
        BY DEF ReadEvaluator, CollectDue, Decide
      <3>2. RecordDecision => StatsOK'
        BY RecordTyped DEF EngineInv, RecordDecision
      <3> QED
        BY <1>0, <1>5, <3>1, <3>2 DEF DecideDue
    <2>4. late' \subseteq TraceID
      BY <1>0, <1>5 DEF DecideDue, ReadEvaluator, CollectDue, Decide, RecordDecision, history
    <2>5. Typed'
      BY <1>1, <2>1, <2>3, <2>4 DEF EngineInv, Typed
    <2> QED
      BY <2>1, <2>2, <2>5 DEF EngineInv
  <1>6. ASSUME NEW s \in Setter, SetPolicy(s) PROVE EngineInv'
    <2>1. /\ SetterOK' /\ SettersPlaced'
          /\ evaluator' \in Policy /\ updates' \in Nat /\ overlap' \in BOOLEAN
          /\ UNCHANGED <<clock, tick, frames, late>>
      BY <1>6, SetterSteps
    <2>2. StatsOK'
      <3>1. SwapEvaluator(s) \/ ReEvaluate(s) => UNCHANGED stats
        BY DEF SwapEvaluator, ReEvaluate
      <3>2. RecordReEvaluated(s) => StatsOK'
        BY RecordTyped DEF EngineInv, RecordReEvaluated
      <3>3. ResetStats(s) => StatsOK'
        BY DEF ResetStats, NoStats
      <3> QED
        BY <1>0, <1>6, <3>1, <3>2, <3>3 DEF SetPolicy
    <2>3. TickPlaced'
      BY <1>0, <2>1 DEF TickPlaced
    <2>4. Typed'
      BY <1>0, <1>1, <2>1, <2>2 DEF EngineInv, Typed
    <2> QED
      BY <2>1, <2>3, <2>4 DEF EngineInv
  <1>7. CASE UNCHANGED vars
    <2>1. UNCHANGED <<clock, evaluator, stats, tick, setter, frames, updates, overlap, late>>
      BY <1>7 DEF vars
    <2>2. clock \in Nat /\ frames \in Nat
      BY StoreFacts DEF EngineInv, Typed
    <2> QED
      BY <1>0, <1>2, <2>1, <2>2
  <1> QED
    BY <1>3, <1>4, <1>5, <1>6, <1>7 DEF Next

LEMMA EngineInvHolds == Spec => []EngineInv
  <1>1. Init => EngineInv
    BY EngineInvInit
  <1>2. EngineInv /\ [Next]_vars => EngineInv'
    BY EngineInvNext
  <1> QED
    BY <1>1, <1>2, PTL DEF Spec

-----------------------------------------------------------------------------
\* The engine drives the store as TraceStore promises, so everything proved
\* there holds of it here: each lock-step of decideDue, SetPolicy and
\* handleTraceFrame is one call of the Store, or leaves it alone.
THEOREM EngineUsesStore == Spec => Store!Spec
  <1>1. Init => Store!Init
    BY DEF Init
  <1>2. EngineInv /\ [Next]_vars => [Store!Next]_(Store!vars)
    BY StoreSteps
  <1> QED
    BY <1>1, <1>2, EngineInvHolds, PTL DEF Spec, Store!Spec

\* The types of the engine's state, the store's included.
THEOREM EngineTypeCorrect == Spec => []TypeOK
  <1>1. EngineInv => TypeOK
    BY SameType DEF EngineInv, Typed, TypeOK, P!StoreInv
  <1> QED
    BY <1>1, EngineInvHolds, PTL

-----------------------------------------------------------------------------
(* What each step does to the traces and to the copies the ticker holds.   *)

Held == Range(tick.due)

LEMMA CopiedIsHeld == Copied = { c.id : c \in Held }
  BY DEF Copied, Held, Range

LEMMA HeadAndRest ==
  ASSUME NEW S, NEW q \in Seq(S), q # << >>
  PROVE  Head(q) \in S /\ Tail(q) \in Seq(S) /\ Range(q) = {Head(q)} \cup Range(Tail(q))
  <1>1. Head(q) \in S /\ Tail(q) \in Seq(S)
    OBVIOUS
  <1>2. /\ DOMAIN q = 1 .. Len(q) /\ Len(q) \in Nat \ {0}
        /\ DOMAIN Tail(q) = 1 .. Len(q) - 1
        /\ \A i \in 1 .. Len(q) - 1 : Tail(q)[i] = q[i + 1]
        /\ Head(q) = q[1]
    OBVIOUS
  <1> DEFINE r == Tail(q)  h == Head(q)
  <1> HIDE DEF r, h
  <1>3. ASSUME NEW e \in Range(q) PROVE e \in {h} \cup Range(r)
    <2>1. PICK i \in 1 .. Len(q) : e = q[i]
      BY <1>2 DEF Range
    <2>2. CASE i = 1
      BY <1>2, <2>1, <2>2 DEF h
    <2>3. CASE i # 1
      <3>1. i - 1 \in DOMAIN r /\ r[i - 1] = e
        BY <1>2, <2>1, <2>3 DEF r
      <3> QED
        BY <3>1 DEF Range
    <2> QED
      BY <2>2, <2>3
  <1>4. ASSUME NEW e \in Range(r) PROVE e \in Range(q)
    <2>1. PICK i \in DOMAIN r : e = r[i]
      BY DEF Range
    <2>2. i + 1 \in DOMAIN q /\ q[i + 1] = e
      BY <1>2, <2>1 DEF r
    <2> QED
      BY <2>2 DEF Range
  <1>5. h \in Range(q)
    BY <1>2 DEF Range, h
  <1> QED
    BY <1>1, <1>3, <1>4, <1>5 DEF r, h

LEMMA CollectEffect ==
  ASSUME EngineInv, CollectDue
  PROVE  LET due == Store!Due(tick.now, Wait[tick.ev])
         IN /\ Held = {} /\ { c.id : c \in Held' } = due
            /\ \A c \in Held' : c.spans = byID[c.id].spans
            /\ DOMAIN byID' = DOMAIN byID /\ due \subseteq DOMAIN byID
            /\ \A id \in DOMAIN byID :
                 byID'[id] = IF id \in due THEN [byID[id] EXCEPT !.state = "READY"]
                             ELSE byID[id]
            /\ late' = late \ due
            /\ tick.ev \in Policy /\ tick.now \in 0 .. clock
  <1> DEFINE due == Store!Due(tick.now, Wait[tick.ev])
             ids == InOrder(order, due)
             copies == [i \in DOMAIN ids |-> [id |-> ids[i], spans |-> byID[ids[i]].spans]]
  <1>1. /\ tick.pc = "due"
        /\ tick' = IF due = {} THEN Idle ELSE [tick EXCEPT !.pc = "decide", !.due = copies]
        /\ late' = late \ due
        /\ Store!DueForDecision(tick.now, Wait[tick.ev])
    BY DEF CollectDue
  <1>2. tick.due = << >> /\ tick.ev \in Policy /\ tick.now <= clock
    BY <1>1 DEF EngineInv, TickPlaced
  <1>3. tick.now \in Nat /\ clock \in Nat /\ tick \in [pc : {"idle", "due", "decide", "record"},
               ev : Policy \cup {None}, now : Nat, due : Seq(Copy), result : Verdicts]
    BY StoreFacts DEF EngineInv, Typed
  <1>4. Held = {}
    BY <1>2 DEF Held, Range
  <1>5. /\ DOMAIN byID' = DOMAIN byID /\ due \subseteq DOMAIN byID
        /\ \A id \in DOMAIN byID :
             byID'[id] = IF id \in due THEN [byID[id] EXCEPT !.state = "READY"]
                         ELSE byID[id]
    BY <1>1, DueFacts DEF Store!DueForDecision, Store!Retained
  <1>6. /\ { copies[i].id : i \in DOMAIN copies } = due
        /\ \A i \in DOMAIN copies : copies[i].spans = byID[copies[i].id].spans
    BY DueCopies, DueFacts DEF EngineInv
  <1> HIDE DEF due, copies
  <1>7. { c.id : c \in Held' } = due /\ \A c \in Held' : c.spans = byID[c.id].spans
    <2>1. CASE due = {}
      <3>1. tick'.due = << >>
        BY <1>1, <2>1 DEF Idle
      <3>2. Held' = {}
        BY <3>1 DEF Held, Range
      <3> QED
        BY <2>1, <3>2
    <2>2. CASE due # {}
      <3>1. tick'.due = copies
        BY <1>1, <1>3, <2>2
      <3> QED
        BY <1>6, <3>1 DEF Held, Range
    <2> QED
      BY <2>1, <2>2
  <1> QED
    BY <1>1, <1>2, <1>3, <1>4, <1>5, <1>7 DEF due

LEMMA DecideEffect ==
  ASSUME EngineInv, Decide
  PROVE  \E c \in Held :
           LET v == Evaluate(tick.ev, c.spans)
           IN /\ c \in Copy /\ Held = {c} \cup Held' /\ late' = late
              /\ tick.ev \in Policy
              /\ \/ /\ v \in Result /\ c.id \in DOMAIN byID
                    /\ byID' = [byID EXCEPT ![c.id].decision = v, ![c.id].state = "DECIDED"]
                    /\ tick'.pc = "record" /\ tick'.result = v
                 \/ /\ v = "ERROR" \/ c.id \notin DOMAIN byID
                    /\ byID' = byID
                    /\ tick'.pc \in {"idle", "decide"}
  <1> DEFINE c == Head(tick.due)
             v == Evaluate(tick.ev, c.spans)
             rest == Tail(tick.due)
  <1>1. tick.pc = "decide" /\ tick.due # << >> /\ tick.ev \in Policy /\ late' = late
    BY DEF Decide, EngineInv, TickPlaced, history
  <1>2. tick \in [pc : {"idle", "due", "decide", "record"},
               ev : Policy \cup {None}, now : Nat, due : Seq(Copy), result : Verdicts]
    BY DEF EngineInv, Typed
  <1>3. c \in Copy /\ rest \in Seq(Copy) /\ Held = {c} \cup Range(rest) /\ c \in Held
    <2>1. tick.due \in Seq(Copy)
      BY <1>2
    <2> QED
      BY <1>1, <2>1, HeadAndRest DEF Held
  <1>4. v \in Verdicts
    BY EvaluateVerdict
  <1>5. \/ /\ v # "ERROR"
           /\ Store!ApplyDecision(c.id, v)
           /\ tick' = IF c.id \in Store!Retained
                      THEN [tick EXCEPT !.pc = "record", !.due = rest, !.result = v]
                      ELSE IF rest = << >> THEN Idle
                      ELSE [tick EXCEPT !.due = rest]
        \/ /\ v = "ERROR"
           /\ tick' = IF rest = << >> THEN Idle ELSE [tick EXCEPT !.due = rest]
           /\ UNCHANGED storeVars
    BY DEF Decide
  <1>s. SUFFICES /\ Held = {c} \cup Held'
                 /\ \/ /\ v \in Result /\ c.id \in DOMAIN byID
                       /\ byID' = [byID EXCEPT ![c.id].decision = v,
                                               ![c.id].state = "DECIDED"]
                       /\ tick'.pc = "record" /\ tick'.result = v
                    \/ /\ v = "ERROR" \/ c.id \notin DOMAIN byID
                       /\ byID' = byID
                       /\ tick'.pc \in {"idle", "decide"}
    <2> HIDE DEF c
    <2> QED
      BY <1>1, <1>3
  <1> HIDE DEF c, v, rest
  <1>6. (tick' = IF rest = << >> THEN Idle ELSE [tick EXCEPT !.due = rest]) =>
          Held' = Range(rest) /\ tick'.pc \in {"idle", "decide"}
    <2>1. CASE rest = << >>
      BY <2>1 DEF Held, Idle
    <2>2. CASE rest # << >>
      BY <1>1, <1>2, <2>2 DEF Held
    <2> QED
      BY <2>1, <2>2
  <1>7. CASE v # "ERROR" /\ c.id \in DOMAIN byID
    <2>1. tick' = [tick EXCEPT !.pc = "record", !.due = rest, !.result = v]
      BY <1>5, <1>7 DEF Store!Retained
    <2>2. tick'.pc = "record" /\ tick'.due = rest /\ tick'.result = v
      BY <1>2, <2>1
    <2>3. byID' = [byID EXCEPT ![c.id].decision = v, ![c.id].state = "DECIDED"]
      BY <1>5, <1>7 DEF Store!Retained, Store!ApplyDecision
    <2>4. v \in Result
      BY <1>4, <1>7 DEF Verdicts, Result
    <2>5. Held = {c} \cup Held'
      BY <1>3, <2>2 DEF Held
    <2> QED
      BY <1>7, <2>2, <2>3, <2>4, <2>5, Zenon
  <1>8. CASE v # "ERROR" /\ c.id \notin DOMAIN byID
    <2>1. byID' = byID /\ tick' = IF rest = << >> THEN Idle ELSE [tick EXCEPT !.due = rest]
      BY <1>5, <1>8 DEF Store!Retained, Store!ApplyDecision
    <2>2. Held' = Range(rest) /\ tick'.pc \in {"idle", "decide"}
      BY <1>6, <2>1
    <2> QED
      BY <1>3, <1>8, <2>1, <2>2
  <1>9. CASE v = "ERROR"
    <2>1. byID' = byID /\ tick' = IF rest = << >> THEN Idle ELSE [tick EXCEPT !.due = rest]
      BY <1>5, <1>9 DEF storeVars
    <2>2. Held' = Range(rest) /\ tick'.pc \in {"idle", "decide"}
      BY <1>6, <2>1
    <2> QED
      BY <1>3, <1>9, <2>1, <2>2
  <1> QED
    BY <1>7, <1>8, <1>9

LEMMA UpdateEffect ==
  ASSUME EngineInv, NEW s \in Setter, ReEvaluate(s)
  PROVE  /\ DOMAIN byID' = DOMAIN byID
         /\ \A id \in DOMAIN byID :
              LET v == Evaluate(setter[s].ev, byID[id].spans)
              IN byID'[id] = IF v = "ERROR" THEN byID[id]
                             ELSE [byID[id] EXCEPT !.decision = v]
         /\ setter[s].ev \in Policy
         /\ UNCHANGED <<tick, late, clock>> /\ Held' = Held
  <1> DEFINE visit == [id \in Store!Retained |-> Evaluate(setter[s].ev, byID[id].spans)]
  <1>1. Store!ForEachMutate(visit) /\ setter[s].pc = "visit" /\ UNCHANGED <<clock, tick, late>>
    BY DEF ReEvaluate, history
  <1>2. setter[s].ev \in Policy
    BY <1>1 DEF EngineInv, SettersPlaced
  <1>3. Held' = Held
    BY <1>1 DEF Held
  <1> QED
    BY <1>1, <1>2, <1>3 DEF Store!ForEachMutate, Store!Retained

\* The other steps leave the traces and the copies alone.
LEMMA TraceSteps ==
  ASSUME EngineInv, [Next]_vars
  PROVE  \/ ReceiveFrame
         \/ CollectDue
         \/ Decide
         \/ \E s \in Setter : ReEvaluate(s)
         \/ UNCHANGED <<byID, late>> /\ Held' = Held /\ clock' >= clock
  <1>0. clock \in Nat
    BY StoreFacts DEF EngineInv, Typed
  <1>1. CASE TimePasses
    BY <1>0, <1>1 DEF TimePasses, Store!Tick, Store!storeVars, history, Held
  <1>2. CASE ReadEvaluator
    <2>1. tick.pc = "idle" /\ UNCHANGED <<byID, late, clock>>
          /\ tick' = [Idle EXCEPT !.pc = "due", !.ev = evaluator, !.now = clock]
      BY <1>2 DEF ReadEvaluator, storeVars, history
    <2>2. tick.due = << >> /\ tick'.due = << >>
      BY <2>1 DEF EngineInv, TickPlaced, Idle
    <2> QED
      BY <1>0, <2>1, <2>2 DEF Held
  <1>3. CASE RecordDecision
    <2>1. UNCHANGED <<byID, late, clock>>
          /\ tick' = IF tick.due = << >> THEN Idle
                     ELSE [tick EXCEPT !.pc = "decide", !.result = "ERROR"]
      BY <1>3 DEF RecordDecision, storeVars, history
    <2>2. tick \in [pc : {"idle", "due", "decide", "record"},
               ev : Policy \cup {None}, now : Nat, due : Seq(Copy), result : Verdicts]
      BY DEF EngineInv, Typed
    <2>3. tick'.due = tick.due
      BY <2>1, <2>2 DEF Idle
    <2> QED
      BY <1>0, <2>1, <2>3 DEF Held
  <1>4. ASSUME NEW s \in Setter, SwapEvaluator(s) \/ ResetStats(s) \/ RecordReEvaluated(s)
        PROVE  UNCHANGED <<byID, late>> /\ Held' = Held /\ clock' >= clock
    BY <1>0, <1>4 DEF SwapEvaluator, ResetStats, RecordReEvaluated, storeVars, history, Held
  <1>5. CASE UNCHANGED vars
    BY <1>0, <1>5 DEF vars, Held
  <1> QED
    BY <1>1, <1>2, <1>3, <1>4, <1>5 DEF Next, DecideDue, SetPolicy

LEMMA ClockGrows ==
  ASSUME EngineInv, [Next]_vars
  PROVE  clock \in Nat /\ clock' \in Nat /\ clock' >= clock
  <1>0. clock \in Nat
    BY StoreFacts DEF EngineInv, Typed
  <1>1. clock' = clock + 1 \/ clock' = clock
    BY DEF Next, vars, TimePasses, Store!Tick, ReceiveFrame, DecideDue, ReadEvaluator,
       CollectDue, Decide, RecordDecision, SetPolicy, SwapEvaluator, ResetStats, ReEvaluate,
       RecordReEvaluated
  <1> QED
    BY <1>0, <1>1

LEMMA EvaluateFails ==
  ASSUME NEW p, NEW spans
  PROVE  Evaluate(p, spans) = "ERROR" <=> spans \cap FailsOn[p] # {}
  BY DEF Evaluate

-----------------------------------------------------------------------------
\* The ticker's copy of a READY trace holds no span the trace has lost; a
\* READY trace of which it holds no copy has made a policy fail.
ReadyInv ==
  \A id \in DOMAIN byID :
    byID[id].state = "READY" =>
      /\ \/ \E c \in Held : c.id = id
         \/ \E p \in Policy : byID[id].spans \cap FailsOn[p] # {}
      /\ \A c \in Held : c.id = id => c.spans \subseteq byID[id].spans

LEMMA ReadyInvNext ==
  ASSUME EngineInv, ReadyInv, [Next]_vars
  PROVE  ReadyInv'
  <1> SUFFICES ASSUME NEW id \in DOMAIN byID', byID'[id].state = "READY"
               PROVE  /\ \/ \E c \in Held' : c.id = id
                         \/ \E p \in Policy : byID'[id].spans \cap FailsOn[p] # {}
                      /\ \A c \in Held' : c.id = id => c.spans \subseteq byID'[id].spans
    BY DEF ReadyInv
  <1>1. CASE UNCHANGED byID /\ Held' = Held
    BY <1>1 DEF ReadyInv
  <1>2. CASE ReceiveFrame
    <2>1. Held' = Held
      BY <1>2 DEF ReceiveFrame, Held
    <2>2. id \in DOMAIN byID /\ byID[id].state = "READY" /\ byID[id].spans \subseteq byID'[id].spans
      BY <1>2, FrameEffect DEF EngineInv
    <2> QED
      BY <2>1, <2>2 DEF ReadyInv
  <1>3. CASE CollectDue
    <2> DEFINE due == Store!Due(tick.now, Wait[tick.ev])
    <2>1. /\ Held = {} /\ { c.id : c \in Held' } = due
          /\ \A c \in Held' : c.spans = byID[c.id].spans
          /\ id \in DOMAIN byID
          /\ byID'[id] = IF id \in due THEN [byID[id] EXCEPT !.state = "READY"] ELSE byID[id]
      BY <1>3, CollectEffect
    <2>2. byID[id] \in Store!Trace
      BY <2>1, StoreFacts DEF EngineInv, Typed
    <2> HIDE DEF due
    <2>3. byID'[id].spans = byID[id].spans
      BY <2>1, <2>2 DEF Store!Trace
    <2>4. CASE id \in due
      BY <2>1, <2>3, <2>4
    <2>5. CASE id \notin due
      BY <2>1, <2>5 DEF ReadyInv
    <2> QED
      BY <2>4, <2>5
  <1>4. CASE Decide
    <2>1. PICK c \in Held :
            LET v == Evaluate(tick.ev, c.spans)
            IN /\ c \in Copy /\ Held = {c} \cup Held' /\ tick.ev \in Policy
               /\ \/ /\ c.id \in DOMAIN byID
                     /\ byID' = [byID EXCEPT ![c.id].decision = v,
                                             ![c.id].state = "DECIDED"]
                  \/ /\ v = "ERROR" \/ c.id \notin DOMAIN byID
                     /\ byID' = byID
      BY <1>4, DecideEffect
    <2> DEFINE v == Evaluate(tick.ev, c.spans)
    <2>2. id \in DOMAIN byID /\ byID'[id] = byID[id] /\ (c.id = id => v = "ERROR")
      <3>1. CASE /\ c.id \in DOMAIN byID
                 /\ byID' = [byID EXCEPT ![c.id].decision = v, ![c.id].state = "DECIDED"]
        <4>1. id # c.id
          <5>1. byID[c.id] \in Store!Trace
            BY <3>1, StoreFacts DEF EngineInv, Typed
          <5>2. byID'[c.id].state = "DECIDED"
            BY <3>1, <5>1 DEF Store!Trace
          <5> QED
            BY <5>2
        <4> QED
          BY <3>1, <4>1
      <3>2. CASE (v = "ERROR" \/ c.id \notin DOMAIN byID) /\ byID' = byID
        BY <3>2
      <3> QED
        BY <2>1, <3>1, <3>2
    <2>3. v = "ERROR" => c.spans \cap FailsOn[tick.ev] # {}
      BY EvaluateFails
    <2> HIDE DEF v
    <2>4. \A d \in Held' : d \in Held
      BY <2>1
    <2>5. CASE \E d \in Held' : d.id = id
      BY <2>2, <2>4, <2>5 DEF ReadyInv
    <2>6. CASE ~ \E d \in Held' : d.id = id
      <3>1. c.id = id => c.spans \subseteq byID[id].spans
        BY <2>2 DEF ReadyInv
      <3>2. \E p \in Policy : byID[id].spans \cap FailsOn[p] # {}
        <4>1. CASE c.id = id
          BY <2>1, <2>2, <2>3, <3>1, <4>1
        <4>2. CASE c.id # id
          BY <2>1, <2>2, <2>6, <4>2 DEF ReadyInv
        <4> QED
          BY <4>1, <4>2
      <3> QED
        BY <2>2, <2>6, <3>2
    <2> QED
      BY <2>5, <2>6
  <1>5. ASSUME NEW s \in Setter, ReEvaluate(s)
        PROVE  /\ \/ \E c \in Held' : c.id = id
                  \/ \E p \in Policy : byID'[id].spans \cap FailsOn[p] # {}
               /\ \A c \in Held' : c.id = id => c.spans \subseteq byID'[id].spans
    <2> DEFINE v == Evaluate(setter[s].ev, byID[id].spans)
    <2>1. /\ id \in DOMAIN byID /\ Held' = Held
          /\ byID'[id] = IF v = "ERROR" THEN byID[id] ELSE [byID[id] EXCEPT !.decision = v]
      BY <1>5, UpdateEffect
    <2>2. byID[id] \in Store!Trace
      BY <2>1, StoreFacts DEF EngineInv, Typed
    <2> HIDE DEF v
    <2>3. byID'[id].spans = byID[id].spans /\ byID'[id].state = byID[id].state
      BY <2>1, <2>2 DEF Store!Trace
    <2> QED
      BY <2>1, <2>3 DEF ReadyInv
  <1> QED
    BY <1>1, <1>2, <1>3, <1>4, <1>5, TraceSteps

\* Whatever the interleaving, a trace flipped to READY will be decided by the
\* decideDue that flipped it, or a policy has failed on its spans.
THEOREM ReadyStaysPending == Spec => []ReadyIsPending
  <1>1. Init => ReadyInv
    BY DEF Init, Store!Init, ReadyInv
  <1>2. EngineInv /\ ReadyInv /\ [Next]_vars => ReadyInv'
    BY ReadyInvNext
  <1>3. ReadyInv => ReadyIsPending
    BY CopiedIsHeld DEF ReadyInv, ReadyIsPending, Store!Retained
  <1> QED
    BY <1>1, <1>2, <1>3, EngineInvHolds, PTL DEF Spec

-----------------------------------------------------------------------------
\* A trace decided, or held as a copy to be decided, has waited.
WaitInv ==
  \A id \in DOMAIN byID \ late :
    byID[id].state = "DECIDED" \/ (\E c \in Held : c.id = id) =>
      \E p \in Policy : clock - byID[id].firstSeen >= Wait[p]

LEMMA WaitInvNext ==
  ASSUME EngineInv, WaitInv, [Next]_vars
  PROVE  WaitInv'
  <1> SUFFICES ASSUME NEW id \in DOMAIN byID' \ late',
                      byID'[id].state = "DECIDED" \/ (\E c \in Held' : c.id = id)
               PROVE  \E p \in Policy : clock' - byID'[id].firstSeen >= Wait[p]
    BY DEF WaitInv
  <1>t. /\ \A p \in Policy : Wait[p] \in Nat
        /\ clock \in Nat /\ clock' \in Nat /\ clock' >= clock
        /\ \A x \in DOMAIN byID : byID[x] \in Store!Trace /\ byID[x].firstSeen \in Nat
    <2>1. \A x \in DOMAIN byID : byID[x] \in Store!Trace
      BY StoreFacts DEF EngineInv, Typed
    <2> QED
      BY <2>1, ClockGrows, EngineAssumption DEF EngineAssumption, Store!Trace
  \* It is enough that it had waited before.
  <1>w. ASSUME id \in DOMAIN byID \ late, byID'[id].firstSeen = byID[id].firstSeen,
               byID[id].state = "DECIDED" \/ (\E c \in Held : c.id = id)
        PROVE  \E p \in Policy : clock' - byID'[id].firstSeen >= Wait[p]
    <2>1. PICK p \in Policy : clock - byID[id].firstSeen >= Wait[p]
      BY <1>w DEF WaitInv
    <2>2. clock' - byID'[id].firstSeen >= Wait[p]
      BY <1>t, <1>w, <2>1
    <2> QED
      BY <2>2
  <1>1. CASE UNCHANGED <<byID, late>> /\ Held' = Held
    BY <1>1, <1>w
  <1>2. CASE ReceiveFrame
    <2>1. Held' = Held
      BY <1>2 DEF ReceiveFrame, Held
    <2>2. PICK touched \in SUBSET TraceID :
            /\ late' = late \cup (touched \cap Copied)
            /\ \A x \in DOMAIN byID' \ touched : x \in DOMAIN byID /\ byID'[x] = byID[x]
            /\ \A x \in DOMAIN byID' \cap touched : byID'[x].state # "DECIDED"
      BY <1>2, FrameEffect DEF EngineInv
    <2>3. id \notin touched
      BY <2>1, <2>2, CopiedIsHeld
    <2> QED
      BY <1>w, <2>1, <2>2, <2>3
  <1>3. CASE CollectDue
    <2> DEFINE due == Store!Due(tick.now, Wait[tick.ev])
    <2>1. /\ Held = {} /\ { c.id : c \in Held' } = due /\ late' = late \ due
          /\ id \in DOMAIN byID
          /\ byID'[id] = IF id \in due THEN [byID[id] EXCEPT !.state = "READY"] ELSE byID[id]
          /\ tick.ev \in Policy /\ tick.now \in 0 .. clock
      BY <1>3, CollectEffect
    <2>2. clock' = clock
      BY <1>3 DEF CollectDue
    <2>3. id \in due => tick.now - byID[id].firstSeen >= Wait[tick.ev]
      BY DEF Store!Due
    <2> HIDE DEF due
    <2>4. byID'[id].firstSeen = byID[id].firstSeen
      BY <1>t, <2>1 DEF Store!Trace
    <2>5. CASE id \in due
      <3>1. clock' - byID'[id].firstSeen >= Wait[tick.ev]
        BY <1>t, <2>1, <2>2, <2>3, <2>4, <2>5
      <3> QED
        BY <2>1, <3>1
    <2>6. CASE id \notin due
      <3>1. byID'[id].state = "DECIDED"
        BY <2>1, <2>6
      <3> QED
        BY <1>w, <2>1, <2>4, <2>6, <3>1
    <2> QED
      BY <2>5, <2>6
  <1>4. CASE Decide
    <2>1. PICK c \in Held :
            LET v == Evaluate(tick.ev, c.spans)
            IN /\ Held = {c} \cup Held' /\ late' = late
               /\ \/ /\ c.id \in DOMAIN byID
                     /\ byID' = [byID EXCEPT ![c.id].decision = v,
                                             ![c.id].state = "DECIDED"]
                  \/ byID' = byID
      BY <1>4, DecideEffect
    <2> DEFINE v == Evaluate(tick.ev, c.spans)
    <2> HIDE DEF v
    <2>2. CASE byID' = byID
      BY <1>w, <2>1, <2>2
    <2>3. CASE /\ c.id \in DOMAIN byID
               /\ byID' = [byID EXCEPT ![c.id].decision = v, ![c.id].state = "DECIDED"]
      <3>1. byID[c.id] \in Store!Trace /\ DOMAIN byID' = DOMAIN byID
        BY <1>t, <2>3
      <3>2. byID'[id].firstSeen = byID[id].firstSeen
        BY <2>3, <3>1 DEF Store!Trace
      <3>3. CASE id = c.id
        BY <1>w, <2>1, <3>1, <3>2, <3>3
      <3>4. CASE id # c.id
        <4>1. byID'[id] = byID[id]
          BY <2>3, <3>4
        <4> QED
          BY <1>w, <2>1, <3>1, <3>2, <4>1
      <3> QED
        BY <3>3, <3>4
    <2> QED
      BY <2>1, <2>2, <2>3 DEF v
  <1>5. ASSUME NEW s \in Setter, ReEvaluate(s)
        PROVE  \E p \in Policy : clock' - byID'[id].firstSeen >= Wait[p]
    <2> DEFINE v == Evaluate(setter[s].ev, byID[id].spans)
    <2>1. /\ id \in DOMAIN byID /\ Held' = Held /\ late' = late
          /\ byID'[id] = IF v = "ERROR" THEN byID[id] ELSE [byID[id] EXCEPT !.decision = v]
      BY <1>5, UpdateEffect
    <2> HIDE DEF v
    <2>2. byID'[id].firstSeen = byID[id].firstSeen /\ byID'[id].state = byID[id].state
      BY <1>t, <2>1 DEF Store!Trace
    <2> QED
      BY <1>w, <2>1, <2>2
  <1> QED
    BY <1>1, <1>2, <1>3, <1>4, <1>5, TraceSteps

\* No trace is decided before some policy set's decision_wait has passed since
\* its first span, but those whose spans changed under the ticker's copy.
THEOREM NeverDecidedEarly == Spec => []NoEarlyDecision
  <1>1. Init => WaitInv
    BY DEF Init, Store!Init, WaitInv
  <1>2. EngineInv /\ WaitInv /\ [Next]_vars => WaitInv'
    BY WaitInvNext
  <1>3. WaitInv => NoEarlyDecision
    BY DEF WaitInv, NoEarlyDecision, Decided, Store!Retained
  <1> QED
    BY <1>1, <1>2, <1>3, EngineInvHolds, PTL DEF Spec

-----------------------------------------------------------------------------
\* The ticker's copy of a trace that is not late is the trace.
CopyInv == \A c \in Held : c.id \in DOMAIN byID \ late => c.spans = byID[c.id].spans

LEMMA CopyInvNext ==
  ASSUME EngineInv, CopyInv, [Next]_vars
  PROVE  CopyInv'
  <1> SUFFICES ASSUME NEW c \in Held', c.id \in DOMAIN byID' \ late'
               PROVE  c.spans = byID'[c.id].spans
    BY DEF CopyInv
  <1>t. \A x \in DOMAIN byID : byID[x] \in Store!Trace
    BY StoreFacts DEF EngineInv, Typed
  <1>1. CASE UNCHANGED <<byID, late>> /\ Held' = Held
    BY <1>1 DEF CopyInv
  <1>2. CASE ReceiveFrame
    <2>1. Held' = Held
      BY <1>2 DEF ReceiveFrame, Held
    <2>2. PICK touched \in SUBSET TraceID :
            /\ late' = late \cup (touched \cap Copied)
            /\ \A x \in DOMAIN byID' \ touched : x \in DOMAIN byID /\ byID'[x] = byID[x]
      BY <1>2, FrameEffect DEF EngineInv
    <2>3. c.id \notin touched
      BY <2>1, <2>2, CopiedIsHeld
    <2> QED
      BY <2>1, <2>2, <2>3 DEF CopyInv
  <1>3. CASE CollectDue
    <2> DEFINE due == Store!Due(tick.now, Wait[tick.ev])
    <2>1. /\ c.id \in DOMAIN byID /\ c.spans = byID[c.id].spans
          /\ byID'[c.id] = IF c.id \in due THEN [byID[c.id] EXCEPT !.state = "READY"]
                           ELSE byID[c.id]
      BY <1>3, CollectEffect
    <2> HIDE DEF due
    <2>2. byID'[c.id].spans = byID[c.id].spans
      BY <1>t, <2>1 DEF Store!Trace
    <2> QED
      BY <2>1, <2>2
  <1>4. CASE Decide
    <2>1. PICK d \in Held :
            LET v == Evaluate(tick.ev, d.spans)
            IN /\ Held = {d} \cup Held' /\ late' = late
               /\ \/ /\ d.id \in DOMAIN byID
                     /\ byID' = [byID EXCEPT ![d.id].decision = v,
                                             ![d.id].state = "DECIDED"]
                  \/ byID' = byID
      BY <1>4, DecideEffect
    <2> DEFINE v == Evaluate(tick.ev, d.spans)
    <2> HIDE DEF v
    <2>2. CASE byID' = byID
      BY <2>1, <2>2 DEF CopyInv
    <2>3. CASE /\ d.id \in DOMAIN byID
               /\ byID' = [byID EXCEPT ![d.id].decision = v, ![d.id].state = "DECIDED"]
      <3>1. byID[d.id] \in Store!Trace /\ DOMAIN byID' = DOMAIN byID
        BY <1>t, <2>3
      <3>2. byID'[c.id].spans = byID[c.id].spans
        BY <2>3, <3>1 DEF Store!Trace
      <3> QED
        BY <2>1, <3>1, <3>2 DEF CopyInv
    <2> QED
      BY <2>1, <2>2, <2>3 DEF v
  <1>5. ASSUME NEW s \in Setter, ReEvaluate(s)
        PROVE  c.spans = byID'[c.id].spans
    <2> DEFINE v == Evaluate(setter[s].ev, byID[c.id].spans)
    <2>1. /\ c.id \in DOMAIN byID \ late /\ Held' = Held
          /\ byID'[c.id] = IF v = "ERROR" THEN byID[c.id]
                           ELSE [byID[c.id] EXCEPT !.decision = v]
      BY <1>5, UpdateEffect
    <2> HIDE DEF v
    <2>2. byID'[c.id].spans = byID[c.id].spans
      BY <1>t, <2>1 DEF Store!Trace
    <2> QED
      BY <2>1, <2>2 DEF CopyInv
  <1> QED
    BY <1>1, <1>2, <1>3, <1>4, <1>5, TraceSteps

-----------------------------------------------------------------------------
\* A SetPolicy that has its policy set goes on with it, alone.
LEMMA SetterGoesOn ==
  ASSUME EngineInv, NEW s \in Setter,
         ResetStats(s) \/ ReEvaluate(s) \/ RecordReEvaluated(s)
  PROVE  /\ UNCHANGED <<evaluator, tick, overlap>>
         /\ \A u \in Setter \ {s} : setter'[u] = setter[u]
         /\ setter[s].pc # "idle"
         /\ setter'[s].pc # "idle" => setter'[s].ev = setter[s].ev
         /\ ResetStats(s) => setter'[s].pc = "visit"
         /\ ReEvaluate(s) => setter[s].pc = "visit" /\ setter'[s].pc \in {"idle", "record"}
         /\ RecordReEvaluated(s) =>
              setter[s].pc = "record" /\ setter'[s].pc \in {"idle", "record"}
  <1> DEFINE One == [pc : {"idle", "reset", "visit", "record"},
                     ev : Policy \cup {None}, todo : Seq(Verdicts)]
  <1>0. setter \in [Setter -> One] /\ setter[s] \in One
    BY DEF EngineInv, Typed
  <1>1. CASE ResetStats(s)
    <2>1. setter[s].pc = "reset" /\ setter' = [setter EXCEPT ![s].pc = "visit"]
      BY <1>1 DEF ResetStats
    <2>2. UNCHANGED <<evaluator, tick, overlap>>
      BY <1>1 DEF ResetStats, history
    <2>3. ~ ReEvaluate(s) /\ ~ RecordReEvaluated(s)
      BY <2>1 DEF ReEvaluate, RecordReEvaluated
    <2> QED
      BY <1>0, <2>1, <2>2, <2>3
  <1>2. CASE ReEvaluate(s)
    <2> DEFINE visit == [id \in Store!Retained |-> Evaluate(setter[s].ev, byID[id].spans)]
               ids == InOrder(order, { id \in Decided : visit[id] # "ERROR" })
               todo == [i \in DOMAIN ids |-> visit[ids[i]]]
    <2>1. /\ setter[s].pc = "visit"
          /\ setter' = [setter EXCEPT ![s] = IF ids = << >> THEN Resting
                                             ELSE [@ EXCEPT !.pc = "record", !.todo = todo]]
      BY <1>2 DEF ReEvaluate
    <2>2. UNCHANGED <<evaluator, tick, overlap>>
      BY <1>2 DEF ReEvaluate, history
    <2>3. ~ ResetStats(s) /\ ~ RecordReEvaluated(s)
      BY <2>1 DEF ResetStats, RecordReEvaluated
    <2> HIDE DEF todo, ids
    <2>4. CASE ids = << >>
      BY <1>0, <2>1, <2>2, <2>3, <2>4 DEF Resting
    <2>5. CASE ids # << >>
      BY <1>0, <2>1, <2>2, <2>3, <2>5
    <2> QED
      BY <2>4, <2>5
  <1>3. CASE RecordReEvaluated(s)
    <2> DEFINE rest == Tail(setter[s].todo)
    <2>1. /\ setter[s].pc = "record"
          /\ setter' = [setter EXCEPT ![s] = IF rest = << >> THEN Resting
                                             ELSE [@ EXCEPT !.todo = rest]]
      BY <1>3 DEF RecordReEvaluated
    <2>2. UNCHANGED <<evaluator, tick, overlap>>
      BY <1>3 DEF RecordReEvaluated, history
    <2>3. ~ ResetStats(s) /\ ~ ReEvaluate(s)
      BY <2>1 DEF ResetStats, ReEvaluate
    <2> HIDE DEF rest
    <2>4. CASE rest = << >>
      BY <1>0, <2>1, <2>2, <2>3, <2>4 DEF Resting
    <2>5. CASE rest # << >>
      BY <1>0, <2>1, <2>2, <2>3, <2>5
    <2> QED
      BY <2>4, <2>5
  <1> QED
    BY <1>1, <1>2, <1>3

\* Without an overlap, everyone who holds a policy set holds the one in force,
\* and at most one SetPolicy runs.
GenerationInv ==
  ~ overlap =>
    /\ tick.pc # "idle" => tick.ev = evaluator
    /\ \A s \in Setter : setter[s].pc # "idle" => setter[s].ev = evaluator
    /\ \A s, u \in Setter : setter[s].pc # "idle" /\ setter[u].pc # "idle" => s = u

LEMMA TickerKeepsPolicy ==
  ASSUME EngineInv, DecideDue, tick'.pc # "idle"
  PROVE  \/ tick.pc # "idle" /\ tick'.ev = tick.ev
         \/ tick'.ev = evaluator
  <1>0. tick \in [pc : {"idle", "due", "decide", "record"},
               ev : Policy \cup {None}, now : Nat, due : Seq(Copy), result : Verdicts]
    BY DEF EngineInv, Typed
  <1>i. Idle.pc = "idle"
    BY DEF Idle
  <1>1. CASE ReadEvaluator
    BY <1>1 DEF ReadEvaluator, Idle
  <1>2. CASE CollectDue
    <2>1. PICK copies :
            /\ tick.pc = "due"
            /\ \/ tick' = Idle
               \/ tick' = [tick EXCEPT !.pc = "decide", !.due = copies]
      BY <1>2 DEF CollectDue
    <2>2. tick' # Idle
      BY <1>i
    <2>3. tick'.ev = tick.ev
      BY <1>0, <2>1, <2>2
    <2> QED
      BY <2>1, <2>3
  <1>3. CASE Decide
    <2>1. PICK rest, v :
            /\ tick.pc = "decide"
            /\ \/ tick' = Idle
               \/ tick' = [tick EXCEPT !.pc = "record", !.due = rest, !.result = v]
               \/ tick' = [tick EXCEPT !.due = rest]
      BY <1>3 DEF Decide
    <2>2. tick' # Idle
      BY <1>i
    <2>3. tick'.ev = tick.ev
      BY <1>0, <2>1, <2>2
    <2> QED
      BY <2>1, <2>3
  <1>4. CASE RecordDecision
    <2>1. /\ tick.pc = "record"
          /\ \/ tick' = Idle
             \/ tick' = [tick EXCEPT !.pc = "decide", !.result = "ERROR"]
      BY <1>4 DEF RecordDecision
    <2>2. tick' # Idle
      BY <1>i
    <2>3. tick'.ev = tick.ev
      BY <1>0, <2>1, <2>2
    <2> QED
      BY <2>1, <2>3
  <1> QED
    BY <1>1, <1>2, <1>3, <1>4 DEF DecideDue

LEMMA GenerationInvNext ==
  ASSUME EngineInv, GenerationInv, [Next]_vars
  PROVE  GenerationInv'
  <1>1. CASE UNCHANGED <<evaluator, tick, setter, overlap>>
    BY <1>1 DEF GenerationInv
  <1>2. TimePasses \/ ReceiveFrame \/ UNCHANGED vars => UNCHANGED <<evaluator, tick, setter, overlap>>
    BY DEF TimePasses, ReceiveFrame, vars, history
  <1>3. CASE DecideDue
    <2>1. UNCHANGED <<evaluator, setter, overlap>>
      BY <1>3, TickSteps
    <2> QED
      BY <1>3, <2>1, TickerKeepsPolicy DEF GenerationInv
  <1>4. ASSUME NEW s \in Setter, SwapEvaluator(s) PROVE GenerationInv'
    <2>1. PICK p \in Policy : /\ evaluator' = p
                              /\ setter' = [setter EXCEPT ![s].pc = "reset", ![s].ev = p]
      BY <1>4 DEF SwapEvaluator
    <2>2. /\ overlap' = (overlap \/ tick.pc # "idle"
                                 \/ \E u \in Setter \ {s} : setter[u].pc # "idle")
          /\ tick' = tick
      BY <1>4 DEF SwapEvaluator
    <2>3. setter \in [Setter -> [pc : {"idle", "reset", "visit", "record"},
                                 ev : Policy \cup {None}, todo : Seq(Verdicts)]]
      BY DEF EngineInv, Typed
    <2>4. setter'[s].ev = p /\ \A u \in Setter \ {s} : setter'[u] = setter[u]
      BY <2>1, <2>3
    <2>5. CASE overlap'
      BY <2>5 DEF GenerationInv
    <2>6. CASE ~ overlap'
      <3>1. tick'.pc = "idle" /\ \A u \in Setter \ {s} : setter'[u].pc = "idle"
        BY <2>2, <2>4, <2>6
      <3> QED
        BY <2>1, <2>4, <3>1 DEF GenerationInv
    <2> QED
      BY <2>5, <2>6
  <1>5. ASSUME NEW s \in Setter, ResetStats(s) \/ ReEvaluate(s) \/ RecordReEvaluated(s)
        PROVE  GenerationInv'
    <2>1. /\ UNCHANGED <<evaluator, tick, overlap>>
          /\ \A u \in Setter \ {s} : setter'[u] = setter[u]
          /\ setter[s].pc # "idle"
          /\ setter'[s].pc # "idle" => setter'[s].ev = setter[s].ev
      BY <1>5, SetterGoesOn
    <2> QED
      BY <2>1 DEF GenerationInv
  <1> QED
    BY <1>1, <1>2, <1>3, <1>4, <1>5 DEF Next, SetPolicy

\* A policy comes into force by a re-evaluation only.
LEMMA ForceKept ==
  ASSUME EngineInv, [Next]_vars, PolicyInForce', ~ overlap',
         \A s \in Setter : ~ ReEvaluate(s)
  PROVE  PolicyInForce /\ ~ overlap /\ evaluator' = evaluator
  <1>1. CASE UNCHANGED <<evaluator, setter, overlap>>
    BY <1>1 DEF PolicyInForce
  <1>2. TimePasses \/ ReceiveFrame \/ UNCHANGED vars => UNCHANGED <<evaluator, setter, overlap>>
    BY DEF TimePasses, ReceiveFrame, vars, history
  <1>3. DecideDue => UNCHANGED <<evaluator, setter, overlap>>
    BY TickSteps
  <1>4. ASSUME NEW s \in Setter, SwapEvaluator(s) PROVE FALSE
    <2>1. PICK p \in Policy : setter' = [setter EXCEPT ![s].pc = "reset", ![s].ev = p]
      BY <1>4 DEF SwapEvaluator
    <2>2. setter \in [Setter -> [pc : {"idle", "reset", "visit", "record"},
                                 ev : Policy \cup {None}, todo : Seq(Verdicts)]]
      BY DEF EngineInv, Typed
    <2>3. setter'[s].pc = "reset"
      BY <2>1, <2>2
    <2> QED
      BY <2>3 DEF PolicyInForce
  <1>5. ASSUME NEW s \in Setter, ResetStats(s) PROVE FALSE
    <2>1. setter'[s].pc = "visit"
      BY <1>5, SetterGoesOn
    <2> QED
      BY <2>1 DEF PolicyInForce
  <1>6. ASSUME NEW s \in Setter, RecordReEvaluated(s)
        PROVE  PolicyInForce /\ ~ overlap /\ evaluator' = evaluator
    <2>1. /\ UNCHANGED <<evaluator, overlap>> /\ setter[s].pc = "record"
          /\ \A u \in Setter \ {s} : setter'[u] = setter[u]
      BY <1>6, SetterGoesOn
    <2> QED
      BY <2>1 DEF PolicyInForce
  <1> QED
    BY <1>1, <1>2, <1>3, <1>4, <1>5, <1>6 DEF Next, SetPolicy

LEMMA FollowNext ==
  ASSUME EngineInv, GenerationInv, CopyInv, DecisionsFollowPolicy, [Next]_vars
  PROVE  DecisionsFollowPolicy'
  <1>d. Decided = { x \in DOMAIN byID : byID[x].state = "DECIDED" }
    BY DEF Decided, Store!Retained
  <1>e. Decided' = { x \in DOMAIN byID' : byID'[x].state = "DECIDED" }
    BY DEF Decided, Store!Retained
  <1> SUFFICES ASSUME PolicyInForce', ~ overlap', NEW id \in Decided' \ late'
               PROVE  Evaluate(evaluator', byID'[id].spans) \in {byID'[id].decision, "ERROR"}
    BY DEF DecisionsFollowPolicy, Evaluate
  <1>t. \A x \in DOMAIN byID : byID[x] \in Store!Trace
    BY StoreFacts DEF EngineInv, Typed
  <1>1. ASSUME NEW s \in Setter, ReEvaluate(s)
        PROVE  Evaluate(evaluator', byID'[id].spans) \in {byID'[id].decision, "ERROR"}
    <2>1. UNCHANGED <<evaluator, overlap>> /\ setter[s].pc = "visit"
      BY <1>1, SetterGoesOn
    <2>2. setter[s].ev = evaluator
      BY <2>1 DEF GenerationInv
    <2> DEFINE v == Evaluate(evaluator, byID[id].spans)
    <2>3. /\ id \in DOMAIN byID
          /\ byID'[id] = IF v = "ERROR" THEN byID[id] ELSE [byID[id] EXCEPT !.decision = v]
      BY <1>1, <1>e, <2>2, UpdateEffect
    <2> HIDE DEF v
    <2>4. byID'[id].spans = byID[id].spans /\ (v # "ERROR" => byID'[id].decision = v)
      BY <1>t, <2>3 DEF Store!Trace
    <2>5. Evaluate(evaluator', byID'[id].spans) = v
      BY <2>1, <2>4 DEF v
    <2> QED
      BY <2>4, <2>5
  <1>2. ASSUME \A s \in Setter : ~ ReEvaluate(s)
        PROVE  Evaluate(evaluator', byID'[id].spans) \in {byID'[id].decision, "ERROR"}
    <2>1. PolicyInForce /\ ~ overlap /\ evaluator' = evaluator
      BY <1>2, ForceKept
    \* Nothing to show for a trace that is as it was.
    <2>k. ASSUME id \in Decided \ late, byID'[id] = byID[id]
          PROVE  Evaluate(evaluator', byID'[id].spans) \in {byID'[id].decision, "ERROR"}
      BY <2>1, <2>k DEF DecisionsFollowPolicy
    <2>2. CASE UNCHANGED <<byID, late>>
      BY <1>d, <1>e, <2>2, <2>k
    <2>3. CASE ReceiveFrame
      <3>1. PICK touched \in SUBSET TraceID :
              /\ late' = late \cup (touched \cap Copied)
              /\ \A x \in DOMAIN byID' \ touched : x \in DOMAIN byID /\ byID'[x] = byID[x]
              /\ \A x \in DOMAIN byID' \cap touched : byID'[x].state # "DECIDED"
        BY <2>3, FrameEffect DEF EngineInv
      <3> QED
        BY <1>d, <1>e, <2>k, <3>1
    <2>4. CASE CollectDue
      <3> DEFINE due == Store!Due(tick.now, Wait[tick.ev])
      <3>1. /\ id \in DOMAIN byID /\ late' = late \ due
            /\ byID'[id] = IF id \in due THEN [byID[id] EXCEPT !.state = "READY"]
                           ELSE byID[id]
        BY <1>e, <2>4, CollectEffect
      <3> HIDE DEF due
      <3>2. id \notin due
        BY <1>e, <1>t, <3>1 DEF Store!Trace
      <3> QED
        BY <1>d, <1>e, <2>k, <3>1, <3>2
    <2>5. CASE Decide
      <3>1. PICK c \in Held :
              LET v == Evaluate(tick.ev, c.spans)
              IN /\ late' = late
                 /\ \/ /\ c.id \in DOMAIN byID
                       /\ byID' = [byID EXCEPT ![c.id].decision = v,
                                               ![c.id].state = "DECIDED"]
                    \/ byID' = byID
        BY <2>5, DecideEffect
      <3> DEFINE v == Evaluate(tick.ev, c.spans)
      <3> HIDE DEF v
      <3>2. CASE byID' = byID
        BY <1>d, <1>e, <2>k, <3>1, <3>2
      <3>3. CASE /\ c.id \in DOMAIN byID
                 /\ byID' = [byID EXCEPT ![c.id].decision = v, ![c.id].state = "DECIDED"]
        <4>1. byID[c.id] \in Store!Trace /\ DOMAIN byID' = DOMAIN byID
          BY <1>t, <3>3
        <4>2. CASE id # c.id
          <5>1. byID'[id] = byID[id]
            BY <1>e, <3>3, <4>1, <4>2
          <5>2. late' = late
            BY <3>1
          <5>3. id \in Decided \ late
            BY <1>d, <1>e, <4>1, <5>1, <5>2
          <5> QED
            BY <2>k, <5>1, <5>3
        <4>3. CASE id = c.id
          <5>1. tick.ev = evaluator
            BY <2>1, <2>5 DEF GenerationInv, Decide
          <5>2. c.spans = byID[id].spans
            BY <1>e, <3>1, <4>1, <4>3 DEF CopyInv
          <5>3. v = Evaluate(evaluator', byID[id].spans)
            BY <2>1, <5>1, <5>2 DEF v
          <5>4. byID'[id].spans = byID[id].spans /\ byID'[id].decision = v
            BY <3>3, <4>1, <4>3 DEF Store!Trace
          <5> QED
            BY <5>3, <5>4
        <4> QED
          BY <4>2, <4>3
      <3> QED
        BY <3>1, <3>2, <3>3 DEF v
    <2> QED
      BY <1>2, <2>2, <2>3, <2>4, <2>5, TraceSteps
  <1> QED
    BY <1>1, <1>2

\* Once no SetPolicy is between its swap and its re-evaluation, a decided
\* trace shows what the policy set in force concludes from all of its spans,
\* under the two provisos of the property.
THEOREM PolicyIsFollowed == Spec => []DecisionsFollowPolicy
  <1> DEFINE Inv == GenerationInv /\ CopyInv /\ DecisionsFollowPolicy
  <1>1. Init => Inv
    <2>1. ASSUME Init PROVE GenerationInv
      BY <2>1 DEF Init, GenerationInv, Idle, Resting
    <2>2. ASSUME Init PROVE CopyInv
      BY <2>2 DEF Init, Store!Init, CopyInv
    <2>3. ASSUME Init PROVE DecisionsFollowPolicy
      <3>1. Decided = {}
        BY <2>3 DEF Init, Store!Init, Decided, Store!Retained
      <3> QED
        BY <3>1 DEF DecisionsFollowPolicy
    <2> QED
      BY <2>1, <2>2, <2>3
  <1>2. EngineInv /\ Inv /\ [Next]_vars => Inv'
    BY GenerationInvNext, CopyInvNext, FollowNext
  <1>3. Inv => DecisionsFollowPolicy
    OBVIOUS
  <1> QED
    BY <1>1, <1>2, <1>3, EngineInvHolds, PTL DEF Spec

-----------------------------------------------------------------------------
(* Counting: what the statistics count, and what is still to be recorded.  *)

Occurs(q, v) == Cardinality({ i \in DOMAIN q : q[i] = v })

LEMMA OccursNat ==
  ASSUME NEW S, NEW q \in Seq(S), NEW v
  PROVE  IsFiniteSet({ i \in DOMAIN q : q[i] = v }) /\ Occurs(q, v) \in Nat
  <1>1. IsFiniteSet(1 .. Len(q)) /\ DOMAIN q = 1 .. Len(q)
    BY FS_Interval
  <1>2. IsFiniteSet({ i \in DOMAIN q : q[i] = v })
    BY <1>1, FS_Subset
  <1> QED
    BY <1>2, FS_CardinalityType DEF Occurs

\* Taking the head of a list away takes one occurrence of it away.
LEMMA OccursRest ==
  ASSUME NEW S, NEW q \in Seq(S), q # << >>, NEW v
  PROVE  Occurs(q, v) = Occurs(Tail(q), v) + (IF Head(q) = v THEN 1 ELSE 0)
  <1> DEFINE r == Tail(q)
             A == { i \in DOMAIN q : q[i] = v }
             B == { i \in DOMAIN r : r[i] = v }
             C == A \ {1}
             f == [i \in B |-> i + 1]
  <1>1. /\ DOMAIN q = 1 .. Len(q) /\ Len(q) \in Nat \ {0} /\ Head(q) = q[1]
        /\ r \in Seq(S) /\ DOMAIN r = 1 .. Len(q) - 1
        /\ \A i \in 1 .. Len(q) - 1 : r[i] = q[i + 1]
    OBVIOUS
  <1> HIDE DEF r
  <1>2. IsFiniteSet(A) /\ IsFiniteSet(B)
    BY <1>1, OccursNat
  <1>3. f \in [B -> C]
    BY <1>1
  <1>4. \A i, j \in B : f[i] = f[j] => i = j
    BY <1>1
  <1>5. \A k \in C : \E i \in B : f[i] = k
    <2> SUFFICES ASSUME NEW k \in C PROVE k - 1 \in B /\ f[k - 1] = k
      OBVIOUS
    <2> QED
      BY <1>1
  <1> HIDE DEF f, C, B, A
  <1>6. f \in Bijection(B, C)
    BY <1>3, <1>4, <1>5 DEF Bijection, Injection, Surjection, IsInjective
  <1>7. Cardinality(C) = Cardinality(B)
    BY <1>2, <1>6, FS_Bijection DEF ExistsBijection
  <1>8. Cardinality(C) = IF 1 \in A THEN Cardinality(A) - 1 ELSE Cardinality(A)
    BY <1>2, FS_RemoveElement DEF C
  <1>9. 1 \in A <=> Head(q) = v
    BY <1>1 DEF A
  <1>10. Cardinality(A) \in Nat /\ Cardinality(B) \in Nat
    BY <1>2, FS_CardinalityType
  <1>11. Occurs(q, v) = Cardinality(A) /\ Occurs(r, v) = Cardinality(B)
    BY DEF Occurs, A, B
  <1> QED
    BY <1>7, <1>8, <1>9, <1>10, <1>11 DEF r

\* The traces that show the verdict v, and what counts for it or soon will.
Shown(v) == { id \in Evaluable : byID[id].decision = v }
CountOf(v) == IF v = "KEEP" THEN stats.keep ELSE stats.drop
TickOwes(v) == IF tick.pc = "record" /\ tick.result = v THEN 1 ELSE 0

LEMMA ShownFinite ==
  Typed => \A v : IsFiniteSet(Shown(v)) /\ Cardinality(Shown(v)) \in Nat
  <1> SUFFICES ASSUME Typed, NEW v
               PROVE  IsFiniteSet(Shown(v)) /\ Cardinality(Shown(v)) \in Nat
    OBVIOUS
  <1>1. IsFiniteSet(DOMAIN byID)
    <2>1. order \in Seq(TraceID) /\ Range(order) = DOMAIN byID
      BY StoreFacts DEF Typed
    <2>2. IsFiniteSet(1 .. Len(order))
      BY <2>1, FS_Interval
    <2>3. order \in Surjection(1 .. Len(order), Range(order))
      <3>1. DOMAIN order = 1 .. Len(order) /\ order \in [1 .. Len(order) -> Range(order)]
        BY <2>1 DEF Range
      <3>2. \A e \in Range(order) : \E i \in 1 .. Len(order) : order[i] = e
        BY <3>1 DEF Range
      <3> QED
        BY <3>1, <3>2 DEF Surjection
    <2>4. IsFiniteSet(Range(order))
      BY <2>2, <2>3, FS_Surjection
    <2> QED
      BY <2>1, <2>4
  <1>2. Shown(v) \in SUBSET (DOMAIN byID)
    BY DEF Shown, Evaluable, Decided, Store!Retained
  <1> QED
    BY <1>1, <1>2, FS_Subset, FS_CardinalityType

LEMMA CountNat ==
  ASSUME Typed, NEW v
  PROVE  CountOf(v) \in Nat /\ TickOwes(v) \in {0, 1}
  BY DEF Typed, CountOf, TickOwes

\* Record counts its verdict and no other.
LEMMA RecordCounts ==
  ASSUME Typed, NEW verdict \in Result, Record(verdict), NEW v \in Result
  PROVE  /\ CountOf(v)' = CountOf(v) + (IF verdict = v THEN 1 ELSE 0)
         /\ stats.observed = stats.keep + stats.drop =>
              stats'.observed = stats'.keep + stats'.drop
  <1>1. /\ stats.observed \in Nat /\ stats.keep \in Nat /\ stats.drop \in Nat
    BY DEF Typed
  <1>2. /\ stats'.observed = stats.observed + 1
        /\ stats'.keep = stats.keep + (IF verdict = "KEEP" THEN 1 ELSE 0)
        /\ stats'.drop = stats.drop + (IF verdict = "KEEP" THEN 0 ELSE 1)
    BY DEF Record
  <1> QED
    BY <1>1, <1>2 DEF CountOf, Result

\* Unless a re-evaluation is under way, what counts for a verdict, with what
\* the ticker and a SetPolicy still have to record, covers the traces that
\* show it.
Covered(v) ==
  /\ StoreFree => CountOf(v) + TickOwes(v) >= Cardinality(Shown(v))
  /\ \A s \in Setter :
       setter[s].pc = "record" =>
         CountOf(v) + TickOwes(v) + Occurs(setter[s].todo, v) >= Cardinality(Shown(v))

CountInv ==
  /\ stats.observed = stats.keep + stats.drop
  /\ \A id \in Decided : byID[id].decision \in Result
  /\ PolicyInForce => \A v \in Result : Covered(v)

LEMMA DecidedAre ==
  /\ Decided = { id \in DOMAIN byID : byID[id].state = "DECIDED" }
  /\ Decided' = { id \in DOMAIN byID' : byID'[id].state = "DECIDED" }
  /\ Evaluable = { id \in Decided : \A p \in Policy : byID[id].spans \cap FailsOn[p] = {} }
  /\ Evaluable' = { id \in Decided' : \A p \in Policy : byID'[id].spans \cap FailsOn[p] = {} }
  BY DEF Decided, Evaluable, Store!Retained

\* A frame, a sweep and a tick show no verdict that was not shown.
LEMMA ShownKept ==
  ASSUME EngineInv, UNCHANGED byID \/ ReceiveFrame \/ CollectDue, NEW v
  PROVE  /\ Shown(v)' \subseteq Shown(v)
         /\ \A id \in Decided' : id \in Decided /\ byID'[id].decision = byID[id].decision
  <1>1. \A id \in Decided' : id \in Decided /\ byID'[id] = byID[id]
    <2>1. CASE UNCHANGED byID
      BY <2>1, DecidedAre
    <2>2. CASE ReceiveFrame
      <3>1. PICK touched \in SUBSET TraceID :
              /\ \A x \in DOMAIN byID' \ touched : x \in DOMAIN byID /\ byID'[x] = byID[x]
              /\ \A x \in DOMAIN byID' \cap touched : byID'[x].state # "DECIDED"
        BY <2>2, FrameEffect DEF EngineInv
      <3> QED
        BY <3>1, DecidedAre
    <2>3. CASE CollectDue
      <3> SUFFICES ASSUME NEW id \in Decided' PROVE id \in Decided /\ byID'[id] = byID[id]
        OBVIOUS
      <3> DEFINE due == Store!Due(tick.now, Wait[tick.ev])
      <3>1. /\ id \in DOMAIN byID
            /\ byID'[id] = IF id \in due THEN [byID[id] EXCEPT !.state = "READY"]
                           ELSE byID[id]
        BY <2>3, CollectEffect, DecidedAre
      <3> HIDE DEF due
      <3>2. id \notin due
        <4>1. byID[id] \in Store!Trace /\ byID'[id].state = "DECIDED"
          BY <3>1, StoreFacts, DecidedAre DEF EngineInv, Typed
        <4> QED
          BY <3>1, <4>1 DEF Store!Trace
      <3> QED
        BY <3>1, <3>2, DecidedAre
    <2> QED
      BY <2>1, <2>2, <2>3
  <1>2. \A id \in Evaluable' : id \in Evaluable /\ byID'[id] = byID[id]
    BY <1>1, DecidedAre
  <1> QED
    BY <1>1, <1>2 DEF Shown

\* A decision shows its verdict, and no other that was not shown.
LEMMA DecideShows ==
  ASSUME EngineInv, Decide
  PROVE  /\ \A v \in Result :
              \/ /\ \E x : Shown(v)' \subseteq Shown(v) \cup {x}
                 /\ TickOwes(v)' = 1
              \/ Shown(v)' \subseteq Shown(v)
         /\ (\A id \in Decided : byID[id].decision \in Result) =>
              \A id \in Decided' : byID'[id].decision \in Result
  <1>1. PICK c \in Held :
          LET v == Evaluate(tick.ev, c.spans)
          IN \/ /\ v \in Result /\ c.id \in DOMAIN byID
                /\ byID' = [byID EXCEPT ![c.id].decision = v, ![c.id].state = "DECIDED"]
                /\ tick'.pc = "record" /\ tick'.result = v
             \/ byID' = byID
    BY DecideEffect
  <1> DEFINE w == Evaluate(tick.ev, c.spans)
  <1> HIDE DEF w
  <1>2. CASE byID' = byID
    <2>1. Decided' = Decided /\ Evaluable' = Evaluable
      BY <1>2, DecidedAre
    <2> QED
      BY <1>2, <2>1 DEF Shown
  <1>3. CASE /\ w \in Result /\ c.id \in DOMAIN byID
             /\ byID' = [byID EXCEPT ![c.id].decision = w, ![c.id].state = "DECIDED"]
             /\ tick'.pc = "record" /\ tick'.result = w
    <2>1. byID[c.id] \in Store!Trace /\ DOMAIN byID' = DOMAIN byID
      BY <1>3, StoreFacts DEF EngineInv, Typed
    <2>2. byID'[c.id].decision = w
      BY <1>3, <2>1 DEF Store!Trace
    <2>3. \A id \in DOMAIN byID \ {c.id} : byID'[id] = byID[id]
      BY <1>3
    <2>4. \A id \in Decided' \ {c.id} : id \in Decided /\ byID'[id] = byID[id]
      BY <2>1, <2>3, DecidedAre
    <2>5. \A id \in Evaluable' \ {c.id} : id \in Evaluable /\ byID'[id] = byID[id]
      BY <2>4, DecidedAre
    <2>6. ASSUME NEW v \in Result
          PROVE  \/ /\ \E x : Shown(v)' \subseteq Shown(v) \cup {x}
                    /\ TickOwes(v)' = 1
                 \/ Shown(v)' \subseteq Shown(v)
      <3>1. CASE v = w
        <4>1. Shown(v)' \subseteq Shown(v) \cup {c.id}
          BY <2>5 DEF Shown
        <4>2. TickOwes(v)' = 1
          BY <1>3, <3>1 DEF TickOwes
        <4> QED
          BY <4>1, <4>2
      <3>2. CASE v # w
        BY <2>2, <2>5, <3>2 DEF Shown
      <3> QED
        BY <3>1, <3>2
    <2>7. ASSUME \A id \in Decided : byID[id].decision \in Result, NEW id \in Decided'
          PROVE  byID'[id].decision \in Result
      BY <1>3, <2>2, <2>4, <2>7
    <2> QED
      BY <2>6, <2>7
  <1> QED
    BY <1>1, <1>2, <1>3 DEF w

\* A re-evaluation has to record what every decided trace shows after it.
LEMMA ReEvaluateOwes ==
  ASSUME EngineInv, NEW s \in Setter, ReEvaluate(s), NEW v \in Result
  PROVE  /\ \A u \in Setter : setter'[u].pc = "record" => u = s
         /\ setter'[s].pc # "record" => Shown(v)' = {}
         /\ setter'[s].pc = "record" =>
              /\ Occurs(setter'[s].todo, v) >= Cardinality(Shown(v)')
              /\ Cardinality(Shown(v)') \in Nat
         /\ (\A id \in Decided : byID[id].decision \in Result) =>
              \A id \in Decided' : byID'[id].decision \in Result
  <1> DEFINE visit == [id \in Store!Retained |-> Evaluate(setter[s].ev, byID[id].spans)]
             good == { id \in Decided : visit[id] # "ERROR" }
             ids == InOrder(order, good)
             todo == [i \in DOMAIN ids |-> visit[ids[i]]]
  <1>1. /\ setter[s].pc = "visit" /\ StoreFree
        /\ setter' = [setter EXCEPT ![s] = IF ids = << >> THEN Resting
                                           ELSE [@ EXCEPT !.pc = "record", !.todo = todo]]
    BY DEF ReEvaluate
  <1>2. visit \in [DOMAIN byID -> Verdicts] /\ setter[s].ev \in Policy
    BY <1>1, EvaluateVerdict, StoreFacts DEF EngineInv, Typed, SettersPlaced
  <1>3. ids \in Seq(TraceID) /\ Range(ids) = good /\ todo \in Seq(Result)
    <2> HIDE DEF visit
    <2> QED
      BY <1>2, ToRecord DEF EngineInv
  <1>4. /\ DOMAIN byID' = DOMAIN byID
        /\ \A id \in DOMAIN byID :
             byID'[id] = IF visit[id] = "ERROR" THEN byID[id]
                         ELSE [byID[id] EXCEPT !.decision = visit[id]]
    BY <1>2, UpdateEffect
  <1>5. \A id \in DOMAIN byID : visit[id] = "ERROR" => byID[id].spans \cap FailsOn[setter[s].ev] # {}
    BY <1>2, EvaluateFails
  <1>6. setter \in [Setter -> [pc : {"idle", "reset", "visit", "record"},
                               ev : Policy \cup {None}, todo : Seq(Verdicts)]]
    BY DEF EngineInv, Typed
  <1> HIDE DEF visit
  <1>7. ASSUME NEW id \in DOMAIN byID
        PROVE  /\ byID'[id].state = byID[id].state /\ byID'[id].spans = byID[id].spans
               /\ visit[id] # "ERROR" => byID'[id].decision = visit[id]
               /\ visit[id] = "ERROR" => byID'[id].decision = byID[id].decision
    <2>1. byID[id] \in Store!Trace
      BY StoreFacts DEF EngineInv, Typed
    <2> QED
      BY <1>4, <2>1 DEF Store!Trace
  <1>8. Decided' = Decided /\ Evaluable' = Evaluable /\ Decided \subseteq DOMAIN byID
    BY <1>4, <1>7, DecidedAre
  <1>9. \A id \in Evaluable : id \in good
    BY <1>2, <1>5, <1>8, DecidedAre
  <1>10. \A id \in Shown(v)' : id \in good /\ visit[id] = v
    BY <1>7, <1>8, <1>9 DEF Shown
  <1>11. \A u \in Setter \ {s} : setter'[u].pc # "record"
    BY <1>1, <1>6 DEF StoreFree
  <1>12. \A id \in DOMAIN byID : visit[id] \in Verdicts
    BY <1>2
  <1>13. ASSUME \A id \in Decided : byID[id].decision \in Result, NEW id \in Decided'
         PROVE  byID'[id].decision \in Result
    BY <1>7, <1>8, <1>12, <1>13 DEF Verdicts, Result
  <1> HIDE DEF good, ids
  <1>14. CASE ids = << >>
    <2>1. good = {}
      BY <1>3, <1>14 DEF Range
    <2>2. setter'[s] = Resting
      BY <1>1, <1>6, <1>14
    <2>3. setter'[s].pc = "idle"
      BY <2>2 DEF Resting
    <2> QED
      BY <1>10, <1>11, <1>13, <2>1, <2>3
  <1>15. CASE ids # << >>
    <2>1. setter'[s].pc = "record" /\ setter'[s].todo = todo
      <3> HIDE DEF todo
      <3> QED
        BY <1>1, <1>6, <1>15
    <2>2. Occurs(todo, v) >= Cardinality(Shown(v)') /\ Cardinality(Shown(v)') \in Nat
      <3> DEFINE I == { i \in DOMAIN todo : todo[i] = v }
                 T == { id \in good : visit[id] = v }
                 f == [i \in I |-> ids[i]]
      <3>1. f \in Surjection(I, T)
        <4>1. ASSUME NEW i \in I PROVE f[i] \in T
          BY <1>3 DEF Range
        <4>2. ASSUME NEW t \in T PROVE \E i \in I : f[i] = t
          <5>1. PICK i \in DOMAIN ids : ids[i] = t
            BY <1>3 DEF Range
          <5>2. i \in I
            BY <5>1
          <5> QED
            BY <5>1, <5>2
        <4> QED
          BY <4>1, <4>2 DEF Surjection
      <3>2. IsFiniteSet(I) /\ Occurs(todo, v) = Cardinality(I) /\ Cardinality(I) \in Nat
        BY <1>3, OccursNat DEF Occurs
      <3> HIDE DEF f, I, todo
      <3>3. IsFiniteSet(T) /\ Cardinality(T) <= Cardinality(I)
        BY <3>1, <3>2, FS_Surjection
      <3>4. Shown(v)' \in SUBSET T
        BY <1>10
      <3> HIDE DEF T
      <3>5. Cardinality(Shown(v)') <= Cardinality(T)
        BY <3>3, <3>4, FS_Subset
      <3>6. Cardinality(T) \in Nat /\ Cardinality(Shown(v)') \in Nat
        <4>1. IsFiniteSet(Shown(v)')
          BY <3>3, <3>4, FS_Subset
        <4> QED
          BY <3>3, <4>1, FS_CardinalityType
      <3> QED
        BY <3>2, <3>3, <3>5, <3>6
    <2> HIDE DEF todo
    <2> QED
      BY <1>11, <1>13, <2>1, <2>2
  <1> QED
    BY <1>14, <1>15

\* The steps that leave every SetPolicy where it is.
LEMMA CoveredOn ==
  ASSUME EngineInv, EngineInv', NEW v \in Result, setter' = setter,
         PolicyInForce => Covered(v),
         \/ /\ Shown(v)' \subseteq Shown(v)
            /\ CountOf(v)' + TickOwes(v)' >= CountOf(v) + TickOwes(v)
         \/ /\ \E x : Shown(v)' \subseteq Shown(v) \cup {x}
            /\ CountOf(v)' + TickOwes(v)' >= CountOf(v) + TickOwes(v) + 1
  PROVE  PolicyInForce' => Covered(v)'
  <1>1. IsFiniteSet(Shown(v)) /\ Cardinality(Shown(v)) \in Nat
    BY ShownFinite DEF EngineInv
  <1>2. CountOf(v) \in Nat /\ TickOwes(v) \in Nat
    BY CountNat DEF EngineInv
  <1>3. CountOf(v)' \in Nat /\ TickOwes(v)' \in Nat
    BY DEF EngineInv, Typed, CountOf, TickOwes
  <1>4. PICK n \in Nat : /\ Cardinality(Shown(v)') <= Cardinality(Shown(v)) + n
                         /\ CountOf(v)' + TickOwes(v)' >= CountOf(v) + TickOwes(v) + n
                         /\ Cardinality(Shown(v)') \in Nat
    <2>1. CASE /\ Shown(v)' \subseteq Shown(v)
               /\ CountOf(v)' + TickOwes(v)' >= CountOf(v) + TickOwes(v)
      <3>1. IsFiniteSet(Shown(v)') /\ Cardinality(Shown(v)') <= Cardinality(Shown(v))
        BY <1>1, <2>1, FS_Subset
      <3>2. Cardinality(Shown(v)') \in Nat
        BY <3>1, FS_CardinalityType
      <3> WITNESS 0 \in Nat
      <3> QED
        BY <1>1, <1>2, <1>3, <2>1, <3>1, <3>2
    <2>2. ASSUME NEW x, Shown(v)' \subseteq Shown(v) \cup {x},
                 CountOf(v)' + TickOwes(v)' >= CountOf(v) + TickOwes(v) + 1
          PROVE  \E n \in Nat :
                   /\ Cardinality(Shown(v)') <= Cardinality(Shown(v)) + n
                   /\ CountOf(v)' + TickOwes(v)' >= CountOf(v) + TickOwes(v) + n
                   /\ Cardinality(Shown(v)') \in Nat
      <3>1. /\ IsFiniteSet(Shown(v) \cup {x})
            /\ Cardinality(Shown(v) \cup {x}) <= Cardinality(Shown(v)) + 1
            /\ Cardinality(Shown(v) \cup {x}) \in Nat
        BY <1>1, FS_AddElement
      <3>2. /\ IsFiniteSet(Shown(v)')
            /\ Cardinality(Shown(v)') <= Cardinality(Shown(v) \cup {x})
        BY <2>2, <3>1, FS_Subset
      <3>3. Cardinality(Shown(v)') \in Nat
        BY <3>2, FS_CardinalityType
      <3> WITNESS 1 \in Nat
      <3> QED
        BY <1>1, <1>2, <1>3, <2>2, <3>1, <3>2, <3>3
    <2> QED
      BY <2>1, <2>2
  <1>5. \A s \in Setter : Occurs(setter[s].todo, v) \in Nat
    BY OccursNat DEF EngineInv, SettersPlaced
  <1>6. (PolicyInForce' <=> PolicyInForce) /\ (StoreFree' <=> StoreFree)
    BY DEF PolicyInForce, StoreFree
  <1> SUFFICES ASSUME Covered(v)
               PROVE  /\ StoreFree' => CountOf(v)' + TickOwes(v)' >= Cardinality(Shown(v)')
                      /\ \A s \in Setter :
                           setter'[s].pc = "record" =>
                             CountOf(v)' + TickOwes(v)' + Occurs(setter'[s].todo, v)
                               >= Cardinality(Shown(v)')
    BY <1>6 DEF Covered
  <1>7. ASSUME StoreFree' PROVE CountOf(v)' + TickOwes(v)' >= Cardinality(Shown(v)')
    BY <1>1, <1>2, <1>3, <1>4, <1>6, <1>7 DEF Covered
  <1>8. ASSUME NEW s \in Setter, setter'[s].pc = "record"
        PROVE  CountOf(v)' + TickOwes(v)' + Occurs(setter'[s].todo, v) >= Cardinality(Shown(v)')
    <2>1. CountOf(v) + TickOwes(v) + Occurs(setter[s].todo, v) >= Cardinality(Shown(v))
      BY <1>8 DEF Covered
    <2> QED
      BY <1>1, <1>2, <1>3, <1>4, <1>5, <2>1
  <1> QED
    BY <1>7, <1>8

\* A SetPolicy that records moves one verdict from what it owes to the count.
LEMMA RecordReEvaluatedCovers ==
  ASSUME EngineInv, EngineInv', NEW s \in Setter, RecordReEvaluated(s), NEW v \in Result,
         PolicyInForce, Covered(v)
  PROVE  Covered(v)'
  <1> DEFINE todo == setter[s].todo  rest == Tail(todo)
  <1>1. /\ setter[s].pc = "record" /\ Record(Head(todo))
        /\ setter' = [setter EXCEPT ![s] = IF rest = << >> THEN Resting
                                           ELSE [@ EXCEPT !.todo = rest]]
        /\ UNCHANGED <<byID, tick>>
    BY DEF RecordReEvaluated, storeVars
  <1>2. setter \in [Setter -> [pc : {"idle", "reset", "visit", "record"},
                               ev : Policy \cup {None}, todo : Seq(Verdicts)]]
    BY DEF EngineInv, Typed
  <1>3. /\ todo \in Seq(Result) /\ todo # << >>
        /\ \A u \in Setter : setter[u].pc = "record" => u = s
    BY <1>1 DEF EngineInv, SettersPlaced
  <1> HIDE DEF todo
  <1>4. /\ Head(todo) \in Result /\ rest \in Seq(Result)
        /\ Occurs(todo, v) = Occurs(rest, v) + (IF Head(todo) = v THEN 1 ELSE 0)
    BY <1>3, HeadAndRest, OccursRest
  <1>5. CountOf(v)' = CountOf(v) + (IF Head(todo) = v THEN 1 ELSE 0)
    BY <1>1, <1>4, RecordCounts DEF EngineInv
  <1>6. Shown(v)' = Shown(v) /\ TickOwes(v)' = TickOwes(v)
    BY <1>1 DEF Shown, Evaluable, Decided, Store!Retained, TickOwes
  <1> HIDE DEF rest
  <1>7. CountOf(v) + TickOwes(v) + Occurs(todo, v) >= Cardinality(Shown(v))
    BY <1>1 DEF Covered, todo
  <1>8. /\ CountOf(v) \in Nat /\ TickOwes(v) \in Nat /\ Cardinality(Shown(v)) \in Nat
        /\ Occurs(rest, v) \in Nat
    <2>1. CountOf(v) \in Nat /\ TickOwes(v) \in Nat
      BY CountNat DEF EngineInv
    <2>2. Cardinality(Shown(v)) \in Nat
      BY ShownFinite DEF EngineInv
    <2>3. Occurs(rest, v) \in Nat
      BY <1>4, OccursNat
    <2> QED
      BY <2>1, <2>2, <2>3
  <1>9. CountOf(v)' + TickOwes(v)' + Occurs(rest, v) >= Cardinality(Shown(v)')
    BY <1>4, <1>5, <1>6, <1>7, <1>8
  <1>10. \A u \in Setter \ {s} : setter'[u].pc # "record"
    BY <1>1, <1>2, <1>3
  <1>11. CASE rest = << >>
    <2>1. setter'[s].pc # "record"
      BY <1>1, <1>2, <1>11 DEF Resting
    <2>2. Occurs(rest, v) = 0
      <3>1. { i \in DOMAIN << >> : << >>[i] = v } = {}
        OBVIOUS
      <3> QED
        BY <1>11, <3>1, FS_EmptySet DEF Occurs
    <2>3. CountOf(v)' + TickOwes(v)' >= Cardinality(Shown(v)')
      BY <1>5, <1>6, <1>8, <1>9, <2>2
    <2> QED
      BY <1>10, <2>1, <2>3 DEF Covered
  <1>12. CASE rest # << >>
    <2>1. setter'[s].pc = "record" /\ setter'[s].todo = rest
      BY <1>1, <1>2, <1>12
    <2> QED
      BY <1>9, <1>10, <2>1 DEF Covered, StoreFree
  <1> QED
    BY <1>11, <1>12

LEMMA CountInvNext ==
  ASSUME EngineInv, EngineInv', CountInv, [Next]_vars
  PROVE  CountInv'
  <1> DEFINE Sums == stats.observed = stats.keep + stats.drop
             DecisionsOK == \A id \in Decided : byID[id].decision \in Result
  <1>0. Sums /\ DecisionsOK
    BY DEF CountInv
  \* The ticker, frames and time.
  <1>1. ASSUME setter' = setter, Sums', DecisionsOK',
               \A v \in Result :
                 \/ /\ Shown(v)' \subseteq Shown(v)
                    /\ CountOf(v)' + TickOwes(v)' >= CountOf(v) + TickOwes(v)
                 \/ /\ \E x : Shown(v)' \subseteq Shown(v) \cup {x}
                    /\ CountOf(v)' + TickOwes(v)' >= CountOf(v) + TickOwes(v) + 1
        PROVE  CountInv'
    <2>1. ASSUME NEW v \in Result PROVE PolicyInForce' => Covered(v)'
      <3>1. PolicyInForce => Covered(v)
        BY DEF CountInv
      <3> QED
        BY <1>1, <3>1, CoveredOn
    <2> QED
      BY <1>1, <2>1 DEF CountInv
  <1>n. \A v : CountOf(v) \in Nat /\ TickOwes(v) \in {0, 1}
    BY CountNat DEF EngineInv
  <1>2. ASSUME UNCHANGED <<stats, setter>>, UNCHANGED byID \/ ReceiveFrame \/ CollectDue,
               UNCHANGED tick \/ tick.pc # "record"
        PROVE  CountInv'
    <2>1. Sums' /\ DecisionsOK'
      BY <1>0, <1>2, ShownKept
    <2>2. ASSUME NEW v \in Result
          PROVE  CountOf(v)' = CountOf(v) /\ TickOwes(v)' >= TickOwes(v) /\ TickOwes(v)' \in Nat
      BY <1>2 DEF CountOf, TickOwes
    <2>3. ASSUME NEW v \in Result
          PROVE  /\ Shown(v)' \subseteq Shown(v)
                 /\ CountOf(v)' + TickOwes(v)' >= CountOf(v) + TickOwes(v)
      BY <1>2, <1>n, <2>2, ShownKept
    <2> QED
      BY <1>1, <1>2, <2>1, <2>3
  <1>3. CASE TimePasses \/ UNCHANGED vars \/ ReceiveFrame
    <2>1. UNCHANGED <<stats, setter, tick>> /\ (UNCHANGED byID \/ ReceiveFrame)
      BY <1>3 DEF TimePasses, Store!Tick, Store!storeVars, ReceiveFrame, vars
    <2> QED
      BY <1>2, <2>1
  <1>4. CASE ReadEvaluator \/ CollectDue
    <2>1. UNCHANGED <<stats, setter>> /\ (UNCHANGED byID \/ CollectDue) /\ tick.pc # "record"
      BY <1>4 DEF ReadEvaluator, CollectDue, storeVars
    <2> QED
      BY <1>2, <2>1
  <1>5. CASE Decide
    <2>1. UNCHANGED <<stats, setter>> /\ tick.pc = "decide"
      BY <1>5 DEF Decide
    <2>2. Sums' /\ DecisionsOK'
      BY <1>0, <1>5, <2>1, DecideShows
    <2>3. ASSUME NEW v \in Result
          PROVE  CountOf(v)' = CountOf(v) /\ TickOwes(v) = 0 /\ TickOwes(v)' \in Nat
      BY <2>1 DEF CountOf, TickOwes
    <2>4. ASSUME NEW v \in Result
          PROVE  \/ /\ Shown(v)' \subseteq Shown(v)
                    /\ CountOf(v)' + TickOwes(v)' >= CountOf(v) + TickOwes(v)
                 \/ /\ \E x : Shown(v)' \subseteq Shown(v) \cup {x}
                    /\ CountOf(v)' + TickOwes(v)' >= CountOf(v) + TickOwes(v) + 1
      <3>1. CASE Shown(v)' \subseteq Shown(v)
        BY <1>n, <2>3, <3>1
      <3>2. CASE (\E x : Shown(v)' \subseteq Shown(v) \cup {x}) /\ TickOwes(v)' = 1
        <4>1. CountOf(v)' + TickOwes(v)' >= CountOf(v) + TickOwes(v) + 1
          BY <1>n, <2>3, <3>2
        <4> QED
          BY <3>2, <4>1
      <3> QED
        BY <1>5, <3>1, <3>2, DecideShows
    <2> QED
      BY <1>1, <2>1, <2>2, <2>4
  <1>6. CASE RecordDecision
    <2>1. /\ tick.pc = "record" /\ Record(tick.result) /\ UNCHANGED <<byID, setter>>
          /\ tick' = IF tick.due = << >> THEN Idle
                     ELSE [tick EXCEPT !.pc = "decide", !.result = "ERROR"]
      BY <1>6 DEF RecordDecision, storeVars
    <2>2. tick.result \in Result
      BY <2>1 DEF EngineInv, TickPlaced
    <2>3. tick'.pc # "record"
      <3>1. tick \in [pc : {"idle", "due", "decide", "record"}, ev : Policy \cup {None},
                      now : Nat, due : Seq(Copy), result : Verdicts]
        BY DEF EngineInv, Typed
      <3> QED
        BY <2>1, <3>1 DEF Idle
    <2>4. Sums' /\ DecisionsOK'
      <3>1. "KEEP" \in Result
        BY DEF Result
      <3> QED
        BY <1>0, <2>1, <2>2, <3>1, RecordCounts, ShownKept DEF EngineInv
    <2>5. ASSUME NEW v \in Result
          PROVE  /\ Shown(v)' \subseteq Shown(v)
                 /\ CountOf(v)' + TickOwes(v)' >= CountOf(v) + TickOwes(v)
      <3>1. CountOf(v)' = CountOf(v) + (IF tick.result = v THEN 1 ELSE 0)
        BY <2>1, <2>2, RecordCounts DEF EngineInv
      <3>2. TickOwes(v)' = 0 /\ TickOwes(v) = IF tick.result = v THEN 1 ELSE 0
        BY <2>1, <2>3 DEF TickOwes
      <3> QED
        BY <1>n, <2>1, <3>1, <3>2, ShownKept
    <2> QED
      BY <1>1, <2>1, <2>4, <2>5
  \* A SetPolicy.
  <1>7. ASSUME NEW s \in Setter, SwapEvaluator(s) \/ ResetStats(s) PROVE CountInv'
    <2>1. UNCHANGED byID /\ Sums'
      BY <1>0, <1>7 DEF SwapEvaluator, ResetStats, storeVars, NoStats
    <2>2. DecisionsOK'
      BY <1>0, <2>1, ShownKept
    <2>3. ~ PolicyInForce'
      <3>1. CASE SwapEvaluator(s)
        <4>1. PICK p \in Policy : setter' = [setter EXCEPT ![s].pc = "reset", ![s].ev = p]
          BY <3>1 DEF SwapEvaluator
        <4>2. setter \in [Setter -> [pc : {"idle", "reset", "visit", "record"},
                                     ev : Policy \cup {None}, todo : Seq(Verdicts)]]
          BY DEF EngineInv, Typed
        <4>3. setter'[s].pc = "reset"
          BY <4>1, <4>2
        <4> QED
          BY <4>3 DEF PolicyInForce
      <3>2. CASE ResetStats(s)
        <4>1. setter'[s].pc = "visit"
          BY <3>2, SetterGoesOn
        <4> QED
          BY <4>1 DEF PolicyInForce
      <3> QED
        BY <1>7, <3>1, <3>2
    <2> QED
      BY <2>1, <2>2, <2>3 DEF CountInv
  <1>8. ASSUME NEW s \in Setter, ReEvaluate(s) PROVE CountInv'
    <2>1. stats' = stats /\ tick' = tick
      BY <1>8 DEF ReEvaluate
    <2>2. "KEEP" \in Result
      BY DEF Result
    <2>3. Sums' /\ DecisionsOK'
      BY <1>0, <1>8, <2>1, <2>2, ReEvaluateOwes
    <2>4. ASSUME NEW v \in Result PROVE Covered(v)'
      <3>1. CountOf(v)' \in Nat /\ TickOwes(v)' \in Nat
        BY DEF EngineInv, Typed, CountOf, TickOwes
      <3>2. \A u \in Setter : setter'[u].pc = "record" => u = s
        BY <1>8, ReEvaluateOwes
      <3>3. CASE setter'[s].pc # "record"
        <4>1. Cardinality(Shown(v)') = 0
          BY <1>8, <3>3, ReEvaluateOwes, FS_EmptySet
        <4> QED
          BY <3>1, <3>2, <3>3, <4>1 DEF Covered
      <3>4. CASE setter'[s].pc = "record"
        <4>1. Occurs(setter'[s].todo, v) >= Cardinality(Shown(v)')
          BY <1>8, <3>4, ReEvaluateOwes
        <4>2. Occurs(setter'[s].todo, v) \in Nat
          BY OccursNat DEF EngineInv, SettersPlaced
        <4>3. CountOf(v)' + TickOwes(v)' + Occurs(setter'[s].todo, v) >= Cardinality(Shown(v)')
          <5>1. Cardinality(Shown(v)') \in Nat
            BY <1>8, <3>4, ReEvaluateOwes
          <5> QED
            BY <3>1, <4>1, <4>2, <5>1
        <4> QED
          BY <3>2, <3>4, <4>3 DEF Covered, StoreFree
      <3> QED
        BY <3>3, <3>4
    <2> QED
      BY <2>3, <2>4 DEF CountInv
  <1>9. ASSUME NEW s \in Setter, RecordReEvaluated(s) PROVE CountInv'
    <2>1. /\ setter[s].pc = "record" /\ Record(Head(setter[s].todo)) /\ UNCHANGED byID
      BY <1>9 DEF RecordReEvaluated, storeVars
    <2>2. Head(setter[s].todo) \in Result
      BY <2>1, HeadAndRest DEF EngineInv, SettersPlaced
    <2>3. "KEEP" \in Result
      BY DEF Result
    <2>4. Sums' /\ DecisionsOK'
      BY <1>0, <2>1, <2>2, <2>3, RecordCounts, ShownKept DEF EngineInv
    <2>5. PolicyInForce' => PolicyInForce
      <3>1. \A u \in Setter \ {s} : setter'[u] = setter[u]
        BY <1>9, SetterGoesOn
      <3> QED
        BY <2>1, <3>1 DEF PolicyInForce
    <2>6. ASSUME PolicyInForce', NEW v \in Result PROVE Covered(v)'
      <3>1. PolicyInForce /\ Covered(v)
        BY <2>5, <2>6 DEF CountInv
      <3> QED
        BY <1>9, <3>1, RecordReEvaluatedCovers
    <2> QED
      BY <2>4, <2>6 DEF CountInv
  <1> QED
    BY <1>3, <1>4, <1>5, <1>6, <1>7, <1>8, <1>9 DEF Next, DecideDue, SetPolicy

LEMMA CountInvHolds == Spec => []CountInv
  <1>1. Init => CountInv
    <2> SUFFICES ASSUME Init PROVE CountInv
      OBVIOUS
    <2>1. Decided = {}
      BY DEF Init, Store!Init, Decided, Store!Retained
    <2>2. \A v : Shown(v) = {} /\ Cardinality(Shown(v)) = 0
      BY <2>1, FS_EmptySet DEF Shown, Evaluable
    <2>3. stats.observed = 0 /\ stats.keep = 0 /\ stats.drop = 0
      BY DEF Init, NoStats
    <2>4. \A s \in Setter : setter[s].pc = "idle"
      BY DEF Init, Resting
    <2>5. \A v \in Result : CountOf(v) = 0 /\ TickOwes(v) \in {0, 1}
      BY <2>3 DEF CountOf, TickOwes
    <2> QED
      BY <2>1, <2>2, <2>3, <2>4, <2>5 DEF CountInv, Covered
  <1>2. EngineInv /\ EngineInv' /\ CountInv /\ [Next]_vars => CountInv'
    BY CountInvNext
  <1> QED
    BY <1>1, <1>2, EngineInvHolds, PTL DEF Spec

LEMMA SettledCovers ==
  ASSUME EngineInv, CountInv, StatsSettled, NEW v \in Result
  PROVE  CountOf(v) >= Cardinality(Shown(v))
  <1>1. PolicyInForce /\ StoreFree /\ TickOwes(v) = 0
    BY DEF StatsSettled, PolicyInForce, StoreFree, TickOwes
  <1>2. Covered(v) /\ CountOf(v) \in Nat
    BY <1>1, CountNat DEF CountInv, EngineInv
  <1> QED
    BY <1>1, <1>2 DEF Covered

\* Whenever the statistics have settled, every retained decided trace on which
\* no policy fails is counted under the verdict it shows, and none is missing
\* from the number observed, whichever policies were replaced and whatever raced.
THEOREM StatsStayMatched == Spec => []StatsMatchVerdicts
  <1>1. EngineInv /\ CountInv => StatsMatchVerdicts
    <2> SUFFICES ASSUME EngineInv, CountInv, StatsSettled
                 PROVE  /\ stats.observed >= Cardinality(Evaluable)
                        /\ stats.keep >= Cardinality({ id \in Evaluable : byID[id].decision = "KEEP" })
                        /\ stats.drop >= Cardinality({ id \in Evaluable : byID[id].decision = "DROP" })
      BY DEF StatsMatchVerdicts
    <2>1. CountOf("KEEP") >= Cardinality(Shown("KEEP")) /\ CountOf("DROP") >= Cardinality(Shown("DROP"))
      BY SettledCovers DEF Result
    <2>2. Evaluable = Shown("KEEP") \cup Shown("DROP")
      BY DEF CountInv, Evaluable, Shown, Result
    <2>3. /\ IsFiniteSet(Shown("KEEP")) /\ Cardinality(Shown("KEEP")) \in Nat
          /\ IsFiniteSet(Shown("DROP")) /\ Cardinality(Shown("DROP")) \in Nat
      BY ShownFinite DEF EngineInv
    <2>4. Shown("KEEP") \cap Shown("DROP") = {}
      BY DEF Shown
    <2>5. Cardinality(Evaluable) = Cardinality(Shown("KEEP")) + Cardinality(Shown("DROP"))
      <3> DEFINE K == Shown("KEEP")  D == Shown("DROP")
      <3>1. IsFiniteSet(K) /\ IsFiniteSet(D) /\ K \cap D = {} /\ Evaluable = K \cup D
            /\ Cardinality(K) \in Nat /\ Cardinality(D) \in Nat
        BY <2>2, <2>3, <2>4
      <3> HIDE DEF K, D
      <3>2. Cardinality(K \cup D) = Cardinality(K) + Cardinality(D) - Cardinality(K \cap D)
        BY <3>1, FS_Union
      <3>3. Cardinality(K \cap D) = 0
        BY <3>1, FS_EmptySet
      <3>4. Cardinality(Evaluable) = Cardinality(K) + Cardinality(D)
        BY <3>1, <3>2, <3>3
      <3> QED
        BY <3>4 DEF K, D
    <2>6. stats.observed = stats.keep + stats.drop /\ stats.keep \in Nat /\ stats.drop \in Nat
      BY DEF CountInv, EngineInv, Typed
    <2>7. stats.observed >= Cardinality(Evaluable)
      BY <2>1, <2>3, <2>5, <2>6 DEF CountOf
    <2> QED
      BY <2>1, <2>7 DEF CountOf, Shown
  <1> QED
    BY <1>1, EngineInvHolds, CountInvHolds, PTL
-----------------------------------------------------------------------------
(* The engine implements the abstract preview.                             *)

\* The ticker holds one copy of a trace, and none of a trace that is decided:
\* only the ticker decides, and spans reopen.
OnceInv ==
  /\ \A i, j \in DOMAIN tick.due : tick.due[i].id = tick.due[j].id => i = j
  /\ \A i \in DOMAIN tick.due :
       tick.due[i].id \in DOMAIN byID => byID[tick.due[i].id].state # "DECIDED"

LEMMA OnceCollected ==
  ASSUME EngineInv, CollectDue
  PROVE  \A i, j \in DOMAIN tick'.due : tick'.due[i].id = tick'.due[j].id => i = j
  <1> DEFINE due == Store!Due(tick.now, Wait[tick.ev])
             ids == InOrder(order, due)
             copies == [i \in DOMAIN ids |-> [id |-> ids[i], spans |-> byID[ids[i]].spans]]
  <1>1. tick' = IF due = {} THEN Idle ELSE [tick EXCEPT !.pc = "decide", !.due = copies]
    BY DEF CollectDue
  <1>2. tick \in [pc : {"idle", "due", "decide", "record"},
               ev : Policy \cup {None}, now : Nat, due : Seq(Copy), result : Verdicts]
    BY DEF EngineInv, Typed
  <1>3. order \in Seq(TraceID) /\ IsInjective(order)
    BY StoreFacts DEF EngineInv, Typed
  <1>4. IsInjective(ids)
    BY <1>3, InOrderFinds
  <1> HIDE DEF due, ids
  <1>5. \A i, j \in DOMAIN copies : copies[i].id = copies[j].id => i = j
    BY <1>4 DEF IsInjective
  <1> HIDE DEF copies
  <1>6. CASE due = {}
    BY <1>1, <1>6 DEF Idle
  <1>7. CASE due # {}
    <2>1. tick'.due = copies
      BY <1>1, <1>2, <1>7
    <2> QED
      BY <1>5, <2>1
  <1> QED
    BY <1>6, <1>7

\* What Decide does to the list of copies.
LEMMA DecideHead ==
  ASSUME EngineInv, Decide
  PROVE  LET c == Head(tick.due)
             v == Evaluate(tick.ev, c.spans)
         IN /\ tick.due \in Seq(Copy) /\ tick.due # << >> /\ c \in Copy
            /\ tick'.due = Tail(tick.due)
            /\ \/ /\ v \in Result /\ c.id \in DOMAIN byID
                  /\ byID' = [byID EXCEPT ![c.id].decision = v, ![c.id].state = "DECIDED"]
               \/ byID' = byID
  <1> DEFINE c == Head(tick.due)
             v == Evaluate(tick.ev, c.spans)
             rest == Tail(tick.due)
  <1>1. tick.pc = "decide" /\ tick.due # << >>
    BY DEF Decide, EngineInv, TickPlaced
  <1>2. tick \in [pc : {"idle", "due", "decide", "record"},
               ev : Policy \cup {None}, now : Nat, due : Seq(Copy), result : Verdicts]
    BY DEF EngineInv, Typed
  <1>3. tick.due \in Seq(Copy) /\ c \in Copy /\ rest \in Seq(Copy)
    BY <1>1, <1>2
  <1>4. v \in Verdicts
    BY EvaluateVerdict
  <1>5. \/ /\ v # "ERROR"
           /\ Store!ApplyDecision(c.id, v)
           /\ tick' = IF c.id \in Store!Retained
                      THEN [tick EXCEPT !.pc = "record", !.due = rest, !.result = v]
                      ELSE IF rest = << >> THEN Idle
                      ELSE [tick EXCEPT !.due = rest]
        \/ /\ v = "ERROR"
           /\ tick' = IF rest = << >> THEN Idle ELSE [tick EXCEPT !.due = rest]
           /\ UNCHANGED storeVars
    BY DEF Decide
  <1> HIDE DEF c, v, rest
  <1>6. tick'.due = rest
    <2>1. CASE tick' = Idle /\ rest = << >>
      BY <2>1 DEF Idle
    <2>2. CASE tick' = [tick EXCEPT !.due = rest]
      BY <1>2, <2>2
    <2>3. CASE tick' = [tick EXCEPT !.pc = "record", !.due = rest, !.result = v]
      BY <1>2, <2>3
    <2> QED
      BY <1>5, <2>1, <2>2, <2>3
  <1>7. \/ /\ v \in Result /\ c.id \in DOMAIN byID
           /\ byID' = [byID EXCEPT ![c.id].decision = v, ![c.id].state = "DECIDED"]
        \/ byID' = byID
    BY <1>4, <1>5 DEF Store!ApplyDecision, Store!Retained, storeVars, Verdicts, Result
  <1> QED
    BY <1>1, <1>3, <1>6, <1>7 DEF c, v, rest

\* The other steps leave the copies alone.
LEMMA CopiesStay ==
  ASSUME EngineInv, [Next]_vars
  PROVE  CollectDue \/ Decide \/ tick'.due = tick.due
  <1>1. CASE ReadEvaluator
    <2>1. tick.pc = "idle" /\ tick' = [Idle EXCEPT !.pc = "due", !.ev = evaluator, !.now = clock]
      BY <1>1 DEF ReadEvaluator
    <2> QED
      BY <2>1 DEF EngineInv, TickPlaced, Idle
  <1>2. CASE RecordDecision
    <2>1. tick' = IF tick.due = << >> THEN Idle
                  ELSE [tick EXCEPT !.pc = "decide", !.result = "ERROR"]
      BY <1>2 DEF RecordDecision
    <2>2. tick \in [pc : {"idle", "due", "decide", "record"},
               ev : Policy \cup {None}, now : Nat, due : Seq(Copy), result : Verdicts]
      BY DEF EngineInv, Typed
    <2>3. CASE tick.due = << >>
      BY <2>1, <2>3 DEF Idle
    <2>4. CASE tick.due # << >>
      BY <2>1, <2>2, <2>4
    <2> QED
      BY <2>3, <2>4
  <1>3. CASE UNCHANGED tick
    BY <1>3
  <1>4. TimePasses \/ ReceiveFrame \/ (\E s \in Setter : SetPolicy(s)) \/ UNCHANGED vars =>
          UNCHANGED tick
    BY DEF TimePasses, ReceiveFrame, SetPolicy, SwapEvaluator, ResetStats, ReEvaluate,
       RecordReEvaluated, vars
  <1> QED
    BY <1>1, <1>2, <1>3, <1>4 DEF Next, DecideDue

LEMMA OnceInvNext ==
  ASSUME EngineInv, OnceInv, [Next]_vars
  PROVE  OnceInv'
  <1>t. \A x \in DOMAIN byID : byID[x] \in Store!Trace
    BY StoreFacts DEF EngineInv, Typed
  <1>1. CASE CollectDue
    <2> DEFINE due == Store!Due(tick.now, Wait[tick.ev])
    <2>1. { c.id : c \in Held' } = due /\ DOMAIN byID' = DOMAIN byID
          /\ \A id \in DOMAIN byID :
               byID'[id] = IF id \in due THEN [byID[id] EXCEPT !.state = "READY"] ELSE byID[id]
      BY <1>1, CollectEffect
    <2> HIDE DEF due
    <2>2. ASSUME NEW i \in DOMAIN tick'.due, tick'.due[i].id \in DOMAIN byID'
          PROVE  byID'[tick'.due[i].id].state # "DECIDED"
      <3>1. tick'.due[i] \in Held'
        BY DEF Held, Range
      <3>2. tick'.due[i].id \in due
        BY <2>1, <3>1
      <3> QED
        BY <1>t, <2>1, <2>2, <3>2 DEF Store!Trace
    <2> QED
      BY <1>1, <2>2, OnceCollected DEF OnceInv
  <1>2. CASE Decide
    <2> DEFINE q == tick.due  c == Head(q)  v == Evaluate(tick.ev, c.spans)
    <2>1. /\ q \in Seq(Copy) /\ q # << >> /\ c \in Copy /\ tick'.due = Tail(q)
          /\ \/ /\ v \in Result /\ c.id \in DOMAIN byID
                /\ byID' = [byID EXCEPT ![c.id].decision = v, ![c.id].state = "DECIDED"]
             \/ byID' = byID
      BY <1>2, DecideHead
    <2>2. /\ Len(q) \in Nat \ {0} /\ DOMAIN q = 1 .. Len(q) /\ c = q[1]
          /\ DOMAIN Tail(q) = 1 .. Len(q) - 1
          /\ \A i \in 1 .. Len(q) - 1 : Tail(q)[i] = q[i + 1]
      BY <2>1
    <2>3. /\ \A i, j \in DOMAIN q : q[i].id = q[j].id => i = j
          /\ \A i \in DOMAIN q : q[i].id \in DOMAIN byID => byID[q[i].id].state # "DECIDED"
      BY DEF OnceInv
    <2> DEFINE r == Tail(q)
    <2>4. ASSUME NEW i \in DOMAIN r
          PROVE  i + 1 \in DOMAIN q /\ r[i] = q[i + 1] /\ r[i].id # c.id
      <3>1. i + 1 \in DOMAIN q /\ 1 \in DOMAIN q /\ i + 1 # 1 /\ r[i] = q[i + 1]
        BY <2>2
      <3> QED
        BY <2>2, <2>3, <3>1
    <2> HIDE DEF q, v, c, r
    <2>5. ASSUME NEW i \in DOMAIN r, NEW j \in DOMAIN r, r[i].id = r[j].id
          PROVE  i = j
      <3>1. i + 1 = j + 1
        BY <2>3, <2>4, <2>5
      <3>2. i \in Int /\ j \in Int
        BY <2>2 DEF r
      <3> QED
        BY <3>1, <3>2
    <2>6. ASSUME NEW i \in DOMAIN r, r[i].id \in DOMAIN byID'
          PROVE  byID'[r[i].id].state # "DECIDED"
      <3>1. r[i].id \in DOMAIN byID /\ byID'[r[i].id] = byID[r[i].id]
        BY <2>1, <2>4, <2>6
      <3> QED
        BY <2>3, <2>4, <3>1
    <2>7. tick'.due = r
      BY <2>1 DEF r
    <2> QED
      BY <2>5, <2>6, <2>7 DEF OnceInv
  <1>3. CASE tick'.due = tick.due
    <2> SUFFICES ASSUME NEW i \in DOMAIN tick.due, tick.due[i].id \in DOMAIN byID',
                        ~ CollectDue, ~ Decide
                 PROVE  byID'[tick.due[i].id].state # "DECIDED"
      BY <1>1, <1>2, <1>3 DEF OnceInv
    <2> DEFINE id == tick.due[i].id
    <2>1. id \in DOMAIN byID => byID[id].state # "DECIDED"
      BY DEF OnceInv
    <2> HIDE DEF id
    <2>2. CASE UNCHANGED byID
      BY <2>1, <2>2 DEF id
    <2>3. CASE ReceiveFrame
      BY <2>1, <2>3, FrameEffect DEF EngineInv, id
    <2>4. ASSUME NEW s \in Setter, ReEvaluate(s) PROVE byID'[id].state # "DECIDED"
      <3> DEFINE v == Evaluate(setter[s].ev, byID[id].spans)
      <3>1. id \in DOMAIN byID /\ byID'[id] = IF v = "ERROR" THEN byID[id]
                                              ELSE [byID[id] EXCEPT !.decision = v]
        BY <2>4, UpdateEffect DEF id
      <3> HIDE DEF v
      <3> QED
        BY <1>t, <2>1, <3>1 DEF Store!Trace
    <2> QED
      BY <2>2, <2>3, <2>4, TraceSteps DEF id
  <1> QED
    BY <1>1, <1>2, <1>3, CopiesStay

LEMMA OnceInvHolds == Spec => []OnceInv
  <1>1. Init => OnceInv
    BY DEF Init, Idle, OnceInv
  <1>2. EngineInv /\ OnceInv /\ [Next]_vars => OnceInv'
    BY OnceInvNext
  <1> QED
    BY <1>1, <1>2, EngineInvHolds, PTL DEF Spec

Phases == [id \in TraceID |-> Phase(id)]
Reviewing == { s \in Setter : setter[s].pc \in {"reset", "visit"} }

LEMMA PhaseOf ==
  ASSUME NEW id \in TraceID
  PROVE  /\ Phases[id] = IF id \notin DOMAIN byID THEN "absent"
                         ELSE IF byID[id].state = "DECIDED" THEN byID[id].decision
                         ELSE "pending"
         /\ Phases'[id] = IF id \notin DOMAIN byID' THEN "absent"
                          ELSE IF byID'[id].state = "DECIDED" THEN byID'[id].decision
                          ELSE "pending"
  BY DEF Phases, Phase, Store!Retained

\* Traces that look as they did are in the phase they were in.
LEMMA SamePhases ==
  ASSUME \A id \in TraceID : Phases'[id] = Phases[id]
  PROVE  Phases' = Phases
  BY DEF Phases

LEMMA Announced ==
  ASSUME EngineInv, NEW s \in Setter, SwapEvaluator(s)
  PROVE  s \notin Reviewing /\ Reviewing' = Reviewing \cup {s}
  <1>1. PICK p \in Policy : setter' = [setter EXCEPT ![s].pc = "reset", ![s].ev = p]
    BY DEF SwapEvaluator
  <1>2. setter[s].pc = "idle"
    BY DEF SwapEvaluator
  <1>3. \A u \in Setter : setter'[u].pc = IF u = s THEN "reset" ELSE setter[u].pc
    BY <1>1 DEF EngineInv, Typed
  <1> QED
    BY <1>2, <1>3 DEF Reviewing

LEMMA Reviewed ==
  ASSUME EngineInv, NEW s \in Setter, ReEvaluate(s)
  PROVE  s \in Reviewing /\ Reviewing' = Reviewing \ {s}
  <1>1. \E todo : setter' = [setter EXCEPT ![s] = Resting]
               \/ setter' = [setter EXCEPT ![s] = [@ EXCEPT !.pc = "record", !.todo = todo]]
    BY Zenon DEF ReEvaluate
  <1>2. setter[s].pc = "visit"
    BY DEF ReEvaluate
  <1>3. setter \in [Setter -> [pc : {"idle", "reset", "visit", "record"},
                               ev : Policy \cup {None}, todo : Seq(Verdicts)]]
    BY DEF EngineInv, Typed
  <1>4. ASSUME setter' = [setter EXCEPT ![s] = Resting]
        PROVE  \A u \in Setter : setter'[u].pc = IF u = s THEN "idle" ELSE setter[u].pc
    BY <1>3, <1>4 DEF Resting
  <1>5. ASSUME NEW todo,
               setter' = [setter EXCEPT ![s] = [@ EXCEPT !.pc = "record", !.todo = todo]]
        PROVE  \A u \in Setter : setter'[u].pc = IF u = s THEN "record" ELSE setter[u].pc
    BY <1>3, <1>5
  <1>6. CASE \A u \in Setter : setter'[u].pc = IF u = s THEN "idle" ELSE setter[u].pc
    BY <1>2, <1>6 DEF Reviewing
  <1>7. CASE \A u \in Setter : setter'[u].pc = IF u = s THEN "record" ELSE setter[u].pc
    BY <1>2, <1>7 DEF Reviewing
  <1> QED
    BY <1>1, <1>4, <1>5, <1>6, <1>7, Zenon

LEMMA NotReviewed ==
  ASSUME EngineInv, NEW s \in Setter, ResetStats(s) \/ RecordReEvaluated(s)
  PROVE  UNCHANGED Reviewing
  <1>1. CASE ResetStats(s)
    <2>1. setter[s].pc = "reset" /\ setter' = [setter EXCEPT ![s].pc = "visit"]
      BY <1>1 DEF ResetStats
    <2>2. \A u \in Setter : setter'[u].pc = IF u = s THEN "visit" ELSE setter[u].pc
      BY <2>1 DEF EngineInv, Typed
    <2> QED
      BY <2>1, <2>2 DEF Reviewing
  <1>2. CASE RecordReEvaluated(s)
    <2>1. PICK new : /\ setter' = [setter EXCEPT ![s] = new]
                     /\ new = Resting \/ \E todo : new = [setter[s] EXCEPT !.todo = todo]
      BY <1>2 DEF RecordReEvaluated
    <2>2. setter[s].pc = "record"
      BY <1>2 DEF RecordReEvaluated
    <2>3. new.pc \in {"idle", "record"}
      BY <2>1, <2>2 DEF EngineInv, Typed, Resting
    <2>4. \A u \in Setter : setter'[u].pc = IF u = s THEN new.pc ELSE setter[u].pc
      BY <2>1 DEF EngineInv, Typed
    <2> QED
      BY <2>2, <2>3, <2>4 DEF Reviewing
  <1> QED
    BY <1>1, <1>2

\* A frame makes the traces it touches wait again, and may push others out.
LEMMA FrameArrives ==
  ASSUME EngineInv, ReceiveFrame
  PROVE  \E came, gone \in SUBSET TraceID :
           Phases' = [id \in TraceID |-> IF id \in gone THEN "absent"
                                         ELSE IF id \in came THEN "pending" ELSE Phases[id]]
  <1>1. PICK came \in SUBSET TraceID :
          /\ \A id \in DOMAIN byID' \ came : id \in DOMAIN byID /\ byID'[id] = byID[id]
          /\ \A id \in DOMAIN byID' \cap came : byID'[id].state # "DECIDED"
    BY FrameEffect DEF EngineInv
  <1> DEFINE gone == TraceID \ DOMAIN byID'
  <1>2. \A id \in TraceID :
          Phases'[id] = IF id \in gone THEN "absent"
                        ELSE IF id \in came THEN "pending" ELSE Phases[id]
    BY <1>1, PhaseOf
  <1>3. Phases' = [id \in TraceID |-> Phases'[id]]
    BY DEF Phases
  <1>4. Phases' = [id \in TraceID |-> IF id \in gone THEN "absent"
                                      ELSE IF id \in came THEN "pending" ELSE Phases[id]]
    BY <1>2, <1>3
  <1>5. gone \in SUBSET TraceID
    OBVIOUS
  <1> HIDE DEF gone
  <1> QED
    BY <1>4, <1>5

LEMMA DecideConcludes ==
  ASSUME EngineInv, OnceInv, Decide
  PROVE  \/ Phases' = Phases
         \/ \E id \in TraceID, v \in Result :
              Phases[id] = "pending" /\ Phases' = [Phases EXCEPT ![id] = v]
  <1> DEFINE c == Head(tick.due)  v == Evaluate(tick.ev, c.spans)
  <1>1. /\ tick.due \in Seq(Copy) /\ tick.due # << >> /\ c \in Copy
        /\ \/ /\ v \in Result /\ c.id \in DOMAIN byID
              /\ byID' = [byID EXCEPT ![c.id].decision = v, ![c.id].state = "DECIDED"]
           \/ byID' = byID
    BY DecideHead
  <1>2. 1 \in DOMAIN tick.due /\ c = tick.due[1]
    BY <1>1
  <1>3. c.id \in DOMAIN byID => byID[c.id].state # "DECIDED"
    BY <1>2 DEF OnceInv
  <1>4. c.id \in TraceID
    BY <1>1 DEF Copy
  <1>t. \A x \in DOMAIN byID : byID[x] \in Store!Trace
    BY StoreFacts DEF EngineInv, Typed
  <1> HIDE DEF c, v
  <1>5. CASE byID' = byID
    BY <1>5, PhaseOf, SamePhases
  <1>6. CASE /\ v \in Result /\ c.id \in DOMAIN byID
             /\ byID' = [byID EXCEPT ![c.id].decision = v, ![c.id].state = "DECIDED"]
    <2>1. /\ DOMAIN byID' = DOMAIN byID
          /\ byID'[c.id].state = "DECIDED" /\ byID'[c.id].decision = v
          /\ \A x \in DOMAIN byID : x # c.id => byID'[x] = byID[x]
      BY <1>6, <1>t DEF Store!Trace
    <2>2. \A id \in TraceID : Phases'[id] = IF id = c.id THEN v ELSE Phases[id]
      BY <1>6, <2>1, PhaseOf
    <2>3. Phases' = [id \in TraceID |-> Phases'[id]] /\ Phases = [id \in TraceID |-> Phases[id]]
      BY DEF Phases
    <2>4. Phases' = [Phases EXCEPT ![c.id] = v]
      BY <2>2, <2>3
    <2>5. Phases[c.id] = "pending"
      BY <1>3, <1>4, <1>6, PhaseOf
    <2> QED
      BY <1>4, <1>6, <2>4, <2>5
  <1> QED
    BY <1>1, <1>5, <1>6

\* A review gives every decided trace a verdict, and no other.
LEMMA ReviewConcludes ==
  ASSUME EngineInv, CountInv, NEW s \in Setter, ReEvaluate(s)
  PROVE  \E v \in [{ id \in TraceID : Phases[id] \in Result } -> Result] :
           Phases' = [id \in TraceID |-> IF Phases[id] \in Result THEN v[id] ELSE Phases[id]]
  <1>t. \A x \in DOMAIN byID : byID[x] \in Store!Trace
    BY StoreFacts DEF EngineInv, Typed
  <1>1. /\ DOMAIN byID' = DOMAIN byID
        /\ \A id \in DOMAIN byID :
             LET w == Evaluate(setter[s].ev, byID[id].spans)
             IN byID'[id] = IF w = "ERROR" THEN byID[id] ELSE [byID[id] EXCEPT !.decision = w]
    BY UpdateEffect
  <1>2. ASSUME NEW id \in TraceID
        PROVE  IF Phases[id] \in Result THEN Phases'[id] \in Result ELSE Phases'[id] = Phases[id]
    <2>1. CASE id \notin DOMAIN byID
      BY <1>1, <2>1, PhaseOf DEF Result
    <2>2. CASE id \in DOMAIN byID
      <3> DEFINE w == Evaluate(setter[s].ev, byID[id].spans)
      <3>1. byID'[id] = IF w = "ERROR" THEN byID[id] ELSE [byID[id] EXCEPT !.decision = w]
        BY <1>1, <2>2
      <3>2. w \in Verdicts
        BY EvaluateVerdict
      <3> HIDE DEF w
      <3>3. /\ byID'[id].state = byID[id].state
            /\ byID'[id].decision = IF w = "ERROR" THEN byID[id].decision ELSE w
        BY <1>t, <2>2, <3>1 DEF Store!Trace
      <3>4. byID[id].state = "DECIDED" => byID[id].decision \in Result
        BY <2>2, DecidedAre DEF CountInv
      <3> QED
        BY <1>1, <2>2, <3>2, <3>3, <3>4, PhaseOf DEF Result, Verdicts
    <2> QED
      BY <2>1, <2>2
  <1> DEFINE shown == { id \in TraceID : Phases[id] \in Result }
             v == [id \in shown |-> Phases'[id]]
  <1>3. v \in [shown -> Result]
    BY <1>2
  <1>4. \A id \in TraceID : Phases'[id] = IF Phases[id] \in Result THEN v[id] ELSE Phases[id]
    BY <1>2
  <1>5. Phases' = [id \in TraceID |-> Phases'[id]]
    BY DEF Phases
  <1> HIDE DEF v
  <1>6. Phases' = [id \in TraceID |-> IF Phases[id] \in Result THEN v[id] ELSE Phases[id]]
    BY <1>4, <1>5
  <1> QED
    BY <1>3, <1>6

LEMMA CollectKeepsPhases ==
  ASSUME EngineInv, CollectDue
  PROVE  Phases' = Phases
  <1>t. \A x \in DOMAIN byID : byID[x] \in Store!Trace
    BY StoreFacts DEF EngineInv, Typed
  <1> DEFINE due == Store!Due(tick.now, Wait[tick.ev])
  <1>1. /\ DOMAIN byID' = DOMAIN byID
        /\ \A id \in DOMAIN byID :
             byID'[id] = IF id \in due THEN [byID[id] EXCEPT !.state = "READY"] ELSE byID[id]
    BY CollectEffect
  <1>2. \A id \in due : byID[id].state = "RECEIVING"
    BY DEF Store!Due
  <1> HIDE DEF due
  <1>3. \A id \in DOMAIN byID : byID'[id] = byID[id] \/
          (byID[id].state # "DECIDED" /\ byID'[id].state # "DECIDED")
    BY <1>t, <1>1, <1>2 DEF Store!Trace
  <1> QED
    BY <1>1, <1>3, PhaseOf, SamePhases

\* Every step is a step of the abstract preview, or none.
LEMMA PreviewSteps ==
  ASSUME EngineInv, CountInv, OnceInv, [Next]_vars
  PROVE  [Preview!Next]_<<frames, Phases, Reviewing>>
  <1>0. /\ Preview!Verdicts = Result
        /\ Preview!Concluded = { id \in TraceID : Phases[id] \in Result }
    BY DEF Preview!Verdicts, Preview!Concluded, Result, Phases
  <1>1. CASE ReceiveFrame
    <2>1. UNCHANGED Reviewing /\ frames' = frames + 1
      BY <1>1 DEF ReceiveFrame, Reviewing
    <2>2. Preview!Arrive
      BY <1>1, <2>1, FrameArrives DEF Preview!Arrive, Phases, Reviewing
    <2> QED
      BY <2>2 DEF Preview!Next
  <1>2. CASE CollectDue
    <2>1. UNCHANGED <<frames, Reviewing>>
      BY <1>2 DEF CollectDue, Reviewing
    <2> QED
      BY <1>2, <2>1, CollectKeepsPhases
  <1>3. CASE Decide
    <2>1. UNCHANGED <<frames, Reviewing>>
      BY <1>3 DEF Decide, Reviewing
    <2>2. CASE Phases' = Phases
      BY <2>1, <2>2
    <2>3. CASE \E id \in TraceID, v \in Result :
                 Phases[id] = "pending" /\ Phases' = [Phases EXCEPT ![id] = v]
      <3>1. Preview!Conclude
        BY <1>0, <2>1, <2>3 DEF Preview!Conclude, Phases, Reviewing
      <3> QED
        BY <3>1 DEF Preview!Next
    <2> QED
      BY <1>3, <2>2, <2>3, DecideConcludes
  <1>4. ASSUME NEW s \in Setter, SwapEvaluator(s) PROVE Preview!Next
    <2>1. s \notin Reviewing /\ Reviewing' = Reviewing \cup {s}
      BY <1>4, Announced
    <2>2. byID' = byID /\ frames' = frames
      BY <1>4 DEF SwapEvaluator, storeVars
    <2>3. Phases' = Phases
      BY <2>2, PhaseOf, SamePhases
    <2>4. Preview!Announce
      BY <2>1, <2>2, <2>3 DEF Preview!Announce, Phases, Reviewing
    <2> QED
      BY <2>4 DEF Preview!Next
  <1>5. ASSUME NEW s \in Setter, ReEvaluate(s) PROVE Preview!Next
    <2>1. s \in Reviewing /\ Reviewing' = Reviewing \ {s}
      BY <1>5, Reviewed
    <2>2. PICK v \in [{ id \in TraceID : Phases[id] \in Result } -> Result] :
            Phases' = [id \in TraceID |-> IF Phases[id] \in Result THEN v[id] ELSE Phases[id]]
      BY <1>5, ReviewConcludes
    <2>3. Phases' = [id \in TraceID |-> IF id \in Preview!Concluded THEN v[id] ELSE Phases[id]]
      BY <1>0, <2>2
    <2>f. frames' = frames
      BY <1>5 DEF ReEvaluate
    <2>4. Preview!Review
      BY <1>0, <2>1, <2>2, <2>3, <2>f DEF Preview!Review, Phases, Reviewing
    <2> QED
      BY <2>4 DEF Preview!Next
  <1>6. CASE byID' = byID /\ UNCHANGED <<frames, Reviewing>>
    BY <1>6, PhaseOf, SamePhases
  <1>7. TimePasses \/ ReadEvaluator \/ RecordDecision \/ UNCHANGED vars =>
          byID' = byID /\ UNCHANGED <<frames, Reviewing>>
    BY DEF TimePasses, Store!Tick, Store!storeVars, ReadEvaluator, RecordDecision, vars,
       storeVars, Reviewing
  <1>8. \A s \in Setter : ResetStats(s) \/ RecordReEvaluated(s) =>
          byID' = byID /\ UNCHANGED <<frames, Reviewing>>
    BY NotReviewed DEF ResetStats, RecordReEvaluated, storeVars
  <1> QED
    BY <1>1, <1>2, <1>3, <1>4, <1>5, <1>6, <1>7, <1>8 DEF Next, DecideDue, SetPolicy

\* Nothing is asserted of a trace that waits; a verdict is given once and
\* stands until spans reopen the trace, it is evicted, or a SetPolicy that has
\* replaced the evaluator reviews it, which it does once (server.go:108-161,
\* store.go:80-97).
THEOREM EngineIsPreview == Spec => ImplementsPreview
  <1>1. Init => Preview!Init
    <2> SUFFICES ASSUME Init PROVE Preview!Init
      OBVIOUS
    <2>1. DOMAIN byID = {}
      BY DEF Init, Store!Init
    <2>2. Phases = [id \in TraceID |-> "absent"]
      BY <2>1, PhaseOf DEF Phases, Phase, Store!Retained
    <2>3. Reviewing = {} /\ frames = 0
      BY DEF Init, Resting, Reviewing
    <2> QED
      BY <2>2, <2>3 DEF Preview!Init, Phases, Reviewing
  <1>2. EngineInv /\ CountInv /\ OnceInv /\ [Next]_vars =>
          [Preview!Next]_<<frames, Phases, Reviewing>>
    BY PreviewSteps
  <1> QED
    BY <1>1, <1>2, EngineInvHolds, CountInvHolds, OnceInvHolds, PTL
       DEF Spec, ImplementsPreview, Preview!Spec, Phases, Reviewing
=============================================================================
