-------------------------- MODULE TraceStoreProofs --------------------------
(***************************************************************************)
(* Proofs about TraceStore, for any limits, any frames and any number of   *)
(* traces.                                                                 *)
(***************************************************************************)
EXTENDS TraceStore, FiniteSums, SequenceTheorems

\* a stands before b, or is b, in the list q.
Before(q, a, b) ==
  \E i, j \in 1 .. Len(q) : i <= j /\ q[i] = a /\ q[j] = b

\* A list of distinct traces.
List(q) == q \in Seq(TraceID) /\ IsInjective(q)

\* The traces of a list are a finite set.
LEMMA RangeFinite ==
  ASSUME NEW q \in Seq(TraceID)
  PROVE  IsFiniteSet(Range(q)) /\ Range(q) \subseteq TraceID
  <1>1. Range(q) = { q[i] : i \in 1 .. Len(q) }
    BY DEF Range
  <1>2. IsFiniteSet(1 .. Len(q))
    BY FS_Interval
  <1>3. IsFiniteSet({ q[i] : i \in 1 .. Len(q) })
    <2> DEFINE f == [i \in 1 .. Len(q) |-> q[i]]
    <2>1. f \in Surjection(1 .. Len(q), { q[i] : i \in 1 .. Len(q) })
      BY DEF Surjection
    <2> QED
      BY <1>2, <2>1, FS_Surjection
  <1> QED
    BY <1>1, <1>3

\* Moving a trace to the back keeps the list without repetition, holds that
\* trace from then on, and puts nothing else behind what it was before.
LEMMA MoveToBackList ==
  ASSUME NEW q, List(q), NEW id \in TraceID
  PROVE  /\ List(MoveToBack(q, id))
         /\ Range(MoveToBack(q, id)) = Range(q) \cup {id}
         /\ \A a, b : Before(MoveToBack(q, id), a, b) =>
              b = id \/ (a # id /\ Before(q, a, b))
  <1> DEFINE r == MoveToBack(q, id)
  <1>0. \A k, l \in 1 .. Len(q) : q[k] = q[l] => k = l
    BY DEF List, IsInjective
  <1>1. CASE id \notin Range(q)
    <2>1. r = Append(q, id)
      BY <1>1 DEF MoveToBack
    <2>2. /\ r \in Seq(TraceID) /\ Len(r) = Len(q) + 1 /\ r[Len(r)] = id
          /\ \A k \in 1 .. Len(q) : r[k] = q[k]
      BY <2>1 DEF List
    <2> HIDE DEF r
    <2>3. IsInjective(r)
      BY <1>1, <2>2 DEF List, IsInjective, Range
    <2>4. Range(r) = Range(q) \cup {id}
      BY <2>2 DEF List, Range
    <2>5. ASSUME NEW a, NEW b, Before(r, a, b), b # id PROVE a # id /\ Before(q, a, b)
      <3>1. PICK k, l \in 1 .. Len(q) + 1 : k <= l /\ r[k] = a /\ r[l] = b
        BY <2>2, <2>5 DEF Before, List
      <3>2. k \in 1 .. Len(q) /\ l \in 1 .. Len(q)
        BY <2>2, <2>5, <3>1 DEF List
      <3> QED
        BY <1>1, <2>2, <3>1, <3>2 DEF Before, Range, List
    <2> QED
      BY <2>2, <2>3, <2>4, <2>5 DEF r, List
  <1>2. CASE id \in Range(q)
    <2> DEFINE i == CHOOSE j \in DOMAIN q : q[j] = id
    <2>1. i \in 1 .. Len(q) /\ q[i] = id
      BY <1>2 DEF Range, List
    <2>2. r = Append(SubSeq(q, 1, i - 1) \o SubSeq(q, i + 1, Len(q)), id)
      BY <1>2 DEF MoveToBack, RemoveAt
    <2> HIDE DEF r, i
    <2>3. /\ r \in Seq(TraceID) /\ Len(r) = Len(q) /\ r[Len(r)] = id
          /\ \A k \in 1 .. Len(q) - 1 : r[k] = IF k < i THEN q[k] ELSE q[k + 1]
      <3> DEFINE front == SubSeq(q, 1, i - 1)  back == SubSeq(q, i + 1, Len(q))
      <3>1. /\ front \in Seq(TraceID) /\ Len(front) = i - 1
            /\ \A k \in 1 .. i - 1 : front[k] = q[k]
        BY <2>1 DEF List
      <3>2. /\ back \in Seq(TraceID) /\ Len(back) = Len(q) - i
            /\ \A k \in 1 .. Len(q) - i : back[k] = q[k + i]
        BY <2>1 DEF List
      <3> HIDE DEF front, back
      <3>3. /\ front \o back \in Seq(TraceID) /\ Len(front \o back) = Len(q) - 1
            /\ \A k \in 1 .. Len(q) - 1 :
                 (front \o back)[k] = IF k < i THEN q[k] ELSE q[k + 1]
        <4>1. /\ front \o back \in Seq(TraceID) /\ Len(front \o back) = Len(q) - 1
              /\ \A k \in 1 .. Len(front \o back) :
                   (front \o back)[k] = IF k <= Len(front) THEN front[k]
                                        ELSE back[k - Len(front)]
          <5>1. Len(front \o back) = Len(front) + Len(back)
            BY <3>1, <3>2, ConcatProperties
          <5>2. Len(front) + Len(back) = Len(q) - 1
            BY <2>1, <3>1, <3>2 DEF List
          <5> QED
            BY <3>1, <3>2, <5>1, <5>2, ConcatProperties
        <4>2. ASSUME NEW k \in 1 .. Len(q) - 1
              PROVE  (front \o back)[k] = IF k < i THEN q[k] ELSE q[k + 1]
          <5>1. CASE k < i
            BY <2>1, <3>1, <4>1, <5>1 DEF List
          <5>2. CASE ~ (k < i)
            <6>1. k - (i - 1) \in 1 .. Len(q) - i /\ (k - (i - 1)) + i = k + 1
              BY <2>1, <5>2 DEF List
            <6>2. (front \o back)[k] = back[k - (i - 1)]
              BY <2>1, <3>1, <4>1, <5>2 DEF List
            <6> QED
              BY <3>2, <5>2, <6>1, <6>2
          <5> QED
            BY <5>1, <5>2
        <4> QED
          BY <4>1, <4>2
      <3>4. r = Append(front \o back, id)
        BY <2>2 DEF front, back
      <3> QED
        BY <3>3, <3>4 DEF List
    <2>4. IsInjective(r)
      <3> SUFFICES ASSUME NEW k \in 1 .. Len(q), NEW l \in 1 .. Len(q), k < l, r[k] = r[l]
                   PROVE  FALSE
        BY <2>3 DEF IsInjective
      <3> DEFINE At(n) == IF n < i THEN n ELSE n + 1
      <3>1. k \in 1 .. Len(q) - 1 /\ At(k) \in 1 .. Len(q) /\ At(k) # i /\ r[k] = q[At(k)]
        BY <2>1, <2>3 DEF List
      <3>2. CASE l = Len(q)
        BY <1>0, <2>1, <2>3, <3>1, <3>2
      <3>3. CASE l < Len(q)
        <4>1. At(l) \in 1 .. Len(q) /\ At(k) # At(l) /\ r[l] = q[At(l)]
          BY <2>1, <2>3, <3>3 DEF List
        <4> HIDE DEF At
        <4> QED
          BY <1>0, <3>1, <4>1
      <3> QED
        BY <3>2, <3>3
    <2>5. Range(r) = Range(q) \cup {id}
      <3>1. ASSUME NEW x \in Range(r) PROVE x \in Range(q)
        BY <1>2, <2>1, <2>3 DEF List, Range
      <3>2. ASSUME NEW x \in Range(q), x # id PROVE x \in Range(r)
        <4>1. PICK k \in 1 .. Len(q) : q[k] = x
          BY DEF List, Range
        <4>2. k # i
          BY <2>1, <3>2, <4>1
        <4>3. \E l \in 1 .. Len(q) - 1 : r[l] = x
          <5>1. CASE k < i
            BY <2>1, <2>3, <4>1, <5>1
          <5>2. CASE k > i
            <6>1. k - 1 \in 1 .. Len(q) - 1 /\ ~ (k - 1 < i) /\ (k - 1) + 1 = k
              BY <2>1, <5>2
            <6> QED
              BY <2>3, <4>1, <6>1
          <5> QED
            BY <2>1, <4>2, <5>1, <5>2
        <4> QED
          BY <2>3, <4>3 DEF Range
      <3>3. id \in Range(r)
        BY <2>1, <2>3 DEF Range
      <3> QED
        BY <1>2, <3>1, <3>2, <3>3
    <2>6. ASSUME NEW a, NEW b, Before(r, a, b), b # id PROVE a # id /\ Before(q, a, b)
      <3>1. PICK k, l \in 1 .. Len(q) : k <= l /\ r[k] = a /\ r[l] = b
        BY <2>3, <2>6 DEF Before
      <3>2. l < Len(q) /\ k < Len(q)
        BY <2>3, <2>6, <3>1 DEF List
      <3> DEFINE At(n) == IF n < i THEN n ELSE n + 1
      <3>3. /\ At(k) \in 1 .. Len(q) /\ At(l) \in 1 .. Len(q) /\ At(k) <= At(l)
            /\ q[At(k)] = a /\ q[At(l)] = b /\ At(k) # i
        BY <2>1, <2>3, <3>1, <3>2 DEF List
      <3>4. a # id
        BY <1>0, <2>1, <3>3
      <3> QED
        BY <3>3, <3>4 DEF Before
    <2> QED
      BY <2>3, <2>4, <2>5, <2>6 DEF r, List
  <1> QED
    BY <1>1, <1>2

\* The same for the traces of a frame, one after the other.
LEMMA ToBackList ==
  ASSUME List(order), NEW ids \in Seq(TraceID)
  PROVE  /\ List(ToBack(ids))
         /\ Range(ToBack(ids)) = Range(order) \cup Range(ids)
         /\ \A a, b : Before(ToBack(ids), a, b) =>
              b \in Range(ids) \/ (a \notin Range(ids) /\ Before(order, a, b))
  <1> DEFINE Step(n, g) == [k \in 0 .. n |-> IF k = 0 THEN order
                                              ELSE MoveToBack(g[k - 1], ids[k])]
             Done(n) == { ids[k] : k \in 1 .. n }
             Good(r, n) == /\ List(r)
                           /\ Range(r) = Range(order) \cup Done(n)
                           /\ \A a, b : Before(r, a, b) =>
                                b \in Done(n) \/ (a \notin Done(n) /\ Before(order, a, b))
             P == { n \in Nat : n <= Len(ids) => \E g : g = Step(n, g) }
             q == CHOOSE g : g = Step(Len(ids), g)
             Q == { n \in Nat : n <= Len(ids) => Good(q[n], n) }
  <1>1. Len(ids) \in P
    <2>1. 0 \in P
      <3>1. [k \in 0 .. 0 |-> order] = Step(0, [k \in 0 .. 0 |-> order])
        OBVIOUS
      <3> QED
        BY <3>1
    <2>2. ASSUME NEW n \in Nat, n \in P PROVE n + 1 \in P
      <3> SUFFICES ASSUME n + 1 <= Len(ids) PROVE \E g : g = Step(n + 1, g)
        OBVIOUS
      <3>1. PICK g : g = Step(n, g)
        BY <2>2
      <3> DEFINE h == Step(n + 1, g)
      <3>2. \A k \in 0 .. n : h[k] = g[k]
        BY <3>1
      <3>3. \A k \in 1 .. n + 1 : MoveToBack(h[k - 1], ids[k]) = MoveToBack(g[k - 1], ids[k])
        <4> SUFFICES ASSUME NEW k \in 1 .. n + 1 PROVE h[k - 1] = g[k - 1]
          OBVIOUS
        <4>1. k - 1 \in 0 .. n
          OBVIOUS
        <4> QED
          BY <3>2, <4>1
      <3>4. h = Step(n + 1, h)
        <4> HIDE <3>2
        <4> QED
          BY <3>3
      <3> QED
        BY <3>4
    <2> HIDE DEF P
    <2>3. Nat \subseteq P
      BY <2>1, <2>2, NatInSet
    <2> QED
      BY <2>3
  <1>2. q = Step(Len(ids), q)
    BY <1>1
  <1>3. ToBack(ids) = q[Len(ids)]
    BY DEF ToBack
  <1> HIDE DEF q
  <1>4. /\ q[0] = order
        /\ \A n \in Nat : n + 1 <= Len(ids) => q[n + 1] = MoveToBack(q[n], ids[n + 1])
    <2> DEFINE s == Step(Len(ids), q)
    <2>1. s[0] = order
      OBVIOUS
    <2>2. ASSUME NEW n \in Nat, n + 1 <= Len(ids)
          PROVE  s[n + 1] = MoveToBack(q[n], ids[n + 1])
      BY <2>2
    <2> HIDE DEF s
    <2> QED
      BY <1>2, <2>1, <2>2 DEF s
  <1>5. 0 \in Q
    BY <1>4
  <1>6. ASSUME NEW n \in Nat, n \in Q PROVE n + 1 \in Q
    <2> SUFFICES ASSUME n + 1 <= Len(ids) PROVE Good(q[n + 1], n + 1)
      OBVIOUS
    <2>1. Good(q[n], n)
      BY <1>6
    <2>2. ids[n + 1] \in TraceID
      OBVIOUS
    <2>3. Done(n + 1) = Done(n) \cup {ids[n + 1]}
      <3>1. \A k \in 1 .. n + 1 : k \in 1 .. n \/ k = n + 1
        OBVIOUS
      <3> QED
        BY <3>1
    <2> HIDE DEF Done
    <2>4. /\ List(q[n + 1])
          /\ Range(q[n + 1]) = Range(q[n]) \cup {ids[n + 1]}
          /\ \A a, b : Before(q[n + 1], a, b) =>
               b = ids[n + 1] \/ (a # ids[n + 1] /\ Before(q[n], a, b))
      BY <1>4, <2>1, <2>2, MoveToBackList
    <2> QED
      BY <2>1, <2>3, <2>4
  <1> HIDE DEF Q
  <1>7. Nat \subseteq Q
    BY <1>5, <1>6, NatInSet
  <1>8. Good(q[Len(ids)], Len(ids))
    <2>1. Len(ids) \in Q
      BY <1>7
    <2> HIDE DEF Good
    <2> QED
      BY <2>1 DEF Q
  <1>9. Done(Len(ids)) = Range(ids)
    BY DEF Range
  <1> QED
    BY <1>3, <1>8, <1>9

-----------------------------------------------------------------------------
\* Cutting a list in two divides its traces.
LEMMA CutList ==
  ASSUME NEW q, List(q), NEW n \in 0 .. Len(q)
  PROVE  /\ List(SubSeq(q, n + 1, Len(q)))
         /\ Len(SubSeq(q, n + 1, Len(q))) = Len(q) - n
         /\ \A k \in 1 .. Len(q) - n : SubSeq(q, n + 1, Len(q))[k] = q[k + n]
         /\ SubSeq(q, 1, n) \in Seq(TraceID)
         /\ Range(q) = Range(SubSeq(q, 1, n)) \cup Range(SubSeq(q, n + 1, Len(q)))
         /\ Range(SubSeq(q, 1, n)) \cap Range(SubSeq(q, n + 1, Len(q))) = {}
  <1> DEFINE front == SubSeq(q, 1, n)  back == SubSeq(q, n + 1, Len(q))
  <1>0. \A k, l \in 1 .. Len(q) : q[k] = q[l] => k = l
    BY DEF List, IsInjective
  <1>1. /\ front \in Seq(TraceID) /\ Len(front) = n
        /\ \A k \in 1 .. n : front[k] = q[k]
    BY DEF List
  <1>2. /\ back \in Seq(TraceID) /\ Len(back) = Len(q) - n
        /\ \A k \in 1 .. Len(q) - n : back[k] = q[k + n]
    BY DEF List
  <1> HIDE DEF front, back
  <1>3. IsInjective(back)
    <2> SUFFICES ASSUME NEW k \in 1 .. Len(q) - n, NEW l \in 1 .. Len(q) - n, back[k] = back[l]
                 PROVE  k = l
      BY <1>2 DEF IsInjective
    <2>1. k + n \in 1 .. Len(q) /\ l + n \in 1 .. Len(q)
      BY DEF List
    <2>2. q[k + n] = q[l + n]
      BY <1>2
    <2> QED
      BY <1>0, <2>1, <2>2
  <1>4. Range(front) = { q[k] : k \in 1 .. n }
    BY <1>1 DEF Range
  <1>5. Range(back) = { q[k] : k \in n + 1 .. Len(q) }
    <2>1. ASSUME NEW k \in n + 1 .. Len(q) PROVE q[k] \in Range(back)
      <3>1. k - n \in 1 .. Len(q) - n /\ (k - n) + n = k
        BY DEF List
      <3> QED
        BY <1>2, <3>1 DEF Range
    <2>2. ASSUME NEW k \in 1 .. Len(q) - n PROVE back[k] \in { q[l] : l \in n + 1 .. Len(q) }
      BY <1>2 DEF List
    <2> QED
      BY <1>2, <2>1, <2>2 DEF Range
  <1>6. Range(q) = { q[k] : k \in 1 .. Len(q) }
    BY DEF Range, List
  <1>7. 1 .. Len(q) = (1 .. n) \cup (n + 1 .. Len(q)) /\ (1 .. n) \cap (n + 1 .. Len(q)) = {}
    BY DEF List
  <1>8. Range(q) = Range(front) \cup Range(back)
    BY <1>4, <1>5, <1>6, <1>7
  <1>9. Range(front) \cap Range(back) = {}
    BY <1>0, <1>4, <1>5, <1>7
  <1> QED
    BY <1>1, <1>2, <1>3, <1>8, <1>9 DEF front, back, List

\* What the eviction loop leaves: a suffix of the list, the traces it names,
\* the bytes they add up to, and no limit exceeded.
LEMMA EvictLockedLeaves ==
  ASSUME NEW STATE q, List(q), NEW STATE traces, traces \in [Range(q) -> Trace],
         NEW STATE total, total = SumFunctionOnSet(SizeOf(traces), Range(q)),
         NEW now \in Nat, evicted \in Nat, EvictLocked(now, traces, q, total)
  PROVE  /\ List(order')
         /\ Range(order') \subseteq Range(q)
         /\ byID' = Restrict(traces, Range(order'))
         /\ totalBytes' = SumFunctionOnSet(SizeOf(traces), Range(order'))
         /\ evicted' \in Nat
         /\ \A a, b : Before(order', a, b) => Before(q, a, b)
         /\ order' # << >> => ~ OverLimit(now, traces[order'[1]], Len(order'), totalBytes')
  <1> DEFINE Freed(n) == SumFunctionOnSet(SizeOf(traces), Range(SubSeq(q, 1, n)))
             Stops == { n \in 0 .. Len(q) :
                          n < Len(q) => ~ OverLimit(now, traces[q[n + 1]],
                                                    Len(q) - n, total - Freed(n)) }
             n == Min(Stops)
  <1>1. n \in Stops
    <2>1. Len(q) \in Stops /\ Stops \subseteq Nat
      BY DEF List
    <2> HIDE DEF Stops
    <2> QED
      BY <2>1, LeastNat DEF Min
  <1>2. /\ order' = SubSeq(q, n + 1, Len(q))
        /\ byID' = Restrict(traces, Range(order'))
        /\ totalBytes' = total - Freed(n)
        /\ evicted' = evicted + n
    BY DEF EvictLocked
  <1>3. /\ n \in 0 .. Len(q)
        /\ n < Len(q) => ~ OverLimit(now, traces[q[n + 1]], Len(q) - n, total - Freed(n))
    BY <1>1
  <1> HIDE DEF n
  <1> DEFINE front == SubSeq(q, 1, n)  back == SubSeq(q, n + 1, Len(q))
  <1>4. /\ List(back) /\ Len(back) = Len(q) - n
        /\ \A k \in 1 .. Len(q) - n : back[k] = q[k + n]
        /\ front \in Seq(TraceID)
        /\ Range(q) = Range(front) \cup Range(back)
        /\ Range(front) \cap Range(back) = {}
    <2>1. List(back) /\ front \in Seq(TraceID)
      BY <1>3, CutList
    <2>2. Len(back) = Len(q) - n
      BY <1>3, CutList
    <2>3. \A k \in 1 .. Len(q) - n : back[k] = q[k + n]
      BY <1>3, CutList
    <2>4. Range(q) = Range(front) \cup Range(back)
      BY <1>3, CutList
    <2>5. Range(front) \cap Range(back) = {}
      BY <1>3, CutList
    <2> QED
      BY <2>1, <2>2, <2>3, <2>4, <2>5
  <1>5. SumFunctionOnSet(SizeOf(traces), Range(back)) = total - Freed(n)
    <2>1. IsFiniteSet(Range(front)) /\ IsFiniteSet(Range(back))
      BY <1>4, RangeFinite DEF List
    <2>2. \A x \in Range(front) \cup Range(back) : SizeOf(traces)[x] \in Nat
      BY <1>4 DEF SizeOf, Trace
    <2>3. total = Freed(n) + SumFunctionOnSet(SizeOf(traces), Range(back))
      BY <1>4, <2>1, <2>2, SumUnion
    <2>4. Freed(n) \in Nat /\ SumFunctionOnSet(SizeOf(traces), Range(back)) \in Nat
      BY <2>1, <2>2, SumNat
    <2> HIDE DEF Freed
    <2> QED
      BY <2>3, <2>4
  <1>6. \A a, b : Before(back, a, b) => Before(q, a, b)
    <2> SUFFICES ASSUME NEW a, NEW b, NEW i \in 1 .. Len(q) - n, NEW j \in 1 .. Len(q) - n,
                        i <= j, back[i] = a, back[j] = b
                 PROVE  Before(q, a, b)
      BY <1>4 DEF Before
    <2>1. i + n \in 1 .. Len(q) /\ j + n \in 1 .. Len(q) /\ i + n <= j + n
      BY <1>3 DEF List
    <2>2. q[i + n] = a /\ q[j + n] = b
      BY <1>4
    <2> QED
      BY <2>1, <2>2 DEF Before
  <1>7. back # << >> => n < Len(q) /\ back[1] = q[n + 1]
    BY <1>3, <1>4 DEF List
  <1> HIDE DEF front, back, Freed
  <1>8. order' = back
    BY <1>2 DEF back
  <1>9. evicted' \in Nat
    BY <1>2, <1>3 DEF List
  <1> QED
    BY <1>2, <1>3, <1>4, <1>5, <1>6, <1>7, <1>8, <1>9

-----------------------------------------------------------------------------
\* The trace t with the fields assigned that Merge assigns.
Touched(t, spans, last, size, state) ==
  [t EXCEPT !.spans = spans, !.lastSeen = last, !.sizeBytes = size, !.state = state]

\* It stays a trace.
LEMMA TraceUpdate ==
  ASSUME NEW t \in Trace, NEW spans \in SUBSET Span, NEW last \in Nat,
         NEW size \in Nat, NEW state \in States
  PROVE  /\ Touched(t, spans, last, size, state) \in Trace
         /\ Touched(t, spans, last, size, state).lastSeen = last
         /\ Touched(t, spans, last, size, state).sizeBytes = size
  BY DEF Trace, Touched

\* What Merge makes of a trace.
LEMMA MergeTrace ==
  ASSUME byID \in [Retained -> Trace], NEW now \in Nat, NEW id, NEW span \in Span
  PROVE  /\ Merge(now, id, span) \in Trace
         /\ Merge(now, id, span).lastSeen = now
         /\ Merge(now, id, span).sizeBytes
              = IF id \in Retained THEN byID[id].sizeBytes + SpanSize[span]
                ELSE SpanSize[span]
  <1>1. SpanSize[span] \in Nat
    BY StoreAssumption DEF StoreAssumption
  <1>2. CASE id \in Retained
    <2> DEFINE t == byID[id]
    <2>1. /\ t \in Trace /\ t.spans \cup {span} \in SUBSET Span
          /\ t.sizeBytes + SpanSize[span] \in Nat
          /\ (IF t.state \in {"DECIDED", "EXPIRED"} THEN "RECEIVING" ELSE t.state) \in States
      BY <1>1, <1>2 DEF Trace, States
    <2>2. Merge(now, id, span)
            = Touched(t, t.spans \cup {span}, now, t.sizeBytes + SpanSize[span],
                      IF t.state \in {"DECIDED", "EXPIRED"} THEN "RECEIVING" ELSE t.state)
      BY <1>2 DEF Merge, Touched
    <2> HIDE DEF t
    <2>3. /\ Merge(now, id, span) \in Trace
          /\ Merge(now, id, span).lastSeen = now
          /\ Merge(now, id, span).sizeBytes = t.sizeBytes + SpanSize[span]
      BY <2>1, <2>2, TraceUpdate
    <2> QED
      BY <1>2, <2>3 DEF t
  <1>3. CASE id \notin Retained
    BY <1>1, <1>3 DEF Merge, Trace, States, Decisions
  <1> QED
    BY <1>2, <1>3

\* The traces after a frame, before anything is evicted.
Merged(now, ids, spans) ==
  [id \in Retained \cup Range(ids) |->
     IF id \in Range(ids) THEN Merge(now, id, spans[id]) ELSE byID[id]]

\* What holds in every state: the index and the byte account.
StoreInv == TypeOK /\ IndexConsistent /\ BytesAccounted

\* The byte account after a frame, before anything is evicted.
LEMMA IngestAccount ==
  ASSUME StoreInv, NEW now \in Nat, NEW ids \in Seq(TraceID), NEW spans \in [Range(ids) -> Span]
  PROVE  /\ Merged(now, ids, spans) \in [Retained \cup Range(ids) -> Trace]
         /\ totalBytes + SumFunctionOnSet([id \in Range(ids) |-> SpanSize[spans[id]]], Range(ids))
              = SumFunctionOnSet(SizeOf(Merged(now, ids, spans)), Retained \cup Range(ids))
  <1> DEFINE add == [id \in Range(ids) |-> SpanSize[spans[id]]]
             new == Merged(now, ids, spans)
  <1>1. byID \in [Retained -> Trace]
    BY DEF StoreInv, TypeOK
  <1>2. new \in [Retained \cup Range(ids) -> Trace]
    BY <1>1, MergeTrace DEF Merged
  <1>3. IsFiniteSet(Retained) /\ IsFiniteSet(Range(ids))
    BY RangeFinite DEF StoreInv, TypeOK, IndexConsistent
  <1>4. \A id \in Retained : SizeOf(byID)[id] = byID[id].sizeBytes /\ SizeOf(byID)[id] \in Nat
    BY <1>1 DEF SizeOf, Trace, Retained
  <1>5. \A id \in Range(ids) : add[id] = SpanSize[spans[id]] /\ add[id] \in Nat
    BY StoreAssumption DEF StoreAssumption
  <1>6. \A id \in Retained \cup Range(ids) : SizeOf(new)[id] = new[id].sizeBytes
    BY <1>2 DEF SizeOf
  <1>7. \A id \in Retained \ Range(ids) : new[id] = byID[id]
    BY DEF Merged
  <1>8. \A id \in Range(ids) : new[id] = Merge(now, id, spans[id])
    BY DEF Merged
  <1>9. \A id \in Range(ids) :
          new[id].sizeBytes = IF id \in Retained THEN byID[id].sizeBytes + SpanSize[spans[id]]
                              ELSE SpanSize[spans[id]]
    BY <1>1, <1>8, MergeTrace
  <1>10. totalBytes = SumFunctionOnSet(SizeOf(byID), Retained)
    <2>1. DOMAIN SizeOf(byID) = Retained
      BY DEF SizeOf, Retained
    <2> QED
      BY <2>1 DEF StoreInv, BytesAccounted, SumFunction
  <1> HIDE DEF new, add
  <1>11. SumFunctionOnSet(SizeOf(new), Retained \cup Range(ids))
           = SumFunctionOnSet(SizeOf(byID), Retained) + SumFunctionOnSet(add, Range(ids))
    BY <1>3, <1>4, <1>5, <1>6, <1>7, <1>9, SumMerged
  <1> QED
    BY <1>2, <1>10, <1>11 DEF new, add

\* What a frame leaves behind.
LEMMA IngestLeaves ==
  ASSUME StoreInv, NEW now \in Nat, NEW ids \in Seq(TraceID), NEW spans \in [Range(ids) -> Span],
         Ingest(now, ids, spans)
  PROVE  /\ List(order')
         /\ Retained' = Range(order')
         /\ byID' \in [Range(order') -> Trace]
         /\ \A id \in Range(order') :
              /\ id \in Retained \cup Range(ids)
              /\ byID'[id].lastSeen = IF id \in Range(ids) THEN now ELSE byID[id].lastSeen
              /\ byID'[id] = IF id \in Range(ids) THEN Merge(now, id, spans[id]) ELSE byID[id]
         /\ totalBytes' = SumFunctionOnSet(SizeOf(byID'), Range(order'))
         /\ totalBytes' \in Nat
         /\ evicted' \in Nat
         /\ \A a, b : Before(order', a, b) =>
              b \in Range(ids) \/ (a \notin Range(ids) /\ Before(order, a, b))
         /\ order' # << >> => ~ OverLimit(now, byID'[order'[1]], Len(order'), totalBytes')
  <1> DEFINE q == ToBack(ids)
             traces == Merged(now, ids, spans)
             total == totalBytes + SumFunctionOnSet([id \in Range(ids) |-> SpanSize[spans[id]]],
                                                    Range(ids))
  <1>1. List(order) /\ Range(order) = Retained /\ byID \in [Retained -> Trace] /\ evicted \in Nat
    BY DEF StoreInv, TypeOK, IndexConsistent, List
  <1>2. /\ List(q) /\ Range(q) = Retained \cup Range(ids)
        /\ \A a, b : Before(q, a, b) =>
              b \in Range(ids) \/ (a \notin Range(ids) /\ Before(order, a, b))
    BY <1>1, ToBackList
  <1>3. traces \in [Range(q) -> Trace] /\ total = SumFunctionOnSet(SizeOf(traces), Range(q))
    BY <1>2, IngestAccount
  <1>4. EvictLocked(now, traces, q, total)
    BY DEF Ingest, Merged
  <1>5. \A id \in Retained \cup Range(ids) :
          traces[id] = IF id \in Range(ids) THEN Merge(now, id, spans[id]) ELSE byID[id]
    BY DEF Merged
  <1>6. \A id \in Retained \cup Range(ids) :
          traces[id].lastSeen = IF id \in Range(ids) THEN now ELSE byID[id].lastSeen
    BY <1>1, <1>5, MergeTrace
  <1> HIDE DEF q, traces, total
  <1>7. /\ List(order')
        /\ Range(order') \subseteq Range(q)
        /\ byID' = Restrict(traces, Range(order'))
        /\ totalBytes' = SumFunctionOnSet(SizeOf(traces), Range(order'))
        /\ evicted' \in Nat
        /\ \A a, b : Before(order', a, b) => Before(q, a, b)
        /\ order' # << >> => ~ OverLimit(now, traces[order'[1]], Len(order'), totalBytes')
    BY <1>1, <1>2, <1>3, <1>4, EvictLockedLeaves
  <1> DEFINE kept == Range(order')
  <1>8. /\ byID' = [id \in kept |-> traces[id]]
        /\ byID' \in [kept -> Trace]
        /\ \A id \in kept : byID'[id] = traces[id]
    BY <1>3, <1>7 DEF Restrict
  <1>9. Retained' = kept
    BY <1>8 DEF Retained
  <1>10. IsFiniteSet(kept)
    BY <1>7, RangeFinite DEF List
  <1>11. /\ \A id \in kept : SizeOf(traces)[id] \in Nat /\ SizeOf(traces)[id] = SizeOf(byID')[id]
    BY <1>3, <1>7, <1>8 DEF SizeOf, Trace
  <1>12. /\ totalBytes' = SumFunctionOnSet(SizeOf(byID'), kept)
         /\ totalBytes' \in Nat
    BY <1>7, <1>10, <1>11, SumEqual, SumNat
  <1>13. order' # << >> => order'[1] \in kept
    BY <1>7 DEF Range, List
  <1>14. order' # << >> => ~ OverLimit(now, byID'[order'[1]], Len(order'), totalBytes')
    BY <1>7, <1>8, <1>13
  <1>15. \A a, b : Before(order', a, b) =>
              b \in Range(ids) \/ (a \notin Range(ids) /\ Before(order, a, b))
    BY <1>2, <1>7
  <1>16. \A id \in kept :
           /\ id \in Retained \cup Range(ids)
           /\ byID'[id].lastSeen = IF id \in Range(ids) THEN now ELSE byID[id].lastSeen
           /\ byID'[id] = IF id \in Range(ids) THEN Merge(now, id, spans[id]) ELSE byID[id]
    BY <1>2, <1>5, <1>6, <1>7, <1>8
  <1> QED
    BY <1>7, <1>8, <1>9, <1>12, <1>14, <1>15, <1>16

\* The other methods change states and decisions only.
Relabels ==
  /\ Retained' = Retained
  /\ byID' \in [Retained -> Trace]
  /\ \A id \in Retained : /\ byID'[id].sizeBytes = byID[id].sizeBytes
                          /\ byID'[id].lastSeen = byID[id].lastSeen
  /\ UNCHANGED <<order, totalBytes, evicted>>

LEMMA RelabelUpdates ==
  ASSUME NEW t \in Trace
  PROVE  /\ \A state \in States :
              /\ [t EXCEPT !.state = state] \in Trace
              /\ [t EXCEPT !.state = state].sizeBytes = t.sizeBytes
              /\ [t EXCEPT !.state = state].lastSeen = t.lastSeen
         /\ \A decision \in Decisions :
              /\ [t EXCEPT !.decision = decision] \in Trace
              /\ [t EXCEPT !.decision = decision].sizeBytes = t.sizeBytes
              /\ [t EXCEPT !.decision = decision].lastSeen = t.lastSeen
  BY DEF Trace

LEMMA OthersRelabel ==
  ASSUME StoreInv, Sweep \/ Verdict \/ PolicyUpdate
  PROVE  Relabels
  <1>1. byID \in [Retained -> Trace]
    BY DEF StoreInv, TypeOK
  <1>2. CASE Sweep
    <2>1. PICK now \in 0 .. clock, wait \in DecisionWaits : DueForDecision(now, wait)
      BY <1>2 DEF Sweep
    <2> DEFINE New(id) == IF id \in Due(now, wait)
                          THEN [byID[id] EXCEPT !.state = "READY"] ELSE byID[id]
    <2>2. /\ byID' = [id \in Retained |-> New(id)]
          /\ UNCHANGED <<order, totalBytes, evicted>>
      BY <2>1 DEF DueForDecision
    <2>3. \A id \in Retained : /\ New(id) \in Trace
                               /\ New(id).sizeBytes = byID[id].sizeBytes
                               /\ New(id).lastSeen = byID[id].lastSeen
      BY <1>1, RelabelUpdates DEF States
    <2> HIDE DEF New
    <2> QED
      BY <2>2, <2>3 DEF Relabels, Retained
  <1>3. CASE Verdict
    <2>1. PICK e \in TraceID, decision \in {"KEEP", "DROP"} : ApplyDecision(e, decision)
      BY <1>3 DEF Verdict
    <2>2. CASE e \notin Retained
      BY <1>1, <2>1, <2>2 DEF ApplyDecision, Relabels, Retained
    <2>3. CASE e \in Retained
      <3> DEFINE t == byID[e]  u == [t EXCEPT !.decision = decision]
                 v == [u EXCEPT !.state = "DECIDED"]
      <3>1. u \in Trace /\ u.sizeBytes = t.sizeBytes /\ u.lastSeen = t.lastSeen
        BY <1>1, <2>3, RelabelUpdates DEF Decisions
      <3> HIDE DEF u
      <3>2. v \in Trace /\ v.sizeBytes = t.sizeBytes /\ v.lastSeen = t.lastSeen
        BY <3>1, RelabelUpdates DEF States
      <3>3. /\ byID' = [byID EXCEPT ![e] = v]
            /\ UNCHANGED <<order, totalBytes, evicted>>
        BY <1>1, <2>1, <2>3 DEF ApplyDecision, u
      <3> HIDE DEF v
      <3> QED
        BY <1>1, <2>3, <3>2, <3>3 DEF Relabels, Retained
    <2> QED
      BY <2>2, <2>3
  <1>4. CASE PolicyUpdate
    <2>1. PICK visit \in [Retained -> {"KEEP", "DROP", "ERROR"}] : ForEachMutate(visit)
      BY <1>4 DEF PolicyUpdate
    <2> DEFINE New(id) == IF visit[id] = "ERROR" THEN byID[id]
                          ELSE [byID[id] EXCEPT !.decision = visit[id]]
    <2>2. /\ byID' = [id \in Retained |-> New(id)]
          /\ UNCHANGED <<order, totalBytes, evicted>>
      BY <2>1 DEF ForEachMutate
    <2>3. \A id \in Retained : /\ New(id) \in Trace
                               /\ New(id).sizeBytes = byID[id].sizeBytes
                               /\ New(id).lastSeen = byID[id].lastSeen
      BY <1>1, RelabelUpdates DEF Decisions
    <2> HIDE DEF New
    <2> QED
      BY <2>2, <2>3 DEF Relabels, Retained
  <1> QED
    BY <1>2, <1>3, <1>4

\* The parameters of a frame are what IngestLeaves asks for.
LEMMA FrameIngests ==
  ASSUME Frame, TypeOK
  PROVE  \E now \in Instants, ids \in Seq(TraceID) : \E spans \in [Range(ids) -> Span] :
           now \in Nat /\ clock <= now + MaxLag /\ now <= clock /\ Ingest(now, ids, spans)
  <1>1. Batches \subseteq Seq(TraceID)
    BY DEF Batches, BoundedSeq, SeqOf
  <1>2. PICK now \in Instants, ids \in Batches :
          \E spans \in [Range(ids) -> Span] : Ingest(now, ids, spans)
    BY DEF Frame
  <1>3. now \in Nat /\ clock <= now + MaxLag /\ now <= clock
    BY StoreAssumption DEF Instants, StoreAssumption, TypeOK
  <1> QED
    BY <1>1, <1>2, <1>3

-----------------------------------------------------------------------------
\* The index and the byte account are inductive together: Ingest keeps the
\* list and the map in step (store.go:85-94, 236-242) and adds to totalBytes
\* what it adds to the traces (store.go:96-97, 238).
LEMMA StoreInvInit == Init => StoreInv
  <1> SUFFICES ASSUME Init PROVE StoreInv
    OBVIOUS
  <1>1. Retained = {} /\ SizeOf(byID) = [id \in {} |-> 0]
    BY DEF Init, Retained, SizeOf
  <1>2. SumFunction(SizeOf(byID)) = 0
    BY <1>1, SumEmpty DEF SumFunction
  <1>3. IsInjective(order) /\ Range(order) = {}
    BY DEF Init, IsInjective, Range
  <1>4. byID \in [Retained -> Trace] /\ order \in Seq(TraceID)
    BY <1>1 DEF Init
  <1> QED
    BY <1>1, <1>2, <1>3, <1>4 DEF StoreInv, TypeOK, IndexConsistent, BytesAccounted, Init

LEMMA StoreInvNext == StoreInv /\ [Next]_vars => StoreInv'
  <1> SUFFICES ASSUME StoreInv, [Next]_vars PROVE StoreInv'
    OBVIOUS
  <1>0. TypeOK /\ IndexConsistent /\ BytesAccounted
    BY DEF StoreInv
  <1>1. CASE Frame
    <2>1. PICK now \in Instants, ids \in Seq(TraceID) :
            \E spans \in [Range(ids) -> Span] : now \in Nat /\ Ingest(now, ids, spans)
      BY <1>0, <1>1, FrameIngests
    <2>2. PICK spans \in [Range(ids) -> Span] : now \in Nat /\ Ingest(now, ids, spans)
      BY <2>1
    <2>3. /\ List(order') /\ Retained' = Range(order')
          /\ byID' \in [Range(order') -> Trace]
          /\ totalBytes' = SumFunctionOnSet(SizeOf(byID'), Range(order'))
          /\ totalBytes' \in Nat /\ evicted' \in Nat
      BY <2>2, IngestLeaves
    <2>4. SumFunction(SizeOf(byID')) = totalBytes'
      <3>1. DOMAIN SizeOf(byID') = Range(order')
        BY <2>3 DEF SizeOf
      <3> QED
        BY <2>3, <3>1 DEF SumFunction
    <2>5. clock' = clock
      BY <1>1 DEF Frame
    <2>6. TypeOK'
      BY <1>0, <2>3, <2>5, RangeFinite DEF TypeOK, List
    <2>7. IndexConsistent'
      BY <2>3 DEF IndexConsistent, List
    <2> QED
      BY <2>4, <2>6, <2>7 DEF StoreInv, BytesAccounted, SizeOf
  <1>2. CASE Sweep \/ Verdict \/ PolicyUpdate
    <2>1. Relabels
      BY <1>2, OthersRelabel
    <2>2. clock' = clock
      BY <1>2 DEF Sweep, Verdict, PolicyUpdate
    <2>3. TypeOK' /\ IndexConsistent'
      BY <1>0, <2>1, <2>2 DEF Relabels, TypeOK, IndexConsistent
    <2>4. SizeOf(byID') = SizeOf(byID)
      BY <1>0, <2>1 DEF Relabels, SizeOf, Retained, TypeOK
    <2>5. BytesAccounted'
      BY <1>0, <2>1, <2>4 DEF Relabels, BytesAccounted, SizeOf
    <2> QED
      BY <2>3, <2>5 DEF StoreInv
  <1>3. CASE Tick
    BY <1>0, <1>3, StoreAssumption
       DEF Tick, storeVars, StoreInv, TypeOK, IndexConsistent, BytesAccounted, Retained, SizeOf
  <1>4. CASE UNCHANGED vars
    BY <1>0, <1>4 DEF vars, StoreInv, TypeOK, IndexConsistent, BytesAccounted, Retained, SizeOf
  <1> QED
    BY <1>1, <1>2, <1>3, <1>4 DEF Next

LEMMA StoreInvariant == Spec => []StoreInv
  BY StoreInvInit, StoreInvNext, PTL DEF Spec

\* Every variable keeps its type; in particular the byte account never goes
\* below zero, where the code's unsigned counter would wrap (store.go:238).
THEOREM TypeCorrect == Spec => []TypeOK
  <1>1. StoreInv => TypeOK
    BY DEF StoreInv
  <1> QED
    BY <1>1, StoreInvariant, PTL

\* The list and the map hold the same traces, each once (store.go:85-94,
\* 236-242).
THEOREM IndexStaysConsistent == Spec => []IndexConsistent
  <1>1. StoreInv => IndexConsistent
    BY DEF StoreInv
  <1> QED
    BY <1>1, StoreInvariant, PTL

\* The byte account is the sum of the sizes of the retained traces
\* (store.go:96-97, 238).
THEOREM BytesStayAccounted == Spec => []BytesAccounted
  <1>1. StoreInv => BytesAccounted
    BY DEF StoreInv
  <1> QED
    BY <1>1, StoreInvariant, PTL

\* The eviction loop ends with every limit respected, whatever a frame
\* brought (store.go:218-234), and no other method adds a trace or a byte.
THEOREM LimitsHold == Spec => []WithinLimits
  <1>1. Init => WithinLimits
    BY StoreAssumption DEF Init, WithinLimits, StoreAssumption
  <1>2. StoreInv /\ WithinLimits /\ [Next]_vars => WithinLimits'
    <2> SUFFICES ASSUME StoreInv, WithinLimits, [Next]_vars PROVE WithinLimits'
      OBVIOUS
    <2>1. CASE Frame
      <3>1. PICK now \in Instants, ids \in Seq(TraceID) :
              \E spans \in [Range(ids) -> Span] : now \in Nat /\ Ingest(now, ids, spans)
        BY <2>1, FrameIngests DEF StoreInv
      <3>2. PICK spans \in [Range(ids) -> Span] : now \in Nat /\ Ingest(now, ids, spans)
        BY <3>1
      <3>3. /\ List(order')
            /\ totalBytes' = SumFunctionOnSet(SizeOf(byID'), Range(order'))
            /\ totalBytes' \in Nat
            /\ order' # << >> => ~ OverLimit(now, byID'[order'[1]], Len(order'), totalBytes')
        BY <3>2, IngestLeaves
      <3>4. CASE order' = << >>
        <4>1. Range(order') = {} /\ Len(order') = 0
          BY <3>4 DEF Range
        <4>2. totalBytes' = 0
          BY <3>3, <4>1, SumEmpty
        <4> QED
          BY <4>1, <4>2, StoreAssumption DEF WithinLimits, StoreAssumption
      <3>5. CASE order' # << >>
        <4>1. ~ (Len(order') > MaxTraces) /\ ~ (totalBytes' > MaxMemory)
          BY <3>3, <3>5 DEF OverLimit
        <4> QED
          BY <3>3, <4>1, StoreAssumption DEF WithinLimits, StoreAssumption, List
      <3> QED
        BY <3>4, <3>5
    <2>2. CASE Sweep \/ Verdict \/ PolicyUpdate
      BY <2>2, OthersRelabel DEF Relabels, WithinLimits
    <2>3. CASE Tick
      BY <2>3 DEF Tick, storeVars, WithinLimits
    <2>4. CASE UNCHANGED vars
      BY <2>4 DEF vars, WithinLimits
    <2> QED
      BY <2>1, <2>2, <2>3, <2>4 DEF Next
  <1> QED
    BY <1>1, <1>2, StoreInvariant, PTL DEF Spec

-----------------------------------------------------------------------------
\* No trace was touched in the future, and the list is in the order of
\* recency up to the lag.
RecencyInv ==
  /\ \A id \in Retained : byID[id].lastSeen <= clock
  /\ \A a, b \in Retained : Before(order, a, b) =>
       byID[a].lastSeen <= byID[b].lastSeen + MaxLag

LEMMA RecencyInvNext == StoreInv /\ RecencyInv /\ [Next]_vars => RecencyInv'
  <1> SUFFICES ASSUME StoreInv, RecencyInv, [Next]_vars PROVE RecencyInv'
    OBVIOUS
  <1>0. /\ TypeOK /\ byID \in [Retained -> Trace] /\ clock \in Nat
        /\ order \in Seq(TraceID) /\ Range(order) = Retained
    BY DEF StoreInv, TypeOK, IndexConsistent
  <1>1. CASE Frame
    <2>1. PICK now \in Instants, ids \in Seq(TraceID) : \E spans \in [Range(ids) -> Span] :
            now \in Nat /\ clock <= now + MaxLag /\ now <= clock /\ Ingest(now, ids, spans)
      BY <1>0, <1>1, FrameIngests
    <2>2. PICK spans \in [Range(ids) -> Span] :
            now \in Nat /\ clock <= now + MaxLag /\ now <= clock /\ Ingest(now, ids, spans)
      BY <2>1
    <2>3. /\ Retained' = Range(order')
          /\ \A id \in Range(order') :
               /\ id \in Retained \cup Range(ids)
               /\ byID'[id].lastSeen = IF id \in Range(ids) THEN now ELSE byID[id].lastSeen
          /\ \A a, b : Before(order', a, b) =>
              b \in Range(ids) \/ (a \notin Range(ids) /\ Before(order, a, b))
      BY <2>2, IngestLeaves
    <2>4. clock' = clock
      BY <1>1 DEF Frame
    <2>5. \A id \in Retained : byID[id].lastSeen \in Nat /\ byID[id].lastSeen <= clock
      BY <1>0 DEF RecencyInv, Trace
    <2>6. \A id \in Retained' : byID'[id].lastSeen <= clock
      BY <2>2, <2>3, <2>5
    <2>7. ASSUME NEW a \in Retained', NEW b \in Retained', Before(order', a, b)
          PROVE  byID'[a].lastSeen <= byID'[b].lastSeen + MaxLag
      <3>1. CASE b \in Range(ids)
        <4>1. byID'[b].lastSeen = now
          BY <2>3, <3>1
        <4>2. byID'[a].lastSeen <= clock /\ byID'[a].lastSeen \in Nat
          BY <2>2, <2>3, <2>5, <2>6
        <4> QED
          BY <1>0, <2>2, <4>1, <4>2, StoreAssumption DEF StoreAssumption
      <3>2. CASE b \notin Range(ids)
        <4>1. Before(order, a, b) /\ b \in Retained
          BY <2>3, <2>7, <3>2
        <4>2. a \in Retained
          BY <1>0, <4>1 DEF Before, Range
        <4>3. byID[a].lastSeen <= byID[b].lastSeen + MaxLag
          BY <4>1, <4>2 DEF RecencyInv
        <4>4. byID'[b].lastSeen = byID[b].lastSeen
          BY <2>3, <3>2
        <4>5. byID'[a].lastSeen = byID[a].lastSeen
          BY <2>3, <2>7, <3>2
        <4> QED
          BY <4>3, <4>4, <4>5
      <3> QED
        BY <3>1, <3>2
    <2> QED
      BY <2>4, <2>6, <2>7 DEF RecencyInv
  <1>2. CASE Sweep \/ Verdict \/ PolicyUpdate
    <2>1. Relabels /\ clock' = clock
      BY <1>2, OthersRelabel DEF Sweep, Verdict, PolicyUpdate
    <2> QED
      BY <2>1 DEF Relabels, RecencyInv, Before
  <1>3. CASE Tick
    <2>1. /\ clock' = clock + 1 /\ byID' = byID /\ order' = order /\ Retained' = Retained
      BY <1>3 DEF Tick, storeVars, Retained
    <2>2. \A id \in Retained : byID[id].lastSeen \in Nat
      BY <1>0 DEF Trace
    <2> QED
      BY <1>0, <2>1, <2>2 DEF RecencyInv, Before
  <1>4. CASE UNCHANGED vars
    <2>1. /\ clock' = clock /\ byID' = byID /\ order' = order /\ Retained' = Retained
      BY <1>4 DEF vars, Retained
    <2> QED
      BY <2>1 DEF RecencyInv, Before
  <1> QED
    BY <1>1, <1>2, <1>3, <1>4 DEF Next

LEMMA RecencyInvariant == Spec => []RecencyInv
  <1>1. Init => RecencyInv
    BY DEF Init, RecencyInv, Retained
  <1> QED
    BY <1>1, RecencyInvNext, StoreInvariant, PTL DEF Spec

\* The positions RecencyOrder speaks of are what Before says.
LEMMA RecencyOrderIs ==
  ASSUME StoreInv, RecencyInv
  PROVE  RecencyOrder
  <1> SUFFICES ASSUME NEW i \in 1 .. Len(order), NEW j \in 1 .. Len(order), i <= j
               PROVE  byID[order[i]].lastSeen <= byID[order[j]].lastSeen + MaxLag
    BY DEF RecencyOrder
  <1>1. order[i] \in Retained /\ order[j] \in Retained
    BY DEF StoreInv, TypeOK, IndexConsistent, Range
  <1>2. Before(order, order[i], order[j])
    BY DEF Before
  <1> QED
    BY <1>1, <1>2 DEF RecencyInv

\* The list is ordered by recency up to the time its callers may wait for the
\* mutex, which is what makes its front the candidate for eviction
\* (store.go:85, 94, 214-217).
THEOREM RecencyKept == Spec => []RecencyOrder
  BY RecencyOrderIs, StoreInvariant, RecencyInvariant, PTL

-----------------------------------------------------------------------------
\* A call that changes the list or the byte account is one of Ingest, and
\* leaves nothing older than MaxAge, up to the lags (store.go:227).
THEOREM FreshAfterEveryIngest == Spec => FreshAfterIngest
  <1> DEFINE Fresh == <<order, totalBytes>>' # <<order, totalBytes>> =>
               \A id \in Retained' : clock - byID'[id].lastSeen <= MaxAge + 2 * MaxLag
  <1>1. StoreInv /\ StoreInv' /\ RecencyInv' /\ [Next]_vars => [Fresh]_vars
    <2> SUFFICES ASSUME StoreInv, StoreInv', RecencyInv', Next,
                        <<order, totalBytes>>' # <<order, totalBytes>>,
                        NEW e \in Retained'
                 PROVE  clock - byID'[e].lastSeen <= MaxAge + 2 * MaxLag
      BY DEF vars
    <2>1. Frame
      <3>1. Relabels => UNCHANGED <<order, totalBytes>>
        BY DEF Relabels
      <3>2. Tick => UNCHANGED <<order, totalBytes>>
        BY DEF Tick, storeVars
      <3> QED
        BY <3>1, <3>2, OthersRelabel DEF Next
    <2>2. PICK now \in Instants, ids \in Seq(TraceID) : \E spans \in [Range(ids) -> Span] :
            now \in Nat /\ clock <= now + MaxLag /\ now <= clock /\ Ingest(now, ids, spans)
      BY <2>1, FrameIngests DEF StoreInv
    <2>3. PICK spans \in [Range(ids) -> Span] :
            now \in Nat /\ clock <= now + MaxLag /\ now <= clock /\ Ingest(now, ids, spans)
      BY <2>2
    <2>4. /\ List(order') /\ Retained' = Range(order') /\ byID' \in [Range(order') -> Trace]
          /\ order' # << >> => ~ OverLimit(now, byID'[order'[1]], Len(order'), totalBytes')
      BY <2>3, IngestLeaves
    <2>5. PICK k \in 1 .. Len(order') : order'[k] = e
      BY <2>4 DEF Range, List
    <2>6. order' # << >> /\ 1 \in 1 .. Len(order') /\ order'[1] \in Retained'
      BY <2>4, <2>5 DEF Range, List
    <2> DEFINE front == byID'[order'[1]].lastSeen  last == byID'[e].lastSeen
    <2>7. front \in Nat /\ last \in Nat
      BY <2>4, <2>6 DEF Trace
    <2>8. front <= last + MaxLag
      <3>1. Before(order', order'[1], e)
        BY <2>4, <2>5, <2>6 DEF Before, List
      <3> QED
        BY <2>6, <3>1 DEF RecencyInv, Before
    <2>9. ~ (now - front > MaxAge)
      BY <2>4, <2>6 DEF OverLimit
    <2>10. clock \in Nat /\ MaxAge \in Nat /\ MaxLag \in Nat
      BY StoreAssumption DEF StoreInv, TypeOK, StoreAssumption
    <2> HIDE DEF front, last
    <2>11. clock - last <= MaxAge + 2 * MaxLag
      BY <2>3, <2>7, <2>8, <2>9, <2>10
    <2> QED
      BY <2>11 DEF last
  <1> QED
    BY <1>1, StoreInvariant, RecencyInvariant, PTL DEF Spec, FreshAfterIngest
=============================================================================
