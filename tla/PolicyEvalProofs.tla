--------------------------- MODULE PolicyEvalProofs ---------------------------
(***************************************************************************)
(* Proofs about PolicyEval, for any policies, traces, groups of spans and  *)
(* bounds: what an attribute filter means, then the invariant of the       *)
(* evaluating goroutines and what rests on it, namely the evaluators'      *)
(* owners, the limiters' budgets, the comparison's counts, the results of  *)
(* evaluations and the verdicts in the store.                              *)
(***************************************************************************)
EXTENDS PolicyEval, SequenceTheorems, FiniteSetTheorems, TLAPS

\* Which keys a stored span has, and what an integer among its values is.
WellKeyed(s) ==
  \A k \in DOMAIN s.attributes :
    /\ k = <<k[1], k[2]>>
    /\ s.attributes[k].kind = "int" => s.attributes[k].val \in Int

LEMMA AssembleType == \A g \in Group : Assemble(g) \in Seq(Stored)
<1> SUFFICES ASSUME NEW g \in Group PROVE Assemble(g) \in Seq(Stored)
  OBVIOUS
<1>1. g.spans \in Seq(Range(g.spans))
  BY GroupAssumption
<1>2. Len(g.spans) \in Nat /\ DOMAIN g.spans = 1 .. Len(g.spans)
  BY <1>1
<1>3. ASSUME NEW k \in DOMAIN g.spans PROVE Assemble(g)[k] \in Stored
  <2>1. Assemble(g)[k] \in Range(Assemble(g))
    BY DEF Assemble, Range
  <2> QED BY <2>1 DEF Stored
<1>4. Assemble(g) = [k \in 1 .. Len(g.spans) |-> Assemble(g)[k]]
  BY <1>2 DEF Assemble
<1> QED BY <1>2, <1>3, <1>4

LEMMA FlatKeyed ==
  ASSUME NEW g \in Group, NEW k \in DOMAIN g.spans
  PROVE  WellKeyed(toSpan(g.spans[k], g))
<1> DEFINE s == g.spans[k]
           keys == ({"resource"} \X DOMAIN g.resource) \cup ({"attributes"} \X DOMAIN s.attrs)
           flat == toSpan(s, g).attributes
<1>1. flat = [f \in keys |-> IF f[1] = "resource" THEN g.resource[f[2]] ELSE s.attrs[f[2]]]
  BY DEF toSpan, Flat
<1>2. s \in Range(g.spans)
  BY DEF Range
<1>3. /\ \A v \in Range(g.resource) : v.kind = "int" => v.val \in Int
      /\ \A v \in Range(s.attrs) : v.kind = "int" => v.val \in Int
  BY <1>2, GroupAssumption
<1>4. ASSUME NEW f \in keys
      PROVE  f = <<f[1], f[2]>> /\ (flat[f].kind = "int" => flat[f].val \in Int)
  <2>1. CASE f \in {"resource"} \X DOMAIN g.resource
    <3>1. f = <<f[1], f[2]>> /\ f[1] = "resource" /\ f[2] \in DOMAIN g.resource
      BY <2>1
    <3>2. flat[f] \in Range(g.resource)
      BY <1>1, <3>1 DEF Range
    <3> QED BY <1>3, <3>1, <3>2
  <2>2. CASE f \in {"attributes"} \X DOMAIN s.attrs
    <3>1. f = <<f[1], f[2]>> /\ f[1] = "attributes" /\ f[2] \in DOMAIN s.attrs
      BY <2>2
    <3>2. flat[f] \in Range(s.attrs)
      BY <1>1, <3>1 DEF Range
    <3> QED BY <1>3, <3>1, <3>2
  <2> QED BY <2>1, <2>2
<1> QED BY <1>1, <1>4 DEF WellKeyed

LEMMA StoredKeyed == \A s \in Stored : WellKeyed(s)
  BY FlatKeyed DEF Stored, Range, Assemble
-----------------------------------------------------------------------------
LEMMA UnprefixedAt ==
  ASSUME NEW s, WellKeyed(s), NEW prefix, NEW key
  PROVE  /\ key \in DOMAIN Unprefixed(s.attributes, prefix)
              <=> <<prefix, key>> \in DOMAIN s.attributes
         /\ key \in DOMAIN Unprefixed(s.attributes, prefix) =>
              Unprefixed(s.attributes, prefix)[key] = s.attributes[<<prefix, key>>]
<1>1. DOMAIN Unprefixed(s.attributes, prefix)
        = { f[2] : f \in { g \in DOMAIN s.attributes : g[1] = prefix } }
  BY DEF Unprefixed
<1>2. ASSUME <<prefix, key>> \in DOMAIN s.attributes
      PROVE  key \in { f[2] : f \in { g \in DOMAIN s.attributes : g[1] = prefix } }
  <2>1. <<prefix, key>>[1] = prefix /\ <<prefix, key>>[2] = key
    OBVIOUS
  <2>2. <<prefix, key>> \in { g \in DOMAIN s.attributes : g[1] = prefix }
    BY <1>2, <2>1
  <2> QED BY <2>1, <2>2
<1>3. ASSUME key \in { f[2] : f \in { g \in DOMAIN s.attributes : g[1] = prefix } }
      PROVE  <<prefix, key>> \in DOMAIN s.attributes
  <2>1. PICK f \in DOMAIN s.attributes : f[1] = prefix /\ f[2] = key
    BY <1>3
  <2>2. f = <<f[1], f[2]>>
    BY DEF WellKeyed
  <2> QED BY <2>1, <2>2
<1>4. key \in DOMAIN Unprefixed(s.attributes, prefix) =>
        Unprefixed(s.attributes, prefix)[key] = s.attributes[<<prefix, key>>]
  BY DEF Unprefixed
<1> QED BY <1>1, <1>2, <1>3, <1>4

\* The two ways a span, as it is rehydrated, can match.
LEMMA CarriesMeans ==
  ASSUME NEW p \in Policy, p.type \in AttributeTypes, NEW s, WellKeyed(s)
  PROVE  /\ ResourceMatches(p, Unprefixed(s.attributes, "resource")) <=> Carries(p, s, "resource")
         /\ SpanMatches(p, Unprefixed(s.attributes, "attributes")) <=> Carries(p, s, "attributes")
<1> DEFINE v(prefix) == s.attributes[<<prefix, p.key>>]
<1>1. ASSUME NEW prefix, <<prefix, p.key>> \in DOMAIN s.attributes
      PROVE  As("int", v(prefix)) \in Int
  <2>1. v(prefix).kind = "int" => v(prefix).val \in Int
    BY <1>1 DEF WellKeyed
  <2> QED BY <2>1 DEF As
<1>2. CASE p.type = "numeric_attribute"
  <2>1. p.min \in Int /\ p.max \in Int
    BY <1>2, PolicyAssumption
  <2>2. ASSUME NEW prefix, <<prefix, p.key>> \in DOMAIN s.attributes
        PROVE  Matches(p, v(prefix)) <=> As("int", v(prefix)) \in p.min .. p.max
    <3>1. As("int", v(prefix)) \in Int
      BY <1>1, <2>2
    <3> QED BY <1>2, <2>1, <3>1 DEF Matches, numericMatches
  <2> QED BY <1>2, <2>2, UnprefixedAt DEF ResourceMatches, SpanMatches, Carries
<1>3. CASE p.type = "boolean_attribute"
  BY <1>3, UnprefixedAt DEF ResourceMatches, SpanMatches, Carries, Matches, booleanMatches
<1>4. CASE p.type = "string_attribute"
  <2>1. p.regex \in BOOLEAN
    BY <1>4, PolicyAssumption
  <2>2. ASSUME NEW prefix
        PROVE  Matches(p, v(prefix)) <=>
                 As("str", v(prefix)) \in p.values /\ (As("str", v(prefix)) # "" \/ p.regex)
    BY <1>4, <2>1 DEF Matches, stringMatches
  <2>3. ASSUME NEW prefix \in {"resource", "attributes"}
        PROVE  Carries(p, s, prefix) <=>
                 /\ <<prefix, p.key>> \in DOMAIN s.attributes
                 /\ As("str", v(prefix)) \in p.values
                 /\ As("str", v(prefix)) # "" \/ (prefix = "resource" /\ p.regex)
    BY <1>4 DEF Carries
  <2>4. ResourceMatches(p, Unprefixed(s.attributes, "resource")) <=>
          <<"resource", p.key>> \in DOMAIN s.attributes /\ Matches(p, v("resource"))
    BY UnprefixedAt DEF ResourceMatches
  <2>5. SpanMatches(p, Unprefixed(s.attributes, "attributes")) <=>
          /\ <<"attributes", p.key>> \in DOMAIN s.attributes
          /\ Matches(p, v("attributes")) /\ As("str", v("attributes")) # ""
    <3> DEFINE attrs == Unprefixed(s.attributes, "attributes")
    <3>1. /\ p.key \in DOMAIN attrs <=> <<"attributes", p.key>> \in DOMAIN s.attributes
          /\ p.key \in DOMAIN attrs => attrs[p.key] = v("attributes")
      BY UnprefixedAt
    <3> HIDE DEF attrs
    <3>2. SpanMatches(p, attrs) <=> /\ p.key \in DOMAIN attrs /\ Matches(p, attrs[p.key])
                                    /\ As("str", attrs[p.key]) # ""
      BY <1>4 DEF SpanMatches
    <3> HIDE DEF v
    <3>3. SpanMatches(p, attrs) <=> /\ <<"attributes", p.key>> \in DOMAIN s.attributes
                                    /\ Matches(p, v("attributes")) /\ As("str", v("attributes")) # ""
      BY <3>1, <3>2
    <3> QED BY <3>3 DEF attrs
  <2> HIDE DEF v
  <2> QED BY <2>2, <2>3, <2>4, <2>5
<1> QED BY <1>2, <1>3, <1>4 DEF AttributeTypes

LEMMA FilterMeans ==
  ASSUME NEW p \in Policy, p.type \in AttributeTypes, NEW spans \in Seq(Stored), NEW id
  PROVE  (Outcome(p, rehydrateTraceData(spans), id) = "Sampled") = (Found(p, spans) # p.invert)
<1> DEFINE td == rehydrateTraceData(spans)
<1>1. ASSUME NEW i \in DOMAIN spans
      PROVE  /\ ResourceMatches(p, td[i].resource) <=> Carries(p, spans[i], "resource")
             /\ (\E s \in Range(td[i].spans) : SpanMatches(p, s.attrs))
                  <=> Carries(p, spans[i], "attributes")
  <2>1. spans[i] \in Stored
    OBVIOUS
  <2>2. WellKeyed(spans[i])
    BY <2>1, StoredKeyed
  <2>3. td[i].resource = Unprefixed(spans[i].attributes, "resource")
    BY DEF rehydrateTraceData
  <2>4. PICK r : td[i].spans = <<r>> /\ r.attrs = Unprefixed(spans[i].attributes, "attributes")
    BY DEF rehydrateTraceData
  <2>5. Range(td[i].spans) = {r}
    BY <2>4 DEF Range
  <2> QED BY <2>2, <2>3, <2>4, <2>5, CarriesMeans
<1>2. DOMAIN td = DOMAIN spans
  BY DEF rehydrateTraceData
<1>3. HasResourceOrSpan(p, td) <=> Found(p, spans)
  BY <1>1, <1>2 DEF HasResourceOrSpan, Found
<1>4. InvertHasResourceOrSpan(p, td) <=> ~ Found(p, spans)
  BY <1>1, <1>2 DEF InvertHasResourceOrSpan, Found
<1>5. p.invert \in BOOLEAN
  BY PolicyAssumption
<1>6. Outcome(p, td, id) = Decision(attributeFilter(p, td))
  BY DEF Outcome, AttributeTypes
<1>7. CASE p.invert
  BY <1>4, <1>6, <1>7 DEF attributeFilter, Decision, Found
<1>8. CASE ~ p.invert
  BY <1>3, <1>5, <1>6, <1>8 DEF attributeFilter, Decision, Found
<1> QED BY <1>5, <1>7, <1>8
-----------------------------------------------------------------------------
(* Types. *)

Configurations == { cfg \in Configs \cup InitialConfigs : NewEvaluator(cfg) }

Bucket == [tokens : Int, last : Nat]

EvaluatorFor(cfg) ==
  [cfg : {cfg}, born : Nat, bucket : [Limiters(cfg) -> Bucket], spent : [Limiters(cfg) -> Nat]]

Evaluator == UNION { EvaluatorFor(cfg) : cfg \in Configurations }

Copy == [id : TraceID, trace : TraceRecord]

Tallies ==
  [observed : Nat, keep : Nat, failed : Nat, failedKeep : Nat, candidate : Nat,
   candidateKeep : Nat, newlyKept : Nat, newlyDropped : Nat, errorsDropped : Nat,
   stale : BOOLEAN]

Evaluation ==
  [kind : {"sweep", "swapped", "update", "compare"}, ev : Nat, todo : Seq(Copy),
   i : Nat, j : Nat, hit : SUBSET Nat, paid : SUBSET (Nat \X Nat),
   inside : BOOLEAN, torn : BOOLEAN, tally : Tallies]

TypedState ==
  /\ now \in 0 .. MaxNow
  /\ evaluators \in Seq(Evaluator)
  /\ current \in Nat
  /\ traces \in [TraceID -> TraceRecord \cup {None}]
  /\ job \in [Worker -> Evaluation \cup {Idle}]

LEMMA IdleIsNoEvaluation == Idle \notin Evaluation
<1> SUFFICES ASSUME NEW r \in Evaluation PROVE r # Idle
  OBVIOUS
<1>1. r.kind # "idle"
  BY DEF Evaluation
<1> QED BY <1>1 DEF Idle

LEMMA BusyEvaluation ==
  ASSUME NEW w \in Worker, TypedState
  PROVE  Busy(w) <=> job[w] \in Evaluation
  BY IdleIsNoEvaluation DEF Busy, TypedState

LEMMA FreshType ==
  ASSUME NEW cfg \in Configurations, now \in Nat
  PROVE  Fresh(cfg) \in Evaluator /\ Fresh(cfg).cfg = cfg
<1>1. ASSUME NEW at \in Limiters(cfg) PROVE Burst(LeafAt(cfg, at)) \in Nat
  <2>1. /\ at[1] \in DOMAIN cfg /\ at[2] \in DOMAIN Leaves(cfg[at[1]])
        /\ LeafAt(cfg, at).type = "rate_limiting"
    BY DEF Limiters, Positions
  <2>2. cfg[at[1]] \in Range(cfg) /\ LeafAt(cfg, at) \in Range(Leaves(cfg[at[1]]))
    BY <2>1 DEF Range, LeafAt
  <2>3. LeafAt(cfg, at).rate \in Nat
    BY <2>1, <2>2, ConfigAssumption DEF Configurations
  <2> QED BY <2>3 DEF Burst
<1>2. [at \in Limiters(cfg) |-> [tokens |-> Burst(LeafAt(cfg, at)), last |-> now]]
        \in [Limiters(cfg) -> Bucket]
  BY <1>1 DEF Bucket
<1>3. Fresh(cfg) \in EvaluatorFor(cfg)
  BY <1>2 DEF Fresh, EvaluatorFor
<1> QED BY <1>3 DEF Evaluator, Fresh

LEMMA StartType ==
  ASSUME NEW kind \in {"sweep", "swapped", "update", "compare"}, NEW ev \in Nat,
         NEW todo \in Seq(Copy)
  PROVE  Start(kind, ev, todo) \in Evaluation
<1>1. NoTally \in Tallies
  BY DEF NoTally, Tallies
<1> QED BY <1>1 DEF Start, Evaluation

LEMMA OnwardType ==
  ASSUME NEW r \in Evaluation, NEW tally \in Tallies, r.todo # << >>
  PROVE  /\ Onward(r, tally) \in Evaluation
         /\ Onward(r, tally) = [Start(r.kind, r.ev, Tail(r.todo)) EXCEPT !.tally = tally]
<1>1. r.kind \in {"sweep", "swapped", "update", "compare"} /\ r.ev \in Nat /\ r.todo \in Seq(Copy)
  BY DEF Evaluation
<1>2. Tail(r.todo) \in Seq(Copy)
  BY <1>1
<1>3. Start(r.kind, r.ev, Tail(r.todo)) \in Evaluation
  BY <1>1, <1>2, StartType
<1> QED BY <1>3 DEF Onward, Evaluation

\* What an update leaves alone.
SameSubject(a, r) ==
  /\ a \in Evaluation
  /\ a.kind = r.kind /\ a.ev = r.ev /\ a.todo = r.todo /\ a.tally = r.tally

SamePlace(a, r) ==
  SameSubject(a, r) /\ a.i = r.i /\ a.j = r.j /\ a.hit = r.hit

LEMMA Updates ==
  ASSUME NEW r \in Evaluation, NEW i \in Nat, NEW j \in Nat, NEW hit \in SUBSET Nat
  PROVE  /\ SameSubject([r EXCEPT !.j = j], r)
         /\ SameSubject([r EXCEPT !.i = i, !.j = j], r)
         /\ SameSubject([r EXCEPT !.i = i, !.j = j, !.hit = hit], r)
<1>1. SameSubject([r EXCEPT !.j = j], r)
  BY DEF Evaluation, SameSubject
<1>2. SameSubject([r EXCEPT !.i = i, !.j = j], r)
  BY DEF Evaluation, SameSubject
<1>3. SameSubject([r EXCEPT !.i = i, !.j = j, !.hit = hit], r)
  BY DEF Evaluation, SameSubject
<1> QED BY <1>1, <1>2, <1>3

LEMMA UpdatesInPlace ==
  ASSUME NEW r \in Evaluation, NEW b \in BOOLEAN, NEW paid \in SUBSET (Nat \X Nat)
  PROVE  /\ SamePlace([r EXCEPT !.inside = b], r)
         /\ SamePlace([r EXCEPT !.torn = b], r)
         /\ SamePlace([r EXCEPT !.inside = TRUE, !.torn = b], r)
         /\ SamePlace([r EXCEPT !.paid = paid], r)
<1>1. SamePlace([r EXCEPT !.inside = b], r)
  BY DEF Evaluation, SameSubject, SamePlace
<1>2. SamePlace([r EXCEPT !.torn = b], r)
  BY DEF Evaluation, SameSubject, SamePlace
<1>3. SamePlace([r EXCEPT !.inside = TRUE, !.torn = b], r)
  BY DEF Evaluation, SameSubject, SamePlace
<1>4. SamePlace([r EXCEPT !.paid = paid], r)
  BY DEF Evaluation, SameSubject, SamePlace
<1> QED BY <1>1, <1>2, <1>3, <1>4

\* An answer moves on within the same evaluation.
LEMMA AnsweredSame ==
  ASSUME NEW w \in Worker, NEW r \in Evaluation, NEW sampled \in BOOLEAN
  PROVE  SameSubject(Answered(w, r, sampled), r)
<1>1. r.i \in Nat /\ r.j \in Nat /\ r.hit \in SUBSET Nat
  BY DEF Evaluation
<1>2. r.i + 1 \in Nat /\ r.j + 1 \in Nat /\ r.hit \cup {r.i} \in SUBSET Nat
  BY <1>1
<1>3. CASE ~ sampled
  BY <1>2, <1>3, Updates DEF Answered
<1>4. CASE sampled /\ r.j < Len(Leaves(Config(w)[r.i]))
  BY <1>2, <1>4, Updates DEF Answered
<1>5. CASE sampled /\ ~ (r.j < Len(Leaves(Config(w)[r.i])))
  BY <1>2, <1>5, Updates DEF Answered
<1> QED BY <1>3, <1>4, <1>5

\* What is copied of a finite set of traces can be put in a sequence.
LEMMA CopiesType ==
  ASSUME TypedState, NEW ids \in SUBSET Known, NEW todo \in SetToSeqs(Copies(ids))
  PROVE  todo \in Seq(Copy)
<1>1. Copies(ids) \subseteq Copy
  BY DEF Copies, Copy, Known, TypedState
<1>2. IsFiniteSet(Copies(ids))
  <2>1. IsFiniteSet(ids)
    BY EvalAssumption, FS_Subset DEF Known
  <2> DEFINE f == [c \in Copies(ids) |-> c.id]
  <2>2. f \in Injection(Copies(ids), ids)
    BY DEF Copies, Injection, IsInjective
  <2> QED BY <2>1, <2>2, FS_Injection DEF ExistsInjection
<1>3. Cardinality(Copies(ids)) \in Nat
  BY <1>2, FS_CardinalityType
<1>4. todo \in [1 .. Cardinality(Copies(ids)) -> Copies(ids)]
  BY DEF SetToSeqs
<1> QED BY <1>1, <1>3, <1>4
-----------------------------------------------------------------------------
(* Single updates of the variables. *)

\* The rate of a limiter, wherever it stands.
LEMMA LimiterRate ==
  ASSUME NEW cfg \in Configurations, NEW at \in Limiters(cfg)
  PROVE  LeafAt(cfg, at).rate \in Nat /\ Burst(LeafAt(cfg, at)) \in Nat
<1>1. /\ at[1] \in DOMAIN cfg /\ at[2] \in DOMAIN Leaves(cfg[at[1]])
      /\ LeafAt(cfg, at).type = "rate_limiting"
  BY DEF Limiters, Positions
<1>2. cfg[at[1]] \in Range(cfg) /\ LeafAt(cfg, at) \in Range(Leaves(cfg[at[1]]))
  BY <1>1 DEF Range, LeafAt
<1>3. LeafAt(cfg, at).rate \in Nat
  BY <1>1, <1>2, ConfigAssumption DEF Configurations
<1> QED BY <1>3 DEF Burst

LEMMA TallyUpdates ==
  ASSUME NEW o \in Tallies, NEW a \in Nat, NEW b \in Nat
  PROVE  /\ [o EXCEPT !.observed = a, !.keep = b] \in Tallies
         /\ [o EXCEPT !.failed = a, !.failedKeep = b] \in Tallies
<1>1. [o EXCEPT !.observed = a, !.keep = b] \in Tallies
  BY DEF Tallies
<1>2. [o EXCEPT !.failed = a, !.failedKeep = b] \in Tallies
  BY DEF Tallies
<1> QED BY <1>1, <1>2

Differing(o, a, b, c, d, e) ==
  [o EXCEPT !.candidate = a, !.candidateKeep = b, !.newlyKept = c,
            !.newlyDropped = d, !.errorsDropped = e]

LEMMA TallyDifferences ==
  ASSUME NEW o \in Tallies, NEW a \in Nat, NEW b \in Nat, NEW c \in Nat, NEW d \in Nat,
         NEW e \in Nat
  PROVE  Differing(o, a, b, c, d, e) \in Tallies
  BY DEF Tallies, Differing

LEMMA TallyFields ==
  ASSUME NEW o \in Tallies
  PROVE  /\ o.observed \in Nat /\ o.keep \in Nat /\ o.failed \in Nat /\ o.failedKeep \in Nat
         /\ o.candidate \in Nat /\ o.candidateKeep \in Nat /\ o.newlyKept \in Nat
         /\ o.newlyDropped \in Nat /\ o.errorsDropped \in Nat /\ o.stale \in BOOLEAN
  BY DEF Tallies

LEMMA TallyTypes ==
  ASSUME NEW c, NEW kept, NEW stale \in BOOLEAN, NEW tally \in Tallies
  PROVE  /\ Observed(c, tally) \in Tallies
         /\ Missed(c, tally) \in Tallies
         /\ Counted(c, kept, tally) \in Tallies
         /\ [Counted(c, kept, tally) EXCEPT !.stale = stale] \in Tallies
<1>1. \A x : (IF x THEN 1 ELSE 0) \in Nat
  OBVIOUS
<1>2. \A m, n \in Nat : m + n \in Nat
  OBVIOUS
<1>3. 1 \in Nat
  OBVIOUS
<1>4. Observed(c, tally) \in Tallies
  <2>1. /\ tally.observed + 1 \in Nat
        /\ tally.keep + (IF c.trace.keep THEN 1 ELSE 0) \in Nat
    BY <1>1, <1>2, <1>3, TallyFields
  <2> QED BY <2>1, TallyUpdates DEF Observed
<1> DEFINE o == Observed(c, tally)
<1>5. Missed(c, tally) \in Tallies
  <2>1. /\ o.failed + 1 \in Nat
        /\ o.failedKeep + (IF c.trace.keep THEN 1 ELSE 0) \in Nat
    BY <1>1, <1>2, <1>3, <1>4, TallyFields
  <2> QED BY <1>4, <2>1, TallyUpdates DEF Missed
<1>6. Counted(c, kept, tally) \in Tallies
  <2> DEFINE
    n1 == o.candidate + 1
    n2 == o.candidateKeep + (IF kept THEN 1 ELSE 0)
    n3 == o.newlyKept + (IF kept /\ ~c.trace.keep THEN 1 ELSE 0)
    n4 == o.newlyDropped + (IF ~kept /\ c.trace.keep THEN 1 ELSE 0)
    n5 == o.errorsDropped
            + (IF ~kept /\ c.trace.keep /\ HasError(c.trace.spans) THEN 1 ELSE 0)
  <2>1. n1 \in Nat /\ n2 \in Nat /\ n3 \in Nat /\ n4 \in Nat /\ n5 \in Nat
    BY <1>1, <1>2, <1>3, <1>4, TallyFields
  <2>2. Counted(c, kept, tally) = Differing(o, n1, n2, n3, n4, n5)
    BY DEF Counted, Differing
  <2> HIDE DEF o, n1, n2, n3, n4, n5
  <2>3. o \in Tallies
    BY <1>4 DEF o
  <2> QED BY <2>1, <2>2, <2>3, TallyDifferences
<1>7. ASSUME NEW r \in Tallies PROVE [r EXCEPT !.stale = stale] \in Tallies
  BY DEF Tallies
<1> QED BY <1>4, <1>5, <1>6, <1>7

LEMMA ReadyType ==
  ASSUME NEW r \in TraceRecord
  PROVE  /\ [r EXCEPT !.state = "READY"] \in TraceRecord
         /\ [r EXCEPT !.state = "READY"].spans = r.spans
  BY DEF TraceRecord

\* A verdict, with the state it leaves.
Verdicted(r, keep, state, by, judged) ==
  [r EXCEPT !.keep = keep, !.state = state, !.by = by, !.judged = judged]

LEMMA VerdictType ==
  ASSUME NEW r \in TraceRecord, NEW keep \in {TRUE, FALSE}, NEW by \in Nat, NEW judged \in Nat,
         NEW state \in {"RECEIVING", "READY", "DECIDED"}
  PROVE  Verdicted(r, keep, state, by, judged) \in TraceRecord
  BY DEF TraceRecord, Verdicted

LEMMA VerdictSpans ==
  ASSUME NEW r \in TraceRecord, NEW keep, NEW state, NEW by, NEW judged
  PROVE  Verdicted(r, keep, state, by, judged).spans = r.spans
  BY DEF TraceRecord, Verdicted

\* A trace that gets spans.
LEMMA ExtendedType ==
  ASSUME NEW r \in TraceRecord, NEW more \in Seq(Stored), NEW state \in {"RECEIVING", "READY", "DECIDED"}
  PROVE  LET x == [r EXCEPT !.spans = @ \o more, !.state = state]
         IN  x \in TraceRecord /\ x.spans = r.spans \o more
               /\ x.judged = r.judged /\ x.by = r.by /\ x.keep = r.keep
<1>1. r.spans \in Seq(Stored)
  BY DEF TraceRecord
<1>2. r.spans \o more \in Seq(Stored)
  BY <1>1
<1> QED BY <1>2 DEF TraceRecord

\* What a limiter's charge does to its evaluator.
Charged(e, at, b, n) == [[e EXCEPT !.bucket[at] = b] EXCEPT !.spent[at] = @ + n]

LEMMA ChargedType ==
  ASSUME NEW cfg \in Configurations, NEW e \in EvaluatorFor(cfg), NEW at \in Limiters(cfg),
         NEW b \in Bucket, NEW n \in Nat
  PROVE  LET x == Charged(e, at, b, n)
         IN  /\ x \in EvaluatorFor(cfg) /\ x.cfg = e.cfg /\ x.born = e.born
             /\ x.bucket[at] = b /\ x.spent[at] = e.spent[at] + n
             /\ \A a \in Limiters(cfg) \ {at} :
                   x.bucket[a] = e.bucket[a] /\ x.spent[a] = e.spent[a]
<1>1. /\ e.bucket \in [Limiters(cfg) -> Bucket] /\ e.spent \in [Limiters(cfg) -> Nat]
      /\ e.cfg = cfg /\ e.born \in Nat
  BY DEF EvaluatorFor
<1> DEFINE bucket == [e.bucket EXCEPT ![at] = b]
           spent == [e.spent EXCEPT ![at] = @ + n]
<1>2. bucket \in [Limiters(cfg) -> Bucket] /\ spent \in [Limiters(cfg) -> Nat]
  BY <1>1
<1>3. Charged(e, at, b, n) = [cfg |-> e.cfg, born |-> e.born, bucket |-> bucket, spent |-> spent]
  <2>1. Charged(e, at, b, n) = [[e EXCEPT !.bucket = bucket] EXCEPT !.spent = spent]
    BY DEF Charged, EvaluatorFor
  <2> HIDE DEF bucket, spent
  <2> QED BY <2>1 DEF EvaluatorFor
<1>4. [cfg |-> e.cfg, born |-> e.born, bucket |-> bucket, spent |-> spent] \in EvaluatorFor(cfg)
  BY <1>1, <1>2 DEF EvaluatorFor
<1> QED BY <1>1, <1>3, <1>4

-----------------------------------------------------------------------------
(* Where the goroutines stand.  Placed: in the evaluation of a policy list  *)
(* at one of its policies, or past the last.  Held: what they hold copies   *)
(* of is in the store, where spans are only added to it.                   *)

PlacedIn(cfg, r) ==
  /\ r.i \in Nat \ {0} /\ r.j \in Nat \ {0}
  /\ r.i <= Len(cfg) => r.j <= Len(Leaves(cfg[r.i]))

Extends(more, few) == Len(few) <= Len(more) /\ \A k \in 1 .. Len(few) : more[k] = few[k]

Copied(todo, store) ==
  \A k \in DOMAIN todo : /\ store[todo[k].id] # None
                          /\ Extends(store[todo[k].id].spans, todo[k].trace.spans)

Indexed ==
  /\ current \in DOMAIN evaluators
  /\ \A w \in Worker : Busy(w) => job[w].ev \in DOMAIN evaluators

Placed == \A w \in Worker : Busy(w) => PlacedIn(Config(w), job[w])
Held == \A w \in Worker : Busy(w) => Copied(job[w].todo, traces)

EvalInv == TypedState /\ Indexed /\ Placed /\ Held

LEMMA ExtendsSelf ==
  ASSUME NEW S, NEW s \in Seq(S)
  PROVE  Extends(s, s)
  BY DEF Extends

LEMMA ExtendsMore ==
  ASSUME NEW S, NEW a \in Seq(S), NEW b \in Seq(S), NEW c \in Seq(S), Extends(b, a), Extends(c, b)
  PROVE  Extends(c, a)
  BY DEF Extends

LEMMA ExtendsAppended ==
  ASSUME NEW S, NEW s \in Seq(S), NEW more \in Seq(S)
  PROVE  Extends(s \o more, s)
  BY DEF Extends

LEMMA ExtendsNothing ==
  ASSUME NEW S, NEW a \in Seq(S), NEW b \in Seq(S), Extends(b, a), Len(a) = Len(b)
  PROVE  a = b
  BY DEF Extends

\* A configuration that was accepted: sequences of policies with one leaf or more.
LEMMA ConfigurationShape ==
  ASSUME NEW cfg \in Configurations
  PROVE  /\ Len(cfg) \in Nat /\ DOMAIN cfg = 1 .. Len(cfg)
         /\ \A i \in DOMAIN cfg : /\ Len(Leaves(cfg[i])) \in Nat \ {0}
                                  /\ DOMAIN Leaves(cfg[i]) = 1 .. Len(Leaves(cfg[i]))
<1>1. cfg \in Seq(Range(cfg)) /\ \A p \in Range(cfg) : Leaves(p) \in Seq(Range(Leaves(p)))
  BY ConfigAssumption DEF Configurations
<1>2. \A i \in DOMAIN cfg : Len(Leaves(cfg[i])) > 0
  BY DEF Configurations, NewEvaluator
<1>3. ASSUME NEW i \in DOMAIN cfg
      PROVE  Len(Leaves(cfg[i])) \in Nat /\ DOMAIN Leaves(cfg[i]) = 1 .. Len(Leaves(cfg[i]))
  <2>1. cfg[i] \in Range(cfg)
    BY DEF Range
  <2>2. Leaves(cfg[i]) \in Seq(Range(Leaves(cfg[i])))
    BY <1>1, <2>1
  <2> QED BY <2>2
<1>4. Len(cfg) \in Nat /\ DOMAIN cfg = 1 .. Len(cfg)
  BY <1>1
<1> QED BY <1>2, <1>3, <1>4

LEMMA StartPlaced ==
  ASSUME NEW cfg \in Configurations, NEW kind, NEW ev, NEW todo
  PROVE  PlacedIn(cfg, Start(kind, ev, todo))
<1>1. Start(kind, ev, todo).i = 1 /\ Start(kind, ev, todo).j = 1
  BY DEF Start
<1> QED BY <1>1, ConfigurationShape DEF PlacedIn

LEMMA AnsweredPlaced ==
  ASSUME NEW w \in Worker, NEW r \in Evaluation, NEW sampled \in BOOLEAN,
         Config(w) \in Configurations, PlacedIn(Config(w), r), r.i <= Len(Config(w))
  PROVE  PlacedIn(Config(w), Answered(w, r, sampled))
<1> DEFINE cfg == Config(w)
           a == Answered(w, r, sampled)
<1>1. r.i \in DOMAIN cfg
  BY ConfigurationShape DEF PlacedIn
<1>2. CASE sampled /\ r.j < Len(Leaves(cfg[r.i]))
  <2>1. a.i = r.i /\ a.j = r.j + 1
    BY <1>2 DEF Answered, Evaluation
  <2>2. r.i \in Nat \ {0} /\ r.j \in Nat \ {0} /\ Len(Leaves(cfg[r.i])) \in Nat
    BY <1>1, ConfigurationShape DEF PlacedIn
  <2>3. a.j \in Nat \ {0} /\ a.j <= Len(Leaves(cfg[a.i]))
    <3>1. r.j + 1 <= Len(Leaves(cfg[r.i]))
      BY <1>2, <2>2
    <3> QED BY <2>1, <2>2, <3>1
  <2> HIDE DEF a, cfg
  <2>4. PlacedIn(cfg, a)
    BY <2>1, <2>2, <2>3 DEF PlacedIn
  <2> QED BY <2>4 DEF a, cfg
<1>3. CASE ~ (sampled /\ r.j < Len(Leaves(cfg[r.i])))
  <2>1. a.i = r.i + 1 /\ a.j = 1
    BY <1>3 DEF Answered, Evaluation
  <2> QED BY <1>1, <2>1, ConfigurationShape DEF PlacedIn
<1> QED BY <1>2, <1>3

\* An evaluator in use was made for an accepted configuration.
LEMMA ConfigOfJob ==
  ASSUME EvalInv, NEW w \in Worker, Busy(w)
  PROVE  /\ Config(w) \in Configurations
         /\ evaluators[job[w].ev] \in EvaluatorFor(Config(w))
<1>1. evaluators[job[w].ev] \in Evaluator
  BY DEF EvalInv, TypedState, Indexed
<1>2. PICK cfg \in Configurations : evaluators[job[w].ev] \in EvaluatorFor(cfg)
  BY <1>1 DEF Evaluator
<1>3. Config(w) = cfg
  BY <1>2 DEF EvaluatorFor, Config
<1> QED BY <1>2, <1>3

\* A policy that is asked stands where it is asked.
LEMMA AskedPosition ==
  ASSUME EvalInv, NEW w \in Worker, NEW types, Asking(w, types)
  PROVE  /\ Busy(w) /\ job[w] \in Evaluation /\ job[w].todo # << >>
         /\ At(w) \in Positions(Config(w)) /\ At(w) \in Nat \X Nat
         /\ Leaf(w).type \in types
         /\ job[w].i <= Len(Config(w)) /\ PlacedIn(Config(w), job[w])
<1>1. Busy(w) /\ job[w].todo # << >> /\ job[w].i <= Len(Config(w)) /\ Leaf(w).type \in types
  BY DEF Asking, Evaluating, Leaf
<1>2. job[w] \in Evaluation
  BY <1>1, BusyEvaluation DEF EvalInv
<1>3. Config(w) \in Configurations /\ PlacedIn(Config(w), job[w])
  BY <1>1, ConfigOfJob DEF EvalInv, Placed
<1>4. job[w].i \in DOMAIN Config(w) /\ job[w].j \in DOMAIN Leaves(Config(w)[job[w].i])
  BY <1>1, <1>3, ConfigurationShape DEF PlacedIn
<1>5. At(w) \in Positions(Config(w))
  BY <1>4 DEF At, Positions
<1>6. At(w) \in Nat \X Nat
  BY <1>2 DEF Evaluation, At
<1> QED BY <1>1, <1>2, <1>3, <1>5, <1>6

-----------------------------------------------------------------------------
(* What a step does to the evaluators. *)

LEMMA AvailableType ==
  ASSUME NEW cfg \in Configurations, NEW at \in Limiters(cfg), NEW b \in Bucket, now \in Nat
  PROVE  LET p == LeafAt(cfg, at)
         IN  /\ Available(p, b) \in Int
             /\ Available(p, b) <= Burst(p)
             /\ Available(p, b) <= b.tokens + p.rate * (now - b.last)
<1>1. LeafAt(cfg, at).rate \in Nat /\ Burst(LeafAt(cfg, at)) \in Nat
  BY LimiterRate
<1>2. b.tokens \in Int /\ b.last \in Nat
  BY DEF Bucket
<1>3. b.tokens + LeafAt(cfg, at).rate * (now - b.last) \in Int
  BY <1>1, <1>2
<1> QED BY <1>1, <1>3 DEF Available

\* A limiter that is asked either charges its evaluator or leaves it.
LEMMA LimitCharges ==
  ASSUME EvalInv, NEW w \in Worker, Limit(w)
  PROVE  LET ev == job[w].ev
             at == At(w)
             cfg == Config(w)
             n == Len(Subject(w).trace.spans)
             b == [tokens |-> Available(LeafAt(cfg, at), evaluators[ev].bucket[at]) - n, last |-> now]
         IN  /\ ev \in DOMAIN evaluators /\ cfg \in Configurations /\ at \in Limiters(cfg)
             /\ evaluators[ev] \in EvaluatorFor(cfg)
             /\ n \in Nat /\ b \in Bucket
             /\ evaluators' = evaluators
                  \/ /\ n <= Available(LeafAt(cfg, at), evaluators[ev].bucket[at])
                     /\ evaluators' = [evaluators EXCEPT ![ev] = Charged(evaluators[ev], at, b, n)]
<1> DEFINE ev == job[w].ev
           at == At(w)
           cfg == Config(w)
           n == Len(Subject(w).trace.spans)
           free == Available(LeafAt(cfg, at), evaluators[ev].bucket[at])
           b == [tokens |-> free - n, last |-> now]
<1>1. Asking(w, {"rate_limiting"})
  BY DEF Limit
<1>2. /\ Busy(w) /\ job[w] \in Evaluation /\ job[w].todo # << >>
      /\ at \in Positions(cfg) /\ Leaf(w).type = "rate_limiting"
  BY <1>1, AskedPosition
<1>3. ev \in DOMAIN evaluators /\ cfg \in Configurations /\ evaluators[ev] \in EvaluatorFor(cfg)
  BY <1>2, ConfigOfJob DEF EvalInv, Indexed
<1>4. at \in Limiters(cfg)
  BY <1>2 DEF Limiters, Leaf
<1>5. n \in Nat
  <2>1. job[w].todo \in Seq(Copy)
    BY <1>2 DEF Evaluation
  <2>2. Subject(w) \in Copy
    BY <1>2, <2>1 DEF Subject
  <2>3. Subject(w).trace.spans \in Seq(Stored)
    BY <2>2 DEF Copy, TraceRecord
  <2> QED BY <2>3
<1>6. now \in Nat
  BY EvalAssumption DEF EvalInv, TypedState
<1>7. evaluators[ev].bucket[at] \in Bucket
  BY <1>3, <1>4 DEF EvaluatorFor
<1>8. free \in Int
  BY <1>3, <1>4, <1>6, <1>7, AvailableType
<1>9. b \in Bucket
  BY <1>5, <1>6, <1>8 DEF Bucket
<1>10. CASE n <= free
  <2>1. evaluators' = [evaluators EXCEPT ![ev].bucket[at] = b, ![ev].spent[at] = @ + n]
    BY <1>10 DEF Limit, Leaf
  <2>2. evaluators' = [evaluators EXCEPT ![ev] = Charged(evaluators[ev], at, b, n)]
    <3> HIDE DEF b, n, at, ev
    <3> QED BY <1>3, <2>1 DEF Charged, EvalInv, TypedState
  <2> QED BY <1>3, <1>4, <1>5, <1>9, <1>10, <2>2
<1>11. CASE ~ (n <= free)
  <2>1. evaluators' = evaluators
    BY <1>11 DEF Limit, Leaf
  <2> QED BY <1>3, <1>4, <1>5, <1>9, <2>1
<1> QED BY <1>10, <1>11

LEMMA SequenceUpdate ==
  ASSUME NEW S, NEW s \in Seq(S), NEW i \in DOMAIN s, NEW x \in S
  PROVE  [s EXCEPT ![i] = x] \in Seq(S)
<1>1. [s EXCEPT ![i] = x] \in [1 .. Len(s) -> S]
  OBVIOUS
<1> QED BY <1>1

\* Evaluators are added, never exchanged: each keeps its configuration.
LEMMA EvaluatorsGrow ==
  ASSUME EvalInv, [Next]_vars
  PROVE  /\ evaluators' \in Seq(Evaluator)
         /\ DOMAIN evaluators \subseteq DOMAIN evaluators'
         /\ \A n \in DOMAIN evaluators : evaluators'[n].cfg = evaluators[n].cfg
<1> USE DEF EvalInv, TypedState
<1>1. ASSUME NEW cfg \in Configs, NewEvaluator(cfg), evaluators' = Append(evaluators, Fresh(cfg))
      PROVE  /\ evaluators' \in Seq(Evaluator)
             /\ DOMAIN evaluators \subseteq DOMAIN evaluators'
             /\ \A n \in DOMAIN evaluators : evaluators'[n].cfg = evaluators[n].cfg
  <2>1. Fresh(cfg) \in Evaluator
    BY <1>1, FreshType, EvalAssumption DEF Configurations
  <2> QED BY <1>1, <2>1
<1>2. ASSUME NEW w \in Worker, Limit(w)
      PROVE  /\ evaluators' \in Seq(Evaluator)
             /\ DOMAIN evaluators \subseteq DOMAIN evaluators'
             /\ \A n \in DOMAIN evaluators : evaluators'[n].cfg = evaluators[n].cfg
  <2> DEFINE ev == job[w].ev
             at == At(w)
             cfg == Config(w)
             n == Len(Subject(w).trace.spans)
             free == Available(LeafAt(cfg, at), evaluators[ev].bucket[at])
             b == [tokens |-> free - n, last |-> now]
  <2>1. /\ ev \in DOMAIN evaluators /\ cfg \in Configurations /\ at \in Limiters(cfg)
        /\ evaluators[ev] \in EvaluatorFor(cfg) /\ n \in Nat /\ b \in Bucket
        /\ \/ evaluators' = evaluators
           \/ evaluators' = [evaluators EXCEPT ![ev] = Charged(evaluators[ev], at, b, n)]
    BY <1>2, LimitCharges
  <2> HIDE DEF ev, at, cfg, n, b
  <2> DEFINE x == Charged(evaluators[ev], at, b, n)
  <2>2. x \in EvaluatorFor(cfg) /\ x.cfg = evaluators[ev].cfg
    BY <2>1, ChargedType
  <2> HIDE DEF x
  <2>3. x \in Evaluator
    BY <2>1, <2>2 DEF Evaluator
  <2>4. [evaluators EXCEPT ![ev] = x] \in Seq(Evaluator)
    BY <2>1, <2>3, SequenceUpdate
  <2> QED BY <2>1, <2>2, <2>4 DEF x
<1>3. ASSUME evaluators' = evaluators
      PROVE  /\ evaluators' \in Seq(Evaluator)
             /\ DOMAIN evaluators \subseteq DOMAIN evaluators'
             /\ \A n \in DOMAIN evaluators : evaluators'[n].cfg = evaluators[n].cfg
  BY <1>3
<1>4. \/ evaluators' = evaluators
      \/ \E cfg \in Configs : NewEvaluator(cfg) /\ evaluators' = Append(evaluators, Fresh(cfg))
      \/ \E w \in Worker : Limit(w)
  BY DEF Next, vars, Receive, Second, Sweep, SetPolicy, ForEachMutate, ComparePolicy, Evaluate,
         EnterMatcher, Filter, Fail, Decide, ReDecide, Diff, Finish
<1> QED BY <1>1, <1>2, <1>3, <1>4

-----------------------------------------------------------------------------
(* What a step does to the store. *)

LEMMA SubjectHeld ==
  ASSUME EvalInv, NEW w \in Worker, Evaluating(w)
  PROVE  /\ Subject(w) \in Copy /\ Subject(w).id \in TraceID
         /\ Len(Subject(w).trace.spans) \in Nat
         /\ traces[Subject(w).id] \in TraceRecord
         /\ Extends(traces[Subject(w).id].spans, Subject(w).trace.spans)
<1>1. Busy(w) /\ job[w] \in Evaluation /\ job[w].todo # << >>
  BY BusyEvaluation DEF Evaluating, EvalInv
<1>2. job[w].todo \in Seq(Copy)
  BY <1>1 DEF Evaluation
<1>3. 1 \in DOMAIN job[w].todo /\ Subject(w) = job[w].todo[1]
  BY <1>1, <1>2 DEF Subject
<1>4. Subject(w) \in Copy
  BY <1>2, <1>3
<1>5. /\ traces[Subject(w).id] # None
      /\ Extends(traces[Subject(w).id].spans, Subject(w).trace.spans)
  BY <1>1, <1>3 DEF EvalInv, Held, Copied
<1>6. Subject(w).id \in TraceID /\ Subject(w).trace.spans \in Seq(Stored)
  BY <1>4 DEF Copy, TraceRecord
<1>7. traces[Subject(w).id] \in TraceRecord
  BY <1>5, <1>6 DEF EvalInv, TypedState
<1> QED BY <1>4, <1>5, <1>6, <1>7

LEMMA JudgeType ==
  ASSUME EvalInv, NEW w \in Worker, Busy(w)
  PROVE  Judge(w) \in Nat /\ Judge(w) <= Len(evaluators)
<1>1. job[w].ev \in DOMAIN evaluators /\ evaluators \in Seq(Evaluator)
  BY DEF EvalInv, TypedState, Indexed
<1> QED BY <1>1 DEF Judge

\* What one trace may turn into: nothing is evicted and spans only come.
Grown(r, x) == x \in TraceRecord /\ Extends(x.spans, r.spans)

LEMMA BegunType ==
  ASSUME NEW g \in Group
  PROVE  Begun(g) \in TraceRecord /\ Begun(g).judged = 0 /\ Begun(g).by = 0
  BY AssembleType DEF Begun, TraceRecord

LEMMA ContinuedGrows ==
  ASSUME NEW r \in TraceRecord, NEW g \in Group
  PROVE  /\ Grown(r, Continued(r, g))
         /\ Continued(r, g).keep = r.keep /\ Continued(r, g).by = r.by
         /\ Continued(r, g).judged = r.judged
<1> DEFINE state == IF r.state = "DECIDED" THEN "RECEIVING" ELSE r.state
<1>1. state \in {"RECEIVING", "READY", "DECIDED"}
  BY DEF TraceRecord
<1>2. Continued(r, g) = [r EXCEPT !.spans = @ \o Assemble(g), !.state = state]
  BY DEF Continued, TraceRecord
<1>3. r.spans \in Seq(Stored) /\ Assemble(g) \in Seq(Stored)
  BY AssembleType DEF TraceRecord
<1> DEFINE more == Assemble(g)
<1> HIDE DEF state, more
<1>4. /\ Continued(r, g) \in TraceRecord /\ Continued(r, g).spans = r.spans \o Assemble(g)
      /\ Continued(r, g).keep = r.keep /\ Continued(r, g).by = r.by
      /\ Continued(r, g).judged = r.judged
  <2>1. Continued(r, g) = [r EXCEPT !.spans = @ \o more, !.state = state] /\ more \in Seq(Stored)
    BY <1>2, <1>3 DEF more
  <2> DEFINE x == [r EXCEPT !.spans = @ \o more, !.state = state]
  <2>2. /\ x \in TraceRecord /\ x.spans = r.spans \o more
        /\ x.judged = r.judged /\ x.by = r.by /\ x.keep = r.keep
    BY <1>1, <2>1, ExtendedType
  <2> HIDE DEF x
  <2>3. Continued(r, g) = x
    BY <2>1 DEF x
  <2> QED BY <2>2, <2>3 DEF more
<1> QED BY <1>3, <1>4, ExtendsAppended DEF Grown

LEMMA ReceiveGrows ==
  ASSUME EvalInv, NEW t \in TraceID, NEW g \in Group, Receive(t, g)
  PROVE  /\ traces' \in [TraceID -> TraceRecord \cup {None}]
         /\ \A u \in Known : Grown(traces[u], traces'[u])
<1> DEFINE x == IF traces[t] = None THEN Begun(g) ELSE Continued(traces[t], g)
<1>1. traces' = [traces EXCEPT ![t] = x]
  BY DEF Receive
<1>2. \A u \in Known : traces[u] \in TraceRecord
  BY DEF Known, EvalInv, TypedState
<1>3. \A u \in Known : traces[u].spans \in Seq(Stored)
  BY <1>2 DEF TraceRecord
<1>4. x \in TraceRecord /\ (t \in Known => Grown(traces[t], x))
  <2>1. CASE traces[t] = None
    BY <2>1, BegunType DEF Known
  <2>2. CASE traces[t] # None
    <3>1. traces[t] \in TraceRecord
      BY <1>2, <2>2 DEF Known
    <3>2. Grown(traces[t], x)
      BY <2>2, <3>1, ContinuedGrows
    <3> QED BY <3>2 DEF Grown
  <2> QED BY <2>1, <2>2
<1>5. \A u \in Known : Grown(traces[u], traces[u])
  BY <1>2, <1>3, ExtendsSelf DEF Grown
<1> HIDE DEF x
<1> QED BY <1>1, <1>4, <1>5 DEF EvalInv, TypedState, Known

\* A decision changes one trace and none of its spans.
LEMMA VerdictGrows ==
  ASSUME EvalInv, NEW t \in TraceID, traces[t] \in TraceRecord, NEW x \in TraceRecord,
         x.spans = traces[t].spans, traces' = [traces EXCEPT ![t] = x]
  PROVE  /\ traces' \in [TraceID -> TraceRecord \cup {None}]
         /\ \A u \in Known : Grown(traces[u], traces'[u])
<1>1. \A u \in Known : traces[u] \in TraceRecord
  BY DEF Known, EvalInv, TypedState
<1>2. \A u \in Known : traces[u].spans \in Seq(Stored)
  BY <1>1 DEF TraceRecord
<1>3. \A u \in Known : Grown(traces[u], traces[u]) /\ Extends(traces[u].spans, traces[u].spans)
  BY <1>1, <1>2, ExtendsSelf DEF Grown
<1> QED BY <1>3 DEF EvalInv, TypedState, Grown, Known

LEMMA StoreGrows ==
  ASSUME EvalInv, [Next]_vars
  PROVE  /\ traces' \in [TraceID -> TraceRecord \cup {None}]
         /\ \A u \in Known : Grown(traces[u], traces'[u])
<1> DEFINE Goal == /\ traces' \in [TraceID -> TraceRecord \cup {None}]
                   /\ \A u \in Known : Grown(traces[u], traces'[u])
<1>1. \A u \in Known : traces[u] \in TraceRecord /\ traces[u].spans \in Seq(Stored)
  BY DEF Known, EvalInv, TypedState, TraceRecord
<1>1a. \A u \in Known : Extends(traces[u].spans, traces[u].spans)
  BY <1>1, ExtendsSelf
<1>2. ASSUME traces' = traces PROVE Goal
  BY <1>1, <1>1a, <1>2 DEF EvalInv, TypedState, Grown
<1>3. ASSUME Sweep PROVE Goal
  <2>1. PICK due \in SUBSET Known :
          traces' = [t \in TraceID |->
                       IF t \in due THEN [traces[t] EXCEPT !.state = "READY"] ELSE traces[t]]
    BY <1>3 DEF Sweep
  <2>2. \A u \in Known : /\ [traces[u] EXCEPT !.state = "READY"] \in TraceRecord
                          /\ [traces[u] EXCEPT !.state = "READY"].spans = traces[u].spans
    BY <1>1, ReadyType
  <2> QED BY <1>1, <1>1a, <2>1, <2>2 DEF EvalInv, TypedState, Grown, Known
<1>4. ASSUME Decide PROVE Goal
  <2> DEFINE c == Subject(Ticker)
             r == traces[c.id]
             n == Len(c.trace.spans)
             keep == Kept(Ticker)
             by == Judge(Ticker)
             x == Verdicted(r, keep, "DECIDED", by, n)
  <2>1. Evaluating(Ticker) /\ Busy(Ticker) /\ Ticker \in Worker
    BY <1>4 DEF Decide, Concluding, Evaluating, Worker
  <2>2. c.id \in TraceID /\ n \in Nat /\ r \in TraceRecord
    BY <2>1, SubjectHeld
  <2>3. keep \in {TRUE, FALSE} /\ by \in Nat
    BY <2>1, JudgeType DEF Kept
  <2>4. traces' = [traces EXCEPT ![c.id] = x]
    BY <1>4 DEF Decide, Verdicted
  <2>5. x \in TraceRecord /\ x.spans = r.spans
    <3> HIDE DEF r, n, keep, by
    <3>1. r.state \in {"RECEIVING", "READY", "DECIDED"}
      BY <2>2 DEF TraceRecord
    <3>2. x \in TraceRecord
      BY <2>2, <2>3, <3>1, VerdictType
    <3>3. x.spans = r.spans
      BY <2>2, VerdictSpans
    <3> QED BY <3>2, <3>3
  <2> HIDE DEF x
  <2> QED BY <2>2, <2>4, <2>5, VerdictGrows
<1>5. ASSUME ReDecide PROVE Goal
  <2> DEFINE c == Subject(Updater)
             r == traces[c.id]
             n == Len(c.trace.spans)
             keep == Kept(Updater)
             by == Judge(Updater)
             x == Verdicted(r, keep, r.state, by, n)
  <2>1. Evaluating(Updater) /\ Busy(Updater) /\ Updater \in Worker
    BY <1>5 DEF ReDecide, Concluding, Evaluating, Worker
  <2>2. c.id \in TraceID /\ n \in Nat /\ r \in TraceRecord
    BY <2>1, SubjectHeld
  <2>3. keep \in {TRUE, FALSE} /\ by \in Nat
    BY <2>1, JudgeType DEF Kept
  <2>4. traces' = [traces EXCEPT ![c.id] = x]
    <3>1. x = [r EXCEPT !.keep = keep, !.by = by, !.judged = n]
      <4> HIDE DEF keep, by, n, r
      <4> QED BY <2>2 DEF Verdicted, TraceRecord
    <3>2. traces' = [traces EXCEPT ![c.id] = [r EXCEPT !.keep = keep, !.by = by, !.judged = n]]
      BY <1>5 DEF ReDecide
    <3> HIDE DEF x
    <3> QED BY <3>1, <3>2
  <2>5. x \in TraceRecord /\ x.spans = r.spans
    <3> HIDE DEF r, n, keep, by
    <3>1. r.state \in {"RECEIVING", "READY", "DECIDED"}
      BY <2>2 DEF TraceRecord
    <3>2. x \in TraceRecord
      BY <2>2, <2>3, <3>1, VerdictType
    <3>3. x.spans = r.spans
      BY <2>2, VerdictSpans
    <3> QED BY <3>2, <3>3
  <2> HIDE DEF x
  <2> QED BY <2>2, <2>4, <2>5, VerdictGrows
<1>6. \/ traces' = traces \/ Sweep \/ Decide \/ ReDecide
      \/ \E t \in TraceID, g \in Group : Receive(t, g)
  BY DEF Next, vars, Second, SetPolicy, ForEachMutate, ComparePolicy, Evaluate,
         EnterMatcher, Filter, Limit, Fail, Diff, Finish
<1> QED BY <1>2, <1>3, <1>4, <1>5, <1>6, ReceiveGrows

-----------------------------------------------------------------------------
(* What an evaluation knows so far: it has matched exactly the policies     *)
(* before the present one all of whose conjuncts sample, those of the       *)
(* present one up to here sample, and it paid for nothing else.             *)

Good(cfg, c, paid, at) ==
  \/ at \in paid
  \/ /\ LeafAt(cfg, at).type \notin Stateful
     /\ Outcome(LeafAt(cfg, at), rehydrateTraceData(c.trace.spans), c.id) = "Sampled"

Passing(cfg, c, paid, i) == \A j \in DOMAIN Leaves(cfg[i]) : Good(cfg, c, paid, <<i, j>>)

PaidBefore(cfg, paid, i, j) ==
  \A at \in paid : /\ LeafAt(cfg, at).type \in Stateful
                   /\ at[1] < i \/ (at[1] = i /\ at[2] < j)

Spared(cfg, c, paid) ==
  \A at \in paid : \A j \in 1 .. at[2] - 1 : Good(cfg, c, paid, <<at[1], j>>)

Sound(cfg, r) ==
  LET c == Head(r.todo)
  IN  /\ PaidBefore(cfg, r.paid, r.i, r.j)
      /\ r.hit = { i \in DOMAIN cfg : i < r.i /\ Passing(cfg, c, r.paid, i) }
      /\ \A j \in 1 .. r.j - 1 : Good(cfg, c, r.paid, <<r.i, j>>)
      /\ Spared(cfg, c, r.paid)

LEMMA GoodWithMore ==
  ASSUME NEW cfg, NEW c, NEW paid, NEW at, NEW other, Good(cfg, c, paid, other)
  PROVE  Good(cfg, c, paid \cup {at}, other)
  BY DEF Good

LEMMA GoodWithout ==
  ASSUME NEW cfg, NEW c, NEW paid, NEW at, NEW other, other # at
  PROVE  Good(cfg, c, paid \cup {at}, other) <=> Good(cfg, c, paid, other)
  BY DEF Good

\* A policy that answers by the rules keeps the evaluation sound.
LEMMA AnsweredSound ==
  ASSUME NEW w \in Worker, NEW r \in Evaluation, NEW q \in Evaluation, NEW sampled \in BOOLEAN,
         Config(w) \in Configurations, PlacedIn(Config(w), r), r.i <= Len(Config(w)),
         Sound(Config(w), r), SamePlace(q, r),
         \/ q.paid = r.paid
         \/ /\ q.paid = r.paid \cup {<<r.i, r.j>>} /\ sampled
            /\ LeafAt(Config(w), <<r.i, r.j>>).type \in Stateful,
         sampled <=> Good(Config(w), Head(r.todo), q.paid, <<r.i, r.j>>)
  PROVE  Sound(Config(w), Answered(w, q, sampled))
<1> DEFINE cfg == Config(w)
           c == Head(r.todo)
           at == <<r.i, r.j>>
           a == Answered(w, q, sampled)
           n == Len(Leaves(cfg[r.i]))
<1>1. r.i \in DOMAIN cfg /\ r.i \in Nat \ {0} /\ r.j \in Nat \ {0} /\ r.j <= n
  BY ConfigurationShape DEF PlacedIn
<1>2. n \in Nat /\ DOMAIN Leaves(cfg[r.i]) = 1 .. n /\ DOMAIN cfg = 1 .. Len(cfg) /\ Len(cfg) \in Nat
  BY <1>1, ConfigurationShape
<1>3. q.i = r.i /\ q.j = r.j /\ q.hit = r.hit /\ q.todo = r.todo
  BY DEF SamePlace, SameSubject
<1>4. a.todo = r.todo /\ a.paid = q.paid
  <2>1. CASE ~ sampled
    BY <1>3, <2>1 DEF Answered, Evaluation
  <2>2. CASE sampled /\ q.j < Len(Leaves(cfg[q.i]))
    BY <1>3, <2>2 DEF Answered, Evaluation
  <2>3. CASE sampled /\ ~ (q.j < Len(Leaves(cfg[q.i])))
    BY <1>3, <2>3 DEF Answered, Evaluation
  <2> QED BY <2>1, <2>2, <2>3
<1>5. /\ PaidBefore(cfg, r.paid, r.i, r.j)
      /\ r.hit = { i \in DOMAIN cfg : i < r.i /\ Passing(cfg, c, r.paid, i) }
      /\ \A j \in 1 .. r.j - 1 : Good(cfg, c, r.paid, <<r.i, j>>)
      /\ Spared(cfg, c, r.paid)
  BY DEF Sound
<1>6. ASSUME NEW x, Good(cfg, c, r.paid, x) PROVE Good(cfg, c, q.paid, x)
  <2> HIDE DEF at, cfg, c
  <2>1. q.paid = r.paid \/ q.paid = r.paid \cup {at}
    BY DEF at
  <2>2. Good(cfg, c, r.paid \cup {at}, x)
    BY <1>6, GoodWithMore
  <2> QED BY <1>6, <2>1, <2>2
<1>6a. ASSUME NEW x, x # at PROVE Good(cfg, c, q.paid, x) <=> Good(cfg, c, r.paid, x)
  <2> HIDE DEF at, cfg, c
  <2>1. q.paid = r.paid \/ q.paid = r.paid \cup {at}
    BY DEF at
  <2>2. Good(cfg, c, r.paid \cup {at}, x) <=> Good(cfg, c, r.paid, x)
    BY <1>6a, GoodWithout
  <2> QED BY <2>1, <2>2
<1>7. \A i \in DOMAIN cfg : i < r.i => (Passing(cfg, c, q.paid, i) <=> Passing(cfg, c, r.paid, i))
  <2> SUFFICES ASSUME NEW i \in DOMAIN cfg, i < r.i, NEW j
               PROVE  Good(cfg, c, q.paid, <<i, j>>) <=> Good(cfg, c, r.paid, <<i, j>>)
    BY DEF Passing
  <2>1. <<i, j>> # at
    BY <1>1
  <2> QED BY <1>6a, <2>1
<1>8. \A j \in 1 .. r.j - 1 : Good(cfg, c, q.paid, <<r.i, j>>)
  BY <1>5, <1>6
<1>9. Spared(cfg, c, q.paid)
  <2> SUFFICES ASSUME NEW x \in q.paid, NEW j \in 1 .. x[2] - 1
               PROVE  Good(cfg, c, q.paid, <<x[1], j>>)
    BY DEF Spared
  <2>1. CASE x \in r.paid
    BY <1>5, <1>6, <2>1 DEF Spared
  <2>2. CASE x = at
    BY <1>8, <2>2
  <2> QED BY <2>1, <2>2
<1>10. PaidBefore(cfg, q.paid, r.i, r.j + 1)
  <2> SUFFICES ASSUME NEW x \in q.paid
               PROVE  /\ LeafAt(cfg, x).type \in Stateful
                      /\ x[1] < r.i \/ (x[1] = r.i /\ x[2] < r.j + 1)
    BY DEF PaidBefore
  <2>1. CASE x \in r.paid
    <3>1. x[2] \in Nat
      BY <2>1 DEF Evaluation
    <3> QED BY <1>1, <1>5, <2>1, <3>1 DEF PaidBefore
  <2>2. CASE x = at /\ LeafAt(cfg, at).type \in Stateful
    BY <1>1, <2>2
  <2> QED BY <2>1, <2>2
<1>11. PaidBefore(cfg, q.paid, r.i + 1, 1)
  <2>1. \A x \in q.paid : x[1] \in Nat
    BY DEF Evaluation
  <2> QED BY <1>1, <1>10, <2>1 DEF PaidBefore
<1>12. ASSUME NEW hit, a.i = r.i + 1, a.j = 1, a.hit = hit,
              \A i \in DOMAIN cfg : i \in hit <=>
                (IF i = r.i THEN Passing(cfg, c, q.paid, i) ELSE i \in r.hit),
              hit \subseteq DOMAIN cfg
       PROVE  Sound(cfg, a)
  <2>1. a.hit = { i \in DOMAIN cfg : i < a.i /\ Passing(cfg, c, a.paid, i) }
    <3> SUFFICES ASSUME NEW i \in DOMAIN cfg
                 PROVE  i \in hit <=> i < r.i + 1 /\ Passing(cfg, c, q.paid, i)
      BY <1>4, <1>12
    <3>1. CASE i = r.i
      BY <1>1, <1>12, <3>1
    <3>2. CASE i # r.i
      <4>1. i \in hit <=> i < r.i /\ Passing(cfg, c, r.paid, i)
        BY <1>5, <1>12, <3>2
      <4>2. i < r.i <=> i < r.i + 1
        BY <1>1, <1>2, <3>2
      <4> QED BY <1>7, <4>1, <4>2
    <3> QED BY <3>1, <3>2
  <2>2. \A j \in 1 .. a.j - 1 : Good(cfg, c, a.paid, <<a.i, j>>)
    BY <1>12
  <2> QED BY <1>4, <1>9, <1>11, <1>12, <2>1, <2>2 DEF Sound
<1>13. CASE ~ sampled
  <2>1. a.i = r.i + 1 /\ a.j = 1 /\ a.hit = r.hit
    BY <1>3, <1>13 DEF Answered, Evaluation
  <2>2. ~ Passing(cfg, c, q.paid, r.i)
    BY <1>1, <1>2, <1>13 DEF Passing
  <2>3. r.i \notin r.hit /\ r.hit \subseteq DOMAIN cfg
    BY <1>1, <1>5
  <2> QED BY <1>12, <2>1, <2>2, <2>3
<1>14. CASE sampled /\ r.j < n
  <2>1. a.i = r.i /\ a.j = r.j + 1 /\ a.hit = r.hit
    BY <1>3, <1>14 DEF Answered, Evaluation
  <2>2. \A j \in 1 .. r.j : Good(cfg, c, q.paid, <<r.i, j>>)
    BY <1>1, <1>8, <1>14
  <2>3. a.hit = { i \in DOMAIN cfg : i < a.i /\ Passing(cfg, c, a.paid, i) }
    BY <1>4, <1>5, <1>7, <2>1
  <2>4. \A j \in 1 .. a.j - 1 : Good(cfg, c, a.paid, <<a.i, j>>)
    BY <1>1, <1>4, <2>1, <2>2
  <2> QED BY <1>4, <1>9, <1>10, <2>1, <2>3, <2>4 DEF Sound
<1>15. CASE sampled /\ ~ (r.j < n)
  <2>1. a.i = r.i + 1 /\ a.j = 1 /\ a.hit = r.hit \cup {r.i}
    BY <1>3, <1>15 DEF Answered, Evaluation
  <2>2. r.j = n
    BY <1>1, <1>2, <1>15
  <2>3. Passing(cfg, c, q.paid, r.i)
    BY <1>1, <1>2, <1>8, <1>15, <2>2 DEF Passing
  <2>4. r.hit \subseteq DOMAIN cfg
    BY <1>5
  <2> QED BY <1>1, <1>12, <2>1, <2>3, <2>4
<1> QED BY <1>13, <1>14, <1>15

LEMMA SoundInPlace ==
  ASSUME NEW cfg, NEW a, NEW r, SamePlace(a, r), a.paid = r.paid, Sound(cfg, r)
  PROVE  Sound(cfg, a)
  BY DEF Sound, SamePlace, SameSubject

LEMMA AnsweredTorn ==
  ASSUME NEW w \in Worker, NEW r \in Evaluation, NEW sampled \in BOOLEAN
  PROVE  Answered(w, r, sampled).torn = r.torn
<1>1. CASE ~ sampled
  BY <1>1 DEF Answered, Evaluation
<1>2. CASE sampled /\ r.j < Len(Leaves(Config(w)[r.i]))
  BY <1>2 DEF Answered, Evaluation
<1>3. CASE sampled /\ ~ (r.j < Len(Leaves(Config(w)[r.i])))
  BY <1>3 DEF Answered, Evaluation
<1> QED BY <1>1, <1>2, <1>3

\* A trace that nothing was asked about yet.
LEMMA StartSound ==
  ASSUME NEW cfg \in Configurations, NEW r, r.i = 1, r.j = 1, r.hit = {}, r.paid = {}
  PROVE  Sound(cfg, r)
<1>1. \A i \in DOMAIN cfg : ~ (i < 1)
  BY ConfigurationShape
<1> QED BY <1>1 DEF Sound, PaidBefore, Spared

-----------------------------------------------------------------------------
(* The two sides of a comparison. *)

Balanced(o) ==
  /\ o.observed = o.candidate + o.failed
  /\ o.candidateKeep - (o.keep - o.failedKeep) = o.newlyKept - o.newlyDropped
  /\ o.newlyDropped <= o.keep - o.failedKeep

LEMMA MissedBalanced ==
  ASSUME NEW c, NEW tally \in Tallies, Balanced(tally)
  PROVE  Balanced(Missed(c, tally))
<1> DEFINE k == IF c.trace.keep THEN 1 ELSE 0
           o == Missed(c, tally)
<1>1. k \in Nat
  OBVIOUS
<1>2. /\ o.observed = tally.observed + 1 /\ o.keep = tally.keep + k
      /\ o.failed = tally.failed + 1 /\ o.failedKeep = tally.failedKeep + k
      /\ o.candidate = tally.candidate /\ o.candidateKeep = tally.candidateKeep
      /\ o.newlyKept = tally.newlyKept /\ o.newlyDropped = tally.newlyDropped
  BY DEF Missed, Observed, Tallies
<1> HIDE DEF k, o
<1> QED BY <1>1, <1>2, TallyFields DEF Balanced, o

LEMMA CountedBalanced ==
  ASSUME NEW c, NEW kept \in BOOLEAN, NEW stale \in BOOLEAN, NEW tally \in Tallies,
         c.trace.keep \in BOOLEAN, Balanced(tally)
  PROVE  Balanced([Counted(c, kept, tally) EXCEPT !.stale = stale])
<1> DEFINE was == IF c.trace.keep THEN 1 ELSE 0
           is == IF kept THEN 1 ELSE 0
           more == IF kept /\ ~ c.trace.keep THEN 1 ELSE 0
           less == IF ~ kept /\ c.trace.keep THEN 1 ELSE 0
           o == [Counted(c, kept, tally) EXCEPT !.stale = stale]
<1>1. /\ was \in Nat /\ is \in Nat /\ more \in Nat /\ less \in Nat
      /\ is - was = more - less /\ less <= was
  OBVIOUS
<1>2. /\ o.observed = tally.observed + 1 /\ o.keep = tally.keep + was
      /\ o.failed = tally.failed /\ o.failedKeep = tally.failedKeep
      /\ o.candidate = tally.candidate + 1 /\ o.candidateKeep = tally.candidateKeep + is
      /\ o.newlyKept = tally.newlyKept + more /\ o.newlyDropped = tally.newlyDropped + less
  BY DEF Counted, Observed, Tallies
<1> HIDE DEF was, is, more, less, o
<1>3. Balanced(o)
  BY <1>1, <1>2, TallyFields DEF Balanced
<1> QED BY <1>3 DEF o

-----------------------------------------------------------------------------
(* What a step does to the goroutines: each stays, becomes idle, moves on   *)
(* within the evaluation of a trace, passes to the next trace, or starts.   *)

\* What was just copied.
Fetched(todo, store) ==
  \A k \in DOMAIN todo : store[todo[k].id] # None /\ todo[k].trace = store[todo[k].id]

\* Some other goroutine uses the same evaluator.
Accompanied(w) == \E v \in Worker \ {w} : Busy(v) /\ job[v].ev = job[w].ev

SameDifferences(a, o) ==
  a.newlyKept = o.newlyKept /\ a.newlyDropped = o.newlyDropped /\ a.stale = o.stale

\* What Diff counts.
Differences ==
  LET tally == Counted(Subject(Comparer), Kept(Comparer), job[Comparer].tally)
  IN  [tally EXCEPT !.stale = tally.stale \/ Stale(Subject(Comparer), Config(Comparer))]

\* What a goroutine knows stays right as long as no matcher was shared.
StaysSound(cfg, a, r) == ~ a.torn => ~ r.torn /\ (Sound(cfg, r) => Sound(cfg, a))

Moved(w) ==
  /\ Busy(w) /\ SameSubject(job'[w], job[w]) /\ PlacedIn(Config(w), job'[w])
  /\ StaysSound(Config(w), job'[w], job[w])
  /\ job'[w].torn => job[w].torn \/ Accompanied(w)

Passed(w) ==
  /\ Evaluating(w)
  /\ \E tally \in Tallies :
       /\ job'[w] = Onward(job[w], tally)
       /\ Balanced(job[w].tally) => Balanced(tally)
       /\ SameDifferences(tally, job[w].tally)
            \/ (w = Comparer /\ Concluding(w) /\ tally = Differences)

Started(w) ==
  /\ \A v \in Worker \ {w} : job'[v] = job[v]
  /\ \E kind \in {"sweep", "swapped", "update", "compare"}, ev \in DOMAIN evaluators',
        todo \in Seq(Copy) :
       /\ job'[w] = Start(kind, ev, todo)
       /\ Copied(todo, traces) /\ Fetched(todo, traces)
       /\ w = Comparer => ev \notin DOMAIN evaluators /\ current' = current
       /\ w # Comparer => ev = current' \/ (Busy(w) /\ ev = job[w].ev)

Shape ==
  /\ DOMAIN job' = Worker
  /\ job' = [w \in Worker |-> job'[w]]
  /\ \A w \in Worker : \/ job'[w] = job[w] \/ job'[w] = Idle
                         \/ Moved(w) \/ Passed(w) \/ Started(w)

\* One goroutine changes.
LEMMA OneChanges ==
  ASSUME TypedState, NEW w \in Worker, NEW r, job' = [job EXCEPT ![w] = r],
         (job'[w] = r /\ \A v \in Worker \ {w} : job'[v] = job[v]) =>
           r = Idle \/ Moved(w) \/ Passed(w) \/ Started(w)
  PROVE  Shape
  BY DEF TypedState, Shape

LEMMA CopiesHeld ==
  ASSUME EvalInv, NEW ids \in SUBSET Known, NEW todo \in SetToSeqs(Copies(ids))
  PROVE  todo \in Seq(Copy) /\ Copied(todo, traces) /\ Fetched(todo, traces)
<1>1. todo \in Seq(Copy)
  BY CopiesType DEF EvalInv
<1>2. todo \in [1 .. Cardinality(Copies(ids)) -> Copies(ids)]
  BY DEF SetToSeqs
<1>3. ASSUME NEW k \in DOMAIN todo
      PROVE  /\ traces[todo[k].id] # None /\ todo[k].trace = traces[todo[k].id]
             /\ Extends(traces[todo[k].id].spans, todo[k].trace.spans)
  <2>1. todo[k] \in Copies(ids)
    BY <1>2
  <2>2. PICK t \in ids : todo[k] = [id |-> t, trace |-> traces[t]]
    BY <2>1 DEF Copies
  <2>3. traces[t] # None /\ traces[t] \in TraceRecord
    BY DEF Known, EvalInv, TypedState
  <2>4. traces[t].spans \in Seq(Stored)
    BY <2>3 DEF TraceRecord
  <2>5. Extends(traces[t].spans, traces[t].spans)
    BY <2>4, ExtendsSelf
  <2> QED BY <2>2, <2>3, <2>5
<1> QED BY <1>1, <1>3 DEF Copied, Fetched

LEMMA EmptyHeld == << >> \in Seq(Copy) /\ Copied(<< >>, traces) /\ Fetched(<< >>, traces)
  BY DEF Copied, Fetched

LEMMA SweepShape == EvalInv /\ Sweep => Shape
<1> SUFFICES ASSUME EvalInv, Sweep PROVE Shape
  OBVIOUS
<1>0. PICK due \in SUBSET Known : \E todo \in SetToSeqs(Copies(due)) :
        job' = [job EXCEPT ![Ticker] = Start("sweep", current, todo)]
  BY DEF Sweep
<1>1. PICK todo \in SetToSeqs(Copies(due)) :
        job' = [job EXCEPT ![Ticker] = Start("sweep", current, todo)]
  BY <1>0
<1>2. todo \in Seq(Copy) /\ Copied(todo, traces) /\ Fetched(todo, traces)
  BY CopiesHeld
<1>3. current \in DOMAIN evaluators' /\ current' = current
  BY DEF Sweep, EvalInv, Indexed
<1>4. Ticker \in Worker /\ Ticker # Comparer
  BY EvalAssumption DEF Worker
<1> QED BY <1>1, <1>2, <1>3, <1>4, OneChanges DEF EvalInv, Started

LEMMA Appended ==
  ASSUME EvalInv, NEW cfg, evaluators' = Append(evaluators, Fresh(cfg))
  PROVE  /\ Len(evaluators) + 1 \in DOMAIN evaluators'
         /\ Len(evaluators) + 1 \notin DOMAIN evaluators
  BY DEF EvalInv, TypedState

LEMMA SetPolicyShape ==
  ASSUME EvalInv, NEW cfg, SetPolicy(cfg)
  PROVE  Shape
<1>1. Len(evaluators) + 1 \in DOMAIN evaluators' /\ current' = Len(evaluators) + 1
  BY Appended DEF SetPolicy
<1>2. job' = [job EXCEPT ![Updater] = Start("swapped", current', << >>)]
  BY DEF SetPolicy
<1>3. Updater \in Worker /\ Updater # Comparer
  BY EvalAssumption DEF Worker
<1> QED BY <1>1, <1>2, <1>3, EmptyHeld, OneChanges DEF EvalInv, Started

LEMMA ForEachMutateShape == EvalInv /\ ForEachMutate => Shape
<1> SUFFICES ASSUME EvalInv, ForEachMutate PROVE Shape
  OBVIOUS
<1>1. PICK todo \in SetToSeqs(Copies(Known)) :
        job' = [job EXCEPT ![Updater] = Start("update", job[Updater].ev, todo)]
  BY DEF ForEachMutate
<1>2. todo \in Seq(Copy) /\ Copied(todo, traces) /\ Fetched(todo, traces)
  BY CopiesHeld
<1>3. Updater \in Worker /\ Updater # Comparer /\ Busy(Updater)
  BY EvalAssumption DEF Worker, ForEachMutate, Busy
<1>4. job[Updater].ev \in DOMAIN evaluators'
  BY <1>3 DEF ForEachMutate, EvalInv, Indexed
<1> QED BY <1>1, <1>2, <1>3, <1>4, OneChanges DEF EvalInv, Started

LEMMA ComparePolicyShape ==
  ASSUME EvalInv, NEW cfg, ComparePolicy(cfg)
  PROVE  Shape
<1>1. PICK todo \in SetToSeqs(Copies({ t \in Known : traces[t].state = "DECIDED" })) :
        job' = [job EXCEPT ![Comparer] = Start("compare", Len(evaluators) + 1, todo)]
  BY DEF ComparePolicy
<1>2. todo \in Seq(Copy) /\ Copied(todo, traces) /\ Fetched(todo, traces)
  BY CopiesHeld
<1>3. /\ Len(evaluators) + 1 \in DOMAIN evaluators' /\ Len(evaluators) + 1 \notin DOMAIN evaluators
      /\ current' = current
  BY Appended DEF ComparePolicy
<1>4. Comparer \in Worker
  BY DEF Worker
<1> QED BY <1>1, <1>2, <1>3, <1>4, OneChanges DEF EvalInv, Started

LEMMA FinishShape ==
  ASSUME EvalInv, NEW w \in Worker, Finish(w)
  PROVE  Shape
  BY OneChanges DEF Finish, EvalInv

\* A trace is done with.
LEMMA PassedShape ==
  ASSUME EvalInv, NEW w \in Worker, Evaluating(w), NEW tally \in Tallies,
         Balanced(job[w].tally) => Balanced(tally),
         SameDifferences(tally, job[w].tally)
           \/ (w = Comparer /\ Concluding(w) /\ tally = Differences),
         job' = [job EXCEPT ![w] = Onward(job[w], tally)]
  PROVE  Shape
  BY OneChanges DEF EvalInv, Passed

LEMMA TallyOfJob ==
  ASSUME EvalInv, NEW w \in Worker, Evaluating(w)
  PROVE  job[w].tally \in Tallies
<1>1. job[w] \in Evaluation
  BY BusyEvaluation DEF Evaluating, EvalInv
<1> QED BY <1>1 DEF Evaluation

LEMMA MissedSame ==
  ASSUME NEW c, NEW tally \in Tallies
  PROVE  SameDifferences(Missed(c, tally), tally)
  BY DEF SameDifferences, Missed, Observed, Tallies

LEMMA PassShape ==
  ASSUME EvalInv, Decide \/ ReDecide \/ Diff \/ \E w \in Worker : Fail(w)
  PROVE  Shape
<1>1. CASE Decide
  <2>1. Evaluating(Ticker) /\ Ticker \in Worker
    BY <1>1 DEF Decide, Concluding, Worker
  <2>2. job[Ticker].tally \in Tallies
    BY <2>1, TallyOfJob
  <2> QED BY <1>1, <2>1, <2>2, PassedShape DEF Decide, SameDifferences
<1>2. CASE ReDecide
  <2>1. Evaluating(Updater) /\ Updater \in Worker
    BY <1>2 DEF ReDecide, Concluding, Worker
  <2>2. job[Updater].tally \in Tallies
    BY <2>1, TallyOfJob
  <2> QED BY <1>2, <2>1, <2>2, PassedShape DEF ReDecide, SameDifferences
<1>3. CASE Diff
  <2>1. Evaluating(Comparer) /\ Comparer \in Worker
    BY <1>3 DEF Diff, Concluding, Worker
  <2> DEFINE c == Subject(Comparer)
             tally == Counted(c, Kept(Comparer), job[Comparer].tally)
             stale == tally.stale \/ Stale(c, Config(Comparer))
  <2>2. tally \in Tallies /\ stale \in BOOLEAN
    BY <2>1, TallyOfJob, TallyTypes
  <2>3. [tally EXCEPT !.stale = stale] \in Tallies
    BY <2>1, <2>2, TallyOfJob, TallyTypes
  <2>4. job' = [job EXCEPT ![Comparer] = Onward(job[Comparer], [tally EXCEPT !.stale = stale])]
    BY <1>3 DEF Diff
  <2>5. Balanced(job[Comparer].tally) => Balanced([tally EXCEPT !.stale = stale])
    <3>1. c.trace.keep \in BOOLEAN
      BY <2>1, SubjectHeld DEF Copy, TraceRecord
    <3>2. Kept(Comparer) \in BOOLEAN /\ job[Comparer].tally \in Tallies
      BY <2>1, TallyOfJob DEF Kept
    <3> HIDE DEF c, stale
    <3> QED BY <2>2, <3>1, <3>2, CountedBalanced
  <2>6. Concluding(Comparer) /\ [tally EXCEPT !.stale = stale] = Differences
    BY <1>3 DEF Diff, Differences
  <2> HIDE DEF tally, stale
  <2> QED BY <2>1, <2>3, <2>4, <2>5, <2>6, PassedShape
<1>4. ASSUME NEW w \in Worker, Fail(w) PROVE Shape
  <2>1. Evaluating(w)
    BY <1>4 DEF Fail, Asking
  <2> DEFINE tally == IF w = Comparer THEN Missed(Subject(w), job[w].tally) ELSE job[w].tally
  <2>2. tally \in Tallies
    BY <2>1, TallyOfJob, TallyTypes
  <2>3. job' = [job EXCEPT ![w] = Onward(job[w], tally)]
    BY <1>4 DEF Fail
  <2>4. Balanced(job[w].tally) => Balanced(tally)
    BY <2>1, TallyOfJob, MissedBalanced
  <2>5. SameDifferences(tally, job[w].tally)
    <3>1. SameDifferences(Missed(Subject(w), job[w].tally), job[w].tally)
      BY <2>1, TallyOfJob, MissedSame
    <3> QED BY <3>1 DEF SameDifferences
  <2> HIDE DEF tally
  <2> QED BY <2>1, <2>2, <2>3, <2>4, <2>5, PassedShape
<1> QED BY <1>1, <1>2, <1>3, <1>4

LEMMA PlaceKept ==
  ASSUME NEW cfg, NEW a, NEW r, SamePlace(a, r), PlacedIn(cfg, r)
  PROVE  PlacedIn(cfg, a)
  BY DEF SamePlace, PlacedIn

LEMMA EnterMatcherShape ==
  ASSUME EvalInv, NEW w \in Worker, EnterMatcher(w)
  PROVE  Shape
<1> DEFINE torn == job[w].torn \/ \E u \in Worker : Sharing(w, u)
           x(v) == IF v = w THEN [job[w] EXCEPT !.inside = TRUE, !.torn = torn]
                   ELSE IF Sharing(w, v) THEN [job[v] EXCEPT !.torn = TRUE] ELSE job[v]
<1>1. job' = [v \in Worker |-> x(v)]
  <2>1. [job[w] EXCEPT !.inside = TRUE].torn = job[w].torn
    <3>1. Busy(w)
      BY DEF EnterMatcher, Asking, Evaluating
    <3>2. job[w] \in Evaluation
      BY <3>1, BusyEvaluation DEF EvalInv
    <3> QED BY <3>2 DEF Evaluation
  <2>2. job' = [v \in Worker |->
                  IF v = w THEN [job[w] EXCEPT !.inside = TRUE, !.torn = torn]
                  ELSE IF Sharing(w, v) THEN [job[v] EXCEPT !.torn = TRUE] ELSE job[v]]
    BY <2>1 DEF EnterMatcher
  <2> QED BY <2>2
<1>2. ASSUME NEW v \in Worker, Busy(v), SamePlace(x(v), job[v]), x(v).paid = job[v].paid,
             job[v].torn => x(v).torn, x(v).torn => job[v].torn \/ Accompanied(v)
      PROVE  Moved(v)
  <2>1. job'[v] = x(v)
    BY <1>1
  <2> HIDE DEF x
  <2>2. PlacedIn(Config(v), x(v))
    BY <1>2, PlaceKept DEF EvalInv, Placed
  <2>3. StaysSound(Config(v), x(v), job[v])
    BY <1>2, SoundInPlace DEF StaysSound
  <2> QED BY <1>2, <2>1, <2>2, <2>3 DEF Moved, SamePlace
<1>3. Moved(w)
  <2>1. Busy(w)
    BY DEF EnterMatcher, Asking, Evaluating
  <2>2. job[w] \in Evaluation
    BY <2>1, BusyEvaluation DEF EvalInv
  <2>3. torn \in BOOLEAN
    <3>1. job[w].torn \in BOOLEAN
      BY <2>2 DEF Evaluation
    <3> QED BY <3>1
  <2>4. SamePlace(x(w), job[w])
    <3> HIDE DEF torn
    <3> QED BY <2>2, <2>3, UpdatesInPlace
  <2>5. x(w).paid = job[w].paid /\ (job[w].torn => x(w).torn)
    BY <2>2 DEF Evaluation
  <2>6. x(w).torn => job[w].torn \/ Accompanied(w)
    <3>1. x(w).torn = torn
      <4> HIDE DEF torn
      <4> QED BY <2>2 DEF Evaluation
    <3> QED BY <3>1 DEF Accompanied, Sharing
  <2> HIDE DEF x
  <2> QED BY <1>2, <2>1, <2>4, <2>5, <2>6
<1>4. ASSUME NEW v \in Worker, v # w, Sharing(w, v) PROVE Moved(v)
  <2>1. Busy(v)
    BY <1>4 DEF Sharing
  <2>2. job[v] \in Evaluation
    BY <2>1, BusyEvaluation DEF EvalInv
  <2>3. x(v) = [job[v] EXCEPT !.torn = TRUE]
    BY <1>4
  <2>4. SamePlace(x(v), job[v])
    BY <2>2, <2>3, UpdatesInPlace
  <2>5. x(v).paid = job[v].paid /\ (job[v].torn => x(v).torn)
    BY <2>2, <2>3 DEF Evaluation
  <2>6. Accompanied(v)
    <3>1. Busy(w) /\ job[v].ev = job[w].ev
      BY <1>4 DEF Sharing, EnterMatcher, Asking, Evaluating
    <3> QED BY <1>4, <3>1 DEF Accompanied
  <2> HIDE DEF x
  <2> QED BY <1>2, <2>1, <2>4, <2>5, <2>6
<1>5. ASSUME NEW v \in Worker, v # w, ~ Sharing(w, v) PROVE job'[v] = job[v]
  BY <1>1, <1>5
<1>6. DOMAIN job' = Worker /\ job' = [v \in Worker |-> job'[v]]
  BY <1>1
<1> QED BY <1>3, <1>4, <1>5, <1>6 DEF Shape

\* Whatever a policy answers.
LEMMA AnsweredShape ==
  ASSUME EvalInv, NEW w \in Worker, NEW types, Asking(w, types), NEW r, SamePlace(r, job[w]),
         NEW sampled \in BOOLEAN, job' = [job EXCEPT ![w] = Answered(w, r, sampled)],
         r.torn = job[w].torn,
         ~ job[w].torn /\ Sound(Config(w), job[w]) =>
           Sound(Config(w), Answered(w, r, sampled))
  PROVE  Shape
<1>1. Busy(w) /\ job[w].i <= Len(Config(w)) /\ PlacedIn(Config(w), job[w])
  BY AskedPosition
<1>2. Config(w) \in Configurations
  BY <1>1, ConfigOfJob
<1>3. r \in Evaluation /\ r.i = job[w].i /\ PlacedIn(Config(w), r)
  BY <1>1, PlaceKept DEF SamePlace, SameSubject
<1>4. SameSubject(Answered(w, r, sampled), job[w])
  BY <1>3, AnsweredSame DEF SamePlace, SameSubject
<1>5. PlacedIn(Config(w), Answered(w, r, sampled))
  BY <1>1, <1>2, <1>3, AnsweredPlaced
<1>6. Answered(w, r, sampled).torn = r.torn
  BY <1>3, AnsweredTorn
<1>7. StaysSound(Config(w), Answered(w, r, sampled), job[w])
  BY <1>6 DEF StaysSound
<1> QED BY <1>1, <1>4, <1>5, <1>6, <1>7, OneChanges DEF EvalInv, Moved

LEMMA InPlace ==
  ASSUME NEW r \in Evaluation
  PROVE  SamePlace(r, r)
  BY DEF SamePlace, SameSubject

LEMMA FilterShape ==
  ASSUME EvalInv, NEW w \in Worker, Filter(w)
  PROVE  Shape
<1> DEFINE r == [job[w] EXCEPT !.inside = FALSE]
<1>1. Asking(w, Stateless)
  BY DEF Filter
<1>2. /\ job[w] \in Evaluation /\ Leaf(w).type \in Stateless
      /\ PlacedIn(Config(w), job[w]) /\ job[w].i <= Len(Config(w)) /\ Busy(w)
  BY <1>1, AskedPosition
<1>3. PICK sampled \in BOOLEAN :
        /\ ~ job[w].torn => sampled = (Verdict(w) = "Sampled")
        /\ job' = [job EXCEPT ![w] = Answered(w, r, sampled)]
  BY DEF Filter
<1>4. SamePlace(r, job[w]) /\ r \in Evaluation
  BY <1>2, UpdatesInPlace DEF SamePlace, SameSubject
<1>5. r.torn = job[w].torn /\ r.paid = job[w].paid
  BY <1>2 DEF Evaluation
<1>6. ASSUME ~ job[w].torn, Sound(Config(w), job[w])
      PROVE  Sound(Config(w), Answered(w, r, sampled))
  <2>1. Leaf(w).type \notin Stateful
    BY <1>2 DEF Stateless, Stateful, AttributeTypes
  <2>2. At(w) \notin job[w].paid
    BY <1>6, <2>1 DEF Sound, PaidBefore, Leaf
  <2>3. sampled <=> Good(Config(w), Head(job[w].todo), r.paid, <<job[w].i, job[w].j>>)
    BY <1>3, <1>5, <1>6, <2>1, <2>2 DEF Good, Verdict, Leaf, Subject, At
  <2>4. Config(w) \in Configurations
    BY <1>2, ConfigOfJob
  <2> HIDE DEF r
  <2> QED BY <1>2, <1>4, <1>5, <1>6, <2>3, <2>4, AnsweredSound
<1> HIDE DEF r
<1> QED BY <1>1, <1>3, <1>4, <1>5, <1>6, AnsweredShape

LEMMA LimitShape ==
  ASSUME EvalInv, NEW w \in Worker, Limit(w)
  PROVE  Shape
<1> DEFINE charged == Paying(job[w], At(w))
<1>1. Asking(w, {"rate_limiting"})
  BY DEF Limit
<1>2. /\ job[w] \in Evaluation /\ At(w) \in Nat \X Nat /\ Leaf(w).type = "rate_limiting"
      /\ PlacedIn(Config(w), job[w]) /\ job[w].i <= Len(Config(w)) /\ Busy(w)
  BY <1>1, AskedPosition
<1>3. \/ job' = [job EXCEPT ![w] = Answered(w, charged, TRUE)]
      \/ job' = [job EXCEPT ![w] = Answered(w, job[w], FALSE)]
  BY DEF Limit
<1>4. SamePlace(charged, job[w])
  <2>1. job[w].paid \cup {At(w)} \in SUBSET (Nat \X Nat)
    BY <1>2 DEF Evaluation
  <2> QED BY <1>2, <2>1, UpdatesInPlace DEF Paying
<1>5. SamePlace(job[w], job[w])
  BY <1>2, InPlace
<1>6. charged.torn = job[w].torn /\ charged.paid = job[w].paid \cup {At(w)}
  BY <1>2 DEF Evaluation, Paying
<1>7. Leaf(w).type \in Stateful /\ Config(w) \in Configurations
  BY <1>2, ConfigOfJob DEF Stateful
<1>8. ASSUME Sound(Config(w), job[w])
      PROVE  Sound(Config(w), Answered(w, charged, TRUE))
  <2>1. Good(Config(w), Head(job[w].todo), charged.paid, <<job[w].i, job[w].j>>)
    BY <1>6 DEF Good, At
  <2>2. charged \in Evaluation
    BY <1>4 DEF SamePlace, SameSubject
  <2> HIDE DEF charged
  <2>3. /\ charged.paid = job[w].paid \cup {<<job[w].i, job[w].j>>}
        /\ LeafAt(Config(w), <<job[w].i, job[w].j>>).type \in Stateful
    BY <1>6, <1>7 DEF At, Leaf
  <2> QED BY <1>2, <1>4, <1>7, <1>8, <2>1, <2>2, <2>3, AnsweredSound
<1>9. ASSUME Sound(Config(w), job[w])
      PROVE  Sound(Config(w), Answered(w, job[w], FALSE))
  <2>1. At(w) \notin job[w].paid
    BY <1>2, <1>9 DEF Sound, PaidBefore, At, PlacedIn
  <2>2. ~ Good(Config(w), Head(job[w].todo), job[w].paid, <<job[w].i, job[w].j>>)
    BY <1>7, <2>1 DEF Good, At, Leaf
  <2> QED BY <1>2, <1>5, <1>7, <1>9, <2>2, AnsweredSound
<1> HIDE DEF charged
<1> QED BY <1>1, <1>3, <1>4, <1>5, <1>6, <1>8, <1>9, AnsweredShape

LEMMA StepShape == EvalInv /\ [Next]_vars => Shape
<1> SUFFICES ASSUME EvalInv, [Next]_vars PROVE Shape
  OBVIOUS
<1>1. ASSUME job' = job PROVE Shape
  BY <1>1 DEF EvalInv, TypedState, Shape
<1>2. \/ job' = job \/ Sweep \/ ForEachMutate
      \/ \E cfg \in Configs : SetPolicy(cfg) \/ ComparePolicy(cfg)
      \/ \E w \in Worker : EnterMatcher(w) \/ Filter(w) \/ Limit(w) \/ Finish(w)
      \/ Decide \/ ReDecide \/ Diff \/ \E w \in Worker : Fail(w)
  BY DEF Next, vars, Receive, Second, Evaluate
<1> QED BY <1>1, <1>2, SweepShape, ForEachMutateShape, SetPolicyShape, ComparePolicyShape,
           EnterMatcherShape, FilterShape, LimitShape, FinishShape, PassShape

-----------------------------------------------------------------------------
LEMMA StartFields ==
  ASSUME NEW kind, NEW ev, NEW todo
  PROVE  /\ Start(kind, ev, todo).ev = ev /\ Start(kind, ev, todo).todo = todo
         /\ Start(kind, ev, todo).i = 1 /\ Start(kind, ev, todo).j = 1
         /\ Start(kind, ev, todo).tally = NoTally /\ Start(kind, ev, todo).inside = FALSE
         /\ Start(kind, ev, todo).kind = kind
  BY DEF Start

LEMMA OnwardFields ==
  ASSUME NEW r, NEW tally
  PROVE  /\ Onward(r, tally).ev = r.ev /\ Onward(r, tally).todo = Tail(r.todo)
         /\ Onward(r, tally).i = 1 /\ Onward(r, tally).j = 1
         /\ Onward(r, tally).tally = tally
  BY DEF Onward, Start

LEMMA CopiedGrows ==
  ASSUME EvalInv, [Next]_vars, NEW todo \in Seq(Copy), Copied(todo, traces)
  PROVE  Copied(todo, traces')
<1> SUFFICES ASSUME NEW k \in DOMAIN todo
             PROVE  /\ traces'[todo[k].id] # None
                    /\ Extends(traces'[todo[k].id].spans, todo[k].trace.spans)
  BY DEF Copied
<1> DEFINE t == todo[k].id
<1>1. todo[k] \in Copy
  OBVIOUS
<1>2. t \in TraceID /\ todo[k].trace.spans \in Seq(Stored)
  BY <1>1 DEF Copy, TraceRecord
<1>3. traces[t] # None /\ Extends(traces[t].spans, todo[k].trace.spans)
  BY DEF Copied
<1>4. t \in Known
  BY <1>2, <1>3 DEF Known
<1>5. Grown(traces[t], traces'[t])
  BY <1>4, StoreGrows
<1>6. traces[t] \in TraceRecord /\ traces'[t] \in TraceRecord
  BY <1>2, <1>3, <1>5 DEF EvalInv, TypedState, Grown
<1>7. traces[t].spans \in Seq(Stored) /\ traces'[t].spans \in Seq(Stored)
  BY <1>6 DEF TraceRecord
<1>8. Extends(traces'[t].spans, traces[t].spans)
  BY <1>5 DEF Grown
<1>9. traces'[t] # None
  BY <1>6, EvalAssumption
<1>10. Extends(traces'[t].spans, todo[k].trace.spans)
  BY <1>2, <1>3, <1>7, <1>8, ExtendsMore
<1> QED BY <1>9, <1>10

LEMMA TailHeld ==
  ASSUME NEW todo \in Seq(Copy), todo # << >>, NEW store, Copied(todo, store)
  PROVE  Tail(todo) \in Seq(Copy) /\ Copied(Tail(todo), store)
<1>1. Tail(todo) \in Seq(Copy) /\ Len(Tail(todo)) = Len(todo) - 1
  OBVIOUS
<1>2. ASSUME NEW k \in DOMAIN Tail(todo)
      PROVE  k + 1 \in DOMAIN todo /\ Tail(todo)[k] = todo[k + 1]
  BY <1>1
<1> QED BY <1>1, <1>2 DEF Copied

\* Whatever a goroutine turns into is well placed.
LEMMA ShapePlaced ==
  ASSUME EvalInv, [Next]_vars, NEW w \in Worker
  PROVE  /\ job'[w] \in Evaluation \cup {Idle}
         /\ Busy(w)' => /\ job'[w].ev \in DOMAIN evaluators'
                        /\ PlacedIn(Config(w)', job'[w])
                        /\ Copied(job'[w].todo, traces')
<1> DEFINE Goal == /\ job'[w] \in Evaluation \cup {Idle}
                   /\ Busy(w)' => /\ job'[w].ev \in DOMAIN evaluators'
                                  /\ PlacedIn(Config(w)', job'[w])
                                  /\ Copied(job'[w].todo, traces')
<1>1. ASSUME Busy(w)
      PROVE  /\ job[w] \in Evaluation /\ job[w].todo \in Seq(Copy)
             /\ job[w].ev \in DOMAIN evaluators /\ job[w].ev \in DOMAIN evaluators'
             /\ evaluators'[job[w].ev].cfg = Config(w)
             /\ Config(w) \in Configurations
             /\ PlacedIn(Config(w), job[w])
             /\ Copied(job[w].todo, traces)
  <2>1. job[w] \in Evaluation
    BY <1>1, BusyEvaluation DEF EvalInv
  <2>2. job[w].todo \in Seq(Copy)
    BY <2>1 DEF Evaluation
  <2>3. job[w].ev \in DOMAIN evaluators /\ PlacedIn(Config(w), job[w]) /\ Copied(job[w].todo, traces)
    BY <1>1 DEF EvalInv, Indexed, Placed, Held
  <2>4. job[w].ev \in DOMAIN evaluators' /\ evaluators'[job[w].ev].cfg = Config(w)
    BY <2>3, EvaluatorsGrow DEF Config
  <2>5. Config(w) \in Configurations
    BY <1>1, ConfigOfJob
  <2> QED BY <2>1, <2>2, <2>3, <2>4, <2>5
<1>2. CASE job'[w] = job[w]
  <2>1. CASE Busy(w)
    BY <1>1, <1>2, <2>1, CopiedGrows DEF Config, Busy
  <2>2. CASE ~ Busy(w)
    BY <1>2, <2>2 DEF Busy
  <2> QED BY <2>1, <2>2
<1>3. CASE job'[w] = Idle
  BY <1>3 DEF Busy
<1>4. CASE Moved(w)
  <2>1. Busy(w) /\ job'[w] \in Evaluation /\ job'[w].ev = job[w].ev
          /\ job'[w].todo = job[w].todo /\ PlacedIn(Config(w), job'[w])
    BY <1>4 DEF Moved, SameSubject
  <2>2. Copied(job[w].todo, traces')
    BY <1>1, <2>1, CopiedGrows
  <2> QED BY <1>1, <2>1, <2>2 DEF Config
<1>5. CASE Passed(w)
  <2>1. PICK tally \in Tallies : job'[w] = Onward(job[w], tally)
    BY <1>5 DEF Passed
  <2>2. Busy(w) /\ job[w].todo # << >>
    BY <1>5 DEF Passed, Evaluating
  <2>3. /\ job'[w] \in Evaluation /\ job'[w].ev = job[w].ev /\ job'[w].todo = Tail(job[w].todo)
        /\ job'[w].i = 1 /\ job'[w].j = 1
    BY <1>1, <2>1, <2>2, OnwardType, OnwardFields
  <2>4. PlacedIn(Config(w), job'[w])
    BY <1>1, <2>2, <2>3, ConfigurationShape DEF PlacedIn
  <2>5. Tail(job[w].todo) \in Seq(Copy) /\ Copied(Tail(job[w].todo), traces)
    BY <1>1, <2>2, TailHeld
  <2>6. Copied(Tail(job[w].todo), traces')
    BY <2>5, CopiedGrows
  <2> QED BY <1>1, <2>2, <2>3, <2>4, <2>6 DEF Config
<1>6. CASE Started(w)
  <2>1. PICK kind \in {"sweep", "swapped", "update", "compare"}, ev \in DOMAIN evaluators',
             todo \in Seq(Copy) :
          job'[w] = Start(kind, ev, todo) /\ Copied(todo, traces)
    BY <1>6 DEF Started
  <2>2. evaluators' \in Seq(Evaluator)
    BY EvaluatorsGrow
  <2>3. ev \in Nat
    BY <2>2
  <2>4. job'[w] \in Evaluation
    BY <2>1, <2>3, StartType
  <2>5. job'[w].ev = ev /\ job'[w].todo = todo
    BY <2>1 DEF Start
  <2>6. evaluators'[ev] \in Evaluator
    BY <2>2
  <2>7. evaluators'[ev].cfg \in Configurations
    BY <2>6 DEF Evaluator, EvaluatorFor
  <2>8. PlacedIn(evaluators'[ev].cfg, job'[w])
    BY <2>1, <2>7, StartPlaced
  <2>9. Copied(todo, traces')
    BY <2>1, CopiedGrows
  <2> QED BY <2>4, <2>5, <2>8, <2>9 DEF Config
<1> QED BY <1>2, <1>3, <1>4, <1>5, <1>6, StepShape DEF Shape

LEMMA EvalInit == Init => EvalInv
<1> SUFFICES ASSUME Init PROVE EvalInv
  OBVIOUS
<1>1. now = 0 /\ current = 1 /\ now \in Nat /\ now \in 0 .. MaxNow
  BY EvalAssumption DEF Init
<1>2. PICK cfg \in Configurations : evaluators = <<Fresh(cfg)>>
  BY DEF Init, Configurations
<1>3. Fresh(cfg) \in Evaluator
  BY <1>1, FreshType
<1>4. evaluators \in Seq(Evaluator) /\ current \in DOMAIN evaluators
  BY <1>1, <1>2, <1>3
<1>5. traces \in [TraceID -> TraceRecord \cup {None}] /\ job \in [Worker -> Evaluation \cup {Idle}]
  BY DEF Init
<1>6. \A w \in Worker : ~ Busy(w)
  BY DEF Init, Busy
<1> QED BY <1>1, <1>4, <1>5, <1>6 DEF EvalInv, TypedState, Indexed, Placed, Held

LEMMA ClockSteps ==
  ASSUME EvalInv, [Next]_vars
  PROVE  now' \in 0 .. MaxNow /\ now' >= now /\ (evaluators' = evaluators \/ now' = now)
<1>1. (now' = now) \/ Second
  BY DEF Next, vars, Receive, Sweep, SetPolicy, ForEachMutate,
         ComparePolicy, Evaluate, EnterMatcher, Filter, Limit, Fail, Decide, ReDecide, Diff, Finish
<1>2. now \in 0 .. MaxNow /\ MaxNow \in Nat
  BY EvalAssumption DEF EvalInv, TypedState
<1>3. CASE now' = now
  BY <1>2, <1>3
<1>4. CASE Second
  BY <1>2, <1>4 DEF Second
<1> QED BY <1>1, <1>3, <1>4

LEMMA CurrentSteps ==
  ASSUME EvalInv, [Next]_vars
  PROVE  current' \in DOMAIN evaluators' /\ current' \in Nat
           /\ (current' # current => current' \notin DOMAIN evaluators)
<1>1. ASSUME NEW cfg, SetPolicy(cfg)
      PROVE  current' \in DOMAIN evaluators' /\ current' \in Nat /\ current' \notin DOMAIN evaluators
  BY <1>1 DEF SetPolicy, EvalInv, TypedState
<1>2. current' = current \/ \E cfg \in Configs : SetPolicy(cfg)
  BY DEF Next, vars, Receive, Second, Sweep, ForEachMutate,
         ComparePolicy, Evaluate, EnterMatcher, Filter, Limit, Fail, Decide, ReDecide, Diff, Finish
<1>3. current \in DOMAIN evaluators' /\ current \in Nat
  BY EvaluatorsGrow DEF EvalInv, Indexed, TypedState
<1> QED BY <1>1, <1>2, <1>3

LEMMA EvalStep == EvalInv /\ [Next]_vars => EvalInv'
<1> SUFFICES ASSUME EvalInv, [Next]_vars PROVE EvalInv'
  OBVIOUS
<1>1. TypedState'
  <2>1. job' \in [Worker -> Evaluation \cup {Idle}]
    BY StepShape, ShapePlaced DEF Shape
  <2> QED BY <2>1, ClockSteps, CurrentSteps, EvaluatorsGrow, StoreGrows DEF TypedState
<1>2. Indexed'
  BY CurrentSteps, ShapePlaced DEF Indexed
<1>3. Placed' /\ Held'
  BY ShapePlaced DEF Placed, Held
<1> QED BY <1>1, <1>2, <1>3 DEF EvalInv

THEOREM EvalInvariant == Spec => []EvalInv
  BY EvalInit, EvalStep, PTL DEF Spec

\* An attribute filter samples exactly the traces that carry a matching value,
\* inverted exactly the others, for any policy and whatever spans came
\* (util.go:18-61).
THEOREM AttributesMatched == Spec => []AttributesMean
<1>1. EvalInv => AttributesMean
  <2> SUFFICES ASSUME EvalInv, NEW t \in Known, NEW p \in Policy, p.type \in AttributeTypes
               PROVE  (Outcome(p, Rehydrated(t), t) = "Sampled")
                        = (Found(p, traces[t].spans) # p.invert)
    BY DEF AttributesMean
  <2>1. traces[t] \in TraceRecord
    BY DEF Known, EvalInv, TypedState
  <2>2. traces[t].spans \in Seq(Stored)
    BY <2>1 DEF TraceRecord
  <2> QED BY <2>2, FilterMeans DEF Rehydrated
<1> QED BY <1>1, EvalInvariant, PTL

-----------------------------------------------------------------------------
(* A comparison has an evaluator to itself. *)

OwnEvaluator ==
  Busy(Comparer) =>
    /\ job[Comparer].ev # current
    /\ \A w \in Worker \ {Comparer} : Busy(w) => job[w].ev # job[Comparer].ev

LEMMA EvaluatorKept ==
  ASSUME EvalInv, NEW w \in Worker, Busy(w)',
         job'[w] = job[w] \/ Moved(w) \/ Passed(w)
  PROVE  Busy(w) /\ job'[w].ev = job[w].ev /\ job[w].ev \in DOMAIN evaluators
<1>1. Busy(w)
  BY DEF Busy, Moved, Passed, Evaluating
<1>2. job'[w].ev = job[w].ev
  BY OnwardFields DEF Moved, SameSubject, Passed
<1> QED BY <1>1, <1>2 DEF EvalInv, Indexed

LEMMA StartedEvaluator ==
  ASSUME NEW w \in Worker, Started(w)
  PROVE  /\ w = Comparer => job'[w].ev \notin DOMAIN evaluators /\ current' = current
         /\ w # Comparer => job'[w].ev = current' \/ (Busy(w) /\ job'[w].ev = job[w].ev)
<1>1. PICK kind \in {"sweep", "swapped", "update", "compare"}, ev \in DOMAIN evaluators',
           todo \in Seq(Copy) :
        /\ job'[w] = Start(kind, ev, todo)
        /\ w = Comparer => ev \notin DOMAIN evaluators /\ current' = current
        /\ w # Comparer => ev = current' \/ (Busy(w) /\ ev = job[w].ev)
  BY DEF Started
<1>2. job'[w].ev = ev
  BY <1>1 DEF Start
<1> QED BY <1>1, <1>2

LEMMA OwnEvaluatorStep == EvalInv /\ OwnEvaluator /\ [Next]_vars => OwnEvaluator'
<1> SUFFICES ASSUME EvalInv, OwnEvaluator, [Next]_vars, Busy(Comparer)'
             PROVE  /\ job'[Comparer].ev # current'
                    /\ \A w \in Worker \ {Comparer} : Busy(w)' => job'[w].ev # job'[Comparer].ev
  BY DEF OwnEvaluator
<1>1. Comparer \in Worker /\ current \in DOMAIN evaluators
  BY DEF Worker, EvalInv, Indexed
<1>2. current' = current \/ current' \notin DOMAIN evaluators
  BY CurrentSteps
<1>3. \A w \in Worker : Busy(w)' => job'[w] = job[w] \/ Moved(w) \/ Passed(w) \/ Started(w)
  BY StepShape DEF Shape, Busy
<1>4. CASE Started(Comparer)
  <2>1. job'[Comparer].ev \notin DOMAIN evaluators /\ current' = current
    BY <1>1, <1>4, StartedEvaluator
  <2>2. \A w \in Worker \ {Comparer} : job'[w] = job[w]
    BY <1>4 DEF Started
  <2>3. ASSUME NEW w \in Worker \ {Comparer}, Busy(w)' PROVE job'[w].ev \in DOMAIN evaluators
    BY <2>2, <2>3, EvaluatorKept
  <2> QED BY <1>1, <2>1, <2>3
<1>5. CASE job'[Comparer] = job[Comparer] \/ Moved(Comparer) \/ Passed(Comparer)
  <2>1. /\ Busy(Comparer) /\ job'[Comparer].ev = job[Comparer].ev
        /\ job[Comparer].ev \in DOMAIN evaluators
    BY <1>1, <1>5, EvaluatorKept
  <2>2. job[Comparer].ev # current
    BY <2>1 DEF OwnEvaluator
  <2>3. job'[Comparer].ev # current'
    BY <1>2, <2>1, <2>2
  <2>4. ASSUME NEW w \in Worker \ {Comparer}, Busy(w)' PROVE job'[w].ev # job'[Comparer].ev
    <3>1. CASE Started(w)
      <4>1. job'[w].ev = current' \/ (Busy(w) /\ job'[w].ev = job[w].ev)
        BY <3>1, StartedEvaluator
      <4> QED BY <2>1, <2>3, <4>1 DEF OwnEvaluator
    <3>2. CASE job'[w] = job[w] \/ Moved(w) \/ Passed(w)
      <4>1. Busy(w) /\ job'[w].ev = job[w].ev
        BY <2>4, <3>2, EvaluatorKept
      <4> QED BY <2>1, <4>1 DEF OwnEvaluator
    <3> QED BY <1>3, <2>4, <3>1, <3>2
  <2> QED BY <2>3, <2>4
<1> QED BY <1>1, <1>3, <1>4, <1>5

\* Two goroutines are in one expression matcher only if SetPolicy re-evaluates
\* while decideDue decides by the same new policy: a comparison's evaluator is
\* its own, for any policies, traces and interleaving (string_tag_filter.go:
\* 59-73, compare.go:40).
THEOREM ComparisonsShareNoMatcher == Spec => []MatchersShared
<1>1. Init => OwnEvaluator
  BY DEF Init, OwnEvaluator, Busy, Worker
<1>2. OwnEvaluator => MatchersShared
  BY DEF OwnEvaluator, MatchersShared, Sharing, Worker
<1> QED BY <1>1, <1>2, OwnEvaluatorStep, EvalInvariant, PTL DEF Spec

-----------------------------------------------------------------------------
(* What a limiter has in store and has let through. *)

Budgeted(e, at, time) ==
  LET p == LeafAt(e.cfg, at)
      b == e.bucket[at]
  IN  /\ b.last \in e.born .. time
      /\ b.tokens \in 0 .. Burst(p)
      /\ b.tokens + e.spent[at] <= Burst(p) + p.rate * (b.last - e.born)

BudgetInv ==
  \A n \in DOMAIN evaluators : \A at \in Limiters(evaluators[n].cfg) : Budgeted(evaluators[n], at, now)

LEMMA Inflow ==
  ASSUME NEW rate \in Nat, NEW a \in Int, NEW b \in Int, NEW c \in Int
  PROVE  rate * (b - a) + rate * (c - b) = rate * (c - a)
  OBVIOUS

LEMMA InflowGrows ==
  ASSUME NEW rate \in Nat, NEW a \in Int, NEW b \in Int, a <= b
  PROVE  rate * a <= rate * b
<1>1. rate * b = rate * a + rate * (b - a)
  OBVIOUS
<1>2. ASSUME NEW d \in Nat PROVE rate * d >= 0
  BY <1>2
<1>3. b - a \in Nat
  OBVIOUS
<1> QED BY <1>1, <1>2, <1>3

\* A limiter that lets n spans through.
LEMMA BudgetCharged ==
  ASSUME NEW cfg \in Configurations, NEW e \in EvaluatorFor(cfg), NEW at \in Limiters(cfg),
         NEW n \in Nat, now \in Nat, Budgeted(e, at, now),
         n <= Available(LeafAt(cfg, at), e.bucket[at])
  PROVE  LET b == [tokens |-> Available(LeafAt(cfg, at), e.bucket[at]) - n, last |-> now]
         IN  Budgeted(Charged(e, at, b, n), at, now)
<1> DEFINE p == LeafAt(cfg, at)
           free == Available(p, e.bucket[at])
           b == [tokens |-> free - n, last |-> now]
           x == Charged(e, at, b, n)
           old == e.bucket[at]
<1>1. p.rate \in Nat /\ Burst(p) \in Nat
  BY LimiterRate
<1>2. /\ old \in Bucket /\ e.cfg = cfg /\ e.born \in Nat /\ e.spent[at] \in Nat
  BY DEF EvaluatorFor
<1>3. old.tokens \in Int /\ old.last \in Nat
  BY <1>2 DEF Bucket
<1>4. /\ free \in Int /\ free <= Burst(p) /\ free <= old.tokens + p.rate * (now - old.last)
  BY <1>2, AvailableType
<1>5. b \in Bucket /\ b.tokens = free - n /\ b.last = now
  BY <1>4 DEF Bucket
<1>6. x.cfg = cfg /\ x.born = e.born /\ x.bucket[at] = b /\ x.spent[at] = e.spent[at] + n
  <2> HIDE DEF b
  <2> QED BY <1>2, <1>5, ChargedType
<1>7. /\ old.last \in e.born .. now /\ old.tokens \in 0 .. Burst(p)
      /\ old.tokens + e.spent[at] <= Burst(p) + p.rate * (old.last - e.born)
  BY <1>2 DEF Budgeted
<1>8. (free - n) + (e.spent[at] + n) <= Burst(p) + p.rate * (now - e.born)
  <2>1. p.rate * (old.last - e.born) + p.rate * (now - old.last) = p.rate * (now - e.born)
    BY <1>1, <1>2, <1>3, Inflow
  <2>2. /\ p.rate * (old.last - e.born) \in Int /\ p.rate * (now - old.last) \in Int
        /\ p.rate * (now - e.born) \in Int
    BY <1>1, <1>2, <1>3
  <2> HIDE DEF free, p, old
  <2> QED BY <1>1, <1>2, <1>3, <1>4, <1>7, <2>1, <2>2
<1>9. now \in e.born .. now
  BY <1>2, <1>3, <1>7
<1>10. free - n \in 0 .. Burst(p)
  BY <1>1, <1>4
<1> HIDE DEF p, free, b, x, old
<1>11. Budgeted(x, at, now)
  BY <1>5, <1>6, <1>8, <1>9, <1>10 DEF Budgeted, p
<1> QED BY <1>11 DEF x, b, free, p, old

LEMMA BudgetStep == EvalInv /\ BudgetInv /\ [Next]_vars => BudgetInv'
<1> SUFFICES ASSUME EvalInv, BudgetInv, [Next]_vars,
                    NEW n \in DOMAIN evaluators', NEW at \in Limiters(evaluators'[n].cfg)
             PROVE  Budgeted(evaluators'[n], at, now')
  BY DEF BudgetInv
<1>1. now \in Nat /\ now' \in Nat /\ now <= now' /\ (evaluators' = evaluators \/ now' = now)
  BY ClockSteps, EvalAssumption DEF EvalInv, TypedState
<1>2. ASSUME NEW m \in DOMAIN evaluators, evaluators'[n] = evaluators[m]
      PROVE  Budgeted(evaluators'[n], at, now')
  <2> DEFINE e == evaluators[m]
  <2>1. PICK cfg \in Configurations : e \in EvaluatorFor(cfg)
    <3>1. e \in Evaluator
      BY DEF EvalInv, TypedState
    <3> QED BY <3>1 DEF Evaluator
  <2>2. at \in Limiters(e.cfg) /\ e.cfg = cfg /\ e.born \in Nat /\ e.bucket[at] \in Bucket
    BY <1>2, <2>1 DEF EvaluatorFor
  <2>3. Budgeted(e, at, now)
    BY <2>2 DEF BudgetInv
  <2>4. e.bucket[at].last \in e.born .. now'
    BY <1>1, <2>2, <2>3 DEF Budgeted
  <2> QED BY <1>2, <2>3, <2>4 DEF Budgeted
<1>3. ASSUME NEW cfg \in Configs, NewEvaluator(cfg), evaluators' = Append(evaluators, Fresh(cfg)),
             now' = now
      PROVE  Budgeted(evaluators'[n], at, now')
  <2>1. n \in DOMAIN evaluators \/ evaluators'[n] = Fresh(cfg)
    BY <1>3 DEF EvalInv, TypedState
  <2>2. CASE n \in DOMAIN evaluators
    <3>1. evaluators'[n] = evaluators[n]
      BY <1>3, <2>2 DEF EvalInv, TypedState
    <3> QED BY <1>2, <2>2, <3>1
  <2>3. CASE evaluators'[n] = Fresh(cfg)
    <3>1. at \in Limiters(cfg) /\ cfg \in Configurations
      BY <1>3, <2>3 DEF Fresh, Configurations
    <3>2. LeafAt(cfg, at).rate \in Nat /\ Burst(LeafAt(cfg, at)) \in Nat
      BY <3>1, LimiterRate
    <3>3. LeafAt(cfg, at).rate * (now - now) = 0
      BY <1>1, <3>2
    <3>4. /\ Fresh(cfg).cfg = cfg /\ Fresh(cfg).born = now /\ Fresh(cfg).spent[at] = 0
          /\ Fresh(cfg).bucket[at].tokens = Burst(LeafAt(cfg, at))
          /\ Fresh(cfg).bucket[at].last = now
      BY <3>1 DEF Fresh
    <3> HIDE DEF Fresh
    <3> QED BY <1>1, <1>3, <2>3, <3>2, <3>3, <3>4 DEF Budgeted
  <2> QED BY <2>1, <2>2, <2>3
<1>4. ASSUME NEW w \in Worker, Limit(w), now' = now PROVE Budgeted(evaluators'[n], at, now')
  <2> DEFINE ev == job[w].ev
             spot == At(w)
             cfg == Config(w)
             k == Len(Subject(w).trace.spans)
             free == Available(LeafAt(cfg, spot), evaluators[ev].bucket[spot])
             b == [tokens |-> free - k, last |-> now]
             x == Charged(evaluators[ev], spot, b, k)
  <2>1. /\ ev \in DOMAIN evaluators /\ cfg \in Configurations /\ spot \in Limiters(cfg)
        /\ evaluators[ev] \in EvaluatorFor(cfg) /\ k \in Nat /\ b \in Bucket
        /\ \/ evaluators' = evaluators
           \/ k <= free /\ evaluators' = [evaluators EXCEPT ![ev] = x]
    BY <1>4, LimitCharges
  <2>2. CASE evaluators' = evaluators
    BY <1>2, <2>2
  <2>3. CASE k <= free /\ evaluators' = [evaluators EXCEPT ![ev] = x]
    <3>1. CASE n # ev
      <4>1. n \in DOMAIN evaluators /\ evaluators'[n] = evaluators[n]
        BY <2>3, <3>1
      <4> QED BY <1>2, <4>1
    <3>2. CASE n = ev
      <4>1. evaluators'[n] = x
        BY <2>1, <2>3, <3>2
      <4>2. /\ x.cfg = cfg /\ x.born = evaluators[ev].born
            /\ \A a \in Limiters(cfg) \ {spot} :
                  x.bucket[a] = evaluators[ev].bucket[a] /\ x.spent[a] = evaluators[ev].spent[a]
        <5> HIDE DEF b, k, spot, ev, cfg
        <5>1. evaluators[ev].cfg = cfg
          BY <2>1 DEF EvaluatorFor
        <5> QED BY <2>1, <5>1, ChargedType
      <4>3. \A a \in Limiters(cfg) : Budgeted(evaluators[ev], a, now)
        <5>1. evaluators[ev].cfg = cfg
          BY <2>1 DEF EvaluatorFor
        <5> QED BY <2>1, <5>1 DEF BudgetInv
      <4>4. CASE at = spot
        <5>1. Budgeted(x, spot, now)
          BY <1>1, <2>1, <2>3, <4>3, BudgetCharged
        <5> HIDE DEF x, spot
        <5> QED BY <1>4, <4>1, <4>4, <5>1 DEF Budgeted
      <4>5. CASE at # spot
        <5>1. at \in Limiters(cfg) \ {spot}
          BY <4>1, <4>2, <4>5
        <5>2. evaluators[ev].cfg = cfg
          BY <2>1 DEF EvaluatorFor
        <5> HIDE DEF x, spot, cfg, ev
        <5> QED BY <1>4, <4>1, <4>2, <4>3, <5>1, <5>2 DEF Budgeted
      <4> QED BY <4>4, <4>5
    <3> QED BY <3>1, <3>2
  <2> QED BY <2>1, <2>2, <2>3
<1>5. ASSUME evaluators' = evaluators PROVE Budgeted(evaluators'[n], at, now')
  BY <1>2, <1>5
<1>6. \/ evaluators' = evaluators
      \/ /\ now' = now
         /\ \/ \E cfg \in Configs : NewEvaluator(cfg) /\ evaluators' = Append(evaluators, Fresh(cfg))
            \/ \E w \in Worker : Limit(w)
  BY DEF Next, vars, Receive, Second, Sweep, SetPolicy, ForEachMutate, ComparePolicy, Evaluate,
         EnterMatcher, Limit, Filter, Fail, Decide, ReDecide, Diff, Finish
<1> QED BY <1>3, <1>4, <1>5, <1>6

LEMMA BudgetInit == Init => BudgetInv
<1> SUFFICES ASSUME Init, NEW n \in DOMAIN evaluators, NEW at \in Limiters(evaluators[n].cfg)
             PROVE  Budgeted(evaluators[n], at, now)
  BY DEF BudgetInv
<1>1. PICK cfg \in Configurations : evaluators = <<Fresh(cfg)>>
  BY DEF Init, Configurations
<1>2. evaluators[n] = Fresh(cfg) /\ now = 0
  BY <1>1 DEF Init
<1>3. at \in Limiters(cfg)
  BY <1>2 DEF Fresh
<1>4. LeafAt(cfg, at).rate \in Nat /\ Burst(LeafAt(cfg, at)) \in Nat
  BY <1>3, LimiterRate
<1>5. LeafAt(cfg, at).rate * (0 - 0) = 0
  BY <1>4
<1>6. /\ Fresh(cfg).cfg = cfg /\ Fresh(cfg).born = 0 /\ Fresh(cfg).spent[at] = 0
      /\ Fresh(cfg).bucket[at].tokens = Burst(LeafAt(cfg, at))
      /\ Fresh(cfg).bucket[at].last = 0
  BY <1>2, <1>3 DEF Fresh
<1> HIDE DEF Fresh
<1> QED BY <1>2, <1>4, <1>5, <1>6 DEF Budgeted

\* Whoever evaluates with it, and however often the same trace, a limiter lets
\* through no more spans than its burst and what flowed in since it was made,
\* at any rate and with any number of traces (rate_limiting.go:26-52).
THEOREM LimitersBounded == Spec => []BurstBound
<1>1. EvalInv /\ BudgetInv => BurstBound
  <2> SUFFICES ASSUME EvalInv, BudgetInv, NEW n \in DOMAIN evaluators,
                      NEW at \in Limiters(evaluators[n].cfg)
               PROVE  evaluators[n].spent[at]
                        <= Burst(LeafAt(evaluators[n].cfg, at))
                             + LeafAt(evaluators[n].cfg, at).rate * (now - evaluators[n].born)
    BY DEF BurstBound
  <2> DEFINE e == evaluators[n]
  <2>1. PICK cfg \in Configurations : e \in EvaluatorFor(cfg)
    <3>1. e \in Evaluator
      BY DEF EvalInv, TypedState
    <3> QED BY <3>1 DEF Evaluator
  <2>2. /\ e.cfg = cfg /\ at \in Limiters(cfg) /\ e.born \in Nat /\ e.spent[at] \in Nat
        /\ e.bucket[at] \in Bucket
    BY <2>1 DEF EvaluatorFor
  <2> DEFINE p == LeafAt(cfg, at)
             b == e.bucket[at]
  <2>3. p.rate \in Nat /\ Burst(p) \in Nat
    BY <2>2, LimiterRate
  <2>4. b.tokens \in Int /\ b.last \in Nat /\ now \in Nat
    BY <2>2, EvalAssumption DEF Bucket, EvalInv, TypedState
  <2>5. /\ b.last \in e.born .. now /\ b.tokens >= 0
        /\ b.tokens + e.spent[at] <= Burst(p) + p.rate * (b.last - e.born)
    BY <2>2, <2>3 DEF BudgetInv, Budgeted
  <2>6. p.rate * (b.last - e.born) <= p.rate * (now - e.born)
    BY <2>2, <2>3, <2>4, <2>5, InflowGrows
  <2>7. p.rate * (b.last - e.born) \in Int /\ p.rate * (now - e.born) \in Int
    BY <2>2, <2>3, <2>4
  <2> HIDE DEF e, p, b
  <2>8. e.spent[at] <= Burst(p) + p.rate * (now - e.born)
    BY <2>2, <2>3, <2>4, <2>5, <2>6, <2>7
  <2> QED BY <2>2, <2>8 DEF e, p
<1> QED BY <1>1, BudgetInit, BudgetStep, EvalInvariant, PTL DEF Spec

-----------------------------------------------------------------------------
BalancedInv == \A w \in Worker : Busy(w) => Balanced(job[w].tally)

LEMMA NothingBalanced == Balanced(NoTally)
  BY DEF Balanced, NoTally

LEMMA BalancedStep == EvalInv /\ BalancedInv /\ [Next]_vars => BalancedInv'
<1> SUFFICES ASSUME EvalInv, BalancedInv, [Next]_vars, NEW w \in Worker, Busy(w)'
             PROVE  Balanced(job'[w].tally)
  BY DEF BalancedInv, Balanced
<1>1. CASE job'[w] = job[w]
  BY <1>1 DEF BalancedInv, Busy
<1>2. CASE Moved(w)
  <2>1. Busy(w) /\ job'[w].tally = job[w].tally
    BY <1>2 DEF Moved, SameSubject
  <2> QED BY <2>1 DEF BalancedInv
<1>3. CASE Passed(w)
  <2>1. PICK tally \in Tallies : /\ job'[w] = Onward(job[w], tally)
                                 /\ Balanced(job[w].tally) => Balanced(tally)
    BY <1>3 DEF Passed
  <2>2. job'[w].tally = tally
    BY <2>1, OnwardFields
  <2>3. Balanced(job[w].tally)
    BY <1>3 DEF BalancedInv, Passed, Evaluating
  <2> QED BY <2>1, <2>2, <2>3
<1>4. CASE Started(w)
  <2>1. job'[w].tally = NoTally
    BY <1>4 DEF Started, Start
  <2> QED BY <2>1, NothingBalanced
<1> QED BY <1>1, <1>2, <1>3, <1>4, StepShape DEF Shape, Busy

\* Trace by trace the differences of a comparison add up, but for the traces
\* the candidate fails on, whatever is decided meanwhile (compare.go:34-65).
THEOREM ComparisonsAccount == Spec => []CompareAccounts
<1>1. Init => BalancedInv
  BY DEF Init, BalancedInv, Busy
<1>2. BalancedInv => CompareAccounts
  BY NothingBalanced DEF BalancedInv, Balanced, CompareAccounts, Tally, Worker
<1> QED BY <1>1, <1>2, BalancedStep, EvalInvariant, PTL DEF Spec

-----------------------------------------------------------------------------
SoundInv ==
  \A w \in Worker : Evaluating(w) /\ ~ job[w].torn => Sound(Config(w), job[w])

LEMMA SoundStep == EvalInv /\ SoundInv /\ [Next]_vars => SoundInv'
<1> SUFFICES ASSUME EvalInv, SoundInv, [Next]_vars,
                    NEW w \in Worker, Evaluating(w)', ~ job'[w].torn
             PROVE  Sound(Config(w)', job'[w])
  BY DEF SoundInv, Sound, PaidBefore, Spared, Passing, Good
<1>1. Busy(w)' /\ job'[w].todo # << >>
  BY DEF Evaluating
<1>2. ASSUME job'[w] = job[w] \/ Moved(w) \/ Passed(w)
      PROVE  Busy(w) /\ Config(w)' = Config(w)
  <2>1. Busy(w) /\ job'[w].ev = job[w].ev /\ job[w].ev \in DOMAIN evaluators
    BY <1>1, <1>2, EvaluatorKept
  <2> QED BY <2>1, EvaluatorsGrow DEF Config
<1>3. CASE job'[w] = job[w]
  <2>1. Evaluating(w)
    BY <1>1, <1>2, <1>3 DEF Evaluating
  <2> QED BY <1>2, <1>3, <2>1 DEF SoundInv
<1>4. CASE Moved(w)
  <2>1. Evaluating(w)
    BY <1>1, <1>4 DEF Moved, SameSubject, Evaluating
  <2> QED BY <1>2, <1>4, <2>1 DEF SoundInv, Moved, StaysSound
<1>5. Config(w)' \in Configurations
  <2>1. evaluators' \in Seq(Evaluator) /\ job'[w].ev \in DOMAIN evaluators'
    BY <1>1, EvaluatorsGrow, ShapePlaced
  <2>2. evaluators'[job'[w].ev] \in Evaluator
    BY <2>1
  <2> QED BY <2>2 DEF Evaluator, EvaluatorFor, Config
<1>6. CASE Passed(w)
  <2>1. job'[w].i = 1 /\ job'[w].j = 1 /\ job'[w].hit = {} /\ job'[w].paid = {}
    BY <1>6 DEF Passed, Onward, Start
  <2> QED BY <1>5, <2>1, StartSound
<1>7. CASE Started(w)
  <2>1. job'[w].i = 1 /\ job'[w].j = 1 /\ job'[w].hit = {} /\ job'[w].paid = {}
    BY <1>7 DEF Started, Start
  <2> QED BY <1>5, <2>1, StartSound
<1> QED BY <1>1, <1>3, <1>4, <1>6, <1>7, StepShape DEF Shape, Busy

LEMMA SoundThroughout == Spec => [](EvalInv /\ SoundInv)
<1>1. Init => SoundInv
  BY DEF Init, SoundInv, Evaluating, Busy
<1> QED BY <1>1, SoundStep, EvalInvariant, PTL DEF Spec

\* An evaluation that comes to its end matched exactly the policies all of
\* whose conjuncts sample the copy it was given, for any policy list and
\* however the goroutines' steps interleave (evaluator.go:96-107, and.go:45-55).
THEOREM ResultsSound == Spec => []ResultsFollowPolicies
<1>1. EvalInv /\ SoundInv => ResultsFollowPolicies
  <2> SUFFICES ASSUME EvalInv, SoundInv, NEW w \in Worker, Concluding(w), ~ job[w].torn
               PROVE  job[w].hit =
                        { i \in DOMAIN Config(w) : \A j \in DOMAIN Leaves(Config(w)[i]) :
                            \/ <<i, j>> \in job[w].paid
                            \/ LeafAt(Config(w), <<i, j>>).type \notin Stateful
                                 /\ Samples(w, <<i, j>>) }
    BY DEF ResultsFollowPolicies
  <2> DEFINE cfg == Config(w)
             c == Head(job[w].todo)
  <2>1. Sound(cfg, job[w]) /\ job[w].i > Len(cfg) /\ Busy(w)
    BY DEF SoundInv, Concluding, Evaluating
  <2>2. job[w].hit = { i \in DOMAIN cfg : i < job[w].i /\ Passing(cfg, c, job[w].paid, i) }
    BY <2>1 DEF Sound
  <2>3. \A i \in DOMAIN cfg : i < job[w].i
    <3>1. DOMAIN cfg = 1 .. Len(cfg) /\ Len(cfg) \in Nat /\ job[w].i \in Nat
      BY <2>1, ConfigOfJob, ConfigurationShape DEF EvalInv, Placed, PlacedIn
    <3> QED BY <2>1, <3>1
  <2>4. \A i : Passing(cfg, c, job[w].paid, i) <=>
                 \A j \in DOMAIN Leaves(cfg[i]) :
                   \/ <<i, j>> \in job[w].paid
                   \/ LeafAt(cfg, <<i, j>>).type \notin Stateful /\ Samples(w, <<i, j>>)
    BY DEF Passing, Good, Samples, Subject
  <2> HIDE DEF cfg, c
  <2>5. job[w].hit = { i \in DOMAIN cfg : \A j \in DOMAIN Leaves(cfg[i]) :
                         \/ <<i, j>> \in job[w].paid
                         \/ LeafAt(cfg, <<i, j>>).type \notin Stateful /\ Samples(w, <<i, j>>) }
    BY <2>2, <2>3, <2>4
  <2> QED BY <2>5 DEF cfg
<1> QED BY <1>1, SoundThroughout, PTL

\* A limiter in a conjunction is charged only for traces the policies before it
\* sample, in any conjunction (and.go:45-54).
THEOREM TokensSpared == Spec => []AndSparesTokens
<1>1. SoundInv => AndSparesTokens
  BY DEF SoundInv, AndSparesTokens, Sound, Spared, Good, Samples, Subject
<1> QED BY <1>1, SoundThroughout, PTL

-----------------------------------------------------------------------------
(* What the verdicts in the store mean: one by an evaluator without         *)
(* limiters, on as many spans as the trace has, is what its policy list     *)
(* says of those spans, whoever gave it.                                    *)

Keeps(cfg, spans, id) ==
  \E i \in DOMAIN cfg : \A j \in DOMAIN Leaves(cfg[i]) :
    Outcome(LeafAt(cfg, <<i, j>>), rehydrateTraceData(spans), id) = "Sampled"

WellJudged(r, id, made) ==
  /\ r.judged <= Len(r.spans) /\ r.by <= Len(made)
  /\ r.by # 0 /\ Limiters(made[r.by].cfg) = {} /\ r.judged = Len(r.spans) =>
       (r.keep <=> Keeps(made[r.by].cfg, r.spans, id))

JudgedInv ==
  /\ \A t \in Known : WellJudged(traces[t], t, evaluators)
  /\ \A w \in Worker : Busy(w) =>
       \A k \in DOMAIN job[w].todo :
         WellJudged(job[w].todo[k].trace, job[w].todo[k].id, evaluators)

LEMMA KeptMeans ==
  ASSUME EvalInv, SoundInv, NEW w \in Worker, Concluding(w), ~ job[w].torn,
         Limiters(Config(w)) = {}
  PROVE  Kept(w) <=> Keeps(Config(w), Subject(w).trace.spans, Subject(w).id)
<1> DEFINE cfg == Config(w)
           c == Head(job[w].todo)
<1>1. Sound(cfg, job[w]) /\ job[w].i > Len(cfg) /\ Busy(w)
  BY DEF SoundInv, Concluding, Evaluating
<1>2. /\ PaidBefore(cfg, job[w].paid, job[w].i, job[w].j)
      /\ job[w].hit = { i \in DOMAIN cfg : i < job[w].i /\ Passing(cfg, c, job[w].paid, i) }
  BY <1>1 DEF Sound
<1>3. \A i \in DOMAIN cfg : i < job[w].i
  <2>1. DOMAIN cfg = 1 .. Len(cfg) /\ Len(cfg) \in Nat /\ job[w].i \in Nat
    BY <1>1, ConfigOfJob, ConfigurationShape DEF EvalInv, Placed, PlacedIn
  <2> QED BY <1>1, <2>1
<1>4. ASSUME NEW i \in DOMAIN cfg, NEW j \in DOMAIN Leaves(cfg[i])
      PROVE  Good(cfg, c, job[w].paid, <<i, j>>)
               <=> Outcome(LeafAt(cfg, <<i, j>>), rehydrateTraceData(c.trace.spans), c.id) = "Sampled"
  <2>1. <<i, j>> \in Positions(cfg)
    BY DEF Positions
  <2>2. LeafAt(cfg, <<i, j>>).type \notin Stateful
    BY <2>1 DEF Limiters, Stateful
  <2>3. <<i, j>> \notin job[w].paid
    BY <1>2, <2>2 DEF PaidBefore
  <2> QED BY <2>2, <2>3 DEF Good
<1>5. \A i \in DOMAIN cfg : Passing(cfg, c, job[w].paid, i) <=>
        \A j \in DOMAIN Leaves(cfg[i]) :
          Outcome(LeafAt(cfg, <<i, j>>), rehydrateTraceData(c.trace.spans), c.id) = "Sampled"
  BY <1>4 DEF Passing
<1> HIDE DEF cfg, c
<1>6. job[w].hit # {} <=> Keeps(cfg, c.trace.spans, c.id)
  BY <1>2, <1>3, <1>5 DEF Keeps
<1> QED BY <1>6 DEF Kept, Subject, cfg, c

SameVerdict(x, r) == x.keep = r.keep /\ x.by = r.by /\ x.judged = r.judged

Rejudged(x, id, w) ==
  /\ Concluding(w) /\ id = Subject(w).id
  /\ x.keep = Kept(w) /\ x.by = Judge(w) /\ x.judged = Len(Subject(w).trace.spans)

LEMMA VerdictFields ==
  ASSUME NEW r \in TraceRecord, NEW keep, NEW state, NEW by, NEW judged
  PROVE  /\ Verdicted(r, keep, state, by, judged).keep = keep
         /\ Verdicted(r, keep, state, by, judged).by = by
         /\ Verdicted(r, keep, state, by, judged).judged = judged
  BY DEF TraceRecord, Verdicted

LEMMA ReadyVerdict ==
  ASSUME NEW r \in TraceRecord
  PROVE  SameVerdict([r EXCEPT !.state = "READY"], r)
  BY DEF TraceRecord, SameVerdict

\* Where a trace's verdict can come from in a step.
LEMMA StoreVerdicts ==
  ASSUME EvalInv, [Next]_vars, NEW u \in TraceID, traces'[u] # None
  PROVE  \/ traces'[u].by = 0 /\ traces'[u].judged = 0
         \/ u \in Known /\ SameVerdict(traces'[u], traces[u])
         \/ u \in Known /\ \E w \in Worker : Rejudged(traces'[u], u, w)
<1> DEFINE Goal == \/ traces'[u].by = 0 /\ traces'[u].judged = 0
                   \/ u \in Known /\ SameVerdict(traces'[u], traces[u])
                   \/ u \in Known /\ \E w \in Worker : Rejudged(traces'[u], u, w)
<1>1. u \in Known => traces[u] \in TraceRecord
  BY DEF Known, EvalInv, TypedState
<1>2. ASSUME traces'[u] = traces[u] PROVE Goal
  BY <1>2 DEF Known, SameVerdict
<1>3. ASSUME Sweep PROVE Goal
  <2>1. traces'[u] = traces[u] \/ (u \in Known /\ traces'[u] = [traces[u] EXCEPT !.state = "READY"])
    BY <1>3 DEF Sweep
  <2> QED BY <1>1, <1>2, <2>1, ReadyVerdict
<1>4. ASSUME NEW t \in TraceID, NEW g \in Group, Receive(t, g) PROVE Goal
  <2>1. CASE u # t
    <3>1. traces'[u] = traces[u]
      BY <1>4, <2>1 DEF Receive, EvalInv, TypedState
    <3> QED BY <1>2, <3>1
  <2>2. CASE u = t /\ traces[t] = None
    <3>1. traces'[u] = Begun(g)
      BY <1>4, <2>2 DEF Receive, EvalInv, TypedState
    <3> QED BY <3>1, BegunType
  <2>3. CASE u = t /\ traces[t] # None
    <3>1. traces'[u] = Continued(traces[u], g) /\ u \in Known
      BY <1>4, <2>3 DEF Receive, EvalInv, TypedState, Known
    <3>2. SameVerdict(Continued(traces[u], g), traces[u])
      BY <1>1, <3>1, ContinuedGrows DEF SameVerdict
    <3> QED BY <3>1, <3>2
  <2> QED BY <2>1, <2>2, <2>3
<1>5. ASSUME NEW w \in Worker, NEW state, Concluding(w),
             traces' = [traces EXCEPT ![Subject(w).id] =
                          Verdicted(traces[Subject(w).id], Kept(w), state, Judge(w),
                                    Len(Subject(w).trace.spans))]
      PROVE  Goal
  <2>1. /\ Subject(w).id \in TraceID /\ traces[Subject(w).id] \in TraceRecord
    BY <1>5, SubjectHeld DEF Concluding
  <2>2. CASE u # Subject(w).id
    <3>1. traces'[u] = traces[u]
      BY <1>5, <2>2 DEF EvalInv, TypedState
    <3> QED BY <1>2, <3>1
  <2>3. CASE u = Subject(w).id
    <3>1. traces'[u] = Verdicted(traces[u], Kept(w), state, Judge(w), Len(Subject(w).trace.spans))
      BY <1>5, <2>3 DEF EvalInv, TypedState
    <3>2. u \in Known
      BY <2>1, <2>3, EvalAssumption DEF Known
    <3>3. /\ traces'[u].keep = Kept(w) /\ traces'[u].by = Judge(w)
          /\ traces'[u].judged = Len(Subject(w).trace.spans)
      BY <2>1, <2>3, <3>1, VerdictFields
    <3> QED BY <1>5, <2>3, <3>2, <3>3 DEF Rejudged
  <2> QED BY <2>2, <2>3
<1>6. ASSUME Decide PROVE Goal
  <2>1. traces' = [traces EXCEPT ![Subject(Ticker).id] =
                     Verdicted(traces[Subject(Ticker).id], Kept(Ticker), "DECIDED", Judge(Ticker),
                               Len(Subject(Ticker).trace.spans))]
    BY <1>6 DEF Decide, Verdicted
  <2>2. Ticker \in Worker /\ Concluding(Ticker)
    BY <1>6 DEF Decide, Worker
  <2> HIDE DEF Goal
  <2> QED BY <1>5, <2>1, <2>2
<1>7. ASSUME ReDecide PROVE Goal
  <2> DEFINE r == traces[Subject(Updater).id]
             keep == Kept(Updater)
             by == Judge(Updater)
             n == Len(Subject(Updater).trace.spans)
  <2>1. Updater \in Worker /\ Concluding(Updater)
    BY <1>7 DEF ReDecide, Worker
  <2>2. r \in TraceRecord
    BY <2>1, SubjectHeld DEF Concluding
  <2>3. traces' = [traces EXCEPT ![Subject(Updater).id] = [r EXCEPT !.keep = keep, !.by = by, !.judged = n]]
    BY <1>7 DEF ReDecide
  <2>4. [r EXCEPT !.keep = keep, !.by = by, !.judged = n] = Verdicted(r, keep, r.state, by, n)
    <3> HIDE DEF r, keep, by, n
    <3> QED BY <2>2 DEF Verdicted, TraceRecord
  <2>5. traces' = [traces EXCEPT ![Subject(Updater).id] = Verdicted(r, keep, r.state, by, n)]
    <3> HIDE DEF r, keep, by, n
    <3> QED BY <2>3, <2>4
  <2> HIDE DEF Goal
  <2> QED BY <1>5, <2>1, <2>5
<1>8. \/ traces' = traces \/ Sweep \/ Decide \/ ReDecide
      \/ \E t \in TraceID, g \in Group : Receive(t, g)
  BY DEF Next, vars, Second, SetPolicy, ForEachMutate, ComparePolicy, Evaluate,
         EnterMatcher, Filter, Limit, Fail, Diff, Finish
<1> QED BY <1>2, <1>3, <1>4, <1>6, <1>7, <1>8

LEMMA JudgedLater ==
  ASSUME EvalInv, [Next]_vars, NEW r \in TraceRecord, NEW id, WellJudged(r, id, evaluators)
  PROVE  WellJudged(r, id, evaluators')
<1>1. r.by \in Nat
  BY DEF TraceRecord
<1>2. evaluators \in Seq(Evaluator) /\ evaluators' \in Seq(Evaluator)
        /\ DOMAIN evaluators \subseteq DOMAIN evaluators'
  BY EvaluatorsGrow DEF EvalInv, TypedState
<1>3. Len(evaluators) <= Len(evaluators')
  BY <1>2
<1>4. r.by <= Len(evaluators) /\ r.by <= Len(evaluators')
  BY <1>1, <1>2, <1>3 DEF WellJudged
<1>5. r.by # 0 => evaluators'[r.by].cfg = evaluators[r.by].cfg
  <2>1. r.by # 0 => r.by \in DOMAIN evaluators
    BY <1>1, <1>2, <1>4
  <2> QED BY <2>1, EvaluatorsGrow
<1> QED BY <1>4, <1>5 DEF WellJudged

\* A verdict on a trace that only got spans.
LEMMA JudgedGrown ==
  ASSUME NEW r \in TraceRecord, NEW x, Grown(r, x), SameVerdict(x, r), NEW id, NEW made,
         WellJudged(r, id, made)
  PROVE  WellJudged(x, id, made)
<1>1. /\ x \in TraceRecord /\ Extends(x.spans, r.spans) /\ x.keep = r.keep /\ x.by = r.by
      /\ x.judged = r.judged
  BY DEF Grown, SameVerdict
<1>2. r.spans \in Seq(Stored) /\ x.spans \in Seq(Stored) /\ x.judged \in Nat
  BY <1>1 DEF TraceRecord
<1>3. Len(r.spans) <= Len(x.spans) /\ x.judged <= Len(r.spans)
        /\ Len(r.spans) \in Nat /\ Len(x.spans) \in Nat
  BY <1>1, <1>2 DEF Extends, WellJudged
<1>4. x.judged = Len(x.spans) => x.spans = r.spans
  <2>1. x.judged = Len(x.spans) => Len(r.spans) = Len(x.spans)
    BY <1>2, <1>3
  <2> QED BY <1>1, <1>2, <2>1, ExtendsNothing
<1>5. x.judged <= Len(x.spans)
  BY <1>2, <1>3
<1> QED BY <1>1, <1>4, <1>5 DEF WellJudged

LEMMA JudgedStep == EvalInv /\ SoundInv /\ JudgedInv /\ [Next]_vars => JudgedInv'
<1> SUFFICES ASSUME EvalInv, SoundInv, JudgedInv, [Next]_vars PROVE JudgedInv'
  OBVIOUS
<1>1. \A t \in Known : traces[t] \in TraceRecord /\ WellJudged(traces[t], t, evaluators)
  BY DEF Known, EvalInv, TypedState, JudgedInv
<1>2. ASSUME NEW u \in TraceID, traces'[u] # None
      PROVE  WellJudged(traces'[u], u, evaluators')
  <2>1. traces'[u] \in TraceRecord
    BY <1>2, StoreGrows
  <2>2. traces'[u].spans \in Seq(Stored)
    BY <2>1 DEF TraceRecord
  <2>3. u \in Known => Grown(traces[u], traces'[u])
    BY StoreGrows
  <2>4. CASE traces'[u].by = 0 /\ traces'[u].judged = 0
    <3>1. Len(traces'[u].spans) \in Nat /\ Len(evaluators') \in Nat
      BY <2>2, EvaluatorsGrow
    <3> QED BY <2>4, <3>1 DEF WellJudged
  <2>5. CASE u \in Known /\ SameVerdict(traces'[u], traces[u])
    <3>1. WellJudged(traces[u], u, evaluators')
      BY <1>1, <2>5, JudgedLater
    <3> QED BY <1>1, <2>3, <2>5, <3>1, JudgedGrown
  <2>6. CASE u \in Known /\ \E w \in Worker : Rejudged(traces'[u], u, w)
    <3>1. PICK w \in Worker : Rejudged(traces'[u], u, w)
      BY <2>6
    <3> DEFINE x == traces'[u]
               c == Subject(w)
    <3>2. /\ Concluding(w) /\ Evaluating(w) /\ Busy(w)
          /\ u = c.id /\ x.keep = Kept(w) /\ x.by = Judge(w) /\ x.judged = Len(c.trace.spans)
      BY <3>1 DEF Rejudged, Concluding, Evaluating
    <3>3. /\ c \in Copy /\ Extends(traces[u].spans, c.trace.spans) /\ traces[u] \in TraceRecord
      BY <3>2, SubjectHeld
    <3>4. c.trace.spans \in Seq(Stored) /\ traces[u].spans \in Seq(Stored)
      BY <3>3 DEF Copy, TraceRecord
    <3>5. Extends(x.spans, c.trace.spans)
      BY <2>2, <2>3, <2>6, <3>3, <3>4, ExtendsMore DEF Grown
    <3>6. x.judged <= Len(x.spans)
      BY <3>2, <3>5 DEF Extends
    <3>7. x.judged = Len(x.spans) => x.spans = c.trace.spans
      BY <2>2, <3>2, <3>4, <3>5, ExtendsNothing
    <3>8. x.by \in Nat /\ x.by <= Len(evaluators) /\ Len(evaluators) <= Len(evaluators')
      <4>1. Judge(w) \in Nat /\ Judge(w) <= Len(evaluators)
        BY <3>2, JudgeType
      <4>2. /\ evaluators \in Seq(Evaluator) /\ evaluators' \in Seq(Evaluator)
            /\ DOMAIN evaluators \subseteq DOMAIN evaluators'
        BY EvaluatorsGrow DEF EvalInv, TypedState
      <4>3. Len(evaluators) <= Len(evaluators')
        BY <4>2
      <4> QED BY <3>2, <4>1, <4>3
    <3>9. x.by <= Len(evaluators')
      <4>1. Len(evaluators) \in Nat /\ Len(evaluators') \in Nat
        BY EvaluatorsGrow DEF EvalInv, TypedState
      <4> QED BY <3>8, <4>1
    <3>10. ASSUME x.by # 0, Limiters(evaluators'[x.by].cfg) = {}, x.judged = Len(x.spans)
           PROVE  x.keep <=> Keeps(evaluators'[x.by].cfg, x.spans, u)
      <4>1. ~ job[w].torn /\ x.by = job[w].ev
        BY <3>2, <3>10 DEF Judge
      <4>2. evaluators'[x.by].cfg = Config(w)
        BY <3>2, <4>1, EvaluatorsGrow DEF Config, EvalInv, Indexed
      <4>3. Kept(w) <=> Keeps(Config(w), c.trace.spans, c.id)
        BY <3>2, <3>10, <4>1, <4>2, KeptMeans
      <4> HIDE DEF x, c
      <4> QED BY <3>2, <3>7, <3>10, <4>2, <4>3
    <3> HIDE DEF x
    <3>11. WellJudged(x, u, evaluators')
      BY <3>6, <3>9, <3>10 DEF WellJudged
    <3> QED BY <3>11 DEF x
  <2> HIDE DEF WellJudged
  <2> QED BY <1>2, <2>4, <2>5, <2>6, StoreVerdicts
<1>3. ASSUME NEW w \in Worker, Busy(w)', NEW k \in DOMAIN job'[w].todo
      PROVE  WellJudged(job'[w].todo[k].trace, job'[w].todo[k].id, evaluators')
  <2>1. ASSUME NEW todo \in Seq(Copy), NEW n \in DOMAIN todo,
               WellJudged(todo[n].trace, todo[n].id, evaluators)
        PROVE  WellJudged(todo[n].trace, todo[n].id, evaluators')
    <3>1. todo[n] \in Copy
      OBVIOUS
    <3>2. todo[n].trace \in TraceRecord
      BY <3>1 DEF Copy
    <3> QED BY <2>1, <3>2, JudgedLater
  <2>2. Busy(w) => /\ job[w].todo \in Seq(Copy)
                   /\ \A n \in DOMAIN job[w].todo :
                        WellJudged(job[w].todo[n].trace, job[w].todo[n].id, evaluators)
    <3>1. Busy(w) => job[w] \in Evaluation
      BY BusyEvaluation DEF EvalInv
    <3>2. Busy(w) => job[w].todo \in Seq(Copy)
      BY <3>1 DEF Evaluation
    <3> QED BY <3>2 DEF JudgedInv
  <2>3. CASE Busy(w) /\ job'[w].todo = job[w].todo
    BY <1>3, <2>1, <2>2, <2>3
  <2>4. CASE Passed(w)
    <3>1. Busy(w) /\ job[w].todo # << >>
      BY <2>4 DEF Passed, Evaluating
    <3>2. job'[w].todo = Tail(job[w].todo)
      BY <2>4 DEF Passed, Onward, Start
    <3>3. k + 1 \in DOMAIN job[w].todo /\ job'[w].todo[k] = job[w].todo[k + 1]
      BY <1>3, <2>2, <3>1, <3>2
    <3> QED BY <2>1, <2>2, <3>1, <3>3
  <2>5. CASE Started(w)
    <3>1. PICK todo \in Seq(Copy) : job'[w].todo = todo /\ Fetched(todo, traces)
      BY <2>5 DEF Started, Start
    <3>2. /\ todo[k] \in Copy /\ traces[todo[k].id] # None
          /\ todo[k].trace = traces[todo[k].id]
      BY <1>3, <3>1 DEF Fetched
    <3>3. todo[k].id \in Known
      BY <3>2 DEF Copy, Known
    <3>4. WellJudged(todo[k].trace, todo[k].id, evaluators)
      BY <1>1, <3>2, <3>3
    <3> QED BY <1>3, <2>1, <3>1, <3>4
  <2>6. job'[w] = job[w] => Busy(w) /\ job'[w].todo = job[w].todo
    BY <1>3 DEF Busy
  <2>7. Moved(w) => Busy(w) /\ job'[w].todo = job[w].todo
    BY DEF Moved, SameSubject
  <2> QED BY <1>3, <2>3, <2>4, <2>5, <2>6, <2>7, StepShape DEF Shape, Busy
<1> QED BY <1>2, <1>3 DEF JudgedInv, Known

-----------------------------------------------------------------------------
(* A comparison of a policy list with itself. *)

UntornInv == Busy(Comparer) => ~ job[Comparer].torn

SelfInv ==
  Busy(Comparer) /\ Limiters(Config(Comparer)) = {} /\ ~ job[Comparer].tally.stale =>
    job[Comparer].tally.newlyKept = 0 /\ job[Comparer].tally.newlyDropped = 0

LEMMA UntornStep == EvalInv /\ OwnEvaluator /\ UntornInv /\ [Next]_vars => UntornInv'
<1> SUFFICES ASSUME EvalInv, OwnEvaluator, UntornInv, [Next]_vars, Busy(Comparer)'
             PROVE  ~ job'[Comparer].torn
  BY DEF UntornInv
<1>1. Comparer \in Worker
  BY DEF Worker
<1>2. CASE job'[Comparer] = job[Comparer]
  BY <1>2 DEF UntornInv, Busy
<1>3. CASE Moved(Comparer)
  BY <1>3 DEF Moved, Accompanied, OwnEvaluator, UntornInv
<1>4. CASE Passed(Comparer)
  <2>1. job'[Comparer].torn = FALSE
    BY <1>4 DEF Passed, Onward, Start
  <2> QED BY <2>1
<1>5. CASE Started(Comparer)
  <2>1. job'[Comparer].torn = FALSE
    BY <1>5 DEF Started, Start
  <2> QED BY <2>1
<1> QED BY <1>1, <1>2, <1>3, <1>4, <1>5, StepShape DEF Shape, Busy

\* A trace on which both sides agree.
LEMMA NoDifference ==
  ASSUME NEW c, NEW kept \in BOOLEAN, NEW stale \in BOOLEAN, NEW tally \in Tallies,
         c.trace.keep \in BOOLEAN
  PROVE  LET o == [Counted(c, kept, tally) EXCEPT !.stale = stale]
         IN  /\ o.stale = stale /\ Counted(c, kept, tally).stale = tally.stale
             /\ kept = c.trace.keep => /\ o.newlyKept = tally.newlyKept
                                       /\ o.newlyDropped = tally.newlyDropped
<1> DEFINE more == IF kept /\ ~ c.trace.keep THEN 1 ELSE 0
           less == IF ~ kept /\ c.trace.keep THEN 1 ELSE 0
           o == [Counted(c, kept, tally) EXCEPT !.stale = stale]
<1>1. kept = c.trace.keep => more = 0 /\ less = 0
  OBVIOUS
<1>2. o.newlyKept = tally.newlyKept + more /\ o.newlyDropped = tally.newlyDropped + less
  BY DEF Counted, Observed, Tallies
<1>3. o.stale = stale /\ Counted(c, kept, tally).stale = tally.stale
  BY DEF Counted, Observed, Tallies
<1> HIDE DEF more, less, o
<1>4. kept = c.trace.keep => o.newlyKept = tally.newlyKept /\ o.newlyDropped = tally.newlyDropped
  BY <1>1, <1>2, TallyFields
<1> QED BY <1>3, <1>4 DEF o

LEMMA SelfStep ==
  EvalInv /\ SoundInv /\ JudgedInv /\ UntornInv /\ SelfInv /\ [Next]_vars => SelfInv'
<1> SUFFICES ASSUME EvalInv, SoundInv, JudgedInv, UntornInv, SelfInv, [Next]_vars,
                    Busy(Comparer)', Limiters(Config(Comparer)') = {},
                    ~ job'[Comparer].tally.stale
             PROVE  /\ job'[Comparer].tally.newlyKept = 0
                    /\ job'[Comparer].tally.newlyDropped = 0
  BY DEF SelfInv, Limiters, Positions, LeafAt
<1>1. Comparer \in Worker
  BY DEF Worker
<1>2. ASSUME job'[Comparer] = job[Comparer] \/ Moved(Comparer) \/ Passed(Comparer)
      PROVE  Busy(Comparer) /\ Limiters(Config(Comparer)) = {}
  <2>1. /\ Busy(Comparer) /\ job'[Comparer].ev = job[Comparer].ev
        /\ job[Comparer].ev \in DOMAIN evaluators
    BY <1>1, <1>2, EvaluatorKept
  <2>2. Config(Comparer)' = Config(Comparer)
    BY <2>1, EvaluatorsGrow DEF Config
  <2> QED BY <2>1, <2>2
<1>3. CASE job'[Comparer] = job[Comparer]
  BY <1>2, <1>3 DEF SelfInv
<1>4. CASE Moved(Comparer)
  BY <1>2, <1>4 DEF SelfInv, Moved, SameSubject
<1>5. CASE Passed(Comparer)
  <2>1. PICK tally \in Tallies :
          /\ job'[Comparer] = Onward(job[Comparer], tally)
          /\ SameDifferences(tally, job[Comparer].tally)
               \/ (Concluding(Comparer) /\ tally = Differences)
    BY <1>5 DEF Passed
  <2>2. job'[Comparer].tally = tally
    BY <2>1, OnwardFields
  <2>3. CASE SameDifferences(tally, job[Comparer].tally)
    BY <1>2, <1>5, <2>2, <2>3 DEF SelfInv, SameDifferences
  <2>4. CASE Concluding(Comparer) /\ tally = Differences
    <3> DEFINE c == Subject(Comparer)
               kept == Kept(Comparer)
               old == job[Comparer].tally
               stale == Counted(c, kept, old).stale \/ Stale(c, Config(Comparer))
               o == [Counted(c, kept, old) EXCEPT !.stale = stale]
    <3>1. Evaluating(Comparer) /\ Busy(Comparer)
      BY <2>4 DEF Concluding, Evaluating
    <3>2. c \in Copy /\ old \in Tallies /\ kept \in BOOLEAN
      BY <1>1, <3>1, SubjectHeld, TallyOfJob DEF Kept
    <3>3. c.trace.keep \in BOOLEAN /\ stale \in BOOLEAN
      <4>1. Counted(c, kept, old) \in Tallies
        BY <3>2, TallyTypes
      <4>2. Counted(c, kept, old).stale \in BOOLEAN
        BY <4>1, TallyFields
      <4> HIDE DEF c, kept, old
      <4> QED BY <3>2, <4>2 DEF Copy, TraceRecord
    <3>4. tally = o
      BY <2>4 DEF Differences
    <3>5. /\ o.stale = stale /\ Counted(c, kept, old).stale = old.stale
          /\ kept = c.trace.keep => o.newlyKept = old.newlyKept /\ o.newlyDropped = old.newlyDropped
      <4> HIDE DEF c, kept, old, stale
      <4> QED BY <3>2, <3>3, NoDifference
    <3>6. ~ old.stale /\ ~ Stale(c, Config(Comparer))
      <4> HIDE DEF o, c, kept, old
      <4> QED BY <2>2, <3>4, <3>5
    <3>7. /\ c.trace.by # 0 /\ evaluators[c.trace.by].cfg = Config(Comparer)
          /\ c.trace.judged = Len(c.trace.spans)
      BY <3>6 DEF Stale
    <3>8. WellJudged(c.trace, c.id, evaluators)
      <4>1. job[Comparer] \in Evaluation /\ job[Comparer].todo # << >>
        BY <1>1, <3>1, BusyEvaluation DEF EvalInv, Evaluating
      <4>2. job[Comparer].todo \in Seq(Copy)
        BY <4>1 DEF Evaluation
      <4>3. 1 \in DOMAIN job[Comparer].todo /\ c = job[Comparer].todo[1]
        BY <4>1, <4>2 DEF Subject
      <4> QED BY <1>1, <3>1, <4>3 DEF JudgedInv
    <3>9. c.trace.keep <=> Keeps(Config(Comparer), c.trace.spans, c.id)
      BY <1>2, <1>5, <3>7, <3>8 DEF WellJudged
    <3>10. kept <=> Keeps(Config(Comparer), c.trace.spans, c.id)
      BY <1>1, <1>2, <1>5, <2>4, <3>1, KeptMeans DEF UntornInv
    <3>11. kept = c.trace.keep
      <4> HIDE DEF kept, c
      <4> QED BY <3>2, <3>3, <3>9, <3>10
    <3> HIDE DEF o, kept, c
    <3> QED BY <1>2, <1>5, <2>2, <3>4, <3>5, <3>6, <3>11 DEF SelfInv
  <2> QED BY <2>1, <2>3, <2>4
<1>6. CASE Started(Comparer)
  <2>1. job'[Comparer].tally = NoTally
    BY <1>6 DEF Started, Start
  <2> QED BY <2>1 DEF NoTally
<1> QED BY <1>1, <1>3, <1>4, <1>5, <1>6, StepShape DEF Shape, Busy

LEMMA AllThroughout ==
  Spec => [](EvalInv /\ SoundInv /\ OwnEvaluator /\ JudgedInv /\ UntornInv /\ SelfInv)
<1>1. Init => SoundInv /\ OwnEvaluator /\ JudgedInv /\ UntornInv /\ SelfInv
  BY DEF Init, SoundInv, OwnEvaluator, JudgedInv, UntornInv, SelfInv, Evaluating, Busy, Known, Worker
<1> QED BY <1>1, EvalInit, EvalStep, SoundStep, OwnEvaluatorStep, JudgedStep, UntornStep, SelfStep,
           PTL DEF Spec

\* A policy list without limiters compared with itself differs on no trace that
\* was decided by it on all its spans, for any policies and traces and whatever
\* runs beside the comparison (compare.go:30-38).
THEOREM SelfComparisonsAgree == Spec => []SelfCompareEmpty
<1>1. SelfInv => SelfCompareEmpty
  BY DEF SelfInv, SelfCompareEmpty, Tally
<1> QED BY <1>1, AllThroughout, PTL

-----------------------------------------------------------------------------
CountInv == Len(evaluators) \in 1 .. MaxEvaluators

LEMMA CountStep == EvalInv /\ CountInv /\ [Next]_vars => CountInv'
<1> SUFFICES ASSUME EvalInv, CountInv, [Next]_vars PROVE CountInv'
  OBVIOUS
<1>1. MaxEvaluators \in Nat /\ evaluators \in Seq(Evaluator) /\ Len(evaluators) \in Nat
  BY EvalAssumption DEF EvalInv, TypedState
<1>2. ASSUME NEW cfg, Len(evaluators) < MaxEvaluators, evaluators' = Append(evaluators, Fresh(cfg))
      PROVE  CountInv'
  <2>1. Len(evaluators') = Len(evaluators) + 1
    BY <1>1, <1>2
  <2> QED BY <1>1, <1>2, <2>1 DEF CountInv
<1>3. ASSUME NEW w \in Worker, Limit(w) PROVE CountInv'
  <2>1. Len(evaluators') = Len(evaluators)
    <3>1. evaluators' = evaluators
            \/ \E ev, x : evaluators' = [evaluators EXCEPT ![ev] = x]
      BY <1>3, LimitCharges
    <3> QED BY <1>1, <3>1
  <2> QED BY <2>1 DEF CountInv
<1>4. \/ evaluators' = evaluators
      \/ \E cfg \in Configs : /\ Len(evaluators) < MaxEvaluators
                              /\ evaluators' = Append(evaluators, Fresh(cfg))
      \/ \E w \in Worker : Limit(w)
  BY DEF Next, vars, Receive, Second, Sweep, SetPolicy, ForEachMutate, ComparePolicy, Evaluate,
         EnterMatcher, Filter, Fail, Decide, ReDecide, Diff, Finish
<1> QED BY <1>2, <1>3, <1>4 DEF CountInv

\* Every variable keeps its type: buckets stay between empty and full and ahead
\* of no clock, verdicts name evaluators that exist and spans that came, and a
\* goroutine that evaluates stands at a policy that can be asked or past the last.
THEOREM EvalTypeCorrect == Spec => []TypeOK
<1>1. ASSUME EvalInv, BudgetInv, CountInv, JudgedInv PROVE TypeOK
  <2>1. now \in 0 .. MaxNow /\ traces \in [TraceID -> TraceRecord \cup {None}]
    BY <1>1 DEF EvalInv, TypedState
  <2>2. /\ Len(evaluators) \in 1 .. MaxEvaluators /\ current \in 1 .. Len(evaluators)
        /\ \A w \in Worker : Busy(w) => job[w].ev \in 1 .. Len(evaluators)
    BY <1>1 DEF EvalInv, TypedState, CountInv, Indexed
  <2>3. ASSUME NEW n \in DOMAIN evaluators PROVE Buckets(evaluators[n])
    <3>1. evaluators[n] \in Evaluator
      BY <1>1 DEF EvalInv, TypedState
    <3>2. PICK cfg \in Configurations : evaluators[n] \in EvaluatorFor(cfg)
      BY <3>1 DEF Evaluator
    <3>3. evaluators[n].cfg = cfg /\ evaluators[n].spent \in [Limiters(cfg) -> Nat]
      BY <3>2 DEF EvaluatorFor
    <3> QED BY <1>1, <3>3 DEF BudgetInv, Budgeted, Buckets
  <2>4. \A t \in Known : /\ traces[t].judged <= Len(traces[t].spans)
                         /\ traces[t].by <= Len(evaluators)
    BY <1>1 DEF JudgedInv, WellJudged
  <2>5. ASSUME NEW w \in Worker, Busy(w)
        PROVE  Asking(w, Stateless \cup Stateful) \/ Concluding(w) \/ ~ Evaluating(w)
    <3> SUFFICES ASSUME Evaluating(w), ~ (job[w].i > Len(Config(w)))
                 PROVE  Asking(w, Stateless \cup Stateful)
      BY DEF Concluding
    <3>1. Config(w) \in Configurations /\ PlacedIn(Config(w), job[w])
      BY <1>1, <2>5, ConfigOfJob DEF EvalInv, Placed
    <3>2. job[w].i <= Len(Config(w)) /\ job[w].i \in DOMAIN Config(w)
      BY <3>1, ConfigurationShape DEF PlacedIn
    <3>3. job[w].j \in DOMAIN Leaves(Config(w)[job[w].i])
      BY <3>1, <3>2, ConfigurationShape DEF PlacedIn
    <3> DEFINE p == Config(w)[job[w].i]
               q == Leaves(p)[job[w].j]
    <3>4. p \in Range(Config(w)) /\ q \in Range(Leaves(p))
      BY <3>2, <3>3 DEF Range
    <3>5. q.type \in Stateless \cup Stateful \cup {"and", "unset"}
      BY <3>1, <3>4, ConfigAssumption DEF Configurations
    <3>6. buildLeaf(q)
      BY <3>1, <3>2, <3>3 DEF Configurations, NewEvaluator
    <3>7. q.type \notin {"and", "unset"}
      BY <3>6 DEF buildLeaf
    <3>8. LeafAt(Config(w), At(w)) = q
      BY DEF LeafAt, At
    <3> HIDE DEF p, q
    <3> QED BY <3>2, <3>5, <3>7, <3>8 DEF Asking
  <2> QED BY <2>1, <2>2, <2>3, <2>4, <2>5 DEF TypeOK
<1>2. Init => CountInv
  BY EvalAssumption DEF Init, CountInv
<1>3. EvalInv /\ BudgetInv /\ CountInv /\ JudgedInv => TypeOK
  BY <1>1
<1> QED BY <1>2, <1>3, CountStep, BudgetInit, BudgetStep, EvalInvariant, AllThroughout, PTL DEF Spec
=============================================================================
