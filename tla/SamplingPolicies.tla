--------------------------- MODULE SamplingPolicies ---------------------------
(***************************************************************************)
(* The policy types without a memory: internal/upstreamtsp/sampling, and   *)
(* what internal/sampling/evaluator.go accepts of a configuration.         *)
(*                                                                         *)
(* A policy is a record with its type and the fields of its configuration. *)
(* The strings a string filter accepts are a set, whether listed or        *)
(* matched by its expressions; an OTTL expression is the set of the spans  *)
(* it holds on and of those it fails on, each with its resource, since it  *)
(* may look at all of them.                                                *)
(***************************************************************************)
EXTENDS TraceData

CONSTANT HashOf  \* hashTraceID of each trace identifier

\* A span with its resource, as an OTTL condition is given it.
InContext(s, rs) ==
  [resource |-> rs.resource, service |-> rs.service, name |-> s.name, parent |-> s.parent,
   start |-> s.start, end |-> s.end, status |-> s.status, state |-> s.state,
   attrs |-> s.attrs, extra |-> s.extra]

\* All spans, resource after resource (hasSpanWithCondition).
EverySpan(td) == UNION { Range(td[i].spans) : i \in DOMAIN td }

(* Attribute filters: a value of another kind reads as 0, FALSE or "". *)

As(kind, v) ==
  IF v.kind = kind THEN v.val
  ELSE CASE kind = "int" -> 0 [] kind = "bool" -> FALSE [] kind = "str" -> ""

numericMatches(p, v) == p.min <= As("int", v) /\ As("int", v) <= p.max
booleanMatches(p, v) == As("bool", v) = p.value
\* The list of exact values is kept without "".
stringMatches(p, v) == As("str", v) \in (IF p.regex THEN p.values ELSE p.values \ {""})

Matches(p, v) ==
  CASE p.type = "numeric_attribute" -> numericMatches(p, v)
    [] p.type = "boolean_attribute" -> booleanMatches(p, v)
    [] p.type = "string_attribute" -> stringMatches(p, v)

ResourceMatches(p, resource) == p.key \in DOMAIN resource /\ Matches(p, resource[p.key])

\* A span's empty string is not tried.
SpanMatches(p, attrs) ==
  /\ p.key \in DOMAIN attrs
  /\ Matches(p, attrs[p.key])
  /\ p.type = "string_attribute" => As("str", attrs[p.key]) # ""

HasResourceOrSpan(p, td) ==
  \E i \in DOMAIN td : \/ ResourceMatches(p, td[i].resource)
                       \/ \E s \in Range(td[i].spans) : SpanMatches(p, s.attrs)

\* Mutant: stops at the first value that does not match.
InvertHasResourceOrSpanAny(p, td) ==
  \E i \in DOMAIN td : \/ ~ResourceMatches(p, td[i].resource)
                       \/ \E s \in Range(td[i].spans) : ~SpanMatches(p, s.attrs)

InvertHasResourceOrSpan(p, td) ==
  \A i \in DOMAIN td : /\ ~ResourceMatches(p, td[i].resource)
                       /\ \A s \in Range(td[i].spans) : ~SpanMatches(p, s.attrs)

attributeFilter(p, td) ==
  IF p.invert THEN InvertHasResourceOrSpan(p, td) ELSE HasResourceOrSpan(p, td)

(* latency.go: the callback keeps the earliest start and the latest end of  *)
(* the spans it was given so far, and is asked after each.                  *)

Spans(td) ==
  FlattenSeq([i \in DOMAIN td |->
    [k \in DOMAIN td[i].spans |-> InContext(td[i].spans[k], td[i])]])

Running(spans) ==
  LET times[n \in 0 .. Len(spans)] ==
        IF n = 0 THEN [min |-> 0, max |-> 0]
        ELSE LET t == times[n - 1]
                 s == spans[n]
             IN [min |-> IF t.min = 0 \/ s.start < t.min THEN s.start ELSE t.min,
                 max |-> IF t.max = 0 \/ s.end > t.max THEN s.end ELSE t.max]
  IN times

\* Mutant: the duration of each span by itself.
latencyOfSpan(p, td) ==
  \E s \in EverySpan(td) : LET ms == Milliseconds(s.end - s.start)
                           IN p.threshold < ms /\ (p.upper = 0 \/ ms <= p.upper)

latency(p, td) ==
  LET times == Running(Spans(td))
  IN \E n \in DOMAIN Spans(td) :
       LET ms == Milliseconds(times[n].max - times[n].min)
       IN p.threshold < ms /\ (p.upper = 0 \/ ms <= p.upper)

(* The others. *)

statusCode(p, td) == \E s \in EverySpan(td) : s.status \in p.codes
traceState(p, td) == \E s \in EverySpan(td) : s.state \in p.values \ {""}
spanCount(p, td) ==
  LET n == Len(Spans(td)) IN n >= p.min /\ (p.max = 0 \/ n <= p.max)
probabilistic(p, id) == HashOf[id] <= p.threshold

\* ottl.go: the first span on which an expression holds or, under error_mode
\* propagate, fails settles it.
ottlDecisive(p, td) ==
  { n \in DOMAIN Spans(td) :
      Spans(td)[n] \in p.holds \cup (IF p.propagate THEN p.fails ELSE {}) }

ottl(p, td) ==
  IF ottlDecisive(p, td) = {} THEN "NotSampled"
  ELSE IF Spans(td)[Min(ottlDecisive(p, td))] \in p.holds THEN "Sampled" ELSE "Error"

Decision(sampled) == IF sampled THEN "Sampled" ELSE "NotSampled"

AttributeTypes == {"numeric_attribute", "boolean_attribute", "string_attribute"}
Stateful == {"rate_limiting"}

\* Evaluate of a policy without a memory.
Outcome(p, td, id) ==
  CASE p.type = "always_sample" -> "Sampled"
    [] p.type = "latency" -> Decision(latency(p, td))
    [] p.type = "status_code" -> Decision(statusCode(p, td))
    [] p.type \in AttributeTypes -> Decision(attributeFilter(p, td))
    [] p.type = "span_count" -> Decision(spanCount(p, td))
    [] p.type = "trace_state" -> Decision(traceState(p, td))
    [] p.type = "probabilistic" -> Decision(probabilistic(p, id))
    [] p.type = "ottl_condition" -> ottl(p, td)

-----------------------------------------------------------------------------
\* The policies that are asked in turn for a top-level policy: And stops at
\* the first that does not sample.
Leaves(p) == IF p.type = "and" THEN p.subs ELSE <<p>>

\* buildEvaluator, subToPolicy and buildOTTL; a missing block of settings is
\* the type "unset".
buildLeaf(p) ==
  /\ p.type \notin {"and", "unset"}
  /\ p.type = "status_code" => p.codes # {} /\ p.codes \subseteq {"OK", "ERROR", "UNSET"}
  /\ p.type = "ottl_condition" => p.expressions /\ ~p.spanevent

NewEvaluator(cfg) ==
  \A i \in DOMAIN cfg :
    /\ Len(Leaves(cfg[i])) > 0
    /\ \A j \in DOMAIN Leaves(cfg[i]) : buildLeaf(Leaves(cfg[i])[j])
=============================================================================
