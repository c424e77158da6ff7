------------------------------ MODULE TraceData ------------------------------
(***************************************************************************)
(* Spans on the wire and in the store: internal/trace/types.go and         *)
(* assembler.go, internal/server/convert.go, and the way back to the wire  *)
(* form in internal/sampling/evaluator.go.                                 *)
(*                                                                         *)
(* On the wire (pdata), spans come in groups that share a resource.  Times *)
(* are instants of TicksPerMs to the millisecond; names, services and      *)
(* attribute keys are values of any kind; an attribute's value is a record *)
(* [kind, val], since the filters read it as the kind they expect.  A      *)
(* name stands for whatever else is stored and returned as it came (kind,  *)
(* identifier, status message); extra is the set of what a span carries    *)
(* that is not: its scope, events, links, flags, schema URLs and counts of *)
(* dropped items.                                                          *)
(***************************************************************************)
EXTENDS Integers, Sequences, SequencesExt

CONSTANTS
  TicksPerMs,  \* instants to the millisecond
  NoParent,    \* the zero span identifier
  NoName,      \* the empty string, as a name or a service
  None

ASSUME TicksAssumption == TicksPerMs \in Nat \ {0}

\* A keyed value under the prefix the assembler gives it.  The five keys it adds
\* of its own have neither prefix and are skipped on the way back.
Flat(resource, attrs) ==
  [k \in ({"resource"} \X DOMAIN resource) \cup ({"attributes"} \X DOMAIN attrs) |->
     IF k[1] = "resource" THEN resource[k[2]] ELSE attrs[k[2]]]

\* Nothing of the extra is stored but two counts that never leave the store.
toSpan(s, rs) ==
  [name |-> s.name, parent |-> s.parent, start |-> s.start, end |-> s.end,
   status |-> s.status, state |-> s.state, service |-> rs.service,
   attributes |-> Flat(rs.resource, s.attrs)]

\* The spans of one trace in one group of an export request, as they follow
\* each other in the store.
Assemble(rs) == [k \in DOMAIN rs.spans |-> toSpan(rs.spans[k], rs)]

Unprefixed(attributes, prefix) ==
  [k \in { f[2] : f \in { g \in DOMAIN attributes : g[1] = prefix } } |-> attributes[<<prefix, k>>]]

\* Mutant: resource attributes are left behind.
rehydrateSpanOnly(spans) ==
  [i \in DOMAIN spans |->
     [resource |-> << >>, service |-> spans[i].service,
      spans |-> <<[name |-> spans[i].name, parent |-> spans[i].parent,
                   start |-> spans[i].start, end |-> spans[i].end,
                   status |-> spans[i].status, state |-> spans[i].state,
                   attrs |-> Unprefixed(spans[i].attributes, "attributes"),
                   extra |-> {}]>>]]

\* One group per span.
rehydrateTraceData(spans) ==
  [i \in DOMAIN spans |->
     [resource |-> Unprefixed(spans[i].attributes, "resource"),
      service |-> spans[i].service,
      spans |-> <<[name |-> spans[i].name, parent |-> spans[i].parent,
                   start |-> spans[i].start, end |-> spans[i].end,
                   status |-> spans[i].status, state |-> spans[i].state,
                   attrs |-> Unprefixed(spans[i].attributes, "attributes"),
                   extra |-> {}]>>]]

-----------------------------------------------------------------------------
\* The first span without a parent, or else the first of the earliest.
RootSpan(spans) ==
  LET orphans == { i \in DOMAIN spans : spans[i].parent = NoParent }
      earliest == { i \in DOMAIN spans : \A k \in DOMAIN spans : spans[i].start <= spans[k].start }
  IN spans[Min(IF orphans # {} THEN orphans ELSE earliest)]

RootServiceName(spans) ==
  IF RootSpan(spans).service # NoName THEN RootSpan(spans).service ELSE spans[1].service

Duration(spans) ==
  Max({ spans[i].end : i \in DOMAIN spans }) - Min({ spans[i].start : i \in DOMAIN spans })

HasError(spans) == \E i \in DOMAIN spans : spans[i].status = "ERROR"

\* Duration.Milliseconds cuts towards zero.
Milliseconds(d) == IF d >= 0 THEN d \div TicksPerMs ELSE -((-d) \div TicksPerMs)

\* Mutant: the service of the root, whatever it is.
toSummaryRoot(spans) ==
  [service_name |-> RootSpan(spans).service, root_span_name |-> RootSpan(spans).name,
   duration_ms |-> Milliseconds(Duration(spans)), has_error |-> HasError(spans)]

\* What the browser gets of a trace, as far as its query reads it.
toSummary(spans) ==
  [service_name |-> RootServiceName(spans), root_span_name |-> RootSpan(spans).name,
   duration_ms |-> Milliseconds(Duration(spans)), has_error |-> HasError(spans)]
=============================================================================
