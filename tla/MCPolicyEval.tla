---------------------------- MODULE MCPolicyEval ----------------------------
(***************************************************************************)
(* TLC instances of PolicyEval.                                            *)
(***************************************************************************)
EXTENDS PolicyEval, TLC

CONSTANTS t1, t2

Num(n) == [kind |-> "int", val |-> n]
Str(s) == [kind |-> "str", val |-> s]
Bool(b) == [kind |-> "bool", val |-> b]
Span(name, parent, start, end, status, state, attrs, extra) ==
  [name |-> name, parent |-> parent, start |-> start, end |-> end,
   status |-> status, state |-> state, attrs |-> attrs, extra |-> extra]

\* A root of a millisecond and a half; spans out of order that last longer
\* together than each; a span without an end.
MCGroup ==
  {[resource |-> [k |-> Str("x")], service |-> "api",
    spans |-> <<Span("root", NoParent, 4, 7, "ERROR", "", [k |-> Num(3)], {"scope"})>>],
   [resource |-> << >>, service |-> NoName,
    spans |-> <<Span("late", "p", 5, 12, "UNSET", "v", [k |-> Str("")], {}),
                Span("mid", "p", 3, 9, "UNSET", "", << >>, {"scope", "events"}),
                Span("early", "p", 2, 3, "OK", "", [k |-> Bool(TRUE)], {"events"})>>],
   [resource |-> [k |-> Str("")], service |-> "db",
    spans |-> <<Span("early", "p", 3, 0, "UNSET", "w", << >>, {})>>]}

Latency(threshold, upper) == [type |-> "latency", threshold |-> threshold, upper |-> upper]
Numeric(min, max, invert) ==
  [type |-> "numeric_attribute", key |-> "k", min |-> min, max |-> max, invert |-> invert]
Strings(values, regex, invert) ==
  [type |-> "string_attribute", key |-> "k", values |-> values, regex |-> regex, invert |-> invert]
Boolean(value, invert) ==
  [type |-> "boolean_attribute", key |-> "k", value |-> value, invert |-> invert]

\* Spans as a condition may be given them, as they came or as they are rehydrated.
Given ==
  LET came == UNION { { InContext(s, g) : s \in Range(g.spans) } : g \in MCGroup }
  IN came \cup { Bare(c) : c \in came }
Named(names) == { c \in Given : c.name \in names }

OTTL(holds, fails, propagate) ==
  [type |-> "ottl_condition", holds |-> holds, fails |-> fails, propagate |-> propagate,
   expressions |-> TRUE, spanevent |-> FALSE]
Status(codes) == [type |-> "status_code", codes |-> codes]
Rate(n) == [type |-> "rate_limiting", rate |-> n]
And(subs) == [type |-> "and", subs |-> subs]

MCPolicy ==
  {Latency(0, 0), Latency(1, 0), Latency(3, 0), Latency(0, 2), Latency(2, 4)}
  \cup { Numeric(r[1], r[2], i) : r \in {<<0, 1>>, <<2, 3>>}, i \in BOOLEAN }
  \cup { Strings(v, r, i) : v \in {{"x"}, {""}}, r \in BOOLEAN, i \in BOOLEAN }
  \cup { Boolean(b, i) : b \in BOOLEAN, i \in BOOLEAN }
  \cup { OTTL(Named({"late"}), Named({"early"}), b) : b \in BOOLEAN }
  \cup {OTTL({ c \in Given : "k" \in DOMAIN c.resource /\ "k" \notin DOMAIN c.attrs }, {}, TRUE),
        OTTL({ c \in Given : "scope" \in c.extra }, {}, TRUE)}
  \cup {Status({"ERROR"}), Status({"UNSET", "OK"}), [type |-> "always_sample"],
        [type |-> "span_count", min |-> 2, max |-> 0],
        [type |-> "span_count", min |-> 1, max |-> 2],
        [type |-> "trace_state", values |-> {"v", ""}],
        [type |-> "probabilistic", threshold |-> 4]}

MCConfigs ==
  {<<And(<<Strings({"x"}, TRUE, FALSE), Rate(1)>>)>>,
   <<Rate(1), OTTL(Named({"late"}), Named({"early"}), TRUE)>>,
   <<OTTL(Named({"late"}), Named({"early"}), FALSE), Status({"ERROR"})>>,
   <<And(<< >>)>>}

MCInitialConfigs ==
  {<<And(<<Strings({"x"}, TRUE, FALSE), Rate(1)>>)>>,
   <<OTTL(Named({"late"}), Named({"early"}), FALSE), Status({"ERROR"})>>}

Text(n) == [form |-> {}, ticks |-> n, off |-> 0]
MCDuration ==
  {Text(2), Text(10), [Text(10) EXCEPT !.off = -1], [Text(10) EXCEPT !.form = {"units"}],
   [Text(-10) EXCEPT !.form = {"sign"}], [Text(0) EXCEPT !.form = {"zero"}],
   [Text(2) EXCEPT !.form = {"point"}], [Text(0) EXCEPT !.form = {"malformed"}]}

MCQuery ==
  { [key |-> "status", error |-> b] : b \in BOOLEAN }
  \cup { [key |-> "duration", op |-> op, text |-> x] :
           op \in {":", ">", ">=", "<", "<="}, x \in MCDuration }
  \cup { [key |-> "service", text |-> x] : x \in {{"api"}, {"db"}} }
  \cup { [key |-> "free", text |-> x] : x \in {{"early"}, {"api", "late"}} }
  \cup { [key |-> "attribute", name |-> n, text |-> {Str("x"), Num(3)}] :
           n \in {<<"resource", "k">>, <<"attributes", "k">>} }

MCHashOf == t1 :> 3 @@ t2 :> 5
=============================================================================
