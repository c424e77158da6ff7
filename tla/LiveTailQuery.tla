---------------------------- MODULE LiveTailQuery ----------------------------
(***************************************************************************)
(* The Live Tail query, twice: internal/query/filter.go on a stored trace  *)
(* and its port web/src/filter.ts on the summary a browser has.            *)
(*                                                                         *)
(* A term has a key, an operator and a text.  The text of a free term, a   *)
(* service or an attribute is the set of the names, services or values     *)
(* that contain or equal it, letter case apart.  The text of a duration    *)
(* has a form, which is all it has beyond one number and one unit, its     *)
(* length in instants, and how far its number times the browser's          *)
(* milliseconds to the unit, in floating point, comes out off it: -1 for   *)
(* below, 1 for above (1.001s gives 1000.9999999999999).                   *)
(***************************************************************************)
EXTENDS TraceData

\* time.ParseDuration takes a sign, several numbers with units, a 0 without one,
\* a number that ends in its point, either letter for micro, and nothing beyond
\* an int64; parseGoDuration knows no limit, and none of the others.
ParsedByServer(text) == text.form \subseteq {"sign", "units", "zero", "point", "mu"}
ParsedByBrowser(text) == text.form \subseteq {"long"}

Compare(op, got, want) ==
  CASE op = ">" -> got > want [] op = ">=" -> got >= want
    [] op = "<" -> got < want [] op = "<=" -> got <= want
    [] op = ":" -> got = want

matchFreeText(spans, text) ==
  RootServiceName(spans) \in text \/ \E i \in DOMAIN spans : spans[i].name \in text

matchAttribute(spans, key, text) ==
  \E i \in DOMAIN spans : key \in DOMAIN spans[i].attributes /\ spans[i].attributes[key] \in text

\* term.match
Match(spans, term) ==
  CASE term.key = "free" -> matchFreeText(spans, term.text)
    [] term.key = "status" -> HasError(spans) = term.error
    [] term.key = "duration" ->
         ParsedByServer(term.text) /\ Compare(term.op, Duration(spans), term.text.ticks)
    [] term.key = "service" -> RootServiceName(spans) \in term.text
    [] term.key = "attribute" -> matchAttribute(spans, term.name, term.text)

\* matchTerm: the summary's whole milliseconds against a product that may lie
\* between two instants, both counted in half instants here.
MatchSummary(t, term) ==
  CASE term.key = "free" -> t.service_name \in term.text \/ t.root_span_name \in term.text
    [] term.key = "status" -> t.has_error = term.error
    [] term.key = "duration" ->
         ParsedByBrowser(term.text)
         /\ Compare(term.op, 2 * (t.duration_ms * TicksPerMs),
                             2 * term.text.ticks + term.text.off)
    [] term.key = "service" -> t.service_name \in term.text
    [] term.key = "attribute" -> TRUE
=============================================================================
