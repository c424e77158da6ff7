------------------------- MODULE PolicyContentsProofs -------------------------
(***************************************************************************)
(* Proofs about the contents PolicyEval evaluates, for any groups of       *)
(* spans, policies and query terms: a policy concludes from a trace as the *)
(* server keeps it what it would from the groups as they came, a latency   *)
(* filter goes by the duration of the whole trace, and the browser's query *)
(* agrees with the server's.  The sequences are walked by recursive        *)
(* functions, so the lemmas below are inductions over their lengths.       *)
(***************************************************************************)
EXTENDS PolicyEvalProofs, FiniteSums

(* FlattenSeq. *)

Concatenated(seqs, n, f) ==
  [i \in 1 .. n |-> IF i = 1 THEN seqs[i] ELSE f[i - 1] \o seqs[i]]
Flattened(seqs) == CHOOSE f : f = Concatenated(seqs, Len(seqs), f)

LEMMA FlattenedExists ==
  ASSUME NEW S, NEW seqs \in Seq(S)
  PROVE  Flattened(seqs) = Concatenated(seqs, Len(seqs), Flattened(seqs))
<1> DEFINE P == { n \in Nat : \E f : f = Concatenated(seqs, n, f) }
<1>1. 0 \in P
  <2> DEFINE f == [i \in 1 .. 0 |-> 0]
  <2>1. f = Concatenated(seqs, 0, f)
    BY DEF Concatenated
  <2> QED BY <2>1
<1>2. ASSUME NEW n \in Nat, n \in P PROVE n + 1 \in P
  <2>1. PICK f : f = Concatenated(seqs, n, f)
    BY <1>2
  <2> DEFINE h == Concatenated(seqs, n + 1, f)
  <2>2. ASSUME NEW i \in 1 .. n PROVE h[i] = f[i]
    <3>1. h[i] = IF i = 1 THEN seqs[i] ELSE f[i - 1] \o seqs[i]
      BY DEF Concatenated
    <3>2. Concatenated(seqs, n, f)[i] = IF i = 1 THEN seqs[i] ELSE f[i - 1] \o seqs[i]
      BY DEF Concatenated
    <3> QED BY <2>1, <3>1, <3>2
  <2>3. h = Concatenated(seqs, n + 1, h)
    <3> HIDE DEF h
    <3>1. ASSUME NEW i \in 1 .. n + 1
          PROVE  (IF i = 1 THEN seqs[i] ELSE f[i - 1] \o seqs[i])
                   = (IF i = 1 THEN seqs[i] ELSE h[i - 1] \o seqs[i])
      <4>1. i # 1 => i - 1 \in 1 .. n
        OBVIOUS
      <4> QED BY <2>2, <4>1
    <3> QED BY <3>1 DEF Concatenated, h
  <2> QED BY <2>3
<1> HIDE DEF P
<1>3. Len(seqs) \in P
  BY <1>1, <1>2, NatInSet
<1> QED BY <1>3 DEF P, Flattened

LEMMA FlattenSteps ==
  ASSUME NEW S, NEW seqs \in Seq(S)
  PROVE  /\ Len(seqs) = 0 => FlattenSeq(seqs) = seqs
         /\ Len(seqs) # 0 => FlattenSeq(seqs) = Flattened(seqs)[Len(seqs)]
         /\ \A i \in 1 .. Len(seqs) :
              Flattened(seqs)[i] = IF i = 1 THEN seqs[i] ELSE Flattened(seqs)[i - 1] \o seqs[i]
<1>1. /\ Len(seqs) = 0 => FlattenSeq(seqs) = seqs
      /\ Len(seqs) # 0 => FlattenSeq(seqs) = Flattened(seqs)[Len(seqs)]
  BY DEF FlattenSeq, Flattened, Concatenated
<1>2. ASSUME NEW i \in 1 .. Len(seqs)
      PROVE  Concatenated(seqs, Len(seqs), Flattened(seqs))[i]
               = IF i = 1 THEN seqs[i] ELSE Flattened(seqs)[i - 1] \o seqs[i]
  BY DEF Concatenated
<1> QED BY <1>1, <1>2, FlattenedExists

\* Appending to the sequences appends to the flattened one.
LEMMA FlattenAppend ==
  ASSUME NEW R, NEW seqs \in Seq(Seq(R)), NEW x \in Seq(R)
  PROVE  FlattenSeq(Append(seqs, x)) = FlattenSeq(seqs) \o x
<1> DEFINE more == Append(seqs, x)
           n == Len(seqs)
<1>1. /\ more \in Seq(Seq(R)) /\ Len(more) = n + 1 /\ n \in Nat
      /\ more[n + 1] = x /\ \A i \in 1 .. n : more[i] = seqs[i]
  OBVIOUS
<1> HIDE DEF more
<1>2. CASE n = 0
  <2>1. FlattenSeq(more) = x
    BY <1>1, <1>2, FlattenSteps
  <2>2. FlattenSeq(seqs) = << >>
    <3>1. FlattenSeq(seqs) = seqs
      BY <1>2, FlattenSteps
    <3> QED BY <1>2, <3>1
  <2> QED BY <2>1, <2>2 DEF more
<1>3. CASE n # 0
  <2> DEFINE P == { k \in Nat : k \in 1 .. n => Flattened(more)[k] = Flattened(seqs)[k] }
  <2>1. 0 \in P
    OBVIOUS
  <2>2. ASSUME NEW k \in Nat, k \in P PROVE k + 1 \in P
    <3> SUFFICES ASSUME k + 1 \in 1 .. n PROVE Flattened(more)[k + 1] = Flattened(seqs)[k + 1]
      OBVIOUS
    <3>1. /\ Flattened(more)[k + 1]
               = IF k + 1 = 1 THEN more[k + 1] ELSE Flattened(more)[k + 1 - 1] \o more[k + 1]
          /\ Flattened(seqs)[k + 1]
               = IF k + 1 = 1 THEN seqs[k + 1] ELSE Flattened(seqs)[k + 1 - 1] \o seqs[k + 1]
      <4>1. k + 1 \in 1 .. Len(more) /\ k + 1 \in 1 .. Len(seqs)
        BY <1>1
      <4>2. \A i \in 1 .. Len(more) :
              Flattened(more)[i] = IF i = 1 THEN more[i] ELSE Flattened(more)[i - 1] \o more[i]
        BY <1>1, FlattenSteps
      <4>3. \A i \in 1 .. Len(seqs) :
              Flattened(seqs)[i] = IF i = 1 THEN seqs[i] ELSE Flattened(seqs)[i - 1] \o seqs[i]
        BY FlattenSteps
      <4> QED BY <4>1, <4>2, <4>3
    <3>2. more[k + 1] = seqs[k + 1] /\ k + 1 - 1 = k
      BY <1>1
    <3>3. k # 0 => Flattened(more)[k] = Flattened(seqs)[k]
      BY <2>2
    <3> QED BY <3>1, <3>2, <3>3
  <2> HIDE DEF P
  <2>3. n \in P
    BY <1>1, <2>1, <2>2, NatInSet
  <2>4. Flattened(more)[n] = Flattened(seqs)[n]
    BY <1>1, <1>3, <2>3 DEF P
  <2>5. Flattened(more)[n + 1] = Flattened(more)[n] \o x
    <3>1. n + 1 \in 1 .. Len(more) /\ n + 1 # 1 /\ n + 1 - 1 = n
      BY <1>1, <1>3
    <3>2. \A i \in 1 .. Len(more) :
            Flattened(more)[i] = IF i = 1 THEN more[i] ELSE Flattened(more)[i - 1] \o more[i]
      BY <1>1, FlattenSteps
    <3>3. PICK m \in 1 .. Len(more) : m = n + 1 /\ m # 1 /\ m - 1 = n
      BY <3>1
    <3>4. Flattened(more)[m] = Flattened(more)[m - 1] \o more[m]
      BY <3>2, <3>3
    <3>5. more[m] = x
      BY <1>1, <3>3
    <3> HIDE DEF n
    <3> QED BY <3>3, <3>4, <3>5
  <2>6. FlattenSeq(seqs) = Flattened(seqs)[n]
    BY <1>3, FlattenSteps
  <2>7. FlattenSeq(more) = Flattened(more)[n + 1]
    BY <1>1, FlattenSteps
  <2> QED BY <2>4, <2>5, <2>6, <2>7 DEF more
<1> QED BY <1>2, <1>3
-----------------------------------------------------------------------------
(* What rehydrating makes of stored spans: a group to each. *)

Refilled(s) ==
  [name |-> s.name, parent |-> s.parent, start |-> s.start, end |-> s.end,
   status |-> s.status, state |-> s.state, attrs |-> Unprefixed(s.attributes, "attributes"),
   extra |-> {}]

Regrouped(s) ==
  [resource |-> Unprefixed(s.attributes, "resource"), service |-> s.service,
   spans |-> <<Refilled(s)>>]

Rewired(s) == InContext(Refilled(s), Regrouped(s))

InGroup(g) == [k \in DOMAIN g.spans |-> InContext(g.spans[k], g)]

LEMMA SingletonsFlatten ==
  ASSUME NEW a, NEW n \in Nat
  PROVE  FlattenSeq([i \in 1 .. n |-> <<a[i]>>]) = [i \in 1 .. n |-> a[i]]
<1> DEFINE R == { a[i] : i \in Nat }
           singles(k) == [i \in 1 .. k |-> <<a[i]>>]
           P == { k \in Nat : FlattenSeq(singles(k)) = [i \in 1 .. k |-> a[i]] }
<1>1. 0 \in P
  <2>1. singles(0) = << >> /\ [i \in 1 .. 0 |-> a[i]] = << >>
    OBVIOUS
  <2>2. << >> \in Seq(R) /\ Len(<< >>) = 0
    OBVIOUS
  <2>3. FlattenSeq(<< >>) = << >>
    BY <2>2, FlattenSteps
  <2> QED BY <2>1, <2>3
<1>2. ASSUME NEW k \in Nat, k \in P PROVE k + 1 \in P
  <2>1. \A i \in 1 .. k + 1 : a[i] \in R /\ <<a[i]>> \in Seq(R)
    OBVIOUS
  <2>2. singles(k) \in Seq(Seq(R)) /\ <<a[k + 1]>> \in Seq(R)
    BY <2>1
  <2>3. singles(k + 1) = Append(singles(k), <<a[k + 1]>>)
    BY <2>1
  <2>4. FlattenSeq(singles(k + 1)) = FlattenSeq(singles(k)) \o <<a[k + 1]>>
    <3> HIDE DEF singles, R
    <3> QED BY <2>2, <2>3, FlattenAppend
  <2>5. FlattenSeq(singles(k)) = [i \in 1 .. k |-> a[i]]
    BY <1>2
  <2>6. [i \in 1 .. k |-> a[i]] \o <<a[k + 1]>> = [i \in 1 .. k + 1 |-> a[i]]
    BY <2>1
  <2>7. FlattenSeq(singles(k + 1)) = [i \in 1 .. k + 1 |-> a[i]]
    <3> HIDE DEF singles
    <3> QED BY <2>4, <2>5, <2>6
  <2> QED BY <2>7
<1> HIDE DEF P
<1>3. n \in P
  BY <1>1, <1>2, NatInSet
<1> QED BY <1>3 DEF P

LEMMA RehydratedSpans ==
  ASSUME NEW spans \in Seq(Stored)
  PROVE  Spans(rehydrateTraceData(spans)) = [n \in 1 .. Len(spans) |-> Rewired(spans[n])]
<1> DEFINE a == [n \in 1 .. Len(spans) |-> Rewired(spans[n])]
           td == rehydrateTraceData(spans)
<1>1. Len(spans) \in Nat /\ DOMAIN spans = 1 .. Len(spans)
  OBVIOUS
<1>2. DOMAIN td = 1 .. Len(spans) /\ \A i \in 1 .. Len(spans) : td[i] = Regrouped(spans[i])
  BY <1>1 DEF rehydrateTraceData, Regrouped, Refilled
<1>3. [i \in DOMAIN td |-> InGroup(td[i])] = [i \in 1 .. Len(spans) |-> <<a[i]>>]
  <2>1. ASSUME NEW x PROVE InGroup(Regrouped(x)) = <<Rewired(x)>>
    <3>1. Regrouped(x).spans = <<Refilled(x)>>
      BY DEF Regrouped
    <3>2. InGroup(Regrouped(x)) = [k \in {1} |-> InContext(<<Refilled(x)>>[k], Regrouped(x))]
      BY <3>1 DEF InGroup
    <3>3. <<Refilled(x)>>[1] = Refilled(x)
      OBVIOUS
    <3>4. \A k \in {1} : InContext(<<Refilled(x)>>[k], Regrouped(x)) = Rewired(x)
      BY <3>3 DEF Rewired
    <3>5. <<Rewired(x)>> = [k \in {1} |-> Rewired(x)]
      OBVIOUS
    <3> QED BY <3>2, <3>4, <3>5
  <2>2. \A i \in 1 .. Len(spans) : InGroup(td[i]) = <<a[i]>>
    BY <1>2, <2>1
  <2> QED BY <1>2, <2>2
<1>4. FlattenSeq([i \in 1 .. Len(spans) |-> <<a[i]>>]) = [i \in 1 .. Len(spans) |-> a[i]]
  <2> HIDE DEF a
  <2> QED BY <1>1, SingletonsFlatten
<1>5. [i \in 1 .. Len(spans) |-> a[i]] = a
  OBVIOUS
<1> QED BY <1>3, <1>4, <1>5 DEF Spans, InGroup

-----------------------------------------------------------------------------
(* What is stored of a trace is what came of it. *)

\* Flattening the attributes and taking them apart again loses nothing.
LEMMA BackAgain ==
  ASSUME NEW g \in Group, NEW k \in DOMAIN g.spans, NEW key
  PROVE  LET flat == toSpan(g.spans[k], g).attributes
             r == Unprefixed(flat, "resource")
             u == Unprefixed(flat, "attributes")
         IN  /\ key \in DOMAIN r <=> key \in DOMAIN g.resource
             /\ key \in DOMAIN r => r[key] = g.resource[key]
             /\ key \in DOMAIN u <=> key \in DOMAIN g.spans[k].attrs
             /\ key \in DOMAIN u => u[key] = g.spans[k].attrs[key]
<1> DEFINE s == toSpan(g.spans[k], g)
           attrs == g.spans[k].attrs
           keys == ({"resource"} \X DOMAIN g.resource) \cup ({"attributes"} \X DOMAIN attrs)
<1>1. WellKeyed(s)
  BY FlatKeyed
<1>2. s.attributes = [f \in keys |-> IF f[1] = "resource" THEN g.resource[f[2]] ELSE attrs[f[2]]]
  BY DEF toSpan, Flat
<1>3. /\ <<"resource", key>> \in keys <=> key \in DOMAIN g.resource
      /\ <<"attributes", key>> \in keys <=> key \in DOMAIN attrs
      /\ <<"resource", key>>[1] = "resource" /\ <<"resource", key>>[2] = key
      /\ <<"attributes", key>>[1] = "attributes" /\ <<"attributes", key>>[2] = key
  OBVIOUS
<1>4. /\ <<"resource", key>> \in keys => s.attributes[<<"resource", key>>] = g.resource[key]
      /\ <<"attributes", key>> \in keys => s.attributes[<<"attributes", key>>] = attrs[key]
      /\ DOMAIN s.attributes = keys
  <2> HIDE DEF s, attrs, keys
  <2> QED BY <1>2, <1>3
<1> HIDE DEF keys
<1>5. \A prefix :
        /\ key \in DOMAIN Unprefixed(s.attributes, prefix) <=> <<prefix, key>> \in DOMAIN s.attributes
        /\ key \in DOMAIN Unprefixed(s.attributes, prefix) =>
             Unprefixed(s.attributes, prefix)[key] = s.attributes[<<prefix, key>>]
  <2> HIDE DEF s
  <2> QED BY <1>1, UnprefixedAt
<1> HIDE DEF s, attrs
<1>6. /\ key \in DOMAIN Unprefixed(s.attributes, "resource") <=> key \in DOMAIN g.resource
      /\ key \in DOMAIN Unprefixed(s.attributes, "resource") =>
           Unprefixed(s.attributes, "resource")[key] = g.resource[key]
      /\ key \in DOMAIN Unprefixed(s.attributes, "attributes") <=> key \in DOMAIN attrs
      /\ key \in DOMAIN Unprefixed(s.attributes, "attributes") =>
           Unprefixed(s.attributes, "attributes")[key] = attrs[key]
  BY <1>3, <1>4, <1>5
<1> QED BY <1>6 DEF s, attrs

Sent == UNION { { InContext(s, g) : s \in Range(g.spans) } : g \in Group }

SameSpan(s, w) ==
  /\ s.name = w.name /\ s.start = w.start /\ s.end = w.end
  /\ s.status = w.status /\ s.state = w.state

\* With its resource, all but the extra.
SameContext(s, c) == SameSpan(s, c) /\ Rewired(s) = Bare(c)

InOrder(spans, sent) ==
  /\ sent \in Seq(Sent) /\ Len(spans) = Len(sent)
  /\ \A n \in 1 .. Len(spans) : SameContext(spans[n], sent[n])

Converted(s, td, i, k) == s = toSpan(td[i].spans[k], td[i])

FaithfulTo(spans, td) ==
  /\ InOrder(spans, Spans(td))
  /\ \A n \in DOMAIN spans : \E i \in DOMAIN td : \E k \in DOMAIN td[i].spans :
       Converted(spans[n], td, i, k)
  /\ \A i \in DOMAIN td : \A k \in DOMAIN td[i].spans : \E n \in DOMAIN spans :
       Converted(spans[n], td, i, k)

FaithInv ==
  /\ received \in [TraceID -> Seq(Group)]
  /\ \A t \in TraceID : traces[t] = None => received[t] = << >>
  /\ \A t \in Known : traces[t].spans # << >> /\ FaithfulTo(traces[t].spans, received[t])

LEMMA GroupSpans ==
  ASSUME NEW g \in Group
  PROVE  /\ Len(g.spans) \in Nat \ {0} /\ DOMAIN g.spans = 1 .. Len(g.spans)
         /\ InGroup(g) \in Seq(Sent) /\ Len(InGroup(g)) = Len(g.spans)
         /\ \A k \in 1 .. Len(g.spans) : InGroup(g)[k] = InContext(g.spans[k], g)
         /\ Assemble(g) \in Seq(Stored) /\ Len(Assemble(g)) = Len(g.spans)
         /\ \A k \in 1 .. Len(g.spans) : Assemble(g)[k] = toSpan(g.spans[k], g)
<1>1. g.spans \in Seq(Range(g.spans)) /\ g.spans # << >>
  BY GroupAssumption
<1>2. \A k \in DOMAIN g.spans : InContext(g.spans[k], g) \in Sent
  BY DEF Sent, Range
<1>3. Len(g.spans) \in Nat \ {0} /\ DOMAIN g.spans = 1 .. Len(g.spans)
  BY <1>1
<1>7. /\ InGroup(g) \in Seq(Sent) /\ Len(InGroup(g)) = Len(g.spans)
      /\ \A k \in 1 .. Len(g.spans) : InGroup(g)[k] = InContext(g.spans[k], g)
  <2>1. DOMAIN InGroup(g) = 1 .. Len(g.spans)
        /\ \A k \in 1 .. Len(g.spans) : InGroup(g)[k] = InContext(g.spans[k], g)
    BY <1>3 DEF InGroup
  <2>2. InGroup(g) = [k \in 1 .. Len(g.spans) |-> InGroup(g)[k]]
    BY <1>3 DEF InGroup
  <2>3. \A k \in 1 .. Len(g.spans) : InGroup(g)[k] \in Sent
    BY <1>2, <1>3, <2>1
  <2>4. InGroup(g) \in Seq(Sent)
    BY <1>3, <2>2, <2>3
  <2>5. Len(InGroup(g)) = Len(g.spans)
    BY <1>3, <2>1, <2>4
  <2> QED BY <2>1, <2>4, <2>5
<1>4. DOMAIN Assemble(g) = 1 .. Len(g.spans)
      /\ \A k \in 1 .. Len(g.spans) : Assemble(g)[k] = toSpan(g.spans[k], g)
  BY <1>3 DEF Assemble
<1>5. Assemble(g) \in Seq(Stored)
  BY AssembleType
<1>6. Len(Assemble(g)) = Len(g.spans)
  BY <1>3, <1>4, <1>5
<1> QED BY <1>3, <1>4, <1>5, <1>6, <1>7

LEMMA SpansAppend ==
  ASSUME NEW td \in Seq(Group), NEW g \in Group
  PROVE  Spans(Append(td, g)) = Spans(td) \o InGroup(g)
<1> DEFINE bodies(d) == [i \in DOMAIN d |-> InGroup(d[i])]
<1>1. InGroup(g) \in Seq(Sent) /\ \A i \in DOMAIN td : td[i] \in Group /\ InGroup(td[i]) \in Seq(Sent)
  BY GroupSpans
<1>2. bodies(td) \in Seq(Seq(Sent))
  BY <1>1
<1>3. bodies(Append(td, g)) = Append(bodies(td), InGroup(g))
  BY <1>1
<1>4. FlattenSeq(Append(bodies(td), InGroup(g))) = FlattenSeq(bodies(td)) \o InGroup(g)
  <2> HIDE DEF bodies
  <2> QED BY <1>1, <1>2, FlattenAppend
<1> QED BY <1>3, <1>4 DEF Spans, InGroup

LEMMA NothingFaithful == FaithfulTo(<< >>, << >>)
<1>1. << >> \in Seq(Seq(Sent)) /\ Len(<< >>) = 0
  OBVIOUS
<1>2. FlattenSeq(<< >>) = << >>
  BY <1>1, FlattenSteps
<1>3. Spans(<< >>) = << >>
  BY <1>2 DEF Spans
<1>4. << >> \in Seq(Sent) /\ Len(<< >>) = 0 /\ DOMAIN << >> = {} /\ 1 .. 0 = {}
  OBVIOUS
<1>5. InOrder(<< >>, << >>)
  BY <1>4 DEF InOrder
<1> QED BY <1>3, <1>4, <1>5 DEF FaithfulTo

LEMMA ConvertedSame == \A s, g : SameSpan(toSpan(s, g), s)
  BY DEF SameSpan, toSpan

LEMMA ConvertedInContext ==
  ASSUME NEW g \in Group, NEW k \in DOMAIN g.spans
  PROVE  SameContext(toSpan(g.spans[k], g), InContext(g.spans[k], g))
<1> DEFINE w == g.spans[k]
           s == toSpan(w, g)
           r == Unprefixed(s.attributes, "resource")
           u == Unprefixed(s.attributes, "attributes")
<1>1. /\ g.resource = [x \in DOMAIN g.resource |-> g.resource[x]]
      /\ w.attrs = [x \in DOMAIN w.attrs |-> w.attrs[x]]
  BY GroupAssumption DEF Range
<1>2. \A x : /\ x \in DOMAIN r <=> x \in DOMAIN g.resource
             /\ x \in DOMAIN r => r[x] = g.resource[x]
             /\ x \in DOMAIN u <=> x \in DOMAIN w.attrs
             /\ x \in DOMAIN u => u[x] = w.attrs[x]
  BY BackAgain
<1>3. r = [x \in DOMAIN r |-> r[x]] /\ u = [x \in DOMAIN u |-> u[x]]
  BY DEF Unprefixed
<1>4. /\ s.name = w.name /\ s.parent = w.parent /\ s.start = w.start /\ s.end = w.end
      /\ s.status = w.status /\ s.state = w.state /\ s.service = g.service
  BY DEF toSpan
<1> DEFINE resource == g.resource
           attrs == w.attrs
<1> HIDE DEF r, u, s, w, resource, attrs
<1>5. r = resource
  BY <1>1, <1>2, <1>3 DEF resource
<1>6. u = attrs
  BY <1>1, <1>2, <1>3 DEF attrs
<1>7. Rewired(s) =
        [resource |-> r, service |-> s.service, name |-> s.name, parent |-> s.parent,
         start |-> s.start, end |-> s.end, status |-> s.status, state |-> s.state,
         attrs |-> u, extra |-> {}]
  BY DEF Rewired, InContext, Refilled, Regrouped, r, u
<1>8. Bare(InContext(w, g)) =
        [resource |-> resource, service |-> g.service, name |-> w.name, parent |-> w.parent,
         start |-> w.start, end |-> w.end, status |-> w.status, state |-> w.state,
         attrs |-> attrs, extra |-> {}]
  BY DEF Bare, InContext, resource, attrs
<1>9. SameSpan(s, InContext(w, g))
  BY <1>4 DEF SameSpan, InContext
<1> QED BY <1>4, <1>5, <1>6, <1>7, <1>8, <1>9 DEF SameContext, s, w

\* A group more, on both sides.
LEMMA FaithfulMore ==
  ASSUME NEW spans \in Seq(Stored), NEW td \in Seq(Group), FaithfulTo(spans, td), NEW g \in Group
  PROVE  FaithfulTo(spans \o Assemble(g), Append(td, g))
<1> DEFINE new == Assemble(g)
           more == spans \o new
           long == Append(td, g)
           n == Len(spans)
           m == Len(td)
<1>1. /\ Len(g.spans) \in Nat \ {0}
      /\ InGroup(g) \in Seq(Sent) /\ Len(InGroup(g)) = Len(g.spans)
      /\ \A k \in 1 .. Len(g.spans) : InGroup(g)[k] = InContext(g.spans[k], g)
      /\ new \in Seq(Stored) /\ Len(new) = Len(g.spans)
      /\ \A k \in 1 .. Len(g.spans) : new[k] = toSpan(g.spans[k], g)
  BY GroupSpans
<1>2. DOMAIN g.spans = 1 .. Len(g.spans)
  BY GroupSpans
<1> HIDE DEF new
<1>3. /\ n \in Nat /\ DOMAIN spans = 1 .. n
      /\ more \in Seq(Stored) /\ Len(more) = n + Len(new) /\ DOMAIN more = 1 .. n + Len(new)
      /\ \A j \in 1 .. n : more[j] = spans[j]
      /\ \A j \in n + 1 .. n + Len(new) : more[j] = new[j - n]
      /\ \A k \in 1 .. Len(new) : more[n + k] = new[k]
  <2>1. new \in Seq(Stored)
    BY <1>1
  <2>2. /\ n \in Nat /\ DOMAIN spans = 1 .. n /\ Len(new) \in Nat
        /\ more \in Seq(Stored) /\ Len(more) = n + Len(new)
        /\ \A j \in 1 .. n + Len(new) : more[j] = IF j <= n THEN spans[j] ELSE new[j - n]
    BY <2>1, ConcatProperties
  <2> HIDE DEF more, n
  <2> QED BY <2>2
<1>4. /\ m \in Nat /\ DOMAIN td = 1 .. m /\ DOMAIN long = 1 .. m + 1
      /\ \A i \in 1 .. m : long[i] = td[i]
      /\ long[m + 1] = g
  OBVIOUS
<1> DEFINE old == Spans(td)
<1>5. old \in Seq(Sent) /\ Len(old) = n /\ \A j \in 1 .. n : SameContext(spans[j], old[j])
  BY DEF FaithfulTo, InOrder
<1>6. Spans(long) = old \o InGroup(g)
  BY SpansAppend
<1> HIDE DEF old
<1>7. InOrder(more, Spans(long))
  <2> DEFINE sent == old \o InGroup(g)
  <2>1. /\ sent \in Seq(Sent) /\ Len(sent) = n + Len(g.spans)
        /\ \A j \in 1 .. n : sent[j] = old[j]
        /\ \A j \in n + 1 .. n + Len(g.spans) : sent[j] = InGroup(g)[j - n]
    <3>1. PICK body \in Seq(Sent) : body = InGroup(g) /\ Len(body) = Len(g.spans)
      BY <1>1
    <3>2. /\ old \o body \in Seq(Sent) /\ Len(old \o body) = Len(old) + Len(body)
          /\ \A j \in 1 .. Len(old) : (old \o body)[j] = old[j]
          /\ \A j \in Len(old) + 1 .. Len(old) + Len(body) : (old \o body)[j] = body[j - Len(old)]
      <4>1. old \in Seq(Sent)
        BY <1>5
      <4> HIDE DEF sent
      <4> QED BY <4>1, ConcatProperties
    <3>3. Len(old) = n
      BY <1>5
    <3> HIDE DEF n
    <3> QED BY <3>1, <3>2, <3>3
  <2>2. \A k \in 1 .. Len(g.spans) : SameContext(new[k], InGroup(g)[k])
    BY <1>1, <1>2, ConvertedInContext
  <2> HIDE DEF sent, more, n
  <2>3. ASSUME NEW j \in 1 .. Len(more) PROVE SameContext(more[j], sent[j])
    <3>1. CASE j \in 1 .. n
      BY <1>3, <1>5, <2>1, <3>1
    <3>2. CASE j \in n + 1 .. n + Len(g.spans)
      <4>1. more[j] = new[j - n] /\ sent[j] = InGroup(g)[j - n] /\ j - n \in 1 .. Len(g.spans)
        BY <1>1, <1>3, <2>1, <3>2
      <4> QED BY <2>2, <4>1
    <3> QED BY <1>1, <1>3, <3>1, <3>2
  <2>4. InOrder(more, sent)
    BY <1>1, <1>3, <2>1, <2>3 DEF InOrder
  <2> QED BY <1>6, <2>4 DEF sent
<1> HIDE DEF more, long, n, m
<1>8. ASSUME NEW j \in DOMAIN more
      PROVE  \E i \in DOMAIN long : \E k \in DOMAIN long[i].spans : Converted(more[j], long, i, k)
  <2>1. CASE j \in 1 .. n
    <3>1. PICK i \in 1 .. m : \E k \in DOMAIN td[i].spans : Converted(spans[j], td, i, k)
      BY <1>3, <1>4, <2>1 DEF FaithfulTo
    <3>2. long[i] = td[i] /\ i \in DOMAIN long /\ more[j] = spans[j]
      BY <1>3, <1>4, <2>1
    <3> QED BY <3>1, <3>2 DEF Converted
  <2>2. CASE j \in n + 1 .. n + Len(new)
    <3>1. PICK k \in 1 .. Len(g.spans) : more[j] = new[k]
      <4>1. j - n \in 1 .. Len(g.spans)
        BY <1>1, <1>3, <2>2
      <4> QED BY <1>3, <2>2, <4>1
    <3>2. more[j] = toSpan(g.spans[k], g) /\ m + 1 \in DOMAIN long
      BY <1>1, <1>4, <3>1
    <3>3. Converted(more[j], long, m + 1, k) /\ k \in DOMAIN long[m + 1].spans
      BY <1>2, <1>4, <3>1, <3>2 DEF Converted
    <3> QED BY <3>2, <3>3
  <2> QED BY <1>1, <1>3, <2>1, <2>2
<1>9. ASSUME NEW i \in DOMAIN long, NEW k \in DOMAIN long[i].spans
      PROVE  \E j \in DOMAIN more : Converted(more[j], long, i, k)
  <2>1. CASE i \in 1 .. m
    <3>1. long[i] = td[i] /\ i \in DOMAIN td
      BY <1>4, <2>1
    <3>2. PICK j \in 1 .. n : Converted(spans[j], td, i, k)
      BY <1>3, <3>1 DEF FaithfulTo
    <3>3. more[j] = spans[j] /\ j \in DOMAIN more
      BY <1>1, <1>3
    <3> QED BY <3>1, <3>2, <3>3 DEF Converted
  <2>2. CASE i = m + 1
    <3>1. long[i] = g /\ k \in 1 .. Len(g.spans)
      BY <1>2, <1>4, <2>2
    <3>2. more[n + k] = toSpan(g.spans[k], g) /\ n + k \in DOMAIN more
      BY <1>1, <1>3, <3>1
    <3> QED BY <3>1, <3>2 DEF Converted
  <2> QED BY <1>4, <2>1, <2>2
<1>10. FaithfulTo(more, long)
  BY <1>7, <1>8, <1>9 DEF FaithfulTo
<1> QED BY <1>10 DEF more, long, new

LEMMA ReceiveFaithful ==
  ASSUME EvalInv, FaithInv, NEW t \in TraceID, NEW g \in Group, Receive(t, g)
  PROVE  FaithInv'
<1> DEFINE spans == IF traces[t] = None THEN << >> ELSE traces[t].spans
           td == received[t]
           x == IF traces[t] = None THEN Begun(g) ELSE Continued(traces[t], g)
<1>1. received' = [received EXCEPT ![t] = Append(td, g)] /\ traces' = [traces EXCEPT ![t] = x]
  BY DEF Receive
<1>2. \A u \in Known : traces[u] \in TraceRecord
  BY DEF Known, EvalInv, TypedState
<1>3. td \in Seq(Group)
  BY DEF FaithInv
<1>4. spans \in Seq(Stored) /\ FaithfulTo(spans, td)
  <2>1. CASE traces[t] = None
    BY <2>1, NothingFaithful DEF FaithInv
  <2>2. CASE traces[t] # None
    BY <1>2, <2>2 DEF FaithInv, Known, TraceRecord
  <2> QED BY <2>1, <2>2
<1>5. x \in TraceRecord /\ x.spans = spans \o Assemble(g)
  <2>1. CASE traces[t] = None
    <3>1. Assemble(g) \in Seq(Stored)
      BY AssembleType
    <3>2. x = Begun(g) /\ spans = << >>
      BY <2>1
    <3>3. x.spans = Assemble(g) /\ x \in TraceRecord
      BY <3>2, BegunType DEF Begun
    <3> HIDE DEF x, spans
    <3> QED BY <3>1, <3>2, <3>3
  <2>2. CASE traces[t] # None
    <3>1. traces[t] \in TraceRecord
      BY <1>2, <2>2 DEF Known
    <3>2. x = Continued(traces[t], g) /\ x \in TraceRecord /\ x.spans = traces[t].spans \o Assemble(g)
      BY <2>2, <3>1, ContinuedGrows DEF Grown, Continued, TraceRecord
    <3> QED BY <2>2, <3>2
  <2> QED BY <2>1, <2>2
<1>6. x.spans # << >> /\ FaithfulTo(x.spans, Append(td, g))
  <2>1. FaithfulTo(spans \o Assemble(g), Append(td, g))
    <3> HIDE DEF spans, td
    <3> QED BY <1>3, <1>4, FaithfulMore
  <2>2. Len(Assemble(g)) # 0 /\ Assemble(g) \in Seq(Stored)
    BY GroupSpans
  <2>3. PICK new \in Seq(Stored) : new = Assemble(g) /\ Len(new) # 0
    BY <2>2
  <2>4. spans \o new # << >>
    <3> HIDE DEF spans
    <3> QED BY <1>4, <2>3
  <2> HIDE DEF x, spans, td
  <2> QED BY <1>5, <2>1, <2>3, <2>4
<1>7. x # None
  BY <1>5, EvalAssumption
<1> HIDE DEF x, td
<1>8. received \in [TraceID -> Seq(Group)] /\ traces \in [TraceID -> TraceRecord \cup {None}]
  BY DEF FaithInv, EvalInv, TypedState
<1>9. /\ received'[t] = Append(td, g) /\ traces'[t] = x
      /\ \A u \in TraceID \ {t} : received'[u] = received[u] /\ traces'[u] = traces[u]
  BY <1>1, <1>8
<1>10. received' \in [TraceID -> Seq(Group)]
  BY <1>1, <1>3, <1>8
<1>11. ASSUME NEW u \in TraceID, traces'[u] = None PROVE received'[u] = << >>
  BY <1>7, <1>9, <1>11 DEF FaithInv
<1>12. ASSUME NEW u \in TraceID, traces'[u] # None
       PROVE  traces'[u].spans # << >> /\ FaithfulTo(traces'[u].spans, received'[u])
  <2>1. CASE u = t
    BY <1>6, <1>9, <2>1
  <2>2. CASE u # t
    <3>1. u \in Known
      BY <1>9, <1>12, <2>2 DEF Known
    <3> QED BY <1>9, <2>2, <3>1 DEF FaithInv
  <2> QED BY <2>1, <2>2
<1> QED BY <1>10, <1>11, <1>12 DEF FaithInv, Known

\* Nobody else touches what came or the spans that are stored.
LEMMA SpansStay ==
  ASSUME EvalInv, [Next]_vars, ~ \E t \in TraceID, g \in Group : Receive(t, g)
  PROVE  /\ received' = received
         /\ \A u \in TraceID : /\ traces'[u] = None <=> traces[u] = None
                               /\ traces[u] # None => traces'[u].spans = traces[u].spans
<1> DEFINE Goal ==
             \A u \in TraceID : /\ traces'[u] = None <=> traces[u] = None
                                /\ traces[u] # None => traces'[u].spans = traces[u].spans
<1>1. \A u \in TraceID : traces[u] # None =>
                          traces[u] \in TraceRecord /\ traces'[u] \in TraceRecord
  BY StoreGrows DEF EvalInv, TypedState, Known, Grown
<1>2. ASSUME traces' = traces PROVE Goal
  BY <1>2
<1>3. ASSUME Sweep PROVE Goal
  <2>1. PICK due \in SUBSET Known :
          traces' = [t \in TraceID |->
                       IF t \in due THEN [traces[t] EXCEPT !.state = "READY"] ELSE traces[t]]
    BY <1>3 DEF Sweep
  <2>2. \A u \in Known : [traces[u] EXCEPT !.state = "READY"].spans = traces[u].spans
    BY <1>1, ReadyType DEF Known
  <2> QED BY <1>1, <2>1, <2>2, EvalAssumption DEF Known
<1>4. ASSUME NEW w \in Worker, Concluding(w), NEW r, r = traces[Subject(w).id],
             NEW x, x.spans = r.spans, traces' = [traces EXCEPT ![Subject(w).id] = x]
      PROVE  Goal
  <2> DEFINE id == Subject(w).id
  <2>1. id \in TraceID /\ traces[id] \in TraceRecord
    BY <1>4, SubjectHeld DEF Concluding
  <2>2. \A u \in TraceID : traces'[u] = IF u = id THEN x ELSE traces[u]
    BY <1>4, <2>1 DEF EvalInv, TypedState
  <2>3. traces[id] # None /\ traces'[id] # None
    BY <1>1, <2>1, EvalAssumption
  <2> HIDE DEF id
  <2> QED BY <1>4, <2>2, <2>3 DEF id
<1>5. ASSUME Decide PROVE Goal
  <2>1. Ticker \in Worker /\ Concluding(Ticker)
    BY <1>5 DEF Decide, Worker
  <2> DEFINE r == traces[Subject(Ticker).id]
             x == [r EXCEPT !.keep = Kept(Ticker), !.state = "DECIDED", !.by = Judge(Ticker),
                            !.judged = Len(Subject(Ticker).trace.spans)]
  <2>2. traces' = [traces EXCEPT ![Subject(Ticker).id] = x]
    BY <1>5 DEF Decide
  <2>3. r \in TraceRecord
    BY <2>1, SubjectHeld DEF Concluding
  <2>4. x.spans = r.spans
    <3> HIDE DEF r
    <3> QED BY <2>3 DEF TraceRecord
  <2> HIDE DEF x, Goal
  <2> QED BY <1>4, <2>1, <2>2, <2>4
<1>6. ASSUME ReDecide PROVE Goal
  <2>1. Updater \in Worker /\ Concluding(Updater)
    BY <1>6 DEF ReDecide, Worker
  <2> DEFINE r == traces[Subject(Updater).id]
             x == [r EXCEPT !.keep = Kept(Updater), !.by = Judge(Updater),
                            !.judged = Len(Subject(Updater).trace.spans)]
  <2>2. traces' = [traces EXCEPT ![Subject(Updater).id] = x]
    BY <1>6 DEF ReDecide
  <2>3. r \in TraceRecord
    BY <2>1, SubjectHeld DEF Concluding
  <2>4. x.spans = r.spans
    <3> HIDE DEF r
    <3> QED BY <2>3 DEF TraceRecord
  <2> HIDE DEF x, Goal
  <2> QED BY <1>4, <2>1, <2>2, <2>4
<1>7. traces' = traces \/ Sweep \/ Decide \/ ReDecide
  BY DEF Next, vars, Second, SetPolicy, ForEachMutate, ComparePolicy, Evaluate,
         EnterMatcher, Filter, Limit, Fail, Diff, Finish
<1>8. received' = received
  BY DEF Next, vars, Second, Sweep, SetPolicy, ForEachMutate, ComparePolicy, Evaluate,
         EnterMatcher, Filter, Limit, Fail, Diff, Finish, Decide, ReDecide
<1> QED BY <1>2, <1>3, <1>5, <1>6, <1>7, <1>8

LEMMA FaithStep == EvalInv /\ FaithInv /\ [Next]_vars => FaithInv'
<1> SUFFICES ASSUME EvalInv, FaithInv, [Next]_vars PROVE FaithInv'
  OBVIOUS
<1>1. CASE \E t \in TraceID, g \in Group : Receive(t, g)
  BY <1>1, ReceiveFaithful
<1>2. CASE ~ \E t \in TraceID, g \in Group : Receive(t, g)
  BY <1>2, SpansStay DEF FaithInv, Known
<1> QED BY <1>1, <1>2

LEMMA FaithInit == Init => FaithInv
  BY DEF Init, FaithInv, Known

LEMMA FaithThroughout == Spec => [](EvalInv /\ FaithInv)
  BY EvalInit, EvalStep, FaithInit, FaithStep, PTL DEF Spec
-----------------------------------------------------------------------------
(* The latency callback's running times. *)

Later(t, s) ==
  [min |-> IF t.min = 0 \/ s.start < t.min THEN s.start ELSE t.min,
   max |-> IF t.max = 0 \/ s.end > t.max THEN s.end ELSE t.max]
NoTimes == [min |-> 0, max |-> 0]
Timed(spans, n, f) == [k \in 0 .. n |-> IF k = 0 THEN NoTimes ELSE Later(f[k - 1], spans[k])]

LEMMA RunningSteps ==
  ASSUME NEW S, NEW spans \in Seq(S)
  PROVE  /\ Running(spans)[0] = NoTimes
         /\ \A k \in 1 .. Len(spans) : Running(spans)[k] = Later(Running(spans)[k - 1], spans[k])
<1> DEFINE P == { n \in Nat : \E f : f = Timed(spans, n, f) }
<1>1. 0 \in P
  <2> DEFINE f == [k \in 0 .. 0 |-> NoTimes]
  <2>1. f = Timed(spans, 0, f)
    BY DEF Timed
  <2> QED BY <2>1
<1>2. ASSUME NEW n \in Nat, n \in P PROVE n + 1 \in P
  <2>1. PICK f : f = Timed(spans, n, f)
    BY <1>2
  <2> DEFINE h == Timed(spans, n + 1, f)
  <2>2. ASSUME NEW k \in 0 .. n PROVE h[k] = f[k]
    <3>1. h[k] = IF k = 0 THEN NoTimes ELSE Later(f[k - 1], spans[k])
      BY DEF Timed
    <3>2. Timed(spans, n, f)[k] = IF k = 0 THEN NoTimes ELSE Later(f[k - 1], spans[k])
      BY DEF Timed
    <3> QED BY <2>1, <3>1, <3>2
  <2>3. h = Timed(spans, n + 1, h)
    <3> HIDE DEF h
    <3>1. ASSUME NEW k \in 0 .. n + 1
          PROVE  (IF k = 0 THEN NoTimes ELSE Later(f[k - 1], spans[k]))
                   = (IF k = 0 THEN NoTimes ELSE Later(h[k - 1], spans[k]))
      <4>1. k # 0 => k - 1 \in 0 .. n
        OBVIOUS
      <4>2. k # 0 => h[k - 1] = f[k - 1]
        BY <2>2, <4>1
      <4> QED BY <4>2
    <3> QED BY <3>1 DEF Timed, h
  <2> QED BY <2>3
<1> HIDE DEF P
<1>3. Len(spans) \in P
  BY <1>1, <1>2, NatInSet
<1>4. Running(spans) = Timed(spans, Len(spans), Running(spans))
  <2>1. Running(spans) = CHOOSE f : f = Timed(spans, Len(spans), f)
    BY DEF Running, Timed, Later, NoTimes
  <2> QED BY <1>3, <2>1 DEF P
<1>5. ASSUME NEW k \in 0 .. Len(spans)
      PROVE  Timed(spans, Len(spans), Running(spans))[k]
               = IF k = 0 THEN NoTimes ELSE Later(Running(spans)[k - 1], spans[k])
  BY DEF Timed
<1> QED BY <1>4, <1>5

\* They depend on the spans' times only.
LEMMA RunningAgrees ==
  ASSUME NEW S, NEW a \in Seq(S), NEW b \in Seq(S), Len(a) = Len(b),
         \A k \in 1 .. Len(a) : a[k].start = b[k].start /\ a[k].end = b[k].end
  PROVE  \A k \in 0 .. Len(a) : Running(a)[k] = Running(b)[k]
<1> DEFINE P == { n \in Nat : n \in 0 .. Len(a) => Running(a)[n] = Running(b)[n] }
<1>1. 0 \in P
  BY RunningSteps
<1>2. ASSUME NEW n \in Nat, n \in P PROVE n + 1 \in P
  <2> SUFFICES ASSUME n + 1 \in 0 .. Len(a) PROVE Running(a)[n + 1] = Running(b)[n + 1]
    OBVIOUS
  <2>1. PICK k \in 1 .. Len(a) : k = n + 1 /\ k - 1 = n
    OBVIOUS
  <2>2. /\ Running(a)[k] = Later(Running(a)[k - 1], a[k])
        /\ Running(b)[k] = Later(Running(b)[k - 1], b[k])
    BY <2>1, RunningSteps
  <2>3. Running(a)[n] = Running(b)[n]
    BY <1>2, <2>1
  <2>4. Later(Running(a)[n], a[k]) = Later(Running(b)[n], b[k])
    BY <2>1, <2>3 DEF Later
  <2> QED BY <2>1, <2>2, <2>4
<1> HIDE DEF P
<1>3. Nat \subseteq P
  BY <1>1, <1>2, NatInSet
<1> QED BY <1>3 DEF P

-----------------------------------------------------------------------------
(* What each policy type concludes, before and after. *)

LEMMA Aligned ==
  ASSUME NEW spans \in Seq(Stored), NEW td, FaithfulTo(spans, td)
  PROVE  LET a == Spans(rehydrateTraceData(spans))
             b == Spans(td)
         IN  /\ a \in Seq(Range(a) \cup Sent) /\ b \in Seq(Range(a) \cup Sent)
             /\ Len(a) = Len(spans) /\ Len(b) = Len(spans)
             /\ \A n \in 1 .. Len(spans) :
                  /\ SameSpan(spans[n], a[n]) /\ SameSpan(spans[n], b[n])
                  /\ b[n] \in Sent /\ a[n] = Bare(b[n])
<1> DEFINE a == [n \in 1 .. Len(spans) |-> Rewired(spans[n])]
           b == Spans(td)
<1>1. Spans(rehydrateTraceData(spans)) = a
  BY RehydratedSpans
<1>2. b \in Seq(Sent) /\ Len(b) = Len(spans) /\ \A n \in 1 .. Len(spans) : SameContext(spans[n], b[n])
  BY DEF FaithfulTo, InOrder
<1>3. \A n \in 1 .. Len(spans) : SameSpan(spans[n], a[n])
  BY DEF SameSpan, Rewired, InContext, Refilled
<1>6. \A n \in 1 .. Len(spans) :
        SameSpan(spans[n], b[n]) /\ b[n] \in Sent /\ a[n] = Bare(b[n])
  BY <1>2 DEF SameContext
<1>4. a \in Seq(Range(a)) /\ Len(a) = Len(spans)
  <2>1. Len(spans) \in Nat
    OBVIOUS
  <2>2. DOMAIN a = 1 .. Len(spans) /\ \A n \in 1 .. Len(spans) : a[n] \in Range(a)
    BY DEF Range
  <2>3. a = [n \in 1 .. Len(spans) |-> a[n]]
    OBVIOUS
  <2> HIDE DEF a
  <2> QED BY <2>1, <2>2, <2>3
<1> HIDE DEF a, b
<1>5. a \in Seq(Range(a) \cup Sent) /\ b \in Seq(Range(a) \cup Sent)
  BY <1>2, <1>4
<1> QED BY <1>1, <1>2, <1>3, <1>4, <1>5, <1>6 DEF b

LEMMA SameLatency ==
  ASSUME NEW p, NEW spans \in Seq(Stored), NEW td, FaithfulTo(spans, td)
  PROVE  latency(p, rehydrateTraceData(spans)) <=> latency(p, td)
<1> DEFINE a == Spans(rehydrateTraceData(spans))
           b == Spans(td)
<1>1. /\ a \in Seq(Range(a) \cup Sent) /\ b \in Seq(Range(a) \cup Sent) /\ Len(a) = Len(b)
      /\ \A n \in 1 .. Len(a) : a[n].start = b[n].start /\ a[n].end = b[n].end
  BY Aligned DEF SameSpan
<1> HIDE DEF a, b
<1>2. \A n \in 0 .. Len(a) : Running(a)[n] = Running(b)[n]
  BY <1>1, RunningAgrees
<1>3. DOMAIN a = 1 .. Len(a) /\ DOMAIN b = 1 .. Len(a)
  BY <1>1
<1>4. \A n \in 1 .. Len(a) : Running(a)[n] = Running(b)[n]
  BY <1>1, <1>2
<1> QED BY <1>3, <1>4 DEF latency, a, b

\* Every span of one form has a counterpart in the store, and conversely.
Covers(td, spans) ==
  /\ \A s \in EverySpan(td) : \E n \in DOMAIN spans : SameSpan(spans[n], s)
  /\ \A n \in DOMAIN spans : \E s \in EverySpan(td) : SameSpan(spans[n], s)

LEMMA RehydratedCovers ==
  ASSUME NEW spans \in Seq(Stored)
  PROVE  Covers(rehydrateTraceData(spans), spans)
<1> DEFINE td == rehydrateTraceData(spans)
<1>1. DOMAIN td = DOMAIN spans
  BY DEF rehydrateTraceData
<1>2. \A n \in DOMAIN spans : td[n].spans = <<Refilled(spans[n])>>
  BY DEF rehydrateTraceData, Refilled
<1> HIDE DEF td
<1>3. \A n \in DOMAIN spans : Range(td[n].spans) = {Refilled(spans[n])}
  BY <1>2 DEF Range
<1>4. \A n \in DOMAIN spans : SameSpan(spans[n], Refilled(spans[n]))
  BY DEF SameSpan, Refilled
<1>5. \A s \in EverySpan(td) : \E n \in DOMAIN spans : s = Refilled(spans[n])
  BY <1>1, <1>3 DEF EverySpan
<1>6. \A n \in DOMAIN spans : Refilled(spans[n]) \in EverySpan(td)
  BY <1>1, <1>3 DEF EverySpan
<1>7. Covers(td, spans)
  BY <1>4, <1>5, <1>6 DEF Covers
<1> QED BY <1>7 DEF td

LEMMA SentCovers ==
  ASSUME NEW spans, NEW td, FaithfulTo(spans, td)
  PROVE  Covers(td, spans)
<1>1. ASSUME NEW s \in EverySpan(td) PROVE \E n \in DOMAIN spans : SameSpan(spans[n], s)
  <2>1. PICK i \in DOMAIN td : s \in Range(td[i].spans)
    BY DEF EverySpan
  <2>2. PICK k \in DOMAIN td[i].spans : s = td[i].spans[k]
    BY <2>1 DEF Range
  <2>3. PICK n \in DOMAIN spans : Converted(spans[n], td, i, k)
    BY DEF FaithfulTo
  <2> QED BY <2>2, <2>3, ConvertedSame DEF Converted
<1>2. ASSUME NEW n \in DOMAIN spans PROVE \E s \in EverySpan(td) : SameSpan(spans[n], s)
  <2>1. PICK i \in DOMAIN td : \E k \in DOMAIN td[i].spans : Converted(spans[n], td, i, k)
    BY DEF FaithfulTo
  <2>2. PICK k \in DOMAIN td[i].spans : Converted(spans[n], td, i, k)
    BY <2>1
  <2>3. td[i].spans[k] \in Range(td[i].spans)
    BY DEF Range
  <2>4. td[i].spans[k] \in EverySpan(td)
    BY <2>3 DEF EverySpan
  <2> QED BY <2>2, <2>4, ConvertedSame DEF Converted
<1> QED BY <1>1, <1>2 DEF Covers

LEMMA CoveredAlike ==
  ASSUME NEW spans, NEW a, Covers(a, spans), NEW b, Covers(b, spans), NEW p
  PROVE  /\ statusCode(p, a) <=> statusCode(p, b)
         /\ traceState(p, a) <=> traceState(p, b)
<1>1. ASSUME NEW c, NEW d, Covers(c, spans), Covers(d, spans), NEW s \in EverySpan(c)
      PROVE  \E r \in EverySpan(d) : r.status = s.status /\ r.state = s.state
  BY <1>1 DEF Covers, SameSpan
<1>2. statusCode(p, a) <=> statusCode(p, b)
  BY <1>1 DEF statusCode
<1>3. traceState(p, a) <=> traceState(p, b)
  <2> DEFINE V == p.values \ {""}
  <2>1. \A c : traceState(p, c) <=> \E s \in EverySpan(c) : s.state \in V
    BY DEF traceState
  <2> HIDE DEF V
  <2> QED BY <1>1, <2>1
<1> QED BY <1>2, <1>3

LEMMA LeastIn ==
  ASSUME NEW T, T \subseteq Nat, T # {}
  PROVE  Min(T) \in T /\ \A y \in T : Min(T) <= y
  BY LeastNat DEF Min

LEMMA SameOttl ==
  ASSUME NEW p, p.type = "ottl_condition", ReadsKept(p),
         NEW spans \in Seq(Stored), NEW td, FaithfulTo(spans, td)
  PROVE  ottl(p, rehydrateTraceData(spans)) = ottl(p, td)
<1> DEFINE a == Spans(rehydrateTraceData(spans))
           b == Spans(td)
<1>1. /\ a \in Seq(Range(a) \cup Sent) /\ b \in Seq(Range(a) \cup Sent) /\ Len(a) = Len(b)
      /\ \A n \in 1 .. Len(a) : b[n] \in Sent /\ a[n] = Bare(b[n])
  <2>1. /\ a \in Seq(Range(a) \cup Sent) /\ b \in Seq(Range(a) \cup Sent)
        /\ Len(a) = Len(spans) /\ Len(b) = Len(spans)
        /\ \A n \in 1 .. Len(spans) : b[n] \in Sent /\ a[n] = Bare(b[n])
    BY Aligned
  <2> HIDE DEF a, b
  <2> QED BY <2>1
<1> DEFINE back == rehydrateTraceData(spans)
<1> HIDE DEF a, b
<1>2. DOMAIN a = 1 .. Len(a) /\ DOMAIN b = 1 .. Len(a) /\ Len(a) \in Nat
  BY <1>1
<1>3. \A c \in Sent : /\ c \in p.holds <=> Bare(c) \in p.holds
                      /\ c \in p.fails <=> Bare(c) \in p.fails
  BY DEF ReadsKept, Sent
<1> DEFINE wanted == p.holds \cup (IF p.propagate THEN p.fails ELSE {})
<1>4. \A n \in 1 .. Len(a) : /\ a[n] \in p.holds <=> b[n] \in p.holds
                             /\ a[n] \in wanted <=> b[n] \in wanted
  BY <1>1, <1>3
<1>5. /\ ottlDecisive(p, back) = { n \in 1 .. Len(a) : a[n] \in wanted }
      /\ ottlDecisive(p, td) = { n \in 1 .. Len(a) : b[n] \in wanted }
  BY <1>2 DEF ottlDecisive, a, b
<1>6. ottlDecisive(p, back) = ottlDecisive(p, td)
  <2> HIDE DEF wanted
  <2> QED BY <1>4, <1>5
<1> DEFINE D == ottlDecisive(p, td)
<1>7. D \subseteq 1 .. Len(a) /\ D \subseteq Nat
  BY <1>2, <1>5
<1>8. D # {} => (a[Min(D)] \in p.holds <=> b[Min(D)] \in p.holds)
  <2> HIDE DEF D
  <2> QED BY <1>4, <1>7, LeastIn
<1> HIDE DEF D
<1>9. ottl(p, back) = IF D = {} THEN "NotSampled"
                      ELSE IF a[Min(D)] \in p.holds THEN "Sampled" ELSE "Error"
  BY <1>6 DEF ottl, D, a
<1>10. ottl(p, td) = IF D = {} THEN "NotSampled"
                     ELSE IF b[Min(D)] \in p.holds THEN "Sampled" ELSE "Error"
  BY DEF ottl, D, b
<1>11. ottl(p, back) = ottl(p, td)
  BY <1>8, <1>9, <1>10
<1> QED BY <1>11

LEMMA SameSpanCount ==
  ASSUME NEW p, NEW spans \in Seq(Stored), NEW td, FaithfulTo(spans, td)
  PROVE  spanCount(p, rehydrateTraceData(spans)) <=> spanCount(p, td)
<1>1. Len(Spans(rehydrateTraceData(spans))) = Len(Spans(td))
  BY Aligned
<1> QED BY <1>1 DEF spanCount

LEMMA MatchesBackAgain ==
  ASSUME NEW p, NEW g \in Group, NEW k \in DOMAIN g.spans
  PROVE  LET flat == toSpan(g.spans[k], g).attributes
         IN  /\ ResourceMatches(p, Unprefixed(flat, "resource")) <=> ResourceMatches(p, g.resource)
             /\ SpanMatches(p, Unprefixed(flat, "attributes")) <=> SpanMatches(p, g.spans[k].attrs)
<1> DEFINE flat == toSpan(g.spans[k], g).attributes
           r == Unprefixed(flat, "resource")
           u == Unprefixed(flat, "attributes")
           attrs == g.spans[k].attrs
           key == p.key
<1>1. /\ key \in DOMAIN r <=> key \in DOMAIN g.resource
      /\ key \in DOMAIN r => r[key] = g.resource[key]
      /\ key \in DOMAIN u <=> key \in DOMAIN attrs
      /\ key \in DOMAIN u => u[key] = attrs[key]
  <2> HIDE DEF key
  <2> QED BY BackAgain
<1> HIDE DEF r, u, attrs
<1>2. ResourceMatches(p, r) <=> ResourceMatches(p, g.resource)
  BY <1>1 DEF ResourceMatches
<1>3. SpanMatches(p, u) <=> SpanMatches(p, attrs)
  <2>1. ASSUME NEW x, NEW v, x = v
        PROVE  /\ Matches(p, x) <=> Matches(p, v)
               /\ As("str", x) = As("str", v)
    BY <2>1
  <2>2. /\ SpanMatches(p, u) <=> /\ key \in DOMAIN u /\ Matches(p, u[key])
                                 /\ p.type = "string_attribute" => As("str", u[key]) # ""
        /\ SpanMatches(p, attrs) <=> /\ key \in DOMAIN attrs /\ Matches(p, attrs[key])
                                     /\ p.type = "string_attribute" => As("str", attrs[key]) # ""
    BY DEF SpanMatches
  <2> HIDE DEF key
  <2>3. CASE key \in DOMAIN u
    <3>1. u[key] = attrs[key] /\ key \in DOMAIN attrs
      BY <1>1, <2>3
    <3> QED BY <2>2, <2>3, <3>1
  <2>4. CASE key \notin DOMAIN u
    BY <1>1, <2>2, <2>4
  <2> QED BY <2>3, <2>4
<1> QED BY <1>2, <1>3 DEF r, u, attrs

LEMMA SameFilter ==
  ASSUME NEW p, NEW spans \in Seq(Stored), NEW td \in Seq(Group), FaithfulTo(spans, td)
  PROVE  attributeFilter(p, rehydrateTraceData(spans)) <=> attributeFilter(p, td)
<1> DEFINE back == rehydrateTraceData(spans)
           onResource(n) == ResourceMatches(p, Unprefixed(spans[n].attributes, "resource"))
           onSpan(n) == SpanMatches(p, Unprefixed(spans[n].attributes, "attributes"))
<1>1. DOMAIN back = DOMAIN spans
  BY DEF rehydrateTraceData
<1>2. ASSUME NEW n \in DOMAIN spans
      PROVE  /\ ResourceMatches(p, back[n].resource) <=> onResource(n)
             /\ \A s \in Range(back[n].spans) : SpanMatches(p, s.attrs) <=> onSpan(n)
             /\ Range(back[n].spans) # {}
  <2>1. back[n].resource = Unprefixed(spans[n].attributes, "resource")
    BY DEF rehydrateTraceData
  <2>2. PICK r : back[n].spans = <<r>> /\ r.attrs = Unprefixed(spans[n].attributes, "attributes")
    BY DEF rehydrateTraceData
  <2>3. Range(back[n].spans) = {r}
    BY <2>2 DEF Range
  <2> HIDE DEF back
  <2> QED BY <2>1, <2>2, <2>3
<1>3. ASSUME NEW n \in DOMAIN spans, NEW i \in DOMAIN td, NEW k \in DOMAIN td[i].spans,
             Converted(spans[n], td, i, k)
      PROVE  /\ onResource(n) <=> ResourceMatches(p, td[i].resource)
             /\ onSpan(n) <=> SpanMatches(p, td[i].spans[k].attrs)
  <2>1. td[i] \in Group
    OBVIOUS
  <2> QED BY <1>3, <2>1, MatchesBackAgain DEF Converted
<1>4. \A i \in DOMAIN td : 1 \in DOMAIN td[i].spans
  <2>1. \A i \in DOMAIN td : td[i] \in Group
    OBVIOUS
  <2> QED BY <2>1, GroupSpans
<1>5. \A i \in DOMAIN td : \A s \in Range(td[i].spans) : \E k \in DOMAIN td[i].spans : s = td[i].spans[k]
  BY DEF Range
<1>6. \A i \in DOMAIN td : \A k \in DOMAIN td[i].spans : td[i].spans[k] \in Range(td[i].spans)
  BY DEF Range
<1>7. /\ \A n \in DOMAIN spans : \E i \in DOMAIN td : \E k \in DOMAIN td[i].spans :
           Converted(spans[n], td, i, k)
      /\ \A i \in DOMAIN td : \A k \in DOMAIN td[i].spans : \E n \in DOMAIN spans :
           Converted(spans[n], td, i, k)
  BY DEF FaithfulTo
<1> DEFINE anyhow == \E n \in DOMAIN spans : onResource(n) \/ onSpan(n)
<1> HIDE DEF back, onResource, onSpan
<1>8. HasResourceOrSpan(p, back) <=> anyhow
  BY <1>1, <1>2 DEF HasResourceOrSpan
<1>9. InvertHasResourceOrSpan(p, back) <=> ~ anyhow
  BY <1>1, <1>2 DEF InvertHasResourceOrSpan
<1>10. HasResourceOrSpan(p, td) <=> anyhow
  <2>1. ASSUME NEW n \in DOMAIN spans, onResource(n) \/ onSpan(n) PROVE HasResourceOrSpan(p, td)
    <3>1. PICK i \in DOMAIN td : \E k \in DOMAIN td[i].spans : Converted(spans[n], td, i, k)
      BY <1>7
    <3>2. PICK k \in DOMAIN td[i].spans : Converted(spans[n], td, i, k)
      BY <3>1
    <3> QED BY <1>3, <1>6, <2>1, <3>2 DEF HasResourceOrSpan
  <2>2. ASSUME NEW i \in DOMAIN td, ResourceMatches(p, td[i].resource) PROVE anyhow
    <3>1. PICK n \in DOMAIN spans : Converted(spans[n], td, i, 1)
      BY <1>4, <1>7
    <3> QED BY <1>3, <1>4, <2>2, <3>1
  <2>3. ASSUME NEW i \in DOMAIN td, NEW s \in Range(td[i].spans), SpanMatches(p, s.attrs)
        PROVE  anyhow
    <3>1. PICK k \in DOMAIN td[i].spans : s = td[i].spans[k]
      BY <1>5
    <3>2. PICK n \in DOMAIN spans : Converted(spans[n], td, i, k)
      BY <1>7
    <3> QED BY <1>3, <2>3, <3>1, <3>2
  <2> HIDE DEF anyhow
  <2>4. HasResourceOrSpan(p, td) => anyhow
    BY <2>2, <2>3 DEF HasResourceOrSpan
  <2>5. anyhow => HasResourceOrSpan(p, td)
    BY <2>1 DEF anyhow
  <2> QED BY <2>4, <2>5
<1>11. InvertHasResourceOrSpan(p, td) <=> ~ HasResourceOrSpan(p, td)
  BY DEF InvertHasResourceOrSpan, HasResourceOrSpan
<1>12. attributeFilter(p, back) <=> attributeFilter(p, td)
  <2> HIDE DEF anyhow
  <2> QED BY <1>8, <1>9, <1>10, <1>11 DEF attributeFilter
<1> QED BY <1>12 DEF back

LEMMA SameOutcome ==
  ASSUME NEW p, p.type \in Stateless, ReadsKept(p), NEW id,
         NEW spans \in Seq(Stored), NEW td \in Seq(Group), FaithfulTo(spans, td)
  PROVE  Outcome(p, rehydrateTraceData(spans), id) = Outcome(p, td, id)
<1> DEFINE back == rehydrateTraceData(spans)
<1>1. /\ latency(p, back) <=> latency(p, td)
      /\ attributeFilter(p, back) <=> attributeFilter(p, td)
      /\ spanCount(p, back) <=> spanCount(p, td)
      /\ p.type = "ottl_condition" => ottl(p, back) = ottl(p, td)
  BY SameLatency, SameFilter, SameSpanCount, SameOttl
<1>2. statusCode(p, back) <=> statusCode(p, td)
  BY RehydratedCovers, SentCovers, CoveredAlike
<1>3. traceState(p, back) <=> traceState(p, td)
  BY RehydratedCovers, SentCovers, CoveredAlike
<1> HIDE DEF back
<1>4. CASE p.type = "always_sample"
  BY <1>4 DEF Outcome
<1>5. CASE p.type = "latency"
  BY <1>1, <1>5 DEF Outcome, Decision, AttributeTypes
<1>6. CASE p.type = "status_code"
  BY <1>2, <1>6 DEF Outcome, Decision, AttributeTypes
<1>7. CASE p.type \in AttributeTypes
  BY <1>1, <1>7 DEF Outcome, Decision, AttributeTypes
<1>8. CASE p.type = "span_count"
  BY <1>1, <1>8 DEF Outcome, Decision, AttributeTypes
<1>9. CASE p.type = "trace_state"
  BY <1>3, <1>9 DEF Outcome, Decision, AttributeTypes
<1>10. CASE p.type = "probabilistic"
  BY <1>10 DEF Outcome, Decision, AttributeTypes
<1>11. CASE p.type = "ottl_condition"
  BY <1>1, <1>11 DEF Outcome, AttributeTypes
<1> QED BY <1>4, <1>5, <1>6, <1>7, <1>8, <1>9, <1>10, <1>11 DEF Stateless, back

LEMMA KnownContents ==
  ASSUME EvalInv, FaithInv, NEW t \in Known
  PROVE  /\ traces[t].spans \in Seq(Stored) /\ traces[t].spans # << >>
         /\ received[t] \in Seq(Group) /\ FaithfulTo(traces[t].spans, received[t])
<1>1. t \in TraceID /\ traces[t] \in TraceRecord
  BY DEF Known, EvalInv, TypedState
<1> QED BY <1>1 DEF TraceRecord, FaithInv

\* Every policy without a memory that reads nothing of what the server leaves
\* behind concludes from a stored trace, flattened and rehydrated with a resource
\* to every span, exactly what it would from the groups of spans as they came,
\* whatever the groups, their order and their number (evaluator.go:250-262).
THEOREM PreviewFaithful == Spec => []PreviewIsFaithful
<1>1. EvalInv /\ FaithInv => PreviewIsFaithful
  BY KnownContents, SameOutcome, PolicyAssumption DEF PreviewIsFaithful, Rehydrated
<1> QED BY <1>1, FaithThroughout, PTL

-----------------------------------------------------------------------------
(* The duration of a trace. *)

LEMMA StoredTimes ==
  ASSUME NEW s \in Stored
  PROVE  s.start \in Int /\ s.end \in Int
<1>1. PICK g \in Group : s \in Range(Assemble(g))
  BY DEF Stored
<1>2. PICK k \in DOMAIN g.spans : s = toSpan(g.spans[k], g)
  BY <1>1 DEF Range, Assemble
<1>3. g.spans[k].start \in Int /\ g.spans[k].end \in Int
  BY GroupAssumption DEF Range
<1> QED BY <1>2, <1>3 DEF toSpan

\* The first and the last of finitely many numbers.
LEMMA Extremes ==
  ASSUME NEW n \in Nat \ {0}, NEW f, \A k \in 1 .. n : f[k] \in Int
  PROVE  /\ \E i \in 1 .. n : \A k \in 1 .. n : f[i] <= f[k]
         /\ \E i \in 1 .. n : \A k \in 1 .. n : f[i] >= f[k]
<1> DEFINE P == { m \in Nat : m \in 1 .. n =>
                    /\ \E i \in 1 .. m : \A k \in 1 .. m : f[i] <= f[k]
                    /\ \E i \in 1 .. m : \A k \in 1 .. m : f[i] >= f[k] }
<1>1. 0 \in P
  OBVIOUS
<1>2. ASSUME NEW m \in Nat, m \in P PROVE m + 1 \in P
  <2> SUFFICES ASSUME m + 1 \in 1 .. n
               PROVE  /\ \E i \in 1 .. m + 1 : \A k \in 1 .. m + 1 : f[i] <= f[k]
                      /\ \E i \in 1 .. m + 1 : \A k \in 1 .. m + 1 : f[i] >= f[k]
    OBVIOUS
  <2>1. \A k \in 1 .. m + 1 : f[k] \in Int
    OBVIOUS
  <2>2. CASE m = 0
    <3>1. 1 .. m + 1 = {1} /\ f[1] \in Int
      BY <2>1, <2>2
    <3> QED BY <3>1
  <2>3. CASE m # 0
    <3>1. PICK i \in 1 .. m : \A k \in 1 .. m : f[i] <= f[k]
      BY <1>2, <2>3
    <3>2. PICK j \in 1 .. m : \A k \in 1 .. m : f[j] >= f[k]
      BY <1>2, <2>3
    <3>3. \A k \in 1 .. m + 1 : k \in 1 .. m \/ k = m + 1
      OBVIOUS
    <3>4. \E x \in 1 .. m + 1 : \A k \in 1 .. m + 1 : f[x] <= f[k]
      <4>1. CASE f[i] <= f[m + 1]
        BY <3>1, <3>3, <4>1
      <4>2. CASE ~ (f[i] <= f[m + 1])
        <5>1. \A k \in 1 .. m + 1 : f[m + 1] <= f[k]
          BY <2>1, <3>1, <3>3, <4>2
        <5> QED BY <5>1
      <4> QED BY <4>1, <4>2
    <3>5. \E x \in 1 .. m + 1 : \A k \in 1 .. m + 1 : f[x] >= f[k]
      <4>1. CASE f[j] >= f[m + 1]
        BY <3>2, <3>3, <4>1
      <4>2. CASE ~ (f[j] >= f[m + 1])
        <5>1. \A k \in 1 .. m + 1 : f[m + 1] >= f[k]
          BY <2>1, <3>2, <3>3, <4>2
        <5> QED BY <5>1
      <4> QED BY <4>1, <4>2
    <3> QED BY <3>4, <3>5
  <2> QED BY <2>2, <2>3
<1> HIDE DEF P
<1>3. n \in P
  BY <1>1, <1>2, NatInSet
<1> QED BY <1>3 DEF P

Earliest(spans) == Min({ spans[i].start : i \in DOMAIN spans })
Latest(spans) == Max({ spans[i].end : i \in DOMAIN spans })

LEMMA SpanTimes ==
  ASSUME NEW spans \in Seq(Stored), spans # << >>
  PROVE  /\ \E i \in DOMAIN spans : Earliest(spans) = spans[i].start
         /\ \A k \in DOMAIN spans : Earliest(spans) <= spans[k].start
         /\ \E i \in DOMAIN spans : Latest(spans) = spans[i].end
         /\ \A k \in DOMAIN spans : Latest(spans) >= spans[k].end
         /\ Earliest(spans) \in Int /\ Latest(spans) \in Int
         /\ Duration(spans) = Latest(spans) - Earliest(spans)
<1> DEFINE n == Len(spans)
           starts == [k \in 1 .. n |-> spans[k].start]
           ends == [k \in 1 .. n |-> spans[k].end]
<1>1. n \in Nat \ {0} /\ DOMAIN spans = 1 .. n /\ \A k \in 1 .. n : spans[k] \in Stored
  OBVIOUS
<1>2. \A k \in 1 .. n : starts[k] \in Int /\ ends[k] \in Int
  BY <1>1, StoredTimes
<1>3. PICK i \in 1 .. n : \A k \in 1 .. n : starts[i] <= starts[k]
  <2> HIDE DEF starts, n
  <2> QED BY <1>1, <1>2, Extremes
<1>4. PICK j \in 1 .. n : \A k \in 1 .. n : ends[j] >= ends[k]
  <2> HIDE DEF ends, n
  <2> QED BY <1>1, <1>2, Extremes
<1> DEFINE S == { spans[k].start : k \in DOMAIN spans }
           E == { spans[k].end : k \in DOMAIN spans }
<1>5. Min(S) \in S /\ \A x \in S : Min(S) <= x
  <2>1. \E x \in S : \A y \in S : x <= y
    BY <1>1, <1>3
  <2> HIDE DEF S
  <2> QED BY <2>1 DEF Min
<1>6. Max(E) \in E /\ \A x \in E : Max(E) >= x
  <2>1. \E x \in E : \A y \in E : x >= y
    BY <1>1, <1>4
  <2> HIDE DEF E
  <2> QED BY <2>1 DEF Max
<1>7. S \subseteq Int /\ E \subseteq Int
  BY <1>1, StoredTimes
<1>8. Earliest(spans) = Min(S) /\ Latest(spans) = Max(E)
  BY DEF Earliest, Latest
<1> QED BY <1>5, <1>6, <1>7, <1>8 DEF Duration, Earliest, Latest

LEMMA Quotients ==
  ASSUME NEW T \in Nat \ {0}, NEW d \in Int
  PROVE  /\ (d \div T) \in Int /\ (d % T) \in 0 .. T - 1
         /\ d = T * (d \div T) + (d % T)
         /\ d >= 0 => (d \div T) \in Nat
  OBVIOUS

LEMMA QuotientGrows ==
  ASSUME NEW T \in Nat \ {0}, NEW d \in Nat, NEW e \in Nat, d <= e
  PROVE  d \div T <= e \div T
<1>1. PICK x \in Nat : x = d \div T
  BY Quotients
<1>2. PICK y \in Nat : y = e \div T
  BY Quotients
<1>3. T * x <= d /\ e < T * y + T
  BY <1>1, <1>2, Quotients
<1>4. ASSUME x >= y + 1 PROVE FALSE
  <2>1. T * x >= T * (y + 1)
    BY <1>4
  <2>2. T * (y + 1) = T * y + T
    OBVIOUS
  <2> QED BY <1>3, <2>1, <2>2
<1> QED BY <1>1, <1>2, <1>4

LEMMA MillisecondsGrow ==
  ASSUME NEW d \in Int, NEW e \in Int, d <= e
  PROVE  Milliseconds(d) \in Int /\ Milliseconds(e) \in Int /\ Milliseconds(d) <= Milliseconds(e)
<1> DEFINE T == TicksPerMs
<1>1. T \in Nat \ {0}
  BY TicksAssumption
<1> HIDE DEF T
<1>2. ASSUME NEW x \in Int
      PROVE  /\ x >= 0 => x \div T \in Nat
             /\ ~ (x >= 0) => (-x) \in Nat /\ (-x) \div T \in Nat
  BY <1>1, Quotients
<1>3. /\ d >= 0 => Milliseconds(d) = d \div T
      /\ ~ (d >= 0) => Milliseconds(d) = -((-d) \div T)
      /\ e >= 0 => Milliseconds(e) = e \div T
      /\ ~ (e >= 0) => Milliseconds(e) = -((-e) \div T)
  BY DEF Milliseconds, T
<1>4. CASE d >= 0
  <2>1. d \in Nat /\ e \in Nat
    BY <1>4
  <2>2. d \div T <= e \div T
    BY <1>1, <2>1, QuotientGrows
  <2> QED BY <1>2, <1>3, <2>1, <2>2
<1>5. CASE ~ (d >= 0) /\ e >= 0
  BY <1>2, <1>3, <1>5
<1>6. CASE ~ (d >= 0) /\ ~ (e >= 0)
  <2>1. (-d) \in Nat /\ (-e) \in Nat /\ -e <= -d
    BY <1>6
  <2>2. (-e) \div T <= (-d) \div T
    BY <1>1, <2>1, QuotientGrows
  <2> QED BY <1>2, <1>3, <1>6, <2>2
<1> QED BY <1>4, <1>5, <1>6

LEMMA WholeMilliseconds ==
  ASSUME NEW d \in Int, d % TicksPerMs = 0
  PROVE  Milliseconds(d) * TicksPerMs = d
<1> DEFINE T == TicksPerMs
<1>1. T \in Nat \ {0}
  BY TicksAssumption
<1> HIDE DEF T
<1>2. d % T = 0
  BY DEF T
<1>3. CASE d >= 0
  <2>1. d = T * (d \div T) + (d % T) /\ d \div T \in Nat
    BY <1>1, <1>3, Quotients
  <2>2. Milliseconds(d) = d \div T
    BY <1>3 DEF Milliseconds, T
  <2>3. PICK q \in Nat : q = d \div T
    BY <2>1
  <2>4. q * T = d
    BY <1>1, <1>2, <2>1, <2>3
  <2> QED BY <2>2, <2>3, <2>4 DEF T
<1>4. CASE ~ (d >= 0)
  <2>1. PICK e \in Nat : e = -d
    BY <1>4
  <2>2. PICK k \in Int : k = -(d \div T) /\ e = T * k
    <3>1. (d \div T) \in Int /\ d = T * (d \div T) + (d % T)
      BY <1>1, Quotients
    <3>2. PICK j \in Int : j = (d \div T)
      BY <3>1
    <3>3. d = T * j
      <4>1. d = T * j + 0
        BY <1>2, <3>1, <3>2
      <4> QED BY <1>1, <4>1
    <3>4. T * (-j) = -(T * j)
      BY <1>1
    <3> QED BY <2>1, <3>2, <3>3, <3>4
  <2> DEFINE q == e \div T
             r == e % T
  <2>3. q \in Nat /\ r \in 0 .. T - 1 /\ e = T * q + r
    <3>1. /\ (e \div T) \in Int /\ (e % T) \in 0 .. T - 1
          /\ e = T * (e \div T) + (e % T) /\ (e \div T) \in Nat
      <4>1. e \in Int /\ e >= 0
        OBVIOUS
      <4> HIDE DEF q, r
      <4> QED BY <1>1, <4>1, Quotients
    <3> QED BY <3>1
  <2> HIDE DEF q, r
  <2>4. k = q
    <3>1. ASSUME k >= q + 1 PROVE FALSE
      <4>1. T * k >= T * (q + 1) /\ T * (q + 1) = T * q + T
        BY <1>1, <2>3, <3>1
      <4> QED BY <1>1, <2>2, <2>3, <4>1
    <3>2. ASSUME k + 1 <= q PROVE FALSE
      <4>1. T * q >= T * (k + 1) /\ T * (k + 1) = T * k + T
        BY <1>1, <2>3, <3>2
      <4> QED BY <1>1, <2>2, <2>3, <4>1
    <3> QED BY <2>3, <3>1, <3>2
  <2>5. (-q) * T = d
    BY <1>1, <2>1, <2>2, <2>3, <2>4
  <2>6. Milliseconds(d) = -q
    BY <1>4, <2>1 DEF Milliseconds, T, q
  <2> QED BY <2>5, <2>6 DEF T
<1> QED BY <1>3, <1>4

\* What a running pair is after some spans with proper times: the first start and
\* the last end among them.
Spanning(spans, n, t) ==
  /\ t.min \in Nat \ {0} /\ t.max \in Nat \ {0}
  /\ \E k \in 1 .. n : t.min = spans[k].start
  /\ \E k \in 1 .. n : t.max = spans[k].end
  /\ \A k \in 1 .. n : t.min <= spans[k].start /\ spans[k].end <= t.max

LEMMA LaterSpanning ==
  ASSUME NEW S, NEW spans \in Seq(S), NEW n \in Nat, n + 1 \in 1 .. Len(spans),
         \A k \in 1 .. Len(spans) : spans[k].start \in Nat \ {0} /\ spans[k].end \in Nat \ {0},
         NEW t, n = 0 => t = NoTimes, n # 0 => Spanning(spans, n, t)
  PROVE  Spanning(spans, n + 1, Later(t, spans[n + 1]))
<1> DEFINE s == spans[n + 1]
           x == Later(t, s)
           min == IF t.min = 0 \/ s.start < t.min THEN s.start ELSE t.min
           max == IF t.max = 0 \/ s.end > t.max THEN s.end ELSE t.max
<1>1. x.min = min /\ x.max = max
  BY DEF Later
<1>2. s.start \in Nat \ {0} /\ s.end \in Nat \ {0}
  OBVIOUS
<1>3. n + 1 \in 1 .. n + 1 /\ \A k \in 1 .. n + 1 : k \in 1 .. n \/ k = n + 1
  OBVIOUS
<1>4. \A k \in 1 .. n : k \in 1 .. n + 1 /\ k \in 1 .. Len(spans)
  OBVIOUS
<1>5. CASE n = 0
  <2>1. t.min = 0 /\ t.max = 0
    BY <1>5 DEF NoTimes
  <2>2. min = s.start /\ max = s.end
    BY <2>1
  <2>3. n + 1 \in 1 .. n + 1 /\ \A k \in 1 .. n + 1 : spans[k] = s
    BY <1>3, <1>5
  <2>4. s.start <= s.start /\ s.end <= s.end
    BY <1>2
  <2> HIDE DEF min, max, x, s
  <2>5. Spanning(spans, n + 1, x)
    BY <1>1, <1>2, <2>2, <2>3, <2>4 DEF Spanning
  <2> QED BY <2>5 DEF x, s
<1>6. CASE n # 0
  <2>1. /\ t.min \in Nat \ {0} /\ t.max \in Nat \ {0}
        /\ \A k \in 1 .. n : t.min <= spans[k].start /\ spans[k].end <= t.max
    BY <1>6 DEF Spanning
  <2>2. PICK i \in 1 .. n : t.min = spans[i].start
    BY <1>6 DEF Spanning
  <2>3. PICK j \in 1 .. n : t.max = spans[j].end
    BY <1>6 DEF Spanning
  <2>4. min \in Nat \ {0} /\ min <= s.start /\ min <= t.min /\ (min = s.start \/ min = t.min)
    BY <1>2, <2>1
  <2>5. max \in Nat \ {0} /\ s.end <= max /\ t.max <= max /\ (max = s.end \/ max = t.max)
    BY <1>2, <2>1
  <2> HIDE DEF min, max, x
  <2>6. \E k \in 1 .. n + 1 : min = spans[k].start
    BY <1>3, <1>4, <2>2, <2>4
  <2>7. \E k \in 1 .. n + 1 : max = spans[k].end
    BY <1>3, <1>4, <2>3, <2>5
  <2>8. ASSUME NEW k \in 1 .. n + 1 PROVE min <= spans[k].start /\ spans[k].end <= max
    <3>1. CASE k \in 1 .. n
      <4>1. t.min <= spans[k].start /\ spans[k].end <= t.max
            /\ spans[k].start \in Nat /\ spans[k].end \in Nat
        BY <1>4, <2>1, <3>1
      <4> QED BY <2>1, <2>4, <2>5, <4>1
    <3>2. CASE k = n + 1
      BY <2>4, <2>5, <3>2
    <3> QED BY <1>3, <3>1, <3>2
  <2> QED BY <1>1, <2>4, <2>5, <2>6, <2>7, <2>8 DEF Spanning, x
<1> QED BY <1>5, <1>6

LEMMA RunningSpans ==
  ASSUME NEW S, NEW spans \in Seq(S),
         \A k \in 1 .. Len(spans) : spans[k].start \in Nat \ {0} /\ spans[k].end \in Nat \ {0}
  PROVE  \A n \in 1 .. Len(spans) : Spanning(spans, n, Running(spans)[n])
<1> DEFINE P == { n \in Nat : n \in 1 .. Len(spans) => Spanning(spans, n, Running(spans)[n]) }
<1>1. 0 \in P
  OBVIOUS
<1>2. ASSUME NEW n \in Nat, n \in P PROVE n + 1 \in P
  <2> SUFFICES ASSUME n + 1 \in 1 .. Len(spans)
               PROVE  Spanning(spans, n + 1, Running(spans)[n + 1])
    OBVIOUS
  <2>1. PICK t : t = Running(spans)[n]
    OBVIOUS
  <2>2. /\ n = 0 => t = NoTimes
        /\ n # 0 => Spanning(spans, n, t)
    BY <1>2, <2>1, RunningSteps
  <2>3. Running(spans)[n + 1] = Later(t, spans[n + 1])
    <3>1. \A k \in 1 .. Len(spans) : Running(spans)[k] = Later(Running(spans)[k - 1], spans[k])
      BY RunningSteps
    <3>2. PICK k \in 1 .. Len(spans) : k = n + 1 /\ k - 1 = n
      OBVIOUS
    <3> QED BY <2>1, <3>1, <3>2
  <2>4. Spanning(spans, n + 1, Later(t, spans[n + 1]))
    BY <2>2, LaterSpanning
  <2> QED BY <2>3, <2>4
<1> HIDE DEF P
<1>3. Nat \subseteq P
  BY <1>1, <1>2, NatInSet
<1> QED BY <1>3 DEF P

LEMMA LatencyByDuration ==
  ASSUME NEW p, p.threshold \in Int, p.upper \in Int,
         NEW spans \in Seq(Stored), spans # << >>,
         \A i \in DOMAIN spans : spans[i].start > 0 /\ spans[i].end > 0
  PROVE  LET ms == Milliseconds(Duration(spans))
             samples == latency(p, rehydrateTraceData(spans))
         IN  /\ p.upper = 0 => (samples <=> ms > p.threshold)
             /\ p.threshold < ms /\ ms <= p.upper => samples
<1> DEFINE a == Spans(rehydrateTraceData(spans))
           N == Len(spans)
           ms == Milliseconds(Duration(spans))
           ran(n) == Running(a)[n].max - Running(a)[n].min
<1>1. a = [n \in 1 .. N |-> Rewired(spans[n])]
  BY RehydratedSpans
<1>2. /\ N \in Nat \ {0} /\ DOMAIN spans = 1 .. N /\ DOMAIN a = 1 .. N
      /\ \A n \in 1 .. N : spans[n] \in Stored
      /\ \A n \in 1 .. N : a[n].start = spans[n].start /\ a[n].end = spans[n].end
  BY <1>1 DEF Rewired, InContext, Refilled
<1>3. \A n \in 1 .. N : spans[n].start \in Nat \ {0} /\ spans[n].end \in Nat \ {0}
  BY <1>2, StoredTimes
<1>4. a \in Seq(Range(a)) /\ Len(a) = N
  <2>1. \A n \in 1 .. N : a[n] \in Range(a)
    BY <1>2 DEF Range
  <2>2. a = [n \in 1 .. N |-> a[n]]
    BY <1>1
  <2> HIDE DEF a, N
  <2> QED BY <1>2, <2>1, <2>2
<1> HIDE DEF a, N
<1>5. \A n \in 1 .. N : Spanning(a, n, Running(a)[n])
  BY <1>2, <1>3, <1>4, RunningSpans
<1>6. /\ \E i \in 1 .. N : Earliest(spans) = spans[i].start
      /\ \A k \in 1 .. N : Earliest(spans) <= spans[k].start
      /\ \E i \in 1 .. N : Latest(spans) = spans[i].end
      /\ \A k \in 1 .. N : Latest(spans) >= spans[k].end
      /\ Earliest(spans) \in Int /\ Latest(spans) \in Int
      /\ Duration(spans) = Latest(spans) - Earliest(spans)
  BY <1>2, SpanTimes
<1>7. ASSUME NEW n \in 1 .. N
      PROVE  ran(n) \in Int /\ ran(n) <= Duration(spans)
  <2> DEFINE t == Running(a)[n]
  <2>1. /\ t.min \in Nat /\ t.max \in Nat
        /\ \E k \in 1 .. n : t.min = a[k].start
        /\ \E k \in 1 .. n : t.max = a[k].end
    BY <1>5 DEF Spanning
  <2>2. \A k \in 1 .. n : k \in 1 .. N
    BY <1>2
  <2>3. Earliest(spans) <= t.min /\ t.max <= Latest(spans)
    <3> HIDE DEF t
    <3> QED BY <1>2, <1>6, <2>1, <2>2
  <2> HIDE DEF t
  <2>4. t.max - t.min \in Int /\ t.max - t.min <= Duration(spans)
    <3>1. /\ Earliest(spans) \in Int /\ Latest(spans) \in Int
          /\ Duration(spans) = Latest(spans) - Earliest(spans)
      BY <1>6
    <3>2. t.min \in Nat /\ t.max \in Nat
      BY <2>1
    <3> QED BY <2>3, <3>1, <3>2
  <2> QED BY <2>4 DEF t
<1>8. ran(N) = Duration(spans)
  <2> DEFINE t == Running(a)[N]
  <2>1. /\ t.min \in Nat /\ t.max \in Nat
        /\ \E k \in 1 .. N : t.min = a[k].start
        /\ \E k \in 1 .. N : t.max = a[k].end
        /\ \A k \in 1 .. N : t.min <= a[k].start /\ a[k].end <= t.max
    BY <1>2, <1>5 DEF Spanning
  <2> HIDE DEF t
  <2>2. t.min = Earliest(spans)
    BY <1>2, <1>3, <1>6, <2>1
  <2>3. t.max = Latest(spans)
    BY <1>2, <1>3, <1>6, <2>1
  <2>4. t.max - t.min = Duration(spans)
    BY <1>6, <2>2, <2>3
  <2> QED BY <2>4 DEF t
<1> DEFINE asked(n) == Milliseconds(ran(n))
<1>9. latency(p, rehydrateTraceData(spans)) <=>
        \E n \in 1 .. N : p.threshold < asked(n) /\ (p.upper = 0 \/ asked(n) <= p.upper)
  BY <1>2 DEF latency, a
<1>10. \A n \in 1 .. N : asked(n) \in Int /\ ms \in Int /\ asked(n) <= ms
  <2> HIDE DEF ran
  <2>1. Duration(spans) \in Int
    BY <1>6
  <2> QED BY <1>7, <2>1, MillisecondsGrow
<1>11. asked(N) = ms /\ N \in 1 .. N
  BY <1>2, <1>8
<1> HIDE DEF asked, ms, ran
<1>12. p.upper = 0 => (latency(p, rehydrateTraceData(spans)) <=> ms > p.threshold)
  BY <1>9, <1>10, <1>11
<1>13. p.threshold < ms /\ ms <= p.upper => latency(p, rehydrateTraceData(spans))
  BY <1>9, <1>10, <1>11
<1> QED BY <1>12, <1>13 DEF ms

\* The latency filter, which is asked after each span, concludes by the duration
\* of the whole trace, the one that is shown, for any spans that have their
\* times and in any order (latency.go:43-56, types.go:184-201).
THEOREM LatencyByTraceDuration == Spec => []LatencyMeansDuration
<1>1. EvalInv /\ FaithInv => LatencyMeansDuration
  <2> SUFFICES ASSUME EvalInv, FaithInv, NEW t \in Known, NEW p \in Policy, p.type = "latency",
                      \A i \in DOMAIN traces[t].spans :
                        traces[t].spans[i].start > 0 /\ traces[t].spans[i].end > 0
               PROVE  LET spans == traces[t].spans
                          ms == Milliseconds(Duration(spans))
                          sampled == Outcome(p, Rehydrated(t), t) = "Sampled"
                      IN  /\ p.upper = 0 => sampled = (ms > p.threshold)
                          /\ p.threshold < ms /\ ms <= p.upper => sampled
    BY DEF LatencyMeansDuration
  <2>1. p.threshold \in Int /\ p.upper \in Int
    BY PolicyAssumption
  <2>2. traces[t].spans \in Seq(Stored) /\ traces[t].spans # << >>
    BY KnownContents
  <2>3. Outcome(p, Rehydrated(t), t) = "Sampled" <=> latency(p, rehydrateTraceData(traces[t].spans))
    BY DEF Outcome, Decision, AttributeTypes, Rehydrated
  <2>4. LET ms == Milliseconds(Duration(traces[t].spans))
            samples == latency(p, rehydrateTraceData(traces[t].spans))
        IN  /\ p.upper = 0 => (samples <=> ms > p.threshold)
            /\ p.threshold < ms /\ ms <= p.upper => samples
    BY <2>1, <2>2, LatencyByDuration
  <2> QED BY <2>3, <2>4
<1> QED BY <1>1, FaithThroughout, PTL

-----------------------------------------------------------------------------
(* The browser's query. *)

LEMMA RootIsASpan ==
  ASSUME NEW spans \in Seq(Stored), spans # << >>
  PROVE  \E i \in DOMAIN spans : RootSpan(spans) = spans[i]
<1> DEFINE orphans == { i \in DOMAIN spans : spans[i].parent = NoParent }
           earliest == { i \in DOMAIN spans : \A k \in DOMAIN spans : spans[i].start <= spans[k].start }
           T == IF orphans # {} THEN orphans ELSE earliest
<1>1. DOMAIN spans \subseteq Nat
  OBVIOUS
<1>2. earliest # {}
  <2>1. PICK i \in DOMAIN spans : Earliest(spans) = spans[i].start
    BY SpanTimes
  <2>2. \A k \in DOMAIN spans : Earliest(spans) <= spans[k].start
    BY SpanTimes
  <2> QED BY <2>1, <2>2
<1>3. T \subseteq DOMAIN spans /\ T # {}
  BY <1>2
<1>4. RootSpan(spans) = spans[Min(T)]
  BY DEF RootSpan
<1> HIDE DEF T
<1>5. Min(T) \in T
  BY <1>1, <1>3, LeastIn
<1> QED BY <1>3, <1>4, <1>5

\* The browser finds by their summaries the traces the server finds by their
\* spans, where a summary has what a term asks for and a duration is written as
\* both read it, and on one side of it for the terms it approximates, whatever
\* spans came (filter.ts:6-12).
THEOREM BrowserQueriesAgree == Spec => []QueriesAgree
<1>1. EvalInv /\ FaithInv => QueriesAgree
  <2> SUFFICES ASSUME EvalInv, FaithInv, NEW t \in Known, NEW q \in Query
               PROVE  LET spans == traces[t].spans
                          server == Match(spans, q)
                          browser == MatchSummary(toSummary(spans), q)
                      IN CASE q.key \in {"status", "service"} -> browser = server
                           [] q.key = "duration" ->
                                /\ Duration(spans) % TicksPerMs = 0
                                /\ (q.text.form = {} /\ q.text.off = 0)
                                     \/ "malformed" \in q.text.form
                                => browser = server
                           [] q.key = "free" -> browser => server
                           [] q.key = "attribute" -> server => browser
    BY DEF QueriesAgree
  <2> DEFINE spans == traces[t].spans
             server == Match(spans, q)
             browser == MatchSummary(toSummary(spans), q)
  <2>1. spans \in Seq(Stored) /\ spans # << >>
    BY KnownContents
  <2>2. /\ q.key \in {"free", "status", "duration", "service", "attribute"}
        /\ q.key = "duration" => /\ q.op \in {":", ">", ">=", "<", "<="}
                                 /\ q.text.ticks \in Int /\ q.text.off \in {-1, 0, 1}
    BY QueryAssumption
  <2> HIDE DEF spans
  <2>3. /\ toSummary(spans).service_name = RootServiceName(spans)
        /\ toSummary(spans).root_span_name = RootSpan(spans).name
        /\ toSummary(spans).duration_ms = Milliseconds(Duration(spans))
        /\ toSummary(spans).has_error = HasError(spans)
    BY DEF toSummary
  <2>4. q.key = "status" => browser = server
    BY <2>3 DEF Match, MatchSummary
  <2>5. q.key = "service" => browser = server
    BY <2>3 DEF Match, MatchSummary
  <2>6. ASSUME q.key = "duration", Duration(spans) % TicksPerMs = 0,
               (q.text.form = {} /\ q.text.off = 0) \/ "malformed" \in q.text.form
        PROVE  browser = server
    <3> DEFINE got == toSummary(spans).duration_ms * TicksPerMs
               want == q.text.ticks
               off == q.text.off
    <3>1. Duration(spans) \in Int
      BY <2>1, SpanTimes
    <3>2. got = Duration(spans)
      BY <2>3, <2>6, <3>1, WholeMilliseconds
    <3>3. server = (ParsedByServer(q.text) /\ Compare(q.op, Duration(spans), want))
      BY <2>6 DEF Match
    <3>4. browser = (ParsedByBrowser(q.text) /\ Compare(q.op, 2 * got, 2 * want + off))
      BY <2>6 DEF MatchSummary
    <3>5. want \in Int /\ off \in {-1, 0, 1} /\ q.op \in {":", ">", ">=", "<", "<="}
      BY <2>2, <2>6
    <3> HIDE DEF browser, server, got, want, off
    <3>6. CASE "malformed" \in q.text.form
      <4>1. ~ ParsedByServer(q.text) /\ ~ ParsedByBrowser(q.text)
        BY <3>6 DEF ParsedByServer, ParsedByBrowser
      <4> QED BY <3>3, <3>4, <4>1
    <3>7. CASE q.text.form = {} /\ q.text.off = 0
      <4>1. ParsedByServer(q.text) /\ ParsedByBrowser(q.text)
        BY <3>7 DEF ParsedByServer, ParsedByBrowser
      <4>2. off = 0
        BY <3>7 DEF off
      <4>3. PICK d \in Int : d = Duration(spans) /\ got = d
        BY <3>1, <3>2
      <4>4. Compare(q.op, 2 * d, 2 * want + 0) = Compare(q.op, d, want)
        BY <3>5 DEF Compare
      <4>5. Compare(q.op, 2 * got, 2 * want + off) = Compare(q.op, Duration(spans), want)
        BY <4>2, <4>3, <4>4
      <4> QED BY <3>3, <3>4, <4>1, <4>5
    <3> QED BY <2>6, <3>6, <3>7
  <2>7. ASSUME q.key = "free", browser PROVE server
    <3>1. PICK i \in DOMAIN spans : RootSpan(spans) = spans[i]
      BY <2>1, RootIsASpan
    <3>2. toSummary(spans).service_name \in q.text \/ toSummary(spans).root_span_name \in q.text
      BY <2>7 DEF MatchSummary
    <3>3. matchFreeText(spans, q.text)
      BY <2>3, <3>1, <3>2 DEF matchFreeText
    <3> QED BY <2>7, <3>3 DEF Match
  <2>8. q.key = "attribute" => browser
    BY DEF MatchSummary
  <2> HIDE DEF browser, server
  <2>9. CASE q.key \in {"status", "service"}
    BY <2>4, <2>5, <2>9 DEF spans, browser, server
  <2>10. CASE q.key = "duration"
    BY <2>6, <2>10 DEF spans, browser, server
  <2>11. CASE q.key = "free"
    BY <2>7, <2>11 DEF spans, browser, server
  <2>12. CASE q.key = "attribute"
    BY <2>8, <2>12 DEF spans, browser, server
  <2> QED BY <2>2, <2>9, <2>10, <2>11, <2>12
<1> QED BY <1>1, FaithThroughout, PTL
=============================================================================
