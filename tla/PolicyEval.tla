------------------------------ MODULE PolicyEval ------------------------------
(***************************************************************************)
(* Evaluators at work: internal/sampling/evaluator.go and rate_limiting.go *)
(* as decideDue, SetPolicy (server.go) and comparePolicy (compare.go) call *)
(* them, each in a goroutine of its own, policy by policy.                 *)
(*                                                                         *)
(* One evaluator serves the ticker and the SetPolicy that made it at once. *)
(* Its rate limiters remember what they let through and its expression     *)
(* matchers keep a cache without a lock; the rest of a policy is an        *)
(* operator of SamplingPolicies.  Nothing is evicted here and every trace  *)
(* may be due: DecisionEngine has the store and the clock.  Statistics and *)
(* broadcasts are left to DecisionEngine and BrowserView.                  *)
(***************************************************************************)
EXTENDS SamplingPolicies, LiveTailQuery, FiniteSetsExt

CONSTANTS
  TraceID,
  Group,          \* span groups a collector may send
  Configs,        \* policy lists that are set or compared
  InitialConfigs,  \* those the server may start with
  Policy,         \* policies without a memory, asked of every trace by the properties
  Query,          \* query terms
  Ticker, Updater, Comparer,  \* the goroutines
  MaxBatches, MaxNow, MaxEvaluators  \* bounds on batches, seconds, evaluators

VARIABLES
  received,    \* history: the groups of each trace, as they came
  traces,      \* Store.byID
  evaluators,  \* every Evaluator made so far
  current,     \* Server.evaluator
  now,         \* in seconds
  job          \* what each goroutine is doing

vars == <<received, traces, evaluators, current, now, job>>

Worker == {Ticker, Updater, Comparer}
Positions(cfg) == UNION { {i} \X DOMAIN Leaves(cfg[i]) : i \in DOMAIN cfg }
LeafAt(cfg, at) == Leaves(cfg[at[1]])[at[2]]
Limiters(cfg) == { at \in Positions(cfg) : LeafAt(cfg, at).type = "rate_limiting" }

Idle == [kind |-> "idle"]
Busy(w) == job[w] # Idle
Config(w) == evaluators[job[w].ev].cfg
At(w) == <<job[w].i, job[w].j>>
Subject(w) == Head(job[w].todo)
Evaluating(w) == Busy(w) /\ job[w].todo # << >>
\* The next policy to be asked.
Asking(w, types) ==
  /\ Evaluating(w) /\ job[w].i <= Len(Config(w))
  /\ LeafAt(Config(w), At(w)).type \in types
Leaf(w) == LeafAt(Config(w), At(w))
Concluding(w) == Evaluating(w) /\ job[w].i > Len(Config(w))

\* Nobody else holds Store.mu: ForEachMutate does while it evaluates.
StoreFree(w) == \A v \in Worker \ {w} : job[v] = Idle \/ job[v].kind # "update"

NoTally == [observed |-> 0, keep |-> 0, failed |-> 0, failedKeep |-> 0,
            candidate |-> 0, candidateKeep |-> 0, newlyKept |-> 0, newlyDropped |-> 0,
            errorsDropped |-> 0, stale |-> FALSE]

Start(kind, ev, todo) ==
  [kind |-> kind, ev |-> ev, todo |-> todo, i |-> 1, j |-> 1, hit |-> {}, paid |-> {},
   inside |-> FALSE, torn |-> FALSE, tally |-> NoTally]

\* On to the next trace.
Onward(r, tally) ==
  [Start(r.kind, r.ev, Tail(r.todo)) EXCEPT !.tally = tally]

\* Mutant: a conjunction matches by its first policy.
AnsweredByFirst(w, r, sampled) ==
  [r EXCEPT !.i = @ + 1, !.j = 1, !.hit = @ \cup { i \in {r.i} : sampled }]

\* Mutant: a conjunction asks all of its policies and goes by the last.
AnsweredByLast(w, r, sampled) ==
  IF r.j < Len(Leaves(Config(w)[r.i])) THEN [r EXCEPT !.j = @ + 1]
  ELSE [r EXCEPT !.i = @ + 1, !.j = 1, !.hit = @ \cup { i \in {r.i} : sampled }]

\* A policy answered: on to the rest of its conjunction or to the next one.
Answered(w, r, sampled) ==
  IF ~sampled THEN [r EXCEPT !.i = @ + 1, !.j = 1]
  ELSE IF r.j < Len(Leaves(Config(w)[r.i])) THEN [r EXCEPT !.j = @ + 1]
  ELSE [r EXCEPT !.i = @ + 1, !.j = 1, !.hit = @ \cup {r.i}]

\* NewRateLimiting: a second's spans, twice as many at once.
Burst(p) == 2 * p.rate

\* Mutant: a limiter starts with a token more than its burst.
FreshOver(cfg) ==
  [cfg |-> cfg, born |-> now,
   bucket |-> [at \in Limiters(cfg) |-> [tokens |-> Burst(LeafAt(cfg, at)) + 1, last |-> now]],
   spent |-> [at \in Limiters(cfg) |-> 0]]

\* NewEvaluator: every limiter is full.
Fresh(cfg) ==
  [cfg |-> cfg, born |-> now,
   bucket |-> [at \in Limiters(cfg) |-> [tokens |-> Burst(LeafAt(cfg, at)), last |-> now]],
   spent |-> [at \in Limiters(cfg) |-> 0]]

-----------------------------------------------------------------------------
Init ==
  /\ now = 0
  /\ received = [t \in TraceID |-> << >>]
  /\ traces = [t \in TraceID |-> None]
  /\ \E cfg \in InitialConfigs : NewEvaluator(cfg) /\ evaluators = <<Fresh(cfg)>>
  /\ current = 1
  /\ job = [w \in Worker |-> Idle]

Known == { t \in TraceID : traces[t] # None }
Batches == FoldSet(LAMBDA t, n : n + Len(received[t]), 0, TraceID)

\* Store.Ingest of a trace it does not know and of one it does.
Begun(g) ==
  [spans |-> Assemble(g), state |-> "RECEIVING", keep |-> FALSE, judged |-> 0, by |-> 0]

Continued(r, g) ==
  [r EXCEPT !.spans = @ \o Assemble(g),
            !.state = IF @ = "DECIDED" THEN "RECEIVING" ELSE @]

\* handleTraceFrame for one trace.
Receive(t, g) ==
  /\ StoreFree(None)
  /\ Batches < MaxBatches
  /\ received' = [received EXCEPT ![t] = Append(@, g)]
  /\ traces' = [traces EXCEPT ![t] = IF @ = None THEN Begun(g) ELSE Continued(@, g)]
  /\ UNCHANGED <<evaluators, current, now, job>>

Second ==
  /\ now < MaxNow
  /\ now' = now + 1
  /\ UNCHANGED <<received, traces, evaluators, current, job>>

Copies(ids) == { [id |-> t, trace |-> traces[t]] : t \in ids }

\* decideDue up to its loop.
Sweep ==
  /\ job[Ticker] = Idle /\ StoreFree(Ticker)
  /\ \E due \in (SUBSET { t \in Known : traces[t].state = "RECEIVING" }) \ {{}} :
       /\ traces' = [t \in TraceID |->
                       IF t \in due THEN [traces[t] EXCEPT !.state = "READY"] ELSE traces[t]]
       /\ \E todo \in SetToSeqs(Copies(due)) :
            job' = [job EXCEPT ![Ticker] = Start("sweep", current, todo)]
  /\ UNCHANGED <<received, evaluators, current, now>>

\* SetPolicy up to its ForEachMutate, which takes Store.mu.
SetPolicy(cfg) ==
  /\ job[Updater] = Idle
  /\ Len(evaluators) < MaxEvaluators
  /\ NewEvaluator(cfg)
  /\ evaluators' = Append(evaluators, Fresh(cfg))
  /\ current' = Len(evaluators) + 1
  /\ job' = [job EXCEPT ![Updater] = Start("swapped", current', << >>)]
  /\ UNCHANGED <<received, traces, now>>

ForEachMutate ==
  /\ job[Updater] # Idle /\ job[Updater].kind = "swapped"
  /\ \E todo \in SetToSeqs(Copies(Known)) :
       job' = [job EXCEPT ![Updater] = Start("update", @.ev, todo)]
  /\ UNCHANGED <<received, traces, evaluators, current, now>>

\* Mutant: a candidate equal to the policy in force borrows its evaluator.
ComparePolicyBorrowed(cfg) ==
  /\ job[Comparer] = Idle /\ StoreFree(Comparer)
  /\ Len(evaluators) < MaxEvaluators \/ cfg = evaluators[current].cfg
  /\ NewEvaluator(cfg)
  /\ evaluators' = IF cfg = evaluators[current].cfg THEN evaluators
                   ELSE Append(evaluators, Fresh(cfg))
  /\ \E todo \in SetToSeqs(Copies({ t \in Known : traces[t].state = "DECIDED" })) :
       job' = [job EXCEPT ![Comparer] =
                 Start("compare", IF cfg = evaluators[current].cfg THEN current
                                  ELSE Len(evaluators) + 1, todo)]
  /\ UNCHANGED <<received, traces, current, now>>

\* comparePolicy with a candidate's own evaluator.
ComparePolicy(cfg) ==
  /\ job[Comparer] = Idle /\ StoreFree(Comparer)
  /\ Len(evaluators) < MaxEvaluators
  /\ NewEvaluator(cfg)
  /\ evaluators' = Append(evaluators, Fresh(cfg))
  /\ \E todo \in SetToSeqs(Copies({ t \in Known : traces[t].state = "DECIDED" })) :
       job' = [job EXCEPT ![Comparer] = Start("compare", Len(evaluators) + 1, todo)]
  /\ UNCHANGED <<received, traces, current, now>>

-----------------------------------------------------------------------------
(* Evaluator.Evaluate. *)

Verdict(w) ==
  Outcome(Leaf(w), rehydrateTraceData(Subject(w).trace.spans), Subject(w).id)

Matcher(p) == p.type = "string_attribute" /\ p.regex

\* Some other goroutine is in the same matcher.
Sharing(w, v) ==
  /\ v # w /\ Busy(v) /\ job[v].inside
  /\ job[v].ev = job[w].ev /\ At(v) = At(w)

\* An expression matcher reads and writes its cache: two at once may get
\* anything.
EnterMatcher(w) ==
  /\ Asking(w, AttributeTypes) /\ Matcher(Leaf(w)) /\ ~job[w].inside
  /\ job' = [v \in Worker |->
               IF v = w THEN [job[w] EXCEPT !.inside = TRUE,
                                            !.torn = @ \/ \E u \in Worker : Sharing(w, u)]
               ELSE IF Sharing(w, v) THEN [job[v] EXCEPT !.torn = TRUE] ELSE job[v]]
  /\ UNCHANGED <<received, traces, evaluators, current, now>>

Stateless == AttributeTypes \cup
  {"always_sample", "latency", "status_code", "span_count", "trace_state",
   "probabilistic", "ottl_condition"}

Stored == UNION { Range(Assemble(g)) : g \in Group }

TraceRecord ==
  [spans : Seq(Stored), state : {"RECEIVING", "READY", "DECIDED"}, keep : BOOLEAN,
   judged : Nat, by : Nat]

\* What arrives and what is configured comes in sequences; numbers are numbers,
\* and a group is there because a span of the trace is in it.
ASSUME EvalAssumption ==
  /\ IsFiniteSet(TraceID) /\ None \notin TraceRecord
  /\ MaxNow \in Nat /\ MaxEvaluators \in Nat \ {0}
  /\ Ticker # Updater /\ Ticker # Comparer /\ Updater # Comparer

ASSUME GroupAssumption ==
  \A g \in Group :
    /\ g.spans \in Seq(Range(g.spans)) /\ g.spans # << >>
    /\ \A s \in Range(g.spans) : s.start \in Int /\ s.end \in Int
    /\ g.resource = [k \in DOMAIN g.resource |-> g.resource[k]]
    /\ \A s \in Range(g.spans) : s.attrs = [k \in DOMAIN s.attrs |-> s.attrs[k]]
    /\ \A v \in Range(g.resource) \cup UNION { Range(s.attrs) : s \in Range(g.spans) } :
         v.kind = "int" => v.val \in Int

ASSUME ConfigAssumption ==
  \A cfg \in Configs \cup InitialConfigs :
    /\ cfg \in Seq(Range(cfg))
    /\ \A p \in Range(cfg) :
         /\ Leaves(p) \in Seq(Range(Leaves(p)))
         /\ \A q \in Range(Leaves(p)) :
              /\ q.type \in Stateless \cup Stateful \cup {"and", "unset"}
              /\ q.type = "rate_limiting" => q.rate \in Nat

ASSUME PolicyAssumption ==
  \A p \in Policy :
    /\ p.type \in Stateless
    /\ p.type = "latency" => p.threshold \in Int /\ p.upper \in Int
    /\ p.type \in AttributeTypes =>
         /\ p.invert \in BOOLEAN
         /\ p.type = "numeric_attribute" => p.min \in Int /\ p.max \in Int
         /\ p.type = "string_attribute" => p.regex \in BOOLEAN

ASSUME QueryAssumption ==
  \A q \in Query :
    /\ q.key \in {"free", "status", "duration", "service", "attribute"}
    /\ q.key = "duration" => /\ q.op \in {":", ">", ">=", "<", "<="}
                             /\ q.text.ticks \in Int /\ q.text.off \in {-1, 0, 1}

Filter(w) ==
  /\ Asking(w, Stateless)
  /\ Matcher(Leaf(w)) => job[w].inside
  /\ Verdict(w) # "Error"
  /\ \E sampled \in IF Matcher(Leaf(w)) /\ job[w].torn THEN BOOLEAN
                    ELSE {Verdict(w) = "Sampled"} :
       job' = [job EXCEPT ![w] = Answered(w, [@ EXCEPT !.inside = FALSE], sampled)]
  /\ UNCHANGED <<received, traces, evaluators, current, now>>

\* Mutant: a bucket for every trace.
AvailableAnew(p, b) == Burst(p)

\* rate.Limiter.AllowN: tokens flow in with time, up to the burst.
Available(p, b) ==
  LET t == b.tokens + p.rate * (now - b.last) IN IF t > Burst(p) THEN Burst(p) ELSE t

Paying(r, at) == [r EXCEPT !.paid = @ \cup {at}]

Limit(w) ==
  /\ Asking(w, {"rate_limiting"})
  /\ LET n == Len(Subject(w).trace.spans)
         at == At(w)
         ev == job[w].ev
         tokens == Available(Leaf(w), evaluators[ev].bucket[at])
     IN IF n <= tokens
        THEN /\ evaluators' = [evaluators EXCEPT
                   ![ev].bucket[at] = [tokens |-> tokens - n, last |-> now],
                   ![ev].spent[at] = @ + n]
             /\ job' = [job EXCEPT ![w] = Answered(w, Paying(@, at), TRUE)]
        ELSE /\ job' = [job EXCEPT ![w] = Answered(w, @, FALSE)]
             /\ UNCHANGED evaluators
  /\ UNCHANGED <<received, traces, current, now>>

-----------------------------------------------------------------------------
(* What becomes of a result. *)

Observed(c, tally) ==
  [tally EXCEPT !.observed = @ + 1, !.keep = @ + (IF c.trace.keep THEN 1 ELSE 0)]

Missed(c, tally) ==
  [Observed(c, tally) EXCEPT !.failed = @ + 1,
                             !.failedKeep = @ + (IF c.trace.keep THEN 1 ELSE 0)]

\* An evaluation that fails is skipped by all three callers.
Fail(w) ==
  /\ Asking(w, {"ottl_condition"})
  /\ Verdict(w) = "Error"
  /\ job' = [job EXCEPT ![w] =
               Onward(@, IF w = Comparer THEN Missed(Subject(w), @.tally) ELSE @.tally)]
  /\ UNCHANGED <<received, traces, evaluators, current, now>>

Kept(w) == job[w].hit # {}

\* Who decided, for the record: nobody if a matcher was shared.
Judge(w) == IF job[w].torn THEN 0 ELSE job[w].ev

\* Mutant: a verdict once given stays.
DecideOnce ==
  /\ Concluding(Ticker) /\ StoreFree(Ticker)
  /\ traces' = [traces EXCEPT ![Subject(Ticker).id] =
       [@ EXCEPT !.keep = IF traces[Subject(Ticker).id].judged > 0 THEN @ ELSE Kept(Ticker),
                 !.state = "DECIDED", !.by = Judge(Ticker),
                 !.judged = Len(Subject(Ticker).trace.spans)]]
  /\ job' = [job EXCEPT ![Ticker] = Onward(@, @.tally)]
  /\ UNCHANGED <<received, evaluators, current, now>>

\* Store.ApplyDecision.
Decide ==
  /\ Concluding(Ticker) /\ StoreFree(Ticker)
  /\ traces' = [traces EXCEPT ![Subject(Ticker).id] =
       [@ EXCEPT !.keep = Kept(Ticker), !.state = "DECIDED", !.by = Judge(Ticker),
                 !.judged = Len(Subject(Ticker).trace.spans)]]
  /\ job' = [job EXCEPT ![Ticker] = Onward(@, @.tally)]
  /\ UNCHANGED <<received, evaluators, current, now>>

\* The callback of ForEachMutate: the state stays.
ReDecide ==
  /\ Concluding(Updater)
  /\ traces' = [traces EXCEPT ![Subject(Updater).id] =
       [@ EXCEPT !.keep = Kept(Updater), !.by = Judge(Updater),
                 !.judged = Len(Subject(Updater).trace.spans)]]
  /\ job' = [job EXCEPT ![Updater] = Onward(@, @.tally)]
  /\ UNCHANGED <<received, evaluators, current, now>>

\* Mutant: what the candidate keeps it newly keeps.
CountedOneSided(c, kept, tally) ==
  [Observed(c, tally) EXCEPT
     !.candidate = @ + 1,
     !.candidateKeep = @ + (IF kept THEN 1 ELSE 0),
     !.newlyKept = @ + (IF kept THEN 1 ELSE 0),
     !.newlyDropped = @ + (IF ~kept THEN 1 ELSE 0),
     !.errorsDropped = @ + (IF ~kept /\ c.trace.keep /\ HasError(c.trace.spans) THEN 1 ELSE 0)]

Counted(c, kept, tally) ==
  [Observed(c, tally) EXCEPT
     !.candidate = @ + 1,
     !.candidateKeep = @ + (IF kept THEN 1 ELSE 0),
     !.newlyKept = @ + (IF kept /\ ~c.trace.keep THEN 1 ELSE 0),
     !.newlyDropped = @ + (IF ~kept /\ c.trace.keep THEN 1 ELSE 0),
     !.errorsDropped = @ + (IF ~kept /\ c.trace.keep /\ HasError(c.trace.spans) THEN 1 ELSE 0)]

\* Decided by another policy list, or before its last spans came.
Stale(c, cfg) ==
  c.trace.by = 0 \/ evaluators[c.trace.by].cfg # cfg \/ c.trace.judged # Len(c.trace.spans)

Diff ==
  /\ Concluding(Comparer)
  /\ LET c == Subject(Comparer)
         tally == Counted(c, Kept(Comparer), job[Comparer].tally)
     IN job' = [job EXCEPT ![Comparer] =
          Onward(@, [tally EXCEPT !.stale = @ \/ Stale(c, Config(Comparer))])]
  /\ UNCHANGED <<received, traces, evaluators, current, now>>

Finish(w) ==
  /\ Busy(w) /\ job[w].kind # "swapped" /\ job[w].todo = << >>
  /\ job' = [job EXCEPT ![w] = Idle]
  /\ UNCHANGED <<received, traces, evaluators, current, now>>

-----------------------------------------------------------------------------
Evaluate(w) == EnterMatcher(w) \/ Filter(w) \/ Limit(w) \/ Fail(w)

Next ==
  \/ \E t \in TraceID, g \in Group : Receive(t, g)
  \/ Second \/ Sweep \/ ForEachMutate
  \/ \E cfg \in Configs : SetPolicy(cfg) \/ ComparePolicy(cfg)
  \/ \E w \in Worker : Evaluate(w) \/ Finish(w)
  \/ Decide \/ ReDecide \/ Diff

Spec == Init /\ [][Next]_vars

-----------------------------------------------------------------------------
Buckets(e) ==
  \A at \in Limiters(e.cfg) :
    /\ e.bucket[at].last \in e.born .. now
    /\ e.bucket[at].tokens \in 0 .. Burst(LeafAt(e.cfg, at))
    /\ e.spent[at] \in Nat

TypeOK ==
  /\ now \in 0 .. MaxNow
  /\ Len(evaluators) \in 1 .. MaxEvaluators /\ current \in 1 .. Len(evaluators)
  /\ \A n \in DOMAIN evaluators : Buckets(evaluators[n])
  /\ traces \in [TraceID -> TraceRecord \cup {None}]
  /\ \A t \in Known : /\ traces[t].judged <= Len(traces[t].spans)
                      /\ traces[t].by <= Len(evaluators)
  /\ \A w \in Worker : Busy(w) => /\ job[w].ev \in 1 .. Len(evaluators)
                                  /\ Asking(w, Stateless \cup Stateful)
                                       \/ Concluding(w) \/ ~Evaluating(w)

Rehydrated(t) == rehydrateTraceData(traces[t].spans)

\* Whatever the store may hold it may hold while nobody evaluates: properties of
\* contents are looked at only then.
AtRest == \A w \in Worker : ~Busy(w)

Bare(c) == [c EXCEPT !.extra = {}]

\* A policy's conditions do not tell a span from itself without its extra.
ReadsKept(p) ==
  p.type = "ottl_condition" =>
    \A g \in Group : \A s \in Range(g.spans) :
      LET c == InContext(s, g)
      IN /\ c \in p.holds <=> Bare(c) \in p.holds
         /\ c \in p.fails <=> Bare(c) \in p.fails

\* A policy concludes from a trace as the server keeps it, flattened and
\* rehydrated with a resource to every span, what the processor would from the
\* batches as they came: "how spans are grouped into ResourceSpans never
\* changes the Decision" (evaluator.go:250-262).  Not so an OTTL condition on a
\* span's scope, events, links or flags, which toSpan leaves behind and
\* buildOTTL does not refuse (assembler.go:33-69, ottl.go:92-94).
PreviewIsFaithful ==
  AtRest => \A t \in Known, p \in Policy :
    ReadsKept(p) => Outcome(p, Rehydrated(t), t) = Outcome(p, received[t], t)

\* The latency filter looks at spans one after the other, and yet goes by the
\* duration of the whole trace, the one the UI shows; with an upper threshold
\* a trace within the bounds is sampled (latency.go:43-56, types.go:184-201).
\* A zero timestamp is taken for none.
LatencyMeansDuration ==
  AtRest => \A t \in Known, p \in Policy :
    LET spans == traces[t].spans
        ms == Milliseconds(Duration(spans))
        sampled == Outcome(p, Rehydrated(t), t) = "Sampled"
    IN p.type = "latency" /\ (\A i \in DOMAIN spans : spans[i].start > 0 /\ spans[i].end > 0) =>
         /\ p.upper = 0 => sampled = (ms > p.threshold)
         /\ p.threshold < ms /\ ms <= p.upper => sampled

\* A matching value on the resource of a span or on the span itself.
Carries(p, s, prefix) ==
  /\ <<prefix, p.key>> \in DOMAIN s.attributes
  /\ LET v == s.attributes[<<prefix, p.key>>]
     IN CASE p.type = "numeric_attribute" -> As("int", v) \in p.min .. p.max
          [] p.type = "boolean_attribute" -> As("bool", v) = p.value
          [] p.type = "string_attribute" ->
               /\ As("str", v) \in p.values
               /\ As("str", v) # "" \/ (prefix = "resource" /\ p.regex)

Found(p, spans) ==
  \E i \in DOMAIN spans : \E prefix \in {"resource", "attributes"} : Carries(p, spans[i], prefix)

\* An attribute filter samples the traces that carry a matching value anywhere,
\* on a resource or a span, an inverted one exactly the others, and a value of
\* another kind counts as 0, FALSE or nothing (util.go:18-61).
AttributesMean ==
  AtRest => \A t \in Known, p \in Policy :
    p.type \in AttributeTypes =>
      (Outcome(p, Rehydrated(t), t) = "Sampled") = (Found(p, traces[t].spans) # p.invert)

Samples(w, at) ==
  Outcome(LeafAt(Config(w), at), rehydrateTraceData(Subject(w).trace.spans), Subject(w).id)
    = "Sampled"

\* An evaluation that comes to its end matched exactly the policies all of
\* whose conjuncts sample the copy it was given, limiters among them where it
\* paid, however the goroutines' steps interleave; one that reaches a failing
\* expression never ends in a verdict (evaluator.go:96-107, and.go:45-55).
ResultsFollowPolicies ==
  \A w \in Worker : Concluding(w) /\ ~job[w].torn =>
    job[w].hit =
      { i \in DOMAIN Config(w) : \A j \in DOMAIN Leaves(Config(w)[i]) :
          \/ <<i, j>> \in job[w].paid
          \/ LeafAt(Config(w), <<i, j>>).type \notin Stateful /\ Samples(w, <<i, j>>) }

\* A limiter in a conjunction is charged only for traces the policies before it
\* sample (and.go:45-54).
AndSparesTokens ==
  \A w \in Worker : Evaluating(w) /\ ~job[w].torn =>
    \A at \in job[w].paid : \A j \in 1 .. at[2] - 1 :
      <<at[1], j>> \in job[w].paid \/ Samples(w, <<at[1], j>>)

\* Whoever evaluates with it, and however often the same trace, a limiter lets
\* through no more spans than its burst and what flowed in since it was made
\* (rate_limiting.go:26-52).
BurstBound ==
  \A n \in DOMAIN evaluators : \A at \in Limiters(evaluators[n].cfg) :
    LET e == evaluators[n]
        p == LeafAt(e.cfg, at)
    IN e.spent[at] <= Burst(p) + p.rate * (now - e.born)

\* Two goroutines are in one expression matcher, whose cache has no lock, only
\* if SetPolicy re-evaluates while decideDue decides by the same new policy; a
\* comparison never disturbs either (string_tag_filter.go:59-73, compare.go:40).
MatchersShared ==
  \A v, w \in Worker : Busy(w) /\ job[w].inside /\ Sharing(w, v) => {v, w} = {Ticker, Updater}

Tally == IF Busy(Comparer) THEN job[Comparer].tally ELSE NoTally

\* Trace by trace the differences add up, but for the traces the candidate
\* fails on: those are on the current side only (compare.go:34-65).
CompareAccounts ==
  /\ Tally.observed = Tally.candidate + Tally.failed
  /\ Tally.candidateKeep - (Tally.keep - Tally.failedKeep) = Tally.newlyKept - Tally.newlyDropped
  /\ Tally.newlyDropped <= Tally.keep - Tally.failedKeep

\* A policy list compared with itself differs on no trace, provided it has no
\* limiter and the traces were decided by it on all their spans
\* (compare.go:30-38).
SelfCompareEmpty ==
  /\ Busy(Comparer) /\ Limiters(Config(Comparer)) = {} /\ ~Tally.stale
  => Tally.newlyKept = 0 /\ Tally.newlyDropped = 0

\* The browser filters the summaries as the server does the traces, for the
\* keys a summary has: "this mirrors the backend's behavior" (filter.ts:6-8).
\* Durations are for traces of whole milliseconds, and for a text of one number
\* and one unit that the browser converts exactly, or that neither reads; any
\* other may select other traces, "matching time.ParseDuration's units well
\* enough" (filter.ts:78-80).  Where it approximates, the browser may hide a trace
\* the server would find only for a free text, and show one the server would not
\* only for an attribute (9-12).
QueriesAgree ==
  AtRest => \A t \in Known, q \in Query :
    LET spans == traces[t].spans
        server == Match(spans, q)
        browser == MatchSummary(toSummary(spans), q)
    IN CASE q.key \in {"status", "service"} -> browser = server
         [] q.key = "duration" ->
              /\ Duration(spans) % TicksPerMs = 0
              /\ (q.text.form = {} /\ q.text.off = 0) \/ "malformed" \in q.text.form
              => browser = server
         [] q.key = "free" -> browser => server
         [] q.key = "attribute" -> server => browser
=============================================================================
