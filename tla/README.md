# A verification project for Tail Sampling Previewer

Tail Sampling Previewer shows, live and in memory, what an OpenTelemetry
tail-sampling policy would keep and drop. An exporter inside a production
Collector streams spans over a WebSocket to the Preview Server, which groups
them into traces, decides them after `decision_wait`, re-evaluates everything
when the policy is edited, and pushes the results to browsers.

This directory models the parts of it that are hard to get right: several
goroutines on each side of the connection, each protected by its own mutex,
whose steps interleave between the locks. Paths below are relative to `src/`.

## Inventory

| Component | Code | State | Operations | What makes it correct |
|---|---|---|---|---|
| Trace store | `internal/trace/store.go`, `types.go`, `assembler.go` | `byID`, `order`, `totalBytes`, `evicted`, under `Store.mu` | `Ingest`, `DueForDecision`, `ApplyDecision`, `ForEachMutate`; readers `All`, `Get`, `Len`, `TotalBytes`, `Evicted` | map and list agree; the byte account is exact; no call leaves a limit exceeded; the list is ordered by recency |
| Decision engine | `internal/server/server.go`, `collector_ws.go` (`handleTraceFrame`) | `Server.evaluator` under `Server.mu`; locals of `decideDue` and `SetPolicy` | the ticker's `decideDue`; `SetPolicy` of any number of browsers; frames of any number of collectors | a decided trace shows what the policy in force concludes; no trace is decided early, twice, or never |
| Statistics | `internal/statistics/statistics.go` | totals under `Engine.mu` | `Record`, `Reset`, `Snapshot` | the totals cover the decided traces under the verdicts they show |
| Session manager | `internal/session/session.go` | state under `Manager.mu` | `Start`, `Pause`, `Resume`, `Stop`, `notify` | every exporter ends up with the state of the session |
| Collector connections | `internal/server/collector_ws.go`, `internal/protocol` | `Server.collectors` | hello, registration, greeting, frames, heartbeat | a connection is greeted with the current session and misses no transition |
| Exporter | `exporter/tailpreviewexporter` | queue, `conn` under `writeMu`, `paused`, metrics, backoff | `consumeTraces`, `writerLoop`, `Run`, `handleConnection`, heartbeat, control messages, `shutdown` | the production pipeline is never blocked; every payload is accounted for; nothing accumulates while paused |
| Sampling policies | `internal/sampling`, `internal/upstreamtsp/sampling` | rate-limiter tokens, a regular-expression cache without a lock | `Evaluate` of every policy type and of conjunctions | the verdict is the one the processor would give on the spans as they came |
| Browser connections | `internal/server/browser_ws.go`, `events.go`, `convert.go` | `Server.browsers` | `registerBrowser`, `snapshot`, `broadcast`, `unregisterBrowser` | once all is sent and read, a browser shows what the server has |
| Web client | `web/src/state.tsx`, `ws.ts`, `filter.ts` | the reducer's state, the socket and its reconnect timer | `applyServerMsg`, the answers to its own requests, `onclose` | the same, and it never stays disconnected |
| HTTP API | `internal/server/api.go` | none | session actions, policy, export, compare | delegates to the above |
| Policy comparison | `internal/server/compare.go` | an evaluator of its own | `comparePolicy` | the differences add up; a policy differs from itself nowhere |
| Live Tail query | `internal/query/filter.go` | none | `Parse`, `Match` | selects what `web/src/filter.ts` selects |
| Wire framing | `internal/protocol/protocol.go` | none | `EncodeFrame`, `DecodeFrame` | decode inverts encode |
| OTTL filter, AI assistant, commands, load generator | `internal/upstreamtsp/filterottl`, `web/src/ai`, `cmd`, `examples` | none of protocol interest | | |

How they interact: the exporter's writer sends frames, `handleTraceFrame` hands
them to `Store.Ingest`. The ticker goroutine copies due traces out of the store,
evaluates the copies without a lock and applies the results. `SetPolicy` swaps
the evaluator, resets the statistics and re-evaluates the store, three locks one
after the other. A session transition calls its listeners after releasing its
mutex; the listener sends to every registered collector, whose exporter flips
its `paused` flag. A connecting collector is registered first and told the
session afterwards. Every change the server makes is broadcast by the goroutine
that made it, after the lock under which it was made is released; a browser that
connects is registered for broadcasts first and sent a snapshot afterwards. The
ticker, policy updates and comparisons evaluate traces at the same time, the first
two with one evaluator whose limiters and matchers keep state.

The hard behaviours are therefore: state read under one lock and used under
another; notifications that overtake one another; traces evicted, returned and
reopened between two steps of a decision; evaluations that fail; writes that
block, connections that break and are replaced under a goroutine that uses them;
queues and buffers at their limit; broadcasts that no lock orders, that share a
deadline, and that say nothing of evictions; verdicts that depend on how often
others were evaluated. `PROJECT.json` lists each at its line.

## Modules

| Module | Models | State and actions against the code |
|---|---|---|
| `TraceStore` | `Store` | One action per method, since each holds `s.mu` for its whole body. `byID` is the map, `order` the linked list. `EvictLocked` is the loop of `evictLocked` in closed form: the shortest prefix of the list whose removal leaves no limit exceeded. The instant is a parameter, up to `MaxLag` behind the clock, because callers read it before they wait for the lock. |
| `DecisionEngine` | `decideDue`, `SetPolicy`, `handleTraceFrame`, `statistics.Engine` | Uses `TraceStore` through `INSTANCE`, and implements it. The ticker goes `ReadEvaluator`, `CollectDue`, then `Decide` and `RecordDecision` per trace; each `SetPolicy` goes `SwapEvaluator`, `ResetStats`, `ReEvaluate`, `RecordReEvaluated`. `ForEachMutate` keeps `Store.mu` while its callback records results, so nothing touches the store meanwhile (`StoreFree`). |
| `SessionControl` | `session.Manager`, `onSessionChange`, the greeting of `HandleCollectorWS`, the exporter's `paused` | A transition and its notification are separate steps of the caller; `Register`, `ReadSession`, `Greet` are separate steps of a connection; messages on a connection stay in order. `Expire` is the deadline all sends of one notification share. |
| `Exporter` | `exporter.go`, `connection.go` | `Consume`, `Offer`, `Count` are the steps of one `ConsumeTraces`; `Take`, `CountTaken`, `StartWrite`, `EndWrite` of the writer; `Dialled` to `CloseConn` of `Run`. `writeMu` is held across a write. The socket takes `Window` frames and then blocks; the server end refuses a connection that does not start with hello. |
| `BrowserView` | `browser_ws.go`, the broadcasts of `server.go` and `collector_ws.go`, `ws.ts`, `state.tsx` | The server's state is a value and a version for each cell (a trace, a collector, the policy, the session, the statistics). `todo` is what a goroutine has still to run: `Register`, `Unregister`, `Frame`, `CollectDue`, `Apply`, `SetPolicy`, `Visit` and `SessionAction` change a cell and leave a broadcast to do; `ReadStatistics`, `ReadTraces`, `ReadRest`, `CopyBrowsers`, `Send` and `Expire` are its steps. `Open`, `DialFails`, `Redial`, `RegisterBrowser` and `Close` are the connection; `Take` is `applyServerMsg`. |
| `TraceData` | `types.go`, `assembler.go`, `rehydrateTraceData`, `convert.go` | The contents of traces: spans with time, status, trace state, attributes, and `extra`, what the store does not keep of them; how batches are flattened into the store, rehydrated for the evaluator and summarised for the browser. |
| `SamplingPolicies` | `internal/sampling`, `internal/upstreamtsp/sampling` | What each policy type concludes from batches of spans. |
| `LiveTailQuery` | `internal/query/filter.go`, `web/src/filter.ts` | The two implementations of a query term, on traces and on summaries. |
| `PolicyEval` | `Evaluator.Evaluate` under the ticker, `SetPolicy` and `comparePolicy` | An evaluation goes policy by policy, and conjunct by conjunct: `EnterMatcher`, `Filter`, `Limit`, `Fail`; the result goes to `Decide`, `ReDecide` or `Diff`. Goroutines that use the same evaluator share its buckets and its matchers. |
| `PreviewLifecycle` | | What the preview promises of a trace: absent, waiting, or with a verdict that only new spans, eviction or the one review of a policy update takes back. `DecisionEngine` implements it (`Preview`, `Phase`). |
| `LossyChannel` | | What the exporter promises: a channel of bounded capacity that delivers or loses each payload once. `Exporter` implements it (`Channel`). |
| `...Proofs` | | Theorems about the module of that name. |
| `FiniteSums` | | Lemmas about sums over finite sets, for `TraceStoreProofs`, and induction over the naturals. |
| `MC...` | | The instances TLC checks. |

A few operators are named as mutants of an operation (`MoveToBackTwice`,
`ReEvaluateStale`, `CloseConnKept`, ...): each is the operation with one plausible bug,
and putting it in the operation's place breaks the property `PROJECT.json`
pairs it with, under the same configuration. They show that the properties
depend on the code being as it is.

## Runs

| Run | Checks | Bounds, and why they suffice |
|---|---|---|
| `TraceStore` | `TypeOK`, `IndexConsistent`, `BytesAccounted`, `WithinLimits`, `RecencyOrder`, `FreshAfterIngest` | Three traces, two group sizes, a buffer of two traces and three bytes, frames of up to two traces, a caller one tick late. Each limit is exceeded alone and together with the others, one frame can evict several traces, and a trace can be evicted and return. |
| `Decision` | `TypeOK`, `DecisionsFollowPolicy`, `ReadyIsPending`, `NoEarlyDecision`, `StatsMatchVerdicts`, `ImplementsPreview` | Two traces, two bytes of memory so that a third frame evicts and a fourth brings the evicted trace back, four frames, two `SetPolicy` callers with two updates, one policy that fails on a group of spans; symmetric in the traces and in the callers. Enough for a trace to be decided, reopened, evicted and returned with two updates anywhere in between, and for two traces to be due at once of which one fails. |
| `DecisionLive` | `EventuallyDecided` | Policies that always evaluate. Frames stop `decision_wait` before the last instant, since a trace that is not due when time ends is an artefact of the bound. |
| `DecisionLateSpan`, `DecisionPolicyRace` | `AlwaysFollowPolicy`, violated | The smallest instances with one race each. |
| `Session` | `TypeOK`, `ExportersFollowSession` | Two callers, two exporters, four transitions (every state is reached and left), three connections (one exporter reconnects). |
| `SessionReorder` | `PauseStopsExporters`, violated | Two transitions. |
| `Exporter` | `TypeOK`, `Ledger`, `GaugeTracksQueue`, `NothingAccumulates`, `ConnOwned`, `ConsumeReturns`, `BrokenIsReplaced`, `QueueDrains` | Two pipeline goroutines, a queue of two, a socket of one frame, five payloads: queue and socket fill, and a payload remains to be dropped. |
| `ExporterHello` | `HelloFirst`, violated | One of everything. |
| `Browser` | `TypeOK`, `TracesShown`, `SettingsShown`, `CollectorsShown`, `OnlyEvictedLinger`, `Settles` | One trace, two collectors under one identifier, the ticker, one request of the browser, three changes on the server, two connections of the browser, each after any number of failed dials. Two changes of one cell can be told in the wrong order, with a reconnect between them and its snapshot; the cells do not depend on one another but through the trace, so one of each is enough. |
| `BrowserResync` | `Resynchronized`, violated | One collector, two changes, two connections. |
| `Sampling` | `TypeOK`, `PreviewIsFaithful`, `LatencyMeansDuration`, `AttributesMean`, `ResultsFollowPolicies`, `AndSparesTokens`, `BurstBound`, `MatchersShared`, `CompareAccounts`, `SelfCompareEmpty`, `QueriesAgree` | Two traces, two batches out of three span groups, so up to six spans, one second, two evaluators. The groups hold spans out of order, a span without an end, spans with a scope and with events, values of every kind and of the wrong kind, resources with and without the key; OTTL conditions look at a span's name, at its resource and at its scope; durations are written as both sides read them, as only one does, as neither does, and with a product that falls short; a configuration has a matcher before a limiter, a limiter alone, a filter that fails, or nothing. |

`MaxClock`, `MaxEvicted`, `MaxFrames`, `MaxUpdates`, `MaxTransitions`,
`MaxConnections`, `MaxOffered`, `MaxOps`, `MaxOpens`, `MaxBatches`, `MaxNow` and
`MaxEvaluators` are the bounds on the exploration; `MaxTraces` and `MaxBatch` are the
limit of the store and the size of a frame. Deadlock is checked for `TraceStore`
and `DecisionEngine`. A session or a browser whose bounds are used up, an exporter
that has shut down and a server with nothing left to evaluate really stop, so it
is not for the others.

### Provisos of the passing properties

Some promises hold only between races, and the properties say which. Taking the
proviso away gives a counterexample within a few steps:

* `DecisionsFollowPolicy` exempts traces in `late`, those that got spans while
  `decideDue` held a copy: `Ingest` reopens only DECIDED and EXPIRED traces, so
  these spans are never evaluated (`DecisionLateSpan`). An evicted trace that
  returns in that window is decided at once by the verdict on its predecessor,
  for the same reason exempted from `NoEarlyDecision`.
* It exempts everything once `overlap` holds, when `SetPolicy` ran during a
  `decideDue` or another `SetPolicy`: the older evaluator may have the last word
  (`DecisionPolicyRace`). The statistics need no such exemption.
* `ReadyIsPending` and the statistics exempt traces on which some policy fails:
  `decideDue` leaves such a trace READY, where no later tick finds it, and
  `SetPolicy` leaves it with its old decision and out of the totals.
* The statistics are bounded from below only. They may count more than the
  store shows: evicted traces stay counted, reopened ones are counted again, and
  one decided around a `Reset` is counted twice.
* `RecencyOrder` allows an inversion of `MaxLag`, which is what "the list is kept
  ordered by recency" (`internal/trace/store.go:216`) comes to when frames of two
  collectors wait for the store. The other comment on the list, "front = oldest
  FirstSeen" (line 35), is not what `MoveToBack` does, and no property says it.
* `ExportersFollowSession` exempts behaviours in which two notifications, or a
  notification and a greeting, crossed, or a notification ran into its deadline:
  nothing sends the state again. `SessionReorder` shows the first; a stale greeting
  that overtakes a resume is another.
* `TracesShown`, `SettingsShown` and `CollectorsShown` speak of a browser that has
  read everything sent (`Quiet`), and exempt the cells whose last message was older
  than one before it (`overtaken`) or ran into the deadline that all browsers share
  (`missed`): nothing is sent twice. A reconnect clears both, but not for good:
  the snapshot itself may be the older message (`BrowserResync`).
* `CollectorsShown` exempts an identifier that two connections had at once: the
  disconnect of one is shown as that of both. `OnlyEvictedLinger` says how long a
  trace the server evicted may stay on the screen, until the next snapshot.
* `ResultsFollowPolicies`, `AndSparesTokens` and `SelfCompareEmpty` exempt evaluations
  in which two goroutines were in the same regular-expression matcher (`torn`): its
  cache is a plain list without a lock, so the answer may be any. That the race may
  also stop the program is not modelled. `MatchersShared` says which goroutines these
  can be. (A comment, `string_tag_filter.go:159`, calls the expressions anchored; they
  are searched for.)
* `CompareAccounts`: a trace the candidate fails on counts on the current side
  only, although `compare.go:34` calls the two populations identical.
* `SelfCompareEmpty` needs a policy without a limiter and traces that this policy
  decided on all their spans (`stale`): the stored decision is taken for what the
  active policy says.
* `PreviewIsFaithful` exempts OTTL conditions that tell a span from what is kept of
  it (`ReadsKept`): `toSpan` leaves its scope, events, links and flags behind
  (`internal/trace/assembler.go:33-69`), so the evaluator rebuilds it without them,
  and a condition on `instrumentation_scope.name` or `Len(span.events)` sees another
  span than in the processor. `buildOTTL` refuses `spanevent` conditions only
  (`evaluator.go:233`). A comment (`types.go:22`) says that a stored span has its
  scope; it does not.
* `QueriesAgree` is an equality for status, for service, and for durations where the
  trace lasts whole milliseconds and the text is one unsigned number with one unit
  which the browser converts exactly (or one that neither side can read). Beyond
  that the two differ. The server compares nanoseconds, the browser milliseconds
  rounded down. `time.ParseDuration` also reads signs, a bare `0`, several units
  (`1m30s`), `1.s` and the Greek letter of `μs`, and refuses what exceeds an int64;
  `parseGoDuration` has none of these. It multiplies in floating point, so `1.001s`
  is 1000.9999999999999 milliseconds. Where the browser has less than the server, it
  hides too much for a free text, too little for an attribute.
* Properties of contents are looked at while nobody evaluates (`AtRest`): every
  content the store can reach, it can reach then.
* `QueueDrains` needs a server that reads. With one that stops, the write never
  ends: it has no timeout.

## Fairness

`DecisionLive` assumes that time passes, that the ticker goroutine runs, and
that a started `SetPolicy` runs to its end: all three are goroutines that wait
for nothing but short critical sections. `ConsumeReturns` assumes only that the
calling goroutine runs. `BrokenIsReplaced` adds the goroutines of the exporter,
with strong fairness for `Run`, which competes with the writer for `writeMu`:
`sync.Mutex` hands the lock to a waiter after a millisecond. `QueueDrains` adds
a server that keeps reading. `Settles` assumes that some goroutine of the server
runs while one can, for they wait for nothing but short critical sections and a
broadcast's deadline, and that the browser reads its socket and its reconnect
timer fires. Any dial of the browser may fail, and any number in a row, but not all
of them for ever (strong fairness of `Open`): a server that can never be reached is
never shown. A connection may break at any time, and the exporter's dialling is
never assumed to succeed.

## Proofs

`ExporterProofs` proves the five safety properties of `Exporter` for every number
of pipeline goroutines, queue size and number of payloads, from
`ExporterAssumption` alone.

* `TypeCorrect` is inductive as it stands.
* `LedgerBalances` and `GaugeLags` are inductive together with `TypeCorrect`; the
  work is in counting goroutines (`AtChanges`: one goroutine moves, one count goes
  up or down by one), from the library's facts about finite sets. The gauge is behind
  the queue by those who have queued and not counted yet, and ahead of it while the
  writer is between receiving a payload and counting it.
* `ConnOwned` is not inductive: the clean-up of a connection could withdraw it
  under a writer. `MutexHeld`, that the mutex is held exactly during a write,
  closes the gap, since the clean-up takes the mutex.
* `NothingAccumulates` is not inductive: a goroutine might queue a payload twice
  after the pause. `PauseSeen` adds that one which is still to offer its payload
  has not used up its allowance.

Both strengthenings were checked with TLC before they were proved.

`ExporterIsLossyChannel` is a refinement: `Spec => Channel!Spec`. `ChannelHolds` reads off
`Ledger` how many payloads are held, at most `QueueSize` in the queue, one in the writer
and one in each goroutine of the pipeline, so the preview costs the production process
a bounded amount of memory. TLC checked it on the instance of `Exporter.cfg`.

`TraceStoreProofs` proves all six properties of `TraceStore` for every set of
traces, span groups of any positive size, any limits, any lag and any sequence
of calls, from `StoreAssumption` alone. `TraceID` need not be finite: what is
retained is.

* `StoreInv`, that is `TypeOK`, `IndexConsistent` and `BytesAccounted` together,
  is inductive; none of the three is alone, since the account is kept per entry
  of the list and the traces are found through the map. `IngestLeaves` is the
  heart of it: it says what a frame leaves behind, from `ToBackList` (what
  touching the traces of a frame does to the list), `IngestAccount` (what it
  does to the bytes) and `EvictLockedLeaves` (the loop leaves a suffix of the
  list, and stops only where no limit is exceeded).
* `LimitsHold` follows from where the loop stops, given `StoreInv`; an empty list
  has no bytes because the account is exact.
* `RecencyInv` strengthens `RecencyOrder` with "no trace was touched in the
  future". The work is in `MoveToBackList`: whatever stands before another trace
  after a move stood before it already, unless the other one moved.
* `FreshAfterEveryIngest` combines where the loop stops (the front is young
  enough) with `RecencyInv` (nobody is much older than the front).

The sums and the closed forms of the loops are recursive functions, so the lemmas
under them are inductions. The library's induction theorems take a predicate,
which the provers cannot instantiate; `FiniteSums` states induction over the
naturals and over the subsets of a finite set with a set in its place
(`NatInSet`, `SubsetsInSet`), from the fact that the naturals are well-founded.

`SessionControlProofs` proves both properties of `SessionControl` for any number of
handlers, exporters, transitions and reconnections, from `SessionAssumption`.
`ExportersFollowSession` speaks of the end, so it needs `FollowInv`, which follows a
state on its way: a handler with a notification to send still holds the state of
the session (`CarryState`), so does a greeting that has been read (`GreetState`), and
a connection that has been served has, as its last message or in its exporter, what
was last told (`ServedAreTold`); `TodoWhileSending` ties a handler's list to its phase.
Each holds unless `crossed`, and the step that would break it is the one that sets
it.

`PolicyEvalProofs` proves eight of the eleven properties of `PolicyEval` for any traces,
spans, configurations and evaluators.

* `FilterMeans` computes the attribute filters, plain and inverted, as one statement
  about spans, and `AttributesMean` follows with no invariant at all.
* `EvalInv` is the invariant under the others: types (`TypedState`), evaluators that
  exist (`Indexed`), goroutines that stand at a policy or past the last (`Placed`), and
  a store that only adds to what a goroutine holds a copy of (`Held`). `Shape` says
  what any step does to any goroutine, so that the proofs below need not go through
  `Next` again.
* `BudgetInv` (tokens left and tokens spent together never exceed the burst and
  what flowed in) gives `BurstBound`; `BalancedInv` gives `CompareAccounts`;
  `OwnEvaluator`, that a comparison's evaluator is nobody else's, gives `MatchersShared`.
* `SoundInv` carries `ResultsFollowPolicies` through the middle of an evaluation: the
  policies left behind matched exactly if they should have. `AndSparesTokens` is a
  consequence.
* `SelfCompareEmpty` compares a verdict given now with one given in the past, by
  another goroutine. `JudgedInv` says that a stored verdict is what its evaluator's
  policies conclude from the first spans of the trace, `UntornInv` that a comparison
  is never torn, `SelfInv` that the tally has no difference so far.

`PolicyContentsProofs` proves the other three, which are about contents, for any
groups of spans, policies and query terms. What it assumes of them
(`GroupAssumption`, `PolicyAssumption`, `QueryAssumption`) is what the code has: a trace
is in a frame because a span of it is, attributes and resources are maps, times and
thresholds are integers, a query has one of the parser's five keys and a duration
one of its five operators.

* `PreviewFaithful`: the preview, which sees a trace flattened, rehydrated and in
  pieces, concludes what a policy would from the groups as they came, for every policy
  but an OTTL condition on what the store does not keep. `FaithInv` ties the stored
  spans to the groups received: as many, in the order of arrival, each the conversion of
  a span that came, and conversely; `FaithfulMore` is the step in which a group arrives.
  `SameOutcome` then goes through the policy types; `SameOttl` rests on
  `ConvertedInContext`, that a rehydrated span with its resource is the one that came
  without its extra, and on `ReadsKept`. For those that look at every span the two sides
  see the same set, for `latency`, which walks the batches, `SameLatency` compares the
  running times.
* `LatencyByTraceDuration`: a latency policy goes by the duration of the whole trace,
  although its callback sees one span at a time. `RunningSpans` says what the
  running times have spanned after each span, `MillisecondsGrow` that rounding to
  milliseconds keeps the order.
* `BrowserQueriesAgree`: the two implementations of a query term agree on what they
  both have and both read; `WholeMilliseconds` is why durations must be whole.
* Flattening and the running times are walks along sequences; `FlattenAppend` and
  `RunningSteps` are inductions over lengths, by `NatInSet` of `FiniteSums`.

`DecisionEngineProofs` proves all six properties of `DecisionEngine` for any traces,
policies, waits, limits and number of `SetPolicy` callers, from `EngineAssumption`.

* `EngineUsesStore` is a refinement: `Spec => Store!Spec`. Each lock-step of the
  engine is one call of the store (`StoreSteps`), so what `TraceStoreProofs` shows of
  the store holds of the one inside the engine. The proofs take two facts from
  there: `StoreInv`, kept by any call, and `IngestLeaves`. (`SameNext` and the lemmas
  before it only say that two instances of one module are the same.)
* `EngineInv` is the invariant under the others: types, and where the goroutines
  stand (`TickPlaced`, `SettersPlaced`: who records has something to record, and
  only one `SetPolicy` does, because it has the store's lock). `FrameEffect`,
  `CollectEffect`, `DecideEffect` and `UpdateEffect` say what each step does to a trace.
* `ReadyIsPending` and `NoEarlyDecision` speak of traces, but the ticker decides from
  copies: `ReadyInv` and `WaitInv` say the same of the copies it holds.
* `DecisionsFollowPolicy` needs `CopyInv` (the copy of a trace that is not late is the
  trace) and `GenerationInv` (without an overlap, everyone who holds an evaluator holds
  the one in force).
* `StatsMatchVerdicts` speaks of the end of it all. `CountInv`
  adds what the ticker and a `SetPolicy` still have to record to what is counted
  already, and holds unless a `SetPolicy` is about to re-evaluate, which starts the
  count anew. The verdict on every trace that is shown is then among those to
  record (`ReEvaluateOwes`). No proviso about overlaps is needed: a verdict of a
  replaced evaluator is wrong, and counted as it is shown.
* `EngineIsPreview` is the other refinement: `Spec => ImplementsPreview`. That a verdict is
  given to a waiting trace only is not plain from `ApplyDecision`, which asks nothing;
  it needs `OnceInv`: the ticker holds one copy of a trace, and no copy of a trace
  that is decided, since nobody else decides and `IsInjective(order)` makes the copies
  distinct (`InOrderFinds`).

`BrowserViewProofs` proves the five invariants of `BrowserView` for any finite set of
traces, any collectors, goroutines and bounds, from `BrowserAssumption` and
`DistinctAssumption` (traces, collectors and settings are different things, and so are
the goroutines). None of the four about the screen is inductive: each speaks of a
browser that has read everything, and the proof follows every cell there.

* `SoundInv`: whatever is under way, in a goroutine's hands or on the wire, says of a
  cell what is true if it is about the cell's newest version. `ReportsInv`: a
  goroutine whose next step changes a cell that is reported later has that report
  among its steps. `ConnInv`: a connection that is not registered yet will be, and
  will get its snapshot after that.
* `TellInv`: the browser shows the newest version of a cell, or some goroutine has
  still to tell it (`OwedNewest`), or the cell was `overtaken` or `missed`.
  It is what makes a quiet browser (`QuietOwesNothing`) an accurate one.
* `SpanInv`: a decision tells no spans, so it may be newer than the spans that are
  shown; they have the same argument again, for themselves.
* The steps are of three kinds. A `ServerStep` changes cells and leaves broadcasts to
  do (`ServerKeeps`); a `CarryStep` takes a copy, addresses a message or drops a
  step that says nothing (`CarryKeeps`); the others put a message in the browser's hands
  (`ToldKeeps`). Each action is shown to be one of them, or the opening or closing
  of a connection (`OpenKeeps`, `CloseKeeps`).

So every safety property a passing run checks is proved for all values of the
constants. What is only model-checked is liveness (`EventuallyDecided`,
`ConsumeReturns`, `BrokenIsReplaced`, `QueueDrains`, `Settles`): it rests on fairness
and ENABLED, which the prover does not handle.

## Abstractions

* In `DecisionEngine` a policy set is what it concludes from groups of spans: it fails
  on some, keeps on some, drops otherwise. Policies with a memory (the rate limiter)
  are outside this abstraction; they are in `PolicyEval`.
* In `BrowserView` a trace is a number of spans, a state and a decision, and an
  evaluation may come out either way or fail: contents are `PolicyEval`'s business.
* A payload is a count and a span group has a size wherever contents do not matter.
  In `TraceData` a span's name stands for all that is stored and comes back as it
  was (kind, identifiers, status message), and `extra` is the set of what does not come
  back; the five synthetic attributes the server adds for display are left out.
* Which traces a probabilistic policy samples and which an OTTL expression holds on
  or fails on, given a span, its resource and its extra, is data; so is what an
  expression matches. What is modelled is what
  the code makes of the answers.
* The limiter's time is in whole seconds: tokens flow in continuously in the code,
  and the bound on them does not depend on the grain.
* Statistics per policy and the counters of dials are left out.
* Heartbeats write to the socket; that the server answers changes nothing.

## Not modelled

* Wire framing: a header of two bytes before the payload, without state; the first
  byte that matters to the protocol, hello or not, is in `Exporter`.
* The YAML form of a policy and the parsing of queries: a configuration is the list of
  policies it compiles to, a term what it parses to. A configuration that does not
  compile changes nothing.
* The OTTL filter (`internal/upstreamtsp/filterottl`): glue around an external
  expression language.
* The AI assistant, the React components, the commands and the load generator: no
  shared state, no protocol of their own.
* The width of the integer `nextBackoff` doubles: the configured maximum is far
  below where it would wrap. How often `Run` redials is not bounded by the code, and
  no property says it is.

## Plan

Done: `TraceStore`, `DecisionEngine`, `SessionControl`, `Exporter`, `BrowserView`,
`SamplingPolicies` with `PolicyEval`, the abstract specifications `PreviewLifecycle`
and `LossyChannel`, and the proof modules. What is left:

1. Statistics per policy, with the matches a reopened trace leaves behind.
