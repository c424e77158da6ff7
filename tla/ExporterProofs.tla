--------------------------- MODULE ExporterProofs ---------------------------
(***************************************************************************)
(* Proofs about Exporter, for any number of pipeline goroutines, any queue *)
(* and any number of payloads.                                             *)
(***************************************************************************)
EXTENDS Exporter, FiniteSetTheorems, TLAPS

\* The count of the goroutines at a point of ConsumeTraces is a number.
LEMMA AtFinite ==
  ASSUME NEW pc
  PROVE  /\ IsFiniteSet(At(pc))
         /\ Cardinality(At(pc)) \in Nat
  <1>1. At(pc) \subseteq Consumer
    BY DEF At
  <1> QED
    BY <1>1, FS_Subset, FS_CardinalityType, ExporterAssumption DEF ExporterAssumption

\* What the counters become when a payload is counted.
LEMMA MetricsUpdates ==
  ASSUME metrics \in Metrics
  PROVE  /\ Dropped \in Metrics
         /\ Sent \in Metrics
         /\ \A n \in {-1, 1} : Gauged(n) \in Metrics
  BY DEF Metrics, Dropped, Sent, Gauged

\* Sending appends a frame, and reading takes one off.
LEMMA WireUpdates ==
  ASSUME wire \in Seq(Frames)
  PROVE  /\ \A f \in Frames : Append(wire, f) \in Seq(Frames)
         /\ wire # << >> => Tail(wire) \in Seq(Frames)
         /\ << >> \in Seq(Frames)
  OBVIOUS

-----------------------------------------------------------------------------
\* Every variable keeps its type; in particular the queue never holds more
\* than QueueSize payloads (exporter.go:47-58, 116-121).
THEOREM TypeCorrect == Spec => []TypeOK
  <1> USE ExporterAssumption DEF ExporterAssumption
  <1>1. Init => TypeOK
    <2> SUFFICES ASSUME Init PROVE TypeOK
      OBVIOUS
    <2>1. metrics \in Metrics /\ wire \in Seq(Frames)
      BY DEF Init, Metrics
    <2>2. /\ consumer \in [Consumer -> {"idle", "offer", "count"}]
          /\ slipped \in [Consumer -> Nat]
      BY DEF Init
    <2>3. queued \in 0 .. QueueSize /\ backoff \in Nat /\ offered \in Nat
      BY DEF Init
    <2> QED
      BY <2>1, <2>2, <2>3 DEF Init, TypeOK
  <1>2. TypeOK /\ [Next]_vars => TypeOK'
    <2> SUFFICES ASSUME TypeOK, [Next]_vars PROVE TypeOK'
      OBVIOUS
    <2> USE MetricsUpdates, WireUpdates DEF TypeOK
    <2>1. CASE UNCHANGED vars
      BY <2>1 DEF vars, queueVars, linkVars
    <2>2. ASSUME NEW c \in Consumer, Consume(c) \/ ConsumeStep(c) PROVE TypeOK'
      <3>1. CASE Consume(c)
        BY <3>1 DEF Consume, linkVars
      <3>2. CASE Offer(c)
        BY <3>2 DEF Offer, linkVars
      <3>3. CASE Count(c)
        BY <3>3 DEF Count, linkVars
      <3> QED
        BY <2>2, <3>1, <3>2, <3>3 DEF ConsumeStep
    <2>3. CASE WriterStep
      <3>1. CASE Take \/ CountTaken
        BY <3>1 DEF Take, CountTaken, linkVars, queueVars
      <3>2. CASE StartWrite
        BY <3>2 DEF StartWrite, linkVars, queueVars
      <3>3. CASE EndWrite
        BY <3>3 DEF EndWrite, Frames, queueVars
      <3>4. CASE StopWriter
        BY <3>4 DEF StopWriter, linkVars, queueVars
      <3> QED
        BY <2>3, <3>1, <3>2, <3>3, <3>4 DEF WriterStep
    <2>4. CASE RunStep
      <3> USE DEF runFrame, queueVars, linkVars
      <3>1. CASE Dialled
        BY <3>1 DEF Dialled
      <3>2. CASE DialFails
        BY <3>2 DEF DialFails
      <3>3. CASE Waited
        BY <3>3 DEF Waited, nextBackoff
      <3>4. CASE Publish
        BY <3>4 DEF Publish
      <3>5. CASE ClearPaused
        BY <3>5 DEF ClearPaused
      <3>6. CASE SendHello
        BY <3>6 DEF SendHello, Frames
      <3>7. CASE ReadEnds
        BY <3>7 DEF ReadEnds
      <3>8. CASE CloseConn
        BY <3>8 DEF CloseConn
      <3> QED
        BY <2>4, <3>1, <3>2, <3>3, <3>4, <3>5, <3>6, <3>7, <3>8 DEF RunStep
    <2>5. CASE Beat
      BY <2>5 DEF Beat, Frames, runFrame, queueVars
    <2>6. CASE HandleControl
      BY <2>6 DEF HandleControl, linkVars
    <2>7. CASE shutdown
      BY <2>7 DEF shutdown, queueVars, linkVars
    <2>8. CASE ServerRead
      BY <2>8 DEF ServerRead, serverFrame, queueVars
    <2>9. CASE Break
      BY <2>9 DEF Break, serverFrame, queueVars
    <2> QED
      BY <2>1, <2>2, <2>3, <2>4, <2>5, <2>6, <2>7, <2>8, <2>9 DEF Next
  <1> QED
    BY <1>1, <1>2, PTL DEF Spec
-----------------------------------------------------------------------------
\* One goroutine more or less at a point of ConsumeTraces.
LEMMA AtChanges ==
  ASSUME NEW c \in Consumer, NEW pc, NEW q, q # pc,
         consumer \in [Consumer -> {"idle", "offer", "count"}],
         consumer' = [consumer EXCEPT ![c] = q]
  PROVE  /\ consumer[c] = pc => Cardinality(At(pc)') = Cardinality(At(pc)) - 1
         /\ consumer[c] # pc => At(pc)' = At(pc)
         /\ consumer[c] # q => Cardinality(At(q)') = Cardinality(At(q)) + 1
  <1>1. IsFiniteSet(At(pc)) /\ IsFiniteSet(At(q))
    BY AtFinite
  <1>2. At(pc)' = At(pc) \ {c} /\ At(q)' = At(q) \cup {c}
    BY DEF At
  <1>3. consumer[c] = pc => Cardinality(At(pc)') = Cardinality(At(pc)) - 1
    <2>1. consumer[c] = pc => c \in At(pc)
      BY DEF At
    <2> QED
      BY <1>1, <1>2, <2>1, FS_RemoveElement
  <1>4. consumer[c] # pc => At(pc)' = At(pc)
    BY <1>2 DEF At
  <1>5. consumer[c] # q => Cardinality(At(q)') = Cardinality(At(q)) + 1
    <2>1. consumer[c] # q => c \notin At(q)
      BY DEF At
    <2> QED
      BY <1>1, <1>2, <2>1, FS_AddElement
  <1> QED
    BY <1>3, <1>4, <1>5

\* What an action leaves alone leaves the counts alone.
LEMMA AtUnchanged ==
  ASSUME consumer' = consumer, NEW pc
  PROVE  At(pc)' = At(pc)
  BY DEF At

\* A step that is neither ConsumeTraces nor the writer touches no payload.
Untouched == UNCHANGED <<consumer, queued, writer, metrics, offered>>

LEMMA OtherSteps ==
  ASSUME RunStep \/ Beat \/ HandleControl \/ shutdown \/ ServerRead \/ Break
  PROVE  Untouched
  <1> USE DEF Untouched, runFrame, serverFrame, queueVars
  <1>1. RunStep => Untouched
    BY DEF RunStep, Dialled, DialFails, Waited, Publish, ClearPaused, SendHello,
           ReadEnds, CloseConn
  <1>2. Beat \/ HandleControl \/ shutdown => Untouched
    BY DEF Beat, HandleControl, shutdown
  <1>3. ServerRead \/ Break => Untouched
    BY DEF ServerRead, Break
  <1> QED
    BY <1>1, <1>2, <1>3

\* No payload is lost or counted twice (exporter.go:84-124).
THEOREM LedgerBalances == Spec => []Ledger
  <1>1. Init => Ledger
    <2> SUFFICES ASSUME Init PROVE Ledger
      OBVIOUS
    <2>1. At("offer") = {}
      BY DEF Init, At
    <2> QED
      BY <2>1, FS_EmptySet DEF Init, Ledger
  <1>2. TypeOK /\ Ledger /\ [Next]_vars => Ledger'
    <2> SUFFICES ASSUME TypeOK, Ledger, [Next]_vars PROVE Ledger'
      OBVIOUS
    <2>1. /\ metrics \in Metrics /\ queued \in Nat /\ offered \in Nat
          /\ consumer \in [Consumer -> {"idle", "offer", "count"}]
          /\ Cardinality(At("offer")) \in Nat
      BY AtFinite, ExporterAssumption DEF TypeOK, ExporterAssumption
    <2>2. CASE Untouched
      BY <2>2, AtUnchanged DEF Untouched, Ledger
    <2>3. ASSUME NEW c \in Consumer, Consume(c) PROVE Ledger'
      <3>1. CASE paused
        BY <2>1, <2>3, <3>1, AtUnchanged DEF Consume, Ledger, Dropped, Metrics
      <3>2. CASE ~ paused
        <4>1. Cardinality(At("offer")') = Cardinality(At("offer")) + 1
          BY <2>1, <2>3, <3>2, AtChanges DEF Consume
        <4> QED
          BY <2>1, <2>3, <3>2, <4>1 DEF Consume, Ledger, Metrics
      <3> QED
        BY <3>1, <3>2
    <2>4. ASSUME NEW c \in Consumer, Offer(c) PROVE Ledger'
      <3>1. Cardinality(At("offer")') = Cardinality(At("offer")) - 1
        BY <2>1, <2>4, AtChanges DEF Offer
      <3> QED
        BY <2>1, <2>4, <3>1 DEF Offer, Ledger, Dropped, Metrics
    <2>5. ASSUME NEW c \in Consumer, Count(c) PROVE Ledger'
      <3>1. At("offer")' = At("offer")
        BY <2>1, <2>5, AtChanges DEF Count
      <3> QED
        BY <2>1, <2>5, <3>1 DEF Count, Ledger, Gauged, Metrics
    <2>6. CASE WriterStep
      <3>1. At("offer")' = At("offer")
        BY <2>6, AtUnchanged
           DEF WriterStep, Take, CountTaken, StartWrite, EndWrite, StopWriter, queueVars
      <3> USE <2>1, <3>1 DEF Ledger, queueVars
      <3>2. CASE Take \/ CountTaken
        BY <3>2 DEF Take, CountTaken, Gauged, Metrics
      <3>3. CASE StartWrite
        BY <3>3 DEF StartWrite, Dropped, Metrics
      <3>4. CASE EndWrite
        <4>1. metrics' = Sent \/ metrics' = Dropped
          BY <3>4 DEF EndWrite
        <4>2. metrics'.sent + metrics'.dropped = metrics.sent + metrics.dropped + 1
          BY <4>1 DEF Sent, Dropped, Metrics
        <4> QED
          BY <3>4, <4>2 DEF EndWrite, Metrics
      <3>5. CASE StopWriter
        BY <3>5 DEF StopWriter
      <3> QED
        BY <2>6, <3>2, <3>3, <3>4, <3>5 DEF WriterStep
    <2>7. CASE UNCHANGED vars
      BY <2>2, <2>7 DEF vars, queueVars, Untouched
    <2> QED
      BY <2>2, <2>3, <2>4, <2>5, <2>6, <2>7, OtherSteps DEF Next, ConsumeStep
  <1> QED
    BY <1>1, <1>2, TypeCorrect, PTL DEF Spec

\* The gauge differs from the queue by the calls that have queued a payload and
\* not counted it and by the payload the writer has taken and not counted, and
\* by nothing else (exporter.go:89-90, 117-118).
THEOREM GaugeLags == Spec => []GaugeTracksQueue
  <1>1. Init => GaugeTracksQueue
    <2> SUFFICES ASSUME Init PROVE GaugeTracksQueue
      OBVIOUS
    <2>1. At("count") = {} /\ Cardinality(At("count")) = 0
      BY FS_EmptySet DEF Init, At
    <2> QED
      BY <2>1 DEF Init, GaugeTracksQueue
  <1>2. TypeOK /\ GaugeTracksQueue /\ [Next]_vars => GaugeTracksQueue'
    <2> SUFFICES ASSUME TypeOK, GaugeTracksQueue, [Next]_vars PROVE GaugeTracksQueue'
      OBVIOUS
    <2>1. /\ metrics \in Metrics /\ queued \in Nat
          /\ consumer \in [Consumer -> {"idle", "offer", "count"}]
          /\ Cardinality(At("count")) \in Nat
      BY AtFinite, ExporterAssumption DEF TypeOK, ExporterAssumption
    <2> USE <2>1 DEF GaugeTracksQueue, Metrics
    <2>2. CASE Untouched
      BY <2>2, AtUnchanged DEF Untouched
    <2>3. ASSUME NEW c \in Consumer, Consume(c) PROVE GaugeTracksQueue'
      <3>1. At("count")' = At("count")
        <4>1. CASE paused
          BY <2>3, <4>1, AtUnchanged DEF Consume
        <4>2. CASE ~ paused
          BY <2>3, <4>2, AtChanges DEF Consume
        <4> QED
          BY <4>1, <4>2
      <3> QED
        BY <2>3, <3>1 DEF Consume, Dropped
    <2>4. ASSUME NEW c \in Consumer, Offer(c) PROVE GaugeTracksQueue'
      <3>1. CASE consumer' = [consumer EXCEPT ![c] = "count"]
        <4>1. Cardinality(At("count")') = Cardinality(At("count")) + 1
          BY <2>4, <3>1, AtChanges DEF Offer
        <4> QED
          BY <2>4, <3>1, <4>1 DEF Offer
      <3>2. CASE consumer' = [consumer EXCEPT ![c] = "idle"]
        <4>1. At("count")' = At("count")
          BY <2>4, <3>2, AtChanges DEF Offer
        <4> QED
          BY <2>4, <3>2, <4>1 DEF Offer, Dropped
      <3> QED
        BY <2>4, <3>1, <3>2 DEF Offer
    <2>5. ASSUME NEW c \in Consumer, Count(c) PROVE GaugeTracksQueue'
      <3>1. Cardinality(At("count")') = Cardinality(At("count")) - 1
        BY <2>5, AtChanges DEF Count
      <3> QED
        BY <2>5, <3>1 DEF Count, Gauged
    <2>6. CASE WriterStep
      <3>1. At("count")' = At("count")
        BY <2>6, AtUnchanged
           DEF WriterStep, Take, CountTaken, StartWrite, EndWrite, StopWriter, queueVars
      <3>2. CASE Take
        BY <3>1, <3>2 DEF Take
      <3>4. CASE CountTaken
        BY <3>1, <3>4 DEF CountTaken, Gauged, queueVars
      <3>3. CASE StartWrite \/ EndWrite \/ StopWriter
        <4>1. /\ queued' = queued /\ metrics' \in {metrics, Sent, Dropped}
              /\ writer # "taken" /\ writer' # "taken"
          BY <3>3 DEF StartWrite, EndWrite, StopWriter, queueVars
        <4> QED
          BY <3>1, <4>1 DEF Sent, Dropped
      <3> QED
        BY <2>6, <3>2, <3>3, <3>4 DEF WriterStep
    <2>7. CASE UNCHANGED vars
      BY <2>2, <2>7 DEF vars, queueVars, Untouched
    <2> QED
      BY <2>2, <2>3, <2>4, <2>5, <2>6, <2>7, OtherSteps DEF Next, ConsumeStep
  <1> QED
    BY <1>1, <1>2, TypeCorrect, PTL DEF Spec

-----------------------------------------------------------------------------
\* The strengthening of ConnOwned: only a writer inside a write holds writeMu,
\* so the clean-up, which takes the mutex, never runs under it.
MutexHeld == (writeMu = "writer") <=> (writer = "sending")

\* The writer never writes to a socket Run no longer owns
\* (connection.go:116-132, 207-214).
THEOREM WriterUsesOwnedConn == Spec => []ConnOwned
  <1> DEFINE Inv == TypeOK /\ MutexHeld /\ ConnOwned
  <1>1. Init => MutexHeld /\ ConnOwned
    BY DEF Init, MutexHeld, ConnOwned
  <1>2. Inv /\ [Next]_vars => MutexHeld' /\ ConnOwned'
    <2> SUFFICES ASSUME Inv, [Next]_vars PROVE MutexHeld' /\ ConnOwned'
      OBVIOUS
    <2> USE DEF TypeOK, MutexHeld, ConnOwned
    <2>1. ASSUME NEW c \in Consumer, Consume(c) \/ ConsumeStep(c)
          PROVE  MutexHeld' /\ ConnOwned'
      BY <2>1 DEF Consume, ConsumeStep, Offer, Count, linkVars
    <2>2. CASE WriterStep
      BY <2>2 DEF WriterStep, Take, CountTaken, StartWrite, EndWrite, StopWriter, linkVars
    <2>3. CASE RunStep
      BY <2>3 DEF RunStep, Dialled, DialFails, Waited, Publish, ClearPaused, SendHello,
                  ReadEnds, CloseConn, runFrame, linkVars
    <2>4. CASE Beat \/ HandleControl \/ shutdown
      BY <2>4 DEF Beat, HandleControl, shutdown, runFrame, linkVars
    <2>5. CASE ServerRead \/ Break
      BY <2>5 DEF ServerRead, Break, serverFrame
    <2>6. CASE UNCHANGED vars
      BY <2>6 DEF vars, linkVars
    <2> QED
      BY <2>1, <2>2, <2>3, <2>4, <2>5, <2>6 DEF Next
  <1> QED
    BY <1>1, <1>2, TypeCorrect, PTL DEF Spec

-----------------------------------------------------------------------------
\* The strengthening of NothingAccumulates: a goroutine that was past the test
\* of the flag when the pause came has not used up its payload before it has
\* offered it.
PauseSeen ==
  paused => \A c \in Consumer : slipped[c] <= 1 /\ (consumer[c] = "offer" => slipped[c] = 0)

\* Once the exporter is paused, each pipeline goroutine queues at most the one
\* payload it was handing over (exporter.go:105-108).
THEOREM PauseStopsQueueing == Spec => []NothingAccumulates
  <1>1. Init => PauseSeen
    BY DEF Init, PauseSeen
  <1>2. TypeOK /\ PauseSeen /\ [Next]_vars => PauseSeen'
    <2> SUFFICES ASSUME TypeOK, PauseSeen, [Next]_vars PROVE PauseSeen'
      OBVIOUS
    <2>1. /\ consumer \in [Consumer -> {"idle", "offer", "count"}]
          /\ slipped \in [Consumer -> Nat]
          /\ paused \in BOOLEAN
      BY DEF TypeOK
    <2> USE <2>1 DEF PauseSeen
    <2>2. ASSUME NEW c \in Consumer, Consume(c) PROVE PauseSeen'
      BY <2>2 DEF Consume
    <2>3. ASSUME NEW c \in Consumer, Offer(c) PROVE PauseSeen'
      BY <2>3 DEF Offer
    <2>4. ASSUME NEW c \in Consumer, Count(c) PROVE PauseSeen'
      BY <2>4 DEF Count
    <2>5. CASE WriterStep
      BY <2>5 DEF WriterStep, Take, CountTaken, StartWrite, EndWrite, StopWriter, queueVars
    <2>6. CASE RunStep \/ Beat
      BY <2>6 DEF RunStep, Dialled, DialFails, Waited, Publish, ClearPaused, SendHello,
                  ReadEnds, CloseConn, Beat, runFrame, queueVars
    <2>7. CASE HandleControl
      BY <2>7 DEF HandleControl
    <2>8. CASE shutdown \/ ServerRead \/ Break
      BY <2>8 DEF shutdown, ServerRead, Break, serverFrame, queueVars
    <2>9. CASE UNCHANGED vars
      BY <2>9 DEF vars, queueVars
    <2> QED
      BY <2>2, <2>3, <2>4, <2>5, <2>6, <2>7, <2>8, <2>9 DEF Next, ConsumeStep
  <1>3. TypeOK /\ PauseSeen => NothingAccumulates
    BY DEF PauseSeen, NothingAccumulates
  <1> QED
    BY <1>1, <1>2, <1>3, TypeCorrect, PTL DEF Spec
-----------------------------------------------------------------------------
\* What the exporter holds, besides the queue, is one payload in the writer and
\* at most one in each goroutine that is inside ConsumeTraces.
LEMMA ChannelHolds ==
  ASSUME TypeOK, Ledger
  PROVE  /\ Channel!Held \in Nat
         /\ Channel!Held <= QueueSize + Cardinality(Consumer) + 1
         /\ \A c \in Consumer : consumer[c] = "idle" =>
              Channel!Held < QueueSize + Cardinality(Consumer) + 1
         /\ \A c \in Consumer : consumer[c] = "offer" => Channel!Held > 0
         /\ writer \in {"taken", "holding", "sending"} => Channel!Held > 0
  <1> USE ExporterAssumption DEF ExporterAssumption
  <1> DEFINE n == Cardinality(At("offer"))
  <1>1. /\ metrics.sent \in Nat /\ metrics.dropped \in Nat
        /\ queued \in 0 .. QueueSize /\ offered \in Nat
    BY DEF TypeOK, Metrics
  <1>2. n \in Nat /\ Cardinality(Consumer) \in Nat
    BY AtFinite, FS_CardinalityType
  <1>3. At("offer") \subseteq Consumer
    BY DEF At
  <1>4. n <= Cardinality(Consumer)
    BY <1>3, FS_Subset
  <1>5. ASSUME NEW c \in Consumer, consumer[c] = "idle" PROVE n < Cardinality(Consumer)
    <2>1. At("offer") # Consumer
      BY <1>5 DEF At
    <2> QED
      BY <1>2, <1>3, <1>4, <2>1, FS_Subset
  <1>6. ASSUME NEW c \in Consumer, consumer[c] = "offer" PROVE n > 0
    <2>1. c \in At("offer")
      BY <1>6 DEF At
    <2>2. n # 0
      BY <2>1, AtFinite, FS_EmptySet
    <2> QED
      BY <1>2, <2>2
  <1>7. Channel!Held = queued + n + (IF writer \in {"taken", "holding", "sending"} THEN 1 ELSE 0)
    BY <1>1, <1>2 DEF Ledger, Channel!Held
  <1> HIDE DEF n
  <1> QED
    BY <1>1, <1>2, <1>4, <1>5, <1>6, <1>7

\* The exporter is a lossy channel: what the pipeline hands over is written to
\* a connection or given up, each payload once and for good, and no more than
\* the queue, the writer and the goroutines of the pipeline can hold is kept,
\* whatever becomes of the connections (exporter.go:84-124).
THEOREM ExporterIsLossyChannel == Spec => Channel!Spec
  <1> DEFINE view == <<offered, metrics.sent, metrics.dropped>>
  <1>1. Init => Channel!Init
    BY DEF Init, Channel!Init
  <1>2. TypeOK /\ Ledger /\ [Next]_vars => [Channel!Next]_view
    <2> SUFFICES ASSUME TypeOK, Ledger, [Next]_vars PROVE [Channel!Next]_view
      OBVIOUS
    <2>1. metrics \in Metrics /\ offered \in Nat
      BY DEF TypeOK
    <2>2. CASE Untouched \/ UNCHANGED vars
      BY <2>2 DEF Untouched, vars, queueVars
    <2>3. ASSUME NEW c \in Consumer, Consume(c) PROVE Channel!Accept \/ Channel!Refuse
      <3>1. Channel!Held < QueueSize + Cardinality(Consumer) + 1
        BY <2>3, ChannelHolds DEF Consume
      <3> QED
        BY <2>1, <2>3, <3>1
           DEF Consume, Dropped, Metrics, Channel!Accept, Channel!Refuse
    <2>4. ASSUME NEW c \in Consumer, Offer(c) PROVE Channel!Lose \/ UNCHANGED view
      <3>1. Channel!Held > 0
        BY <2>4, ChannelHolds DEF Offer
      <3> QED
        BY <2>1, <2>4, <3>1 DEF Offer, Dropped, Metrics, Channel!Lose
    <2>5. ASSUME NEW c \in Consumer, Count(c) PROVE UNCHANGED view
      BY <2>1, <2>5 DEF Count, Gauged, Metrics
    <2>6. CASE WriterStep
      <3>1. CASE Take \/ CountTaken
        BY <2>1, <3>1 DEF Take, CountTaken, Gauged, Metrics, queueVars
      <3>2. CASE StartWrite
        <4>1. Channel!Held > 0
          BY <3>2, ChannelHolds DEF StartWrite
        <4> QED
          BY <2>1, <3>2, <4>1
             DEF StartWrite, queueVars, Dropped, Metrics, Channel!Lose, Channel!Next
      <3>3. CASE EndWrite
        <4>1. Channel!Held > 0
          BY <3>3, ChannelHolds DEF EndWrite
        <4>2. metrics' = Sent \/ metrics' = Dropped
          BY <3>3 DEF EndWrite
        <4>3. CASE metrics' = Sent
          BY <2>1, <3>3, <4>1, <4>3
             DEF EndWrite, queueVars, Sent, Metrics, Channel!Deliver, Channel!Next
        <4>4. CASE metrics' = Dropped
          BY <2>1, <3>3, <4>1, <4>4
             DEF EndWrite, queueVars, Dropped, Metrics, Channel!Lose, Channel!Next
        <4> QED
          BY <4>2, <4>3, <4>4
      <3>4. CASE StopWriter
        BY <3>4 DEF StopWriter, queueVars
      <3> QED
        BY <2>6, <3>1, <3>2, <3>3, <3>4 DEF WriterStep
    <2> HIDE DEF view
    <2> QED
      BY <2>2, <2>3, <2>4, <2>5, <2>6, OtherSteps DEF Next, ConsumeStep, Channel!Next
  <1> QED
    BY <1>1, <1>2, TypeCorrect, LedgerBalances, PTL DEF Spec, Channel!Spec
=============================================================================
