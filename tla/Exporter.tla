------------------------------ MODULE Exporter ------------------------------
(***************************************************************************)
(* exporter/tailpreviewexporter: ConsumeTraces called by the goroutines of *)
(* the production pipeline, the bounded queue, the writer goroutine, and   *)
(* the connection manager, against the reading end of HandleCollectorWS.   *)
(*                                                                         *)
(* A payload is only counted: the queue is its length.  The socket is the  *)
(* list of frames on their way (at most Window, then a write blocks) and   *)
(* whether the connection is broken.  The counters of dials are left out.  *)
(***************************************************************************)
EXTENDS Integers, FiniteSets, Sequences

CONSTANTS
  Consumer,         \* goroutines that call ConsumeTraces
  QueueSize,        \* Queue.Size, 1000 where the queue is not enabled
  Reconnect,        \* Reconnect.Enabled
  Interval,         \* Reconnect.Interval, 5s where it is not positive
  MaxBackoff,       \* maxBackoff
  Window,           \* frames the socket takes before a write blocks
  MaxOffered        \* bound on the calls of ConsumeTraces

ASSUME ExporterAssumption ==
  /\ IsFiniteSet(Consumer)
  /\ QueueSize \in Nat \ {0}
  /\ Reconnect \in BOOLEAN
  /\ Interval \in Nat \ {0}
  /\ MaxBackoff \in Nat \ {0}
  /\ Window \in Nat \ {0}
  /\ MaxOffered \in Nat

VARIABLES
  consumer,   \* where each pipeline goroutine is in ConsumeTraces
  queued,     \* payloads in the channel
  writer,     \* the goroutine of writerLoop
  run,        \* the goroutine of connectionManager.Run
  writeMu,    \* who holds it
  conn,       \* connectionManager.conn # nil
  paused,     \* connectionManager.paused
  backoff,    \* of Run
  cancelled,  \* the context of start
  broken,     \* the dialled socket is no longer usable
  wire,       \* the frames on it, in order
  server,     \* HandleCollectorWS at the other end
  metrics,    \* spansSent, spansDropped, queueSize
  offered,    \* calls of ConsumeTraces so far
  slipped     \* history: payloads each goroutine queued since paused was set

queueVars == <<consumer, queued, offered, slipped>>
linkVars == <<conn, broken, wire, server>>
vars == <<queueVars, linkVars, writer, run, writeMu, paused, backoff, cancelled, metrics>>

Metrics == [sent : Nat, dropped : Nat, queueSize : Int]
Frames == {"hello", "trace", "ping"}

Dropped == [metrics EXCEPT !.dropped = @ + 1]
Sent == [metrics EXCEPT !.sent = @ + 1]
Gauged(n) == [metrics EXCEPT !.queueSize = @ + n]

\* Mutant of SocketGone: a broken socket is not noticed.
SocketGoneUnnoticed == cancelled

\* Reads and writes fail: the socket is broken, or the context is cancelled,
\* which closes it.
SocketGone == broken \/ cancelled

nextBackoff(cur) == IF 2 * cur > MaxBackoff THEN MaxBackoff ELSE 2 * cur

-----------------------------------------------------------------------------
Init ==
  /\ consumer = [c \in Consumer |-> "idle"]
  /\ queued = 0
  /\ writer = "idle" /\ run = "dialing" /\ writeMu = "free"
  /\ conn = FALSE /\ paused = FALSE /\ cancelled = FALSE
  /\ backoff = Interval
  /\ broken = TRUE /\ wire = << >> /\ server = "new"
  /\ metrics = [sent |-> 0, dropped |-> 0, queueSize |-> 0]
  /\ offered = 0
  /\ slipped = [c \in Consumer |-> 0]

(* consumeTraces *)

\* Mutant of Consume: it does not ask whether the exporter is paused.
ConsumeUnpaused(c) ==
  /\ consumer[c] = "idle"
  /\ offered < MaxOffered
  /\ offered' = offered + 1
  /\ consumer' = [consumer EXCEPT ![c] = "offer"]
  /\ UNCHANGED <<linkVars, queued, slipped, writer, run, writeMu, paused, backoff,
                 cancelled, metrics>>

Consume(c) ==
  /\ consumer[c] = "idle"
  /\ offered < MaxOffered
  /\ offered' = offered + 1
  /\ IF paused
     THEN metrics' = Dropped /\ UNCHANGED consumer
     ELSE consumer' = [consumer EXCEPT ![c] = "offer"] /\ UNCHANGED metrics
  /\ UNCHANGED <<linkVars, queued, slipped, writer, run, writeMu, paused, backoff, cancelled>>

\* Mutants of Offer: a queue without a bound, and a send without a default.
OfferUnbounded(c) ==
  /\ consumer[c] = "offer"
  /\ queued' = queued + 1
  /\ consumer' = [consumer EXCEPT ![c] = "count"]
  /\ UNCHANGED <<linkVars, offered, slipped, writer, run, writeMu, paused, backoff,
                 cancelled, metrics>>
OfferBlocking(c) == queued < QueueSize /\ OfferUnbounded(c)

\* The payload goes to the queue, or is dropped where it is full or the
\* traces could not be marshalled.
Offer(c) ==
  /\ consumer[c] = "offer"
  /\ \/ /\ queued < QueueSize
        /\ queued' = queued + 1
        /\ consumer' = [consumer EXCEPT ![c] = "count"]
        /\ slipped' = IF paused THEN [slipped EXCEPT ![c] = @ + 1] ELSE slipped
        /\ UNCHANGED metrics
     \/ /\ metrics' = Dropped
        /\ consumer' = [consumer EXCEPT ![c] = "idle"]
        /\ UNCHANGED <<queued, slipped>>
  /\ UNCHANGED <<linkVars, offered, writer, run, writeMu, paused, backoff, cancelled>>

Count(c) ==
  /\ consumer[c] = "count"
  /\ consumer' = [consumer EXCEPT ![c] = "idle"]
  /\ metrics' = Gauged(1)
  /\ UNCHANGED <<linkVars, queued, offered, slipped, writer, run, writeMu, paused,
                 backoff, cancelled>>

(* writerLoop and SendBinary *)

\* Mutant of Take: the writer waits for a connection before it takes a payload.
TakeConnected ==
  /\ writer = "idle" /\ queued > 0 /\ conn
  /\ queued' = queued - 1
  /\ writer' = "taken"
  /\ UNCHANGED <<linkVars, consumer, offered, slipped, run, writeMu, paused, backoff,
                 cancelled, metrics>>

Take ==
  /\ writer = "idle"
  /\ queued > 0
  /\ queued' = queued - 1
  /\ writer' = "taken"
  /\ UNCHANGED <<linkVars, consumer, offered, slipped, run, writeMu, paused, backoff,
                 cancelled, metrics>>

\* Mutant of CountTaken: the gauge is not lowered.
CountTakenNot ==
  /\ writer = "taken"
  /\ writer' = "holding"
  /\ UNCHANGED <<linkVars, queueVars, run, writeMu, paused, backoff, cancelled, metrics>>

CountTaken ==
  /\ writer = "taken"
  /\ writer' = "holding"
  /\ metrics' = Gauged(-1)
  /\ UNCHANGED <<linkVars, queueVars, run, writeMu, paused, backoff, cancelled>>

\* Mutant of StartWrite: a payload without a connection is not counted.
StartWriteUncounted ==
  /\ writer = "holding" /\ writeMu = "free"
  /\ IF conn THEN writer' = "sending" /\ writeMu' = "writer"
             ELSE writer' = "idle" /\ UNCHANGED writeMu
  /\ UNCHANGED <<linkVars, queueVars, run, paused, backoff, cancelled, metrics>>

StartWrite ==
  /\ writer = "holding"
  /\ writeMu = "free"
  /\ IF conn
     THEN writer' = "sending" /\ writeMu' = "writer" /\ UNCHANGED metrics
     ELSE writer' = "idle" /\ metrics' = Dropped /\ UNCHANGED writeMu
  /\ UNCHANGED <<linkVars, queueVars, run, paused, backoff, cancelled>>

\* The write returns once the socket takes the frame or is gone.
EndWrite ==
  /\ writer = "sending"
  /\ writer' = "idle" /\ writeMu' = "free"
  /\ \/ /\ ~ broken /\ Len(wire) < Window
        /\ wire' = Append(wire, "trace")
        /\ metrics' = Sent
        /\ UNCHANGED broken
     \/ /\ SocketGone
        /\ broken' = TRUE
        /\ metrics' = Dropped
        /\ UNCHANGED wire
  /\ UNCHANGED <<queueVars, conn, server, run, paused, backoff, cancelled>>

StopWriter ==
  /\ writer = "idle" /\ cancelled
  /\ writer' = "stopped"
  /\ UNCHANGED <<queueVars, linkVars, run, writeMu, paused, backoff, cancelled, metrics>>

(* connectionManager.Run and handleConnection *)

runFrame == <<queueVars, writer, writeMu, cancelled, metrics>>

Dialled ==
  /\ run = "dialing" /\ ~ cancelled
  /\ run' = "publish"
  /\ backoff' = Interval
  /\ broken' = FALSE /\ wire' = << >> /\ server' = "new"
  /\ UNCHANGED <<runFrame, conn, paused>>

DialFails ==
  /\ run = "dialing"
  /\ run' = IF cancelled \/ ~ Reconnect THEN "stopped" ELSE "waiting"
  /\ UNCHANGED <<runFrame, linkVars, paused, backoff>>

Waited ==
  /\ run = "waiting"
  /\ IF cancelled THEN run' = "stopped" /\ UNCHANGED backoff
                  ELSE run' = "dialing" /\ backoff' = nextBackoff(backoff)
  /\ UNCHANGED <<runFrame, linkVars, paused>>

\* From here on the writer may use the connection.
Publish ==
  /\ run = "publish" /\ writeMu = "free"
  /\ run' = "clear"
  /\ conn' = TRUE
  /\ UNCHANGED <<runFrame, broken, wire, server, paused, backoff>>

ClearPaused ==
  /\ run = "clear"
  /\ run' = "hello"
  /\ paused' = FALSE
  /\ UNCHANGED <<runFrame, linkVars, backoff>>

SendHello ==
  /\ run = "hello" /\ writeMu = "free"
  /\ \/ /\ ~ broken /\ Len(wire) < Window
        /\ wire' = Append(wire, "hello")
        /\ run' = "reading"
     \/ /\ SocketGone
        /\ run' = "closing"
        /\ UNCHANGED wire
  /\ UNCHANGED <<runFrame, conn, broken, server, paused, backoff>>

\* heartbeatLoop writes a ping.
Beat ==
  /\ run = "reading" /\ writeMu = "free"
  /\ ~ broken /\ Len(wire) < Window
  /\ wire' = Append(wire, "ping")
  /\ UNCHANGED <<runFrame, run, conn, broken, server, paused, backoff>>

\* A control message of the server: a pause or a resume.
HandleControl ==
  /\ run = "reading" /\ ~ broken /\ server = "open"
  /\ paused' \in BOOLEAN
  /\ slipped' = IF paused' /\ ~ paused THEN [c \in Consumer |-> 0] ELSE slipped
  /\ UNCHANGED <<consumer, queued, offered, writer, writeMu, cancelled, metrics,
                 linkVars, run, backoff>>

ReadEnds ==
  /\ run = "reading"
  /\ SocketGone
  /\ run' = "closing"
  /\ broken' = TRUE
  /\ UNCHANGED <<runFrame, conn, wire, server, paused, backoff>>

\* Mutant of CloseConn: the connection is not withdrawn from the writer.
CloseConnKept ==
  /\ run = "closing" /\ writeMu = "free"
  /\ broken' = TRUE
  /\ run' = IF Reconnect /\ ~ cancelled THEN "dialing" ELSE "stopped"
  /\ UNCHANGED <<runFrame, conn, wire, server, paused, backoff>>

\* The deferred clean-up; then Run dials again at once.
CloseConn ==
  /\ run = "closing" /\ writeMu = "free"
  /\ conn' = FALSE /\ broken' = TRUE
  /\ run' = IF Reconnect /\ ~ cancelled THEN "dialing" ELSE "stopped"
  /\ UNCHANGED <<runFrame, wire, server, paused, backoff>>

shutdown ==
  /\ ~ cancelled
  /\ cancelled' = TRUE
  /\ UNCHANGED <<queueVars, linkVars, writer, run, writeMu, paused, backoff, metrics>>

(* The other end and the network *)

serverFrame == <<queueVars, writer, run, writeMu, conn, paused, backoff, cancelled, metrics>>

\* HandleCollectorWS refuses a connection whose first frame is not hello.
ServerRead ==
  /\ wire # << >> /\ ~ broken
  /\ wire' = Tail(wire)
  /\ server' = IF server # "new" THEN server
               ELSE IF Head(wire) = "hello" THEN "open" ELSE "refused"
  /\ broken' = (server' = "refused")
  /\ UNCHANGED serverFrame

\* The network, or a server that goes away or closes.
Break ==
  /\ ~ broken
  /\ broken' = TRUE
  /\ UNCHANGED <<serverFrame, wire, server>>

-----------------------------------------------------------------------------
ConsumeStep(c) == Offer(c) \/ Count(c)
WriterStep == Take \/ CountTaken \/ StartWrite \/ EndWrite \/ StopWriter
RunStep ==
  \/ Dialled \/ DialFails \/ Waited
  \/ Publish \/ ClearPaused \/ SendHello \/ ReadEnds \/ CloseConn

Next ==
  \/ \E c \in Consumer : Consume(c) \/ ConsumeStep(c)
  \/ WriterStep
  \/ RunStep \/ Beat \/ HandleControl \/ shutdown
  \/ ServerRead \/ Break

Spec == Init /\ [][Next]_vars

\* Only the goroutines of the pipeline are sure to run.
PipelineFairness == \A c \in Consumer : WF_vars(ConsumeStep(c))
PipelineSpec == Spec /\ PipelineFairness

\* The goroutines of the exporter run too, and Run gets writeMu even when the
\* writer takes it again and again (sync.Mutex hands it over after 1 ms); the
\* server and the network owe it nothing.
ExporterFairness == WF_vars(WriterStep) /\ SF_vars(RunStep)

\* A server that keeps reading.
ReadingFairness == WF_vars(ServerRead)

-----------------------------------------------------------------------------
TypeOK ==
  /\ consumer \in [Consumer -> {"idle", "offer", "count"}]
  /\ queued \in 0 .. QueueSize
  /\ writer \in {"idle", "taken", "holding", "sending", "stopped"}
  /\ run \in {"dialing", "waiting", "publish", "clear", "hello", "reading",
              "closing", "stopped"}
  /\ writeMu \in {"free", "writer"}
  /\ conn \in BOOLEAN /\ paused \in BOOLEAN /\ cancelled \in BOOLEAN
  /\ backoff \in Nat
  /\ broken \in BOOLEAN
  /\ wire \in Seq(Frames)
  /\ server \in {"new", "open", "refused"}
  /\ metrics \in Metrics
  /\ offered \in Nat
  /\ slipped \in [Consumer -> Nat]

At(pc) == { c \in Consumer : consumer[c] = pc }

\* Every payload the pipeline handed over is sent, dropped, queued or in the
\* hands of one goroutine, and counted as one of these only, through
\* reconnections, pauses and shutdown (exporter.go:84-124).
Ledger ==
  offered = metrics.sent + metrics.dropped + queued
            + Cardinality(At("offer"))
            + (IF writer \in {"taken", "holding", "sending"} THEN 1 ELSE 0)

\* The gauge is short of the queue by the calls that have queued their payload
\* and not counted it yet, and ahead of it by the payload the writer has taken
\* and not counted yet, so it may be negative; it differs by nothing else, and
\* agrees with the queue whenever these goroutines are elsewhere
\* (exporter.go:89-90, 117-118).
GaugeTracksQueue ==
  metrics.queueSize = queued - Cardinality(At("count"))
                      + (IF writer = "taken" THEN 1 ELSE 0)

\* Once the exporter is paused each pipeline goroutine lets at most the one
\* payload through that it was handing over: nothing accumulates in the queue
\* (exporter.go:105-108, spec.md:1001).
NothingAccumulates == paused => \A c \in Consumer : slipped[c] <= 1

\* Run owns the socket: conn is set exactly while handleConnection runs, so
\* the writer never writes to a socket of an earlier connection
\* (connection.go:116-132, 207-214).
ConnOwned ==
  /\ conn <=> run \in {"clear", "hello", "reading", "closing"}
  /\ writer = "sending" => conn

\* The exporter as its users see it.  It holds the payloads in the queue, the
\* one the writer has, and one in each goroutine of the pipeline.
Channel == INSTANCE LossyChannel WITH
  Capacity <- QueueSize + Cardinality(Consumer) + 1,
  given <- offered, delivered <- metrics.sent, lost <- metrics.dropped

\* ConsumeTraces returns although nothing else in the exporter moves: the
\* production pipeline is never blocked (exporter.go:101-124).
ConsumeReturns == \A c \in Consumer : consumer[c] # "idle" ~> consumer[c] = "idle"

\* A broken connection is torn down even when the writer is inside a write on
\* it and holds writeMu (connection.go:126-132, 207-214).
BrokenIsReplaced ==
  ExporterFairness =>
    (run = "reading" /\ broken) ~> run \in {"dialing", "waiting", "stopped"}

\* While the server keeps reading, every queued payload is sent or dropped,
\* unless the exporter is shut down (exporter.go:84-99).
QueueDrains ==
  ExporterFairness /\ ReadingFairness => queued > 0 ~> (queued = 0 \/ cancelled)

-----------------------------------------------------------------------------
\* The first thing the exporter sends on a connection is hello: "hello
\* handshake, heartbeat, and the control-plane read loop"
\* (connection.go:113-115), which HandleCollectorWS insists on.
HelloFirst == server # "refused"
=============================================================================
