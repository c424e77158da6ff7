----------------------------- MODULE BrowserView -----------------------------
(***************************************************************************)
(* What a browser shows of the server: internal/server/browser_ws.go with  *)
(* the goroutines that broadcast (server.go, collector_ws.go) against the  *)
(* web client's socket and reducer (web/src/ws.ts, state.tsx).             *)
(*                                                                         *)
(* The server's state is a value per cell: a trace, a collector, the       *)
(* policy, the session, the statistics.  A change is made under the lock   *)
(* of its owner and broadcast afterwards by the goroutine that made it, so *)
(* messages about one cell may be written in another order than the        *)
(* changes.  ver counts the changes of a cell, a message carries the value *)
(* and version its cell had when it was read; the value of the policy, the *)
(* session and the statistics is their version.  todo is what a goroutine  *)
(* still has to run, step by step.  A message written to a connection is   *)
(* read at once: a connection keeps its order, and nothing the server does *)
(* depends on what was read.                                               *)
(***************************************************************************)
EXTENDS Integers, FiniteSets, Sequences, SequencesExt

CONSTANTS
  TraceID, MaxTraces, MaxBatch,
  Reader,       \* goroutines that serve a collector connection
  Collector,    \* collector identifiers
  CollectorOf,  \* the identifier in the hello of each reader's connection
  Handler,      \* request handlers: SetPolicy, session actions
  Own,          \* those that serve a request of this browser
  Ticker,       \* the goroutine of Server.Run
  Conn,         \* the goroutine of HandleBrowserWS
  None,
  MaxOps,       \* bound on the changes made to the server
  MaxOpens      \* bound on the connections of the browser

ASSUME BrowserAssumption ==
  /\ CollectorOf \in [Reader -> Collector]
  /\ Own \subseteq Handler
  /\ MaxTraces \in Nat /\ MaxBatch \in Nat /\ MaxOps \in Nat /\ MaxOpens \in Nat
  /\ IsFiniteSet(TraceID)

VARIABLES
  store,      \* Store.byID
  live,       \* Server.collectors
  ver,        \* how often each cell changed
  todo,       \* each goroutine's remaining steps
  browsers,   \* Server.browsers: is the browser's connection in it?
  opens,      \* connections opened so far, the last one is the current
  link,       \* BrowserSocket.socket is open
  timer,      \* BrowserSocket.reconnectTimer is set
  dialling,   \* BrowserSocket.socket is being opened
  replies,    \* responses to this browser's own requests, in any order
  view,       \* AppState
  ops,        \* changes so far
  seen,       \* history: the newest version of each cell told on this connection
  overtaken,  \* history: cells whose last message is older than one before it
  missed,     \* history: cells a message about which ran into the deadline
  gone,       \* history: traces evicted since the connection's snapshot
  shared      \* history: collectors that had two connections at once

Settings == {"policy", "session", "statistics"}

Trace == [spans : Nat, state : {"RECEIVING", "READY", "DECIDED"}, decision : Nat]

\* Cells and goroutines are told apart by what they are.
ASSUME DistinctAssumption ==
  /\ TraceID \cap Collector = {} /\ (TraceID \cup Collector) \cap Settings = {}
  /\ Reader \cap Handler = {} /\ (Reader \cup Handler) \cap {Ticker, Conn} = {}
  /\ Ticker # Conn
  /\ None \notin Trace \cup BOOLEAN

Cell == TraceID \cup Collector \cup Settings
Worker == Reader \cup Handler \cup {Ticker, Conn}

serverVars == <<store, live, ver, ops, shared>>
clientVars == <<browsers, opens, link, timer, dialling, replies, view, seen,
                overtaken, missed, gone>>
vars == <<serverVars, todo, clientVars>>

Retained == { t \in TraceID : store[t] # None }
Registered(c) == \E r \in live : CollectorOf[r] = c

\* The value and version of a cell: toSummary, collectorSummaries, Policy,
\* Manager.Snapshot, Engine.Snapshot.
Read(c) == [val |-> IF c \in TraceID THEN store[c]
                    ELSE IF c \in Collector THEN Registered(c) ELSE ver[c],
            ver |-> ver[c]]

Message(type, cells) == [type |-> type, upd |-> [c \in cells |-> Read(c)]]
Told(type, c, val, v) == [type |-> type, upd |-> [x \in {c} |-> [val |-> val, ver |-> v]]]

Bump(cells) == [c \in Cell |-> IF c \in cells THEN ver[c] + 1 ELSE ver[c]]

Idle(w) == todo[w] = << >>
Doing(w, op) == todo[w] # << >> /\ Head(todo[w]).op = op
Then(w, steps) == todo' = [todo EXCEPT ![w] = steps \o Tail(@)]
Do(w, steps) == Idle(w) /\ todo' = [todo EXCEPT ![w] = steps]
Changes == ops < MaxOps /\ ops' = ops + 1

Broadcast(m) == [op |-> "broadcast", msg |-> m]

-----------------------------------------------------------------------------
Init ==
  /\ store = [t \in TraceID |-> None]
  /\ live = {}
  /\ ver = [c \in Cell |-> IF c = "policy" THEN 1 ELSE 0]
  /\ todo = [w \in Worker |-> << >>]
  /\ browsers = FALSE /\ opens = 0 /\ link = FALSE /\ timer = FALSE
  /\ dialling = TRUE
  /\ replies = {}
  /\ view = [c \in Cell |-> None]
  /\ ops = 0
  /\ seen = [c \in Cell |-> 0]
  /\ overtaken = {} /\ missed = {} /\ gone = {} /\ shared = {}

(* Changes of the server's state, and what each goes on to broadcast. *)

Register(r) ==
  LET c == CollectorOf[r]
  IN /\ r \notin live
     /\ Changes
     /\ live' = live \cup {r}
     /\ ver' = Bump({c})
     /\ Do(r, <<Broadcast(Told("collector.connected", c, TRUE, ver[c] + 1))>>)
     /\ shared' = IF Registered(c) THEN shared \cup {c} ELSE shared
     /\ UNCHANGED <<store, clientVars>>

\* Mutant: a collector that leaves without a word.
UnregisterSilently(r) ==
  /\ r \in live /\ Idle(r)
  /\ Changes
  /\ live' = live \ {r}
  /\ ver' = Bump({CollectorOf[r]})
  /\ UNCHANGED <<store, todo, shared, clientVars>>

Unregister(r) ==
  LET c == CollectorOf[r]
  IN /\ r \in live
     /\ Changes
     /\ live' = live \ {r}
     /\ ver' = Bump({c})
     /\ Do(r, <<Broadcast(Told("collector.disconnected", c, FALSE, ver[c] + 1))>>)
     /\ UNCHANGED <<store, shared, clientVars>>

\* Store.Ingest on one trace: it reopens a decided one.
Merged(t) ==
  IF store[t] = None THEN [spans |-> 1, state |-> "RECEIVING", decision |-> 0]
  ELSE [store[t] EXCEPT !.spans = @ + 1,
                        !.state = IF @ = "DECIDED" THEN "RECEIVING" ELSE @]

\* handleTraceFrame: the copies Ingest returns are those from before it
\* evicts, and nothing is broadcast about an eviction.
Frame(r) ==
  /\ r \in live
  /\ Changes
  /\ \E ids \in (SUBSET TraceID) \ {{}}, out \in SUBSET TraceID :
       LET all == Retained \cup ids
           touched == [t \in ids |-> Told("trace.updated", t, Merged(t), ver[t] + 1)]
       IN /\ Cardinality(ids) <= MaxBatch
          /\ out \subseteq all
          /\ Cardinality(all \ out) <= MaxTraces
          /\ store' = [t \in TraceID |-> IF t \in out THEN None
                                         ELSE IF t \in ids THEN Merged(t) ELSE store[t]]
          /\ ver' = [c \in Cell |-> ver[c] + (IF c \in ids THEN 1 ELSE 0)
                                           + (IF c \in out THEN 1 ELSE 0)]
          /\ gone' = gone \cup out
          /\ \E order \in SetToSeqs(ids) :
               Do(r, [i \in DOMAIN order |-> Broadcast(touched[order[i]])])
  /\ UNCHANGED <<live, shared, browsers, opens, link, timer, dialling, replies, view,
                 seen, overtaken, missed>>

\* Mutant: a sweep that does not report the statistics.
CollectDueUnreported ==
  /\ Changes
  /\ \E due \in (SUBSET { t \in Retained : store[t].state = "RECEIVING" }) \ {{}} :
       /\ store' = [t \in TraceID |->
                      IF t \in due THEN [store[t] EXCEPT !.state = "READY"] ELSE store[t]]
       /\ \E order \in SetToSeqs(due) :
            Do(Ticker, [i \in DOMAIN order |->
                          [op |-> "apply", id |-> order[i], ev |-> ver["policy"]]])
  /\ UNCHANGED <<live, ver, shared, clientVars>>

\* decideDue up to its loop.  Which traces are due is a matter of time.
CollectDue ==
  /\ Changes
  /\ \E due \in (SUBSET { t \in Retained : store[t].state = "RECEIVING" }) \ {{}} :
       /\ store' = [t \in TraceID |->
                      IF t \in due THEN [store[t] EXCEPT !.state = "READY"] ELSE store[t]]
       /\ \E order \in SetToSeqs(due) :
            Do(Ticker, [i \in DOMAIN order |->
                          [op |-> "apply", id |-> order[i], ev |-> ver["policy"]]]
                       \o <<[op |-> "statistics"]>>)
  /\ UNCHANGED <<live, ver, shared, clientVars>>

\* One turn of decideDue's loop; it is skipped where the evaluation fails or
\* the trace is gone.
Apply ==
  /\ Doing(Ticker, "apply")
  /\ LET t == Head(todo[Ticker]).id
         ev == Head(todo[Ticker]).ev
     IN \/ /\ t \in Retained
           /\ store' = [store EXCEPT ![t].state = "DECIDED", ![t].decision = ev]
           /\ ver' = Bump({t, "statistics"})
           /\ Then(Ticker, <<Broadcast(Told("trace.decided", t, ev, ver[t] + 1))>>)
        \/ Then(Ticker, << >>) /\ UNCHANGED <<store, ver>>
  /\ UNCHANGED <<live, ops, shared, clientVars>>

\* SetPolicy swaps the evaluator and resets the statistics; a request of
\* this browser ends with handlePutPolicy's response.
SetPolicy(h) ==
  /\ Changes
  /\ ver' = Bump({"policy", "statistics"})
  /\ Do(h, <<[op |-> "visit", ev |-> ver["policy"] + 1],
             Broadcast(Told("policy.updated", "policy", ver["policy"] + 1, ver["policy"] + 1)),
             [op |-> "statistics"],
             [op |-> "snapshot", to |-> 0]>>
           \o IF h \in Own THEN <<[op |-> "respond"]>> ELSE << >>)
  /\ UNCHANGED <<store, live, shared, clientVars>>

\* Its ForEachMutate re-evaluates every trace on which no policy fails.
Visit(h) ==
  /\ Doing(h, "visit")
  /\ \E ids \in SUBSET Retained :
       /\ store' = [t \in TraceID |->
                      IF t \in ids THEN [store[t] EXCEPT !.decision = Head(todo[h]).ev]
                      ELSE store[t]]
       /\ ver' = Bump(ids \cup {"statistics"})
  /\ Then(h, << >>)
  /\ UNCHANGED <<live, ops, shared, clientVars>>

\* A transition of the session manager, which then calls onSessionChange; the
\* snapshot it returns answers a request of this browser.
SessionAction(h) ==
  /\ Changes
  /\ ver' = Bump({"session"})
  /\ LET m == Told("session.state", "session", ver["session"] + 1, ver["session"] + 1)
     IN Do(h, <<Broadcast(m)>> \o IF h \in Own THEN <<[op |-> "answer", msg |-> m]>> ELSE << >>)
  /\ UNCHANGED <<store, live, shared, clientVars>>

-----------------------------------------------------------------------------
(* The steps of a broadcast. *)

\* broadcastStatistics reads the totals as it goes.
ReadStatistics(w) ==
  /\ Doing(w, "statistics")
  /\ Then(w, <<Broadcast(Message("statistics.updated", {"statistics"}))>>)
  /\ UNCHANGED <<serverVars, clientVars>>

\* snapshot() reads the traces first and the rest, lock by lock, later.
ReadTraces(w) ==
  /\ Doing(w, "snapshot")
  /\ Then(w, <<[op |-> "snapshot2", to |-> Head(todo[w]).to,
                upd |-> [t \in TraceID |-> Read(t)]]>>)
  /\ gone' = IF w = Conn THEN {} ELSE gone
  /\ UNCHANGED <<serverVars, browsers, opens, link, timer, dialling, replies, view,
                 seen, overtaken, missed>>

ReadRest(w) ==
  /\ Doing(w, "snapshot2")
  /\ LET step == Head(todo[w])
         m == [type |-> "snapshot",
               upd |-> [c \in Cell |-> IF c \in TraceID THEN step.upd[c] ELSE Read(c)]]
     IN Then(w, <<IF step.to = 0 THEN Broadcast(m)
                  ELSE [op |-> "send", to |-> step.to, msg |-> m]>>)
  /\ UNCHANGED <<serverVars, clientVars>>

\* broadcast copies the connections, then writes to each.
CopyBrowsers(w) ==
  /\ Doing(w, "broadcast")
  /\ Then(w, IF browsers THEN <<[op |-> "send", to |-> opens, msg |-> Head(todo[w]).msg]>>
             ELSE << >>)
  /\ UNCHANGED <<serverVars, clientVars>>

Newer(upd) ==
  [c \in Cell |-> IF c \in DOMAIN upd /\ upd[c].ver > seen[c] THEN upd[c].ver ELSE seen[c]]

\* applyServerMsg, and the reducer's policy-set and session-set.  A decision or
\* a disconnect changes an entry that is there.
ApplyTo(c, m) ==
  IF m.type \in {"trace.decided", "collector.disconnected"} /\ view[c] = None THEN None
  ELSE IF m.type = "trace.decided"
       THEN [view[c] EXCEPT !.state = "DECIDED", !.decision = m.upd[c].val]
       ELSE m.upd[c].val

\* Mutant: a snapshot that is merged into what is there.
ShownMerged(m) ==
  [c \in Cell |-> IF c \in DOMAIN m.upd /\ (m.type = "snapshot" => m.upd[c].val # None)
                  THEN ApplyTo(c, m) ELSE view[c]]

Shown(m) == [c \in Cell |-> IF c \in DOMAIN m.upd THEN ApplyTo(c, m) ELSE view[c]]

\* A message settles the cells it tells in full.
Settled(c, m) == c \in DOMAIN m.upd /\ m.type # "trace.decided"

Take(m) ==
  /\ view' = Shown(m)
  /\ seen' = Newer(m.upd)
  /\ overtaken' = { c \in overtaken : ~Settled(c, m) }
                  \cup { c \in DOMAIN m.upd : m.upd[c].ver < seen[c] }
  /\ missed' = { c \in missed : ~Settled(c, m) }

\* sendJSON, to a connection that is still there.
Send(w) ==
  /\ Doing(w, "send")
  /\ IF link /\ Head(todo[w]).to = opens THEN Take(Head(todo[w]).msg)
     ELSE UNCHANGED <<view, seen, overtaken, missed>>
  /\ Then(w, << >>)
  /\ UNCHANGED <<serverVars, browsers, opens, link, timer, dialling, replies, gone>>

\* The three seconds broadcast gives all browsers together are up.
Expire(w) ==
  /\ Doing(w, "send") /\ w # Conn
  /\ link /\ Head(todo[w]).to = opens
  /\ seen' = Newer(Head(todo[w]).msg.upd)
  /\ missed' = missed \cup DOMAIN Head(todo[w]).msg.upd
  /\ Then(w, << >>)
  /\ UNCHANGED <<serverVars, browsers, opens, link, timer, dialling, replies, view,
                 overtaken, gone>>

\* handlePutPolicy responds with the policy of that moment, a session action
\* with the snapshot its transition returned.
Respond(h) ==
  /\ Doing(h, "respond") \/ Doing(h, "answer")
  /\ replies' = replies \cup
       {IF Doing(h, "respond") THEN Message("policy-set", {"policy"})
        ELSE Head(todo[h]).msg}
  /\ Then(h, << >>)
  /\ UNCHANGED <<serverVars, browsers, opens, link, timer, dialling, view, seen,
                 overtaken, missed, gone>>

-----------------------------------------------------------------------------
(* The connection and the client. *)

\* Mutant: the snapshot is sent before the connection is registered.
OpenUnregistered ==
  /\ dialling /\ opens < MaxOpens
  /\ dialling' = FALSE
  /\ link' = TRUE
  /\ opens' = opens + 1
  /\ todo' = [todo EXCEPT ![Conn] = <<[op |-> "snapshot", to |-> opens + 1],
                                      [op |-> "register"]>>]
  /\ seen' = [c \in Cell |-> 0]
  /\ overtaken' = {} /\ missed' = {}
  /\ UNCHANGED <<serverVars, browsers, timer, replies, view, gone>>

\* The dial succeeds: the socket opens, HandleBrowserWS starts.
Open ==
  /\ dialling /\ opens < MaxOpens
  /\ dialling' = FALSE
  /\ link' = TRUE
  /\ opens' = opens + 1
  /\ todo' = [todo EXCEPT ![Conn] = <<[op |-> "register"],
                                      [op |-> "snapshot", to |-> opens + 1]>>]
  /\ seen' = [c \in Cell |-> 0]
  /\ overtaken' = {} /\ missed' = {}
  /\ UNCHANGED <<serverVars, browsers, timer, replies, view, gone>>

dialFrame == <<serverVars, todo, browsers, opens, link, replies, view, seen,
               overtaken, missed, gone>>

\* Mutant of DialFails: a dial that fails schedules nothing.
DialFailsForGood ==
  /\ dialling
  /\ dialling' = FALSE
  /\ UNCHANGED <<dialFrame, timer>>

\* It fails: onerror closes the socket, onclose schedules a reconnect.
DialFails ==
  /\ dialling
  /\ dialling' = FALSE
  /\ timer' = TRUE
  /\ UNCHANGED dialFrame

\* The reconnect timer fires.
Redial ==
  /\ timer
  /\ timer' = FALSE
  /\ dialling' = TRUE
  /\ UNCHANGED dialFrame

RegisterBrowser ==
  /\ Doing(Conn, "register")
  /\ browsers' = TRUE
  /\ Then(Conn, << >>)
  /\ UNCHANGED <<serverVars, opens, link, timer, dialling, replies, view, seen,
                 overtaken, missed, gone>>

\* Mutant: no deferred unregisterBrowser.
CloseRegistered ==
  /\ link
  /\ opens < MaxOpens
  /\ link' = FALSE
  /\ timer' = TRUE
  /\ todo' = [todo EXCEPT ![Conn] = << >>]
  /\ UNCHANGED <<serverVars, browsers, opens, dialling, replies, view, seen, overtaken,
                 missed, gone>>

\* The connection breaks; onclose schedules a reconnect.
Close ==
  /\ link
  /\ opens < MaxOpens
  /\ link' = FALSE
  /\ timer' = TRUE
  /\ browsers' = FALSE
  /\ todo' = [todo EXCEPT ![Conn] = << >>]
  /\ UNCHANGED <<serverVars, opens, dialling, replies, view, seen, overtaken, missed, gone>>

\* The response to a request of this browser arrives when it likes.
ReceiveReply ==
  \E m \in replies :
    /\ Take(m)
    /\ replies' = replies \ {m}
    /\ UNCHANGED <<serverVars, todo, browsers, opens, link, timer, dialling, gone>>

-----------------------------------------------------------------------------
Goroutine(w) ==
  \/ ReadStatistics(w) \/ ReadTraces(w) \/ ReadRest(w)
  \/ CopyBrowsers(w) \/ Send(w) \/ Expire(w)

\* What is under way goes on ...
Serve ==
  \/ \E w \in Worker : Goroutine(w)
  \/ \E h \in Handler : Visit(h) \/ Respond(h)
  \/ Apply \/ RegisterBrowser

\* ... at the browser too.
Browse == Open \/ DialFails \/ Redial \/ ReceiveReply

Next ==
  \/ \E r \in Reader : Register(r) \/ Unregister(r) \/ Frame(r)
  \/ \E h \in Handler : SetPolicy(h) \/ SessionAction(h)
  \/ CollectDue \/ Close
  \/ Serve \/ Browse

Spec == Init /\ [][Next]_vars

\* The goroutines wait for nothing but short critical sections, so it is enough
\* that one of them runs where one can; the browser reads its socket and keeps
\* its timer.  Any dial may fail, but not each of those it tries for ever.
Fairness ==
  /\ WF_vars(Serve)
  /\ WF_vars(ReceiveReply) /\ WF_vars(Redial)
  /\ SF_vars(Open)

FairSpec == Spec /\ Fairness

-----------------------------------------------------------------------------
TypeOK ==
  /\ store \in [TraceID -> Trace \cup {None}]
  /\ live \subseteq Reader
  /\ ver \in [Cell -> Nat] /\ seen \in [Cell -> Nat]
  /\ DOMAIN todo = Worker /\ DOMAIN view = Cell
  /\ browsers \in BOOLEAN /\ link \in BOOLEAN /\ timer \in BOOLEAN /\ dialling \in BOOLEAN
  /\ ops \in 0 .. MaxOps /\ opens \in 0 .. MaxOpens
  /\ overtaken \cup missed \subseteq Cell /\ gone \subseteq TraceID /\ shared \subseteq Collector
  /\ \A t \in TraceID : view[t] \in Trace \cup {None}
  /\ link \/ dialling \/ timer
  /\ ~(link /\ dialling) /\ ~(link /\ timer) /\ ~(dialling /\ timer)
  /\ browsers => link

\* Cells about which the browser was last told something old, or not told.
Disturbed == overtaken \cup missed

\* Every change has been broadcast and everything sent has been read.
Quiet ==
  link /\ replies = {} /\ \A w \in Worker : Idle(w)

\* READY is never broadcast.
ShownAs(v, t) ==
  /\ v # None
  /\ v.spans = t.spans /\ v.decision = t.decision
  /\ (v.state = "DECIDED") = (t.state = "DECIDED")

\* Wherever the browser connects, breaks off and reconnects between the steps
\* of the server's goroutines, in the end it shows every retained trace as it
\* is, unless a message about it overtook a newer one or ran into broadcast's
\* deadline.  No change may fall between a snapshot and the broadcasts
\* (browser_ws.go:45-48, 124-172, state.tsx:77-113).
TracesShown ==
  Quiet => \A t \in Retained \ Disturbed : ShownAs(view[t], store[t])

\* The same for the policy, the session and the statistics, whose values also
\* come back as responses to the browser's own requests (state.tsx:60-63).
SettingsShown ==
  Quiet => \A c \in Settings \ Disturbed : view[c] = ver[c]

\* A collector is shown connected exactly if it is, unless two connections
\* gave its identifier at once: the end of one is then shown as the end of
\* both (collector_ws.go:117-122, state.tsx:123-133).
CollectorsShown ==
  Quiet => \A c \in Collector \ (Disturbed \cup shared) :
             (view[c] = TRUE) = Registered(c)

\* What the browser shows and the server dropped was evicted since the
\* browser connected: nothing older survives a reconnect (state.tsx:79-91).
OnlyEvictedLinger ==
  Quiet => \A t \in TraceID \ (Retained \cup gone \cup Disturbed) : view[t] = None

\* Whatever breaks, and however many dials fail, the browser ends up connected
\* with nothing left to read, and no goroutine is left with something to send,
\* unless every dial fails from some point on (ws.ts:47-63).
Settles == <>[]Quiet

-----------------------------------------------------------------------------
\* ws.ts:1-4 says that the server "sends a fresh snapshot on every new
\* connection, so reconnecting after a drop is enough to resynchronize state":
\* a browser that has reconnected and missed nothing shows every trace as it is.
Resynchronized ==
  Quiet /\ opens > 1 => \A t \in Retained \ missed : ShownAs(view[t], store[t])
=============================================================================
