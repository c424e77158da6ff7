--------------------------- MODULE SessionControl ---------------------------
(***************************************************************************)
(* The Preview Session and how the collectors learn of it: the Manager of  *)
(* internal/session/session.go, Server.onSessionChange, the greeting of    *)
(* HandleCollectorWS and the paused flag of the exporter at the other end. *)
(*                                                                         *)
(* A transition happens under Manager.mu, its notification after the lock  *)
(* is released, by the goroutine of whoever asked for it; a connection     *)
(* registers, reads the session and sends what it read in three steps.     *)
(* A connection delivers in order; it may close at any time.               *)
(***************************************************************************)
EXTENDS Integers, FiniteSets, Sequences

CONSTANTS
  Caller,          \* request handlers that may change the session
  Collector,       \* exporters that may connect
  MaxTransitions,  \* bound on the transitions
  MaxConnections   \* bound on the connections made

ASSUME SessionAssumption ==
  /\ MaxTransitions \in Nat
  /\ MaxConnections \in Nat

VARIABLES
  session,     \* Manager.state
  caller,      \* each handler between its transition and the last send
  link,        \* each collector's connection, seen from the server
  inbox,       \* control messages on their way to each exporter
  paused,      \* connectionManager.paused of each exporter
  transitions, connections,
  crossed      \* history: a transition met another one's notification or a
               \* greeting, or a notification ran into its deadline

vars == <<session, caller, link, inbox, paused, transitions, connections, crossed>>

Sessions == {"IDLE", "STREAMING", "PAUSED"}
Controls == {"session.resume", "session.pause"}

\* The legal transitions: the state Start, Pause, Resume and Stop leave and
\* the one they enter.  From any other state they fail and change nothing.
Transitions ==
  { <<"IDLE", "STREAMING">>, <<"STREAMING", "PAUSED">>, <<"PAUSED", "STREAMING">>,
    <<"STREAMING", "IDLE">>, <<"PAUSED", "IDLE">> }

\* Mutant of sessionControlMessage: no message for an idle session.
sessionControlMessageNone(state) ==
  CASE state = "STREAMING" -> "session.resume"
    [] state = "PAUSED" -> "session.pause"
    [] OTHER -> "none"

sessionControlMessage(state) ==
  IF state = "STREAMING" THEN "session.resume" ELSE "session.pause"

Quiet == [pc |-> "idle", msg |-> "session.pause", todo |-> {}]

\* The collectors the server has registered, and those it is greeting.
Registered == { c \in Collector : link[c].pc \in {"registered", "greeting", "serving"} }
Greeting == { c \in Collector : link[c].pc \in {"registered", "greeting"} }
Down == [pc |-> "down", read |-> "IDLE"]

-----------------------------------------------------------------------------
Init ==
  /\ session = "IDLE"
  /\ caller = [k \in Caller |-> Quiet]
  /\ link = [c \in Collector |-> Down]
  /\ inbox = [c \in Collector |-> << >>]
  /\ paused = [c \in Collector |-> FALSE]
  /\ transitions = 0 /\ connections = 0
  /\ crossed = FALSE

\* Manager.Start, Pause, Resume or Stop, up to the unlock.
Transition(k) ==
  /\ caller[k].pc = "idle"
  /\ transitions < MaxTransitions
  /\ transitions' = transitions + 1
  /\ \E state \in Sessions :
       /\ <<session, state>> \in Transitions
       /\ session' = state
       /\ caller' = [caller EXCEPT ![k].pc = "notify",
                                   ![k].msg = sessionControlMessage(state)]
  /\ crossed' = (crossed \/ Greeting # {}
                         \/ \E j \in Caller : caller[j].pc # "idle")
  /\ UNCHANGED <<link, inbox, paused, connections>>

\* onSessionChange copies the set of collectors under collectorsMu.
CopyCollectors(k) ==
  /\ caller[k].pc = "notify"
  /\ caller' = [caller EXCEPT ![k] = IF Registered = {} THEN Quiet
                                     ELSE [@ EXCEPT !.pc = "send", !.todo = Registered]]
  /\ UNCHANGED <<session, link, inbox, paused, transitions, connections, crossed>>

\* The handlers of calls once they are done with sending to c.
DoneWith(calls, c) ==
  [k \in Caller |->
     IF c \notin calls[k].todo THEN calls[k]
     ELSE IF calls[k].todo = {c} THEN Quiet
     ELSE [calls[k] EXCEPT !.todo = @ \ {c}]]

\* It sends to one collector after the other, in any order.
Send(k, c) ==
  /\ c \in caller[k].todo
  /\ inbox' = [inbox EXCEPT ![c] = Append(@, caller[k].msg)]
  /\ caller' = [caller EXCEPT ![k] = DoneWith(caller, c)[k]]
  /\ UNCHANGED <<session, link, paused, transitions, connections, crossed>>

\* The connection of c closes and what was on its way is lost with it; a
\* handler that still holds the connection can only fail to send on it.
Close(calls, c) ==
  /\ link' = [link EXCEPT ![c] = Down]
  /\ inbox' = [inbox EXCEPT ![c] = << >>]
  /\ caller' = DoneWith(calls, c)
  /\ UNCHANGED <<session, paused, transitions, connections>>

\* The five seconds the sends of k share run out in the one to c: that
\* connection is closed and the sends still to come fail.
Expire(k, c) ==
  /\ c \in caller[k].todo
  /\ crossed' = TRUE
  /\ Close([caller EXCEPT ![k] = Quiet], c)

-----------------------------------------------------------------------------
\* The exporter dials, clears its flag and sends hello.
Connect(c) ==
  /\ link[c].pc = "down"
  /\ connections < MaxConnections
  /\ connections' = connections + 1
  /\ link' = [link EXCEPT ![c].pc = "hello"]
  /\ paused' = [paused EXCEPT ![c] = FALSE]
  /\ UNCHANGED <<session, caller, inbox, transitions, crossed>>

Register(c) ==
  /\ link[c].pc = "hello"
  /\ link' = [link EXCEPT ![c].pc = "registered"]
  /\ crossed' = (crossed \/ \E k \in Caller : caller[k].pc # "idle")
  /\ UNCHANGED <<session, caller, inbox, paused, transitions, connections>>

ReadSession(c) ==
  /\ link[c].pc = "registered"
  /\ link' = [link EXCEPT ![c] = [pc |-> "greeting", read |-> session]]
  /\ UNCHANGED <<session, caller, inbox, paused, transitions, connections, crossed>>

\* Mutant of Greet: the newcomer is not told.
GreetSilently(c) ==
  /\ link[c].pc = "greeting"
  /\ link' = [link EXCEPT ![c].pc = "serving"]
  /\ UNCHANGED <<session, caller, inbox, paused, transitions, connections, crossed>>

Greet(c) ==
  /\ link[c].pc = "greeting"
  /\ link' = [link EXCEPT ![c].pc = "serving"]
  /\ inbox' = [inbox EXCEPT ![c] = Append(@, sessionControlMessage(link[c].read))]
  /\ UNCHANGED <<session, caller, paused, transitions, connections, crossed>>

\* handleControlMessage of the exporter.
Receive(c) ==
  /\ inbox[c] # << >>
  /\ paused' = [paused EXCEPT ![c] = Head(inbox[c]) = "session.pause"]
  /\ inbox' = [inbox EXCEPT ![c] = Tail(@)]
  /\ UNCHANGED <<session, caller, link, transitions, connections, crossed>>

Disconnect(c) ==
  /\ link[c].pc # "down"
  /\ Close(caller, c)
  /\ UNCHANGED crossed

Next ==
  \/ \E k \in Caller : \/ Transition(k)
                       \/ CopyCollectors(k)
                       \/ \E c \in Collector : Send(k, c) \/ Expire(k, c)
  \/ \E c \in Collector : \/ Connect(c)
                          \/ Register(c)
                          \/ ReadSession(c)
                          \/ Greet(c)
                          \/ Receive(c)
                          \/ Disconnect(c)

Spec == Init /\ [][Next]_vars

-----------------------------------------------------------------------------
TypeOK ==
  /\ session \in Sessions
  /\ caller \in [Caller -> [pc : {"idle", "notify", "send"}, msg : Controls,
                            todo : SUBSET Collector]]
  /\ link \in [Collector ->
                 [pc : {"down", "hello", "registered", "greeting", "serving"},
                  read : Sessions]]
  /\ inbox \in [Collector -> Seq(Controls)]
  /\ paused \in [Collector -> BOOLEAN]
  /\ transitions \in Nat /\ connections \in Nat
  /\ crossed \in BOOLEAN

\* Nothing about the session is on its way to c any more.
Settled(c) ==
  /\ link[c].pc = "serving"
  /\ inbox[c] = << >>
  /\ \A k \in Caller : caller[k].pc # "notify" /\ c \notin caller[k].todo

\* A connected exporter that has read its messages forwards spans exactly
\* when the session is streaming, through every connection, reconnection and
\* transition of which no two crossed (session.go:74-134, server.go:173-202,
\* collector_ws.go:86-93).
ExportersFollowSession ==
  ~ crossed => \A c \in Collector :
                 Settled(c) => paused[c] = (session # "STREAMING")

\* "When a Preview Session is paused, the Collector stops sending new traces"
\* (spec.md:975).  Stated of the exporters greeted before the session
\* started, which depend on the notifications alone.
PauseStopsExporters ==
  session = "PAUSED" =>
    \A c \in Collector : Settled(c) /\ link[c].read = "IDLE" => paused[c]
=============================================================================
