------------------------ MODULE SessionControlProofs ------------------------
(***************************************************************************)
(* Proofs about SessionControl, for any number of request handlers,        *)
(* exporters, transitions and connections.                                 *)
(***************************************************************************)
EXTENDS SessionControl, SequenceTheorems, TLAPS

Notifying == [pc : {"idle", "notify", "send"}, msg : Controls, todo : SUBSET Collector]
Connection ==
  [pc : {"down", "hello", "registered", "greeting", "serving"}, read : Sessions]

\* Every state is announced by one of the two control messages.
LEMMA ControlOfSession == \A state : sessionControlMessage(state) \in Controls
  BY DEF sessionControlMessage, Controls

LEMMA QuietType == Quiet \in Notifying
  BY DEF Quiet, Notifying, Controls

LEMMA DownType == Down \in Connection
  BY DEF Down, Connection, Sessions

\* What a handler is left with when it is done with a connection.
LEMMA DoneWithType ==
  ASSUME NEW calls \in [Caller -> Notifying], NEW c \in Collector
  PROVE  DoneWith(calls, c) \in [Caller -> Notifying]
<1> SUFFICES ASSUME NEW k \in Caller
             PROVE  (IF c \notin calls[k].todo THEN calls[k]
                     ELSE IF calls[k].todo = {c} THEN Quiet
                     ELSE [calls[k] EXCEPT !.todo = @ \ {c}]) \in Notifying
  BY DEF DoneWith
<1>1. calls[k] \in Notifying
  OBVIOUS
<1>2. [calls[k] EXCEPT !.todo = @ \ {c}] \in Notifying
  BY <1>1 DEF Notifying
<1> QED BY <1>1, <1>2, QuietType

LEMMA CallerUpdates ==
  ASSUME NEW calls \in [Caller -> Notifying], NEW k \in Caller,
         NEW msg \in Controls, NEW todo \in SUBSET Collector
  PROVE  /\ [calls EXCEPT ![k].pc = "notify", ![k].msg = msg] \in [Caller -> Notifying]
         /\ [calls EXCEPT ![k] = Quiet] \in [Caller -> Notifying]
         /\ [calls EXCEPT ![k] = [@ EXCEPT !.pc = "send", !.todo = todo]] \in [Caller -> Notifying]
<1>1. calls[k] \in Notifying
  OBVIOUS
<1>2. /\ [[calls[k] EXCEPT !.pc = "notify"] EXCEPT !.msg = msg] \in Notifying
      /\ [calls[k] EXCEPT !.pc = "send", !.todo = todo] \in Notifying
  BY <1>1 DEF Notifying
<1>3. [calls EXCEPT ![k].pc = "notify", ![k].msg = msg]
        = [calls EXCEPT ![k] = [[calls[k] EXCEPT !.pc = "notify"] EXCEPT !.msg = msg]]
  OBVIOUS
<1> QED BY <1>2, <1>3, QuietType

LEMMA LastOfAppend ==
  ASSUME NEW s \in Seq(Controls), NEW msg \in Controls
  PROVE  Append(s, msg) # << >> /\ Append(s, msg)[Len(Append(s, msg))] = msg
  OBVIOUS

LEMMA LastOfTail ==
  ASSUME NEW s \in Seq(Controls), s # << >>
  PROVE  /\ Len(s) = 1 => Tail(s) = << >> /\ Head(s) = s[Len(s)]
         /\ Len(s) # 1 => Tail(s) # << >> /\ Tail(s)[Len(Tail(s))] = s[Len(s)]
<1>1. Len(s) \in Nat \ {0} /\ Head(s) = s[1] /\ Len(Tail(s)) = Len(s) - 1
  OBVIOUS
<1>2. Len(s) = 1 => Tail(s) = << >>
  <2> SUFFICES ASSUME Len(s) = 1 PROVE Tail(s) = << >>
    OBVIOUS
  <2>1. Tail(s) \in Seq(Controls) /\ Len(Tail(s)) = 0
    BY <1>1
  <2> QED BY <2>1, EmptySeq
<1>3. Len(s) # 1 => Tail(s)[Len(Tail(s))] = s[Len(s)]
  BY <1>1
<1>4. Len(s) # 1 => Tail(s) # << >>
  <2>1. Len(s) # 1 => Len(Tail(s)) # 0
    BY <1>1
  <2>2. Len(<< >>) = 0
    OBVIOUS
  <2> QED BY <2>1, <2>2
<1>5. Len(s) = 1 => Head(s) = s[Len(s)]
  BY <1>1
<1> QED BY <1>2, <1>3, <1>4, <1>5

LEMMA LinkUpdates ==
  ASSUME NEW links \in [Collector -> Connection], NEW c \in Collector,
         NEW pc \in {"down", "hello", "registered", "greeting", "serving"},
         NEW state \in Sessions
  PROVE  /\ [links EXCEPT ![c].pc = pc] \in [Collector -> Connection]
         /\ [links EXCEPT ![c] = [pc |-> pc, read |-> state]] \in [Collector -> Connection]
         /\ [links EXCEPT ![c] = Down] \in [Collector -> Connection]
<1>1. [links[c] EXCEPT !.pc = pc] \in Connection
  BY DEF Connection
<1>2. [pc |-> pc, read |-> state] \in Connection
  BY DEF Connection
<1> QED BY <1>1, <1>2, DownType

LEMMA InboxUpdates ==
  ASSUME NEW boxes \in [Collector -> Seq(Controls)], NEW c \in Collector,
         NEW msg \in Controls
  PROVE  /\ [boxes EXCEPT ![c] = Append(@, msg)] \in [Collector -> Seq(Controls)]
         /\ [boxes EXCEPT ![c] = << >>] \in [Collector -> Seq(Controls)]
         /\ boxes[c] # << >> =>
              [boxes EXCEPT ![c] = Tail(@)] \in [Collector -> Seq(Controls)]
<1>1. /\ Append(boxes[c], msg) \in Seq(Controls)
      /\ << >> \in Seq(Controls)
      /\ boxes[c] # << >> => Tail(boxes[c]) \in Seq(Controls)
  OBVIOUS
<1> QED BY <1>1

-----------------------------------------------------------------------------
TypedState ==
  /\ session \in Sessions
  /\ caller \in [Caller -> Notifying]
  /\ link \in [Collector -> Connection]
  /\ inbox \in [Collector -> Seq(Controls)]
  /\ paused \in [Collector -> BOOLEAN]
  /\ transitions \in Nat /\ connections \in Nat
  /\ crossed \in BOOLEAN

LEMMA TypedIsTypeOK == TypedState <=> TypeOK
  BY DEF TypedState, TypeOK, Notifying, Connection

LEMMA TypeInit == Init => TypedState
<1> SUFFICES ASSUME Init PROVE TypedState
  OBVIOUS
<1>1. caller \in [Caller -> Notifying] /\ link \in [Collector -> Connection]
  BY QuietType, DownType DEF Init
<1>2. inbox \in [Collector -> Seq(Controls)] /\ paused \in [Collector -> BOOLEAN]
  BY DEF Init
<1> QED BY <1>1, <1>2 DEF Init, TypedState, Sessions

\* The type invariant is inductive as it stands.
LEMMA TypeStep == TypedState /\ [Next]_vars => TypedState'
<1> SUFFICES ASSUME TypedState, [Next]_vars PROVE TypedState'
  OBVIOUS
<1> USE SessionAssumption DEF TypedState
<1>1. ASSUME NEW k \in Caller, Transition(k) PROVE TypedState'
  <2>1. PICK state \in Sessions :
          /\ session' = state
          /\ caller' = [caller EXCEPT ![k].pc = "notify",
                                      ![k].msg = sessionControlMessage(state)]
    BY <1>1 DEF Transition
  <2>2. caller' \in [Caller -> Notifying]
    BY <2>1, CallerUpdates, ControlOfSession
  <2> QED BY <1>1, <2>1, <2>2 DEF Transition
<1>2. ASSUME NEW k \in Caller, CopyCollectors(k) PROVE TypedState'
  <2>1. Registered \in SUBSET Collector
    BY DEF Registered
  <2>2. caller' \in [Caller -> Notifying]
    <3>1. CASE Registered = {}
      BY <1>2, <3>1, CallerUpdates DEF CopyCollectors, Controls
    <3>2. CASE Registered # {}
      BY <1>2, <2>1, <3>2, CallerUpdates DEF CopyCollectors, Controls
    <3> QED BY <3>1, <3>2
  <2> QED BY <1>2, <2>2 DEF CopyCollectors
<1>3. ASSUME NEW k \in Caller, NEW c \in Collector, Send(k, c) PROVE TypedState'
  <2>1. caller[k].msg \in Controls
    BY DEF Notifying
  <2>2. inbox' \in [Collector -> Seq(Controls)]
    BY <1>3, <2>1, InboxUpdates DEF Send
  <2>3. caller' \in [Caller -> Notifying]
    BY <1>3, DoneWithType DEF Send
  <2> QED BY <1>3, <2>2, <2>3 DEF Send
<1>4. ASSUME NEW calls \in [Caller -> Notifying], NEW c \in Collector, Close(calls, c),
             crossed' \in BOOLEAN
      PROVE  TypedState'
  <2>1. link' \in [Collector -> Connection]
    BY <1>4, LinkUpdates DEF Close, Sessions
  <2>2. inbox' \in [Collector -> Seq(Controls)]
    BY <1>4, InboxUpdates DEF Close, Controls
  <2>3. caller' \in [Caller -> Notifying]
    BY <1>4, DoneWithType DEF Close
  <2> QED BY <1>4, <2>1, <2>2, <2>3 DEF Close
<1>5. ASSUME NEW k \in Caller, NEW c \in Collector, Expire(k, c) PROVE TypedState'
  <2>1. [caller EXCEPT ![k] = Quiet] \in [Caller -> Notifying]
    BY QuietType
  <2> QED BY <1>4, <1>5, <2>1 DEF Expire
<1>6. ASSUME NEW c \in Collector, Connect(c) PROVE TypedState'
  <2>1. link' \in [Collector -> Connection]
    BY <1>6, LinkUpdates DEF Connect, Sessions
  <2> QED BY <1>6, <2>1 DEF Connect
<1>7. ASSUME NEW c \in Collector, Register(c) PROVE TypedState'
  <2>1. link' \in [Collector -> Connection]
    BY <1>7, LinkUpdates DEF Register, Sessions
  <2>2. crossed' \in BOOLEAN
    BY <1>7 DEF Register
  <2> QED BY <1>7, <2>1, <2>2 DEF Register
<1>8. ASSUME NEW c \in Collector, ReadSession(c) PROVE TypedState'
  <2>1. link' \in [Collector -> Connection]
    BY <1>8, LinkUpdates DEF ReadSession
  <2> QED BY <1>8, <2>1 DEF ReadSession
<1>9. ASSUME NEW c \in Collector, Greet(c) PROVE TypedState'
  <2>1. link' \in [Collector -> Connection]
    BY <1>9, LinkUpdates DEF Greet, Sessions
  <2>2. inbox' \in [Collector -> Seq(Controls)]
    BY <1>9, InboxUpdates, ControlOfSession DEF Greet
  <2> QED BY <1>9, <2>1, <2>2 DEF Greet
<1>10. ASSUME NEW c \in Collector, Receive(c) PROVE TypedState'
  <2>1. inbox' \in [Collector -> Seq(Controls)]
    BY <1>10, InboxUpdates DEF Receive, Controls
  <2>2. paused' \in [Collector -> BOOLEAN]
    BY <1>10 DEF Receive
  <2> QED BY <1>10, <2>1, <2>2 DEF Receive
<1>11. ASSUME NEW c \in Collector, Disconnect(c) PROVE TypedState'
  BY <1>4, <1>11 DEF Disconnect
<1>12. ASSUME UNCHANGED vars PROVE TypedState'
  BY <1>12 DEF vars
<1> QED
  BY <1>1, <1>2, <1>3, <1>5, <1>6, <1>7, <1>8, <1>9, <1>10, <1>11, <1>12 DEF Next

\* Every variable keeps its type, whatever notifications, greetings and
\* disconnections interleave (session.go, server.go:173-202, collector_ws.go).
THEOREM TypeCorrect == Spec => []TypeOK
<1>1. Spec => []TypedState
  BY TypeInit, TypeStep, PTL DEF Spec
<1> QED BY <1>1, TypedIsTypeOK, PTL
-----------------------------------------------------------------------------
(* ExportersFollowSession is not inductive: it says nothing of what is     *)
(* still on its way.  The strengthening says of a connection that is being *)
(* served that the last thing on its way to the exporter, or the last that *)
(* came, is the state of the session, unless a handler is still to send    *)
(* it; and that as long as nothing crossed, what handlers and greetings    *)
(* carry is the state of the session.                                      *)

Pending(c) == \E k \in Caller : caller[k].pc = "notify" \/ c \in caller[k].todo

Told(c) ==
  IF inbox[c] = << >> THEN paused[c] = (session # "STREAMING")
  ELSE inbox[c][Len(inbox[c])] = sessionControlMessage(session)

\* Only a handler that is sending has somebody to send to.
TodoWhileSending == \A k \in Caller : caller[k].pc # "send" => caller[k].todo = {}

CarryState == \A k \in Caller : caller[k].pc # "idle" =>
  Greeting = {} /\ caller[k].msg = sessionControlMessage(session)

GreetState == \A c \in Collector : link[c].pc = "greeting" => link[c].read = session

ServedAreTold == \A c \in Collector : link[c].pc = "serving" => Pending(c) \/ Told(c)

FollowInv ==
  /\ TypedState
  /\ TodoWhileSending
  /\ ~ crossed => CarryState /\ GreetState /\ ServedAreTold

LEMMA FollowInit == Init => FollowInv
  BY TypeInit DEF Init, FollowInv, TodoWhileSending, CarryState, GreetState,
     ServedAreTold, Quiet, Down

\* What DoneWith does to a handler.
LEMMA DoneWithCaller ==
  ASSUME NEW calls \in [Caller -> Notifying], NEW c \in Collector, NEW k \in Caller
  PROVE  /\ DoneWith(calls, c)[k].todo = calls[k].todo \ {c}
         /\ DoneWith(calls, c)[k].pc # "idle" => DoneWith(calls, c)[k] # Quiet
         /\ DoneWith(calls, c)[k] = Quiet
              \/ (DoneWith(calls, c)[k].pc = calls[k].pc /\ DoneWith(calls, c)[k].msg = calls[k].msg)
         /\ c \notin calls[k].todo => DoneWith(calls, c)[k] = calls[k]
<1>1. calls[k] \in Notifying
  OBVIOUS
<1>2. DoneWith(calls, c)[k] =
        IF c \notin calls[k].todo THEN calls[k]
        ELSE IF calls[k].todo = {c} THEN Quiet
        ELSE [calls[k] EXCEPT !.todo = @ \ {c}]
  BY DEF DoneWith
<1> QED BY <1>1, <1>2 DEF Notifying, Quiet

LEMMA TodoStep == TypedState /\ TodoWhileSending /\ [Next]_vars => TodoWhileSending'
<1> SUFFICES ASSUME TypedState, TodoWhileSending, [Next]_vars PROVE TodoWhileSending'
  OBVIOUS
<1> USE DEF TypedState
<1>1. ASSUME NEW k \in Caller, Transition(k) PROVE TodoWhileSending'
  BY <1>1 DEF Transition, TodoWhileSending, Notifying
<1>2. ASSUME NEW k \in Caller, CopyCollectors(k) PROVE TodoWhileSending'
  BY <1>2 DEF CopyCollectors, TodoWhileSending, Notifying, Quiet
<1>3. ASSUME NEW calls \in [Caller -> Notifying], NEW c \in Collector,
             \A k \in Caller : calls[k].pc # "send" => calls[k].todo = {}
      PROVE  \A k \in Caller : DoneWith(calls, c)[k].pc # "send" => DoneWith(calls, c)[k].todo = {}
  <2> SUFFICES ASSUME NEW k \in Caller, DoneWith(calls, c)[k].pc # "send"
               PROVE  DoneWith(calls, c)[k].todo = {}
    OBVIOUS
  <2>1. /\ DoneWith(calls, c)[k].todo = calls[k].todo \ {c}
        /\ DoneWith(calls, c)[k] = Quiet \/ DoneWith(calls, c)[k].pc = calls[k].pc
    BY DoneWithCaller
  <2>2. CASE DoneWith(calls, c)[k] = Quiet
    BY <2>2 DEF Quiet
  <2>3. CASE DoneWith(calls, c)[k].pc = calls[k].pc
    BY <1>3, <2>1, <2>3
  <2> QED BY <2>1, <2>2, <2>3
<1>4. ASSUME NEW k \in Caller, NEW c \in Collector, Send(k, c) PROVE TodoWhileSending'
  BY <1>3, <1>4 DEF Send, TodoWhileSending
<1>5. ASSUME NEW k \in Caller, NEW c \in Collector, Expire(k, c) PROVE TodoWhileSending'
  <2>1. [caller EXCEPT ![k] = Quiet] \in [Caller -> Notifying]
    BY QuietType
  <2>2. \A j \in Caller : [caller EXCEPT ![k] = Quiet][j].pc # "send" =>
                            [caller EXCEPT ![k] = Quiet][j].todo = {}
    BY DEF TodoWhileSending, Quiet
  <2> QED BY <1>3, <1>5, <2>1, <2>2 DEF Expire, Close, TodoWhileSending
<1>6. ASSUME NEW c \in Collector, Disconnect(c) PROVE TodoWhileSending'
  BY <1>3, <1>6 DEF Disconnect, Close, TodoWhileSending
<1>7. ASSUME NEW c \in Collector,
             Connect(c) \/ Register(c) \/ ReadSession(c) \/ Greet(c) \/ Receive(c)
      PROVE  TodoWhileSending'
  BY <1>7 DEF Connect, Register, ReadSession, Greet, Receive, TodoWhileSending
<1>8. ASSUME UNCHANGED vars PROVE TodoWhileSending'
  BY <1>8 DEF vars, TodoWhileSending
<1> QED BY <1>1, <1>2, <1>4, <1>5, <1>6, <1>7, <1>8 DEF Next

\* A connection closes: nothing else that was on its way is touched.
LEMMA CloseFollows ==
  ASSUME NEW c \in Collector, FollowInv, ~ crossed, Close(caller, c)
  PROVE  CarryState' /\ GreetState' /\ ServedAreTold'
<1> USE DEF FollowInv, TypedState
<1>1. \A k \in Caller : /\ caller'[k].todo = caller[k].todo \ {c}
                        /\ caller'[k].pc # "idle" => caller'[k] # Quiet
                        /\ caller'[k] = Quiet \/ (caller'[k].pc = caller[k].pc
                                                  /\ caller'[k].msg = caller[k].msg)
                        /\ c \notin caller[k].todo => caller'[k] = caller[k]
  BY DoneWithCaller DEF Close
<1>2. \A d \in Collector : d # c => link'[d] = link[d] /\ inbox'[d] = inbox[d]
  BY DEF Close
<1>3. link'[c] = Down
  BY DEF Close
<1>4. Greeting' \subseteq Greeting
  BY <1>2, <1>3 DEF Greeting, Down
<1>5. CarryState'
  BY <1>1, <1>4 DEF CarryState, Close
<1>6. GreetState'
  BY <1>2, <1>3 DEF GreetState, Close, Down
<1>7. ASSUME NEW d \in Collector, link'[d].pc = "serving" PROVE Pending(d)' \/ Told(d)'
  <2>1. d # c
    BY <1>3, <1>7 DEF Down
  <2>2. link[d].pc = "serving" /\ inbox'[d] = inbox[d] /\ paused' = paused /\ session' = session
    BY <1>2, <1>7, <2>1 DEF Close
  <2>3. CASE Told(d)
    BY <2>2, <2>3 DEF Told
  <2>4. CASE Pending(d)
    <3>1. PICK k \in Caller : caller[k].pc = "notify" \/ d \in caller[k].todo
      BY <2>4 DEF Pending
    <3>2. caller[k].pc = "notify" => caller'[k] = caller[k]
      BY <1>1 DEF TodoWhileSending
    <3>3. d \in caller[k].todo => d \in caller'[k].todo
      BY <1>1, <2>1
    <3> QED BY <3>1, <3>2, <3>3 DEF Pending
  <2> QED BY <2>2, <2>3, <2>4 DEF ServedAreTold
<1> QED BY <1>5, <1>6, <1>7 DEF ServedAreTold

LEMMA TransitionFollows ==
  ASSUME NEW k \in Caller, FollowInv, Transition(k), ~ crossed'
  PROVE  CarryState' /\ GreetState' /\ ServedAreTold'
<1> USE DEF FollowInv, TypedState
<1>1. Greeting = {} /\ \A j \in Caller : caller[j].pc = "idle"
  BY DEF Transition
<1>2. PICK state \in Sessions :
        /\ session' = state
        /\ caller' = [caller EXCEPT ![k].pc = "notify",
                                    ![k].msg = sessionControlMessage(state)]
  BY DEF Transition
<1>3. /\ caller'[k].pc = "notify" /\ caller'[k].msg = sessionControlMessage(session')
      /\ \A j \in Caller : j # k => caller'[j] = caller[j]
  BY <1>2 DEF Notifying
<1>4. link' = link /\ Greeting' = {}
  BY <1>1 DEF Transition, Greeting
<1>5. CarryState'
  BY <1>1, <1>3, <1>4 DEF CarryState
<1>6. GreetState'
  BY <1>1, <1>4 DEF GreetState, Greeting
<1>7. ServedAreTold'
  BY <1>3 DEF ServedAreTold, Pending
<1> QED BY <1>5, <1>6, <1>7

LEMMA CopyFollows ==
  ASSUME NEW k \in Caller, FollowInv, ~ crossed, CopyCollectors(k)
  PROVE  CarryState' /\ GreetState' /\ ServedAreTold'
<1> USE DEF FollowInv, TypedState
<1>1. caller' = [caller EXCEPT ![k] = IF Registered = {} THEN Quiet
                                      ELSE [@ EXCEPT !.pc = "send", !.todo = Registered]]
  BY DEF CopyCollectors
<1>2. /\ \A j \in Caller : j # k => caller'[j] = caller[j]
      /\ Registered = {} => caller'[k] = Quiet
      /\ Registered # {} => /\ caller'[k].pc = "send" /\ caller'[k].msg = caller[k].msg
                            /\ caller'[k].todo = Registered
  BY <1>1 DEF Notifying
<1>3. /\ link' = link /\ inbox' = inbox /\ paused' = paused /\ session' = session
      /\ Greeting' = Greeting
  BY DEF CopyCollectors, Greeting
<1>4. CarryState'
  BY <1>2, <1>3 DEF CarryState, CopyCollectors, Quiet
<1>5. GreetState'
  BY <1>3 DEF GreetState
<1>6. ASSUME NEW d \in Collector, link'[d].pc = "serving" PROVE Pending(d)'
  BY <1>2, <1>3, <1>6 DEF Registered, Pending
<1> QED BY <1>4, <1>5, <1>6 DEF ServedAreTold

LEMMA SendFollows ==
  ASSUME NEW k \in Caller, NEW c \in Collector, FollowInv, ~ crossed, Send(k, c)
  PROVE  CarryState' /\ GreetState' /\ ServedAreTold'
<1> USE DEF FollowInv, TypedState
<1>1. caller' = [caller EXCEPT ![k] = DoneWith(caller, c)[k]]
  BY DEF Send
<1>2. \A j \in Caller : j # k => caller'[j] = caller[j]
  BY <1>1
<1>3. /\ caller'[k].todo = caller[k].todo \ {c}
      /\ caller'[k] = Quiet \/ (caller'[k].pc = caller[k].pc /\ caller'[k].msg = caller[k].msg)
  BY <1>1, DoneWithCaller
<1>4. caller[k].pc = "send" /\ caller[k].msg = sessionControlMessage(session)
  BY DEF Send, TodoWhileSending, CarryState
<1>5. /\ link' = link /\ paused' = paused /\ session' = session /\ Greeting' = Greeting
      /\ \A d \in Collector : d # c => inbox'[d] = inbox[d]
      /\ inbox'[c] = Append(inbox[c], caller[k].msg)
  BY DEF Send, Greeting
<1>6. CarryState'
  BY <1>2, <1>3, <1>5 DEF CarryState, Quiet
<1>7. GreetState'
  BY <1>5 DEF GreetState
<1>8. Told(c)'
  <2>1. inbox[c] \in Seq(Controls)
    OBVIOUS
  <2>2. inbox'[c] # << >> /\ inbox'[c][Len(inbox'[c])] = caller[k].msg
    BY <1>5, <2>1, LastOfAppend DEF Notifying
  <2> QED BY <1>4, <1>5, <2>2 DEF Told
<1>9. ASSUME NEW d \in Collector, d # c, link'[d].pc = "serving" PROVE Pending(d)' \/ Told(d)'
  <2>1. CASE Told(d)
    BY <1>5, <1>9, <2>1 DEF Told
  <2>2. CASE Pending(d)
    <3>1. PICK j \in Caller : caller[j].pc = "notify" \/ d \in caller[j].todo
      BY <2>2 DEF Pending
    <3>2. caller'[j].pc = "notify" \/ d \in caller'[j].todo
      BY <1>2, <1>3, <1>4, <1>9, <3>1
    <3> QED BY <3>2 DEF Pending
  <2> QED BY <1>5, <1>9, <2>1, <2>2 DEF ServedAreTold
<1> QED BY <1>6, <1>7, <1>8, <1>9 DEF ServedAreTold

LEMMA GreetFollows ==
  ASSUME NEW c \in Collector, FollowInv, ~ crossed, Greet(c)
  PROVE  CarryState' /\ GreetState' /\ ServedAreTold'
<1> USE DEF FollowInv, TypedState
<1>1. /\ caller' = caller /\ paused' = paused /\ session' = session
      /\ \A d \in Collector : d # c => link'[d] = link[d] /\ inbox'[d] = inbox[d]
      /\ link'[c].pc = "serving"
      /\ inbox'[c] = Append(inbox[c], sessionControlMessage(link[c].read))
  BY DEF Greet, Connection
<1>2. Greeting' \subseteq Greeting /\ c \in Greeting
  BY <1>1 DEF Greet, Greeting
<1>3. CarryState'
  BY <1>1, <1>2 DEF CarryState
<1>4. GreetState'
  BY <1>1 DEF GreetState
<1>5. Told(c)'
  <2>0. sessionControlMessage(session) \in Controls
    BY ControlOfSession
  <2>1. inbox[c] \in Seq(Controls) /\ link[c].read = session
    BY DEF GreetState, Greet
  <2>2. inbox'[c] # << >> /\ inbox'[c][Len(inbox'[c])] = sessionControlMessage(session)
    BY <1>1, <2>1, LastOfAppend, ControlOfSession, <2>0
  <2> QED BY <1>1, <2>2 DEF Told
<1>6. ASSUME NEW d \in Collector, d # c, link'[d].pc = "serving" PROVE Pending(d)' \/ Told(d)'
  BY <1>1, <1>6 DEF ServedAreTold, Pending, Told
<1> QED BY <1>3, <1>4, <1>5, <1>6 DEF ServedAreTold

LEMMA ReceiveFollows ==
  ASSUME NEW c \in Collector, FollowInv, ~ crossed, Receive(c)
  PROVE  CarryState' /\ GreetState' /\ ServedAreTold'
<1> USE DEF FollowInv, TypedState
<1>1. /\ caller' = caller /\ link' = link /\ session' = session /\ Greeting' = Greeting
      /\ \A d \in Collector : d # c => inbox'[d] = inbox[d] /\ paused'[d] = paused[d]
      /\ inbox[c] # << >> /\ inbox'[c] = Tail(inbox[c])
      /\ paused'[c] = (Head(inbox[c]) = "session.pause")
  BY DEF Receive, Greeting
<1>2. CarryState' /\ GreetState'
  BY <1>1 DEF CarryState, GreetState
<1>3. Told(c) => Told(c)'
  <2> SUFFICES ASSUME Told(c) PROVE Told(c)'
    OBVIOUS
  <2>1. inbox[c] \in Seq(Controls)
    OBVIOUS
  <2>2. inbox[c][Len(inbox[c])] = sessionControlMessage(session)
    BY <1>1 DEF Told
  <2>3. CASE Len(inbox[c]) = 1
    <3>1. inbox'[c] = << >> /\ Head(inbox[c]) = inbox[c][Len(inbox[c])]
      BY <1>1, <2>1, <2>3, LastOfTail
    <3>2. paused'[c] = (sessionControlMessage(session) = "session.pause")
      BY <1>1, <2>2, <2>3, <3>1
    <3>3. paused'[c] = (session # "STREAMING")
      BY <3>2 DEF sessionControlMessage
    <3> QED BY <1>1, <3>1, <3>3 DEF Told
  <2>4. CASE Len(inbox[c]) # 1
    <3>1. inbox'[c] # << >> /\ inbox'[c][Len(inbox'[c])] = inbox[c][Len(inbox[c])]
      BY <1>1, <2>1, <2>4, LastOfTail
    <3> QED BY <1>1, <2>2, <3>1 DEF Told
  <2> QED BY <2>3, <2>4
<1>4. ASSUME NEW d \in Collector, link'[d].pc = "serving" PROVE Pending(d)' \/ Told(d)'
  <2>1. Pending(d) \/ Told(d)
    BY <1>1, <1>4 DEF ServedAreTold
  <2>2. Pending(d) => Pending(d)'
    BY <1>1 DEF Pending
  <2>3. d # c => (Told(d) => Told(d)')
    BY <1>1 DEF Told
  <2> QED BY <1>3, <2>1, <2>2, <2>3
<1> QED BY <1>2, <1>4 DEF ServedAreTold

\* A connection that is not served yet.
LEMMA ConnectingFollows ==
  ASSUME NEW c \in Collector, FollowInv, ~ crossed',
         Connect(c) \/ Register(c) \/ ReadSession(c)
  PROVE  CarryState' /\ GreetState' /\ ServedAreTold'
<1> USE DEF FollowInv, TypedState
<1>1. /\ caller' = caller /\ session' = session /\ ~ crossed
      /\ \A d \in Collector : d # c => link'[d] = link[d] /\ inbox'[d] = inbox[d]
                                                          /\ paused'[d] = paused[d]
      /\ link'[c].pc # "serving"
      /\ link'[c].pc = "greeting" => link'[c].read = session
  BY DEF Connect, Register, ReadSession, Connection
<1>2. Register(c) => \A k \in Caller : caller[k].pc = "idle"
  BY DEF Register
<1>3. ~ Register(c) => Greeting' \subseteq Greeting
  BY <1>1 DEF Connect, ReadSession, Greeting, Connection
<1>4. CarryState'
  BY <1>1, <1>2, <1>3 DEF CarryState
<1>5. GreetState'
  BY <1>1 DEF GreetState
<1>6. ASSUME NEW d \in Collector, link'[d].pc = "serving" PROVE Pending(d)' \/ Told(d)'
  BY <1>1, <1>6 DEF ServedAreTold, Pending, Told
<1> QED BY <1>4, <1>5, <1>6 DEF ServedAreTold

LEMMA FollowStep == FollowInv /\ [Next]_vars => FollowInv'
<1> SUFFICES ASSUME FollowInv, [Next]_vars PROVE FollowInv'
  OBVIOUS
<1>1. TypedState' /\ TodoWhileSending'
  BY TypeStep, TodoStep DEF FollowInv
<1>2. ASSUME ~ crossed' PROVE CarryState' /\ GreetState' /\ ServedAreTold'
  <2>1. ASSUME NEW k \in Caller, Transition(k) PROVE CarryState' /\ GreetState' /\ ServedAreTold'
    BY <1>2, <2>1, TransitionFollows
  <2>2. ASSUME NEW k \in Caller, CopyCollectors(k)
        PROVE  CarryState' /\ GreetState' /\ ServedAreTold'
    <3>1. ~ crossed
      BY <1>2, <2>2 DEF CopyCollectors
    <3> QED BY <2>2, <3>1, CopyFollows
  <2>3. ASSUME NEW k \in Caller, NEW c \in Collector, Send(k, c)
        PROVE  CarryState' /\ GreetState' /\ ServedAreTold'
    <3>1. ~ crossed
      BY <1>2, <2>3 DEF Send
    <3> QED BY <2>3, <3>1, SendFollows
  <2>4. ASSUME NEW k \in Caller, NEW c \in Collector, Expire(k, c) PROVE FALSE
    BY <1>2, <2>4 DEF Expire
  <2>5. ASSUME NEW c \in Collector, Connect(c) \/ Register(c) \/ ReadSession(c)
        PROVE  CarryState' /\ GreetState' /\ ServedAreTold'
    BY <1>2, <2>5, ConnectingFollows
  <2>6. ASSUME NEW c \in Collector, Greet(c) PROVE CarryState' /\ GreetState' /\ ServedAreTold'
    <3>1. ~ crossed
      BY <1>2, <2>6 DEF Greet
    <3> QED BY <2>6, <3>1, GreetFollows
  <2>7. ASSUME NEW c \in Collector, Receive(c) PROVE CarryState' /\ GreetState' /\ ServedAreTold'
    <3>1. ~ crossed
      BY <1>2, <2>7 DEF Receive
    <3> QED BY <2>7, <3>1, ReceiveFollows
  <2>8. ASSUME NEW c \in Collector, Disconnect(c)
        PROVE  CarryState' /\ GreetState' /\ ServedAreTold'
    <3>1. ~ crossed /\ Close(caller, c)
      BY <1>2, <2>8 DEF Disconnect
    <3> QED BY <3>1, CloseFollows
  <2>9. ASSUME UNCHANGED vars PROVE CarryState' /\ GreetState' /\ ServedAreTold'
    BY <1>2, <2>9 DEF vars, FollowInv, CarryState, GreetState, ServedAreTold, Greeting,
       Pending, Told
  <2> QED BY <2>1, <2>2, <2>3, <2>4, <2>5, <2>6, <2>7, <2>8, <2>9 DEF Next
<1> QED BY <1>1, <1>2 DEF FollowInv

LEMMA FollowImplies == FollowInv => ExportersFollowSession
  BY DEF FollowInv, ServedAreTold, ExportersFollowSession, Settled, Pending, Told

\* A connected exporter that has read its messages forwards spans exactly when
\* the session is streaming, through every connection and transition of which
\* no two crossed (session.go:74-134, server.go:173-202, collector_ws.go:86-93).
THEOREM ExportersFollow == Spec => []ExportersFollowSession
<1>1. Spec => []FollowInv
  BY FollowInit, FollowStep, PTL DEF Spec
<1> QED BY <1>1, FollowImplies, PTL
=============================================================================
