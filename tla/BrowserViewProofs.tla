-------------------------- MODULE BrowserViewProofs --------------------------
(***************************************************************************)
(* Proofs about BrowserView, for any traces, collectors, goroutines and    *)
(* bounds: what a browser shows once everything sent has been read.        *)
(*                                                                         *)
(* The argument follows each cell.  Whatever is under way says of a cell   *)
(* what is true if it is about its newest version (SoundInv); while the    *)
(* browser has not been told the newest version, some goroutine has still  *)
(* to tell it (TellInv); and the spans of a trace, which a decision does   *)
(* not tell, have an argument of their own (SpanInv).                      *)
(***************************************************************************)
EXTENDS BrowserView, SequenceTheorems, FiniteSetTheorems, TLAPS

Steps(w) == Range(todo[w])

\* What a message says of a trace that is t now.
Alike(v, t) == IF t = None THEN v = None ELSE ShownAs(v, t)

Agrees(type, c, val) ==
  /\ c \in TraceID => IF type = "trace.decided"
                      THEN /\ store[c] # None /\ store[c].state = "DECIDED"
                           /\ store[c].decision = val
                      ELSE Alike(val, store[c])
  /\ c \in Collector /\ c \notin shared => (val = TRUE) = Registered(c)
  /\ c \in Settings => val = ver[c]

\* What is told of a cell, if it is about the cell as it is now, is true.
Valid(type, c, u) ==
  /\ u.ver \in 0 .. ver[c]
  /\ u.ver = ver[c] => Agrees(type, c, u.val)
  /\ c \in TraceID => IF type = "trace.decided" THEN u.val \in Nat
                      ELSE u.val \in Trace \cup {None}

Sound(m) ==
  /\ DOMAIN m.upd \subseteq Cell
  /\ m.type = "trace.decided" => DOMAIN m.upd \subseteq TraceID
  /\ m.type = "collector.disconnected" =>
       DOMAIN m.upd \subseteq Collector /\ \A c \in DOMAIN m.upd : m.upd[c].val = FALSE
  /\ \A c \in DOMAIN m.upd : Valid(m.type, c, m.upd[c])

Telling == {"broadcast", "send", "answer"}

StepSound(w, s) ==
  /\ s.op \in Telling => Sound(s.msg)
  /\ s.op = "snapshot2" =>
       DOMAIN s.upd = TraceID /\ \A t \in TraceID : Valid("snapshot", t, s.upd[t])
  /\ s.op \in {"snapshot", "snapshot2"} => s.to = IF w = Conn THEN opens ELSE 0
  /\ s.op = "apply" => s.id \in TraceID
  /\ s.op \in {"apply", "visit"} => s.ev \in Nat
  /\ s.op = "answer" => DOMAIN s.msg.upd \cap TraceID = {}

SoundInv ==
  /\ \A w \in Worker : todo[w] \in Seq(Steps(w)) /\ \A s \in Steps(w) : StepSound(w, s)
  /\ \A m \in replies : Sound(m) /\ DOMAIN m.upd \cap TraceID = {}

\* Who changes what is reported later has still to report it.
Reports(q) ==
  \A i \in DOMAIN q :
    /\ q[i].op \in {"apply", "visit"} => \E j \in DOMAIN q : j > i /\ q[j].op = "statistics"
    /\ q[i].op = "visit" => \E j \in DOMAIN q : j > i /\ q[j].op = "snapshot"

ReportsInv == \A w \in Worker : Reports(todo[w])

\* A connection that is not registered yet will be, and gets its snapshot then.
ConnInv ==
  /\ link => opens > 0
  /\ ~link => todo[Conn] = << >>
  /\ link /\ ~browsers =>
       /\ todo[Conn] # << >> /\ Head(todo[Conn]).op = "register"
       /\ \E s \in Range(Tail(todo[Conn])) : s.op = "snapshot"

LiveInv ==
  \A q, r \in live : CollectorOf[q] = CollectorOf[r] => q = r \/ CollectorOf[q] \in shared

SeenInv == \A c \in Cell : seen[c] <= ver[c]

\* A step that will tell the browser of a cell as it was at v or later, in full
\* or not.
Will(s, c, v, full) ==
  \/ s.op = "statistics" /\ c = "statistics"
  \/ s.op = "snapshot"
  \/ s.op = "snapshot2" /\ (c \in TraceID => s.upd[c].ver >= v)
  \/ /\ s.op = "broadcast" \/ (s.op = "send" /\ s.to = opens)
     /\ c \in DOMAIN s.msg.upd /\ s.msg.upd[c].ver >= v
     /\ full => s.msg.type # "trace.decided"

Owed(c, v, full) == \E w \in Worker : \E s \in Steps(w) : Will(s, c, v, full)

OwedNewest(c) == Owed(c, ver[c], FALSE)

Current(c) == c \in TraceID => store[c] # None \/ c \notin gone

\* But for the spans, what is shown of a cell is true.
Matches(c) ==
  /\ c \in TraceID =>
       IF store[c] = None THEN view[c] = None
       ELSE view[c] # None => /\ view[c].decision = store[c].decision
                              /\ (view[c].state = "DECIDED") = (store[c].state = "DECIDED")
  /\ c \in Collector /\ c \notin shared => (view[c] = TRUE) = Registered(c)
  /\ c \in Settings => view[c] = ver[c]

TellInv ==
  link => \A c \in Cell : Current(c) =>
    \/ OwedNewest(c)
    \/ seen[c] = ver[c] /\ (c \in Disturbed \/ Matches(c))

Whole(val, t) == val # None /\ val.spans = store[t].spans

WholeShown(t) == Whole(view[t], t)

\* A step tells of a trace since version v with the spans it has.
Fresh(s, t, v) ==
  /\ s.op = "snapshot2" /\ s.upd[t].ver >= v => Whole(s.upd[t].val, t)
  /\ s.op \in Telling /\ t \in DOMAIN s.msg.upd /\ s.msg.type # "trace.decided" =>
       (s.msg.upd[t].ver >= v => Whole(s.msg.upd[t].val, t))

FreshFrom(t, v) == \A w \in Worker : \A s \in Steps(w) : Fresh(s, t, v)

\* v is the version at which the spans of the trace last changed.
SpanInv ==
  link => \A t \in Retained : \E v \in 0 .. ver[t] :
    /\ FreshFrom(t, v)
    /\ \/ Owed(t, v, TRUE)
       \/ seen[t] >= v /\ (t \in Disturbed \/ WholeShown(t))

BaseInv == TypeOK /\ SoundInv /\ ReportsInv /\ ConnInv /\ LiveInv /\ SeenInv

BrowserInv == BaseInv /\ TellInv /\ SpanInv
-----------------------------------------------------------------------------
(* Sequences of steps. *)

LEMMA NoSteps == << >> \in Seq(Range(<< >>)) /\ Range(<< >>) = {}
  BY DEF Range

LEMMA OneStep ==
  ASSUME NEW s
  PROVE  <<s>> \in Seq(Range(<<s>>)) /\ Range(<<s>>) = {s}
<1>1. Range(<<s>>) = {s}
  BY DEF Range
<1>2. <<s>> \in Seq({s})
  OBVIOUS
<1> QED BY <1>1, <1>2

LEMMA HeadAndTail ==
  ASSUME NEW q, q \in Seq(Range(q)), q # << >>
  PROVE  /\ Range(q) = {Head(q)} \cup Range(Tail(q))
         /\ Tail(q) \in Seq(Range(Tail(q)))
         /\ DOMAIN q = 1 .. Len(q) /\ Len(q) \in Nat \ {0}
         /\ DOMAIN Tail(q) = 1 .. Len(q) - 1
         /\ \A i \in 1 .. Len(q) - 1 : Tail(q)[i] = q[i + 1]
         /\ Head(q) = q[1]
<1>1. DOMAIN q = 1 .. Len(q) /\ Len(q) \in Nat \ {0} /\ Head(q) = q[1]
  OBVIOUS
<1>2. /\ Tail(q) \in Seq(Range(q)) /\ Len(Tail(q)) = Len(q) - 1
      /\ \A i \in 1 .. Len(q) - 1 : Tail(q)[i] = q[i + 1]
  BY HeadTailProperties
<1>3. DOMAIN Tail(q) = 1 .. Len(q) - 1
  BY <1>2
<1>4. Tail(q) \in Seq(Range(Tail(q)))
  BY <1>2, SeqOfRange
<1>5. ASSUME NEW s \in Range(q) PROVE s \in {Head(q)} \cup Range(Tail(q))
  <2>1. PICK i \in 1 .. Len(q) : s = q[i]
    BY <1>1 DEF Range
  <2>2. CASE i = 1
    BY <1>1, <2>1, <2>2
  <2>3. CASE i # 1
    <3>1. i - 1 \in 1 .. Len(q) - 1 /\ Tail(q)[i - 1] = q[i]
      BY <1>1, <1>2, <2>3
    <3> QED BY <1>3, <2>1, <3>1 DEF Range
  <2> QED BY <2>2, <2>3
<1>6. ASSUME NEW s \in Range(Tail(q)) PROVE s \in Range(q)
  <2>1. PICK i \in 1 .. Len(q) - 1 : s = Tail(q)[i]
    BY <1>3 DEF Range
  <2>2. i + 1 \in DOMAIN q /\ s = q[i + 1]
    BY <1>1, <1>2, <2>1
  <2> QED BY <2>2 DEF Range
<1>7. Head(q) \in Range(q)
  BY <1>1 DEF Range
<1> QED BY <1>1, <1>2, <1>3, <1>4, <1>5, <1>6, <1>7

LEMMA Spliced ==
  ASSUME NEW q, q \in Seq(Range(q)), q # << >>, NEW p, p \in Seq(Range(p))
  PROVE  /\ p \o Tail(q) \in Seq(Range(p \o Tail(q)))
         /\ Range(p \o Tail(q)) = Range(p) \cup Range(Tail(q))
<1> DEFINE S == Range(p) \cup Range(Tail(q))
<1>1. Tail(q) \in Seq(Range(Tail(q)))
  BY HeadAndTail
<1>2. p \in Seq(S) /\ Tail(q) \in Seq(S)
  BY <1>1, SeqMonotonic
<1>3. p \o Tail(q) \in Seq(S)
  BY <1>2, ConcatProperties
<1>4. p \o Tail(q) \in Seq(Range(p \o Tail(q)))
  BY <1>3, SeqOfRange
<1>5. Range(p \o Tail(q)) = Range(p) \cup Range(Tail(q))
  BY <1>2, RangeConcatenation
<1> QED BY <1>4, <1>5

LEMMA ReportsTail ==
  ASSUME NEW q, q \in Seq(Range(q)), q # << >>, Reports(q),
         NEW p, p \in Seq(Range(p)), \A s \in Range(p) : s.op \notin {"apply", "visit"}
  PROVE  Reports(p \o Tail(q))
<1> DEFINE n == p \o Tail(q)
           k == Len(p)
<1>1. k \in Nat /\ DOMAIN p = 1 .. k
  OBVIOUS
<1>2. /\ DOMAIN q = 1 .. Len(q) /\ Len(q) \in Nat \ {0}
      /\ DOMAIN Tail(q) = 1 .. Len(q) - 1 /\ Len(Tail(q)) = Len(q) - 1
      /\ \A i \in 1 .. Len(q) - 1 : Tail(q)[i] = q[i + 1]
  BY HeadAndTail
<1>3. /\ DOMAIN n = 1 .. k + Len(q) - 1
      /\ \A i \in 1 .. k : n[i] = p[i]
      /\ \A i \in k + 1 .. k + Len(q) - 1 : n[i] = q[i - k + 1]
  <2> DEFINE S == Range(p) \cup Range(Tail(q))
  <2>1. p \in Seq(S) /\ Tail(q) \in Seq(S)
    BY HeadAndTail, SeqMonotonic
  <2>2. /\ n \in Seq(S) /\ Len(n) = k + Len(q) - 1
        /\ \A i \in 1 .. k + Len(q) - 1 : n[i] = IF i <= k THEN p[i] ELSE Tail(q)[i - k]
    BY <1>1, <1>2, <2>1, ConcatProperties
  <2>3. DOMAIN n = 1 .. k + Len(q) - 1
    BY <2>2
  <2> HIDE DEF n, k
  <2> QED BY <1>1, <1>2, <2>2, <2>3
<1>4. ASSUME NEW i \in DOMAIN n, n[i].op \in {"apply", "visit"}
      PROVE  i \in k + 1 .. k + Len(q) - 1 /\ i - k + 1 \in DOMAIN q /\ n[i] = q[i - k + 1]
  <2>1. ~ (i \in 1 .. k)
    BY <1>1, <1>3, <1>4 DEF Range
  <2> HIDE DEF n, k
  <2> QED BY <1>1, <1>2, <1>3, <2>1
<1>5. ASSUME NEW i \in DOMAIN n, NEW j \in DOMAIN q, i \in k + 1 .. k + Len(q) - 1, j > i - k + 1
      PROVE  j + k - 1 \in DOMAIN n /\ j + k - 1 > i /\ n[j + k - 1] = q[j]
  <2> HIDE DEF n, k
  <2> QED BY <1>1, <1>2, <1>3, <1>5
<1> HIDE DEF n, k
<1>6. ASSUME NEW i \in DOMAIN n, n[i].op \in {"apply", "visit"}
      PROVE  /\ \E j \in DOMAIN n : j > i /\ n[j].op = "statistics"
             /\ n[i].op = "visit" => \E j \in DOMAIN n : j > i /\ n[j].op = "snapshot"
  <2>1. i \in k + 1 .. k + Len(q) - 1 /\ i - k + 1 \in DOMAIN q /\ n[i] = q[i - k + 1]
    BY <1>4, <1>6
  <2>2. PICK j \in DOMAIN q : j > i - k + 1 /\ q[j].op = "statistics"
    BY <1>6, <2>1 DEF Reports
  <2>3. n[i].op = "visit" => \E l \in DOMAIN q : l > i - k + 1 /\ q[l].op = "snapshot"
    BY <2>1 DEF Reports
  <2> QED BY <1>5, <2>1, <2>2, <2>3
<1>7. Reports(n)
  BY <1>6 DEF Reports
<1> QED BY <1>7 DEF n

LEMMA ReportsHead ==
  ASSUME NEW q, q \in Seq(Range(q)), q # << >>, Reports(q), Head(q).op \in {"apply", "visit"}
  PROVE  /\ \E s \in Range(Tail(q)) : s.op = "statistics"
         /\ Head(q).op = "visit" => \E s \in Range(Tail(q)) : s.op = "snapshot"
<1>1. /\ DOMAIN q = 1 .. Len(q) /\ Len(q) \in Nat \ {0} /\ Head(q) = q[1]
      /\ DOMAIN Tail(q) = 1 .. Len(q) - 1
      /\ \A i \in 1 .. Len(q) - 1 : Tail(q)[i] = q[i + 1]
  BY HeadAndTail
<1>2. ASSUME NEW j \in DOMAIN q, j > 1 PROVE q[j] \in Range(Tail(q))
  <2>1. j - 1 \in DOMAIN Tail(q) /\ Tail(q)[j - 1] = q[j]
    BY <1>1, <1>2
  <2> QED BY <2>1 DEF Range
<1>3. 1 \in DOMAIN q
  BY <1>1
<1>4. PICK j \in DOMAIN q : j > 1 /\ q[j].op = "statistics"
  BY <1>1, <1>3 DEF Reports
<1>5. Head(q).op = "visit" => \E i \in DOMAIN q : i > 1 /\ q[i].op = "snapshot"
  BY <1>1, <1>3 DEF Reports
<1> QED BY <1>2, <1>4, <1>5

LEMMA ReportsPlain ==
  ASSUME NEW p, \A s \in Range(p) : s.op \notin {"apply", "visit"}
  PROVE  Reports(p)
  BY DEF Reports, Range

\* One goroutine goes on: its first step, if it has one, is replaced.
Adds(w, p) ==
  /\ p \in Seq(Range(p))
  /\ \/ todo[w] = << >> /\ todo' = [todo EXCEPT ![w] = p]
     \/ todo[w] # << >> /\ todo' = [todo EXCEPT ![w] = p \o Tail(todo[w])]

LEMMA AddsSteps ==
  ASSUME TypeOK, SoundInv, NEW w \in Worker, NEW p, Adds(w, p)
  PROVE  /\ DOMAIN todo' = Worker
         /\ \A v \in Worker : todo'[v] \in Seq(Range(todo'[v]))
         /\ \A v \in Worker \ {w} : todo'[v] = todo[v]
         /\ \A v \in Worker : \A s \in Range(todo'[v]) : s \in Steps(v) \/ (v = w /\ s \in Range(p))
         /\ Range(p) \subseteq Range(todo'[w])
         /\ \A v \in Worker : \A s \in Steps(v) :
              s \in Range(todo'[v]) \/ (v = w /\ todo[w] # << >> /\ s = Head(todo[w]))
         /\ todo[w] # << >> => Range(Tail(todo[w])) \subseteq Range(todo'[w])
<1>1. DOMAIN todo = Worker /\ \A v \in Worker : todo[v] \in Seq(Range(todo[v]))
  BY DEF TypeOK, SoundInv, Steps
<1>2. CASE todo[w] = << >> /\ todo' = [todo EXCEPT ![w] = p]
  <2>1. todo'[w] = p /\ DOMAIN todo' = Worker /\ \A v \in Worker \ {w} : todo'[v] = todo[v]
    BY <1>1, <1>2
  <2>2. Range(todo[w]) = {}
    BY <1>2, NoSteps
  <2>3. p \in Seq(Range(p))
    BY DEF Adds
  <2> QED BY <1>1, <1>2, <2>1, <2>2, <2>3 DEF Steps
<1>3. CASE todo[w] # << >> /\ todo' = [todo EXCEPT ![w] = p \o Tail(todo[w])]
  <2>1. /\ todo'[w] = p \o Tail(todo[w]) /\ DOMAIN todo' = Worker
        /\ \A v \in Worker \ {w} : todo'[v] = todo[v]
    BY <1>1, <1>3
  <2>2. /\ p \o Tail(todo[w]) \in Seq(Range(p \o Tail(todo[w])))
        /\ Range(p \o Tail(todo[w])) = Range(p) \cup Range(Tail(todo[w]))
    BY <1>1, <1>3, Spliced DEF Adds
  <2>3. Range(todo[w]) = {Head(todo[w])} \cup Range(Tail(todo[w]))
    BY <1>1, <1>3, HeadAndTail
  <2>4. \A v \in Worker : todo'[v] \in Seq(Range(todo'[v]))
    BY <1>1, <2>1, <2>2
  <2> QED BY <1>3, <2>1, <2>2, <2>3, <2>4 DEF Steps
<1> QED BY <1>2, <1>3 DEF Adds

LEMMA AddsReports ==
  ASSUME TypeOK, SoundInv, ReportsInv, NEW w \in Worker, NEW p, Adds(w, p),
         \/ todo[w] = << >> /\ Reports(p)
         \/ \A s \in Range(p) : s.op \notin {"apply", "visit"}
  PROVE  ReportsInv'
<1>1. DOMAIN todo = Worker /\ \A v \in Worker : todo[v] \in Seq(Range(todo[v]))
  BY DEF TypeOK, SoundInv, Steps
<1>2. \A v \in Worker \ {w} : Reports(todo'[v])
  BY AddsSteps DEF ReportsInv
<1>3. Reports(todo'[w])
  <2>1. CASE todo[w] = << >> /\ todo' = [todo EXCEPT ![w] = p]
    BY <1>1, <2>1, ReportsPlain
  <2>2. CASE todo[w] # << >> /\ todo' = [todo EXCEPT ![w] = p \o Tail(todo[w])]
    <3>1. Reports(todo[w]) /\ p \in Seq(Range(p))
      BY DEF ReportsInv, Adds
    <3> QED BY <1>1, <2>2, <3>1, ReportsTail
  <2> QED BY <2>1, <2>2 DEF Adds
<1> QED BY <1>2, <1>3 DEF ReportsInv
-----------------------------------------------------------------------------
(* What becomes of a cell, and of what is under way about it. *)

LEMMA Kinds ==
  /\ \A c \in TraceID : c \notin Collector /\ c \notin Settings
  /\ \A c \in Collector : c \notin TraceID /\ c \notin Settings
  /\ \A c \in Settings : c \notin TraceID /\ c \notin Collector
  /\ \A c \in Cell : c \in TraceID \/ c \in Collector \/ c \in Settings
  /\ TraceID \subseteq Cell /\ Collector \subseteq Cell
  /\ "policy" \in Cell /\ "session" \in Cell /\ "statistics" \in Cell
  BY DistinctAssumption DEF Cell, Settings

LEMMA Workers ==
  /\ Ticker \in Worker /\ Conn \in Worker /\ Reader \subseteq Worker /\ Handler \subseteq Worker
  /\ Conn \notin Reader /\ Conn \notin Handler /\ Ticker # Conn
  BY DistinctAssumption DEF Worker

\* A trace that becomes READY is still the same to the browser.
SameTrace(t) ==
  \/ store'[t] = store[t]
  \/ /\ store[t] # None /\ store'[t] # None
     /\ store'[t].spans = store[t].spans /\ store'[t].decision = store[t].decision
     /\ store[t].state # "DECIDED" /\ store'[t].state # "DECIDED"

Same(c) ==
  /\ ver'[c] = ver[c]
  /\ c \in TraceID => SameTrace(c)
  /\ c \in Collector => Registered(c)' = Registered(c)

Kept(c) == ver'[c] > ver[c] \/ Same(c)

LEMMA AgreesSame ==
  ASSUME NEW c \in Cell, Same(c), shared \subseteq shared', NEW type, NEW val,
         Agrees(type, c, val)
  PROVE  Agrees(type, c, val)'
<1>1. CASE c \in TraceID
  <2>1. SameTrace(c)
    BY <1>1 DEF Same
  <2>2. CASE type = "trace.decided"
    BY <1>1, <2>1, <2>2, Kinds DEF Agrees, SameTrace
  <2>3. CASE type # "trace.decided"
    <3>1. Alike(val, store[c])
      BY <1>1, <2>3 DEF Agrees
    <3>2. Alike(val, store'[c])
      BY <2>1, <3>1 DEF Alike, ShownAs, SameTrace
    <3> QED BY <1>1, <2>3, <3>2, Kinds DEF Agrees, Alike, ShownAs
  <2> QED BY <2>2, <2>3
<1>2. CASE c \in Collector
  <2>1. Registered(c)' = Registered(c)
    BY <1>2 DEF Same
  <2>2. c \notin shared => (val = TRUE) = Registered(c)
    BY <1>2 DEF Agrees
  <2>3. c \notin shared' => (val = TRUE) = Registered(c)'
    BY <2>1, <2>2
  <2> QED BY <1>2, <2>3, Kinds DEF Agrees
<1>3. CASE c \in Settings
  BY <1>3, Kinds DEF Agrees, Same
<1> QED BY <1>1, <1>2, <1>3, Kinds

LEMMA ValidKept ==
  ASSUME ver \in [Cell -> Nat], ver' \in [Cell -> Nat], NEW c \in Cell, Kept(c),
         shared \subseteq shared', NEW type, NEW u, Valid(type, c, u)
  PROVE  Valid(type, c, u)'
<1>1. u.ver \in Nat /\ u.ver <= ver[c] /\ ver[c] \in Nat /\ ver'[c] \in Nat
  BY DEF Valid
<1>2. CASE ver'[c] > ver[c]
  <2>1. u.ver \in 0 .. ver'[c] /\ u.ver # ver'[c]
    BY <1>1, <1>2
  <2> QED BY <2>1 DEF Valid
<1>3. CASE Same(c)
  <2>1. ver'[c] = ver[c]
    BY <1>3 DEF Same
  <2>2. u.ver = ver[c] => Agrees(type, c, u.val)'
    BY <1>3, AgreesSame DEF Valid
  <2> QED BY <1>1, <2>1, <2>2 DEF Valid
<1> QED BY <1>2, <1>3 DEF Kept

LEMMA SoundKept ==
  ASSUME ver \in [Cell -> Nat], ver' \in [Cell -> Nat], \A c \in Cell : Kept(c),
         shared \subseteq shared', NEW m, Sound(m)
  PROVE  Sound(m)'
  BY ValidKept DEF Sound

LEMMA StepSoundKept ==
  ASSUME ver \in [Cell -> Nat], ver' \in [Cell -> Nat], \A c \in Cell : Kept(c),
         shared \subseteq shared', NEW w, NEW s, StepSound(w, s), w = Conn => opens' = opens
  PROVE  StepSound(w, s)'
<1>1. s.op \in Telling => Sound(s.msg)'
  BY SoundKept DEF StepSound
<1>2. s.op = "snapshot2" =>
        DOMAIN s.upd = TraceID /\ \A t \in TraceID : Valid("snapshot", t, s.upd[t])'
  BY ValidKept, Kinds DEF StepSound
<1> QED BY <1>1, <1>2 DEF StepSound

\* What is read of a cell is true.
LEMMA ReadAgrees ==
  ASSUME TypeOK, NEW c \in Cell, NEW type, type # "trace.decided"
  PROVE  Valid(type, c, Read(c)) /\ Read(c).ver = ver[c]
<1>1. ver[c] \in Nat /\ Read(c).ver = ver[c]
  BY DEF TypeOK, Read
<1>2. CASE c \in TraceID
  <2>1. Read(c).val = store[c] /\ store[c] \in Trace \cup {None}
    BY <1>2 DEF Read, TypeOK
  <2>2. Alike(store[c], store[c])
    BY DEF Alike, ShownAs
  <2> QED BY <1>1, <1>2, <2>1, <2>2, Kinds DEF Valid, Agrees
<1>3. CASE c \in Collector
  <2>1. Read(c).val = Registered(c) /\ Registered(c) \in BOOLEAN
    BY <1>3, Kinds DEF Read, Registered
  <2>2. (Read(c).val = TRUE) = Registered(c)
    BY <2>1
  <2> QED BY <1>1, <1>3, <2>2, Kinds DEF Valid, Agrees
<1>4. CASE c \in Settings
  <2>1. Read(c).val = ver[c]
    BY <1>4, Kinds DEF Read
  <2> QED BY <1>1, <1>4, <2>1, Kinds DEF Valid, Agrees
<1> QED BY <1>2, <1>3, <1>4, Kinds
-----------------------------------------------------------------------------
(* Steps of the server that change its state. *)

Untouched == UNCHANGED <<browsers, opens, link, timer, dialling, replies, view, seen, overtaken, missed>>

\* What a change of the server's state by goroutine w, which goes on with the
\* steps p, does to the cells and owes the browser.
ServerStep(w, p) ==
  /\ w # Conn
  /\ Adds(w, p)
  /\ todo[w] = << >> \/ Head(todo[w]).op \in {"apply", "visit"}
  /\ \/ todo[w] = << >> /\ Reports(p)
     \/ \A s \in Range(p) : s.op \notin {"apply", "visit"}
  /\ Untouched
  /\ TypeOK' /\ LiveInv'
  /\ gone \subseteq gone' /\ shared \subseteq shared'
  /\ \A c \in Cell :
       \/ Same(c) /\ (Current(c)' => Current(c))
       \/ ver'[c] > ver[c] /\ (Current(c)' => OwedNewest(c)')
  /\ \A s \in Range(p) : StepSound(w, s)'
  /\ \A t \in TraceID : store'[t] # None =>
       /\ \A s \in Range(p) : \A v : Fresh(s, t, v)'
       /\ \/ store[t] # None /\ store'[t].spans = store[t].spans
          \/ \E v : v = ver'[t] /\ Owed(t, v, TRUE)'

\* A promise of another step is kept.
LEMMA OwedStays ==
  ASSUME TypeOK, SoundInv, NEW w \in Worker, NEW p, Adds(w, p), opens' = opens,
         NEW c, NEW v, NEW full, Owed(c, v, full)
  PROVE  Owed(c, v, full)' \/ (todo[w] # << >> /\ Will(Head(todo[w]), c, v, full))
<1>0. PICK u \in Worker : \E s \in Steps(u) : Will(s, c, v, full)
  BY DEF Owed
<1>1. PICK s \in Steps(u) : Will(s, c, v, full)
  BY <1>0
<1>2. s \in Range(todo'[u]) \/ (u = w /\ todo[w] # << >> /\ s = Head(todo[w]))
  BY AddsSteps
<1>3. Will(s, c, v, full)'
  BY <1>1 DEF Will
<1>4. CASE s \in Range(todo'[u])
  BY <1>3, <1>4 DEF Owed, Steps
<1> QED BY <1>1, <1>2, <1>4

LEMMA OwedBy ==
  ASSUME TypeOK, SoundInv, NEW w \in Worker, NEW p, Adds(w, p),
         NEW s, s \in Range(p) \/ (todo[w] # << >> /\ s \in Range(Tail(todo[w]))),
         NEW c, NEW v, NEW full, Will(s, c, v, full)'
  PROVE  Owed(c, v, full)'
<1>1. s \in Range(todo'[w])
  BY AddsSteps
<1> QED BY <1>1 DEF Owed, Steps

\* Whatever is said of the newest version of a trace is said of its spans.
LEMMA NewestIsWhole ==
  TypeOK /\ SoundInv =>
    \A t \in TraceID : \A v : store[t] # None /\ v = ver[t] => FreshFrom(t, v)
<1> SUFFICES ASSUME TypeOK, SoundInv, NEW t \in TraceID, store[t] # None,
                    NEW w \in Worker, NEW s \in Steps(w)
             PROVE  Fresh(s, t, ver[t])
  BY DEF FreshFrom
<1>1. StepSound(w, s) /\ ver[t] \in Nat
  BY Kinds DEF SoundInv, TypeOK
<1>2. ASSUME NEW type, NEW u, Valid(type, t, u), type # "trace.decided", u.ver >= ver[t]
      PROVE  Whole(u.val, t)
  <2>1. u.ver = ver[t]
    BY <1>1, <1>2 DEF Valid
  <2>2. Alike(u.val, store[t])
    BY <1>2, <2>1 DEF Valid, Agrees
  <2> QED BY <2>2 DEF Alike, ShownAs, Whole
<1>3. s.op = "snapshot2" => Valid("snapshot", t, s.upd[t])
  BY <1>1 DEF StepSound
<1>4. s.op \in Telling /\ t \in DOMAIN s.msg.upd => Valid(s.msg.type, t, s.msg.upd[t])
  BY <1>1 DEF StepSound, Sound
<1> QED BY <1>2, <1>3, <1>4 DEF Fresh

LEMMA NewestIsWholeNext ==
  ( TypeOK /\ SoundInv =>
      \A t \in TraceID : \A v : store[t] # None /\ v = ver[t] => FreshFrom(t, v) )'
  BY NewestIsWhole, PTL

LEMMA NewestBy ==
  ASSUME NEW c, NEW v, v = ver'[c], Owed(c, v, FALSE)' \/ Owed(c, v, TRUE)'
  PROVE  OwedNewest(c)'
  BY DEF OwedNewest, Owed, Will, Steps

LEMMA MatchesSame ==
  ASSUME TypeOK, NEW c \in Cell, Same(c), shared \subseteq shared', view' = view, Matches(c)
  PROVE  Matches(c)'
<1>1. CASE c \in TraceID
  <2>1. SameTrace(c)
    BY <1>1 DEF Same
  <2>2. IF store'[c] = None THEN view[c] = None
        ELSE view[c] # None => /\ view[c].decision = store'[c].decision
                               /\ (view[c].state = "DECIDED") = (store'[c].state = "DECIDED")
    BY <1>1, <2>1 DEF Matches, SameTrace
  <2> QED BY <1>1, <2>2, Kinds DEF Matches
<1>2. CASE c \in Collector
  <2>1. Registered(c)' = Registered(c)
    BY <1>2 DEF Same
  <2>2. c \notin shared => (view[c] = TRUE) = Registered(c)
    BY <1>2 DEF Matches
  <2>3. c \notin shared' => (view'[c] = TRUE) = Registered(c)'
    BY <2>1, <2>2
  <2> QED BY <1>2, <2>3, Kinds DEF Matches
<1>3. CASE c \in Settings
  BY <1>3, Kinds DEF Matches, Same
<1> QED BY <1>1, <1>2, <1>3, Kinds

\* The steps of other goroutines and the later ones of this stay sound, and so
\* do the replies.
LEMMA SoundFrom ==
  ASSUME TypeOK, SoundInv, NEW w \in Worker, NEW p, Adds(w, p), ver' \in [Cell -> Nat],
         \A c \in Cell : Kept(c), shared \subseteq shared', opens' = opens,
         \A s \in Range(p) : StepSound(w, s)',
         \A m \in replies' : m \in replies \/ (Sound(m)' /\ DOMAIN m.upd \cap TraceID = {})
  PROVE  SoundInv'
<1>1. ver \in [Cell -> Nat]
  BY DEF TypeOK
<1>2. ASSUME NEW v \in Worker, NEW s \in Range(todo'[v]) PROVE StepSound(v, s)'
  <2>1. s \in Steps(v) \/ (v = w /\ s \in Range(p))
    BY <1>2, AddsSteps
  <2>2. s \in Steps(v) => StepSound(v, s)
    BY DEF SoundInv
  <2> QED BY <1>1, <2>1, <2>2, StepSoundKept
<1>3. \A v \in Worker : todo'[v] \in Seq(Range(todo'[v]))
  BY AddsSteps
<1>4. \A m \in replies' : Sound(m)' /\ DOMAIN m.upd \cap TraceID = {}
  BY <1>1, SoundKept DEF SoundInv
<1> QED BY <1>2, <1>3, <1>4 DEF SoundInv, Steps

LEMMA ServerKeeps ==
  ASSUME BrowserInv, NEW w \in Worker, NEW p, ServerStep(w, p)
  PROVE  BrowserInv'
<1>1. TypeOK /\ SoundInv /\ ReportsInv /\ ConnInv /\ LiveInv /\ SeenInv /\ TellInv /\ SpanInv
  BY DEF BrowserInv, BaseInv
<1>2. /\ Adds(w, p) /\ TypeOK' /\ LiveInv' /\ opens' = opens /\ link' = link /\ view' = view
      /\ seen' = seen /\ overtaken' = overtaken /\ missed' = missed /\ browsers' = browsers
      /\ replies' = replies /\ shared \subseteq shared'
  BY DEF ServerStep, Untouched
<1>3. ver \in [Cell -> Nat] /\ ver' \in [Cell -> Nat]
  BY <1>1, <1>2 DEF TypeOK
<1>4. \A c \in Cell : Kept(c)
  BY DEF ServerStep, Kept
<1>5. SoundInv'
  BY <1>1, <1>2, <1>3, <1>4, SoundFrom DEF ServerStep
<1>6. ReportsInv'
  BY <1>1, <1>2, AddsReports DEF ServerStep
<1>7. ConnInv'
  <2>1. todo'[Conn] = todo[Conn]
    BY <1>1, <1>2, AddsSteps, Workers DEF ServerStep
  <2> QED BY <1>1, <1>2, <2>1 DEF ConnInv
<1>8. SeenInv'
  <2>1. ASSUME NEW c \in Cell PROVE ver'[c] >= ver[c]
    BY <1>3, <1>4 DEF Kept, Same
  <2> QED BY <1>1, <1>2, <1>3, <2>1 DEF SeenInv, TypeOK
<1>9. \A c, v, full : Owed(c, v, full) => Owed(c, v, full)'
  <2>1. ASSUME NEW c, NEW v, NEW full, todo[w] # << >> PROVE ~ Will(Head(todo[w]), c, v, full)
    BY <2>1 DEF ServerStep, Will
  <2> QED BY <1>1, <1>2, <2>1, OwedStays
<1>10. TellInv'
  <2> SUFFICES ASSUME link', NEW c \in Cell, Current(c)'
               PROVE  \/ OwedNewest(c)'
                      \/ seen'[c] = ver'[c] /\ (c \in Disturbed' \/ Matches(c)')
    BY DEF TellInv
  <2>1. CASE Same(c) /\ Current(c)
    <3>1. ver'[c] = ver[c]
      BY <2>1 DEF Same
    <3>2. CASE OwedNewest(c)
      <4>1. Owed(c, ver[c], FALSE)
        BY <3>2 DEF OwedNewest
      <4>2. PICK v : v = ver[c]
        OBVIOUS
      <4> QED BY <1>9, <3>1, <4>1, <4>2, NewestBy
    <3>3. CASE seen[c] = ver[c] /\ (c \in Disturbed \/ Matches(c))
      BY <1>1, <1>2, <2>1, <3>1, <3>3, MatchesSame DEF Disturbed
    <3> QED BY <1>1, <1>2, <2>1, <3>2, <3>3 DEF TellInv
  <2>2. CASE ~ (Same(c) /\ Current(c))
    BY <2>2 DEF ServerStep
  <2> QED BY <2>1, <2>2
<1>11. SpanInv'
  <2> SUFFICES ASSUME link', NEW t \in TraceID, store'[t] # None
               PROVE  \E v \in 0 .. ver'[t] :
                        /\ FreshFrom(t, v)'
                        /\ \/ Owed(t, v, TRUE)'
                           \/ seen'[t] >= v /\ (t \in Disturbed' \/ WholeShown(t)')
    BY DEF SpanInv, Retained
  <2>1. t \in Cell /\ ver[t] \in Nat /\ ver'[t] \in Nat
    BY <1>3, Kinds
  <2>2. CASE store[t] # None /\ store'[t].spans = store[t].spans
    <3>1. PICK v \in 0 .. ver[t] :
            /\ FreshFrom(t, v)
            /\ \/ Owed(t, v, TRUE)
               \/ seen[t] >= v /\ (t \in Disturbed \/ WholeShown(t))
      BY <1>1, <1>2, <2>2 DEF SpanInv, Retained
    <3>2. v \in 0 .. ver'[t]
      BY <1>4, <2>1 DEF Kept, Same
    <3>3. \A val : Whole(val, t) => Whole(val, t)'
      BY <2>2 DEF Whole
    <3>4. FreshFrom(t, v)'
      <4> SUFFICES ASSUME NEW u \in Worker, NEW s \in Range(todo'[u]) PROVE Fresh(s, t, v)'
        BY DEF FreshFrom, Steps
      <4>1. s \in Steps(u) \/ s \in Range(p)
        BY <1>1, <1>2, AddsSteps
      <4>2. CASE s \in Steps(u)
        <5>1. Fresh(s, t, v)
          BY <3>1, <4>2 DEF FreshFrom
        <5> QED BY <3>3, <5>1 DEF Fresh
      <4>3. CASE s \in Range(p)
        BY <4>3 DEF ServerStep
      <4> QED BY <4>1, <4>2, <4>3
    <3>5. \/ Owed(t, v, TRUE)'
          \/ seen'[t] >= v /\ (t \in Disturbed' \/ WholeShown(t)')
      <4>1. WholeShown(t) => WholeShown(t)'
        BY <1>2, <2>2 DEF WholeShown, Whole
      <4> QED BY <1>2, <1>9, <3>1, <4>1 DEF Disturbed
    <3> QED BY <3>2, <3>4, <3>5
  <2>3. CASE \E v : v = ver'[t] /\ Owed(t, v, TRUE)'
    <3>1. PICK v : v = ver'[t] /\ Owed(t, v, TRUE)'
      BY <2>3
    <3>2. FreshFrom(t, v)'
      BY <1>2, <1>5, <3>1, NewestIsWholeNext
    <3>3. v \in 0 .. ver'[t]
      BY <2>1, <3>1
    <3> QED BY <3>1, <3>2, <3>3
  <2> QED BY <2>2, <2>3 DEF ServerStep
<1> QED BY <1>2, <1>5, <1>6, <1>7, <1>8, <1>10, <1>11 DEF BrowserInv, BaseInv
-----------------------------------------------------------------------------
(* Steps that carry what is under way on, and change nothing shown. *)

CarryStep(w, p) ==
  /\ Adds(w, p) /\ todo[w] # << >>
  /\ \A s \in Range(p) : s.op \notin {"apply", "visit"} /\ StepSound(w, s)
  /\ UNCHANGED <<serverVars, opens, link, timer, dialling, view, seen, overtaken, missed>>
  /\ TypeOK' /\ ConnInv'
  /\ \A m \in replies' : m \in replies \/ (Sound(m) /\ DOMAIN m.upd \cap TraceID = {})
  /\ link => \A c \in Cell : Current(c)' => Current(c) \/ OwedNewest(c)'
  /\ link => \A c \in Cell : \A v, full :
       v \in 0 .. ver[c] /\ Will(Head(todo[w]), c, v, full) => Owed(c, v, full)'
  /\ \A t \in Retained : \A v :
       Fresh(Head(todo[w]), t, v) => \A s \in Range(p) : Fresh(s, t, v)

\* The cells themselves are as they were.
LEMMA CellsUnchanged ==
  ASSUME TypeOK, UNCHANGED serverVars, UNCHANGED opens
  PROVE  /\ \A c : Same(c) /\ Kept(c)
         /\ \A w, s : StepSound(w, s) => StepSound(w, s)'
         /\ \A m : Sound(m) => Sound(m)'
         /\ \A s, t, v : Fresh(s, t, v) => Fresh(s, t, v)'
         /\ \A s, c, v, full : Will(s, c, v, full) => Will(s, c, v, full)'
<1>1. ver \in [Cell -> Nat] /\ ver' = ver /\ shared' = shared
  BY DEF TypeOK, serverVars
<1>2. \A c : Same(c) /\ Kept(c)
  BY DEF Same, Kept, SameTrace, Registered, serverVars
<1>3. \A m : Sound(m) => Sound(m)'
  BY <1>1, <1>2, SoundKept
<1>4. \A w, s : StepSound(w, s) => StepSound(w, s)'
  BY <1>1, <1>2, StepSoundKept
<1>5. \A s, t, v : Fresh(s, t, v) => Fresh(s, t, v)'
  BY DEF Fresh, Whole, serverVars
<1>6. \A s, c, v, full : Will(s, c, v, full) => Will(s, c, v, full)'
  BY DEF Will
<1> QED BY <1>2, <1>3, <1>4, <1>5, <1>6

LEMMA CarryKeeps ==
  ASSUME BrowserInv, NEW w \in Worker, NEW p, CarryStep(w, p)
  PROVE  BrowserInv'
<1>1. TypeOK /\ SoundInv /\ ReportsInv /\ ConnInv /\ LiveInv /\ SeenInv /\ TellInv /\ SpanInv
  BY DEF BrowserInv, BaseInv
<1>2. /\ Adds(w, p) /\ TypeOK' /\ ConnInv' /\ opens' = opens /\ link' = link /\ view' = view
      /\ seen' = seen /\ overtaken' = overtaken /\ missed' = missed
      /\ store' = store /\ live' = live /\ ver' = ver /\ shared' = shared /\ todo[w] # << >>
  BY DEF CarryStep, serverVars
<1>3. UNCHANGED serverVars /\ UNCHANGED opens
  BY DEF CarryStep
<1>4. /\ \A c : Same(c) /\ Kept(c)
      /\ \A v, s : StepSound(v, s) => StepSound(v, s)'
      /\ \A m : Sound(m) => Sound(m)'
      /\ \A s, t, v : Fresh(s, t, v) => Fresh(s, t, v)'
  BY <1>1, <1>3, CellsUnchanged
<1>5. SoundInv'
  <2>1. ver' \in [Cell -> Nat]
    BY <1>2 DEF TypeOK
  <2> QED BY <1>1, <1>2, <1>4, <2>1, SoundFrom DEF CarryStep
<1>6. ReportsInv'
  BY <1>1, <1>2, AddsReports DEF CarryStep
<1>7. LiveInv' /\ SeenInv'
  BY <1>1, <1>2 DEF LiveInv, SeenInv
<1>8. ASSUME link, NEW c \in Cell, NEW v \in 0 .. ver[c], NEW full, Owed(c, v, full)
      PROVE  Owed(c, v, full)'
  <2>1. Owed(c, v, full)' \/ Will(Head(todo[w]), c, v, full)
    BY <1>1, <1>2, <1>8, OwedStays
  <2> QED BY <1>8, <2>1 DEF CarryStep
<1>9. TellInv'
  <2> SUFFICES ASSUME link', NEW c \in Cell, Current(c)'
               PROVE  \/ OwedNewest(c)'
                      \/ seen'[c] = ver'[c] /\ (c \in Disturbed' \/ Matches(c)')
    BY DEF TellInv
  <2>1. CASE Current(c) /\ OwedNewest(c)
    <3>1. PICK v : v = ver[c]
      OBVIOUS
    <3>2. v \in 0 .. ver[c]
      BY <1>1, <3>1 DEF TypeOK
    <3>3. Owed(c, v, FALSE)'
      BY <1>2, <1>8, <2>1, <3>1, <3>2 DEF OwedNewest
    <3> QED BY <1>2, <3>1, <3>3, NewestBy
  <2>2. CASE Current(c) /\ seen[c] = ver[c] /\ (c \in Disturbed \/ Matches(c))
    BY <1>1, <1>2, <1>4, <2>2, MatchesSame DEF Disturbed
  <2>3. CASE ~ Current(c)
    BY <1>2, <2>3 DEF CarryStep
  <2> QED BY <1>1, <1>2, <2>1, <2>2, <2>3 DEF TellInv
<1>10. SpanInv'
  <2> SUFFICES ASSUME link', NEW t \in Retained
               PROVE  \E v \in 0 .. ver'[t] :
                        /\ FreshFrom(t, v)'
                        /\ \/ Owed(t, v, TRUE)'
                           \/ seen'[t] >= v /\ (t \in Disturbed' \/ WholeShown(t)')
    BY <1>2 DEF SpanInv, Retained
  <2>1. t \in Cell
    BY Kinds DEF Retained
  <2>2. PICK v \in 0 .. ver[t] :
          /\ FreshFrom(t, v)
          /\ \/ Owed(t, v, TRUE)
             \/ seen[t] >= v /\ (t \in Disturbed \/ WholeShown(t))
    BY <1>1, <1>2 DEF SpanInv
  <2>3. FreshFrom(t, v)'
    <3> SUFFICES ASSUME NEW u \in Worker, NEW s \in Range(todo'[u]) PROVE Fresh(s, t, v)'
      BY DEF FreshFrom, Steps
    <3>1. s \in Steps(u) \/ s \in Range(p)
      BY <1>1, <1>2, AddsSteps
    <3>2. Head(todo[w]) \in Steps(w)
      BY <1>1, <1>2, HeadAndTail DEF SoundInv, Steps
    <3>3. Fresh(Head(todo[w]), t, v)
      BY <2>2, <3>2 DEF FreshFrom
    <3>4. Fresh(s, t, v)
      BY <2>2, <3>1, <3>3 DEF FreshFrom, CarryStep
    <3> QED BY <1>4, <3>4
  <2>4. WholeShown(t) => WholeShown(t)'
    BY <1>2 DEF WholeShown, Whole
  <2>5. \/ Owed(t, v, TRUE)'
        \/ seen'[t] >= v /\ (t \in Disturbed' \/ WholeShown(t)')
    BY <1>2, <1>8, <2>1, <2>2, <2>4 DEF Disturbed
  <2> QED BY <1>2, <2>2, <2>3, <2>5
<1> QED BY <1>2, <1>5, <1>6, <1>7, <1>9, <1>10 DEF BrowserInv, BaseInv
-----------------------------------------------------------------------------
(* Steps that tell the browser. *)

\* The deadline is up: the browser is not told, and the cells count as missed.
Lapse(m) ==
  /\ seen' = Newer(m.upd)
  /\ missed' = missed \cup DOMAIN m.upd
  /\ UNCHANGED <<view, overtaken>>

LEMMA SeenNext ==
  ASSUME TypeOK, NEW m, Sound(m), seen' = Newer(m.upd), NEW c \in Cell
  PROVE  /\ seen'[c] \in Nat /\ seen[c] \in Nat /\ seen'[c] >= seen[c]
         /\ c \in DOMAIN m.upd => /\ m.upd[c].ver \in 0 .. ver[c] /\ seen'[c] >= m.upd[c].ver
                                  /\ seen[c] <= ver[c] => seen'[c] <= ver[c]
         /\ c \notin DOMAIN m.upd => seen'[c] = seen[c]
<1>1. seen[c] \in Nat /\ ver[c] \in Nat
  BY DEF TypeOK
<1>2. seen'[c] = IF c \in DOMAIN m.upd /\ m.upd[c].ver > seen[c] THEN m.upd[c].ver ELSE seen[c]
  BY DEF Newer
<1>3. c \in DOMAIN m.upd => m.upd[c].ver \in 0 .. ver[c]
  BY DEF Sound, Valid
<1> QED BY <1>1, <1>2, <1>3

LEMMA ViewNext ==
  ASSUME TypeOK, NEW m, Sound(m), Take(m), NEW c \in Cell
  PROVE  /\ c \notin DOMAIN m.upd => view'[c] = view[c]
         /\ c \in DOMAIN m.upd /\ m.type = "trace.decided" =>
              /\ c \in TraceID
              /\ view[c] = None => view'[c] = None
              /\ view[c] # None => /\ view'[c] \in Trace
                                   /\ view'[c].spans = view[c].spans
                                   /\ view'[c].state = "DECIDED"
                                   /\ view'[c].decision = m.upd[c].val
         /\ c \in DOMAIN m.upd /\ m.type # "trace.decided" =>
              \/ view'[c] = m.upd[c].val
              \/ /\ c \in Collector /\ m.upd[c].val = FALSE
                 /\ view'[c] = None
<1>1. view' = Shown(m)
  BY DEF Take
<1>2. view'[c] = IF c \in DOMAIN m.upd THEN ApplyTo(c, m) ELSE view[c]
  BY <1>1 DEF Shown
<1>3. ASSUME c \in DOMAIN m.upd, m.type = "trace.decided"
      PROVE  /\ c \in TraceID
             /\ view[c] = None => view'[c] = None
             /\ view[c] # None => /\ view'[c] \in Trace
                                  /\ view'[c].spans = view[c].spans
                                  /\ view'[c].state = "DECIDED"
                                  /\ view'[c].decision = m.upd[c].val
  <2>1. c \in TraceID /\ m.upd[c].val \in Nat
    BY <1>3 DEF Sound, Valid
  <2>2. view[c] \in Trace \cup {None}
    BY <2>1 DEF TypeOK
  <2>3. view[c] # None =>
          view'[c] = [view[c] EXCEPT !.state = "DECIDED", !.decision = m.upd[c].val]
    BY <1>2, <1>3 DEF ApplyTo
  <2>4. view[c] = None => view'[c] = None
    BY <1>2, <1>3 DEF ApplyTo
  <2> QED BY <2>1, <2>2, <2>3, <2>4 DEF Trace
<1>4. ASSUME c \in DOMAIN m.upd, m.type # "trace.decided"
      PROVE  \/ view'[c] = m.upd[c].val
             \/ /\ c \in Collector /\ m.upd[c].val = FALSE
                /\ view'[c] = None
  BY <1>2, <1>4 DEF ApplyTo, Sound
<1> QED BY <1>2, <1>3, <1>4

LEMMA DisturbedNext ==
  ASSUME NEW m, Take(m), NEW c
  PROVE  /\ c \in DOMAIN m.upd /\ m.upd[c].ver < seen[c] => c \in Disturbed'
         /\ c \in Disturbed /\ ~ Settled(c, m) => c \in Disturbed'
  BY DEF Take, Disturbed

\* What is told at the newest version is shown.
LEMMA TakeNewest ==
  ASSUME TypeOK, UNCHANGED serverVars, NEW m, Sound(m), Take(m),
         NEW c \in Cell, c \in DOMAIN m.upd, m.upd[c].ver = ver[c]
  PROVE  Matches(c)'
<1>1. Agrees(m.type, c, m.upd[c].val)
  BY DEF Sound, Valid
<1>2. store' = store /\ live' = live /\ ver' = ver /\ shared' = shared
  BY DEF serverVars
<1>3. CASE c \in TraceID
  <2>1. IF store[c] = None THEN view'[c] = None
        ELSE view'[c] # None => /\ view'[c].decision = store[c].decision
                                /\ (view'[c].state = "DECIDED") = (store[c].state = "DECIDED")
    <3>1. CASE m.type = "trace.decided"
      <4>1. store[c] # None /\ store[c].state = "DECIDED" /\ store[c].decision = m.upd[c].val
        BY <1>1, <1>3, <3>1 DEF Agrees
      <4> QED BY <3>1, <4>1, ViewNext
    <3>2. CASE m.type # "trace.decided"
      <4>1. Alike(m.upd[c].val, store[c])
        BY <1>1, <1>3, <3>2 DEF Agrees
      <4>2. view'[c] = m.upd[c].val
        BY <1>3, <3>2, ViewNext, Kinds
      <4> QED BY <4>1, <4>2 DEF Alike, ShownAs
    <3> QED BY <3>1, <3>2
  <2> QED BY <1>2, <1>3, <2>1, Kinds DEF Matches
<1>4. CASE c \in Collector
  <2>1. m.type # "trace.decided"
    BY <1>4, Kinds DEF Sound
  <2>2. c \notin shared => (m.upd[c].val = TRUE) = Registered(c)
    BY <1>1, <1>4 DEF Agrees
  <2>3. (view'[c] = TRUE) = (m.upd[c].val = TRUE)
    <3>1. None # TRUE
      BY DistinctAssumption
    <3> QED BY <2>1, <3>1, ViewNext
  <2>4. c \notin shared' => (view'[c] = TRUE) = Registered(c)'
    BY <1>2, <2>2, <2>3 DEF Registered
  <2> QED BY <1>4, <2>4, Kinds DEF Matches
<1>5. CASE c \in Settings
  <2>1. m.type # "trace.decided"
    BY <1>5, Kinds DEF Sound
  <2>2. view'[c] = m.upd[c].val
    BY <1>5, <2>1, ViewNext, Kinds
  <2> QED BY <1>1, <1>2, <1>5, <2>2, Kinds DEF Matches, Agrees
<1> QED BY <1>3, <1>4, <1>5, Kinds

LEMMA ToldNewest ==
  ASSUME TypeOK, SeenInv, UNCHANGED serverVars, NEW m, Sound(m), Take(m) \/ Lapse(m),
         NEW c \in Cell, c \in DOMAIN m.upd, m.upd[c].ver >= ver[c]
  PROVE  seen'[c] = ver'[c] /\ (c \in Disturbed' \/ Matches(c)')
<1>1. seen' = Newer(m.upd) /\ ver' = ver
  BY DEF Take, Lapse, serverVars
<1>2. seen[c] <= ver[c] /\ ver[c] \in Nat /\ seen[c] \in Nat
  BY DEF SeenInv, TypeOK
<1>3. m.upd[c].ver = ver[c] /\ seen'[c] = ver'[c]
  BY <1>1, <1>2, SeenNext
<1>4. CASE Take(m)
  BY <1>3, <1>4, TakeNewest
<1>5. CASE Lapse(m)
  BY <1>3, <1>5 DEF Lapse, Disturbed
<1> QED BY <1>3, <1>4, <1>5

LEMMA ToldStays ==
  ASSUME TypeOK, SeenInv, UNCHANGED serverVars, NEW m, Sound(m), Take(m) \/ Lapse(m),
         NEW c \in Cell, seen[c] = ver[c], c \in Disturbed \/ Matches(c)
  PROVE  seen'[c] = ver'[c] /\ (c \in Disturbed' \/ Matches(c)')
<1>1. seen' = Newer(m.upd) /\ ver' = ver
  BY DEF Take, Lapse, serverVars
<1>2. seen'[c] = ver[c]
  BY <1>1, SeenNext DEF TypeOK
<1>3. CASE Lapse(m)
  <2>1. \A d : Same(d)
    BY CellsUnchanged DEF Same, SameTrace, serverVars, Registered
  <2>2. Matches(c) => Matches(c)'
    BY <1>3, <2>1, MatchesSame DEF Lapse, serverVars
  <2> QED BY <1>1, <1>2, <1>3, <2>2 DEF Lapse, Disturbed
<1>4. CASE Take(m) /\ c \notin DOMAIN m.upd
  <2>1. view'[c] = view[c]
    BY <1>4, ViewNext
  <2>2. Matches(c) => Matches(c)'
    BY <2>1 DEF Matches, serverVars, Registered
  <2> QED BY <1>1, <1>2, <1>4, <2>2, DisturbedNext DEF Settled
<1>5. CASE Take(m) /\ c \in DOMAIN m.upd
  <2>1. m.upd[c].ver \in 0 .. ver[c] /\ ver[c] \in Nat
    BY <1>1, <1>5, SeenNext DEF TypeOK
  <2>2. CASE m.upd[c].ver < seen[c]
    BY <1>1, <1>2, <1>5, <2>2, DisturbedNext
  <2>3. CASE m.upd[c].ver >= ver[c]
    BY <1>5, <2>3, ToldNewest
  <2> QED BY <2>1, <2>2, <2>3
<1> QED BY <1>3, <1>4, <1>5

LEMMA ToldSpans ==
  ASSUME TypeOK, UNCHANGED serverVars, NEW m, Sound(m), Take(m) \/ Lapse(m),
         NEW t \in Retained, NEW v \in Nat,
         t \in DOMAIN m.upd /\ m.type # "trace.decided" /\ m.upd[t].ver >= v
           => Whole(m.upd[t].val, t),
         \/ seen[t] >= v /\ (t \in Disturbed \/ WholeShown(t))
         \/ t \in DOMAIN m.upd /\ m.type # "trace.decided" /\ m.upd[t].ver >= v
  PROVE  seen'[t] >= v /\ (t \in Disturbed' \/ WholeShown(t)')
<1>1. seen' = Newer(m.upd) /\ store' = store
  BY DEF Take, Lapse, serverVars
<1>2. t \in TraceID /\ t \in Cell
  BY Kinds DEF Retained
<1>3. seen'[t] \in Nat /\ seen[t] \in Nat /\ seen'[t] >= seen[t]
  BY <1>1, <1>2, SeenNext
<1>4. t \in DOMAIN m.upd => m.upd[t].ver \in Nat /\ seen'[t] >= m.upd[t].ver
  <2>1. t \in DOMAIN m.upd => m.upd[t].ver \in 0 .. ver[t] /\ seen'[t] >= m.upd[t].ver
    BY <1>1, <1>2, SeenNext
  <2>2. ver[t] \in Nat
    BY <1>2 DEF TypeOK
  <2> QED BY <2>1, <2>2
<1>5. seen'[t] >= v
  BY <1>3, <1>4
<1>6. \A val : Whole(val, t) <=> Whole(val, t)'
  BY <1>1 DEF Whole
<1>7. CASE Lapse(m)
  <2>1. WholeShown(t) => WholeShown(t)'
    BY <1>1, <1>7 DEF Lapse, WholeShown, Whole
  <2> QED BY <1>5, <1>7, <2>1 DEF Lapse, Disturbed
<1>8. CASE Take(m) /\ t \notin DOMAIN m.upd
  <2>1. WholeShown(t) => WholeShown(t)'
    BY <1>1, <1>2, <1>8, ViewNext DEF WholeShown, Whole
  <2> QED BY <1>5, <1>8, <2>1, DisturbedNext DEF Settled
<1>9. CASE Take(m) /\ t \in DOMAIN m.upd /\ m.type = "trace.decided"
  <2>1. view[t] # None => view'[t] \in Trace /\ view'[t].spans = view[t].spans
    BY <1>2, <1>9, ViewNext
  <2>2. WholeShown(t) => WholeShown(t)'
    <3>1. None \notin Trace
      BY DistinctAssumption
    <3> QED BY <1>1, <2>1, <3>1 DEF WholeShown, Whole
  <2> QED BY <1>5, <1>9, <2>2, DisturbedNext DEF Settled
<1>10. CASE Take(m) /\ t \in DOMAIN m.upd /\ m.type # "trace.decided"
  <2>1. view'[t] = m.upd[t].val
    BY <1>2, <1>10, ViewNext, Kinds
  <2>2. CASE m.upd[t].ver >= v
    <3>1. Whole(m.upd[t].val, t)
      BY <1>10, <2>2
    <3>2. WholeShown(t)'
      BY <1>1, <2>1, <3>1 DEF WholeShown, Whole
    <3> QED BY <1>5, <3>2
  <2>3. CASE ~ (m.upd[t].ver >= v)
    <3>1. m.upd[t].ver < seen[t]
      BY <1>3, <1>4, <1>10, <2>3
    <3> QED BY <1>5, <1>10, <3>1, DisturbedNext
  <2> QED BY <2>2, <2>3
<1> QED BY <1>7, <1>8, <1>9, <1>10

LEMMA ToldTypes ==
  ASSUME TypeOK, UNCHANGED <<serverVars, browsers, opens, link, timer, dialling, gone>>, DOMAIN todo' = Worker,
         NEW m, Sound(m), Take(m) \/ Lapse(m)
  PROVE  TypeOK'
<1>1. seen' = Newer(m.upd)
  BY DEF Take, Lapse
<1>2. seen' \in [Cell -> Nat]
  <2>1. \A c \in Cell : Newer(m.upd)[c] \in Nat
    BY <1>1, SeenNext
  <2>2. Newer(m.upd) = [c \in Cell |-> Newer(m.upd)[c]]
    BY DEF Newer
  <2> HIDE DEF Newer
  <2> QED BY <1>1, <2>1, <2>2
<1>3. DOMAIN view' = Cell /\ \A t \in TraceID : view'[t] \in Trace \cup {None}
  <2>1. CASE Lapse(m)
    BY <2>1 DEF Lapse, TypeOK
  <2>2. CASE Take(m)
    <3>1. DOMAIN view' = Cell
      BY <2>2 DEF Take, Shown
    <3>2. ASSUME NEW t \in TraceID PROVE view'[t] \in Trace \cup {None}
      <4>1. t \in Cell /\ t \notin Collector /\ view[t] \in Trace \cup {None}
        BY Kinds DEF TypeOK
      <4>2. t \in DOMAIN m.upd => Valid(m.type, t, m.upd[t])
        BY DEF Sound
      <4>3. t \in DOMAIN m.upd /\ m.type # "trace.decided" => m.upd[t].val \in Trace \cup {None}
        BY <4>2 DEF Valid
      <4> QED BY <2>2, <4>1, <4>3, ViewNext
    <3> QED BY <3>1, <3>2
  <2> QED BY <2>1, <2>2
<1>4. overtaken' \cup missed' \subseteq Cell
  BY DEF Take, Lapse, Sound, TypeOK
<1> QED BY <1>2, <1>3, <1>4 DEF TypeOK, serverVars

\* A step of a registered connection's goroutine leaves the connection as it is.
LEMMA ConnGoes ==
  ASSUME TypeOK, SoundInv, ConnInv, NEW w \in Worker, NEW p, Adds(w, p), todo[w] # << >>,
         Head(todo[w]).op # "register", UNCHANGED <<browsers, opens, link>>
  PROVE  ConnInv'
<1>1. CASE w # Conn
  <2>1. todo'[Conn] = todo[Conn]
    BY <1>1, AddsSteps, Workers
  <2> QED BY <2>1 DEF ConnInv
<1>2. CASE w = Conn
  BY <1>2 DEF ConnInv
<1> QED BY <1>1, <1>2

LEMMA ToldKeeps ==
  ASSUME BrowserInv, NEW m, Sound(m), Take(m) \/ Lapse(m),
         UNCHANGED <<serverVars, browsers, opens, link, timer, dialling, gone>>, replies' \subseteq replies,
         \/ todo' = todo /\ DOMAIN m.upd \cap TraceID = {}
         \/ \E w \in Worker : /\ Adds(w, << >>) /\ todo[w] # << >>
                              /\ Head(todo[w]).op = "send" /\ Head(todo[w]).msg = m
  PROVE  BrowserInv'
<1>1. TypeOK /\ SoundInv /\ ReportsInv /\ ConnInv /\ LiveInv /\ SeenInv /\ TellInv /\ SpanInv
  BY DEF BrowserInv, BaseInv
<1>2. store' = store /\ live' = live /\ ver' = ver /\ shared' = shared /\ gone' = gone
      /\ opens' = opens /\ link' = link
  BY DEF serverVars
<1>3. /\ \A c : Same(c) /\ Kept(c)
      /\ \A w, s : StepSound(w, s) => StepSound(w, s)'
      /\ \A n : Sound(n) => Sound(n)'
      /\ \A s, t, v : Fresh(s, t, v) => Fresh(s, t, v)'
      /\ \A s, c, v, full : Will(s, c, v, full) => Will(s, c, v, full)'
  BY <1>1, CellsUnchanged
<1>4. seen' = Newer(m.upd)
  BY DEF Take, Lapse
\* What is under way is what was, but for the message now sent.
<1>5. /\ DOMAIN todo' = Worker
      /\ \A u \in Worker : todo'[u] \in Seq(Range(todo'[u]))
      /\ \A u \in Worker : \A s \in Range(todo'[u]) : s \in Steps(u)
      /\ ReportsInv' /\ ConnInv'
      /\ \A c, v, full : Owed(c, v, full) =>
           \/ Owed(c, v, full)'
           \/ c \in DOMAIN m.upd /\ m.upd[c].ver >= v /\ (full => m.type # "trace.decided")
      /\ DOMAIN m.upd \cap TraceID = {} \/ \A t \in TraceID : \A v : FreshFrom(t, v) =>
           (t \in DOMAIN m.upd /\ m.type # "trace.decided" =>
              (m.upd[t].ver >= v => Whole(m.upd[t].val, t)))
  <2>1. CASE todo' = todo /\ DOMAIN m.upd \cap TraceID = {}
    <3>1. \A c, v, full : Owed(c, v, full) => Owed(c, v, full)'
      BY <1>3, <2>1 DEF Owed, Steps
    <3>2. ReportsInv' /\ ConnInv'
      BY <1>1, <2>1 DEF ReportsInv, ConnInv
    <3> QED BY <1>1, <2>1, <3>1, <3>2 DEF TypeOK, SoundInv, Steps
  <2>2. ASSUME NEW w \in Worker, Adds(w, << >>), todo[w] # << >>,
               Head(todo[w]).op = "send", Head(todo[w]).msg = m
        PROVE  <1>5
    <3>1. /\ DOMAIN todo' = Worker
          /\ \A u \in Worker : todo'[u] \in Seq(Range(todo'[u]))
          /\ \A u \in Worker : \A s \in Range(todo'[u]) : s \in Steps(u)
      BY <1>1, <2>2, AddsSteps, NoSteps
    <3>2. ReportsInv'
      BY <1>1, <2>2, AddsReports, NoSteps
    <3>3. ConnInv'
      BY <1>1, <2>2, ConnGoes
    <3>4. ASSUME NEW c, NEW v, NEW full, Owed(c, v, full)
          PROVE  \/ Owed(c, v, full)'
                 \/ c \in DOMAIN m.upd /\ m.upd[c].ver >= v /\ (full => m.type # "trace.decided")
      <4>1. Owed(c, v, full)' \/ Will(Head(todo[w]), c, v, full)
        BY <1>1, <1>2, <2>2, <3>4, OwedStays
      <4> QED BY <2>2, <4>1 DEF Will
    <3>5. ASSUME NEW t \in TraceID, NEW v, FreshFrom(t, v),
                 t \in DOMAIN m.upd, m.type # "trace.decided", m.upd[t].ver >= v
          PROVE  Whole(m.upd[t].val, t)
      <4>1. Head(todo[w]) \in Steps(w)
        BY <1>1, <2>2, HeadAndTail DEF SoundInv, Steps
      <4>2. Fresh(Head(todo[w]), t, v)
        BY <3>5, <4>1 DEF FreshFrom
      <4> QED BY <2>2, <3>5, <4>2 DEF Fresh, Telling
    <3> QED BY <3>1, <3>2, <3>3, <3>4, <3>5
  <2> QED BY <2>1, <2>2
<1>6. TypeOK'
  BY <1>1, <1>5, ToldTypes
<1>7. SoundInv'
  <2>1. \A u \in Worker : \A s \in Range(todo'[u]) : StepSound(u, s)'
    BY <1>1, <1>3, <1>5 DEF SoundInv
  <2>2. \A n \in replies' : Sound(n)' /\ DOMAIN n.upd \cap TraceID = {}
    BY <1>1, <1>3 DEF SoundInv
  <2> QED BY <1>5, <2>1, <2>2 DEF SoundInv, Steps
<1>8. LiveInv'
  BY <1>1, <1>2 DEF LiveInv
<1>9. SeenInv'
  <2>1. ASSUME NEW c \in Cell PROVE seen'[c] <= ver'[c]
    <3>1. seen[c] <= ver[c]
      BY <1>1 DEF SeenInv
    <3> QED BY <1>1, <1>2, <1>4, <3>1, SeenNext
  <2> QED BY <2>1 DEF SeenInv
<1>10. TellInv'
  <2> SUFFICES ASSUME link', NEW c \in Cell, Current(c)'
               PROVE  \/ OwedNewest(c)'
                      \/ seen'[c] = ver'[c] /\ (c \in Disturbed' \/ Matches(c)')
    BY DEF TellInv
  <2>1. Current(c) /\ link
    BY <1>2 DEF Current
  <2>2. CASE OwedNewest(c)
    <3>1. PICK v : v = ver[c]
      OBVIOUS
    <3>2. Owed(c, v, FALSE)' \/ (c \in DOMAIN m.upd /\ m.upd[c].ver >= v)
      BY <1>5, <2>2, <3>1 DEF OwedNewest
    <3>3. CASE Owed(c, v, FALSE)'
      BY <1>2, <3>1, <3>3, NewestBy
    <3>4. CASE c \in DOMAIN m.upd /\ m.upd[c].ver >= ver[c]
      BY <1>1, <3>4, ToldNewest
    <3> QED BY <3>1, <3>2, <3>3, <3>4
  <2>3. CASE seen[c] = ver[c] /\ (c \in Disturbed \/ Matches(c))
    BY <1>1, <2>3, ToldStays
  <2> QED BY <1>1, <2>1, <2>2, <2>3 DEF TellInv
<1>11. SpanInv'
  <2> SUFFICES ASSUME link', NEW t \in Retained
               PROVE  \E v \in 0 .. ver'[t] :
                        /\ FreshFrom(t, v)'
                        /\ \/ Owed(t, v, TRUE)'
                           \/ seen'[t] >= v /\ (t \in Disturbed' \/ WholeShown(t)')
    BY <1>2 DEF SpanInv, Retained
  <2>1. t \in TraceID /\ t \in Cell
    BY Kinds DEF Retained
  <2>2. PICK v \in 0 .. ver[t] :
          /\ FreshFrom(t, v)
          /\ \/ Owed(t, v, TRUE)
             \/ seen[t] >= v /\ (t \in Disturbed \/ WholeShown(t))
    <3>1. SpanInv /\ link
      BY <1>1, <1>2
    <3> QED BY <3>1 DEF SpanInv
  <2>3. v \in Nat
    BY <1>1, <2>1 DEF TypeOK
  <2>4. FreshFrom(t, v)'
    <3> SUFFICES ASSUME NEW u \in Worker, NEW s \in Range(todo'[u]) PROVE Fresh(s, t, v)'
      BY DEF FreshFrom, Steps
    <3> QED BY <1>3, <1>5, <2>2 DEF FreshFrom
  <2>5. t \in DOMAIN m.upd /\ m.type # "trace.decided" /\ m.upd[t].ver >= v
          => Whole(m.upd[t].val, t)
    BY <1>5, <2>1, <2>2
  <2>6. \/ Owed(t, v, TRUE)'
        \/ seen'[t] >= v /\ (t \in Disturbed' \/ WholeShown(t)')
    <3>1. \/ Owed(t, v, TRUE)'
          \/ seen[t] >= v /\ (t \in Disturbed \/ WholeShown(t))
          \/ t \in DOMAIN m.upd /\ m.type # "trace.decided" /\ m.upd[t].ver >= v
      BY <1>5, <2>2
    <3> QED BY <1>1, <2>3, <2>5, <3>1, ToldSpans
  <2> QED BY <1>2, <2>2, <2>4, <2>6
<1> QED BY <1>5, <1>6, <1>7, <1>8, <1>9, <1>10, <1>11 DEF BrowserInv, BaseInv
-----------------------------------------------------------------------------
(* The connection. *)

\* A connection that opens owes the browser everything, by its snapshot.
LEMMA OpenKeeps ==
  ASSUME BrowserInv, Open
  PROVE  BrowserInv'
<1> DEFINE p == <<[op |-> "register"], [op |-> "snapshot", to |-> opens + 1]>>
<1>1. TypeOK /\ SoundInv /\ ReportsInv /\ ConnInv /\ LiveInv /\ SeenInv
  BY DEF BrowserInv, BaseInv
<1>2. /\ store' = store /\ live' = live /\ ver' = ver /\ shared' = shared /\ gone' = gone
      /\ opens' = opens + 1 /\ link' = TRUE /\ browsers' = browsers /\ dialling' = FALSE
      /\ timer' = timer
      /\ view' = view /\ replies' = replies /\ ops' = ops /\ opens < MaxOpens
      /\ seen' = [c \in Cell |-> 0] /\ overtaken' = {} /\ missed' = {}
  BY DEF Open, serverVars
<1>3. /\ ~ link /\ ~ timer /\ todo[Conn] = << >>
      /\ opens \in 0 .. MaxOpens /\ MaxOpens \in Nat
  BY <1>1, BrowserAssumption DEF Open, TypeOK, ConnInv
<1>4. /\ p \in Seq(Range(p)) /\ Range(p) = {[op |-> "register"], [op |-> "snapshot", to |-> opens + 1]}
      /\ p # << >> /\ Head(p) = [op |-> "register"]
      /\ [op |-> "snapshot", to |-> opens + 1] \in Range(Tail(p))
  <2>1. /\ p \in Seq({[op |-> "register"], [op |-> "snapshot", to |-> opens + 1]})
        /\ Len(p) = 2 /\ DOMAIN p = {1, 2} /\ p[1] = [op |-> "register"]
        /\ p[2] = [op |-> "snapshot", to |-> opens + 1]
    OBVIOUS
  <2>2. Range(p) = {[op |-> "register"], [op |-> "snapshot", to |-> opens + 1]}
    BY <2>1 DEF Range
  <2>3. p \in Seq(Range(p)) /\ p # << >> /\ Head(p) = [op |-> "register"]
    BY <2>1, <2>2
  <2>4. Tail(p) = <<[op |-> "snapshot", to |-> opens + 1]>>
    OBVIOUS
  <2>5. [op |-> "snapshot", to |-> opens + 1] \in Range(Tail(p))
    BY <2>4, OneStep
  <2> QED BY <2>2, <2>3, <2>5
<1>5. todo' = [todo EXCEPT ![Conn] = p]
  BY DEF Open
<1> HIDE DEF p
<1>6. Adds(Conn, p)
  BY <1>3, <1>4, <1>5 DEF Adds
<1>7. /\ DOMAIN todo' = Worker
      /\ \A u \in Worker : todo'[u] \in Seq(Range(todo'[u]))
      /\ \A u \in Worker \ {Conn} : todo'[u] = todo[u]
      /\ todo'[Conn] = p
  <2>1. DOMAIN todo = Worker
    BY <1>1 DEF TypeOK
  <2> QED BY <1>1, <1>5, <1>6, <2>1, AddsSteps, Workers
<1>8. TypeOK'
  <2>1. opens' \in 0 .. MaxOpens
    BY <1>2, <1>3
  <2>2. seen' \in [Cell -> Nat]
    BY <1>2
  <2>4. link' = TRUE /\ dialling' = FALSE /\ timer' \in BOOLEAN /\ browsers' \in BOOLEAN
    BY <1>1, <1>2 DEF TypeOK
  <2>3. ~ timer'
    BY <1>2, <1>3
  <2> QED BY <1>1, <1>2, <1>7, <2>1, <2>2, <2>3, <2>4 DEF TypeOK
<1>9. \A c : Kept(c)
  BY <1>2 DEF Kept, Same, SameTrace, Registered
<1>10. SoundInv'
  <2>1. ver \in [Cell -> Nat] /\ ver' \in [Cell -> Nat]
    BY <1>1, <1>2 DEF TypeOK
  <2>2. ASSUME NEW u \in Worker, NEW s \in Range(todo'[u]) PROVE StepSound(u, s)'
    <3>1. CASE u # Conn
      <4>1. StepSound(u, s)
        BY <1>1, <1>7, <2>2, <3>1 DEF SoundInv, Steps
      <4> QED BY <1>2, <1>9, <2>1, <3>1, <4>1, StepSoundKept
    <3>2. CASE u = Conn
      <4>1. s.op = "register" \/ (s.op = "snapshot" /\ s.to = opens')
        BY <1>2, <1>4, <1>7, <2>2, <3>2
      <4> QED BY <3>2, <4>1 DEF StepSound, Telling
    <3> QED BY <3>1, <3>2
  <2>3. \A m \in replies' : Sound(m)' /\ DOMAIN m.upd \cap TraceID = {}
    BY <1>1, <1>2, <1>9, <2>1, SoundKept DEF SoundInv
  <2> QED BY <1>7, <2>2, <2>3 DEF SoundInv, Steps
<1>11. ReportsInv'
  <2>1. \A s \in Range(p) : s.op \notin {"apply", "visit"}
    BY <1>4
  <2> QED BY <1>1, <1>6, <2>1, AddsReports, Workers
<1>12. ConnInv'
  <2>1. opens' > 0
    BY <1>2, <1>3
  <2> QED BY <1>2, <1>4, <1>7, <2>1 DEF ConnInv
<1>13. LiveInv' /\ SeenInv'
  <2>1. \A c \in Cell : 0 <= ver[c]
    BY <1>1 DEF TypeOK
  <2> QED BY <1>1, <1>2, <2>1 DEF LiveInv, SeenInv
<1>14. \A c, v, full : Owed(c, v, full)'
  <2>1. PICK s \in Range(p) : s.op = "snapshot"
    BY <1>4
  <2>2. \A c, v, full : Will(s, c, v, full)'
    BY <2>1 DEF Will
  <2> QED BY <1>7, <2>1, <2>2, Workers DEF Owed, Steps
<1>15. TellInv'
  BY <1>14 DEF TellInv, OwedNewest
<1>16. SpanInv'
  <2> SUFFICES ASSUME NEW t \in TraceID, store'[t] # None
               PROVE  \E v \in 0 .. ver'[t] : FreshFrom(t, v)' /\ Owed(t, v, TRUE)'
    BY DEF SpanInv, Retained
  <2>1. PICK v : v = ver'[t]
    OBVIOUS
  <2>2. v \in 0 .. ver'[t]
    BY <1>8, <2>1, Kinds DEF TypeOK
  <2>3. FreshFrom(t, v)'
    BY <1>8, <1>10, <2>1, NewestIsWholeNext
  <2> QED BY <1>14, <2>2, <2>3
<1> QED BY <1>8, <1>10, <1>11, <1>12, <1>13, <1>15, <1>16 DEF BrowserInv, BaseInv

LEMMA CloseKeeps ==
  ASSUME BrowserInv, Close
  PROVE  BrowserInv'
<1>1. TypeOK /\ SoundInv /\ ReportsInv /\ ConnInv /\ LiveInv /\ SeenInv
  BY DEF BrowserInv, BaseInv
<1>2. /\ store' = store /\ live' = live /\ ver' = ver /\ shared' = shared /\ gone' = gone
      /\ opens' = opens /\ link' = FALSE /\ browsers' = FALSE /\ timer' = TRUE
      /\ dialling' = dialling /\ link
      /\ view' = view /\ replies' = replies /\ ops' = ops
      /\ seen' = seen /\ overtaken' = overtaken /\ missed' = missed
      /\ todo' = [todo EXCEPT ![Conn] = << >>]
  BY DEF Close, serverVars
<1>3. /\ DOMAIN todo' = Worker /\ todo'[Conn] = << >>
      /\ \A u \in Worker \ {Conn} : todo'[u] = todo[u]
  BY <1>1, <1>2, Workers DEF TypeOK
<1>4. TypeOK'
  BY <1>1, <1>2, <1>3 DEF TypeOK
<1>5. /\ \A w, s : StepSound(w, s) => StepSound(w, s)'
      /\ \A m : Sound(m) => Sound(m)'
  BY <1>1, <1>2, CellsUnchanged DEF serverVars, Close
<1>6. SoundInv'
  <2>1. \A u \in Worker : /\ todo'[u] \in Seq(Range(todo'[u]))
                          /\ \A s \in Range(todo'[u]) : s \in Steps(u)
    BY <1>1, <1>3, NoSteps DEF SoundInv, Steps
  <2> QED BY <1>1, <1>2, <1>5, <2>1 DEF SoundInv, Steps
<1>7. ReportsInv'
  <2>1. Reports(<< >>)
    BY DEF Reports
  <2> QED BY <1>1, <1>3, <2>1 DEF ReportsInv
<1>8. ConnInv' /\ LiveInv' /\ SeenInv' /\ TellInv' /\ SpanInv'
  BY <1>1, <1>2, <1>3 DEF ConnInv, LiveInv, SeenInv, TellInv, SpanInv
<1> QED BY <1>4, <1>6, <1>7, <1>8 DEF BrowserInv, BaseInv

\* A dial that fails, and one that starts, concern the socket alone.
LEMMA DialKeeps ==
  ASSUME BrowserInv, DialFails \/ Redial \/ UNCHANGED vars
  PROVE  BrowserInv'
<1>1. TypeOK /\ SoundInv /\ ReportsInv /\ ConnInv /\ LiveInv /\ SeenInv /\ TellInv /\ SpanInv
  BY DEF BrowserInv, BaseInv
<1>0. UNCHANGED dialFrame /\ DOMAIN todo' = Worker
  BY <1>1 DEF DialFails, Redial, vars, serverVars, clientVars, dialFrame, TypeOK
<1> USE <1>0 DEF dialFrame, serverVars
<1>2. TypeOK'
  <2>1. /\ link' \/ dialling' \/ timer'
        /\ ~(link' /\ dialling') /\ ~(link' /\ timer') /\ ~(dialling' /\ timer')
        /\ timer' \in BOOLEAN /\ dialling' \in BOOLEAN
    <3>1. CASE UNCHANGED vars
      BY <1>1, <3>1 DEF TypeOK, vars, clientVars
    <3>2. CASE DialFails
      <4>1. ~ link /\ link' = link
        BY <1>1, <3>2 DEF TypeOK, DialFails
      <4>2. ~ link'
        BY <4>1
      <4>3. timer' = TRUE /\ dialling' = FALSE
        BY <3>2 DEF DialFails
      <4> QED BY <4>2, <4>3
    <3>3. CASE Redial
      <4>1. ~ link /\ link' = link
        BY <1>1, <3>3 DEF TypeOK, Redial
      <4>2. ~ link'
        BY <4>1
      <4>3. timer' = FALSE /\ dialling' = TRUE
        BY <3>3 DEF Redial
      <4> QED BY <4>2, <4>3
    <3> QED BY <3>1, <3>2, <3>3
  <2> QED BY <1>1, <2>1 DEF TypeOK
<1>3. /\ \A c : Same(c) /\ Kept(c)
      /\ \A w, s : StepSound(w, s) => StepSound(w, s)'
      /\ \A m : Sound(m) => Sound(m)'
      /\ \A s, t, v : Fresh(s, t, v) => Fresh(s, t, v)'
      /\ \A s, c, v, full : Will(s, c, v, full) => Will(s, c, v, full)'
  BY <1>1, CellsUnchanged
<1>4. SoundInv'
  BY <1>1, <1>3 DEF SoundInv, Steps
<1>5. ReportsInv' /\ ConnInv' /\ LiveInv' /\ SeenInv'
  BY <1>1 DEF ReportsInv, ConnInv, LiveInv, SeenInv
<1>6. TellInv'
  <2>1. \A c : Current(c)' = Current(c) /\ OwedNewest(c)' = OwedNewest(c)
    BY DEF Current, OwedNewest, Owed, Will, Steps
  <2>2. \A c : Matches(c)' = Matches(c) /\ (c \in Disturbed)' = (c \in Disturbed)
    BY DEF Matches, Registered, Disturbed
  <2> QED BY <1>1, <2>1, <2>2 DEF TellInv
<1>7. SpanInv'
  BY <1>1 DEF SpanInv, Retained, FreshFrom, Fresh, Whole, WholeShown, Owed, Will, Steps, Disturbed
<1> QED BY <1>2, <1>4, <1>5, <1>6, <1>7 DEF BrowserInv, BaseInv
-----------------------------------------------------------------------------
(* What each action is: first those that carry on. *)

LEMMA ThenAdds ==
  ASSUME TypeOK, SoundInv, NEW w \in Worker, NEW op, Doing(w, op),
         NEW p, p \in Seq(Range(p)), Then(w, p)
  PROVE  /\ Adds(w, p) /\ todo[w] # << >> /\ Head(todo[w]).op = op
         /\ Head(todo[w]) \in Steps(w) /\ StepSound(w, Head(todo[w]))
         /\ DOMAIN todo' = Worker
<1>1. todo[w] # << >> /\ Head(todo[w]).op = op
  BY DEF Doing
<1>2. Adds(w, p) /\ DOMAIN todo' = Worker
  BY <1>1 DEF Adds, Then, TypeOK
<1>3. Head(todo[w]) \in Steps(w)
  BY <1>1, HeadAndTail DEF SoundInv, Steps
<1> QED BY <1>1, <1>2, <1>3 DEF SoundInv

LEMMA CarryTypes ==
  ASSUME TypeOK, UNCHANGED <<serverVars, opens, link, timer, dialling, view, seen, overtaken, missed>>,
         DOMAIN todo' = Worker, browsers' \in BOOLEAN, browsers' => link, gone' \subseteq gone
  PROVE  TypeOK'
  BY DEF TypeOK, serverVars

LEMMA MessageSound ==
  ASSUME TypeOK, NEW type, type \notin {"trace.decided", "collector.disconnected"},
         NEW cells, cells \subseteq Cell
  PROVE  /\ Sound(Message(type, cells))
         /\ Message(type, cells).type = type
         /\ DOMAIN Message(type, cells).upd = cells
         /\ \A c \in cells : Message(type, cells).upd[c] = Read(c)
<1>1. /\ Message(type, cells).type = type
      /\ DOMAIN Message(type, cells).upd = cells
      /\ \A c \in cells : Message(type, cells).upd[c] = Read(c)
  BY DEF Message
<1>2. \A c \in cells : Valid(type, c, Read(c))
  BY ReadAgrees
<1> QED BY <1>1, <1>2 DEF Sound

LEMMA ReadOf == \A c : Read(c).ver = ver[c] /\ (c \in TraceID => Read(c).val = store[c])
  BY DEF Read

LEMMA ReadStatisticsCarries ==
  ASSUME BrowserInv, NEW w \in Worker, ReadStatistics(w)
  PROVE  BrowserInv'
<1>a. PICK m : m = Message("statistics.updated", {"statistics"})
  OBVIOUS
<1>b. PICK s : s = Broadcast(m)
  OBVIOUS
<1>1. TypeOK /\ SoundInv /\ ConnInv
  BY DEF BrowserInv, BaseInv
<1>2. <<s>> \in Seq(Range(<<s>>)) /\ Range(<<s>>) = {s} /\ s.op = "broadcast" /\ s.msg = m
  BY <1>b, OneStep DEF Broadcast
<1>3. UNCHANGED <<serverVars, clientVars>> /\ Doing(w, "statistics") /\ Then(w, <<s>>)
  BY <1>a, <1>b DEF ReadStatistics
<1>4. Sound(m) /\ m.type = "statistics.updated" /\ DOMAIN m.upd = {"statistics"}
      /\ m.upd["statistics"].ver = ver["statistics"]
  BY <1>1, <1>a, MessageSound, ReadAgrees, Kinds
<1>5. /\ Adds(w, <<s>>) /\ todo[w] # << >> /\ Head(todo[w]).op = "statistics"
      /\ DOMAIN todo' = Worker
  BY <1>1, <1>2, <1>3, ThenAdds
<1>6. TypeOK'
  BY <1>1, <1>3, <1>5, CarryTypes DEF clientVars, TypeOK
<1>7. ConnInv'
  BY <1>1, <1>3, <1>5, ConnGoes DEF clientVars
<1>8. StepSound(w, s)
  BY <1>2, <1>4 DEF StepSound, Telling
<1>9. ASSUME NEW c \in Cell, NEW v, NEW full, v \in 0 .. ver[c], Will(Head(todo[w]), c, v, full)
      PROVE  Owed(c, v, full)'
  <2>1. c = "statistics"
    BY <1>5, <1>9 DEF Will
  <2>2. m.upd[c].ver >= v
    BY <1>1, <1>4, <1>9, <2>1 DEF TypeOK
  <2>3. Will(s, c, v, full)'
    BY <1>2, <1>4, <2>1, <2>2 DEF Will
  <2> QED BY <1>1, <1>2, <1>5, <2>3, OwedBy
<1>10. ASSUME NEW t \in Retained, NEW v PROVE Fresh(s, t, v)
  <2>1. t # "statistics"
    BY Kinds DEF Retained, Settings
  <2> QED BY <1>2, <1>4, <2>1 DEF Fresh
<1>11. CarryStep(w, <<s>>)
  BY <1>2, <1>3, <1>5, <1>6, <1>7, <1>8, <1>9, <1>10 DEF CarryStep, clientVars, Current, serverVars
<1> QED BY <1>11, CarryKeeps

LEMMA ReadTracesCarries ==
  ASSUME BrowserInv, NEW w \in Worker, ReadTraces(w)
  PROVE  BrowserInv'
<1>a. PICK s : s = [op |-> "snapshot2", to |-> Head(todo[w]).to, upd |-> [t \in TraceID |-> Read(t)]]
  OBVIOUS
<1>1. TypeOK /\ SoundInv /\ ConnInv
  BY DEF BrowserInv, BaseInv
<1>2. <<s>> \in Seq(Range(<<s>>)) /\ Range(<<s>>) = {s}
  BY OneStep
<1>3. /\ Doing(w, "snapshot") /\ Then(w, <<s>>)
      /\ gone' = (IF w = Conn THEN {} ELSE gone)
      /\ UNCHANGED <<serverVars, browsers, opens, link, timer, dialling, replies, view,
                     seen, overtaken, missed>>
  BY <1>a DEF ReadTraces
<1>4. s.op = "snapshot2" /\ s.to = Head(todo[w]).to /\ DOMAIN s.upd = TraceID
      /\ \A t \in TraceID : s.upd[t] = Read(t)
  BY <1>a
<1>5. /\ Adds(w, <<s>>) /\ todo[w] # << >> /\ Head(todo[w]).op = "snapshot"
      /\ DOMAIN todo' = Worker /\ StepSound(w, Head(todo[w]))
  BY <1>1, <1>2, <1>3, ThenAdds
<1>6. TypeOK'
  BY <1>1, <1>3, <1>5, CarryTypes DEF TypeOK
<1>7. ConnInv'
  BY <1>1, <1>3, <1>5, ConnGoes
<1>8. StepSound(w, s)
  <2>1. \A t \in TraceID : Valid("snapshot", t, s.upd[t])
    BY <1>1, <1>4, ReadAgrees, Kinds
  <2> QED BY <1>4, <1>5, <2>1 DEF StepSound, Telling
<1>9. ASSUME NEW c \in Cell, NEW v, NEW full, v \in 0 .. ver[c]
      PROVE  Owed(c, v, full)'
  <2>1. c \in TraceID => s.upd[c].ver >= v
    BY <1>1, <1>4, <1>9, ReadOf DEF TypeOK
  <2>2. Will(s, c, v, full)'
    BY <1>4, <2>1 DEF Will
  <2> QED BY <1>1, <1>2, <1>5, <2>2, OwedBy
<1>10. ASSUME NEW c \in Cell PROVE OwedNewest(c)'
  <2>1. PICK v : v = ver[c]
    OBVIOUS
  <2>2. v \in 0 .. ver[c] /\ v = ver'[c]
    BY <1>1, <1>3, <2>1 DEF TypeOK, serverVars
  <2> QED BY <1>9, <2>2, NewestBy
<1>11. ASSUME NEW t \in Retained, NEW v PROVE Fresh(s, t, v)
  <2>1. Whole(s.upd[t].val, t)
    BY <1>4, ReadOf DEF Whole, Retained
  <2> QED BY <1>4, <2>1 DEF Fresh, Telling
<1>12. CarryStep(w, <<s>>)
  BY <1>2, <1>3, <1>4, <1>5, <1>6, <1>7, <1>8, <1>9, <1>10, <1>11 DEF CarryStep
<1> QED BY <1>12, CarryKeeps

LEMMA ReadRestCarries ==
  ASSUME BrowserInv, NEW w \in Worker, ReadRest(w)
  PROVE  BrowserInv'
<1>a. PICK h : h = Head(todo[w])
  OBVIOUS
<1>b. PICK m : m = [type |-> "snapshot",
                    upd |-> [c \in Cell |-> IF c \in TraceID THEN h.upd[c] ELSE Read(c)]]
  OBVIOUS
<1>c. PICK s : s = IF h.to = 0 THEN Broadcast(m) ELSE [op |-> "send", to |-> h.to, msg |-> m]
  OBVIOUS
<1>1. TypeOK /\ SoundInv /\ ConnInv
  BY DEF BrowserInv, BaseInv
<1>2. <<s>> \in Seq(Range(<<s>>)) /\ Range(<<s>>) = {s}
  BY OneStep
<1>3. /\ Doing(w, "snapshot2") /\ Then(w, <<s>>) /\ UNCHANGED <<serverVars, clientVars>>
  BY <1>a, <1>b, <1>c DEF ReadRest
<1>4. /\ s.msg = m /\ m.type = "snapshot" /\ DOMAIN m.upd = Cell
      /\ \A c \in Cell : m.upd[c] = IF c \in TraceID THEN h.upd[c] ELSE Read(c)
      /\ s.op = "broadcast" \/ (s.op = "send" /\ s.to = h.to /\ h.to # 0)
  BY <1>b, <1>c DEF Broadcast
<1>5. /\ Adds(w, <<s>>) /\ todo[w] # << >> /\ h.op = "snapshot2"
      /\ DOMAIN todo' = Worker /\ StepSound(w, h)
  BY <1>1, <1>2, <1>3, <1>a, ThenAdds
<1>6. TypeOK'
  BY <1>1, <1>3, <1>5, CarryTypes DEF clientVars, TypeOK
<1>7. ConnInv'
  BY <1>1, <1>3, <1>5, <1>a, ConnGoes DEF clientVars
<1>8. \A t \in TraceID : Valid("snapshot", t, h.upd[t])
  BY <1>5 DEF StepSound
<1>9. StepSound(w, s)
  <2>1. \A c \in Cell : Valid("snapshot", c, m.upd[c])
    BY <1>1, <1>4, <1>8, ReadAgrees
  <2>2. Sound(m)
    BY <1>4, <2>1 DEF Sound
  <2> QED BY <1>4, <2>2 DEF StepSound, Telling
<1>10. s.op = "broadcast" \/ (s.op = "send" /\ s.to = opens)
  BY <1>4, <1>5 DEF StepSound
<1>11. ASSUME NEW c \in Cell, NEW v, NEW full, v \in 0 .. ver[c], Will(h, c, v, full)
      PROVE  Owed(c, v, full)'
  <2>1. m.upd[c].ver >= v
    <3>1. c \in TraceID => h.upd[c].ver >= v
      BY <1>5, <1>11 DEF Will
    <3>2. ver[c] >= v
      BY <1>1, <1>11 DEF TypeOK
    <3> QED BY <1>4, <3>1, <3>2, ReadOf
  <2>2. Will(s, c, v, full)'
    BY <1>3, <1>4, <1>10, <2>1 DEF Will, clientVars
  <2> QED BY <1>1, <1>2, <1>5, <2>2, OwedBy
<1>12. ASSUME NEW t \in Retained, NEW v, Fresh(h, t, v) PROVE Fresh(s, t, v)
  <2>1. m.upd[t] = h.upd[t]
    BY <1>4, Kinds DEF Retained
  <2>2. h.upd[t].ver >= v => Whole(h.upd[t].val, t)
    BY <1>5, <1>12 DEF Fresh
  <2> QED BY <1>4, <2>1, <2>2 DEF Fresh
<1>13. CarryStep(w, <<s>>)
  BY <1>2, <1>3, <1>4, <1>5, <1>6, <1>7, <1>9, <1>11, <1>12, <1>a
     DEF CarryStep, clientVars, Current, serverVars
<1> QED BY <1>13, CarryKeeps

LEMMA CopyBrowsersCarries ==
  ASSUME BrowserInv, NEW w \in Worker, CopyBrowsers(w)
  PROVE  BrowserInv'
<1>a. PICK h : h = Head(todo[w])
  OBVIOUS
<1>b. PICK s : s = [op |-> "send", to |-> opens, msg |-> h.msg]
  OBVIOUS
<1>c. PICK p : p = IF browsers THEN <<s>> ELSE << >>
  OBVIOUS
<1>1. TypeOK /\ SoundInv /\ ConnInv
  BY DEF BrowserInv, BaseInv
<1>2. p \in Seq(Range(p)) /\ Range(p) \subseteq {s} /\ (browsers => s \in Range(p))
  <2>1. CASE browsers
    BY <1>c, <2>1, OneStep
  <2>2. CASE ~ browsers
    BY <1>c, <2>2, NoSteps
  <2> QED BY <2>1, <2>2
<1>3. Doing(w, "broadcast") /\ Then(w, p) /\ UNCHANGED <<serverVars, clientVars>>
  BY <1>a, <1>b, <1>c DEF CopyBrowsers
<1>4. s.op = "send" /\ s.to = opens /\ s.msg = h.msg
  BY <1>b
<1>5. /\ Adds(w, p) /\ todo[w] # << >> /\ h.op = "broadcast"
      /\ DOMAIN todo' = Worker /\ StepSound(w, h)
  BY <1>1, <1>2, <1>3, <1>a, ThenAdds
<1>6. TypeOK'
  BY <1>1, <1>3, <1>5, CarryTypes DEF clientVars, TypeOK
<1>7. ConnInv'
  BY <1>1, <1>3, <1>5, <1>a, ConnGoes DEF clientVars
<1>8. StepSound(w, s)
  BY <1>4, <1>5 DEF StepSound, Telling
<1>9. ASSUME link, NEW c \in Cell, NEW v, NEW full, Will(h, c, v, full)
      PROVE  Owed(c, v, full)'
  <2>1. CASE browsers
    <3>1. Will(s, c, v, full)'
      BY <1>3, <1>4, <1>5, <1>9 DEF Will, clientVars
    <3> QED BY <1>1, <1>2, <1>5, <2>1, <3>1, OwedBy
  <2>2. CASE ~ browsers
    <3>1. PICK x \in Range(Tail(todo[Conn])) : x.op = "snapshot"
      BY <1>1, <1>9, <2>2 DEF ConnInv
    <3>2. todo[Conn] # << >> /\ Head(todo[Conn]).op = "register"
      BY <1>1, <1>9, <2>2 DEF ConnInv
    <3>3. todo[Conn] \in Seq(Range(todo[Conn]))
      BY <1>1, Workers DEF SoundInv, Steps
    <3>4. x \in Range(todo[Conn])
      BY <3>1, <3>2, <3>3, HeadAndTail
    <3>5. todo'[Conn] = todo[Conn]
      BY <1>1, <1>5, <1>a, <3>2, AddsSteps, Workers
    <3>6. Will(x, c, v, full)'
      BY <3>1 DEF Will
    <3> QED BY <3>4, <3>5, <3>6, Workers DEF Owed, Steps
  <2> QED BY <2>1, <2>2
<1>10. ASSUME NEW t \in Retained, NEW v, Fresh(h, t, v) PROVE Fresh(s, t, v)
  BY <1>4, <1>5, <1>10 DEF Fresh, Telling
<1>11. CarryStep(w, p)
  BY <1>2, <1>3, <1>4, <1>5, <1>6, <1>7, <1>8, <1>9, <1>10, <1>a
     DEF CarryStep, clientVars, Current, serverVars
<1> QED BY <1>11, CarryKeeps

\* A step that owes nothing is done.
LEMMA DoneCarries ==
  ASSUME BrowserInv, NEW w \in Worker, NEW op, Doing(w, op), Then(w, << >>),
         UNCHANGED <<serverVars, opens, link, timer, dialling, view, seen, overtaken, missed, gone>>,
         browsers' \in BOOLEAN, browsers' => link,
         op # "register" => browsers' = browsers,
         op = "register" => w = Conn /\ browsers' = TRUE,
         \A m \in replies' : m \in replies \/ (Sound(m) /\ DOMAIN m.upd \cap TraceID = {}),
         \/ op \in {"register", "respond", "answer"}
         \/ op = "send" /\ ~ (link /\ Head(todo[w]).to = opens)
  PROVE  BrowserInv'
<1>1. TypeOK /\ SoundInv /\ ConnInv
  BY DEF BrowserInv, BaseInv
<1>2. << >> \in Seq(Range(<< >>)) /\ Range(<< >>) = {}
  BY NoSteps
<1>3. /\ Adds(w, << >>) /\ todo[w] # << >> /\ Head(todo[w]).op = op
      /\ DOMAIN todo' = Worker
  BY <1>1, <1>2, ThenAdds
<1>4. TypeOK'
  BY <1>1, <1>3, CarryTypes
<1>5. ConnInv'
  <2>1. CASE op # "register"
    BY <1>1, <1>3, <2>1, ConnGoes
  <2>2. CASE op = "register"
    BY <1>1, <1>3, <2>2 DEF ConnInv
  <2> QED BY <2>1, <2>2
<1>6. link => \A c, v, full : ~ Will(Head(todo[w]), c, v, full)
  BY <1>3 DEF Will
<1>7. CarryStep(w, << >>)
  BY <1>2, <1>3, <1>4, <1>5, <1>6 DEF CarryStep, Current, serverVars
<1> QED BY <1>7, CarryKeeps

LEMMA RegisterBrowserCarries ==
  ASSUME BrowserInv, RegisterBrowser
  PROVE  BrowserInv'
<1>1. link
  BY DEF RegisterBrowser, Doing, BrowserInv, BaseInv, ConnInv
<1>2. BrowserInv /\ Conn \in Worker /\ Doing(Conn, "register") /\ Then(Conn, << >>)
      /\ browsers' = TRUE /\ replies' = replies
      /\ UNCHANGED <<serverVars, opens, link, timer, dialling, view, seen, overtaken, missed, gone>>
  BY Workers DEF RegisterBrowser
<1> QED BY <1>1, <1>2, DoneCarries

LEMMA RespondCarries ==
  ASSUME BrowserInv, NEW h \in Handler, Respond(h)
  PROVE  BrowserInv'
<1>1. TypeOK /\ SoundInv /\ ConnInv
  BY DEF BrowserInv, BaseInv
<1>2. /\ h \in Worker /\ Then(h, << >>) /\ browsers' = browsers /\ browsers \in BOOLEAN
      /\ browsers' => link
      /\ UNCHANGED <<serverVars, opens, link, timer, dialling, view, seen, overtaken, missed, gone>>
  BY <1>1, Workers DEF Respond, TypeOK
<1>3. CASE Doing(h, "respond")
  <2>1. replies' = replies \cup {Message("policy-set", {"policy"})}
    BY <1>3 DEF Respond
  <2>2. "policy" \notin TraceID /\ {"policy"} \subseteq Cell
    BY Kinds DEF Settings
  <2>3. /\ Sound(Message("policy-set", {"policy"}))
        /\ DOMAIN Message("policy-set", {"policy"}).upd \cap TraceID = {}
    <3>1. /\ Sound(Message("policy-set", {"policy"}))
          /\ DOMAIN Message("policy-set", {"policy"}).upd = {"policy"}
      BY <1>1, <2>2, MessageSound
    <3> HIDE DEF Message
    <3> QED BY <2>2, <3>1
  <2> HIDE DEF Message
  <2>4. \A m \in replies' : m \in replies \/ (Sound(m) /\ DOMAIN m.upd \cap TraceID = {})
    BY <2>1, <2>3
  <2> QED BY <1>2, <1>3, <2>4, DoneCarries
<1>4. CASE Doing(h, "answer") /\ ~ Doing(h, "respond")
  <2>1. replies' = replies \cup {Head(todo[h]).msg}
    BY <1>4 DEF Respond
  <2>2. StepSound(h, Head(todo[h])) /\ Head(todo[h]).op = "answer"
    BY <1>1, <1>2, <1>4, ThenAdds, NoSteps
  <2>3. Sound(Head(todo[h]).msg) /\ DOMAIN Head(todo[h]).msg.upd \cap TraceID = {}
    BY <2>2 DEF StepSound, Telling
  <2>4. \A m \in replies' : m \in replies \/ (Sound(m) /\ DOMAIN m.upd \cap TraceID = {})
    BY <2>1, <2>3
  <2> QED BY <1>2, <1>4, <2>4, DoneCarries
<1> QED BY <1>3, <1>4 DEF Respond

LEMMA SendTells ==
  ASSUME BrowserInv, NEW w \in Worker, Send(w) \/ Expire(w)
  PROVE  BrowserInv'
<1>1. TypeOK /\ SoundInv
  BY DEF BrowserInv, BaseInv
<1>2. Doing(w, "send") /\ Then(w, << >>)
      /\ UNCHANGED <<serverVars, browsers, opens, link, timer, dialling, replies, gone>>
  BY DEF Send, Expire
<1>3. PICK m : m = Head(todo[w]).msg
  OBVIOUS
<1>4. CASE Take(m) \/ Lapse(m)
  <2>1. Adds(w, << >>) /\ todo[w] # << >> /\ Head(todo[w]).op = "send" /\ StepSound(w, Head(todo[w]))
    BY <1>1, <1>2, ThenAdds, NoSteps
  <2>2. Sound(m)
    BY <1>3, <2>1 DEF StepSound, Telling
  <2> QED BY <1>2, <1>3, <1>4, <2>1, <2>2, ToldKeeps
<1>5. CASE ~ (link /\ Head(todo[w]).to = opens) /\ UNCHANGED <<view, seen, overtaken, missed>>
  <2>1. browsers \in BOOLEAN /\ (browsers => link)
    BY <1>1 DEF TypeOK
  <2> QED BY <1>2, <1>5, <2>1, DoneCarries
<1> QED BY <1>3, <1>4, <1>5 DEF Send, Expire, Lapse

LEMMA ReceiveReplyTells ==
  ASSUME BrowserInv, ReceiveReply
  PROVE  BrowserInv'
<1>1. PICK m \in replies :
        Take(m) /\ replies' = replies \ {m}
        /\ UNCHANGED <<serverVars, todo, browsers, opens, link, timer, dialling, gone>>
  BY DEF ReceiveReply
<1>2. Sound(m) /\ DOMAIN m.upd \cap TraceID = {}
  BY DEF BrowserInv, BaseInv, SoundInv
<1> QED BY <1>1, <1>2, ToldKeeps
-----------------------------------------------------------------------------
(* Then those that change the server's state. *)

LEMMA DoAdds ==
  ASSUME TypeOK, NEW w \in Worker, NEW p, p \in Seq(Range(p)), Do(w, p)
  PROVE  Adds(w, p) /\ todo[w] = << >> /\ DOMAIN todo' = Worker
  BY DEF Do, Idle, Adds, TypeOK

LEMMA Bumped ==
  ASSUME TypeOK, NEW cells, ver' = Bump(cells)
  PROVE  /\ ver' \in [Cell -> Nat]
         /\ \A c \in Cell : /\ ver[c] \in Nat /\ ver'[c] \in Nat
                            /\ ver'[c] = IF c \in cells THEN ver[c] + 1 ELSE ver[c]
  BY DEF TypeOK, Bump

LEMMA OpsNext ==
  ASSUME TypeOK, Changes
  PROVE  ops' \in 0 .. MaxOps
  BY BrowserAssumption DEF TypeOK, Changes

\* A broadcast about one cell, as the change that made it left it.
LEMMA ToldMessage ==
  ASSUME NEW type, NEW c, NEW val, NEW v, NEW s, s = Broadcast(Told(type, c, val, v))
  PROVE  /\ s.op = "broadcast" /\ s.msg.type = type /\ DOMAIN s.msg.upd = {c}
         /\ s.msg.upd[c].val = val /\ s.msg.upd[c].ver = v
  BY DEF Broadcast, Told

LEMMA SameOther ==
  ASSUME NEW c \in Cell, ver'[c] = ver[c],
         c \in TraceID => store'[c] = store[c],
         c \in Collector => Registered(c)' = Registered(c)
  PROVE  Same(c)
  BY DEF Same, SameTrace

LEMMA RegisterServes ==
  ASSUME BrowserInv, NEW r \in Reader, Register(r)
  PROVE  BrowserInv'
<1>1. TypeOK /\ SoundInv /\ LiveInv
  BY DEF BrowserInv, BaseInv
<1>a. PICK c : c = CollectorOf[r]
  OBVIOUS
<1>2. c \in Collector /\ c \in Cell /\ r \in Worker /\ r # Conn
  BY <1>a, BrowserAssumption, Kinds, Workers
<1>b. PICK v : v = ver[c] + 1
  OBVIOUS
<1>d. PICK val : val = TRUE
  OBVIOUS
<1>c. PICK s : s = Broadcast(Told("collector.connected", c, val, v))
  OBVIOUS
<1>3. /\ r \notin live /\ Changes /\ live' = live \cup {r} /\ ver' = Bump({c}) /\ Do(r, <<s>>)
      /\ shared' = (IF Registered(c) THEN shared \cup {c} ELSE shared)
      /\ store' = store /\ UNCHANGED clientVars
  BY <1>a, <1>b, <1>c, <1>d DEF Register
<1>4. <<s>> \in Seq(Range(<<s>>)) /\ Range(<<s>>) = {s}
  BY OneStep
<1>5. Adds(r, <<s>>) /\ todo[r] = << >> /\ DOMAIN todo' = Worker
  BY <1>1, <1>2, <1>3, <1>4, DoAdds
<1>6. /\ ver' \in [Cell -> Nat]
      /\ \A d \in Cell : /\ ver[d] \in Nat /\ ver'[d] \in Nat
                         /\ ver'[d] = IF d \in {c} THEN ver[d] + 1 ELSE ver[d]
  BY <1>1, <1>3, Bumped
<1>7. TypeOK'
  <2>1. shared' \subseteq Collector /\ live' \subseteq Reader
    BY <1>1, <1>2, <1>3 DEF TypeOK
  <2>2. ops' \in 0 .. MaxOps
    BY <1>1, <1>3, OpsNext
  <2> QED BY <1>1, <1>3, <1>5, <1>6, <2>1, <2>2 DEF TypeOK, clientVars
<1>8. LiveInv'
  <2> SUFFICES ASSUME NEW x \in live', NEW y \in live', CollectorOf[x] = CollectorOf[y]
               PROVE  x = y \/ CollectorOf[x] \in shared'
    BY DEF LiveInv
  <2>1. shared \subseteq shared'
    BY <1>3
  <2>2. CASE x \in live /\ y \in live
    BY <1>1, <2>1, <2>2 DEF LiveInv
  <2>3. CASE (x = r /\ y \in live) \/ (x \in live /\ y = r)
    <3>1. Registered(c)
      BY <1>a, <2>3 DEF Registered
    <3> QED BY <1>3, <1>a, <2>3, <3>1
  <2> QED BY <1>3, <2>2, <2>3
<1>e. PICK u : u = s.msg.upd[c]
  OBVIOUS
<1>f. PICK type : type = "collector.connected"
  OBVIOUS
<1>m. /\ s.op = "broadcast" /\ s.msg.type = type /\ DOMAIN s.msg.upd = {c}
      /\ s.msg.upd[c] = u /\ u.val = val /\ u.ver = v
  BY <1>c, <1>e, <1>f, ToldMessage
<1>9. /\ s.op = "broadcast" /\ DOMAIN s.msg.upd = {c} /\ Will(s, c, v, FALSE)' /\ StepSound(r, s)'
      /\ v = ver'[c]
  <2>1. v = ver'[c] /\ v \in Nat
    BY <1>2, <1>6, <1>b
  <2>2. Registered(c)'
    BY <1>3, <1>a DEF Registered
  <2>3. u.val = val /\ u.ver = v
    BY <1>m
  <2>4. v \in 0 .. v
    BY <2>1
  <2>5. Valid(type, c, u)'
    BY <1>2, <1>d, <1>f, <2>1, <2>2, <2>3, <2>4, Kinds DEF Valid, Agrees
  <2>7. Will(s, c, v, FALSE)'
    BY <1>m, <2>1 DEF Will
  <2>8. Sound(s.msg)'
    BY <1>2, <1>m, <1>f, <2>5 DEF Sound
  <2>9. StepSound(r, s)'
    BY <1>m, <2>8 DEF StepSound
  <2> QED BY <1>m, <2>1, <2>7, <2>9
<1>10. ASSUME NEW d \in Cell
       PROVE  \/ Same(d) /\ (Current(d)' => Current(d))
              \/ ver'[d] > ver[d] /\ (Current(d)' => OwedNewest(d)')
  <2>1. CASE d = c
    <3>1. Owed(c, v, FALSE)'
      BY <1>1, <1>2, <1>4, <1>5, <1>9, OwedBy
    <3>2. OwedNewest(c)'
      BY <1>9, <3>1, NewestBy
    <3> QED BY <1>6, <2>1, <3>2
  <2>2. CASE d # c
    <3>1. d \in Collector => Registered(d)' = Registered(d)
      BY <1>3, <1>a, <2>2 DEF Registered
    <3>2. ver'[d] = ver[d]
      BY <1>6, <2>2
    <3>3. Same(d)
      BY <1>3, <3>1, <3>2, SameOther
    <3> QED BY <1>3, <3>3 DEF Current, clientVars
  <2> QED BY <2>1, <2>2
<1>11. ASSUME NEW t \in TraceID PROVE \A x : Fresh(s, t, x)'
  <2>1. t # c
    BY <1>2, Kinds
  <2> QED BY <1>9, <2>1 DEF Fresh
<1>12. Reports(<<s>>)
  BY <1>4, <1>9, ReportsPlain
<1>13. Untouched /\ gone' = gone /\ shared \subseteq shared'
  BY <1>3 DEF Untouched, clientVars
<1>14. ServerStep(r, <<s>>)
  BY <1>2, <1>3, <1>4, <1>5, <1>7, <1>8, <1>9, <1>10, <1>11, <1>12, <1>13 DEF ServerStep
<1> QED BY <1>2, <1>14, ServerKeeps

LEMMA UnregisterServes ==
  ASSUME BrowserInv, NEW r \in Reader, Unregister(r)
  PROVE  BrowserInv'
<1>1. TypeOK /\ SoundInv /\ LiveInv
  BY DEF BrowserInv, BaseInv
<1>a. PICK c : c = CollectorOf[r]
  OBVIOUS
<1>2. c \in Collector /\ c \in Cell /\ r \in Worker /\ r # Conn
  BY <1>a, BrowserAssumption, Kinds, Workers
<1>b. PICK v : v = ver[c] + 1
  OBVIOUS
<1>d. PICK val : val = FALSE
  OBVIOUS
<1>c. PICK s : s = Broadcast(Told("collector.disconnected", c, val, v))
  OBVIOUS
<1>3. /\ r \in live /\ Changes /\ live' = live \ {r} /\ ver' = Bump({c}) /\ Do(r, <<s>>)
      /\ store' = store /\ shared' = shared /\ UNCHANGED clientVars
  BY <1>a, <1>b, <1>c, <1>d DEF Unregister
<1>4. <<s>> \in Seq(Range(<<s>>)) /\ Range(<<s>>) = {s}
  BY OneStep
<1>5. Adds(r, <<s>>) /\ todo[r] = << >> /\ DOMAIN todo' = Worker
  BY <1>1, <1>2, <1>3, <1>4, DoAdds
<1>6. /\ ver' \in [Cell -> Nat]
      /\ \A d \in Cell : /\ ver[d] \in Nat /\ ver'[d] \in Nat
                         /\ ver'[d] = IF d \in {c} THEN ver[d] + 1 ELSE ver[d]
  BY <1>1, <1>3, Bumped
<1>7. TypeOK'
  <2>1. live' \subseteq Reader
    BY <1>1, <1>3 DEF TypeOK
  <2>2. ops' \in 0 .. MaxOps
    BY <1>1, <1>3, OpsNext
  <2> QED BY <1>1, <1>3, <1>5, <1>6, <2>1, <2>2 DEF TypeOK, clientVars
<1>8. LiveInv'
  BY <1>1, <1>3 DEF LiveInv
<1>e. PICK u : u = s.msg.upd[c]
  OBVIOUS
<1>f. PICK type : type = "collector.disconnected"
  OBVIOUS
<1>m. /\ s.op = "broadcast" /\ s.msg.type = type /\ DOMAIN s.msg.upd = {c}
      /\ s.msg.upd[c] = u /\ u.val = val /\ u.ver = v
  BY <1>c, <1>e, <1>f, ToldMessage
<1>9. /\ s.op = "broadcast" /\ DOMAIN s.msg.upd = {c} /\ Will(s, c, v, FALSE)' /\ StepSound(r, s)'
      /\ v = ver'[c]
  <2>1. v = ver'[c] /\ v \in Nat
    BY <1>2, <1>6, <1>b
  <2>2. c \notin shared => ~ Registered(c)'
    BY <1>1, <1>3, <1>a DEF LiveInv, Registered
  <2>3. u.val = val /\ u.ver = v
    BY <1>m
  <2>4. v \in 0 .. v
    BY <2>1
  <2>5. c \notin shared' => (u.val = TRUE) = Registered(c)'
    BY <1>3, <1>d, <2>2, <2>3 DEF Registered
  <2>6. Valid(type, c, u)'
    BY <1>2, <2>1, <2>3, <2>4, <2>5, Kinds DEF Valid, Agrees
  <2>7. Will(s, c, v, FALSE)'
    BY <1>m, <2>1 DEF Will
  <2>8. Sound(s.msg)'
    BY <1>2, <1>m, <1>d, <1>f, <2>6 DEF Sound
  <2>9. StepSound(r, s)'
    BY <1>m, <2>8 DEF StepSound
  <2> QED BY <1>m, <2>1, <2>7, <2>9
<1>10. ASSUME NEW d \in Cell
       PROVE  \/ Same(d) /\ (Current(d)' => Current(d))
              \/ ver'[d] > ver[d] /\ (Current(d)' => OwedNewest(d)')
  <2>1. CASE d = c
    <3>1. Owed(c, v, FALSE)'
      BY <1>1, <1>2, <1>4, <1>5, <1>9, OwedBy
    <3>2. OwedNewest(c)'
      BY <1>9, <3>1, NewestBy
    <3> QED BY <1>6, <2>1, <3>2
  <2>2. CASE d # c
    <3>1. d \in Collector => Registered(d)' = Registered(d)
      BY <1>3, <1>a, <2>2 DEF Registered
    <3>2. ver'[d] = ver[d]
      BY <1>6, <2>2
    <3>3. Same(d)
      BY <1>3, <3>1, <3>2, SameOther
    <3> QED BY <1>3, <3>3 DEF Current, clientVars
  <2> QED BY <2>1, <2>2
<1>11. ASSUME NEW t \in TraceID PROVE \A x : Fresh(s, t, x)'
  <2>1. t # c
    BY <1>2, Kinds
  <2> QED BY <1>9, <2>1 DEF Fresh
<1>12. Reports(<<s>>)
  BY <1>4, <1>9, ReportsPlain
<1>13. Untouched /\ gone' = gone
  BY <1>3 DEF Untouched, clientVars
<1>14. ServerStep(r, <<s>>)
  BY <1>2, <1>3, <1>4, <1>5, <1>7, <1>8, <1>9, <1>10, <1>11, <1>12, <1>13 DEF ServerStep
<1> QED BY <1>2, <1>14, ServerKeeps

LEMMA Joined ==
  ASSUME NEW p, p \in Seq(Range(p)), NEW q, q \in Seq(Range(q))
  PROVE  /\ p \o q \in Seq(Range(p \o q)) /\ Range(p \o q) = Range(p) \cup Range(q)
         /\ Len(p) \in Nat /\ Len(q) \in Nat /\ DOMAIN (p \o q) = 1 .. Len(p) + Len(q)
         /\ \A i \in 1 .. Len(p) : (p \o q)[i] = p[i]
         /\ \A i \in Len(p) + 1 .. Len(p) + Len(q) : (p \o q)[i] = q[i - Len(p)]
<1> DEFINE S == Range(p) \cup Range(q)
<1>1. p \in Seq(S) /\ q \in Seq(S) /\ Len(p) \in Nat /\ Len(q) \in Nat
  BY SeqMonotonic
<1>2. /\ p \o q \in Seq(S) /\ Len(p \o q) = Len(p) + Len(q)
      /\ \A i \in 1 .. Len(p) + Len(q) :
           (p \o q)[i] = IF i <= Len(p) THEN p[i] ELSE q[i - Len(p)]
  BY <1>1, ConcatProperties
<1>3. Range(p \o q) = Range(p) \cup Range(q)
  BY <1>1, RangeConcatenation
<1>4. p \o q \in Seq(Range(p \o q))
  BY <1>2, SeqOfRange
<1>5. DOMAIN (p \o q) = 1 .. Len(p) + Len(q)
  BY <1>2
<1> QED BY <1>1, <1>2, <1>3, <1>4, <1>5

LEMMA SetPolicyServes ==
  ASSUME BrowserInv, NEW h \in Handler, SetPolicy(h)
  PROVE  BrowserInv'
<1>1. TypeOK /\ SoundInv /\ LiveInv
  BY DEF BrowserInv, BaseInv
<1>2. h \in Worker /\ h # Conn /\ "policy" \in Cell /\ "policy" \in Settings
      /\ "policy" \notin TraceID /\ "policy" \notin Collector
  BY Workers, Kinds DEF Settings
<1>a. PICK v : v = ver["policy"] + 1
  OBVIOUS
<1>b. PICK a1, a2, a3, a4, a5 :
        /\ a1 = [op |-> "visit", ev |-> v]
        /\ a2 = Broadcast(Told("policy.updated", "policy", v, v))
        /\ a3 = [op |-> "statistics"] /\ a4 = [op |-> "snapshot", to |-> 0]
        /\ a5 = [op |-> "respond"]
  OBVIOUS
<1>c. PICK q : q = IF h \in Own THEN <<a5>> ELSE << >>
  OBVIOUS
<1>d. PICK p : p = <<a1, a2, a3, a4>> \o q
  OBVIOUS
<1>3. /\ Changes /\ ver' = Bump({"policy", "statistics"}) /\ Do(h, p)
      /\ store' = store /\ live' = live /\ shared' = shared /\ UNCHANGED clientVars
  BY <1>a, <1>b, <1>c, <1>d DEF SetPolicy
<1>4. /\ a1.op = "visit" /\ a1.ev = v /\ a2.op = "broadcast" /\ a2.msg.type = "policy.updated"
      /\ DOMAIN a2.msg.upd = {"policy"} /\ a2.msg.upd["policy"] = [val |-> v, ver |-> v]
      /\ a3.op = "statistics" /\ a4.op = "snapshot" /\ a4.to = 0 /\ a5.op = "respond"
  BY <1>b DEF Broadcast, Told
<1>5. q \in Seq(Range(q)) /\ Range(q) \subseteq {a5}
  <2>1. CASE h \in Own
    BY <1>c, <2>1, OneStep
  <2>2. CASE h \notin Own
    BY <1>c, <2>2, NoSteps
  <2> QED BY <2>1, <2>2
<1>6. /\ p \in Seq(Range(p)) /\ Range(p) = {a1, a2, a3, a4} \cup Range(q)
      /\ DOMAIN p = 1 .. 4 + Len(q) /\ Len(q) \in Nat
      /\ p[1] = a1 /\ p[2] = a2 /\ p[3] = a3 /\ p[4] = a4
      /\ \A i \in 5 .. 4 + Len(q) : p[i] = q[i - 4] /\ i - 4 \in 1 .. Len(q)
  <2> DEFINE b == <<a1, a2, a3, a4>>
  <2>1. b \in Seq({a1, a2, a3, a4}) /\ Len(b) = 4 /\ DOMAIN b = 1 .. 4
        /\ b[1] = a1 /\ b[2] = a2 /\ b[3] = a3 /\ b[4] = a4
    OBVIOUS
  <2>2. Range(b) = {a1, a2, a3, a4}
    <3> HIDE DEF b
    <3>1. DOMAIN b = {1, 2, 3, 4}
      BY <2>1
    <3> QED BY <2>1, <3>1 DEF Range
  <2>3. p = b \o q
    BY <1>d
  <2> HIDE DEF b
  <2>4. /\ p \in Seq(Range(p)) /\ Range(p) = {a1, a2, a3, a4} \cup Range(q)
        /\ Len(q) \in Nat /\ DOMAIN p = 1 .. 4 + Len(q)
        /\ \A i \in 1 .. 4 : p[i] = b[i]
        /\ \A i \in 4 + 1 .. 4 + Len(q) : p[i] = q[i - 4]
    <3>1. b \in Seq(Range(b))
      BY <2>1, <2>2
    <3>2. /\ b \o q \in Seq(Range(b \o q)) /\ Range(b \o q) = Range(b) \cup Range(q)
          /\ Len(q) \in Nat /\ DOMAIN (b \o q) = 1 .. Len(b) + Len(q)
          /\ \A i \in 1 .. Len(b) : (b \o q)[i] = b[i]
          /\ \A i \in Len(b) + 1 .. Len(b) + Len(q) : (b \o q)[i] = q[i - Len(b)]
      BY <1>5, <3>1, Joined
    <3>3. Len(b) = 4
      BY <2>1
    <3> QED BY <2>2, <2>3, <3>2, <3>3
  <2>5. p[1] = a1 /\ p[2] = a2 /\ p[3] = a3 /\ p[4] = a4
    BY <2>1, <2>4
  <2>6. \A i \in 5 .. 4 + Len(q) : p[i] = q[i - 4] /\ i - 4 \in 1 .. Len(q)
    BY <2>4
  <2> QED BY <2>4, <2>5, <2>6
<1>7. Adds(h, p) /\ todo[h] = << >> /\ DOMAIN todo' = Worker
  BY <1>1, <1>2, <1>3, <1>6, DoAdds
<1>8. Reports(p)
  <2> SUFFICES ASSUME NEW i \in DOMAIN p, p[i].op \in {"apply", "visit"}
               PROVE  /\ \E j \in DOMAIN p : j > i /\ p[j].op = "statistics"
                      /\ \E j \in DOMAIN p : j > i /\ p[j].op = "snapshot"
    BY DEF Reports
  <2>1. i = 1
    <3>1. CASE i \in 5 .. 4 + Len(q)
      <4>1. DOMAIN q = 1 .. Len(q)
        BY <1>5
      <4>2. p[i] \in Range(q)
        BY <1>6, <3>1, <4>1 DEF Range
      <4> QED BY <1>4, <1>5, <4>2
    <3>2. CASE i \in {2, 3, 4}
      BY <1>4, <1>6, <3>2
    <3> QED BY <1>6, <3>1, <3>2
  <2>2. 3 \in DOMAIN p /\ 4 \in DOMAIN p /\ 3 > i /\ 4 > i
    BY <1>6, <2>1
  <2>3. p[3].op = "statistics" /\ p[4].op = "snapshot"
    BY <1>4, <1>6
  <2> QED BY <2>2, <2>3
<1>9. /\ ver' \in [Cell -> Nat]
      /\ \A c \in Cell : /\ ver[c] \in Nat /\ ver'[c] \in Nat
                         /\ ver'[c] = IF c \in {"policy", "statistics"} THEN ver[c] + 1 ELSE ver[c]
  BY <1>1, <1>3, Bumped
<1>10. TypeOK'
  <2>1. ops' \in 0 .. MaxOps
    BY <1>1, <1>3, OpsNext
  <2> QED BY <1>1, <1>3, <1>7, <1>9, <2>1 DEF TypeOK, clientVars
<1>11. LiveInv'
  BY <1>1, <1>3 DEF LiveInv
<1>12. v = ver'["policy"] /\ v \in Nat
  BY <1>2, <1>9, <1>a
<1>13. \A s \in Range(p) : StepSound(h, s)'
  <2>1. StepSound(h, a1)'
    BY <1>4, <1>12 DEF StepSound, Telling
  <2>2. StepSound(h, a2)'
    <3>1. PICK u : u = [val |-> v, ver |-> v]
      OBVIOUS
    <3>2. v \in 0 .. v
      BY <1>12
    <3>3. Valid("policy.updated", "policy", u)'
      BY <1>2, <1>12, <3>1, <3>2 DEF Valid, Agrees
    <3>4. Sound(a2.msg)'
      BY <1>2, <1>4, <3>1, <3>3 DEF Sound
    <3> QED BY <1>4, <3>4 DEF StepSound
  <2>3. StepSound(h, a3)' /\ StepSound(h, a4)' /\ StepSound(h, a5)'
    BY <1>2, <1>4 DEF StepSound, Telling
  <2> QED BY <1>5, <1>6, <2>1, <2>2, <2>3
<1>14. ASSUME NEW c \in Cell
       PROVE  \/ Same(c) /\ (Current(c)' => Current(c))
              \/ ver'[c] > ver[c] /\ (Current(c)' => OwedNewest(c)')
  <2>1. CASE c \in {"policy", "statistics"}
    <3>1. PICK x : x = ver'[c]
      OBVIOUS
    <3>2. Will(a4, c, x, FALSE)'
      BY <1>4 DEF Will
    <3>3. Owed(c, x, FALSE)'
      BY <1>1, <1>2, <1>6, <1>7, <3>2, OwedBy
    <3>4. OwedNewest(c)'
      BY <3>1, <3>3, NewestBy
    <3> QED BY <1>9, <2>1, <3>4
  <2>2. CASE c \notin {"policy", "statistics"}
    <3>1. ver'[c] = ver[c]
      BY <1>9, <2>2
    <3>2. Same(c)
      BY <1>3, <3>1, SameOther DEF Registered
    <3> QED BY <1>3, <3>2 DEF Current, clientVars
  <2> QED BY <2>1, <2>2
<1>15. ASSUME NEW t \in TraceID, NEW s \in Range(p) PROVE \A x : Fresh(s, t, x)'
  <2>1. s \in {a1, a2, a3, a4, a5}
    BY <1>5, <1>6, <1>15
  <2> QED BY <1>2, <1>4, <2>1 DEF Fresh, Telling
<1>16. ServerStep(h, p)
  BY <1>2, <1>3, <1>7, <1>8, <1>10, <1>11, <1>13, <1>14, <1>15
     DEF ServerStep, Untouched, clientVars
<1> QED BY <1>2, <1>16, ServerKeeps

LEMMA SessionActionServes ==
  ASSUME BrowserInv, NEW h \in Handler, SessionAction(h)
  PROVE  BrowserInv'
<1>1. TypeOK /\ SoundInv /\ LiveInv
  BY DEF BrowserInv, BaseInv
<1>2. h \in Worker /\ h # Conn /\ "session" \in Cell /\ "session" \in Settings
      /\ "session" \notin TraceID /\ "session" \notin Collector
  BY Workers, Kinds DEF Settings
<1>a. PICK v : v = ver["session"] + 1
  OBVIOUS
<1>b. PICK m : m = Told("session.state", "session", v, v)
  OBVIOUS
<1>c. PICK a1, a2 : a1 = Broadcast(m) /\ a2 = [op |-> "answer", msg |-> m]
  OBVIOUS
<1>d. PICK q : q = IF h \in Own THEN <<a2>> ELSE << >>
  OBVIOUS
<1>e. PICK p : p = <<a1>> \o q
  OBVIOUS
<1>3. /\ Changes /\ ver' = Bump({"session"}) /\ Do(h, p)
      /\ store' = store /\ live' = live /\ shared' = shared /\ UNCHANGED clientVars
  BY <1>a, <1>b, <1>c, <1>d, <1>e DEF SessionAction
<1>4. /\ a1.op = "broadcast" /\ a1.msg = m /\ a2.op = "answer" /\ a2.msg = m
      /\ m.type = "session.state" /\ DOMAIN m.upd = {"session"}
      /\ m.upd["session"] = [val |-> v, ver |-> v]
  BY <1>b, <1>c DEF Broadcast, Told
<1>5. q \in Seq(Range(q)) /\ Range(q) \subseteq {a2}
  <2>1. CASE h \in Own
    BY <1>d, <2>1, OneStep
  <2>2. CASE h \notin Own
    BY <1>d, <2>2, NoSteps
  <2> QED BY <2>1, <2>2
<1>6. p \in Seq(Range(p)) /\ Range(p) = {a1} \cup Range(q)
  BY <1>5, <1>e, OneStep, Joined
<1>7. Adds(h, p) /\ todo[h] = << >> /\ DOMAIN todo' = Worker
  BY <1>1, <1>2, <1>3, <1>6, DoAdds
<1>8. Reports(p)
  BY <1>4, <1>5, <1>6, ReportsPlain
<1>9. /\ ver' \in [Cell -> Nat]
      /\ \A c \in Cell : /\ ver[c] \in Nat /\ ver'[c] \in Nat
                         /\ ver'[c] = IF c \in {"session"} THEN ver[c] + 1 ELSE ver[c]
  BY <1>1, <1>3, Bumped
<1>10. TypeOK'
  <2>1. ops' \in 0 .. MaxOps
    BY <1>1, <1>3, OpsNext
  <2> QED BY <1>1, <1>3, <1>7, <1>9, <2>1 DEF TypeOK, clientVars
<1>11. LiveInv'
  BY <1>1, <1>3 DEF LiveInv
<1>12. v = ver'["session"] /\ v \in Nat
  BY <1>2, <1>9, <1>a
<1>13. \A s \in Range(p) : StepSound(h, s)'
  <2>1. PICK u : u = [val |-> v, ver |-> v]
    OBVIOUS
  <2>2. v \in 0 .. v
    BY <1>12
  <2>3. Valid("session.state", "session", u)'
    BY <1>2, <1>12, <2>1, <2>2 DEF Valid, Agrees
  <2>4. Sound(m)'
    BY <1>2, <1>4, <2>1, <2>3 DEF Sound
  <2>5. StepSound(h, a1)' /\ StepSound(h, a2)'
    BY <1>2, <1>4, <2>4 DEF StepSound
  <2> QED BY <1>5, <1>6, <2>5
<1>14. ASSUME NEW c \in Cell
       PROVE  \/ Same(c) /\ (Current(c)' => Current(c))
              \/ ver'[c] > ver[c] /\ (Current(c)' => OwedNewest(c)')
  <2>1. CASE c = "session"
    <3>1. Will(a1, c, v, FALSE)'
      BY <1>4, <1>12, <2>1 DEF Will
    <3>2. Owed(c, v, FALSE)'
      BY <1>1, <1>2, <1>6, <1>7, <3>1, OwedBy
    <3>3. OwedNewest(c)'
      BY <1>12, <2>1, <3>2, NewestBy
    <3> QED BY <1>9, <2>1, <3>3
  <2>2. CASE c # "session"
    <3>1. ver'[c] = ver[c]
      BY <1>9, <2>2
    <3>2. Same(c)
      BY <1>3, <3>1, SameOther DEF Registered
    <3> QED BY <1>3, <3>2 DEF Current, clientVars
  <2> QED BY <2>1, <2>2
<1>15. ASSUME NEW t \in TraceID, NEW s \in Range(p) PROVE \A x : Fresh(s, t, x)'
  <2>1. s \in {a1, a2}
    BY <1>5, <1>6, <1>15
  <2> QED BY <1>2, <1>4, <2>1 DEF Fresh, Telling
<1>16. ServerStep(h, p)
  BY <1>2, <1>3, <1>7, <1>8, <1>10, <1>11, <1>13, <1>14, <1>15
     DEF ServerStep, Untouched, clientVars
<1> QED BY <1>2, <1>16, ServerKeeps

\* The statistics and the snapshot of the same goroutine are still to come.
LEMMA VisitServes ==
  ASSUME BrowserInv, NEW h \in Handler, Visit(h)
  PROVE  BrowserInv'
<1>1. TypeOK /\ SoundInv /\ LiveInv /\ ReportsInv
  BY DEF BrowserInv, BaseInv
<1>2. h \in Worker /\ h # Conn
  BY Workers
<1>a. PICK ev : ev = Head(todo[h]).ev
  OBVIOUS
<1>3. PICK ids \in SUBSET Retained :
        /\ store' = [t \in TraceID |-> IF t \in ids THEN [store[t] EXCEPT !.decision = ev]
                                       ELSE store[t]]
        /\ ver' = Bump(ids \cup {"statistics"})
  BY <1>a DEF Visit
<1>4. /\ Doing(h, "visit") /\ Then(h, << >>)
      /\ live' = live /\ ops' = ops /\ shared' = shared /\ UNCHANGED clientVars
  BY DEF Visit
<1>5. << >> \in Seq(Range(<< >>)) /\ Range(<< >>) = {}
  BY NoSteps
<1>6. /\ Adds(h, << >>) /\ todo[h] # << >> /\ Head(todo[h]).op = "visit"
      /\ StepSound(h, Head(todo[h])) /\ DOMAIN todo' = Worker
  BY <1>1, <1>2, <1>4, <1>5, ThenAdds
<1>7. ev \in Nat
  BY <1>6, <1>a DEF StepSound
<1>8. PICK s \in Range(Tail(todo[h])) : s.op = "snapshot"
  <2>1. todo[h] \in Seq(Range(todo[h])) /\ Reports(todo[h])
    BY <1>1, <1>2 DEF SoundInv, Steps, ReportsInv
  <2> QED BY <1>6, <2>1, ReportsHead
<1>9. /\ ver' \in [Cell -> Nat]
      /\ \A c \in Cell : /\ ver[c] \in Nat /\ ver'[c] \in Nat
                         /\ ver'[c] = IF c \in ids \cup {"statistics"} THEN ver[c] + 1 ELSE ver[c]
  BY <1>1, <1>3, Bumped
<1>10. ASSUME NEW t \in TraceID
       PROVE  /\ store'[t] \in Trace \cup {None}
              /\ store'[t] = None <=> store[t] = None
              /\ store'[t] # None => store'[t].spans = store[t].spans
              /\ t \notin ids => store'[t] = store[t]
  <2>1. store[t] \in Trace \cup {None} /\ None \notin Trace
    BY <1>1, DistinctAssumption DEF TypeOK
  <2>2. CASE t \in ids
    <3>1. store[t] \in Trace
      BY <1>3, <2>1, <2>2 DEF Retained
    <3>2. store'[t] = [store[t] EXCEPT !.decision = ev]
      BY <1>3, <2>2
    <3>3. store'[t] \in Trace /\ store'[t].spans = store[t].spans
      BY <1>7, <3>1, <3>2 DEF Trace
    <3> QED BY <2>1, <2>2, <3>1, <3>3
  <2>3. CASE t \notin ids
    BY <1>3, <2>1, <2>3
  <2> QED BY <2>2, <2>3
<1>11. TypeOK'
  <2>1. store' \in [TraceID -> Trace \cup {None}]
    BY <1>3, <1>10
  <2> QED BY <1>1, <1>4, <1>6, <1>9, <2>1 DEF TypeOK, clientVars
<1>12. LiveInv'
  BY <1>1, <1>4 DEF LiveInv
<1>13. ASSUME NEW c \in Cell
       PROVE  \/ Same(c) /\ (Current(c)' => Current(c))
              \/ ver'[c] > ver[c] /\ (Current(c)' => OwedNewest(c)')
  <2>1. CASE c \in ids \cup {"statistics"}
    <3>1. PICK x : x = ver'[c]
      OBVIOUS
    <3>2. Will(s, c, x, FALSE)'
      BY <1>8 DEF Will
    <3>3. Owed(c, x, FALSE)'
      BY <1>1, <1>2, <1>5, <1>6, <3>2, OwedBy
    <3>4. OwedNewest(c)'
      BY <3>1, <3>3, NewestBy
    <3> QED BY <1>9, <2>1, <3>4
  <2>2. CASE c \notin ids \cup {"statistics"}
    <3>1. ver'[c] = ver[c]
      BY <1>9, <2>2
    <3>2. c \in Collector => Registered(c)' = Registered(c)
      BY <1>4 DEF Registered
    <3>3. Same(c)
      BY <1>10, <2>2, <3>1, <3>2, SameOther
    <3>4. Current(c)' => Current(c)
      BY <1>4, <1>10 DEF Current, clientVars
    <3> QED BY <3>3, <3>4
  <2> QED BY <2>1, <2>2
<1>14. ServerStep(h, << >>)
  BY <1>2, <1>4, <1>5, <1>6, <1>10, <1>11, <1>12, <1>13
     DEF ServerStep, Untouched, clientVars
<1> QED BY <1>2, <1>14, ServerKeeps

LEMMA ApplyServes ==
  ASSUME BrowserInv, Apply
  PROVE  BrowserInv'
<1>1. TypeOK /\ SoundInv /\ LiveInv /\ ReportsInv
  BY DEF BrowserInv, BaseInv
<1>2. Ticker \in Worker /\ Ticker # Conn
  BY Workers
<1>a. PICK h : h = Head(todo[Ticker])
  OBVIOUS
<1>b. PICK t, ev : t = h.id /\ ev = h.ev
  OBVIOUS
<1>c. PICK v : v = ver[t] + 1
  OBVIOUS
<1>d. PICK s : s = Broadcast(Told("trace.decided", t, ev, v))
  OBVIOUS
<1>3. /\ Doing(Ticker, "apply")
      /\ live' = live /\ ops' = ops /\ shared' = shared /\ UNCHANGED clientVars
      /\ \/ /\ t \in Retained
            /\ store' = [store EXCEPT ![t].state = "DECIDED", ![t].decision = ev]
            /\ ver' = Bump({t, "statistics"})
            /\ Then(Ticker, <<s>>)
         \/ Then(Ticker, << >>) /\ UNCHANGED <<store, ver>>
  BY <1>a, <1>b, <1>c, <1>d DEF Apply
<1>e. LiveInv'
  BY <1>1, <1>3 DEF LiveInv
<1>f. << >> \in Seq(Range(<< >>)) /\ Range(<< >>) = {} /\ <<s>> \in Seq(Range(<<s>>)) /\ Range(<<s>>) = {s}
  BY NoSteps, OneStep
<1>4. CASE Then(Ticker, << >>) /\ UNCHANGED <<store, ver>>
  <2>1. /\ Adds(Ticker, << >>) /\ todo[Ticker] # << >> /\ Head(todo[Ticker]).op = "apply"
        /\ DOMAIN todo' = Worker
    BY <1>1, <1>2, <1>3, <1>4, <1>f, ThenAdds
  <2>2. TypeOK'
    BY <1>1, <1>3, <1>4, <2>1 DEF TypeOK, clientVars
  <2>3. \A c \in Cell : Same(c) /\ (Current(c)' => Current(c))
    BY <1>3, <1>4, SameOther DEF Registered, Current, clientVars
  <2>4. ServerStep(Ticker, << >>)
    BY <1>2, <1>3, <1>4, <1>e, <1>f, <2>1, <2>2, <2>3 DEF ServerStep, Untouched, clientVars
  <2> QED BY <1>2, <2>4, ServerKeeps
<1>5. CASE /\ t \in Retained
           /\ store' = [store EXCEPT ![t].state = "DECIDED", ![t].decision = ev]
           /\ ver' = Bump({t, "statistics"})
           /\ Then(Ticker, <<s>>)
  <2>1. /\ Adds(Ticker, <<s>>) /\ todo[Ticker] # << >> /\ h.op = "apply"
        /\ StepSound(Ticker, h) /\ DOMAIN todo' = Worker
    BY <1>1, <1>2, <1>3, <1>5, <1>a, <1>f, ThenAdds
  <2>2. ev \in Nat /\ t \in TraceID /\ t \in Cell
    BY <1>b, <2>1, Kinds DEF StepSound
  <2>3. PICK x \in Range(Tail(todo[Ticker])) : x.op = "statistics"
    <3>1. todo[Ticker] \in Seq(Range(todo[Ticker])) /\ Reports(todo[Ticker])
      BY <1>1, <1>2 DEF SoundInv, Steps, ReportsInv
    <3> QED BY <1>a, <2>1, <3>1, ReportsHead
  <2>4. /\ ver' \in [Cell -> Nat]
        /\ \A c \in Cell : /\ ver[c] \in Nat /\ ver'[c] \in Nat
                           /\ ver'[c] = IF c \in {t, "statistics"} THEN ver[c] + 1 ELSE ver[c]
    BY <1>1, <1>5, Bumped
  <2>5. /\ store' \in [TraceID -> Trace \cup {None}]
        /\ store'[t] # None /\ store'[t].state = "DECIDED" /\ store'[t].decision = ev
        /\ store'[t].spans = store[t].spans
        /\ \A y \in TraceID : y # t => store'[y] = store[y]
    <3>1. store \in [TraceID -> Trace \cup {None}] /\ store[t] \in Trace /\ None \notin Trace
      BY <1>1, <1>5, DistinctAssumption DEF TypeOK, Retained
    <3>2. PICK n : n = [store[t] EXCEPT !.state = "DECIDED", !.decision = ev]
      OBVIOUS
    <3>3. n \in Trace /\ n.state = "DECIDED" /\ n.decision = ev /\ n.spans = store[t].spans
      BY <2>2, <3>1, <3>2 DEF Trace
    <3>4. store' = [store EXCEPT ![t] = n]
      BY <1>5, <2>2, <3>1, <3>2
    <3> QED BY <2>2, <3>1, <3>3, <3>4
  <2>6. TypeOK'
    BY <1>1, <1>3, <2>1, <2>4, <2>5 DEF TypeOK, clientVars
  <2>7. s.op = "broadcast" /\ s.msg.type = "trace.decided" /\ DOMAIN s.msg.upd = {t}
        /\ s.msg.upd[t] = [val |-> ev, ver |-> v]
    BY <1>d DEF Broadcast, Told
  <2>8. v = ver'[t] /\ v \in Nat
    BY <1>c, <2>2, <2>4
  <2>9. StepSound(Ticker, s)'
    <3>1. PICK u : u = [val |-> ev, ver |-> v]
      OBVIOUS
    <3>2. v \in 0 .. v
      BY <2>8
    <3>3. Valid("trace.decided", t, u)'
      BY <2>2, <2>5, <2>8, <3>1, <3>2, Kinds DEF Valid, Agrees
    <3>4. Sound(s.msg)'
      BY <2>2, <2>7, <3>1, <3>3 DEF Sound
    <3> QED BY <2>7, <3>4 DEF StepSound
  <2>10. ASSUME NEW c \in Cell
         PROVE  \/ Same(c) /\ (Current(c)' => Current(c))
                \/ ver'[c] > ver[c] /\ (Current(c)' => OwedNewest(c)')
    <3>1. CASE c = t
      <4>1. Will(s, c, v, FALSE)'
        BY <2>7, <2>8, <3>1 DEF Will
      <4>2. Owed(c, v, FALSE)'
        BY <1>1, <1>2, <1>f, <2>1, <4>1, OwedBy
      <4>3. OwedNewest(c)'
        BY <2>8, <3>1, <4>2, NewestBy
      <4> QED BY <2>4, <3>1, <4>3
    <3>2. CASE c = "statistics"
      <4>1. PICK y : y = ver'[c]
        OBVIOUS
      <4>2. Will(x, c, y, FALSE)'
        BY <2>3, <3>2 DEF Will
      <4>3. Owed(c, y, FALSE)'
        BY <1>1, <1>2, <1>f, <1>a, <2>1, <2>3, <4>2, OwedBy
      <4>4. OwedNewest(c)'
        BY <4>1, <4>3, NewestBy
      <4> QED BY <2>4, <3>2, <4>4
    <3>3. CASE c # t /\ c # "statistics"
      <4>1. ver'[c] = ver[c]
        BY <2>4, <3>3
      <4>2. c \in Collector => Registered(c)' = Registered(c)
        BY <1>3 DEF Registered
      <4>3. Same(c)
        BY <2>5, <3>3, <4>1, <4>2, SameOther
      <4>4. Current(c)' => Current(c)
        BY <1>3, <2>5, <3>3 DEF Current, clientVars
      <4> QED BY <4>3, <4>4
    <3> QED BY <3>1, <3>2, <3>3
  <2>11. ASSUME NEW y \in TraceID
         PROVE  /\ \A z : Fresh(s, y, z)'
                /\ store'[y] # None => store[y] # None /\ store'[y].spans = store[y].spans
    <3>1. \A z : Fresh(s, y, z)'
      BY <2>7 DEF Fresh
    <3> QED BY <1>5, <2>5, <3>1 DEF Retained
  <2>12. ServerStep(Ticker, <<s>>)
    BY <1>2, <1>3, <1>e, <1>f, <1>a, <2>1, <2>6, <2>7, <2>9, <2>10, <2>11
       DEF ServerStep, Untouched, clientVars
  <2> QED BY <1>2, <2>12, ServerKeeps
<1> QED BY <1>3, <1>4, <1>5

LEMMA Ordered ==
  ASSUME NEW S, IsFiniteSet(S), NEW order \in SetToSeqs(S)
  PROVE  /\ DOMAIN order = 1 .. Cardinality(S) /\ Cardinality(S) \in Nat
         /\ \A i \in DOMAIN order : order[i] \in S
         /\ \A x \in S : \E i \in DOMAIN order : order[i] = x
<1> DEFINE n == Cardinality(S)
<1>1. n \in Nat
  BY FS_CardinalityType
<1>2. order \in [1 .. n -> S] /\ \A i, j \in 1 .. n : i # j => order[i] # order[j]
  BY DEF SetToSeqs
<1>3. order \in Injection(1 .. n, S)
  BY <1>2 DEF Injection, IsInjective
<1>4. Cardinality(1 .. n) = n
  BY <1>1, FS_Interval
<1>5. order \in Surjection(1 .. n, S)
  <2> HIDE DEF n
  <2>1. Cardinality(1 .. n) = Cardinality(S)
    BY <1>4 DEF n
  <2> QED BY <1>3, <2>1, FS_Injection
<1>6. \A x \in S : \E i \in 1 .. n : order[i] = x
  BY <1>5 DEF Surjection
<1> QED BY <1>1, <1>2, <1>6

LEMMA SeqOn ==
  ASSUME NEW n \in Nat, NEW q, q = [i \in 1 .. n |-> q[i]]
  PROVE  q \in Seq(Range(q)) /\ Len(q) = n /\ DOMAIN q = 1 .. n
<1>1. DOMAIN q = 1 .. n
  OBVIOUS
<1>2. q \in [1 .. n -> Range(q)]
  BY <1>1 DEF Range
<1>3. q \in Seq(Range(q))
  BY <1>2, SeqDef
<1> QED BY <1>1, <1>3, LenProperties

LEMMA CollectDueServes ==
  ASSUME BrowserInv, CollectDue
  PROVE  BrowserInv'
<1>1. TypeOK /\ SoundInv /\ LiveInv
  BY DEF BrowserInv, BaseInv
<1>2. Ticker \in Worker /\ Ticker # Conn
  BY Workers
<1>a. PICK ev : ev = ver["policy"]
  OBVIOUS
<1>g. PICK due \in (SUBSET { t \in Retained : store[t].state = "RECEIVING" }) \ {{}} :
        /\ store' = [t \in TraceID |->
                       IF t \in due THEN [store[t] EXCEPT !.state = "READY"] ELSE store[t]]
        /\ \E order \in SetToSeqs(due) :
             Do(Ticker, [i \in DOMAIN order |-> [op |-> "apply", id |-> order[i], ev |-> ev]]
                        \o <<[op |-> "statistics"]>>)
  BY <1>a DEF CollectDue
<1>3. PICK order \in SetToSeqs(due) :
        Do(Ticker, [i \in DOMAIN order |-> [op |-> "apply", id |-> order[i], ev |-> ev]]
                   \o <<[op |-> "statistics"]>>)
  BY <1>g
<1>4. /\ Changes /\ live' = live /\ ver' = ver /\ shared' = shared /\ UNCHANGED clientVars
  BY DEF CollectDue
<1>5. \A t \in due : t \in TraceID /\ store[t] # None /\ store[t].state = "RECEIVING"
  BY <1>g DEF Retained
<1>6. /\ DOMAIN order = 1 .. Cardinality(due) /\ Cardinality(due) \in Nat
      /\ \A i \in DOMAIN order : order[i] \in due
  <2>1. IsFiniteSet(due)
    BY <1>5, BrowserAssumption, FS_Subset
  <2> QED BY <2>1, Ordered
<1>b. PICK n : n = Cardinality(due)
  OBVIOUS
<1>c. PICK q : q = [i \in 1 .. n |-> [op |-> "apply", id |-> order[i], ev |-> ev]]
  OBVIOUS
<1>d. PICK z : z = [op |-> "statistics"]
  OBVIOUS
<1>e. PICK p : p = q \o <<z>>
  OBVIOUS
<1>7. Do(Ticker, p)
  BY <1>3, <1>6, <1>b, <1>c, <1>d, <1>e
<1>8. /\ q \in Seq(Range(q)) /\ Len(q) = n /\ DOMAIN q = 1 .. n /\ n \in Nat
      /\ \A i \in 1 .. n : q[i].op = "apply" /\ q[i].id \in TraceID /\ q[i].ev = ev
  <2>1. n \in Nat
    BY <1>6, <1>b
  <2>2. \A i \in 1 .. n : q[i] = [op |-> "apply", id |-> order[i], ev |-> ev]
    BY <1>c
  <2>3. q = [i \in 1 .. n |-> q[i]]
    BY <1>c
  <2>4. q \in Seq(Range(q)) /\ Len(q) = n /\ DOMAIN q = 1 .. n
    BY <2>1, <2>3, SeqOn
  <2> QED BY <1>5, <1>6, <1>b, <2>1, <2>2, <2>4
<1>9. /\ p \in Seq(Range(p)) /\ Range(p) = Range(q) \cup {z}
      /\ DOMAIN p = 1 .. n + 1 /\ \A i \in 1 .. n : p[i] = q[i]
      /\ p[n + 1] = z
  <2>0. PICK y : y = <<z>>
    OBVIOUS
  <2>1. y \in Seq(Range(y)) /\ Range(y) = {z} /\ Len(y) = 1 /\ y[1] = z /\ p = q \o y
    BY <1>e, <2>0, OneStep
  <2>2. /\ p \in Seq(Range(p)) /\ Range(p) = Range(q) \cup Range(y)
        /\ DOMAIN p = 1 .. Len(q) + Len(y)
        /\ \A i \in 1 .. Len(q) : p[i] = q[i]
        /\ \A i \in Len(q) + 1 .. Len(q) + Len(y) : p[i] = y[i - Len(q)]
    <3>1. q \in Seq(Range(q)) /\ y \in Seq(Range(y))
      BY <1>8, <2>1
    <3>2. /\ q \o y \in Seq(Range(q \o y)) /\ Range(q \o y) = Range(q) \cup Range(y)
          /\ DOMAIN (q \o y) = 1 .. Len(q) + Len(y)
          /\ \A i \in 1 .. Len(q) : (q \o y)[i] = q[i]
          /\ \A i \in Len(q) + 1 .. Len(q) + Len(y) : (q \o y)[i] = y[i - Len(q)]
      BY <3>1, Joined
    <3> QED BY <2>1, <3>2
  <2>3. DOMAIN p = 1 .. n + 1 /\ p[n + 1] = z
    <3>1. n + 1 \in n + 1 .. n + 1 /\ (n + 1) - n = 1
      BY <1>8
    <3> QED BY <1>8, <2>1, <2>2, <3>1
  <2> QED BY <1>8, <2>1, <2>2, <2>3
<1>10. \A s \in Range(p) :
         \/ s.op = "apply" /\ s.id \in TraceID /\ s.ev = ev
         \/ s.op = "statistics"
  BY <1>8, <1>9, <1>d DEF Range
<1>11. Adds(Ticker, p) /\ todo[Ticker] = << >> /\ DOMAIN todo' = Worker
  BY <1>1, <1>2, <1>7, <1>9, DoAdds
<1>12. Reports(p)
  <2> SUFFICES ASSUME NEW i \in DOMAIN p, p[i].op \in {"apply", "visit"}
               PROVE  /\ p[i].op # "visit"
                      /\ \E j \in DOMAIN p : j > i /\ p[j].op = "statistics"
    BY DEF Reports
  <2>1. p[i].op = "apply" \/ p[i].op = "statistics"
    BY <1>10 DEF Range
  <2>2. i # n + 1
    BY <1>9, <1>d
  <2>3. n + 1 \in DOMAIN p /\ n + 1 > i
    BY <1>8, <1>9, <2>2
  <2> QED BY <1>9, <1>d, <2>1, <2>3
<1>13. ASSUME NEW t \in TraceID
       PROVE  /\ store'[t] \in Trace \cup {None}
              /\ store'[t] = None <=> store[t] = None
              /\ store'[t] # None => store'[t].spans = store[t].spans
              /\ SameTrace(t)
  <2>1. store[t] \in Trace \cup {None} /\ None \notin Trace
    BY <1>1, DistinctAssumption DEF TypeOK
  <2>2. CASE t \in due
    <3>1. store[t] \in Trace /\ store[t].state = "RECEIVING"
      BY <1>5, <2>1, <2>2
    <3>2. store'[t] = [store[t] EXCEPT !.state = "READY"]
      BY <1>g, <2>2
    <3>3. /\ store'[t] \in Trace /\ store'[t].spans = store[t].spans
          /\ store'[t].decision = store[t].decision /\ store'[t].state = "READY"
      BY <3>1, <3>2 DEF Trace
    <3> QED BY <2>1, <3>1, <3>3 DEF SameTrace
  <2>3. CASE t \notin due
    BY <1>g, <2>1, <2>3 DEF SameTrace
  <2> QED BY <2>2, <2>3
<1>14. TypeOK'
  <2>1. store' \in [TraceID -> Trace \cup {None}]
    BY <1>g, <1>13
  <2>2. ops' \in 0 .. MaxOps
    BY <1>1, <1>4, OpsNext
  <2> QED BY <1>1, <1>4, <1>11, <2>1, <2>2 DEF TypeOK, clientVars
<1>15. LiveInv'
  BY <1>1, <1>4 DEF LiveInv
<1>16. \A c \in Cell : Same(c) /\ (Current(c)' => Current(c))
  BY <1>4, <1>13 DEF Same, Registered, Current, clientVars
<1>17. \A s \in Range(p) : StepSound(Ticker, s)'
  <2>1. ev \in Nat
    BY <1>1, <1>a, Kinds DEF TypeOK
  <2> QED BY <1>10, <2>1 DEF StepSound, Telling
<1>18. \A t \in TraceID : \A s \in Range(p) : \A x : Fresh(s, t, x)'
  BY <1>10 DEF Fresh, Telling
<1>19. ServerStep(Ticker, p)
  BY <1>2, <1>4, <1>11, <1>12, <1>13, <1>14, <1>15, <1>16, <1>17, <1>18
     DEF ServerStep, Untouched, clientVars
<1> QED BY <1>2, <1>19, ServerKeeps

LEMMA FrameServes ==
  ASSUME BrowserInv, NEW r \in Reader, Frame(r)
  PROVE  BrowserInv'
<1>1. TypeOK /\ SoundInv /\ LiveInv
  BY DEF BrowserInv, BaseInv
<1>2. r \in Worker /\ r # Conn
  BY Workers
<1>a. PICK mg : mg = [t \in TraceID |-> Merged(t)]
  OBVIOUS
<1>b. PICK at : at = [t \in TraceID |-> ver[t] + 1]
  OBVIOUS
<1>3. PICK ids \in SUBSET TraceID : \E out \in SUBSET TraceID :
        /\ out \subseteq Retained \cup ids
        /\ store' = [t \in TraceID |-> IF t \in out THEN None
                                       ELSE IF t \in ids THEN Merged(t) ELSE store[t]]
        /\ ver' = [c \in Cell |-> ver[c] + (IF c \in ids THEN 1 ELSE 0)
                                         + (IF c \in out THEN 1 ELSE 0)]
        /\ gone' = gone \cup out
        /\ \E order \in SetToSeqs(ids) :
             Do(r, [i \in DOMAIN order |->
                      Broadcast([t \in ids |-> Told("trace.updated", t, Merged(t), ver[t] + 1)]
                                  [order[i]])])
  BY DEF Frame
<1>4. PICK out \in SUBSET TraceID :
        /\ out \subseteq Retained \cup ids
        /\ store' = [t \in TraceID |-> IF t \in out THEN None
                                       ELSE IF t \in ids THEN Merged(t) ELSE store[t]]
        /\ ver' = [c \in Cell |-> ver[c] + (IF c \in ids THEN 1 ELSE 0)
                                         + (IF c \in out THEN 1 ELSE 0)]
        /\ gone' = gone \cup out
        /\ \E order \in SetToSeqs(ids) :
             Do(r, [i \in DOMAIN order |->
                      Broadcast([t \in ids |-> Told("trace.updated", t, Merged(t), ver[t] + 1)]
                                  [order[i]])])
  BY <1>3
<1>c. PICK M : M = [t \in ids |-> Told("trace.updated", t, Merged(t), ver[t] + 1)]
  OBVIOUS
<1>5. PICK order \in SetToSeqs(ids) :
        Do(r, [i \in DOMAIN order |->
                 Broadcast([t \in ids |-> Told("trace.updated", t, Merged(t), ver[t] + 1)]
                             [order[i]])])
  BY <1>4
<1>6. /\ Changes /\ live' = live /\ shared' = shared
      /\ UNCHANGED <<browsers, opens, link, timer, dialling, replies, view, seen, overtaken, missed>>
  BY DEF Frame
<1>d. PICK n : n = Cardinality(ids)
  OBVIOUS
<1>7. /\ DOMAIN order = 1 .. n /\ n \in Nat /\ \A i \in 1 .. n : order[i] \in ids
      /\ \A t \in ids : \E i \in 1 .. n : order[i] = t
  <2>1. IsFiniteSet(ids)
    BY BrowserAssumption, FS_Subset
  <2>2. /\ DOMAIN order = 1 .. Cardinality(ids) /\ Cardinality(ids) \in Nat
        /\ \A i \in DOMAIN order : order[i] \in ids
        /\ \A t \in ids : \E i \in DOMAIN order : order[i] = t
    BY <2>1, Ordered
  <2> QED BY <1>d, <2>2
<1>e. PICK p : p = [i \in DOMAIN order |->
                      Broadcast([t \in ids |-> Told("trace.updated", t, Merged(t), ver[t] + 1)]
                                  [order[i]])]
  OBVIOUS
<1>8. Do(r, p) /\ \A i \in 1 .. n : p[i] = Broadcast(M[order[i]])
  <2>1. Do(r, p)
    BY <1>5, <1>e
  <2>2. \A i \in 1 .. n :
          p[i] = Broadcast([t \in ids |-> Told("trace.updated", t, Merged(t), ver[t] + 1)][order[i]])
    BY <1>7, <1>e
  <2> QED BY <1>c, <2>1, <2>2
<1>9. p \in Seq(Range(p)) /\ DOMAIN p = 1 .. n
  <2>1. p = [i \in 1 .. n |-> p[i]]
    BY <1>7, <1>e
  <2> QED BY <1>7, <2>1, SeqOn
<1>10. /\ \A s \in Range(p) : \E t \in ids : s = Broadcast(M[t])
       /\ \A t \in ids : Broadcast(M[t]) \in Range(p)
  <2>1. ASSUME NEW s \in Range(p) PROVE \E t \in ids : s = Broadcast(M[t])
    <3>1. PICK i \in 1 .. n : s = p[i]
      BY <1>9, <2>1 DEF Range
    <3> QED BY <1>7, <1>8, <3>1
  <2>2. ASSUME NEW t \in ids PROVE Broadcast(M[t]) \in Range(p)
    <3>1. PICK i \in 1 .. n : order[i] = t
      BY <1>7
    <3>2. p[i] = Broadcast(M[t])
      BY <1>8, <3>1
    <3> QED BY <1>9, <3>2 DEF Range
  <2> QED BY <2>1, <2>2
<1>11. ASSUME NEW t \in ids
       PROVE  /\ Broadcast(M[t]).op = "broadcast" /\ Broadcast(M[t]).msg = M[t]
              /\ M[t].type = "trace.updated" /\ DOMAIN M[t].upd = {t}
              /\ M[t].upd[t] = [val |-> mg[t], ver |-> at[t]]
  <2>1. mg[t] = Merged(t) /\ at[t] = ver[t] + 1
    BY <1>a, <1>b
  <2>2. M[t] = Told("trace.updated", t, mg[t], at[t])
    BY <1>c, <2>1
  <2> QED BY <2>2 DEF Broadcast, Told
<1>12. ASSUME NEW t \in TraceID
       PROVE  /\ mg[t] \in Trace /\ ver[t] \in Nat /\ at[t] = ver[t] + 1 /\ mg[t] # None
  <2>1. store[t] \in Trace \cup {None} /\ None \notin Trace
    BY <1>1, DistinctAssumption DEF TypeOK
  <2>2. mg[t] = Merged(t)
    BY <1>a
  <2>3. ASSUME store[t] = None PROVE Merged(t) \in Trace
    <3>1. Merged(t) = [spans |-> 1, state |-> "RECEIVING", decision |-> 0]
      BY <2>3 DEF Merged
    <3>2. Merged(t) \in Trace
      BY <3>1 DEF Trace
    <3> HIDE DEF Merged
    <3> QED BY <3>2
  <2>4. ASSUME store[t] # None PROVE Merged(t) \in Trace
    <3>1. store[t] \in Trace /\ store[t].spans + 1 \in Nat
      BY <2>1, <2>4 DEF Trace
    <3>2. Merged(t) = [store[t] EXCEPT !.spans = @ + 1,
                                       !.state = IF @ = "DECIDED" THEN "RECEIVING" ELSE @]
      BY <2>4 DEF Merged
    <3>3. Merged(t) \in Trace
      BY <3>1, <3>2 DEF Trace
    <3> QED BY <3>3
  <2>5. mg[t] \in Trace /\ mg[t] # None
    <3>1. Merged(t) \in Trace
      BY <2>3, <2>4
    <3> QED BY <2>1, <2>2, <3>1
  <2>6. ver[t] \in Nat /\ at[t] = ver[t] + 1
    BY <1>1, <1>b, Kinds DEF TypeOK
  <2> QED BY <2>5, <2>6
<1>13. Adds(r, p) /\ todo[r] = << >> /\ DOMAIN todo' = Worker
  BY <1>1, <1>2, <1>8, <1>9, DoAdds
<1>14. ASSUME NEW c \in Cell
       PROVE  /\ ver[c] \in Nat /\ ver'[c] \in Nat
              /\ c \in ids \cup out => ver'[c] > ver[c]
              /\ c \notin ids \cup out => ver'[c] = ver[c]
              /\ c \in ids => ver'[c] >= ver[c] + 1
              /\ c \in ids => (ver'[c] = ver[c] + 1 <=> c \notin out)
  <2>1. ver'[c] = ver[c] + (IF c \in ids THEN 1 ELSE 0) + (IF c \in out THEN 1 ELSE 0)
    BY <1>4
  <2>2. ver[c] \in Nat
    BY <1>1 DEF TypeOK
  <2> QED BY <2>1, <2>2
<1>17. \A t \in TraceID : /\ t \in out => store'[t] = None
                          /\ t \in ids \ out => store'[t] = mg[t]
                          /\ t \notin ids \cup out => store'[t] = store[t]
  <2>1. \A t \in TraceID : mg[t] = Merged(t)
    BY <1>a
  <2> QED BY <1>4, <2>1
<1>15. TypeOK'
  <2>1. ver' \in [Cell -> Nat]
    <3>1. \A c \in Cell : ver'[c] \in Nat
      BY <1>14
    <3> QED BY <1>4, <3>1
  <2>2. store' \in [TraceID -> Trace \cup {None}]
    <3>1. \A t \in TraceID : store'[t] \in Trace \cup {None}
      BY <1>1, <1>17, <1>12 DEF TypeOK
    <3> QED BY <1>4, <3>1
  <2>3. ops' \in 0 .. MaxOps
    BY <1>1, <1>6, OpsNext
  <2>4. gone' \subseteq TraceID
    BY <1>1, <1>4 DEF TypeOK
  <2> QED BY <1>1, <1>6, <1>13, <2>1, <2>2, <2>3, <2>4 DEF TypeOK
<1>16. LiveInv'
  BY <1>1, <1>6 DEF LiveInv
<1>18. ASSUME NEW t \in ids, NEW s, s = Broadcast(M[t])
       PROVE  /\ StepSound(r, s)'
              /\ t \notin out => \E v : v = ver'[t] /\ Will(s, t, v, FALSE)' /\ Will(s, t, v, TRUE)'
              /\ \A y \in TraceID : store'[y] # None => \A x : Fresh(s, y, x)'
  <2>1. /\ s.op = "broadcast" /\ s.msg = M[t]
        /\ M[t].type = "trace.updated" /\ DOMAIN M[t].upd = {t}
        /\ M[t].upd[t] = [val |-> mg[t], ver |-> at[t]]
    BY <1>11, <1>18
  <2>2. t \in TraceID /\ t \in Cell /\ at[t] \in 0 .. ver'[t] /\ (at[t] = ver'[t] <=> t \notin out)
    <3>1. t \in TraceID /\ t \in Cell
      BY Kinds
    <3>2. at[t] = ver[t] + 1 /\ ver[t] \in Nat /\ ver'[t] \in Nat /\ ver'[t] >= ver[t] + 1
          /\ (ver'[t] = ver[t] + 1 <=> t \notin out)
      BY <1>12, <1>14, <3>1
    <3>3. at[t] \in 0 .. ver'[t]
      BY <3>2
    <3> QED BY <3>1, <3>2, <3>3
  <2>3. StepSound(r, s)'
    <3>1. PICK u : u = [val |-> mg[t], ver |-> at[t]]
      OBVIOUS
    <3>2. t \notin out => Alike(mg[t], store'[t])
      BY <1>12, <1>17, <2>2 DEF Alike, ShownAs
    <3>3. u.ver = ver'[t] => Alike(u.val, store'[t])
      BY <2>2, <3>1, <3>2
    <3>4. u.ver \in 0 .. ver'[t] /\ u.val \in Trace
      BY <1>12, <2>2, <3>1
    <3>5. Valid("trace.updated", t, u)'
      BY <2>2, <3>3, <3>4, Kinds DEF Valid, Agrees, Alike, ShownAs
    <3>6. Sound(s.msg)'
      BY <2>1, <2>2, <3>1, <3>5 DEF Sound
    <3> QED BY <2>1, <3>6 DEF StepSound
  <2>4. ASSUME t \notin out
        PROVE  \E v : v = ver'[t] /\ Will(s, t, v, FALSE)' /\ Will(s, t, v, TRUE)'
    <3>1. PICK v : v = at[t]
      OBVIOUS
    <3>2. v = ver'[t] /\ v \in Nat
      BY <1>14, <2>2, <2>4, <3>1
    <3>3. Will(s, t, v, FALSE)' /\ Will(s, t, v, TRUE)'
      BY <2>1, <3>1, <3>2 DEF Will
    <3> QED BY <3>2, <3>3
  <2>5. ASSUME NEW y \in TraceID, store'[y] # None PROVE \A x : Fresh(s, y, x)'
    <3>1. CASE y = t
      <4>1. store'[t] = mg[t]
        BY <1>17, <2>2, <2>5, <3>1
      <4> QED BY <1>12, <2>1, <2>2, <3>1, <4>1 DEF Fresh, Whole
    <3>2. CASE y # t
      BY <2>1, <3>2 DEF Fresh
    <3> QED BY <3>1, <3>2
  <2> QED BY <2>3, <2>4, <2>5
<1>19. ASSUME NEW t \in ids, t \notin out
       PROVE  \E v : v = ver'[t] /\ Owed(t, v, FALSE)' /\ Owed(t, v, TRUE)'
  <2>1. PICK s : s = Broadcast(M[t])
    OBVIOUS
  <2>2. s \in Range(p)
    BY <1>10, <2>1
  <2>3. PICK v : v = ver'[t] /\ Will(s, t, v, FALSE)' /\ Will(s, t, v, TRUE)'
    BY <1>18, <1>19, <2>1
  <2>4. Owed(t, v, FALSE)' /\ Owed(t, v, TRUE)'
    BY <1>1, <1>2, <1>13, <2>2, <2>3, OwedBy
  <2> QED BY <2>3, <2>4
<1>20. ASSUME NEW c \in Cell
       PROVE  \/ Same(c) /\ (Current(c)' => Current(c))
              \/ ver'[c] > ver[c] /\ (Current(c)' => OwedNewest(c)')
  <2>1. CASE c \in out
    <3>1. c \in TraceID /\ c \in gone' /\ store'[c] = None
      BY <1>4, <1>17, <2>1
    <3>2. ~ Current(c)'
      BY <3>1 DEF Current
    <3> QED BY <1>14, <2>1, <3>2
  <2>2. CASE c \in ids \ out
    <3>1. PICK v : v = ver'[c] /\ Owed(c, v, FALSE)'
      BY <1>19, <2>2
    <3>2. OwedNewest(c)'
      BY <3>1, NewestBy
    <3> QED BY <1>14, <2>2, <3>2
  <2>3. CASE c \notin ids \cup out
    <3>1. c \in Collector => Registered(c)' = Registered(c)
      BY <1>6 DEF Registered
    <3>2. Same(c)
      BY <1>14, <1>17, <2>3, <3>1, SameOther
    <3>3. Current(c)' => Current(c)
      BY <1>4, <1>17, <2>3 DEF Current
    <3> QED BY <3>2, <3>3
  <2> QED BY <2>1, <2>2, <2>3
<1>21. Reports(p)
  <2>1. ASSUME NEW s \in Range(p) PROVE s.op = "broadcast"
    <3>1. PICK t \in ids : s = Broadcast(M[t])
      BY <1>10
    <3>2. Broadcast(M[t]).op = "broadcast"
      BY <1>11
    <3> QED BY <3>1, <3>2
  <2> QED BY <2>1, ReportsPlain
<1>22. \A s \in Range(p) : StepSound(r, s)'
  BY <1>10, <1>18
<1>23. ASSUME NEW t \in TraceID, store'[t] # None
       PROVE  /\ \A s \in Range(p) : \A x : Fresh(s, t, x)'
              /\ \/ store[t] # None /\ store'[t].spans = store[t].spans
                 \/ \E v : v = ver'[t] /\ Owed(t, v, TRUE)'
  <2>1. \A s \in Range(p) : \A x : Fresh(s, t, x)'
    BY <1>10, <1>18, <1>23
  <2>2. t \notin out
    BY <1>17, <1>23
  <2>3. CASE t \in ids
    BY <1>19, <2>1, <2>2, <2>3
  <2>4. CASE t \notin ids
    BY <1>17, <1>23, <2>1, <2>2, <2>4
  <2> QED BY <2>3, <2>4
<1>24. ServerStep(r, p)
  BY <1>2, <1>4, <1>6, <1>13, <1>15, <1>16, <1>20, <1>21, <1>22, <1>23
     DEF ServerStep, Untouched
<1> QED BY <1>2, <1>24, ServerKeeps
-----------------------------------------------------------------------------
(* The inductive invariant, and what follows from it. *)

LEMMA BrowserInvInit == Init => BrowserInv
<1> SUFFICES ASSUME Init PROVE BrowserInv
  OBVIOUS
<1> USE DEF Init
<1>1. TypeOK
  <2>1. 0 \in 0 .. MaxOps /\ 0 \in 0 .. MaxOpens
    BY BrowserAssumption
  <2>2. ver \in [Cell -> Nat] /\ seen \in [Cell -> Nat]
    OBVIOUS
  <2>3. \A t \in TraceID : view[t] = None
    BY Kinds
  <2> QED BY <2>1, <2>2, <2>3 DEF TypeOK
<1>2. \A w \in Worker : todo[w] = << >>
  OBVIOUS
<1>3. SoundInv
  BY <1>2, NoSteps DEF SoundInv, Steps
<1>4. ReportsInv
  BY <1>2 DEF ReportsInv, Reports
<1>5. ConnInv /\ LiveInv /\ TellInv /\ SpanInv
  BY <1>2, Workers DEF ConnInv, LiveInv, TellInv, SpanInv
<1>6. SeenInv
  <2>1. \A c \in Cell : seen[c] = 0 /\ ver[c] \in Nat
    OBVIOUS
  <2> QED BY <2>1 DEF SeenInv
<1> QED BY <1>1, <1>3, <1>4, <1>5, <1>6 DEF BrowserInv, BaseInv

LEMMA BrowserInvNext == BrowserInv /\ [Next]_vars => BrowserInv'
<1> SUFFICES ASSUME BrowserInv, [Next]_vars PROVE BrowserInv'
  OBVIOUS
<1>1. CASE UNCHANGED vars
  BY <1>1, DialKeeps
<1>2. ASSUME NEW r \in Reader, Register(r) \/ Unregister(r) \/ Frame(r) PROVE BrowserInv'
  BY <1>2, RegisterServes, UnregisterServes, FrameServes
<1>3. ASSUME NEW h \in Handler, SetPolicy(h) \/ SessionAction(h) \/ Visit(h) \/ Respond(h)
      PROVE  BrowserInv'
  BY <1>3, SetPolicyServes, SessionActionServes, VisitServes, RespondCarries
<1>4. ASSUME NEW w \in Worker, Goroutine(w) PROVE BrowserInv'
  <2>1. CASE ReadStatistics(w)
    BY <2>1, ReadStatisticsCarries
  <2>2. CASE ReadTraces(w)
    BY <2>2, ReadTracesCarries
  <2>3. CASE ReadRest(w)
    BY <2>3, ReadRestCarries
  <2>4. CASE CopyBrowsers(w)
    BY <2>4, CopyBrowsersCarries
  <2>5. CASE Send(w) \/ Expire(w)
    BY <2>5, SendTells
  <2> QED BY <1>4, <2>1, <2>2, <2>3, <2>4, <2>5 DEF Goroutine
<1>5. CASE CollectDue
  BY <1>5, CollectDueServes
<1>6. CASE Apply
  BY <1>6, ApplyServes
<1>7. CASE RegisterBrowser
  BY <1>7, RegisterBrowserCarries
<1>8. CASE Open
  BY <1>8, OpenKeeps
<1>9. CASE Close
  BY <1>9, CloseKeeps
<1>10. CASE ReceiveReply
  BY <1>10, ReceiveReplyTells
<1>11. CASE DialFails \/ Redial
  BY <1>11, DialKeeps
<1> QED BY <1>1, <1>2, <1>3, <1>4, <1>5, <1>6, <1>7, <1>8, <1>9, <1>10, <1>11
           DEF Next, Serve, Browse

\* Every reachable state keeps, for each cell, either the newest version told
\* to the browser or a goroutine that has still to tell it (browser_ws.go:45-48,
\* 124-172): the inductive invariant behind the theorems below.
THEOREM BrowserInvariant == Spec => []BrowserInv
  BY BrowserInvInit, BrowserInvNext, PTL DEF Spec

LEMMA QuietOwesNothing ==
  ASSUME BrowserInv, Quiet
  PROVE  /\ link /\ \A c, v, full : ~ Owed(c, v, full)
         /\ \A c \in Cell : Current(c) => c \in Disturbed \/ Matches(c)
         /\ \A t \in Retained : t \in Disturbed \/ WholeShown(t)
<1>1. link /\ \A w \in Worker : todo[w] = << >>
  BY DEF Quiet, Idle
<1>2. \A w \in Worker : Steps(w) = {}
  BY <1>1, NoSteps DEF Steps
<1>3. \A c, v, full : ~ Owed(c, v, full)
  BY <1>2 DEF Owed
<1>4. \A c \in Cell : Current(c) => c \in Disturbed \/ Matches(c)
  BY <1>1, <1>3 DEF BrowserInv, TellInv, OwedNewest
<1>5. \A t \in Retained : t \in Disturbed \/ WholeShown(t)
  BY <1>1, <1>3 DEF BrowserInv, SpanInv
<1> QED BY <1>1, <1>3, <1>4, <1>5

\* The server's store, its live connections, what its goroutines have still to
\* send and what the browser holds are always of their types; a browser that is
\* connected neither dials nor has a reconnect timer running, one that is not
\* does one of the two, and only a connected one is in the server's set of browsers (ws.ts:47-63, browser_ws.go:28-41).
THEOREM BrowserTypes == Spec => []TypeOK
<1>1. BrowserInv => TypeOK
  BY DEF BrowserInv, BaseInv
<1> QED BY <1>1, BrowserInvariant, PTL

\* When everything sent has been read, the browser shows every retained trace
\* with the spans, the state and the decision it has in the store, unless a
\* message about it overtook a newer one or ran into broadcast's deadline: no
\* change falls between a snapshot and the broadcasts, wherever the connection
\* breaks (browser_ws.go:45-48, 124-172, state.tsx:77-113).
THEOREM BrowserShowsTraces == Spec => []TracesShown
<1>1. BrowserInv => TracesShown
  <2> SUFFICES ASSUME BrowserInv, Quiet, NEW t \in Retained \ Disturbed
               PROVE  ShownAs(view[t], store[t])
    BY DEF TracesShown
  <2>1. t \in Cell /\ t \in TraceID /\ store[t] # None
    BY Kinds DEF Retained
  <2>2. Matches(t) /\ WholeShown(t)
    BY <2>1, QuietOwesNothing DEF Current
  <2>3. view[t] # None /\ view[t].spans = store[t].spans
    BY <2>2 DEF WholeShown, Whole
  <2>4. view[t].decision = store[t].decision
        /\ (view[t].state = "DECIDED") = (store[t].state = "DECIDED")
    BY <2>1, <2>2, <2>3 DEF Matches
  <2> QED BY <2>3, <2>4 DEF ShownAs
<1> QED BY <1>1, BrowserInvariant, PTL

\* When everything sent has been read, the policy, the session and the
\* statistics the browser shows are the server's, though their values also come
\* back as responses to its own requests (state.tsx:60-63), unless one overtook
\* a newer one or ran into the deadline.
THEOREM BrowserShowsSettings == Spec => []SettingsShown
<1>1. BrowserInv => SettingsShown
  <2> SUFFICES ASSUME BrowserInv, Quiet, NEW c \in Settings \ Disturbed PROVE view[c] = ver[c]
    BY DEF SettingsShown
  <2>1. c \in Cell /\ Current(c)
    BY Kinds DEF Current, Cell
  <2> QED BY <2>1, QuietOwesNothing DEF Matches
<1> QED BY <1>1, BrowserInvariant, PTL

\* When everything sent has been read, a collector is shown connected exactly
\* if it is, unless two connections gave its identifier at once
\* (collector_ws.go:117-122, state.tsx:123-133).
THEOREM BrowserShowsCollectors == Spec => []CollectorsShown
<1>1. BrowserInv => CollectorsShown
  <2> SUFFICES ASSUME BrowserInv, Quiet, NEW c \in Collector \ (Disturbed \cup shared)
               PROVE  (view[c] = TRUE) = Registered(c)
    BY DEF CollectorsShown
  <2>1. c \in Cell /\ Current(c)
    BY Kinds DEF Current
  <2> QED BY <2>1, QuietOwesNothing DEF Matches
<1> QED BY <1>1, BrowserInvariant, PTL

\* When everything sent has been read, the browser shows a trace the server no
\* longer has only if it was evicted since the browser connected: nothing older
\* survives a reconnect (state.tsx:79-91).
THEOREM OnlyEvictedTracesLinger == Spec => []OnlyEvictedLinger
<1>1. BrowserInv => OnlyEvictedLinger
  <2> SUFFICES ASSUME BrowserInv, Quiet,
                      NEW t \in TraceID \ (Retained \cup gone \cup Disturbed)
               PROVE  view[t] = None
    BY DEF OnlyEvictedLinger
  <2>1. t \in Cell /\ Current(t) /\ store[t] = None
    BY Kinds DEF Current, Retained
  <2>2. Matches(t)
    BY <2>1, QuietOwesNothing
  <2> QED BY <2>1, <2>2 DEF Matches
<1> QED BY <1>1, BrowserInvariant, PTL
=============================================================================
