------------------------- MODULE WorkerBridgeProofs -------------------------
(***************************************************************************)
(* Gate G1 of the worker bridge, for any number of events, documents and   *)
(* processes.  Replies carry no identity, so the argument is positional:   *)
(* the queue of agencies lines up with the frames to be read, the events   *)
(* to be processed and the event the router has in hand, in that order.    *)
(***************************************************************************)
EXTENDS WorkerBridge, FiniteSetTheorems, TLAPS

\* The frames o to be read answer the events at the front of the queue p.
Answered(p, o) ==
  /\ Len(o) <= Len(p)
  /\ \A i \in 1..Len(o) : o[i].event \in UiEvent /\ p[i] = of(o[i].event)

InHand(r) == IF r = Nothing THEN 0 ELSE 1

\* The rest of the queue is the inbox b, then the event r the router has
\* recorded for the process and not yet sent (or Nothing).
Queued(p, o, b, r) ==
  /\ Len(p) = Len(o) + Len(b) + InHand(r)
  /\ \A i \in 1..Len(b) : p[Len(o) + i] = of(b[i])
  /\ r # Nothing => p[Len(p)] = of(r)

\* The inbox of a dead process is lost, and the queue keeps its agencies.
Matched(w, r) ==
  /\ w \in LiveWorker
  /\ Answered(w.pending, w.outbox)
  /\ w.alive = TRUE => Queued(w.pending, w.outbox, w.inbox, r)

LEMMA OfType == \A e \in UiEvent : of(e) \in EventAgency
BY DEF of, EventAgency

LEMMA WorkerFields ==
  ASSUME NEW w \in LiveWorker
  PROVE  /\ w.pending \in Seq(EventAgency) /\ w.outbox \in Seq(Envelope)
         /\ w.inbox \in Seq(UiEvent) /\ w.session \in Nat \cup {Nothing}
         /\ w.url_registry \in Nat \cup {Nothing}
         /\ w.alive \in BOOLEAN /\ w.reading \in BOOLEAN
BY DEF LiveWorker

-----------------------------------------------------------------------------
(* The queue, the frames and the inbox as sequences *)

LEMMA EmptyLines == Answered(<<>>, <<>>) /\ Queued(<<>>, <<>>, <<>>, Nothing)
BY DEF Answered, Queued, InHand

\* The router records an event at the end of the queue.
LEMMA RecordAnswered ==
  ASSUME NEW p \in Seq(EventAgency), NEW o \in Seq(Envelope), NEW a \in EventAgency, Answered(p, o)
  PROVE  Answered(Append(p, a), o)
BY DEF Answered

LEMMA RecordQueued ==
  ASSUME NEW p \in Seq(EventAgency), NEW o \in Seq(Envelope), NEW b \in Seq(UiEvent),
         NEW e \in UiEvent, Queued(p, o, b, Nothing)
  PROVE  Queued(Append(p, of(e)), o, b, e)
<1> DEFINE q == Append(p, of(e))
<1>1. e # Nothing BY BridgeAssumption
<1>2. of(e) \in EventAgency BY OfType
<1>3. /\ Len(q) = Len(p) + 1 /\ q[Len(p) + 1] = of(e)
      /\ \A i \in 1..Len(p) : q[i] = p[i]
  BY <1>2
<1> HIDE DEF q
<1>4. Len(p) = Len(o) + Len(b) BY DEF Queued, InHand
<1>5. \A i \in 1..Len(b) : q[Len(o) + i] = of(b[i]) BY <1>3, <1>4 DEF Queued
<1>6. Queued(q, o, b, e) BY <1>1, <1>3, <1>4, <1>5 DEF Queued, InHand
<1> QED BY <1>6 DEF q

\* The router sends it: it joins the inbox.
LEMMA SendQueued ==
  ASSUME NEW p \in Seq(EventAgency), NEW o \in Seq(Envelope), NEW b \in Seq(UiEvent),
         NEW e \in UiEvent, Queued(p, o, b, e)
  PROVE  Queued(p, o, Append(b, e), Nothing)
<1> DEFINE c == Append(b, e)
<1>1. e # Nothing BY BridgeAssumption
<1>2. /\ Len(c) = Len(b) + 1 /\ c[Len(b) + 1] = e
      /\ \A i \in 1..Len(b) : c[i] = b[i]
  OBVIOUS
<1> HIDE DEF c
<1>3. Len(p) = Len(o) + Len(b) + 1 /\ p[Len(p)] = of(e) BY <1>1 DEF Queued, InHand
<1>4. \A i \in 1..Len(c) : p[Len(o) + i] = of(c[i])
  <2> TAKE i \in 1..Len(c)
  <2>1. CASE i = Len(b) + 1 BY <1>2, <1>3, <2>1
  <2>2. CASE i # Len(b) + 1
    <3>1. i \in 1..Len(b) BY <1>2, <2>2
    <3> QED BY <1>2, <3>1 DEF Queued
  <2> QED BY <2>1, <2>2
<1>5. Len(p) = Len(o) + Len(c) + InHand(Nothing) BY <1>2, <1>3 DEF InHand
<1>6. Queued(p, o, c, Nothing) BY <1>4, <1>5 DEF Queued
<1> QED BY <1>6 DEF c

\* The process answers the head of the inbox: it moves to the frames.
LEMMA RunQueued ==
  ASSUME NEW p \in Seq(EventAgency), NEW o \in Seq(Envelope), NEW b \in Seq(UiEvent), NEW r,
         b # <<>>, Answered(p, o), Queued(p, o, b, r),
         NEW f \in Envelope, f.event = Head(b)
  PROVE  Answered(p, Append(o, f)) /\ Queued(p, Append(o, f), Tail(b), r)
<1> DEFINE n == Append(o, f)
           c == Tail(b)
<1>1. Head(b) \in UiEvent /\ Head(b) = b[1] /\ Len(b) > 0 OBVIOUS
<1>2. /\ Len(n) = Len(o) + 1 /\ n[Len(o) + 1] = f
      /\ \A i \in 1..Len(o) : n[i] = o[i]
  OBVIOUS
<1>3. /\ c \in Seq(UiEvent) /\ Len(c) = Len(b) - 1
      /\ \A i \in 1..Len(c) : c[i] = b[i + 1]
  BY <1>1
<1> HIDE DEF n, c
<1>4. Len(p) = Len(o) + Len(b) + InHand(r) /\ InHand(r) \in 0..1 BY DEF Queued, InHand
<1>5. p[Len(o) + 1] = of(Head(b)) BY <1>1 DEF Queued
<1>6. Len(n) <= Len(p) BY <1>1, <1>2, <1>4
<1>7. \A i \in 1..Len(n) : n[i].event \in UiEvent /\ p[i] = of(n[i].event)
  <2> TAKE i \in 1..Len(n)
  <2>1. CASE i = Len(o) + 1 BY <1>1, <1>2, <1>5, <2>1
  <2>2. CASE i # Len(o) + 1
    <3>1. i \in 1..Len(o) BY <1>2, <2>2
    <3> QED BY <1>2, <3>1 DEF Answered
  <2> QED BY <2>1, <2>2
<1>8. Len(p) = Len(n) + Len(c) + InHand(r) BY <1>2, <1>3, <1>4
<1>9. \A i \in 1..Len(c) : p[Len(n) + i] = of(c[i])
  <2> TAKE i \in 1..Len(c)
  <2>1. i + 1 \in 1..Len(b) BY <1>3
  <2>2. p[Len(o) + (i + 1)] = of(b[i + 1]) BY <2>1 DEF Queued
  <2>3. Len(o) + (i + 1) = Len(n) + i BY <1>2, <1>3
  <2> QED BY <1>3, <2>2, <2>3
<1>10. r # Nothing => p[Len(p)] = of(r) BY DEF Queued
<1>11. Answered(p, n) /\ Queued(p, n, c, r)
  BY <1>6, <1>7, <1>8, <1>9, <1>10 DEF Answered, Queued
<1> QED BY <1>11 DEF n, c

\* The reader takes a frame, and the agency of the event it answers.
LEMMA ReadAnswered ==
  ASSUME NEW p \in Seq(EventAgency), NEW o \in Seq(Envelope), o # <<>>, Answered(p, o)
  PROVE  /\ p # <<>>
         /\ Head(o) \in Envelope /\ Head(o).event \in UiEvent
         /\ Head(p) = of(Head(o).event)
         /\ Tail(p) \in Seq(EventAgency) /\ Tail(o) \in Seq(Envelope)
         /\ Answered(Tail(p), Tail(o))
<1>1. Len(o) > 0 OBVIOUS
<1>2. Len(p) > 0 BY <1>1 DEF Answered
<1>3. p # <<>> BY <1>2
<1>4. Head(o) = o[1] /\ Head(p) = p[1] /\ Head(o) \in Envelope BY <1>3
<1>5. Head(o).event \in UiEvent /\ Head(p) = of(Head(o).event)
  <2>1. 1 \in 1..Len(o) BY <1>1
  <2> QED BY <1>4, <2>1 DEF Answered
<1> DEFINE q == Tail(p)
           n == Tail(o)
<1>6. /\ q \in Seq(EventAgency) /\ Len(q) = Len(p) - 1
      /\ \A i \in 1..Len(q) : q[i] = p[i + 1]
  BY <1>3
<1>7. /\ n \in Seq(Envelope) /\ Len(n) = Len(o) - 1
      /\ \A i \in 1..Len(n) : n[i] = o[i + 1]
  OBVIOUS
<1> HIDE DEF q, n
<1>8. Len(n) <= Len(q) BY <1>6, <1>7 DEF Answered
<1>9. \A i \in 1..Len(n) : n[i].event \in UiEvent /\ q[i] = of(n[i].event)
  <2> TAKE i \in 1..Len(n)
  <2>1. i + 1 \in 1..Len(o) /\ i \in 1..Len(q) BY <1>6, <1>7, <1>8
  <2>2. o[i + 1].event \in UiEvent /\ p[i + 1] = of(o[i + 1].event) BY <2>1 DEF Answered
  <2> QED BY <1>6, <1>7, <2>1, <2>2
<1>10. Answered(q, n) BY <1>8, <1>9 DEF Answered
<1> QED BY <1>3, <1>4, <1>5, <1>6, <1>7, <1>10 DEF q, n

LEMMA ReadQueued ==
  ASSUME NEW p \in Seq(EventAgency), NEW o \in Seq(Envelope), NEW b \in Seq(UiEvent), NEW r,
         o # <<>>, p # <<>>, Queued(p, o, b, r)
  PROVE  Queued(Tail(p), Tail(o), b, r)
<1> DEFINE q == Tail(p)
           n == Tail(o)
<1>1. Len(o) > 0 OBVIOUS
<1>2. /\ q \in Seq(EventAgency) /\ Len(q) = Len(p) - 1
      /\ \A i \in 1..Len(q) : q[i] = p[i + 1]
  OBVIOUS
<1>3. n \in Seq(Envelope) /\ Len(n) = Len(o) - 1 OBVIOUS
<1> HIDE DEF q, n
<1>4. /\ Len(p) = Len(o) + Len(b) + InHand(r) /\ InHand(r) \in 0..1
      /\ r # Nothing => InHand(r) = 1
  BY DEF Queued, InHand
<1>5. Len(q) = Len(n) + Len(b) + InHand(r) BY <1>2, <1>3, <1>4
<1>6. \A i \in 1..Len(b) : q[Len(n) + i] = of(b[i])
  <2> TAKE i \in 1..Len(b)
  <2>1. p[Len(o) + i] = of(b[i]) BY DEF Queued
  <2>2. Len(n) + i \in 1..Len(q) BY <1>3, <1>4, <1>5
  <2>3. (Len(n) + i) + 1 = Len(o) + i BY <1>3
  <2> QED BY <1>2, <2>1, <2>2, <2>3
<1>7. ASSUME r # Nothing PROVE q[Len(q)] = of(r)
  <2>1. Len(q) \in 1..Len(q) /\ Len(q) + 1 = Len(p) BY <1>1, <1>2, <1>3, <1>4, <1>5, <1>7
  <2>2. p[Len(p)] = of(r) BY <1>7 DEF Queued
  <2> QED BY <1>2, <2>1, <2>2
<1>8. Queued(q, n, b, r) BY <1>5, <1>6, <1>7 DEF Queued
<1> QED BY <1>8 DEF q, n

-----------------------------------------------------------------------------
(* One process *)

LEMMA MatchedNew == Matched(NewWorker, Nothing)
<1>1. NewWorker \in LiveWorker BY DEF NewWorker, LiveWorker
<1>2. NewWorker.pending = <<>> /\ NewWorker.outbox = <<>> /\ NewWorker.inbox = <<>>
  BY DEF NewWorker
<1> QED BY <1>1, <1>2, EmptyLines DEF Matched

LEMMA MatchedRecord ==
  ASSUME NEW w, Matched(w, Nothing), NEW e \in UiEvent
  PROVE  Matched(Records(w, e), e)
<1> DEFINE v == Records(w, e)
           p == Append(w.pending, of(e))
           u == IF e.kind = "Reload" THEN e.doc ELSE w.url_registry
<1>0. of(e) \in EventAgency BY OfType
<1>1. e.doc \in Nat BY DEF UiEvent
<1>2. w \in LiveWorker BY DEF Matched
<1>3. /\ w.pending \in Seq(EventAgency) /\ w.outbox \in Seq(Envelope) /\ w.inbox \in Seq(UiEvent)
      /\ w.url_registry \in Nat \cup {Nothing}
  BY <1>2, WorkerFields
<1>4. p \in Seq(EventAgency) /\ u \in Nat \cup {Nothing} BY <1>0, <1>1, <1>3
<1>5. v = [w EXCEPT !.pending = p, !.url_registry = u] BY <1>2 DEF Records, LiveWorker
<1>6. Answered(p, w.outbox) BY <1>0, <1>3, RecordAnswered DEF Matched
<1>7. ASSUME w.alive = TRUE PROVE Queued(p, w.outbox, w.inbox, e)
  BY <1>3, <1>7, RecordQueued DEF Matched
<1> HIDE DEF p, u, v
<1>8. v \in LiveWorker BY <1>2, <1>4, <1>5 DEF LiveWorker
<1>9. v.pending = p /\ v.outbox = w.outbox /\ v.inbox = w.inbox /\ v.alive = w.alive
  BY <1>2, <1>5 DEF LiveWorker
<1>10. Matched(v, e) BY <1>6, <1>7, <1>8, <1>9 DEF Matched
<1> QED BY <1>10 DEF v

LEMMA MatchedSend ==
  ASSUME NEW w, NEW r \in UiEvent, Matched(w, r), w.alive = TRUE
  PROVE  Matched([w EXCEPT !.inbox = Append(@, r)], Nothing)
<1> DEFINE b == Append(w.inbox, r)
           v == [w EXCEPT !.inbox = b]
<1>1. w \in LiveWorker BY DEF Matched
<1>2. w.pending \in Seq(EventAgency) /\ w.outbox \in Seq(Envelope) /\ w.inbox \in Seq(UiEvent)
  BY <1>1, WorkerFields
<1>3. b \in Seq(UiEvent) BY <1>2
<1>4. Queued(w.pending, w.outbox, b, Nothing) BY <1>2, SendQueued DEF Matched
<1> HIDE DEF b
<1>5. v \in LiveWorker BY <1>1, <1>3 DEF LiveWorker
<1>6. v.pending = w.pending /\ v.outbox = w.outbox /\ v.inbox = b BY <1>1 DEF LiveWorker
<1> HIDE DEF v
<1>7. Matched(v, Nothing) BY <1>4, <1>5, <1>6 DEF Matched
<1> QED BY <1>7 DEF v, b

LEMMA MatchedDead ==
  ASSUME NEW w, NEW r, Matched(w, r), NEW s
  PROVE  Matched([w EXCEPT !.alive = FALSE, !.inbox = <<>>], s)
<1> DEFINE b == <<>>
           v == [w EXCEPT !.alive = FALSE, !.inbox = b]
<1>1. w \in LiveWorker BY DEF Matched
<1>2. b \in Seq(UiEvent) OBVIOUS
<1> HIDE DEF b
<1>3. v \in LiveWorker BY <1>1, <1>2 DEF LiveWorker
<1>4. v.pending = w.pending /\ v.outbox = w.outbox /\ v.alive = FALSE BY <1>1 DEF LiveWorker
<1> HIDE DEF v
<1>5. Matched(v, s) BY <1>3, <1>4 DEF Matched
<1> QED BY <1>5 DEF v, b

LEMMA MatchedRun ==
  ASSUME NEW w, NEW r, Matched(w, r), w.alive = TRUE, w.inbox # <<>>,
         NEW kind \in {"NoOp", "Ok", "Err"}, NEW s \in Nat \cup {Nothing}
  PROVE  Matched([w EXCEPT !.inbox = Tail(@), !.outbox = Answer(@, kind, Head(w.inbox)),
                           !.session = s], r)
<1> DEFINE f == [kind |-> kind, event |-> Head(w.inbox)]
           b == Tail(w.inbox)
           o == Append(w.outbox, f)
           v == [w EXCEPT !.inbox = b, !.outbox = o, !.session = s]
<1>1. w \in LiveWorker BY DEF Matched
<1>2. w.pending \in Seq(EventAgency) /\ w.outbox \in Seq(Envelope) /\ w.inbox \in Seq(UiEvent)
  BY <1>1, WorkerFields
<1>3. Head(w.inbox) \in UiEvent BY <1>2
<1>4. f \in Envelope /\ f.event = Head(w.inbox) BY <1>3 DEF Envelope
<1> HIDE DEF f
<1>5. b \in Seq(UiEvent) /\ o \in Seq(Envelope) BY <1>2, <1>4
<1>6. Answered(w.pending, o) /\ Queued(w.pending, o, b, r) BY <1>2, <1>4, RunQueued DEF Matched
<1> HIDE DEF b, o
<1>7. v \in LiveWorker BY <1>1, <1>5 DEF LiveWorker
<1>8. v.pending = w.pending /\ v.outbox = o /\ v.inbox = b BY <1>1 DEF LiveWorker
<1> HIDE DEF v
<1>9. Matched(v, r) BY <1>6, <1>7, <1>8 DEF Matched
<1> QED BY <1>9 DEF v, b, o, f, Answer

LEMMA MatchedRead ==
  ASSUME NEW w, NEW r, Matched(w, r), w.outbox # <<>>
  PROVE  /\ w.pending # <<>>
         /\ Head(w.outbox) \in Envelope /\ Head(w.outbox).event \in UiEvent
         /\ Head(w.pending) = of(Head(w.outbox).event)
         /\ Matched([w EXCEPT !.outbox = Tail(@), !.pending = Tail(w.pending), !.reading = TRUE], r)
<1> DEFINE o == Tail(w.outbox)
           p == Tail(w.pending)
           v == [w EXCEPT !.outbox = o, !.pending = p, !.reading = TRUE]
<1>1. w \in LiveWorker BY DEF Matched
<1>2. w.pending \in Seq(EventAgency) /\ w.outbox \in Seq(Envelope) /\ w.inbox \in Seq(UiEvent)
  BY <1>1, WorkerFields
<1>3. /\ w.pending # <<>>
      /\ Head(w.outbox) \in Envelope /\ Head(w.outbox).event \in UiEvent
      /\ Head(w.pending) = of(Head(w.outbox).event)
      /\ p \in Seq(EventAgency) /\ o \in Seq(Envelope) /\ Answered(p, o)
  BY <1>2, ReadAnswered DEF Matched
<1>4. ASSUME w.alive = TRUE PROVE Queued(p, o, w.inbox, r)
  BY <1>2, <1>3, <1>4, ReadQueued DEF Matched
<1> HIDE DEF o, p
<1>5. v \in LiveWorker BY <1>1, <1>3 DEF LiveWorker
<1>6. v.pending = p /\ v.outbox = o /\ v.inbox = w.inbox /\ v.alive = w.alive BY <1>1 DEF LiveWorker
<1> HIDE DEF v
<1>7. Matched(v, r) BY <1>3, <1>4, <1>5, <1>6 DEF Matched
<1> QED BY <1>3, <1>7 DEF v, o, p

LEMMA MatchedEnd ==
  ASSUME NEW w, NEW r, Matched(w, r)
  PROVE  Matched([w EXCEPT !.reading = FALSE], r)
<1> DEFINE v == [w EXCEPT !.reading = FALSE]
<1>1. w \in LiveWorker BY DEF Matched
<1>2. v \in LiveWorker BY <1>1 DEF LiveWorker
<1>3. /\ v.pending = w.pending /\ v.outbox = w.outbox /\ v.inbox = w.inbox
      /\ v.alive = w.alive
  BY <1>1 DEF LiveWorker
<1> HIDE DEF v
<1>4. Matched(v, r) BY <1>2, <1>3 DEF Matched
<1> QED BY <1>4 DEF v

-----------------------------------------------------------------------------
(* Every process the tab has had *)

\* The event recorded for process g and not yet sent.
Recorded(g, cur, r) == IF g = cur THEN r ELSE Nothing

Lined(ws, cur, r) ==
  /\ ws \in Seq(LiveWorker)
  /\ cur \in 0..Len(ws)
  /\ r \in UiEvent \cup {Nothing}
  /\ r # Nothing => cur # 0
  /\ \A g \in 1..Len(ws) : Matched(ws[g], Recorded(g, cur, r))

\* One process changes, and with it possibly what the router has in hand.
LEMMA LinedReplace ==
  ASSUME NEW ws, NEW cur, NEW r, Lined(ws, cur, r), NEW g \in 1..Len(ws), NEW v,
         NEW c \in 0..Len(ws), NEW s \in UiEvent \cup {Nothing}, s # Nothing => c # 0,
         \A h \in 1..Len(ws) : h # g => Recorded(h, c, s) = Recorded(h, cur, r),
         Matched(v, Recorded(g, c, s))
  PROVE  Lined([ws EXCEPT ![g] = v], c, s)
<1> DEFINE xs == [ws EXCEPT ![g] = v]
<1>1. ws \in Seq(LiveWorker) /\ v \in LiveWorker BY DEF Lined, Matched
<1>2. /\ xs \in Seq(LiveWorker) /\ Len(xs) = Len(ws) /\ xs[g] = v
      /\ \A h \in 1..Len(ws) : h # g => xs[h] = ws[h]
  BY <1>1
<1> HIDE DEF xs
<1>3. ASSUME NEW h \in 1..Len(xs) PROVE Matched(xs[h], Recorded(h, c, s))
  <2>1. CASE h = g BY <1>2, <2>1
  <2>2. CASE h # g BY <1>2, <1>3, <2>2 DEF Lined
  <2> QED BY <2>1, <2>2
<1>4. Lined(xs, c, s) BY <1>2, <1>3 DEF Lined
<1> QED BY <1>4 DEF xs

\* A process is started.
LEMMA LinedAppend ==
  ASSUME NEW ws, Lined(ws, 0, Nothing), NEW v, NEW e \in UiEvent, Matched(v, e)
  PROVE  Lined(Append(ws, v), Len(ws) + 1, e)
<1> DEFINE xs == Append(ws, v)
<1>1. ws \in Seq(LiveWorker) /\ v \in LiveWorker BY DEF Lined, Matched
<1>2. /\ xs \in Seq(LiveWorker) /\ Len(xs) = Len(ws) + 1 /\ xs[Len(ws) + 1] = v
      /\ \A h \in 1..Len(ws) : xs[h] = ws[h]
  BY <1>1
<1> HIDE DEF xs
<1>3. ASSUME NEW h \in 1..Len(xs) PROVE Matched(xs[h], Recorded(h, Len(ws) + 1, e))
  <2>1. CASE h = Len(ws) + 1 BY <1>2, <2>1 DEF Recorded
  <2>2. CASE h # Len(ws) + 1
    <3>1. h \in 1..Len(ws) /\ h # 0 BY <1>1, <1>2, <2>2
    <3>2. Matched(ws[h], Nothing) BY <3>1 DEF Lined, Recorded
    <3> QED BY <1>2, <2>2, <3>1, <3>2 DEF Recorded
  <2> QED BY <2>1, <2>2
<1>4. Len(ws) + 1 \in 0..Len(xs) /\ Len(ws) + 1 # 0 BY <1>1, <1>2
<1>5. Lined(xs, Len(ws) + 1, e) BY <1>2, <1>3, <1>4 DEF Lined
<1> QED BY <1>5 DEF xs

\* Removing the tab's process, as the router does.
LEMMA LinedRemoved ==
  ASSUME Lined(workers, current, routing)
  PROVE  Lined(Removed(workers), 0, Nothing)
<1>1. CASE current = 0 BY <1>1 DEF Lined, Removed
<1>2. CASE current # 0
  <2> DEFINE v == [workers[current] EXCEPT !.alive = FALSE, !.inbox = <<>>]
  <2>1. current \in 1..Len(workers) /\ workers \in Seq(LiveWorker) BY <1>2 DEF Lined
  <2>2. Matched(workers[current], routing) BY <2>1 DEF Lined, Recorded
  <2>3. Matched(v, Recorded(current, 0, Nothing)) BY <2>2, MatchedDead
  <2>4. Removed(workers) = [workers EXCEPT ![current] = v]
    BY <1>2, <2>1 DEF Removed, LiveWorker
  <2> HIDE DEF v
  <2>5. \A h \in 1..Len(workers) : h # current =>
           Recorded(h, 0, Nothing) = Recorded(h, current, routing)
    BY DEF Recorded
  <2>6. 0 \in 0..Len(workers) BY <2>1
  <2>7. Nothing \in UiEvent \cup {Nothing} OBVIOUS
  <2>8. Lined([workers EXCEPT ![current] = v], 0, Nothing)
    BY <2>1, <2>3, <2>5, <2>6, <2>7, LinedReplace
  <2> QED BY <2>4, <2>8
<1> QED BY <1>1, <1>2

-----------------------------------------------------------------------------
(* The specification *)

\* A message whose agency is that of the event it answers.
Own == {Error} \cup {m \in Response : m.gesture = (of(m.event) = "UserGesture")}

IInv ==
  /\ doc \in Nat
  /\ logic_tx \in Seq(UiEvent)
  /\ logic_rx \in Seq(Own)
  /\ Lined(workers, current, routing)

LEMMA OwnMessages == IInv => GestureIsOwn
<1> SUFFICES ASSUME IInv, NEW m \in Responses
             PROVE  m.gesture <=> of(m.event) = "UserGesture"
  BY DEF GestureIsOwn
<1>1. m \in Own /\ m.ok BY DEF IInv, Responses, Messages
<1>2. m # Error BY <1>1 DEF Error
<1>3. m \in Response /\ m.gesture = (of(m.event) = "UserGesture") BY <1>1, <1>2 DEF Own
<1> QED BY <1>3 DEF Response

LEMMA InitIInv == Init => IInv
<1> SUFFICES ASSUME Init PROVE IInv OBVIOUS
<1>1. [kind |-> "Reload", doc |-> 1] \in UiEvent BY DEF UiEvent, UiKinds
<1>2. Lined(<<>>, 0, Nothing) BY DEF Lined
<1> QED BY <1>1, <1>2 DEF Init, IInv

\* Only the channels, the processes and what the router has in hand matter.
LEMMA UiStep == IInv /\ Ui => IInv'
<1> SUFFICES ASSUME IInv, Ui PROVE IInv' OBVIOUS
<1>1. ASSUME NEW e \in UiEvent, Dispatch(e), doc' \in Nat PROVE IInv'
  BY <1>1 DEF IInv, Dispatch
<1>2. \A kind \in UiKinds : [kind |-> kind, doc |-> doc] \in UiEvent BY DEF IInv, UiEvent
<1>3. [kind |-> "Reload", doc |-> doc + 1] \in UiEvent BY DEF IInv, UiEvent, UiKinds
<1>4. ASSUME NEW kind \in {"Click", "SubmitForm"}, UserGesture(kind) PROVE IInv'
  BY <1>1, <1>2, <1>4 DEF UserGesture, IInv, UiKinds
<1>5. CASE UpdateVariable BY <1>1, <1>2, <1>5 DEF UpdateVariable, IInv, UiKinds
<1>6. CASE RootTimer BY <1>1, <1>2, <1>6 DEF RootTimer, IInv, UiKinds
<1>7. CASE Reload BY <1>1, <1>3, <1>7 DEF Reload, IInv
<1>8. CASE close_tab BY <1>1, <1>2, <1>8 DEF close_tab, IInv, UiKinds
<1>9. CASE drain_logic_worker_results BY <1>9 DEF drain_logic_worker_results, IInv
<1> QED BY <1>4, <1>5, <1>6, <1>7, <1>8, <1>9 DEF Ui

LEMMA RouterStep == IInv /\ Router => IInv'
<1> SUFFICES ASSUME IInv, Router PROVE IInv' OBVIOUS
<1>0. /\ doc \in Nat /\ logic_tx \in Seq(UiEvent) /\ logic_rx \in Seq(Own)
      /\ Lined(workers, current, routing)
  BY DEF IInv
<1>0a. Error \in Own BY DEF Own
<1>1. CASE RouteClose
  <2>1. Lined(Removed(workers), 0, Nothing) BY <1>0, LinedRemoved
  <2>2. /\ workers' = Removed(workers) /\ current' = 0 /\ routing' = Nothing
        /\ doc' = doc /\ logic_rx' = logic_rx /\ logic_tx' = Tail(logic_tx) /\ logic_tx # <<>>
    BY <1>1 DEF RouteClose, uiVars
  <2> QED BY <1>0, <2>1, <2>2 DEF IInv
<1>2. CASE RouteRecord
  <2> DEFINE e == Head(logic_tx)
  <2>1. e \in UiEvent /\ Tail(logic_tx) \in Seq(UiEvent) BY <1>0, <1>2 DEF RouteRecord
  <2>2. /\ routing = Nothing /\ routing' = e /\ logic_tx' = Tail(logic_tx)
        /\ doc' = doc /\ logic_rx' = logic_rx
    BY <1>2 DEF RouteRecord, uiVars
  <2> HIDE DEF e
  <2>3. CASE current # 0
    <3>1. current \in 1..Len(workers) /\ workers \in Seq(LiveWorker) BY <1>0, <2>3 DEF Lined
    <3>2. Matched(workers[current], Nothing) BY <1>0, <2>2, <3>1 DEF Lined, Recorded
    <3>3. Matched(Records(workers[current], e), Recorded(current, current, e))
      BY <2>1, <3>2, MatchedRecord DEF Recorded
    <3>4. \A h \in 1..Len(workers) : h # current =>
             Recorded(h, current, e) = Recorded(h, current, routing)
      BY DEF Recorded
    <3>5. current \in 0..Len(workers) BY <1>0 DEF Lined
    <3>6. Lined([workers EXCEPT ![current] = Records(workers[current], e)], current, e)
      BY <1>0, <2>1, <2>3, <3>1, <3>3, <3>4, <3>5, LinedReplace
    <3>7. workers' = [workers EXCEPT ![current] = Records(workers[current], e)] /\ current' = current
      BY <1>2, <2>3 DEF RouteRecord, e
    <3> QED BY <1>0, <2>1, <2>2, <3>6, <3>7 DEF IInv
  <2>4. CASE current = 0
    <3>1. Matched(Records(NewWorker, e), e) BY <2>1, MatchedNew, MatchedRecord
    <3>2. Lined(Append(workers, Records(NewWorker, e)), Len(workers) + 1, e)
      BY <1>0, <2>1, <2>2, <2>4, <3>1, LinedAppend
    <3>3. workers' = Append(workers, Records(NewWorker, e)) /\ current' = Len(workers) + 1
      BY <1>2, <2>4 DEF RouteRecord, e
    <3> QED BY <1>0, <2>1, <2>2, <3>2, <3>3 DEF IInv
  <2> QED BY <2>3, <2>4
<1>3. CASE RouteStartFails
  BY <1>0, <1>0a, <1>3 DEF RouteStartFails, uiVars, IInv
<1>4. CASE RouteSend
  <2> DEFINE v == [workers[current] EXCEPT !.inbox = Append(@, routing)]
  <2>1. /\ routing # Nothing /\ workers[current].alive /\ routing' = Nothing /\ current' = current
        /\ workers' = [workers EXCEPT ![current].inbox = Append(@, routing)]
        /\ doc' = doc /\ logic_rx' = logic_rx /\ logic_tx' = logic_tx
    BY <1>4 DEF RouteSend, uiVars
  <2>2. current \in 1..Len(workers) /\ workers \in Seq(LiveWorker) /\ routing \in UiEvent
    BY <1>0, <2>1 DEF Lined
  <2>3. Matched(workers[current], routing) BY <1>0, <2>2 DEF Lined, Recorded
  <2>4. workers[current].alive = TRUE BY <2>1, <2>2, WorkerFields
  <2>5. Matched(v, Recorded(current, current, Nothing))
    BY <2>2, <2>3, <2>4, MatchedSend DEF Recorded
  <2>6. workers' = [workers EXCEPT ![current] = v] BY <2>1, <2>2 DEF LiveWorker
  <2> HIDE DEF v
  <2>7. \A h \in 1..Len(workers) : h # current =>
           Recorded(h, current, Nothing) = Recorded(h, current, routing)
    BY DEF Recorded
  <2>8. current \in 0..Len(workers) BY <1>0 DEF Lined
  <2>9. Lined([workers EXCEPT ![current] = v], current, Nothing)
    BY <1>0, <2>2, <2>5, <2>7, <2>8, LinedReplace
  <2> QED BY <1>0, <2>1, <2>6, <2>9 DEF IInv
<1>5. CASE RouteSendFails
  <2>1. Lined(Removed(workers), 0, Nothing) BY <1>0, LinedRemoved
  <2>2. /\ workers' = Removed(workers) /\ current' = 0 /\ routing' = Nothing
        /\ doc' = doc /\ logic_rx' = Append(logic_rx, Error) /\ logic_tx' = logic_tx
    BY <1>5 DEF RouteSendFails, uiVars
  <2> QED BY <1>0, <1>0a, <2>1, <2>2 DEF IInv
<1> QED BY <1>1, <1>2, <1>3, <1>4, <1>5 DEF Router

\* A process changes on its own: what the router has in hand stays.
LEMMA LinedProcess ==
  ASSUME Lined(workers, current, routing), NEW g \in DOMAIN workers, NEW v,
         Matched(v, Recorded(g, current, routing))
  PROVE  Lined([workers EXCEPT ![g] = v], current, routing)
<1>1. g \in 1..Len(workers) /\ current \in 0..Len(workers) /\ routing \in UiEvent \cup {Nothing}
  BY DEF Lined
<1>2. routing # Nothing => current # 0 BY DEF Lined
<1> QED BY <1>1, <1>2, LinedReplace

LEMMA ProcessStep ==
  ASSUME Compromised = FALSE, IInv, NEW g \in DOMAIN workers,
         run(g) \/ Dies(g) \/ Forges(g) \/ Reader(g)
  PROVE  IInv'
<1> DEFINE w == workers[g]
           r == Recorded(g, current, routing)
<1>1. /\ doc \in Nat /\ logic_tx \in Seq(UiEvent) /\ logic_rx \in Seq(Own)
      /\ Lined(workers, current, routing)
  BY DEF IInv
<1>2. workers \in Seq(LiveWorker) /\ g \in 1..Len(workers) BY <1>1 DEF Lined
<1>3. w \in LiveWorker /\ Matched(w, r) BY <1>1, <1>2 DEF Lined
<1>4. w.alive \in BOOLEAN BY <1>3, WorkerFields
<1>5. ASSUME NEW v, Matched(v, r), workers' = [workers EXCEPT ![g] = v],
             UNCHANGED <<doc, logic_tx, routing, current>>, logic_rx' \in Seq(Own)
      PROVE  IInv'
  BY <1>1, <1>5, LinedProcess DEF IInv
<1>6. Error \in Own BY DEF Own
<1>7. CASE run(g)
  <2> DEFINE e == Head(w.inbox)
             s(kind) == IF e.kind = "Reload" /\ kind = "Ok" THEN e.doc ELSE w.session
             v(kind) == [w EXCEPT !.inbox = Tail(@), !.outbox = Answer(@, kind, e),
                                  !.session = s(kind)]
  <2>1. w.alive = TRUE /\ w.inbox # <<>> BY <1>4, <1>7 DEF run
  <2>2. PICK kind \in apply_event(w.session, e) : workers' = [workers EXCEPT ![g] = v(kind)]
    BY <1>3, <1>7 DEF run, LiveWorker
  <2>3. kind \in {"NoOp", "Ok", "Err"} BY <2>2 DEF apply_event
  <2>4. e \in UiEvent /\ w.session \in Nat \cup {Nothing} BY <1>3, <2>1, WorkerFields
  <2>5. s(kind) \in Nat \cup {Nothing} BY <2>4 DEF UiEvent
  <2>6. Matched(v(kind), r) BY <1>3, <2>1, <2>3, <2>5, MatchedRun
  <2>7. UNCHANGED <<doc, logic_tx, routing, current, logic_rx>> BY <1>7 DEF run, uiVars
  <2> HIDE DEF v, w, r
  <2> QED BY <1>1, <1>5, <2>2, <2>6, <2>7
<1>8. CASE Dies(g)
  <2> DEFINE v == [w EXCEPT !.alive = FALSE, !.inbox = <<>>]
  <2>1. Matched(v, r) BY <1>3, MatchedDead
  <2>2. workers' = [workers EXCEPT ![g] = v] BY <1>2, <1>8 DEF Dies, LiveWorker
  <2>3. UNCHANGED <<doc, logic_tx, routing, current, logic_rx>> BY <1>8 DEF Dies, uiVars
  <2> HIDE DEF v, w, r
  <2> QED BY <1>1, <1>5, <2>1, <2>2, <2>3
<1>9. CASE Forges(g) BY <1>9 DEF Forges
<1>10. CASE reader_loop(g)
  <2> DEFINE f == Head(w.outbox)
             v == [w EXCEPT !.outbox = Tail(@), !.pending = Tail(w.pending), !.reading = TRUE]
             granted == Head(w.pending) = "UserGesture"
             m == [ok |-> TRUE, gesture |-> granted, registry |-> w.url_registry, event |-> f.event]
  <2>1. w.outbox # <<>> BY <1>10 DEF reader_loop
  <2>2. /\ w.pending # <<>> /\ f \in Envelope /\ f.event \in UiEvent
        /\ Head(w.pending) = of(f.event) /\ Matched(v, r)
    BY <1>3, <2>1, MatchedRead
  <2>3. workers' = [workers EXCEPT ![g] = v] BY <1>10, <2>2 DEF reader_loop, pop_front
  <2>4. UNCHANGED <<doc, logic_tx, routing, current>> BY <1>10 DEF reader_loop, uiVars
  <2>5. \/ logic_rx' = logic_rx \/ logic_rx' = Append(logic_rx, m)
        \/ logic_rx' = Append(logic_rx, Error)
    BY <1>10, <2>2 DEF reader_loop
  <2>6. m \in Own
    <3>1. w.url_registry \in Nat \cup {Nothing} BY <1>3, WorkerFields
    <3>2. m \in Response BY <2>2, <3>1 DEF Response
    <3>3. m.gesture = (of(m.event) = "UserGesture") BY <2>2
    <3> QED BY <3>2, <3>3 DEF Own
  <2> HIDE DEF v, w, r, m
  <2>7. logic_rx' \in Seq(Own) BY <1>1, <1>6, <2>5, <2>6
  <2> QED BY <1>5, <2>2, <2>3, <2>4, <2>7
<1>11. CASE ReaderEnds(g)
  <2> DEFINE v == [w EXCEPT !.reading = FALSE]
  <2>1. Matched(v, r) BY <1>3, MatchedEnd
  <2>2. workers' = [workers EXCEPT ![g] = v] BY <1>2, <1>11 DEF ReaderEnds, LiveWorker
  <2>3. UNCHANGED <<doc, logic_tx, routing, current>> BY <1>11 DEF ReaderEnds, uiVars
  <2>4. logic_rx' = logic_rx \/ logic_rx' = Append(logic_rx, Error) BY <1>11 DEF ReaderEnds
  <2>5. logic_rx' \in Seq(Own) BY <1>1, <1>6, <2>4
  <2> HIDE DEF v, w, r
  <2> QED BY <1>5, <2>1, <2>2, <2>3, <2>5
<1> QED BY <1>7, <1>8, <1>9, <1>10, <1>11 DEF Reader

\* Gate G1 across the process boundary: while its processes are not
\* compromised, every response a tab receives is authorised with the agency
\* of the very event it answers.  Crashes, replacements, reloads and replies
\* that deliver nothing never shift the queue of a process against its replies.
THEOREM AgencyIsOwn ==
  ASSUME Compromised = FALSE
  PROVE  Spec => []GestureIsOwn
<1>1. IInv /\ [Next]_vars => IInv'
  <2> SUFFICES ASSUME IInv, [Next]_vars PROVE IInv' OBVIOUS
  <2>1. CASE Ui BY <2>1, UiStep
  <2>2. CASE Router BY <2>2, RouterStep
  <2>3. ASSUME NEW g \in DOMAIN workers, run(g) \/ Dies(g) \/ Forges(g) \/ Reader(g)
        PROVE  IInv'
    BY <2>3, ProcessStep
  <2>4. CASE UNCHANGED vars BY <2>4 DEF vars, uiVars, IInv
  <2> QED BY <2>1, <2>2, <2>3, <2>4 DEF Next
<1> QED BY <1>1, InitIInv, OwnMessages, PTL DEF Spec

-----------------------------------------------------------------------------
(* Processes that may be compromised *)

Typed == TypeOK /\ (routing # Nothing => current # 0)

\* The events a process has answered and not yet been heard on, and those it
\* has not yet processed.
Events(w) == {w.outbox[i].event : i \in 1..Len(w.outbox)} \cup {w.inbox[i] : i \in 1..Len(w.inbox)}

\* What reader_loop may tell the UI of process w, and what that costs.
Heard(w, v) ==
  \/ /\ v.pending = w.pending /\ gestures' = gestures
     /\ logic_rx' = logic_rx \/ logic_rx' = Append(logic_rx, Error)
  \/ /\ w.pending # <<>> /\ v.pending = Tail(w.pending)
     /\ \/ /\ gestures' = gestures
           /\ logic_rx' = logic_rx \/ logic_rx' = Append(logic_rx, Error)
        \/ \E m \in Response :
             /\ logic_rx' = Append(logic_rx, m)
             /\ m.registry = w.url_registry /\ m.event \in Events(w)
             /\ \/ gestures' = gestures
                \/ Head(w.pending) = "UserGesture" /\ gestures' = gestures + 1

\* A step of a process or of its reader changes that process only.
Changes(g, v) ==
  /\ v \in LiveWorker /\ workers' = [workers EXCEPT ![g] = v]
  /\ v.url_registry = workers[g].url_registry
  /\ Events(v) \subseteq Events(workers[g]) \cup {Nothing}
  /\ Compromised = FALSE => Events(v) \subseteq Events(workers[g])
  /\ Heard(workers[g], v)
  /\ UNCHANGED <<uiVars, logic_tx, routing, current>>

LEMMA EventsShrink ==
  ASSUME NEW w \in LiveWorker, NEW v \in LiveWorker,
         v.outbox = w.outbox \/ (w.outbox # <<>> /\ v.outbox = Tail(w.outbox)),
         v.inbox = w.inbox \/ v.inbox = <<>>
  PROVE  Events(v) \subseteq Events(w)
<1>1. w.outbox \in Seq(Envelope) /\ w.inbox \in Seq(UiEvent) BY WorkerFields
<1>2. \A i \in 1..Len(v.inbox) : i \in 1..Len(w.inbox) /\ v.inbox[i] = w.inbox[i] BY <1>1
<1>3. \A i \in 1..Len(v.outbox) : \E j \in 1..Len(w.outbox) : v.outbox[i] = w.outbox[j]
  <2>1. CASE v.outbox = w.outbox BY <2>1
  <2>2. CASE w.outbox # <<>> /\ v.outbox = Tail(w.outbox)
    <3> SUFFICES ASSUME NEW i \in 1..Len(v.outbox) PROVE \E j \in 1..Len(w.outbox) : v.outbox[i] = w.outbox[j]
      OBVIOUS
    <3>1. v.outbox[i] = w.outbox[i + 1] /\ i + 1 \in 1..Len(w.outbox) BY <1>1, <2>2
    <3> QED BY <3>1
  <2> QED BY <2>1, <2>2
<1> QED BY <1>2, <1>3 DEF Events

\* The process writes one frame f, for the head of its inbox or for nothing.
LEMMA EventsMove ==
  ASSUME NEW w \in LiveWorker, NEW v \in LiveWorker, NEW f \in Envelope,
         v.outbox = Append(w.outbox, f), v.inbox = w.inbox \/ (w.inbox # <<>> /\ v.inbox = Tail(w.inbox))
  PROVE  Events(v) \subseteq Events(w) \cup {f.event}
<1>1. w.outbox \in Seq(Envelope) /\ w.inbox \in Seq(UiEvent) BY WorkerFields
<1>2. \A i \in 1..Len(v.inbox) : \E j \in 1..Len(w.inbox) : v.inbox[i] = w.inbox[j]
  <2>1. CASE v.inbox = w.inbox BY <2>1
  <2>2. CASE w.inbox # <<>> /\ v.inbox = Tail(w.inbox)
    <3> SUFFICES ASSUME NEW i \in 1..Len(v.inbox) PROVE \E j \in 1..Len(w.inbox) : v.inbox[i] = w.inbox[j]
      OBVIOUS
    <3>1. v.inbox[i] = w.inbox[i + 1] /\ i + 1 \in 1..Len(w.inbox) BY <1>1, <2>2
    <3> QED BY <3>1
  <2> QED BY <2>1, <2>2
<1>3. \A i \in 1..Len(v.outbox) : v.outbox[i] = f \/ \E j \in 1..Len(w.outbox) : v.outbox[i] = w.outbox[j]
  <2> SUFFICES ASSUME NEW i \in 1..Len(v.outbox)
               PROVE  v.outbox[i] = f \/ \E j \in 1..Len(w.outbox) : v.outbox[i] = w.outbox[j]
    OBVIOUS
  <2>1. CASE i = Len(w.outbox) + 1 BY <1>1, <2>1
  <2>2. CASE i # Len(w.outbox) + 1
    <3>1. i \in 1..Len(w.outbox) /\ v.outbox[i] = w.outbox[i] BY <1>1, <2>2
    <3> QED BY <3>1
  <2> QED BY <2>1, <2>2
<1> SUFFICES ASSUME NEW e \in Events(v), e # f.event PROVE e \in Events(w) OBVIOUS
<1>4. CASE \E i \in 1..Len(v.outbox) : e = v.outbox[i].event BY <1>3, <1>4 DEF Events
<1>5. CASE \E i \in 1..Len(v.inbox) : e = v.inbox[i] BY <1>2, <1>5 DEF Events
<1> QED BY <1>4, <1>5 DEF Events

LEMMA ProcessChanges ==
  ASSUME Typed, NEW g \in DOMAIN workers, run(g) \/ Dies(g) \/ Forges(g) \/ Reader(g)
  PROVE  \E v : Changes(g, v)
<1> DEFINE w == workers[g]
<1>1. workers \in Seq(LiveWorker) /\ g \in 1..Len(workers) BY DEF Typed, TypeOK
<1>2. w \in LiveWorker BY <1>1
<1>3. /\ w.pending \in Seq(EventAgency) /\ w.outbox \in Seq(Envelope) /\ w.inbox \in Seq(UiEvent)
      /\ w.session \in Nat \cup {Nothing} /\ w.url_registry \in Nat \cup {Nothing}
  BY <1>2, WorkerFields
<1>4. CASE run(g)
  <2> DEFINE e == Head(w.inbox)
             s(kind) == IF e.kind = "Reload" /\ kind = "Ok" THEN e.doc ELSE w.session
             f(kind) == [kind |-> kind, event |-> e]
             v(kind) == [w EXCEPT !.inbox = Tail(w.inbox), !.outbox = Append(w.outbox, f(kind)),
                                  !.session = s(kind)]
  <2>1. w.inbox # <<>> BY <1>4 DEF run
  <2>2. PICK kind \in apply_event(w.session, e) : workers' = [workers EXCEPT ![g] = v(kind)]
    BY <1>2, <1>4 DEF run, Answer, LiveWorker
  <2>3. kind \in {"NoOp", "Ok", "Err"} BY <2>2 DEF apply_event
  <2>4. e \in UiEvent /\ Tail(w.inbox) \in Seq(UiEvent) BY <1>3, <2>1
  <2>5. f(kind) \in Envelope /\ f(kind).event = e BY <2>3, <2>4 DEF Envelope
  <2>6. s(kind) \in Nat \cup {Nothing} BY <1>3, <2>4 DEF UiEvent
  <2> HIDE DEF f, s
  <2>7. Append(w.outbox, f(kind)) \in Seq(Envelope) BY <1>3, <2>5
  <2>8. /\ v(kind) \in LiveWorker /\ v(kind).url_registry = w.url_registry /\ v(kind).pending = w.pending
        /\ v(kind).outbox = Append(w.outbox, f(kind)) /\ v(kind).inbox = Tail(w.inbox)
    BY <1>2, <2>4, <2>6, <2>7 DEF LiveWorker
  <2> HIDE DEF v
  <2>9. Events(v(kind)) \subseteq Events(w) \cup {e} BY <1>2, <2>1, <2>5, <2>8, EventsMove
  <2>10. e \in Events(w)
    <3>1. 1 \in 1..Len(w.inbox) /\ e = w.inbox[1] BY <1>3, <2>1
    <3> QED BY <3>1 DEF Events
  <2>11. UNCHANGED <<uiVars, logic_tx, routing, current>> /\ gestures' = gestures /\ logic_rx' = logic_rx
    BY <1>4 DEF run, uiVars
  <2> HIDE DEF w, e
  <2>12. Changes(g, v(kind)) BY <2>2, <2>8, <2>9, <2>10, <2>11 DEF Changes, Heard, w
  <2> QED BY <2>12
<1>5. CASE Dies(g)
  <2> DEFINE b == <<>>
             v == [w EXCEPT !.alive = FALSE, !.inbox = b]
  <2>0. b \in Seq(UiEvent) OBVIOUS
  <2>1. workers' = [workers EXCEPT ![g] = v] BY <1>1, <1>5 DEF Dies, LiveWorker
  <2>a. b = <<>> OBVIOUS
  <2> HIDE DEF b
  <2>2. /\ v \in LiveWorker /\ v.url_registry = w.url_registry /\ v.pending = w.pending
        /\ v.outbox = w.outbox /\ v.inbox = b
    BY <1>2, <2>0 DEF LiveWorker
  <2> HIDE DEF v
  <2>3. Events(v) \subseteq Events(w) BY <1>2, <2>a, <2>2, EventsShrink
  <2>4. UNCHANGED <<uiVars, logic_tx, routing, current>> /\ gestures' = gestures /\ logic_rx' = logic_rx
    BY <1>5 DEF Dies, uiVars
  <2>5. Changes(g, v) BY <2>1, <2>2, <2>3, <2>4 DEF Changes, Heard
  <2> QED BY <2>5
<1>6. CASE Forges(g)
  <2> DEFINE f(kind) == [kind |-> kind, event |-> Nothing]
             v(kind) == [w EXCEPT !.outbox = Append(w.outbox, f(kind))]
  <2>1. PICK kind \in {"NoOp", "Ok", "Err", "Hello"} : workers' = [workers EXCEPT ![g] = v(kind)]
    BY <1>1, <1>6 DEF Forges, LiveWorker
  <2>2. f(kind) \in Envelope /\ f(kind).event = Nothing BY DEF Envelope
  <2> HIDE DEF f
  <2>3. Append(w.outbox, f(kind)) \in Seq(Envelope) BY <1>3, <2>2
  <2>4. /\ v(kind) \in LiveWorker /\ v(kind).url_registry = w.url_registry /\ v(kind).pending = w.pending
        /\ v(kind).outbox = Append(w.outbox, f(kind)) /\ v(kind).inbox = w.inbox
    BY <1>2, <2>3 DEF LiveWorker
  <2> HIDE DEF v
  <2>5. Events(v(kind)) \subseteq Events(w) \cup {Nothing} BY <1>2, <2>2, <2>4, EventsMove
  <2>6. UNCHANGED <<uiVars, logic_tx, routing, current>> /\ gestures' = gestures /\ logic_rx' = logic_rx
    BY <1>6 DEF Forges, uiVars
  <2>7. Compromised # FALSE BY <1>6 DEF Forges
  <2>8. Changes(g, v(kind)) BY <2>1, <2>4, <2>5, <2>6, <2>7 DEF Changes, Heard
  <2> QED BY <2>8
<1>7. CASE reader_loop(g)
  <2> DEFINE frame == Head(w.outbox)
             granted == Head(w.pending) = "UserGesture"
             m == [ok |-> TRUE, gesture |-> granted, registry |-> w.url_registry, event |-> frame.event]
             v(p, b) == [w EXCEPT !.outbox = Tail(w.outbox), !.pending = p, !.reading = b]
  <2>1. w.outbox # <<>> BY <1>7 DEF reader_loop
  <2>2. Tail(w.outbox) \in Seq(Envelope) /\ frame \in Envelope BY <1>3, <2>1
  <2>3. ASSUME NEW p \in Seq(EventAgency), NEW b \in BOOLEAN
        PROVE  /\ v(p, b) \in LiveWorker /\ v(p, b).url_registry = w.url_registry /\ v(p, b).pending = p
               /\ Events(v(p, b)) \subseteq Events(w)
    <3>1. /\ v(p, b) \in LiveWorker /\ v(p, b).url_registry = w.url_registry /\ v(p, b).pending = p
          /\ v(p, b).outbox = Tail(w.outbox) /\ v(p, b).inbox = w.inbox
      BY <1>2, <2>2 DEF LiveWorker
    <3> HIDE DEF v
    <3>2. Events(v(p, b)) \subseteq Events(w) BY <1>2, <2>1, <3>1, EventsShrink
    <3> QED BY <3>1, <3>2
  <2>4. UNCHANGED <<uiVars, logic_tx, routing, current>> BY <1>7 DEF reader_loop, uiVars
  <2>5. CASE w.pending = <<>>
    <3>1. workers' = [workers EXCEPT ![g] = v(<<>>, FALSE)] BY <1>7, <2>5 DEF reader_loop
    <3>2. logic_rx' = Append(logic_rx, Error) /\ gestures' = gestures BY <1>7, <2>5 DEF reader_loop
    <3>3. w.pending \in Seq(EventAgency) /\ FALSE \in BOOLEAN BY <1>3
    <3>4. workers' = [workers EXCEPT ![g] = v(w.pending, FALSE)] BY <2>5, <3>1
    <3> HIDE DEF v
    <3>5. Changes(g, v(w.pending, FALSE)) BY <2>3, <2>4, <3>2, <3>3, <3>4 DEF Changes, Heard
    <3> QED BY <3>5
  <2>6. CASE w.pending # <<>>
    <3> DEFINE q == Tail(w.pending)
    <3>1. workers' = [workers EXCEPT ![g] = v(q, TRUE)] BY <1>7, <2>6 DEF reader_loop, pop_front
    <3>2. q \in Seq(EventAgency) /\ TRUE \in BOOLEAN BY <1>3, <2>6
    <3>3. \/ gestures' = gestures /\ (logic_rx' = logic_rx \/ logic_rx' = Append(logic_rx, Error))
          \/ /\ logic_rx' = Append(logic_rx, m)
             /\ gestures' = IF granted THEN gestures + 1 ELSE gestures
      BY <1>7, <2>6 DEF reader_loop
    <3>4. m \in Response /\ m.registry = w.url_registry /\ m.event = frame.event
      BY <1>3, <2>2 DEF Response, Envelope
    <3>5. frame.event \in Events(w)
      <4>1. 1 \in 1..Len(w.outbox) /\ frame = w.outbox[1] BY <1>3, <2>1
      <4> QED BY <4>1 DEF Events
    <3> HIDE DEF m, v, frame
    <3>6. Heard(w, v(q, TRUE)) BY <2>3, <2>6, <3>2, <3>3, <3>4, <3>5 DEF Heard
    <3>7. Changes(g, v(q, TRUE)) BY <2>3, <2>4, <3>1, <3>2, <3>6 DEF Changes
    <3> QED BY <3>7
  <2> QED BY <2>5, <2>6
<1>8. CASE ReaderEnds(g)
  <2> DEFINE v == [w EXCEPT !.reading = FALSE]
  <2>1. workers' = [workers EXCEPT ![g] = v] BY <1>1, <1>8 DEF ReaderEnds, LiveWorker
  <2>2. /\ v \in LiveWorker /\ v.url_registry = w.url_registry /\ v.pending = w.pending
        /\ v.outbox = w.outbox /\ v.inbox = w.inbox
    BY <1>2 DEF LiveWorker
  <2> HIDE DEF v
  <2>3. Events(v) \subseteq Events(w) BY <1>2, <2>2, EventsShrink
  <2>4. /\ UNCHANGED <<uiVars, logic_tx, routing, current>> /\ gestures' = gestures
        /\ logic_rx' = logic_rx \/ logic_rx' = Append(logic_rx, Error)
    BY <1>8 DEF ReaderEnds, uiVars
  <2>5. Changes(g, v) BY <2>1, <2>2, <2>3, <2>4 DEF Changes, Heard
  <2> QED BY <2>5
<1> QED BY <1>4, <1>5, <1>6, <1>7, <1>8 DEF Reader

LEMMA TypedInit == Init => Typed
<1> SUFFICES ASSUME Init PROVE Typed OBVIOUS
<1>1. [kind |-> "Reload", doc |-> 1] \in UiEvent BY DEF UiEvent, UiKinds
<1>2. 1 \in 1..MaxDocs /\ 0 \in 0..MAX_INFLIGHT_TIMER_TICKS /\ 0 \in 0..MaxEvents BY BridgeAssumption
<1> QED BY <1>1, <1>2 DEF Init, Typed, TypeOK

LEMMA RemovedFields ==
  ASSUME workers \in Seq(LiveWorker), current \in 0..Len(workers)
  PROVE  /\ Removed(workers) \in Seq(LiveWorker) /\ Len(Removed(workers)) = Len(workers)
         /\ \A g \in 1..Len(workers) :
              /\ Removed(workers)[g].pending = workers[g].pending
              /\ Removed(workers)[g].url_registry = workers[g].url_registry
              /\ Events(Removed(workers)[g]) \subseteq Events(workers[g])
<1>1. CASE current = 0 BY <1>1 DEF Removed
<1>2. CASE current # 0
  <2> DEFINE w == workers[current]
             b == <<>>
             v == [w EXCEPT !.alive = FALSE, !.inbox = b]
  <2>0. b \in Seq(UiEvent) /\ b = <<>> OBVIOUS
  <2>1. current \in 1..Len(workers) /\ w \in LiveWorker BY <1>2
  <2>2. Removed(workers) = [workers EXCEPT ![current] = v] BY <1>2, <2>1 DEF Removed, LiveWorker
  <2> HIDE DEF b
  <2>3. /\ v \in LiveWorker /\ v.pending = w.pending /\ v.url_registry = w.url_registry
        /\ v.outbox = w.outbox /\ v.inbox = b
    BY <2>0, <2>1 DEF LiveWorker
  <2> HIDE DEF v
  <2>4. Events(v) \subseteq Events(w) BY <2>0, <2>1, <2>3, EventsShrink
  <2>5. \A g \in 1..Len(workers) : [workers EXCEPT ![current] = v][g] = IF g = current THEN v ELSE workers[g]
    BY <2>1
  <2>6. [workers EXCEPT ![current] = v] \in Seq(LiveWorker) /\ Len([workers EXCEPT ![current] = v]) = Len(workers)
    BY <2>1, <2>3
  <2> QED BY <2>2, <2>3, <2>4, <2>5, <2>6
<1> QED BY <1>1, <1>2

LEMMA RecordFields ==
  ASSUME NEW w \in LiveWorker, NEW e \in UiEvent
  PROVE  /\ Records(w, e) \in LiveWorker
         /\ Records(w, e).pending = Append(w.pending, of(e))
         /\ Records(w, e).url_registry = IF e.kind = "Reload" THEN e.doc ELSE w.url_registry
         /\ Events(Records(w, e)) = Events(w)
<1> DEFINE v == Records(w, e)
           p == Append(w.pending, of(e))
           u == IF e.kind = "Reload" THEN e.doc ELSE w.url_registry
<1>1. p \in Seq(EventAgency) BY OfType, WorkerFields
<1>2. u \in Nat \cup {Nothing} BY WorkerFields DEF UiEvent
<1>3. v = [w EXCEPT !.pending = p, !.url_registry = u] BY DEF Records, LiveWorker
<1> HIDE DEF p, u, v
<1>4. /\ v \in LiveWorker /\ v.pending = p /\ v.url_registry = u
      /\ v.outbox = w.outbox /\ v.inbox = w.inbox
  BY <1>1, <1>2, <1>3 DEF LiveWorker
<1>5. Events(v) = Events(w) BY <1>4 DEF Events
<1> QED BY <1>4, <1>5 DEF v, p, u

LEMMA NewFields ==
  /\ NewWorker \in LiveWorker /\ NewWorker.pending = <<>> /\ NewWorker.url_registry = Nothing
  /\ Events(NewWorker) = {}
BY DEF NewWorker, LiveWorker, Events

LEMMA SentFields ==
  ASSUME Typed, routing # Nothing
  PROVE  \E v \in LiveWorker :
           /\ [workers EXCEPT ![current].inbox = Append(@, routing)] = [workers EXCEPT ![current] = v]
           /\ v.pending = workers[current].pending /\ v.url_registry = workers[current].url_registry
           /\ Events(v) = Events(workers[current]) \cup {routing}
<1> DEFINE w == workers[current]
           b == Append(w.inbox, routing)
           v == [w EXCEPT !.inbox = b]
<1>1. current \in 1..Len(workers) /\ w \in LiveWorker /\ routing \in UiEvent BY DEF Typed, TypeOK
<1>2. w.inbox \in Seq(UiEvent) /\ w.outbox \in Seq(Envelope) BY <1>1, WorkerFields
<1>3. b \in Seq(UiEvent) /\ Len(b) = Len(w.inbox) + 1 /\ b[Len(w.inbox) + 1] = routing
  BY <1>1, <1>2
<1>4. \A i \in 1..Len(w.inbox) : b[i] = w.inbox[i] BY <1>2
<1>5. [workers EXCEPT ![current].inbox = Append(@, routing)] = [workers EXCEPT ![current] = v]
  BY <1>1 DEF LiveWorker
<1> HIDE DEF b
<1>6. /\ v \in LiveWorker /\ v.pending = w.pending /\ v.url_registry = w.url_registry
      /\ v.outbox = w.outbox /\ v.inbox = b
  BY <1>1, <1>3 DEF LiveWorker
<1> HIDE DEF v
<1>7. \A i \in 1..Len(b) : b[i] = routing \/ \E j \in 1..Len(w.inbox) : b[i] = w.inbox[j]
  <2> SUFFICES ASSUME NEW i \in 1..Len(b), i # Len(w.inbox) + 1 PROVE i \in 1..Len(w.inbox)
    BY <1>3, <1>4
  <2> QED BY <1>2, <1>3
<1>8. \A j \in 1..Len(w.inbox) : j \in 1..Len(b) BY <1>2, <1>3
<1>9. Len(w.inbox) + 1 \in 1..Len(b) BY <1>2, <1>3
<1>10. ASSUME NEW e PROVE (\E i \in 1..Len(b) : e = b[i]) <=> (e = routing \/ \E j \in 1..Len(w.inbox) : e = w.inbox[j])
  BY <1>3, <1>4, <1>7, <1>8, <1>9
<1>11. Events(v) = Events(w) \cup {routing}
  <2> SUFFICES ASSUME NEW e PROVE e \in Events(v) <=> e \in Events(w) \cup {routing} OBVIOUS
  <2>1. e \in Events(v) <=> \/ \E i \in 1..Len(w.outbox) : e = w.outbox[i].event
                            \/ \E i \in 1..Len(b) : e = b[i]
    BY <1>6 DEF Events
  <2>2. e \in Events(w) <=> \/ \E i \in 1..Len(w.outbox) : e = w.outbox[i].event
                            \/ \E i \in 1..Len(w.inbox) : e = w.inbox[i]
    BY DEF Events
  <2> QED BY <1>10, <2>1, <2>2
<1> QED BY <1>5, <1>6, <1>11

LEMMA TypedStep ==
  ASSUME Typed, [Next]_vars
  PROVE  Typed'
<1>0. /\ doc \in 1..MaxDocs /\ open \in BOOLEAN /\ inflight_timer_ticks \in 0..MAX_INFLIGHT_TIMER_TICKS
      /\ logic_tx \in Seq(UiEvent) /\ logic_rx \in Seq({Error} \cup Response)
      /\ routing \in UiEvent \cup {Nothing} /\ workers \in Seq(LiveWorker) /\ current \in 0..Len(workers)
      /\ events \in 0..MaxEvents /\ clicks \in Nat /\ gestures \in Nat
      /\ routing # Nothing => current # 0
  BY DEF Typed, TypeOK
<1>1. ASSUME NEW e \in UiEvent, Dispatch(e), doc' \in 1..MaxDocs, open' \in BOOLEAN,
             inflight_timer_ticks' \in 0..MAX_INFLIGHT_TIMER_TICKS, clicks' \in Nat
      PROVE  Typed'
  BY <1>0, <1>1, BridgeAssumption DEF Dispatch, Typed, TypeOK
<1>2. CASE Ui
  <2>1. \A kind \in UiKinds : [kind |-> kind, doc |-> doc] \in UiEvent
    BY <1>0, BridgeAssumption DEF UiEvent
  <2>2. [kind |-> "Reload", doc |-> doc + 1] \in UiEvent BY <1>0, BridgeAssumption DEF UiEvent, UiKinds
  <2>3. ASSUME NEW kind \in {"Click", "SubmitForm"}, UserGesture(kind) PROVE Typed'
    BY <1>0, <1>1, <2>1, <2>3 DEF UserGesture, UiKinds
  <2>4. CASE UpdateVariable BY <1>0, <1>1, <2>1, <2>4 DEF UpdateVariable, UiKinds
  <2>5. CASE RootTimer
    <3>1. inflight_timer_ticks + 1 \in 0..MAX_INFLIGHT_TIMER_TICKS
      BY <1>0, <2>5, BridgeAssumption DEF RootTimer, may_dispatch_timer_tick
    <3> QED BY <1>0, <1>1, <2>1, <2>5, <3>1 DEF RootTimer, UiKinds
  <2>6. CASE Reload
    <3>1. doc + 1 \in 1..MaxDocs /\ 0 \in 0..MAX_INFLIGHT_TIMER_TICKS
      BY <1>0, <2>6, BridgeAssumption DEF Reload
    <3> QED BY <1>0, <1>1, <2>2, <2>6, <3>1 DEF Reload
  <2>7. CASE close_tab BY <1>0, <1>1, <2>1, <2>7 DEF close_tab, UiKinds
  <2>8. CASE drain_logic_worker_results
    <3>1. inflight_timer_ticks' \in 0..MAX_INFLIGHT_TIMER_TICKS
      BY <1>0, <2>8, BridgeAssumption DEF drain_logic_worker_results, release_timer_tick
    <3> QED BY <1>0, <2>8, <3>1 DEF drain_logic_worker_results, Typed, TypeOK
  <2> QED BY <1>2, <2>3, <2>4, <2>5, <2>6, <2>7, <2>8 DEF Ui
<1>3. CASE Router
  <2>1. Removed(workers) \in Seq(LiveWorker) /\ 0 \in 0..Len(Removed(workers)) BY <1>0, RemovedFields
  <2>2. CASE RouteClose BY <1>0, <2>1, <2>2 DEF RouteClose, uiVars, Typed, TypeOK
  <2>3. CASE RouteRecord
    <3> DEFINE e == Head(logic_tx)
    <3>1. e \in UiEvent /\ Tail(logic_tx) \in Seq(UiEvent) BY <1>0, <2>3 DEF RouteRecord
    <3>2. /\ routing' = e /\ logic_tx' = Tail(logic_tx)
          /\ UNCHANGED <<doc, open, inflight_timer_ticks, events, clicks, logic_rx, gestures>>
      BY <2>3 DEF RouteRecord, uiVars
    <3>3. workers' \in Seq(LiveWorker) /\ current' \in 0..Len(workers') /\ current' # 0
      <4>1. CASE current # 0
        <5>0. current \in 1..Len(workers) /\ workers[current] \in LiveWorker BY <1>0, <4>1
        <5>1. Records(workers[current], e) \in LiveWorker BY <3>1, <5>0, RecordFields
        <5>2. workers' = [workers EXCEPT ![current] = Records(workers[current], e)] /\ current' = current
          BY <2>3, <4>1 DEF RouteRecord
        <5> HIDE DEF e
        <5> QED BY <1>0, <5>0, <5>1, <5>2
      <4>2. CASE current = 0
        <5>1. Records(NewWorker, e) \in LiveWorker BY <3>1, RecordFields, NewFields
        <5>2. workers' = Append(workers, Records(NewWorker, e)) /\ current' = Len(workers) + 1
          BY <2>3, <4>2 DEF RouteRecord
        <5> HIDE DEF e
        <5> QED BY <1>0, <5>1, <5>2
      <4> QED BY <4>1, <4>2
    <3> HIDE DEF e
    <3> QED BY <1>0, <3>1, <3>2, <3>3 DEF Typed, TypeOK
  <2>4. CASE RouteStartFails BY <1>0, <2>4 DEF RouteStartFails, uiVars, Typed, TypeOK
  <2>5. CASE RouteSend
    <3>1. routing # Nothing BY <2>5 DEF RouteSend
    <3>2. PICK v \in LiveWorker : workers' = [workers EXCEPT ![current] = v]
      BY <2>5, <3>1, SentFields DEF RouteSend
    <3>3. workers' \in Seq(LiveWorker) /\ Len(workers') = Len(workers) BY <1>0, <3>1, <3>2
    <3>4. /\ routing' = Nothing /\ current' = current
          /\ UNCHANGED <<doc, open, inflight_timer_ticks, events, clicks, logic_tx, logic_rx, gestures>>
      BY <2>5 DEF RouteSend, uiVars
    <3> QED BY <1>0, <3>3, <3>4 DEF Typed, TypeOK
  <2>6. CASE RouteSendFails BY <1>0, <2>1, <2>6 DEF RouteSendFails, uiVars, Typed, TypeOK
  <2> QED BY <1>3, <2>2, <2>3, <2>4, <2>5, <2>6 DEF Router
<1>4. ASSUME NEW g \in DOMAIN workers, run(g) \/ Dies(g) \/ Forges(g) \/ Reader(g) PROVE Typed'
  <2>1. PICK v : Changes(g, v) BY <1>4, ProcessChanges
  <2>2. workers' \in Seq(LiveWorker) /\ Len(workers') = Len(workers) BY <1>0, <2>1 DEF Changes
  <2>3. logic_rx' \in Seq({Error} \cup Response) /\ gestures' \in Nat
    <3>1. \/ logic_rx' = logic_rx
          \/ \E m \in {Error} \cup Response : logic_rx' = Append(logic_rx, m)
      BY <2>1 DEF Changes, Heard
    <3>2. gestures' = gestures \/ gestures' = gestures + 1 BY <2>1 DEF Changes, Heard
    <3>3. logic_rx' \in Seq({Error} \cup Response)
      <4> DEFINE M == {Error} \cup Response
      <4>1. logic_rx \in Seq(M) /\ (logic_rx' = logic_rx \/ \E m \in M : logic_rx' = Append(logic_rx, m))
        BY <1>0, <3>1
      <4> HIDE DEF M
      <4>2. logic_rx' \in Seq(M) BY <4>1
      <4> QED BY <4>2 DEF M
    <3> QED BY <1>0, <3>2, <3>3
  <2>4. UNCHANGED <<doc, open, inflight_timer_ticks, events, clicks, logic_tx, routing, current>>
    BY <2>1 DEF Changes, uiVars
  <2> QED BY <1>0, <2>2, <2>3, <2>4 DEF Typed, TypeOK
<1>5. CASE UNCHANGED vars BY <1>5 DEF vars, uiVars, Typed, TypeOK
<1> QED BY <1>2, <1>3, <1>4, <1>5 DEF Next

\* The state of the bridge keeps its shape, and the root timer its admission
\* limit, whatever the worker processes write.
THEOREM BridgeTyped == Spec => []TypeOK
<1>1. Typed => TypeOK BY DEF Typed
<1> QED BY <1>1, TypedInit, TypedStep, PTL DEF Spec

-----------------------------------------------------------------------------
(* The registry a reply is judged with *)

\* d is no later than the tab's document n and the documents of the events tx
\* on their way to the router.
Past(tx, n, d) == d <= n /\ \A i \in 1..Len(tx) : d <= tx[i].doc

Covers(u, d) == u # Nothing => d <= u

\* The Reload of document d is among the first k events on their way, or it went
\* before them all and reached the process whose registry is u.
Announced(tx, u, d, k) ==
  \/ Covers(u, d) /\ \A j \in 1..Len(tx) : d <= tx[j].doc
  \/ \E j \in 1..k : tx[j].kind = "Reload" /\ d <= tx[j].doc

Ordered(tx, n, u) ==
  /\ \A i \in 1..Len(tx) : /\ tx[i].doc <= n
                           /\ \A j \in i..Len(tx) : tx[i].doc <= tx[j].doc
                           /\ Announced(tx, u, tx[i].doc, i)
  /\ Announced(tx, u, n, Len(tx))

LEMMA DocIsNat == \A e \in UiEvent : e.doc \in Nat
BY DEF UiEvent

LEMMA PastAppend ==
  ASSUME NEW tx \in Seq(UiEvent), NEW n \in Nat, NEW m \in Nat, n <= m, NEW e \in UiEvent, n <= e.doc,
         NEW d \in Nat, Past(tx, n, d)
  PROVE  Past(Append(tx, e), m, d)
<1>1. \A i \in 1..Len(Append(tx, e)) : Append(tx, e)[i] = IF i = Len(tx) + 1 THEN e ELSE tx[i] OBVIOUS
<1>2. \A i \in 1..Len(Append(tx, e)) : i # Len(tx) + 1 => i \in 1..Len(tx) OBVIOUS
<1>3. e.doc \in Nat BY DocIsNat
<1> QED BY <1>1, <1>2, <1>3 DEF Past

LEMMA PastTail ==
  ASSUME NEW tx \in Seq(UiEvent), tx # <<>>, NEW n, NEW d, Past(tx, n, d)
  PROVE  Past(Tail(tx), n, d)
<1>1. \A i \in 1..Len(Tail(tx)) : i + 1 \in 1..Len(tx) /\ Tail(tx)[i] = tx[i + 1] OBVIOUS
<1> QED BY <1>1 DEF Past

\* The UI sends an event for its document, or the Reload of the next one.
LEMMA OrderedAppend ==
  ASSUME NEW tx \in Seq(UiEvent), NEW n \in Nat, NEW u, Ordered(tx, n, u), NEW e \in UiEvent, NEW m \in Nat,
         n <= m, e.doc = m, e.kind = "Reload" \/ m = n
  PROVE  Ordered(Append(tx, e), m, u)
<1> DEFINE x == Append(tx, e)
<1>1. /\ Len(x) = Len(tx) + 1 /\ x[Len(tx) + 1] = e /\ \A i \in 1..Len(tx) : x[i] = tx[i]
      /\ Len(tx) \in Nat
  OBVIOUS
<1> HIDE DEF x
<1>2. \A i \in 1..Len(tx) : tx[i].doc \in Nat BY DocIsNat
<1>3. ASSUME NEW d \in Nat, d <= n, NEW k \in 0..Len(tx), Announced(tx, u, d, k), NEW l \in k..Len(x)
      PROVE  Announced(x, u, d, l)
  <2>1. CASE Covers(u, d) /\ \A j \in 1..Len(tx) : d <= tx[j].doc
    <3>1. \A j \in 1..Len(x) : j = Len(tx) + 1 \/ j \in 1..Len(tx) BY <1>1
    <3>2. d <= m BY <1>3
    <3>3. \A j \in 1..Len(x) : d <= x[j].doc BY <1>1, <2>1, <3>1, <3>2
    <3> QED BY <2>1, <3>3 DEF Announced
  <2>2. CASE \E j \in 1..k : tx[j].kind = "Reload" /\ d <= tx[j].doc
    <3>1. PICK j \in 1..k : tx[j].kind = "Reload" /\ d <= tx[j].doc BY <2>2
    <3>2. j \in 1..l /\ j \in 1..Len(tx) BY <1>1
    <3>3. x[j] = tx[j] BY <1>1, <3>2
    <3> QED BY <3>1, <3>2, <3>3 DEF Announced
  <2> QED BY <1>3, <2>1, <2>2 DEF Announced
<1>4. Announced(x, u, m, Len(x))
  <2>1. CASE e.kind = "Reload"
    <3>1. Len(x) \in 1..Len(x) /\ x[Len(x)] = e BY <1>1
    <3> QED BY <2>1, <3>1 DEF Announced
  <2>2. CASE m = n
    <3>1. Announced(tx, u, n, Len(tx)) BY DEF Ordered
    <3>2. Len(tx) \in 0..Len(tx) /\ Len(x) \in Len(tx)..Len(x) /\ n <= n BY <1>1
    <3> QED BY <1>3, <2>2, <3>1, <3>2
  <2> QED BY <2>1, <2>2
<1>5. ASSUME NEW i \in 1..Len(x)
      PROVE  /\ x[i].doc <= m
             /\ \A j \in i..Len(x) : x[i].doc <= x[j].doc
             /\ Announced(x, u, x[i].doc, i)
  <2>1. CASE i = Len(x)
    <3>1. \A j \in i..Len(x) : j = i BY <1>1, <2>1
    <3>2. x[i] = e BY <1>1, <2>1
    <3> QED BY <1>4, <2>1, <3>1, <3>2
  <2>2. CASE i # Len(x)
    <3>1. i \in 1..Len(tx) /\ i \in 0..Len(tx) /\ i \in i..Len(x) BY <1>1, <2>2
    <3>2. x[i] = tx[i] /\ tx[i].doc \in Nat /\ tx[i].doc <= n BY <1>1, <1>2, <3>1 DEF Ordered
    <3>3. ASSUME NEW j \in i..Len(x) PROVE x[i].doc <= x[j].doc
      <4>1. CASE j = Len(x) BY <1>1, <3>2, <4>1
      <4>2. CASE j # Len(x)
        <5>1. j \in i..Len(tx) /\ j \in 1..Len(tx) BY <1>1, <4>2
        <5>2. x[j] = tx[j] BY <1>1, <5>1
        <5> QED BY <3>1, <3>2, <5>1, <5>2 DEF Ordered
      <4> QED BY <4>1, <4>2
    <3>4. Announced(tx, u, tx[i].doc, i) BY <3>1 DEF Ordered
    <3>5. Announced(x, u, x[i].doc, i) BY <1>3, <3>1, <3>2, <3>4
    <3> QED BY <3>2, <3>3, <3>5
  <2> QED BY <2>1, <2>2
<1>6. Ordered(x, m, u) BY <1>4, <1>5 DEF Ordered
<1> QED BY <1>6 DEF x

\* The router takes an event: the registry v in use after it is that of a
\* Reload it recorded, the one in use before, or none.
LEMMA OrderedTail ==
  ASSUME NEW tx \in Seq(UiEvent), tx # <<>>, NEW n \in Nat, NEW u, Ordered(tx, n, u), NEW v,
         \/ v = Nothing
         \/ Head(tx).kind = "Reload" /\ v = Head(tx).doc
         \/ Head(tx).kind # "Reload" /\ v = u
  PROVE  Ordered(Tail(tx), n, v)
<1> DEFINE x == Tail(tx)
<1>1. /\ Len(x) = Len(tx) - 1 /\ Len(tx) \in Nat \ {0} /\ Head(tx) = tx[1]
      /\ \A i \in 1..Len(x) : x[i] = tx[i + 1] /\ i + 1 \in 1..Len(tx)
  OBVIOUS
<1> HIDE DEF x
<1>a. \A i \in 1..Len(tx) : tx[i].doc \in Nat BY DocIsNat
<1>2. ASSUME NEW d \in Nat, NEW k \in 1..Len(tx), Announced(tx, u, d, k) PROVE Announced(x, v, d, k - 1)
  <2>1. ASSUME \A j \in 1..Len(tx) : d <= tx[j].doc, Covers(v, d) PROVE Announced(x, v, d, k - 1)
    BY <1>1, <2>1 DEF Announced
  <2>2. CASE Covers(u, d) /\ \A j \in 1..Len(tx) : d <= tx[j].doc
    <3>1. d <= Head(tx).doc BY <1>1, <2>2
    <3>2. Covers(v, d) BY <2>2, <3>1 DEF Covers
    <3> QED BY <2>1, <2>2, <3>2
  <2>3. CASE \E j \in 1..k : tx[j].kind = "Reload" /\ d <= tx[j].doc
    <3>1. PICK j \in 1..k : tx[j].kind = "Reload" /\ d <= tx[j].doc BY <2>3
    <3>2. CASE j = 1
      <4>1. 1 \in 1..Len(tx) /\ \A i \in 1..Len(tx) : i \in 1..Len(tx) /\ tx[1].doc <= tx[i].doc
        BY <1>1 DEF Ordered
      <4>2. \A i \in 1..Len(tx) : d <= tx[i].doc BY <1>a, <3>1, <3>2, <4>1
      <4>3. Covers(v, d) BY <1>1, <3>1, <3>2 DEF Covers
      <4> QED BY <2>1, <4>2, <4>3
    <3>3. CASE j # 1
      <4>1. j - 1 \in 1..(k - 1) /\ j - 1 \in 1..Len(x) BY <1>1, <3>3
      <4>2. x[j - 1] = tx[j] BY <1>1, <4>1
      <4> QED BY <3>1, <4>1, <4>2 DEF Announced
    <3> QED BY <3>2, <3>3
  <2> QED BY <1>2, <2>2, <2>3 DEF Announced
<1>3. Announced(x, v, n, Len(x))
  <2>1. Announced(tx, u, n, Len(tx)) /\ Len(tx) \in 1..Len(tx) /\ Len(tx) - 1 = Len(x) BY <1>1 DEF Ordered
  <2> QED BY <1>2, <2>1
<1>4. ASSUME NEW i \in 1..Len(x)
      PROVE  /\ x[i].doc <= n
             /\ \A j \in i..Len(x) : x[i].doc <= x[j].doc
             /\ Announced(x, v, x[i].doc, i)
  <2>1. i + 1 \in 1..Len(tx) /\ x[i] = tx[i + 1] /\ (i + 1) - 1 = i BY <1>1
  <2>2. tx[i + 1].doc <= n /\ Announced(tx, u, tx[i + 1].doc, i + 1) BY <2>1 DEF Ordered
  <2>3. Announced(x, v, x[i].doc, i) BY <1>a, <1>2, <2>1, <2>2
  <2>4. ASSUME NEW j \in i..Len(x) PROVE x[i].doc <= x[j].doc
    <3>1. j \in 1..Len(x) /\ j + 1 \in (i + 1)..Len(tx) BY <1>1
    <3>2. x[j] = tx[j + 1] BY <1>1, <3>1
    <3> QED BY <2>1, <3>1, <3>2 DEF Ordered
  <2> QED BY <2>1, <2>2, <2>3, <2>4
<1>5. Ordered(x, n, v) BY <1>3, <1>4 DEF Ordered
<1> QED BY <1>5 DEF x

LEMMA OrderedLost ==
  ASSUME NEW tx, NEW n, NEW u, Ordered(tx, n, u)
  PROVE  Ordered(tx, n, Nothing)
BY DEF Ordered, Announced, Covers

\* The event at the head of the channel.
LEMMA OrderedHead ==
  ASSUME NEW tx \in Seq(UiEvent), tx # <<>>, NEW n, NEW u, Ordered(tx, n, u)
  PROVE  /\ Past(Tail(tx), n, Head(tx).doc)
         /\ Head(tx).kind # "Reload" => Covers(u, Head(tx).doc)
<1>1. 1 \in 1..Len(tx) /\ Head(tx) = tx[1] OBVIOUS
<1>2. \A i \in 1..Len(Tail(tx)) : i + 1 \in 1..Len(tx) /\ Tail(tx)[i] = tx[i + 1] OBVIOUS
<1>3. Past(Tail(tx), n, Head(tx).doc) BY <1>1, <1>2 DEF Past, Ordered
<1>4. Announced(tx, u, tx[1].doc, 1) BY <1>1 DEF Ordered
<1>5. \A j \in 1..1 : j = 1 OBVIOUS
<1> QED BY <1>1, <1>3, <1>4, <1>5 DEF Announced

\* The registry of the tab's process.
InUse(ws, cur) == IF cur = 0 THEN Nothing ELSE ws[cur].url_registry

Known(w, tx, n) ==
  \A e \in Events(w) : e \in UiEvent /\ Past(tx, n, e.doc) /\ Covers(w.url_registry, e.doc)

NotOlder(m) == m.ok => m.registry = Nothing \/ m.registry >= m.event.doc

RegistryIInv ==
  /\ Typed
  /\ Ordered(logic_tx, doc, InUse(workers, current))
  /\ \A g \in 1..Len(workers) : Known(workers[g], logic_tx, doc)
  /\ routing # Nothing => Past(logic_tx, doc, routing.doc) /\ Covers(InUse(workers, current), routing.doc)
  /\ \A i \in 1..Len(logic_rx) : NotOlder(logic_rx[i])

LEMMA KnownKept ==
  ASSUME NEW w, NEW v, NEW tx, NEW n, NEW y, NEW m, Known(w, tx, n), Events(v) \subseteq Events(w),
         v.url_registry = w.url_registry, \A d \in Nat : Past(tx, n, d) => Past(y, m, d)
  PROVE  Known(v, y, m)
BY DocIsNat DEF Known

LEMMA HeardAppend ==
  ASSUME NEW M, NEW rx \in Seq(M), \A i \in 1..Len(rx) : NotOlder(rx[i]), NEW m \in M, NotOlder(m)
  PROVE  \A i \in 1..Len(Append(rx, m)) : NotOlder(Append(rx, m)[i])
<1> TAKE i \in 1..Len(Append(rx, m))
<1>1. CASE i = Len(rx) + 1 BY <1>1
<1>2. CASE i # Len(rx) + 1
  <2>1. i \in 1..Len(rx) /\ Append(rx, m)[i] = rx[i] BY <1>2
  <2> QED BY <2>1
<1> QED BY <1>1, <1>2

LEMMA RegistryInit == Init => RegistryIInv
<1> SUFFICES ASSUME Init PROVE RegistryIInv OBVIOUS
<1>1. Typed BY TypedInit
<1> DEFINE e == [kind |-> "Reload", doc |-> 1]
           tx == <<e>>
<1>2. logic_tx = tx /\ doc = 1 /\ routing = Nothing /\ current = 0 /\ workers = <<>> /\ logic_rx = <<>>
  BY DEF Init
<1>3. /\ Len(tx) = 1 /\ tx[1] = e /\ e.doc = 1 /\ \A i \in 1..1 : i = 1 OBVIOUS
<1> HIDE DEF tx, e
<1>4. Ordered(tx, 1, Nothing) BY <1>3 DEF Ordered, Announced, Covers
<1> QED BY <1>1, <1>2, <1>4 DEF RegistryIInv, InUse

LEMMA RegistryUi ==
  ASSUME RegistryIInv, Ui, Typed'
  PROVE  RegistryIInv'
<1>0. /\ logic_tx \in Seq(UiEvent) /\ doc \in Nat /\ logic_rx \in Seq({Error} \cup Response)
  BY BridgeAssumption DEF RegistryIInv, Typed, TypeOK
<1>1. ASSUME NEW e \in UiEvent, Dispatch(e), e.doc = doc', (e.kind = "Reload" /\ doc' = doc + 1) \/ doc' = doc
      PROVE  RegistryIInv'
  <2>1. /\ logic_tx' = Append(logic_tx, e)
        /\ UNCHANGED <<workers, current, routing, logic_rx>>
    BY <1>1 DEF Dispatch
  <2>2. doc' \in Nat /\ doc <= doc' /\ doc <= e.doc BY <1>0, <1>1
  <2>3. \A d \in Nat : Past(logic_tx, doc, d) => Past(Append(logic_tx, e), doc', d)
    BY <1>0, <2>2, PastAppend
  <2>4. Ordered(Append(logic_tx, e), doc', InUse(workers, current))
    BY <1>0, <1>1, <2>2, OrderedAppend DEF RegistryIInv
  <2>5. \A g \in 1..Len(workers) : Known(workers[g], Append(logic_tx, e), doc')
    BY <2>3, KnownKept DEF RegistryIInv
  <2>6. routing # Nothing => routing.doc \in Nat BY DocIsNat DEF RegistryIInv, Typed, TypeOK
  <2> QED BY <2>1, <2>3, <2>4, <2>5, <2>6 DEF RegistryIInv, InUse
<1>2. \A kind \in UiKinds : [kind |-> kind, doc |-> doc] \in UiEvent BY <1>0 DEF UiEvent
<1>3. [kind |-> "Reload", doc |-> doc + 1] \in UiEvent BY <1>0 DEF UiEvent, UiKinds
<1>4. ASSUME NEW kind \in {"Click", "SubmitForm"}, UserGesture(kind) PROVE RegistryIInv'
  <2>1. doc' = doc /\ Dispatch([kind |-> kind, doc |-> doc]) BY <1>4 DEF UserGesture
  <2> QED BY <1>1, <1>2, <2>1 DEF UiKinds
<1>5. CASE UpdateVariable
  <2>1. doc' = doc /\ Dispatch([kind |-> "UpdateVariable", doc |-> doc]) BY <1>5 DEF UpdateVariable
  <2> QED BY <1>1, <1>2, <2>1 DEF UiKinds
<1>6. CASE RootTimer
  <2>1. doc' = doc /\ Dispatch([kind |-> "RootTimer", doc |-> doc]) BY <1>6 DEF RootTimer
  <2> QED BY <1>1, <1>2, <2>1 DEF UiKinds
<1>7. CASE Reload
  <2>1. doc' = doc + 1 /\ Dispatch([kind |-> "Reload", doc |-> doc + 1]) BY <1>7 DEF Reload
  <2> QED BY <1>1, <1>3, <2>1
<1>8. CASE close_tab
  <2>1. doc' = doc /\ Dispatch([kind |-> "CloseTab", doc |-> doc]) BY <1>8 DEF close_tab
  <2> QED BY <1>1, <1>2, <2>1 DEF UiKinds
<1>9. CASE drain_logic_worker_results
  <2>1. /\ logic_rx # <<>> /\ logic_rx' = Tail(logic_rx)
        /\ UNCHANGED <<doc, logic_tx, workers, current, routing>>
    BY <1>9 DEF drain_logic_worker_results
  <2>2. \A i \in 1..Len(Tail(logic_rx)) : i + 1 \in 1..Len(logic_rx) /\ Tail(logic_rx)[i] = logic_rx[i + 1]
    BY <1>0, <2>1
  <2>3. \A i \in 1..Len(logic_rx') : NotOlder(logic_rx'[i]) BY <2>1, <2>2 DEF RegistryIInv
  <2> QED BY <2>1, <2>3 DEF RegistryIInv, InUse, NotOlder
<1> QED BY <1>4, <1>5, <1>6, <1>7, <1>8, <1>9 DEF Ui

LEMMA RegistryRouter ==
  ASSUME RegistryIInv, Router, Typed'
  PROVE  RegistryIInv'
<1> DEFINE u == InUse(workers, current)
           M == {Error} \cup Response
<1>0. /\ logic_tx \in Seq(UiEvent) /\ doc \in Nat /\ logic_rx \in Seq(M)
      /\ workers \in Seq(LiveWorker) /\ current \in 0..Len(workers)
      /\ Ordered(logic_tx, doc, u)
      /\ \A g \in 1..Len(workers) : Known(workers[g], logic_tx, doc)
      /\ \A i \in 1..Len(logic_rx) : NotOlder(logic_rx[i])
  BY BridgeAssumption DEF RegistryIInv, Typed, TypeOK
<1>a. Error \in M /\ NotOlder(Error) BY DEF NotOlder, Error
<1>b. \A i \in 1..Len(Append(logic_rx, Error)) : NotOlder(Append(logic_rx, Error)[i])
  <2> HIDE DEF M
  <2> QED BY <1>0, <1>a, HeardAppend
<1>c. ASSUME NEW y, \A d \in Nat : Past(logic_tx, doc, d) => Past(y, doc, d)
      PROVE  /\ Removed(workers) \in Seq(LiveWorker) /\ Len(Removed(workers)) = Len(workers)
             /\ \A g \in 1..Len(workers) : Known(Removed(workers)[g], y, doc)
  <2>1. /\ Removed(workers) \in Seq(LiveWorker) /\ Len(Removed(workers)) = Len(workers)
        /\ \A g \in 1..Len(workers) :
             /\ Removed(workers)[g].url_registry = workers[g].url_registry
             /\ Events(Removed(workers)[g]) \subseteq Events(workers[g])
    BY <1>0, RemovedFields
  <2>2. ASSUME NEW g \in 1..Len(workers) PROVE Known(Removed(workers)[g], y, doc)
    BY <1>0, <1>c, <2>1, <2>2, KnownKept
  <2> QED BY <2>1, <2>2
<1> HIDE DEF u, M
<1>1. CASE RouteClose
  <2>1. /\ logic_tx # <<>> /\ logic_tx' = Tail(logic_tx) /\ workers' = Removed(workers) /\ current' = 0
        /\ routing' = Nothing /\ doc' = doc /\ logic_rx' = logic_rx
    BY <1>1 DEF RouteClose, uiVars
  <2>2. \A d \in Nat : Past(logic_tx, doc, d) => Past(Tail(logic_tx), doc, d) BY <1>0, <2>1, PastTail
  <2>3. Ordered(Tail(logic_tx), doc, Nothing) BY <1>0, <2>1, OrderedTail
  <2> QED BY <1>0, <1>c, <2>1, <2>2, <2>3 DEF RegistryIInv, InUse, NotOlder
<1>2. CASE RouteRecord
  <2> DEFINE e == Head(logic_tx)
  <2>1. logic_tx # <<>> BY <1>2 DEF RouteRecord
  <2>2. e \in UiEvent /\ e.doc \in Nat BY <1>0, <2>1, DocIsNat
  <2>3. routing' = e /\ logic_tx' = Tail(logic_tx) /\ doc' = doc /\ logic_rx' = logic_rx
    BY <1>2 DEF RouteRecord, uiVars
  <2>4. \A d \in Nat : Past(logic_tx, doc, d) => Past(Tail(logic_tx), doc, d) /\ d <= e.doc
    <3>1. 1 \in 1..Len(logic_tx) /\ e = logic_tx[1] BY <1>0, <2>1
    <3> QED BY <1>0, <2>1, <3>1, PastTail DEF Past
  <2>5. Past(Tail(logic_tx), doc, e.doc) /\ (e.kind # "Reload" => Covers(u, e.doc))
    BY <1>0, <2>1, OrderedHead
  <2>6. ASSUME NEW v, v = Nothing \/ (e.kind = "Reload" /\ v = e.doc) \/ (e.kind # "Reload" /\ v = u)
        PROVE  Ordered(Tail(logic_tx), doc, v)
    BY <1>0, <2>1, <2>6, OrderedTail
  <2> HIDE DEF e
  <2>7. ASSUME NEW w \in LiveWorker, Known(w, logic_tx, doc)
        PROVE  Known(Records(w, e), Tail(logic_tx), doc)
    <3> SUFFICES ASSUME NEW x \in Events(w)
                 PROVE  x \in UiEvent /\ Past(Tail(logic_tx), doc, x.doc) /\ Covers(Records(w, e).url_registry, x.doc)
      BY <2>2, RecordFields DEF Known
    <3>1. x \in UiEvent /\ Past(logic_tx, doc, x.doc) /\ Covers(w.url_registry, x.doc) /\ x.doc \in Nat
      BY <2>7, DocIsNat DEF Known
    <3> QED BY <2>2, <2>4, <3>1, RecordFields DEF Covers
  <2>8. CASE current # 0
    <3> DEFINE w == workers[current]
               v == Records(w, e)
    <3>1. workers' = [workers EXCEPT ![current] = v] /\ current' = current
      BY <1>2, <2>8 DEF RouteRecord, e
    <3>2. current \in 1..Len(workers) /\ w \in LiveWorker /\ u = w.url_registry
      BY <1>0, <2>8 DEF u, InUse
    <3>3. v.url_registry = IF e.kind = "Reload" THEN e.doc ELSE u BY <2>2, <3>2, RecordFields
    <3>4. Known(v, Tail(logic_tx), doc) BY <1>0, <2>7, <3>2
    <3> HIDE DEF v
    <3>5. /\ Len(workers') = Len(workers)
          /\ \A g \in 1..Len(workers) : workers'[g] = IF g = current THEN v ELSE workers[g]
      BY <1>0, <3>1, <3>2
    <3>6. InUse(workers', current') = v.url_registry BY <2>8, <3>1, <3>2, <3>5 DEF InUse
    <3>7. Ordered(Tail(logic_tx), doc, v.url_registry) BY <2>6, <3>3
    <3>8. Covers(v.url_registry, e.doc) BY <2>2, <2>5, <3>3 DEF Covers
    <3>9. \A g \in 1..Len(workers') : Known(workers'[g], Tail(logic_tx), doc)
      BY <1>0, <2>4, <3>4, <3>5, KnownKept
    <3> QED BY <1>0, <2>3, <2>5, <3>6, <3>7, <3>8, <3>9 DEF RegistryIInv, NotOlder
  <2>9. CASE current = 0
    <3> DEFINE v == Records(NewWorker, e)
    <3>1. workers' = Append(workers, v) /\ current' = Len(workers) + 1 /\ u = Nothing
      BY <1>2, <2>9 DEF RouteRecord, e, u, InUse
    <3>2. v \in LiveWorker /\ v.url_registry = IF e.kind = "Reload" THEN e.doc ELSE Nothing
      BY <2>2, NewFields, RecordFields
    <3>3. Known(v, Tail(logic_tx), doc) BY <2>7, NewFields DEF Known
    <3> HIDE DEF v
    <3>5. /\ Len(workers') = Len(workers) + 1
          /\ \A g \in 1..Len(workers') : workers'[g] = IF g = Len(workers) + 1 THEN v ELSE workers[g]
          /\ \A g \in 1..Len(workers') : g # Len(workers) + 1 => g \in 1..Len(workers)
          /\ Len(workers) + 1 \in 1..Len(workers')
      BY <1>0, <3>1, <3>2
    <3>6. InUse(workers', current') = v.url_registry BY <3>1, <3>5 DEF InUse
    <3>7. Ordered(Tail(logic_tx), doc, v.url_registry) BY <2>6, <3>2
    <3>8. Covers(v.url_registry, e.doc) BY <2>2, <3>2 DEF Covers
    <3>9. \A g \in 1..Len(workers') : Known(workers'[g], Tail(logic_tx), doc)
      BY <1>0, <2>4, <3>3, <3>5, KnownKept
    <3> QED BY <1>0, <2>3, <2>5, <3>6, <3>7, <3>8, <3>9 DEF RegistryIInv, NotOlder
  <2> QED BY <2>8, <2>9
<1>3. CASE RouteStartFails
  <2>1. /\ logic_tx # <<>> /\ logic_tx' = Tail(logic_tx) /\ current = 0 /\ routing = Nothing
        /\ logic_rx' = Append(logic_rx, Error) /\ UNCHANGED <<doc, routing, current, workers>>
    BY <1>3 DEF RouteStartFails, uiVars
  <2>2. \A d \in Nat : Past(logic_tx, doc, d) => Past(Tail(logic_tx), doc, d) BY <1>0, <2>1, PastTail
  <2>3. Ordered(Tail(logic_tx), doc, Nothing) BY <1>0, <2>1, OrderedTail
  <2>4. \A g \in 1..Len(workers) : Known(workers[g], Tail(logic_tx), doc) BY <1>0, <2>2, KnownKept
  <2> QED BY <1>b, <2>1, <2>3, <2>4 DEF RegistryIInv, InUse, NotOlder
<1>4. CASE RouteSend
  <2>1. /\ routing # Nothing /\ routing' = Nothing
        /\ UNCHANGED <<doc, current, logic_tx, logic_rx>>
        /\ workers' = [workers EXCEPT ![current].inbox = Append(@, routing)]
    BY <1>4 DEF RouteSend, uiVars
  <2>2. PICK v \in LiveWorker :
           /\ workers' = [workers EXCEPT ![current] = v]
           /\ v.url_registry = workers[current].url_registry
           /\ Events(v) = Events(workers[current]) \cup {routing}
    BY <2>1, SentFields DEF RegistryIInv
  <2>3. /\ current \in 1..Len(workers) /\ current # 0 /\ routing \in UiEvent
        /\ Past(logic_tx, doc, routing.doc) /\ Covers(workers[current].url_registry, routing.doc)
    BY <2>1 DEF RegistryIInv, Typed, TypeOK, InUse
  <2>4. /\ Len(workers') = Len(workers)
        /\ \A g \in 1..Len(workers) : workers'[g] = IF g = current THEN v ELSE workers[g]
    BY <1>0, <2>2, <2>3
  <2>5. Known(v, logic_tx, doc) BY <1>0, <2>2, <2>3 DEF Known
  <2>6. InUse(workers', current') = u BY <2>1, <2>2, <2>3, <2>4 DEF InUse, u
  <2> QED BY <1>0, <2>1, <2>4, <2>5, <2>6 DEF RegistryIInv, NotOlder
<1>5. CASE RouteSendFails
  <2>1. /\ workers' = Removed(workers) /\ current' = 0 /\ routing' = Nothing
        /\ doc' = doc /\ logic_rx' = Append(logic_rx, Error) /\ logic_tx' = logic_tx
    BY <1>5 DEF RouteSendFails, uiVars
  <2>2. Ordered(logic_tx, doc, Nothing) BY <1>0, OrderedLost
  <2> QED BY <1>b, <1>c, <2>1, <2>2 DEF RegistryIInv, InUse, NotOlder
<1> QED BY <1>1, <1>2, <1>3, <1>4, <1>5 DEF Router

LEMMA RegistryProcess ==
  ASSUME Compromised = FALSE, RegistryIInv, Typed', NEW g \in DOMAIN workers,
         run(g) \/ Dies(g) \/ Forges(g) \/ Reader(g)
  PROVE  RegistryIInv'
<1> DEFINE w == workers[g]
           M == {Error} \cup Response
<1>a. logic_rx \in Seq(M) /\ workers \in Seq(LiveWorker) BY DEF RegistryIInv, Typed, TypeOK
<1>b. g \in 1..Len(workers) BY <1>a
<1>0. /\ logic_rx \in Seq(M) /\ workers \in Seq(LiveWorker) /\ g \in 1..Len(workers)
      /\ Known(w, logic_tx, doc) /\ w \in LiveWorker
  BY <1>a, <1>b DEF RegistryIInv
<1>1. PICK v : Changes(g, v) BY ProcessChanges DEF RegistryIInv
<1>2. /\ workers' = [workers EXCEPT ![g] = v] /\ v.url_registry = w.url_registry /\ Events(v) \subseteq Events(w)
      /\ UNCHANGED <<doc, logic_tx, routing, current>>
  BY <1>1 DEF Changes, uiVars
<1>3. /\ Len(workers') = Len(workers)
      /\ \A h \in 1..Len(workers) : workers'[h] = IF h = g THEN v ELSE workers[h]
  BY <1>0, <1>1, <1>2 DEF Changes
<1>4. Known(v, logic_tx, doc) BY <1>0, <1>2, KnownKept
<1>5. InUse(workers', current') = InUse(workers, current)
  BY <1>2, <1>3 DEF InUse, RegistryIInv, Typed, TypeOK
<1>6. \A i \in 1..Len(logic_rx') : NotOlder(logic_rx'[i])
  <2>1. CASE logic_rx' = logic_rx BY <2>1 DEF RegistryIInv
  <2>2. CASE logic_rx' = Append(logic_rx, Error)
    <3>1. Error \in M /\ NotOlder(Error) BY DEF NotOlder, Error
    <3> HIDE DEF M
    <3> QED BY <1>0, <2>2, <3>1, HeardAppend DEF RegistryIInv
  <2>3. CASE \E m \in Response : /\ logic_rx' = Append(logic_rx, m)
                                 /\ m.registry = w.url_registry /\ m.event \in Events(w)
    <3>1. PICK m \in Response : /\ logic_rx' = Append(logic_rx, m)
                                /\ m.registry = w.url_registry /\ m.event \in Events(w)
      BY <2>3
    <3>2. Covers(w.url_registry, m.event.doc) /\ m.event.doc \in Nat BY <1>0, <3>1, DocIsNat DEF Known
    <3>3. w.url_registry \in Nat \cup {Nothing} BY <1>0, WorkerFields
    <3>4. NotOlder(m) /\ m \in M BY <3>1, <3>2, <3>3 DEF Covers, NotOlder
    <3> HIDE DEF M
    <3> QED BY <1>0, <3>1, <3>4, HeardAppend DEF RegistryIInv
  <2> QED BY <1>1, <2>1, <2>2, <2>3 DEF Changes, Heard
<1> QED BY <1>2, <1>3, <1>4, <1>5, <1>6 DEF RegistryIInv, NotOlder

\* bridge.rs: while its processes are not compromised, a reply is judged with the
\* URL registry of the document it answers for, or of a later one whose Reload
\* overtook it; processes that die, fail to start or are replaced on the way
\* never leave it with the registry of an earlier document.
THEOREM RegistryIsCurrent ==
  ASSUME Compromised = FALSE
  PROVE  Spec => []RegistryNotOlder
<1>1. RegistryIInv /\ [Next]_vars => RegistryIInv'
  <2> SUFFICES ASSUME RegistryIInv, [Next]_vars PROVE RegistryIInv' OBVIOUS
  <2>0. Typed' BY TypedStep DEF RegistryIInv
  <2>1. CASE Ui BY <2>0, <2>1, RegistryUi
  <2>2. CASE Router BY <2>0, <2>2, RegistryRouter
  <2>3. ASSUME NEW g \in DOMAIN workers, run(g) \/ Dies(g) \/ Forges(g) \/ Reader(g)
        PROVE  RegistryIInv'
    BY <2>0, <2>3, RegistryProcess
  <2>4. CASE UNCHANGED vars BY <2>0, <2>4 DEF vars, uiVars, RegistryIInv, InUse, NotOlder
  <2> QED BY <2>1, <2>2, <2>3, <2>4 DEF Next
<1>2. RegistryIInv => RegistryNotOlder
  <2> SUFFICES ASSUME RegistryIInv, NEW m \in Responses PROVE m.registry = Nothing \/ m.registry >= m.event.doc
    BY DEF RegistryNotOlder
  <2>1. PICK i \in DOMAIN logic_rx : m = logic_rx[i] /\ m.ok BY DEF Responses, Messages
  <2>2. i \in 1..Len(logic_rx) BY DEF RegistryIInv, Typed, TypeOK
  <2> QED BY <2>1, <2>2 DEF RegistryIInv, NotOlder
<1> QED BY <1>1, <1>2, RegistryInit, PTL DEF Spec

-----------------------------------------------------------------------------
(* Gestures are counted along the way: on the channel to the router, which is *)
(* line 0, and in the queues of the processes.                                *)

Unused(tx, ws, q, i) ==
  IF q = 0 THEN i \in 1..Len(tx) /\ of(tx[i]) = "UserGesture"
  ELSE i \in 1..Len(ws[q].pending) /\ ws[q].pending[i] = "UserGesture"

Unspent(tx, ws) == {x \in (0..Len(ws)) \X Nat : Unused(tx, ws, x[1], x[2])}

SpendIInv ==
  /\ Typed
  /\ IsFiniteSet(Unspent(logic_tx, workers))
  /\ gestures + Cardinality(Unspent(logic_tx, workers)) <= clicks

\* What is left can be matched with what there was.
LEMMA NoMore ==
  ASSUME NEW S, NEW T, IsFiniteSet(S), NEW f \in [T -> S],
         \A x, y \in T : f[x] = f[y] => x = y
  PROVE  IsFiniteSet(T) /\ Cardinality(T) <= Cardinality(S)
<1>1. f \in Injection(T, S) BY DEF Injection, IsInjective
<1> QED BY <1>1, FS_Injection

LEMMA Pairs ==
  ASSUME NEW A, NEW x \in A \X Nat
  PROVE  x = <<x[1], x[2]>> /\ x[1] \in A /\ x[2] \in Nat
OBVIOUS

LEMMA UnspentSame ==
  ASSUME NEW tx, NEW ws, NEW xs, Len(xs) = Len(ws), Len(ws) \in Nat,
         \A g \in 1..Len(ws) : xs[g].pending = ws[g].pending
  PROVE  Unspent(tx, xs) = Unspent(tx, ws)
<1>1. ASSUME NEW q \in 0..Len(ws), NEW i PROVE Unused(tx, xs, q, i) <=> Unused(tx, ws, q, i)
  <2>1. q # 0 => q \in 1..Len(ws) BY <1>1
  <2> QED BY <2>1 DEF Unused
<1>2. \A x \in (0..Len(ws)) \X Nat : x[1] \in 0..Len(ws) OBVIOUS
<1> QED BY <1>1, <1>2 DEF Unspent

LEMMA UnspentDispatch ==
  ASSUME NEW tx \in Seq(UiEvent), NEW ws, NEW e \in UiEvent
  PROVE  Unspent(Append(tx, e), ws) \subseteq
           IF of(e) = "UserGesture" THEN Unspent(tx, ws) \cup {<<0, Len(tx) + 1>>} ELSE Unspent(tx, ws)
<1> SUFFICES ASSUME NEW x \in Unspent(Append(tx, e), ws), x \notin Unspent(tx, ws)
             PROVE  of(e) = "UserGesture" /\ x = <<0, Len(tx) + 1>>
  OBVIOUS
<1>1. x \in (0..Len(ws)) \X Nat /\ Unused(Append(tx, e), ws, x[1], x[2]) /\ ~Unused(tx, ws, x[1], x[2])
  BY DEF Unspent
<1>2. x = <<x[1], x[2]>> BY <1>1, Pairs
<1>3. x[1] = 0 BY <1>1 DEF Unused
<1>4. /\ x[2] \in 1..(Len(tx) + 1) /\ of(Append(tx, e)[x[2]]) = "UserGesture"
      /\ ~(x[2] \in 1..Len(tx) /\ of(tx[x[2]]) = "UserGesture")
  BY <1>1, <1>3 DEF Unused
<1>5. x[2] = Len(tx) + 1
  <2> SUFFICES ASSUME x[2] # Len(tx) + 1 PROVE FALSE OBVIOUS
  <2>1. x[2] \in 1..Len(tx) BY <1>4
  <2>2. Append(tx, e)[x[2]] = tx[x[2]] BY <2>1
  <2> QED BY <1>4, <2>1, <2>2
<1>6. Append(tx, e)[Len(tx) + 1] = e OBVIOUS
<1> QED BY <1>2, <1>3, <1>4, <1>5, <1>6

\* The router takes the head of its channel and drops it.
LEMMA UnspentTail ==
  ASSUME NEW tx \in Seq(UiEvent), tx # <<>>, NEW ws, IsFiniteSet(Unspent(tx, ws))
  PROVE  /\ IsFiniteSet(Unspent(Tail(tx), ws))
         /\ Cardinality(Unspent(Tail(tx), ws)) <= Cardinality(Unspent(tx, ws))
<1> DEFINE T == Unspent(Tail(tx), ws)
           S == Unspent(tx, ws)
           f == [x \in T |-> IF x[1] = 0 THEN <<0, x[2] + 1>> ELSE x]
<1>1. \A i \in 1..Len(Tail(tx)) : i + 1 \in 1..Len(tx) /\ Tail(tx)[i] = tx[i + 1] OBVIOUS
<1>2. ASSUME NEW x \in T
      PROVE  x \in (0..Len(ws)) \X Nat /\ x = <<x[1], x[2]>> /\ x[1] \in 0..Len(ws) /\ x[2] \in Nat
    BY Pairs DEF Unspent
<1>3. ASSUME NEW x \in T PROVE f[x] \in S
  <2>1. Unused(Tail(tx), ws, x[1], x[2]) BY DEF Unspent
  <2>2. CASE x[1] = 0
    <3>1. f[x] = <<0, x[2] + 1>> BY <2>2
    <3>2. <<0, x[2] + 1>>[1] = 0 /\ <<0, x[2] + 1>>[2] = x[2] + 1 OBVIOUS
    <3>3. <<0, x[2] + 1>> \in (0..Len(ws)) \X Nat BY <1>2, <2>2
    <3>4. Unused(tx, ws, 0, x[2] + 1) BY <1>1, <2>1, <2>2 DEF Unused
    <3> QED BY <3>1, <3>2, <3>3, <3>4 DEF Unspent
  <2>3. CASE x[1] # 0
    <3>1. f[x] = x BY <2>3
    <3>2. Unused(tx, ws, x[1], x[2]) BY <2>1, <2>3 DEF Unused
    <3> QED BY <1>2, <3>1, <3>2 DEF Unspent
  <2> QED BY <2>2, <2>3
<1>4. ASSUME NEW x \in T, NEW y \in T, f[x] = f[y] PROVE x = y
  <2>1. x = <<x[1], x[2]>> /\ y = <<y[1], y[2]>> /\ x[2] \in Nat /\ y[2] \in Nat BY <1>2
  <2>2. f[x] = (IF x[1] = 0 THEN <<0, x[2] + 1>> ELSE x) /\ f[y] = (IF y[1] = 0 THEN <<0, y[2] + 1>> ELSE y)
    OBVIOUS
  <2>3. f[x][1] = x[1] /\ f[y][1] = y[1] BY <2>2
  <2>4. CASE x[1] = 0
    <3>1. y[1] = 0 BY <1>4, <2>3, <2>4
    <3>2. f[x][2] = x[2] + 1 /\ f[y][2] = y[2] + 1 BY <2>2, <2>4, <3>1
    <3> QED BY <1>4, <2>1, <2>4, <3>1, <3>2
  <2>5. CASE x[1] # 0 BY <1>4, <2>2, <2>3, <2>5
  <2> QED BY <2>4, <2>5
<1>5. f \in [T -> S] BY <1>3
<1> HIDE DEF f, T, S
<1>6. IsFiniteSet(T) /\ Cardinality(T) <= Cardinality(S) BY <1>4, <1>5, NoMore DEF S
<1> QED BY <1>6 DEF T, S

\* The router records it in the queue of process c, which held p.
LEMMA UnspentRecord ==
  ASSUME NEW tx \in Seq(UiEvent), tx # <<>>, NEW ws \in Seq(LiveWorker), NEW xs \in Seq(LiveWorker),
         NEW c \in 1..Len(xs), NEW p \in Seq(EventAgency), xs[c].pending = Append(p, of(Head(tx))),
         p = <<>> \/ (c \in 1..Len(ws) /\ p = ws[c].pending),
         \A g \in 1..Len(xs) : g # c => g \in 1..Len(ws) /\ xs[g].pending = ws[g].pending,
         IsFiniteSet(Unspent(tx, ws))
  PROVE  /\ IsFiniteSet(Unspent(Tail(tx), xs))
         /\ Cardinality(Unspent(Tail(tx), xs)) <= Cardinality(Unspent(tx, ws))
<1> DEFINE T == Unspent(Tail(tx), xs)
           S == Unspent(tx, ws)
           Image(x) == IF x[1] = 0 THEN <<0, x[2] + 1>>
                       ELSE IF x[1] = c /\ x[2] = Len(p) + 1 THEN <<0, 1>> ELSE x
           f == [x \in T |-> Image(x)]
<1>1. \A i \in 1..Len(Tail(tx)) : i + 1 \in 1..Len(tx) /\ Tail(tx)[i] = tx[i + 1] OBVIOUS
<1>2. ASSUME NEW x \in T
      PROVE  x \in (0..Len(xs)) \X Nat /\ x = <<x[1], x[2]>> /\ x[1] \in 0..Len(xs) /\ x[2] \in Nat
    BY Pairs DEF Unspent
<1>3. Head(tx) = tx[1] /\ 1 \in 1..Len(tx) /\ Head(tx) \in UiEvent OBVIOUS
<1>4. of(Head(tx)) \in EventAgency BY <1>3, OfType
<1> DEFINE n == Append(p, of(Head(tx)))
<1>5. /\ Len(n) = Len(p) + 1 /\ n[Len(p) + 1] = of(Head(tx)) /\ \A i \in 1..Len(p) : n[i] = p[i]
      /\ \A i \in 1..Len(n) : i # Len(p) + 1 => i \in 1..Len(p)
  BY <1>4
<1>6. xs[c].pending = n /\ Len(ws) \in Nat OBVIOUS
<1> HIDE DEF n
<1>7. ASSUME NEW x \in T
      PROVE  Image(x) \in S /\ (x[1] # 0 => x[2] # 0)
  <2>1. Unused(Tail(tx), xs, x[1], x[2]) BY DEF Unspent
  <2>2. CASE x[1] = 0
    <3>1. Image(x) = <<0, x[2] + 1>> BY <2>2
    <3>2. <<0, x[2] + 1>>[1] = 0 /\ <<0, x[2] + 1>>[2] = x[2] + 1 OBVIOUS
    <3>3. <<0, x[2] + 1>> \in (0..Len(ws)) \X Nat BY <1>2, <1>6
    <3>4. Unused(tx, ws, 0, x[2] + 1) BY <1>1, <2>1, <2>2 DEF Unused
    <3> QED BY <2>2, <3>1, <3>2, <3>3, <3>4 DEF Unspent
  <2>3. CASE x[1] # 0 /\ x[1] # c
    <3>1. Image(x) = x BY <2>3
    <3>2. x[1] \in 1..Len(xs) BY <1>2, <2>3
    <3>3. x[1] \in 1..Len(ws) /\ xs[x[1]].pending = ws[x[1]].pending BY <2>3, <3>2
    <3>4. Unused(tx, ws, x[1], x[2]) BY <2>1, <2>3, <3>3 DEF Unused
    <3>5. x \in (0..Len(ws)) \X Nat BY <1>2, <3>3
    <3>6. x[2] \in 1..Len(xs[x[1]].pending) BY <2>1, <2>3 DEF Unused
    <3> QED BY <3>1, <3>4, <3>5, <3>6 DEF Unspent
  <2>4. CASE x[1] # 0 /\ x[1] = c
    <3>1. x[2] \in 1..Len(n) /\ n[x[2]] = "UserGesture" BY <1>6, <2>1, <2>4 DEF Unused
    <3>2. CASE x[2] = Len(p) + 1
      <4>1. Image(x) = <<0, 1>> BY <2>4, <3>2
      <4>2. of(tx[1]) = "UserGesture" BY <1>3, <1>5, <3>1, <3>2
      <4>3. Unused(tx, ws, 0, 1) BY <1>3, <4>2 DEF Unused
      <4>4. <<0, 1>> \in (0..Len(ws)) \X Nat /\ <<0, 1>>[1] = 0 /\ <<0, 1>>[2] = 1 BY <1>6
      <4> QED BY <3>1, <4>1, <4>3, <4>4 DEF Unspent
    <3>3. CASE x[2] # Len(p) + 1
      <4>1. Image(x) = x BY <2>4, <3>3
      <4>2. x[2] \in 1..Len(p) /\ p[x[2]] = "UserGesture" BY <1>5, <3>1, <3>3
      <4>3. c \in 1..Len(ws) /\ p = ws[c].pending BY <4>2
      <4>4. Unused(tx, ws, x[1], x[2]) BY <2>4, <4>2, <4>3 DEF Unused
      <4>5. x \in (0..Len(ws)) \X Nat BY <1>2, <2>4, <4>3
      <4> QED BY <4>1, <4>2, <4>4, <4>5 DEF Unspent
    <3> QED BY <3>2, <3>3
  <2> QED BY <2>2, <2>3, <2>4
<1>8. ASSUME NEW x \in T, NEW y \in T, Image(x) = Image(y) PROVE x = y
  <2>1. x = <<x[1], x[2]>> /\ y = <<y[1], y[2]>> /\ x[2] \in Nat /\ y[2] \in Nat BY <1>2
  <2>2. x[1] = 0 => x[2] # 0 BY DEF Unspent, Unused
  <2>3. y[1] = 0 => y[2] # 0 BY DEF Unspent, Unused
  <2>4. c # 0 OBVIOUS
  <2>5. CASE x[1] = 0
    <3>1. Image(x)[1] = 0 /\ Image(x)[2] = x[2] + 1 BY <2>5
    <3>2. CASE y[1] = 0
      <4>1. Image(y)[2] = y[2] + 1 BY <3>2
      <4>2. x[2] + 1 = y[2] + 1 BY <1>8, <3>1, <4>1
      <4>3. x[2] = y[2] BY <2>1, <4>2
      <4> QED BY <2>1, <2>5, <3>2, <4>3
    <3>3. CASE y[1] = c /\ y[2] = Len(p) + 1
      <4>1. Image(y)[2] = 1 BY <2>4, <3>3
      <4>2. x[2] + 1 = 1 BY <1>8, <3>1, <4>1
      <4> QED BY <2>1, <2>2, <2>5, <4>2
    <3>4. CASE y[1] # 0 /\ ~(y[1] = c /\ y[2] = Len(p) + 1)
      <4>1. Image(y)[1] # 0 BY <3>4
      <4> QED BY <1>8, <3>1, <4>1
    <3> QED BY <3>2, <3>3, <3>4
  <2>6. CASE x[1] = c /\ x[2] = Len(p) + 1
    <3>1. Image(x)[1] = 0 /\ Image(x)[2] = 1 BY <2>4, <2>6
    <3>2. CASE y[1] = 0
      <4>1. Image(y)[2] = y[2] + 1 BY <3>2
      <4> QED BY <1>8, <2>1, <2>3, <3>1, <3>2, <4>1
    <3>3. CASE y[1] = c /\ y[2] = Len(p) + 1 BY <2>1, <2>6, <3>3
    <3>4. CASE y[1] # 0 /\ ~(y[1] = c /\ y[2] = Len(p) + 1)
      <4>1. Image(y)[1] # 0 BY <3>4
      <4> QED BY <1>8, <3>1, <4>1
    <3> QED BY <3>2, <3>3, <3>4
  <2>7. CASE x[1] # 0 /\ ~(x[1] = c /\ x[2] = Len(p) + 1)
    <3>1. Image(x) = x BY <2>7
    <3>2. CASE y[1] = 0 \/ (y[1] = c /\ y[2] = Len(p) + 1)
      <4>1. Image(y)[1] = 0 BY <3>2
      <4> QED BY <1>8, <2>7, <3>1, <4>1
    <3>3. CASE y[1] # 0 /\ ~(y[1] = c /\ y[2] = Len(p) + 1) BY <1>8, <3>1, <3>3
    <3> QED BY <3>2, <3>3
  <2> QED BY <2>5, <2>6, <2>7
<1> HIDE DEF Image, T, S
<1>9. f \in [T -> S] BY <1>7
<1>10. \A x, y \in T : f[x] = f[y] => x = y BY <1>8
<1> HIDE DEF f
<1>11. IsFiniteSet(T) /\ Cardinality(T) <= Cardinality(S) BY <1>9, <1>10, NoMore DEF S
<1> QED BY <1>11 DEF T, S

\* The reader of process g takes the head of its queue, and with it the gesture
\* the head may be.
LEMMA UnspentRead ==
  ASSUME NEW tx, NEW ws \in Seq(LiveWorker), NEW g \in 1..Len(ws), NEW v \in LiveWorker,
         ws[g].pending # <<>>, v.pending = Tail(ws[g].pending), IsFiniteSet(Unspent(tx, ws))
  PROVE  LET T == Unspent(tx, [ws EXCEPT ![g] = v])
             n == Cardinality(Unspent(tx, ws))
         IN  /\ IsFiniteSet(T)
             /\ Cardinality(T) <= IF Head(ws[g].pending) = "UserGesture" THEN n - 1 ELSE n
<1> DEFINE xs == [ws EXCEPT ![g] = v]
           T == Unspent(tx, xs)
           S == Unspent(tx, ws)
           R == S \ {<<g, 1>>}
           Image(x) == IF x[1] = g THEN <<g, x[2] + 1>> ELSE x
           f == [x \in T |-> Image(x)]
           p == ws[g].pending
<1>1. p \in Seq(EventAgency) /\ p # <<>> BY WorkerFields
<1>2. /\ \A i \in 1..Len(Tail(p)) : i + 1 \in 1..Len(p) /\ Tail(p)[i] = p[i + 1]
      /\ Head(p) = p[1] /\ 1 \in 1..Len(p)
  BY <1>1
<1>3. Len(xs) = Len(ws) /\ Len(ws) \in Nat /\ \A h \in 1..Len(ws) : xs[h] = IF h = g THEN v ELSE ws[h]
  OBVIOUS
<1> HIDE DEF xs
<1>4. ASSUME NEW x \in T
      PROVE  /\ x \in (0..Len(ws)) \X Nat /\ x = <<x[1], x[2]>> /\ x[1] \in 0..Len(ws) /\ x[2] \in Nat
             /\ Unused(tx, xs, x[1], x[2])
    BY <1>3, Pairs DEF Unspent
<1>5. ASSUME NEW x \in T PROVE Image(x) \in R
  <2>1. CASE x[1] = g
    <3>1. Image(x) = <<g, x[2] + 1>> BY <2>1
    <3>2. <<g, x[2] + 1>>[1] = g /\ <<g, x[2] + 1>>[2] = x[2] + 1 OBVIOUS
    <3>3. <<g, x[2] + 1>> \in (0..Len(ws)) \X Nat BY <1>4, <2>1
    <3>a. g # 0 /\ xs[g].pending = Tail(p) BY <1>3
    <3>4. x[2] \in 1..Len(Tail(p)) /\ Tail(p)[x[2]] = "UserGesture" BY <1>4, <2>1, <3>a DEF Unused
    <3>5. Unused(tx, ws, g, x[2] + 1) BY <1>2, <3>4 DEF Unused
    <3>6. x[2] + 1 # 1 BY <3>4
    <3>7. <<g, x[2] + 1>> # <<g, 1>> BY <3>2, <3>6
    <3> QED BY <3>1, <3>2, <3>3, <3>5, <3>7 DEF Unspent
  <2>2. CASE x[1] # g
    <3>1. Image(x) = x BY <2>2
    <3>2. x[1] # 0 => x[1] \in 1..Len(ws) BY <1>4
    <3>3. Unused(tx, ws, x[1], x[2]) BY <1>3, <1>4, <2>2, <3>2 DEF Unused
    <3>4. x # <<g, 1>> BY <2>2
    <3> QED BY <1>4, <3>1, <3>3, <3>4 DEF Unspent
  <2> QED BY <2>1, <2>2
<1>6. ASSUME NEW x \in T, NEW y \in T, Image(x) = Image(y) PROVE x = y
  <2>1. x = <<x[1], x[2]>> /\ y = <<y[1], y[2]>> /\ x[2] \in Nat /\ y[2] \in Nat BY <1>4
  <2>2. Image(x)[1] = x[1] /\ Image(y)[1] = y[1] OBVIOUS
  <2>3. CASE x[1] = g
    <3>1. y[1] = g BY <1>6, <2>2, <2>3
    <3>2. Image(x)[2] = x[2] + 1 /\ Image(y)[2] = y[2] + 1 BY <2>3, <3>1
    <3> QED BY <1>6, <2>1, <2>3, <3>1, <3>2
  <2>4. CASE x[1] # g
    <3>1. y[1] # g BY <1>6, <2>2, <2>4
    <3> QED BY <1>6, <2>4, <3>1
  <2> QED BY <2>3, <2>4
<1>7. Head(p) = "UserGesture" => <<g, 1>> \in S
  <2>1. <<g, 1>> \in (0..Len(ws)) \X Nat /\ <<g, 1>>[1] = g /\ <<g, 1>>[2] = 1 BY <1>3
  <2>2. g # 0 OBVIOUS
  <2> QED BY <1>2, <2>1, <2>2 DEF Unspent, Unused
<1> HIDE DEF Image, T, S
<1>8. f \in [T -> R] BY <1>5
<1>9. \A x, y \in T : f[x] = f[y] => x = y BY <1>6
<1> HIDE DEF f
<1>10. IsFiniteSet(S) BY DEF S
<1>11. IsFiniteSet(R) /\ Cardinality(R) = IF <<g, 1>> \in S THEN Cardinality(S) - 1 ELSE Cardinality(S)
  BY <1>10, FS_RemoveElement
<1> HIDE DEF R
<1>12. IsFiniteSet(T) /\ Cardinality(T) <= Cardinality(R) BY <1>8, <1>9, <1>11, NoMore
<1>13. Cardinality(S) \in Nat /\ Cardinality(T) \in Nat BY <1>10, <1>12, FS_CardinalityType
<1>14. Cardinality(T) <= IF Head(p) = "UserGesture" THEN Cardinality(S) - 1 ELSE Cardinality(S)
  BY <1>7, <1>11, <1>12, <1>13
<1> QED BY <1>12, <1>14 DEF T, S, xs

LEMMA SpendInit == Init => SpendIInv
<1> SUFFICES ASSUME Init PROVE SpendIInv OBVIOUS
<1>1. Typed BY TypedInit
<1> DEFINE e == [kind |-> "Reload", doc |-> 1]
           tx == <<e>>
<1>2. logic_tx = tx /\ workers = <<>> /\ gestures = 0 /\ clicks = 0 BY DEF Init
<1>3. Len(tx) = 1 /\ tx[1] = e /\ of(e) # "UserGesture" /\ \A i \in 1..1 : i = 1 BY DEF of
<1> HIDE DEF tx, e
<1>4. Unspent(tx, <<>>) = {}
  <2> SUFFICES ASSUME NEW x \in (0..Len(<<>>)) \X Nat, Unused(tx, <<>>, x[1], x[2]) PROVE FALSE
    BY DEF Unspent
  <2>1. x[1] = 0 BY Pairs
  <2> QED BY <1>3, <2>1 DEF Unused
<1>5. IsFiniteSet(Unspent(logic_tx, workers)) /\ Cardinality(Unspent(logic_tx, workers)) = 0
  BY <1>2, <1>4, FS_EmptySet
<1> QED BY <1>1, <1>2, <1>5 DEF SpendIInv

LEMMA SpendStep ==
  ASSUME SpendIInv, [Next]_vars
  PROVE  SpendIInv'
<1> DEFINE S == Unspent(logic_tx, workers)
<1>0. /\ logic_tx \in Seq(UiEvent) /\ doc \in Nat /\ clicks \in Nat /\ gestures \in Nat
      /\ workers \in Seq(LiveWorker) /\ current \in 0..Len(workers) /\ Len(workers) \in Nat
      /\ IsFiniteSet(S) /\ Cardinality(S) \in Nat /\ gestures + Cardinality(S) <= clicks
  BY BridgeAssumption, FS_CardinalityType DEF SpendIInv, Typed, TypeOK
<1>1. Typed' BY TypedStep DEF SpendIInv
<1>2. ASSUME NEW T, T = Unspent(logic_tx', workers'), IsFiniteSet(T), Cardinality(T) <= Cardinality(S),
             gestures' = gestures, clicks' = clicks
      PROVE  SpendIInv'
  <2>1. Cardinality(T) \in Nat BY <1>2, FS_CardinalityType
  <2>2. gestures' + Cardinality(T) <= clicks' BY <1>0, <1>2, <2>1
  <2> QED BY <1>1, <1>2, <2>2 DEF SpendIInv
<1>3. ASSUME NEW e \in UiEvent, Dispatch(e),
             clicks' = IF of(e) = "UserGesture" THEN clicks + 1 ELSE clicks
      PROVE  SpendIInv'
  <2> DEFINE T == Unspent(Append(logic_tx, e), workers)
             x == <<0, Len(logic_tx) + 1>>
  <2>1. logic_tx' = Append(logic_tx, e) /\ workers' = workers /\ gestures' = gestures BY <1>3 DEF Dispatch
  <2>2. T \subseteq IF of(e) = "UserGesture" THEN S \cup {x} ELSE S BY <1>0, UnspentDispatch
  <2>3. IsFiniteSet(S \cup {x}) /\ Cardinality(S \cup {x}) <= Cardinality(S) + 1
    <3> HIDE DEF S, x
    <3>1. IsFiniteSet(S \cup {x}) /\ (Cardinality(S \cup {x}) = Cardinality(S) \/ Cardinality(S \cup {x}) = Cardinality(S) + 1)
      BY <1>0, FS_AddElement
    <3> QED BY <1>0, <3>1
  <2>4. T = Unspent(logic_tx', workers') BY <2>1
  <2> HIDE DEF T, S, x
  <2>5. CASE of(e) = "UserGesture"
    <3>1. T \in SUBSET (S \cup {x}) BY <2>2, <2>5
    <3>2. IsFiniteSet(T) /\ Cardinality(T) <= Cardinality(S \cup {x}) BY <2>3, <3>1, FS_Subset
    <3>3. Cardinality(T) \in Nat /\ Cardinality(S \cup {x}) \in Nat BY <2>3, <3>2, FS_CardinalityType
    <3>4. gestures' + Cardinality(T) <= clicks' BY <1>0, <1>3, <2>1, <2>3, <2>5, <3>2, <3>3
    <3> QED BY <1>1, <2>4, <3>2, <3>4 DEF SpendIInv
  <2>6. CASE of(e) # "UserGesture"
    <3>1. T \in SUBSET S BY <2>2, <2>6
    <3>2. IsFiniteSet(T) /\ Cardinality(T) <= Cardinality(S) BY <1>0, <3>1, FS_Subset
    <3> QED BY <1>2, <1>3, <2>1, <2>4, <2>6, <3>2
  <2> QED BY <2>5, <2>6
<1>4. ASSUME logic_tx' = logic_tx, Len(workers') = Len(workers),
             \A g \in 1..Len(workers) : workers'[g].pending = workers[g].pending,
             gestures' = gestures, clicks' = clicks
      PROVE  SpendIInv'
  <2>1. Unspent(logic_tx', workers') = S BY <1>0, <1>4, UnspentSame
  <2>2. Cardinality(S) <= Cardinality(S) BY <1>0
  <2> HIDE DEF S
  <2> QED BY <1>0, <1>2, <1>4, <2>1, <2>2
<1>5. CASE Ui
  <2>1. \A kind \in UiKinds : [kind |-> kind, doc |-> doc] \in UiEvent BY <1>0 DEF UiEvent
  <2>2. [kind |-> "Reload", doc |-> doc + 1] \in UiEvent BY <1>0 DEF UiEvent, UiKinds
  <2>3. ASSUME NEW kind \in {"Click", "SubmitForm"}, UserGesture(kind) PROVE SpendIInv'
    <3> DEFINE e == [kind |-> kind, doc |-> doc]
    <3>1. of(e) = "UserGesture" BY DEF of
    <3>2. e \in UiEvent /\ Dispatch(e) /\ clicks' = clicks + 1 BY <2>1, <2>3 DEF UserGesture, UiKinds
    <3> HIDE DEF e
    <3> QED BY <1>3, <3>1, <3>2
  <2>4. ASSUME NEW e \in UiEvent, e.kind \notin {"Click", "SubmitForm"}, Dispatch(e), clicks' = clicks PROVE SpendIInv'
    BY <1>3, <2>4 DEF of
  <2>5. CASE UpdateVariable
    <3> DEFINE e == [kind |-> "UpdateVariable", doc |-> doc]
    <3>1. e \in UiEvent /\ e.kind \notin {"Click", "SubmitForm"} /\ Dispatch(e) /\ clicks' = clicks
      BY <2>1, <2>5 DEF UpdateVariable, UiKinds
    <3> HIDE DEF e
    <3> QED BY <2>4, <3>1
  <2>6. CASE RootTimer
    <3> DEFINE e == [kind |-> "RootTimer", doc |-> doc]
    <3>1. e \in UiEvent /\ e.kind \notin {"Click", "SubmitForm"} /\ Dispatch(e) /\ clicks' = clicks
      BY <2>1, <2>6 DEF RootTimer, UiKinds
    <3> HIDE DEF e
    <3> QED BY <2>4, <3>1
  <2>7. CASE Reload
    <3> DEFINE e == [kind |-> "Reload", doc |-> doc + 1]
    <3>1. e \in UiEvent /\ e.kind \notin {"Click", "SubmitForm"} /\ Dispatch(e) /\ clicks' = clicks
      BY <2>2, <2>7 DEF Reload
    <3> HIDE DEF e
    <3> QED BY <2>4, <3>1
  <2>8. CASE close_tab
    <3> DEFINE e == [kind |-> "CloseTab", doc |-> doc]
    <3>1. e \in UiEvent /\ e.kind \notin {"Click", "SubmitForm"} /\ Dispatch(e) /\ clicks' = clicks
      BY <2>1, <2>8 DEF close_tab, UiKinds
    <3> HIDE DEF e
    <3> QED BY <2>4, <3>1
  <2>9. CASE drain_logic_worker_results BY <1>4, <2>9 DEF drain_logic_worker_results
  <2> QED BY <1>5, <2>3, <2>5, <2>6, <2>7, <2>8, <2>9 DEF Ui
<1>6. CASE Router
  <2>1. /\ Len(Removed(workers)) = Len(workers)
        /\ \A g \in 1..Len(workers) : Removed(workers)[g].pending = workers[g].pending
    BY <1>0, RemovedFields
  <2>2. CASE RouteClose
    <3>1. /\ logic_tx # <<>> /\ logic_tx' = Tail(logic_tx) /\ workers' = Removed(workers)
          /\ gestures' = gestures /\ clicks' = clicks
      BY <2>2 DEF RouteClose, uiVars
    <3>2. Unspent(logic_tx', workers') = Unspent(Tail(logic_tx), workers)
      BY <1>0, <2>1, <3>1, UnspentSame
    <3>3. /\ IsFiniteSet(Unspent(Tail(logic_tx), workers))
          /\ Cardinality(Unspent(Tail(logic_tx), workers)) <= Cardinality(S)
      BY <1>0, <3>1, UnspentTail
    <3> HIDE DEF S
    <3> QED BY <1>2, <3>1, <3>2, <3>3
  <2>3. CASE RouteRecord
    <3> DEFINE e == Head(logic_tx)
    <3>1. /\ logic_tx # <<>> /\ logic_tx' = Tail(logic_tx) /\ gestures' = gestures /\ clicks' = clicks
      BY <2>3 DEF RouteRecord, uiVars
    <3>2. e \in UiEvent BY <1>0, <3>1
    <3>3. /\ IsFiniteSet(Unspent(Tail(logic_tx), workers'))
          /\ Cardinality(Unspent(Tail(logic_tx), workers')) <= Cardinality(S)
      <4>1. workers' \in Seq(LiveWorker) BY <1>1 DEF Typed, TypeOK
      <4>2. CASE current # 0
        <5> DEFINE w == workers[current]
        <5>1. current \in 1..Len(workers) /\ w \in LiveWorker BY <1>0, <4>2
        <5>2. workers' = [workers EXCEPT ![current] = Records(w, e)] BY <2>3, <4>2 DEF RouteRecord
        <5>3. Records(w, e) \in LiveWorker /\ Records(w, e).pending = Append(w.pending, of(e))
          BY <3>2, <5>1, RecordFields
        <5>4. w.pending \in Seq(EventAgency) BY <5>1, WorkerFields
        <5>5. /\ current \in 1..Len(workers') /\ workers'[current].pending = Append(w.pending, of(e))
              /\ \A g \in 1..Len(workers') :
                   g # current => g \in 1..Len(workers) /\ workers'[g].pending = workers[g].pending
          <6> HIDE DEF e
          <6> QED BY <1>0, <5>1, <5>2, <5>3
        <5> QED BY <1>0, <3>1, <4>1, <5>1, <5>4, <5>5, UnspentRecord
      <4>3. CASE current = 0
        <5> DEFINE c == Len(workers) + 1
                   p == <<>>
        <5>1. workers' = Append(workers, Records(NewWorker, e)) BY <2>3, <4>3 DEF RouteRecord
        <5>2. p \in Seq(EventAgency) /\ p = <<>> OBVIOUS
        <5>3. Records(NewWorker, e) \in LiveWorker /\ Records(NewWorker, e).pending = Append(p, of(e))
          BY <3>2, NewFields, RecordFields
        <5>4. /\ c \in 1..Len(workers') /\ workers'[c].pending = Append(p, of(e))
              /\ \A g \in 1..Len(workers') :
                   g # c => g \in 1..Len(workers) /\ workers'[g].pending = workers[g].pending
          <6> HIDE DEF e, p
          <6> QED BY <1>0, <5>1, <5>3
        <5> HIDE DEF c, p
        <5> QED BY <1>0, <3>1, <4>1, <5>2, <5>4, UnspentRecord
      <4> QED BY <4>2, <4>3
    <3> HIDE DEF S
    <3> QED BY <1>2, <3>1, <3>3
  <2>4. CASE RouteStartFails
    <3>1. /\ logic_tx # <<>> /\ logic_tx' = Tail(logic_tx) /\ workers' = workers
          /\ gestures' = gestures /\ clicks' = clicks
      BY <2>4 DEF RouteStartFails, uiVars
    <3>2. /\ IsFiniteSet(Unspent(Tail(logic_tx), workers))
          /\ Cardinality(Unspent(Tail(logic_tx), workers)) <= Cardinality(S)
      BY <1>0, <3>1, UnspentTail
    <3> HIDE DEF S
    <3> QED BY <1>2, <3>1, <3>2
  <2>5. CASE RouteSend
    <3>1. routing # Nothing /\ UNCHANGED <<logic_tx, gestures, clicks>> BY <2>5 DEF RouteSend, uiVars
    <3>2. PICK v \in LiveWorker :
             /\ workers' = [workers EXCEPT ![current] = v] /\ v.pending = workers[current].pending
      BY <2>5, <3>1, SentFields DEF RouteSend, SpendIInv
    <3>3. /\ Len(workers') = Len(workers)
          /\ \A g \in 1..Len(workers) : workers'[g].pending = workers[g].pending
      BY <1>0, <3>2
    <3> QED BY <1>4, <3>1, <3>3
  <2>6. CASE RouteSendFails
    <3>1. workers' = Removed(workers) /\ UNCHANGED <<logic_tx, gestures, clicks>>
      BY <2>6 DEF RouteSendFails, uiVars
    <3> QED BY <1>4, <2>1, <3>1
  <2> QED BY <1>6, <2>2, <2>3, <2>4, <2>5, <2>6 DEF Router
<1>7. ASSUME NEW g \in DOMAIN workers, run(g) \/ Dies(g) \/ Forges(g) \/ Reader(g) PROVE SpendIInv'
  <2> DEFINE w == workers[g]
  <2>0. g \in 1..Len(workers) BY <1>0, <1>7
  <2>1. PICK v : Changes(g, v) BY <1>7, ProcessChanges DEF SpendIInv
  <2>2. /\ v \in LiveWorker /\ workers' = [workers EXCEPT ![g] = v] /\ Heard(w, v)
        /\ logic_tx' = logic_tx /\ clicks' = clicks
    BY <2>1 DEF Changes, uiVars
  <2>3. CASE v.pending = w.pending /\ gestures' = gestures
    <3>1. /\ Len(workers') = Len(workers)
          /\ \A h \in 1..Len(workers) : workers'[h].pending = workers[h].pending
      BY <1>0, <2>0, <2>2, <2>3
    <3> QED BY <1>4, <2>2, <2>3, <3>1
  <2>4. CASE /\ w.pending # <<>> /\ v.pending = Tail(w.pending)
             /\ \/ gestures' = gestures
                \/ Head(w.pending) = "UserGesture" /\ gestures' = gestures + 1
    <3> DEFINE T == Unspent(logic_tx, [workers EXCEPT ![g] = v])
    <3>1. /\ IsFiniteSet(T)
          /\ Cardinality(T) <= IF Head(w.pending) = "UserGesture" THEN Cardinality(S) - 1 ELSE Cardinality(S)
      BY <1>0, <2>0, <2>2, <2>4, UnspentRead
    <3>2. T = Unspent(logic_tx', workers') BY <2>2
    <3> HIDE DEF T, S
    <3>3. Cardinality(T) \in Nat BY <3>1, FS_CardinalityType
    <3>4. gestures' + Cardinality(T) <= clicks' BY <1>0, <2>2, <2>4, <3>1, <3>3
    <3> QED BY <1>1, <3>1, <3>2, <3>4 DEF SpendIInv
  <2> QED BY <2>2, <2>3, <2>4 DEF Heard
<1>8. CASE UNCHANGED vars
  BY <1>4, <1>8 DEF vars, uiVars
<1> QED BY <1>5, <1>6, <1>7, <1>8 DEF Next

LEMMA SpendMeans == SpendIInv => GesturesAreSpent
<1> SUFFICES ASSUME SpendIInv PROVE gestures <= clicks BY DEF GesturesAreSpent
<1>1. Cardinality(Unspent(logic_tx, workers)) \in Nat BY FS_CardinalityType DEF SpendIInv
<1> QED BY <1>1 DEF SpendIInv, Typed, TypeOK

\* The step as an implication, for the module that instantiates this one.
LEMMA SpendKept == SpendIInv /\ [Next]_vars => SpendIInv'
BY SpendStep

\* Gate G1 when processes are compromised: whatever frames they write, and
\* whenever, and however often they are replaced, the bridge authorises no more
\* replies with a user gesture than the user made gestures.
THEOREM GesturesSpentOnce == Spec => []GesturesAreSpent
BY SpendInit, SpendStep, SpendMeans, PTL DEF Spec

\* bridge.rs with processes that are not compromised, through any number of
\* events, documents, deaths and replacements: the tick counter stays in its
\* range, no reply is judged with the registry of an earlier document, and no
\* gesture is granted twice.
THEOREM BridgeSafe ==
  ASSUME Compromised = FALSE
  PROVE  Spec => []BridgeInv
BY BridgeTyped, RegistryIsCurrent, GesturesSpentOnce, PTL DEF BridgeInv

=============================================================================
