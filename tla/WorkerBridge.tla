---------------------------- MODULE WorkerBridge ----------------------------
(***************************************************************************)
(* One tab and its sandboxed logic process: the UI thread's event dispatch *)
(* and timer admission, the router thread and the reader threads of        *)
(* src/worker_host/bridge.rs, and the message loop of crates/worker.       *)
(*                                                                         *)
(* A process that dies is replaced by the next event's; its reader goes on *)
(* reading what the dead process had written.  The worker process is not   *)
(* trusted by the bridge: with Compromised it answers as it likes.         *)
(***************************************************************************)
EXTENDS Integers, Sequences

CONSTANTS
  Compromised,                \* whether worker processes may misbehave
  MAX_INFLIGHT_TIMER_TICKS,
  Nothing,                    \* no event, no document
  MaxDocs, MaxEvents, MaxWorkers,   \* bounds: documents, events, processes
  MaxForged                         \* bound: unread frames a forger adds to

VARIABLES
  doc,                    \* the document the tab shows
  open,                   \* FALSE once the tab is closed
  inflight_timer_ticks,
  logic_tx, logic_rx,     \* channels UI to router, router and readers to UI
  routing,                \* the event the router has recorded and not sent
  current,                \* index of the tab's LiveWorker, 0 if it has none
  workers,                \* every process started so far
  events,                 \* events dispatched so far
  clicks, gestures        \* user gestures dispatched, and gestures granted

uiVars == <<doc, open, inflight_timer_ticks, events, clicks>>
vars == <<uiVars, logic_tx, logic_rx, routing, current, workers, gestures>>

-----------------------------------------------------------------------------

UiKinds == {"Click", "SubmitForm", "RootTimer", "UpdateVariable", "Reload", "CloseTab"}

\* doc is the payload of a Reload; of other events, the document they are for.
UiEvent == [kind : UiKinds, doc : Nat]

ASSUME BridgeAssumption ==
  /\ Compromised \in BOOLEAN
  /\ MAX_INFLIGHT_TIMER_TICKS \in Nat \ {0}
  /\ MaxDocs \in Nat \ {0} /\ MaxEvents \in Nat
  /\ MaxWorkers \in Nat /\ MaxForged \in Nat
  /\ Nothing \notin Nat \cup UiEvent

\* What a worker writes.  event is what the frame answers, for the properties.
Envelope == [kind : {"NoOp", "Ok", "Err", "Hello"}, event : UiEvent \cup {Nothing}]

EventAgency == {"UserGesture", "DocumentDriven"}

LiveWorker ==
  [pending : Seq(EventAgency), url_registry : Nat \cup {Nothing},
   inbox : Seq(UiEvent), outbox : Seq(Envelope),
   session : Nat \cup {Nothing}, alive : BOOLEAN, reading : BOOLEAN]

\* What the UI receives: an error, or a response with the agency and the
\* registry its actions were authorised with.
Error == [ok |-> FALSE]
Response == [ok : {TRUE}, gesture : BOOLEAN, registry : Nat \cup {Nothing},
             event : UiEvent \cup {Nothing}]

TypeOK ==
  /\ doc \in 1..MaxDocs /\ open \in BOOLEAN
  /\ inflight_timer_ticks \in 0..MAX_INFLIGHT_TIMER_TICKS
  /\ logic_tx \in Seq(UiEvent)
  /\ logic_rx \in Seq({Error} \cup Response)
  /\ routing \in UiEvent \cup {Nothing}
  /\ workers \in Seq(LiveWorker)
  /\ current \in 0..Len(workers)
  /\ events \in 0..MaxEvents
  /\ clicks \in Nat /\ gestures \in Nat

\* A tab whose first document has just been loaded.
Init ==
  /\ doc = 1 /\ open = TRUE /\ inflight_timer_ticks = 0
  /\ logic_tx = <<[kind |-> "Reload", doc |-> 1]>>
  /\ logic_rx = <<>>
  /\ routing = Nothing /\ current = 0 /\ workers = <<>>
  /\ events = 0 /\ clicks = 0 /\ gestures = 0

-----------------------------------------------------------------------------
(* The UI thread *)

Dispatch(event) ==
  /\ open
  /\ events < MaxEvents /\ events' = events + 1
  /\ logic_tx' = Append(logic_tx, event)
  /\ UNCHANGED <<logic_rx, routing, current, workers, gestures>>

\* dispatch_click_gesture and dispatch_form_submit.
UserGesture(kind) ==
  /\ Dispatch([kind |-> kind, doc |-> doc])
  /\ clicks' = clicks + 1
  /\ UNCHANGED <<doc, open, inflight_timer_ticks>>

\* A network answer for the document.
UpdateVariable ==
  /\ Dispatch([kind |-> "UpdateVariable", doc |-> doc])
  /\ UNCHANGED <<doc, open, inflight_timer_ticks, clicks>>

may_dispatch_timer_tick == inflight_timer_ticks < MAX_INFLIGHT_TIMER_TICKS

\* A root timer is due; a tick that is not admitted is dropped.
RootTimer ==
  /\ may_dispatch_timer_tick
  /\ Dispatch([kind |-> "RootTimer", doc |-> doc])
  /\ inflight_timer_ticks' = inflight_timer_ticks + 1
  /\ UNCHANGED <<doc, open, clicks>>

\* reload_tab_document: trigger_logic_reload, then reset_timer_ticks.
Reload ==
  /\ doc < MaxDocs
  /\ Dispatch([kind |-> "Reload", doc |-> doc + 1])
  /\ doc' = doc + 1 /\ inflight_timer_ticks' = 0
  /\ UNCHANGED <<open, clicks>>

close_tab ==
  /\ Dispatch([kind |-> "CloseTab", doc |-> doc])
  /\ open' = FALSE
  /\ UNCHANGED <<doc, inflight_timer_ticks, clicks>>

release_timer_tick ==
  inflight_timer_ticks' = IF inflight_timer_ticks = 0 THEN 0 ELSE inflight_timer_ticks - 1

\* drain_logic_worker_results, one message: dropped if the tab is gone.
drain_logic_worker_results ==
  /\ logic_rx # <<>>
  /\ logic_rx' = Tail(logic_rx)
  /\ IF open THEN release_timer_tick ELSE UNCHANGED inflight_timer_ticks
  /\ UNCHANGED <<doc, open, events, clicks, logic_tx, routing, current, workers, gestures>>

-----------------------------------------------------------------------------
(* The router thread *)

of(event) == IF event.kind \in {"Click", "SubmitForm"} THEN "UserGesture" ELSE "DocumentDriven"

NewWorker ==
  [pending |-> <<>>, url_registry |-> Nothing, inbox |-> <<>>, outbox |-> <<>>,
   session |-> Nothing, alive |-> TRUE, reading |-> TRUE]

\* workers.remove: dropping the LiveWorker kills and reaps the process.
Removed(ws) ==
  IF current = 0 THEN ws
  ELSE [ws EXCEPT ![current].alive = FALSE, ![current].inbox = <<>>]

RouteClose ==
  /\ routing = Nothing /\ logic_tx # <<>> /\ Head(logic_tx).kind = "CloseTab"
  /\ logic_tx' = Tail(logic_tx)
  /\ workers' = Removed(workers) /\ current' = 0
  /\ UNCHANGED <<uiVars, logic_rx, routing, gestures>>

\* Mutation: only the first Reload of a process is recorded.
records_once(w, event) ==
  [w EXCEPT !.pending = Append(@, of(event)),
            !.url_registry = IF event.kind = "Reload" /\ @ = Nothing THEN event.doc ELSE @]

Records(w, event) ==
  [w EXCEPT !.pending = Append(@, of(event)),
            !.url_registry = IF event.kind = "Reload" THEN event.doc ELSE @]

\* The tab's process is started if it has none; then the agency of the event,
\* and the registry of a Reload, are recorded under the policy's lock.
RouteRecord ==
  /\ routing = Nothing /\ logic_tx # <<>> /\ Head(logic_tx).kind # "CloseTab"
  /\ logic_tx' = Tail(logic_tx) /\ routing' = Head(logic_tx)
  /\ IF current # 0
     THEN workers' = [workers EXCEPT ![current] = Records(@, Head(logic_tx))] /\ UNCHANGED current
     ELSE /\ Len(workers) < MaxWorkers
          /\ workers' = Append(workers, Records(NewWorker, Head(logic_tx)))
          /\ current' = Len(workers) + 1
  /\ UNCHANGED <<uiVars, logic_rx, gestures>>

\* start_worker fails: the event is dropped and an error reported.
RouteStartFails ==
  /\ routing = Nothing /\ logic_tx # <<>> /\ Head(logic_tx).kind # "CloseTab"
  /\ current = 0
  /\ logic_tx' = Tail(logic_tx)
  /\ logic_rx' = Append(logic_rx, Error)
  /\ UNCHANGED <<uiVars, routing, current, workers, gestures>>

RouteSend ==
  /\ routing # Nothing /\ workers[current].alive
  /\ workers' = [workers EXCEPT ![current].inbox = Append(@, routing)]
  /\ routing' = Nothing
  /\ UNCHANGED <<uiVars, logic_tx, logic_rx, current, gestures>>

\* The process is dead, or the frame is refused.
RouteSendFails ==
  /\ routing # Nothing
  /\ workers' = Removed(workers) /\ current' = 0
  /\ logic_rx' = Append(logic_rx, Error)
  /\ routing' = Nothing
  /\ UNCHANGED <<uiVars, logic_tx, gestures>>

-----------------------------------------------------------------------------
(* The worker process *)

\* What apply_event answers, or the rejection of a malformed event: nothing is
\* bound before the first Reload, every timer the UI knows is bound after it,
\* and a click may be unbound.
apply_event(session, event) ==
  CASE event.kind = "Click"     -> IF session = Nothing THEN {"NoOp"} ELSE {"NoOp", "Ok", "Err"}
    [] event.kind = "RootTimer" -> IF session # event.doc THEN {"NoOp"} ELSE {"Ok", "Err"}
    [] OTHER                    -> {"Ok", "Err"}

\* Mutation: like the in-process worker, silent when nothing is bound.
silent_noop(outbox, kind, event) ==
  IF kind = "NoOp" THEN outbox ELSE Append(outbox, [kind |-> kind, event |-> event])

Answer(outbox, kind, event) == Append(outbox, [kind |-> kind, event |-> event])

run(g) ==
  LET w == workers[g]
      event == Head(w.inbox)
  IN  /\ w.alive /\ w.inbox # <<>>
      /\ \E kind \in apply_event(w.session, event) :
           workers' = [workers EXCEPT ![g] =
             [w EXCEPT !.inbox = Tail(@),
                       !.outbox = Answer(@, kind, event),
                       !.session = IF event.kind = "Reload" /\ kind = "Ok" THEN event.doc ELSE @]]
      /\ UNCHANGED <<uiVars, logic_tx, logic_rx, routing, current, gestures>>

\* The process dies: a sandbox kill, a panic, out of memory.
Dies(g) ==
  /\ workers[g].alive
  /\ workers' = [workers EXCEPT ![g].alive = FALSE, ![g].inbox = <<>>]
  /\ UNCHANGED <<uiVars, logic_tx, logic_rx, routing, current, gestures>>

\* A compromised process writes any frame, asked or not.
Forges(g) ==
  /\ Compromised /\ workers[g].alive
  /\ workers[g].reading /\ Len(workers[g].outbox) < MaxForged
  /\ \E kind \in {"NoOp", "Ok", "Err", "Hello"} :
       workers' = [workers EXCEPT ![g].outbox = Append(@, [kind |-> kind, event |-> Nothing])]
  /\ UNCHANGED <<uiVars, logic_tx, logic_rx, routing, current, gestures>>

-----------------------------------------------------------------------------
(* The reader thread of a process *)

\* Mutation: a reply that delivers nothing takes nothing from the queue.
pop_delivered(w, kind) == IF kind = "NoOp" THEN w.pending ELSE Tail(w.pending)

\* Mutation: the agency is read and left in the queue.
peek_front(w, kind) == w.pending

\* Every reply, a NoOp too, consumes one queued event.
pop_front(w, kind) == Tail(w.pending)

reader_loop(g) ==
  LET w == workers[g]
      frame == Head(w.outbox)
      Read(pending, reading) ==
        workers' = [workers EXCEPT ![g] = [w EXCEPT !.outbox = Tail(@), !.pending = pending,
                                                    !.reading = reading]]
      Send(message) == logic_rx' = Append(logic_rx, message)
      granted == Head(w.pending) = "UserGesture"
  IN  /\ w.reading /\ w.outbox # <<>>
      /\ IF w.pending = <<>>
         THEN Read(<<>>, FALSE) /\ Send(Error) /\ UNCHANGED gestures
         ELSE /\ Read(pop_front(w, frame.kind), TRUE)
              /\ CASE frame.kind = "NoOp" -> UNCHANGED <<logic_rx, gestures>>
                   [] frame.kind = "Ok" ->
                        /\ Send([ok |-> TRUE, gesture |-> granted,
                                 registry |-> w.url_registry, event |-> frame.event])
                        /\ gestures' = IF granted THEN gestures + 1 ELSE gestures
                   [] OTHER -> Send(Error) /\ UNCHANGED gestures
      /\ UNCHANGED <<uiVars, logic_tx, routing, current>>

\* The end of the channel: silent if it is a clean EOF.
ReaderEnds(g) ==
  /\ workers[g].reading /\ ~workers[g].alive /\ workers[g].outbox = <<>>
  /\ workers' = [workers EXCEPT ![g].reading = FALSE]
  /\ logic_rx' = logic_rx \/ logic_rx' = Append(logic_rx, Error)
  /\ UNCHANGED <<uiVars, logic_tx, routing, current, gestures>>

-----------------------------------------------------------------------------

Ui ==
  \/ \E kind \in {"Click", "SubmitForm"} : UserGesture(kind)
  \/ UpdateVariable \/ RootTimer \/ Reload \/ close_tab
  \/ drain_logic_worker_results

Router == RouteClose \/ RouteRecord \/ RouteStartFails \/ RouteSend \/ RouteSendFails

Reader(g) == reader_loop(g) \/ ReaderEnds(g)

Next ==
  \/ Ui \/ Router
  \/ \E g \in DOMAIN workers : run(g) \/ Dies(g) \/ Forges(g) \/ Reader(g)

Spec == Init /\ [][Next]_vars

\* The threads keep running, and an evaluation ends (it has an instruction
\* budget).  Nothing is assumed of the user, of timers or of crashes.
FairSpec ==
  /\ Spec
  /\ WF_vars(Router)
  /\ WF_vars(drain_logic_worker_results)
  /\ \A g \in 1..MaxWorkers :
       /\ WF_vars(g \in DOMAIN workers /\ run(g))
       /\ WF_vars(g \in DOMAIN workers /\ Reader(g))

-----------------------------------------------------------------------------
(* Properties *)

Messages == {logic_rx[i] : i \in DOMAIN logic_rx}
Responses == {m \in Messages : m.ok}

\* Gate G1 across the process boundary: a response is authorised with the
\* agency of the event it answers, whatever else is in flight, however many
\* processes the tab has had.
GestureIsOwn == \A m \in Responses : m.gesture <=> of(m.event) = "UserGesture"

\* Gate G1 when the process is compromised: a user gesture is granted at most
\* once, so a worker cannot authorise more than the user did.
GesturesAreSpent == gestures <= clicks

\* While a process lives, every event it was sent is answered and taken from
\* the queue: a reply can never be waited for in vain.
Waiting(g) == g \in DOMAIN workers /\ workers[g].alive /\ workers[g].pending # <<>>
PendingDrains == \A g \in 1..MaxWorkers : Waiting(g) ~> ~Waiting(g)

\* Closing a tab ends every process it ever had.
NoOrphans == ~open ~> \A g \in DOMAIN workers : ~workers[g].alive

\* A reply is judged with the registry of its own document or, when a Reload
\* has overtaken it, of a later one: never with that of an earlier document.
RegistryNotOlder ==
  \A m \in Responses : m.registry = Nothing \/ m.registry >= m.event.doc

\* What the bridge keeps up while its processes are honest: the tick counter of
\* may_dispatch_timer_tick in its range, replies judged with a registry that is
\* not behind them, and gestures granted no more than once.
BridgeInv == TypeOK /\ RegistryNotOlder /\ GesturesAreSpent

=============================================================================
