--------------------------- MODULE MCWorkerBridge ---------------------------
(***************************************************************************)
(* The small instance of WorkerBridge: a tab with honest worker processes, *)
(* or one with compromised ones; and that of WorkerProcess, the life of    *)
(* one process.  The choice is made at the start.                          *)
(***************************************************************************)
EXTENDS WorkerBridge

VARIABLES
  part,          \* which of the three this behaviour is about
  h_doc, h_open, h_inflight, h_events, h_clicks, h_logic_tx, h_logic_rx,
  h_routing, h_current, h_workers, h_gestures,
  broker, backlog, peer, reading, child, confined, code, inbox, outbox, stranger, sent

CONSTANTS
  PipeFrames, MaxFrames,
  HostileDocs, HostileEvents, HostileWorkers   \* bounds: of the tab with compromised ones

Process == INSTANCE WorkerProcess

processVars == <<broker, backlog, peer, reading, child, confined, code, inbox, outbox,
                 stranger, sent>>

hostileVars == <<h_doc, h_open, h_inflight, h_events, h_clicks, h_logic_tx, h_logic_rx,
                 h_routing, h_current, h_workers, h_gestures>>

Hostile == INSTANCE WorkerBridge WITH
  Compromised <- TRUE, MaxDocs <- HostileDocs, MaxEvents <- HostileEvents, MaxWorkers <- HostileWorkers,
  doc <- h_doc, open <- h_open, inflight_timer_ticks <- h_inflight, events <- h_events,
  clicks <- h_clicks, logic_tx <- h_logic_tx, logic_rx <- h_logic_rx, routing <- h_routing,
  current <- h_current, workers <- h_workers, gestures <- h_gestures

ASSUME HostileBounds == HostileDocs \in Nat \ {0} /\ HostileEvents \in Nat /\ HostileWorkers \in Nat

allVars == <<part, vars, hostileVars, processVars>>

MCInit ==
  /\ part \in {"honest", "hostile", "process"}
  /\ Init /\ Hostile!Init /\ Process!Init

Honestly(A) == part = "honest" /\ A /\ UNCHANGED <<part, hostileVars, processVars>>
Alone(A) == part = "process" /\ A /\ UNCHANGED <<part, vars, hostileVars>>

MCNext ==
  \/ Honestly(Next)
  \/ part = "hostile" /\ Hostile!Next /\ UNCHANGED <<part, vars, processVars>>
  \/ Alone(Process!Next)

\* The fairness of FairSpec, for the honest tab; for the process, that the
\* router, the reader and the worker keep running, and an evaluation ends.
MCSpec ==
  /\ MCInit /\ [][MCNext]_allVars
  /\ WF_allVars(Honestly(Router))
  /\ WF_allVars(Honestly(drain_logic_worker_results))
  /\ \A g \in 1..MaxWorkers :
       /\ WF_allVars(Honestly(g \in DOMAIN workers /\ run(g)))
       /\ WF_allVars(Honestly(g \in DOMAIN workers /\ Reader(g)))
  /\ WF_allVars(Alone(Process!Router))
  /\ WF_allVars(Alone(Process!reader_loop))
  /\ WF_allVars(Alone(Process!Worker))

\* What router, reader, handshake and sandbox guarantee of processes that are not
\* trusted.  Gate G1: a process that writes any frame at any time gets no more
\* gestures granted than the user made.  spawn_worker: a channel in use leads to
\* the process the broker spawned, whoever else connected and whatever it said.
\* main of crates/worker: no event is taken from the pipe before the sandbox is
\* engaged.
UntrustedContained ==
  Hostile!GesturesAreSpent /\ Process!OnlyOwnChild /\ Process!ConfinedBeforeInput

\* Closing a tab ends all its processes; and once the broker has given up on one,
\* dropped it or crashed, that process ends.
NoWorkerOutlives == NoOrphans /\ Process!NoWorkerOutlives

\* Router, worker and reader thread never wait for one another in a circle.
SendsComplete == Process!SendsComplete

=============================================================================
