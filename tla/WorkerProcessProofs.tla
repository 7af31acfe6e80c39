------------------------ MODULE WorkerProcessProofs ------------------------
(***************************************************************************)
(* What the broker guarantees of processes it does not trust: the life of  *)
(* a worker process, for pipes of any size and any number of events, and   *)
(* the composition with a tab whose processes are compromised.             *)
(***************************************************************************)
EXTENDS MCWorkerBridge, TLAPS

-----------------------------------------------------------------------------
(* One process *)

Confinement == child \in {"waiting", "answering"} => confined

ProcessIInv == Process!OnlyOwnChild /\ Confinement

LEMMA ProcessInitial == Process!Init => ProcessIInv
BY DEF Process!Init, Process!OnlyOwnChild, ProcessIInv, Confinement

\* Only the frame with the token opens a channel, and only the spawned process
\* has the token.
LEMMA OwnHello == Process!authenticates(Process!FirstFrame) => peer = "child"
BY DEF Process!authenticates, Process!FirstFrame

LEMMA RouterKeeps ==
  ASSUME ProcessIInv, Process!Router \/ Process!accept_fails \/ Process!remove \/ Process!Crash
  PROVE  ProcessIInv'
<1> USE DEF ProcessIInv, Confinement, Process!OnlyOwnChild
<1>1. CASE Process!Bind BY <1>1 DEF Process!Bind
<1>2. CASE Process!Spawn BY <1>2 DEF Process!Spawn
<1>3. CASE Process!accept BY <1>3 DEF Process!accept
<1>4. CASE Process!accept_fails BY <1>4 DEF Process!accept_fails
<1>5. CASE Process!handshake BY <1>5, OwnHello DEF Process!handshake
<1>6. CASE Process!handshake_fails BY <1>6 DEF Process!handshake_fails
<1>7. CASE Process!start_worker_fails
  BY <1>7 DEF Process!start_worker_fails, Process!drop, Process!Exit
<1>8. CASE Process!send BY <1>8 DEF Process!send
<1>9. CASE Process!remove BY <1>9 DEF Process!remove, Process!drop, Process!Exit
<1>10. CASE Process!Crash BY <1>10 DEF Process!Crash
<1> QED BY <1>1, <1>2, <1>3, <1>4, <1>5, <1>6, <1>7, <1>8, <1>9, <1>10 DEF Process!Router

LEMMA WorkerKeeps ==
  ASSUME ProcessIInv,
         Process!Worker \/ Process!reply_fails \/ Process!Dies \/ Process!Stranger
           \/ Process!reader_loop
  PROVE  ProcessIInv'
<1> USE DEF ProcessIInv, Confinement, Process!OnlyOwnChild, Process!Exit
<1>1. CASE Process!connect_stream BY <1>1 DEF Process!connect_stream
<1>2. CASE Process!connect_to_broker BY <1>2 DEF Process!connect_to_broker
<1>3. CASE Process!Confine BY <1>3 DEF Process!Confine, Process!confine_and_run
<1>4. CASE Process!recv BY <1>4 DEF Process!recv
<1>5. CASE Process!reply BY <1>5 DEF Process!reply
<1>6. CASE Process!reply_fails BY <1>6 DEF Process!reply_fails
<1>7. CASE Process!Dies BY <1>7 DEF Process!Dies
<1>8. CASE Process!Stranger BY <1>8 DEF Process!Stranger
<1>9. CASE Process!reader_loop BY <1>9 DEF Process!reader_loop
<1> QED BY <1>1, <1>2, <1>3, <1>4, <1>5, <1>6, <1>7, <1>8, <1>9 DEF Process!Worker

LEMMA ProcessInductive == ProcessIInv /\ [Process!Next]_processVars => ProcessIInv'
<1> SUFFICES ASSUME ProcessIInv, [Process!Next]_processVars PROVE ProcessIInv' OBVIOUS
<1>1. CASE Process!Next BY <1>1, RouterKeeps, WorkerKeeps DEF Process!Next
<1>2. CASE UNCHANGED processVars
  BY <1>2 DEF processVars, ProcessIInv, Confinement, Process!OnlyOwnChild
<1> QED BY <1>1, <1>2

-----------------------------------------------------------------------------
(* A tab whose processes write what they like *)

HP == INSTANCE WorkerBridgeProofs WITH
  Compromised <- TRUE, MaxDocs <- HostileDocs, MaxEvents <- HostileEvents, MaxWorkers <- HostileWorkers,
  doc <- h_doc, open <- h_open, inflight_timer_ticks <- h_inflight, events <- h_events,
  clicks <- h_clicks, logic_tx <- h_logic_tx, logic_rx <- h_logic_rx, routing <- h_routing,
  current <- h_current, workers <- h_workers, gestures <- h_gestures

\* The instance's constants are as WorkerBridge requires.
LEMMA HostileAssumption == HP!BridgeAssumption
BY BridgeAssumption, HostileBounds
   DEF BridgeAssumption, HostileBounds, UiEvent, UiKinds, HP!BridgeAssumption, HP!UiEvent, HP!UiKinds

\* The two instances of WorkerBridge, with its properties and with its proofs,
\* are of one system.
LEMMA SameInit == HP!Init <=> Hostile!Init
BY DEF HP!Init, Hostile!Init

LEMMA SameUi == HP!Ui <=> Hostile!Ui
BY DEF HP!Ui, HP!UserGesture, HP!UpdateVariable, HP!RootTimer, HP!Reload, HP!close_tab,
       HP!Dispatch, HP!may_dispatch_timer_tick, HP!drain_logic_worker_results,
       HP!release_timer_tick,
       Hostile!Ui, Hostile!UserGesture, Hostile!UpdateVariable, Hostile!RootTimer,
       Hostile!Reload, Hostile!close_tab, Hostile!Dispatch, Hostile!may_dispatch_timer_tick,
       Hostile!drain_logic_worker_results, Hostile!release_timer_tick

LEMMA SameRouter == HP!Router <=> Hostile!Router
BY DEF HP!Router, HP!RouteClose, HP!RouteRecord, HP!RouteStartFails, HP!RouteSend,
       HP!RouteSendFails, HP!Removed, HP!Records, HP!NewWorker, HP!of, HP!Error, HP!uiVars,
       Hostile!Router, Hostile!RouteClose, Hostile!RouteRecord, Hostile!RouteStartFails,
       Hostile!RouteSend, Hostile!RouteSendFails, Hostile!Removed, Hostile!Records,
       Hostile!NewWorker, Hostile!of, Hostile!Error, Hostile!uiVars

LEMMA SameProcess ==
  ASSUME NEW g
  PROVE  /\ HP!run(g) <=> Hostile!run(g)
         /\ HP!Dies(g) <=> Hostile!Dies(g)
         /\ HP!Forges(g) <=> Hostile!Forges(g)
         /\ HP!Reader(g) <=> Hostile!Reader(g)
<1> USE DEF HP!uiVars, Hostile!uiVars
<1>1. HP!run(g) <=> Hostile!run(g)
  BY DEF HP!run, HP!apply_event, HP!Answer, Hostile!run, Hostile!apply_event, Hostile!Answer
<1>2. HP!Dies(g) <=> Hostile!Dies(g) BY DEF HP!Dies, Hostile!Dies
<1>3. HP!Forges(g) <=> Hostile!Forges(g) BY DEF HP!Forges, Hostile!Forges
<1>4. HP!Reader(g) <=> Hostile!Reader(g)
  BY DEF HP!Reader, HP!reader_loop, HP!pop_front, HP!ReaderEnds, HP!Error,
         Hostile!Reader, Hostile!reader_loop, Hostile!pop_front, Hostile!ReaderEnds, Hostile!Error
<1> QED BY <1>1, <1>2, <1>3, <1>4

LEMMA SameNext == HP!Next <=> Hostile!Next
BY SameUi, SameRouter, SameProcess DEF HP!Next, Hostile!Next

LEMMA HostileInitial == Hostile!Init => HP!SpendIInv
BY HostileAssumption, SameInit, HP!SpendInit DEF HP!SpendInit, HP!BridgeAssumption

LEMMA HostileInductive == HP!SpendIInv /\ [Hostile!Next]_hostileVars => HP!SpendIInv'
<1>1. HP!SpendIInv /\ [HP!Next]_(HP!vars) => HP!SpendIInv'
  BY HostileAssumption, HP!SpendKept DEF HP!SpendKept, HP!BridgeAssumption
<1>2. UNCHANGED hostileVars => UNCHANGED HP!vars BY DEF hostileVars, HP!vars, HP!uiVars
<1> QED BY <1>1, <1>2, SameNext

LEMMA HostileSpends == HP!SpendIInv => Hostile!GesturesAreSpent
<1>1. HP!SpendIInv => HP!GesturesAreSpent
  BY HostileAssumption, HP!SpendMeans DEF HP!SpendMeans, HP!BridgeAssumption
<1> QED BY <1>1 DEF HP!GesturesAreSpent, Hostile!GesturesAreSpent

-----------------------------------------------------------------------------

\* spawn_worker, main of crates/worker and Gate G1, of processes that are not
\* trusted: whatever frames they write and whoever else connects, for pipes of
\* any size and any number of frames, events, documents and replacements, the
\* channel in use is the spawned process's, no event is taken from the pipe
\* before the sandbox is engaged, and no more gestures are granted than the
\* user made.
THEOREM UntrustedStaysContained == MCSpec => []UntrustedContained
<1> DEFINE Contained == ProcessIInv /\ HP!SpendIInv
<1>1. MCInit => Contained BY ProcessInitial, HostileInitial DEF MCInit
<1>2. Contained /\ [MCNext]_allVars => Contained'
  <2>1. [MCNext]_allVars => [Hostile!Next]_hostileVars /\ [Process!Next]_processVars
    BY DEF MCNext, Honestly, Alone, allVars
  <2> QED BY <2>1, ProcessInductive, HostileInductive
<1>3. Contained => UntrustedContained
  BY HostileSpends
     DEF ProcessIInv, Confinement, Process!ConfinedBeforeInput, UntrustedContained
<1>4. MCSpec => MCInit /\ [][MCNext]_allVars BY PTL DEF MCSpec
<1> HIDE DEF Contained
<1> QED BY <1>1, <1>2, <1>3, <1>4, PTL
=============================================================================
