---------------------------- MODULE SessionMirror ----------------------------
(***************************************************************************)
(* The window's side of a tab's logic, and what it relies on.  The UI      *)
(* thread keeps a store that mirrors the variables of the session in the   *)
(* worker process; only differences travel, over two FIFO channels, and a  *)
(* document may be replaced while events and responses of the one before   *)
(* it are still on their way.                                              *)
(*                                                                         *)
(* The UI's own steps are those of the code.  The session is abstract: it  *)
(* may compute anything, as long as a response reports every variable      *)
(* whose value is shown differently from before the event.  TabSession     *)
(* extends this module with the session of the code and implements it.     *)
(***************************************************************************)
EXTENDS Integers, Sequences

CONSTANTS
  Documents,   \* what may be loaded, as parsed and checked
  Shown(_),    \* what the UI makes of a value
  Unset,       \* the value of a variable that has none
  UrlValue     \* the value of window_url, which the load supplies

VARIABLES
  session,   \* the worker's: its document and evaluator
  tab,       \* the UI's: the document and its store, by symbol
  logic_tx,  \* events on their way to the worker
  logic_rx,  \* responses on their way back, each with the load it belongs to
  foreign,   \* history: symbols written since the load by another's response
  loads

mirrorVars == <<session, tab, logic_tx, logic_rx, foreign, loads>>

-----------------------------------------------------------------------------
\* The UI thread.

InitialStore(doc) ==
  [i \in DOMAIN doc.names |-> IF doc.names[i] = "window_url" THEN UrlValue ELSE Unset]

\* initial_variables: what the store holds that is not Null.
InitialVariables(doc) ==
  IF \E i \in DOMAIN doc.names : doc.names[i] = "window_url"
  THEN <<[name |-> "window_url", val |-> UrlValue]>> ELSE <<>>

\* reload_tab_document, and trigger_logic_reload at its end.
Load(doc) ==
  /\ tab' = [doc |-> doc, store |-> InitialStore(doc)]
  /\ logic_tx' = Append(logic_tx, [e |-> "Reload", doc |-> doc, initial |-> InitialVariables(doc),
                                   load |-> loads + 1])
  /\ loads' = loads + 1 /\ foreign' = {}
  /\ UNCHANGED <<session, logic_rx>>

\* A symbol the table does not have is stored and never read.
WrittenTo(store, vars) == {i \in DOMAIN store : \E m \in vars : m.sym = i}

Updated(store, vars) ==
  [i \in DOMAIN store |-> IF i \in WrittenTo(store, vars) THEN (CHOOSE m \in vars : m.sym = i).v ELSE store[i]]

\* One response of drain_logic_worker_results.
Receive ==
  /\ logic_rx # <<>>
  /\ logic_rx' = Tail(logic_rx)
  /\ LET r == Head(logic_rx)
     IN  /\ tab' = [doc |-> tab.doc, store |-> Updated(tab.store, r.vars)]
         /\ foreign' = IF r.load = loads THEN foreign ELSE foreign \cup WrittenTo(tab.store, r.vars)
  /\ UNCHANGED <<session, loads>>

-----------------------------------------------------------------------------
\* The session, of which only this is known.

\* The channel new is old with something sent on it.
Longer(new, old) ==
  /\ Len(new) \in Nat /\ Len(old) <= Len(new)
  /\ new = [i \in 1..Len(new) |-> IF i <= Len(old) THEN old[i] ELSE new[i]]

\* Gestures, ticks and answers: events other than a Reload.
EventsSent ==
  /\ Longer(logic_tx', logic_tx)
  /\ \A i \in (Len(logic_tx) + 1)..Len(logic_tx') : logic_tx'[i].e # "Reload"

\* The values of a document's variables, by symbol.
Held(doc, globals) == [i \in DOMAIN doc.names |-> globals[doc.names[i]]]

\* vars reports how the variables went from was to now: a variable left out is
\* shown as before, and one that had no value still has none.
Reported(vars, was, now) ==
  /\ \A m \in vars : m.sym \in DOMAIN now /\ m.v = now[m.sym]
  /\ \A i \in DOMAIN now :
       (\A m \in vars : m.sym # i) => Shown(now[i]) = Shown(was[i]) /\ (was[i] = Unset => now[i] = Unset)

\* session.rs: between events nothing is queued, so no action of a timer that
\* failed can leave with a click's response, under the click's gesture.
NothingLeftQueued == session.ev.acts = <<>> /\ session.ev.undo = <<>>

Takes ==
  /\ logic_tx # <<>>
  /\ logic_tx' = Tail(logic_tx)
  /\ UNCHANGED <<tab, foreign, loads>>
  /\ NothingLeftQueued'

\* One response, of the load that the session has now.
Responds(was) ==
  LET r == logic_rx'[Len(logic_rx) + 1]
  IN  /\ Longer(logic_rx', logic_rx) /\ Len(logic_rx') = Len(logic_rx) + 1
      /\ r.load = session'.load
      /\ Reported(r.vars, was, Held(session'.doc, session'.ev.globals))

TakesReload ==
  /\ Takes /\ Head(logic_tx).e = "Reload"
  /\ session'.doc = Head(logic_tx).doc /\ session'.load = Head(logic_tx).load
  /\ Responds(InitialStore(Head(logic_tx).doc))

TakesEvent ==
  /\ Takes /\ Head(logic_tx).e # "Reload"
  /\ session'.doc = session.doc /\ session'.load = session.load
  /\ \/ Responds(Held(session.doc, session.ev.globals))
     \/ UNCHANGED <<session.ev.globals, logic_rx>>

-----------------------------------------------------------------------------

MirrorInit ==
  /\ session.load = 0 /\ session.doc.names = <<>> /\ NothingLeftQueued
  /\ tab = [doc |-> session.doc, store |-> <<>>]
  /\ logic_tx = <<>> /\ logic_rx = <<>> /\ foreign = {} /\ loads = 0

MirrorNext ==
  \/ \E doc \in Documents : Load(doc)
  \/ EventsSent /\ Receive
  \/ EventsSent /\ UNCHANGED <<session, tab, logic_rx, foreign, loads>>
  \/ TakesReload
  \/ TakesEvent

\* What TabSession promises the window: a run checks that the session of the
\* code, with the evaluator and the undo log behind it, takes no other steps.
MirrorSpec == MirrorInit /\ [][MirrorNext]_mirrorVars

-----------------------------------------------------------------------------
(* Properties *)

Settled == logic_tx = <<>> /\ logic_rx = <<>> /\ session.load = loads

\* idle.rs, drain_logic_worker_results: once every event is worked off, the UI
\* shows what the session holds, although only differences travel and a
\* response of the document before may have written over the new store.  Such
\* a write can stand only on a variable that the new document has never given
\* a value of its own, or on one the load itself supplied.
UiShowsSession ==
  Settled => \A i \in DOMAIN tab.doc.names :
    LET s == tab.doc.names[i]
    IN  i \notin foreign \/ (session.ev.globals[s] # Unset /\ s # "window_url")
          => Shown(tab.store[i]) = Shown(session.ev.globals[s])

=============================================================================
