----------------------------- MODULE TabSession -----------------------------
(***************************************************************************)
(* The logic of one tab, from input to screen: the session that the worker *)
(* process keeps (parser/logic_worker/session.rs), with the store the UI   *)
(* thread mirrors it in and the two channels of SessionMirror, which this  *)
(* module implements.                                                      *)
(*                                                                         *)
(* Network answers, too, may arrive when another document has been loaded. *)
(* Variables travel to the UI as symbols, positions in the interner's      *)
(* table, and back as names.  What the bridge does on the way is modelled  *)
(* by WorkerBridge, and what becomes of the actions by TabNavigation,      *)
(* LocalStorage and NetworkWorker.                                         *)
(***************************************************************************)
EXTENDS StaticChecks, SessionMirror

CONSTANTS
  EQ_BUDGET_PER_VARIABLE,
  Answers,          \* values the network may answer with
  Typed,            \* fields a form may be submitted with
  MaxInputs         \* bound: gestures, ticks and loads of one behaviour

VARIABLES
  calls,     \* target variables of the calls the network has not answered
  written,   \* history: comps the session was told to write since its load
  inputs

sessionVars == <<mirrorVars, calls, written, inputs>>

-----------------------------------------------------------------------------
\* The session's operations.  Each returns its response, if there is one, and
\* the evaluator it leaves.

SymbolOf(doc, s) == CHOOSE i \in DOMAIN doc.names : doc.names[i] = s

CompNames(doc) == {doc.comps[i].name : i \in DOMAIN doc.comps}

Respond(ok, vars, acts, gesture) == [ok |-> ok, vars |-> vars, acts |-> acts, gesture |-> gesture]

\* Mutation: the last of several old values is compared.
last_value(ev, s) == ev.undo[Max({i \in DOMAIN ev.undo : ev.undo[i].s = s})].old

\* What a variable was before the event.
ValueBefore(ev, s) == ev.undo[Min({i \in DOMAIN ev.undo : ev.undo[i].s = s})].old

\* What changed since the undo log was cleared; a variable too large to compare
\* within the budget counts as changed.  Calls keep their aliases, which the
\* broker resolves.
build_response(doc, ev, gesture) ==
  LET touched == {ev.undo[i].s : i \in DOMAIN ev.undo}
      same(s) == budget_eq(ValueBefore(ev, s), ev.globals[s], 0, EQ_BUDGET_PER_VARIABLE).r
      vars == {[sym |-> SymbolOf(doc, s), v |-> ev.globals[s]] : s \in {x \in touched : same(x) # Ok(TRUE)}}
  IN  [resp |-> <<Respond(TRUE, vars, ev.acts, gesture)>>, ev |-> [ev EXCEPT !.undo = <<>>, !.acts = <<>>]]

ClearUndo(ev) == [ev EXCEPT !.undo = <<>>]

recompute_after_mutation(doc, ev) ==
  IF doc.comps = <<>> THEN ev
  ELSE recompute_computed_bindings(ev, doc.comps, doc.fns, {ev.undo[i].s : i \in DOMAIN ev.undo},
                                   build_comp_reverse_index(doc.comps))

\* Mutation: the actions that a failed event queued stay.
rollback_keeps_actions(ev, before) ==
  [ev EXCEPT !.globals = FoldLeft(LAMBDA g, u : [g EXCEPT ![u.s] = u.old], @, Reverse(ev.undo)), !.undo = <<>>]

\* Globals and queued actions are restored; locals are not.
Rollback(ev, before) ==
  [ev EXCEPT !.globals = FoldLeft(LAMBDA g, u : [g EXCEPT ![u.s] = u.old], @, Reverse(ev.undo)),
             !.acts = SubSeq(@, 1, Len(before.acts)),
             !.undo = <<>>]

\* What follows an action that left o: a failed one is rolled back.
RespondTo(o, doc, before, gesture) ==
  IF o.r.ok THEN build_response(doc, recompute_after_mutation(doc, o.ev), gesture)
  ELSE [resp |-> <<Respond(FALSE, {}, <<>>, gesture)>>, ev |-> Rollback(o.ev, before)]

execute_action_and_build(doc, ev, action, gesture) ==
  RespondTo(execute_action(action, doc.fns, ClearUndo(ev)), doc, ev, gesture)

\* $form first, then every field that names a variable, then the action, whose
\* failure is only logged.
Submitted(doc, node, filled) ==
  IF node \in DOMAIN doc.submits THEN execute_action(doc.submits[node], doc.fns, filled).ev ELSE filled

SubmitForm(doc, ev, node, fields) ==
  LET pairs == [i \in DOMAIN fields |-> [key |-> fields[i].key, val |-> fields[i].val]]
      form == set_runtime(ClearUndo(ev), "$form", record_from_unsorted(pairs))
      filled == FoldLeft(LAMBDA acc, f : set_runtime(acc, f.name, f.val), form, fields)
  IN  build_response(doc, recompute_after_mutation(doc, Submitted(doc, node, filled)), TRUE)

UpdateVariable(doc, ev, name, value) ==
  build_response(doc, recompute_after_mutation(doc, set_runtime(ClearUndo(ev), name, value)), FALSE)

\* Zero-parameter functions, in the order a hash map yields them; one that
\* fails leaves its variable Null.
LoadFunctions(doc, ev, order) ==
  LET keep(o, f) == IF o.r.ok THEN set_global(o.ev, f, o.r.v) ELSE o.ev
  IN  FoldLeft(LAMBDA acc, f : keep(evaluate(doc.fns[f].body, 0, doc.fns, [acc EXCEPT !.n = 0]), f), ev, order)

ZeroArg(doc) == {f \in DOMAIN doc.fns : doc.fns[f].params = <<>>}

apply_reload(doc, initial, order) ==
  LET new == NewEvaluator(NamesOf(doc), CompNames(doc))
      seeded == FoldLeft(LAMBDA acc, p : set_runtime(acc, p.name, p.val), new, initial)
      loaded == LoadFunctions(doc, ClearUndo(seeded), order)
  IN  build_response(doc, recompute_computed_bindings(loaded, doc.comps, doc.fns, NamesOf(doc),
                                                      build_comp_reverse_index(doc.comps)), FALSE)

Silent(ev) == [resp |-> <<>>, ev |-> ev]

\* apply_event, for every event but Reload.
apply_event(doc, ev, e) ==
  CASE e.e = "Click" -> IF e.node \in DOMAIN doc.clicks
                        THEN execute_action_and_build(doc, ev, doc.clicks[e.node], TRUE) ELSE Silent(ev)
    [] e.e = "RootTimer" -> IF e.index \in DOMAIN doc.timers
                            THEN execute_action_and_build(doc, ev, doc.timers[e.index], FALSE) ELSE Silent(ev)
    [] e.e = "SubmitForm" -> SubmitForm(doc, ev, e.node, e.fields)
    [] e.e = "UpdateVariable" -> UpdateVariable(doc, ev, e.name, e.value)

-----------------------------------------------------------------------------
\* The UI thread.

Send(es) == logic_tx' = logic_tx \o es

EmptyDoc == [names |-> <<>>, fns |-> <<>>, comps |-> <<>>, clicks |-> <<>>, submits |-> <<>>, timers |-> <<>>]

SessionInit ==
  /\ session = [doc |-> EmptyDoc, ev |-> NewEvaluator({}, {}), load |-> 0]
  /\ tab = [doc |-> EmptyDoc, store |-> <<>>]
  /\ logic_tx = <<>> /\ logic_rx = <<>> /\ calls = {} /\ foreign = {} /\ written = {}
  /\ loads = 0 /\ inputs = 0

Input == inputs < MaxInputs /\ inputs' = inputs + 1

ReloadTab(doc) == Input /\ Load(doc) /\ UNCHANGED <<calls, written>>

Dispatch(e) ==
  /\ Input
  /\ Send(<<e>>)
  /\ UNCHANGED <<session, tab, logic_rx, calls, foreign, written, loads>>

dispatch_click_gesture(node) == Dispatch([e |-> "Click", node |-> node])
dispatch_form_submit(node, fields) == Dispatch([e |-> "SubmitForm", node |-> node, fields |-> fields])
\* The admission of ticks is WorkerBridge's.
TimerTick(i) == Dispatch([e |-> "RootTimer", index |-> i])

\* execute_capability_action, for the actions that come back: the target is
\* the name its symbol has in the document shown now.
CallTargets(doc, acts) ==
  {doc.names[acts[i].sym] : i \in {j \in DOMAIN acts : acts[j].kind = "NetworkCall"
                                                        /\ acts[j].sym \in DOMAIN doc.names}}

Clock == Int_(1)

TimeUpdates(doc, acts) ==
  LET timed == SelectSeq(acts, LAMBDA a : a.kind = "GetSystemTime" /\ a.sym \in DOMAIN doc.names)
  IN  [i \in DOMAIN timed |-> [e |-> "UpdateVariable", name |-> doc.names[timed[i].sym], value |-> Clock]]

\* drain_logic_worker_results, with what its actions start.
Drain ==
  /\ Receive
  /\ calls' = calls \cup CallTargets(tab.doc, Head(logic_rx).acts)
  /\ Send(TimeUpdates(tab.doc, Head(logic_rx).acts))
  /\ UNCHANGED <<written, inputs>>

\* process_network_result: an answer names its variable, and whichever document
\* the session has by then takes it.
Answered(target, value) ==
  /\ target \in calls
  /\ calls' = calls \ {target}
  /\ Send(<<[e |-> "UpdateVariable", name |-> target, value |-> value],
            [e |-> "UpdateVariable", name |-> "stato_navigazione", value |-> String(<<67>>)]>>)
  /\ UNCHANGED <<session, tab, logic_rx, foreign, written, loads, inputs>>

FetchFailed(target) ==
  /\ target \in calls
  /\ calls' = calls \ {target}
  /\ Send(<<[e |-> "UpdateVariable", name |-> target, value |-> String(<<101>>)]>>)
  /\ UNCHANGED <<session, tab, logic_rx, foreign, written, loads, inputs>>

-----------------------------------------------------------------------------
\* The worker process: one event, one response or none.

WithSymbols(doc, resp) ==
  [resp EXCEPT !.acts = [i \in DOMAIN @ |->
     IF @[i].kind \in {"NetworkCall", "GetSystemTime"}
     THEN [kind |-> @[i].kind, sym |-> SymbolOf(doc, @[i].target)] ELSE @[i]]]

Deliver(load, doc, out) ==
  logic_rx' = logic_rx \o [i \in DOMAIN out.resp |->
                             WithSymbols(doc, out.resp[i]) @@ [load |-> load]]

\* Variables an event writes by name, with no look at what they are.
NamesWritten(e) ==
  CASE e.e = "UpdateVariable" -> {e.name}
    [] e.e = "SubmitForm" -> {e.fields[i].name : i \in DOMAIN e.fields}
    [] OTHER -> {}

WorkerReload(order) ==
  /\ logic_tx # <<>> /\ Head(logic_tx).e = "Reload"
  /\ LET e == Head(logic_tx)
     IN  /\ order \in SetToSeqs(ZeroArg(e.doc))
         /\ \E out \in {apply_reload(e.doc, e.initial, order)} :
              /\ session' = [doc |-> e.doc, ev |-> out.ev, load |-> e.load]
              /\ Deliver(e.load, e.doc, out)
         /\ written' = {}
  /\ logic_tx' = Tail(logic_tx)
  /\ UNCHANGED <<tab, calls, foreign, loads, inputs>>

WorkerEvent ==
  /\ logic_tx # <<>> /\ Head(logic_tx).e # "Reload"
  /\ \E out \in {apply_event(session.doc, session.ev, Head(logic_tx))} :
         /\ session' = [session EXCEPT !.ev = out.ev]
         /\ Deliver(session.load, session.doc, out)
  /\ written' = written \cup (NamesWritten(Head(logic_tx)) \cap CompNames(session.doc))
  /\ logic_tx' = Tail(logic_tx)
  /\ UNCHANGED <<tab, calls, foreign, loads, inputs>>

SessionNext ==
  \/ \E doc \in Documents : ReloadTab(doc)
  \/ \E n \in DOMAIN tab.doc.clicks : dispatch_click_gesture(n)
  \/ \E n \in DOMAIN tab.doc.submits, fields \in Typed : dispatch_form_submit(n, fields)
  \/ \E i \in DOMAIN tab.doc.timers : TimerTick(i)
  \/ Drain
  \/ \E s \in calls, v \in Answers : Answered(s, v)
  \/ \E s \in calls : FetchFailed(s)
  \/ \E order \in UNION {SetToSeqs(ZeroArg(d)) : d \in Documents} : WorkerReload(order)
  \/ WorkerEvent

SessionSpec == SessionInit /\ [][SessionNext]_sessionVars

-----------------------------------------------------------------------------
(* Properties *)

\* comp.rs: between events every computed variable has the value its
\* expression has now, in whatever order changes reached it, unless evaluating
\* it fails, a leftover parameter shadows what it reads, or an event wrote to
\* the variable by name.
Current(c) ==
  \A now \in {evaluate(c.e, 0, session.doc.fns, [session.ev EXCEPT !.n = 0]).r} :
    now.ok => session.ev.globals[c.name] = now.v

CompsAreFresh ==
  session.ev.locals = <<>> =>
    \A i \in DOMAIN session.doc.comps : session.doc.comps[i].name \notin written => Current(session.doc.comps[i])

=============================================================================
