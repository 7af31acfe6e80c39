------------------------------ MODULE Language ------------------------------
(***************************************************************************)
(* What the document language promises of its pure operators, each checked *)
(* against a reference over bounded inputs: exact numbers across JSON, one *)
(* order for sorting and comparing, metering that only ever times out,     *)
(* incremental recomputation, load-time checks that hold at run time, a    *)
(* worker process that computes what the document says, and a parser that  *)
(* reads the documented grammar.                                           *)
(*                                                                         *)
(* A behaviour is one of TabSession, or chooses one input and stops.       *)
(***************************************************************************)
EXTENDS Parser

CONSTANTS
  Scalars,      \* values without parts
  Samples,      \* values compared with one another
  Lists,        \* lists of records to sort, on the field SortField
  SortField,
  Programs,     \* documents whose expressions are evaluated
  Scenarios,    \* documents with the events to run them through
  Texts,        \* texts to interpolate, with overlay and store
  Budgets,      \* instruction counts an evaluation may start from
  WireTrees,    \* expression trees a frame may hold
  Forms,        \* fields of forms sent to a worker process
  Sentences,    \* tokens to parse
  Blocks,       \* logic blocks, as sequences of items
  WrittenActions, Registry

VARIABLE probe

None == [kind |-> "none"]

Start(p) == probe' = p /\ UNCHANGED sessionVars

\* Values of one and two levels, records in key order.
RECURSIVE Nested(_)
Nested(n) == IF n = 0 THEN Null ELSE List(<<Nested(n - 1)>>)

JsonValues ==
  Scalars \cup {Nested(n) : n \in 1..(MAX_JSON_DEPTH + 1)}
    \cup {List(l) : l \in UNION {[1..n -> Scalars] : n \in 0..2}}
    \cup {Record(<<[key |-> <<1>>, val |-> x], [key |-> <<2>>, val |-> List(<<y, y>>)]>>) : x, y \in Scalars}

ProbeJson(v) == Start([kind |-> "json", v |-> v])
ProbeOrder(a, b, c) == Start([kind |-> "order", a |-> a, b |-> b, c |-> c])
ProbeSort(l, d) == Start([kind |-> "sort", l |-> l, d |-> d])
ProbeEval(doc, e, n) == Start([kind |-> "eval", doc |-> doc, e |-> e, n |-> n])
ProbeComps(doc, mutated, v) == Start([kind |-> "comps", doc |-> doc, mutated |-> mutated, v |-> v])
ProbeFlow(s, v, w) == Start([kind |-> "flow", doc |-> s.doc, events |-> s.events, v |-> v, w |-> w])
ProbeText(t) == Start([kind |-> "text", t |-> t])
ProbeTree(t) == Start([kind |-> "tree", t |-> t])
ProbeWire(doc, e) == Start([kind |-> "wire", doc |-> doc, e |-> e])
ProbeCut(doc, vectors) == Start([kind |-> "cut", doc |-> doc, vectors |-> vectors])
ProbeSentence(s) == Start([kind |-> "sentence", s |-> s])
ProbeBlock(items) == Start([kind |-> "block", items |-> items])
ProbeAction(w) == Start([kind |-> "action", w |-> w])

EventsFor(doc) ==
  {[e |-> "Click", node |-> i] : i \in 1..(Len(doc.clicks) + 1)}
    \cup {[e |-> "RootTimer", index |-> i] : i \in 1..(Len(doc.timers) + 1)}
    \cup [e : {"SubmitForm"}, node : 1..(Len(doc.submits) + 1), fields : Forms]
    \cup [e : {"UpdateVariable"}, name : NamesOf(doc),
          value : Samples \cup {Nested(n) : n \in 1..(MAX_VALUE_DEPTH + 2)}]

LanguageInit == probe = None /\ SessionInit

Probe ==
  /\ probe = None /\ inputs = 0
  /\ \/ \E v \in JsonValues : ProbeJson(v)
     \/ \E a, b, c \in Samples : ProbeOrder(a, b, c)
     \/ \E l \in Lists, d \in {"asc", "desc"} : ProbeSort(l, d)
     \/ \E doc \in Programs : \E e \in AllExprs(doc), n \in Budgets : ProbeEval(doc, e, n)
     \/ \E doc \in Programs : \E a, b \in NamesOf(doc), v \in Answers : ProbeComps(doc, {a, b}, v)
     \/ \E s \in Scenarios, v, w \in Answers : ProbeFlow(s, v, w)
     \/ \E t \in Texts : ProbeText(t)
     \/ \E t \in WireTrees : ProbeTree(t)
     \/ \E doc \in Programs : \E e \in EventsFor(doc) : ProbeWire(doc, e)
     \/ \E doc \in Programs, p \in Vectors : ProbeCut(doc, p)
     \/ \E s \in Sentences : ProbeSentence(s)
     \/ \E items \in Blocks : ProbeBlock(items)
     \/ \E w \in WrittenActions : ProbeAction(w)

LanguageNext == Probe \/ (probe = None /\ SessionNext /\ UNCHANGED probe)

LanguageSpec == LanguageInit /\ [][LanguageNext]_<<probe, sessionVars>>

-----------------------------------------------------------------------------
(* Properties *)

RECURSIVE Nodes(_), Depth(_), HasFile(_)
Parts(v) == IF v.t = "list" THEN v.l ELSE IF v.t = "rec" THEN [i \in DOMAIN v.f |-> v.f[i].val] ELSE <<>>
Nodes(v) == 1 + FoldLeft(LAMBDA a, x : a + Nodes(x), 0, Parts(v))
Depth(v) == IF Parts(v) = <<>> THEN 0 ELSE 1 + Max({Depth(Parts(v)[i]) : i \in DOMAIN Parts(v)})
HasFile(v) == v.t = "file" \/ \E i \in DOMAIN Parts(v) : HasFile(Parts(v)[i])

\* value.rs: a value that is stored or sent comes back the same, every digit of
\* a Decimal included, unless it holds a file or passes the limits on depth
\* and nodes, and then it is refused.
JsonRoundTrips ==
  probe.kind = "json" =>
    LET j == to_json(probe.v)
        back == from_json_str(j.v)
    IN  IF HasFile(probe.v) THEN ~j.ok
        ELSE /\ j.ok
             /\ Nodes(probe.v) <= MAX_JSON_NODES /\ Depth(probe.v) <= MAX_JSON_DEPTH
                  => back = Ok(probe.v)
             /\ Nodes(probe.v) > MAX_JSON_NODES => ~back.ok
             /\ from_json_slice(j.v, TRUE, Nodes(probe.v)) =
                  IF Depth(probe.v) <= MAX_JSON_DEPTH THEN Ok(probe.v) ELSE Err("SecurityViolation")

\* compare.rs and eval.rs: one total preorder over all values, in which equal
\* is what the metered equality finds equal, so that sort and == agree.
OneOrder ==
  probe.kind = "order" =>
    LET a == probe.a
        b == probe.b
        c == probe.c
        lt == apply_binop("lt", a, b, 0, 1000).r
    IN  /\ Compare(a, b) = -Compare(b, a)
        /\ Compare(a, b) <= 0 /\ Compare(b, c) <= 0 => Compare(a, c) <= 0
        /\ ~HasFile(a) /\ ~HasFile(b) => (Compare(a, b) = 0) = budget_eq(a, b, 0, 1000).r.v
        /\ lt.ok => lt.v = Bool(Compare(a, b) < 0)

\* evaluate.rs, sort: a permutation, ordered by the field, items of equal
\* field in the order they had, whichever the direction.
SortIsStable ==
  probe.kind = "sort" =>
    LET ev == [NewEvaluator({}, {}) EXCEPT !.n = 0]
        out == sort(List(probe.l), String(SortField), [t |-> "str", s |-> probe.d], ev)
        key(x) == get_field(x, SortField)
        Stands(x, s) == {i \in DOMAIN s : s[i] = x}
        o == out.r.v.l
        at(i, j) == LET c == compare_values(key(o[i]), key(o[j])) IN IF probe.d = "desc" THEN -c ELSE c
    IN  out.r.ok =>
          /\ Len(o) = Len(probe.l)
          /\ \A x \in Range(probe.l) : Cardinality(Stands(x, o)) = Cardinality(Stands(x, probe.l))
          /\ \A i, j \in DOMAIN o : i < j => at(i, j) <= 0
          /\ \A i, j \in DOMAIN o : i < j /\ at(i, j) = 0 =>
               \E k \in Stands(o[i], probe.l), m \in Stands(o[j], probe.l) : k < m

\* compare.rs and evaluate.rs: one order, which == and sort follow.
SortFollowsOrder == OneOrder /\ SortIsStable

\* A document loaded in the order of its table.
Loaded(doc) == apply_reload(doc, <<>>, SelectSeq(doc.names, LAMBDA f : f \in ZeroArg(doc))).ev

\* eval/mod.rs: the instruction budget changes no result, it only ends an
\* evaluation; and a result found leaves no binding or depth behind.
BudgetOnlyTimesOut ==
  probe.kind = "eval" =>
    \A ev \in {[Loaded(probe.doc) EXCEPT !.n = 0]} :
      \A free \in {evaluate(probe.e, 0, probe.doc.fns, ev)},
         metered \in {evaluate(probe.e, 0, probe.doc.fns, [ev EXCEPT !.n = probe.n])} :
        /\ metered.r = Err("Timeout") \/ metered.r = free.r
        /\ metered.r.ok => metered.ev.locals = ev.locals /\ metered.ev.n - probe.n = free.ev.n
        /\ metered.ev.depth = ev.depth

\* A sum is in the expression, or in that of a comp it reads.
RECURSIVE Adds(_, _)
Adds(e, comps) ==
  LET others == SelectSeq(comps, LAMBDA c : c.name # e.s)
  IN  \/ e.k = "bin" /\ e.op = "add"
      \/ e.k = "var" /\ \E c \in Range(comps) : c.name = e.s /\ Adds(c.e, others)
      \/ \E i \in DOMAIN SubExprs(e) : Adds(SubExprs(e)[i], comps)

\* typecheck: an expression that is given a type evaluates to a value of it;
\* only a sum, which may be one of strings, is taken for a number, and so is
\* a comp that is one wherever it is read.
InferredTypesHold ==
  probe.kind = "eval" =>
    LET env == CompTypes(probe.doc).v
    IN  check_types(probe.doc) =>
          \A ty \in {infer(probe.e, env, probe.doc.fns)},
             r \in {evaluate(probe.e, 0, probe.doc.fns, [Loaded(probe.doc) EXCEPT !.n = 0]).r} :
            ty.ok /\ ty.v # <<>> /\ r.ok =>
              check_type(r.v, ty.v[1]) \/ (r.v.t = "str" /\ ty.v[1] = Num /\ Adds(probe.e, probe.doc.comps))

\* purity.rs: an expression that is accepted queues no action, unless a
\* function it reaches has an effectful body.
PureQueuesNothing ==
  probe.kind = "eval" =>
    LET fns == probe.doc.fns
        ev == [Loaded(probe.doc) EXCEPT !.n = 0]
        bodies == {fns[f].body : f \in Reached(collect_calls(probe.e, DOMAIN fns), fns)}
    IN  (\A e \in bodies \cup {probe.e} : find_side_effect_call(e, fns) = {})
          => evaluate(probe.e, 0, fns, ev).ev.acts = <<>>

\* comp.rs: the worklist over the reverse index computes exactly what a scan
\* of every binding does, also when a pool runs dry on the way; and functions
\* and comps that pass the checks for cycles are evaluated without one.  Comps
\* of one name are out of it: the sort orders only the later of them.
IncrementalIsNaive ==
  probe.kind = "comps" =>
    LET doc == probe.doc
        after(ev) == [ev EXCEPT !.globals =
                       [s \in DOMAIN @ |-> IF s \in probe.mutated \ CompNames(doc) THEN probe.v ELSE @[s]]]
    IN  check_dag(doc.fns) /\ IsInjective([i \in DOMAIN doc.comps |-> doc.comps[i].name]) =>
          \A ev \in {ClearUndo(after(Loaded(doc)))} :
            \A inc \in {recompute_computed_bindings(ev, doc.comps, doc.fns, probe.mutated,
                                                    build_comp_reverse_index(doc.comps))},
               ref \in {naive_scan(ev, doc.comps, doc.fns, probe.mutated)} :
              inc.globals = ref.globals /\ inc.acts = ref.acts

\* comp.rs: computed variables have the values their expressions have, in a
\* running session and against the scan of every binding.
CompsAreRight == CompsAreFresh /\ IncrementalIsNaive

\* The navigations timers cause when the network answers with v.
RECURSIVE RunFrom(_, _, _, _, _)
RunFrom(doc, events, v, ev, went) ==
  LET e == Head(events)
      after(out) ==
        RunFrom(doc, Tail(events), v, out.ev,
                IF e.e = "RootTimer" /\ out.resp # <<>> THEN Append(went, out.resp[1].acts) ELSE went)
  IN  IF events = <<>> THEN [ev |-> ev, went |-> went]
      ELSE after(apply_event(doc, ev, IF e.e = "UpdateVariable" THEN [e EXCEPT !.value = v] ELSE e))

RunWith(doc, events, v) == RunFrom(doc, events, v, Loaded(doc), <<>>)

\* flow/check.rs, F1: in a document that is accepted, where a timer navigates
\* to does not depend on what the network answered, whatever happened before,
\* as long as no call failed its parameter check.
AcceptedFlowsAreSound ==
  probe.kind = "flow" /\ check_information_flow(probe.doc).ok =>
    LET navigations(acts) == SelectSeq(acts, LAMBDA a : a.kind = "Navigate")
        visited(run) == [i \in DOMAIN run.went |-> navigations(run.went[i])]
        doc == check_information_flow(probe.doc).v
    IN  \A runs \in {[x \in {probe.v, probe.w} |-> RunWith(doc, probe.events, x)]} :
          (\A x \in DOMAIN runs : runs[x].ev.locals = <<>>) => visited(runs[probe.v]) = visited(runs[probe.w])

\* What the checks of a document say before it runs holds when it does: its
\* types, its purity and its flows.
ChecksHoldAtRunTime == InferredTypesHold /\ PureQueuesNothing /\ AcceptedFlowsAreSound

\* interpolate.rs: what is shown never passes the cap, and is the whole text
\* whenever that fits.
InterpolationCapped ==
  probe.kind = "text" =>
    LET t == probe.t
        whole == FlattenSeq([i \in DOMAIN t.text |->
                   IF t.text[i].plain THEN t.text[i].raw ELSE Placeholder(t.text[i], t.overlay, t.lookup)])
    IN  \A out \in {interpolate_into_with_overlay(t.text, t.overlay, t.lookup)} :
          /\ Len(out.v) <= MAX_INTERPOLATED_BYTES
          /\ out.ok <=> Len(whole) <= MAX_INTERPOLATED_BYTES
          /\ IsPrefix(out.v, whole) /\ (out.ok => out.v = whole)

\* A limit on steps or on length ends or cuts, and changes nothing else.
LimitsOnlyCut == BudgetOnlyTimesOut /\ InterpolationCapped

\* Every node an evaluation of so many levels asks for is there.
RECURSIVE Resolves(_, _, _)
Resolves(tree, id, depth) ==
  LET node == tree.nodes[id + 1]
      window == (node.args_start + 1)..(node.args_start + node.args_len)
  IN  /\ id < Len(tree.nodes)
      /\ depth > 0 =>
           IF node.k = "call"
           THEN \A i \in window : i \in DOMAIN tree.args_pool /\ Resolves(tree, tree.args_pool[i], depth - 1)
           ELSE \A x \in Range(Operands[node.k]) : Resolves(tree, node[x], depth - 1)

\* rehydrate.rs, rehydrate_expr_tree: an evaluation of a tree that is accepted
\* finds every node it asks for, and the depth limit ends it if the tree has a
\* cycle: the result does not depend on what is below that depth.
AcceptedTreesAreTotal ==
  probe.kind = "tree" =>
    LET t == rehydrate_expr_tree(probe.t)
        ending(v) == evaluate(Walk(t.v, t.v.root, MAX_EVAL_DEPTH, [k |-> "lit", v |-> v]), 0, <<>>, NewEvaluator({}, {}))
    IN  t.ok => /\ Resolves(t.v, t.v.root, MAX_EVAL_DEPTH)
                /\ ending(Int_(1)) = ending(String(<<>>))

\* An arena that holds an expression, parts before the whole.
RECURSIVE Build(_, _)
Build(e, arena) ==
  LET part(acc, x) == LET b == Build(x, acc.arena) IN [arena |-> b.arena, ids |-> Append(acc.ids, b.id)]
      parts == FoldLeft(part, [arena |-> arena, ids |-> <<>>], SubExprs(e))
      at(x) == parts.ids[CHOOSE i \in DOMAIN parts.ids : Operands[e.k][i] = x]
      window == push_args(parts.arena, parts.ids)
  IN  IF e.k # "call" THEN alloc(parts.arena, WithOperands(e, at))
      ELSE alloc(window.arena, [k |-> "call", f |-> e.f, args_start |-> window.start, args_len |-> Len(parts.ids)])

ExprTree(e) == LET b == Build(e, EmptyArena) IN b.arena @@ [root |-> b.id]

\* A document as it is sent, and as the session that receives it walks it.
Sent(doc) ==
  LET trees(acts) == Each(acts, LAMBDA a : OnTrees(a, ExprTree))
  IN  [names |-> doc.names, fns |-> [f \in DOMAIN doc.fns |-> [doc.fns[f] EXCEPT !.body = ExprTree(@)]],
       comps |-> Each(doc.comps, LAMBDA c : [c EXCEPT !.e = ExprTree(@)]),
       clicks |-> trees(doc.clicks), submits |-> trees(doc.submits), timers |-> trees(doc.timers),
       initial |-> InitialVariables(doc),
       urls |-> [s \in {"api"} \cap NamesOf(doc) |-> [kind |-> "api", raw_target |-> "/"]]]

AsWalked(p) ==
  LET walk(t) == Walk(t, t.root, MAX_EVAL_DEPTH + 1, [k |-> "lit", v |-> Null])
      walked(acts) == Each(acts, LAMBDA a : OnTrees(a, walk))
  IN  [names |-> p.names, fns |-> [f \in DOMAIN p.fns |-> [p.fns[f] EXCEPT !.body = walk(@)]],
       comps |-> Each(p.comps, LAMBDA c : [c EXCEPT !.e = walk(@)]),
       clicks |-> walked(p.clicks), submits |-> walked(p.submits), timers |-> walked(p.timers)]

EventValues(e) ==
  CASE e.e = "UpdateVariable" -> {e.value} [] e.e = "SubmitForm" -> {f.val : f \in Range(e.fields)} [] OTHER -> {}

RECURSIVE WithoutFiles(_)
WithoutFiles(v) ==
  CASE v.t = "file" -> Null
    [] v.t = "list" -> List(Each(v.l, WithoutFiles))
    [] v.t = "rec" -> Record(Each(v.f, LAMBDA f : [f EXCEPT !.val = WithoutFiles(f.val)]))
    [] OTHER -> v

EventWithoutFiles(e) ==
  CASE e.e = "UpdateVariable" -> [e EXCEPT !.value = WithoutFiles(@)]
    [] e.e = "SubmitForm" -> [e EXCEPT !.fields = Each(@, LAMBDA f : [f EXCEPT !.val = WithoutFiles(f.val)])]
    [] OTHER -> e

\* crates/worker, run: a document loaded and run across the process boundary
\* answers every event as a session in the browser's process would, save that
\* a file arrives as Null; and an event whose value is too deep is refused
\* with the session as it was.
SandboxChangesNothing ==
  probe.kind = "wire" =>
    \A reload \in {rehydrate_ui_event(WireUiEvent([e |-> "Reload", payload |-> Sent(probe.doc)]))} :
      /\ reload.ok /\ reload.v.payload.initial = InitialVariables(probe.doc)
      /\ \A jailed \in {AsWalked(reload.v.payload)} : \A before \in {Loaded(jailed)} :
           \A w \in {worker_run(jailed, before, WireUiEvent(probe.e))},
              here \in {apply_event(probe.doc, Loaded(probe.doc), EventWithoutFiles(probe.e))} :
             IF \E v \in EventValues(probe.e) : Depth(v) > MAX_VALUE_DEPTH
             THEN w = [env |-> [kind |-> "Err"], ev |-> before]
             ELSE /\ w.env.kind = Envelope(here).kind
                  /\ w.env.kind = "Ok" => rehydrate_worker_response(w.env.r) = Ok(here.resp[1])
                  /\ w.ev = here.ev

\* rehydrate.rs: keys and values travel in separate vectors, and where one has
\* lost its end the whole frame is refused, never the entries without a pair.
NothingCutShort ==
  /\ probe.kind = "cut" =>
       \A w \in {WireReloadPayload(Sent(probe.doc))}, vals \in {probe.vectors[2]} :
         w[vals] # <<>> => ~rehydrate_reload_payload([w EXCEPT ![vals] = Front(@)]).ok
  /\ probe.kind = "wire" =>
       \A w \in {WireUiEvent(probe.e)} :
         /\ w.e = "SubmitForm" /\ w.field_values # <<>> =>
              ~rehydrate_ui_event([w EXCEPT !.field_values = Front(@)]).ok
         /\ \A env \in {worker_run(probe.doc, Loaded(probe.doc), w).env} :
              env.kind = "Ok" /\ env.r.mutated_values # <<>> =>
                ~rehydrate_worker_response([env.r EXCEPT !.mutated_values = Front(@)]).ok

\* rehydrate.rs: a frame is taken whole or not at all, and what is taken can be
\* evaluated.
FramesAreWhole == AcceptedTreesAreTotal /\ NothingCutShort

-----------------------------------------------------------------------------
(* The documented grammar (docs/reference/grammar.md, sections 4, 7 and 8) *)

\* Levels of the table of operators: 0 is the ternary, 7 a unary operator, 8
\* field access, and 9 stands for an atom.
Level ==
  [or |-> 1, and |-> 2, eq |-> 3, ne |-> 3, lt |-> 4, gt |-> 4, le |-> 4, ge |-> 4, add |-> 5, sub |-> 5,
   mul |-> 6, div |-> 6]

Derived(e, d, open) == [e |-> e, d |-> d, open |-> open]
Deepest(ds) == Max({x.d : x \in ds})

Minus_(e) ==
  CASE e.k = "lit" /\ e.v.t = "int" -> Literal(Int_(-e.v.i))
    [] e.k = "lit" /\ e.v.t = "dec" -> Literal(Decimal(-e.v.d))
    [] OTHER -> [k |-> "bin", op |-> "sub", l |-> Literal(Int_(0)), r |-> e]

\* What a call of a built-in means, if its arguments are those it takes.
Meaning(name, args) ==
  LET n == Len(args)
      word(i, ws) == args[i].bare /\ args[i].e.k = "var" /\ args[i].e.s \in ws
      es == [i \in 1..n |-> args[i].e]
  IN  CASE name = "sort" -> IF n = 3 /\ word(3, {"asc", "desc"}) THEN {[es EXCEPT ![3] = Keyword(@.s)]} ELSE {}
        [] name = "filter" ->
             CASE n = 3 -> {<<es[1], es[2], Keyword("eq"), es[3]>>}
               [] n = 4 /\ word(3, FILTER_OPS) -> {[es EXCEPT ![3] = Keyword(@.s)]}
               [] OTHER -> {}
        [] name = "get_system_time" -> IF n = 1 /\ es[1].k = "var" THEN {es} ELSE {}
        [] OTHER -> {es}

\* The expressions that tokens spell from a level on, each with the nesting it
\* takes, and whether it ends in an else that takes in all that follows.
\* Where the grammar is not kept strictly, commas may be missing or trail.
RECURSIVE Derive(_, _, _), DeriveArgs(_, _)
Derive(s, level, strict) ==
  LET n == Len(s)
      at(t) == {i \in 1..n : s[i].t = t}
      words(w) == {i \in 1..n : AtWord(After(s, i - 1), w)}
      from(i, j, lv) == Derive(SubSeq(s, i, j), lv, strict)
      next == Derive(s, level + 1, strict)
      closed(D) == {x \in D : ~x.open}
      branch(c, t, e) == [k |-> "if", e |-> c.e, l |-> t.e, r |-> e.e]
  IN  CASE n = 0 -> {}
        [] n > 0 /\ level = 0 ->
             next \cup UNION {
               {Derived(branch(c, t, e), Max({c.d, t.d + 1, e.d + 1}), e.open) :
                  c \in closed(from(1, i - 1, 1)), t \in from(i + 1, j - 1, 0), e \in from(j + 1, n, 0)} :
               i \in at("Question"), j \in at("Colon")}
        [] n > 0 /\ level \in 1..6 ->
             next \cup UNION {
               {Derived([k |-> "bin", op |-> BinOps[s[i].t], l |-> l.e, r |-> r.e], Max({l.d, r.d + 1}), r.open) :
                  l \in closed(from(1, i - 1, level)), r \in from(i + 1, n, level + 1)} :
               i \in {j \in 2..n : s[j].t \in DOMAIN BinOps /\ Level[BinOps[s[j].t]] = level}}
        [] n > 0 /\ level = 7 ->
             next \cup {Derived(IF s[1].t = "Minus" THEN Minus_(x.e) ELSE [k |-> "not", e |-> x.e], x.d + 1, x.open) :
                          x \in IF s[1].t \in {"Minus", "Bang"} THEN from(2, n, 7) ELSE {}}
        [] n > 0 /\ level = 8 ->
             next \cup {Derived([k |-> "field", e |-> x.e, f |-> s[n].key], x.d, FALSE) :
                          x \in IF n > 2 /\ s[n].t = "Ident" /\ s[n - 1].t = "Dot" THEN closed(from(1, n - 2, 8)) ELSE {}}
        [] n = 1 /\ level = 9 ->
             CASE s[1].t = "Ident" /\ s[1].s # "if" -> {Derived([k |-> "var", s |-> s[1].s], 0, FALSE)}
               [] s[1].t = "Num" /\ NumLiteral(s[1]).ok -> {Derived(NumLiteral(s[1]).v, 0, FALSE)}
               [] s[1].t = "Bool" -> {Derived(Literal(Bool(s[1].b)), 0, FALSE)}
               [] s[1].t = "Str" -> {Derived(Literal(String(s[1].s)), 0, FALSE)}
               [] OTHER -> {}
        [] n > 1 /\ level = 9 /\ s[1].t = "LParen" /\ s[n].t = "RParen" ->
             {Derived(x.e, x.d + 1, FALSE) : x \in from(2, n - 1, 0)}
        [] n > 1 /\ level = 9 /\ AtWord(s, "if") ->
             UNION {{Derived(branch(c, t, e), 1 + Deepest({c, t, e}), TRUE) :
                       c \in from(2, i - 1, 0), t \in from(i + 1, j - 1, 0), e \in from(j + 1, n, 0)} :
                    i \in words("then"), j \in words("else")}
        [] n > 2 /\ level = 9 /\ s[1].t = "Ident" /\ s[1].s # "if" /\ s[2].t = "LParen" /\ s[n].t = "RParen" ->
             UNION {{Derived([k |-> "call", f |-> s[1].s, args |-> es], Max({0} \cup {1 + x.d : x \in Range(args)}), FALSE) :
                       es \in Meaning(s[1].s, args)} :
                    args \in DeriveArgs(SubSeq(s, 3, n - 1), strict)}
        [] OTHER -> {}

DeriveArgs(s, strict) ==
  LET n == Len(s)
      \* Where what follows the first argument starts.
      ends(i) == IF i < n /\ s[i + 1].t = "Comma" THEN {i + 1} ELSE IF strict THEN {} ELSE {i}
      arg(i) == {[e |-> x.e, d |-> x.d, bare |-> i = 1] : x \in Derive(SubSeq(s, 1, i), 0, strict)}
      rest(j) == IF j = n /\ strict THEN {} ELSE DeriveArgs(After(s, j), strict)
  IN  IF n = 0 THEN {<<>>}
      ELSE {<<x>> : x \in arg(n)}
             \cup UNION {{<<x>> \o more : x \in arg(i), more \in UNION {rest(j) : j \in ends(i)}} : i \in 1..(n - 1)}

\* expr.rs, parse_expr: every sentence of the documented grammar is read as the
\* one expression it stands for, within the nesting allowed, and nothing else
\* is accepted than such sentences with commas left out.
ExpressionsFollowGrammar ==
  probe.kind = "sentence" =>
    LET p == parse_expr_standalone(probe.s)
        means == {x.e : x \in {y \in Derive(probe.s, 0, TRUE) : y.d <= MAX_PARSE_DEPTH}}
    IN  /\ means # {} => p.ok /\ means = {Spelled(p.v)}
        /\ p.ok => \E x \in Derive(probe.s, 0, FALSE) : x.e = Spelled(p.v) /\ x.d <= MAX_PARSE_DEPTH

\* entry.rs and comp.rs: definitions, comps and timers may come in any order,
\* with blank lines between: the passes that share the lines find each of them
\* where its own pass looks, as it was written, and nothing else.  (A variable
\* interval is one whose name ends neither in "s" nor in "ms".)
BlocksReadAsWritten ==
  probe.kind = "block" =>
    LET lines == FlattenSeq(Each(probe.items, LAMBDA x : x.lines))
        are(kind) == Each(SelectSeq(probe.items, LAMBDA x : x.kind = kind), LAMBDA x : x.is)
        spelled(x) == [x EXCEPT !.e = Spelled(@)]
    IN  \A fns \in {parse_logic(lines)}, timers \in {parse_root_timers(lines)}, comps \in {parse_comp_lines(lines)} :
          /\ fns.ok /\ {[name |-> f, params |-> fns.v[f].params, body |-> Spelled(fns.v[f].body)] : f \in DOMAIN fns.v}
                         = Range(are("fn"))
          /\ comps.ok /\ Each(comps.v, spelled) = are("comp")
          /\ IF Len(are("timer")) > MAX_ROOT_TIMERS THEN ~timers.ok
             ELSE timers.ok /\ Each(timers.v, LAMBDA t : [t EXCEPT !.action = OnTrees(@, Spelled)]) = are("timer")

\* action.rs, parse_action_with_urls: an action is read as what was written or
\* not at all, and it is refused only where it is empty or has tokens left
\* over, and for a verb that is not in upper case or not called, an alias that
\* is not declared for it, an unknown format, a reserved header, a body that
\* the verb has not, or a comma inside an argument that another may follow.
ActionsReadAsWritten ==
  probe.kind = "action" =>
    LET r == parse_action_with_urls(probe.w.toks, <<Registry>>)
    IN  IF r.ok THEN OnTrees(r.v, Spelled) = probe.w.is /\ probe.w.flaws \subseteq {"comma"} ELSE probe.w.flaws # {}

\* parser/: expressions, blocks and actions mean what was written.
ReadAsWritten == ExpressionsFollowGrammar /\ BlocksReadAsWritten /\ ActionsReadAsWritten

=============================================================================
