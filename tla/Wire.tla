-------------------------------- MODULE Wire --------------------------------
(***************************************************************************)
(* The forms in which a document, events and responses cross the channel   *)
(* between the browser and the worker process (crates/ipc/src/wire): maps  *)
(* as two parallel vectors, expressions as a flat arena of nodes that name *)
(* one another by index, files as tokens.  Each wire form is written by an *)
(* infallible conversion and read by one that may refuse it.               *)
(*                                                                         *)
(* A symbol is its name, and NoSymbol the u32::MAX that stands for a name  *)
(* the interner lacks.  Fieldless enums (operators, methods, formats) and  *)
(* header names have one form on both sides.                               *)
(***************************************************************************)
EXTENDS TabSession

CONSTANTS
  MAX_ARENA_NODES, MAX_TYPE_DEPTH, MAX_VALUE_DEPTH,
  U32               \* 2^32: the number of u32 values

ASSUME WireAssumption ==
  MAX_ARENA_NODES \in Nat /\ MAX_TYPE_DEPTH \in Nat /\ MAX_VALUE_DEPTH \in Nat /\ U32 \in Nat \ {0}

NoSymbol == "u32::MAX"

Refused == Err("ParseError")

\* The "?" operator: what is refused stays refused.
Then(p, Next_(_)) == IF p.ok THEN Next_(p.v) ELSE Refused

\* collect::<Result<Vec<_>, _>>.
Collect(rs) == IF \A i \in DOMAIN rs : rs[i].ok THEN Ok([i \in DOMAIN rs |-> rs[i].v]) ELSE Refused

\* What iterating over a hash map yields.
InSomeOrder(S) == FoldSet(LAMBDA x, acc : Append(acc, x), <<>>, S)

Each(s, F(_)) == [i \in DOMAIN s |-> F(s[i])]

-----------------------------------------------------------------------------
\* Values and types.

\* The path of a file stays in the browser, and so far its token is always 0.
RECURSIVE WireValue(_)
WireValue(v) ==
  CASE v.t = "list" -> List(Each(v.l, WireValue))
    [] v.t = "rec" -> Record(Each(v.f, LAMBDA f : [f EXCEPT !.val = WireValue(f.val)]))
    [] v.t = "file" -> [t |-> "token", token |-> 0, filename |-> v.h.filename]
    [] OTHER -> v

TooDeep(depth) == depth > MAX_VALUE_DEPTH

\* Records are put in order again, and a token is no file.
RECURSIVE rehydrate_value(_, _)
rehydrate_value(w, depth) ==
  LET record(vals) == Ok(record_from_unsorted([i \in DOMAIN w.f |-> [key |-> w.f[i].key, val |-> vals[i]]]))
  IN  CASE TooDeep(depth) -> Refused
        [] ~TooDeep(depth) /\ w.t = "list" ->
             Then(Collect(Each(w.l, LAMBDA x : rehydrate_value(x, depth + 1))), LAMBDA items : Ok(List(items)))
        [] ~TooDeep(depth) /\ w.t = "rec" ->
             Then(Collect(Each(w.f, LAMBDA f : rehydrate_value(f.val, depth + 1))), record)
        [] ~TooDeep(depth) /\ w.t = "token" -> Ok(Null)
        [] OTHER -> Ok(w)

RECURSIVE WireValueType(_)
WireValueType(ty) ==
  CASE ty.ty \in {"list", "nullable"} -> [ty EXCEPT !.of = WireValueType(ty.of)]
    [] ty.ty = "rec" -> [ty |-> "rec", field_names |-> Each(ty.fs, LAMBDA f : f.key),
                         field_types |-> Each(ty.fs, LAMBDA f : WireValueType(f.type))]
    [] OTHER -> ty

RECURSIVE rehydrate_value_type(_, _)
rehydrate_value_type(w, depth) ==
  LET record(types) ==
        Ok([ty |-> "rec", fs |-> [i \in DOMAIN types |-> [key |-> w.field_names[i], type |-> types[i]]]])
  IN  CASE depth > MAX_TYPE_DEPTH -> Refused
        [] depth <= MAX_TYPE_DEPTH /\ w.ty \in {"list", "nullable"} ->
             Then(rehydrate_value_type(w.of, depth + 1), LAMBDA inner : Ok([w EXCEPT !.of = inner]))
        [] depth <= MAX_TYPE_DEPTH /\ w.ty = "rec" ->
             IF Len(w.field_names) # Len(w.field_types) THEN Refused
             ELSE Then(Collect(Each(w.field_types, LAMBDA x : rehydrate_value_type(x, depth + 1))), record)
        [] OTHER -> Ok(w)

-----------------------------------------------------------------------------
\* Expression arenas.  A node names its operands by index, from 0; a call has
\* a window of the shared pool of arguments.

EmptyArena == [nodes |-> <<>>, args_pool |-> <<>>]

alloc(arena, node) == [arena |-> [arena EXCEPT !.nodes = Append(@, node)], id |-> Len(arena.nodes)]

\* Mutation: every window starts where the pool does.
window_at_zero(arena, ids) == [arena |-> [arena EXCEPT !.args_pool = @ \o ids], start |-> 0]

push_args(arena, ids) ==
  [arena |-> [arena EXCEPT !.args_pool = @ \o ids], start |-> Len(arena.args_pool)]

Operands ==
  [lit |-> <<>>, var |-> <<>>, call |-> <<>>, not |-> <<"e">>, field |-> <<"e">>,
   bin |-> <<"l", "r">>, let |-> <<"e", "b">>, if |-> <<"e", "l", "r">>]

\* A node with its operands replaced by what at names for them.
WithOperands(node, at(_)) ==
  [x \in DOMAIN node |-> IF x \in Range(Operands[node.k]) THEN at(x) ELSE node[x]]

\* The expression the evaluator walks, down to a depth it does not pass.
RECURSIVE Walk(_, _, _, _)
Walk(tree, id, depth, beyond) ==
  LET node == tree.nodes[id + 1]
      down(i) == Walk(tree, i, depth - 1, beyond)
  IN  IF depth = 0 THEN beyond
      ELSE IF node.k # "call" THEN WithOperands(node, LAMBDA x : down(node[x]))
      ELSE [k |-> "call", f |-> node.f,
            args |-> [i \in 1..node.args_len |-> down(tree.args_pool[node.args_start + i])]]

wire_expr(node) == IF node.k = "lit" THEN [node EXCEPT !.v = WireValue(@)] ELSE node

wire_expr_tree(tree) == [tree EXCEPT !.nodes = Each(@, wire_expr)]

rehydrate_expr(node) ==
  IF node.k # "lit" THEN Ok(node) ELSE Then(rehydrate_value(node.v, 0), LAMBDA v : Ok([node EXCEPT !.v = v]))

\* Mutation: the end of a window is computed in 32 bits.
window_end_wraps(node, pool_len) == (node.args_start + node.args_len) % U32 <= pool_len

WindowFits(node, pool_len) == node.args_start + node.args_len <= pool_len

\* References only: a cycle is left to the evaluator's depth limit.
validate_references(arena) ==
  LET node_count == Len(arena.nodes)
  IN  /\ \A i \in DOMAIN arena.nodes :
           LET node == arena.nodes[i]
           IN  /\ \A x \in Range(Operands[node.k]) : node[x] < node_count
               /\ node.k = "call" => WindowFits(node, Len(arena.args_pool))
      /\ \A i \in DOMAIN arena.args_pool : arena.args_pool[i] < node_count

rehydrate_expr_tree(w) ==
  LET checked(tree) == IF validate_references(tree) /\ w.root < Len(w.nodes) THEN Ok(tree) ELSE Refused
  IN  IF Len(w.nodes) > MAX_ARENA_NODES THEN Refused
      ELSE Then(Collect(Each(w.nodes, rehydrate_expr)), LAMBDA nodes : checked([w EXCEPT !.nodes = nodes]))

-----------------------------------------------------------------------------
\* Actions, functions, comps and the whole document, whose expressions are
\* trees on both sides.

\* What F makes of the trees of an action.
OnTrees(a, F(_)) ==
  [x \in DOMAIN a |-> CASE x = "e" -> F(a.e)
                        [] x \in {"payload", "path_param", "headers"} -> Each(a[x], F)
                        [] OTHER -> a[x]]

TreesOf(a) == IF a.a = "NetworkCall" THEN a.payload \o a.path_param \o a.headers ELSE <<a.e>>

wire_action(a) ==
  OnTrees(a, wire_expr_tree)
    @@ (IF a.a = "NetworkCall" THEN [header_names |-> [i \in DOMAIN a.headers |-> i]] ELSE <<>>)

rehydrate_action(w) ==
  IF /\ w.a = "NetworkCall" => Len(w.header_names) = Len(w.headers)
     /\ Collect(Each(TreesOf(w), rehydrate_expr_tree)).ok
  THEN Ok(OnTrees([x \in DOMAIN w \ {"header_names"} |-> w[x]], LAMBDA t : rehydrate_expr_tree(t).v))
  ELSE Refused

wire_mizu_function(f) ==
  [param_syms |-> Each(f.params, LAMBDA p : p.s), param_types |-> Each(f.params, LAMBDA p : WireValueType(p.type)),
   body |-> wire_expr_tree(f.body)]

rehydrate_mizu_function(w) ==
  IF Len(w.param_syms) # Len(w.param_types) THEN Refused
  ELSE Then(Collect(Each(w.param_types, LAMBDA x : rehydrate_value_type(x, 0))), LAMBDA types :
         Then(rehydrate_expr_tree(w.body), LAMBDA body :
           Ok([params |-> [i \in DOMAIN types |-> [s |-> w.param_syms[i], type |-> types[i]]], body |-> body])))

wire_computed_binding(cb) == [cb EXCEPT !.e = wire_expr_tree(@)]

rehydrate_computed_binding(w) ==
  Then(rehydrate_expr_tree(w.e), LAMBDA tree : Ok([w EXCEPT !.e = tree]))

WireReloadPayload(p) ==
  LET fns == InSomeOrder(DOMAIN p.fns)
  IN  [logic_fn_keys |-> fns, logic_fn_values |-> Each(fns, LAMBDA f : wire_mizu_function(p.fns[f])),
       click_action_ids |-> [i \in DOMAIN p.clicks |-> i], click_actions |-> Each(p.clicks, wire_action),
       submit_action_ids |-> [i \in DOMAIN p.submits |-> i], submit_actions |-> Each(p.submits, wire_action),
       root_timer_actions |-> Each(p.timers, wire_action),
       interner_strings |-> p.names,
       init_var_keys |-> Each(p.initial, LAMBDA x : IF x.name \in Range(p.names) THEN x.name ELSE NoSymbol),
       init_var_values |-> Each(p.initial, LAMBDA x : WireValue(x.val)),
       url_registry_keys |-> InSomeOrder(DOMAIN p.urls),
       url_registry_values |-> Each(InSomeOrder(DOMAIN p.urls), LAMBDA s : p.urls[s]),
       computed_bindings |-> Each(p.comps, wire_computed_binding)]

\* Keys that come with a value each.
Vectors ==
  {<<"logic_fn_keys", "logic_fn_values">>, <<"click_action_ids", "click_actions">>,
   <<"submit_action_ids", "submit_actions">>, <<"init_var_keys", "init_var_values">>,
   <<"url_registry_keys", "url_registry_values">>}

zip_len(a, b) == Len(a) = Len(b)

\* The symbols that are keys are checked; those inside expressions are not.
rehydrate_reload_payload(w) ==
  LET check_sym(s) == s \in Range(w.interner_strings)
      keyed(keys, vals) == [s \in {keys[i] : i \in DOMAIN vals} |-> vals[CHOOSE i \in DOMAIN vals : keys[i] = s]]
      document(values, fns, clicks, submits, timers, comps) ==
        IF values.ok /\ fns.ok /\ clicks.ok /\ submits.ok /\ timers.ok /\ comps.ok
        THEN Ok([names |-> w.interner_strings, fns |-> keyed(w.logic_fn_keys, fns.v),
                 clicks |-> keyed(w.click_action_ids, clicks.v), submits |-> keyed(w.submit_action_ids, submits.v),
                 timers |-> timers.v, comps |-> comps.v,
                 initial |-> [i \in DOMAIN values.v |-> [name |-> w.init_var_keys[i], val |-> values.v[i]]],
                 urls |-> keyed(w.url_registry_keys, w.url_registry_values)])
        ELSE Refused
  IN  IF /\ \A p \in Vectors : zip_len(w[p[1]], w[p[2]])
         /\ \A x \in {"logic_fn_keys", "init_var_keys", "url_registry_keys"} : \A s \in Range(w[x]) : check_sym(s)
      THEN document(Collect(Each(w.init_var_values, LAMBDA x : rehydrate_value(x, 0))),
                    Collect(Each(w.logic_fn_values, rehydrate_mizu_function)),
                    Collect(Each(w.click_actions, rehydrate_action)),
                    Collect(Each(w.submit_actions, rehydrate_action)),
                    Collect(Each(w.root_timer_actions, rehydrate_action)),
                    Collect(Each(w.computed_bindings, rehydrate_computed_binding)))
      ELSE Refused

-----------------------------------------------------------------------------
\* Events to the worker, and its responses.

WireUiEvent(e) ==
  CASE e.e = "Reload" -> [e |-> "Reload", payload |-> WireReloadPayload(e.payload)]
    [] e.e = "SubmitForm" ->
         [e |-> "SubmitForm", node |-> e.node, field_keys |-> Each(e.fields, LAMBDA f : [name |-> f.name, key |-> f.key]),
          field_values |-> Each(e.fields, LAMBDA f : WireValue(f.val))]
    [] e.e = "UpdateVariable" -> [e EXCEPT !.value = WireValue(@)]
    [] OTHER -> e

rehydrate_ui_event(w) ==
  LET form(vals) == Ok([e |-> "SubmitForm", node |-> w.node,
                        fields |-> [i \in DOMAIN vals |-> w.field_keys[i] @@ [val |-> vals[i]]]])
  IN  CASE w.e = "Reload" ->
             Then(rehydrate_reload_payload(w.payload), LAMBDA p : Ok([e |-> "Reload", payload |-> p]))
        [] w.e = "SubmitForm" ->
             IF ~zip_len(w.field_keys, w.field_values) THEN Refused
             ELSE Then(Collect(Each(w.field_values, LAMBDA x : rehydrate_value(x, 0))), form)
        [] w.e = "UpdateVariable" -> Then(rehydrate_value(w.value, 0), LAMBDA v : Ok([w EXCEPT !.value = v]))
        [] OTHER -> Ok(w)

\* What F makes of the values an action carries.
OnValues(act, F(_)) ==
  [x \in DOMAIN act |-> CASE x = "value" -> F(act.value)
                          [] x \in {"payload", "headers"} -> Each(act[x], F)
                          [] OTHER -> act[x]]

ValuesOf(act) ==
  CASE act.kind = "StoreLocal" -> <<act.value>>
    [] act.kind = "NetworkCall" -> act.payload \o act.headers
    [] OTHER -> <<>>

WireRuntimeAction(act) ==
  OnValues(act, WireValue) @@ (IF act.kind = "NetworkCall" THEN [header_keys |-> [i \in DOMAIN act.headers |-> i]] ELSE <<>>)

rehydrate_runtime_action(w) ==
  IF /\ w.kind = "NetworkCall" => Len(w.header_keys) = Len(w.headers)
     /\ Collect(Each(ValuesOf(w), LAMBDA x : rehydrate_value(x, 0))).ok
  THEN Ok(OnValues([x \in DOMAIN w \ {"header_keys"} |-> w[x]], LAMBDA x : rehydrate_value(x, 0).v))
  ELSE Refused

WireWorkerResponse(r) ==
  LET muts == InSomeOrder(r.vars)
  IN  [mutated_syms |-> Each(muts, LAMBDA m : m.sym), mutated_values |-> Each(muts, LAMBDA m : WireValue(m.v)),
       runtime_actions |-> Each(r.acts, WireRuntimeAction), gesture |-> r.gesture]

rehydrate_worker_response(w) ==
  LET response(vals, acts) ==
        Ok(Respond(TRUE, {[sym |-> w.mutated_syms[i], v |-> vals[i]] : i \in DOMAIN vals}, acts, w.gesture))
  IN  IF ~zip_len(w.mutated_syms, w.mutated_values) THEN Refused
      ELSE Then(Collect(Each(w.mutated_values, LAMBDA x : rehydrate_value(x, 0))), LAMBDA vals :
             Then(Collect(Each(w.runtime_actions, rehydrate_runtime_action)), LAMBDA acts : response(vals, acts)))

\* One pass of the worker's loop: the event is read, applied and answered.  An
\* event that is refused is answered with an error and the session is kept.
Envelope(out) ==
  CASE out.resp = <<>> -> [kind |-> "NoOp"]
    [] out.resp # <<>> /\ out.resp[1].ok -> [kind |-> "Ok", r |-> WireWorkerResponse(out.resp[1])]
    [] OTHER -> [kind |-> "Err"]

Answer(doc, ev, e) ==
  LET answered(out) == [env |-> Envelope(out), ev |-> out.ev]
  IN  IF e.ok THEN answered(apply_event(doc, ev, e.v)) ELSE [env |-> [kind |-> "Err"], ev |-> ev]

worker_run(doc, ev, w) == Answer(doc, ev, rehydrate_ui_event(w))

=============================================================================
