----------------------------- MODULE Evaluator -----------------------------
(***************************************************************************)
(* Evaluator::evaluate with its built-in functions, execute_action, and    *)
(* the locals, budgets and undo log they work on                           *)
(* (crates/core/src/core/types/eval, parser/logic/eval.rs).                *)
(*                                                                         *)
(* An evaluator is a record.  Every operation takes one and returns what   *)
(* the code returns and leaves behind, [r |-> result, ev |-> evaluator]:   *)
(* an error does not undo what was done before it.                         *)
(***************************************************************************)
EXTENDS Values

CONSTANTS max_instructions, MAX_EVAL_DEPTH

ASSUME EvaluatorAssumption ==
  max_instructions \in Nat /\ MAX_EVAL_DEPTH \in Nat /\ MAX_EVAL_DEPTH <= MAX_JSON_DEPTH

\* globals has a value, Null at first, for every name of the frozen interner.
NewEvaluator(names, comps) ==
  [globals |-> [s \in names |-> Null], locals |-> <<>>, n |-> 0, depth |-> 0,
   acts |-> <<>>, undo |-> <<>>, comps |-> comps]

Out(r, ev) == [r |-> r, ev |-> ev]

set_global(ev, s, v) ==
  [ev EXCEPT !.globals[s] = v, !.undo = Append(@, [s |-> s, old |-> ev.globals[s]])]

\* A name the interner does not know is ignored.
set_runtime(ev, name, v) == IF name \in DOMAIN ev.globals THEN set_global(ev, name, v) ELSE ev

push_local(ev, s, v) == [ev EXCEPT !.locals = Append(@, [s |-> s, v |-> v])]
truncate_locals(ev, len) == [ev EXCEPT !.locals = SubSeq(@, 1, len)]

\* The innermost binding of the frame, as an optional value.  fp counts the
\* bindings below the frame.
get_local(ev, s, fp) ==
  LET mine == {i \in DOMAIN ev.locals : ev.locals[i].s = s}
  IN  IF mine # {} /\ Max(mine) > fp THEN <<ev.locals[Max(mine)].v>> ELSE <<>>

\* What interpolation may print: locals of frame 0, then globals not Null.
get_value_by_name(ev) ==
  LET bound == {s \in DOMAIN ev.globals : get_local(ev, s, 0) # <<>> \/ ev.globals[s] # Null}
  IN  [s \in bound |-> IF get_local(ev, s, 0) # <<>> THEN get_local(ev, s, 0)[1] ELSE ev.globals[s]]

Charge(ev, cost) == [ev EXCEPT !.n = @ + cost]
Push(ev, act) == [ev EXCEPT !.acts = Append(@, act)]

RECURSIVE check_type(_, _)
check_type(v, type) ==
  CASE type.ty = "nullable" -> v.t = "null" \/ check_type(v, type.of)
    [] type.ty = "num" -> v.t \in {"int", "dec"}
    [] type.ty = "list" -> v.t = "list" /\ \A i \in DOMAIN v.l : check_type(v.l[i], type.of)
    [] type.ty = "rec" ->
         /\ v.t = "rec" /\ Len(v.f) = Len(type.fs)
         /\ \A i \in DOMAIN v.f : v.f[i].key = type.fs[i].key /\ check_type(v.f[i].val, type.fs[i].type)
    [] OTHER -> v.t = type.ty

-----------------------------------------------------------------------------
\* Built-in functions of evaluated arguments.  Each charges for its native
\* pass before it makes it.

TimedOut(ev) == ev.n > max_instructions

HasSubstring(hay, needle) ==
  \E i \in 0..(Len(hay) - Len(needle)) : SubSeq(hay, i + 1, i + Len(needle)) = needle

StringField(item, field) ==
  LET f == get_field(item, field) IN IF f # <<>> /\ f[1].t = "str" THEN Len(f[1].s) ELSE 0

\* A comparison that is a type error leaves the item out.
Included(item, field, op, target) ==
  LET f == get_field(item, field)
  IN  /\ f # <<>>
      /\ IF op = "contains" THEN f[1].t = "str" /\ target.t = "str" /\ HasSubstring(f[1].s, target.s)
         ELSE apply_binop(op, f[1], target, 0, max_instructions).r = Ok(Bool(TRUE))

filter(list, field, op, target, ev) ==
  LET scan == IF op.s # "contains" THEN 0
              ELSE FoldLeft(LAMBDA a, x : a + StringField(x, field.s), 0, list.l)
      ch == Charge(ev, Len(list.l) + scan)
  IN  CASE list.t # "list" \/ field.t # "str" -> Out(Err("TypeError"), ev)
        [] list.t = "list" /\ field.t = "str" /\ TimedOut(ch) -> Out(Err("Timeout"), ch)
        [] OTHER -> Out(Ok(List(SelectSeq(list.l, LAMBDA x : Included(x, field.s, op.s, target)))), ch)

count(list, field, target, ev) ==
  LET ch == Charge(ev, Len(list.l))
      add(acc, eq) == [ok |-> eq.r.ok, n |-> eq.n, hits |-> acc.hits + (IF eq.r = Ok(TRUE) THEN 1 ELSE 0)]
      one(acc, x) ==
        LET f == get_field(x, field.s)
        IN  IF ~acc.ok \/ f = <<>> THEN acc
            ELSE add(acc, budget_eq(f[1], target, acc.n, max_instructions))
      found(all) == Out(IF all.ok THEN Ok(Int_(all.hits)) ELSE Err("Timeout"), [ch EXCEPT !.n = all.n])
  IN  CASE list.t # "list" -> Out(Err("TypeError"), ev)
        [] list.t = "list" /\ TimedOut(ch) -> Out(Err("Timeout"), ch)
        [] list.t = "list" /\ ~TimedOut(ch) /\ field.t # "str" -> Out(Err("TypeError"), ch)
        [] OTHER -> found(FoldLeft(one, [ok |-> TRUE, n |-> ch.n, hits |-> 0], list.l))

BitLength(n) == IF n = 0 THEN 0 ELSE CHOOSE k \in 1..n : 2 ^ (k - 1) <= n /\ n < 2 ^ k

\* Mutation: descending is ascending from the end.
reversed_ties(direction, c, i, j) ==
  IF direction = "desc" THEN c > 0 \/ (c = 0 /\ i > j) ELSE c < 0 \/ (c = 0 /\ i < j)

\* Only the comparison is reversed, so that ties keep their order.
SortsBefore(direction, c, i, j) ==
  (IF direction = "desc" THEN c > 0 ELSE c < 0) \/ (c = 0 /\ i < j)

\* A stable sort on one scalar field; a missing field sorts first (last when
\* descending).
sort(list, field, direction, ev) ==
  LET ch == Charge(ev, Len(list.l) * BitLength(Len(list.l)))
      key(i) == get_field(list.l[i], field.s)
      arranged(order) == List([i \in DOMAIN order |-> list.l[order[i]]])
  IN  CASE list.t # "list" -> Out(Err("TypeError"), ev)
        [] list.t = "list" /\ TimedOut(ch) -> Out(Err("Timeout"), ch)
        [] list.t = "list" /\ ~TimedOut(ch) /\ field.t # "str" -> Out(Err("TypeError"), ch)
        [] OTHER ->
             IF \E i \in DOMAIN list.l : key(i) # <<>> /\ key(i)[1].t \in {"list", "rec", "file"}
             THEN Out(Err("ExecutionError"), ch)
             ELSE Out(Ok(arranged(SetToSortSeq(DOMAIN list.l, LAMBDA i, j :
                        SortsBefore(direction.s, compare_values(key(i), key(j)), i, j)))), ch)

length(v, ev) ==
  CASE v.t = "list" -> Out(Ok(Int_(Len(v.l))), ev)
    [] v.t = "str" -> IF TimedOut(Charge(ev, Len(v.s))) THEN Out(Err("Timeout"), ev)
                      ELSE Out(Ok(Int_(Len(v.s))), Charge(ev, Len(v.s)))
    [] OTHER -> Out(Err("TypeError"), ev)

to_string(v, ev) ==
  Out(IF v.t \in {"int", "dec", "bool"} THEN Ok(String(Display(v))) ELSE Err("TypeError"), ev)

contains(hay, needle, ev) ==
  LET ch == Charge(ev, Len(hay.s))
  IN  CASE hay.t # "str" \/ needle.t # "str" -> Out(Err("TypeError"), ev)
        [] OTHER -> Out(IF TimedOut(ch) THEN Err("Timeout") ELSE Ok(Bool(HasSubstring(hay.s, needle.s))), ch)

has_field(record, name, ev) ==
  Out(IF record.t = "rec" /\ name.t = "str" THEN Ok(Bool(get_field(record, name.s) # <<>>))
      ELSE Err("TypeError"), ev)

copy_to_clipboard(node, ev) ==
  IF node.t # "str" THEN Out(Err("ExecutionError"), ev)
  ELSE Out(Ok(Bool(TRUE)), Push(ev, [kind |-> "CopyToClipboard", node_id |-> node.s]))

\* The target is a bare variable, fixed when the document is parsed.
get_system_time(args, ev) ==
  IF Len(args) # 1 \/ args[1].k # "var" \/ args[1].s \in ev.comps THEN Out(Err("ExecutionError"), ev)
  ELSE Out(Ok(Bool(TRUE)), Push(ev, [kind |-> "GetSystemTime", target |-> args[1].s]))

download(args, ev) ==
  IF args[1].k # "var" THEN Out(Err("ExecutionError"), ev)
  ELSE Out(Ok(Null), Push(ev, [kind |-> "DownloadAlias", alias |-> args[1].s]))

\* Built-ins that evaluate all their arguments first, with their arities; with
\* another number of arguments the name is a user function's.
Arity == [filter |-> 4, count |-> 3, sort |-> 3, length |-> 1, to_string |-> 1,
          contains |-> 2, has_field |-> 2, copy_to_clipboard |-> 1]

Builtin(f, o) ==
  LET vs == o.r.v
      ev == o.ev
  IN  IF ~o.r.ok THEN o
      ELSE CASE f = "filter" -> filter(vs[1], vs[2], vs[3], vs[4], ev)
             [] f = "count" -> count(vs[1], vs[2], vs[3], ev)
             [] f = "sort" -> sort(vs[1], vs[2], vs[3], ev)
             [] f = "length" -> length(vs[1], ev)
             [] f = "to_string" -> to_string(vs[1], ev)
             [] f = "contains" -> contains(vs[1], vs[2], ev)
             [] f = "has_field" -> has_field(vs[1], vs[2], ev)
             [] f = "copy_to_clipboard" -> copy_to_clipboard(vs[1], ev)

-----------------------------------------------------------------------------

\* Parameters are checked and pushed one by one; the first that fails its
\* check ends the call with the ones before it pushed.
BindParams(params, vs, ev) ==
  LET bind(acc, i) ==
        CASE ~acc.r.ok -> acc
          [] acc.r.ok /\ check_type(vs[i], params[i].type) -> Out(Ok(Null), push_local(acc.ev, params[i].s, vs[i]))
          [] OTHER -> Out(Err("TypeError"), acc.ev)
  IN  FoldLeft(bind, Out(Ok(Null), ev), [i \in DOMAIN params |-> i])

RECURSIVE evaluate(_, _, _, _), evaluate_impl(_, _, _, _), Args(_, _, _, _)

evaluate(e, fp, fns, ev) ==
  LET ticked == Charge(ev, 1)
  IN  CASE TimedOut(ticked) -> Out(Err("Timeout"), ticked)
        [] ~TimedOut(ticked) /\ ev.depth + 1 > MAX_EVAL_DEPTH -> Out(Err("ExecutionError"), ticked)
        [] OTHER -> [evaluate_impl(e, fp, fns, [ticked EXCEPT !.depth = @ + 1]) EXCEPT !.ev.depth = ev.depth]

\* Arguments from left to right, the first error ending the list.
Args(args, fp, fns, ev) ==
  LET rest(v, o) == Out(IF o.r.ok THEN Ok(<<v>> \o o.r.v) ELSE o.r, o.ev)
      first(o) == IF o.r.ok THEN rest(o.r.v, Args(Tail(args), fp, fns, o.ev)) ELSE o
  IN  IF args = <<>> THEN Out(Ok(<<>>), ev) ELSE first(evaluate(Head(args), fp, fns, ev))

store_local(args, fp, fns, ev) ==
  LET store(key, val) ==
        IF ~val.r.ok THEN val
        ELSE Out(Ok(Bool(TRUE)), Push(val.ev, [kind |-> "StoreLocal", key |-> key, value |-> val.r.v]))
      keyed(o) ==
        CASE ~o.r.ok -> o
          [] o.r.ok /\ o.r.v.t # "str" -> Out(Err("ExecutionError"), o.ev)
          [] OTHER -> store(o.r.v.s, evaluate(args[2], fp, fns, o.ev))
  IN  IF Len(args) # 2 THEN Out(Err("ExecutionError"), ev) ELSE keyed(evaluate(args[1], fp, fns, ev))

Call(f, args, fp, fns, ev) ==
  LET returned(o, len) == Out(o.r, truncate_locals(o.ev, len))
      run(bound, len) ==
        IF ~bound.r.ok THEN bound ELSE returned(evaluate(fns[f].body, len, fns, bound.ev), len)
      bind(vs) ==
        IF ~vs.r.ok THEN vs ELSE run(BindParams(fns[f].params, vs.r.v, vs.ev), Len(vs.ev.locals))
  IN  IF f \notin DOMAIN fns THEN Out(Err("ParseError"), ev)
      ELSE IF Len(args) # Len(fns[f].params) THEN Out(Err("ParseError"), ev)
      ELSE bind(Args(args, fp, fns, ev))

FunctionCall(f, args, fp, fns, ev) ==
  CASE f = "get_system_time" -> get_system_time(args, ev)
    [] f = "store_local" -> store_local(args, fp, fns, ev)
    [] f = "copy_to_clipboard" /\ Len(args) # 1 -> Out(Err("ExecutionError"), ev)
    [] f = "download" /\ Len(args) = 1 -> download(args, ev)
    [] f \in DOMAIN Arity /\ Len(args) = Arity[f] -> Builtin(f, Args(args, fp, fns, ev))
    [] OTHER -> Call(f, args, fp, fns, ev)

\* A binary operation, once its left and once its right operand is known.
OnRight(op, l, o) ==
  LET counted(res) == Out(res.r, [o.ev EXCEPT !.n = res.n])
  IN  IF ~o.r.ok THEN o ELSE counted(apply_binop(op, l, o.r.v, o.ev.n, max_instructions))
OnLeft(e, fp, fns, o) ==
  IF ~o.r.ok THEN o ELSE OnRight(e.op, o.r.v, evaluate(e.r, fp, fns, o.ev))

\* Each local operator goes on from the outcome of one sub-expression.
evaluate_impl(e, fp, fns, ev) ==
  LET unbound(o) == Out(o.r, truncate_locals(o.ev, Len(o.ev.locals) - 1))
      field(hit) == IF hit = <<>> THEN Err("VariableNotFound") ELSE Ok(hit[1])
      on(v, ev1) ==
        CASE e.k = "let" -> unbound(evaluate(e.b, fp, fns, push_local(ev1, e.s, v)))
          [] e.k = "not" /\ v.t = "bool" -> Out(Ok(Bool(~v.b)), ev1)
          [] e.k = "if" /\ v.t = "bool" -> evaluate(IF v.b THEN e.l ELSE e.r, fp, fns, ev1)
          [] e.k = "field" /\ v.t = "rec" -> Out(field(get_field(v, e.f)), ev1)
          [] OTHER -> Out(Err("TypeError"), ev1)
      sub(o) == IF ~o.r.ok THEN o ELSE on(o.r.v, o.ev)
  IN  CASE e.k = "lit" -> Out(Ok(e.v), ev)
        [] e.k = "var" ->
             CASE get_local(ev, e.s, fp) # <<>> -> Out(Ok(get_local(ev, e.s, fp)[1]), ev)
               [] get_local(ev, e.s, fp) = <<>> /\ ev.globals[e.s] # Null -> Out(Ok(ev.globals[e.s]), ev)
               [] OTHER -> Out(Err("VariableNotFound"), ev)
        [] e.k = "bin" -> OnLeft(e, fp, fns, evaluate(e.l, fp, fns, ev))
        [] e.k = "call" -> FunctionCall(e.f, e.args, fp, fns, ev)
        [] OTHER -> sub(evaluate(e.e, fp, fns, ev))

-----------------------------------------------------------------------------
\* execute_action.  An optional expression is a sequence of at most one.

\* One path segment: no slash, backslash or control byte, and no "..".
path_param_ok(s) ==
  ~HasSubstring(s, <<46, 46>>) /\ \A i \in DOMAIN s : s[i] \notin {47, 92, 127} \cup 0..31

\* A Decimal goes out as its scaled integer, an Int is refused.
PathParam(v) ==
  LET s == IF v.t = "str" THEN v.s ELSE ShowInt(v.d)
  IN  IF v.t \in {"str", "dec"} /\ path_param_ok(s) THEN Ok(s) ELSE Err("ExecutionError")

\* The payload, then the path parameter and its check, then the headers.
WithHeaders(a, pl, segment, hs) ==
  IF ~hs.r.ok THEN hs
  ELSE Out(Ok(Bool(TRUE)),
           Push(hs.ev, [kind |-> "NetworkCall", alias |-> a.alias, payload |-> pl, path_param |-> segment,
                        target |-> a.target, headers |-> hs.r.v]))
WithPath(a, fns, pl, pp) ==
  LET segment == IF a.path_param = <<>> THEN Ok(<<>>) ELSE PathParam(pp.r.v[1])
  IN  CASE ~pp.r.ok -> pp
        [] pp.r.ok /\ segment.ok /\ a.target \in DOMAIN pp.ev.globals ->
             WithHeaders(a, pl, segment.v, Args(a.headers, 0, fns, pp.ev))
        [] OTHER -> Out(Err("ExecutionError"), pp.ev)
WithPayload(a, fns, pl) == IF ~pl.r.ok THEN pl ELSE WithPath(a, fns, pl.r.v, Args(a.path_param, 0, fns, pl.ev))
NetworkCall(a, fns, ev) == WithPayload(a, fns, Args(a.payload, 0, fns, ev))

\* The instruction count starts afresh with every action.
execute_action(a, fns, ev0) ==
  LET ev == [ev0 EXCEPT !.n = 0]
      done(o) ==
        CASE o.r.ok /\ a.a = "Assign" -> Out(o.r, set_runtime(o.ev, a.target, o.r.v))
          [] o.r.ok /\ a.a = "Navigate" ->
               IF o.r.v.t # "str" THEN Out(Err("ExecutionError"), o.ev)
               ELSE Out(o.r, Push(o.ev, [kind |-> "Navigate", url |-> o.r.v.s]))
          [] OTHER -> o
  IN  CASE a.a = "NetworkCall" -> NetworkCall(a, fns, ev)
        [] a.a = "Assign" /\ a.target \in ev.comps -> Out(Err("ExecutionError"), ev)
        [] OTHER -> done(evaluate(a.e, 0, fns, ev))
=============================================================================
