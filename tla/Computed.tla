------------------------------ MODULE Computed ------------------------------
(***************************************************************************)
(* Computed variables (crates/core/src/parser/logic/comp.rs): how a comp's *)
(* dependencies are collected, the order comps are kept in, the rejection  *)
(* of cycles among comps and among functions (parse/entry.rs, check_dag),  *)
(* and the incremental recomputation after a mutation.                     *)
(***************************************************************************)
EXTENDS Evaluator

\* A comp as it is declared is [name, e]; parsed, it also has deps and tainted.

SubExprs(e) ==
  CASE e.k \in {"lit", "var"} -> <<>>
    [] e.k = "bin" -> <<e.l, e.r>>
    [] e.k = "call" -> e.args
    [] e.k = "let" -> <<e.e, e.b>>
    [] e.k \in {"not", "field"} -> <<e.e>>
    [] e.k = "if" -> <<e.e, e.l, e.r>>

RECURSIVE collect_vars(_)
collect_vars(e) ==
  IF e.k = "var" THEN {e.s}
  ELSE UNION {collect_vars(SubExprs(e)[i]) : i \in DOMAIN SubExprs(e)}

\* The name a let binds is not in scope in its own initialiser.
RECURSIVE collect_free_vars(_, _)
collect_free_vars(e, bound) ==
  CASE e.k = "var" -> {e.s} \ bound
    [] e.k = "let" -> collect_free_vars(e.e, bound) \cup collect_free_vars(e.b, bound \cup {e.s})
    [] OTHER -> UNION {collect_free_vars(SubExprs(e)[i], bound) : i \in DOMAIN SubExprs(e)}

\* Every call, and every variable that names a function.
RECURSIVE collect_calls(_, _)
collect_calls(e, function_names) ==
  (CASE e.k = "call" -> {e.f} [] e.k = "var" -> {e.s} \cap function_names [] OTHER -> {})
    \cup UNION {collect_calls(SubExprs(e)[i], function_names) : i \in DOMAIN SubExprs(e)}

\* The functions a worklist of calls reaches.
RECURSIVE Reached(_, _)
Reached(work, fns) ==
  LET more == work \cup UNION {collect_calls(fns[f].body, DOMAIN fns) : f \in work \cap DOMAIN fns}
  IN  IF more = work THEN work \cap DOMAIN fns ELSE Reached(more, fns)

ParamNames(f) == {f.params[i].s : i \in DOMAIN f.params}

collect_reachable_function_reads(e, fns) ==
  UNION {collect_free_vars(fns[f].body, ParamNames(fns[f])) : f \in Reached(collect_calls(e, DOMAIN fns), fns)}

depends_on(c, fns) == (collect_vars(c.e) \cup collect_reachable_function_reads(c.e, fns)) \ {c.name}

-----------------------------------------------------------------------------
\* Kahn's algorithm, on comps and on the call graph of functions.

\* Indices in the order they leave the queue; dependents join it in index order.
RECURSIVE Kahn(_, _, _, _)
Kahn(n, pre, order, queue) ==
  IF queue = <<>> THEN order
  ELSE LET i == Head(queue)
           out == Append(order, i)
           ready == {j \in 1..n : i \in pre[j] /\ pre[j] \subseteq Range(out)}
       IN  Kahn(n, pre, out, Tail(queue) \o SetToSortSeq(ready, <))

\* Of two comps of one name the later is the one a dependent waits for.
topo_sort_computed(bindings) ==
  LET n == Len(bindings)
      comp_index == [s \in {bindings[j].name : j \in 1..n} |-> Max({j \in 1..n : bindings[j].name = s})]
      pre == [i \in 1..n |-> {comp_index[s] : s \in bindings[i].deps \cap DOMAIN comp_index}]
      order == Kahn(n, pre, <<>>, SetToSortSeq({i \in 1..n : pre[i] = {}}, <))
  IN  IF Len(order) # n THEN Err("ParseError") ELSE Ok([i \in 1..n |-> bindings[order[i]]])

\* Leaves first: a set of functions none of which is left over calls a cycle.
RECURSIVE Peel(_, _)
Peel(left, calls) ==
  LET free == {f \in left : \A g \in left : f \notin calls[g]}
  IN  IF free = {} THEN left ELSE Peel(left \ free, calls)

check_dag(fns) ==
  Peel(DOMAIN fns, [f \in DOMAIN fns |-> collect_calls(fns[f].body, DOMAIN fns)]) = {}

parse_computed_with_functions(comps, fns, max_comp_bindings) ==
  IF Len(comps) > max_comp_bindings THEN Err("ParseError")
  ELSE topo_sort_computed([i \in DOMAIN comps |->
         [name |-> comps[i].name, e |-> comps[i].e, deps |-> depends_on(comps[i], fns), tainted |-> FALSE]])

-----------------------------------------------------------------------------
\* Recomputation.  spent has one instruction pool per taint class.

build_comp_reverse_index(bindings) ==
  [s \in UNION {bindings[i].deps : i \in DOMAIN bindings} |-> {i \in DOMAIN bindings : s \in bindings[i].deps}]

\* Mutation: an entry keeps one dependent.
one_dependent(index, s) == IF s \in DOMAIN index THEN {Min(index[s])} ELSE {}

Dependents(index, s) == IF s \in DOMAIN index THEN index[s] ELSE {}

pool_exhausted(tainted, spent) == spent[tainted] > max_instructions

\* One binding evaluated from its own pool.  A value is stored; an error, a
\* timeout among them, leaves the old one.
RunBinding(acc, cb, fns) ==
  LET keep(o) == [ev |-> IF o.r.ok THEN set_global(o.ev, cb.name, o.r.v) ELSE o.ev,
                  spent |-> [acc.spent EXCEPT ![cb.tainted] = o.ev.n],
                  changed |-> IF o.r.ok THEN acc.changed \cup {cb.name} ELSE acc.changed]
  IN  keep(evaluate(cb.e, 0, fns, [acc.ev EXCEPT !.n = acc.spent[cb.tainted]]))

RECURSIVE Cascade(_, _, _, _, _)
Cascade(bindings, index, fns, candidates, acc) ==
  IF candidates = {} THEN acc
  ELSE LET i == Min(candidates)
           cb == bindings[i]
           rest == candidates \ {i}
           new(next) == IF next.changed = acc.changed THEN {} ELSE Dependents(index, cb.name)
           go(next) == Cascade(bindings, index, fns, rest \cup new(next), next)
       IN  IF (cb.deps # {} /\ cb.deps \cap acc.changed = {}) \/ pool_exhausted(cb.tainted, acc.spent)
           THEN Cascade(bindings, index, fns, rest, acc)
           ELSE go(RunBinding(acc, cb, fns))

NoneSpent == [t \in BOOLEAN |-> 0]

recompute_computed_bindings(ev, bindings, fns, mutated, index) ==
  LET seeds == UNION {Dependents(index, s) : s \in mutated}
        \cup {i \in DOMAIN bindings : bindings[i].deps = {} /\ ev.globals[bindings[i].name] = Null}
  IN  Cascade(bindings, index, fns, seeds, [ev |-> ev, spent |-> NoneSpent, changed |-> mutated]).ev

\* The reference: every binding in order, whether or not the index reaches it.
naive_scan(ev, bindings, fns, mutated) ==
  LET step(acc, cb) ==
        LET pending == cb.deps = {} /\ acc.ev.globals[cb.name] = Null
        IN  IF (~pending /\ cb.deps \cap acc.changed = {}) \/ pool_exhausted(cb.tainted, acc.spent) THEN acc
            ELSE RunBinding(acc, cb, fns)
  IN  FoldLeft(step, [ev |-> ev, spent |-> NoneSpent, changed |-> mutated], bindings).ev
=============================================================================
