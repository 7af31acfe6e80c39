---------------------------- MODULE StaticChecks ----------------------------
(***************************************************************************)
(* The load-time checks of a document's logic: information flow            *)
(* (parser/flow), inferred types (parser/typecheck) and purity             *)
(* (parser/logic/purity.rs).  They only read the document.                 *)
(*                                                                         *)
(* A document is a record: names, the interner's table in order; fns, its  *)
(* functions, a variable being one without parameters; comps, its computed *)
(* bindings in topological order; clicks and submits, actions by node; and *)
(* timers, a sequence of actions.                                          *)
(***************************************************************************)
EXTENDS Computed

NamesOf(doc) == Range(doc.names)

\* Actions a user's gesture runs, and those the clock runs.
Gestured(doc) == Range(doc.clicks) \cup Range(doc.submits)
ActionsOf(doc) == Gestured(doc) \cup Range(doc.timers)

action_exprs(a) ==
  IF a.a = "NetworkCall" THEN a.payload \o a.path_param \o a.headers ELSE <<a.e>>

-----------------------------------------------------------------------------
\* Information flow.

\* Every name read or called; get_system_time's argument is walked like any.
RECURSIVE extract_deps(_)
extract_deps(e) ==
  (CASE e.k = "var" -> {e.s} [] e.k = "call" -> {e.f} \ {"get_system_time"} [] OTHER -> {})
    \cup UNION {extract_deps(SubExprs(e)[i]) : i \in DOMAIN SubExprs(e)}

FlowSources(doc) ==
  ({"$form"} \cup {a.target : a \in {b \in ActionsOf(doc) : b.a = "NetworkCall"}}) \cap NamesOf(doc)

\* Mutation: taint does not pass through computed bindings.
taint_skips_comps(doc, t) ==
  LET work == t.vars \cup t.fns
      assigns == {a \in ActionsOf(doc) : a.a = "Assign" /\ a.target \in NamesOf(doc)}
  IN  [vars |-> t.vars \cup {a.target : a \in {b \in assigns : extract_deps(b.e) \cap work # {}}},
       fns |-> t.fns \cup {f \in DOMAIN doc.fns : extract_deps(doc.fns[f].body) \cap work # {}}]

\* One round of the worklist: what depends on a tainted name is tainted.
TaintStep(doc, t) ==
  LET work == t.vars \cup t.fns
      assigns == {a \in ActionsOf(doc) : a.a = "Assign" /\ a.target \in NamesOf(doc)}
  IN  [vars |-> t.vars
                  \cup {doc.comps[i].name : i \in {j \in DOMAIN doc.comps :
                                                     extract_deps(doc.comps[j].e) \cap work # {}}}
                  \cup {a.target : a \in {b \in assigns : extract_deps(b.e) \cap work # {}}},
       fns |-> t.fns \cup {f \in DOMAIN doc.fns : extract_deps(doc.fns[f].body) \cap work # {}}]

RECURSIVE TaintFixpoint(_, _)
TaintFixpoint(doc, t) == IF TaintStep(doc, t) = t THEN t ELSE TaintFixpoint(doc, TaintStep(doc, t))

Taints(doc) == TaintFixpoint(doc, [vars |-> FlowSources(doc), fns |-> {}])

RECURSIVE is_expr_tainted(_, _)
is_expr_tainted(e, t) ==
  CASE e.k = "var" -> e.s \in t.vars
    [] e.k = "call" -> /\ e.f # "get_system_time"
                       /\ e.f \in t.fns \/ \E i \in DOMAIN e.args : is_expr_tainted(e.args[i], t)
    [] OTHER -> \E i \in DOMAIN SubExprs(e) : is_expr_tainted(SubExprs(e)[i], t)

RECURSIVE collect_get_system_time_targets(_)
collect_get_system_time_targets(e) ==
  (IF e.k = "call" /\ e.f = "get_system_time" /\ Len(e.args) = 1 /\ e.args[1].k = "var"
   THEN {e.args[1].s} ELSE {})
    \cup UNION {collect_get_system_time_targets(SubExprs(e)[i]) : i \in DOMAIN SubExprs(e)}

AllExprs(doc) ==
  {doc.fns[f].body : f \in DOMAIN doc.fns} \cup {doc.comps[i].e : i \in DOMAIN doc.comps}
    \cup UNION {Range(action_exprs(a)) : a \in ActionsOf(doc)}

\* A clock may not be written into a comp.
TimeTargetsOk(doc) ==
  \A e \in AllExprs(doc) : \A s \in collect_get_system_time_targets(e) :
     \A i \in DOMAIN doc.comps : doc.comps[i].name # s

\* The comps with their taint class.
MarkComps(doc) ==
  [i \in DOMAIN doc.comps |-> [doc.comps[i] EXCEPT !.tainted = doc.comps[i].name \in Taints(doc).vars]]

\* The sinks: a navigation nobody asked for may not go to a tainted place.
SinksOk(doc) ==
  \A a \in Range(doc.timers) : a.a = "Navigate" => ~is_expr_tainted(a.e, Taints(doc))

check_information_flow(doc) ==
  IF TimeTargetsOk(doc) /\ SinksOk(doc) THEN Ok([doc EXCEPT !.comps = MarkComps(doc)])
  ELSE Err("ParseError")

-----------------------------------------------------------------------------
\* Types.  An inferred type is optional: <<>> is dynamic.

Num == [ty |-> "num"]
Str == [ty |-> "str"]
Boolean == [ty |-> "bool"]

LiteralType(v) ==
  CASE v.t \in {"int", "dec"} -> <<Num>>
    [] v.t = "str" -> <<Str>>
    [] v.t = "bool" -> <<Boolean>>
    [] v.t = "null" -> <<[ty |-> "nullable", of |-> Num]>>
    [] OTHER -> <<>>

\* Per built-in: what its first argument may be, and what it returns.
FirstArgument == [filter |-> {"list"}, count |-> {"list"}, sort |-> {"list"},
                  length |-> {"list", "str"}, to_string |-> {"num", "bool"},
                  contains |-> {"str"}, has_field |-> {"rec"}]

Returns(f, first) ==
  CASE f \in {"filter", "sort"} -> first
    [] f \in {"count", "length"} -> <<Num>>
    [] f = "to_string" -> <<Str>>
    [] f \in {"contains", "has_field"} -> <<Boolean>>

BuiltinType(f, first) ==
  IF first # <<>> /\ first[1].ty \notin FirstArgument[f] THEN Err("StaticTypeError")
  ELSE Ok(Returns(f, first))

FieldType(base, key) ==
  CASE base = <<>> -> Ok(<<>>)
    [] base # <<>> /\ base[1].ty # "rec" -> Err("StaticTypeError")
    [] OTHER -> LET hits == {i \in DOMAIN base[1].fs : base[1].fs[i].key = key}
                IN  IF hits = {} THEN Err("StaticTypeError") ELSE Ok(<<base[1].fs[Min(hits)].type>>)

Bind(env, s, ty) == [x \in DOMAIN env \cup {s} |-> IF x = s THEN ty ELSE env[x]]

RECURSIVE infer(_, _, _)
infer(e, env, fns) ==
  LET sub == [i \in DOMAIN SubExprs(e) |-> infer(SubExprs(e)[i], env, fns)]
      body == infer(e.b, Bind(env, e.s, sub[1].v), fns)
  IN  CASE e.k = "lit" -> Ok(LiteralType(e.v))
        [] e.k = "var" -> Ok(IF e.s \in DOMAIN env THEN env[e.s] ELSE <<>>)
        [] e.k = "let" -> IF sub[1].ok THEN body ELSE sub[1]
        [] OTHER ->
             CASE \E i \in DOMAIN sub : ~sub[i].ok -> Err("StaticTypeError")
               [] OTHER ->
                    CASE e.k = "bin" -> Ok(IF e.op \in {"add", "sub", "mul", "div"} THEN <<Num>> ELSE <<Boolean>>)
                      [] e.k = "not" -> Ok(<<Boolean>>)
                      [] e.k = "if" -> Ok(IF sub[2].v = sub[3].v THEN sub[2].v ELSE <<>>)
                      [] e.k = "field" -> FieldType(sub[1].v, e.f)
                      [] e.k = "call" ->
                           CASE e.f \in DOMAIN FirstArgument /\ Len(e.args) = Arity[e.f] ->
                                  BuiltinType(e.f, sub[1].v)
                             [] e.f \in DOMAIN fns /\ Len(e.args) # Len(fns[e.f].params) ->
                                  Err("StaticTypeError")
                             [] OTHER -> Ok(<<>>)

check_payload_format_shape(format, ty) ==
  \/ ty = <<>> \/ format \in {"json", "yaml"}
  \/ format = "text" /\ ty[1].ty = "str"
  \/ format = "multipart" /\ ty[1].ty = "rec"
  \/ format = "form" /\ ty[1].ty = "rec"
       /\ \A i \in DOMAIN ty[1].fs : ty[1].fs[i].type.ty \notin {"list", "rec"}

\* Inferred in topological order, each from those before it.
CompTypes(doc) ==
  FoldLeft(LAMBDA acc, c :
             LET ty == infer(c.e, acc.v, doc.fns)
             IN  IF ~acc.ok THEN acc ELSE IF ty.ok THEN Ok(Bind(acc.v, c.name, ty.v)) ELSE ty,
           Ok([s \in {} |-> s]), doc.comps)

check_action(a, env, fns) ==
  /\ \A i \in DOMAIN action_exprs(a) : infer(action_exprs(a)[i], env, fns).ok
  /\ a.a = "NetworkCall" /\ a.payload # <<>> =>
       check_payload_format_shape(a.format, infer(a.payload[1], env, fns).v)

check_types(doc) ==
  LET env == CompTypes(doc)
      with(f) == FoldLeft(LAMBDA acc, p : Bind(acc, p.s, <<p.type>>), env.v, f.params)
  IN  /\ env.ok
      /\ \A f \in DOMAIN doc.fns : infer(doc.fns[f].body, with(doc.fns[f]), doc.fns).ok
      /\ \A a \in ActionsOf(doc) : check_action(a, env.v, doc.fns)

-----------------------------------------------------------------------------
\* Purity of a class condition, or of a conditional's.

KNOWN_PURE_BUILTINS == {"filter", "count", "sort", "length", "to_string", "contains", "has_field"}

\* The calls that make an expression effectful.  A call to a function of the
\* document counts as pure, whatever its body calls.
RECURSIVE find_side_effect_call(_, _)
find_side_effect_call(e, fns) ==
  (IF e.k = "call" THEN {e.f} \ (DOMAIN fns \cup KNOWN_PURE_BUILTINS) ELSE {})
    \cup UNION {find_side_effect_call(SubExprs(e)[i], fns) : i \in DOMAIN SubExprs(e)}
=============================================================================
