------------------------------- MODULE Parser -------------------------------
(***************************************************************************)
(* The parser of the logic block (crates/core/src/parser/logic/parse): the *)
(* Pratt parser of expressions, types and definitions, the passes that     *)
(* share the lines of a block, and actions.                                *)
(*                                                                         *)
(* It starts from tokens.  An Ident has its name s and its bytes key; a    *)
(* Num the number n it spells, in units of 1/Scale if it is a float.  "->" *)
(* is Minus and Gt.  String literals hold no comma, "=" or parenthesis.    *)
(* A word that begins an action touches the parenthesis behind it; a space *)
(* stands before any other token there.                                    *)
(***************************************************************************)
EXTENDS Wire

CONSTANTS
  MAX_PARSE_DEPTH, MAX_ROOT_TIMERS,
  ReservedHeaders,  \* the strings that are reserved, or no header names
  Capitals          \* the lower case of each word that has capitals

ASSUME ParserAssumption == MAX_PARSE_DEPTH \in Nat /\ MAX_ROOT_TIMERS \in Nat

Tok(t) == [t |-> t]

\* A cursor is the tokens that are left.
peek(c) == IF c = <<>> THEN "None" ELSE Head(c).t
AtWord(c, w) == peek(c) = "Ident" /\ Head(c).s = w
Lowered(word) == IF word \in DOMAIN Capitals THEN Capitals[word] ELSE word
SkipComma(c) == IF peek(c) = "Comma" THEN Tail(c) ELSE c

Parsed(e, c, arena) == Ok([e |-> e, c |-> c, arena |-> arena])

AllocAll(arena, es) ==
  LET one(acc, e) == LET b == alloc(acc.arena, e) IN [arena |-> b.arena, ids |-> Append(acc.ids, b.id)]
  IN  FoldLeft(one, [arena |-> arena, ids |-> <<>>], es)

Literal(v) == [k |-> "lit", v |-> v]

\* i64::from_str refuses what f64 as i64 saturates.
NumLiteral(tok) ==
  IF tok.float THEN Ok(Literal(Decimal(Min({tok.n, IntMax}))))
  ELSE IF tok.n <= IntMax THEN Ok(Literal(Int_(tok.n))) ELSE Refused

BinOps ==
  [Plus |-> "add", Minus |-> "sub", Star |-> "mul", Slash |-> "div", EqEq |-> "eq", BangEq |-> "ne", Lt |-> "lt",
   Gt |-> "gt", LtEq |-> "le", GtEq |-> "ge", AndAnd |-> "and", OrOr |-> "or"]

LeftPower ==
  [or |-> 1, and |-> 3, eq |-> 5, ne |-> 5, lt |-> 7, gt |-> 7, le |-> 7, ge |-> 7, add |-> 10, sub |-> 10,
   mul |-> 20, div |-> 20]

infix_binding_power(op) == [left |-> LeftPower[op], right |-> LeftPower[op] + 1]

FILTER_OPS == {"eq", "ne", "lt", "le", "gt", "ge", "contains"}

\* Mutation: a word that names an operator is one wherever it stands.
keyword_anywhere(c) == peek(c) = "Ident" /\ Head(c).s \in FILTER_OPS

\* A word is the operator of filter only where a fourth argument follows.
is_op_keyword(c) == peek(c) = "Ident" /\ Head(c).s \in FILTER_OPS /\ peek(Tail(c)) = "Comma"

Keyword(w) == Literal([t |-> "str", s |-> w])

RECURSIVE parse_expr(_, _, _, _), Prefix(_, _, _), Infix(_, _, _, _, _), parse_call_args(_, _, _)

\* The first two arguments of sort and of filter, their commas optional.
ListAndField(c, depth, arena) ==
  Then(parse_expr(c, 0, depth + 1, arena),
       LAMBDA l : Then(parse_expr(SkipComma(l.c), 0, depth + 1, l.arena),
                       LAMBDA f : Parsed(<<l.e, f.e>>, SkipComma(f.c), f.arena)))

parse_sort_call_args(c, depth, arena) ==
  Then(ListAndField(c, depth, arena),
       LAMBDA two : IF AtWord(two.c, "asc") \/ AtWord(two.c, "desc")
                    THEN Parsed(Append(two.e, Keyword(Head(two.c).s)), Tail(two.c), two.arena) ELSE Refused)

parse_filter_call_args(c, depth, arena) ==
  LET value(two, op, rest) ==
        Then(parse_expr(rest, 0, depth + 1, two.arena),
             LAMBDA v : Parsed(two.e \o <<Keyword(op), v.e>>, v.c, v.arena))
  IN  Then(ListAndField(c, depth, arena),
           LAMBDA two : IF is_op_keyword(two.c) THEN value(two, Head(two.c).s, SkipComma(Tail(two.c)))
                        ELSE value(two, "eq", two.c))

\* Commas between arguments may be left out, and one may trail.
parse_call_args(c, depth, arena) ==
  IF peek(c) \in {"RParen", "None"} THEN Parsed(<<>>, c, arena)
  ELSE Then(parse_expr(c, 0, depth + 1, arena),
            LAMBDA arg : Then(parse_call_args(SkipComma(arg.c), depth, arg.arena),
                              LAMBDA more : Parsed(<<arg.e>> \o more.e, more.c, more.arena)))

ParseCall(name, c, depth, arena) ==
  LET node(args, ids, window) ==
        Parsed([k |-> "call", f |-> name, args_start |-> window.start, args_len |-> Len(ids)], Tail(args.c), window.arena)
      windowed(args, own) == node(args, own.ids, push_args(own.arena, own.ids))
      call(args) ==
        IF /\ peek(args.c) = "RParen"
           /\ name = "get_system_time" => Len(args.e) = 1 /\ args.e[1].k = "var"
        THEN windowed(args, AllocAll(args.arena, args.e)) ELSE Refused
  IN  Then(CASE name = "sort" -> parse_sort_call_args(c, depth, arena)
             [] name = "filter" -> parse_filter_call_args(c, depth, arena)
             [] OTHER -> parse_call_args(c, depth, arena), call)

IfThenElse(c, depth, arena) ==
  LET done(e, l, r, p) == Parsed([k |-> "if", e |-> e.id, l |-> l.id, r |-> r.id], p.c, r.arena)
      otherwise(e, l, p) == IF AtWord(p.c, "else")
                            THEN Then(parse_expr(Tail(p.c), 0, depth + 1, l.arena),
                                      LAMBDA q : done(e, l, alloc(q.arena, q.e), q)) ELSE Refused
      then(e, p) == IF AtWord(p.c, "then")
                    THEN Then(parse_expr(Tail(p.c), 0, depth + 1, e.arena),
                              LAMBDA q : otherwise(e, alloc(q.arena, q.e), q)) ELSE Refused
  IN  Then(parse_expr(c, 0, depth + 1, arena), LAMBDA p : then(alloc(p.arena, p.e), p))

\* A literal takes the sign; anything else becomes 0 - operand.
Negated(p) ==
  LET minus(two) == Parsed([k |-> "bin", op |-> "sub", l |-> two.ids[1], r |-> two.ids[2]], p.c, two.arena)
  IN  CASE p.e.k = "lit" /\ p.e.v.t = "int" -> Parsed(Literal(Int_(-p.e.v.i)), p.c, p.arena)
        [] p.e.k = "lit" /\ p.e.v.t = "dec" -> Parsed(Literal(Decimal(-p.e.v.d)), p.c, p.arena)
        [] OTHER -> minus(AllocAll(p.arena, <<Literal(Int_(0)), p.e>>))

Prefix(c, depth, arena) ==
  LET tok == Head(c)
      not(p, operand) == Parsed([k |-> "not", e |-> operand.id], p.c, operand.arena)
  IN  CASE peek(c) = "Num" -> Then(NumLiteral(tok), LAMBDA lit : Parsed(lit, Tail(c), arena))
        [] peek(c) = "Bool" -> Parsed(Literal(Bool(tok.b)), Tail(c), arena)
        [] peek(c) = "Str" -> Parsed(Literal(String(tok.s)), Tail(c), arena)
        [] AtWord(c, "if") -> IfThenElse(Tail(c), depth, arena)
        [] peek(c) = "Ident" /\ ~AtWord(c, "if") ->
             IF peek(Tail(c)) = "LParen" THEN ParseCall(tok.s, Tail(Tail(c)), depth, arena)
             ELSE Parsed([k |-> "var", s |-> tok.s], Tail(c), arena)
        [] peek(c) = "Minus" -> Then(parse_expr(Tail(c), 30, depth + 1, arena), Negated)
        [] peek(c) = "Bang" ->
             Then(parse_expr(Tail(c), 30, depth + 1, arena), LAMBDA p : not(p, alloc(p.arena, p.e)))
        [] peek(c) = "LParen" ->
             Then(parse_expr(Tail(c), 0, depth + 1, arena),
                  LAMBDA p : IF peek(p.c) = "RParen" THEN Parsed(p.e, Tail(p.c), p.arena) ELSE Refused)
        [] OTHER -> Refused

Infix(lhs, c, min_bp, depth, arena) ==
  LET field(base) == Infix([k |-> "field", e |-> base.id, f |-> c[2].key], Tail(Tail(c)), min_bp, depth, base.arena)
      choice(ids, a, rest) == Infix([k |-> "if", e |-> ids[1], l |-> ids[2], r |-> ids[3]], rest, min_bp, depth, a)
      binary(op, ids, a, rest) == Infix([k |-> "bin", op |-> op, l |-> ids[1], r |-> ids[2]], rest, min_bp, depth, a)
      chosen(three, r) == choice(three.ids, three.arena, r.c)
      combined(op, two, r) == binary(op, two.ids, two.arena, r.c)
  IN  CASE peek(c) = "Dot" /\ 50 >= min_bp ->
             IF peek(Tail(c)) # "Ident" THEN Refused ELSE field(alloc(arena, lhs))
        [] peek(c) = "Question" /\ min_bp = 0 ->
             Then(parse_expr(Tail(c), 0, depth + 1, arena),
                  LAMBDA l : IF peek(l.c) # "Colon" THEN Refused
                             ELSE Then(parse_expr(Tail(l.c), 0, depth + 1, l.arena),
                                       LAMBDA r : chosen(AllocAll(r.arena, <<lhs, l.e, r.e>>), r)))
        [] peek(c) \in DOMAIN BinOps /\ infix_binding_power(BinOps[peek(c)]).left >= min_bp ->
             Then(parse_expr(Tail(c), infix_binding_power(BinOps[peek(c)]).right, depth + 1, arena),
                  LAMBDA r : combined(BinOps[peek(c)], AllocAll(r.arena, <<lhs, r.e>>), r))
        [] OTHER -> Parsed(lhs, c, arena)

\* The node it returns is not yet in the arena.
parse_expr(c, min_bp, depth, arena) ==
  IF depth > MAX_PARSE_DEPTH THEN Refused
  ELSE Then(Prefix(c, depth, arena),
            LAMBDA lhs : IF AtWord(c, "if") THEN Ok(lhs) ELSE Infix(lhs.e, lhs.c, min_bp, depth, lhs.arena))

Rooted(p) == LET b == alloc(p.arena, p.e) IN [tree |-> b.arena @@ [root |-> b.id], c |-> p.c]

parse_expr_tree(c) == Then(parse_expr(c, 0, 0, EmptyArena), LAMBDA p : Ok(Rooted(p)))

assert_cursor_empty(c) == \A i \in DOMAIN c : c[i].t \in {"Newline", "Indent", "Dedent"}

\* A source of one line, as lex ends it.
lexed(toks) == IF toks = <<>> THEN <<>> ELSE Append(toks, Tok("Newline"))

\* Trailing tokens are refused, or dropped.
WholeExpr(toks) ==
  Then(parse_expr_tree(lexed(toks)), LAMBDA p : IF assert_cursor_empty(p.c) THEN Ok(p.tree) ELSE Refused)
LeadingExpr(toks) == Then(parse_expr_tree(lexed(toks)), LAMBDA p : Ok(p.tree))

parse_expr_standalone(toks) == WholeExpr(toks)

-----------------------------------------------------------------------------
\* Definitions.

TypeNames ==
  [num |-> Num, number |-> Num, string |-> Str, str |-> Str, bool |-> Boolean, boolean |-> Boolean]

Typed_(type, c) == Ok([type |-> type, c |-> c])

RECURSIVE parse_type(_), parse_fields(_)
parse_type(c) ==
  LET name == IF peek(c) = "Ident" THEN Lowered(Head(c).s) ELSE ""
      base == CASE name \in DOMAIN TypeNames -> Typed_(TypeNames[name], Tail(c))
                [] name = "list" ->
                     IF peek(Tail(c)) # "Lt" THEN Refused
                     ELSE Then(parse_type(Tail(Tail(c))),
                               LAMBDA inner : IF peek(inner.c) # "Gt" THEN Refused
                                              ELSE Typed_([ty |-> "list", of |-> inner.type], Tail(inner.c)))
                [] name = "record" ->
                     IF peek(Tail(c)) # "LBrace" THEN Refused
                     ELSE Then(parse_fields(Tail(Tail(c))),
                               LAMBDA r : IF peek(r.c) # "RBrace" THEN Refused
                                          ELSE Typed_([ty |-> "rec",
                                                       fs |-> SortSeq(r.fs, LAMBDA a, b : StrCmp(a.key, b.key) < 0)],
                                                      Tail(r.c)))
                [] OTHER -> Refused
  IN  Then(base, LAMBDA b : IF peek(b.c) = "Question" THEN Typed_([ty |-> "nullable", of |-> b.type], Tail(b.c))
                            ELSE Ok(b))

parse_fields(c) ==
  IF peek(c) \in {"RBrace", "None"} THEN Ok([fs |-> <<>>, c |-> c])
  ELSE IF peek(c) # "Ident" \/ peek(Tail(c)) # "Colon" THEN Refused
  ELSE Then(parse_type(Tail(Tail(c))),
            LAMBDA p : Then(parse_fields(SkipComma(p.c)),
                            LAMBDA more : Ok([fs |-> <<[key |-> Head(c).key, type |-> p.type]>> \o more.fs,
                                              c |-> more.c])))

RECURSIVE parse_params(_)
parse_params(c) ==
  IF peek(c) \in {"None", "Newline"} THEN Ok(<<>>)
  ELSE IF peek(c) # "Ident" \/ peek(Tail(c)) # "Colon" THEN Refused
  ELSE Then(parse_type(Tail(Tail(c))),
            LAMBDA p : Then(parse_params(SkipComma(p.c)),
                            LAMBDA more : Ok(<<[s |-> Head(c).s, type |-> p.type]>> \o more)))

\* Where a token first stands, 0 where it does not.
Find(toks, t) == Min({Len(toks) + 1} \cup {i \in DOMAIN toks : toks[i].t = t}) % (Len(toks) + 1)

\* The text of some tokens, where a name is expected.
TextOf(toks) == IF Len(toks) = 1 /\ toks[1].t = "Ident" THEN toks[1].s ELSE "(not a name)"

looks_like_binding(toks) == Find(toks, "Eq") = 2 /\ toks[1].t = "Ident"

Before(toks, i) == SubSeq(toks, 1, i - 1)
After(toks, i) == SubSeq(toks, i + 1, Len(toks))

\* The lines of a body share one arena; the last is parsed first.
parse_multiline_body(lines) ==
  LET let(toks, two) ==
        Parsed([k |-> "let", s |-> toks[1].s, e |-> two.ids[1], b |-> two.ids[2]], <<>>, two.arena)
      wrap(acc, toks) ==
        Then(acc, LAMBDA below :
          IF ~looks_like_binding(toks) THEN Refused
          ELSE Then(parse_expr(lexed(After(toks, 2)), 0, 0, below.arena),
                    LAMBDA p : let(toks, AllocAll(p.arena, <<p.e, below.e>>))))
  IN  IF lines = <<>> \/ looks_like_binding(Last(lines)) THEN Refused
      ELSE Then(FoldLeft(wrap, parse_expr(lexed(Last(lines)), 0, 0, EmptyArena), Reverse(Front(lines))),
                LAMBDA p : Ok(Rooted(p).tree))

\* A variable, or a function with its body on its line or on those below.  The
\* lines below a definition that has its body are dropped.
parse_function_block(lines) ==
  LET header == Head(lines)
      open == Find(header, "LParen")
      defined(at, params, body) ==
        Then(body, LAMBDA tree : Ok([name |-> TextOf(Before(header, at)), fn |-> [params |-> params, body |-> tree]]))
      function(inside, close) ==
        IF open < 2 \/ close = 0 THEN Refused
        ELSE Then(parse_params(lexed(Before(inside, close))), LAMBDA params :
               defined(open, params, IF peek(After(inside, close)) = "Colon" THEN LeadingExpr(After(inside, close + 1))
                                     ELSE parse_multiline_body(Tail(lines))))
  IN  IF looks_like_binding(header) THEN defined(2, <<>>, LeadingExpr(After(header, 2)))
      ELSE function(After(header, open), Find(After(header, open), "RParen"))

-----------------------------------------------------------------------------
\* The lines of a block, which three passes read.  A line has its indent and
\* its tokens; one that declares a timer also has the text of the interval.

\* The written lines, and the least indent of them.
Written(lines) == SelectSeq(lines, LAMBDA l : l.toks # <<>>)
baseline(lines) == IF Written(lines) = <<>> THEN 0 ELSE Min({l.indent : l \in Range(Written(lines))})
AtRoot(lines, line) == line.indent = baseline(lines)

Declares(line, w) == AtWord(line.toks, w) /\ peek(Tail(line.toks)) \notin {"LParen", "None"}
BareTimer(line) == AtWord(line.toks, "timer") /\ Len(line.toks) = 1

LeftToOthers(lines, line) ==
  AtRoot(lines, line) /\ (Declares(line, "timer") \/ BareTimer(line) \/ Declares(line, "comp"))

\* A definition and the lines below it that are further in.
Groups(lines) ==
  LET add(acc, line) ==
        CASE LeftToOthers(lines, line) -> [done |-> acc.done \o acc.open, open |-> <<>>]
          [] ~LeftToOthers(lines, line) /\ (AtRoot(lines, line) \/ acc.open = <<>>) ->
               [done |-> acc.done \o acc.open, open |-> <<<<line.toks>>>>]
          [] OTHER -> [acc EXCEPT !.open = <<Append(Head(@), line.toks)>>]
      all == FoldLeft(add, [done |-> <<>>, open |-> <<>>], Written(lines))
  IN  all.done \o all.open

\* The expression of a tree that has no cycle.
Spelled(tree) == Walk(tree, tree.root, Len(tree.nodes) + 1, Literal(Null))

\* Of two definitions of one name the later stays.
parse_logic(lines) ==
  LET last(defs, name) == Max({i \in DOMAIN defs : defs[i].name = name})
      table(defs) == [name \in {d.name : d \in Range(defs)} |-> defs[last(defs, name)].fn]
      checked(fns) == IF check_dag([f \in DOMAIN fns |-> [fns[f] EXCEPT !.body = Spelled(@)]]) THEN Ok(fns) ELSE Refused
  IN  Then(Collect(Each(Groups(lines), parse_function_block)), LAMBDA defs : checked(table(defs)))

\* The text of an interval, cut before a suffix "ms" or "s".  The suffix of a
\* name is dropped as that of a number is.
ParseInterval(text) ==
  IF ~text.num THEN [i |-> "Variable", name |-> text.base]
  ELSE [i |-> "Millis", ms |-> IF text.suffix = "s" THEN 1000 * text.base ELSE text.base]

-----------------------------------------------------------------------------
\* Actions.

Arrow(toks) ==
  Min({Len(toks) + 1} \cup {i \in 1..(Len(toks) - 1) : toks[i].t = "Minus" /\ toks[i + 1].t = "Gt"}) % (Len(toks) + 1)

find_matching_paren(toks) ==
  LET depth(i) == Cardinality({j \in 1..i : toks[j].t = "LParen"}) - Cardinality({j \in 1..i : toks[j].t = "RParen"})
  IN  Min({Len(toks) + 1} \cup {i \in DOMAIN toks : toks[i].t = "RParen" /\ depth(i) = 0}) % (Len(toks) + 1)

\* splitn(3, ','): the third part keeps its commas.
SplitArgs(toks) ==
  LET i == Find(toks, "Comma")
      rest == After(toks, i)
      j == Find(rest, "Comma")
  IN  CASE i = 0 -> <<toks>> [] i # 0 /\ j = 0 -> <<Before(toks, i), rest>>
        [] OTHER -> <<Before(toks, i), Before(rest, j), After(rest, j)>>

Verbs == [GET |-> FALSE, DELETE |-> FALSE, POST |-> TRUE, PUT |-> TRUE, QUERY |-> TRUE]
Formats == {"json", "form", "text", "yaml", "multipart"}

\* An argument that may be missing or empty.
Optional(args, i) ==
  IF i \notin DOMAIN args \/ args[i] = <<>> THEN Ok(<<>>)
  ELSE Then(LeadingExpr(args[i]), LAMBDA e : Ok(<<e>>))

validate_header_name(s) == s \notin ReservedHeaders

RECURSIVE parse_headers(_)
parse_headers(c) ==
  IF ~AtWord(c, "header") THEN Ok([hs |-> <<>>, c |-> c])
  ELSE IF peek(Tail(c)) # "Str" \/ ~validate_header_name(c[2].s) THEN Refused
  ELSE Then(parse_expr_tree(Tail(Tail(c))),
            LAMBDA e : Then(parse_headers(e.c), LAMBDA more : Ok([more EXCEPT !.hs = <<e.tree>> \o @])))

\* The registry, where there is one, maps an alias to the kind of its endpoint.
Allows(registry, alias, kind) ==
  registry = <<>> \/ (alias \in DOMAIN registry[1] /\ registry[1][alias] = kind)

parse_network_call(method, toks, registry) ==
  LET body == Verbs[method]
      call(args, target, format, payload, path_param, headers) ==
        IF payload.ok /\ path_param.ok /\ headers.ok /\ assert_cursor_empty(headers.v.c)
        THEN Ok([a |-> "NetworkCall", method |-> method, alias |-> TextOf(args[1]), payload |-> payload.v,
                 path_param |-> path_param.v, target |-> target, headers |-> headers.v.hs, format |-> format])
        ELSE Refused
      checked(args, rhs, named) ==
        IF /\ peek(rhs) = "Ident" /\ (named => peek(After(rhs, 2)) = "Ident" /\ rhs[3].s \in Formats)
           /\ args[1] # <<>> /\ Allows(registry, TextOf(args[1]), "api")
           /\ ~body => ~(3 \in DOMAIN args /\ args[3] # <<>>)
        THEN call(args, rhs[1].s, IF named THEN rhs[3].s ELSE "json",
                  IF body THEN Optional(args, 2) ELSE Ok(<<>>), Optional(args, IF body THEN 3 ELSE 2),
                  parse_headers(IF named THEN After(rhs, 3) ELSE Tail(rhs)))
        ELSE Refused
      split(args, rhs) == checked(args, rhs, AtWord(Tail(rhs), "as"))
      closed(close, after) ==
        IF close # 0 /\ Arrow(after) = 1 THEN split(SplitArgs(SubSeq(toks, 2, close - 1)), lexed(After(after, 2)))
        ELSE Refused
  IN  closed(find_matching_paren(toks), After(toks, find_matching_paren(toks)))

\* A verb in any case where no call of an upper-case verb stands.
miscased(word, call) ==
  Lowered(word) \in {"get", "post", "put", "delete"} \/ (call /\ Lowered(word) = "query")

\* What follows the last parenthesis is dropped.
parse_download(toks, registry) ==
  LET close == Max({0} \cup {i \in DOMAIN toks : toks[i].t = "RParen"})
      alias == SubSeq(toks, 3, close - 1)
  IN  IF alias # <<>> /\ Allows(registry, TextOf(alias), "media")
      THEN Ok([a |-> "Eval", e |-> LeadingExpr(SubSeq(toks, 1, 2) \o <<alias[1], Tok("RParen")>>).v]) ELSE Refused

\* An assignment is not asked whether its left side is a name.
parse_action_with_urls(toks, registry) ==
  LET call == peek(toks) = "Ident" /\ peek(Tail(toks)) = "LParen"
      word == IF peek(toks) = "Ident" /\ Len(toks) > 1 THEN toks[1].s ELSE ""
      eq == Find(toks, "Eq")
      act(a, p) == Then(p, LAMBDA e : Ok(a @@ [e |-> e]))
  IN  IF call /\ word \in DOMAIN Verbs THEN parse_network_call(word, Tail(toks), registry)
      ELSE IF miscased(word, call) THEN Refused
      ELSE IF call /\ word = "download" THEN parse_download(toks, registry)
      ELSE IF ~call /\ word = "navigate" THEN act([a |-> "Navigate"], WholeExpr(Tail(toks)))
      ELSE IF eq = 1 THEN Refused
      ELSE IF eq # 0 THEN act([a |-> "Assign", target |-> TextOf(Before(toks, eq))], WholeExpr(After(toks, eq)))
      ELSE act([a |-> "Eval"], WholeExpr(toks))

\* The timers of a block, at most MAX_ROOT_TIMERS; a bare "timer" is none.
parse_root_timers(lines) ==
  LET own == SelectSeq(Written(lines), LAMBDA l : AtRoot(lines, l) /\ Declares(l, "timer"))
      one(l) ==
        IF Arrow(l.toks) = 0 THEN Refused
        ELSE Then(parse_action_with_urls(After(l.toks, Arrow(l.toks) + 1), <<>>),
                  LAMBDA act : Ok([interval |-> ParseInterval(l.interval), action |-> act]))
  IN  IF Len(own) <= MAX_ROOT_TIMERS THEN Collect(Each(own, one)) ELSE Refused

\* The comps of a block as they are declared.
parse_comp_lines(lines) ==
  LET own == SelectSeq(Written(lines), LAMBDA l : AtRoot(lines, l) /\ Declares(l, "comp"))
      comp(decl, eq) ==
        IF eq < 2 THEN Refused
        ELSE Then(WholeExpr(After(decl, eq)), LAMBDA e : Ok([name |-> TextOf(Before(decl, eq)), e |-> e]))
      one(l) == comp(Tail(l.toks), Find(Tail(l.toks), "Eq"))
  IN  Collect(Each(own, one))

=============================================================================
