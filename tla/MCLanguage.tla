----------------------------- MODULE MCLanguage -----------------------------
(***************************************************************************)
(* Three small documents whose tables give the same symbol to different    *)
(* variables.  Counter has a chain of comps, a form, a network call and a  *)
(* timer that fails after queueing a write; Clock has variables that       *)
(* depend on one another at load; Caller calls a function of two typed     *)
(* parameters with whatever the network sent.  Library is only evaluated:  *)
(* it calls every built-in.                                                *)
(***************************************************************************)
EXTENDS Language

Lit(v) == [k |-> "lit", v |-> v]
Var(s) == [k |-> "var", s |-> s]
Bin(op, l, r) == [k |-> "bin", op |-> op, l |-> l, r |-> r]
Apply(f, args) == [k |-> "call", f |-> f, args |-> args]
If(c, a, b) == [k |-> "if", e |-> c, l |-> a, r |-> b]
Field(e, f) == [k |-> "field", e |-> e, f |-> f]

Fn(params, body) == [params |-> params, body |-> body]
Param(s, type) == [s |-> s, type |-> type]
Assign(s, e) == [a |-> "Assign", target |-> s, e |-> e]
Eval(e) == [a |-> "Eval", e |-> e]
Goto(e) == [a |-> "Navigate", e |-> e]
Get(target) == [a |-> "NetworkCall", alias |-> "api", payload |-> <<>>, path_param |-> <<>>,
                target |-> target, headers |-> <<>>, format |-> "json"]

Comps(cs, fns) == parse_computed_with_functions(cs, fns, 8).v
Checked_(doc) == check_information_flow(doc).v

CounterFns == [n |-> Fn(<<>>, Lit(Int_(0))), net |-> Fn(<<>>, Lit(Int_(1)))]
Counter == Checked_(
  [names |-> <<"window_url", "$form", "n", "net", "total", "label", "stato_navigazione", "many">>,
   fns |-> CounterFns,
   comps |-> Comps(<<[name |-> "label", e |-> If(Bin("gt", Var("total"), Lit(Int_(2))), Var("net"), Var("total"))],
                     [name |-> "many", e |-> Bin("gt", Var("n"), Lit(Int_(1)))],
                     [name |-> "total", e |-> Bin("add", Var("n"), Var("n"))]>>, CounterFns),
   clicks |-> <<Assign("n", Bin("add", Var("n"), Lit(Int_(1)))), Get("net")>>,
   submits |-> <<Assign("n", Field(Var("$form"), <<113>>)), Assign("n", Field(Var("$form"), <<110>>))>>,
   timers |-> <<Eval(Bin("add", Apply("store_local", <<Lit(String(<<107>>)), Var("n")>>), Lit(Int_(1))))>>])

ClockFns == [a |-> Fn(<<>>, Lit(Int_(2))), b |-> Fn(<<>>, Bin("add", Var("a"), Lit(Int_(1))))]
Clock_ == Checked_(
  [names |-> <<"a", "b", "t", "n", "window_url">>, fns |-> ClockFns,
   comps |-> Comps(<<[name |-> "t", e |-> Bin("mul", Var("b"), Lit(Decimal(10)))]>>, ClockFns),
   clicks |-> <<Eval(Apply("get_system_time", <<Var("n")>>)), Assign("b", Lit(Decimal(10)))>>,
   submits |-> <<>>, timers |-> <<Assign("a", Bin("add", Var("a"), Var("n")))>>])

CallerFns == [u |-> Fn(<<>>, Lit(Int_(3))), net |-> Fn(<<>>, Lit(Int_(1))),
              f |-> Fn(<<Param("u", Num), Param("w", Num)>>, Bin("add", Var("u"), Var("w")))]
Caller == Checked_(
  [names |-> <<"net", "u", "w", "x", "f">>, fns |-> CallerFns,
   comps |-> Comps(<<[name |-> "x", e |-> Bin("add", Var("u"), Var("u"))]>>, CallerFns),
   clicks |-> <<Get("net"), Eval(Apply("f", <<Lit(Int_(0)), Var("net")>>))>>,
   submits |-> <<>>, timers |-> <<>>])

MCDocuments == {Counter, Clock_, Caller}
MCUrlValue == String(<<117>>)
MCAnswers == {Int_(5), String(<<97>>)}
MCSortField == <<2>>
MCBudgets == 0..24
MCTyped == {<<[name |-> "q", key |-> <<113>>, val |-> Int_(2)]>>,
            <<[name |-> "n", key |-> <<110>>, val |-> Int_(4)]>>}

\* Items with a string field <<1>> and, but for the last, a number <<2>>.
Item(s, n) == Record(<<[key |-> <<1>>, val |-> String(s)], [key |-> <<2>>, val |-> n]>>)
Bare == Record(<<[key |-> <<1>>, val |-> String(<<97, 98>>)]>>)
Items == List(<<Item(<<98>>, Int_(1)), Item(<<97, 98>>, Decimal(10)), Bare>>)
Key(i) == Lit(String(<<i>>))
Word(w) == Lit([t |-> "str", s |-> w])
Rec == [ty |-> "rec", fs |-> <<[key |-> <<1>>, type |-> Str]>>]

LibraryFns ==
  [items |-> Fn(<<>>, Lit(Items)),
   s |-> Fn(<<>>, Lit(String(<<97, 98>>))),
   half |-> Fn(<<>>, Bin("div", Lit(Int_(1)), Lit(Int_(2)))),
   find |-> Fn(<<>>, Apply("filter", <<Var("items"), Key(1), Word("contains"), Var("s")>>)),
   ones |-> Fn(<<>>, Apply("count", <<Var("items"), Key(2), Lit(Int_(1))>>)),
   same |-> Fn(<<>>, Apply("filter", <<Var("items"), Key(2), Word("eq"), Lit(Int_(1))>>)),
   down |-> Fn(<<>>, Apply("sort", <<Var("items"), Key(2), Word("desc")>>)),
   size |-> Fn(<<>>, Bin("add", Apply("length", <<Var("items")>>), Apply("length", <<Var("s")>>))),
   shown |-> Fn(<<>>, Apply("to_string", <<Var("half")>>)),
   text |-> Fn(<<>>, Bin("add", Apply("to_string", <<Var("half")>>), Var("s"))),
   has |-> Fn(<<>>, [k |-> "not", e |-> Apply("contains", <<Var("s"), Lit(String(<<98>>))>>)]),
   both |-> Fn(<<>>, Bin("and", Apply("has_field", <<Lit(Bare), Key(2)>>), Bin("eq", Var("s"), Var("s")))),
   name |-> Fn(<<Param("r", Rec)>>, Field(Var("r"), <<1>>)),
   named |-> Fn(<<>>, Apply("name", <<Lit(Bare)>>)),
   big |-> Fn(<<>>, [k |-> "let", s |-> "z", e |-> Lit(Int_(127)), b |-> Bin("mul", Var("z"), Var("z"))]),
   save |-> Fn(<<>>, Apply("store_local", <<Lit(String(<<107>>)), Var("s")>>)),
   copy |-> Fn(<<>>, Apply("copy_to_clipboard", <<Lit(String(<<110>>))>>))]
Library ==
  [names |-> <<"items", "s", "half", "find", "ones", "same", "down", "size", "shown", "text", "has", "both", "name",
               "named", "big", "save", "copy", "r", "z", "api", "m", "d", "ss", "tt">>,
   fns |-> LibraryFns,
   comps |-> Comps(<<[name |-> "m", e |-> Bin("sub", Var("size"), Var("d"))],
                     [name |-> "d", e |-> Apply("length", <<Apply("filter",
                         <<Var("items"), Key(2), Word("gt"), Var("half")>>)>>)],
                     [name |-> "ss", e |-> Bin("add", Var("s"), Var("s"))], [name |-> "tt", e |-> Var("ss")]>>, LibraryFns),
   clicks |-> <<Eval(Apply("download", <<Var("api")>>)),
                Eval(If(Var("has"), Var("save"), Apply("save", <<>>))),
                Eval(Bin("gt", Var("m"), Var("half"))),
                [a |-> "NetworkCall", alias |-> "api", payload |-> <<Lit(Bare)>>, path_param |-> <<Var("half")>>,
                 target |-> "z", headers |-> <<Var("s")>>, format |-> "json"]>>,
   submits |-> <<Assign("s", Bin("add", Var("s"), Var("named")))>>, timers |-> <<>>]

\* Two comps of one name, the first of which is evaluated last.
TwiceFns == [n |-> Fn(<<>>, Lit(Int_(1))), m |-> Fn(<<>>, Lit(Int_(2)))]
Twice ==
  [names |-> <<"n", "m", "a", "b", "c", "d">>, fns |-> TwiceFns,
   comps |-> Comps(<<[name |-> "a", e |-> Var("d")], [name |-> "b", e |-> Var("a")],
                     [name |-> "c", e |-> Var("n")], [name |-> "d", e |-> Var("c")],
                     [name |-> "a", e |-> Var("m")]>>, TwiceFns),
   clicks |-> <<Assign("n", Var("b"))>>, submits |-> <<>>, timers |-> <<>>]

MCPrograms == MCDocuments \cup {Library, Twice}

\* Timers that navigate.  The network's answer reaches net only; where the
\* timer goes is kept by the click, through a function and a comp.
Router(e) ==
  LET fns == [home |-> Fn(<<>>, Lit(String(<<104>>))), net |-> Fn(<<>>, Lit(Int_(1))),
              pick |-> Fn(<<Param("c", Boolean)>>, If(Var("c"), Var("net"), Var("home"))),
              hop |-> Fn(<<>>, Apply("pick", <<Lit(Bool(TRUE))>>))]
  IN  [names |-> <<"home", "net", "pick", "c", "hop", "via", "u", "far">>, fns |-> fns,
       comps |-> Comps(<<[name |-> "via", e |-> Var("u")],
                         [name |-> "far", e |-> If(Bin("eq", Var("net"), Lit(Int_(5))), Var("home"), Var("u"))]>>, fns),
       clicks |-> <<Get("net"), Assign("u", Var("home"))>>, submits |-> <<>>,
       timers |-> <<Goto(e), Assign("c", Var("net"))>>]
Destinations ==
  {Var("home"), Var("via"), Var("far"), Var("net"), Var("c"), Var("hop"), Apply("hop", <<>>),
   Apply("pick", <<Lit(Bool(FALSE))>>), If(Bin("eq", Var("net"), Lit(Int_(5))), Var("home"), Var("u"))}
Steps == {[e |-> "Click", node |-> 2], [e |-> "RootTimer", index |-> 1], [e |-> "RootTimer", index |-> 2],
          [e |-> "UpdateVariable", name |-> "net", value |-> Null]}
MCScenarios == [doc : {Router(e) : e \in Destinations}, events : UNION {[1..n -> Steps] : n \in 1..4}]

MCScalars ==
  {Int_(i) : i \in {-128, -1, 0, 9, 127}} \cup {Decimal(d) : d \in {-128, -10, -5, 0, 3, 10, 127}}
    \cup {Null, Bool(TRUE), String(<<97>>), FileHandle([filename |-> <<102>>])}
MCSamples ==
  {Int_(1), Int_(2), Decimal(10), Decimal(15), Null, Bool(FALSE), Bool(TRUE), String(<<97>>), String(<<97, 98>>),
   List(<<>>), List(<<Int_(1)>>), List(<<Decimal(10), Null>>), Bare, Item(<<97>>, Int_(1)),
   Item(<<97>>, Decimal(10)), FileHandle([filename |-> <<102>>])}
MCLists ==
  UNION {[1..n -> {Item(<<97>>, Int_(1)), Item(<<98>>, Decimal(10)), Item(<<97>>, Int_(2)), Bare}] : n \in 0..4}

Plain(s) == [plain |-> TRUE, raw |-> s]
Hole(root, path) == [plain |-> FALSE, root |-> root, path |-> path, raw |-> <<123, 125>>]
Stores == {[x \in {} |-> Null], [x \in {"r"} |-> Bare], [x \in {"r"} |-> List(<<Decimal(-5), Bool(TRUE)>>)]}
MCTexts == [text : UNION {[1..n -> {Plain(<<97>>), Hole("r", <<>>), Hole("r", <<<<1>>>>)}] : n \in 0..3},
            overlay : Stores, lookup : Stores]

\* Frames as any process could write them: nodes, pool entries and roots that
\* may lie outside the arena, windows that may lie outside the pool.
Ids == 0..2
WireNodes ==
  {Lit(Int_(1)), Lit(Nested(MAX_VALUE_DEPTH + 1))} \cup [k : {"not"}, e : Ids]
    \cup [k : {"bin"}, op : {"add"}, l : Ids, r : Ids]
    \cup [k : {"if"}, e : {0}, l : Ids, r : {1}]
    \cup [k : {"call"}, f : {"length"}, args_start : 0..3, args_len : 0..2]
MCWireTrees ==
  [nodes : UNION {[1..n -> WireNodes] : n \in 0..2}, args_pool : UNION {[1..n -> Ids] : n \in 0..2}, root : Ids]

MCForms ==
  MCTyped \cup {<<[name |-> "q", key |-> <<113>>, val |-> FileHandle([filename |-> <<102>>])],
                  [name |-> "s", key |-> <<115>>, val |-> String(<<97>>)]>>}

-----------------------------------------------------------------------------
\* Tokens to parse: every short string over an alphabet of operators and of
\* calls, every chain of three operators, and strings of larger pieces.
Bytes == [x |-> <<120>>, y |-> <<121>>]
Id(s) == [t |-> "Ident", s |-> s, key |-> IF s \in DOMAIN Bytes THEN Bytes[s] ELSE <<0>>]
X == Id("x")
One == [t |-> "Num", float |-> FALSE, n |-> 1]
Huge == [t |-> "Num", float |-> FALSE, n |-> IntMax + 1]
Float == [t |-> "Num", float |-> TRUE, n |-> IntMax + 1]
T(names) == {Tok(n) : n \in names}
Strings(A, lo, hi) == UNION {[1..n -> A] : n \in lo..hi}
Joined(Pieces, lo, hi) == {FlattenSeq(s) : s \in Strings(Pieces, lo, hi)}

Operators == T(DOMAIN BinOps)
Chains == {<<X, a, One, b, X, c, X>> : a, b, c \in Operators}
Pieces == {<<Id("if"), X, Id("then"), One, Id("else"), X>>, <<X>>, <<Tok("Plus")>>, <<Tok("Dot"), Id("y")>>,
           <<Tok("Question"), X, Tok("Colon")>>, <<Tok("Minus")>>, <<Tok("LParen")>>, <<Tok("RParen")>>}
CallPieces == {<<X>>, <<Id("eq")>>, <<Id("asc")>>, <<Tok("Comma")>>, <<Tok("RParen")>>}
Heads == {<<Id(f), Tok("LParen")>> \o a : f \in {"sort", "filter", "get_system_time"},
                                           a \in {<<>>, <<X, Tok("Comma"), One, Tok("Comma")>>}}
MCSentences ==
  Strings({X, One} \cup T({"Minus", "Bang", "Plus", "Star", "Dot", "LParen", "RParen", "Question", "Colon"}), 0, 4)
    \cup Strings({X} \cup T({"Minus", "LParen", "RParen", "Comma"}), 5, 6)
    \cup Chains \cup Joined(Pieces, 2, 4) \cup {h \o s : h \in Heads, s \in Joined(CallPieces, 1, 4)}
    \cup {<<Huge>>, <<Tok("Minus"), Float>>, <<[t |-> "Bool", b |-> TRUE], Tok("AndAnd"), [t |-> "Str", s |-> <<97>>]>>}

\* Items of a logic block, at the root indent of two.
Line(indent, toks) == [indent |-> indent, toks |-> toks]
Blank == Line(0, <<>>)
Define(name, toks, params, body, more) ==
  [kind |-> "fn", lines |-> <<Line(2, toks)>> \o more, is |-> [name |-> name, params |-> params, body |-> body]]
Comp(name, toks, e) ==
  [kind |-> "comp", lines |-> <<Line(2, <<Id("comp"), Id(name), Tok("Eq")>> \o toks)>>, is |-> [name |-> name, e |-> e]]
Timer_(lexes, text, interval, toks, action) ==
  [kind |-> "timer",
   lines |-> <<[indent |-> 2, toks |-> <<Id("timer")>> \o lexes \o <<Tok("Minus"), Tok("Gt")>> \o toks, interval |-> text],
               Blank>>,
   is |-> [interval |-> interval, action |-> action]]
Text(num, base, suffix) == [num |-> num, base |-> base, suffix |-> suffix]
Millis(ms) == [i |-> "Millis", ms |-> ms]
Sum == <<Id("x"), Tok("Plus"), One>>
SumIs == Bin("add", Var("x"), Lit(Int_(1)))
Header(name, types) == <<Id(name), Tok("LParen")>> \o types \o <<Tok("RParen")>>
BlockItems ==
  {Define("x", <<X, Tok("Eq"), One>>, <<>>, Lit(Int_(1)), <<Blank>>),
   Define("f", Header("f", <<Id("p"), Tok("Colon"), Id("Num")>>) \o <<Tok("Colon")>> \o Sum,
          <<Param("p", Num)>>, SumIs, <<>>),
   Define("g", Header("g", <<Id("p"), Tok("Colon"), Id("LIST"), Tok("Lt"), Id("str"), Tok("Gt"), Tok("Question"), Tok("Comma"),
                             Id("q"), Tok("Colon"), Id("record"), Tok("LBrace"), Id("y"), Tok("Colon"), Id("number"), Tok("Comma"),
                             Id("x"), Tok("Colon"), Id("bool"), Tok("RBrace")>>),
          <<Param("p", [ty |-> "nullable", of |-> [ty |-> "list", of |-> Str]]),
            Param("q", [ty |-> "rec", fs |-> <<[key |-> <<120>>, type |-> Boolean], [key |-> <<121>>, type |-> Num]>>])>>,
          [k |-> "let", s |-> "t", e |-> SumIs, b |-> [k |-> "let", s |-> "u", e |-> Var("t"), b |-> Bin("mul", Var("t"), Var("u"))]],
          <<Line(4, <<Id("t"), Tok("Eq")>> \o Sum), Blank, Line(6, <<Id("u"), Tok("Eq"), Id("t")>>),
            Line(4, <<Id("t"), Tok("Star"), Id("u")>>)>>),
   Comp("c", Sum, SumIs), Comp("d", <<Id("c")>>, Var("c")),
   Timer_(<<One, Id("ms")>>, Text(TRUE, 1, "ms"), Millis(1), <<X, Tok("Eq")>> \o Sum, Assign("x", SumIs)),
   Timer_(<<One, Id("s")>>, Text(TRUE, 1, "s"), Millis(1000), <<Id("navigate"), X>>, Goto(Var("x"))),
   Timer_(<<Id("x")>>, Text(FALSE, "x", ""), [i |-> "Variable", name |-> "x"], <<Id("f"), Tok("LParen"), X, Tok("RParen")>>,
          Eval(Apply("f", <<Var("x")>>)))}
MCBlocks == {s \in UNION {[1..n -> BlockItems] : n \in 0..4} : IsInjective(s)}

\* Actions, written with and without what is optional.
MCRegistry == [api |-> "api", logo |-> "media"]
Parens(s) == <<Tok("LParen")>> \o s \o <<Tok("RParen")>>
Exprs == {<<Sum, SumIs, FALSE>>, <<<<Id("f")>> \o Parens(<<X>>), Apply("f", <<Var("x")>>), FALSE>>,
          <<<<Id("f")>> \o Parens(<<X, Tok("Comma"), One>>), Apply("f", <<Var("x"), Lit(Int_(1))>>), TRUE>>}
Maybe(S) == {<<>>} \cup {<<x>> : x \in S}
Reserved == <<104>>
MCReservedHeaders == {Reserved}
MCCapitals == [GET |-> "get", Get |-> "get", POST |-> "post", PUT |-> "put", DELETE |-> "delete", QUERY |-> "query",
               Query |-> "query", Num |-> "num", LIST |-> "list"]
Written_(method, alias, payload, path, format, headers) ==
  LET body == method \in {"POST", "PUT", "QUERY"}
      said(o) == IF o = <<>> THEN <<>> ELSE o[1][1]
      slots == IF path # <<>> /\ body THEN <<said(payload), said(path)>>
               ELSE IF payload # <<>> THEN <<said(payload)>> \o Each(path, LAMBDA o : o[1]) ELSE Each(path, LAMBDA o : o[1])
      args == <<Id(alias)>> \o FlattenSeq(Each(slots, LAMBDA t : <<Tok("Comma")>> \o t))
  IN  [toks |-> <<Id(method)>> \o Parens(args) \o <<Tok("Minus"), Tok("Gt"), Id("y")>>
                  \o FlattenSeq(Each(format, LAMBDA f : <<Id("as"), Id(f)>>))
                  \o FlattenSeq(Each(headers, LAMBDA h : <<Id("header"), [t |-> "Str", s |-> h[1]]>> \o h[2][1])),
       is |-> [a |-> "NetworkCall", method |-> method, alias |-> alias, payload |-> Each(payload, LAMBDA o : o[2]),
               path_param |-> Each(path, LAMBDA o : o[2]), target |-> "y", headers |-> Each(headers, LAMBDA h : h[2][2]),
               format |-> IF format = <<>> THEN "json" ELSE format[1]],
       flaws |-> (IF alias # "api" THEN {"alias"} ELSE {})
                   \cup (IF format = <<"odd">> THEN {"format"} ELSE {})
                   \cup (IF ~body /\ payload # <<>> THEN {"body"} ELSE {})
                   \cup (IF \E h \in Range(headers) : h[1] = Reserved THEN {"header"} ELSE {})
                   \cup (IF \E o \in Range(payload) \cup (IF body THEN {} ELSE Range(path)) : o[3] THEN {"comma"} ELSE {})]
HeaderSets == {<<>>} \cup {<<<<<<120>>, e>>>> : e \in Exprs} \cup {<<<<<<120>>, e>>, <<Reserved, e>>>> : e \in Exprs}
Simple(toks, is, flaws) == [toks |-> toks, is |-> is, flaws |-> flaws]
Download(alias) == <<Id("download")>> \o Parens(<<Id(alias)>>)
\* The one argument of a verb without a body is a path.
Slots(m) == {s \in Maybe(Exprs) \X Maybe(Exprs) : Verbs[m] \/ s[1] = <<>> \/ s[2] # <<>>}
MCWrittenActions ==
  UNION {{Written_(m, a, s[1], s[2], f, h) : a \in {"api", "logo", "x"}, s \in Slots(m),
                                             f \in {<<>>, <<"form">>, <<"odd">>}, h \in HeaderSets} : m \in DOMAIN Verbs}
    \cup {Simple(<<X, Tok("Eq")>> \o e[1], Assign("x", e[2]), {}) : e \in Exprs}
    \cup {Simple(<<Id("navigate")>> \o e[1], Goto(e[2]), {}) : e \in Exprs}
    \cup {Simple(e[1], Eval(e[2]), {}) : e \in Exprs}
    \cup {Simple(e[1] \o <<X>>, Eval(e[2]), {"trailing"}) : e \in Exprs}
    \cup {Simple(<<Id(w)>> \o Parens(<<Id("api")>>) \o <<Tok("Minus"), Tok("Gt"), Id("y")>>, Null, {"case"}) :
             w \in {"get", "Get", "Query"}}
    \cup {Simple(<<Id(w)>> \o rest, Null, {"case"}) : w \in {"get", "Get", "GET"}, rest \in {<<X>>, <<Tok("Eq"), One>>}}
    \cup {Simple(<<Id(w), Tok("Eq"), One>>, Assign(w, Lit(Int_(1))), {}) : w \in {"Query", "QUERY", "Num"}}
    \cup {Simple(<<>>, Null, {"empty"})}
    \cup {Simple(Download(a), Eval(Apply("download", <<Var(a)>>)), IF a = "logo" THEN {} ELSE {"alias"}) : a \in {"api", "logo", "x"}}

=============================================================================
