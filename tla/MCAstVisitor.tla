----------------------------- MODULE MCAstVisitor -----------------------------
(***************************************************************************)
(* The programs that the parser is given: those of the repository's tests  *)
(* and examples, and families of functions that are called with their      *)
(* arguments in every order. All end by propagating the types.             *)
(***************************************************************************)
EXTENDS Dataflow

Name(x)        == [is |-> "name", name |-> <<x>>]
Field(x, f)    == [is |-> "name", name |-> <<x, f>>]
Star(x)        == [is |-> "star", name |-> <<x>>]
Op(op, a, b)   == [is |-> "binop", op |-> op, left |-> a, right |-> b]
At(x, i)       == [is |-> "index", name |-> <<x>>, attributes |-> <<i>>]
Upto(x, i)     == [is |-> "slice", name |-> <<x>>, attributes |-> <<i>>]
Call(f, args)  == [is |-> "call", func |-> f, args |-> args, attributes |-> <<>>]
Zeros(shape)   == [Call("zeros", <<>>) EXCEPT !.attributes = shape]
Zipped(args)      == [is |-> "zip", args |-> args]
Pattern(f, formals, body, over, inits) ==
  [is |-> "pattern", func |-> f, formals |-> [i \in DOMAIN formals |-> <<formals[i]>>],
   body |-> body, over |-> over, inits |-> inits]
Map(x, body, over)     == Pattern("map", <<x>>, body, over, <<>>)
Scan(body, over, init) == Pattern("scan", <<"s", "x">>, body, over, <<init>>)

Let(x, e)      == [do |-> "assign", lhs |-> << <<x>> >>, rhs |-> e]
Both(x, y, e)  == [do |-> "assign", lhs |-> << <<x>>, <<y>> >>, rhs |-> e]
Ret(xs)        == [do |-> "return", names |-> [i \in DOMAIN xs |-> <<xs[i]>>]]

Type(depth, shape) == [is |-> "storage", of |-> [depth |-> depth, shape |-> shape]]
Tuple(types)       == [is |-> "tuple", of |-> types]
Class(name)        == [is |-> "class", of |-> name]
Arg(x, type)       == [name |-> x, type |-> type]
Params(name, fields) == [is |-> "params", name |-> name, fields |-> fields]
Fun(f, args, returns, body) ==
  [is |-> "function", name |-> f, args |-> args, returns |-> returns, body |-> body]
PropagateTypes == [is |-> "propagate"]
ResetCtx       == [is |-> "reset"]

MCWithin == {<<"a", "a">>, <<"p", "p">>, <<"p", "%tmp">>, <<"s", "%state_init">>,
             <<"s", "%state">>, <<"s", "s">>}

(***************************************************************************)
(* The tests: test_assignment.py and test_lambda_with_udf.py.              *)
(***************************************************************************)

Row == <<1, 3>>
T0  == Type(0, Row)
T1  == Type(1, Row)
T2  == Type(2, Row)
Square == <<3, 3>>

Assignment1 == <<Fun("f1", <<Arg("a", Type(0, <<4, 5>>)), Arg("b", Type(0, <<5, 4>>))>>,
    Tuple(<<Type(0, <<4, 4>>), Type(0, <<4, 4>>)>>),
    <<Let("c", Op("matmul", Name("a"), Name("b"))), Let("d", Call("tanh", <<Name("c")>>)),
      Let("d", Op("add", Name("d"), Name("d"))), Ret(<<"c", "d">>)>>), PropagateTypes>>

Assignment2 == <<Fun("f2", <<Arg("a", Tuple(<<Type(0, <<4, 5>>), Type(0, <<5, 4>>)>>))>>,
    Type(0, <<4, 4>>),
    <<Both("x", "y", Name("a")), Let("b", Op("matmul", Name("x"), Name("y"))), Ret(<<"b">>)>>),
    PropagateTypes>>

Assignment3(reduce) == <<Fun("f3", <<Arg("xs", T1)>>, T0,
    <<Let("ys", Map("x", Op("add", Call("tanh", <<Name("x")>>), Call("sigmoid", <<Name("x")>>)),
                    Name("xs"))),
      Let("ys", Upto("ys", 3)),
      Let("ys", Map("x", Call("add", <<Star("x")>>), Zipped(<<Name("ys"), Name("ys")>>))),
      Let("y", Pattern(reduce, <<"s", "x">>, Op("mult", Name("s"), Name("x")), Name("ys"),
                       <<Zeros(Row)>>)),
      Ret(<<"y">>)>>), PropagateTypes>>

Assignment4 == <<Fun("f4", <<Arg("xss", T2)>>, T2,
    <<Let("yss", Map("xs", Map("x", Call("tanh", <<Name("x")>>), Name("xs")), Name("xss"))),
      Ret(<<"yss">>)>>), PropagateTypes>>

Assignment5 == <<Fun("f5", <<Arg("xs", T1)>>, T1,
    <<Let("ys", Map("x", Op("add", Name("x"), Name("x")), Name("xs"))), Ret(<<"ys">>)>>),
    PropagateTypes>>

Assignment6 == <<Fun("f6", <<Arg("xss", T2)>>, T2,
    <<Let("yss", Map("xs", Scan(Op("add", Name("s"), Name("x")), Name("xs"), Zeros(Row)),
                     Name("xss"))), Ret(<<"yss">>)>>), PropagateTypes>>

Udf1 == <<Fun("udf1", <<Arg("x", T0), Arg("y", T0)>>, T0,
    <<Let("v1", Op("add", Name("x"), Name("y"))), Let("v2", Call("sigmoid", <<Name("v1")>>)),
      Ret(<<"v2">>)>>),
  Fun("f1", <<Arg("xs", T1)>>, T1,
    <<Let("zs", Scan(Call("udf1", <<Name("s"), Name("x")>>), Name("xs"), Zeros(Row))),
      Ret(<<"zs">>)>>), PropagateTypes>>

Udf2 == <<Fun("udf2", <<Arg("a", T0), Arg("b", T0), Arg("c", T0)>>, T0,
    <<Let("c", Op("add", Op("add", Name("a"), Name("b")), Name("c"))), Ret(<<"c">>)>>),
  Fun("f2", <<Arg("xs", T1)>>, T1,
    <<Let("ys", Scan(Call("udf2", <<Name("x"), Name("s"), Name("s")>>), Name("xs"), Zeros(Row))),
      Ret(<<"ys">>)>>), PropagateTypes>>

Udf3 == <<Fun("udf3", <<Arg("a", T0), Arg("b", T0), Arg("c", T0), Arg("d", T0)>>, T0,
    <<Let("c", Call("sigmoid", <<Op("mult", Call("tanh", <<Op("add", Name("a"), Name("b"))>>),
                                   Name("c"))>>)),
      Let("d", Op("mult", Name("c"), Name("d"))), Ret(<<"d">>)>>),
  Fun("f3", <<Arg("xs", T1), Arg("ys", T1), Arg("z", Type(0, <<3, 2>>))>>, T1,
    <<Let("zs", Scan(Call("udf3", <<Star("x"), Name("s"), Name("z")>>),
                     Zipped(<<Name("xs"), Name("ys")>>), Zeros(Row))),
      Ret(<<"zs">>)>>), PropagateTypes>>

(***************************************************************************)
(* The examples: hello_world.py and the functions of stacked_rnn.py.       *)
(***************************************************************************)

S0 == Type(0, Square)
S1 == Type(1, Square)

\* over pairs the weights and biases that f2 is called with.
Hello(call, over) == <<
  Params("Params", <<Arg("Ws", S1), Arg("Us", S1)>>),
  Fun("f3", <<Arg("a", T0), Arg("b", T0), Arg("c", S0), Arg("d", S0)>>, T0,
    <<Let("y", Op("add", Op("matmul", Name("a"), Name("c")), Op("matmul", Name("b"), Name("d")))),
      Ret(<<"y">>)>>),
  Fun("f2", <<Arg("xs", T1), Arg("w", S0), Arg("u", S0)>>, T1,
    <<Let("ys", Scan(Call("f3", <<Name("x"), Name("s"), Name("w"), Name("u")>>), Name("xs"),
                     Zeros(Row))), Ret(<<"ys">>)>>),
  Fun("f1", <<Arg("xs", T1), Arg("Ws", S1), Arg("Us", S1)>>, T2,
    <<Let("yss", Scan(call, over, Name("xs"))), Ret(<<"yss">>)>>),
  Fun("f", <<Arg("xss", T2), Arg("params", Class("Params"))>>, Type(3, Row),
    <<Let("ysss", Map("xs", Call("f1", <<Name("xs"), Field("params", "Ws"), Field("params", "Us")>>),
                      Name("xss"))), Ret(<<"ysss">>)>>), PropagateTypes>>

HelloWorld == Hello(Call("f2", <<Name("s"), Star("x")>>), Zipped(<<Name("Ws"), Name("Us")>>))

LstmCell == <<
  Fun("gate_f", <<Arg("w", S0), Arg("u", S0), Arg("b", T0), Arg("x", T0), Arg("s", T0)>>, T0,
    <<Let("y", Op("add", Op("add", Op("matmul", Name("x"), Name("w")),
                                   Op("matmul", Name("s"), Name("u"))), Name("b"))), Ret(<<"y">>)>>),
  Fun("lstm_cell", <<Arg("h_prev", T0), Arg("c_prev", T0), Arg("input", T0), Arg("ws", S1),
                     Arg("us", S1), Arg("bs", T1)>>, Tuple(<<T0, T0>>),
    <<Let("prev_gate", Map("x", Call("gate_f", <<Star("x"), Name("input"), Name("h_prev")>>),
                           Zipped(<<Name("ws"), Name("us"), Name("bs")>>))),
      Let("gate", Map("x", Call("sigmoid", <<Name("x")>>), Upto("prev_gate", 3))),
      Let("c", Op("add", Op("mult", At("gate", 1), Name("c_prev")),
                  Op("mult", At("gate", 0), Call("tanh", <<At("prev_gate", 3)>>)))),
      Let("h", Op("mult", At("gate", 2), Call("tanh", <<Name("c")>>))),
      Ret(<<"h", "c">>)>>), PropagateTypes>>

Tests == {Assignment1, Assignment2, Assignment3("reduce"), Assignment4, Assignment5,
          Assignment6, Udf1, Udf2, Udf3}

(***************************************************************************)
(* Calls: a function that uses each of its three parameters once, in some  *)
(* order, is called in a scan or a map with its arguments in every order,  *)
(* elements of a tuple among them.                                         *)
(***************************************************************************)

Bodies == {
  <<Let("y", Op("add", Op("mult", Name("a"), Name("b")), Name("c")))>>,
  <<Let("y", Op("mult", Name("c"), Op("add", Name("a"), Name("b"))))>>,
  <<Let("v", Call("tanh", <<Name("c")>>)), Let("y", Op("mult", Name("v"), Op("add", Name("b"), Name("a"))))>>,
  <<Let("a", Op("mult", Name("b"), Name("a"))), Let("y", Op("add", Name("c"), Name("a")))>>}
U3(body) == Fun("u", <<Arg("a", T0), Arg("b", T0), Arg("c", T0)>>, T0, Append(body, Ret(<<"y">>)))

CallArgs == [1..3 -> {Name("s"), Name("x"), Name("z")}]
StarArgs == {<<Star("x"), Name("s")>>, <<Name("s"), Star("x")>>, <<Star("x"), Name("z")>>,
             <<Name("z"), Star("x")>>}
Loops(call, over) == {Scan(call, over, Zeros(Row)), Map("x", call, over)}
CallIn(body, loop) ==
  LET args == <<Arg("xs", T1), Arg("ys", T1), Arg("z", T0)>>
  IN  <<U3(body), Fun("f", IF loop.func = "map" THEN Append(args, Arg("s", T0)) ELSE args, T1,
                      <<Let("zs", loop), Ret(<<"zs">>)>>), PropagateTypes>>
CallLoops == UNION ({Loops(Call("u", args), Name("xs")) : args \in CallArgs} \union
                    {Loops(Call("u", args), Zipped(<<Name("xs"), Name(y)>>)) :
                       args \in StarArgs, y \in {"xs", "ys"}})
Calls == {CallIn(body, loop) : body \in Bodies, loop \in CallLoops}

(***************************************************************************)
(* Patterns inside patterns, and inside of functions that are inlined.     *)
(***************************************************************************)

U2 == Fun("u", <<Arg("a", T0), Arg("b", T0)>>, T0,
          <<Let("y", Op("mult", Call("tanh", <<Name("b")>>), Name("a"))), Ret(<<"y">>)>>)
G(body) == Fun("g", <<Arg("ds", T1), Arg("b", T0)>>, T1,
               <<Let("v", Scan(body, Name("ds"), Name("b"))),
                 Let("v", Map("x", Call("tanh", <<Name("x")>>), Name("v"))), Ret(<<"v">>)>>)
InF(first, e) == <<first, Fun("f", <<Arg("xss", T2), Arg("xs", T1), Arg("z", T0)>>, T2,
                              <<Let("yss", e), Ret(<<"yss">>)>>), PropagateTypes>>

InnerBodies == {Call("tanh", <<Name("x")>>), Op("mult", Name("s"), Name("x")),
                Op("add", Name("x"), Op("mult", Name("x"), Name("s"))),
                Call("u", <<Name("x"), Name("s")>>), Call("u", <<Name("s"), Name("x")>>)}
Inner == {Map("x", Call("tanh", <<Name("x")>>), Name("w"))} \union
         {Scan(body, Name("w"), Zeros(Row)) : body \in InnerBodies}
GCalls == {Map("x", Call("g", <<Name("x"), Name("z")>>), Name("xss")),
           Map("x", Call("g", <<Name("xs"), Name("x")>>), Name("xs")),
           Map("x", Call("g", <<Star("x")>>), Zipped(<<Name("xss"), Name("xs")>>)),
           Scan(Call("g", <<Name("s"), Name("x")>>), Name("xs"), Name("xs"))}

\* The middle one of three starred arguments is used by a pattern inside.
Middle == <<
  U3(<<Let("y", Op("add", Op("mult", Name("a"), Name("b")), Name("c")))>>),
  Fun("g", <<Arg("ds", T1), Arg("a", T0), Arg("b", T0), Arg("c", T0)>>, T1,
      <<Let("e", Op("mult", Name("a"), Name("c"))),
        Let("v", Scan(Call("u", <<Name("s"), Name("x"), Name("b")>>), Name("ds"), Name("e"))),
        Ret(<<"v">>)>>),
  Fun("f", <<Arg("xs", T1), Arg("us", T1), Arg("vs", T1), Arg("ws", T1)>>, T2,
      <<Let("hs", Map("x", Call("tanh", <<Name("x")>>), Name("xs"))),
        Let("yss", Scan(Call("g", <<Name("s"), Star("x")>>),
                        Zipped(<<Name("us"), Name("vs"), Name("ws")>>), Name("hs"))),
        Ret(<<"yss">>)>>), PropagateTypes>>
Nests == {InF(U2, Map("w", e, Name("xss"))) : e \in Inner} \union
         {InF(G(Op("add", Name("s"), Name("x"))), e) : e \in GCalls}

(***************************************************************************)
(* Statements: each expression is named, used, and stands next to others.  *)
(***************************************************************************)

Exprs0 == {Op("add", Name("z"), Field("q", "m")), Call("add", <<Name("z"), Call("tanh", <<Name("z")>>)>>),
           Op("add", Op("mult", Name("z"), Name("z")), At("xs", 1)), Call("tanh", <<At("xs", 0)>>),
           Op("add", Name("z"), Op("mult", Name("z"), At("xs", 1))), At("xs", 1)}
Exprs1 == {Upto("xs", 2), Map("x", Call("tanh", <<Name("x")>>), Upto("xs", 2)),
           Map("x", Op("mult", Call("tanh", <<Name("x")>>), Op("add", Name("x"), Name("x"))), Name("xs")),
           Map("x", Call("mult", <<Star("x")>>), Zipped(<<Name("xs"), Field("q", "n")>>))}
Statements(e) == {
  <<Let("y", e), Ret(<<"y">>)>>, <<Let("z", e), Ret(<<"z">>)>>,
  <<Both("x", "y", Name("p")), Let("v", e), Ret(<<"v">>)>>,
  <<Let("v", e), Both("x", "y", Name("p")), Ret(<<"v">>)>>}
G1(returns, body) ==
  <<Params("P", <<Arg("m", T0), Arg("n", T1)>>),
    Fun("f", <<Arg("p", Tuple(<<T0, T0>>)), Arg("q", Class("P")), Arg("xs", T1), Arg("z", T0)>>,
        returns, body), PropagateTypes>>
Lines == UNION ({{G1(T0, body) : body \in Statements(e)} : e \in Exprs0} \union
                {{G1(T1, body) : body \in Statements(e)} : e \in Exprs1})
Two == G1(Tuple(<<T1, T0>>), <<Let("y", Call("tanh", <<Name("z")>>)),
             Let("v", Map("x", Call("tanh", <<Name("x")>>), Name("xs"))), Ret(<<"v", "y">>)>>)

\* What the parser refuses, each at another check.
Refused == {G1(T1, <<Let("y", e), Ret(<<"y">>)>>) : e \in {
  Op("sub", Name("z"), Name("z")), Call("softmax", <<Name("z")>>), Call("add", <<Name("z")>>),
  Call("add", <<Name("p"), Name("z")>>), Name("z"), At("p", 0), At("z", 1), Name("free"),
  Map("x", Name("x"), Name("xs")), Map("x", Call("tanh", <<Name("free")>>), Name("xs")),
  Pattern("map", <<"x">>, Call("tanh", <<Name("x")>>), Name("xs"), <<Name("z")>>),
  Pattern("scan", <<"s", "x">>, Op("add", Name("s"), Name("x")), Name("xs"), <<>>),
  Pattern("filter", <<"x">>, Call("tanh", <<Name("x")>>), Name("xs"), <<>>),
  Scan(Op("add", Name("s"), Name("x")), Name("xs"), Call("tanh", <<Name("z")>>)),
  Scan(Op("add", Name("s"), Name("x")), Name("xs"), Name("z")),
  Map("x", Op("add", Name("x"), Name("z")), Name("free")),
  Map("x", Call("matmul", <<Name("x"), Name("x")>>), Name("xs"))}}
Repeated == {Udf1 \o Udf1, Udf1 \o <<ResetCtx>> \o Udf2, Udf1 \o Udf2, Udf1 \o Tail(Udf1),
             Udf1 \o <<ResetCtx>>}

AllPrograms == Tests \union {LstmCell, Middle, Two} \union Calls \union Nests \union Lines
              \union Refused \union Repeated

\* The example whose last call passes two of the starred arguments on to patterns.
Starred == {HelloWorld}

(***************************************************************************)
(* The expressions and the annotations of the programs, with their parts.  *)
(***************************************************************************)

RECURSIVE PartsOf(_)
PartsOf(e) ==
  LET parts == CASE e.is = "binop"           -> {e.left, e.right}
                 [] e.is \in {"call", "zip"} -> ToSet(e.args)
                 [] e.is = "pattern"         -> {e.over, e.body} \union ToSet(e.inits)
                 [] OTHER                    -> {}
  IN  {e} \union UNION {PartsOf(part) : part \in parts}

RECURSIVE TypesIn(_)
TypesIn(a) ==
  {a} \union CASE a.is = "tuple"  -> UNION {TypesIn(t) : t \in ToSet(a.of)}
               [] a.is = "fields" -> UNION {TypesIn(f.type) : f \in ToSet(a.of)}
               [] OTHER           -> {}

Decls(kind) == UNION {{d \in ToSet(p) : d.is = kind} : p \in AllPrograms \union Starred}
AllExpressions ==
  UNION {PartsOf(s.rhs) : s \in {s \in UNION {ToSet(d.body) : d \in Decls("function")} : s.do = "assign"}}
AllAnnotations ==
  UNION ({TypesIn(d.returns) : d \in Decls("function")} \union
         {TypesIn(a.type) : a \in UNION {ToSet(d.args) : d \in Decls("function")}} \union
         {TypesIn([is |-> "fields", of |-> d.fields]) : d \in Decls("params")})

\* TLC evaluates what a constant stands for again at each use: these are names.
MCPrograms    == AllPrograms
MCExpressions == AllExpressions
MCAnnotations == AllAnnotations

\* The functions and types of the tests, except the signatures without a body of
\* test_function_def.py, are parsed and typed to the end.
TestsAccepted == source \in Tests => outcome # "raised"
=============================================================================
