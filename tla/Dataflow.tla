------------------------------- MODULE Dataflow -------------------------------
(***************************************************************************)
(* What a program computes, said twice: of its source, evaluated the way   *)
(* Python does, and of the graph that the parser makes. Values are terms   *)
(*                                                                         *)
(*   <<"input", k>>             the k-th parameter of the outermost function*)
(*   <<"elem", l, k>>           what the k-th input of the pattern at      *)
(*   <<"state", l, k>>          nesting level l contributes, its k-th state *)
(*   <<op, attributes, ...>>    an operation on its arguments              *)
(*   <<op, l, ins, inits, body, k>>   the k-th result of a pattern         *)
(*                                                                         *)
(* and a variable stands for a sequence of them: a tuple has several.      *)
(***************************************************************************)
EXTENDS AstVisitor

Undefined == <<"undefined">>
One(vs)   == IF Len(vs) = 1 THEN vs[1] ELSE Undefined
PatternOp(func) == CASE func = "scan" -> "scanl" [] func = "fold" -> "foldl" [] OTHER -> func

(***************************************************************************)
(* The source. An environment maps the names in scope to their values.     *)
(***************************************************************************)

Bound(env, names, vs) ==
  [x \in DOMAIN env \union {names[i] : i \in DOMAIN names} |->
     IF x \in ToSet(names) THEN vs[Max({i \in DOMAIN names : names[i] = x})] ELSE env[x]]
Lookup(env, x) == IF x \in DOMAIN env THEN env[x] ELSE <<Undefined>>

FunctionOf(fs, name) == fs[CHOOSE i \in DOMAIN fs : fs[i].is = "function" /\ fs[i].name = name]
IsFunction(fs, name) == \E i \in DOMAIN fs : fs[i].is = "function" /\ fs[i].name = name

RECURSIVE Value(_, _, _, _)
RECURSIVE Run(_, _, _, _)

\* The statements of a function, given the environment of its parameters.
Run(fs, body, env, level) ==
  LET s == Head(body)
      vs == Value(fs, s.rhs, env, level)
      parts == IF Len(s.lhs) = 1 THEN <<vs>>
               ELSE [i \in DOMAIN s.lhs |-> IF Len(vs) = Len(s.lhs) THEN <<vs[i]>> ELSE <<Undefined>>]
  IN  IF s.do = "return" THEN FlattenSeq([i \in DOMAIN s.names |-> Lookup(env, s.names[i])])
      ELSE Run(fs, Tail(body), Bound(env, s.lhs, parts), level)

Value(fs, e, env, level) ==
  LET All(es)   == FlattenSeq([i \in DOMAIN es |-> Value(fs, es[i], env, level)])
      Single(x) == One(Value(fs, x, env, level))
      InCall(f) ==
        LET args == FlattenSeq([i \in DOMAIN e.args |->
                      LET vs == Value(fs, e.args[i], env, level)
                      IN  IF e.args[i].is = "star" THEN [j \in DOMAIN vs |-> <<vs[j]>>] ELSE <<vs>>])
            names == [i \in DOMAIN f.args |-> <<f.args[i].name>>]
        IN  IF Len(args) # Len(names) THEN <<Undefined>>
            ELSE Run(fs, f.body, Bound(<<>>, names, args), level)
      InPattern ==
        LET ins   == All(<<e.over>>)
            inits == All(e.inits)
            elems  == [i \in DOMAIN ins |-> <<"elem", level + 1, i>>]
            states == [i \in DOMAIN inits |-> <<"state", level + 1, i>>]
            scope == Bound(env, e.formals, IF Len(e.formals) = 1 THEN <<elems>>
                                           ELSE <<states, elems>>)
            body  == Value(fs, e.body, scope, level + 1)
        IN  [k \in DOMAIN body |-> <<PatternOp(e.func), level + 1, ins, inits, body, k>>]
  IN  CASE e.is \in {"name", "star"}   -> Lookup(env, e.name)
        [] e.is = "binop"              -> << <<e.op, <<>>, Single(e.left), Single(e.right)>> >>
        [] e.is \in {"index", "slice"} -> << <<e.is, e.attributes, One(Lookup(env, e.name))>> >>
        [] e.is = "zip"                -> All(e.args)
        [] e.is = "pattern"            -> InPattern
        [] IsFunction(fs, e.func)      -> InCall(FunctionOf(fs, e.func))
        [] OTHER                       -> << <<e.func, e.attributes>> \o All(e.args) >>

\* The environment of the outermost function: a parameter stands for all its
\* leaves, a field of it for the leaves below.
Parameters(c, args) ==
  LET leaves == FlattenSeq([i \in DOMAIN args |->
                  LET ls == Leaves(c, args[i].type)
                  IN  [j \in DOMAIN ls |-> <<args[i].name>> \o ls[j].path]])
      names  == UNION {{SubSeq(x, 1, n) : n \in DOMAIN x} : x \in ToSet(leaves)}
      At(x)  == SelectSeq([i \in DOMAIN leaves |-> i], LAMBDA i : IsPrefix(x, leaves[i]))
  IN  [x \in names |-> [k \in DOMAIN At(x) |-> <<"input", At(x)[k]>>]]

SourceValue(c, fs, name) ==
  LET f == FunctionOf(fs, name) IN Run(fs, f.body, Parameters(c, f.args), 0)

(***************************************************************************)
(* The graph of the function that was parsed last.                         *)
(***************************************************************************)

Graph(c)   == {Root(c)} \union Nested(c, Root(c))
Holders(c, n) == {m \in Graph(c) : Contains(c.ir[m].nodes, n)}
LevelOf(c, n) == Cardinality({m \in Graph(c) : IsParallel(c.ir[m]) /\ n \in Nested(c, m)}) + 1

\* The tails of the edges of the graph that end at a tip.
Into(c, tip) ==
  UNION {{e.tail : e \in {x \in ToSet(c.ir[m].in_edges \o c.ir[m].edges) : x.tip = tip}}
         : m \in Graph(c)}
Out(c, n, p) == {e.tail : e \in {x \in ToSet(c.ir[n].out_edges) : x.tip = <<n, p>>}}

Index(s, x) == CHOOSE i \in DOMAIN s : s[i] = x
TheOnly(S)  == CHOOSE x \in S : TRUE

RECURSIVE GraphTerm(_, _)
GraphTerm(c, end) ==
  LET n == end[1]
      p == end[2]
      node == c.ir[n]
      From(tails) == IF Cardinality(tails) = 1 THEN GraphTerm(c, TheOnly(tails)) ELSE Undefined
      Ins(ports)  == [i \in DOMAIN ports |-> From(Into(c, <<n, ports[i]>>))]
      Returned    == [k \in DOMAIN node.outputs |-> From(Out(c, n, Bodyout(node.outputs[k])))]
  IN  CASE n \notin Graph(c) -> Undefined
        [] node.kind = "block" /\ Contains(node.inputs, p) -> <<"input", Index(node.inputs, p)>>
        [] IsBodyin(p)              -> <<"elem", LevelOf(c, n), Index(BodyinsOf(node), p)>>
        [] Contains(node.states, p) -> <<"state", LevelOf(c, n), Index(node.states, p)>>
        [] ~Contains(node.outputs, p) -> Undefined
        [] IsParallel(node) -> <<node.op, LevelOf(c, n), Ins(node.inputs), Ins(node.inits),
                                 Returned, Index(node.outputs, p)>>
        [] OTHER -> <<node.op, node.attributes>> \o Ins(node.inputs)

GraphValue(c) ==
  LET outs == c.ir[Root(c)].outputs
      From(tails) == IF Cardinality(tails) = 1 THEN GraphTerm(c, TheOnly(tails)) ELSE Undefined
  IN  [k \in DOMAIN outs |-> From(Out(c, Root(c), outs[k]))]

(***************************************************************************)
(* The type of a term. within[l] are the types of the inputs and of the    *)
(* initial states of the pattern at level l around it.                     *)
(***************************************************************************)

RECURSIVE TermType(_, _, _)
TermType(c, t, within) ==
  LET Types(ts) == [i \in DOMAIN ts |-> TermType(c, ts[i], within)]
      Arg(i)    == TermType(c, t[i + 2], within)
      Scope     == Append(SubSeq(within, 1, t[2] - 1), [ins |-> Types(t[3]), inits |-> Types(t[4])])
      Body      == TermType(c, t[5][t[6]], Scope)
      op == Head(t)
  IN  CASE op = "input"  -> TypeOf(c, c.ir[Root(c)].inputs[t[2]])
        [] op = "elem"   -> Deeper(within[t[2]].ins[t[3]], -1)
        [] op = "state"  -> within[t[2]].inits[t[3]]
        [] op = "zeros"  -> TensorType(t[2])
        [] op = "matmul" -> TensorType(<<Arg(1).shape[1], Arg(2).shape[2]>>)
        [] op = "index"  -> Deeper(Arg(1), -1)
        [] op \in {"map", "scanl", "scanr"} -> Deeper(Body, 1)
        [] op \in Patterns -> Body
        [] OTHER -> Arg(1)

\* The types in the patterns around a node.
Around(c, n) ==
  LET outer == {m \in Graph(c) : IsParallel(c.ir[m]) /\ n \in Nested(c, m)}
      At(l) == c.ir[CHOOSE m \in outer : LevelOf(c, m) = l]
      Types(ports) == [i \in DOMAIN ports |-> TypeOf(c, ports[i])]
  IN  [l \in 1..Cardinality(outer) |->
         [ins |-> Types(At(l).inputs), inits |-> Types(At(l).inits)]]

-----------------------------------------------------------------------------

(***************************************************************************)
(* Properties.                                                             *)
(***************************************************************************)

Accepted == outcome = "accepted" /\ ctx.frames # <<>>
Reduces(c) == \E n \in Graph(c) : c.ir[n].op \in {"reduce", "fold", "foldl", "foldr"}

\* The graph of an accepted function computes what its source does: inlining
\* (InlineUdf, AstVisitor.inline_udf), aliases of lambda parameters, shadowed
\* names and moved edges never connect a node to another value.
Faithful ==
  Accepted => GraphValue(ctx) = SourceValue(ctx, source, Last(ctx.frames))

\* Propagation gives every port the type its value has, in every nesting of
\* patterns, and the function the types it declares (propagate_storage).
TypesInferred ==
  Accepted /\ ~Reduces(ctx) =>
    /\ \A n \in Graph(ctx) \ {Root(ctx)} :
         LET node == ctx.ir[n]
             Fits(p, t) == TypeOf(ctx, p) = TermType(ctx, t, Around(ctx, n))
         IN  /\ \A i \in DOMAIN node.outputs :
                   Fits(node.outputs[i], GraphTerm(ctx, <<n, node.outputs[i]>>))
             /\ \A p \in ToSet(node.inputs \o node.inits) : \A t \in Into(ctx, <<n, p>>) :
                   Fits(p, GraphTerm(ctx, t))
    /\ LET f == FunctionOf(source, Last(ctx.frames))
           declared == Leaves(ctx, f.returns)
           outs == ctx.ir[Root(ctx)].outputs
       IN  \A i \in DOMAIN outs : TypeOf(ctx, outs[i]) = declared[i].type

\* Between statements every node is in one block, and every input of it is fed
\* by one edge, kept by that block: moving and renaming (inline_udf,
\* update_edge_tip, _update_tail) neither lose nor double an edge.
FedOnce ==
  AtStatement =>
    \A n \in Graph(ctx) \ {Root(ctx)} :
      LET node == ctx.ir[n]
          IsFed(p) == \E m \in Holders(ctx, n) :
            Len(SelectSeq(ctx.ir[m].in_edges \o ctx.ir[m].edges, LAMBDA e : e.tip = <<n, p>>)) = 1
      IN  /\ Cardinality(Holders(ctx, n)) = 1 /\ node.parents = Holders(ctx, n)
          /\ \A p \in ToSet(node.inputs \o node.inits) :
               IsFed(p) /\ Cardinality(Into(ctx, <<n, p>>)) = 1

\* The depth of a node is how many blocks it is in, also after the function it
\* was parsed in was inlined in a pattern (increase_depth).
DepthIsNesting ==
  AtStatement \/ Accepted =>
    \A n \in Graph(ctx) :
      ctx.ir[n].depth = Cardinality({m \in Graph(ctx) : n \in Nested(ctx, m)})

\* A type that was found for a port is not replaced by another one, however
\* many edges reach it, until the context is reset.
TypesSettle ==
  [][ctx'.names >= ctx.names /\ (ctx.frames = <<>> \/ ~Reduces(ctx)) =>
       \A p \in DOMAIN ctx.storage : ctx.storage[p] # NoType => TypeOf(ctx', p) = ctx.storage[p]]_vars
=============================================================================
