------------------------------ MODULE AstVisitor ------------------------------
(***************************************************************************)
(* The parser: kaleido/parser/__init__.py and ast_visitor.py. Functions    *)
(* decorated with kaleido.function are parsed one after the other into IR  *)
(* graphs; propagate_storage then infers the types of the last one.        *)
(*                                                                         *)
(* The recursion of the visitors is an agenda of what is left to do, first *)
(* task first, and a stack of the values that the calls in progress have   *)
(* returned: the name of a variable, a node, or the list of nodes that an  *)
(* inlined function returns. Try takes a step or, where an assertion or a  *)
(* check of the code fails, raises. A program is a sequence of             *)
(* declarations, an expression a record with the fields of its ast node:   *)
(*   name, star     of a variable <<x>> or a field <<x, "f">>              *)
(*   binop          op, left, right                                        *)
(*   index, slice   name, attributes (empty without an upper bound)        *)
(*   zip            args                                                   *)
(*   call           func, args, attributes                                 *)
(*   pattern        func, formals, body, over, inits                       *)
(***************************************************************************)
EXTENDS Context

CONSTANTS
  Programs,
  Expressions, (* the expressions of the programs, with their parts        *)
  Annotations  (* the types of parameters, fields and results, with theirs *)

\* Programs are syntax trees, and nothing follows the return of a function: after
\* it no block is left, and any statement raises.
ASSUME SyntaxAssumption ==
  /\ \A e \in Expressions :
       /\ e.is = "binop" => {e.left, e.right} \subseteq Expressions
       /\ e.is \in {"call", "zip"} => e.args \in Seq(Expressions)
       /\ e.is = "pattern" => {e.over, e.body} \subseteq Expressions /\ e.inits \in Seq(Expressions)
  /\ \A p \in Programs :
       /\ p \in Seq(ToSet(p))
       /\ \A d \in ToSet(p) : d.is = "function" =>
            /\ d.body \in Seq(ToSet(d.body))
            /\ \A i \in DOMAIN d.body :
                 \/ d.body[i].do = "assign" /\ d.body[i].rhs \in Expressions
                 \/ d.body[i].do = "return" /\ i = Len(d.body)

VARIABLES source, decls, agenda, values, ctx, outcome

vars == <<source, decls, agenda, values, ctx, outcome>>

Task     == Head(agenda)
Doing(t) == outcome = "running" /\ agenda # <<>> /\ Task.do = t

Visit(e)   == [do |-> "visit", expr |-> e]
Visits(es) == [i \in DOMAIN es |-> Visit(es[i])]
Visiting(kinds) == Doing("visit") /\ Task.expr.is \in kinds

NameValue(name) == [is |-> "name", of |-> name]
NodeValue(n)    == [is |-> "node", of |-> n]
ListValue(ns)   == [is |-> "list", of |-> ns]
Given       == Last(values)
Dropped(k)  == SubSeq(values, 1, Len(values) - k)
Give(v)     == Append(values, v)

\* The task is done, with the tasks it leaves and the values then on the stack.
Try(ok, c, more, vs) ==
  /\ UNCHANGED <<source, decls>>
  /\ IF ok THEN /\ ctx' = c /\ agenda' = more \o Tail(agenda) /\ values' = vs
                /\ UNCHANGED outcome
     ELSE outcome' = "raised" /\ UNCHANGED <<ctx, agenda, values>>

(***************************************************************************)
(* Steps that many visitors share.                                         *)
(***************************************************************************)

NewOp(c, op, attributes) == Create(GenOpName(c), OpName(c.ops), NewNode(op, attributes))
UseAll(c, names, n) ==
  AddInputPorts(GenVarNames(c, names, n, Each(names, "use")), n, FreshPorts(c, Len(names)))
GenAll(c, names, n) ==
  AddOutputPorts(GenVarNames(c, names, n, Each(names, "gen")), n, FreshPorts(c, Len(names)))
UseAt(c, name, n) == UseAll(c, <<name>>, n)
GenAt(c, name, n) == GenAll(c, <<name>>, n)
Push(c, n) == [c EXCEPT !.pending = Append(@, n)]
Pop(c)     == [c EXCEPT !.pending = Front(@)]

FlowOf(c, block, port) ==
  IF IsBodyin(port) \/ Contains(c.ir[block].inputs, port) THEN "in_edges" ELSE "edges"

\* Edges to the current block, after the checks that add_edge makes.
Checked(c, edges) ==
  \A i \in DOMAIN edges : IsTail(c, edges[i].tail) /\ IsTip(c, Block(c), edges[i].tip)
Link(c, edges) ==
  LET Linked(d, e) == AddEdge(d, Block(c), e.kind, e.tail, e.tip)
  IN  [c EXCEPT !.ir = FoldLeft(Linked, c, edges).ir]
Edge(kind, tail, tip) == [kind |-> kind, tail |-> tail, tip |-> tip]

(***************************************************************************)
(* Declarations.                                                           *)
(***************************************************************************)

\* The storages of an annotation, each with its path in the tuple or class.
IsKnown(c, a) ==
  CASE a.is = "class" -> a.of \in DOMAIN c.defs
    [] a.is = "tuple" -> \A i \in DOMAIN a.of : a.of[i].is # "class"
    [] OTHER -> TRUE
Under(name, leaves) ==
  [i \in DOMAIN leaves |-> [leaves[i] EXCEPT !.path = <<name>> \o @]]
Leaves(c, annotation) ==
  LET Of[a \in Annotations] ==
        CASE a.is = "class" -> c.defs[a.of]
          [] a.is = "tuple" ->
               FlattenSeq([i \in DOMAIN a.of |-> Under(ToString(i - 1), Of[a.of[i]])])
          [] a.is = "fields" ->
               FlattenSeq([i \in DOMAIN a.of |-> Under(a.of[i].name, Of[a.of[i].type])])
          [] OTHER -> <<[path |-> <<>>, type |-> a.of]>>
  IN  Of[annotation]

Define(c, name, a) ==
  IF name \in DOMAIN c.defs THEN c
  ELSE [c EXCEPT !.defs = [t \in DOMAIN @ \union {name} |->
                             IF t = name THEN Leaves(c, a) ELSE @[t]]]

Paths(leaves)     == [i \in DOMAIN leaves |-> leaves[i].path]
LeafTypes(leaves) == [i \in DOMAIN leaves |-> leaves[i].type]

AddArguments(c, n, leaves) ==
  LET ports == FreshPorts(c, Len(leaves))
  IN  SetTypes(AddInputPorts(GenVarNames(c, Paths(leaves), n, Each(leaves, "def")), n, ports),
               ports, LeafTypes(leaves))
AddReturns(c, n, leaves) ==
  SetTypes(GenAll(c, Paths(leaves), n), FreshPorts(c, Len(leaves)), LeafTypes(leaves))

Declare(c, d) ==
  LET n    == <<d.name>>
      args == FlattenSeq([i \in DOMAIN d.args |-> Under(d.args[i].name, Leaves(c, d.args[i].type))])
  IN  AddReturns(AddArguments(PushFrame(c, d.name), n, args), n, Under("%tmp", Leaves(c, d.returns)))

NextDecl(kind) ==
  outcome = "running" /\ agenda = <<>> /\ decls # <<>> /\ Head(decls).is = kind
TryDecl(ok, c, tasks) ==
  /\ UNCHANGED <<source, values>>
  /\ IF ok THEN ctx' = c /\ agenda' = tasks /\ decls' = Tail(decls) /\ UNCHANGED outcome
     ELSE outcome' = "raised" /\ UNCHANGED <<ctx, agenda, decls>>

DefineParams ==
  LET d == Head(decls)
      known == \A i \in DOMAIN d.fields : IsKnown(ctx, d.fields[i].type)
  IN  /\ NextDecl("params")
      /\ TryDecl(ctx.frames = <<>> /\ known,
                 Define(ctx, d.name, [is |-> "fields", of |-> d.fields]), <<>>)

\* A function that was parsed under the same name is not parsed again.
DefineFunction ==
  LET d == Head(decls)
      known == IsKnown(ctx, d.returns) /\ \A i \in DOMAIN d.args : IsKnown(ctx, d.args[i].type)
  IN  /\ NextDecl("function")
      /\ IF d.name \in ctx.compiled THEN TryDecl(TRUE, ctx, <<>>)
         ELSE TryDecl(known, Declare(ctx, d), d.body \o <<[do |-> "compiled", func |-> d.name]>>)

ResetContext == NextDecl("reset") /\ TryDecl(TRUE, Reset, <<>>)

StartPropagation ==
  NextDecl("propagate")
    /\ TryDecl(TRUE, ctx, <<[do |-> "propagate", node |-> <<Last(ctx.frames)>>]>>)

Compiled ==
  Doing("compiled")
    /\ Try(ctx.addable, [ctx EXCEPT !.compiled = @ \union {Task.func}], <<>>, values)

(***************************************************************************)
(* Statements.                                                             *)
(***************************************************************************)

IsUnpacking == Len(Task.lhs) > 1 /\ Task.rhs.is = "name" /\ Len(Task.rhs.name) = 1

Unpack ==
  LET from == Generation(ctx, Task.rhs.name)
      Alias(i) == Record(Task.lhs[i], from[i][2], <<>>, "alias")
  IN  /\ Doing("assign") /\ IsUnpacking
      /\ Try(Len(from) = Len(Task.lhs), Insert(ctx, [i \in DOMAIN from |-> Alias(i)]), <<>>, values)

Assign ==
  /\ Doing("assign") /\ ~IsUnpacking
  /\ Try(Task.rhs.is # "star" /\ (Task.rhs.is = "name" => Len(Task.rhs.name) = 1),
         ctx, <<Visit(Task.rhs), [do |-> "bind", lhs |-> Task.lhs]>>, values)

\* The variables on the left replace the outputs that the expression was given.
ClearOutputs(c, n) == [c EXCEPT !.ir[n].outputs = <<>>]
Rename(c, n, old, new) ==
  LET Renamed(edges, i) == UpdateEdgeTip(edges, <<n, Bodyout(old[i])>>, <<n, Bodyout(new[i])>>)
  IN  IF IsParallel(c.ir[n])
      THEN [c EXCEPT !.ir[n].out_edges = FoldLeft(Renamed, @, [i \in DOMAIN new |-> i])]
      ELSE c

Bind ==
  LET n == Given.of
      old == ctx.ir[n].outputs
  IN  /\ Doing("bind")
      /\ Try(Given.is = "node" /\ (IsParallel(ctx.ir[n]) => Len(Task.lhs) = Len(old)),
             Rename(GenAll(ClearOutputs(ctx, n), Task.lhs, n), n, old, FreshPorts(ctx, Len(Task.lhs))),
             <<>>, Dropped(1))

Return ==
  LET block == Block(ctx)
      from(i) == Generation(ctx, Task.names[i])
      Output(c, i) ==
        FoldLeft(LAMBDA d, tail : AddOutputNode(d, block, tail, ctx.ir[block].outputs[i]), c, from(i))
      IsOutput(tail) == Contains(ctx.ir[tail[1]].outputs, tail[2])
      ok == /\ Len(ctx.blocks) = 1 /\ Len(ctx.ir[block].outputs) = Len(Task.names)
            /\ \A i \in DOMAIN Task.names :
                 from(i) # <<>> /\ \A j \in DOMAIN from(i) : IsOutput(from(i)[j])
  IN  /\ Doing("return")
      /\ Try(ok, [ctx EXCEPT !.ir = FoldLeft(Output, ctx, [i \in DOMAIN Task.names |-> i]).ir,
                             !.blocks = <<>>], <<>>, values)

(***************************************************************************)
(* Names, operators and subscripts.                                        *)
(***************************************************************************)

VisitName ==
  Visiting({"name", "star"}) /\ Try(TRUE, ctx, <<>>, Give(NameValue(Task.expr.name)))

VisitBinOp ==
  LET e == Task.expr
      n == OpName(ctx.ops)
  IN  /\ Visiting({"binop"})
      /\ Try(e.op \in Primitives, Push(AddNode(NewOp(ctx, e.op, <<>>), Block(ctx), n), n),
             <<[do |-> "operand", expr |-> e.left], [do |-> "operand", expr |-> e.right],
               [do |-> "endBinOp"]>>, values)

IsVariable(e) == e.is = "name" /\ Len(e.name) = 1

OperandName ==
  LET n     == Current(ctx)
      d     == UseAt(ctx, Anonymous, n)
      tails == Generation(d, Task.expr.name)
      kind  == FlowOf(d, Block(d), tails[1][2])
      edges == <<Edge(kind, tails[1], <<n, Fresh(ctx)>>)>>
  IN  /\ Doing("operand") /\ IsVariable(Task.expr)
      /\ Try(Len(tails) = 1 /\ Checked(d, edges), Link(d, edges), <<>>, values)

OperandExpr ==
  /\ Doing("operand") /\ ~IsVariable(Task.expr)
  /\ Try(TRUE, UseAt(ctx, Anonymous, Current(ctx)),
         <<Visit(Task.expr), [do |-> "link", port |-> Fresh(ctx)]>>, values)

LinkOperand ==
  LET v     == Given
      tails == IF v.is = "name" THEN Generation(ctx, v.of)
               ELSE << <<v.of, Last(ctx.ir[v.of].outputs)>> >>
      kind  == IF IsBodyin(tails[1][2]) THEN "in_edges" ELSE "edges"
      edges == <<Edge(kind, tails[1], <<Current(ctx), Task.port>>)>>
  IN  /\ Doing("link")
      /\ Try(v.is # "list" /\ Len(tails) = 1 /\ Checked(ctx, edges), Link(ctx, edges),
             <<>>, Dropped(1))

EndBinOp ==
  Doing("endBinOp")
    /\ Try(TRUE, GenAt(Pop(ctx), Anonymous, Current(ctx)), <<>>, Give(NodeValue(Current(ctx))))

VisitSubscript ==
  LET e     == Task.expr
      n     == OpName(ctx.ops)
      tails == Generation(ctx, e.name)
      kind  == IF IsBodyin(tails[1][2]) THEN "in_edges" ELSE "edges"
      edges == <<Edge(kind, tails[1], <<n, Fresh(ctx)>>)>>
      made  == GenAt(UseAt(NewOp(ctx, e.is, e.attributes), Anonymous, n), Anonymous, n)
      d     == AddNode(made, Block(ctx), n)
  IN  /\ Visiting({"index", "slice"})
      /\ Try(Len(e.name) = 1 /\ Len(tails) = 1 /\ Checked(d, edges), Link(d, edges), <<>>, Give(NodeValue(n)))

(***************************************************************************)
(* Calls of operations.                                                    *)
(***************************************************************************)

\* How many inputs an argument stands for, and the names of the ports for it.
Width(c, arg) == IF arg.is = "star" THEN Len(Generation(c, arg.name)) ELSE 1
UsedNames(c, arg) ==
  [i \in 1..Width(c, arg) |-> IF arg.is \in {"name", "star"} THEN arg.name ELSE Anonymous]

Stars(args) == Cardinality({i \in DOMAIN args : args[i].is = "star"})

IsUdf(e) == e.is = "call" /\ Contains(ctx.frames, e.func)

CallPrimitive ==
  LET e == Task.expr
      n == OpName(ctx.ops)
      names == FlattenSeq([i \in DOMAIN e.args |-> UsedNames(ctx, e.args[i])])
      used  == UseAll(NewOp(ctx, e.func, e.attributes), names, n)
      ok == /\ e.is = "call" /\ e.func \in Primitives \union Accesses
            /\ Stars(e.args) <= 1 /\ Len(names) = Arity(e.func)
  IN  /\ Visiting({"call", "zip"}) /\ ~IsUdf(e)
      /\ Try(ok, Push(AddNode(used, Block(ctx), n), n),
             Visits(e.args) \o <<[do |-> "endPrimitive", count |-> Len(e.args)]>>, values)

\* A value flows to the inputs that use its name, or to the one in its position.
ArgumentEdges(c, n, v, i) ==
  LET tails == Generation(c, v.of)
      tips  == Usages(c, v.of, n)
  IN  IF v.is = "name"
      THEN [j \in DOMAIN tails |-> Edge(FlowOf(c, Block(c), tails[j][2]), tails[j], <<n, tips[j]>>)]
      ELSE <<Edge("edges", <<v.of, Last(c.ir[v.of].outputs)>>, <<n, c.ir[n].inputs[i]>>)>>

Connectable(c, n, v) ==
  CASE v.is = "name" -> Len(Generation(c, v.of)) = Len(Usages(c, v.of, n))
    [] v.is = "node" -> Len(c.ir[v.of].outputs) = 1
    [] OTHER -> FALSE

EndPrimitive ==
  LET n     == Current(ctx)
      d     == GenAt(Pop(ctx), Anonymous, n)
      args  == SubSeq(values, Len(values) - Task.count + 1, Len(values))
      edges == FlattenSeq([i \in DOMAIN args |-> ArgumentEdges(d, n, args[i], i)])
  IN  /\ Doing("endPrimitive")
      /\ Try((\A i \in DOMAIN args : Connectable(d, n, args[i])) /\ Checked(d, edges),
             Link(d, edges), <<>>, Append(Dropped(Task.count), NodeValue(n)))

(***************************************************************************)
(* Parallel patterns.                                                      *)
(***************************************************************************)

CallPattern ==
  LET e  == Task.expr
      n  == OpName(ctx.ops)
      op == CASE e.func = "scan" -> "scanl" [] e.func = "fold" -> "foldl" [] OTHER -> e.func
      Input(x) == [do |-> "input", node |-> n, name |-> x.name]
      inputs == CASE e.over.is = "zip" -> [i \in DOMAIN e.over.args |-> Input(e.over.args[i])]
                  [] IsVariable(e.over) -> <<Input(e.over)>>
                  [] OTHER -> <<Visit(e.over), [do |-> "feed", node |-> n]>>
  IN  /\ Visiting({"pattern"})
      /\ Try(e.func \in Patterns, Push(AddNode(NewOp(ctx, op, <<>>), Block(ctx), n), n),
             Visits(e.inits) \o <<[do |-> "inits", node |-> n, count |-> Len(e.inits)]>> \o inputs
               \o <<[do |-> "lambda", node |-> n, formals |-> e.formals, body |-> e.body],
                    [do |-> "endLambda", node |-> n], [do |-> "endPattern"]>>, values)

Inits ==
  LET InitTask(i) ==
        [do |-> "init", node |-> Task.node, value |-> values[Len(values) - Task.count + i]]
  IN  /\ Doing("inits")
      /\ Try(Task.count = 0 \/ ctx.ir[Task.node].kind = "aggregate", ctx,
             [i \in 1..Task.count |-> InitTask(i)], Dropped(Task.count))

\* For each tail a port for the initial state, fed from there, and one for the
\* state.
AddStates(c, n, tails, flows, key) ==
  LET k      == Len(tails)
      inits  == [i \in 1..k |-> PortName(c.names + 2 * i - 2)]
      states == [i \in 1..k |-> PortName(c.names + 2 * i - 1)]
      names  == [j \in 1..2 * k |-> IF j % 2 = 0 THEN key
                                    ELSE <<"%state_init", ToString(c.names + j - 1)>>]
      kinds  == [j \in 1..2 * k |-> IF j % 2 = 0 THEN "def" ELSE "use"]
  IN  Link(AddStatePorts(GenVarNames(c, names, n, kinds), n, inits, states),
           [i \in 1..k |-> Edge(flows[i], tails[i], <<n, inits[i]>>)])

InitFromName ==
  LET n == Task.node
      tails == Generation(ctx, Task.value.of)
      flows == [i \in DOMAIN tails |-> IF tails[i][1] = Block(ctx) THEN "in_edges" ELSE "edges"]
  IN  /\ Doing("init") /\ Task.value.is = "name"
      /\ Try(tails # <<>> /\ \A i \in DOMAIN tails : IsTail(ctx, tails[i]),
             AddStates(ctx, n, tails, flows, n), <<>>, values)

\* Only a constant may be computed in the place of an initializer.
InitFromNode ==
  LET m == Task.value.of
  IN  /\ Doing("init") /\ Task.value.is # "name"
      /\ Try(Task.value.is = "node" /\ Arity(ctx.ir[m].op) = 0,
             AddStates(ctx, Task.node, << <<m, Last(ctx.ir[m].outputs)>> >>, <<"edges">>,
                       <<"%state", ToString(ctx.names)>>), <<>>, values)

AddInport ==
  LET n     == Task.node
      d     == UseAt(ctx, Task.name, n)
      tails == Generation(d, Task.name)
      kind  == IF tails[1][1] = Block(d) THEN FlowOf(d, Block(d), tails[1][2]) ELSE "edges"
      edges == <<Edge(kind, tails[1], <<n, Fresh(ctx)>>)>>
  IN  /\ Doing("input")
      /\ Try(Len(tails) = 1 /\ Checked(d, edges), Link(d, edges), <<>>, values)

\* The results of an expression to iterate over.
Feed ==
  LET n    == Task.node
      outs == ctx.ir[Given.of].outputs
      Input(i) == Edge("edges", <<Given.of, outs[i]>>, <<n, FreshPorts(ctx, i)[i]>>)
  IN  /\ Doing("feed")
      /\ Try(Given.is = "node", Link(UseAll(ctx, outs, n), [i \in DOMAIN outs |-> Input(i)]),
             <<>>, Dropped(1))

VisitLambda ==
  LET n == Task.node
      d == [ctx EXCEPT !.blocks = Append(@, n)]
      ports   == BodyinsOf(ctx.ir[n])
      State(p)   == Record(Task.formals[1], p, n, "def")
      Element(p) == <<Record(Last(Task.formals), p, <<>>, "alias"), Record(p, p, n, "def")>>
      states   == IF Len(Task.formals) = 1 THEN <<>> ELSE ctx.ir[n].states
      elements == FlattenSeq([i \in DOMAIN ports |-> Element(ports[i])])
  IN  /\ Doing("lambda")
      /\ Try(Len(Task.formals) \in 1..2 /\ (Len(Task.formals) = 2 => ctx.ir[n].states # <<>>),
             Insert(d, [i \in DOMAIN states |-> State(states[i])] \o elements),
             <<Visit(Task.body)>>, values)

Returns(c, n, tail) == AddOutputNode(GenAt(c, Anonymous, n), n, tail, Fresh(c))

\* The body is a function: only its first value is returned.
EndLambdaOfFunction ==
  LET m == Given.of[1] IN
  /\ Doing("endLambda") /\ Given.is = "list"
  /\ Try(IsBlock(ctx.ir[m]) \/ Len(ctx.ir[m].outputs) = 1,
         Returns(ctx, Task.node, <<m, ctx.ir[m].outputs[1]>>), <<>>, Dropped(1))

\* The body is an expression: the node created first for it is the outermost.
EndLambdaOfExpression ==
  LET n == Task.node
      m == ctx.ir[n].nodes[1]
      ported == GenAll(ctx, Each(ctx.ir[Given.of].outputs, Anonymous), n)
      outs   == ported.ir[n].outputs
      Output(c, i) == AddOutputNode(c, n, <<m, ctx.ir[m].outputs[i]>>, outs[i])
  IN  /\ Doing("endLambda") /\ Given.is # "list"
      /\ Try(Given.is = "node" /\ ctx.ir[Given.of].outputs # <<>>,
             [ported EXCEPT !.ir = FoldLeft(Output, ported, [i \in DOMAIN ctx.ir[m].outputs |-> i]).ir],
             <<>>, Dropped(1))

EndPattern ==
  LET n == Current(ctx) IN
  /\ Doing("endPattern")
  /\ Try(TRUE, CleanSymbols([Pop(ctx) EXCEPT !.blocks = Front(@)], n), <<>>, Give(NodeValue(n)))

(***************************************************************************)
(* Calls of functions that were parsed before are inlined.                 *)
(***************************************************************************)

\* The nodes of function f move into the current block, with its inner edges.
MoveNode(c, f, n) ==
  LET d == AddNode([c EXCEPT !.ir[n].parents = @ \ {f}], Block(c), n)
  IN  IF IsParallel(c.ir[n]) THEN IncreaseDepth(d, n) ELSE d
\* Faulty variant of MoveBody: forgets the edges.
MoveNodes(c, f) ==
  LET Move(d, n) == MoveNode(d, f, n)
  IN  [c EXCEPT !.ir = FoldLeft(Move, c, c.ir[f].nodes).ir]
MoveBody(c, f) ==
  LET Move(d, n) == MoveNode(d, f, n)
  IN  [c EXCEPT !.ir = [FoldLeft(Move, c, c.ir[f].nodes).ir EXCEPT
                          ![Block(c)].edges = @ \o c.ir[f].edges]]

\* What consumes the formal parameters of f, in their order; a parameter used by
\* an inner pattern stands for itself.
FormalsOf(c, f) ==
  LET EndsOf(p) == LET tips == TipsOf(c.ir[f].in_edges, <<f, p>>)
                   IN  IF tips = <<>> THEN << <<f, p>> >> ELSE tips
  IN  FlattenSeq([i \in DOMAIN c.ir[f].inputs |-> EndsOf(c.ir[f].inputs[i])])

\* One unit for each formal that an argument is for; a starred one takes the rest.
UnitsOf(c, args, formals) ==
  LET num == Len(formals) - Len(args) + 1
      Star(a) == [i \in 1..num |-> [name |-> a.name, at |-> i, ends |-> Generation(c, a.name)]]
      Unit(a) == IF a.is = "star" THEN Star(a)
                 ELSE <<[name |-> a.name, at |-> 0, ends |-> Generation(c, a.name)]>>
  IN  FlattenSeq([i \in DOMAIN args |-> Unit(args[i])])

InlineUdf ==
  LET e == Task.expr
      f == <<e.func>>
      formals == FormalsOf(ctx, f)
      units   == UnitsOf(ctx, e.args, formals)
      outs    == ctx.ir[f].out_edges
      num     == Len(formals) - Len(e.args) + 1
      MayBePassed(arg) ==
        /\ arg.is \in {"name", "star"} /\ IsRecorded(ctx, arg.name)
        /\ arg.is = "star" => num > 1 /\ Len(Generation(ctx, arg.name)) = num
      ok == /\ \A i \in DOMAIN ctx.ir[f].nodes : f \in ctx.ir[ctx.ir[f].nodes[i]].parents
            /\ Stars(e.args) <= 1 /\ \A i \in DOMAIN e.args : MayBePassed(e.args[i])
            /\ Len(units) <= Len(formals)
  IN  /\ Visiting({"call"}) /\ IsUdf(e)
      /\ Try(ok, MoveBody(ctx, f),
             <<[do |-> "arguments", units |-> units, formals |-> formals, ends |-> <<>>, at |-> 0]>>,
             Give(ListValue([i \in DOMAIN outs |-> outs[i].tail[1]])))

Argument == Doing("arguments") /\ Task.units # <<>>
TryArgument(ok, c, ends, at) ==
  Try(ok, c, <<[Task EXCEPT !.units = Tail(@), !.formals = Tail(@), !.ends = ends, !.at = at]>>,
      values)

\* The values of a starred argument were looked up in reverse. (The faulty
\* variant takes them as they come.)
StarInOrder(unit) == unit.ends[unit.at]
StarTail(unit) == unit.ends[Len(unit.ends) - unit.at + 1]

ArgumentToNode ==
  LET unit == Head(Task.units)
      tip  == Head(Task.formals)
      tail == IF unit.at = 0 THEN unit.ends[1] ELSE StarTail(unit)
      kind == IF unit.at = 0 THEN "in_edges" ELSE FlowOf(ctx, Block(ctx), unit.ends[unit.at][2])
      edge == Edge(kind, tail, tip)
      ok   == /\ unit.at = 0 => Len(unit.ends) = 1
              /\ (unit.at # 0 \/ ctx.ir[tail[1]].kind # "block") => Checked(ctx, <<edge>>)
  IN  /\ Argument /\ ctx.ir[tip[1]].kind # "block"
      /\ TryArgument(ok, Link(ctx, <<edge>>), unit.ends, IF unit.at = 0 THEN Task.at ELSE unit.at)

\* A parameter that inner patterns consume: their edges get another tail, the
\* one of the last argument that was looked up.
NewTail(c, f, p, tail) ==
  LET old == <<f, p>>
      Replace(edges) == IF TipsOf(edges, old) = <<>> THEN edges
                        ELSE Joined(SelectSeq(edges, LAMBDA e : e.tail # old),
                                    tail, TipsOf(edges, old)[1])
  IN  [c EXCEPT !.ir = [n \in DOMAIN @ |->
         IF Contains(c.ir[f].nodes, n) THEN [@[n] EXCEPT !.in_edges = Replace(@)] ELSE @[n]]]

ArgumentToPattern ==
  LET unit == Head(Task.units)
      f    == Head(Task.formals)[1]
      p    == Head(Task.formals)[2]
      ends == IF unit.at = 0 THEN Task.ends ELSE unit.ends
      at   == IF unit.at = 0 THEN Task.at ELSE unit.at
      uses == {Len(TipsOf(ctx.ir[n].in_edges, <<f, p>>)) : n \in ToSet(ctx.ir[f].nodes)}
  IN  /\ Argument /\ ctx.ir[f].kind = "block"
      /\ TryArgument(at \in DOMAIN ends /\ uses \in {{1}, {0, 1}}, NewTail(ctx, f, p, ends[at]),
                     ends, at)

EndArguments ==
  Doing("arguments") /\ Task.units = <<>> /\ Try(TRUE, ctx, <<>>, values)

(***************************************************************************)
(* Types flow along the edges, once all functions are parsed.              *)
(***************************************************************************)

Propagate(n) == [do |-> "propagate", node |-> n]
Flows(kind, n, edges) == [do |-> kind, node |-> n, edges |-> edges]
Flow     == Head(Task.edges)
Flowing(kind) == Doing(kind) /\ Task.edges # <<>>

PropagateOp ==
  LET n == Task.node IN
  /\ Doing("propagate") /\ ~IsBlock(ctx.ir[n])
  /\ Try(CanInfer(ctx, n), Infer(ctx, n), <<>>, values)

PropagateBlock ==
  LET n == Task.node IN
  /\ Doing("propagate") /\ IsBlock(ctx.ir[n])
  /\ Try(Typed(ctx, ctx.ir[n].inputs), ctx,
         <<Flows("in_edges", n, ctx.ir[n].in_edges), Flows("edges", n, ctx.ir[n].edges),
           [do |-> "leave", node |-> n]>>, values)

TryArrive(ok, c, tip) ==
  LET rest == [Task EXCEPT !.edges = Tail(@)]
  IN  Try(ok, c, IF IsInferred(c, tip[1]) THEN <<Propagate(tip[1]), rest>> ELSE <<rest>>, values)

\* A function puts the type of an initializer among the inputs instead.
InFlow ==
  LET n == Task.node
      t == InType(ctx, n, Flow.tail)
      misplaced == ctx.ir[n].kind = "block" /\ Contains(ctx.ir[Flow.tip[1]].inits, Flow.tip[2])
  IN  /\ Flowing("in_edges")
      /\ TryArrive(t # NoType, IF misplaced THEN ctx ELSE Arrive(ctx, Flow.tip, t), Flow.tip)

\* A constant has no in_edge: its type is inferred when it is asked for.
EdgeFlow ==
  LET n == Task.node
      m == Flow.tail[1]
      inner  == Contains(ctx.ir[n].nodes, m)
      forced == inner /\ TypeOf(ctx, Flow.tail[2]) = NoType
      d == IF forced THEN Infer(ctx, m) ELSE ctx
      t == EdgeType(d, n, Flow.tail)
  IN  /\ Flowing("edges")
      /\ TryArrive((inner => IsInferred(ctx, m)) /\ (forced => CanInfer(ctx, m)) /\ t # NoType,
                   Arrive(d, Flow.tip, t), Flow.tip)

EndFlows ==
  /\ Doing("in_edges") \/ Doing("edges")
  /\ Task.edges = <<>> /\ Try(TRUE, ctx, <<>>, values)

OutFlow ==
  LET n == Task.node
      edges == ctx.ir[n].in_edges \o ctx.ir[n].edges
      outs  == ctx.ir[n].out_edges
      ok == /\ \A i \in DOMAIN edges : IsInferred(ctx, edges[i].tip[1])
            /\ \A i \in DOMAIN outs : IsParallel(ctx.ir[n]) => TypeOf(ctx, outs[i].tail[2]) # NoType
  IN  Doing("leave") /\ Try(ok, Leave(ctx, n), <<>>, values)

-----------------------------------------------------------------------------

Accept ==
  /\ outcome = "running" /\ agenda = <<>> /\ decls = <<>>
  /\ outcome' = "accepted"
  /\ UNCHANGED <<source, decls, agenda, values, ctx>>

Init ==
  /\ source \in Programs /\ decls = source
  /\ agenda = <<>> /\ values = <<>> /\ ctx = NewContext
  /\ outcome = "running"

Next ==
  \/ DefineParams \/ DefineFunction \/ ResetContext \/ StartPropagation \/ Accept
  \/ Compiled \/ Unpack \/ Assign \/ Bind \/ Return
  \/ VisitName \/ VisitBinOp \/ OperandName \/ OperandExpr \/ LinkOperand \/ EndBinOp
  \/ VisitSubscript \/ CallPrimitive \/ EndPrimitive
  \/ CallPattern \/ Inits \/ InitFromName \/ InitFromNode \/ AddInport \/ Feed
  \/ VisitLambda \/ EndLambdaOfFunction \/ EndLambdaOfExpression \/ EndPattern
  \/ InlineUdf \/ ArgumentToNode \/ ArgumentToPattern \/ EndArguments
  \/ PropagateOp \/ PropagateBlock \/ InFlow \/ EdgeFlow \/ EndFlows \/ OutFlow

Spec == Init /\ [][Next]_vars

\* The shapes of the state: names and records refer to nodes that exist, ports
\* have types of depth -1 or more, half-parsed nodes and blocks are nodes.
TypeOK ==
  /\ source \in Programs /\ outcome \in {"running", "raised", "accepted"}
  /\ \A i \in DOMAIN values : values[i].is \in {"name", "node", "list"}
  /\ LET nodes == DOMAIN ctx.ir
         IsPort(p) == Len(p) \in {2, 3} /\ p[1] = "%" /\ p[2] < ctx.names
     IN  /\ ctx.names \in Nat /\ ctx.ops \in Nat /\ ctx.addable \in BOOLEAN
         /\ \A i \in DOMAIN ctx.frames : <<ctx.frames[i]>> \in nodes
         /\ ToSet(ctx.blocks) \union ToSet(ctx.pending) \subseteq nodes
         /\ \A p \in DOMAIN ctx.storage : IsPort(p) /\ ctx.storage[p].depth >= -1
         /\ \A r \in ctx.symbols :
              /\ r.kind \in {"def", "gen", "use", "alias"} /\ (r.kind # "alias" => IsPort(r.port))
              /\ r.block \in nodes /\ r.node \in nodes \union {<<>>}

Root(c) == <<Last(c.frames)>>
AtStatement == outcome = "running" /\ agenda # <<>> /\ Task.do \in {"assign", "return"}

\* Between statements nothing is left of what is inside an expression: no
\* half-parsed node or block, and no name but results of the blocks within
\* (the stacks of ContextFrame, SymbolTable.clean_symbols).
ScopesClosed ==
  AtStatement =>
    /\ values = <<>> /\ ctx.pending = <<>> /\ ctx.blocks = <<Root(ctx)>>
    /\ \A r \in ctx.symbols : r.block = Root(ctx) \/ r.kind = "gen"
=============================================================================
