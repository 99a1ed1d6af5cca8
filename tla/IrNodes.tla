------------------------------- MODULE IrNodes -------------------------------
(***************************************************************************)
(* The nodes and edges of the IR graph: kaleido/parser/ir_nodes.py and the *)
(* operations registered in kaleido/parser/operations/.                    *)
(*                                                                         *)
(* Every operator takes the parser's context c (a record, see Context) and *)
(* returns it changed: c.ir maps the name of a node to the node, c.storage *)
(* maps the name of a port to the type it was found to have. A port has    *)
(* one owner, so one map serves all the ports. Dictionaries whose order is *)
(* observed are sequences: the edges of a block are kept in the order in   *)
(* which iterating over the dictionary of lists meets them.                *)
(***************************************************************************)
EXTENDS Integers, Sequences, FiniteSets, SequencesExt, FiniteSetsExt

(***************************************************************************)
(* Names. A port is %n, or the bodyin or bodyout of a port.                *)
(***************************************************************************)

OpName(n)   == <<"%node", n>>
PortName(n) == <<"%", n>>
Bodyin(p)   == Append(p, "bodyin")
Bodyout(p)  == Append(p, "bodyout")
IsBodyin(p) == Len(p) = 3 /\ p[3] = "bodyin"

(***************************************************************************)
(* Types: a FractalTensor of some depth, over tensors of a shape; depth 0  *)
(* is the tensor itself and depth -1 the number in it.                     *)
(***************************************************************************)

NoType == [depth |-> -2, shape |-> <<>>]
TensorType(shape) == [depth |-> 0, shape |-> shape]
Deeper(t, d) == [t EXCEPT !.depth = @ + d]

TypeOf(c, p) == IF p \in DOMAIN c.storage THEN c.storage[p] ELSE NoType
Typed(c, ports) == \A i \in DOMAIN ports : TypeOf(c, ports[i]) # NoType
SetTypes(c, ports, types) ==
  [c EXCEPT !.storage = [p \in DOMAIN @ \union ToSet(ports) |->
     IF Contains(ports, p) THEN types[CHOOSE i \in DOMAIN ports : ports[i] = p] ELSE @[p]]]
SetType(c, p, t) == SetTypes(c, <<p>>, <<t>>)

(***************************************************************************)
(* Operations: those that implement the abstract propagate_storage, and so *)
(* can be created, with their arity.                                       *)
(***************************************************************************)

Patterns == {"map", "reduce", "fold", "foldl", "foldr", "scan", "scanr", "scanl"}
Primitives == {"matmul", "zeros", "add", "tanh", "sigmoid", "mult"}
Accesses == {"index", "last", "slice", "slices"}
Arity(op) == CASE op = "zeros" -> 0
               [] op \in {"matmul", "add", "mult"} -> 2
               [] OTHER -> 1

KindOf(op) == CASE op \in Primitives -> "tensor"
                [] op \in Accesses   -> "access"
                [] op = "map"        -> "map"
                [] op \in Patterns   -> "aggregate"
                [] OTHER             -> "block"

NewNode(op, attributes) ==
  [op |-> op, kind |-> KindOf(op), attributes |-> attributes,
   inputs |-> <<>>, outputs |-> <<>>, inits |-> <<>>, states |-> <<>>,
   depth |-> 0, parents |-> {}, nodes |-> <<>>,
   in_edges |-> <<>>, edges |-> <<>>, out_edges |-> <<>>]

IsBlock(node)    == node.kind \in {"block", "map", "aggregate"}
IsParallel(node) == node.kind \in {"map", "aggregate"}

\* The ports of a block seen from its body: those of a function are its own.
BodyinsOf(node) ==
  IF node.kind = "block" THEN node.inputs
  ELSE [i \in DOMAIN node.inputs |-> Bodyin(node.inputs[i])]

Create(c, n, node) ==
  [c EXCEPT !.ir = [m \in DOMAIN @ \union {n} |-> IF m = n THEN node ELSE @[m]]]

AddInputPorts(c, n, ports)  == [c EXCEPT !.ir[n].inputs  = @ \o ports]
AddOutputPorts(c, n, ports) == [c EXCEPT !.ir[n].outputs = @ \o ports]
AddStatePorts(c, n, inits, states) ==
  [c EXCEPT !.ir[n].inits = @ \o inits, !.ir[n].states = @ \o states]

AddNode(c, block, n) ==
  [c EXCEPT !.ir[n].parents  = @ \union {block},
            !.ir[n].depth    = Max({@, c.ir[block].depth + 1}),
            !.ir[block].nodes = IF Contains(@, n) THEN @ ELSE Append(@, n)]

(***************************************************************************)
(* Edges, from the end called tail to the end called tip.                  *)
(***************************************************************************)

\* One more edge, listed behind those with the same tail.
Joined(edges, tail, tip) ==
  LET same == {i \in DOMAIN edges : edges[i].tail = tail}
      at   == IF same = {} THEN Len(edges) ELSE Max(same)
  IN  InsertAt(edges, at + 1, [tail |-> tail, tip |-> tip])

IsTail(c, tail) ==
  LET node == c.ir[tail[1]] IN
  \/ Contains(node.outputs, tail[2])
  \/ IsBlock(node) /\ Contains(BodyinsOf(node), tail[2])
  \/ Contains(node.states, tail[2])

IsTip(c, block, tip) ==
  /\ Contains(c.ir[block].nodes, tip[1])
  /\ Contains(c.ir[tip[1]].inputs \o c.ir[tip[1]].inits, tip[2])

AddEdge(c, block, kind, tail, tip) ==
  [c EXCEPT !.ir[block][kind] = Joined(@, tail, tip)]

AddOutputNode(c, block, tail, p) ==
  AddEdge(AddNode(c, block, tail[1]), block, "out_edges", tail,
          <<block, IF c.ir[block].kind = "block" THEN p ELSE Bodyout(p)>>)

TipsOf(edges, tail) ==
  LET own == SelectSeq(edges, LAMBDA e : e.tail = tail) IN [i \in DOMAIN own |-> own[i].tip]

\* The edges of a tail whose tip is renamed move to the end of the dictionary.
UpdateEdgeTip(edges, old, new) ==
  LET at   == CHOOSE i \in DOMAIN edges : edges[i].tip = old
      Same(e)  == e.tail = edges[at].tail
      Other(e) == ~Same(e)
      Renamed(e) == IF e.tip = old THEN [e EXCEPT !.tip = new] ELSE e
      moved == SelectSeq(edges, Same)
  IN  SelectSeq(edges, Other) \o [i \in DOMAIN moved |-> Renamed(moved[i])]

\* The nodes nested in a node, at any depth.
Nested(c, n) ==
  LET In[d \in 0..Cardinality(DOMAIN c.ir)] ==
        IF d = 0 THEN {n} ELSE UNION {ToSet(c.ir[m].nodes) : m \in In[d - 1]}
  IN  UNION {In[d] : d \in DOMAIN In} \ {n}

\* Faulty variant of IncreaseDepth: the nodes inside keep their depth.
KeepDepth(c, n) == c
IncreaseDepth(c, n) ==
  [c EXCEPT !.ir = [m \in DOMAIN @ |-> IF m \in Nested(c, n)
                                       THEN [@[m] EXCEPT !.depth = @ + 1] ELSE @[m]]]

(***************************************************************************)
(* Types flow along the edges: propagate_storage.                          *)
(***************************************************************************)

IsInferred(c, n) == Typed(c, c.ir[n].inputs \o c.ir[n].inits)

\* The type an operation gives its output; last and slices give it none.
CanInfer(c, n) ==
  LET node == c.ir[n]
      in(i) == TypeOf(c, node.inputs[i])
  IN  /\ Len(node.inputs) = Arity(node.op) /\ Len(node.outputs) = 1
      /\ \A i \in DOMAIN node.inputs :
           IF node.kind = "tensor" THEN in(i).depth = 0 ELSE in(i).depth > 0
      /\ node.op = "matmul" => in(1).shape[2] = in(2).shape[1]
      /\ node.op \in {"zeros", "index", "slice"} => node.attributes # <<>>

\* Faulty variant of MatmulShape: takes the inner sizes.
InnerShape(s1, s2) == <<s1[2], s2[1]>>
MatmulShape(s1, s2) == <<s1[1], s2[2]>>

Inferred(c, n) ==
  LET node == c.ir[n]
      in(i) == TypeOf(c, node.inputs[i])
  IN  CASE node.op = "zeros"   -> TensorType(node.attributes)
        [] node.op = "matmul" -> TensorType(MatmulShape(in(1).shape, in(2).shape))
        [] node.op = "index"   -> TensorType(in(1).shape)
        [] node.op = "slice"   -> Deeper(TensorType(in(1).shape), 1)
        [] node.op \in {"last", "slices"} -> NoType
        [] OTHER -> in(1)

Infer(c, n) ==
  IF c.ir[n].op \in {"last", "slices"} THEN c
  ELSE SetType(c, Last(c.ir[n].outputs), Inferred(c, n))

\* What a pattern finds at the tail of an in_edge that leaves its own scope:
\* of an enclosing aggregate, always the element of its first input.
OuterType(c, n, tail) ==
  LET outer == c.ir[tail[1]] IN
  CASE tail[1] \notin c.ir[n].parents -> NoType
    [] outer.kind = "block" /\ Contains(outer.inputs, tail[2]) -> TypeOf(c, tail[2])
    [] outer.kind = "aggregate" /\ IsBodyin(tail[2]) ->
         Deeper(TypeOf(c, outer.inputs[1]), -1)
    [] OTHER -> NoType

\* The type at the tail of an in_edge of block n.
InType(c, n, tail) ==
  LET node == c.ir[n]
      at   == {i \in DOMAIN node.inputs : Bodyin(node.inputs[i]) = tail[2]}
  IN  CASE Contains(node.inputs, tail[2]) -> TypeOf(c, tail[2])
        [] node.kind = "block" -> NoType
        [] at # {} -> Deeper(TypeOf(c, node.inputs[CHOOSE i \in at : TRUE]), -1)
        [] Contains(node.states, tail[2]) -> TypeOf(c, tail[2])
        [] OTHER -> OuterType(c, n, tail)

\* The type at the tail of an internal edge of block n: of one of its nodes,
\* or of an input or state of its own.
EdgeType(c, n, tail) ==
  IF \/ Contains(c.ir[n].nodes, tail[1])
     \/ tail[1] = n /\ Contains(c.ir[n].inputs \o c.ir[n].states, tail[2])
  THEN TypeOf(c, tail[2]) ELSE NoType

\* A type arrives at a tip; at an initializer, the state has it too.
Arrive(c, tip, t) ==
  LET node == c.ir[tip[1]]
      at   == {i \in DOMAIN node.inits : node.inits[i] = tip[2]}
  IN  IF at = {} THEN SetType(c, tip[2], t)
      ELSE SetType(SetType(c, tip[2], t), node.states[CHOOSE i \in at : TRUE], t)

\* A pattern makes a FractalTensor of what its body returns. (The faulty variant
\* does not.)
SameType(t) == t
Collected(t) == Deeper(t, 1)

\* Types leave a block.
Leave(c, n) ==
  LET Out(d, e) ==
        LET t == TypeOf(d, e.tail[2])
            p == e.tip[2]
        IN  IF c.ir[n].kind = "block" THEN SetType(d, p, t)
            ELSE SetTypes(d, <<p, SubSeq(p, 1, 2)>>, <<t, Collected(t)>>)
  IN  [c EXCEPT !.storage = FoldLeft(Out, c, c.ir[n].out_edges).storage]
=============================================================================
