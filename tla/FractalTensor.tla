---------------------------- MODULE FractalTensor ----------------------------
(***************************************************************************)
(* FractalTensors at runtime: kaleido/frontend/fractal_tensor.py and       *)
(* types.py, with join (operations/fractaltensor/access.py) and repeat     *)
(* (operations/conversion.py).                                             *)
(*                                                                         *)
(* A FractalTensor is a flat buffer and a reference to a type object that  *)
(* carries the data-dependent length and tree of indices. Type objects are *)
(* shared: the type of a nested tensor refers to the type of the first     *)
(* tensor it was made from, and setting indices writes lengths all the way *)
(* down. So the model keeps the type objects in a heap of their own.       *)
(*                                                                         *)
(* An index tree is a nested sequence, each int at the bottom a Leaf (only *)
(* its being there matters); an element of a buffer is a model value, the  *)
(* tensor stored there, whose numbers no operation here looks at.          *)
(***************************************************************************)
EXTENDS Integers, FiniteSets, Sequences, SequencesExt

CONSTANTS
  Elements,   (* the tensors a program stores                              *)
  Vectors,    (* those with more than one number                           *)
  Mixed,      (* a tensor made of the numbers of a vector in another order *)
  Clients     (* programs, as in the variable client                       *)

ASSUME ElementsAssumption == Vectors \subseteq Elements /\ Mixed \in Vectors

ASSUME ClientsAssumption ==
  \A c \in Clients :
    /\ c.keeps \in Nat /\ c.depth \in Nat
    /\ c.calls \subseteq STRING
    /\ \A new \in c.inputs : new.indices # <<>> /\ new.data \in Seq(Elements)

VARIABLES
  client,     (* the program: inputs, the FractalTensors it makes from     *)
              (* nothing; keeps, a bound on those it holds; depth, the     *)
              (* deepest of them; calls, the operations it uses            *)
  types,      (* FractalTensorStorage objects, by number                   *)
  tensors,    (* FractalTensor objects, by number                          *)
  call        (* history: the last call                                    *)

vars == <<client, types, tensors, call>>

Lists == INSTANCE NestedLists WITH lists <- <<>>

(***************************************************************************)
(* Trees of indices.                                                       *)
(***************************************************************************)

Leaf == <<>>

\* FractalTensor._numel, and its sum over the first i children.
RECURSIVE Numel(_), Before(_, _)
Before(tree, i) == IF i <= 0 THEN 0 ELSE Before(tree, i - 1) + Numel(tree[i])
Numel(tree) == IF tree = Leaf THEN 1 ELSE Before(tree, Len(tree))

\* How deep the indices setter finds the tree, following first children.
RECURSIVE Depth(_)
Depth(tree) == IF tree = Leaf THEN 0 ELSE Depth(tree[1]) + 1

\* A Python list by index: -1 is the last.
Child(tree, i) == tree[IF i < 0 THEN Len(tree) + i + 1 ELSE i + 1]

\* The position of child i in the buffer, which index() sums up from child 0.
\* Faulty variant: counts children instead of what they hold.
StartByChildren(tree, i) == i
Start(tree, i) == Before(tree, i)

\* The number of elements of child i.
Extent(tree, i) == Numel(Child(tree, i))

\* Faulty variant of Slice: takes the end as included.
SliceInclusive(data, start, end) ==
  SubSeq(data, start + 1, IF end < Len(data) THEN end + 1 ELSE Len(data))

\* data[start:end], a view that ends where the buffer ends.
Slice(data, start, end) ==
  SubSeq(data, start + 1, IF end <= Len(data) THEN end ELSE Len(data))

(***************************************************************************)
(* Type objects. Type 0 is the TensorStorage of the elements.              *)
(***************************************************************************)

\* FractalTensorStorage(dtype).
NewType(ts, dtype) ==
  Append(ts, [depth   |-> IF dtype = 0 THEN 1 ELSE ts[dtype].depth + 1,
              dtype   |-> dtype,
              length  |-> -1,
              indices |-> <<>>])

\* The walk of the indices setter: _length of t and, along first children, of
\* the types below it. (The faulty variants forget it, and follow the last
\* children instead.)
RECURSIVE LastWalk(_, _, _), SetLengths(_, _, _)
NoWalk(ts, t, tree) == ts
LastWalk(ts, t, tree) ==
  IF tree = Leaf THEN ts
  ELSE LastWalk([ts EXCEPT ![t].length = Len(tree)], ts[t].dtype, tree[Len(tree)])
SetLengths(ts, t, tree) ==
  IF tree = Leaf THEN ts
  ELSE SetLengths([ts EXCEPT ![t].length = Len(tree)], ts[t].dtype, tree[1])

\* x.indices = tree, for an x of type t.
WithIndices(ts, t, tree) == [SetLengths(ts, t, tree) EXCEPT ![t].indices = tree]

\* What FractalTensor(dtype) and its setter leave: dtype's new type has the tree.
TypeFor(ts, dtype, tree) == WithIndices(NewType(ts, dtype), Len(ts) + 1, tree)

\* d types declared one around the other.
RECURSIVE Declared(_, _)
Declared(ts, d) ==
  IF d = 1 THEN NewType(ts, 0)
  ELSE LET inner == Declared(ts, d - 1) IN NewType(inner, Len(inner))

(***************************************************************************)
(* The objects while an operation runs: a heap h has the program's and,    *)
(* behind them, those the operation has made so far. An object is referred *)
(* to by its number. A tensor of type 0 is a Tensor, the others are        *)
(* FractalTensors.                                                         *)
(***************************************************************************)

Now == [types |-> types, tensors |-> tensors]

TreeOf(h, x)   == LET t == h.tensors[x].type IN IF t = 0 THEN Leaf ELSE h.types[t].indices
DepthOf(h, x)  == LET t == h.tensors[x].type IN IF t = 0 THEN 0 ELSE h.types[t].depth
LengthOf(h, x) == h.types[h.tensors[x].type].length
DataOf(h, x)   == h.tensors[x].data

\* The object made last, and the n made last.
Top(h)      == Len(h.tensors)
Tops(h, n)  == [k \in 1..n |-> Len(h.tensors) - n + k]

\* A FractalTensor of the type made last.
New(h, ts, data) ==
  [types |-> ts, tensors |-> Append(h.tensors, [type |-> Len(ts), data |-> data])]

\* A FractalTensor of d new types, one around the other, with a tree and data.
Built(h, d, tree, data) ==
  LET ts == Declared(h.types, d) IN New(h, WithIndices(ts, Len(ts), tree), data)

\* from_fractaltensors(*xs), or from_tensors(*xs) for Tensors: the new type is
\* around the type of the first.
Pack(h, xs) ==
  New(h, TypeFor(h.types, h.tensors[xs[1]].type, [k \in DOMAIN xs |-> TreeOf(h, xs[k])]),
      FlattenSeq([k \in DOMAIN xs |-> DataOf(h, xs[k])]))

\* Its homogeneity checks.
Packable(h, xs) ==
  /\ xs # <<>>
  /\ \A k \in DOMAIN xs : DepthOf(h, xs[k]) = DepthOf(h, xs[1])

\* A Python list has an element i; index() raises for others.
Has(h, x, i) == i \in -Len(TreeOf(h, x))..Len(TreeOf(h, x)) - 1

\* index(i): its data, and its type when x is nested, a new one around the
\* type two levels down, so that the type of the elements is not shared.
At(h, x, i) ==
  LET tree  == TreeOf(h, x)
      dtype == h.types[h.tensors[x].type].dtype
      start == Start(tree, i)
      data  == Slice(DataOf(h, x), start, start + Extent(tree, i))
  IN  IF dtype = 0
      THEN [h EXCEPT !.tensors = Append(@, [type |-> 0, data |-> data])]
      ELSE New(h, TypeFor(h.types, h.types[dtype].dtype, Child(tree, i)), data)

\* [x.index(i) for i in ids], and x[ids], which packs them.
AtAll(h, x, ids) == FoldLeft(LAMBDA g, i : At(g, x, i), h, ids)
Selected(h, x, ids) == LET g == AtAll(h, x, ids) IN Pack(g, Tops(g, Len(ids)))

\* range(start, stop, step), for a positive step.
RangeOf(start, stop, step) ==
  [k \in 1..(IF stop <= start THEN 0 ELSE (stop - start - 1) \div step + 1) |->
     start + (k - 1) * step]

\* The indices of a list, for v in x.
Positions(h, x) == RangeOf(0, Len(TreeOf(h, x)), 1)

\* join(x, y): at depth 1 the indices come from the lengths, at depth 2 from
\* the indices.
Joined(h, x, y) ==
  Built(h, DepthOf(h, x),
        IF DepthOf(h, x) = 1
        THEN [k \in 1..LengthOf(h, x) + LengthOf(h, y) |-> Leaf]
        ELSE TreeOf(h, x) \o TreeOf(h, y),
        DataOf(h, x) \o DataOf(h, y))

\* Deeper, the declared type is too shallow and the setter raises.
Joinable(h, x, y) == DepthOf(h, x) = DepthOf(h, y) /\ DepthOf(h, x) \in 1..2

\* repeat_interleave(n) of the numbers of a Tensor, cut into n Tensors.
Interleaved(e, n) == [k \in 1..n |-> IF e \in Vectors /\ n > 1 THEN Mixed ELSE e]

\* repeat(x, n) of a Tensor or a FractalTensor.
Repeated(h, x, n) ==
  IF DepthOf(h, x) = 0
  THEN Built(h, 1, [k \in 1..n |-> Leaf], Interleaved(DataOf(h, x)[1], n))
  ELSE Built(h, 2, [k \in 1..n |-> TreeOf(h, x)], FlattenSeq([k \in 1..n |-> DataOf(h, x)]))

\* The declared type has depth 2, so the setter raises for a nested x.
Repeatable(h, x, n) == DepthOf(h, x) <= 1 /\ n > 0

\* The nodes k levels below a node, from left to right, as the breadth-first
\* walks of width_by_depth and from_pylist visit them.
RECURSIVE Level(_, _)
Level(node, k) == IF k = 0 THEN <<node>> ELSE FlattenSeq(Level(node, k - 1))

\* The tree from_pylist generates for a list of depth d, from the lengths of
\* the lists of each level; from depth 4 on it mixes levels and the setter
\* raises.
Generated(list, d) ==
  LET lens  == [k \in 0..d - 1 |-> [n \in DOMAIN Level(list, k) |-> Len(Level(list, k)[n])]]
      flat  == [n \in DOMAIN lens[d - 1] |-> [i \in 1..lens[d - 1][n] |-> Leaf]]
      start == [n \in DOMAIN lens[1] |-> FoldLeft(LAMBDA a, b : a + b, 0, SubSeq(lens[1], 1, n - 1))]
  IN  CASE d = 1 -> flat[1]
        [] d = 2 -> flat
        [] d = 3 -> [n \in DOMAIN lens[1] |-> SubSeq(flat, start[n] + 1, start[n] + lens[1][n])]

\* What is left of a heap when an operation has returned the objects refs:
\* the program's, these, and the types they refer to, numbered anew.
RECURSIVE TypesBelow(_, _)
TypesBelow(ts, t) == IF t = 0 THEN {} ELSE {t} \cup TypesBelow(ts, ts[t].dtype)

Collected(h, refs) ==
  LET objects == SubSeq(h.tensors, 1, Len(tensors)) \o [k \in DOMAIN refs |-> h.tensors[refs[k]]]
      live    == UNION {TypesBelow(h.types, objects[k].type) : k \in DOMAIN objects}
      number  == [t \in {0} \cup live |-> Cardinality({u \in live : u <= t})]
      order   == SelectSeq([t \in DOMAIN h.types |-> t], LAMBDA t : t \in live)
  IN  [types   |-> [k \in DOMAIN order |->
                      [h.types[order[k]] EXCEPT !.dtype = number[@]]],
       tensors |-> [k \in DOMAIN objects |-> [objects[k] EXCEPT !.type = number[@]]]]

\* A buffer seen through a tree: the nested list a program reads from it.
RECURSIVE Contents(_, _)
Contents(tree, data) ==
  IF tree = Leaf THEN data[1]
  ELSE [k \in DOMAIN tree |->
          Contents(tree[k], SubSeq(data, Before(tree, k - 1) + 1, Before(tree, k)))]

(***************************************************************************)
(* Operations. A Python exception leaves the program's objects as they     *)
(* are, except for lengths that reading elements before it has written,    *)
(* which a Fetch of those elements writes too.                             *)
(***************************************************************************)

Uses(op) == op \in client.calls

Called(op, on, ids, got) == call' = [op |-> op, on |-> on, ids |-> ids, got |-> got]

\* An operation ends with heap h and the program keeps refs.
Return(h, refs) ==
  /\ Len(tensors) + Len(refs) <= client.keeps                   \* bound
  /\ \A k \in DOMAIN refs : DepthOf(h, refs[k]) <= client.depth \* bound
  /\ LET kept == Collected(h, refs) IN
       types' = kept.types /\ tensors' = kept.tensors
  /\ UNCHANGED client

\* It ends with the object made last.
Keep(h) == Return(h, <<Top(h)>>)

\* An operation ends with an element x, which is kept if it is nested, or
\* garbage after use: lengths written below it stay.
Give(h, x) ==
  \/ Return(h, <<>>)
  \/ DepthOf(h, x) > 0 /\ Return(h, <<x>>)

ContentsOf(h, x) == Contents(TreeOf(h, x), DataOf(h, x))

\* FractalTensor(dtype) of a declared type, x.indices = tree, x.data = data.
Create(tree, data) ==
  /\ Keep(Built(Now, Depth(tree), tree, data))
  /\ Called("make", <<>>, <<>>, <<>>)

\* from_pylist(list) of a list with the structure of tree.
FromPylist(tree, data) ==
  LET list == Contents(tree, data)
      d    == Depth(tree)
  IN  /\ d <= 3
      /\ Keep(Built(Now, d, Generated(list, d), Level(list, d)))
      /\ Called("from_pylist", <<>>, <<>>, list)

\* from_fractaltensors(*args).
Nest(args) ==
  /\ Packable(Now, args)
  /\ Keep(Pack(Now, args))
  /\ Called("nest", args, <<>>, <<>>)

\* index(i) under the name op.
Fetch(op, x, i) ==
  /\ Has(Now, x, i)  \* otherwise IndexError
  /\ LET h == At(Now, x, i) IN
       /\ Give(h, Top(h))
       /\ Called(op, <<x>>, <<i>>, ContentsOf(h, Top(h)))

\* x.last(), and the operator last, x[-1].
LastIndex(op, x) == IF op = "last" THEN LengthOf(Now, x) - 1 ELSE -1

\* x[ids] for a slice or a list.
Select(x, ids) ==
  /\ \A k \in DOMAIN ids : Has(Now, x, ids[k])
  /\ Keep(Selected(Now, x, ids))
  /\ Called("select", <<x>>, ids, <<>>)

Join(x, y) ==
  /\ Joinable(Now, x, y)
  /\ Keep(Joined(Now, x, y))
  /\ Called("join", <<x, y>>, <<>>, <<>>)

Repeat(x, n) ==
  /\ Repeatable(Now, x, n)
  /\ Keep(Repeated(Now, x, n))
  /\ Called("repeat", <<x>>, <<n>>, <<>>)

\* split(x, num): slices of len(x) // num elements, the rest in the last; an
\* empty slice raises.
Split(x, num) ==
  LET l == LengthOf(Now, x) \div num
      part(h, i) == Selected(h, x, RangeOf(i * l, IF i = num - 1 THEN Len(TreeOf(Now, x))
                                                  ELSE (i + 1) * l, 1))
      parts == [i \in 1..num |-> i - 1]
      heaps == FoldLeft(LAMBDA hs, i : Append(hs, part(hs[Len(hs)], i)), <<Now>>, parts)
  IN  /\ l > 0
      /\ Return(heaps[num + 1], [i \in 1..num |-> Top(heaps[i + 1])])
      /\ Called("split", <<x>>, <<num>>, <<>>)

\* width_by_depth(d), a query: how many children each node has, for a d from
\* -1, the list itself, to -depth, the innermost lists.
WidthByDepth(x, d) ==
  LET depth == DepthOf(Now, x) + d + 1
      nodes == Level(TreeOf(Now, x), DepthOf(Now, x) - depth)
  IN  /\ Called("width_by_depth", <<x>>, <<d>>, [k \in DOMAIN nodes |-> Len(nodes[k])])
      /\ UNCHANGED <<client, types, tensors>>

-----------------------------------------------------------------------------

\* One or two operands, or indices.
Pairs(S) == {<<a>> : a \in S} \cup (S \X S)

Init ==
  /\ client \in Clients
  /\ types = <<>>
  /\ tensors = <<>>
  /\ call = Lists!NoCall

Next ==
  \/ \E new \in client.inputs :
       \/ Uses("make") /\ Create(new.indices, new.data)
       \/ Uses("from_pylist") /\ FromPylist(new.indices, new.data)
  \/ \E args \in Pairs(DOMAIN tensors) : Uses("nest") /\ Nest(args)
  \/ \E x \in DOMAIN tensors :
       \/ \E i \in 0..Len(TreeOf(Now, x)) - 1 : Uses("index") /\ Fetch("index", x, i)
       \/ Uses("last") /\ Fetch("last", x, LastIndex("last", x))
       \/ \E ids \in Pairs(0..Len(TreeOf(Now, x)) - 1) : Uses("select") /\ Select(x, ids)
       \/ \E y \in DOMAIN tensors : Uses("join") /\ Join(x, y)
       \/ Uses("repeat") /\ Repeat(x, 2)
       \/ Uses("split") /\ Split(x, 2)
       \/ \E d \in -DepthOf(Now, x)..-1 : Uses("width_by_depth") /\ WidthByDepth(x, d)

Spec == Init /\ [][Next]_vars

-----------------------------------------------------------------------------
(***************************************************************************)
(* Properties.                                                             *)
(***************************************************************************)

\* A type object is one deeper than the type it refers to, which is older, so
\* that there is no cycle; the types of tensors have indices of their depth
\* and a length.
TypeOK ==
  /\ client \in Clients
  /\ \A t \in DOMAIN types :
       /\ types[t].dtype \in 0..t - 1
       /\ types[t].depth = IF types[t].dtype = 0 THEN 1
                           ELSE types[types[t].dtype].depth + 1
  /\ \A x \in DOMAIN tensors :
       /\ tensors[x].type \in DOMAIN types
       /\ tensors[x].data \in Seq(Elements)
       /\ Depth(TreeOf(Now, x)) = DepthOf(Now, x)
       /\ LengthOf(Now, x) \in Nat \ {0}

\* The tree of indices accounts for exactly the elements in the buffer.
CountsAgree ==
  \A x \in DOMAIN tensors : Numel(TreeOf(Now, x)) = Len(tensors[x].data)

\* Whether t is the element type of an element type of another type.
NestedTwice(t) ==
  \E u \in DOMAIN types : types[u].dtype # 0 /\ types[types[u].dtype].dtype = t

\* types.py:303-311: length and indices change together. Sharing breaks this
\* only for a tensor whose type is two levels inside another one: reading an
\* element of a depth 3 tensor writes the length of that type.
LengthUnlessNested ==
  \A x \in DOMAIN tensors :
    ~NestedTwice(tensors[x].type) => LengthOf(Now, x) = Len(TreeOf(Now, x))

\* test_join.py:44: xs.numel + ys.numel = zs.numel for zs = join(xs, ys).
JoinKeepsNumel ==
  [][call'.op = "join" /\ tensors' # tensors =>
       Numel(TreeOf(Now, Top(Now))') =
         Numel(TreeOf(Now, call'.on[1])) + Numel(TreeOf(Now, call'.on[2]))]_vars

\* The FractalTensors a program holds are immutable nested lists.
Nested == INSTANCE NestedLists WITH
  lists <- [x \in DOMAIN tensors |-> ContentsOf(Now, x)]

ImplementsNestedLists == Nested!Spec
=============================================================================
