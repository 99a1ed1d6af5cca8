------------------------------ MODULE Operators -------------------------------
(***************************************************************************)
(* The access operators (operations/fractaltensor/access.py) and the       *)
(* functional operators (functional/*.py) on the FractalTensors of         *)
(* FractalTensor. Each operator is a chain of heaps: what it indexes,      *)
(* joins, repeats and packs, in the order of the code.                     *)
(*                                                                         *)
(* A Python list, tuple or Iterative of objects is a sequence of their     *)
(* numbers; several results are kept as several FractalTensors. User       *)
(* functions are the few in Apply and MapRows. An assertion that fails or  *)
(* an exception leaves the program as it is, so the call has no step.      *)
(***************************************************************************)
EXTENDS FractalTensor

\* The steps of an operator: the heap h after them and the objects refs they
\* made that it uses. A step more makes heap g, with the object on its top.
Begin(h)   == [heap |-> h, refs |-> <<>>]
Then(s, g) == [heap |-> g, refs |-> Append(s.refs, Top(g))]
PackAll(s) == Pack(s.heap, s.refs)

\* A Tensor that holds e.
WithTensor(h, e) == [h EXCEPT !.tensors = Append(@, [type |-> 0, data |-> <<e>>])]

\* [Tensor(e)] * n, packed by from_tensors.
Padding(h, e, n) ==
  LET g == FoldLeft(LAMBDA f, k : WithTensor(f, e), h, [k \in 1..n |-> k]) IN Pack(g, Tops(g, n))

\* The positions of an iteration that goes by len(x).
UpToLength(h, x) == RangeOf(0, LengthOf(h, x), 1)

\* zip(x, y): one element of each after the other; those of x are every
\* other one of the objects made last, and pairs the rows.
Zipped(h, x, y) ==
  FoldLeft(LAMBDA g, i : At(At(g, x, i), y, i), h, UpToLength(h, x))
Zippable(h, x, y) ==
  /\ LengthOf(h, x) = LengthOf(h, y)
  /\ \A i \in Range(UpToLength(h, x)) : Has(h, x, i) /\ Has(h, y, i)
Rows(h, n) == [k \in 1..n |-> <<Top(h) - 2 * (n - k) - 1, Top(h) - 2 * (n - k)>>]

\* _pack_outputs of results that are tuples of the same length: one tensor
\* for each component, made in order.
Packed(h, rows) ==
  FoldLeft(LAMBDA g, j : Pack(g, [i \in DOMAIN rows |-> rows[i][j]]), h,
           [j \in DOMAIN rows[1] |-> j])
PackableRows(h, rows) ==
  \A j \in DOMAIN rows[1] : Packable(h, [i \in DOMAIN rows |-> rows[i][j]])

-----------------------------------------------------------------------------
(* Functional operators.                                                   *)

\* A user function of two arguments, the second on top of h: the heap after it
\* and its result.
Result(h) == [heap |-> h, got |-> Top(h)]
Apply(f, h, s) ==
  CASE f = "left"  -> [heap |-> h, got |-> s]
    [] f = "right" -> Result(h)
    [] f = "join"  -> Result(Joined(h, s, Top(h)))

\* scan(f, x, v), up to the packing: v is the initial state, or 0 for None.
Scanned(h, f, x, v) ==
  LET next(s, r) == [heap |-> r.heap, state |-> r.got, refs |-> Append(s.refs, r.got)]
      step(s, i) == next(s, Apply(f, At(s.heap, x, i), s.state))
      start      == IF v = 0 THEN next(Begin(h), Result(At(h, x, 0)))
                    ELSE [heap |-> h, state |-> v, refs |-> <<>>]
  IN  FoldLeft(step, start, RangeOf(IF v = 0 THEN 1 ELSE 0, LengthOf(h, x), 1))

\* The calls of f, the indexing and the packing of the results succeed.
CanScan(h, f, x, v) ==
  /\ \A i \in Range(UpToLength(h, x)) : Has(h, x, i)
  /\ f = "join" /\ (v # 0 \/ LengthOf(h, x) > 1) =>
       /\ DepthOf(h, x) \in 2..3
       /\ v # 0 => DepthOf(h, v) = DepthOf(h, x) - 1

\* An initial state is one of the program's tensors or a Tensor; heap h has it
\* and v refers to it. args is what the caller passes.
ScanWith(op, h, f, x, v, args) ==
  LET keep(g) == /\ Keep(g)
                 /\ Called(op, <<x>>, args, <<>>)
      give(g) == /\ Give(g, Top(g))
                 /\ Called(op, <<x>>, args, ContentsOf(g, Top(g)))
      last(g) == At(g, Top(g), LengthOf(g, Top(g)) - 1)  \* outs.last()
      outs    == PackAll(Scanned(h, f, x, v))
  IN  /\ CanScan(h, f, x, v)
      /\ IF op = "scan" THEN keep(outs) ELSE give(last(outs))

\* Initial states enumerated are of the type of the elements of x.
Scan(op, f, x) ==
  \/ ScanWith(op, Now, f, x, 0, <<f>>)
  \/ /\ DepthOf(Now, x) = 1
     /\ \E e \in Range(DataOf(Now, x)) :
          LET h == WithTensor(Now, e) IN ScanWith(op, h, f, x, Top(h), <<f, e>>)
  \/ \E v \in DOMAIN tensors :
       /\ DepthOf(Now, v) = DepthOf(Now, x) - 1
       /\ ScanWith(op, Now, f, x, v, <<f, ContentsOf(Now, v)>>)

\* map(f, x): f applied to each element, a row of results for each; f may
\* return its argument, twice its argument, or the first element of it.
MapRows(h, x, f) ==
  LET n == Len(TreeOf(h, x))
      g == AtAll(h, x, Positions(h, x))
      elements == Tops(g, n)
      firsts   == FoldLeft(LAMBDA k, e : At(k, e, 0), g, elements)
  IN  CASE f = "same"  -> [heap |-> g, rows |-> [i \in 1..n |-> <<elements[i]>>]]
        [] f = "twice" -> [heap |-> g, rows |-> [i \in 1..n |-> <<elements[i], elements[i]>>]]
        [] f = "first" -> [heap |-> firsts, rows |-> [i \in 1..n |-> <<Tops(firsts, n)[i]>>]]

PackedRows(m) == Packed(m.heap, m.rows)

MapReturns(x, y, f, m) ==
  LET keep(g) == Return(g, Tops(g, Len(m.rows[1])))
  IN  /\ PackableRows(m.heap, m.rows)
      /\ keep(PackedRows(m))
      /\ Called("map", IF y = 0 THEN <<x>> ELSE <<x, y>>, <<f>>, <<>>)

Map(x, f) ==
  /\ f = "first" => DepthOf(Now, x) > 1
  /\ MapReturns(x, 0, f, MapRows(Now, x, f))

\* map(lambda a, b: (b, a), zip(x, y)).
MapOfZip(x, y) ==
  /\ Zippable(Now, x, y)
  /\ LET g == Zipped(Now, x, y) IN
       MapReturns(x, y, "swap", [heap |-> g,
         rows |-> [i \in 1..LengthOf(Now, x) |-> Reverse(Rows(g, LengthOf(Now, x))[i])]])

\* map(lambda xs: zip(*map(lambda x: (x, x), xs)), x), as in TestMap.test5:
\* _pack_outputs packs the columns of each Iterative, then what it packed.
MapToZip(x) ==
  LET n == Len(TreeOf(Now, x))
      add(rows, z, l) == [heap |-> z, rows |-> Append(rows, Rows(z, l))]
      zip(rows, g)    == add(rows, Zipped(g, Top(g) - 1, Top(g)), LengthOf(g, Top(g)))
      inner(s, xs) == zip(s.rows, PackedRows(MapRows(s.heap, xs, "twice")))
      zips(g)      == FoldLeft(inner, [heap |-> g, rows |-> <<>>], Tops(g, n))
      pack(g)      == Pack(g, Tops(g, n))
      column(s, all, j) ==
        Then(s, pack(FoldLeft(LAMBDA g, rows : Pack(g, [i \in DOMAIN rows |-> rows[i][j]]),
                              s.heap, all)))
      columns(s)   == FoldLeft(LAMBDA c, j : column(c, s.rows, j), Begin(s.heap), <<1, 2>>)
      keep(s)      == Return(s.heap, s.refs)
  IN  /\ DepthOf(Now, x) > 1
      /\ keep(columns(zips(AtAll(Now, x, Positions(Now, x)))))
      /\ Called("map", <<x>>, <<"zip">>, <<>>)

\* filter(lambda i, e: i in kept, enumerate(x)). The packed numbers i are
\* not kept by the program.
Filter(x, kept) ==
  LET g == AtAll(Now, x, UpToLength(Now, x))
      results == SelectSeq(UpToLength(Now, x), LAMBDA i : i \in kept)
      h == Pack(g, [k \in DOMAIN results |-> Tops(g, LengthOf(Now, x))[results[k] + 1]])
  IN  /\ kept # {}  \* otherwise None
      /\ \A i \in Range(UpToLength(Now, x)) : Has(Now, x, i)
      /\ Keep(h)
      /\ Called("filter", <<x>>, <<kept>>, <<>>)

\* DilatedMap._dilate: every d-th element, from each of the first d.
Dilated(h, x, d) ==
  LET ids(i)  == RangeOf(i, LengthOf(h, x), d)
      pack(g, n) == Pack(g, Tops(g, n))
      part(s, i) == Then(s, pack(AtAll(s.heap, x, ids(i)), Len(ids(i))))
  IN  IF LengthOf(h, x) <= d \/ d = 1
      THEN Pack(h, <<x>>)
      ELSE PackAll(FoldLeft(part, Begin(h), RangeOf(0, d, 1)))

\* DilatedMap._revert_dilate of the list x on top of h: the first elements of
\* all its lists, then the second ones, and so on, skipping lists that are one
\* shorter.
Reverted(h, d) ==
  LET x     == Top(h)
      tree  == TreeOf(h, x)
      pairs == SelectSeq([n \in 1..Len(tree[1]) * d |-> <<(n - 1) \div d, (n - 1) % d>>],
                         LAMBDA p : p[1] < Len(tree[p[2] + 1]))
      at(g, i)   == At(g, Top(g), i)
      pick(s, p) == Then(s, at(At(s.heap, x, p[2]), p[1]))
  IN  IF d = 1 THEN At(h, x, 0) ELSE PackAll(FoldLeft(pick, Begin(h), pairs))

\* map of a function that returns its list, or scan(left, list), in a tuple of
\* one, over the list x on top of h.
Mapped(h, f) ==
  LET scanned(s, l) == Then(s, PackAll(Scanned(s.heap, "left", l, 0)))
      called(s, l)  == IF f = "left" THEN scanned(s, l)
                       ELSE [s EXCEPT !.refs = Append(@, l)]
      each(g)       == FoldLeft(called, Begin(g), Tops(g, Len(TreeOf(h, Top(h)))))
  IN  PackAll(each(AtAll(h, Top(h), Positions(h, Top(h)))))

\* dilated_map(f, x, d): between dilating and reverting the lists are mapped.
DilatedMap(x, f, d) ==
  /\ d > 1 =>
       /\ DepthOf(Now, x) = 1      \* _dilate packs by from_tensors
       /\ LengthOf(Now, x) > d     \* an assertion of _revert_dilate
  /\ Keep(Reverted(Mapped(Dilated(Now, x, d), f), d))
  /\ Called("dilated_map", <<x>>, <<f, d>>, <<>>)

-----------------------------------------------------------------------------
(* Access operators.                                                       *)

\* product(x, y).
Product(x, y) ==
  LET repeat(g)  == Repeated(g, Top(g), LengthOf(Now, x))
      row(s, i)  == Then(s, repeat(At(s.heap, y, i)))
      rows(g)    == FoldLeft(row, Begin(g), UpToLength(Now, y))
      xss        == Repeated(Now, x, LengthOf(Now, y))
      keep(yss)  == Return(yss, <<Top(xss), Top(yss)>>)
  IN  /\ Repeatable(Now, x, LengthOf(Now, y))
      /\ DepthOf(Now, y) <= 2  \* the elements of y are Repeatable
      /\ \A i \in Range(UpToLength(Now, y)) : Has(Now, y, i)
      /\ keep(PackAll(rows(xss)))
      /\ Called("product", <<x, y>>, <<>>, <<>>)

\* How far a window reaches from its first element.
Span(size, dilation) == (size - 1) * (dilation - 1) + size

\* x[ids] for each window of indices of p, packed.
Slides(h, p, windows) ==
  PackAll(FoldLeft(LAMBDA s, w : Then(s, Selected(s.heap, p, w)), Begin(h), windows))

\* slide(x, size, stride, dilation, padding, e): the windows in the list padded
\* to this length, and a last one that begins behind the start of the last.
Slide(x, size, stride, dilation, padding, e) ==
  LET span     == Span(size, dilation)
      length   == LengthOf(Now, x) + 2 * padding
      starts   == RangeOf(0, length - span + 1, stride)
      ids      == [w \in DOMAIN starts |-> RangeOf(starts[w], starts[w] + span, dilation)]
      rest     == RangeOf(starts[Len(starts)] + 1, length, dilation)
      slide(g) == Slides(g, Top(g), Append(ids, rest))
      back(g, pads)  == Joined(g, Top(g), pads)
      padded(g)      == back(Joined(g, Top(g), x), Top(g))
  IN  /\ size % 2 = 1
      /\ padding > 0                 \* from_tensors() of nothing raises
      /\ DepthOf(Now, x) = 1         \* e is a Tensor, and join wants equal types
      /\ starts # <<>>               \* window_pos[-1] raises
      /\ rest # <<>>                 \* from_tensors() again
      /\ Keep(slide(padded(Padding(Now, e, padding))))
      /\ Called("slide", <<x>>, <<size, stride, dilation, padding, e>>, <<>>)

\* x[ids] unpacked and packed once more, as window and shifted_window do.
Repacked(h, x, ids) ==
  LET g == Selected(h, x, ids)
      k == AtAll(g, Top(g), Positions(g, Top(g)))
  IN  Pack(k, Tops(k, Len(ids)))

\* window(index, x, size, dilation, e).
Window(index, x, size, dilation, e) ==
  LET span   == Span(size, dilation)
      half   == span \div 2
      left   == IF index - half > 0 THEN 0 ELSE half - index
      right  == IF index + half < LengthOf(Now, x) THEN 0
                ELSE index + half - LengthOf(Now, x)
      front  == IF left = 0 THEN Now
                ELSE LET g == Padding(Now, e, left) IN Joined(g, Top(g), x)
      \* The second join starts from x again.
      padded == IF right = 0 THEN front
                ELSE LET g == Padding(front, e, right) IN Joined(g, x, Top(g))
      p      == IF left = 0 /\ right = 0 THEN x ELSE Top(padded)
      start  == IF index - half > 0 THEN 0 ELSE index - half
      ids    == RangeOf(start, start + span, dilation)
      rv     == Repacked(padded, p, ids)
  IN  /\ index < LengthOf(Now, x)
      /\ DepthOf(Now, x) = 1         \* element_type is that of the innermost elements
      /\ \A i \in Range(ids) : Has(padded, p, i)
      /\ Keep(rv)
      /\ Called("window", <<x>>, <<index, size, dilation, e>>, <<>>)

\* shifted_window(index, x, size, dilation).
ShiftedWindow(index, x, size, dilation) ==
  LET half == Span(size, dilation) \div 2
      L    == LengthOf(Now, x)
      at   == RangeOf(index - half, index + half + 1, dilation)
      ids  == [k \in DOMAIN at |-> (at[k] + L) % L]
      rv   == Repacked(Now, x, ids)
  IN  /\ index < L
      /\ DepthOf(Now, x) = 1         \* as for window
      /\ \A i \in Range(ids) : Has(Now, x, i)
      /\ Keep(rv)
      /\ Called("shifted_window", <<x>>, <<index, size, dilation>>, <<>>)

\* ShiftedSlide: where position i of a window is read.
Wrapped(i, L) == IF i < 0 THEN i + L - 1 ELSE IF i >= L THEN i - L ELSE i

\* _shift_slide_impl(x, size, dilation), and the positions it reads.
ShiftIds(pos, L, size, dilation) ==
  LET half == Span(size, dilation) \div 2
      at   == RangeOf(pos - half, pos + half + 1, dilation)
  IN  [k \in DOMAIN at |-> Wrapped(at[k], L)]
CanShift(h, x, size, dilation) ==
  \A pos \in Range(UpToLength(h, x)) :
    \A i \in Range(ShiftIds(pos, LengthOf(h, x), size, dilation)) : Has(h, x, i)
Shifted(h, x, size, dilation) ==
  Slides(h, x, [k \in 1..LengthOf(h, x) |-> ShiftIds(k - 1, LengthOf(h, x), size, dilation)])

\* shifted_slide, for the FractalTensors xs of heap h.
ShiftAll(h, xs, size, dilation, on) ==
  LET shift(s, x) == Then(s, Shifted(s.heap, x, size, dilation))
      keep(s)     == Return(s.heap, s.refs)
  IN  /\ \A k \in DOMAIN xs : CanShift(h, xs[k], size, dilation)
      /\ keep(FoldLeft(shift, Begin(h), xs))
      /\ Called("shifted_slide", on, <<size, dilation>>, <<>>)

\* _preprocess: a FractalTensor is iterated over, so its elements are the
\* inputs; the columns of zip(x, y) are packed first.
ShiftedSlide(x, size, dilation) ==
  LET g == AtAll(Now, x, Positions(Now, x))
  IN  /\ size % 2 = 1
      /\ DepthOf(Now, x) > 1
      /\ ShiftAll(g, Tops(g, Len(TreeOf(Now, x))), size, dilation, <<x>>)

ShiftedSlideOfZip(x, y, size, dilation) ==
  LET z == Zipped(Now, x, y)
      g == Packed(z, Rows(z, LengthOf(Now, x)))
  IN  /\ size % 2 = 1
      /\ Zippable(Now, x, y)
      /\ ShiftAll(g, Tops(g, 2), size, dilation, <<x, y>>)

-----------------------------------------------------------------------------

\* The arguments enumerated; window sizes, strides and dilations from 1 to 3.
Functional ==
  \E x \in DOMAIN tensors :
    \/ \E op \in {"scan", "fold"}, f \in {"left", "right", "join"} :
         Uses(op) /\ Scan(op, f, x)
    \/ /\ Uses("map")
       /\ \/ \E f \in {"same", "twice", "first"} : Map(x, f)
          \/ \E y \in DOMAIN tensors : MapOfZip(x, y)
          \/ MapToZip(x)
    \/ Uses("filter") /\ \E kept \in SUBSET (0..LengthOf(Now, x) - 1) : Filter(x, kept)
    \/ Uses("dilated_map") /\ \E f \in {"same", "left"}, d \in 1..3 : DilatedMap(x, f, d)

Windows ==
  \E x \in DOMAIN tensors, size \in {1, 3}, dilation \in 1..2 :
    \/ /\ Uses("slide")
       /\ \E e \in Range(DataOf(Now, x)), stride, padding \in 1..2 :
            Slide(x, size, stride, dilation, padding, e)
    \/ /\ Uses("window")
       /\ \E e \in Range(DataOf(Now, x)), index \in 0..LengthOf(Now, x) - 1 :
            Window(index, x, size, dilation, e)
    \/ /\ Uses("shifted_window")
       /\ \E index \in 0..LengthOf(Now, x) - 1 : ShiftedWindow(index, x, size, dilation)
    \/ /\ Uses("shifted_slide")
       /\ \/ ShiftedSlide(x, size, dilation)
          \/ \E y \in DOMAIN tensors : ShiftedSlideOfZip(x, y, size, dilation)

OperatorsNext ==
  \/ Next
  \/ Functional
  \/ Uses("product") /\ \E x, y \in DOMAIN tensors : Product(x, y)
  \/ Windows

OperatorsSpec == Init /\ [][OperatorsNext]_vars
=============================================================================
