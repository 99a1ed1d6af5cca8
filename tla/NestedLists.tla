----------------------------- MODULE NestedLists -----------------------------
(***************************************************************************)
(* What a FractalTensor is to the program that uses it                     *)
(* (kaleido/frontend/fractal_tensor.py, "a flatten list" and its indices): *)
(* an immutable list of lists of elements. Every operation returns new     *)
(* lists and leaves the existing ones as they are.                         *)
(*                                                                         *)
(* call.on are the operands, call.ids the other arguments of an operation. *)
(*                                                                         *)
(* This is what the code computes. Where a document of the repository says *)
(* otherwise (repeat, product, slide, window) the comment names it, and    *)
(* MCDocumented shows the difference.                                      *)
(***************************************************************************)
EXTENDS Integers, FiniteSets, Sequences, SequencesExt

CONSTANT Vectors  (* the elements that have more than one number           *)

VARIABLES
  lists,      (* every list the program holds, in order of creation        *)
  call        (* the last call: its operation, operands and result         *)

vars == <<lists, call>>

NoCall == [op |-> "none", on |-> <<>>, ids |-> <<>>, got |-> <<>>]

Init == lists = <<>> /\ call = NoCall

X   == lists[call'.on[1]]
Y   == lists[call'.on[2]]
Arg == call'.ids

\* The new lists.
Return(ls) == lists' = lists \o ls
New == SubSeq(lists', Len(lists) + 1, Len(lists'))

\* Each n-th element of l from position i on, positions counted from 0.
Every(l, i, n) == [k \in 1..Cardinality({j \in i..Len(l) - 1 : (j - i) % n = 0}) |->
                     l[i + (k - 1) * n + 1]]

-----------------------------------------------------------------------------
(* The data structure.                                                     *)

\* FractalTensor(...) with any contents, and from_pylist.
Make ==
  \/ call'.op = "make" /\ Len(New) = 1 /\ Return(New)
  \/ call'.op = "from_pylist" /\ Return(<<call'.got>>)

\* from_fractaltensors of the lists call'.on.
Nest ==
  /\ call'.op = "nest"
  /\ Return(<<[k \in DOMAIN call'.on |-> lists[call'.on[k]]]>>)

\* x[ids], for a slice or a list of indices.
Select ==
  /\ call'.op = "select"
  /\ Return(<<[k \in DOMAIN Arg |-> X[Arg[k] + 1]]>>)

Join == call'.op = "join" /\ Return(<<X \o Y>>)

\* repeat(x, n): a list of n copies, as its docstring says (conversion.py:155-156).
\* memory_operations.md:31-40 puts them one behind the other.
Repeat == call'.op = "repeat" /\ Return(<<[k \in 1..Arg[1] |-> X]>>)

\* split(x, n): n parts, all but the last of the same length.
Split ==
  /\ call'.op = "split"
  /\ Len(New) = Arg[1] /\ Return(New)
  /\ FlattenSeq(New) = X
  /\ \A k \in 1..Arg[1] - 1 : Len(New[k]) = Len(X) \div Arg[1]

\* width_by_depth(d): the lengths of the lists -d - 1 levels down.
RECURSIVE Widths(_, _)
Widths(l, k) == IF k = 0 THEN <<Len(l)>>
                ELSE FlattenSeq([i \in DOMAIN l |-> Widths(l[i], k - 1)])

WidthByDepth ==
  /\ call'.op = "width_by_depth"
  /\ call'.got = Widths(X, -Arg[1] - 1)
  /\ UNCHANGED lists

-----------------------------------------------------------------------------
(* The functional operators.                                               *)

\* The user's functions of two arguments.
Apply(f, s, x) ==
  CASE f = "left" -> s [] f = "right" -> x [] f = "join" -> s \o x

\* scan(f, x), or scan(f, x, v) for Arg = <<f, v>>.
Scanned ==
  LET r[k \in DOMAIN X] ==
        IF k > 1 THEN Apply(Arg[1], r[k - 1], X[k])
        ELSE IF Len(Arg) = 1 THEN X[1] ELSE Apply(Arg[1], Arg[2], X[1])
  IN  r

Scan == call'.op = "scan" /\ Return(<<Scanned>>)

\* x[i], x.last() and fold: an element, which the program may keep or not.
Fetched ==
  CASE call'.op = "index" -> X[Arg[1] + 1]
    [] call'.op = "last"  -> X[Len(X)]
    [] call'.op = "fold"  -> Scanned[Len(X)]

Fetch ==
  /\ call'.op \in {"index", "last", "fold"}
  /\ call'.got = Fetched
  /\ UNCHANGED lists \/ Return(<<call'.got>>)

\* map(f, x), and map(f, zip(x, y)): a list for each result of f.
Map ==
  /\ call'.op = "map"
  /\ Return(CASE Arg[1] = "same"  -> <<X>>
              [] Arg[1] = "twice" -> <<X, X>>
              [] Arg[1] = "zip"   -> <<X, X>>
              [] Arg[1] = "first" -> <<[k \in DOMAIN X |-> X[k][1]]>>
              [] Arg[1] = "swap"  -> <<Y, X>>)

\* filter(f, enumerate(x)), where f holds at the positions in Arg[1].
Filter ==
  /\ call'.op = "filter"
  /\ LET kept == SelectSeq([i \in DOMAIN X |-> i - 1], LAMBDA i : i \in Arg[1])
     IN  Return(<<[k \in DOMAIN kept |-> X[kept[k] + 1]]>>)

\* dilated_map(f, x, d): f sees the elements i, i + d, i + 2d, ... as a list.
DilatedMap ==
  /\ call'.op = "dilated_map"
  /\ Return(<<CASE Arg[1] = "same" -> X
                [] Arg[1] = "left" -> [k \in DOMAIN X |-> X[((k - 1) % Arg[2]) + 1]]>>)

-----------------------------------------------------------------------------
(* The access operators.                                                   *)

\* product(x, y). Of the rows of the second result, those made of an element
\* with several numbers are mixed up, and left open;
\* access_multiple_fractaltensors.md:71-73 has the element in each place.
Product ==
  /\ call'.op = "product"
  /\ Len(New) = 2 /\ Return(New)
  /\ New[1] = [i \in DOMAIN Y |-> X]
  /\ Len(New[2]) = Len(Y)
  /\ \A i \in DOMAIN Y :
       /\ Len(New[2][i]) = Len(X)
       /\ Y[i] \notin Vectors => New[2][i] = [j \in DOMAIN X |-> Y[i]]

\* slide(x, size, stride, dilation, padding, value): the windows inside the
\* padded list, and behind them one more, which is whatever follows the start
\* of the last window. The formula of access.py:358-361 counts neither the last
\* window that fits nor that rest.
Slide ==
  LET size     == Arg[1]
      stride   == Arg[2]
      dilation == Arg[3]
      padding  == [k \in 1..Arg[4] |-> Arg[5]]
      padded   == padding \o X \o padding
      windows  == (Len(padded) - (size - 1) * dilation - 1) \div stride + 1
      start(w) == (w - 1) * stride
  IN  /\ call'.op = "slide"
      /\ Return(<<Append([w \in 1..windows |->
                          SubSeq(Every(padded, start(w), dilation), 1, size)],
                        Every(padded, start(windows) + 1, dilation))>>)

\* window(index, x, size, dilation, value) centred at index: the elements at
\* these distances from it. Only if it begins with x and ends before x does
\* the result have them; otherwise it has some elements and padding, although
\* access.py:442-443 centres every window.
Window ==
  LET half == ((Arg[2] - 1) * Arg[3]) \div 2
  IN  /\ call'.op = "window"
      /\ Len(New) = 1 /\ Return(New)
      /\ Len(New[1]) = Arg[2]
      /\ Range(New[1]) \subseteq Range(X) \cup {Arg[4]}
      /\ Arg[1] = half /\ 2 * half < Len(X) =>
           New[1] = [k \in 1..Arg[2] |-> X[Arg[1] - half + (k - 1) * Arg[3] + 1]]

\* shifted_window(index, x, size, dilation): the list is a ring.
ShiftedWindow ==
  LET half == ((Arg[2] - 1) * Arg[3]) \div 2
  IN  /\ call'.op = "shifted_window"
      /\ Return(<<[k \in 1..Arg[2] |->
                    X[((Arg[1] - half + (k - 1) * Arg[3]) % Len(X)) + 1]]>>)

\* shifted_slide(x, size, dilation), for the elements of x, or for both lists of
\* zip(x, y): the window around each position. Positions behind the end wrap;
\* for those before the start the result has some element, but not always the
\* one of the ring, and for those a whole length before it, anything.
ShiftedSlide ==
  LET inputs  == IF Len(call'.on) = 1 THEN X ELSE <<X, Y>>
      half    == ((Arg[1] - 1) * Arg[2]) \div 2
      at(p, k) == p - half + (k - 1) * Arg[2]
  IN  /\ call'.op = "shifted_slide"
      /\ Return(New)
      /\ Len(New) = Len(inputs)
      /\ \A n \in DOMAIN inputs :
           LET l == inputs[n] IN
           /\ Len(New[n]) = Len(l)
           /\ \A p \in 0..Len(l) - 1 :
                /\ Len(New[n][p + 1]) = Arg[1]
                /\ \A k \in 1..Arg[1] :
                     LET e == New[n][p + 1][k] IN
                     /\ at(p, k) >= 0 => e = l[(at(p, k) % Len(l)) + 1]
                     /\ at(p, k) \in 1 - Len(l)..-1 => e \in Range(l)

-----------------------------------------------------------------------------

Next ==
  \/ Make \/ Nest \/ Select \/ Join \/ Repeat \/ Split \/ WidthByDepth
  \/ Scan \/ Fetch \/ Map \/ Filter \/ DilatedMap
  \/ Product \/ Slide \/ Window \/ ShiftedWindow \/ ShiftedSlide

Spec == Init /\ [][Next]_vars
=============================================================================
