----------------------------- MODULE MCDocumented -----------------------------
(***************************************************************************)
(* A program that makes x = [e1, e2] and y = [v1, v2], where v1 and v2 are *)
(* vectors, and calls five operators whose results are documented          *)
(* otherwise than the code computes them. NestedLists has what the code    *)
(* does.                                                                   *)
(***************************************************************************)
EXTENDS MCFractalTensor

VARIABLES
  next,       (* the call the program makes next                           *)
  departures  (* history: the results that are not the documented ones     *)

x == 1
y == 2

Held == [t \in DOMAIN tensors |-> ContentsOf(Now, t)]

\* What the last call returned: new FractalTensors, or an element of x.
Returned ==
  IF call'.op = "x[-1]" THEN call'.got
  ELSE SubSeq(Held', Len(tensors) + 1, Len(tensors'))

Xs == ContentsOf(Now, x)
Ys == ContentsOf(Now, y)

\* access.py:358-361: as many windows as the formula gives, for windows of 3
\* at every position, each element next to the other, and 1 padding in front
\* and behind.
Slid == Len(Returned[1]) = Len(Xs) + 2 * 1 - 1 * (3 - 1) - 1

\* docs/fractaltensor_operations/memory_operations.md:31-40: the copies of the
\* list one behind the other, not a list of copies.
IsRepeated == Returned = <<Xs \o Xs>>

\* docs/fractaltensor_operations/access_multiple_fractaltensors.md:71-73, like
\* meshgrid: row i of the second result has y[i] in each place.
IsProduct ==
  Returned = <<[i \in DOMAIN Ys |-> Xs], [i \in DOMAIN Ys |-> [j \in DOMAIN Xs |-> Ys[i]]]>>

\* access.py:442-443: the elements in a window centred on the element 0, with
\* the padding value in front of the list.
IsWindow == Returned = <<<<e3, Xs[1], Xs[2]>>>>

\* fractal_tensor.py:249, "Retrive the idx-th element": x[-1] is the last.
IsLast == Returned = Xs[Len(Xs)]

Judge(documented, op) ==
  departures' = departures \cup (IF documented THEN {} ELSE {<<op, Returned>>})

Calls == 7

DocumentedInit == Init /\ next = 1 /\ departures = {}

DocumentedNext ==
  /\ next <= Calls
  /\ next' = next + 1
  /\ \/ next = 1 /\ Create(Two, <<e1, e2>>) /\ Judge(TRUE, "x")
     \/ next = 2 /\ Create(Two, <<v1, v2>>) /\ Judge(TRUE, "y")
     \/ next = 3 /\ Slide(x, 3, 1, 1, 1, e3) /\ Judge(Slid, "slide")
     \/ next = 4 /\ Repeat(x, 2) /\ Judge(IsRepeated, "repeat")
     \/ next = 5 /\ Product(x, y) /\ Judge(IsProduct, "product")
     \/ next = 6 /\ Window(0, x, 3, 1, e3) /\ Judge(IsWindow, "window")
     \/ next = 7 /\ Fetch("x[-1]", x, LastIndex("x[-1]", x)) /\ Judge(IsLast, "x[-1]")

DocumentedSpec == DocumentedInit /\ [][DocumentedNext]_<<vars, next, departures>>

\* A program that makes nothing but the two lists keeps what it is given.
Documenting == {Client({}, 9, 2, {})}

\* At the end of the program, every operator has returned what its
\* documentation says. None of the five has.
AsDocumented == next > Calls => departures = {}
=============================================================================
