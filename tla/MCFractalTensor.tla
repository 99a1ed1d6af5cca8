--------------------------- MODULE MCFractalTensor ---------------------------
(* Small programs for FractalTensor. *)
EXTENDS Operators

CONSTANTS e1, e2, e3, v1, v2, mixed

One    == <<Leaf>>
Two    == <<Leaf, Leaf>>
Three  == <<Leaf, Leaf, Leaf>>

NewOne    == [indices |-> One, data |-> <<e1>>]
NewTwo    == [indices |-> Two, data |-> <<e2, e3>>]
NewThree  == [indices |-> Three, data |-> <<e1, e2, e3>>]
NewFive   == [indices |-> Two \o Three, data |-> <<e1, e2, e3, e2, e1>>]
NewRagged == [indices |-> <<Two, One>>, data |-> <<e1, e2, e3>>]
NewDeep   == [indices |-> <<<<Two>>, <<One, Two>>>>, data |-> <<e1, e2, e3, e1, e2>>]
NewVector == [indices |-> Two, data |-> <<v1, v2>>]

\* States that differ in the last call only have the same successors.
Objects == <<client, types, tensors>>

Client(inputs, keeps, depth, calls) ==
  [inputs |-> inputs, keeps |-> keeps, depth |-> depth, calls |-> calls]

Deep   == {"make", "nest", "index", "select", "repeat"}
Joining == Deep \cup {"join", "last"}

\* Programs with deep tensors, programs that rely on lengths, and programs
\* that use the operators.
SafeClients ==
  {Client({NewOne, NewRagged}, 4, 3, Deep),
   Client({NewOne, NewTwo, NewRagged}, 3, 2, Joining),
   Client({NewThree, NewRagged}, 3, 3,
          {"from_pylist", "split", "scan", "fold", "map", "filter"}),
   Client({NewTwo, NewDeep}, 3, 3,
          {"from_pylist", "index", "width_by_depth", "map", "filter"}),
   Client({NewThree, NewFive}, 2, 2, {"from_pylist", "index", "dilated_map"}),
   Client({NewTwo, NewFive}, 2, 2,
          {"from_pylist", "index", "slide", "window", "shifted_window"}),
   Client({NewThree, NewRagged}, 4, 3, {"from_pylist", "index", "shifted_slide"}),
   Client({NewOne, NewThree, NewRagged}, 4, 3, {"from_pylist", "index", "product"}),
   Client({NewVector}, 4, 3, {"make", "index", "product"})}

\* Programs that do both.
DeepJoins == {Client({NewOne, NewRagged}, 5, 3, Joining)}
=============================================================================
