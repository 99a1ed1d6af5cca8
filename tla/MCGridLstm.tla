----------------------------- MODULE MCGridLstm -----------------------------
(***************************************************************************)
(* One call of the grid LSTM, with two layers and sequences of length two, *)
(* next to the recurrence that grid_lstm/README.md gives for it. Every     *)
(* region makes one launch of one cell.                                    *)
(***************************************************************************)
EXTENDS GridLstm

VARIABLE departures (* history: where the call departed from the README    *)

\* README.md:11-47: y_t of a cell is the row of its source position in layer 0,
\* above it the first output of the cell below, or the second in branch 8.
ReadmeY(c) ==
  IF c[1] = 0 THEN {<<"yss", c[2]>>}
  ELSE {<<"hsss", Slab(Below(c), IF c[2] > 0 /\ c[3] > 0 THEN 1 ELSE 0)>>}

\* What the last launch gave cell c as y.
GivenY(c) ==
  {<<o.from, o.at>> : o \in {o \in operands' : o.cell = c /\ o.role = "y"}}

\* README.md:53-54: both outputs of a cell are stored in hsss.
Stored(c) == \A k \in {0, 1} : hsss'[Slab(c, k)] = <<Output(c, k)>>

Departures(c) ==
  (IF GivenY(c) = ReadmeY(c) THEN {} ELSE {<<"y", c, GivenY(c)>>})
  \cup (IF Stored(c) THEN {} ELSE {<<"outputs", c>>})

ReadmeInit == InitFor(2, 2, 2) /\ departures = {}

ReadmeNext ==
  /\ Next
  /\ departures' = departures \cup
       UNION {Departures(c) : c \in {c \in Cells : launched'[c] > launched[c]}}

ReadmeSpec == ReadmeInit /\ [][ReadmeNext]_<<vars, departures>>

\* When the driver returns, each cell was given the y of the README and its
\* outputs were stored. Neither holds.
FollowsReadme == status = "done" => departures = {}
=============================================================================
