---------------------------- MODULE LstmDataflow ----------------------------
(***************************************************************************)
(* The stacked LSTM as its dataflow graph                                  *)
(* (benchmarks/rnn/fractaltensor/stacked_lstm/README.md, Fig. 1): cell     *)
(* (d, l) of layer d and time step l may be computed, together with any    *)
(* others, once the cell below it and the cell before it have been.        *)
(***************************************************************************)
EXTENDS Integers

CONSTANTS MaxDepth, MaxLength

VARIABLES
  depth,      (* layers of the network                                     *)
  len,        (* time steps of the sequence                                *)
  done        (* the cells that have been computed                         *)

vars == <<depth, len, done>>

Cells == (0..depth - 1) \X (0..len - 1)

\* Whether cell <<d, l>> waits for cell e.
DependsOn(d, l, e) == e = <<d - 1, l>> \/ e = <<d, l - 1>>

Init ==
  /\ depth \in 1..MaxDepth
  /\ len \in 1..MaxLength
  /\ done = {}

\* A parallel step: every cell it computes has its inputs from earlier steps.
Compute ==
  /\ done \subseteq done' /\ done' \subseteq Cells
  /\ \A c \in done' \ done : \A e \in Cells :
       DependsOn(c[1], c[2], e) => e \in done
  /\ UNCHANGED <<depth, len>>

Spec == Init /\ [][Compute]_vars
=============================================================================
