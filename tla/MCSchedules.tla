---------------------------- MODULE MCSchedules -----------------------------
(***************************************************************************)
(* A device with warps of two threads and blocks of at most four, and      *)
(* launches on it: of one and of several blocks, that divide the data and  *)
(* that do not, whose threads make one turn of their loops and several.    *)
(***************************************************************************)
EXTENDS Schedules

MCDevice ==
  [warp |-> 2, threads |-> 4, resident |-> 8, sms |-> 1, tile |-> 2, rows |-> 1,
   grid |-> 2, block |-> 1, least |-> 2, gather |-> 2, fill |-> 2]

MCLaunches ==
  {[kernel |-> "transpose", shape |-> <<2, 2>>, dims |-> <<2, 1>>],
   [kernel |-> "transpose", shape |-> <<4, 4>>, dims |-> <<2, 1>>],
   [kernel |-> "transpose", shape |-> <<3>>, dims |-> <<1>>],
   [kernel |-> "transpose", shape |-> <<3, 1, 2>>, dims |-> <<2, 3, 1>>],
   [kernel |-> "transpose", shape |-> <<2, 2, 3>>, dims |-> <<3, 1, 2>>],
   [kernel |-> "concat", height |-> 3, widths |-> <<1, 2>>],
   [kernel |-> "concat", height |-> 1, widths |-> <<2, 9, 2>>],
   [kernel |-> "concat", height |-> 2, widths |-> <<2, 2>>],
   [kernel |-> "gather", shape |-> <<2, 3, 2>>, indices |-> <<<<1, 2>>, <<0, 1>>>>],
   [kernel |-> "gather", shape |-> <<3, 2>>, indices |-> <<<<2>>, <<0>>, <<2>>>>],
   [kernel |-> "scatter", shape |-> <<2, 3>>, indices |-> <<<<0, 1>>, <<1, 2>>, <<0, 1>>>>],
   [kernel |-> "scatter", shape |-> <<2, 2>>, indices |-> <<<<1>>, <<1>>>>],
   [kernel |-> "elementwise", numel |-> 5, arity |-> 2],
   [kernel |-> "fill", numel |-> 3, arity |-> 0],
   [kernel |-> "softmax", height |-> 1, width |-> 5],
   [kernel |-> "softmax", height |-> 2, width |-> 3]}
=============================================================================
