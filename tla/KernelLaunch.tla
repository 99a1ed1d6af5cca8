---------------------------- MODULE KernelLaunch ----------------------------
(***************************************************************************)
(* The launch of a kernel, as Kernels describes it, on a CUDA device:      *)
(* threads of resident blocks go on in any order, an instruction at a      *)
(* time; __syncthreads holds a thread until all threads of its block are   *)
(* at one, a shuffle until all threads of its warp are.                    *)
(***************************************************************************)
EXTENDS Integers, FiniteSets, Bags, SequencesExt

CONSTANTS
  WarpSize,     (* the threads of a warp                                   *)
  MaxResident   (* bound on the blocks the device runs at a time           *)

VARIABLES
  kernel,  (* what was launched: geometry, code, and what it should write  *)
  done,    (* how many instructions each thread has executed               *)
  mem      (* what was written; other locations are as they were           *)

vars == <<kernel, done, mem>>

Code     == kernel.code
Threads  == DOMAIN Code
Blocks   == {th[1] : th \in Threads}
BlockOf(b)   == {th \in Threads : th[1] = b}
WarpOf(b, w) == {th \in BlockOf(b) : th[2] \div WarpSize = w}
Warps        == {<<th[1], th[2] \div WarpSize>> : th \in Threads}

Finished(th) == done[th] = Len(Code[th])
Next1(th)    == Code[th][done[th] + 1]
IsAt(th, op) == ~Finished(th) /\ Next1(th).op = op

\* A register holds nothing at first, another location its own content.
Held(location) ==
  IF location \in DOMAIN mem THEN mem[location]
  ELSE IF location[1] = "reg" THEN EmptyBag ELSE SetToBag({location})
Read(locations) == FoldLeft(LAMBDA bag, e : bag (+) Held(e), EmptyBag, locations)
Write(cells)    == [e \in DOMAIN mem \union DOMAIN cells |->
                      IF e \in DOMAIN cells THEN cells[e] ELSE mem[e]]

\* A block starts when there is room for it and stays until it ends.
Started(b)  == \E th \in BlockOf(b) : done[th] > 0
Running(b)  == Started(b) /\ \E th \in BlockOf(b) : ~Finished(th)
Resident(b) == Started(b) \/ Cardinality({c \in Blocks : Running(c)}) < MaxResident

Advance(S) == [th \in Threads |-> done[th] + IF th \in S THEN 1 ELSE 0]

-----------------------------------------------------------------------------

NoLaunch ==
  /\ kernel = [code |-> <<>>, want |-> <<>>]
  /\ done = <<>>
  /\ mem = [e \in {} |-> EmptyBag]

InitFor(k) ==
  /\ kernel = k
  /\ done = [th \in Threads |-> 0]
  /\ mem = [e \in {} |-> EmptyBag]

CanAccess(th) == Resident(th[1]) /\ (IsAt(th, "put") \/ IsAt(th, "add"))

Access(th) ==
  /\ CanAccess(th)
  /\ mem' = Write([e \in {Next1(th).to} |-> Read(Next1(th).from)])
  /\ done' = Advance({th})
  /\ UNCHANGED kernel

CanSync(b) == Resident(b) /\ \A th \in BlockOf(b) : IsAt(th, "barrier")

Sync(b) ==
  /\ CanSync(b)
  /\ done' = Advance(BlockOf(b))
  /\ UNCHANGED <<kernel, mem>>

CanShuffle(b, w) == Resident(b) /\ \A th \in WarpOf(b, w) : IsAt(th, "shuffle")

\* A lane adds what the lane delta further holds; the last ones add their own.
FromLane(th) ==
  LET reg  == Next1(th).to
      lane == (th[2] % WarpSize) + Next1(th).delta
  IN  IF lane < WarpSize THEN <<"reg", <<th[1], th[2] + Next1(th).delta>>, reg[3]>>
      ELSE reg

Shuffle(b, w) ==
  /\ CanShuffle(b, w)
  /\ mem' = Write([e \in {Next1(th).to : th \in WarpOf(b, w)} |->
                     LET th == CHOOSE u \in WarpOf(b, w) : Next1(u).to = e
                     IN  Read(<<e, FromLane(th)>>)])
  /\ done' = Advance(WarpOf(b, w))
  /\ UNCHANGED kernel

Next ==
  \/ \E th \in Threads : Access(th)
  \/ \E b \in Blocks : Sync(b)
  \/ \E bw \in Warps : Shuffle(bw[1], bw[2])

-----------------------------------------------------------------------------

Halted == /\ \A th \in Threads : ~CanAccess(th)
          /\ \A b \in Blocks : ~CanSync(b)
          /\ \A bw \in Warps : ~CanShuffle(bw[1], bw[2])

\* When nothing can go on, no thread waits at a barrier or a shuffle for
\* threads that do not come, and the output is what the operator should
\* compute, whatever the order was, with nothing written next to it.
Delivers ==
  Halted =>
    /\ \A th \in Threads : Finished(th)
    /\ \A e \in DOMAIN kernel.want : Held(e) = kernel.want[e]
    /\ \A e \in DOMAIN mem : e[1] = "out" => e \in DOMAIN kernel.want

Conflict(s, t) ==
  /\ s.to = t.to \/ s.to \in Range(t.from) \/ t.to \in Range(s.from)
  /\ ~(s.op = "add" /\ t.op = "add")

\* No thread is about to write what another is about to read or to write;
\* two atomicAdd of one element may meet.
NoRace ==
  \A s, t \in {th \in Threads : CanAccess(th)} :
    s # t => ~Conflict(Next1(s), Next1(t))
=============================================================================
