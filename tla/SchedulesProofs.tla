--------------------------- MODULE SchedulesProofs ---------------------------
(***************************************************************************)
(* The programs run together: a behaviour of ScheduleSpec is one of each   *)
(* schedule, so what is proved of a schedule alone holds of it here. The   *)
(* instances of Schedules are those of the modules that have the proofs,   *)
(* definition by definition.                                               *)
(***************************************************************************)
EXTENDS Schedules, KernelsProofs

GridP == INSTANCE GridLstmProofs WITH
  depth <- gDepth, src <- gSrc, trg <- gTrg, region <- gRegion, step <- gStep,
  hsss <- gHsss, launched <- gLaunched, operands <- gOperands, status <- gStatus

DilatedP == INSTANCE DilatedLstmProofs WITH
  depth <- dDepth, len <- dLen, region <- dRegion, layer <- dLayer,
  step <- dStep, link_len <- dLink, hsss <- dHsss, csss <- dCsss,
  operands <- dOperands, status <- dStatus

(***************************************************************************)
(* Both instances of a schedule are the same.                              *)
(***************************************************************************)

LEMMA SameGridInit ==
  ASSUME NEW d, NEW s, NEW t, Grid!InitFor(d, s, t)
  PROVE  GridP!InitFor(d, s, t)
  BY DEF Grid!InitFor, Grid!Slabs, Grid!Cells, GridP!InitFor, GridP!Slabs, GridP!Cells

LEMMA SameGridNext == ASSUME Grid!Next  PROVE GridP!Next
  BY DEF Grid!Next, Grid!Region1, Grid!Region2, Grid!Region3, Grid!Region4,
     Grid!Region5, Grid!Region6, Grid!Region7, Grid!Region8, Grid!NextRegion,
     Grid!Single, Grid!Gathered, Grid!Launch, Grid!StoreViews,
     Grid!ScatterAdd, Grid!WindowsFit, Grid!OperandsOf, Grid!Weights,
     Grid!Computes, Grid!BatchCount, Grid!BiasRow, Grid!FromInputs,
     Grid!FromWindows, Grid!FromBelow, Grid!StateX, Grid!StateY, Grid!Below,
     Grid!BeforeSource, Grid!BeforeTarget, Grid!Operand, Grid!Running,
     Grid!HyperplaneOf, Grid!LayersOf8, Grid!First, Grid!Last,
     Grid!ReturnsAtOnce, Grid!LoopStart, Grid!LoopEnd, Grid!Slab, Grid!Slabs,
     Grid!Cells, Grid!Larger, Grid!Smaller, Grid!shape, Grid!Zero,
     Grid!Output, Grid!Cardinality, GridP!Next, GridP!Region1, GridP!Region2,
     GridP!Region3, GridP!Region4, GridP!Region5, GridP!Region6,
     GridP!Region7, GridP!Region8, GridP!NextRegion, GridP!Single,
     GridP!Gathered, GridP!Launch, GridP!StoreViews, GridP!ScatterAdd,
     GridP!WindowsFit, GridP!OperandsOf, GridP!Weights, GridP!Computes,
     GridP!BatchCount, GridP!BiasRow, GridP!FromInputs, GridP!FromWindows,
     GridP!FromBelow, GridP!StateX, GridP!StateY, GridP!Below,
     GridP!BeforeSource, GridP!BeforeTarget, GridP!Operand, GridP!Running,
     GridP!HyperplaneOf, GridP!LayersOf8, GridP!First, GridP!Last,
     GridP!ReturnsAtOnce, GridP!LoopStart, GridP!LoopEnd, GridP!Slab,
     GridP!Slabs, GridP!Cells, GridP!Larger, GridP!Smaller, GridP!shape,
     GridP!Zero, GridP!Output, GridP!Cardinality

LEMMA SameLaunchedOnce == ASSUME GridP!LaunchedOnce  PROVE GridLaunchedOnce
  BY DEF GridLaunchedOnce, Grid!LaunchedOnce, Grid!Cells, Grid!Companions,
     GridP!LaunchedOnce, GridP!Cells, GridP!Companions

LEMMA SameOutputs == ASSUME GridP!OutputsOfHyperplanes  PROVE GridOutputs
  BY DEF GridOutputs, Grid!OutputsOfHyperplanes, Grid!Cells, Grid!Companions, Grid!Slab,
     Grid!Zero, Grid!Output, Grid!Cardinality, GridP!OutputsOfHyperplanes,
     GridP!Cells, GridP!Companions, GridP!Slab, GridP!Zero, GridP!Output,
     GridP!Cardinality

LEMMA SameFindsNeighbours == ASSUME GridP!FindsNeighbours  PROVE Grid!FindsNeighbours
  BY DEF Grid!FindsNeighbours, Grid!Cells, Grid!Slab,
     GridP!FindsNeighbours, GridP!Cells, GridP!Slab

LEMMA SameDilatedInit ==
  ASSUME NEW d, NEW l, Dilated!InitFor(d, l)
  PROVE  DilatedP!InitFor(d, l)
  BY DEF Dilated!InitFor, Dilated!Slabs, Dilated!Rounded, Dilated!RoundUp,
     DilatedP!InitFor, DilatedP!Slabs, DilatedP!Rounded, DilatedP!RoundUp

LEMMA SameDilatedNext == ASSUME Dilated!Next  PROVE DilatedP!Next
  BY DEF Dilated!Next, Dilated!Region1, Dilated!EnterRegion2, Dilated!Chunk,
     Dilated!NextLayer, Dilated!Return, Dilated!Target, Dilated!Output,
     Dilated!Operand, Dilated!ViewsFit, Dilated!Fits, Dilated!Offset,
     Dilated!PreviousChunk, Dilated!StoreChunk, Dilated!ChunkOperands,
     Dilated!Slabs, Dilated!shape, Dilated!arrays, DilatedP!Next,
     DilatedP!Region1, DilatedP!EnterRegion2, DilatedP!Chunk,
     DilatedP!NextLayer, DilatedP!Return, DilatedP!Target, DilatedP!Output,
     DilatedP!Operand, DilatedP!ViewsFit, DilatedP!Fits, DilatedP!Offset,
     DilatedP!PreviousChunk, DilatedP!StoreChunk, DilatedP!ChunkOperands,
     DilatedP!Slabs, DilatedP!shape, DilatedP!arrays

LEMMA SameChunksStayInLayer ==
  ASSUME DilatedP!ChunksStayInLayer
  PROVE  DilatedChunksStayInLayer
  BY DEF DilatedChunksStayInLayer, Dilated!ChunksStayInLayer, Dilated!Cells, Dilated!Offset,
     Dilated!Output, Dilated!OddWithTwoLayers, DilatedP!ChunksStayInLayer,
     DilatedP!Cells, DilatedP!Offset, DilatedP!Output,
     DilatedP!OddWithTwoLayers

LEMMA SameLinked ==
  ASSUME dRegion = 2 => DilatedP!Linked(dOperands')
  PROVE  dRegion = 2 => Dilated!Linked(dOperands')
  BY DEF Dilated!Linked, Dilated!Offset, DilatedP!Linked, DilatedP!Offset

(***************************************************************************)
(* A behaviour of all programs is one of each.                             *)
(***************************************************************************)

LEMMA SomeLengths ==
  /\ 1 \in Nat \ {0} /\ 1..MaxGrid \subseteq Nat \ {0}
  /\ 1..MaxDilated \subseteq Nat \ {0} /\ 1..MaxLength \subseteq Nat \ {0}
  BY BoundsAssumption, ShapeAssumption

LEMMA InitOfEach == ScheduleInit => Init /\ GridP!Init /\ DilatedP!Init
<1> SUFFICES ASSUME ScheduleInit PROVE Init /\ GridP!Init /\ DilatedP!Init
  OBVIOUS
<1>1. Init
  BY DEF ScheduleInit
<1>2. \E d, s, t \in Nat \ {0} : Grid!InitFor(d, s, t)
  BY SomeLengths DEF ScheduleInit
<1>3. \E d, l \in Nat \ {0} : Dilated!InitFor(d, l)
  BY SomeLengths DEF ScheduleInit
<1>4. GridP!Init
  BY <1>2, SameGridInit DEF GridP!Init
<1>5. DilatedP!Init
  BY <1>3, SameDilatedInit DEF DilatedP!Init
<1> QED
  BY <1>1, <1>4, <1>5

LEMMA StepOfEach ==
  [RunStacked \/ RunGrid \/ RunDilated \/ RunKernel]_allVars
    => [Next]_vars /\ [GridP!Next]_(GridP!vars) /\ [DilatedP!Next]_(DilatedP!vars)
<1>1. /\ GridP!vars = gVars /\ GridP!vars' = gVars'
      /\ DilatedP!vars = dVars /\ DilatedP!vars' = dVars'
  BY DEF GridP!vars, gVars, DilatedP!vars, dVars
<1>2. CASE RunStacked
  BY <1>1, <1>2 DEF RunStacked
<1>3. CASE RunGrid
  BY <1>1, <1>3, SameGridNext DEF RunGrid
<1>4. CASE RunDilated
  BY <1>1, <1>4, SameDilatedNext DEF RunDilated
<1>5. CASE RunKernel
  BY <1>1, <1>5 DEF RunKernel
<1>6. CASE UNCHANGED allVars
  BY <1>1, <1>6 DEF allVars
<1> QED
  BY <1>2, <1>3, <1>4, <1>5, <1>6

\* Whatever program runs, each of the three schedules does as its own
\* specification says: it takes its steps, or it stays as it was called.
THEOREM EachRuns == ScheduleSpec => Spec /\ GridP!Spec /\ DilatedP!Spec
  BY InitOfEach, StepOfEach, PTL DEF ScheduleSpec, Spec, GridP!Spec, DilatedP!Spec

\* The eight regions partition the cells of every grid into hyperplanes, each
\* launched whole and once, and no window of a launch leaves its tensor.
THEOREM GridIsLaunchedOnce == ScheduleSpec => []GridLaunchedOnce
<1>1. GridP!LaunchedOnce => GridLaunchedOnce
  BY SameLaunchedOnce
<1> QED
  BY <1>1, EachRuns, GridP!AlwaysLaunchedOnce, PTL

\* What the outputs of a grid are worth: exactly those of cells above layer 0
\* that share their hyperplane are computed, all others stay zero.
THEOREM GridOutputsAreWorth == ScheduleSpec => []GridOutputs
<1>1. GridP!OutputsOfHyperplanes => GridOutputs
  BY SameOutputs
<1> QED
  BY <1>1, EachRuns, GridP!AlwaysOutputs, PTL

\* Every cell of a grid is given the outputs of its own neighbours, the inputs
\* of its own position and the weights of its own layer, from earlier launches.
THEOREM GridFindsNeighbours == ScheduleSpec => GridNeighboursFound
<1>1. [GridP!FindsNeighbours]_(GridP!vars) => [Grid!FindsNeighbours]_(Grid!vars)
  BY SameFindsNeighbours DEF GridP!vars, Grid!vars
<1> QED
  BY <1>1, EachRuns, GridP!AlwaysFindsNeighbours, PTL
  DEF GridNeighboursFound, Grid!NeighboursFound, GridP!NeighboursFound

\* A chunk of a dilated LSTM stores to its own layer only, and a call ends with
\* every cell stored unless the length is odd and there are two layers.
THEOREM DilatedChunksStay == ASSUME ~Fused  PROVE ScheduleSpec => []DilatedChunksStayInLayer
<1>1. DilatedP!Spec => []DilatedP!ChunksStayInLayer
  BY DilatedP!AlwaysChunksStay
<1>2. DilatedP!ChunksStayInLayer => DilatedChunksStayInLayer
  BY SameChunksStayInLayer
<1> QED
  BY <1>1, <1>2, EachRuns, PTL

\* A cell of a dilated LSTM gets its state from one link before it and its
\* input from the layer below, after these were stored.
THEOREM DilatedFindsLinks == ASSUME ~Fused  PROVE ScheduleSpec => DilatedLinksFound
<1>1. DilatedP!Spec => DilatedP!LinksFound
  BY DilatedP!AlwaysLinked
<1>2. [dRegion = 2 => DilatedP!Linked(dOperands')]_(DilatedP!vars)
        => [dRegion = 2 => Dilated!Linked(dOperands')]_(Dilated!vars)
  BY SameLinked DEF DilatedP!vars, Dilated!vars
<1> QED
  BY <1>1, <1>2, EachRuns, PTL
  DEF DilatedLinksFound, Dilated!LinksFound, DilatedP!LinksFound

(***************************************************************************)
(* A launch of a kernel: the threads of a block are always in one phase of *)
(* their codes, because they pass a barrier together.                      *)
(***************************************************************************)

\* Kernel k has been executed as far as d says, in the phases ph, q at last.
InStep(k, d, ph, q) ==
  /\ \A th \in DOMAIN k.code :
       IsCode(k.code[th]) /\ Phases(k.code[th], ph[th], 0, q)
  /\ NoneCollide(k, ph)
  /\ \A th \in DOMAIN k.code : d[th] \in 0..Len(k.code[th])
  /\ \A s, t \in DOMAIN k.code : s[1] = t[1] => ph[s][d[s]] = ph[t][d[t]]

LaunchInv == \E ph, q : InStep(kernel, kDone, ph, q)

\* Threads S execute an instruction; th passes a barrier.
Passes(k, d, S, th) == th \in S /\ k.code[th][d[th] + 1].op = "barrier"

LEMMA StepTogether ==
  ASSUME NEW k, NEW d, NEW ph, NEW q, InStep(k, d, ph, q), NEW S, NEW e,
         e = [th \in DOMAIN k.code |-> d[th] + IF th \in S THEN 1 ELSE 0],
         \A th \in DOMAIN k.code : th \in S => d[th] # Len(k.code[th]),
         \A s, t \in DOMAIN k.code :
           s[1] = t[1] => (Passes(k, d, S, s) <=> Passes(k, d, S, t))
  PROVE  InStep(k, e, ph, q)
<1>1. ASSUME NEW th \in DOMAIN k.code
      PROVE  /\ e[th] \in 0..Len(k.code[th])
             /\ ph[th][e[th]] = ph[th][d[th]] + (IF Passes(k, d, S, th) THEN 1 ELSE 0)
  <2> DEFINE n == Len(k.code[th])
             c == k.code[th]
             i == d[th]
             f == ph[th]
  <2>1. /\ n \in Nat /\ f \in [0..n -> Nat] /\ i \in 0..n
        /\ \A j \in 1..n : f[j] = f[j - 1] + (IF c[j].op = "barrier" THEN 1 ELSE 0)
    BY DEF InStep, IsCode, Phases
  <2>2. CASE th \in S
    <3>1. e[th] = i + 1 /\ i # n
      BY <2>2
    <3> HIDE DEF i, n, f, c
    <3>2. i + 1 \in 1..n /\ (i + 1) - 1 = i
      BY <2>1, <3>1
    <3>3. f[i + 1] = f[i] + (IF c[i + 1].op = "barrier" THEN 1 ELSE 0)
      BY <2>1, <3>2
    <3> QED
      BY <2>2, <3>1, <3>2, <3>3 DEF Passes, i, n, f, c
  <2>3. CASE th \notin S
    <3>1. e[th] = i + 0 /\ i + 0 = i
      BY <2>1, <2>3
    <3>2. f[i] \in Nat /\ f[i] + 0 = f[i]
      BY <2>1
    <3> QED
      BY <2>1, <2>3, <3>1, <3>2 DEF Passes
  <2> QED
    BY <2>2, <2>3
<1>2. ASSUME NEW s \in DOMAIN k.code, NEW t \in DOMAIN k.code, s[1] = t[1]
      PROVE  ph[s][e[s]] = ph[t][e[t]]
  <2>1. Passes(k, d, S, s) <=> Passes(k, d, S, t)
    BY <1>2
  <2>2. ph[s][d[s]] = ph[t][d[t]]
    BY <1>2 DEF InStep
  <2>3. CASE Passes(k, d, S, s)
    <3>1. ph[s][e[s]] = ph[s][d[s]] + 1 /\ ph[t][e[t]] = ph[t][d[t]] + 1
      BY <1>1, <2>1, <2>3
    <3> QED
      BY <2>2, <3>1
  <2>4. CASE ~Passes(k, d, S, s)
    <3>1. ph[s][e[s]] = ph[s][d[s]] + 0 /\ ph[t][e[t]] = ph[t][d[t]] + 0
      BY <1>1, <2>1, <2>4
    <3> QED
      BY <2>2, <3>1
  <2> QED
    BY <2>3, <2>4
<1> QED
  BY <1>1, <1>2 DEF InStep

LEMMA LaunchInvInit == ScheduleInit => LaunchInv
<1> SUFFICES ASSUME ScheduleInit PROVE LaunchInv
  OBVIOUS
<1>1. CASE Launch!NoLaunch
  <2>1. kernel.code = <<>>
    BY <1>1 DEF Launch!NoLaunch
  <2>2. DOMAIN kernel.code = {}
    BY <2>1
  <2>3. ASSUME NEW th \in DOMAIN kernel.code PROVE FALSE
    BY <2>2
  <2>4. InStep(kernel, kDone, <<>>, 0)
    BY <2>3, Zenon DEF InStep, NoneCollide
  <2> QED
    BY <2>4 DEF LaunchInv
<1>2. CASE \E l \in Launches : Launch!InitFor(Kernel(l))
  <2>1. PICK l \in Launches : Launch!InitFor(Kernel(l))
    BY <1>2
  <2>2. Supported(l)
    BY LaunchAssumption
  <2>3. RaceFree(kernel)
    BY <2>1, <2>2, KernelsHaveNoRace DEF Launch!InitFor
  <2>4. kDone = [th \in DOMAIN kernel.code |-> 0]
    BY <2>1 DEF Launch!InitFor, Launch!Threads, Launch!Code
  <2>5. PICK ph, q : /\ \A th \in DOMAIN kernel.code :
                          IsCode(kernel.code[th]) /\ Phases(kernel.code[th], ph[th], 0, q)
                     /\ NoneCollide(kernel, ph)
    BY <2>3 DEF RaceFree
  <2>6. ASSUME NEW th \in DOMAIN kernel.code
        PROVE  kDone[th] \in 0..Len(kernel.code[th]) /\ ph[th][kDone[th]] = 0
    <3>1. Len(kernel.code[th]) \in Nat /\ ph[th][0] = 0
      BY <2>5 DEF IsCode, Phases
    <3> QED
      BY <2>4, <3>1
  <2>7. InStep(kernel, kDone, ph, q)
    BY <2>5, <2>6 DEF InStep
  <2> QED
    BY <2>7 DEF LaunchInv
<1> QED
  BY <1>1, <1>2 DEF ScheduleInit

LEMMA LaunchInvNext == LaunchInv /\ Launch!Next => LaunchInv'
<1> SUFFICES ASSUME LaunchInv, Launch!Next PROVE LaunchInv'
  OBVIOUS
<1>1. PICK ph, q : InStep(kernel, kDone, ph, q)
  BY DEF LaunchInv
<1>2. kernel' = kernel
  BY DEF Launch!Next, Launch!Access, Launch!Sync, Launch!Shuffle
<1>3. ASSUME NEW S, kDone' = Launch!Advance(S),
             \A th \in S : th \in DOMAIN kernel.code => ~Launch!Finished(th),
             \A s, t \in DOMAIN kernel.code :
               s[1] = t[1] => (Passes(kernel, kDone, S, s) <=> Passes(kernel, kDone, S, t))
      PROVE  LaunchInv'
  <2>1. kDone' = [th \in DOMAIN kernel.code |-> kDone[th] + IF th \in S THEN 1 ELSE 0]
    BY <1>3 DEF Launch!Advance, Launch!Threads, Launch!Code
  <2>2. \A th \in DOMAIN kernel.code : th \in S => kDone[th] # Len(kernel.code[th])
    BY <1>3 DEF Launch!Finished, Launch!Code
  <2>3. InStep(kernel, kDone', ph, q)
    BY <1>1, <1>3, <2>1, <2>2, StepTogether
  <2> QED
    BY <1>2, <2>3 DEF LaunchInv
<1>4. CASE \E th \in Launch!Threads : Launch!Access(th)
  <2>1. PICK th \in Launch!Threads : Launch!Access(th)
    BY <1>4
  <2>2. kDone' = Launch!Advance({th}) /\ ~Launch!Finished(th) /\ Launch!Next1(th).op # "barrier"
    BY <2>1 DEF Launch!Access, Launch!CanAccess, Launch!IsAt
  <2>3. \A s : ~Passes(kernel, kDone, {th}, s)
    BY <2>2 DEF Passes, Launch!Next1, Launch!Code
  <2> QED
    BY <1>3, <2>2, <2>3
<1>5. CASE \E b \in Launch!Blocks : Launch!Sync(b)
  <2>1. PICK b \in Launch!Blocks : Launch!Sync(b)
    BY <1>5
  <2> DEFINE S == Launch!BlockOf(b)
  <2>2. kDone' = Launch!Advance(S) /\ \A th \in S : ~Launch!Finished(th) /\ Launch!Next1(th).op = "barrier"
    BY <2>1 DEF Launch!Sync, Launch!CanSync, Launch!IsAt
  <2>3. S = {th \in DOMAIN kernel.code : th[1] = b}
    BY DEF Launch!BlockOf, Launch!Threads, Launch!Code
  <2> HIDE DEF S
  <2>4. \A s \in DOMAIN kernel.code : Passes(kernel, kDone, S, s) <=> s[1] = b
    BY <2>2, <2>3 DEF Passes, Launch!Next1, Launch!Code
  <2> QED
    BY <1>3, <2>2, <2>4
<1>6. CASE \E bw \in Launch!Warps : Launch!Shuffle(bw[1], bw[2])
  <2>1. PICK bw \in Launch!Warps : Launch!Shuffle(bw[1], bw[2])
    BY <1>6
  <2> DEFINE S == Launch!WarpOf(bw[1], bw[2])
  <2>2. kDone' = Launch!Advance(S) /\ \A th \in S : ~Launch!Finished(th) /\ Launch!Next1(th).op = "shuffle"
    BY <2>1 DEF Launch!Shuffle, Launch!CanShuffle, Launch!IsAt
  <2> HIDE DEF S
  <2>3. \A s : ~Passes(kernel, kDone, S, s)
    BY <2>2 DEF Passes, Launch!Next1, Launch!Code
  <2> QED
    BY <1>3, <2>2, <2>3
<1> QED
  BY <1>4, <1>5, <1>6 DEF Launch!Next

LEMMA LaunchInvStep ==
  LaunchInv /\ [RunStacked \/ RunGrid \/ RunDilated \/ RunKernel]_allVars => LaunchInv'
<1> SUFFICES ASSUME LaunchInv, [RunStacked \/ RunGrid \/ RunDilated \/ RunKernel]_allVars
             PROVE  LaunchInv'
  OBVIOUS
<1>1. CASE RunKernel
  BY <1>1, LaunchInvNext DEF RunKernel
<1>2. CASE UNCHANGED kVars
  BY <1>2 DEF kVars, LaunchInv
<1> QED
  BY <1>1, <1>2 DEF RunStacked, RunGrid, RunDilated, allVars

\* Two threads about to access memory are at instructions that do not collide.
LEMMA InStepNoRace == LaunchInv => KernelNoRace
<1> SUFFICES ASSUME LaunchInv, NEW s \in Launch!Threads, NEW t \in Launch!Threads,
                    Launch!CanAccess(s), Launch!CanAccess(t), s # t
             PROVE  ~Launch!Conflict(Launch!Next1(s), Launch!Next1(t))
  BY DEF KernelNoRace, Launch!NoRace
<1>1. PICK ph, q : InStep(kernel, kDone, ph, q)
  BY DEF LaunchInv
<1>2. s \in DOMAIN kernel.code /\ t \in DOMAIN kernel.code
  BY DEF Launch!Threads, Launch!Code
<1> DEFINE i == kDone[s] + 1
           j == kDone[t] + 1
           x == kernel.code[s][i]
           y == kernel.code[t][j]
<1>3. Launch!Next1(s) = x /\ Launch!Next1(t) = y
  BY DEF Launch!Next1, Launch!Code
<1>4. IsAccess(x) /\ IsAccess(y)
  BY <1>3 DEF Launch!CanAccess, Launch!IsAt, IsAccess
<1>10. kDone[s] # Len(kernel.code[s]) /\ kDone[t] # Len(kernel.code[t])
  BY DEF Launch!CanAccess, Launch!IsAt, Launch!Finished, Launch!Code
<1>5. /\ Len(kernel.code[s]) \in Nat /\ kDone[s] \in 0..Len(kernel.code[s])
      /\ Len(kernel.code[t]) \in Nat /\ kDone[t] \in 0..Len(kernel.code[t])
  BY <1>1, <1>2 DEF InStep, IsCode
<1>6. /\ i \in 1..Len(kernel.code[s]) /\ i - 1 = kDone[s]
      /\ j \in 1..Len(kernel.code[t]) /\ j - 1 = kDone[t]
  <2>1. ASSUME NEW n \in Nat, NEW d \in 0..n, d # n
        PROVE  d + 1 \in 1..n /\ (d + 1) - 1 = d
    BY <2>1
  <2> QED
    BY <1>10, <1>5, <2>1
<1>7. s[1] = t[1] => ph[s][i - 1] = ph[t][j - 1]
  BY <1>1, <1>2, <1>6 DEF InStep
<1>8. NoneCollide(kernel, ph)
  BY <1>1 DEF InStep
<1> HIDE DEF i, j
<1>9. ~Collide(x, y)
  BY <1>2, <1>4, <1>6, <1>7, <1>8 DEF NoneCollide
<1> HIDE DEF x, y
<1> QED
  BY <1>3, <1>9 DEF Collide, Launch!Conflict, Range, Launch!Range

LEMMA PhasesGrow ==
  ASSUME NEW n \in Nat, NEW f \in [0..n -> Nat], \A j \in 1..n : f[j] >= f[j - 1],
         NEW i \in 0..n
  PROVE  f[i] <= f[n]
<1> DEFINE T == {m \in Nat : i + m <= n => f[i] <= f[i + m]}
<1>1. 0 \in T
  OBVIOUS
<1>2. ASSUME NEW m \in T PROVE m + 1 \in T
  <2>1. CASE i + (m + 1) <= n
    <3>1. i + m \in 0..n /\ i + (m + 1) \in 1..n /\ (i + (m + 1)) - 1 = i + m
      BY <2>1
    <3>2. f[i + (m + 1)] >= f[i + m] /\ f[i] <= f[i + m]
      BY <3>1
    <3>3. f[i] \in Nat /\ f[i + m] \in Nat /\ f[i + (m + 1)] \in Nat
      BY <3>1
    <3> QED
      BY <3>2, <3>3
  <2> QED
    BY <2>1
<1> HIDE DEF T
<1>3. T = Nat
  <2>1. T \in SUBSET Nat
    BY DEF T
  <2> QED
    BY <1>1, <1>2, <2>1, SetInduction
<1>4. n - i \in T /\ i + (n - i) = n
  BY <1>3
<1> QED
  BY <1>4 DEF T

\* No thread waits at a __syncthreads for one of its block that has ended.
NoneEndsBeforeBarrier ==
  \A s, t \in Launch!Threads :
    s[1] = t[1] /\ Launch!IsAt(s, "barrier") => ~Launch!Finished(t)

LEMMA BarriersMatch == LaunchInv => NoneEndsBeforeBarrier
<1> SUFFICES ASSUME LaunchInv, NEW s \in Launch!Threads, NEW t \in Launch!Threads,
                    s[1] = t[1], Launch!IsAt(s, "barrier"), Launch!Finished(t)
             PROVE  FALSE
  BY DEF NoneEndsBeforeBarrier
<1>1. PICK ph, q : InStep(kernel, kDone, ph, q)
  BY DEF LaunchInv
<1>2. s \in DOMAIN kernel.code /\ t \in DOMAIN kernel.code
  BY DEF Launch!Threads, Launch!Code
<1> DEFINE c == kernel.code[s]
           n == Len(c)
           i == kDone[s]
           f == ph[s]
<1>3. i # n /\ c[i + 1].op = "barrier"
  BY DEF Launch!IsAt, Launch!Finished, Launch!Next1, Launch!Code
<1>4. /\ n \in Nat /\ i \in 0..n /\ f \in [0..n -> Nat] /\ f[n] = q
      /\ \A j \in 1..n : f[j] = f[j - 1] + (IF c[j].op = "barrier" THEN 1 ELSE 0)
  BY <1>1, <1>2 DEF InStep, IsCode, Phases
<1>5. f[i] = q
  <2>1. f[i] = ph[t][kDone[t]]
    BY <1>1, <1>2 DEF InStep
  <2>2. kDone[t] = Len(kernel.code[t])
    BY DEF Launch!Finished, Launch!Code
  <2>3. ph[t][Len(kernel.code[t])] = q
    BY <1>1, <1>2 DEF InStep, Phases
  <2> QED
    BY <2>1, <2>2, <2>3
<1> HIDE DEF c, n, i, f
<1>6. f[i + 1] = f[i] + 1 /\ i + 1 \in 0..n
  BY <1>3, <1>4
<1>7. f[i + 1] <= f[n]
  <2>1. ASSUME NEW j \in 1..n PROVE f[j] >= f[j - 1]
    <3>1. j - 1 \in 0..n /\ f[j - 1] \in Nat
      BY <1>4
    <3>2. f[j] = f[j - 1] + 1 \/ f[j] = f[j - 1] + 0
      BY <1>4
    <3> QED
      BY <3>1, <3>2
  <2> QED
    BY <1>4, <1>6, <2>1, PhasesGrow
<1>8. f[i] \in Nat
  BY <1>4
<1> QED
  BY <1>4, <1>5, <1>6, <1>7, <1>8

\* Whatever kernels are launched, however their threads interleave: no thread
\* is about to write what another one is about to read or write, unless both
\* add to it atomically.
THEOREM NoKernelRaces == ScheduleSpec => []KernelNoRace
  BY LaunchInvInit, LaunchInvStep, InStepNoRace, PTL DEF ScheduleSpec

\* Barriers match: whatever kernels are launched, the threads of a block meet
\* equally many __syncthreads, so none waits at one for a thread that ended.
THEOREM NoBarrierIsMissed == ScheduleSpec => []NoneEndsBeforeBarrier
  BY LaunchInvInit, LaunchInvStep, BarriersMatch, PTL DEF ScheduleSpec
=============================================================================
