----------------------------- MODULE Schedules ------------------------------
(***************************************************************************)
(* The programs of the core: the three hand-written wavefront schedules of *)
(* benchmarks/rnn/fractaltensor, and the kernels of kaleido/core. A        *)
(* behaviour is one call of the driver of a schedule, or one launch of a   *)
(* kernel. The state of the others stays as it is.                         *)
(***************************************************************************)
EXTENDS StackedLstm, Kernels

CONSTANTS
  MaxGrid,    (* bound on the depth and the lengths of a grid LSTM         *)
  MaxDilated, (* bound on the depth of a dilated LSTM                      *)
  Batch,
  Launches,    (* the calls of operators that launch a kernel              *)
  MaxResident  (* bound on the blocks that run at the same time            *)

VARIABLES
  program,    (* the driver that was called, or "kernel"                    *)
  gDepth, gSrc, gTrg, gRegion, gStep, gHsss, gLaunched, gOperands, gStatus,
  dDepth, dLen, dRegion, dLayer, dStep, dLink, dHsss, dCsss, dOperands, dStatus,
  kernel, kDone, kMem

Grid == INSTANCE GridLstm WITH
  depth <- gDepth, src <- gSrc, trg <- gTrg, region <- gRegion, step <- gStep,
  hsss <- gHsss, launched <- gLaunched, operands <- gOperands, status <- gStatus

Dilated == INSTANCE DilatedLstm WITH
  depth <- dDepth, len <- dLen, region <- dRegion, layer <- dLayer,
  step <- dStep, link_len <- dLink, hsss <- dHsss, csss <- dCsss,
  operands <- dOperands, status <- dStatus

Launch == INSTANCE KernelLaunch WITH WarpSize <- Device.warp, done <- kDone, mem <- kMem

ASSUME BoundsAssumption == MaxGrid \in Nat /\ MaxDilated \in Nat

\* A call for which the operator is written, on a device with room for a block.
ASSUME LaunchAssumption ==
  /\ MaxResident \in Nat \ {0}
  /\ \A l \in Launches : Supported(l)

gVars == <<gDepth, gSrc, gTrg, gRegion, gStep, gHsss, gLaunched, gOperands, gStatus>>
dVars == <<dDepth, dLen, dRegion, dLayer, dStep, dLink, dHsss, dCsss, dOperands, dStatus>>
kVars == <<kernel, kDone, kMem>>
allVars == <<program, vars, gVars, dVars, kVars>>

ScheduleInit ==
  \/ /\ program = "stacked"
     /\ Init /\ Grid!InitFor(1, 1, 1) /\ Dilated!InitFor(1, 1) /\ Launch!NoLaunch
  \/ /\ program = "grid"
     /\ Init /\ depth = 1 /\ len = 1 /\ Dilated!InitFor(1, 1) /\ Launch!NoLaunch
     /\ \E d, s, t \in 1..MaxGrid : Grid!InitFor(d, s, t)
  \/ /\ program = "dilated"
     /\ Init /\ depth = 1 /\ len = 1 /\ Grid!InitFor(1, 1, 1) /\ Launch!NoLaunch
     /\ \E d \in 1..MaxDilated, l \in 1..MaxLength : Dilated!InitFor(d, l)
  \/ /\ program = "kernel"
     /\ Init /\ depth = 1 /\ len = 1 /\ Grid!InitFor(1, 1, 1) /\ Dilated!InitFor(1, 1)
     /\ \E l \in Launches : Launch!InitFor(Kernel(l))

RunStacked ==
  /\ program = "stacked" /\ Next
  /\ UNCHANGED <<program, gVars, dVars, kVars>>

RunGrid ==
  /\ program = "grid" /\ Grid!Next
  /\ UNCHANGED <<program, vars, dVars, kVars>>

RunDilated ==
  /\ program = "dilated" /\ Dilated!Next
  /\ UNCHANGED <<program, vars, gVars, kVars>>

RunKernel ==
  /\ program = "kernel" /\ Launch!Next
  /\ UNCHANGED <<program, vars, gVars, dVars>>

ScheduleSpec ==
  ScheduleInit /\ [][RunStacked \/ RunGrid \/ RunDilated \/ RunKernel]_allVars

-----------------------------------------------------------------------------

\* GridLstm: the regions partition the cells into hyperplanes.
GridLaunchedOnce == Grid!LaunchedOnce

\* GridLstm: every cell gets its neighbours' outputs, after they were launched.
GridNeighboursFound == Grid!NeighboursFound

\* GridLstm: which outputs are computed, and which stay zero.
GridOutputs == Grid!OutputsOfHyperplanes

\* DilatedLstm: a chunk stores to its own layer only, and all cells are stored.
DilatedChunksStayInLayer == Dilated!ChunksStayInLayer

\* DilatedLstm: inputs come from the layer below and from one link before.
DilatedLinksFound == Dilated!LinksFound

\* KernelLaunch: whatever the order of its threads, a launch ends with all of
\* them and with what the operator should compute.
KernelDelivers == Launch!Delivers

\* KernelLaunch: between two barriers no thread writes what another one uses.
KernelNoRace == Launch!NoRace
=============================================================================
