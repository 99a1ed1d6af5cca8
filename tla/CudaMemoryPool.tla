--------------------------- MODULE CudaMemoryPool ---------------------------
(***************************************************************************)
(* The caching device allocator of kaleido/core/cuda_allocator.h, the      *)
(* client that obeys the contract written in                               *)
(* kaleido/core/operators/tests/test_allocator.cc, and the part of CUDA    *)
(* both of them depend on: streams run their work in FIFO order, and an    *)
(* event completes when the work in front of it has.                       *)
(*                                                                         *)
(* One host thread calls the pool ("NOT multi-thread safe"), so a call is  *)
(* never interrupted by another call; the device, however, makes progress  *)
(* between any two cudaEventQuery calls, hence the scan of Allocate is one *)
(* step per examined block.                                                *)
(***************************************************************************)
EXTENDS Integers, Sequences

CONSTANTS
  Blocks,       (* CudaMemoryBlock objects; a non-empty block also names   *)
                (* the address that cudaMalloc returned for it             *)
  Null,         (* the null device pointer: what cudaMalloc(0) returns     *)
  NoBlock,      (* all_map_.end()                                          *)
  Idle,         (* the host thread is not inside Allocate                  *)
  Streams,      (* CUDA streams                                            *)
  Sizes,        (* byte counts a client may ask for                        *)
  DeviceBytes,  (* device memory cudaMalloc can reserve                    *)
  MaxKernels,   (* bound: work queued on a stream when a kernel is added   *)
  MaxTenure     (* bound: times a block is handed out                      *)

Pointers == Blocks \cup {Null}

ASSUME SizesAssumption == Sizes \subseteq Nat
ASSUME BoundsAssumption == DeviceBytes \in Nat /\ MaxTenure \in Nat
                             /\ MaxKernels \in Nat
ASSUME NullAssumption == Null \notin Blocks /\ NoBlock \notin Blocks

VARIABLES
  allVector,    (* all_vector_                                             *)
  allMap,       (* all_map_                                                *)
  trackStreams, (* track_streams_, shared by the pool and all its blocks   *)
  nbytes,       (* nbytes_ of a block                                      *)
  ptr,          (* ptr_ of a block                                         *)
  markedFree,   (* marked_free_ of a block                                 *)
  events,       (* events_ of a block: the streams they were recorded on   *)
  scan,         (* the locals of an Allocate that is inside std::find_if   *)
  status,       (* of the process: "ok", or how it ended                   *)
  pending,      (* CUDA: work queued on a stream and not finished          *)
  deviceFree,   (* CUDA: bytes cudaMalloc can still reserve                *)
  held,         (* client: how many times it holds a pointer               *)
  request,      (* client: the size it last asked for and got this block   *)
  tenure        (* history: how many times a block has been handed out     *)

poolVars   == <<allVector, allMap, trackStreams, nbytes, ptr, markedFree,
                events, scan, status>>
clientVars == <<held, request, tenure>>
cudaVars   == <<pending, deviceFree>>
vars       == <<poolVars, clientVars, cudaVars>>

(***************************************************************************)
(* CUDA, as this code uses it.                                             *)
(***************************************************************************)

EventOf(b)  == [kind |-> "event", block |-> b, tenure |-> 0]
KernelOf(b) == [kind |-> "kernel", block |-> b, tenure |-> tenure[b]]
Work == [kind : {"event", "kernel"}, block : Blocks, tenure : Nat]

\* cudaEventQuery(e) = cudaErrorNotReady for the event of b on stream s.
EventPending(b, s) ==
  \E i \in DOMAIN pending[s] : pending[s][i] = EventOf(b)

\* cudaEventRecord of a fresh event of b on every stream of track_streams_,
\* added to b's events in ev, what isFree() left of events_.
RecordEvents(b, ev) ==
  /\ events' = [ev EXCEPT ![b] = @ \cup trackStreams]
  /\ pending' = [s \in Streams |-> IF s \in trackStreams
                                   THEN Append(pending[s], EventOf(b))
                                   ELSE pending[s]]

\* The device finishes the oldest item of a stream.
Complete(s) ==
  /\ pending[s] # <<>>
  /\ pending' = [pending EXCEPT ![s] = Tail(@)]
  /\ UNCHANGED <<poolVars, clientVars, deviceFree>>

(***************************************************************************)
(* The pool.                                                               *)
(***************************************************************************)

InVector == {allVector[i] : i \in DOMAIN allVector}
Unused   == Blocks \ InVector

\* Faulty variants of IsFree: one of its two tests is forgotten.
IsFreeByMark(b)   == markedFree[b]
IsFreeByEvents(b) == \A s \in events[b] : ~EventPending(b, s)

\* isFree(): given back, and every event recorded for it has completed.
IsFree(b) == markedFree[b] /\ \A s \in events[b] : ~EventPending(b, s)

\* clearEvents(), the side effect of an isFree() that returns true.
Cleared(b) == [events EXCEPT ![b] = {}]

\* marked_free_ = false / true, in Allocate / Deallocate, and a faulty variant
\* of both that forgets the assignment.
MarkUnchanged(b) == markedFree
MarkTaken(b)     == [markedFree EXCEPT ![b] = FALSE]
MarkGiven(b)     == [markedFree EXCEPT ![b] = TRUE]

\* The test Allocate applies to the first free block: nbytes_ / n > 2.
\* (faulty variant: a bound one too high)
TooLargeByOne(b, n) == nbytes[b] \div n > 3
TooLarge(b, n) == nbytes[b] \div n > 2

\* Faulty variant: std::upper_bound, which skips the blocks of exactly n bytes.
IsUpperBound(i, n) ==
  /\ \A j \in DOMAIN allVector : j < i => nbytes[allVector[j]] <= n
  /\ i \in DOMAIN allVector => n < nbytes[allVector[i]]

\* std::lower_bound over all_vector_, which Comp orders by nbytes_.
IsLowerBound(i, n) ==
  /\ \A j \in DOMAIN allVector : j < i => nbytes[allVector[j]] < n
  /\ i \in DOMAIN allVector => n <= nbytes[allVector[i]]

\* Faulty variant: always push_back.
PushBack(seq, i, b) == Append(seq, b)

\* std::vector::insert in front of position i (push_back at the end).
InsertAt(seq, i, b) ==
  [j \in 1..Len(seq) + 1 |-> IF j < i THEN seq[j]
                             ELSE IF j = i THEN b ELSE seq[j - 1]]

\* all_map_.insert({p, b}), which leaves an existing entry alone. The faulty
\* variant forgets the insertion.
MapUnchanged(p, b) == allMap
MapWith(p, b) == [allMap EXCEPT ![p] = IF @ = NoBlock THEN b ELSE @]

\* What the caller of Allocate gets: pointer p to block b, asked as n bytes.
HandOut(b, p, n) ==
  /\ held' = [held EXCEPT ![p] = @ + 1]
  /\ request' = [request EXCEPT ![b] = n]
  /\ tenure' = [tenure EXCEPT ![b] = @ + 1]
  /\ scan' = Idle

\* CudaCheck or CHECK ends the process.
Abort(why) ==
  /\ status' = why
  /\ UNCHANGED <<allVector, allMap, trackStreams, nbytes, ptr, markedFree,
                 events, scan, clientVars, cudaVars>>

\* cudaMalloc succeeds. The faulty variant does not look at its result.
Unchecked(n)      == TRUE
CanReserve(n)     == n <= deviceFree

\* b is the new block: constructed, marked taken, its events recorded, entered
\* in both indexes, and handed out.
NewBlock(b, n, i, ev) ==
  LET p == IF n = 0 THEN Null ELSE b IN
    /\ CanReserve(n)
    /\ deviceFree' = deviceFree - n
    /\ nbytes' = [nbytes EXCEPT ![b] = n]
    /\ ptr' = [ptr EXCEPT ![b] = p]
    /\ markedFree' = MarkTaken(b)
    /\ RecordEvents(b, ev)
    /\ allMap' = MapWith(p, b)
    /\ allVector' = InsertAt(allVector, i, b)
    /\ HandOut(b, p, n)
    /\ UNCHANGED <<trackStreams, status>>

\* make_shared<CudaMemoryBlock>(n) at position i, or the exit of CudaCheck.
Grow(n, i, ev) ==
  \/ ~CanReserve(n) /\ Abort("exit_failure")
  \/ \E b \in Unused : NewBlock(b, n, i, ev)

\* The block found free is handed out again.
Reuse(b, n, ev) ==
  /\ markedFree' = MarkTaken(b)
  /\ RecordEvents(b, ev)
  /\ HandOut(b, ptr[b], n)
  /\ UNCHANGED <<allVector, allMap, trackStreams, nbytes, ptr, status,
                 deviceFree>>

HostReady == status = "ok" /\ scan = Idle

\* std::find_if starts at the lower bound i. "free" is history: the blocks
\* that were free when the call began.
BeginScan(n, i) ==
  /\ scan' = [req |-> n, lb |-> i, at |-> i, free |-> {b \in InVector : IsFree(b)}]
  /\ UNCHANGED <<allVector, allMap, trackStreams, nbytes, ptr, markedFree,
                 events, status, clientVars, cudaVars>>

\* Allocate(n) up to std::find_if: no block is large enough, or the search
\* for a free one begins.
Allocate(n) ==
  /\ HostReady
  /\ Unused # {} /\ \A b \in Blocks : tenure[b] < MaxTenure  \* bounds
  /\ \E i \in 1..Len(allVector) + 1 :
       /\ IsLowerBound(i, n)
       /\ IF i > Len(allVector) THEN Grow(n, i, events) ELSE BeginScan(n, i)

Scanning == status = "ok" /\ scan # Idle

\* ++it of find_if, and a faulty variant that starts over.
Restarted(sc) == [sc EXCEPT !.at = sc.lb]
Advanced(sc)  == [sc EXCEPT !.at = @ + 1]

\* isFree() of the block under the cursor said no.
ScanBusy ==
  /\ Scanning /\ scan.at <= Len(allVector)
  /\ ~IsFree(allVector[scan.at])
  /\ scan' = Advanced(scan)
  /\ UNCHANGED <<allVector, allMap, trackStreams, nbytes, ptr, markedFree,
                 events, status, clientVars, cudaVars>>

\* find_if reached the end: a new block goes in front of the lower bound.
ScanExhausted ==
  /\ Scanning /\ scan.at > Len(allVector)
  /\ Grow(scan.req, scan.lb, events)

\* find_if stopped at a free block, whose events isFree() has cleared. It is
\* reused unless it is too large; a request of 0 bytes divides by zero.
ScanFree ==
  /\ Scanning /\ scan.at <= Len(allVector)
  /\ LET b  == allVector[scan.at]
         ev == Cleared(b)
         n  == scan.req
     IN  /\ IsFree(b)
         /\ \/ n = 0 /\ Abort("sigfpe")
            \/ n # 0 /\ TooLarge(b, n) /\ Grow(n, scan.lb, ev)
            \/ /\ n # 0 /\ ~TooLarge(b, n)
               /\ IF markedFree[b] /\ ev[b] = {}
                  THEN Reuse(b, n, ev) ELSE Abort("check_failed")

\* Deallocate(p) of a pointer the client holds.
Deallocate(p) ==
  /\ HostReady
  /\ held[p] > 0
  /\ LET b == allMap[p] IN
       IF b = NoBlock \/ (b # NoBlock /\ markedFree[b])
       THEN Abort("check_failed")
       ELSE /\ markedFree' = MarkGiven(b)
            /\ held' = [held EXCEPT ![p] = @ - 1]
            /\ UNCHANGED <<allVector, allMap, trackStreams, nbytes, ptr, events,
                           scan, status, request, tenure, cudaVars>>

AddTrackStream(s) ==
  /\ HostReady
  /\ trackStreams' = trackStreams \cup {s}
  /\ UNCHANGED <<allVector, allMap, nbytes, ptr, markedFree, events, scan,
                 status, clientVars, cudaVars>>

(***************************************************************************)
(* The client: kernels on the memory it holds, on registered streams only. *)
(***************************************************************************)

Launch(b, s) ==
  /\ HostReady
  /\ held[b] > 0
  /\ s \in trackStreams
  /\ Len(pending[s]) < MaxKernels  \* bound
  /\ pending' = [pending EXCEPT ![s] = Append(@, KernelOf(b))]
  /\ UNCHANGED <<poolVars, clientVars, deviceFree>>

-----------------------------------------------------------------------------

Init ==
  /\ allVector = <<>>
  /\ allMap = [p \in Pointers |-> NoBlock]
  /\ trackStreams = {}
  /\ nbytes = [b \in Blocks |-> 0]
  /\ ptr = [b \in Blocks |-> Null]
  /\ markedFree = [b \in Blocks |-> TRUE]
  /\ events = [b \in Blocks |-> {}]
  /\ scan = Idle
  /\ status = "ok"
  /\ pending = [s \in Streams |-> <<>>]
  /\ deviceFree = DeviceBytes
  /\ held = [p \in Pointers |-> 0]
  /\ request = [b \in Blocks |-> 0]
  /\ tenure = [b \in Blocks |-> 0]

Next ==
  \/ \E n \in Sizes : Allocate(n)
  \/ ScanBusy
  \/ ScanExhausted
  \/ ScanFree
  \/ \E p \in Pointers : Deallocate(p)
  \/ \E s \in Streams : AddTrackStream(s) \/ Complete(s)
  \/ \E b \in Blocks, s \in Streams : Launch(b, s)

Spec == Init /\ [][Next]_vars

(***************************************************************************)
(* The device always gets on with queued work, and a call to Allocate that *)
(* has started keeps running; nothing obliges a client to call anything.   *)
(***************************************************************************)
FairSpec ==
  /\ Spec
  /\ \A s \in Streams : WF_vars(Complete(s))
  /\ WF_vars(ScanBusy \/ ScanExhausted \/ ScanFree)

-----------------------------------------------------------------------------
(***************************************************************************)
(* Properties.                                                             *)
(***************************************************************************)

\* Every variable holds a value of the type its C++ member has.
TypeOK ==
  /\ allVector \in Seq(Blocks)
  /\ allMap \in [Pointers -> Blocks \cup {NoBlock}]
  /\ trackStreams \subseteq Streams
  /\ nbytes \in [Blocks -> Nat]
  /\ ptr \in [Blocks -> Pointers]
  /\ markedFree \in [Blocks -> BOOLEAN]
  /\ events \in [Blocks -> SUBSET Streams]
  /\ \/ scan = Idle
     \/ scan \in [req : Sizes, lb : Nat \ {0}, at : Nat \ {0},
                  free : SUBSET Blocks]
  /\ status \in {"ok", "exit_failure", "check_failed", "sigfpe"}
  /\ pending \in [Streams -> Seq(Work)]
  /\ deviceFree \in 0..DeviceBytes
  /\ held \in [Pointers -> Nat]
  /\ request \in [Blocks -> Nat]
  /\ tenure \in [Blocks -> Nat]

\* The precondition of std::lower_bound: all_vector_ is ordered by nbytes_,
\* after both kinds of insertion.
Sorted ==
  \A i, j \in DOMAIN allVector :
    i <= j => nbytes[allVector[i]] <= nbytes[allVector[j]]

\* all_vector_ and all_map_ list the same blocks, each exactly once, and a
\* block is found under its own address: Deallocate reaches what Allocate
\* handed out.
IndexesAgree ==
  /\ \A i, j \in DOMAIN allVector : allVector[i] = allVector[j] => i = j
  /\ \A b \in Blocks : b \in InVector <=> \E p \in Pointers : allMap[p] = b
  /\ \A p \in Pointers : allMap[p] # NoBlock => ptr[allMap[p]] = p

\* No region is in the hands of two holders, and the pool's marked_free_ is
\* the truth about what the client holds.
ExclusiveHandOut ==
  \A b \in Blocks : held[b] = IF b \in InVector /\ ~markedFree[b] THEN 1 ELSE 0

\* A block in a client's hands is "guaranteed to meet the requested size"
\* (test_allocator.cc:41) and wastes a bounded part of itself. The bound that
\* test_allocator.cc:38 gives is LessThanTwice below, which does not hold; this
\* is the one the integer test nbytes_ / min_nbytes > 2 keeps.
FitsRequest ==
  \A b \in Blocks : held[b] > 0 =>
    request[b] <= nbytes[b] /\ nbytes[b] < 3 * request[b]

\* test_allocator.cc:38-39 "The returned memory block size should be less than
\* twice the requested size." The code does not keep to it: run PoolTwice.
LessThanTwice ==
  \A b \in Blocks : held[b] > 0 => nbytes[b] < 2 * request[b]

\* The CHECKs of Allocate and Deallocate hold for every client that gives
\* back only what it was handed.
ChecksHold == status # "check_failed"

\* What the recorded events do buy: when a block is handed out, all the work of
\* its last holder but one is finished. At most two tenures are in flight.
TwoTenuresInFlight ==
  \A s \in Streams : \A i \in DOMAIN pending[s] :
    LET w == pending[s][i] IN
      w.kind = "kernel" => tenure[w.block] <= w.tenure + 1

\* test_allocator.cc:26-28: registering all the streams that may use the
\* memory is what a client needs to do. Two holders of one block would then
\* never have work in flight on different streams, where nothing orders it.
TenuresDoNotOverlap ==
  \A s, t \in Streams : \A i \in DOMAIN pending[s] : \A j \in DOMAIN pending[t] :
    LET v == pending[s][i]
        w == pending[t][j]
    IN  (s # t /\ v.kind = "kernel" /\ w.kind = "kernel" /\ v.block = w.block)
          => v.tenure = w.tenure

\* The test a block has to pass to serve a request of n bytes.
Fits(b, n) == n <= nbytes[b] /\ ~TooLarge(b, n)
FreeAtCall == IF scan = Idle THEN {b \in InVector : IsFree(b)} ELSE scan.free

\* test_allocator.cc:32-34: a new block is reserved only when the pool had no
\* block that meets the requirements; the device finishing work while the
\* call scans cannot change that.
GrowOnlyWhenNoneFits ==
  [][\A b \in InVector' \ InVector : \A c \in FreeAtCall :
        ~Fits(c, nbytes'[b])]_vars

\* A block that is reused is the smallest of the blocks that were free when
\* the call began and are large enough: a free block is never stranded by a
\* larger one being cut into first.
ReuseIsTightest ==
  [][\A b \in InVector : (held'[b] > held[b]) =>
        \A c \in FreeAtCall :
          request'[b] <= nbytes[c] => nbytes[b] <= nbytes[c]]_vars

\* What a client gives back can be handed out again: once deallocated, a
\* block becomes free or is already in use again.
GivenBackBecomesFree ==
  \A b \in Blocks :
    (b \in InVector /\ held[b] = 0 /\ status = "ok")
      ~> (IsFree(b) \/ held[b] > 0 \/ status # "ok")

\* Allocate returns, or ends the process.
AllocateReturns == (scan # Idle) ~> (scan = Idle \/ status # "ok")

-----------------------------------------------------------------------------
(***************************************************************************)
(* The inductive invariant behind the safety properties.                   *)
(***************************************************************************)

\* While Allocate scans, the lower bound it computed stays one.
ScanInv ==
  scan # Idle =>
    /\ scan.lb \in DOMAIN allVector
    /\ scan.lb <= scan.at
    /\ IsLowerBound(scan.lb, scan.req)

\* While Allocate scans, the blocks that were free when it began stay free, and
\* the cursor has passed none of them.
FreeInv ==
  scan # Idle =>
    /\ scan.free \subseteq InVector
    /\ \A b \in scan.free : IsFree(b)
    /\ \A i \in DOMAIN allVector :
         scan.lb <= i /\ i < scan.at => allVector[i] \notin scan.free

\* A client only holds addresses of the pool's blocks, and all_map_ leads to
\* no other block.
HolderInv ==
  /\ \A b \in Blocks : held[b] > 0 => b \in InVector
  /\ \A b \in Blocks : ptr[b] \in {b, Null}
  /\ \A p \in Pointers : allMap[p] # NoBlock => allMap[p] \in InVector

\* An event in a queue is one its block waits for. A kernel is of the current
\* tenure of its block, or of the last one and in front of an event of it.
QueueItem(s, i) ==
  LET w == pending[s][i] IN
    /\ w.block \in InVector
    /\ w.kind = "event" => w = EventOf(w.block) /\ s \in events[w.block]
    /\ w.kind = "kernel" =>
         /\ s \in trackStreams
         /\ \/ w.tenure = tenure[w.block]
            \/ /\ w.tenure + 1 = tenure[w.block]
               /\ \E j \in DOMAIN pending[s] :
                    i < j /\ pending[s][j] = EventOf(w.block)

QueueInv == \A s \in Streams : \A i \in DOMAIN pending[s] : QueueItem(s, i)

IInv == TypeOK /\ Sorted /\ ScanInv /\ FreeInv /\ HolderInv /\ QueueInv /\ FitsRequest

\* With requests of at least one byte, addresses, map entries and blocks
\* correspond one to one.
AddressInv ==
  /\ allMap[Null] = NoBlock /\ held[Null] = 0
  /\ \A b \in InVector : ptr[b] = b /\ allMap[b] = b
  /\ \A b \in Blocks \ InVector : allMap[b] = NoBlock
  /\ \A i, j \in DOMAIN allVector : allVector[i] = allVector[j] => i = j

PositiveInv == AddressInv /\ ExclusiveHandOut /\ ChecksHold
=============================================================================
