------------------------ MODULE CudaMemoryPoolProofs ------------------------
(***************************************************************************)
(* Proofs about CudaMemoryPool, for every number of blocks and streams,    *)
(* every set of request sizes and every amount of device memory.           *)
(***************************************************************************)
EXTENDS PoolRefinement, SequenceTheorems, TLAPS

(***************************************************************************)
(* Sequences.                                                              *)
(***************************************************************************)

\* What std::vector::insert does to a vector, as InsertAt states it.
LEMMA InsertAtProperties ==
  ASSUME NEW S, NEW seq \in Seq(S), NEW i \in 1..Len(seq) + 1, NEW b \in S
  PROVE  /\ InsertAt(seq, i, b) \in Seq(S)
         /\ Len(InsertAt(seq, i, b)) = Len(seq) + 1
         /\ \A j \in 1..Len(seq) + 1 :
              InsertAt(seq, i, b)[j] = IF j < i THEN seq[j]
                                       ELSE IF j = i THEN b ELSE seq[j - 1]
<1> DEFINE r == InsertAt(seq, i, b)
           n == Len(seq) + 1
<1>1. n \in Nat
  BY LenProperties
<1>2. \A j \in 1..n : (IF j < i THEN seq[j] ELSE IF j = i THEN b ELSE seq[j - 1]) \in S
  BY ElementOfSeq, LenProperties
<1>3. r \in [1..n -> S]
  BY <1>2 DEF InsertAt
<1>4. r \in Seq(S)
  BY <1>1, <1>3, SeqDef
<1>5. Len(r) = n
  BY <1>1, <1>3, <1>4, LenProperties
<1>6. QED
  BY <1>3, <1>4, <1>5 DEF InsertAt

Occurs(x, seq) == \E j \in DOMAIN seq : seq[j] = x

\* Its elements are the old ones and the new one.
LEMMA InsertAtRange ==
  ASSUME NEW S, NEW seq \in Seq(S), NEW i \in 1..Len(seq) + 1, NEW b \in S
  PROVE  \A x : Occurs(x, InsertAt(seq, i, b)) <=> (x = b \/ Occurs(x, seq))
<1> DEFINE r == InsertAt(seq, i, b)
<1>1. /\ DOMAIN r = 1..Len(seq) + 1
      /\ DOMAIN seq = 1..Len(seq)
      /\ Len(seq) \in Nat
      /\ \A j \in 1..Len(seq) + 1 :
           r[j] = IF j < i THEN seq[j] ELSE IF j = i THEN b ELSE seq[j - 1]
  <2>1. /\ r \in Seq(S) /\ Len(r) = Len(seq) + 1
        /\ \A j \in 1..Len(seq) + 1 :
             r[j] = IF j < i THEN seq[j] ELSE IF j = i THEN b ELSE seq[j - 1]
    <3>1. r \in Seq(S)
      BY InsertAtProperties
    <3>2. Len(r) = Len(seq) + 1
      BY InsertAtProperties
    <3>3. ASSUME NEW j \in 1..Len(seq) + 1
          PROVE  r[j] = IF j < i THEN seq[j] ELSE IF j = i THEN b ELSE seq[j - 1]
      BY DEF InsertAt
    <3>4. QED
      BY <3>1, <3>2, <3>3
  <2> HIDE DEF r
  <2>2. /\ DOMAIN r = 1..Len(r)
        /\ DOMAIN seq = 1..Len(seq)
        /\ Len(seq) \in Nat
    BY <2>1, LenProperties
  <2>3. QED
    BY <2>1, <2>2
<1>2. ASSUME NEW j \in DOMAIN r, r[j] # b
      PROVE  \E k \in DOMAIN seq : seq[k] = r[j]
  <2>1. CASE j < i
    BY <1>1, <2>1
  <2>2. CASE j > i
    <3>1. j - 1 \in DOMAIN seq /\ r[j] = seq[j - 1]
      BY <1>1, <2>2
    <3>2. QED
      BY <3>1
  <2>3. QED
    BY <1>1, <1>2, <2>1, <2>2
<1>3. ASSUME NEW k \in DOMAIN seq
      PROVE  \E j \in DOMAIN r : r[j] = seq[k]
  <2>1. CASE k < i
    BY <1>1, <2>1
  <2>2. CASE k >= i
    <3>1. k + 1 \in DOMAIN r /\ r[k + 1] = seq[k]
      BY <1>1, <2>2
    <3>2. QED
      BY <3>1
  <2>3. QED
    BY <1>1, <2>1, <2>2
<1>4. i \in DOMAIN r /\ r[i] = b
  BY <1>1
<1> HIDE DEF r
<1>5. \A x : Occurs(x, r) <=> (x = b \/ Occurs(x, seq))
  BY <1>2, <1>3, <1>4 DEF Occurs
<1>6. QED
  BY <1>5 DEF r

(***************************************************************************)
(* The steps of the pool.                                                  *)
(***************************************************************************)

\* events_ of all blocks, as a call of isFree may have left them.
SomeEvents == {events} \cup {Cleared(c) : c \in {b \in InVector : IsFree(b)}}

\* A step that only ends the process.
Aborted == \E why \in {"exit_failure", "check_failed", "sigfpe"} : Abort(why)

\* What a step of the pool can be, Allocate's branches told apart.
NextCases ==
  \/ \E b \in Unused, n \in Sizes, i \in 1..Len(allVector) + 1, ev \in SomeEvents :
       IsLowerBound(i, n) /\ NewBlock(b, n, i, ev)
  \/ \E k \in DOMAIN allVector, n \in Sizes :
       LET b == allVector[k] IN
       /\ IsFree(b) /\ n # 0 /\ n <= nbytes[b] /\ ~TooLarge(b, n)
       /\ Reuse(b, n, Cleared(b))
  \/ \E n \in Sizes, i \in DOMAIN allVector : IsLowerBound(i, n) /\ BeginScan(n, i)
  \/ ScanBusy
  \/ \E p \in Pointers : Deallocate(p)
  \/ \E s \in Streams : AddTrackStream(s)
  \/ \E s \in Streams : Complete(s)
  \/ \E b \in Blocks, s \in Streams : Launch(b, s)
  \/ Aborted
  \/ UNCHANGED vars

\* The blocks from a lower bound on are large enough, all_vector_ being sorted.
LEMMA LowerBoundFits ==
  ASSUME TypeOK, Sorted, NEW i \in DOMAIN allVector, NEW n \in Nat,
         IsLowerBound(i, n), NEW k \in DOMAIN allVector, i <= k
  PROVE  n <= nbytes[allVector[k]]
<1>1. n <= nbytes[allVector[i]] /\ nbytes[allVector[i]] <= nbytes[allVector[k]]
  BY DEF IsLowerBound, Sorted
<1>2. allVector[i] \in Blocks /\ allVector[k] \in Blocks
  BY ElementOfSeq, LenProperties DEF TypeOK
<1>3. QED
  BY <1>1, <1>2 DEF TypeOK

LEMMA StepCases ==
  ASSUME TypeOK, Sorted, ScanInv, [Next]_vars
  PROVE  NextCases
<1> USE SizesAssumption
<1>0. DOMAIN allVector = 1..Len(allVector) /\ Len(allVector) \in Nat
  BY LenProperties DEF TypeOK
<1>1. ASSUME NEW n \in Sizes, Allocate(n)
      PROVE  NextCases
  <2>1. PICK i \in 1..Len(allVector) + 1 :
          /\ IsLowerBound(i, n)
          /\ IF i > Len(allVector) THEN Grow(n, i, events) ELSE BeginScan(n, i)
    BY <1>1 DEF Allocate
  <2>2. CASE i > Len(allVector)
    <3>1. CASE Abort("exit_failure")
      BY <3>1 DEF NextCases, Aborted
    <3>2. CASE \E b \in Unused : NewBlock(b, n, i, events)
      BY <2>1, <3>2 DEF NextCases, SomeEvents
    <3>3. QED
      BY <2>1, <2>2, <3>1, <3>2 DEF Grow
  <2>3. CASE i \in DOMAIN allVector
    BY <1>0, <2>1, <2>3 DEF NextCases
  <2>4. QED
    BY <1>0, <2>2, <2>3
<1>2. ASSUME Scanning
      PROVE  /\ scan.req \in Sizes /\ scan.req \in Nat /\ scan.at \in Nat
             /\ scan.lb \in DOMAIN allVector
             /\ scan.lb \in 1..Len(allVector) + 1
             /\ scan.lb <= scan.at
             /\ IsLowerBound(scan.lb, scan.req)
  <2>1. scan # Idle
    BY <1>2 DEF Scanning
  <2>2. scan \in [req : Sizes, lb : Nat \ {0}, at : Nat \ {0}, free : SUBSET Blocks]
    BY <2>1 DEF TypeOK
  <2>3. scan.req \in Sizes /\ scan.at \in Nat
    BY <2>2
  <2>4. /\ scan.lb \in DOMAIN allVector
        /\ scan.lb <= scan.at
        /\ IsLowerBound(scan.lb, scan.req)
    BY <2>1, Zenon DEF ScanInv
  <2>5. scan.lb \in 1..Len(allVector) + 1
    BY <1>0, <2>4
  <2>6. QED
    BY <2>3, <2>4, <2>5
<1>3. ASSUME ScanExhausted
      PROVE  NextCases
  <2>1. Scanning /\ Grow(scan.req, scan.lb, events)
    BY <1>3 DEF ScanExhausted
  <2>2. CASE Abort("exit_failure")
    BY <2>2 DEF NextCases, Aborted
  <2>3. CASE \E b \in Unused : NewBlock(b, scan.req, scan.lb, events)
    BY <1>2, <2>1, <2>3 DEF NextCases, SomeEvents
  <2>4. QED
    BY <2>1, <2>2, <2>3 DEF Grow
<1>4. ASSUME ScanFree
      PROVE  NextCases
  <2> DEFINE b == allVector[scan.at]
  <2>1. /\ Scanning /\ scan.at \in DOMAIN allVector
        /\ IsFree(b)
    BY <1>0, <1>2, <1>4 DEF ScanFree
  <2>2. b \in InVector
    BY <2>1 DEF InVector
  <2>3. scan.req <= nbytes[b]
    BY <1>2, <2>1, LowerBoundFits
  <2>4. CASE Aborted
    BY <2>4 DEF NextCases
  <2>5. CASE \E c \in Unused : NewBlock(c, scan.req, scan.lb, Cleared(b))
    <3>1. Cleared(b) \in SomeEvents
      BY <2>1, <2>2 DEF SomeEvents
    <3>2. QED
      BY <1>2, <2>1, <2>5, <3>1 DEF NextCases
  <2>6. CASE scan.req # 0 /\ ~TooLarge(b, scan.req) /\ Reuse(b, scan.req, Cleared(b))
    BY <1>2, <2>1, <2>3, <2>6 DEF NextCases
  <2>7. \/ Abort("sigfpe")
        \/ Grow(scan.req, scan.lb, Cleared(b))
        \/ scan.req # 0 /\ ~TooLarge(b, scan.req)
             /\ (Reuse(b, scan.req, Cleared(b)) \/ Abort("check_failed"))
    BY <1>4 DEF ScanFree
  <2>8. QED
    BY <2>4, <2>5, <2>6, <2>7 DEF Grow, Aborted
<1>5. QED
  BY <1>1, <1>3, <1>4 DEF Next, NextCases

\* The vector after a new block has gone in front of position i.
LEMMA NewBlockVector ==
  ASSUME TypeOK, NEW b \in Unused, NEW n \in Sizes,
         NEW i \in 1..Len(allVector) + 1, NEW ev, NewBlock(b, n, i, ev)
  PROVE  /\ allVector' \in Seq(Blocks)
         /\ Len(allVector') = Len(allVector) + 1
         /\ DOMAIN allVector' = 1..Len(allVector) + 1
         /\ \A j \in 1..Len(allVector) + 1 :
              allVector'[j] = IF j < i THEN allVector[j]
                              ELSE IF j = i THEN b ELSE allVector[j - 1]
         /\ InVector' = InVector \cup {b}
         /\ b \in Blocks /\ b \notin InVector
<1>1. /\ allVector \in Seq(Blocks) /\ b \in Blocks /\ b \notin InVector
      /\ allVector' = InsertAt(allVector, i, b)
  BY DEF TypeOK, Unused, NewBlock
<1>2. /\ allVector' \in Seq(Blocks)
      /\ Len(allVector') = Len(allVector) + 1
      /\ \A j \in 1..Len(allVector) + 1 :
           allVector'[j] = IF j < i THEN allVector[j]
                           ELSE IF j = i THEN b ELSE allVector[j - 1]
  <2> DEFINE r == InsertAt(allVector, i, b)
  <2>1. /\ r \in Seq(Blocks)
        /\ Len(r) = Len(allVector) + 1
        /\ \A j \in 1..Len(allVector) + 1 :
             r[j] = IF j < i THEN allVector[j]
                    ELSE IF j = i THEN b ELSE allVector[j - 1]
    <3>1. r \in Seq(Blocks)
      BY <1>1, InsertAtProperties
    <3>2. Len(r) = Len(allVector) + 1
      BY <1>1, InsertAtProperties
    <3>3. ASSUME NEW j \in 1..Len(allVector) + 1
          PROVE  r[j] = IF j < i THEN allVector[j] ELSE IF j = i THEN b ELSE allVector[j - 1]
      BY DEF InsertAt
    <3>4. QED
      BY <3>1, <3>2, <3>3
  <2>2. allVector' = r
    BY <1>1
  <2> HIDE DEF r
  <2>3. QED
    BY <2>1, <2>2
<1>3. DOMAIN allVector' = 1..Len(allVector) + 1
  BY <1>2, LenProperties
<1>4. InVector' = InVector \cup {b}
  <2> DEFINE r == InsertAt(allVector, i, b)
  <2>1. \A x : Occurs(x, r) <=> (x = b \/ Occurs(x, allVector))
    BY <1>1, InsertAtRange
  <2>2. \A x : x \in InVector' <=> Occurs(x, r)
    BY <1>1 DEF InVector, Occurs
  <2>3. \A x : x \in InVector <=> Occurs(x, allVector)
    BY DEF InVector, Occurs
  <2>4. QED
    BY <2>1, <2>2, <2>3
<1>5. QED
  BY <1>1, <1>2, <1>3, <1>4

\* The queues after the events of b have been recorded: one more item, at the
\* end, on the registered streams.
LEMMA RecordedQueues ==
  ASSUME TypeOK, NEW b \in Blocks, NEW ev, RecordEvents(b, ev), NEW s \in Streams
  PROVE  /\ pending'[s] \in Seq(Work)
         /\ DOMAIN pending[s] \subseteq DOMAIN pending'[s]
         /\ \A k \in DOMAIN pending[s] : pending'[s][k] = pending[s][k]
         /\ \A k \in DOMAIN pending'[s] :
              k \in DOMAIN pending[s] \/ (pending'[s][k] = EventOf(b) /\ s \in trackStreams)
         /\ s \in trackStreams => \E e \in DOMAIN pending'[s] :
              /\ pending'[s][e] = EventOf(b)
              /\ \A k \in DOMAIN pending[s] : k < e
<1>1. pending[s] \in Seq(Work) /\ EventOf(b) \in Work
  BY DEF TypeOK, Work, EventOf
<1>2. pending'[s] = IF s \in trackStreams THEN Append(pending[s], EventOf(b))
                    ELSE pending[s]
  BY DEF RecordEvents
<1>3. CASE s \in trackStreams
  <2>1. /\ pending'[s] \in Seq(Work)
        /\ Len(pending'[s]) = Len(pending[s]) + 1
        /\ \A k \in 1..Len(pending[s]) : pending'[s][k] = pending[s][k]
        /\ pending'[s][Len(pending[s]) + 1] = EventOf(b)
    BY <1>1, <1>2, <1>3, AppendProperties
  <2>2. /\ DOMAIN pending[s] = 1..Len(pending[s]) /\ Len(pending[s]) \in Nat
        /\ DOMAIN pending'[s] = 1..Len(pending[s]) + 1
    BY <1>1, <2>1, LenProperties
  <2>3. QED
    BY <1>3, <2>1, <2>2
<1>4. CASE s \notin trackStreams
  BY <1>1, <1>2, <1>4
<1>5. QED
  BY <1>3, <1>4

\* What handing a block out leaves of the types.
LEMMA HandOutType ==
  ASSUME TypeOK, NEW b \in Blocks, NEW p \in Pointers, NEW n \in Nat, HandOut(b, p, n)
  PROVE  /\ held' \in [Pointers -> Nat] /\ request' \in [Blocks -> Nat]
         /\ tenure' \in [Blocks -> Nat] /\ scan' = Idle
BY DEF TypeOK, HandOut

LEMMA RecordEventsType ==
  ASSUME TypeOK, NEW b \in Blocks, NEW ev \in [Blocks -> SUBSET Streams],
         RecordEvents(b, ev)
  PROVE  events' \in [Blocks -> SUBSET Streams] /\ pending' \in [Streams -> Seq(Work)]
<1>1. events' \in [Blocks -> SUBSET Streams]
  BY DEF TypeOK, RecordEvents
<1>2. \A s \in Streams : pending'[s] \in Seq(Work)
  BY RecordedQueues
<1>3. QED
  BY <1>1, <1>2 DEF RecordEvents

LEMMA SomeEventsType ==
  ASSUME TypeOK
  PROVE  SomeEvents \subseteq [Blocks -> SUBSET Streams]
<1>1. events \in [Blocks -> SUBSET Streams]
  BY DEF TypeOK
<1>2. \A c \in Blocks : Cleared(c) \in [Blocks -> SUBSET Streams]
  BY <1>1 DEF Cleared
<1>3. InVector \subseteq Blocks
  BY ElementOfSeq, LenProperties DEF TypeOK, InVector
<1>4. QED
  BY <1>1, <1>2, <1>3 DEF SomeEvents

(***************************************************************************)
(* Type correctness.                                                       *)
(***************************************************************************)

LEMMA TypeStep ==
  ASSUME TypeOK, NextCases
  PROVE  TypeOK'
<1> USE SizesAssumption, BoundsAssumption
<1>1. ASSUME NEW b \in Unused, NEW n \in Sizes, NEW i \in 1..Len(allVector) + 1,
             NEW ev \in SomeEvents, NewBlock(b, n, i, ev)
      PROVE  TypeOK'
  <2>1. b \in Blocks /\ allVector' \in Seq(Blocks)
    BY <1>1, NewBlockVector
  <2>2. events' \in [Blocks -> SUBSET Streams] /\ pending' \in [Streams -> Seq(Work)]
    BY <1>1, <2>1, SomeEventsType, RecordEventsType DEF NewBlock
  <2>3. /\ held' \in [Pointers -> Nat] /\ request' \in [Blocks -> Nat]
        /\ tenure' \in [Blocks -> Nat] /\ scan' = Idle
    <3>1. HandOut(b, IF n = 0 THEN Null ELSE b, n)
      BY <1>1 DEF NewBlock
    <3>2. (IF n = 0 THEN Null ELSE b) \in Pointers /\ n \in Nat
      BY <2>1 DEF Pointers
    <3>3. QED
      BY <2>1, <3>1, <3>2, HandOutType
  <2>4. /\ allMap' \in [Pointers -> Blocks \cup {NoBlock}]
        /\ nbytes' \in [Blocks -> Nat] /\ ptr' \in [Blocks -> Pointers]
        /\ markedFree' \in [Blocks -> BOOLEAN]
    BY <1>1, <2>1 DEF NewBlock, MapWith, MarkTaken, TypeOK, Pointers
  <2>5. deviceFree' \in 0..DeviceBytes
    BY <1>1 DEF NewBlock, CanReserve, TypeOK
  <2>6. trackStreams' = trackStreams /\ status' = status
    BY <1>1 DEF NewBlock
  <2>7. QED
    BY <2>1, <2>2, <2>3, <2>4, <2>5, <2>6 DEF TypeOK
<1>2. ASSUME NEW k \in DOMAIN allVector, NEW n \in Sizes,
             Reuse(allVector[k], n, Cleared(allVector[k]))
      PROVE  TypeOK'
  <2> DEFINE b == allVector[k]
  <2>1. b \in Blocks
    BY ElementOfSeq, LenProperties DEF TypeOK
  <2>2. Cleared(b) \in [Blocks -> SUBSET Streams]
    BY DEF Cleared, TypeOK
  <2>3. events' \in [Blocks -> SUBSET Streams] /\ pending' \in [Streams -> Seq(Work)]
    BY <1>2, <2>1, <2>2, RecordEventsType DEF Reuse
  <2>4. /\ held' \in [Pointers -> Nat] /\ request' \in [Blocks -> Nat]
        /\ tenure' \in [Blocks -> Nat] /\ scan' = Idle
    BY <1>2, <2>1, HandOutType DEF Reuse, TypeOK
  <2>5. markedFree' \in [Blocks -> BOOLEAN]
    BY <1>2, <2>1 DEF Reuse, MarkTaken, TypeOK
  <2>6. UNCHANGED <<allVector, allMap, trackStreams, nbytes, ptr, status, deviceFree>>
    BY <1>2 DEF Reuse
  <2>7. QED
    BY <2>3, <2>4, <2>5, <2>6 DEF TypeOK
<1>3. ASSUME NEW n \in Sizes, NEW i \in DOMAIN allVector, BeginScan(n, i)
      PROVE  TypeOK'
  <2>1. i \in Nat \ {0} /\ {b \in InVector : IsFree(b)} \subseteq Blocks
    <3>1. allVector \in Seq(Blocks)
      BY DEF TypeOK
    <3>2. DOMAIN allVector = 1..Len(allVector) /\ Len(allVector) \in Nat
      BY <3>1, LenProperties
    <3>3. \A j \in DOMAIN allVector : allVector[j] \in Blocks
      BY <3>1, <3>2, ElementOfSeq
    <3>4. QED
      BY <3>2, <3>3 DEF InVector
  <2>2. scan' \in [req : Sizes, lb : Nat \ {0}, at : Nat \ {0}, free : SUBSET Blocks]
    BY <1>3, <2>1 DEF BeginScan
  <2>3. QED
    BY <1>3, <2>2 DEF TypeOK, BeginScan, clientVars, cudaVars
<1>4. ASSUME ScanBusy
      PROVE  TypeOK'
  <2>1. scan \in [req : Sizes, lb : Nat \ {0}, at : Nat \ {0}, free : SUBSET Blocks]
    BY <1>4 DEF ScanBusy, Scanning, TypeOK
  <2>2. scan' \in [req : Sizes, lb : Nat \ {0}, at : Nat \ {0}, free : SUBSET Blocks]
    <3>1. scan.at + 1 \in Nat \ {0}
      BY <2>1
    <3>2. scan' = [scan EXCEPT !.at = scan.at + 1]
      BY <1>4 DEF ScanBusy, Advanced
    <3>3. QED
      BY <2>1, <3>1, <3>2
  <2>3. QED
    BY <1>4, <2>2 DEF TypeOK, ScanBusy, clientVars, cudaVars
<1>5. ASSUME NEW p \in Pointers, Deallocate(p)
      PROVE  TypeOK'
  <2>1. CASE Abort("check_failed")
    BY <2>1 DEF Abort, TypeOK, clientVars, cudaVars
  <2>2. CASE /\ allMap[p] # NoBlock
             /\ markedFree' = MarkGiven(allMap[p])
             /\ held' = [held EXCEPT ![p] = @ - 1]
             /\ UNCHANGED <<allVector, allMap, trackStreams, nbytes, ptr, events,
                            scan, status, request, tenure, cudaVars>>
    <3>1. held[p] > 0 /\ held[p] \in Nat
      BY <1>5 DEF Deallocate, TypeOK
    <3>2. held' \in [Pointers -> Nat] /\ markedFree' \in [Blocks -> BOOLEAN]
      BY <2>2, <3>1 DEF TypeOK, MarkGiven
    <3>3. QED
      BY <2>2, <3>2 DEF TypeOK, cudaVars
  <2>3. QED
    BY <1>5, <2>1, <2>2 DEF Deallocate
<1>6. ASSUME NEW s \in Streams, AddTrackStream(s)
      PROVE  TypeOK'
  BY <1>6 DEF AddTrackStream, TypeOK, clientVars, cudaVars
<1>7. ASSUME NEW s \in Streams, Complete(s)
      PROVE  TypeOK'
  <2>1. Tail(pending[s]) \in Seq(Work)
    BY <1>7, HeadTailProperties DEF Complete, TypeOK
  <2>2. pending' \in [Streams -> Seq(Work)]
    BY <1>7, <2>1 DEF Complete, TypeOK
  <2>3. QED
    BY <1>7, <2>2 DEF TypeOK, Complete, clientVars, poolVars
<1>8. ASSUME NEW b \in Blocks, NEW s \in Streams, Launch(b, s)
      PROVE  TypeOK'
  <2>1. KernelOf(b) \in Work
    BY DEF KernelOf, Work, TypeOK
  <2>2. pending' \in [Streams -> Seq(Work)]
    BY <1>8, <2>1, AppendProperties DEF Launch, TypeOK
  <2>3. QED
    BY <1>8, <2>2 DEF TypeOK, Launch, clientVars, poolVars
<1>9. ASSUME Aborted
      PROVE  TypeOK'
  BY <1>9 DEF Aborted, Abort, TypeOK, clientVars, cudaVars
<1>10. ASSUME UNCHANGED vars
       PROVE  TypeOK'
  BY <1>10 DEF vars, poolVars, clientVars, cudaVars, TypeOK
<1>11. QED
  BY <1>1, <1>2, <1>3, <1>4, <1>5, <1>6, <1>7, <1>8, <1>9, <1>10 DEF NextCases

(***************************************************************************)
(* The order of all_vector_ and the lower bound.                           *)
(***************************************************************************)

\* Only a new block changes the vector and the sizes the comparison reads.
LEMMA VectorUnchanged ==
  ASSUME TypeOK, NextCases,
         ~\E b \in Unused, n \in Sizes, i \in 1..Len(allVector) + 1, ev \in SomeEvents :
            IsLowerBound(i, n) /\ NewBlock(b, n, i, ev)
  PROVE  UNCHANGED <<allVector, nbytes, ptr>>
BY DEF NextCases, Reuse, BeginScan, ScanBusy, Deallocate, AddTrackStream, Complete,
       Launch, Aborted, Abort, vars, poolVars

LEMMA SortedStep ==
  ASSUME TypeOK, Sorted, NextCases
  PROVE  Sorted'
<1>1. ASSUME NEW b \in Unused, NEW n \in Sizes, NEW i \in 1..Len(allVector) + 1,
             NEW ev \in SomeEvents, IsLowerBound(i, n), NewBlock(b, n, i, ev)
      PROVE  Sorted'
  <2> DEFINE N == Len(allVector)
  <2>1. /\ DOMAIN allVector = 1..N /\ N \in Nat
        /\ DOMAIN allVector' = 1..N + 1
        /\ \A j \in 1..N + 1 :
             allVector'[j] = IF j < i THEN allVector[j]
                             ELSE IF j = i THEN b ELSE allVector[j - 1]
        /\ b \in Blocks /\ b \notin InVector
    BY <1>1, NewBlockVector, LenProperties DEF TypeOK
  <2>2. nbytes' = [nbytes EXCEPT ![b] = n] /\ nbytes \in [Blocks -> Nat] /\ n \in Nat
    BY <1>1, SizesAssumption DEF NewBlock, TypeOK
  <2>3. \A j \in 1..N : allVector[j] \in Blocks /\ allVector[j] # b
    BY <2>1, ElementOfSeq DEF TypeOK, InVector
  <2>4. \A j \in 1..N : nbytes'[allVector[j]] = nbytes[allVector[j]]
                        /\ nbytes[allVector[j]] \in Nat
    BY <2>2, <2>3
  <2>5. nbytes'[b] = n
    BY <2>1, <2>2
  <2> DEFINE key(j) == nbytes'[allVector'[j]]
  <2>6. ASSUME NEW j \in 1..N + 1
        PROVE  /\ j < i => j \in 1..N /\ key(j) = nbytes[allVector[j]]
               /\ j = i => key(j) = n
               /\ j > i => j - 1 \in 1..N /\ key(j) = nbytes[allVector[j - 1]]
    <3>1. CASE j < i
      <4>1. j \in 1..N /\ allVector'[j] = allVector[j]
        BY <2>1, <3>1
      <4>2. QED
        BY <2>4, <3>1, <4>1
    <3>2. CASE j = i
      BY <2>1, <2>5, <3>2
    <3>3. CASE j > i
      <4>1. j - 1 \in 1..N /\ allVector'[j] = allVector[j - 1]
        BY <2>1, <3>3
      <4>2. QED
        BY <2>4, <3>3, <4>1
    <3>4. QED
      BY <3>1, <3>2, <3>3
  <2>7. ASSUME NEW j \in 1..N
        PROVE  /\ j < i => nbytes[allVector[j]] < n
               /\ j >= i => n <= nbytes[allVector[j]]
    <3>1. CASE j < i
      BY <1>1, <2>1, <3>1 DEF IsLowerBound
    <3>2. CASE j >= i
      <4>1. i \in DOMAIN allVector
        BY <2>1, <3>2
      <4>2. QED
        BY <1>1, <2>1, <2>2, <3>2, <4>1, LowerBoundFits
    <3>3. QED
      BY <3>1, <3>2
  <2>8. \A j, k \in 1..N : j <= k => nbytes[allVector[j]] <= nbytes[allVector[k]]
    BY <2>1 DEF Sorted
  <2>9. ASSUME NEW j \in 1..N + 1, NEW k \in 1..N + 1, j <= k
        PROVE  key(j) <= key(k)
    <3> HIDE DEF key
    <3>0. /\ j < i => j \in 1..N /\ key(j) = nbytes[allVector[j]]
          /\ j > i => j - 1 \in 1..N /\ key(j) = nbytes[allVector[j - 1]]
          /\ k < i => k \in 1..N /\ key(k) = nbytes[allVector[k]]
          /\ k > i => k - 1 \in 1..N /\ key(k) = nbytes[allVector[k - 1]]
      BY <2>6, <2>9
    <3>1. CASE j < i /\ k < i
      BY <3>0, <2>8, <2>9, <3>1
    <3>2. CASE j < i /\ k = i
      BY <2>2, <2>4, <2>6, <2>7, <3>2
    <3>3. CASE j < i /\ k > i
      <4>1. j \in 1..N /\ k - 1 \in 1..N /\ j <= k - 1
        BY <2>1, <2>9, <3>0, <3>3
      <4>2. QED
        BY <2>8, <3>0, <3>3, <4>1
    <3>4. CASE j = i /\ k = i
      BY <2>2, <2>6, <3>4
    <3>5. CASE j = i /\ k > i
      BY <2>6, <2>7, <3>5
    <3>6. CASE j > i /\ k > i
      <4>1. j - 1 \in 1..N /\ k - 1 \in 1..N /\ j - 1 <= k - 1
        BY <2>1, <2>9, <3>0, <3>6
      <4>2. QED
        BY <2>8, <3>0, <3>6, <4>1
    <3>7. QED
      BY <2>9, <3>1, <3>2, <3>3, <3>4, <3>5, <3>6
  <2>10. QED
    BY <2>1, <2>9 DEF Sorted
<1>2. CASE UNCHANGED <<allVector, nbytes, ptr>>
  BY <1>2 DEF Sorted
<1>3. QED
  BY <1>1, <1>2, VectorUnchanged

LEMMA ScanStep ==
  ASSUME TypeOK, ScanInv, NextCases
  PROVE  ScanInv'
<1>1. CASE scan' = Idle
  BY <1>1 DEF ScanInv
<1>2. ASSUME NEW n \in Sizes, NEW i \in DOMAIN allVector, IsLowerBound(i, n),
             BeginScan(n, i)
      PROVE  ScanInv'
  <2>1. /\ scan'.lb = i /\ scan'.at = i /\ scan'.req = n
        /\ allVector' = allVector /\ nbytes' = nbytes
    BY <1>2 DEF BeginScan
  <2>2. i \in Nat
    BY LenProperties DEF TypeOK
  <2>3. IsLowerBound(scan.lb, scan.req)'
    BY <1>2, <2>1 DEF IsLowerBound
  <2>4. QED
    BY <2>1, <2>2, <2>3 DEF ScanInv
<1>3. CASE ScanBusy
  <2>1. scan \in [req : Sizes, lb : Nat \ {0}, at : Nat \ {0}, free : SUBSET Blocks]
    BY <1>3 DEF ScanBusy, Scanning, TypeOK
  <2>2. /\ scan'.lb = scan.lb /\ scan'.at = scan.at + 1 /\ scan'.req = scan.req
        /\ allVector' = allVector /\ nbytes' = nbytes /\ scan # Idle
    BY <1>3, <2>1 DEF ScanBusy, Scanning, Advanced
  <2>3. /\ scan.lb \in DOMAIN allVector /\ scan.lb <= scan.at
        /\ IsLowerBound(scan.lb, scan.req)
    BY <2>2, Zenon DEF ScanInv
  <2>4. IsLowerBound(scan.lb, scan.req)'
    BY <2>2, <2>3 DEF IsLowerBound
  <2>5. scan.lb <= scan.at + 1
    BY <2>1, <2>3
  <2>6. QED
    BY <2>2, <2>3, <2>4, <2>5 DEF ScanInv
<1>4. CASE UNCHANGED <<scan, allVector, nbytes>>
  BY <1>4 DEF ScanInv, IsLowerBound
<1>5. ASSUME NEW p \in Pointers, Deallocate(p)
      PROVE  UNCHANGED <<scan, allVector, nbytes>>
  BY <1>5 DEF Deallocate, Abort
<1>6. ASSUME NEW b, NEW n, NEW i, NEW ev, NewBlock(b, n, i, ev) \/ Reuse(b, n, ev)
      PROVE  scan' = Idle
  BY <1>6 DEF NewBlock, Reuse, HandOut
<1>7. CASE \/ \E s \in Streams : AddTrackStream(s)
           \/ \E s \in Streams : Complete(s)
           \/ \E b \in Blocks, s \in Streams : Launch(b, s)
           \/ Aborted
           \/ UNCHANGED vars
  BY <1>4, <1>7 DEF AddTrackStream, Complete, Launch, Aborted, Abort, vars, poolVars
<1>8. QED
  BY <1>1, <1>2, <1>3, <1>4, <1>5, <1>6, <1>7 DEF NextCases

\* A block that is free stays free until the host touches it: work in the
\* queues only gets less.
LEMMA StaysFree ==
  ASSUME TypeOK, NEW b \in Blocks, IsFree(b), UNCHANGED <<markedFree, events>>,
         \/ UNCHANGED pending
         \/ \E s \in Streams : pending[s] # <<>>
                               /\ pending' = [pending EXCEPT ![s] = Tail(@)]
  PROVE  IsFree(b)'
<1>1. ASSUME NEW s \in Streams, NEW i \in DOMAIN pending'[s]
      PROVE  \E j \in DOMAIN pending[s] : pending[s][j] = pending'[s][i]
  <2>1. pending[s] \in Seq(Work)
    BY DEF TypeOK
  <2>2. CASE pending'[s] = pending[s]
    BY <2>2
  <2>3. CASE pending[s] # <<>> /\ pending'[s] = Tail(pending[s])
    <3> DEFINE q == pending[s]
    <3>1. /\ Len(Tail(q)) = Len(q) - 1 /\ DOMAIN Tail(q) = 1..Len(q) - 1
          /\ \A k \in 1..Len(q) - 1 : Tail(q)[k] = q[k + 1]
      BY <2>1, <2>3, HeadTailProperties, LenProperties
    <3>2. DOMAIN q = 1..Len(q) /\ Len(q) \in Nat
      BY <2>1, LenProperties
    <3> HIDE DEF q
    <3>3. i \in 1..Len(q) - 1 /\ i + 1 \in DOMAIN q /\ Tail(q)[i] = q[i + 1]
      BY <1>1, <2>3, <3>1, <3>2 DEF q
    <3>4. QED
      BY <2>3, <3>3 DEF q
  <2>4. QED
    BY <2>2, <2>3 DEF TypeOK
<1>2. ASSUME NEW s \in events[b]
      PROVE  ~EventPending(b, s)'
  <2>1. s \in Streams /\ ~EventPending(b, s)
    BY <1>2 DEF IsFree, TypeOK
  <2>2. QED
    BY <1>1, <2>1 DEF EventPending, EventOf
<1>3. QED
  BY <1>2 DEF IsFree

LEMMA FreeStep ==
  ASSUME TypeOK, ScanInv, FreeInv, NextCases
  PROVE  FreeInv'
<1>0. InVector \subseteq Blocks
  BY ElementOfSeq, LenProperties DEF TypeOK, InVector
<1>1. CASE scan' = Idle
  BY <1>1 DEF FreeInv
<1>2. ASSUME NEW n \in Sizes, NEW i \in DOMAIN allVector, BeginScan(n, i)
      PROVE  FreeInv'
  <2>1. /\ scan'.lb = i /\ scan'.at = i
        /\ scan'.free = {b \in InVector : IsFree(b)}
        /\ UNCHANGED <<allVector, markedFree, events, pending>> /\ InVector' = InVector
    BY <1>2 DEF BeginScan, cudaVars, InVector
  <2>2. \A b \in scan'.free : IsFree(b)'
    BY <2>1 DEF IsFree, EventPending, EventOf
  <2>3. \A j \in DOMAIN allVector : ~(i <= j /\ j < i)
    BY LenProperties DEF TypeOK
  <2>4. QED
    BY <2>1, <2>2, <2>3 DEF FreeInv
<1>3. CASE ScanBusy
  <2>1. scan \in [req : Sizes, lb : Nat \ {0}, at : Nat \ {0}, free : SUBSET Blocks]
    BY <1>3 DEF ScanBusy, Scanning, TypeOK
  <2>2. /\ scan'.lb = scan.lb /\ scan'.at = scan.at + 1 /\ scan'.free = scan.free
        /\ UNCHANGED <<allVector, markedFree, events, pending>> /\ InVector' = InVector
        /\ scan # Idle
    BY <1>3, <2>1 DEF ScanBusy, Scanning, Advanced, cudaVars, InVector
  <2>3. /\ scan.free \subseteq InVector /\ \A b \in scan.free : IsFree(b)
        /\ \A i \in DOMAIN allVector :
             scan.lb <= i /\ i < scan.at => allVector[i] \notin scan.free
    BY <2>2, Zenon DEF FreeInv
  <2>4. \A b \in scan.free : IsFree(b)'
    BY <2>2, <2>3 DEF IsFree, EventPending, EventOf
  <2>5. allVector[scan.at] \notin scan.free
    BY <1>3, <2>3 DEF ScanBusy
  <2>6. ASSUME NEW i \in DOMAIN allVector, scan.lb <= i, i < scan.at + 1
        PROVE  allVector[i] \notin scan.free
    <3>1. i \in Nat /\ scan.at \in Nat
      BY <2>1, LenProperties DEF TypeOK
    <3>2. i < scan.at \/ i = scan.at
      BY <2>6, <3>1
    <3>3. QED
      BY <2>3, <2>5, <2>6, <3>2
  <2>7. QED
    BY <2>2, <2>3, <2>4, <2>6 DEF FreeInv
<1>4. CASE /\ UNCHANGED <<scan, allVector, markedFree, events>>
           /\ \/ UNCHANGED pending
              \/ \E s \in Streams : pending[s] # <<>>
                                    /\ pending' = [pending EXCEPT ![s] = Tail(@)]
  <2>1. SUFFICES ASSUME scan # Idle
                 PROVE  /\ scan.free \subseteq InVector
                        /\ \A b \in scan.free : IsFree(b)'
                        /\ \A i \in DOMAIN allVector :
                             scan.lb <= i /\ i < scan.at => allVector[i] \notin scan.free
    BY <1>4 DEF FreeInv, InVector
  <2>2. /\ scan.free \subseteq InVector /\ \A b \in scan.free : IsFree(b)
        /\ \A i \in DOMAIN allVector :
             scan.lb <= i /\ i < scan.at => allVector[i] \notin scan.free
    BY <2>1, Zenon DEF FreeInv
  <2>3. QED
    BY <1>0, <1>4, <2>2, StaysFree
<1>5. ASSUME NEW b, NEW n, NEW i, NEW ev, NewBlock(b, n, i, ev) \/ Reuse(b, n, ev)
      PROVE  scan' = Idle
  BY <1>5 DEF NewBlock, Reuse, HandOut
<1>6. CASE HostReady /\ UNCHANGED scan
  BY <1>6 DEF HostReady, FreeInv
<1>7. CASE \/ \E p \in Pointers : Deallocate(p)
           \/ \E s \in Streams : AddTrackStream(s)
           \/ \E b \in Blocks, s \in Streams : Launch(b, s)
  BY <1>6, <1>7 DEF Deallocate, AddTrackStream, Launch, Abort, poolVars
<1>8. CASE (\E s \in Streams : Complete(s)) \/ Aborted \/ UNCHANGED vars
  BY <1>4, <1>8 DEF Complete, Aborted, Abort, vars, poolVars, cudaVars
<1>9. QED
  BY <1>1, <1>2, <1>3, <1>5, <1>7, <1>8 DEF NextCases

(***************************************************************************)
(* Who can hold what.                                                      *)
(***************************************************************************)

\* The pool never forgets a block.
LEMMA VectorGrows ==
  ASSUME TypeOK, NextCases
  PROVE  InVector \subseteq InVector'
<1>1. ASSUME NEW b \in Unused, NEW n \in Sizes, NEW i \in 1..Len(allVector) + 1,
             NEW ev \in SomeEvents, NewBlock(b, n, i, ev)
      PROVE  InVector \subseteq InVector'
  BY <1>1, NewBlockVector
<1>2. CASE UNCHANGED <<allVector, nbytes, ptr>>
  BY <1>2 DEF InVector
<1>3. QED
  BY <1>1, <1>2, VectorUnchanged

LEMMA HolderStep ==
  ASSUME TypeOK, HolderInv, NextCases
  PROVE  HolderInv'
<1>0. InVector \subseteq InVector'
  BY VectorGrows
<1>1. ASSUME NEW b \in Unused, NEW n \in Sizes, NEW i \in 1..Len(allVector) + 1,
             NEW ev \in SomeEvents, NewBlock(b, n, i, ev)
      PROVE  HolderInv'
  <2>1. b \in Blocks /\ InVector' = InVector \cup {b}
    BY <1>1, NewBlockVector
  <2>2. \A c \in Blocks : c # b => held'[c] = held[c]
    BY <1>1, NullAssumption DEF NewBlock, HandOut, TypeOK, Pointers
  <2>3. \A c \in Blocks : ptr'[c] = IF c = b THEN (IF n = 0 THEN Null ELSE b) ELSE ptr[c]
    BY <1>1 DEF NewBlock, TypeOK
  <2>4. \A p \in Pointers : allMap'[p] \in {allMap[p], b}
    BY <1>1 DEF NewBlock, MapWith, TypeOK
  <2>5. QED
    BY <2>1, <2>2, <2>3, <2>4 DEF HolderInv
<1>2. ASSUME NEW k \in DOMAIN allVector, NEW n \in Sizes,
             Reuse(allVector[k], n, Cleared(allVector[k]))
      PROVE  HolderInv'
  <2> DEFINE b == allVector[k]
  <2>1. b \in Blocks /\ b \in InVector
    BY ElementOfSeq, LenProperties DEF TypeOK, InVector
  <2>2. ptr[b] \in {b, Null} /\ ptr' = ptr /\ allMap' = allMap
    BY <1>2, <2>1 DEF HolderInv, Reuse
  <2>3. \A c \in Blocks : c # b => held'[c] = held[c]
    BY <1>2, <2>2, NullAssumption DEF Reuse, HandOut, TypeOK
  <2>4. QED
    BY <1>0, <2>1, <2>2, <2>3 DEF HolderInv
<1>3. ASSUME NEW p \in Pointers, Deallocate(p)
      PROVE  HolderInv'
  <2>1. /\ ptr' = ptr /\ allMap' = allMap
        /\ \A c \in Blocks : held'[c] > 0 => held[c] > 0
    BY <1>3 DEF Deallocate, Abort, clientVars, TypeOK, Pointers
  <2>2. QED
    BY <1>0, <2>1 DEF HolderInv
<1>4. CASE UNCHANGED <<held, ptr, allMap>>
  BY <1>0, <1>4 DEF HolderInv
<1>5. CASE \/ \E n \in Sizes, i \in DOMAIN allVector : IsLowerBound(i, n) /\ BeginScan(n, i)
           \/ ScanBusy
           \/ \E s \in Streams : AddTrackStream(s)
           \/ \E s \in Streams : Complete(s)
           \/ \E b \in Blocks, s \in Streams : Launch(b, s)
           \/ Aborted
           \/ UNCHANGED vars
  BY <1>4, <1>5 DEF BeginScan, ScanBusy, AddTrackStream, Complete, Launch, Aborted,
                    Abort, vars, poolVars, clientVars
<1>6. QED
  BY <1>1, <1>2, <1>3, <1>5 DEF NextCases

\* What the integer test nbytes_ / min_nbytes > 2 lets through.
LEMMA NotTooLarge ==
  ASSUME NEW a \in Nat, NEW n \in Nat, n # 0, ~(a \div n > 2)
  PROVE  a < 3 * n
<1>1. a \div n \in Int /\ a % n \in 0..n - 1 /\ a = n * (a \div n) + (a % n)
  OBVIOUS
<1> DEFINE q == a \div n
           r == a % n
<1>2. q \in Int /\ r \in 0..n - 1 /\ a = n * q + r /\ q <= 2
  BY <1>1
<1> HIDE DEF q, r
<1>3. n * q <= n * 2
  BY <1>2
<1>4. QED
  BY <1>2, <1>3

LEMMA FitsStep ==
  ASSUME TypeOK, HolderInv, FitsRequest, NextCases
  PROVE  FitsRequest'
<1>1. ASSUME NEW b \in Unused, NEW n \in Sizes, NEW i \in 1..Len(allVector) + 1,
             NEW ev \in SomeEvents, NewBlock(b, n, i, ev)
      PROVE  FitsRequest'
  <2>1. b \in Blocks /\ b \notin InVector /\ n \in Nat
    BY <1>1, NewBlockVector, SizesAssumption
  <2>2. \A c \in Blocks : c # b =>
          held'[c] = held[c] /\ request'[c] = request[c] /\ nbytes'[c] = nbytes[c]
    BY <1>1, NullAssumption DEF NewBlock, HandOut, TypeOK, Pointers
  <2>3. nbytes'[b] = n /\ request'[b] = n
    BY <1>1, <2>1 DEF NewBlock, HandOut, TypeOK
  <2>4. n = 0 => held'[b] = held[b]
    BY <1>1, <2>1, NullAssumption DEF NewBlock, HandOut, TypeOK, Pointers
  <2>5. ~(held[b] > 0)
    BY <2>1 DEF HolderInv
  <2>6. held'[b] > 0 => n > 0
    BY <2>1, <2>4, <2>5
  <2>7. QED
    BY <2>1, <2>2, <2>3, <2>6 DEF FitsRequest
<1>2. ASSUME NEW k \in DOMAIN allVector, NEW n \in Sizes,
             n # 0, n <= nbytes[allVector[k]], ~TooLarge(allVector[k], n),
             Reuse(allVector[k], n, Cleared(allVector[k]))
      PROVE  FitsRequest'
  <2> DEFINE b == allVector[k]
  <2>1. b \in Blocks /\ nbytes[b] \in Nat /\ n \in Nat
    BY ElementOfSeq, LenProperties, SizesAssumption DEF TypeOK
  <2>2. ptr[b] \in {b, Null} /\ nbytes' = nbytes
    BY <1>2, <2>1 DEF HolderInv, Reuse
  <2>3. \A c \in Blocks : c # b => held'[c] = held[c] /\ request'[c] = request[c]
    BY <1>2, <2>2, NullAssumption DEF Reuse, HandOut, TypeOK
  <2>4. request'[b] = n
    BY <1>2, <2>1 DEF Reuse, HandOut, TypeOK
  <2>5. nbytes[b] < 3 * n
    BY <1>2, <2>1, NotTooLarge DEF TooLarge
  <2>6. QED
    BY <1>2, <2>2, <2>3, <2>4, <2>5 DEF FitsRequest
<1>3. ASSUME NEW p \in Pointers, Deallocate(p)
      PROVE  FitsRequest'
  <2>1. /\ UNCHANGED <<request, nbytes>>
        /\ \A c \in Blocks : held'[c] > 0 => held[c] > 0
    BY <1>3 DEF Deallocate, Abort, clientVars, TypeOK, Pointers
  <2>2. QED
    BY <2>1 DEF FitsRequest
<1>4. CASE UNCHANGED <<held, request, nbytes>>
  BY <1>4 DEF FitsRequest
<1>5. CASE \/ \E n \in Sizes, i \in DOMAIN allVector : IsLowerBound(i, n) /\ BeginScan(n, i)
           \/ ScanBusy
           \/ \E s \in Streams : AddTrackStream(s)
           \/ \E s \in Streams : Complete(s)
           \/ \E b \in Blocks, s \in Streams : Launch(b, s)
           \/ Aborted
           \/ UNCHANGED vars
  BY <1>4, <1>5 DEF BeginScan, ScanBusy, AddTrackStream, Complete, Launch, Aborted,
                    Abort, vars, poolVars, clientVars
<1>6. QED
  BY <1>1, <1>2, <1>3, <1>5 DEF NextCases

(***************************************************************************)
(* The queues of the streams.                                              *)
(***************************************************************************)

\* A queued item is an event or a kernel of a block.
LEMMA ItemType ==
  ASSUME TypeOK, NEW s \in Streams, NEW i \in DOMAIN pending[s]
  PROVE  /\ i \in Nat
         /\ pending[s][i].block \in Blocks /\ pending[s][i].tenure \in Nat
         /\ pending[s][i].kind \in {"event", "kernel"}
<1>1. pending[s] \in Seq(Work)
  BY DEF TypeOK
<1>2. pending[s][i] \in Work /\ i \in Nat
  BY <1>1, ElementOfSeq, LenProperties
<1>3. QED
  BY <1>2 DEF Work

\* When isFree() returns true, all that is queued for the block are kernels of
\* its last holder.
LEMMA FreeBlockItems ==
  ASSUME TypeOK, QueueInv, NEW b \in Blocks, IsFree(b),
         NEW s \in Streams, NEW i \in DOMAIN pending[s], pending[s][i].block = b
  PROVE  /\ pending[s][i].kind = "kernel"
         /\ s \in trackStreams
         /\ pending[s][i].tenure = tenure[b]
<1>1. \A j \in DOMAIN pending[s] : pending[s][j] # EventOf(b)
  <2>1. ASSUME NEW j \in DOMAIN pending[s], pending[s][j] = EventOf(b)
        PROVE  FALSE
    <3>1. pending[s][j].kind = "event" /\ pending[s][j].block = b
      BY <2>1 DEF EventOf
    <3>2. s \in events[b]
      BY <3>1 DEF QueueInv, QueueItem
    <3>3. EventPending(b, s)
      BY <2>1 DEF EventPending
    <3>4. QED
      BY <3>2, <3>3 DEF IsFree
  <2>2. QED
    BY <2>1
<1>2. QueueItem(s, i)
  BY DEF QueueInv
<1>3. pending[s][i].kind = "kernel"
  BY <1>1, <1>2, ItemType DEF QueueItem
<1>4. QED
  BY <1>1, <1>2, <1>3 DEF QueueItem

\* What isFree() cleared no queued event refers to.
LEMMA ClearedKeeps ==
  ASSUME TypeOK, QueueInv, NEW ev \in SomeEvents,
         NEW s \in Streams, NEW i \in DOMAIN pending[s], pending[s][i].kind = "event"
  PROVE  s \in ev[pending[s][i].block]
<1> DEFINE c == pending[s][i].block
<1>1. s \in events[c] /\ c \in Blocks
  BY ItemType DEF QueueInv, QueueItem
<1>2. ASSUME NEW b \in InVector, IsFree(b), ev = Cleared(b)
      PROVE  s \in ev[c]
  <2>1. b \in Blocks
    BY ElementOfSeq, LenProperties DEF TypeOK, InVector
  <2>2. b # c
    BY <1>2, <2>1, FreeBlockItems
  <2>3. QED
    BY <1>1, <1>2, <2>1, <2>2 DEF Cleared, TypeOK
<1>3. QED
  BY <1>1, <1>2 DEF SomeEvents

\* The step that hands out b: the old items keep their promise, the recorded
\* events make theirs.
LEMMA HandOutQueues ==
  ASSUME TypeOK, QueueInv, NEW b \in Blocks, NEW ev \in SomeEvents,
         b \in InVector => IsFree(b),
         b \in InVector', InVector \subseteq InVector',
         RecordEvents(b, ev), trackStreams' = trackStreams,
         tenure' = [tenure EXCEPT ![b] = @ + 1]
  PROVE  QueueInv'
<1>1. SUFFICES ASSUME NEW s \in Streams, NEW i \in DOMAIN pending'[s]
               PROVE  QueueItem(s, i)'
  BY DEF QueueInv
<1>2. /\ DOMAIN pending[s] \subseteq DOMAIN pending'[s]
      /\ \A k \in DOMAIN pending[s] : pending'[s][k] = pending[s][k]
      /\ i \in DOMAIN pending[s] \/ (pending'[s][i] = EventOf(b) /\ s \in trackStreams)
      /\ s \in trackStreams => \E e \in DOMAIN pending'[s] :
            pending'[s][e] = EventOf(b) /\ \A k \in DOMAIN pending[s] : k < e
  BY RecordedQueues
<1>3. /\ events' = [ev EXCEPT ![b] = @ \cup trackStreams]
      /\ ev \in [Blocks -> SUBSET Streams]
  BY SomeEventsType DEF RecordEvents
<1>4. CASE i \in DOMAIN pending[s]
  <2> DEFINE w == pending[s][i]
  <2>1. pending'[s][i] = w /\ w.block \in Blocks /\ w.kind \in {"event", "kernel"}
    BY <1>2, <1>4, ItemType
  <2>2. QueueItem(s, i)
    BY <1>4 DEF QueueInv
  <2>3. w.block \in InVector'
    BY <2>2 DEF QueueItem
  <2>4. CASE w.kind = "event"
    <3>1. s \in ev[w.block]
      BY <1>4, <2>4, ClearedKeeps
    <3>2. s \in events'[w.block]
      BY <1>3, <2>1, <3>1
    <3>3. w = EventOf(w.block)
      BY <2>2, <2>4 DEF QueueItem
    <3>4. QED
      BY <2>1, <2>3, <2>4, <3>2, <3>3 DEF QueueItem, EventOf
  <2>5. CASE w.kind = "kernel" /\ w.block = b
    <3>1. s \in trackStreams /\ w.tenure = tenure[b]
      BY <1>4, <2>2, <2>5, FreeBlockItems DEF QueueItem
    <3>2. PICK e \in DOMAIN pending'[s] : pending'[s][e] = EventOf(b) /\ i < e
      BY <1>2, <1>4, <3>1
    <3>3. tenure'[b] = w.tenure + 1
      BY <3>1 DEF TypeOK
    <3>4. EventOf(b)' = EventOf(b)
      BY DEF EventOf
    <3>5. QED
      BY <2>1, <2>3, <2>5, <3>1, <3>2, <3>3, <3>4 DEF QueueItem
  <2>6. CASE w.kind = "kernel" /\ w.block # b
    <3>1. tenure'[w.block] = tenure[w.block]
      BY <2>1, <2>6 DEF TypeOK
    <3>2. \A j \in DOMAIN pending[s] : j \in DOMAIN pending'[s]
                                       /\ pending'[s][j] = pending[s][j]
      BY <1>2
    <3>3. EventOf(w.block)' = EventOf(w.block)
      BY <2>1 DEF EventOf
    <3>4. QED
      BY <2>1, <2>2, <2>3, <2>6, <3>1, <3>2, <3>3 DEF QueueItem
  <2>7. QED
    BY <2>1, <2>4, <2>5, <2>6
<1>5. CASE pending'[s][i] = EventOf(b) /\ s \in trackStreams
  <2>1. s \in events'[b]
    BY <1>3, <1>5
  <2>2. QED
    BY <1>5, <2>1 DEF QueueItem, EventOf
<1>6. QED
  BY <1>2, <1>4, <1>5

\* A finished item leaves the others and their order as they were.
LEMMA CompleteQueues ==
  ASSUME TypeOK, QueueInv, NEW t \in Streams, Complete(t)
  PROVE  QueueInv'
<1>1. SUFFICES ASSUME NEW s \in Streams, NEW i \in DOMAIN pending'[s]
               PROVE  QueueItem(s, i)'
  BY DEF QueueInv
<1>2. /\ UNCHANGED <<allVector, events, trackStreams, tenure>>
      /\ InVector' = InVector /\ \A b : EventOf(b)' = EventOf(b)
  BY DEF Complete, poolVars, clientVars, InVector, EventOf
<1>3. CASE s # t
  <2>1. pending'[s] = pending[s]
    BY <1>3 DEF Complete, TypeOK
  <2>2. QueueItem(s, i)
    BY <2>1 DEF QueueInv
  <2>3. QED
    BY <1>2, <2>1, <2>2 DEF QueueItem
<1>4. CASE s = t
  <2>1. /\ pending[s] \in Seq(Work) /\ pending[s] # <<>>
        /\ pending'[s] = Tail(pending[s])
    BY <1>4 DEF Complete, TypeOK
  <2>2. /\ Len(pending[s]) \in Nat /\ DOMAIN pending[s] = 1..Len(pending[s])
        /\ DOMAIN pending'[s] = 1..Len(pending[s]) - 1
        /\ \A k \in 1..Len(pending[s]) - 1 : pending'[s][k] = pending[s][k + 1]
    BY <2>1, HeadTailProperties, LenProperties
  <2>3. i + 1 \in DOMAIN pending[s] /\ pending'[s][i] = pending[s][i + 1]
    BY <2>2
  <2>4. QueueItem(s, i + 1)
    BY <2>3 DEF QueueInv
  <2>5. ASSUME NEW j \in DOMAIN pending[s], i + 1 < j
        PROVE  j - 1 \in DOMAIN pending'[s] /\ i < j - 1 /\ pending'[s][j - 1] = pending[s][j]
    BY <2>2, <2>5
  <2>6. QED
    BY <1>2, <2>3, <2>4, <2>5 DEF QueueItem
<1>5. QED
  BY <1>3, <1>4

\* A kernel is launched by a holder, on a registered stream.
LEMMA LaunchQueues ==
  ASSUME TypeOK, HolderInv, QueueInv, NEW b \in Blocks, NEW t \in Streams, Launch(b, t)
  PROVE  QueueInv'
<1>1. SUFFICES ASSUME NEW s \in Streams, NEW i \in DOMAIN pending'[s]
               PROVE  QueueItem(s, i)'
  BY DEF QueueInv
<1>2. /\ UNCHANGED <<allVector, events, trackStreams, tenure>>
      /\ InVector' = InVector /\ \A c : EventOf(c)' = EventOf(c)
  BY DEF Launch, poolVars, clientVars, InVector, EventOf
<1>3. /\ pending[t] \in Seq(Work) /\ KernelOf(b) \in Work
      /\ pending' = [pending EXCEPT ![t] = Append(@, KernelOf(b))]
  BY DEF Launch, TypeOK, KernelOf, Work
<1>4. /\ DOMAIN pending[s] \subseteq DOMAIN pending'[s]
      /\ \A k \in DOMAIN pending[s] : pending'[s][k] = pending[s][k]
      /\ i \in DOMAIN pending[s] \/ (s = t /\ pending'[s][i] = KernelOf(b))
  <2>1. CASE s = t
    BY <1>3, <2>1, AppendProperties, LenProperties DEF TypeOK
  <2>2. CASE s # t
    BY <1>3, <2>2 DEF TypeOK
  <2>3. QED
    BY <2>1, <2>2
<1>5. CASE i \in DOMAIN pending[s]
  <2>1. QueueItem(s, i)
    BY <1>5 DEF QueueInv
  <2>2. QED
    BY <1>2, <1>4, <1>5, <2>1 DEF QueueItem
<1>6. CASE s = t /\ pending'[s][i] = KernelOf(b)
  <2>1. b \in InVector /\ t \in trackStreams
    BY DEF Launch, HolderInv
  <2>2. QED
    BY <1>2, <1>6, <2>1 DEF QueueItem, KernelOf
<1>7. QED
  BY <1>4, <1>5, <1>6

LEMMA QueueStep ==
  ASSUME TypeOK, HolderInv, QueueInv, NextCases
  PROVE  QueueInv'
<1>1. ASSUME NEW b \in Unused, NEW n \in Sizes, NEW i \in 1..Len(allVector) + 1,
             NEW ev \in SomeEvents, NewBlock(b, n, i, ev)
      PROVE  QueueInv'
  <2>1. b \in Blocks /\ b \notin InVector /\ InVector' = InVector \cup {b}
    BY <1>1, NewBlockVector
  <2>2. /\ RecordEvents(b, ev) /\ trackStreams' = trackStreams
        /\ tenure' = [tenure EXCEPT ![b] = @ + 1]
    BY <1>1 DEF NewBlock, HandOut
  <2>3. QED
    BY <2>1, <2>2, HandOutQueues
<1>2. ASSUME NEW k \in DOMAIN allVector, NEW n \in Sizes, IsFree(allVector[k]),
             Reuse(allVector[k], n, Cleared(allVector[k]))
      PROVE  QueueInv'
  <2> DEFINE b == allVector[k]
  <2>1. b \in Blocks /\ b \in InVector
    BY ElementOfSeq, LenProperties DEF TypeOK, InVector
  <2>2. Cleared(b) \in SomeEvents
    BY <1>2, <2>1 DEF SomeEvents
  <2>3. /\ RecordEvents(b, Cleared(b)) /\ trackStreams' = trackStreams
        /\ tenure' = [tenure EXCEPT ![b] = @ + 1] /\ InVector' = InVector
    BY <1>2 DEF Reuse, HandOut, InVector
  <2>4. QED
    BY <1>2, <2>1, <2>2, <2>3, HandOutQueues
<1>3. CASE UNCHANGED <<allVector, events, trackStreams, tenure, pending>>
  BY <1>3 DEF QueueInv, QueueItem, InVector, EventOf
<1>4. CASE \/ \E n \in Sizes, i \in DOMAIN allVector : IsLowerBound(i, n) /\ BeginScan(n, i)
           \/ ScanBusy
           \/ \E p \in Pointers : Deallocate(p)
           \/ Aborted
           \/ UNCHANGED vars
  BY <1>3, <1>4 DEF BeginScan, ScanBusy, Deallocate, Aborted, Abort, vars, poolVars,
                    clientVars, cudaVars
<1>5. ASSUME NEW s \in Streams, AddTrackStream(s)
      PROVE  QueueInv'
  <2>1. /\ UNCHANGED <<allVector, events, tenure, pending>>
        /\ trackStreams \subseteq trackStreams'
    BY <1>5 DEF AddTrackStream, clientVars, cudaVars
  <2>2. QED
    BY <2>1 DEF QueueInv, QueueItem, InVector, EventOf
<1>6. QED
  BY <1>1, <1>2, <1>4, <1>5, CompleteQueues, LaunchQueues DEF NextCases

(***************************************************************************)
(* The theorems. IInv is inductive: each of its parts needs the order of   *)
(* the vector, through StepCases, or the types, but none needs to be       *)
(* stronger than it is stated.                                             *)
(***************************************************************************)

LEMMA InitInv == Init => IInv
<1> SUFFICES ASSUME Init
             PROVE  IInv
  OBVIOUS
<1> USE BoundsAssumption, NullAssumption
<1>1. TypeOK
  BY DEF Init, TypeOK, Pointers
<1>2. Sorted /\ ScanInv /\ FreeInv /\ HolderInv /\ QueueInv /\ FitsRequest
  BY DEF Init, Sorted, ScanInv, FreeInv, HolderInv, QueueInv, FitsRequest, Pointers
<1>3. QED
  BY <1>1, <1>2 DEF IInv

LEMMA StepInv == IInv /\ [Next]_vars => IInv'
<1> SUFFICES ASSUME IInv, [Next]_vars
             PROVE  IInv'
  OBVIOUS
<1>1. TypeOK /\ Sorted /\ ScanInv /\ FreeInv /\ HolderInv /\ QueueInv /\ FitsRequest
  BY DEF IInv
<1>2. NextCases
  BY <1>1, StepCases
<1>3. QED
  BY <1>1, <1>2, TypeStep, SortedStep, ScanStep, FreeStep, HolderStep, QueueStep, FitsStep
  DEF IInv

\* The inductive invariant holds in every reachable state of the pool and its
\* client, whatever the sizes, streams and blocks.
THEOREM Invariance == Spec => []IInv
BY InitInv, StepInv, PTL DEF Spec

\* Type correctness of every member of the allocator and of the queues.
THEOREM TypeCorrect == Spec => []TypeOK
<1>1. IInv => TypeOK
  BY DEF IInv
<1>2. QED
  BY <1>1, Invariance, PTL

\* std::lower_bound always finds all_vector_ ordered by nbytes_.
THEOREM AlwaysSorted == Spec => []Sorted
<1>1. IInv => Sorted
  BY DEF IInv
<1>2. QED
  BY <1>1, Invariance, PTL

\* The block a client holds is as large as asked, and less than three times as
\* large: the exact reach of nbytes_ / min_nbytes > 2.
THEOREM AlwaysFits == Spec => []FitsRequest
<1>1. IInv => FitsRequest
  BY DEF IInv
<1>2. QED
  BY <1>1, Invariance, PTL

\* However many streams are registered and however often blocks change hands,
\* work of at most two holders of a block is ever in flight.
THEOREM AtMostTwoTenures == Spec => []TwoTenuresInFlight
<1>1. IInv => TwoTenuresInFlight
  <2> SUFFICES ASSUME IInv, NEW s \in Streams, NEW i \in DOMAIN pending[s],
                      pending[s][i].kind = "kernel"
               PROVE  tenure[pending[s][i].block] <= pending[s][i].tenure + 1
    BY DEF TwoTenuresInFlight
  <2>1. TypeOK /\ QueueItem(s, i)
    BY DEF IInv, QueueInv
  <2>2. pending[s][i].block \in Blocks /\ pending[s][i].tenure \in Nat
    BY <2>1, ItemType
  <2>3. tenure[pending[s][i].block] \in Nat
    BY <2>1, <2>2 DEF TypeOK
  <2>4. \/ pending[s][i].tenure = tenure[pending[s][i].block]
        \/ pending[s][i].tenure + 1 = tenure[pending[s][i].block]
    BY <2>1 DEF QueueItem
  <2>5. QED
    BY <2>2, <2>3, <2>4
<1>2. QED
  BY <1>1, Invariance, PTL

(***************************************************************************)
(* Refinement.                                                             *)
(***************************************************************************)

\* A new block is a region that the abstract allocator reserves.
LEMMA NewBlockReserves ==
  ASSUME IInv, NEW b \in Unused, NEW n \in Sizes, NEW i \in 1..Len(allVector) + 1,
         NEW ev \in SomeEvents, NewBlock(b, n, i, ev)
  PROVE  Exclusive!Next
<1>1. TypeOK
  BY DEF IInv
<1>2. b \in Blocks \ InVector /\ InVector' = InVector \cup {b}
  BY <1>1, NewBlockVector
<1>3. nbytes' = [nbytes EXCEPT ![b] = n] /\ request' = [request EXCEPT ![b] = n]
  BY DEF NewBlock, HandOut
<1>4. ~markedFree'[b] /\ \A c \in Blocks : c # b => markedFree'[c] = markedFree[c]
  BY <1>1, <1>2 DEF NewBlock, MarkTaken, TypeOK
<1>5. \A c \in InVector : c \in Blocks
  BY <1>1, ElementOfSeq, LenProperties DEF TypeOK, InVector
<1>6. {c \in InVector : ~markedFree[c]}' = {c \in InVector : ~markedFree[c]} \cup {b}
  BY <1>2, <1>4, <1>5
<1>7. Exclusive!Reserve(b, n)
  BY <1>2, <1>3, <1>6 DEF Exclusive!Reserve
<1>8. QED
  BY <1>2, <1>7 DEF Exclusive!Next

\* Reusing a free block serves the request with it.
LEMMA ReuseServes ==
  ASSUME IInv, NEW k \in DOMAIN allVector, NEW n \in Sizes, IsFree(allVector[k]),
         n # 0, n <= nbytes[allVector[k]], ~TooLarge(allVector[k], n),
         Reuse(allVector[k], n, Cleared(allVector[k]))
  PROVE  Exclusive!Next
<1> DEFINE b == allVector[k]
<1>1. TypeOK
  BY DEF IInv
<1>2. b \in Blocks /\ b \in InVector /\ nbytes[b] \in Nat /\ n \in Nat
  BY <1>1, ElementOfSeq, LenProperties, SizesAssumption DEF TypeOK, InVector
<1>3. markedFree[b] /\ nbytes[b] < 3 * n
  BY <1>2, NotTooLarge DEF IsFree, TooLarge
<1>4. ~markedFree'[b] /\ \A c \in Blocks : c # b => markedFree'[c] = markedFree[c]
  BY <1>1, <1>2 DEF Reuse, MarkTaken, TypeOK
<1>5. /\ nbytes' = nbytes /\ InVector' = InVector
      /\ request' = [request EXCEPT ![b] = n]
  BY DEF Reuse, HandOut, InVector
<1>6. \A c \in InVector : c \in Blocks
  BY <1>1, ElementOfSeq, LenProperties DEF TypeOK, InVector
<1>7. {c \in InVector : ~markedFree[c]}' = {c \in InVector : ~markedFree[c]} \cup {b}
  BY <1>2, <1>4, <1>5, <1>6
<1>8. Exclusive!Serve(b, n)
  BY <1>2, <1>3, <1>5, <1>7 DEF Exclusive!Serve
<1>9. QED
  BY <1>2, <1>8 DEF Exclusive!Next

LEMMA DeallocateReturns ==
  ASSUME IInv, NEW p \in Pointers, Deallocate(p)
  PROVE  Exclusive!Next \/ UNCHANGED Exclusive!vars
<1>1. CASE Abort("check_failed")
  BY <1>1 DEF Abort, Exclusive!vars, InVector, clientVars
<1>2. CASE /\ allMap[p] # NoBlock /\ ~markedFree[allMap[p]]
           /\ markedFree' = MarkGiven(allMap[p])
           /\ UNCHANGED <<allVector, nbytes, request>>
  <2> DEFINE b == allMap[p]
  <2>1. TypeOK /\ HolderInv
    BY DEF IInv
  <2>2. b \in Blocks /\ b \in InVector /\ InVector' = InVector
    BY <1>2, <2>1 DEF TypeOK, HolderInv, InVector
  <2>3. markedFree'[b] /\ \A c \in Blocks : c # b => markedFree'[c] = markedFree[c]
    BY <1>2, <2>1, <2>2 DEF MarkGiven, TypeOK
  <2>4. \A c \in InVector : c \in Blocks
    BY <2>1, ElementOfSeq, LenProperties DEF TypeOK, InVector
  <2>5. {c \in InVector : ~markedFree[c]}' = {c \in InVector : ~markedFree[c]} \ {b}
    BY <2>2, <2>3, <2>4
  <2>6. Exclusive!Return(b)
    BY <1>2, <2>2, <2>5 DEF Exclusive!Return
  <2> HIDE DEF b
  <2>7. QED
    BY <2>2, <2>6 DEF Exclusive!Next, Exclusive!Return
<1>3. QED
  BY <1>1, <1>2 DEF Deallocate

\* CudaMemoryPool implements ExclusiveAllocator, the contract of
\* allocator.h and test_allocator.cc: one holder per region, sizes that fit
\* and never change.
THEOREM Refinement == Spec => ImplementsExclusiveAllocator
<1>1. Init => Exclusive!Init
  BY DEF Init, Exclusive!Init, InVector
<1>2. ASSUME IInv, [Next]_vars
      PROVE  [Exclusive!Next]_(Exclusive!vars)
  <2>1. NextCases
    BY <1>2, StepCases DEF IInv
  <2>2. CASE UNCHANGED <<allVector, nbytes, markedFree, request>>
    BY <2>2 DEF Exclusive!vars, InVector
  <2>3. CASE \/ \E n \in Sizes, i \in DOMAIN allVector : IsLowerBound(i, n) /\ BeginScan(n, i)
             \/ ScanBusy
             \/ \E s \in Streams : AddTrackStream(s)
             \/ \E s \in Streams : Complete(s)
             \/ \E b \in Blocks, s \in Streams : Launch(b, s)
             \/ Aborted
             \/ UNCHANGED vars
    BY <2>2, <2>3 DEF BeginScan, ScanBusy, AddTrackStream, Complete, Launch, Aborted,
                      Abort, vars, poolVars, clientVars
  <2>4. QED
    BY <1>2, <2>1, <2>3, NewBlockReserves, ReuseServes, DeallocateReturns DEF NextCases
<1>3. QED
  BY <1>1, <1>2, Invariance, PTL DEF Spec, Exclusive!Spec, ImplementsExclusiveAllocator

(***************************************************************************)
(* Clients that never ask for 0 bytes.                                     *)
(***************************************************************************)

\* What such a client gives back is the address of a block in use.
LEMMA GivesBackABlock ==
  ASSUME TypeOK, AddressInv, ExclusiveHandOut, NEW p \in Pointers, Deallocate(p)
  PROVE  /\ p \in Blocks /\ p \in InVector /\ allMap[p] = p
         /\ held[p] = 1 /\ ~markedFree[p]
         /\ markedFree' = [markedFree EXCEPT ![p] = TRUE]
         /\ held' = [held EXCEPT ![p] = 0]
         /\ UNCHANGED <<allVector, allMap, ptr, status>>
<1>1. held[p] > 0
  BY DEF Deallocate
<1>2. p \in Blocks
  BY <1>1 DEF AddressInv, Pointers
<1>3. p \in InVector /\ ~markedFree[p] /\ held[p] = 1
  BY <1>1, <1>2 DEF ExclusiveHandOut
<1>4. allMap[p] = p
  BY <1>3 DEF AddressInv
<1>5. /\ markedFree' = MarkGiven(p)
      /\ held' = [held EXCEPT ![p] = @ - 1]
      /\ UNCHANGED <<allVector, allMap, ptr, status>>
  BY <1>2, <1>3, <1>4, NullAssumption DEF Deallocate
<1>6. held' = [held EXCEPT ![p] = 0]
  BY <1>3, <1>5 DEF TypeOK
<1>7. QED
  BY <1>2, <1>3, <1>4, <1>5, <1>6 DEF MarkGiven

LEMMA AddressStep ==
  ASSUME 0 \notin Sizes, TypeOK, AddressInv, ExclusiveHandOut, NextCases
  PROVE  AddressInv' /\ ExclusiveHandOut'
<1>0. InVector \subseteq Blocks
  BY ElementOfSeq, LenProperties DEF TypeOK, InVector
<1>1. ASSUME NEW b \in Unused, NEW n \in Sizes, NEW i \in 1..Len(allVector) + 1,
             NEW ev \in SomeEvents, NewBlock(b, n, i, ev)
      PROVE  AddressInv' /\ ExclusiveHandOut'
  <2> DEFINE N == Len(allVector)
  <2>1. /\ DOMAIN allVector = 1..N /\ N \in Nat
        /\ DOMAIN allVector' = 1..N + 1
        /\ \A j \in 1..N + 1 :
             allVector'[j] = IF j < i THEN allVector[j]
                             ELSE IF j = i THEN b ELSE allVector[j - 1]
        /\ InVector' = InVector \cup {b} /\ b \in Blocks /\ b \notin InVector
    <3>1. DOMAIN allVector = 1..N /\ N \in Nat
      BY LenProperties DEF TypeOK
    <3>2. QED
      BY <1>1, <3>1, NewBlockVector
  <2>2. /\ ptr' = [ptr EXCEPT ![b] = b]
        /\ allMap' = [allMap EXCEPT ![b] = b]
        /\ held' = [held EXCEPT ![b] = 1]
        /\ markedFree' = [markedFree EXCEPT ![b] = FALSE]
    <3>1. n # 0 /\ allMap[b] = NoBlock /\ held[b] = 0
      BY <2>1 DEF AddressInv, ExclusiveHandOut
    <3>2. QED
      BY <1>1, <2>1, <3>1 DEF NewBlock, MapWith, HandOut, MarkTaken, TypeOK, Pointers
  <2>3. /\ \A c \in Blocks : c # b => /\ ptr'[c] = ptr[c] /\ allMap'[c] = allMap[c]
                                      /\ held'[c] = held[c]
                                      /\ markedFree'[c] = markedFree[c]
        /\ ptr'[b] = b /\ allMap'[b] = b /\ held'[b] = 1 /\ ~markedFree'[b]
        /\ allMap'[Null] = allMap[Null] /\ held'[Null] = held[Null]
    BY <2>1, <2>2, NullAssumption DEF TypeOK, Pointers
  <2>4. \A j \in 1..N : allVector[j] # b
    BY <2>1 DEF InVector
  <2>5. \A j, k \in 1..N : allVector[j] = allVector[k] => j = k
    BY <2>1 DEF AddressInv
  <2>6. ASSUME NEW j \in 1..N + 1, NEW k \in 1..N + 1, allVector'[j] = allVector'[k]
        PROVE  j = k
    <3>1. ASSUME NEW l \in 1..N + 1
          PROVE  /\ l < i => l \in 1..N /\ allVector'[l] = allVector[l]
                 /\ l = i => allVector'[l] = b
                 /\ l > i => l - 1 \in 1..N /\ allVector'[l] = allVector[l - 1]
      BY <2>1
    <3>2. CASE j = i \/ k = i
      BY <2>4, <2>6, <3>1, <3>2
    <3>3. CASE j < i /\ k < i
      BY <2>5, <2>6, <3>1, <3>3
    <3>4. CASE j < i /\ k > i
      <4>1. j = k - 1
        BY <2>5, <2>6, <3>1, <3>4
      <4>2. QED
        BY <3>4, <4>1
    <3>5. CASE j > i /\ k < i
      <4>1. j - 1 = k
        BY <2>5, <2>6, <3>1, <3>5
      <4>2. QED
        BY <3>5, <4>1
    <3>6. CASE j > i /\ k > i
      <4>1. j - 1 = k - 1
        BY <2>5, <2>6, <3>1, <3>6
      <4>2. QED
        BY <4>1
    <3>7. QED
      BY <3>2, <3>3, <3>4, <3>5, <3>6
  <2>7. QED
    BY <1>0, <2>1, <2>3, <2>6 DEF AddressInv, ExclusiveHandOut
<1>2. ASSUME NEW k \in DOMAIN allVector, NEW n \in Sizes, IsFree(allVector[k]),
             Reuse(allVector[k], n, Cleared(allVector[k]))
      PROVE  AddressInv' /\ ExclusiveHandOut'
  <2> DEFINE b == allVector[k]
  <2>1. b \in Blocks /\ b \in InVector
    BY <1>0 DEF InVector
  <2>2. ptr[b] = b /\ markedFree[b] /\ held[b] = 0
    BY <1>2, <2>1 DEF AddressInv, IsFree, ExclusiveHandOut
  <2>3. /\ held' = [held EXCEPT ![b] = 1]
        /\ markedFree' = [markedFree EXCEPT ![b] = FALSE]
        /\ UNCHANGED <<allVector, ptr, allMap>> /\ InVector' = InVector
    BY <1>2, <2>1, <2>2 DEF Reuse, HandOut, MarkTaken, TypeOK, InVector
  <2>4. held'[Null] = held[Null]
    BY <2>1, <2>3, NullAssumption DEF TypeOK
  <2>5. AddressInv'
    BY <2>3, <2>4 DEF AddressInv
  <2>6. ExclusiveHandOut'
    BY <2>1, <2>3 DEF ExclusiveHandOut, TypeOK, Pointers
  <2>7. QED
    BY <2>5, <2>6
<1>3. ASSUME NEW p \in Pointers, Deallocate(p)
      PROVE  AddressInv' /\ ExclusiveHandOut'
  <2>1. /\ p \in Blocks /\ p \in InVector
        /\ markedFree' = [markedFree EXCEPT ![p] = TRUE]
        /\ held' = [held EXCEPT ![p] = 0]
        /\ UNCHANGED <<allVector, allMap, ptr>> /\ InVector' = InVector
    BY <1>3, GivesBackABlock DEF InVector
  <2>2. held'[Null] = held[Null]
    BY <2>1, NullAssumption DEF TypeOK
  <2>3. AddressInv'
    BY <2>1, <2>2 DEF AddressInv
  <2>4. ExclusiveHandOut'
    BY <2>1 DEF ExclusiveHandOut, TypeOK, Pointers
  <2>5. QED
    BY <2>3, <2>4
<1>4. CASE UNCHANGED <<allVector, allMap, ptr, held, markedFree>>
  BY <1>4 DEF AddressInv, ExclusiveHandOut, InVector
<1>5. CASE \/ \E n \in Sizes, i \in DOMAIN allVector : IsLowerBound(i, n) /\ BeginScan(n, i)
           \/ ScanBusy
           \/ \E s \in Streams : AddTrackStream(s)
           \/ \E s \in Streams : Complete(s)
           \/ \E b \in Blocks, s \in Streams : Launch(b, s)
           \/ Aborted
           \/ UNCHANGED vars
  BY <1>4, <1>5 DEF BeginScan, ScanBusy, AddTrackStream, Complete, Launch, Aborted,
                    Abort, vars, poolVars, clientVars
<1>6. QED
  BY <1>1, <1>2, <1>3, <1>5 DEF NextCases

\* Neither CHECK of the allocator fails.
LEMMA ChecksStep ==
  ASSUME 0 \notin Sizes, IInv, PositiveInv, [Next]_vars
  PROVE  ChecksHold'
<1>1. TypeOK /\ AddressInv /\ ExclusiveHandOut /\ ChecksHold
  BY DEF IInv, PositiveInv
<1>2. ASSUME NEW n, NEW i, NEW ev, Grow(n, i, ev)
      PROVE  ChecksHold'
  BY <1>1, <1>2 DEF Grow, NewBlock, Abort, ChecksHold
<1>3. ASSUME NEW n \in Sizes, Allocate(n)
      PROVE  ChecksHold'
  <2>1. \E i \in 1..Len(allVector) + 1 : Grow(n, i, events) \/ BeginScan(n, i)
    BY <1>3 DEF Allocate
  <2>2. ASSUME NEW i, BeginScan(n, i)
        PROVE  ChecksHold'
    BY <1>1, <2>2 DEF BeginScan, ChecksHold
  <2>3. QED
    BY <1>2, <2>1, <2>2
<1>4. ASSUME ScanFree
      PROVE  ChecksHold'
  <2> DEFINE b == allVector[scan.at]
             n == scan.req
  <2>1. /\ IsFree(b) /\ Scanning /\ scan.at <= Len(allVector)
        /\ \/ n = 0 /\ Abort("sigfpe")
           \/ n # 0 /\ TooLarge(b, n) /\ Grow(n, scan.lb, Cleared(b))
           \/ /\ n # 0 /\ ~TooLarge(b, n)
              /\ IF markedFree[b] /\ Cleared(b)[b] = {}
                 THEN Reuse(b, n, Cleared(b)) ELSE Abort("check_failed")
    BY <1>4 DEF ScanFree
  <2>2. b \in Blocks
    <3>1. scan.at \in Nat \ {0}
      BY <1>1, <2>1 DEF TypeOK, Scanning
    <3>2. scan.at \in DOMAIN allVector
      BY <1>1, <2>1, <3>1, LenProperties DEF TypeOK
    <3>3. QED
      BY <1>1, <3>2, ElementOfSeq, LenProperties DEF TypeOK
  <2>3. markedFree[b] /\ Cleared(b)[b] = {}
    BY <1>1, <2>1, <2>2 DEF IsFree, Cleared, TypeOK
  <2>4. \/ Abort("sigfpe")
        \/ Grow(n, scan.lb, Cleared(b))
        \/ Reuse(b, n, Cleared(b))
    BY <2>1, <2>3
  <2>5. CASE Abort("sigfpe")
    BY <2>5 DEF Abort, ChecksHold
  <2>6. CASE Reuse(b, n, Cleared(b))
    BY <1>1, <2>6 DEF Reuse, ChecksHold
  <2>7. QED
    BY <1>2, <2>4, <2>5, <2>6
<1>5. ASSUME NEW p \in Pointers, Deallocate(p)
      PROVE  ChecksHold'
  BY <1>1, <1>5, GivesBackABlock DEF ChecksHold
<1>6. ASSUME ScanExhausted
      PROVE  ChecksHold'
  BY <1>2, <1>6 DEF ScanExhausted
<1>7. CASE UNCHANGED status
  BY <1>1, <1>7 DEF ChecksHold
<1>8. CASE \/ ScanBusy
           \/ \E s \in Streams : AddTrackStream(s) \/ Complete(s)
           \/ \E b \in Blocks, s \in Streams : Launch(b, s)
           \/ UNCHANGED vars
  BY <1>7, <1>8 DEF ScanBusy, AddTrackStream, Complete, Launch, vars, poolVars
<1>9. QED
  BY <1>3, <1>4, <1>5, <1>6, <1>8 DEF Next

\* A client that never asks for 0 bytes has every block it holds to itself, can
\* give back whatever it was handed, and never trips a CHECK.
THEOREM PositiveRequests ==
  ASSUME 0 \notin Sizes
  PROVE  Spec => []PositiveInv
<1>1. Init => PositiveInv
  BY NullAssumption DEF Init, PositiveInv, AddressInv, ExclusiveHandOut, ChecksHold,
                        Pointers, InVector
<1>2. IInv /\ PositiveInv /\ [Next]_vars => PositiveInv'
  <2> SUFFICES ASSUME IInv, PositiveInv, [Next]_vars
               PROVE  PositiveInv'
    OBVIOUS
  <2>1. NextCases /\ TypeOK /\ AddressInv /\ ExclusiveHandOut
    BY StepCases DEF IInv, PositiveInv
  <2>2. QED
    BY <2>1, AddressStep, ChecksStep DEF PositiveInv
<1>3. QED
  BY <1>1, <1>2, Invariance, PTL DEF Spec

\* all_map_ and all_vector_ list the same blocks, each once and under its own
\* address.
THEOREM AlwaysIndexed ==
  ASSUME 0 \notin Sizes
  PROVE  Spec => []IndexesAgree
<1>1. TypeOK /\ AddressInv => IndexesAgree
  <2> SUFFICES ASSUME TypeOK, AddressInv
               PROVE  IndexesAgree
    OBVIOUS
  <2>1. \A i, j \in DOMAIN allVector : allVector[i] = allVector[j] => i = j
    BY DEF AddressInv
  <2>2. \A p \in Pointers : allMap[p] # NoBlock =>
          p \in InVector /\ p \in Blocks /\ allMap[p] = p /\ ptr[p] = p
    BY DEF AddressInv, Pointers
  <2>3. \A b \in Blocks : b \in InVector <=> \E p \in Pointers : allMap[p] = b
    <3>1. ASSUME NEW b \in Blocks, b \in InVector
          PROVE  \E p \in Pointers : allMap[p] = b
      BY <3>1 DEF AddressInv, Pointers
    <3>2. ASSUME NEW b \in Blocks, NEW p \in Pointers, allMap[p] = b
          PROVE  b \in InVector
      BY <2>2, <3>2, NullAssumption
    <3>3. QED
      BY <3>1, <3>2
  <2>4. QED
    BY <2>1, <2>2, <2>3 DEF IndexesAgree
<1>2. IInv /\ PositiveInv => IndexesAgree
  BY <1>1 DEF IInv, PositiveInv
<1>3. QED
  BY <1>2, Invariance, PositiveRequests, PTL

\* No CHECK of Allocate or Deallocate ever ends the program: the vector is
\* sorted where Allocate says so, and what a client gives back is in all_map_
\* and marked as handed out.
THEOREM NoCheckFails ==
  ASSUME 0 \notin Sizes
  PROVE  Spec => []ChecksHold
<1>1. PositiveInv => ChecksHold
  BY DEF PositiveInv
<1>2. QED
  BY <1>1, PositiveRequests, PTL

\* One holder per block, as marked_free_ says.
THEOREM AlwaysExclusive ==
  ASSUME 0 \notin Sizes
  PROVE  Spec => [](ExclusiveHandOut /\ ChecksHold)
<1>1. PositiveInv => ExclusiveHandOut /\ ChecksHold
  BY DEF PositiveInv
<1>2. QED
  BY <1>1, PositiveRequests, PTL

-----------------------------------------------------------------------------
(***************************************************************************)
(* What the search of Allocate finds.                                      *)
(***************************************************************************)

\* What IInv says of a call that scans.
LEMMA ScanFacts ==
  ASSUME IInv, Scanning
  PROVE  /\ scan # Idle /\ FreeAtCall = scan.free
         /\ scan.req \in Sizes /\ scan.req \in Nat /\ scan.at \in Nat /\ scan.lb \in Nat
         /\ \A i \in DOMAIN allVector : i < scan.lb => nbytes[allVector[i]] < scan.req
         /\ \A i \in DOMAIN allVector :
              scan.lb <= i /\ i < scan.at => allVector[i] \notin scan.free
         /\ scan.free \subseteq InVector
<1>1. scan # Idle /\ FreeAtCall = scan.free
  BY DEF Scanning, FreeAtCall
<1>2. scan \in [req : Sizes, lb : Nat \ {0}, at : Nat \ {0}, free : SUBSET Blocks]
  BY <1>1 DEF IInv, TypeOK
<1>3. \A i \in DOMAIN allVector : i < scan.lb => nbytes[allVector[i]] < scan.req
  <2>1. IsLowerBound(scan.lb, scan.req)
    BY <1>1, Zenon DEF IInv, ScanInv
  <2>2. QED
    BY <2>1 DEF IsLowerBound
<1>4. /\ scan.free \subseteq InVector
      /\ \A i \in DOMAIN allVector :
           scan.lb <= i /\ i < scan.at => allVector[i] \notin scan.free
  BY <1>1, Zenon DEF IInv, FreeInv
<1>5. QED
  BY <1>1, <1>2, <1>3, <1>4, SizesAssumption

\* The blocks that were free at the call and are large enough all lie ahead of
\* the cursor.
LEMMA FreeBlocksAhead ==
  ASSUME IInv, Scanning, NEW c \in FreeAtCall, scan.req <= nbytes[c]
  PROVE  \E k \in DOMAIN allVector : scan.at <= k /\ allVector[k] = c
<1>1. PICK k \in DOMAIN allVector : allVector[k] = c
  BY ScanFacts DEF InVector
<1>2. k \in Nat /\ nbytes[c] \in Nat
  BY <1>1, ElementOfSeq, LenProperties DEF IInv, TypeOK
<1>3. ~(k < scan.lb)
  BY <1>1, <1>2, ScanFacts
<1>4. ~(k < scan.at)
  BY <1>1, <1>2, <1>3, ScanFacts
<1>5. QED
  BY <1>1, <1>2, <1>4, ScanFacts

\* So the block the search stops at is no larger than any of them.
LEMMA FoundIsSmallest ==
  ASSUME IInv, Scanning, scan.at <= Len(allVector),
         NEW c \in FreeAtCall, scan.req <= nbytes[c]
  PROVE  nbytes[allVector[scan.at]] <= nbytes[c]
<1>1. scan.at \in DOMAIN allVector
  <2>1. scan \in [req : Sizes, lb : Nat \ {0}, at : Nat \ {0}, free : SUBSET Blocks]
    BY DEF IInv, TypeOK, Scanning
  <2>2. QED
    BY <2>1, LenProperties DEF IInv, TypeOK
<1>2. PICK k \in DOMAIN allVector : scan.at <= k /\ allVector[k] = c
  BY FreeBlocksAhead
<1>3. QED
  BY <1>1, <1>2 DEF IInv, Sorted

\* A new block changes the holders of no block that was there before.
LEMMA NewBlockHolds ==
  ASSUME TypeOK, NEW b \in Unused, NEW n, NEW i, NEW ev, NewBlock(b, n, i, ev),
         NEW c \in InVector
  PROVE  held'[c] = held[c]
<1>1. c \in Blocks /\ c # b
  BY ElementOfSeq, LenProperties DEF TypeOK, InVector, Unused
<1>2. c # Null /\ c \in Pointers
  BY <1>1, NullAssumption DEF Pointers
<1>3. QED
  BY <1>1, <1>2 DEF TypeOK, NewBlock, HandOut

\* Grow hands out no block that was there before.
LEMMA GrowHolds ==
  ASSUME TypeOK, NEW n, NEW i, NEW ev, Grow(n, i, ev), NEW c \in InVector
  PROVE  held'[c] = held[c]
BY NewBlockHolds DEF Grow, Abort, clientVars

\* The pool hands out the tightest of the free blocks: whatever the device
\* finishes while Allocate scans, no larger block is cut into first.
THEOREM AlwaysTightest == Spec => ReuseIsTightest
<1> DEFINE Tightest ==
             \A b \in InVector : (held'[b] > held[b]) =>
               \A c \in FreeAtCall : request'[b] <= nbytes[c] => nbytes[b] <= nbytes[c]
<1>1. ASSUME IInv, Next
      PROVE  Tightest
  <2>1. TypeOK /\ InVector \subseteq Blocks /\ Blocks \subseteq Pointers
    BY <1>1, ElementOfSeq, LenProperties DEF IInv, TypeOK, InVector, Pointers
  <2>2. \A p \in Pointers : held[p] \in Nat
    BY <2>1 DEF TypeOK
  <2>3. ASSUME \A b \in InVector : ~(held'[b] > held[b])
        PROVE  Tightest
    BY <2>3
  <2>4. ASSUME UNCHANGED held
        PROVE  Tightest
    BY <2>1, <2>2, <2>3, <2>4
  <2>5. ASSUME NEW n, NEW i, NEW ev, Grow(n, i, ev)
        PROVE  Tightest
    BY <2>1, <2>2, <2>5, GrowHolds
  <2>6. ASSUME NEW n \in Sizes, Allocate(n)
        PROVE  Tightest
    BY <2>4, <2>5, <2>6 DEF Allocate, BeginScan, clientVars
  <2>7. CASE ScanFree
    <3> DEFINE d == allVector[scan.at]
    <3>1. Scanning /\ scan.at <= Len(allVector)
      BY <2>7 DEF ScanFree
    <3>2. \/ \E why : Abort(why)
          \/ Grow(scan.req, scan.lb, Cleared(d))
          \/ Reuse(d, scan.req, Cleared(d))
      BY <2>7 DEF ScanFree
    <3>3. CASE Reuse(d, scan.req, Cleared(d))
      <4> SUFFICES ASSUME NEW b \in InVector, held'[b] > held[b],
                          NEW c \in FreeAtCall, request'[b] <= nbytes[c]
                   PROVE  nbytes[b] <= nbytes[c]
        OBVIOUS
      <4>1. /\ held' = [held EXCEPT ![ptr[d]] = @ + 1]
            /\ request' = [request EXCEPT ![d] = scan.req]
        BY <3>3 DEF Reuse, HandOut
      <4>2. b = ptr[d]
        BY <2>1, <2>2, <4>1 DEF TypeOK
      <4>3. d \in Blocks
        <5>1. scan \in [req : Sizes, lb : Nat \ {0}, at : Nat \ {0}, free : SUBSET Blocks]
          BY <2>1, <3>1 DEF TypeOK, Scanning
        <5>2. QED
          BY <2>1, <3>1, <5>1, ElementOfSeq, LenProperties DEF TypeOK
      <4>4. b = d
        BY <1>1, <2>1, <4>2, <4>3, NullAssumption DEF IInv, HolderInv
      <4>5. request'[b] = scan.req
        BY <2>1, <4>1, <4>3, <4>4 DEF TypeOK
      <4>6. QED
        BY <1>1, <3>1, <4>4, <4>5, FoundIsSmallest
    <3>4. QED
      BY <2>4, <2>5, <3>2, <3>3 DEF Abort, clientVars
  <2>8. ASSUME NEW p \in Pointers, Deallocate(p)
        PROVE  Tightest
    <3>1. CASE UNCHANGED held
      BY <2>4, <3>1
    <3>2. CASE held[p] > 0 /\ held' = [held EXCEPT ![p] = @ - 1]
      BY <2>1, <2>2, <2>3, <3>2 DEF TypeOK
    <3>3. QED
      BY <2>8, <3>1, <3>2 DEF Deallocate, Abort, clientVars
  <2>9. QED
    BY <1>1, <2>4, <2>5, <2>6, <2>7, <2>8
    DEF Next, ScanBusy, ScanExhausted, AddTrackStream, Complete, Launch, clientVars
<1>2. IInv /\ [Next]_vars => [Tightest]_vars
  BY <1>1
<1>3. Spec => [][Tightest]_vars
  BY Invariance, <1>2, PTL DEF Spec
<1>4. QED
  BY <1>3 DEF ReuseIsTightest

\* A larger block is too large for a request a smaller one is too large for.
LEMMA QuotientGrows ==
  ASSUME NEW a \in Nat, NEW b \in Nat, NEW n \in Nat, n # 0, a <= b
  PROVE  a \div n <= b \div n
<1>1. /\ a \div n \in Int /\ a % n \in 0..n - 1 /\ a = n * (a \div n) + (a % n)
      /\ b \div n \in Int /\ b % n \in 0..n - 1 /\ b = n * (b \div n) + (b % n)
  OBVIOUS
<1> DEFINE p == a \div n
           q == b \div n
<1>2. SUFFICES ASSUME q + 1 <= p
               PROVE  FALSE
  BY <1>1
<1>3. n * (p - (q + 1)) >= 0 /\ n * (p - (q + 1)) = n * p - n * q - n
  BY <1>1, <1>2
<1>4. /\ p \in Int /\ q \in Int /\ n * p \in Int /\ n * q \in Int
      /\ a >= n * p /\ b < n * q + n
  BY <1>1
<1> HIDE DEF p, q
<1>5. QED
  BY <1>3, <1>4

\* cudaMalloc is called only when the pool cannot serve the request: no block
\* that was free when Allocate began had at least n and less than 3 * n bytes.
THEOREM GrowsOnlyIfNeeded == Spec => GrowOnlyWhenNoneFits
<1> DEFINE NoneFits ==
             \A b \in InVector' \ InVector : \A c \in FreeAtCall : ~Fits(c, nbytes'[b])
<1>1. ASSUME IInv, Next
      PROVE  NoneFits
  <2>1. TypeOK /\ InVector \subseteq Blocks
    BY <1>1, ElementOfSeq, LenProperties DEF IInv, TypeOK, InVector
  <2>2. FreeAtCall \subseteq InVector
    <3>1. CASE scan = Idle
      BY <3>1 DEF FreeAtCall
    <3>2. CASE scan # Idle
      BY <1>1, <3>2, Zenon DEF FreeAtCall, IInv, FreeInv
    <3>3. QED
      BY <3>1, <3>2
  <2>3. ASSUME UNCHANGED allVector
        PROVE  NoneFits
    BY <2>3 DEF InVector
  <2>4. ASSUME NEW n \in Sizes, NEW i \in 1..Len(allVector) + 1, NEW ev, Grow(n, i, ev),
               \A c \in FreeAtCall : ~Fits(c, n)
        PROVE  NoneFits
    <3>1. CASE Abort("exit_failure")
      BY <2>3, <3>1 DEF Abort
    <3>2. ASSUME NEW d \in Unused, NewBlock(d, n, i, ev)
          PROVE  NoneFits
      <4>1. InVector' = InVector \cup {d} /\ d \in Blocks
        BY <2>1, <3>2, NewBlockVector
      <4>2. nbytes'[d] = n
        BY <2>1, <3>2, <4>1 DEF NewBlock, TypeOK
      <4>3. QED
        BY <2>4, <4>1, <4>2
    <3>3. QED
      BY <2>4, <3>1, <3>2 DEF Grow
  <2>5. ASSUME NEW n \in Sizes, Allocate(n)
        PROVE  NoneFits
    <3>1. PICK i \in 1..Len(allVector) + 1 :
            /\ IsLowerBound(i, n)
            /\ IF i > Len(allVector) THEN Grow(n, i, events) ELSE BeginScan(n, i)
      BY <2>5 DEF Allocate
    <3>2. CASE i > Len(allVector)
      <4>1. ASSUME NEW c \in InVector
            PROVE  ~Fits(c, n)
        <5>1. PICK k \in DOMAIN allVector : allVector[k] = c
          BY DEF InVector
        <5>2. k < i
          BY <2>1, <3>2, LenProperties DEF TypeOK
        <5>3. nbytes[c] < n
          BY <3>1, <5>1, <5>2 DEF IsLowerBound
        <5>4. nbytes[c] \in Nat /\ n \in Nat
          BY <2>1, SizesAssumption DEF TypeOK
        <5>5. QED
          BY <5>3, <5>4 DEF Fits
      <4>2. QED
        BY <2>2, <2>4, <3>1, <3>2, <4>1
    <3>3. CASE ~(i > Len(allVector))
      BY <2>3, <3>1, <3>3 DEF BeginScan
    <3>4. QED
      BY <3>2, <3>3
  <2>6. ASSUME Scanning
        PROVE  scan.req \in Sizes /\ scan.lb \in 1..Len(allVector) + 1
    <3>1. scan.lb \in DOMAIN allVector
      BY <1>1, <2>6, Zenon DEF Scanning, IInv, ScanInv
    <3>2. QED
      BY <1>1, <2>1, <2>6, <3>1, ScanFacts, LenProperties DEF TypeOK
  <2>7. CASE ScanExhausted
    <3>1. Scanning /\ scan.at > Len(allVector) /\ Grow(scan.req, scan.lb, events)
      BY <2>7 DEF ScanExhausted
    <3>2. ASSUME NEW c \in FreeAtCall
          PROVE  ~Fits(c, scan.req)
      <4>1. SUFFICES ASSUME scan.req <= nbytes[c]
                     PROVE  FALSE
        BY DEF Fits
      <4>2. PICK k \in DOMAIN allVector : scan.at <= k
        BY <1>1, <3>1, <4>1, FreeBlocksAhead
      <4>3. QED
        BY <1>1, <2>1, <3>1, <4>2, ScanFacts, LenProperties DEF TypeOK
    <3>3. QED
      BY <2>4, <2>6, <3>1, <3>2
  <2>8. CASE ScanFree
    <3> DEFINE d == allVector[scan.at]
               n == scan.req
    <3>1. Scanning /\ scan.at <= Len(allVector)
      BY <2>8 DEF ScanFree
    <3>2. \/ \E why : Abort(why)
          \/ n # 0 /\ TooLarge(d, n) /\ Grow(n, scan.lb, Cleared(d))
          \/ Reuse(d, n, Cleared(d))
      BY <2>8 DEF ScanFree
    <3>3. CASE n # 0 /\ TooLarge(d, n) /\ Grow(n, scan.lb, Cleared(d))
      <4>1. ASSUME NEW c \in FreeAtCall
            PROVE  ~Fits(c, n)
        <5>1. SUFFICES ASSUME n <= nbytes[c]
                       PROVE  TooLarge(c, n)
          BY DEF Fits
        <5>2. nbytes[d] <= nbytes[c]
          BY <1>1, <3>1, <5>1, FoundIsSmallest
        <5>3. n \in Nat /\ nbytes[c] \in Nat
          BY <1>1, <2>1, <2>2, <3>1, ScanFacts DEF TypeOK
        <5>4. nbytes[d] \in Nat
          <6>1. scan \in [req : Sizes, lb : Nat \ {0}, at : Nat \ {0}, free : SUBSET Blocks]
            BY <2>1, <3>1 DEF TypeOK, Scanning
          <6>2. d \in Blocks
            BY <2>1, <3>1, <6>1, ElementOfSeq, LenProperties DEF TypeOK
          <6>3. QED
            BY <2>1, <6>2 DEF TypeOK
        <5> DEFINE x == nbytes[d]
                   y == nbytes[c]
        <5>5. x \div n > 2 /\ x \in Nat /\ y \in Nat /\ x <= y /\ n # 0
          BY <3>3, <5>2, <5>3, <5>4 DEF TooLarge
        <5> HIDE DEF x, y, n
        <5>6. x \div n <= y \div n
          BY <5>3, <5>5, QuotientGrows
        <5>7. x \div n \in Int /\ y \div n \in Int
          BY <5>3, <5>5
        <5>8. y \div n > 2
          BY <5>5, <5>6, <5>7
        <5>9. QED
          BY <5>8 DEF TooLarge, y
      <4>2. QED
        BY <2>4, <2>6, <3>1, <3>3, <4>1
    <3>4. QED
      BY <2>3, <3>2, <3>3 DEF Abort, Reuse
  <2>9. QED
    BY <1>1, <2>3, <2>5, <2>7, <2>8
    DEF Next, ScanBusy, Deallocate, Abort, AddTrackStream, Complete, Launch, poolVars
<1>2. IInv /\ [Next]_vars => [NoneFits]_vars
  BY <1>1
<1>3. Spec => [][NoneFits]_vars
  BY Invariance, <1>2, PTL DEF Spec
<1>4. QED
  BY <1>3 DEF GrowOnlyWhenNoneFits
=============================================================================
