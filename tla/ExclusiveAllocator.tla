------------------------- MODULE ExclusiveAllocator -------------------------
(***************************************************************************)
(* What kaleido/core/allocator.h promises its clients, with the size       *)
(* requirement of tests/test_allocator.cc in the form the pool enforces:   *)
(* a region has one holder at a time, is at least as large as asked and    *)
(* less than three times as large, and keeps its size for ever.            *)
(***************************************************************************)
EXTENDS Integers

CONSTANTS
  Regions,    (* pieces of device memory                                   *)
  Requests    (* byte counts that may be asked for                         *)

VARIABLES
  reserved,   (* the regions obtained from the device so far               *)
  size,       (* bytes of a region                                         *)
  live,       (* the regions that have a holder                            *)
  asked       (* bytes the latest holder of a region asked for             *)

vars == <<reserved, size, live, asked>>

Init ==
  /\ reserved = {}
  /\ size = [r \in Regions |-> 0]
  /\ live = {}
  /\ asked = [r \in Regions |-> 0]

\* Allocate(n) obtains a region of exactly n bytes from the device,
Reserve(r, n) ==
  /\ r \in Regions \ reserved
  /\ reserved' = reserved \cup {r}
  /\ size' = [size EXCEPT ![r] = n]
  /\ live' = live \cup {r}
  /\ asked' = [asked EXCEPT ![r] = n]

\* or serves the request with a region that nobody holds.
Serve(r, n) ==
  /\ r \in reserved \ live
  /\ n <= size[r] /\ size[r] < 3 * n
  /\ live' = live \cup {r}
  /\ asked' = [asked EXCEPT ![r] = n]
  /\ UNCHANGED <<reserved, size>>

\* Deallocate.
Return(r) ==
  /\ r \in live
  /\ live' = live \ {r}
  /\ UNCHANGED <<reserved, size, asked>>

Next ==
  \E r \in Regions :
    \/ \E n \in Requests : Reserve(r, n) \/ Serve(r, n)
    \/ Return(r)

Spec == Init /\ [][Next]_vars
=============================================================================
