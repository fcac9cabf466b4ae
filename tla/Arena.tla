------------------------------- MODULE Arena -------------------------------
(***************************************************************************)
(* One arena of the Carbon heap (gc/Arena.cpp) with the two operations of  *)
(* gc/GC.cpp that reach it directly: alloc and release.                    *)
(*                                                                         *)
(* A block starts with an 8 byte word that has two readings.  While the    *)
(* block is allocated it is the GCHeader: type_index in the low half,      *)
(* flags (with DEAD at bit 1) in the high half.  Once the block is         *)
(* returned the same word is the freelist link.  word[b] records what      *)
(* either reader finds: "next" is the word read as a pointer, "dead" is    *)
(* bit 1 of the high half.                                                 *)
(***************************************************************************)
EXTENDS Naturals, Sequences, FiniteSets

CONSTANTS
  Cap,           \* m_capacity
  SizeMod,       \* number of values of size_t
  HeapAddrBit,   \* bit 33 of the heap's addresses: bit 1 of the high half of a link
  Null,          \* nullptr
  Wild           \* a header read as a pointer: an address outside the heap

ASSUME ArenaAssumption ==
  /\ Cap \in Nat \ {0}
  /\ SizeMod \in Nat /\ SizeMod > Cap
  /\ HeapAddrBit \in BOOLEAN
  /\ Null \notin 0 .. Cap /\ Wild \notin 0 .. Cap /\ Null # Wild

Block == 0 .. Cap - 1

VARIABLES
  bump,            \* m_bump, as the index of the first block never handed out
  freeHead,        \* m_free_head
  word,            \* first word of every block
  bitmap,          \* m_bitmap, as the set of blocks whose bit is set
  used,            \* m_used
  freeCount,       \* m_free_count
  total_allocated, \* GCState::total_allocated
  total_freed,     \* GCState::total_freed
  held,            \* payload pointers the program has and has not released
  stale            \* payload pointers it has released and still remembers

arenaVars == <<bump, freeHead, word, bitmap, used, freeCount>>
vars == <<arenaVars, total_allocated, total_freed, held, stale>>

Header == [next |-> Wild, dead |-> FALSE]
Link(n) == [next |-> n, dead |-> (n # Null /\ HeapAddrBit)]

Init ==
  /\ bump = 0
  /\ freeHead = Null
  /\ word = [b \in Block |-> Link(Null)]
  /\ bitmap = {}
  /\ used = 0
  /\ freeCount = 0
  /\ total_allocated = 0
  /\ total_freed = 0
  /\ held = {}
  /\ stale = {}

\* Mutants of the two ways to allocate: the head of the freelist is not
\* popped; the bump pointer is tried before the freelist, or moves too far.
AllocateFromFreelistNoPop(b) ==
  /\ freeHead # Null
  /\ b = freeHead
  /\ freeCount' = (freeCount + SizeMod - 1) % SizeMod
  /\ UNCHANGED <<bump, freeHead>>

AllocateFromBumpFirst(b) ==
  /\ bump < Cap
  /\ b = bump
  /\ bump' = bump + 1
  /\ UNCHANGED <<freeHead, freeCount>>

AllocateFromBumpTooFar(b) ==
  /\ freeHead = Null
  /\ bump < Cap
  /\ b = bump
  /\ bump' = bump + 2
  /\ UNCHANGED <<freeHead, freeCount>>

\* Arena::allocate: the freelist first, then the bump pointer.
AllocateFromFreelist(b) ==
  /\ freeHead # Null
  /\ b = freeHead
  /\ freeHead' = word[b].next
  /\ freeCount' = (freeCount + SizeMod - 1) % SizeMod
  /\ UNCHANGED bump

AllocateFromBump(b) ==
  /\ freeHead = Null
  /\ bump < Cap
  /\ b = bump
  /\ bump' = bump + 1
  /\ UNCHANGED <<freeHead, freeCount>>

\* gc::alloc: a block of the arena gets a clean header.
Alloc ==
  /\ \E b \in Block :
       /\ AllocateFromFreelist(b) \/ AllocateFromBump(b)
       /\ bitmap' = bitmap \cup {b}
       /\ used' = (used + 1) % SizeMod
       /\ word' = [word EXCEPT ![b] = Header]
       /\ held' = held \cup {b}
       /\ stale' = stale \ {b}
  /\ total_allocated' = (total_allocated + 1) % SizeMod
  /\ UNCHANGED total_freed

\* Mutants of Deallocate: the link is not written; m_used is not updated.
DeallocateNoLink(b) ==
  /\ bitmap' = bitmap \ {b}
  /\ freeHead' = b
  /\ freeCount' = (freeCount + 1) % SizeMod
  /\ used' = (used + SizeMod - 1) % SizeMod
  /\ UNCHANGED <<bump, word>>

DeallocateUncounted(b) ==
  /\ bitmap' = bitmap \ {b}
  /\ word' = [word EXCEPT ![b] = Link(freeHead)]
  /\ freeHead' = b
  /\ freeCount' = (freeCount + 1) % SizeMod
  /\ UNCHANGED <<bump, used>>

\* Arena::deallocate: the link overwrites the header, flags included.
Deallocate(b) ==
  /\ bitmap' = bitmap \ {b}
  /\ word' = [word EXCEPT ![b] = Link(freeHead)]
  /\ freeHead' = b
  /\ freeCount' = (freeCount + 1) % SizeMod
  /\ used' = (used + SizeMod - 1) % SizeMod
  /\ UNCHANGED bump

\* gc::release: nothing happens when the block's word reads as DEAD.
Release(b) ==
  /\ IF word[b].dead
     THEN UNCHANGED <<arenaVars, total_freed>>
     ELSE Deallocate(b) /\ total_freed' = (total_freed + 1) % SizeMod
  /\ held' = held \ {b}
  /\ stale' = stale \cup {b}
  /\ UNCHANGED total_allocated

ReleaseHeld == \E b \in held : Release(b)

\* The same call on a pointer that was released before, which only the
\* specification SpecStale lets the program make.
ReleaseStale == \E b \in stale : Release(b)

Next == Alloc \/ ReleaseHeld

Spec == Init /\ [][Next]_vars

SpecStale == Init /\ [][Next \/ ReleaseStale]_vars

-----------------------------------------------------------------------------

\* The k-th block of the freelist, walking the links from m_free_head.
walk[k \in 0 .. Cap] ==
  IF k = 0 THEN freeHead
  ELSE IF walk[k - 1] \in Block THEN word[walk[k - 1]].next ELSE walk[k - 1]

chain ==
  LET n == CHOOSE k \in 0 .. Cap : walk[k] \notin Block /\ \A j \in 0 .. k - 1 : walk[j] \in Block
  IN  [k \in 1 .. n |-> walk[k - 1]]

TypeOK ==
  /\ bump \in 0 .. Cap
  /\ freeHead \in Block \cup {Null, Wild}
  /\ word \in [Block -> [next : Block \cup {Null, Wild}, dead : BOOLEAN]]
  /\ bitmap \in SUBSET Block
  /\ used \in 0 .. SizeMod - 1 /\ freeCount \in 0 .. SizeMod - 1
  /\ total_allocated \in 0 .. SizeMod - 1 /\ total_freed \in 0 .. SizeMod - 1
  /\ held \in SUBSET Block /\ stale \in SUBSET Block

(***************************************************************************)
(* The freelist threaded through returned blocks by Arena::deallocate is   *)
(* intact: from m_free_head the links visit every handed-out block that is *)
(* not allocated, each exactly once, and end in nullptr after m_free_count *)
(* hops.  A lost block, a cycle or a link into an allocated block breaks   *)
(* it.                                                                     *)
(***************************************************************************)
FreelistIntact ==
  /\ walk[Cap] = Null
  /\ {walk[k] : k \in 0 .. Cap} \ {Null} = (0 .. bump - 1) \ bitmap
  /\ freeCount = Cardinality((0 .. bump - 1) \ bitmap)

(***************************************************************************)
(* The four counters agree: m_used is the number of set bits (what         *)
(* live_objects reports), used and free blocks make up the bumped part,    *)
(* and gc::stats balances: allocated - freed = live.                       *)
(***************************************************************************)
CountersAgree ==
  /\ used = Cardinality(bitmap)
  /\ used + freeCount = bump
  /\ total_allocated = (total_freed + used) % SizeMod

(***************************************************************************)
(* Two callers of gc::alloc never share a block: the blocks the program    *)
(* holds are the allocated ones, and the outstanding allocations are as    *)
(* many as the blocks held.                                                *)
(***************************************************************************)
NoSharedBlock ==
  /\ held = bitmap
  /\ total_allocated = (total_freed + Cardinality(held)) % SizeMod

(***************************************************************************)
(* Arena.cpp keeps the links, the bitmap and the counters in step over     *)
(* every order of allocate and deallocate, and no block has two owners.    *)
(***************************************************************************)
ArenaIntact == TypeOK /\ FreelistIntact /\ CountersAgree /\ NoSharedBlock

(***************************************************************************)
(* An arena implements the pool of BlockPool.tla: the links read as the    *)
(* stack of returned blocks, the bitmap as the blocks in use.              *)
(***************************************************************************)
Pool == INSTANCE BlockPool WITH fresh <- bump, free <- chain, live <- bitmap
ImplementsPool == Pool!Spec

(***************************************************************************)
(* gc_test.cpp, test FreeIsIdempotent: releasing a pointer a second time   *)
(* does nothing.                                                           *)
(***************************************************************************)
FreeIsIdempotent == [][\A b \in stale : Release(b) => UNCHANGED arenaVars]_vars

=============================================================================
