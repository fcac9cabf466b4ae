-------------------------------- MODULE Gc --------------------------------
(***************************************************************************)
(* The Carbon garbage collector: gc/GC.cpp over gc/ArenaManager.cpp, with  *)
(* the program (mutator) and the host that drives the pass API around it.  *)
(*                                                                         *)
(* A block is <<arena, index>>.  Which free block of an arena is handed    *)
(* out next is left open here; Arena.tla models the freelist itself, and   *)
(* the DEAD flag that release reads there.                                 *)
(*                                                                         *)
(* The mutator works only on what it can reach, and does not run while     *)
(* roots are being marked; it does run between two calls of sweep_pass.    *)
(***************************************************************************)
EXTENDS Naturals, FiniteSets

CONSTANTS
  NumArenas,  \* arenas the reserved region has room for
  Cap,        \* blocks of one arena
  Classes,    \* size classes
  CycleMod,   \* GC_PASS_CYCLE_MOD: cycles are 1 .. CycleMod
  Budgets,    \* budgets the host passes to sweep_pass
  MaxRefs,    \* bound: pointers one object stores
  SizeMod,    \* number of values of size_t
  None        \* no size class

ASSUME GcAssumption ==
  /\ NumArenas \in Nat /\ Cap \in Nat
  /\ CycleMod \in Nat /\ CycleMod >= 2
  /\ Budgets \subseteq Nat \ {0}
  /\ MaxRefs \in Nat
  /\ SizeMod \in Nat \ {0}
  /\ None \notin Classes

ArenaIds == 1 .. NumArenas
Block == ArenaIds \X (0 .. Cap - 1)

VARIABLES
  narenas,  \* m_all_arenas.size()
  cls,      \* size class of each arena
  bitmap,   \* allocated blocks of all arenas
  cycle,    \* pass_cycle bits of each block's header
  marked,   \* blocks with the MARKED flag
  pass,     \* GCState::current_pass
  phase,    \* GCState::phase
  sweepA,   \* sweep_arena_idx (counted from 1)
  sweepB,   \* sweep_block_idx
  total_allocated,
  total_freed,
  roots,    \* blocks the program's registers and globals point to
  refs,     \* blocks each object's pointer fields point to
  host,     \* where the host stands in a pass
  pending,  \* roots the host has not passed to mark_object yet
  kept      \* history: reachable when the pass started, or allocated since

heapVars == <<narenas, cls, bitmap>>
passVars == <<pass, phase, sweepA, sweepB>>
hostVars == <<host, pending>>
vars == <<heapVars, cycle, marked, passVars, total_allocated, total_freed,
          roots, refs, hostVars, kept>>

Init ==
  /\ narenas = 0
  /\ cls = [a \in ArenaIds |-> None]
  /\ bitmap = {}
  /\ cycle = [b \in Block |-> 0]
  /\ marked = {}
  /\ pass = 0
  /\ phase = "IDLE"
  /\ sweepA = 1
  /\ sweepB = 0
  /\ total_allocated = 0
  /\ total_freed = 0
  /\ roots = {}
  /\ refs = [b \in Block |-> {}]
  /\ host = "idle"
  /\ pending = {}
  /\ kept = {}

-----------------------------------------------------------------------------
(* Reachability, as the least set that holds the roots and is closed under *)
(* references.                                                             *)

ReachOf(R, f) ==
  {b \in Block : \A S \in SUBSET Block :
                   (R \subseteq S /\ \A x \in S : f[x] \subseteq S) => b \in S}
Reachable == ReachOf(roots, refs)

-----------------------------------------------------------------------------
(* Allocation *)

ArenasOf(c) == {a \in 1 .. narenas : cls[a] = c}
IsLast(a, c) == a \in ArenasOf(c) /\ \A x \in ArenasOf(c) : x <= a
IsFull(a) == \A i \in 0 .. Cap - 1 : <<a, i>> \in bitmap

\* ArenaManager::allocate asks the newest arena of the class only.
FromLastArena(c, b) ==
  /\ IsLast(b[1], c)
  /\ b \notin bitmap
  /\ UNCHANGED <<narenas, cls>>

\* ArenaManager::grow_class: a new arena at the end of the used part of the region.
FromNewArena(c, b) ==
  /\ \A a \in ArenaIds : IsLast(a, c) => IsFull(a)
  /\ narenas < NumArenas
  /\ narenas' = narenas + 1
  /\ cls' = [cls EXCEPT ![narenas + 1] = c]
  /\ b[1] = narenas + 1

\* Mutants of AllocCycle: no cycle yet, and the cycle of the pass to come.
AllocCycleZero == 0
AllocCycleAhead == IF pass = CycleMod THEN 1 ELSE pass + 1

AllocCycle == pass

\* gc::alloc; the result lands in a register, its payload is zeroed.
Alloc(c, b) ==
  /\ host # "marking"
  /\ FromLastArena(c, b) \/ FromNewArena(c, b)
  /\ bitmap' = bitmap \cup {b}
  /\ cycle' = [cycle EXCEPT ![b] = AllocCycle]
  /\ marked' = marked \ {b}
  /\ total_allocated' = (total_allocated + 1) % SizeMod
  /\ roots' = roots \cup {b}
  /\ refs' = [refs EXCEPT ![b] = {}]
  /\ kept' = kept \cup {b}
  /\ UNCHANGED <<passVars, total_freed, hostVars>>

\* Mutant of Release: the statistics are not updated.
ReleaseUncounted(b) ==
  /\ host # "marking"
  /\ b \in roots
  /\ \A x \in Reachable \ {b} : b \notin refs[x]
  /\ bitmap' = bitmap \ {b}
  /\ roots' = roots \ {b}
  /\ refs' = [refs EXCEPT ![b] = {}]
  /\ kept' = kept \ {b}
  /\ UNCHANGED <<narenas, cls, cycle, marked, passVars, total_allocated, total_freed, hostVars>>

\* gc::release of an object nothing else the program can reach points to.
Release(b) ==
  /\ host # "marking"
  /\ b \in roots
  /\ \A x \in Reachable \ {b} : b \notin refs[x]
  /\ bitmap' = bitmap \ {b}
  /\ total_freed' = (total_freed + 1) % SizeMod
  /\ roots' = roots \ {b}
  /\ refs' = [refs EXCEPT ![b] = {}]
  /\ kept' = kept \ {b}
  /\ UNCHANGED <<narenas, cls, cycle, marked, passVars, total_allocated, hostVars>>

-----------------------------------------------------------------------------
(* The program's own moves, on what it can reach. *)

MutatorFrame == UNCHANGED <<heapVars, cycle, marked, passVars, total_allocated,
                            total_freed, hostVars, kept>>

Store(x, y) ==
  /\ host # "marking"
  /\ Cardinality(refs[x]) < MaxRefs
  /\ refs' = [refs EXCEPT ![x] = @ \cup {y}]
  /\ MutatorFrame /\ UNCHANGED roots

Erase(x, y) ==
  /\ host # "marking"
  /\ refs' = [refs EXCEPT ![x] = @ \ {y}]
  /\ MutatorFrame /\ UNCHANGED roots

Load(y) ==
  /\ host # "marking"
  /\ roots' = roots \cup {y}
  /\ MutatorFrame /\ UNCHANGED refs

Forget(y) ==
  /\ host # "marking"
  /\ roots' = roots \ {y}
  /\ MutatorFrame /\ UNCHANGED refs

-----------------------------------------------------------------------------
(* The pass API *)

\* Mutants of NextCycle: no wrap-around, and a period that is one too short.
NextCycleNoWrap(c) == c + 1
NextCycleShort(c) == IF c >= CycleMod - 1 THEN 1 ELSE c + 1

\* gc_next_cycle: the successor in 1 .. CycleMod, 0 skipped when the bits wrap.
NextCycle(c) == IF c = CycleMod THEN 1 ELSE c + 1

StartPass ==
  /\ host = "idle"
  /\ pass' = NextCycle(pass)
  /\ phase' = "MARK"
  /\ sweepA' = 1
  /\ sweepB' = 0
  /\ host' = "marking"
  /\ pending' = roots
  /\ kept' = Reachable
  /\ UNCHANGED <<heapVars, cycle, marked, total_allocated, total_freed, roots, refs>>

\* mark_object(r): depth first, stopping at objects that carry this pass's cycle.
Black == {b \in Block : cycle[b] = pass}
MarkSet(r) ==
  IF r \in Black THEN {} ELSE ReachOf({r}, [x \in Block |-> refs[x] \ Black])

MarkRoot(r) ==
  /\ host = "marking"
  /\ r \in pending
  /\ pending' = pending \ {r}
  /\ cycle' = [b \in Block |-> IF b \in MarkSet(r) THEN pass ELSE cycle[b]]
  /\ marked' = marked \cup MarkSet(r)
  /\ UNCHANGED <<heapVars, passVars, total_allocated, total_freed, roots, refs, host, kept>>

\* Sweep order: arena by arena, block by block.
Before(b, a, i) == b[1] < a \/ (b[1] = a /\ b[2] < i)

\* Mutant of ToSweep: the sweep ends with the arena it is in.
ToSweepOneArena == {b \in bitmap : b[1] = sweepA /\ ~Before(b, sweepA, sweepB)}

\* Mutant of ToSweep: every slice starts again from the first block.
ToSweepFromStart == bitmap

ToSweep == {b \in bitmap : ~Before(b, sweepA, sweepB)}
Visit(n) == {b \in ToSweep : Cardinality({x \in ToSweep : Before(x, b[1], b[2])}) < n}

\* Mutant of Garbage: marked objects are not spared.
GarbageAll(visited) == visited

\* Of the visited blocks, the ones without this pass's cycle are reclaimed.
Garbage(visited) == visited \ Black

\* ++sweep_block_idx
AfterBlock(i) == i + 1

\* sweep_pass(n): visits at most n allocated blocks and reports completion
\* only if it ran out of blocks before it ran out of budget.
SweepPass(n) ==
  /\ (host = "marking" /\ pending = {}) \/ host = "sweeping"
  /\ LET visited == Visit(n)
         garbage == Garbage(visited)
     IN  /\ bitmap' = bitmap \ garbage
         /\ marked' = marked \ (visited \cap Black)
         /\ total_freed' = (total_freed + Cardinality(garbage)) % SizeMod
         /\ refs' = [b \in Block |-> IF b \in garbage THEN {} ELSE refs[b]]
         /\ IF Cardinality(ToSweep) < n
            THEN /\ sweepA' = narenas + 1
                 /\ sweepB' = 0
                 /\ phase' = "IDLE"
                 /\ host' = "swept"
            ELSE /\ \E last \in visited :
                      /\ \A x \in visited \ {last} : Before(x, last[1], last[2])
                      /\ sweepA' = last[1]
                      /\ sweepB' = AfterBlock(last[2])
                 /\ UNCHANGED phase
                 /\ host' = "sweeping"
  /\ UNCHANGED <<narenas, cls, cycle, pass, total_allocated, roots, pending, kept>>

FinishPass ==
  /\ host = "swept"
  /\ phase' = "IDLE"
  /\ sweepA' = 1
  /\ sweepB' = 0
  /\ host' = "idle"
  /\ kept' = {}
  /\ UNCHANGED <<heapVars, cycle, marked, pass, total_allocated, total_freed,
                 roots, refs, pending>>

\* gc::collect marks nothing: every object goes.  The host may call it when
\* the program holds no pointer.
Collect ==
  /\ host = "idle"
  /\ roots = {}
  /\ pass' = NextCycle(pass)
  /\ bitmap' = {b \in bitmap : cycle[b] = NextCycle(pass)}
  /\ marked' = marked \ bitmap'
  /\ total_freed' = (total_freed + Cardinality(bitmap \ bitmap')) % SizeMod
  /\ refs' = [b \in Block |-> IF b \in bitmap \ bitmap' THEN {} ELSE refs[b]]
  /\ phase' = "IDLE"
  /\ sweepA' = 1
  /\ sweepB' = 0
  /\ UNCHANGED <<narenas, cls, cycle, total_allocated, roots, hostVars, kept>>

-----------------------------------------------------------------------------

Mutator ==
  \/ \E c \in Classes, b \in Block : Alloc(c, b)
  \/ \E b \in roots : Release(b)
  \/ \E x \in Reachable, y \in Reachable : Store(x, y)
  \/ \E x \in Reachable : \E y \in refs[x] : Erase(x, y)
  \/ \E y \in Reachable \ roots : Load(y)
  \/ \E y \in roots : Forget(y)

Sweep == \E n \in Budgets : SweepPass(n)

Host ==
  \/ StartPass
  \/ \E r \in pending : MarkRoot(r)
  \/ Sweep
  \/ FinishPass
  \/ Collect

Next == Mutator \/ Host

Spec == Init /\ [][Next]_vars

(***************************************************************************)
(* A host that has started a pass goes on with it: it marks its roots one  *)
(* after the other, calls sweep_pass until it returns true and then        *)
(* finish_pass, as the loops of gc::collect and of the tests do.           *)
(***************************************************************************)
FairSpec ==
  /\ Spec
  /\ WF_vars(\E r \in pending : MarkRoot(r))
  /\ WF_vars(Sweep)
  /\ WF_vars(FinishPass)

-----------------------------------------------------------------------------

TypeOK ==
  /\ narenas \in 0 .. NumArenas
  /\ cls \in [ArenaIds -> Classes \cup {None}]
  /\ bitmap \in SUBSET Block
  /\ cycle \in [Block -> 0 .. CycleMod]
  /\ marked \in SUBSET Block
  /\ pass \in 0 .. CycleMod
  /\ phase \in {"IDLE", "MARK", "SWEEP"}
  /\ sweepA \in 1 .. NumArenas + 1
  /\ sweepB \in 0 .. Cap
  /\ total_allocated \in 0 .. SizeMod - 1 /\ total_freed \in 0 .. SizeMod - 1
  /\ roots \in SUBSET Block
  /\ refs \in [Block -> SUBSET Block]
  /\ host \in {"idle", "marking", "sweeping", "swept"}
  /\ pending \in SUBSET Block
  /\ kept \in SUBSET Block

(***************************************************************************)
(* No object the program can reach is ever reclaimed, although sweep_pass  *)
(* runs in slices with allocation, stores and releases between them.       *)
(***************************************************************************)
ReachableStaysAllocated == Reachable \subseteq bitmap

(***************************************************************************)
(* When sweep_pass reports completion, everything that was unreachable     *)
(* when the pass started is gone: whatever is still allocated was          *)
(* reachable at start_pass or was allocated after it.                      *)
(***************************************************************************)
CompletePassReclaims == host = "swept" => bitmap \subseteq kept

(***************************************************************************)
(* The four bits of pass_cycle wrap around, yet no object carries the      *)
(* cycle of a pass that is only starting: mark_object would take it for    *)
(* already visited and never look at what it points to.                    *)
(***************************************************************************)
CycleIsFreshAtStart ==
  [][pass' # pass => \A b \in bitmap : cycle[b] # pass']_vars

(***************************************************************************)
(* Marking only writes headers of allocated blocks: in a freed block the   *)
(* same word is the freelist link.                                         *)
(***************************************************************************)
MarkWritesLiveHeaders ==
  [][\A b \in Block : cycle'[b] # cycle[b] => b \in bitmap']_vars

(***************************************************************************)
(* gc::stats balances over every path that allocates or reclaims:          *)
(* total_allocated - total_freed is the number of live objects.            *)
(***************************************************************************)
StatsBalance == total_allocated = (total_freed + Cardinality(bitmap)) % SizeMod

(***************************************************************************)
(* The heap and the counters that gc::stats reports of it (GC.cpp) agree   *)
(* in every state, in the middle of a pass too.                            *)
(***************************************************************************)
HeapInv == TypeOK /\ StatsBalance

(***************************************************************************)
(* A pass that was started is finished, although the program keeps         *)
(* allocating between the slices of the sweep.                             *)
(***************************************************************************)
PassTerminates == (host = "marking") ~> (host = "idle")

(***************************************************************************)
(* GCHeader.hpp, comment on pass_cycle: a live object always has           *)
(* pass_cycle in 1..15.                                                    *)
(***************************************************************************)
LiveObjectHasCycle == \A b \in bitmap : cycle[b] \in 1 .. CycleMod

=============================================================================
