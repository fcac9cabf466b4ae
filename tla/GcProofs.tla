------------------------------ MODULE GcProofs ------------------------------
(***************************************************************************)
(* Proofs about the collector, for every number of arenas and blocks and   *)
(* every set of budgets: of Gc.tla, where every pass is completed, for     *)
(* every CycleMod >= 2, and of GcAbort.tla, where the host may give up     *)
(* MaxAborts passes in a row, for every CycleMod > MaxAborts + 1.          *)
(***************************************************************************)
EXTENDS GcAbort, FiniteSetTheorems, Modular, TLAPS

(***************************************************************************)
(* ReachOf(R, f) holds R and is closed under f.                            *)
(***************************************************************************)
LEMMA ReachOfClosed ==
  ASSUME NEW R \in SUBSET Block, NEW f \in [Block -> SUBSET Block]
  PROVE  /\ ReachOf(R, f) \in SUBSET Block
         /\ R \subseteq ReachOf(R, f)
         /\ \A x \in ReachOf(R, f) : f[x] \subseteq ReachOf(R, f)
<1>1. ReachOf(R, f) \in SUBSET Block /\ R \subseteq ReachOf(R, f)
  BY DEF ReachOf
<1>2. ASSUME NEW x \in ReachOf(R, f), NEW y \in f[x]
      PROVE  y \in ReachOf(R, f)
  <2>1. x \in Block /\ y \in Block
    BY <1>1, <1>2
  <2>2. ASSUME NEW S \in SUBSET Block, R \subseteq S, \A z \in S : f[z] \subseteq S
        PROVE  y \in S
    BY <1>2, <2>1, <2>2 DEF ReachOf
  <2>3. QED BY <2>1, <2>2 DEF ReachOf
<1>3. QED BY <1>1, <1>2

(***************************************************************************)
(* ReachOf(R, f) is contained in every closed set that holds R.            *)
(***************************************************************************)
LEMMA ReachOfLeast ==
  ASSUME NEW R, NEW f, NEW S \in SUBSET Block,
         R \subseteq S, \A x \in S : f[x] \subseteq S
  PROVE  ReachOf(R, f) \subseteq S
BY DEF ReachOf

(***************************************************************************)
(* The heap is finite, and so is every set of blocks.                      *)
(***************************************************************************)
LEMMA BlocksFinite ==
  ASSUME NEW S \in SUBSET Block
  PROVE  IsFiniteSet(S)
<1>1. IsFiniteSet(ArenaIds) /\ IsFiniteSet(0 .. Cap - 1)
  BY GcAssumption, FS_Interval DEF ArenaIds
<1>2. IsFiniteSet(Block)
  BY <1>1, FS_Product DEF Block
<1>3. QED BY <1>2, FS_Subset

-----------------------------------------------------------------------------

\* The allocated objects that carry the cycle of the current pass.
LiveBlack == bitmap \cap Black

\* When the sweep is complete every object carries the cycle of the pass.
SweptInv ==
  host = "swept" => \A b \in bitmap : cycle[b] = pass

\* While roots are marked: what is marked is reachable and closed under
\* references, and a root that is not pending is marked.
MarkingInv ==
  host = "marking" =>
    /\ pending \subseteq roots
    /\ LiveBlack \subseteq Reachable
    /\ \A x \in LiveBlack : refs[x] \subseteq LiveBlack
    /\ roots \ pending \subseteq LiveBlack
    /\ kept = Reachable
    /\ sweepA = 1 /\ sweepB = 0

\* While the sweep runs: what can be reached is marked, and the part of the
\* heap behind the sweep position holds marked objects only.
SweepingInv ==
  host = "sweeping" =>
    /\ Reachable \subseteq Black
    /\ \A b \in bitmap : Before(b, sweepA, sweepB) => b \in Black

KeptInv == host # "idle" => LiveBlack \subseteq kept

\* What holds whether or not passes are given up.
CoreInv ==
  /\ TypeOK
  /\ Reachable \subseteq bitmap
  /\ SweptInv
  /\ MarkingInv
  /\ SweepingInv
  /\ KeptInv

\* No object carries the cycle of the pass to come.
Fresh == host = "idle" => \A b \in bitmap : cycle[b] # NextCycle(pass)

\* Where every pass is completed: between two passes every object carries
\* the cycle of the last one.
IdleInv ==
  host = "idle" => \A b \in bitmap : cycle[b] = pass

\* Where passes are given up: how many passes ago a cycle was current.
Age(c) == IF c <= pass THEN pass - c ELSE (pass + CycleMod) - c

\* Objects are at most one pass older than the passes given up since the
\* last complete one; cycle 0 is that of objects older than all passes.
AgeInv ==
  /\ aborts \in 0 .. MaxAborts
  /\ \A b \in bitmap :
       cycle[b] # 0 => Age(cycle[b]) <= IF host = "idle" THEN aborts ELSE aborts + 1

\* The 4 bits of pass_cycle tell apart the passes an object may have missed.
FewAborts == MaxAborts + 1 < CycleMod

-----------------------------------------------------------------------------

(***************************************************************************)
(* Counters stay within size_t.                                            *)
(***************************************************************************)
LEMMA ModRange ==
  ASSUME NEW n \in Nat
  PROVE  n % SizeMod \in 0 .. SizeMod - 1
BY GcAssumption

(***************************************************************************)
(* gc_next_cycle yields a cycle in 1 .. CycleMod other than the current    *)
(* one.                                                                    *)
(***************************************************************************)
LEMMA NextCycleFresh ==
  ASSUME NEW c \in 0 .. CycleMod
  PROVE  NextCycle(c) \in 1 .. CycleMod /\ NextCycle(c) # c
BY GcAssumption DEF NextCycle

(***************************************************************************)
(* Every variable of the collector, of the program and of the host keeps   *)
(* its type under every step.                                              *)
(***************************************************************************)
LEMMA TypeStep == TypeOK /\ [Next]_vars => TypeOK'
<1> SUFFICES ASSUME TypeOK, [Next]_vars PROVE TypeOK'
  OBVIOUS
<1> USE GcAssumption
<1>1. Reachable \in SUBSET Block
  BY ReachOfClosed DEF TypeOK, Reachable
<1>2. ASSUME NEW c \in Classes, NEW b \in Block, Alloc(c, b) PROVE TypeOK'
  <2>1. narenas' \in 0 .. NumArenas /\ cls' \in [ArenaIds -> Classes \cup {None}]
    BY <1>2 DEF TypeOK, Alloc, FromLastArena, FromNewArena, ArenaIds
  <2>2. total_allocated' \in 0 .. SizeMod - 1
    BY <1>2, ModRange DEF TypeOK, Alloc
  <2>3. QED BY <1>2, <2>1, <2>2 DEF TypeOK, Alloc, AllocCycle, passVars, hostVars
<1>3. ASSUME NEW b \in roots, Release(b) PROVE TypeOK'
  <2>1. total_freed' \in 0 .. SizeMod - 1
    BY <1>3, ModRange DEF TypeOK, Release
  <2>2. QED BY <1>3, <2>1 DEF TypeOK, Release, passVars, hostVars
<1>4. ASSUME NEW x \in Reachable, NEW y \in Reachable, Store(x, y) PROVE TypeOK'
  BY <1>1, <1>4 DEF TypeOK, Store, MutatorFrame, heapVars, passVars, hostVars
<1>5. ASSUME NEW x \in Reachable, NEW y \in refs[x], Erase(x, y) PROVE TypeOK'
  BY <1>1, <1>5 DEF TypeOK, Erase, MutatorFrame, heapVars, passVars, hostVars
<1>6. ASSUME NEW y \in Reachable \ roots, Load(y) PROVE TypeOK'
  BY <1>1, <1>6 DEF TypeOK, Load, MutatorFrame, heapVars, passVars, hostVars
<1>7. ASSUME NEW y \in roots, Forget(y) PROVE TypeOK'
  BY <1>1, <1>7 DEF TypeOK, Forget, MutatorFrame, heapVars, passVars, hostVars
<1>8. CASE StartPass
  BY <1>1, <1>8, NextCycleFresh DEF TypeOK, StartPass, heapVars
<1>9. ASSUME NEW r \in pending, MarkRoot(r) PROVE TypeOK'
  <2>1. MarkSet(r) \in SUBSET Block
    BY <1>9, ReachOfClosed DEF TypeOK, MarkSet
  <2>2. QED BY <1>9, <2>1 DEF TypeOK, MarkRoot, heapVars, passVars
<1>10. ASSUME NEW n \in Budgets, SweepPass(n) PROVE TypeOK'
  <2> DEFINE garbage == Garbage(Visit(n))
  <2>1. Visit(n) \in SUBSET Block
    BY DEF TypeOK, Visit, ToSweep
  <2>2. Cardinality(garbage) \in Nat
    BY <2>1, BlocksFinite, FS_CardinalityType DEF Garbage
  <2>3. total_freed' \in 0 .. SizeMod - 1
    BY <1>10, <2>2, ModRange DEF TypeOK, SweepPass
  <2>4. sweepA' \in 1 .. NumArenas + 1 /\ sweepB' \in 0 .. Cap
    BY <1>10, <2>1 DEF TypeOK, SweepPass, AfterBlock, Block, ArenaIds
  <2>5. phase' \in {"IDLE", "MARK", "SWEEP"} /\ host' \in {"idle", "marking", "sweeping", "swept"}
    BY <1>10 DEF TypeOK, SweepPass
  <2>6. QED BY <1>10, <2>1, <2>3, <2>4, <2>5 DEF TypeOK, SweepPass, Garbage
<1>11. CASE FinishPass
  BY <1>11 DEF TypeOK, FinishPass, heapVars
<1>12. CASE Collect
  <2>1. Cardinality(bitmap \ bitmap') \in Nat
    BY <1>12, BlocksFinite, FS_CardinalityType DEF TypeOK, Collect
  <2>2. total_freed' \in 0 .. SizeMod - 1
    BY <1>12, <2>1, ModRange DEF TypeOK, Collect
  <2>3. pass' \in 0 .. CycleMod
    BY <1>12, NextCycleFresh DEF TypeOK, Collect
  <2>4. QED BY <1>12, <2>2, <2>3 DEF TypeOK, Collect, hostVars
<1>13. CASE UNCHANGED vars
  BY <1>13 DEF TypeOK, vars, heapVars, passVars, hostVars
<1>14. QED
  BY <1>2, <1>3, <1>4, <1>5, <1>6, <1>7, <1>8, <1>9, <1>10, <1>11, <1>12, <1>13
     DEF Next, Mutator, Host, Sweep

-----------------------------------------------------------------------------

(***************************************************************************)
(* A move of the program makes nothing reachable that was not, except the  *)
(* block it has just allocated (N is {} or that block).                    *)
(***************************************************************************)
LEMMA ReachGrowth ==
  ASSUME TypeOK, NEW R \in SUBSET Block, NEW f \in [Block -> SUBSET Block],
         NEW N \in SUBSET Block,
         R \subseteq Reachable \cup N,
         \A x \in Reachable \cup N : f[x] \subseteq Reachable \cup N
  PROVE  ReachOf(R, f) \subseteq Reachable \cup N
<1>1. Reachable \in SUBSET Block
  BY ReachOfClosed DEF TypeOK, Reachable
<1>2. Reachable \cup N \in SUBSET Block
  BY <1>1
<1>3. QED BY <1>2, ReachOfLeast

(***************************************************************************)
(* gc::alloc keeps the invariant: a new object is born with the current    *)
(* cycle, so a sweep in progress leaves it alone.                          *)
(***************************************************************************)
LEMMA AllocStep ==
  ASSUME CoreInv, NEW c \in Classes, NEW b \in Block, Alloc(c, b)
  PROVE  CoreInv'
<1> USE DEF CoreInv
<1>1. TypeOK'
  BY TypeStep DEF Next, Mutator
<1>2. /\ Reachable \in SUBSET Block /\ roots \subseteq Reachable
      /\ \A x \in Reachable : refs[x] \subseteq Reachable
  BY ReachOfClosed DEF TypeOK, Reachable
<1>3. Reachable' \subseteq Reachable \cup {b}
  <2>1. roots' \in SUBSET Block /\ refs' \in [Block -> SUBSET Block]
    BY <1>1 DEF TypeOK
  <2>2. roots' \subseteq Reachable \cup {b}
    BY <1>2 DEF Alloc
  <2>3. \A x \in Reachable \cup {b} : refs'[x] \subseteq Reachable \cup {b}
    BY <1>2 DEF Alloc, TypeOK
  <2>4. QED BY <2>1, <2>2, <2>3, ReachGrowth DEF Reachable
<1>4. cycle'[b] = pass' /\ pass' = pass /\ (\A x \in Block \ {b} : cycle'[x] = cycle[x])
  BY DEF Alloc, AllocCycle, passVars, TypeOK
<1>5. bitmap' = bitmap \cup {b} /\ bitmap \in SUBSET Block /\ host' = host /\ host # "marking"
  BY DEF Alloc, hostVars, TypeOK
<1>6. Reachable' \subseteq bitmap'
  BY <1>3, <1>5
<1>7. SweptInv'
  BY <1>4, <1>5 DEF SweptInv
<1>8. MarkingInv'
  BY <1>5 DEF MarkingInv
<1>9. SweepingInv'
  <2>1. sweepA' = sweepA /\ sweepB' = sweepB
    BY DEF Alloc, passVars
  <2>2. Black' = Black \cup {b}
    BY <1>4 DEF Black
  <2>3. QED BY <1>3, <1>5, <2>1, <2>2 DEF SweepingInv, Before
<1>10. KeptInv'
  <2>1. LiveBlack' \subseteq LiveBlack \cup {b}
    BY <1>4, <1>5 DEF LiveBlack, Black
  <2>2. kept' = kept \cup {b}
    BY DEF Alloc
  <2>3. QED BY <1>5, <2>1, <2>2 DEF KeptInv
<1>11. QED BY <1>1, <1>6, <1>7, <1>8, <1>9, <1>10

(***************************************************************************)
(* gc::release keeps the invariant: nothing reachable pointed to the       *)
(* released object.                                                        *)
(***************************************************************************)
LEMMA ReleaseStep ==
  ASSUME CoreInv, NEW b \in roots, Release(b)
  PROVE  CoreInv'
<1> USE DEF CoreInv
<1>1. TypeOK'
  BY TypeStep DEF Next, Mutator
<1>2. /\ Reachable \in SUBSET Block /\ roots \subseteq Reachable
      /\ \A x \in Reachable : refs[x] \subseteq Reachable
  BY ReachOfClosed DEF TypeOK, Reachable
<1>3. Reachable' \subseteq Reachable \ {b}
  <2> DEFINE rest == Reachable \ {b}
  <2>1. roots' \in SUBSET Block /\ refs' \in [Block -> SUBSET Block]
    BY <1>1 DEF TypeOK
  <2>2. rest \in SUBSET Block /\ roots' \subseteq rest
    BY <1>2 DEF Release
  <2>3. \A x \in rest : refs'[x] \subseteq rest
    BY <1>2 DEF Release, TypeOK
  <2>4. ReachOf(roots', refs') \subseteq rest
    <3> HIDE DEF rest
    <3>1. QED BY <2>1, <2>2, <2>3, ReachOfLeast
  <2>5. QED BY <2>4 DEF Reachable
<1>4. /\ bitmap' = bitmap \ {b} /\ host' = host /\ host # "marking"
      /\ cycle' = cycle /\ pass' = pass /\ sweepA' = sweepA /\ sweepB' = sweepB
      /\ kept' = kept \ {b}
  BY DEF Release, hostVars, passVars
<1>5. Black' = Black
  BY <1>4 DEF Black
<1>6. Reachable' \subseteq bitmap'
  BY <1>3, <1>4
<1>7. SweptInv' /\ MarkingInv'
  BY <1>4 DEF SweptInv, MarkingInv
<1>8. SweepingInv'
  BY <1>3, <1>4, <1>5 DEF SweepingInv, Before
<1>9. KeptInv'
  BY <1>4, <1>5 DEF KeptInv, LiveBlack
<1>10. QED BY <1>1, <1>6, <1>7, <1>8, <1>9

(***************************************************************************)
(* A store, an erasure, a load or a dropped register keeps the invariant:  *)
(* it moves pointers between places the program can already reach.         *)
(***************************************************************************)
LEMMA MutatorStep ==
  ASSUME CoreInv, TypeOK', MutatorFrame, host # "marking",
         Reachable' \subseteq Reachable
  PROVE  CoreInv'
<1> USE DEF CoreInv
<1>1. /\ bitmap' = bitmap /\ host' = host /\ cycle' = cycle /\ pass' = pass
      /\ sweepA' = sweepA /\ sweepB' = sweepB /\ kept' = kept
  BY DEF MutatorFrame, heapVars, passVars, hostVars
<1>2. Black' = Black /\ LiveBlack' = LiveBlack
  BY <1>1 DEF Black, LiveBlack
<1>3. SweptInv' /\ MarkingInv'
  BY <1>1 DEF SweptInv, MarkingInv
<1>4. SweepingInv'
  BY <1>1, <1>2 DEF SweepingInv, Before
<1>5. KeptInv'
  BY <1>1, <1>2 DEF KeptInv
<1>6. QED BY <1>1, <1>3, <1>4, <1>5

(***************************************************************************)
(* start_pass keeps the invariant: the new cycle is on no object.          *)
(***************************************************************************)
LEMMA StartPassStep ==
  ASSUME CoreInv, Fresh, StartPass
  PROVE  CoreInv'
<1> USE DEF CoreInv
<1>1. TypeOK'
  BY TypeStep DEF Next, Host
<1>2. /\ bitmap' = bitmap /\ roots' = roots /\ refs' = refs /\ cycle' = cycle
      /\ host' = "marking" /\ pending' = roots /\ kept' = Reachable
      /\ sweepA' = 1 /\ sweepB' = 0 /\ pass' # pass
  BY NextCycleFresh DEF StartPass, heapVars, TypeOK
<1>3. Reachable' = Reachable
  BY <1>2 DEF Reachable
<1>4. LiveBlack' = {}
  BY <1>2 DEF LiveBlack, Black, Fresh, StartPass
<1>5. SweptInv' /\ SweepingInv' /\ KeptInv'
  BY <1>2, <1>4 DEF SweptInv, SweepingInv, KeptInv
<1>6. MarkingInv'
  BY <1>2, <1>3, <1>4 DEF MarkingInv
<1>7. QED BY <1>1, <1>2, <1>3, <1>5, <1>6

(***************************************************************************)
(* What one call of mark_object visits: reachable objects without the      *)
(* current cycle, up to ones that have it.                                 *)
(***************************************************************************)
LEMMA MarkSetFacts ==
  ASSUME CoreInv, host = "marking", NEW r \in roots
  PROVE  /\ MarkSet(r) \subseteq Reachable
         /\ r \in Black \cup MarkSet(r)
         /\ \A x \in MarkSet(r) : refs[x] \subseteq Black \cup MarkSet(r)
<1> DEFINE f == [x \in Block |-> refs[x] \ Black]
<1>1. /\ Reachable \in SUBSET Block /\ roots \subseteq Reachable
      /\ \A x \in Reachable : refs[x] \subseteq Reachable
  BY ReachOfClosed DEF CoreInv, TypeOK, Reachable
<1>2. f \in [Block -> SUBSET Block] /\ {r} \in SUBSET Block
  BY DEF CoreInv, TypeOK
<1>3. \A x \in Block : f[x] = refs[x] \ Black
  OBVIOUS
<1>4. r \notin Black => MarkSet(r) = ReachOf({r}, f)
  BY DEF MarkSet
<1>5. r \in Black => MarkSet(r) = {}
  BY DEF MarkSet
<1> HIDE DEF f
<1>6. /\ ReachOf({r}, f) \in SUBSET Block /\ {r} \subseteq ReachOf({r}, f)
      /\ \A x \in ReachOf({r}, f) : f[x] \subseteq ReachOf({r}, f)
  BY <1>2, ReachOfClosed
<1>7. ReachOf({r}, f) \subseteq Reachable
  <2>1. {r} \subseteq Reachable /\ \A x \in Reachable : f[x] \subseteq Reachable
    BY <1>1, <1>3
  <2>2. QED BY <1>1, <2>1, ReachOfLeast
<1>8. QED BY <1>3, <1>4, <1>5, <1>6, <1>7

(***************************************************************************)
(* mark_object keeps the invariant: the marked objects stay closed under   *)
(* references.                                                             *)
(***************************************************************************)
LEMMA MarkRootStep ==
  ASSUME CoreInv, NEW r \in pending, MarkRoot(r)
  PROVE  CoreInv'
<1> USE DEF CoreInv
<1>1. TypeOK'
  BY TypeStep DEF Next, Host
<1>2. /\ bitmap' = bitmap /\ roots' = roots /\ refs' = refs /\ pass' = pass
      /\ host = "marking" /\ host' = host /\ pending' = pending \ {r} /\ kept' = kept
      /\ sweepA' = sweepA /\ sweepB' = sweepB
  BY DEF MarkRoot, heapVars, passVars
<1>3. Reachable' = Reachable
  BY <1>2 DEF Reachable
<1>4. r \in roots
  BY <1>2 DEF MarkingInv
<1>5. /\ MarkSet(r) \subseteq Reachable /\ r \in Black \cup MarkSet(r)
      /\ \A x \in MarkSet(r) : refs[x] \subseteq Black \cup MarkSet(r)
  BY <1>2, <1>4, MarkSetFacts
<1>6. /\ Reachable \in SUBSET Block /\ roots \subseteq Reachable
      /\ \A x \in Reachable : refs[x] \subseteq Reachable
  BY ReachOfClosed DEF TypeOK, Reachable
<1>7. Black' = Black \cup MarkSet(r)
  BY <1>2, <1>5, <1>6 DEF MarkRoot, Black, TypeOK
<1>8. LiveBlack' = LiveBlack \cup MarkSet(r)
  BY <1>2, <1>5, <1>7 DEF LiveBlack
<1>9. /\ LiveBlack \subseteq Reachable /\ roots \ pending \subseteq LiveBlack
      /\ kept = Reachable /\ sweepA = 1 /\ sweepB = 0
      /\ \A x \in LiveBlack : refs[x] \subseteq LiveBlack
  BY <1>2 DEF MarkingInv
<1>10. \A x \in LiveBlack' : refs'[x] \subseteq LiveBlack'
  <2>1. ASSUME NEW x \in MarkSet(r), NEW y \in refs[x] PROVE y \in LiveBlack'
    <3>1. y \in Reachable
      BY <1>5, <1>6
    <3>2. y \in Black \cup MarkSet(r)
      BY <1>5
    <3>3. QED BY <3>1, <3>2, <1>8 DEF LiveBlack
  <2>2. QED BY <1>2, <1>8, <1>9, <2>1
<1>11. r \in LiveBlack'
  BY <1>4, <1>5, <1>6, <1>8 DEF LiveBlack
<1>12. MarkingInv'
  BY <1>2, <1>3, <1>5, <1>8, <1>9, <1>10, <1>11 DEF MarkingInv
<1>13. KeptInv'
  BY <1>2, <1>5, <1>8, <1>9 DEF KeptInv
<1>14. QED BY <1>1, <1>2, <1>3, <1>12, <1>13 DEF SweptInv, SweepingInv

(***************************************************************************)
(* sweep_pass keeps the invariant, whatever the budget: it reclaims no     *)
(* marked object, and what it leaves behind itself is marked.              *)
(***************************************************************************)
LEMMA SweepStep ==
  ASSUME CoreInv, NEW n \in Budgets, SweepPass(n)
  PROVE  CoreInv'
<1> USE DEF CoreInv
<1> DEFINE visited == Visit(n)
           garbage == visited \ Black
<1>1. TypeOK'
  BY TypeStep DEF Next, Host, Sweep
<1>2. /\ bitmap' = bitmap \ garbage /\ roots' = roots /\ cycle' = cycle /\ pass' = pass
      /\ refs' = [b \in Block |-> IF b \in garbage THEN {} ELSE refs[b]]
      /\ kept' = kept /\ pending' = pending
      /\ host' \in {"sweeping", "swept"}
  BY DEF SweepPass, Garbage
<1>3. Black' = Black
  BY <1>2 DEF Black
<1>4. Reachable \subseteq Black
  <2>1. CASE host = "sweeping"
    BY <2>1 DEF SweepingInv
  <2>2. CASE host = "marking" /\ pending = {}
    <3>1. /\ LiveBlack \in SUBSET Block /\ roots \subseteq LiveBlack
          /\ \A x \in LiveBlack : refs[x] \subseteq LiveBlack
      BY <2>2 DEF MarkingInv, LiveBlack, TypeOK
    <3>2. Reachable \subseteq LiveBlack
      BY <3>1, ReachOfLeast DEF Reachable
    <3>3. QED BY <3>2 DEF LiveBlack
  <2>3. QED BY <2>1, <2>2 DEF SweepPass
<1>5. Reachable' \subseteq Reachable
  <2>1. /\ Reachable \in SUBSET Block /\ roots \subseteq Reachable
        /\ \A x \in Reachable : refs[x] \subseteq Reachable
    BY ReachOfClosed DEF TypeOK, Reachable
  <2>2. roots' \subseteq Reachable /\ \A x \in Reachable : refs'[x] \subseteq Reachable
    BY <1>2, <2>1
  <2>3. ReachOf(roots', refs') \subseteq Reachable
    BY <2>1, <2>2, ReachOfLeast
  <2>4. QED BY <2>3 DEF Reachable
<1>6. Reachable' \subseteq bitmap' /\ Reachable' \subseteq Black'
  BY <1>2, <1>3, <1>4, <1>5
<1>7. \A b \in bitmap : Before(b, sweepA, sweepB) => b \in Black
  <2>1. CASE host = "sweeping"
    BY <2>1 DEF SweepingInv
  <2>2. CASE host = "marking"
    BY <2>2 DEF MarkingInv, Before, TypeOK, Block, ArenaIds
  <2>3. QED BY <2>1, <2>2 DEF SweepPass
<1>8. ToSweep \in SUBSET Block /\ IsFiniteSet(ToSweep)
  BY BlocksFinite DEF ToSweep, TypeOK
<1>9. n \in Nat
  BY GcAssumption
<1>10. CASE Cardinality(ToSweep) < n
  <2>1. visited = ToSweep
    <3>1. ASSUME NEW b \in ToSweep PROVE b \in visited
      <4> DEFINE earlier == {x \in ToSweep : Before(x, b[1], b[2])}
      <4>1. Cardinality(earlier) <= Cardinality(ToSweep)
        BY <1>8, FS_Subset
      <4>2. Cardinality(earlier) \in Nat /\ Cardinality(ToSweep) \in Nat
        BY <1>8, FS_Subset, FS_CardinalityType
      <4>3. QED BY <1>9, <1>10, <4>1, <4>2 DEF Visit
    <3>2. QED BY <3>1 DEF Visit
  <2>2. \A b \in bitmap' : b \in Black
    BY <1>2, <1>7, <2>1 DEF ToSweep
  <2>3. host' = "swept"
    BY <1>10 DEF SweepPass
  <2>4. SweptInv'
    BY <1>2, <2>2 DEF SweptInv, Black
  <2>5. QED BY <1>1, <1>2, <1>3, <1>6, <2>3, <2>4
            DEF MarkingInv, SweepingInv, KeptInv, LiveBlack, SweepPass
<1>11. CASE ~(Cardinality(ToSweep) < n)
  <2>1. PICK last \in visited :
           /\ \A x \in visited \ {last} : Before(x, last[1], last[2])
           /\ sweepA' = last[1]
           /\ sweepB' = last[2] + 1
    BY <1>11 DEF SweepPass, AfterBlock
  <2>2. host' = "sweeping"
    BY <1>11 DEF SweepPass
  <2>3. ASSUME NEW b \in bitmap', Before(b, sweepA', sweepB')
        PROVE  b \in Black
    <3>1. b \in Block /\ last \in Block
      BY <1>2, <1>8 DEF TypeOK, Visit
    <3>2. CASE Before(b, sweepA, sweepB)
      BY <1>2, <1>7, <3>2
    <3>3. CASE ~Before(b, sweepA, sweepB) /\ b # last
      <4> DEFINE earlier(y) == {x \in ToSweep : Before(x, y[1], y[2])}
      <4>1. b \in ToSweep
        BY <1>2, <3>3 DEF ToSweep
      <4>2. Before(b, last[1], last[2])
        BY <2>1, <2>3, <3>1, <3>3 DEF Before, Block, ArenaIds
      <4>3. earlier(b) \subseteq earlier(last)
        BY <1>8, <3>1, <4>2 DEF Before, Block, ArenaIds
      <4>4. IsFiniteSet(earlier(last)) /\ IsFiniteSet(earlier(b))
        BY <1>8, FS_Subset
      <4>5. Cardinality(earlier(b)) <= Cardinality(earlier(last))
        BY <4>3, <4>4, FS_Subset
      <4>6. Cardinality(earlier(b)) \in Nat /\ Cardinality(earlier(last)) \in Nat
        BY <4>4, FS_CardinalityType
      <4>7. Cardinality(earlier(last)) < n
        BY <2>1 DEF Visit
      <4>8. b \in visited
        BY <1>9, <4>1, <4>5, <4>6, <4>7 DEF Visit
      <4>9. QED BY <1>2, <4>8
    <3>4. CASE b = last
      BY <1>2, <3>4
    <3>5. QED BY <3>2, <3>3, <3>4
  <2>4. SweepingInv'
    BY <1>3, <1>6, <2>3 DEF SweepingInv, Before
  <2>5. QED BY <1>1, <1>2, <1>3, <1>6, <2>2, <2>4
            DEF MarkingInv, SweptInv, KeptInv, LiveBlack, SweepPass
<1>12. QED BY <1>10, <1>11

(***************************************************************************)
(* finish_pass and gc::collect keep the invariant.                         *)
(***************************************************************************)
LEMMA FinishAndCollectStep ==
  ASSUME CoreInv, FinishPass \/ Collect
  PROVE  CoreInv'
<1> USE DEF CoreInv
<1>1. TypeOK'
  BY TypeStep DEF Next, Host
<1>2. CASE FinishPass
  <2>1. /\ bitmap' = bitmap /\ roots' = roots /\ refs' = refs /\ cycle' = cycle /\ pass' = pass
        /\ host = "swept" /\ host' = "idle"
    BY <1>2 DEF FinishPass, heapVars
  <2>2. Reachable' = Reachable
    BY <2>1 DEF Reachable
  <2>3. QED BY <1>1, <2>1, <2>2 DEF SweptInv, MarkingInv, SweepingInv, KeptInv
<1>3. CASE Collect
  <2>1. /\ host = "idle" /\ host' = "idle" /\ roots = {} /\ roots' = {} /\ pass' = NextCycle(pass)
        /\ cycle' = cycle /\ bitmap' = {b \in bitmap : cycle[b] = NextCycle(pass)}
    BY <1>3 DEF Collect, hostVars
  <2>2. refs' \in [Block -> SUBSET Block]
    BY <1>1 DEF TypeOK
  <2>3. Reachable' = {}
    <3>1. ReachOf(roots', refs') \subseteq {}
      BY <2>1, <2>2, ReachOfLeast
    <3>2. QED BY <3>1 DEF Reachable
  <2>4. SweptInv'
    BY <2>1 DEF SweptInv
  <2>5. QED BY <1>1, <2>1, <2>3, <2>4 DEF MarkingInv, SweepingInv, KeptInv
<1>4. QED BY <1>2, <1>3

(***************************************************************************)
(* CoreInv holds initially and every step keeps it, if a pass only starts  *)
(* with a cycle that no object carries.                                    *)
(***************************************************************************)
LEMMA CoreInit == Init => CoreInv
<1> SUFFICES ASSUME Init PROVE CoreInv
  OBVIOUS
<1> USE GcAssumption DEF Init
<1>1. TypeOK
  BY DEF TypeOK
<1>2. Reachable = {}
  <2>1. roots \subseteq {} /\ {} \in SUBSET Block
    OBVIOUS
  <2>2. ReachOf(roots, refs) \subseteq {}
    BY <2>1, ReachOfLeast
  <2>3. QED BY <2>2 DEF Reachable
<1>3. QED BY <1>1, <1>2 DEF CoreInv, SweptInv, MarkingInv, SweepingInv, KeptInv

LEMMA CoreStep == CoreInv /\ Fresh /\ [Next]_vars => CoreInv'
<1> SUFFICES ASSUME CoreInv, Fresh, [Next]_vars PROVE CoreInv'
  OBVIOUS
<1>1. TypeOK'
  BY TypeStep DEF CoreInv
<1>2. TypeOK
  BY DEF CoreInv
<1>3. /\ Reachable \in SUBSET Block /\ roots \subseteq Reachable
      /\ \A x \in Reachable : refs[x] \subseteq Reachable
  BY <1>2, ReachOfClosed DEF TypeOK, Reachable
<1>4. roots' \in SUBSET Block /\ refs' \in [Block -> SUBSET Block]
  BY <1>1 DEF TypeOK
<1>5. ASSUME roots' \subseteq Reachable, \A x \in Reachable : refs'[x] \subseteq Reachable
      PROVE  Reachable' \subseteq Reachable
  <2>1. ReachOf(roots', refs') \subseteq Reachable
    BY <1>3, <1>4, <1>5, ReachOfLeast
  <2>2. QED BY <2>1 DEF Reachable
<1>6. ASSUME NEW c \in Classes, NEW b \in Block, Alloc(c, b) PROVE CoreInv'
  BY <1>6, AllocStep
<1>7. ASSUME NEW b \in roots, Release(b) PROVE CoreInv'
  BY <1>7, ReleaseStep
<1>8. ASSUME NEW x \in Reachable, NEW y \in Reachable, Store(x, y) PROVE CoreInv'
  <2>1. roots' \subseteq Reachable /\ \A z \in Reachable : refs'[z] \subseteq Reachable
    BY <1>2, <1>3, <1>8 DEF Store, TypeOK
  <2>2. QED BY <1>1, <1>5, <1>8, <2>1, MutatorStep DEF Store
<1>9. ASSUME NEW x \in Reachable, NEW y \in refs[x], Erase(x, y) PROVE CoreInv'
  <2>1. roots' \subseteq Reachable /\ \A z \in Reachable : refs'[z] \subseteq Reachable
    BY <1>2, <1>3, <1>9 DEF Erase, TypeOK
  <2>2. QED BY <1>1, <1>5, <1>9, <2>1, MutatorStep DEF Erase
<1>10. ASSUME NEW y \in Reachable \ roots, Load(y) PROVE CoreInv'
  <2>1. roots' \subseteq Reachable /\ \A z \in Reachable : refs'[z] \subseteq Reachable
    BY <1>3, <1>10 DEF Load
  <2>2. QED BY <1>1, <1>5, <1>10, <2>1, MutatorStep DEF Load
<1>11. ASSUME NEW y \in roots, Forget(y) PROVE CoreInv'
  <2>1. roots' \subseteq Reachable /\ \A z \in Reachable : refs'[z] \subseteq Reachable
    BY <1>3, <1>11 DEF Forget
  <2>2. QED BY <1>1, <1>5, <1>11, <2>1, MutatorStep DEF Forget
<1>12. CASE StartPass
  BY <1>12, StartPassStep
<1>13. ASSUME NEW r \in pending, MarkRoot(r) PROVE CoreInv'
  BY <1>13, MarkRootStep
<1>14. ASSUME NEW n \in Budgets, SweepPass(n) PROVE CoreInv'
  BY <1>14, SweepStep
<1>15. CASE FinishPass \/ Collect
  BY <1>15, FinishAndCollectStep
<1>16. CASE UNCHANGED vars
  <2>1. Reachable' = Reachable /\ Black' = Black /\ LiveBlack' = LiveBlack
    BY <1>16 DEF vars, heapVars, passVars, hostVars, Reachable, Black, LiveBlack
  <2>2. QED BY <1>1, <1>16, <2>1 DEF CoreInv, SweptInv, MarkingInv, SweepingInv, KeptInv, Before,
                                  vars, heapVars, passVars, hostVars
<1>17. QED
  BY <1>6, <1>7, <1>8, <1>9, <1>10, <1>11, <1>12, <1>13, <1>14, <1>15, <1>16
     DEF Next, Mutator, Host, Sweep

-----------------------------------------------------------------------------

(***************************************************************************)
(* A step changes the current cycle only where it starts a pass, and then  *)
(* no object carries the new one.                                          *)
(***************************************************************************)
LEMMA FreshStep ==
  ASSUME CoreInv, Fresh, [Next]_vars
  PROVE  [pass' # pass => \A b \in bitmap : cycle[b] # pass']_vars
<1>1. CASE StartPass \/ Collect
  BY <1>1 DEF Fresh, StartPass, Collect
<1>2. CASE ~(StartPass \/ Collect)
  BY <1>2 DEF Next, Mutator, Host, Sweep, Alloc, Release, Store, Erase, Load, Forget,
              MutatorFrame, MarkRoot, SweepPass, FinishPass, passVars, vars
<1>3. QED BY <1>1, <1>2

(***************************************************************************)
(* A step that writes a header writes that of an allocated block.          *)
(***************************************************************************)
LEMMA HeaderStep ==
  ASSUME CoreInv, [Next]_vars
  PROVE  [\A b \in Block : cycle'[b] # cycle[b] => b \in bitmap']_vars
<1>1. ASSUME NEW b \in Block, cycle'[b] # cycle[b]
      PROVE  b \in bitmap'
  <2>1. ASSUME NEW c \in Classes, NEW x \in Block, Alloc(c, x) PROVE b \in bitmap'
    BY <1>1, <2>1 DEF CoreInv, TypeOK, Alloc
  <2>2. ASSUME NEW r \in pending, MarkRoot(r) PROVE b \in bitmap'
    <3>1. host = "marking" /\ r \in roots /\ bitmap' = bitmap
      BY <2>2 DEF CoreInv, MarkingInv, MarkRoot, heapVars
    <3>2. b \in MarkSet(r)
      BY <1>1, <2>2 DEF MarkRoot
    <3>3. b \in Reachable
      BY <3>1, <3>2, MarkSetFacts
    <3>4. QED BY <3>1, <3>3 DEF CoreInv
  <2>3. QED
    BY <1>1, <2>1, <2>2 DEF Next, Mutator, Host, Sweep, Release, Store, Erase, Load, Forget,
                            MutatorFrame, StartPass, SweepPass, FinishPass, Collect, vars
<1>2. QED BY <1>1

-----------------------------------------------------------------------------
(* The statistics. *)

\* Reclaiming objects, one or many, keeps the balance.
LEMMA ReclaimBalance ==
  ASSUME TypeOK, StatsBalance, NEW G, G \subseteq bitmap, bitmap' = bitmap \ G,
         total_freed' = (total_freed + Cardinality(G)) % SizeMod,
         total_allocated' = total_allocated
  PROVE  StatsBalance'
<1> DEFINE n == Cardinality(bitmap)
           k == Cardinality(G)
<1>1. IsFiniteSet(bitmap) /\ IsFiniteSet(G)
  BY BlocksFinite DEF TypeOK
<1>2. n \in Nat /\ k \in Nat /\ k <= n
  BY <1>1, FS_CardinalityType, FS_Subset
<1>3. bitmap \cap G = G
  OBVIOUS
<1>4. Cardinality(bitmap') = n - k
  <2>1. Cardinality(bitmap \ G) = Cardinality(bitmap) - Cardinality(bitmap \cap G)
    BY <1>1, FS_Difference, Zenon
  <2>2. QED BY <1>3, <2>1
<1>5. total_freed \in Nat /\ SizeMod \in Nat \ {0}
  BY GcAssumption DEF TypeOK
<1> HIDE DEF n, k
<1>6. n - k \in Nat /\ total_freed + k \in Nat /\ (total_freed + k) + (n - k) = total_freed + n
  BY <1>2, <1>5
<1>7. (((total_freed + k) % SizeMod) + (n - k)) % SizeMod = (total_freed + n) % SizeMod
  BY <1>5, <1>6, ModAdd
<1>8. QED BY <1>4, <1>7 DEF StatsBalance, n, k

\* Objects lie in arenas that were made.
InUse == \A b \in bitmap : b[1] <= narenas

LEMMA StatsStep ==
  ASSUME CoreInv, InUse, StatsBalance, [Next]_vars
  PROVE  InUse' /\ StatsBalance'
<1>1. TypeOK /\ roots \subseteq bitmap
  BY ReachOfClosed DEF CoreInv, TypeOK, Reachable
<1>2. ASSUME NEW c \in Classes, NEW b \in Block, Alloc(c, b) PROVE InUse' /\ StatsBalance'
  <2> DEFINE n == Cardinality(bitmap)
  <2>1. b \notin bitmap /\ InUse'
    BY <1>1, <1>2 DEF Alloc, FromLastArena, FromNewArena, InUse, IsLast, ArenasOf, TypeOK,
                      Block, ArenaIds
  <2>2. IsFiniteSet(bitmap) /\ n \in Nat
    BY <1>1, BlocksFinite, FS_CardinalityType DEF TypeOK
  <2>3. Cardinality(bitmap') = n + 1
    BY <1>2, <2>1, <2>2, FS_AddElement DEF Alloc
  <2>4. total_freed \in Nat /\ SizeMod \in Nat \ {0}
    BY <1>1, GcAssumption DEF TypeOK
  <2> HIDE DEF n
  <2>5. (((total_freed + n) % SizeMod) + 1) % SizeMod = ((total_freed + n) + 1) % SizeMod
    <3>1. total_freed + n \in Nat /\ 1 \in Nat
      BY <2>2, <2>4
    <3>2. QED BY <2>4, <3>1, ModAdd, Zenon
  <2>6. (total_freed + n) + 1 = total_freed + (n + 1)
    BY <2>2, <2>4
  <2>7. total_allocated' = (total_allocated + 1) % SizeMod /\ total_freed' = total_freed
    BY <1>2 DEF Alloc
  <2>8. QED BY <2>1, <2>3, <2>5, <2>6, <2>7 DEF StatsBalance, n
<1>3. ASSUME NEW b \in roots, Release(b) PROVE InUse' /\ StatsBalance'
  <2>1. {b} \subseteq bitmap /\ bitmap' = bitmap \ {b} /\ Cardinality({b}) = 1
    BY <1>1, <1>3, FS_Singleton DEF Release
  <2>2. QED BY <1>1, <1>3, <2>1, ReclaimBalance DEF Release, InUse
<1>4. ASSUME NEW n \in Budgets, SweepPass(n) PROVE InUse' /\ StatsBalance'
  <2>1. Garbage(Visit(n)) \subseteq bitmap
    BY DEF Garbage, Visit, ToSweep
  <2>2. QED BY <1>1, <1>4, <2>1, ReclaimBalance DEF SweepPass, InUse
<1>5. CASE Collect
  <2>1. bitmap \ bitmap' \subseteq bitmap /\ bitmap' = bitmap \ (bitmap \ bitmap')
    BY <1>5 DEF Collect
  <2>2. QED BY <1>1, <1>5, <2>1, ReclaimBalance DEF Collect, InUse
<1>6. CASE UNCHANGED <<narenas, bitmap, total_allocated, total_freed>>
  BY <1>6 DEF InUse, StatsBalance
<1>7. QED
  BY <1>2, <1>3, <1>4, <1>5, <1>6
     DEF Next, Mutator, Host, Sweep, Store, Erase, Load, Forget, MutatorFrame, StartPass,
         MarkRoot, FinishPass, heapVars, vars

-----------------------------------------------------------------------------
(* Every pass is completed: Spec. *)

\* The inductive invariant of Spec, statistics included.
IInv == CoreInv /\ IdleInv /\ InUse /\ StatsBalance

(***************************************************************************)
(* Between two passes objects carry the last cycle, so the next is fresh.  *)
(***************************************************************************)
LEMMA IdleIsFresh == CoreInv /\ IdleInv => Fresh
BY NextCycleFresh DEF CoreInv, TypeOK, IdleInv, Fresh

LEMMA CountInit == Init => InUse /\ StatsBalance
<1> SUFFICES ASSUME Init PROVE InUse /\ StatsBalance
  OBVIOUS
<1>1. bitmap = {} /\ total_allocated = 0 /\ total_freed = 0
  BY DEF Init
<1>2. 0 % SizeMod = 0
  BY GcAssumption
<1>3. QED BY <1>1, <1>2, FS_EmptySet DEF InUse, StatsBalance

LEMMA InvInit == Init => IInv
<1>1. Init => IdleInv
  BY DEF Init, IdleInv
<1>2. QED BY <1>1, CoreInit, CountInit DEF IInv

LEMMA InvStep == IInv /\ [Next]_vars => IInv'
<1> SUFFICES ASSUME IInv, [Next]_vars PROVE IInv'
  OBVIOUS
<1>1. Fresh
  BY IdleIsFresh DEF IInv
<1>2. CoreInv' /\ InUse' /\ StatsBalance'
  BY <1>1, CoreStep, StatsStep DEF IInv
<1>3. IdleInv'
  <2>1. CASE FinishPass
    BY <2>1 DEF IInv, CoreInv, SweptInv, IdleInv, FinishPass, heapVars
  <2>2. CASE Collect
    BY <2>2 DEF IdleInv, Collect
  <2>3. ASSUME NEW c \in Classes, NEW b \in Block, Alloc(c, b) PROVE IdleInv'
    BY <2>3 DEF IInv, CoreInv, TypeOK, IdleInv, Alloc, AllocCycle, passVars, hostVars
  <2>4. ASSUME NEW b \in roots, Release(b) PROVE IdleInv'
    BY <2>4 DEF IInv, IdleInv, Release, passVars, hostVars
  <2>5. CASE UNCHANGED <<bitmap, cycle, pass, host>>
    BY <2>5 DEF IInv, IdleInv
  <2>6. CASE host' # "idle"
    BY <2>6 DEF IdleInv
  <2>7. QED
    BY <2>1, <2>2, <2>3, <2>4, <2>5, <2>6
       DEF Next, Mutator, Host, Sweep, Store, Erase, Load, Forget, MutatorFrame, StartPass,
           MarkRoot, SweepPass, heapVars, passVars, hostVars, vars
<1>4. QED BY <1>2, <1>3 DEF IInv

(***************************************************************************)
(* The collector's variables keep their types, for every heap size.        *)
(***************************************************************************)
THEOREM TypeCorrect == Spec => []TypeOK
<1>1. IInv => TypeOK
  BY DEF IInv, CoreInv
<1>2. QED BY <1>1, InvInit, InvStep, PTL DEF Spec

(***************************************************************************)
(* Incremental sweeping never reclaims an object the program can reach,    *)
(* for every heap size and every slicing of the sweep into budgets.        *)
(***************************************************************************)
THEOREM SweepIsSafe == Spec => []ReachableStaysAllocated
<1>1. IInv => ReachableStaysAllocated
  BY DEF IInv, CoreInv, ReachableStaysAllocated
<1>2. QED BY <1>1, InvInit, InvStep, PTL DEF Spec

(***************************************************************************)
(* When the sweep is complete, what is left was kept.                      *)
(***************************************************************************)
LEMMA SweptIsKept == CoreInv => CompletePassReclaims
BY DEF CoreInv, CompletePassReclaims, SweptInv, KeptInv, LiveBlack, Black, TypeOK

(***************************************************************************)
(* A complete pass reclaims everything that was garbage when it started.   *)
(***************************************************************************)
THEOREM PassIsComplete == Spec => []CompletePassReclaims
<1>1. IInv => CompletePassReclaims
  BY SweptIsKept DEF IInv
<1>2. QED BY <1>1, InvInit, InvStep, PTL DEF Spec

(***************************************************************************)
(* The wrap-around of pass_cycle is harmless when passes are completed: no *)
(* object carries the cycle of a pass that starts.                         *)
(***************************************************************************)
THEOREM CycleFresh == Spec => CycleIsFreshAtStart
<1>1. ASSUME IInv, [Next]_vars
      PROVE  [pass' # pass => \A b \in bitmap : cycle[b] # pass']_vars
  BY <1>1, IdleIsFresh, FreshStep DEF IInv
<1>2. QED BY <1>1, InvInit, InvStep, PTL DEF Spec, CycleIsFreshAtStart

(***************************************************************************)
(* Marking and allocation write headers of allocated blocks only, never    *)
(* the freelist link of a freed one.                                       *)
(***************************************************************************)
THEOREM MarkIsContained == Spec => MarkWritesLiveHeaders
<1>1. ASSUME IInv, [Next]_vars
      PROVE  [\A b \in Block : cycle'[b] # cycle[b] => b \in bitmap']_vars
  BY <1>1, HeaderStep DEF IInv
<1>2. QED BY <1>1, InvInit, InvStep, PTL DEF Spec, MarkWritesLiveHeaders

(***************************************************************************)
(* gc::stats balances in every state, for counters of any width: what is   *)
(* allocated and not freed is what the heap holds.                         *)
(***************************************************************************)
THEOREM StatsExact == Spec => []HeapInv
<1>1. IInv => HeapInv
  BY DEF IInv, CoreInv, HeapInv
<1>2. QED BY <1>1, InvInit, InvStep, PTL DEF Spec

-----------------------------------------------------------------------------
(* Passes may be given up: AbortSpec. *)

\* The inductive invariant of AbortSpec.
AbortInv == CoreInv /\ AgeInv /\ InUse /\ StatsBalance

(***************************************************************************)
(* An object that missed no more than MaxAborts passes does not carry the  *)
(* cycle of the next one: that cycle was last used CycleMod passes ago.    *)
(***************************************************************************)
LEMMA AgedIsFresh ==
  ASSUME FewAborts, CoreInv, AgeInv
  PROVE  Fresh
<1>1. SUFFICES ASSUME host = "idle", NEW b \in bitmap PROVE cycle[b] # NextCycle(pass)
  BY DEF Fresh
<1>2. cycle[b] \in 0 .. CycleMod /\ pass \in 0 .. CycleMod
  BY DEF CoreInv, TypeOK
<1>3. aborts \in 0 .. MaxAborts /\ (cycle[b] # 0 => Age(cycle[b]) <= aborts)
  BY <1>1 DEF AgeInv
<1>4. MaxAborts \in Nat /\ CycleMod \in Nat /\ MaxAborts + 1 < CycleMod
  BY AbortAssumption, GcAssumption DEF FewAborts
<1>5. QED BY <1>2, <1>3, <1>4 DEF Age, NextCycle

(***************************************************************************)
(* start_pass makes every object one pass older.                           *)
(***************************************************************************)
LEMMA OneOlder ==
  ASSUME FewAborts, CoreInv, AgeInv, StartPass, aborts' = aborts
  PROVE  AgeInv'
<1>1. SUFFICES ASSUME NEW b \in bitmap, cycle[b] # 0
               PROVE  Age(cycle[b])' <= aborts + 1
  BY DEF AgeInv, StartPass, heapVars
<1>2. /\ cycle[b] \in 0 .. CycleMod /\ pass \in 0 .. CycleMod
      /\ cycle[b]' = cycle[b] /\ pass' = NextCycle(pass) /\ host = "idle"
  BY DEF CoreInv, TypeOK, StartPass
<1>3. aborts \in 0 .. MaxAborts /\ Age(cycle[b]) <= aborts
  BY <1>1, <1>2 DEF AgeInv
<1>4. cycle[b] # NextCycle(pass)
  BY <1>2, AgedIsFresh DEF Fresh
<1>5. MaxAborts \in Nat /\ CycleMod \in Nat
  BY AbortAssumption, GcAssumption
<1>6. QED BY <1>1, <1>2, <1>3, <1>4, <1>5 DEF Age, NextCycle

(***************************************************************************)
(* A step that neither starts nor ends a pass writes no cycle but that of  *)
(* the pass, so that nothing is older than before.                         *)
(***************************************************************************)
LEMMA NoneOlder ==
  ASSUME CoreInv, AgeInv, pass' = pass, aborts' = aborts,
         (host' = "idle") <=> (host = "idle"),
         \A b \in bitmap' : cycle'[b] = pass \/ (b \in bitmap /\ cycle'[b] = cycle[b])
  PROVE  AgeInv'
<1>1. aborts \in 0 .. MaxAborts /\ MaxAborts \in Nat /\ pass \in 0 .. CycleMod /\ CycleMod \in Nat
  BY AbortAssumption, GcAssumption DEF AgeInv, CoreInv, TypeOK
<1>2. ASSUME NEW b \in bitmap', cycle'[b] # 0
      PROVE  Age(cycle[b])' <= IF host' = "idle" THEN aborts' ELSE aborts' + 1
  <2>1. CASE cycle'[b] = pass
    BY <1>1, <2>1 DEF Age
  <2>2. CASE b \in bitmap /\ cycle'[b] = cycle[b]
    <3>1. Age(cycle[b])' = Age(cycle[b])
      BY <2>2 DEF Age
    <3>2. QED BY <1>2, <2>2, <3>1 DEF AgeInv
  <2>3. QED BY <2>1, <2>2
<1>3. QED BY <1>1, <1>2 DEF AgeInv

(***************************************************************************)
(* When a pass is complete, or gc::collect has reclaimed everything, no    *)
(* object is older than the pass.                                          *)
(***************************************************************************)
LEMMA AllNew ==
  ASSUME CoreInv, CoreInv', FinishPass \/ Collect, aborts' = 0
  PROVE  AgeInv'
<1>1. \A b \in bitmap' : cycle'[b] = pass'
  BY DEF CoreInv, SweptInv, FinishPass, Collect, heapVars
<1>2. pass' \in 0 .. CycleMod /\ CycleMod \in Nat /\ MaxAborts \in Nat
  BY AbortAssumption, GcAssumption DEF CoreInv, TypeOK
<1>3. host' = "idle"
  BY DEF FinishPass, Collect, hostVars
<1>4. \A b \in bitmap' : Age(cycle[b])' = 0
  BY <1>1, <1>2 DEF Age
<1>5. QED BY <1>2, <1>3, <1>4 DEF AgeInv

(***************************************************************************)
(* finish_pass on an incomplete sweep keeps the invariant: nothing is      *)
(* reclaimed, and objects that were not marked are one abort older.        *)
(***************************************************************************)
LEMMA GivenUp ==
  ASSUME AbortInv, AbortPass
  PROVE  AbortInv'
<1> USE DEF AbortInv
<1>1. /\ UNCHANGED <<narenas, cls, bitmap, cycle, marked, pass, total_allocated, total_freed>>
      /\ UNCHANGED <<roots, refs>>
      /\ host' = "idle" /\ host # "idle" /\ aborts < MaxAborts /\ aborts' = aborts + 1
  BY DEF AbortPass, heapVars
<1>2. TypeOK'
  BY <1>1, GcAssumption DEF AbortPass, CoreInv, TypeOK
<1>3. Reachable' = Reachable
  BY <1>1 DEF Reachable
<1>4. CoreInv'
  BY <1>1, <1>2, <1>3 DEF CoreInv, SweptInv, MarkingInv, SweepingInv, KeptInv
<1>5. AgeInv'
  <2>1. aborts' \in 0 .. MaxAborts
    BY <1>1, AbortAssumption DEF AgeInv
  <2>2. ASSUME NEW b \in bitmap', cycle'[b] # 0 PROVE Age(cycle[b])' <= aborts'
    BY <1>1, <2>2 DEF AgeInv, Age
  <2>3. QED BY <1>1, <2>1, <2>2 DEF AgeInv
<1>6. InUse' /\ StatsBalance'
  BY <1>1 DEF InUse, StatsBalance
<1>7. QED BY <1>4, <1>5, <1>6

(***************************************************************************)
(* AbortInv holds initially and every step keeps it.                       *)
(***************************************************************************)
LEMMA AbortInvInit == AbortInit => AbortInv
<1>1. AbortInit => AgeInv
  BY AbortAssumption DEF AbortInit, Init, AgeInv
<1>2. QED BY <1>1, CoreInit, CountInit DEF AbortInit, AbortInv

LEMMA AbortInvStep == FewAborts /\ AbortInv /\ [AbortNext]_abortVars => AbortInv'
<1> SUFFICES ASSUME FewAborts, AbortInv, [AbortNext]_abortVars PROVE AbortInv'
  OBVIOUS
<1>1. CASE AbortPass
  BY <1>1, GivenUp
<1>2. CASE ~AbortPass
  <2>1. [Next]_vars
    BY <1>2 DEF AbortNext, abortVars, Next, Host
  <2>2. Fresh
    BY AgedIsFresh DEF AbortInv
  <2>3. CoreInv' /\ InUse' /\ StatsBalance'
    BY <2>1, <2>2, CoreStep, StatsStep DEF AbortInv
  <2>4. AgeInv'
    <3>1. CASE (FinishPass \/ Collect) /\ aborts' = 0
      BY <2>3, <3>1, AllNew DEF AbortInv
    <3>2. CASE StartPass /\ UNCHANGED aborts
      BY <3>2, OneOlder DEF AbortInv
    <3>3. CASE Mutator /\ UNCHANGED aborts
      <4>1. pass' = pass /\ host' = host
        BY <3>3 DEF Mutator, Alloc, Release, Store, Erase, Load, Forget, MutatorFrame,
                    passVars, hostVars
      <4>2. \A b \in bitmap' : cycle'[b] = pass \/ (b \in bitmap /\ cycle'[b] = cycle[b])
        BY <3>3 DEF AbortInv, CoreInv, TypeOK, Mutator, Alloc, AllocCycle, Release, Store, Erase,
                    Load, Forget, MutatorFrame, heapVars
      <4>3. QED BY <3>3, <4>1, <4>2, NoneOlder DEF AbortInv
    <3>4. CASE (\E r \in pending : MarkRoot(r)) /\ UNCHANGED aborts
      <4>1. pass' = pass /\ host' = host /\ bitmap' = bitmap
        BY <3>4 DEF MarkRoot, passVars, heapVars
      <4>2. \A b \in bitmap' : cycle'[b] = pass \/ (b \in bitmap /\ cycle'[b] = cycle[b])
        BY <3>4, <4>1 DEF AbortInv, CoreInv, TypeOK, MarkRoot
      <4>3. QED BY <3>4, <4>1, <4>2, NoneOlder DEF AbortInv
    <3>5. CASE Sweep /\ UNCHANGED aborts
      <4>1. pass' = pass /\ cycle' = cycle /\ bitmap' \subseteq bitmap
        BY <3>5 DEF Sweep, SweepPass
      <4>2. host' # "idle" /\ host # "idle"
        BY <3>5 DEF Sweep, SweepPass
      <4>3. QED BY <3>5, <4>1, <4>2, NoneOlder DEF AbortInv
    <3>6. CASE UNCHANGED abortVars
      <4>1. UNCHANGED <<bitmap, cycle, pass, host, aborts>>
        BY <3>6 DEF abortVars, vars, heapVars, passVars, hostVars
      <4>2. QED BY <4>1, NoneOlder DEF AbortInv
    <3>7. QED
      BY <1>2, <3>1, <3>2, <3>3, <3>4, <3>5, <3>6 DEF AbortNext
  <2>5. QED BY <2>3, <2>4 DEF AbortInv
<1>3. QED BY <1>1, <1>2

(***************************************************************************)
(* Although the host calls finish_pass in the middle of a sweep, up to     *)
(* MaxAborts times in a row, no object the program can reach is reclaimed  *)
(* by any later pass.                                                      *)
(***************************************************************************)
THEOREM AbortsAreSafe == FewAborts /\ AbortSpec => []ReachableStaysAllocated
<1>1. AbortInv => ReachableStaysAllocated
  BY DEF AbortInv, CoreInv, ReachableStaysAllocated
<1>2. ASSUME FewAborts PROVE AbortSpec => []ReachableStaysAllocated
  BY <1>1, <1>2, AbortInvInit, AbortInvStep, PTL DEF AbortSpec
<1>3. QED BY <1>2

(***************************************************************************)
(* The first pass that is completed reclaims the garbage the given up      *)
(* passes have left, as well as its own.                                   *)
(***************************************************************************)
THEOREM AbortsLeaveNothing == FewAborts /\ AbortSpec => []CompletePassReclaims
<1>1. AbortInv => CompletePassReclaims
  BY SweptIsKept DEF AbortInv
<1>2. ASSUME FewAborts PROVE AbortSpec => []CompletePassReclaims
  BY <1>1, <1>2, AbortInvInit, AbortInvStep, PTL DEF AbortSpec
<1>3. QED BY <1>2

(***************************************************************************)
(* The 4 bits of pass_cycle may wrap around while objects still carry      *)
(* cycles of given up passes, but not as far as to one that is in use.     *)
(***************************************************************************)
THEOREM AbortsKeepCyclesApart == FewAborts /\ AbortSpec => CycleIsFreshAtStart
<1>1. ASSUME FewAborts, AbortInv, [AbortNext]_abortVars
      PROVE  [pass' # pass => \A b \in bitmap : cycle[b] # pass']_vars
  <2>1. CASE AbortPass
    BY <2>1 DEF AbortPass
  <2>2. CASE ~AbortPass
    <3>1. [Next]_vars
      BY <1>1, <2>2 DEF AbortNext, abortVars, Next, Host
    <3>2. QED BY <1>1, <3>1, AgedIsFresh, FreshStep DEF AbortInv
  <2>3. QED BY <2>1, <2>2
<1>2. ASSUME FewAborts PROVE AbortSpec => CycleIsFreshAtStart
  BY <1>1, <1>2, AbortInvInit, AbortInvStep, PTL DEF AbortSpec, CycleIsFreshAtStart
<1>3. QED BY <1>2

(***************************************************************************)
(* A pass that is given up leaves the heap and gc::stats in agreement.     *)
(***************************************************************************)
THEOREM AbortsKeepStats == FewAborts /\ AbortSpec => []HeapInv
<1>1. AbortInv => HeapInv
  BY DEF AbortInv, CoreInv, HeapInv
<1>2. ASSUME FewAborts PROVE AbortSpec => []HeapInv
  BY <1>1, <1>2, AbortInvInit, AbortInvStep, PTL DEF AbortSpec
<1>3. QED BY <1>2

=============================================================================
