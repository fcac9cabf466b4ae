----------------------------- MODULE ArenaProofs ----------------------------
(***************************************************************************)
(* Proofs about Arena.tla, for every capacity and every width of size_t:   *)
(* the freelist stays intact and the arena implements BlockPool.tla.       *)
(*                                                                         *)
(* walk and chain read the freelist out of the blocks link by link.  The   *)
(* invariant names the list instead, as a sequence; that walk and chain    *)
(* find this sequence is an induction on the steps of the walk.            *)
(***************************************************************************)
EXTENDS Arena, Modular, FiniteSetTheorems, SequenceTheorems, WellFoundedInduction, TLAPS

-----------------------------------------------------------------------------
(* Lists of blocks. *)

NoTwice(s) == \A i, j \in 1 .. Len(s) : s[i] = s[j] => i = j

Members(s) == {s[i] : i \in 1 .. Len(s)}

\* From head, the links of w lead through s and then to nullptr.
Linked(s, head, w) ==
  /\ head = IF s = <<>> THEN Null ELSE s[1]
  /\ \A i \in 1 .. Len(s) : w[s[i]].next = IF i < Len(s) THEN s[i + 1] ELSE Null

\* The k-th stop of a walk along s.
Stop(s, k) == IF k < Len(s) THEN s[k + 1] ELSE Null

LEMMA Constants ==
  /\ Cap \in Nat \ {0} /\ SizeMod \in Nat \ {0} /\ SizeMod > Cap
  /\ Null \notin Block /\ Wild \notin Block /\ Null # Wild
BY ArenaAssumption DEF Block

\* The blocks below a mark.
LEMMA Below ==
  ASSUME NEW n \in Nat
  PROVE  IsFiniteSet(0 .. n - 1) /\ Cardinality(0 .. n - 1) = n
<1>1. 0 \in Int /\ n - 1 \in Int
  OBVIOUS
<1>2. /\ IsFiniteSet(0 .. n - 1)
      /\ Cardinality(0 .. n - 1) = IF 0 > n - 1 THEN 0 ELSE (n - 1) - 0 + 1
  BY <1>1, FS_Interval
<1> QED BY <1>2

\* A list without repetitions is as long as the set of its members, so it is no
\* longer than the arena.
LEMMA ListLength ==
  ASSUME NEW s \in Seq(Block), NoTwice(s)
  PROVE  /\ IsFiniteSet(Members(s)) /\ Cardinality(Members(s)) = Len(s)
         /\ Len(s) \in 0 .. Cap
<1>1. Len(s) \in Nat /\ Cap \in Nat \ {0}
  BY Constants
<1> DEFINE f == [i \in 1 .. Len(s) |-> s[i]]
<1>2. f \in Bijection(1 .. Len(s), Members(s))
  BY DEF NoTwice, Members, Bijection, Injection, Surjection, IsInjective
<1>3. IsFiniteSet(1 .. Len(s)) /\ Cardinality(1 .. Len(s)) = Len(s)
  BY <1>1, FS_Interval
<1>4. IsFiniteSet(Members(s)) /\ Cardinality(Members(s)) = Len(s)
  BY <1>2, <1>3, FS_Bijection DEF ExistsBijection
<1>5. IsFiniteSet(Block) /\ Cardinality(Block) = Cap
  BY <1>1, FS_Interval DEF Block
<1>6. Members(s) \subseteq Block
  BY DEF Members
<1>7. Len(s) <= Cap
  BY <1>4, <1>5, <1>6, FS_Subset
<1> QED BY <1>1, <1>4, <1>7

\* The walk follows its recursive definition, since the stops of s are a function
\* that does.
LEMMA WalkDef ==
  ASSUME NEW s \in Seq(Block), NoTwice(s), Linked(s, freeHead, word)
  PROVE  walk = [k \in 0 .. Cap |->
                   IF k = 0 THEN freeHead
                   ELSE IF walk[k - 1] \in Block THEN word[walk[k - 1]].next ELSE walk[k - 1]]
<1> DEFINE g == [k \in 0 .. Cap |-> Stop(s, k)]
           F(f) == [k \in 0 .. Cap |->
                      IF k = 0 THEN freeHead
                      ELSE IF f[k - 1] \in Block THEN word[f[k - 1]].next ELSE f[k - 1]]
<1>1. Len(s) \in Nat /\ Cap \in Nat
  BY Constants
<1>2. ASSUME NEW k \in 0 .. Cap PROVE g[k] = F(g)[k]
  <2>1. CASE k = 0
    BY <1>1, <2>1 DEF Stop, Linked
  <2>2. CASE k # 0
    <3>1. k - 1 \in 0 .. Cap /\ F(g)[k] = IF g[k - 1] \in Block THEN word[g[k - 1]].next ELSE g[k - 1]
      BY <1>1, <2>2
    <3>2. CASE k - 1 < Len(s)
      <4>1. k \in 1 .. Len(s) /\ g[k - 1] = s[k] /\ s[k] \in Block
        BY <1>1, <2>2, <3>1, <3>2 DEF Stop
      <4>2. word[s[k]].next = IF k < Len(s) THEN s[k + 1] ELSE Null
        BY <4>1 DEF Linked
      <4> QED BY <3>1, <4>1, <4>2 DEF Stop
    <3>3. CASE ~(k - 1 < Len(s))
      <4>1. g[k - 1] = Null /\ g[k] = Null
        BY <1>1, <3>1, <3>3 DEF Stop
      <4> QED BY <3>1, <4>1, Constants
    <3> QED BY <3>2, <3>3
  <2> QED BY <2>1, <2>2
<1>3. g = F(g)
  BY <1>2
<1> HIDE DEF g
<1>4. \E f : f = F(f)
  BY <1>3
<1>5. walk = CHOOSE f : f = F(f)
  BY DEF walk
<1>6. walk = F(walk)
  BY <1>4, <1>5, Zenon
<1> QED BY <1>6

\* The walk stops where s says: the first stop that does not would follow one that does.
LEMMA WalkStops ==
  ASSUME NEW s \in Seq(Block), NoTwice(s), Linked(s, freeHead, word)
  PROVE  \A k \in 0 .. Cap : walk[k] = Stop(s, k)
<1> DEFINE T == {k \in 0 .. Cap : walk[k] # Stop(s, k)}
<1>1. Len(s) \in Nat /\ Cap \in Nat
  BY Constants
<1>2. SUFFICES ASSUME T # {} PROVE FALSE
  OBVIOUS
<1>3. PICK m \in T : \A y \in T : ~ (<<y, m>> \in OpToRel(<, Nat))
  <2>1. T \subseteq Nat
    BY <1>1
  <2> HIDE DEF T
  <2> QED BY <1>2, <2>1, NatLessThanWellFounded, WFMin
<1>4. m \in 0 .. Cap /\ m \in Nat /\ walk[m] # Stop(s, m)
  <2>1. m \in T
    BY <1>3, Zenon
  <2>2. m \in 0 .. Cap /\ walk[m] # Stop(s, m)
    BY <2>1, Zenon
  <2> QED BY <1>1, <2>2
<1>5. walk[0] = freeHead
  BY <1>1, WalkDef
<1>6. m # 0
  BY <1>1, <1>4, <1>5 DEF Linked, Stop
<1>7. m - 1 \in 0 .. Cap /\ m - 1 \in Nat /\ m - 1 < m
  BY <1>1, <1>4, <1>6
<1>8. walk[m - 1] = Stop(s, m - 1)
  <2>1. m - 1 \in T => <<m - 1, m>> \in {ss \in Nat \X Nat : ss[1] < ss[2]}
    BY <1>4, <1>7
  <2>2. m - 1 \notin T
    BY <1>3, <2>1 DEF OpToRel
  <2> QED BY <1>7, <2>2
<1>9. walk[m] = IF walk[m - 1] \in Block THEN word[walk[m - 1]].next ELSE walk[m - 1]
  BY <1>4, <1>6, WalkDef
<1>10. CASE m - 1 < Len(s)
  <2>1. m \in 1 .. Len(s) /\ Stop(s, m - 1) = s[m] /\ s[m] \in Block
    BY <1>1, <1>4, <1>6, <1>10 DEF Stop
  <2>2. word[s[m]].next = Stop(s, m)
    BY <2>1 DEF Linked, Stop
  <2> QED BY <1>4, <1>8, <1>9, <2>1, <2>2
<1>11. CASE ~(m - 1 < Len(s))
  <2>1. Stop(s, m - 1) = Null /\ Stop(s, m) = Null
    BY <1>1, <1>4, <1>11 DEF Stop
  <2> QED BY <1>4, <1>8, <1>9, <2>1, Constants
<1> QED BY <1>10, <1>11

\* chain reads s.
LEMMA ChainIs ==
  ASSUME NEW s \in Seq(Block), NoTwice(s), Linked(s, freeHead, word)
  PROVE  chain = s
<1>1. Len(s) \in 0 .. Cap /\ Cap \in Nat
  BY ListLength, Constants
<1>2. \A k \in 0 .. Cap : walk[k] = Stop(s, k)
  BY WalkStops
<1>3. \A k \in 0 .. Cap : walk[k] \in Block <=> k < Len(s)
  <2> SUFFICES ASSUME NEW k \in 0 .. Cap PROVE walk[k] \in Block <=> k < Len(s)
    OBVIOUS
  <2>1. CASE k < Len(s)
    BY <1>1, <1>2, <2>1 DEF Stop
  <2>2. CASE ~(k < Len(s))
    BY <1>2, <2>2, Constants DEF Stop
  <2> QED BY <2>1, <2>2
<1> DEFINE P(k) == walk[k] \notin Block /\ \A j \in 0 .. k - 1 : walk[j] \in Block
           n == CHOOSE k \in 0 .. Cap : P(k)
<1>4. P(Len(s))
  BY <1>1, <1>3
<1>5. ASSUME NEW k \in 0 .. Cap, P(k) PROVE k = Len(s)
  <2>1. ~(k < Len(s))
    BY <1>3, <1>5
  <2>2. ASSUME k > Len(s) PROVE FALSE
    <3>1. Len(s) \in 0 .. k - 1
      BY <1>1, <2>2
    <3> QED BY <1>1, <1>3, <1>5, <3>1
  <2> QED BY <1>1, <2>1, <2>2
<1>6. n = Len(s)
  <2> HIDE DEF P
  <2>1. n \in 0 .. Cap /\ P(n)
    BY <1>1, <1>4
  <2> HIDE DEF n
  <2> QED BY <1>5, <2>1
<1>7. chain = [k \in 1 .. n |-> walk[k - 1]]
  BY DEF chain
<1> HIDE DEF n, P
<1>8. chain = [k \in 1 .. Len(s) |-> walk[k - 1]]
  BY <1>6, <1>7
<1>9. ASSUME NEW k \in 1 .. Len(s) PROVE walk[k - 1] = s[k]
  <2>1. k - 1 \in 0 .. Cap /\ k - 1 < Len(s) /\ (k - 1) + 1 = k
    BY <1>1
  <2> QED BY <1>2, <2>1 DEF Stop
<1>10. [k \in 1 .. Len(s) |-> walk[k - 1]] = [k \in 1 .. Len(s) |-> s[k]]
  BY <1>9
<1>11. s = [k \in 1 .. Len(s) |-> s[k]]
  OBVIOUS
<1> QED BY <1>8, <1>10, <1>11

-----------------------------------------------------------------------------
(* The invariant. *)

\* The blocks that were handed out and are not in use.
Free == (0 .. bump - 1) \ bitmap

\* s is the freelist: its links are intact and it has every free block, once.
FreeList(s) ==
  /\ s \in Seq(Block) /\ NoTwice(s)
  /\ Linked(s, freeHead, word)
  /\ Members(s) = Free

\* The counters count, and stay far from wrapping.
CountInv ==
  /\ bitmap \subseteq 0 .. bump - 1
  /\ used = Cardinality(bitmap) /\ freeCount = Cardinality(Free)
  /\ total_allocated = (total_freed + used) % SizeMod

\* A block in use has its header, so its release is not taken for a second one.
HeaderInv == held = bitmap /\ \A b \in bitmap : word[b] = Header

IInv == TypeOK /\ CountInv /\ HeaderInv /\ \E s : FreeList(s)

\* Used and free blocks make up the part of the arena below the bump pointer.
LEMMA Balance ==
  ASSUME TypeOK, CountInv
  PROVE  /\ IsFiniteSet(bitmap) /\ IsFiniteSet(Free)
         /\ used \in Nat /\ freeCount \in Nat /\ used + freeCount = bump
<1>1. bump \in 0 .. Cap /\ Cap \in Nat
  BY Constants DEF TypeOK
<1> DEFINE B == 0 .. bump - 1
<1>2. IsFiniteSet(B) /\ Cardinality(B) = bump
  BY <1>1, FS_Interval
<1> HIDE DEF B
<1>3. bitmap \subseteq B /\ Free = B \ bitmap /\ B \cap bitmap = bitmap
  BY DEF CountInv, Free, B
<1>4. IsFiniteSet(bitmap) /\ IsFiniteSet(Free)
  BY <1>2, <1>3, FS_Subset
<1>5. Cardinality(B \ bitmap) = Cardinality(B) - Cardinality(B \cap bitmap)
  BY <1>2, FS_Difference
<1>6. Cardinality(bitmap) \in Nat /\ Cardinality(Free) \in Nat
  BY <1>4, FS_CardinalityType
<1>7. Cardinality(Free) = bump - Cardinality(bitmap)
  BY <1>2, <1>3, <1>5
<1> QED BY <1>1, <1>4, <1>6, <1>7 DEF CountInv

\* What the run checks of a state follows.
LEMMA Implied == IInv => ArenaIntact
<1> SUFFICES ASSUME IInv PROVE ArenaIntact
  OBVIOUS
<1>1. PICK s : FreeList(s)
  BY DEF IInv
<1>2. /\ s \in Seq(Block) /\ NoTwice(s) /\ Linked(s, freeHead, word) /\ Members(s) = Free
  BY <1>1 DEF FreeList
<1>3. \A k \in 0 .. Cap : walk[k] = Stop(s, k)
  BY <1>2, WalkStops
<1>4. Len(s) \in 0 .. Cap /\ Cap \in Nat
  BY <1>2, ListLength, Constants
<1>5. walk[Cap] = Null
  BY <1>3, <1>4 DEF Stop
<1>6. {walk[k] : k \in 0 .. Cap} \ {Null} = Members(s)
  <2>1. ASSUME NEW k \in 0 .. Cap, walk[k] # Null PROVE walk[k] \in Members(s)
    <3>1. k < Len(s) /\ walk[k] = s[k + 1]
      BY <1>3, <2>1 DEF Stop
    <3>2. k + 1 \in 1 .. Len(s)
      BY <1>4, <3>1
    <3> QED BY <3>1, <3>2 DEF Members
  <2>2. ASSUME NEW i \in 1 .. Len(s) PROVE s[i] # Null /\ \E k \in 0 .. Cap : walk[k] = s[i]
    <3>1. i - 1 \in 0 .. Cap /\ i - 1 < Len(s) /\ (i - 1) + 1 = i
      BY <1>4
    <3>2. walk[i - 1] = s[i]
      BY <1>3, <3>1 DEF Stop
    <3>3. s[i] \in Block
      BY <1>2
    <3> QED BY <3>1, <3>2, <3>3, Constants
  <2> QED BY <2>1, <2>2 DEF Members
<1>7. FreelistIntact
  BY <1>2, <1>5, <1>6 DEF FreelistIntact, Free, IInv, CountInv
<1>8. TypeOK /\ CountInv /\ HeaderInv
  BY DEF IInv
<1>9. CountersAgree /\ NoSharedBlock
  BY <1>8, Balance DEF CountInv, HeaderInv, CountersAgree, NoSharedBlock
<1> QED BY <1>7, <1>8, <1>9 DEF ArenaIntact

-----------------------------------------------------------------------------
(* Every operation keeps it. *)

LEMMA InitInv == Init => IInv
<1> SUFFICES ASSUME Init PROVE IInv
  OBVIOUS
<1>0. Cap \in Nat \ {0} /\ SizeMod \in Nat \ {0} /\ SizeMod > Cap /\ HeapAddrBit \in BOOLEAN
  BY ArenaAssumption
<1>1. 0 \in 0 .. Cap /\ 0 \in 0 .. SizeMod - 1 /\ 0 .. 0 - 1 = {} /\ 0 % SizeMod = 0
  BY <1>0, ModSmall
<1>2. TypeOK
  <2>1. word \in [Block -> [next : Block \cup {Null, Wild}, dead : BOOLEAN]]
    BY DEF Init, Link
  <2> QED BY <1>1, <2>1 DEF Init, TypeOK
<1>3. Free = {} /\ Cardinality({}) = 0
  BY <1>1, FS_EmptySet DEF Free, Init
<1>4. CountInv
  BY <1>1, <1>3 DEF Init, CountInv
<1>5. HeaderInv
  BY DEF Init, HeaderInv
<1>6. FreeList(<<>>)
  <2>1. <<>> \in Seq(Block) /\ Len(<<>>) = 0 /\ 1 .. 0 = {}
    OBVIOUS
  <2>2. NoTwice(<<>>) /\ Members(<<>>) = {} /\ Linked(<<>>, freeHead, word)
    BY <2>1 DEF NoTwice, Members, Linked, Init
  <2> QED BY <1>3, <2>1, <2>2 DEF FreeList
<1> QED BY <1>2, <1>4, <1>5, <1>6 DEF IInv

\* The part of Alloc after Arena::allocate has chosen the block.
Take(b) ==
  /\ bitmap' = bitmap \cup {b}
  /\ used' = (used + 1) % SizeMod
  /\ word' = [word EXCEPT ![b] = Header]
  /\ held' = held \cup {b}
  /\ stale' = stale \ {b}
  /\ total_allocated' = (total_allocated + 1) % SizeMod
  /\ UNCHANGED total_freed

\* What both ways to allocate share: the block was not in use, so one more is.
LEMMA TakeCounts ==
  ASSUME IInv, NEW b \in Block, Take(b), b \notin bitmap,
         bump' \in 0 .. Cap, bitmap' \subseteq 0 .. bump' - 1,
         freeHead' \in Block \cup {Null, Wild}, freeCount' \in 0 .. SizeMod - 1
  PROVE  /\ TypeOK' /\ HeaderInv'
         /\ used' = Cardinality(bitmap')
         /\ total_allocated' = (total_freed' + used') % SizeMod
<1>0. Cap \in Nat \ {0} /\ SizeMod \in Nat \ {0} /\ SizeMod > Cap
  BY Constants
<1>1. TypeOK /\ CountInv /\ HeaderInv
  BY DEF IInv
<1>2. used' = used + 1 /\ used' = Cardinality(bitmap')
  <2>1. IsFiniteSet(bitmap) /\ used = Cardinality(bitmap) /\ used \in Nat
    BY <1>1, Balance DEF CountInv
  <2>2. IsFiniteSet(bitmap') /\ Cardinality(bitmap') = used + 1
    BY <2>1, FS_AddElement DEF Take
  <2>3. IsFiniteSet(0 .. bump' - 1) /\ Cardinality(0 .. bump' - 1) = bump'
    <3>1. bump' \in Nat
      BY <1>0
    <3> QED BY <3>1, Below
  <2>4. Cardinality(bitmap') <= bump'
    BY <2>3, FS_Subset
  <2>5. used + 1 \in 0 .. SizeMod - 1
    BY <1>0, <2>1, <2>2, <2>4
  <2> QED BY <1>0, <2>2, <2>5, ModSmall DEF Take
<1>3. total_allocated' = (total_freed' + used') % SizeMod
  <2>1. total_freed \in Nat /\ used \in Nat /\ total_freed + used \in Nat
    BY <1>0, <1>1 DEF TypeOK
  <2>2. (((total_freed + used) % SizeMod) + 1) % SizeMod = (total_freed + used + 1) % SizeMod
    BY <1>0, <2>1, ModAdd
  <2>3. total_freed + used + 1 = total_freed' + used'
    BY <1>2, <2>1 DEF Take
  <2> QED BY <1>1, <2>2, <2>3 DEF CountInv, Take
<1>4. HeaderInv'
  BY <1>1 DEF HeaderInv, Take, TypeOK
<1>5. TypeOK'
  <2>1. used' \in 0 .. SizeMod - 1 /\ total_allocated' \in 0 .. SizeMod - 1
    <3>1. used + 1 \in Nat /\ total_allocated + 1 \in Nat
      BY <1>0, <1>1 DEF TypeOK
    <3> QED BY <1>0, <3>1, DivMod DEF Take
  <2>2. word' \in [Block -> [next : Block \cup {Null, Wild}, dead : BOOLEAN]]
    BY <1>1 DEF TypeOK, Take, Header
  <2>3. bitmap' \in SUBSET Block /\ held' \in SUBSET Block /\ stale' \in SUBSET Block
    BY <1>1 DEF TypeOK, Take
  <2>4. total_freed' \in 0 .. SizeMod - 1
    BY <1>1 DEF TypeOK, Take
  <2> QED BY <2>1, <2>2, <2>3, <2>4 DEF TypeOK
<1> QED BY <1>2, <1>3, <1>4, <1>5

\* Arena::allocate with a freelist: its head leaves it.
LEMMA FreelistStep ==
  ASSUME IInv, NEW b \in Block, AllocateFromFreelist(b), Take(b),
         NEW s, FreeList(s)
  PROVE  IInv' /\ s # <<>> /\ b = Head(s) /\ FreeList(Tail(s))'
<1>0. Cap \in Nat \ {0} /\ SizeMod \in Nat \ {0} /\ SizeMod > Cap
  BY Constants
<1>1. TypeOK /\ CountInv /\ HeaderInv
  BY DEF IInv
<1>2. s \in Seq(Block) /\ NoTwice(s) /\ Linked(s, freeHead, word) /\ Members(s) = Free
  BY DEF FreeList
<1>3. s # <<>> /\ b = s[1] /\ Len(s) \in Nat \ {0} /\ b = Head(s)
  BY <1>2 DEF AllocateFromFreelist, Linked
<1>4. b \in Free /\ b \in 0 .. bump - 1 /\ b \notin bitmap
  BY <1>2, <1>3 DEF Members, Free
<1>5. bump' = bump /\ bitmap' \subseteq 0 .. bump' - 1 /\ Free' = Free \ {b}
  BY <1>1, <1>4 DEF AllocateFromFreelist, Take, CountInv, Free
<1>6. freeCount' = freeCount - 1 /\ freeCount' = Cardinality(Free')
  <2>1. IsFiniteSet(Free) /\ freeCount \in Nat /\ freeCount = Cardinality(Free)
    BY <1>1, Balance DEF CountInv
  <2>2. Cardinality(Free') = freeCount - 1 /\ Cardinality(Free') \in Nat
    BY <1>4, <1>5, <2>1, FS_RemoveElement, FS_CardinalityType
  <2>3. freeCount \in 1 .. SizeMod - 1
    BY <1>1, <2>1, <2>2 DEF TypeOK
  <2> QED BY <1>0, <2>2, <2>3, ModDec DEF AllocateFromFreelist
<1>7. freeCount' \in 0 .. SizeMod - 1 /\ bump' \in 0 .. Cap
  <2>1. freeCount \in 0 .. SizeMod - 1 /\ freeCount' = (freeCount + SizeMod - 1) % SizeMod
    BY <1>1 DEF TypeOK, AllocateFromFreelist
  <2>2. freeCount + SizeMod - 1 \in Nat
    BY <1>0, <2>1
  <2> QED BY <1>0, <1>1, <1>5, <2>1, <2>2, DivMod DEF TypeOK
<1>8. freeHead' \in Block \cup {Null, Wild}
  BY <1>1 DEF AllocateFromFreelist, TypeOK
<1>9. TypeOK' /\ HeaderInv' /\ CountInv'
  BY <1>4, <1>5, <1>6, <1>7, <1>8, TakeCounts DEF CountInv
<1> DEFINE t == Tail(s)
<1>10. t \in Seq(Block) /\ Len(t) = Len(s) - 1 /\ \A i \in 1 .. Len(t) : t[i] = s[i + 1]
  BY <1>2, <1>3
<1>11. \A i \in 1 .. Len(t) : i + 1 \in 1 .. Len(s) /\ s[i + 1] # b /\ t[i] \in Block
  BY <1>2, <1>3, <1>10 DEF NoTwice
<1> HIDE DEF t
<1>12. NoTwice(t)
  BY <1>2, <1>3, <1>10, <1>11 DEF NoTwice
<1>13. Members(t) = Free'
  <2>1. ASSUME NEW i \in 1 .. Len(t) PROVE t[i] \in Free'
    BY <1>2, <1>5, <1>10, <1>11 DEF Members
  <2>2. ASSUME NEW c \in Free' PROVE \E i \in 1 .. Len(t) : t[i] = c
    <3>1. PICK i \in 1 .. Len(s) : s[i] = c
      BY <1>2, <1>5 DEF Members
    <3>2. i # 1 /\ i - 1 \in 1 .. Len(t) /\ (i - 1) + 1 = i
      BY <1>3, <1>5, <1>10, <3>1
    <3> QED BY <1>10, <3>1, <3>2
  <2> QED BY <2>1, <2>2 DEF Members
<1>14. Linked(t, freeHead', word')
  <2>1. freeHead' = IF 1 < Len(s) THEN s[2] ELSE Null
    BY <1>2, <1>3 DEF Linked, AllocateFromFreelist
  <2>2. freeHead' = IF t = <<>> THEN Null ELSE t[1]
    <3>1. CASE 1 < Len(s)
      BY <1>3, <1>10, <2>1, <3>1
    <3>2. CASE ~(1 < Len(s))
      BY <1>3, <1>10, <2>1, <3>2
    <3> QED BY <3>1, <3>2
  <2>3. ASSUME NEW i \in 1 .. Len(t)
        PROVE  word'[t[i]].next = IF i < Len(t) THEN t[i + 1] ELSE Null
    <3>1. t[i] = s[i + 1] /\ i + 1 \in 1 .. Len(s) /\ t[i] # b /\ t[i] \in Block
      BY <1>10, <1>11
    <3>2. word'[t[i]] = word[s[i + 1]]
      BY <1>1, <3>1 DEF Take, TypeOK
    <3>3. word[s[i + 1]].next = IF i + 1 < Len(s) THEN s[(i + 1) + 1] ELSE Null
      BY <1>2, <3>1 DEF Linked
    <3>4. (i + 1 < Len(s)) <=> (i < Len(t))
      BY <1>3, <1>10
    <3>5. i < Len(t) => t[i + 1] = s[(i + 1) + 1]
      BY <1>3, <1>10
    <3> QED BY <3>2, <3>3, <3>4, <3>5
  <2> QED BY <2>2, <2>3 DEF Linked
<1>15. FreeList(t)'
  BY <1>10, <1>12, <1>13, <1>14 DEF FreeList, Linked, NoTwice, Members
<1> QED BY <1>3, <1>9, <1>15 DEF IInv, t

\* Arena::allocate without one: the bump pointer moves.
LEMMA BumpStep ==
  ASSUME IInv, NEW b \in Block, AllocateFromBump(b), Take(b),
         NEW s, FreeList(s)
  PROVE  IInv' /\ s = <<>> /\ FreeList(<<>>)'
<1>0. Cap \in Nat \ {0} /\ SizeMod \in Nat \ {0} /\ SizeMod > Cap
  BY Constants
<1>1. TypeOK /\ CountInv /\ HeaderInv
  BY DEF IInv
<1>2. s \in Seq(Block) /\ Linked(s, freeHead, word) /\ Members(s) = Free
  BY DEF FreeList
<1>3. s = <<>>
  BY <1>2, Constants DEF AllocateFromBump, Linked
<1>4. Free = {}
  BY <1>2, <1>3 DEF Members
<1>5. bump \in 0 .. Cap /\ b = bump /\ bump' = bump + 1 /\ bump < Cap
  BY <1>1 DEF TypeOK, AllocateFromBump
<1>6. b \notin bitmap /\ bitmap' \subseteq 0 .. bump' - 1 /\ bump' \in 0 .. Cap
  BY <1>0, <1>1, <1>5 DEF CountInv, Take
<1>7. Free' = {}
  BY <1>0, <1>4, <1>5 DEF Free, Take
<1>8. freeCount' = freeCount /\ freeHead' = Null
  BY DEF AllocateFromBump
<1>9. freeCount' \in 0 .. SizeMod - 1 /\ freeHead' \in Block \cup {Null, Wild}
  BY <1>1, <1>8 DEF TypeOK
<1>10. freeCount' = Cardinality(Free')
  BY <1>1, <1>4, <1>7, <1>8 DEF CountInv
<1>11. TypeOK' /\ HeaderInv' /\ CountInv'
  BY <1>6, <1>9, <1>10, TakeCounts DEF CountInv
<1>12. FreeList(<<>>)'
  <2>1. <<>> \in Seq(Block) /\ Len(<<>>) = 0 /\ 1 .. 0 = {}
    OBVIOUS
  <2> QED BY <1>7, <1>8, <2>1 DEF FreeList, NoTwice, Members, Linked
<1> QED BY <1>3, <1>11, <1>12 DEF IInv

\* gc::release on a pointer the program holds: the block heads the freelist.
LEMMA ReleaseStep ==
  ASSUME IInv, NEW b \in held, Release(b), NEW s, FreeList(s)
  PROVE  /\ IInv' /\ b \in bitmap /\ Deallocate(b)
         /\ FreeList(<<b>> \o s)'
<1>0. Cap \in Nat \ {0} /\ SizeMod \in Nat \ {0} /\ SizeMod > Cap /\ HeapAddrBit \in BOOLEAN
  BY ArenaAssumption
<1>1. TypeOK /\ CountInv /\ HeaderInv
  BY DEF IInv
<1>2. s \in Seq(Block) /\ NoTwice(s) /\ Linked(s, freeHead, word) /\ Members(s) = Free
  BY DEF FreeList
<1>3. b \in bitmap /\ b \in Block /\ b \in 0 .. bump - 1 /\ b \notin Free /\ ~word[b].dead
  BY <1>1 DEF HeaderInv, Header, CountInv, TypeOK, Free
<1>4. Deallocate(b) /\ total_freed' = (total_freed + 1) % SizeMod
  BY <1>3 DEF Release
<1>5. held' = held \ {b} /\ stale' = stale \cup {b} /\ total_allocated' = total_allocated
  BY DEF Release
<1>6. /\ bump' = bump /\ bitmap' = bitmap \ {b} /\ freeHead' = b
      /\ word' = [word EXCEPT ![b] = Link(freeHead)]
      /\ freeCount' = (freeCount + 1) % SizeMod
      /\ used' = (used + SizeMod - 1) % SizeMod
  BY <1>4 DEF Deallocate
<1>7. Free' = Free \cup {b} /\ bitmap' \subseteq 0 .. bump' - 1
  BY <1>1, <1>3, <1>6 DEF Free, CountInv
<1>8. /\ used' = used - 1 /\ used' = Cardinality(bitmap') /\ used \in 1 .. SizeMod - 1
      /\ freeCount' = freeCount + 1 /\ freeCount' = Cardinality(Free')
  <2>1. /\ IsFiniteSet(bitmap) /\ used \in Nat /\ used = Cardinality(bitmap)
        /\ IsFiniteSet(Free) /\ freeCount \in Nat /\ freeCount = Cardinality(Free)
        /\ used + freeCount = bump
    BY <1>1, Balance DEF CountInv
  <2>2. Cardinality(bitmap') = used - 1 /\ Cardinality(bitmap') \in Nat
    BY <1>3, <1>6, <2>1, FS_RemoveElement, FS_CardinalityType
  <2>3. Cardinality(Free') = freeCount + 1
    BY <1>3, <1>7, <2>1, FS_AddElement
  <2>4. used \in 1 .. SizeMod - 1 /\ freeCount + 1 \in 0 .. SizeMod - 1
    BY <1>0, <1>1, <2>1, <2>2 DEF TypeOK
  <2>5. used' = used - 1
    BY <1>0, <1>6, <2>4, ModDec
  <2>6. freeCount' = freeCount + 1
    BY <1>0, <1>6, <2>4, ModSmall
  <2> QED BY <2>2, <2>3, <2>4, <2>5, <2>6
<1>9. total_allocated' = (total_freed' + used') % SizeMod
  <2>1. total_freed \in Nat /\ used - 1 \in Nat /\ total_freed + 1 \in Nat
    BY <1>0, <1>1, <1>8 DEF TypeOK
  <2>2. (((total_freed + 1) % SizeMod) + (used - 1)) % SizeMod = (total_freed + 1 + (used - 1)) % SizeMod
    BY <1>0, <2>1, ModAdd
  <2>3. total_freed + 1 + (used - 1) = total_freed + used
    BY <2>1, <1>8
  <2> QED BY <1>1, <1>4, <1>5, <1>8, <2>2, <2>3 DEF CountInv
<1>10. TypeOK'
  <2>1. /\ used' \in 0 .. SizeMod - 1 /\ freeCount' \in 0 .. SizeMod - 1
        /\ total_freed' \in 0 .. SizeMod - 1
    <3>1. used + SizeMod - 1 \in Nat /\ freeCount + 1 \in Nat /\ total_freed + 1 \in Nat
      BY <1>0, <1>1 DEF TypeOK
    <3> QED BY <1>0, <1>4, <1>6, <3>1, DivMod
  <2>2. Link(freeHead) \in [next : Block \cup {Null, Wild}, dead : BOOLEAN]
    BY <1>0, <1>1 DEF TypeOK, Link
  <2>3. word' \in [Block -> [next : Block \cup {Null, Wild}, dead : BOOLEAN]]
    BY <1>1, <1>6, <2>2 DEF TypeOK
  <2> QED BY <1>1, <1>3, <1>5, <1>6, <2>1, <2>3 DEF TypeOK
<1>11. HeaderInv'
  BY <1>1, <1>5, <1>6 DEF HeaderInv, TypeOK
<1>12. CountInv'
  BY <1>7, <1>8, <1>9 DEF CountInv
<1> DEFINE t == <<b>> \o s
<1>13. /\ t \in Seq(Block) /\ Len(t) = Len(s) + 1 /\ t[1] = b /\ Len(s) \in Nat /\ t # <<>>
       /\ \A i \in 2 .. Len(t) : t[i] = s[i - 1] /\ i - 1 \in 1 .. Len(s)
  BY <1>2, <1>3
<1> HIDE DEF t
<1>14. \A i \in 1 .. Len(s) : s[i] # b /\ s[i] \in Block
  BY <1>2, <1>3 DEF Members
<1>15. NoTwice(t)
  <2> SUFFICES ASSUME NEW i \in 1 .. Len(t), NEW j \in 1 .. Len(t), t[i] = t[j] PROVE i = j
    BY DEF NoTwice
  <2>1. CASE i = 1 \/ j = 1
    BY <1>13, <1>14, <2>1
  <2>2. CASE i # 1 /\ j # 1
    <3>1. i \in 2 .. Len(t) /\ j \in 2 .. Len(t)
      BY <1>13, <2>2
    <3>2. s[i - 1] = s[j - 1] /\ i - 1 \in 1 .. Len(s) /\ j - 1 \in 1 .. Len(s)
      BY <1>13, <3>1
    <3>3. i - 1 = j - 1
      BY <1>2, <3>2 DEF NoTwice
    <3> QED BY <3>1, <3>3
  <2> QED BY <2>1, <2>2
<1>16. Members(t) = Free'
  <2>1. ASSUME NEW i \in 1 .. Len(t) PROVE t[i] \in Free'
    <3>1. CASE i = 1
      BY <1>7, <1>13, <3>1
    <3>2. CASE i # 1
      <4>1. i \in 2 .. Len(t)
        BY <1>13, <3>2
      <4> QED BY <1>2, <1>7, <1>13, <4>1 DEF Members
    <3> QED BY <3>1, <3>2
  <2>2. ASSUME NEW c \in Free' PROVE \E i \in 1 .. Len(t) : t[i] = c
    <3>1. CASE c = b
      <4>1. 1 \in 1 .. Len(t)
        BY <1>13
      <4> QED BY <1>13, <3>1, <4>1
    <3>2. CASE c # b
      <4>1. PICK i \in 1 .. Len(s) : s[i] = c
        BY <1>2, <1>7, <3>2 DEF Members
      <4>2. i + 1 \in 2 .. Len(t) /\ i + 1 \in 1 .. Len(t) /\ (i + 1) - 1 = i
        BY <1>13
      <4> QED BY <1>13, <4>1, <4>2
    <3> QED BY <3>1, <3>2
  <2> QED BY <2>1, <2>2 DEF Members
<1>17. Linked(t, freeHead', word')
  <2>1. freeHead' = t[1]
    BY <1>6, <1>13
  <2>2. ASSUME NEW i \in 1 .. Len(t)
        PROVE  word'[t[i]].next = IF i < Len(t) THEN t[i + 1] ELSE Null
    <3>1. CASE i = 1
      <4>1. word'[b].next = freeHead
        BY <1>1, <1>3, <1>6 DEF TypeOK, Link
      <4>2. CASE s = <<>>
        BY <1>2, <1>13, <3>1, <4>1, <4>2 DEF Linked
      <4>3. CASE s # <<>>
        <5>1. Len(s) > 0 /\ 2 \in 2 .. Len(t) /\ t[2] = s[1]
          BY <1>2, <1>13, <4>3
        <5>2. freeHead = s[1]
          BY <1>2, <4>3 DEF Linked
        <5>3. 1 < Len(t) /\ i + 1 = 2
          BY <1>13, <3>1, <5>1
        <5> QED BY <1>13, <3>1, <4>1, <5>1, <5>2, <5>3
      <4> QED BY <4>2, <4>3
    <3>2. CASE i # 1
      <4>1. i \in 2 .. Len(t) /\ t[i] = s[i - 1] /\ i - 1 \in 1 .. Len(s)
        BY <1>13, <3>2
      <4>2. word'[t[i]] = word[s[i - 1]]
        BY <1>1, <1>6, <1>14, <4>1 DEF TypeOK
      <4>3. word[s[i - 1]].next = IF i - 1 < Len(s) THEN s[(i - 1) + 1] ELSE Null
        BY <1>2, <4>1 DEF Linked
      <4>4. (i - 1 < Len(s)) <=> (i < Len(t))
        BY <1>13
      <4>5. ASSUME i < Len(t) PROVE t[i + 1] = s[(i - 1) + 1]
        <5>1. i + 1 \in 2 .. Len(t) /\ (i + 1) - 1 = (i - 1) + 1
          BY <1>13, <4>5
        <5> QED BY <1>13, <5>1
      <4> QED BY <4>2, <4>3, <4>4, <4>5
    <3> QED BY <3>1, <3>2
  <2> QED BY <1>13, <2>1, <2>2 DEF Linked
<1>18. FreeList(t)'
  BY <1>13, <1>15, <1>16, <1>17 DEF FreeList, Linked, NoTwice, Members
<1> QED BY <1>3, <1>4, <1>10, <1>11, <1>12, <1>18 DEF IInv, t

LEMMA NextInv ==
  ASSUME IInv, [Next]_vars
  PROVE  IInv'
<1>1. PICK s : FreeList(s)
  BY DEF IInv
<1>2. CASE Alloc
  <2>1. PICK b \in Block : (AllocateFromFreelist(b) \/ AllocateFromBump(b)) /\ Take(b)
    BY <1>2 DEF Alloc, Take
  <2> QED BY <1>1, <2>1, FreelistStep, BumpStep
<1>3. CASE ReleaseHeld
  BY <1>1, <1>3, ReleaseStep DEF ReleaseHeld
<1>4. CASE UNCHANGED vars
  <2>1. TypeOK' /\ CountInv' /\ HeaderInv'
    BY <1>4 DEF vars, arenaVars, IInv, TypeOK, CountInv, HeaderInv, Free
  <2>2. FreeList(s)'
    BY <1>1, <1>4 DEF vars, arenaVars, FreeList, Linked, Free
  <2> QED BY <2>1, <2>2 DEF IInv
<1> QED BY <1>2, <1>3, <1>4 DEF Next

(***************************************************************************)
(* For every capacity and width of size_t, over every order of gc::alloc   *)
(* and gc::release of held pointers: the links Arena::deallocate writes    *)
(* into returned blocks visit each free block once and end in nullptr, the *)
(* bitmap and the counters agree with them, and no block has two owners.   *)
(***************************************************************************)
THEOREM FreelistSafe == Spec => []ArenaIntact
<1>1. Init => IInv
  BY InitInv
<1>2. IInv /\ [Next]_vars => IInv'
  BY NextInv
<1>3. IInv => ArenaIntact
  BY Implied
<1> QED BY <1>1, <1>2, <1>3, PTL DEF Spec

-----------------------------------------------------------------------------
(* The arena implements the pool. *)

\* A freelist is what chain reads, now and in the next state.
ChainFact == \A s : FreeList(s) => chain = s

LEMMA ChainHolds == ChainFact
BY ChainIs DEF ChainFact, FreeList

LEMMA PoolInit ==
  ASSUME Init
  PROVE  Pool!Init
<1>1. <<>> \in Seq(Block) /\ NoTwice(<<>>) /\ Linked(<<>>, freeHead, word)
  <2>1. <<>> \in Seq(Block) /\ Len(<<>>) = 0 /\ 1 .. 0 = {}
    OBVIOUS
  <2> QED BY <2>1 DEF NoTwice, Linked, Init
<1>2. chain = <<>>
  BY <1>1, ChainIs
<1> QED BY <1>2 DEF Init, Pool!Init

\* Every step of the arena is a step of the pool.
LEMMA PoolStep ==
  ASSUME IInv, [Next]_vars, ChainFact, ChainFact'
  PROVE  [Pool!Next]_(Pool!poolVars)
<1>1. PICK s : FreeList(s)
  BY DEF IInv
<1>2. chain = s /\ s \in Seq(Block)
  BY <1>1 DEF ChainFact, FreeList
<1>3. ASSUME NEW t, FreeList(t)' PROVE chain' = t
  BY <1>3 DEF ChainFact
<1>4. CASE Alloc
  <2>1. PICK b \in Block : (AllocateFromFreelist(b) \/ AllocateFromBump(b)) /\ Take(b)
    BY <1>4 DEF Alloc, Take
  <2>2. CASE AllocateFromFreelist(b)
    <3>1. s # <<>> /\ b = Head(s) /\ FreeList(Tail(s))'
      BY <1>1, <2>1, <2>2, FreelistStep
    <3>2. chain' = Tail(s)
      BY <1>3, <3>1
    <3>3. Pool!Reuse
      BY <1>2, <2>1, <2>2, <3>1, <3>2 DEF Pool!Reuse, Take, AllocateFromFreelist
    <3> QED BY <3>3 DEF Pool!Next
  <2>3. CASE AllocateFromBump(b)
    <3>1. s = <<>> /\ FreeList(<<>>)'
      BY <1>1, <2>1, <2>3, BumpStep
    <3>2. chain' = <<>>
      BY <1>3, <3>1
    <3>3. Pool!Cut
      BY <1>2, <2>1, <2>3, <3>1, <3>2 DEF Pool!Cut, Take, AllocateFromBump
    <3> QED BY <3>3 DEF Pool!Next
  <2> QED BY <2>1, <2>2, <2>3
<1>5. CASE ReleaseHeld
  <2>1. PICK b \in held : Release(b)
    BY <1>5 DEF ReleaseHeld
  <2>2. b \in bitmap /\ Deallocate(b) /\ FreeList(<<b>> \o s)'
    BY <1>1, <2>1, ReleaseStep
  <2>3. chain' = <<b>> \o s
    BY <1>3, <2>2
  <2>4. Pool!Return(b)
    BY <1>2, <2>2, <2>3 DEF Pool!Return, Deallocate
  <2> QED BY <2>2, <2>4 DEF Pool!Next
<1>6. CASE UNCHANGED vars
  <2>1. FreeList(s)'
    BY <1>1, <1>6 DEF vars, arenaVars, FreeList, Linked, Free
  <2>2. chain' = chain
    BY <1>2, <1>3, <2>1
  <2> QED BY <1>6, <2>2 DEF vars, arenaVars, Pool!poolVars
<1> QED BY <1>4, <1>5, <1>6 DEF Next

(***************************************************************************)
(* Arena::allocate and Arena::deallocate implement BlockPool.tla: read     *)
(* through its links the freelist is a stack, the block allocated is the   *)
(* one returned last, and a fresh block is cut only when none is returned. *)
(***************************************************************************)
THEOREM PoolImplemented == Spec => ImplementsPool
<1>1. Init => IInv /\ Pool!Init
  BY InitInv, PoolInit
<1>2. IInv /\ [Next]_vars => IInv'
  BY NextInv
<1>3. ChainFact
  BY ChainHolds
<1>4. IInv /\ [Next]_vars /\ ChainFact /\ ChainFact' => [Pool!Next]_(Pool!poolVars)
  BY PoolStep
<1> QED BY <1>1, <1>2, <1>3, <1>4, PTL DEF Spec, ImplementsPool, Pool!Spec
=============================================================================
