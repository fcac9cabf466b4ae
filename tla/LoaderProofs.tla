---------------------------- MODULE LoaderProofs ----------------------------
(***************************************************************************)
(* Proofs about Loader.tla, for any modules, requires and nesting of       *)
(* calls, provided that no two files on disk have one name and every path  *)
(* is written in its canonical form.                                       *)
(***************************************************************************)
EXTENDS Loader, FiniteSetTheorems, SequenceTheorems, WellFoundedInduction, TLAPS

\* A path is given in its canonical form, and no two files on disk have one stem.
Unambiguous ==
  /\ \A s \in Spellings : CanonOf[s] = s
  /\ \A p, q \in Exists : p[2] = q[2] => p = q

AllNames == Names \cup BinNames

-----------------------------------------------------------------------------
(* Smallest and largest members. *)

LEMMA MinIn ==
  ASSUME NEW S, S \subseteq Nat, S # {}
  PROVE  Min(S) \in S
<1>1. \E m \in S : \A y \in S : ~ (<<y, m>> \in OpToRel(<, Nat))
  BY NatLessThanWellFounded, WFMin
<1>2. PICK m \in S : \A y \in S : ~ (<<y, m>> \in OpToRel(<, Nat))
  BY <1>1
<1>3. ASSUME NEW y \in S PROVE m <= y
  <2>1. y \in Nat /\ m \in Nat
    OBVIOUS
  <2>2. y < m => <<y, m>> \in {ss \in Nat \X Nat : ss[1] < ss[2]}
    BY <2>1
  <2>3. ~(y < m)
    BY <1>2, <2>2 DEF OpToRel
  <2> QED BY <2>1, <2>3
<1>4. \E x \in S : \A y \in S : x <= y
  BY <1>3
<1>5. Min(S) = CHOOSE x \in S : \A y \in S : x <= y
  BY DEF Min
<1> QED BY <1>4, <1>5, Zenon

LEMMA MaxIn ==
  ASSUME NEW n \in Nat, NEW S, S \subseteq 0 .. n, S # {}
  PROVE  Max(S) \in S /\ \A y \in S : y <= Max(S)
<1> DEFINE T == {n - x : x \in S}
<1>1. T \subseteq Nat /\ T # {}
  <2>1. \A x \in S : n - x \in Nat
    OBVIOUS
  <2>2. PICK x \in S : TRUE
    OBVIOUS
  <2> QED BY <2>1, <2>2
<1>2. PICK m \in T : \A y \in T : ~ (<<y, m>> \in OpToRel(<, Nat))
  <2> HIDE DEF T
  <2> QED BY <1>1, NatLessThanWellFounded, WFMin
<1>3. ASSUME NEW y \in T PROVE m <= y
  <2> HIDE DEF T
  <2>1. y \in Nat /\ m \in Nat
    BY <1>1
  <2>2. y < m => <<y, m>> \in {ss \in Nat \X Nat : ss[1] < ss[2]}
    BY <2>1
  <2>3. ~(y < m)
    BY <1>2, <2>2 DEF OpToRel
  <2> QED BY <2>1, <2>3
<1>4. PICK k \in S : m = n - k
  OBVIOUS
<1>5. ASSUME NEW y \in S PROVE y <= k
  <2>1. n - y \in T /\ y \in Nat /\ k \in Nat
    OBVIOUS
  <2>2. n - k <= n - y
    BY <1>3, <1>4, <2>1
  <2> QED BY <2>1, <2>2
<1>6. \E x \in S : \A y \in S : x >= y
  BY <1>5
<1>7. Max(S) = CHOOSE x \in S : \A y \in S : x >= y
  BY DEF Max
<1>8. Max(S) \in S /\ \A y \in S : Max(S) >= y
  BY <1>6, <1>7, Zenon
<1> QED BY <1>8

-----------------------------------------------------------------------------
(* The call stack as a sequence. *)

\* The frames that began a load_module_with_imports, an unload or a run.
Roots(st) == {i \in DOMAIN st : st[i].root}

\* The modules whose load is under way.
Waiting(st) == {st[i].path : i \in {j \in DOMAIN st : st[j].op \in {"load", "top"}}}

LEMMA RootsFinite ==
  ASSUME NEW st \in Seq(FrameType)
  PROVE  IsFiniteSet(Roots(st)) /\ Cardinality(Roots(st)) \in Nat
<1>1. Len(st) \in Nat /\ DOMAIN st = 1 .. Len(st)
  OBVIOUS
<1>2. IsFiniteSet(1 .. Len(st))
  BY <1>1, FS_Interval
<1>3. Roots(st) \in SUBSET (1 .. Len(st))
  BY <1>1 DEF Roots
<1>4. IsFiniteSet(Roots(st))
  BY <1>2, <1>3, FS_Subset
<1> QED BY <1>4, FS_CardinalityType

\* A call is made.
LEMMA Push ==
  ASSUME NEW st \in Seq(FrameType), NEW f \in FrameType
  PROVE  /\ Append(st, f) \in Seq(FrameType)
         /\ Len(Append(st, f)) = Len(st) + 1 /\ Len(st) \in Nat
         /\ DOMAIN Append(st, f) = 1 .. Len(st) + 1 /\ DOMAIN st = 1 .. Len(st)
         /\ \A i \in 1 .. Len(st) : Append(st, f)[i] = st[i]
         /\ Append(st, f)[Len(st) + 1] = f
OBVIOUS

LEMMA PushRoots ==
  ASSUME NEW st \in Seq(FrameType), NEW f \in FrameType
  PROVE  /\ Cardinality(Roots(Append(st, f)))
              = Cardinality(Roots(st)) + (IF f.root THEN 1 ELSE 0)
         /\ Waiting(st) \subseteq Waiting(Append(st, f))
         /\ f.op = "load" => f.path \in Waiting(Append(st, f))
<1> DEFINE r == Append(st, f)
           n == Len(st)
<1>1. /\ n \in Nat /\ DOMAIN r = 1 .. n + 1 /\ DOMAIN st = 1 .. n
      /\ (\A i \in 1 .. n : r[i] = st[i]) /\ r[n + 1] = f
  BY Push
<1> HIDE DEF r
<1>2. n + 1 \notin 1 .. n /\ 1 .. n + 1 = (1 .. n) \cup {n + 1}
  BY <1>1
<1> HIDE DEF n
<1>3. Roots(r) = IF f.root THEN Roots(st) \cup {n + 1} ELSE Roots(st)
  BY <1>1, <1>2 DEF Roots
<1>4. n + 1 \notin Roots(st)
  BY <1>1, <1>2 DEF Roots
<1>5. IsFiniteSet(Roots(st)) /\ Cardinality(Roots(st)) \in Nat
  BY RootsFinite
<1>6. Cardinality(Roots(st) \cup {n + 1}) = Cardinality(Roots(st)) + 1
  BY <1>4, <1>5, FS_AddElement
<1>7. Waiting(st) \subseteq Waiting(r)
  BY <1>1, <1>2 DEF Waiting
<1>8. ASSUME f.op = "load" PROVE f.path \in Waiting(r)
  <2>1. n + 1 \in DOMAIN r /\ r[n + 1].op \in {"load", "top"} /\ r[n + 1].path = f.path
    BY <1>1, <1>2, <1>8
  <2> QED BY <2>1 DEF Waiting
<1> QED BY <1>3, <1>5, <1>6, <1>7, <1>8 DEF r

\* A call returns.
LEMMA Pop ==
  ASSUME NEW st \in Seq(FrameType), st # <<>>
  PROVE  /\ Front(st) \in Seq(FrameType) /\ Last(st) \in FrameType
         /\ Len(st) \in Nat \ {0} /\ Len(Front(st)) = Len(st) - 1
         /\ DOMAIN Front(st) = 1 .. Len(st) - 1 /\ DOMAIN st = 1 .. Len(st)
         /\ Last(st) = st[Len(st)]
         /\ \A i \in 1 .. Len(st) - 1 : Front(st)[i] = st[i]
<1>1. Len(st) \in Nat \ {0} /\ DOMAIN st = 1 .. Len(st) /\ st[Len(st)] \in FrameType
  OBVIOUS
<1> DEFINE n == Len(st) - 1
           u == SubSeq(st, 1, n)
<1>2. n \in Nat /\ n <= Len(st)
  BY <1>1
<1> HIDE DEF n
<1>3. u \in Seq(FrameType) /\ Len(u) = n /\ \A i \in 1 .. n : u[i] = st[i]
  BY <1>1, <1>2
<1>4. DOMAIN u = 1 .. n
  BY <1>3
<1>5. u = Front(st)
  BY DEF Front, n
<1> HIDE DEF u
<1> QED BY <1>1, <1>3, <1>4, <1>5 DEF Last, n

LEMMA PopRoots ==
  ASSUME NEW st \in Seq(FrameType), st # <<>>
  PROVE  /\ Cardinality(Roots(Front(st)))
              = Cardinality(Roots(st)) - (IF Last(st).root THEN 1 ELSE 0)
         /\ Waiting(st) \subseteq Waiting(Front(st)) \cup {Last(st).path}
         /\ Last(st).op \notin {"load", "top"} => Waiting(Front(st)) = Waiting(st)
<1> DEFINE r == Front(st)
           n == Len(st)
<1>1. /\ n \in Nat \ {0} /\ DOMAIN r = 1 .. n - 1 /\ DOMAIN st = 1 .. n
      /\ (\A i \in 1 .. n - 1 : r[i] = st[i]) /\ Last(st) = st[n]
  BY Pop
<1> HIDE DEF r
<1>2. n \notin 1 .. n - 1 /\ 1 .. n = (1 .. n - 1) \cup {n}
  BY <1>1
<1> HIDE DEF n
<1>3. Roots(r) = Roots(st) \ {n}
  BY <1>1, <1>2 DEF Roots
<1>4. n \in Roots(st) <=> Last(st).root
  BY <1>1, <1>2 DEF Roots
<1>5. IsFiniteSet(Roots(st)) /\ Cardinality(Roots(st)) \in Nat
  BY RootsFinite
<1>6. Cardinality(Roots(r)) = IF n \in Roots(st) THEN Cardinality(Roots(st)) - 1
                              ELSE Cardinality(Roots(st))
  BY <1>3, <1>5, FS_RemoveElement
<1>7. Waiting(st) \subseteq Waiting(r) \cup {Last(st).path}
  BY <1>1, <1>2 DEF Waiting
<1>8. Last(st).op \notin {"load", "top"} => Waiting(r) = Waiting(st)
  BY <1>1, <1>2 DEF Waiting
<1> QED BY <1>4, <1>5, <1>6, <1>7, <1>8 DEF r

\* The innermost frame changes.
LEMMA Change ==
  ASSUME NEW st \in Seq(FrameType), st # <<>>, NEW f \in FrameType,
         f.root = Last(st).root, f.path = Last(st).path,
         f.op \in {"load", "top"} <=> Last(st).op \in {"load", "top"}
  PROVE  LET r == Append(Front(st), f) IN
         /\ r \in Seq(FrameType) /\ Len(r) = Len(st) /\ Len(st) \in Nat \ {0}
         /\ DOMAIN r = 1 .. Len(st) /\ DOMAIN st = 1 .. Len(st)
         /\ \A i \in 1 .. Len(st) - 1 : r[i] = st[i]
         /\ r[Len(st)] = f /\ Last(st) = st[Len(st)]
         /\ Roots(r) = Roots(st) /\ Waiting(r) = Waiting(st)
<1> DEFINE r == Append(Front(st), f)
           n == Len(st)
<1>1. /\ Front(st) \in Seq(FrameType) /\ n \in Nat \ {0} /\ Len(Front(st)) = n - 1
      /\ DOMAIN st = 1 .. n /\ Last(st) = st[n]
      /\ \A i \in 1 .. n - 1 : Front(st)[i] = st[i]
  BY Pop
<1>2. /\ r \in Seq(FrameType) /\ Len(r) = Len(Front(st)) + 1
      /\ DOMAIN r = 1 .. Len(Front(st)) + 1
      /\ (\A i \in 1 .. Len(Front(st)) : r[i] = Front(st)[i]) /\ r[Len(Front(st)) + 1] = f
  BY <1>1, Push
<1>3. n - 1 + 1 = n /\ 1 .. n = (1 .. n - 1) \cup {n}
  BY <1>1
<1> HIDE DEF r, n
<1>4. /\ DOMAIN r = 1 .. n /\ Len(r) = n
      /\ (\A i \in 1 .. n - 1 : r[i] = st[i]) /\ r[n] = f
  BY <1>1, <1>2, <1>3
<1>5. \A i \in 1 .. n : /\ r[i].root = st[i].root /\ r[i].path = st[i].path
                        /\ r[i].op \in {"load", "top"} <=> st[i].op \in {"load", "top"}
  BY <1>1, <1>3, <1>4
<1>6. Roots(r) = Roots(st) /\ Waiting(r) = Waiting(st)
  BY <1>1, <1>4, <1>5 DEF Roots, Waiting
<1> QED BY <1>1, <1>2, <1>4, <1>6 DEF r, n

\* A load fails: its frames go.
LEMMA Cut ==
  ASSUME NEW st \in Seq(FrameType), Roots(st) # {}
  PROVE  LET r == Max(Roots(st))
             u == SubSeq(st, 1, r - 1)
         IN  /\ r \in 1 .. Len(st) /\ u \in Seq(FrameType) /\ Len(u) = r - 1
             /\ DOMAIN u = 1 .. r - 1 /\ DOMAIN st = 1 .. Len(st) /\ Len(st) \in Nat
             /\ \A i \in 1 .. r - 1 : u[i] = st[i]
             /\ Cardinality(Roots(u)) = Cardinality(Roots(st)) - 1
             /\ Waiting(st) \subseteq Waiting(u) \cup {st[i].path : i \in r .. Len(st)}
<1> DEFINE r == Max(Roots(st))
           n == Len(st)
           u == SubSeq(st, 1, r - 1)
<1>1. n \in Nat /\ DOMAIN st = 1 .. n
  OBVIOUS
<1>2. Roots(st) \subseteq 0 .. n /\ Roots(st) \subseteq 1 .. n
  BY <1>1 DEF Roots
<1>3. r \in Roots(st) /\ \A y \in Roots(st) : y <= r
  BY <1>1, <1>2, MaxIn
<1> HIDE DEF r
<1>4. r \in 1 .. n /\ r \in Nat \ {0}
  BY <1>1, <1>2, <1>3
<1>5. u \in Seq(FrameType) /\ Len(u) = r - 1 /\ \A i \in 1 .. r - 1 : u[i] = st[i]
  BY <1>1, <1>4
<1>6. DOMAIN u = 1 .. r - 1
  BY <1>5
<1> HIDE DEF u
<1>7. Roots(u) = Roots(st) \ {r}
  <2>1. ASSUME NEW i \in Roots(u) PROVE i \in Roots(st) \ {r}
    BY <1>1, <1>4, <1>5, <1>6 DEF Roots
  <2>2. ASSUME NEW i \in Roots(st) \ {r} PROVE i \in Roots(u)
    <3>1. i \in 1 .. r - 1
      BY <1>2, <1>3, <1>4
    <3> QED BY <1>5, <1>6, <3>1 DEF Roots
  <2> QED BY <2>1, <2>2
<1>8. IsFiniteSet(Roots(st)) /\ Cardinality(Roots(st)) \in Nat
  BY RootsFinite
<1>9. Cardinality(Roots(u)) = Cardinality(Roots(st)) - 1
  BY <1>3, <1>7, <1>8, FS_RemoveElement
<1>10. \A i \in 1 .. n : i \in 1 .. r - 1 \/ i \in r .. n
  BY <1>1, <1>4
<1>11. Waiting(st) \subseteq Waiting(u) \cup {st[i].path : i \in r .. n}
  BY <1>1, <1>5, <1>6, <1>10 DEF Waiting
<1> QED BY <1>1, <1>4, <1>5, <1>6, <1>9, <1>11 DEF r, u

-----------------------------------------------------------------------------
(* The invariant. *)

\* The two maps of the registry are each other's inverse, and a file has the name
\* it was loaded under.
RegistryInv ==
  /\ byName \in [AllNames -> [id : Files, path : Paths] \cup {None}]
  /\ byPath \in [Paths -> AllNames \cup {None}]
  /\ \A n \in Loaded :
       /\ byName[n].path[2] = n /\ byPath[byName[n].path] = n
       /\ byName[n].path \in Exists \cup ({Mem} \X BinNames)
  /\ \A p \in Paths : byPath[p] # None => byPath[p] \in Loaded /\ byName[byPath[p]].path = p

\* A symbol points into the file of the module that owns it.
GlobalsInv ==
  /\ globals \in [Symbols -> [id : Files, owner : AllNames] \cup {None}]
  /\ \A s \in Symbols : globals[s] # None =>
       globals[s].owner \in Loaded /\ globals[s].id = byName[globals[s].owner].id

RegInv == RegistryInv /\ GlobalsInv

\* The modules that a table nm has.
In(nm) == {n \in AllNames : nm[n] # None}

\* What holds of the i-th call in progress, given the modules nm, those whose
\* top-level is done, and the requires.  A hook runs below every load.
FrameOK(st, i, nm, done, req) ==
  LET f == st[i] IN
  /\ f.op # "again" => /\ f.path[2] \in In(nm)
                       /\ nm[f.path[2]] = [id |-> f.id, path |-> f.path]
                       /\ \E j \in 1 .. i : st[j].root
  /\ f.op = "again" => ~f.root /\ f.path \in Exists /\ f.id = NoFile
  /\ f.op = "hook" => f.root /\ \A j \in 1 .. i - 1 : st[j].op = "again"
  /\ f.op = "load" => f.path \in Exists /\ f.path \notin done
  /\ f.op = "top" => f.todo = {}
  /\ f.op \in {"load", "top"} /\ f.path[1] # Mem => req[f.path[2]] \ f.todo \subseteq In(nm)

\* No file is being loaded twice.
StackOK(st, nm, done, req) ==
  /\ st \in Seq(FrameType)
  /\ \A i \in DOMAIN st : FrameOK(st, i, nm, done, req)
  /\ \A i, j \in DOMAIN st :
       st[i].op # "again" /\ st[j].op # "again" /\ st[i].path = st[j].path => i = j

StackInv == StackOK(stack, byName, inited, requires)

\* There is one already_loaded for each load in progress, and what it names is
\* registered.
VisitedInv ==
  /\ visited \in Seq(SUBSET Paths)
  /\ Len(visited) = Cardinality(Roots(stack))
  /\ \A i \in DOMAIN visited : \A c \in visited[i] : byPath[c] # None

\* What has run is registered, and what is registered has run, is under way, or is
\* known not to have run.
HistoryInv ==
  /\ inited \subseteq Paths /\ uninit \subseteq Paths
  /\ requires \in [Names -> SUBSET Names]
  /\ \A p \in inited : byPath[p] # None
  /\ \A n \in Loaded : byName[n].path \in inited \cup uninit \cup Waiting(stack)

IInv == Unambiguous /\ RegInv /\ StackInv /\ VisitedInv /\ HistoryInv

-----------------------------------------------------------------------------
(* Paths, entries and ids. *)

LEMMA Constants ==
  /\ IsFiniteSet(AllNames) /\ Cardinality(AllNames) \in Nat /\ Cardinality(Symbols) \in Nat
  /\ Files \subseteq Nat \ {0} /\ NoFile \notin Files
  /\ None \notin AllNames
  /\ None \notin [id : Files, path : Paths] /\ None \notin [id : Files, owner : AllNames]
<1>1. IsFiniteSet(AllNames)
  BY LoaderAssumption, FS_Union DEF AllNames
<1>2. Cardinality(AllNames) \in Nat /\ Cardinality(Symbols) \in Nat
  BY <1>1, LoaderAssumption, FS_CardinalityType
<1>3. Files \subseteq Nat \ {0} /\ NoFile \notin Files
  BY DEF Files, NoFile
<1>4. [id : Files, path : Paths] \subseteq [id : Nat, path : (Spellings \cup {"mem"}) \X (Names \cup BinNames)]
  BY <1>3 DEF Paths, Mem
<1>5. [id : Files, owner : AllNames] \subseteq [id : Nat, owner : Names \cup BinNames]
  BY <1>3 DEF AllNames
<1>6. None \notin AllNames
  BY LoaderAssumption DEF AllNames
<1> QED BY <1>1, <1>2, <1>3, <1>4, <1>5, <1>6, LoaderAssumption

LEMMA DiskPath ==
  ASSUME NEW p \in Exists
  PROVE  /\ p \in Spellings \X Names /\ p \in Paths /\ p[2] \in Names /\ p[2] \in AllNames
         /\ p[1] # Mem /\ p[1] \in Spellings /\ p = <<p[1], p[2]>>
<1>1. Range(CanonOf) \subseteq Spellings
  BY LoaderAssumption DEF Range
<1>2. p \in Spellings \X Names
  BY <1>1, LoaderAssumption
<1>3. "mem" \notin Spellings
  BY LoaderAssumption
<1> QED BY <1>2, <1>3 DEF Paths, Mem, AllNames

LEMMA CanonIs ==
  ASSUME Unambiguous, NEW p \in Paths
  PROVE  Canon(p) = p /\ p[2] \in AllNames
<1>1. CASE p \in Spellings \X Names
  BY <1>1 DEF Canon, Unambiguous, AllNames
<1>2. CASE p \in {Mem} \X BinNames
  BY <1>2 DEF Canon, AllNames
<1> QED BY <1>1, <1>2 DEF Paths

LEMMA MemPath ==
  ASSUME NEW n \in BinNames
  PROVE  <<Mem, n>> \in Paths /\ <<Mem, n>> \notin Exists /\ n \in AllNames /\ n \notin Names
<1>1. <<Mem, n>> \in Paths
  BY DEF Paths
<1>2. <<Mem, n>> \notin Exists
  BY DiskPath
<1> QED BY <1>1, <1>2, LoaderAssumption DEF AllNames

\* The entry of a module, and the other way round.
LEMMA EntryOf ==
  ASSUME RegistryInv, NEW n \in Loaded
  PROVE  /\ n \in AllNames /\ byName[n] \in [id : Files, path : Paths]
         /\ byName[n].id \in Files /\ byName[n].path \in Paths
         /\ byName[n] = [id |-> byName[n].id, path |-> byName[n].path]
         /\ n \in BinNames => byName[n].path = <<Mem, n>>
         /\ n \in Names => byName[n].path \in Exists
<1>1. n \in AllNames /\ byName[n] # None
  BY DEF Loaded, AllNames
<1>2. byName[n] \in [id : Files, path : Paths]
  BY <1>1 DEF RegistryInv
<1>3. ASSUME n \in BinNames PROVE byName[n].path = <<Mem, n>>
  <2>1. n \notin Names
    BY <1>3, LoaderAssumption
  <2>2. byName[n].path \notin Exists
    BY <2>1, DiskPath DEF RegistryInv
  <2> QED BY <2>2 DEF RegistryInv
<1>4. ASSUME n \in Names PROVE byName[n].path \in Exists
  <2>1. n \notin BinNames
    BY <1>4, LoaderAssumption
  <2> QED BY <2>1 DEF RegistryInv
<1> QED BY <1>1, <1>2, <1>3, <1>4

\* There is always an id left for a new file.
LEMMA FreshFile ==
  ASSUME IInv
  PROVE  Fresh \in Files
<1>0. RegistryInv /\ GlobalsInv /\ StackInv
  BY DEF IInv, RegInv
<1> DEFINE G == {globals[s].id : s \in {s \in Symbols : globals[s] # None}}
           m == Cardinality(AllNames) + Cardinality(Symbols) + Len(stack) + 1
           S == (1 .. m) \ (Owned \cup Held \cup G)
<1>1. G \subseteq Owned
  BY <1>0 DEF GlobalsInv, Owned
<1>2. Held \subseteq Owned \cup {NoFile}
  <2> SUFFICES ASSUME NEW i \in DOMAIN stack PROVE stack[i].id \in Owned \cup {NoFile}
    BY DEF Held
  <2>1. FrameOK(stack, i, byName, inited, requires) /\ stack[i] \in FrameType
    BY <1>0 DEF StackInv, StackOK
  <2>2. CASE stack[i].op = "again"
    BY <2>1, <2>2 DEF FrameOK
  <2>3. CASE stack[i].op # "again"
    <3>1. stack[i].path[2] \in Loaded /\ byName[stack[i].path[2]].id = stack[i].id
      BY <2>1, <2>3 DEF FrameOK, In, Loaded, AllNames
    <3> QED BY <3>1 DEF Owned
  <2> QED BY <2>2, <2>3
<1>3. IsFiniteSet(Owned) /\ Cardinality(Owned) <= Cardinality(AllNames)
  <2> DEFINE h == [n \in Loaded |-> byName[n].id]
  <2>1. h \in Surjection(Loaded, Owned)
    BY DEF Surjection, Owned
  <2>2. Loaded \subseteq AllNames
    BY DEF Loaded, AllNames
  <2>3. IsFiniteSet(Loaded) /\ Cardinality(Loaded) <= Cardinality(AllNames)
    BY <2>2, Constants, FS_Subset
  <2>4. IsFiniteSet(Owned) /\ Cardinality(Owned) <= Cardinality(Loaded)
    BY <2>1, <2>3, FS_Surjection
  <2>5. Cardinality(Owned) \in Nat /\ Cardinality(Loaded) \in Nat /\ Cardinality(AllNames) \in Nat
    BY <2>3, <2>4, Constants, FS_CardinalityType
  <2> QED BY <2>3, <2>4, <2>5
<1>4. m \in Nat /\ m > Cardinality(AllNames)
  <2>1. Len(stack) \in Nat
    BY <1>0 DEF StackInv, StackOK
  <2> QED BY <2>1, Constants
<1>5. S = (1 .. m) \ (Owned \cup Held \cup G) /\ Fresh = Min(S)
  BY DEF Fresh, AllNames
<1> HIDE DEF m, S, G
<1>6. 1 .. m \subseteq Nat \ {0} /\ NoFile \notin 1 .. m
  BY <1>4 DEF NoFile
<1>7. ~(1 .. m \subseteq Owned)
  <2> SUFFICES ASSUME 1 .. m \subseteq Owned PROVE FALSE
    OBVIOUS
  <2>1. Cardinality(1 .. m) <= Cardinality(Owned)
    BY <1>3, FS_Subset
  <2>2. Cardinality(1 .. m) = m
    BY <1>4, FS_Interval
  <2>3. Cardinality(Owned) \in Nat /\ Cardinality(AllNames) \in Nat
    BY <1>3, Constants, FS_CardinalityType
  <2> QED BY <1>3, <1>4, <2>1, <2>2, <2>3
<1>8. S # {} /\ S \subseteq Nat \ {0}
  BY <1>1, <1>2, <1>5, <1>6, <1>7
<1>9. S \subseteq Nat
  BY <1>8
<1> QED BY <1>5, <1>8, <1>9, MinIn DEF Files

-----------------------------------------------------------------------------
(* What keeps a call stack in order. *)

\* Calls return.
LEMMA StackPrefix ==
  ASSUME NEW nm, NEW done, NEW req, NEW st, StackOK(st, nm, done, req),
         NEW u \in Seq(FrameType), Len(u) <= Len(st), \A i \in 1 .. Len(u) : u[i] = st[i]
  PROVE  StackOK(u, nm, done, req)
<1>1. /\ st \in Seq(FrameType) /\ Len(st) \in Nat /\ Len(u) \in Nat
      /\ DOMAIN st = 1 .. Len(st) /\ DOMAIN u = 1 .. Len(u)
  BY DEF StackOK
<1>2. ASSUME NEW i \in DOMAIN u PROVE FrameOK(u, i, nm, done, req)
  <2>1. i \in DOMAIN st /\ u[i] = st[i] /\ i \in 1 .. Len(u)
    BY <1>1
  <2>2. FrameOK(st, i, nm, done, req)
    BY <2>1 DEF StackOK
  <2>3. \A j \in 1 .. i : u[j] = st[j]
    BY <1>1, <2>1
  <2>4. \A j \in 1 .. i - 1 : u[j] = st[j]
    BY <1>1, <2>1
  <2> QED BY <2>1, <2>2, <2>3, <2>4 DEF FrameOK
<1>3. \A i, j \in DOMAIN u :
        u[i].op # "again" /\ u[j].op # "again" /\ u[i].path = u[j].path => i = j
  <2>1. \A i \in DOMAIN u : i \in DOMAIN st /\ u[i] = st[i]
    BY <1>1
  <2> QED BY <2>1 DEF StackOK
<1> QED BY <1>2, <1>3 DEF StackOK

\* Modules are registered and top-levels return.
LEMMA StackGrow ==
  ASSUME NEW nm, NEW done, NEW req, NEW st, StackOK(st, nm, done, req),
         NEW nm2, In(nm) \subseteq In(nm2), \A n \in In(nm) : nm2[n] = nm[n],
         NEW done2, \A i \in DOMAIN st : st[i].op = "load" => st[i].path \notin done2
  PROVE  StackOK(st, nm2, done2, req)
<1>1. ASSUME NEW i \in DOMAIN st PROVE FrameOK(st, i, nm2, done2, req)
  <2>1. FrameOK(st, i, nm, done, req)
    BY DEF StackOK
  <2> QED BY <2>1 DEF FrameOK
<1> QED BY <1>1 DEF StackOK

\* The load of a new file begins.
LEMMA StackPush ==
  ASSUME NEW nm, NEW done, NEW req, NEW st, StackOK(st, nm, done, req),
         NEW f \in FrameType, f.op = "load", f.path \in Exists, f.path \notin done,
         f.path[2] \in In(nm), nm[f.path[2]] = [id |-> f.id, path |-> f.path],
         req[f.path[2]] \ f.todo \subseteq In(nm),
         f.root \/ \E j \in DOMAIN st : st[j].root,
         \A i \in DOMAIN st : st[i].op # "again" => st[i].path # f.path
  PROVE  StackOK(Append(st, f), nm, done, req)
<1> DEFINE u == Append(st, f)
           n == Len(st) + 1
<1>0. st \in Seq(FrameType)
  BY DEF StackOK
<1>1. /\ u \in Seq(FrameType) /\ Len(st) \in Nat /\ DOMAIN u = 1 .. n /\ DOMAIN st = 1 .. Len(st)
      /\ (\A i \in 1 .. Len(st) : u[i] = st[i]) /\ u[n] = f
  BY <1>0, Push
<1>2. n \in 1 .. n /\ \A i \in 1 .. n : i = n \/ i \in 1 .. Len(st)
  BY <1>1
<1> HIDE DEF u
<1>3. ASSUME NEW i \in 1 .. n PROVE FrameOK(u, i, nm, done, req)
  <2>1. CASE i = n
    <3>1. \E j \in 1 .. n : u[j].root
      <4>1. CASE f.root
        BY <1>1, <1>2, <4>1
      <4>2. CASE \E j \in DOMAIN st : st[j].root
        <5>1. PICK j \in DOMAIN st : st[j].root
          BY <4>2
        <5>2. j \in 1 .. n /\ u[j] = st[j]
          BY <1>1
        <5> QED BY <5>1, <5>2
      <4> QED BY <4>1, <4>2
    <3> HIDE DEF n
    <3> QED BY <1>1, <2>1, <3>1 DEF FrameOK
  <2>2. CASE i \in 1 .. Len(st)
    <3>1. FrameOK(st, i, nm, done, req)
      BY <1>1, <2>2 DEF StackOK
    <3>2. u[i] = st[i] /\ (\A j \in 1 .. i : u[j] = st[j]) /\ (\A j \in 1 .. i - 1 : u[j] = st[j])
      BY <1>1, <2>2
    <3> QED BY <3>1, <3>2 DEF FrameOK
  <2> QED BY <1>2, <2>1, <2>2
<1>4. ASSUME NEW i \in 1 .. n, NEW j \in 1 .. n,
             u[i].op # "again", u[j].op # "again", u[i].path = u[j].path
      PROVE  i = j
  <2>1. CASE i = n /\ j = n
    BY <2>1
  <2>2. CASE i \in 1 .. Len(st) /\ j \in 1 .. Len(st)
    BY <1>1, <1>4, <2>2 DEF StackOK
  <2>3. CASE i = n /\ j \in 1 .. Len(st)
    BY <1>1, <1>4, <2>3
  <2>4. CASE j = n /\ i \in 1 .. Len(st)
    BY <1>1, <1>4, <2>4
  <2> QED BY <1>2, <2>1, <2>2, <2>3, <2>4
<1> QED BY <1>1, <1>3, <1>4 DEF StackOK, u

\* The innermost call gets on: it has called something, has one dependency less to
\* see to, or its top-level starts.
LEMMA StackChange ==
  ASSUME NEW nm, NEW done, NEW req, NEW st, StackOK(st, nm, done, req), st # <<>>,
         Last(st).op # "again",
         NEW f \in FrameType, f.root = Last(st).root, f.path = Last(st).path, f.id = Last(st).id,
         f.op = Last(st).op \/ (f.op = "top" /\ Last(st).op = "load"),
         f.op = "top" => f.todo = {},
         f.op \in {"load", "top"} /\ f.path[1] # Mem => req[f.path[2]] \ f.todo \subseteq In(nm)
  PROVE  StackOK(Append(Front(st), f), nm, done, req)
<1> DEFINE u == Append(Front(st), f)
           n == Len(st)
           v == Last(st)
<1>0. st \in Seq(FrameType)
  BY DEF StackOK
<1>1. f.op \in {"load", "top"} <=> v.op \in {"load", "top"}
  OBVIOUS
<1>2. /\ u \in Seq(FrameType) /\ n \in Nat \ {0} /\ DOMAIN u = 1 .. n /\ DOMAIN st = 1 .. n
      /\ (\A i \in 1 .. n - 1 : u[i] = st[i]) /\ u[n] = f /\ v = st[n]
  BY <1>0, <1>1, Change
<1> HIDE DEF u, n, v
<1>3. n \in 1 .. n /\ \A i \in 1 .. n : i = n \/ i \in 1 .. n - 1
  BY <1>2
<1>4. \A i \in 1 .. n : /\ u[i].root = st[i].root /\ u[i].path = st[i].path
                        /\ u[i].op = "again" <=> st[i].op = "again"
  BY <1>2, <1>3 DEF v
<1>5. ASSUME NEW i \in 1 .. n PROVE FrameOK(u, i, nm, done, req)
  <2>1. FrameOK(st, i, nm, done, req)
    BY <1>2 DEF StackOK
  <2>2. (\A j \in 1 .. i : j \in 1 .. n) /\ (\A j \in 1 .. i - 1 : j \in 1 .. n)
    BY <1>2
  <2>3. CASE i = n
    <3>1. u[i] = f /\ st[i] = v
      BY <1>2, <2>3
    <3>2. f.op # "again" => /\ f.path[2] \in In(nm)
                            /\ nm[f.path[2]] = [id |-> f.id, path |-> f.path]
                            /\ \E j \in 1 .. i : u[j].root
      BY <1>4, <2>1, <2>2, <3>1 DEF FrameOK, v
    <3>3. f.op = "hook" => f.root /\ \A j \in 1 .. i - 1 : u[j].op = "again"
      BY <1>4, <2>1, <2>2, <3>1 DEF FrameOK, v
    <3>4. f.op = "load" => f.path \in Exists /\ f.path \notin done
      BY <2>1, <3>1 DEF FrameOK, v
    <3>5. f.op # "again"
      BY DEF v
    <3> QED BY <3>1, <3>2, <3>3, <3>4, <3>5 DEF FrameOK
  <2>4. CASE i \in 1 .. n - 1
    <3>1. u[i] = st[i]
      BY <1>2, <2>4
    <3> QED BY <1>4, <2>1, <2>2, <3>1 DEF FrameOK
  <2> QED BY <1>3, <2>3, <2>4
<1>6. \A i, j \in 1 .. n :
        u[i].op # "again" /\ u[j].op # "again" /\ u[i].path = u[j].path => i = j
  BY <1>2, <1>4 DEF StackOK
<1> QED BY <1>2, <1>5, <1>6 DEF StackOK, u

-----------------------------------------------------------------------------
(* What keeps the registry and Globals in order. *)

LEMMA InLoaded == Loaded = In(byName) /\ Loaded \subseteq AllNames
BY DEF Loaded, In, AllNames

\* load_module of a file that is not registered: no module had its name.
LEMMA LoadNew ==
  ASSUME Unambiguous, RegInv, Fresh \in Files, NEW p \in Exists, byPath[p] = None, LoadModule(p)
  PROVE  /\ RegInv' /\ p[2] \notin Loaded /\ Loaded' = Loaded \cup {p[2]}
         /\ byName' = [byName EXCEPT ![p[2]] = [id |-> Fresh, path |-> p]]
         /\ byName'[p[2]] = [id |-> Fresh, path |-> p]
         /\ byPath' = [byPath EXCEPT ![p] = p[2]] /\ byPath'[p] # None
         /\ \A q \in Paths : byPath[q] # None => byPath'[q] # None
<1> DEFINE n == p[2]
           e == [id |-> Fresh, path |-> p]
<1>1. p \in Paths /\ n \in Names /\ n \in AllNames /\ Canon(p) = p
  BY DiskPath, CanonIs
<1>2. RegistryInv /\ GlobalsInv
  BY DEF RegInv
<1>3. /\ byName \in [AllNames -> [id : Files, path : Paths] \cup {None}]
      /\ byPath \in [Paths -> AllNames \cup {None}]
      /\ globals \in [Symbols -> [id : Files, owner : AllNames] \cup {None}]
  BY <1>2 DEF RegistryInv, GlobalsInv
<1>4. n \notin Loaded
  <2> SUFFICES ASSUME n \in Loaded PROVE FALSE
    OBVIOUS
  <2>1. byName[n].path \in Exists /\ byName[n].path[2] = n /\ byPath[byName[n].path] = n
    BY <1>1, <1>2, EntryOf DEF RegistryInv
  <2>2. byName[n].path = p
    BY <2>1 DEF Unambiguous
  <2> QED BY <1>1, <2>1, <2>2, Constants
<1>5. /\ byName' = [byName EXCEPT ![n] = e] /\ byPath' = [byPath EXCEPT ![p] = n]
      /\ globals' = [s \in Symbols |-> IF s \in Defs[p] THEN [id |-> Fresh, owner |-> n] ELSE globals[s]]
  BY <1>1 DEF LoadModule, Insert, RegisterSymbols
<1>6. e \in [id : Files, path : Paths] /\ e # None /\ n # None
  BY <1>1, Constants
<1>7. /\ byName'[n] = e /\ \A m \in AllNames : m # n => byName'[m] = byName[m]
      /\ byPath'[p] = n /\ \A q \in Paths : q # p => byPath'[q] = byPath[q]
  BY <1>1, <1>3, <1>5
<1>8. Loaded' = Loaded \cup {n}
  BY <1>1, <1>6, <1>7 DEF Loaded, AllNames
<1>9. RegistryInv'
  <2>1. byName' \in [AllNames -> [id : Files, path : Paths] \cup {None}]
    BY <1>1, <1>3, <1>5, <1>6
  <2>2. byPath' \in [Paths -> AllNames \cup {None}]
    BY <1>1, <1>3, <1>5
  <2>3. ASSUME NEW m \in Loaded'
        PROVE  /\ byName'[m].path[2] = m /\ byPath'[byName'[m].path] = m
               /\ byName'[m].path \in Exists \cup ({Mem} \X BinNames)
    <3>1. CASE m = n
      BY <1>7, <3>1
    <3>2. CASE m # n
      <4>1. m \in Loaded /\ m \in AllNames /\ byName'[m] = byName[m]
        BY <1>7, <1>8, <3>2, InLoaded
      <4>2. byName[m].path \in Paths /\ byName[m].path # p
        BY <1>2, <3>2, <4>1, EntryOf DEF RegistryInv
      <4> QED BY <1>2, <1>7, <4>1, <4>2 DEF RegistryInv
    <3> QED BY <3>1, <3>2
  <2>4. ASSUME NEW q \in Paths, byPath'[q] # None
        PROVE  byPath'[q] \in Loaded' /\ byName'[byPath'[q]].path = q
    <3>1. CASE q = p
      BY <1>7, <1>8, <3>1
    <3>2. CASE q # p
      <4>1. byPath'[q] = byPath[q] /\ byPath[q] \in Loaded /\ byName[byPath[q]].path = q
        BY <1>2, <1>7, <2>4, <3>2 DEF RegistryInv
      <4>2. byPath[q] # n /\ byPath[q] \in AllNames
        BY <1>4, <4>1, InLoaded
      <4> QED BY <1>7, <1>8, <4>1, <4>2
    <3> QED BY <3>1, <3>2
  <2> QED BY <2>1, <2>2, <2>3, <2>4 DEF RegistryInv
<1>10. GlobalsInv'
  <2>1. globals' \in [Symbols -> [id : Files, owner : AllNames] \cup {None}]
    BY <1>1, <1>3, <1>5
  <2>2. ASSUME NEW s \in Symbols, globals'[s] # None
        PROVE  globals'[s].owner \in Loaded' /\ globals'[s].id = byName'[globals'[s].owner].id
    <3>1. CASE s \in Defs[p]
      BY <1>5, <1>7, <1>8, <3>1
    <3>2. CASE s \notin Defs[p]
      <4>1. globals'[s] = globals[s]
        BY <1>5, <3>2
      <4>2. globals[s].owner \in Loaded /\ globals[s].id = byName[globals[s].owner].id
        BY <1>2, <2>2, <4>1 DEF GlobalsInv
      <4>3. globals[s].owner # n /\ globals[s].owner \in AllNames
        BY <1>4, <4>2, InLoaded
      <4> QED BY <1>7, <1>8, <4>1, <4>2, <4>3
    <3> QED BY <3>1, <3>2
  <2> QED BY <2>1, <2>2 DEF GlobalsInv
<1>11. \A q \in Paths : byPath[q] # None => byPath'[q] # None
  BY <1>6, <1>7
<1> QED BY <1>4, <1>5, <1>6, <1>7, <1>8, <1>9, <1>10, <1>11 DEF RegInv

\* unload_module past its hook: the entry, its path and its symbols go.
LEMMA EraseOld ==
  ASSUME RegInv, NEW n \in Loaded, Erase(n), globals' = Without(globals, n)
  PROVE  /\ RegInv' /\ Loaded' = Loaded \ {n}
         /\ \A m \in Loaded' : byName'[m] = byName[m]
         /\ \A q \in Paths : q # byName[n].path => byPath'[q] = byPath[q]
<1> DEFINE p == byName[n].path
<1>1. p \in Paths /\ n \in AllNames
  BY EntryOf DEF RegInv
<1>2. RegistryInv /\ GlobalsInv
  BY DEF RegInv
<1>3. /\ byName \in [AllNames -> [id : Files, path : Paths] \cup {None}]
      /\ byPath \in [Paths -> AllNames \cup {None}]
      /\ globals \in [Symbols -> [id : Files, owner : AllNames] \cup {None}]
  BY <1>2 DEF RegistryInv, GlobalsInv
<1>4. byName' = [byName EXCEPT ![n] = None] /\ byPath' = [byPath EXCEPT ![p] = None]
  BY DEF Erase
<1> HIDE DEF p
<1>5. /\ byName'[n] = None /\ \A m \in AllNames : m # n => byName'[m] = byName[m]
      /\ byPath'[p] = None /\ \A q \in Paths : q # p => byPath'[q] = byPath[q]
  BY <1>1, <1>3, <1>4
<1>6. Loaded' = Loaded \ {n}
  BY <1>1, <1>5 DEF Loaded, AllNames
<1>7. RegistryInv'
  <2>1. /\ byName' \in [AllNames -> [id : Files, path : Paths] \cup {None}]
        /\ byPath' \in [Paths -> AllNames \cup {None}]
    BY <1>3, <1>4
  <2>2. ASSUME NEW m \in Loaded'
        PROVE  /\ byName'[m].path[2] = m /\ byPath'[byName'[m].path] = m
               /\ byName'[m].path \in Exists \cup ({Mem} \X BinNames)
    <3>1. m \in Loaded /\ m # n /\ byName'[m] = byName[m] /\ byName[m].path \in Paths
      BY <1>2, <1>5, <1>6, InLoaded, EntryOf
    <3>2. byName[m].path # p
      BY <1>2, <3>1 DEF RegistryInv, p
    <3> QED BY <1>2, <1>5, <3>1, <3>2 DEF RegistryInv
  <2>3. ASSUME NEW q \in Paths, byPath'[q] # None
        PROVE  byPath'[q] \in Loaded' /\ byName'[byPath'[q]].path = q
    <3>1. q # p /\ byPath'[q] = byPath[q]
      BY <1>5, <2>3
    <3>2. byPath[q] \in Loaded /\ byName[byPath[q]].path = q
      BY <1>2, <2>3, <3>1 DEF RegistryInv
    <3>3. byPath[q] # n /\ byPath[q] \in AllNames
      BY <3>1, <3>2, InLoaded DEF p
    <3> QED BY <1>5, <1>6, <3>1, <3>2, <3>3
  <2> QED BY <2>1, <2>2, <2>3 DEF RegistryInv
<1>8. GlobalsInv'
  <2>1. globals' = [s \in Symbols |-> IF globals[s] # None /\ globals[s].owner = n THEN None ELSE globals[s]]
    BY DEF Without
  <2>2. globals' \in [Symbols -> [id : Files, owner : AllNames] \cup {None}]
    BY <1>3, <2>1
  <2>3. ASSUME NEW s \in Symbols, globals'[s] # None
        PROVE  globals'[s].owner \in Loaded' /\ globals'[s].id = byName'[globals'[s].owner].id
    <3>1. globals'[s] = globals[s] /\ globals[s].owner # n
      BY <2>1, <2>3
    <3>2. globals[s].owner \in Loaded /\ globals[s].id = byName[globals[s].owner].id
      BY <1>2, <2>3, <3>1 DEF GlobalsInv
    <3>3. globals[s].owner \in AllNames
      BY <3>2, InLoaded
    <3> QED BY <1>5, <1>6, <3>1, <3>2, <3>3
  <2> QED BY <2>2, <2>3 DEF GlobalsInv
<1>9. \A m \in Loaded' : byName'[m] = byName[m]
  BY <1>5, <1>6, InLoaded
<1> QED BY <1>5, <1>6, <1>7, <1>8, <1>9 DEF RegInv, p

\* load_module_from_binary: the entry of that name is replaced.
LEMMA BinaryNew ==
  ASSUME RegInv, Fresh \in Files, NEW n \in BinNames, NEW syms \in BinDefs, LoadFromBinary(n, syms)
  PROVE  /\ RegInv' /\ Loaded' = Loaded \cup {n}
         /\ byName'[n].path = <<Mem, n>>
         /\ \A m \in Loaded : m # n => byName'[m] = byName[m]
         /\ \A q \in Paths : byPath[q] # None => byPath'[q] # None
<1> DEFINE p == <<Mem, n>>
           e == [id |-> Fresh, path |-> p]
           o == [id |-> Fresh, owner |-> n]
<1>1. p \in Paths /\ p \in {Mem} \X BinNames /\ n \in AllNames /\ p[2] = n
  BY MemPath
<1>2. RegistryInv /\ GlobalsInv
  BY DEF RegInv
<1>3. /\ byName \in [AllNames -> [id : Files, path : Paths] \cup {None}]
      /\ byPath \in [Paths -> AllNames \cup {None}]
      /\ globals \in [Symbols -> [id : Files, owner : AllNames] \cup {None}]
  BY <1>2 DEF RegistryInv, GlobalsInv
<1>4. byName' = [byName EXCEPT ![n] = e] /\ byPath' = [byPath EXCEPT ![p] = n]
  BY DEF LoadFromBinary, Insert
<1>5. /\ e \in [id : Files, path : Paths] /\ e # None /\ n # None /\ e.path = p /\ e.id = Fresh
      /\ o \in [id : Files, owner : AllNames] /\ o.owner = n /\ o.id = Fresh
  BY <1>1, Constants
<1>6. globals' = [s \in Symbols |->
                    IF s \in syms THEN (IF n \in Loaded THEN None ELSE o)
                    ELSE IF n \in Loaded /\ globals[s] # None /\ globals[s].owner = n THEN None
                    ELSE globals[s]]
  <2>1. n \in Loaded <=> byName[n] # None
    BY <1>1 DEF Loaded, AllNames
  <2>2. o # None
    BY <1>5, Constants
  <2>3. CASE n \in Loaded
    <3>1. globals' = Without(RegisterSymbols(n, syms, Fresh), n)
      BY <2>1, <2>3 DEF LoadFromBinary
    <3> QED BY <1>5, <2>2, <2>3, <3>1 DEF Without, RegisterSymbols
  <2>4. CASE n \notin Loaded
    <3>1. globals' = RegisterSymbols(n, syms, Fresh)
      BY <2>1, <2>4 DEF LoadFromBinary
    <3> QED BY <2>4, <3>1 DEF RegisterSymbols
  <2> QED BY <2>3, <2>4
<1> HIDE DEF p, e, o
<1>7. /\ byName'[n] = e /\ \A m \in AllNames : m # n => byName'[m] = byName[m]
      /\ byPath'[p] = n /\ \A q \in Paths : q # p => byPath'[q] = byPath[q]
  BY <1>1, <1>3, <1>4
<1>8. Loaded' = Loaded \cup {n}
  BY <1>1, <1>5, <1>7 DEF Loaded, AllNames
<1>9. RegistryInv'
  <2>1. byName' \in [AllNames -> [id : Files, path : Paths] \cup {None}]
    BY <1>3, <1>4, <1>5
  <2>2. byPath' \in [Paths -> AllNames \cup {None}]
    BY <1>1, <1>3, <1>4
  <2>3. ASSUME NEW m \in Loaded'
        PROVE  /\ byName'[m].path[2] = m /\ byPath'[byName'[m].path] = m
               /\ byName'[m].path \in Exists \cup ({Mem} \X BinNames)
    <3>1. CASE m = n
      BY <1>1, <1>5, <1>7, <3>1
    <3>2. CASE m # n
      <4>1. m \in Loaded /\ m \in AllNames /\ byName'[m] = byName[m]
        BY <1>7, <1>8, <3>2, InLoaded
      <4>2. byName[m].path \in Paths /\ byName[m].path # p
        BY <1>1, <1>2, <3>2, <4>1, EntryOf DEF RegistryInv
      <4> QED BY <1>2, <1>7, <4>1, <4>2 DEF RegistryInv
    <3> QED BY <3>1, <3>2
  <2>4. ASSUME NEW q \in Paths, byPath'[q] # None
        PROVE  byPath'[q] \in Loaded' /\ byName'[byPath'[q]].path = q
    <3>1. CASE q = p
      BY <1>5, <1>7, <1>8, <3>1
    <3>2. CASE q # p
      <4>1. byPath'[q] = byPath[q] /\ byPath[q] \in Loaded /\ byName[byPath[q]].path = q
        BY <1>2, <1>7, <2>4, <3>2 DEF RegistryInv
      <4>2. byPath[q] # n /\ byPath[q] \in AllNames
        BY <1>2, <3>2, <4>1, EntryOf, InLoaded DEF p
      <4> QED BY <1>7, <1>8, <4>1, <4>2
    <3> QED BY <3>1, <3>2
  <2> QED BY <2>1, <2>2, <2>3, <2>4 DEF RegistryInv
<1>10. GlobalsInv'
  <2>1. globals' \in [Symbols -> [id : Files, owner : AllNames] \cup {None}]
    BY <1>3, <1>5, <1>6
  <2>2. ASSUME NEW s \in Symbols, globals'[s] # None
        PROVE  globals'[s].owner \in Loaded' /\ globals'[s].id = byName'[globals'[s].owner].id
    <3>1. CASE s \in syms
      <4>1. globals'[s] = o
        BY <1>6, <2>2, <3>1
      <4> QED BY <1>5, <1>7, <1>8, <4>1
    <3>2. CASE s \notin syms
      <4>1. globals'[s] = globals[s]
        BY <1>6, <2>2, <3>2
      <4>2. globals[s].owner \in Loaded /\ globals[s].id = byName[globals[s].owner].id
        BY <1>2, <2>2, <4>1 DEF GlobalsInv
      <4>3. globals[s].owner # n
        BY <1>6, <2>2, <3>2, <4>1, <4>2
      <4>4. globals[s].owner \in AllNames
        BY <4>2, InLoaded
      <4> QED BY <1>7, <1>8, <4>1, <4>2, <4>3, <4>4
    <3> QED BY <3>1, <3>2
  <2> QED BY <2>1, <2>2 DEF GlobalsInv
<1>11. \A q \in Paths : byPath[q] # None => byPath'[q] # None
  BY <1>5, <1>7
<1>12. \A m \in Loaded : m # n => byName'[m] = byName[m]
  BY <1>7, InLoaded
<1> QED BY <1>5, <1>7, <1>8, <1>9, <1>10, <1>11, <1>12 DEF RegInv, p

-----------------------------------------------------------------------------
(* Steps that begin a load. *)

\* A call under way is of a file that is registered.
LEMMA FramesRegistered ==
  ASSUME RegistryInv, NEW fs, StackOK(fs, byName, inited, requires),
         NEW i \in DOMAIN fs, fs[i].op # "again"
  PROVE  /\ fs[i].path[2] \in Loaded /\ byName[fs[i].path[2]] = [id |-> fs[i].id, path |-> fs[i].path]
         /\ fs[i].path \in Paths /\ byPath[fs[i].path] = fs[i].path[2] /\ byPath[fs[i].path] # None
<1>1. FrameOK(fs, i, byName, inited, requires)
  BY DEF StackOK
<1>2. /\ fs[i].path[2] \in Loaded
      /\ byName[fs[i].path[2]] = [id |-> fs[i].id, path |-> fs[i].path]
  BY <1>1, InLoaded DEF FrameOK
<1>3. byName[fs[i].path[2]].path = fs[i].path
  BY <1>2
<1>4. byPath[fs[i].path] = fs[i].path[2] /\ fs[i].path \in Paths
  BY <1>2, <1>3, EntryOf DEF RegistryInv
<1>5. fs[i].path[2] # None
  BY <1>2, InLoaded, Constants
<1> QED BY <1>2, <1>4, <1>5

LEMMA LoadFrameIs ==
  ASSUME NEW p \in Exists, NEW r \in BOOLEAN, Fresh \in Files,
         byName'[p[2]] = [id |-> Fresh, path |-> p], requires \in [Names -> SUBSET Names]
  PROVE  /\ LoadFrame(p, r) \in FrameType
         /\ LoadFrame(p, r).op = "load" /\ LoadFrame(p, r).path = p /\ LoadFrame(p, r).id = Fresh
         /\ LoadFrame(p, r).todo = requires[p[2]] /\ LoadFrame(p, r).root = r
<1>1. p \in Paths /\ p[2] \in Names
  BY DiskPath
<1>2. [id |-> Fresh, path |-> p] # None
  BY <1>1, Constants
<1>3. LoadFrame(p, r) = [op |-> "load", path |-> p, id |-> Fresh, todo |-> requires[p[2]],
                         root |-> r, called |-> FALSE]
  BY <1>2 DEF LoadFrame, Frame
<1>4. requires[p[2]] \in SUBSET Names
  BY <1>1
<1> QED BY <1>1, <1>3, <1>4 DEF FrameType

\* A file is registered and its frame pushed on fs.
LEMMA Enter ==
  ASSUME IInv, NEW p \in Exists, byPath[p] = None, LoadModule(p),
         NEW fs, StackOK(fs, byName', inited, requires), Waiting(fs) = Waiting(stack),
         \A i \in DOMAIN fs : fs[i].op # "again" => fs[i].path # p,
         NEW f \in FrameType, f.op = "load", f.path = p, f.id = Fresh, f.todo = requires[p[2]],
         f.root \/ \E j \in DOMAIN fs : fs[j].root,
         stack' = Append(fs, f), UNCHANGED <<requires, inited, uninit>>
  PROVE  RegInv' /\ StackInv' /\ HistoryInv'
<1>1. Fresh \in Files /\ Unambiguous /\ RegInv
  BY FreshFile DEF IInv
<1>2. /\ RegInv' /\ p[2] \notin Loaded /\ Loaded' = Loaded \cup {p[2]}
      /\ byName' = [byName EXCEPT ![p[2]] = [id |-> Fresh, path |-> p]]
      /\ byName'[p[2]] = [id |-> Fresh, path |-> p]
      /\ \A q \in Paths : byPath[q] # None => byPath'[q] # None
  BY <1>1, LoadNew
<1>3. Loaded' = In(byName')
  BY DEF Loaded, In, AllNames
<1>4. p \notin inited /\ inited \subseteq Paths
  BY DEF IInv, HistoryInv
<1>5. StackOK(Append(fs, f), byName', inited, requires)
  BY <1>2, <1>3, <1>4, StackPush
<1>6. StackInv'
  BY <1>5 DEF StackInv
<1>7. Waiting(stack) \subseteq Waiting(stack') /\ p \in Waiting(stack')
  <2>1. fs \in Seq(FrameType)
    BY DEF StackOK
  <2> QED BY <2>1, PushRoots
<1>8. HistoryInv'
  <2>1. ASSUME NEW n \in Loaded' PROVE byName'[n].path \in inited \cup uninit \cup Waiting(stack')
    <3>1. CASE n = p[2]
      BY <1>2, <1>7, <3>1
    <3>2. CASE n # p[2]
      <4>1. n \in Loaded /\ n \in AllNames
        BY <1>2, <3>2, InLoaded
      <4>2. byName'[n] = byName[n]
        BY <1>1, <1>2, <3>2, <4>1 DEF RegInv, RegistryInv
      <4> QED BY <1>7, <4>1, <4>2 DEF IInv, HistoryInv
    <3> QED BY <3>1, <3>2
  <2> QED BY <1>2, <2>1 DEF IInv, HistoryInv
<1> QED BY <1>2, <1>6, <1>8

\* load_module_with_imports.
LEMMA BeginStep ==
  ASSUME IInv, NEW p \in Spellings \X Names, NEW fs, StackOK(fs, byName, inited, requires),
         Roots(fs) = Roots(stack), Waiting(fs) = Waiting(stack), Begin(p, fs)
  PROVE  IInv'
<1>0. Unambiguous /\ RegInv /\ RegistryInv /\ VisitedInv /\ HistoryInv
  BY DEF IInv, RegInv
<1>1. p \in Paths /\ Canon(p) = p /\ p \in Exists
  BY <1>0, CanonIs DEF Begin, Paths
<1>2. CASE byPath[p] # None
  <2>1. stack' = fs /\ UNCHANGED <<byName, byPath, globals, visited, requires, inited, uninit>>
    BY <1>1, <1>2 DEF Begin, registry
  <2>2. Loaded' = Loaded
    BY <2>1 DEF Loaded
  <2>3. RegInv'
    BY <1>0, <2>1, <2>2 DEF RegInv, RegistryInv, GlobalsInv
  <2>4. StackInv'
    BY <2>1 DEF StackInv
  <2>5. VisitedInv'
    BY <1>0, <2>1 DEF VisitedInv
  <2>6. HistoryInv'
    BY <1>0, <2>1, <2>2 DEF HistoryInv
  <2> QED BY <1>0, <2>3, <2>4, <2>5, <2>6 DEF IInv
<1>3. CASE byPath[p] = None
  <2> DEFINE f == LoadFrame(p, TRUE)
  <2>1. /\ LoadModule(p) /\ stack' = Append(fs, f) /\ visited' = Append(visited, {p})
        /\ UNCHANGED <<requires, inited, uninit>>
    BY <1>1, <1>3 DEF Begin
  <2>2. Fresh \in Files
    BY FreshFile
  <2>3. /\ p[2] \notin Loaded /\ Loaded' = Loaded \cup {p[2]}
        /\ byName' = [byName EXCEPT ![p[2]] = [id |-> Fresh, path |-> p]]
        /\ byName'[p[2]] = [id |-> Fresh, path |-> p] /\ byPath'[p] # None
        /\ \A q \in Paths : byPath[q] # None => byPath'[q] # None
    BY <1>0, <1>1, <1>3, <2>1, <2>2, LoadNew
  <2>4. /\ f \in FrameType /\ f.op = "load" /\ f.path = p /\ f.id = Fresh
        /\ f.todo = requires[p[2]] /\ f.root = TRUE
    BY <1>0, <1>1, <2>2, <2>3, LoadFrameIs DEF HistoryInv
  <2> HIDE DEF f
  <2>5. In(byName) \subseteq In(byName') /\ \A n \in In(byName) : byName'[n] = byName[n]
    <3>1. Loaded = In(byName) /\ Loaded' = In(byName') /\ Loaded \subseteq AllNames
      BY DEF Loaded, In, AllNames
    <3> QED BY <1>0, <2>3, <3>1 DEF RegistryInv
  <2>6. \A i \in DOMAIN fs : fs[i].op = "load" => fs[i].path \notin inited
    BY DEF StackOK, FrameOK
  <2>7. StackOK(fs, byName', inited, requires)
    BY <2>5, <2>6, StackGrow
  <2>8. ASSUME NEW i \in DOMAIN fs, fs[i].op # "again" PROVE fs[i].path # p
    <3>1. byPath[fs[i].path] # None
      BY <1>0, <2>8, FramesRegistered
    <3> QED BY <1>3, <3>1
  <2>9. RegInv' /\ StackInv' /\ HistoryInv'
    BY <1>1, <1>3, <2>1, <2>4, <2>7, <2>8, Enter
  <2>10. VisitedInv'
    <3>1. visited \in Seq(SUBSET Paths) /\ {p} \in SUBSET Paths
      BY <1>0, <1>1 DEF VisitedInv
    <3>2. /\ visited' \in Seq(SUBSET Paths) /\ Len(visited') = Len(visited) + 1
          /\ DOMAIN visited' = 1 .. Len(visited) + 1 /\ Len(visited) \in Nat
          /\ DOMAIN visited = 1 .. Len(visited)
          /\ (\A i \in 1 .. Len(visited) : visited'[i] = visited[i])
          /\ visited'[Len(visited) + 1] = {p}
      BY <2>1, <3>1
    <3>3. Len(visited') = Cardinality(Roots(stack'))
      <4>1. fs \in Seq(FrameType)
        BY DEF StackOK
      <4>2. Cardinality(Roots(Append(fs, f))) = Cardinality(Roots(fs)) + (IF f.root THEN 1 ELSE 0)
        BY <2>4, <4>1, PushRoots
      <4> QED BY <1>0, <2>1, <2>4, <3>2, <4>2 DEF VisitedInv
    <3>4. ASSUME NEW i \in DOMAIN visited', NEW c \in visited'[i] PROVE byPath'[c] # None
      <4>1. CASE i = Len(visited) + 1
        BY <2>3, <3>2, <3>4, <4>1
      <4>2. CASE i \in 1 .. Len(visited)
        <5>1. c \in visited[i] /\ c \in Paths /\ byPath[c] # None
          BY <1>0, <3>1, <3>2, <3>4, <4>2 DEF VisitedInv
        <5> QED BY <2>3, <5>1
      <4> QED BY <3>2, <4>1, <4>2
    <3> QED BY <3>2, <3>3, <3>4 DEF VisitedInv
  <2> QED BY <1>0, <2>9, <2>10 DEF IInv
<1> QED BY <1>2, <1>3

LEMMA HostLoadStep ==
  ASSUME IInv, NEW p \in Spellings \X Names, HostLoad(p)
  PROVE  IInv'
BY BeginStep DEF HostLoad, IInv, StackInv

LEMMA NativeLoadStep ==
  ASSUME IInv, NEW p \in Spellings \X Names, NativeLoad(p)
  PROVE  IInv'
<1> DEFINE f == [Top EXCEPT !.called = TRUE]
           fs == Append(Front(stack), f)
<1>1. /\ stack # <<>> /\ Top.op \in {"top", "hook"} /\ Begin(p, fs)
  BY DEF NativeLoad, Caller
<1>2. stack \in Seq(FrameType) /\ StackOK(stack, byName, inited, requires)
  BY DEF IInv, StackInv, StackOK
<1>3. Top \in FrameType /\ Top = Last(stack) /\ Top = stack[Len(stack)] /\ Len(stack) \in DOMAIN stack
  BY <1>1, <1>2, Pop DEF Top
<1>4. /\ f \in FrameType /\ f.op = Top.op /\ f.path = Top.path /\ f.id = Top.id
      /\ f.todo = Top.todo /\ f.root = Top.root
  BY <1>3 DEF FrameType
<1>5. FrameOK(stack, Len(stack), byName, inited, requires)
  BY <1>2, <1>3 DEF StackOK
<1>6. /\ Top.op = "top" => Top.todo = {}
      /\ Top.op \in {"load", "top"} /\ Top.path[1] # Mem
           => requires[Top.path[2]] \ Top.todo \subseteq In(byName)
  BY <1>3, <1>5 DEF FrameOK
<1> HIDE DEF f
<1>7. StackOK(fs, byName, inited, requires)
  BY <1>1, <1>2, <1>3, <1>4, <1>6, StackChange
<1>8. Roots(fs) = Roots(stack) /\ Waiting(fs) = Waiting(stack)
  BY <1>1, <1>2, <1>3, <1>4, Change
<1> HIDE DEF fs
<1> QED BY <1>1, <1>7, <1>8, BeginStep

\* The frame that acts, once more.
LEMMA TopFrame ==
  ASSUME IInv, stack # <<>>
  PROVE  /\ stack \in Seq(FrameType) /\ StackOK(stack, byName, inited, requires)
         /\ Top \in FrameType /\ Top = Last(stack) /\ Top = stack[Len(stack)]
         /\ Len(stack) \in DOMAIN stack /\ Len(stack) \in Nat \ {0} /\ DOMAIN stack = 1 .. Len(stack)
         /\ FrameOK(stack, Len(stack), byName, inited, requires)
<1>1. stack \in Seq(FrameType) /\ StackOK(stack, byName, inited, requires)
  BY DEF IInv, StackInv, StackOK
<1>2. /\ Top \in FrameType /\ Top = Last(stack) /\ Top = stack[Len(stack)]
      /\ Len(stack) \in DOMAIN stack /\ Len(stack) \in Nat \ {0} /\ DOMAIN stack = 1 .. Len(stack)
  BY <1>1, Pop DEF Top
<1> QED BY <1>1, <1>2 DEF StackOK

\* A load in progress has its already_loaded.
LEMMA VisitedTop ==
  ASSUME IInv, NEW i \in DOMAIN stack, stack[i].op # "again"
  PROVE  /\ Roots(stack) # {} /\ Len(visited) \in Nat \ {0} /\ DOMAIN visited = 1 .. Len(visited)
         /\ visited # <<>> /\ visited \in Seq(SUBSET Paths)
<1>1. stack \in Seq(FrameType) /\ FrameOK(stack, i, byName, inited, requires)
  BY DEF IInv, StackInv, StackOK
<1>2. PICK j \in 1 .. i : stack[j].root
  BY <1>1 DEF FrameOK
<1>3. j \in DOMAIN stack
  BY <1>1
<1>4. Roots(stack) # {}
  BY <1>2, <1>3 DEF Roots
<1>5. IsFiniteSet(Roots(stack)) /\ Cardinality(Roots(stack)) \in Nat
  BY <1>1, RootsFinite
<1>6. Cardinality(Roots(stack)) # 0
  BY <1>4, <1>5, FS_EmptySet
<1>7. visited \in Seq(SUBSET Paths) /\ Len(visited) = Cardinality(Roots(stack))
  BY DEF IInv, VisitedInv
<1> QED BY <1>4, <1>5, <1>6, <1>7

\* The dependency found first: it is a file on disk.
LEMMA Candidate ==
  ASSUME IInv, NEW d \in Names, stack # <<>>, Top.op = "load", Candidates(d) # {}
  PROVE  LET p == <<SearchDirs[Min(Candidates(d))], d>> IN p \in Exists /\ Canon(p) = p /\ p[2] = d
<1> DEFINE c == Candidates(d)
           k == Min(c)
           s == SearchDirs[k]
<1>1. Top.path \in Exists
  BY TopFrame DEF FrameOK
<1>2. Top.path[1] \in Spellings /\ Search \in Seq(Spellings)
  BY <1>1, DiskPath, LoaderAssumption
<1>3. SearchDirs \in Seq(Spellings) /\ DOMAIN SearchDirs \subseteq Nat
  BY <1>2 DEF SearchDirs
<1>4. c \subseteq DOMAIN SearchDirs /\ c \subseteq Nat
  BY <1>3 DEF Candidates
<1> HIDE DEF c
<1>5. k \in c
  BY <1>4, MinIn DEF c
<1> HIDE DEF k
<1>6. k \in DOMAIN SearchDirs /\ <<CanonOf[SearchDirs[k]], d>> \in Exists
  BY <1>5 DEF Candidates, c
<1>7. s \in Spellings /\ CanonOf[s] = s
  BY <1>3, <1>6 DEF IInv, Unambiguous
<1>8. <<s, d>> \in Exists /\ Canon(<<s, d>>) = <<s, d>>
  <2>1. <<s, d>> \in Exists
    BY <1>6, <1>7
  <2> HIDE DEF s
  <2>2. <<s, d>> \in Paths
    BY <2>1, DiskPath
  <2> QED BY <2>1, <2>2, CanonIs DEF IInv
<1> QED BY <1>8 DEF k, c

\* One dependency.
LEMMA RequireStep ==
  ASSUME IInv, NEW d \in Names, Require(d)
  PROVE  IInv'
<1>0. Unambiguous /\ RegInv /\ RegistryInv /\ VisitedInv /\ HistoryInv
  BY DEF IInv, RegInv
<1> DEFINE p == <<SearchDirs[Min(Candidates(d))], d>>
           g == [Top EXCEPT !.todo = @ \ {d}]
           fs == Append(Front(stack), g)
<1>1. stack # <<>> /\ Top.op = "load" /\ d \in Top.todo /\ Candidates(d) # {}
  BY DEF Require
<1>2. p \in Exists /\ Canon(p) = p /\ p[2] = d
  BY <1>1, Candidate
<1>3. /\ visited' = [visited EXCEPT ![Len(visited)] = @ \cup {p}]
      /\ IF Skipped(p)
         THEN stack' = fs /\ UNCHANGED <<registry>>
         ELSE LoadModule(p) /\ stack' = Append(fs, LoadFrame(p, FALSE))
      /\ UNCHANGED <<requires, inited, uninit>>
  BY <1>2 DEF Require, Caller
<1> HIDE DEF p
<1>4. /\ stack \in Seq(FrameType) /\ StackOK(stack, byName, inited, requires)
      /\ Top \in FrameType /\ Top = Last(stack) /\ Top = stack[Len(stack)]
      /\ Len(stack) \in DOMAIN stack
      /\ FrameOK(stack, Len(stack), byName, inited, requires)
  BY <1>1, TopFrame
<1>5. /\ g \in FrameType /\ g.op = "load" /\ g.path = Top.path /\ g.id = Top.id
      /\ g.todo = Top.todo \ {d} /\ g.root = Top.root
  BY <1>1, <1>4 DEF FrameType
<1>6. requires[Top.path[2]] \ Top.todo \subseteq In(byName)
  <2>1. Top.path[1] # Mem
    BY <1>1, <1>4, DiskPath DEF FrameOK
  <2> QED BY <1>1, <1>4, <2>1 DEF FrameOK
<1> HIDE DEF g
<1>7. /\ Roots(fs) = Roots(stack) /\ Waiting(fs) = Waiting(stack) /\ fs \in Seq(FrameType)
      /\ DOMAIN fs = 1 .. Len(stack) /\ DOMAIN stack = 1 .. Len(stack)
      /\ (\A j \in 1 .. Len(stack) - 1 : fs[j] = stack[j]) /\ fs[Len(stack)] = g
      /\ Len(stack) \in Nat \ {0}
  BY <1>1, <1>4, <1>5, Change
<1>8. ASSUME NEW nm, StackOK(stack, nm, inited, requires), In(byName) \subseteq In(nm), d \in In(nm)
      PROVE  StackOK(fs, nm, inited, requires)
  <2>1. requires[g.path[2]] \ g.todo \subseteq In(nm)
    BY <1>5, <1>6, <1>8
  <2> QED BY <1>1, <1>4, <1>5, <1>8, <2>1, StackChange
<1> HIDE DEF fs
<1>9. p \in Paths
  BY <1>2, DiskPath
<1>10. /\ visited \in Seq(SUBSET Paths) /\ Len(visited) \in Nat \ {0}
       /\ DOMAIN visited = 1 .. Len(visited) /\ visited # <<>>
  BY <1>1, <1>4, VisitedTop
<1>11. /\ visited' \in Seq(SUBSET Paths) /\ Len(visited') = Len(visited)
       /\ DOMAIN visited' = 1 .. Len(visited)
       /\ \A i \in 1 .. Len(visited) : visited'[i] \subseteq visited[i] \cup {p}
  <2> DEFINE k == Len(visited)
             w == visited[k] \cup {p}
  <2>1. w \in SUBSET Paths /\ k \in DOMAIN visited
    BY <1>9, <1>10
  <2>2. visited' = [visited EXCEPT ![k] = w]
    BY <1>3
  <2> HIDE DEF w
  <2>3. visited' \in Seq(SUBSET Paths) /\ Len(visited') = Len(visited)
    BY <1>10, <2>1, <2>2
  <2>4. DOMAIN visited' = DOMAIN visited
    BY <1>10, <2>2
  <2>5. \A i \in DOMAIN visited : visited'[i] = IF i = k THEN w ELSE visited[i]
    BY <1>10, <2>2
  <2> QED BY <1>10, <2>3, <2>4, <2>5 DEF w
<1>12. ASSUME byPath'[p] # None, \A q \in Paths : byPath[q] # None => byPath'[q] # None,
              Roots(stack') = Roots(stack)
       PROVE  VisitedInv'
  <2>1. ASSUME NEW i \in DOMAIN visited', NEW c \in visited'[i] PROVE byPath'[c] # None
    <3>1. CASE c = p
      BY <1>12, <3>1
    <3>2. CASE c # p
      <4>1. i \in DOMAIN visited /\ c \in visited[i]
        BY <1>10, <1>11, <2>1, <3>2
      <4>2. c \in Paths /\ byPath[c] # None
        BY <1>0, <1>10, <4>1 DEF VisitedInv
      <4> QED BY <1>12, <4>2
    <3> QED BY <3>1, <3>2
  <2> QED BY <1>0, <1>11, <1>12, <2>1 DEF VisitedInv
<1>13. CASE Skipped(p)
  <2>1. stack' = fs /\ UNCHANGED <<byName, byPath, globals, requires, inited, uninit>>
    BY <1>3, <1>13 DEF registry
  <2>2. Loaded' = Loaded
    BY <2>1 DEF Loaded
  <2>3. byPath[p] # None
    <3>1. ASSUME p \in Last(visited) PROVE byPath[p] # None
      <4>1. p \in visited[Len(visited)] /\ Len(visited) \in DOMAIN visited
        BY <1>10, <3>1 DEF Last
      <4> QED BY <1>0, <4>1 DEF VisitedInv
    <3> QED BY <1>13, <3>1 DEF Skipped
  <2>4. d \in In(byName)
    <3>1. byPath[p] \in Loaded /\ byName[byPath[p]].path = p
      BY <1>0, <1>9, <2>3 DEF RegistryInv
    <3>2. byPath[p] = d
      BY <1>0, <1>2, <3>1 DEF RegistryInv
    <3> QED BY <3>1, <3>2, InLoaded
  <2>5. StackInv'
    BY <1>4, <1>8, <2>1, <2>4 DEF StackInv
  <2>6. RegInv'
    BY <1>0, <2>1, <2>2 DEF RegInv, RegistryInv, GlobalsInv
  <2>7. VisitedInv'
    BY <1>7, <1>12, <2>1, <2>3
  <2>8. HistoryInv'
    BY <1>0, <1>7, <2>1, <2>2 DEF HistoryInv
  <2> QED BY <1>0, <2>5, <2>6, <2>7, <2>8 DEF IInv
<1>14. CASE ~Skipped(p)
  <2> DEFINE f == LoadFrame(p, FALSE)
  <2>1. LoadModule(p) /\ stack' = Append(fs, f) /\ byPath[p] = None
    BY <1>3, <1>14 DEF Skipped
  <2>2. Fresh \in Files
    BY FreshFile
  <2>3. /\ p[2] \notin Loaded /\ Loaded' = Loaded \cup {p[2]}
        /\ byName' = [byName EXCEPT ![p[2]] = [id |-> Fresh, path |-> p]]
        /\ byName'[p[2]] = [id |-> Fresh, path |-> p] /\ byPath'[p] # None
        /\ \A q \in Paths : byPath[q] # None => byPath'[q] # None
    BY <1>0, <1>2, <2>1, <2>2, LoadNew
  <2>4. /\ f \in FrameType /\ f.op = "load" /\ f.path = p /\ f.id = Fresh
        /\ f.todo = requires[p[2]] /\ f.root = FALSE
    BY <1>0, <1>2, <2>2, <2>3, LoadFrameIs DEF HistoryInv
  <2> HIDE DEF f
  <2>5. /\ In(byName) \subseteq In(byName') /\ \A n \in In(byName) : byName'[n] = byName[n]
        /\ d \in In(byName')
    <3>1. Loaded = In(byName) /\ Loaded' = In(byName') /\ Loaded \subseteq AllNames
      BY DEF Loaded, In, AllNames
    <3> QED BY <1>0, <1>2, <2>3, <3>1 DEF RegistryInv
  <2>6. StackOK(stack, byName', inited, requires)
    <3>1. \A i \in DOMAIN stack : stack[i].op = "load" => stack[i].path \notin inited
      BY <1>4 DEF StackOK, FrameOK
    <3> QED BY <1>4, <2>5, <3>1, StackGrow
  <2>7. StackOK(fs, byName', inited, requires)
    BY <1>8, <2>5, <2>6
  <2>8. ASSUME NEW i \in DOMAIN fs, fs[i].op # "again" PROVE fs[i].path # p
    <3> SUFFICES ASSUME fs[i].path = p PROVE FALSE
      OBVIOUS
    <3>1. i \in DOMAIN stack /\ stack[i].path = p /\ stack[i].op # "again"
      <4>2. CASE i = Len(stack)
        BY <1>1, <1>4, <1>5, <1>7, <2>8, <4>2
      <4>3. CASE i # Len(stack)
        BY <1>7, <2>8, <4>3
      <4> QED BY <4>2, <4>3
    <3>2. byPath[stack[i].path] # None
      BY <1>0, <1>4, <3>1, FramesRegistered
    <3> QED BY <2>1, <3>1, <3>2
  <2>9. \E j \in DOMAIN fs : fs[j].root
    <3>1. Roots(stack) # {}
      BY <1>1, <1>4, VisitedTop
    <3> QED BY <1>7, <3>1 DEF Roots
  <2>10. RegInv' /\ StackInv' /\ HistoryInv'
    BY <1>2, <1>3, <1>7, <2>1, <2>4, <2>7, <2>8, <2>9, Enter
  <2>11. Roots(stack') = Roots(stack)
    <3>1. /\ DOMAIN stack' = 1 .. Len(fs) + 1 /\ DOMAIN fs = 1 .. Len(fs) /\ Len(fs) \in Nat
          /\ (\A i \in 1 .. Len(fs) : stack'[i] = fs[i]) /\ stack'[Len(fs) + 1] = f
      BY <1>7, <2>1, <2>4, Push
    <3>2. \A i \in 1 .. Len(fs) + 1 : i \in 1 .. Len(fs) \/ i = Len(fs) + 1
      BY <3>1
    <3>3. Roots(stack') = Roots(fs)
      BY <2>4, <3>1, <3>2 DEF Roots
    <3> QED BY <1>7, <3>3
  <2>12. VisitedInv'
    BY <1>12, <2>3, <2>11
  <2> QED BY <1>0, <2>10, <2>12 DEF IInv
<1> QED BY <1>13, <1>14

-----------------------------------------------------------------------------
(* Steps that leave the registry alone. *)

LEMMA RegistrySame ==
  ASSUME RegInv, UNCHANGED registry
  PROVE  RegInv' /\ Loaded' = Loaded
<1>1. UNCHANGED <<byName, byPath, globals>>
  BY DEF registry
<1>2. Loaded' = Loaded
  BY <1>1 DEF Loaded
<1> QED BY <1>1, <1>2 DEF RegInv, RegistryInv, GlobalsInv

\* The top-level starts: the entry of that name is still the one of this call.
LEMMA StartTopStep ==
  ASSUME IInv, StartTop
  PROVE  IInv'
<1>0. Unambiguous /\ RegInv /\ VisitedInv /\ HistoryInv
  BY DEF IInv
<1> DEFINE f == [Top EXCEPT !.op = "top", !.id = byName[Top.path[2]].id]
           fs == Append(Front(stack), f)
<1>1. /\ stack # <<>> /\ Top.op = "load" /\ Top.todo = {} /\ stack' = fs
      /\ UNCHANGED registry /\ UNCHANGED <<byName, visited, requires, inited, uninit>>
      /\ UNCHANGED byPath
  BY DEF StartTop, Caller, registry, history
<1>2. /\ stack \in Seq(FrameType) /\ StackOK(stack, byName, inited, requires)
      /\ Top \in FrameType /\ Top = Last(stack) /\ Top = stack[Len(stack)]
      /\ FrameOK(stack, Len(stack), byName, inited, requires)
  BY <1>1, TopFrame
<1>3. byName[Top.path[2]] = [id |-> Top.id, path |-> Top.path]
  BY <1>1, <1>2 DEF FrameOK
<1>4. /\ f \in FrameType /\ f.op = "top" /\ f.path = Top.path /\ f.id = Top.id
      /\ f.todo = {} /\ f.root = Top.root
  <2> DEFINE k == byName[Top.path[2]].id
  <2>1. k = Top.id
    BY <1>3
  <2>2. f = [Top EXCEPT !.op = "top", !.id = k]
    OBVIOUS
  <2> HIDE DEF k, f
  <2> QED BY <1>1, <1>2, <2>1, <2>2 DEF FrameType
<1>5. Top.path[1] # Mem => requires[Top.path[2]] \ {} \subseteq In(byName)
  BY <1>1, <1>2 DEF FrameOK
<1> HIDE DEF f
<1>6. StackOK(fs, byName, inited, requires)
  BY <1>1, <1>2, <1>4, <1>5, StackChange
<1>7. Roots(fs) = Roots(stack) /\ Waiting(fs) = Waiting(stack)
  <2>1. /\ f.op \in {"load", "top"} <=> Last(stack).op \in {"load", "top"}
        /\ f \in FrameType /\ f.root = Last(stack).root /\ f.path = Last(stack).path
        /\ stack # <<>> /\ stack \in Seq(FrameType)
    BY <1>1, <1>2, <1>4
  <2> QED BY <2>1, Change
<1> HIDE DEF fs
<1>8. RegInv' /\ Loaded' = Loaded
  BY <1>0, <1>1, RegistrySame
<1>9. StackInv'
  BY <1>1, <1>6 DEF StackInv
<1>10. VisitedInv'
  BY <1>0, <1>1, <1>7 DEF VisitedInv
<1>11. HistoryInv'
  BY <1>0, <1>1, <1>7, <1>8 DEF HistoryInv
<1> QED BY <1>0, <1>8, <1>9, <1>10, <1>11 DEF IInv

\* The innermost already_loaded goes with its load.
LEMMA VisitedPop ==
  ASSUME VisitedInv, visited # <<>>
  PROVE  /\ Front(visited) \in Seq(SUBSET Paths) /\ Len(Front(visited)) = Len(visited) - 1
         /\ \A i \in DOMAIN Front(visited) : i \in DOMAIN visited /\ Front(visited)[i] = visited[i]
<1> DEFINE n == Len(visited) - 1
           u == SubSeq(visited, 1, n)
<1>1. visited \in Seq(SUBSET Paths) /\ Len(visited) \in Nat \ {0} /\ DOMAIN visited = 1 .. Len(visited)
  BY DEF VisitedInv
<1>2. n \in Nat /\ n <= Len(visited)
  BY <1>1
<1> HIDE DEF n
<1>3. u \in Seq(SUBSET Paths) /\ Len(u) = n /\ \A i \in 1 .. n : u[i] = visited[i]
  BY <1>1, <1>2
<1>4. DOMAIN u = 1 .. n
  BY <1>3
<1>5. u = Front(visited)
  BY DEF Front, n
<1> HIDE DEF u
<1>6. \A i \in 1 .. n : i \in 1 .. Len(visited)
  BY <1>1, <1>2
<1> QED BY <1>1, <1>3, <1>4, <1>5, <1>6 DEF n

\* The top-level returns.
LEMMA TopReturnsStep ==
  ASSUME IInv, TopReturns
  PROVE  IInv'
<1>0. Unambiguous /\ RegInv /\ RegistryInv /\ VisitedInv /\ HistoryInv
  BY DEF IInv, RegInv
<1> DEFINE n == Len(stack)
           u == Front(stack)
           p == Top.path
<1>1. /\ stack # <<>> /\ Top.op = "top" /\ stack' = u
      /\ visited' = (IF Top.root THEN Front(visited) ELSE visited)
      /\ inited' = inited \cup {Canon(p)} /\ uninit' = uninit \ {Canon(p)}
      /\ UNCHANGED registry /\ UNCHANGED <<byName, byPath, requires>>
  BY DEF TopReturns, registry
<1>2. /\ stack \in Seq(FrameType) /\ StackOK(stack, byName, inited, requires)
      /\ Top = Last(stack) /\ Top = stack[n] /\ n \in DOMAIN stack
  BY <1>1, TopFrame
<1>3. p \in Paths /\ byPath[p] # None
  <2>1. stack[n].op # "again" /\ p = stack[n].path
    BY <1>1, <1>2
  <2>2. stack[n].path \in Paths /\ byPath[stack[n].path] # None
    BY <1>0, <1>2, <2>1, FramesRegistered
  <2> QED BY <2>1, <2>2
<1>4. Canon(p) = p
  BY <1>0, <1>3, CanonIs
<1>5. /\ u \in Seq(FrameType) /\ n \in Nat \ {0} /\ Len(u) = n - 1 /\ DOMAIN u = 1 .. n - 1
      /\ DOMAIN stack = 1 .. n /\ \A i \in 1 .. n - 1 : u[i] = stack[i]
  BY <1>1, <1>2, Pop
<1>6. /\ Cardinality(Roots(u)) = Cardinality(Roots(stack)) - (IF Top.root THEN 1 ELSE 0)
      /\ Waiting(stack) \subseteq Waiting(u) \cup {p}
  BY <1>1, <1>2, PopRoots
<1>7. visited \in Seq(SUBSET Paths) /\ visited # <<>>
  BY <1>1, <1>2, VisitedTop
<1> HIDE DEF n, u, p
<1>8. RegInv' /\ Loaded' = Loaded
  BY <1>0, <1>1, RegistrySame
<1>9. StackInv'
  <2>1. Len(u) <= Len(stack) /\ \A i \in 1 .. Len(u) : u[i] = stack[i]
    BY <1>5 DEF n
  <2>2. StackOK(u, byName, inited, requires)
    BY <1>2, <1>5, <2>1, StackPrefix
  <2>3. ASSUME NEW i \in DOMAIN u, u[i].op = "load" PROVE u[i].path \notin inited'
    <3>1. i \in DOMAIN stack /\ u[i] = stack[i] /\ i # n
      BY <1>5
    <3>2. stack[i].path # p
      BY <1>1, <1>2, <2>3, <3>1 DEF StackOK, p
    <3>3. u[i].path \notin inited
      BY <2>2, <2>3 DEF StackOK, FrameOK
    <3> QED BY <1>1, <1>4, <3>1, <3>2, <3>3
  <2>4. StackOK(u, byName, inited', requires)
    BY <2>2, <2>3, StackGrow
  <2> QED BY <1>1, <2>4 DEF StackInv
<1>10. VisitedInv'
  <2>1. CASE Top.root
    <3>1. /\ visited' \in Seq(SUBSET Paths) /\ Len(visited') = Len(visited) - 1
          /\ \A i \in DOMAIN visited' : i \in DOMAIN visited /\ visited'[i] = visited[i]
      BY <1>0, <1>1, <1>7, <2>1, VisitedPop
    <3> QED BY <1>0, <1>1, <1>6, <2>1, <3>1 DEF VisitedInv
  <2>2. CASE ~Top.root
    <3>1. Cardinality(Roots(stack)) \in Nat
      BY <1>2, RootsFinite
    <3>2. Cardinality(Roots(u)) = Cardinality(Roots(stack))
      BY <1>6, <2>2, <3>1
    <3> QED BY <1>0, <1>1, <2>2, <3>2 DEF VisitedInv
  <2> QED BY <2>1, <2>2
<1>11. HistoryInv'
  BY <1>0, <1>1, <1>3, <1>4, <1>6, <1>8 DEF HistoryInv
<1> QED BY <1>0, <1>8, <1>9, <1>10, <1>11 DEF IInv

\* A load fails, with every call that is part of it.
LEMMA FailStep ==
  ASSUME IInv, Fail
  PROVE  IInv'
<1>0. Unambiguous /\ RegInv /\ RegistryInv /\ VisitedInv /\ HistoryInv
  BY DEF IInv, RegInv
<1> DEFINE r == Max(Roots(stack))
           u == SubSeq(stack, 1, r - 1)
           C == {stack[i].path : i \in r .. Len(stack)}
<1>1. /\ stack # <<>> /\ Top.op # "again" /\ stack' = u
      /\ visited' = Front(visited)
      /\ uninit' = uninit \cup ({Canon(stack[i].path) : i \in r .. Len(stack)} \ inited)
      /\ UNCHANGED registry /\ UNCHANGED <<byName, byPath, requires, inited>>
  BY DEF Fail, Roots, registry
<1>2. /\ stack \in Seq(FrameType) /\ StackOK(stack, byName, inited, requires)
      /\ Top = stack[Len(stack)] /\ Len(stack) \in DOMAIN stack
  BY <1>1, TopFrame
<1>3. Roots(stack) # {} /\ visited # <<>>
  BY <1>1, <1>2, VisitedTop
<1>4. /\ r \in 1 .. Len(stack) /\ u \in Seq(FrameType) /\ Len(u) = r - 1
      /\ DOMAIN u = 1 .. r - 1 /\ DOMAIN stack = 1 .. Len(stack) /\ Len(stack) \in Nat
      /\ (\A i \in 1 .. r - 1 : u[i] = stack[i])
      /\ Cardinality(Roots(u)) = Cardinality(Roots(stack)) - 1
      /\ Waiting(stack) \subseteq Waiting(u) \cup C
  BY <1>2, <1>3, Cut
<1> HIDE DEF r, u
<1>5. \A i \in r .. Len(stack) : stack[i].path \in Paths /\ Canon(stack[i].path) = stack[i].path
  <2> SUFFICES ASSUME NEW i \in r .. Len(stack)
               PROVE  stack[i].path \in Paths /\ Canon(stack[i].path) = stack[i].path
    OBVIOUS
  <2>1. i \in DOMAIN stack
    BY <1>4
  <2>2. stack[i] \in FrameType
    BY <1>2, <2>1
  <2>3. stack[i].path \in Paths
    BY <2>2 DEF FrameType
  <2> QED BY <1>0, <2>3, CanonIs
<1>6. uninit' = uninit \cup (C \ inited) /\ C \subseteq Paths
  BY <1>1, <1>5
<1> HIDE DEF C
<1>7. RegInv' /\ Loaded' = Loaded
  BY <1>0, <1>1, RegistrySame
<1>8. StackInv'
  <2>1. Len(u) <= Len(stack) /\ \A i \in 1 .. Len(u) : u[i] = stack[i]
    BY <1>4
  <2>2. StackOK(u, byName, inited, requires)
    BY <1>2, <1>4, <2>1, StackPrefix
  <2> QED BY <1>1, <2>2 DEF StackInv
<1>9. VisitedInv'
  <2>1. /\ visited' \in Seq(SUBSET Paths) /\ Len(visited') = Len(visited) - 1
        /\ \A i \in DOMAIN visited' : i \in DOMAIN visited /\ visited'[i] = visited[i]
    BY <1>0, <1>1, <1>3, VisitedPop
  <2> QED BY <1>0, <1>1, <1>4, <2>1 DEF VisitedInv
<1>10. HistoryInv'
  BY <1>0, <1>1, <1>4, <1>6, <1>7 DEF HistoryInv
<1> QED BY <1>0, <1>7, <1>8, <1>9, <1>10 DEF IInv

-----------------------------------------------------------------------------
(* Steps of the host, and the end of an unload. *)

\* Nothing is in progress.
LEMMA Idle ==
  ASSUME IInv, stack = <<>>
  PROVE  /\ Roots(stack) = {} /\ Waiting(stack) = {} /\ visited = <<>>
         /\ Cardinality(Roots(stack)) = 0
<1>1. Roots(stack) = {} /\ Waiting(stack) = {}
  BY DEF Roots, Waiting
<1>2. Cardinality({}) = 0
  BY FS_EmptySet
<1>3. visited \in Seq(SUBSET Paths) /\ Len(visited) = 0
  BY <1>1, <1>2 DEF IInv, VisitedInv
<1> QED BY <1>1, <1>2, <1>3

\* load_module alone, from any stack that waits for the same files.
LEMMA LoadOnly ==
  ASSUME IInv, NEW p \in Exists, LoadModule(p),
         uninit' = (IF byPath[p] = None THEN uninit \cup ({p} \ inited) ELSE uninit),
         NEW u, StackOK(u, byName, inited, requires), stack' = u, Waiting(u) = Waiting(stack),
         Cardinality(Roots(u)) = Cardinality(Roots(stack)),
         UNCHANGED <<visited, requires, inited>>
  PROVE  IInv'
<1>0. Unambiguous /\ RegInv /\ RegistryInv /\ VisitedInv /\ HistoryInv
  BY DEF IInv, RegInv
<1>1. CASE byPath[p] # None
  <2>1. UNCHANGED registry /\ UNCHANGED <<byName, byPath, uninit>>
    BY <1>1 DEF LoadModule, registry
  <2>2. RegInv' /\ Loaded' = Loaded
    BY <1>0, <2>1, RegistrySame
  <2>3. StackInv'
    BY <2>1 DEF StackInv
  <2>4. VisitedInv'
    BY <1>0, <2>1 DEF VisitedInv
  <2>5. HistoryInv'
    BY <1>0, <2>1, <2>2 DEF HistoryInv
  <2> QED BY <1>0, <2>2, <2>3, <2>4, <2>5 DEF IInv
<1>2. CASE byPath[p] = None
  <2>1. Fresh \in Files /\ p \in Paths
    BY FreshFile, DiskPath
  <2>2. /\ RegInv' /\ p[2] \notin Loaded /\ Loaded' = Loaded \cup {p[2]}
        /\ byName' = [byName EXCEPT ![p[2]] = [id |-> Fresh, path |-> p]]
        /\ byName'[p[2]] = [id |-> Fresh, path |-> p]
        /\ \A q \in Paths : byPath[q] # None => byPath'[q] # None
    BY <1>0, <1>2, <2>1, LoadNew
  <2>3. \A n \in Loaded : n \in AllNames /\ byName'[n] = byName[n]
    BY <1>0, <2>2, InLoaded DEF RegistryInv
  <2>4. StackInv'
    <3>1. In(byName) \subseteq In(byName') /\ \A n \in In(byName) : byName'[n] = byName[n]
      <4>1. Loaded = In(byName) /\ Loaded' = In(byName')
        BY DEF Loaded, In, AllNames
      <4> QED BY <2>2, <2>3, <4>1
    <3>2. \A i \in DOMAIN u : u[i].op = "load" => u[i].path \notin inited
      BY DEF StackOK, FrameOK
    <3>3. StackOK(u, byName', inited, requires)
      BY <3>1, <3>2, StackGrow
    <3> QED BY <3>3 DEF StackInv
  <2>5. VisitedInv'
    <3>1. \A i \in DOMAIN visited : visited[i] \subseteq Paths
      BY <1>0 DEF VisitedInv
    <3> QED BY <1>0, <2>2, <3>1 DEF VisitedInv
  <2>6. HistoryInv'
    <3>1. \A n \in Loaded' : byName'[n].path \in inited \cup uninit' \cup Waiting(stack)
      BY <1>0, <1>2, <2>2, <2>3 DEF HistoryInv
    <3>2. uninit' \subseteq Paths
      BY <1>0, <2>1 DEF HistoryInv
    <3> QED BY <1>0, <2>2, <3>1, <3>2 DEF HistoryInv
  <2> QED BY <1>0, <2>2, <2>4, <2>5, <2>6 DEF IInv
<1> QED BY <1>1, <1>2

LEMMA HostLoadOnlyStep ==
  ASSUME IInv, NEW p \in Spellings \X Names, HostLoadOnly(p)
  PROVE  IInv'
<1>1. Canon(p) = p /\ p \in Exists
  BY CanonIs DEF IInv, HostLoadOnly, Paths
<1>2. StackOK(stack, byName, inited, requires)
  BY DEF IInv, StackInv
<1> QED BY <1>1, <1>2, LoadOnly DEF HostLoadOnly

LEMMA FinishReloadStep ==
  ASSUME IInv, FinishReload
  PROVE  IInv'
<1> DEFINE p == Top.path
           u == Front(stack)
<1>1. /\ stack # <<>> /\ Top.op = "again" /\ LoadModule(p) /\ stack' = u
      /\ uninit' = (IF byPath[p] = None THEN uninit \cup ({Canon(p)} \ inited) ELSE uninit)
      /\ UNCHANGED <<visited, requires, inited>>
  BY DEF FinishReload
<1>2. /\ stack \in Seq(FrameType) /\ StackOK(stack, byName, inited, requires)
      /\ Top = Last(stack) /\ Top = stack[Len(stack)]
      /\ FrameOK(stack, Len(stack), byName, inited, requires)
  BY <1>1, TopFrame
<1>3. ~Top.root /\ p \in Exists
  BY <1>1, <1>2 DEF FrameOK
<1>4. Canon(p) = p
  BY <1>3, DiskPath, CanonIs DEF IInv
<1>5. /\ u \in Seq(FrameType) /\ Len(stack) \in Nat \ {0} /\ Len(u) = Len(stack) - 1
      /\ \A i \in 1 .. Len(stack) - 1 : u[i] = stack[i]
  BY <1>1, <1>2, Pop
<1>6. Cardinality(Roots(stack)) \in Nat
  BY <1>2, RootsFinite
<1>7. Cardinality(Roots(u)) = Cardinality(Roots(stack)) /\ Waiting(u) = Waiting(stack)
  <2>1. /\ Cardinality(Roots(u)) = Cardinality(Roots(stack)) - (IF Last(stack).root THEN 1 ELSE 0)
        /\ Last(stack).op \notin {"load", "top"} => Waiting(u) = Waiting(stack)
    BY <1>1, <1>2, PopRoots
  <2>2. ~Last(stack).root /\ Last(stack).op \notin {"load", "top"}
    BY <1>1, <1>2, <1>3
  <2>3. Waiting(u) = Waiting(stack)
    BY <2>1, <2>2
  <2> HIDE DEF u
  <2>4. Cardinality(Roots(u)) = Cardinality(Roots(stack))
    BY <1>6, <2>1, <2>2
  <2> QED BY <2>3, <2>4
<1>8. StackOK(u, byName, inited, requires)
  <2> HIDE DEF u
  <2>1. Len(u) <= Len(stack) /\ \A i \in 1 .. Len(u) : u[i] = stack[i]
    BY <1>5
  <2> QED BY <1>2, <1>5, <2>1, StackPrefix
<1> HIDE DEF p, u
<1> QED BY <1>1, <1>3, <1>4, <1>7, <1>8, LoadOnly

\* The hook of n runs, or its top-level, below nothing but a reload.
LEMMA OneCall ==
  ASSUME RegistryInv, NEW n \in Loaded,
         NEW g \in FrameType, g.op \in {"hook", "top"}, g.root,
         g.path = byName[n].path, g.id = byName[n].id,
         g.op = "top" => g.todo = {} /\ g.path[1] = Mem,
         NEW st \in Seq(FrameType), NEW k \in Nat \ {0}, Len(st) = k, st[k] = g,
         \A i \in 1 .. k - 1 : st[i].op = "again" /\ ~st[i].root /\ st[i].path \in Exists
                               /\ st[i].id = NoFile
  PROVE  StackOK(st, byName, inited, requires) /\ Roots(st) = {k}
<1>1. DOMAIN st = 1 .. k /\ k \in 1 .. k /\ (\A i \in 1 .. k : i = k \/ i \in 1 .. k - 1)
      /\ k \notin 1 .. k - 1
  OBVIOUS
<1>2. /\ n \in In(byName) /\ g.path[2] = n
      /\ byName[n] = [id |-> g.id, path |-> g.path]
  BY EntryOf, InLoaded DEF RegistryInv
<1>3. ASSUME NEW i \in 1 .. k PROVE FrameOK(st, i, byName, inited, requires)
  <2>1. CASE i = k
    <3>1. \E j \in 1 .. i : st[j].root
      BY <1>1, <2>1
    <3>2. \A j \in 1 .. i - 1 : st[j].op = "again"
      BY <2>1
    <3>3. st[i] = g
      BY <2>1
    <3> QED BY <1>2, <3>1, <3>2, <3>3 DEF FrameOK
  <2>2. CASE i \in 1 .. k - 1
    BY <2>2 DEF FrameOK
  <2> QED BY <1>1, <2>1, <2>2
<1>4. \A i \in 1 .. k : st[i].op # "again" => i = k
  BY <1>1
<1>5. Roots(st) = {k}
  BY <1>1 DEF Roots
<1> QED BY <1>1, <1>3, <1>4, <1>5 DEF StackOK

\* The host calls unload_module, reload_module or run_top_level.
LEMMA HostCall ==
  ASSUME IInv, stack = <<>>, StackOK(stack', byName, inited, requires),
         \/ visited' = visited /\ Roots(stack') = {}
         \/ visited' = <<{}>> /\ \E k \in Nat : Roots(stack') = {k},
         UNCHANGED <<registry, requires, history>>
  PROVE  IInv'
<1>0. Unambiguous /\ RegInv /\ VisitedInv /\ HistoryInv
  BY DEF IInv
<1>1. UNCHANGED <<byName, byPath, globals, requires, inited, uninit>> /\ UNCHANGED registry
  BY DEF registry, history
<1>2. RegInv' /\ Loaded' = Loaded
  BY <1>0, <1>1, RegistrySame
<1>3. StackInv'
  BY <1>1 DEF StackInv
<1>4. Roots(stack) = {} /\ Waiting(stack) = {}
  BY Idle
<1>5. VisitedInv'
  <2>1. CASE visited' = visited /\ Roots(stack') = {}
    BY <1>0, <1>1, <1>4, <2>1 DEF VisitedInv
  <2>2. CASE visited' = <<{}>> /\ \E k \in Nat : Roots(stack') = {k}
    <3>1. PICK k \in Nat : Roots(stack') = {k}
      BY <2>2
    <3>2. Cardinality({k}) = 1
      BY FS_Singleton
    <3>3. /\ visited' \in Seq(SUBSET Paths) /\ Len(visited') = 1
          /\ \A i \in DOMAIN visited' : visited'[i] = {}
      BY <2>2
    <3> QED BY <3>1, <3>2, <3>3 DEF VisitedInv
  <2> QED BY <2>1, <2>2
<1>6. HistoryInv'
  BY <1>0, <1>1, <1>2, <1>4 DEF HistoryInv
<1> QED BY <1>0, <1>2, <1>3, <1>5, <1>6 DEF IInv

LEMMA UnloadStep ==
  ASSUME IInv, NEW n \in AllNames, Unload(n)
  PROVE  IInv'
<1> DEFINE g == Frame("hook", byName[n].path, byName[n].id, {}, TRUE)
           st == <<g>>
<1>1. /\ stack = <<>> /\ n \in Loaded /\ stack' = st /\ visited' = <<{}>>
      /\ UNCHANGED <<registry, requires, history>>
  BY DEF Unload
<1>2. RegistryInv
  BY DEF IInv, RegInv
<1>3. byName[n].path \in Paths /\ byName[n].id \in Files
  BY <1>1, <1>2, EntryOf
<1>4. /\ g \in FrameType /\ g.op = "hook" /\ g.root /\ g.path = byName[n].path
      /\ g.id = byName[n].id
  BY <1>3 DEF Frame, FrameType
<1> HIDE DEF g
<1>5. st \in Seq(FrameType) /\ Len(st) = 1 /\ st[1] = g /\ 1 .. 1 - 1 = {}
  BY <1>4
<1> HIDE DEF st
<1>6. StackOK(st, byName, inited, requires) /\ Roots(st) = {1}
  <2>1. g.op \in {"hook", "top"} /\ (g.op = "top" => g.todo = {} /\ g.path[1] = Mem)
    BY <1>4
  <2>2. \A i \in 1 .. 1 - 1 : st[i].op = "again" /\ ~st[i].root /\ st[i].path \in Exists
                              /\ st[i].id = NoFile
    BY <1>5
  <2>3. n \in Loaded /\ 1 \in Nat \ {0}
    BY <1>1
  <2> QED BY <1>2, <1>4, <1>5, <2>1, <2>2, <2>3, OneCall
<1> QED BY <1>1, <1>6, HostCall

LEMMA RunTopLevelStep ==
  ASSUME IInv, NEW n \in BinNames, RunTopLevel(n)
  PROVE  IInv'
<1> DEFINE g == Frame("top", <<Mem, n>>, byName[n].id, {}, TRUE)
           st == <<g>>
<1>1. /\ stack = <<>> /\ n \in Loaded /\ stack' = st /\ visited' = <<{}>>
      /\ UNCHANGED <<registry, requires, history>>
  BY DEF RunTopLevel
<1>2. RegistryInv
  BY DEF IInv, RegInv
<1>3. byName[n].path \in Paths /\ byName[n].id \in Files /\ byName[n].path = <<Mem, n>>
  BY <1>1, <1>2, EntryOf
<1>4. /\ g \in FrameType /\ g.op = "top" /\ g.root /\ g.path = byName[n].path
      /\ g.id = byName[n].id /\ g.todo = {} /\ g.path[1] = Mem
  BY <1>3 DEF Frame, FrameType
<1> HIDE DEF g
<1>5. st \in Seq(FrameType) /\ Len(st) = 1 /\ st[1] = g /\ 1 .. 1 - 1 = {}
  BY <1>4
<1> HIDE DEF st
<1>6. StackOK(st, byName, inited, requires) /\ Roots(st) = {1}
  <2>1. g.op \in {"hook", "top"} /\ (g.op = "top" => g.todo = {} /\ g.path[1] = Mem)
    BY <1>4
  <2>2. \A i \in 1 .. 1 - 1 : st[i].op = "again" /\ ~st[i].root /\ st[i].path \in Exists
                              /\ st[i].id = NoFile
    BY <1>5
  <2> QED BY <1>1, <1>2, <1>4, <1>5, <2>1, <2>2, OneCall
<1> QED BY <1>1, <1>6, HostCall

LEMMA ReloadStep ==
  ASSUME IInv, NEW p \in Spellings \X Names, Reload(p)
  PROVE  IInv'
<1> DEFINE n == IF byPath[p] # None /\ byName[byPath[p]] # None THEN byPath[p] ELSE p[2]
           a == Frame("again", p, NoFile, {}, FALSE)
           g == Frame("hook", byName[n].path, byName[n].id, {}, TRUE)
<1>1. /\ stack = <<>> /\ Canon(p) \in Exists
      /\ IF n \in Loaded THEN stack' = <<a, g>> /\ visited' = <<{}>>
                         ELSE stack' = <<a>> /\ UNCHANGED visited
      /\ UNCHANGED <<registry, requires, history>>
  BY DEF Reload
<1>2. RegistryInv
  BY DEF IInv, RegInv
<1>3. p \in Paths /\ p \in Exists
  BY <1>1, CanonIs DEF IInv, Paths
<1>4. a \in FrameType /\ a.op = "again" /\ ~a.root /\ a.path = p /\ a.id = NoFile
  BY <1>3 DEF Frame, FrameType
<1> HIDE DEF a, n
<1>5. CASE n \in Loaded
  <2> DEFINE st == <<a, g>>
  <2>1. byName[n].path \in Paths /\ byName[n].id \in Files
    BY <1>2, <1>5, EntryOf
  <2>2. /\ g \in FrameType /\ g.op = "hook" /\ g.root /\ g.path = byName[n].path
        /\ g.id = byName[n].id
    BY <2>1 DEF Frame, FrameType
  <2> HIDE DEF g
  <2>3. st \in Seq(FrameType) /\ Len(st) = 2 /\ st[2] = g /\ st[1] = a
    BY <1>4, <2>2
  <2>4. stack' = st
    BY <1>1, <1>5
  <2> HIDE DEF st
  <2>5. \A i \in 1 .. 2 - 1 : st[i].op = "again" /\ ~st[i].root /\ st[i].path \in Exists
                              /\ st[i].id = NoFile
    BY <1>3, <1>4, <2>3
  <2>6. StackOK(st, byName, inited, requires) /\ Roots(st) = {2}
    BY <1>2, <1>5, <2>2, <2>3, <2>5, OneCall
  <2> QED BY <1>1, <1>5, <2>4, <2>6, HostCall
<1>6. CASE n \notin Loaded
  <2> DEFINE st == <<a>>
  <2>1. st \in Seq(FrameType) /\ DOMAIN st = {1} /\ st[1] = a
    BY <1>4
  <2>2. stack' = st
    BY <1>1, <1>6
  <2> HIDE DEF st
  <2>3. FrameOK(st, 1, byName, inited, requires)
    BY <1>3, <1>4, <2>1 DEF FrameOK
  <2>4. StackOK(st, byName, inited, requires) /\ Roots(st) = {}
    BY <1>4, <2>1, <2>3 DEF StackOK, Roots
  <2> QED BY <1>1, <1>6, <2>2, <2>4, HostCall
<1> QED BY <1>5, <1>6

\* load_module_from_binary.
LEMMA LoadFromBinaryStep ==
  ASSUME IInv, NEW n \in BinNames, NEW syms \in BinDefs, LoadFromBinary(n, syms)
  PROVE  IInv'
<1>0. Unambiguous /\ RegInv /\ RegistryInv /\ VisitedInv /\ HistoryInv
  BY DEF IInv, RegInv
<1> DEFINE p == <<Mem, n>>
<1>1. /\ stack = <<>> /\ inited' = inited \ {p} /\ uninit' = uninit \cup {p}
      /\ UNCHANGED <<stack, visited, requires>>
  BY DEF LoadFromBinary
<1>2. p \in Paths /\ Fresh \in Files
  BY MemPath, FreshFile
<1>3. /\ RegInv' /\ Loaded' = Loaded \cup {n}
      /\ byName'[n].path = p
      /\ \A m \in Loaded : m # n => byName'[m] = byName[m]
      /\ \A q \in Paths : byPath[q] # None => byPath'[q] # None
  BY <1>0, <1>2, BinaryNew
<1>4. Waiting(stack) = {} /\ visited = <<>> /\ Cardinality(Roots(stack)) = 0
  BY <1>1, Idle
<1> HIDE DEF p
<1>5. StackInv'
  <2>1. \A i \in DOMAIN stack' : FALSE
    BY <1>1
  <2>2. stack' \in Seq(FrameType)
    BY <1>1
  <2> QED BY <2>1, <2>2 DEF StackInv, StackOK
<1>6. VisitedInv'
  BY <1>0, <1>1, <1>4 DEF VisitedInv
<1>7. HistoryInv'
  <2>1. ASSUME NEW m \in Loaded' PROVE byName'[m].path \in inited' \cup uninit'
    <3>1. CASE m = n
      BY <1>1, <1>3, <3>1
    <3>2. CASE m # n
      <4>1. m \in Loaded /\ byName'[m] = byName[m]
        BY <1>3, <3>2
      <4>2. byName[m].path # p
        BY <1>0, <3>2, <4>1 DEF RegistryInv, p
      <4> QED BY <1>0, <1>1, <1>4, <4>1, <4>2 DEF HistoryInv
    <3> QED BY <3>1, <3>2
  <2>2. \A q \in inited' : byPath'[q] # None
    BY <1>0, <1>1, <1>3 DEF HistoryInv
  <2> QED BY <1>0, <1>1, <1>2, <2>1, <2>2 DEF HistoryInv
<1> QED BY <1>0, <1>3, <1>5, <1>6, <1>7 DEF IInv

\* unload_module past its hook.  A hook runs below every load, so that no call under
\* way is of the module that goes.
LEMMA FinishUnloadStep ==
  ASSUME IInv, FinishUnload
  PROVE  IInv'
<1>0. Unambiguous /\ RegInv /\ RegistryInv /\ VisitedInv /\ HistoryInv
  BY DEF IInv, RegInv
<1> DEFINE p == Top.path
           n == p[2]
           k == Len(stack)
           u == Front(stack)
<1>1. /\ stack # <<>> /\ Top.op = "hook" /\ stack' = u /\ visited' = Front(visited)
      /\ globals' = Without(globals, n) /\ Erase(n)
      /\ inited' = inited \ {Canon(p)} /\ uninit' = uninit \ {Canon(p)}
      /\ UNCHANGED requires
  BY DEF FinishUnload
<1>2. /\ stack \in Seq(FrameType) /\ StackOK(stack, byName, inited, requires)
      /\ Top = Last(stack) /\ Top = stack[k] /\ k \in DOMAIN stack
      /\ FrameOK(stack, k, byName, inited, requires)
  BY <1>1, TopFrame
<1>3. /\ n \in In(byName) /\ byName[n] = [id |-> Top.id, path |-> p]
      /\ \A j \in 1 .. k - 1 : stack[j].op = "again"
  BY <1>1, <1>2 DEF FrameOK
<1>4. n \in Loaded /\ byName[n].path = p
  BY <1>3, InLoaded
<1>5. p \in Paths /\ Canon(p) = p
  BY <1>0, <1>4, EntryOf, CanonIs
<1>6. visited # <<>>
  BY <1>1, <1>2, VisitedTop
<1>7. /\ u \in Seq(FrameType) /\ k \in Nat \ {0} /\ Len(u) = k - 1 /\ DOMAIN u = 1 .. k - 1
      /\ DOMAIN stack = 1 .. k /\ \A i \in 1 .. k - 1 : u[i] = stack[i]
  BY <1>1, <1>2, Pop
<1>8. Waiting(u) = Waiting(stack)
  <2>1. Last(stack).op \notin {"load", "top"}
    BY <1>1, <1>2
  <2> QED BY <1>1, <1>2, <2>1, PopRoots
<1>9. /\ RegInv' /\ Loaded' = Loaded \ {n}
      /\ \A m \in Loaded' : byName'[m] = byName[m]
      /\ \A q \in Paths : q # p => byPath'[q] = byPath[q]
  BY <1>0, <1>1, <1>4, EraseOld
<1> HIDE DEF p, n, k, u
<1>10. ASSUME NEW i \in DOMAIN u
       PROVE  u[i].op = "again" /\ ~u[i].root /\ u[i].path \in Exists /\ u[i].id = NoFile
  <2>1. i \in DOMAIN stack /\ u[i] = stack[i] /\ stack[i].op = "again"
    BY <1>3, <1>7
  <2>2. FrameOK(stack, i, byName, inited, requires)
    BY <1>2, <2>1 DEF StackOK
  <2> QED BY <2>1, <2>2 DEF FrameOK
<1>11. StackInv'
  <2>1. \A i \in DOMAIN u : FrameOK(u, i, byName', inited', requires')
    BY <1>10 DEF FrameOK
  <2>2. StackOK(u, byName', inited', requires')
    BY <1>7, <1>10, <2>1 DEF StackOK
  <2> QED BY <1>1, <2>2 DEF StackInv
<1>12. VisitedInv'
  <2>1. /\ visited' \in Seq(SUBSET Paths) /\ Len(visited') = Len(visited) - 1
        /\ \A i \in DOMAIN visited' : i \in DOMAIN visited /\ visited'[i] = visited[i]
    BY <1>0, <1>1, <1>6, VisitedPop
  <2>2. Roots(u) = {} /\ Cardinality({}) = 0
    BY <1>10, FS_EmptySet DEF Roots
  <2>3. Roots(stack) = {k}
    <3>1. stack[k].root
      BY <1>1, <1>2 DEF FrameOK, k
    <3>2. \A i \in 1 .. k : i = k \/ i \in 1 .. k - 1
      BY <1>7
    <3>3. \A i \in 1 .. k - 1 : ~stack[i].root
      BY <1>7, <1>10
    <3> QED BY <1>2, <1>7, <3>1, <3>2, <3>3 DEF Roots
  <2>4. Len(visited) = 1
    BY <1>0, <2>3, FS_Singleton DEF VisitedInv
  <2>5. Len(visited') = 0 /\ DOMAIN visited' = {}
    BY <2>1, <2>4
  <2> QED BY <1>1, <2>1, <2>2, <2>5 DEF VisitedInv
<1>13. HistoryInv'
  <2>1. ASSUME NEW m \in Loaded' PROVE byName'[m].path \in inited' \cup uninit' \cup Waiting(stack')
    <3>1. m \in Loaded /\ m # n /\ byName'[m] = byName[m]
      BY <1>9
    <3>2. byName[m].path # p
      BY <1>0, <1>4, <3>1 DEF RegistryInv, n
    <3> QED BY <1>0, <1>1, <1>5, <1>8, <3>1, <3>2 DEF HistoryInv
  <2>2. ASSUME NEW q \in inited' PROVE byPath'[q] # None
    <3>1. q \in inited /\ q \in Paths /\ q # p
      BY <1>0, <1>1, <1>5 DEF HistoryInv
    <3> QED BY <1>0, <1>9, <3>1 DEF HistoryInv
  <2> QED BY <1>0, <1>1, <2>1, <2>2 DEF HistoryInv
<1> QED BY <1>0, <1>9, <1>11, <1>12, <1>13 DEF IInv

-----------------------------------------------------------------------------
(* The invariant holds. *)

\* The registry of a loader that has loaded nothing.
Empty ==
  /\ byName = [n \in Names \cup BinNames |-> None]
  /\ byPath = [p \in Paths |-> None]
  /\ globals = [s \in Symbols |-> None]

LEMMA EmptyInv ==
  ASSUME Empty, Unambiguous, stack = <<>>, visited = <<>>, requires \in [Names -> SUBSET Names],
         inited = {}, uninit = {}
  PROVE  IInv
<1>1. Loaded = {}
  BY DEF Loaded, Empty
<1>2. RegInv
  BY <1>1 DEF RegInv, RegistryInv, GlobalsInv, Empty, AllNames
<1>3. stack \in Seq(FrameType) /\ DOMAIN stack = {} /\ visited \in Seq(SUBSET Paths) /\ Len(visited) = 0
      /\ DOMAIN visited = {}
  OBVIOUS
<1>4. StackInv
  BY <1>3 DEF StackInv, StackOK
<1>5. Cardinality(Roots(stack)) = 0
  BY <1>3, FS_EmptySet DEF Roots
<1>6. VisitedInv
  BY <1>3, <1>5 DEF VisitedInv
<1>7. HistoryInv
  BY <1>1 DEF HistoryInv
<1> QED BY <1>2, <1>4, <1>6, <1>7 DEF IInv

LEMMA RestartStep ==
  ASSUME IInv, Restart
  PROVE  IInv'
<1>1. /\ stack = <<>> /\ Empty' /\ inited' = {} /\ uninit' = {}
      /\ stack' = stack /\ visited' = visited /\ requires' = requires
  BY DEF Restart, Empty
<1>2. visited = <<>> /\ requires \in [Names -> SUBSET Names]
  BY <1>1, Idle DEF IInv, HistoryInv
<1>3. Unambiguous' <=> Unambiguous
  BY DEF Unambiguous
<1>4. Loaded' = {}
  BY <1>1 DEF Loaded, Empty
<1>5. RegInv'
  BY <1>1, <1>4 DEF RegInv, RegistryInv, GlobalsInv, Empty, AllNames
<1>6. stack' \in Seq(FrameType) /\ DOMAIN stack' = {} /\ Roots(stack') = {} /\ Cardinality({}) = 0
  BY <1>1, FS_EmptySet DEF Roots
<1>7. StackInv'
  BY <1>6 DEF StackInv, StackOK
<1>8. VisitedInv'
  BY <1>1, <1>2, <1>6 DEF VisitedInv, IInv
<1>9. HistoryInv'
  BY <1>1, <1>2, <1>4 DEF HistoryInv
<1> QED BY <1>5, <1>7, <1>8, <1>9 DEF IInv

LEMMA InitInv == Unambiguous /\ Init => IInv
<1> SUFFICES ASSUME Unambiguous, Init PROVE IInv
  OBVIOUS
<1>1. requires \in [Names -> SUBSET Names]
  BY LoaderAssumption DEF Init
<1> QED BY <1>1, EmptyInv DEF Init, Empty

LEMMA StutterInv ==
  ASSUME IInv, UNCHANGED vars
  PROVE  IInv'
<1>1. UNCHANGED <<byName, byPath, globals, stack, visited, requires, inited, uninit>> /\ UNCHANGED registry
  BY DEF vars, registry, history
<1>2. RegInv' /\ Loaded' = Loaded
  BY <1>1, RegistrySame DEF IInv
<1> QED BY <1>1, <1>2 DEF IInv, StackInv, VisitedInv, HistoryInv

LEMMA NextInv == IInv /\ [Next]_vars => IInv'
<1> SUFFICES ASSUME IInv, [Next]_vars PROVE IInv'
  OBVIOUS
<1>1. ASSUME CallStep PROVE IInv'
  <2>1. CASE \E d \in Names : Require(d)
    BY <2>1, RequireStep
  <2>2. CASE StartTop
    BY <2>2, StartTopStep
  <2>3. CASE TopReturns
    BY <2>3, TopReturnsStep
  <2>4. CASE Fail
    BY <2>4, FailStep
  <2>5. CASE FinishUnload
    BY <2>5, FinishUnloadStep
  <2>6. CASE FinishReload
    BY <2>6, FinishReloadStep
  <2> QED BY <1>1, <2>1, <2>2, <2>3, <2>4, <2>5, <2>6 DEF CallStep
<1>2. ASSUME HostStep PROVE IInv'
  <2>1. CASE \E p \in Spellings \X Names : HostLoad(p) \/ HostLoadOnly(p) \/ Reload(p)
    BY <2>1, HostLoadStep, HostLoadOnlyStep, ReloadStep
  <2>2. CASE \E n \in BinNames, syms \in BinDefs : LoadFromBinary(n, syms)
    BY <2>2, LoadFromBinaryStep
  <2>3. CASE \E n \in BinNames : RunTopLevel(n)
    BY <2>3, RunTopLevelStep
  <2>4. CASE \E n \in Names \cup BinNames : Unload(n)
    BY <2>4, UnloadStep DEF AllNames
  <2>5. CASE Restart
    BY <2>5, RestartStep
  <2> QED BY <1>2, <2>1, <2>2, <2>3, <2>4, <2>5 DEF HostStep
<1>3. CASE \E p \in Spellings \X Names : NativeLoad(p)
  BY <1>3, NativeLoadStep
<1>4. CASE UNCHANGED vars
  BY <1>4, StutterInv
<1> QED BY <1>1, <1>2, <1>3, <1>4 DEF Next

LEMMA Invariance == Unambiguous /\ Spec => []IInv
<1>1. Unambiguous /\ Init => IInv
  BY InitInv
<1>2. IInv /\ [Next]_vars => IInv'
  BY NextInv
<1> QED BY <1>1, <1>2, PTL DEF Spec

-----------------------------------------------------------------------------
(* What the invariant says. *)

LEMMA ImpliesPointersLive == IInv => PointersLive
<1> SUFFICES ASSUME IInv PROVE PointersLive
  OBVIOUS
<1>1. NoDangling
  BY DEF NoDangling, Owned, IInv, RegInv, GlobalsInv
<1>2. ASSUME NEW i \in DOMAIN stack, stack[i].op # "again" PROVE stack[i].id \in Owned
  <2>1. RegistryInv /\ StackOK(stack, byName, inited, requires)
    BY DEF IInv, RegInv, StackInv
  <2>2. /\ stack[i].path[2] \in Loaded
        /\ byName[stack[i].path[2]] = [id |-> stack[i].id, path |-> stack[i].path]
    BY <1>2, <2>1, FramesRegistered
  <2>3. byName[stack[i].path[2]].id = stack[i].id
    BY <2>2
  <2> QED BY <2>2, <2>3 DEF Owned
<1> QED BY <1>1, <1>2 DEF PointersLive, HeldIsOwned

LEMMA ImpliesRegistryExact == IInv => RegistryExact
<1> SUFFICES ASSUME IInv PROVE RegistryExact
  OBVIOUS
<1>0. Unambiguous /\ RegistryInv /\ GlobalsInv /\ VisitedInv /\ HistoryInv
  BY DEF IInv, RegInv
<1>1. stack \in Seq(FrameType)
  BY DEF IInv, StackInv, StackOK
<1>2. \A i \in DOMAIN stack : stack[i] \in FrameType
  BY <1>1
<1>3. \A i \in DOMAIN visited : visited[i] \subseteq Paths
  BY <1>0 DEF VisitedInv
<1>4. TypeOK
  BY <1>0, <1>2, <1>3 DEF TypeOK, RegistryInv, GlobalsInv, HistoryInv, AllNames
<1>5. PathMeansLoaded
  BY <1>0 DEF PathMeansLoaded, RegistryInv
<1>6. RegisteredRan
  <2> SUFFICES ASSUME stack = <<>>, NEW n \in Loaded
               PROVE  Canon(byName[n].path) \in inited \cup uninit
    BY DEF RegisteredRan
  <2>1. Waiting(stack) = {}
    BY Idle
  <2>2. Canon(byName[n].path) = byName[n].path
    BY <1>0, EntryOf, CanonIs
  <2> QED BY <1>0, <2>1, <2>2 DEF HistoryInv
<1> QED BY <1>4, <1>5, <1>6 DEF RegistryExact

LEMMA ImpliesDepsFirst == IInv => DepsFirst
<1> SUFFICES ASSUME IInv, NEW i \in DOMAIN stack, stack[i].op = "top", stack[i].path[1] # Mem,
                    NEW d \in requires[stack[i].path[2]]
             PROVE  \E f \in inited \cup uninit \cup {Canon(stack[j].path) : j \in DOMAIN stack} : f[2] = d
  BY DEF DepsFirst
<1>0. Unambiguous /\ RegistryInv /\ HistoryInv /\ stack \in Seq(FrameType)
  BY DEF IInv, RegInv, StackInv, StackOK
<1>1. FrameOK(stack, i, byName, inited, requires)
  BY DEF IInv, StackInv, StackOK
<1>2. d \in Loaded
  BY <1>1, InLoaded DEF FrameOK
<1> DEFINE f == byName[d].path
<1>3. f \in inited \cup uninit \cup Waiting(stack) /\ f[2] = d
  BY <1>0, <1>2 DEF RegistryInv, HistoryInv
<1>4. ASSUME f \in Waiting(stack) PROVE f \in {Canon(stack[j].path) : j \in DOMAIN stack}
  <2>1. PICK j \in DOMAIN stack : stack[j].path = f
    BY <1>4 DEF Waiting
  <2>2. stack[j] \in FrameType
    BY <1>0
  <2>3. stack[j].path \in Paths
    BY <2>2 DEF FrameType
  <2>4. Canon(stack[j].path) = f
    BY <1>0, <2>1, <2>3, CanonIs
  <2> QED BY <2>4
<1> QED BY <1>3, <1>4

LEMMA ImpliesOnce ==
  IInv => (stack # <<>> /\ Top.op = "load" /\ Len(stack') = Len(stack) /\ Last(stack').op = "top"
             => Canon(Top.path) \notin inited)
<1> SUFFICES ASSUME IInv, stack # <<>>, Top.op = "load" PROVE Canon(Top.path) \notin inited
  OBVIOUS
<1>1. Top.path \in Exists /\ Top.path \notin inited
  BY TopFrame DEF FrameOK
<1>2. Canon(Top.path) = Top.path
  BY <1>1, DiskPath, CanonIs DEF IInv
<1> QED BY <1>1, <1>2

LEMMA ImpliesNoReentry == IInv => NoReentry
<1> SUFFICES ASSUME IInv, NEW i \in DOMAIN stack, NEW j \in DOMAIN stack, i # j,
                    stack[i].op # "again", stack[j].op # "again"
             PROVE  Canon(stack[i].path) # Canon(stack[j].path)
  BY DEF NoReentry
<1>1. Unambiguous /\ StackOK(stack, byName, inited, requires)
  BY DEF IInv, StackInv
<1>2. stack[i].path # stack[j].path
  BY <1>1 DEF StackOK
<1>3. stack[i] \in FrameType /\ stack[j] \in FrameType
  BY <1>1 DEF StackOK
<1>4. stack[i].path \in Paths /\ stack[j].path \in Paths
  BY <1>3 DEF FrameType
<1> QED BY <1>1, <1>2, <1>4, CanonIs

-----------------------------------------------------------------------------
(* Theorems.  The hypothesis on paths is what the loader needs: with two   *)
(* files of one stem TLC finds a pointer that dangles, with one file under *)
(* two spellings a top-level that runs twice.                              *)

\* No pointer into a BinaryFile outlives it, neither those of Globals nor those of a
\* load_module_recursive, a top-level or an on_unload hook in progress, whatever the
\* top-levels and hooks load meanwhile.
THEOREM PointersStayLive == Unambiguous /\ Spec => []PointersLive
BY Invariance, ImpliesPointersLive, PTL

\* m_by_name and m_by_path stay each other's inverse, and between calls everything
\* registered has run its top-level or is known to have been left without.
THEOREM RegistryStaysExact == Unambiguous /\ Spec => []RegistryExact
BY Invariance, ImpliesRegistryExact, PTL

\* When load_module_recursive runs a top-level, every module in its requires is up,
\* waits in a cycle, or was left uninitialised by an earlier call.
THEOREM DependenciesRunFirst == Unambiguous /\ Spec => []DepsFirst
BY Invariance, ImpliesDepsFirst, PTL

\* run_top_level is called once for each time a file is registered, also when loads
\* nest and requires are cyclic.
THEOREM TopLevelRunsOnce == Unambiguous /\ Spec => TopLevelOnce
<1>1. IInv => (stack # <<>> /\ Top.op = "load" /\ Len(stack') = Len(stack) /\ Last(stack').op = "top"
                 => Canon(Top.path) \notin inited)
  BY ImpliesOnce
<1> QED BY <1>1, Invariance, PTL DEF TopLevelOnce

\* load_module_recursive is never entered for a file that a call under way is about,
\* however the requires are cyclic and the top-levels load modules again: there are
\* at most as many calls in progress as there are files, so the recursion ends.
THEOREM RecursionIsFinite == Unambiguous /\ Spec => []NoReentry
BY Invariance, ImpliesNoReentry, PTL
=============================================================================
