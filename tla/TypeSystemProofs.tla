-------------------------- MODULE TypeSystemProofs --------------------------
(***************************************************************************)
(* Proofs about TypeSystem.tla, for any deftype forms in any order.        *)
(*                                                                         *)
(* Up, WithFields and WithMethods are recursive functions.  What the first *)
(* returns is said by the invariant, which has the path of every type;     *)
(* that the others are defined, and preserve what each step preserves, is  *)
(* an induction on the number of steps.                                    *)
(***************************************************************************)
EXTENDS TypeSystem, Modular, FiniteSetTheorems, SequenceTheorems, WellFoundedInduction, TLAPS

-----------------------------------------------------------------------------
(* Induction, smallest and largest members. *)

LEMMA Least ==
  ASSUME NEW T, T \subseteq Nat, T # {}
  PROVE  \E m \in T : \A y \in T : m <= y
<1>1. PICK m \in T : \A y \in T : ~ (<<y, m>> \in OpToRel(<, Nat))
  BY NatLessThanWellFounded, WFMin
<1>2. ASSUME NEW y \in T PROVE m <= y
  <2>1. y \in Nat /\ m \in Nat
    OBVIOUS
  <2>2. y < m => <<y, m>> \in {ss \in Nat \X Nat : ss[1] < ss[2]}
    BY <2>1
  <2>3. ~ (y < m)
    BY <1>1, <2>2 DEF OpToRel
  <2> QED BY <2>1, <2>3
<1> QED BY <1>2

\* What holds of 0 and of the successors of what it holds of, up to n.
LEMMA Induct ==
  ASSUME NEW n \in Nat, NEW S, 0 \in S, \A k \in 0 .. n - 1 : k \in S => k + 1 \in S
  PROVE  \A k \in 0 .. n : k \in S
<1> DEFINE T == {k \in 0 .. n : k \notin S}
<1>1. SUFFICES ASSUME T # {} PROVE FALSE
  OBVIOUS
<1>2. T \subseteq Nat
  OBVIOUS
<1>3. PICK m \in T : \A y \in T : m <= y
  BY <1>1, <1>2, Least
<1>4. m \in 0 .. n /\ m \notin S /\ m # 0
  OBVIOUS
<1>5. m - 1 \in 0 .. n - 1 /\ m - 1 \in 0 .. n /\ ~ (m <= m - 1) /\ (m - 1) + 1 = m
  BY <1>4
<1>6. m - 1 \notin T
  BY <1>3, <1>5
<1>7. m - 1 \in S
  BY <1>5, <1>6
<1> QED BY <1>4, <1>5, <1>7

LEMMA MinIs ==
  ASSUME NEW T, T \subseteq Nat, T # {}
  PROVE  Min(T) \in T /\ \A y \in T : Min(T) <= y
<1>1. \E m \in T : \A y \in T : m <= y
  BY Least
<1> QED BY <1>1 DEF Min

LEMMA MaxIs ==
  ASSUME NEW n \in Nat, NEW T, T \subseteq 1 .. n, T # {}
  PROVE  Max(T) \in T /\ \A y \in T : Max(T) >= y
<1> DEFINE U == {n - k : k \in T}
<1>0. \A k \in T : k \in 1 .. n /\ k \in Nat /\ n - k \in Nat
  OBVIOUS
<1>1. U \subseteq Nat /\ U # {}
  BY <1>0
<1>2. PICK m \in U : \A y \in U : m <= y
  BY <1>1, Least
<1>3. PICK k \in T : m = n - k
  OBVIOUS
<1>4. ASSUME NEW y \in T PROVE k >= y
  <2>1. n - y \in U /\ m <= n - y
    BY <1>2
  <2>2. k \in Nat /\ y \in Nat
    BY <1>0
  <2> QED BY <1>3, <2>1, <2>2
<1> QED BY <1>4 DEF Max

-----------------------------------------------------------------------------
(* The tree. *)

\* path has for every type the names from it up to the root.
Tree(path) ==
  /\ "object" \in Known /\ types["object"].parent = "object"
  /\ path \in [Known -> Seq(Known)] /\ path["object"] = <<"object">>
  /\ \A t \in Known : HasParent(t) =>
       types[t].parent \in Known /\ path[t] = <<t>> \o path[types[t].parent]
  /\ Bound \in Nat /\ \A t \in Known : Len(path[t]) <= Bound

LEMMA Steps ==
  ASSUME NEW path, Tree(path), NEW t \in Known
  PROVE  /\ path[t] \in Seq(Known) /\ Len(path[t]) \in 1 .. Bound /\ path[t][1] = t
         /\ Len(path[t]) = 1 <=> t = "object"
         /\ HasParent(t) => /\ types[t].parent \in Known
                            /\ Len(path[t]) = Len(path[types[t].parent]) + 1
                            /\ \A i \in 1 .. Len(path[types[t].parent]) :
                                 path[t][i + 1] = path[types[t].parent][i]
<1> DEFINE p == types[t].parent
<1>1. path[t] \in Seq(Known) /\ Len(path[t]) \in Nat /\ Bound \in Nat /\ Len(path[t]) <= Bound
  BY DEF Tree
<1>2. CASE t = "object"
  <2>1. path[t] = <<"object">>
    BY <1>2 DEF Tree
  <2> QED BY <1>1, <1>2, <2>1 DEF HasParent
<1>3. CASE t # "object"
  <2>1. p \in Known /\ path[t] = <<t>> \o path[p] /\ path[p] \in Seq(Known)
    BY <1>3 DEF Tree, HasParent
  <2>2. Len(path[p]) \in Nat /\ Len(path[t]) = Len(path[p]) + 1 /\ path[t][1] = t
        /\ \A i \in 1 .. Len(path[p]) : path[t][i + 1] = path[p][i]
    BY <2>1
  <2>3. path[p] # <<>>
    <3>1. CASE p = "object"
      <4>1. path[p] = <<"object">>
        BY <3>1 DEF Tree
      <4> QED BY <4>1
    <3>2. CASE p # "object"
      <4>1. path[p] = <<p>> \o path[types[p].parent] /\ path[types[p].parent] \in Seq(Known)
        BY <2>1, <3>2 DEF Tree, HasParent
      <4> QED BY <4>1
    <3> QED BY <3>1, <3>2
  <2>4. Len(path[p]) # 0
    BY <2>1, <2>3
  <2> QED BY <1>1, <1>3, <2>1, <2>2, <2>4
<1> QED BY <1>2, <1>3

\* The path of a type that is on the path of t is the rest of it.
TailsArePaths(path, t) ==
  \A i \in 1 .. Len(path[t]) :
    /\ path[t][i] \in Known /\ Len(path[path[t][i]]) = Len(path[t]) - i + 1
    /\ \A j \in 1 .. Len(path[t]) - i + 1 : path[path[t][i]][j] = path[t][i + j - 1]

LEMMA Suffix ==
  ASSUME NEW path, Tree(path)
  PROVE  \A t \in Known : TailsArePaths(path, t)
<1>0. Bound \in Nat
  BY DEF Tree
<1> DEFINE S == {k \in 0 .. Bound : \A t \in Known : Len(path[t]) <= k => TailsArePaths(path, t)}
<1>1. 0 \in S
  BY <1>0, Steps
<1>2. ASSUME NEW k \in 0 .. Bound - 1, k \in S PROVE k + 1 \in S
  <2>1. SUFFICES ASSUME NEW t \in Known, Len(path[t]) = k + 1 PROVE TailsArePaths(path, t)
    BY <1>0, <1>2, Steps
  <2> DEFINE p == types[t].parent
  <2>2. path[t] \in Seq(Known) /\ Len(path[t]) \in Nat /\ path[t][1] = t
    BY Steps
  <2>3. SUFFICES ASSUME NEW i \in 1 .. Len(path[t])
                 PROVE  /\ path[t][i] \in Known /\ Len(path[path[t][i]]) = Len(path[t]) - i + 1
                        /\ \A j \in 1 .. Len(path[t]) - i + 1 :
                             path[path[t][i]][j] = path[t][i + j - 1]
    BY DEF TailsArePaths
  <2>4. CASE i = 1
    <3>1. path[t][i] = t /\ Len(path[t]) - i + 1 = Len(path[t])
      BY <2>2, <2>4
    <3>2. \A j \in 1 .. Len(path[t]) : i + j - 1 = j
      BY <2>4
    <3> QED BY <2>2, <3>1, <3>2
  <2>5. CASE i # 1
    <3>1. t # "object"
      <4> SUFFICES ASSUME t = "object" PROVE FALSE
        OBVIOUS
      <4>1. Len(path[t]) = 1
        BY Steps
      <4> QED BY <2>5, <4>1
    <3>2. /\ p \in Known /\ Len(path[t]) = Len(path[p]) + 1 /\ Len(path[p]) \in Nat
          /\ \A j \in 1 .. Len(path[p]) : path[t][j + 1] = path[p][j]
      BY <3>1, Steps DEF HasParent
    <3>3. TailsArePaths(path, p)
      BY <1>2, <2>1, <3>2
    <3>4. i - 1 \in 1 .. Len(path[p]) /\ (i - 1) + 1 = i
      BY <2>2, <2>5, <3>2
    <3>5. path[t][i] = path[p][i - 1]
      BY <3>2, <3>4
    <3>6. /\ path[t][i] \in Known /\ Len(path[path[t][i]]) = Len(path[p]) - (i - 1) + 1
          /\ \A j \in 1 .. Len(path[p]) - (i - 1) + 1 :
               path[path[t][i]][j] = path[p][(i - 1) + j - 1]
      BY <3>3, <3>4, <3>5 DEF TailsArePaths
    <3>7. Len(path[p]) - (i - 1) + 1 = Len(path[t]) - i + 1
      BY <3>2, <3>4
    <3>8. ASSUME NEW j \in 1 .. Len(path[t]) - i + 1
          PROVE  path[path[t][i]][j] = path[t][i + j - 1]
      <4>1. path[path[t][i]][j] = path[p][(i - 1) + j - 1]
        BY <3>6, <3>7
      <4>2. (i - 1) + j - 1 \in 1 .. Len(path[p]) /\ ((i - 1) + j - 1) + 1 = i + j - 1
        <5> DEFINE u == Len(path[p])
                   v == Len(path[t])
        <5>1. v = u + 1 /\ u \in Nat /\ i \in 1 .. v /\ j \in 1 .. v - i + 1
          BY <3>2
        <5> HIDE DEF u, v
        <5>2. (i - 1) + j - 1 \in 1 .. u /\ ((i - 1) + j - 1) + 1 = i + j - 1
          BY <2>5, <5>1
        <5> QED BY <5>2 DEF u
      <4>3. path[t][((i - 1) + j - 1) + 1] = path[p][(i - 1) + j - 1]
        BY <3>2, <4>2
      <4> QED BY <4>1, <4>2, <4>3
    <3> QED BY <3>6, <3>7, <3>8
  <2> QED BY <2>4, <2>5
<1>3. \A k \in 0 .. Bound : k \in S
  <2> HIDE DEF S
  <2> QED BY <1>0, <1>1, <1>2, Induct
<1> QED BY <1>0, <1>3, Steps

\* The i-th of a path has the next one as its parent, and only the last is the root.
LEMMA Climb ==
  ASSUME NEW path, Tree(path), NEW t \in Known, NEW i \in 1 .. Len(path[t])
  PROVE  /\ path[t][i] \in Known
         /\ path[t][i] = "object" <=> i = Len(path[t])
         /\ i < Len(path[t]) => types[path[t][i]].parent = path[t][i + 1]
<1> DEFINE s == path[t][i]
<1>1. /\ s \in Known /\ Len(path[s]) = Len(path[t]) - i + 1 /\ Len(path[t]) \in Nat
      /\ \A j \in 1 .. Len(path[t]) - i + 1 : path[s][j] = path[t][i + j - 1]
  BY Suffix, Steps DEF TailsArePaths
<1>2. s = "object" <=> i = Len(path[t])
  <2>1. Len(path[s]) = 1 <=> s = "object"
    BY <1>1, Steps
  <2>2. Len(path[s]) = 1 <=> i = Len(path[t])
    BY <1>1
  <2> QED BY <2>1, <2>2
<1>3. ASSUME i < Len(path[t]) PROVE types[s].parent = path[t][i + 1]
  <2>1. s # "object"
    BY <1>1, <1>2, <1>3
  <2> HIDE DEF s
  <2>2. types[s].parent \in Known /\ Len(path[types[s].parent]) >= 1
        /\ path[s][1 + 1] = path[types[s].parent][1] /\ path[types[s].parent][1] = types[s].parent
    BY <1>1, <2>1, Steps DEF HasParent
  <2>3. path[s][2] = path[t][i + 1]
    BY <1>1, <1>3
  <2> QED BY <2>2, <2>3
<1> QED BY <1>1, <1>2, <1>3

\* Up climbs the path and stays at the root.
LEMMA UpIs ==
  ASSUME NEW path, Tree(path), NEW t \in Known
  PROVE  \A k \in 0 .. Bound :
           Up(t)[k] = IF k < Len(path[t]) THEN path[t][k + 1] ELSE "object"
<1> DEFINE F(f) == [k \in 0 .. Bound |-> IF k = 0 THEN t ELSE types[f[k - 1]].parent]
           g == [k \in 0 .. Bound |-> IF k < Len(path[t]) THEN path[t][k + 1] ELSE "object"]
<1>0. /\ Bound \in Nat /\ Len(path[t]) \in 1 .. Bound /\ path[t][1] = t
      /\ types["object"].parent = "object"
  BY Steps DEF Tree
<1>1. ASSUME NEW k \in 1 .. Bound, NEW x, x = g[k - 1] PROVE types[x].parent = g[k]
  <2>1. k - 1 \in 0 .. Bound /\ k \in 0 .. Bound /\ (k - 1) + 1 = k
    BY <1>0
  <2>2. CASE k < Len(path[t])
    <3>1. x = path[t][k] /\ k \in 1 .. Len(path[t]) /\ g[k] = path[t][k + 1]
      BY <1>0, <1>1, <2>1, <2>2
    <3> QED BY <2>2, <3>1, Climb
  <2>3. CASE k = Len(path[t])
    <3>1. x = path[t][k] /\ k \in 1 .. Len(path[t]) /\ g[k] = "object"
      BY <1>0, <1>1, <2>1, <2>3
    <3>2. x = "object"
      BY <2>3, <3>1, Climb
    <3> QED BY <1>0, <3>1, <3>2
  <2>4. CASE k > Len(path[t])
    <3>1. x = "object" /\ g[k] = "object"
      BY <1>0, <1>1, <2>1, <2>4
    <3> QED BY <1>0, <3>1
  <2> QED BY <1>0, <2>2, <2>3, <2>4
<1>2. g = F(g)
  <2>1. g[0] = t
    BY <1>0
  <2>2. \A k \in 0 .. Bound : g[k] = IF k = 0 THEN t ELSE types[g[k - 1]].parent
    <3> SUFFICES ASSUME NEW k \in 0 .. Bound, k # 0 PROVE g[k] = types[g[k - 1]].parent
      BY <2>1
    <3>1. k \in 1 .. Bound
      BY <1>0
    <3> HIDE DEF g
    <3> QED BY <1>1, <3>1
  <2>3. g = [k \in 0 .. Bound |-> g[k]]
    OBVIOUS
  <2> HIDE DEF g
  <2> QED BY <2>2, <2>3
<1>3. Up(t) = CHOOSE f : f = F(f)
  BY DEF Up
<1> HIDE DEF g
<1>4. Up(t) = F(Up(t))
  <2> HIDE DEF F
  <2> QED BY <1>2, <1>3
<1> DEFINE S == {k \in 0 .. Bound : Up(t)[k] = g[k]}
<1>5. 0 \in S
  <2>1. Up(t)[0] = t /\ 0 \in 0 .. Bound
    BY <1>0, <1>4
  <2>2. g[0] = t
    BY <1>0 DEF g
  <2> QED BY <2>1, <2>2
<1>6. ASSUME NEW k \in 0 .. Bound - 1, k \in S PROVE k + 1 \in S
  <2>1. k + 1 \in 1 .. Bound /\ k + 1 \in 0 .. Bound /\ (k + 1) - 1 = k /\ k + 1 # 0
    BY <1>0
  <2>2. Up(t)[k + 1] = types[Up(t)[k]].parent
    <3>1. Up(t)[k + 1] = IF k + 1 = 0 THEN t ELSE types[Up(t)[(k + 1) - 1]].parent
      BY <1>4, <2>1
    <3> QED BY <2>1, <3>1
  <2>3. Up(t)[k] = g[(k + 1) - 1]
    BY <1>6, <2>1
  <2> QED BY <1>1, <2>1, <2>2, <2>3
<1>7. \A k \in 0 .. Bound : k \in S
  <2> HIDE DEF S
  <2> QED BY <1>0, <1>5, <1>6, Induct
<1> QED BY <1>7 DEF g

LEMMA ChainIs ==
  ASSUME NEW path, Tree(path), NEW t \in Known
  PROVE  Chain(t) = path[t]
<1> DEFINE T == {k \in 0 .. Bound : ~HasParent(Up(t)[k])}
           n == Len(path[t]) - 1
<1>0. /\ Bound \in Nat /\ Len(path[t]) \in 1 .. Bound /\ path[t] \in Seq(Known)
      /\ n \in 0 .. Bound /\ n + 1 = Len(path[t])
  BY Steps DEF Tree
<1>1. \A k \in 0 .. n : Up(t)[k] = path[t][k + 1] /\ (HasParent(Up(t)[k]) <=> k # n)
  <2> SUFFICES ASSUME NEW k \in 0 .. n
               PROVE  Up(t)[k] = path[t][k + 1] /\ (HasParent(Up(t)[k]) <=> k # n)
    OBVIOUS
  <2>1. k \in 0 .. Bound /\ k < Len(path[t]) /\ k + 1 \in 1 .. Len(path[t])
        /\ (k + 1 = Len(path[t]) <=> k = n)
    BY <1>0
  <2>2. Up(t)[k] = path[t][k + 1]
    BY <2>1, UpIs
  <2>3. path[t][k + 1] = "object" <=> k + 1 = Len(path[t])
    BY <2>1, Climb
  <2> QED BY <2>1, <2>2, <2>3 DEF HasParent
<1>2. n \in T /\ \A k \in T : n <= k
  BY <1>0, <1>1
<1>3. Min(T) = n
  <2>0. T \subseteq Nat /\ T # {}
    BY <1>2
  <2>1. Min(T) \in T /\ Min(T) <= n
    <3> HIDE DEF T
    <3> QED BY <1>2, <2>0, MinIs
  <2>2. n <= Min(T) /\ Min(T) \in Int
    BY <1>0, <1>2, <2>1
  <2> QED BY <1>0, <2>1, <2>2
<1>4. Chain(t) = [k \in 1 .. (n + 1) |-> Up(t)[k - 1]]
  BY <1>3 DEF Chain
<1>5. \A k \in 1 .. (n + 1) : Up(t)[k - 1] = path[t][k]
  <2> SUFFICES ASSUME NEW k \in 1 .. (n + 1) PROVE Up(t)[k - 1] = path[t][k]
    OBVIOUS
  <2>1. k - 1 \in 0 .. n /\ (k - 1) + 1 = k
    BY <1>0
  <2> QED BY <1>1, <2>1
<1>6. path[t] = [k \in 1 .. (n + 1) |-> path[t][k]]
  BY <1>0
<1> QED BY <1>4, <1>5, <1>6

\* A defined type resolves to itself.
LEMMA ResolveIs ==
  ASSUME NEW n \in Known, IsFiniteSet(DOMAIN fwd)
  PROVE  Resolve(n) = n
<1> DEFINE steps == Cardinality(DOMAIN fwd)
           F(f) == [k \in 0 .. steps |->
                      IF k = 0 THEN n
                      ELSE IF f[k - 1] \in DOMAIN fwd \ Known THEN fwd[f[k - 1]] ELSE f[k - 1]]
           at == CHOOSE f : f = F(f)
           g == [k \in 0 .. steps |-> n]
<1>0. steps \in Nat
  BY FS_CardinalityType
<1> HIDE DEF steps
<1>1. g = F(g)
  BY <1>0
<1>2. at = F(at)
  <2> HIDE DEF F, g
  <2> QED BY <1>1
<1> DEFINE S == {k \in 0 .. steps : at[k] = n}
<1> HIDE DEF at
<1>3. 0 \in S
  BY <1>0, <1>2
<1>4. ASSUME NEW k \in 0 .. steps - 1, k \in S PROVE k + 1 \in S
  <2>1. k + 1 \in 0 .. steps /\ k + 1 # 0 /\ (k + 1) - 1 = k
    BY <1>0
  <2>2. at[k + 1] = IF at[k] \in DOMAIN fwd \ Known THEN fwd[at[k]] ELSE at[k]
    <3>1. at[k + 1] = IF k + 1 = 0 THEN n
                      ELSE IF at[(k + 1) - 1] \in DOMAIN fwd \ Known THEN fwd[at[(k + 1) - 1]]
                           ELSE at[(k + 1) - 1]
      BY <1>2, <2>1
    <3> QED BY <2>1, <3>1
  <2> QED BY <1>4, <2>1, <2>2
<1>5. \A k \in 0 .. steps : k \in S
  <2> HIDE DEF S
  <2> QED BY <1>0, <1>3, <1>4, Induct
<1>6. at[steps] = n
  BY <1>0, <1>5
<1>7. Resolve(n) = IF at[steps] \in Known THEN at[steps] ELSE None
  BY DEF Resolve, at, steps
<1> QED BY <1>6, <1>7

\* typecheck_base_types of a defined type is membership in its path.
LEMMA TcIs ==
  ASSUME NEW path, Tree(path), NEW t \in Known, None \notin Known, IsFiniteSet(DOMAIN fwd), NEW e
  PROVE  Tc(e, t) <=> \E i \in 1 .. Len(path[t]) : e = path[t][i]
<1>1. Resolve(t) = t /\ Chain(t) = path[t] /\ t # None
  BY ResolveIs, ChainIs
<1>2. path[t] \in Seq(Known) /\ 1 \in 1 .. Len(path[t]) /\ path[t][1] = t
  BY Steps
<1>3. DOMAIN path[t] = 1 .. Len(path[t])
  BY <1>2
<1> QED BY <1>1, <1>2, <1>3 DEF Tc, ToSet

\* Two defined types have a lowest common ancestor, and lca_base finds it.
LEMMA LcaFound ==
  ASSUME NEW path, Tree(path), None \notin Known, IsFiniteSet(DOMAIN fwd),
         NEW a \in Known, NEW b \in Known
  PROVE  Lowest(a, b)
<1> DEFINE pa == Reverse(path[a])
           pb == Reverse(path[b])
           na == Len(path[a])
           nb == Len(path[b])
           agree == {i \in 1 .. Len(pa) : i <= Len(pb) /\ \A j \in 1 .. i : pa[j] = pb[j]}
           m == Max(agree)
<1>1. CASE a = b
  <2>1. LcaBase(a, b) = a
    BY <1>1 DEF LcaBase
  <2>2. Tc(a, a)
    BY DEF Tc
  <2> QED BY <1>1, <2>1, <2>2 DEF Lowest
<1>2. CASE a # b
  <2>1. /\ path[a] \in Seq(Known) /\ path[b] \in Seq(Known) /\ na \in Nat \ {0} /\ nb \in Nat \ {0}
        /\ Len(pa) = na /\ Len(pb) = nb
        /\ \A i \in 1 .. na : pa[i] = path[a][(na - i) + 1]
        /\ \A i \in 1 .. nb : pb[i] = path[b][(nb - i) + 1]
    <3>1. path[a] \in Seq(Known) /\ path[b] \in Seq(Known) /\ na \in Nat \ {0} /\ nb \in Nat \ {0}
      BY Steps
    <3>2. pa = [i \in 1 .. na |-> path[a][(na - i) + 1]] /\ pb = [i \in 1 .. nb |-> path[b][(nb - i) + 1]]
      BY DEF Reverse
    <3> HIDE DEF pa, pb
    <3> QED BY <3>1, <3>2
  <2>2. PathUpTree(a) = path[a] /\ PathUpTree(b) = path[b]
    <3>1. ASSUME NEW t \in Known PROVE PathUpTree(t) = path[t]
      <4>1. Resolve(t) = t /\ Chain(t) = path[t]
        BY ResolveIs, ChainIs
      <4>2. path[t] \in Seq(Known) /\ Len(path[t]) >= 1 /\ path[t][1] = t
        BY Steps
      <4>3. path[t] = <<t>> \o Tail(path[t])
        BY <4>2
      <4> QED BY <4>1, <4>3 DEF PathUpTree
    <3> QED BY <3>1
  <2>3. 1 \in agree
    <3>1. na \in 1 .. na /\ nb \in 1 .. nb /\ 1 \in 1 .. na /\ 1 \in 1 .. nb
          /\ (na - 1) + 1 = na /\ (nb - 1) + 1 = nb
      BY <2>1
    <3>2. path[a][na] = "object" /\ path[b][nb] = "object"
      BY <3>1, Climb
    <3>3. pa[1] = pb[1]
      BY <2>1, <3>1, <3>2
    <3>4. \A j \in 1 .. 1 : j = 1
      OBVIOUS
    <3> HIDE DEF pa, pb
    <3> QED BY <2>1, <3>1, <3>3, <3>4
  <2>4. agree \subseteq 1 .. na /\ agree # {}
    BY <2>1, <2>3
  <2>5. m \in agree /\ \A i \in agree : i <= m
    <3>1. m \in agree /\ \A i \in agree : m >= i
      <4> HIDE DEF agree
      <4> QED BY <2>1, <2>4, MaxIs
    <3> HIDE DEF m, pa, pb
    <3> QED BY <2>1, <2>4, <3>1
  <2>6. LcaBase(a, b) = pa[m]
    BY <1>2, <2>2, <2>3 DEF LcaBase
  <2> DEFINE l == pa[m]
  <2>7. /\ m \in 1 .. na /\ m \in 1 .. nb /\ pa[m] = pb[m]
        /\ (na - m) + 1 \in 1 .. na /\ l = path[a][(na - m) + 1]
        /\ (nb - m) + 1 \in 1 .. nb /\ l = path[b][(nb - m) + 1]
    <3> HIDE DEF m, pa, pb
    <3>1. m \in 1 .. na /\ m \in 1 .. nb /\ pa[m] = pb[m]
      BY <2>1, <2>5
    <3> HIDE DEF na, nb
    <3>2. na \in Nat /\ nb \in Nat
      BY <2>1
    <3>3. (na - m) + 1 \in 1 .. na /\ (nb - m) + 1 \in 1 .. nb
      BY <3>1, <3>2
    <3>4. pa[m] = path[a][(na - m) + 1] /\ pb[m] = path[b][(nb - m) + 1]
      BY <2>1, <3>1
    <3> QED BY <3>1, <3>3, <3>4
  <2> HIDE DEF l, m, agree
  <2>8. Tc(l, a) /\ Tc(l, b)
    BY <2>7, TcIs
  <2>9. ASSUME NEW c \in Known, Tc(c, a), Tc(c, b) PROVE Tc(c, l)
    <3>1. PICK i \in 1 .. na : c = path[a][i]
      BY <2>9, TcIs
    <3>2. PICK j \in 1 .. nb : c = path[b][j]
      BY <2>9, TcIs
    <3> DEFINE d == Len(path[c])
    <3>0. TailsArePaths(path, a) /\ TailsArePaths(path, b)
      BY Suffix
    <3>3. /\ d = na - i + 1 /\ \A k \in 1 .. na - i + 1 : path[c][k] = path[a][i + k - 1]
          /\ d = nb - j + 1 /\ \A k \in 1 .. nb - j + 1 : path[c][k] = path[b][j + k - 1]
      BY <3>0, <3>1, <3>2 DEF TailsArePaths
    <3> HIDE DEF d, na, nb
    <3>4. /\ na \in Nat /\ nb \in Nat /\ d \in 1 .. na /\ d \in 1 .. nb
          /\ i = (na - d) + 1 /\ j = (nb - d) + 1
      <4>1. na \in Nat /\ nb \in Nat
        BY <2>1
      <4>2. d = na - i + 1 /\ d = nb - j + 1
        BY <3>3
      <4> QED BY <4>1, <4>2
    <3>5. ASSUME NEW k \in 1 .. d PROVE pa[k] = pb[k]
      <4>1. /\ k \in 1 .. na /\ k \in 1 .. nb /\ (d - k) + 1 \in 1 .. d
            /\ i + ((d - k) + 1) - 1 = (na - k) + 1 /\ j + ((d - k) + 1) - 1 = (nb - k) + 1
        BY <3>4
      <4>2. path[c][(d - k) + 1] = path[a][(na - k) + 1] /\ path[c][(d - k) + 1] = path[b][(nb - k) + 1]
        <5>1. na - i + 1 = d /\ nb - j + 1 = d
          BY <3>3
        <5> QED BY <3>3, <4>1, <5>1
      <4> HIDE DEF pa, pb
      <4> QED BY <2>1, <4>1, <4>2
    <3>6. d \in agree
      <4> HIDE DEF pa, pb, d
      <4> QED BY <2>1, <3>4, <3>5 DEF agree
    <3>7. d <= m
      BY <2>5, <3>6
    <3> DEFINE r == (na - m) + 1
    <3>9. /\ l \in Known /\ Len(path[l]) = na - r + 1
          /\ \A k \in 1 .. na - r + 1 : path[l][k] = path[a][r + k - 1]
      BY <2>7, <3>0 DEF TailsArePaths, na
    <3> HIDE DEF l
    <3>10. (i - r) + 1 \in 1 .. na - r + 1 /\ r + ((i - r) + 1) - 1 = i
      <4>1. m \in 1 .. na
        BY <2>7
      <4> QED BY <3>4, <3>7, <4>1
    <3>11. c = path[l][(i - r) + 1] /\ (i - r) + 1 \in 1 .. Len(path[l])
      BY <3>1, <3>9, <3>10
    <3> QED BY <3>9, <3>11, TcIs
  <2> QED BY <2>6, <2>8, <2>9 DEF Lowest, l
<1> QED BY <1>1, <1>2

-----------------------------------------------------------------------------
(* Method tables. *)

\* A name is a string.  The provers do not know that the literals are.
Name == STRING \cup {None, "object", "structure", "basic", "integer", "uint8",
                     "delete", "print", "_type_", "type", "sid64"}

MethodRec == [id : Nat \ {0}, name : Name, sig : Name, over : BOOLEAN, doc : BOOLEAN, at : Name]

FieldRec == [name : Name, type : Name, off : Nat, size : Int, align : Nat \ {0},
             inl : BOOLEAN, kind : {"new", "overlay", "override"}]

TypeRec == [ok : BOOLEAN, name : Name, parent : Name, kind : {"value", "structure", "basic"},
            methods : Seq(MethodRec), new : Name, fields : Seq(FieldRec), size : Nat,
            body : Name, final : BOOLEAN]

LEMMA MinUnique ==
  ASSUME NEW T, T \subseteq Nat, NEW m \in T, \A y \in T : m <= y
  PROVE  Min(T) = m
<1>1. Min(T) \in T /\ Min(T) <= m
  BY MinIs
<1>2. m <= Min(T) /\ m \in Nat /\ Min(T) \in Nat
  BY <1>1
<1> QED BY <1>1, <1>2

\* The first method of a name.
LEMMA MineIs ==
  ASSUME NEW ty, ty.methods \in Seq(MethodRec), NEW n
  PROVE  /\ Mine(ty, n) \in 0 .. Len(ty.methods)
         /\ Mine(ty, n) # 0 => ty.methods[Mine(ty, n)].name = n
         /\ \A i \in 1 .. Len(ty.methods) : ty.methods[i].name = n => Mine(ty, n) # 0 /\ Mine(ty, n) <= i
<1> DEFINE I == {i \in 1 .. Len(ty.methods) : ty.methods[i].name = n}
<1>1. Mine(ty, n) = IF I # {} THEN Min(I) ELSE 0
  BY DEF Mine, SelectInSeq
<1>2. I \subseteq Nat /\ Len(ty.methods) \in Nat
  OBVIOUS
<1>3. CASE I = {}
  BY <1>1, <1>2, <1>3
<1>4. CASE I # {}
  <2>1. Min(I) \in I /\ \A y \in I : Min(I) <= y
    <3> HIDE DEF I
    <3> QED BY <1>2, <1>4, MinIs
  <2>2. Mine(ty, n) = Min(I)
    BY <1>1, <1>4
  <2>3. Mine(ty, n) \in 1 .. Len(ty.methods) /\ ty.methods[Mine(ty, n)].name = n
    BY <2>1, <2>2
  <2>4. \A i \in 1 .. Len(ty.methods) : ty.methods[i].name = n => Mine(ty, n) <= i
    BY <2>1, <2>2
  <2> HIDE DEF I
  <2>5. Mine(ty, n) \in 0 .. Len(ty.methods) /\ Mine(ty, n) # 0
    BY <1>2, <2>3
  <2> QED BY <2>3, <2>4, <2>5
<1> QED BY <1>3, <1>4

\* ty2 is ty with one more method, m: what its names find.
MineGrows(ty, ty2, m) ==
  \A n : Mine(ty2, n) = IF Mine(ty, n) # 0 THEN Mine(ty, n)
                        ELSE IF m.name = n THEN Len(ty.methods) + 1 ELSE 0

LEMMA MineAppend ==
  ASSUME NEW ty, NEW ty2, NEW m, ty.methods \in Seq(MethodRec), m \in MethodRec,
         ty2.methods = Append(ty.methods, m)
  PROVE  MineGrows(ty, ty2, m)
<1> SUFFICES ASSUME NEW n
             PROVE  Mine(ty2, n) = IF Mine(ty, n) # 0 THEN Mine(ty, n)
                                   ELSE IF m.name = n THEN Len(ty.methods) + 1 ELSE 0
  BY DEF MineGrows
<1> DEFINE k == Len(ty.methods)
           x == Mine(ty, n)
           y == Mine(ty2, n)
<1>1. /\ k \in Nat /\ Len(ty2.methods) = k + 1 /\ ty2.methods[k + 1] = m
      /\ \A i \in 1 .. k : ty2.methods[i] = ty.methods[i]
      /\ ty2.methods \in Seq(MethodRec)
  OBVIOUS
<1>2. /\ x \in 0 .. k
      /\ x # 0 => ty.methods[x].name = n
      /\ \A i \in 1 .. k : ty.methods[i].name = n => x # 0 /\ x <= i
  BY MineIs
<1>3. /\ y \in 0 .. k + 1
      /\ y # 0 => ty2.methods[y].name = n
      /\ \A i \in 1 .. k + 1 : ty2.methods[i].name = n => y # 0 /\ y <= i
  BY <1>1, MineIs
<1> HIDE DEF k, x, y
<1>4. CASE x # 0
  <2>1. x \in 1 .. k /\ x \in 1 .. k + 1 /\ ty2.methods[x].name = n
    BY <1>1, <1>2, <1>4
  <2>2. y # 0 /\ y <= x
    BY <1>3, <2>1
  <2>3. y \in 1 .. k
    BY <1>1, <1>3, <2>1, <2>2
  <2>4. ty.methods[y].name = n
    BY <1>1, <1>3, <2>2, <2>3
  <2>5. x <= y
    BY <1>2, <2>3, <2>4
  <2> QED BY <1>1, <1>4, <2>1, <2>2, <2>3, <2>5 DEF x, y
<1>5. CASE x = 0 /\ m.name = n
  <2>1. y # 0 /\ y <= k + 1
    BY <1>1, <1>3, <1>5
  <2>2. ~ (y \in 1 .. k)
    BY <1>1, <1>2, <1>3, <1>5, <2>1
  <2>3. y = k + 1
    BY <1>1, <1>3, <2>1, <2>2
  <2> QED BY <1>5, <2>3 DEF x, y, k
<1>6. CASE x = 0 /\ m.name # n
  <2>1. ~ (y \in 1 .. k)
    BY <1>1, <1>2, <1>3, <1>6
  <2>2. y # k + 1
    BY <1>1, <1>3, <1>6
  <2>3. y = 0
    BY <1>1, <1>3, <2>1, <2>2
  <2> QED BY <1>6, <2>3 DEF x, y
<1> QED BY <1>4, <1>5, <1>6

\* The last primary method.
LEMMA LastIs ==
  ASSUME NEW ty, ty.methods \in Seq(MethodRec)
  PROVE  /\ MyLast(ty) \in 0 .. Len(ty.methods)
         /\ MyLast(ty) # 0 => Primary(ty.methods[MyLast(ty)])
         /\ \A i \in 1 .. Len(ty.methods) : Primary(ty.methods[i]) => MyLast(ty) # 0 /\ i <= MyLast(ty)
<1> DEFINE I == {i \in 1 .. Len(ty.methods) : Primary(ty.methods[i])}
<1>1. MyLast(ty) = IF I # {} THEN Max(I) ELSE 0
  BY DEF MyLast, SelectLastInSeq
<1>2. I \subseteq 1 .. Len(ty.methods) /\ Len(ty.methods) \in Nat
  OBVIOUS
<1>3. CASE I = {}
  BY <1>1, <1>2, <1>3
<1>4. CASE I # {}
  <2>1. Max(I) \in I /\ \A y \in I : Max(I) >= y
    <3> HIDE DEF I
    <3> QED BY <1>2, <1>4, MaxIs
  <2> QED BY <1>1, <1>2, <1>4, <2>1
<1> QED BY <1>3, <1>4

LEMMA LastAppend ==
  ASSUME NEW ty, NEW ty2, NEW m, ty.methods \in Seq(MethodRec), m \in MethodRec,
         ty2.methods = Append(ty.methods, m)
  PROVE  MyLast(ty2) = IF Primary(m) THEN Len(ty.methods) + 1 ELSE MyLast(ty)
<1> DEFINE k == Len(ty.methods)
           x == MyLast(ty)
           y == MyLast(ty2)
<1>1. /\ k \in Nat /\ Len(ty2.methods) = k + 1 /\ ty2.methods[k + 1] = m
      /\ \A i \in 1 .. k : ty2.methods[i] = ty.methods[i]
      /\ ty2.methods \in Seq(MethodRec)
  OBVIOUS
<1>2. /\ x \in 0 .. k
      /\ x # 0 => Primary(ty.methods[x])
      /\ \A i \in 1 .. k : Primary(ty.methods[i]) => x # 0 /\ i <= x
  BY LastIs
<1>3. /\ y \in 0 .. k + 1
      /\ y # 0 => Primary(ty2.methods[y])
      /\ \A i \in 1 .. k + 1 : Primary(ty2.methods[i]) => y # 0 /\ i <= y
  BY <1>1, LastIs
<1> HIDE DEF k, x, y
<1>4. CASE Primary(m)
  <2>1. k + 1 <= y
    BY <1>1, <1>3, <1>4
  <2>2. y = k + 1
    BY <1>1, <1>3, <2>1
  <2> QED BY <1>4, <2>2 DEF k, y
<1>5. CASE ~Primary(m) /\ x # 0
  <2>1. x \in 1 .. k /\ x \in 1 .. k + 1 /\ Primary(ty2.methods[x])
    BY <1>1, <1>2, <1>5
  <2>2. y # 0 /\ x <= y
    BY <1>3, <2>1
  <2>3. y # k + 1
    BY <1>1, <1>3, <1>5
  <2>4. y \in 1 .. k
    BY <1>1, <1>3, <2>2, <2>3
  <2>5. Primary(ty.methods[y])
    BY <1>1, <1>3, <2>2, <2>4
  <2>6. y <= x
    BY <1>2, <2>4, <2>5
  <2> QED BY <1>1, <1>5, <2>1, <2>2, <2>4, <2>6 DEF x, y
<1>6. CASE ~Primary(m) /\ x = 0
  <2>1. ~ (y \in 1 .. k)
    BY <1>1, <1>2, <1>3, <1>6
  <2>2. y # k + 1
    BY <1>1, <1>3, <1>6
  <2>3. y = 0
    BY <1>1, <1>3, <2>1, <2>2
  <2> QED BY <1>6, <2>3 DEF x, y
<1> QED BY <1>4, <1>5, <1>6

-----------------------------------------------------------------------------
(* A type on top of its ancestors. *)

LEMMA OnTop ==
  ASSUME NEW ty, NEW A \in Seq(TypeRec)
  PROVE  /\ Len(<<ty>> \o A) = Len(A) + 1 /\ Len(A) \in Nat /\ (<<ty>> \o A)[1] = ty
         /\ DOMAIN A = 1 .. Len(A) /\ DOMAIN (<<ty>> \o A) = 1 .. Len(A) + 1
         /\ \A i \in 1 .. Len(A) : (<<ty>> \o A)[i + 1] = A[i]
OBVIOUS

\* Which of a type and its ancestors is the first of some kind.
LEMMA FirstCons ==
  ASSUME NEW n \in Nat, NEW I, NEW J, I \subseteq 1 .. n, J \subseteq 1 .. n + 1,
         \A i \in 1 .. n : i \in I <=> i + 1 \in J
  PROVE  /\ 1 \in J => J # {} /\ Min(J) = 1
         /\ 1 \notin J => (J = {} <=> I = {})
         /\ 1 \notin J /\ I # {} => Min(I) \in 1 .. n /\ Min(J) = Min(I) + 1
<1>1. I \subseteq Nat /\ J \subseteq Nat
  OBVIOUS
<1>2. ASSUME 1 \in J PROVE J # {} /\ Min(J) = 1
  <2>1. \A y \in J : 1 <= y
    OBVIOUS
  <2> QED BY <1>1, <1>2, <2>1, MinUnique
<1>3. ASSUME 1 \notin J, NEW j \in J PROVE j - 1 \in I /\ j - 1 \in 1 .. n
  <2>1. j \in 1 .. n + 1 /\ j # 1
    BY <1>3
  <2>2. j - 1 \in 1 .. n /\ (j - 1) + 1 = j
    BY <2>1
  <2> QED BY <2>2
<1>4. \A i \in I : i + 1 \in J
  OBVIOUS
<1>5. ASSUME 1 \notin J, I # {} PROVE Min(I) \in 1 .. n /\ Min(J) = Min(I) + 1
  <2>1. Min(I) \in I /\ \A y \in I : Min(I) <= y
    BY <1>1, <1>5, MinIs
  <2>2. Min(I) \in 1 .. n /\ Min(I) + 1 \in J
    BY <1>4, <2>1
  <2>3. ASSUME NEW j \in J PROVE Min(I) + 1 <= j
    <3>1. j - 1 \in I /\ j \in Nat
      BY <1>1, <1>3, <1>5
    <3>2. Min(I) <= j - 1
      BY <2>1, <3>1
    <3> QED BY <2>2, <3>1, <3>2
  <2> QED BY <1>1, <2>2, <2>3, MinUnique
<1> QED BY <1>2, <1>3, <1>4, <1>5

LEMMA LookupCons ==
  ASSUME NEW ty, NEW A \in Seq(TypeRec), NEW n
  PROVE  /\ Found(<<ty>> \o A, n) <=> Mine(ty, n) # 0 \/ Found(A, n)
         /\ TryLookup(<<ty>> \o A, n) = IF Mine(ty, n) # 0 THEN ty.methods[Mine(ty, n)]
                                        ELSE TryLookup(A, n)
<1> DEFINE L == <<ty>> \o A
           I == {i \in 1 .. Len(A) : Mine(A[i], n) # 0}
           J == {i \in 1 .. Len(L) : Mine(L[i], n) # 0}
<1>1. /\ Len(L) = Len(A) + 1 /\ Len(A) \in Nat /\ L[1] = ty
      /\ DOMAIN A = 1 .. Len(A) /\ DOMAIN L = 1 .. Len(A) + 1
      /\ \A i \in 1 .. Len(A) : L[i + 1] = A[i]
  BY OnTop
<1>2. TryLookup(L, n) = IF (IF J # {} THEN Min(J) ELSE 0) = 0 THEN None
                        ELSE LET i == IF J # {} THEN Min(J) ELSE 0 IN L[i].methods[Mine(L[i], n)]
  BY DEF TryLookup, SelectInSeq
<1>3. TryLookup(A, n) = IF (IF I # {} THEN Min(I) ELSE 0) = 0 THEN None
                        ELSE LET i == IF I # {} THEN Min(I) ELSE 0 IN A[i].methods[Mine(A[i], n)]
  BY DEF TryLookup, SelectInSeq
<1>4. (Found(L, n) <=> J # {}) /\ (Found(A, n) <=> I # {})
  BY <1>1 DEF Found
<1> HIDE DEF L
<1>5. I \subseteq 1 .. Len(A) /\ J \subseteq 1 .. Len(A) + 1 /\ (1 \in J <=> Mine(ty, n) # 0)
  BY <1>1
<1>6. ASSUME NEW i \in 1 .. Len(A) PROVE i \in I <=> i + 1 \in J
  <2>1. i + 1 \in 1 .. Len(L) /\ L[i + 1] = A[i]
    BY <1>1
  <2> QED BY <2>1
<1> HIDE DEF I, J
<1>7. /\ 1 \in J => J # {} /\ Min(J) = 1
      /\ 1 \notin J => (J = {} <=> I = {})
      /\ 1 \notin J /\ I # {} => Min(I) \in 1 .. Len(A) /\ Min(J) = Min(I) + 1
  BY <1>1, <1>5, <1>6, FirstCons
<1>8. CASE Mine(ty, n) # 0
  BY <1>1, <1>2, <1>4, <1>5, <1>7, <1>8 DEF L
<1>9. CASE Mine(ty, n) = 0 /\ I = {}
  BY <1>2, <1>3, <1>4, <1>5, <1>7, <1>9 DEF L
<1>10. CASE Mine(ty, n) = 0 /\ I # {}
  <2>1. J # {} /\ Min(I) \in 1 .. Len(A) /\ Min(J) = Min(I) + 1
    BY <1>5, <1>7, <1>10
  <2>2. L[Min(J)] = A[Min(I)] /\ Min(I) # 0 /\ Min(J) # 0
    BY <1>1, <2>1
  <2> QED BY <1>2, <1>3, <1>4, <1>10, <2>1, <2>2 DEF L
<1> QED BY <1>8, <1>9, <1>10

LEMMA NextCons ==
  ASSUME NEW ty, NEW A \in Seq(TypeRec)
  PROVE  NextMethodId(<<ty>> \o A) = IF MyLast(ty) # 0 THEN ty.methods[MyLast(ty)].id + 1
                                     ELSE NextMethodId(A)
<1> DEFINE L == <<ty>> \o A
           I == {i \in 1 .. Len(A) : MyLast(A[i]) # 0}
           J == {i \in 1 .. Len(L) : MyLast(L[i]) # 0}
<1>1. /\ Len(L) = Len(A) + 1 /\ Len(A) \in Nat /\ L[1] = ty
      /\ \A i \in 1 .. Len(A) : L[i + 1] = A[i]
  BY OnTop
<1>2. NextMethodId(L) = IF (IF J # {} THEN Min(J) ELSE 0) = 0 THEN 1
                        ELSE LET i == IF J # {} THEN Min(J) ELSE 0 IN L[i].methods[MyLast(L[i])].id + 1
  BY DEF NextMethodId, SelectInSeq
<1>3. NextMethodId(A) = IF (IF I # {} THEN Min(I) ELSE 0) = 0 THEN 1
                        ELSE LET i == IF I # {} THEN Min(I) ELSE 0 IN A[i].methods[MyLast(A[i])].id + 1
  BY DEF NextMethodId, SelectInSeq
<1> HIDE DEF L
<1>5. I \subseteq 1 .. Len(A) /\ J \subseteq 1 .. Len(A) + 1 /\ (1 \in J <=> MyLast(ty) # 0)
  BY <1>1
<1>6. ASSUME NEW i \in 1 .. Len(A) PROVE i \in I <=> i + 1 \in J
  <2>1. i + 1 \in 1 .. Len(L) /\ L[i + 1] = A[i]
    BY <1>1
  <2> QED BY <2>1
<1> HIDE DEF I, J
<1>7. /\ 1 \in J => J # {} /\ Min(J) = 1
      /\ 1 \notin J => (J = {} <=> I = {})
      /\ 1 \notin J /\ I # {} => Min(I) \in 1 .. Len(A) /\ Min(J) = Min(I) + 1
  BY <1>1, <1>5, <1>6, FirstCons
<1>8. CASE MyLast(ty) # 0
  BY <1>1, <1>2, <1>5, <1>7, <1>8 DEF L
<1>9. CASE MyLast(ty) = 0 /\ I = {}
  BY <1>2, <1>3, <1>5, <1>7, <1>9 DEF L
<1>10. CASE MyLast(ty) = 0 /\ I # {}
  <2>1. J # {} /\ Min(I) \in 1 .. Len(A) /\ Min(J) = Min(I) + 1
    BY <1>5, <1>7, <1>10
  <2>2. L[Min(J)] = A[Min(I)] /\ Min(I) # 0 /\ Min(J) # 0
    BY <1>1, <2>1
  <2> QED BY <1>2, <1>3, <1>10, <2>1, <2>2 DEF L
<1> QED BY <1>8, <1>9, <1>10

-----------------------------------------------------------------------------
(* Slots. *)

\* The methods that were given a slot of their own.
OwnSlots(ty) == {m \in MethodRec : Primary(m) /\ \E j \in DOMAIN ty.methods : m = ty.methods[j]}
Slots(L)     == {m \in MethodRec : \E i \in DOMAIN L : m \in OwnSlots(L[i])}

OverIn(L, n) == \E i \in DOMAIN L : OverlaidIn(L[i], n)

\* A type and its ancestors: the next slot is free, no slot was given to two names,
\* and a name that nobody overlaid is looked up at the slot it was given.
Numbered(L) ==
  /\ L \in Seq(TypeRec)
  /\ NextMethodId(L) \in Nat \ {0} /\ \A m \in Slots(L) : m.id < NextMethodId(L)
  /\ \A m, n \in Slots(L) : m.id = n.id => m.name = n.name
  /\ \A n \in Name : Found(L, n) =>
       /\ TryLookup(L, n) \in MethodRec /\ TryLookup(L, n).name = n
       /\ OverIn(L, n) \/ \E m \in Slots(L) : m.name = n /\ m.id = TryLookup(L, n).id

\* A type and its ancestors A: a name that A has, and the type did not overlay, has
\* the slot it has in A.
Agrees(ty, A) ==
  \A n \in Name : Found(A, n) /\ ~OverlaidIn(ty, n) =>
    \A j \in DOMAIN ty.methods : ty.methods[j].name = n => ty.methods[j].id = TryLookup(A, n).id

LEMMA SlotsCons ==
  ASSUME NEW ty, NEW A \in Seq(TypeRec)
  PROVE  /\ Slots(<<ty>> \o A) = OwnSlots(ty) \cup Slots(A)
         /\ \A n : OverIn(<<ty>> \o A, n) <=> OverlaidIn(ty, n) \/ OverIn(A, n)
<1> DEFINE L == <<ty>> \o A
<1>1. /\ Len(A) \in Nat /\ L[1] = ty
      /\ DOMAIN A = 1 .. Len(A) /\ DOMAIN L = 1 .. Len(A) + 1
      /\ \A i \in 1 .. Len(A) : L[i + 1] = A[i]
  BY OnTop
<1>2. \A i \in 1 .. Len(A) : i + 1 \in DOMAIN L /\ 1 \in DOMAIN L
  BY <1>1
<1>3. \A i \in DOMAIN L : i = 1 \/ (i - 1 \in DOMAIN A /\ L[i] = A[i - 1])
  <2> SUFFICES ASSUME NEW i \in DOMAIN L, i # 1 PROVE i - 1 \in DOMAIN A /\ L[i] = A[i - 1]
    OBVIOUS
  <2>1. i - 1 \in 1 .. Len(A) /\ (i - 1) + 1 = i
    BY <1>1
  <2> HIDE DEF L
  <2> QED BY <1>1, <2>1
<1>4. 1 \in DOMAIN L
  BY <1>1
<1> HIDE DEF L
<1>5. Slots(L) = OwnSlots(ty) \cup Slots(A)
  <2>1. ASSUME NEW m \in Slots(L) PROVE m \in OwnSlots(ty) \cup Slots(A)
    BY <1>1, <1>3 DEF Slots, OwnSlots
  <2>2. ASSUME NEW m \in OwnSlots(ty) PROVE m \in Slots(L)
    BY <1>1, <1>4 DEF Slots, OwnSlots
  <2>3. ASSUME NEW m \in Slots(A) PROVE m \in Slots(L)
    BY <1>1, <1>2 DEF Slots
  <2> QED BY <2>1, <2>2, <2>3
<1>6. ASSUME NEW n PROVE OverIn(L, n) <=> OverlaidIn(ty, n) \/ OverIn(A, n)
  BY <1>1, <1>2, <1>3, <1>4 DEF OverIn
<1> QED BY <1>5, <1>6 DEF L

LEMMA OwnAppend ==
  ASSUME NEW ty, NEW ty2, NEW m, ty.methods \in Seq(MethodRec), m \in MethodRec,
         ty2.methods = Append(ty.methods, m)
  PROVE  /\ OwnSlots(ty2) = OwnSlots(ty) \cup (IF Primary(m) THEN {m} ELSE {})
         /\ \A n : OverlaidIn(ty2, n) <=> OverlaidIn(ty, n) \/ (m.name = n /\ m.at # None)
<1> DEFINE k == Len(ty.methods)
<1>1. /\ k \in Nat /\ DOMAIN ty.methods = 1 .. k /\ DOMAIN ty2.methods = 1 .. k + 1
      /\ ty2.methods[k + 1] = m /\ \A i \in 1 .. k : ty2.methods[i] = ty.methods[i]
  OBVIOUS
<1> HIDE DEF k
<1>2. \A i \in 1 .. k : i \in 1 .. k + 1
  BY <1>1
<1>3. \A i \in 1 .. k + 1 : i \in 1 .. k \/ i = k + 1
  BY <1>1
<1>4. k + 1 \in 1 .. k + 1
  BY <1>1
<1>5. OwnSlots(ty2) = OwnSlots(ty) \cup (IF Primary(m) THEN {m} ELSE {})
  <2>1. ASSUME NEW x \in OwnSlots(ty2) PROVE x \in OwnSlots(ty) \/ (Primary(m) /\ x = m)
    BY <1>1, <1>3 DEF OwnSlots
  <2>2. ASSUME NEW x \in OwnSlots(ty) PROVE x \in OwnSlots(ty2)
    BY <1>1, <1>2 DEF OwnSlots
  <2>3. ASSUME Primary(m) PROVE m \in OwnSlots(ty2)
    BY <1>1, <1>4, <2>3 DEF OwnSlots
  <2> QED BY <2>1, <2>2, <2>3
<1>6. ASSUME NEW n PROVE OverlaidIn(ty2, n) <=> OverlaidIn(ty, n) \/ (m.name = n /\ m.at # None)
  <2>1. ASSUME OverlaidIn(ty2, n) PROVE OverlaidIn(ty, n) \/ (m.name = n /\ m.at # None)
    BY <1>1, <1>3, <2>1 DEF OverlaidIn
  <2>2. ASSUME OverlaidIn(ty, n) PROVE OverlaidIn(ty2, n)
    BY <1>1, <1>2, <2>2 DEF OverlaidIn
  <2>3. ASSUME m.name = n /\ m.at # None PROVE OverlaidIn(ty2, n)
    BY <1>1, <1>4, <2>3 DEF OverlaidIn
  <2> QED BY <2>1, <2>2, <2>3
<1> QED BY <1>5, <1>6

\* A type that has just been made, with no method yet.
LEMMA NumberedFresh ==
  ASSUME NEW A, Numbered(A), NEW ty \in TypeRec, ty.methods = <<>>
  PROVE  Numbered(<<ty>> \o A) /\ Agrees(ty, A)
<1> DEFINE L == <<ty>> \o A
<1>1. A \in Seq(TypeRec) /\ L \in Seq(TypeRec)
  BY DEF Numbered
<1>2. OwnSlots(ty) = {} /\ \A n : ~OverlaidIn(ty, n)
  BY DEF OwnSlots, OverlaidIn
<1>3. MyLast(ty) = 0 /\ \A n : Mine(ty, n) = 0
  BY DEF MyLast, Mine, SelectInSeq, SelectLastInSeq
<1>4. NextMethodId(L) = NextMethodId(A) /\ Slots(L) = Slots(A)
  BY <1>1, <1>2, <1>3, NextCons, SlotsCons
<1>5. \A n : /\ OverIn(L, n) <=> OverIn(A, n)
             /\ Found(L, n) <=> Found(A, n)
             /\ TryLookup(L, n) = TryLookup(A, n)
  <2> SUFFICES ASSUME NEW n PROVE /\ OverIn(L, n) <=> OverIn(A, n)
                                  /\ Found(L, n) <=> Found(A, n)
                                  /\ TryLookup(L, n) = TryLookup(A, n)
    OBVIOUS
  <2>1. OverIn(L, n) <=> OverIn(A, n)
    BY <1>1, <1>2, SlotsCons
  <2>2. (Found(L, n) <=> Found(A, n)) /\ TryLookup(L, n) = TryLookup(A, n)
    BY <1>1, <1>3, LookupCons
  <2> QED BY <2>1, <2>2
<1> HIDE DEF L
<1>6. Numbered(L)
  BY <1>1, <1>4, <1>5 DEF Numbered
<1>7. Agrees(ty, A)
  BY DEF Agrees
<1> QED BY <1>6, <1>7 DEF L

\* Only the methods count.
LEMMA NumberedSame ==
  ASSUME NEW A \in Seq(TypeRec), NEW ty \in TypeRec, NEW ty2 \in TypeRec, ty2.methods = ty.methods,
         Numbered(<<ty>> \o A), Agrees(ty, A)
  PROVE  Numbered(<<ty2>> \o A) /\ Agrees(ty2, A)
<1> DEFINE L == <<ty>> \o A
           L2 == <<ty2>> \o A
<1>1. L2 \in Seq(TypeRec)
  OBVIOUS
<1>2. OwnSlots(ty2) = OwnSlots(ty) /\ \A n : OverlaidIn(ty2, n) <=> OverlaidIn(ty, n)
  BY DEF OwnSlots, OverlaidIn
<1>3. MyLast(ty2) = MyLast(ty) /\ \A n : Mine(ty2, n) = Mine(ty, n)
  BY DEF MyLast, Mine, SelectInSeq, SelectLastInSeq
<1>4. NextMethodId(L2) = NextMethodId(L) /\ Slots(L2) = Slots(L)
  BY <1>2, <1>3, NextCons, SlotsCons
<1>5. \A n : /\ OverIn(L2, n) <=> OverIn(L, n)
             /\ Found(L2, n) <=> Found(L, n)
             /\ TryLookup(L2, n) = TryLookup(L, n)
  <2> SUFFICES ASSUME NEW n PROVE /\ OverIn(L2, n) <=> OverIn(L, n)
                                  /\ Found(L2, n) <=> Found(L, n)
                                  /\ TryLookup(L2, n) = TryLookup(L, n)
    OBVIOUS
  <2>1. OverIn(L2, n) <=> OverIn(L, n)
    BY <1>2, SlotsCons
  <2>2. (Found(L2, n) <=> Found(L, n)) /\ TryLookup(L2, n) = TryLookup(L, n)
    BY <1>3, LookupCons
  <2> QED BY <2>1, <2>2
<1>0. Numbered(L)
  OBVIOUS
<1> HIDE DEF L, L2
<1>6. Numbered(L2)
  BY <1>0, <1>1, <1>4, <1>5 DEF Numbered
<1>7. Agrees(ty2, A)
  BY <1>2 DEF Agrees
<1> QED BY <1>6, <1>7 DEF L2

\* The methods that a step of :methods may add to a type with ancestors A.
NewSlot(ty, A, m)  == /\ Primary(m) /\ m.at = None /\ ~Found(<<ty>> \o A, m.name)
                      /\ m.id = NextMethodId(<<ty>> \o A)
SameSlot(ty, A, m) == /\ ~Primary(m) /\ Found(<<ty>> \o A, m.name)
                      /\ m.id = TryLookup(<<ty>> \o A, m.name).id
Overlay(m)         == ~Primary(m) /\ m.at # None
Inherited(A, m)    == ~Primary(m) /\ Found(A, m.name) /\ m.id = TryLookup(A, m.name).id

LEMMA NumberedAdd ==
  ASSUME NEW A \in Seq(TypeRec), NEW ty \in TypeRec, NEW m \in MethodRec, NEW ty2 \in TypeRec,
         ty2.methods = Append(ty.methods, m), Numbered(<<ty>> \o A), Agrees(ty, A),
         NewSlot(ty, A, m) \/ SameSlot(ty, A, m) \/ Overlay(m) \/ Inherited(A, m)
  PROVE  Numbered(<<ty2>> \o A) /\ Agrees(ty2, A)
<1> DEFINE L == <<ty>> \o A
           L2 == <<ty2>> \o A
           k == Len(ty.methods)
<1>1. /\ L2 \in Seq(TypeRec) /\ ty.methods \in Seq(MethodRec) /\ k \in Nat
      /\ DOMAIN ty.methods = 1 .. k /\ DOMAIN ty2.methods = 1 .. k + 1
      /\ ty2.methods[k + 1] = m /\ \A i \in 1 .. k : ty2.methods[i] = ty.methods[i]
      /\ m.name \in Name /\ m.id \in Nat \ {0}
  BY DEF TypeRec, MethodRec
<1>2. /\ OwnSlots(ty2) = OwnSlots(ty) \cup (IF Primary(m) THEN {m} ELSE {})
      /\ \A n : OverlaidIn(ty2, n) <=> OverlaidIn(ty, n) \/ (m.name = n /\ m.at # None)
  <2> HIDE DEF k
  <2>1. ty.methods \in Seq(MethodRec) /\ m \in MethodRec /\ ty2.methods = Append(ty.methods, m)
    BY <1>1
  <2> QED BY <2>1, OwnAppend, Zenon
<1>3. /\ Slots(L2) = Slots(L) \cup (IF Primary(m) THEN {m} ELSE {})
      /\ \A n : OverIn(L2, n) <=> OverIn(L, n) \/ (m.name = n /\ m.at # None)
  <2>1. Slots(L2) = OwnSlots(ty2) \cup Slots(A) /\ Slots(L) = OwnSlots(ty) \cup Slots(A)
    BY SlotsCons
  <2>2. \A n : /\ OverIn(L2, n) <=> OverlaidIn(ty2, n) \/ OverIn(A, n)
               /\ OverIn(L, n) <=> OverlaidIn(ty, n) \/ OverIn(A, n)
    BY SlotsCons
  <2> QED BY <1>2, <2>1, <2>2
<1>4. NextMethodId(L2) = IF Primary(m) THEN m.id + 1 ELSE NextMethodId(L)
  <2>1. MyLast(ty2) = IF Primary(m) THEN k + 1 ELSE MyLast(ty)
    BY <1>1, LastAppend
  <2>2. MyLast(ty) \in 0 .. k
    BY <1>1, LastIs
  <2>3. NextMethodId(L2) = IF MyLast(ty2) # 0 THEN ty2.methods[MyLast(ty2)].id + 1 ELSE NextMethodId(A)
    BY NextCons
  <2>4. NextMethodId(L) = IF MyLast(ty) # 0 THEN ty.methods[MyLast(ty)].id + 1 ELSE NextMethodId(A)
    BY NextCons
  <2> HIDE DEF k, L, L2
  <2>5. CASE Primary(m)
    <3>1. MyLast(ty2) = k + 1 /\ k + 1 # 0
      BY <1>1, <2>1, <2>5
    <3> QED BY <1>1, <2>3, <2>5, <3>1
  <2>6. CASE ~Primary(m) /\ MyLast(ty) # 0
    <3>1. MyLast(ty) \in 1 .. k /\ MyLast(ty2) = MyLast(ty)
      BY <1>1, <2>1, <2>2, <2>6
    <3> QED BY <1>1, <2>3, <2>4, <2>6, <3>1
  <2>7. CASE ~Primary(m) /\ MyLast(ty) = 0
    BY <2>1, <2>3, <2>4, <2>7
  <2> QED BY <2>5, <2>6, <2>7
<1>5. ASSUME NEW n
      PROVE  /\ Found(L2, n) <=> Found(L, n) \/ m.name = n
             /\ TryLookup(L2, n) = IF Mine(ty, n) = 0 /\ m.name = n THEN m ELSE TryLookup(L, n)
  <2>1. Mine(ty2, n) = IF Mine(ty, n) # 0 THEN Mine(ty, n) ELSE IF m.name = n THEN k + 1 ELSE 0
    <3>1. ty.methods \in Seq(MethodRec) /\ m \in MethodRec /\ ty2.methods = Append(ty.methods, m)
      BY <1>1
    <3>2. MineGrows(ty, ty2, m)
      BY <3>1, MineAppend, Zenon
    <3> QED BY <3>2 DEF MineGrows
  <2>2. Mine(ty, n) \in 0 .. k
    BY <1>1, MineIs
  <2>3. /\ Found(L2, n) <=> Mine(ty2, n) # 0 \/ Found(A, n)
        /\ TryLookup(L2, n) = IF Mine(ty2, n) # 0 THEN ty2.methods[Mine(ty2, n)] ELSE TryLookup(A, n)
    BY LookupCons
  <2>4. /\ Found(L, n) <=> Mine(ty, n) # 0 \/ Found(A, n)
        /\ TryLookup(L, n) = IF Mine(ty, n) # 0 THEN ty.methods[Mine(ty, n)] ELSE TryLookup(A, n)
    BY LookupCons
  <2> HIDE DEF k, L, L2
  <2>5. CASE Mine(ty, n) # 0
    <3>1. Mine(ty, n) \in 1 .. k /\ Mine(ty2, n) = Mine(ty, n)
      BY <1>1, <2>1, <2>2, <2>5
    <3> QED BY <1>1, <2>3, <2>4, <2>5, <3>1
  <2>6. CASE Mine(ty, n) = 0 /\ m.name = n
    <3>1. Mine(ty2, n) = k + 1 /\ k + 1 # 0
      BY <1>1, <2>1, <2>6
    <3> QED BY <1>1, <2>3, <2>4, <2>6, <3>1
  <2>7. CASE Mine(ty, n) = 0 /\ m.name # n
    BY <2>1, <2>3, <2>4, <2>7
  <2> QED BY <2>5, <2>6, <2>7
<1>6. \A n : /\ Found(L, n) <=> Mine(ty, n) # 0 \/ Found(A, n)
             /\ TryLookup(L, n) = IF Mine(ty, n) # 0 THEN ty.methods[Mine(ty, n)] ELSE TryLookup(A, n)
  BY LookupCons
<1>7. Numbered(L) /\ (NewSlot(ty, A, m) => ~Found(L, m.name) /\ m.id = NextMethodId(L))
      /\ (SameSlot(ty, A, m) => Found(L, m.name) /\ m.id = TryLookup(L, m.name).id)
  BY DEF NewSlot, SameSlot
<1> HIDE DEF L, L2, k
<1>8. Numbered(L2)
  <2>1. NextMethodId(L2) \in Nat \ {0} /\ \A x \in Slots(L2) : x.id < NextMethodId(L2)
    <3>1. /\ NextMethodId(L) \in Nat \ {0} /\ \A x \in Slots(L) : x.id < NextMethodId(L)
          /\ Slots(L) \subseteq MethodRec
      BY <1>7 DEF Numbered, Slots
    <3>2. CASE Primary(m)
      <4>1. m.id = NextMethodId(L) /\ NextMethodId(L2) = m.id + 1
        BY <1>4, <1>7, <3>2 DEF SameSlot, Overlay, Inherited
      <4>2. ASSUME NEW x \in Slots(L2) PROVE x.id < NextMethodId(L2)
        <5>1. x = m \/ (x \in Slots(L) /\ x \in MethodRec)
          BY <1>3, <3>1, <3>2
        <5>2. CASE x = m
          BY <3>1, <4>1, <5>2
        <5>3. CASE x \in Slots(L) /\ x \in MethodRec
          <6>1. x.id < NextMethodId(L) /\ x.id \in Nat
            BY <3>1, <5>3 DEF MethodRec
          <6> QED BY <3>1, <4>1, <6>1
        <5> QED BY <5>1, <5>2, <5>3
      <4> QED BY <3>1, <4>1, <4>2
    <3>3. CASE ~Primary(m)
      BY <1>3, <1>4, <3>1, <3>3
    <3> QED BY <3>2, <3>3
  <2>2. ASSUME NEW x \in Slots(L2), NEW y \in Slots(L2), x.id = y.id PROVE x.name = y.name
    <3>1. /\ NextMethodId(L) \in Nat \ {0} /\ \A z \in Slots(L) : z.id < NextMethodId(L)
          /\ \A z \in Slots(L) : z.id \in Nat
          /\ \A u, v \in Slots(L) : u.id = v.id => u.name = v.name
      BY <1>7 DEF Numbered, Slots, MethodRec
    <3>2. CASE Primary(m)
      <4>1. m.id = NextMethodId(L)
        BY <1>7, <3>2 DEF SameSlot, Overlay, Inherited
      <4>2. (x = m \/ x \in Slots(L)) /\ (y = m \/ y \in Slots(L))
        BY <1>3, <3>2
      <4>3. \A z \in Slots(L) : z.id # m.id
        BY <3>1, <4>1
      <4> QED BY <2>2, <3>1, <4>2, <4>3
    <3>3. CASE ~Primary(m)
      BY <1>3, <2>2, <3>1, <3>3
    <3> QED BY <3>2, <3>3
  <2>3. ASSUME NEW n \in Name, Found(L2, n)
        PROVE  /\ TryLookup(L2, n) \in MethodRec /\ TryLookup(L2, n).name = n
               /\ OverIn(L2, n) \/ \E x \in Slots(L2) : x.name = n /\ x.id = TryLookup(L2, n).id
    <3>1. Found(L, n) => /\ TryLookup(L, n) \in MethodRec /\ TryLookup(L, n).name = n
                         /\ OverIn(L, n) \/ \E x \in Slots(L) : x.name = n /\ x.id = TryLookup(L, n).id
      BY <1>7 DEF Numbered
    <3>2. Slots(L) \subseteq Slots(L2) /\ (OverIn(L, n) => OverIn(L2, n))
      BY <1>3
    <3>3. CASE ~(Mine(ty, n) = 0 /\ m.name = n)
      <4>1. Found(L, n) /\ TryLookup(L2, n) = TryLookup(L, n)
        BY <1>5, <1>6, <2>3, <3>3
      <4> QED BY <3>1, <3>2, <4>1
    <3>4. CASE Mine(ty, n) = 0 /\ m.name = n
      <4>1. TryLookup(L2, n) = m
        BY <1>5, <3>4
      <4>2. CASE NewSlot(ty, A, m)
        <5>1. m \in Slots(L2)
          BY <1>3, <4>2 DEF NewSlot
        <5> QED BY <3>4, <4>1, <5>1
      <4>3. CASE SameSlot(ty, A, m)
        <5>1. Found(L, n) /\ m.id = TryLookup(L, n).id
          BY <1>7, <3>4, <4>3
        <5> QED BY <3>1, <3>2, <3>4, <4>1, <5>1
      <4>4. CASE Overlay(m)
        <5>1. OverIn(L2, n)
          BY <1>3, <3>4, <4>4 DEF Overlay
        <5> QED BY <3>4, <4>1, <5>1
      <4>5. CASE Inherited(A, m)
        <5>1. Found(L, n) /\ m.id = TryLookup(L, n).id
          BY <1>6, <3>4, <4>5 DEF Inherited
        <5> QED BY <3>1, <3>2, <3>4, <4>1, <5>1
      <4> QED BY <4>2, <4>3, <4>4, <4>5
    <3> QED BY <3>3, <3>4
  <2> QED BY <1>1, <2>1, <2>2, <2>3 DEF Numbered
<1>9. Agrees(ty2, A)
  <2> SUFFICES ASSUME NEW n \in Name, Found(A, n), ~OverlaidIn(ty2, n),
                      NEW j \in DOMAIN ty2.methods, ty2.methods[j].name = n
               PROVE  ty2.methods[j].id = TryLookup(A, n).id
    BY DEF Agrees
  <2>1. ~OverlaidIn(ty, n) /\ (m.name = n => m.at = None)
    BY <1>2
  <2>2. \A i \in 1 .. k : ty.methods[i].name = n => ty.methods[i].id = TryLookup(A, n).id
    BY <1>1, <2>1 DEF Agrees
  <2>3. CASE j \in 1 .. k
    BY <1>1, <2>2, <2>3
  <2>4. CASE j = k + 1
    <3>1. ty2.methods[j] = m /\ m.name = n
      BY <1>1, <2>4
    <3>2. Found(L, n)
      BY <1>6
    <3>3. CASE SameSlot(ty, A, m)
      <4>1. m.id = TryLookup(L, n).id
        BY <1>7, <3>1, <3>3
      <4>2. CASE Mine(ty, n) = 0
        BY <1>6, <3>1, <4>1, <4>2
      <4>3. CASE Mine(ty, n) # 0
        <5>1. Mine(ty, n) \in 1 .. k /\ ty.methods[Mine(ty, n)].name = n
          <6>1. Mine(ty, n) \in 0 .. k /\ (Mine(ty, n) # 0 => ty.methods[Mine(ty, n)].name = n)
            BY <1>1, MineIs DEF k
          <6> QED BY <1>1, <4>3, <6>1
        <5>2. ty.methods[Mine(ty, n)].id = TryLookup(A, n).id
          BY <2>2, <5>1
        <5> QED BY <1>6, <3>1, <4>1, <4>3, <5>2
      <4> QED BY <4>2, <4>3
    <3>4. CASE NewSlot(ty, A, m)
      BY <1>7, <3>1, <3>2, <3>4
    <3>5. CASE Overlay(m)
      BY <2>1, <3>1, <3>5 DEF Overlay
    <3>6. CASE Inherited(A, m)
      BY <3>1, <3>6 DEF Inherited
    <3> QED BY <3>3, <3>4, <3>5, <3>6
  <2> QED BY <1>1, <2>3, <2>4
<1> QED BY <1>8, <1>9 DEF L2

-----------------------------------------------------------------------------
(* The entries of :methods. *)

LEMMA NoneIsName == None \in Name
BY DEF Name

LEMMA StringIsName == STRING \subseteq Name
BY DEF Name

\* A type under construction and its ancestors A.
Built(ty, A) ==
  ty \in TypeRec /\ Numbered(A) /\ Numbered(<<ty>> \o A) /\ Agrees(ty, A)

\* What an entry of :methods leaves alone.
Kept(ty, ty2) ==
  /\ ty2.name = ty.name /\ ty2.parent = ty.parent /\ ty2.kind = ty.kind
  /\ ty2.fields = ty.fields /\ ty2.size = ty.size

LEMMA AddMethodKeeps ==
  ASSUME NEW A, NEW ty, Built(ty, A), NEW m \in MethodRec,
         NewSlot(ty, A, m) \/ SameSlot(ty, A, m) \/ Overlay(m) \/ Inherited(A, m)
  PROVE  Built(AddMethod(ty, m), A) /\ Kept(ty, AddMethod(ty, m))
<1>0. ty \in TypeRec /\ A \in Seq(TypeRec) /\ Numbered(A) /\ Numbered(<<ty>> \o A) /\ Agrees(ty, A)
  BY DEF Built, Numbered
<1>1. CASE AddMethod(ty, m) = [ty EXCEPT !.ok = FALSE]
  <2> DEFINE ty2 == [ty EXCEPT !.ok = FALSE]
  <2>1. ty2 \in TypeRec /\ ty2.methods = ty.methods /\ Kept(ty, ty2)
    BY <1>0 DEF TypeRec, Kept
  <2> HIDE DEF ty2
  <2>2. Numbered(<<ty2>> \o A) /\ Agrees(ty2, A)
    BY <1>0, <2>1, NumberedSame
  <2> QED BY <1>0, <1>1, <2>1, <2>2 DEF Built, ty2
<1>2. CASE AddMethod(ty, m) = [ty EXCEPT !.methods = Append(@, m)]
  <2> DEFINE ty2 == [ty EXCEPT !.methods = Append(@, m)]
  <2>1. ty2 \in TypeRec /\ ty2.methods = Append(ty.methods, m) /\ Kept(ty, ty2)
    <3>1. ty.methods \in Seq(MethodRec)
      BY <1>0 DEF TypeRec
    <3>2. Append(ty.methods, m) \in Seq(MethodRec)
      BY <3>1
    <3> QED BY <1>0, <3>2 DEF TypeRec, Kept
  <2> HIDE DEF ty2
  <2>2. Numbered(<<ty2>> \o A) /\ Agrees(ty2, A)
    BY <1>0, <2>1, NumberedAdd
  <2> QED BY <1>0, <1>2, <2>1, <2>2 DEF Built, ty2
<1> QED BY <1>1, <1>2 DEF AddMethod

LEMMA SameMethods ==
  ASSUME NEW A, NEW ty, Built(ty, A), NEW ty2 \in TypeRec, ty2.methods = ty.methods
  PROVE  Built(ty2, A)
<1>0. ty \in TypeRec /\ A \in Seq(TypeRec) /\ Numbered(A) /\ Numbered(<<ty>> \o A) /\ Agrees(ty, A)
  BY DEF Built, Numbered
<1> QED BY <1>0, NumberedSame DEF Built

LEMMA FailKeeps ==
  ASSUME NEW A, NEW ty, Built(ty, A)
  PROVE  Built(Fail(ty), A) /\ Kept(ty, Fail(ty))
<1>1. Fail(ty) \in TypeRec /\ Fail(ty).methods = ty.methods /\ Kept(ty, Fail(ty))
  BY DEF Built, TypeRec, Kept, Fail
<1> QED BY <1>1, SameMethods

LEMMA AddNewKeeps ==
  ASSUME NEW A, NEW ty, Built(ty, A), NEW sig \in Name
  PROVE  Built(AddNew(ty, sig), A) /\ Kept(ty, AddNew(ty, sig))
<1>1. AddNew(ty, sig) \in TypeRec /\ AddNew(ty, sig).methods = ty.methods /\ Kept(ty, AddNew(ty, sig))
  BY DEF Built, TypeRec, Kept, AddNew, Compatible
<1> QED BY <1>1, SameMethods

\* The looked-up method of a name that is there.
LEMMA LookupIs ==
  ASSUME NEW L, Numbered(L), NEW n \in Name, Found(L, n)
  PROVE  /\ TryLookup(L, n) \in MethodRec /\ TryLookup(L, n).name = n
         /\ TryLookup(L, n).id \in Nat \ {0}
BY DEF Numbered, MethodRec

LEMMA DeclareKeeps ==
  ASSUME NEW ty, Built(ty, OfTable(ty.parent)), NEW d \in MethodDecl,
         d.kind = "overlay" => d.at # None
  PROVE  Built(Declare(ty, d), OfTable(ty.parent)) /\ Kept(ty, Declare(ty, d))
<1> DEFINE A == OfTable(ty.parent)
           L == <<ty>> \o A
           sig == IF d.sig = "self" THEN ty.name ELSE d.sig
           G(x) == Built(x, A) /\ Kept(ty, x)
<1>1. ty \in TypeRec /\ A \in Seq(TypeRec) /\ Numbered(A) /\ Numbered(L) /\ Built(ty, A)
  BY DEF Built, Numbered
<1>2. d.name \in Name /\ d.at \in Name /\ sig \in Name
  BY <1>1, StringIsName DEF MethodDecl, TypeRec
<1>0. None \in Name
  BY NoneIsName
<1>3. Lineage(ty) = L
  BY DEF Lineage
<1> HIDE DEF A, sig
<1>4. G(ty)
  BY <1>1 DEF Kept
<1>5. G(Fail(ty))
  BY <1>1, FailKeeps
<1>6. G(AddNew(ty, sig))
  BY <1>1, <1>2, AddNewKeeps
<1>7. G(DeclareMethod(ty, d, sig))
  <2> DEFINE m == [id |-> NextMethodId(L), name |-> d.name, sig |-> sig,
                   over |-> FALSE, doc |-> FALSE, at |-> None]
  <2>1. ASSUME ~Found(L, d.name) PROVE G(AddMethod(ty, m))
    <3>1. NextMethodId(L) \in Nat \ {0}
      BY <1>1 DEF Numbered
    <3>2. m \in MethodRec
      BY <1>0, <1>2, <3>1 DEF MethodRec
    <3>3. NewSlot(ty, A, m)
      BY <2>1 DEF NewSlot, Primary
    <3> HIDE DEF m
    <3> QED BY <1>1, <3>2, <3>3, AddMethodKeeps
  <2> HIDE DEF L, G
  <2> QED BY <1>3, <1>4, <1>5, <1>6, <2>1 DEF DeclareMethod
<1>8. G(ReplaceMethod(ty, d, sig))
  <2> DEFINE m == [id |-> TryLookup(L, d.name).id, name |-> d.name,
                   sig |-> sig, over |-> TRUE, doc |-> FALSE, at |-> None]
  <2>1. ASSUME Found(L, d.name) PROVE G(AddMethod(ty, m))
    <3>1. TryLookup(L, d.name).id \in Nat \ {0}
      BY <1>1, <1>2, <2>1, LookupIs
    <3>2. m \in MethodRec
      BY <1>0, <1>2, <3>1 DEF MethodRec
    <3>3. SameSlot(ty, A, m)
      BY <2>1 DEF SameSlot, Primary
    <3> HIDE DEF m
    <3> QED BY <1>1, <3>2, <3>3, AddMethodKeeps
  <2> HIDE DEF L, G
  <2> QED BY <1>3, <1>5, <2>1 DEF ReplaceMethod
<1>9. ASSUME d.kind = "overlay" PROVE G(OverlayMethod(ty, d, sig))
  <2> DEFINE m == [id |-> TryLookup(L, d.at).id, name |-> d.name,
                   sig |-> sig, over |-> TRUE, doc |-> FALSE, at |-> d.at]
  <2>1. ASSUME Found(L, d.at) PROVE G(AddMethod(ty, m))
    <3>1. TryLookup(L, d.at).id \in Nat \ {0}
      BY <1>1, <1>2, <2>1, LookupIs
    <3>2. m \in MethodRec
      BY <1>0, <1>2, <3>1 DEF MethodRec
    <3>3. Overlay(m)
      BY <1>9 DEF Overlay, Primary
    <3> HIDE DEF m
    <3> QED BY <1>1, <3>2, <3>3, AddMethodKeeps
  <2> HIDE DEF L, G
  <2> QED BY <1>3, <1>5, <2>1 DEF OverlayMethod
<1>10. G(OverrideDoc(ty, d))
  <2> DEFINE m == [TryLookup(A, d.name) EXCEPT !.over = FALSE, !.doc = TRUE, !.at = None]
  <2>0. Tail(L) = A
    BY <1>1
  <2>1. ASSUME Found(A, d.name) PROVE G(AddMethod(ty, m))
    <3>1. TryLookup(A, d.name) \in MethodRec /\ TryLookup(A, d.name).name = d.name
      BY <1>1, <1>2, <2>1, LookupIs
    <3>2. m \in MethodRec /\ m.name = d.name /\ m.id = TryLookup(A, d.name).id /\ m.doc
      BY <1>0, <3>1 DEF MethodRec
    <3> HIDE DEF m
    <3>3. Inherited(A, m)
      BY <2>1, <3>2 DEF Inherited, Primary
    <3> QED BY <1>1, <3>2, <3>3, AddMethodKeeps
  <2> HIDE DEF L, G
  <2> QED BY <1>3, <1>5, <2>0, <2>1 DEF OverrideDoc
<1>11. d.kind \in {"declare", "replace", "overlay", "doc"}
  BY DEF MethodDecl
<1>12. G(Declare(ty, d))
  <2>1. CASE ~ty.ok
    BY <1>4, <2>1 DEF Declare
  <2>2. CASE ty.ok
    <3> HIDE DEF G
    <3>1. CASE d.kind = "declare"
      BY <1>7, <2>2, <3>1 DEF Declare, sig
    <3>2. CASE d.kind = "replace"
      BY <1>8, <2>2, <3>2 DEF Declare, sig
    <3>3. CASE d.kind = "overlay"
      BY <1>9, <2>2, <3>3 DEF Declare, sig
    <3>4. CASE d.kind = "doc"
      BY <1>10, <2>2, <3>4 DEF Declare, sig
    <3> QED BY <1>11, <3>1, <3>2, <3>3, <3>4
  <2> QED BY <2>1, <2>2
<1> QED BY <1>12 DEF A

\* The recursive function of WithMethods exists.
LEMMA MethodsInOrder ==
  ASSUME NEW ty, NEW ds, Len(ds) \in Nat
  PROVE  \E g : /\ g[0] = ty /\ g[Len(ds)] = WithMethods(ty, ds)
                /\ \A k \in 1 .. Len(ds) : g[k] = Declare(g[k - 1], ds[k])
<1> DEFINE N == Len(ds)
           F(f, n) == [k \in 0 .. n |-> IF k = 0 THEN ty ELSE Declare(f[k - 1], ds[k])]
           S == {n \in 0 .. N : \E f : f = F(f, n)}
<1>1. 0 \in S
  <2> DEFINE g == [k \in 0 .. 0 |-> ty]
  <2>1. g = F(g, 0) /\ 0 \in 0 .. N
    OBVIOUS
  <2> HIDE DEF F, g
  <2> QED BY <2>1
<1>2. ASSUME NEW n \in 0 .. N - 1, n \in S PROVE n + 1 \in S
  <2>1. PICK f : f = F(f, n)
    BY <1>2
  <2> DEFINE g == [k \in 0 .. n + 1 |-> IF k = n + 1 THEN Declare(f[n], ds[n + 1]) ELSE f[k]]
  <2>2. n \in Nat /\ n + 1 \in 0 .. N
    OBVIOUS
  <2>3. ASSUME NEW k \in 0 .. n + 1
        PROVE  g[k] = IF k = 0 THEN ty ELSE Declare(g[k - 1], ds[k])
    <3>1. CASE k = 0
      BY <2>1, <2>2, <3>1
    <3>2. CASE k \in 1 .. n
      <4>1. k \in 0 .. n /\ k - 1 \in 0 .. n + 1 /\ k # n + 1 /\ k - 1 # n + 1 /\ k # 0
        BY <2>2, <3>2
      <4>2. g[k] = f[k] /\ g[k - 1] = f[k - 1]
        BY <4>1
      <4>3. f[k] = Declare(f[k - 1], ds[k])
        BY <2>1, <4>1
      <4> QED BY <4>1, <4>2, <4>3
    <3>3. CASE k = n + 1
      <4>1. k - 1 = n /\ n \in 0 .. n + 1 /\ n # n + 1 /\ k # 0
        BY <2>2, <3>3
      <4>2. g[k] = Declare(f[n], ds[n + 1]) /\ g[k - 1] = f[n]
        BY <3>3, <4>1
      <4> HIDE DEF g
      <4> QED BY <3>3, <4>1, <4>2
    <3> QED BY <2>2, <3>1, <3>2, <3>3
  <2>4. g = [k \in 0 .. n + 1 |-> g[k]]
    OBVIOUS
  <2> HIDE DEF g
  <2>5. g = F(g, n + 1)
    BY <2>3, <2>4
  <2> QED BY <2>2, <2>5
<1>3. \A n \in 0 .. N : n \in S
  <2> HIDE DEF S
  <2> QED BY <1>1, <1>2, Induct
<1>4. \E f : f = F(f, N)
  <2>1. N \in S
    <3> HIDE DEF S
    <3> QED BY <1>3
  <2> QED BY <2>1
<1> DEFINE at == CHOOSE f : f = F(f, N)
<1>5. at = F(at, N)
  <2> HIDE DEF F
  <2> QED BY <1>4
<1>6. WithMethods(ty, ds) = at[N]
  BY DEF WithMethods
<1> HIDE DEF at
<1>7. at[0] = ty /\ \A k \in 1 .. N : at[k] = Declare(at[k - 1], ds[k])
  <2>1. \A k \in 0 .. N : at[k] = IF k = 0 THEN ty ELSE Declare(at[k - 1], ds[k])
    BY <1>5
  <2>2. 0 \in 0 .. N /\ \A k \in 1 .. N : k \in 0 .. N /\ k # 0
    OBVIOUS
  <2> QED BY <2>1, <2>2
<1> QED BY <1>6, <1>7

LEMMA WithMethodsKeeps ==
  ASSUME NEW ty, Built(ty, OfTable(ty.parent)), NEW ds \in Seq(MethodDecl),
         \A i \in DOMAIN ds : ds[i].kind = "overlay" => ds[i].at # None
  PROVE  Built(WithMethods(ty, ds), OfTable(ty.parent)) /\ Kept(ty, WithMethods(ty, ds))
<1> DEFINE N == Len(ds)
           A == OfTable(ty.parent)
<1>0. N \in Nat /\ DOMAIN ds = 1 .. N
  OBVIOUS
<1>1. PICK g : /\ g[0] = ty /\ g[N] = WithMethods(ty, ds)
               /\ \A k \in 1 .. N : g[k] = Declare(g[k - 1], ds[k])
  BY <1>0, MethodsInOrder
<1> DEFINE S == {k \in 0 .. N : Built(g[k], A) /\ Kept(ty, g[k])}
<1>2. 0 \in S
  BY <1>0, <1>1 DEF Kept
<1>3. ASSUME NEW k \in 0 .. N - 1, k \in S PROVE k + 1 \in S
  <2>1. k + 1 \in 1 .. N /\ k + 1 \in 0 .. N /\ (k + 1) - 1 = k
    BY <1>0
  <2>2. Built(g[k], A) /\ Kept(ty, g[k])
    BY <1>3
  <2>3. OfTable(g[k].parent) = A
    BY <2>2 DEF Kept
  <2>4. ds[k + 1] \in MethodDecl /\ (ds[k + 1].kind = "overlay" => ds[k + 1].at # None)
    BY <1>0, <2>1
  <2>5. g[k + 1] = Declare(g[k], ds[k + 1])
    BY <1>1, <2>1
  <2> HIDE DEF A
  <2>6. Built(g[k + 1], A) /\ Kept(g[k], g[k + 1])
    BY <2>2, <2>3, <2>4, <2>5, DeclareKeeps
  <2> QED BY <2>1, <2>2, <2>6 DEF Kept
<1>4. \A k \in 0 .. N : k \in S
  <2> HIDE DEF S
  <2> QED BY <1>0, <1>2, <1>3, Induct
<1>5. N \in S
  <2> HIDE DEF S
  <2> QED BY <1>0, <1>4
<1> QED BY <1>1, <1>5

-----------------------------------------------------------------------------
(* The fields. *)

LEMMA AlignUpIs ==
  ASSUME NEW x \in Nat, NEW a \in Nat \ {0}
  PROVE  AlignUp(x, a) \in Nat /\ AlignUp(x, a) >= x /\ AlignUp(x, a) % a = 0
<1> DEFINE z == x + a - 1
           q == z \div a
           r == z % a
           y == q * a
<1>1. z \in Nat
  OBVIOUS
<1>2. z = a * q + r /\ r \in 0 .. a - 1 /\ q \in Int
  <2> HIDE DEF z
  <2> QED BY <1>1, DivMod
<1>3. AlignUp(x, a) = y
  BY DEF AlignUp
<1> HIDE DEF q, r
<1>4. y \in Int /\ y = z - r
  BY <1>1, <1>2
<1>5. y \in Nat /\ y >= x
  BY <1>2, <1>4
<1> HIDE DEF z
<1>6. y % a = 0
  <2> DEFINE u == y \div a
             v == y % a
  <2>1. y = a * u + v /\ v \in 0 .. a - 1 /\ u \in Int
    <3> HIDE DEF y
    <3> QED BY <1>5, DivMod
  <2>2. 0 \in 0 .. a - 1 /\ y = a * q + 0
    BY <1>2
  <2> HIDE DEF u, v, y
  <2>3. a * u + v = a * q + 0
    BY <2>1, <2>2
  <2> QED BY <1>2, <2>1, <2>2, <2>3, ModUnique DEF v
<1> QED BY <1>3, <1>5, <1>6

\* The first field of a name.
LEMMA FieldAtIs ==
  ASSUME NEW ty \in TypeRec, NEW n
  PROVE  FieldAt(ty, n) = 0 \/ FieldAt(ty, n) \in DOMAIN ty.fields
<1> DEFINE I == {i \in 1 .. Len(ty.fields) : ty.fields[i].name = n}
<1>1. FieldAt(ty, n) = IF I # {} THEN Min(I) ELSE 0
  BY DEF FieldAt, SelectInSeq
<1>2. I \subseteq Nat /\ ty.fields \in Seq(FieldRec) /\ DOMAIN ty.fields = 1 .. Len(ty.fields)
  BY DEF TypeRec
<1>3. ASSUME I # {} PROVE Min(I) \in I
  <2> HIDE DEF I
  <2> QED BY <1>2, <1>3, MinIs
<1> QED BY <1>1, <1>2, <1>3

\* A field as its offset is found without its type.
Place(g) == [g EXCEPT !.type = ""]

\* The fields of f are where the fields of g are, and perhaps more follow.
Extends(f, g) == \A i \in DOMAIN g : i \in DOMAIN f /\ Place(f[i]) = Place(g[i])

\* The size covers the fields, and those that were placed are aligned and in order.
Packed(ty) ==
  \A i \in DOMAIN ty.fields :
    /\ Ends(ty.fields[i]) <= ty.size
    /\ ty.fields[i].kind = "new" =>
         /\ \A j \in 1 .. (i - 1) : Ends(ty.fields[j]) <= ty.fields[i].off
         /\ ty.fields[i].off % ty.fields[i].align = 0

\* The table: what the offset of a field is computed from.
Sized ==
  /\ types \in [Known -> TypeRec]
  /\ \A t \in Known : types[t].kind = "value" => types[t].size # 0 /\ types[t].fields = <<>>

\* What a field leaves alone.
KeptToo(ty, ty2) ==
  /\ ty2.name = ty.name /\ ty2.parent = ty.parent /\ ty2.kind = ty.kind
  /\ ty2.methods = ty.methods

LEMMA FieldNumbers ==
  ASSUME Sized, NEW t \in Known, NEW d \in FieldDecl
  PROVE  FieldAlign(d, t) \in Nat \ {0} /\ FieldSize(d, t) \in Int
<1>1. /\ types[t].size \in Nat /\ d.count \in Int /\ d.inl \in BOOLEAN
      /\ types[t].kind = "value" => types[t].size # 0
  BY DEF Sized, TypeRec, FieldDecl
<1>2. FieldAlign(d, t) \in Nat \ {0}
  BY <1>1 DEF FieldAlign, StructAlignment, PointerSize
<1>3. AlignUp(types[t].size, StructAlignment) \in Nat
  BY <1>1, AlignUpIs DEF StructAlignment
<1>4. /\ d.count * types[t].size \in Int /\ 1 * types[t].size \in Int
      /\ d.count * PointerSize \in Int /\ 1 * PointerSize \in Int
  BY <1>1 DEF PointerSize
<1>5. FieldSize(d, t) \in Int
  BY <1>3, <1>4 DEF FieldSize
<1> QED BY <1>2, <1>5

LEMMA AddFieldKeeps ==
  ASSUME Sized, NEW ty \in TypeRec, ty.parent \in Known, NEW d \in FieldDecl, Packed(ty),
         NEW f0, Extends(ty.fields, f0)
  PROVE  LET ty2 == AddField(ty, d)
         IN ty2 \in TypeRec /\ KeptToo(ty, ty2) /\ Packed(ty2) /\ Extends(ty2.fields, f0)
<1> DEFINE self == IF d.type = "self" THEN ty.name ELSE d.type
           t    == IF self = ty.name /\ self \notin Known THEN ty.parent ELSE Resolve(self)
           old  == FieldAt(ty, d.name)
           off  == PlaceField(ty, d, t)
           size == FieldSize(d, t)
           k    == Len(ty.fields)
           F    == [name |-> d.name, type |-> self, off |-> off, size |-> size,
                    align |-> FieldAlign(d, t), inl |-> d.inl, kind |-> d.kind]
           G(x) == x \in TypeRec /\ KeptToo(ty, x) /\ Packed(x) /\ Extends(x.fields, f0)
           over == [ty EXCEPT !.fields[old].type = self]
           more == [ty EXCEPT !.fields = Append(@, F),
                              !.size = IF @ < off + size THEN off + size ELSE @]
<1>0. /\ self \in Name /\ d.name \in Name /\ d.inl \in BOOLEAN
      /\ d.kind \in {"new", "overlay", "override"}
      /\ ty.fields \in Seq(FieldRec) /\ ty.size \in Nat /\ k \in Nat /\ DOMAIN ty.fields = 1 .. k
  <2>1. ty.name \in Name /\ ty.fields \in Seq(FieldRec) /\ ty.size \in Nat
    BY DEF TypeRec
  <2>2. /\ d.type \in STRING /\ d.name \in STRING /\ d.inl \in BOOLEAN
        /\ d.kind \in {"new", "overlay", "override"}
    BY DEF FieldDecl
  <2>3. self \in Name /\ d.name \in Name
    BY <2>1, <2>2, StringIsName
  <2>4. k \in Nat /\ DOMAIN ty.fields = 1 .. k
    BY <2>1
  <2> QED BY <2>1, <2>2, <2>3, <2>4
<1>1. t = None \/ t \in Known
  BY DEF Resolve
<1> HIDE DEF self, t, old
<1>2. G(Fail(ty))
  <2>1. Fail(ty) \in TypeRec /\ KeptToo(ty, Fail(ty)) /\ Fail(ty).fields = ty.fields
        /\ Fail(ty).size = ty.size
    BY DEF Fail, TypeRec, KeptToo
  <2> QED BY <2>1 DEF Packed
<1>3. ASSUME old # 0 PROVE G(over)
  <2>1. old \in DOMAIN ty.fields
    BY <1>3, FieldAtIs DEF old
  <2> DEFINE fs == [ty.fields EXCEPT ![old] = [@ EXCEPT !.type = self]]
  <2>2. fs \in Seq(FieldRec) /\ DOMAIN fs = DOMAIN ty.fields
    <3>1. ty.fields[old] \in FieldRec
      BY <1>0, <2>1
    <3> DEFINE e == [ty.fields[old] EXCEPT !.type = self]
    <3>2. e \in FieldRec
      BY <1>0, <3>1 DEF FieldRec
    <3>3. fs = [ty.fields EXCEPT ![old] = e]
      OBVIOUS
    <3> HIDE DEF e, fs
    <3>4. ty.fields \in [1 .. k -> FieldRec]
      BY <1>0
    <3>5. fs \in [1 .. k -> FieldRec]
      BY <3>2, <3>3, <3>4
    <3> QED BY <1>0, <3>5
  <2>3. ASSUME NEW i \in DOMAIN ty.fields
        PROVE  /\ fs[i].off = ty.fields[i].off /\ fs[i].size = ty.fields[i].size
               /\ fs[i].kind = ty.fields[i].kind /\ fs[i].align = ty.fields[i].align
               /\ Place(fs[i]) = Place(ty.fields[i])
    <3>1. ty.fields[i] \in FieldRec
      BY <1>0
    <3>2. fs[i] = IF i = old THEN [ty.fields[i] EXCEPT !.type = self] ELSE ty.fields[i]
      BY <1>0
    <3> HIDE DEF fs
    <3> QED BY <3>1, <3>2 DEF FieldRec, Place
  <2>4. over.fields = fs /\ over.size = ty.size /\ KeptToo(ty, over)
    BY <1>0 DEF TypeRec, KeptToo
  <2>5. over \in TypeRec
    <3>1. over = [ty EXCEPT !.fields = fs]
      BY DEF TypeRec
    <3> HIDE DEF over, fs
    <3> QED BY <2>2, <3>1 DEF TypeRec
  <2> HIDE DEF over, fs
  <2>6. Packed(over)
    <3> SUFFICES ASSUME NEW i \in DOMAIN ty.fields
                 PROVE  /\ Ends(fs[i]) <= ty.size
                        /\ fs[i].kind = "new" =>
                             /\ \A j \in 1 .. (i - 1) : Ends(fs[j]) <= fs[i].off
                             /\ fs[i].off % fs[i].align = 0
      BY <2>2, <2>4 DEF Packed
    <3>1. /\ Ends(ty.fields[i]) <= ty.size
          /\ ty.fields[i].kind = "new" =>
               /\ \A j \in 1 .. (i - 1) : Ends(ty.fields[j]) <= ty.fields[i].off
               /\ ty.fields[i].off % ty.fields[i].align = 0
      BY DEF Packed
    <3>2. \A j \in 1 .. (i - 1) : j \in DOMAIN ty.fields
      BY <1>0
    <3>3. \A j \in DOMAIN ty.fields : Ends(fs[j]) = Ends(ty.fields[j])
      BY <2>3 DEF Ends
    <3> QED BY <2>3, <3>1, <3>2, <3>3
  <2>7. Extends(over.fields, f0)
    BY <2>2, <2>3, <2>4 DEF Extends
  <2> QED BY <2>4, <2>5, <2>6, <2>7
<1>4. ASSUME t # None, d.kind # "override", d.kind = "overlay" => FieldAt(ty, d.at) # 0 PROVE G(more)
  <2>1. FieldAlign(d, t) \in Nat \ {0} /\ size \in Int
    BY <1>1, <1>4, FieldNumbers
  <2>2. off \in Nat
    <3>1. CASE d.kind = "overlay"
      <4>1. off = ty.fields[FieldAt(ty, d.at)].off /\ FieldAt(ty, d.at) \in DOMAIN ty.fields
        BY <1>4, <3>1, FieldAtIs DEF PlaceField
      <4>2. ty.fields[FieldAt(ty, d.at)] \in FieldRec
        BY <1>0, <4>1
      <4> QED BY <4>1, <4>2 DEF FieldRec
    <3>2. CASE d.kind # "overlay"
      BY <1>0, <2>1, <3>2, AlignUpIs DEF PlaceField
    <3> QED BY <3>1, <3>2
  <2>3. F \in FieldRec
    <3> HIDE DEF off, size
    <3> QED BY <1>0, <2>1, <2>2 DEF FieldRec
  <2> DEFINE fs == Append(ty.fields, F)
             sz == IF ty.size < off + size THEN off + size ELSE ty.size
  <2>4. ASSUME d.kind = "new"
        PROVE  off >= ty.size /\ off % FieldAlign(d, t) = 0
    BY <1>0, <2>1, <2>4, AlignUpIs DEF PlaceField
  <2>5. F.off = off /\ F.size = size /\ F.kind = d.kind /\ F.align = FieldAlign(d, t)
    OBVIOUS
  <2> HIDE DEF F, off, size
  <2>6. fs \in Seq(FieldRec) /\ DOMAIN fs = 1 .. k + 1 /\ fs[k + 1] = F
        /\ \A i \in 1 .. k : fs[i] = ty.fields[i]
    BY <1>0, <2>3
  <2>7. sz \in Nat /\ off + size <= sz /\ ty.size <= sz
    BY <1>0, <2>1, <2>2
  <2>8. more.fields = fs /\ more.size = sz /\ KeptToo(ty, more) /\ more = [ty EXCEPT !.fields = fs, !.size = sz]
    BY DEF TypeRec, KeptToo
  <2> HIDE DEF more, fs, sz
  <2>9. more \in TypeRec
    BY <2>6, <2>7, <2>8 DEF TypeRec
  <2>10. Packed(more)
    <3> SUFFICES ASSUME NEW i \in 1 .. k + 1
                 PROVE  /\ Ends(fs[i]) <= sz
                        /\ fs[i].kind = "new" =>
                             /\ \A j \in 1 .. (i - 1) : Ends(fs[j]) <= fs[i].off
                             /\ fs[i].off % fs[i].align = 0
      BY <2>6, <2>8 DEF Packed
    <3>0. \A j \in 1 .. k : Ends(ty.fields[j]) \in Int /\ Ends(ty.fields[j]) <= ty.size
      <4> TAKE j \in 1 .. k
      <4>1. ty.fields[j] \in FieldRec
        BY <1>0
      <4>2. ty.fields[j].off \in Nat /\ ty.fields[j].size \in Int
        BY <4>1 DEF FieldRec
      <4> QED BY <1>0, <4>2 DEF Ends, Packed
    <3>1. CASE i \in 1 .. k
      <4>1. /\ ty.fields[i].kind = "new" =>
               /\ \A j \in 1 .. (i - 1) : Ends(ty.fields[j]) <= ty.fields[i].off
               /\ ty.fields[i].off % ty.fields[i].align = 0
        BY <1>0, <3>1 DEF Packed
      <4>2. \A j \in 1 .. (i - 1) : j \in 1 .. k
        BY <1>0, <3>1
      <4>3. Ends(fs[i]) <= sz
        BY <1>0, <2>6, <2>7, <3>0, <3>1
      <4> QED BY <2>6, <3>1, <4>1, <4>2, <4>3
    <3>2. CASE i = k + 1
      <4>1. fs[i] = F /\ Ends(F) = off + size
        BY <2>5, <2>6, <3>2 DEF Ends
      <4>2. ASSUME d.kind = "new", NEW j \in 1 .. (i - 1) PROVE Ends(fs[j]) <= off
        <5>1. j \in 1 .. k
          BY <1>0, <3>2
        <5>2. off >= ty.size
          BY <2>4, <4>2
        <5>3. Ends(ty.fields[j]) \in Int /\ Ends(ty.fields[j]) <= ty.size /\ fs[j] = ty.fields[j]
          BY <2>6, <3>0, <5>1
        <5> QED BY <1>0, <2>2, <5>2, <5>3
      <4> QED BY <2>4, <2>5, <2>7, <4>1, <4>2
    <3> QED BY <1>0, <3>1, <3>2
  <2>11. Extends(more.fields, f0)
    <3>1. \A i \in 1 .. k : i \in 1 .. k + 1
      BY <1>0
    <3> QED BY <1>0, <2>6, <2>8, <3>1 DEF Extends
  <2> QED BY <2>8, <2>9, <2>10, <2>11
<1>5. G(AddField(ty, d))
  <2> HIDE DEF G, over, more
  <2> QED BY <1>2, <1>3, <1>4 DEF AddField, over, more, self, t, old
<1> QED BY <1>5

\* The recursive function of WithFields exists.
LEMMA FieldsInOrder ==
  ASSUME NEW ty, NEW ds, Len(ds) \in Nat
  PROVE  \E g : /\ g[0] = ty /\ g[Len(ds)] = WithFields(ty, ds)
                /\ \A k \in 1 .. Len(ds) : g[k] = AddField(g[k - 1], ds[k])
<1> DEFINE N == Len(ds)
           F(f, n) == [k \in 0 .. n |-> IF k = 0 THEN ty ELSE AddField(f[k - 1], ds[k])]
           S == {n \in 0 .. N : \E f : f = F(f, n)}
<1>1. 0 \in S
  <2> DEFINE g == [k \in 0 .. 0 |-> ty]
  <2>1. g = F(g, 0) /\ 0 \in 0 .. N
    OBVIOUS
  <2> HIDE DEF F, g
  <2> QED BY <2>1
<1>2. ASSUME NEW n \in 0 .. N - 1, n \in S PROVE n + 1 \in S
  <2>1. PICK f : f = F(f, n)
    BY <1>2
  <2> DEFINE g == [k \in 0 .. n + 1 |-> IF k = n + 1 THEN AddField(f[n], ds[n + 1]) ELSE f[k]]
  <2>2. n \in Nat /\ n + 1 \in 0 .. N
    OBVIOUS
  <2>3. ASSUME NEW k \in 0 .. n + 1
        PROVE  g[k] = IF k = 0 THEN ty ELSE AddField(g[k - 1], ds[k])
    <3>1. CASE k = 0
      BY <2>1, <2>2, <3>1
    <3>2. CASE k \in 1 .. n
      <4>1. k \in 0 .. n /\ k - 1 \in 0 .. n + 1 /\ k # n + 1 /\ k - 1 # n + 1 /\ k # 0
        BY <2>2, <3>2
      <4>2. g[k] = f[k] /\ g[k - 1] = f[k - 1]
        BY <4>1
      <4>3. f[k] = AddField(f[k - 1], ds[k])
        BY <2>1, <4>1
      <4> QED BY <4>1, <4>2, <4>3
    <3>3. CASE k = n + 1
      <4>1. k - 1 = n /\ n \in 0 .. n + 1 /\ n # n + 1 /\ k # 0
        BY <2>2, <3>3
      <4>2. g[k] = AddField(f[n], ds[n + 1]) /\ g[k - 1] = f[n]
        BY <3>3, <4>1
      <4> HIDE DEF g
      <4> QED BY <3>3, <4>1, <4>2
    <3> QED BY <2>2, <3>1, <3>2, <3>3
  <2>4. g = [k \in 0 .. n + 1 |-> g[k]]
    OBVIOUS
  <2> HIDE DEF g
  <2>5. g = F(g, n + 1)
    BY <2>3, <2>4
  <2> QED BY <2>2, <2>5
<1>3. \A n \in 0 .. N : n \in S
  <2> HIDE DEF S
  <2> QED BY <1>1, <1>2, Induct
<1>4. \E f : f = F(f, N)
  <2>1. N \in S
    <3> HIDE DEF S
    <3> QED BY <1>3
  <2> QED BY <2>1
<1> DEFINE at == CHOOSE f : f = F(f, N)
<1>5. at = F(at, N)
  <2> HIDE DEF F
  <2> QED BY <1>4
<1>6. WithFields(ty, ds) = at[N]
  BY DEF WithFields
<1> HIDE DEF at
<1>7. at[0] = ty /\ \A k \in 1 .. N : at[k] = AddField(at[k - 1], ds[k])
  <2>1. \A k \in 0 .. N : at[k] = IF k = 0 THEN ty ELSE AddField(at[k - 1], ds[k])
    BY <1>5
  <2>2. 0 \in 0 .. N /\ \A k \in 1 .. N : k \in 0 .. N /\ k # 0
    OBVIOUS
  <2> QED BY <2>1, <2>2
<1> QED BY <1>6, <1>7

LEMMA WithFieldsKeeps ==
  ASSUME Sized, NEW ty \in TypeRec, ty.parent \in Known, NEW ds \in Seq(FieldDecl), Packed(ty),
         NEW f0, Extends(ty.fields, f0)
  PROVE  LET ty2 == WithFields(ty, ds)
         IN ty2 \in TypeRec /\ KeptToo(ty, ty2) /\ Packed(ty2) /\ Extends(ty2.fields, f0)
<1> DEFINE N == Len(ds)
           G(x) == x \in TypeRec /\ KeptToo(ty, x) /\ Packed(x) /\ Extends(x.fields, f0)
<1>0. N \in Nat /\ DOMAIN ds = 1 .. N
  OBVIOUS
<1>1. PICK g : /\ g[0] = ty /\ g[N] = WithFields(ty, ds)
               /\ \A k \in 1 .. N : g[k] = AddField(g[k - 1], ds[k])
  BY <1>0, FieldsInOrder
<1> DEFINE S == {k \in 0 .. N : G(g[k])}
<1>2. 0 \in S
  BY <1>0, <1>1 DEF KeptToo
<1>3. ASSUME NEW k \in 0 .. N - 1, k \in S PROVE k + 1 \in S
  <2>1. k + 1 \in 1 .. N /\ k + 1 \in 0 .. N /\ (k + 1) - 1 = k
    BY <1>0
  <2>2. G(g[k])
    BY <1>3
  <2>3. g[k].parent \in Known
    BY <2>2 DEF KeptToo
  <2>4. ds[k + 1] \in FieldDecl
    BY <1>0, <2>1
  <2>5. g[k + 1] = AddField(g[k], ds[k + 1])
    BY <1>1, <2>1
  <2>6. /\ g[k + 1] \in TypeRec /\ KeptToo(g[k], g[k + 1]) /\ Packed(g[k + 1])
        /\ Extends(g[k + 1].fields, f0)
    BY <2>2, <2>3, <2>4, <2>5, AddFieldKeeps
  <2> QED BY <2>1, <2>2, <2>6 DEF KeptToo
<1>4. \A k \in 0 .. N : k \in S
  <2> HIDE DEF S
  <2> QED BY <1>0, <1>2, <1>3, Induct
<1>5. N \in S
  <2> HIDE DEF S
  <2> QED BY <1>0, <1>4
<1> QED BY <1>1, <1>5

-----------------------------------------------------------------------------
(* What a deftype makes of its form. *)

\* A shape as the reader gives it.
Shape(s) ==
  /\ s.final \in BOOLEAN /\ s.body \in STRING
  /\ s.fields \in Seq(FieldDecl) /\ s.methods \in Seq(MethodDecl)
  /\ \A i \in DOMAIN s.methods : s.methods[i].kind = "overlay" => s.methods[i].at # None

\* A finished type under its name, with its parent p in the table.
Finished(ty, name, p, kind) ==
  /\ Built(ty, OfTable(p)) /\ ty.name = name /\ ty.parent = p /\ ty.kind = kind
  /\ Packed(ty) /\ Extends(ty.fields, types[p].fields)
  /\ kind = "value" => ty.fields = types[p].fields /\ ty.size = types[p].size

LEMMA InheritIs ==
  ASSUME Sized, NEW name \in Name, NEW p \in Known, p \in Name,
         NEW kind \in {"value", "structure", "basic"}, Packed(types[p]), Numbered(OfTable(p))
  PROVE  /\ Finished(Inherit(name, p, kind), name, p, kind)
         /\ Inherit(name, p, kind).methods = <<>>
<1> DEFINE ty == Inherit(name, p, kind)
<1>1. types[p] \in TypeRec
  BY DEF Sized
<1>2. types[p].fields \in Seq(FieldRec) /\ types[p].size \in Nat
  BY <1>1 DEF TypeRec
<1>3. /\ ty.name = name /\ ty.parent = p /\ ty.kind = kind /\ ty.methods = <<>>
      /\ ty.fields = types[p].fields /\ ty.size = types[p].size
  BY DEF Inherit
<1>4. ty \in TypeRec
  <2>1. <<>> \in Seq(MethodRec)
    OBVIOUS
  <2> QED BY <1>2, <2>1, NoneIsName DEF Inherit, TypeRec
<1> HIDE DEF ty
<1>5. Built(ty, OfTable(p))
  BY <1>3, <1>4, NumberedFresh DEF Built
<1>6. Packed(ty) /\ Extends(ty.fields, types[p].fields)
  BY <1>3 DEF Packed, Extends
<1> QED BY <1>3, <1>5, <1>6 DEF Finished, ty

LEMMA ParseStructureIs ==
  ASSUME Sized, NEW name \in Name, NEW p \in Known, p \in Name,
         NEW kind \in {"structure", "basic"}, Packed(types[p]), Numbered(OfTable(p)),
         NEW s, Shape(s), ParseStructure(Inherit(name, p, kind), s).ok
  PROVE  Finished(ParseStructure(Inherit(name, p, kind), s), name, p, kind)
<1> DEFINE ty == Inherit(name, p, kind)
           f  == WithFields(ty, s.fields)
           m  == WithMethods(f, s.methods)
           r  == [m EXCEPT !.body = s.body, !.final = s.final]
<1>0. /\ s.final \in BOOLEAN /\ s.body \in Name
      /\ s.fields \in Seq(FieldDecl) /\ s.methods \in Seq(MethodDecl)
      /\ \A i \in DOMAIN s.methods : s.methods[i].kind = "overlay" => s.methods[i].at # None
  BY StringIsName DEF Shape
<1>1. Finished(ty, name, p, kind) /\ ty.methods = <<>>
  BY InheritIs
<1>2. ParseStructure(ty, s) = Fail(m) \/ ParseStructure(ty, s) = r
  BY DEF ParseStructure
<1> HIDE DEF ty
<1>3. /\ f \in TypeRec /\ KeptToo(ty, f) /\ Packed(f) /\ Extends(f.fields, types[p].fields)
  <2>1. ty \in TypeRec /\ ty.parent \in Known /\ Packed(ty) /\ Extends(ty.fields, types[p].fields)
    BY <1>1 DEF Finished, Built
  <2> QED BY <1>0, <2>1, WithFieldsKeeps
<1> HIDE DEF f
<1>4. Built(f, OfTable(p)) /\ f.parent = p
  <2>1. Built(ty, OfTable(p)) /\ f.methods = ty.methods /\ f.parent = p
    BY <1>1, <1>3 DEF Finished, KeptToo
  <2> QED BY <1>3, <2>1, SameMethods
<1>5. Built(m, OfTable(p)) /\ Kept(f, m)
  BY <1>0, <1>4, WithMethodsKeeps
<1> HIDE DEF m
<1>6. m \in TypeRec
  BY <1>5 DEF Built
<1>7. ~Fail(m).ok
  BY <1>6 DEF Fail, TypeRec
<1>8. ParseStructure(ty, s) = r
  BY <1>2, <1>7 DEF ty
<1>9. /\ r \in TypeRec /\ r.methods = m.methods /\ r.name = m.name /\ r.parent = m.parent
      /\ r.kind = m.kind /\ r.fields = m.fields /\ r.size = m.size
  BY <1>0, <1>6 DEF TypeRec
<1> HIDE DEF r
<1>10. Built(r, OfTable(p))
  BY <1>5, <1>9, SameMethods
<1>11. /\ r.name = name /\ r.parent = p /\ r.kind = kind
       /\ r.fields = f.fields /\ r.size = f.size
  BY <1>1, <1>3, <1>5, <1>9 DEF Finished, KeptToo, Kept
<1>12. Packed(r) /\ Extends(r.fields, types[p].fields)
  BY <1>3, <1>11 DEF Packed
<1>13. Finished(r, name, p, kind)
  BY <1>10, <1>11, <1>12 DEF Finished
<1> QED BY <1>8, <1>13 DEF ty

LEMMA ParseBitfieldIs ==
  ASSUME Sized, NEW name \in Name, NEW p \in Known, p \in Name,
         Packed(types[p]), Numbered(OfTable(p)),
         NEW s, Shape(s), ParseBitfield(Inherit(name, p, "value"), s).ok
  PROVE  Finished(ParseBitfield(Inherit(name, p, "value"), s), name, p, "value")
<1> DEFINE ty == Inherit(name, p, "value")
           m  == WithMethods(ty, s.methods)
<1>0. /\ s.methods \in Seq(MethodDecl)
      /\ \A i \in DOMAIN s.methods : s.methods[i].kind = "overlay" => s.methods[i].at # None
  BY DEF Shape
<1>1. Finished(ty, name, p, "value")
  BY InheritIs
<1>2. ParseBitfield(ty, s) = Fail(ty) \/ ParseBitfield(ty, s) = m
  BY DEF ParseBitfield
<1>a. ty.fields = types[p].fields /\ ty.size = types[p].size
  BY DEF Inherit
<1> HIDE DEF ty
<1>3. ty \in TypeRec /\ Built(ty, OfTable(p)) /\ ty.parent = p
  BY <1>1 DEF Finished, Built
<1>4. Built(m, OfTable(p)) /\ Kept(ty, m)
  BY <1>0, <1>3, WithMethodsKeeps
<1> HIDE DEF m
<1>5. ~Fail(ty).ok
  BY <1>3 DEF Fail, TypeRec
<1>6. ParseBitfield(ty, s) = m
  BY <1>2, <1>5 DEF ty
<1>7. Finished(m, name, p, "value")
  BY <1>1, <1>a, <1>4 DEF Finished, Kept, Packed
<1> QED BY <1>6, <1>7 DEF ty

-----------------------------------------------------------------------------
(* The invariant. *)

\* The types on the path of t: what OfTable(t) is.
Line(path, t) == [i \in 1 .. Len(path[t]) |-> types[path[t][i]]]

\* The branch of the tree a type is in says what kind of type it is.
Kin(path) ==
  \A t \in Known : \A i \in 1 .. Len(path[t]) :
    /\ path[t][i] \in {"basic", "structure"} => types[t].kind # "value"
    /\ path[t][i] = "integer" => types[t].kind = "value"

\* Every type of the table is finished and continues its parent: the fields where
\* the parent has them, the slots numbered on from the parent's.
TableOK(path) ==
  /\ Tree(path) /\ Kin(path)
  /\ {"basic", "structure", "integer"} \subseteq Known
  /\ None \notin Known /\ Known \subseteq Name /\ IsFiniteSet(Known)
  /\ Sized
  /\ \A t \in Known : types[t].ok /\ types[t].name = t /\ Packed(types[t])
  /\ \A t \in Known : Numbered(Line(path, t))
  /\ \A t \in Known : HasParent(t) =>
       /\ Extends(types[t].fields, types[types[t].parent].fields)
       /\ Agrees(types[t], Line(path, types[t].parent))

ForwardOK ==
  /\ res \in {"ok", "error"} /\ IsFiniteSet(DOMAIN fwd)
  /\ DOMAIN fwd \subseteq {f.name : f \in Forms} /\ ForwardResolves

IInv == ForwardOK /\ \E path : TableOK(path)

LEMMA OfTableIs ==
  ASSUME NEW path, Tree(path), NEW t \in Known
  PROVE  OfTable(t) = Line(path, t)
<1>1. Chain(t) = path[t]
  BY ChainIs
<1> QED BY <1>1 DEF OfTable, Line

\* The line of a type is the type on top of the line of its parent.
LEMMA LineOf ==
  ASSUME NEW path, Tree(path), Sized, NEW t \in Known
  PROVE  /\ Line(path, t) \in Seq(TypeRec)
         /\ t = "object" => Line(path, t) = <<types[t]>>
         /\ HasParent(t) => Line(path, t) = <<types[t]>> \o Line(path, types[t].parent)
<1> DEFINE p == types[t].parent
<1>0. Tree(path) /\ types \in [Known -> TypeRec]
  BY DEF Sized
<1>1. ASSUME NEW s \in Known
      PROVE  /\ path[s] \in Seq(Known) /\ Len(path[s]) \in Nat
             /\ Line(path, s) \in Seq(TypeRec) /\ Len(Line(path, s)) = Len(path[s])
             /\ \A i \in 1 .. Len(path[s]) : Line(path, s)[i] = types[path[s][i]]
  <2>1. path[s] \in Seq(Known) /\ Len(path[s]) \in Nat
    BY <1>0, Steps
  <2>2. \A i \in 1 .. Len(path[s]) : types[path[s][i]] \in TypeRec
    BY <1>0, <2>1
  <2> QED BY <2>1, <2>2 DEF Line
<1>2. ASSUME t = "object" PROVE Line(path, t) = <<types[t]>>
  <2>1. Len(path[t]) = 1 /\ path[t][1] = t
    BY <1>0, <1>2, Steps
  <2>2. Len(Line(path, t)) = 1 /\ Line(path, t)[1] = types[t] /\ Line(path, t) \in Seq(TypeRec)
    BY <1>1, <2>1
  <2> QED BY <2>2
<1>3. ASSUME HasParent(t) PROVE Line(path, t) = <<types[t]>> \o Line(path, p)
  <2>1. /\ p \in Known /\ Len(path[t]) = Len(path[p]) + 1 /\ path[t][1] = t
        /\ \A i \in 1 .. Len(path[p]) : path[t][i + 1] = path[p][i]
    BY <1>3, Steps
  <2> DEFINE a == Line(path, t)
             b == Line(path, p)
             n == Len(path[p])
  <2>2. /\ a \in Seq(TypeRec) /\ b \in Seq(TypeRec) /\ n \in Nat /\ Len(a) = n + 1 /\ Len(b) = n
        /\ a[1] = types[t]
    <3>1. /\ a \in Seq(TypeRec) /\ Len(a) = Len(path[t]) /\ Len(path[t]) \in Nat
          /\ \A i \in 1 .. Len(path[t]) : a[i] = types[path[t][i]]
      BY <1>1
    <3>2. b \in Seq(TypeRec) /\ Len(b) = n /\ n \in Nat
      BY <1>1, <2>1
    <3> HIDE DEF a, b, n, p
    <3>3. 1 \in 1 .. Len(path[t]) /\ Len(path[t]) = n + 1
      BY <2>1, <3>2 DEF n
    <3> QED BY <2>1, <3>1, <3>2, <3>3
  <2>3. ASSUME NEW i \in 1 .. n PROVE a[i + 1] = b[i]
    <3>1. i + 1 \in 1 .. Len(path[t])
      BY <2>1, <2>2
    <3>2. a[i + 1] = types[path[t][i + 1]]
      BY <1>1, <3>1
    <3>3. b[i] = types[path[p][i]]
      BY <1>1, <2>1
    <3> QED BY <2>1, <3>2, <3>3
  <2> HIDE DEF a, b, n
  <2>4. \A i \in 1 .. n + 1 : a[i] = (<<types[t]>> \o b)[i]
    <3> TAKE i \in 1 .. n + 1
    <3>1. CASE i = 1
      BY <2>2, <3>1
    <3>2. CASE i # 1
      <4>1. i - 1 \in 1 .. n /\ (i - 1) + 1 = i
        BY <2>2, <3>2
      <4>2. a[i] = b[i - 1]
        BY <2>3, <4>1
      <4>3. (<<types[t]>> \o b)[i] = b[i - 1]
        BY <2>2, <3>2, <4>1
      <4> QED BY <4>2, <4>3
    <3> QED BY <3>1, <3>2
  <2>5. (<<types[t]>> \o b) \in Seq(TypeRec) /\ Len(<<types[t]>> \o b) = n + 1
    BY <1>0, <2>2
  <2>6. a = <<types[t]>> \o b
    BY <2>2, <2>4, <2>5
  <2> QED BY <2>6 DEF a, b
<1> QED BY <1>1, <1>2, <1>3

LEMMA LineCons ==
  ASSUME NEW path, TableOK(path), NEW t \in Known
  PROVE  /\ Line(path, t) \in Seq(TypeRec)
         /\ t = "object" => Line(path, t) = <<types[t]>>
         /\ HasParent(t) => Line(path, t) = <<types[t]>> \o Line(path, types[t].parent)
BY LineOf DEF TableOK

\* What the invariant says.
LEMMA FieldsSound ==
  ASSUME NEW path, TableOK(path)
  PROVE  LayoutSound
<1> SUFFICES ASSUME NEW t \in Known, types[t].kind # "value"
             PROVE  Packed(types[t]) /\ Extends(types[t].fields, types[types[t].parent].fields)
  BY DEF LayoutSound, Packed, Extends, Place
<1>1. Packed(types[t])
  BY DEF TableOK
<1>2. CASE HasParent(t)
  BY <1>1, <1>2 DEF TableOK
<1>3. CASE ~HasParent(t)
  <2>1. types[types[t].parent] = types[t]
    BY <1>3 DEF TableOK, Tree, HasParent
  <2> QED BY <1>1, <2>1 DEF Extends
<1> QED BY <1>2, <1>3

LEMMA VisibleIs ==
  ASSUME NEW path, TableOK(path), NEW t \in Known, NEW n \in Visible(t)
  PROVE  n \in Name /\ Found(Line(path, t), n)
<1>1. Line(path, t) \in Seq(TypeRec) /\ OfTable(t) = Line(path, t)
  BY LineCons, OfTableIs DEF TableOK
<1>2. PICK i \in DOMAIN Line(path, t) : \E j \in DOMAIN Line(path, t)[i].methods :
        n = Line(path, t)[i].methods[j].name
  BY <1>1 DEF Visible, ToSet
<1>3. PICK j \in DOMAIN Line(path, t)[i].methods : n = Line(path, t)[i].methods[j].name
  BY <1>2
<1> DEFINE ty == Line(path, t)[i]
<1>4. ty \in TypeRec
  BY <1>1
<1> HIDE DEF ty
<1>5. ty.methods \in Seq(MethodRec)
  BY <1>4 DEF TypeRec
<1>6. j \in 1 .. Len(ty.methods) /\ ty.methods[j] \in MethodRec /\ ty.methods[j].name = n
  BY <1>3, <1>5 DEF ty
<1>7. Mine(ty, n) # 0
  BY <1>5, <1>6, MineIs
<1> QED BY <1>6, <1>7 DEF Found, MethodRec, ty

LEMMA SlotsAreDistinct ==
  ASSUME NEW path, TableOK(path)
  PROVE  SlotsDistinct
<1> SUFFICES ASSUME NEW t \in Known, NEW m \in Visible(t), NEW n \in Visible(t),
                    Slot(t, m) = Slot(t, n), ~Overlaid(t, m), ~Overlaid(t, n)
             PROVE  m = n
  BY DEF SlotsDistinct
<1> DEFINE L == Line(path, t)
<1>1. OfTable(t) = L /\ L \in Seq(TypeRec) /\ Numbered(L)
  BY LineCons, OfTableIs DEF TableOK
<1>2. m \in Name /\ Found(L, m) /\ n \in Name /\ Found(L, n)
  BY VisibleIs
<1> HIDE DEF L
<1>3. ~OverIn(L, m) /\ ~OverIn(L, n)
  BY <1>1 DEF Overlaid, OverIn, ToSet
<1>4. PICK x \in Slots(L) : x.name = m /\ x.id = TryLookup(L, m).id
  BY <1>1, <1>2, <1>3 DEF Numbered
<1>5. PICK y \in Slots(L) : y.name = n /\ y.id = TryLookup(L, n).id
  BY <1>1, <1>2, <1>3 DEF Numbered
<1>6. x.id = y.id
  BY <1>1, <1>4, <1>5 DEF Slot
<1> QED BY <1>1, <1>4, <1>5, <1>6 DEF Numbered

LEMMA SlotsAreInherited ==
  ASSUME NEW path, TableOK(path)
  PROVE  InheritedSlots
<1> SUFFICES ASSUME NEW t \in Known, HasParent(t), NEW n \in Visible(types[t].parent),
                    ~OverlaidIn(types[t], n)
             PROVE  Slot(t, n) = Slot(types[t].parent, n)
  BY DEF InheritedSlots
<1> DEFINE p == types[t].parent
           A == Line(path, p)
           ty == types[t]
<1>1. p \in Known /\ ty \in TypeRec
  BY DEF TableOK, Tree, Sized
<1>2. OfTable(p) = A /\ A \in Seq(TypeRec) /\ OfTable(t) = <<ty>> \o A
  BY <1>1, LineCons, OfTableIs DEF TableOK
<1>3. n \in Name /\ Found(A, n) /\ Agrees(ty, A)
  BY <1>1, VisibleIs DEF TableOK
<1> HIDE DEF A, p, ty
<1>4. TryLookup(OfTable(t), n) = IF Mine(ty, n) # 0 THEN ty.methods[Mine(ty, n)] ELSE TryLookup(A, n)
  BY <1>2, LookupCons
<1>5. CASE Mine(ty, n) # 0
  <2>1. ty.methods \in Seq(MethodRec)
    BY <1>1 DEF TypeRec
  <2>2. Mine(ty, n) \in DOMAIN ty.methods /\ ty.methods[Mine(ty, n)].name = n
    BY <1>5, <2>1, MineIs
  <2>3. ty.methods[Mine(ty, n)].id = TryLookup(A, n).id
    BY <1>3, <2>2 DEF Agrees, ty
  <2> QED BY <1>2, <1>4, <1>5, <2>3 DEF Slot, p
<1>6. CASE Mine(ty, n) = 0
  BY <1>2, <1>4, <1>6 DEF Slot, p
<1> QED BY <1>5, <1>6

LEMMA TypesOK ==
  ASSUME IInv
  PROVE  TypeOK /\ ForwardResolves
<1>1. PICK path : TableOK(path)
  BY DEF IInv
<1>2. ASSUME NEW t \in Known
      PROVE  /\ types[t].ok /\ types[t].name = t /\ types[t].parent \in Known
             /\ types[t].size \in Nat
             /\ \A i \in DOMAIN types[t].fields : types[t].fields[i].off \in Nat
             /\ \A i \in DOMAIN types[t].methods : types[t].methods[i].id \in Nat \ {0}
  <2>1. types[t].ok /\ types[t].name = t /\ types[t].parent \in Known /\ types[t] \in TypeRec
    BY <1>1 DEF TableOK, Tree, HasParent, Sized
  <2>2. /\ types[t].size \in Nat /\ types[t].fields \in Seq(FieldRec)
        /\ types[t].methods \in Seq(MethodRec)
    BY <2>1 DEF TypeRec
  <2>3. ASSUME NEW i \in DOMAIN types[t].fields PROVE types[t].fields[i].off \in Nat
    <3>1. types[t].fields[i] \in FieldRec
      BY <2>2
    <3> QED BY <3>1 DEF FieldRec
  <2>4. ASSUME NEW i \in DOMAIN types[t].methods PROVE types[t].methods[i].id \in Nat \ {0}
    <3>1. types[t].methods[i] \in MethodRec
      BY <2>2
    <3> QED BY <3>1 DEF MethodRec
  <2> QED BY <2>1, <2>2, <2>3, <2>4
<1> QED BY <1>2 DEF IInv, ForwardOK, TypeOK

-----------------------------------------------------------------------------
(* The steps. *)

\* A step that leaves the table alone.
LEMMA TableUnchanged ==
  ASSUME NEW path, TableOK(path), types' = types
  PROVE  TableOK(path)'
BY DEF TableOK, Tree, Kin, Sized, Line, Known, Bound

\* The kind that a deftype gives is that of the branch of its parent.
LEMMA FamilyIs ==
  ASSUME NEW path, TableOK(path), IsFiniteSet(DOMAIN fwd), NEW p \in Known
  PROVE  /\ Family(p) \in {"basic", "structure"} => types[p].kind # "value" /\
              \A i \in 1 .. Len(path[p]) : path[p][i] # "integer"
         /\ Family(p) = "value" => types[p].kind = "value" /\
              \A i \in 1 .. Len(path[p]) : path[p][i] \notin {"basic", "structure"}
<1>1. \A e : Tc(e, p) <=> \E i \in 1 .. Len(path[p]) : e = path[p][i]
  BY TcIs DEF TableOK
<1>2. \A i \in 1 .. Len(path[p]) :
        /\ path[p][i] \in {"basic", "structure"} => types[p].kind # "value"
        /\ path[p][i] = "integer" => types[p].kind = "value"
  BY DEF TableOK, Kin
<1>3. ASSUME Family(p) \in {"basic", "structure"} PROVE Tc("basic", p) \/ Tc("structure", p)
  BY <1>3 DEF Family, None
<1>4. ASSUME Family(p) = "value" PROVE Tc("integer", p) /\ ~Tc("basic", p) /\ ~Tc("structure", p)
  BY <1>4 DEF Family, None
<1>5. ASSUME Family(p) \in {"basic", "structure"}
      PROVE  types[p].kind # "value" /\ \A i \in 1 .. Len(path[p]) : path[p][i] # "integer"
  <2>1. types[p].kind # "value"
    BY <1>1, <1>2, <1>3, <1>5
  <2> QED BY <1>2, <2>1
<1>6. ASSUME Family(p) = "value"
      PROVE  types[p].kind = "value" /\
             \A i \in 1 .. Len(path[p]) : path[p][i] \notin {"basic", "structure"}
  BY <1>1, <1>2, <1>4, <1>6
<1> QED BY <1>5, <1>6

\* add_type puts a new type in.
LEMMA Registered ==
  ASSUME NEW path, TableOK(path), NEW name \in Name, name # None, name \notin Known, NEW p \in Known,
         NEW kind \in {"value", "structure", "basic"}, NEW ty, Finished(ty, name, p, kind), ty.ok,
         kind # "value" => \A i \in 1 .. Len(path[p]) : path[p][i] # "integer",
         kind = "value" => /\ types[p].kind = "value"
                           /\ \A i \in 1 .. Len(path[p]) : path[p][i] \notin {"basic", "structure"},
         types' = Register(name, ty)
  PROVE  \E q : TableOK(q)'
<1>1. PICK q : q = [t \in Known \cup {name} |-> IF t = name THEN <<name>> \o path[p] ELSE path[t]]
  OBVIOUS
<1>2. /\ Known' = Known \cup {name} /\ types'[name] = ty
      /\ \A t \in Known : types'[t] = types[t] /\ t # name
  BY DEF Register, Known
<1>3. /\ q[name] = <<name>> \o path[p] /\ \A t \in Known : q[t] = path[t]
  BY <1>1
<1>4. Tree(path) /\ types \in [Known -> TypeRec] /\ "object" \in Known /\ name # "object"
  BY DEF TableOK, Sized, Tree
<1>5. /\ \A t \in Known : path[t] \in Seq(Known) /\ Len(path[t]) \in Nat /\ Len(path[t]) <= Bound
      /\ Bound \in Nat /\ path["object"] = <<"object">> /\ types["object"].parent = "object"
      /\ \A t \in Known : HasParent(t) =>
           types[t].parent \in Known /\ path[t] = <<t>> \o path[types[t].parent]
  BY <1>4 DEF Tree
<1>6. ty.name = name /\ ty.parent = p /\ ty.kind = kind /\ ty \in TypeRec
  BY DEF Finished, Built
<1>7. /\ q[name] \in Seq(Known \cup {name}) /\ Len(q[name]) = Len(path[p]) + 1 /\ q[name][1] = name
      /\ \A i \in 1 .. Len(path[p]) : q[name][i + 1] = path[p][i]
  <2>1. path[p] \in Seq(Known \cup {name}) /\ <<name>> \in Seq(Known \cup {name})
    BY <1>5
  <2> QED BY <1>3, <1>5, <2>1
<1>8. Tree(q)'
  <2>1. q \in [Known' -> Seq(Known')]
    <3>1. \A t \in Known : q[t] \in Seq(Known \cup {name})
      BY <1>3, <1>5
    <3> QED BY <1>1, <1>2, <1>7, <3>1
  <2>2. Bound' = Bound + 1
    <3>1. IsFiniteSet(Known)
      BY DEF TableOK
    <3> QED BY <1>2, <3>1, FS_AddElement DEF Bound
  <2>3. \A t \in Known' : HasParent(t)' =>
          types'[t].parent \in Known' /\ q[t] = <<t>> \o q[types'[t].parent]
    <3> SUFFICES ASSUME NEW t \in Known', HasParent(t)
                 PROVE  types'[t].parent \in Known' /\ q[t] = <<t>> \o q[types'[t].parent]
      BY DEF HasParent
    <3>1. CASE t = name
      <4>1. types'[t].parent = p /\ p \in Known'
        BY <1>2, <1>6, <3>1
      <4> QED BY <1>3, <3>1, <4>1
    <3>2. CASE t \in Known
      <4>1. types'[t] = types[t] /\ types[t].parent \in Known /\ path[t] = <<t>> \o path[types[t].parent]
        BY <1>2, <1>5, <3>2
      <4>2. q[t] = path[t] /\ q[types[t].parent] = path[types[t].parent]
        BY <1>3, <3>2, <4>1
      <4> QED BY <1>2, <4>1, <4>2
    <3> QED BY <1>2, <3>1, <3>2
  <2>4. \A t \in Known' : Len(q[t]) <= Bound'
    BY <1>2, <1>3, <1>5, <1>7, <2>2
  <2>5. "object" \in Known' /\ types'["object"].parent = "object" /\ q["object"] = <<"object">>
    BY <1>2, <1>3, <1>4, <1>5
  <2> QED BY <1>5, <2>1, <2>2, <2>3, <2>4, <2>5 DEF Tree
<1>9. \A i \in 1 .. Len(q[name]) : i = 1 \/ (i - 1 \in 1 .. Len(path[p]) /\ q[name][i] = path[p][i - 1])
  <2> SUFFICES ASSUME NEW i \in 1 .. Len(q[name]), i # 1
               PROVE  i - 1 \in 1 .. Len(path[p]) /\ q[name][i] = path[p][i - 1]
    OBVIOUS
  <2>1. i - 1 \in 1 .. Len(path[p]) /\ (i - 1) + 1 = i
    BY <1>5, <1>7
  <2> QED BY <1>7, <2>1
<1>10. {"basic", "structure", "integer"} \subseteq Known
  BY DEF TableOK
<1>11. Kin(q)'
  <2> SUFFICES ASSUME NEW t \in Known', NEW i \in 1 .. Len(q[t])
               PROVE  /\ q[t][i] \in {"basic", "structure"} => types'[t].kind # "value"
                      /\ q[t][i] = "integer" => types'[t].kind = "value"
    BY DEF Kin
  <2>1. CASE t \in Known
    BY <1>2, <1>3, <2>1 DEF TableOK, Kin
  <2>2. CASE t = name
    <3>1. q[t][i] = name \/ \E j \in 1 .. Len(path[p]) : q[t][i] = path[p][j]
      BY <1>7, <1>9, <2>2
    <3>2. name \notin {"basic", "structure", "integer"} /\ types'[t].kind = kind
      BY <1>2, <1>6, <1>10, <2>2
    <3> QED BY <3>1, <3>2
  <2> QED BY <1>2, <2>1, <2>2
<1>12. Sized'
  <2>1. types' \in [Known' -> TypeRec]
    BY <1>2, <1>4, <1>6 DEF Register
  <2>2. ASSUME kind = "value" PROVE ty.size # 0 /\ ty.fields = <<>>
    <3>1. types[p].kind = "value" /\ ty.fields = types[p].fields /\ ty.size = types[p].size
      BY <2>2 DEF Finished
    <3> QED BY <3>1 DEF TableOK, Sized
  <2>3. \A t \in Known' : types'[t].kind = "value" => types'[t].size # 0 /\ types'[t].fields = <<>>
    BY <1>2, <1>6, <2>2 DEF TableOK, Sized
  <2> QED BY <2>1, <2>3 DEF Sized
<1> DEFINE NL(t) == [i \in 1 .. Len(q[t]) |-> types'[q[t][i]]]
<1>13. \A t \in Known : NL(t) = Line(path, t)
  <2> TAKE t \in Known
  <2>1. \A i \in 1 .. Len(path[t]) : types'[path[t][i]] = types[path[t][i]]
    BY <1>2, <1>5
  <2>2. NL(t) = [i \in 1 .. Len(path[t]) |-> types'[path[t][i]]]
    BY <1>3
  <2> QED BY <2>1, <2>2 DEF Line
<1>14. NL(name) = <<ty>> \o Line(path, p)
  <2> DEFINE n == Len(path[p])
             b == Line(path, p)
             a == [i \in 1 .. n + 1 |-> types'[q[name][i]]]
  <2>1. NL(name) = a
    BY <1>7
  <2>2. b \in Seq(TypeRec) /\ Len(b) = n /\ n \in Nat /\ \A i \in 1 .. n : b[i] = types[path[p][i]]
    <3>1. b \in Seq(TypeRec)
      BY LineCons
    <3>2. n \in Nat
      BY <1>5
    <3> QED BY <3>1, <3>2 DEF Line
  <2>3. a[1] = ty
    BY <1>2, <1>7, <2>2
  <2>4. ASSUME NEW i \in 1 .. n PROVE a[i + 1] = b[i]
    <3>1. i + 1 \in 1 .. n + 1 /\ q[name][i + 1] = path[p][i] /\ path[p][i] \in Known
      BY <1>5, <1>7, <2>2
    <3>2. a[i + 1] = types'[q[name][i + 1]]
      BY <3>1
    <3> HIDE DEF a, b
    <3> QED BY <1>2, <2>2, <3>1, <3>2
  <2>5. DOMAIN a = 1 .. n + 1
    OBVIOUS
  <2>6. (<<ty>> \o b) \in Seq(TypeRec) /\ Len(<<ty>> \o b) = n + 1 /\ DOMAIN (<<ty>> \o b) = 1 .. n + 1
    BY <1>6, <2>2
  <2> HIDE DEF b, n
  <2>7. \A i \in 1 .. n + 1 : a[i] = (<<ty>> \o b)[i]
    <3> HIDE DEF a
    <3> TAKE i \in 1 .. n + 1
    <3>1. CASE i = 1
      BY <2>2, <2>3, <3>1
    <3>2. CASE i # 1
      <4>1. i - 1 \in 1 .. n /\ (i - 1) + 1 = i
        BY <2>2, <3>2
      <4>2. a[i] = b[i - 1]
        BY <2>4, <4>1
      <4>3. (<<ty>> \o b)[i] = b[i - 1]
        BY <2>2, <3>2, <4>1
      <4> QED BY <4>2, <4>3
    <3> QED BY <3>1, <3>2
  <2>8. a = [i \in 1 .. n + 1 |-> (<<ty>> \o b)[i]]
    BY <2>7
  <2>9. <<ty>> \o b = [i \in 1 .. n + 1 |-> (<<ty>> \o b)[i]]
    BY <2>6
  <2> QED BY <2>1, <2>8, <2>9 DEF b
<1>15. OfTable(p) = Line(path, p)
  BY <1>4, OfTableIs
<1>16. Numbered(<<ty>> \o Line(path, p)) /\ Agrees(ty, Line(path, p))
  BY <1>15 DEF Finished, Built
<1> HIDE DEF NL
<1>17. ASSUME NEW t \in Known' PROVE Numbered(NL(t))
  <2>1. CASE t \in Known
    BY <1>13, <2>1 DEF TableOK
  <2>2. CASE t = name
    BY <1>14, <1>16, <2>2
  <2> QED BY <1>2, <2>1, <2>2
<1>18. ASSUME NEW t \in Known', HasParent(t)'
       PROVE  /\ Extends(types'[t].fields, types'[types'[t].parent].fields)
              /\ Agrees(types'[t], NL(types'[t].parent))
  <2>1. CASE t \in Known
    <3>1. HasParent(t) /\ types'[t] = types[t] /\ types[t].parent \in Known
      BY <1>2, <1>5, <1>18, <2>1 DEF HasParent
    <3>2. NL(types'[t].parent) = Line(path, types[t].parent)
      BY <1>13, <3>1
    <3>3. types'[types'[t].parent] = types[types[t].parent]
      BY <1>2, <3>1
    <3> QED BY <2>1, <3>1, <3>2, <3>3 DEF TableOK
  <2>2. CASE t = name
    <3>1. types'[t] = ty /\ types'[t].parent = p /\ types'[p] = types[p]
      BY <1>2, <1>6, <2>2
    <3>2. NL(types'[t].parent) = Line(path, p)
      BY <1>13, <3>1
    <3> QED BY <1>16, <3>1, <3>2 DEF Finished
  <2> QED BY <1>2, <2>1, <2>2
<1>19. /\ {"basic", "structure", "integer"} \subseteq Known' /\ None \notin Known' /\ Known' \subseteq Name
       /\ IsFiniteSet(Known')
  BY <1>2, FS_AddElement DEF TableOK
<1>20. ASSUME NEW t \in Known' PROVE types'[t].ok /\ types'[t].name = t /\ Packed(types'[t])
  BY <1>2, <1>6 DEF TableOK, Finished
<1>21. /\ \A t \in Known' : Numbered(Line(q, t)')
       /\ \A t \in Known' : HasParent(t)' =>
            /\ Extends(types'[t].fields, types'[types'[t].parent].fields)
            /\ Agrees(types'[t], Line(q, types[t].parent)')
  BY <1>17, <1>18 DEF Line, NL
<1>22. TableOK(q)'
  BY <1>8, <1>11, <1>12, <1>19, <1>20, <1>21 DEF TableOK
<1> QED BY <1>22

-----------------------------------------------------------------------------
(* The forward declarations, and deftype. *)

GoodForward(f) ==
  /\ IsFiniteSet(DOMAIN f) /\ DOMAIN f \subseteq {g.name : g \in Forms}
  /\ \A n \in DOMAIN f : f[n] \in Known

LEMMA ForwardDeclared ==
  ASSUME NEW g \in Forms, NEW p \in Known, GoodForward(fwd)
  PROVE  GoodForward(ForwardDeclare(g.name, p))
<1> DEFINE f == [n \in DOMAIN fwd \cup {g.name} |-> IF n = g.name THEN p ELSE fwd[n]]
<1>1. ForwardDeclare(g.name, p) = fwd \/ ForwardDeclare(g.name, p) = f
  BY DEF ForwardDeclare
<1>2. DOMAIN f = DOMAIN fwd \cup {g.name} /\ \A n \in DOMAIN f : f[n] = IF n = g.name THEN p ELSE fwd[n]
  OBVIOUS
<1> HIDE DEF f
<1>3. IsFiniteSet(DOMAIN f)
  BY <1>2, FS_AddElement DEF GoodForward
<1>4. GoodForward(f)
  BY <1>2, <1>3 DEF GoodForward
<1> QED BY <1>1, <1>4

LEMMA Forgotten ==
  ASSUME NEW f, GoodForward(f), NEW name
  PROVE  GoodForward(Forget(f, name))
<1>1. DOMAIN Forget(f, name) = DOMAIN f \ {name} /\ \A n \in DOMAIN f \ {name} : Forget(f, name)[n] = f[n]
  BY DEF Forget
<1>2. IsFiniteSet(DOMAIN f \ {name})
  BY FS_RemoveElement DEF GoodForward
<1> QED BY <1>1, <1>2 DEF GoodForward

\* add_type of a type that parse_deftype finished: the invariant, and nothing that
\* was in the table changes.
LEMMA AddTypeKeeps ==
  ASSUME NEW path, TableOK(path), NEW g \in Forms, NEW p \in Known,
         NEW kind \in {"value", "structure", "basic"}, NEW ty, Finished(ty, g.name, p, kind), ty.ok,
         kind # "value" => \A i \in 1 .. Len(path[p]) : path[p][i] # "integer",
         kind = "value" => /\ types[p].kind = "value"
                           /\ \A i \in 1 .. Len(path[p]) : path[p][i] \notin {"basic", "structure"},
         NEW declared, GoodForward(declared), AddType(g.name, ty, declared)
  PROVE  IInv' /\ \A t \in Known : t \in DOMAIN types' /\ types'[t] = types[t]
<1>0. g.name \in Name /\ g.name # None
  BY FormsAssumption, StringIsName
<1>1. CASE types' = types
  <2>1. TableOK(path)'
    BY <1>1, TableUnchanged
  <2>2. fwd' = declared \/ fwd' = Forget(declared, g.name)
    BY DEF AddType
  <2>3. res' \in {"ok", "error"}
    BY DEF AddType
  <2>4. GoodForward(fwd') /\ Known' = Known
    BY <1>1, <2>2, Forgotten DEF Known
  <2>5. ForwardOK'
    BY <2>3, <2>4 DEF ForwardOK, GoodForward, ForwardResolves
  <2> QED BY <1>1, <2>1, <2>5 DEF IInv, Known
<1>2. CASE g.name \notin Known /\ types' = Register(g.name, ty)
  <2>1. \E q : TableOK(q)'
    BY <1>0, <1>2, Registered
  <2>2. fwd' = declared \/ fwd' = Forget(declared, g.name)
    BY DEF AddType
  <2>3. res' \in {"ok", "error"}
    BY DEF AddType
  <2>4. GoodForward(fwd') /\ Known \subseteq Known'
    BY <1>2, <2>2, Forgotten DEF Known, Register
  <2>5. ForwardOK'
    BY <2>3, <2>4 DEF ForwardOK, GoodForward, ForwardResolves
  <2>6. \A t \in Known : t \in DOMAIN types' /\ types'[t] = types[t]
    BY <1>2 DEF Register
  <2> QED BY <2>1, <2>5, <2>6 DEF IInv
<1> QED BY <1>1, <1>2 DEF AddType

\* A deftype that gets no further than the forward declarations.
LEMMA ErrorKeeps ==
  ASSUME IInv, types' = types, res' = "error", GoodForward(fwd')
  PROVE  IInv' /\ \A t \in Known : t \in DOMAIN types' /\ types'[t] = types[t]
<1>1. PICK path : TableOK(path)
  BY DEF IInv
<1>2. TableOK(path)'
  BY <1>1, TableUnchanged
<1>3. ForwardOK'
  BY DEF ForwardOK, GoodForward, ForwardResolves, Known
<1> QED BY <1>2, <1>3 DEF IInv, Known

\* Every step keeps the invariant, and every type that is in the table.
LEMMA StepKeeps ==
  ASSUME IInv, Next
  PROVE  IInv' /\ \A t \in Known : t \in DOMAIN types' /\ types'[t] = types[t]
<1>0. GoodForward(fwd) /\ IsFiniteSet(DOMAIN fwd)
  BY DEF IInv, ForwardOK, ForwardResolves, GoodForward
<1>1. PICK path : TableOK(path)
  BY DEF IInv
<1>2. PICK g \in Forms : \/ DeftypeRefused(g.name, g.parent)
                         \/ DeftypeStructure(g.name, g.parent, g.shape)
                         \/ DeftypeBitfield(g.name, g.parent, g.shape)
  BY DEF Next
<1> DEFINE name == g.name
           p == g.parent
           s == g.shape
<1>3. name \in Name /\ Shape(s)
  BY FormsAssumption, StringIsName DEF Shape
<1>4. ASSUME p \in Known
      PROVE  Sized /\ p \in Name /\ Packed(types[p]) /\ Numbered(OfTable(p))
  <2>1. OfTable(p) = Line(path, p)
    BY <1>1, <1>4, OfTableIs DEF TableOK
  <2> QED BY <1>1, <1>4, <2>1 DEF TableOK
<1>5. CASE DeftypeRefused(name, p)
  BY <1>0, <1>5, ErrorKeeps DEF DeftypeRefused
<1>6. CASE DeftypeStructure(name, p, s)
  <2> DEFINE kind == Family(p)
             ty == ParseStructure(Inherit(name, p, kind), s)
             declared == ForwardDeclare(name, p)
  <2>1. p \in Known /\ kind \in {"basic", "structure"}
    BY <1>6 DEF DeftypeStructure, Refused
  <2>2. \A i \in 1 .. Len(path[p]) : path[p][i] # "integer"
    BY <1>0, <1>1, <2>1, FamilyIs
  <2>3. GoodForward(declared)
    BY <1>0, <2>1, ForwardDeclared
  <2>4. \/ res' = "error" /\ types' = types /\ fwd' = fwd
        \/ res' = "error" /\ types' = types /\ fwd' = declared
        \/ ty.ok /\ AddType(name, ty, declared)
    BY <1>6 DEF DeftypeStructure
  <2> HIDE DEF kind, ty, declared
  <2>5. CASE ty.ok /\ AddType(name, ty, declared)
    <3>1. Finished(ty, name, p, kind)
      BY <1>3, <1>4, <2>1, <2>5, ParseStructureIs DEF ty
    <3>2. kind \in {"value", "structure", "basic"} /\ kind # "value"
      BY <2>1
    <3> QED BY <1>1, <2>1, <2>2, <2>3, <2>5, <3>1, <3>2, AddTypeKeeps
  <2>6. CASE res' = "error" /\ types' = types /\ (fwd' = fwd \/ fwd' = declared)
    <3>1. GoodForward(fwd')
      BY <1>0, <2>3, <2>6
    <3> QED BY <2>6, <3>1, ErrorKeeps
  <2> QED BY <2>4, <2>5, <2>6
<1>7. CASE DeftypeBitfield(name, p, s)
  <2> DEFINE ty == ParseBitfield(Inherit(name, p, "value"), s)
  <2>1. p \in Known /\ Family(p) = "value"
    BY <1>7 DEF DeftypeBitfield, Refused
  <2>2. types[p].kind = "value" /\ \A i \in 1 .. Len(path[p]) : path[p][i] \notin {"basic", "structure"}
    BY <1>0, <1>1, <2>1, FamilyIs
  <2>3. \/ res' = "error" /\ types' = types /\ fwd' = fwd
        \/ ty.ok /\ AddType(name, ty, fwd)
    BY <1>7 DEF DeftypeBitfield
  <2> HIDE DEF ty
  <2>4. CASE ty.ok /\ AddType(name, ty, fwd)
    <3>1. Finished(ty, name, p, "value")
      BY <1>3, <1>4, <2>1, <2>4, ParseBitfieldIs DEF ty
    <3> QED BY <1>0, <1>1, <2>1, <2>2, <2>4, <3>1, AddTypeKeeps
  <2>5. CASE res' = "error" /\ types' = types /\ fwd' = fwd
    BY <1>0, <2>5, ErrorKeeps
  <2> QED BY <2>3, <2>4, <2>5
<1> QED BY <1>2, <1>5, <1>6, <1>7

-----------------------------------------------------------------------------
(* The builtin types. *)

Roots == {"object", "structure", "basic", "integer", "uint8"}

LEMMA BuiltinsAre ==
  ASSUME Init
  PROVE  /\ Known = Roots
         /\ types["object"] = Builtin("object", "object", "value", 4, <<>>)
         /\ types["structure"] = Builtin("structure", "object", "structure", 0, <<>>)
         /\ types["basic"] = Builtin("basic", "structure", "basic", 8, <<Header>>)
         /\ types["integer"] = Builtin("integer", "object", "value", 8, <<>>)
         /\ types["uint8"] = Builtin("uint8", "integer", "value", 1, <<>>)
BY DEF Init, Builtins, Known, Roots

\* What a builtin type is made of.
BuiltinLike(b, n, p, k, z, fs) ==
  /\ b \in TypeRec /\ b.ok /\ b.name = n /\ b.parent = p /\ b.kind = k /\ b.size = z /\ b.fields = fs
  /\ n # "object" => b.methods = <<>>
  /\ n = "object" => b.methods = <<BuiltinMethod(1, "delete"), BuiltinMethod(2, "print")>>

LEMMA BuiltinIs ==
  ASSUME NEW n \in Name, NEW p \in Name, NEW k \in {"value", "structure", "basic"}, NEW z \in Nat,
         NEW fs \in Seq(FieldRec)
  PROVE  BuiltinLike(Builtin(n, p, k, z, fs), n, p, k, z, fs)
<1> DEFINE ms == IF n = "object" THEN <<BuiltinMethod(1, "delete"), BuiltinMethod(2, "print")>> ELSE <<>>
           b == [ok |-> TRUE, name |-> n, parent |-> p, kind |-> k, new |-> None, methods |-> ms,
                 fields |-> fs, size |-> z, body |-> None, final |-> FALSE]
<1>0. {"delete", "print", "_type_", None} \subseteq Name
  BY DEF Name
<1>1. BuiltinMethod(1, "delete") \in MethodRec /\ BuiltinMethod(2, "print") \in MethodRec
  BY <1>0 DEF BuiltinMethod, MethodRec
<1>2. ms \in Seq(MethodRec)
  <2>1. <<>> \in Seq(MethodRec)
        /\ <<BuiltinMethod(1, "delete"), BuiltinMethod(2, "print")>> \in Seq(MethodRec)
    BY <1>1
  <2> QED BY <2>1
<1>3. Builtin(n, p, k, z, fs) = b
  BY DEF Builtin
<1>4. ms = IF n = "object" THEN <<BuiltinMethod(1, "delete"), BuiltinMethod(2, "print")>> ELSE <<>>
  OBVIOUS
<1> HIDE DEF ms
<1>5. b \in TypeRec
  BY <1>0, <1>2 DEF TypeRec
<1>6. /\ b.name = n /\ b.parent = p /\ b.kind = k /\ b.size = z /\ b.fields = fs
      /\ b.ok /\ b.methods = ms
  OBVIOUS
<1> HIDE DEF b
<1> QED BY <1>3, <1>4, <1>5, <1>6 DEF BuiltinLike

\* The two methods of object, as if declared one after the other.
LEMMA ObjectNumbered ==
  ASSUME NEW ty \in TypeRec, ty.methods = <<BuiltinMethod(1, "delete"), BuiltinMethod(2, "print")>>
  PROVE  Numbered(<<ty>>)
<1> DEFINE m1 == BuiltinMethod(1, "delete")
           m2 == BuiltinMethod(2, "print")
           ty0 == [ty EXCEPT !.methods = <<>>]
           ty1 == [ty EXCEPT !.methods = <<m1>>]
           E == <<>>
<1>0. {"delete", "print", "_type_", None} \subseteq Name
  BY DEF Name
<1>1. m1 \in MethodRec /\ m2 \in MethodRec
  BY <1>0 DEF BuiltinMethod, MethodRec
<1>2. /\ m1.name = "delete" /\ m2.name = "print" /\ m1.id = 1 /\ m2.id = 2
      /\ Primary(m1) /\ Primary(m2) /\ m1.at = None /\ m2.at = None
  BY DEF BuiltinMethod, Primary
<1> HIDE DEF m1, m2
<1>3. /\ ty0 \in TypeRec /\ ty0.methods = <<>> /\ ty1 \in TypeRec /\ ty1.methods = <<m1>>
  <2>1. <<>> \in Seq(MethodRec) /\ <<m1>> \in Seq(MethodRec)
    BY <1>1
  <2> QED BY <2>1 DEF TypeRec
<1> HIDE DEF ty0, ty1
<1>4. ty1.methods = Append(ty0.methods, m1) /\ ty.methods = Append(ty1.methods, m2)
  BY <1>1, <1>3 DEF m1, m2
<1>5. Numbered(E) /\ NextMethodId(E) = 1
  <2>1. E \in Seq(TypeRec) /\ Slots(E) = {} /\ \A n : ~Found(E, n)
    BY DEF Slots, Found
  <2>2. NextMethodId(E) = 1
    BY DEF NextMethodId, SelectInSeq
  <2> QED BY <2>1, <2>2 DEF Numbered
<1>6. E \in Seq(TypeRec) /\ \A n : ~Found(E, n)
  BY DEF Found
<1> HIDE DEF E
<1>7. Numbered(<<ty0>> \o E) /\ Agrees(ty0, E)
  BY <1>3, <1>5, NumberedFresh
<1>8. NewSlot(ty0, E, m1)
  <2>1. Mine(ty0, "delete") = 0 /\ MyLast(ty0) = 0
    BY <1>3 DEF Mine, MyLast, SelectInSeq, SelectLastInSeq
  <2>2. ~Found(<<ty0>> \o E, "delete")
    BY <1>6, <2>1, LookupCons
  <2>3. NextMethodId(<<ty0>> \o E) = 1
    BY <1>5, <1>6, <2>1, NextCons
  <2> QED BY <1>2, <2>2, <2>3 DEF NewSlot
<1>9. Numbered(<<ty1>> \o E) /\ Agrees(ty1, E)
  BY <1>1, <1>3, <1>4, <1>6, <1>7, <1>8, NumberedAdd
<1>10. NewSlot(ty1, E, m2)
  <2>0. ty1.methods \in Seq(MethodRec) /\ Len(ty1.methods) = 1 /\ ty1.methods[1] = m1
    BY <1>1, <1>3
  <2>1. Mine(ty1, "print") = 0
    <3>1. Mine(ty1, "print") \in 0 .. 1 /\ (Mine(ty1, "print") # 0 => ty1.methods[Mine(ty1, "print")].name = "print")
      BY <2>0, MineIs
    <3>2. m1.name # "print"
      BY <1>2
    <3> QED BY <2>0, <3>1, <3>2
  <2>2. MyLast(ty1) = 1
    <3>1. MyLast(ty1) \in 0 .. 1 /\ (\A i \in 1 .. 1 : Primary(ty1.methods[i]) => MyLast(ty1) # 0)
      BY <2>0, LastIs
    <3> QED BY <1>2, <2>0, <3>1
  <2>3. ~Found(<<ty1>> \o E, "print")
    BY <1>6, <2>1, LookupCons
  <2>4. NextMethodId(<<ty1>> \o E) = 2
    <3>1. NextMethodId(<<ty1>> \o E) = ty1.methods[MyLast(ty1)].id + 1
      BY <1>6, <2>2, NextCons
    <3> QED BY <1>2, <2>0, <2>2, <3>1
  <2> QED BY <1>2, <2>3, <2>4 DEF NewSlot
<1>11. Numbered(<<ty>> \o E)
  BY <1>1, <1>3, <1>4, <1>6, <1>9, <1>10, NumberedAdd
<1> QED BY <1>11 DEF E

LEMMA InitHolds ==
  ASSUME Init
  PROVE  IInv
<1>0. /\ Known = Roots
      /\ types["object"] = Builtin("object", "object", "value", 4, <<>>)
      /\ types["structure"] = Builtin("structure", "object", "structure", 0, <<>>)
      /\ types["basic"] = Builtin("basic", "structure", "basic", 8, <<Header>>)
      /\ types["integer"] = Builtin("integer", "object", "value", 8, <<>>)
      /\ types["uint8"] = Builtin("uint8", "integer", "value", 1, <<>>)
  BY BuiltinsAre
<1>1. Roots \subseteq Name /\ Header \in FieldRec /\ <<>> \in Seq(FieldRec) /\ <<Header>> \in Seq(FieldRec)
  <2>1. Roots \subseteq Name /\ {"type", "sid64"} \subseteq Name
    BY DEF Roots, Name
  <2>2. Header \in FieldRec
    BY <2>1 DEF Header, FieldRec
  <2> HIDE DEF Header
  <2> QED BY <2>1, <2>2
<1>a. /\ BuiltinLike(types["object"], "object", "object", "value", 4, <<>>)
      /\ BuiltinLike(types["structure"], "structure", "object", "structure", 0, <<>>)
      /\ BuiltinLike(types["basic"], "basic", "structure", "basic", 8, <<Header>>)
      /\ BuiltinLike(types["integer"], "integer", "object", "value", 8, <<>>)
      /\ BuiltinLike(types["uint8"], "uint8", "integer", "value", 1, <<>>)
  <2>1. /\ "object" \in Name /\ "structure" \in Name /\ "basic" \in Name /\ "integer" \in Name
        /\ "uint8" \in Name
    BY <1>1 DEF Roots
  <2>2. /\ "value" \in {"value", "structure", "basic"} /\ "structure" \in {"value", "structure", "basic"}
        /\ "basic" \in {"value", "structure", "basic"}
    OBVIOUS
  <2>3. 0 \in Nat /\ 1 \in Nat /\ 4 \in Nat /\ 8 \in Nat
    OBVIOUS
  <2>4. BuiltinLike(types["object"], "object", "object", "value", 4, <<>>)
    BY <1>0, <1>1, <2>1, <2>2, <2>3, BuiltinIs
  <2>5. BuiltinLike(types["structure"], "structure", "object", "structure", 0, <<>>)
    BY <1>0, <1>1, <2>1, <2>2, <2>3, BuiltinIs
  <2>6. BuiltinLike(types["basic"], "basic", "structure", "basic", 8, <<Header>>)
    BY <1>0, <1>1, <2>1, <2>2, <2>3, BuiltinIs
  <2>7. BuiltinLike(types["integer"], "integer", "object", "value", 8, <<>>)
    BY <1>0, <1>1, <2>1, <2>2, <2>3, BuiltinIs
  <2>8. BuiltinLike(types["uint8"], "uint8", "integer", "value", 1, <<>>)
    BY <1>0, <1>1, <2>1, <2>2, <2>3, BuiltinIs
  <2> QED BY <2>4, <2>5, <2>6, <2>7, <2>8
<1>o. LET b == types["object"]
      IN /\ b \in TypeRec /\ b.name = "object" /\ b.parent = "object" /\ b.kind = "value" /\ b.size = 4
         /\ b.fields = <<>> /\ b.ok
         /\ b.methods = <<BuiltinMethod(1, "delete"), BuiltinMethod(2, "print")>>
  BY <1>a DEF BuiltinLike
<1>s. LET b == types["structure"]
      IN /\ b \in TypeRec /\ b.name = "structure" /\ b.parent = "object" /\ b.kind = "structure"
         /\ b.size = 0 /\ b.fields = <<>> /\ b.ok /\ b.methods = <<>>
  BY <1>a DEF BuiltinLike
<1>b. LET b == types["basic"]
      IN /\ b \in TypeRec /\ b.name = "basic" /\ b.parent = "structure" /\ b.kind = "basic"
         /\ b.size = 8 /\ b.fields = <<Header>> /\ b.ok /\ b.methods = <<>>
  BY <1>a DEF BuiltinLike
<1>i. LET b == types["integer"]
      IN /\ b \in TypeRec /\ b.name = "integer" /\ b.parent = "object" /\ b.kind = "value"
         /\ b.size = 8 /\ b.fields = <<>> /\ b.ok /\ b.methods = <<>>
  BY <1>a DEF BuiltinLike
<1>u. LET b == types["uint8"]
      IN /\ b \in TypeRec /\ b.name = "uint8" /\ b.parent = "integer" /\ b.kind = "value"
         /\ b.size = 1 /\ b.fields = <<>> /\ b.ok /\ b.methods = <<>>
  BY <1>a DEF BuiltinLike
<1>2. types \in [Known -> TypeRec]
  <2>1. types = [t \in Known |-> types[t]]
    BY DEF Init, Builtins, Known
  <2>2. \A t \in Known : types[t] \in TypeRec
    BY <1>0, <1>o, <1>s, <1>b, <1>i, <1>u DEF Roots
  <2> QED BY <2>1, <2>2
<1>3. PICK path : path = [t \in Known |->
        IF t = "object" THEN <<"object">>
        ELSE IF t = "structure" THEN <<"structure", "object">>
        ELSE IF t = "basic" THEN <<"basic", "structure", "object">>
        ELSE IF t = "integer" THEN <<"integer", "object">>
        ELSE <<"uint8", "integer", "object">>]
  OBVIOUS
<1>4. /\ path["object"] = <<"object">> /\ path["structure"] = <<"structure", "object">>
      /\ path["basic"] = <<"basic", "structure", "object">>
      /\ path["integer"] = <<"integer", "object">>
      /\ path["uint8"] = <<"uint8", "integer", "object">>
  BY <1>0, <1>3 DEF Roots
<1>5. IsFiniteSet(Known) /\ Bound \in Nat /\ Bound >= 3
  <2> DEFINE S1 == {} \cup {"object"}
             S2 == S1 \cup {"structure"}
             S3 == S2 \cup {"basic"}
             S4 == S3 \cup {"integer"}
             S5 == S4 \cup {"uint8"}
  <2>1. IsFiniteSet(S1) /\ Cardinality(S1) = 1
    BY FS_EmptySet, FS_AddElement
  <2>2. IsFiniteSet(S2) /\ Cardinality(S2) = 2
    <3>1. "structure" \notin S1
      OBVIOUS
    <3> HIDE DEF S1
    <3> QED BY <2>1, <3>1, FS_AddElement
  <2>3. IsFiniteSet(S3) /\ Cardinality(S3) = 3
    <3>1. "basic" \notin S2
      OBVIOUS
    <3> HIDE DEF S2
    <3> QED BY <2>2, <3>1, FS_AddElement
  <2>4. IsFiniteSet(S4)
    <3> HIDE DEF S3
    <3> QED BY <2>3, FS_AddElement
  <2>5. IsFiniteSet(S5)
    <3> HIDE DEF S4
    <3> QED BY <2>4, FS_AddElement
  <2>6. Known = S5 /\ S3 \in SUBSET S5
    BY <1>0 DEF Roots
  <2> HIDE DEF S3, S5
  <2>7. Cardinality(S3) <= Cardinality(S5) /\ Cardinality(S5) \in Nat
    BY <2>5, <2>6, FS_Subset, FS_CardinalityType
  <2> QED BY <2>3, <2>5, <2>6, <2>7 DEF Bound
<1>6. Tree(path)
  <2>1. path \in [Known -> Seq(Known)]
    <3>1. /\ "object" \in Known /\ "structure" \in Known /\ "basic" \in Known
          /\ "integer" \in Known /\ "uint8" \in Known
      BY <1>0 DEF Roots
    <3>2. path["object"] \in Seq(Known)
      BY <1>4, <3>1
    <3>3. path["structure"] \in Seq(Known)
      BY <1>4, <3>1
    <3>4. path["basic"] \in Seq(Known)
      BY <1>4, <3>1
    <3>5. path["integer"] \in Seq(Known)
      BY <1>4, <3>1
    <3>6. path["uint8"] \in Seq(Known)
      BY <1>4, <3>1
    <3>7. \A t \in Known : path[t] \in Seq(Known)
      BY <1>0, <3>2, <3>3, <3>4, <3>5, <3>6 DEF Roots
    <3> QED BY <1>3, <3>7
  <2>2. \A t \in Known : HasParent(t) =>
          types[t].parent \in Known /\ path[t] = <<t>> \o path[types[t].parent]
    <3>1. path["structure"] = <<"structure">> \o path["object"] /\ path["integer"] = <<"integer">> \o path["object"]
      BY <1>4
    <3>2. path["basic"] = <<"basic">> \o path["structure"] /\ path["uint8"] = <<"uint8">> \o path["integer"]
      BY <1>4
    <3>3. /\ types["structure"].parent = "object" /\ types["integer"].parent = "object"
          /\ types["basic"].parent = "structure" /\ types["uint8"].parent = "integer"
      BY <1>s, <1>b, <1>i, <1>u
    <3>4. /\ "object" \in Known /\ "structure" \in Known /\ "integer" \in Known
          /\ \A t \in Known : HasParent(t) => t \in {"structure", "basic", "integer", "uint8"}
      BY <1>0 DEF Roots, HasParent
    <3> QED BY <3>1, <3>2, <3>3, <3>4
  <2>3. \A t \in Known : Len(path[t]) \in {1, 2, 3}
    <3>1. Len(path["object"]) = 1 /\ Len(path["structure"]) = 2 /\ Len(path["integer"]) = 2
      BY <1>4
    <3>2. Len(path["basic"]) = 3 /\ Len(path["uint8"]) = 3
      BY <1>4
    <3> QED BY <1>0, <3>1, <3>2 DEF Roots
  <2>4. ASSUME NEW t \in Known PROVE Len(path[t]) <= Bound
    <3> DEFINE l == Len(path[t])
    <3>1. l \in {1, 2, 3}
      BY <2>3
    <3> HIDE DEF l
    <3>2. l <= Bound
      BY <1>5, <3>1
    <3> QED BY <3>2 DEF l
  <2>5. "object" \in Known /\ types["object"].parent = "object" /\ path["object"] = <<"object">>
    BY <1>0, <1>4, <1>o DEF Roots
  <2> QED BY <1>5, <2>1, <2>2, <2>4, <2>5 DEF Tree
<1>7. Kin(path)
  <2>1. ASSUME NEW i \in 1 .. Len(path["object"]) PROVE path["object"][i] = "object"
    BY <1>4
  <2>2. ASSUME NEW i \in 1 .. Len(path["structure"]) PROVE path["structure"][i] \in {"structure", "object"}
    BY <1>4
  <2>3. ASSUME NEW i \in 1 .. Len(path["basic"]) PROVE path["basic"][i] \in {"basic", "structure", "object"}
    BY <1>4
  <2>4. ASSUME NEW i \in 1 .. Len(path["integer"]) PROVE path["integer"][i] \in {"integer", "object"}
    BY <1>4
  <2>5. ASSUME NEW i \in 1 .. Len(path["uint8"]) PROVE path["uint8"][i] \in {"uint8", "integer", "object"}
    BY <1>4
  <2> SUFFICES ASSUME NEW t \in Known, NEW i \in 1 .. Len(path[t])
               PROVE  /\ path[t][i] \in {"basic", "structure"} => types[t].kind # "value"
                      /\ path[t][i] = "integer" => types[t].kind = "value"
    BY DEF Kin
  <2>6. CASE t = "object"
    BY <2>1, <2>6
  <2>7. CASE t = "structure"
    BY <1>s, <2>2, <2>7
  <2>8. CASE t = "basic"
    BY <1>b, <2>3, <2>8
  <2>9. CASE t = "integer"
    BY <1>i, <2>4, <2>9
  <2>10. CASE t = "uint8"
    BY <1>u, <2>5, <2>10
  <2> QED BY <1>0, <2>6, <2>7, <2>8, <2>9, <2>10 DEF Roots
<1>8. Sized
  <2>1. \A t \in Known : types[t].kind = "value" => types[t].size # 0 /\ types[t].fields = <<>>
    BY <1>0, <1>o, <1>s, <1>b, <1>i, <1>u DEF Roots
  <2> QED BY <1>2, <2>1 DEF Sized
<1>9. \A t \in Known : types[t].ok /\ types[t].name = t /\ Packed(types[t])
  <2>1. \A t \in Known : types[t].ok /\ types[t].name = t
    BY <1>0, <1>o, <1>s, <1>b, <1>i, <1>u DEF Roots
  <2>2. ASSUME NEW t \in Known, types[t].fields = <<>> PROVE Packed(types[t])
    BY <2>2 DEF Packed
  <2>3. Packed(types["basic"])
    <3> DEFINE b == types["basic"]
    <3>1. /\ DOMAIN b.fields = 1 .. 1 /\ b.fields[1] = Header /\ b.size = 8
          /\ Header.off = 0 /\ Header.size = 8 /\ Header.align = 8
      BY <1>b DEF Header
    <3>2. Ends(Header) <= 8 /\ 0 % 8 = 0
      BY <3>1 DEF Ends
    <3> HIDE DEF b
    <3>3. ASSUME NEW i \in 1 .. 1 PROVE i = 1 /\ \A j \in 1 .. (i - 1) : FALSE
      OBVIOUS
    <3> QED BY <3>1, <3>2, <3>3 DEF Packed, b
  <2> QED BY <1>0, <1>o, <1>s, <1>i, <1>u, <2>1, <2>2, <2>3 DEF Roots
<1>10. /\ Line(path, "object") = <<types["object"]>>
       /\ Line(path, "structure") = <<types["structure"]>> \o Line(path, "object")
       /\ Line(path, "basic") = <<types["basic"]>> \o Line(path, "structure")
       /\ Line(path, "integer") = <<types["integer"]>> \o Line(path, "object")
       /\ Line(path, "uint8") = <<types["uint8"]>> \o Line(path, "integer")
  <2>1. /\ HasParent("structure") /\ HasParent("basic") /\ HasParent("integer") /\ HasParent("uint8")
        /\ Roots \subseteq Known
    BY <1>0 DEF HasParent
  <2>2. Line(path, "object") = <<types["object"]>>
    BY <1>6, <1>8, <2>1, LineOf DEF Roots
  <2>3. Line(path, "structure") = <<types["structure"]>> \o Line(path, "object")
    BY <1>6, <1>8, <1>s, <2>1, LineOf DEF Roots
  <2>4. Line(path, "basic") = <<types["basic"]>> \o Line(path, "structure")
    BY <1>6, <1>8, <1>b, <2>1, LineOf DEF Roots
  <2>5. Line(path, "integer") = <<types["integer"]>> \o Line(path, "object")
    BY <1>6, <1>8, <1>i, <2>1, LineOf DEF Roots
  <2>6. Line(path, "uint8") = <<types["uint8"]>> \o Line(path, "integer")
    BY <1>6, <1>8, <1>u, <2>1, LineOf DEF Roots
  <2> QED BY <2>2, <2>3, <2>4, <2>5, <2>6
<1>11. Numbered(Line(path, "object"))
  BY <1>o, <1>10, ObjectNumbered
<1>12. Numbered(Line(path, "structure")) /\ Agrees(types["structure"], Line(path, "object"))
  BY <1>s, <1>10, <1>11, NumberedFresh
<1>13. Numbered(Line(path, "basic")) /\ Agrees(types["basic"], Line(path, "structure"))
  BY <1>b, <1>10, <1>12, NumberedFresh
<1>14. Numbered(Line(path, "integer")) /\ Agrees(types["integer"], Line(path, "object"))
  BY <1>i, <1>10, <1>11, NumberedFresh
<1>15. Numbered(Line(path, "uint8")) /\ Agrees(types["uint8"], Line(path, "integer"))
  BY <1>u, <1>10, <1>14, NumberedFresh
<1>16. \A t \in Known : Numbered(Line(path, t))
  BY <1>0, <1>11, <1>12, <1>13, <1>14, <1>15 DEF Roots
<1>17. ASSUME NEW t \in Known, HasParent(t)
       PROVE  /\ Extends(types[t].fields, types[types[t].parent].fields)
              /\ Agrees(types[t], Line(path, types[t].parent))
  <2>1. \A f : Extends(f, <<>>)
    BY DEF Extends
  <2>2. t \in {"structure", "basic", "integer", "uint8"}
    BY <1>0, <1>17 DEF Roots, HasParent
  <2>3. types[types[t].parent].fields = <<>> /\ Agrees(types[t], Line(path, types[t].parent))
    BY <1>o, <1>s, <1>b, <1>i, <1>u, <1>12, <1>13, <1>14, <1>15, <2>2
  <2> QED BY <2>1, <2>3
<1>18. {"basic", "structure", "integer"} \subseteq Known /\ None \notin Known
  BY <1>0 DEF Roots, None
<1>19. TableOK(path)
  BY <1>0, <1>1, <1>5, <1>6, <1>7, <1>8, <1>9, <1>16, <1>17, <1>18 DEF TableOK
<1>20. ForwardOK
  <2>1. DOMAIN fwd = {} /\ res = "ok"
    BY DEF Init
  <2> QED BY <2>1, FS_EmptySet DEF ForwardOK, ForwardResolves
<1> QED BY <1>19, <1>20 DEF IInv

-----------------------------------------------------------------------------
(* The theorems. *)

\* The inductive invariant: the table is a tree in which every type is finished and
\* continues its parent, whatever forms deftype is given and in whatever order.
THEOREM TableInvariant == Spec => []IInv
<1>1. Init => IInv
  BY InitHolds
<1>2. IInv /\ [Next]_vars => IInv'
  <2> SUFFICES ASSUME IInv, [Next]_vars PROVE IInv'
    OBVIOUS
  <2>1. CASE Next
    BY <2>1, StepKeeps
  <2>2. CASE UNCHANGED vars
    <3>1. types' = types /\ fwd' = fwd /\ res' = res
      BY <2>2 DEF vars
    <3>2. PICK path : TableOK(path)
      BY DEF IInv
    <3>3. TableOK(path)'
      BY <3>1, <3>2, TableUnchanged
    <3>4. ForwardOK'
      BY <3>1 DEF IInv, ForwardOK, ForwardResolves, Known
    <3> QED BY <3>3, <3>4 DEF IInv
  <2> QED BY <2>1, <2>2
<1> QED BY <1>1, <1>2, PTL DEF Spec

\* No two methods of a type, or of a type and its parent, disagree about a slot of
\* the method table, and every name resolves: get_next_method_id, declare_method,
\* overlay_method and override_method, for any mix of entries on any tree of types.
THEOREM SlotsStaySound == Spec => []SlotsSound
<1>1. IInv => SlotsSound
  <2> SUFFICES ASSUME IInv PROVE SlotsSound
    OBVIOUS
  <2>1. PICK path : TableOK(path)
    BY DEF IInv
  <2> QED BY <2>1, TypesOK, SlotsAreDistinct, SlotsAreInherited DEF SlotsSound
<1> QED BY <1>1, TableInvariant, PTL

\* The layout compiled code relies on: what add_field_to_type places is aligned and
\* after what precedes it, and a child keeps its parent's offsets.
THEOREM LayoutStaysSound == Spec => []LayoutSound
<1>1. IInv => LayoutSound
  BY FieldsSound DEF IInv
<1> QED BY <1>1, TableInvariant, PTL

\* lca_base finds the lowest common ancestor of any two defined types.
THEOREM LcaStaysLowest == Spec => []LcaIsLowest
<1>1. IInv => LcaIsLowest
  <2> SUFFICES ASSUME IInv, NEW a \in Known, NEW b \in Known PROVE Lowest(a, b)
    BY DEF LcaIsLowest
  <2>1. PICK path : TableOK(path)
    BY DEF IInv
  <2>2. Tree(path) /\ None \notin Known /\ IsFiniteSet(DOMAIN fwd)
    BY <2>1 DEF TableOK, IInv, ForwardOK
  <2> QED BY <2>2, LcaFound
<1> QED BY <1>1, TableInvariant, PTL

\* No deftype changes or removes a type that is in the table.
THEOREM TypesAreStable == Spec => StableOnceDefined
<1>1. IInv /\ [Next]_vars => [\A t \in Known : t \in DOMAIN types' /\ types'[t] = types[t]]_vars
  BY StepKeeps
<1> QED BY <1>1, TableInvariant, PTL DEF Spec, StableOnceDefined
=============================================================================
