-------------------------- MODULE SchedulerProofs --------------------------
(***************************************************************************)
(* Proofs about Scheduler.tla and about Quantum.tla, which extends it, for *)
(* any number of processes and any sleep.  The quantum refines the         *)
(* scheduler, whatever the scripts do; what the VM keeps of a process is   *)
(* right as long as handlers neither yield nor call spawn or kill          *)
(* themselves.                                                             *)
(***************************************************************************)
EXTENDS Quantum, Modular, SequenceTheorems, TLAPS

(***************************************************************************)
(* Sequences used as lists without duplicates.                             *)
(***************************************************************************)
\* Append adds one element; a new one keeps the list free of duplicates.
LEMMA AppendList ==
  ASSUME NEW S, NEW s \in Seq(S), NEW x \in S
  PROVE  /\ Append(s, x) \in Seq(S)
         /\ ToSet(Append(s, x)) = ToSet(s) \cup {x}
         /\ Distinct(s) /\ x \notin ToSet(s) => Distinct(Append(s, x))
  <1> DEFINE r == Append(s, x)
  <1>1. /\ r \in Seq(S) /\ Len(r) = Len(s) + 1 /\ Len(s) \in Nat
        /\ DOMAIN r = 1 .. Len(s) + 1 /\ DOMAIN s = 1 .. Len(s)
        /\ \A i \in 1 .. Len(s) : r[i] = s[i]
        /\ r[Len(s) + 1] = x
    OBVIOUS
  <1> HIDE DEF r
  <1>2. ToSet(r) = ToSet(s) \cup {x}
    <2>1. ASSUME NEW y \in ToSet(r) PROVE y \in ToSet(s) \cup {x}
      <3>1. PICK i \in DOMAIN r : y = r[i]
        BY <2>1 DEF ToSet
      <3>2. CASE i = Len(s) + 1
        BY <1>1, <3>1, <3>2
      <3>3. CASE i \in 1 .. Len(s)
        BY <1>1, <3>1, <3>3 DEF ToSet
      <3> QED BY <1>1, <3>2, <3>3
    <2>2. ASSUME NEW y \in ToSet(s) PROVE y \in ToSet(r)
      <3>1. PICK i \in DOMAIN s : y = s[i]
        BY <2>2 DEF ToSet
      <3>2. i \in DOMAIN r /\ r[i] = y
        BY <1>1, <3>1
      <3> QED BY <3>2 DEF ToSet
    <2>3. x \in ToSet(r)
      <3>1. Len(s) + 1 \in DOMAIN r /\ r[Len(s) + 1] = x
        BY <1>1
      <3> QED BY <3>1 DEF ToSet
    <2> QED BY <2>1, <2>2, <2>3
  <1>3. ASSUME Distinct(s), x \notin ToSet(s) PROVE Distinct(r)
    <2>1. \A i \in 1 .. Len(s) : s[i] # x
      BY <1>1, <1>3 DEF ToSet
    <2>2. SUFFICES ASSUME NEW i \in DOMAIN r, NEW j \in DOMAIN r, r[i] = r[j] PROVE i = j
      BY DEF Distinct
    <2> QED BY <1>1, <1>3, <2>1, <2>2 DEF Distinct
  <1> QED BY <1>1, <1>2, <1>3 DEF r

\* Tail takes the head away, and only it.
LEMMA TailList ==
  ASSUME NEW S, NEW s \in Seq(S), s # <<>>, Distinct(s)
  PROVE  /\ Head(s) \in S /\ Tail(s) \in Seq(S)
         /\ ToSet(Tail(s)) = ToSet(s) \ {Head(s)} /\ Head(s) \in ToSet(s)
         /\ Distinct(Tail(s))
  <1> DEFINE r == Tail(s)
  <1>1. /\ r \in Seq(S) /\ Len(r) = Len(s) - 1 /\ Len(s) \in Nat \ {0}
        /\ DOMAIN r = 1 .. Len(s) - 1 /\ DOMAIN s = 1 .. Len(s)
        /\ \A i \in 1 .. Len(s) - 1 : r[i] = s[i + 1]
        /\ Head(s) = s[1] /\ s[1] \in S
    OBVIOUS
  <1> HIDE DEF r
  <1>2. ASSUME NEW y \in ToSet(r) PROVE y \in ToSet(s) \ {s[1]}
    <2>1. PICK i \in 1 .. Len(s) - 1 : y = r[i]
      BY <1>1, <1>2 DEF ToSet
    <2>2. i + 1 \in DOMAIN s /\ s[i + 1] = y /\ i + 1 # 1 /\ 1 \in DOMAIN s
      BY <1>1, <2>1
    <2> QED BY <2>2 DEF ToSet, Distinct
  <1>3. ASSUME NEW y \in ToSet(s) \ {s[1]} PROVE y \in ToSet(r)
    <2>1. PICK i \in 1 .. Len(s) : y = s[i]
      BY <1>1, <1>3 DEF ToSet
    <2>2. i - 1 \in DOMAIN r /\ r[i - 1] = y
      BY <1>1, <1>3, <2>1
    <2> QED BY <2>2 DEF ToSet
  <1>4. Distinct(r)
    <2>1. SUFFICES ASSUME NEW i \in DOMAIN r, NEW j \in DOMAIN r, r[i] = r[j] PROVE i = j
      BY DEF Distinct
    <2>2. s[i + 1] = s[j + 1] /\ i + 1 \in DOMAIN s /\ j + 1 \in DOMAIN s
      BY <1>1, <2>1
    <2>3. i + 1 = j + 1
      BY <2>2 DEF Distinct
    <2> QED BY <1>1, <2>1, <2>3
  <1>5. s[1] \in ToSet(s)
    BY <1>1 DEF ToSet
  <1> QED BY <1>1, <1>2, <1>3, <1>4, <1>5 DEF r

\* RemoveAt moves the later elements down by one.
Up(j, k) == IF j < k THEN j ELSE j + 1

LEMMA RemoveAtIndex ==
  ASSUME NEW S, NEW s \in Seq(S), NEW k \in 1 .. Len(s)
  PROVE  /\ RemoveAt(s, k) \in Seq(S) /\ Len(RemoveAt(s, k)) = Len(s) - 1
         /\ DOMAIN RemoveAt(s, k) = 1 .. Len(s) - 1
         /\ \A j \in 1 .. Len(s) - 1 :
              RemoveAt(s, k)[j] = s[Up(j, k)] /\ Up(j, k) \in 1 .. Len(s) /\ Up(j, k) # k
  <1> USE DEF Up
  <1> DEFINE r == RemoveAt(s, k)
             a == SubSeq(s, 1, k - 1)
             b == SubSeq(s, k + 1, Len(s))
  <1>1. Len(s) \in Nat \ {0} /\ DOMAIN s = 1 .. Len(s)
    OBVIOUS
  <1>2. a \in Seq(S) /\ Len(a) = k - 1 /\ \A j \in 1 .. k - 1 : a[j] = s[j]
    OBVIOUS
  <1>3. b \in Seq(S) /\ Len(b) = Len(s) - k /\ \A j \in 1 .. Len(s) - k : b[j] = s[k + j]
    OBVIOUS
  <1>4. r = a \o b
    BY DEF RemoveAt
  <1> HIDE DEF a, b, r
  <1>5. r \in Seq(S) /\ Len(r) = Len(s) - 1 /\ DOMAIN r = 1 .. Len(s) - 1
    <2>1. a \o b \in Seq(S) /\ Len(a \o b) = Len(a) + Len(b)
      BY <1>2, <1>3, ConcatProperties
    <2>2. r \in Seq(S) /\ Len(r) = Len(s) - 1
      BY <1>1, <1>2, <1>3, <1>4, <2>1
    <2>3. DOMAIN r = 1 .. Len(r)
      BY <2>2
    <2> QED BY <2>2, <2>3
  <1>6. ASSUME NEW j \in 1 .. Len(s) - 1 PROVE r[j] = s[Up(j, k)]
    <2>1. CASE j < k
      BY <1>1, <1>2, <1>3, <1>4, <2>1
    <2>2. CASE ~(j < k)
      <3>1. r[j] = b[j - (k - 1)]
        BY <1>1, <1>2, <1>3, <1>4, <2>2
      <3>2. j - (k - 1) \in 1 .. Len(s) - k /\ k + (j - (k - 1)) = j + 1
        BY <1>1, <2>2
      <3> QED BY <1>3, <2>2, <3>1, <3>2
    <2> QED BY <2>1, <2>2
  <1> QED BY <1>1, <1>5, <1>6 DEF r

\* RemoveAt takes the i-th element away, and only it.
LEMMA RemoveAtList ==
  ASSUME NEW S, NEW s \in Seq(S), NEW k \in 1 .. Len(s), Distinct(s)
  PROVE  /\ RemoveAt(s, k) \in Seq(S)
         /\ ToSet(RemoveAt(s, k)) = ToSet(s) \ {s[k]}
         /\ Distinct(RemoveAt(s, k))
  <1> DEFINE r == RemoveAt(s, k)
             up(j) == Up(j, k)
  <1>1. /\ r \in Seq(S) /\ Len(r) = Len(s) - 1 /\ Len(s) \in Nat \ {0}
        /\ DOMAIN r = 1 .. Len(s) - 1 /\ DOMAIN s = 1 .. Len(s)
        /\ \A j \in 1 .. Len(s) - 1 : r[j] = s[up(j)] /\ up(j) \in 1 .. Len(s) /\ up(j) # k
    <2>1. Len(s) \in Nat \ {0} /\ DOMAIN s = 1 .. Len(s)
      OBVIOUS
    <2>2. /\ r \in Seq(S) /\ Len(r) = Len(s) - 1 /\ DOMAIN r = 1 .. Len(s) - 1
          /\ \A j \in 1 .. Len(s) - 1 : r[j] = s[up(j)] /\ up(j) \in 1 .. Len(s) /\ up(j) # k
      BY RemoveAtIndex
    <2> HIDE DEF r, up
    <2> QED BY <2>1, <2>2
  <1> USE DEF Up
  <1> HIDE DEF r
  <1>2. ASSUME NEW y \in ToSet(r) PROVE y \in ToSet(s) \ {s[k]}
    <2>1. PICK j \in 1 .. Len(s) - 1 : y = r[j]
      BY <1>1, <1>2 DEF ToSet
    <2>2. up(j) \in DOMAIN s /\ s[up(j)] = y /\ up(j) # k /\ k \in DOMAIN s
      BY <1>1, <2>1
    <2> QED BY <2>2 DEF ToSet, Distinct
  <1>3. ASSUME NEW y \in ToSet(s) \ {s[k]} PROVE y \in ToSet(r)
    <2>1. PICK j \in 1 .. Len(s) : y = s[j]
      BY <1>1, <1>3 DEF ToSet
    <2>2. CASE j < k
      <3>1. j \in DOMAIN r /\ r[j] = y
        BY <1>1, <2>1, <2>2
      <3> QED BY <3>1 DEF ToSet
    <2>3. CASE j > k
      <3>1. j - 1 \in DOMAIN r /\ r[j - 1] = y
        BY <1>1, <2>1, <2>3
      <3> QED BY <3>1 DEF ToSet
    <2> QED BY <1>3, <2>1, <2>2, <2>3
  <1>4. Distinct(r)
    <2>1. SUFFICES ASSUME NEW i \in DOMAIN r, NEW j \in DOMAIN r, r[i] = r[j] PROVE i = j
      BY DEF Distinct
    <2>2. s[up(i)] = s[up(j)] /\ up(i) \in DOMAIN s /\ up(j) \in DOMAIN s
      BY <1>1, <2>1
    <2>3. up(i) = up(j)
      BY <2>2 DEF Distinct
    <2> QED BY <1>1, <2>1, <2>3
  <1> QED BY <1>1, <1>2, <1>3, <1>4 DEF r

\* RemoveFirst takes an element away if it is there.
LEMMA RemoveFirstList ==
  ASSUME NEW S, NEW s \in Seq(S), NEW x, Distinct(s)
  PROVE  /\ RemoveFirst(s, x) \in Seq(S)
         /\ ToSet(RemoveFirst(s, x)) = ToSet(s) \ {x}
         /\ Distinct(RemoveFirst(s, x))
  <1> DEFINE I == {i \in 1 .. Len(s) : s[i] = x}
  <1>1. CASE x \notin ToSet(s)
    <2>1. RemoveFirst(s, x) = s
      BY <1>1 DEF RemoveFirst, ToSet
    <2> QED BY <1>1, <2>1
  <1>2. CASE x \in ToSet(s)
    <2>1. PICK k \in 1 .. Len(s) : s[k] = x
      BY <1>2 DEF ToSet
    <2>2. I = {k}
      BY <2>1 DEF Distinct
    <2>3. SelectInSeq(s, LAMBDA v : v = x) = k
      BY <2>1, <2>2 DEF SelectInSeq, Min
    <2>4. RemoveFirst(s, x) = RemoveAt(s, k)
      BY <2>1, <2>3 DEF RemoveFirst
    <2> QED BY <2>1, <2>4, RemoveAtList
  <1> QED BY <1>1, <1>2

(***************************************************************************)
(* The inductive invariant.                                                *)
(***************************************************************************)
Call == [op : {"spawn", "kill"}, p : Pids]

\* Control: a quantum has a process, pids are handed out in order, handlers
\* run only where the API may be called, and natives act on the process that
\* runs or on one that is being spawned.
ControlInv ==
  /\ phase = "quantum" => running \in Pids /\ status[running] \in {"RUNNING", "SUSPENDED"}
  /\ phase = "quantum" /\ status[running] = "SUSPENDED" => sleepFrames[running] > 0
  /\ phase # "quantum" => running = NoPid
  /\ phase \in {"host", "sleepers"} => rest = <<>>
  /\ calls # <<>> => MayCall
  /\ \A p \in Pids : p >= nextPid => life[p] = "unborn"
  /\ current = NoPid \/ current = running \/ life[current] = "entering"

\* The spawn and kill calls in progress are of different processes; the ones
\* that are being spawned are not published.
CallsInv ==
  /\ \A i, j \in DOMAIN calls : calls[i].p = calls[j].p => i = j
  /\ \A i \in DOMAIN calls : calls[i].op = "spawn" => life[calls[i].p] = "entering"

\* A process of the snapshot was published before the tick began.
SnapInv == \A p \in snap : life[p] \in {"live", "freed"}

IInv ==
  /\ TypeOK /\ ControlInv /\ CallsInv /\ SnapInv
  /\ EachInOnePlace /\ ListMatchesStatus /\ VisitedOncePerTick

\* A call in progress is added on top.
LEMMA PushCall ==
  ASSUME NEW cs \in Seq(Call), NEW c \in Call
  PROVE  /\ Append(cs, c) \in Seq(Call)
         /\ DOMAIN Append(cs, c) = DOMAIN cs \cup {Len(cs) + 1}
         /\ \A i \in DOMAIN cs : Append(cs, c)[i] = cs[i] /\ i # Len(cs) + 1
         /\ Append(cs, c)[Len(cs) + 1] = c
         /\ KilledBy(Append(cs, c)) = KilledBy(cs) \cup (IF c.op = "kill" THEN {c.p} ELSE {})
  <1> DEFINE r == Append(cs, c)
  <1>1. /\ r \in Seq(Call)
        /\ DOMAIN r = DOMAIN cs \cup {Len(cs) + 1}
        /\ \A i \in DOMAIN cs : r[i] = cs[i] /\ i # Len(cs) + 1
        /\ r[Len(cs) + 1] = c
    OBVIOUS
  <1> HIDE DEF r
  <1>2. KilledBy(r) = KilledBy(cs) \cup (IF c.op = "kill" THEN {c.p} ELSE {})
    <2>1. ASSUME NEW y \in KilledBy(r)
          PROVE  y \in KilledBy(cs) \cup (IF c.op = "kill" THEN {c.p} ELSE {})
      <3>1. PICK i \in DOMAIN r : r[i].op = "kill" /\ y = r[i].p
        BY <2>1 DEF KilledBy
      <3> QED BY <1>1, <3>1 DEF KilledBy
    <2>2. ASSUME NEW y \in KilledBy(cs) PROVE y \in KilledBy(r)
      <3>1. PICK i \in DOMAIN cs : cs[i].op = "kill" /\ y = cs[i].p
        BY <2>2 DEF KilledBy
      <3>2. i \in DOMAIN r /\ r[i] = cs[i]
        BY <1>1, <3>1
      <3> QED BY <3>1, <3>2 DEF KilledBy
    <2>3. ASSUME c.op = "kill" PROVE c.p \in KilledBy(r)
      <3>1. Len(cs) + 1 \in DOMAIN r /\ r[Len(cs) + 1] = c
        BY <1>1
      <3> QED BY <2>3, <3>1 DEF KilledBy
    <2> QED BY <2>1, <2>2, <2>3
  <1> QED BY <1>1, <1>2 DEF r

\* The call on top returns.
LEMMA PopCall ==
  ASSUME NEW cs \in Seq(Call), cs # <<>>,
         \A i, j \in DOMAIN cs : cs[i].p = cs[j].p => i = j
  PROVE  /\ Front(cs) \in Seq(Call) /\ Last(cs) \in Call
         /\ DOMAIN Front(cs) = DOMAIN cs \ {Len(cs)} /\ Len(cs) \in DOMAIN cs
         /\ Last(cs) = cs[Len(cs)]
         /\ \A i \in DOMAIN Front(cs) : Front(cs)[i] = cs[i] /\ cs[i].p # Last(cs).p
         /\ KilledBy(Front(cs))
              = KilledBy(cs) \ (IF Last(cs).op = "kill" THEN {Last(cs).p} ELSE {})
  <1> DEFINE r == Front(cs)
  <1>1. /\ r \in Seq(Call) /\ Last(cs) \in Call
        /\ DOMAIN r = DOMAIN cs \ {Len(cs)} /\ Len(cs) \in DOMAIN cs
        /\ Last(cs) = cs[Len(cs)]
        /\ \A i \in DOMAIN r : r[i] = cs[i]
    BY DEF Front, Last
  <1> HIDE DEF r
  <1>2. \A i \in DOMAIN r : cs[i].p # Last(cs).p
    BY <1>1
  <1>3. ASSUME NEW y \in KilledBy(r)
        PROVE  y \in KilledBy(cs) \ (IF Last(cs).op = "kill" THEN {Last(cs).p} ELSE {})
    <2>1. PICK i \in DOMAIN r : r[i].op = "kill" /\ y = r[i].p
      BY <1>3 DEF KilledBy
    <2>2. i \in DOMAIN cs /\ cs[i].op = "kill" /\ y = cs[i].p /\ y # Last(cs).p
      BY <1>1, <1>2, <2>1
    <2> QED BY <2>2 DEF KilledBy
  <1>4. ASSUME NEW y \in KilledBy(cs) \ (IF Last(cs).op = "kill" THEN {Last(cs).p} ELSE {})
        PROVE  y \in KilledBy(r)
    <2>1. PICK i \in DOMAIN cs : cs[i].op = "kill" /\ y = cs[i].p
      BY <1>4 DEF KilledBy
    <2>2. i # Len(cs)
      BY <1>1, <1>4, <2>1
    <2>3. i \in DOMAIN r /\ r[i] = cs[i]
      BY <1>1, <2>1, <2>2
    <2> QED BY <2>1, <2>3 DEF KilledBy
  <1> QED BY <1>1, <1>2, <1>3, <1>4 DEF r

(***************************************************************************)
(* Init, and one lemma per action.                                         *)
(***************************************************************************)
\* Every list is empty at first.
LEMMA InitIInv == ASSUME Init PROVE IInv
  <1> USE SchedulerAssumption
  <1>1. TypeOK /\ ControlInv /\ CallsInv /\ SnapInv
    BY DEF Init, TypeOK, ControlInv, CallsInv, SnapInv, Pids
  <1>2. ToSet(ready) = {} /\ ToSet(suspended) = {} /\ ToSet(rest) = {} /\ Dying = {} /\ Live = {}
    BY DEF Init, ToSet, Dying, KilledBy, Live
  <1>3. Distinct(ready) /\ Distinct(suspended) /\ Distinct(rest)
    BY DEF Init, Distinct
  <1>4. EachInOnePlace /\ ListMatchesStatus /\ VisitedOncePerTick
    BY <1>2, <1>3 DEF Init, EachInOnePlace, ListMatchesStatus, VisitedOncePerTick
  <1> QED BY <1>1, <1>4 DEF IInv

\* What the invariant says of where a process can be.
LEMMA Places ==
  ASSUME IInv
  PROVE  /\ ToSet(ready) \subseteq Live /\ ToSet(suspended) \subseteq Live
         /\ ToSet(rest) \subseteq Live /\ Dying \subseteq Live
         /\ (running # NoPid => running \in Live)
         /\ Live \subseteq Pids /\ NoPid \notin Pids /\ Pids \subseteq Nat
         /\ calls \in Seq(Call)
         /\ \A p \in Live : p < nextPid
  <1>1. NoPid \notin Pids /\ Pids \subseteq Nat
    BY SchedulerAssumption DEF Pids
  <1>2. calls \in Seq(Call)
    BY DEF IInv, TypeOK, Call
  <1>3. Live \subseteq Pids
    BY DEF Live
  <1>4. ASSUME NEW p \in Live PROVE p < nextPid
    BY <1>1, <1>4, SchedulerAssumption DEF IInv, TypeOK, ControlInv, Live, Pids
  <1>5. EachInOnePlace
    BY DEF IInv
  <1> QED BY <1>1, <1>2, <1>3, <1>4, <1>5 DEF EachInOnePlace

\* A process that is being spawned is not published yet.
LEMMA SpawnEnterStep ==
  ASSUME IInv, NEW p \in Pids, SpawnEnter(p)
  PROVE  IInv'
  <1> DEFINE c == [op |-> "spawn", p |-> p]
  <1>1. c \in Call /\ calls' = Append(calls, c) /\ c.op = "spawn" /\ c.p = p
    BY DEF Call, SpawnEnter
  <1> HIDE DEF c
  <1>2. life[p] = "unborn" /\ p \notin Live /\ p \notin Dying /\ p # running
    <2>1. life[p] = "unborn"
      BY SchedulerAssumption DEF SpawnEnter, IInv, ControlInv, Pids
    <2>2. p \notin Live
      BY <2>1 DEF Live
    <2> QED BY <2>1, <2>2, Places
  <1>3. /\ calls' \in Seq(Call) /\ DOMAIN calls' = DOMAIN calls \cup {Len(calls) + 1}
        /\ \A i \in DOMAIN calls : calls'[i] = calls[i] /\ i # Len(calls) + 1
        /\ calls'[Len(calls) + 1] = c
        /\ Dying' = Dying
    <2>1. calls \in Seq(Call) /\ c \in Call /\ c.op # "kill"
      BY <1>1, Places
    <2>2. /\ Append(calls, c) \in Seq(Call)
          /\ DOMAIN Append(calls, c) = DOMAIN calls \cup {Len(calls) + 1}
          /\ \A i \in DOMAIN calls : Append(calls, c)[i] = calls[i] /\ i # Len(calls) + 1
          /\ Append(calls, c)[Len(calls) + 1] = c
          /\ KilledBy(Append(calls, c))
               = KilledBy(calls) \cup (IF c.op = "kill" THEN {c.p} ELSE {})
      BY <2>1, PushCall
    <2>3. KilledBy(Append(calls, c)) = KilledBy(calls)
      BY <2>1, <2>2
    <2> QED BY <1>1, <2>2, <2>3 DEF Dying
  <1>4. life' = [life EXCEPT ![p] = "entering"] /\ life \in [Pids -> {"unborn", "entering", "live", "freed", "void"}]
    BY DEF SpawnEnter, IInv, TypeOK
  <1>5. Live' = Live
    BY <1>2, <1>4 DEF Live
  <1>6. TypeOK'
    <2>1. calls' \in Seq([op : {"spawn", "kill"}, p : Pids])
      BY <1>3 DEF Call
    <2>2. nextPid' \in 1 .. NumPids + 1
      BY SchedulerAssumption DEF SpawnEnter, Pids
    <2>3. life' \in [Pids -> {"unborn", "entering", "live", "freed", "void"}]
      BY <1>4
    <2>4. current' \in Pids \cup {NoPid}
      BY DEF SpawnEnter
    <2> QED BY <2>1, <2>2, <2>3, <2>4 DEF SpawnEnter, IInv, TypeOK, lists, history
  <1>7. \A i \in DOMAIN calls : calls[i].p # p
    <2>1. SUFFICES ASSUME NEW i \in DOMAIN calls PROVE calls[i].p # p
      OBVIOUS
    <2>2. calls[i] \in Call
      BY Places
    <2>3. CASE calls[i].op = "spawn"
      BY <1>2, <2>3 DEF IInv, CallsInv
    <2>4. CASE calls[i].op = "kill"
      BY <1>2, <2>4 DEF Dying, KilledBy
    <2> QED BY <2>2, <2>3, <2>4 DEF Call
  <1>8. CallsInv'
    <2>1. ASSUME NEW i \in DOMAIN calls', NEW j \in DOMAIN calls', calls'[i].p = calls'[j].p
          PROVE  i = j
      BY <1>1, <1>3, <1>7, <2>1 DEF IInv, CallsInv
    <2>2. ASSUME NEW i \in DOMAIN calls', calls'[i].op = "spawn"
          PROVE  life'[calls'[i].p] = "entering"
      <3>1. CASE i \in DOMAIN calls
        <4>1. life[calls[i].p] = "entering" /\ calls[i].p # p /\ calls'[i] = calls[i]
          BY <1>3, <1>7, <2>2, <3>1 DEF IInv, CallsInv
        <4>2. calls[i] \in Call
          BY <3>1, Places
        <4> QED BY <1>4, <4>1, <4>2 DEF Call
      <3>2. CASE i = Len(calls) + 1
        BY <1>1, <1>3, <1>4, <3>2
      <3> QED BY <1>3, <2>2, <3>1, <3>2
    <2> QED BY <2>1, <2>2 DEF CallsInv
  <1>9. ControlInv'
    <2>1. \A q \in Pids : q >= nextPid' => life'[q] = "unborn"
      BY <1>4, SchedulerAssumption DEF SpawnEnter, IInv, ControlInv, Pids
    <2>2. life'[current'] = "entering"
      BY <1>4 DEF SpawnEnter
    <2> QED BY <2>1, <2>2 DEF SpawnEnter, IInv, ControlInv, MayCall, lists
  <1>10. SnapInv'
    BY <1>2, <1>4 DEF SpawnEnter, IInv, SnapInv, history
  <1>11. EachInOnePlace' /\ ListMatchesStatus' /\ VisitedOncePerTick'
    BY <1>3, <1>5 DEF SpawnEnter, IInv, EachInOnePlace, ListMatchesStatus, VisitedOncePerTick, lists,
       history
  <1> QED BY <1>6, <1>8, <1>9, <1>10, <1>11 DEF IInv

\* A spawn that finds no initial state spends the pid and nothing else.
LEMMA SpawnStatelessStep ==
  ASSUME IInv, NEW p \in Pids, SpawnStateless(p)
  PROVE  IInv'
  <1>1. life[p] = "unborn"
    BY SchedulerAssumption DEF SpawnStateless, IInv, ControlInv, Pids
  <1>2. /\ life' = [life EXCEPT ![p] = "void"]
        /\ life \in [Pids -> {"unborn", "entering", "live", "freed", "void"}]
    BY DEF SpawnStateless, IInv, TypeOK
  <1>3. Live' = Live /\ Dying' = Dying
    BY <1>1, <1>2 DEF Live, Dying, SpawnStateless, control
  <1>4. TypeOK'
    <2>1. nextPid' \in 1 .. NumPids + 1
      BY SchedulerAssumption DEF SpawnStateless, Pids
    <2>2. life' \in [Pids -> {"unborn", "entering", "live", "freed", "void"}]
      BY <1>2
    <2> QED BY <2>1, <2>2 DEF SpawnStateless, IInv, TypeOK, lists, control, history
  <1>5. CallsInv'
    <2>1. calls' = calls
      BY DEF SpawnStateless, control
    <2>2. ASSUME NEW i \in DOMAIN calls, calls[i].op = "spawn" PROVE life'[calls[i].p] = "entering"
      <3>1. calls[i] \in Call /\ life[calls[i].p] = "entering"
        BY <2>2, Places DEF IInv, CallsInv
      <3> QED BY <1>1, <1>2, <3>1 DEF Call
    <2> QED BY <2>1, <2>2 DEF IInv, CallsInv
  <1>6. ControlInv'
    <2>1. \A q \in Pids : q >= nextPid' => life'[q] = "unborn"
      BY <1>2, SchedulerAssumption DEF SpawnStateless, IInv, ControlInv, Pids
    <2>2. current' = NoPid \/ current' = running' \/ life'[current'] = "entering"
      BY <1>1, <1>2 DEF SpawnStateless, IInv, ControlInv, TypeOK, control
    <2> QED BY <2>1, <2>2 DEF SpawnStateless, IInv, ControlInv, MayCall, lists, control
  <1>7. SnapInv'
    BY <1>1, <1>2 DEF SpawnStateless, IInv, SnapInv, history
  <1>8. EachInOnePlace' /\ ListMatchesStatus' /\ VisitedOncePerTick'
    BY <1>3 DEF SpawnStateless, IInv, EachInOnePlace, ListMatchesStatus, VisitedOncePerTick, lists,
       control, history
  <1> QED BY <1>4, <1>5, <1>6, <1>7, <1>8 DEF IInv

\* The process is published and queued.
LEMMA SpawnPublishStep ==
  ASSUME IInv, SpawnPublish
  PROVE  IInv'
  <1> DEFINE p == Last(calls).p
  <1>1. /\ Front(calls) \in Seq(Call) /\ Last(calls) \in Call
        /\ DOMAIN Front(calls) = DOMAIN calls \ {Len(calls)} /\ Len(calls) \in DOMAIN calls
        /\ Last(calls) = calls[Len(calls)]
        /\ \A i \in DOMAIN Front(calls) : Front(calls)[i] = calls[i] /\ calls[i].p # p
        /\ KilledBy(Front(calls))
              = KilledBy(calls) \ (IF Last(calls).op = "kill" THEN {Last(calls).p} ELSE {})
    <2>1. calls \in Seq(Call) /\ calls # <<>>
      BY Places DEF SpawnPublish
    <2>2. \A i, j \in DOMAIN calls : calls[i].p = calls[j].p => i = j
      BY DEF IInv, CallsInv
    <2> QED BY <2>1, <2>2, PopCall
  <1>2. p \in Pids /\ life[p] = "entering"
    BY <1>1 DEF SpawnPublish, IInv, CallsInv, Call
  <1> HIDE DEF p
  <1>3. /\ life' = [life EXCEPT ![p] = "live"] /\ status' = [status EXCEPT ![p] = "READY"]
        /\ ready' = Append(ready, p) /\ calls' = Front(calls) /\ current' = NoPid
        /\ UNCHANGED <<nextPid, sleepFrames, suspended, rest, running, phase, cursor,
                       snap, visited, tick, due>>
        /\ Last(calls).op = "spawn"
    BY DEF SpawnPublish, p, history
  <1>4. /\ life \in [Pids -> {"unborn", "entering", "live", "freed", "void"}]
        /\ status \in [Pids -> {"DEAD", "READY", "RUNNING", "SUSPENDED"}]
        /\ ready \in Seq(Pids)
    BY DEF IInv, TypeOK
  <1>5. p \notin Live /\ Live' = Live \cup {p}
    BY <1>2, <1>3, <1>4 DEF Live
  <1>6. p \notin Dying /\ p # running /\ p \notin ToSet(ready) \cup ToSet(suspended) \cup ToSet(rest)
    BY <1>2, <1>5, Places
  <1>7. Dying' = Dying
    BY <1>1, <1>3 DEF Dying
  <1>8. /\ ready' \in Seq(Pids) /\ ToSet(ready') = ToSet(ready) \cup {p}
        /\ Distinct(ready) => Distinct(ready')
    BY <1>2, <1>3, <1>4, <1>6, AppendList
  <1>9. TypeOK'
    <2>1. calls' \in Seq([op : {"spawn", "kill"}, p : Pids])
      BY <1>1, <1>3 DEF Call
    <2> QED BY <1>2, <1>3, <1>4, <1>8, <2>1 DEF IInv, TypeOK
  <1>10. CallsInv'
    <2>1. ASSUME NEW i \in DOMAIN calls', calls'[i].op = "spawn"
          PROVE  life'[calls'[i].p] = "entering"
      <3>1. i \in DOMAIN calls /\ calls'[i] = calls[i] /\ calls[i].p # p
        BY <1>1, <1>3
      <3>3. calls[i] \in Call
        BY <3>1, Places
      <3>2. life[calls[i].p] = "entering"
        BY <2>1, <3>1 DEF IInv, CallsInv
      <3> QED BY <1>3, <1>4, <3>1, <3>2, <3>3 DEF Call
    <2>2. ASSUME NEW i \in DOMAIN calls', NEW j \in DOMAIN calls', calls'[i].p = calls'[j].p
          PROVE  i = j
      BY <1>1, <1>3, <2>2 DEF IInv, CallsInv
    <2> QED BY <2>1, <2>2 DEF CallsInv
  <1>11. ControlInv'
    <2>1. \A q \in Pids : q >= nextPid' => life'[q] = "unborn"
      BY <1>2, <1>3, <1>4 DEF IInv, ControlInv
    <2>2. phase = "quantum" => status'[running] = status[running]
      BY <1>3, <1>4, <1>6 DEF IInv, ControlInv
    <2>3. MayCall' = MayCall /\ MayCall
      BY <1>3 DEF MayCall, SpawnPublish, IInv, ControlInv
    <2> QED BY <1>3, <2>1, <2>2, <2>3 DEF IInv, ControlInv
  <1>12. SnapInv'
    BY <1>2, <1>3, <1>4 DEF IInv, SnapInv, TypeOK
  <1>13. EachInOnePlace'
    BY <1>2, <1>3, <1>5, <1>6, <1>7, <1>8, Places DEF IInv, EachInOnePlace
  <1>14. ListMatchesStatus'
    <2>1. \A q \in Pids : q # p => status'[q] = status[q]
      BY <1>3, <1>4
    <2>2. status'[p] = "READY"
      BY <1>2, <1>3, <1>4
    <2> QED BY <1>3, <1>6, <1>8, <2>1, <2>2, Places DEF IInv, ListMatchesStatus
  <1>15. VisitedOncePerTick'
    <2>1. p \notin snap
      BY <1>2 DEF IInv, SnapInv
    <2> QED BY <1>3, <1>5, <2>1 DEF IInv, VisitedOncePerTick
  <1> QED BY <1>9, <1>10, <1>11, <1>12, <1>13, <1>14, <1>15 DEF IInv

\* kill takes the process out of both lists before it runs the exit handler.
LEMMA KillStep ==
  ASSUME IInv, NEW p \in Pids, Kill(p)
  PROVE  IInv'
  <1> DEFINE c == [op |-> "kill", p |-> p]
  <1>1. c \in Call /\ calls' = Append(calls, c) /\ c.op = "kill" /\ c.p = p
    BY DEF Call, Kill, KillDetach
  <1> HIDE DEF c
  <1>2. /\ p \in Live /\ p # running /\ p \notin ToSet(rest) /\ p \notin Dying /\ MayCall
        /\ ready' = RemoveFirst(ready, p) /\ suspended' = RemoveFirst(suspended, p)
        /\ due' = [due EXCEPT ![p] = NoTick]
        /\ UNCHANGED <<nextPid, life, status, sleepFrames, rest, running, current, phase, cursor,
                       snap, visited, tick>>
    BY DEF Kill, KillDetach, HeldByTick, Detach
  <1>3. /\ Append(calls, c) \in Seq(Call)
        /\ DOMAIN Append(calls, c) = DOMAIN calls \cup {Len(calls) + 1}
        /\ \A i \in DOMAIN calls : Append(calls, c)[i] = calls[i] /\ i # Len(calls) + 1
        /\ Append(calls, c)[Len(calls) + 1] = c
        /\ KilledBy(Append(calls, c))
             = KilledBy(calls) \cup (IF c.op = "kill" THEN {c.p} ELSE {})
    <2>1. calls \in Seq(Call) /\ c \in Call
      BY <1>1, Places
    <2> QED BY <2>1, PushCall
  <1>4. Dying' = Dying \cup {p} /\ Live' = Live
    BY <1>1, <1>2, <1>3 DEF Dying, Live
  <1>5. /\ ready' \in Seq(Pids) /\ ToSet(ready') = ToSet(ready) \ {p} /\ Distinct(ready')
        /\ suspended' \in Seq(Pids) /\ ToSet(suspended') = ToSet(suspended) \ {p}
        /\ Distinct(suspended')
    <2>1. ready \in Seq(Pids) /\ suspended \in Seq(Pids) /\ Distinct(ready) /\ Distinct(suspended)
      BY DEF IInv, TypeOK, EachInOnePlace
    <2> QED BY <1>2, <2>1, RemoveFirstList
  <1>6. TypeOK'
    <2>1. calls' \in Seq([op : {"spawn", "kill"}, p : Pids])
      BY <1>1, <1>3 DEF Call
    <2> QED BY <1>2, <1>5, <2>1 DEF IInv, TypeOK
  <1>7. \A i \in DOMAIN calls : calls[i].p # p
    <2>1. SUFFICES ASSUME NEW i \in DOMAIN calls PROVE calls[i].p # p
      OBVIOUS
    <2>2. calls[i] \in Call
      BY Places
    <2>3. CASE calls[i].op = "spawn"
      BY <1>2, <2>3 DEF IInv, CallsInv, Live
    <2>4. CASE calls[i].op = "kill"
      BY <1>2, <2>4 DEF Dying, KilledBy
    <2> QED BY <2>2, <2>3, <2>4 DEF Call
  <1>8. CallsInv'
    <2>1. ASSUME NEW i \in DOMAIN calls', NEW j \in DOMAIN calls', calls'[i].p = calls'[j].p
          PROVE  i = j
      BY <1>1, <1>3, <1>7, <2>1 DEF IInv, CallsInv
    <2>2. ASSUME NEW i \in DOMAIN calls', calls'[i].op = "spawn"
          PROVE  life'[calls'[i].p] = "entering"
      <3>1. i \in DOMAIN calls /\ calls'[i] = calls[i]
        BY <1>1, <1>3, <2>2
      <3> QED BY <1>2, <2>2, <3>1 DEF IInv, CallsInv
    <2> QED BY <2>1, <2>2 DEF CallsInv
  <1>9. ControlInv' /\ SnapInv'
    <2>1. MayCall'
      BY <1>2 DEF MayCall
    <2> QED BY <1>2, <2>1 DEF IInv, ControlInv, SnapInv
  <1>10. EachInOnePlace'
    BY <1>2, <1>4, <1>5 DEF IInv, EachInOnePlace
  <1>11. ListMatchesStatus' /\ VisitedOncePerTick'
    BY <1>2, <1>4, <1>5 DEF IInv, ListMatchesStatus, VisitedOncePerTick
  <1> QED BY <1>6, <1>8, <1>9, <1>10, <1>11 DEF IInv

\* The process that is deleted is in no list.
LEMMA KillFreeStep ==
  ASSUME IInv, KillFree
  PROVE  IInv'
  <1> DEFINE p == Last(calls).p
  <1>1. /\ Front(calls) \in Seq(Call) /\ Last(calls) \in Call
        /\ DOMAIN Front(calls) = DOMAIN calls \ {Len(calls)} /\ Len(calls) \in DOMAIN calls
        /\ Last(calls) = calls[Len(calls)]
        /\ \A i \in DOMAIN Front(calls) : Front(calls)[i] = calls[i] /\ calls[i].p # p
        /\ KilledBy(Front(calls))
              = KilledBy(calls) \ (IF Last(calls).op = "kill" THEN {Last(calls).p} ELSE {})
    <2>1. calls \in Seq(Call) /\ calls # <<>>
      BY Places DEF KillFree
    <2>2. \A i, j \in DOMAIN calls : calls[i].p = calls[j].p => i = j
      BY DEF IInv, CallsInv
    <2> QED BY <2>1, <2>2, PopCall
  <1>2. p \in Dying
    BY <1>1 DEF KillFree, Dying, KilledBy
  <1>3. /\ life' = [life EXCEPT ![p] = "freed"] /\ status' = [status EXCEPT ![p] = "DEAD"]
        /\ calls' = Front(calls)
        /\ UNCHANGED <<nextPid, sleepFrames, ready, suspended, rest, running, current, phase,
                       cursor, snap, visited, tick, due>>
        /\ Last(calls).op = "kill" /\ calls # <<>>
    BY DEF KillFree, lists, history
  <1>4. Dying' = Dying \ {p}
    BY <1>1, <1>3 DEF Dying
  <1> HIDE DEF p
  <1>5. /\ life \in [Pids -> {"unborn", "entering", "live", "freed", "void"}]
        /\ status \in [Pids -> {"DEAD", "READY", "RUNNING", "SUSPENDED"}]
    BY DEF IInv, TypeOK
  <1>6. /\ p \in Pids /\ p \in Live /\ life[p] = "live" /\ p # running
        /\ p \notin ToSet(ready) \cup ToSet(suspended) \cup ToSet(rest)
    <2>1. p \in Pids /\ p \in Live
      BY <1>2, Places
    <2>2. life[p] = "live"
      BY <2>1 DEF Live
    <2>3. p # running /\ p \notin ToSet(ready) \cup ToSet(suspended) \cup ToSet(rest)
      BY <1>2 DEF IInv, EachInOnePlace
    <2> QED BY <2>1, <2>2, <2>3
  <1>7. Live' = Live \ {p}
    BY <1>3, <1>5, <1>6 DEF Live
  <1>8. TypeOK'
    <2>1. calls' \in Seq([op : {"spawn", "kill"}, p : Pids])
      BY <1>1, <1>3 DEF Call
    <2> QED BY <1>3, <1>5, <1>6, <2>1 DEF IInv, TypeOK
  <1>9. CallsInv'
    <2>1. ASSUME NEW i \in DOMAIN calls', calls'[i].op = "spawn"
          PROVE  life'[calls'[i].p] = "entering"
      <3>1. i \in DOMAIN calls /\ calls'[i] = calls[i]
        BY <1>1, <1>3
      <3>3. calls[i] \in Call
        BY <3>1, Places
      <3>2. life[calls[i].p] = "entering"
        BY <2>1, <3>1 DEF IInv, CallsInv
      <3> QED BY <1>3, <1>5, <1>6, <3>1, <3>2, <3>3 DEF Call
    <2>2. ASSUME NEW i \in DOMAIN calls', NEW j \in DOMAIN calls', calls'[i].p = calls'[j].p
          PROVE  i = j
      BY <1>1, <1>3, <2>2 DEF IInv, CallsInv
    <2> QED BY <2>1, <2>2 DEF CallsInv
  <1>10. ControlInv'
    <2>1. \A q \in Pids : q >= nextPid' => life'[q] = "unborn"
      BY <1>3, <1>5, <1>6 DEF IInv, ControlInv
    <2>2. phase = "quantum" => status'[running] = status[running]
      BY <1>3, <1>5, <1>6 DEF IInv, ControlInv
    <2>3. MayCall'
      BY <1>3 DEF MayCall, IInv, ControlInv
    <2>4. current' = NoPid \/ current' = running' \/ life'[current'] = "entering"
      BY <1>3, <1>5, <1>6 DEF IInv, ControlInv, TypeOK
    <2> QED BY <1>3, <2>1, <2>2, <2>3, <2>4 DEF IInv, ControlInv
  <1>11. SnapInv'
    BY <1>3, <1>5, <1>6 DEF IInv, SnapInv, TypeOK
  <1>12. EachInOnePlace'
    BY <1>3, <1>4, <1>6, <1>7 DEF IInv, EachInOnePlace
  <1>13. ListMatchesStatus'
    <2>1. \A q \in Pids : q # p => status'[q] = status[q]
      BY <1>3, <1>5
    <2> QED BY <1>3, <1>6, <2>1, Places DEF IInv, ListMatchesStatus
  <1>14. VisitedOncePerTick'
    BY <1>3, <1>7 DEF IInv, VisitedOncePerTick
  <1> QED BY <1>8, <1>9, <1>10, <1>11, <1>12, <1>13, <1>14 DEF IInv

\* A suspended process that is resumed moves to the ready queue.
LEMMA ResumeStep ==
  ASSUME IInv, NEW p \in Pids, Resume(p)
  PROVE  IInv'
  <1>1. /\ p \in Live /\ p # running /\ p \notin Dying /\ status[p] = "SUSPENDED"
        /\ suspended' = RemoveFirst(suspended, p) /\ ready' = Append(ready, p)
        /\ status' = [status EXCEPT ![p] = "READY"] /\ due' = [due EXCEPT ![p] = NoTick]
        /\ UNCHANGED <<nextPid, life, sleepFrames, rest, running, current, calls, phase, cursor,
                       snap, visited, tick>>
    BY DEF Resume, control
  <1>2. /\ ready \in Seq(Pids) /\ suspended \in Seq(Pids) /\ Distinct(ready) /\ Distinct(suspended)
        /\ status \in [Pids -> {"DEAD", "READY", "RUNNING", "SUSPENDED"}]
    BY DEF IInv, TypeOK, EachInOnePlace
  <1>3. p \notin ToSet(ready) /\ p \notin ToSet(rest)
    BY <1>1 DEF IInv, ListMatchesStatus
  <1>4. /\ ready' \in Seq(Pids) /\ ToSet(ready') = ToSet(ready) \cup {p} /\ Distinct(ready')
        /\ suspended' \in Seq(Pids) /\ ToSet(suspended') = ToSet(suspended) \ {p}
        /\ Distinct(suspended')
    BY <1>1, <1>2, <1>3, AppendList, RemoveFirstList
  <1>5. Live' = Live /\ Dying' = Dying
    BY <1>1 DEF Live, Dying
  <1>6. TypeOK'
    BY <1>1, <1>2, <1>4 DEF IInv, TypeOK
  <1>7. CallsInv' /\ SnapInv'
    BY <1>1 DEF IInv, CallsInv, SnapInv
  <1>8. ControlInv'
    <2>1. phase = "quantum" => status'[running] = status[running]
      BY <1>1, <1>2 DEF IInv, ControlInv
    <2>2. MayCall' = MayCall
      BY <1>1 DEF MayCall
    <2> QED BY <1>1, <2>1, <2>2 DEF IInv, ControlInv
  <1>9. EachInOnePlace'
    BY <1>1, <1>3, <1>4, <1>5 DEF IInv, EachInOnePlace
  <1>10. ListMatchesStatus'
    <2>1. \A q \in Pids : q # p => status'[q] = status[q]
      BY <1>1, <1>2
    <2>2. status'[p] = "READY"
      BY <1>1, <1>2
    <2> QED BY <1>1, <1>3, <1>4, <2>1, <2>2, Places DEF IInv, ListMatchesStatus
  <1>11. VisitedOncePerTick'
    BY <1>1, <1>5 DEF IInv, VisitedOncePerTick
  <1> QED BY <1>6, <1>7, <1>8, <1>9, <1>10, <1>11 DEF IInv

\* Steps that move no process: the tick begins and ends.
LEMMA TickStartStep ==
  ASSUME IInv, TickStart
  PROVE  IInv'
  <1>1. /\ phase = "host" /\ phase' = "sleepers" /\ cursor' = 1 /\ tick' = (tick + 1) % TickMod
        /\ calls = <<>>
        /\ UNCHANGED <<nextPid, life, status, sleepFrames, ready, suspended, rest, running,
                       current, calls, snap, visited, due>>
    BY DEF TickStart, lists
  <1>2. Live' = Live /\ Dying' = Dying
    BY <1>1 DEF Live, Dying
  <1>3. TypeOK'
    <2>1. tick' \in 0 .. TickMod - 1
      BY <1>1, SchedulerAssumption DEF IInv, TypeOK
    <2> QED BY <1>1, <2>1 DEF IInv, TypeOK
  <1>4. ControlInv' /\ CallsInv' /\ SnapInv'
    BY <1>1 DEF IInv, ControlInv, CallsInv, SnapInv
  <1>5. EachInOnePlace' /\ ListMatchesStatus' /\ VisitedOncePerTick'
    BY <1>1, <1>2 DEF IInv, EachInOnePlace, ListMatchesStatus, VisitedOncePerTick
  <1> QED BY <1>3, <1>4, <1>5 DEF IInv

LEMMA TickEndStep ==
  ASSUME IInv, TickEnd
  PROVE  IInv'
  <1>1. /\ phase = "loop" /\ phase' = "host" /\ rest = <<>>
        /\ UNCHANGED <<nextPid, life, status, sleepFrames, ready, suspended, rest, running,
                       current, calls, cursor, snap, visited, tick, due>>
    BY DEF TickEnd, lists, history
  <1>2. Live' = Live /\ Dying' = Dying
    BY <1>1 DEF Live, Dying
  <1>3. TypeOK'
    BY <1>1 DEF IInv, TypeOK
  <1>4. ControlInv' /\ CallsInv' /\ SnapInv'
    BY <1>1 DEF IInv, ControlInv, CallsInv, SnapInv, MayCall
  <1>5. EachInOnePlace' /\ ListMatchesStatus' /\ VisitedOncePerTick'
    BY <1>1, <1>2 DEF IInv, EachInOnePlace, ListMatchesStatus, VisitedOncePerTick
  <1> QED BY <1>3, <1>4, <1>5 DEF IInv

\* A sleeper is counted down; at the end of its sleep it moves to the ready queue.
LEMMA TickSleeperStep ==
  ASSUME IInv, TickSleeper
  PROVE  IInv'
  <1> DEFINE p == suspended[cursor]
  <1>1. /\ phase = "sleepers" /\ cursor \in 1 .. Len(suspended)
        /\ UNCHANGED <<nextPid, life, rest, running, current, calls, phase, snap, visited, tick, due>>
    <2>1. cursor \in Nat \ {0} /\ Len(suspended) \in Nat
      BY DEF IInv, TypeOK
    <2> QED BY <2>1 DEF TickSleeper, history
  <1>2. /\ ready \in Seq(Pids) /\ suspended \in Seq(Pids) /\ Distinct(ready) /\ Distinct(suspended)
        /\ status \in [Pids -> {"DEAD", "READY", "RUNNING", "SUSPENDED"}]
        /\ sleepFrames \in [Pids -> 0 .. MaxSleep]
    BY DEF IInv, TypeOK, EachInOnePlace
  <1>3. p \in ToSet(suspended) /\ p \in Pids
    BY <1>1, <1>2 DEF ToSet
  <1>4. \/ /\ status' = [status EXCEPT ![p] = "READY"] /\ ready' = Append(ready, p)
           /\ suspended' = RemoveAt(suspended, cursor) /\ cursor' = cursor
           /\ sleepFrames' = [sleepFrames EXCEPT ![p] = @ - 1] /\ sleepFrames[p] = 1
        \/ /\ UNCHANGED <<status, ready, suspended>> /\ cursor' = cursor + 1
           /\ sleepFrames' = [sleepFrames EXCEPT ![p] = @ - 1] /\ sleepFrames[p] > 0
           /\ sleepFrames[p] # 1
        \/ /\ UNCHANGED <<status, ready, suspended, sleepFrames>> /\ cursor' = cursor + 1
    BY DEF TickSleeper, Expires
  <1>5. Live' = Live /\ Dying' = Dying
    BY <1>1 DEF Live, Dying
  <1>6. ControlInv' /\ CallsInv' /\ SnapInv' /\ VisitedOncePerTick'
    <2>1. calls = <<>> /\ running = NoPid
      BY <1>1 DEF IInv, ControlInv, MayCall
    <2> QED BY <1>1, <1>5, <2>1 DEF IInv, ControlInv, CallsInv, SnapInv, VisitedOncePerTick
  <1> HIDE DEF p
  <1>7. CASE /\ status' = [status EXCEPT ![p] = "READY"] /\ ready' = Append(ready, p)
             /\ suspended' = RemoveAt(suspended, cursor) /\ cursor' = cursor
             /\ sleepFrames' = [sleepFrames EXCEPT ![p] = @ - 1] /\ sleepFrames[p] = 1
    <2>1. p \notin ToSet(ready) /\ p \notin ToSet(rest)
      BY <1>3 DEF IInv, EachInOnePlace
    <2>2. ready' \in Seq(Pids) /\ ToSet(ready') = ToSet(ready) \cup {p} /\ Distinct(ready')
      BY <1>2, <1>3, <1>7, <2>1, AppendList
    <2>3. /\ suspended' \in Seq(Pids) /\ ToSet(suspended') = ToSet(suspended) \ {p}
          /\ Distinct(suspended')
      BY <1>1, <1>2, <1>7, RemoveAtList DEF p
    <2>4. sleepFrames' \in [Pids -> 0 .. MaxSleep]
      BY <1>2, <1>3, <1>7, SchedulerAssumption
    <2>5. TypeOK'
      BY <1>1, <1>2, <1>7, <2>2, <2>3, <2>4 DEF IInv, TypeOK
    <2>6. EachInOnePlace'
      BY <1>1, <1>3, <1>5, <2>1, <2>2, <2>3 DEF IInv, EachInOnePlace
    <2>7. ListMatchesStatus'
      <3>1. \A q \in Pids : q # p => status'[q] = status[q] /\ sleepFrames'[q] = sleepFrames[q]
        BY <1>2, <1>7
      <3>2. status'[p] = "READY"
        BY <1>2, <1>3, <1>7
      <3> QED BY <1>1, <2>1, <2>2, <2>3, <3>1, <3>2, Places DEF IInv, ListMatchesStatus
    <2> QED BY <1>6, <2>5, <2>6, <2>7 DEF IInv
  <1>8. CASE /\ UNCHANGED <<status, ready, suspended>> /\ cursor' = cursor + 1
             /\ sleepFrames' = [sleepFrames EXCEPT ![p] = @ - 1] /\ sleepFrames[p] > 0
             /\ sleepFrames[p] # 1
    <2>1. sleepFrames' \in [Pids -> 0 .. MaxSleep]
      BY <1>2, <1>3, <1>8, SchedulerAssumption
    <2>2. TypeOK'
      BY <1>1, <1>8, <2>1 DEF IInv, TypeOK
    <2>3. EachInOnePlace'
      BY <1>1, <1>5, <1>8 DEF IInv, EachInOnePlace
    <2>4. ListMatchesStatus'
      <3>1. \A q \in Pids : sleepFrames[q] > 0 => sleepFrames'[q] > 0
        BY <1>2, <1>3, <1>8, SchedulerAssumption
      <3> QED BY <1>1, <1>8, <3>1, Places DEF IInv, ListMatchesStatus
    <2> QED BY <1>6, <2>2, <2>3, <2>4 DEF IInv
  <1>9. CASE UNCHANGED <<status, ready, suspended, sleepFrames>> /\ cursor' = cursor + 1
    <2>1. TypeOK'
      BY <1>1, <1>9 DEF IInv, TypeOK
    <2>2. EachInOnePlace' /\ ListMatchesStatus'
      BY <1>1, <1>5, <1>9 DEF IInv, EachInOnePlace, ListMatchesStatus
    <2> QED BY <1>6, <2>1, <2>2 DEF IInv
  <1> QED BY <1>4, <1>7, <1>8, <1>9 DEF p

\* The ready queue becomes the snapshot.
LEMMA TickSnapshotStep ==
  ASSUME IInv, TickSnapshot
  PROVE  IInv'
  <1>1. /\ phase = "sleepers" /\ phase' = (IF ready = <<>> THEN "host" ELSE "loop")
        /\ rest' = ready /\ ready' = <<>> /\ snap' = ToSet(ready) /\ visited' = {}
        /\ UNCHANGED <<nextPid, life, status, sleepFrames, suspended, running, current, calls,
                       cursor, tick, due>>
    BY DEF TickSnapshot, Snapshot
  <1>2. Live' = Live /\ Dying' = Dying
    BY <1>1 DEF Live, Dying
  <1>3. rest = <<>> /\ running = NoPid /\ calls = <<>> /\ ToSet(rest) = {}
    BY <1>1 DEF IInv, ControlInv, MayCall, ToSet
  <1>4. ToSet(ready') = {} /\ Distinct(ready') /\ ready' \in Seq(Pids)
    BY <1>1 DEF ToSet, Distinct
  <1>5. TypeOK'
    BY <1>1, <1>4, Places DEF IInv, TypeOK
  <1>6. ControlInv' /\ CallsInv'
    BY <1>1, <1>3 DEF IInv, ControlInv, CallsInv
  <1>7. SnapInv'
    BY <1>1, Places DEF SnapInv, Live
  <1>8. EachInOnePlace'
    BY <1>1, <1>2, <1>3, <1>4 DEF IInv, EachInOnePlace
  <1>9. ListMatchesStatus' /\ VisitedOncePerTick'
    BY <1>1, <1>2, <1>4 DEF IInv, ListMatchesStatus, VisitedOncePerTick
  <1> QED BY <1>5, <1>6, <1>7, <1>8, <1>9 DEF IInv

\* The head of the snapshot becomes the running process.
LEMMA QuantumStartStep ==
  ASSUME IInv, QuantumStart
  PROVE  IInv'
  <1> DEFINE p == Head(rest)
  <1>1. /\ phase = "loop" /\ rest # <<>> /\ phase' = "quantum" /\ running' = p /\ current' = p
        /\ rest' = Tail(rest) /\ status' = [status EXCEPT ![p] = "RUNNING"]
        /\ visited' = visited \cup {p} /\ due' = [due EXCEPT ![p] = NoTick]
        /\ UNCHANGED <<nextPid, life, sleepFrames, ready, suspended, calls, cursor, snap, tick>>
    BY DEF QuantumStart
  <1>2. /\ rest \in Seq(Pids) /\ Distinct(rest)
        /\ status \in [Pids -> {"DEAD", "READY", "RUNNING", "SUSPENDED"}]
    BY DEF IInv, TypeOK, EachInOnePlace
  <1>3. /\ p \in Pids /\ rest' \in Seq(Pids) /\ ToSet(rest') = ToSet(rest) \ {p}
        /\ p \in ToSet(rest) /\ Distinct(rest')
    BY <1>1, <1>2, TailList
  <1> HIDE DEF p
  <1>4. /\ calls = <<>> /\ running = NoPid /\ p \notin ToSet(ready) /\ p \notin ToSet(suspended)
        /\ p \notin Dying
    <2>1. calls = <<>> /\ running = NoPid
      BY <1>1 DEF IInv, ControlInv, MayCall
    <2> QED BY <1>3, <2>1 DEF IInv, EachInOnePlace
  <1>5. Live' = Live /\ Dying' = Dying
    BY <1>1 DEF Live, Dying
  <1>6. \A q \in Pids : q # p => status'[q] = status[q]
    BY <1>1, <1>2
  <1>7. status'[p] = "RUNNING"
    BY <1>1, <1>2, <1>3
  <1>8. TypeOK'
    BY <1>1, <1>2, <1>3 DEF IInv, TypeOK
  <1>9. ControlInv' /\ CallsInv' /\ SnapInv'
    BY <1>1, <1>3, <1>4, <1>7 DEF IInv, ControlInv, CallsInv, SnapInv
  <1>10. EachInOnePlace'
    BY <1>1, <1>3, <1>4, <1>5, Places DEF IInv, EachInOnePlace
  <1>11. ListMatchesStatus'
    BY <1>1, <1>3, <1>4, <1>6, Places DEF IInv, ListMatchesStatus
  <1>12. VisitedOncePerTick'
    BY <1>1, <1>3, <1>5 DEF IInv, VisitedOncePerTick
  <1> QED BY <1>8, <1>9, <1>10, <1>11, <1>12 DEF IInv

\* sleep acts on the running process or on one that is in no list.
LEMMA SleepStep ==
  ASSUME IInv, NEW n \in 1 .. MaxSleep, Sleep(n)
  PROVE  IInv'
  <1>1. /\ current \in Pids
        /\ status' = [status EXCEPT ![current] = "SUSPENDED"]
        /\ sleepFrames' = [sleepFrames EXCEPT ![current] = n]
        /\ UNCHANGED <<nextPid, life, ready, suspended, rest, running, current, calls, phase,
                       cursor, snap, visited, tick>>
    BY DEF Sleep, lists, control, IInv, TypeOK
  <1>2. /\ status \in [Pids -> {"DEAD", "READY", "RUNNING", "SUSPENDED"}]
        /\ sleepFrames \in [Pids -> 0 .. MaxSleep]
        /\ due \in [Pids -> (0 .. TickMod - 1) \cup {NoTick}] /\ tick \in 0 .. TickMod - 1
    BY DEF IInv, TypeOK
  <1>3. Live' = Live /\ Dying' = Dying
    BY <1>1 DEF Live, Dying
  <1>4. current \notin ToSet(ready) \cup ToSet(suspended) \cup ToSet(rest)
    <2>1. CASE current = running
      BY <2>1 DEF IInv, EachInOnePlace
    <2>2. CASE life[current] = "entering"
      BY <2>2, Places DEF Live
    <2> QED BY <1>1, <2>1, <2>2, Places DEF IInv, ControlInv
  <1>5. \A q \in Pids : q # current => status'[q] = status[q] /\ sleepFrames'[q] = sleepFrames[q]
    BY <1>1, <1>2
  <1>6. status'[current] = "SUSPENDED" /\ sleepFrames'[current] > 0
    BY <1>1, <1>2, SchedulerAssumption
  <1>7. TypeOK'
    <2>1. sleepFrames' \in [Pids -> 0 .. MaxSleep]
      BY <1>1, <1>2, SchedulerAssumption
    <2>2. (tick + n) % TickMod \in 0 .. TickMod - 1
      BY <1>2, SchedulerAssumption
    <2>3. due' \in [Pids -> (0 .. TickMod - 1) \cup {NoTick}]
      BY <1>2, <2>2 DEF Sleep
    <2> QED BY <1>1, <1>2, <2>1, <2>3 DEF IInv, TypeOK
  <1>8. CallsInv' /\ SnapInv'
    BY <1>1 DEF IInv, CallsInv, SnapInv
  <1>9. ControlInv'
    <2>1. MayCall' = MayCall
      BY <1>1 DEF MayCall
    <2>2. phase = "quantum" =>
            /\ running \in Pids /\ status'[running] \in {"RUNNING", "SUSPENDED"}
            /\ status'[running] = "SUSPENDED" => sleepFrames'[running] > 0
      BY <1>5, <1>6 DEF IInv, ControlInv
    <2> QED BY <1>1, <2>1, <2>2 DEF IInv, ControlInv
  <1>10. EachInOnePlace' /\ VisitedOncePerTick'
    BY <1>1, <1>3 DEF IInv, EachInOnePlace, VisitedOncePerTick
  <1>11. ListMatchesStatus'
    BY <1>1, <1>4, <1>5, Places DEF IInv, ListMatchesStatus
  <1> QED BY <1>7, <1>8, <1>9, <1>10, <1>11 DEF IInv

\* Where the process goes whose quantum is over, in status s.
LEMMA RequeueStep ==
  ASSUME IInv, NEW s \in {"READY", "SUSPENDED"}, phase = "quantum", calls = <<>>,
         s = "SUSPENDED" => sleepFrames[running] > 0,
         status' = [status EXCEPT ![running] = s],
         Requeue(running, s),
         running' = NoPid, current' = NoPid, phase' = "loop",
         due' \in [Pids -> (0 .. TickMod - 1) \cup {NoTick}],
         UNCHANGED <<nextPid, life, sleepFrames, calls, cursor, snap, visited, tick>>
  PROVE  IInv'
  <1> DEFINE p == running
  <1>1. p \in Pids /\ p \in Live
    BY Places DEF IInv, ControlInv
  <1>2. p \notin ToSet(ready) \cup ToSet(suspended) \cup ToSet(rest) /\ p \notin Dying
    BY DEF IInv, EachInOnePlace
  <1>3. /\ ready \in Seq(Pids) /\ suspended \in Seq(Pids) /\ Distinct(ready) /\ Distinct(suspended)
        /\ status \in [Pids -> {"DEAD", "READY", "RUNNING", "SUSPENDED"}]
    BY DEF IInv, TypeOK, EachInOnePlace
  <1>4. Live' = Live /\ Dying' = Dying /\ rest' = rest
    BY DEF Live, Dying, Requeue
  <1>5. /\ ready' \in Seq(Pids) /\ Distinct(ready')
        /\ ToSet(ready') = ToSet(ready) \cup (IF s = "READY" THEN {p} ELSE {})
    BY <1>1, <1>2, <1>3, AppendList DEF Requeue
  <1>6. /\ suspended' \in Seq(Pids) /\ Distinct(suspended')
        /\ ToSet(suspended') = ToSet(suspended) \cup (IF s = "SUSPENDED" THEN {p} ELSE {})
    BY <1>1, <1>2, <1>3, AppendList DEF Requeue
  <1>7. \A q \in Pids : status'[q] = IF q = p THEN s ELSE status[q]
    BY <1>1, <1>3
  <1>8. TypeOK'
    <2>1. status' \in [Pids -> {"DEAD", "READY", "RUNNING", "SUSPENDED"}]
      BY <1>3
    <2> QED BY <1>4, <1>5, <1>6, <2>1 DEF IInv, TypeOK
  <1>9. ControlInv' /\ CallsInv' /\ SnapInv'
    BY DEF IInv, ControlInv, CallsInv, SnapInv
  <1>10. EachInOnePlace'
    <2>1. NoPid \notin Pids /\ Live \subseteq Pids
      BY Places
    <2>2. CASE s = "READY"
      BY <1>1, <1>2, <1>4, <1>5, <1>6, <2>1, <2>2, Places DEF IInv, EachInOnePlace
    <2>3. CASE s = "SUSPENDED"
      BY <1>1, <1>2, <1>4, <1>5, <1>6, <2>1, <2>3, Places DEF IInv, EachInOnePlace
    <2> QED BY <2>2, <2>3
  <1>11. ListMatchesStatus'
    BY <1>1, <1>2, <1>4, <1>5, <1>6, <1>7, Places DEF IInv, ListMatchesStatus
  <1>12. VisitedOncePerTick'
    BY <1>4 DEF IInv, VisitedOncePerTick
  <1> QED BY <1>8, <1>9, <1>10, <1>11, <1>12 DEF IInv

(***************************************************************************)
(* The induction step and the theorems.                                    *)
(***************************************************************************)
LEMMA NextIInv ==
  ASSUME IInv, [Next]_vars
  PROVE  IInv'
  <1>1. CASE TickStep
    BY <1>1, TickStartStep, TickSleeperStep, TickSnapshotStep, QuantumStartStep, TickEndStep
       DEF TickStep
  <1>2. CASE ApiStep
    BY <1>2, SpawnEnterStep, SpawnStatelessStep, KillStep, ResumeStep, SpawnPublishStep,
       KillFreeStep DEF ApiStep
  <1>3. CASE QuantumEnd
    <2> DEFINE s == IF status[running] = "RUNNING" THEN "READY" ELSE status[running]
    <2>1. phase = "quantum" /\ status[running] \in {"RUNNING", "SUSPENDED"}
      BY <1>3 DEF QuantumEnd, IInv, ControlInv
    <2>2. s \in {"READY", "SUSPENDED"} /\ (s = "SUSPENDED" => sleepFrames[running] > 0)
      BY <2>1 DEF IInv, ControlInv
    <2>3. due' \in [Pids -> (0 .. TickMod - 1) \cup {NoTick}]
      BY <1>3 DEF QuantumEnd, history, IInv, TypeOK
    <2>4. /\ calls = <<>> /\ status' = [status EXCEPT ![running] = s] /\ Requeue(running, s)
          /\ running' = NoPid /\ current' = NoPid /\ phase' = "loop"
          /\ UNCHANGED <<nextPid, life, sleepFrames, calls, cursor, snap, visited, tick>>
      BY <1>3 DEF QuantumEnd, history
    <2> HIDE DEF s
    <2> QED BY <2>1, <2>2, <2>3, <2>4, RequeueStep
  <1>4. CASE QuantumCut
    <2>1. due' \in [Pids -> (0 .. TickMod - 1) \cup {NoTick}]
      BY <1>4 DEF QuantumCut, IInv, TypeOK
    <2>2. /\ phase = "quantum" /\ calls = <<>> /\ status' = [status EXCEPT ![running] = "READY"]
          /\ Requeue(running, "READY")
          /\ running' = NoPid /\ current' = NoPid /\ phase' = "loop"
          /\ UNCHANGED <<nextPid, life, sleepFrames, calls, cursor, snap, visited, tick>>
      BY <1>4 DEF QuantumCut
    <2> QED BY <2>1, <2>2, RequeueStep
  <1>5. CASE \E n \in 1 .. MaxSleep : Sleep(n)
    BY <1>5, SleepStep
  <1>6. CASE UNCHANGED vars
    <2>1. Live' = Live /\ Dying' = Dying
      BY <1>6 DEF vars, control, Live, Dying
    <2>2. TypeOK' /\ ControlInv' /\ CallsInv' /\ SnapInv'
      BY <1>6 DEF vars, lists, control, history, IInv, TypeOK, ControlInv, CallsInv, SnapInv, MayCall
    <2>3. EachInOnePlace' /\ ListMatchesStatus' /\ VisitedOncePerTick'
      BY <1>6, <2>1 DEF vars, lists, control, history, IInv, EachInOnePlace, ListMatchesStatus,
         VisitedOncePerTick
    <2> QED BY <2>2, <2>3 DEF IInv
  <1> QED BY <1>1, <1>2, <1>3, <1>4, <1>5, <1>6 DEF Next, QuantumStep

\* The inductive invariant holds in every state the scheduler can reach.
THEOREM Invariant == Spec => []IInv
  BY InitIInv, NextIInv, PTL DEF Spec

\* The fields of the scheduler keep their types, whatever the number of processes:
\* in particular no list ever holds a null pointer.
THEOREM TypeCorrect == Spec => []TypeOK
  <1>1. IInv => TypeOK
    BY DEF IInv
  <1> QED BY <1>1, Invariant, PTL

\* Spawns, kills, resumes and sleeps in any order, during a tick too, never lose a
\* process, never list one twice and never leave a deleted one in a list, as long
\* as no process that the tick loop holds is killed.
THEOREM ListsExact == Spec => []EachInOnePlace
  <1>1. IInv => EachInOnePlace
    BY DEF IInv
  <1> QED BY <1>1, Invariant, PTL

\* The list a process waits in always agrees with its status.
THEOREM StatusExact == Spec => []WellFiled
  <1>1. IInv => WellFiled
    BY DEF IInv, WellFiled
  <1> QED BY <1>1, Invariant, PTL

\* A tick gives every process of its snapshot that stays alive exactly one quantum.
THEOREM RoundRobin == Spec => []VisitedOncePerTick
  <1>1. IInv => VisitedOncePerTick
    BY DEF IInv
  <1> QED BY <1>1, Invariant, PTL

(***************************************************************************)
(* Sleeps.                                                                 *)
(***************************************************************************)
\* The tick at which a sleep of k more ticks ends.
DueIn(k) == (tick + k) % TickMod

\* A sleeper's counter and the tick at which it is due tell the same time: one
\* that tick_sleepers has yet to visit lags by the tick that has begun.  Who is
\* not asleep has nothing due, except a process woken in this tick.
DueInv ==
  /\ \A p \in Pids : p \notin ToSet(suspended) \cup ToSet(rest) \cup {running} =>
       due[p] = NoTick \/ (phase = "sleepers" /\ p \in ToSet(ready) /\ due[p] = tick)
  /\ \A p \in ToSet(rest) : due[p] \in {NoTick, tick}
  /\ phase # "sleepers" => \A p \in ToSet(suspended) : due[p] = DueIn(sleepFrames[p])
  /\ phase = "sleepers" => \A i \in DOMAIN suspended :
       due[suspended[i]] = DueIn(sleepFrames[suspended[i]] - (IF i < cursor THEN 0 ELSE 1))
  /\ phase = "quantum" =>
       due[running] = IF status[running] = "SUSPENDED" THEN DueIn(sleepFrames[running]) ELSE NoTick

\* A sleep of less than a turn of the tick counter is not due at once.
LEMMA NotNow ==
  ASSUME NEW m \in Nat \ {0}, NEW t \in 0 .. m - 1, NEW k \in 1 .. m - 1
  PROVE  (t + k) % m # t
  <1>1. CASE t + k < m
    <2>1. t + k \in 0 .. m - 1 /\ t + k # t
      BY <1>1
    <2> QED BY <2>1, ModSmall
  <1>2. CASE ~(t + k < m)
    <2> DEFINE x == t + k - m
    <2>1. x \in 0 .. m - 1 /\ t + k = m + x /\ x # t
      BY <1>2
    <2> HIDE DEF x
    <2>2. (m + x) % m = x
      BY <2>1, ModWrap
    <2> QED BY <2>1, <2>2
  <1> QED BY <1>1, <1>2

LEMMA InitDue == ASSUME Init PROVE DueInv
  <1>1. ToSet(suspended) = {} /\ ToSet(rest) = {} /\ DOMAIN suspended = {}
    BY DEF Init, ToSet
  <1> QED BY <1>1 DEF Init, DueInv

\* Steps that leave the sleepers, the snapshot and the clock alone.
LEMMA DueFrame ==
  ASSUME IInv, DueInv, ToSet(ready) \subseteq ToSet(ready'),
         UNCHANGED <<suspended, rest, running, phase, cursor, tick, due, sleepFrames>>,
         phase = "quantum" => status'[running] = status[running]
  PROVE  DueInv'
  BY DEF DueInv, DueIn

\* Steps that end the sleep of one process.
LEMMA DueDrop ==
  ASSUME IInv, DueInv, NEW p \in Pids, phase # "sleepers", p \notin ToSet(rest), p # running,
         due' = [due EXCEPT ![p] = NoTick], ToSet(suspended') = ToSet(suspended) \ {p},
         UNCHANGED <<rest, running, phase, tick, sleepFrames>>,
         phase = "quantum" => status'[running] = status[running]
  PROVE  DueInv'
  <1>1. due \in [Pids -> (0 .. TickMod - 1) \cup {NoTick}]
    BY DEF IInv, TypeOK
  <1>2. due'[p] = NoTick /\ \A q \in Pids : q # p => due'[q] = due[q]
    BY <1>1
  <1>3. ToSet(suspended) \subseteq Pids /\ ToSet(rest) \subseteq Pids
    BY Places
  <1>4. phase = "quantum" => running \in Pids
    BY DEF IInv, ControlInv
  <1> QED BY <1>2, <1>3, <1>4 DEF DueInv, DueIn

LEMMA ApiDue ==
  ASSUME IInv, DueInv, ApiStep
  PROVE  DueInv'
  <1>0. /\ status \in [Pids -> {"DEAD", "READY", "RUNNING", "SUSPENDED"}]
        /\ ready \in Seq(Pids) /\ suspended \in Seq(Pids) /\ Distinct(ready) /\ Distinct(suspended)
    BY DEF IInv, TypeOK, EachInOnePlace
  <1>1. ASSUME NEW p \in Pids, SpawnEnter(p) \/ SpawnStateless(p) PROVE DueInv'
    BY <1>1, DueFrame DEF SpawnEnter, SpawnStateless, lists, control, history
  <1>2. ASSUME NEW p \in Pids, Kill(p) PROVE DueInv'
    <2>1. /\ phase # "sleepers" /\ p \notin ToSet(rest) /\ p # running
          /\ due' = [due EXCEPT ![p] = NoTick] /\ suspended' = RemoveFirst(suspended, p)
          /\ UNCHANGED <<rest, running, phase, tick, sleepFrames, status>>
      BY <1>2 DEF Kill, KillDetach, Detach, HeldByTick, MayCall
    <2>2. ToSet(suspended') = ToSet(suspended) \ {p}
      BY <1>0, <2>1, RemoveFirstList
    <2> QED BY <2>1, <2>2, DueDrop
  <1>3. ASSUME NEW p \in Pids, Resume(p) PROVE DueInv'
    <2>1. /\ phase # "sleepers" /\ p # running /\ status[p] = "SUSPENDED"
          /\ due' = [due EXCEPT ![p] = NoTick] /\ suspended' = RemoveFirst(suspended, p)
          /\ status' = [status EXCEPT ![p] = "READY"]
          /\ UNCHANGED <<rest, running, phase, tick, sleepFrames>>
      BY <1>3 DEF Resume, MayCall, control
    <2>2. ToSet(suspended') = ToSet(suspended) \ {p}
      BY <1>0, <2>1, RemoveFirstList
    <2>3. p \notin ToSet(rest)
      BY <2>1 DEF IInv, ListMatchesStatus
    <2>4. phase = "quantum" => status'[running] = status[running]
      BY <1>0, <2>1 DEF IInv, ControlInv
    <2> QED BY <2>1, <2>2, <2>3, <2>4, DueDrop
  <1>4. ASSUME calls # <<>> PROVE Last(calls) \in Call /\ Last(calls).p \in Pids /\ Last(calls) = calls[Len(calls)]
                                  /\ Len(calls) \in DOMAIN calls
    <2>1. calls \in Seq(Call)
      BY Places
    <2>2. Last(calls) = calls[Len(calls)] /\ Last(calls) \in Call /\ Len(calls) \in DOMAIN calls
      BY <1>4, <2>1 DEF Last
    <2> QED BY <2>2 DEF Call
  <1>5. CASE SpawnPublish
    <2> DEFINE p == Last(calls).p
    <2>1. /\ calls # <<>> /\ Last(calls).op = "spawn"
          /\ status' = [status EXCEPT ![p] = "READY"] /\ ready' = Append(ready, p)
          /\ UNCHANGED <<suspended, rest, running, phase, cursor, tick, due, sleepFrames>>
      BY <1>5 DEF SpawnPublish, history
    <2>2. p \in Pids /\ life[p] = "entering"
      BY <1>4, <2>1 DEF IInv, CallsInv
    <2> HIDE DEF p
    <2>3. p \notin Live
      BY <2>2 DEF Live
    <2>4. phase = "quantum" => status'[running] = status[running]
      BY <1>0, <2>1, <2>3, Places DEF IInv, ControlInv
    <2>5. ToSet(ready) \subseteq ToSet(ready')
      BY <1>0, <2>1, <2>2, AppendList
    <2> QED BY <2>1, <2>4, <2>5, DueFrame
  <1>6. CASE KillFree
    <2> DEFINE p == Last(calls).p
    <2>1. /\ calls # <<>> /\ Last(calls).op = "kill"
          /\ status' = [status EXCEPT ![p] = "DEAD"]
          /\ UNCHANGED <<ready, suspended, rest, running, phase, cursor, tick, due, sleepFrames>>
      BY <1>6 DEF KillFree, lists, history
    <2>2. p \in Dying
      BY <1>4, <2>1 DEF Dying, KilledBy
    <2> HIDE DEF p
    <2>3. p # running
      BY <2>2 DEF IInv, EachInOnePlace
    <2>4. phase = "quantum" => status'[running] = status[running]
      BY <1>0, <2>1, <2>3 DEF IInv, ControlInv
    <2> QED BY <2>1, <2>4, DueFrame
  <1> QED BY <1>1, <1>2, <1>3, <1>5, <1>6 DEF ApiStep

\* The clock moves: every sleeper now lags by one.
LEMMA TickStartDue ==
  ASSUME IInv, DueInv, TickStart
  PROVE  DueInv'
  <1>0. TickMod \in Nat \ {0} /\ tick \in 0 .. TickMod - 1 /\ MaxSleep \in Nat
    BY SchedulerAssumption DEF IInv, TypeOK
  <1>1. /\ phase = "host" /\ phase' = "sleepers" /\ cursor' = 1 /\ tick' = (tick + 1) % TickMod
        /\ rest = <<>> /\ running = NoPid
        /\ UNCHANGED <<sleepFrames, ready, suspended, rest, running, due>>
    BY DEF TickStart, lists, IInv, ControlInv
  <1>2. ToSet(rest) = {}
    BY <1>1 DEF ToSet
  <1>3. ASSUME NEW i \in DOMAIN suspended
        PROVE  due'[suspended'[i]]
                 = DueIn(sleepFrames[suspended[i]] - (IF i < cursor THEN 0 ELSE 1))'
    <2> DEFINE p == suspended[i]
               k == sleepFrames[p]
    <2>1. suspended \in Seq(Pids) /\ sleepFrames \in [Pids -> 0 .. MaxSleep]
      BY DEF IInv, TypeOK
    <2>2. p \in ToSet(suspended) /\ p \in Pids /\ i \in Nat \ {0}
      BY <2>1 DEF ToSet
    <2> HIDE DEF p
    <2>3. k \in 1 .. MaxSleep
      BY <1>0, <2>1, <2>2 DEF IInv, ListMatchesStatus
    <2>4. due[p] = (tick + k) % TickMod
      BY <1>1, <2>2 DEF DueInv, DueIn
    <2>5. sleepFrames[suspended[i]] = k
      BY DEF p
    <2>6. due'[suspended'[i]] = (tick + k) % TickMod
      BY <1>1, <2>4 DEF p
    <2> HIDE DEF k
    <2>7. tick + 1 \in Nat /\ k - 1 \in Nat /\ tick + 1 + (k - 1) = tick + k
      BY <1>0, <2>3
    <2>8. (((tick + 1) % TickMod) + (k - 1)) % TickMod = (tick + 1 + (k - 1)) % TickMod
      BY <1>0, <2>7, ModAdd
    <2>9. (sleepFrames[suspended[i]] - (IF i < cursor THEN 0 ELSE 1))' = k - 1
      BY <1>1, <2>2, <2>5
    <2> QED BY <1>1, <2>6, <2>7, <2>8, <2>9 DEF DueIn
  <1>4. \A p \in Pids : p \notin ToSet(suspended) => due[p] = NoTick
    BY <1>1, <1>2, SchedulerAssumption DEF DueInv, Pids
  <1> QED BY <1>1, <1>2, <1>3, <1>4 DEF DueInv

\* tick_sleepers visits one sleeper: it catches up, or it is due now.
LEMMA TickSleeperDue ==
  ASSUME IInv, DueInv, TickSleeper
  PROVE  DueInv'
  <1>0. TickMod \in Nat \ {0} /\ tick \in 0 .. TickMod - 1 /\ MaxSleep \in Nat
    BY SchedulerAssumption DEF IInv, TypeOK
  <1> DEFINE p == suspended[cursor]
  <1>1. /\ phase = "sleepers" /\ cursor \in 1 .. Len(suspended) /\ rest = <<>> /\ running = NoPid
        /\ UNCHANGED <<rest, running, phase, tick, due>>
    <2>1. cursor \in Nat \ {0} /\ Len(suspended) \in Nat
      BY DEF IInv, TypeOK
    <2> QED BY <2>1 DEF TickSleeper, history, IInv, ControlInv
  <1>2. /\ ready \in Seq(Pids) /\ suspended \in Seq(Pids) /\ Distinct(suspended)
        /\ sleepFrames \in [Pids -> 0 .. MaxSleep] /\ Len(suspended) \in Nat
        /\ DOMAIN suspended = 1 .. Len(suspended)
    BY DEF IInv, TypeOK, EachInOnePlace
  <1>3. /\ p \in ToSet(suspended) /\ p \in Pids /\ status[p] = "SUSPENDED"
        /\ sleepFrames[p] \in 1 .. MaxSleep
    <2>0. cursor \in DOMAIN suspended
      BY <1>1, <1>2
    <2>1. p \in ToSet(suspended) /\ p \in Pids
      <3>1. p \in Pids
        BY <1>2, <2>0
      <3>2. p \in ToSet(suspended)
        BY <2>0 DEF ToSet
      <3> QED BY <3>1, <3>2
    <2> HIDE DEF p
    <2> QED BY <1>0, <1>2, <2>1 DEF IInv, ListMatchesStatus
  <1>4. /\ sleepFrames' = [sleepFrames EXCEPT ![p] = @ - 1]
        /\ \/ /\ ready' = Append(ready, p) /\ suspended' = RemoveAt(suspended, cursor)
              /\ cursor' = cursor /\ sleepFrames[p] = 1
           \/ UNCHANGED <<ready, suspended>> /\ cursor' = cursor + 1
    <2>1. status[p] # "DEAD" /\ sleepFrames[p] > 0
      BY <1>0, <1>3
    <2> QED BY <2>1 DEF TickSleeper, Expires
  <1>5. ToSet(rest) = {} /\ NoPid \notin Pids
    BY <1>1, Places DEF ToSet
  <1>6. /\ \A i \in DOMAIN suspended :
             due[suspended[i]] = DueIn(sleepFrames[suspended[i]] - (IF i < cursor THEN 0 ELSE 1))
        /\ \A q \in Pids : q \notin ToSet(suspended) =>
             due[q] = NoTick \/ (q \in ToSet(ready) /\ due[q] = tick)
    BY <1>1, <1>5 DEF DueInv
  <1>7. due[p] = DueIn(sleepFrames[p] - 1)
    BY <1>1, <1>2, <1>6
  <1>8. /\ sleepFrames'[p] = sleepFrames[p] - 1
        /\ \A q \in Pids : q # p => sleepFrames'[q] = sleepFrames[q]
    BY <1>2, <1>3, <1>4
  <1>9. \A i \in DOMAIN suspended : i # cursor => suspended[i] # p /\ suspended[i] \in Pids
    <2>1. cursor \in DOMAIN suspended
      BY <1>1, <1>2
    <2>2. \A i \in DOMAIN suspended : suspended[i] = suspended[cursor] => i = cursor
      BY <1>2, <2>1 DEF Distinct
    <2>3. \A i \in DOMAIN suspended : suspended[i] \in Pids
      BY <1>2
    <2> QED BY <2>2, <2>3
  <1>10. CASE /\ ready' = Append(ready, p) /\ suspended' = RemoveAt(suspended, cursor)
              /\ cursor' = cursor /\ sleepFrames[p] = 1
    <2>1. due[p] = tick
      <3>1. sleepFrames[p] - 1 = 0 /\ tick + 0 = tick /\ tick % TickMod = tick
        BY <1>0, <1>10, ModSmall
      <3> QED BY <1>7, <3>1 DEF DueIn
    <2>2. ToSet(suspended') = ToSet(suspended) \ {p} /\ ToSet(ready') = ToSet(ready) \cup {p}
      BY <1>1, <1>2, <1>3, <1>10, AppendList, RemoveAtList
    <2>3. /\ DOMAIN suspended' = 1 .. Len(suspended) - 1
          /\ \A j \in 1 .. Len(suspended) - 1 :
               /\ suspended'[j] = suspended[Up(j, cursor)] /\ Up(j, cursor) \in 1 .. Len(suspended)
               /\ Up(j, cursor) # cursor
      BY <1>1, <1>2, <1>10, RemoveAtIndex
    <2>4. ASSUME NEW j \in DOMAIN suspended'
          PROVE  due'[suspended'[j]]
                   = DueIn(sleepFrames[suspended[j]] - (IF j < cursor THEN 0 ELSE 1))'
      <3> DEFINE u == Up(j, cursor)
                 q == suspended[u]
      <3>1. u \in DOMAIN suspended /\ u # cursor /\ suspended'[j] = q /\ j \in Nat
        BY <1>2, <2>3, <2>4
      <3>2. (u < cursor) <=> (j < cursor)
        BY <1>1, <1>2, <3>1 DEF Up
      <3>3. q # p /\ q \in Pids
        BY <1>9, <3>1
      <3>4. due[q] = DueIn(sleepFrames[q] - (IF u < cursor THEN 0 ELSE 1))
        BY <1>6, <3>1
      <3> HIDE DEF u, q
      <3>5. sleepFrames'[q] = sleepFrames[q]
        BY <1>8, <3>3
      <3> QED BY <1>1, <1>10, <3>1, <3>2, <3>4, <3>5 DEF DueIn
    <2>5. \A q \in Pids : q \notin ToSet(suspended') =>
             due'[q] = NoTick \/ (q \in ToSet(ready') /\ due'[q] = tick')
      BY <1>1, <1>6, <2>1, <2>2
    <2> QED BY <1>1, <1>5, <2>4, <2>5 DEF DueInv
  <1>11. CASE UNCHANGED <<ready, suspended>> /\ cursor' = cursor + 1
    <2>1. ASSUME NEW j \in DOMAIN suspended
          PROVE  due'[suspended'[j]]
                   = DueIn(sleepFrames[suspended[j]] - (IF j < cursor THEN 0 ELSE 1))'
      <3>1. due[suspended[j]] = DueIn(sleepFrames[suspended[j]] - (IF j < cursor THEN 0 ELSE 1))
        BY <1>6
      <3>2. CASE j = cursor
        <4>1. due[p] = DueIn(sleepFrames'[p]) /\ j < cursor' /\ sleepFrames'[p] - 0 = sleepFrames'[p]
          BY <1>0, <1>1, <1>3, <1>7, <1>8, <1>11, <3>2
        <4> QED BY <1>1, <1>11, <3>2, <4>1 DEF DueIn
      <3>3. CASE j # cursor
        <4>1. (j < cursor) <=> (j < cursor')
          BY <1>1, <1>2, <1>11, <3>3
        <4>2. sleepFrames'[suspended[j]] = sleepFrames[suspended[j]]
          BY <1>8, <1>9, <3>3
        <4> QED BY <1>1, <1>11, <3>1, <4>1, <4>2 DEF DueIn
      <3> QED BY <3>2, <3>3
    <2> QED BY <1>1, <1>5, <1>6, <1>11, <2>1 DEF DueInv
  <1> QED BY <1>4, <1>10, <1>11

\* All sleepers were visited; who is due now is in the snapshot.
LEMMA TickSnapshotDue ==
  ASSUME IInv, DueInv, TickSnapshot
  PROVE  DueInv'
  <1>1. /\ phase = "sleepers" /\ phase' = (IF ready = <<>> THEN "host" ELSE "loop")
        /\ rest' = ready /\ ready' = <<>> /\ cursor > Len(suspended)
        /\ rest = <<>> /\ running = NoPid
        /\ UNCHANGED <<sleepFrames, suspended, running, tick, due>>
    BY DEF TickSnapshot, Snapshot, IInv, ControlInv
  <1>2. /\ suspended \in Seq(Pids) /\ sleepFrames \in [Pids -> 0 .. MaxSleep] /\ cursor \in Nat
        /\ MaxSleep \in Nat /\ ready \in Seq(Pids)
    BY SchedulerAssumption DEF IInv, TypeOK
  <1>3. ToSet(rest) = {} /\ NoPid \notin Pids
    BY <1>1, Places DEF ToSet
  <1>4. ASSUME NEW p \in ToSet(suspended) PROVE due[p] = DueIn(sleepFrames[p])
    <2>1. PICK i \in DOMAIN suspended : p = suspended[i]
      BY DEF ToSet
    <2>2. i < cursor /\ p \in Pids
      BY <1>1, <1>2, <2>1
    <2>3. sleepFrames[p] - 0 = sleepFrames[p]
      BY <1>2, <2>2
    <2> QED BY <1>1, <2>1, <2>2, <2>3 DEF DueInv
  <1>5. \A p \in Pids : p \notin ToSet(suspended) =>
          due[p] = NoTick \/ (p \in ToSet(ready) /\ due[p] = tick)
    BY <1>1, <1>3 DEF DueInv
  <1>6. ToSet(ready) \cap ToSet(suspended) = {} /\ ToSet(ready) \subseteq Pids
    BY Places DEF IInv, EachInOnePlace
  <1>7. phase' \notin {"sleepers", "quantum"}
    BY <1>1
  <1> QED BY <1>1, <1>3, <1>4, <1>5, <1>6, <1>7 DEF DueInv, DueIn

LEMMA TickEndDue ==
  ASSUME IInv, DueInv, TickEnd
  PROVE  DueInv'
  BY DEF TickEnd, lists, history, DueInv, DueIn

\* The snapshot's head is awake.
LEMMA QuantumStartDue ==
  ASSUME IInv, DueInv, QuantumStart
  PROVE  DueInv'
  <1> DEFINE p == Head(rest)
  <1>1. /\ phase = "loop" /\ rest # <<>> /\ phase' = "quantum" /\ running' = p
        /\ rest' = Tail(rest) /\ status' = [status EXCEPT ![p] = "RUNNING"]
        /\ due' = [due EXCEPT ![p] = NoTick] /\ running = NoPid
        /\ UNCHANGED <<sleepFrames, ready, suspended, tick>>
    BY DEF QuantumStart, IInv, ControlInv
  <1>2. /\ rest \in Seq(Pids) /\ Distinct(rest)
        /\ status \in [Pids -> {"DEAD", "READY", "RUNNING", "SUSPENDED"}]
        /\ due \in [Pids -> (0 .. TickMod - 1) \cup {NoTick}]
    BY DEF IInv, TypeOK, EachInOnePlace
  <1>3. p \in Pids /\ p \in ToSet(rest) /\ ToSet(rest') = ToSet(rest) \ {p}
    BY <1>1, <1>2, TailList
  <1> HIDE DEF p
  <1>4. p \notin ToSet(suspended) /\ ToSet(suspended) \subseteq Pids /\ ToSet(rest) \subseteq Pids
    BY <1>3, Places DEF IInv, EachInOnePlace
  <1>5. due'[p] = NoTick /\ status'[p] = "RUNNING" /\ \A q \in Pids : q # p => due'[q] = due[q]
    BY <1>1, <1>2, <1>3
  <1> QED BY <1>1, <1>3, <1>4, <1>5, Places DEF DueInv, DueIn

\* sleep starts a sleep of the running process; in an enter handler it times nothing.
LEMMA SleepDue ==
  ASSUME IInv, DueInv, NEW n \in 1 .. MaxSleep, Sleep(n)
  PROVE  DueInv'
  <1>1. /\ current \in Pids
        /\ status' = [status EXCEPT ![current] = "SUSPENDED"]
        /\ sleepFrames' = [sleepFrames EXCEPT ![current] = n]
        /\ due' = IF current = running THEN [due EXCEPT ![running] = DueIn(n)] ELSE due
        /\ UNCHANGED <<ready, suspended, rest, running, phase, cursor, tick>>
    BY DEF Sleep, lists, control, IInv, TypeOK, DueIn
  <1>2. /\ status \in [Pids -> {"DEAD", "READY", "RUNNING", "SUSPENDED"}]
        /\ sleepFrames \in [Pids -> 0 .. MaxSleep] /\ suspended \in Seq(Pids)
        /\ due \in [Pids -> (0 .. TickMod - 1) \cup {NoTick}]
    BY DEF IInv, TypeOK
  <1>3. current \notin ToSet(suspended) \cup ToSet(rest)
    <2>1. CASE current = running
      BY <2>1 DEF IInv, EachInOnePlace
    <2>2. CASE life[current] = "entering"
      BY <2>2, Places DEF Live
    <2> QED BY <1>1, <2>1, <2>2, Places DEF IInv, ControlInv
  <1>4. /\ ToSet(suspended) \subseteq Pids /\ ToSet(rest) \subseteq Pids
        /\ \A i \in DOMAIN suspended : suspended[i] \in ToSet(suspended)
    BY Places DEF ToSet
  <1>5. \A q \in Pids : q # current =>
          status'[q] = status[q] /\ sleepFrames'[q] = sleepFrames[q] /\ due'[q] = due[q]
    BY <1>1, <1>2
  <1>6. status'[current] = "SUSPENDED" /\ sleepFrames'[current] = n
    BY <1>1, <1>2
  <1>7. CASE current = running
    <2>1. due'[running] = DueIn(n)
      BY <1>1, <1>2, <1>7
    <2> QED BY <1>1, <1>3, <1>4, <1>5, <1>6, <1>7, <2>1 DEF DueInv, DueIn
  <1>8. CASE current # running
    <2>1. due' = due
      BY <1>1, <1>8
    <2>2. phase = "quantum" => running \in Pids
      BY DEF IInv, ControlInv
    <2> QED BY <1>1, <1>3, <1>4, <1>5, <1>8, <2>1, <2>2 DEF DueInv, DueIn
  <1> QED BY <1>7, <1>8

\* A quantum ends: the process keeps its sleep, or has none.
LEMMA QuantumEndDue ==
  ASSUME IInv, DueInv, QuantumEnd
  PROVE  DueInv'
  <1> DEFINE s == IF status[running] = "RUNNING" THEN "READY" ELSE status[running]
  <1>1. /\ phase = "quantum" /\ phase' = "loop" /\ running' = NoPid
        /\ suspended' = IF s = "SUSPENDED" THEN Append(suspended, running) ELSE suspended
        /\ UNCHANGED <<rest, sleepFrames, tick, due>>
    BY DEF QuantumEnd, Requeue, history
  <1>2. /\ suspended \in Seq(Pids) /\ running \in Pids /\ status[running] \in {"RUNNING", "SUSPENDED"}
        /\ Distinct(suspended)
    BY <1>1 DEF IInv, TypeOK, ControlInv, EachInOnePlace
  <1>3. CASE status[running] = "SUSPENDED"
    <2>1. ToSet(suspended') = ToSet(suspended) \cup {running}
      BY <1>1, <1>2, <1>3, AppendList
    <2>2. due[running] = DueIn(sleepFrames[running])
      BY <1>1, <1>3 DEF DueInv
    <2> QED BY <1>1, <2>1, <2>2 DEF DueInv, DueIn
  <1>4. CASE status[running] = "RUNNING"
    <2>1. suspended' = suspended /\ due[running] = NoTick
      BY <1>1, <1>4 DEF DueInv
    <2> QED BY <1>1, <2>1 DEF DueInv, DueIn
  <1> QED BY <1>2, <1>3, <1>4

\* A quantum is cut short: a sleep it asked for is dropped.
LEMMA QuantumCutDue ==
  ASSUME IInv, DueInv, QuantumCut
  PROVE  DueInv'
  <1>1. /\ phase = "quantum" /\ phase' = "loop" /\ running' = NoPid
        /\ due' = [due EXCEPT ![running] = NoTick]
        /\ UNCHANGED <<suspended, rest, sleepFrames, tick>>
    BY DEF QuantumCut, Requeue
  <1>2. /\ running \in Pids /\ running \notin ToSet(suspended) \cup ToSet(rest)
        /\ due \in [Pids -> (0 .. TickMod - 1) \cup {NoTick}]
        /\ ToSet(suspended) \subseteq Pids /\ ToSet(rest) \subseteq Pids
    BY <1>1, Places DEF IInv, TypeOK, ControlInv, EachInOnePlace
  <1>3. due'[running] = NoTick /\ \A q \in Pids : q # running => due'[q] = due[q]
    BY <1>1, <1>2
  <1> QED BY <1>1, <1>2, <1>3 DEF DueInv, DueIn

LEMMA NextDue ==
  ASSUME IInv, DueInv, [Next]_vars
  PROVE  DueInv'
  <1>1. CASE UNCHANGED vars
    BY <1>1 DEF vars, lists, control, history, DueInv, DueIn
  <1>2. CASE Next
    BY <1>2, TickStartDue, TickSleeperDue, TickSnapshotDue, QuantumStartDue, TickEndDue, ApiDue,
       QuantumEndDue, QuantumCutDue, SleepDue DEF Next, TickStep, QuantumStep
  <1> QED BY <1>1, <1>2

LEMMA DueImplies ==
  ASSUME IInv, DueInv
  PROVE  SleepIsExact
  <1>0. TickMod \in Nat \ {0} /\ tick \in 0 .. TickMod - 1 /\ NoTick \notin Nat
        /\ MaxSleep \in Nat /\ TickMod > MaxSleep + 1
    BY SchedulerAssumption DEF IInv, TypeOK
  <1>1. ASSUME phase = "host", NEW p \in Live PROVE due[p] # tick
    <2>1. CASE p \in ToSet(suspended)
      <3>1. due[p] = (tick + sleepFrames[p]) % TickMod
        BY <1>1, <2>1 DEF DueInv, DueIn
      <3>2. sleepFrames[p] \in 1 .. TickMod - 1
        <4>1. sleepFrames[p] > 0 /\ sleepFrames[p] \in 0 .. MaxSleep
          BY <2>1, Places DEF IInv, TypeOK, ListMatchesStatus
        <4> QED BY <1>0, <4>1
      <3> QED BY <1>0, <3>1, <3>2, NotNow
    <2>2. CASE p \notin ToSet(suspended)
      <3>1. rest = <<>> /\ running = NoPid
        BY <1>1 DEF IInv, ControlInv
      <3>2. ToSet(rest) = {} /\ p # running
        BY <3>1, Places DEF ToSet
      <3>3. due[p] = NoTick
        BY <1>1, <2>2, <3>2, Places DEF DueInv
      <3> QED BY <1>0, <3>3
    <2> QED BY <2>1, <2>2
  <1> QED BY <1>1 DEF SleepIsExact, DueInv

\* A process that slept n ticks, for any n and any number of processes that are
\* queued, resumed or killed meanwhile, runs in exactly the n-th tick after
\* (tick_sleepers decrements first and tests then, before the snapshot is taken).
THEOREM SleepExact == Spec => []SleepIsExact
  <1>1. Init => IInv /\ DueInv
    BY InitIInv, InitDue
  <1>2. IInv /\ DueInv /\ [Next]_vars => IInv' /\ DueInv'
    BY NextIInv, NextDue
  <1>3. IInv /\ DueInv => SleepIsExact
    BY DueImplies
  <1> QED BY <1>1, <1>2, <1>3, PTL DEF Spec

-----------------------------------------------------------------------------
(* The quantum implements the scheduler. *)

LEMMA StepRefines == [QNext]_qvars => [Next]_vars
<1>1. ASSUME LoopStep PROVE [Next]_vars
  <2>1. CASE Return \/ Fault \/ FaultDrop \/ LoopExit \/ NativeYield
    BY <2>1 DEF Return, Fault, FaultDrop, LoopExit, NativeYield
  <2>2. CASE \E n \in 1 .. MaxSleep : NativeSleep(n)
    BY <2>2 DEF NativeSleep, Next, QuantumStep
  <2> QED BY <1>1, <2>1, <2>2 DEF LoopStep
<1>2. ASSUME CallStep PROVE [Next]_vars
  BY <1>2 DEF CallStep, NativeSpawn, NativeKill, HostSpawn, HostKill, FinishSpawn, FinishKill,
     Next, ApiStep
<1>3. ASSUME ProcessStep PROVE [Next]_vars
  <2>1. CASE BeginQuantum
    BY <2>1 DEF BeginQuantum, Next, TickStep
  <2>2. CASE TickTrack \/ RunCode \/ AfterCode
    BY <2>2 DEF TickTrack, RunCode, AfterCode
  <2>3. CASE CutQuantum \/ EndQuantum
    BY <2>3 DEF CutQuantum, EndQuantum, Next, QuantumStep
  <2> QED BY <1>3, <2>1, <2>2, <2>3 DEF ProcessStep
<1>4. ASSUME HostTick PROVE [Next]_vars
  BY <1>4 DEF HostTick, Next, TickStep
<1>5. ASSUME UNCHANGED qvars PROVE [Next]_vars
  BY <1>5 DEF qvars
<1> QED BY <1>1, <1>2, <1>3, <1>4, <1>5 DEF QNext

\* execute_quantum, the VM's loops and the natives take no step that Scheduler.tla
\* does not allow: all that is proved of the scheduler holds with the quantum opened
\* up, whichever handlers yield, sleep, spawn, kill and fail.
THEOREM QuantumRefines == QSpec => Spec
<1>1. QInit => Init
  BY DEF QInit
<1>2. [QNext]_qvars => [Next]_vars
  BY StepRefines
<1> QED BY <1>1, <1>2, PTL DEF QSpec, Spec

-----------------------------------------------------------------------------
(* The invariant of the VM's loops. *)

\* Handlers that run inside a native neither yield nor call spawn or kill.
Quiet == Handlers \cap (Yielders \cup Spawners) = {}

\* Their frames, and the frames whose execution has ended in some way.
HandlerFrames == [h : Handlers, p : Pids]
Ended == finished \cup dropped \cup stopped

\* The lambda that the quantum has started last.
Base == IF step = "code" THEN thread[running] ELSE Frame(step, running)

\* The handler that a spawn or kill runs.
HandlerOf(c) == Frame(IF c.op = "spawn" THEN "enter" ELSE "exit", c.p)

\* What current_frame is when the innermost loop is the quantum's: its lambda, or
\* the handler whose error stops this loop too.
FrameOfQuantum == frame \in {NoFrame, Base} \/ (failed /\ frame \in HandlerFrames)

\* No spawn or kill is in progress.
Between ==
  /\ calls = <<>>
  /\ execs = <<>> \/ (phase = "quantum" /\ execs = <<Base>>)
  /\ phase = "quantum" => FrameOfQuantum

\* The handler of the call c runs, on top of the lambda that made the call.
InHandler(c) ==
  /\ calls = <<c>> /\ HandlerOf(c).h \in Handlers
  /\ \/ phase = "host" /\ execs = <<HandlerOf(c)>>
     \/ phase = "quantum" /\ execs = <<Base, HandlerOf(c)>> /\ Base.h \notin Handlers
  /\ frame \in {NoFrame, HandlerOf(c)}
  /\ frame = NoFrame \/ failed => HandlerOf(c) \in Ended

\* The handler of c is over, or there is none.
AfterHandler(c) ==
  /\ calls = <<c>>
  /\ HandlerOf(c).h \in Handlers => HandlerOf(c) \in Ended
  /\ \/ phase = "host" /\ execs = <<>>
     \/ phase = "quantum" /\ execs = <<Base>> /\ Base.h \notin Handlers /\ FrameOfQuantum

\* Where the loops are.
LoopInv == Between \/ \E c \in Call : InHandler(c) \/ AfterHandler(c)

VmType ==
  /\ frame \in Frames \cup {NoFrame} /\ failed \in BOOLEAN /\ yielded \in BOOLEAN
  /\ execs \in Seq(Frames)
  /\ thread \in [Pids -> Frames \cup {NoFrame}]
  /\ track \in [Pids -> {"new", "parked", "done"}]
  /\ step \in {"idle", "trans", "track", "code", "post"}
  /\ phase = "quantum" <=> step # "idle"
  /\ step = "code" => thread[running] # NoFrame
  /\ finished \subseteq Frames /\ dropped \subseteq Frames /\ stopped \subseteq Frames

\* main_thread is made when its process is published, from its code; a handler that
\* fails inside the code's quantum takes its place.
ThreadInv ==
  \A p \in Pids : /\ thread[p] # NoFrame => thread[p].h \in {"code"} \cup Handlers
                  /\ life[p] \in {"unborn", "entering", "void"} => thread[p] = NoFrame

VInv == VmType /\ LoopInv /\ ThreadInv

-----------------------------------------------------------------------------
(* Short sequences, frames and handlers. *)

LEMMA Short ==
  ASSUME NEW x, NEW y
  PROVE  /\ <<x>> # <<>> /\ Last(<<x>>) = x /\ Front(<<x>>) = <<>> /\ Append(<<>>, x) = <<x>>
         /\ <<x, y>> # <<>> /\ Last(<<x, y>>) = y /\ Front(<<x, y>>) = <<x>>
         /\ Append(<<x>>, y) = <<x, y>>
<1> DEFINE S == {x, y}
           a == <<x>>
           b == <<x, y>>
           u == SubSeq(a, 1, 0)
           v == SubSeq(b, 1, 1)
<1>1. a \in Seq(S) /\ Len(a) = 1 /\ b \in Seq(S) /\ Len(b) = 2 /\ a[1] = x /\ b[1] = x /\ b[2] = y
  OBVIOUS
<1>2. a # <<>> /\ b # <<>> /\ Append(<<>>, x) = a /\ Append(a, y) = b
  <2>1. a # <<>> /\ b # <<>>
    BY <1>1
  <2> DEFINE c == Append(<<>>, x)
             d == Append(a, y)
  <2>2. c \in Seq(S) /\ Len(c) = 1 /\ c[1] = x
    OBVIOUS
  <2>3. d \in Seq(S) /\ Len(d) = 2 /\ d[1] = x /\ d[2] = y
    OBVIOUS
  <2> HIDE DEF S, c, d, a, b
  <2>4. c = a
    BY <1>1, <2>2, SeqEqual
  <2>5. d = b
    <3>1. \A i \in 1 .. 2 : i = 1 \/ i = 2
      OBVIOUS
    <3>2. \A i \in 1 .. 2 : d[i] = b[i]
      BY <1>1, <2>3, <3>1
    <3> QED BY <1>1, <2>3, <3>2, SeqEqual
  <2> QED BY <2>1, <2>4, <2>5 DEF c, d
<1> HIDE DEF S
<1>3. Front(a) = u /\ Front(b) = v /\ Last(a) = x /\ Last(b) = y
  BY <1>1 DEF Last, Front
<1> HIDE DEF a, b
<1>4. u \in Seq(S) /\ Len(u) = 0
  BY <1>1
<1>5. v \in Seq(S) /\ Len(v) = 1 /\ v[1] = b[1]
  BY <1>1
<1> HIDE DEF u, v
<1>6. u = <<>>
  BY <1>4
<1>7. v = a
  BY <1>1, <1>5, SeqEqual
<1> QED BY <1>1, <1>2, <1>3, <1>6, <1>7 DEF a, b

LEMMA FrameIs ==
  ASSUME NEW h \in Kinds, NEW p \in Pids
  PROVE  /\ Frame(h, p) \in Frames /\ Frame(h, p).h = h /\ Frame(h, p).p = p
         /\ Frame(h, p) # NoFrame
<1>1. Frame(h, p) \in Frames /\ Frame(h, p).h = h /\ Frame(h, p).p = p
  BY DEF Frame, Frames
<1> QED BY <1>1, QuantumAssumption

LEMMA FrameSame ==
  ASSUME NEW h, NEW p, NEW g, NEW q, Frame(h, p) = Frame(g, q)
  PROVE  h = g /\ p = q
BY DEF Frame

LEMMA HandlerIs ==
  ASSUME NEW c \in Call
  PROVE  /\ HandlerOf(c) \in Frames /\ HandlerOf(c) # NoFrame /\ HandlerOf(c).p = c.p
         /\ HandlerOf(c).h \in {"enter", "exit"} /\ c.p \in Pids
         /\ c.op = "spawn" => HandlerOf(c) = Frame("enter", c.p) /\ HandlerOf(c).h = "enter"
         /\ c.op = "kill" => HandlerOf(c) = Frame("exit", c.p) /\ HandlerOf(c).h = "exit"
         /\ HandlerOf(c).h \in Handlers => HandlerOf(c) \in HandlerFrames
<1>1. c.p \in Pids /\ c.op \in {"spawn", "kill"} /\ "enter" \in Kinds /\ "exit" \in Kinds
  BY DEF Call, Kinds
<1>2. HandlerOf(c).h \in Handlers => HandlerOf(c) \in HandlerFrames
  BY <1>1 DEF HandlerOf, Frame, HandlerFrames
<1>3. CASE c.op = "spawn"
  BY <1>1, <1>2, <1>3, FrameIs DEF HandlerOf
<1>4. CASE c.op = "kill"
  BY <1>1, <1>2, <1>4, FrameIs DEF HandlerOf
<1> QED BY <1>1, <1>3, <1>4

LEMMA BaseIs ==
  ASSUME IInv, VInv, phase = "quantum"
  PROVE  /\ Base \in Frames /\ Base # NoFrame /\ Base.h \in {step} \cup Handlers
         /\ step # "code" => Base = Frame(step, running) /\ Base.h = step
         /\ running \in Pids /\ step \in {"trans", "track", "code", "post"}
<1>1. running \in Pids /\ step \in {"trans", "track", "code", "post"}
  BY DEF IInv, ControlInv, VInv, VmType
<1>2. step \in Kinds
  BY <1>1 DEF Kinds
<1>3. CASE step = "code"
  BY <1>1, <1>3 DEF Base, VInv, VmType, ThreadInv
<1>4. CASE step # "code"
  BY <1>1, <1>2, <1>4, FrameIs DEF Base
<1> QED BY <1>1, <1>3, <1>4

LEMMA HandlerFrameIs ==
  ASSUME NEW f \in HandlerFrames
  PROVE  f \in Frames /\ f # NoFrame /\ f.h \in Handlers /\ f.h \in {"enter", "exit"}
<1>1. Handlers \subseteq {"enter", "exit"} /\ {"enter", "exit"} \subseteq Kinds
  BY QuantumAssumption DEF Kinds
<1>2. f \in Frames /\ f.h \in Handlers
  BY <1>1 DEF HandlerFrames, Frames
<1> QED BY <1>1, <1>2, QuantumAssumption

\* What a loop runs: the lambda of the quantum, or the handler of a call.
LEMMA LoopRuns ==
  ASSUME IInv, VInv, InLoop
  PROVE  \/ calls = <<>> /\ phase = "quantum" /\ execs = <<Base>> /\ FrameOfQuantum
         \/ \E c \in Call : InHandler(c)
<1>1. CASE Between
  BY <1>1 DEF InLoop, Between
<1>2. CASE \E c \in Call : InHandler(c)
  BY <1>2
<1>3. CASE \E c \in Call : AfterHandler(c)
  <2>1. PICK c \in Call : AfterHandler(c)
    BY <1>3
  <2>2. phase = "quantum" /\ execs = <<Base>> /\ calls = <<c>> /\ Base.h \notin Handlers
    BY <2>1 DEF AfterHandler, InLoop
  <2>3. Last(execs).h = step /\ calls # <<>> /\ step \in {"trans", "track", "code", "post"}
    BY <2>2, BaseIs, Short
  <2> QED BY <2>3 DEF InLoop
<1> QED BY <1>1, <1>2, <1>3 DEF VInv, LoopInv

\* A frame that calls a native which yields or calls is not a handler.
LEMMA NativeRuns ==
  ASSUME IInv, VInv, Quiet, Running, frame.h \in Yielders \cup Spawners
  PROVE  /\ calls = <<>> /\ phase = "quantum" /\ execs = <<Base>> /\ frame = Base
         /\ Base.h \notin Handlers /\ Base.h = step
<1>1. InLoop /\ frame # NoFrame /\ ~failed
  BY DEF Running
<1>2. CASE \E c \in Call : InHandler(c)
  BY <1>1, <1>2 DEF InHandler, Quiet
<1>3. CASE calls = <<>> /\ phase = "quantum" /\ execs = <<Base>> /\ FrameOfQuantum
  <2>1. frame = Base
    BY <1>1, <1>3 DEF FrameOfQuantum
  <2>2. Base.h \notin Handlers
    BY <2>1 DEF Quiet
  <2> QED BY <1>3, <2>1, <2>2, BaseIs
<1> QED BY <1>1, <1>2, <1>3, LoopRuns

\* Past the handler.
LEMMA CallGoesOn ==
  ASSUME IInv, VInv, ~InLoop, calls # <<>>
  PROVE  \E c \in Call : AfterHandler(c) /\ calls = <<c>> /\ Last(calls) = c /\ Front(calls) = <<>>
<1>1. ~Between
  BY DEF Between
<1>2. ASSUME NEW c \in Call PROVE ~InHandler(c)
  <2> SUFFICES ASSUME InHandler(c) PROVE FALSE
    OBVIOUS
  <2>1. calls = <<c>> /\ Last(calls) = c
    BY Short DEF InHandler
  <2>2. execs # <<>> /\ Last(execs) = HandlerOf(c)
    <3>1. CASE execs = <<HandlerOf(c)>>
      BY <3>1, Short
    <3>2. CASE execs = <<Base, HandlerOf(c)>>
      BY <3>2, Short
    <3> QED BY <3>1, <3>2 DEF InHandler
  <2> QED BY <2>1, <2>2, HandlerIs DEF InLoop
<1>3. PICK c \in Call : AfterHandler(c)
  BY <1>1, <1>2 DEF VInv, LoopInv
<1>4. calls = <<c>>
  BY <1>3 DEF AfterHandler
<1>5. Last(calls) = c /\ Front(calls) = <<>>
  BY <1>4, Short
<1> QED BY <1>3, <1>4, <1>5

\* Outside quanta and calls no loop runs.
LEMMA Quiescent ==
  ASSUME IInv, VInv, phase # "quantum", calls = <<>>
  PROVE  execs = <<>>
BY Short DEF VInv, LoopInv, Between, InHandler, AfterHandler

-----------------------------------------------------------------------------
(* The steps of the loops. *)

LEMMA ThreadSame ==
  ASSUME ThreadInv, thread' = thread,
         \A p \in Pids : life'[p] \in {"unborn", "entering", "void"}
                           => life[p] \in {"unborn", "entering", "void"}
  PROVE  ThreadInv'
BY DEF ThreadInv

LEMMA SeqFront ==
  ASSUME NEW s \in Seq(Frames), s # <<>>
  PROVE  Front(s) \in Seq(Frames)
<1>1. Len(s) \in Nat \ {0}
  OBVIOUS
<1>2. SubSeq(s, 1, Len(s) - 1) \in Seq(Frames)
  BY <1>1
<1> QED BY <1>2 DEF Front

\* Return and the two kinds of errors.
LEMMA EndStep ==
  ASSUME IInv, VInv, Return \/ Fault \/ FaultDrop
  PROVE  VInv'
<1>1. /\ InLoop /\ frame # NoFrame
      /\ frame' = NoFrame \/ (frame' = frame /\ failed')
      /\ finished \subseteq finished' /\ dropped \subseteq dropped' /\ stopped \subseteq stopped'
      /\ frame \in Ended'
      /\ UNCHANGED <<life, running, calls, phase, yielded, execs, thread, track, step>>
  BY DEF Return, Fault, FaultDrop, Running, Ended, vars, control
<1>2. VmType'
  <2>1. frame \in Frames
    BY <1>1 DEF VInv, VmType
  <2>2. /\ frame' \in Frames \cup {NoFrame} /\ failed' \in BOOLEAN
        /\ finished' \subseteq Frames /\ dropped' \subseteq Frames /\ stopped' \subseteq Frames
    BY <2>1 DEF Return, Fault, FaultDrop, VInv, VmType
  <2> QED BY <1>1, <2>2 DEF VInv, VmType
<1>3. ThreadInv'
  BY <1>1, ThreadSame DEF VInv
<1>4. LoopInv'
  <2>0. Base' = Base /\ Ended \subseteq Ended'
    BY <1>1 DEF Base, Ended
  <2>1. CASE calls = <<>> /\ phase = "quantum" /\ execs = <<Base>> /\ FrameOfQuantum
    <3>1. FrameOfQuantum'
      BY <1>1, <2>0, <2>1 DEF FrameOfQuantum
    <3> QED BY <1>1, <2>0, <2>1, <3>1 DEF LoopInv, Between
  <2>2. CASE \E c \in Call : InHandler(c)
    <3>1. PICK c \in Call : InHandler(c)
      BY <2>2
    <3>2. HandlerOf(c) \in Ended' /\ frame' \in {NoFrame, HandlerOf(c)}
      BY <1>1, <3>1 DEF InHandler
    <3>3. InHandler(c)'
      BY <1>1, <2>0, <3>1, <3>2 DEF InHandler
    <3> QED BY <3>3 DEF LoopInv
  <2> QED BY <1>1, <2>1, <2>2, LoopRuns
<1> QED BY <1>2, <1>3, <1>4 DEF VInv

LEMMA LoopExitStep ==
  ASSUME IInv, VInv, LoopExit
  PROVE  VInv'
<1>1. /\ InLoop /\ (frame = NoFrame \/ failed) /\ execs' = Front(execs) /\ execs # <<>>
      /\ UNCHANGED <<life, running, calls, phase, frame, failed, yielded, thread, track, step,
                     finished, dropped, stopped>>
  BY DEF LoopExit, InLoop, vars, control, ends
<1>2. VmType'
  BY <1>1, SeqFront DEF VInv, VmType
<1>3. ThreadInv'
  BY <1>1, ThreadSame DEF VInv
<1>4. LoopInv'
  <2>0. Base' = Base /\ Ended' = Ended /\ (FrameOfQuantum => FrameOfQuantum')
    BY <1>1 DEF Base, Ended, FrameOfQuantum
  <2>1. CASE calls = <<>> /\ phase = "quantum" /\ execs = <<Base>> /\ FrameOfQuantum
    <3>1. execs' = <<>>
      BY <1>1, <2>1, Short
    <3> QED BY <1>1, <2>0, <2>1, <3>1 DEF LoopInv, Between
  <2>2. CASE \E c \in Call : InHandler(c)
    <3>1. PICK c \in Call : InHandler(c)
      BY <2>2
    <3>2. HandlerOf(c) \in Ended /\ HandlerOf(c) \in HandlerFrames
      BY <1>1, <3>1, HandlerIs DEF InHandler
    <3>3. CASE phase = "host" /\ execs = <<HandlerOf(c)>>
      <4>1. execs' = <<>>
        BY <1>1, <3>3, Short
      <4>2. AfterHandler(c)'
        BY <1>1, <2>0, <3>1, <3>2, <3>3, <4>1 DEF InHandler, AfterHandler
      <4> QED BY <4>2 DEF LoopInv
    <3>4. CASE phase = "quantum" /\ execs = <<Base, HandlerOf(c)>> /\ Base.h \notin Handlers
      <4>1. execs' = <<Base>>
        BY <1>1, <3>4, Short
      <4>2. FrameOfQuantum
        BY <1>1, <3>1, <3>2 DEF InHandler, FrameOfQuantum
      <4>3. AfterHandler(c)'
        BY <1>1, <2>0, <3>1, <3>2, <3>4, <4>1, <4>2 DEF InHandler, AfterHandler
      <4> QED BY <4>3 DEF LoopInv
    <3> QED BY <3>1, <3>3, <3>4 DEF InHandler
  <2> QED BY <1>1, <2>1, <2>2, LoopRuns
<1> QED BY <1>2, <1>3, <1>4 DEF VInv

\* A native that yields or sleeps.
LEMMA YieldStep ==
  ASSUME IInv, VInv, Quiet, Running, frame.h \in Yielders, YieldCheck,
         UNCHANGED <<life, running, calls, phase>>
  PROVE  /\ VInv'
         /\ calls = <<>> /\ phase = "quantum" /\ frame = Base /\ execs' = <<>>
         /\ frame.h = step /\ Base' = Base
<1>1. /\ calls = <<>> /\ phase = "quantum" /\ execs = <<Base>> /\ frame = Base
      /\ frame.h = step
  BY NativeRuns
<1>2. /\ execs' = <<>> /\ yielded' = TRUE
      /\ UNCHANGED <<frame, failed, thread, track, step, finished, dropped, stopped>>
  BY <1>1, Short DEF YieldCheck, ends
<1>3. VmType'
  BY <1>2 DEF VInv, VmType
<1>4. ThreadInv'
  BY <1>2, ThreadSame DEF VInv
<1>5. Base' = Base
  BY <1>2 DEF Base
<1>6. LoopInv'
  BY <1>1, <1>2, <1>5 DEF LoopInv, Between, FrameOfQuantum
<1> QED BY <1>1, <1>2, <1>3, <1>4, <1>5, <1>6 DEF VInv

LEMMA NativeYieldStep ==
  ASSUME IInv, VInv, Quiet, NativeYield \/ \E n \in 1 .. MaxSleep : NativeSleep(n)
  PROVE  /\ VInv'
         /\ calls = <<>> /\ phase = "quantum" /\ frame = Base /\ execs' = <<>>
         /\ frame.h \in Yielders /\ frame.h = step /\ Base' = Base
<1>1. /\ Running /\ frame.h \in Yielders /\ YieldCheck
      /\ UNCHANGED <<life, running, calls, phase>>
  BY DEF NativeYield, NativeSleep, Sleep, vars, control
<1> QED BY <1>1, YieldStep

-----------------------------------------------------------------------------
(* The calls. *)

\* A spawn or kill begins, from the host or from the lambda of the quantum.
LEMMA CallBegins ==
  ASSUME IInv, VInv, NEW c \in Call, calls' = <<c>>,
         Run(HandlerOf(c).h, c.p),
         \/ phase = "host" /\ execs = <<>>
         \/ phase = "quantum" /\ execs = <<Base>> /\ frame = Base /\ Base.h \notin Handlers,
         UNCHANGED <<running, phase, yielded, thread, track, step, finished, dropped, stopped>>
  PROVE  VmType' /\ LoopInv'
<1> DEFINE h == HandlerOf(c)
<1>0. Base' = Base
  BY DEF Base
<1>1. h \in Frames /\ h = Frame(h.h, c.p) /\ h # NoFrame
  BY HandlerIs DEF HandlerOf, Frame
<1>2. CASE h.h \in Handlers
  <2>1. frame' = h /\ execs' = Append(execs, h) /\ failed' = FALSE
    BY <1>1, <1>2 DEF Run, Execute
  <2>2. VmType'
    <3>1. execs' \in Seq(Frames) /\ frame' \in Frames
      BY <1>1, <2>1 DEF VInv, VmType
    <3> HIDE DEF h
    <3> QED BY <2>1, <3>1 DEF VInv, VmType
  <2>3. \/ phase = "host" /\ execs' = <<h>>
        \/ phase = "quantum" /\ execs' = <<Base, h>> /\ Base.h \notin Handlers
    BY <2>1, Short
  <2>4. InHandler(c)'
    BY <1>0, <1>1, <1>2, <2>1, <2>3 DEF InHandler
  <2> QED BY <2>2, <2>4 DEF LoopInv
<1>3. CASE h.h \notin Handlers
  <2>1. UNCHANGED <<frame, execs, failed>>
    BY <1>3 DEF Run, vm
  <2>2. VmType'
    BY <2>1 DEF VInv, VmType
  <2>3. AfterHandler(c)'
    BY <1>0, <1>3, <2>1 DEF AfterHandler, FrameOfQuantum
  <2> QED BY <2>2, <2>3 DEF LoopInv
<1> QED BY <1>2, <1>3

LEMMA SpawnBegins ==
  ASSUME IInv, VInv, Quiet, NEW p \in Pids, NativeSpawn(p) \/ HostSpawn(p)
  PROVE  VInv'
<1> DEFINE c == [op |-> "spawn", p |-> p]
<1>1. /\ SpawnEnter(p) /\ Run("enter", p) /\ UNCHANGED <<yielded, thread, track, step, finished, dropped, stopped>>
  BY DEF NativeSpawn, HostSpawn, ends
<1>2. /\ p = nextPid /\ life' = [life EXCEPT ![p] = "entering"]
      /\ calls' = Append(calls, c) /\ UNCHANGED <<running, phase>>
  BY <1>1 DEF SpawnEnter
<1>3. /\ calls = <<>>
      /\ \/ phase = "host" /\ execs = <<>>
         \/ phase = "quantum" /\ execs = <<Base>> /\ frame = Base /\ Base.h \notin Handlers
  <2>1. CASE NativeSpawn(p)
    <3>1. Running /\ frame.h \in Yielders \cup Spawners
      BY <2>1 DEF NativeSpawn
    <3> QED BY <3>1, NativeRuns
  <2>2. CASE HostSpawn(p)
    BY <2>2, Quiescent DEF HostSpawn
  <2> QED BY <2>1, <2>2
<1>4. c \in Call /\ c.op = "spawn" /\ c.p = p
  BY DEF Call
<1> HIDE DEF c
<1>5. calls' = <<c>>
  BY <1>2, <1>3, Short
<1>6. HandlerOf(c).h = "enter"
  BY <1>4, HandlerIs
<1>7. VmType' /\ LoopInv'
  BY <1>1, <1>2, <1>3, <1>4, <1>5, <1>6, CallBegins
<1>8. ThreadInv'
  <2>1. life[p] = "unborn" /\ life \in [Pids -> {"unborn", "entering", "live", "freed", "void"}]
    <3>1. nextPid \in 1 .. NumPids + 1 /\ p >= nextPid
      BY <1>2, SchedulerAssumption DEF IInv, TypeOK, Pids
    <3> QED BY <3>1 DEF IInv, ControlInv, TypeOK
  <2> QED BY <1>1, <1>2, <2>1, ThreadSame DEF VInv
<1> QED BY <1>7, <1>8 DEF VInv

LEMMA KillBegins ==
  ASSUME IInv, VInv, Quiet, NEW p \in Pids, NativeKill(p) \/ HostKill(p)
  PROVE  VInv'
<1> DEFINE c == [op |-> "kill", p |-> p]
<1>1. /\ Kill(p) /\ Run("exit", p) /\ UNCHANGED <<yielded, thread, track, step, finished, dropped, stopped>>
  BY DEF NativeKill, HostKill, ends
<1>2. calls' = Append(calls, c) /\ UNCHANGED <<life, running, phase>>
  BY <1>1 DEF Kill, KillDetach
<1>3. /\ calls = <<>>
      /\ \/ phase = "host" /\ execs = <<>>
         \/ phase = "quantum" /\ execs = <<Base>> /\ frame = Base /\ Base.h \notin Handlers
  <2>1. CASE NativeKill(p)
    <3>1. Running /\ frame.h \in Yielders \cup Spawners
      BY <2>1 DEF NativeKill
    <3> QED BY <3>1, NativeRuns
  <2>2. CASE HostKill(p)
    BY <2>2, Quiescent DEF HostKill
  <2> QED BY <2>1, <2>2
<1>4. c \in Call /\ c.op = "kill" /\ c.p = p
  BY DEF Call
<1> HIDE DEF c
<1>5. calls' = <<c>>
  BY <1>2, <1>3, Short
<1>6. HandlerOf(c).h = "exit"
  BY <1>4, HandlerIs
<1>7. VmType' /\ LoopInv'
  BY <1>1, <1>2, <1>3, <1>4, <1>5, <1>6, CallBegins
<1>8. ThreadInv'
  BY <1>1, <1>2, ThreadSame DEF VInv
<1> QED BY <1>7, <1>8 DEF VInv

\* A spawn or kill goes on after its handler.
LEMMA CallEnds ==
  ASSUME IInv, VInv, ~InLoop, calls # <<>>, calls' = Front(calls),
         UNCHANGED <<phase, frame, failed, execs>>, Base' = Base
  PROVE  LoopInv'
<1>1. PICK c \in Call : AfterHandler(c) /\ calls = <<c>> /\ Front(calls) = <<>>
  BY CallGoesOn
<1>2. Between'
  BY <1>1 DEF AfterHandler, Between, FrameOfQuantum
<1> QED BY <1>2 DEF LoopInv

\* The process that is published is not the one that runs.
LEMMA Published ==
  ASSUME IInv, VInv, FinishSpawn
  PROVE  /\ Last(calls).p \in Pids /\ life[Last(calls).p] = "entering"
         /\ Last(calls).p # running /\ Base' = Base
<1> DEFINE p == Last(calls).p
<1>1. /\ ~InLoop /\ calls # <<>> /\ Last(calls).op = "spawn"
      /\ thread' = [thread EXCEPT ![p] = Frame("code", p)] /\ UNCHANGED <<running, phase, step>>
  BY DEF FinishSpawn, SpawnPublish
<1>2. PICK c \in Call : calls = <<c>> /\ Last(calls) = c
  BY <1>1, CallGoesOn
<1>3. life[c.p] = "entering" /\ c.p \in Pids
  <2>1. 1 \in DOMAIN calls /\ calls[1] = c
    BY <1>2
  <2> QED BY <1>1, <1>2, <2>1, HandlerIs DEF IInv, CallsInv
<1>4. p \in Pids /\ life[p] = "entering"
  BY <1>2, <1>3
<1> HIDE DEF p
<1>5. running # NoPid => life[running] = "live"
  BY DEF IInv, EachInOnePlace, Live
<1>6. p # running
  BY <1>4, <1>5, SchedulerAssumption DEF Pids
<1>7. step = "code" => running \in Pids
  BY DEF VInv, VmType, IInv, ControlInv
<1>8. Base' = Base
  BY <1>1, <1>4, <1>6, <1>7 DEF Base, VInv, VmType
<1> QED BY <1>4, <1>6, <1>8 DEF p

LEMMA FinishSpawnStep ==
  ASSUME IInv, VInv, FinishSpawn
  PROVE  VInv'
<1> DEFINE p == Last(calls).p
<1>1. /\ ~InLoop /\ calls # <<>> /\ calls' = Front(calls)
      /\ life' = [life EXCEPT ![p] = "live"] /\ thread' = [thread EXCEPT ![p] = Frame("code", p)]
      /\ UNCHANGED <<running, phase, frame, failed, yielded, execs, track, step, finished, dropped, stopped>>
  BY DEF FinishSpawn, SpawnPublish, vm, ends
<1>2. p \in Pids /\ p # running /\ Base' = Base
  BY Published
<1>3. LoopInv'
  BY <1>1, <1>2, CallEnds
<1>4. Frame("code", p) \in Frames /\ Frame("code", p).h = "code"
  BY <1>2, FrameIs DEF Kinds
<1> HIDE DEF p
<1>5. VmType'
  <2>1. thread' \in [Pids -> Frames \cup {NoFrame}]
    BY <1>1, <1>2, <1>4 DEF VInv, VmType
  <2>2. step = "code" => running \in Pids
    BY DEF VInv, VmType, IInv, ControlInv
  <2>3. step = "code" => thread'[running] # NoFrame
    BY <1>1, <1>2, <2>2 DEF VInv, VmType
  <2> QED BY <1>1, <2>1, <2>3 DEF VInv, VmType
<1>6. ThreadInv'
  BY <1>1, <1>2, <1>4 DEF VInv, VmType, ThreadInv, IInv, TypeOK
<1> QED BY <1>3, <1>5, <1>6 DEF VInv

LEMMA FinishKillStep ==
  ASSUME IInv, VInv, FinishKill
  PROVE  VInv'
<1> DEFINE p == Last(calls).p
<1>1. /\ ~InLoop /\ calls # <<>> /\ calls' = Front(calls)
      /\ life' = [life EXCEPT ![p] = "freed"]
      /\ UNCHANGED <<running, phase, frame, failed, yielded, execs, thread, track, step,
                     finished, dropped, stopped>>
  BY DEF FinishKill, KillFree, vm, ends
<1>2. LoopInv'
  <2>1. Base' = Base
    BY <1>1 DEF Base
  <2> QED BY <1>1, <2>1, CallEnds
<1>3. VmType'
  BY <1>1 DEF VInv, VmType
<1>4. \A q \in Pids : life'[q] \in {"unborn", "entering", "void"}
                        => life[q] \in {"unborn", "entering", "void"}
  BY <1>1 DEF IInv, TypeOK
<1>5. ThreadInv'
  BY <1>1, <1>4, ThreadSame DEF VInv
<1> QED BY <1>2, <1>3, <1>5 DEF VInv

-----------------------------------------------------------------------------
(* The host's tick and the steps of execute_quantum. *)

LEMMA HostTickStep ==
  ASSUME IInv, VInv, HostTick
  PROVE  VInv' /\ phase # "quantum" /\ phase' # "quantum" /\ execs = <<>> /\ calls = <<>>
<1>1. /\ phase # "quantum" /\ phase' # "quantum"
      /\ UNCHANGED <<life, calls, frame, failed, yielded, execs, thread, track, step,
                     finished, dropped, stopped>>
  BY DEF HostTick, TickStart, TickSleeper, TickSnapshot, TickEnd, vm, ends
<1>2. calls = <<>>
  BY DEF HostTick, TickStart, TickSleeper, TickSnapshot, TickEnd, IInv, ControlInv, MayCall
<1>3. execs = <<>>
  BY <1>1, <1>2, Quiescent
<1>4. VmType'
  <2>1. step # "code"
    BY <1>1 DEF VInv, VmType
  <2> QED BY <1>1, <2>1 DEF VInv, VmType
<1>5. LoopInv'
  BY <1>1, <1>2, <1>3 DEF LoopInv, Between
<1>6. ThreadInv'
  BY <1>1, ThreadSame DEF VInv
<1> QED BY <1>1, <1>2, <1>3, <1>4, <1>5, <1>6 DEF VInv

\* The quantum starts its next lambda.
LEMMA LambdaStarts ==
  ASSUME NEW f \in Frames, execs = <<>>, Execute(f), f = Base', calls' = <<>>, phase' = "quantum"
  PROVE  LoopInv' /\ frame' = f /\ execs' = <<f>> /\ execs' \in Seq(Frames) /\ failed' = FALSE
<1>1. frame' = f /\ execs' = <<f>> /\ failed' = FALSE
  BY Short DEF Execute
<1>2. execs' \in Seq(Frames)
  BY <1>1
<1> QED BY <1>1, <1>2 DEF LoopInv, Between, FrameOfQuantum

LEMMA BeginQuantumStep ==
  ASSUME IInv, VInv, BeginQuantum
  PROVE  VInv' /\ phase = "loop" /\ frame' = Base'
<1> DEFINE p == Head(rest)
<1>1. /\ phase = "loop" /\ phase' = "quantum" /\ running' = p /\ rest # <<>> /\ step' = "trans"
      /\ Execute(Frame("trans", p))
      /\ UNCHANGED <<life, calls, yielded, thread, track, finished, dropped, stopped>>
  BY DEF BeginQuantum, QuantumStart, ends
<1>2. p \in Pids /\ "trans" \in Kinds
  BY <1>1 DEF IInv, TypeOK, Kinds
<1> HIDE DEF p
<1>3. calls = <<>> /\ execs = <<>>
  BY <1>1, Quiescent DEF IInv, ControlInv, MayCall
<1>4. Frame("trans", p) \in Frames /\ Frame("trans", p) = Base'
  BY <1>1, <1>2, FrameIs DEF Base
<1>5. LoopInv' /\ frame' = Frame("trans", p) /\ execs' \in Seq(Frames) /\ failed' = FALSE
  BY <1>1, <1>3, <1>4, LambdaStarts
<1>6. VmType'
  BY <1>1, <1>4, <1>5 DEF VInv, VmType
<1>7. ThreadInv'
  BY <1>1, ThreadSame DEF VInv
<1> QED BY <1>1, <1>4, <1>5, <1>6, <1>7 DEF VInv

LEMMA TickTrackStep ==
  ASSUME IInv, VInv, TickTrack
  PROVE  VInv' /\ running \in Pids /\ frame' = Base' /\ frame' # NoFrame
<1>1. /\ phase = "quantum" /\ execs = <<>> /\ calls = <<>> /\ step' = "track"
      /\ Execute(Frame("track", running))
      /\ UNCHANGED <<life, running, calls, phase, yielded, thread, track, finished, dropped, stopped>>
  BY DEF TickTrack, At, vars, control, ends
<1>2. running \in Pids /\ "track" \in Kinds
  BY <1>1, BaseIs DEF Kinds
<1>3. /\ Frame("track", running) \in Frames /\ Frame("track", running) = Base'
      /\ Frame("track", running) # NoFrame
  BY <1>1, <1>2, FrameIs DEF Base
<1>4. LoopInv' /\ frame' = Frame("track", running) /\ execs' \in Seq(Frames) /\ failed' = FALSE
  BY <1>1, <1>3, LambdaStarts
<1>5. VmType'
  BY <1>1, <1>3, <1>4 DEF VInv, VmType
<1>6. ThreadInv'
  BY <1>1, ThreadSame DEF VInv
<1> QED BY <1>2, <1>3, <1>4, <1>5, <1>6 DEF VInv

LEMMA TrackType ==
  ASSUME VmType, NEW s \in {"parked", "done"}, AfterTrack(s), running \in Pids
  PROVE  /\ track' \in [Pids -> {"new", "parked", "done"}]
         /\ \A p \in Pids : track'[p] = IF step = "track" /\ p = running THEN s ELSE track[p]
BY DEF AfterTrack, VmType

LEMMA RunCodeStep ==
  ASSUME IInv, VInv, RunCode
  PROVE  /\ VInv' /\ running \in Pids /\ frame' # NoFrame /\ frame' = Base'
         /\ step' \in {"code", "post"}
<1>1. /\ phase = "quantum" /\ execs = <<>> /\ calls = <<>> /\ AfterTrack("done")
      /\ UNCHANGED <<life, running, calls, phase, yielded, thread, finished, dropped, stopped>>
  BY DEF RunCode, TracksOver, At, vars, control, ends
<1>2. running \in Pids /\ "post" \in Kinds
  BY <1>1, BaseIs DEF Kinds
<1>3. /\ LoopInv' /\ frame' = Base' /\ frame' # NoFrame /\ frame' \in Frames
      /\ execs' \in Seq(Frames) /\ failed' = FALSE
      /\ step' \in {"code", "post"} /\ (step' = "code" => thread[running] # NoFrame)
  <2>1. CASE thread[running] # NoFrame
    <3>1. /\ Execute(thread[running]) /\ step' = "code" /\ thread[running] \in Frames
          /\ thread[running] = Base'
      BY <1>1, <1>2, <2>1 DEF RunCode, VInv, VmType, Base
    <3> QED BY <1>1, <2>1, <3>1, LambdaStarts
  <2>2. CASE thread[running] = NoFrame
    <3>1. /\ Execute(Frame("post", running)) /\ step' = "post" /\ Frame("post", running) \in Frames
          /\ Frame("post", running) = Base' /\ Frame("post", running) # NoFrame
      BY <1>1, <1>2, <2>2, FrameIs DEF RunCode, Base
    <3> QED BY <1>1, <3>1, LambdaStarts
  <2> QED BY <2>1, <2>2
<1>4. track' \in [Pids -> {"new", "parked", "done"}]
  BY <1>1, <1>2, TrackType DEF VInv
<1>5. VmType'
  BY <1>1, <1>3, <1>4 DEF VInv, VmType
<1>6. ThreadInv'
  BY <1>1, ThreadSame DEF VInv
<1> QED BY <1>2, <1>3, <1>5, <1>6 DEF VInv

LEMMA AfterCodeStep ==
  ASSUME IInv, VInv, AfterCode
  PROVE  /\ VInv' /\ running \in Pids /\ frame' = Base'
         /\ \A p \in Pids : thread'[p] = IF p = running THEN frame ELSE thread[p]
<1>1. /\ phase = "quantum" /\ execs = <<>> /\ calls = <<>> /\ step = "code" /\ step' = "post"
      /\ Execute(Frame("post", running)) /\ thread' = [thread EXCEPT ![running] = frame]
      /\ UNCHANGED <<life, running, calls, phase, yielded, track, finished, dropped, stopped>>
  BY DEF AfterCode, At, vars, control, ends
<1>2. running \in Pids /\ "post" \in Kinds
  BY <1>1, BaseIs DEF Kinds
<1>3. Frame("post", running) \in Frames /\ Frame("post", running) = Base'
  BY <1>1, <1>2, FrameIs DEF Base
<1>4. LoopInv' /\ frame' = Frame("post", running) /\ execs' \in Seq(Frames) /\ failed' = FALSE
  BY <1>1, <1>3, LambdaStarts
<1>5. frame # NoFrame => frame.h \in {"code"} \cup Handlers
  <2>1. FrameOfQuantum
    BY <1>1 DEF VInv, LoopInv, Between, InHandler, AfterHandler
  <2>2. frame \in {NoFrame, thread[running]} \/ frame \in HandlerFrames
    BY <1>1, <2>1 DEF FrameOfQuantum, Base
  <2> QED BY <1>2, <2>2, HandlerFrameIs DEF VInv, ThreadInv
<1>6. VmType'
  BY <1>1, <1>2, <1>3, <1>4 DEF VInv, VmType
<1>7. \A p \in Pids : thread'[p] = IF p = running THEN frame ELSE thread[p]
  BY <1>1, <1>2 DEF VInv, VmType
<1>8. life[running] = "live"
  <2>1. running # NoPid
    BY <1>2, SchedulerAssumption DEF Pids
  <2> QED BY <2>1 DEF IInv, EachInOnePlace, Live
<1>9. ThreadInv'
  BY <1>1, <1>2, <1>5, <1>7, <1>8 DEF VInv, ThreadInv
<1> QED BY <1>2, <1>3, <1>4, <1>6, <1>7, <1>9 DEF VInv

LEMMA QuantumEnds ==
  ASSUME IInv, VInv, CutQuantum \/ EndQuantum
  PROVE  /\ VInv' /\ phase = "quantum" /\ phase' = "loop" /\ running \in Pids /\ running' = NoPid
         /\ execs = <<>> /\ calls = <<>>
<1>1. /\ phase = "quantum" /\ execs = <<>> /\ calls = <<>> /\ step' = "idle" /\ phase' = "loop"
      /\ running' = NoPid
      /\ UNCHANGED <<life, calls, frame, failed, execs, thread, finished, dropped, stopped>>
  BY DEF CutQuantum, EndQuantum, TracksOver, At, QuantumCut, QuantumEnd, vm, ends
<1>2. running \in Pids
  BY <1>1, BaseIs
<1>3. track' \in [Pids -> {"new", "parked", "done"}] /\ yielded' \in BOOLEAN
  <2>1. CASE CutQuantum
    BY <1>2, <2>1, TrackType DEF CutQuantum, VInv
  <2>2. CASE EndQuantum
    BY <2>2 DEF EndQuantum, VInv, VmType
  <2> QED BY <2>1, <2>2
<1>4. VmType'
  BY <1>1, <1>3 DEF VInv, VmType
<1>5. LoopInv'
  BY <1>1 DEF LoopInv, Between
<1>6. ThreadInv'
  BY <1>1, ThreadSame DEF VInv
<1> QED BY <1>1, <1>2, <1>4, <1>5, <1>6 DEF VInv

LEMMA InitV == QInit => IInv /\ VInv
<1> SUFFICES ASSUME QInit PROVE IInv /\ VInv
  OBVIOUS
<1>1. IInv
  BY InitIInv DEF QInit
<1>2. VmType
  <2>1. execs \in Seq(Frames) /\ thread \in [Pids -> Frames \cup {NoFrame}]
    BY DEF QInit
  <2> QED BY <2>1 DEF QInit, Init, VmType
<1>3. LoopInv /\ ThreadInv
  BY DEF QInit, Init, LoopInv, Between, ThreadInv
<1> QED BY <1>1, <1>2, <1>3 DEF VInv

LEMMA NextV ==
  ASSUME IInv, VInv, Quiet, [QNext]_qvars
  PROVE  IInv' /\ VInv'
<1>1. IInv'
  BY StepRefines, NextIInv
<1> SUFFICES VInv'
  BY <1>1
<1>2. CASE LoopStep
  BY <1>2, EndStep, LoopExitStep, NativeYieldStep DEF LoopStep
<1>3. CASE CallStep
  <2>1. CASE \E p \in Pids : NativeSpawn(p) \/ HostSpawn(p)
    BY <2>1, SpawnBegins
  <2>2. CASE \E p \in Pids : NativeKill(p) \/ HostKill(p)
    BY <2>2, KillBegins
  <2>3. CASE FinishSpawn \/ FinishKill
    BY <2>3, FinishSpawnStep, FinishKillStep
  <2> QED BY <1>3, <2>1, <2>2, <2>3 DEF CallStep
<1>4. CASE ProcessStep
  BY <1>4, BeginQuantumStep, TickTrackStep, RunCodeStep, AfterCodeStep, QuantumEnds DEF ProcessStep
<1>5. CASE HostTick
  BY <1>5, HostTickStep
<1>6. CASE UNCHANGED qvars
  <2>1. UNCHANGED <<life, running, calls, phase, frame, failed, yielded, execs, thread, track, step,
                    finished, dropped, stopped>>
    BY <1>6 DEF qvars, vars, control, vm, ends
  <2>2. VmType' /\ ThreadInv'
    BY <2>1 DEF VInv, VmType, ThreadInv
  <2>3. LoopInv'
    <3>1. Base' = Base /\ Ended' = Ended /\ (FrameOfQuantum => FrameOfQuantum')
      BY <2>1 DEF Base, Ended, FrameOfQuantum
    <3> QED BY <2>1, <3>1 DEF VInv, LoopInv, Between, InHandler, AfterHandler
  <2> QED BY <2>2, <2>3 DEF VInv
<1> QED BY <1>1, <1>2, <1>3, <1>4, <1>5, <1>6 DEF QNext

-----------------------------------------------------------------------------
(* What TrackFrame and Process keep of the VM. *)

\* With no lambda lost under a handler, one that is gone has returned or failed.
Undisturbed == Handlers = {} \/ Spawners = {}

KeptInv ==
  /\ Spawners = {} => (calls # <<>> => phase = "host")
  /\ \A p \in Pids : thread[p] \in {NoFrame, Frame("code", p)}
  /\ phase = "quantum" => frame \in {NoFrame, Base}
  /\ phase = "quantum" /\ step = "code" /\ frame = NoFrame => Base \in finished \cup dropped

\* A flag that has outlived its quantum is consumed after the tracks of the next one.
AgeInv ==
  /\ age \in {0, 1} /\ (~yielded => age = 0)
  /\ age = 1 => phase = "quantum" /\ step \in {"trans", "track"}

\* When only tracks yield, is_yielded says that the track has stopped short of its end.
ParkInv ==
  /\ yielded => phase = "quantum" /\ step = "track" /\ execs = <<>> /\ frame = Base
  /\ \A p \in Pids : Frame("track", p) \in finished =>
       track[p] = "done" \/ (running = p /\ step = "track" /\ ~yielded /\ frame = NoFrame)
  /\ step = "track" => track[running] # "done"

LEMMA InitKept == QInit => KeptInv /\ AgeInv /\ ParkInv
BY DEF QInit, Init, KeptInv, AgeInv, ParkInv

LEMMA NextKept ==
  ASSUME IInv, VInv, Quiet, Undisturbed, KeptInv, [QNext]_qvars
  PROVE  KeptInv'
<1>1. CASE Return \/ FaultDrop
  <2>1. /\ frame # NoFrame /\ frame' = NoFrame /\ frame \in finished' \cup dropped'
        /\ UNCHANGED <<running, calls, phase, step, thread>>
    BY <1>1 DEF Return, FaultDrop, Running, vars, control
  <2>2. Base' = Base
    BY <2>1 DEF Base
  <2> QED BY <2>1, <2>2 DEF KeptInv
<1>2. CASE LoopExit \/ Fault \/ UNCHANGED qvars
  <2>1. UNCHANGED <<running, calls, phase, step, thread, frame, finished, dropped>>
    BY <1>2 DEF LoopExit, Fault, qvars, vars, control, vm, ends
  <2>2. Base' = Base
    BY <2>1 DEF Base
  <2> QED BY <2>1, <2>2 DEF KeptInv
<1>3. CASE NativeYield \/ \E n \in 1 .. MaxSleep : NativeSleep(n)
  <2>1. UNCHANGED <<running, calls, phase, step, thread, frame, finished, dropped>>
    BY <1>3 DEF NativeYield, NativeSleep, YieldCheck, Sleep, vars, control, ends
  <2>2. Base' = Base
    BY <2>1 DEF Base
  <2> QED BY <2>1, <2>2 DEF KeptInv
<1>4. ASSUME NEW p \in Pids, NativeSpawn(p) \/ NativeKill(p) PROVE KeptInv'
  <2>1. /\ frame.h \in Spawners
        /\ UNCHANGED <<running, phase, step, thread, finished, dropped>>
    BY <1>4 DEF NativeSpawn, NativeKill, SpawnEnter, Kill, KillDetach, ends
  <2>2. Handlers = {} /\ Spawners # {}
    BY <2>1 DEF Undisturbed
  <2>3. frame' = frame
    BY <1>4, <2>2 DEF NativeSpawn, NativeKill, Run, vm
  <2>4. Base' = Base
    BY <2>1 DEF Base
  <2> QED BY <2>1, <2>2, <2>3, <2>4 DEF KeptInv
<1>5. ASSUME NEW p \in Pids, HostSpawn(p) \/ HostKill(p) PROVE KeptInv'
  <2>1. phase = "host" /\ phase' = phase /\ thread' = thread
    BY <1>5 DEF HostSpawn, HostKill, SpawnEnter, Kill, KillDetach
  <2> QED BY <2>1 DEF KeptInv
<1>6. CASE FinishSpawn
  <2>1. /\ calls # <<>> /\ UNCHANGED <<running, phase, step, finished, dropped, frame>>
        /\ thread' = [thread EXCEPT ![Last(calls).p] = Frame("code", Last(calls).p)]
    BY <1>6 DEF FinishSpawn, SpawnPublish, vm, ends
  <2>2. Base' = Base /\ Last(calls).p \in Pids
    BY <1>6, Published
  <2>3. \A p \in Pids : thread'[p] \in {NoFrame, Frame("code", p)}
    BY <2>1, <2>2 DEF KeptInv, VInv, VmType
  <2> QED BY <2>1, <2>2, <2>3 DEF KeptInv
<1>7. CASE FinishKill
  <2>1. calls # <<>> /\ UNCHANGED <<running, phase, step, thread, finished, dropped, frame>>
    BY <1>7 DEF FinishKill, KillFree, vm, ends
  <2>2. Base' = Base
    BY <2>1 DEF Base
  <2> QED BY <2>1, <2>2 DEF KeptInv
<1>8. CASE HostTick
  <2>1. phase' # "quantum" /\ UNCHANGED <<calls, thread>>
    BY <1>8 DEF HostTick, TickStart, TickSleeper, TickSnapshot, TickEnd
  <2>2. calls = <<>>
    BY <1>8, HostTickStep
  <2> QED BY <2>1, <2>2 DEF KeptInv
<1>9. CASE BeginQuantum
  <2>1. step' = "trans" /\ calls' = calls /\ phase = "loop" /\ thread' = thread
    BY <1>9 DEF BeginQuantum, QuantumStart
  <2>2. calls = <<>>
    BY <2>1 DEF IInv, ControlInv, MayCall
  <2>3. frame' = Base'
    BY <1>9, BeginQuantumStep
  <2> QED BY <2>1, <2>2, <2>3 DEF KeptInv
<1>10. CASE TickTrack
  <2>1. step' # "code" /\ calls' = <<>> /\ thread' = thread
    BY <1>10 DEF TickTrack, At, vars, control
  <2>2. frame' = Base'
    BY <1>10, TickTrackStep
  <2> QED BY <2>1, <2>2 DEF KeptInv
<1>11. CASE RunCode
  <2>1. calls' = <<>> /\ thread' = thread
    BY <1>11 DEF RunCode, TracksOver, At, vars, control
  <2>2. frame' # NoFrame /\ frame' = Base'
    BY <1>11, RunCodeStep
  <2> QED BY <2>1, <2>2 DEF KeptInv
<1>12. CASE AfterCode
  <2>1. step = "code" /\ step' # "code" /\ calls' = <<>> /\ phase = "quantum"
    BY <1>12 DEF AfterCode, At, vars, control
  <2>2. /\ frame' = Base' /\ running \in Pids
        /\ \A p \in Pids : thread'[p] = IF p = running THEN frame ELSE thread[p]
    BY <1>12, AfterCodeStep
  <2>3. frame \in {NoFrame, thread[running]}
    BY <2>1 DEF KeptInv, Base
  <2> QED BY <2>1, <2>2, <2>3 DEF KeptInv
<1>13. CASE CutQuantum \/ EndQuantum
  <2>1. phase' = "loop" /\ calls' = <<>> /\ thread' = thread
    BY <1>13 DEF CutQuantum, EndQuantum, TracksOver, At, QuantumCut, QuantumEnd
  <2> QED BY <2>1 DEF KeptInv
<1> QED BY <1>1, <1>2, <1>3, <1>4, <1>5, <1>6, <1>7, <1>8, <1>9, <1>10, <1>11, <1>12, <1>13
        DEF QNext, LoopStep, CallStep, ProcessStep

LEMMA NextAge ==
  ASSUME AgeInv, [QNext]_qvars
  PROVE  AgeInv'
<1>1. CASE LoopStep
  <2>1. UNCHANGED <<phase, step, age>> /\ (yielded' = yielded \/ yielded')
    BY <1>1 DEF LoopStep, Return, Fault, FaultDrop, LoopExit, NativeYield, NativeSleep, YieldCheck,
       Sleep, vars, control, ends
  <2> QED BY <2>1 DEF AgeInv
<1>2. CASE CallStep
  <2>1. UNCHANGED <<phase, step, yielded, age>>
    BY <1>2 DEF CallStep, NativeSpawn, NativeKill, HostSpawn, HostKill, FinishSpawn, FinishKill,
       SpawnEnter, Kill, KillDetach, SpawnPublish, KillFree
  <2> QED BY <2>1 DEF AgeInv
<1>3. CASE HostTick
  <2>1. phase # "quantum" /\ UNCHANGED <<yielded, age>>
    BY <1>3 DEF HostTick, TickStart, TickSleeper, TickSnapshot, TickEnd
  <2> QED BY <2>1 DEF AgeInv
<1>4. CASE BeginQuantum
  <2>1. /\ phase = "loop" /\ phase' = "quantum" /\ step' = "trans" /\ yielded' = yielded
        /\ age' = IF yielded THEN age + 1 ELSE 0
    BY <1>4 DEF BeginQuantum, QuantumStart
  <2> QED BY <2>1 DEF AgeInv
<1>5. CASE TickTrack
  <2>1. step' = "track" /\ UNCHANGED <<phase, yielded, age>>
    BY <1>5 DEF TickTrack, vars, control
  <2> QED BY <2>1 DEF AgeInv
<1>6. CASE RunCode \/ AfterCode \/ EndQuantum
  <2>1. (~yielded \/ step \in {"code", "post"}) /\ UNCHANGED <<yielded, age>>
    BY <1>6 DEF RunCode, AfterCode, EndQuantum, At
  <2> QED BY <2>1 DEF AgeInv
<1>7. CASE CutQuantum
  BY <1>7 DEF CutQuantum, AgeInv
<1>8. CASE UNCHANGED qvars
  BY <1>8 DEF qvars, vars, control, AgeInv
<1> QED BY <1>1, <1>2, <1>3, <1>4, <1>5, <1>6, <1>7, <1>8 DEF QNext, ProcessStep

LEMMA NextPark ==
  ASSUME IInv, VInv, Quiet, Yielders \subseteq {"track"}, ParkInv, [QNext]_qvars
  PROVE  ParkInv'
<1>0. /\ "track" \in Kinds
      /\ \A p, q \in Pids : \A h \in Kinds : Frame("track", p) = Frame(h, q) => h = "track" /\ p = q
  BY FrameSame DEF Kinds
<1>1. CASE NativeYield \/ \E n \in 1 .. MaxSleep : NativeSleep(n)
  <2>1. /\ phase = "quantum" /\ frame = Base /\ frame.h \in Yielders /\ frame.h = step
        /\ execs' = <<>> /\ Base' = Base
    BY <1>1, NativeYieldStep
  <2>2. UNCHANGED <<phase, step, running, frame, finished, track>>
    BY <1>1 DEF NativeYield, NativeSleep, YieldCheck, Sleep, vars, control, ends
  <2>3. step = "track" /\ frame # NoFrame
    BY <2>1, <2>2, BaseIs
  <2> QED BY <2>1, <2>2, <2>3 DEF ParkInv
<1>2. CASE Return \/ FaultDrop
  <2>1. /\ InLoop /\ frame # NoFrame /\ ~failed /\ frame' = NoFrame
        /\ finished' \subseteq finished \cup {frame}
        /\ UNCHANGED <<running, phase, yielded, execs, track, step>>
    BY <1>2 DEF Return, FaultDrop, Running, vars, control
  <2>2. execs # <<>> /\ ~yielded
    BY <2>1 DEF InLoop, ParkInv
  <2>3. ASSUME NEW p \in Pids, Frame("track", p) = frame PROVE running = p /\ step = "track"
    <3>0. frame.h = "track" /\ "track" \notin Handlers
      BY <1>0, <2>3, FrameIs, QuantumAssumption
    <3>1. CASE phase = "quantum" /\ FrameOfQuantum
      <4>1. frame = Base
        BY <2>1, <3>1 DEF FrameOfQuantum
      <4>2. step = "track" /\ Base = Frame(step, running)
        BY <3>0, <3>1, <4>1, BaseIs
      <4> QED BY <2>3, <4>1, <4>2, FrameSame
    <3>2. CASE \E c \in Call : InHandler(c)
      <4>1. PICK c \in Call : frame = HandlerOf(c)
        BY <2>1, <3>2 DEF InHandler
      <4> QED BY <3>0, <4>1, HandlerIs
    <3> QED BY <2>1, <3>1, <3>2, LoopRuns
  <2> QED BY <2>1, <2>2, <2>3 DEF ParkInv
<1>3. CASE LoopExit \/ Fault
  <2>1. execs # <<>> /\ ~yielded /\ UNCHANGED <<running, yielded, track, step, finished, frame>>
    BY <1>3 DEF LoopExit, Fault, Running, InLoop, ParkInv, vars, control, ends
  <2> QED BY <2>1 DEF ParkInv
<1>4. ASSUME NEW p \in Pids, NativeSpawn(p) \/ NativeKill(p) PROVE ParkInv'
  <2>1. /\ InLoop /\ frame # NoFrame /\ UNCHANGED <<yielded, track, step, finished, running>>
    BY <1>4 DEF NativeSpawn, NativeKill, Running, SpawnEnter, Kill, KillDetach, ends
  <2>2. execs # <<>> /\ ~yielded
    BY <2>1 DEF InLoop, ParkInv
  <2> QED BY <2>1, <2>2 DEF ParkInv
<1>5. ASSUME NEW p \in Pids, HostSpawn(p) \/ HostKill(p) PROVE ParkInv'
  <2>1. /\ phase = "host" /\ UNCHANGED <<phase, running, yielded, track, step, finished>>
    BY <1>5 DEF HostSpawn, HostKill, SpawnEnter, Kill, KillDetach, ends
  <2>2. step # "track" /\ ~yielded
    BY <2>1 DEF VInv, VmType, ParkInv
  <2> QED BY <2>1, <2>2 DEF ParkInv
<1>6. CASE FinishSpawn \/ FinishKill
  <2>1. UNCHANGED <<running, phase, step, finished, frame, yielded, track, execs>>
    BY <1>6 DEF FinishSpawn, FinishKill, SpawnPublish, KillFree, vm, ends
  <2>2. step = "track" => Base' = Base
    BY <2>1 DEF Base
  <2> QED BY <2>1, <2>2 DEF ParkInv
<1>7. CASE HostTick
  <2>1. phase # "quantum" /\ UNCHANGED <<yielded, track, step, finished>>
    BY <1>7, HostTickStep DEF HostTick, ends
  <2>2. step # "track" /\ ~yielded
    BY <2>1 DEF VInv, VmType, ParkInv
  <2> QED BY <2>1, <2>2 DEF ParkInv
<1>8. CASE BeginQuantum
  <2>1. phase = "loop" /\ step' = "trans" /\ UNCHANGED <<yielded, track, finished>>
    BY <1>8 DEF BeginQuantum, QuantumStart, ends
  <2>2. step # "track" /\ ~yielded
    BY <2>1 DEF VInv, VmType, ParkInv
  <2> QED BY <2>1, <2>2 DEF ParkInv
<1>9. CASE TickTrack
  <2>1. step = "trans" /\ track[running] # "done" /\ UNCHANGED <<running, yielded, track, finished>>
    BY <1>9 DEF TickTrack, At, vars, control, ends
  <2> QED BY <2>1 DEF ParkInv
<1>10. CASE RunCode
  <2>1. /\ AfterTrack("done") /\ ~yielded /\ UNCHANGED <<yielded, finished>>
    BY <1>10 DEF RunCode, ends
  <2>2. running \in Pids /\ step' # "track"
    BY <1>10, RunCodeStep
  <2>3. \A p \in Pids : track'[p] = IF step = "track" /\ p = running THEN "done" ELSE track[p]
    BY <2>1, <2>2, TrackType DEF VInv
  <2> QED BY <2>1, <2>2, <2>3 DEF ParkInv
<1>11. CASE AfterCode
  <2>1. step = "code" /\ step' = "post" /\ UNCHANGED <<yielded, track, finished>>
    BY <1>11 DEF AfterCode, At, ends
  <2> QED BY <2>1 DEF ParkInv
<1>12. CASE CutQuantum
  <2>1. step' = "idle" /\ AfterTrack("parked") /\ yielded /\ yielded' = FALSE /\ UNCHANGED <<frame, finished>>
    BY <1>12 DEF CutQuantum, vm, ends
  <2>2. running \in Pids /\ frame # NoFrame
    <3>1. phase = "quantum" /\ frame = Base
      BY <2>1 DEF ParkInv
    <3> QED BY <3>1, BaseIs
  <2>3. \A p \in Pids : track'[p] = IF step = "track" /\ p = running THEN "parked" ELSE track[p]
    BY <2>1, <2>2, TrackType DEF VInv
  <2> QED BY <2>1, <2>2, <2>3 DEF ParkInv
<1>13. CASE EndQuantum
  <2>1. step = "post" /\ step' = "idle" /\ UNCHANGED <<yielded, track, finished>>
    BY <1>13 DEF EndQuantum, At, ends
  <2> QED BY <2>1 DEF ParkInv
<1>14. CASE UNCHANGED qvars
  BY <1>14 DEF qvars, vars, control, vm, ends, ParkInv, Base
<1> QED BY <1>1, <1>2, <1>3, <1>4, <1>5, <1>6, <1>7, <1>8, <1>9, <1>10, <1>11, <1>12, <1>13, <1>14
        DEF QNext, LoopStep, CallStep, ProcessStep

-----------------------------------------------------------------------------
(* Theorems.  Each names what the scripts must leave alone; where they do  *)
(* not, TLC finds the property violated.                                   *)

LoopsInv   == Quiet /\ IInv /\ VInv
ThreadsInv == LoopsInv /\ Undisturbed /\ KeptInv
TracksInv  == LoopsInv /\ Yielders \subseteq {"track"} /\ ParkInv /\ AgeInv

LEMMA LoopsInvariant == Quiet /\ QSpec => []LoopsInv
<1>1. Quiet /\ QInit => LoopsInv
  BY InitV DEF LoopsInv
<1>2. LoopsInv /\ [QNext]_qvars => LoopsInv'
  BY NextV DEF LoopsInv
<1> QED BY <1>1, <1>2, PTL DEF QSpec

LEMMA HandlerDone ==
  ASSUME LoopsInv, [QNext]_qvars, NEW p \in Pids
  PROVE  /\ "enter" \in Handlers /\ life[p] = "entering" /\ life'[p] = "live"
              => Frame("enter", p) \in finished \cup dropped \cup stopped
         /\ "exit" \in Handlers /\ life[p] = "live" /\ life'[p] = "freed"
              => Frame("exit", p) \in finished \cup dropped \cup stopped
<1>0. IInv /\ VInv /\ life \in [Pids -> {"unborn", "entering", "live", "freed", "void"}]
  BY DEF LoopsInv, IInv, TypeOK
<1>1. CASE FinishSpawn \/ FinishKill
  <2>1. ~InLoop /\ calls # <<>>
    BY <1>1 DEF FinishSpawn, FinishKill, SpawnPublish, KillFree
  <2>2. PICK c \in Call : AfterHandler(c) /\ Last(calls) = c
    BY <1>0, <2>1, CallGoesOn
  <2>3. HandlerOf(c).h \in Handlers => HandlerOf(c) \in finished \cup dropped \cup stopped
    BY <2>2 DEF AfterHandler, Ended
  <2>4. CASE FinishSpawn
    <3>1. c.op = "spawn" /\ life' = [life EXCEPT ![c.p] = "live"]
      BY <2>2, <2>4 DEF FinishSpawn, SpawnPublish
    <3>2. life[p] # life'[p] => p = c.p /\ life'[p] = "live"
      BY <1>0, <3>1, HandlerIs
    <3> QED BY <2>3, <3>1, <3>2, HandlerIs
  <2>5. CASE FinishKill
    <3>1. c.op = "kill" /\ life' = [life EXCEPT ![c.p] = "freed"]
      BY <2>2, <2>5 DEF FinishKill, KillFree
    <3>2. life[p] # life'[p] => p = c.p /\ life'[p] = "freed"
      BY <1>0, <3>1, HandlerIs
    <3> QED BY <2>3, <3>1, <3>2, HandlerIs
  <2> QED BY <1>1, <2>4, <2>5
<1>2. ASSUME NEW q \in Pids, NativeSpawn(q) \/ HostSpawn(q) PROVE life'[p] \in {life[p], "entering"}
  <2>1. life' = [life EXCEPT ![q] = "entering"]
    BY <1>2 DEF NativeSpawn, HostSpawn, SpawnEnter
  <2> QED BY <1>0, <2>1
<1>3. ASSUME NEW q \in Pids, NativeKill(q) \/ HostKill(q) PROVE life' = life
  BY <1>3 DEF NativeKill, HostKill, Kill, KillDetach
<1>4. CASE LoopStep
  <2>1. life' = life
    BY <1>4 DEF LoopStep, Return, Fault, FaultDrop, LoopExit, NativeYield, NativeSleep, Sleep, vars
  <2> QED BY <2>1
<1>5. CASE ProcessStep
  <2>1. life' = life
    BY <1>5 DEF ProcessStep, BeginQuantum, QuantumStart, TickTrack, RunCode, AfterCode, CutQuantum,
       QuantumCut, EndQuantum, QuantumEnd, vars
  <2> QED BY <2>1
<1>6. CASE HostTick \/ UNCHANGED qvars
  <2>1. life' = life
    BY <1>6 DEF HostTick, TickStart, TickSleeper, TickSnapshot, TickEnd, qvars, vars
  <2> QED BY <2>1
<1> QED BY <1>1, <1>2, <1>3, <1>4, <1>5, <1>6 DEF QNext, CallStep

\* spawn publishes a process, and kill deletes one, only after the enter or exit
\* handler has returned or failed by itself, also when a lambda of another process
\* makes the call: whatever fails elsewhere, vm.execute, called from inside a running
\* loop, is not left with the handler in the middle, if handlers neither yield nor
\* spawn nor kill.
THEOREM HandlersComplete == Quiet /\ QSpec => HandlerCompletes
<1>1. LoopsInv /\ [QNext]_qvars =>
        [\A p \in Pids :
           /\ "enter" \in Handlers /\ life[p] = "entering" /\ life'[p] = "live"
                => Frame("enter", p) \in finished \cup dropped \cup stopped
           /\ "exit" \in Handlers /\ life[p] = "live" /\ life'[p] = "freed"
                => Frame("exit", p) \in finished \cup dropped \cup stopped]_qvars
  BY HandlerDone
<1> QED BY <1>1, LoopsInvariant, PTL DEF HandlerCompletes, QSpec

LEMMA ThreadStep ==
  ASSUME ThreadsInv, [QNext]_qvars, NEW p \in Pids, thread[p] # NoFrame, thread'[p] # thread[p]
  PROVE  thread[p] \in finished' \cup dropped'
<1>0. IInv /\ VInv /\ KeptInv
  BY DEF ThreadsInv, LoopsInv
<1>1. CASE AfterCode
  <2>1. \A q \in Pids : thread'[q] = IF q = running THEN frame ELSE thread[q]
    BY <1>0, <1>1, AfterCodeStep
  <2>2. phase = "quantum" /\ step = "code" /\ UNCHANGED <<finished, dropped>>
    BY <1>1 DEF AfterCode, At, ends
  <2>3. p = running /\ frame = NoFrame /\ Base = thread[p]
    BY <1>0, <2>1, <2>2 DEF KeptInv, Base
  <2> QED BY <1>0, <2>2, <2>3 DEF KeptInv
<1>2. CASE FinishSpawn
  <2>1. thread' = [thread EXCEPT ![Last(calls).p] = Frame("code", Last(calls).p)]
    BY <1>2 DEF FinishSpawn
  <2>2. Last(calls).p \in Pids /\ life[Last(calls).p] = "entering"
    BY <1>0, <1>2, Published
  <2>3. thread[Last(calls).p] = NoFrame
    BY <1>0, <2>2 DEF VInv, ThreadInv
  <2>4. thread'[p] = thread[p]
    BY <1>0, <2>1, <2>3 DEF VInv, VmType
  <2> QED BY <2>4
<1>3. CASE LoopStep \/ HostTick \/ UNCHANGED qvars
  <2>1. thread' = thread
    BY <1>3 DEF LoopStep, Return, Fault, FaultDrop, LoopExit, NativeYield, NativeSleep, YieldCheck,
       HostTick, qvars
  <2> QED BY <2>1
<1>4. CASE FinishKill \/ \E q \in Pids : NativeSpawn(q) \/ NativeKill(q) \/ HostSpawn(q) \/ HostKill(q)
  <2>1. thread' = thread
    BY <1>4 DEF FinishKill, NativeSpawn, NativeKill, HostSpawn, HostKill
  <2> QED BY <2>1
<1>5. CASE BeginQuantum \/ TickTrack \/ RunCode \/ CutQuantum \/ EndQuantum
  <2>1. thread' = thread
    BY <1>5 DEF BeginQuantum, TickTrack, RunCode, CutQuantum, EndQuantum
  <2> QED BY <2>1
<1> QED BY <1>1, <1>2, <1>3, <1>4, <1>5 DEF QNext, CallStep, ProcessStep

\* A process loses its main_thread only when its code has returned or was thrown away
\* by an unresolved native or an unknown opcode, however often it yields, sleeps and
\* fails in other ways, as long as no enter or exit handler runs inside its quantum.
THEOREM ThreadsKept == Quiet /\ Undisturbed /\ QSpec => ThreadKept
<1>1. Quiet /\ Undisturbed /\ QInit => ThreadsInv
  BY InitV, InitKept DEF ThreadsInv, LoopsInv
<1>2. ThreadsInv /\ [QNext]_qvars => ThreadsInv'
  BY NextV, NextKept DEF ThreadsInv, LoopsInv
<1>3. ThreadsInv /\ [QNext]_qvars =>
        [\A p \in Pids : thread[p] # NoFrame /\ thread'[p] # thread[p] =>
           thread[p] \in finished' \cup dropped']_qvars
  BY ThreadStep
<1> QED BY <1>1, <1>2, <1>3, PTL DEF ThreadKept, QSpec

\* A yield cuts one quantum at most: whoever yields, in whatever handler, and whatever
\* spawns, kills, sleeps and errors come between, is_yielded is clear again before
\* the second quantum after it begins.
THEOREM YieldIsConsumed == QSpec => []FlagIsConsumed
<1>1. QInit => AgeInv
  BY InitKept
<1>2. AgeInv /\ [QNext]_qvars => AgeInv'
  BY NextAge
<1>3. AgeInv => FlagIsConsumed
  BY DEF AgeInv, FlagIsConsumed
<1> QED BY <1>1, <1>2, <1>3, PTL DEF QSpec

\* A track that TrackFrame keeps to resume has not returned, and all that TrackFrame,
\* Process and the VM keep is well typed, when only tracks yield.
THEOREM QuantumSound == Quiet /\ Yielders \subseteq {"track"} /\ QSpec => []QuantumInv
<1>1. Quiet /\ Yielders \subseteq {"track"} /\ QInit => TracksInv
  BY InitV, InitKept DEF TracksInv, LoopsInv
<1>2. TracksInv /\ [QNext]_qvars => TracksInv'
  BY NextV, NextPark, NextAge DEF TracksInv, LoopsInv
<1>3. TracksInv => QuantumInv
  <2> SUFFICES ASSUME TracksInv PROVE QuantumInv
    OBVIOUS
  <2>1. QTypeOK
    BY DEF TracksInv, LoopsInv, IInv, VInv, VmType, AgeInv, QTypeOK
  <2>2. ParkedIsUnfinished
    BY DEF TracksInv, ParkInv, ParkedIsUnfinished
  <2> QED BY <2>1, <2>2 DEF QuantumInv
<1> QED BY <1>1, <1>2, <1>3, PTL DEF QSpec
=============================================================================
