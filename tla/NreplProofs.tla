---------------------------- MODULE NreplProofs -----------------------------
(***************************************************************************)
(* Proofs about Nrepl.tla, for any number of clients and requests and any  *)
(* limit, as long as no peer is gone when its greeting is written: what    *)
(* that breaks is shown by NreplReset.cfg.                                 *)
(***************************************************************************)
EXTENDS Nrepl, SequenceTheorems, FiniteSetTheorems, WellFoundedInduction, TLAPS

-----------------------------------------------------------------------------
(* Streams of cells. *)

\* The last cell of a request, and the last of a header that has a body.
Ends(x)  == x.kind \in {"ping", "bad", "body"} /\ x.i = (IF x.kind = "body" THEN BodyLen ELSE HeaderLen)
Opens(x) == x.kind = "eval" /\ x.i = HeaderLen

\* A cell that a client sends.
Sent(x) == /\ x.kind \in {"eval", "ping", "bad", "body"}
           /\ x.kind = "body" => x.i <= BodyLen

\* The cell that may follow x on a client's stream.
Follows(x, y) ==
  \/ Ends(x) /\ y.kind # "body" /\ y.i = 1 /\ y.n = x.n + 1
  \/ Opens(x) /\ y.kind = "body" /\ y.i = 1 /\ y.n = x.n
  \/ ~Ends(x) /\ ~Opens(x) /\ y.kind = x.kind /\ y.i = x.i + 1 /\ y.n = x.n

\* Where the server is in a message: in its header or its body, and how many cells of
\* that it has read.
Start    == <<"header", 0>>
Within(x) == IF x.kind = "body" THEN <<"body", x.i>> ELSE <<"header", x.i>>
After(x) == IF Ends(x) THEN Start ELSE IF Opens(x) THEN <<"body", 0>> ELSE Within(x)

\* A stream whose client has sent a requests, of which the server has read b and is at
\* place k of the next one.
Stream(s, k, b, a) ==
  /\ s = <<>> => a = b /\ k = Start
  /\ s # <<>> => /\ s[1].n = b + 1 /\ s[1].i = k[2] + 1
                 /\ s[1].kind = "body" <=> k[1] = "body"
                 /\ s[Len(s)].n = a /\ Ends(s[Len(s)])
  /\ \A i \in 1 .. Len(s) : Sent(s[i])
  /\ \A i \in 1 .. Len(s) - 1 : Follows(s[i], s[i + 1])

Places == {"header", "body"} \X Nat

\* A cell that arrives leaves the stream as it is.
LEMMA ArriveSame ==
  ASSUME NEW S, NEW u \in Seq(S), NEW f \in Seq(S), f # <<>>
  PROVE  Append(u, Head(f)) \o Tail(f) = u \o f
<1> DEFINE l == Append(u, Head(f)) \o Tail(f)
           r == u \o f
<1>1. Head(f) \in S /\ Tail(f) \in Seq(S) /\ Len(Tail(f)) = Len(f) - 1 /\ Len(f) \in Nat \ {0}
  OBVIOUS
<1>2. /\ Append(u, Head(f)) \in Seq(S) /\ Len(Append(u, Head(f))) = Len(u) + 1
      /\ \A i \in 1 .. Len(u) : Append(u, Head(f))[i] = u[i]
      /\ Append(u, Head(f))[Len(u) + 1] = f[1]
  BY <1>1
<1>3. l \in Seq(S) /\ Len(l) = Len(u) + Len(f)
  BY <1>1, <1>2
<1>4. r \in Seq(S) /\ Len(r) = Len(u) + Len(f)
  OBVIOUS
<1>5. ASSUME NEW i \in 1 .. Len(l) PROVE l[i] = r[i]
  <2>1. CASE i <= Len(u)
    BY <1>1, <1>2, <1>3, <2>1
  <2>2. CASE i = Len(u) + 1
    <3>1. l[i] = f[1]
      BY <1>1, <1>2, <2>2
    <3>2. r[i] = f[1]
      BY <1>1, <2>2
    <3> QED BY <3>1, <3>2
  <2>3. CASE i > Len(u) + 1
    <3>1. i - (Len(u) + 1) \in 1 .. Len(Tail(f))
      BY <1>1, <1>3, <2>3
    <3>2. l[i] = Tail(f)[i - (Len(u) + 1)]
      BY <1>1, <1>2, <2>3, <3>1
    <3>3. l[i] = f[i - Len(u)]
      BY <1>1, <3>1, <3>2
    <3>4. r[i] = f[i - Len(u)]
      BY <1>3, <2>3
    <3> QED BY <3>3, <3>4
  <2>4. i \in Int /\ Len(u) \in Int
    BY <1>3
  <2> QED BY <2>1, <2>2, <2>3, <2>4
<1> HIDE DEF l, r
<1>6. l = r
  BY <1>3, <1>4, <1>5, SeqEqual
<1> QED BY <1>6 DEF l, r

\* Cells that are sent go to the end of the stream.
LEMMA SendLast == \A u, f, m \in Seq(Cells) : u \o (f \o m) = (u \o f) \o m
<1> TAKE u, f, m \in Seq(Cells)
<1> QED BY ConcatAssociative

\* Reading a cell takes it off the stream.
LEMMA ReadTail ==
  ASSUME NEW S, NEW u \in Seq(S), NEW f \in Seq(S), u # <<>>
  PROVE  /\ u \o f \in Seq(S) /\ u \o f # <<>> /\ (u \o f)[1] = Head(u)
         /\ Tail(u) \o f = Tail(u \o f)
<1> DEFINE s == u \o f
           l == Tail(u) \o f
           r == Tail(s)
<1>1. Len(u) \in Nat \ {0} /\ Tail(u) \in Seq(S) /\ Len(Tail(u)) = Len(u) - 1
  OBVIOUS
<1>2. s \in Seq(S) /\ Len(s) = Len(u) + Len(f) /\ s # <<>> /\ s[1] = Head(u)
  BY <1>1
<1>3. l \in Seq(S) /\ Len(l) = Len(s) - 1
  BY <1>1, <1>2
<1>4. r \in Seq(S) /\ Len(r) = Len(s) - 1 /\ \A i \in 1 .. Len(r) : r[i] = s[i + 1]
  BY <1>2
<1>5. ASSUME NEW i \in 1 .. Len(l) PROVE l[i] = r[i]
  <2>1. r[i] = s[i + 1]
    BY <1>3, <1>4
  <2>2. CASE i < Len(u)
    <3>1. l[i] = Tail(u)[i]
      BY <1>1, <2>2
    <3>2. s[i + 1] = u[i + 1]
      BY <1>1, <2>2
    <3> QED BY <1>1, <2>1, <2>2, <3>1, <3>2
  <2>3. CASE i >= Len(u)
    <3>1. l[i] = f[i - (Len(u) - 1)]
      BY <1>1, <1>2, <1>3, <2>3
    <3>2. s[i + 1] = f[(i + 1) - Len(u)]
      BY <1>1, <1>2, <1>3, <2>3
    <3>3. i - (Len(u) - 1) = (i + 1) - Len(u)
      BY <1>1
    <3> QED BY <2>1, <3>1, <3>2, <3>3
  <2>4. i \in Int /\ Len(u) \in Int
    BY <1>1, <1>3
  <2> QED BY <2>2, <2>3, <2>4
<1> HIDE DEF l, r
<1>6. l = r
  BY <1>3, <1>4, <1>5, SeqEqual
<1> QED BY <1>2, <1>6 DEF l, r

\* What is left after the first cell of a stream.
LEMMA StreamTail ==
  ASSUME NEW s \in Seq(Cells), s # <<>>, NEW k \in Places, NEW b \in Nat, NEW a \in Nat,
         Stream(s, k, b, a)
  PROVE  /\ s[1].n = b + 1 /\ s[1].i = k[2] + 1 /\ Sent(s[1])
         /\ s[1].kind = "body" <=> k[1] = "body"
         /\ Stream(Tail(s), After(s[1]), IF Ends(s[1]) THEN b + 1 ELSE b, a)
<1> DEFINE t == Tail(s)
           x == s[1]
<1>1. /\ t \in Seq(Cells) /\ Len(s) \in Nat \ {0} /\ Len(t) = Len(s) - 1
      /\ \A i \in 1 .. Len(t) : t[i] = s[i + 1]
  OBVIOUS
<1>2. /\ x.n = b + 1 /\ x.i = k[2] + 1 /\ Sent(x) /\ (x.kind = "body" <=> k[1] = "body")
      /\ s[Len(s)].n = a /\ Ends(s[Len(s)])
  BY <1>1 DEF Stream
<1> HIDE DEF t
<1>3. CASE t = <<>>
  <2>0. Len(t) = 0
    BY <1>3
  <2>1. Len(s) = 1
    BY <1>1, <2>0
  <2>2. Ends(x) /\ x.n = a
    BY <1>2, <2>1
  <2>5. After(x) = Start
    BY <2>2, Zenon DEF After
  <2>6. (IF Ends(x) THEN b + 1 ELSE b) = b + 1
    BY <2>2, Zenon
  <2>7. b + 1 = a
    BY <1>2, <2>2
  <2>3. Len(t) = 0 /\ After(x) = Start /\ (IF Ends(x) THEN b + 1 ELSE b) = a
    BY <2>0, <2>5, <2>6, <2>7, Zenon
  <2>4. Stream(t, Start, a, a)
    BY <1>3, <2>3 DEF Stream
  <2> QED BY <1>2, <2>3, <2>4, Zenon DEF t
<1>4. CASE t # <<>>
  <2>1. Len(t) >= 1 /\ Len(s) >= 2
    BY <1>1, <1>4
  <2>2. t[1] = s[2] /\ t[Len(t)] = s[Len(s)] /\ Follows(x, s[2])
    BY <1>1, <2>1 DEF Stream
  <2>3. ASSUME NEW i \in 1 .. Len(t) PROVE Sent(t[i])
    <3>1. i + 1 \in 1 .. Len(s)
      BY <1>1
    <3> QED BY <1>1, <3>1 DEF Stream
  <2>4. ASSUME NEW i \in 1 .. Len(t) - 1 PROVE Follows(t[i], t[i + 1])
    <3>1. /\ i + 1 \in 1 .. Len(s) - 1 /\ t[i] = s[i + 1]
          /\ t[i + 1] = s[(i + 1) + 1]
      BY <1>1
    <3> QED BY <3>1 DEF Stream
  <2> DEFINE y == t[1]
             j == After(x)
             c == IF Ends(x) THEN b + 1 ELSE b
  <2>5. y.n = c + 1 /\ y.i = j[2] + 1 /\ (y.kind = "body" <=> j[1] = "body")
    <3>0. Follows(x, y) /\ x.n = b + 1 /\ x.kind \in {"eval", "ping", "bad", "body"}
      BY <1>2, <2>2 DEF Sent
    <3>1. CASE Ends(x)
      <4>0. ~Opens(x)
        BY <3>1 DEF Ends, Opens
      <4>1. ~Opens(x) /\ j = Start /\ c = b + 1
        BY <3>1, <4>0, Zenon DEF After
      <4> HIDE DEF j, c
      <4> QED BY <3>0, <3>1, <4>1 DEF Follows, Start
    <3>2. CASE Opens(x)
      <4>0. ~Ends(x)
        BY <3>2 DEF Ends, Opens
      <4>1. ~Ends(x) /\ j = <<"body", 0>> /\ c = b
        BY <3>2, <4>0, Zenon DEF After
      <4> HIDE DEF j, c
      <4> QED BY <3>0, <3>2, <4>1 DEF Follows
    <3>3. CASE ~Ends(x) /\ ~Opens(x)
      <4>1. j = Within(x) /\ c = b
        BY <3>3, Zenon DEF After
      <4> HIDE DEF j, c
      <4> QED BY <3>0, <3>3, <4>1 DEF Follows, Within
    <3> QED BY <3>1, <3>2, <3>3
  <2> HIDE DEF j, c
  <2>6. Stream(t, j, c, a)
    BY <1>2, <1>4, <2>2, <2>3, <2>4, <2>5 DEF Stream
  <2> QED BY <1>2, <2>6 DEF t, j, c
<1> QED BY <1>3, <1>4

\* A request that is sent goes to the end of the stream.
LEMMA StreamSend ==
  ASSUME NEW s \in Seq(Cells), NEW k \in Places, NEW b \in Nat, NEW a \in Nat,
         NEW m \in Seq(Cells), Stream(s, k, b, a), m # <<>>, Stream(m, Start, a, a + 1)
  PROVE  Stream(s \o m, k, b, a + 1)
<1> DEFINE t == s \o m
<1>1. /\ t \in Seq(Cells) /\ Len(t) = Len(s) + Len(m) /\ Len(s) \in Nat /\ Len(m) \in Nat \ {0}
      /\ \A i \in 1 .. Len(s) : t[i] = s[i]
      /\ \A i \in 1 .. Len(m) : t[Len(s) + i] = m[i]
  OBVIOUS
<1>2. /\ m[1].n = a + 1 /\ m[1].i = 1 /\ m[1].kind # "body"
      /\ m[Len(m)].n = a + 1 /\ Ends(m[Len(m)])
  BY DEF Stream, Start
<1>3. t # <<>> /\ t[Len(s) + 1] = m[1] /\ t[Len(t)] = m[Len(m)]
  BY <1>1
<1> HIDE DEF t
<1>4. t[1].n = b + 1 /\ t[1].i = k[2] + 1 /\ (t[1].kind = "body" <=> k[1] = "body")
  <2>1. CASE s = <<>>
    <3>1. Len(s) = 0 /\ a = b /\ k = Start
      BY <2>1 DEF Stream
    <3>2. t[1] = m[1]
      BY <1>3, <3>1
    <3> QED BY <1>2, <3>1, <3>2 DEF Start
  <2>2. CASE s # <<>>
    <3>1. t[1] = s[1]
      BY <1>1, <2>2
    <3> QED BY <2>2, <3>1 DEF Stream
  <2> QED BY <2>1, <2>2
<1>5. ASSUME NEW i \in 1 .. Len(t) PROVE Sent(t[i])
  <2>1. CASE i <= Len(s)
    <3>1. i \in 1 .. Len(s)
      BY <1>1, <2>1
    <3> QED BY <1>1, <3>1 DEF Stream
  <2>2. CASE i > Len(s)
    <3>1. i - Len(s) \in 1 .. Len(m) /\ Len(s) + (i - Len(s)) = i
      BY <1>1, <2>2
    <3>2. t[i] = m[i - Len(s)]
      BY <1>1, <3>1
    <3> QED BY <3>1, <3>2 DEF Stream
  <2> QED BY <1>1, <2>1, <2>2
<1>6. ASSUME NEW i \in 1 .. Len(t) - 1 PROVE Follows(t[i], t[i + 1])
  <2>1. CASE i < Len(s)
    <3>1. i \in 1 .. Len(s) - 1 /\ t[i] = s[i] /\ t[i + 1] = s[i + 1]
      BY <1>1, <2>1
    <3> QED BY <3>1 DEF Stream
  <2>2. CASE i = Len(s)
    <3>1. s # <<>> /\ t[i] = s[Len(s)] /\ t[i + 1] = m[1]
      BY <1>1, <1>3, <2>2
    <3>2. s[Len(s)].n = a /\ Ends(s[Len(s)])
      BY <3>1 DEF Stream
    <3> QED BY <1>2, <3>1, <3>2 DEF Follows
  <2>3. CASE i > Len(s)
    <3> DEFINE j == i - Len(s)
    <3>1. j \in 1 .. Len(m) - 1 /\ Len(s) + j = i /\ Len(s) + (j + 1) = i + 1
      BY <1>1, <2>3
    <3>2. j \in 1 .. Len(m) /\ j + 1 \in 1 .. Len(m)
      BY <1>1, <3>1
    <3>3. t[i] = m[j] /\ t[i + 1] = m[j + 1]
      BY <1>1, <3>1, <3>2
    <3> HIDE DEF j
    <3> QED BY <3>1, <3>3 DEF Stream
  <2> QED BY <1>1, <2>1, <2>2, <2>3
<1>7. Stream(t, k, b, a + 1)
  BY <1>2, <1>3, <1>4, <1>5, <1>6 DEF Stream
<1> QED BY <1>7 DEF t

\* Each message that a client sends is a stream of one request.
LEMMA OneRequest ==
  ASSUME NEW a \in Nat, a + 1 \in 0 .. MaxReq, NEW m,
         \/ m = Request(a + 1)
         \/ m = Header("ping", a + 1)
         \/ m = Header("bad", a + 1)
  PROVE  m \in Seq(Cells) /\ m # <<>> /\ Stream(m, Start, a, a + 1)
<1>0. HeaderLen \in Nat \ {0} /\ BodyLen \in Nat \ {0} /\ MaxReq \in Nat
  BY NreplAssumption
<1>1. ASSUME NEW kind \in {"eval", "ping", "bad"}
      PROVE  LET h == Header(kind, a + 1) IN
             /\ h \in Seq(Cells) /\ Len(h) = HeaderLen
             /\ \A i \in 1 .. HeaderLen : h[i] = [kind |-> kind, n |-> a + 1, i |-> i]
  BY <1>0 DEF Header, Cells
<1>2. LET p == Body(a + 1) IN
      /\ p \in Seq(Cells) /\ Len(p) = BodyLen
      /\ \A i \in 1 .. BodyLen : p[i] = [kind |-> "body", n |-> a + 1, i |-> i]
  BY <1>0 DEF Body, Cells
<1>3. ASSUME NEW kind \in {"ping", "bad"}, m = Header(kind, a + 1)
      PROVE  m \in Seq(Cells) /\ m # <<>> /\ Stream(m, Start, a, a + 1)
  <2>1. /\ m \in Seq(Cells) /\ Len(m) = HeaderLen
        /\ \A i \in 1 .. HeaderLen : m[i] = [kind |-> kind, n |-> a + 1, i |-> i]
    BY <1>1, <1>3
  <2>2. m # <<>>
    BY <1>0, <2>1
  <2>3. /\ m[1].n = a + 1 /\ m[1].i = 1 /\ m[1].kind # "body"
        /\ m[HeaderLen].n = a + 1 /\ Ends(m[HeaderLen])
    BY <1>0, <2>1 DEF Ends
  <2>4. \A i \in 1 .. HeaderLen : Sent(m[i])
    BY <2>1 DEF Sent
  <2>5. ASSUME NEW i \in 1 .. HeaderLen - 1 PROVE Follows(m[i], m[i + 1])
    <3>1. /\ m[i] = [kind |-> kind, n |-> a + 1, i |-> i]
          /\ m[i + 1] = [kind |-> kind, n |-> a + 1, i |-> i + 1] /\ i # HeaderLen
      BY <1>0, <2>1
    <3> QED BY <3>1 DEF Follows, Ends, Opens
  <2> QED BY <1>0, <2>1, <2>2, <2>3, <2>4, <2>5 DEF Stream, Start
<1>4. ASSUME m = Request(a + 1)
      PROVE  m \in Seq(Cells) /\ m # <<>> /\ Stream(m, Start, a, a + 1)
  <2> DEFINE h == Header("eval", a + 1)
             p == Body(a + 1)
             N == HeaderLen + BodyLen
  <2>1. /\ h \in Seq(Cells) /\ Len(h) = HeaderLen
        /\ \A i \in 1 .. HeaderLen : h[i] = [kind |-> "eval", n |-> a + 1, i |-> i]
    BY <1>1
  <2>2. /\ p \in Seq(Cells) /\ Len(p) = BodyLen
        /\ \A i \in 1 .. BodyLen : p[i] = [kind |-> "body", n |-> a + 1, i |-> i]
    BY <1>2
  <2>3. m = h \o p
    BY <1>4 DEF Request
  <2> HIDE DEF h, p
  <2>4. /\ m \in Seq(Cells) /\ Len(m) = N /\ m # <<>>
        /\ \A i \in 1 .. HeaderLen : m[i] = h[i]
        /\ \A i \in HeaderLen + 1 .. N : m[i] = p[i - HeaderLen]
    <3>1. /\ h \o p \in Seq(Cells) /\ Len(h \o p) = Len(h) + Len(p)
          /\ \A i \in 1 .. Len(h) + Len(p) :
               (h \o p)[i] = IF i <= Len(h) THEN h[i] ELSE p[i - Len(h)]
      BY <2>1, <2>2, ConcatProperties
    <3>2. m \in Seq(Cells) /\ Len(m) = N
      BY <2>1, <2>2, <2>3, <3>1
    <3>3. m # <<>>
      BY <1>0, <3>2
    <3>4. ASSUME NEW i \in 1 .. HeaderLen PROVE m[i] = h[i]
      <4>1. i \in 1 .. Len(h) + Len(p) /\ i <= Len(h)
        BY <1>0, <2>1, <2>2
      <4> QED BY <2>3, <3>1, <4>1
    <3>5. ASSUME NEW i \in HeaderLen + 1 .. N PROVE m[i] = p[i - HeaderLen]
      <4>1. i \in 1 .. Len(h) + Len(p) /\ ~(i <= Len(h))
        BY <1>0, <2>1, <2>2
      <4> QED BY <2>1, <2>3, <3>1, <4>1
    <3> QED BY <3>2, <3>3, <3>4, <3>5
  <2>5. \A i \in 1 .. HeaderLen : m[i] = [kind |-> "eval", n |-> a + 1, i |-> i]
    BY <2>1, <2>4
  <2>6. ASSUME NEW i \in HeaderLen + 1 .. N
        PROVE  m[i] = [kind |-> "body", n |-> a + 1, i |-> i - HeaderLen]
    <3>1. i - HeaderLen \in 1 .. BodyLen
      BY <1>0
    <3> QED BY <2>2, <2>4, <3>1
  <2>7. /\ m[1].n = a + 1 /\ m[1].i = 1 /\ m[1].kind # "body"
        /\ m[N].n = a + 1 /\ Ends(m[N])
    <3>1. m[1] = [kind |-> "eval", n |-> a + 1, i |-> 1]
      BY <1>0, <2>5
    <3>2. m[N] = [kind |-> "body", n |-> a + 1, i |-> BodyLen]
      <4>1. N \in HeaderLen + 1 .. N /\ N - HeaderLen = BodyLen
        BY <1>0
      <4> QED BY <2>6, <4>1
    <3> QED BY <3>1, <3>2 DEF Ends
  <2>8. ASSUME NEW i \in 1 .. N PROVE Sent(m[i])
    <3>1. CASE i \in 1 .. HeaderLen
      <4>1. m[i] = [kind |-> "eval", n |-> a + 1, i |-> i]
        BY <2>5, <3>1
      <4> QED BY <4>1 DEF Sent
    <3>2. CASE i \in HeaderLen + 1 .. N
      <4>1. m[i] = [kind |-> "body", n |-> a + 1, i |-> i - HeaderLen] /\ i - HeaderLen <= BodyLen
        BY <1>0, <2>6, <3>2
      <4> QED BY <4>1 DEF Sent
    <3> QED BY <1>0, <3>1, <3>2
  <2>9. ASSUME NEW i \in 1 .. N - 1 PROVE Follows(m[i], m[i + 1])
    <3>1. CASE i \in 1 .. HeaderLen - 1
      <4>1. /\ m[i] = [kind |-> "eval", n |-> a + 1, i |-> i] /\ i # HeaderLen
            /\ m[i + 1] = [kind |-> "eval", n |-> a + 1, i |-> i + 1]
        BY <1>0, <2>5, <3>1
      <4> QED BY <4>1 DEF Follows, Ends, Opens
    <3>2. CASE i = HeaderLen
      <4>1. m[i] = [kind |-> "eval", n |-> a + 1, i |-> HeaderLen]
        BY <1>0, <2>5, <3>2
      <4>2. i + 1 \in HeaderLen + 1 .. N /\ (i + 1) - HeaderLen = 1
        BY <1>0, <3>2
      <4>3. m[i + 1] = [kind |-> "body", n |-> a + 1, i |-> 1]
        BY <2>6, <4>2
      <4> QED BY <4>1, <4>3 DEF Follows, Opens
    <3>3. CASE i \in HeaderLen + 1 .. N - 1
      <4>1. /\ i \in HeaderLen + 1 .. N /\ i + 1 \in HeaderLen + 1 .. N
            /\ (i + 1) - HeaderLen = (i - HeaderLen) + 1 /\ i - HeaderLen # BodyLen
        BY <1>0, <3>3
      <4>2. /\ m[i] = [kind |-> "body", n |-> a + 1, i |-> i - HeaderLen]
            /\ m[i + 1] = [kind |-> "body", n |-> a + 1, i |-> (i - HeaderLen) + 1]
        BY <2>6, <4>1
      <4> QED BY <4>1, <4>2 DEF Follows, Ends, Opens
    <3> QED BY <1>0, <3>1, <3>2, <3>3
  <2> HIDE DEF N
  <2>10. Stream(m, Start, a, a + 1)
    BY <2>4, <2>7, <2>8, <2>9 DEF Stream, Start
  <2> QED BY <2>4, <2>10
<1> QED BY <1>3, <1>4

-----------------------------------------------------------------------------
(* The invariant. *)

\* No peer is gone when its greeting is written.
NoResets == Resets = FALSE

\* What the server has yet to read from d, what it reads next, and what it has read.
Rest(d) == up[d] \o flight[d]
Want(d) == IF pc \in {"header", "body"} /\ msg.sock = d THEN <<pc, msg.got>> ELSE Start
Got(d)  == IF pc \in {"ping", "serve"} /\ msg.sock = d THEN answered[d] + 1 ELSE answered[d]

\* TypeOK, with the streams as sequences.
TypeInv ==
  /\ conn \in [Socks -> {"off", "pending", "open", "shut"}]
  /\ flight \in [Socks -> Seq(Cells)] /\ up \in [Socks -> Seq(Cells)]
  /\ down \in [Socks -> Seq(Cells)]
  /\ asked \in [Socks -> 0 .. MaxReq] /\ answered \in [Socks -> 0 .. MaxReq]
  /\ eval \in [Socks -> 0 .. MaxReq]
  /\ fd \in [Socks -> {"none", "open", "closed"}] /\ tracked \subseteq Socks
  /\ pc \in {"select", "accept", "scan", "header", "ping", "body", "serve", "tick"}
  /\ todo \subseteq Socks /\ msg \in [sock : Socks \cup {NoSock}, n : 0 .. MaxReq, got : Nat]
  /\ due \in BOOLEAN

\* The server looks only at sockets it tracks, and a message comes from one of them.
FilesInv ==
  /\ \A c \in Socks : c \in tracked <=> fd[c] = "open"
  /\ Cardinality(tracked) <= MaxClients
  /\ todo \subseteq tracked
  /\ pc \in {"header", "ping", "body", "serve"} => msg.sock \in tracked \ todo

MsgInv ==
  /\ pc \in {"ping", "serve"} => msg.n = answered[msg.sock] + 1
  /\ pc = "header" => msg.got > 0

\* What is left of each client's stream goes on where the server stopped.
StreamInv == \A d \in Socks : fd[d] # "closed" => Stream(Rest(d), Want(d), Got(d), asked[d])

IInv == TypeInv /\ FilesInv /\ MsgInv /\ StreamInv

LEMMA TypeImplied == TypeInv => TypeOK
<1> SUFFICES ASSUME TypeInv PROVE TypeOK
  OBVIOUS
<1>1. ASSUME NEW s \in Seq(Cells) PROVE Range(s) \subseteq Cells
  <2>1. \A i \in DOMAIN s : s[i] \in Cells
    OBVIOUS
  <2> QED BY <2>1 DEF Range
<1>2. \A c \in Socks : Range(flight[c]) \cup Range(up[c]) \cup Range(down[c]) \subseteq Cells
  <2> SUFFICES ASSUME NEW c \in Socks
               PROVE  Range(flight[c]) \cup Range(up[c]) \cup Range(down[c]) \subseteq Cells
    OBVIOUS
  <2>1. flight[c] \in Seq(Cells) /\ up[c] \in Seq(Cells) /\ down[c] \in Seq(Cells)
    BY DEF TypeInv
  <2>2. Range(flight[c]) \subseteq Cells /\ Range(up[c]) \subseteq Cells /\ Range(down[c]) \subseteq Cells
    BY <1>1, <2>1
  <2> QED BY <2>2
<1> QED BY <1>2 DEF TypeInv, TypeOK

\* The cells the server writes.
LEMMA CellTypes ==
  /\ Welcome \in Seq(Cells) /\ Welcome \o Welcome \in Seq(Cells)
  /\ \A n \in 0 .. MaxReq : Answer(n) \in Seq(Cells)
<1>1. /\ MaxReq \in Nat /\ HeaderLen \in Nat \ {0} /\ BodyLen \in Nat \ {0}
      /\ WelcomeLen \in Nat \ {0}
  BY NreplAssumption
<1>2. Welcome \in Seq(Cells)
  BY <1>1 DEF Welcome, Cells
<1>3. ASSUME NEW n \in 0 .. MaxReq PROVE Answer(n) \in Seq(Cells)
  <2>1. Header("result", n) \in Seq(Cells) /\ Body(n) \in Seq(Cells)
    BY <1>1 DEF Header, Body, Cells
  <2> QED BY <2>1 DEF Answer
<1> QED BY <1>2, <1>3

\* The first socket of a set of sockets is in the set.
LEMMA FirstIn ==
  ASSUME NEW S, S \subseteq Nat, S # {}
  PROVE  Min(S) \in S
<1>1. \E first \in S : \A y \in S : ~ (<<y, first>> \in OpToRel(<, Nat))
  BY NatLessThanWellFounded, WFMin
<1>2. PICK first \in S : \A y \in S : ~ (<<y, first>> \in OpToRel(<, Nat))
  BY <1>1
<1>3. ASSUME NEW y \in S PROVE first <= y
  <2>1. y \in Nat /\ first \in Nat
    OBVIOUS
  <2>2. y < first => <<y, first>> \in {ss \in Nat \X Nat : ss[1] < ss[2]}
    BY <2>1
  <2>3. ~(y < first)
    BY <1>2, <2>2 DEF OpToRel
  <2> QED BY <2>1, <2>3
<1> QED BY <1>3 DEF Min

LEMMA ScannedIn == ASSUME todo \subseteq Socks, todo # {} PROVE Scanned \in todo
<1>1. todo \subseteq Nat
  BY NreplAssumption DEF Socks
<1> QED BY <1>1, FirstIn DEF Scanned

\* What the properties say of a state follows.
LEMMA Implied == IInv => TracksExactly /\ RequestsInOrder
<1> SUFFICES ASSUME IInv PROVE TracksExactly /\ RequestsInOrder
  OBVIOUS
<1>1. TracksExactly
  BY TypeImplied DEF IInv, FilesInv, TypeInv, TracksExactly, TrackedIsOpen, OpenIsTracked
<1>2. ASSUME pc = "serve"
      PROVE  /\ msg.n = answered[msg.sock] + 1
             /\ up[msg.sock] # <<>> =>
                  /\ Head(up[msg.sock]).kind \in {"eval", "ping", "bad"}
                  /\ Head(up[msg.sock]).i = 1 /\ Head(up[msg.sock]).n = msg.n + 1
  <2> DEFINE c == msg.sock
  <2>1. c \in Socks /\ fd[c] = "open" /\ msg.n = answered[c] + 1
    BY <1>2 DEF IInv, FilesInv, MsgInv, TypeInv
  <2>2. Want(c) = Start /\ Got(c) = answered[c] + 1
    BY <1>2 DEF Want, Got
  <2>3. Stream(Rest(c), Start, answered[c] + 1, asked[c])
    BY <2>1, <2>2 DEF IInv, StreamInv
  <2>4. up[c] \in Seq(Cells) /\ flight[c] \in Seq(Cells) /\ answered[c] \in Nat
    BY <2>1, NreplAssumption DEF IInv, TypeInv
  <2>5. ASSUME up[c] # <<>>
        PROVE  /\ Head(up[c]).kind \in {"eval", "ping", "bad"}
               /\ Head(up[c]).i = 1 /\ Head(up[c]).n = msg.n + 1
    <3>1. Rest(c) \in Seq(Cells) /\ Rest(c) # <<>> /\ Rest(c)[1] = Head(up[c])
      BY <2>4, <2>5, ReadTail DEF Rest
    <3>2. 1 \in 1 .. Len(Rest(c))
      BY <3>1
    <3> HIDE DEF c
    <3> QED BY <2>1, <2>3, <3>1, <3>2 DEF Stream, Start, Sent
  <2> QED BY <2>1, <2>5
<1> QED BY <1>1, <1>2 DEF RequestsInOrder

LEMMA InitInv == Init => IInv
<1> SUFFICES ASSUME Init PROVE IInv
  OBVIOUS
<1>1. MaxReq \in Nat /\ MaxClients \in Nat
  BY NreplAssumption
<1>2. TypeInv
  <2>1. <<>> \in Seq(Cells) /\ 0 \in 0 .. MaxReq
    BY <1>1
  <2>2. /\ flight \in [Socks -> Seq(Cells)] /\ up = flight /\ down = flight
        /\ asked \in [Socks -> 0 .. MaxReq] /\ eval = asked /\ answered = asked
    BY <2>1 DEF Init
  <2>3. /\ conn \in [Socks -> {"off", "pending", "open", "shut"}]
        /\ fd \in [Socks -> {"none", "open", "closed"}]
        /\ msg \in [sock : Socks \cup {NoSock}, n : 0 .. MaxReq, got : Nat]
    BY <2>1 DEF Init, NoMsg
  <2> QED BY <2>2, <2>3 DEF Init, TypeInv
<1>3. FilesInv
  BY <1>1, FS_EmptySet DEF Init, FilesInv
<1>4. StreamInv
  <2> SUFFICES ASSUME NEW d \in Socks PROVE Stream(Rest(d), Want(d), Got(d), asked[d])
    BY DEF StreamInv
  <2>1. up[d] = <<>> /\ flight[d] = <<>> /\ asked[d] = 0 /\ answered[d] = 0 /\ pc = "select"
    BY DEF Init
  <2>2. Rest(d) = <<>> /\ Len(Rest(d)) = 0 /\ Want(d) = Start /\ Got(d) = 0
    BY <2>1 DEF Rest, Want, Got
  <2> QED BY <2>1, <2>2 DEF Stream
<1>5. MsgInv
  BY DEF Init, MsgInv
<1> QED BY <1>2, <1>3, <1>4, <1>5 DEF IInv

-----------------------------------------------------------------------------
(* What the steps have in common. *)

\* A client whose cells and counts are left alone keeps its stream.
LEMMA StreamKept ==
  ASSUME StreamInv, NEW d \in Socks, fd[d] # "closed",
         up'[d] = up[d], flight'[d] = flight[d], asked'[d] = asked[d],
         Want(d)' = Want(d), Got(d)' = Got(d)
  PROVE  Stream(Rest(d), Want(d), Got(d), asked[d])'
<1>1. Stream(Rest(d), Want(d), Got(d), asked[d])
  BY DEF StreamInv
<1>2. Rest(d)' = Rest(d)
  BY DEF Rest
<1>3. Stream(Rest(d)', Want(d)', Got(d)', asked'[d])
  BY <1>1, <1>2, Zenon
<1> QED BY <1>3 DEF Stream, Follows, Ends, Opens, Sent, Start

\* A step of the client or the network that sends and delivers nothing.
LEMMA Quiet ==
  ASSUME IInv, TypeInv', UNCHANGED <<up, flight, asked, server>>
  PROVE  IInv'
<1>1. FilesInv' /\ MsgInv'
  BY DEF IInv, FilesInv, MsgInv, server
<1>2. ASSUME NEW d \in Socks, fd'[d] # "closed"
      PROVE  Stream(Rest(d), Want(d), Got(d), asked[d])'
  <2>1. /\ Want(d)' = Want(d) /\ Got(d)' = Got(d) /\ fd[d] # "closed"
        /\ up'[d] = up[d] /\ flight'[d] = flight[d] /\ asked'[d] = asked[d]
    BY <1>2 DEF Want, Got, server
  <2> QED BY <2>1, StreamKept DEF IInv
<1>3. StreamInv'
  BY <1>2 DEF StreamInv
<1> QED BY <1>1, <1>3 DEF IInv

LEMMA DownTyped ==
  ASSUME TypeInv, NEW c \in Socks, NEW cells \in Seq(Cells), Write(c, cells)
  PROVE  down' \in [Socks -> Seq(Cells)]
<1>1. down[c] \in Seq(Cells) /\ <<>> \in Seq(Cells) /\ down \in [Socks -> Seq(Cells)]
  BY DEF TypeInv
<1>2. down[c] \o cells \in Seq(Cells)
  BY <1>1
<1>3. (IF conn[c] = "shut" THEN <<>> ELSE down[c] \o cells) \in Seq(Cells)
  BY <1>1, <1>2
<1> QED BY <1>1, <1>3 DEF Write

\* The tracked sockets are finitely many.
LEMMA TrackedFinite ==
  ASSUME TypeInv PROVE IsFiniteSet(tracked) /\ Cardinality(tracked) \in Nat
<1>1. IsFiniteSet(Socks)
  BY FS_Interval, NreplAssumption DEF Socks
<1>2. IsFiniteSet(tracked)
  BY <1>1, FS_Subset DEF TypeInv
<1> QED BY <1>2, FS_CardinalityType

LEMMA DropFiles ==
  ASSUME TypeInv, FilesInv, NEW c \in tracked, Drop(c)
  PROVE  /\ tracked' \subseteq Socks /\ tracked' = tracked \ {c}
         /\ fd' \in [Socks -> {"none", "open", "closed"}] /\ fd'[c] = "closed"
         /\ \A d \in Socks : d # c => fd'[d] = fd[d]
         /\ \A d \in Socks : d \in tracked' <=> fd'[d] = "open"
         /\ Cardinality(tracked') <= MaxClients
<1>1. c \in Socks /\ MaxClients \in Nat
  BY NreplAssumption DEF TypeInv
<1>2. /\ tracked' \subseteq Socks /\ tracked' = tracked \ {c}
      /\ fd' \in [Socks -> {"none", "open", "closed"}] /\ fd'[c] = "closed"
      /\ \A d \in Socks : d # c => fd'[d] = fd[d]
  BY <1>1 DEF TypeInv, Drop
<1>3. \A d \in Socks : d \in tracked' <=> fd'[d] = "open"
  BY <1>2 DEF FilesInv
<1>4. Cardinality(tracked') <= Cardinality(tracked) /\ Cardinality(tracked') \in Nat
  BY <1>2, TrackedFinite, FS_Subset, FS_CardinalityType
<1>5. Cardinality(tracked') <= MaxClients
  BY <1>1, <1>4, TrackedFinite DEF FilesInv
<1> QED BY <1>2, <1>3, <1>5

-----------------------------------------------------------------------------
(* Clients and the network. *)

LEMMA SendInv ==
  ASSUME IInv, NEW c \in Socks, eval' \in [Socks -> 0 .. MaxReq],
         NEW m, Send(c, m),
         \/ m = Request(asked[c] + 1)
         \/ m = Header("ping", asked[c] + 1)
         \/ m = Header("bad", asked[c] + 1)
  PROVE  IInv'
<1>1. TypeInv /\ FilesInv /\ MsgInv /\ StreamInv
  BY DEF IInv
<1>2. c \in Nat \ {0} /\ MaxReq \in Nat
  BY NreplAssumption DEF Socks
<1>3. asked[c] + 1 \in 0 .. MaxReq /\ asked[c] \in Nat
  <2>1. asked[c] + c <= MaxReq
    BY Zenon DEF Send
  <2>2. asked[c] \in 0 .. MaxReq
    BY <1>1 DEF TypeInv
  <2> HIDE DEF Send
  <2> QED BY <1>2, <2>1, <2>2
<1>4. m \in Seq(Cells) /\ m # <<>> /\ Stream(m, Start, asked[c], asked[c] + 1)
  BY <1>3, OneRequest
<1>5. /\ asked' = [asked EXCEPT ![c] = asked[c] + 1]
      /\ flight' = [flight EXCEPT ![c] = flight[c] \o m]
      /\ UNCHANGED <<conn, up, down, server, due>>
  BY DEF Send
<1>6. flight[c] \o m \in Seq(Cells) /\ flight[c] \in Seq(Cells) /\ up[c] \in Seq(Cells)
  BY <1>1, <1>4 DEF TypeInv
<1>7. asked' \in [Socks -> 0 .. MaxReq] /\ flight' \in [Socks -> Seq(Cells)]
  BY <1>1, <1>3, <1>5, <1>6 DEF TypeInv
<1>8. TypeInv'
  BY <1>1, <1>5, <1>7 DEF TypeInv, server
<1>9. FilesInv' /\ MsgInv'
  BY <1>1, <1>5 DEF FilesInv, MsgInv, server
<1>10. ASSUME NEW d \in Socks, fd'[d] # "closed"
       PROVE  Stream(Rest(d), Want(d), Got(d), asked[d])'
  <2>1. Want(d)' = Want(d) /\ Got(d)' = Got(d) /\ fd[d] # "closed"
    BY <1>5, <1>10 DEF Want, Got, server
  <2>2. CASE d # c
    <3>1. up'[d] = up[d] /\ flight'[d] = flight[d] /\ asked'[d] = asked[d]
      BY <1>1, <1>5, <2>2 DEF TypeInv
    <3> QED BY <1>1, <2>1, <3>1, StreamKept
  <2>3. CASE d = c
    <3>1. up'[d] = up[d] /\ flight'[d] = flight[d] \o m /\ asked'[d] = asked[d] + 1
      BY <1>1, <1>5, <2>3 DEF TypeInv
    <3>2. Rest(d)' = Rest(d) \o m
      <4>1. up[d] \o (flight[d] \o m) = (up[d] \o flight[d]) \o m
        <5>1. up[d] \in Seq(Cells) /\ flight[d] \in Seq(Cells) /\ m \in Seq(Cells)
          BY <1>4, <1>6, <2>3
        <5> QED BY <5>1, SendLast, Zenon
      <4> QED BY <3>1, <4>1 DEF Rest
    <3>3. Stream(Rest(d), Want(d), Got(d), asked[d])
      BY <1>1, <2>1 DEF StreamInv
    <3>4. Rest(d) \in Seq(Cells) /\ Want(d) \in Places /\ Got(d) \in Nat
      <4>1. msg.got \in Nat
        BY <1>1 DEF TypeInv
      <4> QED BY <1>1, <1>2, <1>6, <2>3, <4>1 DEF Rest, Want, Got, TypeInv, Start, Places
    <3>5. Stream(Rest(d) \o m, Want(d), Got(d), asked[d] + 1)
      BY <1>3, <1>4, <2>3, <3>3, <3>4, StreamSend
    <3>6. Stream(Rest(d)', Want(d)', Got(d)', asked'[d])
      BY <2>1, <3>1, <3>2, <3>5, Zenon
    <3> QED BY <3>6 DEF Stream, Follows, Ends, Opens, Sent, Start
  <2> QED BY <2>2, <2>3
<1>11. StreamInv'
  BY <1>10 DEF StreamInv
<1> QED BY <1>8, <1>9, <1>11 DEF IInv

LEMMA ArriveInv ==
  ASSUME IInv, NEW c \in Socks, Arrive(c)
  PROVE  IInv'
<1>1. TypeInv /\ FilesInv /\ MsgInv /\ StreamInv
  BY DEF IInv
<1>2. /\ up' = [up EXCEPT ![c] = IF fd[c] = "closed" THEN <<>> ELSE Append(up[c], Head(flight[c]))]
      /\ flight' = [flight EXCEPT ![c] = Tail(flight[c])] /\ flight[c] # <<>>
      /\ UNCHANGED <<conn, down, asked, eval, server, due>>
  BY DEF Arrive
<1>3. flight[c] \in Seq(Cells) /\ up[c] \in Seq(Cells)
  BY <1>1 DEF TypeInv
<1>4. /\ Append(up[c], Head(flight[c])) \in Seq(Cells) /\ Tail(flight[c]) \in Seq(Cells)
      /\ <<>> \in Seq(Cells)
  BY <1>2, <1>3
<1>5. up' \in [Socks -> Seq(Cells)] /\ flight' \in [Socks -> Seq(Cells)]
  BY <1>1, <1>2, <1>4 DEF TypeInv
<1>6. TypeInv'
  BY <1>1, <1>2, <1>5 DEF TypeInv, server
<1>7. FilesInv' /\ MsgInv'
  BY <1>1, <1>2 DEF FilesInv, MsgInv, server
<1>8. ASSUME NEW d \in Socks, fd'[d] # "closed"
      PROVE  Stream(Rest(d), Want(d), Got(d), asked[d])'
  <2>1. Want(d)' = Want(d) /\ Got(d)' = Got(d) /\ fd[d] # "closed" /\ asked'[d] = asked[d]
    BY <1>2, <1>8 DEF Want, Got, server
  <2>2. Rest(d)' = Rest(d)
    <3>1. CASE d # c
      BY <1>1, <1>2, <3>1 DEF TypeInv, Rest
    <3>2. CASE d = c
      <4>1. up'[d] = Append(up[c], Head(flight[c])) /\ flight'[d] = Tail(flight[c])
        BY <1>1, <1>2, <2>1, <3>2 DEF TypeInv
      <4>2. Append(up[c], Head(flight[c])) \o Tail(flight[c]) = up[c] \o flight[c]
        BY <1>2, <1>3, ArriveSame
      <4> QED BY <3>2, <4>1, <4>2 DEF Rest
    <3> QED BY <3>1, <3>2
  <2>3. Stream(Rest(d), Want(d), Got(d), asked[d])
    BY <1>1, <2>1 DEF StreamInv
  <2>4. Stream(Rest(d)', Want(d)', Got(d)', asked'[d])
    BY <2>1, <2>2, <2>3, Zenon
  <2> QED BY <2>4 DEF Stream, Follows, Ends, Opens, Sent, Start
<1>9. StreamInv'
  BY <1>8 DEF StreamInv
<1> QED BY <1>6, <1>7, <1>9 DEF IInv

LEMMA ClientInv ==
  ASSUME IInv, NEW c \in Socks, ClientStep(c)
  PROVE  IInv'
<1>1. TypeInv /\ MaxReq \in Nat
  BY NreplAssumption DEF IInv
<1>2. CASE Connect(c)
  <2>1. TypeInv'
    BY <1>1, <1>2 DEF Connect, TypeInv, server
  <2> QED BY <1>2, <2>1, Quiet DEF Connect
<1>3. CASE EvalSend(c)
  <2>1. asked[c] + 1 \in 0 .. MaxReq
    BY <1>1, <1>3 DEF EvalSend, Send, TypeInv, Socks
  <2>2. eval' \in [Socks -> 0 .. MaxReq]
    BY <1>1, <1>3, <2>1 DEF EvalSend, TypeInv
  <2> QED BY <1>3, <2>2, SendInv DEF EvalSend
<1>4. CASE EvalNoResponse(c)
  <2>1. eval' \in [Socks -> 0 .. MaxReq]
    BY <1>1, <1>4 DEF EvalNoResponse, TypeInv
  <2> QED BY <1>4, <2>1, SendInv DEF EvalNoResponse
<1>5. CASE SendPing(c)
  <2>1. eval' \in [Socks -> 0 .. MaxReq]
    BY <1>1, <1>5 DEF SendPing, TypeInv
  <2> QED BY <1>5, <2>1, SendInv DEF SendPing
<1>12. CASE SendBad(c)
  <2>1. eval' \in [Socks -> 0 .. MaxReq]
    BY <1>1, <1>12 DEF SendBad, TypeInv
  <2> QED BY <1>12, <2>1, SendInv DEF SendBad
<1>6. CASE Close(c)
  <2>0. <<>> \in Seq(Cells)
    OBVIOUS
  <2>1. down' \in [Socks -> Seq(Cells)] /\ conn' \in [Socks -> {"off", "pending", "open", "shut"}]
    BY <1>1, <1>6, <2>0 DEF Close, TypeInv
  <2>2. TypeInv'
    BY <1>1, <1>6, <2>1 DEF Close, TypeInv, server
  <2> QED BY <1>6, <2>2, Quiet DEF Close
<1>7. ASSUME NEW n \in Nat, Return(c, n),
             conn' \in [Socks -> {"off", "pending", "open", "shut"}]
      PROVE  IInv'
  <2>0. down[c] \in Seq(Cells)
    BY <1>1 DEF TypeInv
  <2>1. SubSeq(down[c], n + 1, Len(down[c])) \in Seq(Cells)
    BY <2>0
  <2>2. down' \in [Socks -> Seq(Cells)] /\ eval' \in [Socks -> 0 .. MaxReq]
    BY <1>1, <1>7, <2>1 DEF Return, TypeInv
  <2>3. TypeInv'
    BY <1>1, <1>7, <2>2 DEF Return, TypeInv, server
  <2> QED BY <1>7, <2>3, Quiet DEF Return
<1>8. CASE EvalReturns(c)
  <2>1. HeaderLen + BodyLen \in Nat
    BY NreplAssumption
  <2>2. conn' \in [Socks -> {"off", "pending", "open", "shut"}]
    BY <1>1, <1>8 DEF EvalReturns, TypeInv
  <2> QED BY <1>7, <1>8, <2>1, <2>2 DEF EvalReturns
<1>9. CASE EvalRefuses(c)
  <2>1. HeaderLen \in Nat
    BY NreplAssumption
  <2>2. conn' \in [Socks -> {"off", "pending", "open", "shut"}]
    BY <1>1, <1>9 DEF EvalRefuses, TypeInv
  <2> QED BY <1>7, <1>9, <2>1, <2>2 DEF EvalRefuses
<1>10. CASE EvalDisconnects(c)
  <2>1. Len(down[c]) \in Nat
    BY <1>1 DEF TypeInv
  <2>2. conn' \in [Socks -> {"off", "pending", "open", "shut"}]
    BY <1>1, <1>10 DEF EvalDisconnects, TypeInv
  <2> QED BY <1>7, <1>10, <2>1, <2>2 DEF EvalDisconnects
<1>11. CASE Arrive(c)
  BY <1>11, ArriveInv
<1> QED BY <1>2, <1>3, <1>4, <1>5, <1>6, <1>8, <1>9, <1>10, <1>11, <1>12 DEF ClientStep

-----------------------------------------------------------------------------
(* The server. *)

LEMMA AcceptInv ==
  ASSUME NoResets, IInv, NEW c \in Socks, Accept(c)
  PROVE  IInv'
<1>1. TypeInv /\ FilesInv /\ MsgInv /\ StreamInv
  BY DEF IInv
<1> DEFINE full == Cardinality(tracked) >= MaxClients
<1>2. /\ pc = "accept" /\ fd[c] = "none" /\ pc' = "scan"
      /\ conn' = [conn EXCEPT ![c] = IF conn[c] = "pending" THEN "open" ELSE conn[c]]
      /\ fd' = [fd EXCEPT ![c] = IF full THEN "closed" ELSE "open"]
      /\ Write(c, IF full THEN Welcome \o Welcome ELSE Welcome)
      /\ tracked' = IF full THEN tracked ELSE tracked \cup {c}
      /\ UNCHANGED <<flight, up, asked, eval, todo, msg, answered, due>>
  BY DEF Accept, Backlog, NoResets
<1>3. IsFiniteSet(tracked) /\ Cardinality(tracked) \in Nat /\ MaxClients \in Nat \ {0}
  BY <1>1, TrackedFinite, NreplAssumption
<1>4. down' \in [Socks -> Seq(Cells)]
  <2>1. (IF full THEN Welcome \o Welcome ELSE Welcome) \in Seq(Cells)
    BY CellTypes
  <2> HIDE DEF full
  <2> QED BY <1>1, <1>2, <2>1, DownTyped
<1>5. c \notin tracked
  BY <1>1, <1>2 DEF FilesInv
<1>6. Cardinality(tracked') <= MaxClients
  <2>1. CASE full
    BY <1>1, <1>2, <2>1 DEF FilesInv
  <2>2. CASE ~full
    <3>1. Cardinality(tracked \cup {c}) = Cardinality(tracked) + 1
      BY <1>3, <1>5, FS_AddElement
    <3>2. tracked' = tracked \cup {c}
      BY <1>2, <2>2
    <3> QED BY <1>3, <2>2, <3>1, <3>2
  <2> QED BY <2>1, <2>2
<1> HIDE DEF full
<1>7. TypeInv'
  BY <1>1, <1>2, <1>4 DEF TypeInv
<1>8. FilesInv'
  <2>1. \A d \in Socks : d \in tracked' <=> fd'[d] = "open"
    BY <1>1, <1>2, <1>5 DEF FilesInv, TypeInv
  <2> QED BY <1>1, <1>2, <1>6, <2>1 DEF FilesInv
<1>9. MsgInv'
  BY <1>2 DEF MsgInv
<1>10. ASSUME NEW d \in Socks, fd'[d] # "closed"
       PROVE  Stream(Rest(d), Want(d), Got(d), asked[d])'
  <2>1. Want(d)' = Want(d) /\ Got(d)' = Got(d) /\ asked'[d] = asked[d]
    BY <1>2 DEF Want, Got
  <2>2. fd[d] # "closed" /\ up'[d] = up[d] /\ flight'[d] = flight[d]
    BY <1>1, <1>2, <1>10 DEF TypeInv
  <2> QED BY <1>1, <2>1, <2>2, StreamKept
<1>11. StreamInv'
  BY <1>10 DEF StreamInv
<1> QED BY <1>7, <1>8, <1>9, <1>11 DEF IInv

\* Steps that move the loop on and read nothing.
LEMMA MoveInv ==
  ASSUME IInv, TypeInv', Select \/ ScanDone \/ Tick
  PROVE  IInv'
<1>1. TypeInv /\ FilesInv /\ MsgInv /\ StreamInv
  BY DEF IInv
<1>2. /\ pc \in {"select", "scan", "tick"} /\ pc' \in {"accept", "scan", "tick", "select"}
      /\ todo' = todo \/ todo' = Readable
      /\ UNCHANGED <<client, up, fd, tracked, msg, answered>>
  BY DEF Select, ScanDone, Tick
<1>3. FilesInv' /\ MsgInv'
  BY <1>1, <1>2 DEF FilesInv, MsgInv, Readable
<1>4. ASSUME NEW d \in Socks, fd'[d] # "closed"
      PROVE  Stream(Rest(d), Want(d), Got(d), asked[d])'
  <2>1. /\ Want(d)' = Want(d) /\ Got(d)' = Got(d) /\ fd[d] # "closed"
        /\ up'[d] = up[d] /\ flight'[d] = flight[d] /\ asked'[d] = asked[d]
    BY <1>2, <1>4 DEF Want, Got, client
  <2> QED BY <1>1, <2>1, StreamKept
<1>5. StreamInv'
  BY <1>4 DEF StreamInv
<1> QED BY <1>3, <1>5 DEF IInv

\* The server drops a socket and goes on with the scan or the round.
LEMMA DropInv ==
  ASSUME IInv, TypeInv', NEW c \in tracked, Drop(c), pc' \in {"scan", "tick"},
         todo' \subseteq todo \ {c}, UNCHANGED client,
         \A d \in Socks : d # c => up'[d] = up[d] /\ Want(d) = Start /\ Got(d) = answered'[d]
  PROVE  IInv'
<1>1. TypeInv /\ FilesInv /\ StreamInv
  BY DEF IInv
<1>2. /\ tracked' = tracked \ {c} /\ fd'[c] = "closed"
      /\ \A d \in Socks : d # c => fd'[d] = fd[d]
      /\ \A d \in Socks : d \in tracked' <=> fd'[d] = "open"
      /\ Cardinality(tracked') <= MaxClients
  BY <1>1, DropFiles
<1>3. FilesInv' /\ MsgInv'
  BY <1>1, <1>2 DEF FilesInv, MsgInv
<1>4. ASSUME NEW d \in Socks, fd'[d] # "closed"
      PROVE  Stream(Rest(d), Want(d), Got(d), asked[d])'
  <2>1. d # c /\ fd[d] # "closed"
    BY <1>2, <1>4
  <2>2. Want(d)' = Want(d) /\ Got(d)' = Got(d)
    BY <2>1 DEF Want, Got
  <2>3. up'[d] = up[d] /\ flight'[d] = flight[d] /\ asked'[d] = asked[d]
    BY <2>1 DEF client
  <2> QED BY <1>1, <2>1, <2>2, <2>3, StreamKept
<1>5. StreamInv'
  BY <1>4 DEF StreamInv
<1> QED BY <1>3, <1>5 DEF IInv

\* One read of a header, its first or a later one.
LEMMA HeaderCellInv ==
  ASSUME IInv, NEW c \in tracked, up[c] # <<>>, NEW g \in Nat \ {0},
         HeaderCell(c, g), todo' \subseteq todo \ {c},
         \/ pc = "scan" /\ g = 1
         \/ pc = "header" /\ msg.sock = c /\ g = msg.got + 1
  PROVE  IInv'
<1>1. TypeInv /\ FilesInv /\ MsgInv /\ StreamInv /\ MaxReq \in Nat
  BY NreplAssumption DEF IInv
<1> DEFINE h == Head(up[c])
<1>2. c \in Socks /\ fd[c] = "open"
  BY <1>1 DEF FilesInv, TypeInv
<1>3. /\ up' = [up EXCEPT ![c] = Tail(up[c])]
      /\ UNCHANGED <<client, down, answered, due>>
      /\ \/ /\ g < HeaderLen
            /\ pc' = "header" /\ msg' = [sock |-> c, n |-> 0, got |-> g]
            /\ UNCHANGED <<fd, tracked>>
         \/ /\ g = HeaderLen /\ h.kind = "ping"
            /\ pc' = "ping" /\ msg' = [sock |-> c, n |-> h.n, got |-> 0]
            /\ UNCHANGED <<fd, tracked>>
         \/ /\ g = HeaderLen /\ h.kind = "bad"
            /\ Drop(c) /\ pc' = "scan" /\ msg' = NoMsg
         \/ /\ g = HeaderLen /\ h.kind \notin {"ping", "bad"}
            /\ pc' = "body" /\ msg' = [sock |-> c, n |-> 0, got |-> 0]
            /\ UNCHANGED <<fd, tracked>>
  BY DEF HeaderCell
<1>4. up[c] \in Seq(Cells) /\ flight[c] \in Seq(Cells)
  BY <1>1, <1>2 DEF TypeInv
<1>5. h \in Cells /\ Tail(up[c]) \in Seq(Cells)
  BY <1>4
<1>6. /\ Rest(c) \in Seq(Cells) /\ Rest(c) # <<>> /\ Rest(c)[1] = h
      /\ Tail(up[c]) \o flight[c] = Tail(Rest(c))
  <2>1. up[c] # <<>>
    OBVIOUS
  <2>2. /\ up[c] \o flight[c] \in Seq(Cells) /\ up[c] \o flight[c] # <<>>
        /\ (up[c] \o flight[c])[1] = Head(up[c])
        /\ Tail(up[c]) \o flight[c] = Tail(up[c] \o flight[c])
    <3> DEFINE u == up[c]
               f == flight[c]
    <3>1. u \in Seq(Cells) /\ f \in Seq(Cells) /\ u # <<>>
      BY <1>4, <2>1
    <3> HIDE DEF u, f
    <3>2. /\ u \o f \in Seq(Cells) /\ u \o f # <<>> /\ (u \o f)[1] = Head(u)
          /\ Tail(u) \o f = Tail(u \o f)
      BY <3>1, ReadTail
    <3> QED BY <3>2, Zenon DEF u, f
  <2> QED BY <2>2, Zenon DEF Rest
<1>7. /\ Want(c) = <<"header", g - 1>> /\ Got(c) = answered[c]
      /\ answered[c] \in Nat /\ asked[c] \in Nat /\ Want(c) \in Places
  <2>1. answered[c] \in Nat /\ asked[c] \in Nat /\ msg.got \in Nat
    BY <1>1, <1>2 DEF TypeInv
  <2>2. Want(c) = <<"header", g - 1>> /\ Got(c) = answered[c]
    BY <2>1 DEF Want, Got, Start
  <2>3. g - 1 \in Nat
    OBVIOUS
  <2> QED BY <2>1, <2>2, <2>3 DEF Places
<1>8. Stream(Rest(c), Want(c), answered[c], asked[c])
  BY <1>1, <1>2, <1>7 DEF StreamInv
<1>9. /\ h.n = answered[c] + 1 /\ h.i = g /\ h.kind \in {"eval", "ping", "bad"}
      /\ Stream(Tail(Rest(c)), After(h), IF Ends(h) THEN answered[c] + 1 ELSE answered[c], asked[c])
  <2>1. /\ h.n = answered[c] + 1 /\ h.i = Want(c)[2] + 1 /\ Sent(h)
        /\ h.kind = "body" <=> Want(c)[1] = "body"
        /\ Stream(Tail(Rest(c)), After(h), IF Ends(h) THEN answered[c] + 1 ELSE answered[c], asked[c])
    <3> DEFINE s == Rest(c)
               k == Want(c)
    <3>1. /\ s \in Seq(Cells) /\ s # <<>> /\ k \in Places /\ answered[c] \in Nat
          /\ asked[c] \in Nat /\ Stream(s, k, answered[c], asked[c]) /\ s[1] = h
      BY <1>6, <1>7, <1>8, Zenon
    <3> HIDE DEF s, k, h
    <3>2. /\ s[1].n = answered[c] + 1 /\ s[1].i = k[2] + 1 /\ Sent(s[1])
          /\ s[1].kind = "body" <=> k[1] = "body"
          /\ Stream(Tail(s), After(s[1]), IF Ends(s[1]) THEN answered[c] + 1 ELSE answered[c], asked[c])
      BY <3>1, StreamTail, Zenon
    <3> QED BY <3>1, <3>2, Zenon DEF s, k
  <2>2. h.kind \in {"eval", "ping", "bad"} /\ h.i = g
    BY <1>7, <2>1 DEF Sent
  <2> QED BY <2>1, <2>2
<1>10. h.n \in 0 .. MaxReq /\ 0 \in 0 .. MaxReq
  BY <1>1, <1>5 DEF Cells
<1> HIDE DEF h
<1>11. up' \in [Socks -> Seq(Cells)] /\ up'[c] = Tail(up[c]) /\ \A d \in Socks : d # c => up'[d] = up[d]
  BY <1>1, <1>2, <1>3, <1>5 DEF TypeInv
<1>12. todo' \subseteq Socks
  BY <1>1 DEF TypeInv
<1>13. ASSUME NEW d \in Socks, d # c PROVE Want(d) = Start /\ Got(d) = answered'[d]
  BY <1>3, <1>13 DEF Want, Got
<1>14. CASE h.kind = "bad" /\ g = HeaderLen
  <2>1. Drop(c) /\ pc' = "scan" /\ msg' = NoMsg
    BY <1>3, <1>14
  <2>2. tracked' \subseteq Socks /\ fd' \in [Socks -> {"none", "open", "closed"}]
    BY <1>1, <2>1, DropFiles
  <2>3. msg' \in [sock : Socks \cup {NoSock}, n : 0 .. MaxReq, got : Nat]
    BY <1>10, <2>1 DEF NoMsg
  <2>4. TypeInv'
    BY <1>1, <1>3, <1>11, <1>12, <2>1, <2>2, <2>3 DEF TypeInv, client
  <2>5. pc' \in {"scan", "tick"} /\ UNCHANGED client
    BY <1>3, <2>1
  <2> QED BY <1>11, <1>13, <2>1, <2>4, <2>5, DropInv
<1>15. CASE ~(h.kind = "bad" /\ g = HeaderLen)
  <2>1. /\ UNCHANGED <<fd, tracked>> /\ msg'.sock = c /\ pc' \in {"header", "ping", "body"}
        /\ pc' = "header" => g < HeaderLen /\ msg'.got = g
        /\ pc' = "ping" => g = HeaderLen /\ h.kind = "ping" /\ msg'.n = h.n
        /\ pc' = "body" => g = HeaderLen /\ h.kind = "eval" /\ msg'.got = 0
        /\ msg' \in [sock : Socks \cup {NoSock}, n : 0 .. MaxReq, got : Nat]
    BY <1>2, <1>3, <1>9, <1>10, <1>15
  <2>2. TypeInv'
    BY <1>1, <1>3, <1>11, <1>12, <2>1 DEF TypeInv, client
  <2>3. FilesInv' /\ MsgInv'
    BY <1>1, <1>2, <1>3, <1>9, <2>1 DEF FilesInv, MsgInv
  <2>4. ASSUME NEW d \in Socks, fd'[d] # "closed"
        PROVE  Stream(Rest(d), Want(d), Got(d), asked[d])'
    <3>1. fd[d] # "closed" /\ flight'[d] = flight[d] /\ asked'[d] = asked[d]
      BY <1>3, <2>1, <2>4 DEF client
    <3>2. CASE d # c
      <4>1. Want(d)' = Want(d) /\ Got(d)' = Got(d)
        BY <1>3, <1>13, <2>1, <3>2 DEF Want, Got
      <4> QED BY <1>1, <1>11, <3>1, <3>2, <4>1, StreamKept
    <3>3. CASE d = c
      <4>1. Rest(d)' = Tail(Rest(c))
        BY <1>6, <1>11, <3>1, <3>3 DEF Rest
      <4>2. Want(d)' = After(h) /\ Got(d)' = IF Ends(h) THEN answered[c] + 1 ELSE answered[c]
        <5>1. CASE pc' = "header"
          <6>1. ~Ends(h) /\ ~Opens(h)
            BY <1>9, <2>1, <5>1 DEF Ends, Opens
          <6>2. After(h) = <<"header", g>>
            BY <1>9, <6>1 DEF After, Within
          <6> QED BY <1>3, <2>1, <3>3, <5>1, <6>1, <6>2 DEF Want, Got
        <5>2. CASE pc' = "ping"
          <6>0. h.kind = "ping" /\ h.i = HeaderLen
            BY <1>9, <2>1, <5>2
          <6>1. Ends(h)
            BY <6>0 DEF Ends
          <6>2. After(h) = Start
            BY <6>1, Zenon DEF After
          <6> QED BY <1>3, <2>1, <3>3, <5>2, <6>1, <6>2 DEF Want, Got
        <5>3. CASE pc' = "body"
          <6>1. ~Ends(h) /\ Opens(h)
            BY <1>9, <2>1, <5>3 DEF Ends, Opens
          <6>2. After(h) = <<"body", 0>>
            BY <6>1 DEF After
          <6> QED BY <1>3, <2>1, <3>3, <5>3, <6>1, <6>2 DEF Want, Got
        <5> QED BY <2>1, <5>1, <5>2, <5>3
      <4>3. Stream(Rest(d)', Want(d)', Got(d)', asked'[d])
        BY <1>9, <3>1, <3>3, <4>1, <4>2, Zenon
      <4> QED BY <4>3 DEF Stream, Follows, Ends, Opens, Sent, Start
    <3> QED BY <3>2, <3>3
  <2>5. StreamInv'
    BY <2>4 DEF StreamInv
  <2> QED BY <2>2, <2>3, <2>5 DEF IInv
<1> QED BY <1>14, <1>15

LEMMA ScanHeaderInv ==
  ASSUME IInv, ScanHeader
  PROVE  IInv'
<1>1. Scanned \in todo /\ Scanned \in tracked
  BY ScannedIn DEF ScanHeader, IInv, FilesInv, TypeInv
<1> QED BY <1>1, HeaderCellInv DEF ScanHeader

LEMMA ReadHeaderInv ==
  ASSUME IInv, ReadHeader
  PROVE  IInv'
<1>1. msg.sock \in tracked \ todo /\ msg.got \in Nat
  BY DEF ReadHeader, IInv, FilesInv, TypeInv
<1>2. todo' \subseteq todo \ {msg.sock} /\ msg.got + 1 \in Nat \ {0}
  BY <1>1 DEF ReadHeader
<1> QED BY <1>1, <1>2, HeaderCellInv DEF ReadHeader

LEMMA ScanEofInv ==
  ASSUME IInv, ScanEof
  PROVE  IInv'
<1>1. TypeInv /\ FilesInv
  BY DEF IInv
<1> DEFINE c == Scanned
<1>2. c \in todo /\ c \in tracked
  BY <1>1, ScannedIn DEF ScanEof, FilesInv, TypeInv
<1>3. /\ pc = "scan" /\ pc' = "scan" /\ Drop(c) /\ todo' = todo \ {c}
      /\ UNCHANGED <<client, up, down, msg, answered, due>>
  BY DEF ScanEof
<1> HIDE DEF c
<1>4. TypeInv'
  <2>1. tracked' \subseteq Socks /\ fd' \in [Socks -> {"none", "open", "closed"}]
    BY <1>1, <1>2, <1>3, DropFiles
  <2> QED BY <1>1, <1>3, <2>1 DEF TypeInv, client
<1>5. \A d \in Socks : d # c => up'[d] = up[d] /\ Want(d) = Start /\ Got(d) = answered'[d]
  BY <1>3 DEF Want, Got
<1> QED BY <1>2, <1>3, <1>4, <1>5, DropInv

LEMMA MissingInv ==
  ASSUME IInv, Missing
  PROVE  IInv'
<1>1. TypeInv /\ FilesInv /\ MaxReq \in Nat
  BY NreplAssumption DEF IInv
<1> DEFINE c == msg.sock
<1>2. c \in tracked \ todo
  BY <1>1 DEF Missing, FilesInv
<1>3. /\ pc \in {"header", "body"} /\ pc' = "scan" /\ Drop(c) /\ msg' = NoMsg
      /\ UNCHANGED <<client, up, down, todo, answered, due>>
  BY DEF Missing
<1>4. \A d \in Socks : d # c => up'[d] = up[d] /\ Want(d) = Start /\ Got(d) = answered'[d]
  BY <1>3 DEF Want, Got
<1> HIDE DEF c
<1>5. TypeInv'
  <2>1. tracked' \subseteq Socks /\ fd' \in [Socks -> {"none", "open", "closed"}]
    BY <1>1, <1>2, <1>3, DropFiles
  <2>2. msg' \in [sock : Socks \cup {NoSock}, n : 0 .. MaxReq, got : Nat]
    BY <1>1, <1>3 DEF NoMsg
  <2> QED BY <1>1, <1>3, <2>1, <2>2 DEF TypeInv, client
<1>6. todo' \subseteq todo \ {c}
  BY <1>2, <1>3
<1> QED BY <1>2, <1>3, <1>4, <1>5, <1>6, DropInv

LEMMA ReadBodyInv ==
  ASSUME IInv, ReadBody
  PROVE  IInv'
<1>1. TypeInv /\ FilesInv /\ MsgInv /\ StreamInv /\ MaxReq \in Nat /\ BodyLen \in Nat \ {0}
  BY NreplAssumption DEF IInv
<1> DEFINE c == msg.sock
           h == Head(up[c])
           last == ~(msg.got + 1 < BodyLen)
<1>2. c \in tracked \ todo /\ c \in Socks /\ fd[c] = "open" /\ msg.got \in Nat
  BY <1>1 DEF ReadBody, FilesInv, TypeInv
<1>3. /\ pc = "body" /\ up[c] # <<>>
      /\ up' = [up EXCEPT ![c] = Tail(up[c])]
      /\ last => /\ msg' = [msg EXCEPT !.n = h.n, !.got = 0]
                 /\ pc' = "serve" /\ todo' = {}
      /\ ~last => msg' = [msg EXCEPT !.got = msg.got + 1] /\ UNCHANGED <<pc, todo>>
      /\ UNCHANGED <<client, down, fd, tracked, answered, due>>
  BY DEF ReadBody
<1>4. up[c] \in Seq(Cells) /\ flight[c] \in Seq(Cells)
  BY <1>1, <1>2 DEF TypeInv
<1>5. h \in Cells /\ Tail(up[c]) \in Seq(Cells)
  BY <1>3, <1>4
<1>6. /\ Rest(c) \in Seq(Cells) /\ Rest(c) # <<>> /\ Rest(c)[1] = h
      /\ Tail(up[c]) \o flight[c] = Tail(Rest(c))
  <2>1. up[c] # <<>>
    BY <1>3
  <2>2. /\ up[c] \o flight[c] \in Seq(Cells) /\ up[c] \o flight[c] # <<>>
        /\ (up[c] \o flight[c])[1] = Head(up[c])
        /\ Tail(up[c]) \o flight[c] = Tail(up[c] \o flight[c])
    <3> DEFINE u == up[c]
               f == flight[c]
    <3>1. u \in Seq(Cells) /\ f \in Seq(Cells) /\ u # <<>>
      BY <1>4, <2>1
    <3> HIDE DEF u, f
    <3>2. /\ u \o f \in Seq(Cells) /\ u \o f # <<>> /\ (u \o f)[1] = Head(u)
          /\ Tail(u) \o f = Tail(u \o f)
      BY <3>1, ReadTail
    <3> QED BY <3>2, Zenon DEF u, f
  <2> QED BY <2>2, Zenon DEF Rest
<1>7. /\ Want(c) = <<"body", msg.got>> /\ Got(c) = answered[c] /\ answered[c] \in Nat
      /\ asked[c] \in Nat /\ Want(c) \in Places
  BY <1>1, <1>2, <1>3 DEF Want, Got, TypeInv, Places
<1>8. Stream(Rest(c), Want(c), answered[c], asked[c])
  BY <1>1, <1>2, <1>7 DEF StreamInv
<1>9. /\ h.n = answered[c] + 1 /\ h.i = msg.got + 1 /\ h.kind = "body" /\ h.i <= BodyLen
      /\ Stream(Tail(Rest(c)), After(h), IF Ends(h) THEN answered[c] + 1 ELSE answered[c], asked[c])
  <2>1. /\ h.n = answered[c] + 1 /\ h.i = Want(c)[2] + 1 /\ Sent(h)
        /\ h.kind = "body" <=> Want(c)[1] = "body"
        /\ Stream(Tail(Rest(c)), After(h), IF Ends(h) THEN answered[c] + 1 ELSE answered[c], asked[c])
    <3> DEFINE s == Rest(c)
               k == Want(c)
    <3>1. /\ s \in Seq(Cells) /\ s # <<>> /\ k \in Places /\ answered[c] \in Nat
          /\ asked[c] \in Nat /\ Stream(s, k, answered[c], asked[c]) /\ s[1] = h
      BY <1>6, <1>7, <1>8, Zenon
    <3> HIDE DEF s, k, h
    <3>2. /\ s[1].n = answered[c] + 1 /\ s[1].i = k[2] + 1 /\ Sent(s[1])
          /\ s[1].kind = "body" <=> k[1] = "body"
          /\ Stream(Tail(s), After(s[1]), IF Ends(s[1]) THEN answered[c] + 1 ELSE answered[c], asked[c])
      BY <3>1, StreamTail, Zenon
    <3> QED BY <3>1, <3>2, Zenon DEF s, k
  <2>2. h.i = msg.got + 1 /\ h.kind = "body" /\ h.i <= BodyLen
    BY <1>7, <2>1 DEF Sent
  <2> QED BY <2>1, <2>2
<1>10. h.n \in 0 .. MaxReq
  BY <1>5 DEF Cells
<1>11. up' \in [Socks -> Seq(Cells)] /\ up'[c] = Tail(up[c]) /\ \A d \in Socks : d # c => up'[d] = up[d]
  BY <1>1, <1>2, <1>3, <1>5 DEF TypeInv
<1>12. /\ msg' \in [sock : Socks \cup {NoSock}, n : 0 .. MaxReq, got : Nat]
       /\ msg'.sock = c
       /\ last => msg'.n = h.n
       /\ ~last => msg'.got = msg.got + 1
  <2>1. msg \in [sock : Socks \cup {NoSock}, n : 0 .. MaxReq, got : Nat]
    BY <1>1 DEF TypeInv
  <2> DEFINE hn == h.n
             mg == msg.got + 1
  <2>2. hn \in 0 .. MaxReq /\ mg \in Nat
    BY <1>2, <1>10
  <2>3. last => msg' = [msg EXCEPT !.n = hn, !.got = 0]
    BY <1>3
  <2>4. ~last => msg' = [msg EXCEPT !.got = mg]
    BY <1>3
  <2> HIDE DEF hn, mg, last
  <2>5. CASE last
    <3> DEFINE x == [msg EXCEPT !.n = hn]
    <3>2. /\ x \in [sock : Socks \cup {NoSock}, n : 0 .. MaxReq, got : Nat]
          /\ x.sock = msg.sock /\ x.n = hn
      BY <2>1, <2>2
    <3>3. msg' = [x EXCEPT !.got = 0]
      BY <2>3, <2>5
    <3> HIDE DEF x
    <3>1. /\ msg' \in [sock : Socks \cup {NoSock}, n : 0 .. MaxReq, got : Nat]
          /\ msg'.sock = msg.sock /\ msg'.n = hn
      BY <3>2, <3>3
    <3> QED BY <2>5, <3>1 DEF hn
  <2>6. CASE ~last
    <3>1. /\ msg' \in [sock : Socks \cup {NoSock}, n : 0 .. MaxReq, got : Nat]
          /\ msg'.sock = msg.sock /\ msg'.got = mg
      BY <2>1, <2>2, <2>4, <2>6
    <3> QED BY <2>6, <3>1 DEF mg
  <2> QED BY <2>5, <2>6
<1>13. last <=> Ends(h)
  BY <1>1, <1>2, <1>9 DEF Ends
<1>14. After(h) = IF last THEN Start ELSE <<"body", msg.got + 1>>
  BY <1>9, <1>13 DEF After, Opens, Within
<1> HIDE DEF last
<1>15. TypeInv'
  BY <1>1, <1>3, <1>11, <1>12 DEF TypeInv, client
<1>16. ASSUME NEW d \in Socks, d # c PROVE Want(d)' = Want(d) /\ Got(d)' = Got(d)
  BY <1>3, <1>12, <1>16 DEF Want, Got
<1>17. ASSUME NEW d \in Socks, d = c
       PROVE  Want(d)' = After(h) /\ Got(d)' = IF Ends(h) THEN answered[c] + 1 ELSE answered[c]
  <2>1. CASE last
    BY <1>3, <1>12, <1>13, <1>14, <1>17, <2>1 DEF Want, Got
  <2>2. CASE ~last
    BY <1>3, <1>12, <1>13, <1>14, <1>17, <2>2 DEF Want, Got
  <2> QED BY <2>1, <2>2
<1> HIDE DEF h, c
<1>18. FilesInv' /\ MsgInv'
  BY <1>1, <1>2, <1>3, <1>9, <1>12 DEF FilesInv, MsgInv
<1>19. ASSUME NEW d \in Socks, fd'[d] # "closed"
       PROVE  Stream(Rest(d), Want(d), Got(d), asked[d])'
  <2>1. fd[d] # "closed" /\ flight'[d] = flight[d] /\ asked'[d] = asked[d]
    BY <1>3, <1>19 DEF client
  <2>2. CASE d # c
    BY <1>1, <1>11, <1>16, <2>1, <2>2, StreamKept
  <2>3. CASE d = c
    <3>1. Rest(d)' = Tail(Rest(c))
      BY <1>6, <1>11, <2>1, <2>3 DEF Rest
    <3>2. Want(d)' = After(h) /\ Got(d)' = IF Ends(h) THEN answered[c] + 1 ELSE answered[c]
      BY <1>17, <2>3
    <3>3. Stream(Rest(d)', Want(d)', Got(d)', asked'[d])
      BY <1>9, <2>1, <2>3, <3>1, <3>2, Zenon
    <3> QED BY <3>3 DEF Stream, Follows, Ends, Opens, Sent, Start
  <2> QED BY <2>2, <2>3
<1>20. StreamInv'
  BY <1>19 DEF StreamInv
<1> QED BY <1>15, <1>18, <1>20 DEF IInv

\* A message is answered and the loop goes on.
LEMMA ReplyInv ==
  ASSUME IInv, pc \in {"ping", "serve"}, pc' \in {"scan", "tick"}, msg' = NoMsg,
         answered' = [answered EXCEPT ![msg.sock] = msg.n],
         NEW cells \in Seq(Cells), Write(msg.sock, cells),
         UNCHANGED <<client, up, fd, tracked, todo, due>>
  PROVE  IInv'
<1>1. TypeInv /\ FilesInv /\ MsgInv /\ StreamInv /\ MaxReq \in Nat
  BY NreplAssumption DEF IInv
<1> DEFINE c == msg.sock
<1>2. c \in tracked \ todo /\ c \in Socks /\ msg.n \in 0 .. MaxReq /\ msg.n = answered[c] + 1
  BY <1>1 DEF FilesInv, MsgInv, TypeInv
<1>3. \A d \in Socks : Want(d) = Start /\ Got(d) = answered'[d]
  BY <1>1, <1>2 DEF Want, Got, TypeInv
<1>4. /\ answered' \in [Socks -> 0 .. MaxReq]
      /\ msg' \in [sock : Socks \cup {NoSock}, n : 0 .. MaxReq, got : Nat]
  BY <1>1, <1>2 DEF TypeInv, NoMsg
<1>5. down' \in [Socks -> Seq(Cells)]
  BY <1>1, <1>2, DownTyped
<1> HIDE DEF c
<1>6. TypeInv'
  BY <1>1, <1>4, <1>5 DEF TypeInv, client
<1>7. FilesInv' /\ MsgInv'
  BY <1>1 DEF FilesInv, MsgInv
<1>8. ASSUME NEW d \in Socks, fd'[d] # "closed"
      PROVE  Stream(Rest(d), Want(d), Got(d), asked[d])'
  <2>1. fd[d] # "closed" /\ up'[d] = up[d] /\ flight'[d] = flight[d] /\ asked'[d] = asked[d]
    BY <1>8 DEF client
  <2>2. Want(d)' = Want(d) /\ Got(d)' = Got(d)
    BY <1>3 DEF Want, Got
  <2> QED BY <1>1, <2>1, <2>2, StreamKept
<1>9. StreamInv'
  BY <1>8 DEF StreamInv
<1> QED BY <1>6, <1>7, <1>9 DEF IInv

LEMMA PingInv ==
  ASSUME NoResets, IInv, Ping
  PROVE  IInv'
BY CellTypes, ReplyInv DEF Ping, NoResets

LEMMA ServeInv ==
  ASSUME IInv, Serve
  PROVE  IInv'
<1>1. TypeInv /\ FilesInv /\ MsgInv /\ MaxReq \in Nat
  BY NreplAssumption DEF IInv
<1> DEFINE c == msg.sock
<1>2. /\ pc = "serve" /\ pc' = "tick" /\ msg' = NoMsg
      /\ answered' = [answered EXCEPT ![c] = msg.n]
      /\ UNCHANGED <<client, up, todo, due>>
  BY DEF Serve
<1>3. c \in tracked \ todo /\ c \in Socks /\ msg.n \in 0 .. MaxReq /\ msg.n = answered[c] + 1
  BY <1>1, <1>2 DEF FilesInv, MsgInv, TypeInv
<1>4. CASE Write(c, Answer(msg.n)) /\ UNCHANGED <<fd, tracked>>
  <2>1. Answer(msg.n) \in Seq(Cells)
    BY <1>3, CellTypes
  <2> QED BY <1>2, <1>4, <2>1, ReplyInv
<1>5. CASE Drop(c) /\ UNCHANGED down
  <2>1. /\ answered' \in [Socks -> 0 .. MaxReq]
        /\ msg' \in [sock : Socks \cup {NoSock}, n : 0 .. MaxReq, got : Nat]
    BY <1>1, <1>2, <1>3 DEF TypeInv, NoMsg
  <2>2. \A d \in Socks : d # c => up'[d] = up[d] /\ Want(d) = Start /\ Got(d) = answered'[d]
    BY <1>1, <1>2, <1>3 DEF Want, Got, TypeInv
  <2> HIDE DEF c
  <2>3. tracked' \subseteq Socks /\ fd' \in [Socks -> {"none", "open", "closed"}]
    BY <1>1, <1>3, <1>5, DropFiles
  <2>4. TypeInv'
    BY <1>1, <1>2, <1>5, <2>1, <2>3 DEF TypeInv, client
  <2>5. todo' \subseteq todo \ {c}
    BY <1>2, <1>3
  <2> QED BY <1>2, <1>3, <1>5, <2>2, <2>4, <2>5, DropInv
<1> QED BY <1>4, <1>5 DEF Serve

-----------------------------------------------------------------------------
(* The theorems. *)

LEMMA NextInv == ASSUME NoResets, IInv, [Next]_vars PROVE IInv'
<1>1. TypeInv
  BY DEF IInv
<1>2. CASE Select
  <2>1. TypeInv'
    BY <1>1, <1>2 DEF Select, Readable, TypeInv, client
  <2> QED BY <1>2, <2>1, MoveInv
<1>3. ASSUME NEW c \in Socks, Accept(c) PROVE IInv'
  BY <1>3, AcceptInv
<1>4. CASE ScanHeader
  BY <1>4, ScanHeaderInv
<1>5. CASE ScanEof
  BY <1>5, ScanEofInv
<1>14. CASE ReadHeader
  BY <1>14, ReadHeaderInv
<1>15. CASE Ping
  BY <1>15, PingInv
<1>6. CASE ScanDone
  <2>1. TypeInv'
    BY <1>1, <1>6 DEF ScanDone, TypeInv, client
  <2> QED BY <1>6, <2>1, MoveInv
<1>7. CASE ReadBody
  BY <1>7, ReadBodyInv
<1>8. CASE Missing
  BY <1>8, MissingInv
<1>9. CASE Serve
  BY <1>9, ServeInv
<1>10. CASE Tick
  <2>1. TypeInv'
    BY <1>1, <1>10 DEF Tick, TypeInv, client
  <2> QED BY <1>10, <2>1, MoveInv
<1>11. CASE TimePasses
  <2>1. TypeInv'
    BY <1>1, <1>11 DEF TimePasses, TypeInv, client, server
  <2> QED BY <1>11, <2>1, Quiet DEF TimePasses, client
<1>12. ASSUME NEW c \in Socks, ClientStep(c) PROVE IInv'
  BY <1>12, ClientInv
<1>13. CASE UNCHANGED vars
  <2>1. TypeInv'
    BY <1>1, <1>13 DEF vars, TypeInv, client, server
  <2> QED BY <1>13, <2>1, Quiet DEF vars, client
<1> QED BY <1>2, <1>3, <1>4, <1>5, <1>6, <1>7, <1>8, <1>9, <1>10, <1>11, <1>12, <1>13, <1>14,
       <1>15 DEF Next, ServerStep

\* The parts of the invariant hold together at every point of the serve loop
\* (ReplServer.cpp: get_msg; Main.cpp: serve_loop).
THEOREM Invariant == ASSUME NoResets PROVE Spec => []IInv
<1>1. Init => IInv
  BY InitInv
<1>2. IInv /\ [Next]_vars => IInv'
  BY NextInv
<1> QED BY <1>1, <1>2, PTL DEF Spec

\* client_sockets is exactly the open connections, at most max_clients of them, for
\* any number of clients, any limit and any interleaving of connects, requests,
\* closes, timeouts and failed writes (ReplServer.cpp: get_msg, ping_response).
THEOREM Tracking == ASSUME NoResets PROVE Spec => []TracksExactly
<1>1. IInv => TracksExactly
  BY Implied
<1> QED BY <1>1, Invariant, PTL

\* Each message that get_msg returns is the next request of the client it names, for
\* any number of clients and requests and however their bytes arrive
\* (ReplServer.cpp: get_msg).
THEOREM InOrder == ASSUME NoResets PROVE Spec => []RequestsInOrder
<1>1. IInv => RequestsInOrder
  BY Implied
<1> QED BY <1>1, Invariant, PTL

\* The server closes a connection it serves only when the client has closed its end,
\* sent a header with a negative length, or has bytes of a message under way that are
\* late: it never waits for bytes that were not sent (ReplServer.cpp: get_msg,
\* send_result).
THEOREM DropsForCause == ASSUME NoResets PROVE Spec => DroppedForCause
<1> DEFINE Cause(c) == \/ conn[c] = "shut"
                       \/ up[c] = <<>> /\ flight[c] # <<>>
                       \/ up[c] # <<>> /\ Head(up[c]).kind = "bad"
           A == \A c \in Socks : fd[c] = "open" /\ fd'[c] = "closed" => Cause(c)
<1>1. ASSUME IInv, [Next]_vars PROVE A
  <2> SUFFICES ASSUME NEW c \in Socks, fd[c] = "open", fd'[c] = "closed"
               PROVE  Cause(c)
    OBVIOUS
  <2>1. fd \in [Socks -> {"none", "open", "closed"}]
    BY <1>1 DEF IInv, TypeInv
  <2>2. ASSUME NEW d, Drop(d) PROVE d = c
    BY <2>1, <2>2 DEF Drop
  <2>3. ASSUME NEW d \in Socks, Accept(d) PROVE FALSE
    <3>1. d # c
      BY <2>3 DEF Accept, Backlog
    <3> QED BY <2>1, <2>3, <3>1 DEF Accept
  <2>4. CASE ScanEof
    BY <2>2, <2>4 DEF ScanEof, Eof
  <2>5. CASE Missing
    <3>1. msg.sock = c /\ up[c] = <<>> /\ pc \in {"header", "body"}
      BY <2>2, <2>5 DEF Missing
    <3>2. Want(c) # Start
      BY <1>1, <3>1 DEF IInv, MsgInv, Want, Start
    <3>3. Rest(c) # <<>>
      BY <1>1, <3>2 DEF IInv, StreamInv, Stream
    <3>4. flight[c] # <<>>
      BY <3>1, <3>3 DEF Rest
    <3> QED BY <3>1, <3>4
  <2>6. CASE Serve
    BY <2>2, <2>6 DEF Serve
  <2>7. CASE Ping
    BY <2>7 DEF Ping, NoResets
  <2>8. ASSUME NEW d, NEW g, up[d] # <<>>, HeaderCell(d, g) PROVE Cause(c)
    <3>1. Drop(d) /\ Head(up[d]).kind = "bad"
      BY <2>8 DEF HeaderCell
    <3> QED BY <2>2, <2>8, <3>1
  <2>9. CASE ScanHeader \/ ReadHeader
    BY <2>8, <2>9 DEF ScanHeader, ReadHeader
  <2>10. ASSUME NEW d \in Socks, ClientStep(d) PROVE UNCHANGED fd
    BY <2>10 DEF ClientStep, Connect, EvalSend, EvalNoResponse, SendPing, SendBad, Send, Close,
       EvalReturns, EvalRefuses, EvalDisconnects, Return, Arrive, server
  <2>11. Select \/ ScanDone \/ ReadBody \/ Tick \/ TimePasses \/ UNCHANGED vars
         => UNCHANGED fd
    BY DEF Select, ScanDone, ReadBody, Tick, TimePasses, vars, server
  <2> QED BY <1>1, <2>3, <2>4, <2>5, <2>6, <2>7, <2>9, <2>10, <2>11 DEF Next, ServerStep
<1>2. IInv /\ [Next]_vars => [A]_vars
  BY <1>1
<1> QED BY <1>2, Invariant, PTL DEF Spec, DroppedForCause
=============================================================================
