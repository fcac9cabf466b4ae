-------------------------- MODULE TransitionProofs --------------------------
(***************************************************************************)
(* Proofs about Transition.tla, for any set of states and any nesting, as  *)
(* long as neither an enter nor a post handler calls go-state: what those  *)
(* two break is shown by TransitionEnter.cfg and TransitionPost.cfg.       *)
(***************************************************************************)
EXTENDS Transition, SequenceTheorems, TLAPS

Guarded == "enter" \notin Callers /\ "post" \notin Callers

\* A transition handler knows where its transition goes.
ToInv ==
  \A i \in DOMAIN stack : stack[i].h \in {"enter", "exit"} => stack[i].to \in States

\* Only an enter handler runs inside another, which is an exit handler.
ShapeInv ==
  \A i \in DOMAIN stack : i > 1 => i = 2 /\ stack[i].h = "enter" /\ stack[1].h = "exit"

\* The StateFrame is missing only while the exit handler runs that belonged to
\* it, which has not been followed by another transition while it is live.
FrameInv ==
  /\ frames = <<state>> \/ (frames = <<>> /\ stack # <<>> /\ Top.h = "exit")
  /\ stack # <<>> /\ Top.h = "exit" /\ vmLive => frames = <<>>

\* The code is out of step with the state only while the enter handler of the
\* transition that will rebuild it runs.
CodeInv ==
  /\ stack # <<>> /\ Top.h = "enter" => Top.to = state
  /\ code \in {state, NoState} \/ (stack # <<>> /\ Top.h = "enter")

\* The handlers that call go-state in a quantum do so as RUNNING, so it is
\* deferred, and run in the step of execute_quantum that is theirs.
StatusInv ==
  stack # <<>> =>
    /\ Top.h = "trans" => status = "RUNNING"
    /\ Top.h = "code" /\ vmLive => status = "RUNNING"
    /\ Top.h \in {"trans", "code", "post"} => step = Top.h

\* The state the process asked for last is where it is, what next_state holds, or
\* where the deferred transition under way goes.
LastInv ==
  last # NoState =>
    /\ Len(stack) <= 1
    /\ step = "deferred" =>
         IF stack = <<>> THEN state = last
                         ELSE Top.h \in {"enter", "exit"} /\ Top.to = last
    /\ step # "deferred" =>
         /\ next = last \/ (next = NoState /\ state = last)
         /\ stack # <<>> => Top.h # "exit"

IInv ==
  TypeOK /\ ToInv /\ ShapeInv /\ FrameInv /\ CodeInv /\ StatusInv /\ LastInv

(***************************************************************************)
(* The stack of handlers is empty, one handler, or an enter handler inside *)
(* an exit handler.                                                        *)
(***************************************************************************)
LEMMA StackShape ==
  ASSUME TypeOK, ShapeInv
  PROVE  \/ stack = <<>>
         \/ stack = <<Top>> /\ Len(stack) = 1 /\ Top = stack[1] /\ Top \in Calls
              /\ Front(stack) = <<>>
         \/ \E d \in Calls :
              /\ stack = <<d, Top>> /\ Len(stack) = 2 /\ d = stack[1] /\ Top = stack[2]
              /\ Top \in Calls /\ Front(stack) = <<d>>
              /\ d.h = "exit" /\ Top.h = "enter"
<1>1. stack \in Seq(Calls) /\ Len(stack) \in Nat
  BY DEF TypeOK
<1>2. Len(stack) \in {0, 1, 2}
  <2>1. ASSUME Len(stack) > 2 PROVE FALSE
    <3>1. 3 \in DOMAIN stack
      BY <1>1, <2>1
    <3> QED BY <3>1 DEF ShapeInv
  <2>2. ASSUME NEW n \in Nat, ~(n > 2) PROVE n \in {0, 1, 2}
    BY <2>2
  <2> QED BY <1>1, <2>1, <2>2
<1>3. CASE Len(stack) = 0
  BY <1>1, <1>3
<1>4. CASE Len(stack) = 1
  BY <1>1, <1>4 DEF Top, Last, Front
<1>5. CASE Len(stack) = 2
  <2> DEFINE d == stack[1]
  <2>1. 2 \in DOMAIN stack /\ d \in Calls /\ stack[2] \in Calls
    BY <1>1, <1>5
  <2>2. Top = stack[2]
    BY <1>5 DEF Top, Last
  <2>3. stack = <<d, stack[2]>>
    BY <1>1, <1>5
  <2>4. Front(stack) = <<d>>
    <3> DEFINE f == SubSeq(stack, 1, 1)
    <3>1. f \in Seq(Calls) /\ Len(f) = 1 /\ f[1] = d
      <4>1. \A i \in 1 .. 1 : stack[i] \in Calls
        BY <2>1
      <4> QED BY <4>1, SubSeqProperties
    <3>2. <<d>> \in Seq(Calls) /\ Len(<<d>>) = 1 /\ <<d>>[1] = d
      BY <2>1
    <3>3. \A i \in 1 .. Len(f) : f[i] = <<d>>[i]
      BY <3>1, <3>2
    <3> HIDE DEF f
    <3>4. f = <<d>>
      BY <3>1, <3>2, <3>3, SeqEqual
    <3> QED BY <1>5, <3>4 DEF Front, f
  <2>5. d.h = "exit" /\ stack[2].h = "enter"
    BY <2>1 DEF ShapeInv
  <2> QED BY <1>5, <2>1, <2>2, <2>3, <2>4, <2>5
<1> QED BY <1>2, <1>3, <1>4, <1>5

\* spawn establishes the invariant.
LEMMA InitIInv == ASSUME Init PROVE IInv
<1> DEFINE c == Call("enter", Initial, Initial)
<1>1. stack = <<c>> /\ Len(stack) = 1 /\ Top = c /\ stack[1] = c /\ DOMAIN stack = {1}
  BY DEF Init, Top, Last
<1>2. c \in Calls /\ c.h = "enter" /\ c.to = Initial
  BY TransitionAssumption DEF Call, Calls
<1>3. TypeOK
  BY <1>1, <1>2, TransitionAssumption DEF Init, TypeOK
<1>4. ToInv /\ ShapeInv /\ FrameInv /\ CodeInv /\ StatusInv /\ LastInv
  BY <1>1, <1>2, TransitionAssumption
     DEF Init, ToInv, ShapeInv, FrameInv, CodeInv, StatusInv, LastInv
<1> QED BY <1>3, <1>4 DEF IInv

(***************************************************************************)
(* What the invariant asks of a step, by the stack of handlers it leaves.  *)
(***************************************************************************)
FieldsOK ==
  /\ status \in {"DEAD", "READY", "RUNNING", "SUSPENDED"}
  /\ state \in States /\ next \in States \cup {NoState} /\ last \in States \cup {NoState}
  /\ frames \in Seq(States) /\ code \in States \cup {NoState}
  /\ vmLive \in BOOLEAN
  /\ step \in {"idle", "deferred", "trans", "code", "post"}

Settled == next = last \/ (next = NoState /\ state = last)

LEMMA NoHandlerLeft ==
  ASSUME FieldsOK', stack' = <<>>, frames' = <<state'>>, code' \in {state', NoState},
         last' # NoState => IF step' = "deferred" THEN state' = last' ELSE Settled'
  PROVE  IInv'
<1>1. Len(stack') = 0 /\ DOMAIN stack' = {} /\ stack' \in Seq(Calls)
  OBVIOUS
<1>2. TypeOK'
  BY <1>1 DEF TypeOK, FieldsOK
<1>3. ToInv' /\ ShapeInv' /\ FrameInv' /\ CodeInv' /\ StatusInv'
  BY <1>1 DEF ToInv, ShapeInv, FrameInv, CodeInv, StatusInv
<1>4. LastInv'
  BY <1>1 DEF LastInv, Settled
<1> QED BY <1>2, <1>3, <1>4 DEF IInv

LEMMA OneHandlerLeft ==
  ASSUME FieldsOK', NEW c \in Calls, stack' = <<c>>,
         c.h \in {"enter", "exit"} => c.to \in States,
         frames' = <<state'>> \/ (frames' = <<>> /\ c.h = "exit"),
         c.h = "exit" /\ vmLive' => frames' = <<>>,
         c.h = "enter" => c.to = state',
         code' \in {state', NoState} \/ c.h = "enter",
         c.h = "trans" => status' = "RUNNING",
         c.h = "code" /\ vmLive' => status' = "RUNNING",
         c.h \in {"trans", "code", "post"} => step' = c.h,
         last' # NoState =>
           IF step' = "deferred" THEN c.h \in {"enter", "exit"} /\ c.to = last'
                                 ELSE Settled' /\ c.h # "exit"
  PROVE  IInv'
<1>1. /\ Len(stack') = 1 /\ DOMAIN stack' = {1} /\ stack' \in Seq(Calls)
      /\ stack'[1] = c /\ stack' # <<>>
  OBVIOUS
<1>2. Top' = c
  BY <1>1 DEF Top, Last
<1>3. TypeOK'
  BY <1>1 DEF TypeOK, FieldsOK
<1>4. ToInv' /\ ShapeInv'
  BY <1>1 DEF ToInv, ShapeInv
<1>5. FrameInv' /\ CodeInv'
  BY <1>1, <1>2 DEF FrameInv, CodeInv
<1>6. StatusInv'
  BY <1>2 DEF StatusInv
<1>7. LastInv'
  BY <1>1, <1>2 DEF LastInv, Settled
<1> QED BY <1>3, <1>4, <1>5, <1>6, Zenon, <1>7 DEF IInv

LEMMA EnterInExitLeft ==
  ASSUME FieldsOK', NEW d \in Calls, NEW c \in Calls, stack' = <<d, c>>,
         d.h = "exit", d.to \in States, c.h = "enter", c.to = state',
         frames' = <<state'>>, last' = NoState
  PROVE  IInv'
<1>1. /\ Len(stack') = 2 /\ DOMAIN stack' = {1, 2} /\ stack' \in Seq(Calls)
      /\ stack'[1] = d /\ stack'[2] = c /\ stack' # <<>>
  OBVIOUS
<1>2. Top' = c
  BY <1>1 DEF Top, Last
<1>3. TypeOK'
  BY <1>1 DEF TypeOK, FieldsOK
<1>4. ToInv' /\ ShapeInv'
  BY <1>1 DEF ToInv, ShapeInv, FieldsOK
<1>5. FrameInv' /\ CodeInv'
  BY <1>1, <1>2 DEF FrameInv, CodeInv
<1>6. StatusInv' /\ LastInv'
  BY <1>2 DEF StatusInv, LastInv
<1> QED BY <1>3, <1>4, <1>5, <1>6, Zenon DEF IInv

LEMMA SameHandlers ==
  ASSUME IInv, FieldsOK', UNCHANGED <<stack, state, frames, step>>, vmLive' => vmLive,
         code' \in {code, NoState},
         stack # <<>> /\ Top.h = "trans" => status' = "RUNNING",
         stack # <<>> /\ Top.h = "code" /\ vmLive' => status' = "RUNNING",
         \/ UNCHANGED <<next, last>>
         \/ last' = NoState
         \/ step # "deferred" /\ next' = last' /\ Len(stack) <= 1
              /\ (stack # <<>> => Top.h # "exit")
  PROVE  IInv'
<1>1. Top' = Top
  BY DEF Top
<1>2. TypeOK'
  BY DEF IInv, TypeOK, FieldsOK
<1>3. ToInv' /\ ShapeInv'
  BY DEF IInv, ToInv, ShapeInv
<1>4. FrameInv' /\ CodeInv'
  BY <1>1 DEF IInv, FrameInv, CodeInv
<1>5. StatusInv'
  BY <1>1 DEF IInv, StatusInv
<1>6. LastInv'
  BY <1>1 DEF IInv, LastInv
<1> QED BY <1>2, <1>3, <1>4, <1>5, <1>6 DEF IInv

(***************************************************************************)
(* The steps.                                                              *)
(***************************************************************************)
\* A round of a transition that no handler is waiting for.
LEMMA TransitStep ==
  ASSUME IInv, NEW to \in States, Transit(<<>>, to),
         stack # <<>> => Top.h # "enter",
         code' = code, status' \in {"DEAD", "READY", "RUNNING", "SUSPENDED"},
         next' \in States \cup {NoState}, last' \in States \cup {NoState},
         step' \in {"idle", "deferred", "trans", "code", "post"},
         last' # NoState => step' = "deferred" /\ to = last'
  PROVE  IInv'
<1>1. code \in {state, NoState} /\ state \in States /\ code \in States \cup {NoState}
  BY DEF IInv, CodeInv, TypeOK
<1>2. CASE frames # <<>>
  <2> DEFINE c == Call("exit", state, to)
  <2>1. frames = <<state>>
    BY <1>2 DEF IInv, FrameInv
  <2>2. Head(frames) = state /\ Tail(frames) = <<>>
    BY <2>1
  <2>3. c \in Calls /\ c.h = "exit" /\ c.to = to
    BY <1>1 DEF Call, Calls
  <2>4. vmLive' = TRUE /\ frames' = <<>> /\ stack' = Append(<<>>, c) /\ state' = state
    BY <1>2, <2>2 DEF Transit
  <2> HIDE DEF c
  <2>5. stack' = <<c>>
    BY <2>4
  <2>6. FieldsOK'
    BY <1>1, <2>4 DEF FieldsOK
  <2> QED BY <1>1, <2>3, <2>4, <2>5, <2>6, OneHandlerLeft
<1>3. CASE frames = <<>>
  <2> DEFINE c == Call("enter", to, to)
  <2>1. c \in Calls /\ c.h = "enter" /\ c.to = to
    BY DEF Call, Calls
  <2>2. vmLive' = TRUE /\ frames' = <<to>> /\ stack' = Append(<<>>, c) /\ state' = to
    BY <1>3 DEF Transit
  <2> HIDE DEF c
  <2>3. stack' = <<c>>
    BY <2>2
  <2>4. FieldsOK'
    BY <1>1, <2>2 DEF FieldsOK
  <2> QED BY <2>1, <2>2, <2>3, <2>4, OneHandlerLeft
<1> QED BY <1>2, <1>3

\* go-state called by a handler: deferred in a quantum, made at once by an exit
\* handler, whose StateFrame is gone already.
LEMMA NativeGoStateStep ==
  ASSUME IInv, Guarded, NEW to \in States, NativeGoState(to)
  PROVE  IInv'
<1>1. TypeOK /\ ShapeInv
  BY DEF IInv
<1>2. stack # <<>> /\ vmLive /\ Top.h \notin {"enter", "post"}
  BY DEF NativeGoState, Guarded
<1>3. stack = <<Top>> /\ Len(stack) = 1 /\ Top = stack[1] /\ Top \in Calls
  BY <1>1, <1>2, StackShape, Zenon
<1>4. Top.h \in {"exit", "trans", "code"}
  BY <1>2, <1>3 DEF Calls
<1>5. UNCHANGED <<status, code, step>>
  BY DEF NativeGoState, GoState
<1>6. CASE Top.h \in {"trans", "code"}
  <2>1. status = "RUNNING" /\ step # "deferred"
    BY <1>2, <1>6 DEF IInv, StatusInv
  <2>2. next' = to /\ last' = to /\ UNCHANGED <<frames, stack, vmLive, state>>
    BY <1>2, <1>6, <2>1 DEF NativeGoState, GoState, Defers, Asked
  <2>3. FieldsOK'
    BY <1>1, <1>5, <2>2 DEF FieldsOK, TypeOK
  <2> QED BY <1>3, <1>5, <1>6, <2>1, <2>2, <2>3, SameHandlers
<1>7. CASE Top.h = "exit"
  <2>1. last' = NoState
    BY <1>7 DEF NativeGoState, GoState, Asked
  <2>2. CASE Defers
    <3>1. next' = to /\ UNCHANGED <<frames, stack, vmLive, state>>
      BY <2>2 DEF NativeGoState, GoState
    <3>2. FieldsOK'
      BY <1>1, <1>5, <2>1, <3>1 DEF FieldsOK, TypeOK
    <3> QED BY <1>5, <1>7, <2>1, <3>1, <3>2, SameHandlers
  <2>3. CASE ~Defers
    <3> DEFINE c == Call("enter", to, to)
    <3>1. frames = <<>>
      BY <1>2, <1>7 DEF IInv, FrameInv
    <3>2. Transit(stack, to) /\ next' = next
      BY <2>3 DEF NativeGoState, GoState
    <3>3. vmLive' = TRUE /\ frames' = <<to>> /\ stack' = Append(stack, c) /\ state' = to
      BY <3>1, <3>2 DEF Transit
    <3>4. c \in Calls /\ c.h = "enter" /\ c.to = to
      BY DEF Call, Calls
    <3> HIDE DEF c
    <3>5. stack' = <<Top, c>>
      <4>1. ASSUME NEW x \in Calls, NEW y \in Calls PROVE Append(<<x>>, y) = <<x, y>>
        <5>1. /\ Append(<<x>>, y) \in Seq(Calls) /\ Len(Append(<<x>>, y)) = 2
              /\ Append(<<x>>, y)[1] = x /\ Append(<<x>>, y)[2] = y
          OBVIOUS
        <5>2. /\ <<x, y>> \in Seq(Calls) /\ Len(<<x, y>>) = 2
              /\ <<x, y>>[1] = x /\ <<x, y>>[2] = y
          OBVIOUS
        <5>3. \A i \in 1 .. 2 : Append(<<x>>, y)[i] = <<x, y>>[i]
          BY <5>1, <5>2
        <5> QED BY <5>1, <5>2, <5>3, SeqEqual
      <4>2. stack' = Append(<<Top>>, c)
        BY <1>3, <3>3, Zenon
      <4> QED BY <1>3, <3>4, <4>1, <4>2, Zenon
    <3>6. FieldsOK'
      BY <1>1, <1>5, <2>1, <3>2, <3>3 DEF FieldsOK, TypeOK
    <3>7. Top.to \in States
      BY <1>3, <1>7 DEF IInv, ToInv
    <3> QED BY <1>3, <1>7, <2>1, <3>3, <3>4, <3>5, <3>6, <3>7, EnterInExitLeft
  <2> QED BY <2>2, <2>3
<1> QED BY <1>4, <1>6, <1>7

\* go-state called by the host between two quanta.
LEMMA OtherGoStateStep ==
  ASSUME IInv, NEW to \in States, OtherGoState(to)
  PROVE  IInv'
<1>1. stack = <<>> /\ last' = NoState /\ UNCHANGED <<status, code, step>>
  BY DEF OtherGoState, GoState, Asked
<1>2. TypeOK
  BY DEF IInv
<1>3. CASE Defers
  <2>1. next' = to /\ UNCHANGED <<frames, stack, vmLive, state>>
    BY <1>3 DEF OtherGoState, GoState
  <2>2. FieldsOK'
    BY <1>1, <1>2, <2>1 DEF FieldsOK, TypeOK
  <2> QED BY <1>1, <2>1, <2>2, SameHandlers
<1>4. CASE ~Defers
  <2>1. Transit(<<>>, to) /\ next' = next
    BY <1>1, <1>4 DEF OtherGoState, GoState
  <2> QED BY <1>1, <1>2, <2>1, TransitStep DEF TypeOK
<1> QED BY <1>3, <1>4

\* A handler returns, or sleeps, or the sleep ends.
LEMMA SameStackSteps ==
  ASSUME IInv, HandlerReturn \/ Sleep \/ Wake
  PROVE  IInv'
<1>1. TypeOK
  BY DEF IInv
<1>2. CASE HandlerReturn
  <2>1. FieldsOK' /\ vmLive' = FALSE /\ code' \in {code, NoState}
    BY <1>1, <1>2 DEF HandlerReturn, FieldsOK, TypeOK
  <2> QED BY <1>2, <2>1, SameHandlers DEF HandlerReturn, IInv, StatusInv
<1>3. CASE Sleep
  <2>1. FieldsOK' /\ vmLive' = FALSE /\ code' = code /\ Top.h = "code"
    BY <1>1, <1>3 DEF Sleep, FieldsOK, TypeOK
  <2> QED BY <1>3, <2>1, SameHandlers DEF Sleep
<1>4. CASE Wake
  <2>1. FieldsOK' /\ vmLive' = vmLive /\ code' = code /\ stack = <<>>
    BY <1>1, <1>4 DEF Wake, FieldsOK, TypeOK
  <2> QED BY <1>4, <2>1, SameHandlers DEF Wake
<1> QED BY <1>2, <1>3, <1>4

\* The exit handler is over: it was alone, and its transition goes on.
LEMMA AfterExitStep ==
  ASSUME IInv, AfterExit
  PROVE  IInv'
<1>1. TypeOK /\ ShapeInv /\ stack # <<>> /\ Top.h = "exit"
  BY DEF IInv, AfterExit
<1>2. Len(stack) = 1 /\ Top = stack[1] /\ Front(stack) = <<>>
  BY <1>1, StackShape, Zenon
<1>3. Top.to \in States
  BY <1>1, <1>2 DEF IInv, ToInv
<1>4. Transit(<<>>, Top.to) /\ UNCHANGED <<status, next, code, step, last>>
  BY <1>2 DEF AfterExit
<1>5. last' # NoState => step' = "deferred" /\ Top.to = last'
  BY <1>1, <1>4 DEF IInv, LastInv
<1> QED BY <1>1, <1>3, <1>4, <1>5, TransitStep DEF TypeOK

\* The enter handler is over: the code is that of the state it entered.
LEMMA AfterEnterStep ==
  ASSUME IInv, AfterEnter
  PROVE  IInv'
<1>1. TypeOK /\ ShapeInv /\ stack # <<>> /\ Top.h = "enter"
  BY DEF IInv, AfterEnter
<1>2. Top.to = state /\ frames = <<state>>
  BY <1>1 DEF IInv, CodeInv, FrameInv
<1>3. /\ code' = state /\ stack' = Front(stack) /\ vmLive' = FALSE
      /\ UNCHANGED <<state, next, frames, vmLive, step, last>>
  BY <1>1, <1>2 DEF AfterEnter, TypeOK
<1>4. status' \in {"DEAD", "READY", "RUNNING", "SUSPENDED"}
  BY <1>1 DEF AfterEnter, TypeOK
<1>5. FieldsOK'
  BY <1>1, <1>3, <1>4 DEF FieldsOK, TypeOK
<1>6. CASE Front(stack) = <<>>
  <2>1. last' # NoState => IF step' = "deferred" THEN state' = last' ELSE Settled'
    BY <1>1, <1>2, <1>3 DEF IInv, LastInv, Settled
  <2> QED BY <1>2, <1>3, <1>5, <1>6, <2>1, NoHandlerLeft
<1>7. ASSUME NEW d \in Calls, Front(stack) = <<d>>, Len(stack) = 2,
             d = stack[1], d.h = "exit"
      PROVE  IInv'
  <2>1. last = NoState
    BY <1>7 DEF IInv, LastInv
  <2>2. d.to \in States
    BY <1>1, <1>7 DEF IInv, ToInv, TypeOK
  <2> QED BY <1>2, <1>3, <1>5, <1>7, <2>1, <2>2, OneHandlerLeft
<1> QED BY <1>1, <1>6, <1>7, StackShape

\* execute_quantum: the deferred transition, and what follows it.
LEMMA QuantumDeferredStep ==
  ASSUME IInv, QuantumDeferred
  PROVE  IInv'
<1>1. TypeOK /\ stack = <<>> /\ step = "idle" /\ next \in States
  BY DEF IInv, QuantumDeferred, TypeOK
<1>2. Transit(<<>>, next) /\ step' = "deferred" /\ UNCHANGED <<status, next, code, last>>
  BY DEF QuantumDeferred
<1>3. last' # NoState => next = last'
  BY <1>1, <1>2, TransitionAssumption DEF IInv, LastInv
<1> QED BY <1>1, <1>2, <1>3, TransitStep DEF TypeOK

LEMMA StartStep ==
  ASSUME IInv, QuantumTransited \/ QuantumRun
  PROVE  IInv'
<1> DEFINE c == Call("trans", state, NoState)
<1>1. TypeOK /\ stack = <<>> /\ frames = <<state>> /\ code \in {state, NoState}
  BY DEF IInv, FrameInv, CodeInv, QuantumTransited, QuantumRun
<1>2. /\ status' = "RUNNING" /\ step' = "trans" /\ vmLive' = TRUE
      /\ stack' = Append(<<>>, c) /\ next' = NoState
      /\ UNCHANGED <<state, frames, code, last>>
  BY <1>1 DEF QuantumTransited, QuantumRun, Start, Push
<1>3. c \in Calls /\ c.h = "trans"
  BY <1>1 DEF Call, Calls, TypeOK
<1>4. last' # NoState => Settled'
  BY <1>1, <1>2, TransitionAssumption
     DEF IInv, LastInv, Settled, QuantumTransited, QuantumRun, TypeOK
<1> HIDE DEF c
<1>5. stack' = <<c>> /\ FieldsOK'
  BY <1>1, <1>2 DEF FieldsOK, TypeOK
<1> QED BY <1>1, <1>2, <1>3, <1>4, <1>5, OneHandlerLeft

LEMMA AfterTransStep ==
  ASSUME IInv, AfterTrans
  PROVE  IInv'
<1> DEFINE c == Call("code", code, NoState)
<1>1. /\ TypeOK /\ stack # <<>> /\ Top.h = "trans" /\ step = "trans"
      /\ frames = <<state>> /\ code \in {state, NoState} /\ status = "RUNNING"
  BY DEF IInv, FrameInv, CodeInv, StatusInv, AfterTrans
<1>2. /\ step' = "code" /\ UNCHANGED <<status, state, next, frames, code, last>>
      /\ vmLive' = (code # NoState)
      /\ stack' = IF code # NoState THEN <<c>> ELSE <<>>
  BY DEF AfterTrans
<1>3. last' # NoState => Settled'
  BY <1>1, <1>2 DEF IInv, LastInv, Settled
<1>4. FieldsOK'
  BY <1>1, <1>2 DEF FieldsOK, TypeOK
<1>5. CASE code # NoState
  <2>1. c \in Calls /\ c.h = "code"
    BY <1>1, <1>5 DEF Call, Calls, TypeOK
  <2> HIDE DEF c
  <2> QED BY <1>1, <1>2, <1>3, <1>4, <1>5, <2>1, OneHandlerLeft
<1>6. CASE code = NoState
  BY <1>1, <1>2, <1>3, <1>4, <1>6, NoHandlerLeft
<1> QED BY <1>5, <1>6

LEMMA AfterCodeStep ==
  ASSUME IInv, AfterCode
  PROVE  IInv'
<1> DEFINE c == Call("post", state, NoState)
<1>1. TypeOK /\ step = "code" /\ (stack = <<>> \/ Top.h = "code")
  BY DEF IInv, AfterCode
<1>2. frames = <<state>> /\ code \in {state, NoState}
  BY <1>1 DEF IInv, FrameInv, CodeInv
<1>3. /\ step' = "post" /\ vmLive' = TRUE /\ stack' = <<c>>
      /\ UNCHANGED <<status, state, next, frames, code, last>>
  BY DEF AfterCode
<1>4. last' # NoState => Settled'
  BY <1>1, <1>3 DEF IInv, LastInv, Settled
<1>5. FieldsOK' /\ c \in Calls /\ c.h = "post"
  BY <1>1, <1>3 DEF FieldsOK, TypeOK, Call, Calls
<1> HIDE DEF c
<1> QED BY <1>2, <1>3, <1>4, <1>5, OneHandlerLeft

LEMMA AfterPostStep ==
  ASSUME IInv, AfterPost
  PROVE  IInv'
<1>1. TypeOK /\ step = "post" /\ stack # <<>> /\ Top.h = "post"
  BY DEF IInv, AfterPost
<1>2. frames = <<state>> /\ code \in {state, NoState}
  BY <1>1 DEF IInv, FrameInv, CodeInv
<1>3. /\ step' = "idle" /\ stack' = <<>> /\ status' \in {status, "READY"}
      /\ UNCHANGED <<state, next, frames, code, vmLive, last>>
  BY DEF AfterPost
<1>4. last' # NoState => Settled'
  BY <1>1, <1>3 DEF IInv, LastInv, Settled
<1>5. FieldsOK'
  BY <1>1, <1>3 DEF FieldsOK, TypeOK
<1> QED BY <1>2, <1>3, <1>4, <1>5, NoHandlerLeft

LEMMA NextIInv ==
  ASSUME Guarded
  PROVE  IInv /\ [Next]_vars => IInv'
<1> SUFFICES ASSUME IInv, [Next]_vars PROVE IInv'
  OBVIOUS
<1>1. ASSUME NEW to \in States, NativeGoState(to) \/ OtherGoState(to) PROVE IInv'
  BY <1>1, NativeGoStateStep, OtherGoStateStep
<1>2. CASE UNCHANGED vars
  <2>1. FieldsOK'
    BY <1>2 DEF IInv, TypeOK, FieldsOK, vars
  <2> QED BY <1>2, <2>1, SameHandlers DEF vars, IInv, StatusInv
<1> QED
  BY <1>1, <1>2, SameStackSteps, AfterExitStep, AfterEnterStep, QuantumDeferredStep,
     StartStep, AfterTransStep, AfterCodeStep, AfterPostStep DEF Next

(***************************************************************************)
(* The theorems, when no enter or post handler calls go-state.             *)
(***************************************************************************)
\* The inductive invariant holds in every state a process can be in.
THEOREM Invariant ==
  ASSUME Guarded
  PROVE  Spec => []IInv
<1>1. Init => IInv
  BY InitIInv
<1>2. IInv /\ [Next]_vars => IInv'
  BY NextIInv
<1> QED BY <1>1, <1>2, PTL DEF Spec

\* Between handlers a process has one StateFrame, that of its state, and
\* main_thread runs that state's code (Process::execute_deferred_transition),
\* however transitions were asked for and nested.
THEOREM StateExact ==
  ASSUME Guarded
  PROVE  Spec => []StateFits
<1>1. IInv => StateFits
  BY DEF IInv, FrameInv, CodeInv, StateFits, OneStateFrame, CodeOfState
<1> QED BY <1>1, Invariant, PTL

\* No transition pops the StateFrame of a handler in progress (Process::go_state).
THEOREM NothingTornDown ==
  ASSUME Guarded
  PROVE  Spec => []NoTearDown
<1>1. IInv => NoTearDown
  <2> SUFFICES ASSUME IInv, NEW i \in DOMAIN stack, NEW j \in DOMAIN stack,
                      i < j, stack[j].h = "exit"
               PROVE  FALSE
    BY DEF NoTearDown
  <2>1. j > 1
    BY DEF IInv, TypeOK
  <2> QED BY <2>1 DEF IInv, ShapeInv
<1> QED BY <1>1, Invariant, PTL

\* A quantum runs in the state the process itself asked for last, unless somebody
\* else has asked since (the deferred transition of Process::execute_quantum).
THEOREM RequestsInTurn ==
  ASSUME Guarded
  PROVE  Spec => []LastRequestWins
<1>1. IInv => LastRequestWins
  BY DEF IInv, LastInv, LastRequestWins
<1> QED BY <1>1, Invariant, PTL
=============================================================================
