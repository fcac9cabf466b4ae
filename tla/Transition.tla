---------------------------- MODULE Transition ----------------------------
(***************************************************************************)
(* The state machine of one process: Process::go_state, deferred and       *)
(* immediate transitions, the enter and exit handlers they run, and the    *)
(* quantum that applies them (kernel/Process.cpp, vm/StateFrame.cpp).      *)
(*                                                                         *)
(* Every state has all handlers.  A handler may ask for a transition any   *)
(* number of times; one that is run at once runs handlers in the same VM,  *)
(* so when control comes back the caller's current_frame is gone and the   *)
(* caller is over (see Quantum.tla).                                       *)
(***************************************************************************)
EXTENDS Naturals, Sequences, SequencesExt

CONSTANTS
  States,    \* states of the process's script
  Initial,   \* its initial state
  NoState,   \* nullptr
  Callers,   \* who calls go-state: handlers of the process, or the "host"
  Sleepers,  \* handlers that call sleep
  MaxDepth   \* bound: handlers nested in one another

ASSUME TransitionAssumption == Initial \in States /\ NoState \notin States /\ MaxDepth \in Nat

VARIABLES
  status,    \* Process::status
  state,     \* current_state
  next,      \* next_state
  frames,    \* the StateFrames on stack_frame_top, innermost first
  code,      \* main_thread: the state whose code block it runs
  stack,     \* handlers in progress, innermost last
  vmLive,    \* the VM still has the frame of the innermost handler
  step,      \* where execute_quantum is
  last       \* history: the state the process's own code asked for last, NoState
             \* once the host or an enter or exit handler has asked for another

vars == <<status, state, next, frames, code, stack, vmLive, step, last>>

\* A handler h of state s; `to` is the transition that runs it, if any.
Call(h, s, to) == [h |-> h, s |-> s, to |-> to]
Top == Last(stack)

Push(c) == stack' = Append(stack, c) /\ vmLive' = TRUE

\* spawn: the initial state is set and its enter handler runs; status is DEAD.
Init ==
  /\ status = "DEAD" /\ state = Initial /\ next = NoState
  /\ frames = <<Initial>> /\ code = NoState
  /\ stack = <<Call("enter", Initial, Initial)>> /\ vmLive = TRUE
  /\ step = "idle" /\ last = Initial

\* Mutant of Transit: current_state is reset together with its frame.
TransitReset(below, to) ==
  /\ vmLive' = TRUE
  /\ IF frames # <<>>
     THEN /\ frames' = Tail(frames)
          /\ stack' = Append(below, Call("exit", Head(frames), to))
          /\ state' = NoState
     ELSE /\ frames' = <<to>>
          /\ stack' = Append(below, Call("enter", to, to))
          /\ state' = to

\* Mutant of Transit: the old StateFrame is not popped.
TransitOnTop(below, to) ==
  /\ vmLive' = TRUE
  /\ frames' = <<to>> \o frames
  /\ stack' = Append(below, Call("enter", to, to))
  /\ state' = to

\* One round of execute_deferred_transition on top of the handlers `below`: the
\* innermost StateFrame is popped and its exit handler runs or, when none is
\* left, the new state is set and its enter handler runs.
Transit(below, to) ==
  /\ vmLive' = TRUE
  /\ IF frames # <<>>
     THEN /\ frames' = Tail(frames)
          /\ stack' = Append(below, Call("exit", Head(frames), to))
          /\ UNCHANGED state
     ELSE /\ frames' = <<to>>
          /\ stack' = Append(below, Call("enter", to, to))
          /\ state' = to

\* Mutant of Defers: a transition asked for by running code is made at once.
DefersNever == FALSE

\* go_state leaves the transition to the next quantum.
Defers == status = "RUNNING"

Asked(to) == IF stack # <<>> /\ Top.h \in {"trans", "code", "post"} THEN to ELSE NoState

\* Mutant of GoState: a request that is pending already is kept.
GoStateFirst(to) ==
  /\ last' = Asked(to)
  /\ IF Defers
     THEN /\ next' = IF next = NoState THEN to ELSE next
          /\ UNCHANGED <<frames, stack, vmLive, state>>
     ELSE Transit(stack, to) /\ UNCHANGED next
  /\ UNCHANGED <<status, code, step>>

GoState(to) ==
  /\ last' = Asked(to)
  /\ IF Defers
     THEN next' = to /\ UNCHANGED <<frames, stack, vmLive, state>>
     ELSE Transit(stack, to) /\ UNCHANGED next
  /\ UNCHANGED <<status, code, step>>

NativeGoState(to) ==
  /\ stack # <<>> /\ vmLive /\ Top.h \in Callers /\ Len(stack) < MaxDepth
  /\ GoState(to)

\* Another process, or the host, sends this one to a state between its quanta.
OtherGoState(to) ==
  /\ stack = <<>> /\ step = "idle" /\ "host" \in Callers
  /\ GoState(to)

\* A handler returns; or it is over because a nested one took its frame.
HandlerReturn ==
  /\ stack # <<>> /\ vmLive
  /\ vmLive' = FALSE
  /\ code' = IF Top.h = "code" THEN NoState ELSE code
  /\ UNCHANGED <<status, state, next, frames, stack, step, last>>

\* The exit handler is over: the transition goes on.
AfterExit ==
  /\ stack # <<>> /\ ~vmLive /\ Top.h = "exit"
  /\ Transit(Front(stack), Top.to)
  /\ UNCHANGED <<status, next, code, step, last>>

\* Mutant of AfterEnter: a main_thread that has not returned is kept.
AfterEnterKeepsCode ==
  /\ stack # <<>> /\ ~vmLive /\ Top.h = "enter"
  /\ code' = IF code = NoState THEN Top.to ELSE code
  /\ stack' = Front(stack)
  /\ status' = IF stack' = <<>> /\ status = "DEAD" THEN "READY" ELSE status
  /\ UNCHANGED <<state, next, frames, vmLive, step, last>>

\* The enter handler is over: main_thread is rebuilt from the code block of the
\* state this transition went to.  The first one ends spawn.
AfterEnter ==
  /\ stack # <<>> /\ ~vmLive /\ Top.h = "enter"
  /\ code' = Top.to
  /\ stack' = Front(stack)
  /\ status' = IF stack' = <<>> /\ status = "DEAD" THEN "READY" ELSE status
  /\ UNCHANGED <<state, next, frames, vmLive, step, last>>

(***************************************************************************)
(* execute_quantum                                                         *)
(***************************************************************************)
Start ==
  /\ status' = "RUNNING" /\ step' = "trans"
  /\ Push(Call("trans", state, NoState))

QuantumDeferred ==
  /\ step = "idle" /\ stack = <<>> /\ status = "READY" /\ next # NoState
  /\ Transit(<<>>, next)
  /\ step' = "deferred"
  /\ UNCHANGED <<status, next, code, last>>

QuantumTransited ==
  /\ step = "deferred" /\ stack = <<>>
  /\ next' = NoState
  /\ Start
  /\ UNCHANGED <<state, frames, code, last>>

QuantumRun ==
  /\ step = "idle" /\ stack = <<>> /\ status = "READY" /\ next = NoState
  /\ Start
  /\ UNCHANGED <<state, next, frames, code, last>>

\* trans is over: the code block runs, if it has not returned yet.
AfterTrans ==
  /\ step = "trans" /\ Len(stack) = 1 /\ ~vmLive /\ Top.h = "trans"
  /\ step' = "code"
  /\ stack' = IF code # NoState THEN <<Call("code", code, NoState)>> ELSE <<>>
  /\ vmLive' = (code # NoState)
  /\ UNCHANGED <<status, state, next, frames, code, last>>

AfterCode ==
  /\ step = "code" /\ ~vmLive
  /\ stack = <<>> \/ (Len(stack) = 1 /\ Top.h = "code")
  /\ step' = "post"
  /\ stack' = <<Call("post", state, NoState)>> /\ vmLive' = TRUE
  /\ UNCHANGED <<status, state, next, frames, code, last>>

AfterPost ==
  /\ step = "post" /\ Len(stack) = 1 /\ ~vmLive /\ Top.h = "post"
  /\ status' = IF status = "RUNNING" THEN "READY" ELSE status
  /\ stack' = <<>> /\ step' = "idle"
  /\ UNCHANGED <<state, next, frames, code, vmLive, last>>

\* sleep in the code block: SUSPENDED, and the VM parks the frame.
Sleep ==
  /\ stack # <<>> /\ vmLive /\ Top.h = "code" /\ "code" \in Sleepers
  /\ status' = "SUSPENDED"
  /\ vmLive' = FALSE
  /\ UNCHANGED <<state, next, frames, code, stack, step, last>>

\* The scheduler ends the sleep.
Wake ==
  /\ status = "SUSPENDED" /\ step = "idle" /\ stack = <<>>
  /\ status' = "READY"
  /\ UNCHANGED <<state, next, frames, code, stack, vmLive, step, last>>

Next ==
  \/ \E to \in States : NativeGoState(to) \/ OtherGoState(to)
  \/ HandlerReturn \/ AfterExit \/ AfterEnter
  \/ QuantumDeferred \/ QuantumTransited \/ QuantumRun
  \/ AfterTrans \/ AfterCode \/ AfterPost
  \/ Sleep \/ Wake

Spec == Init /\ [][Next]_vars

(***************************************************************************)
(* Properties                                                              *)
(***************************************************************************)
Calls == [h : {"enter", "exit", "trans", "code", "post"}, s : States, to : States \cup {NoState}]

\* The types of the process's fields.
TypeOK ==
  /\ status \in {"DEAD", "READY", "RUNNING", "SUSPENDED"}
  /\ state \in States /\ next \in States \cup {NoState} /\ last \in States \cup {NoState}
  /\ frames \in Seq(States) /\ code \in States \cup {NoState}
  /\ stack \in Seq(Calls) /\ vmLive \in BOOLEAN
  /\ step \in {"idle", "deferred", "trans", "code", "post"}

\* Between handlers there is exactly one StateFrame, that of current_state: exit
\* handlers and tracks belong to the state the process is in.
OneStateFrame == stack = <<>> => frames = <<state>>

\* The code that main_thread runs is the code block of current_state ("Rebuild
\* main_thread from the new state's code block", Process.cpp:397).
CodeOfState == stack = <<>> => code \in {state, NoState}

\* Between handlers the StateFrame and the code block are those of current_state,
\* whatever go_state and its handlers did before (Process.cpp).
StateFits == TypeOK /\ OneStateFrame /\ CodeOfState

\* No StateFrame is popped while a handler of its state is running ("so we do not
\* tear down the current state in the middle of its own code", Process.cpp:119).
NoTearDown ==
  \A i, j \in DOMAIN stack :
    i < j /\ stack[j].h = "exit" => stack[i].s # stack[j].s

\* When a quantum begins, the process is in the state its own trans, code or post
\* asked for last, sleeps in between included (the deferred transition of
\* Process.cpp:309).  Nothing is said once the host or a handler of a transition has
\* asked for another state: a deferred request of before is still applied after that.
LastRequestWins ==
  step = "trans" /\ next = NoState /\ last # NoState => state = last
===========================================================================
