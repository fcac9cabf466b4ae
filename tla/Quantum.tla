------------------------------ MODULE Quantum ------------------------------
(***************************************************************************)
(* The inside of a quantum: Process::execute_quantum over the one virtual  *)
(* machine that all processes, handlers and natives share.  The scheduler  *)
(* around it is Scheduler.tla, whose actions are conjoined here.           *)
(*                                                                         *)
(* The VM has one current_frame and one is_yielded.  vm.execute stores the *)
(* frame it is given and loops until current_frame is null, a native asked *)
(* for a yield or an instruction has failed; a native that runs a handler  *)
(* (spawn, kill) calls vm.execute again from inside that loop.  execs is   *)
(* the C++ stack of the loops in progress; a loop runs whatever            *)
(* current_frame is, and stops for an error of any loop inside it.         *)
(*                                                                         *)
(* A lambda is a handler kind h of a process p and may call its natives in *)
(* any order; those of Faulters may also fail at any instruction.  Each    *)
(* process has one track with one main lambda.                             *)
(***************************************************************************)
EXTENDS Scheduler

CONSTANTS
  Yielders,  \* handlers that call sleep and yield
  Spawners,  \* handlers that call spawn and kill
  Faulters,  \* handlers in which an instruction may fail
  Handlers,  \* which of "enter" and "exit" the scripts define
  NoFrame    \* null current_frame

VARIABLES
  frame,     \* VirtualMachine::current_frame
  failed,    \* VirtualMachine::m_has_error
  yielded,   \* VirtualMachine::is_yielded
  execs,     \* vm.execute calls in progress, innermost last, each with its first frame
  thread,    \* Process::main_thread
  track,     \* the track's main lambda: new, parked or done
  step,      \* where execute_quantum is
  finished,  \* history: frames that executed Return
  dropped,   \* history: frames that an error has thrown away
  stopped,   \* history: frames that an error has stopped
  age        \* history: quanta begun since is_yielded was set

vm    == <<frame, execs, failed>>
ends  == <<finished, dropped, stopped>>
qvars == <<vars, vm, yielded, thread, track, step, ends, age>>

Frame(h, p) == [h |-> h, p |-> p]
Kinds == {"enter", "exit", "trans", "track", "code", "post"}
Frames == [h : Kinds, p : Pids]

ASSUME QuantumAssumption ==
  /\ Yielders \subseteq Kinds /\ Spawners \subseteq Kinds /\ Faulters \subseteq Kinds
  /\ Handlers \subseteq {"enter", "exit"}
  /\ NoFrame \notin Frames

QInit ==
  /\ Init
  /\ frame = NoFrame /\ execs = <<>> /\ failed = FALSE /\ yielded = FALSE
  /\ thread = [p \in Pids |-> NoFrame]
  /\ track = [p \in Pids |-> "new"]
  /\ step = "idle" /\ finished = {} /\ dropped = {} /\ stopped = {} /\ age = 0

\* vm.execute(f): the frame of the loop outside is not saved, and an old error is
\* forgotten.
Execute(f) ==
  /\ frame' = f
  /\ execs' = Append(execs, f)
  /\ failed' = FALSE

Run(h, p) == IF h \in Handlers THEN Execute(Frame(h, p)) ELSE UNCHANGED vm

(***************************************************************************)
(* The execution loop.                                                     *)
(***************************************************************************)
\* The innermost activity is a VM loop, not a spawn or kill about to go on.
InLoop ==
  /\ execs # <<>>
  /\ calls # <<>> => Last(execs).h \in {"enter", "exit"} /\ Last(execs).p = Last(calls).p

\* The loop executes an instruction of current_frame.
Running == InLoop /\ frame # NoFrame /\ ~failed

\* Return from the outermost lambda: there is no frame left to run.
Return ==
  /\ Running
  /\ frame' = NoFrame
  /\ finished' = finished \cup {frame}
  /\ UNCHANGED <<vars, execs, failed, yielded, thread, track, step, dropped, stopped, age>>

\* Mutant of Fault: the error resets current_frame.
FaultReset ==
  /\ Running /\ frame.h \in Faulters
  /\ failed' = TRUE /\ frame' = NoFrame
  /\ stopped' = stopped \cup {frame}
  /\ UNCHANGED <<vars, execs, yielded, thread, track, step, finished, dropped, age>>

\* set_error, or a C++ exception caught in the loop: current_frame stays, past the
\* instruction that failed.
Fault ==
  /\ Running /\ frame.h \in Faulters
  /\ failed' = TRUE
  /\ stopped' = stopped \cup {frame}
  /\ UNCHANGED <<vars, frame, execs, yielded, thread, track, step, finished, dropped, age>>

\* An unresolved native or an unknown opcode: current_frame is set to null.
FaultDrop ==
  /\ Running /\ frame.h \in Faulters
  /\ frame' = NoFrame
  /\ dropped' = dropped \cup {frame}
  /\ UNCHANGED <<vars, execs, failed, yielded, thread, track, step, finished, stopped, age>>

\* Mutant of LoopExit: the loop ends although there is a frame to run.
LoopExitEarly ==
  /\ InLoop
  /\ execs' = Front(execs)
  /\ UNCHANGED <<vars, frame, failed, yielded, thread, track, step, ends, age>>

LoopExit ==
  /\ InLoop /\ (frame = NoFrame \/ failed)
  /\ execs' = Front(execs)
  /\ UNCHANGED <<vars, frame, failed, yielded, thread, track, step, ends, age>>

\* What the loop does after a native that asked for a yield: it stops, and
\* current_frame stays.  There must be a current process for that.
YieldCheck ==
  /\ current # NoPid
  /\ yielded' = TRUE
  /\ execs' = Front(execs)
  /\ UNCHANGED <<frame, failed, thread, track, step, ends, age>>

NativeYield == Running /\ frame.h \in Yielders /\ YieldCheck /\ UNCHANGED vars

NativeSleep(n) == Running /\ frame.h \in Yielders /\ Sleep(n) /\ YieldCheck

NativeSpawn(p) ==
  /\ Running /\ frame.h \in Spawners
  /\ SpawnEnter(p)
  /\ Run("enter", p)
  /\ UNCHANGED <<yielded, thread, track, step, ends, age>>

NativeKill(p) ==
  /\ Running /\ frame.h \in Spawners
  /\ Kill(p)
  /\ Run("exit", p)
  /\ UNCHANGED <<yielded, thread, track, step, ends, age>>

(***************************************************************************)
(* The host, and the calls that run handlers.                              *)
(***************************************************************************)
HostSpawn(p) ==
  /\ phase = "host" /\ calls = <<>>
  /\ SpawnEnter(p)
  /\ Run("enter", p)
  /\ UNCHANGED <<yielded, thread, track, step, ends, age>>

HostKill(p) ==
  /\ phase = "host" /\ calls = <<>>
  /\ Kill(p)
  /\ Run("exit", p)
  /\ UNCHANGED <<yielded, thread, track, step, ends, age>>

\* spawn after the enter handler: main_thread is made from the code block.
FinishSpawn ==
  /\ ~InLoop /\ SpawnPublish
  /\ thread' = [thread EXCEPT ![Last(calls).p] = Frame("code", Last(calls).p)]
  /\ UNCHANGED <<vm, yielded, track, step, ends, age>>

FinishKill ==
  /\ ~InLoop /\ KillFree
  /\ UNCHANGED <<vm, yielded, thread, track, step, ends, age>>

HostTick ==
  /\ TickStart \/ TickSleeper \/ TickSnapshot \/ TickEnd
  /\ UNCHANGED <<vm, yielded, thread, track, step, ends, age>>

(***************************************************************************)
(* execute_quantum                                                         *)
(***************************************************************************)
BeginQuantum ==
  /\ QuantumStart
  /\ Execute(Frame("trans", Head(rest)))
  /\ step' = "trans"
  /\ age' = IF yielded THEN age + 1 ELSE 0
  /\ UNCHANGED <<yielded, thread, track, ends>>

\* The quantum goes on only when nothing runs inside it.
At(s) == phase = "quantum" /\ step = s /\ execs = <<>> /\ calls = <<>>

\* TrackFrame::tick starts or resumes the main lambda.
TickTrack ==
  /\ At("trans") /\ track[running] # "done"
  /\ Execute(Frame("track", running))
  /\ step' = "track"
  /\ UNCHANGED <<vars, yielded, thread, track, ends, age>>

TracksOver == At("track") \/ (At("trans") /\ track[running] = "done")

\* The main lambda is parked or dropped, as is_yielded says.
AfterTrack(state) == track' = IF step = "track" THEN [track EXCEPT ![running] = state] ELSE track

\* Mutant of CutQuantum: is_yielded is left set.
CutQuantumKeep ==
  /\ TracksOver /\ yielded
  /\ AfterTrack("parked")
  /\ QuantumCut
  /\ step' = "idle"
  /\ UNCHANGED <<vm, yielded, thread, ends, age>>

\* is_yielded after the tracks ends the quantum, whoever has set it.
CutQuantum ==
  /\ TracksOver /\ yielded
  /\ AfterTrack("parked")
  /\ QuantumCut
  /\ yielded' = FALSE /\ age' = 0
  /\ step' = "idle"
  /\ UNCHANGED <<vm, thread, ends>>

RunCode ==
  /\ TracksOver /\ ~yielded
  /\ AfterTrack("done")
  /\ IF thread[running] # NoFrame
     THEN Execute(thread[running]) /\ step' = "code"
     ELSE Execute(Frame("post", running)) /\ step' = "post"
  /\ UNCHANGED <<vars, yielded, thread, ends, age>>

\* Mutant of AfterCode: main_thread is dropped after a quantum.
AfterCodeDrop ==
  /\ At("code")
  /\ thread' = [thread EXCEPT ![running] = NoFrame]
  /\ Execute(Frame("post", running))
  /\ step' = "post"
  /\ UNCHANGED <<vars, yielded, track, ends, age>>

\* main_thread becomes whatever the VM's current_frame is.
AfterCode ==
  /\ At("code")
  /\ thread' = [thread EXCEPT ![running] = frame]
  /\ Execute(Frame("post", running))
  /\ step' = "post"
  /\ UNCHANGED <<vars, yielded, track, ends, age>>

EndQuantum ==
  /\ At("post")
  /\ QuantumEnd
  /\ step' = "idle"
  /\ UNCHANGED <<vm, yielded, thread, track, ends, age>>

LoopStep ==
  \/ Return \/ Fault \/ FaultDrop
  \/ LoopExit
  \/ NativeYield
  \/ \E n \in 1 .. MaxSleep : NativeSleep(n)

CallStep ==
  \/ \E p \in Pids : NativeSpawn(p) \/ NativeKill(p) \/ HostSpawn(p) \/ HostKill(p)
  \/ FinishSpawn
  \/ FinishKill

ProcessStep ==
  BeginQuantum \/ TickTrack \/ CutQuantum \/ RunCode \/ AfterCode \/ EndQuantum

QNext == LoopStep \/ CallStep \/ ProcessStep \/ HostTick

QSpec == QInit /\ [][QNext]_qvars

\* The host keeps ticking; every lambda that runs returns or yields.
QFairness ==
  /\ WF_qvars(HostTick \/ ProcessStep)
  /\ WF_qvars(LoopStep)
  /\ WF_qvars(FinishSpawn \/ FinishKill)

QLiveSpec == QSpec /\ QFairness

(***************************************************************************)
(* Properties                                                              *)
(***************************************************************************)
\* The types of the VM's and the processes' fields.
QTypeOK ==
  /\ TypeOK
  /\ frame \in Frames \cup {NoFrame} /\ failed \in BOOLEAN /\ yielded \in BOOLEAN
  /\ execs \in Seq(Frames)
  /\ thread \in [Pids -> Frames \cup {NoFrame}]
  /\ track \in [Pids -> {"new", "parked", "done"}]
  /\ step \in {"idle", "trans", "track", "code", "post"}
  /\ finished \subseteq Frames /\ dropped \subseteq Frames /\ stopped \subseteq Frames
  /\ age \in Nat

\* No quantum starts with the flag of an earlier yield still set ("Reset by the
\* host (Scheduler) before the next execute()", VirtualMachine.hpp:48).
FlagIsReset == [][phase = "loop" /\ phase' = "quantum" => ~yielded]_qvars

\* A yield takes effect once: whoever sets is_yielded, and wherever in a quantum,
\* the flag is consumed at the latest by the quantum that begins next and does not
\* survive into a second one (Process.cpp:334).
FlagIsConsumed == yielded => age <= 1

\* A process loses its main_thread only because its code has returned or was thrown
\* away by an unresolved native or an unknown opcode; a yield, a sleep and every
\* other error leave it in place ("The frame is preserved in main_thread, so the
\* next tick resumes exactly where the process left off", Process.hpp:159).
ThreadKept ==
  [][\A p \in Pids : thread[p] # NoFrame /\ thread'[p] # thread[p] =>
       thread[p] \in finished' \cup dropped']_qvars

\* A main lambda that is resumed on the next tick has not returned: past its
\* Return there is no instruction to resume at.
ParkedIsUnfinished ==
  \A p \in Pids \ {running} : track[p] = "parked" => Frame("track", p) \notin finished

\* What TrackFrame and Process keep of the VM between quanta is well typed, and
\* can be resumed.
QuantumInv == QTypeOK /\ ParkedIsUnfinished

\* spawn publishes a process, and kill deletes one, only when the handler it runs
\* has run to its end or to an error of its own: nothing else takes the VM away
\* from it.
HandlerCompletes ==
  [][\A p \in Pids :
       /\ "enter" \in Handlers /\ life[p] = "entering" /\ life'[p] = "live"
            => Frame("enter", p) \in finished \cup dropped \cup stopped
       /\ "exit" \in Handlers /\ life[p] = "live" /\ life'[p] = "freed"
            => Frame("exit", p) \in finished \cup dropped \cup stopped]_qvars

\* A process that sleeps is not ticked before its sleep is over ("The scheduler
\* will not tick it until WakeUp() is called (or sleep_frames expires)",
\* Process.hpp:179).
ParkedIsNotTicked ==
  [][phase = "loop" /\ phase' = "quantum" => sleepFrames[Head(rest)] = 0]_qvars

\* A process whose code has returned is removed by the end of the tick
\* ("processes that finish are removed", Scheduler.hpp:63).
FinishedIsRemoved ==
  \A p \in Pids :
    phase = "host" /\ Frame("code", p) \in finished => p \notin Live

\* The code of a process that waits in the ready queue is run again, or the
\* process dies: the yield of another process does not take its turn away.
CodeRuns ==
  \A p \in Pids :
    (p \in Live /\ thread[p] # NoFrame) ~> ((running = p /\ step = "code") \/ p \notin Live)
=============================================================================
