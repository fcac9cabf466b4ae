----------------------------- MODULE Scheduler -----------------------------
(***************************************************************************)
(* carbon::Scheduler (kernel/Scheduler.cpp): the ready queue, the list of  *)
(* suspended processes, the owning list m_all with its index m_by_pid, and *)
(* the round-robin tick.                                                   *)
(*                                                                         *)
(* A Process* is a pid: an object is never moved and its address is not    *)
(* modelled beyond being valid ("live") or not ("freed").  m_all and the   *)
(* keys of m_by_pid are written together, so both are Live.                *)
(*                                                                         *)
(* What a process does in its quantum is left open here: it may sleep,     *)
(* spawn, kill and resume in any order.  Quantum.tla opens the quantum up. *)
(***************************************************************************)
EXTENDS Naturals, Sequences, SequencesExt

CONSTANTS
  NumPids,   \* bound: pids handed out
  MaxSleep,  \* bound: longest sleep, in ticks
  TickMod,   \* the tick number is counted modulo this (history only)
  NoPid,     \* nullptr
  NoTick     \* no sleep is being timed

ASSUME SchedulerAssumption ==
  /\ NumPids \in Nat /\ MaxSleep \in Nat
  /\ TickMod \in Nat /\ TickMod > MaxSleep + 1
  /\ NoPid \notin Nat /\ NoTick \notin Nat

Pids == 1 .. NumPids

VARIABLES
  nextPid,      \* m_next_pid
  life,         \* pid -> unborn, entering (made, not published), live (in m_all and
                \* m_by_pid), freed, or void (spent by a spawn that failed)
  status,       \* Process::status
  sleepFrames,  \* Process::sleep_frames
  ready,        \* m_ready
  suspended,    \* m_suspended
  rest,         \* this_tick: the part of the snapshot the loop has not visited
  running,      \* m_current
  current,      \* Carbon::current_process
  calls,        \* spawn and kill calls in progress, each running a handler of its process
  phase,        \* where the host is: outside tick, in tick_sleepers, between quanta, in a quantum
  cursor,       \* `it` of tick_sleepers
  \* History.
  snap,         \* processes of the current tick's snapshot
  visited,      \* processes that had their quantum in the current tick
  tick,         \* number of the current tick, modulo TickMod
  due           \* pid -> tick at which a sleep ends, or NoTick

lists   == <<ready, suspended, rest>>
control == <<running, current, calls, phase, cursor>>
history == <<snap, visited, tick, due>>
vars    == <<nextPid, life, status, sleepFrames, lists, control, history>>

Live == {p \in Pids : life[p] = "live"}

Init ==
  /\ nextPid = 1
  /\ life = [p \in Pids |-> "unborn"]
  /\ status = [p \in Pids |-> "DEAD"]
  /\ sleepFrames = [p \in Pids |-> 0]
  /\ ready = <<>> /\ suspended = <<>> /\ rest = <<>>
  /\ running = NoPid /\ current = NoPid /\ calls = <<>>
  /\ phase = "host" /\ cursor = 1
  /\ snap = {} /\ visited = {} /\ tick = 0 /\ due = [p \in Pids |-> NoTick]

(***************************************************************************)
(* The API, called by the host between ticks or by a native in a quantum.  *)
(***************************************************************************)
MayCall == phase \in {"host", "quantum"}

\* The object is made and the enter handler of its state starts, with the new
\* process as the current one.
SpawnEnter(p) ==
  /\ MayCall /\ p = nextPid
  /\ nextPid' = nextPid + 1
  /\ life' = [life EXCEPT ![p] = "entering"]
  /\ current' = p
  /\ calls' = Append(calls, [op |-> "spawn", p |-> p])
  /\ UNCHANGED <<status, sleepFrames, lists, running, phase, cursor, history>>

\* Mutant of SpawnPublish: the process is published but not queued.
SpawnPublishUnqueued ==
  /\ calls # <<>> /\ Last(calls).op = "spawn"
  /\ LET p == Last(calls).p IN
       /\ life' = [life EXCEPT ![p] = "live"]
       /\ status' = [status EXCEPT ![p] = "READY"]
  /\ calls' = Front(calls)
  /\ current' = NoPid
  /\ UNCHANGED <<nextPid, sleepFrames, lists, running, phase, cursor, history>>

\* The enter handler is over: the current process is reset to nullptr, whoever it
\* was before; the SUSPENDED of a sleep in the handler is overwritten by READY.
SpawnPublish ==
  /\ calls # <<>> /\ Last(calls).op = "spawn"
  /\ LET p == Last(calls).p IN
       /\ life' = [life EXCEPT ![p] = "live"]
       /\ status' = [status EXCEPT ![p] = "READY"]
       /\ ready' = Append(ready, p)
  /\ calls' = Front(calls)
  /\ current' = NoPid
  /\ UNCHANGED <<nextPid, sleepFrames, suspended, rest, running, phase, cursor, history>>

\* The script names no initial state: the pid is spent, the object dropped.
SpawnStateless(p) ==
  /\ MayCall /\ p = nextPid
  /\ nextPid' = nextPid + 1
  /\ life' = [life EXCEPT ![p] = "void"]
  /\ UNCHANGED <<status, sleepFrames, lists, control, history>>

Detach(p) ==
  /\ ready' = RemoveFirst(ready, p)
  /\ suspended' = RemoveFirst(suspended, p)

\* kill_recursive up to the exit handler: p is in no list, but still in m_all,
\* still found by its pid and its name, and not DEAD yet.
KillDetach(p) ==
  /\ MayCall /\ p \in Live
  /\ Detach(p)
  /\ calls' = Append(calls, [op |-> "kill", p |-> p])
  /\ due' = [due EXCEPT ![p] = NoTick]
  /\ UNCHANGED <<nextPid, life, status, sleepFrames, rest, running, current, phase, cursor,
                 snap, visited, tick>>

\* The rest of it: the process is deleted.
KillFree ==
  /\ calls # <<>> /\ Last(calls).op = "kill"
  /\ LET p == Last(calls).p IN
       /\ status' = [status EXCEPT ![p] = "DEAD"]
       /\ life' = [life EXCEPT ![p] = "freed"]
  /\ calls' = Front(calls)
  /\ UNCHANGED <<nextPid, sleepFrames, lists, running, current, phase, cursor, history>>

\* The C++ stack still holds a pointer to p: the tick loop, or a kill of p.
HeldByTick(p) == p = running \/ p \in ToSet(rest)
KilledBy(cs) == {cs[i].p : i \in {j \in DOMAIN cs : cs[j].op = "kill"}}
Dying == KilledBy(calls)

\* kill of a process that nothing on the stack holds.
Kill(p) == ~HeldByTick(p) /\ p \notin Dying /\ KillDetach(p)

\* kill of one the tick loop holds: nothing in the code forbids it.
KillHeld(p) == HeldByTick(p) /\ p \notin Dying /\ KillDetach(p)

\* No code in the repository calls resume; it is modelled as the wake-up of a
\* process that waits in m_suspended.
Resume(p) ==
  /\ MayCall /\ p \in Live /\ p # running /\ p \notin Dying /\ status[p] = "SUSPENDED"
  /\ suspended' = RemoveFirst(suspended, p)
  /\ status' = [status EXCEPT ![p] = "READY"]
  /\ ready' = Append(ready, p)
  /\ due' = [due EXCEPT ![p] = NoTick]
  /\ UNCHANGED <<nextPid, life, sleepFrames, rest, control, snap, visited, tick>>

\* Process::WakeUp, which knows nothing of the scheduler's lists.
WakeUp(p) ==
  /\ MayCall /\ p \in Live /\ p # running /\ status[p] = "SUSPENDED"
  /\ status' = [status EXCEPT ![p] = "READY"]
  /\ sleepFrames' = [sleepFrames EXCEPT ![p] = 0]
  /\ due' = [due EXCEPT ![p] = NoTick]
  /\ UNCHANGED <<nextPid, life, lists, control, snap, visited, tick>>

(***************************************************************************)
(* tick()                                                                  *)
(***************************************************************************)
TickStart ==
  /\ phase = "host" /\ calls = <<>>
  /\ phase' = "sleepers" /\ cursor' = 1
  /\ tick' = (tick + 1) % TickMod
  /\ UNCHANGED <<nextPid, life, status, sleepFrames, lists, running, current, calls,
                 snap, visited, due>>

\* Mutant of Expires: the test is made before the decrement.
ExpiresLate(p) == sleepFrames[p] = 0

\* Mutant of Expires: the counter is decremented but not tested.
ExpiresAlways(p) == TRUE

Expires(p) == sleepFrames[p] = 1

\* One iteration of tick_sleepers.
TickSleeper ==
  /\ phase = "sleepers" /\ cursor <= Len(suspended)
  /\ LET p == suspended[cursor] IN
       IF status[p] # "DEAD" /\ sleepFrames[p] > 0
       THEN /\ sleepFrames' = [sleepFrames EXCEPT ![p] = @ - 1]
            /\ IF Expires(p)
               THEN /\ status' = [status EXCEPT ![p] = "READY"]
                    /\ ready' = Append(ready, p)
                    /\ suspended' = RemoveAt(suspended, cursor)
                    /\ UNCHANGED cursor
               ELSE /\ cursor' = cursor + 1
                    /\ UNCHANGED <<status, ready, suspended>>
       ELSE /\ cursor' = cursor + 1
            /\ UNCHANGED <<status, sleepFrames, ready, suspended>>
  /\ UNCHANGED <<nextPid, life, rest, running, current, calls, phase, history>>

\* Mutant of Snapshot: the snapshot is copied but not erased from m_ready.
SnapshotKeep ==
  /\ rest' = ready
  /\ UNCHANGED ready

Snapshot ==
  /\ rest' = ready
  /\ ready' = <<>>

\* The end of tick_sleepers; an empty queue ends the tick at once.
TickSnapshot ==
  /\ phase = "sleepers" /\ cursor > Len(suspended)
  /\ phase' = IF ready = <<>> THEN "host" ELSE "loop"
  /\ Snapshot
  /\ snap' = ToSet(ready) /\ visited' = {}
  /\ UNCHANGED <<nextPid, life, status, sleepFrames, suspended, running, current, calls,
                 cursor, tick, due>>

\* The head of the snapshot gets its quantum; execute_quantum sets RUNNING.
QuantumStart ==
  /\ phase = "loop" /\ rest # <<>> /\ status[Head(rest)] # "DEAD"
  /\ phase' = "quantum"
  /\ running' = Head(rest) /\ current' = Head(rest) /\ rest' = Tail(rest)
  /\ status' = [status EXCEPT ![Head(rest)] = "RUNNING"]
  /\ visited' = visited \cup {Head(rest)}
  /\ due' = [due EXCEPT ![Head(rest)] = NoTick]
  /\ UNCHANGED <<nextPid, life, sleepFrames, ready, suspended, calls, cursor, snap, tick>>

\* The native sleep parks the current process, which in an enter handler is the
\* one being spawned; without a current process it is refused.
Sleep(n) ==
  /\ current # NoPid
  /\ status' = [status EXCEPT ![current] = "SUSPENDED"]
  /\ sleepFrames' = [sleepFrames EXCEPT ![current] = n]
  /\ due' = IF current = running THEN [due EXCEPT ![running] = (tick + n) % TickMod] ELSE due
  /\ UNCHANGED <<nextPid, life, lists, control, snap, visited, tick>>

\* Mutant of Requeue: m_current is queued after it was reset.
RequeueNull(p, s) ==
  /\ ready' = IF s = "READY" THEN Append(ready, NoPid) ELSE ready
  /\ suspended' = IF s = "SUSPENDED" THEN Append(suspended, p) ELSE suspended
  /\ UNCHANGED rest

\* Mutant of Requeue: a sleeper is queued as if it were ready.
RequeueReady(p, s) ==
  /\ ready' = Append(ready, p)
  /\ UNCHANGED <<suspended, rest>>

\* Mutant of Requeue: the process goes to the end of the snapshot.
RequeueSameTick(p, s) ==
  /\ rest' = IF s = "READY" THEN Append(rest, p) ELSE rest
  /\ suspended' = IF s = "SUSPENDED" THEN Append(suspended, p) ELSE suspended
  /\ UNCHANGED ready

\* Where tick puts a process whose quantum left it in status s.
Requeue(p, s) ==
  /\ ready' = IF s = "READY" THEN Append(ready, p) ELSE ready
  /\ suspended' = IF s = "SUSPENDED" THEN Append(suspended, p) ELSE suspended
  /\ UNCHANGED rest

\* The quantum runs to its end; a process that sleeps stays SUSPENDED.
QuantumEnd ==
  LET s == IF status[running] = "RUNNING" THEN "READY" ELSE status[running]
  IN /\ phase = "quantum" /\ calls = <<>>
     /\ status' = [status EXCEPT ![running] = s]
     /\ Requeue(running, s)
     /\ running' = NoPid /\ current' = NoPid /\ phase' = "loop"
     /\ UNCHANGED <<nextPid, life, sleepFrames, calls, cursor, history>>

\* The quantum stops after the tracks because the VM is_yielded: READY is set
\* unconditionally, a sleep asked for in trans or in a track included.
QuantumCut ==
  /\ phase = "quantum" /\ calls = <<>>
  /\ status' = [status EXCEPT ![running] = "READY"]
  /\ due' = [due EXCEPT ![running] = NoTick]
  /\ Requeue(running, "READY")
  /\ running' = NoPid /\ current' = NoPid /\ phase' = "loop"
  /\ UNCHANGED <<nextPid, life, sleepFrames, calls, cursor, snap, visited, tick>>

TickEnd ==
  /\ phase = "loop" /\ rest = <<>>
  /\ phase' = "host"
  /\ UNCHANGED <<nextPid, life, status, sleepFrames, lists, running, current, calls,
                 cursor, history>>

TickStep == TickStart \/ TickSleeper \/ TickSnapshot \/ QuantumStart \/ TickEnd

ApiStep ==
  \/ \E p \in Pids : SpawnEnter(p) \/ SpawnStateless(p) \/ Kill(p) \/ Resume(p)
  \/ SpawnPublish
  \/ KillFree

QuantumStep == QuantumEnd \/ QuantumCut \/ \E n \in 1 .. MaxSleep : Sleep(n)

Next == TickStep \/ ApiStep \/ QuantumStep

Spec == Init /\ [][Next]_vars

\* The host keeps ticking and every quantum ends (scripts are cooperative), as
\* does every enter and exit handler.
Fairness ==
  /\ WF_vars(TickStep)
  /\ WF_vars(SpawnPublish \/ KillFree)
  /\ WF_vars(QuantumEnd \/ QuantumCut)

LiveSpec == Spec /\ Fairness

\* Processes kill processes that the tick loop still holds.
SpecKillHeld == Init /\ [][Next \/ \E p \in Pids : KillHeld(p)]_vars

\* Something calls Process::WakeUp.
SpecWakeUp == Init /\ [][Next \/ \E p \in Pids : WakeUp(p)]_vars

(***************************************************************************)
(* Properties                                                              *)
(***************************************************************************)
\* The types of the scheduler's fields.
TypeOK ==
  /\ nextPid \in 1 .. NumPids + 1
  /\ life \in [Pids -> {"unborn", "entering", "live", "freed", "void"}]
  /\ status \in [Pids -> {"DEAD", "READY", "RUNNING", "SUSPENDED"}]
  /\ sleepFrames \in [Pids -> 0 .. MaxSleep]
  /\ ready \in Seq(Pids) /\ suspended \in Seq(Pids) /\ rest \in Seq(Pids)
  /\ running \in Pids \cup {NoPid} /\ current \in Pids \cup {NoPid}
  /\ calls \in Seq([op : {"spawn", "kill"}, p : Pids])
  /\ phase \in {"host", "sleepers", "loop", "quantum"}
  /\ cursor \in Nat \ {0}
  /\ snap \subseteq Pids /\ visited \subseteq Pids
  /\ tick \in 0 .. TickMod - 1
  /\ due \in [Pids -> (0 .. TickMod - 1) \cup {NoTick}]

Distinct(s) == \A i, j \in DOMAIN s : s[i] = s[j] => i = j

\* Every process that m_all owns is in exactly one place (the ready queue, the
\* suspended list, the unvisited snapshot, the running quantum, a kill), once,
\* and no list holds a pointer to a process that was deleted.
EachInOnePlace ==
  /\ Distinct(ready) /\ Distinct(suspended) /\ Distinct(rest)
  /\ ToSet(ready) \cap ToSet(suspended) = {}
  /\ ToSet(ready) \cap ToSet(rest) = {}
  /\ ToSet(suspended) \cap ToSet(rest) = {}
  /\ (Dying \cup {running}) \cap (ToSet(ready) \cup ToSet(suspended) \cup ToSet(rest)) = {}
  /\ running \notin Dying
  /\ ToSet(ready) \cup ToSet(suspended) \cup ToSet(rest) \cup Dying \cup ({running} \ {NoPid})
       = Live

\* The list a process waits in agrees with its status between two quanta: a
\* process filed under the wrong status would be skipped or woken wrongly.
ListMatchesStatus ==
  /\ \A p \in ToSet(ready) \cup ToSet(rest) : status[p] = "READY"
  /\ \A p \in ToSet(suspended) : status[p] = "SUSPENDED" /\ sleepFrames[p] > 0

\* The fields are well typed, and no process is filed under a list that
\* contradicts its status (Scheduler.cpp: m_ready, m_suspended).
WellFiled == TypeOK /\ ListMatchesStatus

\* tick visits every process of its snapshot that still lives exactly once, and
\* none that was queued during the tick ("each process is visited exactly once
\* per tick", Scheduler.cpp:179).
VisitedOncePerTick ==
  phase \in {"loop", "quantum"} =>
    /\ visited \cap ToSet(rest) = {}
    /\ visited \subseteq snap /\ ToSet(rest) \subseteq snap
    /\ (snap \ visited) \cap Live \subseteq ToSet(rest)

\* A process that slept n ticks, and that nobody resumed, has its next quantum
\* in exactly the n-th tick after: never earlier, and never later.
SleepIsExact ==
  /\ phase = "host" => \A p \in Live : due[p] # tick
  /\ \A p \in ToSet(rest) : due[p] \in {NoTick, tick}

\* A queued process gets a quantum or dies: the round robin starves nobody.
ReadyRuns ==
  \A p \in Pids : (p \in Live /\ status[p] = "READY") ~> (running = p \/ p \notin Live)

\* Every sleep ends: the sleeper runs again or is killed.
SleeperRuns ==
  \A p \in Pids : (p \in ToSet(suspended)) ~> (running = p \/ p \notin Live)

\* Scheduler::tick starves nobody, whether queued or asleep.
NobodyStarves == ReadyRuns /\ SleeperRuns

\* No process that tick still holds was deleted: neither one it has yet to visit
\* ("Detach from every list first, so the process cannot be ticked again while we
\* tear it down", Scheduler.cpp:120) nor the one whose quantum it is in the middle
\* of ((kill "self") being a documented call, NativeProcess.cpp:210).
HeldExists == \A p \in Pids : HeldByTick(p) => life[p] # "freed"

\* What native_tick and native_run test before they drive the scheduler.
TickRefused == current # NoPid

\* From inside a process the scheduler cannot be driven ("Refuse to run from
\* inside a process: re-entering the scheduler would corrupt it",
\* NativeProcess.cpp:356).
InsideIsRefused == phase = "quantum" => TickRefused

\* A process that was woken up is queued by the next tick ("When something calls
\* Process::WakeUp() ... the scheduler moves it back into m_ready at the next
\* tick", Scheduler.hpp:28): the snapshot takes every READY process.
WokenIsQueued ==
  [][phase = "sleepers" /\ phase' # "sleepers" =>
       \A p \in Live : status[p] = "READY" => p \in ToSet(ready)]_vars
=============================================================================
