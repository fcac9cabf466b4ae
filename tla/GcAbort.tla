------------------------------ MODULE GcAbort ------------------------------
(***************************************************************************)
(* The collector of Gc.tla under a host that may give a pass up: it calls  *)
(* finish_pass before sweep_pass has returned true (gc_test.cpp does so in *)
(* MarkObjectForeignIsNoop).  Objects then keep the cycle of an older      *)
(* pass, and the 4 bits of pass_cycle may come round to it again.          *)
(***************************************************************************)
EXTENDS Gc

CONSTANT MaxAborts   \* passes the host gives up in a row, at most

ASSUME AbortAssumption == MaxAborts \in Nat

VARIABLE aborts      \* passes given up since the last complete one

abortVars == <<vars, aborts>>

AbortInit == Init /\ aborts = 0

\* finish_pass on a pass whose sweep is not complete.
AbortPass ==
  /\ host \in {"marking", "sweeping"}
  /\ aborts < MaxAborts
  /\ phase' = "IDLE"
  /\ sweepA' = 1
  /\ sweepB' = 0
  /\ host' = "idle"
  /\ pending' = {}
  /\ kept' = {}
  /\ aborts' = aborts + 1
  /\ UNCHANGED <<heapVars, cycle, marked, pass, total_allocated, total_freed, roots, refs>>

AbortNext ==
  \/ Mutator /\ UNCHANGED aborts
  \/ StartPass /\ UNCHANGED aborts
  \/ (\E r \in pending : MarkRoot(r)) /\ UNCHANGED aborts
  \/ Sweep /\ UNCHANGED aborts
  \/ (FinishPass \/ Collect) /\ aborts' = 0
  \/ AbortPass

AbortSpec == AbortInit /\ [][AbortNext]_abortVars

\* A host that has begun a pass goes on calling the collector until it has
\* finished the pass or given it up (the fairness of FairSpec).
AbortFairSpec ==
  /\ AbortSpec
  /\ WF_abortVars((\E r \in pending : MarkRoot(r)) /\ UNCHANGED aborts)
  /\ WF_abortVars(Sweep /\ UNCHANGED aborts)
  /\ WF_abortVars(FinishPass /\ aborts' = 0)

=============================================================================
