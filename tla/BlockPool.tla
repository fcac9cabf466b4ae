----------------------------- MODULE BlockPool -----------------------------
(***************************************************************************)
(* What an arena promises its callers, with no memory words and no         *)
(* pointers: a stack of returned blocks, a mark below which blocks have    *)
(* been handed out at least once, and the set of blocks in use.  Arena.tla *)
(* is shown to implement this specification.                               *)
(***************************************************************************)
EXTENDS Naturals, Sequences

CONSTANT Cap     \* blocks in the pool

VARIABLES
  fresh,   \* blocks 0 .. fresh-1 have been handed out at least once
  free,    \* returned blocks, the most recently returned one first
  live     \* blocks in use

poolVars == <<fresh, free, live>>

Init ==
  /\ fresh = 0
  /\ free = <<>>
  /\ live = {}

\* A returned block is reused before a fresh one is cut.
Reuse ==
  /\ free # <<>>
  /\ live' = live \cup {Head(free)}
  /\ free' = Tail(free)
  /\ UNCHANGED fresh

Cut ==
  /\ free = <<>>
  /\ fresh < Cap
  /\ live' = live \cup {fresh}
  /\ fresh' = fresh + 1
  /\ UNCHANGED free

Return(b) ==
  /\ live' = live \ {b}
  /\ free' = <<b>> \o free
  /\ UNCHANGED fresh

Next == Reuse \/ Cut \/ \E b \in live : Return(b)

Spec == Init /\ [][Next]_poolVars

=============================================================================
