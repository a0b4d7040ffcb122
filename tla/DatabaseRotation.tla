--------------------------- MODULE DatabaseRotation ---------------------------
(***************************************************************************)
(* What rotating the development database promises: one rotation at a      *)
(* time, which chooses first and replaces afterwards, gives up at most one *)
(* instance for good, and never goes back to choosing, so that it cannot   *)
(* give up the instance it has just made.                                  *)
(***************************************************************************)
CONSTANTS Machines, Ids

VARIABLES
  phase,    \* idle, choosing or replacing, for each machine
  retired   \* the instances that were given up

vars == <<phase, retired>>

Init == phase = [m \in Machines |-> "idle"] /\ retired = {}

Begin(m) ==
  /\ \A n \in Machines : phase[n] = "idle"
  /\ phase' = [phase EXCEPT ![m] = "choosing"]
  /\ UNCHANGED retired

Retire(m, d) ==
  /\ phase[m] = "choosing" /\ d \notin retired
  /\ phase' = [phase EXCEPT ![m] = "replacing"]
  /\ retired' = retired \cup {d}

\* Nothing to give up, or only what an earlier rotation gave up already.
Replace(m) ==
  /\ phase[m] = "choosing"
  /\ phase' = [phase EXCEPT ![m] = "replacing"]
  /\ UNCHANGED retired

End(m) ==
  /\ phase[m] # "idle"
  /\ phase' = [phase EXCEPT ![m] = "idle"]
  /\ UNCHANGED retired

Next == \E m \in Machines : Begin(m) \/ Replace(m) \/ End(m) \/ \E d \in Ids : Retire(m, d)

Spec == Init /\ [][Next]_vars
================================================================================
