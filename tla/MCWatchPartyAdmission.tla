------------------------ MODULE MCWatchPartyAdmission ------------------------
(***************************************************************************)
(* WatchPartyAdmission for TLC: at most MaxCalls requests and purchases in *)
(* a behaviour, which keeps the interleavings of two slots finite enough.  *)
(***************************************************************************)
EXTENDS WatchPartyAdmission, TLC

CONSTANT MaxCalls
VARIABLE served

OnePremium == {[u \in Users |-> IF u = 1 THEN "PREMIUM" ELSE "FREE_TIER"]}
PartySymmetry == Permutations(Parties)
SlotSymmetry == Permutations(Requests) \cup Permutations(Parties)

Opened == Cardinality({r \in Requests : req[r] = Idle /\ req'[r] # Idle})

MCInit == AInit /\ served = 0
MCNext ==
  /\ ANext
  /\ served' = served + IF req' = req THEN 1 ELSE Opened
  /\ served' <= MaxCalls
MCSpec == MCInit /\ [][MCNext]_<<avars, served>>
==============================================================================
