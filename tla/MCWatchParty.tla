----------------------------- MODULE MCWatchParty -----------------------------
EXTENDS WatchParty, TLC

\* User 1 pays for the higher plan, user 2 for the lower one.
PremiumAndFreemium == {[u \in Users |-> IF u = 1 THEN "PREMIUM" ELSE "FREEMIUM"]}
AllPremium == {[u \in Users |-> "PREMIUM"]}
AllFreemium == {[u \in Users |-> "FREEMIUM"]}
\* Mutes touch nothing else: one muted user at most is enough.
FewMuted == \A p \in Parties : Cardinality(party[p].mutedUsers) <= 1
PartySymmetry == Permutations(Parties)
===============================================================================
