------------------------- MODULE WatchPartyAdmission -------------------------
(***************************************************************************)
(* Who may ever sit in a party, whatever the interleaving of requests.     *)
(*                                                                         *)
(* Handlers check a plan, an invitation or a seat on rows they loaded and  *)
(* act on it later, when the check may no longer hold: no property of the  *)
(* current rows survives that.  What does survive is stated on history:    *)
(* three variables that record what was true at some time, added to the    *)
(* steps of WatchParty without restricting them.                           *)
(***************************************************************************)
EXTENDS WatchParty

VARIABLES
  entitled,  \* users who have held a plan that lets them take part
  asked,     \* asked[p]: users who have been host of p or invited to it
  seated,    \* seated[p]: users who have been participants of p
  begun      \* parties that have been ACTIVE

history == <<entitled, asked, seated, begun>>
avars == <<vars, history>>

EntitledIn(users) == {u \in Users : EnsureEligible(users[u].subscriptionType)}
AskedIn(row) == row.invitedUsers \cup ({row.hostId} \ {None})

AInit ==
  /\ Init
  /\ entitled = EntitledIn(user)
  /\ asked = [p \in Parties |-> {}]
  /\ seated = [p \in Parties |-> {}]
  /\ begun = {}

Record ==
  /\ entitled' = entitled \cup EntitledIn(user')
  /\ asked' = [p \in Parties |-> asked[p] \cup AskedIn(party'[p])]
  /\ seated' = [p \in Parties |-> seated[p] \cup party'[p].participants]
  /\ begun' = begun \cup {p \in Parties : party'[p].status = "ACTIVE"}

ANext == Next /\ Record

ASpec == AInit /\ [][ANext]_avars

(***************************************************************************)
(* Properties.                                                             *)
(***************************************************************************)
\* Nobody hosts or sits in a party who has not held a freemium or premium
\* plan at some time: every way in (start, schedule, join, host transfer,
\* failover) goes through a plan check, and no stale save brings in others.
SeatsAreEntitled ==
  \A p \in Parties :
    party[p].participants \cup ({party[p].hostId} \ {None}) \subseteq entitled

\* A party that has never been active is attended only by its hosts and by
\* users who were invited to it at some time.
SeatsWereAsked ==
  \A p \in Parties \ begun : party[p].participants \subseteq asked[p]

\* The host of a party, however the role reached them, has sat in it.
HostHasSat ==
  \A p \in Parties : party[p].hostId \in seated[p] \cup {None}
==============================================================================
