------------------------------ MODULE WatchParty ------------------------------
(***************************************************************************)
(* The watch-party service (src/src/watch-party/watch-party.service.ts):   *)
(* the watch_party table, the columns of the user table it decides on, and *)
(* the HTTP requests in flight.                                            *)
(*                                                                         *)
(* A request is a sequence of database calls, each awaited.  Between two   *)
(* of them any other request runs, so a request works on the rows it       *)
(* loaded and not on the rows as they are.  One action below is one        *)
(* database call together with the synchronous code up to the next await.  *)
(* A call that is refused before its first write changes nothing and has   *)
(* no action of its own; one refused later simply ends.                    *)
(*                                                                         *)
(* repository.save(row) writes every column of the loaded row, and of the  *)
(* many-to-many relations exactly those that the load asked for.  It is    *)
(* one step here: TypeORM runs its own select and update in a transaction. *)
(***************************************************************************)
EXTENDS Naturals, FiniteSets

CONSTANTS
  Users,      \* user ids; uuids are ordered as strings, here as numbers
  Parties,    \* slots of the watch_party table (a bound on parties created)
  Movies,     \* movie ids
  Keys,       \* idempotency keys that a start request may carry
  Requests,   \* request slots: at most this many requests in flight
  Calls,      \* the endpoints and events that occur (all of AllCalls or less)
  InitialPlans, \* the plans the users may hold at first
  None        \* SQL null / absent

AllCalls == {"start", "join", "joinByCode", "end", "schedule", "startScheduled",
             "metadata", "invite", "rejectInvite", "removeInvite", "kick",
             "ban", "unban", "mute", "unmute", "transferHost", "leave",
             "purchase", "expire", "fail"}
SubscriptionType == {"FREE_TIER", "FREEMIUM", "PREMIUM"}

ASSUME ConstantsAssumption ==
  /\ Users \subseteq Nat
  /\ None \notin Users \cup Parties \cup Movies \cup Keys
  /\ None \notin AllCalls
  /\ Calls \subseteq AllCalls
  /\ InitialPlans \subseteq [Users -> SubscriptionType]

VARIABLES
  party,   \* watch_party and its four join tables
  user,    \* the columns of the user table read here
  req      \* what each request in flight holds in memory

vars == <<party, user, req>>

(***************************************************************************)
(* Rows.                                                                   *)
(***************************************************************************)
WatchPartyStatus == {"NONE", "SCHEDULED", "ACTIVE", "ENDED"}  \* NONE: no row yet

WatchPartyRow ==
  [status : WatchPartyStatus, hostId : Users \cup {None},
   movieId : Movies \cup {None}, startKey : Keys \cup {None},
   hostLeftAt : BOOLEAN, participants : SUBSET Users,
   invitedUsers : SUBSET Users, bannedUsers : SUBSET Users,
   mutedUsers : SUBSET Users]

NoRow == [status |-> "NONE", hostId |-> None, movieId |-> None,
          startKey |-> None, hostLeftAt |-> FALSE, participants |-> {},
          invitedUsers |-> {}, bannedUsers |-> {}, mutedUsers |-> {}]

UserRow == [subscriptionType : SubscriptionType,
            hasUsedWatchPartyTrial : BOOLEAN,
            lastFreemiumMovieId : Movies \cup {None}]

(***************************************************************************)
(* A request: the call it serves and its next database step; its caller;   *)
(* the party it is about, and the row of it as loaded and edited; the user *)
(* it acts on and the plan of the user object loaded last; and, while the  *)
(* caller is moved out of another active party, that party, its row, and   *)
(* the freemium participants seen when endParty loaded it.                 *)
(***************************************************************************)
Steps == {"idle", "account", "subject", "lookup", "leaveOther", "endLoad",
          "endSave", "downgrade", "count", "key", "invitees", "create",
          "save", "kicked", "track"}

Request == [step : Steps, call : AllCalls \cup {None}, user : Users \cup {None},
            party : Parties \cup {None}, row : WatchPartyRow,
            subject : Users \cup {None}, plan : SubscriptionType,
            other : Parties \cup {None}, otherRow : WatchPartyRow,
            freemium : SUBSET Users]

Idle == [step |-> "idle", call |-> None, user |-> None, party |-> None,
         row |-> NoRow, subject |-> None, plan |-> "FREE_TIER",
         other |-> None, otherRow |-> NoRow, freemium |-> {}]

TypeOK ==
  /\ party \in [Parties -> WatchPartyRow]
  /\ user \in [Users -> UserRow]
  /\ req \in [Requests -> Request]

Init ==
  /\ party = [p \in Parties |-> NoRow]
  /\ \E plan \in InitialPlans :
       user = [u \in Users |-> [subscriptionType |-> plan[u],
                                hasUsedWatchPartyTrial |-> FALSE,
                                lastFreemiumMovieId |-> None]]
  /\ req = [r \in Requests |-> Idle]

(***************************************************************************)
(* Loading, editing and saving a row.                                      *)
(***************************************************************************)
\* The relations each call loads, which are those its save() writes back.
LoadedRelations(call) ==
  CASE call = "join"       -> {"participants", "bannedUsers"}
    [] call = "joinByCode" -> {"participants", "bannedUsers", "invitedUsers"}
    [] call = "ban"        -> {"participants", "bannedUsers", "invitedUsers"}
    [] call = "metadata"   -> {"participants", "bannedUsers", "invitedUsers", "mutedUsers"}
    [] call \in {"invite", "rejectInvite", "removeInvite"} -> {"invitedUsers"}
    [] call = "unban"      -> {"bannedUsers"}
    [] call \in {"mute", "unmute"} -> {"mutedUsers"}
    [] OTHER               -> {"participants"}

\* Row w with the relations in rels, and those of row v for the rest.
WithRelations(w, rels, v) ==
  [w EXCEPT
     !.participants = IF "participants" \in rels THEN w.participants ELSE v.participants,
     !.invitedUsers = IF "invitedUsers" \in rels THEN w.invitedUsers ELSE v.invitedUsers,
     !.bannedUsers  = IF "bannedUsers"  \in rels THEN w.bannedUsers  ELSE v.bannedUsers,
     !.mutedUsers   = IF "mutedUsers"   \in rels THEN w.mutedUsers   ELSE v.mutedUsers]

\* findOne({ where: { id }, relations })
Load(p, call) == WithRelations(party[p], LoadedRelations(call), NoRow)

\* Faulty variant: a relation that was not loaded is written back as a null user.
SaveNullsRelations(p, row, rels) ==
  party' = [party EXCEPT ![p] =
    [row EXCEPT !.invitedUsers = IF "invitedUsers" \in rels THEN @ ELSE {None}]]

\* partyRepo.save(row): every loaded column and relation overwrites the table.
Save(p, row, rels) ==
  party' = [party EXCEPT ![p] = WithRelations(row, rels, party[p])]

Exists(p) == party[p].status # "NONE"
InvolvedIn(u, p) == party[p].hostId = u \/ u \in party[p].participants

ActivePartiesOf(u) == {p \in Parties : party[p].status = "ACTIVE" /\ InvolvedIn(u, p)}

\* Faulty variant: scheduled parties do not count.
UserHasActivePartyOnly(u) == ActivePartiesOf(u) # {}

UserHasScheduledOrActiveParty(u) ==
  \E p \in Parties : party[p].status \in {"SCHEDULED", "ACTIVE"} /\ InvolvedIn(u, p)

EnsureEligible(plan) == plan \in {"FREEMIUM", "PREMIUM"}

Begin(r, q) == /\ req[r] = Idle
               /\ q.call \in Calls
               /\ req' = [req EXCEPT ![r] = q]
Goto(r, q) == req' = [req EXCEPT ![r] = q]
Finish(r) == Goto(r, Idle)

\* Bound: a party is only created while a free slot is left for it.
RoomForParty ==
  Cardinality({r \in Requests : req[r].call \in {"start", "schedule"}})
    < Cardinality({p \in Parties : ~Exists(p)})

(***************************************************************************)
(* startParty, up to the lookup of the caller's active party.              *)
(***************************************************************************)
StartParty(r, u, m, k) ==
  LET host == user[u] IN
  /\ RoomForParty
  /\ EnsureEligible(host.subscriptionType)
  /\ host.subscriptionType = "FREEMIUM" =>
       /\ ~host.hasUsedWatchPartyTrial
       /\ host.lastFreemiumMovieId \in {None, m}
  /\ Begin(r, [Idle EXCEPT !.call = "start", !.step = "lookup", !.user = u,
                           !.subject = u, !.plan = host.subscriptionType,
                           !.row = [NoRow EXCEPT !.status = "ACTIVE", !.hostId = u,
                                                 !.movieId = m, !.startKey = k,
                                                 !.participants = {u}]])
  /\ UNCHANGED <<party, user>>

(***************************************************************************)
(* joinParty and joinPartyByCode, up to the load of the caller.  A code is *)
(* resolved to the party that holds it now.                                *)
(***************************************************************************)
BeginJoin(r, call, u, p) ==
  /\ party[p].status \in {"SCHEDULED", "ACTIVE"}
  /\ Begin(r, [Idle EXCEPT !.call = call, !.step = "account", !.user = u,
                           !.party = p, !.row = Load(p, call), !.subject = u])
  /\ UNCHANGED <<party, user>>

JoinParty(r, u, p) == party[p].hostId = u /\ BeginJoin(r, "join", u, p)
JoinPartyByCode(r, u, p) == BeginJoin(r, "joinByCode", u, p)

\* The caller is already among the participants that were loaded.
AlreadyIn(q) == q.user \in q.row.participants

\* Faulty variants: the ban is not checked; the plan is not checked.
AdmissibleThoughBanned(q, a) ==
  /\ EnsureEligible(a.subscriptionType)
  /\ a.subscriptionType = "FREEMIUM" =>
       /\ a.lastFreemiumMovieId \in {None, q.row.movieId}
       /\ ~a.hasUsedWatchPartyTrial
AdmissibleOnAnyPlan(q, a) == q.user \notin q.row.bannedUsers

\* What the handler asks of the caller's row a before it goes on.
Admissible(q, a) ==
  LET freemium == a.subscriptionType = "FREEMIUM" IN
  /\ EnsureEligible(a.subscriptionType)
  /\ q.call = "joinByCode" => q.user \notin q.row.bannedUsers
  /\ freemium => a.lastFreemiumMovieId \in {None, q.row.movieId}
  /\ freemium /\ a.hasUsedWatchPartyTrial =>
       \/ q.call = "startScheduled"
       \/ q.call = "joinByCode" /\ AlreadyIn(q)

LoadAccount(r) ==
  LET q == req[r]
      a == user[q.user] IN
  /\ q.step = "account"
  /\ IF ~Admissible(q, a) THEN Finish(r)
     ELSE IF q.call = "startScheduled"
     THEN Goto(r, [q EXCEPT !.plan = a.subscriptionType, !.step = "save",
                            !.row = [@ EXCEPT !.status = "ACTIVE"]])
     ELSE Goto(r, [q EXCEPT !.plan = a.subscriptionType,
                            !.step = IF q.row.status = "ACTIVE" /\ ~AlreadyIn(q)
                                     THEN "lookup" ELSE "count"])
  /\ UNCHANGED <<party, user>>

(***************************************************************************)
(* Moving the caller out of another active party.                          *)
(***************************************************************************)
\* The request once that is done, or was not needed.
Vacated(q) ==
  IF q.call = "end" THEN Idle
  ELSE [q EXCEPT !.step = IF q.call = "startScheduled" THEN "account" ELSE "count",
                 !.other = None, !.otherRow = NoRow, !.freemium = {}]

\* getActivePartyForUser joins the participants and filters the joined rows
\* on (hostId = uid OR participant = uid): of a party that somebody else
\* hosts, it loads only the caller's own seat.
LoadedSeats(u, p) ==
  IF party[p].hostId = u THEN party[p].participants ELSE party[p].participants \cap {u}

Lookup(r) ==
  LET q == req[r]
      active == ActivePartiesOf(q.user) IN
  /\ q.step = "lookup"
  /\ \/ active = {} /\ Goto(r, Vacated(q))
     \/ \E o \in active :
          IF o = q.party THEN Goto(r, Vacated(q))
          ELSE IF party[o].hostId = q.user
          THEN Goto(r, [q EXCEPT !.step = "endLoad", !.other = o])
          ELSE Goto(r, [q EXCEPT !.step = "leaveOther", !.other = o,
                 !.otherRow = [WithRelations(party[o], {}, NoRow) EXCEPT
                                 !.participants = LoadedSeats(q.user, o) \ {q.user}]])
  /\ UNCHANGED <<party, user>>

LeaveOther(r) ==
  LET q == req[r] IN
  /\ q.step = "leaveOther"
  /\ Save(q.other, q.otherRow, {"participants"})
  /\ Goto(r, Vacated(q))
  /\ UNCHANGED user

(***************************************************************************)
(* endParty: the endpoint, and the same method called by the three others. *)
(***************************************************************************)
EndParty(r, u, p) ==
  /\ Exists(p)
  /\ Begin(r, [Idle EXCEPT !.call = "end", !.step = "endLoad", !.user = u, !.other = p])
  /\ UNCHANGED <<party, user>>

\* Faulty variant: the host is passed over.
FreemiumGuests(w) ==
  {x \in w.participants \ {w.hostId} : user[x].subscriptionType = "FREEMIUM"}

FreemiumUsers(w) == {x \in w.participants : user[x].subscriptionType = "FREEMIUM"}

EndLoad(r) ==
  LET q == req[r]
      w == Load(q.other, "end") IN
  /\ q.step = "endLoad"
  /\ IF w.hostId \notin {None, q.user} THEN Finish(r)
     ELSE IF w.status = "ENDED" THEN Goto(r, Vacated(q))
     ELSE Goto(r, [q EXCEPT !.step = "endSave",
                     !.otherRow = [w EXCEPT !.status = "ENDED"],
                     !.freemium = FreemiumUsers(w)])
  /\ UNCHANGED <<party, user>>

EndSave(r) ==
  LET q == req[r] IN
  /\ q.step = "endSave"
  /\ Save(q.other, q.otherRow, {"participants"})
  /\ Goto(r, IF q.freemium = {} THEN Vacated(q) ELSE [q EXCEPT !.step = "downgrade"])
  /\ UNCHANGED user

Downgrade(r) ==
  LET q == req[r] IN
  /\ q.step = "downgrade"
  /\ user' = [u \in Users |->
                IF u \in q.freemium
                THEN [user[u] EXCEPT !.subscriptionType = "FREE_TIER",
                                     !.hasUsedWatchPartyTrial = TRUE,
                                     !.lastFreemiumMovieId = None]
                ELSE user[u]]
  /\ Goto(r, Vacated(q))
  /\ UNCHANGED party

(***************************************************************************)
(* The limit of one scheduled or active party for freemium users, and the  *)
(* invitation a scheduled party asks for.                                  *)
(***************************************************************************)
OverFreemiumLimit(q) ==
  /\ q.plan = "FREEMIUM"
  /\ q.call = "joinByCode" => ~AlreadyIn(q)
  /\ UserHasScheduledOrActiveParty(q.user)

\* Faulty variant: the invitation is asked for once the party runs.
NotInvitedOnceActive(q) ==
  /\ q.call = "joinByCode"
  /\ q.row.status = "ACTIVE"
  /\ q.user \notin q.row.invitedUsers \cup {q.row.hostId}

NotInvited(q) ==
  /\ q.call = "joinByCode"
  /\ q.row.status = "SCHEDULED"
  /\ q.user \notin q.row.invitedUsers \cup {q.row.hostId}

\* The loaded row with user u joined: a host who is back has not left.
JoinedRow(w, u) ==
  [w EXCEPT !.participants = @ \cup {u}, !.hostLeftAt = @ /\ w.hostId # u]

Count(r) ==
  LET q == req[r] IN
  /\ q.step = "count"
  /\ IF OverFreemiumLimit(q) \/ NotInvited(q) THEN Finish(r)
     ELSE IF q.call = "start"
     THEN Goto(r, [q EXCEPT !.step = IF q.row.startKey = None THEN "create" ELSE "key"])
     ELSE IF q.call = "schedule"
     THEN Goto(r, [q EXCEPT !.step = "invitees"])
     ELSE Goto(r, [q EXCEPT !.step = "save", !.row = JoinedRow(q.row, q.user)])
  /\ UNCHANGED <<party, user>>

(***************************************************************************)
(* Creating a party.                                                       *)
(***************************************************************************)
\* The idempotency lookup of startParty, after the other party was ended.
KeyLookup(r) ==
  LET q == req[r] IN
  /\ q.step = "key"
  /\ IF \E p \in Parties : /\ party[p].startKey = q.row.startKey
                           /\ party[p].hostId = q.user
                           /\ party[p].status = "ACTIVE"
     THEN Finish(r)
     ELSE Goto(r, [q EXCEPT !.step = "create"])
  /\ UNCHANGED <<party, user>>

\* scheduleParty, up to the load of the caller, and its check of the invitees.
ScheduleParty(r, u, m, invitees) ==
  /\ RoomForParty
  /\ EnsureEligible(user[u].subscriptionType)
  /\ Begin(r, [Idle EXCEPT !.call = "schedule", !.step = "count", !.user = u,
                           !.plan = user[u].subscriptionType,
                           !.row = [NoRow EXCEPT !.status = "SCHEDULED", !.hostId = u,
                                                 !.movieId = m, !.participants = {u},
                                                 !.invitedUsers = invitees]])
  /\ UNCHANGED <<party, user>>

LoadInvitees(r) ==
  LET q == req[r] IN
  /\ q.step = "invitees"
  /\ IF \E x \in q.row.invitedUsers : user[x].subscriptionType = "FREE_TIER"
     THEN Finish(r)
     ELSE Goto(r, [q EXCEPT !.step = "create"])
  /\ UNCHANGED <<party, user>>

\* A party with this startKey exists: the unique constraint refuses the insert.
KeyTaken(k) == k # None /\ \E p \in Parties : party[p].startKey = k

Create(r) ==
  LET q == req[r] IN
  /\ q.step = "create"
  /\ IF KeyTaken(q.row.startKey) THEN Finish(r) /\ UNCHANGED party
     ELSE \E p \in Parties :
            /\ ~Exists(p)
            /\ party' = [party EXCEPT ![p] = q.row]
            /\ IF q.call = "start" /\ q.plan = "FREEMIUM"
               THEN Goto(r, [q EXCEPT !.step = "track", !.party = p]) ELSE Finish(r)
  /\ UNCHANGED user

\* Faulty variant: any party that is not active can be started.
StartUnlessActive(r, u, p) ==
  /\ party[p].status \in {"SCHEDULED", "ENDED"}
  /\ party[p].hostId \in {None, u}
  /\ Begin(r, [Idle EXCEPT !.call = "startScheduled", !.step = "lookup", !.user = u,
                           !.party = p, !.row = Load(p, "startScheduled"), !.subject = u])
  /\ UNCHANGED <<party, user>>

StartScheduledParty(r, u, p) ==
  /\ party[p].status = "SCHEDULED"
  /\ party[p].hostId \in {None, u}
  /\ Begin(r, [Idle EXCEPT !.call = "startScheduled", !.step = "lookup", !.user = u,
                           !.party = p, !.row = Load(p, "startScheduled"), !.subject = u])
  /\ UNCHANGED <<party, user>>

(***************************************************************************)
(* Calls that load a party, edit the loaded row and save it.  For some the *)
(* row of the user concerned is loaded in between (step "subject").        *)
(***************************************************************************)
Edit(r, call, step, u, p, x, row) ==
  /\ Begin(r, [Idle EXCEPT !.call = call, !.step = step, !.user = u, !.party = p,
                           !.subject = x, !.row = row])
  /\ UNCHANGED <<party, user>>

IsHost(u, p) == Exists(p) /\ party[p].hostId = u

InviteToParty(r, u, p, x) ==
  IsHost(u, p) /\ Edit(r, "invite", "subject", u, p, x, Load(p, "invite"))
BanUser(r, u, p, x) ==
  IsHost(u, p) /\ Edit(r, "ban", "subject", u, p, x, Load(p, "ban"))
MuteUser(r, u, p, x) ==
  IsHost(u, p) /\ Edit(r, "mute", "subject", u, p, x, Load(p, "mute"))
LeaveParty(r, u, p) ==
  Exists(p) /\ Edit(r, "leave", "subject", u, p, u, Load(p, "leave"))

\* The loaded row as edited once the user x concerned has been loaded.
EditedRow(call, w, x) ==
  CASE call = "invite" -> [w EXCEPT !.invitedUsers = @ \cup {x}]
    [] call = "mute"   -> [w EXCEPT !.mutedUsers = @ \cup {x}]
    [] call = "ban"    -> [w EXCEPT !.bannedUsers = @ \cup {x},
                                    !.participants = @ \ {x},
                                    !.invitedUsers = @ \ {x}]
    [] OTHER           -> [w EXCEPT !.participants = @ \ {x},
                                    !.hostLeftAt = @ \/ w.hostId = x]

LoadSubject(r) ==
  LET q == req[r]
      plan == user[q.subject].subscriptionType IN
  /\ q.step = "subject"
  /\ IF q.call = "invite" /\ plan = "FREE_TIER" /\ q.subject \notin q.row.invitedUsers
     THEN Finish(r)
     ELSE Goto(r, [q EXCEPT !.step = "save", !.plan = plan,
                            !.row = EditedRow(q.call, q.row, q.subject)])
  /\ UNCHANGED <<party, user>>

RejectInvite(r, u, p) ==
  /\ Exists(p)
  /\ Edit(r, "rejectInvite", "save", u, p, u,
          LET w == Load(p, "rejectInvite") IN [w EXCEPT !.invitedUsers = @ \ {u}])
RemoveInvite(r, u, p, x) ==
  /\ IsHost(u, p)
  /\ Edit(r, "removeInvite", "save", u, p, x,
          LET w == Load(p, "removeInvite") IN [w EXCEPT !.invitedUsers = @ \ {x}])
UnbanUser(r, u, p, x) ==
  /\ IsHost(u, p)
  /\ Edit(r, "unban", "save", u, p, x,
          LET w == Load(p, "unban") IN [w EXCEPT !.bannedUsers = @ \ {x}])
UnmuteUser(r, u, p, x) ==
  /\ IsHost(u, p)
  /\ Edit(r, "unmute", "save", u, p, x,
          LET w == Load(p, "unmute") IN [w EXCEPT !.mutedUsers = @ \ {x}])

\* subject is None when the user was not among the participants loaded.
KickUser(r, u, p, x) ==
  /\ IsHost(u, p)
  /\ Edit(r, "kick", "save", u, p, IF x \in party[p].participants THEN x ELSE None,
          LET w == Load(p, "kick") IN [w EXCEPT !.participants = @ \ {x}])

\* Faulty variant: the new host need not be a participant.
TransferToAnyone(r, u, p, x) ==
  /\ IsHost(u, p)
  /\ party[p].status = "ACTIVE"
  /\ Edit(r, "transferHost", "save", u, p, x,
          [Load(p, "transferHost") EXCEPT !.hostId = x, !.hostLeftAt = FALSE])

TransferHost(r, u, p, x) ==
  /\ IsHost(u, p)
  /\ party[p].status = "ACTIVE"
  /\ x \in party[p].participants
  /\ Edit(r, "transferHost", "save", u, p, x,
          [Load(p, "transferHost") EXCEPT !.hostId = x, !.hostLeftAt = FALSE])

\* getPartyMetadata by any user, when maybeReassignHost finds that the host
\* left a minute ago or more.  Whether a minute has passed is not modelled.
ReassignHost(r, u, p, x) ==
  /\ party[p].status = "ACTIVE"
  /\ party[p].hostLeftAt
  /\ x \in party[p].participants
  /\ \A y \in party[p].participants : x <= y
  /\ Edit(r, "metadata", "save", u, p, x,
          [Load(p, "metadata") EXCEPT !.hostId = x, !.hostLeftAt = FALSE])

(***************************************************************************)
(* The save of a joined, started or edited party, and what follows it.     *)
(***************************************************************************)
TracksMovie(q) ==
  q.call \in {"join", "joinByCode", "startScheduled", "ban", "leave"} /\ q.plan = "FREEMIUM"

SaveParty(r) ==
  LET q == req[r] IN
  /\ q.step = "save"
  /\ Save(q.party, q.row, LoadedRelations(q.call))
  /\ IF TracksMovie(q) THEN Goto(r, [q EXCEPT !.step = "track"])
     ELSE IF q.call = "kick" /\ q.subject # None THEN Goto(r, [q EXCEPT !.step = "kicked"])
     ELSE Finish(r)
  /\ UNCHANGED user

LoadKicked(r) ==
  LET q == req[r] IN
  /\ q.step = "kicked"
  /\ IF user[q.subject].subscriptionType = "FREEMIUM"
     THEN Goto(r, [q EXCEPT !.step = "track"]) ELSE Finish(r)
  /\ UNCHANGED <<party, user>>

TrackMovie(r) ==
  LET q == req[r] IN
  /\ q.step = "track"
  /\ user' = [user EXCEPT ![q.subject].lastFreemiumMovieId = q.row.movieId]
  /\ Finish(r)
  /\ UNCHANGED party

(***************************************************************************)
(* Outside the service: billing moves a user between plans, and a request  *)
(* may die at any of its database calls (error, timeout, restart).         *)
(***************************************************************************)
Purchase(u, plan) ==
  /\ "purchase" \in Calls
  /\ plan \in {"FREEMIUM", "PREMIUM"}
  /\ user' = [user EXCEPT ![u].subscriptionType = plan]
  /\ UNCHANGED <<party, req>>

Expire(u) ==
  /\ "expire" \in Calls
  /\ user[u].subscriptionType = "PREMIUM"
  /\ user' = [user EXCEPT ![u].subscriptionType = "FREE_TIER"]
  /\ UNCHANGED <<party, req>>

Fail(r) ==
  /\ "fail" \in Calls
  /\ req[r] # Idle
  /\ Finish(r)
  /\ UNCHANGED <<party, user>>

NewCall(r, u) ==
  \/ \E m \in Movies, k \in Keys \cup {None} : StartParty(r, u, m, k)
  \/ \E m \in Movies, xs \in SUBSET (Users \ {u}) : ScheduleParty(r, u, m, xs)
  \/ \E p \in Parties :
       \/ JoinParty(r, u, p)
       \/ JoinPartyByCode(r, u, p)
       \/ EndParty(r, u, p)
       \/ StartScheduledParty(r, u, p)
       \/ LeaveParty(r, u, p)
       \/ RejectInvite(r, u, p)
       \/ \E x \in Users :
            \/ InviteToParty(r, u, p, x)
            \/ RemoveInvite(r, u, p, x)
            \/ KickUser(r, u, p, x)
            \/ BanUser(r, u, p, x)
            \/ UnbanUser(r, u, p, x)
            \/ MuteUser(r, u, p, x)
            \/ UnmuteUser(r, u, p, x)
            \/ TransferHost(r, u, p, x)
            \/ ReassignHost(r, u, p, x)

Continue(r) ==
  \/ LoadAccount(r)
  \/ LoadSubject(r)
  \/ Lookup(r)
  \/ LeaveOther(r)
  \/ EndLoad(r)
  \/ EndSave(r)
  \/ Downgrade(r)
  \/ Count(r)
  \/ KeyLookup(r)
  \/ LoadInvitees(r)
  \/ Create(r)
  \/ SaveParty(r)
  \/ LoadKicked(r)
  \/ TrackMovie(r)

Next ==
  \/ \E r \in Requests : Continue(r) \/ Fail(r) \/ \E u \in Users : NewCall(r, u)
  \/ \E u \in Users : Expire(u) \/ \E plan \in SubscriptionType : Purchase(u, plan)

Spec == Init /\ [][Next]_vars

(***************************************************************************)
(* Properties.                                                             *)
(***************************************************************************)
Quiet == \A r \in Requests : req[r] = Idle

Lifecycle == [NONE |-> 0, SCHEDULED |-> 1, ACTIVE |-> 2, ENDED |-> 3]

\* A party moves from SCHEDULED to ACTIVE to ENDED and never back: no handler
\* revives a party that was ended or unstarts one that runs.
LifecycleOnlyForward ==
  [][\A p \in Parties : Lifecycle[party[p].status] <= Lifecycle[party'[p].status]]_vars

\* A banned user who is out of the party takes no seat in it again while the
\* ban stands, except the host, whom joinParty admits without reading the bans.
BannedStayOut ==
  [][\A p \in Parties :
       party'[p].participants \cap party[p].bannedUsers
         \subseteq party[p].participants \cup {party[p].hostId}]_vars

\* Until a scheduled party starts, a seat in it is taken only by its host and
\* by users invited to it.
ScheduledInviteOnly ==
  [][\A p \in Parties : party[p].status = "SCHEDULED" =>
       party'[p].participants
         \subseteq party[p].participants \cup party[p].invitedUsers \cup {party[p].hostId}]_vars

\* Once endParty is through, nobody who sat in the ended party is on the
\* freemium plan any more (billing aside): every way of ending a party,
\* endpoint or implied by another call, downgrades them all.
EndDowngradesFreemium ==
  Quiet => \A p \in Parties : party[p].status = "ENDED" =>
             \A u \in party[p].participants : user[u].subscriptionType # "FREEMIUM"

\* A freemium user is host or participant of at most one scheduled or active
\* party, over every sequence of starts, joins, transfers and failovers.
LivePartiesOf(u) ==
  {p \in Parties : party[p].status \in {"SCHEDULED", "ACTIVE"} /\ InvolvedIn(u, p)}
FreemiumOneLiveParty ==
  \A u \in Users : user[u].subscriptionType = "FREEMIUM" =>
    \A p, o \in LivePartiesOf(u) : p = o
===============================================================================
