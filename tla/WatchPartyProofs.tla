--------------------------- MODULE WatchPartyProofs ---------------------------
(***************************************************************************)
(* Proofs about WatchParty and WatchPartyAdmission, for every set of       *)
(* users, parties, movies and keys.  Type correctness and the three        *)
(* admission invariants hold for any number of requests in flight and      *)
(* every interleaving; the rules of the service (lifecycle, bans,          *)
(* invitations, freemium limit and downgrade) hold while no two requests   *)
(* overlap, and that is as far as the code keeps them: a request saves the *)
(* row it loaded, and nothing refuses the save of a stale one.             *)
(***************************************************************************)
EXTENDS WatchPartyAdmission, TLAPS

\* What a request holds at the steps that look a user or a party up by it.
WellFormed(q) ==
  /\ q.step # "idle" => q.user \in Users
  /\ q.step = "endLoad" => q.other \in Parties
  /\ q.step \in {"subject", "kicked"} => q.subject \in Users

TypeInv == TypeOK /\ \A r \in Requests : WellFormed(req[r])

LEMMA NoRowType == NoRow \in WatchPartyRow
  BY DEF NoRow, WatchPartyRow, WatchPartyStatus

LEMMA IdleType == Idle \in Request /\ WellFormed(Idle)
  BY NoRowType DEF Idle, Request, Steps, SubscriptionType, WellFormed

\* Mixing the relations of two rows gives a row.
LEMMA WithRelationsType ==
  ASSUME NEW w \in WatchPartyRow, NEW v \in WatchPartyRow, NEW rels
  PROVE  WithRelations(w, rels, v) \in WatchPartyRow
  BY DEF WithRelations, WatchPartyRow

LEMMA LoadType ==
  ASSUME TypeOK, NEW p \in Parties, NEW call
  PROVE  Load(p, call) \in WatchPartyRow
  BY NoRowType, WithRelationsType DEF Load, TypeOK

LEMMA SaveType ==
  ASSUME TypeOK, NEW p, NEW row \in WatchPartyRow, NEW rels, Save(p, row, rels)
  PROVE  party' \in [Parties -> WatchPartyRow]
  BY WithRelationsType DEF Save, TypeOK

\* A request slot takes a well-formed record.
LEMMA GotoType ==
  ASSUME TypeInv, NEW r \in Requests, NEW q \in Request, WellFormed(q), Goto(r, q)
  PROVE  /\ req' \in [Requests -> Request]
         /\ \A s \in Requests : WellFormed(req'[s])
  BY DEF Goto, TypeInv, TypeOK

LEMMA BeginType ==
  ASSUME TypeInv, NEW r \in Requests, NEW q \in Request, WellFormed(q), Begin(r, q)
  PROVE  /\ req' \in [Requests -> Request]
         /\ \A s \in Requests : WellFormed(req'[s])
  BY GotoType DEF Begin, Goto

LEMMA VacatedType ==
  ASSUME NEW q \in Request, WellFormed(q), q.user \in Users
  PROVE  Vacated(q) \in Request /\ WellFormed(Vacated(q))
<1>1. CASE q.call = "end"
  BY <1>1, IdleType DEF Vacated
<1>2. CASE q.call # "end"
  <2> DEFINE step == IF q.call = "startScheduled" THEN "account" ELSE "count"
  <2>1. step \in Steps \ {"endLoad", "subject", "kicked", "idle"}
    BY DEF Steps
  <2>2. Vacated(q) = [q EXCEPT !.step = step, !.other = None,
                               !.otherRow = NoRow, !.freemium = {}]
    BY <1>2 DEF Vacated
  <2> HIDE DEF step
  <2> QED BY <2>1, <2>2, NoRowType DEF Request, WellFormed
<1> QED BY <1>1, <1>2

(***************************************************************************)
(* New calls: each puts a well-formed request in an idle slot.             *)
(***************************************************************************)
LEMMA StartPartyType ==
  ASSUME TypeInv, NEW r \in Requests, NEW u \in Users, NEW m \in Movies,
         NEW k \in Keys \cup {None}, StartParty(r, u, m, k)
  PROVE  TypeInv'
<1> DEFINE row == [NoRow EXCEPT !.status = "ACTIVE", !.hostId = u, !.movieId = m,
                                !.startKey = k, !.participants = {u}]
           q == [Idle EXCEPT !.call = "start", !.step = "lookup", !.user = u,
                             !.subject = u, !.plan = user[u].subscriptionType, !.row = row]
<1>1. row \in WatchPartyRow
  BY NoRowType DEF WatchPartyRow, WatchPartyStatus
<1>2. user[u].subscriptionType \in SubscriptionType
  BY DEF TypeInv, TypeOK, UserRow
<1>3. Begin(r, q) /\ UNCHANGED <<party, user>>
  BY DEF StartParty
<1> HIDE DEF row
<1>4. q \in Request /\ WellFormed(q)
  BY <1>1, <1>2, IdleType DEF Request, WellFormed, Steps, AllCalls
<1> HIDE DEF q
<1> QED BY <1>3, <1>4, BeginType DEF TypeInv, TypeOK

LEMMA ScheduleType ==
  ASSUME TypeInv, NEW r \in Requests, NEW u \in Users, NEW m \in Movies,
         NEW xs \in SUBSET (Users \ {u}), ScheduleParty(r, u, m, xs)
  PROVE  TypeInv'
<1> DEFINE row == [NoRow EXCEPT !.status = "SCHEDULED", !.hostId = u, !.movieId = m,
                                !.participants = {u}, !.invitedUsers = xs]
           q == [Idle EXCEPT !.call = "schedule", !.step = "count", !.user = u,
                             !.plan = user[u].subscriptionType, !.row = row]
<1>1. row \in WatchPartyRow
  BY NoRowType DEF WatchPartyRow, WatchPartyStatus
<1>2. user[u].subscriptionType \in SubscriptionType
  BY DEF TypeInv, TypeOK, UserRow
<1>3. Begin(r, q) /\ UNCHANGED <<party, user>>
  BY DEF ScheduleParty
<1> HIDE DEF row
<1>4. q \in Request /\ WellFormed(q)
  BY <1>1, <1>2, IdleType DEF Request, WellFormed, Steps, AllCalls
<1> HIDE DEF q
<1> QED BY <1>3, <1>4, BeginType DEF TypeInv, TypeOK

LEMMA BeginJoinType ==
  ASSUME TypeInv, NEW r \in Requests, NEW call \in {"join", "joinByCode"},
         NEW u \in Users, NEW p \in Parties, BeginJoin(r, call, u, p)
  PROVE  TypeInv'
<1> DEFINE row == Load(p, call)
           q == [Idle EXCEPT !.call = call, !.step = "account", !.user = u,
                             !.party = p, !.row = row, !.subject = u]
<1>1. row \in WatchPartyRow
  BY LoadType DEF TypeInv
<1>2. Begin(r, q) /\ UNCHANGED <<party, user>>
  BY DEF BeginJoin
<1> HIDE DEF row
<1>3. q \in Request /\ WellFormed(q)
  BY <1>1, IdleType DEF Request, WellFormed, Steps, AllCalls
<1> HIDE DEF q
<1> QED BY <1>2, <1>3, BeginType DEF TypeInv, TypeOK

LEMMA EndPartyType ==
  ASSUME TypeInv, NEW r \in Requests, NEW u \in Users, NEW p \in Parties, EndParty(r, u, p)
  PROVE  TypeInv'
<1> DEFINE q == [Idle EXCEPT !.call = "end", !.step = "endLoad", !.user = u, !.other = p]
<1>1. Begin(r, q) /\ UNCHANGED <<party, user>>
  BY DEF EndParty
<1>2. q \in Request /\ WellFormed(q)
  BY IdleType DEF Request, WellFormed, Steps, AllCalls
<1> HIDE DEF q
<1> QED BY <1>1, <1>2, BeginType DEF TypeInv, TypeOK

LEMMA StartScheduledType ==
  ASSUME TypeInv, NEW r \in Requests, NEW u \in Users, NEW p \in Parties,
         StartScheduledParty(r, u, p)
  PROVE  TypeInv'
<1> DEFINE row == Load(p, "startScheduled")
           q == [Idle EXCEPT !.call = "startScheduled", !.step = "lookup", !.user = u,
                             !.party = p, !.row = row, !.subject = u]
<1>1. row \in WatchPartyRow
  BY LoadType DEF TypeInv
<1>2. Begin(r, q) /\ UNCHANGED <<party, user>>
  BY DEF StartScheduledParty
<1> HIDE DEF row
<1>3. q \in Request /\ WellFormed(q)
  BY <1>1, IdleType DEF Request, WellFormed, Steps, AllCalls
<1> HIDE DEF q
<1> QED BY <1>2, <1>3, BeginType DEF TypeInv, TypeOK

\* All the calls that load a row, edit it and save it start alike.
LEMMA EditType ==
  ASSUME TypeInv, NEW r \in Requests, NEW call \in AllCalls, NEW step \in {"subject", "save"},
         NEW u \in Users, NEW p \in Parties, NEW x \in Users \cup {None},
         NEW row \in WatchPartyRow, step = "subject" => x \in Users,
         Edit(r, call, step, u, p, x, row)
  PROVE  TypeInv'
<1> DEFINE q == [Idle EXCEPT !.call = call, !.step = step, !.user = u, !.party = p,
                             !.subject = x, !.row = row]
<1>1. Begin(r, q) /\ UNCHANGED <<party, user>>
  BY DEF Edit
<1>2. q \in Request /\ WellFormed(q)
  BY IdleType DEF Request, WellFormed, Steps
<1> HIDE DEF q
<1> QED BY <1>1, <1>2, BeginType DEF TypeInv, TypeOK

LEMMA NewCallType ==
  ASSUME TypeInv, NEW r \in Requests, NEW u \in Users, NewCall(r, u)
  PROVE  TypeInv'
<1>1. ASSUME NEW m \in Movies, NEW k \in Keys \cup {None}, StartParty(r, u, m, k)
      PROVE  TypeInv'
  BY <1>1, StartPartyType
<1>2. ASSUME NEW m \in Movies, NEW xs \in SUBSET (Users \ {u}), ScheduleParty(r, u, m, xs)
      PROVE  TypeInv'
  BY <1>2, ScheduleType
<1>3. ASSUME NEW p \in Parties,
             \/ JoinParty(r, u, p) \/ JoinPartyByCode(r, u, p) \/ EndParty(r, u, p)
             \/ StartScheduledParty(r, u, p) \/ LeaveParty(r, u, p) \/ RejectInvite(r, u, p)
      PROVE  TypeInv'
  <2> DEFINE out == [Load(p, "rejectInvite") EXCEPT !.invitedUsers = @ \ {u}]
  <2>1. Load(p, "leave") \in WatchPartyRow /\ Load(p, "rejectInvite") \in WatchPartyRow
    BY LoadType DEF TypeInv
  <2>2. out \in WatchPartyRow
    BY <2>1 DEF WatchPartyRow
  <2>3. CASE JoinParty(r, u, p) \/ JoinPartyByCode(r, u, p)
    BY <2>3, BeginJoinType DEF JoinParty, JoinPartyByCode
  <2>4. CASE EndParty(r, u, p) \/ StartScheduledParty(r, u, p)
    BY <2>4, EndPartyType, StartScheduledType
  <2>5. CASE LeaveParty(r, u, p)
    BY <2>5, <2>1, EditType DEF LeaveParty, AllCalls
  <2>6. CASE RejectInvite(r, u, p)
    <3>1. Edit(r, "rejectInvite", "save", u, p, u, out)
      BY <2>6 DEF RejectInvite
    <3> QED BY <3>1, <2>2, EditType DEF AllCalls
  <2> QED BY <1>3, <2>3, <2>4, <2>5, <2>6
<1>4. ASSUME NEW p \in Parties, NEW x \in Users,
             \/ InviteToParty(r, u, p, x) \/ BanUser(r, u, p, x) \/ MuteUser(r, u, p, x)
      PROVE  TypeInv'
  <2>1. \A call : Load(p, call) \in WatchPartyRow
    BY LoadType DEF TypeInv
  <2> QED BY <1>4, <2>1, EditType DEF InviteToParty, BanUser, MuteUser, AllCalls
<1>5. ASSUME NEW p \in Parties, NEW x \in Users,
             \/ RemoveInvite(r, u, p, x) \/ UnbanUser(r, u, p, x) \/ UnmuteUser(r, u, p, x)
             \/ KickUser(r, u, p, x)
      PROVE  TypeInv'
  <2> DEFINE uninvited == [Load(p, "removeInvite") EXCEPT !.invitedUsers = @ \ {x}]
             unbanned == [Load(p, "unban") EXCEPT !.bannedUsers = @ \ {x}]
             unmuted == [Load(p, "unmute") EXCEPT !.mutedUsers = @ \ {x}]
             kicked == [Load(p, "kick") EXCEPT !.participants = @ \ {x}]
             who == IF x \in party[p].participants THEN x ELSE None
  <2>1. \A call : Load(p, call) \in WatchPartyRow
    BY LoadType DEF TypeInv
  <2>2. /\ uninvited \in WatchPartyRow /\ unbanned \in WatchPartyRow
        /\ unmuted \in WatchPartyRow /\ kicked \in WatchPartyRow
    BY <2>1 DEF WatchPartyRow
  <2>3. \/ Edit(r, "removeInvite", "save", u, p, x, uninvited)
        \/ Edit(r, "unban", "save", u, p, x, unbanned)
        \/ Edit(r, "unmute", "save", u, p, x, unmuted)
        \/ Edit(r, "kick", "save", u, p, who, kicked)
    BY <1>5 DEF RemoveInvite, UnbanUser, UnmuteUser, KickUser
  <2>4. who \in Users \cup {None}
    OBVIOUS
  <2> HIDE DEF uninvited, unbanned, unmuted, kicked, who
  <2> QED BY <2>2, <2>3, <2>4, EditType DEF AllCalls
<1>6. ASSUME NEW p \in Parties, NEW x \in Users,
             TransferHost(r, u, p, x) \/ ReassignHost(r, u, p, x)
      PROVE  TypeInv'
  <2> DEFINE transferred == [Load(p, "transferHost") EXCEPT !.hostId = x, !.hostLeftAt = FALSE]
             reassigned == [Load(p, "metadata") EXCEPT !.hostId = x, !.hostLeftAt = FALSE]
  <2>1. \A call : Load(p, call) \in WatchPartyRow
    BY LoadType DEF TypeInv
  <2>2. transferred \in WatchPartyRow /\ reassigned \in WatchPartyRow
    BY <2>1 DEF WatchPartyRow
  <2>3. \/ Edit(r, "transferHost", "save", u, p, x, transferred)
        \/ Edit(r, "metadata", "save", u, p, x, reassigned)
    BY <1>6 DEF TransferHost, ReassignHost
  <2> HIDE DEF transferred, reassigned
  <2> QED BY <2>2, <2>3, EditType DEF AllCalls
<1> QED BY <1>1, <1>2, <1>3, <1>4, <1>5, <1>6 DEF NewCall

(***************************************************************************)
(* The further steps of a request.                                         *)
(***************************************************************************)
\* What is known of a slot that holds a request.
LEMMA RequestFacts ==
  ASSUME TypeInv, NEW r \in Requests, req[r].step # "idle"
  PROVE  /\ req[r] \in Request /\ WellFormed(req[r]) /\ req[r].user \in Users
         /\ req[r].row \in WatchPartyRow /\ req[r].otherRow \in WatchPartyRow
         /\ user[req[r].user].subscriptionType \in SubscriptionType
  BY DEF TypeInv, TypeOK, WellFormed, Request, UserRow

\* Steps that only move the request on.
LEMMA MoveType ==
  ASSUME TypeInv, NEW r \in Requests, NEW q \in Request, WellFormed(q),
         Goto(r, q) \/ Finish(r), UNCHANGED <<party, user>>
  PROVE  TypeInv'
  BY GotoType, IdleType DEF Finish, TypeInv, TypeOK

LEMMA LoadAccountType ==
  ASSUME TypeInv, NEW r \in Requests, LoadAccount(r)
  PROVE  TypeInv'
<1> DEFINE q == req[r]
           plan == user[q.user].subscriptionType
           active == [q.row EXCEPT !.status = "ACTIVE"]
           next == IF q.row.status = "ACTIVE" /\ ~AlreadyIn(q) THEN "lookup" ELSE "count"
           started == [q EXCEPT !.plan = plan, !.step = "save", !.row = active]
           joining == [q EXCEPT !.plan = plan, !.step = next]
<1>1. q.step = "account"
  BY DEF LoadAccount
<1>2. q \in Request /\ q.user \in Users /\ plan \in SubscriptionType /\ active \in WatchPartyRow
  BY <1>1, RequestFacts DEF WatchPartyRow, WatchPartyStatus
<1>3. next \in {"lookup", "count"}
  OBVIOUS
<1>4. \/ Finish(r) \/ Goto(r, started) \/ Goto(r, joining)
  BY DEF LoadAccount
<1>5. UNCHANGED <<party, user>>
  BY DEF LoadAccount
<1> HIDE DEF q, plan, active, next
<1>6. started \in Request /\ WellFormed(started)
  BY <1>2 DEF Request, WellFormed, Steps
<1>7. joining \in Request /\ WellFormed(joining)
  BY <1>2, <1>3 DEF Request, WellFormed, Steps
<1> HIDE DEF started, joining
<1> QED BY <1>4, <1>5, <1>6, <1>7, MoveType

LEMMA EditedRowType ==
  ASSUME NEW call, NEW w \in WatchPartyRow, NEW x \in Users
  PROVE  EditedRow(call, w, x) \in WatchPartyRow
<1>1. /\ [w EXCEPT !.invitedUsers = @ \cup {x}] \in WatchPartyRow
      /\ [w EXCEPT !.mutedUsers = @ \cup {x}] \in WatchPartyRow
      /\ [w EXCEPT !.bannedUsers = @ \cup {x}, !.participants = @ \ {x},
                   !.invitedUsers = @ \ {x}] \in WatchPartyRow
      /\ [w EXCEPT !.participants = @ \ {x}, !.hostLeftAt = @ \/ w.hostId = x] \in WatchPartyRow
  BY DEF WatchPartyRow
<1> QED BY <1>1 DEF EditedRow

LEMMA LoadSubjectType ==
  ASSUME TypeInv, NEW r \in Requests, LoadSubject(r)
  PROVE  TypeInv'
<1> DEFINE q == req[r]
           plan == user[q.subject].subscriptionType
           row == EditedRow(q.call, q.row, q.subject)
           saving == [q EXCEPT !.step = "save", !.plan = plan, !.row = row]
<1>1. q.step = "subject" /\ UNCHANGED <<party, user>>
  BY DEF LoadSubject
<1>2. q \in Request /\ q.user \in Users /\ q.subject \in Users /\ q.row \in WatchPartyRow
  BY <1>1, RequestFacts DEF WellFormed
<1>3. plan \in SubscriptionType
  BY <1>2 DEF TypeInv, TypeOK, UserRow
<1>4. row \in WatchPartyRow
  BY <1>2, EditedRowType
<1>5. Finish(r) \/ Goto(r, saving)
  BY DEF LoadSubject
<1> HIDE DEF q, plan, row
<1>6. saving \in Request /\ WellFormed(saving)
  BY <1>2, <1>3, <1>4 DEF Request, WellFormed, Steps
<1> HIDE DEF saving
<1> QED BY <1>1, <1>5, <1>6, MoveType

LEMMA LookupType ==
  ASSUME TypeInv, NEW r \in Requests, Lookup(r)
  PROVE  TypeInv'
<1> DEFINE q == req[r]
           ending(o) == [q EXCEPT !.step = "endLoad", !.other = o]
           row(o) == [WithRelations(party[o], {}, NoRow) EXCEPT
                        !.participants = LoadedSeats(q.user, o) \ {q.user}]
           leaving(o) == [q EXCEPT !.step = "leaveOther", !.other = o, !.otherRow = row(o)]
<1>1. q.step = "lookup" /\ UNCHANGED <<party, user>>
  BY DEF Lookup
<1>2. q \in Request /\ WellFormed(q) /\ q.user \in Users
  BY <1>1, RequestFacts
<1>3. \/ Goto(r, Vacated(q))
      \/ \E o \in Parties : Goto(r, ending(o)) \/ Goto(r, leaving(o))
  BY DEF Lookup, ActivePartiesOf
<1>4. CASE Goto(r, Vacated(q))
  BY <1>1, <1>2, <1>4, VacatedType, MoveType
<1>5. ASSUME NEW o \in Parties, Goto(r, ending(o))
      PROVE  TypeInv'
  <2>1. ending(o) \in Request /\ WellFormed(ending(o))
    BY <1>2 DEF Request, WellFormed, Steps
  <2> HIDE DEF ending
  <2> QED BY <1>1, <1>5, <2>1, MoveType
<1>6. ASSUME NEW o \in Parties, Goto(r, leaving(o))
      PROVE  TypeInv'
  <2>1. party[o] \in WatchPartyRow
    BY DEF TypeInv, TypeOK
  <2>2. WithRelations(party[o], {}, NoRow) \in WatchPartyRow
    BY <2>1, NoRowType, WithRelationsType
  <2>3. LoadedSeats(q.user, o) \ {q.user} \in SUBSET Users
    BY <2>1 DEF LoadedSeats, WatchPartyRow
  <2>4. row(o) \in WatchPartyRow
    BY <2>2, <2>3 DEF WatchPartyRow
  <2> HIDE DEF row, q
  <2>5. leaving(o) \in Request /\ WellFormed(leaving(o))
    BY <1>2, <2>4 DEF Request, WellFormed, Steps
  <2> HIDE DEF leaving
  <2> QED BY <1>1, <1>6, <2>5, MoveType
<1> QED BY <1>3, <1>4, <1>5, <1>6

LEMMA EndLoadType ==
  ASSUME TypeInv, NEW r \in Requests, EndLoad(r)
  PROVE  TypeInv'
<1> DEFINE q == req[r]
           w == Load(q.other, "end")
           row == [w EXCEPT !.status = "ENDED"]
           ending == [q EXCEPT !.step = "endSave", !.otherRow = row,
                               !.freemium = FreemiumUsers(w)]
<1>1. q.step = "endLoad" /\ UNCHANGED <<party, user>>
  BY DEF EndLoad
<1>2. q \in Request /\ WellFormed(q) /\ q.user \in Users /\ q.other \in Parties
  BY <1>1, RequestFacts DEF WellFormed
<1>3. w \in WatchPartyRow
  BY <1>2, LoadType DEF TypeInv
<1>4. row \in WatchPartyRow /\ FreemiumUsers(w) \in SUBSET Users
  BY <1>3 DEF WatchPartyRow, WatchPartyStatus, FreemiumUsers
<1>5. Finish(r) \/ Goto(r, Vacated(q)) \/ Goto(r, ending)
  BY DEF EndLoad
<1> HIDE DEF q, w, row
<1>6. ending \in Request /\ WellFormed(ending)
  BY <1>2, <1>4 DEF Request, WellFormed, Steps
<1>7. Vacated(q) \in Request /\ WellFormed(Vacated(q))
  BY <1>2, VacatedType
<1> HIDE DEF ending
<1> QED BY <1>1, <1>5, <1>6, <1>7, MoveType

LEMMA CountType ==
  ASSUME TypeInv, NEW r \in Requests, Count(r)
  PROVE  TypeInv'
<1> DEFINE q == req[r]
           row == JoinedRow(q.row, q.user)
           next == IF q.row.startKey = None THEN "create" ELSE "key"
           creating == [q EXCEPT !.step = next]
           inviting == [q EXCEPT !.step = "invitees"]
           saving == [q EXCEPT !.step = "save", !.row = row]
<1>1. q.step = "count" /\ UNCHANGED <<party, user>>
  BY DEF Count
<1>2. q \in Request /\ WellFormed(q) /\ q.user \in Users /\ q.row \in WatchPartyRow
  BY <1>1, RequestFacts
<1>3. row \in WatchPartyRow
  BY <1>2 DEF WatchPartyRow, JoinedRow
<1>4. next \in {"create", "key"}
  OBVIOUS
<1>5. Finish(r) \/ Goto(r, creating) \/ Goto(r, inviting) \/ Goto(r, saving)
  BY DEF Count
<1> HIDE DEF q, row, next
<1>6. creating \in Request /\ WellFormed(creating)
  BY <1>2, <1>4 DEF Request, WellFormed, Steps
<1>7. inviting \in Request /\ WellFormed(inviting)
  BY <1>2 DEF Request, WellFormed, Steps
<1>8. saving \in Request /\ WellFormed(saving)
  BY <1>2, <1>3 DEF Request, WellFormed, Steps
<1> HIDE DEF creating, inviting, saving
<1> QED BY <1>1, <1>5, <1>6, <1>7, <1>8, MoveType

LEMMA CheckStepsType ==
  ASSUME TypeInv, NEW r \in Requests, KeyLookup(r) \/ LoadInvitees(r) \/ LoadKicked(r)
  PROVE  TypeInv'
<1> DEFINE q == req[r]
           to(step) == [q EXCEPT !.step = step]
<1>1. q.step \in {"key", "invitees", "kicked"} /\ UNCHANGED <<party, user>>
  BY DEF KeyLookup, LoadInvitees, LoadKicked
<1>2. q \in Request /\ WellFormed(q) /\ q.user \in Users
  BY <1>1, RequestFacts
<1>3. Finish(r) \/ Goto(r, to("create")) \/ Goto(r, to("track"))
  BY DEF KeyLookup, LoadInvitees, LoadKicked
<1> HIDE DEF q
<1>4. ASSUME NEW step \in {"create", "track"}
      PROVE  to(step) \in Request /\ WellFormed(to(step))
  BY <1>2 DEF Request, WellFormed, Steps
<1> HIDE DEF to
<1> QED BY <1>1, <1>3, <1>4, MoveType

LEMMA CreateType ==
  ASSUME TypeInv, NEW r \in Requests, Create(r)
  PROVE  TypeInv'
<1> DEFINE q == req[r]
           tracking(p) == [q EXCEPT !.step = "track", !.party = p]
<1>1. q.step = "create" /\ UNCHANGED user
  BY DEF Create
<1>2. q \in Request /\ WellFormed(q) /\ q.user \in Users /\ q.row \in WatchPartyRow
  BY <1>1, RequestFacts
<1>3. \/ Finish(r) /\ UNCHANGED party
      \/ \E p \in Parties : /\ party' = [party EXCEPT ![p] = q.row]
                            /\ Goto(r, tracking(p)) \/ Finish(r)
  BY DEF Create
<1>4. CASE Finish(r) /\ UNCHANGED party
  BY <1>1, <1>4, IdleType, MoveType
<1>5. ASSUME NEW p \in Parties, party' = [party EXCEPT ![p] = q.row],
             Goto(r, tracking(p)) \/ Finish(r)
      PROVE  TypeInv'
  <2>1. party' \in [Parties -> WatchPartyRow]
    BY <1>2, <1>5 DEF TypeInv, TypeOK
  <2>2. tracking(p) \in Request /\ WellFormed(tracking(p))
    BY <1>2 DEF Request, WellFormed, Steps
  <2> HIDE DEF tracking, q
  <2> QED BY <1>1, <1>5, <2>1, <2>2, GotoType, IdleType DEF Finish, TypeInv, TypeOK
<1> QED BY <1>3, <1>4, <1>5

\* The steps that overwrite a party row.
LEMMA SavingType ==
  ASSUME TypeInv, NEW r \in Requests, LeaveOther(r) \/ EndSave(r) \/ SaveParty(r)
  PROVE  TypeInv'
<1> DEFINE q == req[r]
           to(step) == [q EXCEPT !.step = step]
<1>1. q.step \in {"leaveOther", "endSave", "save"} /\ UNCHANGED user
  BY DEF LeaveOther, EndSave, SaveParty
<1>2. /\ q \in Request /\ WellFormed(q) /\ q.user \in Users
      /\ q.row \in WatchPartyRow /\ q.otherRow \in WatchPartyRow
  BY <1>1, RequestFacts
<1>3. party' \in [Parties -> WatchPartyRow]
  BY <1>2, SaveType DEF LeaveOther, EndSave, SaveParty, TypeInv
<1>4. \/ Finish(r) \/ Goto(r, Vacated(q)) \/ Goto(r, to("downgrade")) \/ Goto(r, to("track"))
      \/ q.subject # None /\ Goto(r, to("kicked"))
  BY DEF LeaveOther, EndSave, SaveParty
<1> HIDE DEF q
<1>5. Vacated(q) \in Request /\ WellFormed(Vacated(q))
  BY <1>2, VacatedType
<1>6. ASSUME NEW step \in {"downgrade", "track"}
      PROVE  to(step) \in Request /\ WellFormed(to(step))
  BY <1>2 DEF Request, WellFormed, Steps
<1>7. ASSUME q.subject # None
      PROVE  to("kicked") \in Request /\ WellFormed(to("kicked"))
  BY <1>2, <1>7 DEF Request, WellFormed, Steps
<1> HIDE DEF to
<1> QED BY <1>1, <1>3, <1>4, <1>5, <1>6, <1>7, GotoType, IdleType DEF Finish, TypeInv, TypeOK

\* The steps that update user rows.
LEMMA UpdatingType ==
  ASSUME TypeInv, NEW r \in Requests, Downgrade(r) \/ TrackMovie(r)
  PROVE  TypeInv'
<1>1. req[r].step \in {"downgrade", "track"} /\ UNCHANGED party
  BY DEF Downgrade, TrackMovie
<1>2. req[r] \in Request /\ WellFormed(req[r]) /\ req[r].user \in Users
  BY <1>1, RequestFacts
<1>3. req[r].row.movieId \in Movies \cup {None}
  BY <1>2 DEF Request, WatchPartyRow
<1>4. \A u \in Users :
        /\ [user[u] EXCEPT !.lastFreemiumMovieId = req[r].row.movieId] \in UserRow
        /\ [user[u] EXCEPT !.subscriptionType = "FREE_TIER", !.hasUsedWatchPartyTrial = TRUE,
                           !.lastFreemiumMovieId = None] \in UserRow
  BY <1>3 DEF TypeInv, TypeOK, UserRow, SubscriptionType
<1>5. user' \in [Users -> UserRow]
  BY <1>4 DEF Downgrade, TrackMovie, TypeInv, TypeOK
<1>6. Finish(r) \/ Goto(r, Vacated(req[r]))
  BY DEF Downgrade, TrackMovie
<1> QED BY <1>1, <1>2, <1>5, <1>6, VacatedType, GotoType, IdleType DEF Finish, TypeInv, TypeOK

LEMMA ContinueType ==
  ASSUME TypeInv, NEW r \in Requests, Continue(r)
  PROVE  TypeInv'
  BY LoadAccountType, LoadSubjectType, LookupType, EndLoadType, CountType, CheckStepsType,
     CreateType, SavingType, UpdatingType DEF Continue

LEMMA BillingType ==
  ASSUME TypeInv, NEW u \in Users, Expire(u) \/ \E plan \in SubscriptionType : Purchase(u, plan)
  PROVE  TypeInv'
  BY DEF Expire, Purchase, TypeInv, TypeOK, UserRow, SubscriptionType

(***************************************************************************)
(* The theorem.                                                            *)
(***************************************************************************)
\* Init establishes the invariant.
LEMMA InitType == Init => TypeInv
<1> SUFFICES ASSUME Init PROVE TypeInv
  OBVIOUS
<1>1. party \in [Parties -> WatchPartyRow] /\ req \in [Requests -> Request]
  BY NoRowType, IdleType DEF Init
<1>2. user \in [Users -> UserRow]
  BY ConstantsAssumption DEF Init, UserRow
<1>3. \A r \in Requests : WellFormed(req[r])
  BY IdleType DEF Init
<1> QED BY <1>1, <1>2, <1>3 DEF TypeInv, TypeOK

\* Every step of Next preserves it.
LEMMA NextType == TypeInv /\ [Next]_vars => TypeInv'
<1> SUFFICES ASSUME TypeInv, [Next]_vars PROVE TypeInv'
  OBVIOUS
<1>1. CASE UNCHANGED vars
  BY <1>1 DEF vars, TypeInv, TypeOK
<1>2. ASSUME NEW r \in Requests, Continue(r) PROVE TypeInv'
  BY <1>2, ContinueType
<1>3. ASSUME NEW r \in Requests, Fail(r) PROVE TypeInv'
  BY <1>3, IdleType, MoveType DEF Fail
<1>4. ASSUME NEW r \in Requests, NEW u \in Users, NewCall(r, u) PROVE TypeInv'
  BY <1>4, NewCallType
<1>5. ASSUME NEW u \in Users, Expire(u) \/ \E plan \in SubscriptionType : Purchase(u, plan)
      PROVE  TypeInv'
  BY <1>5, BillingType
<1> QED BY <1>1, <1>2, <1>3, <1>4, <1>5 DEF Next

\* Every reachable state has well-typed tables and requests: no handler, from
\* no stale row, writes a value that its column cannot hold, and a request is
\* never at a step that looks up a user or a party it does not have.
THEOREM TypeCorrect == Spec => []TypeOK
<1>1. Spec => []TypeInv
  BY InitType, NextType, PTL DEF Spec
<1> QED BY <1>1, PTL DEF TypeInv

(***************************************************************************)
(* What holds when no two requests overlap: the row that a request loaded  *)
(* is still the row of the table when it saves it.                         *)
(***************************************************************************)
OneAtATime == \A r, s \in Requests : r = s

\* Steps at which the caller is moved out of another party.
Vacating == {"lookup", "leaveOther", "endLoad", "endSave", "downgrade"}

\* The party of a join or a start is as it was loaded, and may be joined or started.
AsLoaded(q) ==
  LET w == party[q.party] IN
  /\ q.party \in Parties /\ q.row = Load(q.party, q.call)
  /\ \/ q.call = "startScheduled" /\ q.step # "count" /\ w.status = "SCHEDULED"
     \/ q.call \in {"join", "joinByCode"} /\ w.status \in {"SCHEDULED", "ACTIVE"}
  /\ q.call = "join" => w.hostId = q.user
  /\ q.call = "joinByCode" /\ q.step # "account" => q.user \notin w.bannedUsers

\* A party about to be created has its host in it and nobody else.
Creates(q) ==
  /\ q.call \in {"start", "schedule"} /\ q.party = None
  /\ q.row.status \in {"SCHEDULED", "ACTIVE"}
  /\ q.row.hostId = q.user /\ q.row.participants = {q.user}

\* The plan of the caller, checked at first, has only been lost since.
PlanStands(q) == user[q.user].subscriptionType = "FREEMIUM" => q.plan = "FREEMIUM"

\* A freemium user who gets a seat has no other.
Unseated(u) == user[u].subscriptionType = "FREEMIUM" => LivePartiesOf(u) = {}

Seats(q) == IF "participants" \in LoadedRelations(q.call) THEN q.row.participants
            ELSE party[q.party].participants

\* What an edited row does to the row in the table.
SavesWell(q) ==
  LET w == party[q.party] IN
  /\ q.party \in Parties /\ w.status # "NONE"
  /\ q.row.status = w.status \/ (w.status = "SCHEDULED" /\ q.row.status = "ACTIVE")
  /\ q.row.hostId \in {w.hostId} \cup w.participants
  /\ Seats(q) \subseteq w.participants \cup {q.user}
  /\ q.user \in Seats(q) \ w.participants =>
       /\ w.status \in {"SCHEDULED", "ACTIVE"} /\ q.row.status = w.status
       /\ q.user \notin w.bannedUsers \/ q.user = w.hostId
       /\ w.status = "SCHEDULED" => q.user \in w.invitedUsers \cup {w.hostId}
       /\ "purchase" \notin Calls => Unseated(q.user)

\* The other party, about to be saved without the caller, or as ended.
OtherAsLoaded(q) ==
  LET o == party[q.other] IN
  /\ q.other \in Parties /\ q.other # q.party /\ o.status # "NONE"
  /\ q.step \in {"leaveOther", "endSave"} => q.otherRow.hostId = o.hostId
  /\ q.step = "leaveOther" =>
       q.otherRow.status = o.status /\ q.otherRow.participants \subseteq o.participants
  /\ q.step = "endSave" =>
       /\ q.otherRow.status = "ENDED" /\ q.otherRow.participants = o.participants
       /\ "purchase" \notin Calls => FreemiumUsers(q.otherRow) \subseteq q.freemium

Serial(q) ==
  /\ q.step = "account" => AsLoaded(q)
  /\ q.step \in Vacating \cup {"count"} => q.call = "end" \/ Creates(q) \/ AsLoaded(q)
  /\ q.step \in {"count", "account"} => q.call # "end"
  /\ q.step \in {"key", "invitees", "create"} => Creates(q)
  /\ q.step = "subject" =>
       /\ q.call \in {"invite", "ban", "mute", "leave"} /\ q.party \in Parties
       /\ party[q.party].status # "NONE" /\ q.row = Load(q.party, q.call)
  /\ q.step = "save" => SavesWell(q)
  /\ q.step \in {"leaveOther", "endLoad", "endSave"} => OtherAsLoaded(q)
  /\ "purchase" \notin Calls =>
       /\ q.step \in Vacating \cup {"count"} /\ q.call \notin {"end", "startScheduled"} =>
            PlanStands(q)
       /\ q.step \in {"key", "invitees", "create"} => Unseated(q.user)

\* A freemium user in an ended party is about to be downgraded.
Downgraded ==
  \A p \in Parties : party[p].status = "ENDED" =>
    \A u \in party[p].participants : user[u].subscriptionType = "FREEMIUM" =>
      \E r \in Requests : req[r].step = "downgrade" /\ u \in req[r].freemium

SerialInv ==
  /\ \A p \in Parties : party[p].status = "NONE" => party[p] = NoRow
  /\ \A r \in Requests : Serial(req[r])
  /\ "purchase" \notin Calls => FreemiumOneLiveParty
  /\ Calls \cap {"purchase", "fail"} = {} => Downgraded

(***************************************************************************)
(* The one request there is, and the parties, after a step.                *)
(***************************************************************************)
LEMMA IdleSerial == ASSUME NEW q, q.step \in {"idle", "track", "kicked"} PROVE Serial(q)'
BY DEF Serial, Vacating

\* What a request relies on holds until it writes.
LEMMA SerialStays ==
  ASSUME UNCHANGED <<party, user>>, NEW q, Serial(q)
  PROVE  Serial(q)'
BY DEF Serial, AsLoaded, Creates, PlanStands, Unseated, SavesWell, Seats, OtherAsLoaded, Load,
       LivePartiesOf, InvolvedIn, FreemiumUsers

LEMMA SerialStep ==
  ASSUME OneAtATime, TypeInv, SerialInv, NEW r \in Requests,
         NEW q, req' = [req EXCEPT ![r] = q], Serial(q)',
         \A p \in Parties : party'[p].status = "NONE" => party'[p] = NoRow,
         "purchase" \notin Calls => FreemiumOneLiveParty',
         Calls \cap {"purchase", "fail"} = {} => Downgraded'
  PROVE  SerialInv'
<1>1. \A s \in Requests : s = r /\ req'[s] = q
  BY DEF OneAtATime, TypeInv, TypeOK
<1>2. \A s \in Requests : Serial(req[s])'
  BY <1>1 DEF Serial, AsLoaded, Creates, PlanStands, SavesWell, Seats, OtherAsLoaded, Load,
              FreemiumUsers
<1> QED BY <1>2 DEF SerialInv

\* Unless it is about to downgrade somebody, ended parties have no freemium users.
LEMMA AllDowngraded ==
  ASSUME OneAtATime, Downgraded, NEW r \in Requests, req[r].step # "downgrade"
  PROVE  \A p \in Parties : party[p].status = "ENDED" =>
           \A u \in party[p].participants : user[u].subscriptionType # "FREEMIUM"
BY DEF OneAtATime, Downgraded

LEMMA SerialMove ==
  ASSUME OneAtATime, TypeInv, SerialInv, NEW r \in Requests, req[r].step # "downgrade",
         NEW q, Goto(r, q), UNCHANGED <<party, user>>, Serial(q)'
  PROVE  SerialInv'
<1>1. "purchase" \notin Calls => FreemiumOneLiveParty'
  BY DEF SerialInv, FreemiumOneLiveParty, LivePartiesOf, InvolvedIn
<1>2. Calls \cap {"purchase", "fail"} = {} => Downgraded'
  BY AllDowngraded DEF SerialInv, Downgraded
<1> QED BY <1>1, <1>2, SerialStep DEF SerialInv, Goto

\* The parties after one of them was written.
LEMMA LiveKept ==
  ASSUME FreemiumOneLiveParty, NEW p \in Parties,
         \A o \in Parties \ {p} : party'[o] = party[o],
         \A u \in Users : user'[u].subscriptionType = "FREEMIUM" =>
           /\ user[u].subscriptionType = "FREEMIUM"
           /\ p \in LivePartiesOf(u)' => p \in LivePartiesOf(u) \/ Unseated(u)
  PROVE  FreemiumOneLiveParty'
<1> SUFFICES ASSUME NEW u \in Users, user'[u].subscriptionType = "FREEMIUM",
                    NEW o \in LivePartiesOf(u)', NEW x \in LivePartiesOf(u)'
             PROVE  o = x
  BY DEF FreemiumOneLiveParty
<1>1. \A y \in LivePartiesOf(u)' : y # p => y \in LivePartiesOf(u)
  BY DEF LivePartiesOf, InvolvedIn
<1>2. \A y, z \in LivePartiesOf(u) : y = z
  BY DEF FreemiumOneLiveParty
<1> QED BY <1>1, <1>2 DEF Unseated

LEMMA Saved ==
  ASSUME TypeInv, NEW p \in Parties, NEW row \in WatchPartyRow, NEW rels, Save(p, row, rels)
  PROVE  /\ party'[p].status = row.status /\ party'[p].hostId = row.hostId
         /\ party'[p].participants = IF "participants" \in rels THEN row.participants
                                     ELSE party[p].participants
         /\ \A o \in Parties \ {p} : party'[o] = party[o]
BY DEF Save, WithRelations, TypeInv, TypeOK, WatchPartyRow

(***************************************************************************)
(* New calls.                                                              *)
(***************************************************************************)
LEMMA SerialBegin ==
  ASSUME OneAtATime, TypeInv, SerialInv, NEW r \in Requests, NEW q, Begin(r, q),
         UNCHANGED <<party, user>>, Serial(q)
  PROVE  SerialInv'
<1>1. req[r].step # "downgrade" /\ Goto(r, q)
  BY DEF Begin, Idle, Goto
<1> QED BY <1>1, SerialStays, SerialMove

LEMMA StartPartySerial ==
  ASSUME OneAtATime, TypeInv, SerialInv, NEW r \in Requests, NEW u \in Users, NEW m \in Movies,
         NEW k \in Keys \cup {None}, StartParty(r, u, m, k)
  PROVE  SerialInv'
<1>1. PICK row : row = [NoRow EXCEPT !.status = "ACTIVE", !.hostId = u, !.movieId = m,
                                     !.startKey = k, !.participants = {u}]
  OBVIOUS
<1>2. PICK q : q = [Idle EXCEPT !.call = "start", !.step = "lookup", !.user = u,
                                !.subject = u, !.plan = user[u].subscriptionType, !.row = row]
  OBVIOUS
<1>3. Begin(r, q) /\ UNCHANGED <<party, user>>
  BY <1>1, <1>2 DEF StartParty
<1>4. row.status = "ACTIVE" /\ row.hostId = u /\ row.participants = {u}
  BY <1>1 DEF NoRow
<1>5. /\ q.call = "start" /\ q.step = "lookup" /\ q.user = u /\ q.party = None
      /\ q.plan = user[u].subscriptionType /\ q.row = row
  BY <1>2 DEF Idle
<1>6. Serial(q)
  BY <1>4, <1>5 DEF Serial, Vacating, Creates, PlanStands
<1> QED BY <1>3, <1>6, SerialBegin

LEMMA ScheduleSerial ==
  ASSUME OneAtATime, TypeInv, SerialInv, NEW r \in Requests, NEW u \in Users, NEW m \in Movies,
         NEW xs \in SUBSET (Users \ {u}), ScheduleParty(r, u, m, xs)
  PROVE  SerialInv'
<1>1. PICK row : row = [NoRow EXCEPT !.status = "SCHEDULED", !.hostId = u, !.movieId = m,
                                     !.participants = {u}, !.invitedUsers = xs]
  OBVIOUS
<1>2. PICK q : q = [Idle EXCEPT !.call = "schedule", !.step = "count", !.user = u,
                                !.plan = user[u].subscriptionType, !.row = row]
  OBVIOUS
<1>3. Begin(r, q) /\ UNCHANGED <<party, user>>
  BY <1>1, <1>2 DEF ScheduleParty
<1>4. row.status = "SCHEDULED" /\ row.hostId = u /\ row.participants = {u}
  BY <1>1 DEF NoRow
<1>5. /\ q.call = "schedule" /\ q.step = "count" /\ q.user = u /\ q.party = None
      /\ q.plan = user[u].subscriptionType /\ q.row = row
  BY <1>2 DEF Idle
<1>6. Serial(q)
  BY <1>4, <1>5 DEF Serial, Vacating, Creates, PlanStands
<1> QED BY <1>3, <1>6, SerialBegin

LEMMA BeginJoinSerial ==
  ASSUME OneAtATime, TypeInv, SerialInv, NEW r \in Requests, NEW u \in Users, NEW p \in Parties,
         JoinParty(r, u, p) \/ JoinPartyByCode(r, u, p)
  PROVE  SerialInv'
<1>1. PICK call \in {"join", "joinByCode"} :
        BeginJoin(r, call, u, p) /\ (call = "join" => party[p].hostId = u)
  BY DEF JoinParty, JoinPartyByCode
<1>2. PICK q : q = [Idle EXCEPT !.call = call, !.step = "account", !.user = u,
                                !.party = p, !.row = Load(p, call), !.subject = u]
  OBVIOUS
<1>3. Begin(r, q) /\ UNCHANGED <<party, user>> /\ party[p].status \in {"SCHEDULED", "ACTIVE"}
  BY <1>1, <1>2 DEF BeginJoin
<1>4. /\ q.call = call /\ q.step = "account" /\ q.user = u /\ q.party = p
      /\ q.row = Load(p, call)
  BY <1>2 DEF Idle
<1>5. Serial(q)
  BY <1>1, <1>3, <1>4 DEF Serial, Vacating, AsLoaded
<1> QED BY <1>3, <1>5, SerialBegin

LEMMA EndPartySerial ==
  ASSUME OneAtATime, TypeInv, SerialInv, NEW r \in Requests, NEW u \in Users, NEW p \in Parties,
         EndParty(r, u, p)
  PROVE  SerialInv'
<1>1. PICK q : q = [Idle EXCEPT !.call = "end", !.step = "endLoad", !.user = u, !.other = p]
  OBVIOUS
<1>2. Begin(r, q) /\ UNCHANGED <<party, user>> /\ party[p].status # "NONE"
  BY <1>1 DEF EndParty, Exists
<1>3. q.call = "end" /\ q.step = "endLoad" /\ q.other = p /\ q.party = None
  BY <1>1 DEF Idle
<1>4. Serial(q)
  BY <1>2, <1>3, ConstantsAssumption DEF Serial, Vacating, OtherAsLoaded
<1> QED BY <1>2, <1>4, SerialBegin

LEMMA StartScheduledSerial ==
  ASSUME OneAtATime, TypeInv, SerialInv, NEW r \in Requests, NEW u \in Users, NEW p \in Parties,
         StartScheduledParty(r, u, p)
  PROVE  SerialInv'
<1>1. PICK q : q = [Idle EXCEPT !.call = "startScheduled", !.step = "lookup", !.user = u,
                                !.party = p, !.row = Load(p, "startScheduled"), !.subject = u]
  OBVIOUS
<1>2. Begin(r, q) /\ UNCHANGED <<party, user>> /\ party[p].status = "SCHEDULED"
  BY <1>1 DEF StartScheduledParty
<1>3. /\ q.call = "startScheduled" /\ q.step = "lookup" /\ q.user = u /\ q.party = p
      /\ q.row = Load(p, "startScheduled")
  BY <1>1 DEF Idle
<1>4. Serial(q)
  BY <1>2, <1>3 DEF Serial, Vacating, AsLoaded
<1> QED BY <1>2, <1>4, SerialBegin

\* Calls that load a row, edit it and save it, with the user concerned loaded in between.
LEMMA SubjectSerial ==
  ASSUME OneAtATime, TypeInv, SerialInv, NEW r \in Requests, NEW u \in Users, NEW p \in Parties,
         NEW x \in Users, NEW call \in {"invite", "ban", "mute", "leave"}, Exists(p),
         Edit(r, call, "subject", u, p, x, Load(p, call))
  PROVE  SerialInv'
<1>1. PICK q : q = [Idle EXCEPT !.call = call, !.step = "subject", !.user = u, !.party = p,
                                !.subject = x, !.row = Load(p, call)]
  OBVIOUS
<1>2. Begin(r, q) /\ UNCHANGED <<party, user>>
  BY <1>1 DEF Edit
<1>3. q.call = call /\ q.step = "subject" /\ q.party = p /\ q.row = Load(p, call)
  BY <1>1 DEF Idle
<1>4. Serial(q)
  BY <1>3 DEF Serial, Vacating, Exists
<1> QED BY <1>2, <1>4, SerialBegin

\* Without it: seats are given up, or the host is one who has a seat.
LEMMA EditSerial ==
  ASSUME OneAtATime, TypeInv, SerialInv, NEW r \in Requests, NEW u \in Users, NEW p \in Parties,
         NEW x, NEW row, NEW call, Edit(r, call, "save", u, p, x, row), Exists(p),
         row.status = party[p].status, row.hostId \in {party[p].hostId} \cup party[p].participants,
         "participants" \in LoadedRelations(call) => row.participants \subseteq party[p].participants
  PROVE  SerialInv'
<1>1. PICK q : q = [Idle EXCEPT !.call = call, !.step = "save", !.user = u, !.party = p,
                                !.subject = x, !.row = row]
  OBVIOUS
<1>2. Begin(r, q) /\ UNCHANGED <<party, user>>
  BY <1>1 DEF Edit
<1>3. q.call = call /\ q.step = "save" /\ q.party = p /\ q.row = row /\ q.user = u
  BY <1>1 DEF Idle
<1>4. Seats(q) \subseteq party[p].participants
  BY <1>3 DEF Seats
<1>5. Serial(q)
  BY <1>3, <1>4 DEF Serial, Vacating, Exists, SavesWell
<1> QED BY <1>2, <1>5, SerialBegin

\* A row as loaded is that of the table, without some of its relations.
LEMMA Loaded ==
  ASSUME TypeInv, NEW p \in Parties, NEW call
  PROVE  /\ Load(p, call) \in WatchPartyRow
         /\ Load(p, call).status = party[p].status /\ Load(p, call).hostId = party[p].hostId
         /\ Load(p, call).participants =
              IF "participants" \in LoadedRelations(call) THEN party[p].participants ELSE {}
         /\ Load(p, call).bannedUsers =
              IF "bannedUsers" \in LoadedRelations(call) THEN party[p].bannedUsers ELSE {}
         /\ Load(p, call).invitedUsers =
              IF "invitedUsers" \in LoadedRelations(call) THEN party[p].invitedUsers ELSE {}
<1>1. Load(p, call) \in WatchPartyRow
  BY LoadType DEF TypeInv
<1>2. PICK w : w = party[p] /\ w \in WatchPartyRow
  BY DEF TypeInv, TypeOK
<1>3. PICK rels : rels = LoadedRelations(call)
  OBVIOUS
<1>4. Load(p, call) = WithRelations(w, rels, NoRow)
  BY <1>2, <1>3 DEF Load
<1>5. /\ NoRow.participants = {} /\ NoRow.bannedUsers = {} /\ NoRow.invitedUsers = {}
  BY DEF NoRow
<1> HIDE DEF NoRow
<1> QED BY <1>1, <1>2, <1>3, <1>4, <1>5 DEF WithRelations, WatchPartyRow

LEMMA Relations ==
  /\ \A call \in {"join", "joinByCode", "ban", "metadata", "end", "startScheduled", "transferHost",
                  "kick", "leave"} : "participants" \in LoadedRelations(call)
  /\ \A call \in {"invite", "rejectInvite", "removeInvite", "unban", "mute", "unmute"} :
       "participants" \notin LoadedRelations(call)
  /\ "bannedUsers" \in LoadedRelations("joinByCode")
  /\ "invitedUsers" \in LoadedRelations("joinByCode")
BY DEF LoadedRelations

LEMMA NewCallSerial ==
  ASSUME OneAtATime, TypeInv, SerialInv, NEW r \in Requests, NEW u \in Users, NewCall(r, u)
  PROVE  SerialInv'
<1>1. ASSUME NEW m \in Movies, NEW k \in Keys \cup {None}, StartParty(r, u, m, k)
      PROVE  SerialInv'
  BY <1>1, StartPartySerial
<1>2. ASSUME NEW m \in Movies, NEW xs \in SUBSET (Users \ {u}), ScheduleParty(r, u, m, xs)
      PROVE  SerialInv'
  BY <1>2, ScheduleSerial
<1>3. ASSUME NEW p \in Parties,
             \/ JoinParty(r, u, p) \/ JoinPartyByCode(r, u, p) \/ EndParty(r, u, p)
             \/ StartScheduledParty(r, u, p) \/ LeaveParty(r, u, p)
      PROVE  SerialInv'
  BY <1>3, BeginJoinSerial, EndPartySerial, StartScheduledSerial, SubjectSerial DEF LeaveParty
<1>4. ASSUME NEW p \in Parties, NEW x \in Users,
             \/ InviteToParty(r, u, p, x) \/ BanUser(r, u, p, x) \/ MuteUser(r, u, p, x)
      PROVE  SerialInv'
  BY <1>4, SubjectSerial DEF InviteToParty, BanUser, MuteUser, IsHost
<1>5. ASSUME NEW p \in Parties, NEW x \in Users,
             \/ x = u /\ RejectInvite(r, u, p)
             \/ RemoveInvite(r, u, p, x) \/ UnbanUser(r, u, p, x) \/ UnmuteUser(r, u, p, x)
      PROVE  SerialInv'
  <2> DEFINE w(call) == Load(p, call)
             fewer(call) == [w(call) EXCEPT !.invitedUsers = @ \ {x}]
             unbanned == [w("unban") EXCEPT !.bannedUsers = @ \ {x}]
             unmuted == [w("unmute") EXCEPT !.mutedUsers = @ \ {x}]
  <2>1. ASSUME NEW call \in {"rejectInvite", "removeInvite"},
               Edit(r, call, "save", u, p, x, fewer(call)), Exists(p)
        PROVE  SerialInv'
    <3>1. fewer(call).status = party[p].status /\ fewer(call).hostId = party[p].hostId
      BY Loaded DEF WatchPartyRow
    <3> HIDE DEF fewer
    <3> QED BY <2>1, <3>1, Relations, EditSerial
  <2>2. ASSUME Edit(r, "unban", "save", u, p, x, unbanned), Exists(p)
        PROVE  SerialInv'
    <3>1. unbanned.status = party[p].status /\ unbanned.hostId = party[p].hostId
      BY Loaded DEF WatchPartyRow
    <3> HIDE DEF unbanned
    <3> QED BY <2>2, <3>1, Relations, EditSerial
  <2>3. ASSUME Edit(r, "unmute", "save", u, p, x, unmuted), Exists(p)
        PROVE  SerialInv'
    <3>1. unmuted.status = party[p].status /\ unmuted.hostId = party[p].hostId
      BY Loaded DEF WatchPartyRow
    <3> HIDE DEF unmuted
    <3> QED BY <2>3, <3>1, Relations, EditSerial
  <2> QED BY <1>5, <2>1, <2>2, <2>3 DEF RejectInvite, RemoveInvite, UnbanUser, UnmuteUser, IsHost
<1>6. ASSUME NEW p \in Parties, NEW x \in Users, KickUser(r, u, p, x)
      PROVE  SerialInv'
  <2> DEFINE who == IF x \in party[p].participants THEN x ELSE None
  <2>1. PICK row : row = [Load(p, "kick") EXCEPT !.participants = @ \ {x}]
    OBVIOUS
  <2>2. Exists(p) /\ Edit(r, "kick", "save", u, p, who, row)
    BY <1>6, <2>1 DEF KickUser, IsHost
  <2>3. /\ row.status = party[p].status /\ row.hostId = party[p].hostId
        /\ row.participants \subseteq party[p].participants
    BY <2>1, Loaded, Relations DEF WatchPartyRow
  <2> HIDE DEF who
  <2> QED BY <2>2, <2>3, EditSerial
<1>7. ASSUME NEW p \in Parties, NEW x \in Users,
             TransferHost(r, u, p, x) \/ ReassignHost(r, u, p, x)
      PROVE  SerialInv'
  <2> DEFINE moved(call) == [Load(p, call) EXCEPT !.hostId = x, !.hostLeftAt = FALSE]
  <2>1. PICK call \in {"transferHost", "metadata"} :
          Edit(r, call, "save", u, p, x, moved(call))
    BY <1>7 DEF TransferHost, ReassignHost
  <2>2. Exists(p) /\ x \in party[p].participants
    BY <1>7 DEF TransferHost, ReassignHost, Exists
  <2>3. /\ moved(call).status = party[p].status /\ moved(call).hostId = x
        /\ moved(call).participants \subseteq party[p].participants
    BY <2>1, Loaded, Relations DEF WatchPartyRow
  <2> HIDE DEF moved
  <2> QED BY <2>1, <2>2, <2>3, EditSerial
<1> QED BY <1>1, <1>2, <1>3, <1>4, <1>5, <1>6, <1>7 DEF NewCall

(***************************************************************************)
(* The further steps of a request, one at a time.                          *)
(***************************************************************************)
LEMMA SerialGoto ==
  ASSUME OneAtATime, TypeInv, SerialInv, NEW r \in Requests, req[r].step # "downgrade",
         NEW q, Goto(r, q), UNCHANGED <<party, user>>, Serial(q)
  PROVE  SerialInv'
BY SerialStays, SerialMove

LEMMA SerialFinish ==
  ASSUME OneAtATime, TypeInv, SerialInv, NEW r \in Requests, req[r].step # "downgrade",
         Finish(r), UNCHANGED <<party, user>>
  PROVE  SerialInv'
<1>1. Idle.step = "idle"
  BY DEF Idle
<1> QED BY <1>1, IdleSerial, SerialMove DEF Finish

\* The caller is out of the other party: the call goes on with the row it loaded.
LEMMA VacatedSerial ==
  ASSUME NEW q \in Request, q.step \in Vacating,
         q.call = "end" \/ Creates(q) \/ AsLoaded(q)',
         "purchase" \notin Calls /\ q.call \notin {"end", "startScheduled"} => PlanStands(q)'
  PROVE  Serial(Vacated(q))'
<1>1. CASE q.call = "end"
  <2>1. Vacated(q) = Idle /\ Idle.step = "idle"
    BY <1>1 DEF Vacated, Idle
  <2>2. Serial(Idle)'
    BY <2>1, IdleSerial
  <2> QED BY <2>1, <2>2
<1>2. CASE q.call # "end"
  <2>1. PICK v : v = Vacated(q)
    OBVIOUS
  <2>2. /\ v.call = q.call /\ v.user = q.user /\ v.party = q.party /\ v.row = q.row
        /\ v.plan = q.plan
        /\ v.step = IF q.call = "startScheduled" THEN "account" ELSE "count"
    BY <1>2, <2>1 DEF Vacated, Request
  <2>3. Creates(q) => Creates(v)
    BY <2>2 DEF Creates
  <2>4. AsLoaded(q)' => AsLoaded(v)'
    BY <2>2 DEF AsLoaded, Vacating
  <2>5. PlanStands(q)' => PlanStands(v)'
    BY <2>2 DEF PlanStands
  <2>6. v.call = "startScheduled" => AsLoaded(v)'
    BY <1>2, <2>2, <2>4 DEF Creates
  <2>7. Serial(v)'
    BY <1>2, <2>2, <2>3, <2>4, <2>5, <2>6 DEF Serial, Vacating, Creates
  <2> QED BY <2>1, <2>7
<1> QED BY <1>1, <1>2

\* What is known of a request that is moving its caller out.
LEMMA VacatingFacts ==
  ASSUME TypeInv, SerialInv, NEW r \in Requests, NEW q, q = req[r], q.step \in Vacating
  PROVE  /\ q \in Request /\ q.user \in Users /\ q.otherRow \in WatchPartyRow
         /\ q.call = "end" \/ Creates(q) \/ AsLoaded(q)
         /\ "purchase" \notin Calls /\ q.call \notin {"end", "startScheduled"} => PlanStands(q)
         /\ q.step \in {"leaveOther", "endLoad", "endSave"} => OtherAsLoaded(q)
<1>1. q \in Request /\ q.user \in Users /\ q.otherRow \in WatchPartyRow
  BY RequestFacts DEF Vacating
<1>2. Serial(q)
  BY DEF SerialInv
<1> QED BY <1>1, <1>2 DEF Serial

LEMMA LoadAccountSerial ==
  ASSUME OneAtATime, TypeInv, SerialInv, NEW r \in Requests, LoadAccount(r)
  PROVE  SerialInv'
<1>1. PICK q : q = req[r]
  OBVIOUS
<1>2. PICK plan : plan = user[q.user].subscriptionType
  OBVIOUS
<1>3. q.step = "account" /\ UNCHANGED <<party, user>>
  BY <1>1 DEF LoadAccount
<1>4. q \in Request /\ q.user \in Users /\ q.row \in WatchPartyRow
  BY <1>1, <1>3, RequestFacts
<1>5. AsLoaded(q)
  BY <1>1, <1>3 DEF SerialInv, Serial
<1>6. CASE Finish(r)
  BY <1>1, <1>3, <1>6, SerialFinish
<1>7. ASSUME q.call = "startScheduled",
             Goto(r, [q EXCEPT !.plan = plan, !.step = "save",
                               !.row = [@ EXCEPT !.status = "ACTIVE"]])
      PROVE  SerialInv'
  <2>1. PICK row : row = [q.row EXCEPT !.status = "ACTIVE"]
    OBVIOUS
  <2>2. PICK z : z = [q EXCEPT !.plan = plan, !.step = "save", !.row = row]
    OBVIOUS
  <2>3. /\ z.step = "save" /\ z.call = q.call /\ z.party = q.party /\ z.user = q.user
        /\ z.row = row
    BY <1>4, <2>2 DEF Request
  <2>4. /\ row.status = "ACTIVE" /\ row.hostId = q.row.hostId
        /\ row.participants = q.row.participants
    BY <1>4, <2>1 DEF WatchPartyRow
  <2>5. /\ q.party \in Parties /\ party[q.party].status = "SCHEDULED"
        /\ q.row.hostId = party[q.party].hostId
        /\ q.row.participants = party[q.party].participants
    BY <1>5, <1>7, Loaded, Relations DEF AsLoaded
  <2>6. SavesWell(z)
    BY <2>3, <2>4, <2>5 DEF SavesWell, Seats
  <2>7. Serial(z)
    BY <2>3, <2>6 DEF Serial, Vacating
  <2> QED BY <1>1, <1>3, <1>7, <2>1, <2>2, <2>7, SerialGoto
<1>8. ASSUME q.call # "startScheduled", Admissible(q, user[q.user]), NEW step \in {"lookup", "count"},
             Goto(r, [q EXCEPT !.plan = plan, !.step = step])
      PROVE  SerialInv'
  <2>1. PICK z : z = [q EXCEPT !.plan = plan, !.step = step]
    OBVIOUS
  <2>2. /\ z.step = step /\ z.call = q.call /\ z.party = q.party /\ z.user = q.user
        /\ z.row = q.row /\ z.plan = plan
    BY <1>4, <2>1 DEF Request
  <2>3. q.call = "joinByCode" => q.user \notin party[q.party].bannedUsers
    BY <1>5, <1>8, Loaded, Relations DEF Admissible, AsLoaded
  <2>4. AsLoaded(z) /\ q.call \in {"join", "joinByCode"}
    BY <1>5, <1>8, <2>2, <2>3 DEF AsLoaded
  <2>5. PlanStands(z)
    BY <1>2, <2>2 DEF PlanStands
  <2>6. Serial(z)
    BY <2>2, <2>4, <2>5 DEF Serial, Vacating
  <2> QED BY <1>1, <1>3, <1>8, <2>1, <2>6, SerialGoto
<1> QED BY <1>1, <1>2, <1>6, <1>7, <1>8 DEF LoadAccount

LEMMA LoadSubjectSerial ==
  ASSUME OneAtATime, TypeInv, SerialInv, NEW r \in Requests, LoadSubject(r)
  PROVE  SerialInv'
<1>1. PICK q : q = req[r]
  OBVIOUS
<1>2. PICK plan : plan = user[q.subject].subscriptionType
  OBVIOUS
<1>3. PICK row : row = EditedRow(q.call, q.row, q.subject)
  OBVIOUS
<1>4. q.step = "subject" /\ UNCHANGED <<party, user>>
  BY <1>1 DEF LoadSubject
<1>5. q \in Request /\ q.row \in WatchPartyRow
  BY <1>1, <1>4, RequestFacts
<1>6. /\ q.call \in {"invite", "ban", "mute", "leave"} /\ q.party \in Parties
      /\ party[q.party].status # "NONE" /\ q.row = Load(q.party, q.call)
  BY <1>1, <1>4 DEF SerialInv, Serial
<1>7. CASE Finish(r)
  BY <1>1, <1>4, <1>7, SerialFinish
<1>8. CASE Goto(r, [q EXCEPT !.step = "save", !.plan = plan, !.row = row])
  <2>1. PICK z : z = [q EXCEPT !.step = "save", !.plan = plan, !.row = row]
    OBVIOUS
  <2>2. /\ z.step = "save" /\ z.call = q.call /\ z.party = q.party /\ z.user = q.user
        /\ z.row = row
    BY <1>5, <2>1 DEF Request
  <2>3. /\ row.status = q.row.status /\ row.hostId = q.row.hostId
        /\ row.participants \subseteq q.row.participants
    BY <1>3, <1>5, <1>6 DEF EditedRow, WatchPartyRow
  <2>4. /\ row.status = party[q.party].status /\ row.hostId = party[q.party].hostId
        /\ "participants" \in LoadedRelations(q.call) =>
             row.participants \subseteq party[q.party].participants
    BY <1>6, <2>3, Loaded
  <2>5. Seats(z) \subseteq party[q.party].participants
    BY <2>2, <2>4 DEF Seats
  <2>6. SavesWell(z)
    BY <1>6, <2>2, <2>4, <2>5 DEF SavesWell
  <2>7. Serial(z)
    BY <2>2, <2>6 DEF Serial, Vacating
  <2> QED BY <1>1, <1>4, <1>8, <2>1, <2>7, SerialGoto
<1> QED BY <1>1, <1>2, <1>3, <1>7, <1>8 DEF LoadSubject

LEMMA LookupSerial ==
  ASSUME OneAtATime, TypeInv, SerialInv, NEW r \in Requests, Lookup(r)
  PROVE  SerialInv'
<1>1. PICK q : q = req[r]
  OBVIOUS
<1>2. q.step = "lookup" /\ q.step \in Vacating /\ UNCHANGED <<party, user>>
  BY <1>1 DEF Lookup, Vacating
<1>3. /\ q \in Request
      /\ q.call = "end" \/ Creates(q) \/ AsLoaded(q)
      /\ "purchase" \notin Calls /\ q.call \notin {"end", "startScheduled"} => PlanStands(q)
  BY <1>1, <1>2, VacatingFacts
<1>4. CASE Goto(r, Vacated(q))
  <2>1. AsLoaded(q) => AsLoaded(q)'
    BY <1>2 DEF AsLoaded, Load
  <2>2. PlanStands(q) => PlanStands(q)'
    BY <1>2 DEF PlanStands
  <2>3. Serial(Vacated(q))'
    BY <1>2, <1>3, <2>1, <2>2, VacatedSerial
  <2> QED BY <1>1, <1>2, <1>4, <2>3, SerialMove
<1>5. ASSUME NEW z, NEW o \in Parties, Goto(r, z), z.step \in {"endLoad", "leaveOther"},
             z.call = q.call, z.user = q.user, z.party = q.party, z.row = q.row, z.plan = q.plan,
             z.other = o, o # q.party, party[o].status = "ACTIVE",
             z.step = "leaveOther" => /\ z.otherRow.hostId = party[o].hostId
                                      /\ z.otherRow.status = party[o].status
                                      /\ z.otherRow.participants \subseteq party[o].participants
      PROVE  SerialInv'
  <2>1. OtherAsLoaded(z)
    BY <1>5 DEF OtherAsLoaded
  <2>2. /\ Creates(q) => Creates(z)
        /\ PlanStands(q) => PlanStands(z)
    BY <1>5 DEF Creates, PlanStands
  <2>3. AsLoaded(q) => AsLoaded(z)
    BY <1>2, <1>5 DEF AsLoaded
  <2>4. Serial(z)
    BY <1>3, <1>5, <2>1, <2>2, <2>3 DEF Serial, Vacating
  <2> QED BY <1>1, <1>2, <1>5, <2>4, SerialGoto
<1>6. ASSUME NEW o \in ActivePartiesOf(q.user), o # q.party, party[o].hostId = q.user,
             Goto(r, [q EXCEPT !.step = "endLoad", !.other = o])
      PROVE  SerialInv'
  <2>1. PICK z : z = [q EXCEPT !.step = "endLoad", !.other = o]
    OBVIOUS
  <2>2. /\ z.step = "endLoad" /\ z.call = q.call /\ z.user = q.user /\ z.party = q.party
        /\ z.row = q.row /\ z.plan = q.plan /\ z.other = o
    BY <1>3, <2>1 DEF Request
  <2> QED BY <1>5, <1>6, <2>1, <2>2 DEF ActivePartiesOf
<1>7. ASSUME NEW o \in ActivePartiesOf(q.user), o # q.party,
             Goto(r, [q EXCEPT !.step = "leaveOther", !.other = o,
                        !.otherRow = [WithRelations(party[o], {}, NoRow) EXCEPT
                                        !.participants = LoadedSeats(q.user, o) \ {q.user}]])
      PROVE  SerialInv'
  <2>1. PICK w : w = WithRelations(party[o], {}, NoRow)
    OBVIOUS
  <2>2. PICK row : row = [w EXCEPT !.participants = LoadedSeats(q.user, o) \ {q.user}]
    OBVIOUS
  <2>3. PICK z : z = [q EXCEPT !.step = "leaveOther", !.other = o, !.otherRow = row]
    OBVIOUS
  <2>4. o \in Parties /\ party[o].status = "ACTIVE" /\ party[o] \in WatchPartyRow
    BY DEF ActivePartiesOf, TypeInv, TypeOK
  <2>5. w \in WatchPartyRow /\ w.status = party[o].status /\ w.hostId = party[o].hostId
    BY <2>1, <2>4, NoRowType, WithRelationsType DEF WithRelations, WatchPartyRow
  <2>6. LoadedSeats(q.user, o) \subseteq party[o].participants
    BY DEF LoadedSeats
  <2>7. /\ row.status = party[o].status /\ row.hostId = party[o].hostId
        /\ row.participants \subseteq party[o].participants
    BY <2>2, <2>5, <2>6 DEF WatchPartyRow
  <2>8. /\ z.step = "leaveOther" /\ z.call = q.call /\ z.user = q.user /\ z.party = q.party
        /\ z.row = q.row /\ z.plan = q.plan /\ z.other = o /\ z.otherRow = row
    BY <1>3, <2>3 DEF Request
  <2>9. Goto(r, z)
    BY <1>7, <2>1, <2>2, <2>3
  <2> QED BY <1>5, <1>7, <2>4, <2>7, <2>8, <2>9
<1> QED BY <1>1, <1>4, <1>6, <1>7 DEF Lookup

\* A write to the other party leaves the call's own party as it was loaded.
LEMMA OtherWritten ==
  ASSUME NEW q, AsLoaded(q), q.party # q.other,
         \A o \in Parties \ {q.other} : party'[o] = party[o]
  PROVE  AsLoaded(q)'
BY DEF AsLoaded, Load

LEMMA LeaveOtherSerial ==
  ASSUME OneAtATime, TypeInv, SerialInv, NEW r \in Requests, LeaveOther(r)
  PROVE  SerialInv'
<1>1. PICK q : q = req[r]
  OBVIOUS
<1>2. q.step = "leaveOther" /\ q.step \in Vacating /\ UNCHANGED user
  BY <1>1 DEF LeaveOther, Vacating
<1>3. /\ q \in Request /\ q.otherRow \in WatchPartyRow
      /\ q.call = "end" \/ Creates(q) \/ AsLoaded(q)
      /\ "purchase" \notin Calls /\ q.call \notin {"end", "startScheduled"} => PlanStands(q)
      /\ OtherAsLoaded(q)
  BY <1>1, <1>2, VacatingFacts
<1>4. PICK p \in Parties : p = q.other
  BY <1>3 DEF OtherAsLoaded
<1>5. /\ party'[p].status = party[p].status /\ party'[p].hostId = party[p].hostId
      /\ party'[p].participants \subseteq party[p].participants
      /\ party[p].status # "NONE"
      /\ \A o \in Parties \ {p} : party'[o] = party[o]
  BY <1>1, <1>2, <1>3, <1>4, Saved DEF LeaveOther, OtherAsLoaded
<1>6. Serial(Vacated(q))'
  <2>1. AsLoaded(q) => AsLoaded(q)'
    BY <1>3, <1>4, <1>5, OtherWritten DEF OtherAsLoaded
  <2>2. PlanStands(q) => PlanStands(q)'
    BY <1>2 DEF PlanStands
  <2> QED BY <1>2, <1>3, <2>1, <2>2, VacatedSerial
<1>7. "purchase" \notin Calls => FreemiumOneLiveParty'
  <2>1. \A u \in Users : p \in LivePartiesOf(u)' => p \in LivePartiesOf(u)
    BY <1>5 DEF LivePartiesOf, InvolvedIn
  <2> QED BY <1>2, <1>5, <2>1, LiveKept DEF SerialInv
<1>8. Calls \cap {"purchase", "fail"} = {} => Downgraded'
  <2>1. \A o \in Parties : /\ party'[o].status = party[o].status
                           /\ party'[o].participants \subseteq party[o].participants
    BY <1>5
  <2> QED BY <1>1, <1>2, <2>1, AllDowngraded DEF SerialInv, Downgraded
<1>9. \A o \in Parties : party'[o].status = "NONE" => party'[o] = NoRow
  BY <1>5 DEF SerialInv
<1> QED BY <1>1, <1>6, <1>7, <1>8, <1>9, SerialStep DEF LeaveOther, Goto

LEMMA EndLoadSerial ==
  ASSUME OneAtATime, TypeInv, SerialInv, NEW r \in Requests, EndLoad(r)
  PROVE  SerialInv'
<1>1. PICK q : q = req[r]
  OBVIOUS
<1>2. q.step = "endLoad" /\ q.step \in Vacating /\ UNCHANGED <<party, user>>
  BY <1>1 DEF EndLoad, Vacating
<1>3. /\ q \in Request
      /\ q.call = "end" \/ Creates(q) \/ AsLoaded(q)
      /\ "purchase" \notin Calls /\ q.call \notin {"end", "startScheduled"} => PlanStands(q)
      /\ OtherAsLoaded(q)
  BY <1>1, <1>2, VacatingFacts
<1>4. PICK w : w = Load(q.other, "end")
  OBVIOUS
<1>5. CASE Finish(r)
  BY <1>1, <1>2, <1>5, SerialFinish
<1>6. CASE Goto(r, Vacated(q))
  <2>1. AsLoaded(q) => AsLoaded(q)'
    BY <1>2 DEF AsLoaded, Load
  <2>2. PlanStands(q) => PlanStands(q)'
    BY <1>2 DEF PlanStands
  <2>3. Serial(Vacated(q))'
    BY <1>2, <1>3, <2>1, <2>2, VacatedSerial
  <2> QED BY <1>1, <1>2, <1>6, <2>3, SerialMove
<1>7. CASE Goto(r, [q EXCEPT !.step = "endSave", !.otherRow = [w EXCEPT !.status = "ENDED"],
                             !.freemium = FreemiumUsers(w)])
  <2>1. PICK row : row = [w EXCEPT !.status = "ENDED"]
    OBVIOUS
  <2>2. PICK freemium : freemium = FreemiumUsers(w)
    OBVIOUS
  <2>3. PICK z : z = [q EXCEPT !.step = "endSave", !.otherRow = row, !.freemium = freemium]
    OBVIOUS
  <2>4. /\ q.other \in Parties /\ q.other # q.party /\ party[q.other].status # "NONE"
    BY <1>3 DEF OtherAsLoaded
  <2>5. /\ w \in WatchPartyRow /\ w.hostId = party[q.other].hostId
        /\ w.participants = party[q.other].participants
    BY <1>4, <2>4, Loaded, Relations
  <2>6. row.status = "ENDED" /\ row.hostId = w.hostId /\ row.participants = w.participants
    BY <2>1, <2>5 DEF WatchPartyRow
  <2>7. FreemiumUsers(row) = freemium
    BY <2>2, <2>6 DEF FreemiumUsers
  <2>8. /\ z.step = "endSave" /\ z.call = q.call /\ z.user = q.user /\ z.party = q.party
        /\ z.row = q.row /\ z.plan = q.plan /\ z.other = q.other /\ z.otherRow = row
        /\ z.freemium = freemium
    BY <1>3, <2>3 DEF Request
  <2>9. OtherAsLoaded(z)
    BY <2>4, <2>5, <2>6, <2>7, <2>8 DEF OtherAsLoaded
  <2>10. /\ Creates(q) => Creates(z)
         /\ PlanStands(q) => PlanStands(z)
    BY <2>8 DEF Creates, PlanStands
  <2>11. AsLoaded(q) => AsLoaded(z)
    BY <1>2, <2>8 DEF AsLoaded
  <2>12. Serial(z)
    BY <1>3, <2>8, <2>9, <2>10, <2>11 DEF Serial, Vacating
  <2> QED BY <1>1, <1>2, <1>7, <2>1, <2>2, <2>3, <2>12, SerialGoto
<1> QED BY <1>1, <1>4, <1>5, <1>6, <1>7 DEF EndLoad

LEMMA EndSaveSerial ==
  ASSUME OneAtATime, TypeInv, SerialInv, NEW r \in Requests, EndSave(r)
  PROVE  SerialInv'
<1>1. PICK q : q = req[r]
  OBVIOUS
<1>2. q.step = "endSave" /\ q.step \in Vacating /\ UNCHANGED user
  BY <1>1 DEF EndSave, Vacating
<1>3. /\ q \in Request /\ q.otherRow \in WatchPartyRow
      /\ q.call = "end" \/ Creates(q) \/ AsLoaded(q)
      /\ "purchase" \notin Calls /\ q.call \notin {"end", "startScheduled"} => PlanStands(q)
      /\ OtherAsLoaded(q)
  BY <1>1, <1>2, VacatingFacts
<1>4. PICK p \in Parties : p = q.other
  BY <1>3 DEF OtherAsLoaded
<1>5. /\ party'[p].status = "ENDED" /\ party'[p].participants = q.otherRow.participants
      /\ \A o \in Parties \ {p} : party'[o] = party[o]
  BY <1>1, <1>2, <1>3, <1>4, Saved DEF EndSave, OtherAsLoaded
<1>6. PICK z : z = IF q.freemium = {} THEN Vacated(q) ELSE [q EXCEPT !.step = "downgrade"]
  OBVIOUS
<1>7. Serial(z)'
  <2>1. AsLoaded(q) => AsLoaded(q)'
    BY <1>3, <1>4, <1>5, OtherWritten DEF OtherAsLoaded
  <2>2. PlanStands(q) => PlanStands(q)'
    BY <1>2 DEF PlanStands
  <2>3. CASE q.freemium = {}
    BY <1>2, <1>3, <1>6, <2>1, <2>2, <2>3, VacatedSerial
  <2>4. CASE q.freemium # {}
    <3>1. /\ z.step = "downgrade" /\ z.call = q.call /\ z.user = q.user /\ z.party = q.party
          /\ z.row = q.row /\ z.plan = q.plan
      BY <1>3, <1>6, <2>4 DEF Request
    <3>2. /\ Creates(q) => Creates(z)
          /\ PlanStands(q)' => PlanStands(z)'
      BY <3>1 DEF Creates, PlanStands
    <3>3. AsLoaded(q)' => AsLoaded(z)'
      BY <1>2, <3>1 DEF AsLoaded
    <3>4. z.call = "end" \/ Creates(z) \/ AsLoaded(z)'
      BY <1>3, <2>1, <3>1, <3>2, <3>3
    <3>5. "purchase" \notin Calls /\ z.call \notin {"end", "startScheduled"} => PlanStands(z)'
      BY <1>3, <2>2, <3>1, <3>2
    <3> QED BY <3>1, <3>4, <3>5 DEF Serial, Vacating, Creates
  <2> QED BY <2>3, <2>4
<1>8. "purchase" \notin Calls => FreemiumOneLiveParty'
  <2>1. \A u \in Users : p \notin LivePartiesOf(u)'
    BY <1>5 DEF LivePartiesOf
  <2> QED BY <1>2, <1>5, <2>1, LiveKept DEF SerialInv
<1>9. Calls \cap {"purchase", "fail"} = {} => Downgraded'
  <2> SUFFICES ASSUME Calls \cap {"purchase", "fail"} = {}, NEW o \in Parties,
                      party'[o].status = "ENDED", NEW u \in party'[o].participants,
                      user'[u].subscriptionType = "FREEMIUM"
               PROVE  req'[r].step = "downgrade" /\ u \in req'[r].freemium
    BY DEF Downgraded
  <2>1. o = p
    BY <1>1, <1>2, <1>5, AllDowngraded DEF SerialInv
  <2>2. u \in FreemiumUsers(q.otherRow) /\ FreemiumUsers(q.otherRow) \subseteq q.freemium
    BY <1>2, <1>3, <1>5, <2>1 DEF OtherAsLoaded, FreemiumUsers
  <2>3. z.step = "downgrade" /\ z.freemium = q.freemium
    BY <1>3, <1>6, <2>2 DEF Request
  <2>4. req'[r] = z
    BY <1>1, <1>6 DEF EndSave, Goto, TypeInv, TypeOK
  <2> QED BY <2>2, <2>3, <2>4
<1>10. \A o \in Parties : party'[o].status = "NONE" => party'[o] = NoRow
  BY <1>5 DEF SerialInv
<1> QED BY <1>1, <1>6, <1>7, <1>8, <1>9, <1>10, SerialStep DEF EndSave, Goto

\* When nobody becomes a freemium user, nobody gets a second live party by it,
\* and what a request relies on still holds.
LEMMA FewerFreemium ==
  ASSUME TypeInv, SerialInv, UNCHANGED party,
         \A u \in Users : user'[u].subscriptionType = "FREEMIUM" =>
                            user[u].subscriptionType = "FREEMIUM"
  PROVE  /\ "purchase" \notin Calls => FreemiumOneLiveParty'
         /\ \A r \in Requests : Serial(req[r]) => \A q : q = req[r] => Serial(q)'
<1>1. "purchase" \notin Calls => FreemiumOneLiveParty'
  BY DEF SerialInv, FreemiumOneLiveParty, LivePartiesOf, InvolvedIn
<1>2. ASSUME NEW r \in Requests, NEW q, q = req[r], Serial(q)
      PROVE  Serial(q)'
  <2>1. q \in Request /\ (q.step # "idle" => q.user \in Users)
    BY <1>2 DEF TypeInv, TypeOK, WellFormed
  <2>2. AsLoaded(q) => AsLoaded(q)'
    BY DEF AsLoaded, Load
  <2>3. PlanStands(q) /\ q.step # "idle" => PlanStands(q)'
    BY <2>1 DEF PlanStands
  <2>4. Unseated(q.user) /\ q.step # "idle" => Unseated(q.user)'
    BY <2>1 DEF Unseated, LivePartiesOf, InvolvedIn
  <2>5. SavesWell(q) /\ q.step # "idle" => SavesWell(q)'
    BY <2>4 DEF SavesWell, Seats
  <2>6. OtherAsLoaded(q) => OtherAsLoaded(q)'
    <3>1. FreemiumUsers(q.otherRow)' \subseteq FreemiumUsers(q.otherRow)
      BY <2>1 DEF FreemiumUsers, Request, WatchPartyRow
    <3> QED BY <3>1 DEF OtherAsLoaded
  <2>7. CASE q.step = "idle"
    BY <2>7, IdleSerial
  <2>8. CASE q.step # "idle"
    <3>1. (Creates(q) => Creates(q)') /\ (Load(q.party, q.call))' = Load(q.party, q.call)
      BY DEF Creates, Load
    <3> QED BY <1>2, <2>2, <2>3, <2>4, <2>5, <2>6, <2>8, <3>1 DEF Serial, Vacating
  <2> QED BY <2>7, <2>8
<1> QED BY <1>1, <1>2

LEMMA DowngradeSerial ==
  ASSUME OneAtATime, TypeInv, SerialInv, NEW r \in Requests, Downgrade(r)
  PROVE  SerialInv'
<1>1. PICK q : q = req[r]
  OBVIOUS
<1>2. q.step = "downgrade" /\ q.step \in Vacating /\ UNCHANGED party
  BY <1>1 DEF Downgrade, Vacating
<1>3. /\ q \in Request /\ q.user \in Users
      /\ q.call = "end" \/ Creates(q) \/ AsLoaded(q)
      /\ "purchase" \notin Calls /\ q.call \notin {"end", "startScheduled"} => PlanStands(q)
  BY <1>1, <1>2, VacatingFacts
<1>4. \A u \in Users : user'[u].subscriptionType = "FREEMIUM" =>
        u \notin q.freemium /\ user[u].subscriptionType = "FREEMIUM"
  BY <1>1 DEF Downgrade, TypeInv, TypeOK, UserRow
<1>5. Serial(Vacated(q))'
  <2>1. AsLoaded(q) => AsLoaded(q)'
    BY <1>2 DEF AsLoaded, Load
  <2>2. PlanStands(q) => PlanStands(q)'
    BY <1>3, <1>4 DEF PlanStands
  <2> QED BY <1>2, <1>3, <2>1, <2>2, VacatedSerial
<1>6. "purchase" \notin Calls => FreemiumOneLiveParty'
  BY <1>2, <1>4, FewerFreemium
<1>7. Calls \cap {"purchase", "fail"} = {} => Downgraded'
  <2> SUFFICES ASSUME Calls \cap {"purchase", "fail"} = {}, NEW o \in Parties,
                      party'[o].status = "ENDED", NEW u \in party'[o].participants,
                      user'[u].subscriptionType = "FREEMIUM"
               PROVE  FALSE
    BY DEF Downgraded
  <2>1. u \in Users
    BY <1>2 DEF TypeInv, TypeOK, WatchPartyRow
  <2>2. \E s \in Requests : req[s].step = "downgrade" /\ u \in req[s].freemium
    BY <1>2, <1>4, <2>1 DEF SerialInv, Downgraded
  <2>3. u \in q.freemium
    BY <1>1, <2>2 DEF OneAtATime
  <2> QED BY <1>4, <2>1, <2>3
<1> QED BY <1>1, <1>2, <1>5, <1>6, <1>7, SerialStep DEF SerialInv, Downgrade, Goto

LEMMA CountSerial ==
  ASSUME OneAtATime, TypeInv, SerialInv, NEW r \in Requests, Count(r)
  PROVE  SerialInv'
<1>1. PICK q : q = req[r]
  OBVIOUS
<1>2. q.step = "count" /\ UNCHANGED <<party, user>>
  BY <1>1 DEF Count
<1>3. q \in Request /\ q.user \in Users /\ q.row \in WatchPartyRow
  BY <1>1, <1>2, RequestFacts
<1>4. /\ Creates(q) \/ AsLoaded(q)
      /\ q.call # "startScheduled"
      /\ "purchase" \notin Calls => PlanStands(q)
  BY <1>1, <1>2 DEF SerialInv, Serial, AsLoaded, Creates
<1>5. CASE Finish(r)
  BY <1>1, <1>2, <1>5, SerialFinish
<1>6. "purchase" \notin Calls /\ ~OverFreemiumLimit(q) /\ (q.call = "joinByCode" => ~AlreadyIn(q))
        => Unseated(q.user)
  BY <1>4 DEF OverFreemiumLimit, PlanStands, Unseated, UserHasScheduledOrActiveParty, LivePartiesOf
<1>7. ASSUME ~OverFreemiumLimit(q), q.call \in {"start", "schedule"},
             NEW step \in {"create", "key", "invitees"}, Goto(r, [q EXCEPT !.step = step])
      PROVE  SerialInv'
  <2>1. PICK z : z = [q EXCEPT !.step = step]
    OBVIOUS
  <2>2. /\ z.step = step /\ z.call = q.call /\ z.party = q.party /\ z.user = q.user
        /\ z.row = q.row
    BY <1>3, <2>1 DEF Request
  <2>3. Creates(z)
    BY <1>4, <1>7, <2>2 DEF Creates, AsLoaded
  <2>4. Serial(z)
    BY <1>6, <1>7, <2>2, <2>3 DEF Serial, Vacating
  <2> QED BY <1>1, <1>2, <1>7, <2>1, <2>4, SerialGoto
<1>8. ASSUME ~OverFreemiumLimit(q), ~NotInvited(q), q.call \notin {"start", "schedule"},
             Goto(r, [q EXCEPT !.step = "save", !.row = JoinedRow(q.row, q.user)])
      PROVE  SerialInv'
  <2>1. PICK row : row = JoinedRow(q.row, q.user)
    OBVIOUS
  <2>2. PICK z : z = [q EXCEPT !.step = "save", !.row = row]
    OBVIOUS
  <2>3. PICK w : w = party[q.party]
    OBVIOUS
  <2>4. AsLoaded(q) /\ q.call \in {"join", "joinByCode"}
    BY <1>4, <1>8 DEF Creates, AsLoaded
  <2>5. /\ q.party \in Parties /\ w.status \in {"SCHEDULED", "ACTIVE"}
        /\ q.row.status = w.status /\ q.row.hostId = w.hostId
        /\ q.row.participants = w.participants
        /\ q.call = "join" => w.hostId = q.user
        /\ q.call = "joinByCode" =>
             q.user \notin w.bannedUsers /\ q.row.invitedUsers = w.invitedUsers
    BY <1>2, <2>3, <2>4, Loaded, Relations DEF AsLoaded
  <2>6. /\ row.status = q.row.status /\ row.hostId = q.row.hostId
        /\ row.participants = q.row.participants \cup {q.user}
    BY <1>3, <2>1 DEF JoinedRow, WatchPartyRow
  <2>7. /\ z.step = "save" /\ z.call = q.call /\ z.party = q.party /\ z.user = q.user
        /\ z.row = row
    BY <1>3, <2>2 DEF Request
  <2>8. Seats(z) = w.participants \cup {q.user}
    BY <2>4, <2>5, <2>6, <2>7, Relations DEF Seats
  <2>9. w.status = "SCHEDULED" => q.user \in w.invitedUsers \cup {w.hostId}
    BY <1>8, <2>4, <2>5 DEF NotInvited
  <2>10. "purchase" \notin Calls /\ q.user \notin w.participants => Unseated(q.user)
    BY <1>6, <1>8, <2>5 DEF AlreadyIn
  <2>11. SavesWell(z)
    BY <2>3, <2>4, <2>5, <2>6, <2>7, <2>8, <2>9, <2>10 DEF SavesWell
  <2>12. Serial(z)
    BY <2>7, <2>11 DEF Serial, Vacating
  <2> QED BY <1>1, <1>2, <1>8, <2>1, <2>2, <2>12, SerialGoto
<1> QED BY <1>1, <1>5, <1>7, <1>8 DEF Count

LEMMA ChecksSerial ==
  ASSUME OneAtATime, TypeInv, SerialInv, NEW r \in Requests,
         KeyLookup(r) \/ LoadInvitees(r) \/ LoadKicked(r)
  PROVE  SerialInv'
<1>1. PICK q : q = req[r]
  OBVIOUS
<1>2. q.step \in {"key", "invitees", "kicked"} /\ UNCHANGED <<party, user>>
  BY <1>1 DEF KeyLookup, LoadInvitees, LoadKicked
<1>3. q \in Request
  BY <1>1, <1>2, RequestFacts
<1>4. CASE Finish(r)
  BY <1>1, <1>2, <1>4, SerialFinish
<1>5. ASSUME NEW step, \/ step = "create" /\ q.step \in {"key", "invitees"}
                       \/ step = "track",
             Goto(r, [q EXCEPT !.step = step])
      PROVE  SerialInv'
  <2>1. PICK z : z = [q EXCEPT !.step = step]
    OBVIOUS
  <2>2. /\ z.step = step /\ z.call = q.call /\ z.party = q.party /\ z.user = q.user
        /\ z.row = q.row
    BY <1>3, <2>1 DEF Request
  <2>3. step = "create" => Creates(z) /\ ("purchase" \notin Calls => Unseated(z.user))
    BY <1>1, <1>5, <2>2 DEF SerialInv, Serial, Creates
  <2>4. Serial(z)
    BY <1>5, <2>2, <2>3 DEF Serial, Vacating
  <2> QED BY <1>1, <1>2, <1>5, <2>1, <2>4, SerialGoto
<1> QED BY <1>1, <1>2, <1>4, <1>5 DEF KeyLookup, LoadInvitees, LoadKicked

LEMMA CreateSerial ==
  ASSUME OneAtATime, TypeInv, SerialInv, NEW r \in Requests, Create(r)
  PROVE  SerialInv'
<1>1. PICK q : q = req[r]
  OBVIOUS
<1>2. q.step = "create" /\ UNCHANGED user
  BY <1>1 DEF Create
<1>3. q \in Request /\ q.user \in Users /\ q.row \in WatchPartyRow
  BY <1>1, <1>2, RequestFacts
<1>4. Creates(q) /\ ("purchase" \notin Calls => Unseated(q.user))
  BY <1>1, <1>2 DEF SerialInv, Serial
<1>5. CASE Finish(r) /\ UNCHANGED party
  BY <1>1, <1>2, <1>5, SerialFinish
<1>6. ASSUME NEW p \in Parties, ~Exists(p), party' = [party EXCEPT ![p] = q.row],
             Goto(r, [q EXCEPT !.step = "track", !.party = p]) \/ Goto(r, Idle)
      PROVE  SerialInv'
  <2>1. /\ party'[p] = q.row
        /\ \A o \in Parties \ {p} : party'[o] = party[o]
    BY <1>6 DEF TypeInv, TypeOK
  <2>2. q.row.status \in {"SCHEDULED", "ACTIVE"} /\ q.row.hostId = q.user
        /\ q.row.participants = {q.user}
    BY <1>4 DEF Creates
  <2>3. PICK z : Goto(r, z) /\ z.step \in {"idle", "track"}
    <3>1. Idle.step = "idle" /\ [q EXCEPT !.step = "track", !.party = p].step = "track"
      BY <1>3 DEF Idle, Request
    <3> QED BY <1>6, <3>1
  <2>7. Serial(z)'
    BY <2>3, IdleSerial
  <2>4. "purchase" \notin Calls => FreemiumOneLiveParty'
    <3>1. ASSUME "purchase" \notin Calls, NEW u \in Users, p \in LivePartiesOf(u)'
          PROVE  Unseated(u)
      BY <1>4, <2>1, <2>2, <3>1 DEF LivePartiesOf, InvolvedIn
    <3> QED BY <1>2, <2>1, <3>1, LiveKept DEF SerialInv
  <2>5. Calls \cap {"purchase", "fail"} = {} => Downgraded'
    BY <1>1, <1>2, <2>1, <2>2, AllDowngraded DEF SerialInv, Downgraded
  <2>6. \A o \in Parties : party'[o].status = "NONE" => party'[o] = NoRow
    BY <2>1, <2>2 DEF SerialInv
  <2> QED BY <2>3, <2>4, <2>5, <2>6, <2>7, SerialStep DEF Goto
<1>7. \/ Finish(r) /\ UNCHANGED party
      \/ \E p \in Parties : /\ ~Exists(p) /\ party' = [party EXCEPT ![p] = q.row]
                            /\ \/ Goto(r, [q EXCEPT !.step = "track", !.party = p])
                               \/ Goto(r, Idle)
  BY <1>1 DEF Create, Finish
<1> QED BY <1>5, <1>6, <1>7

LEMMA SavePartySerial ==
  ASSUME OneAtATime, TypeInv, SerialInv, NEW r \in Requests, SaveParty(r)
  PROVE  SerialInv'
<1>1. PICK q : q = req[r]
  OBVIOUS
<1>2. q.step = "save" /\ UNCHANGED user
  BY <1>1 DEF SaveParty
<1>3. q \in Request /\ q.user \in Users /\ q.row \in WatchPartyRow
  BY <1>1, <1>2, RequestFacts
<1>4. SavesWell(q)
  BY <1>1, <1>2 DEF SerialInv, Serial
<1>5. PICK p \in Parties : p = q.party
  BY <1>4 DEF SavesWell
<1>6. PICK w : w = party[p]
  OBVIOUS
<1>7. Save(p, q.row, LoadedRelations(q.call))
  BY <1>1, <1>5 DEF SaveParty
<1>8. /\ party'[p].status = q.row.status /\ party'[p].hostId = q.row.hostId
      /\ party'[p].participants = Seats(q)
      /\ \A o \in Parties \ {p} : party'[o] = party[o]
  BY <1>3, <1>5, <1>7, Saved DEF Seats
<1>9. /\ w.status # "NONE"
      /\ q.row.status = w.status \/ (w.status = "SCHEDULED" /\ q.row.status = "ACTIVE")
      /\ q.row.hostId \in {w.hostId} \cup w.participants
      /\ Seats(q) \subseteq w.participants \cup {q.user}
      /\ q.user \in Seats(q) \ w.participants =>
           /\ w.status \in {"SCHEDULED", "ACTIVE"} /\ q.row.status = w.status
           /\ "purchase" \notin Calls => Unseated(q.user)
  BY <1>4, <1>5, <1>6 DEF SavesWell
<1>10. PICK z : Goto(r, z) /\ z.step \in {"idle", "track", "kicked"}
  BY <1>1, <1>3 DEF SaveParty, Finish, Idle, Request
<1>11. Serial(z)'
  BY <1>10, IdleSerial
<1>12. "purchase" \notin Calls => FreemiumOneLiveParty'
  <2>1. ASSUME "purchase" \notin Calls, NEW u \in Users, p \in LivePartiesOf(u)'
        PROVE  p \in LivePartiesOf(u) \/ Unseated(u)
    <3>1. /\ q.row.status \in {"SCHEDULED", "ACTIVE"}
          /\ u = q.row.hostId \/ u \in Seats(q)
      BY <1>8, <2>1 DEF LivePartiesOf, InvolvedIn
    <3>2. w.status \in {"SCHEDULED", "ACTIVE"}
      BY <1>9, <3>1
    <3>3. \/ u = w.hostId \/ u \in w.participants
          \/ u = q.user /\ u \in Seats(q) \ w.participants
      BY <1>9, <3>1
    <3> QED BY <1>6, <1>9, <2>1, <3>2, <3>3 DEF LivePartiesOf, InvolvedIn
  <2> QED BY <1>2, <1>8, <2>1, LiveKept DEF SerialInv
<1>13. Calls \cap {"purchase", "fail"} = {} => Downgraded'
  <2>1. party'[p].status = "ENDED" =>
          party[p].status = "ENDED" /\ party'[p].participants \subseteq party[p].participants
    BY <1>6, <1>8, <1>9
  <2> QED BY <1>1, <1>2, <1>8, <2>1, AllDowngraded DEF SerialInv, Downgraded
<1>14. \A o \in Parties : party'[o].status = "NONE" => party'[o] = NoRow
  BY <1>8, <1>9 DEF SerialInv
<1> QED BY <1>10, <1>11, <1>12, <1>13, <1>14, SerialStep DEF Goto

LEMMA TrackMovieSerial ==
  ASSUME OneAtATime, TypeInv, SerialInv, NEW r \in Requests, TrackMovie(r)
  PROVE  SerialInv'
<1>1. req[r].step = "track" /\ UNCHANGED party /\ req' = [req EXCEPT ![r] = Idle]
  BY DEF TrackMovie, Finish, Goto
<1>2. \A u \in Users : user'[u].subscriptionType = user[u].subscriptionType
  BY DEF TrackMovie, TypeInv, TypeOK, UserRow
<1>3. Idle.step = "idle"
  BY DEF Idle
<1>4. Serial(Idle)'
  BY <1>3, IdleSerial
<1>5. "purchase" \notin Calls => FreemiumOneLiveParty'
  BY <1>1, <1>2, FewerFreemium
<1>6. Calls \cap {"purchase", "fail"} = {} => Downgraded'
  <2>1. \A p \in Parties : party[p].participants \subseteq Users
    BY DEF TypeInv, TypeOK, WatchPartyRow
  <2> QED BY <1>1, <1>2, <2>1, AllDowngraded DEF SerialInv, Downgraded
<1>7. \A p \in Parties : party'[p].status = "NONE" => party'[p] = NoRow
  BY <1>1 DEF SerialInv
<1> QED BY <1>1, <1>4, <1>5, <1>6, <1>7, SerialStep

LEMMA ContinueSerial ==
  ASSUME OneAtATime, TypeInv, SerialInv, NEW r \in Requests, Continue(r)
  PROVE  SerialInv'
BY LoadAccountSerial, LoadSubjectSerial, LookupSerial, LeaveOtherSerial, EndLoadSerial,
   EndSaveSerial, DowngradeSerial, CountSerial, ChecksSerial, CreateSerial, SavePartySerial,
   TrackMovieSerial DEF Continue

\* A request that dies between two of its calls.
LEMMA FailSerial ==
  ASSUME OneAtATime, TypeInv, SerialInv, NEW r \in Requests, Fail(r)
  PROVE  SerialInv'
<1>1. "fail" \in Calls /\ UNCHANGED <<party, user>> /\ req' = [req EXCEPT ![r] = Idle]
  BY DEF Fail, Finish, Goto
<1>2. Idle.step = "idle"
  BY DEF Idle
<1>3. Serial(Idle)'
  BY <1>2, IdleSerial
<1>4. "purchase" \notin Calls => FreemiumOneLiveParty'
  BY <1>1, FewerFreemium
<1>5. \A p \in Parties : party'[p].status = "NONE" => party'[p] = NoRow
  BY <1>1 DEF SerialInv
<1> QED BY <1>1, <1>3, <1>4, <1>5, SerialStep

\* A plan that runs out or is bought while a request is in flight.
LEMMA ExpireSerial ==
  ASSUME TypeInv, SerialInv, NEW u \in Users, Expire(u)
  PROVE  SerialInv'
<1>1. UNCHANGED <<party, req>>
  BY DEF Expire
<1>2. \A x \in Users : user'[x].subscriptionType = "FREEMIUM" =>
                         user[x].subscriptionType = "FREEMIUM"
  BY DEF Expire, TypeInv, TypeOK, UserRow
<1>3. \A r \in Requests : Serial(req[r])'
  <2> TAKE r \in Requests
  <2>1. PICK q : q = req[r]
    OBVIOUS
  <2>2. Serial(q)'
    BY <1>1, <1>2, <2>1, FewerFreemium DEF SerialInv
  <2> QED BY <1>1, <2>1, <2>2 DEF Serial, AsLoaded, Creates, PlanStands, SavesWell, Seats,
                                  OtherAsLoaded, Load, FreemiumUsers
<1>4. "purchase" \notin Calls => FreemiumOneLiveParty'
  BY <1>1, <1>2, FewerFreemium
<1>5. Calls \cap {"purchase", "fail"} = {} => Downgraded'
  <2>1. \A p \in Parties : party[p].participants \subseteq Users
    BY DEF TypeInv, TypeOK, WatchPartyRow
  <2> QED BY <1>1, <1>2, <2>1 DEF SerialInv, Downgraded
<1> QED BY <1>1, <1>3, <1>4, <1>5 DEF SerialInv

LEMMA PurchaseSerial ==
  ASSUME TypeInv, SerialInv, NEW u \in Users, NEW plan \in SubscriptionType, Purchase(u, plan)
  PROVE  SerialInv'
<1>1. "purchase" \in Calls /\ UNCHANGED <<party, req>>
  BY DEF Purchase
<1>2. \A r \in Requests : Serial(req[r])'
  BY <1>1 DEF SerialInv, Serial, AsLoaded, Creates, SavesWell, Seats, OtherAsLoaded, Load, Vacating
<1> QED BY <1>1, <1>2 DEF SerialInv

LEMMA InitSerial == Init => SerialInv
<1> SUFFICES ASSUME Init PROVE SerialInv
  OBVIOUS
<1>1. \A p \in Parties : /\ party[p] = NoRow /\ NoRow.status = "NONE"
                         /\ NoRow.participants = {} /\ NoRow.hostId = None
  BY DEF Init, NoRow
<1>2. \A r \in Requests : Serial(req[r])
  <2>1. \A r \in Requests : req[r].step = "idle"
    BY DEF Init, Idle
  <2> QED BY <2>1 DEF Serial, Vacating
<1>3. FreemiumOneLiveParty /\ Downgraded
  BY <1>1 DEF FreemiumOneLiveParty, LivePartiesOf, Downgraded
<1> QED BY <1>1, <1>2, <1>3 DEF SerialInv

LEMMA NextSerial ==
  ASSUME OneAtATime PROVE TypeInv /\ SerialInv /\ [Next]_vars => SerialInv'
<1> SUFFICES ASSUME TypeInv, SerialInv, [Next]_vars PROVE SerialInv'
  OBVIOUS
<1>1. CASE UNCHANGED vars
  BY <1>1 DEF vars, SerialInv, Serial, AsLoaded, Creates, PlanStands, Unseated, SavesWell, Seats,
              OtherAsLoaded, Load, LivePartiesOf, InvolvedIn, FreemiumUsers, FreemiumOneLiveParty,
              Downgraded
<1>2. ASSUME NEW r \in Requests, Continue(r) PROVE SerialInv'
  BY <1>2, ContinueSerial
<1>3. ASSUME NEW r \in Requests, Fail(r) PROVE SerialInv'
  BY <1>3, FailSerial
<1>4. ASSUME NEW r \in Requests, NEW u \in Users, NewCall(r, u) PROVE SerialInv'
  BY <1>4, NewCallSerial
<1>5. ASSUME NEW u \in Users, Expire(u) PROVE SerialInv'
  BY <1>5, ExpireSerial
<1>6. ASSUME NEW u \in Users, NEW plan \in SubscriptionType, Purchase(u, plan) PROVE SerialInv'
  BY <1>6, PurchaseSerial
<1> QED BY <1>1, <1>2, <1>3, <1>4, <1>5, <1>6 DEF Next

LEMMA SerialAlways == ASSUME OneAtATime PROVE Spec => [](TypeInv /\ SerialInv)
<1>1. Init => TypeInv /\ SerialInv
  BY InitType, InitSerial
<1>2. (TypeInv /\ SerialInv) /\ [Next]_vars => (TypeInv /\ SerialInv)'
  BY NextType, NextSerial
<1> QED BY <1>1, <1>2, PTL DEF Spec

(***************************************************************************)
(* The theorems, for requests that come one at a time.                     *)
(***************************************************************************)
\* Whoever sat in a party that was ended, by endParty or by a call that ended
\* it on the way, is off the freemium plan once the call is through; as long as
\* no plan is bought meanwhile and no request dies before its downgrade.
THEOREM EndDowngrades ==
  ASSUME OneAtATime, Calls \cap {"purchase", "fail"} = {}
  PROVE  Spec => []EndDowngradesFreemium
<1>1. SerialInv => EndDowngradesFreemium
  <2> SUFFICES ASSUME SerialInv, Quiet, NEW p \in Parties, party[p].status = "ENDED",
                      NEW u \in party[p].participants, user[u].subscriptionType = "FREEMIUM"
               PROVE  FALSE
    BY DEF EndDowngradesFreemium
  <2>1. PICK r \in Requests : req[r].step = "downgrade"
    BY DEF SerialInv, Downgraded
  <2> QED BY <2>1 DEF Quiet, Idle
<1> QED BY <1>1, SerialAlways, PTL

\* The limit of one scheduled or active party holds for freemium users, however
\* they come to their seats: start, schedule, join, transfer or failover.
THEOREM OneLiveParty ==
  ASSUME OneAtATime, "purchase" \notin Calls
  PROVE  Spec => []FreemiumOneLiveParty
<1>1. SerialInv => FreemiumOneLiveParty
  BY DEF SerialInv
<1> QED BY <1>1, SerialAlways, PTL

\* What a step may do to the row of a party: create it, end it, start it, take
\* seats away, and give one seat to a user who may have it.
StepKeepsRules(p) ==
  LET w == party[p]
      v == party'[p] IN
  \/ v = w \/ w = NoRow
  \/ /\ v.status \in {w.status, "ENDED"} \/ (w.status = "SCHEDULED" /\ v.status = "ACTIVE")
     /\ \E u \in Users :
          /\ v.participants \subseteq w.participants \cup {u}
          /\ u \in v.participants \ w.participants =>
               /\ u \notin w.bannedUsers \/ u = w.hostId
               /\ w.status = "SCHEDULED" => u \in w.invitedUsers \cup {w.hostId}

LEMMA OtherRules ==
  ASSUME TypeInv, SerialInv, NEW r \in Requests, LeaveOther(r) \/ EndSave(r), NEW p \in Parties
  PROVE  StepKeepsRules(p)
<1>1. PICK q : q = req[r]
  OBVIOUS
<1>2. q.step \in {"leaveOther", "endSave"} /\ q.step \in Vacating
  BY <1>1 DEF LeaveOther, EndSave, Vacating
<1>3. q.user \in Users /\ q.otherRow \in WatchPartyRow /\ OtherAsLoaded(q)
  BY <1>1, <1>2, VacatingFacts
<1>4. q.other \in Parties /\ Save(q.other, q.otherRow, {"participants"})
  BY <1>1, <1>3 DEF LeaveOther, EndSave, OtherAsLoaded
<1>5. p # q.other => party'[p] = party[p]
  BY <1>3, <1>4, Saved
<1>6. p = q.other => /\ party'[p].status \in {party[p].status, "ENDED"}
                     /\ party'[p].participants \subseteq party[p].participants
  BY <1>2, <1>3, <1>4, Saved DEF OtherAsLoaded
<1> QED BY <1>3, <1>5, <1>6 DEF StepKeepsRules

LEMMA SaveRules ==
  ASSUME TypeInv, SerialInv, NEW r \in Requests, SaveParty(r), NEW p \in Parties
  PROVE  StepKeepsRules(p)
<1>1. PICK q : q = req[r]
  OBVIOUS
<1>2. q.step = "save"
  BY <1>1 DEF SaveParty
<1>3. q.user \in Users /\ q.row \in WatchPartyRow
  BY <1>1, <1>2, RequestFacts
<1>4. SavesWell(q) /\ q.party \in Parties
  BY <1>1, <1>2 DEF SerialInv, Serial, SavesWell
<1>5. Save(q.party, q.row, LoadedRelations(q.call))
  BY <1>1 DEF SaveParty
<1>6. p # q.party => party'[p] = party[p]
  BY <1>3, <1>4, <1>5, Saved
<1>7. p = q.party => party'[p].status = q.row.status /\ party'[p].participants = Seats(q)
  BY <1>3, <1>4, <1>5, Saved DEF Seats
<1> QED BY <1>3, <1>4, <1>6, <1>7 DEF StepKeepsRules, SavesWell

LEMMA NextRules ==
  ASSUME OneAtATime PROVE TypeInv /\ SerialInv /\ [Next]_vars => \A p \in Parties : StepKeepsRules(p)
<1> SUFFICES ASSUME TypeInv, SerialInv, [Next]_vars, NEW p \in Parties PROVE StepKeepsRules(p)
  OBVIOUS
<1>1. CASE UNCHANGED party
  BY <1>1 DEF StepKeepsRules
<1>2. ASSUME NEW r \in Requests, Create(r) PROVE StepKeepsRules(p)
  <2>1. \/ UNCHANGED party
        \/ \E o \in Parties : ~Exists(o) /\ party' = [party EXCEPT ![o] = req[r].row]
    BY <1>2 DEF Create
  <2>2. party'[p] = party[p] \/ party[p].status = "NONE"
    BY <2>1 DEF Exists, TypeInv, TypeOK
  <2> QED BY <2>2 DEF StepKeepsRules, SerialInv
<1>3. ASSUME NEW r \in Requests, SaveParty(r) PROVE StepKeepsRules(p)
  BY <1>3, SaveRules
<1>4. ASSUME NEW r \in Requests, LeaveOther(r) \/ EndSave(r) PROVE StepKeepsRules(p)
  BY <1>4, OtherRules
<1>5. ASSUME NEW r \in Requests, Continue(r)
      PROVE  UNCHANGED party \/ Create(r) \/ SaveParty(r) \/ LeaveOther(r) \/ EndSave(r)
  BY <1>5 DEF Continue, LoadAccount, LoadSubject, Lookup, EndLoad, Downgrade, Count, KeyLookup,
              LoadInvitees, LoadKicked, TrackMovie
<1>6. ASSUME NEW r \in Requests, NEW u \in Users, NewCall(r, u) PROVE UNCHANGED party
  BY <1>6 DEF NewCall, StartParty, ScheduleParty, JoinParty, JoinPartyByCode, BeginJoin, EndParty,
              StartScheduledParty, LeaveParty, RejectInvite, InviteToParty, RemoveInvite, KickUser,
              BanUser, UnbanUser, MuteUser, UnmuteUser, TransferHost, ReassignHost, Edit
<1> QED BY <1>1, <1>2, <1>3, <1>4, <1>5, <1>6 DEF Next, Fail, Expire, Purchase, vars

\* A step of the handlers moves no party back in its life: an ended party stays
\* ended and a running one is never only scheduled again.
THEOREM LifecycleForward == ASSUME OneAtATime PROVE Spec => LifecycleOnlyForward
<1>1. TypeInv /\ SerialInv /\ [Next]_vars =>
        \A p \in Parties : Lifecycle[party[p].status] <= Lifecycle[party'[p].status]
  <2> SUFFICES ASSUME TypeInv, SerialInv, [Next]_vars, NEW p \in Parties
               PROVE  Lifecycle[party[p].status] <= Lifecycle[party'[p].status]
    OBVIOUS
  <2>1. StepKeepsRules(p)
    BY NextRules
  <2>2. party[p].status \in WatchPartyStatus /\ party'[p].status \in WatchPartyStatus
    BY NextType DEF TypeInv, TypeOK, WatchPartyRow
  <2>3. /\ Lifecycle["NONE"] = 0 /\ Lifecycle["SCHEDULED"] = 1
        /\ Lifecycle["ACTIVE"] = 2 /\ Lifecycle["ENDED"] = 3
    BY DEF Lifecycle
  <2>4. NoRow.status = "NONE"
    BY DEF NoRow
  <2> QED BY <2>1, <2>2, <2>3, <2>4 DEF StepKeepsRules, WatchPartyStatus
<1> QED BY <1>1, SerialAlways, PTL DEF Spec, LifecycleOnlyForward

\* No handler gives a banned user a seat while the ban stands, the host excepted.
THEOREM BansHold == ASSUME OneAtATime PROVE Spec => BannedStayOut
<1>1. TypeInv /\ SerialInv /\ [Next]_vars =>
        \A p \in Parties : party'[p].participants \cap party[p].bannedUsers
                             \subseteq party[p].participants \cup {party[p].hostId}
  <2> SUFFICES ASSUME TypeInv, SerialInv, [Next]_vars, NEW p \in Parties
               PROVE  party'[p].participants \cap party[p].bannedUsers
                        \subseteq party[p].participants \cup {party[p].hostId}
    OBVIOUS
  <2>1. NoRow.bannedUsers = {}
    BY DEF NoRow
  <2> QED BY <2>1, NextRules DEF StepKeepsRules
<1> QED BY <1>1, SerialAlways, PTL DEF Spec, BannedStayOut

\* Before a scheduled party starts, only its host and those invited get a seat.
THEOREM SeatsByInvitation == ASSUME OneAtATime PROVE Spec => ScheduledInviteOnly
<1>1. TypeInv /\ SerialInv /\ [Next]_vars =>
        \A p \in Parties : party[p].status = "SCHEDULED" =>
          party'[p].participants
            \subseteq party[p].participants \cup party[p].invitedUsers \cup {party[p].hostId}
  <2> SUFFICES ASSUME TypeInv, SerialInv, [Next]_vars, NEW p \in Parties,
                      party[p].status = "SCHEDULED"
               PROVE  party'[p].participants
                        \subseteq party[p].participants \cup party[p].invitedUsers
                                  \cup {party[p].hostId}
    OBVIOUS
  <2>1. NoRow.status = "NONE"
    BY DEF NoRow
  <2> QED BY <2>1, NextRules DEF StepKeepsRules
<1> QED BY <1>1, SerialAlways, PTL DEF Spec, ScheduledInviteOnly

(***************************************************************************)
(* Admission, however requests overlap.                                    *)
(*                                                                         *)
(* SeatsAreEntitled and SeatsWereAsked are not inductive: a save writes a  *)
(* row that a request loaded some time ago.  The strengthening says of     *)
(* every row that a request may still write what it says of the table      *)
(* (Fits), and of every request which checks it has passed (Vetted).       *)
(***************************************************************************)
\* Row w may be the row of party p, given histories e, a, s and b of
\* entitled, asked, seated and begun.
Fits(p, w, e, a, s, b) ==
  /\ w.participants \subseteq e
  /\ w.hostId \in e \cup {None}
  /\ p \in b \/ w.participants \subseteq a[p]
  /\ w.hostId \in s[p] \cup {None}

\* Which calls can be at which steps.
EditCalls == AllCalls \ {"start", "schedule", "join", "joinByCode"}

CallAt(q) ==
  /\ q.step \in Vacating => q.call \in {"start", "schedule", "join", "joinByCode",
                                        "startScheduled", "end"}
  /\ q.step = "count" => q.call \in {"start", "schedule", "join", "joinByCode"}
  /\ q.step = "account" => q.call \in {"join", "joinByCode", "startScheduled"}
  /\ q.step = "subject" => q.call \in EditCalls
  /\ q.step = "save" => q.call \notin {"start", "schedule"}
  /\ q.step \in {"key", "invitees", "create"} => q.call \in {"start", "schedule"}

\* What the checks that request q has passed say about its rows and caller.
Vetted(q, e, a, s, b) ==
  /\ CallAt(q)
  /\ q.call \in {"start", "schedule"} =>
       q.user \in e /\ q.row.hostId = q.user /\ q.row.participants = {q.user}
  /\ q.call \in {"join", "joinByCode"} =>
       /\ q.step # "account" => q.user \in e
       /\ q.call = "join" => q.row.hostId = q.user
       /\ q.row.status \in {"SCHEDULED", "ACTIVE"}
       /\ q.party \in Parties =>
            /\ q.row.status = "ACTIVE" => q.party \in b
            /\ q.row.invitedUsers \cup ({q.row.hostId} \ {None}) \subseteq a[q.party]
  /\ q.party \in Parties /\ q.call \notin {"start", "schedule"} =>
       Fits(q.party, q.row, e, a, s, b)
  /\ q.other \in Parties /\ q.step \in {"leaveOther", "endSave"} =>
       Fits(q.other, q.otherRow, e, a, s, b)

FitsNow(p, w) == Fits(p, w, entitled, asked, seated, begun)
VettedNow(q) == Vetted(q, entitled, asked, seated, begun)

\* The history variables cover the tables as they are.
Recorded ==
  /\ EntitledIn(user) \subseteq entitled
  /\ \A p \in Parties :
       /\ AskedIn(party[p]) \subseteq asked[p]
       /\ party[p].participants \subseteq seated[p]
       /\ party[p].status = "ACTIVE" => p \in begun

AInv ==
  /\ TypeInv
  /\ Recorded
  /\ \A p \in Parties : FitsNow(p, party[p])
  /\ \A r \in Requests : VettedNow(req[r])

(***************************************************************************)
(* Facts about Fits and Vetted.                                            *)
(***************************************************************************)
\* Histories only grow, and both predicates are monotone in them.
LEMMA FitsGrows ==
  ASSUME NEW p, NEW w, NEW e, NEW a, NEW s, NEW b, NEW e2, NEW a2, NEW s2, NEW b2,
         Fits(p, w, e, a, s, b), e \subseteq e2, b \subseteq b2,
         a[p] \subseteq a2[p], s[p] \subseteq s2[p]
  PROVE  Fits(p, w, e2, a2, s2, b2)
  BY DEF Fits

LEMMA VettedGrows ==
  ASSUME NEW q, NEW e, NEW a, NEW s, NEW b, NEW e2, NEW a2, NEW s2, NEW b2,
         Vetted(q, e, a, s, b), e \subseteq e2, b \subseteq b2,
         \A p \in Parties : a[p] \subseteq a2[p] /\ s[p] \subseteq s2[p]
  PROVE  Vetted(q, e2, a2, s2, b2)
<1>1. q.party \in Parties /\ Fits(q.party, q.row, e, a, s, b)
        => Fits(q.party, q.row, e2, a2, s2, b2)
  BY FitsGrows
<1>2. q.other \in Parties /\ Fits(q.other, q.otherRow, e, a, s, b)
        => Fits(q.other, q.otherRow, e2, a2, s2, b2)
  BY FitsGrows
<1> QED BY <1>1, <1>2 DEF Vetted

\* Mixing the relations of two rows that fit gives a row that fits.
LEMMA FitsMix ==
  ASSUME NEW p, NEW w \in WatchPartyRow, NEW v \in WatchPartyRow, NEW rels,
         NEW e, NEW a, NEW s, NEW b, Fits(p, w, e, a, s, b), Fits(p, v, e, a, s, b)
  PROVE  Fits(p, WithRelations(w, rels, v), e, a, s, b)
<1> DEFINE m == WithRelations(w, rels, v)
<1>1. m.hostId = w.hostId
  BY DEF WithRelations, WatchPartyRow
<1>2. m.participants = w.participants \/ m.participants = v.participants
  BY DEF WithRelations, WatchPartyRow
<1> QED BY <1>1, <1>2 DEF Fits

LEMMA NoRowFits == \A p, e, a, s, b : Fits(p, NoRow, e, a, s, b)
  BY DEF Fits, NoRow

\* A row loaded from the table fits, with what its relations say.
LEMMA LoadFits ==
  ASSUME AInv, NEW p \in Parties, NEW call
  PROVE  /\ FitsNow(p, Load(p, call))
         /\ Load(p, call) \in WatchPartyRow
         /\ Load(p, call).status = party[p].status
         /\ Load(p, call).hostId = party[p].hostId
         /\ Load(p, call).participants \subseteq party[p].participants
         /\ Load(p, call).invitedUsers \subseteq party[p].invitedUsers
<1>1. party[p] \in WatchPartyRow /\ FitsNow(p, party[p])
  BY DEF AInv, TypeInv, TypeOK
<1>2. FitsNow(p, Load(p, call))
  BY <1>1, FitsMix, NoRowFits, NoRowType DEF Load, FitsNow
<1>3. Load(p, call) \in WatchPartyRow
  BY LoadType DEF AInv, TypeInv
<1>4. /\ Load(p, call).status = party[p].status
      /\ Load(p, call).hostId = party[p].hostId
      /\ Load(p, call).participants \subseteq party[p].participants
      /\ Load(p, call).invitedUsers \subseteq party[p].invitedUsers
  BY <1>1 DEF Load, WithRelations, NoRow, WatchPartyRow
<1> QED BY <1>2, <1>3, <1>4

LEMMA IdleVetted == \A e, a, s, b : Vetted(Idle, e, a, s, b)
  BY ConstantsAssumption DEF Vetted, Idle, AllCalls, CallAt, Vacating

LEMMA VacatedVetted ==
  ASSUME NEW q \in Request, q.step \in Vacating, NEW e, NEW a, NEW s, NEW b, Vetted(q, e, a, s, b)
  PROVE  Vetted(Vacated(q), e, a, s, b)
<1>1. CASE q.call = "end"
  BY <1>1, IdleVetted DEF Vacated
<1>2. CASE q.call # "end"
  <2>1. /\ Vacated(q).call = q.call /\ Vacated(q).user = q.user /\ Vacated(q).row = q.row
        /\ Vacated(q).party = q.party /\ Vacated(q).other = None
        /\ Vacated(q).step = IF q.call = "startScheduled" THEN "account" ELSE "count"
    BY <1>2 DEF Vacated, Request
  <2>2. q.step # "account"
    BY DEF Vacating
  <2>3. CallAt(Vacated(q))
    BY <1>2, <2>1 DEF Vetted, CallAt, Vacating
  <2> QED BY <2>1, <2>2, <2>3, ConstantsAssumption DEF Vetted
<1> QED BY <1>1, <1>2

(***************************************************************************)
(* From a step's effect on one slot and on the rows to the invariant.      *)
(***************************************************************************)
LEMMA RecordGrows ==
  ASSUME Record
  PROVE  /\ entitled \subseteq entitled' /\ begun \subseteq begun'
         /\ \A p \in Parties : asked[p] \subseteq asked'[p] /\ seated[p] \subseteq seated'[p]
  BY DEF Record

LEMMA RecordedNext ==
  ASSUME Record
  PROVE  Recorded'
  BY DEF Record, Recorded

\* A step that moves slot r to a vetted request and leaves fitting rows.
LEMMA Assemble ==
  ASSUME AInv, TypeInv', Record, NEW r \in Requests, NEW q, Goto(r, q), VettedNow(q),
         \A p \in Parties : Fits(p, party'[p], entitled', asked', seated', begun')
  PROVE  AInv'
<1>1. VettedNow(req[r])' /\ \A t \in Requests : VettedNow(req[t])'
  BY RecordGrows, VettedGrows DEF AInv, TypeInv, TypeOK, VettedNow, Goto
<1> QED BY <1>1, RecordedNext DEF AInv, FitsNow

\* The same when the step does not touch the party table.
LEMMA AssembleMove ==
  ASSUME AInv, TypeInv', Record, NEW r \in Requests, NEW q, Goto(r, q), VettedNow(q),
         UNCHANGED party
  PROVE  AInv'
<1>1. \A p \in Parties : Fits(p, party'[p], entitled', asked', seated', begun')
  BY RecordGrows, FitsGrows DEF AInv, FitsNow
<1> QED BY <1>1, Assemble

\* The same when the step saves a fitting row.
LEMMA AssembleSave ==
  ASSUME AInv, TypeInv', Record, NEW r \in Requests, NEW q, Goto(r, q), VettedNow(q),
         NEW o, NEW w \in WatchPartyRow, NEW rels, Save(o, w, rels),
         o \in Parties => FitsNow(o, w)
  PROVE  AInv'
<1>1. ASSUME NEW p \in Parties
      PROVE  Fits(p, party'[p], entitled', asked', seated', begun')
  <2>1. party[p] \in WatchPartyRow /\ FitsNow(p, party[p])
    BY DEF AInv, TypeInv, TypeOK
  <2>2. FitsNow(p, WithRelations(w, rels, party[p])) \/ p # o
    BY <2>1, FitsMix DEF FitsNow
  <2>3. party'[p] = party[p] \/ (p = o /\ party'[p] = WithRelations(w, rels, party[p]))
    BY DEF Save, AInv, TypeInv, TypeOK
  <2>4. Fits(p, party'[p], entitled, asked, seated, begun)
    BY <2>1, <2>2, <2>3 DEF FitsNow
  <2> QED BY <2>4, RecordGrows, FitsGrows
<1> QED BY <1>1, Assemble

(***************************************************************************)
(* New calls.                                                              *)
(***************************************************************************)
\* A slot is filled by Begin as by Goto.
LEMMA BeginIsGoto ==
  ASSUME NEW r, NEW q, Begin(r, q)
  PROVE  Goto(r, q)
  BY DEF Begin, Goto

LEMMA StartPartyAdmits ==
  ASSUME AInv, TypeInv', Record, NEW r \in Requests, NEW u \in Users, NEW m \in Movies,
         NEW k \in Keys \cup {None}, StartParty(r, u, m, k)
  PROVE  AInv'
<1> DEFINE row == [NoRow EXCEPT !.status = "ACTIVE", !.hostId = u, !.movieId = m,
                                !.startKey = k, !.participants = {u}]
           q == [Idle EXCEPT !.call = "start", !.step = "lookup", !.user = u,
                             !.subject = u, !.plan = user[u].subscriptionType, !.row = row]
<1>1. Begin(r, q) /\ UNCHANGED party
  BY DEF StartParty
<1>2. u \in entitled
  BY DEF StartParty, AInv, Recorded, EntitledIn
<1>3. row.hostId = u /\ row.participants = {u}
  BY DEF NoRow
<1> HIDE DEF row
<1>4. VettedNow(q)
  BY <1>2, <1>3, ConstantsAssumption DEF VettedNow, Vetted, Idle, CallAt, Vacating
<1> HIDE DEF q
<1> QED BY <1>1, <1>4, BeginIsGoto, AssembleMove

LEMMA ScheduleAdmits ==
  ASSUME AInv, TypeInv', Record, NEW r \in Requests, NEW u \in Users, NEW m \in Movies,
         NEW xs \in SUBSET (Users \ {u}), ScheduleParty(r, u, m, xs)
  PROVE  AInv'
<1> DEFINE row == [NoRow EXCEPT !.status = "SCHEDULED", !.hostId = u, !.movieId = m,
                                !.participants = {u}, !.invitedUsers = xs]
           q == [Idle EXCEPT !.call = "schedule", !.step = "count", !.user = u,
                             !.plan = user[u].subscriptionType, !.row = row]
<1>1. Begin(r, q) /\ UNCHANGED party
  BY DEF ScheduleParty
<1>2. u \in entitled
  BY DEF ScheduleParty, AInv, Recorded, EntitledIn
<1>3. row.hostId = u /\ row.participants = {u}
  BY DEF NoRow
<1> HIDE DEF row
<1>4. VettedNow(q)
  BY <1>2, <1>3, ConstantsAssumption DEF VettedNow, Vetted, Idle, CallAt, Vacating
<1> HIDE DEF q
<1> QED BY <1>1, <1>4, BeginIsGoto, AssembleMove

LEMMA BeginJoinAdmits ==
  ASSUME AInv, TypeInv', Record, NEW r \in Requests, NEW call \in {"join", "joinByCode"},
         NEW u \in Users, NEW p \in Parties, BeginJoin(r, call, u, p),
         call = "join" => party[p].hostId = u
  PROVE  AInv'
<1> DEFINE row == Load(p, call)
           q == [Idle EXCEPT !.call = call, !.step = "account", !.user = u,
                             !.party = p, !.row = row, !.subject = u]
<1>1. Begin(r, q) /\ UNCHANGED party
  BY DEF BeginJoin
<1>2. /\ FitsNow(p, row) /\ row.status = party[p].status /\ row.hostId = party[p].hostId
      /\ row.invitedUsers \subseteq party[p].invitedUsers
  BY LoadFits
<1>3. /\ party[p].status \in {"SCHEDULED", "ACTIVE"}
      /\ party[p].status = "ACTIVE" => p \in begun
      /\ party[p].invitedUsers \cup ({party[p].hostId} \ {None}) \subseteq asked[p]
  BY DEF BeginJoin, AInv, Recorded, AskedIn
<1> HIDE DEF row
<1>4. /\ q.call = call /\ q.step = "account" /\ q.user = u /\ q.party = p
      /\ q.row = row /\ q.other = None
  BY DEF Idle
<1> HIDE DEF q
<1>5. VettedNow(q)
  BY <1>2, <1>3, <1>4, ConstantsAssumption DEF VettedNow, Vetted, FitsNow, CallAt, Vacating
<1> QED BY <1>1, <1>5, BeginIsGoto, AssembleMove

LEMMA EndAndStartAdmit ==
  ASSUME AInv, TypeInv', Record, NEW r \in Requests, NEW u \in Users, NEW p \in Parties,
         EndParty(r, u, p) \/ StartScheduledParty(r, u, p)
  PROVE  AInv'
<1> DEFINE ending == [Idle EXCEPT !.call = "end", !.step = "endLoad", !.user = u, !.other = p]
           row == Load(p, "startScheduled")
           starting == [Idle EXCEPT !.call = "startScheduled", !.step = "lookup", !.user = u,
                                    !.party = p, !.row = row, !.subject = u]
<1>1. (Begin(r, ending) \/ Begin(r, starting)) /\ UNCHANGED party
  BY DEF EndParty, StartScheduledParty
<1>2. FitsNow(p, row)
  BY LoadFits
<1> HIDE DEF row
<1>3. VettedNow(ending)
  BY ConstantsAssumption DEF VettedNow, Vetted, Idle, CallAt, Vacating
<1>4. VettedNow(starting)
  BY <1>2, ConstantsAssumption DEF VettedNow, Vetted, Idle, FitsNow, CallAt, Vacating
<1> HIDE DEF ending, starting
<1> QED BY <1>1, <1>3, <1>4, BeginIsGoto, AssembleMove

\* Calls that edit a loaded row: the edited row must fit.
LEMMA EditAdmits ==
  ASSUME AInv, TypeInv', Record, NEW r \in Requests, NEW call \in EditCalls,
         NEW step \in {"subject", "save"}, NEW u, NEW p \in Parties, NEW x, NEW row,
         FitsNow(p, row), Edit(r, call, step, u, p, x, row)
  PROVE  AInv'
<1> DEFINE q == [Idle EXCEPT !.call = call, !.step = step, !.user = u, !.party = p,
                             !.subject = x, !.row = row]
<1>1. Begin(r, q) /\ UNCHANGED party
  BY DEF Edit
<1>2. VettedNow(q)
  BY ConstantsAssumption DEF VettedNow, Vetted, Idle, FitsNow, EditCalls, CallAt, Vacating
<1> HIDE DEF q
<1> QED BY <1>1, <1>2, BeginIsGoto, AssembleMove

\* A row with the host of a fitting row, and no more participants, fits.
LEMMA FewerFit ==
  ASSUME NEW p, NEW w, NEW v, FitsNow(p, w), v.hostId = w.hostId,
         v.participants \subseteq w.participants
  PROVE  FitsNow(p, v)
  BY DEF FitsNow, Fits

LEMMA LoadEditAdmits ==
  ASSUME AInv, TypeInv', Record, NEW r \in Requests, NEW u \in Users, NEW p \in Parties,
         NEW x \in Users,
         \/ LeaveParty(r, u, p) \/ InviteToParty(r, u, p, x)
         \/ BanUser(r, u, p, x) \/ MuteUser(r, u, p, x)
  PROVE  AInv'
<1>1. \A call : FitsNow(p, Load(p, call))
  BY LoadFits
<1>2. {"leave", "invite", "ban", "mute"} \subseteq EditCalls
  BY DEF EditCalls, AllCalls
<1>3. CASE LeaveParty(r, u, p)
  BY <1>1, <1>2, <1>3, EditAdmits DEF LeaveParty
<1>4. CASE InviteToParty(r, u, p, x)
  BY <1>1, <1>2, <1>4, EditAdmits DEF InviteToParty
<1>5. CASE BanUser(r, u, p, x)
  BY <1>1, <1>2, <1>5, EditAdmits DEF BanUser
<1>6. CASE MuteUser(r, u, p, x)
  BY <1>1, <1>2, <1>6, EditAdmits DEF MuteUser
<1> QED BY <1>3, <1>4, <1>5, <1>6

LEMMA WithdrawAdmits ==
  ASSUME AInv, TypeInv', Record, NEW r \in Requests, NEW u \in Users, NEW p \in Parties,
         NEW x \in Users,
         \/ RejectInvite(r, u, p) \/ RemoveInvite(r, u, p, x) \/ KickUser(r, u, p, x)
         \/ UnbanUser(r, u, p, x) \/ UnmuteUser(r, u, p, x)
  PROVE  AInv'
<1> DEFINE w(call) == Load(p, call)
           uninvited(call, y) == [w(call) EXCEPT !.invitedUsers = @ \ {y}]
           unseated(call, y) == [w(call) EXCEPT !.participants = @ \ {y}]
           unbanned(call, y) == [w(call) EXCEPT !.bannedUsers = @ \ {y}]
           unmuted(call, y) == [w(call) EXCEPT !.mutedUsers = @ \ {y}]
<1>1. \A call : FitsNow(p, w(call)) /\ w(call) \in WatchPartyRow
  BY LoadFits
<1>2. {"rejectInvite", "removeInvite", "kick", "unban", "unmute"} \subseteq EditCalls
  BY DEF EditCalls, AllCalls
<1>3. \E call \in EditCalls : \E y, z :
        \/ Edit(r, call, "save", u, p, z, uninvited(call, y))
        \/ Edit(r, call, "save", u, p, z, unseated(call, y))
        \/ Edit(r, call, "save", u, p, z, unbanned(call, y))
        \/ Edit(r, call, "save", u, p, z, unmuted(call, y))
  <2> HIDE DEF w
  <2>1. CASE RejectInvite(r, u, p)
    BY <1>2, <2>1 DEF RejectInvite, w
  <2>2. CASE RemoveInvite(r, u, p, x)
    BY <1>2, <2>2 DEF RemoveInvite, w
  <2>3. CASE KickUser(r, u, p, x)
    BY <1>2, <2>3 DEF KickUser, w
  <2>4. CASE UnbanUser(r, u, p, x)
    BY <1>2, <2>4 DEF UnbanUser, w
  <2>5. CASE UnmuteUser(r, u, p, x)
    BY <1>2, <2>5 DEF UnmuteUser, w
  <2> QED BY <2>1, <2>2, <2>3, <2>4, <2>5
<1> HIDE DEF w
<1>4. ASSUME NEW call, NEW y
      PROVE  /\ FitsNow(p, uninvited(call, y)) /\ FitsNow(p, unseated(call, y))
             /\ FitsNow(p, unbanned(call, y)) /\ FitsNow(p, unmuted(call, y))
  <2>1. \A v \in {uninvited(call, y), unseated(call, y), unbanned(call, y), unmuted(call, y)} :
          v.hostId = w(call).hostId /\ v.participants \subseteq w(call).participants
    BY <1>1 DEF WatchPartyRow
  <2> HIDE DEF uninvited, unseated, unbanned, unmuted
  <2> QED BY <1>1, <2>1, FewerFit
<1> HIDE DEF uninvited, unseated, unbanned, unmuted
<1> QED BY <1>3, <1>4, EditAdmits

\* A new host is among the participants of the row as it is.
LEMMA HandOverAdmits ==
  ASSUME AInv, TypeInv', Record, NEW r \in Requests, NEW u \in Users, NEW p \in Parties,
         NEW x \in Users, TransferHost(r, u, p, x) \/ ReassignHost(r, u, p, x)
  PROVE  AInv'
<1> DEFINE row(call) == [Load(p, call) EXCEPT !.hostId = x, !.hostLeftAt = FALSE]
<1>1. {"transferHost", "metadata"} \subseteq EditCalls
  BY DEF EditCalls, AllCalls
<1>2. \E call \in EditCalls : Edit(r, call, "save", u, p, x, row(call))
  BY <1>1 DEF TransferHost, ReassignHost
<1>3. x \in party[p].participants
  BY DEF TransferHost, ReassignHost
<1>4. x \in entitled /\ x \in seated[p]
  BY <1>3 DEF AInv, Recorded, FitsNow, Fits
<1>5. ASSUME NEW call
      PROVE  FitsNow(p, row(call))
  <2>1. FitsNow(p, Load(p, call)) /\ Load(p, call) \in WatchPartyRow
    BY LoadFits
  <2>2. row(call).hostId = x /\ row(call).participants = Load(p, call).participants
    BY <2>1 DEF WatchPartyRow
  <2> QED BY <1>4, <2>1, <2>2 DEF FitsNow, Fits
<1> HIDE DEF row
<1> QED BY <1>2, <1>5, EditAdmits

LEMMA NewCallAdmits ==
  ASSUME AInv, TypeInv', Record, NEW r \in Requests, NEW u \in Users, NewCall(r, u)
  PROVE  AInv'
<1>1. ASSUME NEW m \in Movies, NEW k \in Keys \cup {None}, StartParty(r, u, m, k)
      PROVE  AInv'
  BY <1>1, StartPartyAdmits
<1>2. ASSUME NEW m \in Movies, NEW xs \in SUBSET (Users \ {u}), ScheduleParty(r, u, m, xs)
      PROVE  AInv'
  BY <1>2, ScheduleAdmits
<1>3. ASSUME NEW p \in Parties, JoinParty(r, u, p) \/ JoinPartyByCode(r, u, p)
      PROVE  AInv'
  BY <1>3, BeginJoinAdmits DEF JoinParty, JoinPartyByCode
<1>4. ASSUME NEW p \in Parties, EndParty(r, u, p) \/ StartScheduledParty(r, u, p)
      PROVE  AInv'
  BY <1>4, EndAndStartAdmit
<1>5. ASSUME NEW p \in Parties, LeaveParty(r, u, p)
      PROVE  AInv'
  BY <1>5, LoadEditAdmits
<1>6. ASSUME NEW p \in Parties, RejectInvite(r, u, p)
      PROVE  AInv'
  BY <1>6, WithdrawAdmits
<1>7. ASSUME NEW p \in Parties, NEW x \in Users,
             InviteToParty(r, u, p, x) \/ BanUser(r, u, p, x) \/ MuteUser(r, u, p, x)
      PROVE  AInv'
  BY <1>7, LoadEditAdmits
<1>8. ASSUME NEW p \in Parties, NEW x \in Users,
             \/ RemoveInvite(r, u, p, x) \/ KickUser(r, u, p, x)
             \/ UnbanUser(r, u, p, x) \/ UnmuteUser(r, u, p, x)
      PROVE  AInv'
  BY <1>8, WithdrawAdmits
<1>9. ASSUME NEW p \in Parties, NEW x \in Users,
             TransferHost(r, u, p, x) \/ ReassignHost(r, u, p, x)
      PROVE  AInv'
  BY <1>9, HandOverAdmits
<1> QED BY <1>1, <1>2, <1>3, <1>4, <1>5, <1>6, <1>7, <1>8, <1>9 DEF NewCall

(***************************************************************************)
(* The continuing steps.                                                   *)
(***************************************************************************)
\* What a request in flight is known to satisfy.
LEMMA InFlight ==
  ASSUME AInv, NEW r \in Requests, req[r].step # "idle"
  PROVE  /\ req[r] \in Request /\ req[r].user \in Users /\ req[r].row \in WatchPartyRow
         /\ req[r].otherRow \in WatchPartyRow /\ VettedNow(req[r])
  BY RequestFacts DEF AInv

LEMMA FinishAdmits ==
  ASSUME AInv, TypeInv', Record, NEW r \in Requests, Finish(r), UNCHANGED party
  PROVE  AInv'
  BY IdleVetted, AssembleMove DEF Finish, VettedNow

\* The plan check is what puts the caller among the entitled.
LEMMA LoadAccountAdmits ==
  ASSUME AInv, TypeInv', Record, NEW r \in Requests, LoadAccount(r)
  PROVE  AInv'
<1> DEFINE q == req[r]
           plan == user[q.user].subscriptionType
           active == [q.row EXCEPT !.status = "ACTIVE"]
           next == IF q.row.status = "ACTIVE" /\ ~AlreadyIn(q) THEN "lookup" ELSE "count"
           started == [q EXCEPT !.plan = plan, !.step = "save", !.row = active]
           joining == [q EXCEPT !.plan = plan, !.step = next]
<1>1. q.step = "account" /\ UNCHANGED party
  BY DEF LoadAccount
<1>2. /\ q \in Request /\ q.user \in Users /\ q.row \in WatchPartyRow
      /\ VettedNow(q)
  BY <1>1, InFlight
<1>3. CASE ~Admissible(q, user[q.user])
  BY <1>1, <1>3, FinishAdmits DEF LoadAccount
<1>4. CASE Admissible(q, user[q.user])
  <2>1. q.user \in entitled
    BY <1>2, <1>4 DEF Admissible, AInv, Recorded, EntitledIn
  <2>2. \/ q.call = "startScheduled" /\ Goto(r, started)
        \/ q.call # "startScheduled" /\ Goto(r, joining)
    BY <1>4 DEF LoadAccount
  <2>3. next \in {"lookup", "count"}
    OBVIOUS
  <2>4. /\ active.hostId = q.row.hostId
        /\ active.participants = q.row.participants
    BY <1>2 DEF WatchPartyRow
  <2> HIDE DEF q, plan, active, next
  <2>5. ASSUME q.call = "startScheduled"
        PROVE  VettedNow(started)
    <3>1. /\ started.call = q.call /\ started.step = "save" /\ started.party = q.party
          /\ started.row = active /\ started.other = q.other
      BY <1>2 DEF Request
    <3>2. CallAt(started)
      BY <2>5, <3>1 DEF CallAt, Vacating
    <3> HIDE DEF started
    <3> QED BY <1>2, <2>4, <2>5, <3>1, <3>2 DEF VettedNow, Vetted, Fits
  <2>6. ASSUME q.call # "startScheduled"
        PROVE  VettedNow(joining)
    <3>1. /\ joining.call = q.call /\ joining.step = next /\ joining.party = q.party
          /\ joining.row = q.row /\ joining.other = q.other /\ joining.user = q.user
      BY <1>2 DEF Request
    <3>2. q.call \in {"join", "joinByCode"}
      BY <1>1, <1>2, <2>6 DEF VettedNow, Vetted, CallAt
    <3>3. CallAt(joining)
      BY <2>3, <3>1, <3>2 DEF CallAt, Vacating
    <3> HIDE DEF joining
    <3> QED BY <1>2, <2>1, <2>3, <3>1, <3>2, <3>3 DEF VettedNow, Vetted
  <2> HIDE DEF started, joining
  <2> QED BY <1>1, <2>2, <2>5, <2>6, AssembleMove
<1> QED BY <1>3, <1>4

LEMMA LoadSubjectAdmits ==
  ASSUME AInv, TypeInv', Record, NEW r \in Requests, LoadSubject(r)
  PROVE  AInv'
<1> DEFINE q == req[r]
           row == EditedRow(q.call, q.row, q.subject)
           plan == user[q.subject].subscriptionType
           saving == [q EXCEPT !.step = "save", !.plan = plan, !.row = row]
<1>1. q.step = "subject" /\ UNCHANGED party
  BY DEF LoadSubject
<1>2. q \in Request /\ q.row \in WatchPartyRow /\ VettedNow(q)
  BY <1>1, InFlight
<1>3. Finish(r) \/ Goto(r, saving)
  BY DEF LoadSubject
<1>4. row.hostId = q.row.hostId /\ row.participants \subseteq q.row.participants
  <2> DEFINE w == q.row
             x == q.subject
  <2>1. \A v \in {[w EXCEPT !.invitedUsers = @ \cup {x}], [w EXCEPT !.mutedUsers = @ \cup {x}],
                  [w EXCEPT !.bannedUsers = @ \cup {x}, !.participants = @ \ {x},
                            !.invitedUsers = @ \ {x}],
                  [w EXCEPT !.participants = @ \ {x}, !.hostLeftAt = @ \/ w.hostId = x]} :
          v.hostId = w.hostId /\ v.participants \subseteq w.participants
    BY <1>2 DEF WatchPartyRow
  <2> QED BY <2>1 DEF EditedRow
<1> HIDE DEF q, row, plan
<1>5. VettedNow(saving)
  <2>1. /\ saving.call = q.call /\ saving.step = "save" /\ saving.party = q.party
        /\ saving.row = row /\ saving.other = q.other
    BY <1>2 DEF Request
  <2>2. q.call \in EditCalls
    BY <1>1, <1>2 DEF VettedNow, Vetted, CallAt
  <2>3. CallAt(saving)
    BY <2>1, <2>2 DEF CallAt, Vacating, EditCalls
  <2> HIDE DEF saving
  <2>4. q.party \in Parties => FitsNow(q.party, q.row)
    BY <1>2, <2>2 DEF VettedNow, Vetted, FitsNow, EditCalls
  <2>5. q.party \in Parties => FitsNow(q.party, row)
    BY <1>4, <2>4, FewerFit
  <2> QED BY <1>1, <1>2, <2>1, <2>2, <2>3, <2>5 DEF VettedNow, Vetted, FitsNow, EditCalls
<1> HIDE DEF saving
<1> QED BY <1>1, <1>3, <1>5, FinishAdmits, AssembleMove

LEMMA LookupAdmits ==
  ASSUME AInv, TypeInv', Record, NEW r \in Requests, Lookup(r)
  PROVE  AInv'
<1> DEFINE q == req[r]
           ending(o) == [q EXCEPT !.step = "endLoad", !.other = o]
           row(o) == [WithRelations(party[o], {}, NoRow) EXCEPT
                        !.participants = LoadedSeats(q.user, o) \ {q.user}]
           leaving(o) == [q EXCEPT !.step = "leaveOther", !.other = o, !.otherRow = row(o)]
<1>1. q.step = "lookup" /\ UNCHANGED party
  BY DEF Lookup
<1>2. q \in Request /\ VettedNow(q) /\ q.step \in Vacating
  BY <1>1, InFlight DEF Vacating
<1>3. \/ Goto(r, Vacated(q))
      \/ \E o \in Parties : Goto(r, ending(o)) \/ Goto(r, leaving(o))
  BY DEF Lookup, ActivePartiesOf
<1>4. VettedNow(Vacated(q))
  BY <1>2, VacatedVetted DEF VettedNow
<1>5. ASSUME NEW o \in Parties
      PROVE  FitsNow(o, row(o))
  <2>1. party[o] \in WatchPartyRow /\ FitsNow(o, party[o])
    BY DEF AInv, TypeInv, TypeOK
  <2>2. /\ row(o).hostId = party[o].hostId
        /\ row(o).participants = LoadedSeats(q.user, o) \ {q.user}
    BY <2>1, NoRowType DEF WithRelations, WatchPartyRow
  <2>3. LoadedSeats(q.user, o) \subseteq party[o].participants
    BY DEF LoadedSeats
  <2> HIDE DEF row
  <2> QED BY <2>1, <2>2, <2>3, FewerFit
<1> HIDE DEF q, row
<1>6. ASSUME NEW o \in Parties
      PROVE  VettedNow(ending(o)) /\ VettedNow(leaving(o))
  <2>1. \A v \in {ending(o), leaving(o)} :
          /\ v.call = q.call /\ v.user = q.user /\ v.party = q.party /\ v.row = q.row
          /\ v.step \in {"endLoad", "leaveOther"} /\ v.other = o
          /\ v.step = "leaveOther" => v.otherRow = row(o)
    BY <1>2 DEF Request
  <2>2. q.call \in {"start", "schedule", "join", "joinByCode", "startScheduled", "end"}
    BY <1>2 DEF VettedNow, Vetted, CallAt
  <2>3. ASSUME NEW v \in {ending(o), leaving(o)}
        PROVE  VettedNow(v)
    <3>1. CallAt(v)
      BY <2>1, <2>2 DEF CallAt, Vacating
    <3> HIDE DEF ending, leaving
    <3> QED BY <1>1, <1>2, <1>5, <2>1, <2>2, <3>1 DEF VettedNow, Vetted, FitsNow
  <2> QED BY <2>3
<1> HIDE DEF ending, leaving
<1> QED BY <1>1, <1>3, <1>4, <1>6, AssembleMove

LEMMA EndLoadAdmits ==
  ASSUME AInv, TypeInv', Record, NEW r \in Requests, EndLoad(r)
  PROVE  AInv'
<1> DEFINE q == req[r]
           w == Load(q.other, "end")
           row == [w EXCEPT !.status = "ENDED"]
           ending == [q EXCEPT !.step = "endSave", !.otherRow = row,
                               !.freemium = FreemiumUsers(w)]
<1>1. q.step = "endLoad" /\ UNCHANGED party
  BY DEF EndLoad
<1>2. q \in Request /\ VettedNow(q) /\ q.step \in Vacating /\ q.other \in Parties
  BY <1>1, InFlight, RequestFacts DEF Vacating, AInv, WellFormed
<1>3. w \in WatchPartyRow /\ FitsNow(q.other, w)
  BY <1>2, LoadFits
<1>4. row.hostId = w.hostId /\ row.participants = w.participants
  BY <1>3 DEF WatchPartyRow
<1>5. Finish(r) \/ Goto(r, Vacated(q)) \/ Goto(r, ending)
  BY DEF EndLoad
<1>6. VettedNow(Vacated(q))
  BY <1>2, VacatedVetted DEF VettedNow
<1> HIDE DEF q, w, row
<1>7. FitsNow(q.other, row)
  BY <1>3, <1>4, FewerFit
<1>8. VettedNow(ending)
  <2>1. /\ ending.call = q.call /\ ending.user = q.user /\ ending.party = q.party
        /\ ending.row = q.row /\ ending.step = "endSave" /\ ending.other = q.other
        /\ ending.otherRow = row
    BY <1>2 DEF Request
  <2>2. CallAt(ending)
    BY <1>2, <2>1 DEF VettedNow, Vetted, CallAt, Vacating
  <2> HIDE DEF ending
  <2> QED BY <1>1, <1>2, <1>7, <2>1, <2>2 DEF VettedNow, Vetted, FitsNow
<1> HIDE DEF ending
<1> QED BY <1>1, <1>5, <1>6, <1>8, FinishAdmits, AssembleMove

\* The joined row fits: the caller is entitled, and asked unless the party runs.
LEMMA CountAdmits ==
  ASSUME AInv, TypeInv', Record, NEW r \in Requests, Count(r)
  PROVE  AInv'
<1> DEFINE q == req[r]
           row == JoinedRow(q.row, q.user)
           to(step) == [q EXCEPT !.step = step]
           saving == [q EXCEPT !.step = "save", !.row = row]
<1>1. q.step = "count" /\ UNCHANGED party
  BY DEF Count
<1>2. q \in Request /\ q.user \in Users /\ q.row \in WatchPartyRow /\ VettedNow(q)
  BY <1>1, InFlight
<1>3. q.call \in {"start", "schedule", "join", "joinByCode"}
  BY <1>1, <1>2 DEF VettedNow, Vetted, CallAt
<1>4. \/ Finish(r)
      \/ q.call = "start" /\ (Goto(r, to("create")) \/ Goto(r, to("key")))
      \/ q.call = "schedule" /\ Goto(r, to("invitees"))
      \/ q.call \in {"join", "joinByCode"} /\ ~NotInvited(q) /\ Goto(r, saving)
  BY <1>3 DEF Count
<1>5. /\ row.hostId = q.row.hostId /\ row.participants = q.row.participants \cup {q.user}
      /\ row.status = q.row.status /\ row.invitedUsers = q.row.invitedUsers
  BY <1>2 DEF JoinedRow, WatchPartyRow
<1> HIDE DEF q, row
<1>6. ASSUME NEW step \in {"create", "key", "invitees"}, q.call \in {"start", "schedule"}
      PROVE  VettedNow(to(step))
  <2>1. /\ to(step).call = q.call /\ to(step).user = q.user /\ to(step).row = q.row
        /\ to(step).step = step
    BY <1>2 DEF Request
  <2>2. CallAt(to(step))
    BY <1>6, <2>1 DEF CallAt, Vacating
  <2> HIDE DEF to
  <2> QED BY <1>2, <1>6, <2>1, <2>2 DEF VettedNow, Vetted
<1>7. ASSUME q.call \in {"join", "joinByCode"}, ~NotInvited(q)
      PROVE  VettedNow(saving)
  <2>1. /\ saving.call = q.call /\ saving.user = q.user /\ saving.party = q.party
        /\ saving.row = row /\ saving.step = "save" /\ saving.other = q.other
    BY <1>2 DEF Request
  <2>2. CallAt(saving)
    BY <1>7, <2>1 DEF CallAt, Vacating
  <2>3. q.user \in entitled /\ q.user # None
    BY <1>1, <1>2, <1>7, ConstantsAssumption DEF VettedNow, Vetted
  <2>4. ASSUME q.party \in Parties
        PROVE  FitsNow(q.party, row)
    <3>1. FitsNow(q.party, q.row)
      BY <1>2, <1>7, <2>4 DEF VettedNow, Vetted, FitsNow
    <3>2. q.party \in begun \/ q.user \in asked[q.party]
      BY <1>2, <1>7, <2>3, <2>4 DEF VettedNow, Vetted, NotInvited
    <3> QED BY <1>5, <2>3, <3>1, <3>2 DEF FitsNow, Fits
  <2> HIDE DEF saving
  <2> QED BY <1>1, <1>2, <1>5, <1>7, <2>1, <2>2, <2>3, <2>4 DEF VettedNow, Vetted, FitsNow
<1> HIDE DEF to, saving
<1> QED BY <1>1, <1>4, <1>6, <1>7, FinishAdmits, AssembleMove

LEMMA CheckStepsAdmit ==
  ASSUME AInv, TypeInv', Record, NEW r \in Requests,
         KeyLookup(r) \/ LoadInvitees(r) \/ LoadKicked(r)
  PROVE  AInv'
<1> DEFINE q == req[r]
           to(step) == [q EXCEPT !.step = step]
<1>1. q.step \in {"key", "invitees", "kicked"} /\ UNCHANGED party
  BY DEF KeyLookup, LoadInvitees, LoadKicked
<1>2. q \in Request /\ VettedNow(q)
  BY <1>1, InFlight
<1>3. \/ Finish(r) \/ Goto(r, to("track"))
      \/ q.step \in {"key", "invitees"} /\ Goto(r, to("create"))
  BY DEF KeyLookup, LoadInvitees, LoadKicked
<1> HIDE DEF q
<1>4. ASSUME NEW step \in {"create", "track"}, step = "create" => q.step \in {"key", "invitees"}
      PROVE  VettedNow(to(step))
  <2>1. /\ to(step).call = q.call /\ to(step).user = q.user /\ to(step).row = q.row
        /\ to(step).step = step /\ to(step).party = q.party
    BY <1>2 DEF Request
  <2>2. CallAt(to(step))
    BY <1>2, <1>4, <2>1 DEF VettedNow, Vetted, CallAt, Vacating
  <2> HIDE DEF to
  <2> QED BY <1>1, <1>2, <2>1, <2>2 DEF VettedNow, Vetted
<1> HIDE DEF to
<1> QED BY <1>1, <1>3, <1>4, FinishAdmits, AssembleMove

\* The new party is its host's: the host sits in it and was asked by that.
LEMMA CreateAdmits ==
  ASSUME AInv, TypeInv', Record, NEW r \in Requests, Create(r)
  PROVE  AInv'
<1> DEFINE q == req[r]
           tracking(p) == [q EXCEPT !.step = "track", !.party = p]
<1>1. q.step = "create"
  BY DEF Create
<1>2. q \in Request /\ q.row \in WatchPartyRow /\ q.user \in Users /\ VettedNow(q)
  BY <1>1, InFlight
<1>3. /\ q.call \in {"start", "schedule"} /\ q.user \in entitled
      /\ q.row.hostId = q.user /\ q.row.participants = {q.user}
  BY <1>1, <1>2 DEF VettedNow, Vetted, CallAt
<1>4. \/ Finish(r) /\ UNCHANGED party
      \/ \E p \in Parties : /\ party' = [party EXCEPT ![p] = q.row]
                            /\ Goto(r, tracking(p)) \/ Finish(r)
  BY DEF Create
<1> HIDE DEF q
<1>5. CASE Finish(r) /\ UNCHANGED party
  BY <1>5, FinishAdmits
<1>6. ASSUME NEW p \in Parties, party' = [party EXCEPT ![p] = q.row],
             Goto(r, tracking(p)) \/ Finish(r)
      PROVE  AInv'
  <2>1. ASSUME NEW o \in Parties
        PROVE  Fits(o, party'[o], entitled', asked', seated', begun')
    <3>1. CASE o = p
      <4>1. party'[o] = q.row
        BY <1>6, <3>1 DEF AInv, TypeInv, TypeOK
      <4>2. q.user \in asked'[o] /\ q.user \in seated'[o] /\ q.user \in entitled'
        BY <1>2, <1>3, <4>1, ConstantsAssumption DEF Record, AskedIn
      <4> QED BY <1>3, <4>1, <4>2 DEF Fits
    <3>2. CASE o # p
      <4>1. party'[o] = party[o] /\ FitsNow(o, party[o])
        BY <1>6, <3>2 DEF AInv, TypeInv, TypeOK
      <4> QED BY <4>1, RecordGrows, FitsGrows DEF FitsNow
    <3> QED BY <3>1, <3>2
  <2>2. VettedNow(tracking(p))
    <3>1. /\ tracking(p).call = q.call /\ tracking(p).user = q.user
          /\ tracking(p).row = q.row /\ tracking(p).step = "track"
      BY <1>2 DEF Request
    <3> HIDE DEF tracking
    <3> QED BY <1>3, <3>1 DEF VettedNow, Vetted, CallAt, Vacating
  <2>3. VettedNow(Idle)
    BY IdleVetted DEF VettedNow
  <2> HIDE DEF tracking
  <2> QED BY <1>6, <2>1, <2>2, <2>3, Assemble DEF Finish
<1> QED BY <1>4, <1>5, <1>6

\* The steps that write a row back: it has fitted since it was loaded.
LEMMA SavingAdmits ==
  ASSUME AInv, TypeInv', Record, NEW r \in Requests, LeaveOther(r) \/ EndSave(r) \/ SaveParty(r)
  PROVE  AInv'
<1> DEFINE q == req[r]
           to(step) == [q EXCEPT !.step = step]
<1>1. q.step \in {"leaveOther", "endSave", "save"}
  BY DEF LeaveOther, EndSave, SaveParty
<1>2. /\ q \in Request /\ q.row \in WatchPartyRow /\ q.otherRow \in WatchPartyRow
      /\ VettedNow(q)
  BY <1>1, InFlight
<1>3. \/ /\ q.step \in {"leaveOther", "endSave"}
         /\ Save(q.other, q.otherRow, {"participants"})
         /\ Goto(r, Vacated(q)) \/ Goto(r, to("downgrade"))
      \/ /\ q.step = "save"
         /\ Save(q.party, q.row, LoadedRelations(q.call))
         /\ Finish(r) \/ Goto(r, to("track")) \/ Goto(r, to("kicked"))
  BY DEF LeaveOther, EndSave, SaveParty
<1> HIDE DEF q
<1>4. ASSUME NEW step \in {"downgrade", "track", "kicked"},
             step = "downgrade" => q.step \in {"leaveOther", "endSave"}
      PROVE  VettedNow(to(step))
  <2>1. /\ to(step).call = q.call /\ to(step).user = q.user /\ to(step).row = q.row
        /\ to(step).step = step /\ to(step).party = q.party
    BY <1>2 DEF Request
  <2>2. CallAt(to(step))
    BY <1>2, <1>4, <2>1 DEF VettedNow, Vetted, CallAt, Vacating
  <2> HIDE DEF to
  <2> QED BY <1>1, <1>2, <2>1, <2>2 DEF VettedNow, Vetted
<1> HIDE DEF to
<1>5. CASE q.step \in {"leaveOther", "endSave"}
  <2>1. q.other \in Parties => FitsNow(q.other, q.otherRow)
    BY <1>2, <1>5 DEF VettedNow, Vetted, FitsNow
  <2>2. VettedNow(Vacated(q))
    BY <1>2, <1>5, VacatedVetted DEF VettedNow, Vacating
  <2> QED BY <1>2, <1>3, <1>4, <1>5, <2>1, <2>2, AssembleSave
<1>6. CASE q.step = "save"
  <2>1. q.party \in Parties => FitsNow(q.party, q.row)
    BY <1>2, <1>6 DEF VettedNow, Vetted, FitsNow, CallAt
  <2>2. VettedNow(Idle)
    BY IdleVetted DEF VettedNow
  <2> QED BY <1>2, <1>3, <1>4, <1>6, <2>1, <2>2, AssembleSave DEF Finish
<1> QED BY <1>1, <1>5, <1>6

LEMMA UpdatingAdmits ==
  ASSUME AInv, TypeInv', Record, NEW r \in Requests, Downgrade(r) \/ TrackMovie(r)
  PROVE  AInv'
<1>1. CASE Downgrade(r)
  <2>1. req[r].step = "downgrade" /\ UNCHANGED party /\ Goto(r, Vacated(req[r]))
    BY <1>1 DEF Downgrade
  <2>2. VettedNow(Vacated(req[r]))
    BY <2>1, InFlight, VacatedVetted DEF VettedNow, Vacating
  <2> QED BY <2>1, <2>2, AssembleMove
<1>2. CASE TrackMovie(r)
  BY <1>2, FinishAdmits DEF TrackMovie
<1> QED BY <1>1, <1>2

(***************************************************************************)
(* The invariant and the theorems.                                         *)
(***************************************************************************)
\* A step that touches neither parties nor requests, and none at all.
LEMMA AsideAdmits ==
  ASSUME AInv, TypeInv', UNCHANGED <<party, req>>, Record
  PROVE  AInv'
<1>1. \A p \in Parties : FitsNow(p, party[p])'
  BY RecordGrows, FitsGrows DEF AInv, FitsNow
<1>2. \A r \in Requests : VettedNow(req[r])'
  BY RecordGrows, VettedGrows DEF AInv, VettedNow
<1> QED BY <1>1, <1>2, RecordedNext DEF AInv

LEMMA AdmissionInit == AInit => AInv
<1> SUFFICES ASSUME AInit PROVE AInv
  OBVIOUS
<1>1. TypeInv
  BY InitType DEF AInit
<1>2. \A p \in Parties : party[p] = NoRow /\ FitsNow(p, party[p])
  BY NoRowFits DEF AInit, Init, FitsNow
<1>3. Recorded
  BY <1>2 DEF AInit, Recorded, AskedIn, NoRow
<1>4. \A r \in Requests : VettedNow(req[r])
  BY IdleVetted DEF AInit, Init, VettedNow
<1> QED BY <1>1, <1>2, <1>3, <1>4 DEF AInv

LEMMA AdmissionNext == AInv /\ [ANext]_avars => AInv'
<1> SUFFICES ASSUME AInv, [ANext]_avars PROVE AInv'
  OBVIOUS
<1>1. TypeInv'
  BY NextType DEF AInv, ANext, avars
<1>2. CASE UNCHANGED avars
  BY <1>1, <1>2 DEF avars, vars, history, AInv, Recorded, EntitledIn, AskedIn, FitsNow, VettedNow
<1>3. ASSUME Record, NEW r \in Requests, Continue(r)
      PROVE  AInv'
  BY <1>1, <1>3, LoadAccountAdmits, LoadSubjectAdmits, LookupAdmits, EndLoadAdmits, CountAdmits,
     CheckStepsAdmit, CreateAdmits, SavingAdmits, UpdatingAdmits DEF Continue
<1>4. ASSUME Record, NEW r \in Requests, Fail(r)
      PROVE  AInv'
  BY <1>1, <1>4, FinishAdmits DEF Fail
<1>5. ASSUME Record, NEW r \in Requests, NEW u \in Users, NewCall(r, u)
      PROVE  AInv'
  BY <1>1, <1>5, NewCallAdmits
<1>6. ASSUME Record, NEW u \in Users, Expire(u) \/ \E plan \in SubscriptionType : Purchase(u, plan)
      PROVE  AInv'
  BY <1>1, <1>6, AsideAdmits DEF Expire, Purchase
<1> QED BY <1>2, <1>3, <1>4, <1>5, <1>6 DEF ANext, Next

LEMMA AdmissionInvariant == ASpec => []AInv
  BY AdmissionInit, AdmissionNext, PTL DEF ASpec

\* Nobody is host or participant of a party who never held a plan that lets
\* them take part, however requests interleave and wherever they fail.
THEOREM OnlyEntitled == ASpec => []SeatsAreEntitled
<1>1. AInv => SeatsAreEntitled
  BY DEF AInv, FitsNow, Fits, SeatsAreEntitled
<1> QED BY <1>1, AdmissionInvariant, PTL

\* Nobody sits in a party that has not begun without having hosted it or been
\* invited to it.
THEOREM OnlyAsked == ASpec => []SeatsWereAsked
<1>1. AInv => SeatsWereAsked
  BY DEF AInv, FitsNow, Fits, SeatsWereAsked
<1> QED BY <1>1, AdmissionInvariant, PTL

\* The host role goes only to users who have sat in the party.
THEOREM HostsSatFirst == ASpec => []HostHasSat
<1>1. AInv => HostHasSat
  BY DEF AInv, FitsNow, Fits, HostHasSat
<1> QED BY <1>1, AdmissionInvariant, PTL
===============================================================================
