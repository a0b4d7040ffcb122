---------------------------- MODULE SessionsProofs ----------------------------
(***************************************************************************)
(* The sessions of one user keep their promises for any number of requests *)
(* in flight, of requests in all, of profiles and of names.                *)
(***************************************************************************)
EXTENDS Sessions, TLAPS

(***************************************************************************)
(* The inductive invariant.                                                *)
(***************************************************************************)
Pending(s) == slot[s] # Idle

\* A request in flight has a number of its own, which no refresh token bears yet:
\* the secret it may hand out is new.
Numbered ==
  /\ \A s \in Slots : Pending(s) =>
       /\ slot[s].id \in 1..requests
       /\ \A x \in SessionIds : <<x, slot[s].id>> \notin refresh
       /\ \A t \in Slots : Pending(t) /\ slot[t].id = slot[s].id => t = s
  /\ \A token \in refresh : token[2] <= requests

\* The numbers under which no session was made yet.
Entered(s) == slot[s].kind = "login" /\ slot[s].step \in {"main", "kids"}
Unmade == {x \in SessionIds : x > requests \/ \E s \in Slots : /\ Pending(s) /\ ~Entered(s)
                                                              /\ slot[s].id = x}

Fresh(x) ==
  /\ rows[x] = None /\ x \notin loggedOut
  /\ \A token \in access : token[1] # x
  /\ \A token \in refresh : token[1] # x
  /\ \A s \in Slots : slot[s].session # x

FreshInv == \A x \in Unmade : Fresh(x)

\* A session has chosen a profile or it has not, and the copies that are about to
\* be written say so too.
RowOK(row) == (row.sessionType = "WITH_PROFILE") = (row.currentProfileId # None)
RowsOK == \A x \in SessionIds : rows[x] # None => RowOK(rows[x])

\* What a request holds, at each step.
RequestOK(r) ==
  /\ r.kind = None => r = Idle
  /\ r.kind \in Guarded \cup {"refreshToken"} <=> r.session # None
  /\ r.kind \in {"createProfile", "updateProfile"} => r.name # None
  /\ r.kind \in {"loginWithProfile", "switchProfile", "updateProfile", "deleteProfile"} =>
       r.target # None
  /\ r.step \in {"main", "kids"} => r.kind \in Guarded \cup {"login", "adminLogin"}
  /\ r.step = "guard" => r.kind \in Guarded
  /\ r.loaded # None =>
       /\ r.step = "save" /\ r.kind \in {"refreshToken", "switchProfile"} /\ RowOK(r.loaded)
       /\ r.kind = "switchProfile" => r.loaded.sessionType = "WITH_PROFILE"

\* Past the guard, a request that needs a profile belongs to a session that has
\* one, as long as that session is there.
ChosenFor(r) ==
  r.kind \in Guarded \ {"loginWithProfile"} /\ r.step = "handle" /\ rows[r.session] # None =>
    rows[r.session].sessionType = "WITH_PROFILE"

\* Every row is on a profile that exists: the foreign key.
KeyHolds ==
  \A x \in SessionIds :
    rows[x] # None /\ rows[x].currentProfileId # None => rows[x].currentProfileId \in Existing

\* A session that was logged out is active again only if a copy of it was in
\* flight, and such a copy is known.
LogoutHolds ==
  /\ \A x \in Active : x \notin loggedOut \ raced
  /\ \A s \in Slots : slot[s].loaded # None => slot[s].session \notin loggedOut \ raced

SInv ==
  /\ TypeOK /\ Numbered /\ FreshInv /\ RowsOK /\ KeyHolds /\ LogoutHolds /\ LatestTokensWork
  /\ \A s \in Slots : RequestOK(slot[s]) /\ ChosenFor(slot[s])

(***************************************************************************)
(* How a request moves.                                                    *)
(***************************************************************************)
\* The request of slot s goes on as r, or is over.
Continues(s, r) ==
  \/ r = Idle
  \/ /\ Pending(s) /\ r.kind = slot[s].kind /\ r.id = slot[s].id
     /\ r.session = slot[s].session
     /\ Entered(s) => r.step \in {"main", "kids"}

LEMMA IdleOK == Idle \in Request /\ RequestOK(Idle) /\ \A s : slot[s] = Idle => ~Pending(s)
<1>1. 0 \in SessionIds
  BY SessionsAssumption DEF SessionIds
<1> QED BY <1>1, SessionsAssumption
        DEF Idle, Request, RequestOK, Steps, Guarded, Kinds, Pending

LEMMA SlotNumbers ==
  ASSUME SInv, NEW s \in Slots, NEW r \in Request, slot' = [slot EXCEPT ![s] = r],
         Continues(s, r), requests' = requests,
         \/ refresh' = refresh
         \/ r = Idle /\ Pending(s) /\ \E x : refresh' = refresh \cup {<<x, slot[s].id>>}
  PROVE  /\ slot' \in [Slots -> Request] /\ slot'[s] = r
         /\ \A t \in Slots \ {s} : slot'[t] = slot[t]
         /\ \A t \in Slots : slot'[t].session \in {slot[t].session, None}
         /\ Numbered' /\ Unmade' \subseteq Unmade
<1>1. /\ slot' \in [Slots -> Request] /\ slot'[s] = r
      /\ \A t \in Slots \ {s} : slot'[t] = slot[t]
  BY DEF SInv, TypeOK
<1>2. \A t \in Slots : slot'[t].session \in {slot[t].session, None}
  BY <1>1 DEF Continues, Idle
<1>3. \A t \in Slots : Pending(t)' => Pending(t) /\ slot'[t].id = slot[t].id
  BY <1>1 DEF Continues, Pending
<1>4. Numbered'
  <2>1. requests \in Nat /\ refresh \subseteq SessionIds \X Secrets
    BY SessionsAssumption DEF SInv, TypeOK
  <2>2. ASSUME NEW t \in Slots, Pending(t)', NEW x \in SessionIds
        PROVE  <<x, slot'[t].id>> \notin refresh'
    BY <1>1, <1>3, <2>2 DEF SInv, Numbered, Pending
  <2>3. \A token \in refresh' : token[2] <= requests'
    BY <2>1 DEF SInv, Numbered
  <2> QED BY <1>3, <2>2, <2>3 DEF SInv, Numbered
<1>5. \A t \in Slots : Pending(t)' /\ ~Entered(t)' => ~Entered(t)
  BY <1>1, <1>3 DEF Continues, Entered, Pending
<1>6. Unmade' \subseteq Unmade
  BY <1>3, <1>5 DEF Unmade
<1> QED BY <1>1, <1>2, <1>4, <1>6

\* A request that moves on and touches no session.
LEMMA SlotStep ==
  ASSUME SInv, NEW s \in Slots, NEW r \in Request, slot' = [slot EXCEPT ![s] = r],
         Continues(s, r), RequestOK(r), ChosenFor(r),
         r.loaded # None => r.session \in Active,
         profiles' \in [ProfileIds -> Names \cup {None}], KeyHolds',
         UNCHANGED <<rows, expired, lapsed, requests, access, refresh, latest, loggedOut, raced>>
  PROVE  SInv'
<1>1. /\ slot' \in [Slots -> Request] /\ slot'[s] = r
      /\ \A t \in Slots \ {s} : slot'[t] = slot[t]
      /\ \A t \in Slots : slot'[t].session \in {slot[t].session, None}
      /\ Numbered' /\ Unmade' \subseteq Unmade
  BY SlotNumbers
<1>2. TypeOK'
  BY <1>1 DEF SInv, TypeOK
<1>3. FreshInv'
  <2> SUFFICES ASSUME NEW x \in Unmade' PROVE Fresh(x)'
    BY DEF FreshInv
  <2>1. Fresh(x) /\ x # None
    BY <1>1, SessionsAssumption DEF SInv, FreshInv, Unmade
  <2> QED BY <1>1, <2>1 DEF Fresh
<1>4. RowsOK' /\ LatestTokensWork'
  BY DEF SInv, RowsOK, RowOK, LatestTokensWork, Active
<1>5. LogoutHolds'
  BY <1>1 DEF SInv, LogoutHolds, Active
<1>6. ASSUME NEW t \in Slots PROVE RequestOK(slot[t])' /\ ChosenFor(slot[t])'
  BY <1>1 DEF SInv, RequestOK, ChosenFor, RowOK
<1> QED BY <1>1, <1>2, <1>3, <1>4, <1>5, <1>6 DEF SInv

LEMMA FinishStep ==
  ASSUME SInv, NEW s \in Slots, Finish(s),
         profiles' \in [ProfileIds -> Names \cup {None}], KeyHolds',
         UNCHANGED <<rows, expired, lapsed, requests, access, refresh, latest, loggedOut, raced>>
  PROVE  SInv'
<1>1. Idle \in Request /\ RequestOK(Idle) /\ ChosenFor(Idle) /\ Idle.loaded = None
  BY IdleOK DEF ChosenFor, Idle
<1>2. slot' = [slot EXCEPT ![s] = Idle] /\ Continues(s, Idle)
  BY DEF Finish, Continues
<1> HIDE DEF Idle
<1> QED BY <1>1, <1>2, SlotStep

LEMMA GotoStep ==
  ASSUME SInv, NEW s \in Slots, NEW step \in Steps, Goto(s, step), Pending(s),
         slot[s].step # "save",
         Entered(s) => step \in {"main", "kids"},
         step \in {"main", "kids"} => slot[s].kind \in Guarded \cup {"login", "adminLogin"},
         step = "guard" => slot[s].kind \in Guarded,
         step = "handle" => ChosenFor([slot[s] EXCEPT !.step = "handle"]),
         profiles' \in [ProfileIds -> Names \cup {None}], KeyHolds',
         UNCHANGED <<rows, expired, lapsed, requests, access, refresh, latest, loggedOut, raced>>
  PROVE  SInv'
<1> DEFINE r == [slot[s] EXCEPT !.step = step]
<1>1. slot[s] \in Request /\ RequestOK(slot[s])
  BY DEF SInv, TypeOK
<1>2. /\ r \in Request /\ r.step = step /\ r.kind = slot[s].kind /\ r.id = slot[s].id
      /\ r.session = slot[s].session /\ r.name = slot[s].name /\ r.target = slot[s].target
      /\ r.loaded = slot[s].loaded
  BY <1>1 DEF Request
<1>3. slot' = [slot EXCEPT ![s] = r]
  BY DEF Goto
<1>4. ChosenFor(r)
  BY <1>2 DEF ChosenFor
<1> HIDE DEF r
<1>5. r.loaded = None /\ RequestOK(r) /\ Continues(s, r)
  BY <1>1, <1>2 DEF RequestOK, Pending, Continues
<1> QED BY <1>2, <1>3, <1>4, <1>5, SlotStep

(***************************************************************************)
(* Requests that touch no session.                                         *)
(***************************************************************************)
\* What is in a slot whose step is not "idle".
LEMMA SlotFacts ==
  ASSUME SInv, NEW s \in Slots
  PROVE  /\ slot[s] \in Request /\ RequestOK(slot[s]) /\ ChosenFor(slot[s])
         /\ slot[s].kind # None => Pending(s)
         /\ slot[s].step \in {"main", "kids", "guard", "handle", "insert", "save", "remove"} => Pending(s)
         /\ slot[s].loaded # None => Pending(s)
BY SessionsAssumption DEF SInv, TypeOK, Pending, Idle

LEMMA SameProfiles ==
  ASSUME SInv, UNCHANGED <<profiles, rows>>
  PROVE  profiles' \in [ProfileIds -> Names \cup {None}] /\ KeyHolds'
BY DEF SInv, TypeOK, KeyHolds, Existing

LEMMA MoreProfiles ==
  ASSUME SInv, NEW p \in ProfileIds, NEW name \in Names, InsertProfile(p, name), UNCHANGED rows
  PROVE  profiles' \in [ProfileIds -> Names \cup {None}] /\ KeyHolds'
<1>1. profiles' \in [ProfileIds -> Names \cup {None}]
  BY DEF SInv, TypeOK, InsertProfile
<1>2. Existing \subseteq Existing'
  BY SessionsAssumption DEF SInv, TypeOK, InsertProfile, Existing
<1> QED BY <1>1, <1>2 DEF SInv, KeyHolds

LEMMA CreateDefaultsKeeps ==
  ASSUME SInv, NEW s \in Slots, CreateDefaults(s)
  PROVE  SInv'
<1> DEFINE r == slot[s]
<1>1. /\ r \in Request /\ RequestOK(r) /\ Pending(s) /\ r.step \in {"main", "kids"}
      /\ r.kind \in Guarded \cup {"login", "adminLogin"}
  BY SlotFacts DEF CreateDefaults, CreateDefault, RequestOK
<1>2. UNCHANGED <<rows, expired, lapsed, requests, access, refresh, latest, loggedOut, raced>>
  BY DEF CreateDefaults, CreateDefault, Clock, Tokens
<1>3. PICK step \in {"main", "kids"}, name \in {DefaultName, KidsName},
           next \in {"kids", AfterRead(r.kind)} :
        /\ step = "main" => next = "kids"
        /\ CreateDefault(s, step, name, next)
  BY DEF CreateDefaults
<1>4. CASE Finish(s) /\ UNCHANGED profiles
  BY <1>2, <1>4, SameProfiles, FinishStep
<1>5. CASE InsertProfile(<<r.id, step>>, name)
  <2>1. <<r.id, step>> \in ProfileIds
    BY <1>1 DEF Request, ProfileIds, SessionIds
  <2>2. profiles' \in [ProfileIds -> Names \cup {None}] /\ KeyHolds'
    BY <1>2, <1>5, <2>1, MoreProfiles, SessionsAssumption
  <2>3. CASE Finish(s)
    BY <1>2, <2>2, <2>3, FinishStep
  <2>4. CASE Goto(s, next) /\ next # "idle"
    <3>1. next \in {"kids", "guard", "handle"} /\ (Entered(s) => next = "kids")
          /\ (next = "guard" => r.kind \in Guarded)
          /\ (next = "handle" => r.kind = "adminLogin")
      BY <1>1, <2>4 DEF AfterRead, Entered, Guarded
    <3>2. next = "handle" => ChosenFor([r EXCEPT !.step = "handle"])
      BY <1>1, <3>1 DEF ChosenFor, Guarded, Request
    <3> QED BY <1>1, <1>2, <2>2, <2>4, <3>1, <3>2, GotoStep DEF Steps
  <2> QED BY <1>3, <1>5, <2>3, <2>4 DEF CreateDefault, InsertProfile
<1> QED BY <1>3, <1>4, <1>5 DEF CreateDefault

LEMMA AuthGuardKeeps ==
  ASSUME SInv, NEW s \in Slots, AuthGuard(s)
  PROVE  SInv'
<1> DEFINE r == slot[s]
<1>1. r \in Request /\ Pending(s) /\ r.step = "guard"
  BY SlotFacts DEF AuthGuard
<1>2. UNCHANGED <<profiles, rows, expired, lapsed, requests, access, refresh, latest, loggedOut, raced>>
  BY DEF AuthGuard, Clock, Tokens
<1>3. CASE Finish(s)
  BY <1>2, <1>3, SameProfiles, FinishStep
<1>4. CASE Goto(s, "handle") /\ Admits(r.session, r.profile, r.kind = "loginWithProfile")
  <2>1. ChosenFor([r EXCEPT !.step = "handle"])
    <3>1. r.session \in SessionIds => rows[r.session] \in Row \cup {None}
      BY DEF SInv, TypeOK
    <3>2. r.kind \in Guarded => r.session \in SessionIds
      BY <1>1, SlotFacts DEF RequestOK, Request
    <3>3. [r EXCEPT !.step = "handle"].kind = r.kind /\ [r EXCEPT !.step = "handle"].session = r.session
      BY <1>1 DEF Request
    <3> QED BY <1>4, <3>1, <3>2, <3>3, SessionsAssumption DEF Admits, ChosenFor, Row
  <2>2. ~Entered(s)
    BY <1>1 DEF Entered
  <2> QED BY <1>1, <1>2, <1>4, <2>1, <2>2, SameProfiles, GotoStep DEF Steps
<1> QED BY <1>3, <1>4 DEF AuthGuard

\* Handlers that look at profiles and sessions and go on, or give up.
LEMMA LookingKeeps ==
  ASSUME SInv, NEW s \in Slots,
         CreateProfile(s) \/ UpdateProfile(s) \/ DeleteProfile(s)
  PROVE  SInv'
<1>1. Pending(s) /\ slot[s].step = "handle" /\ ~Entered(s)
  BY SlotFacts DEF CreateProfile, UpdateProfile, DeleteProfile, Entered
<1>2. UNCHANGED <<profiles, rows, expired, lapsed, requests, access, refresh, latest, loggedOut, raced>>
  BY DEF CreateProfile, UpdateProfile, DeleteProfile, Clock, Tokens
<1>3. Finish(s) \/ \E step \in {"insert", "save", "remove"} : Goto(s, step)
  BY DEF CreateProfile, UpdateProfile, DeleteProfile
<1>4. ASSUME NEW step \in {"insert", "save", "remove"}, Goto(s, step)
      PROVE  SInv'
  BY <1>1, <1>2, <1>4, SameProfiles, GotoStep DEF Steps
<1> QED BY <1>2, <1>3, <1>4, SameProfiles, FinishStep

LEMMA ChooseProfileKeeps ==
  ASSUME SInv, NEW s \in Slots, ChooseProfile(s)
  PROVE  SInv'
<1>1. /\ Pending(s) /\ slot[s].step = "handle" /\ ~Entered(s)
      /\ slot[s] \in Request /\ RequestOK(slot[s])
  BY SlotFacts DEF ChooseProfile, Entered
<1>2. UNCHANGED <<profiles, rows, expired, lapsed, requests, access, refresh, latest, loggedOut, raced>>
  BY DEF ChooseProfile, Clock, Tokens
<1>3. CASE Finish(s)
  BY <1>2, <1>3, SameProfiles, FinishStep
<1>4. CASE Goto(s, "insert")
  BY <1>1, <1>2, <1>4, SameProfiles, GotoStep DEF Steps
<1>5. ASSUME NEW p \in Existing, slot[s].kind = "adminLogin",
             slot' = [slot EXCEPT ![s].step = "insert", ![s].target = p]
      PROVE  SInv'
  <2> DEFINE r == [slot[s] EXCEPT !.step = "insert", !.target = p]
  <2>1. /\ r \in Request /\ r.step = "insert" /\ r.kind = slot[s].kind /\ r.id = slot[s].id
        /\ r.session = slot[s].session /\ r.name = slot[s].name /\ r.target = p
        /\ r.loaded = slot[s].loaded
    BY <1>1, <1>5 DEF Request, Existing, Steps
  <2>2. slot' = [slot EXCEPT ![s] = r]
    BY <1>5
  <2> HIDE DEF r
  <2>3. RequestOK(r) /\ Continues(s, r) /\ ChosenFor(r) /\ r.loaded = None
    BY <1>1, <1>5, <2>1, SessionsAssumption DEF RequestOK, Continues, ChosenFor, Guarded, Kinds, Existing
  <2> QED BY <1>2, <2>1, <2>2, <2>3, SameProfiles, SlotStep
<1> QED BY <1>3, <1>4, <1>5 DEF ChooseProfile

\* Reading a session to write it back.
LEMMA LoadKeeps ==
  ASSUME SInv, NEW s \in Slots, RefreshToken(s) \/ SwitchProfile(s)
  PROVE  SInv'
<1>1. /\ Pending(s) /\ slot[s].step = "handle" /\ ~Entered(s)
      /\ slot[s] \in Request /\ RequestOK(slot[s]) /\ ChosenFor(slot[s])
      /\ slot[s].kind \in {"refreshToken", "switchProfile"}
  BY SlotFacts DEF RefreshToken, SwitchProfile, Entered
<1>2. UNCHANGED <<profiles, rows, expired, lapsed, requests, access, refresh, latest, loggedOut, raced>>
  BY DEF RefreshToken, SwitchProfile, Clock, Tokens
<1>3. CASE Finish(s)
  BY <1>2, <1>3, SameProfiles, FinishStep
<1>4. CASE slot[s].session \in Active /\ LoadFor(s, rows[slot[s].session])
  <2> DEFINE row == rows[slot[s].session]
             r == [slot[s] EXCEPT !.step = "save", !.loaded = row]
  <2>1. row \in Row /\ RowOK(row) /\ (slot[s].kind = "switchProfile" => row.sessionType = "WITH_PROFILE")
    BY <1>1, <1>4 DEF Active, SInv, TypeOK, RowsOK, ChosenFor, Guarded
  <2>2. /\ r \in Request /\ r.step = "save" /\ r.kind = slot[s].kind /\ r.id = slot[s].id
        /\ r.session = slot[s].session /\ r.name = slot[s].name /\ r.target = slot[s].target
        /\ r.loaded = row
    BY <1>1, <2>1 DEF Request, Steps
  <2>3. slot' = [slot EXCEPT ![s] = r]
    BY <1>4 DEF LoadFor
  <2> HIDE DEF r, row
  <2>4. RequestOK(r) /\ Continues(s, r) /\ ChosenFor(r)
    BY <1>1, <2>1, <2>2, SessionsAssumption DEF RequestOK, Continues, ChosenFor, Kinds, Guarded
  <2> QED BY <1>2, <1>4, <2>2, <2>3, <2>4, SameProfiles, SlotStep
<1> QED BY <1>3, <1>4 DEF RefreshToken, SwitchProfile

\* The writes to the profile table.
LEMMA ProfilesKeep ==
  ASSUME SInv, NEW s \in Slots,
         SaveNewProfile(s) \/ SaveProfile(s) \/ RemoveProfile(s) \/ DeleteAccount(s) \/ Die(s)
  PROVE  SInv'
<1> DEFINE r == slot[s]
<1>1. Pending(s) /\ r \in Request /\ RequestOK(r)
  BY SlotFacts DEF SaveNewProfile, SaveProfile, RemoveProfile, DeleteAccount, Die
<1>2. UNCHANGED <<rows, expired, lapsed, requests, access, refresh, latest, loggedOut, raced>> /\ Finish(s)
  BY DEF SaveNewProfile, SaveProfile, RemoveProfile, DeleteAccount, Die, Clock, Tokens
<1>3. profiles' \in [ProfileIds -> Names \cup {None}] /\ KeyHolds'
  <2>1. CASE UNCHANGED profiles
    BY <1>2, <2>1, SameProfiles
  <2>2. CASE SaveNewProfile(s) /\ InsertProfile(<<r.id, "main">>, r.name)
    BY <1>1, <1>2, <2>2, MoreProfiles DEF SaveNewProfile, RequestOK, Request, ProfileIds, SessionIds
  <2>3. CASE SaveProfile(s) /\ InsertProfile(r.target, r.name)
    BY <1>1, <1>2, <2>3, MoreProfiles DEF SaveProfile, RequestOK, Request
  <2>4. CASE RemoveProfile(s) /\ ~Referenced(r.target) /\ profiles' = [profiles EXCEPT ![r.target] = None]
    BY <1>2, <2>4 DEF SInv, TypeOK, KeyHolds, Existing, Referenced
  <2>5. CASE /\ ~\E x \in SessionIds : rows[x] # None
             /\ profiles' = [p \in ProfileIds |-> None]
    BY <1>2, <2>5 DEF KeyHolds
  <2> QED BY <2>1, <2>2, <2>3, <2>4, <2>5 DEF SaveNewProfile, SaveProfile, RemoveProfile, DeleteAccount, Die
<1> QED BY <1>2, <1>3, FinishStep

(***************************************************************************)
(* Arrivals.                                                               *)
(***************************************************************************)
LEMMA ArriveKeeps ==
  ASSUME SInv, NEW s \in Slots, NEW r \in Request, Arrive(s, r), r.kind # None,
         r.loaded = None, RequestOK(r), r.step # "handle" \/ r.kind \notin Guarded,
         ~(r.kind = "login" /\ r.step \in {"main", "kids"}),
         r.session # None => \/ \E token \in access : token[1] = r.session
                             \/ \E token \in refresh : token[1] = r.session
  PROVE  SInv'
<1> DEFINE n == requests + 1
           c == [r EXCEPT !.id = n]
<1>1. /\ requests \in Nat /\ n \in SessionIds /\ n \in 1..n /\ MaxRequests \in Nat
      /\ refresh \subseteq SessionIds \X Secrets
  BY SessionsAssumption DEF Arrive, SInv, TypeOK, SessionIds
<1>2. UNCHANGED <<profiles, rows, expired, lapsed, access, refresh, latest, loggedOut, raced>>
      /\ requests' = n /\ slot[s] = Idle
  BY DEF Arrive, Clock, Tokens
<1>3. /\ c \in Request /\ c.id = n /\ c.kind = r.kind /\ c.step = r.step
      /\ c.session = r.session /\ c.loaded = None /\ c.target = r.target /\ c.name = r.name
  BY <1>1 DEF Request
<1>4. slot' = [slot EXCEPT ![s] = c]
  BY DEF Arrive
<1> HIDE DEF c
<1>5. /\ slot' \in [Slots -> Request] /\ slot'[s] = c
      /\ \A t \in Slots \ {s} : slot'[t] = slot[t]
  BY <1>3, <1>4 DEF SInv, TypeOK
<1>6. TypeOK'
  BY <1>1, <1>2, <1>5 DEF SInv, TypeOK, Arrive
<1>7. Numbered'
  <2>1. \A token \in refresh : token[2] \in Nat /\ token[2] <= requests
    BY <1>1 DEF SInv, Numbered, Secrets
  <2>2. \A x \in SessionIds : <<x, n>> \notin refresh
    BY <1>1, <2>1
  <2>3. \A t \in Slots \ {s} : Pending(t) => slot[t].id \in 1..requests /\ slot[t].id # n
    BY <1>1 DEF SInv, Numbered
  <2>4. ASSUME NEW t \in Slots, Pending(t)'
        PROVE  /\ slot'[t].id \in 1..n
               /\ \A x \in SessionIds : <<x, slot'[t].id>> \notin refresh
               /\ \A u \in Slots : Pending(u)' /\ slot'[u].id = slot'[t].id => u = t
    <3>1. CASE t = s
      BY <1>1, <1>3, <1>5, <2>2, <2>3, <3>1 DEF Pending
    <3>2. CASE t # s
      BY <1>1, <1>3, <1>5, <2>3, <2>4, <3>2 DEF Pending, SInv, Numbered
    <3> QED BY <3>1, <3>2
  <2>5. \A token \in refresh : token[2] <= n
    BY <1>1, <2>1
  <2> QED BY <1>2, <2>4, <2>5 DEF Numbered
<1>8. Unmade' \subseteq Unmade
  <2> SUFFICES ASSUME NEW x \in Unmade' PROVE x \in Unmade
    OBVIOUS
  <2>1. x \in SessionIds /\ x \in Nat
    BY SessionsAssumption DEF Unmade, SessionIds
  <2>2. CASE x > n
    BY <1>1, <2>1, <2>2 DEF Unmade
  <2>3. ASSUME NEW t \in Slots, Pending(t)', ~Entered(t)', slot'[t].id = x
        PROVE  x \in Unmade
    <3>1. CASE t = s
      BY <1>1, <1>3, <1>5, <2>1, <2>3, <3>1 DEF Unmade
    <3>2. CASE t # s
      BY <1>5, <2>1, <2>3, <3>2 DEF Unmade, Pending, Entered
    <3> QED BY <3>1, <3>2
  <2> QED BY <1>2, <2>2, <2>3 DEF Unmade
<1>9. FreshInv'
  <2> SUFFICES ASSUME NEW x \in Unmade' PROVE Fresh(x)'
    BY DEF FreshInv
  <2>1. Fresh(x) /\ x # None
    BY <1>8, SessionsAssumption DEF SInv, FreshInv, Unmade
  <2>2. r.session # x
    BY <2>1 DEF Fresh
  <2> QED BY <1>2, <1>3, <1>5, <2>1, <2>2 DEF Fresh
<1>10. RowsOK' /\ LatestTokensWork' /\ KeyHolds'
  BY <1>2 DEF SInv, RowsOK, RowOK, LatestTokensWork, Active, KeyHolds, Existing
<1>11. LogoutHolds'
  BY <1>2, <1>3, <1>5 DEF SInv, LogoutHolds, Active
<1>12. RequestOK(c)
  BY <1>3 DEF RequestOK
<1>13. ASSUME NEW t \in Slots PROVE RequestOK(slot[t])' /\ ChosenFor(slot[t])'
  BY <1>2, <1>3, <1>5, <1>12 DEF SInv, RequestOK, ChosenFor, RowOK
<1> QED BY <1>6, <1>7, <1>9, <1>10, <1>11, <1>13 DEF SInv

LEMMA ArrivalsKeep ==
  ASSUME SInv, NEW s \in Slots, ArriveGuarded(s) \/ ArriveRefresh(s) \/ ArriveLogin(s)
  PROVE  SInv'
<1>1. /\ Idle \in Request /\ access \subseteq SessionIds \X (ProfileIds \cup {None})
      /\ refresh \subseteq SessionIds \X SessionIds
  BY IdleOK DEF SInv, TypeOK, Secrets, SessionIds
<1>2. CASE ArriveGuarded(s)
  <2>0. PICK token \in access, kind \in Guarded :
          \E target \in IF kind \in {"loginWithProfile", "switchProfile", "updateProfile", "deleteProfile"}
                        THEN Existing ELSE {None},
             other \in IF kind = "logoutSpecificSession" THEN Active ELSE {None},
             name \in IF kind \in {"createProfile", "updateProfile"} THEN Names ELSE {None} :
            Arrive(s, [Idle EXCEPT !.kind = kind, !.step = EnsureUserProfile(kind),
                                   !.session = token[1], !.profile = token[2],
                                   !.target = target, !.other = other, !.name = name])
    BY <1>2 DEF ArriveGuarded
  <2>1. PICK target \in IF kind \in {"loginWithProfile", "switchProfile", "updateProfile", "deleteProfile"}
                        THEN Existing ELSE {None},
             other \in IF kind = "logoutSpecificSession" THEN Active ELSE {None},
             name \in IF kind \in {"createProfile", "updateProfile"} THEN Names ELSE {None} :
          Arrive(s, [Idle EXCEPT !.kind = kind, !.step = EnsureUserProfile(kind),
                                 !.session = token[1], !.profile = token[2], !.target = target,
                                 !.other = other, !.name = name])
    BY <2>0
  <2> DEFINE step == EnsureUserProfile(kind)
             r == [Idle EXCEPT !.kind = kind, !.step = step, !.session = token[1],
                               !.profile = token[2], !.target = target, !.other = other,
                               !.name = name]
  <2>2. step \in {"main", "guard"}
    BY DEF EnsureUserProfile, AfterRead, Guarded
  <2> HIDE DEF step
  <2>3. /\ token[1] \in SessionIds /\ token[2] \in ProfileIds \cup {None}
        /\ target \in ProfileIds \cup {None} /\ other \in SessionIds \cup {None}
        /\ name \in Names \cup {None} /\ kind \in Kinds /\ step \in Steps
    BY <1>1, <2>2 DEF Existing, Active, Kinds, Steps
  <2>4. /\ r \in Request /\ r.kind = kind /\ r.step = step /\ r.session = token[1]
        /\ r.target = target /\ r.name = name /\ r.loaded = None
    BY <1>1, <2>3 DEF Request, Idle
  <2>5. Arrive(s, r)
    BY <2>1 DEF step
  <2> HIDE DEF r
  <2>6. kind # None /\ token[1] # None /\ RequestOK(r)
    BY <2>2, <2>3, <2>4, SessionsAssumption DEF RequestOK, Existing, Guarded
  <2>7. ~(r.kind = "login" /\ r.step \in {"main", "kids"})
    BY <2>4 DEF Guarded
  <2> QED BY <2>2, <2>4, <2>5, <2>6, <2>7, ArriveKeeps
<1>3. CASE ArriveRefresh(s)
  <2>1. PICK token \in refresh :
          Arrive(s, [Idle EXCEPT !.kind = "refreshToken", !.step = "handle",
                                 !.session = token[1], !.other = token[2]])
    BY <1>3 DEF ArriveRefresh
  <2> DEFINE r == [Idle EXCEPT !.kind = "refreshToken", !.step = "handle",
                               !.session = token[1], !.other = token[2]]
  <2>2. /\ r \in Request /\ r.kind = "refreshToken" /\ r.step = "handle"
        /\ r.session = token[1] /\ r.loaded = None /\ token[1] \in SessionIds
    BY <1>1 DEF Request, Idle, Kinds, Steps
  <2>3. Arrive(s, r)
    BY <2>1
  <2> HIDE DEF r
  <2>4. r.kind # None /\ r.kind \notin Guarded /\ RequestOK(r)
    BY <2>2, SessionsAssumption DEF RequestOK, Guarded, Kinds
  <2> QED BY <2>2, <2>3, <2>4, ArriveKeeps
<1>4. CASE ArriveLogin(s)
  <2>1. PICK kind \in {"login", "adminLogin"}, step \in {"insert", "main", "handle"} :
          /\ kind = "login" => step = "insert"
          /\ Arrive(s, [Idle EXCEPT !.kind = kind, !.step = step])
    BY <1>4 DEF ArriveLogin, EnsureUserProfile, AfterRead, Guarded
  <2> DEFINE r == [Idle EXCEPT !.kind = kind, !.step = step]
  <2>2. /\ r \in Request /\ r.kind = kind /\ r.step = step /\ r.session = None /\ r.loaded = None
    BY <1>1 DEF Request, Idle, Kinds, Steps
  <2>3. Arrive(s, r)
    BY <2>1
  <2> HIDE DEF r
  <2>4. r.kind # None /\ r.kind \notin Guarded /\ RequestOK(r)
    BY <2>1, <2>2, SessionsAssumption DEF RequestOK, Guarded, Kinds
  <2> QED BY <2>1, <2>2, <2>3, <2>4, ArriveKeeps
<1> QED BY <1>2, <1>3, <1>4

(***************************************************************************)
(* Steps that write sessions.                                              *)
(***************************************************************************)
\* A request that makes the session of its own number.
LEMMA NewSession ==
  ASSUME SInv, NEW s \in Slots, NEW r \in Request, slot' = [slot EXCEPT ![s] = r],
         Continues(s, r), Pending(s), ~Entered(s), RequestOK(r), ChosenFor(r), r.loaded = None,
         r = Idle \/ (r.kind = "login" /\ r.step = "main"),
         NEW row \in Row, row.isActive, RowOK(row),
         row.currentProfileId \in Existing \cup {None},
         rows' = [rows EXCEPT ![slot[s].id] = row],
         row.refreshTokenHash \in {None, slot[s].id}, row.refreshTokenHash # None => r = Idle,
         Issue(slot[s].id, row.currentProfileId, row.refreshTokenHash),
         UNCHANGED <<profiles, expired, lapsed, requests, loggedOut, raced>>
  PROVE  SInv'
<1> DEFINE n == slot[s].id
<1>1. /\ n \in SessionIds /\ n \in Unmade /\ Fresh(n) /\ n \in Secrets
      /\ row.currentProfileId \in ProfileIds \cup {None}
  BY DEF SInv, TypeOK, Request, Unmade, FreshInv, Existing, SessionIds, Secrets
<1>2. /\ access' = access \cup {<<n, row.currentProfileId>>}
      /\ refresh' = refresh \/ (r = Idle /\ refresh' = refresh \cup {<<n, n>>})
      /\ latest' = [latest EXCEPT ![n] = [profile |-> row.currentProfileId,
                                          secret |-> row.refreshTokenHash]]
  BY DEF Issue
<1>3. /\ slot' \in [Slots -> Request] /\ slot'[s] = r
      /\ \A t \in Slots \ {s} : slot'[t] = slot[t]
      /\ \A t \in Slots : slot'[t].session \in {slot[t].session, None}
      /\ Numbered' /\ Unmade' \subseteq Unmade
  BY <1>2, SlotNumbers
<1>4. rows' \in [SessionIds -> Row \cup {None}] /\ rows'[n] = row
      /\ \A x \in SessionIds \ {n} : rows'[x] = rows[x]
  BY <1>1 DEF SInv, TypeOK
<1>5. latest'[n] = [profile |-> row.currentProfileId, secret |-> row.refreshTokenHash]
      /\ \A x \in SessionIds \ {n} : latest'[x] = latest[x]
  BY <1>1, <1>2 DEF SInv, TypeOK
<1>6. TypeOK'
  <2>1. latest' \in [SessionIds -> [profile : ProfileIds \cup {None}, secret : Secrets \cup {None}]]
    BY <1>1, <1>2 DEF SInv, TypeOK
  <2>2. access' \subseteq SessionIds \X (ProfileIds \cup {None}) /\ refresh' \subseteq SessionIds \X Secrets
    BY <1>1, <1>2 DEF SInv, TypeOK
  <2>3. \A x \in SessionIds : rows'[x] # None => RowOK(rows'[x])
    BY <1>4 DEF SInv, RowsOK
  <2> QED BY <1>3, <1>4, <2>1, <2>2, <2>3 DEF SInv, TypeOK, RowOK
<1>7. n \notin Unmade'
  <2>1. \A t \in Slots : Pending(t)' => Pending(t) /\ slot'[t].id = slot[t].id
    BY <1>3 DEF Continues, Pending
  <2>2. ASSUME NEW t \in Slots, Pending(t)', ~Entered(t)' PROVE slot'[t].id # n
    <3>1. t # s
      BY <1>3, <2>2, IdleOK DEF Pending, Entered
    <3> QED BY <2>1, <2>2, <3>1 DEF SInv, Numbered
  <2>3. ~(n > requests)
    BY SessionsAssumption DEF SInv, TypeOK, Numbered
  <2> QED BY <2>2, <2>3 DEF Unmade
<1>8. FreshInv'
  <2> SUFFICES ASSUME NEW x \in Unmade' PROVE Fresh(x)'
    BY DEF FreshInv
  <2>1. Fresh(x) /\ x # None /\ x # n /\ x \in SessionIds
    BY <1>3, <1>7, SessionsAssumption DEF SInv, FreshInv, Unmade
  <2> QED BY <1>2, <1>3, <1>4, <2>1 DEF Fresh
<1>9. RowsOK' /\ LatestTokensWork'
  BY <1>4, <1>5 DEF SInv, RowsOK, RowOK, LatestTokensWork, Active
<1>10. KeyHolds'
  BY <1>4 DEF SInv, KeyHolds, Existing
<1>11. LogoutHolds'
  BY <1>1, <1>3, <1>4 DEF SInv, LogoutHolds, Active, Fresh
<1>12. ASSUME NEW t \in Slots PROVE RequestOK(slot[t])' /\ ChosenFor(slot[t])'
  <2>1. slot[t].session # n
    BY <1>1 DEF Fresh
  <2>2. CASE t = s
    <3>1. RequestOK(slot[t])' 
      BY <1>3, <2>2 DEF RequestOK, RowOK
    <3>2. r.kind \notin Guarded \/ r.step # "handle"
      BY IdleOK, SessionsAssumption DEF Guarded, Idle
    <3> QED BY <1>3, <2>2, <3>1, <3>2 DEF ChosenFor
  <2>3. CASE t # s
    <3>1. slot'[t] = slot[t] /\ RequestOK(slot[t]) /\ ChosenFor(slot[t]) /\ slot[t] \in Request
      BY <1>3, <2>3 DEF SInv, TypeOK
    <3>2. RequestOK(slot[t])'
      BY <3>1 DEF RequestOK, RowOK
    <3>3. slot[t].kind \in Guarded => slot[t].session \in SessionIds \ {n}
      BY <2>1, <3>1 DEF RequestOK, Request
    <3> QED BY <1>4, <3>1, <3>2, <3>3 DEF ChosenFor
  <2> QED BY <2>2, <2>3
<1> QED BY <1>3, <1>6, <1>8, <1>9, <1>10, <1>11, <1>12 DEF SInv

LEMMA CreateKeeps ==
  ASSUME SInv, NEW s \in Slots, CreatePreProfileSession(s) \/ CreateSession(s)
  PROVE  SInv'
<1> DEFINE r == slot[s]
<1>1. /\ r \in Request /\ RequestOK(r) /\ Pending(s) /\ r.step = "insert" /\ ~Entered(s)
      /\ UNCHANGED <<profiles, expired, lapsed, requests, loggedOut, raced>>
  BY SlotFacts DEF CreatePreProfileSession, CreateSession, Entered, Clock
<1>2. /\ Idle \in Request /\ RequestOK(Idle) /\ Idle.loaded = None /\ ChosenFor(Idle)
      /\ Continues(s, Idle) /\ (Finish(s) => slot' = [slot EXCEPT ![s] = Idle])
  BY IdleOK DEF Idle, ChosenFor, Finish, Continues
<1>3. CASE CreatePreProfileSession(s)
  <2> DEFINE row == [isActive |-> TRUE, sessionType |-> "PRE_PROFILE",
                     currentProfileId |-> None, refreshTokenHash |-> None]
  <2>1. /\ row \in Row /\ row.isActive /\ RowOK(row) /\ row.currentProfileId = None
        /\ row.refreshTokenHash = None
    BY DEF Row, RowOK
  <2>2. /\ rows' = [rows EXCEPT ![r.id] = row] /\ r.kind = "login"
        /\ Issue(r.id, row.currentProfileId, row.refreshTokenHash)
        /\ Finish(s) \/ Goto(s, "main")
    BY <1>3 DEF CreatePreProfileSession
  <2> HIDE DEF row
  <2>3. CASE Finish(s)
    BY <1>1, <1>2, <2>1, <2>2, <2>3, NewSession
  <2>4. CASE Goto(s, "main")
    <3> DEFINE next == [r EXCEPT !.step = "main"]
    <3>1. /\ next \in Request /\ next.step = "main" /\ next.kind = "login" /\ next.id = r.id
          /\ next.session = r.session /\ next.loaded = r.loaded
      BY <1>1, <2>2 DEF Request, Steps
    <3>2. slot' = [slot EXCEPT ![s] = next]
      BY <2>4 DEF Goto
    <3> HIDE DEF next
    <3>3. RequestOK(next) /\ ChosenFor(next) /\ Continues(s, next) /\ next.loaded = None
      BY <1>1, <2>2, <3>1, SessionsAssumption DEF RequestOK, ChosenFor, Continues, Kinds, Guarded
    <3> QED BY <1>1, <2>1, <2>2, <3>1, <3>2, <3>3, NewSession
  <2> QED BY <2>2, <2>3, <2>4
<1>4. CASE CreateSession(s) /\ r.target \notin Existing
  <2>1. UNCHANGED <<rows, access, refresh, latest>> /\ Finish(s)
    BY <1>4 DEF CreateSession, Tokens
  <2> QED BY <1>1, <2>1, SameProfiles, FinishStep
<1>5. CASE CreateSession(s) /\ r.target \in Existing
  <2> DEFINE row == [isActive |-> TRUE, sessionType |-> "WITH_PROFILE",
                     currentProfileId |-> r.target, refreshTokenHash |-> r.id]
  <2>1. /\ row \in Row /\ row.isActive /\ RowOK(row) /\ row.currentProfileId = r.target
        /\ row.refreshTokenHash = r.id
    BY <1>1, <1>5, SessionsAssumption DEF Row, RowOK, Existing, Request, SessionIds, Secrets
  <2>2. /\ rows' = [rows EXCEPT ![r.id] = row] /\ Finish(s)
        /\ Issue(r.id, row.currentProfileId, row.refreshTokenHash)
    BY <1>5 DEF CreateSession
  <2> HIDE DEF row
  <2> QED BY <1>1, <1>2, <1>5, <2>1, <2>2, NewSession
<1> QED BY <1>3, <1>4, <1>5

\* Writing back what was loaded: the row still says whether a profile is chosen.
LEMMA SaveSessionKeeps ==
  ASSUME SInv, NEW s \in Slots, SaveSession(s)
  PROVE  SInv'
<1> DEFINE r == slot[s]
           n == slot[s].session
           row == Rotated(slot[s])
<1>1. /\ r \in Request /\ RequestOK(r) /\ Pending(s) /\ r.loaded # None /\ r.step = "save"
      /\ n \in SessionIds /\ r.kind \in {"refreshToken", "switchProfile"}
      /\ r.loaded \in Row /\ RowOK(r.loaded) /\ r.id \in Secrets /\ Finish(s)
      /\ UNCHANGED <<profiles, expired, requests, loggedOut>>
  <2>1. r \in Request /\ RequestOK(r) /\ Pending(s) /\ r.loaded # None /\ r.step = "save" /\ Finish(s)
    BY SlotFacts DEF SaveSession
  <2>2. r.kind \in {"refreshToken", "switchProfile"} /\ RowOK(r.loaded) /\ r.session # None
    BY <2>1 DEF RequestOK, Guarded
  <2>3. n \in SessionIds /\ r.loaded \in Row /\ r.id \in Secrets
    BY <2>1, <2>2 DEF Request, SessionIds, Secrets
  <2> QED BY <2>1, <2>2, <2>3 DEF SaveSession
<1>2. /\ Idle \in Request /\ RequestOK(Idle) /\ Idle.loaded = None /\ Idle.session = None
      /\ Continues(s, Idle) /\ slot' = [slot EXCEPT ![s] = Idle]
  BY <1>1, IdleOK DEF Idle, Finish, Continues
<1>3. CASE row.currentProfileId \notin Existing
  <2>1. UNCHANGED <<rows, lapsed, access, refresh, latest, raced>>
    BY <1>3 DEF SaveSession, Tokens
  <2> QED BY <1>1, <2>1, SameProfiles, FinishStep
<1>4. CASE row.currentProfileId \in Existing
  <2>1. /\ rows' = [rows EXCEPT ![n] = row] /\ lapsed' = lapsed \ {n}
        /\ Issue(n, row.currentProfileId, r.id) /\ Race(s, {n})
    BY <1>4 DEF SaveSession
  <2>2. /\ row \in Row /\ row.sessionType = "WITH_PROFILE" /\ row.currentProfileId # None
        /\ row.refreshTokenHash = r.id /\ row.currentProfileId \in ProfileIds
    <3>1. row.currentProfileId \in ProfileIds /\ row.currentProfileId # None
      BY <1>4, SessionsAssumption DEF Existing
    <3>2. /\ row \in Row /\ row.refreshTokenHash = r.id /\ row.sessionType = r.loaded.sessionType
          /\ row.currentProfileId = IF r.kind = "switchProfile" THEN r.target ELSE r.loaded.currentProfileId
      BY <1>1 DEF Rotated, Row, Request
    <3> HIDE DEF row
    <3>3. row.sessionType = "WITH_PROFILE"
      BY <1>1, <3>1, <3>2 DEF RequestOK, RowOK
    <3> QED BY <3>1, <3>2, <3>3
  <2> HIDE DEF row
  <2>3. /\ access' = access \cup {<<n, row.currentProfileId>>}
        /\ refresh' = refresh \cup {<<n, r.id>>}
        /\ latest' = [latest EXCEPT ![n] = [profile |-> row.currentProfileId, secret |-> r.id]]
    BY <1>1, <2>1, SessionsAssumption DEF Issue, Secrets, SessionIds
  <2>4. /\ slot' \in [Slots -> Request] /\ slot'[s] = Idle
        /\ \A t \in Slots \ {s} : slot'[t] = slot[t]
        /\ \A t \in Slots : slot'[t].session \in {slot[t].session, None}
        /\ Numbered' /\ Unmade' \subseteq Unmade
    BY <1>1, <1>2, <2>3, SlotNumbers
  <2>5. rows' \in [SessionIds -> Row \cup {None}] /\ rows'[n] = row
        /\ \A x \in SessionIds \ {n} : rows'[x] = rows[x]
    BY <1>1, <2>1, <2>2 DEF SInv, TypeOK
  <2>6. latest'[n] = [profile |-> row.currentProfileId, secret |-> r.id]
        /\ \A x \in SessionIds \ {n} : latest'[x] = latest[x]
    BY <1>1, <2>3 DEF SInv, TypeOK
  <2>7. RowOK(row) /\ \A x \in SessionIds : rows'[x] # None => RowOK(rows'[x])
    <3>1. RowOK(row)
      BY <2>2 DEF RowOK
    <3> QED BY <2>5, <3>1 DEF SInv, RowsOK
  <2>8. raced \subseteq raced' /\ raced' \subseteq SessionIds
        /\ \A t \in Slots \ {s} : slot[t].loaded # None /\ slot[t].session = n => n \in raced'
    BY <1>1, <2>1 DEF Race, CopiedBesides, SInv, TypeOK
  <2>9. TypeOK'
    <3>1. latest' \in [SessionIds -> [profile : ProfileIds \cup {None}, secret : Secrets \cup {None}]]
      BY <1>1, <2>2, <2>3 DEF SInv, TypeOK
    <3>2. /\ access' \subseteq SessionIds \X (ProfileIds \cup {None})
          /\ refresh' \subseteq SessionIds \X Secrets /\ lapsed' \subseteq SessionIds
      BY <1>1, <2>1, <2>2, <2>3 DEF SInv, TypeOK
    <3> QED BY <1>1, <2>4, <2>5, <2>7, <2>8, <3>1, <3>2 DEF SInv, TypeOK, RowOK
  <2>10. FreshInv'
    <3> SUFFICES ASSUME NEW x \in Unmade' PROVE Fresh(x)'
      BY DEF FreshInv
    <3>1. Fresh(x) /\ x # None /\ x \in SessionIds /\ x # n
      BY <2>4, SessionsAssumption DEF SInv, FreshInv, Unmade, Fresh
    <3> QED BY <1>1, <2>3, <2>4, <2>5, <3>1 DEF Fresh
  <2>11. RowsOK' /\ LatestTokensWork'
    BY <2>2, <2>5, <2>6, <2>7 DEF SInv, RowsOK, LatestTokensWork, Active
  <2>12. KeyHolds'
    BY <1>1, <1>4, <2>5 DEF SInv, KeyHolds, Existing
  <2>13. LogoutHolds'
    <3>1. n \notin loggedOut' \ raced'
      BY <1>1, <2>8 DEF SInv, LogoutHolds
    <3>2. \A x \in Active' : x = n \/ x \in Active
      BY <2>5 DEF Active
    <3> QED BY <1>1, <1>2, <2>4, <2>8, <3>1, <3>2 DEF SInv, LogoutHolds
  <2>14. ASSUME NEW t \in Slots PROVE RequestOK(slot[t])' /\ ChosenFor(slot[t])'
    <3>1. CASE t = s
      BY <1>2, <2>4, <3>1, SessionsAssumption DEF RequestOK, RowOK, ChosenFor, Idle
    <3>2. CASE t # s
      <4>1. slot'[t] = slot[t] /\ RequestOK(slot[t]) /\ ChosenFor(slot[t]) /\ slot[t] \in Request
        BY <2>4, <3>2 DEF SInv, TypeOK
      <4>2. RequestOK(slot[t])'
        BY <4>1 DEF RequestOK, RowOK
      <4>3. slot[t].kind \in Guarded => slot[t].session \in SessionIds
        BY <4>1 DEF RequestOK, Request
      <4> QED BY <2>2, <2>5, <4>1, <4>2, <4>3 DEF ChosenFor
    <3> QED BY <3>1, <3>2
  <2> QED BY <2>4, <2>9, <2>10, <2>11, <2>12, <2>13, <2>14 DEF SInv
<1> QED BY <1>3, <1>4

\* Rows that are closed or removed, while the requests stay as they are or end.
LEMMA ClosingKeeps ==
  ASSUME SInv, slot' \in [Slots -> Request], requests' = requests,
         \A t \in Slots : slot'[t] = slot[t] \/ slot'[t] = Idle,
         rows' \in [SessionIds -> Row \cup {None}],
         \A x \in SessionIds : \/ rows'[x] = rows[x] \/ rows'[x] = None
                               \/ rows[x] # None /\ rows'[x] = LoggedOutRow(rows[x]),
         expired' \subseteq SessionIds, lapsed' \subseteq SessionIds,
         raced \subseteq raced', raced' \subseteq SessionIds, loggedOut' \subseteq SessionIds,
         \A x \in loggedOut' \ loggedOut :
           /\ rows[x] # None /\ ~(rows'[x] # None /\ rows'[x].isActive)
           /\ \A t \in Slots : slot'[t].loaded # None /\ slot'[t].session = x => x \in raced',
         UNCHANGED <<profiles, access, refresh, latest>>
  PROVE  SInv'
<1>1. \A t \in Slots : /\ Pending(t)' => slot'[t] = slot[t]
                       /\ slot'[t].session \in {slot[t].session, None}
                       /\ slot'[t].loaded # None => slot'[t] = slot[t]
  BY DEF Pending, Idle
<1>2. ASSUME NEW x \in SessionIds, rows'[x] # None
      PROVE  /\ rows[x] # None /\ rows'[x].sessionType = rows[x].sessionType
             /\ rows'[x].currentProfileId = rows[x].currentProfileId
             /\ rows'[x].isActive => rows'[x] = rows[x]
  <2>1. rows[x] # None => rows[x] \in Row
    BY DEF SInv, TypeOK
  <2> QED BY <1>2, <2>1 DEF LoggedOutRow, Row
<1>3. RowsOK' /\ \A x \in SessionIds : rows'[x] # None => RowOK(rows'[x])
  BY <1>2 DEF SInv, RowsOK, RowOK
<1>4. TypeOK'
  BY <1>3 DEF SInv, TypeOK, RowOK
<1>5. Numbered'
  BY <1>1 DEF SInv, Numbered, Pending
<1>6. Unmade' \subseteq Unmade
  BY <1>1 DEF Unmade, Pending, Entered
<1>7. FreshInv'
  <2> SUFFICES ASSUME NEW x \in Unmade' PROVE Fresh(x)'
    BY DEF FreshInv
  <2>1. Fresh(x) /\ x # None /\ x \in SessionIds
    BY <1>6, SessionsAssumption DEF SInv, FreshInv, Unmade
  <2> QED BY <1>1, <1>2, <2>1 DEF Fresh
<1>8. Active' \subseteq Active /\ \A x \in Active' : rows'[x] = rows[x]
  BY <1>2 DEF Active
<1>9. LatestTokensWork'
  BY <1>8 DEF SInv, LatestTokensWork
<1>10. KeyHolds'
  BY <1>2 DEF SInv, KeyHolds, Existing
<1>11. LogoutHolds'
  <2>1. \A x \in Active' : x \notin loggedOut' \ raced'
    BY <1>8 DEF SInv, LogoutHolds, Active
  <2> QED BY <1>1, <2>1 DEF SInv, LogoutHolds
<1>12. ASSUME NEW t \in Slots PROVE RequestOK(slot[t])' /\ ChosenFor(slot[t])'
  <2>1. CASE slot'[t] = Idle
    BY <2>1, IdleOK, SessionsAssumption DEF RequestOK, RowOK, ChosenFor, Idle
  <2>2. CASE slot'[t] = slot[t]
    <3>1. RequestOK(slot[t]) /\ ChosenFor(slot[t]) /\ slot[t] \in Request
      BY DEF SInv, TypeOK
    <3>2. RequestOK(slot[t])'
      BY <2>2, <3>1 DEF RequestOK, RowOK
    <3>3. slot[t].kind \in Guarded => slot[t].session \in SessionIds
      BY <3>1 DEF RequestOK, Request
    <3> QED BY <1>2, <2>2, <3>1, <3>2, <3>3 DEF ChosenFor
  <2> QED BY <2>1, <2>2
<1> QED BY <1>3, <1>4, <1>5, <1>7, <1>9, <1>10, <1>11, <1>12 DEF SInv

LEMMA LogoutKeeps ==
  ASSUME SInv, NEW s \in Slots, Logout(s)
  PROVE  SInv'
<1> DEFINE ended == {x \in Ended(slot[s]) : rows[x] # None}
<1>1. /\ rows' = [x \in SessionIds |-> IF x \in ended THEN LoggedOutRow(rows[x]) ELSE rows[x]]
      /\ loggedOut' = loggedOut \cup ended /\ Race(s, ended) /\ slot' = [slot EXCEPT ![s] = Idle]
      /\ UNCHANGED <<profiles, expired, lapsed, requests, access, refresh, latest>>
  BY DEF Logout, Finish, Clock, Tokens
<1>2. ended \subseteq SessionIds /\ \A x \in ended : rows[x] # None
  <2>1. slot[s] \in Request /\ (slot[s].kind = "logout" => slot[s].session # None)
    BY SlotFacts DEF RequestOK, Guarded
  <2>2. Active \subseteq SessionIds
    BY DEF Active
  <2>3. Ended(slot[s]) \subseteq SessionIds
    BY <2>1, <2>2 DEF Logout, Ended, Request
  <2> QED BY <2>3
<1> HIDE DEF ended
<1>3. slot' \in [Slots -> Request] /\ slot'[s] = Idle /\ \A t \in Slots \ {s} : slot'[t] = slot[t]
  BY <1>1, IdleOK DEF SInv, TypeOK
<1>4. \A x \in ended : LoggedOutRow(rows[x]) \in Row /\ ~LoggedOutRow(rows[x]).isActive
  BY <1>2 DEF SInv, TypeOK, Row, LoggedOutRow
<1>5. rows' \in [SessionIds -> Row \cup {None}]
  BY <1>1, <1>4 DEF SInv, TypeOK
<1>6. raced \subseteq raced' /\ raced' \subseteq SessionIds /\ loggedOut' \subseteq SessionIds
  BY <1>1, <1>2 DEF Race, SInv, TypeOK
<1>7. \A x \in loggedOut' \ loggedOut :
        /\ rows[x] # None /\ ~(rows'[x] # None /\ rows'[x].isActive)
        /\ \A t \in Slots : slot'[t].loaded # None /\ slot'[t].session = x => x \in raced'
  <2> SUFFICES ASSUME NEW x \in ended
               PROVE  /\ rows[x] # None /\ ~(rows'[x] # None /\ rows'[x].isActive)
                      /\ \A t \in Slots : slot'[t].loaded # None /\ slot'[t].session = x => x \in raced'
    BY <1>1
  <2>1. \A t \in Slots : slot'[t].loaded # None => t # s /\ slot'[t] = slot[t]
    BY <1>3 DEF Idle
  <2> QED BY <1>1, <1>2, <1>4, <2>1 DEF Race, CopiedBesides
<1>8. \A x \in SessionIds : \/ rows'[x] = rows[x]
                            \/ rows[x] # None /\ rows'[x] = LoggedOutRow(rows[x])
  BY <1>1, <1>2
<1> QED BY <1>1, <1>3, <1>5, <1>6, <1>7, <1>8, ClosingKeeps DEF SInv, TypeOK

LEMMA TimeKeeps ==
  ASSUME SInv, CleanUpExpiredSessions \/ \E x \in SessionIds : Expire(x) \/ Lapse(x)
  PROVE  SInv'
<1>1. UNCHANGED <<profiles, slot, requests, access, refresh, latest, loggedOut, raced>>
  BY DEF CleanUpExpiredSessions, Expire, Lapse, Clock, Tokens
<1>2. /\ rows' \in [SessionIds -> Row \cup {None}] /\ expired' \subseteq SessionIds
      /\ lapsed' \subseteq SessionIds /\ \A x \in SessionIds : rows'[x] = rows[x] \/ rows'[x] = None
  BY DEF CleanUpExpiredSessions, Expire, Lapse, Clock, SInv, TypeOK
<1> QED BY <1>1, <1>2, ClosingKeeps DEF SInv, TypeOK

(***************************************************************************)
(* Every behaviour.                                                        *)
(***************************************************************************)
LEMMA InitKeeps ==
  ASSUME Init
  PROVE  SInv
<1>1. /\ 0 \in SessionIds /\ 0 \in Secrets /\ Main \in ProfileIds /\ Kids \in ProfileIds
      /\ Main # Kids /\ None \notin ProfileIds
  BY SessionsAssumption DEF SessionIds, Secrets, ProfileIds, Main, Kids
<1>2. PICK signedUp \in BOOLEAN :
        /\ profiles = [p \in ProfileIds |->
             IF signedUp /\ p = Main THEN DefaultName
             ELSE IF signedUp /\ p = Kids THEN KidsName ELSE None]
        /\ rows = [x \in SessionIds |->
             IF signedUp /\ x = 0
             THEN [isActive |-> TRUE, sessionType |-> "WITH_PROFILE",
                   currentProfileId |-> Main, refreshTokenHash |-> 0]
             ELSE None]
        /\ access = IF signedUp THEN {<<0, Main>>} ELSE {}
        /\ refresh = IF signedUp THEN {<<0, 0>>} ELSE {}
        /\ latest = [x \in SessionIds |-> IF signedUp /\ x = 0
                                          THEN [profile |-> Main, secret |-> 0] ELSE NoAnswer]
  BY DEF Init
<1>3. /\ expired = {} /\ lapsed = {} /\ slot = [s \in Slots |-> Idle] /\ requests = 0
      /\ loggedOut = {} /\ raced = {}
  BY DEF Init
<1>4. \A s \in Slots : slot[s] = Idle /\ ~Pending(s)
  BY <1>3 DEF Pending
<1>5. \A x \in SessionIds : rows[x] # None =>
        /\ rows[x] \in Row /\ rows[x].isActive /\ rows[x].sessionType = "WITH_PROFILE" /\ x = 0
        /\ rows[x].currentProfileId = Main /\ rows[x].refreshTokenHash = 0 /\ Main \in Existing
        /\ latest[x].profile = Main /\ latest[x].secret = 0
  BY <1>1, <1>2, SessionsAssumption DEF Row, Existing
<1>6. TypeOK
  <2>1. profiles \in [ProfileIds -> Names \cup {None}]
    BY <1>2, SessionsAssumption
  <2>2. rows \in [SessionIds -> Row \cup {None}]
    BY <1>1, <1>2 DEF Row
  <2>3. latest \in [SessionIds -> [profile : ProfileIds \cup {None}, secret : Secrets \cup {None}]]
    BY <1>1, <1>2 DEF NoAnswer
  <2>4. access \subseteq SessionIds \X (ProfileIds \cup {None}) /\ refresh \subseteq SessionIds \X Secrets
    BY <1>1, <1>2
  <2>5. slot \in [Slots -> Request] /\ requests \in 0..MaxRequests
    BY <1>3, IdleOK, SessionsAssumption
  <2> QED BY <1>1, <1>3, <1>5, <2>1, <2>2, <2>3, <2>4, <2>5 DEF TypeOK
<1>7. Numbered
  BY <1>2, <1>3, <1>4 DEF Numbered
<1>8. FreshInv
  <2>1. \A x \in Unmade : x # 0 /\ x \in SessionIds /\ x # None
    BY <1>3, <1>4, SessionsAssumption DEF Unmade, SessionIds
  <2>2. \A s \in Slots : slot[s].session = None
    BY <1>4 DEF Idle
  <2> QED BY <1>2, <1>3, <2>1, <2>2 DEF FreshInv, Fresh
<1>9. RowsOK /\ KeyHolds /\ LatestTokensWork
  BY <1>1, <1>5 DEF RowsOK, RowOK, KeyHolds, LatestTokensWork, Active
<1>10. LogoutHolds
  BY <1>3 DEF LogoutHolds
<1>11. \A s \in Slots : RequestOK(slot[s]) /\ ChosenFor(slot[s])
  BY <1>4, IdleOK, SessionsAssumption DEF ChosenFor, Idle
<1> QED BY <1>6, <1>7, <1>8, <1>9, <1>10, <1>11 DEF SInv

LEMMA NextKeeps ==
  ASSUME SInv, [Next]_vars
  PROVE  SInv'
<1>1. CASE UNCHANGED vars
  <2>1. UNCHANGED <<profiles, rows, expired, lapsed, slot, requests, access, refresh,
                    latest, loggedOut, raced>>
    BY <1>1 DEF vars
  <2> QED BY <2>1, ClosingKeeps DEF SInv, TypeOK
<1>2. CASE Next
  BY <1>2, ArrivalsKeep, CreateDefaultsKeeps, AuthGuardKeeps, ChooseProfileKeeps, CreateKeeps,
     LoadKeeps, SaveSessionKeeps, LogoutKeeps, LookingKeeps, ProfilesKeep, TimeKeeps DEF Next
<1> QED BY <1>1, <1>2

THEOREM SessionsInvariant == Spec => []SInv
<1> QED BY InitKeeps, NextKeeps, PTL DEF Spec

\* The state always has its types; in particular a session has a profile exactly
\* if it has chosen one.
THEOREM SessionsTypeCorrect == Spec => []TypeOK
<1>1. SInv => TypeOK
  BY DEF SInv
<1> QED BY <1>1, SessionsInvariant, PTL

\* The two tokens of a session's last answer are those it accepts, however
\* refreshes, switches and logouts overlapped.
THEOREM TokensWork == Spec => []LatestTokensWork
<1>1. SInv => LatestTokensWork
  BY DEF SInv
<1> QED BY <1>1, SessionsInvariant, PTL

\* No two devices delete each other's profiles away.
THEOREM ProfileKept == Spec => []SessionKeepsItsProfile
<1>1. SInv => SessionKeepsItsProfile
  BY DEF SInv, TypeOK, KeyHolds, SessionKeepsItsProfile, Active
<1> QED BY <1>1, SessionsInvariant, PTL

\* Who writes a secret into a row.
LEMMA NewSecret ==
  ASSUME SInv, [Next]_vars, NEW x \in SessionIds, rows[x] # None, rows'[x] # None
  PROVE  \/ rows'[x].refreshTokenHash \in {rows[x].refreshTokenHash, None}
         \/ <<x, rows'[x].refreshTokenHash>> \notin refresh
<1>1. rows \in [SessionIds -> Row \cup {None}] /\ rows[x] \in Row
  BY DEF SInv, TypeOK
<1>2. CASE UNCHANGED rows
  BY <1>2
<1>3. ASSUME NEW s \in Slots, SaveSession(s), ~UNCHANGED rows
      PROVE  \/ rows'[x].refreshTokenHash \in {rows[x].refreshTokenHash, None}
             \/ <<x, rows'[x].refreshTokenHash>> \notin refresh
  <2>1. /\ rows' = [rows EXCEPT ![slot[s].session] = Rotated(slot[s])]
        /\ slot[s].loaded \in Row /\ Pending(s)
    BY <1>3, SlotFacts DEF SaveSession, Request
  <2>2. Rotated(slot[s]).refreshTokenHash = slot[s].id
    BY <2>1 DEF Rotated, Row
  <2>3. <<x, slot[s].id>> \notin refresh
    BY <2>1 DEF SInv, Numbered
  <2>4. rows'[x] = rows[x] \/ rows'[x].refreshTokenHash = slot[s].id
    BY <1>1, <2>1, <2>2
  <2> QED BY <2>3, <2>4
<1>4. ASSUME NEW s \in Slots, CreatePreProfileSession(s) \/ CreateSession(s)
      PROVE  \/ rows'[x].refreshTokenHash \in {rows[x].refreshTokenHash, None}
             \/ <<x, rows'[x].refreshTokenHash>> \notin refresh
  <2>1. slot[s].id \in Unmade
    BY <1>4, SlotFacts DEF CreatePreProfileSession, CreateSession, Unmade, Entered, Request
  <2>2. x # slot[s].id
    BY <2>1 DEF SInv, FreshInv, Fresh
  <2>3. rows'[x] = rows[x]
    BY <1>1, <1>4, <2>2 DEF CreatePreProfileSession, CreateSession
  <2> QED BY <2>3
<1>5. ASSUME NEW s \in Slots, Logout(s)
      PROVE  rows'[x].refreshTokenHash \in {rows[x].refreshTokenHash, None}
  <2>1. rows'[x] = rows[x] \/ rows'[x] = LoggedOutRow(rows[x])
    BY <1>5 DEF Logout
  <2> QED BY <1>1, <2>1 DEF LoggedOutRow, Row
<1>6. CASE CleanUpExpiredSessions
  BY <1>6 DEF CleanUpExpiredSessions
<1>7. ASSUME NEW s \in Slots,
             \/ ArriveGuarded(s) \/ ArriveRefresh(s) \/ ArriveLogin(s)
             \/ CreateDefaults(s) \/ AuthGuard(s) \/ ChooseProfile(s)
             \/ RefreshToken(s) \/ SwitchProfile(s)
             \/ CreateProfile(s) \/ SaveNewProfile(s) \/ UpdateProfile(s) \/ SaveProfile(s)
             \/ DeleteProfile(s) \/ RemoveProfile(s) \/ DeleteAccount(s) \/ Die(s)
      PROVE  UNCHANGED rows
  BY <1>7 DEF ArriveGuarded, ArriveRefresh, ArriveLogin, Arrive, CreateDefaults, CreateDefault,
     AuthGuard, ChooseProfile, RefreshToken, SwitchProfile, CreateProfile, SaveNewProfile,
     UpdateProfile, SaveProfile, DeleteProfile, RemoveProfile, DeleteAccount, Die
<1>8. ASSUME NEW y \in SessionIds, Expire(y) \/ Lapse(y) PROVE UNCHANGED rows
  BY <1>8 DEF Expire, Lapse
<1> QED BY <1>2, <1>3, <1>4, <1>5, <1>6, <1>7, <1>8 DEF Next, vars

\* A refresh token that was replaced or revoked never becomes the valid one of
\* its session again.
THEOREM SpentStaysSpent == Spec => SpentTokenStaysSpent
<1>1. SInv /\ [Next]_vars =>
        [\A x \in SessionIds : rows[x] # None /\ rows'[x] # None =>
           \/ rows'[x].refreshTokenHash \in {rows[x].refreshTokenHash, None}
           \/ <<x, rows'[x].refreshTokenHash>> \notin refresh]_vars
  BY NewSecret
<1> QED BY <1>1, SessionsInvariant, PTL DEF Spec, SpentTokenStaysSpent

\* Nobody gets past the guard but by the guard.
LEMMA OnlyGuardAdmits ==
  ASSUME SInv, [Next]_vars, NEW s \in Slots, slot[s].step = "guard", slot'[s].step = "handle"
  PROVE  AuthGuard(s)
<1>1. slot \in [Slots -> Request] /\ slot'[s] # slot[s]
  BY DEF SInv, TypeOK
<1>2. ASSUME NEW t \in Slots, ArriveGuarded(t) \/ ArriveRefresh(t) \/ ArriveLogin(t)
      PROVE  slot[t] = Idle /\ \E r : slot' = [slot EXCEPT ![t] = r]
  BY <1>2 DEF ArriveGuarded, ArriveRefresh, ArriveLogin, Arrive
<1>3. ASSUME NEW t \in Slots,
             \/ CreateDefaults(t) \/ ChooseProfile(t) \/ CreatePreProfileSession(t)
             \/ CreateSession(t) \/ RefreshToken(t) \/ SwitchProfile(t)
             \/ SaveSession(t) \/ Logout(t) \/ CreateProfile(t) \/ SaveNewProfile(t)
             \/ UpdateProfile(t) \/ SaveProfile(t) \/ DeleteProfile(t) \/ RemoveProfile(t)
             \/ DeleteAccount(t) \/ Die(t)
      PROVE  slot[t].step # "guard" /\ \E r : slot' = [slot EXCEPT ![t] = r]
  <2>1. CASE CreateDefaults(t) \/ ChooseProfile(t)
    BY <2>1 DEF CreateDefaults, CreateDefault, ChooseProfile, Goto, Finish
  <2>2. CASE CreatePreProfileSession(t) \/ CreateSession(t)
    BY <2>2 DEF CreatePreProfileSession, CreateSession, Goto, Finish
  <2>3. CASE RefreshToken(t) \/ SwitchProfile(t) \/ SaveSession(t) \/ Logout(t)
    BY <2>3 DEF RefreshToken, SwitchProfile, SaveSession, Logout, LoadFor, Goto, Finish
  <2>4. CASE CreateProfile(t) \/ SaveNewProfile(t) \/ UpdateProfile(t) \/ SaveProfile(t)
    BY <2>4 DEF CreateProfile, SaveNewProfile, UpdateProfile, SaveProfile, Goto, Finish
  <2>5. CASE DeleteProfile(t) \/ RemoveProfile(t) \/ DeleteAccount(t) \/ Die(t)
    BY <2>5 DEF DeleteProfile, RemoveProfile, DeleteAccount, Die, Goto, Finish
  <2> QED BY <1>3, <2>1, <2>2, <2>3, <2>4, <2>5
<1>4. ASSUME NEW t \in Slots, AuthGuard(t) PROVE \E r : slot' = [slot EXCEPT ![t] = r]
  BY <1>4 DEF AuthGuard, Goto, Finish
<1>5. ASSUME NEW t \in Slots, \E r : slot' = [slot EXCEPT ![t] = r] PROVE t = s
  BY <1>1, <1>5
<1>6. Idle.step # "guard"
  BY DEF Idle
<1>7. ~CleanUpExpiredSessions /\ ~\E x \in SessionIds : Expire(x) \/ Lapse(x)
  BY <1>1 DEF CleanUpExpiredSessions, Expire, Lapse
<1>8. Next
  BY <1>1 DEF vars
<1>9. PICK t \in Slots :
        \/ ArriveGuarded(t) \/ ArriveRefresh(t) \/ ArriveLogin(t)
        \/ CreateDefaults(t) \/ AuthGuard(t)
        \/ ChooseProfile(t) \/ CreatePreProfileSession(t) \/ CreateSession(t)
        \/ RefreshToken(t) \/ SwitchProfile(t) \/ SaveSession(t) \/ Logout(t)
        \/ CreateProfile(t) \/ SaveNewProfile(t) \/ UpdateProfile(t) \/ SaveProfile(t)
        \/ DeleteProfile(t) \/ RemoveProfile(t) \/ DeleteAccount(t) \/ Die(t)
  BY <1>7, <1>8 DEF Next
<1> QED BY <1>2, <1>3, <1>4, <1>5, <1>6, <1>9

\* A session that was logged out admits nobody any more, unless a copy of it was
\* in flight; and only the token of its present profile is admitted.
THEOREM CurrentAdmitted == Spec => AdmittedIsCurrent
<1>1. ASSUME SInv, [Next]_vars, NEW s \in Slots, slot[s].step = "guard", slot'[s].step = "handle"
      PROVE  /\ slot[s].session \notin loggedOut \ raced
             /\ rows[slot[s].session].sessionType = "WITH_PROFILE" =>
                  slot[s].profile = latest[slot[s].session].profile
  <2> DEFINE x == slot[s].session
  <2>1. Admits(x, slot[s].profile, slot[s].kind = "loginWithProfile")
    BY <1>1, OnlyGuardAdmits DEF AuthGuard, Goto, Finish, Idle, SInv, TypeOK
  <2>2. x \in SessionIds /\ rows[x] \in Row \cup {None}
    BY <1>1, SlotFacts DEF RequestOK, Request, SInv, TypeOK
  <2>3. x \in Active
    BY <2>1, <2>2 DEF Admits, Active
  <2>4. rows[x].sessionType = "WITH_PROFILE" => slot[s].profile = rows[x].currentProfileId
    BY <2>1 DEF Admits
  <2> QED BY <1>1, <2>3, <2>4 DEF SInv, LogoutHolds, LatestTokensWork
<1>2. SInv /\ [Next]_vars =>
        [\A s \in Slots :
           LET r == slot[s] IN
           r.step = "guard" /\ slot'[s].step = "handle" =>
             /\ r.session \notin loggedOut \ raced
             /\ rows[r.session].sessionType = "WITH_PROFILE" => r.profile = latest[r.session].profile]_vars
  BY <1>1
<1> QED BY <1>2, SessionsInvariant, PTL DEF Spec, AdmittedIsCurrent
===============================================================================
