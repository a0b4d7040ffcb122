------------------------------- MODULE Sessions -------------------------------
(***************************************************************************)
(* The sessions and profiles of one user: login, the guard in front of     *)
(* every other request, the rotation of refresh tokens, logging out, and   *)
(* the operations on profiles (auth.service.ts, auth.guard.ts,             *)
(* user.service.ts).                                                       *)
(*                                                                         *)
(* refreshToken and switchProfile load a session, wait for a hash, and     *)
(* write back every column of what they loaded; the others are single      *)
(* statements.  A request in flight keeps what it loaded.                  *)
(***************************************************************************)
EXTENDS Naturals, FiniteSets

CONSTANTS
  Slots,          \* requests in flight at once
  MaxRequests,    \* bound: requests in a behaviour
  Names,          \* profile names
  DefaultName, KidsName,  \* the names ensureUserProfile gives
  MaxProfiles,    \* 5 in the code
  None

VARIABLES
  profiles,   \* the profile table: the name of each row
  rows,       \* the session table
  expired,    \* sessions past their expiresAt
  lapsed,     \* sessions past their refreshTokenExpiresAt
  slot,       \* the requests in flight
  requests,   \* how many were made
  access,     \* access tokens ever issued: session and profile
  refresh,    \* refresh tokens ever issued: session and secret
  latest,     \* history: what the last answer of each session said
  loggedOut,  \* history: sessions that were logged out
  raced       \* history: sessions written while another request held a copy

vars == <<profiles, rows, expired, lapsed, slot, requests, access, refresh,
          latest, loggedOut, raced>>

\* A request's number names the session, the secret and the profile it makes;
\* ensureUserProfile makes two, and the negative of a number is the second.
Secrets == 0..MaxRequests
SessionIds == 0..MaxRequests
ProfileIds == (0..MaxRequests) \X {"main", "kids"}

\* refreshTokenHash and refreshTokenExpiresAt are null together.
Row == [isActive : BOOLEAN, sessionType : {"PRE_PROFILE", "WITH_PROFILE"},
        currentProfileId : ProfileIds \cup {None}, refreshTokenHash : Secrets \cup {None}]

Guarded == {"loginWithProfile", "switchProfile", "createProfile", "updateProfile",
            "deleteProfile", "logout", "logoutAll", "logoutAllExceptCurrent",
            "logoutSpecificSession", "deleteAccount"}
Kinds == Guarded \cup {"login", "adminLogin", "refreshToken"}
Steps == {"idle", "main", "kids", "guard", "handle", "remove", "insert", "save"}

\* id: the request's number.  session, profile: of its token.  target: the
\* profile it names.  other: the session, or the secret, it names.  name: of a
\* profile.  loaded: a session row.
Idle == [kind |-> None, step |-> "idle", id |-> 0, session |-> None, profile |-> None,
         target |-> None, other |-> None, name |-> None, loaded |-> None]

Request == [kind : Kinds \cup {None}, step : Steps, id : SessionIds,
            session : SessionIds \cup {None}, profile : ProfileIds \cup {None},
            target : ProfileIds \cup {None}, other : SessionIds \cup {None},
            name : Names \cup {None}, loaded : Row \cup {None}]

ASSUME SessionsAssumption ==
  /\ MaxRequests \in Nat /\ MaxProfiles \in Nat
  /\ DefaultName \in Names /\ KidsName \in Names /\ DefaultName # KidsName
  /\ None \notin Names \cup Row \cup SessionIds \cup ProfileIds \cup Kinds

TypeOK ==
  /\ profiles \in [ProfileIds -> Names \cup {None}]
  /\ rows \in [SessionIds -> Row \cup {None}]
  /\ expired \subseteq SessionIds /\ lapsed \subseteq SessionIds
  /\ slot \in [Slots -> Request]
  /\ requests \in 0..MaxRequests
  /\ access \subseteq SessionIds \X (ProfileIds \cup {None})
  /\ refresh \subseteq SessionIds \X Secrets
  /\ latest \in [SessionIds -> [profile : ProfileIds \cup {None}, secret : Secrets \cup {None}]]
  /\ loggedOut \subseteq SessionIds /\ raced \subseteq SessionIds
  /\ \A x \in SessionIds : rows[x] # None =>
       (rows[x].sessionType = "WITH_PROFILE") = (rows[x].currentProfileId # None)

Main == <<0, "main">>
Kids == <<0, "kids">>
NoAnswer == [profile |-> None, secret |-> None]

\* A new user without profiles, or one who has signed up.
Init ==
  /\ \E signedUp \in BOOLEAN :
       /\ profiles = [p \in ProfileIds |->
            IF signedUp /\ p = Main THEN DefaultName
            ELSE IF signedUp /\ p = Kids THEN KidsName ELSE None]
       /\ rows = [x \in SessionIds |->
            IF signedUp /\ x = 0
            THEN [isActive |-> TRUE, sessionType |-> "WITH_PROFILE",
                  currentProfileId |-> Main, refreshTokenHash |-> 0]
            ELSE None]
       /\ access = IF signedUp THEN {<<0, Main>>} ELSE {}
       /\ refresh = IF signedUp THEN {<<0, 0>>} ELSE {}
       /\ latest = [x \in SessionIds |-> IF signedUp /\ x = 0
                                         THEN [profile |-> Main, secret |-> 0] ELSE NoAnswer]
  /\ expired = {} /\ lapsed = {}
  /\ slot = [s \in Slots |-> Idle]
  /\ requests = 0
  /\ loggedOut = {} /\ raced = {}

Tokens == <<access, refresh, latest>>
Clock == <<expired, lapsed>>
Goto(s, step) == slot' = [slot EXCEPT ![s].step = step]
Finish(s) == slot' = [slot EXCEPT ![s] = Idle]

Existing == {p \in ProfileIds : profiles[p] # None}
Active == {x \in SessionIds : rows[x] # None /\ rows[x].isActive}

\* Sessions of which a request other than s holds a copy it is going to write.
CopiedBesides(s) == {slot[t].session : t \in {u \in Slots \ {s} : slot[u].loaded # None}}
Race(s, xs) == raced' = raced \cup (xs \cap CopiedBesides(s))

(***************************************************************************)
(* A request arrives.                                                      *)
(***************************************************************************)
Arrive(s, r) ==
  /\ slot[s] = Idle
  /\ requests < MaxRequests
  /\ requests' = requests + 1
  /\ slot' = [slot EXCEPT ![s] = [r EXCEPT !.id = requests + 1]]
  /\ UNCHANGED <<profiles, rows, Clock, Tokens, loggedOut, raced>>

\* findOne reads the profiles, and makes the two default ones of a user who
\* has none: every guarded request may find itself doing that.
AfterRead(kind) ==
  CASE kind \in Guarded -> "guard"
    [] kind = "adminLogin" -> "handle"
    [] kind = "login" -> "idle"

EnsureUserProfile(kind) == IF Existing = {} THEN "main" ELSE AfterRead(kind)

\* An access token of any age, with whatever the request is about.
ArriveGuarded(s) ==
  \E token \in access, kind \in Guarded :
    \E target \in IF kind \in {"loginWithProfile", "switchProfile", "updateProfile", "deleteProfile"}
                  THEN Existing ELSE {None},
       other \in IF kind = "logoutSpecificSession" THEN Active ELSE {None},
       name \in IF kind \in {"createProfile", "updateProfile"} THEN Names ELSE {None} :
      Arrive(s, [Idle EXCEPT !.kind = kind, !.step = EnsureUserProfile(kind), !.session = token[1],
                             !.profile = token[2], !.target = target, !.other = other,
                             !.name = name])

ArriveRefresh(s) ==
  \E token \in refresh :
    Arrive(s, [Idle EXCEPT !.kind = "refreshToken", !.step = "handle",
                           !.session = token[1], !.other = token[2]])

\* The password was right: login makes its session before it reads the
\* profiles, adminLogin and signUp after.
ArriveLogin(s) ==
  \/ Arrive(s, [Idle EXCEPT !.kind = "login", !.step = "insert"])
  \/ Arrive(s, [Idle EXCEPT !.kind = "adminLogin", !.step = EnsureUserProfile("adminLogin")])

\* The unique index on the name refuses a second profile of it.
Taken(name) == \E p \in Existing : profiles[p] = name

InsertProfile(p, name) == profiles' = [profiles EXCEPT ![p] = name]

\* createProfile for one of the two, with its checks.
CreateDefault(s, step, name, next) ==
  /\ slot[s].step = step
  /\ IF Taken(name) \/ Cardinality(Existing) >= MaxProfiles
     THEN Finish(s) /\ UNCHANGED profiles
     ELSE /\ InsertProfile(<<slot[s].id, step>>, name)
          /\ IF next = "idle" THEN Finish(s) ELSE Goto(s, next)
  /\ UNCHANGED <<rows, Clock, requests, Tokens, loggedOut, raced>>

CreateDefaults(s) ==
  \/ CreateDefault(s, "main", DefaultName, "kids")
  \/ CreateDefault(s, "kids", KidsName, AfterRead(slot[s].kind))

(***************************************************************************)
(* The guard.                                                              *)
(***************************************************************************)
\* Faulty variant: the profile of the token is not compared with the session's.
AdmitsAnyProfile(x, p, preProfile) ==
  /\ rows[x] # None /\ rows[x].isActive
  /\ x \notin expired
  /\ IF rows[x].sessionType = "PRE_PROFILE" THEN preProfile ELSE p \in Existing

\* Faulty variant: a session that has not chosen a profile may do anything.
AdmitsAnySession(x, p, preProfile) ==
  /\ rows[x] # None /\ rows[x].isActive
  /\ x \notin expired
  /\ rows[x].sessionType = "PRE_PROFILE" \/ (p \in Existing /\ p = rows[x].currentProfileId)

\* An access token of session x for profile p; preProfile: the endpoint allows
\* a session that has not chosen a profile.
Admits(x, p, preProfile) ==
  /\ rows[x] # None /\ rows[x].isActive
  /\ x \notin expired
  /\ IF rows[x].sessionType = "PRE_PROFILE" THEN preProfile
     ELSE p \in Existing /\ p = rows[x].currentProfileId

AuthGuard(s) ==
  LET r == slot[s] IN
  /\ r.step = "guard"
  /\ IF Admits(r.session, r.profile, r.kind = "loginWithProfile")
     THEN Goto(s, "handle") ELSE Finish(s)
  /\ UNCHANGED <<profiles, rows, Clock, requests, Tokens, loggedOut, raced>>

(***************************************************************************)
(* Making sessions.                                                        *)
(***************************************************************************)
\* loginWithProfile finds its profile again; adminLogin takes any.
ChooseProfile(s) ==
  LET r == slot[s] IN
  /\ r.step = "handle"
  /\ \/ /\ r.kind = "adminLogin"
        /\ \E p \in Existing : slot' = [slot EXCEPT ![s].step = "insert", ![s].target = p]
     \/ /\ r.kind = "loginWithProfile"
        /\ IF r.target \in Existing THEN Goto(s, "insert") ELSE Finish(s)
  /\ UNCHANGED <<profiles, rows, Clock, requests, Tokens, loggedOut, raced>>

Issue(x, p, secret) ==
  /\ access' = access \cup {<<x, p>>}
  /\ refresh' = IF secret = None THEN refresh ELSE refresh \cup {<<x, secret>>}
  /\ latest' = [latest EXCEPT ![x] = [profile |-> p, secret |-> secret]]

\* createPreProfileSession, after which login reads the profiles.
CreatePreProfileSession(s) ==
  /\ slot[s].kind = "login" /\ slot[s].step = "insert"
  /\ rows' = [rows EXCEPT ![slot[s].id] =
       [isActive |-> TRUE, sessionType |-> "PRE_PROFILE",
        currentProfileId |-> None, refreshTokenHash |-> None]]
  /\ Issue(slot[s].id, None, None)
  /\ IF EnsureUserProfile("login") = "idle" THEN Finish(s) ELSE Goto(s, "main")
  /\ UNCHANGED <<profiles, Clock, requests, loggedOut, raced>>

\* createSession, after a hash; the profile must still be there.
CreateSession(s) ==
  LET r == slot[s] IN
  /\ r.kind \in {"loginWithProfile", "adminLogin"} /\ r.step = "insert"
  /\ IF r.target \notin Existing THEN UNCHANGED <<rows, Tokens>>
     ELSE /\ rows' = [rows EXCEPT ![r.id] =
               [isActive |-> TRUE, sessionType |-> "WITH_PROFILE",
                currentProfileId |-> r.target, refreshTokenHash |-> r.id]]
          /\ Issue(r.id, r.target, r.id)
  /\ Finish(s)
  /\ UNCHANGED <<profiles, Clock, requests, loggedOut, raced>>

(***************************************************************************)
(* Writing a session back.                                                 *)
(***************************************************************************)
LoadFor(s, row) == slot' = [slot EXCEPT ![s].step = "save", ![s].loaded = row]

\* The secret is compared with the hash of an active session.
RefreshToken(s) ==
  LET r == slot[s] IN
  /\ r.kind = "refreshToken" /\ r.step = "handle"
  /\ IF r.session \in Active \ lapsed /\ rows[r.session].refreshTokenHash = r.other
     THEN LoadFor(s, rows[r.session]) ELSE Finish(s)
  /\ UNCHANGED <<profiles, rows, Clock, requests, Tokens, loggedOut, raced>>

SwitchProfile(s) ==
  LET r == slot[s] IN
  /\ r.kind = "switchProfile" /\ r.step = "handle"
  /\ IF r.target \in Existing /\ r.session \in Active
     THEN LoadFor(s, rows[r.session]) ELSE Finish(s)
  /\ UNCHANGED <<profiles, rows, Clock, requests, Tokens, loggedOut, raced>>

\* Faulty variant: the refresh only extends the expiry of its token.
RotatedOnSwitchOnly(r) ==
  IF r.kind = "switchProfile"
  THEN [r.loaded EXCEPT !.currentProfileId = r.target, !.refreshTokenHash = r.id]
  ELSE r.loaded

\* Faulty variant: a switch hands out a secret that it does not store.
RotatedOnRefreshOnly(r) ==
  IF r.kind = "switchProfile" THEN [r.loaded EXCEPT !.currentProfileId = r.target]
  ELSE [r.loaded EXCEPT !.refreshTokenHash = r.id]

\* The row both write: everything as it was loaded, but for a new secret and,
\* by switchProfile, the profile.
Rotated(r) ==
  [r.loaded EXCEPT !.refreshTokenHash = r.id,
                   !.currentProfileId = IF r.kind = "switchProfile" THEN r.target ELSE @]

\* The foreign key refuses a profile that is gone.
SaveSession(s) ==
  LET r == slot[s]
      row == Rotated(r)
  IN
  /\ r.loaded # None /\ r.step = "save"
  /\ IF row.currentProfileId \notin Existing
     THEN UNCHANGED <<rows, lapsed, Tokens, raced>>
     ELSE /\ rows' = [rows EXCEPT ![r.session] = row]
          /\ lapsed' = lapsed \ {r.session}
          /\ Issue(r.session, row.currentProfileId, r.id)
          /\ Race(s, {r.session})
  /\ Finish(s)
  /\ UNCHANGED <<profiles, expired, requests, loggedOut>>

(***************************************************************************)
(* Logging out.                                                            *)
(***************************************************************************)
LoggedOutRow(row) == [row EXCEPT !.isActive = FALSE, !.refreshTokenHash = None]

\* The sessions each of the four ends.
Ended(r) ==
  CASE r.kind = "logout" -> {r.session}
    [] r.kind = "logoutAll" -> Active
    [] r.kind = "logoutAllExceptCurrent" -> Active \ {r.session}
    [] r.kind = "logoutSpecificSession" -> {r.other} \cap Active

Logout(s) ==
  LET ended == {x \in Ended(slot[s]) : rows[x] # None} IN
  /\ slot[s].step = "handle"
  /\ slot[s].kind \in {"logout", "logoutAll", "logoutAllExceptCurrent", "logoutSpecificSession"}
  /\ rows' = [x \in SessionIds |-> IF x \in ended THEN LoggedOutRow(rows[x]) ELSE rows[x]]
  /\ loggedOut' = loggedOut \cup ended
  /\ Race(s, ended)
  /\ Finish(s)
  /\ UNCHANGED <<profiles, Clock, requests, Tokens>>

(***************************************************************************)
(* Profiles.                                                               *)
(***************************************************************************)
CreateProfile(s) ==
  /\ slot[s].kind = "createProfile" /\ slot[s].step = "handle"
  /\ IF Cardinality(Existing) >= MaxProfiles \/ Taken(slot[s].name)
     THEN Finish(s) ELSE Goto(s, "insert")
  /\ UNCHANGED <<profiles, rows, Clock, requests, Tokens, loggedOut, raced>>

\* After the PIN's hash.
SaveNewProfile(s) ==
  /\ slot[s].kind = "createProfile" /\ slot[s].step = "insert"
  /\ IF Taken(slot[s].name) THEN UNCHANGED profiles
     ELSE InsertProfile(<<slot[s].id, "main">>, slot[s].name)
  /\ Finish(s)
  /\ UNCHANGED <<rows, Clock, requests, Tokens, loggedOut, raced>>

TakenByAnother(p, name) == \E q \in Existing \ {p} : profiles[q] = name

UpdateProfile(s) ==
  LET r == slot[s] IN
  /\ r.kind = "updateProfile" /\ r.step = "handle"
  /\ IF r.target \in Existing /\ ~TakenByAnother(r.target, r.name)
     THEN Goto(s, "save") ELSE Finish(s)
  /\ UNCHANGED <<profiles, rows, Clock, requests, Tokens, loggedOut, raced>>

\* A profile deleted in the meantime is inserted again.
SaveProfile(s) ==
  LET r == slot[s] IN
  /\ r.kind = "updateProfile" /\ r.step = "save"
  /\ IF TakenByAnother(r.target, r.name) THEN UNCHANGED profiles
     ELSE InsertProfile(r.target, r.name)
  /\ Finish(s)
  /\ UNCHANGED <<rows, Clock, requests, Tokens, loggedOut, raced>>

\* The caller's own profile is refused, and one that is gone.
DeleteProfile(s) ==
  LET r == slot[s] IN
  /\ r.kind = "deleteProfile" /\ r.step = "handle"
  /\ IF /\ r.session \in Active /\ rows[r.session].currentProfileId # r.target
        /\ r.target \in Existing
     THEN Goto(s, "remove") ELSE Finish(s)
  /\ UNCHANGED <<profiles, rows, Clock, requests, Tokens, loggedOut, raced>>

\* Faulty variant: the key does not hold the profile back.
NeverReferenced(p) == FALSE

\* The foreign key of sessions: any row counts, a logged-out one too.
Referenced(p) == \E x \in SessionIds : rows[x] # None /\ rows[x].currentProfileId = p

RemoveProfile(s) ==
  LET r == slot[s] IN
  /\ r.kind = "deleteProfile" /\ r.step = "remove"
  /\ profiles' = IF Referenced(r.target) THEN profiles
                 ELSE [profiles EXCEPT ![r.target] = None]
  /\ Finish(s)
  /\ UNCHANGED <<rows, Clock, requests, Tokens, loggedOut, raced>>

\* The user row takes its profiles along, but not its sessions: while one is
\* left, the database refuses.
DeleteAccount(s) ==
  /\ slot[s].kind = "deleteAccount" /\ slot[s].step = "handle"
  /\ profiles' = IF \E x \in SessionIds : rows[x] # None THEN profiles
                 ELSE [p \in ProfileIds |-> None]
  /\ Finish(s)
  /\ UNCHANGED <<rows, Clock, requests, Tokens, loggedOut, raced>>

(***************************************************************************)
(* Time, the weekly job, failures.                                         *)
(***************************************************************************)
\* A request is far shorter than any lifetime.
Quiet == \A s \in Slots : slot[s] = Idle

Expire(x) ==
  /\ rows[x] # None /\ x \notin expired /\ Quiet
  /\ expired' = expired \cup {x}
  /\ UNCHANGED <<profiles, rows, lapsed, slot, requests, Tokens, loggedOut, raced>>

\* A refresh token outlives the session's own date.
Lapse(x) ==
  /\ rows[x] # None /\ x \in expired \ lapsed /\ Quiet /\ rows[x].refreshTokenHash # None
  /\ lapsed' = lapsed \cup {x}
  /\ UNCHANGED <<profiles, rows, expired, slot, requests, Tokens, loggedOut, raced>>

\* A logged-out session has no date, so it stays.
CleanUpExpiredSessions ==
  LET due == {x \in lapsed : rows[x] # None /\ rows[x].refreshTokenHash # None} IN
  /\ due # {}
  /\ rows' = [x \in SessionIds |-> IF x \in due THEN None ELSE rows[x]]
  /\ UNCHANGED <<profiles, Clock, slot, requests, Tokens, loggedOut, raced>>

\* A query fails or the server stops; a request that has only been admitted
\* then leaves nothing behind that a refused one does not.
Die(s) ==
  /\ slot[s].step \in {"main", "kids", "insert", "save", "remove"}
  /\ Finish(s)
  /\ UNCHANGED <<profiles, rows, Clock, requests, Tokens, loggedOut, raced>>

Next ==
  \/ \E s \in Slots :
       \/ ArriveGuarded(s) \/ ArriveRefresh(s) \/ ArriveLogin(s)
       \/ CreateDefaults(s) \/ AuthGuard(s)
       \/ ChooseProfile(s) \/ CreatePreProfileSession(s) \/ CreateSession(s)
       \/ RefreshToken(s) \/ SwitchProfile(s) \/ SaveSession(s) \/ Logout(s)
       \/ CreateProfile(s) \/ SaveNewProfile(s) \/ UpdateProfile(s) \/ SaveProfile(s)
       \/ DeleteProfile(s) \/ RemoveProfile(s) \/ DeleteAccount(s) \/ Die(s)
  \/ \E x \in SessionIds : Expire(x) \/ Lapse(x)
  \/ CleanUpExpiredSessions

Spec == Init /\ [][Next]_vars

(***************************************************************************)
(* Properties.                                                             *)
(***************************************************************************)
\* A refresh token that was replaced or revoked never becomes the valid one of
\* its session again, however refreshes, switches and logouts overlap.
SpentTokenStaysSpent ==
  [][\A x \in SessionIds : rows[x] # None /\ rows'[x] # None =>
       \/ rows'[x].refreshTokenHash \in {rows[x].refreshTokenHash, None}
       \/ <<x, rows'[x].refreshTokenHash>> \notin refresh]_vars

\* Unless a refresh or a switch of the same session had read it before it was
\* logged out, a session admits nobody any more; and a token of the profile it
\* had before its last switch is refused, whatever overlapped that.
AdmittedIsCurrent ==
  [][\A s \in Slots :
       LET r == slot[s] IN
       r.step = "guard" /\ slot'[s].step = "handle" =>
         /\ r.session \notin loggedOut \ raced
         /\ rows[r.session].sessionType = "WITH_PROFILE" => r.profile = latest[r.session].profile]_vars

\* The two tokens of a session's last answer are those it accepts, as long as it
\* accepts any, however refreshes, switches and logouts overlapped.
LatestTokensWork ==
  \A x \in Active :
    /\ rows[x].currentProfileId = latest[x].profile
    /\ rows[x].refreshTokenHash = latest[x].secret

\* Two devices cannot delete each other's profiles away: somebody who can send
\* requests at all has a profile to send them for.
SessionKeepsItsProfile ==
  \A x \in Active : rows[x].sessionType = "WITH_PROFILE" => rows[x].currentProfileId \in Existing
===============================================================================
