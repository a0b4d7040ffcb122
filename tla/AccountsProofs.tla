----------------------------- MODULE AccountsProofs -----------------------------
(***************************************************************************)
(* The row of one user for any number of requests in flight and of any     *)
(* lifetimes: no premium beyond what was granted, no address verified      *)
(* unproven, and, where no two requests overlap, one-time codes that work  *)
(* once and until they expire.                                             *)
(***************************************************************************)
EXTENDS Accounts, TLAPS

(***************************************************************************)
(* The invariant that overlapping requests keep.                           *)
(***************************************************************************)
UserColumns == {"subscriptionType", "isSubscribed", "subscriptionExpiresAt", "nextBillingDate",
                "hasUsedFreeTrial", "password", "otp", "otpExpires", "otpSentAt",
                "token", "tokenExpires", "tokenSentAt", "isEmailVerified"}
Fields == {"kind", "step", "code", "patch", "loaded"}

Resends == {"resendOtp", "resendVerificationEmail"}
CodeKinds == Resends \cup {"signUp", "forgotPassword"}

\* A token never outlives the mail that brought it.
TokenOK(p) ==
  /\ p.token \in Codes \cup {None}
  /\ p.token # None =>
       /\ p.tokenExpires \in Nat /\ p.tokenExpires <= now + CodeLife
       /\ mailed[p.token] # None => p.tokenExpires <= mailed[p.token]

\* Some columns of a row, on their way into the table.
PatchOK(p) ==
  /\ DOMAIN p \subseteq UserColumns
  /\ "token" \in DOMAIN p <=> "tokenExpires" \in DOMAIN p
  /\ "token" \in DOMAIN p => TokenOK(p)
  /\ "isEmailVerified" \in DOMAIN p => p.isEmailVerified \in BOOLEAN
  /\ "subscriptionExpiresAt" \in DOMAIN p => p.subscriptionExpiresAt \in Nat \cup {None}

\* What a row may say: of the table, or of a copy however old.
RowOK(u) ==
  /\ DOMAIN u = UserColumns /\ PatchOK(u)
  /\ u.isEmailVerified => proven
  /\ u.subscriptionExpiresAt # None => u.subscriptionExpiresAt <= covered

\* A request in flight.  One that presents a token verifies in time; only the
\* trial and an administrator bring a date that nobody has granted yet.
RequestOK(r) ==
  /\ DOMAIN r = Fields /\ PatchOK(r.patch)
  /\ r.step \in {"generate", "saveCode"} => r.kind \in CodeKinds
  /\ r.step = "mail" => r.kind \in CodeKinds \cup {"verifyEmail"}
  /\ r.step = "validated" => r.kind = "resetPassword"
  /\ r.kind \in CodeKinds \cup {"verifyEmail", "resetPassword"} => r.code \in 1..requests
  /\ r.kind \in {"verifyEmail", "resetPassword"} => mailed[r.code] \in Nat
  /\ r.kind \in CodeKinds /\ r.step \in {"load", "generate"} /\ mailed[r.code] # None =>
       now + CodeLife <= mailed[r.code]
  /\ r.kind \in Resends /\ r.step \in {"generate", "saveCode", "mail"} => RowOK(r.loaded)
  /\ r.step = "saveCode" \/ (r.kind = "verifyEmail" /\ r.step \in {"mail", "update", "save"}) =>
       DOMAIN r.patch = UserColumns
  /\ "isEmailVerified" \in DOMAIN r.patch /\ r.patch.isEmailVerified =>
       \/ proven \/ r.kind = "adminUpdate"
       \/ r.kind = "verifyEmail" /\ mailed[r.code] >= now
  /\ "subscriptionExpiresAt" \in DOMAIN r.patch /\ r.patch.subscriptionExpiresAt # None =>
       \/ r.patch.subscriptionExpiresAt <= covered
       \/ r.kind \in {"startFreeTrial", "adminUpdate"}

Typed ==
  /\ now \in Nat /\ requests \in 0..MaxRequests /\ covered \in Nat
  /\ proven \in BOOLEAN /\ overlapped \in BOOLEAN
  /\ DOMAIN slot = Slots
  /\ mailed \in [Codes -> Nat \cup {None}] /\ used \in [Codes -> Nat]
  /\ \A c \in Codes : mailed[c] # None => c <= requests
  /\ latest \in [{"otp", "token"} -> [code : Codes \cup {None}, resent : BOOLEAN]]

RowsInv == Typed /\ RowOK(user) /\ \A s \in Slots : RequestOK(slot[s])

(***************************************************************************)
(* What was granted, proven or mailed stays so.                            *)
(***************************************************************************)
Evolves ==
  /\ now' = now /\ requests <= requests' /\ covered <= covered' /\ (proven => proven')
  /\ \A c \in Codes : mailed'[c] = mailed[c] \/ mailed'[c] = now + CodeLife

LEMMA Numbers ==
  ASSUME Typed
  PROVE  1..requests \subseteq Codes
BY AccountsAssumption DEF Typed, Codes

LEMMA PatchStays ==
  ASSUME RowsInv, Typed', Evolves, NEW p, PatchOK(p)
  PROVE  PatchOK(p)'
<1>1. ASSUME TokenOK(p) PROVE TokenOK(p)'
  BY <1>1, AccountsAssumption DEF TokenOK, Evolves, RowsInv, Typed
<1> QED BY <1>1 DEF PatchOK

LEMMA RowStays ==
  ASSUME RowsInv, Typed', Evolves, NEW u, RowOK(u)
  PROVE  RowOK(u)'
<1>1. PatchOK(u)'
  BY PatchStays DEF RowOK
<1>2. u.subscriptionExpiresAt \in Nat \cup {None}
  BY DEF RowOK, PatchOK, UserColumns
<1> QED BY <1>1, <1>2, AccountsAssumption DEF RowOK, Evolves, RowsInv, Typed

LEMMA RequestStays ==
  ASSUME RowsInv, Typed', Evolves, NEW r, RequestOK(r)
  PROVE  RequestOK(r)'
<1>1. PatchOK(r.patch)'
  BY PatchStays DEF RequestOK
<1>2. r.kind \in Resends /\ r.step \in {"generate", "saveCode", "mail"} => RowOK(r.loaded)'
  BY RowStays DEF RequestOK
<1>3. r.kind \in CodeKinds \cup {"verifyEmail", "resetPassword"} => r.code \in 1..requests'
  BY AccountsAssumption DEF RequestOK, Evolves, RowsInv, Typed
<1>4. r.kind \in {"verifyEmail", "resetPassword"} =>
        mailed'[r.code] \in Nat /\ (mailed[r.code] >= now => mailed'[r.code] >= now')
  <2> SUFFICES ASSUME r.kind \in {"verifyEmail", "resetPassword"}
               PROVE  mailed'[r.code] \in Nat /\ (mailed[r.code] >= now => mailed'[r.code] >= now)
    BY DEF Evolves
  <2>1. r.code \in Codes /\ mailed[r.code] \in Nat
    BY AccountsAssumption DEF RequestOK, RowsInv, Typed, Codes
  <2>2. mailed'[r.code] = mailed[r.code] \/ mailed'[r.code] = now + CodeLife
    BY <2>1 DEF Evolves
  <2>3. now \in Nat /\ CodeLife \in Nat
    BY AccountsAssumption DEF RowsInv, Typed
  <2> QED BY <2>1, <2>2, <2>3
<1>5. "subscriptionExpiresAt" \in DOMAIN r.patch /\ r.patch.subscriptionExpiresAt # None =>
       \/ r.patch.subscriptionExpiresAt <= covered'
       \/ r.kind \in {"startFreeTrial", "adminUpdate"}
  BY AccountsAssumption DEF RequestOK, Evolves, RowsInv, Typed, PatchOK
<1>6. r.kind \in CodeKinds /\ r.step \in {"load", "generate"} /\ mailed'[r.code] # None =>
        now + CodeLife <= mailed'[r.code]
  <2>1. r.kind \in CodeKinds => r.code \in Codes
    BY Numbers DEF RequestOK, RowsInv
  <2>2. now + CodeLife \in Nat
    BY AccountsAssumption DEF RowsInv, Typed
  <2> QED BY <2>1, <2>2 DEF RequestOK, Evolves
<1> QED BY <1>1, <1>2, <1>3, <1>4, <1>5, <1>6 DEF RequestOK, Evolves

\* A step of slot s, after which it holds r.
LEMMA StepKeeps ==
  ASSUME RowsInv, Typed', Evolves, NEW s \in Slots, NEW r, slot' = [slot EXCEPT ![s] = r],
         RequestOK(r)', RowOK(user)'
  PROVE  RowsInv'
<1>1. ASSUME NEW t \in Slots PROVE RequestOK(slot[t])'
  <2>1. CASE t = s
    <3>1. slot'[t] = r
      BY <2>1 DEF RowsInv, Typed
    <3> QED BY <3>1 DEF RequestOK
  <2>2. CASE t # s
    <3>1. PICK x : x = slot[t]
      OBVIOUS
    <3>2. RequestOK(x)'
      BY <3>1, RequestStays DEF RowsInv
    <3>3. slot'[t] = x
      BY <2>2, <3>1 DEF RowsInv, Typed
    <3> QED BY <3>2, <3>3 DEF RequestOK
  <2> QED BY <2>1, <2>2
<1> QED BY <1>1 DEF RowsInv

\* A step that leaves the requests alone.
LEMMA WorldKeeps ==
  ASSUME RowsInv, Typed', Evolves, UNCHANGED slot, RowOK(user)'
  PROVE  RowsInv'
<1>1. ASSUME NEW t \in Slots PROVE RequestOK(slot[t])'
  <2>1. PICK x : x = slot[t]
    OBVIOUS
  <2>2. RequestOK(x)'
    BY <2>1, RequestStays DEF RowsInv
  <2> QED BY <2>1, <2>2 DEF RequestOK
<1> QED BY <1>1 DEF RowsInv

LEMMA IdleOK == RequestOK(Idle)
BY AccountsAssumption DEF RequestOK, Idle, Fields, PatchOK, CodeKinds, Resends, Kinds

(***************************************************************************)
(* Writing to the row.                                                     *)
(***************************************************************************)
LEMMA Written ==
  ASSUME RowsInv, NEW p, PatchOK(p), Write(p)
  PROVE  /\ DOMAIN user' = UserColumns
         /\ \A c \in DOMAIN p : user'[c] = p[c]
         /\ \A c \in UserColumns \ DOMAIN p : user'[c] = user[c]
         /\ PatchOK(user')
<1>1. /\ DOMAIN user' = UserColumns
      /\ \A c \in DOMAIN p : user'[c] = p[c]
      /\ \A c \in UserColumns \ DOMAIN p : user'[c] = user[c]
  <2>1. user' = Over(p, user) /\ DOMAIN user = UserColumns /\ DOMAIN p \subseteq UserColumns
    BY DEF Write, RowsInv, RowOK, PatchOK
  <2>2. /\ DOMAIN user' = DOMAIN p \cup DOMAIN user
        /\ \A c \in DOMAIN p : user'[c] = p[c]
        /\ \A c \in DOMAIN user \ DOMAIN p : user'[c] = user[c]
    BY <2>1 DEF Over
  <2>3. DOMAIN p \cup UserColumns = UserColumns
    BY <2>1
  <2> QED BY <2>1, <2>2, <2>3
<1>2. PatchOK(user) /\ DOMAIN user = UserColumns
  BY DEF RowsInv, RowOK
<1>3. CASE "token" \in DOMAIN p
  <2>1. user'.token = p.token /\ user'.tokenExpires = p.tokenExpires
    BY <1>1, <1>3 DEF PatchOK
  <2>2. /\ "isEmailVerified" \in DOMAIN p \/ user'.isEmailVerified = user.isEmailVerified
        /\ "subscriptionExpiresAt" \in DOMAIN p
             \/ user'.subscriptionExpiresAt = user.subscriptionExpiresAt
    BY <1>1 DEF UserColumns
  <2>3. /\ "isEmailVerified" \in DOMAIN p => user'.isEmailVerified = p.isEmailVerified
        /\ "subscriptionExpiresAt" \in DOMAIN p =>
             user'.subscriptionExpiresAt = p.subscriptionExpiresAt
    BY <1>1
  <2> QED BY <1>1, <1>2, <1>3, <2>1, <2>2, <2>3 DEF PatchOK, TokenOK, UserColumns
<1>4. CASE "token" \notin DOMAIN p
  <2>1. user'.token = user.token /\ user'.tokenExpires = user.tokenExpires
    BY <1>1, <1>4 DEF PatchOK, UserColumns
  <2>2. /\ "isEmailVerified" \in DOMAIN p \/ user'.isEmailVerified = user.isEmailVerified
        /\ "subscriptionExpiresAt" \in DOMAIN p
             \/ user'.subscriptionExpiresAt = user.subscriptionExpiresAt
    BY <1>1 DEF UserColumns
  <2>3. /\ "isEmailVerified" \in DOMAIN p => user'.isEmailVerified = p.isEmailVerified
        /\ "subscriptionExpiresAt" \in DOMAIN p =>
             user'.subscriptionExpiresAt = p.subscriptionExpiresAt
    BY <1>1
  <2> QED BY <1>1, <1>2, <1>4, <2>1, <2>2, <2>3 DEF PatchOK, TokenOK, UserColumns
<1> QED BY <1>1, <1>3, <1>4

\* A write that vouches for no address and brings no date that is not covered.
LEMMA WriteKeeps ==
  ASSUME RowsInv, Typed', Evolves, NEW p, PatchOK(p), Write(p),
         "isEmailVerified" \in DOMAIN p /\ p.isEmailVerified => proven',
         "subscriptionExpiresAt" \in DOMAIN p /\ p.subscriptionExpiresAt # None =>
           p.subscriptionExpiresAt <= covered'
  PROVE  RowOK(user)'
<1>1. /\ DOMAIN user' = UserColumns
      /\ \A c \in DOMAIN p : user'[c] = p[c]
      /\ \A c \in UserColumns \ DOMAIN p : user'[c] = user[c]
  BY Written
<1>2. PICK u : u = user'
  OBVIOUS
<1>3. PatchOK(u)
  BY <1>2, Written
<1>4. PatchOK(u)'
  BY <1>3, PatchStays
<1>5. PatchOK(user)'
  BY <1>2, <1>4 DEF PatchOK, TokenOK
<1>6. user'.isEmailVerified => proven'
  BY <1>1 DEF RowsInv, RowOK, Evolves, UserColumns
<1>7. user'.subscriptionExpiresAt # None => user'.subscriptionExpiresAt <= covered'
  <2>1. CASE "subscriptionExpiresAt" \in DOMAIN p
    BY <1>1, <2>1
  <2>2. CASE "subscriptionExpiresAt" \notin DOMAIN p
    <3>1. user'.subscriptionExpiresAt = user.subscriptionExpiresAt
      BY <1>1, <2>2 DEF UserColumns
    <3>2. user.subscriptionExpiresAt \in Nat \cup {None} /\ covered <= covered'
          /\ covered \in Nat /\ covered' \in Nat
          /\ (user.subscriptionExpiresAt # None => user.subscriptionExpiresAt <= covered)
      BY DEF RowsInv, RowOK, PatchOK, Evolves, Typed, UserColumns
    <3> QED BY <3>1, <3>2
  <2> QED BY <2>1, <2>2
<1> QED BY <1>1, <1>5, <1>6, <1>7 DEF RowOK

(***************************************************************************)
(* Requests that write nothing yet.                                        *)
(***************************************************************************)
LEMMA MoveKeeps ==
  ASSUME RowsInv, NEW s \in Slots, NEW r, RequestOK(r), Goto(s, r), Unwritten
  PROVE  RowsInv'
<1>1. /\ UNCHANGED <<user, now, requests, mailed, latest, covered, proven, used, overlapped>>
      /\ slot' = [slot EXCEPT ![s] = r]
  BY DEF Unwritten, History, Goto
<1>2. Typed' /\ Evolves
  BY <1>1 DEF RowsInv, Typed, Evolves
<1>3. RequestOK(r)'
  BY <1>2, RequestStays
<1>4. PICK u : u = user
  OBVIOUS
<1>5. RowOK(u)'
  BY <1>2, <1>4, RowStays DEF RowsInv
<1>6. RowOK(user)'
  BY <1>1, <1>4, <1>5 DEF RowOK, PatchOK, TokenOK
<1> QED BY <1>1, <1>2, <1>3, <1>6, StepKeeps

LEMMA FinishKeeps ==
  ASSUME RowsInv, NEW s \in Slots, Finish(s), Unwritten
  PROVE  RowsInv'
BY IdleOK, MoveKeeps DEF Finish

\* Going on with the same patch, or with a new one.
LEMMA Goes ==
  ASSUME RowsInv, NEW r, RequestOK(r), NEW step
  PROVE  LET q == [r EXCEPT !.step = step] IN
         /\ DOMAIN q = Fields /\ q.step = step /\ q.kind = r.kind /\ q.code = r.code
         /\ q.patch = r.patch /\ q.loaded = r.loaded
BY DEF RequestOK, Fields

LEMMA GoesWith ==
  ASSUME RowsInv, NEW r, RequestOK(r), NEW step, NEW patch
  PROVE  LET q == [r EXCEPT !.step = step, !.patch = patch] IN
         /\ DOMAIN q = Fields /\ q.step = step /\ q.kind = r.kind /\ q.code = r.code
         /\ q.patch = patch /\ q.loaded = r.loaded
BY DEF RequestOK, Fields

\* A request that has only its write ahead of it.
LEMMA WritesOK ==
  ASSUME RowsInv, NEW r, RequestOK(r), NEW q, DOMAIN q = Fields, q.kind = r.kind, q.code = r.code,
         q.step \in {"save", "update"}, PatchOK(q.patch),
         r.kind = "verifyEmail" => DOMAIN q.patch = UserColumns,
         "isEmailVerified" \in DOMAIN q.patch /\ q.patch.isEmailVerified =>
           \/ proven \/ r.kind = "adminUpdate"
           \/ r.kind = "verifyEmail" /\ mailed[r.code] >= now,
         "subscriptionExpiresAt" \in DOMAIN q.patch /\ q.patch.subscriptionExpiresAt # None =>
           \/ q.patch.subscriptionExpiresAt <= covered
           \/ r.kind \in {"startFreeTrial", "adminUpdate"}
  PROVE  RequestOK(q)
BY DEF RequestOK

\* A copy of the row is written back by whoever made it.
LEMMA CopyOK ==
  ASSUME RowsInv, NEW r, RequestOK(r), NEW q, DOMAIN q = Fields, q.kind = r.kind, q.code = r.code,
         q.step \in {"save", "update"}, RowOK(q.patch)
  PROVE  RequestOK(q)
BY WritesOK DEF RowOK

\* Columns that no invariant is about may be edited at will.
LEMMA EditedRow ==
  ASSUME RowsInv, NEW u, RowOK(u), NEW q, DOMAIN q = DOMAIN u,
         \A c \in {"token", "tokenExpires", "isEmailVerified", "subscriptionExpiresAt"} : q[c] = u[c]
  PROVE  RowOK(q)
<1>1. /\ q.token = u.token /\ q.tokenExpires = u.tokenExpires
      /\ q.isEmailVerified = u.isEmailVerified
      /\ q.subscriptionExpiresAt = u.subscriptionExpiresAt
  OBVIOUS
<1> QED BY <1>1 DEF RowOK, PatchOK, TokenOK

LEMMA LoadsKeep ==
  ASSUME RowsInv, NEW s \in Slots,
         CheckResend(s) \/ ValidateOtp(s) \/ ResetPassword(s) \/ EditAccount(s)
           \/ CancelSubscription(s) \/ StartFreeTrial(s)
  PROVE  RowsInv'
<1> DEFINE r == slot[s]
<1>1. RequestOK(r) /\ DOMAIN r = Fields /\ RowOK(user) /\ DOMAIN user = UserColumns
  BY DEF RowsInv, RequestOK, RowOK
<1>2. CASE Finish(s) /\ Unwritten
  BY <1>2, FinishKeeps
<1>3. CASE CheckResend(s) /\ ~Finish(s)
  <2>1. PICK q : q = [r EXCEPT !.step = "generate", !.loaded = user]
    OBVIOUS
  <2>2. Goto(s, q) /\ Unwritten /\ r.kind \in Resends /\ r.step = "load"
    BY <1>3, <2>1 DEF CheckResend, Loading, Resends
  <2>3. /\ DOMAIN q = Fields /\ q.step = "generate" /\ q.loaded = user
        /\ q.kind = r.kind /\ q.code = r.code /\ q.patch = r.patch
    BY <1>1, <2>1 DEF Fields
  <2>4. RequestOK(q)
    BY <1>1, <2>2, <2>3 DEF RequestOK, CodeKinds, Resends
  <2> QED BY <2>2, <2>4, MoveKeeps
<1>4. CASE ValidateOtp(s) /\ ~Finish(s)
  <2>1. PICK q : q = [r EXCEPT !.step = "validated"]
    OBVIOUS
  <2>2. Goto(s, q) /\ Unwritten /\ r.kind = "resetPassword"
    BY <1>4, <2>1 DEF ValidateOtp, Loading
  <2>3. /\ DOMAIN q = Fields /\ q.step = "validated" /\ q.loaded = r.loaded
        /\ q.kind = r.kind /\ q.code = r.code /\ q.patch = r.patch
    BY <1>1, <2>1 DEF Fields
  <2>4. RequestOK(q)
    BY <1>1, <2>2, <2>3 DEF RequestOK, CodeKinds, Resends
  <2> QED BY <2>2, <2>4, MoveKeeps
<1>5. CASE ResetPassword(s)
  <2>1. PICK u : u = [user EXCEPT !.password = "reset", !.otp = None, !.otpExpires = None]
    OBVIOUS
  <2>2. RowOK(u)
    <3>1. /\ DOMAIN u = DOMAIN user
          /\ \A c \in {"token", "tokenExpires", "isEmailVerified", "subscriptionExpiresAt"} :
               u[c] = user[c]
      BY <1>1, <2>1 DEF UserColumns
    <3> QED BY <1>1, <3>1, EditedRow
  <2>3. PICK q : q = [r EXCEPT !.step = "update", !.patch = u]
    OBVIOUS
  <2>4. Goto(s, q) /\ Unwritten
    BY <1>5, <2>1, <2>3 DEF ResetPassword
  <2>5. RequestOK(q)
    <3>1. /\ DOMAIN q = Fields /\ q.step = "update" /\ q.kind = r.kind /\ q.code = r.code
          /\ q.patch = u
      BY <1>1, <2>3 DEF Fields
    <3> QED BY <1>1, <2>2, <3>1, CopyOK
  <2> QED BY <2>4, <2>5, MoveKeeps
<1>6. CASE EditAccount(s)
  <2>1. PICK u : /\ u = user \/ u = [user EXCEPT !.password = "changed"]
                 /\ SaveLater(s, u) /\ Unwritten
    BY <1>6 DEF EditAccount
  <2>2. RowOK(u)
    <3>1. /\ DOMAIN u = DOMAIN user
          /\ \A c \in {"token", "tokenExpires", "isEmailVerified", "subscriptionExpiresAt"} :
               u[c] = user[c]
      BY <1>1, <2>1 DEF UserColumns
    <3> QED BY <1>1, <3>1, EditedRow
  <2>3. PICK q : q = [r EXCEPT !.step = "save", !.patch = u]
    OBVIOUS
  <2>4. Goto(s, q) /\ Unwritten
    BY <2>1, <2>3 DEF SaveLater
  <2>5. RequestOK(q)
    <3>1. /\ DOMAIN q = Fields /\ q.step = "save" /\ q.kind = r.kind /\ q.code = r.code
          /\ q.patch = u
      BY <1>1, <2>3 DEF Fields
    <3> QED BY <1>1, <2>2, <3>1, CopyOK
  <2> QED BY <2>4, <2>5, MoveKeeps
<1>7. CASE CancelSubscription(s) /\ ~Finish(s)
  <2>1. PICK q : q = [r EXCEPT !.step = "update", !.patch = FreeTier]
    OBVIOUS
  <2>2. Goto(s, q) /\ Unwritten /\ r.kind = "cancelled"
    BY <1>7, <2>1 DEF CancelSubscription, Loading
  <2>3. /\ DOMAIN q = Fields /\ q.step = "update" /\ q.kind = r.kind /\ q.code = r.code
        /\ q.patch = FreeTier
    BY <1>1, <2>1 DEF Fields
  <2>4. PatchOK(FreeTier) /\ FreeTier.subscriptionExpiresAt = None
        /\ "isEmailVerified" \notin DOMAIN FreeTier
    BY DEF FreeTier, PatchOK, UserColumns
  <2>5. RequestOK(q)
    BY <1>1, <2>2, <2>3, <2>4, WritesOK
  <2> QED BY <2>2, <2>5, MoveKeeps
<1>8. CASE StartFreeTrial(s) /\ ~Finish(s)
  <2>1. PICK u : u = [user EXCEPT !.subscriptionType = "PREMIUM", !.isSubscribed = TRUE,
                        !.subscriptionExpiresAt = now + PlanLife, !.hasUsedFreeTrial = TRUE]
    OBVIOUS
  <2>2. /\ DOMAIN u = UserColumns /\ u.subscriptionExpiresAt = now + PlanLife
        /\ u.token = user.token /\ u.tokenExpires = user.tokenExpires
        /\ u.isEmailVerified = user.isEmailVerified
    BY <1>1, <2>1 DEF UserColumns
  <2>3. PatchOK(u) /\ (u.isEmailVerified => proven)
    <3>1. now + PlanLife \in Nat
      BY AccountsAssumption DEF RowsInv, Typed
    <3> QED BY <1>1, <2>2, <3>1 DEF RowOK, PatchOK, TokenOK
  <2>4. PICK q : q = [r EXCEPT !.step = "save", !.patch = u]
    OBVIOUS
  <2>5. Goto(s, q) /\ Unwritten /\ r.kind = "startFreeTrial"
    BY <1>8, <2>1, <2>4 DEF StartFreeTrial, SaveLater, Loading
  <2>6. /\ DOMAIN q = Fields /\ q.step = "save" /\ q.kind = r.kind /\ q.code = r.code
        /\ q.patch = u
    BY <1>1, <2>4 DEF Fields
  <2>7. RequestOK(q)
    BY <1>1, <2>3, <2>5, <2>6, WritesOK
  <2> QED BY <2>5, <2>7, MoveKeeps
<1> QED BY <1>2, <1>3, <1>4, <1>5, <1>6, <1>7, <1>8
        DEF CheckResend, ValidateOtp, CancelSubscription, StartFreeTrial

LEMMA VerifyEmailKeeps ==
  ASSUME RowsInv, NEW s \in Slots, VerifyEmail(s)
  PROVE  RowsInv'
<1> DEFINE r == slot[s]
<1>1. RequestOK(r) /\ DOMAIN r = Fields /\ RowOK(user) /\ DOMAIN user = UserColumns
  BY DEF RowsInv, RequestOK, RowOK
<1>2. r.kind = "verifyEmail" /\ Unwritten /\ r.code \in Codes /\ r.code # None
      /\ mailed[r.code] \in Nat
  BY <1>1, AccountsAssumption DEF VerifyEmail, Loading, RequestOK, RowsInv, Typed, Codes
<1>3. CASE Finish(s)
  BY <1>2, <1>3, FinishKeeps
<1>4. PICK spent : spent = [user EXCEPT !.token = None, !.tokenExpires = None]
  OBVIOUS
<1>5. /\ DOMAIN spent = UserColumns /\ spent.token = None /\ spent.tokenExpires = None
      /\ spent.isEmailVerified = user.isEmailVerified
      /\ spent.subscriptionExpiresAt = user.subscriptionExpiresAt
  BY <1>1, <1>4 DEF UserColumns
<1>6. RowOK(spent)
  BY <1>1, <1>5 DEF RowOK, PatchOK, TokenOK
<1>7. CASE SaveLater(s, spent)
  <2>1. PICK q : q = [r EXCEPT !.step = "save", !.patch = spent]
    OBVIOUS
  <2>2. RequestOK(q)
    <3>1. /\ DOMAIN q = Fields /\ q.step = "save" /\ q.kind = r.kind /\ q.code = r.code
          /\ q.patch = spent
      BY <1>1, <2>1 DEF Fields
    <3> QED BY <1>1, <1>6, <3>1, CopyOK
  <2> QED BY <1>2, <1>7, <2>1, <2>2, MoveKeeps DEF SaveLater
<1>8. CASE user.token = r.code /\ ~(now > user.tokenExpires)
           /\ Goto(s, [slot[s] EXCEPT !.step = "mail",
                                      !.patch = [spent EXCEPT !.isEmailVerified = TRUE]])
  <2>1. PICK u : u = [spent EXCEPT !.isEmailVerified = TRUE]
    OBVIOUS
  <2>2. /\ DOMAIN u = UserColumns /\ u.token = None /\ u.isEmailVerified = TRUE
        /\ u.subscriptionExpiresAt = user.subscriptionExpiresAt
    BY <1>5, <2>1 DEF UserColumns
  <2>3. PatchOK(u)
    BY <1>1, <2>2 DEF RowOK, PatchOK, TokenOK
  <2>4. mailed[r.code] >= now
    <3>1. user.tokenExpires \in Nat /\ user.tokenExpires <= mailed[r.code]
      BY <1>1, <1>2, <1>8, AccountsAssumption DEF RowOK, PatchOK, TokenOK, UserColumns
    <3>2. now \in Nat
      BY DEF RowsInv, Typed
    <3> QED BY <1>2, <1>8, <3>1, <3>2
  <2>5. PICK q : q = [r EXCEPT !.step = "mail", !.patch = u]
    OBVIOUS
  <2>6. /\ DOMAIN q = Fields /\ q.step = "mail" /\ q.kind = r.kind /\ q.code = r.code
        /\ q.patch = u
    BY <1>1, <2>5 DEF Fields
  <2>7. u.subscriptionExpiresAt # None => u.subscriptionExpiresAt <= covered
    BY <1>1, <2>2 DEF RowOK
  <2>8. RequestOK(q)
    BY <1>1, <1>2, <2>2, <2>3, <2>4, <2>6, <2>7 DEF RequestOK, Resends
  <2> QED BY <1>2, <1>8, <2>1, <2>5, <2>8, MoveKeeps
<1> QED BY <1>3, <1>4, <1>7, <1>8 DEF VerifyEmail

LEMMA GenerateKeeps ==
  ASSUME RowsInv, NEW s \in Slots, GenerateCode(s)
  PROVE  RowsInv'
<1> DEFINE r == slot[s]
           c == r.code
<1>1. RequestOK(r) /\ DOMAIN r = Fields /\ RowOK(user) /\ DOMAIN user = UserColumns
  BY DEF RowsInv, RequestOK, RowOK
<1>2. r.step = "generate" /\ r.kind \in CodeKinds /\ Unwritten
  BY <1>1 DEF GenerateCode, RequestOK
<1>3. PICK u :
        u = IF r.kind \in OtpKinds
            THEN [user EXCEPT !.otp = c, !.otpExpires = now + CodeLife, !.otpSentAt = now]
            ELSE [user EXCEPT !.token = c, !.tokenExpires = now + CodeLife, !.isEmailVerified = FALSE]
  OBVIOUS
<1>4. RowOK(u)
  <2>1. CASE r.kind \in OtpKinds
    <3>1. /\ DOMAIN u = DOMAIN user
          /\ \A f \in {"token", "tokenExpires", "isEmailVerified", "subscriptionExpiresAt"} :
               u[f] = user[f]
      BY <1>1, <1>3, <2>1 DEF UserColumns
    <3> QED BY <1>1, <3>1, EditedRow
  <2>2. CASE r.kind \notin OtpKinds
    <3>1. /\ DOMAIN u = UserColumns /\ u.token = c /\ u.tokenExpires = now + CodeLife
          /\ u.isEmailVerified = FALSE /\ u.subscriptionExpiresAt = user.subscriptionExpiresAt
      BY <1>1, <1>3, <2>2 DEF UserColumns
    <3>2. c \in Codes
      BY <1>1, <1>2, AccountsAssumption DEF RequestOK, RowsInv, Typed, Codes
    <3>3. now + CodeLife \in Nat
      BY AccountsAssumption DEF RowsInv, Typed
    <3>4. now + CodeLife <= now + CodeLife
      BY <3>3
    <3>5. mailed[c] # None => now + CodeLife <= mailed[c]
      BY <1>1, <1>2 DEF RequestOK
    <3> QED BY <1>1, <3>1, <3>2, <3>3, <3>4, <3>5 DEF RowOK, PatchOK, TokenOK
  <2> QED BY <2>1, <2>2
<1>5. PICK q : q = [r EXCEPT !.step = "saveCode", !.patch = u]
  OBVIOUS
<1>6. /\ DOMAIN q = Fields /\ q.step = "saveCode" /\ q.kind = r.kind /\ q.code = r.code
      /\ q.patch = u /\ q.loaded = r.loaded
  BY <1>1, <1>5 DEF Fields
<1>7. RequestOK(q)
  BY <1>1, <1>2, <1>4, <1>6 DEF RequestOK, RowOK
<1>8. Goto(s, q)
  BY <1>3, <1>5 DEF GenerateCode
<1> QED BY <1>2, <1>7, <1>8, MoveKeeps

\* What updateUser makes of a patch: it adds columns of the plan, and takes at
\* most its dates away.
LEMMA Updated ==
  ASSUME RowsInv, NEW old, NEW p, PatchOK(p), NEW q, q = UpdateUser(old, p), q # None
  PROVE  /\ PatchOK(q) /\ DOMAIN p \subseteq DOMAIN q
         /\ \A c \in {"otp", "token", "tokenExpires", "isEmailVerified"} :
              /\ c \in DOMAIN q <=> c \in DOMAIN p
              /\ c \in DOMAIN p => q[c] = p[c]
         /\ "subscriptionExpiresAt" \in DOMAIN q =>
              \/ q.subscriptionExpiresAt = None
              \/ /\ "subscriptionExpiresAt" \in DOMAIN p
                 /\ q.subscriptionExpiresAt = p.subscriptionExpiresAt
<1>1. PICK dates, flag :
        /\ dates \in {<<>>, [nextBillingDate |-> None, subscriptionExpiresAt |-> None]}
        /\ q = Over(dates, Over([isSubscribed |-> flag], p))
  BY DEF UpdateUser
<1> DEFINE o == Over([isSubscribed |-> flag], p)
<1>2. /\ DOMAIN o = DOMAIN p \cup {"isSubscribed"}
      /\ \A c \in DOMAIN p \ {"isSubscribed"} : o[c] = p[c]
  BY DEF Over
<1> HIDE DEF o
<1>3. CASE dates = <<>>
  <2>1. DOMAIN dates = {}
    BY <1>3
  <2>2. DOMAIN q = DOMAIN o /\ \A c \in DOMAIN o : q[c] = o[c]
    BY <1>1, <2>1 DEF Over, o
  <2> QED BY <1>2, <2>2 DEF PatchOK, TokenOK, UserColumns
<1>4. CASE dates = [nextBillingDate |-> None, subscriptionExpiresAt |-> None]
  <2>1. /\ DOMAIN dates = {"nextBillingDate", "subscriptionExpiresAt"}
        /\ dates.subscriptionExpiresAt = None
    BY <1>4
  <2>2. /\ DOMAIN q = DOMAIN o \cup {"nextBillingDate", "subscriptionExpiresAt"}
        /\ q.subscriptionExpiresAt = None
        /\ \A c \in DOMAIN o \ {"nextBillingDate", "subscriptionExpiresAt"} : q[c] = o[c]
    BY <1>1, <2>1 DEF Over, o
  <2> QED BY <1>2, <2>2 DEF PatchOK, TokenOK, UserColumns
<1> QED BY <1>1, <1>3, <1>4

LEMMA CheckUpdateKeeps ==
  ASSUME RowsInv, NEW s \in Slots, CheckUpdate(s)
  PROVE  RowsInv'
<1> DEFINE r == slot[s]
<1>1. RequestOK(r) /\ DOMAIN r = Fields /\ r.step = "update" /\ Unwritten
  BY DEF RowsInv, RequestOK, CheckUpdate
<1>2. PICK u : u = UpdateUser(user, r.patch)
  OBVIOUS
<1>3. CASE Finish(s)
  BY <1>1, <1>3, FinishKeeps
<1>4. CASE u # None /\ SaveLater(s, u)
  <2>1. PICK q : q = [r EXCEPT !.step = "save", !.patch = u]
    OBVIOUS
  <2>2. PICK p : p = r.patch
    OBVIOUS
  <2>3. /\ PatchOK(u) /\ DOMAIN p \subseteq DOMAIN u
        /\ "isEmailVerified" \in DOMAIN u <=> "isEmailVerified" \in DOMAIN p
        /\ "isEmailVerified" \in DOMAIN p => u.isEmailVerified = p.isEmailVerified
        /\ "subscriptionExpiresAt" \in DOMAIN u =>
              \/ u.subscriptionExpiresAt = None
              \/ /\ "subscriptionExpiresAt" \in DOMAIN p
                 /\ u.subscriptionExpiresAt = p.subscriptionExpiresAt
    BY <1>1, <1>2, <1>4, <2>2, Updated DEF RequestOK
  <2>4. /\ DOMAIN q = Fields /\ q.step = "save" /\ q.kind = r.kind /\ q.code = r.code
        /\ q.patch = u
    BY <1>1, <2>1 DEF Fields
  <2>5. r.kind = "verifyEmail" => DOMAIN u = UserColumns
    BY <1>1, <2>2, <2>3 DEF RequestOK, PatchOK
  <2>6. RequestOK(q)
    BY <1>1, <2>2, <2>3, <2>4, <2>5, WritesOK DEF RequestOK
  <2> QED BY <1>1, <1>4, <2>1, <2>6, MoveKeeps DEF SaveLater
<1> QED BY <1>1, <1>2, <1>3, <1>4 DEF CheckUpdate

LEMMA ConfirmKeeps ==
  ASSUME RowsInv, NEW s \in Slots, SendConfirmation(s)
  PROVE  RowsInv'
<1> DEFINE r == slot[s]
<1>1. /\ RequestOK(r) /\ DOMAIN r = Fields /\ r.step = "mail" /\ r.kind = "verifyEmail"
      /\ Unwritten
  BY DEF RowsInv, RequestOK, SendConfirmation
<1>2. PICK q : q = [r EXCEPT !.step = "save", !.patch = r.patch]
  OBVIOUS
<1>3. /\ DOMAIN q = Fields /\ q.step = "save" /\ q.kind = r.kind /\ q.code = r.code
      /\ q.patch = r.patch
  BY <1>1, <1>2 DEF Fields
<1>4. RequestOK(q)
  BY <1>1, <1>3, WritesOK DEF RequestOK
<1> QED BY <1>1, <1>2, <1>4, MoveKeeps DEF SendConfirmation, SaveLater

(***************************************************************************)
(* Requests that write, and arrivals.                                      *)
(***************************************************************************)
LEMMA SaveCodeKeeps ==
  ASSUME RowsInv, NEW s \in Slots, SaveCode(s)
  PROVE  RowsInv'
<1> DEFINE r == slot[s]
<1>1. RequestOK(r) /\ DOMAIN r = Fields /\ r.step = "saveCode" /\ r.kind \in CodeKinds
  BY DEF RowsInv, RequestOK, SaveCode
<1>2. UNCHANGED <<now, requests, mailed, covered, proven, used, overlapped>>
  BY DEF SaveCode
<1>3. PICK q : q = [r EXCEPT !.step = "mail", !.patch = <<>>]
  OBVIOUS
<1>4. slot' = [slot EXCEPT ![s] = q]
  BY <1>3 DEF SaveCode, Goto
<1>5. Typed'
  <2>1. latest' \in [{"otp", "token"} -> [code : Codes \cup {None}, resent : BOOLEAN]]
    BY DEF SaveCode, RowsInv, Typed, NoMail
  <2> QED BY <1>2, <1>4, <2>1 DEF RowsInv, Typed
<1>6. Evolves
  BY <1>2 DEF RowsInv, Typed, Evolves
<1>7. /\ DOMAIN q = Fields /\ q.step = "mail" /\ q.kind = r.kind /\ q.code = r.code
      /\ q.patch = <<>> /\ q.loaded = r.loaded
  BY <1>1, <1>3 DEF Fields
<1>8. RequestOK(q)
  <2>1. PatchOK(<<>>) /\ DOMAIN <<>> = {}
    BY DEF PatchOK
  <2> QED BY <1>1, <1>7, <2>1, AccountsAssumption DEF RequestOK, CodeKinds, Resends
<1>9. RequestOK(q)'
  BY <1>5, <1>6, <1>8, RequestStays
<1>10. PICK p : p = r.patch
  OBVIOUS
<1>11. RowOK(user)'
  <2>1. /\ PatchOK(p) /\ Write(p)
        /\ "isEmailVerified" \in DOMAIN p /\ p.isEmailVerified => proven'
        /\ "subscriptionExpiresAt" \in DOMAIN p /\ p.subscriptionExpiresAt # None =>
             p.subscriptionExpiresAt <= covered'
    BY <1>1, <1>2, <1>10 DEF SaveCode, RequestOK, CodeKinds, Resends
  <2> QED BY <1>5, <1>6, <2>1, WriteKeeps
<1> QED BY <1>4, <1>5, <1>6, <1>9, <1>11, StepKeeps

LEMMA SendCodeKeeps ==
  ASSUME RowsInv, NEW s \in Slots, SendCode(s)
  PROVE  RowsInv'
<1> DEFINE r == slot[s]
<1>1. /\ RequestOK(r) /\ DOMAIN r = Fields /\ r.step = "mail" /\ r.kind \in CodeKinds
      /\ r.code \in 1..requests /\ r.code \in Codes
  BY Numbers DEF RowsInv, RequestOK, SendCode
<1>2. /\ UNCHANGED <<user, now, requests, covered, proven, used, overlapped>>
      /\ mailed' = [mailed EXCEPT ![r.code] = now + CodeLife]
  BY DEF SendCode
<1>3. PICK q : q = AfterMail(s)
  OBVIOUS
<1>4. slot' = [slot EXCEPT ![s] = q]
  BY <1>3 DEF SendCode, Goto
<1>5. Typed'
  <2>1. latest' \in [{"otp", "token"} -> [code : Codes \cup {None}, resent : BOOLEAN]]
    <3>1. PICK resent : resent = (r.kind \in {"resendOtp", "resendVerificationEmail"})
      OBVIOUS
    <3>2. latest' = [latest EXCEPT ![KindOfCode(s)] = [code |-> r.code, resent |-> resent]]
          /\ resent \in BOOLEAN
      BY <3>1 DEF SendCode
    <3>3. latest \in [{"otp", "token"} -> [code : Codes \cup {None}, resent : BOOLEAN]]
      BY DEF RowsInv, Typed
    <3> QED BY <1>1, <3>2, <3>3
  <2>2. mailed' \in [Codes -> Nat \cup {None}]
    <3>1. now + CodeLife \in Nat
      BY AccountsAssumption DEF RowsInv, Typed
    <3> QED BY <1>2, <3>1 DEF RowsInv, Typed
  <2>3. \A c \in Codes : mailed'[c] # None => c <= requests'
    BY <1>1, <1>2, AccountsAssumption DEF RowsInv, Typed
  <2> QED BY <1>2, <1>4, <2>1, <2>2, <2>3 DEF RowsInv, Typed
<1>6. Evolves
  BY <1>2 DEF RowsInv, Typed, Evolves
<1>7. RequestOK(q)
  <2>1. CASE r.kind = "forgotPassword"
    BY <1>3, <2>1, IdleOK DEF AfterMail
  <2>2. CASE r.kind = "signUp"
    <3>1. q = [r EXCEPT !.step = "update", !.patch = [tokenSentAt |-> now]]
      BY <1>3, <2>2 DEF AfterMail
    <3>2. PatchOK([tokenSentAt |-> now]) /\ DOMAIN [tokenSentAt |-> now] = {"tokenSentAt"}
      BY DEF PatchOK, UserColumns
    <3>3. /\ DOMAIN q = Fields /\ q.step = "update" /\ q.kind = r.kind /\ q.code = r.code
          /\ q.patch = [tokenSentAt |-> now]
      BY <1>1, <3>1 DEF Fields
    <3> QED BY <1>1, <2>2, <3>2, <3>3, WritesOK
  <2>3. CASE r.kind \in Resends
    <3>1. RowOK(r.loaded)
      BY <1>1, <2>3 DEF RequestOK
    <3>2. PICK field \in {"otpSentAt", "tokenSentAt"} :
            q = [r EXCEPT !.step = "update", !.loaded = None,
                          !.patch = [r.loaded EXCEPT ![field] = now]]
      BY <1>3, <2>3 DEF AfterMail, Resends
    <3>3. RowOK([r.loaded EXCEPT ![field] = now])
      <4>1. /\ DOMAIN [r.loaded EXCEPT ![field] = now] = DOMAIN r.loaded
            /\ \A c \in {"token", "tokenExpires", "isEmailVerified", "subscriptionExpiresAt"} :
                 [r.loaded EXCEPT ![field] = now][c] = r.loaded[c]
        BY <3>1 DEF RowOK, UserColumns
      <4> QED BY <3>1, <4>1, EditedRow
    <3>4. /\ DOMAIN q = Fields /\ q.step = "update" /\ q.kind = r.kind /\ q.code = r.code
          /\ q.patch = [r.loaded EXCEPT ![field] = now]
      BY <1>1, <3>2 DEF Fields
    <3> QED BY <1>1, <3>3, <3>4, CopyOK
  <2> QED BY <1>1, <2>1, <2>2, <2>3 DEF CodeKinds
<1>8. RequestOK(q)'
  BY <1>5, <1>6, <1>7, RequestStays
<1>9. RowOK(user)'
  <2>1. PICK u : u = user
    OBVIOUS
  <2>2. RowOK(u)'
    BY <1>5, <1>6, <2>1, RowStays DEF RowsInv
  <2> QED BY <1>2, <2>1, <2>2 DEF RowOK, PatchOK, TokenOK
<1> QED BY <1>4, <1>5, <1>6, <1>8, <1>9, StepKeeps

LEMMA SaveKeeps ==
  ASSUME RowsInv, NEW s \in Slots, Save(s)
  PROVE  RowsInv'
<1> DEFINE r == slot[s]
<1>1. RequestOK(r) /\ DOMAIN r = Fields /\ r.step = "save"
  BY DEF RowsInv, RequestOK, Save
<1>2. UNCHANGED <<now, requests, mailed, latest, overlapped>> /\ slot' = [slot EXCEPT ![s] = Idle]
  BY DEF Save, Finish, Goto
<1>3. PICK p : p = r.patch
  OBVIOUS
<1>4. PatchOK(p) /\ Write(p)
  BY <1>1, <1>3 DEF Save, RequestOK
<1>5. /\ DOMAIN user' = UserColumns
      /\ \A c \in DOMAIN p : user'[c] = p[c]
      /\ PatchOK(user')
  BY <1>4, Written
<1>6. user'.subscriptionExpiresAt \in Nat \cup {None}
  BY <1>5 DEF PatchOK, UserColumns
<1>7. /\ covered' \in Nat /\ covered <= covered'
      /\ r.kind \in {"startFreeTrial", "adminUpdate"} /\ user'.subscriptionExpiresAt # None =>
           user'.subscriptionExpiresAt <= covered'
  BY <1>6 DEF Save, Cover, RowsInv, Typed
<1>8. proven' \in BOOLEAN /\ (proven => proven') /\ (Vouches(s) => proven')
  BY DEF Save, RowsInv, Typed, Vouches
<1>9. Typed'
  <2>1. used' \in [Codes -> Nat]
    <3>1. used \in [Codes -> Nat]
      BY DEF RowsInv, Typed
    <3>2. used' = used \/ used' = [used EXCEPT ![r.code] = used[r.code] + 1]
      BY <3>1 DEF Save
    <3>3. r.code \in Codes => used[r.code] + 1 \in Nat
      BY <3>1
    <3> QED BY <3>1, <3>2, <3>3
  <2> QED BY <1>2, <1>7, <1>8, <2>1 DEF RowsInv, Typed
<1>10. Evolves
  BY <1>2, <1>7, <1>8 DEF RowsInv, Typed, Evolves
<1>11. "isEmailVerified" \in DOMAIN p /\ p.isEmailVerified => proven'
  BY <1>1, <1>3, <1>4, <1>8 DEF RequestOK, Vouches, Given, PatchOK
<1>12. "subscriptionExpiresAt" \in DOMAIN p /\ p.subscriptionExpiresAt # None =>
         p.subscriptionExpiresAt <= covered'
  <2> SUFFICES ASSUME "subscriptionExpiresAt" \in DOMAIN p, p.subscriptionExpiresAt # None
               PROVE  p.subscriptionExpiresAt <= covered'
    OBVIOUS
  <2>1. p.subscriptionExpiresAt \in Nat /\ p.subscriptionExpiresAt = user'.subscriptionExpiresAt
    BY <1>4, <1>5 DEF PatchOK
  <2>2. \/ p.subscriptionExpiresAt <= covered
        \/ r.kind \in {"startFreeTrial", "adminUpdate"}
    BY <1>1, <1>3 DEF RequestOK
  <2> QED BY <1>7, <2>1, <2>2 DEF RowsInv, Typed
<1>13. RowOK(user)'
  BY <1>4, <1>9, <1>10, <1>11, <1>12, WriteKeeps
<1>14. RequestOK(Idle)'
  BY <1>9, <1>10, IdleOK, RequestStays
<1> HIDE DEF Idle
<1> QED BY <1>2, <1>9, <1>10, <1>13, <1>14, StepKeeps

LEMMA BeginKeeps ==
  ASSUME RowsInv, NEW s \in Slots, NEW kind, NEW step, NEW code, NEW patch,
         Begin(s, kind, step, code, patch),
         PatchOK(patch), kind = "verifyEmail" => step = "load",
         "isEmailVerified" \in DOMAIN patch => kind = "adminUpdate",
         "subscriptionExpiresAt" \in DOMAIN patch => kind = "adminUpdate",
         step \in {"load", "generate", "update"}, step = "generate" => kind \in CodeKinds,
         kind \in Resends /\ step = "generate" => FALSE,
         kind \in CodeKinds => code = requests + 1,
         kind \in {"verifyEmail", "resetPassword"} => code \in Codes /\ mailed[code] # None
  PROVE  RowsInv'
<1>1. /\ UNCHANGED <<user, now, mailed, latest, covered, proven, used>>
      /\ requests < MaxRequests /\ requests' = requests + 1
      /\ overlapped' = (overlapped \/ Busy # {})
  BY DEF Begin, Count, History
<1>2. PICK q : q = [Idle EXCEPT !.kind = kind, !.step = step, !.code = code, !.patch = patch]
  OBVIOUS
<1>3. slot' = [slot EXCEPT ![s] = q]
  BY <1>2 DEF Begin, Goto
<1>4. /\ DOMAIN q = Fields /\ q.step = step /\ q.kind = kind /\ q.code = code
      /\ q.patch = patch /\ q.loaded = None
  BY <1>2 DEF Idle, Fields
<1>5. Typed'
  <2>1. requests' \in 0..MaxRequests /\ requests <= requests' /\ requests \in Nat
    BY <1>1, AccountsAssumption DEF RowsInv, Typed
  <2>2. \A c \in Codes : mailed'[c] # None => c <= requests'
    BY <1>1, <2>1, AccountsAssumption DEF RowsInv, Typed, Codes
  <2>3. overlapped' \in BOOLEAN
    BY <1>1
  <2> QED BY <1>1, <1>3, <2>1, <2>2, <2>3 DEF RowsInv, Typed
<1>6. Evolves
  BY <1>1 DEF RowsInv, Typed, Evolves
<1>7. PatchOK(patch)'
  BY <1>5, <1>6, PatchStays
<1>8. kind \in CodeKinds => code \in 1..requests' /\ mailed[code] = None
  <2>1. requests + 1 \in Codes /\ mailed[requests + 1] = None
    BY <1>1, AccountsAssumption DEF RowsInv, Typed, Codes
  <2> QED BY <1>1, <2>1 DEF RowsInv, Typed
<1>9. kind \in {"verifyEmail", "resetPassword"} => code \in 1..requests' /\ mailed'[code] \in Nat
  BY <1>1, AccountsAssumption DEF RowsInv, Typed, Codes
<1>10. RequestOK(q)'
  BY <1>1, <1>4, <1>7, <1>8, <1>9 DEF RequestOK, CodeKinds, Resends
<1>11. RowOK(user)'
  <2>1. PICK u : u = user
    OBVIOUS
  <2>2. RowOK(u)'
    BY <1>5, <1>6, <2>1, RowStays DEF RowsInv
  <2> QED BY <1>1, <2>1, <2>2 DEF RowOK, PatchOK, TokenOK
<1> QED BY <1>3, <1>5, <1>6, <1>10, <1>11, StepKeeps

LEMMA BeginRequestKeeps ==
  ASSUME RowsInv, NEW s \in Slots, BeginRequest(s)
  PROVE  RowsInv'
<1>1. PatchOK(<<>>) /\ DOMAIN <<>> = {}
  BY DEF PatchOK
<1>2. ASSUME NEW kind, Begin(s, kind, "load", None, <<>>),
             kind \in {"startFreeTrial", "updateUserGenres", "updateAccountDetails", "cancelled"}
      PROVE  RowsInv'
  BY <1>1, <1>2, BeginKeeps DEF CodeKinds, Resends
<1>3. ASSUME NEW kind, Begin(s, kind, "load", requests + 1, <<>>), kind \in Resends
      PROVE  RowsInv'
  BY <1>1, <1>3, BeginKeeps DEF CodeKinds, Resends
<1>4. ASSUME NEW kind, Begin(s, kind, "generate", requests + 1, <<>>),
             kind \in {"signUp", "forgotPassword"}
      PROVE  RowsInv'
  BY <1>1, <1>4, BeginKeeps DEF CodeKinds, Resends
<1>5. ASSUME NEW kind, NEW c \in Codes, mailed[c] # None, Begin(s, kind, "load", c, <<>>),
             kind \in {"resetPassword", "verifyEmail"}
      PROVE  RowsInv'
  BY <1>1, <1>5, BeginKeeps DEF CodeKinds, Resends
<1>6. ASSUME NEW patch \in AdminPatches, Begin(s, "adminUpdate", "update", None, patch)
      PROVE  RowsInv'
  <2>1. now + PlanLife \in Nat
    BY AccountsAssumption DEF RowsInv, Typed
  <2>2. PatchOK(patch)
    <3>1. CASE \E type \in SubscriptionType : patch = [subscriptionType |-> type]
      BY <3>1 DEF PatchOK, UserColumns
    <3>2. CASE \E date : patch = [subscriptionType |-> "PREMIUM",
                                 subscriptionExpiresAt |-> now + PlanLife,
                                 nextBillingDate |-> date]
      BY <2>1, <3>2 DEF PatchOK, UserColumns
    <3>3. CASE \E flag \in BOOLEAN : patch = [isSubscribed |-> flag]
      BY <3>3 DEF PatchOK, UserColumns
    <3>4. CASE \E date \in {now + PlanLife, None} : patch = [subscriptionExpiresAt |-> date]
      BY <2>1, <3>4 DEF PatchOK, UserColumns
    <3>5. CASE patch = [isEmailVerified |-> TRUE]
      BY <3>5 DEF PatchOK, UserColumns
    <3> QED BY <3>1, <3>2, <3>3, <3>4, <3>5 DEF AdminPatches
  <2> QED BY <1>6, <2>2, BeginKeeps DEF CodeKinds, Resends
<1> QED BY <1>2, <1>3, <1>4, <1>5, <1>6 DEF BeginRequest, Resends

(***************************************************************************)
(* The background, and time.                                               *)
(***************************************************************************)
LEMMA BackgroundKeeps ==
  ASSUME RowsInv, GrantPremium \/ GrantFreemium \/ EndParty \/ DowngradeExpiredPremiums
  PROVE  RowsInv'
<1>1. /\ UNCHANGED <<now, slot, mailed, latest, proven, used>>
      /\ requests' \in {requests, requests + 1} /\ requests' <= MaxRequests
      /\ overlapped' = (overlapped \/ Busy # {})
  BY AccountsAssumption
     DEF GrantPremium, GrantFreemium, EndParty, DowngradeExpiredPremiums, Count, History,
         RowsInv, Typed
<1>2. /\ covered' \in Nat /\ covered <= covered' /\ now + PlanLife \in Nat
      /\ GrantPremium => now + PlanLife <= covered'
  BY AccountsAssumption
     DEF GrantPremium, GrantFreemium, EndParty, DowngradeExpiredPremiums, Cover, History,
         RowsInv, Typed
<1>3. PICK p : /\ Write(p) /\ PatchOK(p) /\ "isEmailVerified" \notin DOMAIN p
               /\ "subscriptionExpiresAt" \in DOMAIN p
               /\ \/ p.subscriptionExpiresAt = None
                  \/ p.subscriptionExpiresAt = now + PlanLife /\ GrantPremium
  <2>1. CASE GrantPremium
    BY <1>2, <2>1 DEF GrantPremium, Premium, PatchOK, UserColumns
  <2>2. CASE GrantFreemium
    <3> DEFINE p == [FreeTier EXCEPT !.subscriptionType = "FREEMIUM", !.isSubscribed = TRUE]
    <3>1. PatchOK(p) /\ p.subscriptionExpiresAt = None
          /\ "isEmailVerified" \notin DOMAIN p /\ "subscriptionExpiresAt" \in DOMAIN p
      BY DEF FreeTier, PatchOK, UserColumns
    <3> QED BY <2>2, <3>1 DEF GrantFreemium
  <2>3. CASE EndParty
    BY <2>3 DEF EndParty, FreeTier, PatchOK, UserColumns
  <2>4. CASE DowngradeExpiredPremiums
    BY <2>4 DEF DowngradeExpiredPremiums, PatchOK, UserColumns
  <2> QED BY <2>1, <2>2, <2>3, <2>4
<1>4. Typed'
  <2>1. requests' \in 0..MaxRequests /\ requests <= requests' /\ requests \in Nat
    BY <1>1, AccountsAssumption DEF RowsInv, Typed
  <2>2. \A c \in Codes : mailed'[c] # None => c <= requests'
    BY <1>1, <2>1, AccountsAssumption DEF RowsInv, Typed, Codes
  <2>3. overlapped' \in BOOLEAN
    BY <1>1
  <2> QED BY <1>1, <1>2, <2>1, <2>2, <2>3 DEF RowsInv, Typed
<1>5. Evolves
  BY <1>1, <1>2, <1>4 DEF RowsInv, Typed, Evolves
<1>6. RowOK(user)'
  BY <1>2, <1>3, <1>4, <1>5, WriteKeeps
<1> QED BY <1>1, <1>4, <1>5, <1>6, WorldKeeps

LEMMA TickKeeps ==
  ASSUME RowsInv, Tick
  PROVE  RowsInv'
<1>1. /\ now' = now + 1 /\ \A s \in Slots : slot[s] = Idle
      /\ UNCHANGED <<user, slot, requests, mailed, latest, covered, proven, used, overlapped>>
  BY DEF Tick, Busy, History
<1>2. Typed'
  BY <1>1 DEF RowsInv, Typed
<1>3. RowOK(user)'
  BY <1>1, AccountsAssumption DEF RowsInv, Typed, RowOK, PatchOK, TokenOK
<1>4. RequestOK(Idle)'
  <2>1. PatchOK(<<>>)' /\ DOMAIN <<>> = {}
    BY DEF PatchOK
  <2> QED BY <2>1, AccountsAssumption DEF RequestOK, Idle, Fields, CodeKinds, Resends, Kinds
<1>5. ASSUME NEW s \in Slots PROVE RequestOK(slot[s])'
  BY <1>1, <1>4 DEF RequestOK
<1> QED BY <1>2, <1>3, <1>5 DEF RowsInv

LEMMA RowsInit ==
  ASSUME Init
  PROVE  RowsInv
<1>1. Typed
  <2>1. latest \in [{"otp", "token"} -> [code : Codes \cup {None}, resent : BOOLEAN]]
    BY DEF Init, NoMail
  <2>2. mailed \in [Codes -> Nat \cup {None}] /\ used \in [Codes -> Nat]
        /\ \A c \in Codes : mailed[c] = None
    BY DEF Init
  <2>3. now = 0 /\ requests = 0 /\ covered = 0 /\ proven = FALSE /\ overlapped = FALSE
        /\ DOMAIN slot = Slots
    BY DEF Init
  <2>4. now \in Nat /\ requests \in 0..MaxRequests /\ covered \in Nat
    BY <2>3, AccountsAssumption
  <2>5. proven \in BOOLEAN /\ overlapped \in BOOLEAN
    BY <2>3
  <2> QED BY <2>1, <2>2, <2>3, <2>4, <2>5 DEF Typed
<1>2. RowOK(user)
  BY AccountsAssumption DEF Init, RowOK, PatchOK, TokenOK, UserColumns
<1> QED BY <1>1, <1>2, IdleOK DEF Init, RowsInv

LEMMA RowsNext ==
  ASSUME RowsInv, [Next]_vars
  PROVE  RowsInv'
<1>1. CASE UNCHANGED vars
  <2>1. UNCHANGED <<user, now, slot, requests, mailed, latest, covered, proven, used, overlapped>>
    BY <1>1 DEF vars
  <2>2. Typed' /\ Evolves
    BY <2>1 DEF RowsInv, Typed, Evolves
  <2>3. RowOK(user)'
    BY <2>1 DEF RowsInv, RowOK, PatchOK, TokenOK
  <2> QED BY <2>1, <2>2, <2>3, WorldKeeps
<1>2. ASSUME NEW s \in Slots, Die(s) PROVE RowsInv'
  BY <1>2, FinishKeeps DEF Die
<1>3. CASE Next
  BY <1>2, <1>3, BeginRequestKeeps, LoadsKeep, VerifyEmailKeeps, GenerateKeeps, SaveCodeKeeps,
     SendCodeKeeps, ConfirmKeeps, CheckUpdateKeeps, SaveKeeps, BackgroundKeeps, TickKeeps DEF Next
<1> QED BY <1>1, <1>3

THEOREM RowsInvariant == Spec => []RowsInv
<1> QED BY RowsInit, RowsNext, PTL DEF Spec

\* The guards take nobody for PREMIUM beyond the end of a plan that was granted,
\* whichever stale row is written last.
THEOREM PremiumCovered == Spec => []PremiumIsCovered
<1>1. RowsInv => PremiumIsCovered
  BY DEF RowsInv, Typed, RowOK, PatchOK, PremiumIsCovered, EffectiveType, UserColumns
<1> QED BY <1>1, RowsInvariant, PTL

\* An address counts as verified only after a live token of it was presented, or
\* an administrator vouched for it.
THEOREM VerifiedProven == Spec => []VerifiedWasProven
<1>1. RowsInv => VerifiedWasProven
  BY DEF RowsInv, RowOK, VerifiedWasProven
<1> QED BY <1>1, RowsInvariant, PTL

(***************************************************************************)
(* What holds as long as no two requests overlap.                          *)
(***************************************************************************)
KindOf(r) == IF r.kind \in OtpKinds THEN "otp" ELSE "token"

\* A copy says of the code of kind k what the table says.
Same(p, k) ==
  k \in DOMAIN p => p[k] = user[k] /\ (k = "token" => p.tokenExpires = user.tokenExpires)

\* Code c of kind k is the one in row u, with the date its mail gave or will give.
Bears(u, k, c, date) == u[k] = c /\ (k = "token" => u.tokenExpires = date)

\* The code mailed last is in the row, until it is used or it expires.
Kept(k) ==
  LET c == latest[k].code IN
  c # None =>
    /\ mailed[c] # None
    /\ ~latest[k].resent /\ (k = "token" => ~proven) /\ used[c] = 0 /\ mailed[c] >= now =>
         Bears(user, k, c, mailed[c])

\* A code that has reset the password is gone.
UsedUp(c) == used[c] # 0 => used[c] = 1 /\ mailed[c] # None /\ user.otp # c

\* The only request there is: what it may write over the codes in the row.
Overwrites(r, k) ==
  \/ Same(r.patch, k)
  \/ k = KindOf(r) /\ r.step = "saveCode"
  \/ k = KindOf(r) /\ r.kind \in Resends /\ r.step \in {"update", "save"} /\ latest[k].resent
  \/ k = "otp" /\ r.kind = "resetPassword" /\ r.step \in {"update", "save"}
  \/ /\ k = "token" /\ r.kind = "verifyEmail" /\ r.step \in {"mail", "save"}
     /\ user.token = r.code
     /\ r.patch.isEmailVerified \/ now > user.tokenExpires

SerialRequest(r) ==
  /\ r.kind \in CodeKinds /\ r.step \in {"load", "generate", "saveCode", "mail"} =>
       mailed[r.code] = None
  /\ r.kind \in CodeKinds /\ r.step = "mail" =>
       Bears(user, KindOf(r), r.code, now + CodeLife)
  /\ r.step = "saveCode" => Bears(r.patch, KindOf(r), r.code, now + CodeLife)
  /\ r.kind \in Resends /\ r.step \in {"generate", "saveCode", "mail"} =>
       /\ \A k \in {"otp", "token"} \ {KindOf(r)} : Same(r.loaded, k)
       /\ \A c \in Codes : used[c] # 0 => r.loaded.otp # c
  /\ r.kind = "resetPassword" /\ r.step \in {"validated", "update", "save"} => user.otp = r.code
  /\ r.kind = "resetPassword" /\ r.step \in {"update", "save"} =>
       "otp" \in DOMAIN r.patch /\ r.patch.otp = None
  /\ \A c \in Codes : used[c] # 0 /\ "otp" \in DOMAIN r.patch => r.patch.otp # c
  /\ \A k \in {"otp", "token"} : Overwrites(r, k)

SerialInv ==
  ~overlapped =>
    /\ \A s, t \in Busy : s = t
    /\ \A k \in {"otp", "token"} : Kept(k)
    /\ \A c \in Codes : UsedUp(c)
    /\ \A s \in Slots : SerialRequest(slot[s])

LEMMA IdleSerial == SerialRequest(Idle)
<1>1. Idle.patch = <<>> /\ DOMAIN <<>> = {} /\ Idle.kind = None /\ Idle.step = "idle"
  BY DEF Idle
<1>2. None \notin Kinds
  BY AccountsAssumption
<1> QED BY <1>1, <1>2 DEF SerialRequest, Overwrites, Same, CodeKinds, Resends, Kinds

\* A step of the only request there is, or of one that arrives.
LEMMA SerialStep ==
  ASSUME RowsInv, SerialInv, ~overlapped, NEW s \in Slots, slot[s] # Idle \/ Busy = {},
         NEW q, slot' = [slot EXCEPT ![s] = q], SerialRequest(q)', SerialRequest(Idle)',
         \A k \in {"otp", "token"} : Kept(k)', \A c \in Codes : UsedUp(c)'
  PROVE  SerialInv'
<1>1. \A t \in Slots \ {s} : slot[t] = Idle
  BY DEF SerialInv, Busy
<1>2. /\ slot'[s] = q
      /\ \A t \in Slots \ {s} : slot'[t] = Idle
  BY <1>1 DEF RowsInv, Typed
<1>3. \A t, u \in Busy' : t = u
  BY <1>2 DEF Busy
<1>4. ASSUME NEW t \in Slots PROVE SerialRequest(slot[t])'
  <2>1. slot'[t] = q \/ slot'[t] = Idle
    BY <1>2
  <2> HIDE DEF Idle
  <2> QED BY <2>1 DEF SerialRequest
<1> QED BY <1>3, <1>4 DEF SerialInv

LEMMA SerialMove ==
  ASSUME RowsInv, SerialInv, NEW s \in Slots, slot[s] # Idle, NEW q, Goto(s, q), Unwritten,
         ~overlapped => SerialRequest(q)
  PROVE  SerialInv'
<1>1. /\ UNCHANGED <<user, now, requests, mailed, latest, covered, proven, used, overlapped>>
      /\ slot' = [slot EXCEPT ![s] = q]
  BY DEF Unwritten, History, Goto
<1>2. CASE overlapped
  BY <1>1, <1>2 DEF SerialInv
<1>3. CASE ~overlapped
  <2>1. \A k \in {"otp", "token"} : Kept(k)'
    BY <1>1, <1>3 DEF SerialInv, Kept, Bears
  <2>2. \A c \in Codes : UsedUp(c)'
    BY <1>1, <1>3 DEF SerialInv, UsedUp
  <2>3. SerialRequest(q)'
    BY <1>1, <1>3 DEF SerialRequest, Bears, Overwrites, Same
  <2>4. SerialRequest(Idle)'
    <3>1. PICK r : r = Idle
      OBVIOUS
    <3>2. SerialRequest(r)
      BY <3>1, IdleSerial
    <3>3. SerialRequest(r)'
      BY <1>1, <3>2 DEF SerialRequest, Bears, Overwrites, Same
    <3> HIDE DEF Idle
    <3> QED BY <3>1, <3>3 DEF SerialRequest
  <2> QED BY <1>1, <1>3, <2>1, <2>2, <2>3, <2>4, SerialStep
<1> QED BY <1>2, <1>3

LEMMA SerialFinish ==
  ASSUME RowsInv, SerialInv, NEW s \in Slots, slot[s] # Idle, Finish(s), Unwritten
  PROVE  SerialInv'
BY IdleSerial, SerialMove DEF Finish

\* A request that copies row u, whose codes are those of the table but for kind k.
LEMMA CopySerial ==
  ASSUME RowsInv, SerialInv, ~overlapped, NEW s \in Slots, SerialRequest(slot[s]),
         NEW q, q.kind = slot[s].kind, q.code = slot[s].code, q.step \in {"save", "update"},
         slot[s].kind # "resetPassword",
         \A k \in {"otp", "token"} : Same(q.patch, k)
  PROVE  SerialRequest(q)
<1>1. \A c \in Codes : used[c] # 0 /\ "otp" \in DOMAIN q.patch => q.patch.otp # c
  BY DEF SerialInv, UsedUp, Same
<1> QED BY <1>1 DEF SerialRequest, Overwrites

\* A pending request is of some kind and at some step; what it holds.
LEMMA Holds ==
  ASSUME RowsInv, SerialInv, NEW s \in Slots, slot[s].step # "idle"
  PROVE  /\ slot[s] # Idle /\ RequestOK(slot[s]) /\ DOMAIN slot[s] = Fields
         /\ DOMAIN user = UserColumns
         /\ ~overlapped => SerialRequest(slot[s])
BY DEF RowsInv, RequestOK, RowOK, SerialInv, Idle

LEMMA LoadsSerial ==
  ASSUME RowsInv, SerialInv, NEW s \in Slots,
         CheckResend(s) \/ ValidateOtp(s) \/ ResetPassword(s) \/ EditAccount(s)
           \/ CancelSubscription(s) \/ StartFreeTrial(s)
  PROVE  SerialInv'
<1> DEFINE r == slot[s]
<1>1. /\ r # Idle /\ DOMAIN r = Fields /\ DOMAIN user = UserColumns /\ RequestOK(r)
      /\ ~overlapped => SerialRequest(r)
  BY Holds DEF CheckResend, ValidateOtp, ResetPassword, EditAccount, CancelSubscription,
     StartFreeTrial, Loading
<1>2. CASE Finish(s) /\ Unwritten
  BY <1>1, <1>2, SerialFinish
<1>3. CASE CheckResend(s) /\ ~Finish(s)
  <2>1. PICK q : q = [r EXCEPT !.step = "generate", !.loaded = user]
    OBVIOUS
  <2>2. Goto(s, q) /\ Unwritten /\ r.kind \in Resends /\ r.step = "load"
    BY <1>3, <2>1 DEF CheckResend, Loading, Resends
  <2>3. /\ q.step = "generate" /\ q.loaded = user
        /\ q.kind = r.kind /\ q.code = r.code /\ q.patch = r.patch
    BY <1>1, <2>1 DEF Fields
  <2>4. ASSUME ~overlapped PROVE SerialRequest(q)
    <3>1. \A c \in Codes : used[c] # 0 => user.otp # c
      BY <2>4 DEF SerialInv, UsedUp
    <3>2. \A k \in {"otp", "token"} : Same(user, k)
      BY DEF Same
    <3>3. \A k \in {"otp", "token"} : Same(r.patch, k)
      BY <1>1, <2>2, <2>4 DEF SerialRequest, Overwrites, Resends
    <3> QED BY <1>1, <2>2, <2>3, <2>4, <3>1, <3>2, <3>3
            DEF SerialRequest, Overwrites, CodeKinds, Resends
  <2> QED BY <1>1, <2>2, <2>4, SerialMove
<1>4. CASE ValidateOtp(s) /\ ~Finish(s)
  <2>1. PICK q : q = [r EXCEPT !.step = "validated"]
    OBVIOUS
  <2>2. Goto(s, q) /\ Unwritten /\ r.kind = "resetPassword" /\ r.step = "load"
        /\ user.otp = r.code
    BY <1>4, <2>1 DEF ValidateOtp, Loading
  <2>3. q.step = "validated" /\ q.kind = r.kind /\ q.code = r.code /\ q.patch = r.patch
    BY <1>1, <2>1 DEF Fields
  <2>4. ASSUME ~overlapped PROVE SerialRequest(q)
    <3>1. \A k \in {"otp", "token"} : Same(r.patch, k)
      BY <1>1, <2>2, <2>4 DEF SerialRequest, Overwrites, Resends
    <3> QED BY <1>1, <2>2, <2>3, <2>4, <3>1 DEF SerialRequest, Overwrites, CodeKinds, Resends
  <2> QED BY <1>1, <2>2, <2>4, SerialMove
<1>5. CASE ResetPassword(s)
  <2>1. PICK u : u = [user EXCEPT !.password = "reset", !.otp = None, !.otpExpires = None]
    OBVIOUS
  <2>2. DOMAIN u = UserColumns /\ u.otp = None
        /\ u.token = user.token /\ u.tokenExpires = user.tokenExpires
    BY <1>1, <2>1 DEF UserColumns
  <2>3. PICK q : q = [r EXCEPT !.step = "update", !.patch = u]
    OBVIOUS
  <2>4. Goto(s, q) /\ Unwritten /\ r.kind = "resetPassword" /\ r.step = "validated"
    BY <1>1, <1>5, <2>1, <2>3 DEF ResetPassword, RequestOK
  <2>5. q.step = "update" /\ q.kind = r.kind /\ q.code = r.code /\ q.patch = u
    BY <1>1, <2>3 DEF Fields
  <2>6. ASSUME ~overlapped PROVE SerialRequest(q)
    <3>1. Same(u, "token")
      BY <2>2 DEF Same
    <3>2. \A c \in Codes : u.otp # c
      BY <2>2, AccountsAssumption DEF Codes
    <3>3. "otp" \in DOMAIN u
      BY <2>2 DEF UserColumns
    <3> QED BY <1>1, <2>2, <2>4, <2>5, <2>6, <3>1, <3>2, <3>3
            DEF SerialRequest, Overwrites, CodeKinds, Resends
  <2> QED BY <1>1, <2>4, <2>6, SerialMove
<1>6. CASE EditAccount(s)
  <2>1. PICK u : /\ u = user \/ u = [user EXCEPT !.password = "changed"]
                 /\ SaveLater(s, u) /\ Unwritten
    BY <1>6 DEF EditAccount
  <2>2. r.kind # "resetPassword"
    BY <1>6 DEF EditAccount, Loading
  <2>3. PICK q : q = [r EXCEPT !.step = "save", !.patch = u]
    OBVIOUS
  <2>4. q.step = "save" /\ q.kind = r.kind /\ q.code = r.code /\ q.patch = u
    BY <1>1, <2>3 DEF Fields
  <2>5. \A k \in {"otp", "token"} : Same(u, k)
    BY <1>1, <2>1 DEF Same, UserColumns
  <2> QED BY <1>1, <2>1, <2>2, <2>3, <2>4, <2>5, CopySerial, SerialMove DEF SaveLater
<1>7. CASE CancelSubscription(s) /\ ~Finish(s)
  <2>1. PICK q : q = [r EXCEPT !.step = "update", !.patch = FreeTier]
    OBVIOUS
  <2>2. Goto(s, q) /\ Unwritten /\ r.kind # "resetPassword"
    BY <1>7, <2>1 DEF CancelSubscription, Loading
  <2>3. q.step = "update" /\ q.kind = r.kind /\ q.code = r.code /\ q.patch = FreeTier
    BY <1>1, <2>1 DEF Fields
  <2>4. \A k \in {"otp", "token"} : Same(q.patch, k)
    BY <2>3 DEF Same, FreeTier
  <2> QED BY <1>1, <2>2, <2>3, <2>4, CopySerial, SerialMove
<1>8. CASE StartFreeTrial(s) /\ ~Finish(s)
  <2>1. PICK u : u = [user EXCEPT !.subscriptionType = "PREMIUM", !.isSubscribed = TRUE,
                        !.subscriptionExpiresAt = now + PlanLife, !.hasUsedFreeTrial = TRUE]
    OBVIOUS
  <2>2. PICK q : q = [r EXCEPT !.step = "save", !.patch = u]
    OBVIOUS
  <2>3. Goto(s, q) /\ Unwritten /\ r.kind # "resetPassword"
    BY <1>8, <2>1, <2>2 DEF StartFreeTrial, SaveLater, Loading
  <2>4. q.step = "save" /\ q.kind = r.kind /\ q.code = r.code /\ q.patch = u
    BY <1>1, <2>2 DEF Fields
  <2>5. \A k \in {"otp", "token"} : Same(u, k)
    BY <1>1, <2>1 DEF Same, UserColumns
  <2> QED BY <1>1, <2>3, <2>4, <2>5, CopySerial, SerialMove
<1> QED BY <1>2, <1>3, <1>4, <1>5, <1>6, <1>7, <1>8
        DEF CheckResend, ValidateOtp, CancelSubscription, StartFreeTrial

LEMMA VerifyEmailSerial ==
  ASSUME RowsInv, SerialInv, NEW s \in Slots, VerifyEmail(s)
  PROVE  SerialInv'
<1> DEFINE r == slot[s]
<1>1. /\ r # Idle /\ DOMAIN r = Fields /\ DOMAIN user = UserColumns
      /\ ~overlapped => SerialRequest(r)
      /\ r.kind = "verifyEmail" /\ r.step = "load" /\ Unwritten
  BY Holds DEF VerifyEmail, Loading
<1>2. CASE Finish(s)
  BY <1>1, <1>2, SerialFinish
<1>3. PICK spent : spent = [user EXCEPT !.token = None, !.tokenExpires = None]
  OBVIOUS
<1>4. DOMAIN spent = UserColumns /\ spent.otp = user.otp
  BY <1>1, <1>3 DEF UserColumns
<1>5. ASSUME NEW q, q.kind = "verifyEmail", q.step \in {"mail", "save"}, q.code = r.code,
             user.token = r.code, q.patch.otp = user.otp,
             q.patch.isEmailVerified \/ now > user.tokenExpires, ~overlapped
      PROVE  SerialRequest(q)
  <2>1. \A c \in Codes : used[c] # 0 => q.patch.otp # c
    BY <1>5 DEF SerialInv, UsedUp
  <2>2. Same(q.patch, "otp")
    BY <1>5 DEF Same
  <2> QED BY <1>5, <2>1, <2>2 DEF SerialRequest, Overwrites, CodeKinds, Resends
<1>6. CASE user.token = r.code /\ now > user.tokenExpires /\ SaveLater(s, spent)
  <2>1. PICK q : q = [r EXCEPT !.step = "save", !.patch = spent]
    OBVIOUS
  <2>2. q.step = "save" /\ q.kind = r.kind /\ q.code = r.code /\ q.patch = spent
    BY <1>1, <2>1 DEF Fields
  <2>3. ~overlapped => SerialRequest(q)
    BY <1>1, <1>4, <1>5, <1>6, <2>2
  <2> QED BY <1>1, <1>6, <2>1, <2>3, SerialMove DEF SaveLater
<1>7. CASE user.token = r.code
           /\ Goto(s, [slot[s] EXCEPT !.step = "mail",
                                      !.patch = [spent EXCEPT !.isEmailVerified = TRUE]])
  <2>1. PICK u : u = [spent EXCEPT !.isEmailVerified = TRUE]
    OBVIOUS
  <2>2. u.otp = user.otp /\ u.isEmailVerified = TRUE
    BY <1>4, <2>1 DEF UserColumns
  <2>3. PICK q : q = [r EXCEPT !.step = "mail", !.patch = u]
    OBVIOUS
  <2>4. q.step = "mail" /\ q.kind = r.kind /\ q.code = r.code /\ q.patch = u
    BY <1>1, <2>3 DEF Fields
  <2>5. ~overlapped => SerialRequest(q)
    BY <1>1, <1>5, <1>7, <2>2, <2>4
  <2> QED BY <1>1, <1>7, <2>1, <2>3, <2>5, SerialMove
<1> QED BY <1>2, <1>3, <1>6, <1>7 DEF VerifyEmail

LEMMA GenerateSerial ==
  ASSUME RowsInv, SerialInv, NEW s \in Slots, GenerateCode(s)
  PROVE  SerialInv'
<1> DEFINE r == slot[s]
           c == r.code
<1>1. /\ r # Idle /\ DOMAIN r = Fields /\ DOMAIN user = UserColumns /\ RequestOK(r)
      /\ ~overlapped => SerialRequest(r)
      /\ r.step = "generate" /\ r.kind \in CodeKinds /\ Unwritten
  BY Holds DEF GenerateCode, RequestOK
<1>2. PICK u :
        u = IF r.kind \in OtpKinds
            THEN [user EXCEPT !.otp = c, !.otpExpires = now + CodeLife, !.otpSentAt = now]
            ELSE [user EXCEPT !.token = c, !.tokenExpires = now + CodeLife, !.isEmailVerified = FALSE]
  OBVIOUS
<1>3. /\ DOMAIN u = UserColumns /\ Bears(u, KindOf(r), c, now + CodeLife)
      /\ \A k \in {"otp", "token"} \ {KindOf(r)} : Same(u, k)
      /\ u.otp \in {c, user.otp}
  BY <1>1, <1>2 DEF UserColumns, KindOf, Same, Bears
<1>4. PICK q : q = [r EXCEPT !.step = "saveCode", !.patch = u]
  OBVIOUS
<1>5. /\ q.step = "saveCode" /\ q.kind = r.kind /\ q.code = r.code
      /\ q.patch = u /\ q.loaded = r.loaded
  BY <1>1, <1>4 DEF Fields
<1>6. KindOf(q) = KindOf(r)
  BY <1>5 DEF KindOf
<1>7. ASSUME ~overlapped PROVE SerialRequest(q)
  <2>1. \A d \in Codes : used[d] # 0 => u.otp # d
    BY <1>1, <1>3, <1>7 DEF SerialInv, UsedUp, SerialRequest
  <2> QED BY <1>1, <1>3, <1>5, <1>6, <1>7, <2>1
          DEF SerialRequest, Overwrites, CodeKinds, Resends
<1>8. Goto(s, q)
  BY <1>2, <1>4 DEF GenerateCode
<1> QED BY <1>1, <1>7, <1>8, SerialMove

LEMMA CheckUpdateSerial ==
  ASSUME RowsInv, SerialInv, NEW s \in Slots, CheckUpdate(s)
  PROVE  SerialInv'
<1> DEFINE r == slot[s]
<1>1. /\ r # Idle /\ DOMAIN r = Fields /\ RequestOK(r)
      /\ ~overlapped => SerialRequest(r)
      /\ r.step = "update" /\ Unwritten
  BY Holds DEF CheckUpdate
<1>2. PICK u, p : u = UpdateUser(user, p) /\ p = r.patch
  OBVIOUS
<1>3. CASE Finish(s)
  BY <1>1, <1>3, SerialFinish
<1>4. CASE u # None /\ SaveLater(s, u)
  <2>1. PICK q : q = [r EXCEPT !.step = "save", !.patch = u]
    OBVIOUS
  <2>2. q.step = "save" /\ q.kind = r.kind /\ q.code = r.code /\ q.patch = u
    BY <1>1, <2>1 DEF Fields
  <2>3. \A c \in {"otp", "token", "tokenExpires", "isEmailVerified"} :
          /\ c \in DOMAIN u <=> c \in DOMAIN p
          /\ c \in DOMAIN p => u[c] = p[c]
    BY <1>1, <1>2, <1>4, Updated DEF RequestOK
  <2>4. PatchOK(p)
    BY <1>1, <1>2 DEF RequestOK
  <2>5. \A k \in {"otp", "token"} : Same(p, k) => Same(u, k)
    BY <2>3, <2>4 DEF Same, PatchOK
  <2>6. KindOf(q) = KindOf(r)
    BY <2>2 DEF KindOf
  <2>7. ASSUME ~overlapped PROVE SerialRequest(q)
    <3>1. \A k \in {"otp", "token"} : Overwrites(q, k)
      BY <1>1, <1>2, <2>2, <2>5, <2>6, <2>7 DEF SerialRequest, Overwrites
    <3> QED BY <1>1, <1>2, <2>2, <2>3, <2>7, <3>1 DEF SerialRequest
  <2> QED BY <1>1, <1>4, <2>1, <2>7, SerialMove DEF SaveLater
<1> QED BY <1>1, <1>2, <1>3, <1>4 DEF CheckUpdate

LEMMA ConfirmSerial ==
  ASSUME RowsInv, SerialInv, NEW s \in Slots, SendConfirmation(s)
  PROVE  SerialInv'
<1> DEFINE r == slot[s]
<1>1. /\ r # Idle /\ DOMAIN r = Fields /\ RequestOK(r)
      /\ ~overlapped => SerialRequest(r)
      /\ r.step = "mail" /\ r.kind = "verifyEmail" /\ Unwritten
  BY Holds DEF SendConfirmation
<1>2. PICK q : q = [r EXCEPT !.step = "save", !.patch = r.patch]
  OBVIOUS
<1>3. q.step = "save" /\ q.kind = r.kind /\ q.code = r.code /\ q.patch = r.patch
  BY <1>1, <1>2 DEF Fields
<1>4. ASSUME ~overlapped PROVE SerialRequest(q)
  BY <1>1, <1>3, <1>4 DEF SerialRequest, Overwrites, CodeKinds, Resends
<1> QED BY <1>1, <1>2, <1>4, SerialMove DEF SendConfirmation, SaveLater

(***************************************************************************)
(* Writes, without overlap.                                                *)
(***************************************************************************)
LEMMA IdleStays == SerialRequest(Idle)'
<1>1. Idle.patch = <<>> /\ DOMAIN <<>> = {} /\ Idle.kind = None /\ Idle.step = "idle"
  BY DEF Idle
<1>2. None \notin Kinds
  BY AccountsAssumption
<1> QED BY <1>1, <1>2 DEF SerialRequest, Overwrites, Same, CodeKinds, Resends, Kinds

\* What a write leaves in the columns of the codes.
LEMMA CodesWritten ==
  ASSUME RowsInv, NEW p, PatchOK(p), Write(p)
  PROVE  /\ user'.otp = IF "otp" \in DOMAIN p THEN p.otp ELSE user.otp
         /\ user'.token = IF "token" \in DOMAIN p THEN p.token ELSE user.token
         /\ user'.tokenExpires = IF "token" \in DOMAIN p THEN p.tokenExpires ELSE user.tokenExpires
         /\ \A c, date : \A k \in {"otp", "token"} :
              Same(p, k) /\ Bears(user, k, c, date) => Bears(user', k, c, date)
         /\ \A c, date : \A k \in {"otp", "token"} :
              k \in DOMAIN p /\ Bears(p, k, c, date) => Bears(user', k, c, date)
<1>1. /\ \A c \in DOMAIN p : user'[c] = p[c]
      /\ \A c \in UserColumns \ DOMAIN p : user'[c] = user[c]
      /\ "token" \in DOMAIN p <=> "tokenExpires" \in DOMAIN p
  BY Written DEF PatchOK
<1>2. /\ user'.otp = IF "otp" \in DOMAIN p THEN p.otp ELSE user.otp
      /\ user'.token = IF "token" \in DOMAIN p THEN p.token ELSE user.token
      /\ user'.tokenExpires = IF "token" \in DOMAIN p THEN p.tokenExpires ELSE user.tokenExpires
  BY <1>1 DEF UserColumns
<1> QED BY <1>2 DEF Same, Bears

LEMMA SaveCodeSerial ==
  ASSUME RowsInv, SerialInv, NEW s \in Slots, SaveCode(s)
  PROVE  SerialInv'
<1> DEFINE r == slot[s]
<1>1. /\ r # Idle /\ DOMAIN r = Fields /\ RequestOK(r) /\ DOMAIN user = UserColumns
      /\ ~overlapped => SerialRequest(r)
      /\ r.step = "saveCode" /\ r.kind \in CodeKinds
  BY Holds DEF SaveCode, RequestOK
<1>2. /\ UNCHANGED <<now, requests, mailed, covered, proven, used, overlapped>>
      /\ latest' = [latest EXCEPT ![KindOf(r)] = NoMail]
  BY DEF SaveCode, KindOfCode, KindOf
<1>3. CASE overlapped
  BY <1>2, <1>3 DEF SerialInv
<1>4. CASE ~overlapped
  <2>1. PICK p : p = r.patch
    OBVIOUS
  <2>2. PatchOK(p) /\ Write(p) /\ DOMAIN p = UserColumns
    BY <1>1, <2>1 DEF SaveCode, RequestOK
  <2>3. PICK kind \in {"otp", "token"} : kind = KindOf(r)
    BY DEF KindOf
  <2>4. /\ user'.otp = IF "otp" \in DOMAIN p THEN p.otp ELSE user.otp
        /\ \A c, date : \A k \in {"otp", "token"} :
              Same(p, k) /\ Bears(user, k, c, date) => Bears(user', k, c, date)
        /\ \A c, date : \A k \in {"otp", "token"} :
              k \in DOMAIN p /\ Bears(p, k, c, date) => Bears(user', k, c, date)
    BY <2>2, CodesWritten
  <2>5. \A k \in {"otp", "token"} \ {kind} : Same(p, k)
    BY <1>1, <1>4, <2>1, <2>3 DEF SerialRequest, Overwrites, CodeKinds, Resends
  <2>6. Bears(p, kind, r.code, now + CodeLife)
    BY <1>1, <1>4, <2>1, <2>3 DEF SerialRequest
  <2>7. ASSUME NEW k \in {"otp", "token"} PROVE Kept(k)'
    <3>1. CASE k = kind
      <4>1. latest'[k].code = None
        BY <1>2, <2>3, <3>1 DEF RowsInv, Typed, NoMail
      <4> QED BY <4>1 DEF Kept
    <3>2. CASE k # kind
      <4>1. latest'[k] = latest[k] /\ Kept(k) /\ Same(p, k)
        BY <1>2, <1>4, <2>3, <2>5, <3>2 DEF RowsInv, Typed, SerialInv
      <4> QED BY <1>2, <2>4, <4>1 DEF Kept
    <3> QED BY <3>1, <3>2
  <2>8. \A c \in Codes : UsedUp(c)'
    BY <1>1, <1>2, <1>4, <2>1, <2>4 DEF SerialInv, SerialRequest, UsedUp
  <2>9. PICK q : q = [r EXCEPT !.step = "mail", !.patch = <<>>]
    OBVIOUS
  <2>10. /\ q.step = "mail" /\ q.kind = r.kind /\ q.code = r.code /\ q.patch = <<>>
         /\ q.loaded = r.loaded /\ KindOf(q) = kind
    BY <1>1, <2>3, <2>9 DEF Fields, KindOf
  <2>11. slot' = [slot EXCEPT ![s] = q]
    BY <2>9 DEF SaveCode, Goto
  <2>12. Bears(user', kind, r.code, now + CodeLife)
    BY <2>2, <2>3, <2>4, <2>6 DEF UserColumns
  <2>13. \A k \in {"otp", "token"} \ {kind} : Same(r.loaded, k) => Same(q.loaded, k)'
    <3> SUFFICES ASSUME NEW k \in {"otp", "token"} \ {kind}, Same(r.loaded, k)
                 PROVE  Same(q.loaded, k)'
      OBVIOUS
    <3>1. Bears(user, k, user[k], user.tokenExpires)
      BY DEF Bears
    <3>2. Bears(user', k, user[k], user.tokenExpires)
      BY <2>4, <2>5, <3>1
    <3> QED BY <2>10, <3>2 DEF Same, Bears
  <2>14. SerialRequest(q)'
    <3>1. DOMAIN <<>> = {}
      OBVIOUS
    <3>2. r.kind # "resetPassword"
      BY <1>1 DEF CodeKinds, Resends
    <3>3. \A k \in {"otp", "token"} : Overwrites(q, k)'
      BY <2>10, <3>1 DEF Overwrites, Same
    <3> QED BY <1>1, <1>2, <1>4, <2>3, <2>10, <2>12, <2>13, <3>1, <3>2, <3>3
            DEF SerialRequest, KindOf, Bears
  <2> QED BY <1>1, <1>4, <2>7, <2>8, <2>11, <2>14, IdleStays, SerialStep
<1> QED BY <1>3, <1>4

LEMMA SendCodeSerial ==
  ASSUME RowsInv, SerialInv, NEW s \in Slots, SendCode(s)
  PROVE  SerialInv'
<1> DEFINE r == slot[s]
<1>1. /\ r # Idle /\ DOMAIN r = Fields /\ RequestOK(r) /\ DOMAIN user = UserColumns
      /\ ~overlapped => SerialRequest(r)
      /\ r.step = "mail" /\ r.kind \in CodeKinds /\ r.code \in Codes
  BY Holds, Numbers DEF SendCode, RequestOK, RowsInv
<1>2. /\ UNCHANGED <<user, now, requests, covered, proven, used, overlapped>>
      /\ mailed' = [mailed EXCEPT ![r.code] = now + CodeLife]
      /\ latest' = [latest EXCEPT ![KindOf(r)] = [code |-> r.code, resent |-> r.kind \in Resends]]
  BY DEF SendCode, KindOfCode, KindOf, Resends
<1>3. CASE overlapped
  BY <1>2, <1>3 DEF SerialInv
<1>4. CASE ~overlapped
  <2>1. PICK kind \in {"otp", "token"} : kind = KindOf(r)
    BY DEF KindOf
  <2>2. /\ mailed'[r.code] = now + CodeLife /\ now + CodeLife # None
        /\ \A c \in Codes \ {r.code} : mailed'[c] = mailed[c]
        /\ mailed[r.code] = None
    BY <1>1, <1>2, <1>4, AccountsAssumption DEF RowsInv, Typed, SerialRequest
  <2>3. /\ latest'[kind].code = r.code /\ latest'[kind].resent = (r.kind \in Resends)
        /\ \A k \in {"otp", "token"} \ {kind} : latest'[k] = latest[k]
        /\ \A k \in {"otp", "token"} : latest[k].code \in Codes \cup {None}
    BY <1>2, <2>1 DEF RowsInv, Typed
  <2>4. Bears(user, kind, r.code, now + CodeLife)
    BY <1>1, <1>4, <2>1 DEF SerialRequest
  <2>5. ASSUME NEW k \in {"otp", "token"} PROVE Kept(k)'
    <3>1. CASE k = kind
      BY <1>2, <2>2, <2>3, <2>4, <3>1 DEF Kept, Bears
    <3>2. CASE k # kind
      <4>1. latest'[k] = latest[k] /\ Kept(k)
        BY <1>4, <2>3, <3>2 DEF SerialInv
      <4>2. latest[k].code # None => mailed'[latest[k].code] = mailed[latest[k].code]
        BY <2>2, <2>3, <4>1 DEF Kept
      <4> QED BY <1>2, <4>1, <4>2 DEF Kept, Bears
    <3> QED BY <3>1, <3>2
  <2>6. \A c \in Codes : UsedUp(c)'
    BY <1>2, <1>4, <2>2 DEF SerialInv, UsedUp
  <2>7. PICK q : q = AfterMail(s)
    OBVIOUS
  <2>8. slot' = [slot EXCEPT ![s] = q]
    BY <2>7 DEF SendCode, Goto
  <2>9. SerialRequest(q)'
    <3>1. CASE r.kind = "forgotPassword"
      BY <2>7, <3>1, IdleStays DEF AfterMail
    <3>2. CASE r.kind = "signUp"
      <4>1. q = [r EXCEPT !.step = "update", !.patch = [tokenSentAt |-> now]]
        BY <2>7, <3>2 DEF AfterMail
      <4>2. /\ q.step = "update" /\ q.kind = r.kind /\ q.code = r.code
            /\ DOMAIN q.patch = {"tokenSentAt"}
        BY <1>1, <4>1 DEF Fields
      <4> QED BY <3>2, <4>2 DEF SerialRequest, Overwrites, Same, CodeKinds, Resends
    <3>3. CASE r.kind \in Resends
      <4>1. PICK field \in {"otpSentAt", "tokenSentAt"} :
              q = [r EXCEPT !.step = "update", !.loaded = None,
                            !.patch = [r.loaded EXCEPT ![field] = now]]
        BY <2>7, <3>3 DEF AfterMail, Resends
      <4>2. DOMAIN r.loaded = UserColumns
        BY <1>1, <3>3 DEF RequestOK, RowOK
      <4>3. /\ q.step = "update" /\ q.kind = r.kind /\ q.code = r.code
            /\ DOMAIN q.patch = UserColumns /\ q.patch.otp = r.loaded.otp
            /\ q.patch.token = r.loaded.token /\ q.patch.tokenExpires = r.loaded.tokenExpires
        BY <1>1, <4>1, <4>2 DEF Fields, UserColumns
      <4>4. \A k \in {"otp", "token"} \ {kind} : Same(r.loaded, k)
        BY <1>1, <1>4, <2>1, <3>3 DEF SerialRequest
      <4>5. \A c \in Codes : used[c] # 0 => r.loaded.otp # c
        BY <1>1, <1>4, <3>3 DEF SerialRequest
      <4>6. ASSUME NEW k \in {"otp", "token"} PROVE Overwrites(q, k)'
        <5>1. CASE k = kind
          <6>1. KindOf(q) = kind
            BY <2>1, <4>3 DEF KindOf
          <6> QED BY <2>3, <3>3, <4>3, <5>1, <6>1 DEF Overwrites, KindOf
        <5>2. CASE k # kind
          <6>1. Same(q.patch, k)
            BY <4>2, <4>3, <4>4, <5>2 DEF Same, UserColumns
          <6> QED BY <1>2, <6>1 DEF Overwrites, Same
        <5> QED BY <5>1, <5>2
      <4> QED BY <1>2, <3>3, <4>3, <4>5, <4>6 DEF SerialRequest, CodeKinds, Resends
    <3> QED BY <1>1, <3>1, <3>2, <3>3 DEF CodeKinds
  <2> QED BY <1>1, <1>4, <2>5, <2>6, <2>8, <2>9, IdleStays, SerialStep
<1> QED BY <1>3, <1>4

LEMMA SaveSerial ==
  ASSUME RowsInv, SerialInv, NEW s \in Slots, Save(s)
  PROVE  SerialInv'
<1> DEFINE r == slot[s]
<1>1. /\ r # Idle /\ DOMAIN r = Fields /\ RequestOK(r) /\ DOMAIN user = UserColumns
      /\ ~overlapped => SerialRequest(r)
      /\ r.step = "save"
  BY Holds DEF Save
<1>2. /\ UNCHANGED <<now, requests, mailed, latest, overlapped>>
      /\ slot' = [slot EXCEPT ![s] = Idle]
      /\ used' = IF r.kind = "resetPassword" THEN [used EXCEPT ![r.code] = @ + 1] ELSE used
      /\ proven' = (proven \/ Vouches(s))
  BY DEF Save, Finish, Goto
<1>3. CASE overlapped
  BY <1>2, <1>3 DEF SerialInv
<1>4. CASE ~overlapped
  <2>1. PICK p : p = r.patch
    OBVIOUS
  <2>2. PatchOK(p) /\ Write(p)
    BY <1>1, <2>1 DEF Save, RequestOK
  <2>3. /\ user'.otp = IF "otp" \in DOMAIN p THEN p.otp ELSE user.otp
        /\ \A c, date : \A k \in {"otp", "token"} :
              Same(p, k) /\ Bears(user, k, c, date) => Bears(user', k, c, date)
    BY <2>2, CodesWritten
  <2>4. ASSUME NEW c \in Codes PROVE UsedUp(c)'
    <3>1. CASE r.kind = "resetPassword" /\ c = r.code
      <4>1. user'.otp = None /\ c # None /\ mailed[c] # None
        BY <1>1, <1>4, <2>1, <2>3, <3>1, AccountsAssumption DEF SerialRequest, RequestOK, Codes
      <4>2. used[c] = 0
        BY <1>1, <1>4, <3>1 DEF SerialRequest, SerialInv, UsedUp
      <4>3. used'[c] = 1
        BY <1>2, <3>1, <4>2 DEF RowsInv, Typed
      <4> QED BY <1>2, <4>1, <4>3 DEF UsedUp
    <3>2. CASE ~(r.kind = "resetPassword" /\ c = r.code)
      <4>1. used'[c] = used[c]
        BY <1>2, <3>2 DEF RowsInv, Typed
      <4>2. used[c] # 0 => user'.otp # c
        BY <1>1, <1>4, <2>1, <2>3 DEF SerialRequest, SerialInv, UsedUp
      <4> QED BY <1>2, <1>4, <4>1, <4>2 DEF SerialInv, UsedUp
    <3> QED BY <3>1, <3>2
  <2>5. ASSUME NEW k \in {"otp", "token"} PROVE Kept(k)'
    <3>1. PICK c : c = latest[k].code
      OBVIOUS
    <3>2. CASE c = None
      BY <1>2, <3>1, <3>2 DEF Kept
    <3>3. CASE c # None
      <4>1. c \in Codes /\ mailed[c] # None /\ mailed[c] \in Nat
        BY <1>4, <3>1, <3>3 DEF SerialInv, Kept, RowsInv, Typed
      <4> SUFFICES ASSUME ~latest[k].resent, k = "token" => ~proven', used'[c] = 0, mailed[c] >= now
                   PROVE  Bears(user', k, c, mailed[c])
        BY <1>2, <3>1, <4>1 DEF Kept, Bears
      <4>2. used[c] = 0
        BY <1>2, <4>1 DEF RowsInv, Typed
      <4>3. k = "token" => ~proven
        BY <1>2
      <4>4. Bears(user, k, c, mailed[c])
        BY <1>4, <3>1, <3>3, <4>2, <4>3 DEF SerialInv, Kept
      <4>5. Same(p, k)
        <5>1. Overwrites(r, k)
          BY <1>1, <1>4 DEF SerialRequest
        <5>2. ~(k = "otp" /\ r.kind = "resetPassword")
          <6> SUFFICES ASSUME k = "otp", r.kind = "resetPassword" PROVE FALSE
            OBVIOUS
          <6>1. r.code = c
            BY <1>1, <1>4, <4>4 DEF SerialRequest, Bears
          <6>2. used'[c] = 1
            BY <1>2, <4>1, <4>2, <6>1 DEF RowsInv, Typed
          <6> QED BY <6>2
        <5>3. ~(/\ k = "token" /\ r.kind = "verifyEmail" /\ user.token = r.code
                /\ r.patch.isEmailVerified \/ now > user.tokenExpires)
          <6> SUFFICES ASSUME k = "token", r.kind = "verifyEmail", user.token = r.code,
                              r.patch.isEmailVerified \/ now > user.tokenExpires
                       PROVE  FALSE
            OBVIOUS
          <6>1. c = r.code /\ user.tokenExpires = mailed[c]
            BY <4>4 DEF Bears
          <6>2. r.patch.isEmailVerified
            BY <4>1, <6>1 DEF RowsInv, Typed
          <6>3. Vouches(s)
            BY <6>1, <6>2 DEF Vouches
          <6> QED BY <1>2, <6>3
        <5> QED BY <1>1, <2>1, <5>1, <5>2, <5>3 DEF Overwrites
      <4> QED BY <2>3, <4>4, <4>5
    <3> QED BY <3>2, <3>3
  <2> HIDE DEF Idle
  <2> QED BY <1>1, <1>2, <1>4, <2>4, <2>5, IdleStays, SerialStep
<1> QED BY <1>3, <1>4

\* A request arrives; without overlap it is the only one.
LEMMA BeginSerial ==
  ASSUME RowsInv, SerialInv, NEW s \in Slots, NEW kind, NEW step, NEW code, NEW patch,
         Begin(s, kind, step, code, patch),
         "otp" \notin DOMAIN patch, "token" \notin DOMAIN patch,
         step \in {"load", "generate", "update"}, step = "generate" => kind \notin Resends,
         kind \in CodeKinds => code = requests + 1,
         kind = "resetPassword" => step = "load"
  PROVE  SerialInv'
<1>1. /\ UNCHANGED <<user, now, mailed, latest, covered, proven, used>>
      /\ requests < MaxRequests /\ overlapped' = (overlapped \/ Busy # {})
  BY DEF Begin, Count, History
<1>2. CASE overlapped'
  BY <1>2 DEF SerialInv
<1>3. CASE ~overlapped'
  <2>1. ~overlapped /\ Busy = {}
    BY <1>1, <1>3
  <2>2. PICK q : q = [Idle EXCEPT !.kind = kind, !.step = step, !.code = code, !.patch = patch]
    OBVIOUS
  <2>3. slot' = [slot EXCEPT ![s] = q]
    BY <2>2 DEF Begin, Goto
  <2>4. q.step = step /\ q.kind = kind /\ q.code = code /\ q.patch = patch
    BY <2>2 DEF Idle
  <2>5. mailed[requests + 1] = None
    BY <1>1, AccountsAssumption DEF RowsInv, Typed, Codes
  <2>6. SerialRequest(q)'
    BY <1>1, <2>4, <2>5 DEF SerialRequest, Overwrites, Same
  <2>7. \A k \in {"otp", "token"} : Kept(k)'
    BY <1>1, <2>1 DEF SerialInv, Kept, Bears
  <2>8. \A c \in Codes : UsedUp(c)'
    BY <1>1, <2>1 DEF SerialInv, UsedUp
  <2> QED BY <2>1, <2>3, <2>6, <2>7, <2>8, IdleStays, SerialStep
<1> QED BY <1>2, <1>3

LEMMA BeginRequestSerial ==
  ASSUME RowsInv, SerialInv, NEW s \in Slots, BeginRequest(s)
  PROVE  SerialInv'
<1>1. DOMAIN <<>> = {}
  OBVIOUS
<1>2. ASSUME NEW kind, Begin(s, kind, "load", None, <<>>),
             kind \in {"startFreeTrial", "updateUserGenres", "updateAccountDetails", "cancelled"}
      PROVE  SerialInv'
  BY <1>1, <1>2, BeginSerial DEF CodeKinds, Resends
<1>3. ASSUME NEW kind, Begin(s, kind, "load", requests + 1, <<>>), kind \in Resends
      PROVE  SerialInv'
  BY <1>1, <1>3, BeginSerial DEF Resends
<1>4. ASSUME NEW kind, Begin(s, kind, "generate", requests + 1, <<>>),
             kind \in {"signUp", "forgotPassword"}
      PROVE  SerialInv'
  BY <1>1, <1>4, BeginSerial DEF Resends
<1>5. ASSUME NEW kind, NEW c \in Codes, Begin(s, kind, "load", c, <<>>),
             kind \in {"resetPassword", "verifyEmail"}
      PROVE  SerialInv'
  BY <1>1, <1>5, BeginSerial DEF CodeKinds, Resends
<1>6. ASSUME NEW patch \in AdminPatches, Begin(s, "adminUpdate", "update", None, patch)
      PROVE  SerialInv'
  <2>1. "otp" \notin DOMAIN patch /\ "token" \notin DOMAIN patch
    BY DEF AdminPatches
  <2> QED BY <1>6, <2>1, BeginSerial DEF CodeKinds, Resends
<1> QED BY <1>2, <1>3, <1>4, <1>5, <1>6 DEF BeginRequest, Resends

\* The background leaves the columns of the codes alone.
LEMMA BackgroundSerial ==
  ASSUME RowsInv, SerialInv, GrantPremium \/ GrantFreemium \/ EndParty \/ DowngradeExpiredPremiums
  PROVE  SerialInv'
<1>1. /\ UNCHANGED <<now, slot, mailed, latest, proven, used>>
      /\ overlapped' = (overlapped \/ Busy # {})
  BY DEF GrantPremium, GrantFreemium, EndParty, DowngradeExpiredPremiums, Count, History
<1>2. CASE overlapped'
  BY <1>2 DEF SerialInv
<1>3. CASE ~overlapped'
  <2>1. ~overlapped /\ \A s \in Slots : slot[s] = Idle
    BY <1>1, <1>3 DEF Busy
  <2>2. PICK p : Write(p) /\ DOMAIN p \subseteq {"subscriptionType", "isSubscribed",
                                                 "subscriptionExpiresAt", "nextBillingDate"}
    <3>1. CASE GrantFreemium
      <4> DEFINE p == [FreeTier EXCEPT !.subscriptionType = "FREEMIUM", !.isSubscribed = TRUE]
      <4>1. Write(p)
        BY <3>1 DEF GrantFreemium
      <4>2. DOMAIN p = {"subscriptionType", "isSubscribed",
                        "subscriptionExpiresAt", "nextBillingDate"}
        BY DEF FreeTier
      <4> HIDE DEF p
      <4> QED BY <4>1, <4>2
    <3>2. CASE GrantPremium
      BY <3>2 DEF GrantPremium, Premium
    <3>3. CASE EndParty
      BY <3>3 DEF EndParty, FreeTier
    <3>4. CASE DowngradeExpiredPremiums
      BY <3>4 DEF DowngradeExpiredPremiums
    <3> QED BY <3>1, <3>2, <3>3, <3>4
  <2>3. user'.otp = user.otp /\ user'.token = user.token /\ user'.tokenExpires = user.tokenExpires
    <3>1. \A c \in {"otp", "token", "tokenExpires"} : c \in DOMAIN user /\ c \notin DOMAIN p
      BY <2>2 DEF RowsInv, RowOK, UserColumns
    <3> QED BY <2>2, <3>1 DEF Write, Over
  <2>4. \A k \in {"otp", "token"} : Kept(k)'
    BY <1>1, <2>1, <2>3 DEF SerialInv, Kept, Bears
  <2>5. \A c \in Codes : UsedUp(c)'
    BY <1>1, <2>1, <2>3 DEF SerialInv, UsedUp
  <2>6. \A s, t \in Busy' : s = t
    BY <1>1, <2>1 DEF Busy
  <2>7. ASSUME NEW s \in Slots PROVE SerialRequest(slot[s])'
    <3>1. slot'[s] = Idle
      BY <1>1, <2>1
    <3> HIDE DEF Idle
    <3> QED BY <3>1, IdleStays DEF SerialRequest
  <2> QED BY <2>4, <2>5, <2>6, <2>7 DEF SerialInv
<1> QED BY <1>2, <1>3

LEMMA TickSerial ==
  ASSUME RowsInv, SerialInv, Tick
  PROVE  SerialInv'
<1>1. /\ now' = now + 1 /\ \A s \in Slots : slot[s] = Idle
      /\ UNCHANGED <<user, slot, requests, mailed, latest, covered, proven, used, overlapped>>
  BY DEF Tick, Busy, History
<1>2. CASE overlapped
  BY <1>1, <1>2 DEF SerialInv
<1>3. CASE ~overlapped
  <2>1. ASSUME NEW k \in {"otp", "token"} PROVE Kept(k)'
    <3>1. PICK c : c = latest[k].code
      OBVIOUS
    <3>2. Kept(k) /\ c \in Codes \cup {None}
      BY <1>3, <3>1 DEF SerialInv, RowsInv, Typed
    <3>3. c # None /\ mailed[c] # None /\ mailed[c] >= now + 1 => mailed[c] >= now
      BY <3>2 DEF RowsInv, Typed
    <3> QED BY <1>1, <3>1, <3>2, <3>3 DEF Kept, Bears
  <2>2. \A c \in Codes : UsedUp(c)'
    BY <1>1, <1>3 DEF SerialInv, UsedUp
  <2>3. \A s, t \in Busy' : s = t
    BY <1>1 DEF Busy
  <2>4. ASSUME NEW s \in Slots PROVE SerialRequest(slot[s])'
    <3>1. slot'[s] = Idle
      BY <1>1
    <3> HIDE DEF Idle
    <3> QED BY <3>1, IdleStays DEF SerialRequest
  <2> QED BY <2>1, <2>2, <2>3, <2>4 DEF SerialInv
<1> QED BY <1>2, <1>3

LEMMA SerialInit ==
  ASSUME Init
  PROVE  SerialInv
<1>1. /\ \A s \in Slots : slot[s] = Idle
      /\ \A c \in Codes : used[c] = 0
      /\ \A k \in {"otp", "token"} : latest[k].code = None
  BY DEF Init, NoMail
<1>2. \A s \in Slots : SerialRequest(slot[s])
  <2> HIDE DEF Idle
  <2> QED BY <1>1, IdleSerial DEF SerialRequest
<1> QED BY <1>1, <1>2 DEF SerialInv, Busy, Kept, UsedUp

LEMMA SerialNext ==
  ASSUME RowsInv, SerialInv, [Next]_vars
  PROVE  SerialInv'
<1>1. CASE UNCHANGED vars
  BY <1>1 DEF vars, SerialInv, Busy, Kept, UsedUp, SerialRequest, Overwrites, Same, Bears
<1>2. ASSUME NEW s \in Slots, Die(s) PROVE SerialInv'
  BY <1>2, SerialFinish DEF Die
<1>3. CASE Next
  BY <1>2, <1>3, BeginRequestSerial, LoadsSerial, VerifyEmailSerial, GenerateSerial,
     SaveCodeSerial, SendCodeSerial, ConfirmSerial, CheckUpdateSerial, SaveSerial,
     BackgroundSerial, TickSerial DEF Next
<1> QED BY <1>1, <1>3

THEOREM SerialInvariant == Spec => []SerialInv
<1> QED BY RowsInvariant, SerialInit, SerialNext, PTL DEF Spec

\* Where no two requests overlap, a code resets the password at most once, although
\* every request writes whole rows back.
THEOREM ResetsOnce == Spec => []CodeResetsOnce
<1>1. RowsInv /\ SerialInv => CodeResetsOnce
  BY DEF RowsInv, Typed, SerialInv, UsedUp, CodeResetsOnce
<1> QED BY <1>1, RowsInvariant, SerialInvariant, PTL

\* Where no two requests overlap, the code mailed by forgotPassword and the token
\* mailed at sign-up are the ones in the row until they are used or they expire.
THEOREM FirstCodeKept == Spec => []FirstCodeWorks
<1>1. SerialInv => FirstCodeWorks
  BY DEF SerialInv, Kept, Bears, FirstCodeWorks, Works
<1> QED BY <1>1, SerialInvariant, PTL
===============================================================================
