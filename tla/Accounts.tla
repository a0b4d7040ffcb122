------------------------------- MODULE Accounts -------------------------------
(***************************************************************************)
(* One row of the user table: the columns of its plan and of its one-time  *)
(* codes, under every request that writes them (auth.service.ts,           *)
(* user.service.ts), the payments' grant and cancellation, the end of a    *)
(* watch party and the nightly downgrade.                                  *)
(*                                                                         *)
(* Most requests load the row, wait for a hash or a mail, and write every  *)
(* column of what they loaded; updateUser checks the plan's columns on     *)
(* each of its updates.  A request in flight carries the columns it is     *)
(* going to write in `patch'.                                              *)
(***************************************************************************)
EXTENDS Naturals

CONSTANTS
  Slots,        \* requests in flight at once
  MaxRequests,  \* bound: requests and background writes in a behaviour
  MaxTime,      \* bound: the clock
  CodeLife, PlanLife,  \* ticks a code, and a plan, are valid for
  None

VARIABLES
  user,        \* the row
  now,         \* the clock
  slot,        \* the requests in flight
  requests,    \* how many were made
  mailed,      \* history: until when each code is valid, by the mail that brought it
  latest,      \* history: the last code mailed of each kind, unless a newer one was made
  covered,     \* history: until when a plan was ever granted
  proven,      \* history: a live token was presented, or an administrator vouched
  used,        \* history: how often each code has reset the password
  overlapped   \* history: two of all these ever ran at the same time

vars == <<user, now, slot, requests, mailed, latest, covered, proven, used, overlapped>>

Codes == 1..MaxRequests
Passwords == {"initial", "changed", "reset"}
Dates == 0..(MaxTime + CodeLife + PlanLife)
SubscriptionType == {"FREE_TIER", "FREEMIUM", "PREMIUM"}

User == [subscriptionType : SubscriptionType, isSubscribed : BOOLEAN,
         subscriptionExpiresAt : Dates \cup {None}, nextBillingDate : Dates \cup {None},
         hasUsedFreeTrial : BOOLEAN, password : Passwords,
         otp : Codes \cup {None}, otpExpires : Dates \cup {None}, otpSentAt : Dates \cup {None},
         token : Codes \cup {None}, tokenExpires : Dates \cup {None},
         tokenSentAt : Dates \cup {None}, isEmailVerified : BOOLEAN]
Columns == DOMAIN user

Kinds == {"signUp", "forgotPassword", "resendOtp", "resendVerificationEmail", "resetPassword",
          "verifyEmail", "startFreeTrial", "updateUserGenres", "updateAccountDetails",
          "adminUpdate", "cancelled"}

ASSUME AccountsAssumption ==
  /\ MaxRequests \in Nat /\ MaxTime \in Nat
  /\ CodeLife \in Nat /\ PlanLife \in Nat
  /\ None \notin Nat \cup Kinds

\* loaded: the row as read first.  code: the one presented, or made.
Request == [kind : Kinds \cup {None},
            step : {"idle", "load", "validated", "generate", "saveCode", "mail", "save", "update"},
            code : Codes \cup {None}]
Idle == [kind |-> None, step |-> "idle", code |-> None, patch |-> <<>>, loaded |-> None]

NoMail == [code |-> None, resent |-> FALSE]

TypeOK ==
  /\ user \in User
  /\ now \in 0..MaxTime
  /\ \A s \in Slots :
       /\ [kind |-> slot[s].kind, step |-> slot[s].step, code |-> slot[s].code] \in Request
       /\ slot[s].loaded \in User \cup {None}
       /\ DOMAIN slot[s].patch \subseteq Columns
  /\ requests \in 0..MaxRequests
  /\ mailed \in [Codes -> Dates \cup {None}]
  /\ latest \in [{"otp", "token"} -> [code : Codes \cup {None}, resent : BOOLEAN]]
  /\ covered \in Dates
  /\ proven \in BOOLEAN /\ overlapped \in BOOLEAN
  /\ used \in [Codes -> 0..MaxRequests]

Init ==
  /\ user = [subscriptionType |-> "FREE_TIER", isSubscribed |-> FALSE,
             subscriptionExpiresAt |-> None, nextBillingDate |-> None,
             hasUsedFreeTrial |-> FALSE, password |-> "initial",
             otp |-> None, otpExpires |-> None, otpSentAt |-> None,
             token |-> None, tokenExpires |-> None, tokenSentAt |-> None,
             isEmailVerified |-> FALSE]
  /\ now = 0
  /\ slot = [s \in Slots |-> Idle]
  /\ requests = 0
  /\ mailed = [c \in Codes |-> None]
  /\ latest = [k \in {"otp", "token"} |-> NoMail]
  /\ covered = 0
  /\ proven = FALSE
  /\ used = [c \in Codes |-> 0]
  /\ overlapped = FALSE

Busy == {s \in Slots : slot[s] # Idle}
Goto(s, r) == slot' = [slot EXCEPT ![s] = r]
Finish(s) == Goto(s, Idle)

Over(patch, row) ==
  [c \in DOMAIN patch \cup DOMAIN row |-> IF c \in DOMAIN patch THEN patch[c] ELSE row[c]]

\* A write of some columns over the row as it is now.
Write(patch) == user' = Over(patch, user)

\* Bound: requests are counted; two at a time are noted.
Count ==
  /\ requests < MaxRequests
  /\ requests' = requests + 1
  /\ overlapped' = (overlapped \/ Busy # {})

History == <<mailed, latest, covered, proven, used>>

(***************************************************************************)
(* The plan.                                                               *)
(***************************************************************************)
\* Faulty variant: the expiry is not looked at.
TypeOfRow(u) == u.subscriptionType

\* What both guards take a user for, ahead of the nightly downgrade.
EffectiveType(u) ==
  IF u.subscriptionType # "PREMIUM" THEN u.subscriptionType
  ELSE IF u.subscriptionExpiresAt # None /\ u.subscriptionExpiresAt > now
       THEN "PREMIUM" ELSE "FREE_TIER"

Given(patch, c) == IF c \in DOMAIN patch THEN patch[c] ELSE None
IfGiven(patch, c, old) == IF Given(patch, c) = None THEN old[c] ELSE patch[c]
NonRecurring == {"FREE_TIER", "FREEMIUM"}

\* The columns updateUser writes, or None where it throws.
UpdateUser(old, patch) ==
  LET switched == Given(patch, "subscriptionType") # None
      type == IfGiven(patch, "subscriptionType", old)
      forced == switched /\ type \in NonRecurring
      isSubscribed == IF switched THEN type = "PREMIUM"
                      ELSE IfGiven(patch, "isSubscribed", old)
      next == IF forced THEN None ELSE IfGiven(patch, "nextBillingDate", old)
      expires == IF forced THEN None ELSE IfGiven(patch, "subscriptionExpiresAt", old)
      allowed == /\ isSubscribed = (type = "PREMIUM")
                 /\ type \in NonRecurring => next = None /\ expires = None
                 /\ type = "PREMIUM" => /\ next # None /\ expires # None
                                        /\ next > now /\ expires > now /\ expires >= next
      dates == IF forced THEN [nextBillingDate |-> None, subscriptionExpiresAt |-> None]
               ELSE <<>>
  IN IF ~allowed THEN None
     ELSE Over(dates, Over([isSubscribed |-> isSubscribed], patch))

(***************************************************************************)
(* Background writes, each one statement or one transaction.               *)
(***************************************************************************)
Premium(until) == [subscriptionType |-> "PREMIUM", isSubscribed |-> TRUE,
                   subscriptionExpiresAt |-> until, nextBillingDate |-> until]
FreeTier == [subscriptionType |-> "FREE_TIER", isSubscribed |-> FALSE,
             subscriptionExpiresAt |-> None, nextBillingDate |-> None]

Cover(until) == covered' = IF until > covered THEN until ELSE covered

\* The grant of a verified payment.
GrantPremium ==
  /\ Count
  /\ Write(Premium(now + PlanLife))
  /\ Cover(now + PlanLife)
  /\ UNCHANGED <<now, slot, mailed, latest, proven, used>>

GrantFreemium ==
  /\ Count
  /\ Write([FreeTier EXCEPT !.subscriptionType = "FREEMIUM", !.isSubscribed = TRUE])
  /\ UNCHANGED <<now, slot, History>>

\* A watch party ends with this user, on FREEMIUM, among its participants.
EndParty ==
  /\ user.subscriptionType = "FREEMIUM"
  /\ Count
  /\ Write(FreeTier)
  /\ UNCHANGED <<now, slot, History>>

\* The nightly job leaves isSubscribed and nextBillingDate as they are.
DowngradeExpiredPremiums ==
  /\ user.subscriptionType = "PREMIUM"
  /\ user.subscriptionExpiresAt # None /\ user.subscriptionExpiresAt < now
  /\ Write([subscriptionType |-> "FREE_TIER", subscriptionExpiresAt |-> None])
  /\ overlapped' = (overlapped \/ Busy # {})
  /\ UNCHANGED <<now, slot, requests, History>>

\* Time passes between requests: each is far shorter than any lifetime.
Tick ==
  /\ now < MaxTime /\ Busy = {}
  /\ now' = now + 1
  /\ UNCHANGED <<user, slot, requests, History, overlapped>>

(***************************************************************************)
(* Requests.                                                               *)
(***************************************************************************)
\* Columns an administrator may send: any plan, or the flag, or one date.
AdminPatches ==
  {[subscriptionType |-> t] : t \in SubscriptionType}
    \cup {[subscriptionType |-> "PREMIUM", subscriptionExpiresAt |-> now + PlanLife,
           nextBillingDate |-> now + n] : n \in {0, 1}}
    \cup {[isSubscribed |-> b] : b \in BOOLEAN}
    \cup {[subscriptionExpiresAt |-> now + PlanLife], [subscriptionExpiresAt |-> None],
          [isEmailVerified |-> TRUE]}

Begin(s, kind, step, code, patch) ==
  /\ slot[s] = Idle
  /\ Count
  /\ Goto(s, [Idle EXCEPT !.kind = kind, !.step = step, !.code = code, !.patch = patch])
  /\ UNCHANGED <<user, now, History>>

\* A request that makes a code has its own number for it; a code is presented
\* by somebody who got the mail.
BeginRequest(s) ==
  \/ \E kind \in {"startFreeTrial", "updateUserGenres", "updateAccountDetails", "cancelled"} :
       Begin(s, kind, "load", None, <<>>)
  \/ \E kind \in {"resendOtp", "resendVerificationEmail"} :
       Begin(s, kind, "load", requests + 1, <<>>)
  \/ \E kind \in {"signUp", "forgotPassword"} :
       Begin(s, kind, "generate", requests + 1, <<>>)
  \/ \E kind \in {"resetPassword", "verifyEmail"}, c \in Codes :
       mailed[c] # None /\ Begin(s, kind, "load", c, <<>>)
  \/ \E patch \in AdminPatches : Begin(s, "adminUpdate", "update", None, patch)

Loading(s, kind) == slot[s].kind = kind /\ slot[s].step = "load"
SaveLater(s, patch) == Goto(s, [slot[s] EXCEPT !.step = "save", !.patch = patch])
Unwritten == UNCHANGED <<user, now, requests, History, overlapped>>

\* resendOtp and resendVerificationEmail: at most one mail in two minutes.
CheckResend(s) ==
  /\ \/ /\ Loading(s, "resendOtp")
        /\ IF user.otpSentAt = now THEN Finish(s)
           ELSE Goto(s, [slot[s] EXCEPT !.step = "generate", !.loaded = user])
     \/ /\ Loading(s, "resendVerificationEmail")
        /\ IF user.isEmailVerified \/ user.tokenSentAt = now THEN Finish(s)
           ELSE Goto(s, [slot[s] EXCEPT !.step = "generate", !.loaded = user])
  /\ Unwritten

\* validateOtp, and then the row is read again.
ValidateOtp(s) ==
  /\ Loading(s, "resetPassword")
  /\ IF /\ user.otp # None /\ user.otpExpires # None
        /\ user.otpExpires >= now /\ user.otp = slot[s].code
     THEN Goto(s, [slot[s] EXCEPT !.step = "validated"])
     ELSE Finish(s)
  /\ Unwritten

\* Faulty variant: the code stays in the row.
ResetKeepingOtp(s) ==
  /\ slot[s].step = "validated"
  /\ Goto(s, [slot[s] EXCEPT !.step = "update", !.patch = [user EXCEPT !.password = "reset"]])
  /\ Unwritten

ResetPassword(s) ==
  /\ slot[s].step = "validated"
  /\ Goto(s, [slot[s] EXCEPT !.step = "update",
       !.patch = [user EXCEPT !.password = "reset", !.otp = None, !.otpExpires = None]])
  /\ Unwritten

\* Faulty variant: a token is good for ever.
VerifyEmailAnyTime(s) ==
  /\ Loading(s, "verifyEmail")
  /\ IF user.token # slot[s].code \/ user.isEmailVerified THEN Finish(s)
     ELSE Goto(s, [slot[s] EXCEPT !.step = "mail",
            !.patch = [user EXCEPT !.isEmailVerified = TRUE, !.token = None, !.tokenExpires = None]])
  /\ Unwritten

\* The token finds its row; an expired one is cleared.
VerifyEmail(s) ==
  LET spent == [user EXCEPT !.token = None, !.tokenExpires = None] IN
  /\ Loading(s, "verifyEmail")
  /\ IF user.token # slot[s].code \/ user.isEmailVerified THEN Finish(s)
     ELSE IF now > user.tokenExpires THEN SaveLater(s, spent)
     ELSE Goto(s, [slot[s] EXCEPT !.step = "mail",
                                  !.patch = [spent EXCEPT !.isEmailVerified = TRUE]])
  /\ Unwritten

StartFreeTrial(s) ==
  /\ Loading(s, "startFreeTrial")
  /\ IF user.hasUsedFreeTrial \/ (user.isSubscribed /\ user.subscriptionType # "FREE_TIER")
     THEN Finish(s)
     ELSE SaveLater(s, [user EXCEPT !.subscriptionType = "PREMIUM", !.isSubscribed = TRUE,
                          !.subscriptionExpiresAt = now + PlanLife, !.hasUsedFreeTrial = TRUE])
  /\ Unwritten

\* Genres and other personal columns are left out: the whole row is written.
EditAccount(s) ==
  /\ \/ Loading(s, "updateUserGenres") /\ SaveLater(s, user)
     \/ Loading(s, "updateAccountDetails")
        /\ SaveLater(s, [user EXCEPT !.password = "changed"])
  /\ Unwritten

CancelSubscription(s) ==
  /\ Loading(s, "cancelled")
  /\ IF user.subscriptionType = "FREE_TIER" /\ ~user.isSubscribed THEN Finish(s)
     ELSE Goto(s, [slot[s] EXCEPT !.step = "update", !.patch = FreeTier])
  /\ Unwritten

OtpKinds == {"forgotPassword", "resendOtp"}
KindOfCode(s) == IF slot[s].kind \in OtpKinds THEN "otp" ELSE "token"

\* generatePasswordResetOtp and generateEmailVerificationToken.
GenerateCode(s) ==
  LET c == slot[s].code IN
  /\ slot[s].step = "generate"
  /\ Goto(s, [slot[s] EXCEPT !.step = "saveCode",
       !.patch = IF slot[s].kind \in OtpKinds
                 THEN [user EXCEPT !.otp = c, !.otpExpires = now + CodeLife, !.otpSentAt = now]
                 ELSE [user EXCEPT !.token = c, !.tokenExpires = now + CodeLife,
                                   !.isEmailVerified = FALSE]])
  /\ Unwritten

SaveCode(s) ==
  /\ slot[s].step = "saveCode"
  /\ Write(slot[s].patch)
  /\ latest' = [latest EXCEPT ![KindOfCode(s)] = NoMail]
  /\ Goto(s, [slot[s] EXCEPT !.step = "mail", !.patch = <<>>])
  /\ UNCHANGED <<now, requests, mailed, covered, proven, used, overlapped>>

\* Faulty variant: a sign-up, too, writes back the row it had before.
AfterMailWritingBack(s) ==
  CASE slot[s].kind = "forgotPassword" -> Idle
    [] slot[s].kind = "signUp" -> [slot[s] EXCEPT !.step = "update",
         !.patch = [user EXCEPT !.token = None, !.tokenExpires = None, !.tokenSentAt = now]]
    [] OTHER -> [slot[s] EXCEPT !.step = "update", !.loaded = None, !.patch = slot[s].loaded]

\* What is updated once the mail is sent: a resend writes the row as it was
\* loaded before its code was made, with the time.
AfterMail(s) ==
  CASE slot[s].kind = "forgotPassword" -> Idle
    [] slot[s].kind = "signUp" ->
         [slot[s] EXCEPT !.step = "update", !.patch = [tokenSentAt |-> now]]
    [] slot[s].kind = "resendOtp" -> [slot[s] EXCEPT !.step = "update", !.loaded = None,
         !.patch = [slot[s].loaded EXCEPT !.otpSentAt = now]]
    [] OTHER -> [slot[s] EXCEPT !.step = "update", !.loaded = None,
         !.patch = [slot[s].loaded EXCEPT !.tokenSentAt = now]]

SendCode(s) ==
  /\ slot[s].step = "mail" /\ slot[s].kind # "verifyEmail"
  /\ mailed' = [mailed EXCEPT ![slot[s].code] = now + CodeLife]
  /\ latest' = [latest EXCEPT ![KindOfCode(s)] =
       [code |-> slot[s].code,
        resent |-> slot[s].kind \in {"resendOtp", "resendVerificationEmail"}]]
  /\ Goto(s, AfterMail(s))
  /\ UNCHANGED <<user, now, requests, covered, proven, used, overlapped>>

SendConfirmation(s) ==
  /\ slot[s].step = "mail" /\ slot[s].kind = "verifyEmail"
  /\ SaveLater(s, slot[s].patch)
  /\ Unwritten

\* The row is read and checked, then the update is sent.
CheckUpdate(s) ==
  LET patch == UpdateUser(user, slot[s].patch) IN
  /\ slot[s].step = "update"
  /\ IF patch = None THEN Finish(s) ELSE SaveLater(s, patch)
  /\ Unwritten

Vouches(s) ==
  \/ slot[s].kind = "adminUpdate" /\ Given(slot[s].patch, "isEmailVerified") = TRUE
  \/ /\ slot[s].kind = "verifyEmail" /\ slot[s].patch.isEmailVerified
     /\ mailed[slot[s].code] >= now

Save(s) ==
  LET r == slot[s] IN
  /\ r.step = "save"
  /\ Write(r.patch)
  /\ IF r.kind \in {"startFreeTrial", "adminUpdate"} /\ user'.subscriptionExpiresAt # None
     THEN Cover(user'.subscriptionExpiresAt) ELSE UNCHANGED covered
  /\ proven' = (proven \/ Vouches(s))
  /\ used' = IF r.kind = "resetPassword" THEN [used EXCEPT ![r.code] = @ + 1] ELSE used
  /\ Finish(s)
  /\ UNCHANGED <<now, requests, mailed, latest, overlapped>>

\* The mail is not sent, a query fails or the server stops.
Die(s) ==
  /\ slot[s] # Idle
  /\ Finish(s)
  /\ Unwritten

Next ==
  \/ \E s \in Slots :
       \/ BeginRequest(s) \/ CheckResend(s) \/ ValidateOtp(s) \/ ResetPassword(s)
       \/ VerifyEmail(s) \/ StartFreeTrial(s) \/ EditAccount(s) \/ CancelSubscription(s)
       \/ GenerateCode(s) \/ SaveCode(s) \/ SendCode(s) \/ SendConfirmation(s)
       \/ CheckUpdate(s) \/ Save(s) \/ Die(s)
  \/ GrantPremium \/ GrantFreemium \/ EndParty \/ DowngradeExpiredPremiums \/ Tick

Spec == Init /\ [][Next]_vars

(***************************************************************************)
(* Properties.                                                             *)
(***************************************************************************)
\* Whatever requests, grants and downgrades overlap and whichever stale row is
\* written last, the guards take nobody for PREMIUM beyond the end of a plan
\* that was granted: by a payment, the trial or an administrator.
PremiumIsCovered == EffectiveType(user) = "PREMIUM" => now < covered

\* An address counts as verified only after somebody presented a live token
\* of it or an administrator vouched for it, even when requests overlap.
VerifiedWasProven == user.isEmailVerified => proven

\* Where no two requests overlap, a code that has reset the password does not
\* reset it again, though every request writes whole rows back.
CodeResetsOnce == ~overlapped => \A c \in Codes : used[c] <= 1

\* The code or token of a mail that nothing superseded is the one in the row.
Works(k) ==
  LET c == latest[k].code
  IN c # None /\ used[c] = 0 /\ mailed[c] >= now => user[k] = c

\* Where no two requests overlap, the code mailed by forgotPassword and the
\* token mailed at sign-up can be used until they expire or are replaced.
FirstCodeWorks ==
  ~overlapped /\ Busy = {} =>
       /\ ~latest["otp"].resent => Works("otp")
       /\ ~latest["token"].resent /\ ~proven => Works("token")
===============================================================================
