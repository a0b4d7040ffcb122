-------------------------------- MODULE Playback --------------------------------
(***************************************************************************)
(* Watching a title: the page (web/app.js) signs in, asks the service for  *)
(* signed cookies of a title's folder, plays from the CDN with Hls.js, and *)
(* has the cookies renewed, by a timer shortly before they end and when    *)
(* the CDN answers 403.  The service (aws-services) grants cookies to whom *)
(* CloudfrontAccessGuard lets through.                                     *)
(*                                                                         *)
(* Calls are sent, served and answered in steps of their own.  Whether a   *)
(* sign-in succeeds is left open: module Sessions is about that.           *)
(***************************************************************************)
EXTENDS Naturals, Sequences, SequencesExt

CONSTANTS
  Titles,
  PremiumTitles,
  Ttl,        \* how long cookies are good for
  Lead,       \* how long before their end they are renewed
  MaxTime,    \* bound: the clock
  MaxCalls,   \* bound: calls on their way
  MaxActs,    \* bound: what the user does, and what happens to the account
  MaxFaults,  \* bound: calls that are lost, errors of the service and of the player
  None

ASSUME PlaybackAssumption ==
  /\ PremiumTitles \subseteq Titles
  /\ {Ttl, Lead, MaxTime, MaxCalls, MaxActs, MaxFaults} \subseteq Nat
  /\ 0 < Lead /\ Lead < Ttl
  /\ None \notin Nat \cup {"ok", "no"} \cup (Titles \X {"main", "trailer"})

VARIABLES
  now,
  user,     \* subscriptionType and subscriptionExpiresAt
  party,    \* the page's party: none, one the user sits in, one that is over
  page,     \* the page's variables
  hls,      \* the player: what it plays, whether the manifest was read, why it stalled
  cookies,  \* the browser's: until when the cookies of each medium are good
  calls,    \* calls on their way, in the order they were sent
  acts,
  faults,
  steady,   \* history: renewal has not failed, been late or been stopped
  refused   \* history: the renewal that was last asked for after a 403 failed

vars == <<now, user, party, page, hls, cookies, calls, acts, faults, steady, refused>>

\* A title's main film or its trailer, each in a folder of its own.
Media == Titles \X {"main", "trailer"}
NoPlayer == [media |-> None, parsed |-> FALSE, stalled |-> "no"]

Init ==
  /\ now = 0
  /\ user = [type |-> "FREEMIUM", until |-> None]
  /\ party = "none"
  /\ page = [temp |-> FALSE, access |-> "none", refresh |-> FALSE,
             current |-> None, manifest |-> None, timer |-> None]
  /\ hls = NoPlayer
  /\ cookies = [m \in Media |-> 0]
  /\ calls = <<>>
  /\ acts = 0 /\ faults = 0
  /\ steady = FALSE /\ refused = FALSE

Act == acts < MaxActs /\ acts' = acts + 1
Fault == faults < MaxFaults /\ faults' = faults + 1

ForCookies == {"get", "timer", "reactive"}
Room(cs) == Len(cs) < MaxCalls
Send(cs, kind, m, inParty) ==
  Append(cs,
     [kind |-> kind, media |-> m, party |-> inParty,
      token |-> IF kind \in ForCookies THEN page.access ELSE "none",
      sent |-> IF kind \in ForCookies THEN now ELSE 0, answer |-> None, until |-> 0])

(***************************************************************************)
(* Signing in and out.  The buttons are disabled when a step is done.      *)
(***************************************************************************)
Ask(kind) ==
  /\ Room(calls) /\ \A i \in DOMAIN calls : calls[i].kind # kind
  /\ calls' = Send(calls, kind, None, FALSE)
  /\ UNCHANGED <<now, user, party, page, hls, cookies, faults, steady, refused>>

Login == ~page.temp /\ Ask("login") /\ UNCHANGED acts
LoginWithProfile == page.temp /\ page.access = "none" /\ Ask("profile") /\ UNCHANGED acts
RefreshAccessToken == Act /\ page.refresh /\ Ask("token")

\* Only the page forgets its tokens; timer, player and cookies stay.
Logout ==
  /\ Act
  /\ page.temp
  /\ page' = [page EXCEPT !.temp = FALSE, !.access = "none", !.refresh = FALSE]
  /\ UNCHANGED <<now, user, party, hls, cookies, calls, faults, steady, refused>>

AccessTokenExpires ==
  /\ Act
  /\ page.access = "live"
  /\ page' = [page EXCEPT !.access = "dead"]
  /\ UNCHANGED <<now, user, party, hls, cookies, calls, faults, steady, refused>>

(***************************************************************************)
(* Asking for cookies.                                                     *)
(***************************************************************************)
GetSignedCookies(m) ==
  /\ Act
  /\ page.access # "none" /\ Room(calls)
  /\ calls' = Send(calls, "get", m, party # "none")
  /\ UNCHANGED <<now, user, party, page, hls, cookies, faults, steady, refused>>

\* refreshSignedCookies: for the title that was last granted, without the party.
RefreshSignedCookies(source, cs) ==
  /\ Room(cs)
  /\ IF page.access = "none"
     THEN calls' = cs /\ steady' = FALSE /\ refused' = TRUE
     ELSE /\ calls' = Send(cs, source, page.current, FALSE)
          /\ refused' = (refused /\ source = "timer")
          /\ UNCHANGED steady

TimerFires ==
  /\ page.timer # None /\ page.timer <= now
  /\ page' = [page EXCEPT !.timer = None]
  /\ RefreshSignedCookies("timer", calls)
  /\ UNCHANGED <<now, user, party, hls, cookies, acts, faults>>

\* Faulty variant: cookies are renewed when they end.
ScheduledAtTheEnd == now + Ttl

\* scheduleCookieRefresh
Scheduled == now + Ttl - Lead

(***************************************************************************)
(* The service.                                                            *)
(***************************************************************************)
\* Faulty variant: the guard takes the row's word for it.
TypeOfRow == user.type

EffectiveType ==
  IF user.type # "PREMIUM" THEN user.type
  ELSE IF user.until # None /\ user.until > now THEN "PREMIUM" ELSE "FREE_TIER"

Locked(m) == m[1] \in PremiumTitles /\ m[2] = "main" /\ EffectiveType # "PREMIUM"
ViaParty(c) == c.party /\ EffectiveType = "FREEMIUM" /\ party = "seated"

CanActivate(c) == c.token = "live" /\ (~Locked(c.media) \/ ViaParty(c))

\* The guard hands the movie on to the controller, but not when it lets a
\* party's viewer through.
HasMovie(c) == CanActivate(c) /\ ~Locked(c.media)

Answered(i, answer) ==
  calls' = [calls EXCEPT ![i].answer = answer,
                         ![i].until = IF answer = "ok" /\ calls[i].kind \in ForCookies
                                      THEN now + Ttl ELSE 0]

\* getCloudFrontSignedCookiesForMovie
ServeCookies(i) ==
  calls[i].kind \in ForCookies /\ Answered(i, IF HasMovie(calls[i]) THEN "ok" ELSE "no")

\* The CDN.
ServeManifest(i) ==
  /\ calls[i].kind = "probe"
  /\ Answered(i, IF cookies[calls[i].media] > now THEN "ok" ELSE "no")

Serve(i) ==
  /\ i \in DOMAIN calls /\ calls[i].answer = None
  /\ ServeCookies(i) \/ ServeManifest(i)
  /\ UNCHANGED <<now, user, party, page, hls, cookies, acts, faults, steady, refused>>

(***************************************************************************)
(* Answers.                                                                *)
(***************************************************************************)
Lost(i) == RemoveAt(calls, i)

\* The answer of a call that signs in; one that refuses is like one that is lost.
SignedIn(i) ==
  /\ calls[i].kind \in {"login", "profile", "token"}
  /\ page' = IF calls[i].kind = "login" THEN [page EXCEPT !.temp = TRUE]
             ELSE [page EXCEPT !.access = "live", !.refresh = TRUE]
  /\ calls' = Lost(i)
  /\ UNCHANGED <<hls, cookies, steady, refused>>

\* Faulty variant: only a player that is told of an error starts over.
RecoveredOnFatal == hls

\* attemptHlsRecovery, which is never told of the error: the loader goes on,
\* which does nothing for a manifest that was never read.
Recovered == IF hls.parsed THEN [hls EXCEPT !.stalled = "no"] ELSE hls

Granted(i) ==
  LET c == calls[i] IN
  /\ c.kind \in ForCookies /\ c.answer = "ok"
  /\ cookies' = [cookies EXCEPT ![c.media] = c.until]
  /\ page' = [page EXCEPT !.manifest = c.media, !.timer = Scheduled,
                          !.current = IF c.kind = "get" THEN c.media ELSE @]
  /\ hls' = IF c.kind = "reactive" THEN Recovered ELSE hls
  /\ steady' = (c.sent = now /\ (steady \/ c.media = page'.current))
  /\ calls' = Lost(i)
  /\ UNCHANGED refused

\* A refresh that fails is not scheduled again.
Denied(i) ==
  /\ calls[i].kind \in ForCookies /\ calls[i].answer = "no"
  /\ steady' = (steady /\ calls[i].kind = "get")
  /\ refused' = (refused \/ calls[i].kind = "reactive")
  /\ calls' = Lost(i)
  /\ UNCHANGED <<page, hls, cookies>>

Probed(i) ==
  /\ calls[i].kind = "probe" /\ calls[i].answer # None
  /\ IF calls[i].answer = "no" THEN RefreshSignedCookies("reactive", Lost(i))
     ELSE calls' = Lost(i) /\ UNCHANGED <<steady, refused>>
  /\ UNCHANGED <<page, hls, cookies>>

Deliver(i) ==
  /\ i \in DOMAIN calls
  /\ SignedIn(i) \/ Granted(i) \/ Denied(i) \/ Probed(i)
  /\ UNCHANGED <<now, user, party, acts, faults>>

\* The request or its answer is lost, or the service fails.
Lose(i) ==
  /\ Fault
  /\ i \in DOMAIN calls
  /\ calls' = Lost(i)
  /\ steady' = (steady /\ calls[i].kind \notin {"timer", "reactive"})
  /\ refused' = (refused \/ calls[i].kind = "reactive")
  /\ UNCHANGED <<now, user, party, page, hls, cookies, acts>>

(***************************************************************************)
(* The player.                                                             *)
(***************************************************************************)
LoadVideo ==
  /\ Act
  /\ page.manifest # None
  /\ hls' = [NoPlayer EXCEPT !.media = page.manifest]
  /\ UNCHANGED <<now, user, party, page, cookies, calls, faults, steady, refused>>

Loading == hls.media # None /\ hls.stalled = "no"

ManifestParsed ==
  /\ Loading /\ ~hls.parsed /\ cookies[hls.media] > now
  /\ hls' = [hls EXCEPT !.parsed = TRUE]
  /\ UNCHANGED <<now, user, party, page, cookies, calls, acts, faults, steady, refused>>

AccessDenied ==
  /\ Loading /\ cookies[hls.media] <= now
  /\ hls' = [hls EXCEPT !.stalled = "403"]
  /\ RefreshSignedCookies("reactive", calls)
  /\ UNCHANGED <<now, user, party, page, cookies, acts, faults>>

ProbeManifest == Room(calls) /\ calls' = Send(calls, "probe", page.manifest, FALSE)

PlayerFails ==
  /\ Fault
  /\ Loading
  /\ hls' = [hls EXCEPT !.stalled = "fatal"]
  /\ ProbeManifest
  /\ UNCHANGED <<now, user, party, page, cookies, acts, steady, refused>>

Probe ==
  /\ Act
  /\ page.manifest # None
  /\ ProbeManifest
  /\ UNCHANGED <<now, user, party, page, hls, cookies, faults, steady, refused>>

\* The timer is not set again when the same title is loaded again.
StopVideo ==
  /\ Act
  /\ hls.media # None
  /\ hls' = NoPlayer
  /\ page' = [page EXCEPT !.timer = None]
  /\ steady' = FALSE
  /\ UNCHANGED <<now, user, party, cookies, calls, faults, refused>>

(***************************************************************************)
(* The account, the party and the clock.                                   *)
(***************************************************************************)
Subscribe ==
  /\ Act
  /\ user' = [type |-> "PREMIUM", until |-> now + 1]
  /\ UNCHANGED <<now, party, page, hls, cookies, calls, faults, steady, refused>>

JoinParty ==
  /\ Act
  /\ party # "seated" /\ page.access = "live"
  /\ party' = "seated"
  /\ UNCHANGED <<now, user, page, hls, cookies, calls, faults, steady, refused>>

PartyEnds ==
  /\ Act
  /\ party = "seated"
  /\ party' = "over"
  /\ UNCHANGED <<now, user, page, hls, cookies, calls, faults, steady, refused>>

\* The browser does not let a timer that is due wait.
Tick ==
  /\ now < MaxTime
  /\ page.timer # None => page.timer > now
  /\ now' = now + 1
  /\ UNCHANGED <<user, party, page, hls, cookies, calls, acts, faults, steady, refused>>

Next ==
  \/ Login \/ LoginWithProfile \/ RefreshAccessToken \/ Logout \/ AccessTokenExpires
  \/ \E m \in Media : GetSignedCookies(m)
  \/ \E i \in 1..MaxCalls : Serve(i) \/ Deliver(i) \/ Lose(i)
  \/ TimerFires \/ LoadVideo \/ ManifestParsed \/ AccessDenied \/ PlayerFails
  \/ Probe \/ StopVideo \/ Subscribe \/ JoinParty \/ PartyEnds \/ Tick

\* Calls are served and answered in time; the user does as they please.
Fairness == \A i \in 1..MaxCalls : WF_vars(Serve(i)) /\ WF_vars(Deliver(i))

Spec == Init /\ [][Next]_vars /\ Fairness

(***************************************************************************)
(* Properties.                                                             *)
(***************************************************************************)
\* However often a page renews its cookies, those of a premium film end, for
\* somebody without a plan, at most their lifetime after the plan did.
AccessEndsAfterLapse ==
  \A m \in Media :
    m[1] \in PremiumTitles /\ m[2] = "main" /\ cookies[m] > 0
    => user.until # None /\ cookies[m] < user.until + Ttl

\* While renewals succeed and are answered promptly the cookies of the title
\* that was asked for never end.
NoLapseWhileSteady ==
  /\ steady /\ page.current # None
  /\ \A i \in DOMAIN calls : calls[i].kind \in ForCookies => calls[i].sent = now
  => cookies[page.current] > now

\* A film that stops at a 403 goes on, unless its cookies are refused or the
\* user asked for those of another title.
StallRecovers ==
  (hls.stalled = "403" /\ hls.parsed)
    ~> (hls.stalled # "403" \/ refused \/ page.current # hls.media)

\* Whom the guard lets through gets cookies.
AdmittedGetsCookies ==
  [][\A i \in DOMAIN calls :
       /\ calls[i].kind \in ForCookies /\ calls[i].answer = None /\ CanActivate(calls[i])
       /\ Len(calls') = Len(calls) /\ calls'[i].answer # None
       => calls'[i].answer = "ok"]_vars
===============================================================================
