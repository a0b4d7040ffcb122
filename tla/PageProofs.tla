----------------------------- MODULE PageProofs -------------------------------
(***************************************************************************)
(* Proofs about the two models of web/app.js.                              *)
(*                                                                         *)
(* First Playback, how long a film can be watched: for all titles, any     *)
(* lifetime of the cookies and any lead of their renewal, and for every    *)
(* value of the bounds on the clock, the calls and the faults.  Both of    *)
(* its invariants speak of cookies the browser holds; the strengthenings   *)
(* say the same of those that an answer on its way will set.               *)
(*                                                                         *)
(* Then PartySync, who sets whose player going: for any pages and bounds,  *)
(* whatever is lost and whoever hands over to whom.                        *)
(***************************************************************************)
EXTENDS Playback, SequenceTheorems, TLAPS

\* A call on its way.
Kinds == {"login", "profile", "token", "get", "timer", "reactive", "probe"}
Call == [kind : Kinds, media : Media \cup {None}, party : BOOLEAN,
         token : {"none", "live", "dead"}, sent : Nat, answer : {None, "ok", "no"}, until : Nat]

PageRow == [temp : BOOLEAN, access : {"none", "live", "dead"}, refresh : BOOLEAN,
            current : Media \cup {None}, manifest : Media \cup {None}, timer : Nat \cup {None}]

TypeInv ==
  /\ now \in Nat
  /\ user \in [type : {"FREEMIUM", "PREMIUM"}, until : Nat \cup {None}]
  /\ page \in PageRow
  /\ cookies \in [Media -> Nat]
  /\ calls \in Seq(Call)
  /\ steady \in BOOLEAN

IsFilm(m) == m[1] \in PremiumTitles /\ m[2] = "main"

\* Cookies good until t end less than their lifetime after the plan.
WithinPlan(t) == user.until # None /\ t < user.until + Ttl

\* A plan is bought from now on; no cookies for a premium film, held or on
\* their way, outlive it by their lifetime.
LapseInv ==
  /\ user.until # None => user.until <= now + 1
  /\ \A m \in Media : IsFilm(m) /\ cookies[m] > 0 => WithinPlan(cookies[m])
  /\ \A c \in Range(calls) :
       c.kind \in ForCookies /\ c.answer = "ok" /\ IsFilm(c.media) => WithinPlan(c.until)

\* A renewal that the page asks for by itself.
Renews(c) == c.kind \in {"timer", "reactive"}

\* What is granted on a call that was sent at this moment is good for the full time.
AnswersInv ==
  \A c \in Range(calls) :
    /\ c.kind \in ForCookies => c.sent <= now
    /\ c.kind \in ForCookies /\ c.answer = "ok" => c.sent + Ttl <= c.until
    /\ c.kind = "get" => c.media \in Media

\* While renewals succeed, either the timer is set to go off in time, or a
\* renewal is on its way that was sent before the cookies ended.
RenewalDue ==
  IF page.timer # None THEN page.timer + Lead <= cookies[page.current]
  ELSE \E c \in Range(calls) : Renews(c) /\ c.sent < cookies[page.current]

\* A renewal sent at this moment is for the current title, or that one has
\* just been granted.
RenewsCurrent ==
  \A c \in Range(calls) : Renews(c) /\ c.sent = now =>
    c.media = page.current \/ now + Ttl <= cookies[page.current]

SteadyInv ==
  /\ page.timer # None => now <= page.timer
  /\ AnswersInv
  /\ steady /\ page.current # None => RenewalDue /\ RenewsCurrent

(***************************************************************************)
(* Sequences of calls.                                                     *)
(***************************************************************************)
LEMMA InRange == ASSUME NEW S, NEW s \in Seq(S), NEW i \in DOMAIN s PROVE s[i] \in Range(s) /\ s[i] \in S
BY RangeOfSeq DEF Range

\* The fields of a call on its way that the clock and the cookies are held against.
LEMMA CallTimes ==
  ASSUME NEW s \in Seq(Call), NEW c \in Range(s)
  PROVE  c.sent \in Nat /\ c.until \in Nat
<1>1. PICK i \in DOMAIN s : s[i] = c
  BY DEF Range
<1>2. c \in Call
  BY <1>1, InRange
<1> QED BY <1>2 DEF Call

LEMMA AppendRange ==
  ASSUME NEW S, NEW s \in Seq(S), NEW c \in S
  PROVE  Append(s, c) \in Seq(S) /\ Range(Append(s, c)) = Range(s) \cup {c}
<1>1. Append(s, c) \in Seq(S) /\ DOMAIN Append(s, c) = 1..Len(s) + 1 /\ DOMAIN s = 1..Len(s)
  BY AppendProperties, LenProperties
<1>2. /\ \A i \in 1..Len(s) : Append(s, c)[i] = s[i]
      /\ Append(s, c)[Len(s) + 1] = c
  BY AppendProperties
<1>3. Len(s) \in Nat
  BY LenProperties
<1>4. Range(Append(s, c)) \subseteq Range(s) \cup {c}
  BY <1>1, <1>2, <1>3 DEF Range
<1>5. Range(s) \cup {c} \subseteq Range(Append(s, c))
  BY <1>1, <1>2, <1>3 DEF Range
<1> QED BY <1>1, <1>4, <1>5

LEMMA ReplaceRange ==
  ASSUME NEW S, NEW s \in Seq(S), NEW i \in DOMAIN s, NEW c \in S
  PROVE  LET t == [s EXCEPT ![i] = c] IN
         t \in Seq(S) /\ Range(t) \subseteq Range(s) \cup {c} /\ Range(s) \subseteq Range(t) \cup {s[i]}
           /\ c \in Range(t)
<1> DEFINE t == [s EXCEPT ![i] = c]
<1>1. t \in Seq(S)
  BY ExceptSeq, LenProperties
<1> QED BY <1>1 DEF Range

LEMMA RemoveRange ==
  ASSUME NEW S, NEW s \in Seq(S), NEW i \in DOMAIN s
  PROVE  /\ RemoveAt(s, i) \in Seq(S) /\ Range(RemoveAt(s, i)) \subseteq Range(s)
         /\ Range(s) \subseteq Range(RemoveAt(s, i)) \cup {s[i]}
<1> DEFINE a == SubSeq(s, 1, i - 1)
           b == SubSeq(s, i + 1, Len(s))
<1>1. DOMAIN s = 1..Len(s) /\ Len(s) \in Nat /\ \A j \in 1..Len(s) : s[j] \in S
  BY LenProperties, ElementOfSeq
<1>2. /\ a \in Seq(S) /\ Len(a) = i - 1
      /\ \A j \in 1..i - 1 : a[j] = s[j]
  <2>1. \A j \in 1..i - 1 : s[j] \in S
    BY <1>1
  <2>2. /\ a \in Seq(S) /\ Len(a) = IF 1 <= i - 1 THEN i - 1 - 1 + 1 ELSE 0
        /\ \A j \in 1..i - 1 - 1 + 1 : a[j] = s[1 + j - 1]
    BY <1>1, <2>1, SubSeqProperties
  <2> QED BY <1>1, <2>2
<1>3. /\ b \in Seq(S) /\ Len(b) = Len(s) - i
      /\ \A j \in 1..Len(s) - i : b[j] = s[i + j]
  <2>1. \A j \in i + 1..Len(s) : s[j] \in S
    BY <1>1
  <2>2. /\ b \in Seq(S) /\ Len(b) = IF i + 1 <= Len(s) THEN Len(s) - (i + 1) + 1 ELSE 0
        /\ \A j \in 1..Len(s) - (i + 1) + 1 : b[j] = s[i + 1 + j - 1]
    BY <1>1, <2>1, SubSeqProperties
  <2> QED BY <1>1, <2>2
<1> HIDE DEF a, b
<1>4. RemoveAt(s, i) = a \o b
  BY DEF RemoveAt, a, b
<1>5. a \o b \in Seq(S) /\ Range(a \o b) = Range(a) \cup Range(b)
  BY <1>2, <1>3, ConcatProperties, RangeConcatenation
<1>6. Range(a) = {a[j] : j \in 1..i - 1} /\ Range(b) = {b[j] : j \in 1..Len(s) - i}
      /\ Range(s) = {s[j] : j \in 1..Len(s)}
  BY <1>2, <1>3, RangeEquality
<1>7. Range(a) \subseteq Range(s) /\ Range(b) \subseteq Range(s)
  <2>1. \A j \in 1..i - 1 : j \in 1..Len(s) /\ a[j] = s[j]
    BY <1>1, <1>2
  <2>2. \A j \in 1..Len(s) - i : i + j \in 1..Len(s) /\ b[j] = s[i + j]
    BY <1>1, <1>3
  <2>3. Range(a) \subseteq Range(s)
    BY <1>6, <2>1
  <2>4. Range(b) \subseteq Range(s)
    BY <1>6, <2>2
  <2> QED BY <2>3, <2>4
<1>8. ASSUME NEW j \in 1..Len(s), j # i PROVE s[j] \in Range(a) \cup Range(b)
  <2>1. CASE j < i
    BY <1>1, <1>2, <1>6, <2>1
  <2>2. CASE i < j
    <3>1. j - i \in 1..Len(s) - i /\ i + (j - i) = j
      BY <1>1, <2>2
    <3> QED BY <1>3, <1>6, <3>1
  <2> QED BY <1>1, <1>8, <2>1, <2>2
<1> QED BY <1>4, <1>5, <1>6, <1>7, <1>8

(***************************************************************************)
(* What a step does to the calls: they are sent now, or they go on.        *)
(***************************************************************************)
Fresh(d) ==
  /\ d.answer = None
  /\ d.kind \in ForCookies => d.sent = now
  /\ d.kind = "get" => d.media \in Media
  /\ Renews(d) => d.media = page.current

\* Call c, answered or not: what is granted now is good from now on.
SameCall(c, d) ==
  /\ d.kind = c.kind /\ d.media = c.media /\ d.sent = c.sent
  /\ \/ d.answer = c.answer /\ d.until = c.until
     \/ d.answer # "ok" \/ c.kind \notin ForCookies
     \/ d.until = now + Ttl /\ (IsFilm(c.media) => WithinPlan(now + Ttl))

\* The calls ds after the calls cs.
Follow(cs, ds) == \A d \in Range(ds) : Fresh(d) \/ \E c \in Range(cs) : SameCall(c, d)

LEMMA SendFacts ==
  ASSUME TypeInv, NEW cs \in Seq(Call), NEW kind \in Kinds, NEW m \in Media \cup {None},
         NEW inParty \in BOOLEAN,
         kind = "get" => m \in Media,
         kind \in {"timer", "reactive"} => m = page.current
  PROVE  \E c \in Call : /\ Send(cs, kind, m, inParty) \in Seq(Call)
                         /\ Range(Send(cs, kind, m, inParty)) = Range(cs) \cup {c}
                         /\ Fresh(c) /\ c.kind = kind /\ c.media = m
<1>1. PICK token \in {"none", "live", "dead"} :
        token = IF kind \in ForCookies THEN page.access ELSE "none"
  BY DEF TypeInv, PageRow
<1>2. PICK sent \in Nat : sent = IF kind \in ForCookies THEN now ELSE 0
  BY DEF TypeInv
<1>3. PICK c : c = [kind |-> kind, media |-> m, party |-> inParty, token |-> token,
                    sent |-> sent, answer |-> None, until |-> 0]
  OBVIOUS
<1>4. c \in Call
  BY <1>3 DEF Call
<1>5. Send(cs, kind, m, inParty) = Append(cs, c)
  BY <1>1, <1>2, <1>3 DEF Send
<1>6. Fresh(c) /\ c.kind = kind /\ c.media = m
  BY <1>2, <1>3 DEF Fresh, Renews
<1> QED BY <1>4, <1>5, <1>6, AppendRange

LEMMA RefreshFacts ==
  ASSUME TypeInv, NEW cs \in Seq(Call), NEW source \in {"timer", "reactive"},
         RefreshSignedCookies(source, cs)
  PROVE  /\ calls' \in Seq(Call) /\ steady' \in BOOLEAN
         /\ \/ calls' = cs /\ steady' = FALSE
            \/ steady' = steady /\ \E c \in Call : /\ Range(calls') = Range(cs) \cup {c}
                                                   /\ Fresh(c) /\ c.kind = source
<1>1. CASE page.access = "none"
  BY <1>1 DEF RefreshSignedCookies
<1>2. CASE page.access # "none"
  <2>1. calls' = Send(cs, source, page.current, FALSE) /\ steady' = steady
    BY <1>2 DEF RefreshSignedCookies
  <2>2. PICK m \in Media \cup {None} : m = page.current
    BY DEF TypeInv, PageRow
  <2>3. PICK b \in BOOLEAN : b = FALSE
    OBVIOUS
  <2>4. calls' = Send(cs, source, m, b)
    BY <2>1, <2>2, <2>3
  <2>5. source \in Kinds /\ source # "get"
    BY DEF Kinds
  <2>6. PICK c \in Call : /\ Send(cs, source, m, b) \in Seq(Call)
                          /\ Range(Send(cs, source, m, b)) = Range(cs) \cup {c}
                          /\ Fresh(c) /\ c.kind = source
    BY <2>2, <2>5, SendFacts
  <2> QED BY <2>1, <2>4, <2>6 DEF TypeInv
<1> QED BY <1>1, <1>2

\* The three ways a step changes the calls.
LEMMA SameFollow == ASSUME NEW cs, NEW ds, Range(ds) \subseteq Range(cs) PROVE Follow(cs, ds)
<1>1. \A c \in Range(ds) : SameCall(c, c)
  BY DEF SameCall
<1> QED BY <1>1 DEF Follow

LEMMA SentFollow ==
  ASSUME NEW cs, NEW bs, Range(cs) \subseteq Range(bs), NEW ds, NEW c, Fresh(c),
         Range(ds) = Range(cs) \cup {c}
  PROVE  Follow(bs, ds)
<1>1. \A d \in Range(cs) : SameCall(d, d)
  BY DEF SameCall
<1> QED BY <1>1 DEF Follow

LEMMA SendFollow ==
  ASSUME TypeInv, NEW kind \in Kinds, NEW m \in Media \cup {None}, NEW b \in BOOLEAN,
         kind = "get" => m \in Media, kind \notin {"timer", "reactive"},
         calls' = Send(calls, kind, m, b)
  PROVE  /\ calls' \in Seq(Call) /\ Follow(calls, calls')
         /\ Range(calls) \subseteq Range(calls')
<1>1. PICK cs : cs = calls /\ cs \in Seq(Call)
  BY DEF TypeInv
<1>2. PICK c \in Call : /\ Send(cs, kind, m, b) \in Seq(Call)
                        /\ Range(Send(cs, kind, m, b)) = Range(cs) \cup {c}
                        /\ Fresh(c)
  BY <1>1, SendFacts
<1>3. PICK ds : ds = calls'
  OBVIOUS
<1>4. Follow(cs, ds)
  BY <1>1, <1>2, <1>3, SentFollow
<1> QED BY <1>1, <1>2, <1>3, <1>4

LEMMA RefreshFollow ==
  ASSUME TypeInv, NEW cs \in Seq(Call), Range(cs) \subseteq Range(calls),
         NEW source \in {"timer", "reactive"}, RefreshSignedCookies(source, cs)
  PROVE  /\ calls' \in Seq(Call) /\ Follow(calls, calls') /\ Range(cs) \subseteq Range(calls')
         /\ steady' \in BOOLEAN /\ (steady' => steady)
<1>1. PICK bs : bs = calls
  OBVIOUS
<1>2. PICK ds : ds = calls'
  OBVIOUS
<1>3. CASE ds = cs /\ steady' = FALSE
  <2>1. Follow(bs, ds)
    BY <1>1, <1>3, SameFollow
  <2> QED BY <1>1, <1>2, <1>3, <2>1
<1>4. ASSUME NEW c \in Call, ds \in Seq(Call), Range(ds) = Range(cs) \cup {c}, Fresh(c),
             steady' = steady
      PROVE  ds \in Seq(Call) /\ Follow(bs, ds) /\ Range(cs) \subseteq Range(ds)
  BY <1>1, <1>4, SentFollow
<1> QED BY <1>1, <1>2, <1>3, <1>4, RefreshFacts DEF TypeInv

LEMMA LostFollow ==
  ASSUME TypeInv, NEW i \in DOMAIN calls
  PROVE  /\ Lost(i) \in Seq(Call) /\ Range(Lost(i)) \subseteq Range(calls)
         /\ Range(calls) \subseteq Range(Lost(i)) \cup {calls[i]}
         /\ calls[i] \in Call /\ calls[i] \in Range(calls)
BY RemoveRange, InRange DEF TypeInv, Lost

\* An answered call; who is given cookies of a premium film has a plan.
LEMMA ServeFollow ==
  ASSUME TypeInv, NEW i, Serve(i)
  PROVE  /\ calls' \in Seq(Call) /\ Follow(calls, calls')
         /\ \A c \in Range(calls) : \E d \in Range(calls') : d.kind = c.kind /\ d.sent = c.sent
<1>1. i \in DOMAIN calls
  BY DEF Serve
<1>2. PICK c \in Call : c = calls[i] /\ c \in Range(calls)
  BY <1>1, InRange DEF TypeInv
<1>3. PICK answer \in {"ok", "no"} :
        /\ Answered(i, answer)
        /\ answer = "ok" /\ c.kind \in ForCookies => HasMovie(c)
  BY <1>2 DEF Serve, ServeCookies, ServeManifest, ForCookies
<1>4. PICK until \in Nat : until = IF answer = "ok" /\ c.kind \in ForCookies THEN now + Ttl ELSE 0
  BY PlaybackAssumption DEF TypeInv
<1>5. PICK d : d = [c EXCEPT !.answer = answer, !.until = until]
  OBVIOUS
<1>6. d \in Call /\ d.kind = c.kind /\ d.media = c.media /\ d.sent = c.sent /\ d.answer = answer
        /\ d.until = until
  BY <1>5 DEF Call
<1>7. calls' = [calls EXCEPT ![i] = d]
  <2>1. calls[i] = c
    BY <1>2
  <2>2. calls' = [calls EXCEPT ![i] = [calls[i] EXCEPT !.answer = answer, !.until = until]]
    BY <1>1, <1>2, <1>3, <1>4 DEF Answered
  <2> QED BY <1>5, <2>1, <2>2
<1>8. HasMovie(c) /\ IsFilm(c.media) => WithinPlan(now + Ttl)
  <2>1. HasMovie(c) /\ IsFilm(c.media) =>
          user.until # None /\ user.until > now
    BY DEF HasMovie, Locked, IsFilm, EffectiveType, TypeInv
  <2> QED BY <2>1, PlaybackAssumption DEF WithinPlan, TypeInv
<1>9. SameCall(c, d)
  BY <1>3, <1>4, <1>6, <1>8 DEF SameCall
<1>10. PICK cs \in Seq(Call) : cs = calls
  BY DEF TypeInv
<1>11. PICK ds : ds = [cs EXCEPT ![i] = d]
  OBVIOUS
<1>12. /\ ds \in Seq(Call) /\ Range(ds) \subseteq Range(cs) \cup {d} /\ d \in Range(ds)
       /\ Range(cs) \subseteq Range(ds) \cup {c}
  BY <1>1, <1>2, <1>6, <1>10, <1>11, ReplaceRange
<1>13. Follow(cs, ds)
  <2>1. \A e \in Range(cs) : SameCall(e, e)
    BY DEF SameCall
  <2> QED BY <1>2, <1>9, <1>10, <1>12, <2>1 DEF Follow
<1>14. \A b \in Range(cs) : \E e \in Range(ds) : e.kind = b.kind /\ e.sent = b.sent
  BY <1>6, <1>12
<1> QED BY <1>7, <1>10, <1>11, <1>12, <1>13, <1>14

(***************************************************************************)
(* Most steps touch neither the clock, the plan, the cookies nor the       *)
(* timer, and take no renewal off its way while renewals succeed.          *)
(***************************************************************************)
StillRenewed ==
  \A c \in Range(calls) : Renews(c) => \E d \in Range(calls') : Renews(d) /\ d.sent = c.sent

Kept ==
  /\ UNCHANGED <<now, user, cookies>>
  /\ page'.timer = page.timer /\ page'.current = page.current
  /\ Follow(calls, calls')
  /\ steady' => steady /\ StillRenewed

LEMMA AskKept ==
  ASSUME TypeInv, \/ Login \/ LoginWithProfile \/ RefreshAccessToken \/ Probe \/ PlayerFails
                  \/ \E m \in Media : GetSignedCookies(m)
  PROVE  TypeInv' /\ Kept
<1>1. UNCHANGED <<now, user, page, cookies, steady>>
  BY DEF Login, LoginWithProfile, RefreshAccessToken, Probe, PlayerFails, GetSignedCookies, Ask
<1>2. PICK f \in BOOLEAN : f = FALSE
  OBVIOUS
<1>3. \/ \E kind \in {"login", "profile", "token"} : calls' = Send(calls, kind, None, f)
      \/ calls' = Send(calls, "probe", page.manifest, f)
      \/ \E m \in Media, b \in BOOLEAN : calls' = Send(calls, "get", m, b)
  <2>1. CASE Login \/ LoginWithProfile \/ RefreshAccessToken
    BY <1>2, <2>1 DEF Login, LoginWithProfile, RefreshAccessToken, Ask
  <2>2. CASE Probe \/ PlayerFails
    BY <1>2, <2>2 DEF Probe, PlayerFails, ProbeManifest
  <2>3. ASSUME NEW m \in Media, GetSignedCookies(m)
        PROVE  \E b \in BOOLEAN : calls' = Send(calls, "get", m, b)
    <3>1. PICK b \in BOOLEAN : b = (party # "none")
      OBVIOUS
    <3> QED BY <2>3, <3>1 DEF GetSignedCookies
  <2> QED BY <2>1, <2>2, <2>3
<1>4. /\ calls' \in Seq(Call) /\ Follow(calls, calls') /\ Range(calls) \subseteq Range(calls')
  <2>1. ASSUME NEW kind \in {"login", "profile", "token"}, calls' = Send(calls, kind, None, f)
        PROVE  <1>4!:
    BY <2>1, SendFollow DEF Kinds
  <2>2. ASSUME calls' = Send(calls, "probe", page.manifest, f)
        PROVE  <1>4!:
    <3>1. PICK m \in Media \cup {None} : m = page.manifest
      BY DEF TypeInv, PageRow
    <3> QED BY <2>2, <3>1, SendFollow DEF Kinds
  <2>3. ASSUME NEW m \in Media, NEW b \in BOOLEAN, calls' = Send(calls, "get", m, b)
        PROVE  <1>4!:
    BY <2>3, SendFollow DEF Kinds
  <2> QED BY <1>3, <2>1, <2>2, <2>3
<1> QED BY <1>1, <1>4 DEF TypeInv, Kept, StillRenewed

LEMMA SilentKept ==
  ASSUME TypeInv, Logout \/ AccessTokenExpires \/ LoadVideo \/ ManifestParsed \/ JoinParty \/ PartyEnds
  PROVE  TypeInv' /\ Kept
<1>1. UNCHANGED <<now, user, cookies, calls, steady>>
  BY DEF Logout, AccessTokenExpires, LoadVideo, ManifestParsed, JoinParty, PartyEnds
<1>2. page' \in PageRow /\ page'.timer = page.timer /\ page'.current = page.current
  BY DEF Logout, AccessTokenExpires, LoadVideo, ManifestParsed, JoinParty, PartyEnds, TypeInv, PageRow
<1>3. PICK cs : cs = calls /\ cs = calls'
  BY <1>1
<1>4. Follow(cs, cs)
  BY SameFollow
<1> QED BY <1>1, <1>2, <1>3, <1>4 DEF TypeInv, Kept, StillRenewed

LEMMA AccessDeniedKept ==
  ASSUME TypeInv, AccessDenied
  PROVE  TypeInv' /\ Kept
<1>1. UNCHANGED <<now, user, page, cookies>> /\ RefreshSignedCookies("reactive", calls)
  BY DEF AccessDenied
<1>2. PICK cs \in Seq(Call) : cs = calls
  BY DEF TypeInv
<1>3. /\ calls' \in Seq(Call) /\ Follow(calls, calls') /\ Range(cs) \subseteq Range(calls')
      /\ steady' \in BOOLEAN /\ (steady' => steady)
  BY <1>1, <1>2, RefreshFollow
<1> QED BY <1>1, <1>2, <1>3 DEF TypeInv, Kept, StillRenewed

LEMMA ServeKept ==
  ASSUME TypeInv, NEW i, Serve(i)
  PROVE  TypeInv' /\ Kept
<1>1. UNCHANGED <<now, user, page, cookies, steady>>
  BY DEF Serve
<1> QED BY <1>1, ServeFollow DEF TypeInv, Kept, StillRenewed, Renews

\* A call that is not a renewal, or is no longer counted on, is taken off its way.
LEMMA LostKept ==
  ASSUME TypeInv, NEW i \in DOMAIN calls,
         UNCHANGED <<now, user, cookies>>, page' \in PageRow,
         page'.timer = page.timer /\ page'.current = page.current,
         steady' \in BOOLEAN,
         steady' => steady /\ ~Renews(calls[i]),
         \/ calls' = Lost(i)
         \/ RefreshSignedCookies("reactive", Lost(i)) /\ ~Renews(calls[i])
  PROVE  TypeInv' /\ Kept
<1>1. PICK bs \in Seq(Call) : bs = calls
  BY DEF TypeInv
<1>2. PICK cs \in Seq(Call) : /\ cs = Lost(i) /\ Range(cs) \subseteq Range(bs)
                              /\ Range(bs) \subseteq Range(cs) \cup {calls[i]}
  BY <1>1, LostFollow
<1>3. PICK ds : ds = calls'
  OBVIOUS
<1>4. ds \in Seq(Call) /\ Follow(bs, ds) /\ Range(cs) \subseteq Range(ds)
  <2>1. CASE calls' = Lost(i)
    BY <1>2, <1>3, <2>1, SameFollow
  <2>2. CASE RefreshSignedCookies("reactive", Lost(i))
    <3>1. RefreshSignedCookies("reactive", cs)
      BY <1>2, <2>2
    <3>2. calls' \in Seq(Call) /\ Follow(calls, calls') /\ Range(cs) \subseteq Range(calls')
      BY <1>1, <1>2, <3>1, RefreshFollow
    <3> QED BY <1>1, <1>3, <3>2
  <2> QED BY <2>1, <2>2
<1>5. steady' => StillRenewed
  BY <1>1, <1>2, <1>3, <1>4 DEF StillRenewed
<1> QED BY <1>1, <1>3, <1>4, <1>5 DEF TypeInv, Kept

LEMMA DeliverKept ==
  ASSUME TypeInv, NEW i, (Deliver(i) /\ ~Granted(i)) \/ Lose(i)
  PROVE  TypeInv' /\ Kept
<1>1. i \in DOMAIN calls /\ UNCHANGED <<now, user, cookies>>
  BY DEF Deliver, SignedIn, Denied, Probed, Lose
<1>2. PICK c \in Call : c = calls[i]
  BY <1>1, LostFollow
<1>3. CASE SignedIn(i)
  <2>1. page' \in PageRow /\ page'.timer = page.timer /\ page'.current = page.current
    BY <1>3 DEF SignedIn, TypeInv, PageRow
  <2>2. steady' = steady /\ calls' = Lost(i) /\ ~Renews(calls[i])
    BY <1>3 DEF SignedIn, Renews
  <2> QED BY <1>1, <2>1, <2>2, LostKept DEF TypeInv
<1>4. CASE Denied(i)
  <2>1. UNCHANGED page /\ calls' = Lost(i) /\ steady' = (steady /\ calls[i].kind = "get")
    BY <1>4 DEF Denied
  <2>2. steady' \in BOOLEAN /\ (steady' => steady /\ ~Renews(calls[i]))
    BY <2>1 DEF Renews
  <2> QED BY <1>1, <2>1, <2>2, LostKept DEF TypeInv
<1>5. CASE Probed(i)
  <2>1. UNCHANGED page /\ ~Renews(calls[i])
    BY <1>5 DEF Probed, Renews
  <2>2. \/ RefreshSignedCookies("reactive", Lost(i))
        \/ calls' = Lost(i) /\ UNCHANGED steady
    BY <1>5 DEF Probed
  <2>3. steady' = FALSE \/ steady' = steady
    BY <2>2 DEF RefreshSignedCookies
  <2>4. steady \in BOOLEAN
    BY DEF TypeInv
  <2>5. CASE steady' = FALSE
    BY <1>1, <2>1, <2>2, <2>5, LostKept DEF TypeInv
  <2>6. CASE steady' = steady
    BY <1>1, <2>1, <2>2, <2>4, <2>6, LostKept DEF TypeInv
  <2> QED BY <2>3, <2>5, <2>6
<1>6. CASE Lose(i)
  <2>1. /\ UNCHANGED page /\ calls' = Lost(i)
        /\ steady' = (steady /\ calls[i].kind \notin {"timer", "reactive"})
    BY <1>6 DEF Lose
  <2>2. steady' \in BOOLEAN /\ (steady' => steady /\ ~Renews(calls[i]))
    BY <2>1 DEF Renews
  <2> QED BY <1>1, <2>1, <2>2, LostKept DEF TypeInv
<1> QED BY <1>3, <1>4, <1>5, <1>6 DEF Deliver

(***************************************************************************)
(* The other steps: they keep the types, and each what follows from it.    *)
(***************************************************************************)
LEMMA ScheduledIsNat == ASSUME now \in Nat PROVE Scheduled \in Nat /\ now <= Scheduled /\ Scheduled + Lead = now + Ttl
BY PlaybackAssumption DEF Scheduled

\* What is known of the cookies that are granted on call i.
GrantedFacts(c) ==
  /\ c \in Range(calls) /\ c.kind \in ForCookies /\ c.answer = "ok" /\ c \in Call
  /\ cookies' = [cookies EXCEPT ![c.media] = c.until]
  /\ page'.current = IF c.kind = "get" THEN c.media ELSE page.current
  /\ page'.timer = Scheduled
  /\ steady' => c.sent = now /\ (steady \/ c.media = page'.current)
  /\ Follow(calls, calls') /\ Range(calls') \subseteq Range(calls)
  /\ UNCHANGED <<now, user>>

LEMMA GrantedStep ==
  ASSUME TypeInv, NEW i, Deliver(i), Granted(i)
  PROVE  TypeInv' /\ \E c : GrantedFacts(c)
<1>1. i \in DOMAIN calls /\ UNCHANGED <<now, user>>
  BY DEF Deliver
<1>2. PICK c \in Call : c = calls[i] /\ c \in Range(calls)
  BY <1>1, LostFollow
<1>3. PICK cs \in Seq(Call) : cs = Lost(i) /\ Range(cs) \subseteq Range(calls)
  BY <1>1, LostFollow
<1>4. /\ c.kind \in ForCookies /\ c.answer = "ok"
      /\ cookies' = [cookies EXCEPT ![c.media] = c.until]
      /\ page' = [page EXCEPT !.manifest = c.media, !.timer = Scheduled,
                              !.current = IF c.kind = "get" THEN c.media ELSE @]
      /\ steady' = (c.sent = now /\ (steady \/ c.media = page'.current))
      /\ calls' = cs
  BY <1>2, <1>3 DEF Granted
<1>5. c.media \in Media \cup {None} /\ c.until \in Nat /\ Scheduled \in Nat
  BY ScheduledIsNat DEF Call, TypeInv
<1>6. page' \in PageRow /\ page'.timer = Scheduled
        /\ page'.current = IF c.kind = "get" THEN c.media ELSE page.current
  <2>1. PICK current \in Media \cup {None} : current = IF c.kind = "get" THEN c.media ELSE page.current
    BY <1>5 DEF TypeInv, PageRow
  <2>2. page' = [page EXCEPT !.manifest = c.media, !.timer = Scheduled, !.current = current]
    BY <1>4, <2>1
  <2>3. page' \in PageRow /\ page'.timer = Scheduled /\ page'.current = current
    <3> HIDE DEF Scheduled
    <3> QED BY <1>5, <2>2 DEF TypeInv, PageRow
  <2> QED BY <2>1, <2>3
<1>7. cookies' \in [Media -> Nat] /\ steady' \in BOOLEAN
  BY <1>4, <1>5 DEF TypeInv
<1>8. TypeInv'
  BY <1>1, <1>3, <1>4, <1>6, <1>7 DEF TypeInv
<1>9. Follow(calls, calls')
  <2>1. PICK bs : bs = calls
    OBVIOUS
  <2>2. Follow(bs, cs)
    BY <1>3, <2>1, SameFollow
  <2> QED BY <1>4, <2>1, <2>2
<1>10. steady' => c.sent = now /\ (steady \/ c.media = page'.current)
  BY <1>4
<1>11. GrantedFacts(c)
  BY <1>1, <1>2, <1>3, <1>4, <1>6, <1>9, <1>10 DEF GrantedFacts
<1> QED BY <1>8, <1>11

LEMMA TimerStep ==
  ASSUME TypeInv, TimerFires
  PROVE  /\ TypeInv' /\ Follow(calls, calls') /\ UNCHANGED <<now, user, cookies>>
         /\ page.timer # None /\ page.timer <= now
         /\ page'.timer = None /\ page'.current = page.current
         /\ steady' => steady /\ \E c \in Range(calls') : Renews(c) /\ c.sent = now
<1>1. /\ page.timer # None /\ page.timer <= now /\ page' = [page EXCEPT !.timer = None]
      /\ RefreshSignedCookies("timer", calls) /\ UNCHANGED <<now, user, cookies>>
  BY DEF TimerFires
<1>2. page' \in PageRow /\ page'.timer = None /\ page'.current = page.current
  BY <1>1 DEF TypeInv, PageRow
<1>3. PICK cs \in Seq(Call) : cs = calls
  BY DEF TypeInv
<1>4. calls' \in Seq(Call) /\ Follow(calls, calls') /\ steady' \in BOOLEAN
  BY <1>1, <1>3, RefreshFollow
<1>5. steady' => steady /\ \E c \in Range(calls') : Renews(c) /\ c.sent = now
  <2>1. \/ steady' = FALSE
        \/ /\ steady' = steady
           /\ \E c \in Call : Range(calls') = Range(cs) \cup {c} /\ Fresh(c) /\ c.kind = "timer"
    BY <1>1, <1>3, RefreshFacts
  <2>2. ASSUME NEW c \in Call, Range(calls') = Range(cs) \cup {c}, Fresh(c), c.kind = "timer"
        PROVE  \E d \in Range(calls') : Renews(d) /\ d.sent = now
    BY <2>2 DEF Fresh, Renews, ForCookies
  <2> QED BY <2>1, <2>2
<1> QED BY <1>1, <1>2, <1>4, <1>5 DEF TypeInv

LEMMA OtherStepsType ==
  ASSUME TypeInv, StopVideo \/ Subscribe \/ Tick
  PROVE  TypeInv' /\ Follow(calls, calls') /\ UNCHANGED <<calls, cookies>>
<1>1. UNCHANGED <<calls, cookies>>
  BY DEF StopVideo, Subscribe, Tick
<1>2. Follow(calls, calls')
  <2>1. PICK cs : cs = calls
    OBVIOUS
  <2> QED BY <1>1, <2>1, SameFollow
<1>3. CASE StopVideo
  BY <1>1, <1>2, <1>3 DEF StopVideo, TypeInv, PageRow
<1>4. CASE Subscribe
  BY <1>1, <1>2, <1>4 DEF Subscribe, TypeInv
<1>5. CASE Tick
  BY <1>1, <1>2, <1>5 DEF Tick, TypeInv
<1> QED BY <1>3, <1>4, <1>5

LEMMA Steps ==
  ASSUME TypeInv, [Next]_vars
  PROVE  TypeInv' /\ \/ Kept \/ TimerFires \/ StopVideo \/ Subscribe \/ Tick
                     \/ \E c : GrantedFacts(c)
<1>1. CASE UNCHANGED vars
  <2>1. PICK cs : cs = calls /\ cs = calls'
    BY <1>1 DEF vars
  <2>2. Follow(cs, cs)
    BY SameFollow
  <2> QED BY <1>1, <2>1, <2>2 DEF vars, TypeInv, Kept, StillRenewed
<1>2. CASE \/ Login \/ LoginWithProfile \/ RefreshAccessToken \/ Probe \/ PlayerFails
           \/ \E m \in Media : GetSignedCookies(m)
  BY <1>2, AskKept
<1>3. CASE Logout \/ AccessTokenExpires \/ LoadVideo \/ ManifestParsed \/ JoinParty \/ PartyEnds
  BY <1>3, SilentKept
<1>4. CASE AccessDenied
  BY <1>4, AccessDeniedKept
<1>5. ASSUME NEW i, Serve(i) \/ Deliver(i) \/ Lose(i)
      PROVE  TypeInv' /\ (Kept \/ \E c : GrantedFacts(c))
  BY <1>5, ServeKept, DeliverKept, GrantedStep
<1>6. CASE TimerFires
  BY <1>6, TimerStep
<1>7. CASE StopVideo \/ Subscribe \/ Tick
  BY <1>7, OtherStepsType
<1> QED BY <1>1, <1>2, <1>3, <1>4, <1>5, <1>6, <1>7 DEF Next

LEMMA InitType == Init => TypeInv
<1> SUFFICES ASSUME Init PROVE TypeInv
  OBVIOUS
<1>1. user \in [type : {"FREEMIUM", "PREMIUM"}, until : Nat \cup {None}] /\ now \in Nat
  BY DEF Init
<1>2. page \in PageRow
  <2>1. PICK b \in BOOLEAN : b = FALSE
    OBVIOUS
  <2>2. page = [temp |-> b, access |-> "none", refresh |-> b,
                current |-> None, manifest |-> None, timer |-> None]
    BY <2>1 DEF Init
  <2> QED BY <2>2 DEF PageRow
<1>3. cookies \in [Media -> Nat]
  BY DEF Init
<1>4. calls \in Seq(Call)
  BY DEF Init
<1>5. steady \in BOOLEAN
  BY DEF Init
<1> QED BY <1>1, <1>2, <1>3, <1>4, <1>5 DEF TypeInv

(***************************************************************************)
(* Access ends after the plan.                                             *)
(***************************************************************************)
LEMMA InitLapse == Init => LapseInv
BY DEF Init, LapseInv, Range

\* The calls stay within the plan as long as neither it nor the clock moves.
LEMMA FollowLapse ==
  ASSUME TypeInv, LapseInv, Follow(calls, calls'), UNCHANGED user
  PROVE  \A d \in Range(calls') :
           d.kind \in ForCookies /\ d.answer = "ok" /\ IsFilm(d.media) => WithinPlan(d.until)'
<1> SUFFICES ASSUME NEW d \in Range(calls'), d.kind \in ForCookies, d.answer = "ok", IsFilm(d.media)
             PROVE  WithinPlan(d.until)
  BY DEF WithinPlan
<1>1. ~Fresh(d)
  BY PlaybackAssumption DEF Fresh
<1>2. PICK c \in Range(calls) : SameCall(c, d)
  BY <1>1 DEF Follow
<1> QED BY <1>2 DEF SameCall, LapseInv

LEMMA NextLapse == TypeInv /\ LapseInv /\ [Next]_vars => LapseInv'
<1> SUFFICES ASSUME TypeInv, LapseInv, [Next]_vars PROVE LapseInv'
  OBVIOUS
<1>1. CASE UNCHANGED <<now, user, cookies>> /\ Follow(calls, calls')
  <2>1. \A t : WithinPlan(t)' <=> WithinPlan(t)
    BY <1>1 DEF WithinPlan
  <2> QED BY <1>1, <2>1, FollowLapse DEF LapseInv
<1>2. CASE Subscribe
  <2>1. user'.until = now + 1 /\ UNCHANGED <<now, calls, cookies>> /\ now \in Nat
    BY <1>2 DEF Subscribe, TypeInv
  <2>2. ASSUME NEW t \in Nat, WithinPlan(t) PROVE WithinPlan(t)'
    <3>1. user.until \in Nat /\ user.until <= now + 1
      BY <2>2 DEF WithinPlan, LapseInv, TypeInv
    <3>2. now + 1 # None
      BY <2>1, PlaybackAssumption
    <3> QED BY <2>1, <2>2, <3>1, <3>2, PlaybackAssumption DEF WithinPlan
  <2>3. \A m \in Media : cookies[m] \in Nat
    BY DEF TypeInv
  <2>4. \A c \in Range(calls) : c.until \in Nat
    BY CallTimes DEF TypeInv
  <2> QED BY <2>1, <2>2, <2>3, <2>4 DEF LapseInv
<1>3. CASE Tick
  <2>1. now' = now + 1 /\ UNCHANGED <<user, calls, cookies>>
    BY <1>3 DEF Tick
  <2>2. \A t : WithinPlan(t)' <=> WithinPlan(t)
    BY <2>1 DEF WithinPlan
  <2>3. user.until # None => user.until <= now + 1 + 1
    BY DEF LapseInv, TypeInv
  <2> QED BY <2>1, <2>2, <2>3 DEF LapseInv
<1>4. ASSUME NEW c, GrantedFacts(c) PROVE LapseInv'
  <2>1. UNCHANGED <<now, user>> /\ Follow(calls, calls')
    BY <1>4 DEF GrantedFacts
  <2>2. \A t : WithinPlan(t)' <=> WithinPlan(t)
    BY <2>1 DEF WithinPlan
  <2>3. ASSUME NEW m \in Media, IsFilm(m), cookies'[m] > 0 PROVE WithinPlan(cookies'[m])
    BY <1>4, <2>3 DEF GrantedFacts, LapseInv, TypeInv
  <2> QED BY <2>1, <2>2, <2>3, FollowLapse DEF LapseInv
<1>5. CASE Kept \/ TimerFires \/ StopVideo
  BY <1>1, <1>5, TimerStep, OtherStepsType DEF Kept, StopVideo
<1> QED BY <1>2, <1>3, <1>4, <1>5, Steps

\* However a page renews its cookies, by timer, after a 403 or after signing in
\* again, those of a premium film end less than their lifetime after the plan.
THEOREM AccessEnds == Spec => []AccessEndsAfterLapse
<1>1. Init => TypeInv /\ LapseInv
  BY InitType, InitLapse
<1>2. (TypeInv /\ LapseInv) /\ [Next]_vars => (TypeInv /\ LapseInv)'
  BY Steps, NextLapse
<1>3. LapseInv => AccessEndsAfterLapse
  BY DEF LapseInv, AccessEndsAfterLapse, IsFilm, WithinPlan
<1> QED BY <1>1, <1>2, <1>3, PTL DEF Spec

(***************************************************************************)
(* The cookies of a title that is renewed promptly never end.              *)
(***************************************************************************)
LEMMA InitSteady == Init => SteadyInv
BY DEF Init, SteadyInv, AnswersInv, Range

LEMMA FollowAnswers ==
  ASSUME TypeInv, TypeInv', AnswersInv, Follow(calls, calls'), now' \in {now, now + 1}
  PROVE  AnswersInv'
<1> SUFFICES ASSUME NEW d \in Range(calls')
             PROVE  /\ d.kind \in ForCookies => d.sent <= now'
                    /\ d.kind \in ForCookies /\ d.answer = "ok" => d.sent + Ttl <= d.until
                    /\ d.kind = "get" => d.media \in Media
  BY DEF AnswersInv, ForCookies
<1>1. now \in Nat /\ d.sent \in Nat /\ Ttl \in Nat
  BY CallTimes, PlaybackAssumption DEF TypeInv
<1>2. CASE Fresh(d)
  BY <1>1, <1>2, PlaybackAssumption DEF Fresh
<1>3. ASSUME NEW c \in Range(calls), SameCall(c, d)
      PROVE  /\ d.kind \in ForCookies => d.sent <= now'
             /\ d.kind \in ForCookies /\ d.answer = "ok" => d.sent + Ttl <= d.until
             /\ d.kind = "get" => d.media \in Media
  <2>1. c.kind \in ForCookies => c.sent <= now
    BY DEF AnswersInv
  <2> QED BY <1>1, <1>3, <2>1 DEF SameCall, AnswersInv
<1> QED BY <1>2, <1>3 DEF Follow

LEMMA FollowCurrent ==
  ASSUME RenewsCurrent, Follow(calls, calls'), UNCHANGED <<now, cookies>>,
         page'.current = page.current
  PROVE  RenewsCurrent'
<1> SUFFICES ASSUME NEW d \in Range(calls'), Renews(d), d.sent = now
             PROVE  d.media = page.current \/ now + Ttl <= cookies[page.current]
  BY DEF RenewsCurrent, Renews
<1>1. CASE Fresh(d)
  BY <1>1 DEF Fresh
<1>2. ASSUME NEW c \in Range(calls), SameCall(c, d)
      PROVE  d.media = page.current \/ now + Ttl <= cookies[page.current]
  BY <1>2 DEF SameCall, RenewsCurrent, Renews
<1> QED BY <1>1, <1>2 DEF Follow

LEMMA NextSteady == TypeInv /\ SteadyInv /\ [Next]_vars => SteadyInv'
<1> SUFFICES ASSUME TypeInv, SteadyInv, [Next]_vars PROVE SteadyInv'
  OBVIOUS
<1>1. TypeInv'
  BY Steps
<1>2. CASE Kept
  <2>1. AnswersInv'
    BY <1>1, <1>2, FollowAnswers DEF Kept, SteadyInv
  <2>2. ASSUME steady', page'.current # None PROVE RenewalDue'
    BY <1>2, <2>2 DEF Kept, StillRenewed, SteadyInv, RenewalDue, Renews
  <2>3. ASSUME steady', page'.current # None PROVE RenewsCurrent'
    BY <1>2, <2>3, FollowCurrent DEF Kept, SteadyInv
  <2> QED BY <1>2, <2>1, <2>2, <2>3 DEF Kept, SteadyInv
<1>3. CASE TimerFires
  <2>1. AnswersInv'
    BY <1>1, <1>3, TimerStep, FollowAnswers DEF SteadyInv
  <2>2. ASSUME steady', page'.current # None PROVE RenewalDue'
    <3>1. page.timer = now
      BY <1>3, TimerStep DEF SteadyInv, TypeInv, PageRow
    <3>2. page.current \in Media /\ steady
      BY <1>3, <2>2, TimerStep DEF TypeInv, PageRow
    <3>3. page.timer + Lead <= cookies[page.current]
      BY <1>3, <3>2, TimerStep, PlaybackAssumption DEF SteadyInv, RenewalDue, Media
    <3>4. now < cookies[page.current]
      BY <3>1, <3>2, <3>3, PlaybackAssumption DEF TypeInv
    <3>5. PICK c \in Range(calls') : Renews(c) /\ c.sent = now
      BY <1>3, <2>2, TimerStep
    <3>6. page'.timer = None /\ page'.current = page.current /\ cookies' = cookies
      BY <1>3, TimerStep
    <3> QED BY <3>4, <3>5, <3>6 DEF RenewalDue, Renews
  <2>3. ASSUME steady', page'.current # None PROVE RenewsCurrent'
    BY <1>3, <2>3, TimerStep, FollowCurrent DEF SteadyInv
  <2> QED BY <1>3, <2>1, <2>2, <2>3, TimerStep DEF SteadyInv
<1>4. CASE StopVideo
  <2>1. AnswersInv'
    BY <1>1, <1>4, OtherStepsType, FollowAnswers DEF SteadyInv, StopVideo
  <2>2. ~steady' /\ page'.timer = None
    BY <1>4 DEF StopVideo, TypeInv, PageRow
  <2> QED BY <2>1, <2>2 DEF SteadyInv
<1>5. CASE Subscribe
  <2>1. UNCHANGED <<now, page, calls, cookies, steady>>
    BY <1>5 DEF Subscribe
  <2> QED BY <2>1 DEF SteadyInv, AnswersInv, RenewalDue, RenewsCurrent
<1>6. CASE Tick
  <2>1. now' = now + 1 /\ UNCHANGED <<page, calls, cookies, steady>>
          /\ (page.timer # None => page.timer > now)
    BY <1>6 DEF Tick
  <2>2. AnswersInv'
    BY <1>1, <1>6, <2>1, OtherStepsType, FollowAnswers DEF SteadyInv
  <2>3. page'.timer # None => now' <= page'.timer
    BY <2>1 DEF TypeInv, PageRow
  <2>4. RenewalDue => RenewalDue'
    BY <2>1 DEF RenewalDue
  <2>5. \A c \in Range(calls) : Renews(c) => c.sent # now + 1
    <3>1. \A c \in Range(calls) : c.sent \in Nat
      BY CallTimes DEF TypeInv
    <3>2. \A c \in Range(calls) : Renews(c) => c.sent <= now
      BY DEF SteadyInv, AnswersInv, Renews, ForCookies
    <3> QED BY <3>1, <3>2 DEF TypeInv
  <2>6. RenewsCurrent'
    BY <2>1, <2>5 DEF RenewsCurrent
  <2> QED BY <2>1, <2>2, <2>3, <2>4, <2>6 DEF SteadyInv
<1>7. ASSUME NEW c, GrantedFacts(c) PROVE SteadyInv'
  <2>1. AnswersInv'
    BY <1>1, <1>7, FollowAnswers DEF SteadyInv, GrantedFacts
  <2>2. page'.timer = Scheduled /\ now' = now
    BY <1>7 DEF GrantedFacts
  <2>3. now \in Nat /\ Scheduled \in Nat /\ now <= Scheduled /\ Scheduled + Lead = now + Ttl
          /\ Scheduled # None
    BY ScheduledIsNat, PlaybackAssumption DEF TypeInv
  <2>4. ASSUME steady', page'.current # None PROVE now + Ttl <= cookies'[page'.current]
    <3>1. c \in Range(calls) /\ c.kind \in ForCookies /\ c.answer = "ok" /\ c.sent = now
      BY <1>7, <2>4 DEF GrantedFacts
    <3>2. now + Ttl <= c.until
      BY <3>1 DEF SteadyInv, AnswersInv
    <3>3. page'.current \in Media
      BY <1>1, <2>4 DEF TypeInv, PageRow
    <3>4. CASE c.media = page'.current
      BY <1>7, <3>2, <3>3, <3>4 DEF GrantedFacts, TypeInv
    <3>5. CASE c.media # page'.current
      <4>1. Renews(c) /\ page'.current = page.current /\ steady
        BY <1>7, <2>4, <3>1, <3>5 DEF GrantedFacts, Renews, ForCookies
      <4>2. now + Ttl <= cookies[page.current]
        BY <2>4, <3>1, <3>5, <4>1 DEF SteadyInv, RenewsCurrent
      <4>3. cookies'[page.current] = cookies[page.current]
        BY <1>7, <3>3, <3>5, <4>1 DEF GrantedFacts, TypeInv
      <4> QED BY <4>1, <4>2, <4>3
    <3> QED BY <3>4, <3>5
  <2>5. ASSUME steady', page'.current # None PROVE RenewalDue' /\ RenewsCurrent'
    <3> HIDE DEF Scheduled
    <3> QED BY <2>2, <2>3, <2>4, <2>5 DEF RenewalDue, RenewsCurrent
  <2> HIDE DEF Scheduled
  <2> QED BY <2>1, <2>2, <2>3, <2>5 DEF SteadyInv
<1> QED BY <1>2, <1>3, <1>4, <1>5, <1>6, <1>7, Steps

\* As long as the renewals succeed and their answers come promptly, there is no
\* moment at which the title that was asked for cannot be loaded.
THEOREM NeverLapses == Spec => []NoLapseWhileSteady
<1>1. Init => TypeInv /\ SteadyInv
  BY InitType, InitSteady
<1>2. (TypeInv /\ SteadyInv) /\ [Next]_vars => (TypeInv /\ SteadyInv)'
  BY Steps, NextSteady
<1>3. TypeInv /\ SteadyInv => NoLapseWhileSteady
  <2> SUFFICES ASSUME TypeInv, SteadyInv, steady, page.current # None,
                      \A i \in DOMAIN calls : calls[i].kind \in ForCookies => calls[i].sent = now
               PROVE  cookies[page.current] > now
    BY DEF NoLapseWhileSteady
  <2>1. RenewalDue /\ cookies[page.current] \in Nat /\ now \in Nat
    BY DEF SteadyInv, TypeInv, PageRow
  <2>2. CASE page.timer # None
    BY <2>1, <2>2, PlaybackAssumption DEF RenewalDue, SteadyInv, TypeInv, PageRow
  <2>3. CASE page.timer = None
    <3>1. PICK c \in Range(calls) : Renews(c) /\ c.sent < cookies[page.current]
      BY <2>1, <2>3 DEF RenewalDue
    <3>2. c.sent = now
      BY <3>1 DEF Range, Renews, ForCookies
    <3> QED BY <2>1, <3>1, <3>2
  <2> QED BY <2>2, <2>3
<1> QED BY <1>1, <1>2, <1>3, PTL DEF Spec

(***************************************************************************)
(* PartySync.  The two models share the constants that bound them, the     *)
(* clock and the two counters by name only: the theorems that follow have  *)
(* Party!Spec as their hypothesis and nothing of Playback's behaviour.     *)
(***************************************************************************)
CONSTANTS Pages, Starter, MaxInbox

VARIABLES host, members, video, inbox, attrs, epoch

Party == INSTANCE PartySync WITH page <- members

\* What PartySync assumes of the constants that it does not share.
PartyConstants == Starter \in Pages /\ MaxInbox \in Nat

\* What a page may hold, without the bounds: a player, attributes, a message.
WordKinds == {"play", "pause", "seek", "hb"}
Clip == [playing : BOOLEAN, media : Nat, at : Nat]
Still == [t : WordKinds, media : Nat, at : Nat]
Word == [t : WordKinds, media : Nat, at : Nat, from : Pages, epoch : Nat]
MemberRow == [role : {"none", "HOST", "PARTICIPANT"}, party : BOOLEAN, rtm : {"off", "up", "down"},
            hb : BOOLEAN, scrub : BOOLEAN, reading : Still \cup {None}]

PartyTypes ==
  /\ now \in Nat /\ epoch \in Nat
  /\ members \in [Pages -> MemberRow]
  /\ video \in [Pages -> Clip] /\ \A p \in Pages : video[p].at <= now
  /\ inbox \in [Pages -> Seq(Word)]
  /\ attrs \in Still \cup {None}
  /\ attrs # None => attrs.at <= now
  /\ \A p \in Pages : members[p].reading # None => members[p].reading.at <= now

\* What a message says is what its sender's player does.
Agrees(m) ==
  LET v == video[m.from] IN
  /\ m.t = "play" => v.playing
  /\ m.t = "pause" => ~v.playing
  /\ Party!Position(v) = IF v.playing THEN m.media + (now - m.at) ELSE m.media

\* The newest word of a HOST is still true.
Said(m) ==
  /\ m.epoch <= epoch /\ m.at <= now
  /\ m.epoch = epoch /\ Party!Hosting(m.from) => Agrees(m)

WordsInv == \A q \in Pages : \A i \in DOMAIN inbox[q] : Said(inbox[q][i])

\* What a page sends, and that it may.
NewWord(p, w) ==
  /\ w \in Word /\ w.from = p /\ w.at = now /\ w.epoch = epoch'
  /\ w.media = Party!Position(video'[p])
  /\ w.t = "play" => video'[p].playing
  /\ w.t = "pause" => ~video'[p].playing
  /\ members[p].role = "HOST" \/ members[p].scrub

Sending(p, rest) ==
  \A q \in Pages : inbox'[q] = rest[q] \/ \E w : NewWord(p, w) /\ inbox'[q] = Append(rest[q], w)

LEMMA PositionIsNat ==
  ASSUME now \in Nat, NEW v \in Clip, v.at <= now PROVE Party!Position(v) \in Nat
BY DEF Party!Position, Clip

\* A page sends, or not, what its player does.
LEMMA SendWords ==
  ASSUME PartyTypes, NEW p \in Pages, NEW t \in WordKinds, NEW v, v = video'[p], v \in Clip, v.at <= now,
         t = "play" => v.playing, t = "pause" => ~v.playing, epoch' \in Nat,
         members[p].role = "HOST" \/ members[p].scrub,
         NEW rest \in [Pages -> Seq(Word)], Party!Send(p, t, v, rest) \/ inbox' = rest
  PROVE  inbox' \in [Pages -> Seq(Word)] /\ Sending(p, rest)
<1> DEFINE w == [t |-> t, media |-> Party!Position(v), at |-> now, from |-> p, epoch |-> epoch']
<1>1. w \in Word
  BY PositionIsNat DEF PartyTypes, Word
<1>2. NewWord(p, w)
  BY <1>1 DEF NewWord
<1>3. CASE Party!Send(p, t, v, rest)
  <2>1. \A q \in Pages : inbox'[q] = IF q \in Party!Receivers(p) THEN Append(rest[q], w) ELSE rest[q]
    BY <1>3 DEF Party!Send
  <2>2. inbox' = [q \in Pages |-> IF q \in Party!Receivers(p) THEN Append(rest[q], w) ELSE rest[q]]
    BY <1>3 DEF Party!Send
  <2> HIDE DEF w
  <2>3. \A q \in Pages : Append(rest[q], w) \in Seq(Word)
    BY <1>1
  <2> QED BY <1>2, <2>1, <2>2, <2>3 DEF Sending
<1>4. CASE inbox' = rest
  BY <1>4 DEF Sending
<1> QED BY <1>3, <1>4

LEMMA AnnounceWords ==
  ASSUME PartyTypes, NEW p \in Pages, NEW t \in WordKinds, NEW v, v = video'[p], v \in Clip, v.at <= now,
         t = "play" => v.playing, t = "pause" => ~v.playing, epoch' \in Nat,
         members[p].role = "HOST" \/ members[p].scrub,
         NEW rest \in [Pages -> Seq(Word)], Party!Announce(p, t, v, rest)
  PROVE  /\ inbox' \in [Pages -> Seq(Word)] /\ Sending(p, rest)
         /\ attrs' \in Still \cup {None} /\ (attrs' # None => attrs'.at <= now)
<1>1. Party!Send(p, t, v, rest) \/ inbox' = rest
  BY DEF Party!Announce, Party!wpPublishControl
<1> DEFINE a == [t |-> IF v.playing THEN "play" ELSE "pause", media |-> Party!Position(v), at |-> now]
<1>2. a \in Still /\ a.at = now
  BY PositionIsNat DEF Still, WordKinds, PartyTypes
<1>3. attrs' = a \/ attrs' = attrs
  BY DEF Party!Announce
<1> HIDE DEF a
<1>4. attrs' \in Still \cup {None} /\ (attrs' # None => attrs'.at <= now)
  BY <1>2, <1>3 DEF PartyTypes
<1> QED BY <1>1, <1>4, SendWords

\* Of a HOST whose player was not changed, what was said is still true.
HostsStay ==
  \A p \in Pages : Party!Hosting(p)' /\ epoch' = epoch =>
    /\ Party!Hosting(p) /\ video'[p].playing = video[p].playing
    /\ Party!Position(video'[p]) = Party!Position(video[p])

LEMMA WordsKept ==
  ASSUME PartyTypes, PartyTypes', WordsInv, NEW p \in Pages, now' = now, epoch' = epoch \/ epoch' = epoch + 1,
         NEW rest \in [Pages -> Seq(Word)], \A q \in Pages : rest[q] \in {inbox[q], Tail(inbox[q]), <<>>},
         \A q \in Pages : rest[q] = Tail(inbox[q]) => inbox[q] # <<>> \/ rest[q] = inbox[q],
         Sending(p, rest), HostsStay
  PROVE  WordsInv'
<1>1. ASSUME NEW m \in Word, Said(m) PROVE Said(m)'
  <2>1. m.epoch <= epoch' /\ m.at <= now'
    BY <1>1 DEF Said, PartyTypes, Word
  <2>2. ASSUME m.epoch = epoch', Party!Hosting(m.from)' PROVE Agrees(m)'
    <3>1. epoch' = epoch /\ m.from \in Pages
      BY <1>1, <2>2 DEF Said, PartyTypes, Word
    <3>2. /\ Party!Hosting(m.from) /\ video'[m.from].playing = video[m.from].playing
          /\ Party!Position(video'[m.from]) = Party!Position(video[m.from])
      BY <2>2, <3>1 DEF HostsStay
    <3>3. Agrees(m)
      BY <1>1, <2>2, <3>1, <3>2 DEF Said
    <3> QED BY <3>2, <3>3 DEF Agrees, Party!Position
  <2> QED BY <2>1, <2>2 DEF Said
<1>2. ASSUME NEW w, NewWord(p, w) PROVE Said(w)'
  <2>1. w.epoch = epoch' /\ w.at = now' /\ w.from = p /\ w \in Word
    BY <1>2 DEF NewWord
  <2>2. Agrees(w)'
    BY <1>2, <2>1 DEF NewWord, Agrees, Party!Position, PartyTypes, Word
  <2> QED BY <2>1, <2>2 DEF Said, PartyTypes
<1>3. ASSUME NEW q \in Pages, NEW i \in DOMAIN rest[q] PROVE rest[q][i] \in Word /\ Said(rest[q][i])
  <2>1. inbox[q] \in Seq(Word)
    BY DEF PartyTypes
  <2>2. CASE rest[q] = inbox[q]
    BY <1>3, <2>1, <2>2 DEF WordsInv
  <2>3. CASE rest[q] = Tail(inbox[q]) /\ inbox[q] # <<>>
    <3>1. i + 1 \in DOMAIN inbox[q] /\ rest[q][i] = inbox[q][i + 1]
      BY <1>3, <2>1, <2>3, HeadTailProperties
    <3> QED BY <2>1, <3>1 DEF WordsInv
  <2>4. CASE rest[q] = <<>>
    BY <1>3, <2>4
  <2> QED BY <2>2, <2>3, <2>4
<1> SUFFICES ASSUME NEW q \in Pages, NEW i \in DOMAIN inbox'[q] PROVE Said(inbox[q][i])'
  BY DEF WordsInv
<1>4. CASE inbox'[q] = rest[q]
  <2> PICK m : m = rest[q][i]
    OBVIOUS
  <2>1. Said(m)'
    BY <1>1, <1>3, <1>4
  <2> QED BY <1>4, <2>1
<1>5. ASSUME NEW w, NewWord(p, w), inbox'[q] = Append(rest[q], w) PROVE Said(inbox[q][i])'
  <2>1. CASE i = Len(rest[q]) + 1
    <3>1. inbox'[q][i] = w
      BY <1>5, <2>1
    <3> QED BY <1>2, <1>5, <3>1
  <2>2. CASE i # Len(rest[q]) + 1
    <3> PICK m : m = rest[q][i]
      OBVIOUS
    <3>1. i \in DOMAIN rest[q] /\ inbox'[q][i] = m
      BY <1>5, <2>2
    <3>2. Said(m)'
      BY <1>1, <1>3, <3>1
    <3> QED BY <3>1, <3>2
  <2> QED BY <2>1, <2>2
<1> QED BY <1>4, <1>5 DEF Sending

\* The messages that are left when p has taken its first, or lost them.
Rest(p, rest) ==
  \/ rest = inbox
  \/ Party!Receive(p) /\ inbox[p] # <<>> /\ rest = [inbox EXCEPT ![p] = Tail(@)]
  \/ members'[p].rtm = "down" /\ rest = [inbox EXCEPT ![p] = <<>>]

\* What a step of page p does to the messages, other than the clock's.
StepOf(p) ==
  /\ now' = now /\ (epoch' = epoch \/ epoch' = epoch + 1) /\ HostsStay
  /\ \E rest \in [Pages -> Seq(Word)] : Rest(p, rest) /\ Sending(p, rest)

LEMMA ChangedStep ==
  ASSUME PartyTypes, NEW p \in Pages, NEW v \in Clip, v.at <= now,
         NEW after \in MemberRow, after.role = members[p].role, after.party = members[p].party,
         after.reading # None => after.reading.at <= now,
         NEW rest \in [Pages -> Seq(Word)], now' = now, Party!Changed(p, v, after, rest)
  PROVE  /\ PartyTypes' /\ Sending(p, rest) /\ HostsStay
         /\ epoch' = epoch \/ epoch' = epoch + 1
<1> DEFINE toggled == v.playing # video[p].playing
           jumped == Party!Position(v) # Party!Position(video[p])
           heard == Party!Hosting(p) /\ (toggled \/ jumped)
<1>1. /\ video' = [video EXCEPT ![p] = v]
      /\ epoch' = IF heard THEN epoch + 1 ELSE epoch
      /\ members' = [members EXCEPT ![p] =
           IF heard THEN [after EXCEPT !.hb = IF toggled THEN v.playing ELSE @,
                                       !.scrub = @ \/ jumped]
           ELSE after]
  BY DEF Party!Changed
<1>2. /\ heard /\ toggled => Party!Announce(p, IF v.playing THEN "play" ELSE "pause", v, rest)
      /\ ~(heard /\ toggled) => inbox' = rest /\ UNCHANGED <<attrs, faults>>
  BY DEF Party!Changed
<1>3. toggled \in BOOLEAN /\ jumped \in BOOLEAN /\ heard \in BOOLEAN
  BY DEF Party!Hosting
<1>4. heard => members[p].role = "HOST"
  BY DEF Party!Hosting
<1>5. v.playing \in BOOLEAN
  BY DEF Clip
<1>6. ~heard /\ Party!Hosting(p) => v.playing = video[p].playing /\ Party!Position(v) = Party!Position(video[p])
  OBVIOUS
<1> HIDE DEF toggled, jumped, heard
<1>7. video' \in [Pages -> Clip] /\ \A q \in Pages : video'[q].at <= now'
  BY <1>1 DEF PartyTypes
<1>8. video'[p] = v /\ (epoch' = epoch \/ epoch' = epoch + 1) /\ epoch' \in Nat
  BY <1>1 DEF PartyTypes
<1>9. /\ members' \in [Pages -> MemberRow]
      /\ \A q \in Pages : members'[q].reading # None => members'[q].reading.at <= now'
      /\ members'[p].role = members[p].role /\ members'[p].party = members[p].party
      /\ \A q \in Pages \ {p} : members'[q] = members[q]
  <2> DEFINE row == IF heard THEN [after EXCEPT !.hb = IF toggled THEN v.playing ELSE @,
                                       !.scrub = @ \/ jumped]
                    ELSE after
  <2>1. row \in MemberRow /\ row.role = after.role /\ row.party = after.party
        /\ row.reading = after.reading
    BY <1>3, <1>5 DEF MemberRow
  <2>2. members' = [members EXCEPT ![p] = row]
    BY <1>1
  <2> HIDE DEF row
  <2> QED BY <2>1, <2>2 DEF PartyTypes
<1>10. HostsStay
  <2> SUFFICES ASSUME NEW q \in Pages, Party!Hosting(q)', epoch' = epoch
               PROVE  /\ Party!Hosting(q) /\ video'[q].playing = video[q].playing
                      /\ Party!Position(video'[q]) = Party!Position(video[q])
    BY DEF HostsStay
  <2>1. Party!Hosting(q)
    BY <1>9 DEF Party!Hosting
  <2>2. ~heard
    BY <1>1 DEF PartyTypes
  <2>3. CASE q = p
    BY <1>6, <1>8, <2>1, <2>2, <2>3
  <2>4. CASE q # p
    <3>1. video'[q] = video[q]
      BY <1>1, <2>4 DEF PartyTypes
    <3> QED BY <2>1, <3>1
  <2> QED BY <2>3, <2>4
<1>11. CASE heard /\ toggled
  <2> DEFINE t == IF v.playing THEN "play" ELSE "pause"
  <2>1. t \in WordKinds /\ (t = "play" => v.playing) /\ (t = "pause" => ~v.playing)
    BY <1>5 DEF WordKinds
  <2>2. Party!Announce(p, t, v, rest)
    BY <1>2, <1>11
  <2> HIDE DEF t
  <2>3. /\ inbox' \in [Pages -> Seq(Word)] /\ Sending(p, rest)
        /\ attrs' \in Still \cup {None} /\ (attrs' # None => attrs'.at <= now)
    BY <1>4, <1>8, <1>11, <2>1, <2>2, AnnounceWords
  <2> QED BY <1>7, <1>8, <1>9, <1>10, <2>3 DEF PartyTypes
<1>12. CASE ~(heard /\ toggled)
  <2>1. inbox' = rest /\ attrs' = attrs
    BY <1>2, <1>12
  <2> QED BY <1>7, <1>8, <1>9, <1>10, <2>1 DEF PartyTypes, Sending
<1> QED BY <1>11, <1>12

\* A step that changes no player and sends nothing.
LEMMA QuietStep ==
  ASSUME PartyTypes, NEW p \in Pages, UNCHANGED <<now, video, attrs>>,
         epoch' = epoch \/ epoch' = epoch + 1,
         NEW row \in MemberRow, members' = [members EXCEPT ![p] = row],
         row.reading # None => row.reading.at <= now,
         row.role = "HOST" /\ row.party /\ epoch' = epoch => Party!Hosting(p),
         NEW rest \in [Pages -> Seq(Word)], Rest(p, rest), inbox' = rest
  PROVE  PartyTypes' /\ StepOf(p)
<1>1. members' \in [Pages -> MemberRow] /\ members'[p] = row /\ \A q \in Pages \ {p} : members'[q] = members[q]
  BY DEF PartyTypes
<1>2. PartyTypes'
  BY <1>1 DEF PartyTypes
<1>3. HostsStay
  BY <1>1 DEF HostsStay, Party!Hosting
<1> QED BY <1>2, <1>3 DEF StepOf, Sending

(***************************************************************************)
(* One lemma for each action of a page.                                    *)
(***************************************************************************)
LEMMA ToggleStep ==
  ASSUME PartyTypes, NEW p \in Pages, Party!Toggle(p) PROVE PartyTypes' /\ StepOf(p)
<1> DEFINE v == [playing |-> ~video[p].playing, media |-> Party!Position(video[p]), at |-> now]
<1>1. v \in Clip /\ v.at <= now
  BY PositionIsNat DEF PartyTypes, Clip
<1>2. Party!Changed(p, v, members[p], inbox) /\ now' = now
  BY DEF Party!Toggle
<1> HIDE DEF v
<1>3. members[p] \in MemberRow /\ (members[p].reading # None => members[p].reading.at <= now)
      /\ inbox \in [Pages -> Seq(Word)]
  BY DEF PartyTypes
<1> QED BY <1>1, <1>2, <1>3, ChangedStep DEF StepOf, Rest

LEMMA SeekToStep ==
  ASSUME PartyTypes, NEW p \in Pages, NEW x \in Nat, Party!SeekTo(p, x)
  PROVE  PartyTypes' /\ StepOf(p)
<1> DEFINE v == [video[p] EXCEPT !.media = x, !.at = now]
<1>1. v \in Clip /\ v.at <= now
  <2>1. now \in Nat
    BY DEF PartyTypes
  <2>2. video[p] \in Clip
    BY DEF PartyTypes
  <2>3. v \in Clip
    BY <2>1, <2>2 DEF Clip
  <2>4. v.at = now
    BY <2>1, <2>2 DEF Clip
  <2> QED BY <2>1, <2>3, <2>4
<1>2. Party!Changed(p, v, members[p], inbox) /\ now' = now
  BY DEF Party!SeekTo
<1> HIDE DEF v
<1>3. members[p] \in MemberRow /\ (members[p].reading # None => members[p].reading.at <= now)
      /\ inbox \in [Pages -> Seq(Word)]
  BY DEF PartyTypes
<1> QED BY <1>1, <1>2, <1>3, ChangedStep DEF StepOf, Rest

LEMMA ReceiveStep ==
  ASSUME PartyTypes, WordsInv, NEW p \in Pages, Party!Receive(p) PROVE PartyTypes' /\ StepOf(p)
<1> DEFINE m == Head(inbox[p])
           v == [playing |-> Party!IsPlaying(m), media |-> Party!Target(m), at |-> now]
           rest == [inbox EXCEPT ![p] = Tail(@)]
<1>1. inbox \in [Pages -> Seq(Word)] /\ inbox[p] \in Seq(Word) /\ inbox[p] # <<>>
  BY DEF PartyTypes, Party!Receive
<1>2. m \in Word /\ m.at <= now
  BY <1>1 DEF WordsInv, Said
<1>3. v \in Clip /\ v.at <= now
  BY <1>2 DEF Clip, Word, Party!Target, Party!IsPlaying, PartyTypes
<1>4. Party!Changed(p, v, members[p], rest) /\ now' = now
  BY DEF Party!Receive, Party!wpApplyAnchor
<1>5. rest \in [Pages -> Seq(Word)]
  BY <1>1
<1>6. Rest(p, rest)
  BY <1>1 DEF Rest
<1>7. members[p] \in MemberRow /\ (members[p].reading # None => members[p].reading.at <= now)
  BY DEF PartyTypes
<1> HIDE DEF v, rest
<1> QED BY <1>3, <1>4, <1>5, <1>6, <1>7, ChangedStep DEF StepOf

LEMMA ApplyStep ==
  ASSUME PartyTypes, NEW p \in Pages, Party!ApplyChannelAttrs(p) PROVE PartyTypes' /\ StepOf(p)
<1> DEFINE m == members[p].reading
           v == [playing |-> Party!IsPlaying(m), media |-> Party!Target(m), at |-> now]
           after == [members[p] EXCEPT !.reading = None]
<1>1. m \in Still /\ m.at <= now
  BY DEF PartyTypes, Party!ApplyChannelAttrs, MemberRow
<1>2. v \in Clip /\ v.at <= now
  BY <1>1 DEF Clip, Still, Party!Target, Party!IsPlaying, PartyTypes
<1>3. Party!Changed(p, v, after, inbox) /\ now' = now
  BY DEF Party!ApplyChannelAttrs, Party!wpApplyAnchor
<1>4. after \in MemberRow /\ after.role = members[p].role /\ after.party = members[p].party
      /\ after.reading = None
  BY DEF PartyTypes, MemberRow
<1>5. inbox \in [Pages -> Seq(Word)]
  BY DEF PartyTypes
<1> HIDE DEF v, after
<1> QED BY <1>2, <1>3, <1>4, <1>5, ChangedStep DEF StepOf, Rest

LEMMA FireScrubStep ==
  ASSUME PartyTypes, NEW p \in Pages, Party!FireScrub(p) PROVE PartyTypes' /\ StepOf(p)
<1> DEFINE row == [members[p] EXCEPT !.scrub = FALSE]
<1>1. members' = [members EXCEPT ![p] = row] /\ UNCHANGED <<now, video, epoch>> /\ members[p].scrub
  BY DEF Party!FireScrub
<1>2. row \in MemberRow /\ row.role = members[p].role /\ row.party = members[p].party
      /\ (row.reading # None => row.reading.at <= now)
  BY DEF PartyTypes, MemberRow
<1> HIDE DEF row
<1>3. CASE members[p].party
  <2>1. Party!Announce(p, "seek", video[p], inbox)
    BY <1>3 DEF Party!FireScrub
  <2>2. video[p] \in Clip /\ video[p].at <= now /\ inbox \in [Pages -> Seq(Word)]
        /\ epoch \in Nat /\ "seek" \in WordKinds
    BY DEF PartyTypes, WordKinds
  <2>3. /\ inbox' \in [Pages -> Seq(Word)] /\ Sending(p, inbox)
        /\ attrs' \in Still \cup {None} /\ (attrs' # None => attrs'.at <= now)
    BY <1>1, <2>1, <2>2, AnnounceWords
  <2>4. /\ members' \in [Pages -> MemberRow] /\ members'[p] = row
        /\ \A q \in Pages \ {p} : members'[q] = members[q]
    BY <1>1, <1>2 DEF PartyTypes
  <2>5. PartyTypes'
    BY <1>1, <1>2, <2>3, <2>4 DEF PartyTypes
  <2>6. HostsStay
    BY <1>1, <1>2, <2>4 DEF HostsStay, Party!Hosting
  <2> QED BY <1>1, <2>2, <2>3, <2>5, <2>6 DEF StepOf, Rest
<1>4. CASE ~members[p].party
  <2>1. inbox' = inbox /\ attrs' = attrs
    BY <1>4 DEF Party!FireScrub
  <2>2. inbox \in [Pages -> Seq(Word)] /\ Rest(p, inbox)
    BY DEF PartyTypes, Rest
  <2> QED BY <1>1, <1>2, <2>1, <2>2, QuietStep DEF Party!Hosting
<1> QED BY <1>3, <1>4

LEMMA HeartbeatStep ==
  ASSUME PartyTypes, NEW p \in Pages, Party!Heartbeat(p) PROVE PartyTypes' /\ StepOf(p)
<1>1. /\ UNCHANGED <<now, members, video, attrs, epoch>> /\ members[p].role = "HOST"
      /\ Party!wpPublishControl(p, "hb", video[p], inbox)
  BY DEF Party!Heartbeat
<1>2. video[p] \in Clip /\ video[p].at <= now /\ inbox \in [Pages -> Seq(Word)]
      /\ epoch \in Nat /\ "hb" \in WordKinds
  BY DEF PartyTypes, WordKinds
<1>3. Party!Send(p, "hb", video[p], inbox) \/ inbox' = inbox
  BY <1>1 DEF Party!wpPublishControl
<1>4. inbox' \in [Pages -> Seq(Word)] /\ Sending(p, inbox)
  BY <1>1, <1>2, <1>3, SendWords
<1>5. PartyTypes'
  BY <1>1, <1>4 DEF PartyTypes
<1>6. HostsStay
  BY <1>1 DEF HostsStay, Party!Hosting
<1> QED BY <1>1, <1>2, <1>4, <1>5, <1>6 DEF StepOf, Rest

LEMMA ConnectStep ==
  ASSUME PartyTypes, NEW p \in Pages, Party!Connect(p) PROVE PartyTypes' /\ StepOf(p)
<1> DEFINE row == [members[p] EXCEPT !.role = IF p = host THEN "HOST" ELSE "PARTICIPANT",
                                  !.party = TRUE, !.rtm = "up", !.reading = attrs]
<1>1. members[p] \in MemberRow /\ inbox \in [Pages -> Seq(Word)] /\ epoch \in Nat
  BY DEF PartyTypes
<1>2. members' = [members EXCEPT ![p] = row]
  BY DEF Party!Connect
<1>3. /\ row \in MemberRow /\ row.reading = attrs
      /\ row.role = IF p = host THEN "HOST" ELSE "PARTICIPANT"
  BY <1>1 DEF PartyTypes, MemberRow
<1> HIDE DEF row
<1>4. UNCHANGED <<now, video, attrs>> /\ inbox' = inbox
      /\ epoch' = IF p = host THEN epoch + 1 ELSE epoch
  BY DEF Party!Connect
<1>5. row.reading # None => row.reading.at <= now
  BY <1>3 DEF PartyTypes
<1>6. row.role = "HOST" => epoch' # epoch
  BY <1>1, <1>3, <1>4
<1>7. Rest(p, inbox)
  BY DEF Rest
<1> QED BY <1>1, <1>2, <1>3, <1>4, <1>5, <1>6, <1>7, QuietStep

LEMMA LoseConnectionStep ==
  ASSUME PartyTypes, NEW p \in Pages, Party!LoseConnection(p) PROVE PartyTypes' /\ StepOf(p)
<1> DEFINE row == [members[p] EXCEPT !.rtm = "down"]
           rest == [inbox EXCEPT ![p] = <<>>]
<1>1. members[p] \in MemberRow /\ inbox \in [Pages -> Seq(Word)] /\ members \in [Pages -> MemberRow]
  BY DEF PartyTypes
<1>2. members' = [members EXCEPT ![p] = row] /\ inbox' = rest /\ UNCHANGED <<now, video, attrs, epoch>>
  BY DEF Party!LoseConnection
<1>3. row \in MemberRow /\ row.role = members[p].role /\ row.party = members[p].party
      /\ row.reading = members[p].reading /\ row.rtm = "down"
  BY <1>1 DEF MemberRow
<1>4. rest \in [Pages -> Seq(Word)]
  BY <1>1
<1> HIDE DEF row
<1>5. members'[p] = row
  BY <1>1, <1>2
<1>6. Rest(p, rest)
  BY <1>3, <1>5 DEF Rest
<1> HIDE DEF rest
<1>7. row.reading # None => row.reading.at <= now
  BY <1>3 DEF PartyTypes
<1> QED BY <1>2, <1>3, <1>4, <1>6, <1>7, QuietStep DEF Party!Hosting

LEMMA ReconnectedStep ==
  ASSUME PartyTypes, NEW p \in Pages, Party!Reconnected(p) PROVE PartyTypes' /\ StepOf(p)
<1> DEFINE row == [members[p] EXCEPT !.rtm = "up", !.reading = attrs]
<1>1. members[p] \in MemberRow /\ inbox \in [Pages -> Seq(Word)] /\ Rest(p, inbox)
  BY DEF PartyTypes, Rest
<1>2. members' = [members EXCEPT ![p] = row] /\ inbox' = inbox /\ UNCHANGED <<now, video, attrs, epoch>>
  BY DEF Party!Reconnected
<1>3. row \in MemberRow /\ row.role = members[p].role /\ row.party = members[p].party
      /\ row.reading = attrs
  BY <1>1 DEF MemberRow, PartyTypes
<1> HIDE DEF row
<1>4. row.reading # None => row.reading.at <= now
  BY <1>3 DEF PartyTypes
<1> QED BY <1>1, <1>2, <1>3, <1>4, QuietStep DEF Party!Hosting

LEMMA TransferHostStep ==
  ASSUME PartyTypes, NEW p \in Pages, NEW q \in Pages, Party!TransferHost(p, q)
  PROVE  PartyTypes' /\ StepOf(p)
<1>1. members[p] \in MemberRow /\ inbox \in [Pages -> Seq(Word)] /\ Rest(p, inbox)
      /\ members \in [Pages -> MemberRow]
      /\ (members[p].reading # None => members[p].reading.at <= now)
  BY DEF PartyTypes, Rest
<1>2. UNCHANGED <<now, video, attrs, epoch>> /\ inbox' = inbox
  BY DEF Party!TransferHost
<1>3. CASE members' = [members EXCEPT ![p].role = "PARTICIPANT"]
  <2> DEFINE row == [members[p] EXCEPT !.role = "PARTICIPANT"]
  <2>1. row \in MemberRow /\ row.role = "PARTICIPANT" /\ row.reading = members[p].reading
    BY <1>1 DEF MemberRow
  <2>2. members' = [members EXCEPT ![p] = row]
    BY <1>3
  <2> HIDE DEF row
  <2> QED BY <1>1, <1>2, <2>1, <2>2, QuietStep
<1>4. CASE members' = members
  <2>1. members' = [members EXCEPT ![p] = members[p]]
    BY <1>1, <1>4
  <2> QED BY <1>1, <1>2, <2>1, QuietStep DEF Party!Hosting
<1> QED BY <1>3, <1>4 DEF Party!TransferHost

LEMMA LeaveOrEndStep ==
  ASSUME PartyTypes, NEW p \in Pages, Party!LeaveOrEnd(p) PROVE PartyTypes' /\ StepOf(p)
<1> DEFINE row == [members[p] EXCEPT !.role = "none", !.party = FALSE, !.hb = FALSE]
<1>1. members[p] \in MemberRow /\ inbox \in [Pages -> Seq(Word)] /\ Rest(p, inbox)
      /\ (members[p].reading # None => members[p].reading.at <= now)
  BY DEF PartyTypes, Rest
<1>2. members' = [members EXCEPT ![p] = row] /\ inbox' = inbox /\ UNCHANGED <<now, video, attrs, epoch>>
  BY DEF Party!LeaveOrEnd
<1>3. row \in MemberRow /\ row.role = "none" /\ row.reading = members[p].reading
  BY <1>1 DEF MemberRow
<1> HIDE DEF row
<1> QED BY <1>1, <1>2, <1>3, QuietStep

LEMMA FailoverStep ==
  ASSUME PartyTypes, NEW p \in Pages, Party!Failover(p) PROVE PartyTypes' /\ StepOf(p)
<1>1. members[p] \in MemberRow /\ inbox \in [Pages -> Seq(Word)] /\ Rest(p, inbox)
      /\ (members[p].reading # None => members[p].reading.at <= now)
      /\ members = [members EXCEPT ![p] = members[p]]
  BY DEF PartyTypes, Rest
<1>2. members' = members /\ inbox' = inbox /\ UNCHANGED <<now, video, attrs, epoch>>
  BY DEF Party!Failover
<1> QED BY <1>1, <1>2, QuietStep DEF Party!Hosting

\* Every step is a page's, or the clock's.
LEMMA PartySteps ==
  ASSUME PartyTypes, WordsInv, Party!Next
  PROVE  (\E p \in Pages : PartyTypes' /\ StepOf(p)) \/ Party!Tick
<1>1. SUFFICES ASSUME NEW p \in Pages,
         \/ Party!Toggle(p) \/ Party!FireScrub(p) \/ Party!Heartbeat(p) \/ Party!Receive(p) \/ Party!ApplyChannelAttrs(p)
         \/ Party!Connect(p) \/ Party!LoseConnection(p) \/ Party!Reconnected(p) \/ Party!LeaveOrEnd(p) \/ Party!Failover(p)
         \/ \E media \in 0..MaxTime : Party!SeekTo(p, media)
         \/ \E q \in Pages : Party!TransferHost(p, q)
       PROVE PartyTypes' /\ StepOf(p)
  BY DEF Party!Next
<1>2. CASE \E media \in 0..MaxTime : Party!SeekTo(p, media)
  BY <1>2, SeekToStep
<1>3. CASE \E q \in Pages : Party!TransferHost(p, q)
  BY <1>3, TransferHostStep
<1> QED BY <1>1, <1>2, <1>3, ToggleStep, FireScrubStep, HeartbeatStep, ReceiveStep, ApplyStep,
        ConnectStep, LoseConnectionStep, ReconnectedStep, LeaveOrEndStep, FailoverStep

LEMMA TickKeeps ==
  ASSUME PartyTypes, WordsInv, Party!Tick PROVE PartyTypes' /\ WordsInv'
<1>1. now' = now + 1 /\ UNCHANGED <<members, video, inbox, attrs, epoch>>
  BY DEF Party!Tick
<1>2. PartyTypes'
  BY <1>1 DEF PartyTypes, Clip, Still, MemberRow
<1>3. ASSUME NEW m \in Word, Said(m) PROVE Said(m)'
  <2>1. now \in Nat /\ m.from \in Pages /\ video[m.from] \in Clip /\ video[m.from].at <= now
        /\ m.media \in Nat /\ m.at \in Nat /\ m.at <= now
    BY <1>3 DEF PartyTypes, Word, Said
  <2>2. Agrees(m) => Agrees(m)'
    BY <1>1, <2>1 DEF Agrees, Party!Position, Clip
  <2> QED BY <1>1, <1>3, <2>1, <2>2 DEF Said, Party!Hosting
<1>4. \A q \in Pages : \A i \in DOMAIN inbox[q] : inbox[q][i] \in Word
  BY DEF PartyTypes
<1>5. WordsInv'
  <2> SUFFICES ASSUME NEW q \in Pages, NEW i \in DOMAIN inbox[q] PROVE Said(inbox[q][i])'
    BY <1>1 DEF WordsInv
  <2> PICK m \in Word : m = inbox[q][i]
    BY <1>4
  <2>1. Said(m)'
    BY <1>3 DEF WordsInv
  <2> QED BY <1>1, <2>1
<1> QED BY <1>2, <1>5

LEMMA WordsInductive ==
  ASSUME PartyTypes, WordsInv, [Party!Next]_(Party!vars) PROVE PartyTypes' /\ WordsInv'
<1>1. CASE Party!Tick
  BY <1>1, TickKeeps
<1>2. ASSUME NEW p \in Pages, PartyTypes', StepOf(p) PROVE PartyTypes' /\ WordsInv'
  <2> PICK rest \in [Pages -> Seq(Word)] : Rest(p, rest) /\ Sending(p, rest)
    BY <1>2 DEF StepOf
  <2>1. \A q \in Pages : rest[q] \in {inbox[q], Tail(inbox[q]), <<>>}
    BY DEF Rest, PartyTypes
  <2>2. \A q \in Pages : rest[q] = Tail(inbox[q]) => inbox[q] # <<>> \/ rest[q] = inbox[q]
    BY DEF Rest, PartyTypes
  <2> QED BY <1>2, <2>1, <2>2, WordsKept DEF StepOf
<1>3. CASE UNCHANGED Party!vars
  BY <1>3
     DEF Party!vars, PartyTypes, WordsInv, Said, Agrees, Party!Position, Party!Hosting, Clip, Still, MemberRow
<1> QED BY <1>1, <1>2, <1>3, PartySteps

LEMMA WordsInit == Party!Init => PartyTypes /\ WordsInv
BY DEF Party!Init, PartyTypes, WordsInv, Party!Outside, MemberRow, Clip

\* Whatever is on its way, the newest word of a HOST is still true.
LEMMA WordsAlways == Party!Spec => [](PartyTypes /\ WordsInv)
BY WordsInit, WordsInductive, PTL DEF Party!Spec

LEMMA FromHostStep ==
  ASSUME PartyTypes, WordsInv, [Party!Next]_(Party!vars), NEW p \in Pages, NEW q \in Pages,
         Len(inbox'[q]) > Len(inbox[q]), Party!Last(inbox'[q]).from = p
  PROVE  members[p].role = "HOST" \/ members[p].scrub
<1>1. inbox'[q] # inbox[q] /\ Len(inbox[q]) \in Nat
  BY DEF PartyTypes
<1>2. PICK o \in Pages : StepOf(o)
  BY <1>1, PartySteps DEF Party!Tick, Party!vars
<1> PICK rest \in [Pages -> Seq(Word)] : Rest(o, rest) /\ Sending(o, rest)
  BY <1>2 DEF StepOf
<1>3. Len(rest[q]) <= Len(inbox[q]) /\ rest[q] \in Seq(Word)
  <2>1. inbox \in [Pages -> Seq(Word)] /\ inbox[q] \in Seq(Word) /\ rest[q] \in Seq(Word)
    BY DEF PartyTypes
  <2>2. inbox[q] # <<>> => Len(Tail(inbox[q])) <= Len(inbox[q])
    BY <2>1
  <2>3. rest[q] = inbox[q] \/ rest[q] = <<>> \/ (inbox[q] # <<>> /\ rest[q] = Tail(inbox[q]))
    BY <2>1 DEF Rest
  <2> QED BY <2>1, <2>2, <2>3
<1>4. PICK w : NewWord(o, w) /\ inbox'[q] = Append(rest[q], w)
  BY <1>3 DEF Sending
<1>5. Party!Last(inbox'[q]) = w
  BY <1>3, <1>4 DEF Party!Last, NewWord
<1> QED BY <1>4, <1>5 DEF NewWord

\* Whatever is lost, and however often the party is handed over, only the HOST says
\* anything, and a page whose seek was settled by a timer it had set as HOST.
THEOREM FromHost == Party!Spec => Party!ControlFromHost
<1>1. PartyTypes /\ WordsInv /\ [Party!Next]_(Party!vars) =>
        [\A p, q \in Pages :
           /\ Len(inbox'[q]) > Len(inbox[q]) /\ Party!Last(inbox'[q]).from = p
           => members[p].role = "HOST" \/ members[p].scrub]_(Party!vars)
  <2> SUFFICES ASSUME PartyTypes, WordsInv, [Party!Next]_(Party!vars), NEW p \in Pages, NEW q \in Pages,
                      Len(inbox'[q]) > Len(inbox[q]), Party!Last(inbox'[q]).from = p
               PROVE  members[p].role = "HOST" \/ members[p].scrub
    OBVIOUS
  <2> QED BY FromHostStep
<1> QED BY <1>1, WordsAlways, PTL DEF Party!Spec, Party!ControlFromHost

LEMMA FollowedStep ==
  ASSUME PartyTypes, WordsInv, [Party!Next]_(Party!vars), NEW p \in Pages, NEW m, m = Head(inbox[p]),
         inbox[p] # <<>>, inbox'[p] = Tail(inbox[p]), members'[p].rtm = "up",
         ~Party!Hosting(p), Party!Hosting(m.from), m.epoch = epoch,
         m.t \in {"seek", "hb"} => video[m.from].playing
  PROVE  /\ video'[p].playing = video[m.from].playing
         /\ Party!Position(video'[p]) = Party!Position(video[m.from])
<1>1. inbox[p] \in Seq(Word) /\ m \in Word /\ Said(m) /\ inbox'[p] # inbox[p]
      /\ Len(inbox'[p]) = Len(inbox[p]) - 1 /\ Len(inbox[p]) \in Nat
  BY DEF PartyTypes, WordsInv
<1>2. PICK o \in Pages : StepOf(o)
  BY <1>1, PartySteps DEF Party!Tick, Party!vars
<1>3. Party!Receive(p)
  <2> PICK rest \in [Pages -> Seq(Word)] : Rest(o, rest) /\ Sending(o, rest)
    BY <1>2 DEF StepOf
  <2>1. inbox'[p] = rest[p] \/ Len(inbox'[p]) = Len(rest[p]) + 1
    <3>1. rest[p] \in Seq(Word)
      OBVIOUS
    <3>2. \A w : NewWord(o, w) => w \in Word
      BY DEF NewWord
    <3>3. \A w \in Word : Len(Append(rest[p], w)) = Len(rest[p]) + 1
      BY <3>1
    <3> QED BY <3>2, <3>3 DEF Sending
  <2>2. rest[p] # inbox[p]
    BY <1>1, <2>1
  <2> QED BY <2>2 DEF Rest, PartyTypes
<1> DEFINE v == [playing |-> Party!IsPlaying(m), media |-> Party!Target(m), at |-> now]
<1>4. video'[p] = v
  BY <1>3 DEF Party!Receive, Party!wpApplyAnchor, Party!Changed, PartyTypes
<1>5. Agrees(m) /\ m.at <= now /\ now \in Nat
  BY <1>1 DEF Said, PartyTypes
<1>6. Party!IsPlaying(m) = video[m.from].playing
  <2>1. m.t \in WordKinds /\ video[m.from].playing \in BOOLEAN
    BY <1>1 DEF Word, PartyTypes, Clip
  <2> QED BY <1>5, <2>1 DEF Agrees, Party!IsPlaying, WordKinds
<1>7. Party!Target(m) = Party!Position(video[m.from]) /\ Party!Target(m) \in Nat
  BY <1>1, <1>5, <1>6 DEF Agrees, Party!Target, Word
<1> QED BY <1>4, <1>5, <1>6, <1>7 DEF Party!Position

\* However long the newest word of the HOST was on its way, whoever receives it is
\* set to where the HOST's player is by then, and plays or stands like it.
THEOREM Followed == Party!Spec => Party!NewestIsFollowed
<1>1. PartyTypes /\ WordsInv /\ [Party!Next]_(Party!vars) =>
        [\A p \in Pages :
           LET m == Head(inbox[p]) IN
           /\ inbox[p] # <<>> /\ inbox'[p] = Tail(inbox[p]) /\ members'[p].rtm = "up"
           /\ ~Party!Hosting(p) /\ Party!Hosting(m.from) /\ m.epoch = epoch
           /\ m.t \in {"seek", "hb"} => video[m.from].playing
           => /\ video'[p].playing = video[m.from].playing
              /\ Party!Position(video'[p]) = Party!Position(video[m.from])]_(Party!vars)
  BY FollowedStep
<1> QED BY <1>1, WordsAlways, PTL DEF Party!Spec, Party!NewestIsFollowed

\* Nothing plays on for longer than the clock has run since it was where a seek can lead.
Near(r) == r.media <= MaxTime + r.at

Fits(box) ==
  \A q \in Pages : Len(box[q]) <= MaxInbox /\ \A i \in DOMAIN box[q] : Near(box[q][i])

\* The bounds, and that no player and no anchor is ahead of them.
BoundInv ==
  /\ MaxInbox \in Nat
  /\ now <= MaxTime /\ host \in Pages /\ acts \in 0..MaxActs /\ faults \in 0..MaxFaults
  /\ Fits(inbox)
  /\ \A p \in Pages : Near(video[p])
  /\ attrs # None => Near(attrs)
  /\ \A p \in Pages : members[p].reading # None => Near(members[p].reading)

LEMMA SmallNumbers == {MaxTime, MaxActs, MaxFaults} \subseteq Nat
BY PlaybackAssumption

LEMMA PositionIsNear ==
  ASSUME now \in Nat, NEW v \in Clip, v.at <= now, Near(v)
  PROVE  Party!Position(v) \in Nat /\ Party!Position(v) <= MaxTime + now
BY SmallNumbers DEF Party!Position, Clip, Near

LEMMA TargetIsNear ==
  ASSUME now \in Nat, NEW m, m.media \in Nat, m.at \in Nat, m.at <= now, Near(m)
  PROVE  Party!Target(m) <= MaxTime + now
BY SmallNumbers DEF Party!Target, Near

LEMMA SendFits ==
  ASSUME PartyTypes, BoundInv, NEW p \in Pages, NEW t \in WordKinds, NEW v \in Clip, v.at <= now, Near(v),
         epoch' \in Nat, NEW rest \in [Pages -> Seq(Word)], Fits(rest),
         Party!Send(p, t, v, rest) \/ inbox' = rest
  PROVE  Fits(inbox')
<1> DEFINE w == [t |-> t, media |-> Party!Position(v), at |-> now, from |-> p, epoch |-> epoch']
<1>1. w \in Word /\ Near(w)
  BY PositionIsNear DEF PartyTypes, Word, Near
<1>2. CASE Party!Send(p, t, v, rest)
  <2>1. \A q \in Party!Receivers(p) : Len(rest[q]) < MaxInbox
    BY <1>2 DEF Party!Send
  <2>2. \A q \in Pages : inbox'[q] = IF q \in Party!Receivers(p) THEN Append(rest[q], w) ELSE rest[q]
    BY <1>2 DEF Party!Send
  <2> HIDE DEF w
  <2> SUFFICES ASSUME NEW q \in Pages
               PROVE  Len(inbox'[q]) <= MaxInbox /\ \A i \in DOMAIN inbox'[q] : Near(inbox'[q][i])
    BY DEF Fits
  <2>3. CASE q \in Party!Receivers(p)
    <3>1. rest[q] \in Seq(Word) /\ inbox'[q] = Append(rest[q], w) /\ Len(rest[q]) < MaxInbox
      BY <2>1, <2>2, <2>3
    <3>2. Len(inbox'[q]) <= MaxInbox
      BY <1>1, <3>1 DEF BoundInv
    <3>3. \A i \in DOMAIN inbox'[q] : inbox'[q][i] = w \/ (i \in DOMAIN rest[q] /\ inbox'[q][i] = rest[q][i])
      BY <1>1, <3>1
    <3> QED BY <1>1, <3>2, <3>3 DEF Fits
  <2>4. CASE q \notin Party!Receivers(p)
    BY <2>2, <2>4 DEF Fits
  <2> QED BY <2>3, <2>4
<1> QED BY <1>2

LEMMA FaultIsCounted ==
  ASSUME BoundInv, Party!Fault \/ faults' = faults PROVE faults' \in 0..MaxFaults
BY SmallNumbers DEF BoundInv, Party!Fault

LEMMA ActIsCounted ==
  ASSUME BoundInv, Party!Act \/ acts' = acts PROVE acts' \in 0..MaxActs
BY SmallNumbers DEF BoundInv, Party!Act

LEMMA AnnounceFits ==
  ASSUME PartyTypes, BoundInv, NEW p \in Pages, NEW t \in WordKinds, NEW v \in Clip, v.at <= now, Near(v),
         epoch' \in Nat, NEW rest \in [Pages -> Seq(Word)], Fits(rest), Party!Announce(p, t, v, rest)
  PROVE  Fits(inbox') /\ (attrs' # None => Near(attrs')) /\ faults' \in 0..MaxFaults
<1>1. Party!Send(p, t, v, rest) \/ inbox' = rest
  BY DEF Party!Announce, Party!wpPublishControl
<1> DEFINE a == [t |-> IF v.playing THEN "play" ELSE "pause", media |-> Party!Position(v), at |-> now]
<1>2. Near(a)
  BY PositionIsNear DEF Near, PartyTypes
<1>3. attrs' = a \/ attrs' = attrs
  BY DEF Party!Announce
<1>4. Party!Fault \/ faults' = faults
  BY DEF Party!Announce, Party!wpPublishControl
<1> HIDE DEF a
<1> QED BY <1>1, <1>2, <1>3, <1>4, SendFits, FaultIsCounted DEF BoundInv

\* A player is changed to a place that is near, by a page that read what is near.
LEMMA ChangedFits ==
  ASSUME PartyTypes, BoundInv, NEW p \in Pages, NEW v \in Clip, v.at <= now, Near(v),
         NEW after \in MemberRow, after.reading # None => Near(after.reading),
         NEW rest \in [Pages -> Seq(Word)], Fits(rest),
         now' = now, host' = host, Party!Act \/ acts' = acts, Party!Changed(p, v, after, rest)
  PROVE  BoundInv'
<1> DEFINE toggled == v.playing # video[p].playing
           jumped == Party!Position(v) # Party!Position(video[p])
           heard == Party!Hosting(p) /\ (toggled \/ jumped)
<1>1. video' = [video EXCEPT ![p] = v] /\ epoch' \in Nat
  BY DEF Party!Changed, PartyTypes
<1>2. \A q \in Pages : members'[q].reading = IF q = p THEN after.reading ELSE members[q].reading
  BY DEF Party!Changed, PartyTypes, MemberRow
<1>3. \/ Party!Announce(p, IF v.playing THEN "play" ELSE "pause", v, rest)
      \/ inbox' = rest /\ UNCHANGED <<attrs, faults>>
  BY DEF Party!Changed
<1>4. Fits(inbox') /\ (attrs' # None => Near(attrs')) /\ faults' \in 0..MaxFaults
  <2>1. CASE Party!Announce(p, IF v.playing THEN "play" ELSE "pause", v, rest)
    <3> PICK t \in WordKinds : t = IF v.playing THEN "play" ELSE "pause"
      BY DEF WordKinds
    <3> QED BY <1>1, <2>1, AnnounceFits
  <2> QED BY <1>3, <2>1 DEF BoundInv
<1>5. \A q \in Pages : Near(video'[q])
  BY <1>1 DEF BoundInv, PartyTypes
<1> QED BY <1>2, <1>4, <1>5, ActIsCounted DEF BoundInv, Fits, Near

\* A step that changes no player.
LEMMA QuietFits ==
  ASSUME PartyTypes, BoundInv, UNCHANGED <<now, video>>, host' \in Pages,
         Party!Act \/ acts' = acts, faults' \in 0..MaxFaults,
         Fits(inbox'), attrs' # None => Near(attrs'),
         \A q \in Pages : members'[q].reading # None => Near(members'[q].reading)
  PROVE  BoundInv'
BY ActIsCounted DEF BoundInv, Fits, Near

LEMMA BoundInductive ==
  ASSUME PartyTypes, WordsInv, BoundInv, [Party!Next]_(Party!vars) PROVE BoundInv'
<1>1. ASSUME NEW p \in Pages, Party!Toggle(p) PROVE BoundInv'
  <2> DEFINE v == [playing |-> ~video[p].playing, media |-> Party!Position(video[p]), at |-> now]
  <2>1. v \in Clip /\ v.at <= now /\ Near(v)
    BY PositionIsNear DEF PartyTypes, Clip, BoundInv, Near
  <2>2. Party!Changed(p, v, members[p], inbox) /\ UNCHANGED <<now, host>> /\ Party!Act
    BY <1>1 DEF Party!Toggle
  <2> HIDE DEF v
  <2> QED BY <2>1, <2>2, ChangedFits DEF PartyTypes, BoundInv
<1>2. ASSUME NEW p \in Pages, NEW x \in 0..MaxTime, Party!SeekTo(p, x) PROVE BoundInv'
  <2> DEFINE v == [video[p] EXCEPT !.media = x, !.at = now]
  <2>1. video[p] \in Clip /\ now \in Nat /\ x \in Nat /\ x <= MaxTime
    BY SmallNumbers DEF PartyTypes
  <2>2. v \in Clip
    BY <2>1 DEF Clip
  <2>3. v.at = now
    BY <2>1 DEF Clip
  <2>4. v.media = x
    BY <2>1 DEF Clip
  <2>5. Party!Changed(p, v, members[p], inbox) /\ UNCHANGED <<now, host>> /\ Party!Act
    BY <1>2 DEF Party!SeekTo
  <2> HIDE DEF v
  <2>6. Near(v) /\ v.at <= now
    BY <2>1, <2>3, <2>4, SmallNumbers DEF Near
  <2> QED BY <2>2, <2>5, <2>6, ChangedFits DEF PartyTypes, BoundInv
<1>3. ASSUME NEW p \in Pages, Party!Receive(p) PROVE BoundInv'
  <2> DEFINE m == Head(inbox[p])
             v == [playing |-> Party!IsPlaying(m), media |-> Party!Target(m), at |-> now]
             rest == [inbox EXCEPT ![p] = Tail(@)]
  <2>1. inbox \in [Pages -> Seq(Word)] /\ inbox[p] \in Seq(Word) /\ inbox[p] # <<>> /\ now \in Nat
    BY <1>3 DEF PartyTypes, Party!Receive
  <2>2. m \in Word /\ m.at <= now /\ Near(m)
    BY <2>1 DEF WordsInv, Said, BoundInv, Fits
  <2>3. v \in Clip /\ v.at <= now
    BY <2>1, <2>2 DEF Clip, Word, Party!Target, Party!IsPlaying
  <2>4. Near(v)
    BY <2>1, <2>2, TargetIsNear DEF Word, Near
  <2>5. rest \in [Pages -> Seq(Word)]
    BY <2>1
  <2>6. Fits(rest)
    <3>1. \A i \in DOMAIN Tail(inbox[p]) : i + 1 \in DOMAIN inbox[p] /\ Tail(inbox[p])[i] = inbox[p][i + 1]
      BY <2>1
    <3>2. Len(Tail(inbox[p])) <= MaxInbox
      BY <2>1, SmallNumbers DEF BoundInv, Fits
    <3> QED BY <2>1, <3>1, <3>2 DEF BoundInv, Fits
  <2>7. Party!Changed(p, v, members[p], rest) /\ UNCHANGED <<now, host, acts>>
    BY <1>3 DEF Party!Receive, Party!wpApplyAnchor
  <2> HIDE DEF m, v, rest
  <2> QED BY <2>3, <2>4, <2>5, <2>6, <2>7, ChangedFits DEF PartyTypes, BoundInv
<1>4. ASSUME NEW p \in Pages, Party!ApplyChannelAttrs(p) PROVE BoundInv'
  <2> DEFINE m == members[p].reading
             v == [playing |-> Party!IsPlaying(m), media |-> Party!Target(m), at |-> now]
             after == [members[p] EXCEPT !.reading = None]
  <2>1. m \in Still /\ m.at <= now /\ Near(m) /\ now \in Nat
    BY <1>4 DEF PartyTypes, Party!ApplyChannelAttrs, MemberRow, BoundInv
  <2>2. v \in Clip /\ v.at <= now
    BY <2>1 DEF Clip, Still, Party!Target, Party!IsPlaying
  <2>3. Near(v)
    BY <2>1, TargetIsNear DEF Still, Near
  <2>4. after \in MemberRow /\ after.reading = None
    BY DEF PartyTypes, MemberRow
  <2>5. Party!Changed(p, v, after, inbox) /\ UNCHANGED <<now, host, acts>>
    BY <1>4 DEF Party!ApplyChannelAttrs, Party!wpApplyAnchor
  <2> HIDE DEF m, v, after
  <2> QED BY <2>2, <2>3, <2>4, <2>5, ChangedFits DEF PartyTypes, BoundInv
<1>5. ASSUME NEW p \in Pages, Party!FireScrub(p) PROVE BoundInv'
  <2>1. UNCHANGED <<now, host, video, epoch, acts>> /\ \A q \in Pages : members'[q].reading = members[q].reading
    BY <1>5 DEF Party!FireScrub, PartyTypes, MemberRow
  <2>2. \/ Party!Announce(p, "seek", video[p], inbox)
        \/ UNCHANGED <<inbox, attrs, faults>>
    BY <1>5 DEF Party!FireScrub
  <2>3. Fits(inbox') /\ (attrs' # None => Near(attrs')) /\ faults' \in 0..MaxFaults
    BY <2>1, <2>2, AnnounceFits DEF PartyTypes, BoundInv, WordKinds
  <2> QED BY <2>1, <2>3, QuietFits DEF BoundInv
<1>6. ASSUME NEW p \in Pages, Party!Heartbeat(p) PROVE BoundInv'
  <2>1. UNCHANGED <<now, host, members, video, attrs, acts, epoch>>
        /\ Party!wpPublishControl(p, "hb", video[p], inbox)
    BY <1>6 DEF Party!Heartbeat
  <2>2. Party!Send(p, "hb", video[p], inbox) \/ inbox' = inbox
    BY <2>1 DEF Party!wpPublishControl
  <2>3. Fits(inbox')
    BY <2>1, <2>2, SendFits DEF PartyTypes, BoundInv, WordKinds
  <2>4. faults' \in 0..MaxFaults
    BY <2>1, FaultIsCounted DEF Party!wpPublishControl
  <2> QED BY <2>1, <2>3, <2>4, QuietFits DEF BoundInv
<1>7. ASSUME NEW p \in Pages, Party!Connect(p) \/ Party!Reconnected(p) PROVE BoundInv'
  <2>1. \A q \in Pages : members'[q].reading \in {attrs, members[q].reading}
    <3>1. CASE Party!Connect(p)
      <4> DEFINE row == [members[p] EXCEPT !.role = IF p = host THEN "HOST" ELSE "PARTICIPANT",
                                        !.party = TRUE, !.rtm = "up", !.reading = attrs]
      <4>1. members' = [members EXCEPT ![p] = row]
        BY <3>1 DEF Party!Connect
      <4>2. row.reading = attrs
        BY DEF PartyTypes, MemberRow
      <4> HIDE DEF row
      <4> QED BY <4>1, <4>2 DEF PartyTypes
    <3>2. CASE Party!Reconnected(p)
      BY <3>2 DEF Party!Reconnected, PartyTypes, MemberRow
    <3> QED BY <1>7, <3>1, <3>2
  <2>2. UNCHANGED <<now, host, video, inbox, attrs, faults>> /\ (Party!Act \/ acts' = acts)
    BY <1>7 DEF Party!Connect, Party!Reconnected
  <2> QED BY <2>1, <2>2, QuietFits DEF BoundInv
<1>8. ASSUME NEW p \in Pages, Party!LoseConnection(p) PROVE BoundInv'
  <2>1. UNCHANGED <<now, host, video, attrs, acts>> /\ Party!Fault
        /\ \A q \in Pages : members'[q].reading = members[q].reading
    BY <1>8 DEF Party!LoseConnection, PartyTypes, MemberRow
  <2>2. \A q \in Pages : inbox'[q] \in {<<>>, inbox[q]}
    BY <1>8 DEF Party!LoseConnection, PartyTypes
  <2>3. Fits(inbox')
    BY <2>2, SmallNumbers DEF Fits, BoundInv
  <2> QED BY <2>1, <2>3, FaultIsCounted, QuietFits DEF BoundInv
<1>9. ASSUME NEW p \in Pages, NEW q \in Pages, Party!TransferHost(p, q) PROVE BoundInv'
  <2>1. UNCHANGED <<now, video, inbox, attrs>> /\ Party!Act /\ host' = q /\ (Party!Fault \/ faults' = faults)
    BY <1>9 DEF Party!TransferHost
  <2>2. \A o \in Pages : members'[o].reading = members[o].reading
    <3>1. CASE members' = [members EXCEPT ![p].role = "PARTICIPANT"]
      BY <3>1 DEF PartyTypes, MemberRow
    <3> QED BY <1>9, <3>1 DEF Party!TransferHost
  <2> QED BY <2>1, <2>2, FaultIsCounted, QuietFits DEF BoundInv
<1>10. ASSUME NEW p \in Pages, Party!LeaveOrEnd(p) \/ Party!Failover(p) PROVE BoundInv'
  <2>1. UNCHANGED <<now, video, inbox, attrs, faults>> /\ (Party!Act \/ acts' = acts) /\ host' \in {host, p}
    BY <1>10 DEF Party!LeaveOrEnd, Party!Failover
  <2>2. \A o \in Pages : members'[o].reading = members[o].reading
    BY <1>10 DEF Party!LeaveOrEnd, Party!Failover, PartyTypes, MemberRow
  <2> QED BY <2>1, <2>2, QuietFits DEF BoundInv
<1>11. CASE Party!Tick
  BY <1>11, SmallNumbers DEF Party!Tick, BoundInv, Fits, Near, PartyTypes
<1>12. CASE UNCHANGED Party!vars
  BY <1>12 DEF Party!vars, BoundInv, Fits, Near
<1> QED BY <1>1, <1>2, <1>3, <1>4, <1>5, <1>6, <1>7, <1>8, <1>9, <1>10, <1>11, <1>12 DEF Party!Next

LEMMA BoundInit ==
  ASSUME PartyConstants, Party!Init PROVE BoundInv
BY SmallNumbers DEF PartyConstants, Party!Init, BoundInv, Party!Outside, Fits, Near

LEMMA TypesHold == ASSUME PartyTypes, WordsInv, BoundInv PROVE Party!TypeOK
<1>1. \A x, y \in Nat : y <= now /\ x <= MaxTime + y => x \in Party!Media /\ y \in 0..MaxTime
  BY SmallNumbers DEF Party!Media, PartyTypes, BoundInv
<1>2. \A v \in Clip : v.at <= now /\ Near(v) => v \in Party!Video
  BY <1>1 DEF Clip, Party!Video, Near
<1>3. \A a \in Still : a.at <= now /\ Near(a) => a \in Party!Anchor
  BY <1>1 DEF Still, WordKinds, Party!Anchor, Near
<1>4. \A p \in Pages : members[p] \in Party!Page
  BY <1>3 DEF PartyTypes, BoundInv, MemberRow, Party!Page
<1>5. video \in [Pages -> Party!Video] /\ attrs \in Party!Anchor \cup {None} /\ members \in [Pages -> Party!Page]
  BY <1>2, <1>3, <1>4 DEF PartyTypes, BoundInv
<1> QED BY <1>5, SmallNumbers DEF Party!TypeOK, PartyTypes, BoundInv, Fits

\* However old the anchors are that pages project, and whatever pages hand on, no
\* player gets further than playing from the last place one can seek to.
THEOREM Types ==
  ASSUME PartyConstants PROVE Party!Spec => []Party!TypeOK
<1>1. Party!Spec => [](PartyTypes /\ WordsInv /\ BoundInv)
  BY WordsInit, BoundInit, WordsInductive, BoundInductive, PTL DEF Party!Spec
<1> QED BY <1>1, TypesHold, PTL
===============================================================================
