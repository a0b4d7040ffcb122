------------------------------- MODULE Catalogue -------------------------------
(***************************************************************************)
(* The titles on offer: imports from a provider's feed, what an            *)
(* administrator does to titles and providers, and the lists the viewers   *)
(* keep (movie.service.ts, providers.service.ts, my-list.service.ts).      *)
(*                                                                         *)
(* Every request is a few queries.  What is loaded is written back as a    *)
(* whole, into a row that may have changed, or gone, in the meantime.      *)
(***************************************************************************)
EXTENDS Naturals, Sequences, FiniteSets

CONSTANTS
  Slots,        \* requests in flight at once
  MaxRequests,  \* bound: requests in a behaviour
  MaxFaults,    \* bound: requests that die
  Ids,          \* of titles
  Providers,
  Titles,       \* what the providers call their titles
  Profiles,
  Feeds,        \* what the feed may bring, each page after the other
  InitialMovies, InitialProviders,  \* what the seeder made
  None,
  Gone          \* a row that was deleted; its id is not given out again

MovieContentType == {"FILM", "SERIES", "EPISODE"}
Movie == [contentType : MovieContentType, providerId : Providers, providerTitleId : Titles,
          seriesId : Ids \cup {None}, isPremium : BOOLEAN]

\* Of the slugs only one matters: the others' feeds are not implemented.
Provider == [isActive : BOOLEAN, allrites : BOOLEAN]

Updates == {"setMoviePremiumStatus", "adminUpdate"}
Imports == {"importAll", "importOne"}
Kinds == Updates \cup Imports \cup {"updateProvider", "addToMyList", "removeFromMyList"}

Identity(row) == <<row.providerId, row.providerTitleId, row.contentType>>

\* What the keys, the unique index and the rules of each kind ask of the tables.
WellKept(ms, ps) ==
  \A id \in Ids : ms[id] \notin {None, Gone} =>
    LET row == ms[id] IN
    /\ ps[row.providerId] \notin {None, Gone}
    /\ \A other \in Ids :
         ms[other] \notin {None, Gone} /\ Identity(ms[other]) = Identity(row) => other = id
    /\ row.contentType = "EPISODE" <=> row.seriesId # None
    /\ row.seriesId # None =>
         ms[row.seriesId] \notin {None, Gone} /\ ms[row.seriesId].contentType = "SERIES"

ASSUME CatalogueAssumption ==
  /\ MaxRequests \in Nat /\ MaxFaults \in Nat
  /\ None # Gone
  /\ \A x \in {None, Gone} : x \notin Ids \cup Kinds /\ x \notin Movie /\ x \notin Provider
  /\ Feeds \subseteq Seq(Titles)
  /\ InitialMovies \in [Ids -> Movie \cup {None}]
  /\ InitialProviders \in [Providers -> Provider \cup {None}]
  /\ WellKept(InitialMovies, InitialProviders)
  /\ \A id \in Ids : InitialMovies[id] # None /\ InitialMovies[id].contentType = "EPISODE" =>
       InitialMovies[InitialMovies[id].seriesId].isPremium = InitialMovies[id].isPremium

VARIABLES
  movies,
  providers,
  myList,     \* pairs of a profile and a title
  slot,
  requests,
  faults,
  overlapped, \* history: two updates of titles ran at once, or one died
  touched     \* history: the slots of imports during which a row went or was renamed

vars == <<movies, providers, myList, slot, requests, faults, overlapped, touched>>

\* id: the title, or the provider, it is about.  patch: the columns that were
\* sent.  row: as it was loaded.  queue: providers to come.  feed: titles to come.
Idle == [kind |-> None, step |-> "ok", id |-> None, profile |-> None, patch |-> <<>>,
         row |-> None, queue |-> {}, feed |-> <<>>, whole |-> <<>>]

Init ==
  /\ movies = InitialMovies
  /\ providers = InitialProviders
  /\ myList = {}
  /\ slot = [s \in Slots |-> Idle]
  /\ requests = 0 /\ faults = 0
  /\ overlapped = FALSE /\ touched = {}

Free(s) == slot[s].step \in {"ok", "failed"}
Exists(id) == movies[id] \notin {None, Gone}
ProviderExists(p) == providers[p] \notin {None, Gone}
Goto(s, step) == slot' = [slot EXCEPT ![s].step = step]
Finish(s, outcome) == slot' = [slot EXCEPT ![s] = [Idle EXCEPT !.step = outcome]]

Importing == {s \in Slots : slot[s].kind \in Imports}

Begin(s, r) ==
  /\ Free(s)
  /\ requests < MaxRequests
  /\ requests' = requests + 1
  /\ slot' = [slot EXCEPT ![s] = r]
  /\ overlapped' = (overlapped \/ (r.kind \in Updates /\ \E t \in Slots : slot[t].kind \in Updates))
  /\ touched' = touched \ {s}
  /\ UNCHANGED <<movies, providers, myList, faults>>

(***************************************************************************)
(* The tables.                                                             *)
(***************************************************************************)
IdentityTaken(id, row) == \E other \in Ids \ {id} : Exists(other) /\ Identity(movies[other]) = Identity(row)

\* The keys and the unique index let a row in.
Accepted(id, row) ==
  /\ ~IdentityTaken(id, row)
  /\ ProviderExists(row.providerId)
  /\ row.seriesId # None => Exists(row.seriesId)

\* A deletion takes along what refers to the rows, by the keys' ON DELETE CASCADE.
DeleteMovies(ids) ==
  LET gone == {id \in Ids : Exists(id) /\ (id \in ids \/ movies[id].seriesId \in ids)}
  IN /\ movies' = [id \in Ids |-> IF id \in gone THEN Gone ELSE movies[id]]
     /\ myList' = {e \in myList : e[2] \notin gone}
     /\ touched' = touched \cup Importing

(***************************************************************************)
(* Imports.                                                                *)
(***************************************************************************)
Loaded(p) == <<p, providers[p].allrites>>
Active == {p \in Providers : ProviderExists(p) /\ providers[p].isActive}

BeginImport(s) ==
  \/ Begin(s, [Idle EXCEPT !.kind = "importAll", !.step = "next", !.queue = {Loaded(p) : p \in Active}])
  \/ \E p \in Active :
       Begin(s, [Idle EXCEPT !.kind = "importOne", !.step = "next", !.queue = {Loaded(p)}])

\* The import of all goes on with the next provider after any error.
Abort(s) == IF slot[s].kind = "importAll" THEN Goto(s, "next") ELSE Finish(s, "failed")

\* getMoviesFromProvider, by the row as the providers were read: a page that
\* fails spoils the feed, and of an unknown provider there is none.
GetMoviesFromProvider(s) ==
  /\ slot[s].step = "next"
  /\ \/ slot[s].queue = {} /\ Finish(s, "ok")
     \/ \E p \in slot[s].queue :
          LET left == slot[s].queue \ {p} IN
          \/ \E feed \in IF p[2] THEN Feeds ELSE {<<>>} :
               slot' = [slot EXCEPT ![s].step = "lookup", ![s].id = p[1], ![s].feed = feed,
                                    ![s].whole = feed, ![s].queue = left]
          \/ /\ p[2]
             /\ IF slot[s].kind = "importOne" THEN Finish(s, "failed")
                ELSE slot' = [slot EXCEPT ![s].queue = left]
  /\ UNCHANGED <<movies, providers, myList, requests, faults, overlapped, touched>>

\* Faulty variant: any provider's title of that id will do for both.
FoundByTitle(r, row) ==
  \E id \in Ids : Exists(id) /\ movies[id].providerTitleId = row.providerTitleId

\* The import of all looks for the provider's id of the title alone.
Found(r, row) ==
  \E id \in Ids :
    /\ Exists(id)
    /\ IF r.kind = "importAll" THEN movies[id].providerTitleId = row.providerTitleId
       ELSE Identity(movies[id]) = Identity(row)

\* A feed brings films, not premium.
FilmOf(r) == [contentType |-> "FILM", providerId |-> r.id, providerTitleId |-> Head(r.feed),
              seriesId |-> None, isPremium |-> FALSE]

LookUpTitle(s) ==
  LET r == slot[s] IN
  /\ r.step = "lookup"
  /\ IF r.feed = <<>>
     THEN IF r.queue = {} THEN Finish(s, "ok") ELSE Goto(s, "next")
     ELSE IF Found(r, FilmOf(r)) THEN slot' = [slot EXCEPT ![s].feed = Tail(@)]
     ELSE Goto(s, "insert")
  /\ UNCHANGED <<movies, providers, myList, requests, faults, overlapped, touched>>

\* Bound: an id that was never given out.
SaveTitle(s) ==
  LET r == slot[s] IN
  /\ r.step = "insert" /\ r.kind \in Imports
  /\ IF Accepted(None, FilmOf(r))
     THEN /\ \E id \in Ids : movies[id] = None /\ movies' = [movies EXCEPT ![id] = FilmOf(r)]
          /\ slot' = [slot EXCEPT ![s].step = "lookup", ![s].feed = Tail(@)]
     ELSE Abort(s) /\ UNCHANGED movies
  /\ UNCHANGED <<providers, myList, requests, faults, overlapped, touched>>

(***************************************************************************)
(* Updates of a title.                                                     *)
(***************************************************************************)
\* The columns an administrator may send: the flag, alone or with new names.
Patches == [isPremium : BOOLEAN] \cup [isPremium : {TRUE}, providerTitleId : Titles]
             \cup [providerId : Providers]

BeginUpdate(s) ==
  \E id \in Ids :
    /\ Exists(id)
    /\ \/ \E b \in BOOLEAN : Begin(s, [Idle EXCEPT !.kind = "setMoviePremiumStatus", !.step = "load",
                                                  !.id = id, !.patch = [isPremium |-> b]])
       \/ \E patch \in Patches : Begin(s, [Idle EXCEPT !.kind = "adminUpdate", !.step = "load",
                                                       !.id = id, !.patch = patch])

Sent(r, column) == column \in DOMAIN r.patch
Patched(r, row) == [column \in DOMAIN row |-> IF Sent(r, column) THEN r.patch[column] ELSE row[column]]

\* setMoviePremiumStatus gives an episode what its series has.
LoadTitle(s) ==
  LET r == slot[s] IN
  /\ r.step = "load" /\ r.kind \in Updates
  /\ IF ~Exists(r.id) THEN Finish(s, "failed")
     ELSE LET row == movies[r.id] IN
          slot' = [slot EXCEPT
            ![s].row = Patched(r, row),
            ![s].step = IF r.kind = "adminUpdate" THEN "check"
                        ELSE IF row.contentType = "EPISODE" THEN "parent" ELSE "save"]
  /\ UNCHANGED <<movies, providers, myList, requests, faults, overlapped, touched>>

\* adminUpdate's checks; what it checks of the columns that cannot be sent
\* here is left out.
CheckTitle(s) ==
  LET r == slot[s] IN
  /\ r.step = "check"
  /\ IF /\ Sent(r, "providerId") => ProviderExists(r.patch.providerId)
        /\ ~IdentityTaken(r.id, r.row)
        /\ r.row.contentType = "EPISODE" =>
             /\ Exists(r.row.seriesId) /\ movies[r.row.seriesId].contentType = "SERIES"
             /\ movies[r.row.seriesId].providerId = r.row.providerId
     THEN Goto(s, "save") ELSE Finish(s, "failed")
  /\ UNCHANGED <<movies, providers, myList, requests, faults, overlapped, touched>>

\* The parent is read, and the episode written with its flag; again, if
\* adminUpdate wrote it before, and not again if the parent is not there.
ReadParent(s) ==
  LET r == slot[s] IN
  /\ r.step = "parent"
  /\ IF Exists(r.row.seriesId)
     THEN slot' = [slot EXCEPT ![s].row.isPremium = movies[r.row.seriesId].isPremium,
                               ![s].step = "saveAgain"]
     ELSE IF r.kind = "adminUpdate" THEN Finish(s, "ok") ELSE Goto(s, "saveAgain")
  /\ UNCHANGED <<movies, providers, myList, requests, faults, overlapped, touched>>

\* Faulty variant: adminUpdate leaves the episodes of a series alone.
AfterSaveOfOne(r) ==
  IF r.row.contentType = "SERIES" /\ r.kind = "setMoviePremiumStatus" THEN "cascade"
  ELSE IF r.row.contentType = "EPISODE" /\ Sent(r, "isPremium") THEN "parent"
  ELSE "ok"

AfterSave(r) ==
  IF r.step = "saveAgain" \/ ~Sent(r, "isPremium") THEN "ok"
  ELSE CASE r.row.contentType = "SERIES" -> "cascade"
         [] r.row.contentType = "EPISODE" -> "parent"
         [] OTHER -> "ok"

\* Whole rows are written; a title that was deleted meanwhile is made again.
SaveTitleBack(s) ==
  LET r == slot[s] IN
  /\ r.step \in {"save", "saveAgain"} /\ r.kind \in Updates
  /\ IF ~Accepted(r.id, r.row) THEN Finish(s, "failed") /\ UNCHANGED <<movies, touched>>
     ELSE /\ movies' = [movies EXCEPT ![r.id] = r.row]
          /\ touched' = IF Exists(r.id) /\ Identity(movies[r.id]) = Identity(r.row) THEN touched
                        ELSE touched \cup Importing
          /\ IF AfterSave(r) = "ok" THEN Finish(s, "ok") ELSE Goto(s, AfterSave(r))
  /\ UNCHANGED <<providers, myList, requests, faults, overlapped>>

\* The update of all episodes is one statement.
CascadePremium(s) ==
  LET r == slot[s] IN
  /\ r.step = "cascade"
  /\ movies' = [id \in Ids |-> IF Exists(id) /\ movies[id].seriesId = r.id
                               THEN [movies[id] EXCEPT !.isPremium = r.row.isPremium] ELSE movies[id]]
  /\ Finish(s, "ok")
  /\ UNCHANGED <<providers, myList, requests, faults, overlapped, touched>>

(***************************************************************************)
(* Providers, and deletions, each one statement.                           *)
(***************************************************************************)
Count == requests < MaxRequests /\ requests' = requests + 1

\* MovieService.adminDelete
AdminDelete(id) ==
  /\ Count /\ Exists(id)
  /\ DeleteMovies({id})
  /\ UNCHANGED <<providers, slot, faults, overlapped>>

\* ProvidersService.adminDelete
DeleteProvider(p) ==
  /\ Count /\ ProviderExists(p)
  /\ providers' = [providers EXCEPT ![p] = Gone]
  /\ DeleteMovies({id \in Ids : Exists(id) /\ movies[id].providerId = p})
  /\ UNCHANGED <<slot, faults, overlapped>>

\* The unique slug lets one of them be the one with a feed.
SlugTaken(p, row) == row.allrites /\ \E q \in Providers \ {p} : ProviderExists(q) /\ providers[q].allrites

\* ProvidersService.adminCreate
CreateProvider(p) ==
  /\ Count /\ providers[p] = None
  /\ \E row \in Provider : ~SlugTaken(p, row) /\ providers' = [providers EXCEPT ![p] = row]
  /\ UNCHANGED <<movies, myList, slot, faults, overlapped, touched>>

\* ProvidersService.adminUpdate: loaded, patched, saved as a whole.
LoadProvider(s) ==
  \E p \in Providers, isActive, allrites \in BOOLEAN :
    /\ ProviderExists(p)
    /\ Begin(s, [Idle EXCEPT !.kind = "updateProvider", !.step = "save", !.id = p,
                             !.row = [isActive |-> isActive, allrites |-> allrites]])

SaveProvider(s) ==
  LET r == slot[s] IN
  /\ r.kind = "updateProvider" /\ r.step = "save"
  /\ IF SlugTaken(r.id, r.row) THEN Finish(s, "failed") /\ UNCHANGED providers
     ELSE Finish(s, "ok") /\ providers' = [providers EXCEPT ![r.id] = r.row]
  /\ UNCHANGED <<movies, myList, requests, faults, overlapped, touched>>

(***************************************************************************)
(* The viewers' lists.                                                     *)
(***************************************************************************)
BeginList(s) ==
  \E id \in Ids, profile \in Profiles, kind \in {"addToMyList", "removeFromMyList"} :
    /\ Exists(id)
    /\ Begin(s, [Idle EXCEPT !.kind = kind, !.step = "find", !.id = id, !.profile = profile])

\* The list holds the series in place of its episodes; an item that is there
\* already is returned.
TargetMovie(id) == IF movies[id].contentType = "EPISODE" THEN movies[id].seriesId ELSE id

AddToMyList(s) ==
  LET r == slot[s] IN
  /\ r.kind = "addToMyList" /\ r.step = "find"
  /\ IF ~Exists(r.id) THEN Finish(s, "failed")
     ELSE IF <<r.profile, TargetMovie(r.id)>> \in myList THEN Finish(s, "ok")
     ELSE slot' = [slot EXCEPT ![s].step = "insert", ![s].row = TargetMovie(r.id)]
  /\ UNCHANGED <<movies, providers, myList, requests, faults, overlapped, touched>>

\* The keys refuse a title that went, the unique index an item that came.
SaveItem(s) ==
  LET r == slot[s] IN
  /\ r.kind = "addToMyList" /\ r.step = "insert"
  /\ IF ~Exists(r.row) \/ <<r.profile, r.row>> \in myList
     THEN Finish(s, "failed") /\ UNCHANGED myList
     ELSE Finish(s, "ok") /\ myList' = myList \cup {<<r.profile, r.row>>}
  /\ UNCHANGED <<movies, providers, requests, faults, overlapped, touched>>

\* An episode is looked for under its own id, where it never is.
RemoveFromMyList(s) ==
  LET r == slot[s] IN
  /\ r.kind = "removeFromMyList"
  /\ IF <<r.profile, r.id>> \notin myList THEN Finish(s, "failed") /\ UNCHANGED myList
     ELSE Finish(s, "ok") /\ myList' = myList \ {<<r.profile, r.id>>}
  /\ UNCHANGED <<movies, providers, requests, faults, overlapped, touched>>

\* Faulty variant: the check does not look at the series.
SelfInMyList(profile, id) == <<profile, id>> \in myList

\* What every page of titles says of one of them.
IsInMyList(profile, id) ==
  \/ <<profile, id>> \in myList
  \/ Exists(id) /\ <<profile, movies[id].seriesId>> \in myList

\* A query fails, or the server stops.
Die(s) ==
  /\ ~Free(s) /\ faults < MaxFaults
  /\ faults' = faults + 1
  /\ overlapped' = (overlapped \/ slot[s].kind \in Updates)
  /\ Finish(s, "failed")
  /\ UNCHANGED <<movies, providers, myList, requests, touched>>

Next ==
  \/ \E s \in Slots :
       \/ BeginImport(s) \/ GetMoviesFromProvider(s) \/ LookUpTitle(s) \/ SaveTitle(s)
       \/ BeginUpdate(s) \/ LoadTitle(s) \/ CheckTitle(s) \/ ReadParent(s) \/ SaveTitleBack(s)
       \/ CascadePremium(s) \/ LoadProvider(s) \/ SaveProvider(s)
       \/ BeginList(s) \/ AddToMyList(s) \/ SaveItem(s) \/ RemoveFromMyList(s) \/ Die(s)
  \/ \E id \in Ids : AdminDelete(id)
  \/ \E p \in Providers : DeleteProvider(p) \/ CreateProvider(p)

Spec == Init /\ [][Next]_vars

(***************************************************************************)
(* Properties.                                                             *)
(***************************************************************************)
\* An episode is premium exactly when its series is, once no update is under
\* way, whatever was imported, renamed, moved or deleted in between; but for
\* updates that overlapped each other or died between their two writes.
EpisodesFollowSeries ==
  ~overlapped /\ (\A s \in Slots : slot[s].kind \notin Updates) =>
    \A id \in Ids : Exists(id) /\ movies[id].contentType = "EPISODE" =>
      movies[id].isPremium = movies[movies[id].seriesId].isPremium

\* An import from one provider that reports success has left every title of
\* its feed in the catalogue, whatever other providers call by the same id and
\* whichever other import ran beside it, unless a title was deleted or renamed
\* meanwhile.
ImportComplete ==
  [][\A s \in Slots :
       LET r == slot[s] IN
       /\ r.kind = "importOne" /\ slot'[s].step = "ok" /\ s \notin touched
       => \A i \in DOMAIN r.whole : \E id \in Ids :
            /\ Exists(id) /\ movies[id].contentType = "FILM"
            /\ movies[id].providerId = r.id /\ movies[id].providerTitleId = r.whole[i]]_vars

\* A title that somebody added, or an episode of it, is said to be on their
\* list straight away, unless it was deleted on the way.
ListedIsFound ==
  [][\A s \in Slots, profile \in Profiles, id \in Ids :
       /\ slot[s].kind = "addToMyList" /\ slot'[s].step = "ok"
       /\ slot[s].profile = profile /\ slot[s].id = id /\ Exists(id)
       => IsInMyList(profile, id)']_vars
================================================================================
