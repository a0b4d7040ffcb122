----------------------------- MODULE CatalogueProofs -----------------------------
(***************************************************************************)
(* The catalogue for any stock, feeds, providers and requests in flight:   *)
(* episodes follow their series, an import leaves out nothing, and what a  *)
(* viewer lists is found.                                                  *)
(*                                                                         *)
(* A request writes back the row it loaded, which may have been renamed,   *)
(* deleted or imported again.  What no request ever changes of a title is  *)
(* its kind and its series, and the proofs rest on that.                   *)
(***************************************************************************)
EXTENDS Catalogue, SequenceTheorems, TLAPS

(***************************************************************************)
(* The invariant that overlapping requests keep.                           *)
(***************************************************************************)
Columns == [isPremium : BOOLEAN] \cup [isPremium : BOOLEAN, providerTitleId : Titles]
             \cup [providerId : Providers]

Request ==
  [kind : Kinds \cup {None},
   step : {"ok", "failed", "next", "lookup", "insert", "load", "check", "parent", "save",
           "saveAgain", "cascade", "find"},
   id : Ids \cup Providers \cup {None}, profile : Profiles \cup {None},
   patch : Columns \cup {<<>>}, row : Movie \cup Provider \cup Ids \cup {None},
   queue : SUBSET (Providers \X BOOLEAN), feed : Seq(Titles), whole : Seq(Titles)]

Typed ==
  /\ movies \in [Ids -> Movie \cup {None, Gone}]
  /\ providers \in [Providers -> Provider \cup {None, Gone}]
  /\ slot \in [Slots -> Request]
  /\ overlapped \in BOOLEAN

\* The kind and the series of a title; ids that are given out go to films.
Kind(row) == <<row.contentType, row.seriesId>>
KindOf(id) == IF InitialMovies[id] # None THEN Kind(InitialMovies[id]) ELSE <<"FILM", None>>
Listed(id) == IF KindOf(id)[1] = "EPISODE" THEN KindOf(id)[2] ELSE id

KindsKept ==
  \A id \in Ids :
    /\ Exists(id) => Kind(movies[id]) = KindOf(id)
    /\ movies[id] = None => InitialMovies[id] = None

\* What a request holds, at each step.
ImportOK(r) ==
  /\ r.step \in {"next", "lookup", "insert"}
  /\ r.step # "next" => r.id \in Providers
  /\ r.step = "insert" => r.feed # <<>>
  /\ r.kind = "importOne" =>
       /\ r.step # "next" => r.queue = {}
       /\ r.step = "next" => r.whole = <<>> /\ \A p, q \in r.queue : p = q

UpdateOK(r) ==
  /\ r.step \in {"load", "check", "parent", "save", "saveAgain", "cascade"}
  /\ r.id \in Ids /\ movies[r.id] # None
  /\ r.patch \in Columns /\ (r.kind = "setMoviePremiumStatus" => "isPremium" \in DOMAIN r.patch)
  /\ r.step # "load" => r.row \in Movie /\ Kind(r.row) = KindOf(r.id)
  /\ r.step \in {"parent", "saveAgain"} => r.row.contentType = "EPISODE"
  /\ r.step \in {"parent", "cascade"} => "isPremium" \in DOMAIN r.patch
  /\ r.step = "cascade" => r.row.contentType = "SERIES"
  /\ r.kind = "setMoviePremiumStatus" =>
       r.step # "check" /\ (r.step = "save" => r.row.contentType # "EPISODE")

ListOK(r) ==
  /\ r.step \in {"find", "insert"} /\ r.id \in Ids /\ movies[r.id] # None
  /\ r.step = "insert" => r.row = Listed(r.id)

RequestOK(r) ==
  /\ r.kind = None => r.step \in {"ok", "failed"}
  /\ r.kind \in Imports => ImportOK(r)
  /\ r.kind \in Updates => UpdateOK(r)
  /\ r.kind = "updateProvider" => r.step = "save" /\ r.id \in Providers /\ r.row \in Provider
  /\ r.kind \in {"addToMyList", "removeFromMyList"} => ListOK(r)

TablesInv ==
  /\ Typed
  /\ WellKept(movies, providers)
  /\ KindsKept
  /\ \A s \in Slots : RequestOK(slot[s])

\* Of a feed that is imported, what is not in the catalogue is still to come.
InCatalogue(p, t) ==
  \E id \in Ids : /\ Exists(id) /\ movies[id].contentType = "FILM"
                  /\ movies[id].providerId = p /\ movies[id].providerTitleId = t

Progress ==
  \A s \in Slots \ touched : slot[s].kind = "importOne" =>
    \A i \in DOMAIN slot[s].whole :
      \/ \E j \in DOMAIN slot[s].feed : slot[s].feed[j] = slot[s].whole[i]
      \/ InCatalogue(slot[s].id, slot[s].whole[i])

(***************************************************************************)
(* The invariant of updates that come one at a time.                       *)
(***************************************************************************)
\* The flag an update is about to write, or has written.
FlagOK(r) ==
  /\ r.step \in {"check", "save"} /\ ~Sent(r, "isPremium") =>
       /\ r.row.contentType = "EPISODE" /\ Exists(r.row.seriesId) =>
            r.row.isPremium = movies[r.row.seriesId].isPremium
       /\ r.row.contentType = "SERIES" /\ Exists(r.id) => r.row.isPremium = movies[r.id].isPremium
  /\ r.step = "cascade" /\ Exists(r.id) => r.row.isPremium = movies[r.id].isPremium
  /\ r.step = "saveAgain" /\ Exists(r.row.seriesId) =>
       r.row.isPremium = movies[r.row.seriesId].isPremium
  /\ r.kind = "adminUpdate" /\ r.step \in {"parent", "saveAgain"} /\ Exists(r.id) =>
       Identity(movies[r.id]) = Identity(r.row)

\* An episode whose flag is still to be written.
Excused(r, id) ==
  \/ r.kind \in Updates /\ r.step = "cascade" /\ KindOf(id)[2] = r.id
  \/ r.kind = "adminUpdate" /\ r.step \in {"parent", "saveAgain"} /\ r.id = id

SerialInv ==
  ~overlapped =>
    /\ \A s, t \in Slots : slot[s].kind \in Updates /\ slot[t].kind \in Updates => s = t
    /\ \A s \in Slots : slot[s].kind \in Updates => FlagOK(slot[s])
    /\ \A id \in Ids : Exists(id) /\ movies[id].contentType = "EPISODE" =>
         \/ movies[id].isPremium = movies[movies[id].seriesId].isPremium
         \/ \E s \in Slots : Excused(slot[s], id)

(***************************************************************************)
(* Kinds of titles.                                                        *)
(***************************************************************************)
LEMMA InitialKinds ==
  \A id \in Ids :
    /\ KindOf(id)[1] = "EPISODE" <=> KindOf(id)[2] # None
    /\ KindOf(id)[2] # None => /\ KindOf(id)[2] \in Ids /\ InitialMovies[KindOf(id)[2]] # None
                              /\ KindOf(KindOf(id)[2]) = <<"SERIES", None>>
<1> TAKE id \in Ids
<1>1. CASE InitialMovies[id] = None
  BY <1>1 DEF KindOf
<1>2. CASE InitialMovies[id] # None
  <2>1. InitialMovies[id] \in Movie /\ InitialMovies[id] \notin {None, Gone}
    BY <1>2, CatalogueAssumption
  <2>2. KindOf(id) = <<InitialMovies[id].contentType, InitialMovies[id].seriesId>>
    BY <1>2 DEF KindOf, Kind
  <2>3. InitialMovies[id].seriesId \in Ids \cup {None}
    BY <2>1 DEF Movie
  <2>4. InitialMovies[id].contentType = "EPISODE" <=> InitialMovies[id].seriesId # None
    BY <2>1, CatalogueAssumption DEF WellKept
  <2>5. ASSUME InitialMovies[id].seriesId # None
        PROVE  /\ InitialMovies[InitialMovies[id].seriesId] # None
               /\ KindOf(InitialMovies[id].seriesId) = <<"SERIES", None>>
    <3> DEFINE x == InitialMovies[id].seriesId
    <3>1. x \in Ids /\ InitialMovies[x] \notin {None, Gone} /\ InitialMovies[x].contentType = "SERIES"
      BY <2>1, <2>3, <2>5, CatalogueAssumption DEF WellKept
    <3>2. InitialMovies[x].contentType = "EPISODE" <=> InitialMovies[x].seriesId # None
      BY <3>1, CatalogueAssumption DEF WellKept
    <3> QED BY <3>1, <3>2 DEF KindOf, Kind
  <2> QED BY <2>2, <2>3, <2>4, <2>5
<1> QED BY <1>1, <1>2

\* A title is what its kind says, and neither None nor Gone.
LEMMA Titled ==
  ASSUME TablesInv, NEW id \in Ids, Exists(id)
  PROVE  /\ movies[id] \in Movie /\ movies[id] \notin {None, Gone}
         /\ movies[id].contentType = KindOf(id)[1] /\ movies[id].seriesId = KindOf(id)[2]
         /\ movies[id].contentType = "EPISODE" => movies[id].seriesId \in Ids /\ Exists(movies[id].seriesId)
<1>1. movies[id] \in Movie /\ movies[id] \notin {None, Gone}
  BY DEF TablesInv, Typed, Exists
<1>2. Kind(movies[id]) = KindOf(id)
  BY DEF TablesInv, KindsKept
<1>3. movies[id].contentType = "EPISODE" => movies[id].seriesId \in Ids
  BY <1>2, InitialKinds DEF Kind
<1>4. movies[id].contentType = "EPISODE" => Exists(movies[id].seriesId)
  BY <1>1, <1>3 DEF TablesInv, WellKept, Exists
<1> QED BY <1>1, <1>2, <1>3, <1>4 DEF Kind

(***************************************************************************)
(* The tables after a step.                                                *)
(***************************************************************************)
\* The tables are as they should be, and no title was forgotten.
TablesKept ==
  /\ movies' \in [Ids -> Movie \cup {None, Gone}]
  /\ providers' \in [Providers -> Provider \cup {None, Gone}]
  /\ WellKept(movies', providers') /\ KindsKept'
  /\ \A id \in Ids : movies[id] # None => movies'[id] # None

LEMMA SameTables == ASSUME TablesInv, UNCHANGED <<movies, providers>> PROVE TablesKept
BY DEF TablesInv, Typed, TablesKept, KindsKept, Exists

\* A row that the keys and the unique index accept is written.
LEMMA WriteKeeps ==
  ASSUME TablesInv, NEW id \in Ids, NEW row \in Movie, Accepted(id, row), Kind(row) = KindOf(id),
         movies' = [movies EXCEPT ![id] = row], UNCHANGED providers
  PROVE  TablesKept
<1>1. row \notin {None, Gone} /\ movies'[id] = row /\ \A o \in Ids \ {id} : movies'[o] = movies[o]
  BY CatalogueAssumption DEF TablesInv, Typed
<1>2. movies' \in [Ids -> Movie \cup {None, Gone}] /\ providers' \in [Providers -> Provider \cup {None, Gone}]
  BY DEF TablesInv, Typed
<1>3. KindsKept'
  BY <1>1 DEF TablesInv, KindsKept, Exists, KindOf, Kind
<1>4. WellKept(movies', providers')
  <2> SUFFICES ASSUME NEW o \in Ids, movies'[o] \notin {None, Gone}
               PROVE  /\ providers'[movies'[o].providerId] \notin {None, Gone}
                      /\ \A other \in Ids :
                           movies'[other] \notin {None, Gone}
                             /\ Identity(movies'[other]) = Identity(movies'[o]) => other = o
                      /\ movies'[o].contentType = "EPISODE" <=> movies'[o].seriesId # None
                      /\ movies'[o].seriesId # None =>
                           /\ movies'[movies'[o].seriesId] \notin {None, Gone}
                           /\ movies'[movies'[o].seriesId].contentType = "SERIES"
    BY DEF WellKept
  <2>1. providers'[movies'[o].providerId] \notin {None, Gone}
    BY <1>1 DEF TablesInv, WellKept, Accepted, ProviderExists
  <2>2. ASSUME NEW other \in Ids, movies'[other] \notin {None, Gone},
               Identity(movies'[other]) = Identity(movies'[o]), other # o
        PROVE  FALSE
    BY <1>1, <2>2 DEF TablesInv, WellKept, Accepted, IdentityTaken, Exists
  <2>3. movies'[o].contentType = KindOf(o)[1] /\ movies'[o].seriesId = KindOf(o)[2]
    BY <1>3 DEF KindsKept, Exists, Kind
  <2>4. ASSUME movies'[o].seriesId # None
        PROVE  /\ movies'[movies'[o].seriesId] \notin {None, Gone}
               /\ movies'[movies'[o].seriesId].contentType = "SERIES"
    <3> DEFINE x == movies'[o].seriesId
    <3>1. x \in Ids /\ KindOf(x)[1] = "SERIES"
      BY <2>3, <2>4, InitialKinds
    <3>2. movies'[x] \notin {None, Gone}
      <4>1. CASE o = id
        BY <1>1, <2>4, <3>1, <4>1 DEF Accepted, Exists
      <4>2. CASE o # id
        BY <1>1, <2>4, <3>1, <4>2 DEF TablesInv, WellKept
      <4> QED BY <4>1, <4>2
    <3> QED BY <1>3, <3>1, <3>2 DEF KindsKept, Exists, Kind
  <2> QED BY <2>1, <2>2, <2>3, <2>4, InitialKinds
<1> QED BY <1>1, <1>2, <1>3, <1>4 DEF TablesKept

\* A deletion takes the episodes of a series along.
LEMMA DeleteKeeps ==
  ASSUME TablesInv, NEW ids \in SUBSET Ids, DeleteMovies(ids),
         providers' \in [Providers -> Provider \cup {None, Gone}],
         \A id \in Ids \ ids : Exists(id) => providers'[movies[id].providerId] \notin {None, Gone}
  PROVE  TablesKept /\ \A id \in Ids : movies'[id] \in {movies[id], Gone}
<1> DEFINE gone == {id \in Ids : Exists(id) /\ (id \in ids \/ movies[id].seriesId \in ids)}
<1>1. /\ movies' = [id \in Ids |-> IF id \in gone THEN Gone ELSE movies[id]]
      /\ \A id \in Ids : movies'[id] \in {movies[id], Gone}
  BY DEF DeleteMovies
<1>2. movies' \in [Ids -> Movie \cup {None, Gone}]
  BY <1>1 DEF TablesInv, Typed
<1>3. \A id \in Ids : movies'[id] \notin {None, Gone} =>
        movies'[id] = movies[id] /\ Exists(id) /\ id \notin ids /\ movies[id].seriesId \notin ids
  BY <1>1 DEF Exists
<1>4. \A id \in Ids : movies[id] # None => movies'[id] # None
  BY <1>1, CatalogueAssumption
<1>5. KindsKept'
  BY <1>1, <1>3, CatalogueAssumption DEF TablesInv, KindsKept, Exists, KindOf, Kind
<1>6. ASSUME NEW o \in Ids, movies'[o] \notin {None, Gone}, movies[o].seriesId # None
      PROVE  /\ movies'[movies[o].seriesId] \notin {None, Gone}
             /\ movies'[movies[o].seriesId] = movies[movies[o].seriesId]
  <2> DEFINE x == movies[o].seriesId
  <2>1. Exists(o) /\ x \notin ids
    BY <1>3, <1>6
  <2>2. x = KindOf(o)[2]
    BY <2>1, Titled
  <2>3. x \in Ids /\ KindOf(x) = <<"SERIES", None>>
    BY <1>6, <2>2, InitialKinds
  <2>4. Exists(x)
    BY <1>6, <2>1, <2>3 DEF TablesInv, WellKept, Exists
  <2>5. movies[x].seriesId = None
    BY <2>3, <2>4, Titled
  <2>6. x \notin gone
    BY <2>1, <2>5, CatalogueAssumption
  <2> QED BY <1>1, <2>3, <2>4, <2>6 DEF Exists
<1>7. WellKept(movies', providers')
  BY <1>3, <1>6 DEF TablesInv, WellKept, Exists
<1> QED BY <1>1, <1>2, <1>4, <1>5, <1>7 DEF TablesKept

\* Only the providers change, and none of those that exist goes.
LEMMA ProvidersKeep ==
  ASSUME TablesInv, UNCHANGED movies, providers' \in [Providers -> Provider \cup {None, Gone}],
         \A p \in Providers : ProviderExists(p) => providers'[p] \notin {None, Gone}
  PROVE  TablesKept
<1>1. \A id \in Ids : movies[id] \notin {None, Gone} => movies[id].providerId \in Providers
  BY DEF TablesInv, Typed, Movie
<1>2. WellKept(movies', providers')
  BY <1>1 DEF TablesInv, WellKept, ProviderExists
<1> QED BY <1>2 DEF TablesInv, Typed, TablesKept, KindsKept, Exists

(***************************************************************************)
(* How a request moves.                                                    *)
(***************************************************************************)
\* The request of slot s is now q, and no other slot's changed.
Moves(s, q) == q \in Request /\ slot' = [slot EXCEPT ![s] = q]

LEMMA MovesEffect ==
  ASSUME Typed, NEW s \in Slots, NEW q, Moves(s, q)
  PROVE  slot' \in [Slots -> Request] /\ slot'[s] = q /\ \A t \in Slots \ {s} : slot'[t] = slot[t]
BY DEF Typed, Moves

\* What a request holds is as it should be after a step of another one.
LEMMA RequestStays ==
  ASSUME \A id \in Ids : movies[id] # None => movies'[id] # None, NEW q, RequestOK(q)
  PROVE  RequestOK(q)'
BY DEF RequestOK, ImportOK, UpdateOK, ListOK, KindOf, Listed

LEMMA StepKeeps ==
  ASSUME TablesInv, TablesKept, NEW s \in Slots, NEW q, Moves(s, q), RequestOK(q), overlapped' \in BOOLEAN
  PROVE  TablesInv'
<1>1. slot' \in [Slots -> Request] /\ slot'[s] = q /\ \A t \in Slots \ {s} : slot'[t] = slot[t]
  BY MovesEffect DEF TablesInv
<1>2. ASSUME NEW t \in Slots PROVE RequestOK(slot[t])' 
  <2>1. PICK r : r = slot'[t] /\ RequestOK(r)
    BY <1>1 DEF TablesInv
  <2>2. RequestOK(r)'
    BY <2>1, RequestStays DEF TablesKept
  <2> QED BY <2>1, <2>2
<1> QED BY <1>1, <1>2 DEF TablesInv, TablesKept, Typed

LEMMA OthersKeep ==
  ASSUME TablesInv, TablesKept, UNCHANGED slot, overlapped' \in BOOLEAN
  PROVE  TablesInv'
<1>1. ASSUME NEW t \in Slots PROVE RequestOK(slot[t])'
  <2>1. PICK r : r = slot'[t] /\ RequestOK(r)
    BY DEF TablesInv
  <2>2. RequestOK(r)'
    BY <2>1, RequestStays DEF TablesKept
  <2> QED BY <2>1, <2>2
<1> QED BY <1>1 DEF TablesInv, TablesKept, Typed

LEMMA KindsApart ==
  /\ None \notin Kinds /\ None \notin Ids
  /\ \A x : x \in Updates => x \notin Imports \cup {"updateProvider", "addToMyList", "removeFromMyList", None}
  /\ \A x : x \in Imports => x \notin {"updateProvider", "addToMyList", "removeFromMyList", None}
BY CatalogueAssumption DEF Kinds, Updates, Imports

LEMMA IdleOK == /\ Idle \in Request /\ RequestOK(Idle)
                /\ \A b \in {"ok", "failed"} :
                     [Idle EXCEPT !.step = b] \in Request /\ RequestOK([Idle EXCEPT !.step = b])
<1>1. Idle \in Request
  BY DEF Idle, Request
<1>2. ASSUME NEW r, r.kind = None, r.step \in {"ok", "failed"} PROVE RequestOK(r)
  BY <1>2, KindsApart DEF RequestOK, Kinds
<1>3. Idle.kind = None /\ Idle.step = "ok"
  BY DEF Idle
<1>4. ASSUME NEW b \in {"ok", "failed"}
      PROVE  [Idle EXCEPT !.step = b] \in Request /\ RequestOK([Idle EXCEPT !.step = b])
  <2>1. [Idle EXCEPT !.step = b] \in Request
    BY <1>1 DEF Request
  <2>2. [Idle EXCEPT !.step = b].kind = None /\ [Idle EXCEPT !.step = b].step = b
    BY DEF Idle
  <2> QED BY <1>2, <2>1, <2>2
<1> QED BY <1>1, <1>2, <1>3, <1>4

\* A request that is over.
Over(q) == \E b \in {"ok", "failed"} : q = [Idle EXCEPT !.step = b]

LEMMA FinishMoves ==
  ASSUME NEW s, NEW b \in {"ok", "failed"}, Finish(s, b)
  PROVE  \E q : Moves(s, q) /\ RequestOK(q) /\ q.kind = None /\ q.step = b
<1> DEFINE q == [Idle EXCEPT !.step = b]
<1>1. Moves(s, q) /\ RequestOK(q) /\ q.kind = None /\ q.step = b
  BY IdleOK DEF Finish, Moves, Idle
<1> QED BY <1>1

\* A request that goes on to another step.
LEMMA GotoMoves ==
  ASSUME Typed, NEW s \in Slots, NEW b, Goto(s, b),
         b \in {"next", "lookup", "insert", "load", "check", "parent", "save", "saveAgain", "cascade"}
  PROVE  /\ Moves(s, [slot[s] EXCEPT !.step = b])
         /\ LET q == [slot[s] EXCEPT !.step = b] IN
            q.step = b /\ \A f \in DOMAIN slot[s] \ {"step"} : q[f] = slot[s][f]
<1>1. slot[s] \in Request
  BY DEF Typed
<1>2. [slot[s] EXCEPT !.step = b] \in Request
  BY <1>1 DEF Request
<1> QED BY <1>1, <1>2 DEF Goto, Moves, Typed, Request

\* A request begins in a slot that is free.
LEMMA BeginKeeps ==
  ASSUME TablesInv, NEW s \in Slots, NEW r \in Request, Begin(s, r), RequestOK(r)
  PROVE  TablesInv'
<1>1. Moves(s, r) /\ UNCHANGED <<movies, providers>>
  BY DEF Begin, Moves
<1>2. overlapped' \in BOOLEAN
  BY DEF Begin, TablesInv, Typed
<1> QED BY <1>1, <1>2, SameTables, StepKeeps

LEMMA StepOfKind ==
  ASSUME TablesInv, NEW s \in Slots
  PROVE  /\ slot[s] \in Request /\ RequestOK(slot[s])
         /\ Free(s) => slot[s].kind = None
         /\ slot[s].step \in {"next", "lookup"} => slot[s].kind \in Imports
         /\ slot[s].step \in {"load", "check", "parent", "cascade", "saveAgain"} => slot[s].kind \in Updates
<1>1. slot[s] \in Request /\ RequestOK(slot[s]) /\ slot[s].kind \in Kinds \cup {None}
  BY DEF TablesInv, Typed, Request
<1> QED BY <1>1 DEF RequestOK, ImportOK, UpdateOK, ListOK, Free, Kinds

\* A step that is no update's.
Aside ==
  /\ overlapped' = overlapped
  /\ \A id \in Ids : movies'[id] \in {movies[id], Gone} \/ movies[id] = None
  /\ \A s \in Slots : slot'[s] = slot[s] \/ {slot[s].kind, slot'[s].kind} \cap Updates = {}

LEMMA AsideMove ==
  ASSUME TablesInv, NEW s \in Slots, NEW q, Moves(s, q), UNCHANGED overlapped,
         slot[s].kind \notin Updates, q.kind \notin Updates,
         \A id \in Ids : movies'[id] \in {movies[id], Gone} \/ movies[id] = None
  PROVE  Aside
BY MovesEffect DEF Aside, TablesInv

LEMMA BeginAside ==
  ASSUME TablesInv, NEW s \in Slots, NEW r \in Request, Begin(s, r), RequestOK(r), r.kind \notin Updates
  PROVE  TablesInv' /\ Aside /\ slot'[s] = r
<1>1. TablesInv'
  BY BeginKeeps
<1>2. Moves(s, r)
  BY DEF Begin, Moves
<1>3. slot[s].kind \notin Updates
  BY StepOfKind, KindsApart DEF Begin
<1>4. overlapped' = overlapped
  BY DEF Begin, TablesInv, Typed
<1>5. UNCHANGED movies
  BY DEF Begin
<1> QED BY <1>1, <1>2, <1>3, <1>4, <1>5, AsideMove, MovesEffect DEF TablesInv

(***************************************************************************)
(* Imports.                                                                *)
(***************************************************************************)
LEMMA BeginImportKeeps ==
  ASSUME TablesInv, NEW s \in Slots, BeginImport(s)
  PROVE  TablesInv' /\ Aside /\ slot'[s].whole = <<>>
<1>1. \A p \in Active : Loaded(p) \in Providers \X BOOLEAN
  BY DEF Active, ProviderExists, Loaded, TablesInv, Typed, Provider
<1>2. ASSUME NEW k \in Imports, NEW Q \in SUBSET (Providers \X BOOLEAN), \A p, q \in Q : k = "importOne" => p = q,
             Begin(s, [Idle EXCEPT !.kind = k, !.step = "next", !.queue = Q])
      PROVE  TablesInv' /\ Aside /\ slot'[s].whole = <<>>
  <2> DEFINE r == [Idle EXCEPT !.kind = k, !.step = "next", !.queue = Q]
  <2>1. /\ r \in Request
        /\ r.kind = k /\ r.step = "next" /\ r.queue = Q /\ r.whole = <<>>
    BY <1>2, IdleOK DEF Idle, Request, Kinds
  <2>2. RequestOK(r)
    BY <1>2, <2>1, KindsApart DEF RequestOK, ImportOK
  <2>3. k \notin Updates
    BY KindsApart
  <2> HIDE DEF r
  <2> QED BY <1>2, <2>1, <2>2, <2>3, BeginAside DEF r
<1>3. CASE Begin(s, [Idle EXCEPT !.kind = "importAll", !.step = "next", !.queue = {Loaded(p) : p \in Active}])
  <2> DEFINE Q == {Loaded(p) : p \in Active}
  <2>1. Q \in SUBSET (Providers \X BOOLEAN) /\ "importAll" \in Imports
    BY <1>1 DEF Imports
  <2>2. Begin(s, [Idle EXCEPT !.kind = "importAll", !.step = "next", !.queue = Q])
    BY <1>3
  <2> HIDE DEF Q
  <2>3. \A p, q \in Q : "importAll" = "importOne" => p = q
    OBVIOUS
  <2> QED BY <1>2, <2>1, <2>2, <2>3
<1>4. ASSUME NEW p \in Active,
             Begin(s, [Idle EXCEPT !.kind = "importOne", !.step = "next", !.queue = {Loaded(p)}])
      PROVE  TablesInv' /\ Aside /\ slot'[s].whole = <<>>
  <2> DEFINE Q == {Loaded(p)}
  <2>1. Q \in SUBSET (Providers \X BOOLEAN) /\ "importOne" \in Imports
    BY <1>1 DEF Imports
  <2>2. Begin(s, [Idle EXCEPT !.kind = "importOne", !.step = "next", !.queue = Q])
    BY <1>4
  <2>3. \A u, v \in Q : u = v
    OBVIOUS
  <2> HIDE DEF Q
  <2> QED BY <1>2, <2>1, <2>2, <2>3
<1> QED BY <1>3, <1>4 DEF BeginImport

\* A step of an import, which leaves the titles that are there as they are.
LEMMA ImportMove ==
  ASSUME TablesInv, TablesKept, NEW s \in Slots, NEW q, Moves(s, q), RequestOK(q), UNCHANGED overlapped,
         slot[s].kind \in Imports, q.kind \in Imports \cup {None},
         \A id \in Ids : movies'[id] = movies[id] \/ movies[id] = None
  PROVE  TablesInv' /\ Aside
<1>1. TablesInv'
  BY StepKeeps DEF TablesInv, Typed
<1>2. slot[s].kind \notin Updates /\ q.kind \notin Updates
  BY KindsApart
<1> QED BY <1>1, <1>2, AsideMove

\* With what is left of the providers, or of the feed.
LEMMA GetMoviesKeeps ==
  ASSUME TablesInv, NEW s \in Slots, GetMoviesFromProvider(s)
  PROVE  /\ TablesInv' /\ Aside
         /\ slot[s].kind = "importOne" =>
              \/ slot'[s].kind = None /\ (slot'[s].step = "ok" => slot[s].queue = {})
              \/ slot'[s].feed = slot'[s].whole
<1>1. slot[s] \in Request /\ RequestOK(slot[s]) /\ slot[s].kind \in Imports /\ slot[s].step = "next"
  BY StepOfKind DEF GetMoviesFromProvider
<1>2. TablesKept /\ UNCHANGED <<movies, overlapped>>
  BY SameTables DEF GetMoviesFromProvider
<1>3. ASSUME NEW b \in {"ok", "failed"}, Finish(s, b), b = "ok" => slot[s].queue = {}
      PROVE  /\ TablesInv' /\ Aside
             /\ slot'[s].kind = None /\ (slot'[s].step = "ok" => slot[s].queue = {})
  <2>1. PICK q : Moves(s, q) /\ RequestOK(q) /\ q.kind = None /\ q.step = b
    BY <1>3, FinishMoves
  <2>2. slot'[s] = q
    BY <2>1, MovesEffect DEF TablesInv
  <2> QED BY <1>1, <1>2, <1>3, <2>1, <2>2, ImportMove
<1>4. ASSUME NEW p \in slot[s].queue, NEW feed \in IF p[2] THEN Feeds ELSE {<<>>},
             slot' = [slot EXCEPT ![s].step = "lookup", ![s].id = p[1], ![s].feed = feed,
                                  ![s].whole = feed, ![s].queue = slot[s].queue \ {p}]
      PROVE  TablesInv' /\ Aside /\ slot'[s].feed = slot'[s].whole
  <2> DEFINE q == [slot[s] EXCEPT !.step = "lookup", !.id = p[1], !.feed = feed, !.whole = feed,
                                  !.queue = slot[s].queue \ {p}]
  <2>1. feed \in Seq(Titles) /\ p[1] \in Providers
    <3>1. p \in Providers \X BOOLEAN
      BY <1>1 DEF Request
    <3>2. CASE p[2]
      <4>1. feed \in Feeds
        BY <3>2
      <4> QED BY <4>1, <3>1, CatalogueAssumption
    <3>3. CASE ~p[2]
      <4>1. feed = <<>>
        BY <3>3
      <4> QED BY <4>1, <3>1
    <3> QED BY <3>1, <3>2, <3>3
  <2>2. /\ q \in Request /\ q.kind = slot[s].kind /\ q.step = "lookup" /\ q.feed = feed /\ q.whole = feed
        /\ q.queue = slot[s].queue \ {p} /\ q.id \in Providers
    BY <1>1, <2>1 DEF Request
  <2>3. slot' = [slot EXCEPT ![s] = q]
    BY <1>4 DEF TablesInv, Typed
  <2>4. RequestOK(q)
    BY <1>1, <2>2, KindsApart DEF RequestOK, ImportOK
  <2> HIDE DEF q
  <2>5. Moves(s, q)
    BY <2>2, <2>3 DEF Moves
  <2>6. slot'[s] = q
    BY <2>5, MovesEffect DEF TablesInv
  <2> QED BY <1>1, <1>2, <2>2, <2>4, <2>5, <2>6, ImportMove
<1>5. ASSUME NEW p \in slot[s].queue, slot[s].kind # "importOne",
             slot' = [slot EXCEPT ![s].queue = slot[s].queue \ {p}]
      PROVE  TablesInv' /\ Aside
  <2> DEFINE q == [slot[s] EXCEPT !.queue = slot[s].queue \ {p}]
  <2>1. q \in Request /\ q.kind = slot[s].kind /\ q.step = "next"
    BY <1>1 DEF Request
  <2>2. Moves(s, q)
    BY <1>5, <2>1 DEF Moves, TablesInv, Typed
  <2>3. RequestOK(q)
    BY <1>1, <1>5, <2>1, KindsApart DEF RequestOK, ImportOK
  <2> HIDE DEF q
  <2> QED BY <1>1, <1>2, <2>1, <2>2, <2>3, ImportMove
<1> QED BY <1>3, <1>4, <1>5 DEF GetMoviesFromProvider

\* One title of the feed is looked for.
LEMMA LookUpKeeps ==
  ASSUME TablesInv, NEW s \in Slots, LookUpTitle(s)
  PROVE  /\ TablesInv' /\ Aside
         /\ slot[s].kind = "importOne" =>
              \/ slot'[s].kind = None /\ (slot'[s].step = "ok" => slot[s].feed = <<>>)
              \/ /\ slot'[s].whole = slot[s].whole /\ slot'[s].id = slot[s].id
                 /\ \/ slot'[s].feed = slot[s].feed
                    \/ /\ slot[s].feed # <<>> /\ slot'[s].feed = Tail(slot[s].feed)
                       /\ InCatalogue(slot[s].id, Head(slot[s].feed))
<1> DEFINE r == slot[s]
<1>1. r \in Request /\ RequestOK(r) /\ r.kind \in Imports /\ r.step = "lookup"
  BY StepOfKind DEF LookUpTitle
<1>2. TablesKept /\ UNCHANGED <<movies, overlapped>>
  BY SameTables DEF LookUpTitle
<1>3. CASE r.feed = <<>> /\ r.queue = {} /\ Finish(s, "ok")
  <2>1. PICK q : Moves(s, q) /\ RequestOK(q) /\ q.kind = None
    BY <1>3, FinishMoves
  <2>2. slot'[s] = q
    BY <2>1, MovesEffect DEF TablesInv
  <2> QED BY <1>1, <1>2, <1>3, <2>1, <2>2, ImportMove
<1>4. ASSUME r.feed = <<>>, r.queue # {}, Goto(s, "next") PROVE TablesInv' /\ Aside /\ r.kind # "importOne"
  <2> DEFINE q == [slot[s] EXCEPT !.step = "next"]
  <2>1. Moves(s, q) /\ q.kind = r.kind /\ q.step = "next"
    BY <1>1, <1>4, GotoMoves DEF TablesInv, Request
  <2>2. r.kind # "importOne"
    BY <1>1, <1>4 DEF RequestOK, ImportOK
  <2>3. RequestOK(q)
    BY <1>1, <2>1, <2>2, KindsApart DEF RequestOK, ImportOK
  <2> HIDE DEF q
  <2> QED BY <1>1, <1>2, <2>1, <2>2, <2>3, ImportMove
<1>5. ASSUME r.feed # <<>>, Found(r, FilmOf(r)), slot' = [slot EXCEPT ![s].feed = Tail(@)]
      PROVE  /\ TablesInv' /\ Aside /\ slot'[s].whole = r.whole /\ slot'[s].id = r.id
             /\ slot'[s].feed = Tail(r.feed)
             /\ r.kind = "importOne" => InCatalogue(r.id, Head(r.feed))
  <2> DEFINE q == [slot[s] EXCEPT !.feed = Tail(r.feed)]
  <2>1. Tail(r.feed) \in Seq(Titles)
    BY <1>1, <1>5, HeadTailProperties DEF Request
  <2>2. /\ q \in Request /\ q.kind = r.kind /\ q.step = "lookup" /\ q.id = r.id /\ q.whole = r.whole
        /\ q.queue = r.queue /\ q.feed = Tail(r.feed)
    BY <1>1, <2>1 DEF Request
  <2>3. Moves(s, q)
    BY <1>5, <2>2 DEF Moves, TablesInv, Typed
  <2>4. RequestOK(q)
    BY <1>1, <2>2, KindsApart DEF RequestOK, ImportOK
  <2>5. slot'[s] = q
    BY <2>3, MovesEffect DEF TablesInv
  <2>6. r.kind = "importOne" => InCatalogue(r.id, Head(r.feed))
    BY <1>5, Titled DEF Found, FilmOf, Identity, InCatalogue
  <2> HIDE DEF q
  <2> QED BY <1>1, <1>2, <2>2, <2>3, <2>4, <2>5, <2>6, ImportMove
<1>6. ASSUME r.feed # <<>>, Goto(s, "insert")
      PROVE  TablesInv' /\ Aside /\ slot'[s].whole = r.whole /\ slot'[s].id = r.id /\ slot'[s].feed = r.feed
  <2> DEFINE q == [slot[s] EXCEPT !.step = "insert"]
  <2>1. /\ Moves(s, q) /\ q.kind = r.kind /\ q.step = "insert" /\ q.feed = r.feed /\ q.queue = r.queue
        /\ q.whole = r.whole /\ q.id = r.id
    BY <1>1, <1>6, GotoMoves DEF TablesInv, Request
  <2>2. RequestOK(q)
    BY <1>1, <1>6, <2>1, KindsApart DEF RequestOK, ImportOK
  <2>3. slot'[s] = q
    BY <2>1, MovesEffect DEF TablesInv
  <2> HIDE DEF q
  <2> QED BY <1>1, <1>2, <2>1, <2>2, <2>3, ImportMove
<1> QED BY <1>3, <1>4, <1>5, <1>6 DEF LookUpTitle

\* A title of the feed is saved, or the import breaks off.
LEMMA SaveTitleKeeps ==
  ASSUME TablesInv, NEW s \in Slots, SaveTitle(s)
  PROVE  /\ TablesInv' /\ Aside
         /\ \A id \in Ids : movies'[id] = movies[id] \/ movies[id] = None
         /\ slot[s].kind = "importOne" =>
              \/ slot'[s].kind = None /\ slot'[s].step = "failed"
              \/ /\ slot'[s].whole = slot[s].whole /\ slot'[s].id = slot[s].id
                 /\ slot[s].feed # <<>> /\ slot'[s].feed = Tail(slot[s].feed)
                 /\ \A p, t : p = slot[s].id /\ t = Head(slot[s].feed) => InCatalogue(p, t)'
<1> DEFINE r == slot[s]
           row == FilmOf(r)
<1>1. r \in Request /\ RequestOK(r) /\ r.kind \in Imports /\ r.step = "insert" /\ r.feed # <<>>
  BY StepOfKind DEF SaveTitle, RequestOK, ImportOK
<1>2. UNCHANGED <<providers, overlapped>>
  BY DEF SaveTitle
<1>3. ASSUME Accepted(None, row), NEW id \in Ids, movies[id] = None, movies' = [movies EXCEPT ![id] = row],
             slot' = [slot EXCEPT ![s].step = "lookup", ![s].feed = Tail(@)]
      PROVE  /\ TablesInv' /\ Aside
             /\ \A o \in Ids : movies'[o] = movies[o] \/ movies[o] = None
             /\ slot'[s].whole = r.whole /\ slot'[s].id = r.id /\ slot'[s].feed = Tail(r.feed)
             /\ \A p, t : p = r.id /\ t = Head(r.feed) => InCatalogue(p, t)'
  <2>1. Accepted(id, row)
    BY <1>3, CatalogueAssumption DEF Accepted, IdentityTaken, Exists
  <2>2. Head(r.feed) \in Titles /\ Tail(r.feed) \in Seq(Titles) /\ r.id \in Providers
    BY <1>1, HeadTailProperties DEF Request, RequestOK, ImportOK
  <2>3. row \in Movie /\ Kind(row) = <<"FILM", None>>
    <3>1. PICK b \in BOOLEAN : b = FALSE
      OBVIOUS
    <3>2. row = [contentType |-> "FILM", providerId |-> r.id, providerTitleId |-> Head(r.feed),
                 seriesId |-> None, isPremium |-> b]
      BY <3>1 DEF FilmOf
    <3> QED BY <2>2, <3>2 DEF Movie, MovieContentType, Kind
  <2>4. Kind(row) = KindOf(id)
    BY <1>3, <2>3 DEF TablesInv, KindsKept, KindOf
  <2>5. TablesKept
    <3> HIDE DEF row
    <3> QED BY <1>2, <1>3, <2>1, <2>3, <2>4, WriteKeeps
  <2>6. \A o \in Ids : movies'[o] = movies[o] \/ movies[o] = None
    BY <1>3 DEF TablesInv, Typed
  <2>7. ASSUME NEW p, NEW t, p = r.id, t = Head(r.feed) PROVE InCatalogue(p, t)'
    <3>1. movies'[id] = row
      BY <1>3 DEF TablesInv, Typed
    <3>2. row \notin {None, Gone}
      BY <2>3, CatalogueAssumption
    <3>3. /\ row.contentType = "FILM" /\ row.providerId = r.id /\ row.providerTitleId = Head(r.feed)
      BY DEF FilmOf
    <3> QED BY <2>7, <3>1, <3>2, <3>3 DEF InCatalogue, Exists
  <2> DEFINE q == [slot[s] EXCEPT !.step = "lookup", !.feed = Tail(r.feed)]
  <2>8. /\ q \in Request /\ q.kind = r.kind /\ q.step = "lookup" /\ q.id = r.id /\ q.whole = r.whole
        /\ q.queue = r.queue /\ q.feed = Tail(r.feed)
    BY <1>1, <2>2 DEF Request
  <2>9. Moves(s, q)
    BY <1>3, <2>8 DEF Moves, TablesInv, Typed
  <2>10. RequestOK(q)
    BY <1>1, <2>8, KindsApart DEF RequestOK, ImportOK
  <2>11. slot'[s] = q
    BY <2>9, MovesEffect DEF TablesInv
  <2> HIDE DEF q, row
  <2> QED BY <1>1, <1>2, <2>5, <2>6, <2>7, <2>8, <2>9, <2>10, <2>11, ImportMove
<1>4. ASSUME ~Accepted(None, row), Abort(s), UNCHANGED movies
      PROVE  /\ TablesInv' /\ Aside /\ (r.kind = "importOne" => slot'[s].kind = None /\ slot'[s].step = "failed")
  <2>1. TablesKept
    BY <1>2, <1>4, SameTables
  <2>2. CASE r.kind = "importAll" /\ Goto(s, "next")
    <3> DEFINE q == [slot[s] EXCEPT !.step = "next"]
    <3>1. Moves(s, q) /\ q.kind = r.kind /\ q.step = "next"
      BY <1>1, <2>2, GotoMoves DEF TablesInv, Request
    <3>2. RequestOK(q)
      BY <1>1, <2>2, <3>1, KindsApart DEF RequestOK, ImportOK
    <3> HIDE DEF q
    <3> QED BY <1>1, <1>2, <1>4, <2>1, <2>2, <3>1, <3>2, ImportMove
  <2>3. CASE Finish(s, "failed")
    <3>1. PICK q : Moves(s, q) /\ RequestOK(q) /\ q.kind = None /\ q.step = "failed"
      BY <2>3, FinishMoves
    <3>2. slot'[s] = q
      BY <3>1, MovesEffect DEF TablesInv
    <3> QED BY <1>1, <1>2, <1>4, <2>1, <3>1, <3>2, ImportMove
  <2> QED BY <1>4, <2>2, <2>3 DEF Abort
<1> QED BY <1>1, <1>3, <1>4 DEF SaveTitle

(***************************************************************************)
(* Providers, deletions and lists.                                         *)
(***************************************************************************)
LEMMA PlainMove ==
  ASSUME TablesInv, TablesKept, NEW s \in Slots, NEW q, Moves(s, q), RequestOK(q),
         UNCHANGED <<movies, overlapped>>, slot[s].kind \notin Updates, q.kind \notin Updates
  PROVE  TablesInv' /\ Aside
BY StepKeeps, AsideMove DEF TablesInv, Typed

LEMMA PlainFinish ==
  ASSUME TablesInv, TablesKept, NEW s \in Slots, NEW b \in {"ok", "failed"}, Finish(s, b),
         UNCHANGED <<movies, overlapped>>, slot[s].kind \notin Updates
  PROVE  TablesInv' /\ Aside /\ slot'[s].kind = None /\ slot'[s].step = b
<1>1. PICK q : Moves(s, q) /\ RequestOK(q) /\ q.kind = None /\ q.step = b
  BY FinishMoves
<1>2. slot'[s] = q
  BY <1>1, MovesEffect DEF TablesInv
<1> QED BY <1>1, <1>2, PlainMove, KindsApart

LEMMA LoadProviderKeeps ==
  ASSUME TablesInv, NEW s \in Slots, LoadProvider(s)
  PROVE  TablesInv' /\ Aside /\ slot'[s].whole = <<>>
<1>1. PICK p \in Providers, a \in BOOLEAN, b \in BOOLEAN :
        Begin(s, [Idle EXCEPT !.kind = "updateProvider", !.step = "save", !.id = p,
                              !.row = [isActive |-> a, allrites |-> b]])
  BY DEF LoadProvider
<1> DEFINE w == [isActive |-> a, allrites |-> b]
           r == [Idle EXCEPT !.kind = "updateProvider", !.step = "save", !.id = p, !.row = w]
<1>2. w \in Provider
  BY DEF Provider
<1> HIDE DEF w
<1>3. /\ r \in Request
      /\ r.kind = "updateProvider" /\ r.step = "save" /\ r.id = p /\ r.row = w /\ r.whole = <<>>
  BY <1>2, IdleOK DEF Idle, Request, Kinds
<1>4. RequestOK(r) /\ r.kind \notin Updates
  <2>1. r.kind # None /\ r.kind \notin Imports /\ r.kind \notin Updates
    BY <1>3, KindsApart DEF Kinds
  <2> HIDE DEF r
  <2> QED BY <1>2, <1>3, <2>1 DEF RequestOK
<1>5. Begin(s, r)
  BY <1>1 DEF w
<1> HIDE DEF r
<1> QED BY <1>3, <1>4, <1>5, BeginAside

LEMMA SaveProviderKeeps ==
  ASSUME TablesInv, NEW s \in Slots, SaveProvider(s)
  PROVE  TablesInv' /\ Aside /\ slot'[s].kind = None
<1>1. /\ slot[s].kind = "updateProvider" /\ slot[s].id \in Providers /\ slot[s].row \in Provider
      /\ slot[s].kind \notin Updates /\ slot[s].row \notin {None, Gone}
  BY StepOfKind, CatalogueAssumption DEF SaveProvider, RequestOK, Updates
<1>2. TablesKept
  <2>1. CASE UNCHANGED providers
    BY <2>1, SameTables DEF SaveProvider
  <2>2. CASE providers' = [providers EXCEPT ![slot[s].id] = slot[s].row]
    BY <1>1, <2>2, ProvidersKeep DEF SaveProvider, TablesInv, Typed, ProviderExists
  <2> QED BY <2>1, <2>2 DEF SaveProvider
<1> QED BY <1>1, <1>2, PlainFinish DEF SaveProvider

\* Deletions and new providers.
LEMMA TablesOnly ==
  ASSUME TablesInv, TablesKept, UNCHANGED <<slot, overlapped>>,
         \A id \in Ids : movies'[id] \in {movies[id], Gone}
  PROVE  TablesInv' /\ Aside
BY OthersKeep DEF Aside, TablesInv, Typed

LEMMA AdminDeleteKeeps ==
  ASSUME TablesInv, NEW id \in Ids, AdminDelete(id)
  PROVE  TablesInv' /\ Aside
<1>1. DeleteMovies({id}) /\ UNCHANGED <<providers, slot, overlapped>>
  BY DEF AdminDelete
<1>2. \A o \in Ids : Exists(o) => providers[movies[o].providerId] \notin {None, Gone}
  BY DEF TablesInv, WellKept, Exists
<1>3. TablesKept /\ \A o \in Ids : movies'[o] \in {movies[o], Gone}
  BY <1>1, <1>2, DeleteKeeps DEF TablesInv, Typed
<1> QED BY <1>1, <1>3, TablesOnly

LEMMA DeleteProviderKeeps ==
  ASSUME TablesInv, NEW p \in Providers, DeleteProvider(p)
  PROVE  TablesInv' /\ Aside
<1> DEFINE ids == {id \in Ids : Exists(id) /\ movies[id].providerId = p}
<1>1. /\ DeleteMovies(ids) /\ UNCHANGED <<slot, overlapped>>
      /\ providers' = [providers EXCEPT ![p] = Gone]
  BY DEF DeleteProvider
<1>2. providers' \in [Providers -> Provider \cup {None, Gone}]
  BY <1>1 DEF TablesInv, Typed
<1>3. \A o \in Ids \ ids : Exists(o) => providers'[movies[o].providerId] \notin {None, Gone}
  BY <1>1, Titled DEF TablesInv, Typed, WellKept, Exists, Movie
<1>4. TablesKept /\ \A o \in Ids : movies'[o] \in {movies[o], Gone}
  <2> HIDE DEF ids
  <2>1. ids \in SUBSET Ids
    BY DEF ids
  <2> QED BY <1>1, <1>2, <1>3, <2>1, DeleteKeeps
<1> QED BY <1>1, <1>4, TablesOnly

LEMMA CreateProviderKeeps ==
  ASSUME TablesInv, NEW p \in Providers, CreateProvider(p)
  PROVE  TablesInv' /\ Aside
<1>1. PICK row \in Provider : providers' = [providers EXCEPT ![p] = row]
  BY DEF CreateProvider
<1>2. UNCHANGED <<movies, slot, overlapped>> /\ row \notin {None, Gone}
  BY CatalogueAssumption DEF CreateProvider
<1>3. TablesKept
  BY <1>1, <1>2, ProvidersKeep DEF TablesInv, Typed, ProviderExists
<1> QED BY <1>2, <1>3, TablesOnly

LEMMA BeginListKeeps ==
  ASSUME TablesInv, NEW s \in Slots, BeginList(s)
  PROVE  TablesInv' /\ Aside /\ slot'[s].whole = <<>>
<1>1. PICK id \in Ids, profile \in Profiles, k \in {"addToMyList", "removeFromMyList"} :
        /\ Exists(id)
        /\ Begin(s, [Idle EXCEPT !.kind = k, !.step = "find", !.id = id, !.profile = profile])
  BY DEF BeginList
<1> DEFINE r == [Idle EXCEPT !.kind = k, !.step = "find", !.id = id, !.profile = profile]
<1>2. /\ r \in Request
      /\ r.kind = k /\ r.step = "find" /\ r.id = id /\ r.whole = <<>>
  BY IdleOK DEF Idle, Request, Kinds
<1>3. RequestOK(r) /\ r.kind \notin Updates
  <2>1. r.kind # None /\ r.kind \notin Imports /\ r.kind \notin Updates
    BY <1>2, KindsApart DEF Kinds
  <2>2. r.id \in Ids /\ movies[r.id] # None
    BY <1>1, <1>2 DEF Exists
  <2> HIDE DEF r
  <2> QED BY <1>2, <2>1, <2>2 DEF RequestOK, ListOK
<1>4. Begin(s, r)
  BY <1>1
<1> HIDE DEF r
<1> QED BY <1>2, <1>3, <1>4, BeginAside

\* What is said of a title at the end of its listing.
FoundAfter(s) ==
  slot[s].kind = "addToMyList" /\ slot'[s].step = "ok" /\ Exists(slot[s].id) =>
    /\ movies' = movies
    /\ <<slot[s].profile, TargetMovie(slot[s].id)>> \in myList'

LEMMA TargetIsListed ==
  ASSUME TablesInv, NEW id \in Ids, Exists(id) PROVE TargetMovie(id) = Listed(id)
BY Titled DEF TargetMovie, Listed

LEMMA ListsKeep ==
  ASSUME TablesInv, NEW s \in Slots, AddToMyList(s) \/ SaveItem(s) \/ RemoveFromMyList(s)
  PROVE  /\ TablesInv' /\ Aside /\ slot'[s].kind \notin Imports /\ FoundAfter(s)
<1> DEFINE r == slot[s]
<1>1. /\ r \in Request /\ RequestOK(r) /\ r.kind \in {"addToMyList", "removeFromMyList"}
      /\ ListOK(r) /\ r.kind \notin Updates
  BY StepOfKind, KindsApart DEF AddToMyList, SaveItem, RemoveFromMyList, RequestOK
<1>2. TablesKept /\ UNCHANGED <<movies, overlapped>>
  BY SameTables DEF AddToMyList, SaveItem, RemoveFromMyList
<1>3. ASSUME NEW b \in {"ok", "failed"}, Finish(s, b),
             b = "ok" /\ r.kind = "addToMyList" /\ Exists(r.id) =>
               <<r.profile, TargetMovie(r.id)>> \in myList'
      PROVE  TablesInv' /\ Aside /\ slot'[s].kind \notin Imports /\ FoundAfter(s)
  BY <1>1, <1>2, <1>3, PlainFinish, KindsApart DEF FoundAfter
<1>4. CASE AddToMyList(s) /\ Exists(r.id) /\ <<r.profile, TargetMovie(r.id)>> \notin myList
  <2> DEFINE q == [slot[s] EXCEPT !.step = "insert", !.row = TargetMovie(r.id)]
  <2>1. slot' = [slot EXCEPT ![s].step = "insert", ![s].row = TargetMovie(r.id)]
    BY <1>4 DEF AddToMyList
  <2>2. TargetMovie(r.id) = Listed(r.id) /\ Listed(r.id) \in Ids
    BY <1>1, <1>4, TargetIsListed, InitialKinds DEF ListOK, Listed
  <2>3. q \in Request /\ q.kind = r.kind /\ q.step = "insert" /\ q.row = Listed(r.id) /\ q.id = r.id
    BY <1>1, <2>2 DEF Request
  <2>4. Moves(s, q)
    BY <2>1, <2>3 DEF Moves, TablesInv, Typed
  <2>5. RequestOK(q)
    BY <1>1, <2>3, KindsApart DEF RequestOK, ListOK
  <2> HIDE DEF q
  <2>6. slot'[s] = q
    BY <2>4, MovesEffect DEF TablesInv
  <2>7. TablesInv' /\ Aside
    BY <1>1, <1>2, <2>3, <2>4, <2>5, PlainMove
  <2> QED BY <1>1, <2>3, <2>6, <2>7, KindsApart DEF FoundAfter
<1>5. CASE AddToMyList(s) /\ ~Exists(r.id)
  BY <1>3, <1>5 DEF AddToMyList
<1>6. CASE AddToMyList(s) /\ Exists(r.id) /\ <<r.profile, TargetMovie(r.id)>> \in myList
  BY <1>3, <1>6 DEF AddToMyList
<1>7. CASE SaveItem(s)
  <2>1. Exists(r.id) => TargetMovie(r.id) = r.row
    BY <1>1, <1>7, TargetIsListed DEF SaveItem, ListOK
  <2> QED BY <1>3, <1>7, <2>1 DEF SaveItem
<1>8. CASE RemoveFromMyList(s)
  BY <1>3, <1>8 DEF RemoveFromMyList
<1> QED BY <1>4, <1>5, <1>6, <1>7, <1>8

(***************************************************************************)
(* The flags after a step.                                                 *)
(***************************************************************************)
\* Every episode has its series' flag, but for those that a request excuses.
FlagsBut(r) ==
  \A id \in Ids : Exists(id) /\ movies[id].contentType = "EPISODE" =>
    movies[id].isPremium = movies[movies[id].seriesId].isPremium \/ Excused(r, id)

LEMMA AsideSerial ==
  ASSUME TablesInv, TablesInv', SerialInv, Aside
  PROVE  SerialInv'
<1> SUFFICES ASSUME ~overlapped, ~overlapped' PROVE
      /\ \A s, t \in Slots : slot'[s].kind \in Updates /\ slot'[t].kind \in Updates => s = t
      /\ \A s \in Slots : slot'[s].kind \in Updates => FlagOK(slot[s])'
      /\ \A id \in Ids : Exists(id)' /\ movies'[id].contentType = "EPISODE" =>
           \/ movies'[id].isPremium = movies'[movies'[id].seriesId].isPremium
           \/ \E s \in Slots : Excused(slot[s], id)'
  BY DEF SerialInv, Aside
<1>1. \A s \in Slots : slot'[s].kind \in Updates => slot'[s] = slot[s]
  BY DEF Aside
<1>2. ASSUME NEW id \in Ids, Exists(id)' , movies[id] # None
      PROVE  movies'[id] = movies[id] /\ Exists(id)
  BY <1>2, CatalogueAssumption DEF Aside, Exists
<1>3. ASSUME NEW s \in Slots, slot'[s].kind \in Updates PROVE FlagOK(slot[s])'
  <2>1. PICK r : r = slot[s] /\ r = slot'[s]
    BY <1>1, <1>3
  <2>2. r.kind \in Updates /\ RequestOK(r) /\ FlagOK(r)
    BY <1>3, <2>1 DEF SerialInv, TablesInv
  <2>3. UpdateOK(r)
    BY <2>2 DEF RequestOK
  <2>4. Exists(r.id)' => Exists(r.id) /\ movies'[r.id] = movies[r.id]
    BY <1>2, <2>3 DEF UpdateOK
  <2>5. r.step # "load" /\ r.row.contentType = "EPISODE" /\ Exists(r.row.seriesId)' =>
          Exists(r.row.seriesId) /\ movies'[r.row.seriesId] = movies[r.row.seriesId]
    <3> SUFFICES ASSUME r.step # "load", r.row.contentType = "EPISODE", Exists(r.row.seriesId)'
                 PROVE  Exists(r.row.seriesId) /\ movies'[r.row.seriesId] = movies[r.row.seriesId]
      OBVIOUS
    <3>1. r.row.contentType = KindOf(r.id)[1] /\ r.row.seriesId = KindOf(r.id)[2]
      BY <2>3 DEF UpdateOK, Kind
    <3>2. r.row.seriesId \in Ids /\ InitialMovies[r.row.seriesId] # None
      BY <2>3, <3>1, InitialKinds DEF UpdateOK
    <3>3. movies[r.row.seriesId] # None
      BY <3>2 DEF TablesInv, KindsKept
    <3> QED BY <1>2, <3>2, <3>3
  <2>6. r.step \in {"parent", "saveAgain"} => r.row.contentType = "EPISODE"
    BY <2>3 DEF UpdateOK
  <2>7. FlagOK(r)'
    BY <2>2, <2>4, <2>5, <2>6 DEF FlagOK, Sent
  <2> QED BY <2>1, <2>7
<1>4. ASSUME NEW id \in Ids, Exists(id)', movies'[id].contentType = "EPISODE"
      PROVE  \/ movies'[id].isPremium = movies'[movies'[id].seriesId].isPremium
             \/ \E s \in Slots : Excused(slot[s], id)'
  <2>1. /\ movies'[id].contentType = KindOf(id)[1] /\ movies'[id].seriesId = KindOf(id)[2]
        /\ movies'[id].seriesId \in Ids /\ Exists(movies[id].seriesId)'
    <3>1. Kind(movies'[id]) = KindOf(id)
      BY <1>4 DEF TablesInv, KindsKept, Kind, KindOf, Exists
    <3>2. movies'[id].contentType = KindOf(id)[1] /\ movies'[id].seriesId = KindOf(id)[2]
      BY <3>1 DEF Kind
    <3>3. movies'[id].seriesId \in Ids
      BY <1>4, <3>2, InitialKinds
    <3>4. Exists(movies[id].seriesId)'
      BY <1>4, <3>3, CatalogueAssumption DEF TablesInv, WellKept, Exists
    <3> QED BY <3>2, <3>3, <3>4
  <2>2. movies[id] # None /\ movies[movies'[id].seriesId] # None
    <3>1. InitialMovies[id] # None
      BY <1>4, <2>1 DEF KindOf
    <3>2. InitialMovies[KindOf(id)[2]] # None
      BY <1>4, <2>1, InitialKinds, CatalogueAssumption
    <3> QED BY <2>1, <3>1, <3>2 DEF TablesInv, KindsKept
  <2>3. movies'[id] = movies[id] /\ Exists(id) /\ movies'[movies[id].seriesId] = movies[movies[id].seriesId]
    BY <1>2, <1>4, <2>1, <2>2
  <2>4. CASE movies[id].isPremium = movies[movies[id].seriesId].isPremium
    BY <2>3, <2>4
  <2>5. ASSUME NEW s \in Slots, Excused(slot[s], id) PROVE Excused(slot[s], id)'
    <3>1. slot[s].kind \in Updates
      BY <2>5 DEF Excused, Updates
    <3>2. slot'[s] = slot[s]
      BY <3>1 DEF Aside
    <3> QED BY <2>5, <3>2 DEF Excused, KindOf
  <2> QED BY <1>4, <2>3, <2>4, <2>5 DEF SerialInv
<1> QED BY <1>1, <1>3, <1>4 DEF SerialInv

\* The only update goes on.
LEMMA UpdateSerial ==
  ASSUME TablesInv, SerialInv, NEW s \in Slots, NEW q, Moves(s, q), slot[s].kind \in Updates,
         UNCHANGED overlapped,
         ~overlapped /\ q.kind \in Updates => FlagOK(q)', ~overlapped => FlagsBut(q)'
  PROVE  SerialInv'
<1> SUFFICES ASSUME ~overlapped PROVE
      /\ \A u, t \in Slots : slot'[u].kind \in Updates /\ slot'[t].kind \in Updates => u = t
      /\ \A t \in Slots : slot'[t].kind \in Updates => FlagOK(slot[t])'
      /\ \A id \in Ids : Exists(id)' /\ movies'[id].contentType = "EPISODE" =>
           \/ movies'[id].isPremium = movies'[movies'[id].seriesId].isPremium
           \/ \E t \in Slots : Excused(slot[t], id)'
  BY DEF SerialInv
<1>1. slot'[s] = q /\ \A t \in Slots \ {s} : slot'[t] = slot[t] /\ slot[t].kind \notin Updates
  BY MovesEffect DEF TablesInv, SerialInv
<1>2. q.kind \in Updates => FlagOK(slot[s])'
  <2>1. PICK r : r = q /\ r = slot'[s]
    BY <1>1
  <2> QED BY <1>1
<1>3. \A id \in Ids : Excused(q, id)' => Excused(slot[s], id)'
  BY <1>1
<1> QED BY <1>1, <1>2, <1>3 DEF FlagsBut

\* What is known of the flags while an update is under way.
LEMMA SerialFlags ==
  ASSUME TablesInv, SerialInv, ~overlapped, NEW s \in Slots, slot[s].kind \in Updates
  PROVE  FlagOK(slot[s]) /\ FlagsBut(slot[s])
<1>1. \A t \in Slots \ {s} : slot[t].kind \notin Updates
  BY DEF SerialInv
<1>2. \A t \in Slots, id \in Ids : Excused(slot[t], id) => slot[t].kind \in Updates
  BY DEF Excused, Updates
<1> QED BY <1>1, <1>2 DEF SerialInv, FlagsBut

(***************************************************************************)
(* Updates of titles.                                                      *)
(***************************************************************************)
LEMMA UpdateAt ==
  ASSUME TablesInv, NEW s \in Slots, slot[s].kind \in Updates
  PROVE  /\ slot[s] \in Request /\ UpdateOK(slot[s]) /\ slot[s].kind \notin Imports
         /\ slot[s].kind \notin {"updateProvider", "addToMyList", "removeFromMyList", None}
BY StepOfKind, KindsApart DEF RequestOK

\* The row an update holds is of its title's kind.
LEMMA RowAt ==
  ASSUME TablesInv, NEW r, UpdateOK(r), r.step # "load"
  PROVE  /\ r.row \in Movie /\ r.id \in Ids
         /\ r.row.contentType = KindOf(r.id)[1] /\ r.row.seriesId = KindOf(r.id)[2]
         /\ r.row.contentType = "EPISODE" <=> r.row.seriesId # None
         /\ r.row.contentType = "EPISODE" =>
              /\ r.row.seriesId \in Ids /\ r.row.seriesId # r.id /\ movies[r.row.seriesId] # None
              /\ KindOf(r.row.seriesId) = <<"SERIES", None>>
<1>1. r.row \in Movie /\ r.id \in Ids /\ Kind(r.row) = KindOf(r.id)
  BY DEF UpdateOK
<1>2. r.row.contentType = KindOf(r.id)[1] /\ r.row.seriesId = KindOf(r.id)[2]
  BY <1>1 DEF Kind
<1> QED BY <1>1, <1>2, InitialKinds DEF TablesInv, KindsKept

LEMMA UpdateGoesOn ==
  ASSUME TablesInv, TablesKept, SerialInv, NEW s \in Slots, slot[s].kind \in Updates,
         NEW q, Moves(s, q), q.kind \in Updates, UpdateOK(q), UNCHANGED overlapped,
         ~overlapped => FlagOK(q)' /\ FlagsBut(q)'
  PROVE  TablesInv' /\ SerialInv' /\ slot'[s].kind \notin Imports
<1>1. RequestOK(q) /\ q.kind \notin Imports
  BY KindsApart DEF RequestOK
<1> QED BY <1>1, StepKeeps, UpdateSerial, MovesEffect DEF TablesInv, Typed

LEMMA UpdateEnds ==
  ASSUME TablesInv, TablesKept, SerialInv, NEW s \in Slots, slot[s].kind \in Updates,
         NEW b \in {"ok", "failed"}, Finish(s, b), UNCHANGED overlapped,
         ~overlapped =>
           \A id \in Ids : Exists(id)' /\ movies'[id].contentType = "EPISODE" =>
             movies'[id].isPremium = movies'[movies'[id].seriesId].isPremium
  PROVE  TablesInv' /\ SerialInv' /\ slot'[s].kind \notin Imports
<1>1. PICK q : Moves(s, q) /\ RequestOK(q) /\ q.kind = None
  BY FinishMoves
<1>2. q.kind \notin Updates /\ q.kind \notin Imports
  BY <1>1, KindsApart
<1>3. ~overlapped => FlagsBut(q)'
  BY DEF FlagsBut
<1> QED BY <1>1, <1>2, <1>3, StepKeeps, UpdateSerial, MovesEffect DEF TablesInv, Typed

LEMMA SentColumns == \A patch \in Patches : patch \in Columns
BY DEF Patches, Columns

LEMMA BeginUpdateKeeps ==
  ASSUME TablesInv, SerialInv, NEW s \in Slots, BeginUpdate(s)
  PROVE  TablesInv' /\ SerialInv' /\ slot'[s].whole = <<>>
<1> SUFFICES ASSUME NEW id \in Ids, Exists(id), NEW k \in Updates, NEW patch \in Columns,
                    k = "setMoviePremiumStatus" => "isPremium" \in DOMAIN patch,
                    Begin(s, [Idle EXCEPT !.kind = k, !.step = "load", !.id = id, !.patch = patch])
             PROVE  TablesInv' /\ SerialInv' /\ slot'[s].whole = <<>>
  <2>1. ASSUME NEW b \in BOOLEAN PROVE [isPremium |-> b] \in Columns /\ "isPremium" \in DOMAIN [isPremium |-> b]
    <3>1. [isPremium |-> b] \in Columns
      BY DEF Columns
    <3>2. "isPremium" \in DOMAIN [isPremium |-> b]
      OBVIOUS
    <3> QED BY <3>1, <3>2
  <2>2. "setMoviePremiumStatus" \in Updates /\ "adminUpdate" \in Updates
    BY DEF Updates
  <2> QED BY <2>1, <2>2, SentColumns DEF BeginUpdate
<1> DEFINE r == [Idle EXCEPT !.kind = k, !.step = "load", !.id = id, !.patch = patch]
<1>1. /\ r \in Request
      /\ r.kind = k /\ r.step = "load" /\ r.id = id /\ r.patch = patch /\ r.whole = <<>>
  BY IdleOK DEF Idle, Request, Kinds
<1>2. Begin(s, r)
  OBVIOUS
<1> HIDE DEF r
<1>3. UpdateOK(r)
  BY <1>1 DEF UpdateOK, Exists
<1>4. RequestOK(r)
  BY <1>1, <1>3, KindsApart DEF RequestOK
<1>5. TablesInv' /\ Moves(s, r) /\ UNCHANGED movies
  BY <1>1, <1>2, <1>4, BeginKeeps DEF Begin, Moves
<1>6. slot'[s] = r /\ \A t \in Slots \ {s} : slot'[t] = slot[t]
  BY <1>5, MovesEffect DEF TablesInv
<1>7. SerialInv'
  <2> SUFFICES ASSUME ~overlapped' PROVE
        /\ \A u, t \in Slots : slot'[u].kind \in Updates /\ slot'[t].kind \in Updates => u = t
        /\ \A t \in Slots : slot'[t].kind \in Updates => FlagOK(slot[t])'
        /\ \A o \in Ids : Exists(o)' /\ movies'[o].contentType = "EPISODE" =>
             \/ movies'[o].isPremium = movies'[movies'[o].seriesId].isPremium
             \/ \E t \in Slots : Excused(slot[t], o)'
    BY DEF SerialInv
  <2>1. ~overlapped /\ \A t \in Slots : slot[t].kind \notin Updates
    BY <1>1, <1>2 DEF Begin, TablesInv, Typed
  <2>2. FlagOK(slot[s])'
    BY <1>1, <1>6 DEF FlagOK
  <2>3. \A t \in Slots, o \in Ids : ~Excused(slot[t], o)
    BY <2>1 DEF Excused, Updates
  <2> QED BY <1>5, <1>6, <2>1, <2>2, <2>3 DEF SerialInv, Exists
<1> QED BY <1>1, <1>5, <1>6, <1>7

\* The title as it will be written: of the same kind, with the columns sent.
LEMMA PatchedRow ==
  ASSUME NEW r, r.patch \in Columns, NEW row \in Movie
  PROVE  /\ Patched(r, row) \in Movie /\ Kind(Patched(r, row)) = Kind(row)
         /\ Patched(r, row).contentType = row.contentType /\ Patched(r, row).seriesId = row.seriesId
         /\ ~Sent(r, "isPremium") => Patched(r, row).isPremium = row.isPremium
<1> DEFINE w == Patched(r, row)
           F == {"contentType", "providerId", "providerTitleId", "seriesId", "isPremium"}
<1>1. DOMAIN row = F
  BY DEF Movie
<1>2. w = [c \in F |-> IF c \in DOMAIN r.patch THEN r.patch[c] ELSE row[c]]
  BY <1>1 DEF Patched, Sent
<1>3. /\ "contentType" \notin DOMAIN r.patch /\ "seriesId" \notin DOMAIN r.patch
      /\ "isPremium" \in DOMAIN r.patch => r.patch["isPremium"] \in BOOLEAN
      /\ "providerId" \in DOMAIN r.patch => r.patch["providerId"] \in Providers
      /\ "providerTitleId" \in DOMAIN r.patch => r.patch["providerTitleId"] \in Titles
  BY DEF Columns
<1>4. w.contentType = row.contentType /\ w.seriesId = row.seriesId
  BY <1>2, <1>3
<1>5. w.isPremium \in BOOLEAN /\ w.providerId \in Providers /\ w.providerTitleId \in Titles
  BY <1>2, <1>3 DEF Movie
<1>6. w = [contentType |-> w.contentType, providerId |-> w.providerId, providerTitleId |-> w.providerTitleId,
           seriesId |-> w.seriesId, isPremium |-> w.isPremium]
  BY <1>2
<1>7. w \in Movie
  <2> HIDE DEF w
  <2> QED BY <1>4, <1>5, <1>6 DEF Movie
<1> QED BY <1>2, <1>4, <1>7 DEF Kind, Sent

\* Of a given request, what is asked of the flags depends on the titles alone.
LEMMA SameFlags ==
  ASSUME NEW q, UNCHANGED movies PROVE (FlagOK(q)' <=> FlagOK(q)) /\ (FlagsBut(q)' <=> FlagsBut(q))
BY DEF FlagOK, FlagsBut, Exists, Sent, Excused, KindOf

LEMMA LoadTitleKeeps ==
  ASSUME TablesInv, SerialInv, NEW s \in Slots, LoadTitle(s)
  PROVE  TablesInv' /\ SerialInv' /\ slot'[s].kind \notin Imports
<1> DEFINE r == slot[s]
           row == movies[r.id]
<1>1. /\ r.step = "load" /\ r.kind \in Updates /\ r \in Request /\ UpdateOK(r)
      /\ r.id \in Ids /\ r.patch \in Columns
      /\ UNCHANGED <<movies, providers, overlapped>> /\ TablesKept
  BY UpdateAt, SameTables DEF LoadTitle, UpdateOK
<1>2. ~overlapped => FlagsBut(r) /\ \A id \in Ids : ~Excused(r, id)
  BY <1>1, SerialFlags DEF Excused
<1>3. CASE ~Exists(r.id) /\ Finish(s, "failed")
  BY <1>1, <1>2, <1>3, UpdateEnds DEF FlagsBut, Exists
<1>4. ASSUME Exists(r.id),
             slot' = [slot EXCEPT
               ![s].row = Patched(r, row),
               ![s].step = IF r.kind = "adminUpdate" THEN "check"
                           ELSE IF row.contentType = "EPISODE" THEN "parent" ELSE "save"]
      PROVE  TablesInv' /\ SerialInv' /\ slot'[s].kind \notin Imports
  <2> DEFINE next == IF r.kind = "adminUpdate" THEN "check"
                     ELSE IF row.contentType = "EPISODE" THEN "parent" ELSE "save"
             w == Patched(r, row)
  <2>1. /\ row \in Movie /\ Kind(row) = KindOf(r.id)
    BY <1>1, <1>4, Titled DEF TablesInv, KindsKept
  <2>2. /\ w \in Movie /\ Kind(w) = KindOf(r.id)
        /\ w.contentType = row.contentType /\ w.seriesId = row.seriesId
        /\ ~Sent(r, "isPremium") => w.isPremium = row.isPremium
    BY <1>1, <2>1, PatchedRow
  <2>3. /\ next \in {"check", "parent", "save"}
        /\ next = "check" <=> r.kind = "adminUpdate"
        /\ next = "parent" => row.contentType = "EPISODE" /\ r.kind = "setMoviePremiumStatus"
        /\ next = "save" => row.contentType # "EPISODE"
    BY <1>1 DEF Updates
  <2> HIDE DEF next, w
  <2> PICK q : q = [slot[s] EXCEPT !.row = w, !.step = next]
    OBVIOUS
  <2>4. /\ q \in Request /\ q.kind = r.kind /\ q.step = next /\ q.id = r.id /\ q.patch = r.patch /\ q.row = w
    BY <1>1, <2>2, <2>3 DEF Request
  <2>5. Moves(s, q)
    BY <1>4, <2>4 DEF Moves, TablesInv, Typed, next, w
  <2>6. UpdateOK(q)
    BY <1>1, <2>2, <2>3, <2>4 DEF UpdateOK
  <2>7. ASSUME ~overlapped PROVE FlagOK(q)' /\ FlagsBut(q)'
    <3>1. row.contentType = "EPISODE" => row.isPremium = movies[row.seriesId].isPremium
      BY <1>1, <1>2, <1>4, <2>7 DEF FlagsBut
    <3>2. FlagOK(q)
      BY <2>2, <2>3, <2>4, <3>1 DEF FlagOK, Sent
    <3>3. FlagsBut(q)
      BY <1>2, <2>7 DEF FlagsBut
    <3> QED BY <1>1, <3>2, <3>3, SameFlags
  <2> QED BY <1>1, <2>4, <2>5, <2>6, <2>7, UpdateGoesOn
<1> QED BY <1>3, <1>4 DEF LoadTitle

LEMMA CheckTitleKeeps ==
  ASSUME TablesInv, SerialInv, NEW s \in Slots, CheckTitle(s)
  PROVE  TablesInv' /\ SerialInv' /\ slot'[s].kind \notin Imports
<1> DEFINE r == slot[s]
<1> PICK q : q = [slot[s] EXCEPT !.step = "save"]
  OBVIOUS
<1>1. /\ r.step = "check" /\ r.kind \in Updates /\ r \in Request /\ UpdateOK(r)
      /\ UNCHANGED <<movies, providers, overlapped>> /\ TablesKept
  BY UpdateAt, StepOfKind, SameTables DEF CheckTitle
<1>2. ~overlapped => FlagOK(r) /\ FlagsBut(r) /\ \A id \in Ids : ~Excused(r, id)
  BY <1>1, SerialFlags DEF Excused
<1>3. CASE Finish(s, "failed")
  BY <1>1, <1>2, <1>3, UpdateEnds DEF FlagsBut, Exists
<1>4. CASE Goto(s, "save")
  <2>1. /\ Moves(s, q) /\ q.kind = r.kind /\ q.step = "save" /\ q.id = r.id /\ q.patch = r.patch
        /\ q.row = r.row
    BY <1>1, <1>4, GotoMoves DEF TablesInv, Request
  <2>2. UpdateOK(q)
    BY <1>1, <2>1 DEF UpdateOK
  <2>3. ~overlapped => FlagOK(q) /\ FlagsBut(q)
    BY <1>1, <1>2, <2>1 DEF FlagOK, FlagsBut, Sent
  <2>4. ~overlapped => FlagOK(q)' /\ FlagsBut(q)'
    BY <1>1, <2>3, SameFlags
  <2> QED BY <1>1, <2>1, <2>2, <2>4, UpdateGoesOn
<1> QED BY <1>3, <1>4 DEF CheckTitle

\* An episode whose series is gone is gone too.
LEMMA ReadParentKeeps ==
  ASSUME TablesInv, SerialInv, NEW s \in Slots, ReadParent(s)
  PROVE  TablesInv' /\ SerialInv' /\ slot'[s].kind \notin Imports
<1> DEFINE r == slot[s]
<1>1. /\ r.step = "parent" /\ r.kind \in Updates /\ r \in Request /\ UpdateOK(r)
      /\ UNCHANGED <<movies, providers, overlapped>> /\ TablesKept
  BY UpdateAt, StepOfKind, SameTables DEF ReadParent
<1>2. /\ r.row \in Movie /\ r.id \in Ids /\ r.row.contentType = "EPISODE"
      /\ r.row.seriesId = KindOf(r.id)[2] /\ r.row.seriesId \in Ids
  BY <1>1, RowAt DEF UpdateOK
<1>3. ~overlapped => FlagOK(r) /\ FlagsBut(r)
  BY <1>1, SerialFlags
<1>4. CASE Exists(r.row.seriesId)
  <2> DEFINE w == [r.row EXCEPT !.isPremium = movies[r.row.seriesId].isPremium]
  <2>1. /\ w \in Movie /\ Kind(w) = Kind(r.row) /\ Identity(w) = Identity(r.row)
        /\ w.contentType = "EPISODE" /\ w.seriesId = r.row.seriesId
        /\ w.isPremium = movies[r.row.seriesId].isPremium
    <3>1. movies[r.row.seriesId].isPremium \in BOOLEAN
      BY <1>2, <1>4, Titled DEF Movie
    <3> QED BY <1>2, <3>1 DEF Movie, Kind, Identity
  <2> HIDE DEF w
  <2> PICK q : q = [slot[s] EXCEPT !.row = w, !.step = "saveAgain"]
    OBVIOUS
  <2>2. /\ q \in Request /\ q.kind = r.kind /\ q.step = "saveAgain" /\ q.id = r.id /\ q.patch = r.patch
        /\ q.row = w
    BY <1>1, <2>1 DEF Request
  <2>3. Moves(s, q)
    BY <1>4, <2>2 DEF ReadParent, Moves, TablesInv, Typed, w
  <2>4. UpdateOK(q)
    BY <1>1, <2>1, <2>2 DEF UpdateOK
  <2>5. ASSUME ~overlapped PROVE FlagOK(q)' /\ FlagsBut(q)'
    <3>1. FlagOK(q)
      BY <1>1, <1>3, <2>1, <2>2, <2>5 DEF FlagOK, Sent
    <3>2. \A id \in Ids : Excused(r, id) => Excused(q, id)
      BY <1>1, <2>2 DEF Excused
    <3>3. FlagsBut(q)
      BY <1>3, <2>5, <3>2 DEF FlagsBut
    <3> QED BY <1>1, <3>1, <3>3, SameFlags
  <2> QED BY <1>1, <2>2, <2>3, <2>4, <2>5, UpdateGoesOn
<1>5. CASE ~Exists(r.row.seriesId) /\ r.kind = "adminUpdate"
  <2>1. ~Exists(r.id)
    <3> SUFFICES ASSUME Exists(r.id) PROVE FALSE
      OBVIOUS
    <3>1. /\ movies[r.id].contentType = "EPISODE" /\ movies[r.id].seriesId = r.row.seriesId
      BY <1>1, <1>2, Titled, RowAt
    <3> QED BY <1>2, <1>5, <3>1, Titled
  <2>2. ~overlapped => \A id \in Ids : Exists(id) /\ movies[id].contentType = "EPISODE" =>
                         movies[id].isPremium = movies[movies[id].seriesId].isPremium
    BY <1>1, <1>3, <2>1 DEF FlagsBut, Excused
  <2> QED BY <1>1, <1>5, <2>2, UpdateEnds DEF ReadParent, Exists
<1>6. CASE ~Exists(r.row.seriesId) /\ r.kind # "adminUpdate"
  <2> PICK q : q = [slot[s] EXCEPT !.step = "saveAgain"]
    OBVIOUS
  <2>1. /\ Moves(s, q) /\ q.kind = r.kind /\ q.step = "saveAgain" /\ q.id = r.id /\ q.patch = r.patch
        /\ q.row = r.row
    BY <1>1, <1>6, GotoMoves DEF ReadParent, TablesInv, Request
  <2>2. UpdateOK(q)
    BY <1>1, <2>1 DEF UpdateOK
  <2>3. ~overlapped => FlagOK(q) /\ FlagsBut(q)
    BY <1>1, <1>3, <1>6, <2>1 DEF FlagOK, FlagsBut, Excused
  <2>4. ~overlapped => FlagOK(q)' /\ FlagsBut(q)'
    BY <1>1, <2>3, SameFlags
  <2> QED BY <1>1, <2>1, <2>2, <2>4, UpdateGoesOn
<1> QED BY <1>4, <1>5, <1>6

\* Who is out of step once the row is written, and whom the update still owes.
LEMMA SavedFlags ==
  ASSUME TablesInv, SerialInv, ~overlapped, NEW s \in Slots, slot[s].kind \in Updates,
         slot[s].step \in {"save", "saveAgain"}, Accepted(slot[s].id, slot[s].row),
         movies' = [movies EXCEPT ![slot[s].id] = slot[s].row],
         NEW id \in Ids, Exists(id)', movies'[id].contentType = "EPISODE"
  PROVE  \/ movies'[id].isPremium = movies'[movies'[id].seriesId].isPremium
         \/ AfterSave(slot[s]) = "cascade" /\ KindOf(id)[2] = slot[s].id
         \/ AfterSave(slot[s]) = "parent" /\ slot[s].kind = "adminUpdate" /\ id = slot[s].id
<1> DEFINE r == slot[s]
<1>1. /\ UpdateOK(r) /\ r.row \in Movie /\ r.id \in Ids /\ r.row \notin {None, Gone}
      /\ r.row.contentType = KindOf(r.id)[1] /\ r.row.seriesId = KindOf(r.id)[2]
      /\ r.row.contentType = "EPISODE" <=> r.row.seriesId # None
      /\ r.row.contentType = "EPISODE" =>
           r.row.seriesId \in Ids /\ r.row.seriesId # r.id /\ KindOf(r.row.seriesId) = <<"SERIES", None>>
  BY UpdateAt, RowAt, CatalogueAssumption
<1>2. movies'[r.id] = r.row /\ \A o \in Ids \ {r.id} : movies'[o] = movies[o]
  BY <1>1 DEF TablesInv, Typed
<1>3. FlagOK(r) /\ FlagsBut(r)
  BY SerialFlags
<1>4. ASSUME id # r.id
      PROVE  \/ movies'[id].isPremium = movies'[movies'[id].seriesId].isPremium
             \/ AfterSave(r) = "cascade" /\ KindOf(id)[2] = r.id
  <2> DEFINE x == movies[id].seriesId
  <2>1. /\ Exists(id) /\ movies'[id] = movies[id] /\ movies[id].contentType = "EPISODE"
    BY <1>2, <1>4 DEF Exists
  <2>2. x \in Ids /\ Exists(x) /\ x = KindOf(id)[2] /\ KindOf(id)[1] = "EPISODE"
    BY <2>1, Titled
  <2>3. ~Excused(r, id)
    BY <1>4 DEF Excused
  <2>4. movies[id].isPremium = movies[x].isPremium
    BY <1>3, <2>1, <2>3 DEF FlagsBut
  <2>5. CASE x # r.id
    BY <1>2, <2>1, <2>2, <2>4, <2>5
  <2>6. CASE x = r.id
    <3>1. KindOf(r.id)[1] = "SERIES"
      <4>1. KindOf(x) = <<"SERIES", None>>
        BY <2>2, InitialKinds
      <4> QED BY <2>6, <4>1
    <3>2. r.row.contentType = "SERIES" /\ r.step = "save"
      BY <1>1, <3>1 DEF UpdateOK
    <3>3. CASE Sent(r, "isPremium")
      BY <2>2, <2>6, <3>2, <3>3 DEF AfterSave
    <3>4. CASE ~Sent(r, "isPremium")
      BY <1>2, <1>3, <2>1, <2>2, <2>4, <2>6, <3>2, <3>4 DEF FlagOK
    <3> QED BY <3>3, <3>4
  <2> QED BY <2>5, <2>6
<1>5. ASSUME id = r.id
      PROVE  \/ movies'[id].isPremium = movies'[movies'[id].seriesId].isPremium
             \/ AfterSave(r) = "parent" /\ r.kind = "adminUpdate"
  <2> DEFINE x == r.row.seriesId
  <2>1. /\ r.row.contentType = "EPISODE" /\ x \in Ids /\ x # r.id /\ Exists(x)
        /\ movies'[id] = r.row /\ movies'[x] = movies[x]
    BY <1>1, <1>2, <1>5 DEF Accepted
  <2>2. CASE r.step = "save" /\ Sent(r, "isPremium")
    <3>1. r.kind = "adminUpdate"
      BY <1>1, <2>1, <2>2 DEF UpdateOK, Updates
    <3> QED BY <2>1, <2>2, <3>1 DEF AfterSave
  <2>3. CASE r.step = "saveAgain" \/ ~Sent(r, "isPremium")
    BY <1>3, <2>1, <2>3 DEF FlagOK
  <2> QED BY <2>2, <2>3
<1> QED BY <1>4, <1>5

\* Only a title of another identity can refuse what was loaded from it.
LEMMA RefusedWasStale ==
  ASSUME TablesInv, NEW r, UpdateOK(r), r.step # "load", ~Accepted(r.id, r.row), Exists(r.id)
  PROVE  Identity(movies[r.id]) # Identity(r.row)
<1> SUFFICES ASSUME Identity(movies[r.id]) = Identity(r.row) PROVE Accepted(r.id, r.row)
  OBVIOUS
<1>1. /\ r.id \in Ids /\ r.row.contentType = KindOf(r.id)[1] /\ r.row.seriesId = KindOf(r.id)[2]
      /\ r.row.contentType = "EPISODE" <=> r.row.seriesId # None
  BY RowAt
<1>2. ~IdentityTaken(r.id, r.row)
  BY <1>1 DEF IdentityTaken, TablesInv, WellKept, Exists
<1>3. ProviderExists(r.row.providerId)
  BY <1>1 DEF ProviderExists, Identity, TablesInv, WellKept, Exists
<1>4. r.row.seriesId # None => Exists(r.row.seriesId)
  BY <1>1, Titled
<1> QED BY <1>2, <1>3, <1>4 DEF Accepted

LEMMA SaveTitleBackKeeps ==
  ASSUME TablesInv, SerialInv, NEW s \in Slots, SaveTitleBack(s)
  PROVE  TablesInv' /\ SerialInv' /\ slot'[s].kind \notin Imports
<1> DEFINE r == slot[s]
<1>1. /\ r.step \in {"save", "saveAgain"} /\ r.kind \in Updates /\ r \in Request /\ UpdateOK(r)
      /\ UNCHANGED <<providers, overlapped>> /\ r.row \in Movie /\ r.id \in Ids
      /\ r.row.contentType = KindOf(r.id)[1] /\ r.row.seriesId = KindOf(r.id)[2]
      /\ r.row \notin {None, Gone}
  BY UpdateAt, RowAt, CatalogueAssumption DEF SaveTitleBack
<1>2. CASE ~Accepted(r.id, r.row) /\ Finish(s, "failed") /\ UNCHANGED movies
  <2>1. TablesKept
    BY <1>1, <1>2, SameTables
  <2>2. ASSUME ~overlapped, NEW id \in Ids, Exists(id), movies[id].contentType = "EPISODE"
        PROVE  movies[id].isPremium = movies[movies[id].seriesId].isPremium
    <3>1. FlagOK(r) /\ FlagsBut(r)
      BY <1>1, <2>2, SerialFlags
    <3>2. ~Excused(r, id)
      BY <1>1, <1>2, <2>2, <3>1, RefusedWasStale DEF Excused, FlagOK
    <3> QED BY <2>2, <3>1, <3>2 DEF FlagsBut
  <2> QED BY <1>1, <1>2, <2>1, <2>2, UpdateEnds DEF Exists
<1>3. CASE /\ Accepted(r.id, r.row) /\ movies' = [movies EXCEPT ![r.id] = r.row]
           /\ IF AfterSave(r) = "ok" THEN Finish(s, "ok") ELSE Goto(s, AfterSave(r))
  <2>1. TablesKept
    BY <1>1, <1>3, WriteKeeps DEF Kind, UpdateOK
  <2>2. ASSUME ~overlapped, NEW id \in Ids, Exists(id)', movies'[id].contentType = "EPISODE"
        PROVE  \/ movies'[id].isPremium = movies'[movies'[id].seriesId].isPremium
               \/ AfterSave(r) = "cascade" /\ KindOf(id)[2] = r.id
               \/ AfterSave(r) = "parent" /\ r.kind = "adminUpdate" /\ id = r.id
    BY <1>1, <1>3, <2>2, SavedFlags
  <2>3. CASE AfterSave(r) = "ok"
    BY <1>1, <1>3, <2>1, <2>2, <2>3, UpdateEnds
  <2>4. CASE AfterSave(r) # "ok"
    <3> PICK next : next = AfterSave(r)
      OBVIOUS
    <3>1. /\ next \in {"cascade", "parent"} /\ Sent(r, "isPremium") /\ r.step = "save"
          /\ next = "cascade" => r.row.contentType = "SERIES"
          /\ next = "parent" => r.row.contentType = "EPISODE"
      BY <1>1, <2>4 DEF AfterSave, Movie, MovieContentType
    <3> PICK q : q = [slot[s] EXCEPT !.step = next]
      OBVIOUS
    <3>2. /\ Moves(s, q) /\ q.kind = r.kind /\ q.step = next /\ q.id = r.id /\ q.patch = r.patch
          /\ q.row = r.row
      BY <1>1, <1>3, <2>4, <3>1, GotoMoves DEF TablesInv, Request
    <3>3. UpdateOK(q)
      BY <1>1, <3>1, <3>2 DEF UpdateOK, Sent
    <3>4. movies'[r.id] = r.row
      BY <1>1, <1>3 DEF TablesInv, Typed
    <3>5. FlagOK(q)'
      BY <3>1, <3>2, <3>4 DEF FlagOK
    <3>6. ~overlapped => FlagsBut(q)'
      BY <1>1, <2>2, <3>1, <3>2 DEF FlagsBut, Excused, KindOf
    <3> QED BY <1>1, <2>1, <3>2, <3>3, <3>5, <3>6, UpdateGoesOn
  <2> QED BY <2>3, <2>4
<1> QED BY <1>2, <1>3 DEF SaveTitleBack

\* Rows change that keep what the keys and the index look at.
LEMMA FlagsOnlyKeep ==
  ASSUME TablesInv, UNCHANGED providers, movies' \in [Ids -> Movie \cup {None, Gone}],
         \A id \in Ids : ~Exists(id) => movies'[id] = movies[id],
         \A id \in Ids : Exists(id) =>
           /\ movies'[id] \in Movie /\ Kind(movies'[id]) = Kind(movies[id])
           /\ movies'[id].contentType = movies[id].contentType /\ movies'[id].seriesId = movies[id].seriesId
           /\ movies'[id].providerId = movies[id].providerId
           /\ Identity(movies'[id]) = Identity(movies[id])
  PROVE  TablesKept
<1>1. \A id \in Ids : movies'[id] \in {None, Gone} <=> movies[id] \in {None, Gone}
  BY CatalogueAssumption DEF Exists
<1>2. \A id \in Ids : movies'[id] = None <=> movies[id] = None
  BY CatalogueAssumption DEF Exists
<1>3. KindsKept'
  BY <1>1, <1>2 DEF TablesInv, KindsKept, Exists, KindOf
<1>4. WellKept(movies', providers')
  <2>1. \A id \in Ids : Exists(id) /\ movies[id].seriesId # None => movies[id].seriesId \in Ids
    BY Titled DEF Movie
  <2> QED BY <1>1, <2>1 DEF TablesInv, WellKept, Exists
<1> QED BY <1>2, <1>3, <1>4 DEF TablesInv, Typed, TablesKept

LEMMA CascadeKeeps ==
  ASSUME TablesInv, SerialInv, NEW s \in Slots, CascadePremium(s)
  PROVE  /\ TablesInv' /\ SerialInv' /\ slot'[s].kind \notin Imports
         /\ \A id \in Ids : Exists(id) => Exists(id)' /\ Identity(movies'[id]) = Identity(movies[id])
<1> DEFINE r == slot[s]
<1>1. /\ r.step = "cascade" /\ r.kind \in Updates /\ UpdateOK(r) /\ r.row \in Movie
      /\ r.id \in Ids /\ UNCHANGED <<providers, overlapped>> /\ Finish(s, "ok")
      /\ KindOf(r.id)[1] = "SERIES"
  BY UpdateAt, StepOfKind, RowAt DEF CascadePremium, UpdateOK
<1>2. \A id \in Ids : movies'[id] = IF Exists(id) /\ movies[id].seriesId = r.id
                                    THEN [movies[id] EXCEPT !.isPremium = r.row.isPremium] ELSE movies[id]
  BY DEF CascadePremium
<1>3. ASSUME NEW id \in Ids, Exists(id)
      PROVE  /\ movies'[id] \in Movie /\ Kind(movies'[id]) = Kind(movies[id])
             /\ movies'[id].contentType = movies[id].contentType /\ movies'[id].seriesId = movies[id].seriesId
             /\ movies'[id].providerId = movies[id].providerId
             /\ Identity(movies'[id]) = Identity(movies[id])
  BY <1>1, <1>2, <1>3, Titled DEF Movie, Kind, Identity
<1>4. TablesKept
  <2>1. movies' \in [Ids -> Movie \cup {None, Gone}]
    BY <1>2, <1>3 DEF CascadePremium, TablesInv, Typed
  <2> QED BY <1>1, <1>2, <1>3, <2>1, FlagsOnlyKeep
<1>5. ASSUME ~overlapped, NEW id \in Ids, Exists(id)', movies'[id].contentType = "EPISODE"
      PROVE  movies'[id].isPremium = movies'[movies'[id].seriesId].isPremium
  <2>1. Exists(id) /\ movies[id].contentType = "EPISODE"
    BY <1>2, <1>3, <1>5 DEF Exists
  <2> DEFINE x == movies[id].seriesId
  <2>2. /\ x \in Ids /\ Exists(x) /\ x = KindOf(id)[2] /\ movies'[id].seriesId = x
    BY <1>3, <2>1, Titled
  <2>3. movies'[x] = movies[x]
    <3>1. KindOf(x)[2] = None
      BY <2>1, <2>2, InitialKinds, Titled, CatalogueAssumption
    <3>2. movies[x].seriesId # r.id
      BY <1>1, <2>2, <3>1, Titled, CatalogueAssumption
    <3> QED BY <1>2, <2>2, <3>2
  <2>4. FlagOK(r) /\ FlagsBut(r)
    BY <1>1, <1>5, SerialFlags
  <2>5. CASE x = r.id
    <3>1. movies'[id].isPremium = r.row.isPremium
      BY <1>2, <2>1, <2>5, Titled DEF Movie
    <3> QED BY <1>1, <2>2, <2>3, <2>4, <2>5, <3>1 DEF FlagOK
  <2>6. CASE x # r.id
    <3>1. movies'[id] = movies[id] /\ ~Excused(r, id)
      BY <1>1, <1>2, <2>2, <2>6 DEF Excused
    <3> QED BY <2>1, <2>2, <2>3, <2>4, <3>1 DEF FlagsBut
  <2> QED BY <2>5, <2>6
<1>6. TablesInv' /\ SerialInv' /\ slot'[s].kind \notin Imports
  BY <1>1, <1>4, <1>5, UpdateEnds
<1> QED BY <1>3, <1>6, CatalogueAssumption DEF Exists

LEMMA DieKeeps ==
  ASSUME TablesInv, SerialInv, NEW s \in Slots, Die(s)
  PROVE  TablesInv' /\ SerialInv' /\ slot'[s].kind = None /\ slot'[s].step = "failed"
<1>1. TablesKept /\ overlapped' \in BOOLEAN /\ Finish(s, "failed") /\ UNCHANGED movies
  BY SameTables DEF Die, TablesInv, Typed
<1>2. PICK q : Moves(s, q) /\ RequestOK(q) /\ q.kind = None /\ q.step = "failed"
  BY <1>1, FinishMoves
<1>3. TablesInv' /\ slot'[s] = q
  BY <1>1, <1>2, StepKeeps, MovesEffect DEF TablesInv
<1>4. CASE slot[s].kind \in Updates
  BY <1>2, <1>3, <1>4 DEF Die, SerialInv
<1>5. CASE slot[s].kind \notin Updates
  BY <1>1, <1>2, <1>3, <1>5, PlainFinish, AsideSerial DEF Die, TablesInv, Typed
<1> QED BY <1>2, <1>3, <1>4, <1>5

(***************************************************************************)
(* Progress of the imports.                                                *)
(***************************************************************************)
\* The steps of a request, but for its beginning.
ImportStep(s) == GetMoviesFromProvider(s) \/ LookUpTitle(s) \/ SaveTitle(s)
UpdateStep(s) == LoadTitle(s) \/ CheckTitle(s) \/ ReadParent(s) \/ SaveTitleBack(s) \/ CascadePremium(s)
ListStep(s) == AddToMyList(s) \/ SaveItem(s) \/ RemoveFromMyList(s)
Begins(s) == BeginImport(s) \/ BeginUpdate(s) \/ LoadProvider(s) \/ BeginList(s)

LEMMA OthersStay ==
  ASSUME TablesInv, NEW s \in Slots,
         Begins(s) \/ ImportStep(s) \/ UpdateStep(s) \/ SaveProvider(s) \/ ListStep(s) \/ Die(s)
  PROVE  \A t \in Slots \ {s} : slot'[t] = slot[t]
<1>1. CASE Begins(s)
  <2>1. PICK r : Begin(s, r)
    BY <1>1 DEF Begins, BeginImport, BeginUpdate, LoadProvider, BeginList
  <2> QED BY <2>1 DEF Begin, TablesInv, Typed
<1>2. CASE ImportStep(s)
  BY <1>2 DEF ImportStep, GetMoviesFromProvider, LookUpTitle, SaveTitle, Abort, Goto, Finish, TablesInv, Typed
<1>3. CASE UpdateStep(s)
  BY <1>3 DEF UpdateStep, LoadTitle, CheckTitle, ReadParent, SaveTitleBack, CascadePremium, Goto, Finish,
              TablesInv, Typed
<1>4. CASE SaveProvider(s) \/ ListStep(s) \/ Die(s)
  BY <1>4 DEF SaveProvider, ListStep, AddToMyList, SaveItem, RemoveFromMyList, Die, Goto, Finish,
              TablesInv, Typed
<1> QED BY <1>1, <1>2, <1>3, <1>4

\* A request begins where there was none.
LEMMA BeginsFree ==
  ASSUME TablesInv, NEW s \in Slots, Begins(s)
  PROVE  slot[s].kind = None /\ touched' = touched \ {s} /\ UNCHANGED movies
<1>1. PICK r : Begin(s, r)
  BY DEF Begins, BeginImport, BeginUpdate, LoadProvider, BeginList
<1> QED BY <1>1, StepOfKind DEF Begin

\* An import step, and what it can end with.
LEMMA ImportSteps ==
  ASSUME TablesInv, NEW s \in Slots, ImportStep(s)
  PROVE  /\ slot[s].kind \in Imports /\ slot'[s].kind \in {slot[s].kind, None} /\ touched' = touched
         /\ slot'[s].step = "ok" => \/ slot[s].step = "lookup" /\ slot[s].feed = <<>>
                                    \/ slot[s].step = "next" /\ slot[s].queue = {}
<1>1. slot[s] \in Request /\ slot[s].kind \in Imports /\ touched' = touched
  BY StepOfKind DEF ImportStep, GetMoviesFromProvider, LookUpTitle, SaveTitle
<1>2. ASSUME NEW b, Finish(s, b) PROVE slot'[s].kind = None /\ slot'[s].step = b
  BY <1>2 DEF Finish, Idle, TablesInv, Typed
<1>3. ASSUME NEW b, Goto(s, b) PROVE slot'[s].kind = slot[s].kind /\ slot'[s].step = b
  BY <1>1, <1>3 DEF Goto, TablesInv, Typed, Request
<1>4. CASE GetMoviesFromProvider(s)
  <2>1. ASSUME NEW p \in slot[s].queue, NEW feed \in IF p[2] THEN Feeds ELSE {<<>>},
               slot' = [slot EXCEPT ![s].step = "lookup", ![s].id = p[1], ![s].feed = feed,
                                    ![s].whole = feed, ![s].queue = slot[s].queue \ {p}]
        PROVE  slot'[s].kind = slot[s].kind /\ slot'[s].step = "lookup"
    BY <1>1, <2>1 DEF TablesInv, Typed, Request
  <2>2. ASSUME NEW p \in slot[s].queue, slot' = [slot EXCEPT ![s].queue = slot[s].queue \ {p}]
        PROVE  slot'[s].kind = slot[s].kind /\ slot'[s].step = slot[s].step
    BY <1>1, <2>2 DEF TablesInv, Typed, Request
  <2>3. slot[s].step = "next"
    BY <1>4 DEF GetMoviesFromProvider
  <2>4. CASE slot[s].queue = {} /\ Finish(s, "ok")
    BY <1>1, <1>2, <2>3, <2>4
  <2>5. CASE Finish(s, "failed")
    BY <1>1, <1>2, <2>5
  <2>6. CASE \E p \in slot[s].queue : slot' = [slot EXCEPT ![s].queue = slot[s].queue \ {p}]
    BY <1>1, <2>2, <2>3, <2>6
  <2>7. CASE \E p \in slot[s].queue : \E feed \in IF p[2] THEN Feeds ELSE {<<>>} :
               slot' = [slot EXCEPT ![s].step = "lookup", ![s].id = p[1], ![s].feed = feed,
                                    ![s].whole = feed, ![s].queue = slot[s].queue \ {p}]
    BY <1>1, <2>1, <2>7
  <2> QED BY <1>4, <2>4, <2>5, <2>6, <2>7 DEF GetMoviesFromProvider
<1>5. CASE LookUpTitle(s)
  <2>1. ASSUME slot' = [slot EXCEPT ![s].feed = Tail(@)]
        PROVE  slot'[s].kind = slot[s].kind /\ slot'[s].step = slot[s].step
    BY <1>1, <2>1 DEF TablesInv, Typed, Request
  <2>2. slot[s].step = "lookup"
    BY <1>5 DEF LookUpTitle
  <2>3. CASE slot[s].feed = <<>> /\ (Finish(s, "ok") \/ Goto(s, "next"))
    BY <1>1, <1>2, <1>3, <1>5, <2>2, <2>3 DEF LookUpTitle
  <2>4. CASE slot' = [slot EXCEPT ![s].feed = Tail(@)] \/ Goto(s, "insert")
    BY <1>1, <1>3, <1>5, <2>1, <2>2, <2>4 DEF LookUpTitle
  <2> QED BY <1>5, <2>3, <2>4 DEF LookUpTitle
<1>6. CASE SaveTitle(s)
  BY <1>1, <1>2, <1>3, <1>6 DEF SaveTitle, Abort, TablesInv, Typed, Request
<1> QED BY <1>1, <1>4, <1>5, <1>6 DEF ImportStep

\* What is in the catalogue stays in it.
Lasting == \A id \in Ids : Exists(id) => Exists(id)' /\ Identity(movies'[id]) = Identity(movies[id])

LEMMA StaysInCatalogue ==
  ASSUME Lasting, NEW p, NEW t, InCatalogue(p, t) PROVE InCatalogue(p, t)'
BY DEF Lasting, InCatalogue, Identity

\* An import that goes on: it begins, it has its feed, or it went through one
\* more title of it.
GoesOn(s) ==
  \/ slot'[s].kind # "importOne"
  \/ slot'[s].whole = <<>>
  \/ slot'[s].feed = slot'[s].whole
  \/ /\ s \notin touched /\ slot[s].kind = "importOne"
     /\ slot'[s].whole = slot[s].whole /\ slot'[s].id = slot[s].id
     /\ \/ slot'[s].feed = slot[s].feed
        \/ /\ slot[s].feed # <<>> /\ slot'[s].feed = Tail(slot[s].feed)
           /\ \A p, t : p = slot[s].id /\ t = Head(slot[s].feed) => InCatalogue(p, t)'

LEMMA ProgressKept ==
  ASSUME TablesInv, Progress, Lasting, \A s \in Slots \ touched' : GoesOn(s)
  PROVE  Progress'
<1> SUFFICES ASSUME NEW s \in Slots \ touched', slot'[s].kind = "importOne", NEW i \in DOMAIN slot'[s].whole
             PROVE  \/ \E j \in DOMAIN slot'[s].feed : slot'[s].feed[j] = slot'[s].whole[i]
                    \/ InCatalogue(slot[s].id, slot[s].whole[i])'
  BY DEF Progress
<1>1. GoesOn(s)
  OBVIOUS
<1>2. CASE slot'[s].whole = <<>>
  BY <1>2
<1>3. CASE slot'[s].feed = slot'[s].whole
  BY <1>3
<1>4. CASE /\ s \notin touched /\ slot[s].kind = "importOne"
           /\ slot'[s].whole = slot[s].whole /\ slot'[s].id = slot[s].id
           /\ \/ slot'[s].feed = slot[s].feed
              \/ /\ slot[s].feed # <<>> /\ slot'[s].feed = Tail(slot[s].feed)
                 /\ \A p, t : p = slot[s].id /\ t = Head(slot[s].feed) => InCatalogue(p, t)'
  <2> PICK t : t = slot[s].whole[i]
    OBVIOUS
  <2> PICK p : p = slot[s].id
    OBVIOUS
  <2>1. t = slot'[s].whole[i] /\ p = slot'[s].id
    BY <1>4
  <2>2. CASE InCatalogue(p, t)
    <3>1. InCatalogue(p, t)'
      BY <2>2, StaysInCatalogue
    <3> QED BY <2>1, <3>1
  <2>3. ASSUME NEW j \in DOMAIN slot[s].feed, slot[s].feed[j] = t
        PROVE  \/ \E k \in DOMAIN slot'[s].feed : slot'[s].feed[k] = slot'[s].whole[i]
               \/ InCatalogue(slot[s].id, slot[s].whole[i])'
    <3>1. CASE slot'[s].feed = slot[s].feed
      BY <2>1, <2>3, <3>1
    <3>2. CASE /\ slot[s].feed # <<>> /\ slot'[s].feed = Tail(slot[s].feed)
               /\ \A u, v : u = slot[s].id /\ v = Head(slot[s].feed) => InCatalogue(u, v)'
      <4>1. slot[s].feed \in Seq(Titles)
        BY DEF TablesInv, Typed, Request
      <4>2. CASE j = 1
        <5>1. t = Head(slot[s].feed)
          BY <2>3, <4>1, <4>2, <3>2, HeadTailProperties
        <5>2. InCatalogue(p, t)'
          BY <3>2, <5>1
        <5> QED BY <2>1, <5>2
      <4>3. CASE j # 1
        <5> DEFINE feed == slot[s].feed
        <5>1. /\ Len(Tail(feed)) = Len(feed) - 1 /\ \A k \in 1 .. Len(Tail(feed)) : Tail(feed)[k] = feed[k + 1]
              /\ Tail(feed) \in Seq(Titles)
          BY <3>2, <4>1, HeadTailProperties
        <5>2. j \in 1 .. Len(feed) /\ Len(feed) \in Nat
          BY <4>1
        <5>3. j - 1 \in DOMAIN Tail(feed) /\ Tail(feed)[j - 1] = t
          BY <2>3, <4>3, <5>1, <5>2
        <5> QED BY <2>1, <3>2, <5>3
      <4> QED BY <4>2, <4>3
    <3> QED BY <1>4, <3>1, <3>2
  <2> QED BY <1>4, <2>2, <2>3 DEF Progress
<1> QED BY <1>1, <1>2, <1>3, <1>4 DEF GoesOn

\* The titles stay, and of the imports only that of slot s moves.
LEMMA OneGoesOn ==
  ASSUME TablesInv, Progress, Lasting, NEW s \in Slots,
         \A t \in Slots \ {s} : slot'[t] = slot[t], touched \subseteq touched' \cup {s},
         s \notin touched' => GoesOn(s)
  PROVE  Progress'
<1>1. ASSUME NEW t \in Slots \ touched', t # s PROVE GoesOn(t)
  BY <1>1 DEF GoesOn
<1> QED BY <1>1, ProgressKept

\* No import is under way that somebody might still count on.
LEMMA NoneGoesOn ==
  ASSUME \A s \in Slots \ touched' : slot'[s].kind \notin Imports PROVE Progress'
BY DEF Progress, Imports

(***************************************************************************)
(* The invariant, and what it gives.                                       *)
(***************************************************************************)
CatalogueInv == TablesInv /\ SerialInv /\ Progress

LEMMA CatalogueInit == Init => CatalogueInv
<1> SUFFICES ASSUME Init PROVE CatalogueInv
  OBVIOUS
<1>1. Idle.kind = None
  BY DEF Idle
<1>2. Idle \in Request /\ RequestOK(Idle)
  BY IdleOK
<1>3. \A s \in Slots : slot[s] = Idle
  BY DEF Init
<1>4. Typed
  BY <1>2, CatalogueAssumption DEF Init, Typed
<1>5. KindsKept
  BY DEF Init, KindsKept, Exists, KindOf
<1>6. TablesInv
  BY <1>2, <1>3, <1>4, <1>5, CatalogueAssumption DEF Init, TablesInv
<1>7. SerialInv
  BY <1>1, <1>3, KindsApart, CatalogueAssumption DEF Init, SerialInv, Exists
<1>8. Progress
  BY <1>1, <1>3, KindsApart DEF Progress, Imports
<1> QED BY <1>6, <1>7, <1>8 DEF CatalogueInv

LEMMA TablesStep ==
  ASSUME TablesInv, SerialInv, Next PROVE TablesInv' /\ SerialInv'
<1>1. ASSUME NEW s \in Slots, Begins(s) PROVE TablesInv' /\ SerialInv'
  BY <1>1, BeginImportKeeps, BeginUpdateKeeps, LoadProviderKeeps, BeginListKeeps, AsideSerial DEF Begins
<1>2. ASSUME NEW s \in Slots, ImportStep(s) PROVE TablesInv' /\ SerialInv'
  BY <1>2, GetMoviesKeeps, LookUpKeeps, SaveTitleKeeps, AsideSerial DEF ImportStep
<1>3. ASSUME NEW s \in Slots, UpdateStep(s) PROVE TablesInv' /\ SerialInv'
  BY <1>3, LoadTitleKeeps, CheckTitleKeeps, ReadParentKeeps, SaveTitleBackKeeps, CascadeKeeps DEF UpdateStep
<1>4. ASSUME NEW s \in Slots, SaveProvider(s) \/ ListStep(s) \/ Die(s) PROVE TablesInv' /\ SerialInv'
  BY <1>4, SaveProviderKeeps, ListsKeep, DieKeeps, AsideSerial DEF ListStep
<1>5. ASSUME NEW id \in Ids, AdminDelete(id) PROVE TablesInv' /\ SerialInv'
  BY <1>5, AdminDeleteKeeps, AsideSerial
<1>6. ASSUME NEW p \in Providers, DeleteProvider(p) \/ CreateProvider(p) PROVE TablesInv' /\ SerialInv'
  BY <1>6, DeleteProviderKeeps, CreateProviderKeeps, AsideSerial
<1> QED BY <1>1, <1>2, <1>3, <1>4, <1>5, <1>6 DEF Next, Begins, ImportStep, UpdateStep, ListStep

LEMMA ProgressStep ==
  ASSUME CatalogueInv, Next PROVE Progress'
<1> USE DEF CatalogueInv
<1>1. ASSUME UNCHANGED movies PROVE Lasting
  BY <1>1 DEF Lasting, Exists
<1>2. ASSUME NEW s \in Slots, Begins(s) PROVE Progress'
  <2>1. slot'[s].whole = <<>>
    BY <1>2, BeginImportKeeps, BeginUpdateKeeps, LoadProviderKeeps, BeginListKeeps DEF Begins
  <2>2. touched' = touched \ {s} /\ UNCHANGED movies
    BY <1>2, BeginsFree
  <2> QED BY <1>1, <1>2, <2>1, <2>2, OthersStay, OneGoesOn DEF GoesOn
<1>3. ASSUME NEW s \in Slots, ImportStep(s) PROVE Progress'
  <2>1. /\ slot'[s].kind \in {slot[s].kind, None} /\ touched' = touched
    BY <1>3, ImportSteps
  <2>2. Lasting
    <3>1. CASE UNCHANGED movies
      BY <1>1, <3>1
    <3>2. CASE SaveTitle(s)
      <4>1. \A id \in Ids : movies'[id] = movies[id] \/ movies[id] = None
        BY <3>2, SaveTitleKeeps
      <4> QED BY <4>1 DEF Lasting, Exists
    <3> QED BY <1>3, <3>1, <3>2 DEF ImportStep, GetMoviesFromProvider, LookUpTitle
  <2>3. s \notin touched => GoesOn(s)
    <3> SUFFICES ASSUME s \notin touched, slot'[s].kind = "importOne" PROVE GoesOn(s)
      BY DEF GoesOn
    <3>1. slot[s].kind = "importOne" /\ slot'[s].kind # None
      BY <2>1, KindsApart DEF Imports
    <3>2. CASE GetMoviesFromProvider(s)
      BY <3>1, <3>2, GetMoviesKeeps DEF GoesOn
    <3>3. CASE LookUpTitle(s)
      <4>1. ASSUME InCatalogue(slot[s].id, Head(slot[s].feed)), NEW p, NEW t, p = slot[s].id, t = Head(slot[s].feed)
            PROVE  InCatalogue(p, t)'
        BY <2>2, <4>1, StaysInCatalogue
      <4> QED BY <3>1, <3>3, <4>1, LookUpKeeps DEF GoesOn
    <3>4. CASE SaveTitle(s)
      BY <3>1, <3>4, SaveTitleKeeps DEF GoesOn
    <3> QED BY <1>3, <3>2, <3>3, <3>4 DEF ImportStep
  <2> QED BY <1>3, <2>1, <2>2, <2>3, OthersStay, OneGoesOn
<1>4. ASSUME NEW s \in Slots, UpdateStep(s) PROVE Progress'
  <2>1. slot'[s].kind \notin Imports /\ GoesOn(s)
    BY <1>4, LoadTitleKeeps, CheckTitleKeeps, ReadParentKeeps, SaveTitleBackKeeps, CascadeKeeps
    DEF UpdateStep, GoesOn, Imports
  <2>2. \A t \in Slots \ {s} : slot'[t] = slot[t]
    BY <1>4, OthersStay
  <2>3. CASE touched' = touched /\ Lasting
    BY <2>1, <2>2, <2>3, OneGoesOn
  <2>4. CASE touched' = touched \cup Importing
    BY <2>1, <2>2, <2>4, NoneGoesOn DEF Importing
  <2>5. CASE SaveTitleBack(s)
    <3>1. CASE UNCHANGED <<movies, touched>>
      BY <1>1, <2>3, <3>1
    <3>2. CASE movies' = [movies EXCEPT ![slot[s].id] = slot[s].row] /\ touched' = touched /\ Exists(slot[s].id)
               /\ Identity(movies[slot[s].id]) = Identity(slot[s].row)
      <4>1. slot[s].row \in Movie /\ slot[s].row \notin {None, Gone}
        BY <2>5, UpdateAt, RowAt, CatalogueAssumption DEF SaveTitleBack
      <4> QED BY <2>3, <3>2, <4>1 DEF Lasting, Exists, TablesInv, Typed
    <3> QED BY <2>4, <2>5, <3>1, <3>2 DEF SaveTitleBack
  <2>6. CASE CascadePremium(s)
    BY <2>3, <2>6, CascadeKeeps DEF Lasting, CascadePremium
  <2>7. CASE LoadTitle(s) \/ CheckTitle(s) \/ ReadParent(s)
    BY <1>1, <2>3, <2>7 DEF LoadTitle, CheckTitle, ReadParent
  <2> QED BY <1>4, <2>5, <2>6, <2>7 DEF UpdateStep
<1>5. ASSUME NEW s \in Slots, SaveProvider(s) \/ ListStep(s) \/ Die(s) PROVE Progress'
  <2>1. UNCHANGED <<movies, touched>>
    BY <1>5 DEF SaveProvider, ListStep, AddToMyList, SaveItem, RemoveFromMyList, Die
  <2>2. slot'[s].kind # "importOne"
    BY <1>5, SaveProviderKeeps, ListsKeep, DieKeeps, KindsApart DEF ListStep, Imports
  <2> QED BY <1>1, <1>5, <2>1, <2>2, OthersStay, OneGoesOn DEF GoesOn
<1>6. ASSUME UNCHANGED slot, touched' = touched \cup Importing PROVE Progress'
  BY <1>6, NoneGoesOn DEF Importing
<1>7. ASSUME UNCHANGED <<movies, slot, touched>> PROVE Progress'
  BY <1>1, <1>7, ProgressKept DEF GoesOn
<1> QED BY <1>2, <1>3, <1>4, <1>5, <1>6, <1>7
    DEF Next, Begins, ImportStep, UpdateStep, ListStep, AdminDelete, DeleteProvider, CreateProvider, DeleteMovies

LEMMA CatalogueStep == CatalogueInv /\ [Next]_vars => CatalogueInv'
<1> SUFFICES ASSUME CatalogueInv, [Next]_vars PROVE CatalogueInv'
  OBVIOUS
<1>1. CASE Next
  BY <1>1, TablesStep, ProgressStep DEF CatalogueInv
<1>2. CASE UNCHANGED vars
  <2>1. TablesInv'
    BY <1>2, SameTables, OthersKeep DEF CatalogueInv, vars, TablesInv, Typed
  <2>2. SerialInv'
    BY <1>2, <2>1, AsideSerial DEF CatalogueInv, vars, Aside
  <2>3. Progress'
    BY <1>2, ProgressKept DEF CatalogueInv, vars, GoesOn, Lasting, Exists
  <2> QED BY <2>1, <2>2, <2>3 DEF CatalogueInv
<1> QED BY <1>1, <1>2

LEMMA CatalogueCorrect == Spec => []CatalogueInv
BY CatalogueInit, CatalogueStep, PTL DEF Spec

\* Once no update of a title is under way, every episode is premium exactly
\* when its series is, whatever was imported, renamed or deleted; but for
\* updates that overlapped, or died between their two writes.
THEOREM EpisodesFollow == Spec => []EpisodesFollowSeries
<1>1. CatalogueInv => EpisodesFollowSeries
  BY DEF CatalogueInv, SerialInv, EpisodesFollowSeries, Excused, Updates
<1> QED BY <1>1, CatalogueCorrect, PTL

\* What a request can end with: an import by one of its own steps, and the
\* adding to a list by one of its two.
LEMMA EndsByItself ==
  ASSUME TablesInv, [Next]_vars, NEW s \in Slots, slot'[s].step = "ok", slot[s].kind # None
  PROVE  /\ slot[s].kind = "importOne" => ImportStep(s)
         /\ slot[s].kind = "addToMyList" => ListStep(s)
<1>1. slot'[s] # slot[s]
  BY StepOfKind DEF Free
<1>2. ASSUME NEW t \in Slots,
             Begins(t) \/ ImportStep(t) \/ UpdateStep(t) \/ SaveProvider(t) \/ ListStep(t) \/ Die(t)
      PROVE  t = s
  BY <1>1, <1>2, OthersStay
<1>3. ~Begins(s) /\ ~Die(s)
  BY BeginsFree DEF Die, Finish, Idle, TablesInv, Typed
<1>4. UpdateStep(s) => slot[s].kind \in Updates
  BY StepOfKind DEF UpdateStep, LoadTitle, CheckTitle, ReadParent, SaveTitleBack, CascadePremium
<1>5. SaveProvider(s) => slot[s].kind = "updateProvider"
  BY DEF SaveProvider
<1>6. ImportStep(s) => slot[s].kind \in Imports
  BY ImportSteps
<1>7. ListStep(s) => slot[s].kind \in {"addToMyList", "removeFromMyList"}
  BY DEF ListStep, AddToMyList, SaveItem, RemoveFromMyList
<1>8. slot' # slot
  BY <1>1
<1> QED BY <1>2, <1>3, <1>4, <1>5, <1>6, <1>7, <1>8, KindsApart
    DEF Next, Begins, ImportStep, UpdateStep, ListStep, vars, AdminDelete, DeleteProvider, CreateProvider, Imports

\* An import from one provider that reports success left no title of its feed
\* out, unless a title was deleted or renamed meanwhile.
THEOREM ImportCovers == Spec => ImportComplete
<1>1. CatalogueInv /\ [Next]_vars =>
        [\A s \in Slots :
           LET r == slot[s] IN
           /\ r.kind = "importOne" /\ slot'[s].step = "ok" /\ s \notin touched
           => \A i \in DOMAIN r.whole : \E id \in Ids :
                /\ Exists(id) /\ movies[id].contentType = "FILM"
                /\ movies[id].providerId = r.id /\ movies[id].providerTitleId = r.whole[i]]_vars
  <2> SUFFICES ASSUME CatalogueInv, [Next]_vars, NEW s \in Slots, slot[s].kind = "importOne",
                      slot'[s].step = "ok", s \notin touched, NEW i \in DOMAIN slot[s].whole
               PROVE  InCatalogue(slot[s].id, slot[s].whole[i])
    BY DEF InCatalogue
  <2>1. TablesInv /\ slot[s].kind \in Imports /\ slot[s].kind # None
    BY KindsApart DEF CatalogueInv, Imports
  <2>2. ImportStep(s)
    BY <2>1, EndsByItself
  <2>3. CASE slot[s].feed = <<>>
    BY <2>3 DEF CatalogueInv, Progress
  <2>4. CASE slot[s].step = "next"
    <3>1. slot[s].whole = <<>>
      BY <2>1, <2>4, StepOfKind DEF RequestOK, ImportOK
    <3> QED BY <3>1
  <2> QED BY <2>1, <2>2, <2>3, <2>4, ImportSteps
<1> QED BY <1>1, CatalogueCorrect, PTL DEF Spec, ImportComplete

\* A title that somebody added, or an episode of it, is said to be on their
\* list straight away.
THEOREM ListingFound == Spec => ListedIsFound
<1>1. CatalogueInv /\ [Next]_vars =>
        [\A s \in Slots, profile \in Profiles, id \in Ids :
           /\ slot[s].kind = "addToMyList" /\ slot'[s].step = "ok"
           /\ slot[s].profile = profile /\ slot[s].id = id /\ Exists(id)
           => IsInMyList(profile, id)']_vars
  <2> SUFFICES ASSUME CatalogueInv, [Next]_vars, NEW s \in Slots, NEW profile \in Profiles, NEW id \in Ids,
                      slot[s].kind = "addToMyList", slot'[s].step = "ok",
                      slot[s].profile = profile, slot[s].id = id, Exists(id)
               PROVE  IsInMyList(profile, id)'
    OBVIOUS
  <2>1. TablesInv /\ slot[s].kind # None
    BY CatalogueAssumption DEF CatalogueInv, Kinds
  <2>2. ListStep(s)
    BY <2>1, EndsByItself
  <2>3. movies' = movies /\ <<profile, TargetMovie(id)>> \in myList'
    BY <2>1, <2>2, ListsKeep DEF ListStep, FoundAfter
  <2> QED BY <2>3 DEF IsInMyList, TargetMovie, Exists
<1> QED BY <1>1, CatalogueCorrect, PTL DEF Spec, ListedIsFound
===============================================================================
