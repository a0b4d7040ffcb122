----------------------------- MODULE MCCatalogue -----------------------------
(***************************************************************************)
(* Catalogue with a small stock: a series, its episode and a film of a     *)
(* provider without a feed, next to the provider that has one.             *)
(***************************************************************************)
EXTENDS Catalogue

Row(type, p, t, series) == [contentType |-> type, providerId |-> p, providerTitleId |-> t,
                            seriesId |-> series, isPremium |-> FALSE]

MCInitialMovies ==
  [id \in Ids |-> CASE id = "series"  -> Row("SERIES", "other", "t1", None)
                    [] id = "episode" -> Row("EPISODE", "other", "t2", "series")
                    [] id = "film"    -> Row("FILM", "other", "t2", None)
                    [] OTHER          -> None]

MCInitialProviders ==
  [p \in Providers |-> IF p = "late" THEN None ELSE [isActive |-> TRUE, allrites |-> p = "feed"]]

MCFeeds == {<<"t1", "t2">>}
===============================================================================
