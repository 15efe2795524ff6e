------------------------------- MODULE Catalog -------------------------------
(***************************************************************************)
(* The requests of the catalog service: cards, which are movies or         *)
(* editions of movies, and the kinds of editions.  One action for each     *)
(* request that is one transaction up to its commit, and one for each      *)
(* patch of a PATCH request.  GET requests change nothing and are left     *)
(* out, as are notes, tmdb_id, fanart_id and release_year: a patch of them *)
(* only locks its row.                                                     *)
(***************************************************************************)
EXTENDS Transactions

CardRow(c) == <<"catalog_cards", c>>
MovieRow(c) == <<"catalog_movies", c>>
EditionRow(c) == <<"catalog_movie_editions", c>>
KindRow(k) == <<"catalog_movie_edition_kinds", k>>

IsMovie(v, c) == Has(v, "catalog_movies", c)
IsEdition(v, c) == Has(v, "catalog_movie_editions", c)

------------------------------------------------------------------------------
(* Cards (card.go).                                                        *)

NameTaken(n) == CardNamed(db, n) # {}

PostMovie(p, c, n) ==
  /\ n # EmptyName
  /\ ~NameTaken(n)
  /\ Post(p, "PostCard", c,
          Put(Put(db, "catalog_cards", c, n), "catalog_movies", c, Present),
          RowsOf("catalog_cards"), {CardRow(c), MovieRow(c)}, {})

PostMovieEdition(p, c, n, k, m) ==
  /\ n # EmptyName
  /\ ~NameTaken(n)
  /\ Has(db, "catalog_movie_edition_kinds", k)
  /\ IsMovie(db, m)
  /\ Post(p, "PostCard", c,
          Put(Put(db, "catalog_cards", c, n), "catalog_movie_editions", c,
              [kind_id |-> k, movie_card_id |-> m]),
          RowsOf("catalog_cards") \cup {KindRow(k), MovieRow(m)},
          {CardRow(c), EditionRow(c)}, {KindRow(k), MovieRow(m)})

DeleteCard(p, c) == Delete(p, CardRow(c), CascadeOfCard(db, c))

PatchCard(p, c) ==
  /\ Has(db, "catalog_cards", c)
  /\ Begin(p, "PatchCard", c, {CardRow(c), MovieRow(c), EditionRow(c)})

PatchCardName(p, n) ==
  /\ Patching(p, "PatchCard")
  /\ n # EmptyName
  /\ LET c == tx[p].id IN
     Patch(p, "PatchCard", Put(tx[p].view, "catalog_cards", c, n), {}, {CardRow(c)}, {})

PatchCardNote(p) ==
  /\ Patching(p, "PatchCard")
  /\ Patch(p, "PatchCard", tx[p].view, {}, {CardRow(tx[p].id)}, {})

PatchCardMovie(p) ==
  /\ Patching(p, "PatchCard")
  /\ IsMovie(tx[p].view, tx[p].id)
  /\ Patch(p, "PatchCard", tx[p].view, {}, {MovieRow(tx[p].id)}, {})

PatchCardMovieEdition(p, k) ==
  /\ Patching(p, "PatchCard")
  /\ LET c == tx[p].id IN
     /\ IsEdition(tx[p].view, c)
     /\ Has(tx[p].view, "catalog_movie_edition_kinds", k)
     /\ Patch(p, "PatchCard",
              [tx[p].view EXCEPT !.catalog_movie_editions[c].kind_id = k],
              {KindRow(k)}, {EditionRow(c)}, {KindRow(k)})

------------------------------------------------------------------------------
(* Kinds of editions (movie_edition_kind.go).                              *)

Defaults(v) ==
  {k \in Kinds : /\ Has(v, "catalog_movie_edition_kinds", k)
                 /\ v.catalog_movie_edition_kinds[k].is_default}

(* Mutant: the old default stays.                                          *)
UnsetDefault_Forgotten(v) == v

(* UPDATE ... SET is_default = FALSE WHERE is_default = TRUE               *)
UnsetDefault(v) ==
  [v EXCEPT !.catalog_movie_edition_kinds =
     [k \in Kinds |-> IF k \in Defaults(v) THEN [@[k] EXCEPT !.is_default = FALSE]
                                           ELSE @[k]]]

PostMovieEditionKind(p, k, n, isDefault) ==
  /\ n # EmptyName
  /\ KindNamed(db, n) = {}
  /\ Post(p, "PostMovieEditionKind", k,
          Put(IF isDefault THEN UnsetDefault(db) ELSE db,
              "catalog_movie_edition_kinds", k, [name |-> n, is_default |-> isDefault]),
          RowsOf("catalog_movie_edition_kinds"),
          {KindRow(k)} \cup (IF isDefault THEN {KindRow(d) : d \in Defaults(db)} ELSE {}),
          {})

(* The foreign key of the editions of this kind refuses its deletion.      *)
DeleteMovieEditionKind(p, k) ==
  /\ EditionsOfKind(db, k) = {}
  /\ Delete(p, KindRow(k), {r \in {KindRow(k)} : Has(db, r[1], r[2])})

(* Without the kind the first UPDATE changes no row and the request ends.  *)
PatchMovieEditionKind(p, k) ==
  /\ Has(db, "catalog_movie_edition_kinds", k)
  /\ Begin(p, "PatchMovieEditionKind", k, {KindRow(k)})

(* Neither the name nor whether it is taken is checked.                    *)
PatchKindName(p, n) ==
  /\ Patching(p, "PatchMovieEditionKind")
  /\ LET k == tx[p].id IN
     Patch(p, "PatchMovieEditionKind",
           [tx[p].view EXCEPT !.catalog_movie_edition_kinds[k].name = n],
           {}, {KindRow(k)}, {})

PatchKindIsDefault(p, isDefault) ==
  /\ Patching(p, "PatchMovieEditionKind")
  /\ LET k == tx[p].id
         v == IF isDefault THEN UnsetDefault(tx[p].view) ELSE tx[p].view
     IN  Patch(p, "PatchMovieEditionKind",
               [v EXCEPT !.catalog_movie_edition_kinds[k].is_default = isDefault],
               IF isDefault THEN RowsOf("catalog_movie_edition_kinds") ELSE {},
               {KindRow(k)} \cup
                 (IF isDefault THEN {KindRow(d) : d \in Defaults(tx[p].view)} ELSE {}),
               {})

------------------------------------------------------------------------------
CatalogNext(p) ==
  \/ \E c \in Cards :
       \/ \E n \in Names : PostMovie(p, c, n)
       \/ \E n \in Names, k \in Kinds, m \in Cards : PostMovieEdition(p, c, n, k, m)
       \/ DeleteCard(p, c)
       \/ PatchCard(p, c)
  \/ \E n \in Names : PatchCardName(p, n)
  \/ PatchCardNote(p)
  \/ PatchCardMovie(p)
  \/ \E k \in Kinds : PatchCardMovieEdition(p, k)
  \/ \E k \in Kinds :
       \/ \E n \in KindNames, b \in BOOLEAN : PostMovieEditionKind(p, k, n, b)
       \/ DeleteMovieEditionKind(p, k)
       \/ PatchMovieEditionKind(p, k)
  \/ \E n \in KindNames : PatchKindName(p, n)
  \/ \E b \in BOOLEAN : PatchKindIsDefault(p, b)

------------------------------------------------------------------------------
(* Properties.                                                             *)

(* Every card is a movie or an edition, not both, and every movie and      *)
(* every edition has its card (the cascades and triggers of the schema;    *)
(* PostCard inserts the card before it looks at the details).              *)
OneDetail ==
  \A c \in Cards :
    IF Has(db, "catalog_cards", c) THEN IsMovie(db, c) # IsEdition(db, c)
    ELSE ~IsMovie(db, c) /\ ~IsEdition(db, c)

(* An edition names an existing kind and an existing movie, also when they *)
(* are deleted while the request that names them is under way.             *)
EditionsComplete ==
  \A e \in Cards : IsEdition(db, e) =>
    /\ Has(db, "catalog_movie_edition_kinds", db.catalog_movie_editions[e].kind_id)
    /\ IsMovie(db, db.catalog_movie_editions[e].movie_card_id)

(* Two cards that were never renamed differ in more than case, and so do   *)
(* two kinds, although the schema has no such constraint and concurrent    *)
(* requests check the name before either inserts it.                       *)
UniqueNames ==
  /\ \A n \in Names : \A c, d \in CardNamed(db, n) \ renamed : c = d
  /\ \A n \in Names : \A j, k \in KindNamed(db, n) \ renamed : j = k

(* At most one kind is the default, without help from the unique index     *)
(* unique_default_true: concurrent requests never leave two.               *)
AtMostOneDefault == \A j, k \in Defaults(db) : j = k
=============================================================================
