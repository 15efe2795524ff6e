------------------------------- MODULE Schema --------------------------------
(***************************************************************************)
(* The tables of the catalog and of the media service                      *)
(* (migrations/000001_initial.up.sql): rows, foreign keys, cascades and    *)
(* triggers.  The tasks table is in TaskTable, media_dvds in DvdIngestion. *)
(*                                                                         *)
(* A table maps the ids that its rows can have to the row, or to NULL when *)
(* there is none.  Of a row the model keeps the columns that a constraint  *)
(* or a check of the services looks at; Present is a row with none.        *)
(***************************************************************************)
CONSTANTS
  Cards, Kinds, Media, Sets,  \* the ids that each table's sequence can give out
  Names, KindNames,           \* the names that requests give to cards and to kinds
  EmptyName,
  Lower,                      \* LOWER(name)
  NULL

Present == "present"

Keys ==
  [catalog_cards               |-> Cards,
   catalog_movies              |-> Cards,
   catalog_movie_edition_kinds |-> Kinds,
   catalog_movie_editions      |-> Cards,
   media_sets                  |-> Sets,
   media                       |-> Media,
   media_x_cards               |-> Media \X Cards,
   media_sets_x_cards          |-> Sets \X Cards]

Kind == [name : KindNames, is_default : BOOLEAN]
Edition == [kind_id : Kinds, movie_card_id : Cards]
Medium == [media_set_id : Sets \cup {NULL}]

ASSUME SchemaAssumption ==
  /\ EmptyName \in Names /\ KindNames \subseteq Names
  /\ Lower \in [Names -> Names]
  /\ NULL \notin Names \cup Sets \cup {Present} \cup Kind \cup Edition \cup Medium

Tables ==
  [catalog_cards               : [Cards -> Names \cup {NULL}],
   catalog_movies              : [Cards -> {Present, NULL}],
   catalog_movie_edition_kinds : [Kinds -> Kind \cup {NULL}],
   catalog_movie_editions      : [Cards -> Edition \cup {NULL}],
   media_sets                  : [Sets -> {Present, NULL}],
   media                       : [Media -> Medium \cup {NULL}],
   media_x_cards               : [Media \X Cards -> {Present, NULL}],
   media_sets_x_cards          : [Sets \X Cards -> {Present, NULL}]]

EmptyTables == [t \in DOMAIN Keys |-> [k \in Keys[t] |-> NULL]]

(* A row is named by its table and its key.                                *)
RowsOf(t) == {t} \X Keys[t]
Rows == UNION {RowsOf(t) : t \in DOMAIN Keys}

Has(v, t, k) == v[t][k] # NULL
Put(v, t, k, row) == [v EXCEPT ![t][k] = row]

(* v with the rows R as they are in w.                                     *)
Overwrite(v, w, R) ==
  [t \in DOMAIN Keys |-> [k \in Keys[t] |->
     IF <<t, k>> \in R THEN w[t][k] ELSE v[t][k]]]

------------------------------------------------------------------------------
(* Deletion.                                                               *)

(* The editions of movie c: ON DELETE CASCADE of movie_card_id.            *)
EditionsOf(v, c) ==
  {e \in Cards : /\ Has(v, "catalog_movie_editions", e)
                 /\ v.catalog_movie_editions[e].movie_card_id = c}

(* What goes with card c by the foreign keys on card_id.                   *)
RowsOfCard(c) ==
  {<<"catalog_cards", c>>, <<"catalog_movies", c>>, <<"catalog_movie_editions", c>>}
  \cup {<<"media_x_cards", <<m, c>>>> : m \in Media}
  \cup {<<"media_sets_x_cards", <<s, c>>>> : s \in Sets}

(* Mutant: there is no trigger that deletes the card of a deleted edition. *)
CascadeOfCard_NoTrigger(v, c) ==
  {r \in RowsOfCard(c) \cup {<<"catalog_movie_editions", e>> : e \in EditionsOf(v, c)} :
     Has(v, r[1], r[2])}

(* DELETE of a card: its own rows, and for a movie the editions of it,     *)
(* whose cards go by the trigger trg_delete_movie_edition_card.            *)
CascadeOfCard(v, c) ==
  {r \in UNION {RowsOfCard(d) : d \in {c} \cup EditionsOf(v, c)} : Has(v, r[1], r[2])}

CascadeOfMedia(v, m) ==
  {r \in {<<"media", m>>} \cup {<<"media_x_cards", <<m, c>>>> : c \in Cards} :
     Has(v, r[1], r[2])}

CascadeOfSet(v, s) ==
  {r \in {<<"media_sets", s>>} \cup {<<"media_sets_x_cards", <<s, c>>>> : c \in Cards} :
     Has(v, r[1], r[2])}

(* Foreign keys without ON DELETE: these rows refuse the deletion of the   *)
(* kind or the set that they name.                                         *)
EditionsOfKind(v, k) ==
  {e \in Cards : /\ Has(v, "catalog_movie_editions", e)
                 /\ v.catalog_movie_editions[e].kind_id = k}
MediaOfSet(v, s) ==
  {m \in Media : Has(v, "media", m) /\ v.media[m].media_set_id = s}

------------------------------------------------------------------------------
(* Names.                                                                  *)

(* The rows that WHERE LOWER(name) = LOWER($1) counts.                     *)
CardNamed(v, n) ==
  {c \in Cards : Has(v, "catalog_cards", c) /\ Lower[v.catalog_cards[c]] = Lower[n]}
KindNamed(v, n) ==
  {k \in Kinds : /\ Has(v, "catalog_movie_edition_kinds", k)
                 /\ Lower[v.catalog_movie_edition_kinds[k].name] = Lower[n]}
=============================================================================
