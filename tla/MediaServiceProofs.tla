------------------------- MODULE MediaServiceProofs --------------------------
(***************************************************************************)
(* Theorems about the catalog and the media service under overlapping      *)
(* transactions, for any numbers of clients, rows and patches.             *)
(*                                                                         *)
(* The invariant says of every open transaction what its commit would do   *)
(* to the tables as they are by then.  RowTx is about one row that it has  *)
(* written; it can be broken by nobody else, because nobody else can write *)
(* that row.  The rest of TxInv is about the transaction as a whole.       *)
(***************************************************************************)
EXTENDS MediaService, TransactionsProofs

LinkTables == {"media_x_cards", "media_sets_x_cards"}

IsDefault(v, r) == Val(v, r) # NULL /\ Val(v, r).is_default

(* The rows that transaction t inserts, if it is a POST request.           *)
IsNew(t, r) ==
  \/ t.op = "PostCard" /\ r \in {CardRow(t.id), MovieRow(t.id), EditionRow(t.id)}
  \/ t.op = "PostMovieEditionKind" /\ r = KindRow(t.id)
  \/ t.op = "PostMedia" /\ r = MediaRow(t.id)
  \/ t.op = "PostMediaSet" /\ r = SetRow(t.id)

(* Of r, a row that t has written, while the committed tables are d.       *)
RowStays(d, t, r) ==
  r[1] \notin LinkTables =>
    Val(t.view, r) # NULL /\ (Val(d, r) # NULL \/ IsNew(t, r))

RowEdition(d, t, r) ==
  r[1] = "catalog_movie_editions" =>
    /\ KindRow(Val(t.view, r).kind_id) \in t.shared
    /\ \/ MovieRow(Val(t.view, r).movie_card_id) \in t.shared
       \/ /\ Val(d, r) # NULL
          /\ Val(d, r).movie_card_id = Val(t.view, r).movie_card_id

RowMedia(d, t, r) ==
  r[1] = "media" =>
    /\ \/ Val(t.view, r).media_set_id = NULL
       \/ SetRow(Val(t.view, r).media_set_id) \in t.shared
       \/ /\ Val(d, r) # NULL
          /\ Val(d, r).media_set_id = Val(t.view, r).media_set_id
    /\ t.op = "PatchMediaSet" /\ SetRow(t.id) \notin t.shared =>
         Val(d, r) # NULL /\ Val(d, r).media_set_id = t.id

RowLink(d, t, r) ==
  r[1] \in LinkTables /\ Val(t.view, r) # NULL =>
    /\ CardRow(r[2][2]) \in t.shared
    /\ (IF r[1] = "media_x_cards" THEN MediaRow(r[2][1]) ELSE SetRow(r[2][1]))
         \in t.shared \cup t.wrote

RowKind(d, t, r) ==
  r[1] = "catalog_movie_edition_kinds" /\ Val(t.view, r).is_default =>
    /\ r = KindRow(t.id)
    /\ IsDefault(d, r) \/ RowsOf("catalog_movie_edition_kinds") \subseteq t.reads

RowTx(d, t, r) ==
  /\ RowStays(d, t, r)
  /\ RowEdition(d, t, r)
  /\ RowMedia(d, t, r)
  /\ RowLink(d, t, r)
  /\ RowKind(d, t, r)

------------------------------------------------------------------------------
(* Of an open transaction t, while the committed tables are d and the      *)
(* renamed cards and kinds ren.                                            *)

(* The row that a request for op and id is about.                          *)
IdTypes(t) ==
  /\ t.op \in {"PostCard", "PatchCard"} => t.id \in Cards
  /\ t.op \in {"PostMovieEditionKind", "PatchMovieEditionKind"} => t.id \in Kinds
  /\ t.op \in {"PostMedia", "PatchMedia"} => t.id \in Media
  /\ t.op \in {"PostMediaSet", "PatchMediaSet"} => t.id \in Sets

(* As long as it can go on, it sees what is committed, but for its own     *)
(* writes and for what it has missed.                                      *)
Snapshot(d, t) ==
  t.patches < MaxPatches =>
    \A r \in Rows : r \notin t.wrote \cup t.missed => Val(t.view, r) = Val(d, r)

NoLostUpdate(t) == t.wrote \cap t.missed = {}

SharedStay(d, t) ==
  \A r \in t.shared : r[1] \notin LinkTables /\ (Val(d, r) # NULL \/ r \in t.wrote)

Target(t) ==
  t.patches < MaxPatches =>
    /\ t.op = "PatchCard" => Val(t.view, CardRow(t.id)) # NULL
    /\ t.op = "PatchMovieEditionKind" => Val(t.view, KindRow(t.id)) # NULL
    /\ t.op = "PatchMedia" => Val(t.view, MediaRow(t.id)) # NULL
    /\ t.op = "PatchMediaSet" => Val(t.view, SetRow(t.id)) # NULL

NewCard(d, t) ==
  t.op = "PostCard" =>
    /\ CardRow(t.id) \in t.wrote
    /\ (MovieRow(t.id) \in t.wrote) # (EditionRow(t.id) \in t.wrote)
    /\ Val(d, CardRow(t.id)) = NULL

(* A new name that is in use by now cannot be committed.                   *)
NewCardName(d, ren, t) ==
  t.op = "PostCard" =>
    /\ RowsOf("catalog_cards") \subseteq t.reads
    /\ \A c \in Cards \ ren :
         /\ Val(d, CardRow(c)) # NULL
         /\ Lower[Val(d, CardRow(c))] = Lower[Val(t.view, CardRow(t.id))]
         => Doomed(t)

NewKindName(d, ren, t) ==
  t.op = "PostMovieEditionKind" =>
    /\ KindRow(t.id) \in t.wrote
    /\ RowsOf("catalog_movie_edition_kinds") \subseteq t.reads
    /\ \A k \in Kinds \ ren :
         /\ Val(d, KindRow(k)) # NULL
         /\ Lower[Val(d, KindRow(k)).name] = Lower[Val(t.view, KindRow(t.id)).name]
         => Doomed(t)

(* A transaction that makes another kind the default unsets every default  *)
(* there is, or cannot commit.                                             *)
NewDefault(d, t) ==
  /\ t.id \in Kinds /\ KindRow(t.id) \in t.wrote
  /\ Val(t.view, KindRow(t.id)).is_default
  /\ ~IsDefault(d, KindRow(t.id))
  => \/ Doomed(t)
     \/ \A k \in Kinds : IsDefault(d, KindRow(k)) => KindRow(k) \in t.wrote

(* A default that it does not see was set by one that had read every kind. *)
UnseenDefault(d, t) ==
  t.patches < MaxPatches =>
    \A k \in Kinds :
      IsDefault(d, KindRow(k)) /\ KindRow(k) \in t.missed =>
        \/ IsDefault(t.view, KindRow(k))
        \/ RowsOf("catalog_movie_edition_kinds") \ t.missed \subseteq t.seen

TxInv(d, ren, t) ==
  /\ t \in Transaction
  /\ \A r \in t.wrote : RowTx(d, t, r)
  /\ IdTypes(t)
  /\ Snapshot(d, t)
  /\ NoLostUpdate(t)
  /\ SharedStay(d, t)
  /\ Target(t)
  /\ NewCard(d, t)
  /\ NewCardName(d, ren, t)
  /\ NewKindName(d, ren, t)
  /\ NewDefault(d, t)
  /\ UnseenDefault(d, t)

(* Ids that are in the tables, or about to be, are used.                   *)
UsedIds ==
  /\ \A c \in Cards : Has(db, "catalog_cards", c) => c \in used
  /\ \A k \in Kinds : Has(db, "catalog_movie_edition_kinds", k) => k \in used
  /\ \A p \in Open : tx[p].op \in {"PostCard", "PostMovieEditionKind"} => tx[p].id \in used

DbInv ==
  /\ db \in Tables
  /\ OneDetail
  /\ EditionsComplete
  /\ LinksComplete
  /\ UniqueNames
  /\ AtMostOneDefault

ServiceInv ==
  /\ tx \in [Clients -> Transaction \cup {NULL}]
  /\ requests \in 0 .. MaxPatchRequests
  /\ used \subseteq Cards \cup Kinds \cup Media \cup Sets
  /\ renamed \subseteq used
  /\ DbInv
  /\ UsedIds
  /\ \A p, q \in Open : p # q => tx[p].wrote \cap tx[q].wrote = {}
  /\ \A p \in Open : TxInv(db, renamed, tx[p])

------------------------------------------------------------------------------
(* Rows by their names.                                                    *)

(* The names of rows are rows, and different tables have different rows.   *)
LEMMA RowNames ==
  /\ \A c \in Cards : /\ CardRow(c) \in Rows /\ MovieRow(c) \in Rows
                      /\ EditionRow(c) \in Rows
  /\ \A k \in Kinds : KindRow(k) \in Rows
  /\ \A m \in Media : MediaRow(m) \in Rows
  /\ \A s \in Sets : SetRow(s) \in Rows
  /\ \A m \in Media, c \in Cards : MediaLink(m, c) \in Rows
  /\ \A s \in Sets, c \in Cards : SetLink(s, c) \in Rows
BY RowsShape, KeysShape
   DEF TableNames, CardRow, MovieRow, EditionRow, KindRow, MediaRow, SetRow, MediaLink,
       SetLink

(* The rows of a table.                                                    *)
LEMMA RowsOfTable ==
  /\ RowsOf("catalog_cards") = {CardRow(c) : c \in Cards}
  /\ RowsOf("catalog_movie_edition_kinds") = {KindRow(k) : k \in Kinds}
BY KeysShape DEF RowsOf, CardRow, KindRow

(* What a table holds under a row's name.                                  *)
LEMMA ValNames ==
  ASSUME NEW v
  PROVE  /\ \A c : /\ Val(v, CardRow(c)) = v.catalog_cards[c]
                   /\ Val(v, MovieRow(c)) = v.catalog_movies[c]
                   /\ Val(v, EditionRow(c)) = v.catalog_movie_editions[c]
         /\ \A k : Val(v, KindRow(k)) = v.catalog_movie_edition_kinds[k]
         /\ \A m : Val(v, MediaRow(m)) = v.media[m]
         /\ \A s : Val(v, SetRow(s)) = v.media_sets[s]
         /\ \A m, c : Val(v, MediaLink(m, c)) = v.media_x_cards[<<m, c>>]
         /\ \A s, c : Val(v, SetLink(s, c)) = v.media_sets_x_cards[<<s, c>>]
BY DEF Val, CardRow, MovieRow, EditionRow, KindRow, MediaRow, SetRow, MediaLink, SetLink

(* What a row can be.                                                      *)
LEMMA ValTypes ==
  ASSUME NEW v \in Tables
  PROVE  /\ \A r \in Rows : Val(v, r) \in RowTypes[r[1]]
         /\ \A c \in Cards : /\ Val(v, CardRow(c)) \in Names \cup {NULL}
                             /\ Val(v, MovieRow(c)) \in {Present, NULL}
                             /\ Val(v, EditionRow(c)) \in Edition \cup {NULL}
         /\ \A k \in Kinds : Val(v, KindRow(k)) \in Kind \cup {NULL}
         /\ \A m \in Media : Val(v, MediaRow(m)) \in Medium \cup {NULL}
         /\ \A s \in Sets : Val(v, SetRow(s)) \in {Present, NULL}
<1>1. \A t \in TableNames : v[t] \in [Keys[t] -> RowTypes[t]]
  BY TablesShape
<1>2. \A r \in Rows : Val(v, r) \in RowTypes[r[1]]
  BY <1>1, RowsShape DEF Val
<1>3. /\ \A c : CardRow(c)[1] = "catalog_cards" /\ MovieRow(c)[1] = "catalog_movies"
                /\ EditionRow(c)[1] = "catalog_movie_editions"
      /\ \A k : KindRow(k)[1] = "catalog_movie_edition_kinds"
      /\ \A m : MediaRow(m)[1] = "media"
      /\ \A s : SetRow(s)[1] = "media_sets"
  BY DEF CardRow, MovieRow, EditionRow, KindRow, MediaRow, SetRow
<1> QED BY <1>2, <1>3, RowNames, TypesShape

------------------------------------------------------------------------------
(* What keeps the invariant of a transaction.                              *)

(* What is known of a row that is written stays true while the transaction *)
(* reads, writes and locks more, and nobody changes the row.               *)
LEMMA RowKeeps ==
  ASSUME NEW d, NEW e, NEW s, NEW t, NEW r,
         s.op = t.op, s.id = t.id,
         t.reads \subseteq s.reads, t.wrote \subseteq s.wrote, t.shared \subseteq s.shared,
         Val(s.view, r) = Val(t.view, r), Val(e, r) = Val(d, r), RowTx(d, t, r)
  PROVE  RowTx(e, s, r)
<1>1. RowStays(e, s, r)
  BY DEF RowTx, RowStays, IsNew
<1>2. RowEdition(e, s, r)
  BY DEF RowTx, RowEdition
<1>3. RowMedia(e, s, r)
  BY DEF RowTx, RowMedia
<1>4. RowLink(e, s, r)
  BY DEF RowTx, RowLink
<1>5. RowKind(e, s, r)
  BY DEF RowTx, RowKind, IsDefault
<1> QED BY <1>1, <1>2, <1>3, <1>4, <1>5 DEF RowTx

(* Settled does not touch the invariant.                                   *)
LEMMA FateKeeps ==
  ASSUME NEW d, NEW ren, NEW t, NEW s, TxInv(d, ren, t), SameFate(s, t)
  PROVE  TxInv(d, ren, s)
<1>1. Doomed(s) <=> Doomed(t)
  BY DEF SameFate, Doomed, Outdated
<1>2. /\ s \in Transaction
      /\ s.op = t.op /\ s.id = t.id /\ s.patches = t.patches
      /\ s.reads = t.reads /\ s.wrote = t.wrote /\ s.shared = t.shared
      /\ \A r \in t.wrote : Val(s.view, r) = Val(t.view, r)
      /\ s.missed \subseteq t.missed
      /\ t.patches < MaxPatches => s = t
  BY DEF SameFate
<1>3. ASSUME NEW r \in s.wrote
      PROVE  RowTx(d, s, r)
  BY <1>2, RowKeeps DEF TxInv
<1>4. IdTypes(s) /\ Snapshot(d, s) /\ NoLostUpdate(s) /\ SharedStay(d, s)
  BY <1>2 DEF TxInv, IdTypes, Snapshot, NoLostUpdate, SharedStay
<1>5. Target(s) /\ UnseenDefault(d, s)
  BY <1>2 DEF TxInv, Target, UnseenDefault
<1>6. NewCard(d, s)
  BY <1>2 DEF TxInv, NewCard
<1>7. NewCardName(d, ren, s)
  BY <1>1, <1>2 DEF TxInv, NewCard, NewCardName
<1>8. NewKindName(d, ren, s)
  BY <1>1, <1>2 DEF TxInv, NewKindName
<1>9. NewDefault(d, s)
  BY <1>1, <1>2 DEF TxInv, NewDefault
<1> QED BY <1>2, <1>3, <1>4, <1>5, <1>6, <1>7, <1>8, <1>9 DEF TxInv

(* What a commit does to the tables, as far as the others have to know:    *)
(* from d and ren to e and ten, reading rd and writing wr.                 *)
Discreet(d, e, ren, ten, rd, wr) ==
  /\ \A r \in Rows \ wr : Val(e, r) = Val(d, r)
  /\ \A c \in Cards \ ten : Val(e, CardRow(c)) # NULL =>
       \/ c \notin ren /\ Val(d, CardRow(c)) = Val(e, CardRow(c))
       \/ CardRow(c) \in wr /\ RowsOf("catalog_cards") \subseteq rd
  /\ \A k \in Kinds \ ten : Val(e, KindRow(k)) # NULL =>
       \/ /\ k \notin ren /\ Val(d, KindRow(k)) # NULL
          /\ Val(d, KindRow(k)).name = Val(e, KindRow(k)).name
       \/ KindRow(k) \in wr /\ RowsOf("catalog_movie_edition_kinds") \subseteq rd
  /\ \A k \in Kinds : IsDefault(e, KindRow(k)) =>
       \/ IsDefault(d, KindRow(k))
       \/ KindRow(k) \in wr /\ RowsOf("catalog_movie_edition_kinds") \subseteq rd

(* A commit of another that stays away from what t has written and locked  *)
(* keeps the invariant of t, once t has been told.                         *)
LEMMA WarnKeeps ==
  ASSUME NEW d, NEW e, NEW ren, NEW ten, NEW t, TxInv(d, ren, t),
         NEW rd \in SUBSET Rows, NEW wr \in SUBSET Rows, NEW outdated,
         wr \cap t.wrote = {},
         \A r \in t.shared : Val(e, r) # NULL \/ r \in t.wrote,
         Discreet(d, e, ren, ten, rd, wr)
  PROVE  TxInv(e, ten, Warned(t, rd, wr, outdated))
<1>0. PICK s : s = Warned(t, rd, wr, outdated)
  OBVIOUS
<1>1. /\ s \in Transaction
      /\ s.op = t.op /\ s.id = t.id /\ s.patches = t.patches /\ s.view = t.view
      /\ s.reads = t.reads /\ s.wrote = t.wrote /\ s.shared = t.shared
      /\ s.missed = t.missed \cup wr
      /\ s.seen = (t.seen \cup rd) \ (t.missed \cup wr)
  <2>1. t \in Transaction
    BY DEF TxInv
  <2>2. t.hot \cup (IF outdated THEN wr ELSE {}) \in SUBSET Rows
    BY <2>1 DEF Transaction
  <2> QED BY <1>0, <2>1, <2>2 DEF Warned, Transaction
<1>2. t.wrote \subseteq Rows /\ t.missed \subseteq Rows /\ t.wrote \cap t.missed = {}
  BY DEF TxInv, Transaction, NoLostUpdate
<1>3. \A r \in Rows \ wr : Val(e, r) = Val(d, r)
  BY DEF Discreet
<1>4. Doomed(t) => Doomed(s)
  BY <1>1, <1>2 DEF Doomed, Outdated
<1>5. ASSUME NEW r \in s.wrote
      PROVE  RowTx(e, s, r)
  BY <1>1, <1>2, <1>3, RowKeeps DEF TxInv
<1>6. IdTypes(s) /\ Target(s) /\ NoLostUpdate(s)
  BY <1>1, <1>2 DEF TxInv, IdTypes, Target, NoLostUpdate
<1>7. Snapshot(e, s)
  BY <1>1, <1>3 DEF TxInv, Snapshot
<1>8. SharedStay(e, s)
  BY <1>1 DEF TxInv, SharedStay
<1>9. NewCard(e, s)
  <2> SUFFICES ASSUME t.op = "PostCard"
               PROVE  NewCard(e, s)
    BY <1>1 DEF NewCard
  <2>1. CardRow(t.id) \in Rows \ wr
    BY <1>2 DEF TxInv, NewCard
  <2> QED BY <1>1, <1>3, <2>1 DEF TxInv, NewCard
<1>10. NewCardName(e, ten, s)
  <2> SUFFICES ASSUME t.op = "PostCard"
               PROVE  NewCardName(e, ten, s)
    BY <1>1 DEF NewCardName
  <2>1. CardRow(t.id) \in t.wrote /\ RowsOf("catalog_cards") \subseteq t.reads
    BY DEF TxInv, NewCard, NewCardName
  <2>2. ASSUME NEW c \in Cards \ ten, Val(e, CardRow(c)) # NULL,
               Lower[Val(e, CardRow(c))] = Lower[Val(t.view, CardRow(t.id))]
        PROVE  Doomed(s)
    <3>1. CASE c \notin ren /\ Val(d, CardRow(c)) = Val(e, CardRow(c))
      <4>1. Doomed(t)
        BY <2>2, <3>1 DEF TxInv, NewCardName
      <4> QED BY <1>4, <4>1
    <3>2. CASE CardRow(c) \in wr /\ RowsOf("catalog_cards") \subseteq rd
      <4>1. CardRow(c) \in s.reads \cap s.missed
        BY <1>1, <2>1, <3>2, RowsOfTable
      <4>2. CardRow(t.id) \in RowsOf("catalog_cards")
        BY RowsOfTable DEF TxInv, IdTypes
      <4>3. CardRow(t.id) \in s.wrote \cap s.seen
        BY <1>1, <1>2, <2>1, <3>2, <4>2
      <4> QED BY <4>1, <4>3 DEF Doomed, Outdated
    <3> QED BY <2>2, <3>1, <3>2 DEF Discreet
  <2> QED BY <1>1, <2>1, <2>2 DEF NewCardName
<1>11. NewKindName(e, ten, s)
  <2> SUFFICES ASSUME t.op = "PostMovieEditionKind"
               PROVE  NewKindName(e, ten, s)
    BY <1>1 DEF NewKindName
  <2>1. /\ KindRow(t.id) \in t.wrote
        /\ RowsOf("catalog_movie_edition_kinds") \subseteq t.reads
    BY DEF TxInv, NewKindName
  <2>2. ASSUME NEW k \in Kinds \ ten, Val(e, KindRow(k)) # NULL,
               Lower[Val(e, KindRow(k)).name] = Lower[Val(t.view, KindRow(t.id)).name]
        PROVE  Doomed(s)
    <3>1. CASE /\ k \notin ren /\ Val(d, KindRow(k)) # NULL
               /\ Val(d, KindRow(k)).name = Val(e, KindRow(k)).name
      <4>1. Doomed(t)
        BY <2>2, <3>1 DEF TxInv, NewKindName
      <4> QED BY <1>4, <4>1
    <3>2. CASE KindRow(k) \in wr /\ RowsOf("catalog_movie_edition_kinds") \subseteq rd
      <4>1. KindRow(k) \in s.reads \cap s.missed
        BY <1>1, <2>1, <3>2, RowsOfTable
      <4>2. KindRow(t.id) \in RowsOf("catalog_movie_edition_kinds")
        BY RowsOfTable DEF TxInv, IdTypes
      <4>3. KindRow(t.id) \in s.wrote \cap s.seen
        BY <1>1, <1>2, <2>1, <3>2, <4>2
      <4> QED BY <4>1, <4>3 DEF Doomed, Outdated
    <3> QED BY <2>2, <3>1, <3>2 DEF Discreet
  <2> QED BY <1>1, <2>1, <2>2 DEF NewKindName
<1>12. NewDefault(e, s)
  <2> SUFFICES ASSUME t.id \in Kinds, KindRow(t.id) \in t.wrote,
                      Val(t.view, KindRow(t.id)).is_default,
                      ~IsDefault(e, KindRow(t.id)),
                      NEW k \in Kinds, IsDefault(e, KindRow(k)), KindRow(k) \notin t.wrote
               PROVE  Doomed(s)
    BY <1>1 DEF NewDefault
  <2>1. Val(e, KindRow(t.id)) = Val(d, KindRow(t.id))
    BY <1>2, <1>3
  <2>2. ~IsDefault(d, KindRow(t.id))
    BY <2>1 DEF IsDefault
  <2>3. CASE IsDefault(d, KindRow(k))
    BY <1>4, <2>2, <2>3 DEF TxInv, NewDefault
  <2>4. CASE KindRow(k) \in wr /\ RowsOf("catalog_movie_edition_kinds") \subseteq rd
    <3>1. RowKind(d, t, KindRow(t.id))
      BY DEF TxInv, RowTx
    <3>2. RowsOf("catalog_movie_edition_kinds") \subseteq t.reads
      BY <2>2, <3>1 DEF RowKind, KindRow
    <3>3. KindRow(k) \in s.reads \cap s.missed
      BY <1>1, <2>4, <3>2, RowsOfTable
    <3>4. KindRow(t.id) \in s.wrote \cap s.seen
      BY <1>1, <1>2, <2>4, RowsOfTable
    <3> QED BY <3>3, <3>4 DEF Doomed, Outdated
  <2> QED BY <2>3, <2>4 DEF Discreet
<1>13. UnseenDefault(e, s)
  <2> SUFFICES ASSUME t.patches < MaxPatches, NEW k \in Kinds, IsDefault(e, KindRow(k)),
                      KindRow(k) \in t.missed \cup wr, ~IsDefault(t.view, KindRow(k))
               PROVE  RowsOf("catalog_movie_edition_kinds") \ s.missed \subseteq s.seen
    BY <1>1 DEF UnseenDefault
  <2>1. CASE RowsOf("catalog_movie_edition_kinds") \subseteq rd
    BY <1>1, <2>1
  <2>2. CASE IsDefault(d, KindRow(k)) /\ KindRow(k) \in t.missed
    <3>1. RowsOf("catalog_movie_edition_kinds") \ t.missed \subseteq t.seen
      BY <2>2 DEF TxInv, UnseenDefault
    <3> QED BY <1>1, <3>1
  <2>3. CASE IsDefault(d, KindRow(k)) /\ KindRow(k) \notin t.missed
    <3>1. KindRow(k) \in Rows /\ KindRow(k) \notin t.wrote
      BY <2>3, RowNames
    <3>2. Val(t.view, KindRow(k)) = Val(d, KindRow(k))
      BY <2>3, <3>1 DEF TxInv, Snapshot
    <3> QED BY <2>3, <3>2 DEF IsDefault
  <2> QED BY <2>1, <2>2, <2>3 DEF Discreet
<1> QED BY <1>0, <1>1, <1>5, <1>6, <1>7, <1>8, <1>9, <1>10, <1>11, <1>12, <1>13 DEF TxInv

PatchOps == {"PatchCard", "PatchMovieEditionKind", "PatchMedia", "PatchMediaSet"}

(* Transaction t after one more patch.                                     *)
Patched(t, v, rd, wr, sh) == Extended([t EXCEPT !.patches = @ + 1], v, rd, wr, sh)

AfterPatch(e, t, v, rd, wr, sh) ==
  /\ e \in Transaction
  /\ e.op = t.op /\ e.id = t.id /\ e.patches = t.patches + 1 /\ e.view = v
  /\ e.reads = t.reads \cup rd /\ e.wrote = t.wrote \cup wr
  /\ e.shared = t.shared \cup sh
  /\ e.missed = t.missed /\ e.seen = t.seen

(* The fields of a transaction after a patch.                              *)
LEMMA PatchedShape ==
  ASSUME NEW t \in Transaction, t.patches < MaxPatches,
         NEW v \in Tables, NEW rd \in SUBSET Rows, NEW wr \in SUBSET Rows,
         NEW sh \in SUBSET Rows
  PROVE  AfterPatch(Patched(t, v, rd, wr, sh), t, v, rd, wr, sh)
<1>1. t.patches + 1 \in 0 .. MaxPatches
  BY TransactionsAssumption DEF Transaction
<1> QED BY <1>1 DEF Patched, Extended, Transaction, AfterPatch

(* A patch that writes only wr, with the result v, of rows that nobody     *)
(* else has committed, and locks sh, rows that are there.                  *)
ProperPatch(d, t, v, rd, wr, sh) ==
  /\ t.op \in PatchOps /\ t.patches < MaxPatches
  /\ v \in Tables /\ rd \subseteq Rows /\ wr \subseteq Rows /\ sh \subseteq Rows
  /\ \A r \in Rows \ wr : Val(v, r) = Val(t.view, r)
  /\ wr \cap t.missed = {}
  /\ \A r \in sh : r[1] \notin LinkTables /\ (Val(d, r) # NULL \/ r \in t.wrote)

(* A patch keeps the invariant if what it writes is as RowTx says.         *)
LEMMA PatchKeeps ==
  ASSUME NEW d, NEW ren, NEW t, TxInv(d, ren, t),
         NEW v, NEW rd, NEW wr, NEW sh, ProperPatch(d, t, v, rd, wr, sh),
         NEW e, AfterPatch(e, t, v, rd, wr, sh),
         \A r \in wr : RowTx(d, e, r),
         (\A k \in Kinds : KindRow(k) \notin wr) \/ NewDefault(d, e)
  PROVE  TxInv(d, ren, e)
<1> USE TransactionsAssumption DEF ProperPatch
<1>1. /\ t \in Transaction
      /\ \A r \in t.wrote : RowTx(d, t, r)
  BY DEF TxInv
<1>2. /\ e \in Transaction
      /\ e.op = t.op /\ e.id = t.id /\ e.patches = t.patches + 1 /\ e.view = v
      /\ e.reads = t.reads \cup rd /\ e.wrote = t.wrote \cup wr
      /\ e.shared = t.shared \cup sh
      /\ e.missed = t.missed /\ e.seen = t.seen
  BY DEF AfterPatch
<1>3. ASSUME NEW r \in e.wrote
      PROVE  RowTx(d, e, r)
  <2>1. CASE r \notin wr
    <3>1. r \in t.wrote /\ r \in Rows
      BY <1>1, <1>2, <2>1 DEF Transaction
    <3>2. Val(e.view, r) = Val(t.view, r)
      BY <1>2, <2>1, <3>1
    <3>3. t.reads \subseteq e.reads /\ t.wrote \subseteq e.wrote /\ t.shared \subseteq e.shared
      BY <1>2
    <3> QED BY <1>1, <1>2, <3>1, <3>2, <3>3, RowKeeps
  <2> QED BY <2>1
<1>4. Snapshot(d, e) /\ NoLostUpdate(e) /\ IdTypes(e)
  <2>1. e.patches < MaxPatches => t.patches < MaxPatches
    OBVIOUS
  <2> QED BY <1>2, <2>1 DEF TxInv, Snapshot, NoLostUpdate, IdTypes
<1>5. SharedStay(d, e)
  BY <1>2 DEF TxInv, SharedStay
<1>6. Target(e)
  <2>1. ASSUME NEW r \in Rows, r[1] \notin LinkTables, Val(t.view, r) # NULL
        PROVE  Val(e.view, r) # NULL
    <3>1. CASE r \in wr
      BY <2>1, <3>1 DEF RowTx, RowStays
    <3>2. CASE r \notin wr
      BY <1>2, <2>1, <3>2
    <3> QED BY <3>1, <3>2
  <2>2. /\ \A c : CardRow(c)[1] \notin LinkTables
        /\ \A k : KindRow(k)[1] \notin LinkTables
        /\ \A m : MediaRow(m)[1] \notin LinkTables
        /\ \A s : SetRow(s)[1] \notin LinkTables
    BY DEF CardRow, KindRow, MediaRow, SetRow, LinkTables
  <2> QED BY <1>2, <2>1, <2>2, RowNames DEF TxInv, Target, IdTypes
<1>7. NewCard(d, e) /\ NewCardName(d, ren, e) /\ NewKindName(d, ren, e)
  BY <1>2 DEF NewCard, NewCardName, NewKindName, PatchOps
<1>8. UnseenDefault(d, e)
  <2> SUFFICES ASSUME e.patches < MaxPatches, NEW k \in Kinds, IsDefault(d, KindRow(k)),
                      KindRow(k) \in e.missed, ~IsDefault(e.view, KindRow(k))
               PROVE  RowsOf("catalog_movie_edition_kinds") \ e.missed \subseteq e.seen
    BY DEF UnseenDefault
  <2>1. KindRow(k) \in Rows /\ KindRow(k) \notin wr /\ KindRow(k) \in t.missed
    BY <1>2, RowNames
  <2>2. ~IsDefault(t.view, KindRow(k))
    BY <1>2, <2>1 DEF IsDefault
  <2> QED BY <1>2, <2>1, <2>2 DEF TxInv, UnseenDefault
<1>9. NewDefault(d, e)
  <2>1. CASE \A k \in Kinds : KindRow(k) \notin wr
    <3> SUFFICES ASSUME e.id \in Kinds, KindRow(e.id) \in e.wrote,
                        Val(e.view, KindRow(e.id)).is_default,
                        ~IsDefault(d, KindRow(e.id)), ~Doomed(e),
                        NEW k \in Kinds, IsDefault(d, KindRow(k))
                 PROVE  KindRow(k) \in e.wrote
      BY DEF NewDefault
    <3>1. KindRow(t.id) \in t.wrote /\ Val(e.view, KindRow(t.id)) = Val(t.view, KindRow(t.id))
      BY <1>1, <1>2, <2>1 DEF Transaction
    <3>2. ~Doomed(t)
      BY <1>2 DEF Doomed, Outdated
    <3> QED BY <1>2, <3>1, <3>2 DEF TxInv, NewDefault
  <2> QED BY <2>1
<1> QED BY <1>2, <1>3, <1>4, <1>5, <1>6, <1>7, <1>8, <1>9 DEF TxInv

------------------------------------------------------------------------------
(* Patches.                                                                *)

(* What the guards of a patch say of its rows.                             *)
PatchGuards(p, v, rd, wr, sh) ==
  LET t == tx[p] IN
  /\ t.patches < MaxPatches
  /\ wr \cap t.missed = {}
  /\ \A q \in Open \ {p} : wr \cap tx[q].wrote = {}
  /\ \A r \in sh : Val(db, r) # NULL \/ r \in t.wrote
  /\ tx' = [tx EXCEPT ![p] = Settled(Patched(t, v, rd, wr, sh))]
  /\ UNCHANGED <<db, used, requests, renamed>>

(* A patch executes its statements under the guards of Writable and        *)
(* Referenced.                                                             *)
LEMMA PatchFacts ==
  ASSUME NEW p \in Clients, tx[p] \in Transaction, NEW op, NEW v, NEW rd, NEW wr, NEW sh,
         Patch(p, op, v, rd, wr, sh)
  PROVE  PatchGuards(p, v, rd, wr, sh)
<1>0. PICK t : t = [tx[p] EXCEPT !.patches = @ + 1]
  OBVIOUS
<1>1. t.missed = tx[p].missed /\ t.wrote = tx[p].wrote
  BY <1>0 DEF Transaction
<1>2. Execute(p, t, v, rd, wr, sh) /\ tx[p].patches < MaxPatches /\ used' = used
  BY <1>0 DEF Patch
<1>3. Settled([t EXCEPT !.view = v, !.reads = @ \cup rd, !.wrote = @ \cup wr,
                        !.shared = @ \cup sh]) = Settled(Patched(tx[p], v, rd, wr, sh))
  BY <1>0 DEF Patched, Extended
<1>4. tx' = [tx EXCEPT ![p] = Settled(Patched(tx[p], v, rd, wr, sh))]
  BY <1>2, <1>3 DEF Execute
<1>5. \A q \in Open \ {p} : wr \cap tx[q].wrote = {}
  BY <1>2 DEF Execute, Writable, OthersWrote
<1>6. wr \cap tx[p].missed = {}
  BY <1>1, <1>2 DEF Execute, Writable
<1>7. \A r \in sh : Val(db, r) # NULL \/ r \in tx[p].wrote
  BY <1>1, <1>2 DEF Execute, Referenced, Has, Val
<1> QED BY <1>2, <1>4, <1>5, <1>6, <1>7 DEF PatchGuards, Execute

(* A step in which one transaction goes on and the tables stay.            *)
LEMMA OneGoesOn ==
  ASSUME ServiceInv, NEW p \in Clients, NEW s,
         tx' = [tx EXCEPT ![p] = s], UNCHANGED <<db, renamed>>,
         s = NULL \/ (/\ TxInv(db, renamed, s)
                      /\ \A q \in Open \ {p} : s.wrote \cap tx[q].wrote = {}
                      /\ s.op \in {"PostCard", "PostMovieEditionKind"} => s.id \in used'),
         used \subseteq used', used' \subseteq Cards \cup Kinds \cup Media \cup Sets,
         requests' \in 0 .. MaxPatchRequests
  PROVE  ServiceInv'
<1>1. \A q \in Open' : \/ q = p /\ tx'[q] = s /\ s # NULL
                       \/ q # p /\ q \in Open /\ tx'[q] = tx[q]
  BY DEF Open, ServiceInv
<1>2. tx' \in [Clients -> Transaction \cup {NULL}]
  BY DEF ServiceInv, TxInv
<1>3. UsedIds'
  BY <1>1 DEF ServiceInv, UsedIds
<1>4. DbInv'
  BY DEF ServiceInv, DbInv, OneDetail, EditionsComplete, LinksComplete, UniqueNames,
         AtMostOneDefault, Has, IsMovie, IsEdition, CardNamed, KindNamed, Defaults
<1>5. \A q \in Open' : TxInv(db', renamed', tx'[q])
  BY <1>1 DEF ServiceInv
<1>6. \A q, u \in Open' : q # u => tx'[q].wrote \cap tx'[u].wrote = {}
  BY <1>1 DEF ServiceInv
<1> QED BY <1>2, <1>3, <1>4, <1>5, <1>6 DEF ServiceInv

(* A patch keeps the invariant.                                            *)
LEMMA PatchStep ==
  ASSUME ServiceInv, NEW p \in Clients, tx[p] # NULL,
         NEW v \in Tables, NEW rd \in SUBSET Rows, NEW wr \in SUBSET Rows,
         NEW sh \in SUBSET Rows, PatchGuards(p, v, rd, wr, sh), tx[p].op \in PatchOps,
         \A r \in Rows \ wr : Val(v, r) = Val(tx[p].view, r),
         \A r \in sh : r[1] \notin LinkTables,
         NEW e, e = Patched(tx[p], v, rd, wr, sh),
         \A r \in wr : RowTx(db, e, r),
         (\A k \in Kinds : KindRow(k) \notin wr) \/ NewDefault(db, e)
  PROVE  ServiceInv'
<1>1. TxInv(db, renamed, tx[p]) /\ tx[p] \in Transaction /\ p \in Open
  BY DEF ServiceInv, Open, TxInv
<1>2. AfterPatch(e, tx[p], v, rd, wr, sh)
  BY <1>1, PatchedShape DEF PatchGuards
<1>3. ProperPatch(db, tx[p], v, rd, wr, sh)
  BY DEF ProperPatch, PatchGuards
<1>4. TxInv(db, renamed, e)
  BY <1>1, <1>2, <1>3, PatchKeeps
<1>5. PICK s : s = Settled(e)
  OBVIOUS
<1>6. SameFate(s, e)
  BY <1>2, <1>5, SettledShape DEF AfterPatch
<1>7. TxInv(db, renamed, s)
  BY <1>4, <1>6, FateKeeps
<1>8. s.wrote = tx[p].wrote \cup wr /\ s.op = tx[p].op
  BY <1>2, <1>6 DEF SameFate, AfterPatch
<1>9. \A q \in Open \ {p} : s.wrote \cap tx[q].wrote = {}
  BY <1>1, <1>8 DEF PatchGuards, ServiceInv
<1>10. /\ tx' = [tx EXCEPT ![p] = s]
       /\ UNCHANGED <<db, used, requests, renamed>>
  BY <1>5 DEF PatchGuards
<1>11. s.op \notin {"PostCard", "PostMovieEditionKind"}
  BY <1>8 DEF PatchOps
<1> QED BY <1>7, <1>9, <1>10, <1>11, OneGoesOn DEF ServiceInv

(* A row that a patch may write is its own or is as committed.             *)
LEMMA PatchRow ==
  ASSUME NEW d, NEW ren, NEW t, TxInv(d, ren, t), t.op \in PatchOps,
         t.patches < MaxPatches, NEW r \in Rows, r \notin t.missed
  PROVE  /\ r \in t.wrote \/ Val(t.view, r) = Val(d, r)
         /\ r[1] \notin LinkTables /\ Val(t.view, r) # NULL => Val(d, r) # NULL
<1>1. r \in t.wrote \/ Val(t.view, r) = Val(d, r)
  BY DEF TxInv, Snapshot
<1>2. ASSUME r \in t.wrote, r[1] \notin LinkTables
      PROVE  Val(d, r) # NULL
  BY <1>2 DEF TxInv, RowTx, RowStays, IsNew, PatchOps
<1> QED BY <1>1, <1>2

(* What the tables of the rows are.                                        *)
LEMMA RowTables ==
  /\ \A c : /\ CardRow(c)[1] = "catalog_cards" /\ MovieRow(c)[1] = "catalog_movies"
            /\ EditionRow(c)[1] = "catalog_movie_editions"
  /\ \A k : KindRow(k)[1] = "catalog_movie_edition_kinds"
  /\ \A m : MediaRow(m)[1] = "media"
  /\ \A s : SetRow(s)[1] = "media_sets"
  /\ \A m, c : MediaLink(m, c)[1] = "media_x_cards"
  /\ \A s, c : SetLink(s, c)[1] = "media_sets_x_cards"
BY DEF CardRow, MovieRow, EditionRow, KindRow, MediaRow, SetRow, MediaLink, SetLink

(* What holds at the beginning of every patch.                             *)
LEMMA PatchBegins ==
  ASSUME ServiceInv, NEW p \in Clients, NEW op, Patching(p, op),
         NEW v, NEW rd, NEW wr, NEW sh, Patch(p, op, v, rd, wr, sh)
  PROVE  /\ tx[p] # NULL /\ p \in Open /\ tx[p] \in Transaction
         /\ tx[p].view \in Tables /\ db \in Tables
         /\ TxInv(db, renamed, tx[p])
         /\ tx[p].op = op /\ tx[p].patches < MaxPatches
         /\ IdTypes(tx[p]) /\ Target(tx[p])
         /\ PatchGuards(p, v, rd, wr, sh)
<1>1. tx[p] # NULL /\ p \in Open /\ tx[p].op = op
  BY DEF Patching, Open
<1>2. TxInv(db, renamed, tx[p]) /\ tx[p] \in Transaction /\ db \in Tables
  BY <1>1 DEF ServiceInv, TxInv, DbInv
<1>3. PatchGuards(p, v, rd, wr, sh)
  BY <1>2, PatchFacts
<1> QED BY <1>1, <1>2, <1>3 DEF PatchGuards, TxInv, Transaction

(* A patch that locks a row of these tables, and changes nothing that the  *)
(* model keeps of it.                                                      *)
LEMMA LockStep ==
  ASSUME ServiceInv, NEW p \in Clients, NEW op \in PatchOps, Patching(p, op), NEW r \in Rows,
         r[1] \in {"catalog_cards", "catalog_movies", "media", "media_sets"},
         r[1] = "media" => op = "PatchMedia",
         Val(tx[p].view, r) # NULL,
         Patch(p, op, tx[p].view, {}, {r}, {})
  PROVE  ServiceInv'
<1>1. /\ tx[p] # NULL /\ p \in Open /\ tx[p] \in Transaction
      /\ tx[p].view \in Tables /\ TxInv(db, renamed, tx[p])
      /\ tx[p].op = op /\ tx[p].patches < MaxPatches
      /\ PatchGuards(p, tx[p].view, {}, {r}, {})
  BY PatchBegins
<1>2. PICK e : e = Patched(tx[p], tx[p].view, {}, {r}, {})
  OBVIOUS
<1>3. AfterPatch(e, tx[p], tx[p].view, {}, {r}, {})
  BY <1>1, <1>2, PatchedShape
<1>4. r \notin tx[p].missed
  BY <1>1 DEF PatchGuards
<1>5. r[1] \notin LinkTables /\ Val(db, r) # NULL
  BY <1>1, <1>4, PatchRow DEF LinkTables
<1>6. RowTx(db, e, r)
  <2>1. CASE r \in tx[p].wrote
    <3>1. /\ e.op = tx[p].op /\ e.id = tx[p].id /\ Val(e.view, r) = Val(tx[p].view, r)
          /\ tx[p].reads \subseteq e.reads /\ tx[p].wrote \subseteq e.wrote
          /\ tx[p].shared \subseteq e.shared
      BY <1>3 DEF AfterPatch
    <3>2. RowTx(db, tx[p], r)
      BY <1>1, <2>1 DEF TxInv
    <3> QED BY <3>1, <3>2, RowKeeps
  <2>2. CASE r \notin tx[p].wrote
    <3>1. Val(tx[p].view, r) = Val(db, r)
      BY <1>1, <1>4, <2>2, PatchRow
    <3>2. e.op = op /\ e.view = tx[p].view
      BY <1>1, <1>3 DEF AfterPatch
    <3> QED BY <1>5, <3>1, <3>2
            DEF RowTx, RowStays, RowEdition, RowMedia, RowLink, RowKind, LinkTables
  <2> QED BY <2>1, <2>2
<1>7. \A k \in Kinds : KindRow(k) # r
  BY RowTables
<1> QED BY <1>1, <1>2, <1>6, <1>7, PatchStep

(* PatchCard: notes of a card and details of a movie.                      *)
LEMMA CardLocks ==
  ASSUME ServiceInv, NEW p \in Clients, PatchCardNote(p) \/ PatchCardMovie(p)
  PROVE  ServiceInv'
<1>1. CASE PatchCardNote(p)
  <2>1. Patching(p, "PatchCard") /\ Patch(p, "PatchCard", tx[p].view, {}, {CardRow(tx[p].id)}, {})
    BY <1>1 DEF PatchCardNote
  <2>2. /\ tx[p].op = "PatchCard" /\ tx[p].patches < MaxPatches
        /\ IdTypes(tx[p]) /\ Target(tx[p])
    BY <2>1, PatchBegins
  <2>3. CardRow(tx[p].id) \in Rows /\ Val(tx[p].view, CardRow(tx[p].id)) # NULL
    BY <2>2, RowNames DEF IdTypes, Target
  <2> QED BY <2>1, <2>3, LockStep, RowTables DEF PatchOps
<1>2. CASE PatchCardMovie(p)
  <2>1. Patching(p, "PatchCard") /\ Patch(p, "PatchCard", tx[p].view, {}, {MovieRow(tx[p].id)}, {})
    BY <1>2 DEF PatchCardMovie
  <2>2. tx[p].op = "PatchCard" /\ IdTypes(tx[p])
    BY <2>1, PatchBegins
  <2>3. MovieRow(tx[p].id) \in Rows /\ Val(tx[p].view, MovieRow(tx[p].id)) # NULL
    BY <1>2, <2>2, RowNames DEF IdTypes, PatchCardMovie, IsMovie, Has, Val, MovieRow
  <2> QED BY <2>1, <2>3, LockStep, RowTables DEF PatchOps
<1> QED BY <1>1, <1>2

(* PatchMedia: the note; PatchMediaSet: name and note.                     *)
LEMMA MediaLocks ==
  ASSUME ServiceInv, NEW p \in Clients, PatchMediaNote(p) \/ PatchSetRow(p)
  PROVE  ServiceInv'
<1>1. CASE PatchMediaNote(p)
  <2>1. /\ Patching(p, "PatchMedia")
        /\ Patch(p, "PatchMedia", tx[p].view, {}, {MediaRow(tx[p].id)}, {})
    BY <1>1 DEF PatchMediaNote
  <2>2. /\ tx[p].op = "PatchMedia" /\ tx[p].patches < MaxPatches
        /\ IdTypes(tx[p]) /\ Target(tx[p])
    BY <2>1, PatchBegins
  <2>3. MediaRow(tx[p].id) \in Rows /\ Val(tx[p].view, MediaRow(tx[p].id)) # NULL
    BY <2>2, RowNames DEF IdTypes, Target
  <2> QED BY <2>1, <2>3, LockStep, RowTables DEF PatchOps
<1>2. CASE PatchSetRow(p)
  <2>1. /\ Patching(p, "PatchMediaSet")
        /\ Patch(p, "PatchMediaSet", tx[p].view, {}, {SetRow(tx[p].id)}, {})
    BY <1>2 DEF PatchSetRow
  <2>2. /\ tx[p].op = "PatchMediaSet" /\ tx[p].patches < MaxPatches
        /\ IdTypes(tx[p]) /\ Target(tx[p])
    BY <2>1, PatchBegins
  <2>3. SetRow(tx[p].id) \in Rows /\ Val(tx[p].view, SetRow(tx[p].id)) # NULL
    BY <2>2, RowNames DEF IdTypes, Target
  <2> QED BY <2>1, <2>3, LockStep, RowTables DEF PatchOps
<1> QED BY <1>1, <1>2

(* What a patch that puts row under r, where old was, must lock.           *)
PutGuards(op, id, r, old, row, sh) ==
  /\ r[1] \notin LinkTables => row # NULL /\ old # NULL
  /\ r[1] = "catalog_movie_editions" =>
       KindRow(row.kind_id) \in sh /\ row.movie_card_id = old.movie_card_id
  /\ r[1] = "media" =>
       /\ row.media_set_id = NULL \/ SetRow(row.media_set_id) \in sh
       /\ op = "PatchMediaSet" => SetRow(id) \in sh \/ old.media_set_id = id
  /\ r[1] \in LinkTables /\ row # NULL =>
       /\ CardRow(r[2][2]) \in sh
       /\ (IF r[1] = "media_x_cards" THEN MediaRow(r[2][1]) ELSE SetRow(r[2][1])) \in sh

(* A patch that puts one row.                                              *)
LEMMA PutStep ==
  ASSUME ServiceInv, NEW p \in Clients, NEW op \in PatchOps, Patching(p, op),
         NEW tab \in TableNames, NEW key \in Keys[tab], NEW row \in RowTypes[tab],
         NEW rd \in SUBSET Rows, NEW sh \in SUBSET Rows,
         Patch(p, op, Put(tx[p].view, tab, key, row), rd, {<<tab, key>>}, sh),
         tab # "catalog_movie_edition_kinds",
         \A x \in sh : x[1] \notin LinkTables,
         PutGuards(op, tx[p].id, <<tab, key>>, Val(tx[p].view, <<tab, key>>), row, sh)
  PROVE  ServiceInv'
<1>0. PICK r, v, wr, t : /\ r = <<tab, key>> /\ v = Put(tx[p].view, tab, key, row)
                         /\ wr = {r} /\ t = tx[p]
  OBVIOUS
<1>1. /\ tx[p] # NULL /\ t \in Transaction /\ t.view \in Tables
      /\ TxInv(db, renamed, t) /\ t.op = op /\ t.patches < MaxPatches
      /\ PatchGuards(p, v, rd, wr, sh)
  BY <1>0, PatchBegins
<1>2. /\ v \in Tables /\ Val(v, r) = row
      /\ \A x \in Rows : x # r => Val(v, x) = Val(t.view, x)
  BY <1>0, <1>1, PutShape
<1>3. r \in Rows /\ r[1] = tab /\ wr \in SUBSET Rows
  BY <1>0, RowsShape
<1>4. PICK e : e = Patched(tx[p], v, rd, wr, sh)
  OBVIOUS
<1>5. AfterPatch(e, t, v, rd, wr, sh)
  BY <1>0, <1>1, <1>2, <1>3, <1>4, PatchedShape
<1>6. /\ e.op = op /\ e.id = t.id /\ e.view = v
      /\ e.shared = t.shared \cup sh /\ e.wrote = t.wrote \cup wr
  BY <1>1, <1>5 DEF AfterPatch
<1>7. r \notin t.missed
  BY <1>0, <1>1 DEF PatchGuards
<1>8. PICK old : old = Val(t.view, r)
  OBVIOUS
<1>9. PutGuards(op, t.id, r, old, row, sh)
  BY <1>0, <1>8
<1>10. /\ r \in t.wrote \/ Val(db, r) = old
       /\ r[1] \notin LinkTables /\ old # NULL => Val(db, r) # NULL
  BY <1>1, <1>3, <1>7, <1>8, PatchRow
<1>11. r \in t.wrote => RowTx(db, t, r)
  BY <1>1 DEF TxInv
<1>12. RowTx(db, e, r)
  <2>1. RowStays(db, e, r)
    BY <1>2, <1>6, <1>9, <1>10 DEF RowStays, PutGuards
  <2>2. RowEdition(db, e, r)
    <3> SUFFICES ASSUME r[1] = "catalog_movie_editions"
                 PROVE  RowEdition(db, e, r)
      BY DEF RowEdition
    <3>1. /\ KindRow(row.kind_id) \in sh /\ row.movie_card_id = old.movie_card_id
          /\ old # NULL /\ r[1] \notin LinkTables
      BY <1>9 DEF PutGuards, LinkTables
    <3>2. CASE r \in t.wrote
      <4>1. \/ MovieRow(old.movie_card_id) \in t.shared
            \/ Val(db, r) # NULL /\ Val(db, r).movie_card_id = old.movie_card_id
        BY <1>8, <1>11, <3>2 DEF RowTx, RowEdition
      <4> QED BY <1>2, <1>6, <3>1, <4>1 DEF RowEdition
    <3>3. CASE Val(db, r) = old
      BY <1>2, <1>6, <3>1, <3>3 DEF RowEdition
    <3> QED BY <1>10, <3>2, <3>3
  <2>3. RowMedia(db, e, r)
    <3> SUFFICES ASSUME r[1] = "media"
                 PROVE  RowMedia(db, e, r)
      BY DEF RowMedia
    <3>1. /\ row.media_set_id = NULL \/ SetRow(row.media_set_id) \in sh
          /\ op = "PatchMediaSet" => SetRow(t.id) \in sh \/ old.media_set_id = t.id
          /\ old # NULL
      BY <1>9 DEF PutGuards, LinkTables
    <3>2. ASSUME op = "PatchMediaSet", SetRow(t.id) \notin t.shared \cup sh
          PROVE  Val(db, r) # NULL /\ Val(db, r).media_set_id = t.id
      <4>1. CASE r \in t.wrote
        BY <1>1, <1>11, <3>2, <4>1 DEF RowTx, RowMedia
      <4>2. CASE Val(db, r) = old
        BY <3>1, <3>2, <4>2
      <4> QED BY <1>10, <4>1, <4>2
    <3> QED BY <1>2, <1>6, <3>1, <3>2 DEF RowMedia
  <2>4. RowLink(db, e, r)
    BY <1>2, <1>6, <1>9 DEF RowLink, PutGuards
  <2>5. RowKind(db, e, r)
    BY <1>3 DEF RowKind
  <2> QED BY <2>1, <2>2, <2>3, <2>4, <2>5 DEF RowTx
<1>13. \A k \in Kinds : KindRow(k) \notin wr
  BY <1>0, <1>3, RowTables
<1>14. \A x \in wr : RowTx(db, e, x)
  BY <1>0, <1>12
<1>15. \A x \in Rows \ wr : Val(v, x) = Val(tx[p].view, x)
  BY <1>0, <1>2
<1>16. tx[p].op \in PatchOps
  BY <1>0, <1>1
<1> QED BY <1>1, <1>2, <1>3, <1>4, <1>13, <1>14, <1>15, <1>16, PatchStep

(* PatchCard: the name.                                                    *)
LEMMA CardNameStep ==
  ASSUME ServiceInv, NEW p \in Clients, NEW n \in Names, PatchCardName(p, n)
  PROVE  ServiceInv'
<1>0. PICK c : c = tx[p].id
  OBVIOUS
<1>1. /\ Patching(p, "PatchCard")
      /\ Patch(p, "PatchCard", Put(tx[p].view, "catalog_cards", c, n), {},
               {<<"catalog_cards", c>>}, {})
  BY <1>0 DEF PatchCardName, CardRow
<1>2. /\ tx[p].op = "PatchCard" /\ tx[p].patches < MaxPatches
      /\ IdTypes(tx[p]) /\ Target(tx[p])
  BY <1>1, PatchBegins
<1>3. c \in Keys["catalog_cards"] /\ n \in RowTypes["catalog_cards"]
  BY <1>0, <1>2, KeysShape, TypesShape DEF IdTypes
<1>4. PutGuards("PatchCard", tx[p].id, <<"catalog_cards", c>>,
                Val(tx[p].view, <<"catalog_cards", c>>), n, {})
  BY <1>0, <1>2, SchemaAssumption DEF PutGuards, Target, CardRow, LinkTables
<1>5. PICK none \in SUBSET Rows : none = {}
  OBVIOUS
<1>6. \A x \in none : x[1] \notin LinkTables
  BY <1>5
<1>7. /\ Patch(p, "PatchCard", Put(tx[p].view, "catalog_cards", c, n), none,
               {<<"catalog_cards", c>>}, none)
      /\ PutGuards("PatchCard", tx[p].id, <<"catalog_cards", c>>,
                   Val(tx[p].view, <<"catalog_cards", c>>), n, none)
  BY <1>1, <1>4, <1>5
<1> QED BY <1>1, <1>3, <1>6, <1>7, PutStep DEF PatchOps, TableNames

(* PatchCard: the kind of an edition.                                      *)
LEMMA CardEditionStep ==
  ASSUME ServiceInv, NEW p \in Clients, NEW k \in Kinds, PatchCardMovieEdition(p, k)
  PROVE  ServiceInv'
<1>0. PICK c, t, old, row :
        /\ c = tx[p].id /\ t = tx[p] /\ old = t.view["catalog_movie_editions"][c]
        /\ row = [old EXCEPT !.kind_id = k]
  OBVIOUS
<1>1. /\ Patching(p, "PatchCard")
      /\ old # NULL
      /\ Patch(p, "PatchCard",
               [t.view EXCEPT !.catalog_movie_editions[c].kind_id = k],
               {KindRow(k)}, {EditionRow(c)}, {KindRow(k)})
  BY <1>0 DEF PatchCardMovieEdition, IsEdition, Has
<1>2. /\ t \in Transaction /\ t.view \in Tables
      /\ t.op = "PatchCard" /\ t.patches < MaxPatches /\ IdTypes(t)
  BY <1>0, <1>1, PatchBegins
<1>3. c \in Cards /\ KindRow(k) \in Rows
  BY <1>0, <1>2, RowNames DEF IdTypes
<1>4. old \in Edition
  BY <1>0, <1>1, <1>2, <1>3, ValTypes, ValNames
<1>5. row \in Edition /\ row.kind_id = k /\ row.movie_card_id = old.movie_card_id
  BY <1>0, <1>4 DEF Edition
<1>6. [t.view EXCEPT !.catalog_movie_editions[c].kind_id = k]
        = Put(t.view, "catalog_movie_editions", c, row)
  BY <1>0 DEF Put
<1>7. Patch(p, "PatchCard", Put(tx[p].view, "catalog_movie_editions", c, row),
            {KindRow(k)}, {<<"catalog_movie_editions", c>>}, {KindRow(k)})
  BY <1>0, <1>1, <1>6 DEF EditionRow
<1>8. c \in Keys["catalog_movie_editions"] /\ row \in RowTypes["catalog_movie_editions"]
  BY <1>3, <1>5, KeysShape, TypesShape
<1>9. PutGuards("PatchCard", tx[p].id, <<"catalog_movie_editions", c>>,
                Val(tx[p].view, <<"catalog_movie_editions", c>>), row, {KindRow(k)})
  BY <1>0, <1>1, <1>5, SchemaAssumption DEF PutGuards, Val, LinkTables
<1>10. \A x \in {KindRow(k)} : x[1] \notin LinkTables
  BY RowTables DEF LinkTables
<1>11. {KindRow(k)} \in SUBSET Rows
  BY <1>3
<1> QED BY <1>1, <1>7, <1>8, <1>9, <1>10, <1>11, PutStep DEF PatchOps, TableNames

(* PatchMedia: the set.                                                    *)
LEMMA MediaSetStep ==
  ASSUME ServiceInv, NEW p \in Clients,
         PatchMediaClearSetId(p) \/ \E s \in Sets \cup {NULL} : PatchMediaSetId(p, s)
  PROVE  ServiceInv'
<1>1. PICK s, named, rd :
        /\ s \in Sets \cup {NULL} /\ Patching(p, "PatchMedia")
        /\ named = {SetRow(x) : x \in {s} \ {NULL}} /\ rd \subseteq named
        /\ Patch(p, "PatchMedia", Put(tx[p].view, "media", tx[p].id, [media_set_id |-> s]),
                 rd, {MediaRow(tx[p].id)}, named)
  <2>1. CASE PatchMediaClearSetId(p)
    <3>1. {SetRow(x) : x \in {NULL} \ {NULL}} = {}
      OBVIOUS
    <3>2. /\ Patching(p, "PatchMedia")
          /\ Patch(p, "PatchMedia",
                   Put(tx[p].view, "media", tx[p].id, [media_set_id |-> NULL]),
                   {}, {MediaRow(tx[p].id)}, {SetRow(x) : x \in {NULL} \ {NULL}})
      BY <2>1, <3>1 DEF PatchMediaClearSetId
    <3> QED BY <3>2
  <2>2. ASSUME NEW s \in Sets \cup {NULL}, PatchMediaSetId(p, s)
        PROVE  /\ Patching(p, "PatchMedia")
               /\ Patch(p, "PatchMedia",
                        Put(tx[p].view, "media", tx[p].id, [media_set_id |-> s]),
                        {SetRow(x) : x \in {s} \ {NULL}}, {MediaRow(tx[p].id)},
                        {SetRow(x) : x \in {s} \ {NULL}})
    BY <2>2 DEF PatchMediaSetId
  <2> QED BY <2>1, <2>2
<1>2. PICK m, row : m = tx[p].id /\ row = [media_set_id |-> s]
  OBVIOUS
<1>3. /\ tx[p].op = "PatchMedia" /\ tx[p].patches < MaxPatches
      /\ IdTypes(tx[p]) /\ Target(tx[p])
  BY <1>1, PatchBegins
<1>4. m \in Keys["media"] /\ row \in Medium /\ row \in RowTypes["media"]
  BY <1>1, <1>2, <1>3, KeysShape, TypesShape DEF IdTypes, Medium
<1>5. /\ named \in SUBSET Rows /\ rd \in SUBSET Rows
      /\ \A x \in named : x[1] \notin LinkTables
      /\ s = NULL \/ SetRow(s) \in named
  BY <1>1, RowNames, RowTables DEF LinkTables
<1>6. row # NULL /\ row.media_set_id = s
  BY <1>2, <1>4, SchemaAssumption
<1>7. Val(tx[p].view, <<"media", m>>) # NULL
  BY <1>2, <1>3 DEF Target, MediaRow
<1>8. PutGuards("PatchMedia", tx[p].id, <<"media", m>>, Val(tx[p].view, <<"media", m>>),
                row, named)
  BY <1>5, <1>6, <1>7 DEF PutGuards, LinkTables
<1>9. Patch(p, "PatchMedia", Put(tx[p].view, "media", m, row), rd, {<<"media", m>>}, named)
  BY <1>1, <1>2 DEF MediaRow
<1> QED BY <1>1, <1>4, <1>5, <1>8, <1>9, PutStep DEF PatchOps, TableNames

(* PatchMediaSet: media that move into the set or leave it.                *)
LEMMA SetMediaStep ==
  ASSUME ServiceInv, NEW p \in Clients, NEW m \in Media,
         PatchSetAddMedia(p, m) \/ PatchSetRemoveMedia(p, m)
  PROVE  ServiceInv'
<1>1. PICK s \in {tx[p].id, NULL}, sh \in SUBSET {SetRow(tx[p].id)} :
        /\ Patching(p, "PatchMediaSet")
        /\ Has(tx[p].view, "media", m)
        /\ s = NULL \/ SetRow(s) \in sh
        /\ SetRow(tx[p].id) \in sh \/ tx[p].view.media[m].media_set_id = tx[p].id
        /\ Patch(p, "PatchMediaSet", Put(tx[p].view, "media", m, [media_set_id |-> s]),
                 {MediaRow(m)}, {MediaRow(m)}, sh)
  <2>1. CASE PatchSetAddMedia(p, m)
    BY <2>1 DEF PatchSetAddMedia
  <2>2. CASE PatchSetRemoveMedia(p, m)
    BY <2>2 DEF PatchSetRemoveMedia, MediaOfSet
  <2> QED BY <2>1, <2>2
<1>2. PICK row : row = [media_set_id |-> s]
  OBVIOUS
<1>3. tx[p].op = "PatchMediaSet" /\ IdTypes(tx[p])
  BY <1>1, PatchBegins
<1>4. m \in Keys["media"] /\ row \in Medium /\ row \in RowTypes["media"]
  BY <1>2, <1>3, KeysShape, TypesShape DEF IdTypes, Medium
<1>5. /\ sh \in SUBSET Rows /\ {MediaRow(m)} \in SUBSET Rows
      /\ \A x \in sh : x[1] \notin LinkTables
  BY <1>3, RowNames, RowTables DEF LinkTables, IdTypes
<1>6. row # NULL /\ row.media_set_id = s
  BY <1>2, <1>4, SchemaAssumption
<1>7. PutGuards("PatchMediaSet", tx[p].id, <<"media", m>>, Val(tx[p].view, <<"media", m>>),
                row, sh)
  BY <1>1, <1>6 DEF PutGuards, LinkTables, Has, Val
<1>8. Patch(p, "PatchMediaSet", Put(tx[p].view, "media", m, row), {MediaRow(m)},
            {<<"media", m>>}, sh)
  BY <1>1, <1>2 DEF MediaRow
<1> QED BY <1>1, <1>4, <1>5, <1>7, <1>8, PutStep DEF PatchOps, TableNames

(* The links of media and of sets, and what they belong to.                *)
OwnerRow(t, x) == IF t = "media_x_cards" THEN MediaRow(x) ELSE SetRow(x)

(* PatchMedia and PatchMediaSet: cards are linked and unlinked.            *)
LEMMA LinkStep ==
  ASSUME ServiceInv, NEW p \in Clients, NEW op, NEW t, NEW c \in Cards, Patching(p, op),
         \/ op = "PatchMedia" /\ t = "media_x_cards"
         \/ op = "PatchMediaSet" /\ t = "media_sets_x_cards",
         \/ AddCard(p, op, t, OwnerRow(t, tx[p].id), c)
         \/ RemoveCard(p, op, t, c)
  PROVE  ServiceInv'
<1>0. PICK link, owner : link = <<tx[p].id, c>> /\ owner = OwnerRow(t, tx[p].id)
  OBVIOUS
<1>1. PICK row \in {Present, NULL}, sh \in SUBSET {CardRow(c), owner},
           rd \in SUBSET {CardRow(c), <<t, link>>} :
        /\ row = NULL \/ sh = {CardRow(c), owner}
        /\ Patch(p, op, Put(tx[p].view, t, link, row), rd, {<<t, link>>}, sh)
  <2>1. CASE AddCard(p, op, t, OwnerRow(t, tx[p].id), c)
    BY <1>0, <2>1 DEF AddCard
  <2>2. CASE RemoveCard(p, op, t, c)
    BY <1>0, <2>2 DEF RemoveCard
  <2> QED BY <2>1, <2>2
<1>2. tx[p].op = op /\ IdTypes(tx[p])
  BY <1>1, PatchBegins
<1>3. /\ t \in TableNames /\ t \in LinkTables /\ link \in Keys[t] /\ row \in RowTypes[t]
      /\ op \in PatchOps
      /\ link[1] = tx[p].id /\ link[2] = c
  BY <1>0, <1>2, KeysShape, TypesShape DEF IdTypes, TableNames, LinkTables, PatchOps
<1>4. /\ owner = (IF t = "media_x_cards" THEN MediaRow(link[1]) ELSE SetRow(link[1]))
      /\ owner \in Rows /\ owner[1] \notin LinkTables
  BY <1>0, <1>2, <1>3, RowNames, RowTables DEF OwnerRow, IdTypes, LinkTables
<1>5. CardRow(c) \in Rows /\ CardRow(c)[1] \notin LinkTables /\ <<t, link>> \in Rows
  BY <1>3, RowNames, RowTables, RowsShape DEF LinkTables
<1>6. /\ sh \in SUBSET Rows /\ rd \in SUBSET Rows
      /\ \A x \in sh : x[1] \notin LinkTables
  BY <1>1, <1>4, <1>5
<1>7. t # "catalog_movie_editions" /\ t # "media" /\ t # "catalog_movie_edition_kinds"
  BY <1>3 DEF LinkTables
<1>8. PutGuards(op, tx[p].id, <<t, link>>, Val(tx[p].view, <<t, link>>), row, sh)
  BY <1>1, <1>3, <1>4, <1>7 DEF PutGuards
<1> QED BY <1>1, <1>3, <1>6, <1>7, <1>8, PutStep

------------------------------------------------------------------------------
(* Patches of kinds.                                                       *)

(* UnsetDefault changes the defaults and nothing else.                     *)
LEMMA UnsetShape ==
  ASSUME NEW v \in Tables
  PROVE  /\ UnsetDefault(v) \in Tables
         /\ \A r \in Rows : (\A k \in Defaults(v) : r # KindRow(k)) =>
              Val(UnsetDefault(v), r) = Val(v, r)
         /\ \A k \in Defaults(v) :
              Val(UnsetDefault(v), KindRow(k))
                = [Val(v, KindRow(k)) EXCEPT !.is_default = FALSE]
<1> DEFINE K == "catalog_movie_edition_kinds"
           row(k) == IF k \in Defaults(v) THEN [v[K][k] EXCEPT !.is_default = FALSE]
                     ELSE v[K][k]
           w == UnsetDefault(v)
<1>1. /\ v = [t \in TableNames |-> v[t]]
      /\ \A t \in TableNames : v[t] \in [Keys[t] -> RowTypes[t]]
  BY TablesShape
<1>2. K \in TableNames /\ Keys[K] = Kinds /\ RowTypes[K] = Kind \cup {NULL}
  BY KeysShape, TypesShape DEF TableNames
<1>3. w = [v EXCEPT ![K] = [k \in Kinds |-> row(k)]]
  BY DEF UnsetDefault
<1>4. \A k \in Kinds : row(k) \in Kind \cup {NULL}
  <2> SUFFICES ASSUME NEW k \in Kinds
               PROVE  row(k) \in Kind \cup {NULL}
    OBVIOUS
  <2>1. v[K][k] \in Kind \cup {NULL}
    BY <1>1, <1>2
  <2>2. CASE k \in Defaults(v)
    <3>1. v[K][k] \in Kind
      BY <2>1, <2>2 DEF Defaults, Has
    <3> QED BY <2>2, <3>1 DEF Kind
  <2>3. CASE k \notin Defaults(v)
    BY <2>1, <2>3
  <2> QED BY <2>2, <2>3
<1> HIDE DEF row, w
<1>5. /\ w = [t \in TableNames |-> w[t]]
      /\ w[K] = [k \in Kinds |-> row(k)]
      /\ \A t \in TableNames : t # K => w[t] = v[t]
  BY <1>1, <1>2, <1>3
<1>6. w[K] \in [Keys[K] -> RowTypes[K]]
  BY <1>2, <1>4, <1>5
<1>7. w \in Tables
  BY <1>1, <1>5, <1>6, TablesShape
<1>8. ASSUME NEW r \in Rows, \A k \in Defaults(v) : r # KindRow(k)
      PROVE  Val(w, r) = Val(v, r)
  <2>1. r = <<r[1], r[2]>> /\ r[1] \in TableNames /\ r[2] \in Keys[r[1]]
    BY RowsShape
  <2>2. CASE r[1] # K
    BY <1>5, <2>1, <2>2 DEF Val
  <2>3. CASE r[1] = K
    <3>1. r[2] \in Kinds /\ r = KindRow(r[2])
      BY <1>2, <2>1, <2>3 DEF KindRow
    <3>2. r[2] \notin Defaults(v)
      BY <1>8, <3>1
    <3>3. row(r[2]) = v[K][r[2]]
      BY <3>2 DEF row
    <3> QED BY <1>5, <2>3, <3>1, <3>3 DEF Val
  <2> QED BY <2>2, <2>3
<1>9. ASSUME NEW k \in Defaults(v)
      PROVE  Val(w, KindRow(k)) = [Val(v, KindRow(k)) EXCEPT !.is_default = FALSE]
  <2>1. k \in Kinds
    BY DEF Defaults
  <2>2. w[K][k] = [v[K][k] EXCEPT !.is_default = FALSE]
    BY <1>5, <2>1 DEF row
  <2> QED BY <2>2 DEF Val, KindRow
<1> QED BY <1>7, <1>8, <1>9 DEF w

(* The defaults of a table, by rows.                                       *)
LEMMA DefaultRows ==
  ASSUME NEW v
  PROVE  Defaults(v) = {k \in Kinds : IsDefault(v, KindRow(k))}
BY DEF Defaults, IsDefault, Has, Val, KindRow

(* PatchMovieEditionKind: the name, and the default when it is taken away: *)
(* the kind is put as row, which is a default only if it was one.          *)
LEMMA KindPutStep ==
  ASSUME ServiceInv, NEW p \in Clients, Patching(p, "PatchMovieEditionKind"),
         NEW row \in Kind,
         row.is_default => IsDefault(tx[p].view, KindRow(tx[p].id)),
         Patch(p, "PatchMovieEditionKind",
               Put(tx[p].view, "catalog_movie_edition_kinds", tx[p].id, row),
               {}, {KindRow(tx[p].id)}, {})
  PROVE  ServiceInv'
<1>0. PICK t, k, r, v, none, wr :
        /\ t = tx[p] /\ k = t.id /\ r = KindRow(k) /\ none = {} /\ wr = {r}
        /\ v = Put(t.view, "catalog_movie_edition_kinds", k, row)
  OBVIOUS
<1>1. /\ tx[p] # NULL /\ t \in Transaction /\ t.view \in Tables
      /\ TxInv(db, renamed, t) /\ t.op = "PatchMovieEditionKind" /\ t.patches < MaxPatches
      /\ IdTypes(t) /\ Target(t)
      /\ PatchGuards(p, v, none, wr, none)
  BY <1>0, PatchBegins
<1>2. /\ k \in Kinds /\ Val(t.view, r) # NULL /\ r = <<"catalog_movie_edition_kinds", k>>
      /\ r \in Rows
  BY <1>0, <1>1, RowNames DEF IdTypes, Target, KindRow
<1>3. /\ v \in Tables /\ Val(v, r) = row
      /\ \A x \in Rows : x # r => Val(v, x) = Val(t.view, x)
  <2>1. /\ "catalog_movie_edition_kinds" \in TableNames
        /\ k \in Keys["catalog_movie_edition_kinds"]
        /\ row \in RowTypes["catalog_movie_edition_kinds"]
    BY <1>2, KeysShape, TypesShape DEF TableNames
  <2> QED BY <1>0, <1>1, <1>2, <2>1, PutShape
<1>4. none \in SUBSET Rows /\ wr \in SUBSET Rows
  BY <1>0, <1>2
<1>5. PICK e : e = Patched(tx[p], v, none, wr, none)
  OBVIOUS
<1>6. AfterPatch(e, t, v, none, wr, none)
  BY <1>0, <1>1, <1>3, <1>4, <1>5, PatchedShape
<1>7. /\ e.op = t.op /\ e.id = k /\ e.view = v /\ e.reads = t.reads
      /\ e.wrote = t.wrote \cup {r} /\ e.missed = t.missed /\ e.seen = t.seen
  BY <1>0, <1>6 DEF AfterPatch
<1>8. r \notin t.missed /\ row # NULL
  BY <1>0, <1>1, SchemaAssumption DEF PatchGuards
<1>9. /\ r \in t.wrote \/ Val(t.view, r) = Val(db, r)
      /\ Val(db, r) # NULL
  <2>1. r[1] \notin LinkTables
    BY <1>2 DEF LinkTables
  <2> QED BY <1>1, <1>2, <1>8, <2>1, PatchRow DEF PatchOps
<1>10. row.is_default => Val(t.view, r).is_default
  BY <1>0 DEF IsDefault
<1>11. RowTx(db, e, r)
  <2>1. RowStays(db, e, r) /\ RowEdition(db, e, r) /\ RowMedia(db, e, r) /\ RowLink(db, e, r)
    BY <1>2, <1>3, <1>7, <1>8, <1>9 DEF RowStays, RowEdition, RowMedia, RowLink, LinkTables
  <2>2. ASSUME row.is_default
        PROVE  \/ IsDefault(db, r)
               \/ RowsOf("catalog_movie_edition_kinds") \subseteq e.reads
    <3>1. CASE r \in t.wrote
      BY <1>1, <1>2, <1>7, <1>10, <2>2, <3>1 DEF TxInv, RowTx, RowKind
    <3>2. CASE Val(t.view, r) = Val(db, r)
      BY <1>9, <1>10, <2>2, <3>2 DEF IsDefault
    <3> QED BY <1>9, <3>1, <3>2
  <2>3. RowKind(db, e, r)
    BY <1>0, <1>3, <1>7, <2>2 DEF RowKind
  <2> QED BY <2>1, <2>3 DEF RowTx
<1>12. NewDefault(db, e)
  <2> SUFFICES ASSUME row.is_default, ~IsDefault(db, r), ~Doomed(e),
                      NEW j \in Kinds, IsDefault(db, KindRow(j))
               PROVE  KindRow(j) \in e.wrote
    BY <1>0, <1>3, <1>7 DEF NewDefault
  <2>1. r \in t.wrote
    BY <1>9, <1>10 DEF IsDefault
  <2>2. ~Doomed(t)
    BY <1>7 DEF Doomed, Outdated
  <2> QED BY <1>0, <1>1, <1>2, <1>7, <1>10, <2>1, <2>2 DEF TxInv, NewDefault
<1>13. /\ \A x \in wr : RowTx(db, e, x)
       /\ \A x \in none : x[1] \notin LinkTables
       /\ \A x \in Rows \ wr : Val(v, x) = Val(tx[p].view, x)
       /\ tx[p].op \in PatchOps
  BY <1>0, <1>1, <1>3, <1>11 DEF PatchOps
<1> QED BY <1>1, <1>3, <1>4, <1>5, <1>12, <1>13, PatchStep

(* PatchMovieEditionKind: a kind becomes the default.                      *)
LEMMA KindDefaultStep ==
  ASSUME ServiceInv, NEW p \in Clients, PatchKindIsDefault(p, TRUE)
  PROVE  ServiceInv'
<1>0. PICK t, k, r, u, v, none, rd, wr :
        /\ t = tx[p] /\ k = t.id /\ r = KindRow(k) /\ none = {}
        /\ u = UnsetDefault(t.view)
        /\ v = [u EXCEPT !.catalog_movie_edition_kinds[k].is_default = TRUE]
        /\ rd = RowsOf("catalog_movie_edition_kinds")
        /\ wr = {r} \cup {KindRow(d) : d \in Defaults(t.view)}
  OBVIOUS
<1>1. Patching(p, "PatchMovieEditionKind") /\ Patch(p, "PatchMovieEditionKind", v, rd, wr, none)
  BY <1>0 DEF PatchKindIsDefault
<1>2. /\ tx[p] # NULL /\ t \in Transaction /\ t.view \in Tables
      /\ TxInv(db, renamed, t) /\ t.op = "PatchMovieEditionKind" /\ t.patches < MaxPatches
      /\ IdTypes(t) /\ Target(t)
      /\ PatchGuards(p, v, rd, wr, none)
  BY <1>0, <1>1, PatchBegins
<1>3. /\ k \in Kinds /\ Val(t.view, r) # NULL /\ r = <<"catalog_movie_edition_kinds", k>>
      /\ r \in Rows
  BY <1>0, <1>2, RowNames DEF IdTypes, Target, KindRow
<1>4. /\ u \in Tables
      /\ \A x \in Rows : (\A d \in Defaults(t.view) : x # KindRow(d)) => Val(u, x) = Val(t.view, x)
      /\ \A d \in Defaults(t.view) :
           Val(u, KindRow(d)) = [Val(t.view, KindRow(d)) EXCEPT !.is_default = FALSE]
  BY <1>0, <1>2, UnsetShape
<1>5. Val(t.view, r) \in Kind /\ \A d \in Defaults(t.view) : Val(t.view, KindRow(d)) \in Kind
  BY <1>0, <1>2, <1>3, ValTypes, DefaultRows DEF IsDefault
<1>6. \A d \in Defaults(t.view) :
        Val(u, KindRow(d)) \in Kind /\ Val(u, KindRow(d)).is_default = FALSE
  BY <1>4, <1>5 DEF Kind
<1>7. Val(u, r) \in Kind
  BY <1>0, <1>3, <1>4, <1>5, <1>6
<1>8. PICK row : row = [Val(u, r) EXCEPT !.is_default = TRUE]
  OBVIOUS
<1>9. row \in Kind /\ row.is_default = TRUE /\ row # NULL
  <2>1. row \in Kind /\ row.is_default = TRUE
    BY <1>7, <1>8 DEF Kind
  <2> QED BY <2>1, SchemaAssumption
<1>10. v = Put(u, "catalog_movie_edition_kinds", k, row)
  BY <1>0, <1>3, <1>8 DEF Put, Val
<1>11. /\ v \in Tables /\ Val(v, r) = row
       /\ \A x \in Rows : x # r => Val(v, x) = Val(u, x)
  <2>1. /\ "catalog_movie_edition_kinds" \in TableNames
        /\ k \in Keys["catalog_movie_edition_kinds"]
        /\ row \in RowTypes["catalog_movie_edition_kinds"]
    BY <1>3, <1>9, KeysShape, TypesShape DEF TableNames
  <2> QED BY <1>3, <1>4, <1>10, <2>1, PutShape
<1>12. none \in SUBSET Rows /\ wr \in SUBSET Rows /\ rd \in SUBSET Rows
  BY <1>0, <1>3, RowNames, RowsOfTable DEF Defaults
<1>13. PICK e : e = Patched(tx[p], v, rd, wr, none)
  OBVIOUS
<1>14. AfterPatch(e, t, v, rd, wr, none)
  BY <1>0, <1>2, <1>11, <1>12, <1>13, PatchedShape
<1>15. /\ e.op = t.op /\ e.id = k /\ e.view = v /\ e.reads = t.reads \cup rd
       /\ e.wrote = t.wrote \cup wr /\ e.missed = t.missed /\ e.seen = t.seen
  BY <1>0, <1>14 DEF AfterPatch
<1>16. wr \cap t.missed = {}
  BY <1>0, <1>2 DEF PatchGuards
<1>17. ASSUME NEW x \in wr
       PROVE  RowTx(db, e, x)
  <2>1. PICK d \in Kinds : x = KindRow(d) /\ (d = k \/ d \in Defaults(t.view))
    BY <1>0, <1>3 DEF Defaults
  <2>2. x[1] = "catalog_movie_edition_kinds" /\ x \in Rows /\ x[1] \notin LinkTables
    BY <2>1, RowNames, RowTables DEF LinkTables
  <2>3. Val(t.view, x) # NULL
    BY <1>0, <1>3, <2>1, DefaultRows DEF IsDefault
  <2>4. Val(db, x) # NULL
    BY <1>2, <1>16, <2>2, <2>3, PatchRow DEF PatchOps
  <2>5. /\ x # r => Val(v, x) \in Kind /\ Val(v, x).is_default = FALSE
        /\ Val(v, x) # NULL
    <3>1. CASE x = r
      BY <1>9, <1>11, <3>1
    <3>2. CASE x # r
      <4>1. Val(v, x) = Val(u, x) /\ d \in Defaults(t.view)
        BY <1>0, <1>11, <2>1, <2>2, <3>2
      <4>2. Val(v, x) \in Kind /\ Val(v, x).is_default = FALSE
        BY <1>6, <2>1, <4>1
      <4> QED BY <4>2, SchemaAssumption
    <3> QED BY <3>1, <3>2
  <2>6. RowStays(db, e, x) /\ RowEdition(db, e, x) /\ RowMedia(db, e, x) /\ RowLink(db, e, x)
    BY <1>15, <2>2, <2>4, <2>5 DEF RowStays, RowEdition, RowMedia, RowLink
  <2>7. RowKind(db, e, x)
    BY <1>0, <1>15, <2>5 DEF RowKind
  <2> QED BY <2>6, <2>7 DEF RowTx
<1>18. NewDefault(db, e)
  <2> SUFFICES ASSUME NEW j \in Kinds, IsDefault(db, KindRow(j)), KindRow(j) \notin e.wrote
               PROVE  Doomed(e)
    BY DEF NewDefault
  <2>1. KindRow(j) \in Rows /\ KindRow(j) \in rd
    BY <1>0, RowNames, RowsOfTable
  <2>2. ~IsDefault(t.view, KindRow(j))
    BY <1>0, <1>15, DefaultRows
  <2>3. KindRow(j) \in t.missed
    <3>1. KindRow(j) \notin t.wrote /\ Val(t.view, KindRow(j)) # Val(db, KindRow(j))
      BY <1>15, <2>2 DEF IsDefault
    <3> QED BY <1>2, <2>1, <3>1, PatchRow DEF PatchOps
  <2>4. rd \ t.missed \subseteq t.seen
    BY <1>0, <1>2, <2>2, <2>3 DEF TxInv, UnseenDefault
  <2>5. r \in e.wrote \cap e.seen
    <3>1. r \in rd /\ r \in wr
      BY <1>0, <1>3, RowsOfTable
    <3> QED BY <1>15, <1>16, <2>4, <3>1
  <2>6. KindRow(j) \in e.reads \cap e.missed
    BY <1>15, <2>1, <2>3
  <2> QED BY <2>5, <2>6 DEF Doomed, Outdated
<1>19. /\ \A x \in none : x[1] \notin LinkTables
       /\ \A x \in Rows \ wr : Val(v, x) = Val(tx[p].view, x)
       /\ tx[p].op \in PatchOps
  <2>1. ASSUME NEW x \in Rows \ wr
        PROVE  Val(v, x) = Val(tx[p].view, x)
    BY <1>0, <1>4, <1>11
  <2> QED BY <1>0, <1>2, <2>1 DEF PatchOps
<1> QED BY <1>2, <1>11, <1>12, <1>13, <1>17, <1>18, <1>19, PatchStep

(* The patches of PatchMovieEditionKind.                                   *)
LEMMA KindSteps ==
  ASSUME ServiceInv, NEW p \in Clients,
         \/ \E n \in KindNames : PatchKindName(p, n)
         \/ \E b \in BOOLEAN : PatchKindIsDefault(p, b)
  PROVE  ServiceInv'
<1> DEFINE K == "catalog_movie_edition_kinds"
<1>0. PICK t, k, old : t = tx[p] /\ k = t.id /\ old = t.view[K][k]
  OBVIOUS
<1>1. ASSUME Patching(p, "PatchMovieEditionKind"), NEW v, NEW rd, NEW wr, NEW sh,
             Patch(p, "PatchMovieEditionKind", v, rd, wr, sh)
      PROVE  old \in Kind /\ old = Val(t.view, KindRow(k))
  <2>1. /\ t.view \in Tables /\ t.op = "PatchMovieEditionKind" /\ t.patches < MaxPatches
        /\ IdTypes(t) /\ Target(t)
    BY <1>0, <1>1, PatchBegins
  <2>2. k \in Kinds /\ Val(t.view, KindRow(k)) # NULL
    BY <1>0, <2>1 DEF IdTypes, Target
  <2>3. old = Val(t.view, KindRow(k))
    BY <1>0 DEF Val, KindRow
  <2> QED BY <2>1, <2>2, <2>3, ValTypes
<1>2. ASSUME NEW n \in KindNames, PatchKindName(p, n)
      PROVE  ServiceInv'
  <2>1. PICK row : row = [old EXCEPT !.name = n]
    OBVIOUS
  <2>2. /\ Patching(p, "PatchMovieEditionKind")
        /\ Patch(p, "PatchMovieEditionKind",
                 [t.view EXCEPT !.catalog_movie_edition_kinds[k].name = n],
                 {}, {KindRow(k)}, {})
    BY <1>0, <1>2 DEF PatchKindName
  <2>3. old \in Kind /\ old = Val(t.view, KindRow(k))
    BY <1>1, <2>2
  <2>4. row \in Kind /\ row.is_default = old.is_default /\ old # NULL
    <3>1. row \in Kind /\ row.is_default = old.is_default
      BY <2>1, <2>3 DEF Kind
    <3> QED BY <2>3, <3>1, SchemaAssumption
  <2>5. [t.view EXCEPT !.catalog_movie_edition_kinds[k].name = n] = Put(t.view, K, k, row)
    BY <1>0, <2>1 DEF Put
  <2>6. Patch(p, "PatchMovieEditionKind", Put(tx[p].view, K, tx[p].id, row),
              {}, {KindRow(tx[p].id)}, {})
    BY <1>0, <2>2, <2>5
  <2>7. row.is_default => IsDefault(tx[p].view, KindRow(tx[p].id))
    BY <1>0, <2>3, <2>4 DEF IsDefault
  <2> QED BY <2>2, <2>4, <2>6, <2>7, KindPutStep
<1>3. ASSUME PatchKindIsDefault(p, FALSE)
      PROVE  ServiceInv'
  <2>1. PICK row : row = [old EXCEPT !.is_default = FALSE]
    OBVIOUS
  <2>2. /\ Patching(p, "PatchMovieEditionKind")
        /\ Patch(p, "PatchMovieEditionKind",
                 [t.view EXCEPT !.catalog_movie_edition_kinds[k].is_default = FALSE],
                 {}, {KindRow(k)} \cup {}, {})
    BY <1>0, <1>3 DEF PatchKindIsDefault
  <2>3. old \in Kind /\ old = Val(t.view, KindRow(k))
    BY <1>1, <2>2
  <2>4. row \in Kind /\ row.is_default = FALSE
    BY <2>1, <2>3 DEF Kind
  <2>5. [t.view EXCEPT !.catalog_movie_edition_kinds[k].is_default = FALSE]
          = Put(t.view, K, k, row)
    BY <1>0, <2>1 DEF Put
  <2>6. {KindRow(k)} \cup {} = {KindRow(k)}
    OBVIOUS
  <2>7. Patch(p, "PatchMovieEditionKind", Put(tx[p].view, K, tx[p].id, row),
              {}, {KindRow(tx[p].id)}, {})
    BY <1>0, <2>2, <2>5, <2>6
  <2> QED BY <2>2, <2>4, <2>7, KindPutStep
<1> QED BY <1>2, <1>3, KindDefaultStep

------------------------------------------------------------------------------
(* Requests that begin, and POST requests.                                 *)

(* The beginning of a PATCH request, on a row that is there.               *)
LEMMA BeginStep ==
  ASSUME ServiceInv, NEW p \in Clients, NEW op \in PatchOps, NEW id, NEW rd \in SUBSET Rows,
         Begin(p, op, id, rd),
         \/ op = "PatchCard" /\ id \in Cards /\ Val(db, CardRow(id)) # NULL
         \/ op = "PatchMovieEditionKind" /\ id \in Kinds /\ Val(db, KindRow(id)) # NULL
         \/ op = "PatchMedia" /\ id \in Media /\ Val(db, MediaRow(id)) # NULL
         \/ op = "PatchMediaSet" /\ id \in Sets /\ Val(db, SetRow(id)) # NULL
  PROVE  ServiceInv'
<1>0. PICK s : s = [Fresh(op, id, 0) EXCEPT !.reads = rd]
  OBVIOUS
<1>1. db \in Tables /\ op \in Operations /\ id \in Cards \cup Kinds \cup Media \cup Sets
      /\ 0 \in 0 .. MaxPatches
  <2>1. op \in Operations
    BY DEF PatchOps, Operations
  <2>2. 0 \in 0 .. MaxPatches
    BY TransactionsAssumption
  <2>3. db \in Tables /\ id \in Cards \cup Kinds \cup Media \cup Sets
    BY DEF ServiceInv, DbInv
  <2> QED BY <2>1, <2>2, <2>3
<1>2. /\ s \in Transaction
      /\ s.op = op /\ s.id = id /\ s.patches = 0 /\ s.view = db
      /\ s.reads = rd /\ s.wrote = {} /\ s.shared = {}
      /\ s.missed = {} /\ s.seen = {}
  BY <1>0, <1>1 DEF Fresh, Transaction
<1>3. IdTypes(s) /\ Target(s)
  BY <1>2 DEF IdTypes, Target, PatchOps
<1>4. NewCard(db, s) /\ NewCardName(db, renamed, s) /\ NewKindName(db, renamed, s)
  BY <1>2 DEF NewCard, NewCardName, NewKindName, PatchOps
<1>5. Snapshot(db, s) /\ NoLostUpdate(s) /\ SharedStay(db, s)
  BY <1>2 DEF Snapshot, NoLostUpdate, SharedStay
<1>6. NewDefault(db, s) /\ UnseenDefault(db, s)
  BY <1>2 DEF NewDefault, UnseenDefault
<1>7. TxInv(db, renamed, s)
  BY <1>2, <1>3, <1>4, <1>5, <1>6 DEF TxInv
<1>8. /\ tx' = [tx EXCEPT ![p] = s] /\ UNCHANGED <<db, used, renamed>>
      /\ requests < MaxPatchRequests /\ requests' = requests + 1
  BY <1>0 DEF Begin
<1>9. requests' \in 0 .. MaxPatchRequests
  BY <1>8, TransactionsAssumption DEF ServiceInv
<1>10. /\ s.op \notin {"PostCard", "PostMovieEditionKind"}
       /\ \A q \in Open \ {p} : s.wrote \cap tx[q].wrote = {}
  BY <1>2 DEF PatchOps
<1> QED BY <1>7, <1>8, <1>9, <1>10, OneGoesOn DEF ServiceInv

(* The beginnings of the four PATCH requests.                              *)
LEMMA BeginSteps ==
  ASSUME ServiceInv, NEW p \in Clients,
         \/ \E c \in Cards : PatchCard(p, c)
         \/ \E k \in Kinds : PatchMovieEditionKind(p, k)
         \/ \E m \in Media : PatchMedia(p, m)
         \/ \E s \in Sets : PatchMediaSet(p, s)
  PROVE  ServiceInv'
<1>1. ASSUME NEW c \in Cards, PatchCard(p, c)
      PROVE  ServiceInv'
  <2>1. {CardRow(c), MovieRow(c), EditionRow(c)} \in SUBSET Rows
    BY RowNames
  <2>2. Val(db, CardRow(c)) # NULL
    BY <1>1 DEF PatchCard, Has, Val, CardRow
  <2> QED BY <1>1, <2>1, <2>2, BeginStep DEF PatchCard, PatchOps
<1>2. ASSUME NEW k \in Kinds, PatchMovieEditionKind(p, k)
      PROVE  ServiceInv'
  <2>1. {KindRow(k)} \in SUBSET Rows
    BY RowNames
  <2>2. Val(db, KindRow(k)) # NULL
    BY <1>2 DEF PatchMovieEditionKind, Has, Val, KindRow
  <2> QED BY <1>2, <2>1, <2>2, BeginStep DEF PatchMovieEditionKind, PatchOps
<1>3. ASSUME NEW m \in Media, PatchMedia(p, m)
      PROVE  ServiceInv'
  <2>1. {MediaRow(m)} \cup {MediaLink(m, c) : c \in Cards} \in SUBSET Rows
    BY RowNames
  <2>2. Val(db, MediaRow(m)) # NULL
    BY <1>3 DEF PatchMedia, Has, Val, MediaRow
  <2> QED BY <1>3, <2>1, <2>2, BeginStep DEF PatchMedia, PatchOps
<1>4. ASSUME NEW s \in Sets, PatchMediaSet(p, s)
      PROVE  ServiceInv'
  <2>1. {SetRow(s)} \cup {SetLink(s, c) : c \in Cards} \in SUBSET Rows
    BY RowNames
  <2>2. Val(db, SetRow(s)) # NULL
    BY <1>4 DEF PatchMediaSet, Has, Val, SetRow
  <2> QED BY <1>4, <2>1, <2>2, BeginStep DEF PatchMediaSet, PatchOps
<1> QED BY <1>1, <1>2, <1>3, <1>4

(* A transaction that ends without a commit.                               *)
LEMMA RollBackStep ==
  ASSUME ServiceInv, NEW p \in Clients, RollBack(p)
  PROVE  ServiceInv'
<1>1. tx' = [tx EXCEPT ![p] = NULL] /\ UNCHANGED <<db, used, requests, renamed>>
  BY DEF RollBack
<1> QED BY <1>1, OneGoesOn DEF ServiceInv

(* The transaction of a POST request when it is ready to commit.           *)
Posted(op, id, v, rd, wr, sh) == Extended(Fresh(op, id, MaxPatches), v, rd, wr, sh)

AfterPost(e, op, id, v, rd, wr, sh) ==
  /\ e \in Transaction
  /\ e.op = op /\ e.id = id /\ e.patches = MaxPatches /\ e.view = v
  /\ e.reads = rd /\ e.wrote = wr /\ e.shared = sh
  /\ e.missed = {} /\ e.seen = {}

(* The fields of the transaction of a POST request.                        *)
LEMMA PostedShape ==
  ASSUME db \in Tables, NEW op \in Operations, NEW id \in Cards \cup Kinds \cup Media \cup Sets,
         NEW v \in Tables, NEW rd \in SUBSET Rows, NEW wr \in SUBSET Rows,
         NEW sh \in SUBSET Rows
  PROVE  AfterPost(Posted(op, id, v, rd, wr, sh), op, id, v, rd, wr, sh)
<1>1. MaxPatches \in 0 .. MaxPatches
  BY TransactionsAssumption
<1> QED BY <1>1 DEF Posted, Extended, Fresh, Transaction, AfterPost

(* A POST request keeps the invariant.                                     *)
LEMMA PostStep ==
  ASSUME ServiceInv, NEW p \in Clients,
         NEW op \in Operations, NEW id \in Cards \cup Kinds \cup Media \cup Sets,
         NEW v \in Tables, NEW rd \in SUBSET Rows, NEW wr \in SUBSET Rows,
         NEW sh \in SUBSET Rows, Post(p, op, id, v, rd, wr, sh),
         \A r \in sh : r[1] \notin LinkTables,
         NEW e, e = Posted(op, id, v, rd, wr, sh),
         \A r \in wr : RowTx(db, e, r), IdTypes(e), NewCard(db, e),
         NewCardName(db, renamed, e), NewKindName(db, renamed, e), NewDefault(db, e)
  PROVE  ServiceInv'
<1>1. AfterPost(e, op, id, v, rd, wr, sh)
  BY PostedShape DEF ServiceInv, DbInv
<1>2. PICK f : f = Fresh(op, id, MaxPatches)
  OBVIOUS
<1>3. f.wrote = {}
  BY <1>2 DEF Fresh
<1>4. Execute(p, f, v, rd, wr, sh) /\ used' = used \cup {id}
  BY <1>2 DEF Post
<1>5. tx' = [tx EXCEPT ![p] = Settled(e)] /\ UNCHANGED <<db, requests, renamed>>
  BY <1>2, <1>4 DEF Execute, Posted, Extended
<1>6. \A r \in sh : Val(db, r) # NULL
  BY <1>3, <1>4 DEF Execute, Referenced, Has, Val
<1>7. \A q \in Open \ {p} : wr \cap tx[q].wrote = {}
  BY <1>4 DEF Execute, Writable, OthersWrote
<1>8. Snapshot(db, e) /\ NoLostUpdate(e) /\ Target(e) /\ UnseenDefault(db, e)
  <2>1. ~(e.patches < MaxPatches) /\ e.missed = {}
    BY <1>1, TransactionsAssumption DEF AfterPost
  <2> QED BY <2>1 DEF Snapshot, NoLostUpdate, Target, UnseenDefault
<1>9. SharedStay(db, e)
  BY <1>1, <1>6 DEF AfterPost, SharedStay
<1>10. TxInv(db, renamed, e)
  BY <1>1, <1>8, <1>9 DEF TxInv, AfterPost
<1>11. PICK s : s = Settled(e)
  OBVIOUS
<1>12. SameFate(s, e)
  BY <1>1, <1>11, SettledShape DEF AfterPost
<1>13. TxInv(db, renamed, s)
  BY <1>10, <1>12, FateKeeps
<1>14. s.wrote = wr /\ s.id = id
  BY <1>1, <1>12 DEF AfterPost, SameFate
<1>15. /\ \A q \in Open \ {p} : s.wrote \cap tx[q].wrote = {}
       /\ s.id \in used' /\ used \subseteq used'
       /\ used' \subseteq Cards \cup Kinds \cup Media \cup Sets
  BY <1>4, <1>7, <1>14 DEF ServiceInv
<1> QED BY <1>5, <1>11, <1>13, <1>15, OneGoesOn DEF ServiceInv

(* A card without details yet has no other rows, and its id is not in use. *)
LEMMA FreshCard ==
  ASSUME ServiceInv, NEW c \in Cards, c \notin used
  PROVE  Val(db, CardRow(c)) = NULL
BY DEF ServiceInv, UsedIds, Has, Val, CardRow

(* PostCard: a movie.                                                      *)
LEMMA PostMovieStep ==
  ASSUME ServiceInv, NEW p \in Clients, NEW c \in Cards, NEW n \in Names, PostMovie(p, c, n)
  PROVE  ServiceInv'
<1>0. PICK u, v, rd, wr, none :
        /\ u = Put(db, "catalog_cards", c, n)
        /\ v = Put(u, "catalog_movies", c, Present)
        /\ rd = RowsOf("catalog_cards") /\ wr = {CardRow(c), MovieRow(c)} /\ none = {}
  OBVIOUS
<1>1. Post(p, "PostCard", c, v, rd, wr, none) /\ CardNamed(db, n) = {}
  BY <1>0 DEF PostMovie, NameTaken
<1>2. c \notin used /\ Val(db, CardRow(c)) = NULL
  BY <1>1, FreshCard DEF Post
<1>3. db \in Tables
  BY DEF ServiceInv, DbInv
<1>4. /\ u \in Tables /\ Val(u, CardRow(c)) = n
  <2>1. /\ "catalog_cards" \in TableNames /\ c \in Keys["catalog_cards"]
        /\ n \in RowTypes["catalog_cards"]
    BY KeysShape, TypesShape DEF TableNames
  <2> QED BY <1>0, <1>3, <2>1, PutShape DEF CardRow
<1>5. /\ v \in Tables /\ Val(v, MovieRow(c)) = Present /\ Val(v, CardRow(c)) = n
  <2>1. /\ "catalog_movies" \in TableNames /\ c \in Keys["catalog_movies"]
        /\ Present \in RowTypes["catalog_movies"]
    BY KeysShape, TypesShape DEF TableNames
  <2>2. CardRow(c) # <<"catalog_movies", c>> /\ CardRow(c) \in Rows
    BY RowNames DEF CardRow
  <2> QED BY <1>0, <1>4, <2>1, <2>2, PutShape DEF MovieRow
<1>6. rd \in SUBSET Rows /\ wr \in SUBSET Rows /\ none \in SUBSET Rows
  BY <1>0, RowNames, RowsOfTable
<1>7. PICK e : e = Posted("PostCard", c, v, rd, wr, none)
  OBVIOUS
<1>8. "PostCard" \in Operations
  BY DEF Operations
<1>9. AfterPost(e, "PostCard", c, v, rd, wr, none)
  BY <1>3, <1>5, <1>6, <1>7, <1>8, PostedShape
<1>10. e.op = "PostCard" /\ e.id = c /\ e.view = v /\ e.reads = rd /\ e.wrote = wr
  BY <1>9 DEF AfterPost
<1>11. ASSUME NEW r \in wr
       PROVE  RowTx(db, e, r)
  <2>1. r[1] \in {"catalog_cards", "catalog_movies"}
    BY <1>0, RowTables
  <2>2. Val(e.view, r) # NULL /\ IsNew(e, r)
    BY <1>0, <1>5, <1>10, SchemaAssumption DEF IsNew
  <2> QED BY <2>1, <2>2
          DEF RowTx, RowStays, RowEdition, RowMedia, RowLink, RowKind, LinkTables
<1>12. IdTypes(e) /\ NewKindName(db, renamed, e)
  BY <1>10 DEF IdTypes, NewKindName
<1>13. NewCard(db, e)
  <2>1. EditionRow(c) \notin wr
    BY <1>0, RowTables
  <2> QED BY <1>0, <1>2, <1>10, <2>1 DEF NewCard
<1>14. NewCardName(db, renamed, e)
  <2>1. ASSUME NEW d \in Cards, Val(db, CardRow(d)) # NULL,
               Lower[Val(db, CardRow(d))] = Lower[n]
        PROVE  FALSE
    BY <1>1, <2>1 DEF CardNamed, Has, Val, CardRow
  <2> QED BY <1>0, <1>5, <1>10, <2>1 DEF NewCardName
<1>15. NewDefault(db, e)
  <2>1. \A k \in Kinds : KindRow(k) \notin wr
    BY <1>0, RowTables
  <2> QED BY <1>10, <2>1 DEF NewDefault
<1>16. \A r \in none : r[1] \notin LinkTables
  BY <1>0
<1> QED BY <1>1, <1>5, <1>6, <1>7, <1>8, <1>11, <1>12, <1>13, <1>14, <1>15, <1>16, PostStep

(* PostCard: an edition.                                                   *)
LEMMA PostEditionStep ==
  ASSUME ServiceInv, NEW p \in Clients, NEW c \in Cards, NEW n \in Names, NEW k \in Kinds,
         NEW m \in Cards, PostMovieEdition(p, c, n, k, m)
  PROVE  ServiceInv'
<1>0. PICK row, u, v, rd, wr, sh :
        /\ row = [kind_id |-> k, movie_card_id |-> m]
        /\ u = Put(db, "catalog_cards", c, n)
        /\ v = Put(u, "catalog_movie_editions", c, row)
        /\ rd = RowsOf("catalog_cards") \cup {KindRow(k), MovieRow(m)}
        /\ wr = {CardRow(c), EditionRow(c)} /\ sh = {KindRow(k), MovieRow(m)}
  OBVIOUS
<1>1. Post(p, "PostCard", c, v, rd, wr, sh) /\ CardNamed(db, n) = {}
  BY <1>0 DEF PostMovieEdition, NameTaken
<1>2. c \notin used /\ Val(db, CardRow(c)) = NULL
  BY <1>1, FreshCard DEF Post
<1>3. db \in Tables
  BY DEF ServiceInv, DbInv
<1>4. u \in Tables /\ Val(u, CardRow(c)) = n
  <2>1. /\ "catalog_cards" \in TableNames /\ c \in Keys["catalog_cards"]
        /\ n \in RowTypes["catalog_cards"]
    BY KeysShape, TypesShape DEF TableNames
  <2> QED BY <1>0, <1>3, <2>1, PutShape DEF CardRow
<1>5. row \in Edition /\ row # NULL /\ row.kind_id = k /\ row.movie_card_id = m
  <2>1. row \in Edition /\ row.kind_id = k /\ row.movie_card_id = m
    BY <1>0 DEF Edition
  <2> QED BY <2>1, SchemaAssumption
<1>6. /\ v \in Tables /\ Val(v, EditionRow(c)) = row /\ Val(v, CardRow(c)) = n
  <2>1. /\ "catalog_movie_editions" \in TableNames /\ c \in Keys["catalog_movie_editions"]
        /\ row \in RowTypes["catalog_movie_editions"]
    BY <1>5, KeysShape, TypesShape DEF TableNames
  <2>2. CardRow(c) # <<"catalog_movie_editions", c>> /\ CardRow(c) \in Rows
    BY RowNames DEF CardRow
  <2> QED BY <1>0, <1>4, <2>1, <2>2, PutShape DEF EditionRow
<1>7. rd \in SUBSET Rows /\ wr \in SUBSET Rows /\ sh \in SUBSET Rows
  BY <1>0, RowNames, RowsOfTable
<1>8. PICK e : e = Posted("PostCard", c, v, rd, wr, sh)
  OBVIOUS
<1>9. "PostCard" \in Operations
  BY DEF Operations
<1>10. AfterPost(e, "PostCard", c, v, rd, wr, sh)
  BY <1>3, <1>6, <1>7, <1>8, <1>9, PostedShape
<1>11. /\ e.op = "PostCard" /\ e.id = c /\ e.view = v /\ e.reads = rd /\ e.wrote = wr
       /\ e.shared = sh
  BY <1>10 DEF AfterPost
<1>12. ASSUME NEW r \in wr
       PROVE  RowTx(db, e, r)
  <2>1. CASE r = CardRow(c)
    <3>1. r[1] = "catalog_cards"
      BY <2>1, RowTables
    <3>2. Val(e.view, r) # NULL /\ IsNew(e, r)
      BY <1>6, <1>11, <2>1, SchemaAssumption DEF IsNew
    <3> QED BY <3>1, <3>2
            DEF RowTx, RowStays, RowEdition, RowMedia, RowLink, RowKind, LinkTables
  <2>2. CASE r = EditionRow(c)
    <3>1. r[1] = "catalog_movie_editions"
      BY <2>2, RowTables
    <3>2. Val(e.view, r) = row /\ IsNew(e, r)
      BY <1>6, <1>11, <2>2 DEF IsNew
    <3>3. KindRow(row.kind_id) \in e.shared /\ MovieRow(row.movie_card_id) \in e.shared
      BY <1>0, <1>5, <1>11
    <3> QED BY <1>5, <3>1, <3>2, <3>3
            DEF RowTx, RowStays, RowEdition, RowMedia, RowLink, RowKind, LinkTables
  <2> QED BY <1>0, <2>1, <2>2
<1>13. IdTypes(e) /\ NewKindName(db, renamed, e)
  BY <1>11 DEF IdTypes, NewKindName
<1>14. NewCard(db, e)
  <2>1. MovieRow(c) \notin wr
    BY <1>0, RowTables
  <2> QED BY <1>0, <1>2, <1>11, <2>1 DEF NewCard
<1>15. NewCardName(db, renamed, e)
  <2>1. ASSUME NEW d \in Cards, Val(db, CardRow(d)) # NULL,
               Lower[Val(db, CardRow(d))] = Lower[n]
        PROVE  FALSE
    BY <1>1, <2>1 DEF CardNamed, Has, Val, CardRow
  <2> QED BY <1>0, <1>6, <1>11, <2>1 DEF NewCardName
<1>16. NewDefault(db, e)
  <2>1. \A j \in Kinds : KindRow(j) \notin wr
    BY <1>0, RowTables
  <2> QED BY <1>11, <2>1 DEF NewDefault
<1>17. \A r \in sh : r[1] \notin LinkTables
  BY <1>0, RowTables DEF LinkTables
<1> QED BY <1>1, <1>6, <1>7, <1>8, <1>9, <1>12, <1>13, <1>14, <1>15, <1>16, <1>17, PostStep

(* PostMovieEditionKind.                                                   *)
LEMMA PostKindStep ==
  ASSUME ServiceInv, NEW p \in Clients, NEW k \in Kinds, NEW n \in KindNames,
         NEW isDefault \in BOOLEAN, PostMovieEditionKind(p, k, n, isDefault)
  PROVE  ServiceInv'
<1> DEFINE K == "catalog_movie_edition_kinds"
<1>0. PICK row, D, u, v, rd, wr, none :
        /\ row = [name |-> n, is_default |-> isDefault]
        /\ D = (IF isDefault THEN Defaults(db) ELSE {})
        /\ u = (IF isDefault THEN UnsetDefault(db) ELSE db)
        /\ v = Put(u, K, k, row)
        /\ rd = RowsOf(K)
        /\ wr = {KindRow(k)} \cup {KindRow(d) : d \in D} /\ none = {}
  OBVIOUS
<1>1. Post(p, "PostMovieEditionKind", k, v, rd, wr, none) /\ KindNamed(db, n) = {}
  <2>1. wr = {KindRow(k)} \cup (IF isDefault THEN {KindRow(d) : d \in Defaults(db)} ELSE {})
    BY <1>0
  <2> QED BY <1>0, <2>1 DEF PostMovieEditionKind
<1>2. db \in Tables /\ D \subseteq Defaults(db) /\ D \subseteq Kinds
  BY <1>0 DEF ServiceInv, DbInv, Defaults
<1>3. /\ u \in Tables
      /\ \A d \in D : Val(u, KindRow(d)) = [Val(db, KindRow(d)) EXCEPT !.is_default = FALSE]
  BY <1>0, <1>2, UnsetShape
<1>4. ASSUME NEW d \in D
      PROVE  /\ Val(db, KindRow(d)) \in Kind /\ Val(db, KindRow(d)) # NULL
             /\ Val(u, KindRow(d)) \in Kind /\ Val(u, KindRow(d)).is_default = FALSE
  <2>1. Val(db, KindRow(d)) # NULL
    BY <1>2, DefaultRows DEF IsDefault
  <2>2. Val(db, KindRow(d)) \in Kind
    BY <1>2, <2>1, ValTypes
  <2> QED BY <1>3, <2>1, <2>2 DEF Kind
<1>5. row \in Kind /\ row # NULL /\ row.name = n /\ row.is_default = isDefault
  <2>1. row \in Kind /\ row.name = n /\ row.is_default = isDefault
    BY <1>0 DEF Kind
  <2> QED BY <2>1, SchemaAssumption
<1>6. /\ v \in Tables /\ Val(v, KindRow(k)) = row
      /\ \A x \in Rows : x # KindRow(k) => Val(v, x) = Val(u, x)
  <2>1. K \in TableNames /\ k \in Keys[K] /\ row \in RowTypes[K]
    BY <1>5, KeysShape, TypesShape DEF TableNames
  <2> QED BY <1>0, <1>3, <2>1, PutShape DEF KindRow
<1>7. rd \in SUBSET Rows /\ wr \in SUBSET Rows /\ none \in SUBSET Rows
  BY <1>0, <1>2, RowNames, RowsOfTable
<1>8. PICK e : e = Posted("PostMovieEditionKind", k, v, rd, wr, none)
  OBVIOUS
<1>9. "PostMovieEditionKind" \in Operations
  BY DEF Operations
<1>10. AfterPost(e, "PostMovieEditionKind", k, v, rd, wr, none)
  BY <1>2, <1>6, <1>7, <1>8, <1>9, PostedShape
<1>11. /\ e.op = "PostMovieEditionKind" /\ e.id = k /\ e.view = v /\ e.reads = rd
       /\ e.wrote = wr
  BY <1>10 DEF AfterPost
<1>12. ASSUME NEW r \in wr
       PROVE  RowTx(db, e, r)
  <2>1. r[1] = K /\ r[1] \notin LinkTables
    BY <1>0, RowTables DEF LinkTables
  <2>2. CASE r = KindRow(k)
    <3>1. Val(e.view, r) # NULL /\ IsNew(e, r)
      BY <1>5, <1>6, <1>11, <2>2 DEF IsNew
    <3>2. RowKind(db, e, r)
      BY <1>0, <1>11, <2>2 DEF RowKind
    <3> QED BY <2>1, <3>1, <3>2 DEF RowTx, RowStays, RowEdition, RowMedia, RowLink
  <2>3. ASSUME NEW d \in D, r = KindRow(d), r # KindRow(k)
        PROVE  RowTx(db, e, r)
    <3>1. r \in Rows
      BY <1>2, <2>3, RowNames
    <3>2. /\ Val(e.view, r) \in Kind /\ Val(e.view, r).is_default = FALSE
          /\ Val(db, r) # NULL
      BY <1>4, <1>6, <1>11, <2>3, <3>1
    <3>3. Val(e.view, r) # NULL
      BY <3>2, SchemaAssumption
    <3> QED BY <2>1, <3>2, <3>3 DEF RowTx, RowStays, RowEdition, RowMedia, RowLink, RowKind
  <2> QED BY <1>0, <2>2, <2>3
<1>13. IdTypes(e) /\ NewCard(db, e) /\ NewCardName(db, renamed, e)
  BY <1>11 DEF IdTypes, NewCard, NewCardName
<1>14. NewKindName(db, renamed, e)
  <2>1. ASSUME NEW d \in Kinds, Val(db, KindRow(d)) # NULL,
               Lower[Val(db, KindRow(d)).name] = Lower[n]
        PROVE  FALSE
    BY <1>1, <2>1 DEF KindNamed, Has, Val, KindRow
  <2> QED BY <1>0, <1>5, <1>6, <1>11, <2>1 DEF NewKindName
<1>15. NewDefault(db, e)
  <2> SUFFICES ASSUME row.is_default, NEW j \in Kinds, IsDefault(db, KindRow(j))
               PROVE  KindRow(j) \in wr
    BY <1>6, <1>11 DEF NewDefault
  <2>1. j \in D
    BY <1>0, <1>5, DefaultRows
  <2> QED BY <1>0, <2>1
<1>16. \A r \in none : r[1] \notin LinkTables
  BY <1>0
<1> QED BY <1>1, <1>6, <1>7, <1>8, <1>9, <1>12, <1>13, <1>14, <1>15, <1>16, PostStep

(* Linked adds the links of x to the cards C and nothing else.             *)
LEMMA LinkedShape ==
  ASSUME NEW v \in Tables, NEW t \in LinkTables, NEW x, NEW C
  PROVE  /\ Linked(v, t, x, C) \in Tables
         /\ \A r \in Rows : Val(Linked(v, t, x, C), r) =
              IF r[1] = t /\ r[2] \in {x} \X C THEN Present ELSE Val(v, r)
<1> DEFINE row(k) == IF k \in {x} \X C THEN Present ELSE v[t][k]
           w == Linked(v, t, x, C)
<1>1. /\ v = [u \in TableNames |-> v[u]]
      /\ \A u \in TableNames : v[u] \in [Keys[u] -> RowTypes[u]]
  BY TablesShape
<1>2. t \in TableNames /\ RowTypes[t] = {Present, NULL}
  BY TypesShape DEF TableNames, LinkTables
<1>3. w = [v EXCEPT ![t] = [k \in Keys[t] |-> row(k)]]
  BY DEF Linked
<1>4. \A k \in Keys[t] : row(k) \in {Present, NULL}
  <2>1. \A k \in Keys[t] : v[t][k] \in {Present, NULL}
    BY <1>1, <1>2
  <2> QED BY <2>1
<1> HIDE DEF row, w
<1>5. /\ w = [u \in TableNames |-> w[u]]
      /\ w[t] = [k \in Keys[t] |-> row(k)]
      /\ \A u \in TableNames : u # t => w[u] = v[u]
  BY <1>1, <1>2, <1>3
<1>6. w[t] \in [Keys[t] -> RowTypes[t]]
  BY <1>2, <1>4, <1>5
<1>7. w \in Tables
  BY <1>1, <1>5, <1>6, TablesShape
<1>8. ASSUME NEW r \in Rows
      PROVE  Val(w, r) = IF r[1] = t /\ r[2] \in {x} \X C THEN Present ELSE Val(v, r)
  <2>1. r[1] \in TableNames /\ r[2] \in Keys[r[1]]
    BY RowsShape
  <2>2. CASE r[1] # t
    BY <1>5, <2>1, <2>2 DEF Val
  <2>3. CASE r[1] = t
    <3>1. w[t][r[2]] = row(r[2])
      BY <1>5, <2>1, <2>3
    <3> QED BY <2>3, <3>1 DEF Val, row
  <2> QED BY <2>2, <2>3
<1> QED BY <1>7, <1>8 DEF w

(* PostMedia.                                                              *)
LEMMA PostMediaStep ==
  ASSUME ServiceInv, NEW p \in Clients, NEW m \in Media, NEW s \in Sets \cup {NULL},
         NEW C \in SUBSET Cards, PostMedia(p, m, s, C)
  PROVE  ServiceInv'
<1>0. PICK row, u, v, rd, wr, sh :
        /\ row = [media_set_id |-> s]
        /\ u = Put(db, "media", m, row)
        /\ v = Linked(u, "media_x_cards", m, C)
        /\ rd = CardRows(C)
        /\ wr = {MediaRow(m)} \cup {MediaLink(m, c) : c \in C}
        /\ sh = CardRows(C) \cup {SetRow(x) : x \in {s} \ {NULL}}
  OBVIOUS
<1>1. Post(p, "PostMedia", m, v, rd, wr, sh)
  BY <1>0 DEF PostMedia
<1>2. db \in Tables
  BY DEF ServiceInv, DbInv
<1>3. row \in Medium /\ row # NULL /\ row.media_set_id = s
  <2>1. row \in Medium /\ row.media_set_id = s
    BY <1>0 DEF Medium
  <2> QED BY <2>1, SchemaAssumption
<1>4. u \in Tables /\ Val(u, MediaRow(m)) = row
  <2>1. "media" \in TableNames /\ m \in Keys["media"] /\ row \in RowTypes["media"]
    BY <1>3, KeysShape, TypesShape DEF TableNames
  <2> QED BY <1>0, <1>2, <2>1, PutShape DEF MediaRow
<1>5. /\ v \in Tables
      /\ \A r \in Rows : r[1] # "media_x_cards" => Val(v, r) = Val(u, r)
  BY <1>0, <1>4, LinkedShape DEF LinkTables
<1>6. Val(v, MediaRow(m)) = row
  BY <1>4, <1>5, RowNames, RowTables
<1>7. rd \in SUBSET Rows /\ wr \in SUBSET Rows /\ sh \in SUBSET Rows
  BY <1>0, RowNames DEF CardRows
<1>8. PICK e : e = Posted("PostMedia", m, v, rd, wr, sh)
  OBVIOUS
<1>9. "PostMedia" \in Operations
  BY DEF Operations
<1>10. AfterPost(e, "PostMedia", m, v, rd, wr, sh)
  BY <1>2, <1>5, <1>7, <1>8, <1>9, PostedShape
<1>11. /\ e.op = "PostMedia" /\ e.id = m /\ e.view = v /\ e.wrote = wr /\ e.shared = sh
  BY <1>10 DEF AfterPost
<1>12. ASSUME NEW r \in wr
       PROVE  RowTx(db, e, r)
  <2>1. CASE r = MediaRow(m)
    <3>1. r[1] = "media" /\ IsNew(e, r) /\ Val(e.view, r) = row
      BY <1>6, <1>11, <2>1, RowTables DEF IsNew
    <3>2. s = NULL \/ SetRow(s) \in e.shared
      BY <1>0, <1>11
    <3>3. RowMedia(db, e, r)
      BY <1>3, <1>11, <3>1, <3>2 DEF RowMedia
    <3> QED BY <1>3, <3>1, <3>3 DEF RowTx, RowStays, RowEdition, RowLink, RowKind, LinkTables
  <2>2. ASSUME NEW c \in C, r = MediaLink(m, c)
        PROVE  RowTx(db, e, r)
    <3>1. r[1] = "media_x_cards" /\ r[2][1] = m /\ r[2][2] = c
      BY <2>2 DEF MediaLink
    <3>2. CardRow(c) \in e.shared /\ MediaRow(m) \in e.wrote
      BY <1>0, <1>11 DEF CardRows
    <3> QED BY <3>1, <3>2 DEF RowTx, RowStays, RowEdition, RowMedia, RowLink, RowKind, LinkTables
  <2> QED BY <1>0, <2>1, <2>2
<1>13. /\ IdTypes(e) /\ NewCard(db, e) /\ NewCardName(db, renamed, e)
       /\ NewKindName(db, renamed, e)
  BY <1>11 DEF IdTypes, NewCard, NewCardName, NewKindName
<1>14. NewDefault(db, e)
  <2>1. \A j \in Kinds : KindRow(j) \notin wr
    BY <1>0, RowTables
  <2> QED BY <1>11, <2>1 DEF NewDefault
<1>15. \A r \in sh : r[1] \notin LinkTables
  BY <1>0, RowTables DEF LinkTables, CardRows
<1> QED BY <1>1, <1>5, <1>7, <1>8, <1>9, <1>12, <1>13, <1>14, <1>15, PostStep

(* PostMediaSet.                                                           *)
LEMMA PostSetStep ==
  ASSUME ServiceInv, NEW p \in Clients, NEW s \in Sets, NEW C \in SUBSET Cards,
         PostMediaSet(p, s, C)
  PROVE  ServiceInv'
<1>0. PICK u, v, rd, wr :
        /\ u = Put(db, "media_sets", s, Present)
        /\ v = Linked(u, "media_sets_x_cards", s, C)
        /\ rd = CardRows(C)
        /\ wr = {SetRow(s)} \cup {SetLink(s, c) : c \in C}
  OBVIOUS
<1>1. Post(p, "PostMediaSet", s, v, rd, wr, rd)
  BY <1>0 DEF PostMediaSet
<1>2. db \in Tables
  BY DEF ServiceInv, DbInv
<1>3. u \in Tables /\ Val(u, SetRow(s)) = Present
  <2>1. /\ "media_sets" \in TableNames /\ s \in Keys["media_sets"]
        /\ Present \in RowTypes["media_sets"]
    BY KeysShape, TypesShape DEF TableNames
  <2> QED BY <1>0, <1>2, <2>1, PutShape DEF SetRow
<1>4. /\ v \in Tables
      /\ \A r \in Rows : r[1] # "media_sets_x_cards" => Val(v, r) = Val(u, r)
  BY <1>0, <1>3, LinkedShape DEF LinkTables
<1>5. Val(v, SetRow(s)) = Present
  BY <1>3, <1>4, RowNames, RowTables
<1>6. rd \in SUBSET Rows /\ wr \in SUBSET Rows
  BY <1>0, RowNames DEF CardRows
<1>7. PICK e : e = Posted("PostMediaSet", s, v, rd, wr, rd)
  OBVIOUS
<1>8. "PostMediaSet" \in Operations
  BY DEF Operations
<1>9. AfterPost(e, "PostMediaSet", s, v, rd, wr, rd)
  BY <1>2, <1>4, <1>6, <1>7, <1>8, PostedShape
<1>10. /\ e.op = "PostMediaSet" /\ e.id = s /\ e.view = v /\ e.wrote = wr /\ e.shared = rd
  BY <1>9 DEF AfterPost
<1>11. ASSUME NEW r \in wr
       PROVE  RowTx(db, e, r)
  <2>1. CASE r = SetRow(s)
    <3>1. r[1] = "media_sets" /\ IsNew(e, r) /\ Val(e.view, r) # NULL
      BY <1>5, <1>10, <2>1, RowTables, SchemaAssumption DEF IsNew
    <3> QED BY <3>1 DEF RowTx, RowStays, RowEdition, RowMedia, RowLink, RowKind, LinkTables
  <2>2. ASSUME NEW c \in C, r = SetLink(s, c)
        PROVE  RowTx(db, e, r)
    <3>1. r[1] = "media_sets_x_cards" /\ r[2][1] = s /\ r[2][2] = c
      BY <2>2 DEF SetLink
    <3>2. CardRow(c) \in e.shared /\ SetRow(s) \in e.wrote
      BY <1>0, <1>10 DEF CardRows
    <3> QED BY <3>1, <3>2 DEF RowTx, RowStays, RowEdition, RowMedia, RowLink, RowKind, LinkTables
  <2> QED BY <1>0, <2>1, <2>2
<1>12. /\ IdTypes(e) /\ NewCard(db, e) /\ NewCardName(db, renamed, e)
       /\ NewKindName(db, renamed, e)
  BY <1>10 DEF IdTypes, NewCard, NewCardName, NewKindName
<1>13. NewDefault(db, e)
  <2>1. \A j \in Kinds : KindRow(j) \notin wr
    BY <1>0, RowTables
  <2> QED BY <1>10, <2>1 DEF NewDefault
<1>14. \A r \in rd : r[1] \notin LinkTables
  BY <1>0, RowTables DEF LinkTables, CardRows
<1> QED BY <1>1, <1>4, <1>6, <1>7, <1>8, <1>11, <1>12, <1>13, <1>14, PostStep

------------------------------------------------------------------------------
(* Commits and deletions.                                                  *)

(* Rows that appear are told to the others with what their writer has      *)
(* read.                                                                   *)
Announced(d, e, rd, wr) ==
  /\ \A r \in Rows \ wr : Val(e, r) = Val(d, r)
  /\ \A c \in Cards : Val(d, CardRow(c)) = NULL /\ Val(e, CardRow(c)) # NULL =>
       CardRow(c) \in wr /\ RowsOf("catalog_cards") \subseteq rd
  /\ \A k \in Kinds : Val(d, KindRow(k)) = NULL /\ Val(e, KindRow(k)) # NULL =>
       KindRow(k) \in wr /\ RowsOf("catalog_movie_edition_kinds") \subseteq rd
  /\ \A k \in Kinds : ~IsDefault(d, KindRow(k)) /\ IsDefault(e, KindRow(k)) =>
       KindRow(k) \in wr /\ RowsOf("catalog_movie_edition_kinds") \subseteq rd

(* What Publish does with the names: a card or a kind that is not renamed  *)
(* afterwards is new, or was not renamed before and has its old name.      *)
NamesKept(d, e, ren, ten) ==
  /\ \A c \in Cards \ ten : Val(e, CardRow(c)) # NULL =>
       \/ Val(d, CardRow(c)) = NULL
       \/ c \notin ren /\ Val(d, CardRow(c)) = Val(e, CardRow(c))
  /\ \A k \in Kinds \ ten : Val(e, KindRow(k)) # NULL =>
       \/ Val(d, KindRow(k)) = NULL
       \/ k \notin ren /\ Val(d, KindRow(k)).name = Val(e, KindRow(k)).name

(* Publish does so.                                                        *)
LEMMA NamesStay ==
  ASSUME NEW p, NEW v, NEW rd, NEW wr, NEW outdated, Publish(p, v, rd, wr, outdated)
  PROVE  NamesKept(db, db', renamed, renamed')
<1>1. renamed' = {x \in renamed \cup Renamed(db, db') : Exists(db', x)}
  BY DEF Publish
<1>2. ASSUME NEW c \in Cards \ renamed', Val(db', CardRow(c)) # NULL,
             Val(db, CardRow(c)) # NULL
      PROVE  c \notin renamed /\ Val(db, CardRow(c)) = Val(db', CardRow(c))
  <2>1. Exists(db', c)
    BY <1>2 DEF Exists, Has, Val, CardRow
  <2>2. c \notin renamed /\ c \notin Renamed(db, db')
    BY <1>1, <2>1
  <2> QED BY <1>2, <2>2 DEF Renamed, Has, Val, CardRow
<1>3. ASSUME NEW k \in Kinds \ renamed', Val(db', KindRow(k)) # NULL,
             Val(db, KindRow(k)) # NULL
      PROVE  k \notin renamed /\ Val(db, KindRow(k)).name = Val(db', KindRow(k)).name
  <2>1. Exists(db', k)
    BY <1>3 DEF Exists, Has, Val, KindRow
  <2>2. k \notin renamed /\ k \notin Renamed(db, db')
    BY <1>1, <2>1
  <2> QED BY <1>3, <2>2 DEF Renamed, Has, Val, KindRow
<1> QED BY <1>2, <1>3 DEF NamesKept

(* What is published keeps the invariant if it keeps that of the tables.   *)
LEMMA PublishStep ==
  ASSUME ServiceInv, NEW p \in Clients, NEW v, NEW rd \in SUBSET Rows,
         NEW wr \in SUBSET Rows, NEW outdated, Publish(p, v, rd, wr, outdated),
         \A q \in Open \ {p} : wr \cap tx[q].wrote = {},
         \A q \in Open \ {p} : \A r \in tx[q].shared : Val(db', r) # NULL \/ r \in tx[q].wrote,
         Announced(db, db', rd, wr),
         DbInv',
         \A c \in Cards : Val(db', CardRow(c)) # NULL => c \in used,
         \A k \in Kinds : Val(db', KindRow(k)) # NULL => k \in used
  PROVE  ServiceInv'
<1>1. Discreet(db, db', renamed, renamed', rd, wr)
  BY NamesStay DEF NamesKept, Discreet, Announced
<1>2. UNCHANGED <<used, requests>>
  BY DEF Publish
<1>3. ASSUME NEW q \in Clients
      PROVE  tx'[q] = IF q = p THEN NULL
                      ELSE IF q \in Open THEN Settled(Warned(tx[q], rd, wr, outdated))
                      ELSE NULL
  BY DEF Publish, Told, Warned
<1>4. ASSUME NEW q \in Open \ {p}
      PROVE  /\ TxInv(db', renamed', tx'[q])
             /\ tx'[q].wrote = tx[q].wrote /\ tx'[q].op = tx[q].op /\ tx'[q].id = tx[q].id
  <2>1. PICK w, s : w = Warned(tx[q], rd, wr, outdated) /\ s = Settled(w)
    OBVIOUS
  <2>2. q \in Clients /\ tx'[q] = s
    BY <1>3, <2>1 DEF Open
  <2>3. TxInv(db, renamed, tx[q])
    BY DEF ServiceInv
  <2>4. wr \cap tx[q].wrote = {}
        /\ \A r \in tx[q].shared : Val(db', r) # NULL \/ r \in tx[q].wrote
    OBVIOUS
  <2>5. TxInv(db', renamed', w)
    BY <1>1, <2>1, <2>3, <2>4, WarnKeeps
  <2>6. SameFate(s, w)
    BY <2>1, <2>5, SettledShape DEF TxInv
  <2>7. TxInv(db', renamed', s)
    BY <2>5, <2>6, FateKeeps
  <2>8. w.wrote = tx[q].wrote /\ w.op = tx[q].op /\ w.id = tx[q].id
    BY <2>1, <2>3 DEF Warned, TxInv, Transaction
  <2> QED BY <2>2, <2>6, <2>7, <2>8 DEF SameFate
<1>5. Open' \subseteq Open \ {p}
  BY <1>3 DEF Open
<1>6. tx' \in [Clients -> Transaction \cup {NULL}]
  <2>1. \A q \in Clients : tx'[q] \in Transaction \cup {NULL}
    BY <1>3, <1>4 DEF TxInv
  <2>2. tx' = [q \in Clients |-> tx'[q]]
    BY DEF Publish
  <2> QED BY <2>1, <2>2
<1>7. UsedIds'
  <2>1. /\ \A c \in Cards : Has(db', "catalog_cards", c) => c \in used'
        /\ \A k \in Kinds : Has(db', "catalog_movie_edition_kinds", k) => k \in used'
    BY <1>2 DEF Has, Val, CardRow, KindRow
  <2>2. \A q \in Open' : tx'[q].op \in {"PostCard", "PostMovieEditionKind"} => tx'[q].id \in used'
    BY <1>2, <1>4, <1>5 DEF ServiceInv, UsedIds
  <2> QED BY <2>1, <2>2 DEF UsedIds
<1>8. renamed' \subseteq used'
  <2>1. renamed' \subseteq renamed \cup Renamed(db, db')
    BY DEF Publish
  <2>2. Renamed(db, db') \subseteq used
    BY DEF Renamed, ServiceInv, UsedIds
  <2> QED BY <1>2, <2>1, <2>2 DEF ServiceInv
<1>9. \A q, u \in Open' : q # u => tx'[q].wrote \cap tx'[u].wrote = {}
  BY <1>4, <1>5 DEF ServiceInv
<1>10. \A q \in Open' : TxInv(db', renamed', tx'[q])
  BY <1>4, <1>5
<1>11. requests' \in 0 .. MaxPatchRequests /\ used' \subseteq Cards \cup Kinds \cup Media \cup Sets
  BY <1>2 DEF ServiceInv
<1> QED BY <1>6, <1>7, <1>8, <1>9, <1>10, <1>11 DEF ServiceInv

(* The invariants of the tables, row by row.                               *)
DetailRows(v) ==
  \A c \in Cards :
    IF Val(v, CardRow(c)) # NULL
    THEN (Val(v, MovieRow(c)) # NULL) # (Val(v, EditionRow(c)) # NULL)
    ELSE Val(v, MovieRow(c)) = NULL /\ Val(v, EditionRow(c)) = NULL

EditionRows(v) ==
  \A e \in Cards : Val(v, EditionRow(e)) # NULL =>
    /\ Val(v, KindRow(Val(v, EditionRow(e)).kind_id)) # NULL
    /\ Val(v, MovieRow(Val(v, EditionRow(e)).movie_card_id)) # NULL

LinkRows(v) ==
  /\ \A m \in Media : Val(v, MediaRow(m)) # NULL =>
       \/ Val(v, MediaRow(m)).media_set_id = NULL
       \/ Val(v, SetRow(Val(v, MediaRow(m)).media_set_id)) # NULL
  /\ \A m \in Media, c \in Cards : Val(v, MediaLink(m, c)) # NULL =>
       Val(v, MediaRow(m)) # NULL /\ Val(v, CardRow(c)) # NULL
  /\ \A s \in Sets, c \in Cards : Val(v, SetLink(s, c)) # NULL =>
       Val(v, SetRow(s)) # NULL /\ Val(v, CardRow(c)) # NULL

NameRows(v, ren) ==
  /\ \A c, d \in Cards \ ren :
       /\ Val(v, CardRow(c)) # NULL /\ Val(v, CardRow(d)) # NULL
       /\ Lower[Val(v, CardRow(c))] = Lower[Val(v, CardRow(d))]
       => c = d
  /\ \A j, k \in Kinds \ ren :
       /\ Val(v, KindRow(j)) # NULL /\ Val(v, KindRow(k)) # NULL
       /\ Lower[Val(v, KindRow(j)).name] = Lower[Val(v, KindRow(k)).name]
       => j = k

OneDefault(v) ==
  \A j, k \in Kinds : IsDefault(v, KindRow(j)) /\ IsDefault(v, KindRow(k)) => j = k

DbRowsInv(v, ren) ==
  /\ v \in Tables
  /\ DetailRows(v) /\ EditionRows(v) /\ LinkRows(v) /\ NameRows(v, ren) /\ OneDefault(v)

(* They say the same as the properties.                                    *)
LEMMA DbRows == DbInv <=> DbRowsInv(db, renamed)
<1>1. OneDetail <=> DetailRows(db)
  BY ValNames DEF OneDetail, DetailRows, IsMovie, IsEdition, Has
<1>2. EditionsComplete <=> EditionRows(db)
  BY ValNames DEF EditionsComplete, EditionRows, IsMovie, IsEdition, Has
<1>3. LinksComplete <=> LinkRows(db)
  <2>1. /\ \A m \in Media : Val(db, MediaRow(m)) = db.media[m]
        /\ \A s : Val(db, SetRow(s)) = db.media_sets[s]
        /\ \A c \in Cards : Val(db, CardRow(c)) = db.catalog_cards[c]
        /\ \A m \in Media, c \in Cards : Val(db, MediaLink(m, c)) = db.media_x_cards[<<m, c>>]
        /\ \A s \in Sets, c \in Cards :
             Val(db, SetLink(s, c)) = db.media_sets_x_cards[<<s, c>>]
    BY ValNames
  <2>2. (\A m \in Media : Has(db, "media", m) =>
           \/ db.media[m].media_set_id = NULL
           \/ Has(db, "media_sets", db.media[m].media_set_id))
        <=> (\A m \in Media : Val(db, MediaRow(m)) # NULL =>
               \/ Val(db, MediaRow(m)).media_set_id = NULL
               \/ Val(db, SetRow(Val(db, MediaRow(m)).media_set_id)) # NULL)
    BY <2>1 DEF Has
  <2>3. \A m \in Media, c \in Cards :
          Has(db, "media_x_cards", <<m, c>>) <=> Val(db, MediaLink(m, c)) # NULL
    BY <2>1 DEF Has
  <2>4. \A s \in Sets, c \in Cards :
          Has(db, "media_sets_x_cards", <<s, c>>) <=> Val(db, SetLink(s, c)) # NULL
    BY <2>1 DEF Has
  <2>5. /\ \A m \in Media : Has(db, "media", m) <=> Val(db, MediaRow(m)) # NULL
        /\ \A s \in Sets : Has(db, "media_sets", s) <=> Val(db, SetRow(s)) # NULL
        /\ \A c \in Cards : Has(db, "catalog_cards", c) <=> Val(db, CardRow(c)) # NULL
    BY <2>1 DEF Has
  <2> QED BY <2>2, <2>3, <2>4, <2>5 DEF LinksComplete, LinkRows
<1>4. db \in Tables => (UniqueNames <=> NameRows(db, renamed))
  <2> SUFFICES ASSUME db \in Tables
               PROVE  UniqueNames <=> NameRows(db, renamed)
    OBVIOUS
  <2>1. /\ \A c \in Cards : Val(db, CardRow(c)) # NULL => Val(db, CardRow(c)) \in Names
        /\ \A k \in Kinds : Val(db, KindRow(k)) # NULL => Val(db, KindRow(k)).name \in Names
    BY ValTypes, SchemaAssumption DEF Kind
  <2>2. \A n : CardNamed(db, n) =
          {c \in Cards : Val(db, CardRow(c)) # NULL /\ Lower[Val(db, CardRow(c))] = Lower[n]}
    BY ValNames DEF CardNamed, Has
  <2>3. \A n : KindNamed(db, n) =
          {k \in Kinds : Val(db, KindRow(k)) # NULL
                         /\ Lower[Val(db, KindRow(k)).name] = Lower[n]}
    BY ValNames DEF KindNamed, Has
  <2>4. (\A n \in Names : \A c, d \in CardNamed(db, n) \ renamed : c = d)
        <=> \A c, d \in Cards \ renamed :
              /\ Val(db, CardRow(c)) # NULL /\ Val(db, CardRow(d)) # NULL
              /\ Lower[Val(db, CardRow(c))] = Lower[Val(db, CardRow(d))]
              => c = d
    BY <2>1, <2>2
  <2>5. (\A n \in Names : \A j, k \in KindNamed(db, n) \ renamed : j = k)
        <=> \A j, k \in Kinds \ renamed :
              /\ Val(db, KindRow(j)) # NULL /\ Val(db, KindRow(k)) # NULL
              /\ Lower[Val(db, KindRow(j)).name] = Lower[Val(db, KindRow(k)).name]
              => j = k
    BY <2>1, <2>3
  <2> QED BY <2>4, <2>5 DEF UniqueNames, NameRows
<1>5. AtMostOneDefault <=> OneDefault(db)
  BY DefaultRows DEF AtMostOneDefault, OneDefault
<1> QED BY <1>1, <1>2, <1>3, <1>4, <1>5 DEF DbInv, DbRowsInv

(* The same after a step.                                                  *)
LEMMA DbRowsNext == DbInv' <=> DbRowsInv(db', renamed')
<1> DEFINE inv == DbRowsInv(db, renamed)
<1>1. DbInv <=> inv
  BY DbRows
<1> HIDE DEF inv
<1>2. DbInv' <=> inv'
  BY <1>1, PTL
<1> QED BY <1>2 DEF inv

(* Of an open transaction t that can commit with the result e.             *)
CommitRows(d, t, e) ==
  /\ \A r \in Rows : Val(e, r) = IF r \in t.wrote THEN Val(t.view, r) ELSE Val(d, r)
  /\ \A r \in Rows : r[1] \notin LinkTables /\ Val(d, r) # NULL => Val(e, r) # NULL
  /\ \A r \in Rows : r[1] \notin LinkTables /\ Val(d, r) = NULL /\ Val(e, r) # NULL =>
       r \in t.wrote /\ IsNew(t, r)
  /\ \A r \in t.shared : Val(e, r) # NULL

(* A commit removes nothing but links, and what it has locked is there.    *)
LEMMA CommitShape ==
  ASSUME NEW d \in Tables, NEW ren, NEW t, TxInv(d, ren, t), NEW e,
         e = Overwrite(d, t.view, t.wrote)
  PROVE  e \in Tables /\ CommitRows(d, t, e)
<1>1. t.view \in Tables /\ t.wrote \subseteq Rows /\ t.shared \subseteq Rows
  BY DEF TxInv, Transaction
<1>2. e \in Tables /\ \A r \in Rows : Val(e, r) = IF r \in t.wrote THEN Val(t.view, r) ELSE Val(d, r)
  BY <1>1, OverwriteShape
<1>3. \A r \in t.wrote : RowStays(d, t, r)
  BY DEF TxInv, RowTx
<1>4. \A r \in Rows : r[1] \notin LinkTables /\ Val(d, r) # NULL => Val(e, r) # NULL
  BY <1>2, <1>3 DEF RowStays
<1>5. \A r \in Rows : r[1] \notin LinkTables /\ Val(d, r) = NULL /\ Val(e, r) # NULL =>
        r \in t.wrote /\ IsNew(t, r)
  BY <1>2, <1>3 DEF RowStays
<1>6. \A r \in t.shared : Val(e, r) # NULL
  <2> SUFFICES ASSUME NEW r \in t.shared
               PROVE  Val(e, r) # NULL
    OBVIOUS
  <2>1. r[1] \notin LinkTables /\ (Val(d, r) # NULL \/ r \in t.wrote) /\ r \in Rows
    BY <1>1 DEF TxInv, SharedStay
  <2> QED BY <1>2, <1>3, <1>4, <2>1 DEF RowStays
<1> QED BY <1>2, <1>4, <1>5, <1>6 DEF CommitRows

(* A commit keeps each card a movie or an edition.                         *)
LEMMA CommitDetail ==
  ASSUME NEW d, NEW ren, NEW t, TxInv(d, ren, t), NEW e, CommitRows(d, t, e), DetailRows(d)
  PROVE  DetailRows(e)
<1> SUFFICES ASSUME NEW c \in Cards
             PROVE  IF Val(e, CardRow(c)) # NULL
                    THEN (Val(e, MovieRow(c)) # NULL) # (Val(e, EditionRow(c)) # NULL)
                    ELSE Val(e, MovieRow(c)) = NULL /\ Val(e, EditionRow(c)) = NULL
  BY DEF DetailRows
<1>1. /\ CardRow(c) \in Rows /\ MovieRow(c) \in Rows /\ EditionRow(c) \in Rows
      /\ CardRow(c)[1] \notin LinkTables /\ MovieRow(c)[1] \notin LinkTables
      /\ EditionRow(c)[1] \notin LinkTables
  BY RowNames, RowTables DEF LinkTables
<1>2. CASE t.op = "PostCard" /\ t.id = c
  <2>1. /\ CardRow(c) \in t.wrote
        /\ (MovieRow(c) \in t.wrote) # (EditionRow(c) \in t.wrote)
        /\ Val(d, CardRow(c)) = NULL
    BY <1>2 DEF TxInv, NewCard
  <2>2. Val(d, MovieRow(c)) = NULL /\ Val(d, EditionRow(c)) = NULL
    BY <2>1 DEF DetailRows
  <2>3. \A r \in t.wrote : r[1] \notin LinkTables => Val(t.view, r) # NULL
    BY DEF TxInv, RowTx, RowStays
  <2>4. Val(e, CardRow(c)) # NULL
    BY <1>1, <2>1, <2>3 DEF CommitRows
  <2>5. /\ Val(e, MovieRow(c)) # NULL <=> MovieRow(c) \in t.wrote
        /\ Val(e, EditionRow(c)) # NULL <=> EditionRow(c) \in t.wrote
    BY <1>1, <2>2, <2>3 DEF CommitRows
  <2> QED BY <2>1, <2>4, <2>5
<1>3. CASE ~(t.op = "PostCard" /\ t.id = c)
  <2>1. ~IsNew(t, CardRow(c)) /\ ~IsNew(t, MovieRow(c)) /\ ~IsNew(t, EditionRow(c))
    BY <1>3 DEF IsNew, CardRow, MovieRow, EditionRow, KindRow, MediaRow, SetRow
  <2>2. /\ Val(e, CardRow(c)) # NULL <=> Val(d, CardRow(c)) # NULL
        /\ Val(e, MovieRow(c)) # NULL <=> Val(d, MovieRow(c)) # NULL
        /\ Val(e, EditionRow(c)) # NULL <=> Val(d, EditionRow(c)) # NULL
    BY <1>1, <2>1 DEF CommitRows
  <2> QED BY <2>2 DEF DetailRows
<1> QED BY <1>2, <1>3

(* A commit leaves every edition with its kind and its movie.              *)
LEMMA CommitEditions ==
  ASSUME NEW d \in Tables, NEW ren, NEW t, TxInv(d, ren, t), NEW e, CommitRows(d, t, e),
         EditionRows(d)
  PROVE  EditionRows(e)
<1> SUFFICES ASSUME NEW x \in Cards, Val(e, EditionRow(x)) # NULL
             PROVE  /\ Val(e, KindRow(Val(e, EditionRow(x)).kind_id)) # NULL
                    /\ Val(e, MovieRow(Val(e, EditionRow(x)).movie_card_id)) # NULL
  BY DEF EditionRows
<1>1. EditionRow(x) \in Rows /\ EditionRow(x)[1] = "catalog_movie_editions"
  BY RowNames, RowTables
<1>2. ASSUME Val(d, EditionRow(x)) # NULL
      PROVE  /\ Val(e, KindRow(Val(d, EditionRow(x)).kind_id)) # NULL
             /\ Val(e, MovieRow(Val(d, EditionRow(x)).movie_card_id)) # NULL
  <2>1. Val(d, EditionRow(x)) \in Edition
    BY <1>2, ValTypes
  <2>2. PICK k \in Kinds, m \in Cards :
          k = Val(d, EditionRow(x)).kind_id /\ m = Val(d, EditionRow(x)).movie_card_id
    BY <2>1 DEF Edition
  <2>3. Val(d, KindRow(k)) # NULL /\ Val(d, MovieRow(m)) # NULL
    BY <1>2, <2>2 DEF EditionRows
  <2>4. /\ KindRow(k) \in Rows /\ MovieRow(m) \in Rows
        /\ KindRow(k)[1] \notin LinkTables /\ MovieRow(m)[1] \notin LinkTables
    BY RowNames, RowTables DEF LinkTables
  <2> QED BY <2>2, <2>3, <2>4 DEF CommitRows
<1>3. CASE EditionRow(x) \notin t.wrote
  <2>1. Val(e, EditionRow(x)) = Val(d, EditionRow(x))
    BY <1>1, <1>3 DEF CommitRows
  <2> QED BY <1>2, <2>1
<1>4. CASE EditionRow(x) \in t.wrote
  <2>1. PICK w : w = Val(t.view, EditionRow(x))
    OBVIOUS
  <2>2. Val(e, EditionRow(x)) = w
    BY <1>1, <1>4, <2>1 DEF CommitRows
  <2>3. RowEdition(d, t, EditionRow(x))
    BY <1>4 DEF TxInv, RowTx
  <2>4. /\ KindRow(w.kind_id) \in t.shared
        /\ \/ MovieRow(w.movie_card_id) \in t.shared
           \/ /\ Val(d, EditionRow(x)) # NULL
              /\ Val(d, EditionRow(x)).movie_card_id = w.movie_card_id
    BY <1>1, <2>1, <2>3 DEF RowEdition
  <2>5. Val(e, KindRow(w.kind_id)) # NULL
    BY <2>4 DEF CommitRows
  <2>6. Val(e, MovieRow(w.movie_card_id)) # NULL
    BY <1>2, <2>4 DEF CommitRows
  <2> QED BY <2>2, <2>5, <2>6
<1> QED BY <1>3, <1>4

(* A commit leaves every link with what it links.                          *)
LEMMA CommitLinks ==
  ASSUME NEW d \in Tables, NEW ren, NEW t, TxInv(d, ren, t), NEW e, CommitRows(d, t, e),
         LinkRows(d)
  PROVE  LinkRows(e)
<1>1. \A r \in t.wrote : RowMedia(d, t, r) /\ RowLink(d, t, r) /\ RowStays(d, t, r)
  BY DEF TxInv, RowTx
<1>2. /\ \A c \in Cards : CardRow(c) \in Rows /\ CardRow(c)[1] \notin LinkTables
      /\ \A s \in Sets : SetRow(s) \in Rows /\ SetRow(s)[1] \notin LinkTables
      /\ \A m \in Media : MediaRow(m) \in Rows /\ MediaRow(m)[1] \notin LinkTables
  BY RowNames, RowTables DEF LinkTables
<1>3. ASSUME NEW r \in t.shared \cup t.wrote, r[1] \notin LinkTables
      PROVE  Val(e, r) # NULL
  <2>1. t.wrote \subseteq Rows
    BY DEF TxInv, Transaction
  <2> QED BY <1>1, <1>3, <2>1 DEF CommitRows, RowStays
<1>4. ASSUME NEW m \in Media, Val(e, MediaRow(m)) # NULL
      PROVE  \/ Val(e, MediaRow(m)).media_set_id = NULL
             \/ Val(e, SetRow(Val(e, MediaRow(m)).media_set_id)) # NULL
  <2>1. ASSUME Val(d, MediaRow(m)) # NULL
        PROVE  \/ Val(d, MediaRow(m)).media_set_id = NULL
               \/ Val(e, SetRow(Val(d, MediaRow(m)).media_set_id)) # NULL
    <3>1. Val(d, MediaRow(m)) \in Medium
      BY <2>1, ValTypes
    <3>2. PICK s \in Sets \cup {NULL} : s = Val(d, MediaRow(m)).media_set_id
      BY <3>1 DEF Medium
    <3>3. s = NULL \/ Val(d, SetRow(s)) # NULL
      BY <2>1, <3>2 DEF LinkRows
    <3> QED BY <1>2, <3>2, <3>3 DEF CommitRows
  <2>2. CASE MediaRow(m) \notin t.wrote
    <3>1. Val(e, MediaRow(m)) = Val(d, MediaRow(m))
      BY <1>2, <2>2 DEF CommitRows
    <3> QED BY <1>4, <2>1, <3>1
  <2>3. CASE MediaRow(m) \in t.wrote
    <3>1. PICK w : w = Val(t.view, MediaRow(m))
      OBVIOUS
    <3>2. Val(e, MediaRow(m)) = w
      BY <1>2, <2>3, <3>1 DEF CommitRows
    <3>3. \/ w.media_set_id = NULL
          \/ SetRow(w.media_set_id) \in t.shared
          \/ Val(d, MediaRow(m)) # NULL /\ Val(d, MediaRow(m)).media_set_id = w.media_set_id
      BY <1>1, <2>3, <3>1, RowTables DEF RowMedia
    <3> QED BY <2>1, <3>2, <3>3 DEF CommitRows
  <2> QED BY <2>2, <2>3
<1>5. ASSUME NEW m \in Media, NEW c \in Cards, Val(e, MediaLink(m, c)) # NULL
      PROVE  Val(e, MediaRow(m)) # NULL /\ Val(e, CardRow(c)) # NULL
  <2>1. MediaLink(m, c) \in Rows /\ MediaLink(m, c)[1] = "media_x_cards"
        /\ MediaLink(m, c)[2][1] = m /\ MediaLink(m, c)[2][2] = c
    BY RowNames DEF MediaLink
  <2>2. CASE MediaLink(m, c) \notin t.wrote
    <3>1. Val(d, MediaLink(m, c)) # NULL
      BY <1>5, <2>1, <2>2 DEF CommitRows
    <3> QED BY <1>2, <3>1 DEF CommitRows, LinkRows
  <2>3. CASE MediaLink(m, c) \in t.wrote
    <3>1. Val(t.view, MediaLink(m, c)) # NULL
      BY <1>5, <2>1, <2>3 DEF CommitRows
    <3>2. CardRow(c) \in t.shared /\ MediaRow(m) \in t.shared \cup t.wrote
      BY <1>1, <2>1, <2>3, <3>1 DEF RowLink, LinkTables
    <3> QED BY <1>2, <1>3, <3>2
  <2> QED BY <2>2, <2>3
<1>6. ASSUME NEW s \in Sets, NEW c \in Cards, Val(e, SetLink(s, c)) # NULL
      PROVE  Val(e, SetRow(s)) # NULL /\ Val(e, CardRow(c)) # NULL
  <2>1. SetLink(s, c) \in Rows /\ SetLink(s, c)[1] = "media_sets_x_cards"
        /\ SetLink(s, c)[2][1] = s /\ SetLink(s, c)[2][2] = c
    BY RowNames DEF SetLink
  <2>2. CASE SetLink(s, c) \notin t.wrote
    <3>1. Val(d, SetLink(s, c)) # NULL
      BY <1>6, <2>1, <2>2 DEF CommitRows
    <3> QED BY <1>2, <3>1 DEF CommitRows, LinkRows
  <2>3. CASE SetLink(s, c) \in t.wrote
    <3>1. Val(t.view, SetLink(s, c)) # NULL
      BY <1>6, <2>1, <2>3 DEF CommitRows
    <3>2. CardRow(c) \in t.shared /\ SetRow(s) \in t.shared \cup t.wrote
      BY <1>1, <2>1, <2>3, <3>1 DEF RowLink, LinkTables
    <3> QED BY <1>2, <1>3, <3>2
  <2> QED BY <2>2, <2>3
<1> QED BY <1>4, <1>5, <1>6 DEF LinkRows

(* A commit cannot bring a name that is in use already.                    *)
LEMMA CommitNames ==
  ASSUME NEW d, NEW ren, NEW ten, NEW t, TxInv(d, ren, t), ~Doomed(t), NEW e,
         CommitRows(d, t, e), NamesKept(d, e, ren, ten), NameRows(d, ren)
  PROVE  NameRows(e, ten)
<1>1. ASSUME NEW c \in Cards \ ten, Val(e, CardRow(c)) # NULL, Val(d, CardRow(c)) = NULL
      PROVE  /\ t.op = "PostCard" /\ t.id = c
             /\ Val(e, CardRow(c)) = Val(t.view, CardRow(t.id))
  <2>1. CardRow(c) \in Rows /\ CardRow(c)[1] = "catalog_cards"
        /\ CardRow(c)[1] \notin LinkTables
    BY RowNames, RowTables DEF LinkTables
  <2>2. CardRow(c) \in t.wrote /\ IsNew(t, CardRow(c))
    BY <1>1, <2>1 DEF CommitRows
  <2>3. t.op = "PostCard" /\ CardRow(c) = CardRow(t.id)
    BY <2>1, <2>2, RowTables DEF IsNew
  <2>4. t.id = c
    BY <2>3 DEF CardRow
  <2> QED BY <2>1, <2>2, <2>3, <2>4 DEF CommitRows
<1>2. ASSUME NEW k \in Kinds \ ten, Val(e, KindRow(k)) # NULL, Val(d, KindRow(k)) = NULL
      PROVE  /\ t.op = "PostMovieEditionKind" /\ t.id = k
             /\ Val(e, KindRow(k)) = Val(t.view, KindRow(t.id))
  <2>1. KindRow(k) \in Rows /\ KindRow(k)[1] = "catalog_movie_edition_kinds"
        /\ KindRow(k)[1] \notin LinkTables
    BY RowNames, RowTables DEF LinkTables
  <2>2. KindRow(k) \in t.wrote /\ IsNew(t, KindRow(k))
    BY <1>2, <2>1 DEF CommitRows
  <2>3. t.op = "PostMovieEditionKind" /\ KindRow(k) = KindRow(t.id)
    BY <2>1, <2>2, RowTables DEF IsNew
  <2>4. t.id = k
    BY <2>3 DEF KindRow
  <2> QED BY <2>1, <2>2, <2>3, <2>4 DEF CommitRows
<1>3. ASSUME NEW c \in Cards \ ten, Val(e, CardRow(c)) # NULL, Val(d, CardRow(c)) # NULL
      PROVE  c \in Cards \ ren /\ Val(d, CardRow(c)) = Val(e, CardRow(c))
  BY <1>3 DEF NamesKept
<1>4. ASSUME NEW k \in Kinds \ ten, Val(e, KindRow(k)) # NULL, Val(d, KindRow(k)) # NULL
      PROVE  k \in Kinds \ ren /\ Val(d, KindRow(k)).name = Val(e, KindRow(k)).name
  BY <1>4 DEF NamesKept
<1>5. ASSUME NEW c \in Cards \ ten, NEW x \in Cards \ ten,
             Val(e, CardRow(c)) # NULL, Val(e, CardRow(x)) # NULL,
             Lower[Val(e, CardRow(c))] = Lower[Val(e, CardRow(x))]
      PROVE  c = x
  <2>1. ASSUME NEW a \in Cards \ ten, NEW b \in Cards \ ten,
               Val(e, CardRow(a)) # NULL, Val(e, CardRow(b)) # NULL,
               Lower[Val(e, CardRow(a))] = Lower[Val(e, CardRow(b))],
               Val(d, CardRow(a)) = NULL, Val(d, CardRow(b)) # NULL
        PROVE  FALSE
    <3>1. t.op = "PostCard" /\ Val(e, CardRow(a)) = Val(t.view, CardRow(t.id))
      BY <1>1, <2>1
    <3>2. b \in Cards \ ren /\ Val(d, CardRow(b)) = Val(e, CardRow(b))
      BY <1>3, <2>1
    <3> QED BY <2>1, <3>1, <3>2 DEF TxInv, NewCardName
  <2>2. CASE Val(d, CardRow(c)) = NULL /\ Val(d, CardRow(x)) = NULL
    BY <1>1, <1>5, <2>2
  <2>3. CASE Val(d, CardRow(c)) # NULL /\ Val(d, CardRow(x)) # NULL
    <3>1. /\ c \in Cards \ ren /\ Val(d, CardRow(c)) = Val(e, CardRow(c))
          /\ x \in Cards \ ren /\ Val(d, CardRow(x)) = Val(e, CardRow(x))
      BY <1>3, <1>5, <2>3
    <3> QED BY <1>5, <2>3, <3>1 DEF NameRows
  <2> QED BY <1>5, <2>1, <2>2, <2>3
<1>6. ASSUME NEW j \in Kinds \ ten, NEW k \in Kinds \ ten,
             Val(e, KindRow(j)) # NULL, Val(e, KindRow(k)) # NULL,
             Lower[Val(e, KindRow(j)).name] = Lower[Val(e, KindRow(k)).name]
      PROVE  j = k
  <2>1. ASSUME NEW a \in Kinds \ ten, NEW b \in Kinds \ ten,
               Val(e, KindRow(a)) # NULL, Val(e, KindRow(b)) # NULL,
               Lower[Val(e, KindRow(a)).name] = Lower[Val(e, KindRow(b)).name],
               Val(d, KindRow(a)) = NULL, Val(d, KindRow(b)) # NULL
        PROVE  FALSE
    <3>1. t.op = "PostMovieEditionKind" /\ Val(e, KindRow(a)) = Val(t.view, KindRow(t.id))
      BY <1>2, <2>1
    <3>2. b \in Kinds \ ren /\ Val(d, KindRow(b)).name = Val(e, KindRow(b)).name
      BY <1>4, <2>1
    <3> QED BY <2>1, <3>1, <3>2 DEF TxInv, NewKindName
  <2>2. CASE Val(d, KindRow(j)) = NULL /\ Val(d, KindRow(k)) = NULL
    BY <1>2, <1>6, <2>2
  <2>3. CASE Val(d, KindRow(j)) # NULL /\ Val(d, KindRow(k)) # NULL
    <3>1. /\ j \in Kinds \ ren /\ Val(d, KindRow(j)).name = Val(e, KindRow(j)).name
          /\ k \in Kinds \ ren /\ Val(d, KindRow(k)).name = Val(e, KindRow(k)).name
      BY <1>4, <1>6, <2>3
    <3> QED BY <1>6, <2>3, <3>1 DEF NameRows
  <2> QED BY <1>6, <2>1, <2>2, <2>3
<1> QED BY <1>5, <1>6 DEF NameRows

(* A kind that is the default after a commit was it before, or was made it *)
(* by this transaction.                                                    *)
LEMMA CommitSets ==
  ASSUME NEW d, NEW ren, NEW t, TxInv(d, ren, t), NEW e, CommitRows(d, t, e),
         NEW k \in Kinds, IsDefault(e, KindRow(k))
  PROVE  IF KindRow(k) \in t.wrote
         THEN /\ t.id = k /\ Val(t.view, KindRow(k)).is_default
              /\ \/ IsDefault(d, KindRow(k))
                 \/ RowsOf("catalog_movie_edition_kinds") \subseteq t.reads
         ELSE IsDefault(d, KindRow(k))
<1>1. KindRow(k) \in Rows /\ KindRow(k)[1] = "catalog_movie_edition_kinds"
  BY RowNames, RowTables
<1>2. CASE KindRow(k) \notin t.wrote
  BY <1>1, <1>2 DEF CommitRows, IsDefault
<1>3. CASE KindRow(k) \in t.wrote
  <2>1. Val(t.view, KindRow(k)).is_default
    BY <1>1, <1>3 DEF CommitRows, IsDefault
  <2>2. RowKind(d, t, KindRow(k))
    BY <1>3 DEF TxInv, RowTx
  <2>3. KindRow(k) = KindRow(t.id)
    BY <1>1, <2>1, <2>2 DEF RowKind
  <2>4. t.id = k
    BY <2>3 DEF KindRow
  <2> QED BY <1>1, <1>3, <2>1, <2>2, <2>4 DEF RowKind
<1> QED BY <1>2, <1>3

(* A commit cannot leave two defaults.                                     *)
LEMMA CommitDefault ==
  ASSUME NEW d, NEW ren, NEW t, TxInv(d, ren, t), ~Doomed(t), NEW e, CommitRows(d, t, e),
         OneDefault(d)
  PROVE  OneDefault(e)
<1> SUFFICES ASSUME NEW j \in Kinds, NEW k \in Kinds, j # k,
                    IsDefault(e, KindRow(j)), IsDefault(e, KindRow(k))
             PROVE  FALSE
  BY DEF OneDefault
<1>1. ASSUME NEW a \in Kinds, NEW b \in Kinds, a # b, KindRow(a) \in t.wrote,
             KindRow(b) \notin t.wrote,
             IsDefault(e, KindRow(a)), IsDefault(e, KindRow(b))
      PROVE  FALSE
  <2>1. t.id = a /\ Val(t.view, KindRow(a)).is_default
    BY <1>1, CommitSets
  <2>2. IsDefault(d, KindRow(b))
    BY <1>1, CommitSets
  <2>3. ~IsDefault(d, KindRow(a))
    BY <1>1, <2>2 DEF OneDefault
  <2> QED BY <1>1, <2>1, <2>2, <2>3 DEF TxInv, NewDefault
<1>2. CASE KindRow(j) \in t.wrote /\ KindRow(k) \in t.wrote
  BY <1>2, CommitSets
<1>3. CASE KindRow(j) \notin t.wrote /\ KindRow(k) \notin t.wrote
  BY <1>3, CommitSets DEF OneDefault
<1> QED BY <1>1, <1>2, <1>3

(* What a commit adds is told to the others.                               *)
LEMMA CommitAnnounced ==
  ASSUME NEW d, NEW ren, NEW t, TxInv(d, ren, t), NEW e, CommitRows(d, t, e)
  PROVE  Announced(d, e, t.reads, t.wrote)
<1>1. \A r \in Rows \ t.wrote : Val(e, r) = Val(d, r)
  BY DEF CommitRows
<1>2. ASSUME NEW c \in Cards, Val(d, CardRow(c)) = NULL, Val(e, CardRow(c)) # NULL
      PROVE  CardRow(c) \in t.wrote /\ RowsOf("catalog_cards") \subseteq t.reads
  <2>1. CardRow(c) \in Rows /\ CardRow(c)[1] = "catalog_cards"
        /\ CardRow(c)[1] \notin LinkTables
    BY RowNames, RowTables DEF LinkTables
  <2>2. CardRow(c) \in t.wrote /\ IsNew(t, CardRow(c))
    BY <1>2, <2>1 DEF CommitRows
  <2>3. t.op = "PostCard"
    BY <2>1, <2>2, RowTables DEF IsNew
  <2> QED BY <2>2, <2>3 DEF TxInv, NewCardName
<1>3. ASSUME NEW k \in Kinds, Val(d, KindRow(k)) = NULL, Val(e, KindRow(k)) # NULL
      PROVE  /\ KindRow(k) \in t.wrote
             /\ RowsOf("catalog_movie_edition_kinds") \subseteq t.reads
  <2>1. KindRow(k) \in Rows /\ KindRow(k)[1] = "catalog_movie_edition_kinds"
        /\ KindRow(k)[1] \notin LinkTables
    BY RowNames, RowTables DEF LinkTables
  <2>2. KindRow(k) \in t.wrote /\ IsNew(t, KindRow(k))
    BY <1>3, <2>1 DEF CommitRows
  <2>3. t.op = "PostMovieEditionKind"
    BY <2>1, <2>2, RowTables DEF IsNew
  <2> QED BY <2>2, <2>3 DEF TxInv, NewKindName
<1>4. ASSUME NEW k \in Kinds, ~IsDefault(d, KindRow(k)), IsDefault(e, KindRow(k))
      PROVE  /\ KindRow(k) \in t.wrote
             /\ RowsOf("catalog_movie_edition_kinds") \subseteq t.reads
  BY <1>4, CommitSets
<1> QED BY <1>1, <1>2, <1>3, <1>4 DEF Announced

(* A commit adds only rows whose id is used.                               *)
LEMMA CommitIds ==
  ASSUME NEW d, NEW ren, NEW t, TxInv(d, ren, t), NEW e, CommitRows(d, t, e), NEW U,
         t.op \in {"PostCard", "PostMovieEditionKind"} => t.id \in U
  PROVE  /\ \A c \in Cards : (Val(d, CardRow(c)) # NULL => c \in U) =>
              (Val(e, CardRow(c)) # NULL => c \in U)
         /\ \A k \in Kinds : (Val(d, KindRow(k)) # NULL => k \in U) =>
              (Val(e, KindRow(k)) # NULL => k \in U)
<1>1. ASSUME NEW c \in Cards, Val(d, CardRow(c)) = NULL, Val(e, CardRow(c)) # NULL
      PROVE  c \in U
  <2>1. CardRow(c) \in Rows /\ CardRow(c)[1] = "catalog_cards"
        /\ CardRow(c)[1] \notin LinkTables
    BY RowNames, RowTables DEF LinkTables
  <2>2. IsNew(t, CardRow(c))
    BY <1>1, <2>1 DEF CommitRows
  <2>3. t.op = "PostCard" /\ CardRow(c) = CardRow(t.id)
    BY <2>1, <2>2, RowTables DEF IsNew
  <2> QED BY <2>3 DEF CardRow
<1>2. ASSUME NEW k \in Kinds, Val(d, KindRow(k)) = NULL, Val(e, KindRow(k)) # NULL
      PROVE  k \in U
  <2>1. KindRow(k) \in Rows /\ KindRow(k)[1] = "catalog_movie_edition_kinds"
        /\ KindRow(k)[1] \notin LinkTables
    BY RowNames, RowTables DEF LinkTables
  <2>2. IsNew(t, KindRow(k))
    BY <1>2, <2>1 DEF CommitRows
  <2>3. t.op = "PostMovieEditionKind" /\ KindRow(k) = KindRow(t.id)
    BY <2>1, <2>2, RowTables DEF IsNew
  <2> QED BY <2>3 DEF KindRow
<1> QED BY <1>1, <1>2

(* The commit of a transaction.                                            *)
LEMMA CommitStep ==
  ASSUME ServiceInv, NEW p \in Clients, Commit(p)
  PROVE  ServiceInv'
<1>0. PICK t : t = tx[p]
  OBVIOUS
<1>1. p \in Open /\ ~Doomed(t) /\ Publish(p, t.view, t.reads, t.wrote, Outdated(t))
  BY <1>0, DoomedFails DEF Commit
<1>2. TxInv(db, renamed, t) /\ db \in Tables /\ DbRowsInv(db, renamed)
  BY <1>0, <1>1, DbRows DEF ServiceInv, DbInv
<1>3. t.reads \in SUBSET Rows /\ t.wrote \in SUBSET Rows
  BY <1>2 DEF TxInv, Transaction
<1>4. db' = Overwrite(db, t.view, t.wrote)
  BY <1>1 DEF Publish
<1>5. db' \in Tables /\ CommitRows(db, t, db')
  BY <1>2, <1>4, CommitShape
<1>6. NamesKept(db, db', renamed, renamed')
  BY <1>1, NamesStay
<1>7. DetailRows(db')
  BY <1>2, <1>5, CommitDetail DEF DbRowsInv
<1>8. EditionRows(db')
  BY <1>2, <1>5, CommitEditions DEF DbRowsInv
<1>9. LinkRows(db')
  BY <1>2, <1>5, CommitLinks DEF DbRowsInv
<1>10. NameRows(db', renamed')
  BY <1>1, <1>2, <1>5, <1>6, CommitNames DEF DbRowsInv
<1>11. OneDefault(db')
  BY <1>1, <1>2, <1>5, CommitDefault DEF DbRowsInv
<1>12. DbInv'
  BY <1>5, <1>7, <1>8, <1>9, <1>10, <1>11, DbRowsNext DEF DbRowsInv
<1>13. Announced(db, db', t.reads, t.wrote)
  BY <1>2, <1>5, CommitAnnounced
<1>14. /\ \A c \in Cards : Val(db', CardRow(c)) # NULL => c \in used
       /\ \A k \in Kinds : Val(db', KindRow(k)) # NULL => k \in used
  <2>1. /\ \A c \in Cards : Val(db, CardRow(c)) # NULL => c \in used
        /\ \A k \in Kinds : Val(db, KindRow(k)) # NULL => k \in used
    BY DEF ServiceInv, UsedIds, Has, Val, CardRow, KindRow
  <2>2. t.op \in {"PostCard", "PostMovieEditionKind"} => t.id \in used
    BY <1>0, <1>1 DEF ServiceInv, UsedIds
  <2> QED BY <1>2, <1>5, <2>1, <2>2, CommitIds
<1>15. \A q \in Open \ {p} : t.wrote \cap tx[q].wrote = {}
  BY <1>0, <1>1 DEF ServiceInv
<1>16. ASSUME NEW q \in Open \ {p}, NEW r \in tx[q].shared
       PROVE  Val(db', r) # NULL \/ r \in tx[q].wrote
  <2>1. TxInv(db, renamed, tx[q])
    BY DEF ServiceInv
  <2>2. r \in Rows /\ r[1] \notin LinkTables /\ (Val(db, r) # NULL \/ r \in tx[q].wrote)
    BY <2>1 DEF TxInv, SharedStay, Transaction
  <2> QED BY <1>5, <2>2 DEF CommitRows
<1> QED BY <1>1, <1>3, <1>12, <1>13, <1>14, <1>15, <1>16, PublishStep

(* e is d without the rows R.                                              *)
Deleted(d, e, R) == \A r \in Rows : Val(e, r) = IF r \in R THEN NULL ELSE Val(d, r)

(* What a DELETE does to the tables.                                       *)
LEMMA DeleteShape ==
  ASSUME db \in Tables, NEW p, NEW row, NEW R, Delete(p, row, R)
  PROVE  db' \in Tables /\ Deleted(db, db', R)
<1>1. db' = Overwrite(db, EmptyTables, R)
  BY DEF Delete, Publish
<1>2. EmptyTables \in Tables /\ \A r \in Rows : Val(EmptyTables, r) = NULL
  BY EmptyShape
<1> QED BY <1>1, <1>2, OverwriteShape DEF Deleted

(* A DELETE keeps the invariant if its cascade leaves the references.      *)
LEMMA DeleteStep ==
  ASSUME ServiceInv, NEW p \in Clients, NEW row, NEW R \in SUBSET Rows, Delete(p, row, R),
         DetailRows(db'), EditionRows(db'), LinkRows(db')
  PROVE  ServiceInv'
<1>1. DbRowsInv(db, renamed) /\ db \in Tables
  BY DbRows DEF ServiceInv, DbInv
<1>2. db' \in Tables /\ Deleted(db, db', R)
  BY <1>1, DeleteShape
<1>3. \A r \in Rows : Val(db', r) # NULL => Val(db', r) = Val(db, r)
  BY <1>2 DEF Deleted
<1>4. /\ \A c \in Cards : Val(db', CardRow(c)) # NULL =>
           Val(db', CardRow(c)) = Val(db, CardRow(c))
      /\ \A k \in Kinds : Val(db', KindRow(k)) # NULL =>
           Val(db', KindRow(k)) = Val(db, KindRow(k))
  BY <1>3, RowNames
<1>5. Publish(p, EmptyTables, {row}, R, FALSE) /\ row \in R
      /\ R \cap (OthersWrote(p) \cup OthersShared(p)) = {}
  BY DEF Delete
<1>6. NamesKept(db, db', renamed, renamed')
  BY <1>5, NamesStay
<1>7. NameRows(db', renamed')
  <2>1. \A c \in Cards \ renamed' : Val(db', CardRow(c)) # NULL =>
          c \in Cards \ renamed /\ Val(db', CardRow(c)) = Val(db, CardRow(c))
    BY <1>4, <1>6 DEF NamesKept
  <2>2. \A k \in Kinds \ renamed' : Val(db', KindRow(k)) # NULL =>
          k \in Kinds \ renamed /\ Val(db', KindRow(k)) = Val(db, KindRow(k))
    BY <1>4, <1>6 DEF NamesKept
  <2> QED BY <1>1, <2>1, <2>2 DEF DbRowsInv, NameRows
<1>8. \A k \in Kinds : IsDefault(db', KindRow(k)) => IsDefault(db, KindRow(k))
  BY <1>4 DEF IsDefault
<1>9. DbInv'
  <2>1. OneDefault(db')
    BY <1>1, <1>8 DEF DbRowsInv, OneDefault
  <2> QED BY <1>2, <1>7, <2>1, DbRowsNext DEF DbRowsInv
<1>10. Announced(db, db', {row}, R)
  BY <1>2, <1>4, <1>8 DEF Announced, Deleted
<1>11. /\ \A c \in Cards : Val(db', CardRow(c)) # NULL => c \in used
       /\ \A k \in Kinds : Val(db', KindRow(k)) # NULL => k \in used
  <2>1. /\ \A c \in Cards : Val(db, CardRow(c)) # NULL => c \in used
        /\ \A k \in Kinds : Val(db, KindRow(k)) # NULL => k \in used
    BY DEF ServiceInv, UsedIds, Has, Val, CardRow, KindRow
  <2> QED BY <1>4, <2>1
<1>12. \A q \in Open \ {p} : R \cap tx[q].wrote = {} /\ R \cap tx[q].shared = {}
  BY <1>5 DEF OthersWrote, OthersShared
<1>13. ASSUME NEW q \in Open \ {p}, NEW r \in tx[q].shared
       PROVE  Val(db', r) # NULL \/ r \in tx[q].wrote
  <2>1. TxInv(db, renamed, tx[q])
    BY DEF ServiceInv
  <2>2. r \in Rows /\ (Val(db, r) # NULL \/ r \in tx[q].wrote)
    BY <2>1 DEF TxInv, SharedStay, Transaction
  <2> QED BY <1>2, <1>12, <2>2 DEF Deleted
<1>14. {row} \in SUBSET Rows
  BY <1>5
<1> QED BY <1>5, <1>9, <1>10, <1>11, <1>12, <1>13, <1>14, PublishStep

(* Deleting the cards D with all that hangs on them keeps the references,  *)
(* if D has with a movie its editions.                                     *)
LEMMA DeleteCards ==
  ASSUME NEW d \in Tables, NEW e, NEW D,
         DetailRows(d), EditionRows(d), LinkRows(d),
         \A c \in Cards :
           /\ Val(e, CardRow(c)) = IF c \in D THEN NULL ELSE Val(d, CardRow(c))
           /\ Val(e, MovieRow(c)) = IF c \in D THEN NULL ELSE Val(d, MovieRow(c))
           /\ Val(e, EditionRow(c)) = IF c \in D THEN NULL ELSE Val(d, EditionRow(c)),
         \A m \in Media, c \in Cards :
           Val(e, MediaLink(m, c)) = IF c \in D THEN NULL ELSE Val(d, MediaLink(m, c)),
         \A s \in Sets, c \in Cards :
           Val(e, SetLink(s, c)) = IF c \in D THEN NULL ELSE Val(d, SetLink(s, c)),
         \A k \in Kinds : Val(e, KindRow(k)) = Val(d, KindRow(k)),
         \A m \in Media : Val(e, MediaRow(m)) = Val(d, MediaRow(m)),
         \A s \in Sets : Val(e, SetRow(s)) = Val(d, SetRow(s)),
         \A x \in Cards : Val(d, EditionRow(x)) # NULL /\ x \notin D =>
           Val(d, EditionRow(x)).movie_card_id \notin D
  PROVE  DetailRows(e) /\ EditionRows(e) /\ LinkRows(e)
<1>1. DetailRows(e)
  BY DEF DetailRows
<1>2. ASSUME NEW x \in Cards, Val(e, EditionRow(x)) # NULL
      PROVE  /\ Val(e, KindRow(Val(e, EditionRow(x)).kind_id)) # NULL
             /\ Val(e, MovieRow(Val(e, EditionRow(x)).movie_card_id)) # NULL
  <2>1. x \notin D /\ Val(e, EditionRow(x)) = Val(d, EditionRow(x))
    BY <1>2
  <2>2. PICK k \in Kinds, m \in Cards :
          k = Val(d, EditionRow(x)).kind_id /\ m = Val(d, EditionRow(x)).movie_card_id
    <3>1. Val(d, EditionRow(x)) \in Edition
      BY <1>2, <2>1, ValTypes
    <3> QED BY <3>1 DEF Edition
  <2>3. Val(d, KindRow(k)) # NULL /\ Val(d, MovieRow(m)) # NULL /\ m \notin D
    BY <1>2, <2>1, <2>2 DEF EditionRows
  <2> QED BY <2>1, <2>2, <2>3
<1>3. ASSUME NEW m \in Media, Val(e, MediaRow(m)) # NULL
      PROVE  \/ Val(e, MediaRow(m)).media_set_id = NULL
             \/ Val(e, SetRow(Val(e, MediaRow(m)).media_set_id)) # NULL
  <2>1. Val(e, MediaRow(m)) = Val(d, MediaRow(m)) /\ Val(d, MediaRow(m)) \in Medium
    BY <1>3, ValTypes
  <2>2. PICK s \in Sets \cup {NULL} : s = Val(d, MediaRow(m)).media_set_id
    BY <2>1 DEF Medium
  <2>3. s = NULL \/ Val(d, SetRow(s)) # NULL
    BY <1>3, <2>1, <2>2 DEF LinkRows
  <2> QED BY <2>1, <2>2, <2>3
<1>4. \A m \in Media, c \in Cards : Val(e, MediaLink(m, c)) # NULL =>
        Val(e, MediaRow(m)) # NULL /\ Val(e, CardRow(c)) # NULL
  BY DEF LinkRows
<1>5. \A s \in Sets, c \in Cards : Val(e, SetLink(s, c)) # NULL =>
        Val(e, SetRow(s)) # NULL /\ Val(e, CardRow(c)) # NULL
  BY DEF LinkRows
<1>6. EditionRows(e)
  BY <1>2 DEF EditionRows
<1>7. LinkRows(e)
  BY <1>3, <1>4, <1>5 DEF LinkRows
<1> QED BY <1>1, <1>6, <1>7

(* DeleteCard: with a movie go its editions, by the trigger their cards.   *)
LEMMA DeleteCardStep ==
  ASSUME ServiceInv, NEW p \in Clients, NEW c \in Cards, DeleteCard(p, c)
  PROVE  ServiceInv'
<1>0. PICK R, D : R = CascadeOfCard(db, c) /\ D = {c} \cup EditionsOf(db, c)
  OBVIOUS
<1>1. DbRowsInv(db, renamed) /\ db \in Tables
  BY DbRows DEF ServiceInv, DbInv
<1>2. Delete(p, CardRow(c), R)
  BY <1>0 DEF DeleteCard
<1>3. db' \in Tables /\ Deleted(db, db', R)
  BY <1>1, <1>2, DeleteShape
<1>4. R = {r \in UNION {RowsOfCard(d) : d \in D} : Val(db, r) # NULL}
  BY <1>0 DEF CascadeOfCard, Has, Val
<1>5. D \subseteq Cards
  BY <1>0 DEF EditionsOf
<1>6. \A d : RowsOfCard(d) = {CardRow(d), MovieRow(d), EditionRow(d)}
                               \cup {MediaLink(m, d) : m \in Media}
                               \cup {SetLink(s, d) : s \in Sets}
  BY DEF RowsOfCard, CardRow, MovieRow, EditionRow, MediaLink, SetLink
<1>7. \A r \in R : \E d \in D : r \in RowsOfCard(d) /\ Val(db, r) # NULL
  BY <1>4
<1>8. R \in SUBSET Rows
  BY <1>5, <1>6, <1>7, RowNames
<1>9. ASSUME NEW x \in Cards
      PROVE  /\ CardRow(x) \in R <=> x \in D /\ Val(db, CardRow(x)) # NULL
             /\ MovieRow(x) \in R <=> x \in D /\ Val(db, MovieRow(x)) # NULL
             /\ EditionRow(x) \in R <=> x \in D /\ Val(db, EditionRow(x)) # NULL
  <2>1. ASSUME NEW d \in D
        PROVE  /\ CardRow(x) \in RowsOfCard(d) <=> x = d
               /\ MovieRow(x) \in RowsOfCard(d) <=> x = d
               /\ EditionRow(x) \in RowsOfCard(d) <=> x = d
    BY <1>6 DEF CardRow, MovieRow, EditionRow, MediaLink, SetLink
  <2> QED BY <1>4, <2>1
<1>10. ASSUME NEW m \in Media, NEW x \in Cards
       PROVE  MediaLink(m, x) \in R <=> x \in D /\ Val(db, MediaLink(m, x)) # NULL
  <2>1. ASSUME NEW d \in D
        PROVE  MediaLink(m, x) \in RowsOfCard(d) <=> x = d
    BY <1>6 DEF CardRow, MovieRow, EditionRow, MediaLink, SetLink
  <2> QED BY <1>4, <2>1
<1>11. ASSUME NEW s \in Sets, NEW x \in Cards
       PROVE  SetLink(s, x) \in R <=> x \in D /\ Val(db, SetLink(s, x)) # NULL
  <2>1. ASSUME NEW d \in D
        PROVE  SetLink(s, x) \in RowsOfCard(d) <=> x = d
    BY <1>6 DEF CardRow, MovieRow, EditionRow, MediaLink, SetLink
  <2> QED BY <1>4, <2>1
<1>12. \A r \in R : r[1] \notin {"catalog_movie_edition_kinds", "media", "media_sets"}
  BY <1>6, <1>7, RowTables
<1>13. /\ \A k \in Kinds : Val(db', KindRow(k)) = Val(db, KindRow(k))
       /\ \A m \in Media : Val(db', MediaRow(m)) = Val(db, MediaRow(m))
       /\ \A s \in Sets : Val(db', SetRow(s)) = Val(db, SetRow(s))
  BY <1>3, <1>12, RowNames, RowTables DEF Deleted
<1>14. \A x \in Cards :
         /\ Val(db', CardRow(x)) = IF x \in D THEN NULL ELSE Val(db, CardRow(x))
         /\ Val(db', MovieRow(x)) = IF x \in D THEN NULL ELSE Val(db, MovieRow(x))
         /\ Val(db', EditionRow(x)) = IF x \in D THEN NULL ELSE Val(db, EditionRow(x))
  BY <1>3, <1>9, RowNames DEF Deleted
<1>15. \A m \in Media, x \in Cards :
         Val(db', MediaLink(m, x)) = IF x \in D THEN NULL ELSE Val(db, MediaLink(m, x))
  BY <1>3, <1>10, RowNames DEF Deleted
<1>16. \A s \in Sets, x \in Cards :
         Val(db', SetLink(s, x)) = IF x \in D THEN NULL ELSE Val(db, SetLink(s, x))
  BY <1>3, <1>11, RowNames DEF Deleted
<1>17. ASSUME NEW x \in Cards, Val(db, EditionRow(x)) # NULL, x \notin D
       PROVE  Val(db, EditionRow(x)).movie_card_id \notin D
  <2>1. EditionsOf(db, c) =
          {y \in Cards : /\ Val(db, EditionRow(y)) # NULL
                         /\ Val(db, EditionRow(y)).movie_card_id = c}
    BY ValNames DEF EditionsOf, Has
  <2>2. Val(db, EditionRow(x)).movie_card_id # c
    BY <1>0, <1>17, <2>1
  <2>3. Val(db, MovieRow(Val(db, EditionRow(x)).movie_card_id)) # NULL
    BY <1>1, <1>17 DEF DbRowsInv, EditionRows
  <2>4. \A y \in EditionsOf(db, c) : Val(db, MovieRow(y)) = NULL
    BY <1>1, <2>1 DEF DbRowsInv, DetailRows
  <2> QED BY <1>0, <2>2, <2>3, <2>4
<1>18. DetailRows(db') /\ EditionRows(db') /\ LinkRows(db')
  BY <1>1, <1>13, <1>14, <1>15, <1>16, <1>17, DeleteCards DEF DbRowsInv
<1> QED BY <1>2, <1>8, <1>18, DeleteStep

(* Deleting rows of the other tables keeps the references, if no edition   *)
(* has such a kind, no media such a set, and their links go with them.     *)
LEMMA DeleteOthers ==
  ASSUME NEW d \in Tables, NEW e, NEW R,
         DetailRows(d), EditionRows(d), LinkRows(d), Deleted(d, e, R),
         \A r \in R : r[1] \notin {"catalog_cards", "catalog_movies", "catalog_movie_editions"},
         \A x \in Cards : Val(d, EditionRow(x)) # NULL =>
           KindRow(Val(d, EditionRow(x)).kind_id) \notin R,
         \A m \in Media : Val(d, MediaRow(m)) # NULL =>
           SetRow(Val(d, MediaRow(m)).media_set_id) \notin R,
         \A m \in Media, c \in Cards : MediaRow(m) \in R =>
           MediaLink(m, c) \in R \/ Val(d, MediaLink(m, c)) = NULL,
         \A s \in Sets, c \in Cards : SetRow(s) \in R =>
           SetLink(s, c) \in R \/ Val(d, SetLink(s, c)) = NULL
  PROVE  DetailRows(e) /\ EditionRows(e) /\ LinkRows(e)
<1>1. \A c \in Cards : /\ Val(e, CardRow(c)) = Val(d, CardRow(c))
                       /\ Val(e, MovieRow(c)) = Val(d, MovieRow(c))
                       /\ Val(e, EditionRow(c)) = Val(d, EditionRow(c))
  BY RowNames, RowTables DEF Deleted
<1>2. DetailRows(e)
  BY <1>1 DEF DetailRows
<1>3. ASSUME NEW x \in Cards, Val(e, EditionRow(x)) # NULL
      PROVE  /\ Val(e, KindRow(Val(e, EditionRow(x)).kind_id)) # NULL
             /\ Val(e, MovieRow(Val(e, EditionRow(x)).movie_card_id)) # NULL
  <2>1. Val(d, EditionRow(x)) # NULL /\ Val(e, EditionRow(x)) = Val(d, EditionRow(x))
    BY <1>1, <1>3
  <2>2. PICK k \in Kinds, m \in Cards :
          k = Val(d, EditionRow(x)).kind_id /\ m = Val(d, EditionRow(x)).movie_card_id
    <3>1. Val(d, EditionRow(x)) \in Edition
      BY <2>1, ValTypes
    <3> QED BY <3>1 DEF Edition
  <2>3. Val(d, KindRow(k)) # NULL /\ Val(d, MovieRow(m)) # NULL /\ KindRow(k) \notin R
    BY <2>1, <2>2 DEF EditionRows
  <2> QED BY <1>1, <2>1, <2>2, <2>3, RowNames DEF Deleted
<1>4. ASSUME NEW m \in Media, Val(e, MediaRow(m)) # NULL
      PROVE  \/ Val(e, MediaRow(m)).media_set_id = NULL
             \/ Val(e, SetRow(Val(e, MediaRow(m)).media_set_id)) # NULL
  <2>1. Val(d, MediaRow(m)) # NULL /\ Val(e, MediaRow(m)) = Val(d, MediaRow(m))
    BY <1>4, RowNames DEF Deleted
  <2>2. PICK s \in Sets \cup {NULL} : s = Val(d, MediaRow(m)).media_set_id
    <3>1. Val(d, MediaRow(m)) \in Medium
      BY <2>1, ValTypes
    <3> QED BY <3>1 DEF Medium
  <2>3. (s = NULL \/ Val(d, SetRow(s)) # NULL) /\ SetRow(s) \notin R
    BY <2>1, <2>2 DEF LinkRows
  <2> QED BY <2>1, <2>2, <2>3, RowNames DEF Deleted
<1>5. ASSUME NEW m \in Media, NEW c \in Cards, Val(e, MediaLink(m, c)) # NULL
      PROVE  Val(e, MediaRow(m)) # NULL /\ Val(e, CardRow(c)) # NULL
  <2>1. Val(d, MediaLink(m, c)) # NULL /\ MediaLink(m, c) \notin R
    BY <1>5, RowNames DEF Deleted
  <2>2. MediaRow(m) \notin R /\ Val(d, MediaRow(m)) # NULL /\ Val(d, CardRow(c)) # NULL
    BY <2>1 DEF LinkRows
  <2> QED BY <1>1, <2>2, RowNames DEF Deleted
<1>6. ASSUME NEW s \in Sets, NEW c \in Cards, Val(e, SetLink(s, c)) # NULL
      PROVE  Val(e, SetRow(s)) # NULL /\ Val(e, CardRow(c)) # NULL
  <2>1. Val(d, SetLink(s, c)) # NULL /\ SetLink(s, c) \notin R
    BY <1>6, RowNames DEF Deleted
  <2>2. SetRow(s) \notin R /\ Val(d, SetRow(s)) # NULL /\ Val(d, CardRow(c)) # NULL
    BY <2>1 DEF LinkRows
  <2> QED BY <1>1, <2>2, RowNames DEF Deleted
<1>7. EditionRows(e)
  BY <1>3 DEF EditionRows
<1>8. LinkRows(e)
  BY <1>4, <1>5, <1>6 DEF LinkRows
<1> QED BY <1>2, <1>7, <1>8

(* DeleteMovieEditionKind, of a kind that no edition has.                  *)
LEMMA DeleteKindStep ==
  ASSUME ServiceInv, NEW p \in Clients, NEW k \in Kinds, DeleteMovieEditionKind(p, k)
  PROVE  ServiceInv'
<1>0. PICK R : R = {r \in {KindRow(k)} : Has(db, r[1], r[2])}
  OBVIOUS
<1>1. DbRowsInv(db, renamed) /\ db \in Tables
  BY DbRows DEF ServiceInv, DbInv
<1>2. Delete(p, KindRow(k), R) /\ EditionsOfKind(db, k) = {}
  BY <1>0 DEF DeleteMovieEditionKind
<1>3. Deleted(db, db', R)
  BY <1>1, <1>2, DeleteShape
<1>4. R \subseteq {KindRow(k)}
  BY <1>0
<1>5. R \in SUBSET Rows /\ \A r \in R : r[1] = "catalog_movie_edition_kinds"
  BY <1>4, RowNames, RowTables
<1>6. ASSUME NEW x \in Cards, Val(db, EditionRow(x)) # NULL
      PROVE  KindRow(Val(db, EditionRow(x)).kind_id) \notin R
  <2>1. Val(db, EditionRow(x)).kind_id # k
    BY <1>2, <1>6 DEF EditionsOfKind, Has, Val, EditionRow
  <2> QED BY <1>4, <2>1 DEF KindRow
<1>7. (\A m : MediaRow(m) \notin R) /\ (\A s : SetRow(s) \notin R)
  BY <1>5, RowTables
<1>8. DetailRows(db') /\ EditionRows(db') /\ LinkRows(db')
  BY <1>1, <1>3, <1>5, <1>6, <1>7, DeleteOthers DEF DbRowsInv
<1> QED BY <1>2, <1>5, <1>8, DeleteStep

(* DeleteMedia, with its links.                                            *)
LEMMA DeleteMediaStep ==
  ASSUME ServiceInv, NEW p \in Clients, NEW m \in Media, DeleteMedia(p, m)
  PROVE  ServiceInv'
<1>0. PICK R : R = CascadeOfMedia(db, m)
  OBVIOUS
<1>1. DbRowsInv(db, renamed) /\ db \in Tables
  BY DbRows DEF ServiceInv, DbInv
<1>2. Delete(p, MediaRow(m), R)
  BY <1>0 DEF DeleteMedia
<1>3. Deleted(db, db', R)
  BY <1>1, <1>2, DeleteShape
<1>4. R = {r \in {MediaRow(m)} \cup {MediaLink(m, c) : c \in Cards} : Val(db, r) # NULL}
  BY <1>0 DEF CascadeOfMedia, Has, Val, MediaRow, MediaLink
<1>5. R \in SUBSET Rows /\ \A r \in R : r[1] \in {"media", "media_x_cards"}
  BY <1>4, RowNames, RowTables
<1>6. (\A k : KindRow(k) \notin R) /\ (\A s : SetRow(s) \notin R)
  BY <1>5, RowTables
<1>7. ASSUME NEW n \in Media, NEW c \in Cards, MediaRow(n) \in R
      PROVE  MediaLink(n, c) \in R \/ Val(db, MediaLink(n, c)) = NULL
  <2>1. MediaRow(n) = MediaRow(m)
    BY <1>4, <1>7, RowTables
  <2>2. n = m
    BY <2>1 DEF MediaRow
  <2> QED BY <1>4, <2>2
<1>8. DetailRows(db') /\ EditionRows(db') /\ LinkRows(db')
  BY <1>1, <1>3, <1>5, <1>6, <1>7, DeleteOthers DEF DbRowsInv
<1> QED BY <1>2, <1>5, <1>8, DeleteStep

(* DeleteMediaSet, of a set without media, with its links.                 *)
LEMMA DeleteSetStep ==
  ASSUME ServiceInv, NEW p \in Clients, NEW s \in Sets, DeleteMediaSet(p, s)
  PROVE  ServiceInv'
<1>0. PICK R : R = CascadeOfSet(db, s)
  OBVIOUS
<1>1. DbRowsInv(db, renamed) /\ db \in Tables
  BY DbRows DEF ServiceInv, DbInv
<1>2. Delete(p, SetRow(s), R) /\ MediaOfSet(db, s) = {}
  BY <1>0 DEF DeleteMediaSet
<1>3. Deleted(db, db', R)
  BY <1>1, <1>2, DeleteShape
<1>4. R = {r \in {SetRow(s)} \cup {SetLink(s, c) : c \in Cards} : Val(db, r) # NULL}
  BY <1>0 DEF CascadeOfSet, Has, Val, SetRow, SetLink
<1>5. R \in SUBSET Rows /\ \A r \in R : r[1] \in {"media_sets", "media_sets_x_cards"}
  BY <1>4, RowNames, RowTables
<1>6. (\A k : KindRow(k) \notin R) /\ (\A n : MediaRow(n) \notin R)
  BY <1>5, RowTables
<1>7. \A x : SetRow(x) \in R => x = s
  <2>1. \A x : SetRow(x) \in R => SetRow(x) = SetRow(s)
    BY <1>4, RowTables
  <2> QED BY <2>1 DEF SetRow
<1>8. ASSUME NEW n \in Media, Val(db, MediaRow(n)) # NULL
      PROVE  SetRow(Val(db, MediaRow(n)).media_set_id) \notin R
  <2>1. Val(db, MediaRow(n)).media_set_id # s
    BY <1>2, <1>8 DEF MediaOfSet, Has, Val, MediaRow
  <2> QED BY <1>7, <2>1
<1>9. ASSUME NEW x \in Sets, NEW c \in Cards, SetRow(x) \in R
      PROVE  SetLink(x, c) \in R \/ Val(db, SetLink(x, c)) = NULL
  BY <1>4, <1>7, <1>9
<1>10. DetailRows(db') /\ EditionRows(db') /\ LinkRows(db')
  BY <1>1, <1>3, <1>5, <1>6, <1>8, <1>9, DeleteOthers DEF DbRowsInv
<1> QED BY <1>2, <1>5, <1>10, DeleteStep

------------------------------------------------------------------------------
(* The theorems.                                                           *)

(* The empty database, with nobody connected.                              *)
LEMMA ServiceBegins ==
  ASSUME InitTransactions
  PROVE  ServiceInv
<1>1. /\ db = EmptyTables /\ used = {} /\ requests = 0 /\ renamed = {}
      /\ tx = [p \in Clients |-> NULL]
  BY DEF InitTransactions
<1>2. db \in Tables /\ \A r \in Rows : Val(db, r) = NULL
  BY <1>1, EmptyShape
<1>3. /\ \A c \in Cards : /\ Val(db, CardRow(c)) = NULL /\ Val(db, MovieRow(c)) = NULL
                          /\ Val(db, EditionRow(c)) = NULL
      /\ \A k \in Kinds : Val(db, KindRow(k)) = NULL
      /\ \A m \in Media : Val(db, MediaRow(m)) = NULL
      /\ \A m \in Media, c \in Cards : Val(db, MediaLink(m, c)) = NULL
      /\ \A s \in Sets, c \in Cards : Val(db, SetLink(s, c)) = NULL
  BY <1>2, RowNames
<1>4. DbInv
  <2>1. DetailRows(db) /\ EditionRows(db) /\ LinkRows(db)
    BY <1>3 DEF DetailRows, EditionRows, LinkRows
  <2>2. NameRows(db, renamed) /\ OneDefault(db)
    BY <1>3 DEF NameRows, OneDefault, IsDefault
  <2> QED BY <1>2, <2>1, <2>2, DbRows DEF DbRowsInv
<1>5. Open = {}
  BY <1>1 DEF Open
<1>6. UsedIds
  BY <1>3, <1>5 DEF UsedIds, Has, Val, CardRow, KindRow
<1>7. requests \in 0 .. MaxPatchRequests
  BY <1>1, TransactionsAssumption
<1> QED BY <1>1, <1>4, <1>5, <1>6, <1>7 DEF ServiceInv

(* A step of the catalog.                                                  *)
LEMMA CatalogStep ==
  ASSUME ServiceInv, NEW p \in Clients, CatalogNext(p)
  PROVE  ServiceInv'
<1>1. ASSUME NEW c \in Cards, NEW n \in Names, PostMovie(p, c, n)
      PROVE  ServiceInv'
  BY <1>1, PostMovieStep
<1>2. ASSUME NEW c \in Cards, NEW n \in Names, NEW k \in Kinds, NEW m \in Cards,
             PostMovieEdition(p, c, n, k, m)
      PROVE  ServiceInv'
  BY <1>2, PostEditionStep
<1>3. ASSUME NEW c \in Cards, DeleteCard(p, c)
      PROVE  ServiceInv'
  BY <1>3, DeleteCardStep
<1>4. ASSUME NEW c \in Cards, PatchCard(p, c)
      PROVE  ServiceInv'
  BY <1>4, BeginSteps
<1>5. ASSUME NEW n \in Names, PatchCardName(p, n)
      PROVE  ServiceInv'
  BY <1>5, CardNameStep
<1>6. CASE PatchCardNote(p) \/ PatchCardMovie(p)
  BY <1>6, CardLocks
<1>7. ASSUME NEW k \in Kinds, PatchCardMovieEdition(p, k)
      PROVE  ServiceInv'
  BY <1>7, CardEditionStep
<1>8. ASSUME NEW k \in Kinds, NEW n \in KindNames, NEW b \in BOOLEAN,
             PostMovieEditionKind(p, k, n, b)
      PROVE  ServiceInv'
  BY <1>8, PostKindStep
<1>9. ASSUME NEW k \in Kinds, DeleteMovieEditionKind(p, k)
      PROVE  ServiceInv'
  BY <1>9, DeleteKindStep
<1>10. ASSUME NEW k \in Kinds, PatchMovieEditionKind(p, k)
       PROVE  ServiceInv'
  BY <1>10, BeginSteps
<1>11. ASSUME \/ \E n \in KindNames : PatchKindName(p, n)
              \/ \E b \in BOOLEAN : PatchKindIsDefault(p, b)
       PROVE  ServiceInv'
  BY <1>11, KindSteps
<1> QED
  BY <1>1, <1>2, <1>3, <1>4, <1>5, <1>6, <1>7, <1>8, <1>9, <1>10, <1>11 DEF CatalogNext

(* A step of the media service.                                            *)
LEMMA MediaStep ==
  ASSUME ServiceInv, NEW p \in Clients, MediaNext(p)
  PROVE  ServiceInv'
<1>1. ASSUME NEW m \in Media, NEW s \in Sets \cup {NULL}, NEW C \in SUBSET Cards,
             PostMedia(p, m, s, C)
      PROVE  ServiceInv'
  BY <1>1, PostMediaStep
<1>2. ASSUME NEW m \in Media, DeleteMedia(p, m)
      PROVE  ServiceInv'
  BY <1>2, DeleteMediaStep
<1>3. ASSUME NEW m \in Media, PatchMedia(p, m)
      PROVE  ServiceInv'
  BY <1>3, BeginSteps
<1>4. ASSUME NEW m \in Media, PatchSetAddMedia(p, m) \/ PatchSetRemoveMedia(p, m)
      PROVE  ServiceInv'
  BY <1>4, SetMediaStep
<1>5. ASSUME NEW s \in Sets, NEW C \in SUBSET Cards, PostMediaSet(p, s, C)
      PROVE  ServiceInv'
  BY <1>5, PostSetStep
<1>6. ASSUME NEW s \in Sets, DeleteMediaSet(p, s)
      PROVE  ServiceInv'
  BY <1>6, DeleteSetStep
<1>7. ASSUME NEW s \in Sets, PatchMediaSet(p, s)
      PROVE  ServiceInv'
  BY <1>7, BeginSteps
<1>8. CASE PatchMediaNote(p) \/ PatchSetRow(p)
  BY <1>8, MediaLocks
<1>9. CASE PatchMediaClearSetId(p) \/ \E s \in Sets \cup {NULL} : PatchMediaSetId(p, s)
  BY <1>9, MediaSetStep
<1>10. ASSUME NEW c \in Cards, PatchMediaAddCard(p, c) \/ PatchMediaRemoveCard(p, c)
       PROVE  ServiceInv'
  <2>1. OwnerRow("media_x_cards", tx[p].id) = MediaRow(tx[p].id)
    BY DEF OwnerRow
  <2> QED BY <1>10, <2>1, LinkStep DEF PatchMediaAddCard, PatchMediaRemoveCard
<1>11. ASSUME NEW c \in Cards, PatchSetAddCard(p, c) \/ PatchSetRemoveCard(p, c)
       PROVE  ServiceInv'
  <2>1. OwnerRow("media_sets_x_cards", tx[p].id) = SetRow(tx[p].id)
    BY DEF OwnerRow
  <2> QED BY <1>11, <2>1, LinkStep DEF PatchSetAddCard, PatchSetRemoveCard
<1> QED
  BY <1>1, <1>2, <1>3, <1>4, <1>5, <1>6, <1>7, <1>8, <1>9, <1>10, <1>11 DEF MediaNext

(* The invariant is inductive.                                             *)
THEOREM ServiceInductive == Spec => []ServiceInv
<1>1. InitTransactions => ServiceInv
  BY ServiceBegins
<1>2. ServiceInv /\ [Next]_txVars => ServiceInv'
  <2> SUFFICES ASSUME ServiceInv, [Next]_txVars
               PROVE  ServiceInv'
    OBVIOUS
  <2>1. ASSUME NEW p \in Clients,
               CatalogNext(p) \/ MediaNext(p) \/ Commit(p) \/ RollBack(p)
        PROVE  ServiceInv'
    BY <2>1, CatalogStep, MediaStep, CommitStep, RollBackStep
  <2>2. CASE UNCHANGED txVars
    <3>1. UNCHANGED <<db, tx, used, requests, renamed>>
      BY <2>2 DEF txVars
    <3>2. DbInv' /\ UsedIds' /\ Open' = Open
      BY <3>1 DEF ServiceInv, DbInv, UsedIds, OneDetail, EditionsComplete, LinksComplete,
         UniqueNames, AtMostOneDefault, Open, IsMovie, IsEdition
    <3> QED BY <3>1, <3>2 DEF ServiceInv
  <2> QED BY <2>1, <2>2 DEF Next
<1> QED BY <1>1, <1>2, PTL DEF Spec

(* The state has its types: tables have the rows of the schema, a request  *)
(* touches rows that exist in it and stays within its bound of patches.    *)
THEOREM ServiceTypeCorrect == Spec => []TypeOK
<1>1. ServiceInv => TypeOK
  <2> SUFFICES ASSUME ServiceInv
               PROVE  TypeOK
    OBVIOUS
  <2>1. db \in Tables
    BY DEF ServiceInv, DbInv
  <2>2. \A p \in Open : tx[p] \in Transaction
    BY DEF ServiceInv, TxInv
  <2>3. \A p \in Open :
          /\ tx[p].view \in Tables /\ tx[p].patches \in 0 .. MaxPatches
          /\ tx[p].wrote \cup tx[p].reads \subseteq Rows
    BY <2>2 DEF Transaction
  <2>4. \A r \in Rows : r[2] \in Keys[r[1]]
    BY RowsShape
  <2>5. \A p \in Clients : tx[p] = NULL \/ tx[p].view \in Tables
    BY <2>3 DEF Open
  <2> QED BY <2>1, <2>3, <2>4, <2>5 DEF TypeOK, ServiceInv
<1> QED BY <1>1, ServiceInductive, PTL

(* However the requests overlap, every card is a movie or an edition and   *)
(* not both, and neither is there without its card: PostCard inserts both  *)
(* rows or none, DeleteCard takes both (card.go, the trigger that deletes  *)
(* the card of an edition).                                                *)
THEOREM OneDetailHolds == Spec => []OneDetail
<1>1. ServiceInv => OneDetail
  BY DEF ServiceInv, DbInv
<1> QED BY <1>1, ServiceInductive, PTL

(* However the requests overlap, every edition has its kind and its movie: *)
(* the checks of PostCard and PatchCard in their snapshot are not enough,  *)
(* the locks of the foreign keys are (card.go).                            *)
THEOREM EditionsStayComplete == Spec => []EditionsComplete
<1>1. ServiceInv => EditionsComplete
  BY DEF ServiceInv, DbInv
<1> QED BY <1>1, ServiceInductive, PTL

(* However the requests overlap, every link has its media or set and its   *)
(* card, and every media that is in a set has its set (media.go,           *)
(* media_set.go).                                                          *)
THEOREM LinksStayComplete == Spec => []LinksComplete
<1>1. ServiceInv => LinksComplete
  BY DEF ServiceInv, DbInv
<1> QED BY <1>1, ServiceInductive, PTL

(* Names that nobody has patched are unique but for case, although         *)
(* PostCard and PostMovieEditionKind only look for the name in their       *)
(* snapshot: of two that insert the same name one is refused its commit.   *)
THEOREM NamesStayUnique == Spec => []UniqueNames
<1>1. ServiceInv => UniqueNames
  BY DEF ServiceInv, DbInv
<1> QED BY <1>1, ServiceInductive, PTL

(* There are never two default kinds, although PostMovieEditionKind and    *)
(* PatchMovieEditionKind unset only the default that they see.             *)
THEOREM OneDefaultOnly == Spec => []AtMostOneDefault
<1>1. ServiceInv => AtMostOneDefault
  BY DEF ServiceInv, DbInv
<1> QED BY <1>1, ServiceInductive, PTL

(* The cascades of the schema are rows of the tables.                      *)
LEMMA CascadeRows ==
  /\ \A c \in Cards : CascadeOfCard(db, c) \in SUBSET Rows
  /\ \A m \in Media : CascadeOfMedia(db, m) \in SUBSET Rows
  /\ \A s \in Sets : CascadeOfSet(db, s) \in SUBSET Rows
<1>1. \A d \in Cards : RowsOfCard(d) \subseteq Rows
  BY RowNames DEF RowsOfCard, CardRow, MovieRow, EditionRow, MediaLink, SetLink
<1>2. \A c \in Cards : {c} \cup EditionsOf(db, c) \subseteq Cards
  BY DEF EditionsOf
<1>3. \A c \in Cards : CascadeOfCard(db, c) \in SUBSET Rows
  BY <1>1, <1>2 DEF CascadeOfCard
<1>4. \A m \in Media : CascadeOfMedia(db, m) \in SUBSET Rows
  BY RowNames DEF CascadeOfMedia, MediaRow, MediaLink
<1>5. \A s \in Sets : CascadeOfSet(db, s) \in SUBSET Rows
  BY RowNames DEF CascadeOfSet, SetRow, SetLink
<1> QED BY <1>3, <1>4, <1>5

(* Nothing but a commit or a DELETE changes the tables.                    *)
LEMMA WhoPublishes ==
  ASSUME NEW p, CatalogNext(p) \/ MediaNext(p) \/ RollBack(p), db' # db
  PROVE  \E row \in Rows, R \in SUBSET Rows : Delete(p, row, R)
<1>1. \A op, id, v, rd, wr, sh : ~Post(p, op, id, v, rd, wr, sh)
  BY DEF Post, Execute
<1>2. \A op, v, rd, wr, sh : ~Patch(p, op, v, rd, wr, sh)
  BY DEF Patch, Execute
<1>3. \A op, id, rd : ~Begin(p, op, id, rd)
  BY DEF Begin
<1>4. ~RollBack(p)
  BY DEF RollBack
<1>5. CASE CatalogNext(p)
  <2>1. /\ \A c, n : ~PostMovie(p, c, n)
        /\ \A c, n, k, m : ~PostMovieEdition(p, c, n, k, m)
        /\ \A k, n, b : ~PostMovieEditionKind(p, k, n, b)
    BY <1>1 DEF PostMovie, PostMovieEdition, PostMovieEditionKind
  <2>2. /\ \A n : ~PatchCardName(p, n)
        /\ ~PatchCardNote(p) /\ ~PatchCardMovie(p)
        /\ \A k : ~PatchCardMovieEdition(p, k)
        /\ \A n : ~PatchKindName(p, n)
        /\ \A b : ~PatchKindIsDefault(p, b)
    BY <1>2 DEF PatchCardName, PatchCardNote, PatchCardMovie, PatchCardMovieEdition,
       PatchKindName, PatchKindIsDefault
  <2>3. (\A c : ~PatchCard(p, c)) /\ (\A k : ~PatchMovieEditionKind(p, k))
    BY <1>3 DEF PatchCard, PatchMovieEditionKind
  <2>4. \/ \E c \in Cards : DeleteCard(p, c)
        \/ \E k \in Kinds : DeleteMovieEditionKind(p, k)
    BY <1>5, <2>1, <2>2, <2>3 DEF CatalogNext
  <2>5. ASSUME NEW c \in Cards, DeleteCard(p, c)
        PROVE  \E row \in Rows, R \in SUBSET Rows : Delete(p, row, R)
    BY <2>5, CascadeRows, RowNames DEF DeleteCard
  <2>6. ASSUME NEW k \in Kinds, DeleteMovieEditionKind(p, k)
        PROVE  \E row \in Rows, R \in SUBSET Rows : Delete(p, row, R)
    <3>1. {r \in {KindRow(k)} : Has(db, r[1], r[2])} \in SUBSET Rows
      BY RowNames
    <3> QED BY <2>6, <3>1, RowNames DEF DeleteMovieEditionKind
  <2> QED BY <2>4, <2>5, <2>6
<1>6. CASE MediaNext(p)
  <2>1. /\ \A m, s, C : ~PostMedia(p, m, s, C)
        /\ \A s, C : ~PostMediaSet(p, s, C)
    BY <1>1 DEF PostMedia, PostMediaSet
  <2>2. /\ \A m : ~PatchSetAddMedia(p, m) /\ ~PatchSetRemoveMedia(p, m)
        /\ \A s : ~PatchMediaSetId(p, s)
        /\ ~PatchMediaNote(p) /\ ~PatchMediaClearSetId(p) /\ ~PatchSetRow(p)
    BY <1>2 DEF PatchSetAddMedia, PatchSetRemoveMedia, PatchMediaSetId, PatchMediaNote,
       PatchMediaClearSetId, PatchSetRow
  <2>3. \A c : /\ ~PatchMediaAddCard(p, c) /\ ~PatchMediaRemoveCard(p, c)
               /\ ~PatchSetAddCard(p, c) /\ ~PatchSetRemoveCard(p, c)
    BY <1>2 DEF PatchMediaAddCard, PatchMediaRemoveCard, PatchSetAddCard, PatchSetRemoveCard,
       AddCard, RemoveCard
  <2>4. (\A m : ~PatchMedia(p, m)) /\ (\A s : ~PatchMediaSet(p, s))
    BY <1>3 DEF PatchMedia, PatchMediaSet
  <2>5. \/ \E m \in Media : DeleteMedia(p, m)
        \/ \E s \in Sets : DeleteMediaSet(p, s)
    BY <1>6, <2>1, <2>2, <2>3, <2>4 DEF MediaNext
  <2> QED BY <2>5, CascadeRows, RowNames DEF DeleteMedia, DeleteMediaSet
<1> QED BY <1>4, <1>5, <1>6

(* The publication of another's changes ends no transaction.               *)
LEMMA OthersGoOn ==
  ASSUME ServiceInv, NEW p \in Open, NEW q, q # p, NEW v, NEW rd \in SUBSET Rows,
         NEW wr \in SUBSET Rows, NEW outdated, Publish(q, v, rd, wr, outdated)
  PROVE  tx'[p] # NULL
<1>1. PICK w : w = Warned(tx[p], rd, wr, outdated)
  OBVIOUS
<1>2. tx'[p] = Settled(w)
  BY <1>1 DEF Publish, Told, Warned, Open
<1>3. w \in Transaction
  <2>1. tx[p] \in Transaction
    BY DEF ServiceInv, TxInv
  <2>2. tx[p].hot \cup (IF outdated THEN wr ELSE {}) \in SUBSET Rows
    BY <2>1 DEF Transaction
  <2> QED BY <1>1, <2>1, <2>2 DEF Warned, Transaction
<1>4. Settled(w) \in Transaction
  BY <1>3, SettledShape DEF SameFate
<1> QED BY <1>2, <1>4, TransactionsAssumption

(* PatchMediaSet without an added media takes only media out of its own    *)
(* set, also when a media was moved between its check and its UPDATE       *)
(* (media_set.go, RemoveMediaId).                                          *)
THEOREM OnlyOwnMediaCleared == Spec => ClearedByOwnSet
<1>1. ASSUME ServiceInv, Next
      PROVE  ClearsOwnSet
  <2> SUFFICES ASSUME NEW m \in Media, NEW p \in Clients,
                      tx[p] # NULL, tx'[p] = NULL, db' # db,
                      tx[p].op = "PatchMediaSet", SetRow(tx[p].id) \notin tx[p].shared,
                      SetOf(db, m) # NULL, SetOf(db', m) = NULL
               PROVE  SetOf(db, m) = tx[p].id
    BY DEF ClearsOwnSet
  <2>1. p \in Open
    BY DEF Open
  <2>2. PICK q \in Clients : CatalogNext(q) \/ MediaNext(q) \/ Commit(q) \/ RollBack(q)
    BY <1>1 DEF Next
  <2>3. ASSUME NEW row \in Rows, NEW R \in SUBSET Rows, Delete(q, row, R)
        PROVE  FALSE
    <3>1. q # p /\ Publish(q, EmptyTables, {row}, R, FALSE) /\ {row} \in SUBSET Rows
      BY <2>3 DEF Delete
    <3> QED BY <1>1, <2>1, <3>1, OthersGoOn
  <2>4. Commit(q)
    BY <2>2, <2>3, WhoPublishes
  <2>5. PICK t : t = tx[q]
    OBVIOUS
  <2>6. q \in Open /\ Publish(q, t.view, t.reads, t.wrote, Outdated(t))
    BY <2>4, <2>5 DEF Commit
  <2>7. TxInv(db, renamed, t) /\ db \in Tables
    BY <1>1, <2>5, <2>6 DEF ServiceInv, DbInv
  <2>8. t.reads \in SUBSET Rows /\ t.wrote \in SUBSET Rows
    BY <2>7 DEF TxInv, Transaction
  <2>9. q = p
    BY <1>1, <2>1, <2>6, <2>8, OthersGoOn
  <2>10. CommitRows(db, t, db')
    BY <2>6, <2>7, CommitShape DEF Publish
  <2>11. MediaRow(m) \in Rows /\ MediaRow(m)[1] = "media"
    BY RowNames, RowTables
  <2>12. \A v : SetOf(v, m) = IF Val(v, MediaRow(m)) # NULL
                              THEN Val(v, MediaRow(m)).media_set_id ELSE NULL
    BY DEF SetOf, Has, Val, MediaRow
  <2>13. MediaRow(m) \in t.wrote
    BY <2>10, <2>11, <2>12 DEF CommitRows
  <2>14. RowMedia(db, t, MediaRow(m))
    BY <2>7, <2>13 DEF TxInv, RowTx
  <2> QED BY <2>5, <2>9, <2>11, <2>12, <2>14 DEF RowMedia
<1>2. ServiceInv /\ [Next]_txVars => [ClearsOwnSet]_txVars
  BY <1>1
<1> QED BY <1>2, ServiceInductive, PTL DEF Spec, ClearedByOwnSet
=============================================================================
