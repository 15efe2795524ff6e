---------------------------- MODULE MediaService -----------------------------
(***************************************************************************)
(* The requests of the media service: media, media sets and their links to *)
(* cards, together with those of the catalog, whose deletions take links   *)
(* with them.  The DVD of a media, its path and its ingestion task are in  *)
(* DvdIngestion.  Names and notes of sets and notes of media are left out: *)
(* a patch of them only locks its row.                                     *)
(***************************************************************************)
EXTENDS Catalog

MediaRow(m) == <<"media", m>>
SetRow(s) == <<"media_sets", s>>
MediaLink(m, c) == <<"media_x_cards", <<m, c>>>>
SetLink(s, c) == <<"media_sets_x_cards", <<s, c>>>>

CardRows(C) == {CardRow(c) : c \in C}
Linked(v, t, x, C) ==
  [v EXCEPT ![t] = [k \in Keys[t] |-> IF k \in {x} \X C THEN Present ELSE @[k]]]

------------------------------------------------------------------------------
(* Media (media.go).                                                       *)

(* Nothing but the foreign key looks at the set.  A card that is named     *)
(* twice breaks the primary key of the links, so that C is a set.          *)
PostMedia(p, m, s, C) ==
  /\ \A c \in C : Has(db, "catalog_cards", c)
  /\ Post(p, "PostMedia", m,
          Linked(Put(db, "media", m, [media_set_id |-> s]), "media_x_cards", m, C),
          CardRows(C),
          {MediaRow(m)} \cup {MediaLink(m, c) : c \in C},
          CardRows(C) \cup {SetRow(x) : x \in {s} \ {NULL}})

DeleteMedia(p, m) == Delete(p, MediaRow(m), CascadeOfMedia(db, m))

PatchMedia(p, m) ==
  /\ Has(db, "media", m)
  /\ Begin(p, "PatchMedia", m, {MediaRow(m)} \cup {MediaLink(m, c) : c \in Cards})

PatchMediaNote(p) ==
  /\ Patching(p, "PatchMedia")
  /\ Patch(p, "PatchMedia", tx[p].view, {}, {MediaRow(tx[p].id)}, {})

(* Mutant: the id 0 is stored as it comes.                                 *)
PatchMediaSetId_StoresZero(p, s) ==
  /\ Patching(p, "PatchMedia")
  /\ LET named == {s} \ {NULL} IN
     /\ \A x \in named : Has(tx[p].view, "media_sets", x)
     /\ Patch(p, "PatchMedia",
              Put(tx[p].view, "media", tx[p].id,
                  [media_set_id |-> IF s = NULL THEN 0 ELSE s]),
              {SetRow(x) : x \in named}, {MediaRow(tx[p].id)}, {SetRow(x) : x \in named})

(* MediaSetId, which is 0 for no set.                                      *)
PatchMediaSetId(p, s) ==
  /\ Patching(p, "PatchMedia")
  /\ LET named == {s} \ {NULL} IN
     /\ \A x \in named : Has(tx[p].view, "media_sets", x)
     /\ Patch(p, "PatchMedia",
              Put(tx[p].view, "media", tx[p].id, [media_set_id |-> s]),
              {SetRow(x) : x \in named}, {MediaRow(tx[p].id)}, {SetRow(x) : x \in named})

PatchMediaClearSetId(p) ==
  /\ Patching(p, "PatchMedia")
  /\ Patch(p, "PatchMedia", Put(tx[p].view, "media", tx[p].id, [media_set_id |-> NULL]),
           {}, {MediaRow(tx[p].id)}, {})

(* AddCardId and RemoveCardId, of a media and of a set alike: t is the     *)
(* table of links, owner the row that it links to cards.                   *)
AddCard(p, op, t, owner, c) ==
  LET link == <<tx[p].id, c>> IN
  /\ Has(tx[p].view, "catalog_cards", c)
  /\ ~Has(tx[p].view, t, link)
  /\ Patch(p, op, Put(tx[p].view, t, link, Present), {CardRow(c), <<t, link>>},
           {<<t, link>>}, {CardRow(c), owner})

RemoveCard(p, op, t, c) ==
  LET link == <<tx[p].id, c>> IN
  /\ Has(tx[p].view, t, link)
  /\ Patch(p, op, Put(tx[p].view, t, link, NULL), {<<t, link>>}, {<<t, link>>}, {})

PatchMediaAddCard(p, c) ==
  /\ Patching(p, "PatchMedia")
  /\ AddCard(p, "PatchMedia", "media_x_cards", MediaRow(tx[p].id), c)

PatchMediaRemoveCard(p, c) ==
  /\ Patching(p, "PatchMedia")
  /\ RemoveCard(p, "PatchMedia", "media_x_cards", c)

------------------------------------------------------------------------------
(* Media sets (media_set.go).                                              *)

PostMediaSet(p, s, C) ==
  /\ \A c \in C : Has(db, "catalog_cards", c)
  /\ Post(p, "PostMediaSet", s,
          Linked(Put(db, "media_sets", s, Present), "media_sets_x_cards", s, C),
          CardRows(C), {SetRow(s)} \cup {SetLink(s, c) : c \in C}, CardRows(C))

(* The foreign key of the media in the set refuses its deletion.           *)
DeleteMediaSet(p, s) ==
  /\ MediaOfSet(db, s) = {}
  /\ Delete(p, SetRow(s), CascadeOfSet(db, s))

PatchMediaSet(p, s) ==
  /\ Has(db, "media_sets", s)
  /\ Begin(p, "PatchMediaSet", s, {SetRow(s)} \cup {SetLink(s, c) : c \in Cards})

(* Name, Note and ClearNote.                                               *)
PatchSetRow(p) ==
  /\ Patching(p, "PatchMediaSet")
  /\ Patch(p, "PatchMediaSet", tx[p].view, {}, {SetRow(tx[p].id)}, {})

PatchSetAddCard(p, c) ==
  /\ Patching(p, "PatchMediaSet")
  /\ AddCard(p, "PatchMediaSet", "media_sets_x_cards", SetRow(tx[p].id), c)

PatchSetRemoveCard(p, c) ==
  /\ Patching(p, "PatchMediaSet")
  /\ RemoveCard(p, "PatchMediaSet", "media_sets_x_cards", c)

(* A media that is in another set moves to this one.                       *)
PatchSetAddMedia(p, m) ==
  /\ Patching(p, "PatchMediaSet")
  /\ Has(tx[p].view, "media", m)
  /\ Patch(p, "PatchMediaSet", Put(tx[p].view, "media", m, [media_set_id |-> tx[p].id]),
           {MediaRow(m)}, {MediaRow(m)}, {SetRow(tx[p].id)})

PatchSetRemoveMedia(p, m) ==
  /\ Patching(p, "PatchMediaSet")
  /\ m \in MediaOfSet(tx[p].view, tx[p].id)
  /\ Patch(p, "PatchMediaSet", Put(tx[p].view, "media", m, [media_set_id |-> NULL]),
           {MediaRow(m)}, {MediaRow(m)}, {})

------------------------------------------------------------------------------
MediaNext(p) ==
  \/ \E m \in Media :
       \/ \E s \in Sets \cup {NULL}, C \in SUBSET Cards : PostMedia(p, m, s, C)
       \/ DeleteMedia(p, m)
       \/ PatchMedia(p, m)
       \/ PatchSetAddMedia(p, m)
       \/ PatchSetRemoveMedia(p, m)
  \/ \E s \in Sets :
       \/ \E C \in SUBSET Cards : PostMediaSet(p, s, C)
       \/ DeleteMediaSet(p, s)
       \/ PatchMediaSet(p, s)
  \/ PatchMediaNote(p)
  \/ \E s \in Sets \cup {NULL} : PatchMediaSetId(p, s)
  \/ PatchMediaClearSetId(p)
  \/ PatchSetRow(p)
  \/ \E c \in Cards :
       \/ PatchMediaAddCard(p, c)
       \/ PatchMediaRemoveCard(p, c)
       \/ PatchSetAddCard(p, c)
       \/ PatchSetRemoveCard(p, c)

Next ==
  \E p \in Clients : CatalogNext(p) \/ MediaNext(p) \/ Commit(p) \/ RollBack(p)

Spec == InitTransactions /\ [][Next]_txVars

------------------------------------------------------------------------------
(* Properties.                                                             *)

TypeOK ==
  /\ db \in Tables
  /\ \A p \in Clients : tx[p] = NULL \/ tx[p].view \in Tables
  /\ \A p \in Open : /\ tx[p].patches \in 0 .. MaxPatches
                     /\ \A r \in tx[p].wrote \cup tx[p].reads : r[2] \in Keys[r[1]]
  /\ used \subseteq Cards \cup Kinds \cup Media \cup Sets
  /\ requests \in 0 .. MaxPatchRequests
  /\ renamed \subseteq used

(* No link outlives its media, its set or its card, and no media is in a   *)
(* set that is gone, also when they are deleted while a request that links *)
(* them is under way (foreign keys of media, media_x_cards,                *)
(* media_sets_x_cards).                                                    *)
LinksComplete ==
  /\ \A m \in Media : Has(db, "media", m) =>
       \/ db.media[m].media_set_id = NULL
       \/ Has(db, "media_sets", db.media[m].media_set_id)
  /\ \A m \in Media, c \in Cards : Has(db, "media_x_cards", <<m, c>>) =>
       Has(db, "media", m) /\ Has(db, "catalog_cards", c)
  /\ \A s \in Sets, c \in Cards : Has(db, "media_sets_x_cards", <<s, c>>) =>
       Has(db, "media_sets", s) /\ Has(db, "catalog_cards", c)

(* The set that media m is in.                                             *)
SetOf(v, m) == IF Has(v, "media", m) THEN v.media[m].media_set_id ELSE NULL

ClearsOwnSet ==
  \A m \in Media, p \in Clients :
    /\ tx[p] # NULL /\ tx'[p] = NULL /\ db' # db
    /\ tx[p].op = "PatchMediaSet" /\ SetRow(tx[p].id) \notin tx[p].shared
    /\ SetOf(db, m) # NULL /\ SetOf(db', m) = NULL
    => SetOf(db, m) = tx[p].id

(* A media that is in a set leaves it by a patch of the media, by one that *)
(* adds it to another set, or by a patch of its own set: a request for     *)
(* another set that adds nothing never clears it, however the two overlap  *)
(* (RemoveMediaId checks the set in its snapshot and clears it later).     *)
ClearedByOwnSet == [][ClearsOwnSet]_txVars
=============================================================================
