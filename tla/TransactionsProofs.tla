------------------------- MODULE TransactionsProofs --------------------------
(***************************************************************************)
(* Facts about the tables of Schema and the steps of Transactions that the *)
(* proofs about the services rest on.                                      *)
(***************************************************************************)
EXTENDS Transactions, TLAPS

TableNames ==
  {"catalog_cards", "catalog_movies", "catalog_movie_edition_kinds",
   "catalog_movie_editions", "media_sets", "media", "media_x_cards",
   "media_sets_x_cards"}

(* What the rows of each table can be.                                     *)
RowTypes ==
  [catalog_cards               |-> Names \cup {NULL},
   catalog_movies              |-> {Present, NULL},
   catalog_movie_edition_kinds |-> Kind \cup {NULL},
   catalog_movie_editions      |-> Edition \cup {NULL},
   media_sets                  |-> {Present, NULL},
   media                       |-> Medium \cup {NULL},
   media_x_cards               |-> {Present, NULL},
   media_sets_x_cards          |-> {Present, NULL}]

(* The row that is named by a pair of table and key.                       *)
Val(v, r) == v[r[1]][r[2]]

------------------------------------------------------------------------------
(* Tables as functions.                                                    *)

(* The tables of the schema and their keys.                                *)
LEMMA KeysShape ==
  /\ DOMAIN Keys = TableNames
  /\ Keys["catalog_cards"] = Cards
  /\ Keys["catalog_movies"] = Cards
  /\ Keys["catalog_movie_edition_kinds"] = Kinds
  /\ Keys["catalog_movie_editions"] = Cards
  /\ Keys["media_sets"] = Sets
  /\ Keys["media"] = Media
  /\ Keys["media_x_cards"] = Media \X Cards
  /\ Keys["media_sets_x_cards"] = Sets \X Cards
BY DEF Keys, TableNames

(* The row types of the schema by the name of their table.                 *)
LEMMA TypesShape ==
  /\ RowTypes["catalog_cards"] = Names \cup {NULL}
  /\ RowTypes["catalog_movies"] = {Present, NULL}
  /\ RowTypes["catalog_movie_edition_kinds"] = Kind \cup {NULL}
  /\ RowTypes["catalog_movie_editions"] = Edition \cup {NULL}
  /\ RowTypes["media_sets"] = {Present, NULL}
  /\ RowTypes["media"] = Medium \cup {NULL}
  /\ RowTypes["media_x_cards"] = {Present, NULL}
  /\ RowTypes["media_sets_x_cards"] = {Present, NULL}
BY DEF RowTypes

(* Tables is the set of functions that give each table its rows.           *)
LEMMA TablesShape ==
  ASSUME NEW v
  PROVE  v \in Tables <=>
           /\ v = [t \in TableNames |-> v[t]]
           /\ \A t \in TableNames : v[t] \in [Keys[t] -> RowTypes[t]]
<1>1. ASSUME v \in Tables
      PROVE  /\ v = [t \in TableNames |-> v[t]]
             /\ \A t \in TableNames : v[t] \in [Keys[t] -> RowTypes[t]]
  BY <1>1, KeysShape, TypesShape DEF Tables, TableNames
<1>2. ASSUME v = [t \in TableNames |-> v[t]],
             \A t \in TableNames : v[t] \in [Keys[t] -> RowTypes[t]]
      PROVE  v \in Tables
  BY <1>2, KeysShape, TypesShape DEF Tables, TableNames
<1> QED BY <1>1, <1>2

(* A row of Rows is a pair of a table and one of its keys.                 *)
LEMMA RowsShape ==
  /\ \A t \in TableNames : \A k \in Keys[t] : <<t, k>> \in Rows
  /\ \A r \in Rows : /\ r = <<r[1], r[2]>>
                     /\ r[1] \in TableNames
                     /\ r[2] \in Keys[r[1]]
<1>1. ASSUME NEW t \in TableNames, NEW k \in Keys[t]
      PROVE  <<t, k>> \in Rows
  <2>1. <<t, k>> \in RowsOf(t)
    BY DEF RowsOf
  <2> QED BY <2>1, KeysShape DEF Rows
<1>2. ASSUME NEW r \in Rows
      PROVE  r = <<r[1], r[2]>> /\ r[1] \in TableNames /\ r[2] \in Keys[r[1]]
  <2>1. PICK t \in TableNames : r \in RowsOf(t)
    BY KeysShape DEF Rows
  <2> QED BY <2>1 DEF RowsOf
<1> QED BY <1>1, <1>2

(* A statement that writes one row.                                        *)
LEMMA PutShape ==
  ASSUME NEW v \in Tables, NEW t \in TableNames, NEW k \in Keys[t], NEW row \in RowTypes[t]
  PROVE  /\ Put(v, t, k, row) \in Tables
         /\ Val(Put(v, t, k, row), <<t, k>>) = row
         /\ \A r \in Rows : r # <<t, k>> => Val(Put(v, t, k, row), r) = Val(v, r)
<1> DEFINE w == Put(v, t, k, row)
<1>1. /\ v = [u \in TableNames |-> v[u]]
      /\ \A u \in TableNames : v[u] \in [Keys[u] -> RowTypes[u]]
  BY TablesShape
<1>2. /\ w = [u \in TableNames |-> w[u]]
      /\ w[t] = [v[t] EXCEPT ![k] = row]
      /\ \A u \in TableNames : u # t => w[u] = v[u]
  BY <1>1 DEF Put
<1>3. w[t] \in [Keys[t] -> RowTypes[t]] /\ w[t][k] = row
  BY <1>1, <1>2
<1>4. w \in Tables
  <2>1. \A u \in TableNames : w[u] \in [Keys[u] -> RowTypes[u]]
    BY <1>1, <1>2, <1>3
  <2> HIDE DEF w
  <2> QED BY <1>2, <2>1, TablesShape
<1>5. ASSUME NEW r \in Rows, r # <<t, k>>
      PROVE  Val(w, r) = Val(v, r)
  <2>1. r = <<r[1], r[2]>> /\ r[1] \in TableNames /\ r[2] \in Keys[r[1]]
    BY RowsShape
  <2>2. CASE r[1] # t
    BY <1>2, <2>1, <2>2 DEF Val
  <2>3. CASE r[1] = t /\ r[2] # k
    <3>1. w[t][r[2]] = v[t][r[2]]
      BY <1>1, <1>2, <2>1, <2>3
    <3> QED BY <2>3, <3>1 DEF Val
  <2> QED BY <1>5, <2>1, <2>2, <2>3
<1> QED BY <1>3, <1>4, <1>5 DEF Val

(* A commit writes its rows and no other.                                  *)
LEMMA OverwriteShape ==
  ASSUME NEW v \in Tables, NEW w \in Tables, NEW R
  PROVE  /\ Overwrite(v, w, R) \in Tables
         /\ \A r \in Rows : Val(Overwrite(v, w, R), r) =
                              IF r \in R THEN Val(w, r) ELSE Val(v, r)
<1> DEFINE x == Overwrite(v, w, R)
<1>1. /\ \A u \in TableNames : v[u] \in [Keys[u] -> RowTypes[u]]
      /\ \A u \in TableNames : w[u] \in [Keys[u] -> RowTypes[u]]
  BY TablesShape
<1>2. /\ x = [u \in TableNames |-> x[u]]
      /\ \A u \in TableNames :
           x[u] = [k \in Keys[u] |-> IF <<u, k>> \in R THEN w[u][k] ELSE v[u][k]]
  BY KeysShape DEF Overwrite
<1>3. x \in Tables
  <2>1. ASSUME NEW u \in TableNames
        PROVE  x[u] \in [Keys[u] -> RowTypes[u]]
    <3> HIDE DEF x
    <3>1. \A k \in Keys[u] : w[u][k] \in RowTypes[u] /\ v[u][k] \in RowTypes[u]
      BY <1>1
    <3> DEFINE row(k) == IF <<u, k>> \in R THEN w[u][k] ELSE v[u][k]
    <3>2. \A k \in Keys[u] : row(k) \in RowTypes[u]
      BY <3>1
    <3>3. x[u] = [k \in Keys[u] |-> row(k)]
      BY <1>2
    <3> HIDE DEF row
    <3> QED BY <3>2, <3>3
  <2> HIDE DEF x
  <2> QED BY <1>2, <2>1, TablesShape
<1>4. ASSUME NEW r \in Rows
      PROVE  Val(x, r) = IF r \in R THEN Val(w, r) ELSE Val(v, r)
  <2>1. r = <<r[1], r[2]>> /\ r[1] \in TableNames /\ r[2] \in Keys[r[1]]
    BY RowsShape
  <2>2. x[r[1]][r[2]] = IF <<r[1], r[2]>> \in R THEN w[r[1]][r[2]] ELSE v[r[1]][r[2]]
    BY <1>2, <2>1
  <2> QED BY <2>1, <2>2 DEF Val
<1> QED BY <1>3, <1>4

(* The tables of an empty database.                                        *)
LEMMA EmptyShape ==
  /\ EmptyTables \in Tables
  /\ \A r \in Rows : Val(EmptyTables, r) = NULL
<1>1. /\ EmptyTables = [u \in TableNames |-> EmptyTables[u]]
      /\ \A u \in TableNames : EmptyTables[u] = [k \in Keys[u] |-> NULL]
  BY KeysShape DEF EmptyTables
<1>2. \A u \in TableNames : NULL \in RowTypes[u]
  BY TypesShape DEF TableNames
<1>3. \A u \in TableNames : EmptyTables[u] \in [Keys[u] -> RowTypes[u]]
  BY <1>1, <1>2
<1>4. ASSUME NEW r \in Rows
      PROVE  Val(EmptyTables, r) = NULL
  BY <1>1, RowsShape DEF Val
<1> QED BY <1>1, <1>3, <1>4, TablesShape

------------------------------------------------------------------------------
(* Transactions.                                                           *)

(* A transaction that read what others have overwritten and wrote what     *)
(* they had read.  It cannot commit.                                       *)
Doomed(t) == Outdated(t) /\ t.wrote \cap t.seen # {}

(* s is what is left of t, which can differ from it only if no patch can   *)
(* follow: what t has read and written, what it has written, and whether   *)
(* it is doomed.                                                           *)
SameFate(s, t) ==
  /\ s \in Transaction
  /\ s.op = t.op /\ s.id = t.id /\ s.patches = t.patches
  /\ s.reads = t.reads /\ s.wrote = t.wrote /\ s.shared = t.shared
  /\ \A r \in t.wrote : Val(s.view, r) = Val(t.view, r)
  /\ s.missed \subseteq t.missed
  /\ s.reads \cap s.missed = t.reads \cap t.missed
  /\ s.wrote \cap s.seen = t.wrote \cap t.seen
  /\ t.patches < MaxPatches => s = t

(* Settled forgets only what cannot matter any more.                       *)
LEMMA SettledShape ==
  ASSUME NEW t \in Transaction
  PROVE  SameFate(Settled(t), t)
<1>1. CASE t.patches < MaxPatches
  <2>1. Settled(t) = t
    BY <1>1 DEF Settled
  <2> QED BY <2>1 DEF SameFate
<1>2. CASE ~(t.patches < MaxPatches)
  <2> DEFINE v == Overwrite(EmptyTables, t.view, t.wrote)
             s == [t EXCEPT !.view = v, !.missed = t.missed \cap t.reads,
                            !.hot = t.hot \cap t.reads, !.seen = t.seen \cap t.wrote]
  <2>1. Settled(t) = s
    BY <1>2 DEF Settled
  <2>2. t.view \in Tables /\ t.wrote \subseteq Rows
    BY DEF Transaction
  <2>3. v \in Tables /\ \A r \in t.wrote : Val(v, r) = Val(t.view, r)
    BY <2>2, EmptyShape, OverwriteShape
  <2> HIDE DEF v
  <2>4. s \in Transaction
    BY <2>3 DEF Transaction
  <2>5. /\ s.op = t.op /\ s.id = t.id /\ s.patches = t.patches
        /\ s.reads = t.reads /\ s.wrote = t.wrote /\ s.shared = t.shared
        /\ s.view = v
        /\ s.missed = t.missed \cap t.reads /\ s.seen = t.seen \cap t.wrote
    BY DEF Transaction
  <2> HIDE DEF s
  <2> QED BY <1>2, <2>1, <2>3, <2>4, <2>5 DEF SameFate
<1> QED BY <1>1, <1>2

(* What a statement of t makes of it.                                      *)
Extended(t, v, rd, wr, sh) ==
  [t EXCEPT !.view = v, !.reads = @ \cup rd, !.wrote = @ \cup wr, !.shared = @ \cup sh]

(* What t has become when it is told of a commit.                          *)
Warned(t, rd, wr, outdated) ==
  [t EXCEPT !.missed = @ \cup wr, !.seen = (@ \cup rd) \ (t.missed \cup wr),
            !.hot = @ \cup (IF outdated THEN wr ELSE {})]

(* A doomed transaction cannot commit.                                     *)
LEMMA DoomedFails ==
  ASSUME NEW p, Serializable(p)
  PROVE  ~Doomed(tx[p])
BY DEF Serializable, Doomed
=============================================================================
