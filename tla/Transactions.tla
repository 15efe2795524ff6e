---------------------------- MODULE Transactions -----------------------------
(***************************************************************************)
(* The transactions of the services' requests on the tables of Schema.     *)
(* vmdb.New makes SERIALIZABLE the default of every connection, and the    *)
(* services rely on it: they check with a SELECT and write later.          *)
(*                                                                         *)
(* What PostgreSQL does with them is modelled as follows.  A transaction   *)
(* reads the snapshot it began with and its own writes.  A statement waits *)
(* for rows that another open transaction has written, and fails (SQLSTATE *)
(* 40001) if one of its rows was committed by another after the snapshot.  *)
(* A row with a foreign key locks the row that it names against deletion;  *)
(* the check of the foreign key looks at the latest committed rows.  A     *)
(* commit fails if a transaction both read what a concurrent one           *)
(* overwrote and wrote what a concurrent one had read.                     *)
(*                                                                         *)
(* Every failure has the same effect: the deferred Rollback.  It may also  *)
(* come at any time, from the database or from the client.                 *)
(***************************************************************************)
EXTENDS Schema, Naturals

CONSTANTS
  Clients,         \* concurrent requests
  MaxPatches,      \* bound on the patches of one request
  MaxPatchRequests \* bound on the requests that patch

VARIABLES
  db,       \* the committed tables
  tx,       \* the open transaction of each client, or NULL
  used,     \* ids that the sequences have given out; a rollback does not return them
  requests, \* how many requests that patch there were
  renamed   \* history: the cards and kinds whose name was patched

txVars == <<db, tx, used, requests, renamed>>

(* The requests that are transactions of several statements.               *)
Operations ==
  {"PostCard", "PatchCard", "PostMovieEditionKind", "PatchMovieEditionKind",
   "PostMedia", "PatchMedia", "PostMediaSet", "PatchMediaSet"}

(* reads, wrote, shared: rows that it has read, written, and locked with a *)
(* foreign key.  missed: rows that others have committed since the         *)
(* snapshot; seen: rows that those others had read; hot: those of missed   *)
(* whose writer had itself read something outdated.                        *)
Transaction ==
  [op : Operations, id : Cards \cup Kinds \cup Media \cup Sets,
   patches : 0 .. MaxPatches, view : Tables,
   reads : SUBSET Rows, wrote : SUBSET Rows, shared : SUBSET Rows,
   missed : SUBSET Rows, seen : SUBSET Rows, hot : SUBSET Rows]

ASSUME TransactionsAssumption ==
  /\ MaxPatches \in Nat /\ MaxPatchRequests \in Nat
  /\ NULL \notin Transaction

InitTransactions ==
  /\ db = EmptyTables
  /\ tx = [p \in Clients |-> NULL]
  /\ used = {}
  /\ requests = 0
  /\ renamed = {}

Open == {p \in Clients : tx[p] # NULL}
OthersRead(p) == UNION {tx[q].reads : q \in Open \ {p}}
OthersWrote(p) == UNION {tx[q].wrote : q \in Open \ {p}}
OthersShared(p) == UNION {tx[q].shared : q \in Open \ {p}}

(* Rows that a foreign key may name: the latest committed ones, and those  *)
(* of the transaction itself, which t is.                                  *)
Referenced(t, sh) == \A r \in sh : Has(db, r[1], r[2]) \/ r \in t.wrote

------------------------------------------------------------------------------
(* Steps of a request.                                                     *)

Fresh(op, id, patches) ==
  [op |-> op, id |-> id, patches |-> patches, view |-> db, reads |-> {}, wrote |-> {},
   shared |-> {}, missed |-> {}, seen |-> {}, hot |-> {}]

(* t without what it does not need any more once no patch can follow: the  *)
(* rest of its snapshot, and what is not in conflict with its own reads    *)
(* and writes.  It only makes equal states that differ in nothing else.    *)
Settled(t) ==
  IF t.patches < MaxPatches THEN t
  ELSE [t EXCEPT !.view = Overwrite(EmptyTables, @, t.wrote),
                 !.missed = @ \cap t.reads, !.hot = @ \cap t.reads,
                 !.seen = @ \cap t.wrote]

(* Begin(ctx), and the first SELECTs, which have read rd.                  *)
Begin(p, op, id, rd) ==
  /\ tx[p] = NULL
  /\ requests < MaxPatchRequests
  /\ requests' = requests + 1
  /\ tx' = [tx EXCEPT ![p] = [Fresh(op, id, 0) EXCEPT !.reads = rd]]
  /\ UNCHANGED <<db, used, renamed>>

(* Mutant: a row that was committed after the snapshot is overwritten.     *)
Writable_LastWins(p, t, wr) == wr \cap OthersWrote(p) = {}

Writable(p, t, wr) == wr \cap OthersWrote(p) = {} /\ wr \cap t.missed = {}

(* Mutant: a foreign key does not lock the row that it names.              *)
Execute_NoKeyShare(p, t, v, rd, wr, sh) ==
  /\ Writable(p, t, wr)
  /\ Referenced(t, sh)
  /\ tx' = [tx EXCEPT ![p] =
       Settled([t EXCEPT !.view = v, !.reads = @ \cup rd, !.wrote = @ \cup wr])]
  /\ UNCHANGED <<db, requests, renamed>>

(* Statements that read rd, write wr, with the tables v as their result,   *)
(* and name the rows sh by foreign keys.                                   *)
Execute(p, t, v, rd, wr, sh) ==
  /\ Writable(p, t, wr)
  /\ Referenced(t, sh)
  /\ tx' = [tx EXCEPT ![p] =
       Settled([t EXCEPT !.view = v, !.reads = @ \cup rd, !.wrote = @ \cup wr,
                         !.shared = @ \cup sh])]
  /\ UNCHANGED <<db, requests, renamed>>

(* A request of one transaction up to its commit, which inserts row id.    *)
Post(p, op, id, v, rd, wr, sh) ==
  /\ tx[p] = NULL
  /\ id \notin used
  /\ used' = used \cup {id}
  /\ Execute(p, Fresh(op, id, MaxPatches), v, rd, wr, sh)

(* One patch of the request that p has open.                               *)
Patch(p, op, v, rd, wr, sh) ==
  /\ tx[p].op = op
  /\ tx[p].patches < MaxPatches
  /\ Execute(p, [tx[p] EXCEPT !.patches = @ + 1], v, rd, wr, sh)
  /\ UNCHANGED used

Patching(p, op) == tx[p] # NULL /\ tx[p].op = op

Exists(v, x) ==
  \/ x \in Cards /\ Has(v, "catalog_cards", x)
  \/ x \in Kinds /\ Has(v, "catalog_movie_edition_kinds", x)

(* The names that change from v to w (PatchCard, PatchMovieEditionKind).   *)
Renamed(v, w) ==
  {c \in Cards : /\ Has(v, "catalog_cards", c) /\ Has(w, "catalog_cards", c)
                 /\ v.catalog_cards[c] # w.catalog_cards[c]}
  \cup
  {k \in Kinds : /\ Has(v, "catalog_movie_edition_kinds", k)
                 /\ Has(w, "catalog_movie_edition_kinds", k)
                 /\ v.catalog_movie_edition_kinds[k].name
                      # w.catalog_movie_edition_kinds[k].name}

(* What an open transaction t has to know of one that has committed.  The  *)
(* rows of missed are left out of seen: t cannot write them any more.      *)
Told(t, rd, wr, outdated) ==
  Settled([t EXCEPT !.missed = @ \cup wr, !.seen = (@ \cup rd) \ (t.missed \cup wr),
                    !.hot = @ \cup (IF outdated THEN wr ELSE {})])

Publish(p, v, rd, wr, outdated) ==
  /\ db' = Overwrite(db, v, wr)
  /\ tx' = [q \in Clients |->
              IF q = p THEN NULL
              ELSE IF q \in Open THEN Told(tx[q], rd, wr, outdated) ELSE NULL]
  /\ renamed' = {x \in renamed \cup Renamed(db, db') : Exists(db', x)}
  /\ UNCHANGED <<used, requests>>

(* Mutant: snapshot isolation, which REPEATABLE READ gives.                *)
Serializable_Snapshot(p) == TRUE

Outdated(t) == t.reads \cap t.missed # {}
Serializable(p) ==
  LET t == tx[p] IN
  /\ ~(Outdated(t) /\ t.wrote \cap (t.seen \cup OthersRead(p)) # {})
  /\ t.reads \cap t.hot = {}

Commit(p) ==
  /\ p \in Open
  /\ Serializable(p)
  /\ Publish(p, tx[p].view, tx[p].reads, tx[p].wrote, Outdated(tx[p]))

RollBack(p) ==
  /\ p \in Open
  /\ tx' = [tx EXCEPT ![p] = NULL]
  /\ UNCHANGED <<db, used, requests, renamed>>

(* A request that is one DELETE statement and its cascade, without Begin.  *)
Delete(p, row, cascade) ==
  /\ tx[p] = NULL
  /\ row \in cascade
  /\ cascade \cap (OthersWrote(p) \cup OthersShared(p)) = {}
  /\ Publish(p, EmptyTables, {row}, cascade, FALSE)
=============================================================================
