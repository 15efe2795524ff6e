----------------------------- MODULE Pagination ------------------------------
(***************************************************************************)
(* The listings of the services and their page tokens (internal/lib/       *)
(* vmpage).  A client walks through one listing, request after request,    *)
(* with a page size of its choice each time, while others insert and       *)
(* delete what it lists.  Cards, edition kinds, media and media sets are   *)
(* rows with an id (ListPtr); the DVDs of the inbox are names in a         *)
(* directory (ListFromStrings).                                            *)
(*                                                                         *)
(* Ids and names are numbers, 0 is the id and the name below all others.   *)
(* What a page says of an item is left out, and a page, which is always in *)
(* ascending order, is the set of its items.                               *)
(***************************************************************************)
EXTENDS Naturals, FiniteSets, FiniteSetsExt

CONSTANTS
  Listings,   \* the listings that the client may walk through
  LastItem,   \* bound: items are 1 .. LastItem
  PageSizes,  \* the page sizes that the client may ask for
  Default,    \* the page size of a request that asks for none
  Largest,    \* the largest page size (Max)
  NULL

ASSUME PaginationAssumption ==
  /\ Listings \subseteq {"cards", "kinds", "media", "media sets", "inbox"}
  /\ LastItem \in Nat
  /\ PageSizes \subseteq Nat
  /\ Default \in Nat \ {0} /\ Largest \in Nat \ {0} /\ Default <= Largest
  /\ NULL \notin Nat

(* No token is NULL.                                                       *)
ASSUME TokenAssumption == NULL \notin [magic : {"id", "string"}, last : Nat]

Items == 1 .. LastItem

VARIABLES
  listing, \* the listing the client walks through
  items,   \* what is there now
  used,    \* every id that has been there
  token,   \* the token of the next page, NULL before the first and after the last
  ended,   \* the client has received a page without a token
  page,    \* the last page the client received
  before,  \* the items of earlier pages
  turn,    \* flips with every answer, so that an answer like the last is a step too
  stayed   \* history: the items that were there all the time

walkVars == <<token, ended, page, before, turn>>
vars == <<listing, items, used, walkVars, stayed>>

Init ==
  /\ listing \in Listings
  /\ items \in SUBSET Items
  /\ used = items
  /\ token = NULL
  /\ ended = FALSE
  /\ page = {}
  /\ before = {}
  /\ turn = FALSE
  /\ stayed = items

------------------------------------------------------------------------------
(* Tokens.  Each kind has a magic number, and a token of the other kind is *)
(* refused.                                                                *)

fromLastSeenId(id) == [magic |-> "id", last |-> id]
fromLastSeenString(name) == [magic |-> "string", last |-> name]

Readable(magic) == token # NULL => token.magic = magic
lastSeen == IF token = NULL THEN 0 ELSE token.last

------------------------------------------------------------------------------
(* Requests.                                                               *)

(* Mutant: the limit on page sizes is forgotten.                           *)
limit_Unlimited(want) == IF want = NULL THEN Default ELSE want

limit(want) == IF want = NULL THEN Default ELSE Min({want, Largest})

Lowest(S, n) == {x \in S : Cardinality({y \in S : y <= x}) <= n}

(* Mutant: the last item of a page is the first of the next.               *)
Remaining_Inclusive == {x \in items : x >= lastSeen}

(* WHERE id > @lastSeenId, or the names after the last one seen.           *)
Remaining == {x \in items : x > lastSeen}

Receive(out, next) ==
  /\ ~ended
  /\ page' = out
  /\ before' = before \cup page
  /\ turn' = ~turn
  /\ token' = next
  /\ ended' = (next = NULL)
  /\ UNCHANGED <<listing, items, used, stayed>>

(* Mutant: the token names the row that was read beyond the page.          *)
ListPtr_Peeked(want) ==
  LET rows == Lowest(Remaining, limit(want) + 1)
      out  == Lowest(rows, limit(want))
  IN  /\ Readable("id")
      /\ Receive(out, IF Cardinality(rows) > limit(want)
                      THEN fromLastSeenId(Max(rows)) ELSE NULL)

(* The query reads one row beyond the page to see whether there is a next  *)
(* page.  The id in the token is 0 when the page is empty (a limit of 0).  *)
ListPtr(want) ==
  LET rows == Lowest(Remaining, limit(want) + 1)
      out  == Lowest(rows, limit(want))
  IN  /\ Readable("id")
      /\ Receive(out, IF Cardinality(rows) > limit(want)
                      THEN fromLastSeenId(Max(out \cup {0})) ELSE NULL)

(* The loop appends a name before it looks at the limit.  A full page has  *)
(* a token, also when nothing is left.                                     *)
ListFromStrings(want) ==
  LET out == Lowest(Remaining, Max({limit(want), 1}))
  IN  /\ Readable("string")
      /\ Receive(out, IF Cardinality(out) = limit(want) /\ out # {}
                      THEN fromLastSeenString(Max(out)) ELSE NULL)

ListCards(want) == listing = "cards" /\ ListPtr(want)
ListMovieEditionKinds(want) == listing = "kinds" /\ ListPtr(want)
ListMedia(want) == listing = "media" /\ ListPtr(want)
ListMediaSets(want) == listing = "media sets" /\ ListPtr(want)
ListInboxDVDs(want) == listing = "inbox" /\ ListFromStrings(want)

Request ==
  \E want \in PageSizes \cup {NULL} :
    \/ ListCards(want) \/ ListMovieEditionKinds(want) \/ ListMedia(want)
    \/ ListMediaSets(want) \/ ListInboxDVDs(want)

------------------------------------------------------------------------------
(* Other requests, and users of the inbox.                                 *)

(* An item appears.  Ids are handed out in order, but the transactions     *)
(* that insert them commit in any order; an id is not used twice, while a  *)
(* name may come back.                                                     *)
Insert(x) ==
  /\ x \notin (IF listing = "inbox" THEN items ELSE used)
  /\ items' = items \cup {x}
  /\ used' = used \cup {x}
  /\ UNCHANGED <<listing, walkVars, stayed>>

Delete(x) ==
  /\ x \in items
  /\ items' = items \ {x}
  /\ stayed' = stayed \ {x}
  /\ UNCHANGED <<listing, used, walkVars>>

Next == Request \/ \E x \in Items : Insert(x) \/ Delete(x)

(* The client goes on asking until there is no token.                      *)
Spec == Init /\ [][Next]_vars /\ WF_vars(Request)

------------------------------------------------------------------------------
(* Properties.                                                             *)

(* Types; a page is never longer than the largest page size.               *)
TypeOK ==
  /\ listing \in Listings
  /\ items \in SUBSET Items /\ used \in SUBSET Items /\ items \subseteq used
  /\ token \in [magic : {"id", "string"}, last : Nat] \cup {NULL}
  /\ ended \in BOOLEAN /\ turn \in BOOLEAN
  /\ page \in SUBSET Items /\ Cardinality(page) <= Largest
  /\ before \in SUBSET Items
  /\ stayed \in SUBSET items

(* No item is on two pages of a walk, and the pages are in order, whatever *)
(* is inserted or deleted between two requests (ListPtr, ListFromStrings). *)
NothingTwice == \A x \in before, y \in page : x < y

(* A walk that has ended has shown every item that was there all the time. *)
NothingMissed == ended => stayed \subseteq before \cup page

(* A client that goes on asking, never for zero items, comes to the last   *)
(* page, whatever comes and goes meanwhile: the id or the name in its      *)
(* token only grows.                                                       *)
WalkEnds == <>ended
=============================================================================
