---------------------------- MODULE MCPagination -----------------------------
(* TLC instance of Pagination.  Page sizes 1 and 4, the latter above the   *)
(* largest allowed one; a request without a size gets the default.  Asked  *)
(* for zero items, ListPtr starts again from the first, for ever.          *)
EXTENDS Pagination

AllListings == {"cards", "kinds", "media", "media sets", "inbox"}
=============================================================================
