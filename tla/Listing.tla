------------------------------ MODULE Listing ------------------------------
(***************************************************************************)
(* Paging through a list of the API: submissions, runs, datasets and       *)
(* configurations are listed newest first by offset, with one query for    *)
(* the total and one for the page, while other requests create and         *)
(* soft-delete rows.  created_at is the start of the inserting transaction *)
(* and the row appears at its commit, so a new row may appear anywhere     *)
(* between the others.  Where a list is filtered by status, an update that *)
(* changes the status adds or removes a row.  A client walks the pages     *)
(* while has_next says so.                                                 *)
(***************************************************************************)
EXTENDS Naturals, Sequences, FiniteSets

CONSTANTS
    RowIds,
    RequestedSize       \* page_size of the request

ASSUME RequestedSizeAssumption == RequestedSize \in Nat

VARIABLES
    rows,       \* the rows that are not deleted, newest first
    retired,    \* the rows that were soft-deleted
    walk        \* the client: where it is and what it has seen

listVars == <<rows, retired, walk>>

\* get_pagination
AtLeastOne(n) == IF n < 1 THEN 1 ELSE n
PageSize == IF AtLeastOne(RequestedSize) > 100 THEN 100 ELSE AtLeastOne(RequestedSize)

Listed == {rows[k] : k \in 1 .. Len(rows)}

\* start: the rows when the first page was asked for; torn: a row appeared
\* between a page's two queries; lost: a row was deleted during the walk.
Walk == [at : {"idle", "count", "page", "end"}, page : Nat, total : Nat,
         start : SUBSET RowIds, seen : SUBSET RowIds, torn : BOOLEAN, lost : BOOLEAN]
NoWalk == [at |-> "idle", page |-> 1, total |-> 0, start |-> {}, seen |-> {},
           torn |-> FALSE, lost |-> FALSE]

ListingTypeOK ==
    /\ rows \in Seq(RowIds)
    /\ retired \subseteq RowIds
    /\ walk \in Walk

ListingInit == rows = <<>> /\ retired = {} /\ walk = NoWalk

---------------------------------------------------------------------------
\* create_submission and its kind: the row appears after k others.
Insert(x, k) ==
    /\ x \notin Listed \cup retired
    /\ rows' = SubSeq(rows, 1, k) \o <<x>> \o SubSeq(rows, k + 1, Len(rows))
    /\ walk' = [walk EXCEPT !.torn = @ \/ walk.at = "page"]
    /\ UNCHANGED retired

\* delete_submission and its kind: soft_delete.
SoftDelete(k) ==
    /\ rows' = SubSeq(rows, 1, k - 1) \o SubSeq(rows, k + 1, Len(rows))
    /\ retired' = retired \cup {rows[k]}
    /\ walk' = [walk EXCEPT !.lost = @ \/ walk.at # "idle"]

StartWalk ==
    /\ walk.at = "idle"
    /\ walk' = [NoWalk EXCEPT !.at = "count", !.start = Listed]
    /\ UNCHANGED <<rows, retired>>

\* SELECT count(*)
CountQuery ==
    /\ walk.at = "count"
    /\ walk' = [walk EXCEPT !.at = "page", !.total = Len(rows)]
    /\ UNCHANGED <<rows, retired>>

Offset(page) == (page - 1) * PageSize

\* Mutant: the last, partly filled page is not counted.
FullPages(total) == total \div PageSize
\* build_paginated_response: ceil(total / page_size).
TotalPages(total) == (total + PageSize - 1) \div PageSize

PageItems == {rows[k] : k \in {j \in 1 .. Len(rows) :
                                  Offset(walk.page) < j /\ j <= Offset(walk.page) + PageSize}}

\* SELECT ... OFFSET LIMIT, and the answer with has_next.
PageQuery ==
    /\ walk.at = "page"
    /\ walk' = [walk EXCEPT !.seen = @ \cup PageItems,
                            !.page = @ + 1,
                            !.at = IF walk.page < TotalPages(walk.total) THEN "count" ELSE "end"]
    /\ UNCHANGED <<rows, retired>>

FinishWalk ==
    /\ walk.at = "end"
    /\ walk' = NoWalk
    /\ UNCHANGED <<rows, retired>>

ListingNext ==
    \/ \E x \in RowIds, k \in 0 .. Len(rows) : Insert(x, k)
    \/ \E k \in 1 .. Len(rows) : SoftDelete(k)
    \/ StartWalk \/ CountQuery \/ PageQuery \/ FinishWalk

ListingSpec == ListingInit /\ [][ListingNext]_listVars

---------------------------------------------------------------------------
\* Rows created during a walk push others to later pages, so a client may see a
\* row twice; but it misses none of the rows that were there when it began,
\* unless one was deleted meanwhile or a row appeared between the two queries of
\* a page, whose total then says too early that there is no next page.
InsertsHideNothing ==
    walk.at = "end" /\ ~walk.torn /\ ~walk.lost => walk.start \subseteq walk.seen
===========================================================================
