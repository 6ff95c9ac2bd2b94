------------------------------- MODULE Paging -------------------------------
(***************************************************************************)
(* The lists of the console, page after page: pageArgs and toPage          *)
(* (admin.service.ts), and the same code in listAdjustments,               *)
(* listUpgradeRequests and getTransactions.  Rows are numbered in the      *)
(* order they are created in; new ones come, and rows stop matching the    *)
(* filter, between two pages.                                              *)
(***************************************************************************)
EXTENDS Integers, FiniteSets, FiniteSetsExt

CONSTANTS
    Rows,           \* bound on the rows that are ever created
    PageSize,       \* the limit of a request
    CursorLeaves    \* TRUE: the last row shown may stop matching as well

ASSUME PagingAssumption ==
    Rows \in Nat /\ PageSize \in Nat \ {0} /\ CursorLeaves \in BOOLEAN

VARIABLES
    made,       \* how many rows there are
    matching,   \* those that match the filter
    oldest,     \* the list shows the oldest row first (pending upgrades), or the newest
    cursor,     \* nextCursor of the last page: 0 before the first one, -1 after the last
    shown,      \* the rows on all pages so far, and how often any was
    awaited     \* the rows that have matched since before the first page

pagingVars == <<made, matching, oldest, cursor, shown, awaited>>

PagingInit ==
    /\ made \in 0..Rows
    /\ matching = 1..made /\ awaited = 1..made
    /\ oldest \in BOOLEAN
    /\ cursor = 0
    /\ shown = [r \in 1..Rows |-> 0]

\* The list shows row q before row r
Precedes(q, r) == IF oldest THEN q < r ELSE q > r

\* The first n of the rows s, in the order of the list
FirstOf(n, s) == {r \in s : Cardinality({q \in s : Precedes(q, r)}) < n}

\* Rows from the cursor on, whether or not the cursor itself still matches
FromCursor == {r \in matching : cursor = 0 \/ ~Precedes(r, cursor)}

\* Mutant: the cursor's row is not skipped
TakenTwice == FirstOf(PageSize + 1, FromCursor)

\* findMany with take, and skip 1 if there is a cursor
Taken ==
    LET skipped == IF cursor = 0 THEN {} ELSE FirstOf(1, FromCursor)
    IN FirstOf(PageSize + 1, FromCursor \ skipped)

\* One row more than asked for tells whether there is another page
NextPage ==
    /\ cursor # -1
    /\ LET items == FirstOf(PageSize, Taken)
       IN /\ shown' = [r \in 1..Rows |-> IF r \in items THEN shown[r] + 1 ELSE shown[r]]
          /\ cursor' = IF Cardinality(Taken) > PageSize THEN (IF oldest THEN Max(items) ELSE Min(items)) ELSE -1
    /\ UNCHANGED <<made, matching, oldest, awaited>>

NewRow ==
    /\ made < Rows
    /\ made' = made + 1
    /\ matching' = matching \cup {made + 1}
    /\ UNCHANGED <<oldest, cursor, shown, awaited>>

\* A deposit settles, an adjustment is decided: the filtered list loses the row
LeaveList(r) ==
    /\ r \in matching
    /\ r = cursor => CursorLeaves
    /\ matching' = matching \ {r}
    /\ awaited' = awaited \ {r}
    /\ UNCHANGED <<made, oldest, cursor, shown>>

PagingNext == NextPage \/ NewRow \/ \E r \in 1..Rows : LeaveList(r)

PagingTypeOK ==
    /\ made \in 0..Rows /\ matching \subseteq 1..made /\ awaited \subseteq matching
    /\ oldest \in BOOLEAN /\ cursor \in -1..Rows
    /\ shown \in [1..Rows -> Nat]

\* However rows come and go between the pages, who reads to the last one has seen every row that
\* matched all the while, and none twice.  The row a page ended with must stay: skip 1 would otherwise
\* skip the one after it.
NothingMissed ==
    /\ \A r \in 1..Rows : shown[r] <= 1
    /\ cursor = -1 => \A r \in awaited : shown[r] = 1
=============================================================================
