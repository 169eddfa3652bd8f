------------------------------ MODULE DataTable ------------------------------
(***************************************************************************)
(* The paged table of the console (components/ui/data-table.tsx): the      *)
(* stack of cursors behind Previous and Next, the bar that tells the range *)
(* of rows, and the query of the page that uses the table.  A cursor is    *)
(* the offset the fixtures encode; FirstPage stands for null.              *)
(***************************************************************************)
EXTENDS Integers, Sequences, SequencesExt

CONSTANTS
    Rows,         \* rows of the list
    PageSizes,    \* PAGE_SIZES
    KeepRows,     \* whether the page keeps its rows while it fetches others (isFetching)
    MaxDepth      \* bound: pages on the stack

DataTableAssumption ==
    /\ Rows \in Nat
    /\ PageSizes \subseteq Nat \ {0} /\ PageSizes # {}
    /\ KeepRows \in BOOLEAN
    /\ MaxDepth \in Nat \ {0}

VARIABLES
    stack,       \* useCursorPagination: the cursor of every page up to this one
    pageSize,
    query,       \* what the page has: "loading", "fetching", "ready" or "error"
    shown        \* the response whose rows the table has, or NoPage

vars == <<stack, pageSize, query, shown>>

FirstPage == 0
NoCursor  == -1
NoPage    == [cursor |-> FirstPage, items |-> <<>>, nextCursor |-> NoCursor]

Cursor    == Last(stack)
PageIndex == Len(stack) - 1

\* One page of the fixtures.
Paginate(cursor, limit) ==
    LET end == cursor + limit IN
    [cursor     |-> cursor,
     items      |-> [i \in 1..(IF end < Rows THEN limit
                               ELSE IF Rows > cursor THEN Rows - cursor ELSE 0) |-> cursor + i],
     nextCursor |-> IF end < Rows THEN end ELSE NoCursor]

\* The rows the table has: none before the first response or after an error.
Data == IF query \in {"loading", "error"} THEN <<>> ELSE shown.items

\* The buttons and the page size are dead while nothing is on the table.
Disabled == query \in {"loading", "error"}

\* The range the bar tells.
From == PageIndex * pageSize + (IF Len(Data) > 0 THEN 1 ELSE 0)
To   == PageIndex * pageSize + Len(Data)

\* The page asks for the rows of a cursor it does not have.
Load ==
    IF KeepRows /\ query \in {"ready", "fetching"}
    THEN query' = "fetching" /\ UNCHANGED shown
    ELSE query' = "loading" /\ shown' = NoPage

Init ==
    /\ stack = <<FirstPage>>
    /\ pageSize \in PageSizes
    /\ query = "loading"
    /\ shown = NoPage

Forward ==
    /\ ~Disabled
    /\ shown.nextCursor # NoCursor
    /\ Len(stack) < MaxDepth
    /\ stack' = Append(stack, shown.nextCursor)
    /\ UNCHANGED pageSize
    /\ Load

Back ==
    /\ ~Disabled
    /\ Len(stack) > 1
    /\ stack' = Front(stack)
    /\ UNCHANGED pageSize
    /\ Load

\* fault: the cursors of the old size are kept
SetPageSizeKeeps(size) ==
    /\ ~Disabled
    /\ size # pageSize
    /\ pageSize' = size
    /\ UNCHANGED stack
    /\ Load

\* Cursors are tied to the page size they were issued for.
SetPageSize(size) ==
    /\ ~Disabled
    /\ size # pageSize
    /\ pageSize' = size
    /\ stack' = <<FirstPage>>
    /\ Load

\* reset: the filters of the page changed.
Reset ==
    /\ stack' = <<FirstPage>>
    /\ UNCHANGED pageSize
    /\ Load

\* The refresh button, or the retry of the error state.
Refresh ==
    /\ query \in {"ready", "error"}
    /\ query' = IF query = "ready" THEN "fetching" ELSE "loading"
    /\ UNCHANGED <<stack, pageSize, shown>>

\* The answer for the cursor the page is at; answers for others are dropped.
Answer ==
    /\ query \in {"loading", "fetching"}
    /\ \/ query' = "ready" /\ shown' = Paginate(Cursor, pageSize)
       \/ query' = "error" /\ shown' = NoPage
    /\ UNCHANGED <<stack, pageSize>>

Next ==
    \/ Forward \/ Back \/ Reset \/ Refresh \/ Answer
    \/ \E size \in PageSizes : SetPageSize(size)

Spec == Init /\ [][Next]_vars

-----------------------------------------------------------------------------
TypeOK ==
    /\ stack # <<>> /\ Len(stack) <= MaxDepth
    /\ ToSet(stack) \subseteq 0..Rows
    /\ pageSize \in PageSizes
    /\ query \in {"loading", "fetching", "ready", "error"}
    /\ shown.nextCursor \in {NoCursor} \cup 1..Rows

\* The range told is the range of the rows on the table, whatever the way
\* through pages, sizes and failures that led there.
RangeTrue == Data # <<>> => Head(Data) = From /\ Last(Data) = To

\* Next never leads to a page without rows, though it may be pressed while the rows of
\* another page are on the table.
NeverPastTheEnd == query = "ready" /\ Rows > 0 => Data # <<>>

\* "Going back means remembering the cursor that produced each page": every
\* entry of the stack is where its page begins.  Not so of a page that keeps its rows:
\* Next pressed twice goes to one page twice, Previous and Next leave one out.
StackTrue == \A i \in DOMAIN stack : stack[i] = (i - 1) * pageSize
=============================================================================
