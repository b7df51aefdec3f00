--------------------------- MODULE MCTodoistFetch ---------------------------
(***************************************************************************)
(* An instance of TodoistFetch for TLC: as many jobs as the group has room *)
(* for and one more, lists of up to three pages, one retry, and a change between   *)
(* two pages.                                                              *)
(***************************************************************************)
EXTENDS TodoistFetch

ThreeIds == 1 .. 3

\* Any tasks; the first of them has no comments or many; names are not told apart.
SomeStocks ==
    {[e \in Endpoints |-> IF e = TaskList THEN tasks
                          ELSE IF e = CommentsOf(1) THEN comments ELSE {}] :
       tasks \in SUBSET Ids, comments \in {{}, Ids}}
=============================================================================
