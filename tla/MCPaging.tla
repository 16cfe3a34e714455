------------------------------ MODULE MCPaging ------------------------------
(***************************************************************************)
(* Paging with tables of two entries for TLC.                              *)
(***************************************************************************)
EXTENDS Paging

\* One stack, and a heap that reaches a second level 2 table.
SmallRoom == [reg \in Regions |-> IF reg = "stack" THEN 2 ELSE 5]

\* A blank page, and one that would read as a table full of marks.
Pictures ==
    {[i \in Index |-> [base |-> NULL, avl |-> FALSE]],
     [i \in Index |-> [base |-> NULL, avl |-> TRUE]]}
=============================================================================
