---------------------------- MODULE MCSearchTrees ----------------------------
(* Trees of up to three levels, filled in ascending and in descending order. *)
EXTENDS SearchTrees

FillOrders ==
    {<<>>, <<2, 4, 6, 8>>, <<1, 2, 3, 4, 5, 6, 7, 8, 9, 10>>, <<10, 8, 6, 4, 2>>,
     <<10, 9, 8, 7, 6, 5, 4, 3>>}
==============================================================================
