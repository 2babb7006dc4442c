----------------------------- MODULE MCTreeStore -----------------------------
(* Trees that were filled in ascending and in descending order. *)
EXTENDS TreeStore

FillOrders == {<<>>, <<1, 2, 3>>, <<5, 4, 3, 2, 1>>}
=============================================================================
