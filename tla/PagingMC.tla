------------------------------ MODULE PagingMC ------------------------------
(* A small instance of Paging, with every function called in any order.    *)
EXTENDS Paging
=============================================================================
