------------------------------ MODULE MCBTree ------------------------------
(* Leaves of at most three rows and interior pages of at most two keys: six *)
(* rows reach every kind of split and of emptied leaf.                      *)
EXTENDS BTree
=============================================================================
