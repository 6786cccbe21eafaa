----------------------------- MODULE MCSession ------------------------------
(***************************************************************************)
(* Session for TLC.  Pages are only told apart, so they may be permuted.   *)
(***************************************************************************)
EXTENDS Session, TLC

PageSymmetry == Permutations(Page)

=============================================================================
