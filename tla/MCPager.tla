------------------------------- MODULE MCPager -------------------------------
(***************************************************************************)
(* Pager for TLC; the MCPager*.cfg files give its constants their values.  *)
(* The bodies of pages are only ever copied and compared, so they may be   *)
(* permuted.                                                               *)
(***************************************************************************)
EXTENDS Pager, TLC

DataSymmetry == Permutations(Data)

=============================================================================
