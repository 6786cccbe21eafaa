----------------------------- MODULE MCFreelist -----------------------------
(***************************************************************************)
(* Freelist for TLC.  No property of the passing run speaks of what comes  *)
(* after a full trunk page or the rollback of a change of the list, and    *)
(* from there the fields drift without bound: such states are checked, and *)
(* not continued.                                                          *)
(***************************************************************************)
EXTENDS Freelist

Unspoilt == ~(overflowed \/ undone)

=============================================================================
