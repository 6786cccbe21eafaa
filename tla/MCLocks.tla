------------------------------ MODULE MCLocks ------------------------------
(* Two connections, and two updates that a writer knows of: one may commit  *)
(* while the other waits in its BEGIN, or with a page in its cache, and     *)
(* then again; or each commits one.                                         *)
EXTENDS Locks
=============================================================================
