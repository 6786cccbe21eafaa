------------------------------- MODULE MCPage -------------------------------
(* A page of fifteen units: a header of four, and room for three cells with *)
(* their pointers.  Of the second key there is a small and a large one, as  *)
(* an UPDATE makes them; the large one and the next one, with the bytes     *)
(* that follow it, can be too much for the upper half of a split.           *)
EXTENDS Page

C(k, s) == [key |-> k, size |-> s]
MCCells == {C(1, 4), C(2, 2), C(2, 6), C(3, 2)}
=============================================================================
