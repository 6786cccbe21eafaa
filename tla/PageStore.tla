------------------------------ MODULE PageStore ------------------------------
(***************************************************************************)
(* What the pager of pysqlite promises its callers, without saying how:    *)
(* an array of pages that can be read and written, and a transaction that  *)
(* either keeps what was written or puts back what was there.              *)
(*                                                                         *)
(* The promise is the one the code can keep, and it is weaker than ACID in *)
(* two named ways.  A page written OUTSIDE a transaction and not flushed   *)
(* since is "loose": neither a rollback nor a crash is answerable for it.  *)
(* And a crash inside a transaction may leave any page the transaction     *)
(* wrote with any image, because the journal is never replayed; it leaves  *)
(* every other page alone.                                                 *)
(***************************************************************************)
CONSTANTS Page,     \* the page numbers of the database file
          Content   \* what a page can hold

VARIABLES view,     \* what reading each page returns
          open,     \* is a transaction in progress
          saved,    \* the view when the current transaction began, NoView without one
          touched,  \* the pages the current transaction has written
          loose,    \* pages written outside a transaction, not flushed since
          exempt    \* the loose pages when the current transaction began

NoView == <<>>

vars == <<view, open, saved, touched, loose, exempt>>

TypeOK ==
  /\ view \in [Page -> Content]
  /\ open \in BOOLEAN
  /\ saved \in [Page -> Content] \cup {NoView}
  /\ touched \subseteq Page
  /\ loose \subseteq Page
  /\ exempt \subseteq Page

Init ==
  /\ view \in [Page -> Content]
  /\ saved = NoView
  /\ open = FALSE
  /\ touched = {} /\ loose = {} /\ exempt = {}

\* A page is written.  In a transaction the store takes note that it was
\* touched; outside one the page becomes loose.
Write(p, c) ==
  /\ view' = [view EXCEPT ![p] = c]
  /\ IF open
     THEN touched' = touched \cup {p} /\ UNCHANGED loose
     ELSE loose' = loose \cup {p} /\ UNCHANGED touched
  /\ UNCHANGED <<open, saved, exempt>>

\* Loose pages reach the disk.
Harden ==
  /\ \E S \in SUBSET loose : loose' = loose \ S
  /\ UNCHANGED <<view, open, saved, touched, exempt>>

Begin ==
  /\ ~open
  /\ open' = TRUE
  /\ saved' = view
  /\ exempt' = loose
  /\ touched' = {}
  /\ UNCHANGED <<view, loose>>

\* What was written stays; no page the transaction wrote is loose any more.
Commit ==
  /\ open
  /\ open' = FALSE
  /\ touched' = {}
  /\ loose' \subseteq loose \ touched
  /\ saved' = NoView /\ exempt' = {}
  /\ UNCHANGED view

\* A page the transaction touched is put back: its image at the beginning,
\* unless it was loose then.
PutBack(p) ==
  /\ open
  /\ p \in touched
  /\ \E c \in Content :
       /\ p \notin exempt => c = saved[p]
       /\ view' = [view EXCEPT ![p] = c]
  /\ loose' = loose \ {p}
  /\ UNCHANGED <<open, saved, touched, exempt>>

\* The transaction ends as if it had never begun.
Rollback ==
  /\ open
  /\ \A p \in Page \ exempt : view[p] = saved[p]
  /\ open' = FALSE
  /\ touched' = {}
  /\ saved' = NoView /\ exempt' = {}
  /\ UNCHANGED <<view, loose>>

\* The process dies, or the database is closed, and is opened again: only
\* loose pages and the pages of the open transaction may have changed.
Crash ==
  /\ view' \in [Page -> Content]
  /\ \A p \in Page \ (loose \cup touched) : view'[p] = view[p]
  /\ open' = FALSE
  /\ touched' = {}
  /\ saved' = NoView /\ loose' = {} /\ exempt' = {}

Next ==
  \/ \E p \in Page, c \in Content : Write(p, c)
  \/ Harden \/ Begin \/ Commit \/ Rollback \/ Crash
  \/ \E p \in Page : PutBack(p)

Spec == Init /\ [][Next]_vars

=============================================================================
