-------------------------------- MODULE Locks --------------------------------
(* Several connections to one database file: the byte-range locks of        *)
(* src/pysqlite/vfs.py, taken by TransactionManager (transaction.py) and by *)
(* the Pager, the journal file that they share, and page 1, the header      *)
(* page, on which the locked bytes lie: no COMMIT goes through without      *)
(* writing it.  LockFileEx is called without LOCKFILE_FAIL_IMMEDIATELY, so  *)
(* a call waits until it can have the lock, and the locks of Windows are    *)
(* mandatory: they deny reads and writes of the bytes.                      *)
(* Page 1 is the set of updates made to it.                                 *)
EXTENDS Integers, FiniteSets

CONSTANTS Connections, MaxUpdates       \* a bound: updates that a writer knows of

ASSUME LocksAssumption == MaxUpdates \in Nat /\ IsFiniteSet(Connections)

(* The levels NONE, SHARED, RESERVED and EXCLUSIVE; nobody asks for PENDING. *)
None == 0
Shared == 1
Reserved == 2
Exclusive == 4

Update == Connections \X (1..MaxUpdates)
NoPage == {<<"no page", 0>>}

VARIABLES
  wide,         \* whether the processes are 64-bit ones
  file,         \* the page in the file
  state,        \* TransactionManager.state; "failed" when the Pager's
                \* transaction is over and the manager's is not
  level,        \* FileHandle.lock_state
  held,         \* the levels whose locks it has
  todo,         \* the call of lock that it is in, or "none"
  journal,      \* whether it has the journal file open in its transaction
  leaked,       \* whether it has it open since a rollback that raised
  cache,        \* the page in its Pager's cache
  before,       \* the page's before-image
  told,         \* the updates whose COMMIT was answered
  stale,        \* an update was made to a cached page that was not the file's
  asked         \* who has ever begun a transaction IMMEDIATE or EXCLUSIVE

calls == <<wide, asked>>
data == <<file, cache, before, told, stale, leaked>>
vars == <<wide, file, state, level, held, todo, journal, leaked, cache, before, told, stale, asked>>

Init ==
  /\ wide \in BOOLEAN
  /\ file = {} /\ told = {} /\ stale = FALSE /\ asked = {}
  /\ state = [c \in Connections |-> "none"]
  /\ level = [c \in Connections |-> None]
  /\ held = [c \in Connections |-> {}]
  /\ todo = [c \in Connections |-> "none"]
  /\ journal = [c \in Connections |-> FALSE]
  /\ leaked = [c \in Connections |-> FALSE]
  /\ cache = [c \in Connections |-> NoPage]
  /\ before = [c \in Connections |-> NoPage]

Others(c) == Connections \ {c}
Idle(c) == state[c] = "none" /\ todo[c] = "none"
Open == {c \in Connections : state[c] \in {"read", "write"}}
Ready(c) == c \in Open /\ todo[c] = "none"

-----------------------------------------------------------------------------
(* The locks.                                                               *)

(* Slip: the offset is lost in 32-bit processes, too.                       *)
FirstByte(l) == 0
(* Slip: OVERLAPPED is laid out as Windows lays it out.                     *)
DeclaredByte(l) == l - 1

(* The byte that is locked for a level.  _make_overlapped declares Internal *)
(* and InternalHigh with four bytes each; in a 64-bit process they have     *)
(* eight, and Windows takes for the offset what is hEvent here: 0.          *)
ByteOf(l) == IF wide THEN 0 ELSE l - 1

(* Slip: the lock of a connection that only reads does not count.           *)
ClashOfWriters(c, d, l) ==
  \E m \in held[d] : ByteOf(m) = ByteOf(l) /\ (l = Shared => m # Shared /\ d # c) /\ state[d] = "write"

(* d has a lock that c's call waits for: an exclusive one waits for every   *)
(* other one of its byte, its own connection's too; only SHARED is shared.  *)
Clash(c, d, l) == \E m \in held[d] : ByteOf(m) = ByteOf(l) /\ (l = Shared => m # Shared /\ d # c)

(* The level that the call asks for.                                        *)
Wanted == [share |-> Shared, reserve |-> Reserved, immediate |-> Reserved,
           exclusive |-> Exclusive, commit |-> Exclusive]

Free(c) == \A d \in Connections : ~Clash(c, d, Wanted[todo[c]])

Granted(c) ==
  /\ Free(c)
  /\ held' = [held EXCEPT ![c] = @ \union {Wanted[todo[c]]}]
  /\ level' = [level EXCEPT ![c] = Wanted[todo[c]]]

(* Slip: unlock releases the level that it goes to as well.                 *)
KeptAbove(c, from, to) ==
  {l \in held[c] : ~\E m \in {Shared, Reserved, Exclusive} : to <= m /\ m <= from /\ ByteOf(m) = ByteOf(l)}

(* The locks that unlock leaves: it releases the bytes of the levels above  *)
(* the one it goes to, as far up as the level it comes from.                *)
Kept(c, from, to) ==
  {l \in held[c] : ~\E m \in {Shared, Reserved, Exclusive} : to < m /\ m <= from /\ ByteOf(m) = ByteOf(l)}

Unlock(c, to) ==
  /\ held' = [held EXCEPT ![c] = Kept(c, level[c], to)]
  /\ level' = [level EXCEPT ![c] = to]

(* Page 1 can be read as long as no other connection has locked a byte of   *)
(* it exclusively, and written as long as no other one has locked any, and  *)
(* its own one none with SHARED.                                            *)
Readable(c) == \A d \in Others(c) : held[d] \subseteq {Shared}
Writable(c) == Shared \notin held[c] /\ \A d \in Others(c) : held[d] = {}

-----------------------------------------------------------------------------
(* BEGIN.  The manager's lock, then the Pager's: it opens the journal and   *)
(* asks for RESERVED.  A lock that lock_state is past is not asked for.     *)
(* Statements begin DEFERRED, whatever their text says; the other two are   *)
(* modes of TransactionManager.begin.                                       *)

Call(c, what) == todo' = [todo EXCEPT ![c] = what]

BeginDeferred(c) ==
  /\ Idle(c)
  /\ Call(c, IF level[c] = None THEN "share" ELSE "reserve")
  /\ journal' = [journal EXCEPT ![c] = level[c] # None]
  /\ UNCHANGED <<state, level, held, calls, data>>

BeginLocked(c, mode) ==
  /\ Idle(c)
  /\ Call(c, mode)
  /\ asked' = asked \union {c}
  /\ UNCHANGED <<wide, state, level, held, journal, data>>

(* SHARED is there; the Pager opens the journal and asks for RESERVED.      *)
SharedLocked(c) ==
  /\ todo[c] = "share"
  /\ Granted(c) /\ Call(c, "reserve")
  /\ journal' = [journal EXCEPT ![c] = TRUE]
  /\ UNCHANGED <<state, calls, data>>

Started(c) ==
  /\ todo[c] \in {"reserve", "immediate", "exclusive"}
  /\ Granted(c) /\ Call(c, "none")
  /\ state' = [state EXCEPT ![c] = "read"]
  /\ journal' = [journal EXCEPT ![c] = TRUE]
  /\ UNCHANGED <<calls, data>>

(* In a 64-bit process hEvent is what happens to lie behind the structure,  *)
(* so that Windows may refuse a call.  That changes nothing, except if it   *)
(* is the Pager's: BEGIN raises BusyError, but has SHARED by then.          *)
Refused(c) ==
  /\ wide /\ todo[c] = "share"
  /\ Granted(c) /\ Call(c, "none")
  /\ UNCHANGED <<state, journal, calls, data>>

(* begin_write: RESERVED is there already.                                  *)
BeginWrite(c) ==
  /\ Ready(c)
  /\ state' = [state EXCEPT ![c] = "write"]
  /\ UNCHANGED <<level, held, todo, journal, calls, data>>

-----------------------------------------------------------------------------
(* Reading, which takes no lock, and writing.  Whatever is in the cache is  *)
(* current to its Pager.                                                    *)

Page(c) == IF cache[c] = NoPage THEN file ELSE cache[c]

Read(c) ==
  /\ todo[c] = "none" /\ cache[c] = NoPage /\ Readable(c)
  /\ cache' = [cache EXCEPT ![c] = file]
  /\ UNCHANGED <<file, state, level, held, todo, journal, before, told, stale, leaked, calls>>

Known(c) == told \union file \union Page(c)
NextUpdate(c) == Cardinality({u \in Known(c) : u[1] = c}) + 1

(* The before-image is read from the file.  A header field is flushed at    *)
(* once, other changes are not; where the page cannot be written the flush  *)
(* raises, and the change stays in the cache.                               *)
Write(c) ==
  /\ Ready(c) /\ state[c] = "write" /\ Cardinality(Known(c)) < MaxUpdates
  /\ before[c] = NoPage => Readable(c)
  /\ before' = [before EXCEPT ![c] = IF @ = NoPage THEN file ELSE @]
  /\ cache' = [cache EXCEPT ![c] = Page(c) \union {<<c, NextUpdate(c)>>}]
  /\ stale' = (stale \/ (before[c] = NoPage /\ Page(c) # file))
  /\ file' = file \/ (Writable(c) /\ file' = cache'[c])
  /\ UNCHANGED <<state, level, held, todo, journal, told, leaked, calls>>

-----------------------------------------------------------------------------
(* COMMIT and ROLLBACK                                                      *)

(* A file that somebody else has open is not deleted on Windows: os.remove  *)
(* fails, and with it the COMMIT, which is undone.                          *)
Deletable(c) == ~leaked[c] /\ \A d \in Others(c) : ~journal[d] /\ ~leaked[d]

Dirty(c) == before[c] # NoPage /\ cache[c] # file

(* Slip: the before-images are kept for the next transaction.               *)
FinishKeepsImages(c, s, to) ==
  /\ state' = [state EXCEPT ![c] = s]
  /\ Unlock(c, to)
  /\ journal' = [journal EXCEPT ![c] = FALSE]
  /\ Call(c, "none")
  /\ UNCHANGED <<before, stale, calls>>

(* The Pager's transaction is over, the manager goes to state s, level to.  *)
Finish(c, s, to) ==
  /\ state' = [state EXCEPT ![c] = s]
  /\ Unlock(c, to)
  /\ journal' = [journal EXCEPT ![c] = FALSE]
  /\ before' = [before EXCEPT ![c] = NoPage]
  /\ Call(c, "none")
  /\ UNCHANGED <<stale, calls>>

(* The journal goes, and the change counter is stamped into page 1.         *)
Committed(c) ==
  /\ before[c] # NoPage /\ Writable(c) /\ Deletable(c)
  /\ file' = cache[c]
  /\ told' = told \union {u \in cache[c] : u[1] = c}
  /\ Finish(c, "none", Shared)
  /\ UNCHANGED <<cache, leaked>>

(* The page is written, but the journal cannot be deleted: it is put back.  *)
CommitUndone(c) ==
  /\ before[c] # NoPage /\ Writable(c) /\ ~Deletable(c)
  /\ file' = before[c] /\ cache' = [cache EXCEPT ![c] = NoPage]
  /\ Finish(c, "failed", Shared)
  /\ UNCHANGED <<told, leaked>>

(* The page cannot be written, by the flush or by the stamp, nor by the     *)
(* rollback, which raises before it has closed the journal, if the flush    *)
(* has not come as far: nobody will delete it while this process lives.     *)
CommitDenied(c) ==
  /\ before[c] # NoPage /\ ~Writable(c)
  /\ leaked' = [leaked EXCEPT ![c] = @ \/ Dirty(c)]
  /\ Finish(c, "failed", Shared)
  /\ UNCHANGED <<file, cache, told>>

(* Without a before-image of page 1 the stamp needs one, and the journal is *)
(* closed.  The page it read stays in the cache if it cannot be rewritten.  *)
CommitUnstamped(c) ==
  /\ before[c] = NoPage
  /\ cache' = [cache EXCEPT ![c] = IF ~Deletable(c) \/ ~Readable(c) THEN @
                                   ELSE IF Writable(c) THEN NoPage ELSE Page(c)]
  /\ Finish(c, "failed", Shared)
  /\ UNCHANGED <<file, told, leaked>>

Commits(c) == Committed(c) \/ CommitUndone(c) \/ CommitDenied(c) \/ CommitUnstamped(c)

Commit(c) ==
  /\ Ready(c) /\ state[c] = "write"
  /\ IF level[c] = Exclusive THEN Commits(c)
     ELSE /\ Call(c, "commit")
          /\ UNCHANGED <<state, level, held, journal, calls, data>>

(* EXCLUSIVE is there, and goes with the end of the commit.                 *)
CommitGoesOn(c) == todo[c] = "commit" /\ Free(c) /\ Commits(c)

(* COMMIT of a transaction that wrote nothing: a rollback in the Pager.     *)
CommitRead(c) ==
  /\ Ready(c) /\ state[c] = "read"
  /\ IF Deletable(c) THEN Finish(c, "none", Shared) ELSE Finish(c, "failed", Shared)
  /\ UNCHANGED <<file, cache, told, leaked>>

Restored(c) == IF before[c] = NoPage THEN file ELSE before[c]
Dropped(c) == IF before[c] = NoPage THEN cache[c] ELSE NoPage

Rollback(c) ==
  /\ Ready(c)
  /\ IF before[c] # NoPage /\ ~Writable(c)
     THEN /\ leaked' = [leaked EXCEPT ![c] = TRUE]
          /\ Finish(c, "failed", Shared)
          /\ UNCHANGED <<file, cache>>
     ELSE /\ file' = Restored(c) /\ cache' = [cache EXCEPT ![c] = Dropped(c)]
          /\ IF Deletable(c) THEN Finish(c, "none", None) ELSE Finish(c, "failed", Shared)
          /\ UNCHANGED leaked
  /\ UNCHANGED told

(* After a failure the program rolls back, which ends the manager's half.   *)
(* (What it can do instead is the subject of module Session.)               *)
EndAgain(c) ==
  /\ state[c] = "failed" /\ todo[c] = "none"
  /\ state' = [state EXCEPT ![c] = "none"]
  /\ Unlock(c, None)
  /\ UNCHANGED <<todo, journal, calls, data>>

(* The connection's process ends and another one opens the file: the only   *)
(* way a cache is emptied but a rollback's.  Opening reads page 1.          *)
Reopen(c) ==
  /\ Idle(c) /\ Readable(c)
  /\ held' = [held EXCEPT ![c] = {}]
  /\ level' = [level EXCEPT ![c] = None]
  /\ leaked' = [leaked EXCEPT ![c] = FALSE]
  /\ cache' = [cache EXCEPT ![c] = NoPage]
  /\ UNCHANGED <<file, state, todo, journal, before, told, stale, calls>>

-----------------------------------------------------------------------------
Ends(c) == Commit(c) \/ CommitRead(c) \/ Rollback(c) \/ EndAgain(c)
Proceeds(c) == SharedLocked(c) \/ Refused(c) \/ Started(c) \/ CommitGoesOn(c)

Next ==
  \E c \in Connections :
    \/ BeginDeferred(c) \/ BeginLocked(c, "immediate") \/ BeginLocked(c, "exclusive")
    \/ BeginWrite(c) \/ Read(c) \/ Write(c) \/ Reopen(c)
    \/ Ends(c) \/ Proceeds(c)

(* A program ends the transactions it begins, as every statement on its own *)
(* does; and the system gives a lock to whoever waits for it long enough.   *)
Fairness == \A c \in Connections : WF_vars(Ends(c)) /\ SF_vars(Proceeds(c))

Spec == Init /\ [][Next]_vars /\ Fairness

-----------------------------------------------------------------------------
(* Properties                                                               *)

(* Types, and nobody has a lock above the level that lock_state says.       *)
TypeOK ==
  /\ wide \in BOOLEAN /\ stale \in BOOLEAN /\ asked \subseteq Connections
  /\ file \subseteq Update /\ told \subseteq Update
  /\ \A c \in Connections :
       /\ state[c] \in {"none", "read", "write", "failed"}
       /\ todo[c] \in {"none"} \union DOMAIN Wanted
       /\ level[c] \in {None, Shared, Reserved, Exclusive}
       /\ held[c] \subseteq {Shared, Reserved, Exclusive} /\ \A l \in held[c] : l <= level[c]
       /\ journal[c] \in BOOLEAN /\ leaked[c] \in BOOLEAN
       /\ cache[c] \in (SUBSET Update) \union {NoPage}
       /\ before[c] \in (SUBSET Update) \union {NoPage}

(* Two transactions are open at a time, reading or writing, only in 32-bit  *)
(* processes, and only if one was begun EXCLUSIVE and the other was not.    *)
OneAtATime ==
  \A c, d \in Open : c # d => ~wide /\ (Reserved \in held[c] <=> Reserved \notin held[d])

(* An update whose COMMIT was answered stays in the file, as long as nobody *)
(* writes to a page that it cached before another connection's commit, or   *)
(* kept from a rollback that was denied.                                    *)
KeepsAcknowledged == told \subseteq file \/ stale

(* What problems.md:22 reports as a hang: in a 64-bit process BEGIN waits   *)
(* for the SHARED lock that the same BEGIN took, and COMMIT for its own     *)
(* transaction's lock, unless that is EXCLUSIVE; in a 32-bit one neither.   *)
HangsOnItself ==
  \A c \in Connections :
    todo[c] = "commit" \/ (todo[c] = "reserve" /\ c \notin asked)
      => (Clash(c, c, Wanted[todo[c]]) <=> wide)

(* problems.md:297 says that this blocks no SQL: but no change that was     *)
(* made by statements alone ever gets into the header page of a file, since *)
(* BEGIN hangs or its SHARED lock denies the COMMIT the byte it lies on.    *)
StatementsNeverCommit == \A u \in told \union file : u[1] \in asked

(* Whoever waits for a lock has it in the end, except in 64-bit processes,  *)
(* when somebody waits for himself or has kept SHARED of a refused BEGIN:   *)
(* connections never wait for each other in a circle.                       *)
InTheWay(d) ==
  wide /\ ((todo[d] # "none" /\ Clash(d, d, Wanted[todo[d]])) \/ (Idle(d) /\ Shared \in held[d]))
WaitEnds ==
  \A c \in Connections : todo[c] # "none" ~> (todo[c] = "none" \/ \E d \in Connections : InTheWay(d))
=============================================================================
