----------------------------- MODULE LocksProofs -----------------------------
(* Proofs about module Locks, for any finite set of connections and any     *)
(* number of updates.                                                       *)
EXTENDS Locks, FiniteSetTheorems, TLAPS

(* The inductive invariant.                                                 *)

Pages == (SUBSET Update) \union {NoPage}
LevelSet == {0, 1, 2, 4}
Calls == {"none", "share", "reserve", "immediate", "exclusive", "commit"}

Types ==
  /\ wide \in BOOLEAN /\ stale \in BOOLEAN /\ asked \subseteq Connections
  /\ file \subseteq Update /\ told \subseteq Update
  /\ state \in [Connections -> {"none", "read", "write", "failed"}]
  /\ level \in [Connections -> LevelSet]
  /\ held \in [Connections -> SUBSET {1, 2, 4}]
  /\ todo \in [Connections -> Calls]
  /\ journal \in [Connections -> BOOLEAN]
  /\ leaked \in [Connections -> BOOLEAN]
  /\ cache \in [Connections -> Pages]
  /\ before \in [Connections -> Pages]

(* In a transaction, the journal open, a connection has the lock of its     *)
(* level; outside it has SHARED at most.                                    *)
HoldsLevel(c) ==
  /\ state[c] \in {"none", "failed"} => held[c] \subseteq {1} /\ level[c] \in {0, 1}
  /\ state[c] \in {"read", "write"} =>
       /\ journal[c]
       /\ \/ level[c] = 2 /\ 2 \in held[c] /\ 4 \notin held[c]
          \/ level[c] = 4 /\ 4 \in held[c] /\ 2 \notin held[c]
  /\ 1 \in held[c] => level[c] # 0

(* A call of lock fits what the connection is doing.                        *)
CallFits(c) ==
  /\ todo[c] \in {"share", "reserve", "immediate", "exclusive"} => state[c] = "none"
  /\ todo[c] = "share" => level[c] = 0
  /\ todo[c] = "reserve" => level[c] = 1
  /\ todo[c] = "commit" => state[c] = "write" /\ level[c] = 2

(* Somebody who has always begun DEFERRED has SHARED as soon as lock_state  *)
(* says so, and gets no further in a 64-bit process.                        *)
KeepsShared(c) ==
  c \notin asked =>
    /\ level[c] # 0 => 1 \in held[c]
    /\ wide => state[c] = "none"
    /\ todo[c] \notin {"immediate", "exclusive"}

(* There is a before-image in a writing transaction only, and then a page.  *)
HasImage(c) == before[c] # NoPage => state[c] = "write" /\ cache[c] # NoPage

(* Who made the updates of the pages that a connection has.                 *)
KnowsAuthors(c) ==
  /\ cache[c] # NoPage => \A u \in cache[c] : u[1] \in asked \union {c}
  /\ before[c] # NoPage => \A u \in before[c] : u[1] \in asked

Local(c) == HoldsLevel(c) /\ CallFits(c) /\ KeepsShared(c) /\ HasImage(c) /\ KnowsAuthors(c)

(* Two locks of one byte are both SHARED, or one and the same.              *)
ExclusiveInv ==
  \A c, d \in Connections : \A l \in held[c], m \in held[d] :
    ByteOf(l) = ByteOf(m) => (l = 1 /\ m = 1) \/ (c = d /\ l = m)

(* Whatever was acknowledged is in the file, and in both pages of everybody *)
(* who is about to write one of them over the file.                         *)
KeepsInv ==
  ~stale =>
    /\ told \subseteq file
    /\ \A c \in Connections : before[c] # NoPage => told \subseteq before[c] /\ told \subseteq cache[c]

IInv == Types /\ (\A c \in Connections : Local(c)) /\ ExclusiveInv /\ StatementsNeverCommit /\ KeepsInv

-----------------------------------------------------------------------------
(* Facts about the operators.                                               *)

LEMMA LevelNumbers == None = 0 /\ Shared = 1 /\ Reserved = 2 /\ Exclusive = 4
BY DEF None, Shared, Reserved, Exclusive

LEMMA WantedLevels ==
  /\ Wanted["share"] = 1 /\ Wanted["reserve"] = 2 /\ Wanted["immediate"] = 2
  /\ Wanted["exclusive"] = 4 /\ Wanted["commit"] = 4
  /\ DOMAIN Wanted = {"share", "reserve", "immediate", "exclusive", "commit"}
BY LevelNumbers DEF Wanted

LEMMA PagesDiffer == NoPage \notin SUBSET Update /\ NoPage \in Pages /\ SUBSET Update \subseteq Pages
<1>1. \A u \in Update : u[2] # 0
  BY LocksAssumption DEF Update
<1>2. <<"no page", 0>>[2] = 0
  OBVIOUS
<1> QED
  BY <1>1, <1>2 DEF NoPage, Pages

(* What is read and what is put back are pages of updates.                  *)
LEMMA PageTypes ==
  ASSUME Types, NEW c \in Connections
  PROVE  /\ Page(c) \in SUBSET Update /\ Restored(c) \in SUBSET Update /\ Dropped(c) \in Pages
         /\ cache[c] # NoPage => cache[c] \in SUBSET Update
         /\ before[c] # NoPage => before[c] \in SUBSET Update
BY PagesDiffer DEF Types, Pages, Page, Restored, Dropped

(* The next update is one, as long as the bound on them allows it.          *)
LEMMA NextIsUpdate ==
  ASSUME Types, NEW c \in Connections, Cardinality(Known(c)) < MaxUpdates
  PROVE  <<c, NextUpdate(c)>> \in Update
<1> DEFINE S == {u \in Known(c) : u[1] = c}
<1>1. IsFiniteSet(Update)
  <2>1. IsFiniteSet(1..MaxUpdates)
    BY LocksAssumption, FS_Interval
  <2> QED
    BY <2>1, LocksAssumption, FS_Product DEF Update
<1>2. Known(c) \subseteq Update
  BY PageTypes DEF Types, Known
<1>3. IsFiniteSet(Known(c)) /\ Cardinality(Known(c)) \in Nat
  BY <1>1, <1>2, FS_Subset, FS_CardinalityType
<1>4. S \subseteq Known(c)
  OBVIOUS
<1>5. Cardinality(S) \in Nat /\ Cardinality(S) <= Cardinality(Known(c))
  BY <1>3, <1>4, FS_Subset, FS_CardinalityType
<1>6. NextUpdate(c) = Cardinality(S) + 1
  BY DEF NextUpdate
<1> HIDE DEF S
<1>7. NextUpdate(c) \in 1..MaxUpdates
  BY <1>3, <1>5, <1>6, LocksAssumption
<1> QED
  BY <1>7 DEF Update

(* In a 64-bit process all levels lock one byte, in a 32-bit one no two.    *)
LEMMA Bytes ==
  /\ wide => \A l, m \in {1, 2, 4} : ByteOf(l) = ByteOf(m)
  /\ ~wide => \A l, m \in {1, 2, 4} : ByteOf(l) = ByteOf(m) => l = m
BY DEF ByteOf

(* unlock leaves of a transaction's locks no other than SHARED, which goes  *)
(* if it goes down to NONE; in a 32-bit process it stays otherwise.         *)
LEMMA Unlocked ==
  ASSUME Types, NEW c \in Connections, HoldsLevel(c), NEW to \in {0, 1}
  PROVE  /\ Kept(c, level[c], to) \subseteq held[c] \cap {1}
         /\ to = 0 => Kept(c, level[c], to) = {}
         /\ to = 1 /\ (~wide \/ level[c] \in {0, 1}) => Kept(c, level[c], to) = held[c] \cap {1}
<1>1. level[c] \in LevelSet /\ held[c] \subseteq {1, 2, 4} /\ state[c] \in {"none", "read", "write", "failed"}
  BY DEF Types
<1>2. \A l \in held[c] : l <= level[c]
  BY <1>1 DEF HoldsLevel, LevelSet
<1>3. \A l \in held[c] : to < l => l \notin Kept(c, level[c], to)
  BY <1>1, <1>2, LevelNumbers DEF Kept
<1>4. to = 1 /\ (~wide \/ level[c] \in {0, 1}) => \A l \in held[c] : l = 1 => l \in Kept(c, level[c], to)
  BY <1>1, Bytes, LevelNumbers DEF Kept
<1> QED
  BY <1>1, <1>3, <1>4 DEF Kept

-----------------------------------------------------------------------------
(* The steps, as the proofs tell them apart: those of a connection's locks  *)
(* and state, in which nothing is written, and those of its pages.          *)

(* A step of c leaves the others' state alone.                              *)
OfOne(c) ==
  /\ wide' = wide /\ asked \subseteq asked'
  /\ \A d \in Connections \ {c} :
       /\ state'[d] = state[d] /\ level'[d] = level[d] /\ held'[d] = held[d]
       /\ todo'[d] = todo[d] /\ journal'[d] = journal[d]
       /\ cache'[d] = cache[d] /\ before'[d] = before[d]
       /\ d \in asked' <=> d \in asked

(* What the end of a transaction does to its connection.                    *)
Finishes(c) ==
  /\ c \in Open
  /\ todo[c] \in {"none", "commit"}
  /\ \E s \in {"none", "failed"}, to \in {0, 1} : Finish(c, s, to)

EndsOf(c) ==
  \/ CommitRead(c) \/ Rollback(c)
  \/ state[c] = "write" /\ todo[c] \in {"none", "commit"} /\ Commits(c)

CommitWaits(c) ==
  /\ Ready(c) /\ state[c] = "write" /\ level[c] # 4
  /\ Call(c, "commit")
  /\ UNCHANGED <<state, level, held, journal, calls, data>>

Begins(c) == BeginDeferred(c) \/ \E mode \in {"immediate", "exclusive"} : BeginLocked(c, mode)
Locks(c) == SharedLocked(c) \/ Refused(c) \/ Started(c)

LEMMA Steps ==
  ASSUME IInv, [Next]_vars
  PROVE  \/ UNCHANGED vars
         \/ \E c \in Connections :
              \/ Begins(c) \/ Locks(c) \/ BeginWrite(c) \/ CommitWaits(c)
              \/ Read(c) \/ Write(c) \/ EndsOf(c) \/ EndAgain(c) \/ Reopen(c)
<1>1. SUFFICES ASSUME NEW c \in Connections, Commit(c) \/ CommitGoesOn(c)
               PROVE  CommitWaits(c) \/ EndsOf(c)
  BY DEF Next, Ends, Proceeds, Begins, Locks, EndsOf
<1>2. CASE Commit(c)
  BY <1>2, LevelNumbers DEF Commit, CommitWaits, EndsOf, Ready
<1>3. CASE CommitGoesOn(c)
  BY <1>3 DEF CommitGoesOn, EndsOf, IInv, Local, CallFits
<1> QED
  BY <1>1, <1>2, <1>3

LEMMA EndsFinish ==
  ASSUME IInv, NEW c \in Connections, EndsOf(c)
  PROVE  Finishes(c)
<1>1. CASE CommitRead(c)
  BY <1>1, LevelNumbers DEF CommitRead, Ready, Finishes
<1>2. CASE Rollback(c)
  BY <1>2, LevelNumbers DEF Rollback, Ready, Finishes
<1>3. CASE state[c] = "write" /\ todo[c] \in {"none", "commit"} /\ Commits(c)
  BY <1>3, LevelNumbers DEF Commits, Committed, CommitUndone, CommitDenied, CommitUnstamped, Finishes, Open
<1> QED
  BY <1>1, <1>2, <1>3 DEF EndsOf

(* What that leaves of the connection's locks and calls.                    *)
LEMMA Finished ==
  ASSUME IInv, NEW c \in Connections, Finishes(c)
  PROVE  /\ state' \in [Connections -> {"none", "read", "write", "failed"}]
         /\ level' \in [Connections -> LevelSet]
         /\ held' \in [Connections -> SUBSET {1, 2, 4}]
         /\ todo' \in [Connections -> Calls]
         /\ journal' \in [Connections -> BOOLEAN]
         /\ before' \in [Connections -> Pages]
         /\ wide' = wide /\ asked' = asked /\ stale' = stale
         /\ state'[c] \in {"none", "failed"} /\ level'[c] \in {0, 1} /\ held'[c] \subseteq held[c] \cap {1}
         /\ todo'[c] = "none" /\ before'[c] = NoPage
         /\ level'[c] = 0 => held'[c] = {}
         /\ level'[c] = 1 /\ ~wide => held'[c] = held[c] \cap {1}
         /\ \A d \in Connections \ {c} :
              /\ state'[d] = state[d] /\ level'[d] = level[d] /\ held'[d] = held[d]
              /\ todo'[d] = todo[d] /\ journal'[d] = journal[d] /\ before'[d] = before[d]
<1>1. PICK s \in {"none", "failed"}, to \in {0, 1} : Finish(c, s, to)
  BY DEF Finishes
<1>2. /\ Kept(c, level[c], to) \subseteq held[c] \cap {1}
      /\ to = 0 => Kept(c, level[c], to) = {}
      /\ to = 1 /\ ~wide => Kept(c, level[c], to) = held[c] \cap {1}
  BY Unlocked DEF IInv, Local
<1>3. held' = [held EXCEPT ![c] = Kept(c, level[c], to)] /\ level' = [level EXCEPT ![c] = to]
  BY <1>1 DEF Finish, Unlock
<1>4. /\ state' = [state EXCEPT ![c] = s] /\ journal' = [journal EXCEPT ![c] = FALSE]
      /\ before' = [before EXCEPT ![c] = NoPage] /\ todo' = [todo EXCEPT ![c] = "none"]
      /\ wide' = wide /\ asked' = asked /\ stale' = stale
  BY <1>1 DEF Finish, Call, calls
<1> QED
  BY <1>2, <1>3, <1>4, PagesDiffer DEF IInv, Types, LevelSet, Calls

-----------------------------------------------------------------------------
(* Each part of the invariant, step by step.                                *)

LEMMA OneActs ==
  ASSUME IInv, NEW c \in Connections,
         \/ Begins(c) \/ Locks(c) \/ BeginWrite(c) \/ CommitWaits(c)
         \/ Read(c) \/ Write(c) \/ EndsOf(c) \/ EndAgain(c) \/ Reopen(c)
  PROVE  OfOne(c)
<1> USE DEF IInv, Types, OfOne
<1>1. CASE Begins(c)
  BY <1>1 DEF Begins, BeginDeferred, BeginLocked, Call, calls, data
<1>2. CASE Locks(c)
  BY <1>2 DEF Locks, SharedLocked, Refused, Started, Granted, Call, calls, data
<1>3. CASE BeginWrite(c) \/ CommitWaits(c)
  BY <1>3 DEF BeginWrite, CommitWaits, Call, calls, data
<1>4. CASE Read(c) \/ Write(c)
  BY <1>4 DEF Read, Write, calls
<1>5. CASE EndsOf(c)
  <2>1. \A d \in Connections \ {c} : cache'[d] = cache[d]
    BY <1>5 DEF EndsOf, CommitRead, Rollback, Commits, Committed, CommitUndone, CommitDenied, CommitUnstamped
  <2> QED
    BY <1>5, <2>1, EndsFinish, Finished
<1>6. CASE EndAgain(c) \/ Reopen(c)
  BY <1>6 DEF EndAgain, Reopen, Unlock, calls, data
<1> QED
  BY <1>1, <1>2, <1>3, <1>4, <1>5, <1>6

(* The lock that is granted.                                                *)
LEMMA GrantedLock ==
  ASSUME IInv, NEW c \in Connections, Granted(c), todo[c] # "none"
  PROVE  /\ Wanted[todo[c]] \in {1, 2, 4}
         /\ held' = [held EXCEPT ![c] = held[c] \union {Wanted[todo[c]]}]
         /\ level' = [level EXCEPT ![c] = Wanted[todo[c]]]
         /\ \A d \in Connections : \A m \in held[d] :
              ByteOf(m) = ByteOf(Wanted[todo[c]]) => Wanted[todo[c]] = 1 /\ (m = 1 \/ d = c)
<1>1. todo[c] \in DOMAIN Wanted
  BY WantedLevels DEF IInv, Types, Calls
<1>2. Wanted[todo[c]] \in {1, 2, 4}
  BY <1>1, WantedLevels
<1> QED
  BY <1>2, LevelNumbers DEF Granted, Free, Clash

LEMMA TypesStep == IInv /\ [Next]_vars => Types'
<1> SUFFICES ASSUME IInv, [Next]_vars PROVE Types'
  OBVIOUS
<1>1. ASSUME NEW c \in Connections, Begins(c) PROVE Types'
  <2>1. CASE BeginDeferred(c)
    <3>1. \E b \in BOOLEAN : journal' = [journal EXCEPT ![c] = b]
      BY <2>1 DEF BeginDeferred
    <3>2. \E t \in {"share", "reserve"} : todo' = [todo EXCEPT ![c] = t]
      BY <2>1 DEF BeginDeferred, Call
    <3> QED
      BY <2>1, <3>1, <3>2 DEF BeginDeferred, calls, data, IInv, Types, Calls
  <2>2. CASE \E mode \in {"immediate", "exclusive"} : BeginLocked(c, mode)
    BY <2>2 DEF BeginLocked, Call, data, IInv, Types, Calls
  <2> QED
    BY <1>1, <2>1, <2>2 DEF Begins
<1>2. ASSUME NEW c \in Connections, Locks(c) PROVE Types'
  <2>1. todo[c] # "none" /\ Granted(c)
    BY <1>2 DEF Locks, SharedLocked, Refused, Started
  <2>2. held' \in [Connections -> SUBSET {1, 2, 4}] /\ level' \in [Connections -> LevelSet]
    BY <2>1, GrantedLock DEF IInv, Types, LevelSet
  <2> QED
    BY <1>2, <2>2 DEF Locks, SharedLocked, Refused, Started, Call, calls, data, IInv, Types, Calls
<1>3. ASSUME NEW c \in Connections, BeginWrite(c) \/ CommitWaits(c) PROVE Types'
  BY <1>3 DEF BeginWrite, CommitWaits, Call, calls, data, IInv, Types, Calls
<1>4. ASSUME NEW c \in Connections, Read(c) PROVE Types'
  BY <1>4, PagesDiffer DEF Read, calls, IInv, Types
<1>5. ASSUME NEW c \in Connections, Write(c) PROVE Types'
  <2> DEFINE New == Page(c) \union {<<c, NextUpdate(c)>>}
  <2>1. New \in SUBSET Update
    BY <1>5, PageTypes, NextIsUpdate DEF Write, IInv
  <2> HIDE DEF New
  <2>2. cache' = [cache EXCEPT ![c] = New] /\ (file' = file \/ file' = New)
    BY <1>5 DEF Write, New, IInv, Types
  <2>3. file' \subseteq Update /\ cache' \in [Connections -> Pages] /\ before' \in [Connections -> Pages]
    BY <1>5, <2>1, <2>2, PagesDiffer DEF Write, IInv, Types
  <2>4. stale' \in BOOLEAN
    BY <1>5 DEF Write, IInv, Types
  <2> QED
    BY <1>5, <2>3, <2>4 DEF Write, calls, IInv, Types
<1>6. ASSUME NEW c \in Connections, EndsOf(c) PROVE Types'
  <2>1. Finishes(c)
    BY <1>6, EndsFinish
  <2>2. file' \subseteq Update
    BY <1>6, PageTypes DEF EndsOf, CommitRead, Rollback, Commits, Committed, CommitUndone, CommitDenied,
                           CommitUnstamped, IInv, Types, Local, HasImage
  <2>3. told' \subseteq Update
    BY <1>6, PageTypes DEF EndsOf, CommitRead, Rollback, Commits, Committed, CommitUndone, CommitDenied,
                           CommitUnstamped, IInv, Types, Local, HasImage
  <2>4. leaked' \in [Connections -> BOOLEAN]
    <3>1. Dirty(c) \in BOOLEAN
      BY DEF Dirty
    <3> QED
      BY <1>6, <3>1 DEF EndsOf, CommitRead, Rollback, Commits, Committed, CommitUndone, CommitDenied, CommitUnstamped, IInv, Types
  <2>5. cache' \in [Connections -> Pages]
    BY <1>6, PageTypes, PagesDiffer DEF EndsOf, CommitRead, Rollback, Commits, Committed, CommitUndone, CommitDenied,
                           CommitUnstamped, IInv, Types
  <2> QED
    BY <2>1, <2>2, <2>3, <2>4, <2>5, Finished DEF IInv, Types
<1>7. ASSUME NEW c \in Connections, EndAgain(c) PROVE Types'
  <2>1. Kept(c, level[c], 0) = {}
    BY Unlocked DEF IInv, Local
  <2> QED
    BY <1>7, <2>1, LevelNumbers DEF EndAgain, Unlock, calls, data, IInv, Types, LevelSet
<1>8. ASSUME NEW c \in Connections, Reopen(c) PROVE Types'
  BY <1>8, LevelNumbers, PagesDiffer DEF Reopen, calls, IInv, Types, LevelSet
<1>9. CASE UNCHANGED vars
  BY <1>9 DEF vars, IInv, Types
<1> QED
  BY <1>1, <1>2, <1>3, <1>4, <1>5, <1>6, <1>7, <1>8, <1>9, Steps

LEMMA LocalStep == IInv /\ [Next]_vars => \A c \in Connections : Local(c)'
<1> SUFFICES ASSUME IInv, [Next]_vars PROVE \A c \in Connections : Local(c)'
  OBVIOUS
<1>1. CASE UNCHANGED vars
  BY <1>1 DEF vars, IInv, Local, HoldsLevel, CallFits, KeepsShared, HasImage, KnowsAuthors
<1>2. ASSUME NEW c \in Connections,
             \/ Begins(c) \/ Locks(c) \/ BeginWrite(c) \/ CommitWaits(c)
             \/ Read(c) \/ Write(c) \/ EndsOf(c) \/ EndAgain(c) \/ Reopen(c)
      PROVE  \A d \in Connections : Local(d)'
  <2>1. ASSUME NEW d \in Connections \ {c} PROVE Local(d)'
    BY <1>2, <2>1, OneActs DEF OfOne, IInv, Local, HoldsLevel, CallFits, KeepsShared, HasImage, KnowsAuthors
  <2> SUFFICES Local(c)'
    BY <2>1
  <2>2. CASE Begins(c)
    <3>1. /\ state'[c] = state[c] /\ level'[c] = level[c] /\ held'[c] = held[c]
          /\ cache'[c] = cache[c] /\ before'[c] = before[c]
      BY <2>2 DEF Begins, BeginDeferred, BeginLocked, calls, data
    <3>2. state[c] = "none" /\ level[c] \in {0, 1}
      BY <2>2 DEF Begins, BeginDeferred, BeginLocked, Idle, IInv, Local, HoldsLevel
    <3>3. CASE BeginDeferred(c)
      <4>1. todo'[c] = IF level[c] = 0 THEN "share" ELSE "reserve"
        BY <3>3, LevelNumbers DEF BeginDeferred, Call, IInv, Types
      <4> QED
        BY <3>1, <3>2, <3>3, <4>1 DEF BeginDeferred, calls, IInv, Local, HoldsLevel, CallFits, KeepsShared, HasImage, KnowsAuthors
    <3>4. CASE \E mode \in {"immediate", "exclusive"} : BeginLocked(c, mode)
      <4>1. todo'[c] \in {"immediate", "exclusive"} /\ c \in asked' /\ wide' = wide
        BY <3>4 DEF BeginLocked, Call, IInv, Types
      <4> QED
        BY <3>1, <3>2, <4>1, OneActs, <1>2 DEF OfOne, IInv, Local, HoldsLevel, CallFits, KeepsShared, HasImage, KnowsAuthors
    <3> QED
      BY <2>2, <3>3, <3>4 DEF Begins
  <2>3. CASE Locks(c)
    <3>1. Granted(c) /\ todo[c] \in {"share", "reserve", "immediate", "exclusive"}
      BY <2>3 DEF Locks, SharedLocked, Refused, Started
    <3>2. /\ level'[c] = Wanted[todo[c]] /\ held'[c] = held[c] \union {Wanted[todo[c]]}
          /\ \A m \in held[c] : ByteOf(m) = ByteOf(Wanted[todo[c]]) => Wanted[todo[c]] = 1
      BY <3>1, GrantedLock DEF IInv, Types
    <3>3. state[c] = "none" /\ held[c] \subseteq {1} /\ level[c] \in {0, 1}
      BY <3>1 DEF IInv, Local, CallFits, HoldsLevel
    <3>4. cache'[c] = cache[c] /\ before'[c] = before[c] /\ wide' = wide /\ asked' = asked
      BY <2>3 DEF Locks, SharedLocked, Refused, Started, calls, data
    <3>5. HasImage(c)' /\ KnowsAuthors(c)'
      BY <3>3, <3>4 DEF IInv, Local, HasImage, KnowsAuthors
    <3>6. CASE SharedLocked(c) \/ Refused(c)
      <4>1. todo[c] = "share" /\ state'[c] = "none" /\ todo'[c] \in {"reserve", "none"}
        BY <3>3, <3>6 DEF SharedLocked, Refused, Call, IInv, Types
      <4>2. level'[c] = 1 /\ held'[c] = {1}
        BY <3>2, <3>3, <4>1, WantedLevels
      <4> QED
        BY <3>4, <3>5, <4>1, <4>2 DEF Local, HoldsLevel, CallFits, KeepsShared
    <3>7. CASE Started(c)
      <4>1. todo[c] # "share" /\ state'[c] = "read" /\ todo'[c] = "none" /\ journal'[c] = TRUE
        BY <3>7 DEF Started, Call, IInv, Types
      <4>2. /\ level'[c] \in {2, 4} /\ level'[c] = Wanted[todo[c]]
            /\ todo[c] = "reserve" => level'[c] = 2
        BY <3>1, <3>2, <4>1, WantedLevels
      <4>3. HoldsLevel(c)' /\ CallFits(c)'
        BY <3>2, <3>3, <4>1, <4>2 DEF HoldsLevel, CallFits
      <4>4. KeepsShared(c)'
        <5> SUFFICES ASSUME c \notin asked PROVE 1 \in held'[c] /\ ~wide
          BY <3>4, <4>1 DEF KeepsShared
        <5>1. todo[c] = "reserve" /\ level[c] = 1 /\ 1 \in held[c]
          BY <3>1, <4>1 DEF IInv, Local, KeepsShared, CallFits
        <5>2. ~wide
          BY <3>2, <4>2, <5>1, Bytes
        <5> QED
          BY <3>2, <5>1, <5>2
      <4> QED
        BY <3>5, <4>3, <4>4 DEF Local
    <3> QED
      BY <2>3, <3>6, <3>7 DEF Locks
  <2>4. CASE BeginWrite(c) \/ CommitWaits(c)
    <3>1. /\ level'[c] = level[c] /\ held'[c] = held[c] /\ journal'[c] = journal[c]
          /\ cache'[c] = cache[c] /\ before'[c] = before[c] /\ wide' = wide /\ asked' = asked
      BY <2>4 DEF BeginWrite, CommitWaits, calls, data
    <3>2. state[c] \in {"read", "write"} /\ state'[c] = "write"
      BY <2>4 DEF BeginWrite, CommitWaits, Ready, Open, IInv, Types
    <3>3. level[c] \in {2, 4} /\ (todo'[c] = "none" \/ (todo'[c] = "commit" /\ level[c] = 2))
      BY <2>4, <3>2 DEF BeginWrite, CommitWaits, Ready, Call, IInv, Types, Local, HoldsLevel
    <3> QED
      BY <3>1, <3>2, <3>3 DEF IInv, Local, HoldsLevel, CallFits, KeepsShared, HasImage, KnowsAuthors
  <2>5. CASE Read(c)
    <3>1. \A u \in file : u[1] \in asked
      BY DEF IInv, StatementsNeverCommit
    <3>2. cache'[c] = file /\ cache[c] = NoPage
      BY <2>5 DEF Read, IInv, Types
    <3> QED
      BY <2>5, <3>1, <3>2 DEF Read, calls, IInv, Local, HoldsLevel, CallFits, KeepsShared, HasImage, KnowsAuthors
  <2>6. CASE Write(c)
    <3> DEFINE New == Page(c) \union {<<c, NextUpdate(c)>>}
    <3>1. New # NoPage /\ file # NoPage
      BY <2>6, PageTypes, NextIsUpdate, PagesDiffer DEF Write, IInv, Types
    <3>2. \A u \in file : u[1] \in asked
      BY DEF IInv, StatementsNeverCommit
    <3>3. \A u \in New : u[1] \in asked \union {c}
      BY <3>2 DEF Page, IInv, Local, KnowsAuthors
    <3> HIDE DEF New
    <3>4. cache'[c] = New /\ before'[c] = IF before[c] = NoPage THEN file ELSE before[c]
      BY <2>6 DEF Write, New, IInv, Types
    <3>5. state'[c] = "write" /\ asked' = asked
      BY <2>6 DEF Write, calls
    <3>6. before[c] # NoPage => \A u \in before[c] : u[1] \in asked
      BY DEF IInv, Local, KnowsAuthors
    <3>7. HasImage(c)' /\ KnowsAuthors(c)'
      BY <3>1, <3>2, <3>3, <3>4, <3>5, <3>6 DEF HasImage, KnowsAuthors
    <3> QED
      BY <2>6, <3>7 DEF Write, calls, IInv, Local, HoldsLevel, CallFits, KeepsShared
  <2>7. CASE EndsOf(c)
    <3>1. Finishes(c)
      BY <2>7, EndsFinish
    <3>2. \/ cache'[c] = cache[c] \/ cache'[c] = NoPage
          \/ before[c] = NoPage /\ cache'[c] = Page(c)
      BY <2>7 DEF EndsOf, CommitRead, Rollback, Commits, Committed, CommitUndone, CommitDenied, CommitUnstamped,
                  Dropped, IInv, Types
    <3>3. KnowsAuthors(c)'
      BY <3>1, <3>2, Finished DEF Page, IInv, StatementsNeverCommit, Local, KnowsAuthors
    <3>4. KeepsShared(c)'
      <4>1. c \notin asked => ~wide /\ 1 \in held[c]
        BY <3>1 DEF Finishes, Open, IInv, Local, KeepsShared, HoldsLevel
      <4> QED
        BY <3>1, <4>1, Finished DEF KeepsShared
    <3> QED
      BY <3>1, <3>3, <3>4, Finished DEF Local, HoldsLevel, CallFits, HasImage
  <2>8. CASE EndAgain(c)
    <3>1. /\ Kept(c, level[c], 0) = {} /\ state[c] = "failed"
      BY <2>8, Unlocked DEF EndAgain, IInv, Local
    <3>2. level'[c] = 0 /\ held'[c] = {} /\ state'[c] = "none" /\ todo'[c] = todo[c] /\ todo[c] = "none"
      BY <2>8, <3>1, LevelNumbers DEF EndAgain, Unlock, IInv, Types
    <3> QED
      BY <2>8, <3>1, <3>2 DEF EndAgain, calls, data, IInv, Local, HoldsLevel, CallFits, KeepsShared, HasImage, KnowsAuthors
  <2>9. CASE Reopen(c)
    <3>1. level'[c] = 0 /\ held'[c] = {} /\ state'[c] = "none" /\ todo'[c] = "none" /\ cache'[c] = NoPage
      BY <2>9, LevelNumbers DEF Reopen, Idle, IInv, Types
    <3>2. before[c] = NoPage
      BY <2>9 DEF Reopen, Idle, IInv, Local, HasImage
    <3> QED
      BY <2>9, <3>1, <3>2 DEF Reopen, calls, Local, HoldsLevel, CallFits, KeepsShared, HasImage, KnowsAuthors
  <2> QED
    BY <1>2, <2>2, <2>3, <2>4, <2>5, <2>6, <2>7, <2>8, <2>9
<1> QED
  BY <1>1, <1>2, Steps

(* A lock is granted beside those that it does not clash with; all others   *)
(* steps only release locks.                                                *)
LEMMA ExclusiveStep == IInv /\ [Next]_vars => ExclusiveInv'
<1> SUFFICES ASSUME IInv, [Next]_vars PROVE ExclusiveInv'
  OBVIOUS
<1>1. ASSUME wide' = wide, \A d \in Connections : held'[d] \subseteq held[d]
      PROVE  ExclusiveInv'
  BY <1>1 DEF ByteOf, IInv, ExclusiveInv
<1>2. CASE UNCHANGED vars
  BY <1>1, <1>2 DEF vars
<1>3. ASSUME NEW c \in Connections, Locks(c) PROVE ExclusiveInv'
  <2> DEFINE l == Wanted[todo[c]]
  <2>1. Granted(c) /\ todo[c] \in {"share", "reserve", "immediate", "exclusive"} /\ wide' = wide
    BY <1>3 DEF Locks, SharedLocked, Refused, Started, calls
  <2>2. /\ l \in {1, 2, 4} /\ held' = [held EXCEPT ![c] = held[c] \union {l}]
        /\ \A d \in Connections : \A m \in held[d] : ByteOf(m) = ByteOf(l) => l = 1 /\ (m = 1 \/ d = c)
    BY <2>1, GrantedLock
  <2>3. held[c] \subseteq {1}
    BY <2>1 DEF IInv, Local, CallFits, HoldsLevel
  <2> HIDE DEF l
  <2>4. held'[c] = held[c] \union {l} /\ \A d \in Connections \ {c} : held'[d] = held[d]
    BY <2>2 DEF IInv, Types
  <2>5. \A k, m : ByteOf(k)' = ByteOf(k)
    BY <2>1 DEF ByteOf
  <2>6. ASSUME NEW d \in Connections, NEW e \in Connections, NEW k \in held'[d], NEW m \in held'[e],
               ByteOf(k) = ByteOf(m)
        PROVE  (k = 1 /\ m = 1) \/ (d = e /\ k = m)
    <3>1. CASE k \in held[d] /\ m \in held[e]
      BY <2>6, <3>1 DEF IInv, ExclusiveInv
    <3>2. CASE d = c /\ k = l /\ m \in held[e]
      BY <2>2, <2>3, <2>6, <3>2
    <3>3. CASE e = c /\ m = l /\ k \in held[d]
      BY <2>2, <2>3, <2>6, <3>3
    <3>4. CASE d = c /\ e = c /\ k = l /\ m = l
      BY <3>4
    <3> QED
      BY <2>4, <3>1, <3>2, <3>3, <3>4
  <2> QED
    BY <2>1, <2>6 DEF ExclusiveInv, ByteOf
<1>4. ASSUME NEW c \in Connections,
             Begins(c) \/ BeginWrite(c) \/ CommitWaits(c) \/ Read(c) \/ Write(c) \/ EndsOf(c) \/ EndAgain(c) \/ Reopen(c)
      PROVE  ExclusiveInv'
  <2>1. OfOne(c)
    BY <1>4, OneActs
  <2>2. CASE EndsOf(c)
    BY <1>1, <2>1, <2>2, EndsFinish, Finished DEF OfOne
  <2>3. CASE ~EndsOf(c)
    <3>1. held'[c] \subseteq held[c]
      BY <1>4, <2>3 DEF Begins, BeginDeferred, BeginLocked, BeginWrite, CommitWaits, Read, Write, EndAgain, Reopen,
                        Unlock, Kept, calls, data, IInv, Types
    <3> QED
      BY <1>1, <2>1, <3>1 DEF OfOne
  <2> QED
    BY <2>2, <2>3
<1> QED
  BY <1>2, <1>3, <1>4, Steps

(* To write page 1 a connection must not have SHARED, which one that always *)
(* begins DEFERRED has.                                                     *)
LEMMA StatementsStep == IInv /\ [Next]_vars => StatementsNeverCommit'
<1> SUFFICES ASSUME IInv, [Next]_vars PROVE StatementsNeverCommit'
  OBVIOUS
<1>1. \A u \in told \union file : u[1] \in asked
  BY DEF IInv, StatementsNeverCommit
<1>2. CASE UNCHANGED vars
  BY <1>2 DEF vars, IInv, StatementsNeverCommit
<1>3. ASSUME NEW c \in Connections,
             Begins(c) \/ Locks(c) \/ BeginWrite(c) \/ CommitWaits(c) \/ Read(c) \/ EndAgain(c) \/ Reopen(c)
      PROVE  StatementsNeverCommit'
  <2>1. file' = file /\ told' = told
    BY <1>3 DEF Begins, BeginDeferred, BeginLocked, Locks, SharedLocked, Refused, Started, BeginWrite,
                CommitWaits, Read, EndAgain, Reopen, data
  <2> QED
    BY <1>1, <1>3, <2>1, OneActs DEF OfOne, StatementsNeverCommit
<1>4. ASSUME NEW c \in Connections, c \in Open, Writable(c) PROVE c \in asked
  BY <1>4, LevelNumbers DEF Writable, Open, IInv, Local, HoldsLevel, KeepsShared
<1>5. ASSUME NEW c \in Connections, Write(c) PROVE StatementsNeverCommit'
  <2>1. told' = told /\ asked' = asked
    BY <1>5 DEF Write, calls
  <2>2. CASE file' = file
    BY <1>1, <2>1, <2>2 DEF StatementsNeverCommit
  <2>3. CASE Writable(c) /\ file' = Page(c) \union {<<c, NextUpdate(c)>>}
    <3>1. c \in asked
      BY <1>4, <1>5, <2>3 DEF Write, Ready
    <3>2. \A u \in Page(c) : u[1] \in asked
      BY <1>1, <3>1 DEF Page, IInv, Local, KnowsAuthors
    <3> QED
      BY <1>1, <2>1, <2>3, <3>1, <3>2 DEF StatementsNeverCommit
  <2> QED
    BY <1>5, <2>2, <2>3 DEF Write, IInv, Types
<1>6. ASSUME NEW c \in Connections, EndsOf(c) PROVE StatementsNeverCommit'
  <2>1. Finishes(c) /\ asked' = asked
    BY <1>6, EndsFinish, Finished
  <2>2. CASE Committed(c)
    <3>1. c \in asked
      BY <1>4, <2>1, <2>2 DEF Committed, Finishes
    <3>2. \A u \in cache[c] : u[1] \in asked
      BY <2>2, <3>1 DEF Committed, IInv, Local, KnowsAuthors, HasImage
    <3> QED
      BY <1>1, <2>1, <2>2, <3>2 DEF Committed, StatementsNeverCommit
  <2>3. CASE ~Committed(c)
    <3>1. told' = told /\ (file' = file \/ (before[c] # NoPage /\ file' = before[c]))
      BY <1>6, <2>3 DEF EndsOf, CommitRead, Rollback, Commits, CommitUndone, CommitDenied, CommitUnstamped, Restored
    <3> QED
      BY <1>1, <2>1, <3>1 DEF StatementsNeverCommit, IInv, Local, KnowsAuthors
  <2> QED
    BY <2>2, <2>3
<1> QED
  BY <1>2, <1>3, <1>5, <1>6, Steps

LEMMA KeepsStep == IInv /\ [Next]_vars => KeepsInv'
<1> SUFFICES ASSUME IInv, [Next]_vars PROVE KeepsInv'
  OBVIOUS
<1>1. CASE UNCHANGED vars
  BY <1>1 DEF vars, IInv, KeepsInv
<1>2. ASSUME NEW c \in Connections,
             Begins(c) \/ Locks(c) \/ BeginWrite(c) \/ CommitWaits(c) \/ EndAgain(c)
      PROVE  KeepsInv'
  BY <1>2 DEF Begins, BeginDeferred, BeginLocked, Locks, SharedLocked, Refused, Started, BeginWrite,
              CommitWaits, EndAgain, data, IInv, KeepsInv
<1>3. ASSUME NEW c \in Connections, Read(c) PROVE KeepsInv'
  BY <1>3 DEF Read, Types, IInv, KeepsInv
<1>4. ASSUME NEW c \in Connections, Reopen(c) PROVE KeepsInv'
  BY <1>4 DEF Reopen, Idle, Types, Local, HasImage, IInv, KeepsInv
<1>5. ASSUME NEW c \in Connections, Write(c) PROVE KeepsInv'
  <2> SUFFICES ASSUME ~stale' PROVE told' \subseteq file' /\ \A d \in Connections :
                 before'[d] # NoPage => told' \subseteq before'[d] /\ told' \subseteq cache'[d]
    BY DEF KeepsInv
  <2>1. /\ told' = told /\ ~stale /\ told \subseteq file
        /\ before[c] # NoPage => told \subseteq before[c] /\ told \subseteq cache[c] /\ cache[c] # NoPage
        /\ before[c] = NoPage => Page(c) = file
    BY <1>5 DEF Write, IInv, KeepsInv, Local, HasImage
  <2>2. told \subseteq Page(c)
    BY <2>1 DEF Page
  <2>3. told \subseteq cache'[c] /\ told \subseteq before'[c] /\ (file' = file \/ file' = cache'[c])
    BY <1>5, <2>1, <2>2 DEF Write, IInv, Types
  <2>4. \A d \in Connections \ {c} : cache'[d] = cache[d] /\ before'[d] = before[d]
    BY <1>5, OneActs DEF OfOne
  <2> QED
    BY <2>1, <2>3, <2>4 DEF IInv, KeepsInv
<1>6. ASSUME NEW c \in Connections, EndsOf(c) PROVE KeepsInv'
  <2>1. Finishes(c)
    BY <1>6, EndsFinish
  <2>2. before'[c] = NoPage /\ stale' = stale
    BY <2>1, Finished
  <2>3. \A d \in Connections \ {c} : cache'[d] = cache[d] /\ before'[d] = before[d]
    BY <1>6, OneActs DEF OfOne
  <2>4. CASE Committed(c)
    <3>1. told' \subseteq file' \/ stale
      BY <2>4 DEF Committed, IInv, KeepsInv
    <3>2. \A d \in Connections \ {c} : before[d] = NoPage
      BY <2>4 DEF Committed, Deletable, Others, IInv, Types, Local, HasImage, HoldsLevel
    <3> QED
      BY <2>2, <2>3, <3>1, <3>2 DEF KeepsInv
  <2>5. CASE ~Committed(c)
    <3>1. told' = told /\ (file' = file \/ (before[c] # NoPage /\ file' = before[c]))
      BY <1>6, <2>5 DEF EndsOf, CommitRead, Rollback, Commits, CommitUndone, CommitDenied, CommitUnstamped, Restored
    <3> QED
      BY <2>2, <2>3, <3>1 DEF IInv, KeepsInv
  <2> QED
    BY <2>4, <2>5
<1> QED
  BY <1>1, <1>2, <1>3, <1>4, <1>5, <1>6, Steps

LEMMA InvInit == Init => IInv
<1> SUFFICES ASSUME Init PROVE IInv
  OBVIOUS
<1>1. Types
  BY LevelNumbers, PagesDiffer DEF Init, Types, LevelSet, Calls
<1>2. \A c \in Connections : Local(c)
  BY LevelNumbers DEF Init, Local, HoldsLevel, CallFits, KeepsShared, HasImage, KnowsAuthors
<1>3. ExclusiveInv /\ StatementsNeverCommit /\ KeepsInv
  BY DEF Init, ExclusiveInv, StatementsNeverCommit, KeepsInv
<1> QED
  BY <1>1, <1>2, <1>3 DEF IInv

LEMMA Invariance == Spec => []IInv
<1>1. IInv /\ [Next]_vars => IInv'
  BY TypesStep, LocalStep, ExclusiveStep, StatementsStep, KeepsStep DEF IInv
<1> QED
  BY <1>1, InvInit, PTL DEF Spec

-----------------------------------------------------------------------------
(* Every variable keeps its type, and no connection has a lock above the    *)
(* level that FileHandle.lock_state says: unlock never leaves one behind.   *)
THEOREM TypeCorrect == Spec => []TypeOK
<1>1. IInv => TypeOK
  <2> SUFFICES ASSUME IInv PROVE TypeOK
    OBVIOUS
  <2>1. \A c \in Connections : \A l \in held[c] : l <= level[c]
    <3> SUFFICES ASSUME NEW c \in Connections, NEW l \in held[c] PROVE l <= level[c]
      OBVIOUS
    <3>1. l \in {1, 2, 4} /\ level[c] \in LevelSet /\ state[c] \in {"none", "read", "write", "failed"}
      BY DEF IInv, Types
    <3> QED
      BY <3>1 DEF IInv, Local, HoldsLevel, LevelSet
  <2> QED
    BY <2>1, LevelNumbers, WantedLevels DEF IInv, Types, TypeOK, Pages, LevelSet, Calls
<1> QED
  BY <1>1, Invariance, PTL

(* Two transactions are open at a time in 32-bit processes only, and one of *)
(* them was begun EXCLUSIVE, the other not; so there are never three.       *)
THEOREM Exclusion == Spec => []OneAtATime
<1>1. IInv => OneAtATime
  <2> SUFFICES ASSUME IInv, NEW c \in Open, NEW d \in Open, c # d
               PROVE  ~wide /\ (2 \in held[c] <=> 2 \notin held[d])
    BY LevelNumbers DEF OneAtATime
  <2>1. \A e \in {c, d} : e \in Connections /\ ((2 \in held[e] /\ 4 \notin held[e]) \/ (4 \in held[e] /\ 2 \notin held[e]))
    BY DEF Open, IInv, Local, HoldsLevel
  <2>2. ~wide
    BY <2>1, Bytes DEF IInv, ExclusiveInv
  <2> QED
    BY <2>1, <2>2 DEF IInv, ExclusiveInv
<1> QED
  BY <1>1, Invariance, PTL

(* An update whose COMMIT was answered is in the file as long as nobody has *)
(* written to a cached page that was not the file's.                        *)
THEOREM Acknowledged == Spec => []KeepsAcknowledged
<1>1. IInv => KeepsAcknowledged
  BY DEF IInv, KeepsInv, KeepsAcknowledged
<1> QED
  BY <1>1, Invariance, PTL

(* A lock call waits for its own connection's lock always or never: always  *)
(* in a 64-bit process, at BEGIN and at COMMIT, and never in a 32-bit one.  *)
THEOREM Hangs == Spec => []HangsOnItself
<1>1. IInv => HangsOnItself
  <2> SUFFICES ASSUME IInv, NEW c \in Connections,
                      todo[c] = "commit" \/ (todo[c] = "reserve" /\ c \notin asked)
               PROVE  Clash(c, c, Wanted[todo[c]]) <=> wide
    BY DEF HangsOnItself
  <2>1. CASE todo[c] = "commit"
    <3>1. 2 \in held[c] /\ 4 \notin held[c] /\ held[c] \subseteq {1, 2, 4} /\ Wanted[todo[c]] = 4
      BY <2>1, WantedLevels DEF IInv, Types, Local, CallFits, HoldsLevel
    <3> QED
      BY <3>1, Bytes, LevelNumbers DEF Clash, IInv, Types
  <2>2. CASE todo[c] = "reserve" /\ c \notin asked
    <3>1. 1 \in held[c] /\ held[c] \subseteq {1} /\ Wanted[todo[c]] = 2
      BY <2>2, WantedLevels DEF IInv, Types, Local, CallFits, HoldsLevel, KeepsShared
    <3> QED
      BY <3>1, Bytes, LevelNumbers DEF Clash, IInv, Types
  <2> QED
    BY <2>1, <2>2
<1> QED
  BY <1>1, Invariance, PTL

(* Of a connection that has always begun DEFERRED, as statements do, no     *)
(* update of page 1 is ever in the file or acknowledged.                    *)
THEOREM NeverCommitted == Spec => []StatementsNeverCommit
BY Invariance, PTL DEF IInv
=============================================================================
