-------------------------------- MODULE Codec --------------------------------
(* How rows become bytes: variable-length integers (src/pysqlite/bitwise.py),*)
(* records (record.py), the cells of a page (cell.py) and the overflow pages *)
(* of a payload that is too long for its page (btree.py).  Bytes are digits  *)
(* to a base, 256 in the code; every boundary is expressed by the base, so   *)
(* that all nine lengths of an integer occur among the numbers TLC has.      *)
EXTENDS Integers, FiniteSets, Functions, SequencesExt

CONSTANTS Base,         \* the number of values of a byte
          PageSize,     \* bytes in a page
          Records,      \* the records to store: sequences of values, see below
          Rowids        \* keys to store them under

ASSUME BaseAssumption ==
  /\ Base \in Nat /\ Base > 16 /\ Base % 2 = 0
  /\ PageSize \in Nat /\ PageSize > 16

(* No number has more than eight bytes.                                     *)
Power[k \in 0..8] == IF k = 0 THEN 1 ELSE Base * Power[k - 1]

(* Big-endian, w bytes; of a negative number, its twos complement.          *)
Digits(n, w) == [i \in 1..w |-> (n \div Power[w - i]) % Base]

(* The number whose bytes are s, behind digits that stand for z.            *)
NumberAfter(z, s) ==
  LET upTo[i \in 0..Len(s)] == IF i = 0 THEN z ELSE upTo[i - 1] * Base + s[i]
  IN upTo[Len(s)]

Number(s) == NumberAfter(0, s)
Signed(s) == NumberAfter(IF s[1] < Base \div 2 THEN 0 ELSE -1, s)

(* n bytes from an offset on, which counts from 0.                          *)
Slice(s, offset, n) == SubSeq(s, offset + 1, offset + n)

-----------------------------------------------------------------------------
(* Variable-length integers                                                 *)

OneByte == Base - 16                            \* 240
TwoBytes == OneByte + 8 * Base - 1              \* 2287
ThreeBytes == TwoBytes + Base * Base            \* 67823

(* Slip: one too high.                                                      *)
LeadNext(total) == Base - 9 + total

Lead(total) == Base - 10 + total                \* 0xFA for 4 ... 0xFF for 9

EncodeVarint(n) ==
  IF n <= OneByte THEN <<n>>
  ELSE IF n <= TwoBytes THEN <<(n - OneByte) \div Base + OneByte + 1, (n - OneByte) % Base>>
  ELSE IF n <= ThreeBytes THEN <<Lead(4) - 1>> \o Digits(n - TwoBytes - 1, 2)
  ELSE LET total == Min({t \in 4..8 : n < Power[t - 1]} \union {9})
       IN <<Lead(total)>> \o Digits(n, total - 1)

(* [value, size] of the integer at an offset.                               *)
DecodeVarint(s, offset) ==
  LET a0 == s[offset + 1]
      a1 == s[offset + 2]
      total == a0 - (Base - 10)
  IN IF a0 <= OneByte THEN [value |-> a0, size |-> 1]
     ELSE IF a0 < Lead(4) - 1 THEN [value |-> (a0 - OneByte - 1) * Base + a1 + OneByte, size |-> 2]
     ELSE IF a0 = Lead(4) - 1 THEN [value |-> a1 * Base + s[offset + 3] + TwoBytes + 1, size |-> 3]
     ELSE [value |-> Number(Slice(s, offset + 1, total - 1)), size |-> total]

-----------------------------------------------------------------------------
(* Records.  A value is [kind, n]: an integer n, the real or the text or    *)
(* blob of n bytes that its bytes stand for, or NULL.                       *)

Width == <<1, 2, 3, 4, 6, 8, 8>>                \* of the serial types 1..7
Half(w) == Power[w] \div 2

(* Slip: the bound is taken to be included.                                 *)
FitsUpTo(n, w) == n \in -Half(w)..Half(w)

Fits(n, w) == n \in -Half(w)..Half(w) - 1

SerialType(v) ==
  CASE v.kind = "null" -> 0
    [] v.kind = "real" -> 7
    [] v.kind = "blob" -> 12 + 2 * v.n
    [] v.kind = "text" -> 13 + 2 * v.n
    [] v.kind = "int" -> IF v.n \in {0, 1} THEN 8 + v.n
                         ELSE Min({t \in 1..5 : Fits(v.n, Width[t])} \union {6})

(* The bytes of a text, a blob or a real are what they are.                 *)
Content(n) == [i \in 1..n |-> (n + i) % Base]

ToBytes(v, type) ==
  CASE type \in {0, 8, 9} -> << >>
    [] type \in 1..6 -> Digits(v.n, Width[type])
    [] type = 7 -> Digits(v.n, 8)
    [] type >= 12 -> Content(v.n)

SizeOf(type) ==
  CASE type \in 1..7 -> Width[type]
    [] type >= 12 -> (type - (12 + (type % 2))) \div 2
    [] OTHER -> 0

ToValue(type, s) ==
  CASE type = 0 -> [kind |-> "null", n |-> 0]
    [] type \in {8, 9} -> [kind |-> "int", n |-> type - 8]
    [] type \in 1..6 -> [kind |-> "int", n |-> Signed(s)]
    [] type = 7 -> [kind |-> "real", n |-> Number(s)]
    [] type >= 12 -> IF s = Content(Len(s))
                     THEN [kind |-> IF type % 2 = 0 THEN "blob" ELSE "text", n |-> Len(s)]
                     ELSE [kind |-> "other bytes", n |-> Len(s)]

(* The header: its own length, itself included, and the types.  What it     *)
(* includes of itself is one byte, however long its length is.              *)
Encode(record) ==
  LET types == [i \in DOMAIN record |-> SerialType(record[i])]
      header == FlattenSeq([i \in DOMAIN types |-> EncodeVarint(types[i])])
  IN EncodeVarint(Len(header) + 1) \o header
       \o FlattenSeq([i \in DOMAIN types |-> ToBytes(record[i], types[i])])

(* The loops of decode: over the header, and over the types it holds.       *)
Types(s, offset, end) ==
  LET loop[k \in 0..end - offset] ==
        IF k = 0 THEN [types |-> << >>, offset |-> offset]
        ELSE LET at == loop[k - 1]
                 d == DecodeVarint(s, at.offset)
             IN IF at.offset >= end THEN at
                ELSE [types |-> Append(at.types, d.value), offset |-> at.offset + d.size]
  IN loop[end - offset].types

ValuesOf(types, s, offset) ==
  LET loop[k \in 0..Len(types)] ==
        IF k = 0 THEN [values |-> << >>, offset |-> offset]
        ELSE LET at == loop[k - 1]
                 size == SizeOf(types[k])
             IN [values |-> Append(at.values, ToValue(types[k], Slice(s, at.offset, size))),
                 offset |-> at.offset + size]
  IN loop[Len(types)].values

Decode(s) ==
  LET h == DecodeVarint(s, 0)
      end == h.size + h.value - 1
  IN ValuesOf(Types(s, h.size, end), s, end)

-----------------------------------------------------------------------------
(* Cells and overflow pages                                                 *)

TableInteriorCell(child, key) == EncodeVarint(child) \o EncodeVarint(key)
ParseTableInterior(s) ==
  LET child == DecodeVarint(s, 0)
      key == DecodeVarint(s, child.size)
  IN [child |-> child.value, key |-> key.value]

IndexLeafCell(payload) == EncodeVarint(Len(payload)) \o payload

(* Slip: no length, as the payload follows anyway.                          *)
BareIndexCell(child, payload) == EncodeVarint(child) \o payload

IndexInteriorCell(child, payload) == EncodeVarint(child) \o IndexLeafCell(payload)
ParseIndexInterior(s) ==
  LET child == DecodeVarint(s, 0)
      length == DecodeVarint(s, child.size)
  IN [child |-> child.value, payload |-> Slice(s, child.size + length.size, length.value)]

MaxLocal == Max({((PageSize - 4) * 64) \div 100 - 4, ((PageSize - 4) * 32) \div 100 - 4})
Chunk == PageSize - 4

(* Slip: a chain whose pages are not linked.                                *)
WriteUnlinked(data, first) ==
  LET n == (Len(data) + Chunk - 1) \div Chunk
      piece(i) == SubSeq(data, (i - 1) * Chunk + 1, Min({i * Chunk, Len(data)}))
  IN [p \in first..first + n - 1 |->
        LET s == Digits(0, 4) \o piece(p - first + 1)
        IN s \o [j \in 1..PageSize - Len(s) |-> 0]]

(* The chain of pages for what is left of a payload, from page first on:    *)
(* each begins with the number of the next one, the last with 0.            *)
WriteOverflowChain(data, first) ==
  LET n == (Len(data) + Chunk - 1) \div Chunk
      piece(i) == SubSeq(data, (i - 1) * Chunk + 1, Min({i * Chunk, Len(data)}))
      blank(i) == [j \in 1..Chunk - Len(piece(i)) |-> 0]
  IN [p \in first..first + n - 1 |->
        LET i == p - first + 1
        IN Digits(IF i = n THEN 0 ELSE p + 1, 4) \o piece(i) \o blank(i)]

(* The loop over the chain.  A page that is not in the file ends it in an   *)
(* error.                                                                   *)
ReadOverflowChain(written, first, size) ==
  LET loop[k \in 0..size] ==
        IF k = 0 THEN [data |-> << >>, page |-> first, remaining |-> size]
        ELSE LET at == loop[k - 1]
                 n == Min({at.remaining, Chunk})
             IN IF at.page = 0 \/ at.remaining = 0 THEN at
                ELSE IF at.page \notin DOMAIN written
                     THEN [data |-> Append(at.data, -1), page |-> 0, remaining |-> 0]
                ELSE [data |-> at.data \o Slice(written[at.page], 4, n),
                      page |-> Number(Slice(written[at.page], 0, 4)),
                      remaining |-> at.remaining - n]
  IN loop[size].data

MakeLeafCell(rowid, payload, first) ==
  EncodeVarint(Len(payload)) \o EncodeVarint(rowid)
    \o IF Len(payload) <= MaxLocal THEN payload
       ELSE Slice(payload, 0, MaxLocal) \o Digits(first, 4)

OverflowOf(payload, first) ==
  IF Len(payload) <= MaxLocal THEN << >>
  ELSE WriteOverflowChain(Slice(payload, MaxLocal, Len(payload) - MaxLocal), first)

ReadFullPayload(cell, table, written) ==
  LET length == DecodeVarint(cell, 0)
      rowid == DecodeVarint(cell, length.size)
      offset == length.size + IF table THEN rowid.size ELSE 0
  IN IF length.value <= MaxLocal THEN Slice(cell, offset, length.value)
     ELSE Slice(cell, offset, MaxLocal)
            \o ReadOverflowChain(written, Number(Slice(cell, offset + MaxLocal, 4)), length.value - MaxLocal)

CurrentKey(cell) == DecodeVarint(cell, DecodeVarint(cell, 0).size).value

-----------------------------------------------------------------------------
(* A row is stored, as a cell of a table and as one of an index.            *)

FirstFree == 3          \* the page that allocate_page would give next

(* What the program can store: numbers are of eight bytes, with a sign or   *)
(* without, and the number of a page is of four.                            *)
Unsigned(n) == n \in Nat /\ n \div Power[7] < Base

Values == [kind : {"null", "int", "real", "text", "blob"}, n : Int]

InRange(v) ==
  CASE v.kind = "null" -> v.n = 0
    [] v.kind = "int" -> v.n \div Power[7] \in -(Base \div 2)..(Base \div 2) - 1
    [] v.kind = "real" -> Unsigned(v.n)
    [] OTHER -> v.n \in Nat /\ Unsigned(13 + 2 * v.n)

ASSUME RecordsAssumption ==
  /\ \A rowid \in Rowids : Unsigned(rowid)
  /\ \A record \in Records :
       /\ record \in Seq(Values) /\ \A i \in DOMAIN record : InRange(record[i])
       /\ Unsigned(Len(Encode(record)))
       /\ FirstFree + Len(Encode(record)) \div Chunk < Power[4]

VARIABLES row,          \* [rowid, record] that was stored
          cells,        \* [table, index, divider]: the bytes that were written
          pages         \* the overflow pages

vars == <<row, cells, pages>>

Nothing == [rowid |-> 0, record |-> << >>]

Init == row = Nothing /\ cells = [table |-> << >>, index |-> << >>, divider |-> << >>] /\ pages = << >>

Store(rowid, record) ==
  LET payload == Encode(record)
  IN /\ row = Nothing
     /\ row' = [rowid |-> rowid, record |-> record]
     /\ cells' = [table |-> MakeLeafCell(rowid, payload, FirstFree),
                  index |-> IndexLeafCell(payload),
                  divider |-> TableInteriorCell(rowid, Len(payload))]
     /\ pages' = OverflowOf(payload, FirstFree)

Next == \E rowid \in Rowids, record \in Records : Store(rowid, record)

Spec == Init /\ [][Next]_vars

-----------------------------------------------------------------------------
(* Properties.  A cell is read together with the bytes behind it.           *)

Junk == <<Base - 1, 0, 7, Base - 2>>
Stored == row # Nothing

(* Every integer is read back from its bytes alone, at each boundary of     *)
(* each length: the two of a divider cell find their ends themselves.       *)
IntegersReadBack ==
  Stored => /\ ParseTableInterior(cells.divider \o Junk) = [child |-> row.rowid, key |-> Len(Encode(row.record))]
            /\ CurrentKey(cells.table \o Junk) = row.rowid

(* A record is read back whatever its values, however many columns it has.  *)
RecordsReadBack == Stored => Decode(Encode(row.record) \o Junk) = row.record

(* A row is read back from its cell and its overflow pages, up to the last  *)
(* byte of the page or of the last overflow page; and those are whole.      *)
RowsReadBack ==
  Stored => /\ ReadFullPayload(cells.table \o Junk, TRUE, pages) = Encode(row.record)
            /\ \A p \in DOMAIN pages : Len(pages[p]) = PageSize

(* An entry of an index can divide two pages of it, and is read back when   *)
(* it is short enough for a page.                                           *)
EntriesReadBack ==
  Stored =>
    LET payload == Encode(row.record)
    IN /\ ParseIndexInterior(IndexInteriorCell(row.rowid, payload) \o Junk) =
            [child |-> row.rowid, payload |-> payload]
       /\ Len(payload) <= MaxLocal => ReadFullPayload(cells.index \o Junk, FALSE, pages) = payload

(* Those, and no longer one: it is written without overflow pages           *)
(* (btree.py:637) and read as if it had them (btree.py:266).                *)
IndexReadsBack ==
  /\ EntriesReadBack
  /\ Stored /\ Len(Encode(row.record)) > MaxLocal
       => ReadFullPayload(cells.index \o Junk, FALSE, pages) # Encode(row.record)
=============================================================================
