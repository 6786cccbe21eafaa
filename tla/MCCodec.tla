------------------------------ MODULE MCCodec ------------------------------
(* Bytes of twenty values, so that integers of nine bytes are in reach.     *)
(* Rowids and values lie around every boundary; texts are as long as a page *)
(* holds, as two pages and an overflow page hold, and a byte less or more.  *)
EXTENDS Codec

Around(S) == UNION {{n - 1, n, n + 1} : n \in S}

MCRowids == (Around({OneByte, TwoBytes, ThreeBytes} \union {20 ^ w : w \in 3..7}) \union {1, 2147483647}) \ {0}

Integer(n) == [kind |-> "int", n |-> n]
Text(n) == [kind |-> "text", n |-> n]
Blob(n) == [kind |-> "blob", n |-> n]

MCValues ==
  {Integer(n) : n \in Around({-Half(w) : w \in {1, 2, 3, 4, 6}} \union {Half(w) : w \in {1, 2, 3, 4, 6}} \union {0})}
    \union {Integer(2147483647), Integer(-2147483640), [kind |-> "null", n |-> 0], [kind |-> "real", n |-> 12345]}
    \union {Text(n) : n \in {0, 1, 2}} \union {Blob(n) : n \in {0, 3}}

Sizes == Around({MaxLocal - 3, MaxLocal - 2, MaxLocal + Chunk - 3, MaxLocal + 2 * Chunk - 3}
                \union {(TwoBytes - 13) \div 2, (ThreeBytes - 13) \div 2})
MCRecords ==
  {<<v>> : v \in MCValues}
    \union {<<Text(n)>> : n \in Sizes} \union {<<Blob(n), Integer(-5)>> : n \in Sizes}
    \union {[i \in 1..n |-> Integer(i)] : n \in Around({OneByte, 12, TwoBytes})}
=============================================================================
