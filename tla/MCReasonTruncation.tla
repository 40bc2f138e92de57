------------------------- MODULE MCReasonTruncation -------------------------
(***************************************************************************)
(* Small instance: every reason of up to five runes of one to four bytes,   *)
(* and a cap of nine bytes that a three-byte ellipsis is counted against.  *)
(***************************************************************************)
EXTENDS ReasonTruncation

CONSTANT MaxRunes   \* bound: the longest reason

Widths == UNION {[1..n -> 1..4] : n \in 0..MaxRunes}
MCReasons == {[p \in DOMAIN w |-> FoldLeft(+, 0, SubSeq(w, 1, p))] : w \in Widths}
=============================================================================
