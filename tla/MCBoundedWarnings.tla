-------------------------- MODULE MCBoundedWarnings --------------------------
(***************************************************************************)
(* Small instance: up to five warnings of 0 to 20 bytes, and a cap that    *)
(* holds from none to all of them.                                         *)
(***************************************************************************)
EXTENDS BoundedWarnings

\* Two digits from three omitted warnings on, so that the reserve and the notice differ.
MCNotice == [n \in 0..MaxWarnings |-> IF n < 3 THEN 4 ELSE 5]
MCSizes == {0, 1, 5, 9, 20}
=============================================================================
