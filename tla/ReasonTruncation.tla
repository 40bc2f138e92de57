-------------------------- MODULE ReasonTruncation --------------------------
(***************************************************************************)
(* truncateReason (buildconfig/disposition.go) as the loop the code runs:  *)
(* a reason that is too long is cut at a byte, and trimmed back byte by    *)
(* byte to the end of a rune.  A reason is the sequence of the byte        *)
(* offsets at which its runes end: <<1, 4>> is a one-byte rune and a       *)
(* three-byte one.                                                         *)
(***************************************************************************)
EXTENDS Integers, SequencesExt

CONSTANTS
  MaxReasonBytes,   \* maxConversionReasonBytes
  EllipsisBytes,    \* the length of the ellipsis in UTF-8
  Reasons           \* the reasons that may be truncated

ASSUME ReasonAssumption ==
  /\ MaxReasonBytes \in Nat /\ EllipsisBytes \in Nat /\ EllipsisBytes <= MaxReasonBytes
  /\ Reasons \subseteq Seq(Nat)

VARIABLES
  reason,
  pc,        \* "measure", "trim" while the loop runs, then "done"
  kept,      \* how many bytes of the reason are kept
  ellipsis   \* whether the ellipsis was appended

vars == <<reason, pc, kept, ellipsis>>

\* The offsets at which a prefix of the reason is valid UTF-8.
Boundaries == {0} \union ToSet(reason)
Bytes == IF reason = <<>> THEN 0 ELSE reason[Len(reason)]

Init == reason \in Reasons /\ pc = "measure" /\ kept = 0 /\ ellipsis = FALSE

KeepWhole ==
  /\ pc = "measure" /\ Bytes <= MaxReasonBytes
  /\ kept' = Bytes /\ pc' = "done"
  /\ UNCHANGED <<reason, ellipsis>>

\* A mistake the runs must notice: no room is left for the ellipsis.
CutAtCap ==
  /\ pc = "measure" /\ Bytes > MaxReasonBytes
  /\ kept' = MaxReasonBytes /\ pc' = "trim"
  /\ UNCHANGED <<reason, ellipsis>>

Cut ==
  /\ pc = "measure" /\ Bytes > MaxReasonBytes
  /\ kept' = MaxReasonBytes - EllipsisBytes /\ pc' = "trim"
  /\ UNCHANGED <<reason, ellipsis>>

\* Two mistakes the runs must notice: a byte is trimmed before the first check,
TrimFirst ==
  /\ pc = "trim" /\ kept > 0 /\ (kept \notin Boundaries \/ kept = MaxReasonBytes - EllipsisBytes)
  /\ kept' = kept - 1
  /\ UNCHANGED <<reason, pc, ellipsis>>

\* and nothing is trimmed, so the loop never ends.
TrimNothing == pc = "trim" /\ kept > 0 /\ kept \notin Boundaries /\ UNCHANGED vars

\* utf8.ValidString fails: one byte less.
TrimByte ==
  /\ pc = "trim" /\ kept > 0 /\ kept \notin Boundaries
  /\ kept' = kept - 1
  /\ UNCHANGED <<reason, pc, ellipsis>>

AppendEllipsis ==
  /\ pc = "trim" /\ (kept = 0 \/ kept \in Boundaries)
  /\ ellipsis' = TRUE /\ pc' = "done"
  /\ UNCHANGED <<reason, kept>>

\* truncateReason has returned.
Returned == pc = "done" /\ UNCHANGED vars

Next == KeepWhole \/ Cut \/ TrimByte \/ AppendEllipsis \/ Returned

Spec == Init /\ [][Next]_vars /\ WF_vars(Next)

-----------------------------------------------------------------------------
TypeOK ==
  /\ reason \in Reasons /\ pc \in {"measure", "trim", "done"}
  /\ kept \in Nat /\ ellipsis \in BOOLEAN

\* The annotation never exceeds its cap, the ellipsis included: an oversized one would make the
\* BuildConfig that is passed through unappliable (disposition.go 13-17).
ReasonBounded == kept + (IF ellipsis THEN EllipsisBytes ELSE 0) <= MaxReasonBytes

\* A reason that fits is kept whole; one that does not loses no more than the cap asks for: it
\* ends after the last whole rune that leaves room for the ellipsis, so it stays valid UTF-8.
ReasonFaithful ==
  pc = "done" =>
    /\ kept \in Boundaries
    /\ ~ellipsis => kept = Bytes
    /\ ellipsis => /\ Bytes > MaxReasonBytes
                   /\ \A cut \in Boundaries : cut <= kept \/ cut > MaxReasonBytes - EllipsisBytes

\* truncateReason returns.
Returns == <>(pc = "done")
=============================================================================
