--------------------------- MODULE BoundedWarnings ---------------------------
(***************************************************************************)
(* Converter.boundedWarnings as the loop the code runs: whole warnings are *)
(* appended to a builder while they, and the notice that says how many     *)
(* were left out, stay within the cap.                                     *)
(***************************************************************************)
EXTENDS WarningBudget

CONSTANT WarningSizes   \* the byte lengths a warning may have

ASSUME SizesAssumption == WarningSizes \subseteq Nat

VARIABLES
  sizes,    \* the lengths of the warnings of this conversion
  pc,       \* "join", then "keep" while the loop runs, then "done"
  kept,     \* warnings written so far
  length,   \* b.Len(), the bytes written so far
  omitted   \* the number the notice prints; 0 when there is no notice

vars == <<sizes, pc, kept, length, omitted>>

Init ==
  /\ sizes \in UNION {[1..n -> WarningSizes] : n \in 0..MaxWarnings}
  /\ pc = "join" /\ kept = 0 /\ length = 0 /\ omitted = 0

\* Everything fits: the joined list is the annotation.
JoinAll ==
  /\ pc = "join" /\ JoinedBytes(sizes)[Len(sizes)] <= MaxBytes
  /\ pc' = "done" /\ kept' = Len(sizes) /\ length' = JoinedBytes(sizes)[Len(sizes)]
  /\ UNCHANGED <<sizes, omitted>>

\* It does not: keep what fits.
StartKeeping ==
  /\ pc = "join" /\ JoinedBytes(sizes)[Len(sizes)] > MaxBytes
  /\ pc' = "keep"
  /\ UNCHANGED <<sizes, kept, length, omitted>>

\* What the next warning costs, separator included.
Needed == sizes[kept + 1] + (IF kept > 0 THEN 1 ELSE 0)

\* A mistake the runs must notice: a warning that fills the cap exactly is left out.
FitsWithRoomToSpare == kept < Len(sizes) /\ length + Needed + Reserved(sizes) < MaxBytes

NextFits == kept < Len(sizes) /\ length + Needed + Reserved(sizes) <= MaxBytes

KeepNext ==
  /\ pc = "keep" /\ NextFits
  /\ kept' = kept + 1 /\ length' = length + Needed
  /\ UNCHANGED <<sizes, pc, omitted>>

\* A mistake the runs must notice: the notice counts the warning the loop stopped after.
NoticeOffByOne ==
  /\ pc = "keep" /\ ~NextFits
  /\ omitted' = Len(sizes) - kept + 1
  /\ length' = length + (IF kept > 0 THEN 1 ELSE 0) + NoticeBytes[Len(sizes) - kept]
  /\ pc' = "done"
  /\ UNCHANGED <<sizes, kept>>

\* The loop stops at the first warning that does not fit, and the notice is written.
WriteNotice ==
  /\ pc = "keep" /\ ~NextFits
  /\ omitted' = Len(sizes) - kept
  /\ length' = length + (IF kept > 0 THEN 1 ELSE 0) + NoticeBytes[Len(sizes) - kept]
  /\ pc' = "done"
  /\ UNCHANGED <<sizes, kept>>

\* boundedWarnings has returned.
Returned == pc = "done" /\ UNCHANGED vars

Next == JoinAll \/ StartKeeping \/ KeepNext \/ WriteNotice \/ Returned

Spec == Init /\ [][Next]_vars

-----------------------------------------------------------------------------
TypeOK ==
  /\ sizes \in Seq(Nat) /\ Len(sizes) <= MaxWarnings
  /\ pc \in {"join", "keep", "done"}
  /\ kept \in 0..Len(sizes)
  /\ length \in Nat
  /\ omitted \in 0..Len(sizes)

\* The annotation never exceeds the cap, notice included, however many warnings there are and
\* however long each is (maxConversionWarningsBytes, converter.go 45-52).
AnnotationBounded == length <= MaxBytes

\* The loop keeps as many leading warnings as the cap allows: what it breaks on really does
\* not fit, and nothing it kept had to go.
KeepsWhatFits == pc = "done" => kept = KeptCount(sizes)
=============================================================================
