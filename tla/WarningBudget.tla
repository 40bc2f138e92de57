---------------------------- MODULE WarningBudget ----------------------------
(***************************************************************************)
(* How many of a conversion's warnings fit in the annotation               *)
(* crane.konveyor.io/conversion-warnings: the reference definition of what *)
(* boundedWarnings (buildconfig/converter.go) keeps.  Only byte lengths    *)
(* matter, so a list of warnings is the sequence of their lengths.         *)
(***************************************************************************)
EXTENDS Naturals, Sequences

CONSTANTS
  MaxBytes,      \* maxConversionWarningsBytes
  MaxWarnings,   \* bound: the longest list of warnings considered
  NoticeBytes    \* the length of omittedWarningsNotice(n), by n

ASSUME BudgetAssumption ==
  /\ MaxBytes \in Nat
  /\ MaxWarnings \in Nat
  /\ NoticeBytes \in [0..MaxWarnings -> Nat]
  \* The notice grows with the number it prints, and alone it fits.
  /\ \A m, n \in 0..MaxWarnings : m <= n => NoticeBytes[m] <= NoticeBytes[n]
  /\ NoticeBytes[MaxWarnings] <= MaxBytes

\* The length of strings.Join(warnings[:n], "\n"), by n: a newline before each but the first.
JoinedBytes(sizes) ==
  LET joined[n \in 0..Len(sizes)] ==
        IF n = 0 THEN 0 ELSE joined[n - 1] + (IF n > 1 THEN 1 ELSE 0) + sizes[n]
  IN  joined

\* A mistake the runs must notice: no room for the newline before the notice.
ReservedForNoticeAlone(sizes) == NoticeBytes[Len(sizes)]

\* Room set aside for the omitted-count line and its newline: the count is not known yet, so
\* it is sized for every warning omitted.
Reserved(sizes) == NoticeBytes[Len(sizes)] + 1

\* The number of leading warnings the annotation holds.
KeptCount(sizes) ==
  LET fits(n) == n = 0 \/ JoinedBytes(sizes)[n] + Reserved(sizes) <= MaxBytes
  IN  IF JoinedBytes(sizes)[Len(sizes)] <= MaxBytes
      THEN Len(sizes)
      ELSE CHOOSE n \in 0..Len(sizes) :
             fits(n) /\ \A m \in 0..Len(sizes) : fits(m) => m <= n
=============================================================================
