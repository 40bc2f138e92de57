----------------------- MODULE ReasonTruncation_proofs -----------------------
(***************************************************************************)
(* The cap on a reason holds, and nothing that fits is lost, for every     *)
(* reason, every cap and every ellipsis.                                   *)
(***************************************************************************)
EXTENDS ReasonTruncation, TLAPS

Room == MaxReasonBytes - EllipsisBytes

\* While the loop trims, no rune ends between what is kept and what there is room for.
TrimInvariant ==
  /\ TypeOK
  /\ pc # "done" => ellipsis = FALSE
  /\ pc = "measure" => kept = 0
  /\ pc = "trim" => /\ Bytes > MaxReasonBytes /\ kept <= Room
                    /\ \A cut \in Boundaries : cut <= kept \/ cut > Room
  /\ ReasonBounded /\ ReasonFaithful

LEMMA OffsetsAreNumbers ==
  ASSUME reason \in Reasons
  PROVE  Bytes \in Nat /\ Bytes \in Boundaries /\ Boundaries \subseteq Nat
<1>1. reason \in Seq(Nat)
  BY ReasonAssumption
<1>2. Len(reason) \in Nat /\ (reason # <<>> => Len(reason) \in DOMAIN reason)
  BY <1>1
<1>3. \A p \in DOMAIN reason : reason[p] \in Nat
  BY <1>1
<1> QED
  BY <1>2, <1>3 DEF Bytes, Boundaries, ToSet

LEMMA TrimInvariantHolds == Spec => []TrimInvariant
<1>1. Init => TrimInvariant
  <2> SUFFICES ASSUME Init
               PROVE  TrimInvariant
    OBVIOUS
  <2>1. pc = "measure" /\ kept = 0 /\ ellipsis = FALSE /\ reason \in Reasons
    BY DEF Init
  <2>2. TypeOK
    BY <2>1 DEF TypeOK
  <2>3. ReasonBounded
    <3>1. 0 <= MaxReasonBytes /\ 0 + 0 <= MaxReasonBytes
      BY ReasonAssumption
    <3> QED
      BY <2>1, <3>1 DEF ReasonBounded
  <2>4. ReasonFaithful
    BY <2>1 DEF ReasonFaithful
  <2> QED
    BY <2>1, <2>2, <2>3, <2>4 DEF TrimInvariant
<1>2. TrimInvariant /\ [Next]_vars => TrimInvariant'
  <2> SUFFICES ASSUME TrimInvariant, [Next]_vars
               PROVE  TrimInvariant'
    OBVIOUS
  <2>0. /\ Bytes \in Nat /\ Bytes \in Boundaries /\ Boundaries \subseteq Nat
        /\ MaxReasonBytes \in Nat /\ EllipsisBytes \in Nat /\ Room \in Nat
        /\ Room + EllipsisBytes = MaxReasonBytes
    BY OffsetsAreNumbers, ReasonAssumption DEF TrimInvariant, TypeOK, Room
  <2>1. CASE KeepWhole
    <3>1. Bytes' = Bytes /\ Boundaries' = Boundaries
      BY <2>1 DEF KeepWhole, Bytes, Boundaries
    <3>2. kept' = Bytes /\ pc' = "done" /\ ellipsis' = FALSE /\ reason' = reason
      BY <2>1 DEF KeepWhole, TrimInvariant
    <3>3. Bytes <= MaxReasonBytes /\ Bytes + 0 = Bytes
      BY <2>0, <2>1 DEF KeepWhole
    <3> QED
      BY <2>0, <3>1, <3>2, <3>3 DEF TrimInvariant, TypeOK, ReasonBounded, ReasonFaithful
  <2>2. CASE Cut
    <3>1. Bytes' = Bytes /\ Boundaries' = Boundaries
      BY <2>2 DEF Cut, Bytes, Boundaries
    <3>2. /\ kept' = Room /\ pc' = "trim" /\ ellipsis' = FALSE /\ reason' = reason
          /\ ellipsis' = ellipsis
      BY <2>2 DEF Cut, TrimInvariant, Room
    <3>3. Bytes > MaxReasonBytes
      BY <2>2 DEF Cut
    <3>4. \A cut \in Boundaries : cut <= Room \/ cut > Room
      BY <2>0
    <3>5. Room <= MaxReasonBytes
      BY <2>0
    <3> QED
      BY <2>0, <3>1, <3>2, <3>3, <3>4, <3>5
      DEF TrimInvariant, TypeOK, ReasonBounded, ReasonFaithful
  <2>3. CASE TrimByte
    <3>1. Bytes' = Bytes /\ Boundaries' = Boundaries
      BY <2>3 DEF TrimByte, Bytes, Boundaries
    <3>2. /\ pc = "trim" /\ kept > 0 /\ kept \notin Boundaries /\ kept' = kept - 1
          /\ UNCHANGED <<reason, pc, ellipsis>>
      BY <2>3 DEF TrimByte
    <3>3. kept \in Nat /\ kept' \in Nat /\ kept' <= Room /\ kept' <= MaxReasonBytes
      BY <2>0, <3>2 DEF TrimInvariant, TypeOK
    <3>4. \A cut \in Boundaries : cut <= kept' \/ cut > Room
      <4> TAKE cut \in Boundaries
      <4>1. cut <= kept \/ cut > Room
        BY <3>2 DEF TrimInvariant
      <4>2. cut # kept /\ cut \in Nat
        BY <2>0, <3>2
      <4> QED
        BY <3>2, <3>3, <4>1, <4>2
    <3> QED
      BY <3>1, <3>2, <3>3, <3>4 DEF TrimInvariant, TypeOK, ReasonBounded, ReasonFaithful
  <2>4. CASE AppendEllipsis
    <3>1. Bytes' = Bytes /\ Boundaries' = Boundaries
      BY <2>4 DEF AppendEllipsis, Bytes, Boundaries
    <3>2. /\ pc = "trim" /\ kept \in Boundaries /\ pc' = "done" /\ ellipsis' = TRUE
          /\ kept' = kept /\ reason' = reason
      BY <2>4 DEF AppendEllipsis, Boundaries
    <3>3. kept \in Nat /\ kept + EllipsisBytes <= MaxReasonBytes
      BY <2>0, <3>2 DEF TrimInvariant, TypeOK
    <3> QED
      BY <3>1, <3>2, <3>3 DEF TrimInvariant, TypeOK, ReasonBounded, ReasonFaithful, Room
  <2>5. CASE UNCHANGED vars
    BY <2>5 DEF vars, TrimInvariant, TypeOK, ReasonBounded, ReasonFaithful, Bytes, Boundaries
  <2> QED
    BY <2>1, <2>2, <2>3, <2>4, <2>5 DEF Next, Returned
<1> QED
  BY <1>1, <1>2, PTL DEF Spec

\* No reason, however long and whatever its runes, makes an annotation over the cap.
THEOREM ReasonIsBounded == Spec => []ReasonBounded
BY TrimInvariantHolds, PTL DEF TrimInvariant

\* What is cut ends at the last whole rune there is room for.
THEOREM ReasonIsFaithful == Spec => []ReasonFaithful
BY TrimInvariantHolds, PTL DEF TrimInvariant
=============================================================================
