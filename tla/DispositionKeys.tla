--------------------------- MODULE DispositionKeys ---------------------------
(***************************************************************************)
(* What escaping does to the two annotation keys the plugin writes on a    *)
(* BuildConfig it declined.  Both are fixed, so TLC computes the facts and *)
(* the proofs use them.                                                    *)
(***************************************************************************)
EXTENDS Disposition

\* Neither key, escaped, ends its reference token early, and crane reads it back as it was.
ASSUME KeysSurviveEscaping ==
  \A key \in {ConversionOutcomeAnnotation, ConversionReasonAnnotation} :
    /\ ~Contains(escapeJSONPointer(key), "/")
    /\ Unescaped(escapeJSONPointer(key)) = key
=============================================================================
