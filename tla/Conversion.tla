----------------------------- MODULE Conversion -----------------------------
(***************************************************************************)
(* What Converter.Convert promises its caller, whatever is inside a        *)
(* BuildConfig: every call returns, with exactly one of four outcomes      *)
(* (outcome.go), and the kinds of resources that outcome allows.  Convert  *)
(* is shown to implement it.                                               *)
(***************************************************************************)
EXTENDS Naturals, Sequences

CONSTANTS
  BuildConfigs,    \* the BuildConfigs that may be converted
  MaxConversions,  \* bound: how many are
  Nil

VARIABLES
  converting,   \* the BuildConfig Convert was called with, Nil between calls
  returned      \* what the calls returned, in order

vars == <<converting, returned>>

\* The outcomes that keep the BuildConfig, and the ones that replace it by a Build.
Declined == {"skipped", "failed"}
Converted == {"converted", "converted-with-warnings"}

\* A Build comes first, then the ServiceAccount and the ConfigMap it needs, if it needs them.
Kinds == {<<"Build">>, <<"Build", "ServiceAccount">>, <<"Build", "ConfigMap">>,
          <<"Build", "ServiceAccount", "ConfigMap">>}

Answers(b) ==
  [bc : {b}, state : Declined, kinds : {<<>>}] \union [bc : {b}, state : Converted, kinds : Kinds]

Init == converting = Nil /\ returned = <<>>

Call ==
  /\ converting = Nil /\ Len(returned) < MaxConversions
  /\ converting' \in BuildConfigs
  /\ UNCHANGED returned

Answer ==
  /\ converting # Nil
  /\ \E answer \in Answers(converting) : returned' = Append(returned, answer)
  /\ converting' = Nil

Next == Call \/ Answer

Spec == Init /\ [][Next]_vars /\ WF_vars(Answer)
=============================================================================
