------------------------------- MODULE Convert -------------------------------
(***************************************************************************)
(* Converter.Convert (buildconfig/converter.go): its steps in the order of *)
(* the code, from the call to the outcome, for one BuildConfig after       *)
(* another on the same Converter.  A Converter is sequential: at most one  *)
(* conversion runs, and pc says which step is next.                        *)
(***************************************************************************)
EXTENDS ConvertStrategy, ConvertSettings, ConvertTriggers

-----------------------------------------------------------------------------
(* Step 18 and 19: classify the outcome, write it on the Build, return.    *)

Own == OwnWarnings
Kept == KeptCount([k \in DOMAIN Own |-> WarningBytes])

\* boundedWarnings: what the annotation holds, and the warning raised when it is not all.
WarningsNote == [kept |-> SubSeq(Own, 1, Kept), omitted |-> Len(Own) - Kept]
OmittedWarning == When(Kept < Len(Own), W("WarningsOmitted", <<>>))

State == IF Own = <<>> THEN "converted" ELSE "converted-with-warnings"

\* The Build as it is returned.
Classified ==
  LET noted == IF Own = <<>> THEN build
               ELSE Annotate(build, ConversionWarningsAnnotation, WarningsNote)
  IN  Annotate(noted, ConversionOutcomeAnnotation, State)

BuildResource(b) == [kind |-> "Build", ns |-> b.ns, name |-> b.name, build |-> b]

\* A mistake the runs must notice: the snapshot is taken before boundedWarnings.
FinishSnapshotFirst ==
  /\ pc = "classify"
  /\ Warn(OmittedWarning)
  /\ Return(State, Blank, Own, <<BuildResource(Classified)>> \o extra)

\* The snapshot of the warnings is taken after boundedWarnings raised its own.
Finish ==
  /\ pc = "classify"
  /\ Warn(OmittedWarning)
  /\ Return(State, Blank, Own \o Attributed(cur, OmittedWarning),
            <<BuildResource(Classified)>> \o extra)

BuildUnserializable ==
  /\ pc = "classify" /\ SerializeErrors
  /\ Decline("failed", "SerializeBuild", OmittedWarning)

-----------------------------------------------------------------------------
Step == StrategySteps \/ SourceSteps \/ SettingSteps \/ TriggerSteps
          \/ Finish \/ BuildUnserializable

\* The Converter has no more BuildConfigs to convert.
AllConverted == pc = "idle" /\ Len(results) = MaxConversions /\ UNCHANGED vars

Next == (\E b \in BuildConfigs : Begin(b)) \/ Step \/ AllConverted

\* Convert runs to its return once it is called: its steps wait for nothing.
Spec == Init /\ [][Next]_vars /\ WF_vars(Step)

-----------------------------------------------------------------------------
Steps == {"idle", "strategy", "buildArgs", "volumes", "gate", "serviceAccount",
          "inlineDockerfile", "source", "output", "imageLabels", "deadline", "nodeSelector",
          "runPolicy", "postCommit", "historyLimits", "registries", "triggers", "chain",
          "resources", "classify"}

Outcomes == {"converted", "converted-with-warnings", "skipped", "failed"}

\* The shape of the control state and of what was returned.
TypeOK ==
  /\ opts \in OptionSets
  /\ pc \in Steps
  /\ bc \in BuildConfigs \union {Nil} /\ (bc = Nil) = (pc = "idle")
  /\ i \in Nat \ {0}
  /\ IsList(warnings) /\ start \in 0..Len(warnings)
  \* The call that is running counts as one of the conversions.
  /\ IsList(results) /\ Len(results) + (IF pc = "idle" THEN 0 ELSE 1) <= MaxConversions
  /\ \A k \in DOMAIN results : results[k].bc \in BuildConfigs /\ results[k].state \in Outcomes

-----------------------------------------------------------------------------
(* Refinement: Convert keeps the promise of Conversion.                    *)

Answered == [k \in DOMAIN results |->
               [bc |-> results[k].bc, state |-> results[k].state,
                kinds |-> [n \in DOMAIN results[k].resources |-> results[k].resources[n].kind]]]

Promise == INSTANCE Conversion WITH converting <- bc, returned <- Answered

\* Convert implements Conversion: one of four outcomes for every call, with the resources that
\* outcome allows and no others, in the order crane is handed them.
KeepsPromise == Promise!Spec

=============================================================================
