--------------------------- MODULE Convert_proofs ---------------------------
(***************************************************************************)
(* What holds of Convert for every set of BuildConfigs, every flag value   *)
(* and every number of conversions.                                        *)
(*                                                                         *)
(* Each action is looked at once, to see what a step does whatever the     *)
(* BuildConfig: where it leads, which fields of the Build it may set, which *)
(* warnings it may raise, what it may generate.  The steps are then reduced *)
(* to two shapes: a step either advances the conversion, adding warnings,  *)
(* or replies, ending it.  The invariants are proved on the shapes, and    *)
(* open only the actions they are about.                                   *)
(***************************************************************************)
EXTENDS ConvertProperties, TLAPS

-----------------------------------------------------------------------------
(* Lists.                                                                  *)

\* A list has a length, and its indices are 1 to that length.
LEMMA ListFacts ==
  ASSUME NEW s, IsList(s)
  PROVE  Len(s) \in Nat /\ DOMAIN s = 1..Len(s)
BY DEF IsList

\* A function on 1..n is a list.
LEMMA ListIntro ==
  ASSUME NEW n \in Nat, NEW s, s = [k \in 1..n |-> s[k]]
  PROVE  IsList(s) /\ Len(s) = n
<1>1. DOMAIN s = 1..n /\ \A k \in 1..n : s[k] \in ToSet(s)
  BY DEF ToSet
<1>2. s \in [1..n -> ToSet(s)]
  BY <1>1
<1> QED
  BY <1>2 DEF IsList

\* Concatenation of two lists: its length and its elements.
LEMMA ListConcat ==
  ASSUME NEW s, NEW t, IsList(s), IsList(t)
  PROVE  /\ IsList(s \o t)
         /\ Len(s \o t) = Len(s) + Len(t)
         /\ \A k \in 1..Len(s) : (s \o t)[k] = s[k]
         /\ \A k \in (Len(s) + 1)..(Len(s) + Len(t)) : (s \o t)[k] = t[k - Len(s)]
<1> DEFINE S == ToSet(s) \union ToSet(t)
<1>1. s \in Seq(S) /\ t \in Seq(S)
  <2>1. Len(s) \in Nat /\ Len(t) \in Nat /\ s \in [1..Len(s) -> S] /\ t \in [1..Len(t) -> S]
    BY DEF IsList
  <2> QED
    BY <2>1
<1>2. s \o t \in Seq(S) /\ Len(s \o t) = Len(s) + Len(t)
  BY <1>1
<1>3. IsList(s \o t)
  <2> HIDE DEF S
  <2> DEFINE u == s \o t
  <2>1. u \in Seq(S)
    BY <1>2
  <2> HIDE DEF u
  <2>2. Len(u) \in Nat /\ u = [k \in 1..Len(u) |-> u[k]]
    BY <2>1
  <2>3. IsList(u)
    BY <2>2, ListIntro
  <2> QED
    BY <2>3 DEF u
<1> QED
  BY <1>1, <1>2, <1>3

\* The empty list, one message, and a message raised on a condition are lists of messages.
LEMMA ListOfMessages ==
  /\ IsList(<<>>)
  /\ \A id, about : IsList(W(id, about))
  /\ \A condition, s : IsList(s) => IsList(When(condition, s))
<1>1. IsList(<<>>)
  BY DEF IsList
<1>2. ASSUME NEW id, NEW about PROVE IsList(W(id, about))
  <2>1. ToSet(W(id, about)) = {[id |-> id, about |-> about]}
    BY DEF W, ToSet
  <2> QED
    BY <2>1 DEF W, IsList
<1>3. ASSUME NEW condition, NEW s, IsList(s) PROVE IsList(When(condition, s))
  BY <1>1, <1>3 DEF When
<1> QED
  BY <1>1, <1>2, <1>3

\* Attributing messages keeps their number and names the BuildConfig in each.
LEMMA AttributedList ==
  ASSUME NEW who, NEW m, IsList(m)
  PROVE  /\ IsList(Attributed(who, m)) /\ Len(Attributed(who, m)) = Len(m)
         /\ \A k \in 1..Len(m) : Attributed(who, m)[k].bc = who
<1>1. Len(m) \in Nat /\ DOMAIN m = 1..Len(m)
  BY ListFacts
<1>2. /\ Attributed(who, m) = [k \in 1..Len(m) |-> Attributed(who, m)[k]]
      /\ \A k \in 1..Len(m) : Attributed(who, m)[k].bc = who
  BY <1>1 DEF Attributed
<1> QED
  BY <1>1, <1>2, ListIntro

\* Appending to a list.
LEMMA ListAppend ==
  ASSUME NEW s, NEW x, IsList(s)
  PROVE  /\ IsList(Append(s, x)) /\ Len(Append(s, x)) = Len(s) + 1
         /\ DOMAIN Append(s, x) = 1..(Len(s) + 1)
         /\ \A k \in 1..Len(s) : Append(s, x)[k] = s[k]
         /\ Append(s, x)[Len(s) + 1] = x
<1> DEFINE S == ToSet(s) \union {x}
           u == Append(s, x)
<1>1. s \in Seq(S)
  <2>1. Len(s) \in Nat /\ s \in [1..Len(s) -> S]
    BY DEF IsList
  <2> QED
    BY <2>1
<1>2. /\ u \in Seq(S) /\ Len(u) = Len(s) + 1 /\ Len(s) \in Nat
      /\ \A k \in 1..Len(s) : u[k] = s[k]
      /\ u[Len(s) + 1] = x
  BY <1>1
<1> HIDE DEF S, u
<1>3. Len(u) \in Nat /\ u = [k \in 1..Len(u) |-> u[k]] /\ DOMAIN u = 1..Len(u)
  BY <1>2
<1>4. IsList(u)
  BY <1>3, ListIntro
<1> QED
  BY <1>2, <1>3, <1>4 DEF u

\* The elements of a list from some index on.
LEMMA ListSuffix ==
  ASSUME NEW s, IsList(s), NEW n \in 0..Len(s)
  PROVE  /\ IsList(SubSeq(s, n + 1, Len(s))) /\ Len(SubSeq(s, n + 1, Len(s))) = Len(s) - n
         /\ \A k \in 1..(Len(s) - n) : SubSeq(s, n + 1, Len(s))[k] = s[n + k]
<1> DEFINE u == SubSeq(s, n + 1, Len(s))
<1>1. Len(s) \in Nat /\ s \in Seq(ToSet(s)) /\ n \in Nat /\ n <= Len(s)
  BY DEF IsList
<1>2. u = [k \in 1..(Len(s) - n) |-> s[n + k]] /\ Len(s) - n \in Nat
  BY <1>1
<1> HIDE DEF u
<1>3. u = [k \in 1..(Len(s) - n) |-> u[k]]
  BY <1>2
<1>4. IsList(u) /\ Len(u) = Len(s) - n
  BY <1>2, <1>3, ListIntro
<1>5. \A k \in 1..(Len(s) - n) : u[k] = s[n + k]
  BY <1>2
<1> QED
  BY <1>4, <1>5 DEF u

-----------------------------------------------------------------------------
(* The steps in order, the fields of the Build each one sets and the       *)
(* warnings it raises.                                                     *)

\* The steps of a conversion that is running.
Running == Steps \ {"idle"}

\* Which step may follow which.
Follows(p, q) ==
  \/ p = "strategy" /\ q \in {"buildArgs", "volumes", "gate"}
  \/ p = "buildArgs" /\ q \in {"buildArgs", "volumes"}
  \/ p = "volumes" /\ q \in {"volumes", "gate"}
  \/ p = "gate" /\ q = "serviceAccount"
  \/ p = "serviceAccount" /\ q = "inlineDockerfile"
  \/ p = "inlineDockerfile" /\ q = "source"
  \/ p = "source" /\ q = "output"
  \/ p = "output" /\ q = "imageLabels"
  \/ p = "imageLabels" /\ q \in {"imageLabels", "deadline"}
  \/ p = "deadline" /\ q = "nodeSelector"
  \/ p = "nodeSelector" /\ q = "runPolicy"
  \/ p = "runPolicy" /\ q = "postCommit"
  \/ p = "postCommit" /\ q = "historyLimits"
  \/ p = "historyLimits" /\ q = "registries"
  \/ p = "registries" /\ q = "triggers"
  \/ p = "triggers" /\ q = "chain"
  \/ p = "chain" /\ q = "resources"
  \/ p = "resources" /\ q = "classify"

\* The fields of a Build, and those each step may set.
Fields ==
  {"name", "ns", "labels", "annotations", "strategy", "params", "buildArgs", "env", "volumes",
   "source", "image", "pushSecret", "imageLabels", "insecure", "timeout", "nodeSelector",
   "succeededLimit", "failedLimit"}

\* The fields of the Build a step may set.
MaySet(p, field) ==
  \/ p = "strategy" /\ field \in {"strategy", "params", "env"}
  \/ p = "buildArgs" /\ field \in {"buildArgs", "params"}
  \/ p = "volumes" /\ field = "volumes"
  \/ p = "inlineDockerfile" /\ field = "annotations"
  \/ p = "source" /\ field \in {"source", "env"}
  \/ p = "output" /\ field \in {"image", "pushSecret"}
  \/ p = "imageLabels" /\ field = "imageLabels"
  \/ p = "deadline" /\ field = "timeout"
  \/ p = "nodeSelector" /\ field = "nodeSelector"
  \/ p = "historyLimits" /\ field \in {"succeededLimit", "failedLimit"}
  \/ p = "registries" /\ field \in {"params", "insecure"}
  \/ p = "triggers" /\ field = "annotations"
  \/ p = "resources" /\ field = "annotations"

\* The warnings each step may raise, when it does not end the conversion.
MayRaise(p, id) ==
  \/ p = "strategy" /\ id \in {"BareImage", "StreamFallback", "Incremental"}
  \/ p = "buildArgs" /\ id \in {"ArgSkipped", "ArgValueIgnored", "ArgOptional"}
  \/ p = "volumes" /\ id \in {"VolumeConverted", "VolumeSkipped", "VolumesRejected"}
  \/ p = "serviceAccount" /\ id \in {"VerifyServiceAccount", "LinkPullSecret",
                      "RenamedServiceAccount"}
  \/ p = "inlineDockerfile" /\ id \in {"RenamedConfigMap", "InlineDockerfilePreserved",
                      "InlineDockerfileDropped"}
  \/ p = "source" /\ id \in {"SourceSecretDropped", "NoSource", "ConfigMapMount", "SecretMount",
                      "ImageAsDropped", "BareImage", "StreamFallback", "PathsDroppedRunOrder",
                      "PathsDropped"}
  \/ p = "output" /\ id \in {"OutputFallback", "OutputRedirected", "NoPushSecretStream",
                      "NoPushSecretRegistry"}
  \/ p = "imageLabels" /\ id \in {"LabelOverridden", "LabelSkipped"}
  \/ p = "deadline" /\ id = "DeadlineDropped"
  \/ p = "nodeSelector" /\ id = "NodeSelectorDropped"
  \/ p = "runPolicy" /\ id = "RunPolicyDropped"
  \/ p = "postCommit" /\ id \in {"PostCommitDropped", "PostCommitAmbiguous"}
  \/ p = "historyLimits" /\ id = "LimitDropped"
  \/ p = "triggers" /\ id \in DropWarnings \union {"TriggersDropped"}
  \/ p = "resources" /\ id \in {"StepResourcesOmitted", "ApplyTemplate"}

-----------------------------------------------------------------------------
(* Messages.                                                               *)

\* A list of messages, that step p may raise.
Messages(m, p) == IsList(m) /\ \A k \in DOMAIN m : MayRaise(p, m[k].id)

\* The messages a step raises are put together from these.
LEMMA MessageRules ==
  /\ \A p : Messages(<<>>, p)
  /\ \A id, about, p : MayRaise(p, id) => Messages(W(id, about), p)
  /\ \A condition, m, p : Messages(m, p) => Messages(When(condition, m), p)
  /\ \A condition, m, p : (condition => Messages(m, p)) => Messages(When(condition, m), p)
  /\ \A m, n, p : Messages(m, p) /\ Messages(n, p) => Messages(m \o n, p)
<1>1. ASSUME NEW p PROVE Messages(<<>>, p)
  BY ListOfMessages DEF Messages
<1>2. ASSUME NEW id, NEW about, NEW p, MayRaise(p, id) PROVE Messages(W(id, about), p)
  <2>1. DOMAIN W(id, about) = {1} /\ W(id, about)[1].id = id
    BY DEF W
  <2> QED
    BY <1>2, <2>1, ListOfMessages DEF Messages
<1>3. ASSUME NEW condition, NEW m, NEW p, condition => Messages(m, p)
      PROVE  Messages(When(condition, m), p)
  BY <1>1, <1>3 DEF When
<1>4. ASSUME NEW m, NEW n, NEW p, Messages(m, p), Messages(n, p)
      PROVE  Messages(m \o n, p)
  <2>1. IsList(m) /\ IsList(n) /\ Len(m) \in Nat /\ Len(n) \in Nat
    BY <1>4, ListFacts DEF Messages
  <2> DEFINE u == m \o n
  <2>2. /\ IsList(u) /\ Len(u) = Len(m) + Len(n) /\ DOMAIN u = 1..(Len(m) + Len(n))
        /\ \A k \in 1..Len(m) : u[k] = m[k]
        /\ \A k \in (Len(m) + 1)..(Len(m) + Len(n)) : u[k] = n[k - Len(m)]
    BY <2>1, ListConcat, ListFacts
  <2> HIDE DEF u
  <2>3. /\ \A k \in 1..Len(m) : MayRaise(p, m[k].id)
        /\ \A k \in 1..Len(n) : MayRaise(p, n[k].id)
    BY <1>4, <2>1, ListFacts DEF Messages
  <2>4. ASSUME NEW k \in 1..(Len(m) + Len(n)) PROVE MayRaise(p, u[k].id)
    <3>1. CASE k \in 1..Len(m)
      BY <2>2, <2>3, <3>1
    <3>2. CASE k \in (Len(m) + 1)..(Len(m) + Len(n))
      <4>1. k - Len(m) \in 1..Len(n)
        BY <2>1, <3>2
      <4> QED
        BY <2>2, <2>3, <3>2, <4>1
    <3> QED
      BY <2>1, <3>1, <3>2
  <2>5. Messages(u, p)
    BY <2>2, <2>4 DEF Messages
  <2> QED
    BY <2>5 DEF u
<1> QED
  BY <1>1, <1>2, <1>3, <1>4

-----------------------------------------------------------------------------
(* The shapes of the steps.                                                *)

\* Of the fields of the Build only those of the step may change.
Sets(p) ==
  DOMAIN build = Fields =>
    /\ DOMAIN build' = Fields
    /\ \A field \in Fields : ~MaySet(p, field) => build'[field] = build[field]

\* At most one resource is generated, and it is the one of that step.
MayGenerate ==
  \/ UNCHANGED <<extra, generatedSA>>
  \/ /\ pc = "serviceAccount" /\ extra' = Append(extra, GeneratedAccount)
     /\ generatedSA' = GeneratedAccount.name
  \/ /\ pc = "inlineDockerfile" /\ extra' = Append(extra, InlineConfigMap)
     /\ UNCHANGED generatedSA

\* The steps that are loops.
Loops == {"buildArgs", "volumes", "imageLabels"}

\* The index of a loop: one more each time round, and 1 again once the loop is done.
Counts(p) == i' = IF pc' = p THEN i + 1 ELSE IF p \in Loops THEN 1 ELSE i

\* What the warnings rely on: the BuildConfig is one of those given, and the warnings are a list.
StepContext ==
  /\ IsList(warnings)
  /\ pc \in Running => bc \in BuildConfigs

\* The conversion goes on: the step adds warnings of its own, edits its own fields of the Build,
\* and leaves the call as it is.
Goes ==
  /\ pc \in Running /\ Follows(pc, pc')
  /\ UNCHANGED call
  /\ Counts(pc)
  /\ StepContext => \E m : Messages(m, pc) /\ Warn(m)
  /\ Sets(pc)
  /\ MayGenerate
  /\ pc # "chain" => UNCHANGED notices

\* The reasons the steps decline a BuildConfig with.
Reasons ==
  {"DockerFrom", "SourceFrom", "Custom", "JenkinsPipeline", "UnknownStrategy", "NoOutputImage",
   "SerializeServiceAccount", "SerializeConfigMap", "MultipleSources", "BinaryArchive",
   "MultipleImages", "ImageSource", "SerializeTemplate", "SerializeBuild"}

\* None of them is the empty string.
LEMMA ReasonsStated == \A reason \in Reasons : reason # Blank
BY Zenon DEF Reasons, Blank

\* The conversion ends with a reason, and nothing else.
Declines ==
  /\ pc \in Running
  /\ \E state \in {"skipped", "failed"}, reason \in Reasons :
       \E m : IsList(m) /\ Decline(state, reason, m)

\* A step that warns goes on.
LEMMA GoesWith ==
  ASSUME NEW p \in Running, pc = p, Follows(p, pc'), UNCHANGED call, Counts(p),
         NEW m, StepContext => Messages(m, p), Warn(m),
         Sets(p), MayGenerate, UNCHANGED notices
  PROVE  Goes
BY DEF Goes

\* So does one that does not.
LEMMA GoesQuietly ==
  ASSUME UNCHANGED warnings, NEW p \in Running, pc = p, Follows(p, pc'), UNCHANGED call, Counts(p),
         Sets(p), MayGenerate, p # "chain" => UNCHANGED notices
  PROVE  Goes
<1>1. Attributed(cur, <<>>) = <<>>
  BY DEF Attributed
<1>2. StepContext => Warn(<<>>)
  BY <1>1 DEF StepContext, IsList, Warn
<1>3. Messages(<<>>, p)
  BY MessageRules
<1> QED
  BY <1>2, <1>3 DEF Goes

\* The warning about an image that was resolved is one of two.
LEMMA ResolveWarnings ==
  ASSUME NEW b, NEW ref, NEW about, NEW p \in {"strategy", "source"}
  PROVE  LET warning == Resolve(b, ref).warning
         IN  Messages(When(warning # Blank, W(warning, about)), p)
<1> DEFINE ns == NamespaceOf(b, ref)
           warning == resolveImageRef(ref.kind, ref.name, ns, opts).warning
<1>1. ResolveDockerImage(ref.name, ns, opts).warning \in {Blank, "BareImage"}
  BY DEF ResolveDockerImage, Resolved
<1>2. ResolveStream(ns, ref.name, opts).warning \in {Blank, "StreamFallback"}
  BY DEF ResolveStream, Resolved
<1>3. warning \in {Blank, "BareImage", "StreamFallback"}
  BY <1>1, <1>2 DEF resolveImageRef, Unresolvable
<1>4. warning = Resolve(b, ref).warning
  BY DEF Resolve
<1> HIDE DEF warning
<1>5. warning # Blank => Messages(W(warning, about), p)
  BY <1>3, MessageRules DEF MayRaise
<1> QED
  BY <1>4, <1>5, MessageRules

\* The steps of ConvertStrategy have one of the two shapes.
LEMMA StrategyStepShapes ==
  ASSUME StrategySteps
  PROVE  Goes \/ Declines
<1> USE DEF Goto, call, Running, Steps, Follows, MaySet, MayRaise, Counts, Loops, MayGenerate, Sets
<1>1. CASE DockerStrategy
  <2>1. Messages(ImageWarning(Docker.from), "strategy")
    BY ResolveWarnings, MessageRules DEF ImageWarning
  <2> QED
    BY <1>1, <2>1, GoesWith DEF DockerStrategy, WithParams, Named
<1>2. CASE BareDockerStrategy
  BY <1>2, GoesQuietly DEF BareDockerStrategy, Named
<1>3. CASE DockerImageUnresolvable
  <2>1. IsList(<<>>)
    BY ListOfMessages
  <2> QED
    BY <1>3, <2>1 DEF DockerImageUnresolvable, Declines, Reasons
<1>4. CASE SkipInvalidArg
  <2>1. Messages(W("ArgSkipped", Arg.name), "buildArgs")
    BY MessageRules
  <2> QED
    BY <1>4, <2>1, GoesWith DEF SkipInvalidArg, MoreArgs, ArgDone
<1>5. CASE LiteralArg
  <2>1. Messages(<<>>, "buildArgs")
    BY MessageRules
  <2> QED
    BY <1>5, <2>1, GoesWith DEF LiteralArg, MoreArgs, ArgDone
<1>6. CASE MapArg
  <2> DEFINE ref == KeyRef(Arg.from)
             empty == ref.name = Blank \/ ref.key = Blank
             m == BothWarning(Arg) \o When(empty, W("ArgSkipped", Arg.name))
                    \o When(~empty /\ ref.optional, W("ArgOptional", Arg.name))
  <2>1. Messages(m, "buildArgs")
    BY MessageRules DEF BothWarning
  <2>2. Warn(m) /\ i' = i + 1 /\ UNCHANGED <<pc, call, extra, generatedSA, notices>>
        /\ pc = "buildArgs" /\ Sets("buildArgs")
    BY <1>6 DEF MapArg, MoreArgs, ArgDone
  <2> HIDE DEF m
  <2> QED
    BY <2>1, <2>2, GoesWith
<1>7. CASE SkipUnmappableArg
  <2>1. Messages(BothWarning(Arg) \o W("ArgSkipped", Arg.name), "buildArgs")
    BY MessageRules DEF BothWarning
  <2> QED
    BY <1>7, <2>1, GoesWith DEF SkipUnmappableArg, MoreArgs, ArgDone
<1>8. CASE BuildArgsDone
  BY <1>8, GoesQuietly DEF BuildArgsDone, WithParams
<1>9. CASE SourceStrategy
  <2>1. Messages(ImageWarning(S2IFrom) \o When(S2I.incremental, W("Incremental", <<>>)), "strategy")
    <3>1. Messages(ImageWarning(S2IFrom), "strategy")
      BY ResolveWarnings, MessageRules DEF ImageWarning
    <3> QED
      BY <3>1, MessageRules
  <2> QED
    BY <1>9, <2>1, GoesWith DEF SourceStrategy, WithParams, Named
<1>10. CASE BareSourceStrategy
  BY <1>10, GoesQuietly DEF BareSourceStrategy, Named
<1>11. CASE SourceImageUnresolvable
  <2>1. IsList(<<>>)
    BY ListOfMessages
  <2> QED
    BY <1>11, <2>1 DEF SourceImageUnresolvable, Declines, Reasons
<1>12. CASE UnsupportedStrategy
  <2>1. IsList(W("PassedThrough", bc.name))
    BY ListOfMessages
  <2> QED
    BY <1>12, <2>1 DEF UnsupportedStrategy, Declines, Reasons
<1>13. CASE UnknownStrategy
  <2>1. IsList(<<>>)
    BY ListOfMessages
  <2> QED
    BY <1>13, <2>1 DEF UnknownStrategy, Declines, Reasons
<1>14. CASE ConvertVolume
  <2>1. Messages(W("VolumeConverted", <<Volume.name>>), "volumes")
    BY MessageRules
  <2> QED
    BY <1>14, <2>1, GoesWith DEF ConvertVolume, MoreVolumes, VolumeDone
<1>15. CASE SkipVolume
  <2>1. Messages(W("VolumeSkipped", <<Volume.name>>), "volumes")
    BY MessageRules
  <2> QED
    BY <1>15, <2>1, GoesWith DEF SkipVolume, MoreVolumes, VolumeDone
<1>16. CASE VolumesDone
  <2>1. Messages(When(build.volumes # <<>>, W("VolumesRejected", <<>>)), "volumes")
    BY MessageRules
  <2> QED
    BY <1>16, <2>1, GoesWith DEF VolumesDone
<1>17. CASE PassGate
  BY <1>17, GoesQuietly DEF PassGate
<1>18. CASE NoOutputImage
  <2>1. IsList(W("PassedThrough", bc.name))
    BY ListOfMessages
  <2> QED
    BY <1>18, <2>1 DEF NoOutputImage, Declines, Reasons
<1> QED
  BY <1>1, <1>2, <1>3, <1>4, <1>5, <1>6, <1>7, <1>8, <1>9, <1>10,
     <1>11, <1>12, <1>13, <1>14, <1>15, <1>16, <1>17, <1>18 DEF StrategySteps

\* A list built by an index is a list of messages when its elements are.
LEMMA IndexedMessages ==
  ASSUME NEW s, IsList(s), NEW m, m = [k \in DOMAIN s |-> m[k]],
         NEW p, \A k \in DOMAIN s : MayRaise(p, m[k].id)
  PROVE  Messages(m, p) /\ Len(m) = Len(s) /\ DOMAIN m = DOMAIN s
<1>1. Len(s) \in Nat /\ DOMAIN s = 1..Len(s)
  BY ListFacts
<1>2. DOMAIN m = DOMAIN s /\ m = [k \in 1..Len(s) |-> m[k]]
  BY <1>1
<1> QED
  BY <1>1, <1>2, ListIntro DEF Messages

\* The warnings about mounted objects.
LEMMA MountMessages ==
  ASSUME bc \in BuildConfigs
  PROVE  Messages(MountWarnings, "source")
<1> DEFINE maps == [k \in DOMAIN Source.configMaps |->
                     [id |-> "ConfigMapMount", about |-> <<Source.configMaps[k]>>]]
           mounts == [k \in DOMAIN Source.secrets |->
                     [id |-> "SecretMount", about |-> <<Source.secrets[k]>>]]
<1>1. IsList(Source.configMaps) /\ IsList(Source.secrets)
  BY ListsAssumption DEF Source, ListsAssumption
<1>2. Messages(maps, "source") /\ Messages(mounts, "source")
  BY <1>1, IndexedMessages DEF MayRaise
<1>3. MountWarnings = maps \o mounts
  BY DEF MountWarnings
<1> HIDE DEF maps, mounts
<1> QED
  BY <1>2, <1>3, MessageRules

\* All the warnings of a source, its own among them.
LEMMA SourceMessages ==
  ASSUME StepContext, pc = "source", NEW m, Messages(m, "source")
  PROVE  Messages(InertSecretWarning \o m \o MountWarnings, "source")
<1>1. Messages(MountWarnings, "source")
  BY MountMessages DEF StepContext, Running, Steps
<1>2. Messages(InertSecretWarning, "source")
  BY MessageRules DEF InertSecretWarning, MayRaise
<1> QED
  BY <1>1, <1>2, MessageRules

\* The steps of ConvertSource have one of the two shapes.
LEMMA SourceStepShapes ==
  ASSUME SourceSteps
  PROVE  Goes \/ Declines
<1> USE DEF Goto, call, Running, Steps, Follows, MaySet, MayRaise, Counts, Loops, MayGenerate, Sets
<1>1. CASE NoAccountNeeded
  <2>1. Messages(AssociationsWarning, "serviceAccount")
    BY MessageRules DEF AssociationsWarning
  <2> QED
    BY <1>1, <2>1, GoesWith DEF NoAccountNeeded
<1>2. CASE AccountNamed
  <2>1. Messages(W("LinkPullSecret", <<bc.serviceAccount>>) \o AssociationsWarning,
                 "serviceAccount")
    BY MessageRules DEF AssociationsWarning
  <2> QED
    BY <1>2, <2>1, GoesWith DEF AccountNamed
<1>3. CASE GenerateAccount
  <2>1. Messages(RenameWarning("RenamedServiceAccount", bc.name), "serviceAccount")
    BY MessageRules DEF RenameWarning
  <2> QED
    BY <1>3, <2>1, GoesWith DEF GenerateAccount
<1>4. CASE AccountUnserializable
  <2>1. IsList(RenameWarning("RenamedServiceAccount", bc.name))
    BY ListOfMessages DEF RenameWarning
  <2> QED
    BY <1>4, <2>1 DEF AccountUnserializable, Declines, Reasons
<1>5. CASE NoInlineDockerfile
  BY <1>5, GoesQuietly DEF NoInlineDockerfile
<1>6. CASE PreserveInlineDockerfile
  <2>1. Messages(InlineWarnings, "inlineDockerfile")
    BY MessageRules DEF InlineWarnings, RenameWarning
  <2> QED
    BY <1>6, <2>1, GoesWith DEF PreserveInlineDockerfile, Annotate
<1>7. CASE DropInlineDockerfile
  <2>1. Messages(W("InlineDockerfileDropped", bc.name), "inlineDockerfile")
    BY MessageRules
  <2> QED
    BY <1>7, <2>1, GoesWith DEF DropInlineDockerfile
<1>8. CASE ConfigMapUnserializable
  <2>1. IsList(InlineWarnings)
    BY ListOfMessages, ListConcat DEF InlineWarnings, RenameWarning
  <2> QED
    BY <1>8, <2>1 DEF ConfigMapUnserializable, Declines, Reasons
<1>9. CASE MultipleSources
  <2>1. IsList(InertSecretWarning \o <<>>)
    BY ListOfMessages, ListConcat DEF InertSecretWarning
  <2> QED
    BY <1>9, <2>1 DEF MultipleSources, Declines, Reasons, SourceRejected
<1>10. CASE NoSource
  <2>1. Messages(InertSecretWarning \o W("NoSource", bc.name), "source")
    BY MessageRules DEF InertSecretWarning
  <2> QED
    BY <1>10, <2>1, GoesWith DEF NoSource
<1>11. CASE GitSource
  <2>1. StepContext => Messages(InertSecretWarning \o <<>> \o MountWarnings, "source")
    BY <1>11, MessageRules, SourceMessages DEF GitSource
  <2> QED
    BY <1>11, <2>1, GoesWith DEF GitSource, SourceDone
<1>12. CASE BinaryFile
  <2>1. StepContext => Messages(InertSecretWarning \o <<>> \o MountWarnings, "source")
    BY <1>12, MessageRules, SourceMessages DEF BinaryFile
  <2> QED
    BY <1>12, <2>1, GoesWith DEF BinaryFile, SourceDone
<1>13. CASE BinaryArchive
  <2>1. IsList(InertSecretWarning \o <<>>)
    BY ListOfMessages, ListConcat DEF InertSecretWarning
  <2> QED
    BY <1>13, <2>1 DEF BinaryArchive, Declines, Reasons, SourceRejected
<1>14. CASE MultipleImages
  <2>1. IsList(InertSecretWarning \o <<>>)
    BY ListOfMessages, ListConcat DEF InertSecretWarning
  <2> QED
    BY <1>14, <2>1 DEF MultipleImages, Declines, Reasons, SourceRejected
<1>15. CASE ImageUnresolvable
  <2>1. IsList(InertSecretWarning \o AsWarning)
    BY ListOfMessages, ListConcat DEF InertSecretWarning, AsWarning
  <2> QED
    BY <1>15, <2>1 DEF ImageUnresolvable, Declines, Reasons, SourceRejected
<1>16. CASE ImageSource
  <2> DEFINE resolved == Resolve(bc, ImageOf(bc))
             m == AsWarning \o When(resolved.warning # Blank, W(resolved.warning, ImageOf(bc).name))
                    \o PathsWarning(resolved)
  <2>1. Messages(m, "source")
    <3>1. Messages(When(resolved.warning # Blank, W(resolved.warning, ImageOf(bc).name)),
                   "source")
      BY ResolveWarnings
    <3>2. Messages(AsWarning, "source") /\ Messages(PathsWarning(resolved), "source")
      BY MessageRules DEF AsWarning, PathsWarning
    <3> QED
      BY <3>1, <3>2, MessageRules
  <2>2. /\ pc = "source" /\ pc' = "output" /\ UNCHANGED <<i, call, extra, generatedSA, notices>>
        /\ Warn(InertSecretWarning \o m \o MountWarnings) /\ Sets("source")
    BY <1>16 DEF ImageSource, SourceDone
  <2> HIDE DEF m
  <2>3. StepContext => Messages(InertSecretWarning \o m \o MountWarnings, "source")
    BY <2>1, <2>2, SourceMessages
  <2> QED
    BY <2>2, <2>3, GoesWith
<1>17. CASE Output
  <2> DEFINE m == OutputWarnings
                    \o When(~HasPushSecret,
                            W(IF ToStream THEN "NoPushSecretStream" ELSE "NoPushSecretRegistry",
                              <<>>))
  <2>1. Messages(m, "output")
    BY MessageRules DEF OutputWarnings
  <2>2. /\ pc = "output" /\ pc' = "imageLabels"
        /\ UNCHANGED <<i, call, extra, generatedSA, notices>>
        /\ Warn(m) /\ Sets("output")
    BY <1>17 DEF Output
  <2> HIDE DEF m
  <2> QED
    BY <2>1, <2>2, GoesWith
<1>18. CASE ImageLabel
  <2>1. Messages(When(Label.name \in DOMAIN build.imageLabels
                         /\ build.imageLabels[Label.name] # Label.value,
                       W("LabelOverridden", <<Label.name>>)), "imageLabels")
    BY MessageRules
  <2> QED
    BY <1>18, <2>1, GoesWith DEF ImageLabel
<1>19. CASE SkipUnnamedLabel
  <2>1. Messages(W("LabelSkipped", <<>>), "imageLabels")
    BY MessageRules
  <2> QED
    BY <1>19, <2>1, GoesWith DEF SkipUnnamedLabel
<1>20. CASE ImageLabelsDone
  BY <1>20, GoesQuietly DEF ImageLabelsDone
<1> QED
  BY <1>1, <1>2, <1>3, <1>4, <1>5, <1>6, <1>7, <1>8, <1>9, <1>10,
     <1>11, <1>12, <1>13, <1>14, <1>15, <1>16, <1>17, <1>18, <1>19, <1>20 DEF SourceSteps

\* The steps of ConvertSettings have one of the two shapes.
LEMMA SettingStepShapes ==
  ASSUME SettingSteps
  PROVE  Goes \/ Declines
<1> USE DEF Goto, call, Running, Steps, Follows, MaySet, MayRaise, Counts, Loops, MayGenerate, Sets
<1>1. CASE NoDeadline
  <2>1. Messages(<<>>, "deadline")
    BY MessageRules
  <2> QED
    BY <1>1, <2>1, GoesWith DEF NoDeadline, Settle
<1>2. CASE MapDeadline
  <2>1. Messages(<<>>, "deadline")
    BY MessageRules
  <2> QED
    BY <1>2, <2>1, GoesWith DEF MapDeadline, Settle
<1>3. CASE DropDeadline
  <2>1. Messages(W("DeadlineDropped", <<>>), "deadline")
    BY MessageRules
  <2> QED
    BY <1>3, <2>1, GoesWith DEF DropDeadline, Settle
<1>4. CASE MapNodeSelector
  <2>1. Messages(<<>>, "nodeSelector")
    BY MessageRules
  <2> QED
    BY <1>4, <2>1, GoesWith DEF MapNodeSelector, Settle
<1>5. CASE DropNodeSelector
  <2>1. Messages(W("NodeSelectorDropped", <<>>), "nodeSelector")
    BY MessageRules
  <2> QED
    BY <1>5, <2>1, GoesWith DEF DropNodeSelector, Settle
<1>6. CASE RunPolicy
  <2>1. Messages(When(policy # "Parallel", W("RunPolicyDropped", <<policy>>)), "runPolicy")
    BY MessageRules
  <2> QED
    BY <1>6, <2>1, GoesWith DEF RunPolicy, Settle
<1>7. CASE PostCommit
  <2>1. Messages(PostCommitWarnings(bc.postCommit), "postCommit")
    BY MessageRules DEF PostCommitWarnings
  <2> QED
    BY <1>7, <2>1, GoesWith DEF PostCommit, Settle
<1>8. CASE HistoryLimits
  <2>1. Messages(LimitWarning(bc.successfulLimit, "successfulBuildsHistoryLimit")
                   \o LimitWarning(bc.failedLimit, "failedBuildsHistoryLimit"), "historyLimits")
    BY MessageRules DEF LimitWarning
  <2> QED
    BY <1>8, <2>1, GoesWith DEF HistoryLimits, Settle
<1>9. CASE addRegistries
  <2>1. Messages(<<>>, "registries")
    BY MessageRules
  <2> QED
    BY <1>9, <2>1, GoesWith DEF addRegistries, Settle, WithParams
<1>10. CASE NoResources
  <2>1. Messages(<<>>, "resources")
    BY MessageRules
  <2> QED
    BY <1>10, <2>1, GoesWith DEF NoResources, Settle
<1>11. CASE Resources
  <2>1. Messages(W(IF StepNames = <<>> THEN "StepResourcesOmitted" ELSE "ApplyTemplate",
                     <<build.strategy>>), "resources")
    BY MessageRules
  <2> QED
    BY <1>11, <2>1, GoesWith DEF Resources, Settle, Annotate
<1>12. CASE TemplateUnserializable
  <2>1. IsList(<<>>)
    BY ListOfMessages
  <2> QED
    BY <1>12, <2>1 DEF TemplateUnserializable, Declines, Reasons
<1> QED
  BY <1>1, <1>2, <1>3, <1>4, <1>5, <1>6, <1>7, <1>8, <1>9, <1>10,
     <1>11, <1>12 DEF SettingSteps

\* The warning about a trigger is one of the drop warnings.
LEMMA TriggerMessage ==
  ASSUME NEW trigger
  PROVE  TriggerWarning(trigger).id \in DropWarnings
BY DEF TriggerWarning, DropWarnings

\* The steps of ConvertTriggers have one of the two shapes.
LEMMA TriggerStepShapes ==
  ASSUME TriggerSteps
  PROVE  Goes \/ Declines
<1> USE DEF Goto, call, Running, Steps, Follows, MaySet, MayRaise, Counts, Loops, MayGenerate, Sets
<1>1. CASE NoTriggers
  BY <1>1, GoesQuietly DEF NoTriggers
<1>2. CASE Triggers
  <2> DEFINE each == [k \in DOMAIN bc.triggers |-> TriggerWarning(bc.triggers[k])]
             kept == [k \in DOMAIN bc.triggers |-> sanitizeTrigger(bc.triggers[k])]
  <2>1. StepContext => IsList(bc.triggers)
    BY <1>2, ListsAssumption DEF Triggers, ListsAssumption, StepContext
  <2>2. StepContext => Messages(each, "triggers")
    BY <2>1, TriggerMessage, IndexedMessages
  <2>3. /\ pc = "triggers" /\ pc' = "chain" /\ UNCHANGED <<i, call, extra, generatedSA, notices>>
        /\ Warn(each \o W("TriggersDropped", <<>>))
        /\ build' = Annotate(build, OriginalTriggersAnnotation, kept)
    BY <1>2 DEF Triggers
  <2> HIDE DEF each, kept
  <2>4. StepContext => Messages(each \o W("TriggersDropped", <<>>), "triggers")
    BY <2>2, MessageRules
  <2> QED
    BY <2>3, <2>4, GoesWith DEF Annotate
<1>3. CASE processChainCandidates
  BY <1>3, GoesQuietly DEF processChainCandidates
<1> QED
  BY <1>1, <1>2, <1>3 DEF TriggerSteps

\* Every step of a conversion goes on, declines the BuildConfig, or finishes.
LEMMA StepShapes ==
  ASSUME Step
  PROVE  Goes \/ Declines \/ Finish
<1>1. CASE BuildUnserializable
  <2>1. IsList(OmittedWarning)
    BY ListOfMessages DEF OmittedWarning
  <2> QED
    BY <1>1, <2>1 DEF BuildUnserializable, Declines, Reasons, Running, Steps
<1> QED
  BY <1>1, StrategyStepShapes, SourceStepShapes, SettingStepShapes, TriggerStepShapes DEF Step

-----------------------------------------------------------------------------
(* The shapes of the steps.                                                *)

\* A step that goes on with the conversion: it may warn, and the call stays as it is.
Advance ==
  /\ pc \in Running /\ pc' \in Running
  /\ i' \in {1, i, i + 1}
  /\ UNCHANGED call
  /\ \E m : IsList(m) /\ Warn(m)

\* A step that ends it: the BuildConfig is declined with a reason and nothing else, or it is
\* converted and its warnings are those recorded.
Reply ==
  /\ pc \in Running
  /\ \E m, state, reason, own, resources :
       /\ IsList(m) /\ Warn(m)
       /\ Return(state, reason, own, resources)
       /\ \/ /\ state \in {"skipped", "failed"} /\ reason # Blank
             /\ own = <<>> /\ resources = <<>>
          \/ /\ state \in {"converted", "converted-with-warnings"}
             /\ own = OwnWarnings \o Attributed(cur, m)

\* Every step of a conversion has one of the two shapes.
LEMMA StepShape ==
  ASSUME StepContext, Step
  PROVE  Advance \/ Reply
<1>1. CASE Goes
  <2>1. pc' \in Running
    BY <1>1 DEF Goes, Follows, Running, Steps
  <2> QED
    BY <1>1, <2>1 DEF Goes, Counts, Messages, Advance
<1>2. CASE Declines
  BY <1>2, ReasonsStated DEF Declines, Decline, Reply
<1>3. CASE Finish
  <2>1. State \in {"converted", "converted-with-warnings"}
    BY DEF State
  <2>2. IsList(OmittedWarning)
    BY ListOfMessages DEF OmittedWarning
  <2> QED
    BY <1>3, <2>1, <2>2 DEF Finish, Reply, Own, Running, Steps
<1> QED
  BY <1>1, <1>2, <1>3, StepShapes

-----------------------------------------------------------------------------
(* Types.                                                                  *)

\* Calling Convert keeps the types.
LEMMA BeginTypes ==
  ASSUME TypeOK, NEW b \in BuildConfigs, Begin(b)
  PROVE  TypeOK'
<1>1. IsList(Attributed(Identity(b), RenameWarning("RenamedBuild", b.name)))
  BY ListOfMessages, AttributedList DEF RenameWarning
<1>2. IsList(warnings') /\ Len(warnings') >= Len(warnings) /\ Len(warnings') \in Nat
  BY <1>1, ListConcat, ListFacts DEF Begin, TypeOK
<1>3. start' \in 0..Len(warnings')
  BY <1>2, ListFacts DEF Begin, TypeOK
<1>4. b # Nil
  BY ConvertAssumption DEF ConvertAssumption
<1>5. Len(results) \in Nat /\ MaxConversions \in Nat /\ Len(results) + 1 <= MaxConversions
  BY ListFacts, ConvertAssumption DEF Begin, TypeOK, ConvertAssumption
<1> QED
  BY <1>2, <1>3, <1>4, <1>5 DEF Begin, TypeOK, Steps

\* So does a step that advances.
LEMMA AdvanceTypes ==
  ASSUME TypeOK, Advance
  PROVE  TypeOK'
<1>1. PICK m : IsList(m) /\ warnings' = warnings \o Attributed(cur, m)
  BY DEF Advance, Warn
<1>2. IsList(warnings') /\ Len(warnings') >= Len(warnings) /\ Len(warnings') \in Nat
  BY <1>1, ListConcat, AttributedList, ListFacts DEF TypeOK
<1>3. start' \in 0..Len(warnings')
  BY <1>2, ListFacts DEF Advance, call, TypeOK
<1> QED
  BY <1>2, <1>3 DEF Advance, call, TypeOK, Running

\* What a reply adds to the results, as a record r.
LEMMA ReplyResult ==
  ASSUME Reply
  PROVE  \E m, r :
           /\ IsList(m) /\ warnings' = warnings \o Attributed(cur, m)
           /\ results' = Append(results, r)
           /\ r.bc = bc /\ r.recorded = SubSeq(warnings', start + 1, Len(warnings'))
           /\ \/ r.state \in {"skipped", "failed"} /\ r.reason # Blank /\ r.resources = <<>>
              \/ /\ r.state \in {"converted", "converted-with-warnings"}
                 /\ r.warnings = OwnWarnings \o Attributed(cur, m)
<1>1. PICK m, state, reason, own, resources :
        /\ IsList(m) /\ Warn(m)
        /\ Return(state, reason, own, resources)
        /\ \/ state \in {"skipped", "failed"} /\ reason # Blank /\ resources = <<>>
           \/ /\ state \in {"converted", "converted-with-warnings"}
              /\ own = OwnWarnings \o Attributed(cur, m)
  BY DEF Reply
<1> DEFINE r == [bc |-> bc, state |-> state, reason |-> reason, warnings |-> own,
                 resources |-> resources,
                 recorded |-> SubSeq(warnings', start + 1, Len(warnings')),
                 notices |-> notices]
<1>2. /\ r.bc = bc /\ r.state = state /\ r.reason = reason /\ r.warnings = own
      /\ r.resources = resources /\ r.recorded = SubSeq(warnings', start + 1, Len(warnings'))
  OBVIOUS
<1>3. results' = Append(results, r)
  BY <1>1 DEF Return
<1>4. warnings' = warnings \o Attributed(cur, m)
  BY <1>1 DEF Warn
<1> HIDE DEF r
<1> QED
  BY <1>1, <1>2, <1>3, <1>4

\* A reply keeps the types.
LEMMA ReplyTypes ==
  ASSUME TypeOK, Reply
  PROVE  TypeOK'
<1>1. PICK m, r :
        /\ IsList(m) /\ warnings' = warnings \o Attributed(cur, m)
        /\ results' = Append(results, r) /\ r.bc = bc /\ r.state \in Outcomes
  BY ReplyResult DEF Outcomes
<1>2. IsList(warnings') /\ Len(warnings') \in Nat
  BY <1>1, ListConcat, AttributedList, ListFacts DEF TypeOK
<1>3. /\ pc' = "idle" /\ bc' = Nil /\ start' = 0 /\ i' = 1 /\ opts' = opts
      /\ bc \in BuildConfigs
  BY DEF Reply, Return, Running, TypeOK
<1>4. IsList(results') /\ Len(results') \in Nat /\ Len(results') <= MaxConversions
  <2>1. Len(results) \in Nat /\ Len(results) + 1 <= MaxConversions
    BY ListFacts DEF Reply, Running, TypeOK
  <2> QED
    BY <2>1, <1>1, ListAppend DEF TypeOK
<1>5. \A k \in DOMAIN results' : results'[k].bc \in BuildConfigs /\ results'[k].state \in Outcomes
  BY <1>1, <1>3, ListAppend, ListFacts DEF TypeOK
<1> QED
  BY <1>2, <1>3, <1>4, <1>5 DEF TypeOK, Steps

\* A step that leaves everything as it is keeps the types.
LEMMA StutterTypes ==
  ASSUME TypeOK, UNCHANGED vars
  PROVE  TypeOK'
BY DEF TypeOK, vars

\* The types hold before the first conversion.
LEMMA InitTypes == Init => TypeOK
<1> SUFFICES ASSUME Init PROVE TypeOK
  OBVIOUS
<1>1. IsList(<<>>) /\ Len(<<>>) = 0 /\ DOMAIN <<>> = {}
  BY ListOfMessages
<1> QED
  BY <1>1, ConvertAssumption DEF Init, TypeOK, ConvertAssumption, Steps

\* A step is a call, an advance, a reply or a stutter.
LEMMA NextShape ==
  ASSUME TypeOK, [Next]_vars
  PROVE  (\E b \in BuildConfigs : Begin(b)) \/ Advance \/ Reply \/ UNCHANGED vars
<1>1. StepContext
  BY DEF TypeOK, StepContext, Running
<1> QED
  BY <1>1, StepShape DEF Next, AllConverted

\* The control state and the results are well formed throughout, whatever is converted.
THEOREM TypeCorrect == Spec => []TypeOK
<1>1. TypeOK /\ [Next]_vars => TypeOK'
  BY NextShape, BeginTypes, AdvanceTypes, ReplyTypes, StutterTypes
<1> QED
  BY InitTypes, <1>1, PTL DEF Spec

-----------------------------------------------------------------------------
(* What was returned.                                                      *)

\* The invariant of the warnings and the results: while a conversion runs, the warnings from
\* start on are attributed to its BuildConfig; and each result is a reason alone, or a Build
\* with all the warnings that were recorded for it.
Accountable ==
  /\ pc = "idle" => cur = Nil
  /\ pc # "idle" => /\ cur = Identity(bc)
                    /\ \A k \in 1..Len(warnings) : k > start => warnings[k].bc = cur
  /\ \A n \in DOMAIN results :
       /\ \A k \in DOMAIN results[n].recorded :
            results[n].recorded[k].bc = Identity(results[n].bc)
       /\ \/ /\ results[n].state \in {"skipped", "failed"}
             /\ results[n].reason # Blank /\ results[n].resources = <<>>
          \/ /\ results[n].state \in {"converted", "converted-with-warnings"}
             /\ results[n].warnings = results[n].recorded

\* The slice of the warnings from an index on, once more warnings are recorded.
LEMMA SuffixOfConcat ==
  ASSUME NEW s, NEW t, IsList(s), IsList(t), NEW n \in 0..Len(s)
  PROVE  SubSeq(s \o t, n + 1, Len(s \o t)) = SubSeq(s, n + 1, Len(s)) \o t
<1> DEFINE u == s \o t
           left == SubSeq(u, n + 1, Len(u))
           suffix == SubSeq(s, n + 1, Len(s))
           right == suffix \o t
<1>1. /\ IsList(u) /\ Len(u) = Len(s) + Len(t)
      /\ \A k \in 1..Len(s) : u[k] = s[k]
      /\ \A k \in (Len(s) + 1)..(Len(s) + Len(t)) : u[k] = t[k - Len(s)]
  BY ListConcat
<1>2. Len(s) \in Nat /\ Len(t) \in Nat /\ n \in Nat /\ n <= Len(s)
  BY ListFacts
<1> HIDE DEF u
<1>3. /\ IsList(left) /\ Len(left) = Len(u) - n
      /\ \A k \in 1..(Len(u) - n) : left[k] = u[n + k]
  <2>1. n \in 0..Len(u)
    BY <1>1, <1>2
  <2> QED
    BY <1>1, <2>1, ListSuffix
<1>4. /\ IsList(suffix) /\ Len(suffix) = Len(s) - n
      /\ \A k \in 1..(Len(s) - n) : suffix[k] = s[n + k]
  BY ListSuffix
<1> HIDE DEF left, suffix
<1>5. /\ IsList(right) /\ Len(right) = (Len(s) - n) + Len(t)
      /\ \A k \in 1..(Len(s) - n) : right[k] = suffix[k]
      /\ \A k \in ((Len(s) - n) + 1)..((Len(s) - n) + Len(t)) : right[k] = t[k - (Len(s) - n)]
  <2>1. /\ IsList(right) /\ Len(right) = Len(suffix) + Len(t)
        /\ \A k \in 1..Len(suffix) : right[k] = suffix[k]
        /\ \A k \in (Len(suffix) + 1)..(Len(suffix) + Len(t)) : right[k] = t[k - Len(suffix)]
    BY <1>4, ListConcat
  <2> HIDE DEF right
  <2> QED
    BY <1>4, <2>1
<1> HIDE DEF right
<1>6. Len(left) = Len(right) /\ Len(left) \in Nat
  BY <1>1, <1>2, <1>3, <1>5
<1>7. ASSUME NEW k \in 1..Len(left) PROVE left[k] = right[k]
  <2>1. CASE k <= Len(s) - n
    <3>1. n + k \in 1..Len(s) /\ k \in 1..(Len(s) - n) /\ k \in 1..(Len(u) - n)
      BY <2>1, <1>1, <1>2, <1>3
    <3> QED
      BY <3>1, <1>1, <1>3, <1>4, <1>5
  <2>2. CASE k > Len(s) - n
    <3>1. /\ n + k \in (Len(s) + 1)..(Len(s) + Len(t))
          /\ k \in ((Len(s) - n) + 1)..((Len(s) - n) + Len(t)) /\ k \in 1..(Len(u) - n)
          /\ (n + k) - Len(s) = k - (Len(s) - n)
      BY <2>2, <1>1, <1>2, <1>3
    <3> QED
      BY <3>1, <1>1, <1>3, <1>5
  <2> QED
    BY <2>1, <2>2, <1>2, <1>6
<1>8. left = [k \in 1..Len(left) |-> left[k]] /\ right = [k \in 1..Len(right) |-> right[k]]
  BY <1>3, <1>5 DEF IsList
<1>9. left = right
  BY <1>6, <1>7, <1>8
<1> QED
  BY <1>9 DEF left, right, suffix, u

\* Calling Convert keeps every result accountable.
LEMMA BeginAccountable ==
  ASSUME TypeOK, Accountable, NEW b \in BuildConfigs, Begin(b)
  PROVE  Accountable'
<1> DEFINE m == RenameWarning("RenamedBuild", b.name)
<1>1. IsList(m)
  BY ListOfMessages DEF RenameWarning
<1>2. /\ warnings' = warnings \o Attributed(Identity(b), m)
      /\ start' = Len(warnings) /\ cur' = Identity(b) /\ bc' = b
      /\ pc' = "strategy" /\ results' = results
  BY DEF Begin
<1> HIDE DEF m
<1>3. ASSUME NEW k \in 1..Len(warnings'), k > start' PROVE warnings'[k].bc = cur'
  <2> DEFINE t == Attributed(Identity(b), m)
  <2>1. IsList(t) /\ Len(t) \in Nat /\ \A j \in 1..Len(t) : t[j].bc = Identity(b)
    BY <1>1, AttributedList, ListFacts
  <2> HIDE DEF t
  <2>2. warnings' = warnings \o t
    BY <1>2 DEF t
  <2>3. IsList(warnings) /\ Len(warnings) \in Nat
    BY ListFacts DEF TypeOK
  <2>4. k \in (Len(warnings) + 1)..(Len(warnings) + Len(t)) /\ k - Len(warnings) \in 1..Len(t)
    BY <1>2, <1>3, <2>1, <2>2, <2>3, ListConcat
  <2> QED
    BY <1>2, <2>1, <2>2, <2>3, <2>4, ListConcat
<1> QED
  BY <1>2, <1>3 DEF Accountable

\* The warnings a step adds are attributed to the BuildConfig being converted.
LEMMA WarnAttributes ==
  ASSUME TypeOK, Accountable, pc \in Running,
         NEW m, IsList(m), warnings' = warnings \o Attributed(cur, m)
  PROVE  \A k \in 1..Len(warnings') : k > start => warnings'[k].bc = Identity(bc)
<1> DEFINE t == Attributed(cur, m)
<1>1. IsList(t) /\ Len(t) \in Nat /\ \A j \in 1..Len(t) : t[j].bc = cur
  BY AttributedList, ListFacts
<1> HIDE DEF t
<1>2. IsList(warnings) /\ Len(warnings) \in Nat /\ start \in Nat /\ cur = Identity(bc)
  <2>1. IsList(warnings) /\ start \in 0..Len(warnings)
    BY DEF TypeOK
  <2>2. Len(warnings) \in Nat
    BY <2>1, ListFacts
  <2>3. cur = Identity(bc)
    BY DEF Accountable, Running
  <2> QED
    BY <2>1, <2>2, <2>3
<1>3. /\ Len(warnings') = Len(warnings) + Len(t)
      /\ \A k \in 1..Len(warnings) : warnings'[k] = warnings[k]
      /\ \A k \in (Len(warnings) + 1)..(Len(warnings) + Len(t)) :
           warnings'[k] = t[k - Len(warnings)]
  BY <1>1, <1>2, ListConcat DEF t
<1> SUFFICES ASSUME NEW k \in 1..Len(warnings'), k > start
             PROVE  warnings'[k].bc = Identity(bc)
  OBVIOUS
<1>4. CASE k <= Len(warnings)
  <2>1. k \in 1..Len(warnings)
    BY <1>2, <1>4
  <2> QED
    BY <1>2, <1>3, <2>1 DEF Accountable, Running
<1>5. CASE k > Len(warnings)
  <2>1. k \in (Len(warnings) + 1)..(Len(warnings) + Len(t)) /\ k - Len(warnings) \in 1..Len(t)
    BY <1>1, <1>2, <1>3, <1>5
  <2> QED
    BY <1>1, <1>2, <1>3, <2>1
<1> QED
  BY <1>2, <1>4, <1>5

\* A step that advances keeps every result accountable.
LEMMA AdvanceAccountable ==
  ASSUME TypeOK, Accountable, Advance
  PROVE  Accountable'
<1>1. PICK m : IsList(m) /\ warnings' = warnings \o Attributed(cur, m)
  BY DEF Advance, Warn
<1>2. UNCHANGED <<bc, cur, start, results>> /\ pc \in Running /\ pc' \in Running
  BY DEF Advance, call
<1>3. \A k \in 1..Len(warnings') : k > start => warnings'[k].bc = Identity(bc)
  BY <1>1, <1>2, WarnAttributes
<1>4. cur = Identity(bc)
  BY <1>2 DEF Accountable, Running
<1> QED
  BY <1>2, <1>3, <1>4 DEF Accountable, Running

\* A reply adds an accountable result.
LEMMA ReplyAccountable ==
  ASSUME TypeOK, Accountable, Reply
  PROVE  Accountable'
<1>1. PICK m, r :
        /\ IsList(m) /\ warnings' = warnings \o Attributed(cur, m)
        /\ results' = Append(results, r)
        /\ r.bc = bc /\ r.recorded = SubSeq(warnings', start + 1, Len(warnings'))
        /\ \/ r.state \in {"skipped", "failed"} /\ r.reason # Blank /\ r.resources = <<>>
           \/ /\ r.state \in {"converted", "converted-with-warnings"}
              /\ r.warnings = OwnWarnings \o Attributed(cur, m)
  BY ReplyResult
<1>2. pc \in Running /\ pc' = "idle" /\ cur' = Nil
  BY DEF Reply, Return
<1>3. \A k \in 1..Len(warnings') : k > start => warnings'[k].bc = Identity(bc)
  BY <1>1, <1>2, WarnAttributes
<1>4. /\ IsList(warnings) /\ IsList(Attributed(cur, m)) /\ start \in 0..Len(warnings)
      /\ Len(warnings) \in Nat
  BY <1>1, AttributedList, ListFacts DEF TypeOK
<1>5. IsList(warnings') /\ Len(warnings') \in Nat /\ Len(warnings) <= Len(warnings')
  <2> DEFINE t == Attributed(cur, m)
  <2>1. IsList(t) /\ Len(t) \in Nat /\ warnings' = warnings \o t
    BY <1>1, <1>4, ListFacts
  <2> HIDE DEF t
  <2>2. IsList(warnings \o t) /\ Len(warnings \o t) = Len(warnings) + Len(t)
    BY <1>4, <2>1, ListConcat
  <2> QED
    BY <1>4, <2>1, <2>2
<1>6. r.recorded = OwnWarnings \o Attributed(cur, m)
  BY <1>1, <1>4, SuffixOfConcat DEF OwnWarnings
<1>7. ASSUME NEW k \in DOMAIN r.recorded PROVE r.recorded[k].bc = Identity(r.bc)
  <2>1. start \in 0..Len(warnings')
    BY <1>4, <1>5
  <2>2. /\ IsList(r.recorded) /\ Len(r.recorded) = Len(warnings') - start
        /\ \A j \in 1..(Len(warnings') - start) : r.recorded[j] = warnings'[start + j]
    BY <1>1, <1>5, <2>1, ListSuffix
  <2>3. k \in 1..(Len(warnings') - start)
    BY <2>2, ListFacts
  <2>4. start + k \in 1..Len(warnings') /\ start + k > start
    BY <1>4, <1>5, <2>3
  <2> QED
    BY <1>1, <1>3, <2>2, <2>3, <2>4
<1>8. ASSUME NEW n \in DOMAIN results'
      PROVE  results'[n] = r \/ (n \in DOMAIN results /\ results'[n] = results[n])
  <2>1. IsList(results) /\ Len(results) \in Nat /\ DOMAIN results = 1..Len(results)
    BY ListFacts DEF TypeOK
  <2>2. n \in 1..(Len(results) + 1)
    BY <1>1, <1>8, <2>1, ListAppend
  <2>3. n = Len(results) + 1 \/ n \in DOMAIN results
    BY <2>1, <2>2
  <2>4. /\ \A k \in 1..Len(results) : Append(results, r)[k] = results[k]
        /\ Append(results, r)[Len(results) + 1] = r
    BY <2>1, ListAppend
  <2>5. CASE n = Len(results) + 1
    BY <1>1, <2>4, <2>5
  <2>6. CASE n \in DOMAIN results
    BY <1>1, <2>1, <2>4, <2>6
  <2> QED
    BY <2>3, <2>5, <2>6
<1>9. \/ r.state \in {"skipped", "failed"} /\ r.reason # Blank /\ r.resources = <<>>
      \/ r.state \in {"converted", "converted-with-warnings"} /\ r.warnings = r.recorded
  BY <1>1, <1>6
<1>10. ASSUME NEW n \in DOMAIN results'
       PROVE  /\ \A k \in DOMAIN results'[n].recorded :
                   results'[n].recorded[k].bc = Identity(results'[n].bc)
              /\ \/ /\ results'[n].state \in {"skipped", "failed"}
                    /\ results'[n].reason # Blank /\ results'[n].resources = <<>>
                 \/ /\ results'[n].state \in {"converted", "converted-with-warnings"}
                    /\ results'[n].warnings = results'[n].recorded
  <2>1. CASE results'[n] = r
    BY <1>7, <1>9, <2>1
  <2>2. CASE n \in DOMAIN results /\ results'[n] = results[n]
    BY <2>2 DEF Accountable
  <2> QED
    BY <1>8, <2>1, <2>2
<1> QED
  BY <1>2, <1>10 DEF Accountable

\* The invariant holds throughout.
THEOREM AccountableAlways == Spec => []Accountable
<1>1. Init => Accountable
  <2> SUFFICES ASSUME Init PROVE Accountable
    OBVIOUS
  <2>1. DOMAIN results = {}
    BY DEF Init
  <2> QED
    BY <2>1 DEF Init, Accountable
<1>2. TypeOK /\ Accountable /\ [Next]_vars => Accountable'
  <2> SUFFICES ASSUME TypeOK, Accountable, [Next]_vars PROVE Accountable'
    OBVIOUS
  <2>1. CASE UNCHANGED vars
    BY <2>1 DEF vars, Accountable
  <2> QED
    BY <2>1, NextShape, BeginAccountable, AdvanceAccountable, ReplyAccountable
<1> QED
  BY <1>1, <1>2, TypeCorrect, PTL DEF Spec

\* Nothing generated for a BuildConfig is emitted unless its Build is.
THEOREM NoOrphans == Spec => []NoOrphanResources
<1>1. Accountable => NoOrphanResources
  BY DEF Accountable, NoOrphanResources, Returned, Replaced
<1> QED
  BY <1>1, AccountableAlways, PTL

\* Every warning is attributed to the BuildConfig it was raised for, on a Converter that
\* converts any number of them.
THEOREM WarningsAttributed == Spec => []WarningsBelong
<1>1. Accountable => WarningsBelong
  BY DEF Accountable, WarningsBelong, Returned
<1> QED
  BY <1>1, AccountableAlways, PTL

\* No warning is raised after the list of them is taken: a conversion returns every warning it
\* recorded, the truncation notice included.
THEOREM WarningsReturned == Spec => []WarningsComplete
<1>1. Accountable => WarningsComplete
  BY DEF Accountable, WarningsComplete, Returned, Replaced
<1> QED
  BY <1>1, AccountableAlways, PTL

-----------------------------------------------------------------------------
(* Convert implements Conversion: the safety part of KeepsPromise.  The    *)
(* steps are reduced to three shapes, by what they do to the resources:    *)
(* leave them, generate one, or conclude the call.                         *)

\* The steps before a ServiceAccount may be generated, and those after the ConfigMap may.
Early == {"strategy", "buildArgs", "volumes", "gate", "serviceAccount"}

\* The steps after the inline Dockerfile.
Late == Running \ (Early \union {"inlineDockerfile"})

\* The conversion goes on, with the resources it has.
Quiet ==
  /\ UNCHANGED <<bc, results, extra>>
  /\ \/ pc \in Early /\ pc' \in Early
     \/ pc = "serviceAccount" /\ pc' = "inlineDockerfile"
     \/ pc = "inlineDockerfile" /\ pc' = "source"
     \/ pc \in Late /\ pc' \in Late

\* It goes on with one more.
Generates(from, to, kind) ==
  /\ pc = from /\ pc' = to /\ UNCHANGED <<bc, results>>
  /\ \E r : r.kind = kind /\ extra' = Append(extra, r)

\* Every step generates at most what is its to generate.
Generate ==
  \/ Generates("serviceAccount", "inlineDockerfile", "ServiceAccount")
  \/ Generates("inlineDockerfile", "source", "ConfigMap")

\* It returns: with a reason and nothing else, or with a Build before the resources it has.
Conclude ==
  /\ pc \in Running /\ pc' = "idle" /\ bc' = Nil /\ extra' = <<>>
  /\ \E r :
       /\ results' = Append(results, r) /\ r.bc = bc
       /\ \/ r.state \in {"skipped", "failed"} /\ r.reason # Blank /\ r.resources = <<>>
          \/ /\ pc = "classify" /\ r.state \in {"converted", "converted-with-warnings"}
             /\ \E b : b.kind = "Build" /\ r.resources = <<b>> \o extra

\* A step that returns concludes the call.
LEMMA ReturnConcludes ==
  ASSUME NEW state, NEW reason, NEW own, NEW resources, pc \in Running,
         Return(state, reason, own, resources),
         \/ state \in {"skipped", "failed"} /\ reason # Blank /\ resources = <<>>
         \/ /\ pc = "classify" /\ state \in {"converted", "converted-with-warnings"}
            /\ \E b : b.kind = "Build" /\ resources = <<b>> \o extra
  PROVE  Conclude
<1> DEFINE r == [bc |-> bc, state |-> state, reason |-> reason, warnings |-> own,
                 resources |-> resources,
                 recorded |-> SubSeq(warnings', start + 1, Len(warnings')),
                 notices |-> notices]
<1>1. r.bc = bc /\ r.state = state /\ r.reason = reason /\ r.resources = resources
  OBVIOUS
<1>2. results' = Append(results, r) /\ pc' = "idle" /\ bc' = Nil /\ extra' = <<>>
  BY DEF Return
<1> HIDE DEF r
<1> QED
  BY <1>1, <1>2 DEF Conclude

\* So does one that declines the BuildConfig.
LEMMA DeclineConcludes ==
  ASSUME NEW m, NEW state \in {"skipped", "failed"}, NEW reason \in Reasons,
         pc \in Running, Decline(state, reason, m)
  PROVE  Conclude
BY ReturnConcludes, ReasonsStated DEF Decline

\* Every step of a conversion has one of the three shapes.
LEMMA StepAnswers ==
  ASSUME Step
  PROVE  Quiet \/ Generate \/ Conclude
<1>1. CASE Goes
  <2>1. GeneratedAccount.kind = "ServiceAccount" /\ InlineConfigMap.kind = "ConfigMap"
    BY DEF GeneratedAccount, InlineConfigMap
  <2> HIDE DEF GeneratedAccount, InlineConfigMap
  <2>2. UNCHANGED <<bc, results>> /\ Follows(pc, pc') /\ MayGenerate
    BY <1>1 DEF Goes, call
  <2>3. UNCHANGED extra \/ Generate
    BY <2>1, <2>2 DEF MayGenerate, Generate, Generates, Follows
  <2> QED
    BY <2>2, <2>3 DEF Quiet, Follows, Early, Late, Running, Steps
<1>2. CASE Declines
  BY <1>2, DeclineConcludes DEF Declines
<1>3. CASE Finish
  <2>1. State \in {"converted", "converted-with-warnings"}
    BY DEF State
  <2>2. BuildResource(Classified).kind = "Build"
    BY DEF BuildResource
  <2> QED
    BY <1>3, <2>1, <2>2, ReturnConcludes DEF Finish, Running, Steps
<1> QED
  BY <1>1, <1>2, <1>3, StepShapes

-----------------------------------------------------------------------------
(* The resources generated so far.                                         *)

\* The lists a conversion can have generated.
Account(s) == \E a : a.kind = "ServiceAccount" /\ s = <<a>>

Map(s) == \E m : m.kind = "ConfigMap" /\ s = <<m>>
AccountAndMap(s) == \E a, m : a.kind = "ServiceAccount" /\ m.kind = "ConfigMap" /\ s = <<a, m>>

\* The invariant: what was generated is what the steps up to pc may have generated.
Provision ==
  /\ pc \in Early \union {"idle"} => extra = <<>>
  /\ pc = "inlineDockerfile" => extra = <<>> \/ Account(extra)
  /\ pc \in Late => extra = <<>> \/ Account(extra) \/ Map(extra) \/ AccountAndMap(extra)

\* One resource more.
LEMMA AppendResource ==
  ASSUME NEW x, NEW y
  PROVE  Append(<<x>>, y) = <<x, y>>
<1> DEFINE S == {x, y}
           u == Append(<<x>>, y)
           v == <<x, y>>
<1>1. <<x>> \in Seq(S) /\ y \in S /\ v \in Seq(S)
  OBVIOUS
<1>2. u \in Seq(S) /\ Len(u) = 2 /\ u[1] = x /\ u[2] = y
  BY <1>1
<1>3. Len(v) = 2 /\ v[1] = x /\ v[2] = y
  OBVIOUS
<1> HIDE DEF S, u, v
<1>4. \A k \in 1..Len(u) : u[k] = v[k]
  BY <1>2, <1>3
<1>5. u = v
  BY <1>1, <1>2, <1>3, <1>4
<1> QED
  BY <1>5 DEF u, v

\* Whatever a step does, the resources are those its place allows.
LEMMA StepProvision ==
  ASSUME Provision, Quiet \/ Generate \/ Conclude
  PROVE  Provision'
<1> USE DEF Running, Steps, Early, Late
<1>1. CASE Quiet
  BY <1>1 DEF Quiet, Provision, Account, Map, AccountAndMap
<1>2. CASE Generates("serviceAccount", "inlineDockerfile", "ServiceAccount")
  <2>1. extra = <<>> /\ pc' = "inlineDockerfile"
    BY <1>2 DEF Generates, Provision
  <2>2. Account(extra')
    BY <1>2, <2>1, AppendResource DEF Generates, Account
  <2> QED
    BY <2>1, <2>2 DEF Provision, Account
<1>3. CASE Generates("inlineDockerfile", "source", "ConfigMap")
  <2>1. PICK m : m.kind = "ConfigMap" /\ extra' = Append(extra, m)
    BY <1>3 DEF Generates
  <2>2. CASE extra = <<>>
    <3>1. Map(extra')
      BY <2>1, <2>2, AppendResource DEF Map
    <3> QED
      BY <1>3, <3>1 DEF Generates, Provision, Map
  <2>3. CASE Account(extra)
    <3>1. AccountAndMap(extra')
      BY <2>1, <2>3, AppendResource DEF Account, AccountAndMap
    <3> QED
      BY <1>3, <3>1 DEF Generates, Provision, AccountAndMap
  <2> QED
    BY <1>3, <2>2, <2>3 DEF Generates, Provision
<1>4. CASE Conclude
  BY <1>4 DEF Conclude, Provision
<1> QED
  BY <1>1, <1>2, <1>3, <1>4 DEF Generate

\* The resources are those the steps so far allow, throughout.
THEOREM ProvisionAlways == Spec => []Provision
<1>1. Init => Provision
  BY DEF Init, Provision, Early, Late, Running, Steps
<1>2. Provision /\ [Next]_vars => Provision'
  <2> SUFFICES ASSUME Provision, [Next]_vars PROVE Provision'
    OBVIOUS
  <2>1. CASE \E b \in BuildConfigs : Begin(b)
    BY <2>1 DEF Begin, Provision, Early, Late, Running, Steps
  <2>2. CASE UNCHANGED vars
    BY <2>2 DEF vars, Provision, Account, Map, AccountAndMap
  <2> QED
    BY <2>1, <2>2, StepAnswers, StepProvision DEF Next, AllConverted
<1> QED
  BY <1>1, <1>2, PTL DEF Spec

-----------------------------------------------------------------------------
(* The steps of Convert are steps of Conversion.                           *)

\* What the refinement makes of a result.
KindsOf(s) == [n \in DOMAIN s |-> s[n].kind]

\* The answer a result is.
AnswerOf(r) == [bc |-> r.bc, state |-> r.state, kinds |-> KindsOf(r.resources)]

\* The Build before one resource, and before two.
LEMMA BuildThenOne ==
  ASSUME NEW x, NEW y
  PROVE  <<x>> \o <<y>> = <<x, y>>
<1> DEFINE S == {x, y}
           u == <<x>> \o <<y>>
           v == <<x, y>>
<1>1. <<x>> \in Seq(S) /\ <<y>> \in Seq(S) /\ v \in Seq(S)
  OBVIOUS
<1>2. u \in Seq(S) /\ Len(u) = 2 /\ u[1] = x /\ u[2] = y
  BY <1>1
<1>3. Len(v) = 2 /\ v[1] = x /\ v[2] = y
  OBVIOUS
<1> HIDE DEF S, u, v
<1>4. \A k \in 1..Len(u) : u[k] = v[k]
  BY <1>2, <1>3
<1>5. u = v
  BY <1>1, <1>2, <1>3, <1>4
<1> QED
  BY <1>5 DEF u, v

\* A Build and two resources.
LEMMA BuildThenTwo ==
  ASSUME NEW x, NEW y, NEW z
  PROVE  <<x>> \o <<y, z>> = <<x, y, z>>
<1> DEFINE S == {x, y, z}
           u == <<x>> \o <<y, z>>
           v == <<x, y, z>>
<1>1. <<x>> \in Seq(S) /\ <<y, z>> \in Seq(S) /\ v \in Seq(S)
  OBVIOUS
<1>2. u \in Seq(S) /\ Len(u) = 3 /\ u[1] = x /\ u[2] = y /\ u[3] = z
  BY <1>1
<1>3. Len(v) = 3 /\ v[1] = x /\ v[2] = y /\ v[3] = z
  OBVIOUS
<1> HIDE DEF S, u, v
<1>4. \A k \in 1..Len(u) : u[k] = v[k]
  BY <1>2, <1>3
<1>5. u = v
  BY <1>1, <1>2, <1>3, <1>4
<1> QED
  BY <1>5 DEF u, v

\* A Build before the resources a conversion may have: one of the lists of kinds.
LEMMA BuildKinds ==
  ASSUME NEW b, b.kind = "Build",
         extra = <<>> \/ Account(extra) \/ Map(extra) \/ AccountAndMap(extra)
  PROVE  KindsOf(<<b>> \o extra) \in Promise!Kinds
<1>1. CASE extra = <<>>
  <2>1. <<b>> \o extra = <<b>>
    BY <1>1
  <2>2. KindsOf(<<b>>) = <<"Build">>
    BY DEF KindsOf
  <2> QED
    BY <2>1, <2>2 DEF Promise!Kinds
<1>2. CASE Account(extra)
  <2>1. PICK a : a.kind = "ServiceAccount" /\ extra = <<a>>
    BY <1>2 DEF Account
  <2>2. <<b>> \o extra = <<b, a>>
    BY <2>1, BuildThenOne
  <2>3. KindsOf(<<b, a>>) = <<"Build", "ServiceAccount">>
    BY <2>1 DEF KindsOf
  <2> QED
    BY <2>2, <2>3 DEF Promise!Kinds
<1>3. CASE Map(extra)
  <2>1. PICK m : m.kind = "ConfigMap" /\ extra = <<m>>
    BY <1>3 DEF Map
  <2>2. <<b>> \o extra = <<b, m>>
    BY <2>1, BuildThenOne
  <2>3. KindsOf(<<b, m>>) = <<"Build", "ConfigMap">>
    BY <2>1 DEF KindsOf
  <2> QED
    BY <2>2, <2>3 DEF Promise!Kinds
<1>4. CASE AccountAndMap(extra)
  <2>1. PICK a, m : a.kind = "ServiceAccount" /\ m.kind = "ConfigMap" /\ extra = <<a, m>>
    BY <1>4 DEF AccountAndMap
  <2>2. <<b>> \o extra = <<b, a, m>>
    BY <2>1, BuildThenTwo
  <2>3. KindsOf(<<b, a, m>>) = <<"Build", "ServiceAccount", "ConfigMap">>
    BY <2>1 DEF KindsOf
  <2> QED
    BY <2>2, <2>3 DEF Promise!Kinds
<1> QED
  BY <1>1, <1>2, <1>3, <1>4

\* The answers are the results, one for one.
LEMMA AnswersListed ==
  ASSUME IsList(results)
  PROVE  /\ IsList(Answered) /\ Len(Answered) = Len(results)
         /\ \A k \in 1..Len(results) : Answered[k] = AnswerOf(results[k])
<1>1. Len(results) \in Nat /\ DOMAIN results = 1..Len(results)
  BY ListFacts
<1>2. Answered = [k \in 1..Len(results) |-> AnswerOf(results[k])]
  BY <1>1 DEF Answered, AnswerOf, KindsOf
<1>3. Answered = [k \in 1..Len(results) |-> Answered[k]]
  BY <1>2
<1> QED
  BY <1>1, <1>2, <1>3, ListIntro

\* One result more is one answer more.
LEMMA AnsweredAppend ==
  ASSUME IsList(results), NEW r, results' = Append(results, r)
  PROVE  Answered' = Append(Answered, AnswerOf(r))
<1> DEFINE n == Len(results)
           u == Append(Answered, AnswerOf(r))
<1>1. n \in Nat /\ IsList(Answered) /\ Len(Answered) = n
      /\ \A k \in 1..n : Answered[k] = AnswerOf(results[k])
  BY AnswersListed, ListFacts
<1>2. /\ IsList(results') /\ Len(results') = n + 1 /\ results'[n + 1] = r
      /\ \A k \in 1..n : results'[k] = results[k]
  BY ListAppend
<1>3. /\ IsList(u) /\ Len(u) = n + 1 /\ u[n + 1] = AnswerOf(r)
      /\ \A k \in 1..n : u[k] = Answered[k]
  BY <1>1, ListAppend
<1>4. DOMAIN results' = 1..(n + 1) /\ DOMAIN u = 1..(n + 1)
  BY <1>2, <1>3, ListFacts
<1>5. Answered' = [k \in 1..(n + 1) |-> AnswerOf(results'[k])]
  BY <1>4 DEF Answered, AnswerOf, KindsOf
<1> HIDE DEF u, n
<1>6. u = [k \in 1..(n + 1) |-> u[k]]
  BY <1>3, <1>4 DEF IsList
<1>7. ASSUME NEW k \in 1..(n + 1) PROVE AnswerOf(results'[k]) = u[k]
  <2>1. k = n + 1 \/ k \in 1..n
    BY <1>1
  <2> QED
    BY <2>1, <1>1, <1>2, <1>3
<1> QED
  BY <1>5, <1>6, <1>7 DEF u

\* Calling Convert is a call.
LEMMA BeginCalls ==
  ASSUME TypeOK, NEW b \in BuildConfigs, Begin(b)
  PROVE  Promise!Call
<1>1. Len(Answered) = Len(results)
  BY AnswersListed DEF TypeOK
<1>2. Answered' = Answered
  BY DEF Begin, Answered
<1> QED
  BY <1>1, <1>2 DEF Begin, TypeOK, Promise!Call

\* Concluding it is an answer.
LEMMA ConcludeAnswers ==
  ASSUME TypeOK, Provision, Conclude
  PROVE  Promise!Answer
<1>1. PICK r :
        /\ results' = Append(results, r) /\ r.bc = bc
        /\ \/ r.state \in {"skipped", "failed"} /\ r.reason # Blank /\ r.resources = <<>>
           \/ /\ pc = "classify" /\ r.state \in {"converted", "converted-with-warnings"}
              /\ \E b : b.kind = "Build" /\ r.resources = <<b>> \o extra
  BY DEF Conclude
<1>2. bc # Nil /\ bc' = Nil
  BY DEF Conclude, TypeOK, Running
<1>3. Answered' = Append(Answered, AnswerOf(r))
  BY <1>1, AnsweredAppend DEF TypeOK
<1>4. AnswerOf(r) \in Promise!Answers(bc)
  <2>1. CASE r.state \in {"skipped", "failed"} /\ r.resources = <<>>
    <3>1. KindsOf(r.resources) = <<>>
      BY <2>1 DEF KindsOf
    <3> QED
      BY <1>1, <2>1, <3>1 DEF AnswerOf, Promise!Answers, Promise!Declined
  <2>2. CASE /\ pc = "classify" /\ r.state \in {"converted", "converted-with-warnings"}
             /\ \E b : b.kind = "Build" /\ r.resources = <<b>> \o extra
    <3>1. extra = <<>> \/ Account(extra) \/ Map(extra) \/ AccountAndMap(extra)
      BY <2>2 DEF Provision, Late, Early, Running, Steps
    <3>2. KindsOf(r.resources) \in Promise!Kinds
      BY <2>2, <3>1, BuildKinds
    <3> QED
      BY <1>1, <2>2, <3>2 DEF AnswerOf, Promise!Answers, Promise!Converted
  <2> QED
    BY <1>1, <2>1, <2>2
<1> QED
  BY <1>2, <1>3, <1>4 DEF Promise!Answer

\* Whatever is in a BuildConfig, Convert answers a call with one of four outcomes, and with the
\* resources that outcome allows in their order: the safety part of KeepsPromise.
THEOREM ConvertAnswers == Spec => Promise!Init /\ [][Promise!Next]_(Promise!vars)
<1>1. Init => Promise!Init
  <2> SUFFICES ASSUME Init PROVE Promise!Init
    OBVIOUS
  <2>1. results = <<>> /\ bc = Nil
    BY DEF Init
  <2>2. Answered = <<>>
    BY <2>1 DEF Answered
  <2> QED
    BY <2>1, <2>2 DEF Promise!Init
<1>2. TypeOK /\ Provision /\ [Next]_vars => [Promise!Next]_(Promise!vars)
  <2> SUFFICES ASSUME TypeOK, Provision, [Next]_vars
               PROVE  [Promise!Next]_(Promise!vars)
    OBVIOUS
  <2>1. CASE \E b \in BuildConfigs : Begin(b)
    BY <2>1, BeginCalls DEF Promise!Next
  <2>2. CASE Conclude
    BY <2>2, ConcludeAnswers DEF Promise!Next
  <2>3. CASE UNCHANGED <<bc, results>>
    BY <2>3 DEF Promise!vars, Answered
  <2> QED
    BY <2>1, <2>2, <2>3, StepAnswers
       DEF Next, AllConverted, vars, Quiet, Generate, Generates
<1> QED
  BY <1>1, <1>2, TypeCorrect, ProvisionAlways, PTL DEF Spec
=============================================================================
