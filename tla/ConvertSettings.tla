--------------------------- MODULE ConvertSettings ---------------------------
(***************************************************************************)
(* Steps 9 to 14 and 17 of Convert: the scheduling settings of the         *)
(* BuildConfig, the registry flags, and the resource requirements carried  *)
(* as a BuildRun template (buildconfig/converter.go, postcommit.go).       *)
(***************************************************************************)
EXTENDS ConvertState

\* A step that only edits the Build and warns.
Settle(b, messages) ==
  /\ build' = b
  /\ Warn(messages)
  /\ UNCHANGED <<i, extra, generatedSA, notices>>

-----------------------------------------------------------------------------
(* completionDeadlineSeconds becomes a timeout in nanoseconds.             *)

\* An int64 result: what does not fit wraps around.
Int64(n) == ((n + MaxInt64 + 1) % (2 * (MaxInt64 + 1))) - (MaxInt64 + 1)

maxTimeoutSeconds == MaxInt64 \div Second

\* A mistake the runs must notice: the deadline is multiplied without a check for overflow.
DeadlinePositive == bc.deadline > 0

DeadlineFits == bc.deadline > 0 /\ bc.deadline <= maxTimeoutSeconds

NoDeadline ==
  /\ Goto("deadline", "nodeSelector") /\ bc.deadline = Nil
  /\ Settle(build, <<>>)

MapDeadline ==
  /\ Goto("deadline", "nodeSelector") /\ bc.deadline # Nil /\ DeadlineFits
  /\ Settle([build EXCEPT !.timeout = Int64(bc.deadline * Second)], <<>>)

DropDeadline ==
  /\ Goto("deadline", "nodeSelector") /\ bc.deadline # Nil /\ ~DeadlineFits
  /\ Settle(build, W("DeadlineDropped", <<>>))

-----------------------------------------------------------------------------
(* nodeSelector: carried whole, or dropped whole when an entry is invalid. *)

validateNodeSelector(selector) ==
  \A k \in DOMAIN selector : {k, selector[k]} \cap InvalidLabels = {}

MapNodeSelector ==
  /\ Goto("nodeSelector", "runPolicy") /\ validateNodeSelector(bc.nodeSelector)
  /\ Settle([build EXCEPT !.nodeSelector = bc.nodeSelector], <<>>)

DropNodeSelector ==
  /\ Goto("nodeSelector", "runPolicy") /\ ~validateNodeSelector(bc.nodeSelector)
  /\ Settle(build, W("NodeSelectorDropped", <<>>))

-----------------------------------------------------------------------------
(* runPolicy: only Parallel survives, an absent one meant Serial.          *)

policy == IF bc.runPolicy = Blank THEN "Serial" ELSE bc.runPolicy

RunPolicy ==
  /\ Goto("runPolicy", "postCommit")
  /\ Settle(build, When(policy # "Parallel", W("RunPolicyDropped", <<policy>>)))

-----------------------------------------------------------------------------
(* postCommit: dropped, in whichever form it was written.                  *)

postCommitFormDescriptor(hook) ==
  CASE hook.script # Blank -> "script"
    [] hook.script = Blank /\ hook.command # <<>> -> "command"
    [] hook.script = Blank /\ hook.command = <<>> /\ hook.args # <<>> -> "args"
    [] OTHER -> Blank

PostCommitWarnings(hook) ==
  LET form == postCommitFormDescriptor(hook)
  IN  When(form # Blank, W("PostCommitDropped", <<form>>))
        \o When(hook.script # Blank /\ hook.command # <<>>, W("PostCommitAmbiguous", <<>>))

PostCommit ==
  /\ Goto("postCommit", "historyLimits")
  /\ Settle(build, PostCommitWarnings(bc.postCommit))

-----------------------------------------------------------------------------
(* The history limits become the retention block.                          *)

minRetentionLimit == 1
maxRetentionLimit == 10000

LimitFits(limit) == limit # Nil /\ limit >= minRetentionLimit /\ limit <= maxRetentionLimit
resolveRetentionLimit(limit) == IF LimitFits(limit) THEN limit ELSE Nil
\* A mistake the runs must notice: a limit below the range is dropped in silence.
HighLimitWarning(limit, field) ==
  When(limit # Nil /\ limit > maxRetentionLimit, W("LimitDropped", <<field>>))

LimitWarning(limit, field) ==
  When(limit # Nil /\ ~LimitFits(limit), W("LimitDropped", <<field>>))

HistoryLimits ==
  /\ Goto("historyLimits", "registries")
  /\ Settle([build EXCEPT !.succeededLimit = resolveRetentionLimit(bc.successfulLimit),
                          !.failedLimit = resolveRetentionLimit(bc.failedLimit)],
            LimitWarning(bc.successfulLimit, "successfulBuildsHistoryLimit")
              \o LimitWarning(bc.failedLimit, "failedBuildsHistoryLimit"))

-----------------------------------------------------------------------------
(* The registry flags.  A strategy-managed push reads a param, a           *)
(* Shipwright-managed one (source-to-image) reads spec.output.insecure.    *)

RegistryParam(name, list) == When(list # <<>>, Param(name, list))

\* A mistake the runs must notice: who pushes is told from the strategy type, not its name.
SourcePush(b) == bc.strategy.type = "Source"

ShipwrightPush(b) == b.strategy = "source-to-image"

\* slices.Contains: is the host the image is pushed to one of the insecure ones?
PushesInsecurely(b) ==
  \E k \in DOMAIN opts.insecure : imageRegistryHost(b.image) = <<opts.insecure[k]>>

RegistryParams(b) ==
  RegistryParam("registries-search", opts.search)
    \o RegistryParam("registries-insecure", IF ShipwrightPush(b) THEN <<>> ELSE opts.insecure)
    \o RegistryParam("registries-block", opts.block)

addRegistries ==
  /\ Goto("registries", "triggers")
  /\ Settle([WithParams(build, RegistryParams(build))
               EXCEPT !.insecure = ShipwrightPush(build) /\ PushesInsecurely(build)],
            <<>>)

-----------------------------------------------------------------------------
(* spec.resources: a BuildRun template in an annotation.                   *)

\* A mistake the runs must notice: a custom mapping gets the steps of the default strategy.
StepNamesOfType ==
  IF bc.strategy.type = "Docker" THEN <<"build-and-push">> ELSE <<"s2i-generate", "buildah">>

\* The steps of the two strategies of the catalog; none for a custom mapping.
StepNames ==
  CASE bc.strategy.type = "Docker" /\ build.strategy = "buildah" -> <<"build-and-push">>
    [] bc.strategy.type = "Source" /\ build.strategy = "source-to-image" ->
         <<"s2i-generate", "buildah">>
    [] OTHER -> <<>>

\* The generated account, else the named one; <<>> when the template names none.
TemplateAccount ==
  CASE generatedSA # <<>> -> generatedSA
    [] generatedSA = <<>> /\ bc.serviceAccount # Blank -> <<bc.serviceAccount>>
    [] OTHER -> <<>>

Template == [build |-> build.name, ns |-> build.ns,
             serviceAccount |-> TemplateAccount, steps |-> StepNames]

NoResources ==
  /\ Goto("resources", "classify") /\ ~bc.resources
  /\ Settle(build, <<>>)

Resources ==
  /\ Goto("resources", "classify") /\ bc.resources
  /\ Settle(Annotate(build, BuildRunTemplateAnnotation, Template),
            W(IF StepNames = <<>> THEN "StepResourcesOmitted" ELSE "ApplyTemplate",
              <<build.strategy>>))

\* The template passes through JSON and YAML before it is written on the Build.
TemplateUnserializable ==
  /\ pc = "resources" /\ SerializeErrors /\ bc.resources
  /\ Decline("failed", "SerializeTemplate", <<>>)

-----------------------------------------------------------------------------
SettingSteps ==
  \/ NoDeadline \/ MapDeadline \/ DropDeadline
  \/ MapNodeSelector \/ DropNodeSelector
  \/ RunPolicy \/ PostCommit \/ HistoryLimits \/ addRegistries
  \/ NoResources \/ Resources \/ TemplateUnserializable
=============================================================================
