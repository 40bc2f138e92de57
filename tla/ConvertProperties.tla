-------------------------- MODULE ConvertProperties --------------------------
(***************************************************************************)
(* What a conversion must get right, stated on what Convert returned: the  *)
(* resources it hands to crane, the outcome, and the warnings.  None of    *)
(* them is about one step: each relates a BuildConfig to the Build that    *)
(* replaces it, or a result to the results before it.  What is asked of    *)
(* one result is a predicate of it, right before the property.             *)
(***************************************************************************)
EXTENDS Convert

Returned == {results[k] : k \in DOMAIN results}
Replaced == {r \in Returned : r.state \in {"converted", "converted-with-warnings"}}

BuildOf(r) == r.resources[1].build
OfKind(r, kind) == {r.resources[k] : k \in {k \in DOMAIN r.resources : r.resources[k].kind = kind}}

\* The messages of a list with one of some ids.
At(s, ids) == {k \in DOMAIN s : s[k].id \in ids}

\* The warnings with an id that a call recorded, and the objects they name.
Raised(r, id) == At(r.recorded, {id})
Names(r, id) == {r.recorded[k].about : k \in Raised(r, id)}

Annotations(r) == BuildOf(r).annotations
Has(r, key) == key \in DOMAIN Annotations(r)

-----------------------------------------------------------------------------
(* Outcomes (outcome.go, Convert's step 18).                               *)

\* Every warning a conversion records, the truncation notice included, is in the list it returns.
WarningsComplete == \A r \in Replaced : r.warnings = r.recorded

RecordsAgree(r) ==
  /\ (r.state = "converted-with-warnings") = (r.recorded # <<>>)
  /\ Annotations(r)[ConversionOutcomeAnnotation] = r.state
  /\ r.recorded # <<>> =>
       LET note == Annotations(r)[ConversionWarningsAnnotation] IN
       /\ IsPrefix(note.kept, r.recorded)
       /\ note.omitted > 0 => Raised(r, "WarningsOmitted") # {}
       \* The notice itself is never in the annotation it announces.
       /\ Len(note.kept) + note.omitted
            + Cardinality(Raised(r, "WarningsOmitted")) = Len(r.recorded)

\* The three records of an outcome agree: the state Convert returns, the warnings it returns
\* with it, and the annotations on the Build.  A warning is in all three or in none, the
\* truncation notice included, and the annotation accounts for every warning it leaves out.
OutcomeRecordsAgree == WarningsComplete /\ \A r \in Replaced : RecordsAgree(r)

\* On a Converter that converts several BuildConfigs, a warning is attributed to the BuildConfig
\* it was raised for, and none is recorded between calls, when there is none to attribute it to
\* (curNS and curName, cleared by the deferred function on every return path).
WarningsBelong ==
  /\ \A r \in Returned : \A k \in DOMAIN r.recorded : r.recorded[k].bc = Identity(r.bc)
  /\ pc = "idle" => cur = Nil

\* A Converter that has converted other BuildConfigs answers as a fresh one does: what Convert
\* returns for a BuildConfig is the same at every place in the sequence of calls, with the calls
\* before it and between two conversions of it whatever they are (startWarnings, c.warnings).
HistoryIndependent ==
  \A first, again \in DOMAIN results :
    results[first].bc = results[again].bc /\ ~SerializeErrors => results[first] = results[again]

\* A BuildConfig that is skipped or failed stays in the migration as it is, so nothing that was
\* generated for it may be emitted: no ServiceAccount or ConfigMap without the Build it serves,
\* whichever step declined it and whatever was generated before.
NoOrphanResources ==
  \A r \in Returned \ Replaced : r.resources = <<>> /\ r.reason # Blank

-----------------------------------------------------------------------------
(* Credentials (step 4, and the template of step 17).                      *)

PullSecretKept(r) ==
  LET accounts == OfKind(r, "ServiceAccount")
      template == Annotations(r)[BuildRunTemplateAnnotation]
  IN  IF r.bc.serviceAccount = Blank
      THEN \E sa \in accounts :
             /\ accounts = {sa} /\ sa.secret = getPullSecret(r.bc)
             /\ r.bc.resources => template.serviceAccount = sa.name
      ELSE /\ accounts = {}
           /\ <<r.bc.serviceAccount>> \in Names(r, "LinkPullSecret")
           /\ r.bc.resources => template.serviceAccount = <<r.bc.serviceAccount>>

\* A pull secret still reaches the build: through a generated account that carries it and that
\* the BuildRun template names, or, when the BuildConfig names an account, through a warning
\* that says to link it, and then no account is emitted that could replace the named one.
PullSecretReachesBuild == \A r \in Replaced : getPullSecret(r.bc) # Nil => PullSecretKept(r)

-----------------------------------------------------------------------------
(* The strategy's lists (step 2).                                          *)

VolumesOf(b) == IF b.strategy.type = "Docker" THEN b.strategy.docker.volumes
                ELSE b.strategy.source.volumes
HasStrategy(b) == IF b.strategy.type = "Docker" THEN b.strategy.docker # Nil
                  ELSE b.strategy.source # Nil

ArgsAccounted(r) ==
  LET given == r.bc.strategy.docker.buildArgs
      carried == BuildOf(r).buildArgs
  IN  /\ Len(carried) + Cardinality(Raised(r, "ArgSkipped")) = Len(given)
      /\ \E position \in [DOMAIN carried -> DOMAIN given] :
           /\ \A j, k \in DOMAIN carried : j < k => position[j] < position[k]
           /\ \A k \in DOMAIN carried : carried[k].name = given[position[k]].name
           /\ \A j \in DOMAIN given :
                \/ \E k \in DOMAIN carried : position[k] = j
                \/ given[j].name \in Names(r, "ArgSkipped")

\* Every build arg is carried or reported as skipped, never both and never neither, and the
\* carried ones are in the order given, which decides which of two args of a name wins.
BuildArgsPartition ==
  \A r \in Replaced : r.bc.strategy.type = "Docker" /\ HasStrategy(r.bc) => ArgsAccounted(r)

VolumesKept(r) ==
  LET given == VolumesOf(r.bc)
      converted == BuildOf(r).volumes
      usable == {k \in DOMAIN given : given[k].name # Blank /\ Convertible(given[k])}
  IN  /\ \A j, k \in DOMAIN converted : converted[j].name = converted[k].name => j = k
      /\ \A j \in DOMAIN converted :
           \E k \in usable :
             /\ converted[j] = [name |-> given[k].name, type |-> given[k].type,
                                source |-> given[k].source]
             /\ \A l \in usable : given[l].name = given[k].name => k <= l
      /\ \A k \in usable : \E j \in DOMAIN converted : converted[j].name = given[k].name
      /\ Cardinality(Raised(r, "VolumeConverted")) = Len(converted)
      /\ Cardinality(Raised(r, "VolumeSkipped")) = Len(given) - Len(converted)
      /\ (Raised(r, "VolumesRejected") # {}) = (converted # <<>>)

\* Shipwright matches volumes by name: the converted names are distinct, each is the first
\* volume of that name that could be converted, every other volume is reported, and the summary
\* that says the Build will be rejected is there exactly when a volume was converted.
VolumesUnambiguous == \A r \in Replaced : HasStrategy(r.bc) => VolumesKept(r)

-----------------------------------------------------------------------------
(* Nothing is lost in silence (outcome.go 48-53).                          *)

\* A label is carried under its name with the value given last, and any other value it was given
\* is reported; a label without a name is not carried.
LabelsKept(r) ==
  LET given == r.bc.output.imageLabels
      carried == BuildOf(r).imageLabels
  IN  /\ DOMAIN carried = {l.name : l \in ToSet(given)} \ {Blank}
      /\ \A k \in DOMAIN given : given[k].name # Blank =>
           LET name == given[k].name IN
           \/ carried[name] = given[k].value
           \/ /\ <<name>> \in Names(r, "LabelOverridden")
              /\ \E j \in DOMAIN given : k < j /\ given[j].name = name

\* A history limit is lost when the Build does not have the one the BuildConfig had.
LimitLost(limit, kept) == IF limit # kept THEN 1 ELSE 0

SettingsKept(r) ==
  LET b == r.bc
      built == BuildOf(r)
  IN  /\ b.deadline # Nil /\ built.timeout = Nil => Raised(r, "DeadlineDropped") # {}
      /\ b.nodeSelector # built.nodeSelector => Raised(r, "NodeSelectorDropped") # {}
      /\ Cardinality(Raised(r, "LimitDropped"))
           = LimitLost(b.successfulLimit, built.succeededLimit)
               + LimitLost(b.failedLimit, built.failedLimit)
      /\ b.postCommit.script # Blank \/ b.postCommit.command # <<>> \/ b.postCommit.args # <<>>
           => Raised(r, "PostCommitDropped") # {}
      /\ b.resources => Has(r, BuildRunTemplateAnnotation)

\* What a setting asks for and the Build does not carry is reported, field by field: read off
\* the two objects, not off the steps.
SettingLossesReported == \A r \in Replaced : SettingsKept(r) /\ LabelsKept(r)

DockerfileKept(r) ==
  r.bc.source.dockerfile # Blank =>
    \/ Raised(r, "InlineDockerfileDropped") # {}
    \/ \E cm \in OfKind(r, "ConfigMap") :
         /\ cm.content = r.bc.source.dockerfile
         /\ cm.annotations[ConvertedFromAnnotation] = r.bc.name
         /\ Has(r, InlineDockerfileConfigMapAnnotation)
         /\ Annotations(r)[InlineDockerfileConfigMapAnnotation] = cm.name

SourceSecretKept(r) ==
  r.bc.source.sourceSecret \notin {Nil, Blank} =>
    \/ Raised(r, "SourceSecretDropped") # {}
    \/ r.bc.source.git # Nil /\ BuildOf(r).source.secret = r.bc.source.sourceSecret

\* An inline Dockerfile survives in a ConfigMap the Build points at and that says which
\* BuildConfig it was in, or its loss is reported; a clone secret reaches the Build's source, or
\* its loss is reported.
SourceLossesReported ==
  \A r \in Replaced : DockerfileKept(r) /\ SourceSecretKept(r)

DropWarnings == {"WebhookDropped", "ImageChangeDropped", "ImageChangeDroppedRunOrder",
                 "ConfigChangeManual", "ConfigChangeTemplate", "UnknownTriggerDropped"}

TriggersKept(r) ==
  LET kept == Annotations(r)[OriginalTriggersAnnotation] IN
  /\ Cardinality(At(r.recorded, DropWarnings)) = Len(r.bc.triggers)
  /\ Len(kept) = Len(r.bc.triggers)
  /\ \A k \in DOMAIN kept :
       /\ kept[k].type = r.bc.triggers[k].type
       /\ "secret" \notin DOMAIN kept[k]
       /\ kept[k].imageChange # Nil => "lastTriggeredImageID" \notin DOMAIN kept[k].imageChange

\* Each trigger is lost with a warning of its own and kept, in its place, in the record on the
\* Build, from which no inline webhook secret and no last triggered image can be read.
TriggersAccounted == \A r \in Replaced : r.bc.triggers # <<>> => TriggersKept(r)

SourceKept(r) ==
  LET source == BuildOf(r).source
      kinds == Kinds(r.bc.source)
  IN  /\ (kinds = {}) = (Raised(r, "NoSource") # {})
      /\ kinds = {} => source = Nil
      /\ kinds # {} =>
           /\ kinds = {CASE source.type = "Git" -> "git"
                         [] source.type = "Local" -> "binary"
                         [] OTHER -> "images"}
           /\ source.contextDir = r.bc.source.contextDir
           /\ Cardinality(Raised(r, "ConfigMapMount")) = Len(r.bc.source.configMaps)
           /\ Cardinality(Raised(r, "SecretMount")) = Len(r.bc.source.secrets)

\* A Build has a source exactly when its BuildConfig had one, and a warning says so exactly when
\* it has none: a conversion never replaces one kind of source by another or by nothing.
SourceFaithful == \A r \in Replaced : SourceKept(r)

\* README.md: "Every field the plugin reads and then drops or changes produces a warning".
\* The context directory and the mounted objects of a BuildConfig that has no source are
\* dropped by processSource's early return, and no warning names them.
ContextLossReported ==
  \A r \in Replaced : BuildOf(r).source = Nil =>
    /\ Len(r.bc.source.configMaps) = Cardinality(Raised(r, "ConfigMapMount"))
    /\ Len(r.bc.source.secrets) = Cardinality(Raised(r, "SecretMount"))

-----------------------------------------------------------------------------
(* What the target cluster accepts (steps 9, 10, 13, 14 and 17).           *)

Admissible(r) ==
  LET built == BuildOf(r)
      inRange(limit) == limit = Nil \/ (limit > 0 /\ limit < 10001)
  IN  /\ built.timeout # Nil =>
           /\ built.timeout > 0 /\ built.timeout % Second = 0
           /\ built.timeout \div Second = r.bc.deadline
      /\ inRange(built.succeededLimit) /\ inRange(built.failedLimit)
      /\ \A k \in DOMAIN built.nodeSelector :
           k \notin InvalidLabels /\ built.nodeSelector[k] \notin InvalidLabels
      /\ Blank \notin DOMAIN built.imageLabels
      /\ \A k \in DOMAIN r.resources :
           r.resources[k].name \notin DOMAIN Rewritten /\ r.resources[k].ns = r.bc.ns

\* A converted Build holds only values Shipwright's validation accepts, and the timeout is the
\* deadline: no int64 overflow turns a long deadline into a short or a negative timeout.
BuildAdmissible == \A r \in Replaced : Admissible(r)

InsecureMarked(r) ==
  LET built == BuildOf(r)
      param == \E k \in DOMAIN built.params : built.params[k].name = "registries-insecure"
      listed == \E k \in DOMAIN opts.insecure :
                  imageRegistryHost(built.image) = <<opts.insecure[k]>>
  IN  IF built.strategy = "source-to-image"
      THEN ~param /\ built.insecure = listed
      ELSE ~built.insecure /\ (listed => param)

\* A push to a registry the user listed as insecure is marked insecure in the one way the
\* strategy of the Build reads: the param, or spec.output.insecure; source-to-image, which does
\* not declare the param, is never given it, and no other registry is pushed to insecurely.
InsecureRouted == \A r \in Replaced : InsecureMarked(r)

TemplateFits(r) ==
  LET template == Annotations(r)[BuildRunTemplateAnnotation]
      strategy == BuildOf(r).strategy
      steps == ToSet(template.steps)
  IN  /\ steps # {} => \/ strategy = "buildah" /\ steps = {"build-and-push"}
                       \/ strategy = "source-to-image" /\ steps = {"s2i-generate", "buildah"}
      /\ steps = {} <=> Raised(r, "StepResourcesOmitted") # {}
      /\ template.build = BuildOf(r).name

\* The BuildRun template overrides the resources of steps by name, so it may name only the steps
\* of the strategy the Build uses: those of the catalog's strategy for this type, or none, and
\* then a warning asks the user for them. A custom strategy's steps are not known.  A Build whose
\* BuildConfig sets no resources has no template, unless the BuildConfig was annotated with one.
TemplateStepsExist ==
  \A r \in Replaced :
    /\ r.bc.resources => Has(r, BuildRunTemplateAnnotation) /\ TemplateFits(r)
    /\ Has(r, BuildRunTemplateAnnotation) =>
         r.bc.resources \/ BuildRunTemplateAnnotation \in DOMAIN r.bc.annotations

-----------------------------------------------------------------------------
(* Chained builds (steps 7, 15 and 16; ADR-0009).                          *)

\* The image inputs of a conversion, with their namespaces and kinds.
Inputs(b) ==
  {Defaulted(b, ref) : ref \in {ref \in {StrategyImage(b)} : NamesImage(ref)}}
    \union {SoleImageRef(b) : n \in {n \in {1} : Len(b.source.images) = 1
                                                 /\ ImageOf(b).name # <<>>}}
ResolvedTo(b, ref) == Resolve(b, ref).image

\* A warning of this conversion already gives the run order for the input ref.
OrderWarned(r, ref) ==
  \/ ref.name \in Names(r, "ImageChangeDroppedRunOrder")
  \/ Raised(r, "PathsDroppedRunOrder") # {} /\ ref = SoleImageRef(r.bc)

Chained(r) == {ref \in Inputs(r.bc) : chainCandidate(r.bc, ref)}

RunOrderGiven(r) ==
  LET alone == {ResolvedTo(r.bc, ref) : ref \in {ref \in Chained(r) : ~OrderWarned(r, ref)}}
  IN  /\ ToSet(r.notices) = alone
      /\ Cardinality(alone) = Len(r.notices)

\* Each image input of the BuildConfig's own namespace is given a run order exactly once: by a
\* warning about it, or by one line of its own.  An input from elsewhere is given none, and no
\* line is printed twice (ADR-0009, "one notice per image").
RunOrderSaidOnce == \A r \in Replaced : RunOrderGiven(r)

\* docs/adr/0009-chained-builds-per-buildconfig-notice.md: "An image a warning already names,
\* the dropped ImageChange trigger or the source.images paths warning, gets no info line."
\* Stated on the paths warning, which names the resolved image as a line does.  The code
\* compares ImageStreamTags (chainKey), and two of them may be mapped to one image.
ImageNamedOnce ==
  \A r \in Replaced : ToSet(r.notices) \cap Names(r, "PathsDroppedRunOrder") = {}

\* The image the strategy in use builds on: without a kind, it is an ImageStreamTag to
\* Source-to-Image only.
FromOf(b) ==
  IF b.strategy.type = "Docker" THEN b.strategy.docker.from
  ELSE [b.strategy.source.from EXCEPT !.kind = IF @ = Blank THEN "ImageStreamTag" ELSE @]

FromParam(b) == IF b.strategy.type = "Docker" THEN "runtime-stage-from" ELSE "builder-image"

\* Does the BuildConfig b push the ImageStreamTag that ref, of the BuildConfig c, names?
Pushes(b, c, ref) ==
  /\ b.output.to.kind = "ImageStreamTag" /\ ref.kind = "ImageStreamTag"
  /\ NamespaceOf(c, ref) = NamespaceOf(b, b.output.to)
  /\ ref.name = OutputTag(b.output.to.name)

Meet(producer, consumer) ==
  LET b == consumer.bc
      built == BuildOf(consumer)
      image == BuildOf(producer).image
  IN  /\ HasStrategy(b) /\ NamesImage(FromOf(b)) /\ Pushes(producer.bc, b, FromOf(b)) =>
           \E k \in DOMAIN built.params :
             built.params[k].name = FromParam(b) /\ built.params[k].value = image
      /\ Kinds(b.source) = {"images"} /\ Pushes(producer.bc, b, ImageOf(b)) =>
           built.source.ref = image

\* The two ends of a chain still meet: when one BuildConfig pushes an ImageStreamTag that
\* another builds from, the image in the consumer's Build is the one the producer's Build
\* pushes, whatever the flags rewrite (processOutput and resolveImageRef are separate code).
ChainedBuildsMeet == \A producer, consumer \in Replaced : Meet(producer, consumer)

-----------------------------------------------------------------------------
(* The decision: what is wrong with a BuildConfig, read off it alone.      *)

\* Neither the flags nor its name decide whether an image can be resolved.
UnknownKind(ref) == ref.kind \notin {"DockerImage", "ImageStreamTag", "ImageStreamImage"}

StrategyObstacle(b) ==
  CASE b.strategy.type \in {"Custom", "JenkinsPipeline"} -> b.strategy.type
    [] b.strategy.type \notin {"Docker", "Source", "Custom", "JenkinsPipeline"} ->
         "UnknownStrategy"
    [] /\ b.strategy.type \in {"Docker", "Source"}
       /\ HasStrategy(b) /\ NamesImage(FromOf(b)) /\ UnknownKind(FromOf(b)) ->
         IF b.strategy.type = "Docker" THEN "DockerFrom" ELSE "SourceFrom"
    [] OTHER -> Blank

OutputObstacle(b) == IF NamesImage(b.output.to) THEN Blank ELSE "NoOutputImage"

SourceObstacle(b) ==
  LET kinds == Kinds(b.source)
      count == Len(b.source.images)
  IN  CASE Cardinality(kinds) > 1 -> "MultipleSources"
        [] kinds = {"binary"} /\ b.source.binary.asFile = Blank -> "BinaryArchive"
        [] kinds = {"images"} /\ count > 1 -> "MultipleImages"
        [] kinds = {"images"} /\ count = 1 /\ UnknownKind(ImageOf(b)) -> "ImageSource"
        [] OTHER -> Blank

\* The first obstacle a conversion meets, Blank when there is none.
Verdict(b) ==
  CASE StrategyObstacle(b) # Blank -> StrategyObstacle(b)
    [] StrategyObstacle(b) = Blank /\ OutputObstacle(b) # Blank -> OutputObstacle(b)
    [] OTHER -> SourceObstacle(b)

\* What has no counterpart in Shipwright is skipped, what cannot be carried over failed.
StatesOf(reason) ==
  CASE reason = Blank -> {"converted", "converted-with-warnings"}
    [] reason \in {"Custom", "JenkinsPipeline", "NoOutputImage"} -> {"skipped"}
    [] OTHER -> {"failed"}

SerializeReasons ==
  {"SerializeServiceAccount", "SerializeConfigMap", "SerializeTemplate", "SerializeBuild"}

Decided(b, state, reason) ==
  IF reason \in SerializeReasons
  THEN /\ SerializeErrors /\ state = "failed"
       /\ StrategyObstacle(b) = Blank /\ OutputObstacle(b) = Blank
  ELSE reason = Verdict(b) /\ state \in StatesOf(reason)

\* Whether a BuildConfig is converted, and if not why, is decided by its strategy, its output and
\* its source: by no flag, no annotation of an earlier migration and no conversion before it.  Of
\* several obstacles it is the first, and without one nothing but serialization can fail.
OutcomeDecided == \A r \in Returned : Decided(r.bc, r.state, r.reason)
=============================================================================
