--------------------------- MODULE ConvertStrategy ---------------------------
(***************************************************************************)
(* Steps 2 and 3 of Convert: the build strategy with its image, params,    *)
(* build args and volumes, and the gate that declines a BuildConfig with   *)
(* no output image (buildconfig/converter.go, processDockerStrategy,       *)
(* processSourceStrategy, processStrategyVolumes).                         *)
(***************************************************************************)
EXTENDS ConvertState

defaultDockerStrategy == "buildah"
defaultS2IStrategy == "source-to-image"

\* --default-build-strategy, where it names a usable override.
StrategyName(key, default) ==
  IF key \in DOMAIN opts.strategyMapping /\ opts.strategyMapping[key] # Blank
  THEN opts.strategyMapping[key] ELSE default

Docker == bc.strategy.docker
S2I == bc.strategy.source

Named(key, default) == [build EXCEPT !.strategy = StrategyName(key, default)]

\* The param and the warning for a strategy image, when the strategy names one.
ImageParam(name, ref) == When(NamesImage(ref), Param(name, Resolve(bc, ref).image))
ImageWarning(ref) ==
  When(NamesImage(ref) /\ Resolve(bc, ref).warning # Blank, W(Resolve(bc, ref).warning, ref.name))
\* A mistake the runs must notice: an image without a name is looked up all the same.
CannotResolveUnnamed(ref) == ref # Nil /\ ~Resolve(bc, ref).ok

CannotResolve(ref) == NamesImage(ref) /\ ~Resolve(bc, ref).ok

SwitchParam(name, on, value) == When(on, Param(name, value))

-----------------------------------------------------------------------------
(* Docker strategy.                                                        *)

DockerParams(d) ==
  ImageParam("runtime-stage-from", d.from)
    \o SwitchParam("no-cache", d.noCache, <<"true">>)
    \o SwitchParam("pull", d.forcePull, <<"always">>)
    \o SwitchParam("dockerfile", d.dockerfilePath # Blank, <<d.dockerfilePath>>)

DockerStrategy ==
  /\ Goto("strategy", "buildArgs") /\ bc.strategy.type = "Docker" /\ Docker # Nil
  /\ ~CannotResolve(Docker.from)
  /\ build' = [WithParams(Named("docker", defaultDockerStrategy), DockerParams(Docker))
                EXCEPT !.env = @ \o Docker.env]
  /\ Warn(ImageWarning(Docker.from))
  /\ UNCHANGED <<i, extra, generatedSA, notices>>

\* spec.strategy.dockerStrategy may be absent: the strategy is named and nothing else.
BareDockerStrategy ==
  /\ Goto("strategy", "gate") /\ bc.strategy.type = "Docker" /\ Docker = Nil
  /\ build' = Named("docker", defaultDockerStrategy)
  /\ UNCHANGED <<i, warnings, extra, generatedSA, notices>>

DockerImageUnresolvable ==
  /\ pc = "strategy" /\ bc.strategy.type = "Docker" /\ Docker # Nil
  /\ CannotResolve(Docker.from)
  /\ Decline("failed", "DockerFrom", <<>>)

-----------------------------------------------------------------------------
(* Docker build args, one iteration of the loop per action.                *)

Arg == Docker.buildArgs[i]
MoreArgs == pc = "buildArgs" /\ i <= Len(Docker.buildArgs)

\* A name that would corrupt NAME=VALUE or an ObjectKeyRef format.
validBuildArgName(name) ==
  name # <<>> /\ \A k \in DOMAIN name : name[k] \notin {"=", "$", "{", "}", " ", "\n"}

\* The key reference in use: a ConfigMap's is looked at before a Secret's.
KeyRef(source) == IF source.configMap # Nil THEN source.configMap ELSE source.secret

ArgValue(name, source, value) == <<[name |-> name, source |-> source, value |-> value]>>

ArgDone(values, messages) ==
  /\ build' = [build EXCEPT !.buildArgs = @ \o values]
  /\ Warn(messages)
  /\ i' = i + 1
  /\ UNCHANGED <<pc, extra, generatedSA, notices>> /\ UNCHANGED call

\* Both a value and a valueFrom: reported, and the literal is ignored.
BothWarning(arg) == When(arg.from # Nil /\ arg.value # Blank, W("ArgValueIgnored", arg.name))

SkipInvalidArg ==
  /\ MoreArgs /\ ~validBuildArgName(Arg.name)
  /\ ArgDone(<<>>, W("ArgSkipped", Arg.name))

LiteralArg ==
  /\ MoreArgs /\ validBuildArgName(Arg.name) /\ Arg.from = Nil
  /\ ArgDone(ArgValue(Arg.name, "literal", Arg.value), <<>>)

\* A ConfigMap or Secret key, resolved by Shipwright when the BuildRun runs.
MapArg ==
  /\ MoreArgs /\ validBuildArgName(Arg.name) /\ Arg.from # Nil
  /\ KeyRef(Arg.from) # Nil
  /\ LET ref == KeyRef(Arg.from)
         source == IF Arg.from.configMap # Nil THEN "configMap" ELSE "secret"
         empty == ref.name = Blank \/ ref.key = Blank
     IN  ArgDone(When(~empty, ArgValue(Arg.name, source, ref.name)),
                 BothWarning(Arg)
                   \o When(empty, W("ArgSkipped", Arg.name))
                   \o When(~empty /\ ref.optional, W("ArgOptional", Arg.name)))

\* A mistake the runs must notice: an arg is skipped in silence.
SkipUnmappableArgSilently ==
  /\ MoreArgs /\ validBuildArgName(Arg.name) /\ Arg.from # Nil
  /\ KeyRef(Arg.from) = Nil
  /\ ArgDone(<<>>, BothWarning(Arg))

\* fieldRef, resourceFieldRef, or a valueFrom with nothing in it.
SkipUnmappableArg ==
  /\ MoreArgs /\ validBuildArgName(Arg.name) /\ Arg.from # Nil
  /\ KeyRef(Arg.from) = Nil
  /\ ArgDone(<<>>, BothWarning(Arg) \o W("ArgSkipped", Arg.name))

\* The collected values are the build-args param; then the squash policy.
BuildArgsDone ==
  /\ Goto("buildArgs", "volumes") /\ i > Len(Docker.buildArgs)
  /\ build' = WithParams(build,
                SwitchParam("build-args", build.buildArgs # <<>>, <<>>)
                  \o SwitchParam("squash",
                       Docker.optimization \in {"SkipLayers", "SkipLayersAndWarn"}, <<"true">>))
  /\ i' = 1
  /\ UNCHANGED <<warnings, extra, generatedSA, notices>>

-----------------------------------------------------------------------------
(* Source strategy.                                                        *)

\* An empty kind is an ImageStreamTag here, unlike on a Docker strategy.
S2IFrom == [S2I.from EXCEPT !.kind = IF @ = Blank THEN "ImageStreamTag" ELSE @]

S2IParams(s) ==
  ImageParam("builder-image", S2IFrom)
    \o SwitchParam("scripts-url", s.scripts # Blank, <<s.scripts>>)
    \o SwitchParam("incremental", s.incremental, <<"true">>)
    \o SwitchParam("pull-policy", s.forcePull, <<"always">>)

SourceStrategy ==
  /\ Goto("strategy", "volumes") /\ bc.strategy.type = "Source" /\ S2I # Nil
  /\ ~CannotResolve(S2IFrom)
  /\ build' = [WithParams(Named("s2i", defaultS2IStrategy), S2IParams(S2I))
                EXCEPT !.env = @ \o S2I.env]
  /\ Warn(ImageWarning(S2IFrom)
            \o When(S2I.incremental, W("Incremental", <<>>)))
  /\ UNCHANGED <<i, extra, generatedSA, notices>>

BareSourceStrategy ==
  /\ Goto("strategy", "gate") /\ bc.strategy.type = "Source" /\ S2I = Nil
  /\ build' = Named("s2i", defaultS2IStrategy)
  /\ UNCHANGED <<i, warnings, extra, generatedSA, notices>>

SourceImageUnresolvable ==
  /\ pc = "strategy" /\ bc.strategy.type = "Source" /\ S2I # Nil
  /\ CannotResolve(S2IFrom)
  /\ Decline("failed", "SourceFrom", <<>>)

-----------------------------------------------------------------------------
(* Strategies with no Shipwright counterpart.                              *)

UnsupportedStrategy ==
  /\ pc = "strategy" /\ bc.strategy.type \in {"Custom", "JenkinsPipeline"}
  /\ Decline("skipped", bc.strategy.type, W("PassedThrough", bc.name))

UnknownStrategy ==
  /\ pc = "strategy"
  /\ bc.strategy.type \notin {"Docker", "Source", "Custom", "JenkinsPipeline"}
  /\ Decline("failed", "UnknownStrategy", <<>>)

-----------------------------------------------------------------------------
(* Volumes of either strategy, one iteration of the loop per action.       *)

Volumes == IF bc.strategy.type = "Docker" THEN Docker.volumes ELSE S2I.volumes
Volume == Volumes[i]
MoreVolumes == pc = "volumes" /\ i <= Len(Volumes)

\* A mistake the runs must notice: a volume claims its name whether or not it was converted.
seenBefore == {Volumes[k].name : k \in 1..(i - 1)}

\* The names already converted: a volume skipped for its source does not claim its name.
seen == {build.volumes[k].name : k \in DOMAIN build.volumes}

\* convertBuildVolumeSource: a Secret or ConfigMap type whose source is there.
Convertible(volume) == volume.type \in {"Secret", "ConfigMap"} /\ volume.source # Nil

VolumeDone(messages) ==
  /\ Warn(messages)
  /\ i' = i + 1
  /\ UNCHANGED <<pc, extra, generatedSA, notices>> /\ UNCHANGED call

ConvertVolume ==
  /\ MoreVolumes
  /\ Volume.name # Blank /\ Volume.name \notin seen /\ Convertible(Volume)
  /\ build' = [build EXCEPT !.volumes =
                 Append(@, [name |-> Volume.name, type |-> Volume.type, source |-> Volume.source])]
  /\ VolumeDone(W("VolumeConverted", <<Volume.name>>))

SkipVolume ==
  /\ MoreVolumes
  /\ Volume.name = Blank \/ Volume.name \in seen \/ ~Convertible(Volume)
  /\ VolumeDone(W("VolumeSkipped", <<Volume.name>>))
  /\ UNCHANGED build

\* Shipwright rejects the Build until its strategy declares the converted volumes.
VolumesDone ==
  /\ Goto("volumes", "gate") /\ i > Len(Volumes)
  /\ Warn(When(build.volumes # <<>>, W("VolumesRejected", <<>>)))
  /\ i' = 1
  /\ UNCHANGED <<build, extra, generatedSA, notices>>

-----------------------------------------------------------------------------
(* The output gate.                                                        *)

PassGate ==
  /\ Goto("gate", "serviceAccount") /\ NamesImage(bc.output.to)
  /\ UNCHANGED <<i, warnings, build, extra, generatedSA, notices>>

\* A mistake the runs must notice: the gate is asked before the strategy as well as after it.
NoOutputAskedFirst ==
  /\ pc \in {"strategy", "gate"} /\ ~NamesImage(bc.output.to)
  /\ Decline("skipped", "NoOutputImage", W("PassedThrough", bc.name))

NoOutputImage ==
  /\ pc = "gate" /\ ~NamesImage(bc.output.to)
  /\ Decline("skipped", "NoOutputImage", W("PassedThrough", bc.name))

-----------------------------------------------------------------------------
StrategySteps ==
  \/ DockerStrategy \/ BareDockerStrategy \/ DockerImageUnresolvable
  \/ SkipInvalidArg \/ LiteralArg \/ MapArg \/ SkipUnmappableArg \/ BuildArgsDone
  \/ SourceStrategy \/ BareSourceStrategy \/ SourceImageUnresolvable
  \/ UnsupportedStrategy \/ UnknownStrategy
  \/ ConvertVolume \/ SkipVolume \/ VolumesDone
  \/ PassGate \/ NoOutputImage
=============================================================================
