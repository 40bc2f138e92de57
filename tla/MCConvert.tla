------------------------------ MODULE MCConvert ------------------------------
(***************************************************************************)
(* Small instances of Convert.  A run converts the BuildConfigs of one     *)
(* family: a plain BuildConfig with the fields its question is about       *)
(* varied together and the others left alone.                              *)
(***************************************************************************)
EXTENDS ConvertProperties

CONSTANT MaxLoop   \* bound: the longest list a conversion loops over

ListsUpTo(max, S) == UNION {[1..n -> S] : n \in 0..max}
Lists(S) == ListsUpTo(MaxLoop, S)

-----------------------------------------------------------------------------
(* References and names.                                                   *)

App == <<"app">>
Tag(name, tag) == <<name, ":", tag>>
IST(ns, name) == Ref("ImageStreamTag", ns, name)
NoRef == Ref("", "", <<>>)

\* Two names that are no DNS-1123 labels, as a BuildConfig name and as its ConfigMap's.
MCRewritten ==
  (<<"My.App">> :> <<"my-app-", "8f2a61c0">>)
    @@ (<<"My.App", "-dockerfile">> :> <<"my-app-dockerfile-", "17bd04e9">>)

\* 16-nanosecond seconds and 8-bit integers: 7 seconds is the longest timeout.
MCSecond == 16
MCMaxInt64 == 127

MCNotice == [n \in 0..MaxWarnings |-> IF n < 10 THEN 4 ELSE 5]

-----------------------------------------------------------------------------
(* A plain BuildConfig: git source, ImageStreamTag output, nothing lost.   *)

DockerPlain ==
  [from |-> Nil, pullSecret |-> Nil, noCache |-> FALSE, env |-> <<>>, forcePull |-> FALSE,
   dockerfilePath |-> "", buildArgs |-> <<>>, optimization |-> Nil, volumes |-> <<>>]
SourcePlain ==
  [from |-> IST("", Tag("node", "18")), pullSecret |-> Nil, env |-> <<>>, scripts |-> "",
   incremental |-> FALSE, forcePull |-> FALSE, volumes |-> <<>>]

OnDocker(d) == [type |-> "Docker", docker |-> d, source |-> Nil]
OnSource(s) == [type |-> "Source", docker |-> Nil, source |-> s]

GitPlain ==
  [uri |-> "https://git/app", ref |-> "", httpProxy |-> "", httpsProxy |-> "", noProxy |-> ""]
SourceSpec ==
  [git |-> GitPlain, binary |-> Nil, images |-> <<>>, sourceSecret |-> Nil, contextDir |-> "",
   configMaps |-> <<>>, secrets |-> <<>>, dockerfile |-> ""]

Plain ==
  [ns |-> "shop", name |-> App, labels |-> EmptyMap, annotations |-> EmptyMap,
   strategy |-> OnDocker(DockerPlain), source |-> SourceSpec,
   output |-> [to |-> IST("", Tag("app", "v1")), pushSecret |-> "push", imageLabels |-> <<>>],
   serviceAccount |-> "", deadline |-> Nil, nodeSelector |-> EmptyMap, runPolicy |-> "Parallel",
   postCommit |-> [script |-> "", command |-> <<>>, args |-> <<>>],
   successfulLimit |-> Nil, failedLimit |-> Nil, resources |-> FALSE, triggers |-> <<>>]

NoOptions ==
  [registryMapping |-> EmptyMap, imageStreamMapping |-> EmptyMap, strategyMapping |-> EmptyMap,
   search |-> <<>>, insecure |-> <<>>, block |-> <<>>]

PlainOptions == {NoOptions}

-----------------------------------------------------------------------------
(* Strategy family: strategies and their lists, and the output gate.       *)

KeyRefOf(name, key, optional) == [name |-> name, key |-> key, optional |-> optional]
ArgOf(name, value, from) == [name |-> name, value |-> value, from |-> from]
From(configMap, secret) == [configMap |-> configMap, secret |-> secret]

Args == {
  ArgOf(<<"VERSION">>, "1", Nil),
  ArgOf(<<"A", "=", "B">>, "1", Nil),
  ArgOf(<<"TOKEN">>, "ignored", From(Nil, KeyRefOf("creds", "token", TRUE))),
  ArgOf(<<"PROXY">>, "", From(KeyRefOf("proxy", "url", FALSE), Nil)),
  ArgOf(<<"NOKEY">>, "", From(KeyRefOf("proxy", "", FALSE), Nil)),
  ArgOf(<<"NODE">>, "x", From(Nil, Nil)) }

VolumeKinds == {
  [name |-> "certs", type |-> "Secret", source |-> "tls"],
  [name |-> "certs", type |-> "ConfigMap", source |-> "ca"],
  [name |-> "certs", type |-> "CSI", source |-> "csi"],
  [name |-> "conf", type |-> "ConfigMap", source |-> Nil],
  [name |-> "", type |-> "Secret", source |-> "tls"] }

StrategyImages == {Nil, NoRef, IST("", Tag("base", "1")), IST("infra", Tag("base", "1")),
                   Ref("ImageStreamImage", "", <<"base", "@", "sha256">>),
                   Ref("DockerImage", "", <<"ubi9">>),
                   Ref("DockerImage", "", <<"docker.io", "/", "library", "/", "ubi9">>),
                   Ref("", "", Tag("base", "1")), Ref("ImageStream", "", <<"base">>)}

DockerFamily ==
  {[DockerPlain EXCEPT !.buildArgs = args] : args \in Lists(Args)}
    \union {[DockerPlain EXCEPT !.volumes = vs, !.forcePull = (vs = <<>>)] :
              vs \in Lists(VolumeKinds)}
    \union {[DockerPlain EXCEPT !.from = f, !.optimization = o, !.noCache = c,
                                !.dockerfilePath = IF c THEN "build/Dockerfile" ELSE ""] :
              f \in StrategyImages, c \in BOOLEAN,
              o \in {Nil, "None", "SkipLayers", "SkipLayersAndWarn"}}

SourceFamily ==
  {[SourcePlain EXCEPT !.volumes = vs] : vs \in Lists(VolumeKinds)}
    \union {[SourcePlain EXCEPT !.from = f, !.incremental = c, !.forcePull = ~c,
                                !.scripts = IF c THEN "http://scripts" ELSE ""] :
              f \in StrategyImages \ {Nil}, c \in BOOLEAN}

StrategyFamily ==
  {[Plain EXCEPT !.strategy = OnDocker(d)] : d \in DockerFamily \union {Nil}}
    \union {[Plain EXCEPT !.strategy = OnSource(s)] : s \in SourceFamily \union {Nil}}
    \union {[Plain EXCEPT !.strategy = [type |-> t, docker |-> Nil, source |-> Nil]] :
              t \in {"Custom", "JenkinsPipeline", ""}}
    \union {[Plain EXCEPT !.output.to = to,
                          !.strategy = OnDocker([DockerPlain EXCEPT !.volumes = vs])] :
              to \in {Nil, NoRef}, vs \in Lists(VolumeKinds)}

StrategyOptions == {
  NoOptions,
  [NoOptions EXCEPT !.strategyMapping = [docker |-> "buildah-with-volumes", s2i |-> ""]],
  [NoOptions EXCEPT !.registryMapping = (<<"docker.io">> :> <<"mirror", "/", "hub">>)
                                          @@ (InternalRegistry :> <<"quay.io", "/", "org">>),
                    !.imageStreamMapping =
                      (<<"shop", "/", "ubi9">> :> <<"docker.io", "/", "ubi9">>)] }

-----------------------------------------------------------------------------
(* Source family: sources, inline Dockerfiles, credentials, metadata.      *)

ImageSourceOf(from, as, paths) == [from |-> from, as |-> as, paths |-> paths, pullSecret |-> Nil]

ImageSources == {
  ImageSourceOf(IST("", Tag("assets", "1")), FALSE, <<"/out">>),
  ImageSourceOf(Ref("DockerImage", "", <<"assets">>), TRUE, <<>>),
  ImageSourceOf(Ref("Dockerfile", "", <<"assets">>), TRUE, <<>>) }

Sources ==
  {[SourceSpec EXCEPT !.git = g, !.binary = b, !.images = ims, !.sourceSecret = s,
                      !.contextDir = dir, !.configMaps = cms, !.secrets = cms] :
     g \in {Nil, [GitPlain EXCEPT !.ref = "main", !.httpProxy = "p", !.noProxy = "n"]},
     b \in {Nil, [asFile |-> "app.jar"], [asFile |-> ""]},
     ims \in {<<>>} \union [1..1 -> ImageSources] \union [1..2 -> ImageSources],
     s \in {Nil, "", "clone"}, dir \in {"", "src"}, cms \in {<<>>, <<"settings">>}}

SourceSpecs ==
  {[Plain EXCEPT !.source = s] : s \in Sources}
    \union {[Plain EXCEPT !.strategy = strategy, !.source = [s EXCEPT !.dockerfile = text],
                          !.serviceAccount = sa, !.resources = res, !.name = name] :
              strategy \in {OnDocker([DockerPlain EXCEPT !.pullSecret = "pull"]),
                            OnSource([SourcePlain EXCEPT !.pullSecret = "pull"]),
                            OnSource(SourcePlain)},
              s \in {SourceSpec, [SourceSpec EXCEPT !.git = Nil],
                     [SourceSpec EXCEPT !.git = Nil, !.binary = [asFile |-> ""]]},
              text \in {"", "FROM scratch"}, sa \in {"", "builder"}, res \in BOOLEAN,
              name \in {App, <<"My.App">>}}

-----------------------------------------------------------------------------
(* Obstacle family: obstacles in each of the three steps that decline, in  *)
(* all combinations, none and several at once among them.                  *)

Unknown == Ref("ImageStream", "", <<"base">>)

ObstacleStrategies == {
  OnDocker(DockerPlain), OnDocker([DockerPlain EXCEPT !.from = Unknown]),
  OnSource([SourcePlain EXCEPT !.from = Unknown]),
  [type |-> "Custom", docker |-> Nil, source |-> Nil],
  [type |-> "", docker |-> Nil, source |-> Nil] }

FromImages(ims) == [SourceSpec EXCEPT !.git = Nil, !.images = ims]
ObstacleSources == {
  SourceSpec, [SourceSpec EXCEPT !.binary = [asFile |-> ""]],
  [SourceSpec EXCEPT !.git = Nil, !.binary = [asFile |-> ""]],
  FromImages(<<ImageSourceOf(Unknown, TRUE, <<>>)>>),
  FromImages([k \in 1..2 |-> ImageSourceOf(Unknown, TRUE, <<>>)]) }

ObstacleFamily ==
  {[Plain EXCEPT !.strategy = s, !.output.to = to, !.source = source] :
     s \in ObstacleStrategies, to \in {IST("", Tag("app", "v1")), Nil}, source \in ObstacleSources}

-----------------------------------------------------------------------------
(* Settings family: what steps 8 to 14 and 17 read.                        *)

ImageLabelKinds == [name : {"team", ""}, value : {"a", "b"}]

SettingsFamily ==
  {[Plain EXCEPT !.deadline = d, !.successfulLimit = l, !.failedLimit = f] :
     d \in {Nil, -1, 0, 1, 7, 8, 16, 17}, l \in {Nil, 0, 1, 10000, 10001}, f \in {Nil, -1, 5}}
    \union {[Plain EXCEPT !.nodeSelector = n, !.runPolicy = p, !.postCommit = h] :
              n \in {EmptyMap, [disk |-> "ssd"], [disk |-> "s d", zone |-> "a"]},
              p \in {"", "Serial", "SerialLatestOnly", "Parallel", "Other"},
              h \in [script : {"", "test"}, command : {<<>>, <<"make">>}, args : {<<>>, <<"-v">>}]}
    \union {[Plain EXCEPT !.output = [to |-> to, pushSecret |-> p, imageLabels |-> ls]] :
              to \in {IST("", App), IST("infra", Tag("app", "v1")),
                      Ref("DockerImage", "", <<"dev", "/", "app">>)},
              p \in {Nil, "", "push"}, ls \in ListsUpTo(MaxLoop + 1, ImageLabelKinds)}
    \union {[Plain EXCEPT !.strategy = s, !.resources = res, !.output.to = to] :
              s \in {OnDocker(DockerPlain), OnSource(SourcePlain)}, res \in BOOLEAN,
              to \in {IST("", Tag("app", "v1")), Ref("DockerImage", "", <<"dev", "/", "app">>)}}

-----------------------------------------------------------------------------
(* Chain family: image inputs, triggers and mappings.                      *)

TriggerOf(type, change) ==
  [type |-> type, imageChange |-> change,
   webhooks |-> [GitHub |-> [secretReference |-> "hook", allowEnv |-> TRUE, secret |-> "inline"]]]
Watching(from) == [from |-> from, paused |-> FALSE, lastTriggeredImageID |-> "sha256"]

ImageTriggers == {
  TriggerOf("ImageChange", Watching(Nil)), TriggerOf("ImageChange", Nil),
  TriggerOf("imageChange", Watching(IST("", Tag("assets", "1")))),
  TriggerOf("ImageChange", Watching(IST("infra", Tag("base", "1")))) }
OtherTriggers == {TriggerOf(type, Nil) : type \in {"ConfigChange", "github", "Bitbucket", "Push"}}
TriggerLists == Lists(ImageTriggers) \union [1..1 -> OtherTriggers]

ChainInputs == {NoRef, IST("", Tag("assets", "1")), IST("shop", Tag("base", "1")),
                IST("infra", Tag("base", "1")), Ref("DockerImage", "", <<"ubi9">>)}

ChainSources ==
  {SourceSpec}
    \union {[SourceSpec EXCEPT !.git = Nil, !.images = <<ImageSourceOf(from, FALSE, paths)>>] :
              from \in ChainInputs \ {NoRef}, paths \in {<<>>, <<"/out">>}}

ChainFamily ==
  {[Plain EXCEPT !.strategy = strategy, !.source = s, !.triggers = ts] :
     strategy \in {OnDocker([DockerPlain EXCEPT !.from = f]) : f \in ChainInputs}
                    \union {OnSource([SourcePlain EXCEPT !.from = f]) : f \in ChainInputs},
     s \in ChainSources, ts \in TriggerLists}

\* Unmapped; and two tags of the namespace mapped to one image.
ChainOptions == {
  NoOptions,
  [NoOptions EXCEPT !.imageStreamMapping =
     (<<"shop", "/", "assets", ":", "1">> :> <<"quay.io", "/", "one">>)
       @@ (<<"shop", "/", "base", ":", "1">> :> <<"quay.io", "/", "one">>)] }

-----------------------------------------------------------------------------
(* What a run converts: a union of families, under the flags they read.    *)

InputsFamily == StrategyFamily \union SourceSpecs \union ObstacleFamily
RestFamily == SettingsFamily \union ChainFamily

Registries == [NoOptions EXCEPT !.insecure = <<"dev", "quay.io">>, !.search = <<"dev">>,
                            !.block = <<"dev">>]
ToQuay == InternalRegistry :> <<"quay.io", "/", "org">>

\* Registry lists under the strategies of the catalog and of a mapping, with the output where it
\* was and moved to one of the insecure registries.
RestOptions ==
  ChainOptions
    \union {Registries, [Registries EXCEPT !.strategyMapping = [docker |-> "custom"]]}
    \union {[Registries EXCEPT !.registryMapping = ToQuay, !.strategyMapping = s] :
              s \in {EmptyMap, [s2i |-> "custom"]}}

-----------------------------------------------------------------------------
(* Reuse family: several conversions on one Converter.                     *)

Producer == [Plain EXCEPT !.name = <<"base">>, !.output.to = IST("", Tag("base", "1"))]
LatestProducer == [Producer EXCEPT !.output.to = IST("", <<"base">>), !.output.pushSecret = Nil]
Consumer(tag) ==
  [Plain EXCEPT !.strategy = OnDocker([DockerPlain EXCEPT !.from = IST("shop", Tag("base", tag))]),
                !.runPolicy = "", !.deadline = 0]
ImageConsumer ==
  [Plain EXCEPT !.name = <<"My.App">>, !.output.to = Ref("DockerImage", "", <<"dev", "/", "app">>),
                !.strategy = OnSource([SourcePlain EXCEPT !.pullSecret = "pull"]),
                !.source = [SourceSpec EXCEPT !.git = Nil,
                              !.images = <<ImageSourceOf(IST("", Tag("base", "1")), FALSE, <<>>)>>]]
Archive == [Plain EXCEPT !.source = [SourceSpec EXCEPT !.git = Nil, !.binary = [asFile |-> ""],
                                                       !.sourceSecret = "clone"],
                         !.strategy = OnDocker([DockerPlain EXCEPT !.pullSecret = "pull"])]
Clean == [Plain EXCEPT !.output.to = Ref("DockerImage", "", <<"dev", "/", "app">>)]

\* Skipped by an earlier migration, whose annotation it still carries, and converted now.
Retried == [Clean EXCEPT
              !.labels = (<<"openshift.io", "/", "build", ".start-policy">> :> "Serial")
                           @@ (<<"buildconfig">> :> "app") @@ (<<"team">> :> "a"),
              !.annotations = (ConversionOutcomeAnnotation :> "skipped")
                                @@ (<<"openshift.io", "/", "generated-by">> :> "oc")]

ReuseFamily == {Producer, LatestProducer, Consumer("1"), Consumer("latest"), ImageConsumer,
                Archive, Clean, Retried, [Clean EXCEPT !.strategy.type = "Custom"]}

ReuseOptions == {
  NoOptions,
  [NoOptions EXCEPT !.registryMapping = (InternalRegistry :> <<"quay.io", "/", "org">>)
                                          @@ (<<"quay.io">> :> <<>>)],
  [NoOptions EXCEPT !.imageStreamMapping =
                      (<<"shop", "/", "base", ":", "1">> :> <<"quay.io", "/", "b">>),
                    !.registryMapping = (<<"quay.io">> :> <<"mirror">>)] }
=============================================================================
