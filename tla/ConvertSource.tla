---------------------------- MODULE ConvertSource ----------------------------
(***************************************************************************)
(* Steps 4 to 8 of Convert: the pull secret and its ServiceAccount, the    *)
(* inline Dockerfile and its ConfigMap, the source, and the output with    *)
(* its credential and labels (buildconfig/converter.go, dockerfile.go).    *)
(***************************************************************************)
EXTENDS ConvertState

Source == bc.source

-----------------------------------------------------------------------------
(* Chained builds: what processSource and the trigger steps both ask.      *)

\* An image another BuildConfig of the export may build.
chainCandidate(b, ref) == ref.kind = "ImageStreamTag" /\ NamespaceOf(b, ref) = b.ns

-----------------------------------------------------------------------------
(* The pull secret.                                                        *)

\* The Docker strategy's, else the Source strategy's, whatever the strategy type.
getPullSecret(b) ==
  CASE b.strategy.docker # Nil /\ b.strategy.docker.pullSecret # Nil ->
         b.strategy.docker.pullSecret
    [] ~(b.strategy.docker # Nil /\ b.strategy.docker.pullSecret # Nil)
       /\ b.strategy.source # Nil -> b.strategy.source.pullSecret
    [] OTHER -> Nil

\* Raised for every ServiceAccount the BuildConfig names.
AssociationsWarning ==
  When(bc.serviceAccount # Blank, W("VerifyServiceAccount", <<bc.serviceAccount>>))

GeneratedAccount ==
  [kind |-> "ServiceAccount", ns |-> bc.ns, name |-> Sanitize(bc.name),
   secret |-> getPullSecret(bc)]

NoAccountNeeded ==
  /\ Goto("serviceAccount", "inlineDockerfile") /\ getPullSecret(bc) = Nil
  /\ Warn(AssociationsWarning)
  /\ UNCHANGED <<i, build, extra, generatedSA, notices>>

\* crane migrates the named account: it is left alone, and the operator links the secret.
AccountNamed ==
  /\ Goto("serviceAccount", "inlineDockerfile")
  /\ getPullSecret(bc) # Nil /\ bc.serviceAccount # Blank
  /\ Warn(W("LinkPullSecret", <<bc.serviceAccount>>) \o AssociationsWarning)
  /\ UNCHANGED <<i, build, extra, generatedSA, notices>>

\* A mistake the runs must notice: an account is generated next to the one the BuildConfig names.
GenerateAccountAlways ==
  /\ Goto("serviceAccount", "inlineDockerfile")
  /\ getPullSecret(bc) # Nil
  /\ Warn(RenameWarning("RenamedServiceAccount", bc.name))
  /\ extra' = Append(extra, GeneratedAccount)
  /\ generatedSA' = GeneratedAccount.name
  /\ UNCHANGED <<i, build, notices>>

GenerateAccount ==
  /\ Goto("serviceAccount", "inlineDockerfile")
  /\ getPullSecret(bc) # Nil /\ bc.serviceAccount = Blank
  /\ Warn(RenameWarning("RenamedServiceAccount", bc.name))
  /\ extra' = Append(extra, GeneratedAccount)
  /\ generatedSA' = GeneratedAccount.name
  /\ UNCHANGED <<i, build, notices>>

AccountUnserializable ==
  /\ pc = "serviceAccount" /\ SerializeErrors
  /\ getPullSecret(bc) # Nil /\ bc.serviceAccount = Blank
  /\ Decline("failed", "SerializeServiceAccount", RenameWarning("RenamedServiceAccount", bc.name))

-----------------------------------------------------------------------------
(* The inline Dockerfile.                                                  *)

ConfigMapOriginal(b) == b.name \o <<"-dockerfile">>

\* Its content is preserved in a ConfigMap and the drop is recorded, at ERROR.
InlineConfigMap ==
  [kind |-> "ConfigMap", ns |-> bc.ns, name |-> Sanitize(ConfigMapOriginal(bc)),
   annotations |-> Put(EmptyMap, ConvertedFromAnnotation, bc.name), content |-> Source.dockerfile]
InlineWarnings ==
  RenameWarning("RenamedConfigMap", ConfigMapOriginal(bc))
    \o W("InlineDockerfilePreserved", bc.name)

NoInlineDockerfile ==
  /\ Goto("inlineDockerfile", "source") /\ Source.dockerfile = Blank
  /\ UNCHANGED <<i, warnings, build, extra, generatedSA, notices>>

PreserveInlineDockerfile ==
  /\ Goto("inlineDockerfile", "source")
  /\ Source.dockerfile # Blank /\ bc.strategy.type = "Docker"
  /\ Warn(InlineWarnings)
  /\ build' = Annotate(build, InlineDockerfileConfigMapAnnotation, InlineConfigMap.name)
  /\ extra' = Append(extra, InlineConfigMap)
  /\ UNCHANGED <<i, generatedSA, notices>>

\* A mistake the runs must notice: Source-to-Image never used it, so nothing is said.
DropInlineDockerfileSilently ==
  /\ Goto("inlineDockerfile", "source")
  /\ Source.dockerfile # Blank /\ bc.strategy.type = "Source"
  /\ UNCHANGED <<i, warnings, build, extra, generatedSA, notices>>

\* Source-to-Image never used it.
DropInlineDockerfile ==
  /\ Goto("inlineDockerfile", "source")
  /\ Source.dockerfile # Blank /\ bc.strategy.type = "Source"
  /\ Warn(W("InlineDockerfileDropped", bc.name))
  /\ UNCHANGED <<i, build, extra, generatedSA, notices>>

ConfigMapUnserializable ==
  /\ pc = "inlineDockerfile" /\ SerializeErrors
  /\ Source.dockerfile # Blank /\ bc.strategy.type = "Docker"
  /\ Decline("failed", "SerializeConfigMap", InlineWarnings)

-----------------------------------------------------------------------------
(* The source.                                                             *)

Kinds(source) ==
  {k \in {"git", "binary", "images"} :
     CASE k = "git" -> source.git # Nil
       [] k = "binary" -> source.binary # Nil
       [] OTHER -> source.images # <<>>}

\* A sourceSecret without a git source was inert: it is dropped with a warning.
InertSecretWarning ==
  When(Source.git = Nil /\ Source.sourceSecret \notin {Nil, Blank},
       W("SourceSecretDropped", <<Source.sourceSecret>>))

\* The rest of processSource, once the Build has a source: its contextDir, and a warning for
\* each ConfigMap and Secret the build mounted.
MountWarnings ==
  [k \in DOMAIN Source.configMaps |-> [id |-> "ConfigMapMount", about |-> <<Source.configMaps[k]>>]]
    \o [k \in DOMAIN Source.secrets |-> [id |-> "SecretMount", about |-> <<Source.secrets[k]>>]]

\* A mistake the runs must notice: contextDir is set for a git source only.
GitContextOnly(type, ref, secret) ==
  [type |-> type, ref |-> ref, secret |-> secret,
   contextDir |-> IF type = "Git" THEN Source.contextDir ELSE Blank]

BuildSource(type, ref, secret) ==
  [type |-> type, ref |-> ref, secret |-> secret, contextDir |-> Source.contextDir]

SourceDone(source, env, messages) ==
  /\ build' = [build EXCEPT !.source = source, !.env = @ \o env]
  /\ Warn(InertSecretWarning \o messages \o MountWarnings)
  /\ UNCHANGED <<i, extra, generatedSA, notices>>

SourceRejected(reason, messages) == Decline("failed", reason, InertSecretWarning \o messages)

\* Several kinds of source have no Shipwright form.
MultipleSources ==
  /\ pc = "source" /\ Cardinality(Kinds(Source)) > 1
  /\ SourceRejected("MultipleSources", <<>>)

\* No source at all: a warning, and processSource returns before anything else.
NoSource ==
  /\ Goto("source", "output") /\ Kinds(Source) = {}
  /\ Warn(InertSecretWarning \o W("NoSource", bc.name))
  /\ UNCHANGED <<i, build, extra, generatedSA, notices>>

\* processGitProxyConfig: each proxy variable under its upper and its lower case name.
ProxyEnv(git) ==
  LET pair(upper, lower, value) ==
        When(value # Blank,
             <<[name |-> upper, value |-> value], [name |-> lower, value |-> value]>>)
  IN  pair("HTTP_PROXY", "http_proxy", git.httpProxy)
        \o pair("HTTPS_PROXY", "https_proxy", git.httpsProxy)
        \o pair("NO_PROXY", "no_proxy", git.noProxy)

GitSource ==
  /\ Goto("source", "output") /\ Kinds(Source) = {"git"}
  /\ SourceDone(BuildSource("Git", <<Source.git.uri, Source.git.ref>>, Source.sourceSecret),
                ProxyEnv(Source.git), <<>>)

BinaryFile ==
  /\ Goto("source", "output") /\ Kinds(Source) = {"binary"} /\ Source.binary.asFile # Blank
  /\ SourceDone(BuildSource("Local", <<"local-copy">>, Nil), <<>>, <<>>)

BinaryArchive ==
  /\ pc = "source" /\ Kinds(Source) = {"binary"} /\ Source.binary.asFile = Blank
  /\ SourceRejected("BinaryArchive", <<>>)

MultipleImages ==
  /\ pc = "source" /\ Kinds(Source) = {"images"} /\ Len(Source.images) > 1
  /\ SourceRejected("MultipleImages", <<>>)

ImageOf(b) == b.source.images[1].from
AsWarning == When(Source.images[1].as, W("ImageAsDropped", <<>>))

ImageUnresolvable ==
  /\ pc = "source" /\ Kinds(Source) = {"images"} /\ Len(Source.images) = 1
  /\ ~Resolve(bc, ImageOf(bc)).ok
  /\ SourceRejected("ImageSource", AsWarning)

\* The whole image is unpacked: selected paths are reported, with the run order when the image
\* may come from another BuildConfig.
PathsWarning(resolved) ==
  When(Source.images[1].paths # <<>>,
       W(IF chainCandidate(bc, ImageOf(bc)) THEN "PathsDroppedRunOrder" ELSE "PathsDropped",
         resolved.image))

ImageSource ==
  /\ Goto("source", "output") /\ Kinds(Source) = {"images"} /\ Len(Source.images) = 1
  /\ LET resolved == Resolve(bc, ImageOf(bc)) IN
     /\ resolved.ok
     /\ SourceDone(BuildSource("OCIArtifact", resolved.image, Source.images[1].pullSecret), <<>>,
                   AsWarning
                     \o When(resolved.warning # Blank, W(resolved.warning, ImageOf(bc).name))
                     \o PathsWarning(resolved))

-----------------------------------------------------------------------------
(* The output.                                                             *)

To == bc.output.to
ToStream == To.kind = "ImageStreamTag"
PushedImage == OutputImage(To.kind, To.name, NamespaceOf(bc, To), opts)

OutputWarnings ==
  When(ToStream /\ OutputUnmapped(To.name, NamespaceOf(bc, To), opts),
       W("OutputFallback", PushedImage))
    \o When(ToStream /\ OffInternalRegistry(PushedImage), W("OutputRedirected", PushedImage))

HasPushSecret == bc.output.pushSecret \notin {Nil, Blank}

Output ==
  /\ Goto("output", "imageLabels")
  /\ build' = [build EXCEPT !.image = PushedImage,
                            !.pushSecret = IF HasPushSecret THEN bc.output.pushSecret ELSE Blank]
  /\ Warn(OutputWarnings
            \o When(~HasPushSecret,
                    W(IF ToStream THEN "NoPushSecretStream" ELSE "NoPushSecretRegistry", <<>>)))
  /\ UNCHANGED <<i, extra, generatedSA, notices>>

\* imageLabels, one iteration of the loop per action: the last value of a name wins.
Label == bc.output.imageLabels[i]

ImageLabel ==
  /\ pc = "imageLabels" /\ i <= Len(bc.output.imageLabels) /\ Label.name # Blank
  /\ Warn(When(Label.name \in DOMAIN build.imageLabels
                 /\ build.imageLabels[Label.name] # Label.value,
               W("LabelOverridden", <<Label.name>>)))
  /\ build' = [build EXCEPT !.imageLabels = Put(@, Label.name, Label.value)]
  /\ i' = i + 1
  /\ UNCHANGED <<pc, extra, generatedSA, notices>> /\ UNCHANGED call

SkipUnnamedLabel ==
  /\ pc = "imageLabels" /\ i <= Len(bc.output.imageLabels) /\ Label.name = Blank
  /\ Warn(W("LabelSkipped", <<>>))
  /\ i' = i + 1
  /\ UNCHANGED <<pc, build, extra, generatedSA, notices>> /\ UNCHANGED call

ImageLabelsDone ==
  /\ Goto("imageLabels", "deadline") /\ i > Len(bc.output.imageLabels)
  /\ i' = 1
  /\ UNCHANGED <<warnings, build, extra, generatedSA, notices>>

-----------------------------------------------------------------------------
SourceSteps ==
  \/ NoAccountNeeded \/ AccountNamed \/ GenerateAccount \/ AccountUnserializable
  \/ NoInlineDockerfile \/ PreserveInlineDockerfile \/ DropInlineDockerfile
  \/ ConfigMapUnserializable
  \/ MultipleSources \/ NoSource \/ GitSource \/ BinaryFile \/ BinaryArchive
  \/ MultipleImages \/ ImageUnresolvable \/ ImageSource
  \/ Output \/ ImageLabel \/ SkipUnnamedLabel \/ ImageLabelsDone
=============================================================================
