---------------------------- MODULE ConvertState ----------------------------
(***************************************************************************)
(* The state of a Converter (buildconfig/converter.go, outcome.go) and of  *)
(* the conversion it is running, with the operators its steps share.  The  *)
(* steps are in the Convert* modules that extend this one, their           *)
(* composition and its properties in Convert.                              *)
(*                                                                         *)
(* A BuildConfig is a record whose fields are the ones the plugin reads.   *)
(* A Go pointer that is nil is Nil; a string or a list the code treats     *)
(* alike when nil and when empty is "" or <<>>.  Names and image           *)
(* references are sequences of tokens.                                     *)
(***************************************************************************)
EXTENDS Integers, FiniteSets, ImageRefs, WarningBudget

CONSTANTS
  BuildConfigs,     \* the BuildConfigs that may be converted
  OptionSets,       \* the flag values a run may be started with
  Rewritten,        \* invalid resource names, each with the label it is rewritten to
  InvalidLabels,    \* the node-selector keys and values apimachinery rejects
  MaxInt64,         \* the largest int64; MaxInt64 + 1 is a power of two
  Second,           \* time.Second, in nanoseconds
  WarningBytes,     \* the length of a warning (they are told apart by their count here)
  SerializeErrors,  \* whether toUnstructured may return an error
  MaxConversions,   \* bound: how many BuildConfigs one Converter converts
  Nil

\* A Go slice: a sequence, of whatever it holds.
IsList(s) == s \in Seq(ToSet(s))

\* The slices of a BuildConfig are slices.
ASSUME ListsAssumption ==
  \A b \in BuildConfigs :
    /\ IsList(b.source.configMaps) /\ IsList(b.source.secrets) /\ IsList(b.source.images)
    /\ IsList(b.triggers) /\ IsList(b.output.imageLabels)
    /\ b.strategy.docker # Nil =>
         IsList(b.strategy.docker.buildArgs) /\ IsList(b.strategy.docker.volumes)
    /\ b.strategy.source # Nil => IsList(b.strategy.source.volumes)

\* The pointers to integers are nil or point to an integer.
ASSUME IntegersAssumption ==
  /\ Nil \notin Int
  /\ \A b \in BuildConfigs :
       {b.deadline, b.successfulLimit, b.failedLimit} \subseteq Int \union {Nil}

\* A rewritten name is a valid one (Names: LabelsValid, and a valid name is kept).
ASSUME RewrittenAssumption == \A name \in DOMAIN Rewritten : Rewritten[name] \notin DOMAIN Rewritten

ASSUME ConvertAssumption ==
  /\ MaxConversions \in Nat
  /\ MaxInt64 \in Nat /\ Second \in Nat \ {0}
  /\ WarningBytes \in Nat
  /\ SerializeErrors \in BOOLEAN
  /\ Nil \notin BuildConfigs

VARIABLES
  opts,         \* Converter.Opts, fixed when the Converter is made
  warnings,     \* Converter.warnings, over every conversion so far
  cur,          \* Converter.curNS and curName: whom warnf attributes a warning to
  bc,           \* the BuildConfig being converted, Nil between conversions
  pc,           \* the step Convert is at, "idle" between conversions
  i,            \* the index of the loop the step is in
  start,        \* startWarnings: how many warnings were there when this conversion began
  build,        \* the Build under construction
  extra,        \* newResources: the ServiceAccount and the ConfigMap generated so far
  generatedSA,  \* the name of the generated ServiceAccount, <<>> when there is none
  notices,      \* the chain lines this conversion logged at INFO
  results       \* what Convert returned, call by call

\* A step leaves the call as it is: Convert's argument, the attribution, the options.
call == <<opts, bc, cur, start, results>>
vars == <<opts, warnings, cur, bc, pc, i, start, build, extra, generatedSA, notices, results>>

Goto(from, to) == pc = from /\ pc' = to /\ UNCHANGED call

-----------------------------------------------------------------------------
(* Warnings.  A message is known by its id and by the object it names.     *)

W(id, about) == <<[id |-> id, about |-> about]>>
When(condition, sequence) == IF condition THEN sequence ELSE <<>>

\* The BuildConfig a warning is attributed to: the [ns/name] prefix.
Identity(b) == [ns |-> b.ns, name |-> b.name]

\* recordWarning: prefix the messages with the BuildConfig being converted.
Attributed(who, messages) ==
  [k \in DOMAIN messages |-> [bc |-> who, id |-> messages[k].id, about |-> messages[k].about]]

\* warnf, for the messages of a step in the order it raises them.
Warn(messages) == warnings' = warnings \o Attributed(cur, messages)

\* c.warnings[startWarnings:]
OwnWarnings == SubSeq(warnings, start + 1, Len(warnings))

-----------------------------------------------------------------------------
(* Generated names.                                                        *)

\* A mistake the runs must notice: a rewritten name goes without its hash.
SanitizeWithoutHash(name) == IF name \in DOMAIN Rewritten THEN Front(Rewritten[name]) ELSE name

\* sanitizeDNS1123Label: an invalid name has a rewritten form, a valid one is kept.
Sanitize(name) == IF name \in DOMAIN Rewritten THEN Rewritten[name] ELSE name

\* The warning of uniqueName, raised when it had to change the name.
RenameWarning(id, name) == When(Sanitize(name) # name, W(id, name))

-----------------------------------------------------------------------------
(* References in a BuildConfig.                                            *)

Ref(kind, ns, name) == [kind |-> kind, ns |-> ns, name |-> name]

\* ref.Namespace, defaulted to the BuildConfig's.
NamespaceOf(b, ref) == IF ref.ns = Blank THEN b.ns ELSE ref.ns

NamesImage(ref) == ref # Nil /\ ref.name # <<>>

Resolve(b, ref) == resolveImageRef(ref.kind, ref.name, NamespaceOf(b, ref), opts)

-----------------------------------------------------------------------------
(* Metadata copied onto the Build, less the keys of OpenShift's machinery. *)

KeyMatches(key, prefixes, keys) == key \in keys \/ \E p \in prefixes : IsPrefix(p, key)

Filtered(metadata, prefixes, keys) ==
  [k \in {k \in DOMAIN metadata : ~KeyMatches(k, prefixes, keys)} |-> metadata[k]]

copyLabels(b) == Filtered(b.labels, {<<"openshift.io", "/", "build">>}, {<<"buildconfig">>})
copyAnnotations(b) ==
  Filtered(b.annotations, {<<"openshift.io", "/">>, <<"kubectl.kubernetes.io", "/">>}, {})

\* The annotations the plugin owns.
ConvertedFromAnnotation == <<"crane.konveyor.io", "/", "converted-from">>
ConversionWarningsAnnotation == <<"crane.konveyor.io", "/", "conversion-warnings">>
BuildRunTemplateAnnotation == <<"buildconfig-to-shipwright", "/", "buildrun-template">>
OriginalTriggersAnnotation == <<"buildconfig-to-shipwright", "/", "original-triggers">>
ConversionOutcomeAnnotation == <<"buildconfig-to-shipwright", "/", "conversion-outcome">>
ConversionReasonAnnotation == <<"buildconfig-to-shipwright", "/", "conversion-reason">>
InlineDockerfileConfigMapAnnotation ==
  <<"buildconfig-to-shipwright", "/", "inline-dockerfile-configmap">>

\* m[key] = value on a Go map.
Put(m, key, value) == [k \in DOMAIN m \union {key} |-> IF k = key THEN value ELSE m[k]]
Annotate(b, key, value) == [b EXCEPT !.annotations = Put(@, key, value)]

-----------------------------------------------------------------------------
(* The Build.                                                              *)

Param(name, value) == <<[name |-> name, value |-> value]>>
WithParams(b, ps) == [b EXCEPT !.params = @ \o ps]

EmptyMap == [k \in {} |-> Nil]

\* The Build Convert starts from.
Skeleton(b) ==
  [name |-> Sanitize(b.name), ns |-> b.ns, labels |-> copyLabels(b),
   annotations |-> Put(copyAnnotations(b), ConvertedFromAnnotation, b.name),
   strategy |-> Blank, params |-> <<>>, buildArgs |-> <<>>, env |-> <<>>, volumes |-> <<>>,
   source |-> Nil, image |-> <<>>, pushSecret |-> Blank, imageLabels |-> EmptyMap,
   insecure |-> FALSE, timeout |-> Nil, nodeSelector |-> EmptyMap,
   succeededLimit |-> Nil, failedLimit |-> Nil]

-----------------------------------------------------------------------------
(* Calling Convert, and returning from it.                                 *)

Init ==
  /\ opts \in OptionSets
  /\ warnings = <<>> /\ results = <<>>
  /\ pc = "idle" /\ bc = Nil /\ cur = Nil /\ start = 0
  /\ i = 1 /\ build = Nil /\ extra = <<>> /\ generatedSA = <<>> /\ notices = <<>>

\* Three mistakes the runs must notice: an offset that is one too far,
BeginOneFurther(b) ==
  /\ pc = "idle" /\ Len(results) < MaxConversions
  /\ pc' = "strategy"
  /\ bc' = b /\ cur' = Identity(b) /\ start' = Len(warnings) + 1
  /\ warnings' = warnings \o Attributed(Identity(b), RenameWarning("RenamedBuild", b.name))
  /\ build' = Skeleton(b)
  /\ UNCHANGED <<opts, i, extra, generatedSA, notices, results>>

\* an offset that counts the last conversion only, right for the first two,
BeginAfterLast(b) ==
  /\ pc = "idle" /\ Len(results) < MaxConversions
  /\ pc' = "strategy"
  /\ bc' = b /\ cur' = Identity(b)
  /\ start' = IF results = <<>> THEN 0 ELSE Len(results[Len(results)].recorded)
  /\ warnings' = warnings \o Attributed(Identity(b), RenameWarning("RenamedBuild", b.name))
  /\ build' = Skeleton(b)
  /\ UNCHANGED <<opts, i, extra, generatedSA, notices, results>>

\* and the Build named before the BuildConfig is noted for attribution.
BeginNamingFirst(b) ==
  /\ pc = "idle" /\ Len(results) < MaxConversions
  /\ pc' = "strategy"
  /\ bc' = b /\ cur' = Identity(b) /\ start' = Len(warnings)
  /\ warnings' = warnings \o Attributed(cur, RenameWarning("RenamedBuild", b.name))
  /\ build' = Skeleton(b)
  /\ UNCHANGED <<opts, i, extra, generatedSA, notices, results>>

\* Convert(b): name the BuildConfig the warnings belong to, note where they start, and
\* begin the Build with its name and metadata.
Begin(b) ==
  /\ pc = "idle" /\ Len(results) < MaxConversions
  /\ pc' = "strategy"
  /\ bc' = b /\ cur' = Identity(b) /\ start' = Len(warnings)
  /\ warnings' = warnings \o Attributed(Identity(b), RenameWarning("RenamedBuild", b.name))
  /\ build' = Skeleton(b)
  /\ UNCHANGED <<opts, i, extra, generatedSA, notices, results>>

\* Convert returns: its locals are gone, and the deferred function clears the attribution.
Return(state, reason, own, resources) ==
  /\ results' = Append(results, [bc |-> bc, state |-> state, reason |-> reason,
                                 warnings |-> own, resources |-> resources,
                                 recorded |-> SubSeq(warnings', start + 1, Len(warnings')),
                                 notices |-> notices])
  /\ pc' = "idle" /\ bc' = Nil /\ cur' = Nil /\ start' = 0
  /\ i' = 1 /\ build' = Nil /\ extra' = <<>> /\ generatedSA' = <<>> /\ notices' = <<>>
  /\ UNCHANGED opts

\* A mistake the runs must notice: what was generated before the failure is returned.
DeclineKeepingResources(state, reason, messages) ==
  /\ Warn(messages)
  /\ Return(state, reason, <<>>, extra)

\* outcomeSkipped and outcomeFailed carry a reason, and no resources and no warnings.
Decline(state, reason, messages) ==
  /\ Warn(messages)
  /\ Return(state, reason, <<>>, <<>>)
=============================================================================
