------------------------------ MODULE Migration ------------------------------
(***************************************************************************)
(* crane around the plugin: it hands every object of an export to a plugin *)
(* process of its own, in no particular order, and writes what the         *)
(* processes answer into one output (docs/architecture.md 25-54, ADR-0002, *)
(* ADR-0006).  crane is not in this repository: it is modelled from what   *)
(* the plugin counts on.  The output of one migration may be the export of *)
(* the next, with some of the BuildConfigs that were declined repaired.    *)
(***************************************************************************)
EXTENDS Plugin

CONSTANTS
  Exports,     \* the exports a first migration may be given: sets of objects
  Cured,       \* a BuildConfig with a strategy and a source that convert
  MaxRounds    \* bound: how many migrations are run

VARIABLES
  export,     \* the objects that are migrated
  answered,   \* for each object handed over so far, the response to it
  output,     \* the objects written so far, by identity
  before,     \* the output of the migration before this one
  round,
  status      \* "running", "done" or "aborted"

migrationVars == <<pluginVars, export, answered, output, before, round, status>>

\* Two objects of one identity are one in the output: the later one.
Id(object) == <<object.kind, object.group, object.ns, object.name>>

\* An export has one object of an identity, and a BuildConfig that decodes has annotations, the
\* parts of its spec, and in its metadata the namespace and the name it is known by.
ASSUME MigrationAssumption ==
  \A objects \in Exports :
    /\ \A o, p \in objects : Id(o) = Id(p) => o = p
    /\ \A o \in objects :
         /\ {"kind", "group", "ns", "name", "content"} \subseteq DOMAIN o
         /\ IsBuildConfig(o) /\ Decodable(o) =>
              /\ {"annotations", "strategy", "source", "output", "ns", "name"}
                   \subseteq DOMAIN o.content
              /\ o.content.ns = o.ns /\ o.content.name = o.name

\* A resource the plugin generates, as an object.
Generated(resource) ==
  [kind |-> resource.kind, group |-> IF resource.kind = "Build" THEN "shipwright.io" ELSE Blank,
   ns |-> resource.ns, name |-> resource.name, content |-> resource]

-----------------------------------------------------------------------------
MigrationInit ==
  /\ Init /\ request = Nil /\ response = Nil
  /\ export \in Exports
  /\ answered = EmptyMap /\ output = EmptyMap /\ before = EmptyMap
  /\ round = 1 /\ status = "running"

\* crane starts a process for an object that has had none.
Hand(object) ==
  /\ status = "running" /\ request = Nil
  /\ object \in export \ DOMAIN answered
  /\ request' = object
  /\ UNCHANGED <<vars, response, export, answered, output, before, round, status>>

Converse == PluginStep /\ UNCHANGED <<export, answered, output, before, round, status>>

\* A process failed, or asked for a patch that does not apply.
Unusable ==
  response.error
    \/ (response.patch # <<>> /\ ~Applicable(request.content.annotations, response.patch))

\* What a response puts in the output.
Written ==
  LET objects == {Generated(response.resources[k]) : k \in DOMAIN response.resources}
      patched == IF response.patch = <<>> THEN request
                 ELSE [request EXCEPT !.content.annotations = Patched(@, response.patch)]
  IN  objects \union (IF response.whiteout THEN {} ELSE {patched})

Collect ==
  /\ response # Nil /\ ~Unusable
  /\ answered' = Put(answered, request, response)
  /\ output' = [id \in DOMAIN output \union {Id(o) : o \in Written} |->
                  IF \E o \in Written : Id(o) = id THEN CHOOSE o \in Written : Id(o) = id
                  ELSE output[id]]
  /\ Exit
  /\ UNCHANGED <<export, before, round, status>>

\* crane gives up on the first failure of a plugin.
Abort ==
  /\ response # Nil /\ Unusable
  /\ status' = "aborted"
  /\ Exit
  /\ UNCHANGED <<export, answered, output, before, round>>

Complete ==
  /\ status = "running" /\ request = Nil /\ export = DOMAIN answered
  /\ status' = "done"
  /\ UNCHANGED <<pluginVars, export, answered, output, before, round>>

\* The BuildConfigs in the output, which the plugin declined.
Left == {o \in Range(output) : IsBuildConfig(o)}

\* The user repairs one: its metadata stays, the annotations of the plugin included.
Repaired(object) ==
  [object EXCEPT !.content = [@ EXCEPT !.strategy = Cured.strategy, !.source = Cured.source]]

\* The output is migrated again, with some of them repaired.
Rerun ==
  /\ status = "done" /\ round < MaxRounds
  /\ \E repaired \in SUBSET Left :
       export' = (Range(output) \ repaired) \union {Repaired(o) : o \in repaired}
  /\ answered' = EmptyMap /\ output' = EmptyMap /\ before' = output
  /\ round' = round + 1 /\ status' = "running"
  /\ UNCHANGED pluginVars

\* There is nothing more to do.
Over == (status = "aborted" \/ (status = "done" /\ round = MaxRounds)) /\ UNCHANGED migrationVars

Progress == (\E object \in export : Hand(object)) \/ Converse \/ Collect \/ Abort \/ Complete

MigrationNext == Progress \/ Rerun \/ Over

\* crane waits for the process it started, and goes on to the next.
MigrationSpec == MigrationInit /\ [][MigrationNext]_migrationVars /\ WF_migrationVars(Progress)

-----------------------------------------------------------------------------
(* Refinement: what became of an object is read off the output.            *)

Annotated(o) ==
  IsBuildConfig(o) /\ ConversionOutcomeAnnotation \in DOMAIN output[Id(o)].content.annotations

FateOf(o) ==
  CASE o \notin DOMAIN answered -> "pending"
    [] o \in DOMAIN answered /\ Id(o) \notin DOMAIN output -> "replaced"
    [] OTHER -> IF Annotated(o) THEN "annotated" ELSE "kept"

Promised == INSTANCE Disposal WITH
  fate <- [o \in export |-> FateOf(o)],
  stopped <- (status = "aborted"),
  Readable <- Decodable,
  BestEffort <- Patchless

\* One bad BuildConfig never stops a migration, and none disappears without a replacement or a
\* note: crane and the plugin together implement Disposal, in whatever order the objects come
\* (plugin.go 112-135; ADR-0002).
KeepsDisposal == Promised!Spec

-----------------------------------------------------------------------------
(* What two objects of an export can have in common.                       *)

\* The identities that what is generated for a BuildConfig may take.
Claims(o) ==
  {<<"Build", "shipwright.io", o.ns, Sanitize(o.name)>>,
   <<"ServiceAccount", Blank, o.ns, Sanitize(o.name)>>,
   <<"ConfigMap", Blank, o.ns, Sanitize(ConfigMapOriginal(o))>>}

\* No object has, and no two BuildConfigs share, an identity that one of them may claim.  Nothing
\* in the plugin sees to it: it is where the names of Names and the gap it documents end.
Apart(objects) ==
  \A o, p \in objects : IsBuildConfig(o) =>
    /\ Id(p) \notin Claims(o)
    /\ IsBuildConfig(p) /\ o # p => Claims(o) \intersect Claims(p) = {}

-----------------------------------------------------------------------------
Whited == {o \in DOMAIN answered : answered[o].whiteout}

\* A BuildConfig that is removed has its Build in the output, which says what it was converted
\* from, and everything that was generated for it beside it: no resource of another object takes
\* the place of one, though the processes know nothing of each other.
ReplacementComplete ==
  \A o \in Whited :
    LET objects == {Generated(answered[o].resources[k]) : k \in DOMAIN answered[o].resources} IN
    /\ \A object \in objects : Id(object) \in DOMAIN output /\ output[Id(object)] = object
    /\ \E object \in objects :
         /\ object.kind = "Build" /\ object.ns = o.ns
         /\ object.content.build.annotations[ConvertedFromAnnotation] = o.name

\* A BuildConfig that was declined says itself that it was and why, as the process logged it,
\* the last time it was migrated and no earlier one; and it is otherwise the one the user wrote,
\* every annotation of the user's included (disposition.go 19-30).  One whose patch could not be
\* built is the user's altogether.
DeclinedSelfDescribing ==
  \A o \in DOMAIN answered \ Whited : IsBuildConfig(o) =>
    IF Patchless(o) THEN output[Id(o)] = o ELSE
    LET kept == output[Id(o)].content
        users == DOMAIN o.content.annotations
                   \ {ConversionOutcomeAnnotation, ConversionReasonAnnotation}
    IN  /\ [kept EXCEPT !.annotations = EmptyMap] = [o.content EXCEPT !.annotations = EmptyMap]
        /\ DOMAIN kept.annotations
             = users \union {ConversionOutcomeAnnotation, ConversionReasonAnnotation}
        /\ \A key \in users : kept.annotations[key] = o.content.annotations[key]
        /\ kept.annotations[ConversionOutcomeAnnotation] = answered[o].logged.state
        /\ kept.annotations[ConversionReasonAnnotation] = truncateReason(answered[o].logged.reason)

\* "The same input always produces the same output, so converting twice is safe"
\* (docs/architecture.md 199): migrating an output again, with nothing repaired, changes nothing.
RerunStable == status = "done" /\ export = Range(before) => output = before

\* A stray comma or padding in a flag never reaches registries.conf (plugin.go 189-191): every
\* registry a Build is given is one the user wrote between two commas.
RegistriesClean ==
  \A o \in DOMAIN answered : \A n \in DOMAIN answered[o].resources :
    LET resource == answered[o].resources[n] IN
    resource.kind = "Build" => \A k \in DOMAIN resource.build.params :
      LET param == resource.build.params[k] IN
      param.name \in {"registries-search", "registries-insecure", "registries-block"}
        => param.value # <<>> /\ Blank \notin ToSet(param.value)

\* A migration comes to its end: every process answers, whatever it is handed.
MigrationEnds == status = "running" ~> status # "running"

-----------------------------------------------------------------------------
(* Two statements of the documentation that the code does not keep.        *)

\* README.md: "A BuildConfig that does name a ServiceAccount keeps it: crane migrates that
\* account unchanged and the plugin never overwrites it".  The account generated for another
\* BuildConfig is named after that BuildConfig, and may have the same name.
NamedAccountKept ==
  status = "done" =>
    \A b, account \in export :
      /\ IsBuildConfig(b) /\ account.kind = "ServiceAccount" /\ account.ns = b.ns
      /\ account.name = <<b.content.serviceAccount>>
      => output[Id(account)] = account

\* docs/architecture.md: conversion-reason is written on the "passed-through BuildConfig" when
\* it is "skipped or failed".  The annotations of a BuildConfig that is converted once it was
\* repaired are copied onto its Build, the old reason among them.
ReasonOnDeclinedOnly ==
  \A object \in Range(output) :
    object.kind = "Build"
      => ConversionReasonAnnotation \notin DOMAIN object.content.build.annotations
=============================================================================
