------------------------------- MODULE Plugin -------------------------------
(***************************************************************************)
(* One process of the plugin (buildconfig/plugin.go, Run): it is handed    *)
(* one object of the export, and answers with one response.  A BuildConfig *)
(* goes through Convert, on a Converter of its own.                        *)
(***************************************************************************)
EXTENDS Convert, Disposition

CONSTANT Unpatchable   \* the BuildConfigs whose annotations dispositionPatch fails to patch

VARIABLES
  request,    \* the object the process was started for, Nil when no process runs
  response    \* what it wrote on its standard output, Nil until it has

pluginVars == <<vars, request, response>>

-----------------------------------------------------------------------------
(* The flags.  A list is a sequence of entries, the text between two       *)
(* commas; a map is what crane-lib parses it into.                         *)

\* strings.TrimSpace
TrimSpace(entry) == entry.text

\* A mistake the runs must notice: an entry is tested before it is trimmed.
parseUntrimmedList(entries) ==
  LET used == SelectSeq(entries, LAMBDA entry : entry # [text |-> Blank, padded |-> FALSE])
  IN  [k \in DOMAIN used |-> TrimSpace(used[k])]

\* Each entry in turn is trimmed, and appended unless nothing is left of it.
parseRegistryList(entries) ==
  LET out[n \in 0..Len(entries)] ==
        IF n = 0 THEN <<>>
        ELSE IF TrimSpace(entries[n]) = Blank THEN out[n - 1]
        ELSE Append(out[n - 1], TrimSpace(entries[n]))
  IN  out[Len(entries)]

\* A flag that holds a list, when it is given.
WellFormed(extras) ==
  \A flag \in {"search-registries", "insecure-registries", "block-registries"} :
    flag \in DOMAIN extras => IsList(extras[flag])

MapFlag(extras, flag) ==
  IF flag \in DOMAIN extras /\ extras[flag] # Nil THEN extras[flag] ELSE EmptyMap
ListFlag(extras, flag) ==
  IF flag \in DOMAIN extras THEN parseRegistryList(extras[flag]) ELSE <<>>

\* Every process is given the same flags, and parses them into opts.
ParseOptionalFields(extras) ==
  [registryMapping |-> MapFlag(extras, "registry-mapping"),
   imageStreamMapping |-> MapFlag(extras, "imagestream-mapping"),
   strategyMapping |-> MapFlag(extras, "default-build-strategy"),
   search |-> ListFlag(extras, "search-registries"),
   insecure |-> ListFlag(extras, "insecure-registries"),
   block |-> ListFlag(extras, "block-registries")]

-----------------------------------------------------------------------------
(* Run.                                                                    *)

IsBuildConfig(object) == object.kind = "BuildConfig" /\ object.group = "build.openshift.io"

\* What json.Unmarshal cannot make a BuildConfig of has no content here.
Decodable(object) == object.content # Nil

\* The response that leaves the object as it is; logged is the outcome the process logs.
PassThrough ==
  [error |-> FALSE, whiteout |-> FALSE, resources |-> <<>>, patch |-> <<>>, logged |-> Nil]

Awaited == request # Nil /\ response = Nil
Respond(answer) == response' = answer /\ UNCHANGED <<vars, request>>

PassOther == Awaited /\ ~IsBuildConfig(request) /\ Respond(PassThrough)

\* The one error Run can return, before any conversion starts.
RefuseUndecodable ==
  /\ Awaited /\ IsBuildConfig(request) /\ ~Decodable(request)
  /\ Respond([PassThrough EXCEPT !.error = TRUE])

StartConversion ==
  /\ Awaited /\ IsBuildConfig(request) /\ Decodable(request) /\ results = <<>>
  /\ Begin(request.content)
  /\ UNCHANGED <<request, response>>

Converting == Step /\ UNCHANGED <<request, response>>

Converted == Awaited /\ results # <<>>
Outcome == [state |-> results[1].state, reason |-> results[1].reason]
Declined == Outcome.state \in {"skipped", "failed"}
Patchless(object) == object.content \in Unpatchable

\* A mistake the runs must notice: whatever the outcome, the BuildConfig is removed.
ReplaceAlways ==
  /\ Converted
  /\ Respond([PassThrough EXCEPT !.whiteout = TRUE, !.resources = results[1].resources,
                                 !.logged = Outcome])

\* The BuildConfig leaves the output, and its Build enters.
Replace ==
  /\ Converted /\ ~Declined
  /\ Respond([PassThrough EXCEPT !.whiteout = TRUE, !.resources = results[1].resources,
                                 !.logged = Outcome])

\* A mistake the runs must notice: a conversion that was declined is tried again.
TryAgain ==
  /\ Converted /\ Declined
  /\ warnings' = <<>> /\ results' = <<>>
  /\ UNCHANGED <<opts, bc, cur, pc, i, start, build, extra, generatedSA, notices>>
  /\ UNCHANGED <<request, response>>

\* passThroughWithDisposition: the BuildConfig stays, with a patch that says why.
PassAnnotated ==
  /\ Converted /\ Declined /\ ~Patchless(request)
  /\ Respond([PassThrough EXCEPT
                !.patch = dispositionPatch(request.content.annotations, Outcome.state,
                                           Outcome.reason),
                !.logged = Outcome])

\* A mistake the runs must notice: a patch that could not be made fails the migration.
FailUnannotated ==
  /\ Converted /\ Declined /\ Patchless(request)
  /\ Respond([PassThrough EXCEPT !.error = TRUE, !.logged = Outcome])

\* It stays without one when the patch could not be made: no reason to fail the migration.
PassUnannotated ==
  /\ Converted /\ Declined /\ Patchless(request)
  /\ Respond([PassThrough EXCEPT !.logged = Outcome])

PluginStep == PassOther \/ RefuseUndecodable \/ StartConversion \/ Converting
                \/ Replace \/ PassAnnotated \/ PassUnannotated

\* The process is gone, with its Converter: what Convert recorded goes with it.
Exit ==
  /\ request' = Nil /\ response' = Nil
  /\ warnings' = <<>> /\ results' = <<>>
  /\ UNCHANGED <<opts, bc, cur, pc, i, start, build, extra, generatedSA, notices>>
=============================================================================
