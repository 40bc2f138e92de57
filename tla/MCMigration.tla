----------------------------- MODULE MCMigration -----------------------------
(***************************************************************************)
(* Small migrations: a handful of objects chosen so that every response of *)
(* the plugin occurs beside every other one, and their exports.            *)
(***************************************************************************)
EXTENDS MCConvert, Migration, DispositionKeys

CONSTANT MaxObjects   \* bound: how many objects a first export has

-----------------------------------------------------------------------------
(* BuildConfigs.                                                           *)

PullingDocker == OnDocker([DockerPlain EXCEPT !.pullSecret = "pull"])
Annotations1 == <<"team">> :> "a"

\* Converted, into a Build, a ServiceAccount and a ConfigMap.
Inlined == [Plain EXCEPT !.strategy = PullingDocker, !.annotations = Annotations1,
                         !.source.dockerfile = "FROM scratch"]

\* Converted, under names that differ only in what a label cannot hold.
Dotted == [Inlined EXCEPT !.name = <<"My.App">>]
Underscored == [Plain EXCEPT !.name = <<"My_App">>, !.strategy = PullingDocker]

\* Skipped, with no annotations; failed, with the user's; failed, for a reason that is too long.
Skipped == [Plain EXCEPT !.name = <<"custom">>,
                         !.strategy = [type |-> "Custom", docker |-> Nil, source |-> Nil]]
Failing == [Archive EXCEPT !.name = <<"archive">>, !.annotations = Annotations1]
Unresolved == [Plain EXCEPT !.name = <<"odd">>, !.annotations = Annotations1,
                 !.strategy = OnDocker([DockerPlain EXCEPT !.from = Ref("ImageStream", "", App)])]

\* Failed, and its patch cannot be built.
Stubborn == [Failing EXCEPT !.name = <<"stubborn">>]
MCUnpatchable == {Stubborn}

MCBuildConfigs == {Inlined, Dotted, Underscored, Skipped, Failing, Unresolved, Stubborn}

MCMigrationRewritten ==
  MCRewritten @@ (<<"My_App">> :> <<"my-app-", "c05d7712">>)
MCCutReasons == "DockerFrom" :> "DockerFr..."

-----------------------------------------------------------------------------
(* Objects, exports and flags.                                             *)

Object(kind, group, name, content) ==
  [kind |-> kind, group |-> group, ns |-> "shop", name |-> name, content |-> content]
BuildConfigObject(b) == Object("BuildConfig", "build.openshift.io", b.name, b)
Untouched(kind, group, name) == Object(kind, group, name, [of |-> "the user"])

Objects ==
  {BuildConfigObject(b) : b \in MCBuildConfigs}
    \union {Object("BuildConfig", "build.openshift.io", <<"broken">>, Nil),
            Untouched("BuildConfig", "example.com", App),
            Untouched("ServiceAccount", "", <<"builder">>)}

MCExports == {objects \in SUBSET Objects : Cardinality(objects) <= MaxObjects}

\* What the theorems about replacements ask of an export holds of these.
ASSUME ExportsApart == Apart(Objects)

Entry(text, padded) == [text |-> text, padded |-> padded]

\* A stray comma, padding, a list with nothing in it, a map that is empty.
MessyFlags ==
  ("search-registries" :> <<Entry("docker.io", TRUE), Entry(Blank, FALSE), Entry(Blank, TRUE)>>)
    @@ ("insecure-registries" :> <<Entry(Blank, TRUE)>>)
    @@ ("registry-mapping" :> Nil)
    @@ ("default-build-strategy" :> [docker |-> "buildah-with-volumes"])

ASSUME FlagsWellFormed == WellFormed(MessyFlags)

MCMessyOptions == {ParseOptionalFields(MessyFlags)}

\* An account that one BuildConfig names and that another one's is called.
Base == <<"base">>
AccountExports ==
  {{Untouched("ServiceAccount", "", Base),
    BuildConfigObject([Plain EXCEPT !.serviceAccount = "base"]),
    BuildConfigObject([Plain EXCEPT !.name = Base, !.strategy = PullingDocker])}}
AccountBuildConfigs == {o.content : o \in UNION AccountExports} \ {[of |-> "the user"]}

FailingExports == {{BuildConfigObject(Failing)}}
=============================================================================
