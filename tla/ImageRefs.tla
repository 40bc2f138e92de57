------------------------------ MODULE ImageRefs ------------------------------
(***************************************************************************)
(* How the plugin turns an image reference of a BuildConfig into the image *)
(* a Shipwright Build pulls or pushes (buildconfig/imagestream.go, and the *)
(* output half of it in processOutput).                                    *)
(*                                                                         *)
(* A reference is a sequence of tokens, "quay.io/team/app:v1" being        *)
(* <<"quay.io", "/", "team", "/", "app", ":", "v1">>.  A token is as small *)
(* as a key of --registry-mapping can cut: prefixes are prefixes of        *)
(* sequences, exactly as strings.HasPrefix is blind to path components.    *)
(***************************************************************************)
EXTENDS Naturals, Sequences, SequencesExt

\* internalRegistryURL, as one registry token: no mapping key splits it here.
InternalRegistry == <<"image-registry.openshift-image-registry.svc:5000">>

\* The zero value of a Go string.
Blank == ""

(***************************************************************************)
(* The flags that rewrite references: two maps, whose values may be empty  *)
(* when an entry was malformed.                                            *)
(*   registryMapping    : prefix -> replacement                            *)
(*   imageStreamMapping : namespace "/" name -> reference                  *)
(***************************************************************************)

\* The entries that can rewrite ref: an empty key or value is never used.
UsableKeys(ref, mapping) ==
  {k \in DOMAIN mapping : k # <<>> /\ mapping[k] # <<>> /\ IsPrefix(k, ref)}

\* The most specific entry wins, the replacement keeps the rest of ref.
applyRegistryMapping(ref, mapping) ==
  LET usable == UsableKeys(ref, mapping)
  IN  IF usable = {}
      THEN ref
      ELSE LET key == CHOOSE k \in usable : \A j \in usable : Len(j) <= Len(k)
           IN  mapping[key] \o SubSeq(ref, Len(key) + 1, Len(ref))

\* namespace + "/" + name, the key of --imagestream-mapping.
StreamKey(ns, name) == <<ns, "/">> \o name

\* Everything before the first "/": the host of a reference.
imageRegistryHost(image) ==
  LET cuts == {i \in DOMAIN image : image[i] = "/"}
  IN  IF cuts = {}
      THEN image
      ELSE SubSeq(image, 1, (CHOOSE i \in cuts : \A j \in cuts : i <= j) - 1)

\* What resolveImageRef returns: an image and the warning it asks for, or an error.
Resolved(image, warning) == [ok |-> TRUE, image |-> image, warning |-> warning]
Unresolvable == [ok |-> FALSE, image |-> <<>>, warning |-> Blank]

\* A DockerImage: a pull spec goes through the registry mapping, a bare name may be an
\* ImageStream in disguise, so it is looked up and, when nothing rewrites it, reported.
ResolveDockerImage(name, ns, opts) ==
  LET mapped == applyRegistryMapping(name, opts.registryMapping) IN
  CASE Contains(name, "/") -> Resolved(mapped, Blank)
    [] ~Contains(name, "/") /\ StreamKey(ns, name) \in DOMAIN opts.imageStreamMapping ->
         Resolved(applyRegistryMapping(opts.imageStreamMapping[StreamKey(ns, name)],
                                       opts.registryMapping), Blank)
    [] OTHER -> Resolved(mapped, IF mapped = name THEN "BareImage" ELSE Blank)

\* The image of an ImageStream reference: the mapped one, else the internal registry's.
StreamImage(ns, name, opts) ==
  applyRegistryMapping(
    IF StreamKey(ns, name) \in DOMAIN opts.imageStreamMapping
    THEN opts.imageStreamMapping[StreamKey(ns, name)]
    ELSE InternalRegistry \o <<"/">> \o StreamKey(ns, name),
    opts.registryMapping)

\* It is reported only when no flag touched it.
ResolveStream(ns, name, opts) ==
  LET image == StreamImage(ns, name, opts)
  IN  Resolved(image,
        IF /\ StreamKey(ns, name) \notin DOMAIN opts.imageStreamMapping
           /\ image = InternalRegistry \o <<"/">> \o StreamKey(ns, name)
        THEN "StreamFallback" ELSE Blank)

resolveImageRef(kind, name, ns, opts) ==
  CASE kind = "DockerImage" -> ResolveDockerImage(name, ns, opts)
    [] kind \in {"ImageStreamTag", "ImageStreamImage"} -> ResolveStream(ns, name, opts)
    [] OTHER -> Unresolvable

\* An output ImageStreamTag names a tag, "latest" when it names none.
OutputTag(name) == IF Contains(name, ":") THEN name ELSE name \o <<":", "latest">>

\* A mistake the runs must notice: --registry-mapping is not applied to a mapped output tag.
OutputImageUnmirrored(kind, name, ns, opts) ==
  LET key == StreamKey(ns, OutputTag(name)) IN
  CASE kind # "ImageStreamTag" -> name
    [] kind = "ImageStreamTag" /\ key \in DOMAIN opts.imageStreamMapping ->
         opts.imageStreamMapping[key]
    [] OTHER -> applyRegistryMapping(InternalRegistry \o <<"/">> \o key, opts.registryMapping)

\* The image a Build pushes for spec.output.to (its namespace already defaulted): processOutput
\* resolves the tag by itself, it does not go through resolveImageRef.
OutputImage(kind, name, ns, opts) ==
  LET key == StreamKey(ns, OutputTag(name)) IN
  CASE kind # "ImageStreamTag" -> name
    [] kind = "ImageStreamTag" /\ key \in DOMAIN opts.imageStreamMapping ->
         applyRegistryMapping(opts.imageStreamMapping[key], opts.registryMapping)
    [] OTHER -> applyRegistryMapping(InternalRegistry \o <<"/">> \o key, opts.registryMapping)

\* processOutput's warnings on an ImageStreamTag: nothing mapped it, or the push left the
\* internal registry.
OutputUnmapped(name, ns, opts) ==
  StreamKey(ns, OutputTag(name)) \notin DOMAIN opts.imageStreamMapping
OffInternalRegistry(image) == ~IsPrefix(InternalRegistry \o <<"/">>, image)
=============================================================================
