-------------------------------- MODULE Names --------------------------------
(***************************************************************************)
(* The names of what the plugin generates (buildconfig/names.go, with its  *)
(* three callers): every BuildConfig of a namespace is converted by a      *)
(* process of its own, so nothing but the names keeps the resources of two *)
(* of them apart.  A name is a sequence of characters.                     *)
(***************************************************************************)
EXTENDS Naturals, FiniteSets, SequencesExt

CONSTANTS
  Originals,       \* the names of the BuildConfigs of a namespace
  Characters,      \* the characters names are made of
  Alphanumerics,   \* the characters of [a-z0-9]
  Lower,           \* an upper-case character, and what strings.ToLower makes of it
  Digest(_),       \* the first nameHashLength hex characters of the SHA-256 of a name
  MaxLength,       \* maxGeneratedNameLength
  HashLength,      \* nameHashLength
  MaxConverted     \* bound: how many BuildConfigs are converted

\* The name each generated resource is derived from, and every name that is sanitized.
GeneratedKinds == {"Build", "ServiceAccount", "ConfigMap"}
Original(kind, name) == IF kind = "ConfigMap" THEN name \o <<"-", "dockerfile">> ELSE name
Sources == {Original(kind, name) : kind \in GeneratedKinds, name \in Originals}

\* Digests are taken to tell names apart: 32 bits of SHA-256, over the names of one namespace.
ASSUME NamesAssumption ==
  /\ Originals \subseteq Seq(Characters) \ {<<>>} /\ {"-", "dockerfile"} \subseteq Characters
  /\ {"b", "c"} \subseteq Alphanumerics /\ Alphanumerics \subseteq Characters \ {"-"}
  /\ DOMAIN Lower \subseteq Characters \ (Alphanumerics \union {"-"})
  /\ HashLength \in Nat \ {0} /\ MaxLength \in Nat /\ HashLength + 2 < MaxLength
  /\ MaxConverted \in Nat
  /\ \A a \in Sources : Digest(a) \in Seq(Alphanumerics) /\ Len(Digest(a)) = HashLength
  /\ \A a, b \in Sources : Digest(a) = Digest(b) => a = b

-----------------------------------------------------------------------------
(* sanitizeDNS1123Label.                                                   *)

ToLower(name) ==
  [p \in DOMAIN name |-> IF name[p] \in DOMAIN Lower THEN Lower[name[p]] ELSE name[p]]

\* A mistake the runs must notice: the pattern [^a-z0-9]+ takes dashes for invalid too.
AlphanumericOnly(c) == c \in Alphanumerics

\* invalidDNS1123LabelChars matches runs of what is not [a-z0-9-].
AllowedChar(c) == c \in Alphanumerics \union {"-"}

\* ReplaceAllString: a run of invalid characters becomes one dash.
ReplaceInvalid(s) ==
  LET starts == {p \in DOMAIN s : AllowedChar(s[p]) \/ p = 1 \/ AllowedChar(s[p - 1])}
      nth(n) == CHOOSE p \in starts : Cardinality({q \in starts : q <= p}) = n
  IN  [n \in 1..Cardinality(starts) |-> IF AllowedChar(s[nth(n)]) THEN s[nth(n)] ELSE "-"]

\* strings.Trim(s, "-")
TrimDashes(s) ==
  LET solid == {p \in DOMAIN s : s[p] # "-"}
  IN  IF solid = {} THEN <<>> ELSE SubSeq(s, Min(solid), Max(solid))

MaxBase == MaxLength - (HashLength + 1)

\* Two mistakes the runs must notice: nothing is put before the dash of a name without a usable
\* character,
withBareHashSuffix(base, original) ==
  TrimDashes(SubSeq(base, 1, Min({Len(base), MaxBase}))) \o <<"-">> \o Digest(original)

\* and the hash is taken of the sanitized name.
withBaseHashSuffix(base, original) ==
  LET stem == TrimDashes(SubSeq(base, 1, Min({Len(base), MaxBase})))
  IN  (IF stem = <<>> THEN <<"b", "c">> ELSE stem) \o <<"-">> \o Digest(base)

withHashSuffix(base, original) ==
  LET stem == TrimDashes(SubSeq(base, 1, Min({Len(base), MaxBase})))
  IN  (IF stem = <<>> THEN <<"b", "c">> ELSE stem) \o <<"-">> \o Digest(original)

Base(name) == TrimDashes(ReplaceInvalid(ToLower(name)))
Kept(name) == Base(name) = name /\ Len(name) <= MaxLength

sanitizeDNS1123Label(name) == IF Kept(name) THEN name ELSE withHashSuffix(Base(name), name)

-----------------------------------------------------------------------------
(* What a conversion names, through uniqueName, and where it ends up.      *)

\* Every source with its label.
Label == [source \in Sources |-> sanitizeDNS1123Label(source)]

Resource(kind, name) == <<kind, Label[Original(kind, name)]>>

VARIABLES
  converted,   \* the BuildConfigs converted so far
  owner        \* for each resource in the output, the BuildConfig it was generated for

vars == <<converted, owner>>

Init == converted = {} /\ owner = [r \in {} |-> <<>>]

\* One conversion.  Of two resources of one name, the output has the later.
Generate(name) ==
  LET generated == {Resource(kind, name) : kind \in GeneratedKinds} IN
  /\ name \notin converted /\ Cardinality(converted) < MaxConverted
  /\ converted' = converted \union {name}
  /\ owner' = [r \in DOMAIN owner \union generated |-> IF r \in generated THEN name ELSE owner[r]]

\* The namespace has no more BuildConfigs, or the bound is reached.
AllNamed == /\ Originals \subseteq converted \/ Cardinality(converted) = MaxConverted
            /\ UNCHANGED vars

Next == (\E name \in Originals : Generate(name)) \/ AllNamed

Spec == Init /\ [][Next]_vars

-----------------------------------------------------------------------------
\* What Kubernetes accepts as a DNS-1123 label.
ValidLabel(s) ==
  /\ Len(s) \in 1..MaxLength
  /\ ToSet(s) \subseteq Alphanumerics \union {"-"}
  /\ s[1] # "-" /\ s[Len(s)] # "-"

\* Whatever a BuildConfig is called, what is generated for it has a name the target cluster
\* accepts: no character, length or leading dash survives the rewriting (names.go 24-57).
LabelsValid == \A r \in DOMAIN owner : ValidLabel(r[2])

\* A name the cluster accepts already is kept: scripts and chained Builds that refer to it by
\* name still find it after the migration.
ValidNamesKept ==
  \A name \in converted : \A kind \in GeneratedKinds :
    ValidLabel(Original(kind, name)) => <<kind, Original(kind, name)>> \in DOMAIN owner

\* The gap docs/support-matrix.md 77 documents: a valid name that is another's rewritten one.
Gap(a, b) == /\ a # b /\ Label[a] = Label[b]
             /\ Kept(a) # Kept(b)

\* No BuildConfig loses a generated resource to another one's, in whatever order they are
\* converted, but for the documented gap: two names that were both rewritten stay apart, even
\* when truncation or the replaced characters leave them the same prefix (names.go 28-31).
LostOnlyInGap ==
  \A name \in converted : \A kind \in GeneratedKinds :
    LET by == owner[Resource(kind, name)]
    IN  by = name \/ Gap(Original(kind, name), Original(kind, by))
=============================================================================
