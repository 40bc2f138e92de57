--------------------------- MODULE RegistryMapping ---------------------------
(***************************************************************************)
(* applyRegistryMapping (buildconfig/imagestream.go) as the code runs it:  *)
(* the keys of a Go map are collected in any order, sorted, and tried one  *)
(* by one.  ImageRefs says what it must return.  A reference and a key are *)
(* sequences of bytes here, so that the sort has what it compares.         *)
(***************************************************************************)
EXTENDS ImageRefs

CONSTANTS
  Refs,      \* the image references looked up
  Mappings   \* the values of --registry-mapping

\* Bytes are numbers; a flag's entry is text, empty when it was malformed.
ASSUME MappingAssumption ==
  /\ Refs \subseteq Seq(Nat)
  /\ \A m \in Mappings : DOMAIN m \subseteq Seq(Nat) /\ \A key \in DOMAIN m : m[key] \in Seq(Nat)

VARIABLES
  ref,       \* imageRef
  mapping,   \* registryMapping
  pc,        \* "collect", then "apply", then "done"
  keys,      \* the keys collected, then sorted
  k,         \* the key the loop is at
  image      \* what the function returns

vars == <<ref, mapping, pc, keys, k, image>>

Init ==
  /\ ref \in Refs /\ mapping \in Mappings
  /\ pc = "collect" /\ keys = <<>> /\ k = 1 /\ image = <<>>

-----------------------------------------------------------------------------
\* for k := range registryMapping: the next key is any that was not visited.
CollectKey ==
  /\ pc = "collect"
  /\ \E key \in DOMAIN mapping \ ToSet(keys) : keys' = Append(keys, key)
  /\ UNCHANGED <<ref, mapping, pc, k, image>>

\* Go compares strings byte by byte.
Below(a, b) ==
  \E p \in DOMAIN a \intersect DOMAIN b : a[p] < b[p] /\ \A q \in 1..(p - 1) : a[q] = b[q]

\* A mistake the runs must notice: keys compared as text, so that a prefix of a key is before it.
LexicalOnly(a, b) == Below(a, b) \/ (IsPrefix(a, b) /\ a # b)

\* The function sort.Slice is given: the longest first, ties in text order.
Before(a, b) == Len(a) > Len(b) \/ (Len(a) = Len(b) /\ Below(a, b))

\* The sort leaves the same keys, none after one it should be before.
SortKeys ==
  /\ pc = "collect" /\ ToSet(keys) = DOMAIN mapping
  /\ \E sorted \in [DOMAIN keys -> DOMAIN mapping] :
       /\ ToSet(sorted) = DOMAIN mapping
       /\ \A p, q \in DOMAIN sorted : p < q => ~Before(sorted[q], sorted[p])
       /\ keys' = sorted
  /\ pc' = "apply"
  /\ UNCHANGED <<ref, mapping, k, image>>

\* An empty key or value is a malformed entry.
Usable(key) == key # <<>> /\ IsPrefix(key, ref) /\ mapping[key] # <<>>

SkipKey ==
  /\ pc = "apply" /\ k <= Len(keys) /\ ~Usable(keys[k])
  /\ k' = k + 1
  /\ UNCHANGED <<ref, mapping, pc, keys, image>>

Replace ==
  /\ pc = "apply" /\ k <= Len(keys) /\ Usable(keys[k])
  /\ image' = mapping[keys[k]] \o SubSeq(ref, Len(keys[k]) + 1, Len(ref))
  /\ pc' = "done"
  /\ UNCHANGED <<ref, mapping, keys, k>>

NoKeyLeft ==
  /\ pc = "apply" /\ k > Len(keys)
  /\ image' = ref /\ pc' = "done"
  /\ UNCHANGED <<ref, mapping, keys, k>>

\* applyRegistryMapping has returned.
Returned == pc = "done" /\ UNCHANGED vars

Next == CollectKey \/ SortKeys \/ SkipKey \/ Replace \/ NoKeyLeft \/ Returned

Spec == Init /\ [][Next]_vars

-----------------------------------------------------------------------------
TypeOK ==
  /\ ref \in Refs /\ mapping \in Mappings
  /\ pc \in {"collect", "apply", "done"}
  /\ keys \in Seq(DOMAIN mapping) /\ k \in 1..(Len(keys) + 1)
  /\ image \in Seq(Nat)

\* Whatever order Go iterates the map in, the image is the one the longest usable prefix gives:
\* the same flags convert a BuildConfig to the same Build on every run (BUILD-2339).
OrderIrrelevant == pc = "done" => image = applyRegistryMapping(ref, mapping)
=============================================================================
