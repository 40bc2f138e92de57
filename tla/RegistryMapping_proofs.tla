----------------------- MODULE RegistryMapping_proofs -----------------------
(***************************************************************************)
(* The loop of applyRegistryMapping returns what ImageRefs says, for every *)
(* reference and every mapping, whatever order the map is iterated in.     *)
(***************************************************************************)
EXTENDS RegistryMapping, SequenceTheorems, TLAPS

\* Two keys of one length that both match a reference are one key.
LEMMA MatchingKeysDiffer ==
  ASSUME NEW r \in Seq(Nat), NEW a \in Seq(Nat), NEW b \in Seq(Nat),
         IsPrefix(a, r), IsPrefix(b, r), Len(a) = Len(b)
  PROVE  a = b
<1>1. SubSeq(a, 1, Len(a)) = SubSeq(b, 1, Len(b))
  BY DEF IsPrefix
<1>2. SubSeq(a, 1, Len(a)) = a /\ SubSeq(b, 1, Len(b)) = b
  BY SubSeqFull
<1> QED
  BY <1>1, <1>2

\* The reference definition, once a longest usable key is at hand.
LEMMA LongestKeyWins ==
  ASSUME NEW r \in Seq(Nat), NEW m, DOMAIN m \subseteq Seq(Nat),
         NEW key \in UsableKeys(r, m), \A j \in UsableKeys(r, m) : Len(j) <= Len(key)
  PROVE  applyRegistryMapping(r, m) = m[key] \o SubSeq(r, Len(key) + 1, Len(r))
<1> DEFINE usable == UsableKeys(r, m)
           Longest(j) == \A other \in usable : Len(other) <= Len(j)
           chosen == CHOOSE j \in usable : Longest(j)
<1>1. usable # {} /\ key \in usable /\ Longest(key)
  OBVIOUS
<1>2. chosen \in usable /\ Longest(chosen)
  BY <1>1
<1>3. /\ key \in Seq(Nat) /\ IsPrefix(key, r)
      /\ chosen \in Seq(Nat) /\ IsPrefix(chosen, r)
  BY <1>1, <1>2 DEF UsableKeys
<1>4. Len(chosen) = Len(key)
  <2>1. Len(chosen) <= Len(key) /\ Len(key) <= Len(chosen)
    BY <1>1, <1>2
  <2>2. Len(chosen) \in Nat /\ Len(key) \in Nat
    BY <1>3
  <2> QED
    BY <2>1, <2>2
<1>5. chosen = key
  BY <1>3, <1>4, MatchingKeysDiffer
<1> QED
  BY <1>1, <1>5 DEF applyRegistryMapping

-----------------------------------------------------------------------------
\* Longest first, over every key of the mapping.
Sorted ==
  /\ ToSet(keys) = DOMAIN mapping
  /\ \A p, q \in DOMAIN keys : p < q => Len(keys[q]) <= Len(keys[p])

\* What the loop has established when it is at key k.
LoopInvariant ==
  /\ TypeOK
  /\ IF pc = "collect" THEN k = 1 ELSE Sorted
  /\ \A j \in 1..(k - 1) : ~Usable(keys[j])
  /\ OrderIrrelevant

LEMMA KeysAreText ==
  ASSUME TypeOK
  PROVE  /\ ref \in Seq(Nat) /\ DOMAIN mapping \subseteq Seq(Nat)
         /\ \A key \in DOMAIN mapping : mapping[key] \in Seq(Nat)
         /\ Len(keys) \in Nat /\ DOMAIN keys = 1..Len(keys)
         /\ \A p \in DOMAIN keys : keys[p] \in DOMAIN mapping
BY MappingAssumption DEF TypeOK

LEMMA InitHolds == Init => LoopInvariant
BY DEF Init, LoopInvariant, TypeOK, OrderIrrelevant

LEMMA CollectPreserves ==
  ASSUME LoopInvariant, CollectKey
  PROVE  LoopInvariant'
<1>1. PICK key \in DOMAIN mapping : keys' = Append(keys, key)
  BY DEF CollectKey
<1>2. keys' \in Seq(DOMAIN mapping) /\ Len(keys') = Len(keys) + 1 /\ Len(keys) \in Nat
  BY <1>1 DEF LoopInvariant, TypeOK
<1>3. pc = "collect" /\ k = 1 /\ UNCHANGED <<ref, mapping, pc, k, image>>
  BY DEF CollectKey, LoopInvariant
<1>4. TypeOK'
  BY <1>2, <1>3 DEF LoopInvariant, TypeOK
<1> QED
  BY <1>3, <1>4 DEF LoopInvariant, OrderIrrelevant

LEMMA SortPreserves ==
  ASSUME LoopInvariant, SortKeys
  PROVE  LoopInvariant'
<1>1. PICK sorted \in [DOMAIN keys -> DOMAIN mapping] :
        /\ ToSet(sorted) = DOMAIN mapping
        /\ \A p, q \in DOMAIN sorted : p < q => ~Before(sorted[q], sorted[p])
        /\ keys' = sorted
  BY DEF SortKeys
<1>2. pc = "collect" /\ k = 1 /\ pc' = "apply" /\ UNCHANGED <<ref, mapping, k, image>>
  BY DEF SortKeys, LoopInvariant
<1>3. Len(keys) \in Nat /\ DOMAIN keys = 1..Len(keys) /\ DOMAIN mapping \subseteq Seq(Nat)
  BY KeysAreText DEF LoopInvariant
<1>4. keys' \in Seq(DOMAIN mapping) /\ DOMAIN keys' = DOMAIN sorted
  BY <1>1, <1>3
<1>5. \A p, q \in DOMAIN sorted : p < q => Len(sorted[q]) <= Len(sorted[p])
  <2> TAKE p, q \in DOMAIN sorted
  <2> HAVE p < q
  <2>1. sorted[p] \in Seq(Nat) /\ sorted[q] \in Seq(Nat)
    BY <1>1, <1>3
  <2>2. ~(Len(sorted[q]) > Len(sorted[p]))
    BY <1>1 DEF Before
  <2> QED
    BY <2>1, <2>2
<1>6. Sorted'
  BY <1>1, <1>2, <1>4, <1>5 DEF Sorted
<1>7. TypeOK'
  BY <1>2, <1>4 DEF LoopInvariant, TypeOK
<1> QED
  BY <1>2, <1>6, <1>7 DEF LoopInvariant, OrderIrrelevant

LEMMA SkipPreserves ==
  ASSUME LoopInvariant, SkipKey
  PROVE  LoopInvariant'
<1>1. /\ pc = "apply" /\ k <= Len(keys) /\ ~Usable(keys[k]) /\ k' = k + 1
      /\ UNCHANGED <<ref, mapping, pc, keys, image>>
  BY DEF SkipKey
<1>2. TypeOK /\ Len(keys) \in Nat /\ k \in Nat
  BY KeysAreText DEF LoopInvariant, TypeOK
<1>3. TypeOK'
  BY <1>1, <1>2 DEF TypeOK
<1>4. Sorted'
  BY <1>1 DEF Sorted, LoopInvariant
<1>5. \A j \in 1..(k' - 1) : ~Usable(keys[j])'
  <2> TAKE j \in 1..(k' - 1)
  <2>1. j \in 1..(k - 1) \/ j = k
    BY <1>1, <1>2
  <2>2. ~Usable(keys[j])
    BY <1>1, <2>1 DEF LoopInvariant
  <2> QED
    BY <1>1, <2>2 DEF Usable
<1> QED
  BY <1>1, <1>3, <1>4, <1>5 DEF LoopInvariant, OrderIrrelevant

\* No key before k is usable, so the usable ones are not longer than any key at or after it.
LEMMA UsableFromHere ==
  ASSUME LoopInvariant, pc = "apply"
  PROVE  \A j \in UsableKeys(ref, mapping) : \E p \in k..Len(keys) : j = keys[p]
<1> TAKE j \in UsableKeys(ref, mapping)
<1>1. j \in DOMAIN mapping /\ Usable(j)
  BY DEF UsableKeys, Usable
<1>2. PICK p \in DOMAIN keys : j = keys[p]
  BY <1>1 DEF LoopInvariant, Sorted, ToSet
<1>3. ~(p \in 1..(k - 1))
  BY <1>1, <1>2 DEF LoopInvariant
<1>4. p \in 1..Len(keys) /\ k \in Nat /\ Len(keys) \in Nat
  BY <1>2, KeysAreText DEF LoopInvariant, TypeOK
<1> QED
  BY <1>2, <1>3, <1>4

LEMMA ReplacePreserves ==
  ASSUME LoopInvariant, Replace
  PROVE  LoopInvariant'
<1>1. /\ pc = "apply" /\ k <= Len(keys) /\ Usable(keys[k]) /\ pc' = "done"
      /\ image' = mapping[keys[k]] \o SubSeq(ref, Len(keys[k]) + 1, Len(ref))
      /\ UNCHANGED <<ref, mapping, keys, k>>
  BY DEF Replace
<1>2. /\ ref \in Seq(Nat) /\ DOMAIN mapping \subseteq Seq(Nat) /\ DOMAIN keys = 1..Len(keys)
      /\ Len(keys) \in Nat /\ k \in 1..Len(keys)
      /\ keys[k] \in DOMAIN mapping /\ mapping[keys[k]] \in Seq(Nat)
  BY <1>1, KeysAreText DEF LoopInvariant, TypeOK
<1>3. keys[k] \in UsableKeys(ref, mapping)
  BY <1>1, <1>2 DEF UsableKeys, Usable
<1>4. \A j \in UsableKeys(ref, mapping) : Len(j) <= Len(keys[k])
  <2> TAKE j \in UsableKeys(ref, mapping)
  <2>1. PICK p \in k..Len(keys) : j = keys[p]
    BY <1>1, UsableFromHere
  <2>2. CASE p = k
    <3>1. Len(keys[k]) \in Nat
      BY <1>2
    <3> QED
      BY <2>1, <2>2, <3>1
  <2>3. CASE p # k
    <3>1. p \in DOMAIN keys /\ k \in DOMAIN keys /\ k < p
      BY <1>2, <2>1, <2>3
    <3>2. Sorted
      BY <1>1 DEF LoopInvariant
    <3> QED
      BY <2>1, <3>1, <3>2 DEF Sorted
  <2> QED
    BY <2>2, <2>3
<1>5. image' = applyRegistryMapping(ref, mapping)
  BY <1>1, <1>2, <1>3, <1>4, LongestKeyWins
<1>6. Len(keys[k]) \in Nat /\ Len(ref) \in Nat
  BY <1>2
<1>7. SubSeq(ref, Len(keys[k]) + 1, Len(ref)) \in Seq(Nat)
  BY <1>2, <1>6
<1>8. image' \in Seq(Nat)
  BY <1>1, <1>2, <1>7
<1>9. TypeOK'
  BY <1>1, <1>8 DEF LoopInvariant, TypeOK
<1>10. Sorted'
  BY <1>1 DEF LoopInvariant, Sorted
<1> QED
  BY <1>1, <1>5, <1>9, <1>10 DEF LoopInvariant, OrderIrrelevant, Usable

LEMMA NoKeyPreserves ==
  ASSUME LoopInvariant, NoKeyLeft
  PROVE  LoopInvariant'
<1>1. /\ pc = "apply" /\ k > Len(keys) /\ image' = ref /\ pc' = "done"
      /\ UNCHANGED <<ref, mapping, keys, k>>
  BY DEF NoKeyLeft
<1>2. ref \in Seq(Nat) /\ Len(keys) \in Nat /\ k \in Nat
  BY KeysAreText DEF LoopInvariant, TypeOK
<1>3. UsableKeys(ref, mapping) = {}
  <2>1. k..Len(keys) = {}
    BY <1>1, <1>2
  <2> QED
    BY <1>1, <2>1, UsableFromHere
<1>4. image' = applyRegistryMapping(ref, mapping)
  BY <1>1, <1>3 DEF applyRegistryMapping
<1>5. TypeOK'
  BY <1>1, <1>2 DEF LoopInvariant, TypeOK
<1> QED
  BY <1>1, <1>4, <1>5 DEF LoopInvariant, Sorted, OrderIrrelevant, Usable

\* The winner never depends on Go's map order: whatever the flags and the reference, what the
\* loop returns is what the longest usable prefix gives (imagestream.go 61-99, BUILD-2339).
THEOREM MappingDeterministic == Spec => []OrderIrrelevant
<1>1. LoopInvariant /\ [Next]_vars => LoopInvariant'
  <2> SUFFICES ASSUME LoopInvariant, [Next]_vars
               PROVE  LoopInvariant'
    OBVIOUS
  <2>1. CASE CollectKey
    BY <2>1, CollectPreserves
  <2>2. CASE SortKeys
    BY <2>2, SortPreserves
  <2>3. CASE SkipKey
    BY <2>3, SkipPreserves
  <2>4. CASE Replace
    BY <2>4, ReplacePreserves
  <2>5. CASE NoKeyLeft
    BY <2>5, NoKeyPreserves
  <2>6. CASE UNCHANGED vars
    BY <2>6 DEF vars, LoopInvariant, TypeOK, Sorted, OrderIrrelevant, Usable
  <2> QED
    BY <2>1, <2>2, <2>3, <2>4, <2>5, <2>6 DEF Next, Returned
<1>2. LoopInvariant => OrderIrrelevant
  BY DEF LoopInvariant
<1> QED
  BY InitHolds, <1>1, <1>2, PTL DEF Spec
=============================================================================
