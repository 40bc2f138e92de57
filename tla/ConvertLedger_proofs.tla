------------------------ MODULE ConvertLedger_proofs ------------------------
(***************************************************************************)
(* What the proofs of the properties of Convert count with: the warnings   *)
(* with an id among those of the conversion that is running, the steps that *)
(* are behind it, the Build that Finish returns and what its annotations   *)
(* and its warnings say.                                                   *)
(***************************************************************************)
EXTENDS Convert_proofs, FiniteSetTheorems, WellFoundedInduction

-----------------------------------------------------------------------------
(* The ledger: the messages with certain ids in a list, how many they are, *)
(* and what the messages with one id name.                                 *)

\* How many messages have one of some ids,
Count(s, ids) == Cardinality(At(s, ids))

\* and what those with one id name.
Abouts(s, id) == {s[k].about : k \in At(s, {id})}

\* Messages can be counted.
LEMMA LedgerCounts ==
  ASSUME NEW s, IsList(s), NEW ids
  PROVE  /\ IsFiniteSet(At(s, ids)) /\ Count(s, ids) \in Nat /\ Count(s, ids) <= Len(s)
         /\ Count(s, ids) = 0 <=> At(s, ids) = {}
<1>1. Len(s) \in Nat /\ DOMAIN s = 1..Len(s)
  BY ListFacts
<1>2. IsFiniteSet(1..Len(s)) /\ Cardinality(1..Len(s)) = Len(s)
  <2>1. /\ IsFiniteSet(1..Len(s))
        /\ Cardinality(1..Len(s)) = IF 1 > Len(s) THEN 0 ELSE Len(s) - 1 + 1
    BY <1>1, FS_Interval
  <2> QED
    BY <1>1, <2>1
<1>3. At(s, ids) \subseteq 1..Len(s)
  BY <1>1 DEF At
<1>4. IsFiniteSet(At(s, ids)) /\ Cardinality(At(s, ids)) <= Len(s)
  BY <1>2, <1>3, FS_Subset
<1>5. Cardinality(At(s, ids)) \in Nat
  BY <1>4, FS_CardinalityType
<1>6. Cardinality(At(s, ids)) = 0 <=> At(s, ids) = {}
  BY <1>4, FS_EmptySet
<1> QED
  BY <1>4, <1>5, <1>6 DEF Count

\* A message with an id names something.
LEMMA LedgerNames ==
  ASSUME NEW s, NEW id
  PROVE  Abouts(s, id) = {} <=> At(s, {id}) = {}
BY DEF Abouts

\* No message, and one.
LEMMA LedgerNone ==
  ASSUME NEW ids, NEW id
  PROVE  At(<<>>, ids) = {} /\ Count(<<>>, ids) = 0 /\ Abouts(<<>>, id) = {}
<1>1. At(<<>>, ids) = {} /\ At(<<>>, {id}) = {}
  BY DEF At
<1> QED
  BY <1>1, FS_EmptySet DEF Abouts, Count

\* One message.
LEMMA LedgerOne ==
  ASSUME NEW id, NEW about, NEW ids, NEW other
  PROVE  /\ Count(W(id, about), ids) = IF id \in ids THEN 1 ELSE 0
         /\ Abouts(W(id, about), other) = IF id = other THEN {about} ELSE {}
<1>1. /\ DOMAIN W(id, about) = {1}
      /\ W(id, about)[1].id = id /\ W(id, about)[1].about = about
  BY DEF W
<1>2. /\ At(W(id, about), ids) = IF id \in ids THEN {1} ELSE {}
      /\ At(W(id, about), {other}) = IF id = other THEN {1} ELSE {}
  BY <1>1 DEF At
<1>3. Cardinality({1}) = 1 /\ Cardinality({}) = 0
  BY FS_Singleton, FS_EmptySet
<1> QED
  BY <1>1, <1>2, <1>3 DEF Abouts, Count

\* A message on a condition.
LEMMA LedgerWhen ==
  ASSUME NEW condition, NEW s, NEW ids, NEW id
  PROVE  /\ Count(When(condition, s), ids) = IF condition THEN Count(s, ids) ELSE 0
         /\ Abouts(When(condition, s), id) = IF condition THEN Abouts(s, id) ELSE {}
BY LedgerNone DEF When

\* Two lists of messages.
LEMMA LedgerConcat ==
  ASSUME NEW s, NEW t, IsList(s), IsList(t), NEW ids, NEW id
  PROVE  /\ Count(s \o t, ids) = Count(s, ids) + Count(t, ids)
         /\ Abouts(s \o t, id) = Abouts(s, id) \union Abouts(t, id)
<1> DEFINE n == Len(s)
           u == s \o t
<1>1. n \in Nat /\ Len(t) \in Nat /\ DOMAIN s = 1..n /\ DOMAIN t = 1..Len(t)
  BY ListFacts
<1>2. /\ DOMAIN u = 1..(n + Len(t))
      /\ \A k \in 1..n : u[k] = s[k]
      /\ \A k \in (n + 1)..(n + Len(t)) : u[k] = t[k - n]
  BY <1>1, ListConcat, ListFacts
<1>3. \A k \in 1..Len(t) : u[n + k] = t[k]
  <2> SUFFICES ASSUME NEW k \in 1..Len(t) PROVE u[n + k] = t[k]
    OBVIOUS
  <2>1. n + k \in (n + 1)..(n + Len(t)) /\ (n + k) - n = k
    BY <1>1
  <2> QED
    BY <1>2, <2>1
<1> HIDE DEF u, n
<1>4. ASSUME NEW S PROVE At(u, S) = At(s, S) \union {n + k : k \in At(t, S)}
  <2>1. ASSUME NEW k \in At(u, S) PROVE k \in At(s, S) \union {n + j : j \in At(t, S)}
    <3>1. k \in 1..(n + Len(t)) /\ u[k].id \in S
      BY <1>2 DEF At
    <3>2. CASE k \in 1..n
      BY <1>1, <1>2, <3>1, <3>2 DEF At
    <3>3. CASE k \in (n + 1)..(n + Len(t))
      <4>1. k - n \in 1..Len(t) /\ n + (k - n) = k
        BY <1>1, <3>3
      <4>2. k - n \in At(t, S)
        BY <1>1, <1>3, <3>1, <4>1 DEF At
      <4> QED
        BY <4>1, <4>2
    <3> QED
      BY <1>1, <3>1, <3>2, <3>3
  <2>2. ASSUME NEW k \in At(s, S) PROVE k \in At(u, S)
    <3>1. k \in 1..n /\ s[k].id \in S
      BY <1>1 DEF At
    <3>2. k \in 1..(n + Len(t))
      BY <1>1, <3>1
    <3> QED
      BY <1>2, <3>1, <3>2 DEF At
  <2>3. ASSUME NEW k \in At(t, S) PROVE n + k \in At(u, S)
    <3>1. k \in 1..Len(t) /\ t[k].id \in S
      BY <1>1 DEF At
    <3>2. n + k \in 1..(n + Len(t))
      BY <1>1, <3>1
    <3> QED
      BY <1>2, <1>3, <3>1, <3>2 DEF At
  <2> QED
    BY <2>1, <2>2, <2>3
<1>5. ASSUME NEW S PROVE At(s, S) \subseteq 1..n /\ At(t, S) \subseteq 1..Len(t)
  BY <1>1 DEF At
<1>6. Abouts(u, id) = Abouts(s, id) \union Abouts(t, id)
  <2>1. \A k \in At(s, {id}) : u[k] = s[k]
    BY <1>2, <1>5
  <2>2. \A k \in At(t, {id}) : u[n + k] = t[k]
    BY <1>3, <1>5
  <2>3. At(u, {id}) = At(s, {id}) \union {n + k : k \in At(t, {id})}
    BY <1>4
  <2>4. {u[k].about : k \in At(u, {id})}
          = {u[k].about : k \in At(s, {id})} \union {u[n + k].about : k \in At(t, {id})}
    BY <2>3
  <2>5. {u[k].about : k \in At(s, {id})} = {s[k].about : k \in At(s, {id})}
    BY <2>1
  <2>6. {u[n + k].about : k \in At(t, {id})} = {t[k].about : k \in At(t, {id})}
    BY <2>2
  <2> QED
    BY <2>4, <2>5, <2>6 DEF Abouts
<1>7. IsFiniteSet(At(s, ids)) /\ IsFiniteSet(At(t, ids))
  BY LedgerCounts
<1> DEFINE moved == {n + k : k \in At(t, ids)}
<1>8. IsFiniteSet(moved) /\ Cardinality(moved) = Cardinality(At(t, ids))
  <2> DEFINE f == [k \in At(t, ids) |-> n + k]
  <2>1. f \in [At(t, ids) -> moved]
    OBVIOUS
  <2>2. \A j, k \in At(t, ids) : f[j] = f[k] => j = k
    BY <1>1, <1>5
  <2>3. \A x \in moved : \E k \in At(t, ids) : f[k] = x
    OBVIOUS
  <2> HIDE DEF f, moved
  <2>4. DOMAIN f = At(t, ids)
    BY <2>1
  <2>5. f \in Injection(At(t, ids), moved)
    BY <2>1, <2>2, <2>4 DEF Injection, IsInjective
  <2>6. f \in Surjection(At(t, ids), moved)
    BY <2>1, <2>3 DEF Surjection
  <2>7. ExistsBijection(At(t, ids), moved)
    BY <2>5, <2>6 DEF Bijection, ExistsBijection
  <2> QED
    BY <1>7, <2>7, FS_Bijection
<1>9. At(s, ids) \intersect moved = {} /\ At(u, ids) = At(s, ids) \union moved
  BY <1>1, <1>4, <1>5
<1> HIDE DEF moved
<1>10. Cardinality(At(u, ids)) = Cardinality(At(s, ids)) + Cardinality(At(t, ids))
  <2>1. Cardinality(At(s, ids) \union moved)
          = Cardinality(At(s, ids)) + Cardinality(moved) - Cardinality(At(s, ids) \intersect moved)
    BY <1>7, <1>8, FS_Union
  <2>2. Cardinality(At(s, ids) \intersect moved) = 0
    BY <1>9, FS_EmptySet
  <2>3. Cardinality(At(s, ids)) \in Nat /\ Cardinality(moved) \in Nat
    BY <1>7, <1>8, FS_CardinalityType
  <2> QED
    BY <1>8, <1>9, <2>1, <2>2, <2>3
<1> QED
  BY <1>6, <1>10 DEF u, Count

\* The same, of any two lists.
LEMMA LedgerAdds ==
  \A s, t : IsList(s) /\ IsList(t) =>
    /\ \A ids : Count(s \o t, ids) = Count(s, ids) + Count(t, ids)
    /\ \A id : Abouts(s \o t, id) = Abouts(s, id) \union Abouts(t, id)
BY LedgerConcat

\* Attributing messages changes neither their ids nor what they name.
LEMMA LedgerAttributed ==
  ASSUME NEW who, NEW m, NEW ids, NEW id
  PROVE  /\ Count(Attributed(who, m), ids) = Count(m, ids)
         /\ Abouts(Attributed(who, m), id) = Abouts(m, id)
<1>1. /\ DOMAIN Attributed(who, m) = DOMAIN m
      /\ \A k \in DOMAIN m : Attributed(who, m)[k].id = m[k].id
      /\ \A k \in DOMAIN m : Attributed(who, m)[k].about = m[k].about
  BY DEF Attributed
<1>2. At(Attributed(who, m), ids) = At(m, ids) /\ At(Attributed(who, m), {id}) = At(m, {id})
  BY <1>1 DEF At
<1>3. At(m, {id}) \subseteq DOMAIN m
  BY DEF At
<1> QED
  BY <1>1, <1>2, <1>3 DEF Abouts, Count

\* A step raises no message with an id that is not one of its own.
LEMMA LedgerSilent ==
  ASSUME NEW m, NEW p, Messages(m, p), NEW ids, \A id \in ids : ~MayRaise(p, id)
  PROVE  Count(m, ids) = 0 /\ \A id \in ids : Abouts(m, id) = {}
<1>1. At(m, ids) = {} /\ \A id \in ids : At(m, {id}) = {}
  BY DEF Messages, At
<1> QED
  BY <1>1, FS_EmptySet DEF Abouts, Count

\* The first n numbers are n.
LEMMA CountTo ==
  ASSUME NEW n \in Nat
  PROVE  IsFiniteSet(1..n) /\ Cardinality(1..n) = n
<1>1. IsFiniteSet(1..n) /\ Cardinality(1..n) = IF 1 > n THEN 0 ELSE n - 1 + 1
  BY FS_Interval
<1> QED
  BY <1>1

\* A message with one id for each of the given objects.
Each(m, s, id) == m = [k \in DOMAIN s |-> m[k]] /\ \A k \in DOMAIN s : m[k].id = id

\* A message with one id for each of the given objects.
LEMMA LedgerEach ==
  ASSUME NEW s, IsList(s), NEW id, NEW m, Each(m, s, id), NEW ids
  PROVE  IsList(m) /\ Count(m, ids) = IF id \in ids THEN Len(s) ELSE 0
<1>1. Len(s) \in Nat /\ DOMAIN s = 1..Len(s)
  BY ListFacts
<1>2. m = [k \in 1..Len(s) |-> m[k]] /\ \A k \in 1..Len(s) : m[k].id = id
  BY <1>1 DEF Each
<1>3. IsList(m) /\ Len(m) = Len(s)
  BY <1>1, <1>2, ListIntro
<1>4. At(m, ids) = IF id \in ids THEN 1..Len(s) ELSE {}
  BY <1>2 DEF At
<1>5. Cardinality(1..Len(s)) = Len(s)
  BY <1>1, CountTo
<1>6. Cardinality({}) = 0
  BY FS_EmptySet
<1> QED
  BY <1>3, <1>4, <1>5, <1>6 DEF Count

\* Messages that all have one of the ids.
LEMMA LedgerAll ==
  ASSUME NEW m, IsList(m), NEW ids, \A k \in DOMAIN m : m[k].id \in ids
  PROVE  Count(m, ids) = Len(m)
<1>1. Len(m) \in Nat /\ DOMAIN m = 1..Len(m)
  BY ListFacts
<1>2. At(m, ids) = 1..Len(m)
  BY <1>1 DEF At
<1> QED
  BY <1>1, <1>2, CountTo DEF Count

-----------------------------------------------------------------------------
(* How many messages of a list have an id.                                 *)

\* How many messages have one id.
Tally(s, id) == Count(s, {id})

\* One message,
LEMMA TallyOne ==
  ASSUME NEW id, NEW about, NEW other
  PROVE  Tally(W(id, about), other) = IF id = other THEN 1 ELSE 0
<1> DEFINE ids == {other}
<1>1. id \in ids <=> id = other
  OBVIOUS
<1>2. Tally(W(id, about), other) = Count(W(id, about), ids)
  BY DEF Tally
<1> HIDE DEF ids
<1>3. Count(W(id, about), ids) = IF id \in ids THEN 1 ELSE 0
  BY LedgerOne
<1> QED
  BY <1>1, <1>2, <1>3

\* messages on a condition,
LEMMA TallyWhen ==
  ASSUME NEW condition, NEW m, NEW id
  PROVE  Tally(When(condition, m), id) = IF condition THEN Tally(m, id) ELSE 0
<1> DEFINE ids == {id}
           n == When(condition, m)
<1>1. Tally(n, id) = Count(n, ids) /\ Tally(m, id) = Count(m, ids)
  BY DEF Tally
<1> HIDE DEF ids
<1>2. Count(n, ids) = IF condition THEN Count(m, ids) ELSE 0
  BY LedgerWhen
<1> QED
  BY <1>1, <1>2

\* the messages of two lists,
LEMMA TallyAdds ==
  ASSUME NEW s, NEW t, IsList(s), IsList(t), NEW id
  PROVE  /\ IsList(s \o t) /\ Tally(s \o t, id) = Tally(s, id) + Tally(t, id)
         /\ Tally(s, id) \in Nat
<1> DEFINE ids == {id}
<1>1. Tally(s, id) = Count(s, ids) /\ Tally(t, id) = Count(t, ids)
      /\ Tally(s \o t, id) = Count(s \o t, ids)
  BY DEF Tally
<1> HIDE DEF ids
<1>2. Count(s, ids) \in Nat
  BY LedgerCounts
<1>3. Count(s \o t, ids) = Count(s, ids) + Count(t, ids)
  BY LedgerAdds
<1>4. IsList(s \o t)
  BY ListConcat
<1> QED
  BY <1>1, <1>2, <1>3, <1>4

\* those a step cannot raise,
LEMMA TallySilent ==
  ASSUME NEW m, NEW p, Messages(m, p), NEW id, ~MayRaise(p, id)
  PROVE  Tally(m, id) = 0
<1> DEFINE ids == {id}
<1>1. Tally(m, id) = Count(m, ids) /\ \A x \in ids : ~MayRaise(p, x)
  BY DEF Tally
<1> HIDE DEF ids
<1> QED
  BY <1>1, LedgerSilent

\* and one for each of some objects.
LEMMA TallyEach ==
  ASSUME NEW s, IsList(s), NEW id, NEW m, Each(m, s, id), NEW other
  PROVE  IsList(m) /\ Tally(m, other) = IF id = other THEN Len(s) ELSE 0
<1> DEFINE ids == {other}
<1>1. Tally(m, other) = Count(m, ids) /\ (id \in ids <=> id = other)
  BY DEF Tally
<1> HIDE DEF ids
<1> QED
  BY <1>1, LedgerEach

-----------------------------------------------------------------------------
(* What is in a list, and the largest of a set of numbers.                 *)

\* What is in two lists one after the other.
LEMMA ToSetConcat ==
  ASSUME NEW s, NEW t, IsList(s), IsList(t)
  PROVE  IsList(s \o t) /\ ToSet(s \o t) = ToSet(s) \union ToSet(t)
<1> DEFINE n == Len(s)
           u == s \o t
<1>1. n \in Nat /\ Len(t) \in Nat /\ DOMAIN s = 1..n /\ DOMAIN t = 1..Len(t)
  BY ListFacts
<1>2. /\ IsList(u) /\ DOMAIN u = 1..(n + Len(t))
      /\ \A k \in 1..n : u[k] = s[k]
      /\ \A k \in (n + 1)..(n + Len(t)) : u[k] = t[k - n]
  BY <1>1, ListConcat, ListFacts
<1> HIDE DEF u, n
<1>3. ASSUME NEW x \in ToSet(u) PROVE x \in ToSet(s) \union ToSet(t)
  <2>1. PICK k \in 1..(n + Len(t)) : u[k] = x
    BY <1>2 DEF ToSet
  <2>2. CASE k \in 1..n
    BY <1>1, <1>2, <2>1, <2>2 DEF ToSet
  <2>3. CASE k \in (n + 1)..(n + Len(t))
    <3>1. k - n \in 1..Len(t)
      BY <1>1, <2>3
    <3> QED
      BY <1>1, <1>2, <2>1, <2>3, <3>1 DEF ToSet
  <2> QED
    BY <1>1, <2>1, <2>2, <2>3
<1>4. ASSUME NEW x \in ToSet(s) PROVE x \in ToSet(u)
  <2>1. PICK k \in 1..n : s[k] = x
    BY <1>1 DEF ToSet
  <2>2. k \in 1..(n + Len(t))
    BY <1>1
  <2> QED
    BY <1>2, <2>1, <2>2 DEF ToSet
<1>5. ASSUME NEW x \in ToSet(t) PROVE x \in ToSet(u)
  <2>1. PICK k \in 1..Len(t) : t[k] = x
    BY <1>1 DEF ToSet
  <2>2. n + k \in (n + 1)..(n + Len(t)) /\ n + k \in 1..(n + Len(t)) /\ (n + k) - n = k
    BY <1>1
  <2> QED
    BY <1>2, <2>1, <2>2 DEF ToSet
<1> QED
  BY <1>2, <1>3, <1>4, <1>5 DEF u

\* Of the numbers that hold, one is the smallest: what induction over data rests on.
LEMMA LeastExists ==
  ASSUME NEW T, T \subseteq Nat, T # {}
  PROVE  \E n \in T : \A m \in T : n <= m
<1> DEFINE Less == OpToRel(<, Nat)
<1>1. \E n \in T : \A m \in T : ~(<<m, n>> \in Less)
  BY NatLessThanWellFounded, WFMin, Zenon
<1>2. \A m, n \in T : <<m, n>> \notin Less => n <= m
  BY DEF OpToRel
<1> QED
  BY <1>1, <1>2

\* Of the numbers up to n that hold, one is the largest.
LEMMA LargestExists ==
  ASSUME NEW n \in Nat, NEW T, T \subseteq 0..n, T # {}
  PROVE  \E m \in T : \A t \in T : t <= m
<1> DEFINE Mirror == {n - t : t \in T}
           Less == OpToRel(<, Nat)
<1>1. \A t \in T : t \in Nat /\ n - t \in Nat
  OBVIOUS
<1>2. Mirror \subseteq Nat /\ Mirror # {}
  BY <1>1
<1> HIDE DEF Mirror
<1>3. PICK x \in Mirror : \A y \in Mirror : ~(<<y, x>> \in Less)
  BY <1>2, NatLessThanWellFounded, WFMin, Zenon
<1>4. PICK m \in T : x = n - m
  BY DEF Mirror
<1>5. ASSUME NEW t \in T PROVE t <= m
  <2>1. n - t \in Mirror /\ n - t \in Nat /\ n - m \in Nat
    BY <1>1, <1>4 DEF Mirror
  <2>2. ~(n - t < n - m)
    BY <1>3, <1>4, <2>1 DEF OpToRel
  <2> QED
    BY <1>1, <2>2
<1> QED
  BY <1>5

-----------------------------------------------------------------------------
(* Which actions a step at a place may be.                                 *)

\* Where the steps of the strategy lead,
LEMMA StrategyPlaces ==
  ASSUME StrategySteps
  PROVE  \/ pc = "strategy" /\ (DockerStrategy \/ BareDockerStrategy \/ DockerImageUnresolvable
                              \/ SourceStrategy \/ BareSourceStrategy \/ SourceImageUnresolvable
                              \/ UnsupportedStrategy \/ UnknownStrategy)
         \/ pc = "buildArgs" /\ (SkipInvalidArg \/ LiteralArg \/ MapArg \/ SkipUnmappableArg
                               \/ BuildArgsDone)
         \/ pc = "volumes" /\ (ConvertVolume \/ SkipVolume \/ VolumesDone)
         \/ pc = "gate" /\ (PassGate \/ NoOutputImage)
<1>1. DockerStrategy => pc = "strategy"
  BY DEF DockerStrategy, Goto
<1>2. BareDockerStrategy => pc = "strategy"
  BY DEF BareDockerStrategy, Goto
<1>3. DockerImageUnresolvable => pc = "strategy"
  BY DEF DockerImageUnresolvable
<1>4. SourceStrategy => pc = "strategy"
  BY DEF SourceStrategy, Goto
<1>5. BareSourceStrategy => pc = "strategy"
  BY DEF BareSourceStrategy, Goto
<1>6. SourceImageUnresolvable \/ UnsupportedStrategy \/ UnknownStrategy => pc = "strategy"
  BY DEF SourceImageUnresolvable, UnsupportedStrategy, UnknownStrategy
<1>7. SkipInvalidArg \/ LiteralArg \/ MapArg \/ SkipUnmappableArg => pc = "buildArgs"
  BY DEF SkipInvalidArg, LiteralArg, MapArg, SkipUnmappableArg, MoreArgs
<1>8. BuildArgsDone => pc = "buildArgs"
  BY DEF BuildArgsDone, Goto
<1>9. ConvertVolume \/ SkipVolume \/ VolumesDone => pc = "volumes"
  BY DEF ConvertVolume, SkipVolume, VolumesDone, MoreVolumes, Goto
<1>10. PassGate \/ NoOutputImage => pc = "gate"
  BY DEF PassGate, NoOutputImage, Goto
<1> QED
  BY <1>1, <1>2, <1>3, <1>4, <1>5, <1>6, <1>7, <1>8, <1>9, <1>10 DEF StrategySteps

\* those of the source and the output,
LEMMA SourcePlaces ==
  ASSUME SourceSteps
  PROVE  \/ pc = "serviceAccount" /\ (NoAccountNeeded \/ AccountNamed \/ GenerateAccount
                                    \/ AccountUnserializable)
         \/ pc = "inlineDockerfile" /\ (NoInlineDockerfile \/ PreserveInlineDockerfile
                                      \/ DropInlineDockerfile \/ ConfigMapUnserializable)
         \/ pc = "source" /\ (MultipleSources \/ NoSource \/ GitSource \/ BinaryFile
                            \/ BinaryArchive \/ MultipleImages \/ ImageUnresolvable \/ ImageSource)
         \/ pc = "output" /\ Output
         \/ pc = "imageLabels" /\ (ImageLabel \/ SkipUnnamedLabel \/ ImageLabelsDone)
<1>1. NoAccountNeeded \/ AccountNamed \/ GenerateAccount => pc = "serviceAccount"
  BY DEF NoAccountNeeded, AccountNamed, GenerateAccount, Goto
<1>2. AccountUnserializable => pc = "serviceAccount"
  BY DEF AccountUnserializable
<1>3. NoInlineDockerfile \/ PreserveInlineDockerfile \/ DropInlineDockerfile
        => pc = "inlineDockerfile"
  BY DEF NoInlineDockerfile, PreserveInlineDockerfile, DropInlineDockerfile, Goto
<1>4. ConfigMapUnserializable => pc = "inlineDockerfile"
  BY DEF ConfigMapUnserializable
<1>5. MultipleSources \/ BinaryArchive \/ MultipleImages \/ ImageUnresolvable => pc = "source"
  BY DEF MultipleSources, BinaryArchive, MultipleImages, ImageUnresolvable
<1>6. NoSource \/ GitSource \/ BinaryFile \/ ImageSource => pc = "source"
  BY DEF NoSource, GitSource, BinaryFile, ImageSource, Goto
<1>7. Output => pc = "output"
  BY DEF Output, Goto
<1>8. ImageLabel \/ SkipUnnamedLabel \/ ImageLabelsDone => pc = "imageLabels"
  BY DEF ImageLabel, SkipUnnamedLabel, ImageLabelsDone, Goto
<1> QED
  BY <1>1, <1>2, <1>3, <1>4, <1>5, <1>6, <1>7, <1>8 DEF SourceSteps

\* those of the settings,
LEMMA SettingPlaces ==
  ASSUME SettingSteps
  PROVE  \/ pc = "deadline" /\ (NoDeadline \/ MapDeadline \/ DropDeadline)
         \/ pc = "nodeSelector" /\ (MapNodeSelector \/ DropNodeSelector)
         \/ pc = "runPolicy" /\ RunPolicy
         \/ pc = "postCommit" /\ PostCommit
         \/ pc = "historyLimits" /\ HistoryLimits
         \/ pc = "registries" /\ addRegistries
         \/ pc = "resources" /\ (NoResources \/ Resources \/ TemplateUnserializable)
<1>1. NoDeadline \/ MapDeadline \/ DropDeadline => pc = "deadline"
  BY DEF NoDeadline, MapDeadline, DropDeadline, Goto
<1>2. MapNodeSelector \/ DropNodeSelector => pc = "nodeSelector"
  BY DEF MapNodeSelector, DropNodeSelector, Goto
<1>3. /\ RunPolicy => pc = "runPolicy"
      /\ PostCommit => pc = "postCommit"
      /\ HistoryLimits => pc = "historyLimits"
      /\ addRegistries => pc = "registries"
  BY DEF RunPolicy, PostCommit, HistoryLimits, addRegistries, Goto
<1>4. NoResources \/ Resources \/ TemplateUnserializable => pc = "resources"
  BY DEF NoResources, Resources, TemplateUnserializable, Goto
<1> QED
  BY <1>1, <1>2, <1>3, <1>4 DEF SettingSteps

\* and those of the triggers.
LEMMA TriggerPlaces ==
  ASSUME TriggerSteps
  PROVE  \/ pc = "triggers" /\ (NoTriggers \/ Triggers)
         \/ pc = "chain" /\ processChainCandidates
BY DEF TriggerSteps, NoTriggers, Triggers, processChainCandidates, Goto

-----------------------------------------------------------------------------
(* What the invariants below stand on.                                     *)

\* The Build is a record with its fields, for this BuildConfig; a loop starts at 1.
Formed ==
  /\ pc # "idle" => /\ DOMAIN build = Fields
                    /\ build.name = Sanitize(bc.name) /\ build.ns = bc.ns
  /\ pc \notin Loops => i = 1

\* What the proofs below take for granted.
Background == TypeOK /\ Formed

\* It is the context the shapes of the steps are stated in.
LEMMA Context ==
  ASSUME TypeOK
  PROVE  StepContext /\ IsList(Own)
<1>1. StepContext
  BY DEF TypeOK, StepContext, Running
<1> QED
  BY <1>1, ListSuffix DEF TypeOK, Own, OwnWarnings

\* A step keeps it.
LEMMA StepFormed ==
  ASSUME Background, [Next]_vars
  PROVE  Formed'
<1>1. CASE \E b \in BuildConfigs : Begin(b)
  <2>1. PICK b \in BuildConfigs : Begin(b)
    BY <1>1
  <2>2. /\ DOMAIN Skeleton(b) = Fields
        /\ Skeleton(b).name = Sanitize(b.name) /\ Skeleton(b).ns = b.ns
    BY DEF Skeleton, Fields
  <2>3. bc' = b /\ build' = Skeleton(b) /\ pc' = "strategy" /\ i' = i /\ pc = "idle"
    BY <2>1 DEF Begin
  <2> HIDE DEF Skeleton
  <2> QED
    BY <2>2, <2>3 DEF Background, Formed, Loops
<1>2. CASE Goes
  <2>1. DOMAIN build = Fields /\ build.name = Sanitize(bc.name) /\ build.ns = bc.ns
    BY <1>2 DEF Background, Formed, Goes, Running
  <2>2. "name" \in Fields /\ "ns" \in Fields /\ ~MaySet(pc, "name") /\ ~MaySet(pc, "ns")
    BY DEF Fields, MaySet
  <2>3. DOMAIN build' = Fields /\ build'["name"] = build["name"] /\ build'["ns"] = build["ns"]
    BY <1>2, <2>1, <2>2 DEF Goes, Sets
  <2>4. build'.name = build.name /\ build'.ns = build.ns
    BY <2>3
  <2>5. pc' \notin Loops => i' = 1
    BY <1>2 DEF Background, Formed, Goes, Counts, Running, Follows, Loops
  <2> QED
    BY <1>2, <2>1, <2>3, <2>4, <2>5 DEF Goes, call, Formed
<1>3. CASE Declines \/ Finish
  BY <1>3 DEF Declines, Decline, Finish, Return, Formed
<1>4. CASE UNCHANGED vars
  BY <1>4 DEF vars, Background, Formed
<1> QED
  BY <1>1, <1>2, <1>3, <1>4, StepShapes DEF Next, AllConverted

\* The actions keep the form, so it is there throughout.
LEMMA BackgroundAlways == Spec => []Background
<1>1. Init => Formed
  BY DEF Init, Formed
<1>2. Background /\ TypeOK' /\ [Next]_vars => Background'
  BY StepFormed DEF Background
<1> QED
  BY <1>1, <1>2, TypeCorrect, PTL DEF Spec, Background

-----------------------------------------------------------------------------
(* The warnings of the conversion that is running.                         *)

\* A step that warns adds its messages to them.
LEMMA Tell ==
  ASSUME TypeOK, NEW m, IsList(m), Warn(m), UNCHANGED start, NEW ids, NEW id
  PROVE  /\ Count(Own', ids) = Count(Own, ids) + Count(m, ids)
         /\ Abouts(Own', id) = Abouts(Own, id) \union Abouts(m, id)
<1> DEFINE t == Attributed(cur, m)
<1>1. IsList(warnings) /\ IsList(t) /\ start \in 0..Len(warnings)
  BY AttributedList DEF TypeOK
<1>2. Own' = Own \o t
  BY <1>1, SuffixOfConcat DEF Own, OwnWarnings, Warn
<1>3. Count(t, ids) = Count(m, ids) /\ Abouts(t, id) = Abouts(m, id)
  BY LedgerAttributed
<1> HIDE DEF t
<1>4. IsList(Own)
  BY Context
<1> DEFINE u == Own
<1>5. IsList(u) /\ Own' = u \o t /\ u = Own
  BY <1>2, <1>4
<1> HIDE DEF u
<1>6. Count(u \o t, ids) = Count(u, ids) + Count(t, ids)
      /\ Abouts(u \o t, id) = Abouts(u, id) \union Abouts(t, id)
  BY <1>1, <1>5, LedgerAdds
<1> QED
  BY <1>3, <1>5, <1>6

\* A step with other messages changes nothing about those with these ids.
LEMMA Untold ==
  ASSUME TypeOK, Goes, NEW ids, \A id \in ids : ~MayRaise(pc, id)
  PROVE  /\ Count(Own', ids) = Count(Own, ids)
         /\ \A id \in ids : Abouts(Own', id) = Abouts(Own, id)
<1>1. PICK m : Messages(m, pc) /\ Warn(m)
  BY Context DEF Goes
<1>2. IsList(m) /\ UNCHANGED start
  BY <1>1 DEF Messages, Goes, call
<1>3. Count(m, ids) = 0 /\ \A id \in ids : Abouts(m, id) = {}
  BY <1>1, LedgerSilent
<1>4. Count(Own, ids) \in Nat
  BY Context, LedgerCounts
<1>5. Count(Own', ids) = Count(Own, ids) + Count(m, ids)
  BY <1>1, <1>2, Tell
<1>6. ASSUME NEW id \in ids PROVE Abouts(Own', id) = Abouts(Own, id) \union Abouts(m, id)
  BY <1>1, <1>2, Tell
<1> QED
  BY <1>3, <1>4, <1>5, <1>6

\* A conversion begins with no warnings but, perhaps, that its name was rewritten.
LEMMA BeginsUntold ==
  ASSUME TypeOK, NEW b, Begin(b), NEW ids, "RenamedBuild" \notin ids
  PROVE  Count(Own', ids) = 0 /\ \A id \in ids : Abouts(Own', id) = {}
<1> DEFINE m == RenameWarning("RenamedBuild", b.name)
           t == Attributed(Identity(b), m)
           u == SubSeq(warnings, Len(warnings) + 1, Len(warnings))
<1>1. IsList(warnings) /\ Len(warnings) \in Nat
  BY ListFacts DEF TypeOK
<1>2. IsList(m) /\ Count(m, ids) = 0 /\ \A id \in ids : Abouts(m, id) = {}
  <2>1. IsList(m)
    BY ListOfMessages DEF RenameWarning
  <2>2. Count(W("RenamedBuild", b.name), ids) = 0
    BY LedgerOne
  <2>3. \A id \in ids : Abouts(W("RenamedBuild", b.name), id) = {}
    BY LedgerOne
  <2> QED
    BY <2>1, <2>2, <2>3, LedgerWhen DEF RenameWarning
<1> HIDE DEF m
<1>3. IsList(t) /\ Count(t, ids) = 0 /\ \A id \in ids : Abouts(t, id) = {}
  BY <1>2, AttributedList, LedgerAttributed
<1>4. IsList(u) /\ Len(u) = 0
  BY <1>1, ListSuffix
<1>5. Own' = u \o t
  <2>1. warnings' = warnings \o t /\ start' = Len(warnings)
    BY DEF Begin, m
  <2>2. Len(warnings) \in 0..Len(warnings)
    BY <1>1
  <2> QED
    BY <1>1, <1>3, <2>1, <2>2, SuffixOfConcat DEF Own, OwnWarnings
<1> HIDE DEF t, u
<1>6. ASSUME NEW S PROVE At(u, S) = {}
  BY <1>4, ListFacts DEF At
<1>7. Count(u, ids) = 0 /\ \A id \in ids : Abouts(u, id) = {}
  BY <1>6, FS_EmptySet DEF Count, Abouts
<1>8. IsList(u) /\ IsList(t)
  BY <1>3, <1>4
<1>9. Count(u \o t, ids) = Count(u, ids) + Count(t, ids)
  BY <1>8, LedgerAdds
<1>10. ASSUME NEW id PROVE Abouts(u \o t, id) = Abouts(u, id) \union Abouts(t, id)
  BY <1>8, LedgerAdds
<1> QED
  BY <1>3, <1>5, <1>7, <1>9, <1>10

-----------------------------------------------------------------------------
(* What Convert returns when it replaces the BuildConfig.                  *)

\* The messages of the conversion that Finish ends,
Said == Own \o Attributed(cur, OmittedWarning)

\* and the result it returns.
Final == [bc |-> bc, state |-> State, reason |-> Blank, warnings |-> Said,
          resources |-> <<BuildResource(Classified)>> \o extra, recorded |-> Said,
          notices |-> notices]

\* It adds that to the results, which every other step leaves as they are, or adds a BuildConfig
\* that was declined to.
LEMMA NextCases ==
  ASSUME TypeOK, [Next]_vars
  PROVE  /\ UNCHANGED opts
         /\ \/ (\E b \in BuildConfigs : Begin(b)) /\ Replaced' = Replaced
            \/ Goes /\ Step /\ Replaced' = Replaced
            \/ pc' = "idle" /\ Replaced' = Replaced
            \/ /\ pc = "classify" /\ pc' = "idle"
               /\ Replaced' = Replaced \union {Final}
            \/ UNCHANGED vars
<1>1. IsList(results) /\ Len(results) \in Nat /\ DOMAIN results = 1..Len(results)
  BY ListFacts DEF TypeOK
<1>2. ASSUME NEW r, results' = Append(results, r) PROVE Returned' = Returned \union {r}
  <2>1. /\ DOMAIN results' = 1..(Len(results) + 1)
        /\ \A k \in 1..Len(results) : results'[k] = results[k]
        /\ results'[Len(results) + 1] = r
    BY <1>1, <1>2, ListAppend
  <2>2. ASSUME NEW x \in Returned' PROVE x \in Returned \union {r}
    <3>1. PICK k \in 1..(Len(results) + 1) : x = results'[k]
      BY <2>1 DEF Returned
    <3>2. k \in 1..Len(results) \/ k = Len(results) + 1
      BY <1>1
    <3> QED
      BY <1>1, <2>1, <3>1, <3>2 DEF Returned
  <2>3. ASSUME NEW x \in Returned PROVE x \in Returned'
    <3>1. PICK k \in 1..Len(results) : x = results[k]
      BY <1>1 DEF Returned
    <3>2. k \in 1..(Len(results) + 1)
      BY <1>1
    <3> QED
      BY <2>1, <3>1, <3>2 DEF Returned
  <2>4. r \in Returned'
    <3>1. Len(results) + 1 \in 1..(Len(results) + 1)
      BY <1>1
    <3> QED
      BY <2>1, <3>1 DEF Returned
  <2> QED
    BY <2>2, <2>3, <2>4
<1>3. ASSUME UNCHANGED results PROVE Replaced' = Replaced
  BY <1>3 DEF Replaced, Returned
<1>4. CASE \E b \in BuildConfigs : Begin(b)
  BY <1>3, <1>4 DEF Begin
<1>5. CASE Step /\ Goes
  BY <1>3, <1>5 DEF Goes, call
<1>6. CASE Declines
  <2>1. PICK state, reason, m :
          state \in {"skipped", "failed"} /\ Decline(state, reason, m)
    BY <1>6 DEF Declines
  <2> DEFINE r == [bc |-> bc, state |-> state, reason |-> reason, warnings |-> <<>>,
                   resources |-> <<>>,
                   recorded |-> SubSeq(warnings', start + 1, Len(warnings')),
                   notices |-> notices]
  <2>2. /\ results' = Append(results, r) /\ r.state = state
        /\ pc' = "idle" /\ UNCHANGED opts
    BY <2>1 DEF Decline, Return
  <2> HIDE DEF r
  <2>3. Returned' = Returned \union {r} /\ r.state \notin {"converted", "converted-with-warnings"}
    <3>1. state \in {"skipped", "failed"}
      BY <2>1
    <3> QED
      BY <1>2, <2>2, <3>1
  <2>4. Replaced' = Replaced
    BY <2>3 DEF Replaced
  <2> QED
    BY <2>2, <2>4
<1>7. CASE Finish
  <2> DEFINE recorded == SubSeq(warnings', start + 1, Len(warnings'))
             r == [bc |-> bc, state |-> State, reason |-> Blank, warnings |-> Said,
                   resources |-> <<BuildResource(Classified)>> \o extra, recorded |-> recorded,
                   notices |-> notices]
  <2>1. /\ results' = Append(results, r) /\ pc = "classify" /\ pc' = "idle" /\ UNCHANGED opts
        /\ Warn(OmittedWarning)
    BY <1>7 DEF Finish, Return, Said
  <2>2. recorded = Said
    <3>1. IsList(OmittedWarning)
      BY ListOfMessages DEF OmittedWarning
    <3>2. IsList(Attributed(cur, OmittedWarning)) /\ IsList(warnings) /\ start \in 0..Len(warnings)
      BY <3>1, AttributedList DEF TypeOK
    <3> QED
      BY <2>1, <3>2, SuffixOfConcat DEF Warn, Said, Own, OwnWarnings
  <2>3. r = Final
    BY <2>2 DEF Final
  <2>4. Final.state \in {"converted", "converted-with-warnings"}
    BY DEF Final, State
  <2> HIDE DEF r, recorded
  <2>5. Returned' = Returned \union {Final}
    BY <1>2, <2>1, <2>3
  <2>6. Replaced' = Replaced \union {Final}
    BY <2>4, <2>5 DEF Replaced
  <2> QED
    BY <2>1, <2>6
<1>8. CASE UNCHANGED vars
  BY <1>8 DEF vars
<1> QED
  BY <1>4, <1>5, <1>6, <1>7, <1>8, StepShapes DEF Next, AllConverted

\* The Build it returns is the one under construction, with two annotations more; the warnings
\* are those of the conversion, and perhaps the truncation notice.
LEMMA FinalBuild ==
  ASSUME Background, pc = "classify"
  PROVE  /\ Final.bc = bc /\ Final.notices = notices
         /\ BuildOf(Final) = Classified
         /\ \A field \in Fields : field # "annotations" => Classified[field] = build[field]
         /\ DOMAIN Classified = Fields
<1>1. DOMAIN build = Fields
  BY DEF Background, Formed
<1>2. /\ DOMAIN Classified = Fields
      /\ \A field \in Fields : field # "annotations" => Classified[field] = build[field]
  BY <1>1 DEF Classified, Annotate
<1>3. (<<BuildResource(Classified)>> \o extra)[1] = BuildResource(Classified)
  OBVIOUS
<1> QED
  BY <1>2, <1>3 DEF Final, BuildOf, BuildResource

\* Setting an annotation.
LEMMA AnnotationSet ==
  ASSUME NEW b, DOMAIN b = Fields, NEW key, NEW value
  PROVE  /\ DOMAIN Annotate(b, key, value) = Fields
         /\ \A field \in Fields : field # "annotations" =>
              Annotate(b, key, value)[field] = b[field]
         /\ DOMAIN Annotate(b, key, value).annotations = DOMAIN b.annotations \union {key}
         /\ Annotate(b, key, value).annotations[key] = value
         /\ \A k \in DOMAIN b.annotations : k # key =>
              Annotate(b, key, value).annotations[k] = b.annotations[k]
<1>1. "annotations" \in Fields
  BY DEF Fields
<1>2. Annotate(b, key, value).annotations = Put(b.annotations, key, value)
  BY <1>1 DEF Annotate
<1> QED
  BY <1>1, <1>2 DEF Annotate, Put

\* What the classification writes among the annotations, and the others, which it leaves alone.
LEMMA FinalAnnotations ==
  ASSUME Background, pc = "classify"
  PROVE  /\ Annotations(Final)[ConversionOutcomeAnnotation] = State
         /\ Own # <<>> => Annotations(Final)[ConversionWarningsAnnotation] = WarningsNote
         /\ \A key : key \notin {ConversionOutcomeAnnotation, ConversionWarningsAnnotation} =>
              /\ Has(Final, key) <=> key \in DOMAIN build.annotations
              /\ Has(Final, key) => Annotations(Final)[key] = build.annotations[key]
<1> DEFINE b == IF Own = <<>> THEN build
                ELSE Annotate(build, ConversionWarningsAnnotation, WarningsNote)
<1>1. ConversionOutcomeAnnotation # ConversionWarningsAnnotation
  BY DEF ConversionOutcomeAnnotation, ConversionWarningsAnnotation
<1>2. DOMAIN build = Fields
  BY DEF Background, Formed
<1> HIDE DEF State, WarningsNote, ConversionOutcomeAnnotation, ConversionWarningsAnnotation
<1>3. /\ DOMAIN b = Fields
      /\ DOMAIN b.annotations = DOMAIN build.annotations
           \union IF Own = <<>> THEN {} ELSE {ConversionWarningsAnnotation}
      /\ Own # <<>> => b.annotations[ConversionWarningsAnnotation] = WarningsNote
      /\ \A k \in DOMAIN build.annotations : k # ConversionWarningsAnnotation =>
           b.annotations[k] = build.annotations[k]
  <2>1. CASE Own = <<>>
    BY <1>2, <2>1
  <2>2. CASE Own # <<>>
    BY <1>2, <2>2, AnnotationSet
  <2> QED
    BY <2>1, <2>2
<1>4. Classified = Annotate(b, ConversionOutcomeAnnotation, State)
  BY DEF Classified
<1> HIDE DEF b
<1>5. /\ DOMAIN Classified.annotations = DOMAIN b.annotations \union {ConversionOutcomeAnnotation}
      /\ Classified.annotations[ConversionOutcomeAnnotation] = State
      /\ \A k \in DOMAIN b.annotations : k # ConversionOutcomeAnnotation =>
           Classified.annotations[k] = b.annotations[k]
  BY <1>3, <1>4, AnnotationSet
<1>6. Annotations(Final) = Classified.annotations
  BY FinalBuild DEF Annotations
<1> QED
  BY <1>1, <1>3, <1>5, <1>6 DEF Has

\* The annotations the plugin writes are not taken for one another.
LEMMA DistinctAnnotations ==
  /\ BuildRunTemplateAnnotation
       \notin {ConversionOutcomeAnnotation, ConversionWarningsAnnotation,
               OriginalTriggersAnnotation, InlineDockerfileConfigMapAnnotation,
               ConvertedFromAnnotation}
  /\ OriginalTriggersAnnotation
       \notin {ConversionOutcomeAnnotation, ConversionWarningsAnnotation,
               InlineDockerfileConfigMapAnnotation, ConvertedFromAnnotation}
  /\ InlineDockerfileConfigMapAnnotation
       \notin {ConversionOutcomeAnnotation, ConversionWarningsAnnotation}
BY DEF BuildRunTemplateAnnotation, ConversionOutcomeAnnotation, ConversionWarningsAnnotation,
       OriginalTriggersAnnotation, InlineDockerfileConfigMapAnnotation, ConvertedFromAnnotation

\* A warning but the truncation notice is in what was recorded when it was raised on the way.
LEMMA FinalSays ==
  ASSUME TypeOK, NEW ids, "WarningsOmitted" \notin ids
  PROVE  /\ Cardinality(At(Final.recorded, ids)) = Count(Own, ids)
         /\ Count(Own, ids) \in Nat
         /\ \A id \in ids : /\ Cardinality(Raised(Final, id)) = Count(Own, {id})
                            /\ Names(Final, id) = Abouts(Own, id)
                            /\ Raised(Final, id) # {} <=> Count(Own, {id}) # 0
                            /\ Raised(Final, id) # {} <=> Abouts(Own, id) # {}
<1> DEFINE m == OmittedWarning
           t == Attributed(cur, m)
<1>1. IsList(Own) /\ IsList(m) /\ IsList(t)
  BY Context, ListOfMessages, AttributedList DEF OmittedWarning
<1>2. ASSUME NEW S, "WarningsOmitted" \notin S
      PROVE  Count(m, S) = 0
  <2>1. Count(W("WarningsOmitted", <<>>), S) = 0
    BY <1>2, LedgerOne
  <2> HIDE DEF Kept
  <2>2. Count(m, S) = IF Kept < Len(Own) THEN Count(W("WarningsOmitted", <<>>), S) ELSE 0
    BY LedgerWhen, Zenon DEF OmittedWarning
  <2> QED
    BY <2>1, <2>2
<1>3. ASSUME NEW id \in ids PROVE Abouts(m, id) = {}
  <2>1. Abouts(W("WarningsOmitted", <<>>), id) = {}
    BY LedgerOne
  <2> QED
    BY <2>1, LedgerWhen DEF OmittedWarning
<1> HIDE DEF m
<1>4. ASSUME NEW S, "WarningsOmitted" \notin S
      PROVE  Count(t, S) = 0
  BY <1>2, <1>4, LedgerAttributed
<1>5. \A id \in ids : Abouts(t, id) = {}
  BY <1>3, LedgerAttributed
<1> DEFINE u == Own
<1>6. Final.recorded = u \o t
  BY DEF Final, Said, m
<1> HIDE DEF t, u
<1>7. IsList(u) /\ IsList(t)
  BY <1>1 DEF u
<1>8. IsList(u \o t)
  BY <1>7, ListConcat
<1>9. ASSUME NEW S, "WarningsOmitted" \notin S
      PROVE  Count(u \o t, S) = Count(u, S) /\ Count(u, S) \in Nat
  <2>1. Count(u, S) \in Nat
    BY <1>7, LedgerCounts
  <2>2. Count(u \o t, S) = Count(u, S) + Count(t, S)
    BY <1>7, LedgerAdds
  <2> QED
    BY <1>4, <1>9, <2>1, <2>2
<1>10. ASSUME NEW id \in ids
       PROVE  Abouts(u \o t, id) = Abouts(u, id)
  BY <1>5, <1>7, LedgerAdds
<1>11. ASSUME NEW id \in ids
       PROVE  /\ Cardinality(Raised(Final, id)) = Count(u, {id})
              /\ Names(Final, id) = Abouts(u, id)
              /\ Raised(Final, id) # {} <=> Count(u, {id}) # 0
              /\ Raised(Final, id) # {} <=> Abouts(u, id) # {}
  <2>1. "WarningsOmitted" \notin {id}
    OBVIOUS
  <2>2. Cardinality(Raised(Final, id)) = Count(u \o t, {id})
    BY <1>6 DEF Raised, Count
  <2>3. Count(u \o t, {id}) = Count(u, {id})
    BY <1>9, <2>1
  <2>4. Names(Final, id) = Abouts(u \o t, id)
    BY <1>6 DEF Names, Raised, Abouts
  <2>5. Count(u \o t, {id}) = 0 <=> At(u \o t, {id}) = {}
    BY <1>8, LedgerCounts
  <2>6. Raised(Final, id) = At(u \o t, {id})
    BY <1>6 DEF Raised
  <2>7. Abouts(u \o t, id) = {} <=> At(u \o t, {id}) = {}
    BY LedgerNames
  <2> QED
    BY <1>10, <2>2, <2>3, <2>4, <2>5, <2>6, <2>7
<1>12. Cardinality(At(Final.recorded, ids)) = Count(u \o t, ids)
  BY <1>6 DEF Count
<1> QED
  BY <1>9, <1>11, <1>12 DEF u

-----------------------------------------------------------------------------
(* What is behind: the steps after a step, down to the last.               *)

\* A set for each step: the steps after it.
PastResources == {"classify"}

PastChain == {"resources"} \union PastResources
PastTriggers == {"chain"} \union PastChain
PastRegistries == {"triggers"} \union PastTriggers
PastLimits == {"registries"} \union PastRegistries
PastPostCommit == {"historyLimits"} \union PastLimits
PastRunPolicy == {"postCommit"} \union PastPostCommit
PastNodeSelector == {"runPolicy"} \union PastRunPolicy
PastDeadline == {"nodeSelector"} \union PastNodeSelector
PastLabels == {"deadline"} \union PastDeadline
PastOutput == {"imageLabels"} \union PastLabels
PastSource == {"output"} \union PastOutput
PastDockerfile == {"source"} \union PastSource
PastAccount == {"inlineDockerfile"} \union PastDockerfile
PastGate == {"serviceAccount"} \union PastAccount
PastVolumes == {"gate"} \union PastGate

\* A step is behind once it is done, and stays behind.
LEMMA Passing ==
  ASSUME NEW p, NEW q, Follows(p, q)
  PROVE  /\ q \in PastResources <=> p \in PastResources \/ p = "resources"
         /\ q \in PastChain <=> p \in PastChain \/ p = "chain"
         /\ q \in PastTriggers <=> p \in PastTriggers \/ p = "triggers"
         /\ q \in PastRegistries <=> p \in PastRegistries \/ p = "registries"
         /\ q \in PastLimits <=> p \in PastLimits \/ p = "historyLimits"
         /\ q \in PastPostCommit <=> p \in PastPostCommit \/ p = "postCommit"
         /\ q \in PastNodeSelector <=> p \in PastNodeSelector \/ p = "nodeSelector"
         /\ q \in PastDeadline <=> p \in PastDeadline \/ p = "deadline"
         /\ q \in PastLabels <=> p \in PastLabels \/ (p = "imageLabels" /\ q # "imageLabels")
         /\ q \in PastOutput <=> p \in PastOutput \/ p = "output"
         /\ q \in PastSource <=> p \in PastSource \/ p = "source"
         /\ q \in PastDockerfile <=> p \in PastDockerfile \/ p = "inlineDockerfile"
         /\ q \in PastAccount <=> p \in PastAccount \/ p = "serviceAccount"
         /\ q \in PastGate <=> p \in PastGate \/ p = "gate"
         /\ q \in PastVolumes <=> \/ p \in PastVolumes
                                  \/ p \in {"strategy", "volumes"} /\ q = "gate"
BY DEF Follows, PastResources, PastChain, PastTriggers, PastRegistries, PastLimits,
       PastPostCommit, PastRunPolicy, PastNodeSelector, PastDeadline, PastLabels, PastOutput,
       PastSource, PastDockerfile, PastAccount, PastGate, PastVolumes

\* Nothing is behind a conversion that has not begun, or has just begun, or has ended.
LEMMA NothingPassed ==
  ASSUME NEW p \in {"idle", "strategy"}
  PROVE  /\ p \notin PastResources
         /\ p \notin PastChain
         /\ p \notin PastTriggers
         /\ p \notin PastRegistries
         /\ p \notin PastLimits
         /\ p \notin PastPostCommit
         /\ p \notin PastNodeSelector
         /\ p \notin PastDeadline
         /\ p \notin PastLabels
         /\ p \notin PastOutput
         /\ p \notin PastSource
         /\ p \notin PastDockerfile
         /\ p \notin PastAccount
         /\ p \notin PastGate
         /\ p \notin PastVolumes
BY DEF PastResources, PastChain, PastTriggers, PastRegistries, PastLimits,
       PastPostCommit, PastRunPolicy, PastNodeSelector, PastDeadline, PastLabels, PastOutput,
       PastSource, PastDockerfile, PastAccount, PastGate, PastVolumes

\* A step is not behind itself, and the last one has all the others behind it.
LEMMA PassedInOrder ==
  /\ "resources" \notin PastResources /\ "classify" \in PastResources
  /\ "chain" \notin PastChain /\ "classify" \in PastChain
  /\ "triggers" \notin PastTriggers /\ "classify" \in PastTriggers
  /\ "registries" \notin PastRegistries /\ "classify" \in PastRegistries
  /\ "historyLimits" \notin PastLimits /\ "classify" \in PastLimits
  /\ "postCommit" \notin PastPostCommit /\ "classify" \in PastPostCommit
  /\ "nodeSelector" \notin PastNodeSelector /\ "classify" \in PastNodeSelector
  /\ "deadline" \notin PastDeadline /\ "classify" \in PastDeadline
  /\ "imageLabels" \notin PastLabels /\ "classify" \in PastLabels
  /\ "output" \notin PastOutput /\ "classify" \in PastOutput
  /\ "source" \notin PastSource /\ "classify" \in PastSource
  /\ "inlineDockerfile" \notin PastDockerfile /\ "classify" \in PastDockerfile
  /\ "serviceAccount" \notin PastAccount /\ "classify" \in PastAccount
  /\ "gate" \notin PastGate /\ "classify" \in PastGate
  /\ "volumes" \notin PastVolumes /\ "classify" \in PastVolumes
BY DEF PastResources, PastChain, PastTriggers, PastRegistries, PastLimits,
       PastPostCommit, PastRunPolicy, PastNodeSelector, PastDeadline, PastLabels, PastOutput,
       PastSource, PastDockerfile, PastAccount, PastGate, PastVolumes

\* The action of a step that goes on.
LEMMA StepAt ==
  ASSUME Step, Goes
  PROVE  /\ pc = "strategy" => \/ DockerStrategy \/ BareDockerStrategy
                               \/ SourceStrategy \/ BareSourceStrategy
         /\ pc = "buildArgs" => \/ SkipInvalidArg \/ LiteralArg \/ MapArg \/ SkipUnmappableArg
                                \/ BuildArgsDone
         /\ pc = "volumes" => ConvertVolume \/ SkipVolume \/ VolumesDone
         /\ pc = "gate" => PassGate
         /\ pc = "serviceAccount" => NoAccountNeeded \/ AccountNamed \/ GenerateAccount
         /\ pc = "inlineDockerfile" =>
              NoInlineDockerfile \/ PreserveInlineDockerfile \/ DropInlineDockerfile
         /\ pc = "source" => NoSource \/ GitSource \/ BinaryFile \/ ImageSource
         /\ pc = "output" => Output
         /\ pc = "imageLabels" => ImageLabel \/ SkipUnnamedLabel \/ ImageLabelsDone
         /\ pc = "deadline" => NoDeadline \/ MapDeadline \/ DropDeadline
         /\ pc = "nodeSelector" => MapNodeSelector \/ DropNodeSelector
         /\ pc = "runPolicy" => RunPolicy
         /\ pc = "postCommit" => PostCommit
         /\ pc = "historyLimits" => HistoryLimits
         /\ pc = "registries" => addRegistries
         /\ pc = "triggers" => NoTriggers \/ Triggers
         /\ pc = "chain" => processChainCandidates
         /\ pc = "resources" => NoResources \/ Resources
<1>1. pc' # "idle" /\ pc \in Running
  BY DEF Goes, Follows
<1>2. ~(DockerImageUnresolvable \/ SourceImageUnresolvable \/ UnsupportedStrategy
          \/ UnknownStrategy \/ NoOutputImage)
  BY <1>1 DEF DockerImageUnresolvable, SourceImageUnresolvable, UnsupportedStrategy,
              UnknownStrategy, NoOutputImage, Decline, Return
<1>3. ~(AccountUnserializable \/ ConfigMapUnserializable \/ MultipleSources \/ BinaryArchive
          \/ MultipleImages \/ ImageUnresolvable)
  BY <1>1 DEF AccountUnserializable, ConfigMapUnserializable, MultipleSources, BinaryArchive,
              MultipleImages, ImageUnresolvable, SourceRejected, Decline, Return
<1>4. ~(TemplateUnserializable \/ Finish \/ BuildUnserializable)
  BY <1>1 DEF TemplateUnserializable, Finish, BuildUnserializable, Decline, Return
<1>5. StrategySteps => \/ pc = "strategy" /\ (DockerStrategy \/ BareDockerStrategy
                                           \/ SourceStrategy \/ BareSourceStrategy)
                       \/ pc = "buildArgs" /\ (SkipInvalidArg \/ LiteralArg \/ MapArg
                                            \/ SkipUnmappableArg \/ BuildArgsDone)
                       \/ pc = "volumes" /\ (ConvertVolume \/ SkipVolume \/ VolumesDone)
                       \/ pc = "gate" /\ PassGate
  BY <1>2, StrategyPlaces
<1>6. SourceSteps =>
        \/ pc = "serviceAccount" /\ (NoAccountNeeded \/ AccountNamed \/ GenerateAccount)
        \/ pc = "inlineDockerfile" /\ (NoInlineDockerfile \/ PreserveInlineDockerfile
                                    \/ DropInlineDockerfile)
        \/ pc = "source" /\ (NoSource \/ GitSource \/ BinaryFile \/ ImageSource)
        \/ pc = "output" /\ Output
        \/ pc = "imageLabels" /\ (ImageLabel \/ SkipUnnamedLabel \/ ImageLabelsDone)
  BY <1>3, SourcePlaces
<1>7. SettingSteps => \/ pc = "deadline" /\ (NoDeadline \/ MapDeadline \/ DropDeadline)
                      \/ pc = "nodeSelector" /\ (MapNodeSelector \/ DropNodeSelector)
                      \/ pc = "runPolicy" /\ RunPolicy
                      \/ pc = "postCommit" /\ PostCommit
                      \/ pc = "historyLimits" /\ HistoryLimits
                      \/ pc = "registries" /\ addRegistries
                      \/ pc = "resources" /\ (NoResources \/ Resources)
  BY <1>4, SettingPlaces
<1>8. StrategySteps \/ SourceSteps \/ SettingSteps \/ TriggerSteps
  BY <1>4 DEF Step
<1>9. CASE StrategySteps
  <2>1. CASE pc = "strategy"
    BY <1>5, <1>9, <2>1
  <2>2. CASE pc = "buildArgs"
    BY <1>5, <1>9, <2>2
  <2>3. CASE pc \in {"volumes", "gate"}
    BY <1>5, <1>9, <2>3
  <2> QED
    BY <1>5, <1>9, <2>1, <2>2, <2>3
<1>10. CASE SourceSteps
  <2>1. CASE pc \in {"serviceAccount", "inlineDockerfile"}
    BY <1>6, <1>10, <2>1
  <2>2. CASE pc = "source"
    BY <1>6, <1>10, <2>2
  <2>3. CASE pc \in {"output", "imageLabels"}
    BY <1>6, <1>10, <2>3
  <2> QED
    BY <1>6, <1>10, <2>1, <2>2, <2>3
<1>11. CASE SettingSteps
  BY <1>7, <1>11
<1>12. CASE TriggerSteps
  BY <1>12, TriggerPlaces
<1> QED
  BY <1>8, <1>9, <1>10, <1>11, <1>12

\* A field of the Build that the step may not set stays as it is, and so does what the
\* conversion is of.
LEMMA Untouched ==
  ASSUME Background, Goes
  PROVE  /\ UNCHANGED <<opts, bc>>
         /\ DOMAIN build = Fields /\ DOMAIN build' = Fields
         /\ \A field \in Fields : ~MaySet(pc, field) => build'[field] = build[field]
<1>1. DOMAIN build = Fields
  BY DEF Background, Formed, Goes, Running
<1> QED
  BY <1>1 DEF Goes, Sets, call

-----------------------------------------------------------------------------
(* What a step adds to what was told.                                      *)

\* After a step that raises this one warning, it is there.
LEMMA Told ==
  ASSUME TypeOK, NEW id, NEW about, Warn(W(id, about)), UNCHANGED start, NEW ids
  PROVE  /\ Count(Own', ids) = Count(Own, ids) + (IF id \in ids THEN 1 ELSE 0)
         /\ id \in ids => Count(Own', ids) # 0
         /\ Abouts(Own', id) = Abouts(Own, id) \union {about}
<1>1. IsList(W(id, about))
  BY ListOfMessages
<1>2. Count(W(id, about), ids) = (IF id \in ids THEN 1 ELSE 0) /\ Abouts(W(id, about), id) = {about}
  BY LedgerOne
<1>3. Count(Own, ids) \in Nat
  BY Context, LedgerCounts
<1>4. Count(Own', ids) = Count(Own, ids) + Count(W(id, about), ids)
  BY <1>1, Tell
<1>5. Abouts(Own', id) = Abouts(Own, id) \union Abouts(W(id, about), id)
  BY <1>1, Tell
<1> QED
  BY <1>2, <1>3, <1>4, <1>5

\* The same, of one raised on a condition.
LEMMA ToldWhen ==
  ASSUME TypeOK, NEW condition, NEW id, NEW about, Warn(When(condition, W(id, about))),
         UNCHANGED start, NEW ids, NEW other
  PROVE  /\ Count(Own', ids) = Count(Own, ids) + (IF condition /\ id \in ids THEN 1 ELSE 0)
         /\ Abouts(Own', other)
              = Abouts(Own, other) \union (IF condition /\ id = other THEN {about} ELSE {})
<1> DEFINE m == W(id, about)
           n == When(condition, m)
<1>1. IsList(n)
  BY ListOfMessages
<1>2. /\ Count(m, ids) = (IF id \in ids THEN 1 ELSE 0)
      /\ Abouts(m, other) = (IF id = other THEN {about} ELSE {})
  BY LedgerOne
<1> HIDE DEF m
<1>3. /\ Count(n, ids) = IF condition THEN Count(m, ids) ELSE 0
      /\ Abouts(n, other) = IF condition THEN Abouts(m, other) ELSE {}
  BY LedgerWhen
<1>4. Warn(n)
  BY DEF m
<1> HIDE DEF n
<1>5. /\ Count(Own', ids) = Count(Own, ids) + Count(n, ids)
      /\ Abouts(Own', other) = Abouts(Own, other) \union Abouts(n, other)
  BY <1>1, <1>4, Tell
<1> QED
  BY <1>2, <1>3, <1>5

\* How many warnings of the conversion that is running have an id: a step adds those it raises.
LEMMA TallyTell ==
  ASSUME TypeOK, NEW m, IsList(m), Warn(m), UNCHANGED start, NEW id
  PROVE  Tally(Own, id)' = Tally(Own, id) + Tally(m, id)
<1> DEFINE ids == {id}
<1>1. Tally(Own, id)' = Count(Own', ids) /\ Tally(Own, id) = Count(Own, ids)
      /\ Tally(m, id) = Count(m, ids)
  BY DEF Tally
<1> HIDE DEF ids
<1>2. Count(Own', ids) = Count(Own, ids) + Count(m, ids)
  BY Tell
<1> QED
  BY <1>1, <1>2

\* A step that cannot raise a warning does not,
LEMMA TallyUntold ==
  ASSUME TypeOK, Goes, NEW id, ~MayRaise(pc, id)
  PROVE  Tally(Own, id)' = Tally(Own, id)
<1> DEFINE ids == {id}
<1>1. Tally(Own, id)' = Count(Own', ids) /\ Tally(Own, id) = Count(Own, ids)
      /\ \A x \in ids : ~MayRaise(pc, x)
  BY DEF Tally
<1> HIDE DEF ids
<1>2. Count(Own', ids) = Count(Own, ids)
  BY <1>1, Untold
<1> QED
  BY <1>1, <1>2

\* a conversion begins with none but that of its new name,
LEMMA TallyBegins ==
  ASSUME TypeOK, NEW b, Begin(b), NEW id, id # "RenamedBuild"
  PROVE  Tally(Own, id)' = 0
<1> DEFINE ids == {id}
<1>1. Tally(Own, id)' = Count(Own', ids) /\ "RenamedBuild" \notin ids
  BY DEF Tally
<1> HIDE DEF ids
<1>2. Count(Own', ids) = 0
  BY <1>1, BeginsUntold
<1> QED
  BY <1>1, <1>2

\* and a step that does not warn leaves them as they are.
LEMMA TallyKept ==
  ASSUME TypeOK, NEW id, UNCHANGED <<warnings, start>>
  PROVE  Tally(Own, id)' = Tally(Own, id) /\ Tally(Own, id) \in Nat
<1> DEFINE ids == {id}
<1>1. Tally(Own, id)' = Tally(Own, id)
  BY DEF Tally, Own, OwnWarnings
<1>2. Tally(Own, id) = Count(Own, ids)
  BY DEF Tally
<1> HIDE DEF ids
<1>3. Count(Own, ids) \in Nat
  BY Context, LedgerCounts
<1> QED
  BY <1>1, <1>2, <1>3

\* What one warning adds to the tallies.
LEMMA TallyTold ==
  ASSUME TypeOK, NEW id, NEW about, Warn(W(id, about)), UNCHANGED start, NEW other
  PROVE  Tally(Own, other)' = Tally(Own, other) + IF id = other THEN 1 ELSE 0
<1> DEFINE m == W(id, about)
<1>1. IsList(m) /\ Tally(m, other) = (IF id = other THEN 1 ELSE 0) /\ Warn(m)
  BY ListOfMessages, TallyOne
<1> HIDE DEF m
<1> QED
  BY <1>1, TallyTell

-----------------------------------------------------------------------------
(* The annotations.                                                        *)

\* A step writes at most the annotation that is its own.
LEMMA AnnotationsKept ==
  ASSUME DOMAIN build = Fields, Goes, Step, NEW key,
         pc = "inlineDockerfile" => key # InlineDockerfileConfigMapAnnotation,
         pc = "triggers" => key # OriginalTriggersAnnotation,
         pc = "resources" => key # BuildRunTemplateAnnotation
  PROVE  /\ key \in DOMAIN build'.annotations <=> key \in DOMAIN build.annotations
         /\ key \in DOMAIN build.annotations => build'.annotations[key] = build.annotations[key]
<1>1. DOMAIN build = Fields
  OBVIOUS
<1> HIDE DEF InlineDockerfileConfigMapAnnotation, OriginalTriggersAnnotation,
             BuildRunTemplateAnnotation
<1>2. CASE ~MaySet(pc, "annotations")
  <2>1. build'.annotations = build.annotations
    BY <1>1, <1>2 DEF Goes, Sets, Fields
  <2> QED
    BY <2>1
<1>3. ASSUME NEW mine, NEW value, key # mine, build' = Annotate(build, mine, value)
      PROVE  /\ key \in DOMAIN build'.annotations <=> key \in DOMAIN build.annotations
             /\ key \in DOMAIN build.annotations =>
                  build'.annotations[key] = build.annotations[key]
  BY <1>1, <1>3, AnnotationSet
<1>4. CASE pc = "inlineDockerfile"
  <2>1. \/ build' = build
        \/ \E value : build' = Annotate(build, InlineDockerfileConfigMapAnnotation, value)
    BY <1>4, StepAt DEF NoInlineDockerfile, PreserveInlineDockerfile, DropInlineDockerfile
  <2> QED
    BY <1>3, <1>4, <2>1
<1>5. CASE pc = "triggers"
  <2>1. build' = build \/ \E value : build' = Annotate(build, OriginalTriggersAnnotation, value)
    BY <1>5, StepAt DEF NoTriggers, Triggers
  <2> QED
    BY <1>3, <1>5, <2>1
<1>6. CASE pc = "resources"
  <2>1. build' = build \/ \E value : build' = Annotate(build, BuildRunTemplateAnnotation, value)
    BY <1>6, StepAt DEF NoResources, Resources, Settle
  <2> QED
    BY <1>3, <1>6, <2>1
<1> QED
  BY <1>2, <1>4, <1>5, <1>6 DEF MaySet

\* In the background of the proofs below, likewise.
LEMMA Annotates ==
  ASSUME Background, Goes, Step, NEW key,
         pc = "inlineDockerfile" => key # InlineDockerfileConfigMapAnnotation,
         pc = "triggers" => key # OriginalTriggersAnnotation,
         pc = "resources" => key # BuildRunTemplateAnnotation
  PROVE  /\ key \in DOMAIN build'.annotations <=> key \in DOMAIN build.annotations
         /\ key \in DOMAIN build.annotations => build'.annotations[key] = build.annotations[key]
BY Untouched, AnnotationsKept

\* The Build starts with annotations of the BuildConfig, and the one that says where it is from.
LEMMA Inherited ==
  ASSUME NEW b, NEW key, key # ConvertedFromAnnotation, key \in DOMAIN Skeleton(b).annotations
  PROVE  key \in DOMAIN b.annotations
BY DEF Skeleton, Put, copyAnnotations, Filtered

-----------------------------------------------------------------------------
(* From one result to all of them.                                         *)

\* No result yet.
LEMMA NoneReplaced == Init => Replaced = {}
BY DEF Init, Replaced, Returned

\* One result more, or the same ones.
LEMMA OneMore ==
  ASSUME Background, [Next]_vars
  PROVE  /\ UNCHANGED opts
         /\ \/ Replaced' = Replaced
            \/ pc = "classify" /\ Replaced' = Replaced \union {Final}
<1>1. UNCHANGED vars => Replaced' = Replaced
  BY DEF vars, Replaced, Returned
<1>2. TypeOK
  BY DEF Background
<1> QED
  BY <1>1, <1>2, NextCases

\* Field by field, the Build that is returned.
LEMMA FinalFields ==
  ASSUME Background, pc = "classify"
  PROVE  /\ Final.bc = bc
         /\ BuildOf(Final).name = build.name
         /\ BuildOf(Final).strategy = build.strategy
         /\ BuildOf(Final).params = build.params
         /\ BuildOf(Final).buildArgs = build.buildArgs
         /\ BuildOf(Final).volumes = build.volumes
         /\ BuildOf(Final).source = build.source
         /\ BuildOf(Final).image = build.image
         /\ BuildOf(Final).imageLabels = build.imageLabels
         /\ BuildOf(Final).insecure = build.insecure
         /\ BuildOf(Final).timeout = build.timeout
         /\ BuildOf(Final).nodeSelector = build.nodeSelector
         /\ BuildOf(Final).succeededLimit = build.succeededLimit
         /\ BuildOf(Final).failedLimit = build.failedLimit
<1>1. \A field \in Fields : field # "annotations" => BuildOf(Final)[field] = build[field]
  BY FinalBuild
<1>2. {"name", "strategy", "params", "buildArgs", "volumes", "source", "image", "imageLabels",
       "insecure", "timeout", "nodeSelector", "succeededLimit", "failedLimit"} \subseteq Fields
  BY DEF Fields
<1>3. Final.bc = bc
  BY FinalBuild
<1> DEFINE b == BuildOf(Final)
<1> HIDE DEF b
<1>4. /\ b["name"] = build["name"] /\ b["strategy"] = build["strategy"]
      /\ b["params"] = build["params"] /\ b["buildArgs"] = build["buildArgs"]
      /\ b["volumes"] = build["volumes"] /\ b["source"] = build["source"]
      /\ b["image"] = build["image"] /\ b["imageLabels"] = build["imageLabels"]
      /\ b["insecure"] = build["insecure"] /\ b["timeout"] = build["timeout"]
      /\ b["nodeSelector"] = build["nodeSelector"]
      /\ b["succeededLimit"] = build["succeededLimit"]
      /\ b["failedLimit"] = build["failedLimit"]
  BY <1>1, <1>2 DEF b
<1> QED
  BY <1>3, <1>4 DEF b

-----------------------------------------------------------------------------
(* The params.                                                             *)

\* The params that hold lists of registries, and lists of params without any of them.
RegistryNames == {"registries-search", "registries-insecure", "registries-block"}
NoRegistries(ps) == IsList(ps) /\ \A p \in ToSet(ps) : p.name \notin RegistryNames

\* How such lists are put together.
LEMMA ParamRules ==
  /\ NoRegistries(<<>>)
  /\ \A name, value : IsList(Param(name, value))
  /\ \A name, value : ToSet(Param(name, value)) = {[name |-> name, value |-> value]}
  /\ \A name, value : name \notin RegistryNames => NoRegistries(Param(name, value))
  /\ \A condition, s : NoRegistries(s) => NoRegistries(When(condition, s))
  /\ \A s, t : NoRegistries(s) /\ NoRegistries(t) => NoRegistries(s \o t)
<1>1. NoRegistries(<<>>)
  BY ListOfMessages DEF NoRegistries, ToSet
<1>2. ASSUME NEW name, NEW value
      PROVE  /\ IsList(Param(name, value))
             /\ ToSet(Param(name, value)) = {[name |-> name, value |-> value]}
             /\ name \notin RegistryNames => NoRegistries(Param(name, value))
  <2>1. ToSet(Param(name, value)) = {[name |-> name, value |-> value]}
    BY DEF Param, ToSet
  <2>2. IsList(Param(name, value))
    BY <2>1 DEF Param, IsList
  <2> QED
    BY <2>1, <2>2 DEF NoRegistries
<1>3. ASSUME NEW condition, NEW s, NoRegistries(s) PROVE NoRegistries(When(condition, s))
  BY <1>1, <1>3 DEF When
<1>4. ASSUME NEW s, NEW t, NoRegistries(s), NoRegistries(t) PROVE NoRegistries(s \o t)
  <2>1. IsList(s \o t) /\ ToSet(s \o t) = ToSet(s) \union ToSet(t)
    BY <1>4, ToSetConcat DEF NoRegistries
  <2> QED
    BY <1>4, <2>1 DEF NoRegistries
<1> QED
  BY <1>1, <1>2, <1>3, <1>4

\* The steps before the registries give params, and none of these.
LEMMA ParamsGiven ==
  ASSUME DOMAIN build = Fields, Goes, Step, pc # "registries"
  PROVE  \/ build'.params = build.params
         \/ \E ps : NoRegistries(ps) /\ build'.params = build.params \o ps
<1>1. DOMAIN build = Fields
  OBVIOUS
<1>2. CASE pc \notin {"strategy", "buildArgs"}
  <2>1. ~MaySet(pc, "params") /\ "params" \in Fields
    BY <1>2 DEF MaySet, Fields
  <2> QED
    BY <1>1, <2>1 DEF Goes, Sets
<1>3. CASE pc = "strategy"
  <2>1. CASE DockerStrategy
    <3> DEFINE ps == DockerParams(Docker)
    <3>1. build'.params = build.params \o ps
      BY <1>1, <2>1 DEF DockerStrategy, WithParams, Named, Fields
    <3>2. NoRegistries(ps)
      BY ParamRules DEF RegistryNames, DockerParams, ImageParam, SwitchParam
    <3> QED
      BY <3>1, <3>2
  <2>2. CASE SourceStrategy
    <3> DEFINE ps == S2IParams(S2I)
    <3>1. build'.params = build.params \o ps
      BY <1>1, <2>2 DEF SourceStrategy, WithParams, Named, Fields
    <3>2. NoRegistries(ps)
      BY ParamRules DEF RegistryNames, S2IParams, ImageParam, SwitchParam
    <3> QED
      BY <3>1, <3>2
  <2>3. CASE BareDockerStrategy \/ BareSourceStrategy
    BY <1>1, <2>3 DEF BareDockerStrategy, BareSourceStrategy, Named, Fields
  <2> QED
    BY <1>3, <2>1, <2>2, <2>3, StepAt
<1>4. CASE pc = "buildArgs"
  <2>1. CASE BuildArgsDone
    <3> DEFINE ps == SwitchParam("build-args", build.buildArgs # <<>>, <<>>)
                       \o SwitchParam("squash",
                            Docker.optimization \in {"SkipLayers", "SkipLayersAndWarn"}, <<"true">>)
    <3>1. build'.params = build.params \o ps
      BY <1>1, <2>1 DEF BuildArgsDone, WithParams, Fields
    <3>2. NoRegistries(ps)
      BY ParamRules DEF RegistryNames, SwitchParam
    <3> QED
      BY <3>1, <3>2
  <2>2. CASE SkipInvalidArg \/ LiteralArg \/ MapArg \/ SkipUnmappableArg
    <3>1. \E values : build' = [build EXCEPT !.buildArgs = @ \o values]
      BY <2>2 DEF SkipInvalidArg, LiteralArg, MapArg, SkipUnmappableArg, ArgDone
    <3> QED
      BY <1>1, <3>1 DEF Fields
  <2> QED
    BY <1>4, <2>1, <2>2, StepAt
<1> QED
  BY <1>2, <1>3, <1>4

-----------------------------------------------------------------------------
(* The decision.                                                           *)

\* The steps that are behind met no obstacle.
Unobstructed ==
  /\ pc \notin {"idle", "strategy"} => StrategyObstacle(bc) = Blank
  /\ pc \in PastGate => OutputObstacle(bc) = Blank
  /\ pc \in PastSource => SourceObstacle(bc) = Blank

\* The actions that end a conversion before its Build is classified.
EarlyEnds ==
  \/ DockerImageUnresolvable \/ SourceImageUnresolvable \/ UnsupportedStrategy
  \/ UnknownStrategy \/ NoOutputImage \/ AccountUnserializable \/ ConfigMapUnserializable
  \/ MultipleSources \/ BinaryArchive \/ MultipleImages \/ ImageUnresolvable
  \/ TemplateUnserializable

\* A conversion ends by one of these, or by one of the last step.
LEMMA StepEnds ==
  ASSUME Step, pc' = "idle"
  PROVE  EarlyEnds \/ Finish \/ BuildUnserializable
<1>1. CASE StrategySteps
  <2>1. ~(DockerStrategy \/ BareDockerStrategy \/ SourceStrategy \/ BareSourceStrategy)
    BY DEF DockerStrategy, BareDockerStrategy, SourceStrategy, BareSourceStrategy, Goto
  <2>2. ~(SkipInvalidArg \/ LiteralArg \/ MapArg \/ SkipUnmappableArg)
    BY DEF SkipInvalidArg, LiteralArg, MapArg, SkipUnmappableArg, MoreArgs, ArgDone
  <2>3. ~(BuildArgsDone \/ ConvertVolume \/ SkipVolume \/ VolumesDone \/ PassGate)
    BY DEF BuildArgsDone, ConvertVolume, SkipVolume, VolumesDone, PassGate, MoreVolumes,
           VolumeDone, Goto
  <2> QED
    BY <1>1, <2>1, <2>2, <2>3 DEF StrategySteps, EarlyEnds
<1>2. CASE SourceSteps
  <2>1. ~(NoAccountNeeded \/ AccountNamed \/ GenerateAccount)
    BY DEF NoAccountNeeded, AccountNamed, GenerateAccount, Goto
  <2>2. ~(NoInlineDockerfile \/ PreserveInlineDockerfile \/ DropInlineDockerfile)
    BY DEF NoInlineDockerfile, PreserveInlineDockerfile, DropInlineDockerfile, Goto
  <2>3. ~(NoSource \/ GitSource \/ BinaryFile \/ ImageSource \/ Output)
    BY DEF NoSource, GitSource, BinaryFile, ImageSource, Output, Goto
  <2>4. ~(ImageLabel \/ SkipUnnamedLabel \/ ImageLabelsDone)
    BY DEF ImageLabel, SkipUnnamedLabel, ImageLabelsDone, Goto
  <2> QED
    BY <1>2, <2>1, <2>2, <2>3, <2>4 DEF SourceSteps, EarlyEnds
<1>3. CASE SettingSteps
  <2>1. ~(NoDeadline \/ MapDeadline \/ DropDeadline \/ MapNodeSelector \/ DropNodeSelector)
    BY DEF NoDeadline, MapDeadline, DropDeadline, MapNodeSelector, DropNodeSelector, Goto
  <2>2. ~(RunPolicy \/ PostCommit \/ HistoryLimits \/ addRegistries \/ NoResources \/ Resources)
    BY DEF RunPolicy, PostCommit, HistoryLimits, addRegistries, NoResources, Resources, Goto
  <2> QED
    BY <1>3, <2>1, <2>2 DEF SettingSteps, EarlyEnds
<1>4. ~TriggerSteps
  BY DEF TriggerSteps, NoTriggers, Triggers, processChainCandidates, Goto
<1> QED
  BY <1>1, <1>2, <1>3, <1>4 DEF Step

\* An image can be resolved when its kind is known, whatever the flags.
LEMMA KnownResolves ==
  ASSUME NEW b, NEW ref
  PROVE  Resolve(b, ref).ok <=> ~UnknownKind(ref)
<1>1. \A image, warning : Resolved(image, warning).ok
  BY DEF Resolved
<1>2. \A name, ns, o : ResolveDockerImage(name, ns, o).ok /\ ResolveStream(ns, name, o).ok
  BY <1>1 DEF ResolveDockerImage, ResolveStream
<1>3. ~Unresolvable.ok
  BY DEF Unresolvable
<1> QED
  BY <1>2, <1>3 DEF Resolve, resolveImageRef, UnknownKind

\* One kind of source, or none, is no more than one.
LEMMA FewKinds ==
  ASSUME NEW kind
  PROVE  ~(Cardinality({kind}) > 1) /\ ~(Cardinality({}) > 1)
<1>1. Cardinality({kind}) = 1 /\ Cardinality({}) = 0
  BY FS_Singleton, FS_EmptySet
<1> QED
  BY <1>1

\* A step that goes on met no obstacle.
LEMMA GoesUnobstructed ==
  ASSUME Step, Goes, Unobstructed
  PROVE  Unobstructed'
<1>1. Follows(pc, pc') /\ bc' = bc
  BY DEF Goes, call
<1>2. /\ pc' \in PastGate <=> pc \in PastGate \/ pc = "gate"
      /\ pc' \in PastSource <=> pc \in PastSource \/ pc = "source"
  BY <1>1, Passing
<1>3. pc \notin {"idle"} /\ pc' \notin {"idle", "strategy"}
  BY <1>1 DEF Follows
<1>4. ASSUME pc = "strategy" PROVE StrategyObstacle(bc) = Blank
  <2>1. DockerStrategy \/ BareDockerStrategy \/ SourceStrategy \/ BareSourceStrategy
    BY <1>4, StepAt
  <2>2. CASE DockerStrategy \/ BareDockerStrategy
    <3>1. /\ bc.strategy.type = "Docker"
          /\ ~(HasStrategy(bc) /\ NamesImage(FromOf(bc)) /\ UnknownKind(FromOf(bc)))
      BY <2>2, KnownResolves
         DEF DockerStrategy, BareDockerStrategy, Docker, CannotResolve, HasStrategy, FromOf
    <3> QED
      BY <3>1 DEF StrategyObstacle
  <2>3. CASE SourceStrategy \/ BareSourceStrategy
    <3>1. /\ bc.strategy.type = "Source"
          /\ ~(HasStrategy(bc) /\ NamesImage(FromOf(bc)) /\ UnknownKind(FromOf(bc)))
      BY <2>3, KnownResolves
         DEF SourceStrategy, BareSourceStrategy, S2I, S2IFrom, CannotResolve, HasStrategy, FromOf
    <3> QED
      BY <3>1 DEF StrategyObstacle
  <2> QED
    BY <2>1, <2>2, <2>3
<1>5. ASSUME pc = "gate" PROVE OutputObstacle(bc) = Blank
  BY <1>5, StepAt DEF PassGate, OutputObstacle
<1>6. ASSUME pc = "source" PROVE SourceObstacle(bc) = Blank
  <2>1. NoSource \/ GitSource \/ BinaryFile \/ ImageSource
    BY <1>6, StepAt
  <2>2. CASE NoSource \/ GitSource
    BY <2>2, FewKinds DEF NoSource, GitSource, Source, SourceObstacle
  <2>3. CASE BinaryFile
    BY <2>3, FewKinds DEF BinaryFile, Source, SourceObstacle
  <2>4. CASE ImageSource
    <3>1. /\ Kinds(bc.source) = {"images"} /\ Len(bc.source.images) = 1
          /\ ~UnknownKind(ImageOf(bc))
      BY <2>4, KnownResolves DEF ImageSource, Source
    <3>2. ~(Cardinality(Kinds(bc.source)) > 1) /\ ~(Len(bc.source.images) > 1)
      BY <3>1, FewKinds
    <3> QED
      BY <3>1, <3>2 DEF SourceObstacle
  <2> QED
    BY <2>1, <2>2, <2>3, <2>4
<1>7. /\ StrategyObstacle(bc) = Blank
      /\ pc' \in PastGate => OutputObstacle(bc) = Blank
      /\ pc' \in PastSource => SourceObstacle(bc) = Blank
  BY <1>2, <1>3, <1>4, <1>5, <1>6 DEF Unobstructed
<1> QED
  BY <1>1, <1>7
     DEF Unobstructed, StrategyObstacle, OutputObstacle, SourceObstacle, PastGate, PastSource

\* One that ends the conversion gives the verdict.
LEMMA EndsDecided ==
  ASSUME Step, pc' = "idle", Unobstructed
  PROVE  \E r : results' = Append(results, r) /\ r.bc = bc /\ Decided(bc, r.state, r.reason)
<1>1. ASSUME NEW state, NEW reason, NEW own, NEW resources,
             Return(state, reason, own, resources), Decided(bc, state, reason)
      PROVE  \E r : results' = Append(results, r) /\ r.bc = bc /\ Decided(bc, r.state, r.reason)
  <2> DEFINE r == [bc |-> bc, state |-> state, reason |-> reason, warnings |-> own,
                   resources |-> resources,
                   recorded |-> SubSeq(warnings', start + 1, Len(warnings')),
                   notices |-> notices]
  <2>1. results' = Append(results, r) /\ r.bc = bc /\ r.state = state /\ r.reason = reason
    BY <1>1 DEF Return
  <2> HIDE DEF r
  <2> QED
    BY <1>1, <2>1
<1>2. ASSUME NEW state, NEW reason, NEW m, Decline(state, reason, m), Decided(bc, state, reason)
      PROVE  \E r : results' = Append(results, r) /\ r.bc = bc /\ Decided(bc, r.state, r.reason)
  BY <1>1, <1>2 DEF Decline
<1>3. ASSUME NEW state, NEW reason, reason = Verdict(bc),
             \/ state = "skipped" /\ reason \in {"Custom", "JenkinsPipeline", "NoOutputImage"}
             \/ /\ state = "failed"
                /\ reason \in {"DockerFrom", "SourceFrom", "UnknownStrategy", "MultipleSources",
                               "BinaryArchive", "MultipleImages", "ImageSource"}
      PROVE  Decided(bc, state, reason)
  <2>1. reason \notin SerializeReasons /\ state \in StatesOf(reason)
    BY <1>3 DEF SerializeReasons, StatesOf, Blank
  <2> QED
    BY <1>3, <2>1 DEF Decided
<1>4. /\ StrategyObstacle(bc) # Blank => Verdict(bc) = StrategyObstacle(bc)
      /\ StrategyObstacle(bc) = Blank /\ OutputObstacle(bc) # Blank =>
           Verdict(bc) = OutputObstacle(bc)
      /\ StrategyObstacle(bc) = Blank /\ OutputObstacle(bc) = Blank =>
           Verdict(bc) = SourceObstacle(bc)
  BY DEF Verdict
<1>5. CASE DockerImageUnresolvable \/ SourceImageUnresolvable
  <2>1. PICK reason \in {"DockerFrom", "SourceFrom"} :
          StrategyObstacle(bc) = reason /\ Decline("failed", reason, <<>>)
    <3>1. CASE DockerImageUnresolvable
      <4>1. /\ bc.strategy.type = "Docker" /\ HasStrategy(bc)
            /\ NamesImage(FromOf(bc)) /\ UnknownKind(FromOf(bc))
        BY <3>1, KnownResolves
           DEF DockerImageUnresolvable, Docker, CannotResolve, HasStrategy, FromOf
      <4> QED
        BY <3>1, <4>1 DEF StrategyObstacle, DockerImageUnresolvable
    <3>2. CASE SourceImageUnresolvable
      <4>1. /\ bc.strategy.type = "Source" /\ HasStrategy(bc)
            /\ NamesImage(FromOf(bc)) /\ UnknownKind(FromOf(bc))
        BY <3>2, KnownResolves
           DEF SourceImageUnresolvable, S2I, S2IFrom, CannotResolve, HasStrategy, FromOf
      <4> QED
        BY <3>2, <4>1 DEF StrategyObstacle, SourceImageUnresolvable
    <3> QED
      BY <1>5, <3>1, <3>2
  <2>2. reason # Blank
    BY DEF Blank
  <2> QED
    BY <1>2, <1>3, <1>4, <2>1, <2>2
<1>6. CASE UnsupportedStrategy \/ UnknownStrategy
  <2>1. PICK state, reason, m :
          /\ StrategyObstacle(bc) = reason /\ Decline(state, reason, m)
          /\ \/ state = "skipped" /\ reason \in {"Custom", "JenkinsPipeline"}
             \/ state = "failed" /\ reason = "UnknownStrategy"
    BY <1>6 DEF UnsupportedStrategy, UnknownStrategy, StrategyObstacle
  <2>2. reason # Blank
    BY <2>1 DEF Blank
  <2> QED
    BY <1>2, <1>3, <1>4, <2>1, <2>2
<1>7. CASE NoOutputImage
  <2>1. /\ StrategyObstacle(bc) = Blank /\ OutputObstacle(bc) = "NoOutputImage"
        /\ Decline("skipped", "NoOutputImage", W("PassedThrough", bc.name))
    BY <1>7 DEF NoOutputImage, Unobstructed, OutputObstacle
  <2>2. Verdict(bc) = "NoOutputImage"
    BY <1>4, <2>1 DEF Blank
  <2> QED
    BY <1>2, <1>3, <2>1, <2>2
<1>8. CASE pc \in PastGate
  <2>1. /\ StrategyObstacle(bc) = Blank /\ OutputObstacle(bc) = Blank
        /\ Verdict(bc) = SourceObstacle(bc)
    <3>1. pc \notin {"idle", "strategy"}
      BY <1>8, NothingPassed
    <3> QED
      BY <1>4, <1>8, <3>1 DEF Unobstructed
  <2>2. ASSUME NEW reason \in SerializeReasons, SerializeErrors
        PROVE  Decided(bc, "failed", reason)
    BY <2>1, <2>2 DEF Decided
  <2>3. CASE AccountUnserializable \/ ConfigMapUnserializable \/ TemplateUnserializable
             \/ BuildUnserializable
    <3>1. PICK reason \in SerializeReasons :
            SerializeErrors /\ \E m : Decline("failed", reason, m)
      BY <2>3 DEF AccountUnserializable, ConfigMapUnserializable, TemplateUnserializable,
                  BuildUnserializable, SerializeReasons
    <3> QED
      BY <1>2, <2>2, <3>1
  <2>4. CASE MultipleSources \/ BinaryArchive \/ MultipleImages \/ ImageUnresolvable
    <3>1. PICK reason \in {"MultipleSources", "BinaryArchive", "MultipleImages", "ImageSource"} :
            SourceObstacle(bc) = reason /\ \E m : Decline("failed", reason, m)
      <4>1. CASE MultipleSources
        <5>1. /\ Cardinality(Kinds(bc.source)) > 1
              /\ Kinds(bc.source) # {"binary"} /\ Kinds(bc.source) # {"images"}
          BY <4>1, FewKinds DEF MultipleSources, Source
        <5>2. SourceObstacle(bc) = "MultipleSources"
          BY <5>1 DEF SourceObstacle
        <5> QED
          BY <4>1, <5>2 DEF MultipleSources, SourceRejected
      <4>2. CASE BinaryArchive
        BY <4>2, FewKinds DEF BinaryArchive, SourceRejected, Source, SourceObstacle
      <4>3. CASE MultipleImages
        <5>1. Kinds(bc.source) = {"images"} /\ Len(bc.source.images) > 1
          BY <4>3 DEF MultipleImages, Source
        <5>2. ~(Cardinality(Kinds(bc.source)) > 1)
          BY <5>1, FewKinds
        <5>3. Kinds(bc.source) # {"binary"}
          BY <5>1
        <5>4. Len(bc.source.images) # 1
          <6>1. \A n : n = 1 => ~(n > 1)
            OBVIOUS
          <6> QED
            BY <5>1, <6>1
        <5>5. SourceObstacle(bc) = "MultipleImages"
          BY <5>1, <5>2, <5>3, <5>4 DEF SourceObstacle
        <5> QED
          BY <4>3, <5>5 DEF MultipleImages, SourceRejected
      <4>4. CASE ImageUnresolvable
        <5>1. /\ Kinds(bc.source) = {"images"} /\ Len(bc.source.images) = 1
              /\ UnknownKind(ImageOf(bc))
          BY <4>4, KnownResolves DEF ImageUnresolvable, Source
        <5> QED
          BY <4>4, <5>1, FewKinds DEF ImageUnresolvable, SourceRejected, SourceObstacle
      <4> QED
        BY <2>4, <4>1, <4>2, <4>3, <4>4
    <3> QED
      BY <1>2, <1>3, <2>1, <3>1
  <2>5. CASE Finish
    <3>1. pc = "classify" /\ \E own, resources : Return(State, Blank, own, resources)
      BY <2>5 DEF Finish
    <3>2. Verdict(bc) = Blank
      BY <2>1, <3>1, PassedInOrder DEF Unobstructed
    <3>3. Blank \notin SerializeReasons /\ State \in StatesOf(Blank)
      BY DEF Blank, SerializeReasons, StatesOf, State
    <3>4. Decided(bc, State, Blank)
      BY <3>2, <3>3 DEF Decided
    <3> QED
      BY <1>1, <3>1, <3>4
  <2>6. ~(DockerImageUnresolvable \/ SourceImageUnresolvable \/ UnsupportedStrategy
            \/ UnknownStrategy \/ NoOutputImage)
    BY <1>8, PassedInOrder, NothingPassed
       DEF DockerImageUnresolvable, SourceImageUnresolvable, UnsupportedStrategy, UnknownStrategy,
           NoOutputImage
  <2> QED
    BY <2>3, <2>4, <2>5, <2>6, StepEnds DEF EarlyEnds
<1>9. ASSUME pc \notin PastGate
      PROVE  \/ DockerImageUnresolvable \/ SourceImageUnresolvable \/ UnsupportedStrategy
             \/ UnknownStrategy \/ NoOutputImage
  <2>1. {"serviceAccount", "inlineDockerfile", "source", "resources", "classify"} \subseteq PastGate
    BY DEF PastGate, PastAccount, PastDockerfile, PastSource, PastOutput, PastLabels, PastDeadline,
           PastNodeSelector, PastRunPolicy, PastPostCommit, PastLimits, PastRegistries,
           PastTriggers, PastChain, PastResources
  <2>2. ~(AccountUnserializable \/ ConfigMapUnserializable \/ TemplateUnserializable
            \/ BuildUnserializable \/ Finish)
    BY <1>9, <2>1 DEF AccountUnserializable, ConfigMapUnserializable, TemplateUnserializable,
                      BuildUnserializable, Finish
  <2>3. ~(MultipleSources \/ BinaryArchive \/ MultipleImages \/ ImageUnresolvable)
    BY <1>9, <2>1 DEF MultipleSources, BinaryArchive, MultipleImages, ImageUnresolvable
  <2> QED
    BY <2>2, <2>3, StepEnds DEF EarlyEnds
<1> QED
  BY <1>5, <1>6, <1>7, <1>8, <1>9

\* Nothing is behind a conversion that has just begun, and nothing once it ended.
LEMMA NothingDecided ==
  ASSUME pc \in {"idle", "strategy"}
  PROVE  Unobstructed
BY NothingPassed DEF Unobstructed

\* A step of a conversion goes on without an obstacle, or ends it with the verdict.
LEMMA StepDecides ==
  ASSUME Step, Unobstructed
  PROVE  /\ Unobstructed'
         /\ \/ Goes
            \/ /\ pc' = "idle"
               /\ \E r : results' = Append(results, r) /\ r.bc = bc
                         /\ Decided(bc, r.state, r.reason)
<1>1. CASE Goes
  BY <1>1, GoesUnobstructed
<1>2. CASE ~Goes
  <2>1. pc' = "idle"
    BY <1>2, StepShapes DEF Declines, Decline, Finish, Return
  <2>2. Unobstructed'
    BY <2>1, NothingPassed DEF Unobstructed
  <2> QED
    BY <2>1, <2>2, EndsDecided
<1> QED
  BY <1>1, <1>2
=============================================================================
