---------------------------- MODULE Names_proofs ----------------------------
(***************************************************************************)
(* The generated names are valid, and none is shared but through the       *)
(* documented gap, for every set of names and every limit.                 *)
(***************************************************************************)
EXTENDS Names, SequenceTheorems, FiniteSetTheorems, WellFoundedInduction, TLAPS

\* The positions of a sequence have a first and a last.
LEMMA ExtremesExist ==
  ASSUME NEW n \in Nat, NEW T, T \subseteq 1..n, T # {}
  PROVE  /\ Min(T) \in T /\ Max(T) \in T
         /\ \A t \in T : Min(T) <= t /\ t <= Max(T)
<1> DEFINE Less == OpToRel(<, Nat)
           Mirror == {n - t : t \in T}
<1>0. T \subseteq Nat
  <2>1. 1..n \subseteq Nat
    OBVIOUS
  <2> QED
    BY <2>1
<1>1. ASSUME NEW S, S \subseteq Nat, S # {}
      PROVE  \E x \in S : \A y \in S : x <= y
  <2>1. PICK x \in S : \A y \in S : ~(<<y, x>> \in Less)
    BY <1>1, NatLessThanWellFounded, WFMin
  <2>2. \A y \in S : x <= y
    <3> TAKE y \in S
    <3>1. y \in Nat /\ x \in Nat
      BY <1>1
    <3>2. ~(y < x)
      BY <2>1, <3>1 DEF OpToRel
    <3> QED
      BY <3>1, <3>2
  <2> QED
    BY <2>2
<1>2. \E x \in T : \A y \in T : x <= y
  BY <1>1, <1>0
<1>3. PICK m \in T : \A t \in T : n - m <= n - t
  <2>1. Mirror \subseteq Nat /\ Mirror # {}
    <3>1. \A t \in T : n - t \in Nat
      OBVIOUS
    <3> QED
      BY <3>1
  <2>2. PICK x \in Mirror : \A y \in Mirror : x <= y
    BY <1>1, <2>1
  <2> QED
    BY <2>2
<1>4. \A t \in T : m >= t
  <2> TAKE t \in T
  <2>1. m \in Nat /\ t \in Nat /\ n - m <= n - t
    BY <1>3
  <2> QED
    BY <2>1
<1>5. Min(T) \in T /\ \A t \in T : Min(T) <= t
  BY <1>2 DEF Min
<1>6. Max(T) \in T /\ \A t \in T : Max(T) >= t
  BY <1>4 DEF Max
<1> HIDE DEF Mirror, Less
<1>7. \A t \in T : t <= Max(T)
  <2> TAKE t \in T
  <2>1. t \in Nat /\ Max(T) \in Nat /\ Max(T) >= t
    BY <1>0, <1>6
  <2> QED
    BY <2>1
<1> QED
  BY <1>5, <1>6, <1>7

\* strings.Trim leaves a part of the string that neither starts nor ends with a dash.
LEMMA Trimmed ==
  ASSUME NEW S, NEW s \in Seq(S)
  PROVE  /\ TrimDashes(s) \in Seq(S) /\ Len(TrimDashes(s)) <= Len(s)
         /\ TrimDashes(s) # <<>> => /\ TrimDashes(s)[1] # "-"
                                    /\ TrimDashes(s)[Len(TrimDashes(s))] # "-"
<1> DEFINE solid == {p \in DOMAIN s : s[p] # "-"}
           lo == Min(solid)
           hi == Max(solid)
<1>1. Len(s) \in Nat /\ DOMAIN s = 1..Len(s)
  OBVIOUS
<1>2. CASE solid = {}
  BY <1>1, <1>2 DEF TrimDashes
<1>3. CASE solid # {}
  <2>1. lo \in solid /\ hi \in solid /\ lo <= hi
    BY <1>1, <1>3, ExtremesExist
  <2>2. TrimDashes(s) = SubSeq(s, lo, hi)
    BY <1>3 DEF TrimDashes
  <2> HIDE DEF lo, hi
  <2>3. lo \in 1..Len(s) /\ hi \in 1..Len(s) /\ s[lo] # "-" /\ s[hi] # "-"
    BY <1>1, <2>1
  <2>4. /\ SubSeq(s, lo, hi) \in Seq(S) /\ Len(SubSeq(s, lo, hi)) = hi - lo + 1
        /\ SubSeq(s, lo, hi)[1] = s[lo] /\ SubSeq(s, lo, hi)[hi - lo + 1] = s[hi]
    BY <1>1, <2>1, <2>3
  <2> QED
    BY <1>1, <2>1, <2>2, <2>3, <2>4
<1> QED
  BY <1>2, <1>3

\* The characters a label may have.
LabelChars == Alphanumerics \union {"-"}

LEMMA ReplacedAllowed ==
  ASSUME NEW s, NEW n \in Nat, DOMAIN s = 1..n
  PROVE  ReplaceInvalid(s) \in Seq(LabelChars)
<1> DEFINE starts == {p \in DOMAIN s : AllowedChar(s[p]) \/ p = 1 \/ AllowedChar(s[p - 1])}
           nth(k) == CHOOSE p \in starts : Cardinality({q \in starts : q <= p}) = k
           char(k) == IF AllowedChar(s[nth(k)]) THEN s[nth(k)] ELSE "-"
<1>1. IsFiniteSet(starts)
  <2>1. IsFiniteSet(1..n)
    BY FS_Interval
  <2> QED
    BY <2>1, FS_Subset
<1>2. Cardinality(starts) \in Nat
  BY <1>1, FS_CardinalityType
<1>3. \A k \in 1..Cardinality(starts) : char(k) \in LabelChars
  BY DEF AllowedChar, LabelChars
<1>4. ReplaceInvalid(s) = [k \in 1..Cardinality(starts) |-> char(k)]
  BY DEF ReplaceInvalid
<1> HIDE DEF starts, char
<1> QED
  BY <1>2, <1>3, <1>4

LEMMA BaseIsLabelText ==
  ASSUME NEW name \in Seq(Characters)
  PROVE  /\ Base(name) \in Seq(LabelChars)
         /\ Base(name) # <<>> => /\ Base(name)[1] # "-" /\ Base(name)[Len(Base(name))] # "-"
<1>1. Len(name) \in Nat /\ DOMAIN ToLower(name) = 1..Len(name)
  BY DEF ToLower
<1>2. ReplaceInvalid(ToLower(name)) \in Seq(LabelChars)
  BY <1>1, ReplacedAllowed
<1> QED
  BY <1>2, Trimmed DEF Base

-----------------------------------------------------------------------------
LEMMA SuffixIsText == <<"-", "dockerfile">> \in Seq(Characters)
<1>1. ASSUME NEW S, NEW x \in S, NEW y \in S
      PROVE  <<x, y>> \in Seq(S)
  BY <1>1
<1>2. "-" \in Characters /\ "dockerfile" \in Characters
  BY NamesAssumption
<1> QED
  BY <1>1, <1>2

LEMMA SourcesAreNames ==
  ASSUME NEW a \in Sources
  PROVE  a \in Seq(Characters) /\ a # <<>>
<1>1. PICK kind \in GeneratedKinds, name \in Originals : a = Original(kind, name)
  BY DEF Sources
<1>2. name \in Seq(Characters) /\ name # <<>>
  BY NamesAssumption
<1>3. <<"-", "dockerfile">> \in Seq(Characters)
  BY SuffixIsText
<1>4. name \o <<"-", "dockerfile">> \in Seq(Characters) /\ name \o <<"-", "dockerfile">> # <<>>
  BY <1>2, <1>3
<1> QED
  BY <1>1, <1>2, <1>4 DEF Original

\* A rewritten name: what is left of the base, a dash, the digest.
LEMMA RewrittenShape ==
  ASSUME NEW a \in Sources, ~Kept(a)
  PROVE  \E stem \in Seq(LabelChars) :
           /\ Label[a] = stem \o <<"-">> \o Digest(a)
           /\ Len(stem) \in 1..MaxBase /\ stem[1] # "-"
<1> DEFINE base == Base(a)
           room == Min({Len(base), MaxBase})
           cut == SubSeq(base, 1, room)
           stem == IF TrimDashes(cut) = <<>> THEN <<"b", "c">> ELSE TrimDashes(cut)
<1>1. a \in Seq(Characters)
  BY SourcesAreNames
<1>2. base \in Seq(LabelChars) /\ Len(base) \in Nat
  BY <1>1, BaseIsLabelText
<1>3. MaxBase \in Nat /\ MaxBase >= 2
  BY NamesAssumption DEF MaxBase
<1>4. room \in Nat /\ room <= MaxBase /\ room <= Len(base)
  <2> HIDE DEF base
  <2> QED
    BY <1>2, <1>3 DEF Min
<1>5. cut \in Seq(LabelChars) /\ Len(cut) = room
  <2> HIDE DEF base, room
  <2> QED
    BY <1>2, <1>4
<1>6. <<"b", "c">> \in Seq(LabelChars) /\ Len(<<"b", "c">>) = 2 /\ <<"b", "c">>[1] # "-"
  BY NamesAssumption DEF LabelChars
<1>7. /\ TrimDashes(cut) \in Seq(LabelChars) /\ Len(TrimDashes(cut)) <= MaxBase
      /\ TrimDashes(cut) # <<>> => TrimDashes(cut)[1] # "-"
  <2>1. /\ TrimDashes(cut) \in Seq(LabelChars) /\ Len(TrimDashes(cut)) <= Len(cut)
        /\ TrimDashes(cut) # <<>> => TrimDashes(cut)[1] # "-"
    BY <1>5, Trimmed
  <2> QED
    BY <1>3, <1>4, <1>5, <2>1
<1>8. Label[a] = stem \o <<"-">> \o Digest(a)
  BY DEF Label, sanitizeDNS1123Label, withHashSuffix
<1>9. stem \in Seq(LabelChars) /\ Len(stem) \in 1..MaxBase /\ stem[1] # "-"
  <2> HIDE DEF cut
  <2>1. CASE TrimDashes(cut) = <<>>
    BY <1>3, <1>6, <2>1
  <2>2. CASE TrimDashes(cut) # <<>>
    BY <1>3, <1>7, <2>2
  <2> QED
    BY <2>1, <2>2
<1> QED
  BY <1>8, <1>9

LEMMA KeptLabel ==
  ASSUME NEW a \in Sources, Kept(a)
  PROVE  Label[a] = a
BY DEF Label, sanitizeDNS1123Label

-----------------------------------------------------------------------------
\* Every label is one the cluster accepts.
LEMMA LabelIsValid ==
  ASSUME NEW a \in Sources
  PROVE  ValidLabel(Label[a])
<1>1. a \in Seq(Characters) /\ a # <<>>
  BY SourcesAreNames
<1>2. CASE Kept(a)
  <2>1. Label[a] = a /\ Base(a) = a /\ Len(a) <= MaxLength
    BY <1>2, KeptLabel DEF Kept
  <2>2. a \in Seq(LabelChars) /\ a[1] # "-" /\ a[Len(a)] # "-"
    BY <1>1, <2>1, BaseIsLabelText
  <2>3. Len(a) \in 1..MaxLength
    BY <1>1, <2>1
  <2>4. ToSet(a) \subseteq LabelChars
    BY <2>2 DEF ToSet
  <2> QED
    BY <2>1, <2>2, <2>3, <2>4 DEF ValidLabel, LabelChars
<1>3. CASE ~Kept(a)
  <2>1. PICK stem \in Seq(LabelChars) :
          /\ Label[a] = stem \o <<"-">> \o Digest(a)
          /\ Len(stem) \in 1..MaxBase /\ stem[1] # "-"
    BY <1>3, RewrittenShape
  <2>2. /\ Digest(a) \in Seq(Alphanumerics) /\ Len(Digest(a)) = HashLength
        /\ "-" \notin Alphanumerics /\ HashLength \in Nat \ {0} /\ MaxLength \in Nat
    BY NamesAssumption
  <2> DEFINE d == Digest(a)
             label == Label[a]
  <2>3. d \in Seq(LabelChars) /\ d[HashLength] # "-"
    BY <2>2 DEF LabelChars
  <2>4. <<"-">> \in Seq(LabelChars) /\ Len(<<"-">>) = 1
    BY DEF LabelChars
  <2> HIDE DEF d
  <2>5. stem \o <<"-">> \in Seq(LabelChars) /\ Len(stem \o <<"-">>) = Len(stem) + 1
    BY <2>4
  <2>6. (stem \o <<"-">>)[1] = stem[1]
    BY <2>1, <2>4
  <2>7. /\ label \in Seq(LabelChars) /\ Len(label) = Len(stem) + 1 + HashLength
        /\ label[1] = stem[1] /\ label[Len(label)] = d[HashLength]
    <3>1. label = (stem \o <<"-">>) \o d /\ Len(d) = HashLength
      BY <2>1, <2>2 DEF d
    <3> HIDE DEF label
    <3> DEFINE front == stem \o <<"-">>
    <3>2. front \in Seq(LabelChars) /\ Len(front) = Len(stem) + 1 /\ front[1] = stem[1]
      BY <2>5, <2>6
    <3>3. label = front \o d
      BY <3>1
    <3> HIDE DEF front
    <3>4. Len(label) = Len(front) + HashLength /\ label \in Seq(LabelChars)
      BY <2>3, <3>1, <3>2, <3>3, ConcatProperties
    <3>5. label[1] = front[1]
      BY <2>1, <2>3, <3>2, <3>3
    <3>6. label[Len(label)] = d[HashLength]
      BY <2>2, <2>3, <3>1, <3>2, <3>3, <3>4
    <3> QED
      BY <3>2, <3>4, <3>5, <3>6
  <2>8. Len(label) \in 1..MaxLength
    BY <2>1, <2>2, <2>7 DEF MaxBase
  <2>9. ToSet(label) \subseteq LabelChars
    BY <2>7 DEF ToSet
  <2> QED
    BY <2>1, <2>3, <2>7, <2>8, <2>9 DEF ValidLabel, LabelChars
<1> QED
  BY <1>2, <1>3

\* Two sources share a label only through the gap: the digests tell rewritten names apart.
LEMMA LabelsTellApart ==
  ASSUME NEW a \in Sources, NEW b \in Sources, Label[a] = Label[b]
  PROVE  a = b \/ Gap(a, b)
<1>1. CASE Kept(a) /\ Kept(b)
  BY <1>1, KeptLabel
<1>2. CASE Kept(a) # Kept(b)
  BY <1>2 DEF Gap
<1>3. CASE ~Kept(a) /\ ~Kept(b)
  <2>1. PICK x \in Seq(LabelChars) : Label[a] = x \o <<"-">> \o Digest(a)
    BY <1>3, RewrittenShape
  <2>2. PICK y \in Seq(LabelChars) : Label[b] = y \o <<"-">> \o Digest(b)
    BY <1>3, RewrittenShape
  <2> DEFINE front == x \o <<"-">>
             other == y \o <<"-">>
             da == Digest(a)
             db == Digest(b)
  <2>3. /\ da \in Seq(LabelChars) /\ db \in Seq(LabelChars)
        /\ Len(da) = HashLength /\ Len(db) = HashLength /\ HashLength \in Nat
    BY NamesAssumption DEF LabelChars
  <2>4. front \in Seq(LabelChars) /\ other \in Seq(LabelChars)
    BY DEF LabelChars
  <2>5. front \o da = other \o db
    BY <2>1, <2>2
  <2> HIDE DEF front, other, da, db
  <2>6. Len(front) = Len(other)
    BY <2>3, <2>4, <2>5
  <2>7. \A p \in 1..HashLength : da[p] = db[p]
    <3> TAKE p \in 1..HashLength
    <3>1. (front \o da)[Len(front) + p] = da[p] /\ (other \o db)[Len(other) + p] = db[p]
      BY <2>3, <2>4
    <3> QED
      BY <2>5, <2>6, <3>1
  <2>8. da = db
    BY <2>3, <2>7, SeqEqual
  <2> QED
    BY <2>8, NamesAssumption DEF da, db
<1> QED
  BY <1>1, <1>2, <1>3 DEF Gap

-----------------------------------------------------------------------------
(* A valid label is not rewritten: each of the three steps leaves it alone. *)

LEMMA LowerCaseKept ==
  ASSUME NEW s \in Seq(LabelChars)
  PROVE  ToLower(s) = s
<1>1. \A p \in DOMAIN s : s[p] \notin DOMAIN Lower
  BY NamesAssumption DEF LabelChars
<1>2. ToLower(s) = [p \in DOMAIN s |-> s[p]]
  BY <1>1 DEF ToLower
<1> QED
  BY <1>2

LEMMA NothingToReplace ==
  ASSUME NEW s \in Seq(LabelChars)
  PROVE  ReplaceInvalid(s) = s
<1> DEFINE starts == {p \in DOMAIN s : AllowedChar(s[p]) \/ p = 1 \/ AllowedChar(s[p - 1])}
           upTo(p) == {q \in starts : q <= p}
           nth(k) == CHOOSE p \in starts : Cardinality(upTo(p)) = k
           char(k) == IF AllowedChar(s[nth(k)]) THEN s[nth(k)] ELSE "-"
<1>1. Len(s) \in Nat /\ DOMAIN s = 1..Len(s)
  OBVIOUS
<1>2. \A p \in DOMAIN s : AllowedChar(s[p])
  BY DEF AllowedChar, LabelChars
<1>3. starts = 1..Len(s)
  BY <1>1, <1>2
<1>4. ReplaceInvalid(s) = [k \in 1..Cardinality(starts) |-> char(k)]
  BY DEF ReplaceInvalid
<1> HIDE DEF starts
<1>5. \A p \in starts : Cardinality(upTo(p)) = p
  <2> TAKE p \in starts
  <2>1. p \in Nat /\ upTo(p) = 1..p
    BY <1>1, <1>3
  <2>2. Cardinality(1..p) = p
    BY <2>1, FS_Interval
  <2> QED
    BY <2>1, <2>2
<1>6. Cardinality(starts) = Len(s)
  BY <1>1, <1>3, FS_Interval
<1> HIDE DEF upTo
<1>7. \A k \in starts : nth(k) = k
  BY <1>5
<1> HIDE DEF nth
<1>8. \A k \in 1..Len(s) : char(k) = s[k]
  BY <1>1, <1>2, <1>3, <1>7
<1> HIDE DEF char
<1>9. ReplaceInvalid(s) = [k \in 1..Len(s) |-> s[k]]
  BY <1>4, <1>6, <1>8
<1> QED
  BY <1>9

LEMMA NothingToTrim ==
  ASSUME NEW s \in Seq(LabelChars), s # <<>>, s[1] # "-", s[Len(s)] # "-"
  PROVE  TrimDashes(s) = s
<1> DEFINE solid == {p \in DOMAIN s : s[p] # "-"}
           lo == Min(solid)
           hi == Max(solid)
<1>1. Len(s) \in Nat /\ Len(s) >= 1 /\ DOMAIN s = 1..Len(s)
  OBVIOUS
<1>2. 1 \in solid /\ Len(s) \in solid /\ solid \subseteq 1..Len(s)
  BY <1>1
<1>3. TrimDashes(s) = SubSeq(s, lo, hi)
  BY <1>2 DEF TrimDashes
<1>4. lo \in solid /\ hi \in solid /\ \A p \in solid : lo <= p /\ p <= hi
  BY <1>1, <1>2, ExtremesExist
<1>5. lo = 1 /\ hi = Len(s)
  <2> HIDE DEF solid, lo, hi
  <2>1. lo \in 1..Len(s) /\ hi \in 1..Len(s) /\ lo <= 1 /\ Len(s) <= hi
    BY <1>2, <1>4
  <2>2. lo \in Int /\ hi \in Int /\ Len(s) \in Int /\ lo >= 1 /\ hi <= Len(s)
    BY <1>1, <2>1
  <2> QED
    BY <2>1, <2>2
<1> HIDE DEF solid, lo, hi
<1> QED
  BY <1>3, <1>5

LEMMA ValidIsKept ==
  ASSUME NEW a \in Seq(Characters), ValidLabel(a)
  PROVE  Kept(a)
<1>1. a \in Seq(LabelChars) /\ a # <<>> /\ Len(a) <= MaxLength
  <2>1. Len(a) \in 1..MaxLength /\ MaxLength \in Nat
    BY NamesAssumption DEF ValidLabel
  <2>2. \A p \in 1..Len(a) : a[p] \in LabelChars
    BY DEF ValidLabel, ToSet, LabelChars
  <2> QED
    BY <2>1, <2>2
<1>2. a[1] # "-" /\ a[Len(a)] # "-"
  BY DEF ValidLabel
<1>3. ToLower(a) = a /\ ReplaceInvalid(a) = a /\ TrimDashes(a) = a
  BY <1>1, <1>2, LowerCaseKept, NothingToReplace, NothingToTrim
<1> QED
  BY <1>1, <1>3 DEF Kept, Base

-----------------------------------------------------------------------------
\* Every resource in the output was generated for a BuildConfig that was converted, and under
\* the name it gives that resource.
NamesInvariant ==
  /\ converted \subseteq Originals
  /\ \A r \in DOMAIN owner : /\ owner[r] \in Originals
                             /\ \E kind \in GeneratedKinds : r = Resource(kind, owner[r])
  /\ \A name \in converted : \A kind \in GeneratedKinds : Resource(kind, name) \in DOMAIN owner

LEMMA NamesInvariantHolds == Spec => []NamesInvariant
<1>1. Init => NamesInvariant
  BY DEF Init, NamesInvariant
<1>2. NamesInvariant /\ [Next]_vars => NamesInvariant'
  <2> SUFFICES ASSUME NamesInvariant, [Next]_vars
               PROVE  NamesInvariant'
    OBVIOUS
  <2>1. CASE \E name \in Originals : Generate(name)
    <3>1. PICK name \in Originals : Generate(name)
      BY <2>1
    <3> DEFINE generated == {Resource(kind, name) : kind \in GeneratedKinds}
    <3>2. /\ converted' = converted \union {name}
          /\ owner' = [r \in DOMAIN owner \union generated |->
                         IF r \in generated THEN name ELSE owner[r]]
      BY <3>1 DEF Generate
    <3>3. \A r \in DOMAIN owner' : /\ owner'[r] \in Originals
                                   /\ \E kind \in GeneratedKinds : r = Resource(kind, owner'[r])
      BY <3>2 DEF NamesInvariant
    <3>4. \A other \in converted' : \A kind \in GeneratedKinds :
            Resource(kind, other) \in DOMAIN owner'
      BY <3>2 DEF NamesInvariant
    <3> QED
      BY <3>2, <3>3, <3>4 DEF NamesInvariant, Resource
  <2>2. CASE UNCHANGED vars
    BY <2>2 DEF vars, NamesInvariant, Resource
  <2> QED
    BY <2>1, <2>2 DEF Next, AllNamed
<1> QED
  BY <1>1, <1>2, PTL DEF Spec

LEMMA SourceOf ==
  ASSUME NEW kind \in GeneratedKinds, NEW name \in Originals
  PROVE  Original(kind, name) \in Sources
BY DEF Sources

\* Whatever the BuildConfigs are called and whatever the limits, what is generated for them has
\* a valid DNS-1123 label of at most maxGeneratedNameLength characters (names.go 24-57).
THEOREM GeneratedLabelsValid == Spec => []LabelsValid
<1>1. NamesInvariant => LabelsValid
  <2> SUFFICES ASSUME NamesInvariant, NEW r \in DOMAIN owner
               PROVE  ValidLabel(r[2])
    BY DEF LabelsValid
  <2>1. PICK kind \in GeneratedKinds : r = Resource(kind, owner[r]) /\ owner[r] \in Originals
    BY DEF NamesInvariant
  <2>2. r[2] = Label[Original(kind, owner[r])]
    BY <2>1 DEF Resource
  <2> QED
    BY <2>1, <2>2, SourceOf, LabelIsValid
<1> QED
  BY <1>1, NamesInvariantHolds, PTL

\* No BuildConfig loses a generated resource to another but through the documented gap, for any
\* number of BuildConfigs in any order: it is the hash of the original name, never of the
\* sanitized one, that keeps rewritten names apart (names.go 28-31).
THEOREM NothingLostButInGap == Spec => []LostOnlyInGap
<1>1. NamesInvariant => LostOnlyInGap
  <2> SUFFICES ASSUME NamesInvariant, NEW name \in converted, NEW kind \in GeneratedKinds
               PROVE  \/ owner[Resource(kind, name)] = name
                      \/ Gap(Original(kind, name), Original(kind, owner[Resource(kind, name)]))
    BY DEF LostOnlyInGap
  <2> DEFINE r == Resource(kind, name)
             by == owner[r]
  <2>1. name \in Originals /\ r \in DOMAIN owner
    BY DEF NamesInvariant
  <2>2. PICK other \in GeneratedKinds : r = Resource(other, by) /\ by \in Originals
    BY <2>1 DEF NamesInvariant
  <2>3. other = kind /\ Label[Original(kind, name)] = Label[Original(kind, by)]
    BY <2>2 DEF Resource
  <2>4. \/ Original(kind, name) = Original(kind, by)
        \/ Gap(Original(kind, name), Original(kind, by))
    BY <2>1, <2>2, <2>3, SourceOf, LabelsTellApart
  <2>5. Original(kind, name) = Original(kind, by) => name = by
    <3>1. /\ name \in Seq(Characters) /\ by \in Seq(Characters)
          /\ <<"-", "dockerfile">> \in Seq(Characters)
      BY <2>1, <2>2, NamesAssumption, SuffixIsText
    <3>2. name \o <<"-", "dockerfile">> = by \o <<"-", "dockerfile">> => name = by
      BY <3>1, ConcatSimplifications
    <3> QED
      BY <3>2 DEF Original
  <2> QED
    BY <2>4, <2>5
<1> QED
  BY <1>1, NamesInvariantHolds, PTL
\* A name the cluster accepts is never rewritten, for any set of names in any order: of it, the
\* three steps of the sanitizer leave every character (names.go 36-57).
THEOREM ValidNamesAreKept == Spec => []ValidNamesKept
<1>1. NamesInvariant => ValidNamesKept
  <2> SUFFICES ASSUME NamesInvariant, NEW name \in converted, NEW kind \in GeneratedKinds,
                      ValidLabel(Original(kind, name))
               PROVE  <<kind, Original(kind, name)>> \in DOMAIN owner
    BY DEF ValidNamesKept
  <2> DEFINE a == Original(kind, name)
  <2>1. name \in Originals /\ Resource(kind, name) \in DOMAIN owner
    BY DEF NamesInvariant
  <2>2. a \in Sources /\ a \in Seq(Characters)
    BY <2>1, SourceOf, SourcesAreNames
  <2>3. Label[a] = a
    BY <2>2, ValidIsKept, KeptLabel
  <2> QED
    BY <2>1, <2>3 DEF Resource
<1> QED
  BY <1>1, NamesInvariantHolds, PTL
=============================================================================
