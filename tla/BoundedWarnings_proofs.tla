----------------------- MODULE BoundedWarnings_proofs -----------------------
(***************************************************************************)
(* The annotation is within its cap for every cap, every notice and every  *)
(* list of warnings.  The bound alone is not inductive: the reserve that   *)
(* NextFits sets aside is what the notice is later written into, so the    *)
(* invariant carries it through the loop.                                  *)
(***************************************************************************)
EXTENDS BoundedWarnings, WellFoundedInduction, TLAPS

\* What the loop keeps true: until something is kept nothing is written, and from then on there
\* is room for the notice of every warning omitted; what is written is what was kept, joined; and
\* the loop runs only when not everything fits.
LoopInvariant ==
  /\ sizes \in Seq(Nat) /\ Len(sizes) <= MaxWarnings
  /\ kept \in 0..Len(sizes)
  /\ pc = "join" => kept = 0 /\ length = 0
  /\ pc = "keep" => /\ length \in Nat /\ length = JoinedBytes(sizes)[kept]
                    /\ kept = 0 => length = 0
                    /\ kept > 0 => length + Reserved(sizes) <= MaxBytes
                    /\ JoinedBytes(sizes)[Len(sizes)] > MaxBytes
  /\ pc = "done" => /\ length \in Nat /\ length <= MaxBytes
                    /\ kept = KeptCount(sizes) /\ omitted = Len(sizes) - kept
  /\ pc # "done" => omitted = 0
  /\ pc \in {"join", "keep", "done"}

\* The notice is never longer than the reserve, whatever number it prints, and alone it fits.
LEMMA NoticeFitsReserve ==
  ASSUME NEW m \in Nat, NEW n \in Nat, m <= n, n <= MaxWarnings
  PROVE  /\ NoticeBytes[m] \in Nat /\ NoticeBytes[n] \in Nat
         /\ NoticeBytes[m] <= NoticeBytes[n]
         /\ NoticeBytes[m] <= MaxBytes
<1>1. m \in 0..MaxWarnings /\ n \in 0..MaxWarnings /\ MaxWarnings \in 0..MaxWarnings
  BY BudgetAssumption DEF BudgetAssumption
<1>2. \A j \in 0..MaxWarnings : NoticeBytes[j] \in Nat
  BY BudgetAssumption DEF BudgetAssumption
<1>3. NoticeBytes[m] <= NoticeBytes[n] /\ NoticeBytes[m] <= NoticeBytes[MaxWarnings]
  BY <1>1, BudgetAssumption DEF BudgetAssumption
<1> QED
  BY <1>1, <1>2, <1>3, BudgetAssumption DEF BudgetAssumption

-----------------------------------------------------------------------------
(* What the bytes of joined warnings are: JoinedBytes is a recursive        *)
(* function, and these say that it exists, counts, and never shrinks.       *)

LEMMA LeastExists ==
  ASSUME NEW S, S \subseteq Nat, S # {}
  PROVE  \E x \in S : \A y \in S : x <= y
<1> DEFINE Less == OpToRel(<, Nat)
<1>1. PICK x \in S : \A y \in S : ~(<<y, x>> \in Less)
  BY NatLessThanWellFounded, WFMin
<1>2. \A y \in S : x <= y
  <2> TAKE y \in S
  <2>1. y \in Nat /\ x \in Nat /\ ~(y < x)
    BY <1>1 DEF OpToRel
  <2> QED
    BY <2>1
<1> QED
  BY <1>2

\* What one more warning adds, newline included.
Cost(s, n) == (IF n > 1 THEN 1 ELSE 0) + s[n]

\* f counts the bytes of the first n warnings of s.
Counts(s, n, f) ==
  f \in [0..n -> Nat] /\ f[0] = 0 /\ \A k \in 1..n : f[k] = f[k - 1] + Cost(s, k)

LEMMA CostIsNat ==
  ASSUME NEW s \in Seq(Nat), NEW n \in 1..Len(s)
  PROVE  Cost(s, n) \in Nat
<1>1. s[n] \in Nat
  OBVIOUS
<1> QED
  BY <1>1 DEF Cost

LEMMA CountsExtended ==
  ASSUME NEW s \in Seq(Nat), NEW n \in 1..Len(s), NEW f, Counts(s, n - 1, f)
  PROVE  \E g : Counts(s, n, g)
<1> DEFINE g == [k \in 0..n |-> IF k = n THEN f[n - 1] + Cost(s, n) ELSE f[k]]
<1>1. n \in Nat /\ n - 1 \in Nat /\ Cost(s, n) \in Nat
  BY CostIsNat
<1>2. f \in [0..(n - 1) -> Nat] /\ f[0] = 0 /\ \A k \in 1..(n - 1) : f[k] = f[k - 1] + Cost(s, k)
  BY DEF Counts
<1>3. f[n - 1] \in Nat
  BY <1>1, <1>2
<1>4. g \in [0..n -> Nat]
  BY <1>1, <1>2, <1>3
<1>5. g[0] = 0
  BY <1>1, <1>2
<1>6. \A k \in 1..n : g[k] = g[k - 1] + Cost(s, k)
  <2> TAKE k \in 1..n
  <2>1. k \in Nat /\ k \in 0..n /\ k - 1 \in 0..n /\ k - 1 # n
    BY <1>1
  <2>2. g[k - 1] = f[k - 1]
    BY <2>1
  <2>3. CASE k = n
    BY <2>1, <2>2, <2>3
  <2>4. CASE k # n
    <3>1. k \in 1..(n - 1)
      BY <1>1, <2>1, <2>4
    <3>2. g[k] = f[k]
      BY <2>1, <2>4
    <3> QED
      BY <1>2, <2>2, <3>1, <3>2
  <2> QED
    BY <2>3, <2>4
<1> HIDE DEF g
<1> QED
  BY <1>4, <1>5, <1>6 DEF Counts

\* By the least list of warnings that could not be counted, were there one.
LEMMA CountsExists ==
  ASSUME NEW s \in Seq(Nat)
  PROVE  \E f : Counts(s, Len(s), f)
<1> DEFINE Bad == {n \in 0..Len(s) : ~\E f : Counts(s, n, f)}
<1>1. Len(s) \in Nat
  OBVIOUS
<1>2. CASE Bad = {}
  BY <1>1, <1>2
<1>3. CASE Bad # {}
  <2>1. Bad \subseteq Nat
    BY <1>1
  <2>2. PICK n \in Bad : \A m \in Bad : n <= m
    BY <1>3, <2>1, LeastExists
  <2>3. CASE n = 0
    <3> DEFINE f == [k \in 0..0 |-> 0]
    <3>1. Counts(s, 0, f)
      BY DEF Counts
    <3> QED
      BY <2>2, <2>3, <3>1
  <2>4. CASE n # 0
    <3>1. n \in 1..Len(s) /\ n - 1 \in 0..Len(s) /\ ~(n <= n - 1)
      BY <1>1, <2>2, <2>4
    <3>2. PICK f : Counts(s, n - 1, f)
      BY <2>2, <3>1
    <3>3. \E g : Counts(s, n, g)
      BY <3>1, <3>2, CountsExtended
    <3> QED
      BY <2>2, <3>3
  <2> QED
    BY <2>3, <2>4
<1> QED
  BY <1>2, <1>3

\* The recursion as an equation: the separator and the length are added to what came before.
LEMMA JoinedBytesRecursion ==
  ASSUME NEW s \in Seq(Nat)
  PROVE  JoinedBytes(s) = [n \in 0..Len(s) |->
                             IF n = 0 THEN 0
                             ELSE JoinedBytes(s)[n - 1] + (IF n > 1 THEN 1 ELSE 0) + s[n]]
<1> DEFINE body(f) == [n \in 0..Len(s) |->
                         IF n = 0 THEN 0 ELSE f[n - 1] + (IF n > 1 THEN 1 ELSE 0) + s[n]]
<1>1. PICK f : Counts(s, Len(s), f)
  BY CountsExists
<1>2. f = body(f)
  <2>1. /\ f \in [0..Len(s) -> Nat] /\ f[0] = 0
        /\ \A k \in 1..Len(s) : f[k] = f[k - 1] + Cost(s, k)
    BY <1>1 DEF Counts
  <2>2. \A n \in 0..Len(s) : f[n] = body(f)[n]
    <3> TAKE n \in 0..Len(s)
    <3>1. CASE n = 0
      BY <2>1, <3>1
    <3>2. CASE n # 0
      <4>1. n \in 1..Len(s) /\ n - 1 \in 0..Len(s) /\ s[n] \in Nat
        BY <3>2
      <4>2. f[n] = f[n - 1] + ((IF n > 1 THEN 1 ELSE 0) + s[n]) /\ f[n - 1] \in Nat
        BY <2>1, <4>1 DEF Cost
      <4> QED
        BY <3>2, <4>1, <4>2
    <3> QED
      BY <3>1, <3>2
  <2> QED
    BY <2>1, <2>2
<1>3. JoinedBytes(s) = CHOOSE g : g = body(g)
  BY DEF JoinedBytes
<1> HIDE DEF body
<1>4. JoinedBytes(s) = body(JoinedBytes(s))
  BY <1>2, <1>3
<1> QED
  BY <1>4 DEF body

\* The same by cases: nothing for no warning, and for each one its cost.
LEMMA JoinedBytesSteps ==
  ASSUME NEW s \in Seq(Nat)
  PROVE  /\ JoinedBytes(s)[0] = 0
         /\ \A n \in 1..Len(s) : JoinedBytes(s)[n] = JoinedBytes(s)[n - 1] + Cost(s, n)
         /\ \A n \in 0..Len(s) : JoinedBytes(s)[n] \in Nat
<1> DEFINE J == JoinedBytes(s)
           Bad == {n \in 0..Len(s) : J[n] \notin Nat}
<1>1. Len(s) \in Nat
  OBVIOUS
<1>2. \A n \in 0..Len(s) :
        J[n] = IF n = 0 THEN 0 ELSE J[n - 1] + (IF n > 1 THEN 1 ELSE 0) + s[n]
  <2> DEFINE value(n) == IF n = 0 THEN 0 ELSE J[n - 1] + (IF n > 1 THEN 1 ELSE 0) + s[n]
  <2>1. J = [n \in 0..Len(s) |-> value(n)]
    BY JoinedBytesRecursion
  <2> HIDE DEF J, value
  <2>2. \A n \in 0..Len(s) : J[n] = value(n)
    BY <2>1
  <2> QED
    BY <2>2 DEF value
<1> HIDE DEF J
<1>3. J[0] = 0
  BY <1>1, <1>2
<1>4. Bad = {}
  <2> SUFFICES ASSUME Bad # {} PROVE FALSE
    OBVIOUS
  <2>1. PICK n \in Bad : \A m \in Bad : n <= m
    <3>1. Bad \subseteq Nat
      BY <1>1
    <3> QED
      BY <3>1, LeastExists
  <2>2. n \in 1..Len(s) /\ n - 1 \in 0..Len(s) /\ ~(n <= n - 1) /\ n # 0
    BY <1>1, <1>3, <2>1
  <2>3. J[n - 1] \in Nat
    BY <2>1, <2>2
  <2>4. s[n] \in Nat
    BY <2>2
  <2>5. J[n] \in Nat
    BY <1>2, <2>2, <2>3, <2>4
  <2> QED
    BY <2>1, <2>5
<1>5. \A n \in 0..Len(s) : J[n] \in Nat
  BY <1>4
<1>6. \A n \in 1..Len(s) : J[n] = J[n - 1] + Cost(s, n)
  <2> TAKE n \in 1..Len(s)
  <2>1. n \in 0..Len(s) /\ n # 0 /\ s[n] \in Nat /\ n - 1 \in 0..Len(s)
    OBVIOUS
  <2>2. J[n] = J[n - 1] + (IF n > 1 THEN 1 ELSE 0) + s[n] /\ J[n - 1] \in Nat
    BY <1>2, <1>5, <2>1
  <2> QED
    BY <2>1, <2>2 DEF Cost
<1> QED
  BY <1>3, <1>5, <1>6 DEF J

LEMMA OneMoreCosts ==
  ASSUME NEW s \in Seq(Nat), NEW k \in Nat, k < Len(s)
  PROVE  JoinedBytes(s)[k + 1] = JoinedBytes(s)[k] + Cost(s, k + 1)
<1> DEFINE J == JoinedBytes(s)
<1>1. \A n \in 1..Len(s) : J[n] = J[n - 1] + Cost(s, n)
  BY JoinedBytesSteps
<1>2. k + 1 \in 1..Len(s) /\ (k + 1) - 1 = k
  OBVIOUS
<1> HIDE DEF J
<1>3. J[k + 1] = J[(k + 1) - 1] + Cost(s, k + 1)
  BY <1>1, <1>2, Zenon
<1> QED
  BY <1>2, <1>3 DEF J

\* More warnings are never shorter than fewer.
LEMMA JoinedBytesGrow ==
  ASSUME NEW s \in Seq(Nat), NEW m \in 0..Len(s), NEW n \in 0..Len(s), m <= n
  PROVE  JoinedBytes(s)[m] <= JoinedBytes(s)[n]
<1> DEFINE J == JoinedBytes(s)
           Bad == {k \in 0..Len(s) : m <= k /\ ~(J[m] <= J[k])}
<1>1. Len(s) \in Nat
  OBVIOUS
<1>2. /\ \A k \in 1..Len(s) : J[k] = J[k - 1] + Cost(s, k)
      /\ \A k \in 0..Len(s) : J[k] \in Nat
  BY JoinedBytesSteps
<1> HIDE DEF J
<1>3. Bad = {}
  <2> SUFFICES ASSUME Bad # {} PROVE FALSE
    OBVIOUS
  <2>1. PICK k \in Bad : \A j \in Bad : k <= j
    <3>1. Bad \subseteq Nat
      BY <1>1
    <3> QED
      BY <3>1, LeastExists
  <2>2. k # m
    BY <1>2, <2>1
  <2>3. k \in 1..Len(s) /\ k - 1 \in 0..Len(s) /\ m <= k - 1 /\ ~(k <= k - 1)
    BY <1>1, <2>1, <2>2
  <2>4. J[m] <= J[k - 1]
    BY <2>1, <2>3
  <2>5. Cost(s, k) \in Nat /\ J[k] = J[k - 1] + Cost(s, k) /\ J[k - 1] \in Nat /\ J[m] \in Nat
    BY <1>2, <2>3, CostIsNat
  <2>6. J[m] <= J[k]
    BY <2>4, <2>5
  <2> QED
    BY <2>1, <2>6
<1> QED
  BY <1>3 DEF J

-----------------------------------------------------------------------------
\* The lists of warnings a conversion may start with are sequences of lengths.
LEMMA SizesAreASequence ==
  ASSUME Init
  PROVE  sizes \in Seq(Nat) /\ Len(sizes) <= MaxWarnings
<1>1. PICK n \in 0..MaxWarnings : sizes \in [1..n -> WarningSizes]
  BY DEF Init
<1>2. n \in Nat /\ sizes \in [1..n -> Nat]
  <2>1. n \in Nat
    BY BudgetAssumption DEF BudgetAssumption
  <2>2. sizes = [k \in 1..n |-> sizes[k]] /\ \A k \in 1..n : sizes[k] \in Nat
    BY <1>1, SizesAssumption DEF SizesAssumption
  <2> QED
    BY <2>1, <2>2
<1>3. sizes \in Seq(Nat) /\ Len(sizes) = n
  BY <1>2
<1> QED
  BY <1>1, <1>3, BudgetAssumption DEF BudgetAssumption

\* What the loop stops at is the longest prefix that fits: all that are longer cost more than the
\* first one that does not fit, and the whole list does not.
LEMMA KeptIsMost ==
  ASSUME NEW s \in Seq(Nat), Len(s) <= MaxWarnings, NEW k \in 0..Len(s),
         JoinedBytes(s)[Len(s)] > MaxBytes,
         k > 0 => JoinedBytes(s)[k] + Reserved(s) <= MaxBytes,
         ~(k < Len(s) /\ JoinedBytes(s)[k + 1] + Reserved(s) <= MaxBytes)
  PROVE  KeptCount(s) = k
<1> DEFINE J == JoinedBytes(s)
           R == Reserved(s)
           fits(n) == n = 0 \/ J[n] + R <= MaxBytes
           most(n) == fits(n) /\ \A m \in 0..Len(s) : fits(m) => m <= n
<1>1. Len(s) \in Nat /\ MaxBytes \in Nat /\ R \in Nat
  <2>1. Len(s) \in Nat /\ MaxBytes \in Nat
    BY BudgetAssumption DEF BudgetAssumption
  <2>2. NoticeBytes[Len(s)] \in Nat
    BY <2>1, NoticeFitsReserve
  <2> QED
    BY <2>1, <2>2 DEF Reserved
<1>2. /\ J[0] = 0 /\ \A n \in 0..Len(s) : J[n] \in Nat
      /\ \A m, n \in 0..Len(s) : m <= n => J[m] <= J[n]
  BY JoinedBytesSteps, JoinedBytesGrow
<1>3. KeptCount(s) = CHOOSE n \in 0..Len(s) : most(n)
  <2>1. ~(J[Len(s)] <= MaxBytes)
    BY <1>1, <1>2
  <2> QED
    BY <2>1 DEF KeptCount
<1>4. /\ k > 0 => J[k] + R <= MaxBytes
      /\ ~(k < Len(s) /\ J[k + 1] + R <= MaxBytes)
  OBVIOUS
<1> HIDE DEF J, R
<1>5. fits(k)
  BY <1>1, <1>4
<1>6. \A m \in 0..Len(s) : fits(m) => m <= k
  <2> SUFFICES ASSUME NEW m \in 0..Len(s), fits(m), ~(m <= k)
               PROVE  FALSE
    OBVIOUS
  <2>1. k + 1 \in 0..Len(s) /\ k + 1 <= m /\ k < Len(s) /\ m > 0
    BY <1>1
  <2>2. J[m] + R <= MaxBytes /\ J[k + 1] <= J[m] /\ J[m] \in Nat /\ J[k + 1] \in Nat
    BY <1>2, <2>1
  <2>3. J[k + 1] + R <= MaxBytes
    BY <1>1, <2>2
  <2> QED
    BY <1>4, <2>1, <2>3
<1>7. most(k)
  BY <1>5, <1>6
<1>8. \A n \in 0..Len(s) : most(n) => n = k
  <2> TAKE n \in 0..Len(s)
  <2> HAVE most(n)
  <2>1. fits(n) /\ k <= n
    BY <1>5
  <2>2. n <= k
    BY <1>6, <2>1
  <2> QED
    BY <1>1, <2>1, <2>2
<1> HIDE DEF most
<1> QED
  BY <1>3, <1>7, <1>8

\* The invariant holds once boundedWarnings is called.
LEMMA LoopInvariantInit == Init => LoopInvariant
<1> SUFFICES ASSUME Init PROVE LoopInvariant
  OBVIOUS
<1>1. sizes \in Seq(Nat) /\ Len(sizes) <= MaxWarnings
  BY SizesAreASequence
<1> QED
  BY <1>1 DEF Init, LoopInvariant

\* Every step of the loop keeps the invariant.
LEMMA LoopInvariantStep == LoopInvariant /\ [Next]_vars => LoopInvariant'
<1> SUFFICES ASSUME LoopInvariant, [Next]_vars PROVE LoopInvariant'
  OBVIOUS
<1>0. MaxBytes \in Nat /\ MaxWarnings \in Nat /\ NoticeBytes \in [0..MaxWarnings -> Nat]
  BY BudgetAssumption DEF BudgetAssumption
<1>1. CASE JoinAll
  <2>1. sizes \in Seq(Nat) /\ Len(sizes) \in Nat /\ omitted = 0
    BY <1>1 DEF JoinAll, LoopInvariant
  <2>2. JoinedBytes(sizes)[Len(sizes)] \in Nat
    BY <2>1, JoinedBytesSteps
  <2>3. KeptCount(sizes) = Len(sizes)
    BY <1>1 DEF JoinAll, KeptCount
  <2> QED
    BY <1>1, <2>1, <2>2, <2>3 DEF JoinAll, LoopInvariant
<1>2. CASE StartKeeping
  <2>1. sizes \in Seq(Nat) /\ kept = 0 /\ length = 0
    BY <1>2 DEF StartKeeping, LoopInvariant
  <2>2. JoinedBytes(sizes)[0] = 0
    BY <2>1, JoinedBytesSteps
  <2> QED
    BY <1>2, <2>1, <2>2 DEF StartKeeping, LoopInvariant
<1>3. CASE KeepNext
  <2>1. sizes \in Seq(Nat) /\ kept \in 0..Len(sizes) /\ length \in Nat /\ kept < Len(sizes)
    BY <1>3 DEF KeepNext, NextFits, LoopInvariant
  <2>2. Len(sizes) \in Nat /\ kept \in Nat /\ kept + 1 \in 1..Len(sizes)
    BY <2>1
  <2>3. sizes[kept + 1] \in Nat
    BY <2>1, <2>2
  <2>4. Needed \in Nat
    BY <2>3 DEF Needed
  <2>5. kept' > 0 /\ kept' \in 0..Len(sizes) /\ length' \in Nat
    BY <1>3, <2>1, <2>2, <2>4 DEF KeepNext
  <2>6. (length + Needed) + Reserved(sizes) <= MaxBytes
    BY <1>3 DEF KeepNext, NextFits
  <2>7. length' + Reserved(sizes') <= MaxBytes
    BY <1>3, <2>6 DEF KeepNext
  <2>8. length' = JoinedBytes(sizes)[kept']
    <3>1. JoinedBytes(sizes)[kept + 1] = JoinedBytes(sizes)[kept] + Cost(sizes, kept + 1)
      BY <2>1, <2>2, OneMoreCosts
    <3>2. Cost(sizes, kept + 1) = Needed
      BY <2>2, <2>3 DEF Cost, Needed
    <3>3. length = JoinedBytes(sizes)[kept]
      BY <1>3 DEF KeepNext, LoopInvariant
    <3> QED
      BY <1>3, <3>1, <3>2, <3>3 DEF KeepNext
  <2> QED
    BY <1>3, <2>5, <2>7, <2>8 DEF KeepNext, LoopInvariant
<1>4. CASE WriteNotice
  <2>1. Len(sizes) \in Nat /\ kept \in Nat /\ kept <= Len(sizes) /\ length \in Nat
    BY <1>4 DEF WriteNotice, LoopInvariant
  <2>2. Len(sizes) - kept \in Nat /\ Len(sizes) - kept <= Len(sizes) /\ Len(sizes) <= MaxWarnings
    BY <2>1 DEF LoopInvariant
  <2>3. /\ NoticeBytes[Len(sizes) - kept] \in Nat /\ NoticeBytes[Len(sizes)] \in Nat
        /\ NoticeBytes[Len(sizes) - kept] <= NoticeBytes[Len(sizes)]
        /\ NoticeBytes[Len(sizes) - kept] <= MaxBytes
    BY <2>1, <2>2, NoticeFitsReserve
  <2>4. length' <= MaxBytes
    <3>1. CASE kept = 0
      BY <1>4, <2>3, <3>1 DEF WriteNotice, LoopInvariant
    <3>2. CASE kept > 0
      <4>1. length + (NoticeBytes[Len(sizes)] + 1) <= MaxBytes
        BY <1>0, <1>4, <3>2 DEF WriteNotice, LoopInvariant, Reserved
      <4>2. length' = (length + 1) + NoticeBytes[Len(sizes) - kept]
        BY <1>4, <3>2 DEF WriteNotice
      <4> QED
        BY <1>0, <2>1, <2>3, <4>1, <4>2
    <3> QED
      BY <2>1, <3>1, <3>2
  <2>5. length' \in Nat
    BY <1>4, <2>1, <2>3 DEF WriteNotice
  <2>6. kept = KeptCount(sizes)
    <3>1. /\ sizes \in Seq(Nat) /\ length = JoinedBytes(sizes)[kept]
          /\ JoinedBytes(sizes)[Len(sizes)] > MaxBytes
          /\ kept > 0 => length + Reserved(sizes) <= MaxBytes
      BY <1>4 DEF WriteNotice, LoopInvariant
    <3>2. kept < Len(sizes) => JoinedBytes(sizes)[kept + 1] = length + Needed
      <4> HAVE kept < Len(sizes)
      <4>1. kept + 1 \in 1..Len(sizes)
        BY <2>1
      <4>2. JoinedBytes(sizes)[kept + 1] = JoinedBytes(sizes)[kept] + Cost(sizes, kept + 1)
        BY <2>1, <3>1, OneMoreCosts
      <4>3. Cost(sizes, kept + 1) = Needed
        <5>1. sizes[kept + 1] \in Nat
          BY <3>1, <4>1
        <5> QED
          BY <2>1, <5>1 DEF Cost, Needed
      <4> QED
        BY <3>1, <4>2, <4>3
    <3>3. ~(kept < Len(sizes) /\ JoinedBytes(sizes)[kept + 1] + Reserved(sizes) <= MaxBytes)
      BY <1>4, <3>2 DEF WriteNotice, NextFits
    <3> QED
      BY <2>1, <2>2, <3>1, <3>3, KeptIsMost
  <2> QED
    BY <1>4, <2>1, <2>4, <2>5, <2>6 DEF WriteNotice, LoopInvariant
<1>5. CASE UNCHANGED vars
  BY <1>5 DEF vars, LoopInvariant, Reserved
<1> QED
  BY <1>1, <1>2, <1>3, <1>4, <1>5 DEF Next, Returned

\* The invariant holds throughout.
THEOREM LoopInvariantAlways == Spec => []LoopInvariant
  BY LoopInvariantInit, LoopInvariantStep, PTL DEF Spec

\* The values the loop's variables take: the numbers it counts never leave the list.
THEOREM TypeCorrect == Spec => []TypeOK
<1>1. LoopInvariant => TypeOK
  <2> SUFFICES ASSUME LoopInvariant PROVE TypeOK
    OBVIOUS
  <2>1. Len(sizes) \in Nat /\ kept \in 0..Len(sizes)
    BY DEF LoopInvariant
  <2>2. omitted \in 0..Len(sizes) /\ length \in Nat
    BY <2>1 DEF LoopInvariant
  <2> QED
    BY <2>1, <2>2 DEF LoopInvariant, TypeOK
<1> QED
  BY <1>1, LoopInvariantAlways, PTL

\* The conversion-warnings annotation is at most maxConversionWarningsBytes long, notice
\* included, whatever the warnings are.
THEOREM AnnotationIsBounded == Spec => []AnnotationBounded
<1>1. LoopInvariant => AnnotationBounded
  <2> SUFFICES ASSUME LoopInvariant PROVE length <= MaxBytes
    BY DEF AnnotationBounded
  <2> USE BudgetAssumption DEF BudgetAssumption
  <2>1. CASE pc \in {"join", "done"}
    BY <2>1 DEF LoopInvariant
  <2>2. CASE pc = "keep"
    <3>1. length \in Nat /\ kept \in Nat /\ NoticeBytes[Len(sizes)] \in Nat
      BY <2>2, NoticeFitsReserve DEF LoopInvariant
    <3> QED
      BY <2>2, <3>1 DEF LoopInvariant, Reserved
  <2> QED
    BY <2>1, <2>2 DEF LoopInvariant
<1> QED
  BY <1>1, LoopInvariantAlways, PTL

\* The loop is greedy and loses nothing by it: it keeps as many leading warnings as could be kept
\* with a notice of the length set aside, or all of them when the joined list fits without one
\* (converter.go 333-366).
THEOREM WhatFitsIsKept == Spec => []KeepsWhatFits
<1>1. LoopInvariant => KeepsWhatFits
  BY DEF LoopInvariant, KeepsWhatFits
<1> QED
  BY <1>1, LoopInvariantAlways, PTL
=============================================================================
