---------------------- MODULE ConvertProperties_proofs ----------------------
(***************************************************************************)
(* The properties of ConvertProperties, for every set of BuildConfigs,     *)
(* every flag value and every number of conversions.  Each is proved along *)
(* one argument: what the finished Build and its warnings must satisfy is  *)
(* an invariant of the conversion from the step that decides it on; the    *)
(* steps before cannot have decided it and those after leave it alone.     *)
(*                                                                         *)
(* XSoFar is that invariant for a topic X, StepX shows that every step of  *)
(* the system keeps it, and FinalX that the result Finish returns has the  *)
(* property once the invariant holds of the Build it finishes.             *)
(***************************************************************************)
EXTENDS ConvertLedger_proofs

-----------------------------------------------------------------------------
(* The outcome.                                                            *)

\* The annotation holds a number of leading warnings.
LEMMA KeptFits ==
  ASSUME NEW sizes, IsList(sizes)
  PROVE  KeptCount(sizes) \in 0..Len(sizes)
<1> DEFINE fits(n) == n = 0 \/ JoinedBytes(sizes)[n] + Reserved(sizes) <= MaxBytes
           T == {n \in 0..Len(sizes) : fits(n)}
<1>1. Len(sizes) \in Nat
  BY ListFacts
<1>2. 0 \in T /\ T \subseteq 0..Len(sizes)
  BY <1>1
<1>3. PICK n \in T : \A m \in T : m <= n
  BY <1>1, <1>2, LargestExists
<1>4. n \in 0..Len(sizes) /\ fits(n) /\ \A m \in 0..Len(sizes) : fits(m) => m <= n
  BY <1>3
<1>5. KeptCount(sizes) = IF JoinedBytes(sizes)[Len(sizes)] <= MaxBytes THEN Len(sizes)
                         ELSE CHOOSE k \in 0..Len(sizes) :
                                fits(k) /\ \A m \in 0..Len(sizes) : fits(m) => m <= k
  BY Zenon DEF KeptCount
<1> HIDE DEF fits
<1>6. (CHOOSE k \in 0..Len(sizes) : fits(k) /\ \A m \in 0..Len(sizes) : fits(m) => m <= k)
        \in 0..Len(sizes)
  BY <1>4
<1> QED
  BY <1>1, <1>5, <1>6

\* The truncation notice is raised by the last step alone.
OmissionSoFar == pc # "idle" => Tally(Own, "WarningsOmitted") = 0

\* Every step of the system keeps it.
LEMMA StepOmission ==
  ASSUME Background, OmissionSoFar, [Next]_vars
  PROVE  OmissionSoFar'
<1>1. TypeOK
  BY DEF Background
<1>2. CASE \E b \in BuildConfigs : Begin(b)
  BY <1>1, <1>2, TallyBegins DEF OmissionSoFar
<1>3. CASE Goes /\ Step
  <2>1. ~MayRaise(pc, "WarningsOmitted")
    BY DEF MayRaise, DropWarnings
  <2>2. pc # "idle"
    BY <1>3 DEF Goes, Running
  <2> QED
    BY <1>1, <1>3, <2>1, <2>2, TallyUntold DEF OmissionSoFar
<1>4. CASE pc' = "idle"
  BY <1>4 DEF OmissionSoFar
<1>5. CASE UNCHANGED vars
  BY <1>5 DEF vars, OmissionSoFar, Tally, Own, OwnWarnings
<1> QED
  BY <1>1, <1>2, <1>3, <1>4, <1>5, NextCases

\* So it holds throughout.
LEMMA OmissionAlways == Spec => []OmissionSoFar
<1>1. Init => OmissionSoFar
  BY DEF Init, OmissionSoFar
<1>2. Background /\ OmissionSoFar /\ [Next]_vars => OmissionSoFar'
  BY StepOmission
<1> QED
  BY <1>1, <1>2, BackgroundAlways, PTL DEF Spec

\* What Finish returns: the state, the list and the annotations say the same, and the annotation
\* accounts for what it leaves out, the largest number of warnings that fits being the one kept.
LEMMA FinalRecords ==
  ASSUME Background, OmissionSoFar, pc = "classify"
  PROVE  RecordsAgree(Final)
<1> DEFINE s == Own
           t == Attributed(cur, OmittedWarning)
           n == Len(s)
           note == Annotations(Final)[ConversionWarningsAnnotation]
<1>1. TypeOK /\ IsList(s) /\ n \in Nat /\ DOMAIN s = 1..n
  BY Context, ListFacts DEF Background
<1>2. Kept \in 0..n
  <2> DEFINE sizes == [k \in DOMAIN Own |-> WarningBytes]
  <2>1. sizes = [k \in 1..n |-> WarningBytes]
    BY <1>1
  <2>2. IsList(sizes) /\ Len(sizes) = n
    <3> HIDE DEF n
    <3>1. sizes = [k \in 1..n |-> sizes[k]]
      BY <2>1
    <3> HIDE DEF sizes
    <3> QED
      BY <1>1, <3>1, ListIntro
  <2> HIDE DEF sizes
  <2>3. KeptCount(sizes) \in 0..n
    BY <2>2, KeptFits
  <2> QED
    BY <2>3 DEF Kept, sizes
<1>3. Tally(s, "WarningsOmitted") = 0
  BY DEF OmissionSoFar
<1>4. /\ IsList(t) /\ Len(t) = IF Kept < n THEN 1 ELSE 0
      /\ Tally(t, "WarningsOmitted") = IF Kept < n THEN 1 ELSE 0
  <2> DEFINE m == OmittedWarning
             one == W("WarningsOmitted", <<>>)
             short == Kept < n
             id == "WarningsOmitted"
  <2>1. m = When(short, one) /\ Tally(one, id) = 1 /\ IsList(m) /\ Len(one) = 1
    BY TallyOne, ListOfMessages DEF OmittedWarning, W
  <2> HIDE DEF one, short, id
  <2>2. Tally(When(short, one), id) = IF short THEN Tally(one, id) ELSE 0
    BY TallyWhen
  <2>3. Len(m) = IF short THEN 1 ELSE 0
    BY <2>1 DEF When
  <2> HIDE DEF m
  <2>4. /\ IsList(Attributed(cur, m)) /\ Len(Attributed(cur, m)) = Len(m)
        /\ Tally(Attributed(cur, m), id) = Tally(m, id)
    BY <2>1, AttributedList, LedgerAttributed DEF Tally
  <2> QED
    BY <2>1, <2>2, <2>3, <2>4 DEF m, short, id
<1> HIDE DEF t, s
<1>5. /\ Final.recorded = s \o t /\ Final.state = State
      /\ Annotations(Final)[ConversionOutcomeAnnotation] = State
      /\ s # <<>> => note = WarningsNote
  BY FinalAnnotations DEF Final, Said, s, t
<1>6. /\ Len(s \o t) = n + Len(t) /\ IsList(s \o t)
      /\ \A k \in 1..n : (s \o t)[k] = s[k]
  BY <1>1, <1>4, ListConcat
<1>7. /\ Cardinality(Raised(Final, "WarningsOmitted")) = IF Kept < n THEN 1 ELSE 0
      /\ Kept < n => Raised(Final, "WarningsOmitted") # {}
  <2> DEFINE ids == {"WarningsOmitted"}
             u == s \o t
  <2>1. Cardinality(Raised(Final, "WarningsOmitted")) = Tally(u, "WarningsOmitted")
    BY <1>5 DEF Raised, Tally, Count
  <2>2. Tally(u, "WarningsOmitted") = Tally(s, "WarningsOmitted") + Tally(t, "WarningsOmitted")
    BY <1>1, <1>4, TallyAdds
  <2>3. Raised(Final, "WarningsOmitted") = At(u, ids) /\ Tally(u, "WarningsOmitted") = Count(u, ids)
    BY <1>5 DEF Raised, Tally
  <2> HIDE DEF ids, u
  <2>4. Count(u, ids) = 0 <=> At(u, ids) = {}
    BY <1>6, LedgerCounts DEF u
  <2> QED
    BY <1>3, <1>4, <2>1, <2>2, <2>3, <2>4
<1>8. (State = "converted-with-warnings") = (s # <<>>)
  BY DEF State, s
<1>9. (s # <<>>) = (s \o t # <<>>)
  <2>1. s = <<>> => n = 0
    BY ListFacts
  <2>2. s # <<>> => n # 0
    BY <1>1 DEF IsList
  <2>3. n = 0 => Len(t) = 0
    BY <1>2, <1>4
  <2>4. s \o t = <<>> <=> n + Len(t) = 0
    <3>1. s \o t = <<>> => Len(s \o t) = 0
      OBVIOUS
    <3>2. Len(s \o t) = 0 => s \o t = <<>>
      BY <1>6 DEF IsList
    <3> QED
      BY <1>6, <3>1, <3>2
  <2>5. Len(t) \in Nat
    BY <1>4
  <2> QED
    BY <1>1, <2>1, <2>2, <2>3, <2>4, <2>5
<1>10. CASE s # <<>>
  <2>1. note.kept = SubSeq(s, 1, Kept) /\ note.omitted = n - Kept
    BY <1>5, <1>10 DEF WarningsNote, s
  <2>2. Len(SubSeq(s, 1, Kept)) = Kept /\ IsPrefix(SubSeq(s, 1, Kept), s \o t)
    <3> DEFINE u == SubSeq(s, 1, Kept)
    <3>1. u = [k \in 1..Kept |-> s[k]] /\ Len(u) = Kept
      BY <1>1, <1>2 DEF IsList
    <3>2. SubSeq(u, 1, Kept) = [k \in 1..Kept |-> u[k]]
      BY <1>2, <3>1
    <3>3. SubSeq(s \o t, 1, Kept) = [k \in 1..Kept |-> (s \o t)[k]]
      BY <1>2
    <3>4. \A k \in 1..Kept : u[k] = (s \o t)[k]
      BY <1>1, <1>2, <1>6, <3>1
    <3>5. Kept <= Len(s \o t)
      BY <1>1, <1>2, <1>4, <1>6
    <3> QED
      BY <3>1, <3>2, <3>3, <3>4, <3>5 DEF IsPrefix
  <2>3. n - Kept > 0 <=> Kept < n
    BY <1>1, <1>2
  <2>4. Kept + (n - Kept) + (IF Kept < n THEN 1 ELSE 0) = n + Len(t)
    BY <1>1, <1>2, <1>4
  <2> HIDE DEF note
  <2>5. /\ IsPrefix(note.kept, Final.recorded)
        /\ note.omitted > 0 => Raised(Final, "WarningsOmitted") # {}
        /\ Len(note.kept) + note.omitted + Cardinality(Raised(Final, "WarningsOmitted"))
             = Len(Final.recorded)
    BY <1>5, <1>6, <1>7, <2>1, <2>2, <2>3, <2>4
  <2> QED
    BY <1>5, <1>8, <1>9, <2>5 DEF RecordsAgree, note
<1>11. CASE s = <<>>
  BY <1>5, <1>8, <1>9, <1>11 DEF RecordsAgree
<1> QED
  BY <1>10, <1>11

\* The three records of an outcome agree, for every conversion: the state Convert returns, the
\* list of warnings it returns, and the outcome and warnings annotations on the Build.  What the
\* annotation leaves out it counts, and the truncation notice that boundedWarnings records while
\* the outcome is assembled is in the list and not in the annotation.
THEOREM OutcomesAgree == Spec => []OutcomeRecordsAgree
<1> DEFINE Agree == \A r \in Replaced : RecordsAgree(r)
<1>1. Init => Agree
  BY NoneReplaced
<1>2. Background /\ OmissionSoFar /\ Agree /\ [Next]_vars => Agree'
  <2> SUFFICES ASSUME Background, OmissionSoFar, Agree, [Next]_vars PROVE Agree'
    OBVIOUS
  <2>1. pc = "classify" => RecordsAgree(Final)
    BY FinalRecords
  <2> QED
    BY <2>1, OneMore
<1>3. Spec => []Agree
  <2> HIDE DEF Agree
  <2> QED
    BY <1>1, <1>2, BackgroundAlways, OmissionAlways, PTL DEF Spec
<1> QED
  BY <1>3, WarningsReturned, PTL DEF OutcomeRecordsAgree

-----------------------------------------------------------------------------
(* The strategy: its type is one of two, and its name stays as it is.      *)

\* A conversion past the strategy step has a strategy of one of the two types, and goes through
\* its build args and volumes only if the BuildConfig fills in that strategy.
StrategySoFar ==
  pc \notin {"idle", "strategy"} =>
    /\ bc.strategy.type \in {"Docker", "Source"}
    /\ pc \in {"buildArgs", "volumes"} =>
         IF bc.strategy.type = "Docker" THEN bc.strategy.docker # Nil
         ELSE bc.strategy.source # Nil /\ pc = "volumes"

\* Every step of the system keeps it.
LEMMA StepStrategy ==
  ASSUME Background, StrategySoFar, [Next]_vars
  PROVE  StrategySoFar'
<1>1. TypeOK
  BY DEF Background
<1>2. CASE \E b \in BuildConfigs : Begin(b)
  BY <1>2 DEF StrategySoFar, Begin
<1>3. CASE Goes /\ Step
  <2>1. UNCHANGED bc /\ Follows(pc, pc')
    BY <1>3, Untouched DEF Goes
  <2>2. CASE pc # "strategy"
    <3>1. pc # "idle" /\ (pc' \in {"buildArgs", "volumes"} => pc \in {"buildArgs", "volumes"})
          /\ (pc' = "buildArgs" => pc = "buildArgs")
      BY <2>1, <2>2 DEF Follows
    <3> QED
      BY <2>1, <2>2, <3>1 DEF StrategySoFar
  <2>3. CASE pc = "strategy"
    <3>1. DockerStrategy \/ BareDockerStrategy \/ SourceStrategy \/ BareSourceStrategy
      BY <1>3, <2>3, StepAt
    <3> QED
      BY <2>1, <3>1
         DEF DockerStrategy, BareDockerStrategy, SourceStrategy, BareSourceStrategy, Goto,
             StrategySoFar, Docker, S2I
  <2> QED
    BY <2>2, <2>3
<1>4. CASE pc' = "idle"
  BY <1>4 DEF StrategySoFar
<1>5. CASE UNCHANGED vars
  BY <1>5 DEF vars, StrategySoFar
<1> QED
  BY <1>1, <1>2, <1>3, <1>4, <1>5, NextCases

\* So it holds throughout.
LEMMA StrategyAlways == Spec => []StrategySoFar
<1>1. Init => StrategySoFar
  BY NothingPassed DEF Init, StrategySoFar
<1>2. Background /\ StrategySoFar /\ [Next]_vars => StrategySoFar'
  BY StepStrategy
<1> QED
  BY <1>1, <1>2, BackgroundAlways, PTL DEF Spec

-----------------------------------------------------------------------------
(* The deadline.                                                           *)

\* A timeout is the deadline, in nanoseconds.
TimeoutFits(b, timeout) ==
  timeout # Nil => timeout > 0 /\ timeout % Second = 0 /\ timeout \div Second = b.deadline

\* A timeout is set by its step or not at all, and then the deadline is reported as dropped.
DeadlineSoFar ==
  /\ pc # "idle" /\ pc \notin PastDeadline => build.timeout = Nil
  /\ pc \in PastDeadline =>
       /\ TimeoutFits(bc, build.timeout)
       /\ bc.deadline # Nil /\ build.timeout = Nil => Count(Own, {"DeadlineDropped"}) # 0

\* A deadline that fits does not overflow.
LEMMA DeadlineKept ==
  ASSUME NEW d \in Int, d > 0, d <= maxTimeoutSeconds
  PROVE  /\ Int64(d * Second) = d * Second
         /\ d * Second > 0 /\ (d * Second) % Second = 0 /\ (d * Second) \div Second = d
<1> DEFINE n == d * Second
<1>1. MaxInt64 \in Nat /\ Second \in Nat /\ Second > 0
  BY ConvertAssumption
<1>2. n \in Nat /\ n > 0
  BY <1>1
<1>3. n <= MaxInt64
  <2> DEFINE q == MaxInt64 \div Second
  <2>1. q \in Nat /\ q * Second <= MaxInt64
    BY <1>1
  <2>2. d <= q
    BY DEF maxTimeoutSeconds
  <2> HIDE DEF q
  <2>3. d * Second <= q * Second
    BY <1>1, <2>1, <2>2
  <2> QED
    BY <1>1, <1>2, <2>1, <2>3
<1>4. n % Second = 0 /\ n \div Second = d
  BY <1>1
<1> HIDE DEF n
<1>5. Int64(n) = n
  <2> DEFINE w == n + MaxInt64 + 1
             m == 2 * (MaxInt64 + 1)
  <2>1. w \in Nat /\ m \in Nat /\ m > 0 /\ w < m
    BY <1>1, <1>2, <1>3
  <2> HIDE DEF w, m
  <2>2. w % m = w
    BY <2>1
  <2> QED
    BY <1>1, <1>2, <2>2 DEF Int64, w, m
<1> QED
  BY <1>2, <1>4, <1>5 DEF n

\* Every step of the system keeps it.
LEMMA StepDeadline ==
  ASSUME Background, DeadlineSoFar, [Next]_vars
  PROVE  DeadlineSoFar'
<1>1. TypeOK
  BY DEF Background
<1>2. CASE \E b \in BuildConfigs : Begin(b)
  <2>1. PICK b \in BuildConfigs : Begin(b)
    BY <1>2
  <2>2. build'.timeout = Nil /\ pc' = "strategy"
    BY <2>1 DEF Begin, Skeleton
  <2> QED
    BY <2>2, NothingPassed DEF DeadlineSoFar
<1>3. CASE Goes /\ Step
  <2>1. UNCHANGED bc /\ \A field \in Fields : ~MaySet(pc, field) => build'[field] = build[field]
    BY <1>3, Untouched
  <2>2. pc' \in PastDeadline <=> pc \in PastDeadline \/ pc = "deadline"
    BY <1>3, Passing DEF Goes
  <2>3. CASE pc # "deadline"
    <3>1. ~MaySet(pc, "timeout") /\ "timeout" \in Fields
      BY <2>3 DEF MaySet, Fields
    <3>2. build'.timeout = build.timeout
      BY <2>1, <3>1
    <3>3. Count(Own', {"DeadlineDropped"}) = Count(Own, {"DeadlineDropped"})
      <4>1. ~MayRaise(pc, "DeadlineDropped")
        BY <2>3 DEF MayRaise, DropWarnings
      <4> QED
        BY <1>1, <1>3, <4>1, Untold
    <3>4. pc # "idle"
      BY <1>3 DEF Goes, Running
    <3> QED
      BY <2>1, <2>2, <2>3, <3>2, <3>3, <3>4 DEF DeadlineSoFar, TimeoutFits
  <2>4. CASE pc = "deadline"
    <3>1. build.timeout = Nil /\ bc \in BuildConfigs /\ DOMAIN build = Fields
      <4>1. pc \notin PastDeadline
        BY <2>4, PassedInOrder
      <4> QED
        BY <2>4, <4>1 DEF DeadlineSoFar, Background, TypeOK, Formed
    <3>2. CASE NoDeadline
      BY <2>1, <3>1, <3>2, <2>2, <2>4 DEF NoDeadline, Settle, DeadlineSoFar, TimeoutFits
    <3>3. CASE MapDeadline
      <4>1. build'.timeout = Int64(bc.deadline * Second) /\ DeadlineFits /\ bc.deadline # Nil
        BY <3>1, <3>3 DEF MapDeadline, Settle, Fields
      <4>2. bc.deadline \in Int
        BY <3>1, <4>1, IntegersAssumption
      <4> DEFINE n == bc.deadline * Second
      <4>3. Int64(n) = n /\ n > 0 /\ n % Second = 0 /\ n \div Second = bc.deadline
        BY <4>1, <4>2, DeadlineKept DEF DeadlineFits
      <4>4. n \in Int
        BY <4>2, ConvertAssumption
      <4>5. build'.timeout = n
        BY <4>1, <4>3
      <4> HIDE DEF n
      <4>6. build'.timeout # Nil
        BY <4>4, <4>5, IntegersAssumption
      <4> QED
        BY <2>1, <2>2, <2>4, <4>3, <4>5, <4>6 DEF DeadlineSoFar, TimeoutFits
    <3>4. CASE DropDeadline
      <4>1. build' = build /\ Warn(W("DeadlineDropped", <<>>)) /\ UNCHANGED start
        BY <3>4 DEF DropDeadline, Settle, Goto, call
      <4>2. Count(Own', {"DeadlineDropped"}) # 0
        BY <1>1, <4>1, Told
      <4> QED
        BY <2>1, <2>2, <2>4, <3>1, <4>1, <4>2 DEF DeadlineSoFar, TimeoutFits
    <3> QED
      BY <1>3, <2>4, <3>2, <3>3, <3>4, StepAt
  <2> QED
    BY <2>3, <2>4
<1>4. CASE pc' = "idle"
  BY <1>4, NothingPassed DEF DeadlineSoFar
<1>5. CASE UNCHANGED vars
  BY <1>5 DEF vars, DeadlineSoFar, Own, OwnWarnings
<1> QED
  BY <1>1, <1>2, <1>3, <1>4, <1>5, NextCases

\* So it holds throughout.
LEMMA DeadlineAlways == Spec => []DeadlineSoFar
<1>1. Init => DeadlineSoFar
  BY NothingPassed DEF Init, DeadlineSoFar
<1>2. Background /\ DeadlineSoFar /\ [Next]_vars => DeadlineSoFar'
  BY StepDeadline
<1> QED
  BY <1>1, <1>2, BackgroundAlways, PTL DEF Spec

-----------------------------------------------------------------------------
(* The node selector.                                                      *)

\* The node selector of a Build is valid, and reported unless it is the one given.
SelectorSoFar ==
  /\ pc # "idle" /\ pc \notin PastNodeSelector => build.nodeSelector = EmptyMap
  /\ pc \in PastNodeSelector =>
       /\ validateNodeSelector(build.nodeSelector)
       /\ bc.nodeSelector # build.nodeSelector => Count(Own, {"NodeSelectorDropped"}) # 0

\* Every step of the system keeps it.
LEMMA StepSelector ==
  ASSUME Background, SelectorSoFar, [Next]_vars
  PROVE  SelectorSoFar'
<1>1. TypeOK
  BY DEF Background
<1>2. CASE \E b \in BuildConfigs : Begin(b)
  <2>1. build'.nodeSelector = EmptyMap /\ pc' = "strategy"
    BY <1>2 DEF Begin, Skeleton
  <2> QED
    BY <2>1, NothingPassed DEF SelectorSoFar
<1>3. CASE Goes /\ Step
  <2>1. UNCHANGED bc /\ \A field \in Fields : ~MaySet(pc, field) => build'[field] = build[field]
    BY <1>3, Untouched
  <2>2. pc' \in PastNodeSelector <=> pc \in PastNodeSelector \/ pc = "nodeSelector"
    BY <1>3, Passing DEF Goes
  <2>3. CASE pc # "nodeSelector"
    <3>1. ~MaySet(pc, "nodeSelector") /\ "nodeSelector" \in Fields
      BY <2>3 DEF MaySet, Fields
    <3>2. build'.nodeSelector = build.nodeSelector
      BY <2>1, <3>1
    <3>3. Count(Own', {"NodeSelectorDropped"}) = Count(Own, {"NodeSelectorDropped"})
      <4>1. ~MayRaise(pc, "NodeSelectorDropped")
        BY <2>3 DEF MayRaise, DropWarnings
      <4> QED
        BY <1>1, <1>3, <4>1, Untold
    <3>4. pc # "idle"
      BY <1>3 DEF Goes, Running
    <3> QED
      BY <2>1, <2>2, <2>3, <3>2, <3>3, <3>4 DEF SelectorSoFar, validateNodeSelector
  <2>4. CASE pc = "nodeSelector"
    <3>1. build.nodeSelector = EmptyMap /\ DOMAIN build = Fields
      BY <2>4, PassedInOrder DEF SelectorSoFar, Background, Formed
    <3>2. CASE MapNodeSelector
      <4>1. build'.nodeSelector = bc.nodeSelector /\ validateNodeSelector(bc.nodeSelector)
        BY <3>1, <3>2 DEF MapNodeSelector, Settle, Fields
      <4> QED
        BY <2>1, <2>2, <2>4, <4>1 DEF SelectorSoFar, validateNodeSelector
    <3>3. CASE DropNodeSelector
      <4>1. build' = build /\ Warn(W("NodeSelectorDropped", <<>>)) /\ UNCHANGED start
        BY <3>3 DEF DropNodeSelector, Settle, Goto, call
      <4>2. Count(Own', {"NodeSelectorDropped"}) # 0
        BY <1>1, <4>1, Told
      <4>3. validateNodeSelector(EmptyMap)
        BY DEF validateNodeSelector, EmptyMap
      <4> QED
        BY <2>1, <2>2, <2>4, <3>1, <4>1, <4>2, <4>3 DEF SelectorSoFar, validateNodeSelector
    <3> QED
      BY <1>3, <2>4, <3>2, <3>3, StepAt
  <2> QED
    BY <2>3, <2>4
<1>4. CASE pc' = "idle"
  BY <1>4, NothingPassed DEF SelectorSoFar
<1>5. CASE UNCHANGED vars
  BY <1>5 DEF vars, SelectorSoFar, Own, OwnWarnings, validateNodeSelector
<1> QED
  BY <1>1, <1>2, <1>3, <1>4, <1>5, NextCases

\* So it holds throughout.
LEMMA SelectorAlways == Spec => []SelectorSoFar
<1>1. Init => SelectorSoFar
  BY NothingPassed DEF Init, SelectorSoFar
<1>2. Background /\ SelectorSoFar /\ [Next]_vars => SelectorSoFar'
  BY StepSelector
<1> QED
  BY <1>1, <1>2, BackgroundAlways, PTL DEF Spec

-----------------------------------------------------------------------------
(* The post-commit hook.                                                   *)

\* A post-commit hook in any of its forms.
HookGiven(hook) == hook.script # Blank \/ hook.command # <<>> \/ hook.args # <<>>

\* A hook is always reported.
HookSoFar ==
  pc \in PastPostCommit => (HookGiven(bc.postCommit) => Count(Own, {"PostCommitDropped"}) # 0)

\* The form of a hook that is named in the report is not the empty string.
LEMMA FormsStated == \A form \in {"script", "command", "args"} : form # Blank
BY Zenon DEF Blank

\* A hook in any form is reported.
LEMMA HookReported ==
  ASSUME NEW hook, HookGiven(hook)
  PROVE  Count(PostCommitWarnings(hook), {"PostCommitDropped"}) # 0
<1> DEFINE form == postCommitFormDescriptor(hook)
           first == When(form # Blank, W("PostCommitDropped", <<form>>))
           second == When(hook.script # Blank /\ hook.command # <<>>,
                          W("PostCommitAmbiguous", <<>>))
<1>1. form # Blank
  BY FormsStated DEF postCommitFormDescriptor, HookGiven
<1> HIDE DEF form
<1>2. Count(W("PostCommitDropped", <<form>>), {"PostCommitDropped"}) = 1
  BY LedgerOne
<1>3. Count(first, {"PostCommitDropped"}) = 1
  BY <1>1, <1>2, LedgerWhen
<1>4. IsList(first) /\ IsList(second)
  BY ListOfMessages
<1>5. PostCommitWarnings(hook) = first \o second
  BY DEF PostCommitWarnings, form
<1> HIDE DEF first, second
<1>6. Count(second, {"PostCommitDropped"}) \in Nat
  BY <1>4, LedgerCounts
<1>7. Count(first \o second, {"PostCommitDropped"})
        = Count(first, {"PostCommitDropped"}) + Count(second, {"PostCommitDropped"})
  BY <1>4, LedgerAdds
<1> QED
  BY <1>3, <1>5, <1>6, <1>7

\* Every step of the system keeps it.
LEMMA StepHook ==
  ASSUME Background, HookSoFar, [Next]_vars
  PROVE  HookSoFar'
<1>1. TypeOK
  BY DEF Background
<1>2. CASE \E b \in BuildConfigs : Begin(b)
  BY <1>2, NothingPassed DEF HookSoFar, Begin
<1>3. CASE Goes /\ Step
  <2>1. UNCHANGED bc
    BY <1>3, Untouched
  <2>2. pc' \in PastPostCommit <=> pc \in PastPostCommit \/ pc = "postCommit"
    BY <1>3, Passing DEF Goes
  <2>3. CASE pc # "postCommit"
    <3>1. ~MayRaise(pc, "PostCommitDropped")
      BY <2>3 DEF MayRaise, DropWarnings
    <3>2. Count(Own', {"PostCommitDropped"}) = Count(Own, {"PostCommitDropped"})
      BY <1>1, <1>3, <3>1, Untold
    <3> QED
      BY <2>1, <2>2, <2>3, <3>2 DEF HookSoFar
  <2>4. CASE pc = "postCommit"
    <3> DEFINE m == PostCommitWarnings(bc.postCommit)
    <3>1. PostCommit
      BY <1>3, <2>4, StepAt
    <3>2. Warn(m) /\ UNCHANGED start
      BY <3>1 DEF PostCommit, Settle, Goto, call
    <3>3. IsList(m)
      BY ListOfMessages, ListConcat DEF PostCommitWarnings
    <3>4. HookGiven(bc.postCommit) => Count(m, {"PostCommitDropped"}) # 0
      BY HookReported
    <3> HIDE DEF m
    <3>5. Count(Own, {"PostCommitDropped"}) \in Nat /\ Count(m, {"PostCommitDropped"}) \in Nat
      BY <1>1, <3>3, Context, LedgerCounts
    <3>6. Count(Own', {"PostCommitDropped"})
            = Count(Own, {"PostCommitDropped"}) + Count(m, {"PostCommitDropped"})
      BY <1>1, <3>2, <3>3, Tell
    <3> QED
      BY <2>1, <3>4, <3>5, <3>6 DEF HookSoFar
  <2> QED
    BY <2>3, <2>4
<1>4. CASE pc' = "idle"
  BY <1>4, NothingPassed DEF HookSoFar
<1>5. CASE UNCHANGED vars
  BY <1>5 DEF vars, HookSoFar, Own, OwnWarnings
<1> QED
  BY <1>1, <1>2, <1>3, <1>4, <1>5, NextCases

\* So it holds throughout.
LEMMA HookAlways == Spec => []HookSoFar
<1>1. Init => HookSoFar
  BY NothingPassed DEF Init, HookSoFar
<1>2. Background /\ HookSoFar /\ [Next]_vars => HookSoFar'
  BY StepHook
<1> QED
  BY <1>1, <1>2, BackgroundAlways, PTL DEF Spec

-----------------------------------------------------------------------------
(* The history limits.                                                     *)

\* What the CRD of a Shipwright Build accepts as a limit.
InRange(limit) == limit = Nil \/ (limit > 0 /\ limit < 10001)

\* Each of the two limits is kept or reported, once.
LimitsSoFar ==
  /\ pc # "idle" /\ pc \notin PastLimits => Count(Own, {"LimitDropped"}) = 0
  /\ pc \in PastLimits =>
       /\ InRange(build.succeededLimit) /\ InRange(build.failedLimit)
       /\ Count(Own, {"LimitDropped"}) = LimitLost(bc.successfulLimit, build.succeededLimit)
                                           + LimitLost(bc.failedLimit, build.failedLimit)

\* A limit is kept and in range, or lost with a warning.
LEMMA LimitResolved ==
  ASSUME NEW limit \in Int \union {Nil}, NEW field
  PROVE  /\ InRange(resolveRetentionLimit(limit))
         /\ IsList(LimitWarning(limit, field))
         /\ Count(LimitWarning(limit, field), {"LimitDropped"})
              = LimitLost(limit, resolveRetentionLimit(limit))
<1>1. InRange(resolveRetentionLimit(limit))
  BY IntegersAssumption
     DEF InRange, resolveRetentionLimit, LimitFits, minRetentionLimit, maxRetentionLimit
<1>2. IsList(LimitWarning(limit, field))
  BY ListOfMessages DEF LimitWarning
<1>3. Count(W("LimitDropped", <<field>>), {"LimitDropped"}) = 1
  BY LedgerOne
<1>4. Count(LimitWarning(limit, field), {"LimitDropped"})
        = IF limit # Nil /\ ~LimitFits(limit) THEN 1 ELSE 0
  <2> DEFINE lost == limit # Nil /\ ~LimitFits(limit)
             m == W("LimitDropped", <<field>>)
  <2>1. LimitWarning(limit, field) = When(lost, m)
    BY DEF LimitWarning
  <2> HIDE DEF m, lost
  <2>2. Count(When(lost, m), {"LimitDropped"}) = IF lost THEN Count(m, {"LimitDropped"}) ELSE 0
    BY LedgerWhen
  <2> QED
    BY <1>3, <2>1, <2>2 DEF lost, m
<1>5. LimitLost(limit, resolveRetentionLimit(limit))
        = IF limit # Nil /\ ~LimitFits(limit) THEN 1 ELSE 0
  BY DEF LimitLost, resolveRetentionLimit, LimitFits
<1> QED
  BY <1>1, <1>2, <1>4, <1>5

\* Every step of the system keeps it.
LEMMA StepLimits ==
  ASSUME Background, LimitsSoFar, [Next]_vars
  PROVE  LimitsSoFar'
<1>1. TypeOK
  BY DEF Background
<1>2. CASE \E b \in BuildConfigs : Begin(b)
  <2>1. PICK b \in BuildConfigs : Begin(b)
    BY <1>2
  <2>2. Count(Own', {"LimitDropped"}) = 0
    BY <1>1, <2>1, BeginsUntold
  <2>3. pc' = "strategy"
    BY <2>1 DEF Begin
  <2> QED
    BY <2>2, <2>3, NothingPassed DEF LimitsSoFar
<1>3. CASE Goes /\ Step
  <2>1. UNCHANGED bc /\ \A field \in Fields : ~MaySet(pc, field) => build'[field] = build[field]
    BY <1>3, Untouched
  <2>2. pc' \in PastLimits <=> pc \in PastLimits \/ pc = "historyLimits"
    BY <1>3, Passing DEF Goes
  <2>3. CASE pc # "historyLimits"
    <3>1. /\ ~MaySet(pc, "succeededLimit") /\ ~MaySet(pc, "failedLimit")
          /\ "succeededLimit" \in Fields /\ "failedLimit" \in Fields
      BY <2>3 DEF MaySet, Fields
    <3>2. build'.succeededLimit = build.succeededLimit /\ build'.failedLimit = build.failedLimit
      BY <2>1, <3>1
    <3>3. Count(Own', {"LimitDropped"}) = Count(Own, {"LimitDropped"})
      <4>1. ~MayRaise(pc, "LimitDropped")
        BY <2>3 DEF MayRaise, DropWarnings
      <4> QED
        BY <1>1, <1>3, <4>1, Untold
    <3>4. pc # "idle"
      BY <1>3 DEF Goes, Running
    <3> QED
      BY <2>1, <2>2, <2>3, <3>2, <3>3, <3>4 DEF LimitsSoFar
  <2>4. CASE pc = "historyLimits"
    <3> DEFINE m == LimitWarning(bc.successfulLimit, "successfulBuildsHistoryLimit")
               n == LimitWarning(bc.failedLimit, "failedBuildsHistoryLimit")
    <3>1. HistoryLimits /\ DOMAIN build = Fields /\ bc \in BuildConfigs
      BY <1>3, <2>4, StepAt DEF Background, Formed, TypeOK
    <3>2. bc.successfulLimit \in Int \union {Nil} /\ bc.failedLimit \in Int \union {Nil}
      BY <3>1, IntegersAssumption
    <3>3. /\ build'.succeededLimit = resolveRetentionLimit(bc.successfulLimit)
          /\ build'.failedLimit = resolveRetentionLimit(bc.failedLimit)
      BY <3>1 DEF HistoryLimits, Settle, Fields
    <3>4. Warn(m \o n) /\ UNCHANGED start
      BY <3>1 DEF HistoryLimits, Settle, Goto, call
    <3>5. /\ IsList(m) /\ Count(m, {"LimitDropped"})
                             = LimitLost(bc.successfulLimit, build'.succeededLimit)
          /\ IsList(n) /\ Count(n, {"LimitDropped"}) = LimitLost(bc.failedLimit, build'.failedLimit)
          /\ InRange(build'.succeededLimit) /\ InRange(build'.failedLimit)
      BY <3>2, <3>3, LimitResolved
    <3> HIDE DEF m, n
    <3>6. IsList(m \o n)
      BY <3>5, ListConcat
    <3>7. Count(m \o n, {"LimitDropped"}) = Count(m, {"LimitDropped"}) + Count(n, {"LimitDropped"})
      BY <3>5, LedgerAdds
    <3>8. Count(Own', {"LimitDropped"})
            = Count(Own, {"LimitDropped"}) + Count(m \o n, {"LimitDropped"})
      BY <1>1, <3>4, <3>6, Tell
    <3>9. Count(Own, {"LimitDropped"}) = 0
      BY <2>4, PassedInOrder DEF LimitsSoFar
    <3>10. Count(m \o n, {"LimitDropped"}) \in Nat
      BY <3>6, LedgerCounts
    <3> QED
      BY <2>1, <2>2, <2>4, <3>5, <3>7, <3>8, <3>9, <3>10 DEF LimitsSoFar
  <2> QED
    BY <2>3, <2>4
<1>4. CASE pc' = "idle"
  BY <1>4, NothingPassed DEF LimitsSoFar
<1>5. CASE UNCHANGED vars
  BY <1>5 DEF vars, LimitsSoFar, Own, OwnWarnings
<1> QED
  BY <1>1, <1>2, <1>3, <1>4, <1>5, NextCases

\* So it holds throughout.
LEMMA LimitsAlways == Spec => []LimitsSoFar
<1>1. Init => LimitsSoFar
  BY NothingPassed DEF Init, LimitsSoFar
<1>2. Background /\ LimitsSoFar /\ [Next]_vars => LimitsSoFar'
  BY StepLimits
<1> QED
  BY <1>1, <1>2, BackgroundAlways, PTL DEF Spec

-----------------------------------------------------------------------------
(* The image labels, a loop.                                               *)

\* What the first n of the given labels leave: the labels carried, and the names told to have
\* been overridden.
Labelled(given, n, carried, told) ==
  /\ DOMAIN carried = {given[k].name : k \in 1..n} \ {Blank}
  /\ \A k \in 1..n : given[k].name # Blank =>
       \/ carried[given[k].name] = given[k].value
       \/ /\ <<given[k].name>> \in told
          /\ \E j \in 1..n : k < j /\ given[j].name = given[k].name

\* The loop over the labels has dealt with those before index i.
LabelsSoFar ==
  LET given == bc.output.imageLabels
      told == Abouts(Own, "LabelOverridden")
  IN  /\ pc # "idle" /\ pc \notin PastOutput => build.imageLabels = EmptyMap
      /\ pc = "imageLabels" =>
           i \in 1..(Len(given) + 1) /\ Labelled(given, i - 1, build.imageLabels, told)
      /\ pc \in PastLabels => Labelled(given, Len(given), build.imageLabels, told)

\* One label more, with a name,
LEMMA LabelPut ==
  ASSUME NEW given, NEW n \in Nat, NEW carried, NEW told, Labelled(given, n, carried, told),
         given[n + 1].name # Blank, NEW also,
         also = IF /\ given[n + 1].name \in DOMAIN carried
                   /\ carried[given[n + 1].name] # given[n + 1].value
                THEN told \union {<<given[n + 1].name>>} ELSE told
  PROVE  Labelled(given, n + 1, Put(carried, given[n + 1].name, given[n + 1].value), also)
<1> DEFINE name == given[n + 1].name
           value == given[n + 1].value
           next == Put(carried, name, value)
<1>1. /\ DOMAIN next = DOMAIN carried \union {name}
      /\ next[name] = value
      /\ \A key \in DOMAIN carried : key # name => next[key] = carried[key]
  BY DEF Put
<1>2. 1..(n + 1) = 1..n \union {n + 1}
  OBVIOUS
<1> HIDE DEF next
<1>3. DOMAIN next = {given[k].name : k \in 1..(n + 1)} \ {Blank}
  <2>1. DOMAIN carried = {given[k].name : k \in 1..n} \ {Blank}
    BY DEF Labelled
  <2>2. {given[k].name : k \in 1..(n + 1)} = {given[k].name : k \in 1..n} \union {name}
    BY <1>2
  <2> QED
    BY <1>1, <2>1, <2>2
<1>4. ASSUME NEW k \in 1..(n + 1), given[k].name # Blank
      PROVE  \/ next[given[k].name] = given[k].value
             \/ /\ <<given[k].name>> \in also
                /\ \E j \in 1..(n + 1) : k < j /\ given[j].name = given[k].name
  <2>1. CASE k = n + 1
    BY <1>1, <2>1
  <2>2. CASE k # n + 1
    <3>1. k \in 1..n /\ k < n + 1 /\ n + 1 \in 1..(n + 1)
      BY <2>2
    <3>2. given[k].name \in DOMAIN carried
      BY <1>4, <3>1 DEF Labelled
    <3>3. \/ carried[given[k].name] = given[k].value
          \/ /\ <<given[k].name>> \in told
             /\ \E j \in 1..n : k < j /\ given[j].name = given[k].name
      BY <1>4, <3>1 DEF Labelled
    <3>4. told \subseteq also
      OBVIOUS
    <3>5. CASE carried[given[k].name] = given[k].value
      <4>1. CASE given[k].name = name
        <5>1. CASE value = given[k].value
          BY <1>1, <4>1, <5>1
        <5>2. CASE value # given[k].value
          <6>1. <<name>> \in also
            BY <3>2, <3>5, <4>1, <5>2
          <6> QED
            BY <3>1, <4>1, <6>1
        <5> QED
          BY <5>1, <5>2
      <4>2. CASE given[k].name # name
        BY <1>1, <3>2, <3>5, <4>2
      <4> QED
        BY <4>1, <4>2
    <3>6. CASE /\ <<given[k].name>> \in told
               /\ \E j \in 1..n : k < j /\ given[j].name = given[k].name
      BY <1>2, <3>4, <3>6
    <3> QED
      BY <3>3, <3>5, <3>6
  <2> QED
    BY <2>1, <2>2
<1> HIDE DEF name, value
<1>5. Labelled(given, n + 1, next, also)
  BY <1>3, <1>4 DEF Labelled
<1> QED
  BY <1>5 DEF next, name, value

\* and without one.
LEMMA LabelSkipped ==
  ASSUME NEW given, NEW n \in Nat, NEW carried, NEW told, Labelled(given, n, carried, told),
         given[n + 1].name = Blank
  PROVE  Labelled(given, n + 1, carried, told)
<1>1. 1..(n + 1) = 1..n \union {n + 1}
  OBVIOUS
<1>2. {given[k].name : k \in 1..(n + 1)} = {given[k].name : k \in 1..n} \union {Blank}
  BY <1>1
<1>3. DOMAIN carried = {given[k].name : k \in 1..(n + 1)} \ {Blank}
  BY <1>2 DEF Labelled
<1> QED
  BY <1>1, <1>3 DEF Labelled

\* Every step of the system keeps it.
LEMMA StepLabels ==
  ASSUME Background, LabelsSoFar, [Next]_vars
  PROVE  LabelsSoFar'
<1> DEFINE given == bc.output.imageLabels
           told == Abouts(Own, "LabelOverridden")
<1>1. TypeOK /\ (DOMAIN build = Fields \/ pc = "idle")
  BY DEF Background, Formed
<1>2. CASE \E b \in BuildConfigs : Begin(b)
  <2>1. build'.imageLabels = EmptyMap /\ pc' = "strategy"
    BY <1>2 DEF Begin, Skeleton
  <2> QED
    BY <2>1, NothingPassed DEF LabelsSoFar
<1>3. CASE Goes /\ Step
  <2>1. UNCHANGED bc /\ \A field \in Fields : ~MaySet(pc, field) => build'[field] = build[field]
    BY <1>3, Untouched
  <2>2. /\ pc' \in PastLabels <=> pc \in PastLabels \/ (pc = "imageLabels" /\ pc' # "imageLabels")
        /\ pc' \in PastOutput <=> pc \in PastOutput \/ pc = "output"
    BY <1>3, Passing DEF Goes
  <2>3. /\ pc \in Running /\ TypeOK /\ DOMAIN build = Fields
        /\ bc \in BuildConfigs /\ IsList(given) /\ Len(given) \in Nat
    <3>1. pc \in Running /\ bc \in BuildConfigs
      BY <1>3 DEF Background, TypeOK, Goes, Running
    <3> QED
      BY <3>1, <1>3, Untouched, ListsAssumption, ListFacts DEF Background
  <2>4. CASE pc # "imageLabels"
    <3>1. build'.imageLabels = build.imageLabels
      <4>1. ~MaySet(pc, "imageLabels") /\ "imageLabels" \in Fields
        BY <2>4 DEF MaySet, Fields
      <4> QED
        BY <2>1, <4>1
    <3>2. told' = told
      <4>1. ~MayRaise(pc, "LabelOverridden")
        BY <2>4 DEF MayRaise, DropWarnings
      <4> QED
        BY <1>3, <2>3, <4>1, Untold
    <3>3. pc' = "imageLabels" => pc = "output" /\ i' = 1
      <4>1. pc' = "imageLabels" => pc = "output"
        BY <1>3, <2>4 DEF Goes, Follows
      <4>2. pc = "output" => i = 1 /\ i' = i
        BY <1>3 DEF Goes, Follows, Counts, Background, Formed, Loops
      <4> QED
        BY <4>1, <4>2
    <3>4. pc' = "imageLabels" => Labelled(given, 0, build.imageLabels, told)
      <4>1. pc' = "imageLabels" => build.imageLabels = EmptyMap
        BY <3>3, PassedInOrder DEF LabelsSoFar
      <4>2. DOMAIN EmptyMap = {} /\ 1..0 = {}
        BY DEF EmptyMap
      <4> QED
        BY <4>1, <4>2 DEF Labelled
    <3>5. pc # "idle"
      BY <2>3 DEF Running
    <3> QED
      BY <2>1, <2>2, <2>3, <2>4, <3>1, <3>2, <3>3, <3>4, <3>5 DEF LabelsSoFar
  <2>5. CASE pc = "imageLabels"
    <3>1. /\ i \in 1..(Len(given) + 1) /\ i - 1 \in Nat
          /\ Labelled(given, i - 1, build.imageLabels, told)
      BY <2>3, <2>5 DEF LabelsSoFar
    <3>2. pc' \in PastOutput /\ "imageLabels" \notin PastLabels
      BY <2>2, <2>5, PassedInOrder DEF PastOutput
    <3>3. CASE ImageLabel
      <4> DEFINE n == i - 1
                 condition == /\ given[i].name \in DOMAIN build.imageLabels
                              /\ build.imageLabels[given[i].name] # given[i].value
      <4>1. /\ i <= Len(given) /\ given[i].name # Blank /\ i' = i + 1 /\ pc' = pc
            /\ UNCHANGED start
        BY <3>3 DEF ImageLabel, Label, call
      <4>2. build'.imageLabels = Put(build.imageLabels, given[i].name, given[i].value)
        BY <2>3, <3>3 DEF ImageLabel, Label, Fields
      <4>3. Warn(When(condition, W("LabelOverridden", <<given[i].name>>)))
        BY <3>3 DEF ImageLabel, Label
      <4> HIDE DEF condition
      <4>4. told' = told \union (IF condition THEN {<<given[i].name>>} ELSE {})
        <5> DEFINE about == <<given[i].name>>
        <5>1. TypeOK /\ UNCHANGED start /\ Warn(When(condition, W("LabelOverridden", about)))
          BY <2>3, <4>1, <4>3
        <5> HIDE DEF about
        <5>2. told' = told \union (IF condition /\ "LabelOverridden" = "LabelOverridden"
                                   THEN {about} ELSE {})
          BY <5>1, ToldWhen
        <5> QED
          BY <5>2 DEF about
      <4>5. n \in Nat /\ n + 1 = i
        BY <3>1
      <4> HIDE DEF n
      <4>6. told' = IF condition THEN told \union {<<given[n + 1].name>>} ELSE told
        BY <4>4, <4>5
      <4>7. Labelled(given, n, build.imageLabels, told) /\ given[n + 1].name # Blank
        BY <3>1, <4>1, <4>5 DEF n
      <4>8. Labelled(given, n + 1, build'.imageLabels, told')
        BY <4>2, <4>5, <4>6, <4>7, LabelPut DEF condition
      <4>9. i' \in 1..(Len(given) + 1) /\ i' - 1 = n + 1
        BY <2>3, <3>1, <4>1, <4>5
      <4> QED
        BY <2>1, <2>2, <2>5, <3>2, <4>1, <4>8, <4>9 DEF LabelsSoFar
    <3>4. CASE SkipUnnamedLabel
      <4> DEFINE n == i - 1
      <4>1. /\ i <= Len(given) /\ given[i].name = Blank /\ i' = i + 1 /\ pc' = pc
            /\ UNCHANGED start /\ build' = build /\ Warn(W("LabelSkipped", <<>>))
        BY <3>4 DEF SkipUnnamedLabel, Label, call
      <4>2. told' = told
        <5>1. /\ IsList(W("LabelSkipped", <<>>))
              /\ Abouts(W("LabelSkipped", <<>>), "LabelOverridden") = {}
          BY ListOfMessages, LedgerOne
        <5> QED
          BY <2>3, <4>1, <5>1, Tell
      <4>3. n \in Nat /\ n + 1 = i
        BY <3>1
      <4>4. Labelled(given, n, build.imageLabels, told)
        BY <3>1
      <4> HIDE DEF n
      <4>5. Labelled(given, n + 1, build'.imageLabels, told')
        BY <4>1, <4>2, <4>3, <4>4, LabelSkipped
      <4>6. i' \in 1..(Len(given) + 1) /\ i' - 1 = n + 1
        BY <2>3, <3>1, <4>1, <4>3
      <4> QED
        BY <2>1, <2>2, <2>5, <3>2, <4>1, <4>5, <4>6 DEF LabelsSoFar
    <3>5. CASE ImageLabelsDone
      <4>1. i > Len(given) /\ UNCHANGED <<warnings, build, start>> /\ pc' = "deadline"
        BY <3>5 DEF ImageLabelsDone, Goto, call
      <4>2. told' = told /\ i - 1 = Len(given)
        BY <2>3, <3>1, <4>1 DEF Own, OwnWarnings
      <4> QED
        BY <2>1, <2>2, <3>1, <3>2, <4>1, <4>2 DEF LabelsSoFar
    <3> QED
      BY <1>3, <2>5, <3>3, <3>4, <3>5, StepAt
  <2> QED
    BY <2>4, <2>5
<1>4. CASE pc' = "idle"
  BY <1>4, NothingPassed DEF LabelsSoFar
<1>5. CASE UNCHANGED vars
  BY <1>5 DEF vars, LabelsSoFar, Own, OwnWarnings
<1>6. TypeOK
  BY DEF Background
<1> QED
  BY <1>2, <1>3, <1>4, <1>5, <1>6, NextCases

\* So it holds throughout.
LEMMA LabelsAlways == Spec => []LabelsSoFar
<1>1. Init => LabelsSoFar
  BY NothingPassed DEF Init, LabelsSoFar
<1>2. Background /\ LabelsSoFar /\ [Next]_vars => LabelsSoFar'
  BY StepLabels
<1> QED
  BY <1>1, <1>2, BackgroundAlways, PTL DEF Spec

-----------------------------------------------------------------------------
(* The BuildRun template.                                                  *)

\* The Build has a BuildRun template from its step on when the BuildConfig sets resources, and
\* before only as an annotation the BuildConfig came with; its missing steps are reported once.
TemplateSoFar ==
  LET key == BuildRunTemplateAnnotation IN
  /\ pc # "idle" =>
       (key \in DOMAIN build.annotations =>
          key \in DOMAIN bc.annotations \/ (pc \in PastResources /\ bc.resources))
  /\ pc # "idle" /\ pc \notin PastResources => Count(Own, {"StepResourcesOmitted"}) = 0
  /\ pc \in PastResources /\ bc.resources =>
       /\ key \in DOMAIN build.annotations /\ build.annotations[key] = Template
       /\ Count(Own, {"StepResourcesOmitted"}) = IF StepNames = <<>> THEN 1 ELSE 0

\* Every step of the system keeps it.
LEMMA StepTemplate ==
  ASSUME Background, TemplateSoFar, [Next]_vars
  PROVE  TemplateSoFar'
<1> DEFINE key == BuildRunTemplateAnnotation
           count == Count(Own, {"StepResourcesOmitted"})
<1>1. TypeOK
  BY DEF Background
<1>2. CASE \E b \in BuildConfigs : Begin(b)
  <2>1. PICK b \in BuildConfigs : Begin(b)
    BY <1>2
  <2>2. bc' = b /\ build' = Skeleton(b) /\ pc' = "strategy"
    BY <2>1 DEF Begin
  <2>3. count' = 0
    BY <1>1, <2>1, BeginsUntold
  <2>4. key # ConvertedFromAnnotation
    BY DistinctAnnotations
  <2> HIDE DEF key
  <2>5. key \in DOMAIN build'.annotations => key \in DOMAIN bc'.annotations
    BY <2>2, <2>4, Inherited
  <2> QED
    BY <2>2, <2>3, <2>5, NothingPassed DEF TemplateSoFar, key
<1>3. CASE Goes /\ Step
  <2>1. UNCHANGED bc /\ DOMAIN build = Fields
        /\ \A field \in Fields : ~MaySet(pc, field) => build'[field] = build[field]
    BY <1>3, Untouched
  <2>2. pc' \in PastResources <=> pc \in PastResources \/ pc = "resources"
    BY <1>3, Passing DEF Goes
  <2>3. pc # "idle" /\ pc \notin PastResources
    BY <1>3 DEF Goes, Running, PastResources, Follows
  <2>4. CASE pc # "resources"
    <3>1. count' = count
      <4>1. ~MayRaise(pc, "StepResourcesOmitted")
        BY <2>4 DEF MayRaise, DropWarnings
      <4> QED
        BY <1>1, <1>3, <4>1, Untold
    <3>2. key \in DOMAIN build'.annotations <=> key \in DOMAIN build.annotations
      BY <1>3, <2>4, Annotates, DistinctAnnotations
    <3> HIDE DEF key
    <3> QED
      BY <2>1, <2>2, <2>3, <2>4, <3>1, <3>2 DEF TemplateSoFar, key
  <2>5. CASE pc = "resources"
    <3>1. CASE NoResources
      <4>1. build' = build /\ ~bc.resources
        BY <3>1 DEF NoResources, Settle
      <4> HIDE DEF key
      <4> QED
        BY <2>1, <2>2, <2>3, <2>5, <4>1 DEF TemplateSoFar, key
    <3>2. CASE Resources
      <4> DEFINE id == IF StepNames = <<>> THEN "StepResourcesOmitted" ELSE "ApplyTemplate"
                 about == <<build.strategy>>
      <4>1. /\ build' = Annotate(build, key, Template) /\ bc.resources
            /\ Warn(W(id, about)) /\ UNCHANGED <<start, generatedSA>>
        BY <3>2 DEF Resources, Settle, Goto, call
      <4>2. key \in DOMAIN build'.annotations /\ build'.annotations[key] = Template
        BY <2>1, <4>1, AnnotationSet
      <4>3. Template' = Template /\ StepNames' = StepNames
        <5>1. build'.name = build.name /\ build'.ns = build.ns /\ build'.strategy = build.strategy
          BY <2>1, <2>5 DEF MaySet, Fields
        <5>2. StepNames' = StepNames
          BY <2>1, <5>1 DEF StepNames
        <5>3. TemplateAccount' = TemplateAccount
          BY <2>1, <4>1 DEF TemplateAccount
        <5> QED
          BY <5>1, <5>2, <5>3 DEF Template
      <4> HIDE DEF id, about
      <4>4. count' = count + (IF id \in {"StepResourcesOmitted"} THEN 1 ELSE 0)
        BY <1>1, <4>1, Told
      <4>5. count = 0
        BY <2>3 DEF TemplateSoFar
      <4>6. count' = IF StepNames = <<>> THEN 1 ELSE 0
        BY <4>4, <4>5 DEF id
      <4> HIDE DEF key, count
      <4> QED
        BY <2>1, <2>2, <2>5, <4>1, <4>2, <4>3, <4>6 DEF TemplateSoFar, key, count
    <3> QED
      BY <1>3, <2>5, <3>1, <3>2, StepAt
  <2> QED
    BY <2>4, <2>5
<1>4. CASE pc' = "idle"
  BY <1>4, NothingPassed DEF TemplateSoFar
<1>5. CASE UNCHANGED vars
  BY <1>5 DEF vars, TemplateSoFar, Own, OwnWarnings, Template, StepNames, TemplateAccount
<1> QED
  BY <1>1, <1>2, <1>3, <1>4, <1>5, NextCases

\* So it holds throughout.
LEMMA TemplateAlways == Spec => []TemplateSoFar
<1>1. Init => TemplateSoFar
  BY NothingPassed DEF Init, TemplateSoFar
<1>2. Background /\ TemplateSoFar /\ [Next]_vars => TemplateSoFar'
  BY StepTemplate
<1> QED
  BY <1>1, <1>2, BackgroundAlways, PTL DEF Spec

-----------------------------------------------------------------------------
(* The settings of a Build, and their losses.                              *)

\* What Finish returns carries each setting or reports its loss,
LEMMA FinalSettings ==
  ASSUME Background, DeadlineSoFar, SelectorSoFar, LimitsSoFar, HookSoFar, TemplateSoFar,
         pc = "classify"
  PROVE  SettingsKept(Final)
<1> DEFINE ids == {"DeadlineDropped", "NodeSelectorDropped", "LimitDropped", "PostCommitDropped"}
<1>1. Final.bc = bc /\ BuildOf(Final).timeout = build.timeout
      /\ BuildOf(Final).nodeSelector = build.nodeSelector
      /\ BuildOf(Final).succeededLimit = build.succeededLimit
      /\ BuildOf(Final).failedLimit = build.failedLimit
  BY FinalFields
<1>2. "WarningsOmitted" \notin ids /\ TypeOK
  BY DEF Background
<1> HIDE DEF ids
<1>3. \A id \in ids : /\ Cardinality(Raised(Final, id)) = Count(Own, {id})
                      /\ Raised(Final, id) # {} <=> Count(Own, {id}) # 0
  BY <1>2, FinalSays
<1>4. /\ "DeadlineDropped" \in ids /\ "NodeSelectorDropped" \in ids
      /\ "LimitDropped" \in ids /\ "PostCommitDropped" \in ids
  BY DEF ids
<1>5. /\ Raised(Final, "DeadlineDropped") # {} <=> Count(Own, {"DeadlineDropped"}) # 0
      /\ Raised(Final, "NodeSelectorDropped") # {} <=> Count(Own, {"NodeSelectorDropped"}) # 0
      /\ Raised(Final, "PostCommitDropped") # {} <=> Count(Own, {"PostCommitDropped"}) # 0
      /\ Cardinality(Raised(Final, "LimitDropped")) = Count(Own, {"LimitDropped"})
  BY <1>3, <1>4
<1>6. bc.deadline # Nil /\ build.timeout = Nil => Count(Own, {"DeadlineDropped"}) # 0
  BY PassedInOrder DEF DeadlineSoFar
<1>7. bc.nodeSelector # build.nodeSelector => Count(Own, {"NodeSelectorDropped"}) # 0
  BY PassedInOrder DEF SelectorSoFar
<1>8. Count(Own, {"LimitDropped"}) = LimitLost(bc.successfulLimit, build.succeededLimit)
                                       + LimitLost(bc.failedLimit, build.failedLimit)
  BY PassedInOrder DEF LimitsSoFar
<1>9. HookGiven(bc.postCommit) => Count(Own, {"PostCommitDropped"}) # 0
  BY PassedInOrder DEF HookSoFar
<1>10. bc.resources => Has(Final, BuildRunTemplateAnnotation)
  <2>1. bc.resources => BuildRunTemplateAnnotation \in DOMAIN build.annotations
    BY PassedInOrder DEF TemplateSoFar
  <2> QED
    BY <2>1, FinalAnnotations, DistinctAnnotations
<1> QED
  BY <1>1, <1>5, <1>6, <1>7, <1>8, <1>9, <1>10 DEF SettingsKept, HookGiven

\* and each label.
LEMMA FinalLabels ==
  ASSUME Background, LabelsSoFar, pc = "classify"
  PROVE  LabelsKept(Final)
<1> DEFINE given == bc.output.imageLabels
           carried == build.imageLabels
           told == Abouts(Own, "LabelOverridden")
           n == Len(given)
<1>1. Labelled(given, n, carried, told)
  BY PassedInOrder DEF LabelsSoFar
<1>2. IsList(given) /\ DOMAIN given = 1..n
  BY ListsAssumption, ListFacts DEF Background, TypeOK
<1>3. Final.bc = bc /\ BuildOf(Final).imageLabels = carried
  BY FinalFields
<1>4. Names(Final, "LabelOverridden") = told
  <2> DEFINE ids == {"LabelOverridden"}
  <2>1. "WarningsOmitted" \notin ids /\ "LabelOverridden" \in ids /\ TypeOK
    BY DEF Background
  <2> HIDE DEF ids
  <2> QED
    BY <2>1, FinalSays
<1>5. ToSet(given) = {given[k] : k \in 1..n}
  BY <1>2 DEF ToSet
<1>6. {l.name : l \in ToSet(given)} = {given[k].name : k \in 1..n}
  BY <1>5
<1> HIDE DEF given, carried, told, n
<1> QED
  BY <1>1, <1>2, <1>3, <1>4, <1>6 DEF LabelsKept, Labelled, given

\* A deadline, node selector, history limit, post-commit hook or image label that the Build does
\* not carry as the BuildConfig had it is reported, and resources always reach a BuildRun template:
\* the steps of Convert that drop a setting all call warn.
THEOREM LossesReported == Spec => []SettingLossesReported
<1>1. Init => SettingLossesReported
  BY NoneReplaced DEF SettingLossesReported
<1> DEFINE Known == /\ DeadlineSoFar /\ SelectorSoFar /\ LimitsSoFar /\ HookSoFar
                    /\ TemplateSoFar /\ LabelsSoFar
<1>2. Background /\ Known /\ SettingLossesReported /\ [Next]_vars => SettingLossesReported'
  <2>1. Background /\ Known /\ pc = "classify" => SettingsKept(Final) /\ LabelsKept(Final)
    BY FinalSettings, FinalLabels
  <2> QED
    BY <2>1, OneMore DEF SettingLossesReported
<1>3. Spec => []Known
  BY DeadlineAlways, SelectorAlways, LimitsAlways, HookAlways, TemplateAlways, LabelsAlways, PTL
<1> QED
  <2> HIDE DEF Known
  <2> QED
    BY <1>1, <1>2, <1>3, BackgroundAlways, PTL DEF Spec

-----------------------------------------------------------------------------
(* What is generated.                                                      *)

\* The account to generate, if one is needed.
Accounts == When(getPullSecret(bc) # Nil /\ bc.serviceAccount = Blank, <<GeneratedAccount>>)

\* The ConfigMap to generate, if there is an inline Dockerfile to keep.
Maps == When(Source.dockerfile # Blank /\ bc.strategy.type = "Docker", <<InlineConfigMap>>)

\* What was generated is what the BuildConfig needs: an account for a pull secret when it names
\* none, a ConfigMap for an inline Dockerfile, in this order, and a named account is reported.
AccountSoFar ==
  /\ pc \notin PastAccount => extra = <<>> /\ generatedSA = <<>>
  /\ pc \in PastAccount =>
       /\ generatedSA = IF Accounts = <<>> THEN <<>> ELSE GeneratedAccount.name
       /\ extra = IF pc \in PastDockerfile THEN Accounts \o Maps ELSE Accounts
       /\ getPullSecret(bc) # Nil /\ bc.serviceAccount # Blank =>
            <<bc.serviceAccount>> \in Abouts(Own, "LinkPullSecret")

\* An inline Dockerfile is in the ConfigMap the Build is annotated with, or was reported.
DockerfileSoFar ==
  LET key == InlineDockerfileConfigMapAnnotation IN
  pc \in PastDockerfile /\ Source.dockerfile # Blank =>
    \/ bc.strategy.type # "Docker" /\ Count(Own, {"InlineDockerfileDropped"}) # 0
    \/ /\ bc.strategy.type = "Docker"
       /\ key \in DOMAIN build.annotations /\ build.annotations[key] = InlineConfigMap.name

\* Appending, and appending nothing, to at most one resource.
LEMMA ResourcesPut ==
  ASSUME NEW a, NEW m
  PROVE  /\ Append(<<>>, a) = <<a>> /\ <<>> \o <<a>> = <<a>>
         /\ Append(<<a>>, m) = <<a>> \o <<m>>
         /\ <<>> \o <<>> = <<>> /\ <<a>> \o <<>> = <<a>>
<1>1. Append(<<a>>, m) = <<a>> \o <<m>>
  BY AppendResource, BuildThenOne
<1>2. <<a>> \o <<>> = <<a>> /\ <<>> \o <<a>> = <<a>> /\ <<>> \o <<>> = <<>>
  <2>1. /\ IsList(<<>>) /\ Len(<<>>) = 0
        /\ IsList(<<a>>) /\ Len(<<a>>) = 1 /\ <<a>>[1] = a
    BY ListOfMessages DEF IsList, ToSet
  <2>2. /\ IsList(<<a>> \o <<>>) /\ Len(<<a>> \o <<>>) = 1 /\ (<<a>> \o <<>>)[1] = a
        /\ IsList(<<>> \o <<a>>) /\ Len(<<>> \o <<a>>) = 1 /\ (<<>> \o <<a>>)[1] = a
        /\ IsList(<<>> \o <<>>) /\ Len(<<>> \o <<>>) = 0
    BY <2>1, ListConcat
  <2>3. \A s : IsList(s) /\ Len(s) = 1 /\ s[1] = a => s = <<a>>
    BY DEF IsList, ToSet
  <2>4. \A s : IsList(s) /\ Len(s) = 0 => s = <<>>
    BY DEF IsList, ToSet
  <2> QED
    BY <2>2, <2>3, <2>4
<1>3. Append(<<>>, a) = <<a>>
  OBVIOUS
<1> QED
  BY <1>1, <1>2, <1>3

\* Every step of the system keeps it.
LEMMA StepAccount ==
  ASSUME Background, AccountSoFar, [Next]_vars
  PROVE  AccountSoFar'
<1> DEFINE told == Abouts(Own, "LinkPullSecret")
           needed == getPullSecret(bc) # Nil /\ bc.serviceAccount = Blank
           inline == Source.dockerfile # Blank /\ bc.strategy.type = "Docker"
<1>1. TypeOK
  BY DEF Background
<1>2. CASE \E b \in BuildConfigs : Begin(b)
  <2>1. pc = "idle" /\ pc' = "strategy" /\ UNCHANGED <<extra, generatedSA>>
    BY <1>2 DEF Begin
  <2> QED
    BY <2>1, NothingPassed DEF AccountSoFar
<1>3. CASE Goes /\ Step
  <2>1. UNCHANGED bc /\ Accounts' = Accounts /\ Maps' = Maps
        /\ GeneratedAccount' = GeneratedAccount /\ InlineConfigMap' = InlineConfigMap
    BY <1>3, Untouched DEF Accounts, Maps, GeneratedAccount, InlineConfigMap, Source
  <2>2. /\ pc' \in PastAccount <=> pc \in PastAccount \/ pc = "serviceAccount"
        /\ pc' \in PastDockerfile <=> pc \in PastDockerfile \/ pc = "inlineDockerfile"
    BY <1>3, Passing DEF Goes
  <2>3. Accounts = (IF needed THEN <<GeneratedAccount>> ELSE <<>>)
        /\ Maps = (IF inline THEN <<InlineConfigMap>> ELSE <<>>)
    BY DEF Accounts, Maps, When
  <2>4. CASE pc # "serviceAccount"
    <3>1. told' = told
      <4>1. ~MayRaise(pc, "LinkPullSecret")
        BY <2>4 DEF MayRaise, DropWarnings
      <4> QED
        BY <1>1, <1>3, <4>1, Untold
    <3>2. CASE pc # "inlineDockerfile"
      <4>1. UNCHANGED <<extra, generatedSA>>
        BY <1>3, <2>4, <3>2 DEF Goes, MayGenerate
      <4> HIDE DEF told
      <4> QED
        BY <2>1, <2>2, <2>4, <3>1, <3>2, <4>1 DEF AccountSoFar, told
    <3>3. CASE pc = "inlineDockerfile"
      <4>1. pc \in PastAccount /\ pc \notin PastDockerfile
        BY <3>3, PassedInOrder DEF PastAccount
      <4>2. extra = Accounts
        BY <4>1 DEF AccountSoFar
      <4>3. /\ UNCHANGED generatedSA
            /\ extra' = IF inline THEN Append(extra, InlineConfigMap) ELSE extra
        BY <1>3, <3>3, StepAt
           DEF NoInlineDockerfile, PreserveInlineDockerfile, DropInlineDockerfile
      <4> HIDE DEF needed, inline
      <4>4. extra' = Accounts \o Maps
        BY <2>3, <4>2, <4>3, ResourcesPut
      <4> HIDE DEF told
      <4> QED
        BY <2>1, <2>2, <3>1, <3>3, <4>1, <4>3, <4>4 DEF AccountSoFar, told
    <3> QED
      BY <3>2, <3>3
  <2>5. CASE pc = "serviceAccount"
    <3>1. pc \notin PastAccount /\ pc \notin PastDockerfile
      BY <2>5, PassedInOrder DEF PastDockerfile, PastSource, PastOutput, PastLabels, PastDeadline,
         PastNodeSelector, PastRunPolicy, PastPostCommit, PastLimits, PastRegistries,
         PastTriggers, PastChain, PastResources
    <3>2. extra = <<>> /\ generatedSA = <<>>
      BY <3>1 DEF AccountSoFar
    <3>3. CASE NoAccountNeeded
      <4>1. getPullSecret(bc) = Nil /\ UNCHANGED <<extra, generatedSA>>
        BY <3>3 DEF NoAccountNeeded
      <4>2. Accounts = <<>>
        BY <2>3, <4>1
      <4> QED
        BY <2>1, <2>2, <2>5, <3>1, <3>2, <4>1, <4>2 DEF AccountSoFar
    <3>4. CASE AccountNamed
      <4> DEFINE about == <<bc.serviceAccount>>
                 m == W("LinkPullSecret", about)
                 n == AssociationsWarning
      <4>1. bc.serviceAccount # Blank /\ UNCHANGED <<extra, generatedSA, start>> /\ Warn(m \o n)
        BY <3>4 DEF AccountNamed, Goto, call
      <4>2. Accounts = <<>>
        BY <2>3, <4>1
      <4>3. IsList(m) /\ IsList(n) /\ Abouts(m, "LinkPullSecret") = {about}
        BY ListOfMessages, LedgerOne DEF AssociationsWarning
      <4> HIDE DEF m, n, about
      <4>4. IsList(m \o n) /\ Abouts(m \o n, "LinkPullSecret")
                                = Abouts(m, "LinkPullSecret") \union Abouts(n, "LinkPullSecret")
        BY <4>3, ListConcat, LedgerAdds
      <4>5. told' = told \union Abouts(m \o n, "LinkPullSecret")
        BY <1>1, <4>1, <4>4, Tell
      <4>6. about \in told'
        BY <4>3, <4>4, <4>5
      <4>7. about = <<bc.serviceAccount>>
        BY DEF about
      <4> HIDE DEF told
      <4> QED
        BY <2>1, <2>2, <2>5, <3>1, <3>2, <4>1, <4>2, <4>6, <4>7 DEF AccountSoFar, told
    <3>5. CASE GenerateAccount
      <4>1. /\ getPullSecret(bc) # Nil /\ bc.serviceAccount = Blank
            /\ extra' = Append(extra, GeneratedAccount)
            /\ generatedSA' = GeneratedAccount.name
        BY <3>5 DEF GenerateAccount
      <4>2. Accounts = <<GeneratedAccount>>
        BY <2>3, <4>1
      <4>3. extra' = Accounts
        BY <3>2, <4>1, <4>2, ResourcesPut
      <4>4. Accounts # <<>>
        BY <4>2
      <4> QED
        BY <2>1, <2>2, <2>5, <3>1, <4>1, <4>3, <4>4 DEF AccountSoFar
    <3> QED
      BY <1>3, <2>5, <3>3, <3>4, <3>5, StepAt
  <2> QED
    BY <2>4, <2>5
<1>4. CASE pc' = "idle" /\ pc # "idle"
  <2>1. extra' = <<>> /\ generatedSA' = <<>>
    BY <1>4, StepShapes
       DEF Next, Begin, AllConverted, vars, Goes, Follows, Declines, Decline, Finish, Return
  <2> QED
    BY <1>4, <2>1, NothingPassed DEF AccountSoFar
<1>5. CASE UNCHANGED vars
  BY <1>5 DEF vars, AccountSoFar, Accounts, Maps, GeneratedAccount, InlineConfigMap, Source,
              Own, OwnWarnings
<1>6. pc = "idle" /\ pc' = "idle" => UNCHANGED vars
  <2>1. Step => pc # "idle"
    BY StepShapes DEF Goes, Declines, Finish, Running
  <2> QED
    BY <2>1 DEF Next, Begin, AllConverted
<1> QED
  BY <1>1, <1>2, <1>3, <1>4, <1>5, <1>6, NextCases

\* So it holds throughout.
LEMMA AccountAlways == Spec => []AccountSoFar
<1>1. Init => AccountSoFar
  BY NothingPassed DEF Init, AccountSoFar
<1>2. Background /\ AccountSoFar /\ [Next]_vars => AccountSoFar'
  BY StepAccount
<1> QED
  BY <1>1, <1>2, BackgroundAlways, PTL DEF Spec

\* Every step of the system keeps it.
LEMMA StepDockerfile ==
  ASSUME Background, DockerfileSoFar, [Next]_vars
  PROVE  DockerfileSoFar'
<1> DEFINE key == InlineDockerfileConfigMapAnnotation
           count == Count(Own, {"InlineDockerfileDropped"})
<1>1. TypeOK
  BY DEF Background
<1>2. CASE \E b \in BuildConfigs : Begin(b)
  BY <1>2, NothingPassed DEF DockerfileSoFar, Begin
<1>3. CASE Goes /\ Step
  <2>1. UNCHANGED bc /\ DOMAIN build = Fields /\ InlineConfigMap' = InlineConfigMap
        /\ Source' = Source
    BY <1>3, Untouched DEF InlineConfigMap, Source
  <2>2. pc' \in PastDockerfile <=> pc \in PastDockerfile \/ pc = "inlineDockerfile"
    BY <1>3, Passing DEF Goes
  <2>3. CASE pc # "inlineDockerfile"
    <3>1. count' = count
      <4>1. ~MayRaise(pc, "InlineDockerfileDropped")
        BY <2>3 DEF MayRaise, DropWarnings
      <4> QED
        BY <1>1, <1>3, <4>1, Untold
    <3>2. /\ key \in DOMAIN build'.annotations <=> key \in DOMAIN build.annotations
          /\ key \in DOMAIN build.annotations => build'.annotations[key] = build.annotations[key]
      BY <1>3, <2>3, Annotates, DistinctAnnotations
    <3> HIDE DEF key
    <3> QED
      BY <2>1, <2>2, <2>3, <3>1, <3>2 DEF DockerfileSoFar, key
  <2>4. CASE pc = "inlineDockerfile"
    <3>1. CASE NoInlineDockerfile
      BY <2>1, <3>1 DEF NoInlineDockerfile, DockerfileSoFar
    <3>2. CASE PreserveInlineDockerfile
      <4>1. bc.strategy.type = "Docker" /\ build' = Annotate(build, key, InlineConfigMap.name)
        BY <3>2 DEF PreserveInlineDockerfile
      <4>2. key \in DOMAIN build'.annotations /\ build'.annotations[key] = InlineConfigMap.name
        BY <2>1, <4>1, AnnotationSet
      <4> HIDE DEF key
      <4> QED
        BY <2>1, <4>1, <4>2 DEF DockerfileSoFar, key
    <3>3. CASE DropInlineDockerfile
      <4>1. Warn(W("InlineDockerfileDropped", bc.name)) /\ UNCHANGED start
            /\ bc.strategy.type = "Source"
        BY <3>3 DEF DropInlineDockerfile, Goto, call
      <4>2. count' # 0
        BY <1>1, <4>1, Told
      <4> QED
        BY <2>1, <4>1, <4>2 DEF DockerfileSoFar
    <3> QED
      BY <1>3, <2>4, <3>1, <3>2, <3>3, StepAt
  <2> QED
    BY <2>3, <2>4
<1>4. CASE pc' = "idle"
  BY <1>4, NothingPassed DEF DockerfileSoFar
<1>5. CASE UNCHANGED vars
  BY <1>5 DEF vars, DockerfileSoFar, Own, OwnWarnings, InlineConfigMap, Source
<1> QED
  BY <1>1, <1>2, <1>3, <1>4, <1>5, NextCases

\* So it holds throughout.
LEMMA DockerfileAlways == Spec => []DockerfileSoFar
<1>1. Init => DockerfileSoFar
  BY NothingPassed DEF Init, DockerfileSoFar
<1>2. Background /\ DockerfileSoFar /\ [Next]_vars => DockerfileSoFar'
  BY StepDockerfile
<1> QED
  BY <1>1, <1>2, BackgroundAlways, PTL DEF Spec

\* The resources that are returned, with their kinds.
LEMMA FinalResources ==
  ASSUME Background, AccountSoFar, pc = "classify"
  PROVE  /\ \A k \in DOMAIN Final.resources :
              /\ Final.resources[k].name \notin DOMAIN Rewritten
              /\ Final.resources[k].ns = bc.ns
         /\ OfKind(Final, "ServiceAccount") = ToSet(Accounts)
         /\ OfKind(Final, "ConfigMap") = ToSet(Maps)
<1> DEFINE b == BuildResource(Classified)
           a == GeneratedAccount
           m == InlineConfigMap
           all == <<b>> \o extra
<1>1. /\ b.kind = "Build" /\ b.name = Sanitize(bc.name) /\ b.ns = bc.ns
      /\ a.kind = "ServiceAccount" /\ a.name = Sanitize(bc.name) /\ a.ns = bc.ns
      /\ m.kind = "ConfigMap" /\ m.name = Sanitize(ConfigMapOriginal(bc)) /\ m.ns = bc.ns
  <2>1. Classified.name = build.name /\ Classified.ns = build.ns
    <3>1. "name" \in Fields /\ "ns" \in Fields
      BY DEF Fields
    <3>2. Classified["name"] = build["name"] /\ Classified["ns"] = build["ns"]
      BY <3>1, FinalBuild
    <3> QED
      BY <3>2
  <2>2. build.name = Sanitize(bc.name) /\ build.ns = bc.ns
    BY DEF Background, Formed
  <2> QED
    BY <2>1, <2>2 DEF BuildResource, GeneratedAccount, InlineConfigMap
<1>2. \A name : Sanitize(name) \notin DOMAIN Rewritten
  BY RewrittenAssumption DEF Sanitize
<1>3. /\ IsList(Accounts) /\ (Accounts = <<a>> \/ Accounts = <<>>)
      /\ IsList(Maps) /\ (Maps = <<m>> \/ Maps = <<>>)
  <2> HIDE DEF a, m
  <2>1. IsList(<<a>>) /\ IsList(<<m>>) /\ IsList(<<>>)
    BY DEF IsList, ToSet
  <2>2. Accounts = <<a>> \/ Accounts = <<>>
    BY Zenon DEF Accounts, When, a
  <2>3. Maps = <<m>> \/ Maps = <<>>
    BY Zenon DEF Maps, When, m
  <2> QED
    BY <2>1, <2>2, <2>3
<1>4. extra = Accounts \o Maps
  BY PassedInOrder DEF AccountSoFar
<1> HIDE DEF b, a, m
<1>5. ToSet(all) = {b} \union ToSet(Accounts) \union ToSet(Maps)
  <2>1. IsList(<<b>>) /\ ToSet(<<b>>) = {b}
    BY DEF IsList, ToSet
  <2>2. IsList(extra) /\ ToSet(extra) = ToSet(Accounts) \union ToSet(Maps)
    BY <1>3, <1>4, ListConcat, ToSetConcat
  <2>3. ToSet(all) = ToSet(<<b>>) \union ToSet(extra)
    BY <2>1, <2>2, ToSetConcat
  <2> QED
    BY <2>1, <2>2, <2>3
<1>6. ToSet(Accounts) \subseteq {a} /\ ToSet(Maps) \subseteq {m}
  BY <1>3 DEF ToSet
<1>7. Final.resources = all
  BY DEF Final, b
<1> HIDE DEF all
<1>8. \A k \in DOMAIN all : all[k] \in ToSet(all)
  BY DEF ToSet
<1>9. \A kind : OfKind(Final, kind) = {x \in ToSet(all) : x.kind = kind}
  BY <1>7 DEF OfKind, ToSet
<1>10. \A x \in ToSet(all) : x.name \notin DOMAIN Rewritten /\ x.ns = bc.ns
  BY <1>1, <1>2, <1>5, <1>6
<1>11. {x \in ToSet(all) : x.kind = "ServiceAccount"} = ToSet(Accounts)
  BY <1>1, <1>5, <1>6
<1>12. {x \in ToSet(all) : x.kind = "ConfigMap"} = ToSet(Maps)
  BY <1>1, <1>5, <1>6
<1>13. /\ OfKind(Final, "ServiceAccount") = ToSet(Accounts)
       /\ OfKind(Final, "ConfigMap") = ToSet(Maps)
  BY <1>9, <1>11, <1>12
<1> QED
  BY <1>7, <1>8, <1>10, <1>13

\* The account Finish returns carries the pull secret, and the template names it.
LEMMA FinalAccount ==
  ASSUME Background, AccountSoFar, TemplateSoFar, pc = "classify", getPullSecret(bc) # Nil
  PROVE  PullSecretKept(Final)
<1> DEFINE a == GeneratedAccount
           template == Annotations(Final)[BuildRunTemplateAnnotation]
           accounts == OfKind(Final, "ServiceAccount")
<1>1. Final.bc = bc /\ accounts = ToSet(Accounts)
  BY FinalFields, FinalResources
<1>2. generatedSA = IF Accounts = <<>> THEN <<>> ELSE a.name
  BY PassedInOrder DEF AccountSoFar
<1>3. bc.resources => template.serviceAccount = TemplateAccount
  <2>1. bc.resources => /\ BuildRunTemplateAnnotation \in DOMAIN build.annotations
                        /\ build.annotations[BuildRunTemplateAnnotation] = Template
    BY PassedInOrder DEF TemplateSoFar
  <2>2. Template.serviceAccount = TemplateAccount
    BY DEF Template
  <2> QED
    BY <2>1, <2>2, FinalAnnotations, DistinctAnnotations
<1> HIDE DEF template, accounts
<1>4. CASE bc.serviceAccount = Blank
  <2>1. Accounts = <<a>>
    <3> HIDE DEF a
    <3> QED
      BY <1>4, Zenon DEF Accounts, When, a
  <2>2. a.secret = getPullSecret(bc)
    BY DEF GeneratedAccount
  <2> HIDE DEF a
  <2>3. accounts = {a} /\ generatedSA = a.name
    <3>1. <<a>> # <<>> /\ ToSet(<<a>>) = {a}
      BY DEF ToSet
    <3> QED
      BY <1>1, <1>2, <2>1, <3>1
  <2>4. TemplateAccount = a.name
    BY <1>4, <2>3 DEF TemplateAccount
  <2>5. \E sa \in accounts :
          /\ accounts = {sa} /\ sa.secret = getPullSecret(bc)
          /\ bc.resources => template.serviceAccount = sa.name
    BY <1>3, <2>2, <2>3, <2>4
  <2> QED
    BY <1>1, <1>4, <2>5 DEF PullSecretKept, accounts, template
<1>5. CASE bc.serviceAccount # Blank
  <2>1. Accounts = <<>>
    BY <1>5, Zenon DEF Accounts, When
  <2>2. accounts = {} /\ generatedSA = <<>>
    BY <1>1, <1>2, <2>1 DEF ToSet
  <2>3. TemplateAccount = <<bc.serviceAccount>>
    BY <1>5, <2>2 DEF TemplateAccount
  <2>4. <<bc.serviceAccount>> \in Names(Final, "LinkPullSecret")
    <3> DEFINE ids == {"LinkPullSecret"}
    <3>1. "WarningsOmitted" \notin ids /\ "LinkPullSecret" \in ids /\ TypeOK
      BY DEF Background
    <3> HIDE DEF ids
    <3>2. Names(Final, "LinkPullSecret") = Abouts(Own, "LinkPullSecret")
      BY <3>1, FinalSays
    <3> QED
      BY <1>5, <3>2, PassedInOrder DEF AccountSoFar
  <2> QED
    BY <1>1, <1>3, <1>5, <2>2, <2>3, <2>4 DEF PullSecretKept, accounts, template
<1> QED
  BY <1>4, <1>5

\* A pull secret reaches the build, for every conversion: generateServiceAccount emits one account
\* with it, which the BuildRun template written eleven steps later names, or the BuildConfig names
\* an account, a warning says to link the secret to it, and no account is emitted beside it.
THEOREM PullSecretsReach == Spec => []PullSecretReachesBuild
<1>1. Init => PullSecretReachesBuild
  BY NoneReplaced DEF PullSecretReachesBuild
<1> DEFINE Known == AccountSoFar /\ TemplateSoFar
<1>2. Background /\ Known /\ PullSecretReachesBuild /\ [Next]_vars => PullSecretReachesBuild'
  <2>1. Background /\ Known /\ pc = "classify" /\ getPullSecret(Final.bc) # Nil
          => PullSecretKept(Final)
    BY FinalAccount, FinalFields
  <2> QED
    BY <2>1, OneMore DEF PullSecretReachesBuild
<1>3. Spec => []Known
  BY AccountAlways, TemplateAlways, PTL
<1> QED
  <2> HIDE DEF Known
  <2> QED
    BY <1>1, <1>2, <1>3, BackgroundAlways, PTL DEF Spec

-----------------------------------------------------------------------------
(* The template and the Build agree, and the cluster accepts the Build.    *)

\* The template Finish returns is for the Build it returns, and its steps are of its strategy.
LEMMA FinalTemplate ==
  ASSUME Background, TemplateSoFar, pc = "classify"
  PROVE  /\ bc.resources => Has(Final, BuildRunTemplateAnnotation) /\ TemplateFits(Final)
         /\ Has(Final, BuildRunTemplateAnnotation) =>
              bc.resources \/ BuildRunTemplateAnnotation \in DOMAIN bc.annotations
<1> DEFINE key == BuildRunTemplateAnnotation
           template == Annotations(Final)[key]
<1>1. Has(Final, key) <=> key \in DOMAIN build.annotations
  BY FinalAnnotations, DistinctAnnotations
<1>2. key \in DOMAIN build.annotations => key \in DOMAIN bc.annotations \/ bc.resources
  BY DEF TemplateSoFar
<1>3. ASSUME bc.resources
      PROVE  Has(Final, key) /\ TemplateFits(Final)
  <2>1. /\ key \in DOMAIN build.annotations /\ build.annotations[key] = Template
        /\ Count(Own, {"StepResourcesOmitted"}) = IF StepNames = <<>> THEN 1 ELSE 0
    BY <1>3, PassedInOrder DEF TemplateSoFar
  <2>2. Has(Final, key) /\ template = Template
    BY <2>1, FinalAnnotations, DistinctAnnotations
  <2>3. BuildOf(Final).name = build.name /\ BuildOf(Final).strategy = build.strategy
    BY FinalFields
  <2>4. template.steps = StepNames /\ template.build = build.name
    BY <2>2 DEF Template
  <2>5. Raised(Final, "StepResourcesOmitted") # {} <=> StepNames = <<>>
    <3> DEFINE ids == {"StepResourcesOmitted"}
    <3>1. "WarningsOmitted" \notin ids /\ "StepResourcesOmitted" \in ids /\ TypeOK
      BY DEF Background
    <3> HIDE DEF ids
    <3>2. Raised(Final, "StepResourcesOmitted") # {} <=> Count(Own, {"StepResourcesOmitted"}) # 0
      BY <3>1, FinalSays
    <3> QED
      BY <2>1, <3>2
  <2>6. \/ StepNames = <<>>
        \/ StepNames = <<"build-and-push">> /\ build.strategy = "buildah"
        \/ StepNames = <<"s2i-generate", "buildah">> /\ build.strategy = "source-to-image"
    BY DEF StepNames
  <2>7. /\ ToSet(<<>>) = {} /\ ToSet(<<"build-and-push">>) = {"build-and-push"}
        /\ ToSet(<<"s2i-generate", "buildah">>) = {"s2i-generate", "buildah"}
    <3>1. /\ DOMAIN <<>> = {} /\ DOMAIN <<"build-and-push">> = {1}
          /\ DOMAIN <<"s2i-generate", "buildah">> = {1, 2}
      OBVIOUS
    <3> QED
      BY <3>1 DEF ToSet
  <2>8. ToSet(StepNames) = {} <=> StepNames = <<>>
    BY <2>6, <2>7
  <2> HIDE DEF template, key
  <2> QED
    BY <2>2, <2>3, <2>4, <2>5, <2>6, <2>7, <2>8 DEF TemplateFits, template, key
<1> QED
  BY <1>1, <1>2, <1>3

\* The BuildRun template names the Build it is for and only steps of that Build's strategy, those
\* of the catalog or, for a custom strategy, none and a warning; a Build whose BuildConfig sets no
\* resources has no template but one the BuildConfig was annotated with.
THEOREM TemplatesFit == Spec => []TemplateStepsExist
<1>1. Init => TemplateStepsExist
  BY NoneReplaced DEF TemplateStepsExist
<1>2. Background /\ TemplateSoFar /\ TemplateStepsExist /\ [Next]_vars => TemplateStepsExist'
  <2>1. Background /\ TemplateSoFar /\ pc = "classify" =>
          LET r == Final IN
          /\ r.bc.resources => Has(r, BuildRunTemplateAnnotation) /\ TemplateFits(r)
          /\ Has(r, BuildRunTemplateAnnotation) =>
               r.bc.resources \/ BuildRunTemplateAnnotation \in DOMAIN r.bc.annotations
    BY FinalTemplate, FinalFields
  <2> QED
    BY <2>1, OneMore DEF TemplateStepsExist
<1> QED
  BY <1>1, <1>2, TemplateAlways, BackgroundAlways, PTL DEF Spec

\* What Finish returns has values in the ranges of the target cluster.
LEMMA FinalAdmissible ==
  ASSUME Background, DeadlineSoFar, SelectorSoFar, LimitsSoFar, LabelsSoFar, AccountSoFar,
         pc = "classify"
  PROVE  Admissible(Final)
<1>1. /\ Final.bc = bc
      /\ BuildOf(Final).timeout = build.timeout
      /\ BuildOf(Final).succeededLimit = build.succeededLimit
      /\ BuildOf(Final).failedLimit = build.failedLimit
      /\ BuildOf(Final).nodeSelector = build.nodeSelector
      /\ BuildOf(Final).imageLabels = build.imageLabels
  BY FinalFields
<1>2. TimeoutFits(bc, build.timeout)
  BY PassedInOrder DEF DeadlineSoFar
<1>3. InRange(build.succeededLimit) /\ InRange(build.failedLimit)
  BY PassedInOrder DEF LimitsSoFar
<1>4. \A k \in DOMAIN build.nodeSelector :
        k \notin InvalidLabels /\ build.nodeSelector[k] \notin InvalidLabels
  BY PassedInOrder DEF SelectorSoFar, validateNodeSelector
<1>5. Blank \notin DOMAIN build.imageLabels
  BY PassedInOrder DEF LabelsSoFar, Labelled
<1>6. \A k \in DOMAIN Final.resources :
        /\ Final.resources[k].name \notin DOMAIN Rewritten
        /\ Final.resources[k].ns = Final.bc.ns
  BY <1>1, FinalResources
<1> QED
  BY <1>1, <1>2, <1>3, <1>4, <1>5, <1>6 DEF Admissible, TimeoutFits, InRange

\* Every Build is within what Shipwright's validation accepts: the timeout is the deadline, in whole
\* seconds and without int64 overflow, history limits are in range, node selector and labels are
\* valid, and every emitted resource has a valid name, in the BuildConfig's namespace.
THEOREM BuildsAdmissible == Spec => []BuildAdmissible
<1>1. Init => BuildAdmissible
  BY NoneReplaced DEF BuildAdmissible
<1> DEFINE Known == DeadlineSoFar /\ SelectorSoFar /\ LimitsSoFar /\ LabelsSoFar /\ AccountSoFar
<1>2. Background /\ Known /\ BuildAdmissible /\ [Next]_vars => BuildAdmissible'
  <2>1. Background /\ Known /\ pc = "classify" => Admissible(Final)
    BY FinalAdmissible
  <2> QED
    BY <2>1, OneMore DEF BuildAdmissible
<1>3. Spec => []Known
  BY DeadlineAlways, SelectorAlways, LimitsAlways, LabelsAlways, AccountAlways, PTL
<1> QED
  <2> HIDE DEF Known
  <2> QED
    BY <1>1, <1>2, <1>3, BackgroundAlways, PTL DEF Spec

-----------------------------------------------------------------------------
(* The source.                                                             *)

\* A clone secret next to a source that is not cloned.
Inert == Source.git = Nil /\ Source.sourceSecret \notin {Nil, Blank}

\* The kind of source a Build has.
KindOfSource(source) ==
  CASE source.type = "Git" -> "git"
    [] source.type = "Local" -> "binary"
    [] OTHER -> "images"

\* Before the source step there is no source, and no warning about one; after it, the source is of
\* the kind the BuildConfig has, with its context directory, and what it lacks was reported.
SourceSoFar ==
  /\ pc # "idle" /\ pc \notin PastSource =>
       /\ build.source = Nil
       /\ Tally(Own, "NoSource") = 0 /\ Tally(Own, "SourceSecretDropped") = 0
       /\ Tally(Own, "ConfigMapMount") = 0 /\ Tally(Own, "SecretMount") = 0
  /\ pc \in PastSource =>
       /\ Tally(Own, "SourceSecretDropped") = IF Inert THEN 1 ELSE 0
       /\ Tally(Own, "NoSource") = IF Kinds(Source) = {} THEN 1 ELSE 0
       /\ Kinds(Source) = {} => build.source = Nil
       /\ Kinds(Source) # {} =>
            /\ Kinds(Source) = {KindOfSource(build.source)}
            /\ build.source.contextDir = Source.contextDir
            /\ Tally(Own, "ConfigMapMount") = Len(Source.configMaps)
            /\ Tally(Own, "SecretMount") = Len(Source.secrets)
            /\ Source.git # Nil => build.source.secret = Source.sourceSecret
            /\ Kinds(Source) = {"images"} => build.source.ref = Resolve(bc, ImageOf(bc)).image

\* The warnings that are counted here.
SourceIds == {"NoSource", "SourceSecretDropped", "ConfigMapMount", "SecretMount"}

\* The warnings about mounted objects: one for each.
LEMMA MountsTold ==
  ASSUME bc \in BuildConfigs, NEW id
  PROVE  /\ IsList(MountWarnings)
         /\ Tally(MountWarnings, id) = (IF "ConfigMapMount" = id THEN Len(Source.configMaps) ELSE 0)
                                        + (IF "SecretMount" = id THEN Len(Source.secrets) ELSE 0)
<1> DEFINE s == Source.configMaps
           t == Source.secrets
           m == [k \in DOMAIN s |-> [id |-> "ConfigMapMount", about |-> <<s[k]>>]]
           n == [k \in DOMAIN t |-> [id |-> "SecretMount", about |-> <<t[k]>>]]
<1>1. IsList(s) /\ IsList(t)
  BY ListsAssumption DEF Source
<1>2. Each(m, s, "ConfigMapMount") /\ Each(n, t, "SecretMount")
  BY DEF Each
<1>3. MountWarnings = m \o n
  BY DEF MountWarnings
<1> HIDE DEF m, n, s, t
<1>4. IsList(m) /\ Tally(m, id) = IF "ConfigMapMount" = id THEN Len(s) ELSE 0
  BY <1>1, <1>2, TallyEach
<1>5. IsList(n) /\ Tally(n, id) = IF "SecretMount" = id THEN Len(t) ELSE 0
  BY <1>1, <1>2, TallyEach
<1>6. IsList(m \o n) /\ Tally(m \o n, id) = Tally(m, id) + Tally(n, id)
  BY <1>4, <1>5, TallyAdds
<1> QED
  BY <1>3, <1>4, <1>5, <1>6 DEF s, t

\* The warning about a clone secret nothing uses.
LEMMA InertTold ==
  ASSUME NEW id \in SourceIds
  PROVE  /\ IsList(InertSecretWarning)
         /\ Tally(InertSecretWarning, id) = IF Inert /\ id = "SourceSecretDropped" THEN 1 ELSE 0
<1> DEFINE m == W("SourceSecretDropped", <<Source.sourceSecret>>)
<1>1. InertSecretWarning = When(Inert, m)
  BY DEF InertSecretWarning, Inert
<1>2. IsList(InertSecretWarning)
  BY <1>1, ListOfMessages
<1>3. Tally(m, id) = IF id = "SourceSecretDropped" THEN 1 ELSE 0
  BY TallyOne
<1> HIDE DEF m, Inert
<1>4. Tally(When(Inert, m), id) = IF Inert THEN Tally(m, id) ELSE 0
  BY TallyWhen
<1> QED
  BY <1>1, <1>2, <1>3, <1>4

\* What a step that gives the Build a source raises, next to the warnings m of its own.
LEMMA SourceTold ==
  ASSUME TypeOK, bc \in BuildConfigs, NEW m, IsList(m), NEW id \in SourceIds, Tally(m, id) = 0,
         Warn(InertSecretWarning \o m \o MountWarnings), UNCHANGED start
  PROVE  Tally(Own, id)' = Tally(Own, id) + (CASE id = "NoSource" -> 0
                                    [] id = "SourceSecretDropped" -> IF Inert THEN 1 ELSE 0
                                    [] id = "ConfigMapMount" -> Len(Source.configMaps)
                                    [] id = "SecretMount" -> Len(Source.secrets))
<1> DEFINE s == InertSecretWarning
           t == MountWarnings
<1>1. IsList(s) /\ Tally(s, id) = IF Inert /\ id = "SourceSecretDropped" THEN 1 ELSE 0
  BY InertTold
<1>2. IsList(t)
      /\ Tally(t, id) = (IF "ConfigMapMount" = id THEN Len(Source.configMaps) ELSE 0)
                            + (IF "SecretMount" = id THEN Len(Source.secrets) ELSE 0)
  BY MountsTold
<1>3. Len(Source.configMaps) \in Nat /\ Len(Source.secrets) \in Nat
  BY ListsAssumption, ListFacts DEF Source
<1>4. Warn((s \o m) \o t)
  OBVIOUS
<1> HIDE DEF s, t
<1>5. IsList(s \o m) /\ IsList(s) /\ IsList(m)
  BY <1>1, ListConcat
<1>6. Tally(s \o m, id) = Tally(s, id) + Tally(m, id)
  BY <1>5, TallyAdds
<1> DEFINE u == s \o m
<1>7. IsList(u) /\ IsList(t) /\ Warn(u \o t)
  BY <1>2, <1>4, <1>5
<1> HIDE DEF u
<1>8. IsList(u \o t)
  BY <1>7, ListConcat
<1>9. Tally(u \o t, id) = Tally(u, id) + Tally(t, id)
  BY <1>7, TallyAdds
<1>10. Tally(Own, id)' = Tally(Own, id) + Tally(u \o t, id)
  BY <1>7, <1>8, TallyTell
<1>11. Tally(u, id) = Tally(s, id)
  BY <1>1, <1>6 DEF u
<1> HIDE DEF Inert
<1>12. Tally(u \o t, id) = (CASE id = "NoSource" -> 0
                                [] id = "SourceSecretDropped" -> IF Inert THEN 1 ELSE 0
                                [] id = "ConfigMapMount" -> Len(Source.configMaps)
                                [] id = "SecretMount" -> Len(Source.secrets))
  <2>1. Tally(u \o t, id) = Tally(s, id) + Tally(t, id)
    BY <1>9, <1>11
  <2>2. CASE id = "NoSource"
    BY <1>1, <1>2, <2>1, <2>2
  <2>3. CASE id = "SourceSecretDropped"
    BY <1>1, <1>2, <2>1, <2>3
  <2>4. CASE id = "ConfigMapMount"
    BY <1>1, <1>2, <1>3, <2>1, <2>4
  <2>5. CASE id = "SecretMount"
    BY <1>1, <1>2, <1>3, <2>1, <2>5
  <2> QED
    BY <2>2, <2>3, <2>4, <2>5 DEF SourceIds
<1> QED
  BY <1>10, <1>12

\* The warnings of an image source are none of these.
LEMMA ImageSourceTold ==
  ASSUME NEW id \in SourceIds, NEW resolved, resolved = Resolve(bc, ImageOf(bc)), NEW about, NEW m,
         m = AsWarning \o When(resolved.warning # Blank, W(resolved.warning, about))
               \o PathsWarning(resolved)
  PROVE  IsList(m) /\ Tally(m, id) = 0
<1> DEFINE s == AsWarning
           t == When(resolved.warning # Blank, W(resolved.warning, about))
           v == PathsWarning(resolved)
           path == IF chainCandidate(bc, ImageOf(bc)) THEN "PathsDroppedRunOrder"
                   ELSE "PathsDropped"
           w == W(path, resolved.image)
           as == W("ImageAsDropped", <<>>)
<1>1. IsList(s) /\ Tally(s, id) = 0
  <2>1. Tally(as, id) = 0
    BY TallyOne DEF SourceIds
  <2>2. s = as \/ s = <<>>
    BY DEF AsWarning, When
  <2>3. IsList(s)
    BY <2>2, ListOfMessages
  <2>4. Tally(<<>>, id) = 0
    BY LedgerNone DEF Tally
  <2> HIDE DEF as, s
  <2> QED
    BY <2>1, <2>2, <2>3, <2>4
<1>2. IsList(t) /\ Tally(t, id) = 0
  <2>1. Messages(t, "strategy")
    BY ResolveWarnings
  <2>2. IsList(t) /\ ~MayRaise("strategy", id)
    BY <2>1 DEF Messages, MayRaise, SourceIds
  <2> HIDE DEF t
  <2> QED
    BY <2>1, <2>2, TallySilent
<1>3. IsList(v) /\ Tally(v, id) = 0
  <2>1. Tally(w, id) = 0
    <3>1. path # id
      BY DEF SourceIds
    <3> HIDE DEF path
    <3> QED
      BY <3>1, TallyOne
  <2>2. v = When(Source.images[1].paths # <<>>, w)
    BY DEF PathsWarning
  <2>3. IsList(v)
    BY ListOfMessages DEF PathsWarning
  <2> HIDE DEF w, v
  <2> QED
    BY <2>1, <2>2, <2>3, TallyWhen
<1>4. m = (s \o t) \o v
  OBVIOUS
<1> HIDE DEF s, t, v, w, path, as
<1>5. IsList(s \o t) /\ Tally(s \o t, id) = 0
  <2>1. IsList(s) /\ IsList(t)
    BY <1>1, <1>2
  <2>2. IsList(s \o t)
    BY <2>1, ListConcat
  <2>3. Tally(s \o t, id) = Tally(s, id) + Tally(t, id)
    BY <2>1, TallyAdds
  <2> QED
    BY <1>1, <1>2, <2>2, <2>3
<1> DEFINE u == s \o t
<1>6. IsList(u) /\ IsList(v) /\ Tally(u, id) = 0
  BY <1>3, <1>5
<1> HIDE DEF u
<1>7. IsList(u \o v)
  BY <1>6, ListConcat
<1>8. Tally(u \o v, id) = Tally(u, id) + Tally(v, id)
  BY <1>6, TallyAdds
<1> QED
  <2>1. m = u \o v
    BY <1>4 DEF u
  <2>2. Tally(u \o v, id) = 0
    BY <1>3, <1>6, <1>8
  <2> QED
    BY <1>7, <2>1, <2>2, Zenon

\* The Build is given a source s, and the warnings m next to those of every source.
LEMMA SourceGiven ==
  ASSUME Background, SourceSoFar, pc = "source", pc' = "output", UNCHANGED <<bc, opts, start>>,
         NEW s, DOMAIN build' = Fields, build'.source = s,
         NEW m, IsList(m), \A id \in SourceIds : Tally(m, id) = 0,
         Warn(InertSecretWarning \o m \o MountWarnings),
         Kinds(Source) = {KindOfSource(s)}, s.contextDir = Source.contextDir,
         Source.git # Nil => s.secret = Source.sourceSecret,
         Kinds(Source) = {"images"} => s.ref = Resolve(bc, ImageOf(bc)).image
  PROVE  SourceSoFar'
<1>1. TypeOK /\ bc \in BuildConfigs
  BY DEF Background, TypeOK
<1>2. pc \notin PastSource /\ pc' \in PastSource
  BY PassedInOrder DEF PastSource
<1>3. \A id \in SourceIds :
        Tally(Own, id)' = Tally(Own, id) + (CASE id = "NoSource" -> 0
                                   [] id = "SourceSecretDropped" -> IF Inert THEN 1 ELSE 0
                                   [] id = "ConfigMapMount" -> Len(Source.configMaps)
                                   [] id = "SecretMount" -> Len(Source.secrets))
  BY <1>1, SourceTold
<1>4. \A id \in SourceIds : Tally(Own, id) = 0
  BY <1>2 DEF SourceSoFar, SourceIds
<1>5. Len(Source.configMaps) \in Nat /\ Len(Source.secrets) \in Nat
  BY <1>1, ListsAssumption, ListFacts DEF Source
<1>6. /\ Tally(Own, "NoSource")' = 0
      /\ Tally(Own, "SourceSecretDropped")' = IF Inert THEN 1 ELSE 0
      /\ Tally(Own, "ConfigMapMount")' = Len(Source.configMaps)
      /\ Tally(Own, "SecretMount")' = Len(Source.secrets)
  BY <1>3, <1>4, <1>5 DEF SourceIds
<1>7. Source' = Source /\ Inert' = Inert /\ Kinds(Source)' = Kinds(Source)
      /\ Resolve(bc, ImageOf(bc))' = Resolve(bc, ImageOf(bc))
  BY DEF Source, Inert, Resolve, ImageOf, NamespaceOf
<1>8. Kinds(Source) # {}
  OBVIOUS
<1> HIDE DEF Source, Inert, Kinds, Resolve, ImageOf, Own, Tally, KindOfSource
<1>9. KindOfSource(build.source)' = KindOfSource(s)
  BY DEF KindOfSource
<1> QED
  BY <1>2, <1>6, <1>7, <1>8, <1>9 DEF SourceSoFar

\* Every step of the system keeps it.
LEMMA StepSource ==
  ASSUME Background, SourceSoFar, [Next]_vars
  PROVE  SourceSoFar'
<1>1. TypeOK
  BY DEF Background
<1>2. CASE \E b \in BuildConfigs : Begin(b)
  <2>1. PICK b \in BuildConfigs : Begin(b)
    BY <1>2
  <2>2. build'.source = Nil /\ pc' = "strategy"
    BY <2>1 DEF Begin, Skeleton
  <2>3. \A id \in SourceIds : Tally(Own, id)' = 0
    BY <1>1, <2>1, TallyBegins DEF SourceIds
  <2> HIDE DEF Own, Tally
  <2> QED
    BY <2>2, <2>3, NothingPassed DEF SourceSoFar, SourceIds
<1>3. CASE Goes /\ Step
  <2>1. UNCHANGED <<bc, opts>> /\ DOMAIN build = Fields /\ DOMAIN build' = Fields
        /\ \A field \in Fields : ~MaySet(pc, field) => build'[field] = build[field]
    BY <1>3, Untouched
  <2>2. pc' \in PastSource <=> pc \in PastSource \/ pc = "source"
    BY <1>3, Passing DEF Goes
  <2>3. pc # "idle"
    BY <1>3 DEF Goes, Running
  <2>4. CASE pc # "source"
    <3>1. build'.source = build.source
      <4>1. ~MaySet(pc, "source") /\ "source" \in Fields
        BY <2>4 DEF MaySet, Fields
      <4> QED
        BY <2>1, <4>1
    <3>2. \A id \in SourceIds : Tally(Own, id)' = Tally(Own, id)
      <4>1. \A id \in SourceIds : ~MayRaise(pc, id)
        BY <2>4 DEF MayRaise, DropWarnings, SourceIds
      <4> QED
        BY <1>1, <1>3, <4>1, TallyUntold
    <3>3. /\ Tally(Own, "NoSource")' = Tally(Own, "NoSource")
          /\ Tally(Own, "SourceSecretDropped")' = Tally(Own, "SourceSecretDropped")
          /\ Tally(Own, "ConfigMapMount")' = Tally(Own, "ConfigMapMount")
          /\ Tally(Own, "SecretMount")' = Tally(Own, "SecretMount")
      BY <3>2 DEF SourceIds
    <3>4. Source' = Source /\ Inert' = Inert /\ Kinds(Source)' = Kinds(Source)
          /\ Resolve(bc, ImageOf(bc))' = Resolve(bc, ImageOf(bc))
          /\ KindOfSource(build.source)' = KindOfSource(build.source)
      BY <2>1, <3>1 DEF Source, Inert, Resolve, ImageOf, NamespaceOf, KindOfSource
    <3> HIDE DEF Source, Inert, Kinds, Resolve, ImageOf, Own, Tally, KindOfSource
    <3> QED
      BY <2>2, <2>3, <2>4, <3>1, <3>3, <3>4 DEF SourceSoFar
  <2>5. CASE pc = "source"
    <3>1. UNCHANGED start /\ bc \in BuildConfigs
      BY <1>3, <1>1, <2>3 DEF Goes, call, TypeOK
    <3>2. IsList(<<>>) /\ \A id \in SourceIds : Tally(<<>>, id) = 0
      BY ListOfMessages, LedgerNone DEF Tally
    <3>3. CASE NoSource
      <4> DEFINE m == InertSecretWarning
                 n == W("NoSource", bc.name)
      <4>1. Kinds(Source) = {} /\ build' = build /\ Warn(m \o n) /\ pc' = "output"
        BY <3>3 DEF NoSource, Goto
      <4>2. pc \notin PastSource /\ pc' \in PastSource
        BY <2>5, <4>1, PassedInOrder DEF PastSource
      <4>3. /\ build.source = Nil
            /\ Tally(Own, "NoSource") = 0 /\ Tally(Own, "SourceSecretDropped") = 0
        BY <2>3, <4>2 DEF SourceSoFar
      <4>4. ASSUME NEW id \in {"NoSource", "SourceSecretDropped"}
            PROVE  Tally(Own, id)' = IF id = "NoSource" \/ Inert THEN 1 ELSE 0
        <5>1. IsList(m) /\ Tally(m, id) = IF Inert /\ id = "SourceSecretDropped" THEN 1 ELSE 0
          BY InertTold DEF SourceIds
        <5>2. IsList(n) /\ Tally(n, id) = IF id = "NoSource" THEN 1 ELSE 0
          BY TallyOne, ListOfMessages
        <5> HIDE DEF m, n
        <5>3. IsList(m \o n) /\ Tally(m \o n, id) = Tally(m, id) + Tally(n, id)
          BY <5>1, <5>2, TallyAdds
        <5>4. Tally(Own, id)' = Tally(Own, id) + Tally(m \o n, id)
          BY <1>1, <3>1, <4>1, <5>3, TallyTell
        <5> HIDE DEF Own, Tally, Inert
        <5>5. Tally(Own, id) = 0
          BY <4>3
        <5> QED
          BY <5>1, <5>2, <5>3, <5>4, <5>5
      <4>5. /\ Tally(Own, "NoSource")' = 1
            /\ Tally(Own, "SourceSecretDropped")' = IF Inert THEN 1 ELSE 0
        BY <4>4
      <4>6. Source' = Source /\ Inert' = Inert /\ Kinds(Source)' = Kinds(Source)
        BY <2>1 DEF Source, Inert
      <4> HIDE DEF Source, Inert, Kinds, Own, Tally
      <4> QED
        BY <4>1, <4>2, <4>3, <4>5, <4>6 DEF SourceSoFar
    <3>4. CASE GitSource
      <4> DEFINE s == BuildSource("Git", <<Source.git.uri, Source.git.ref>>, Source.sourceSecret)
      <4>1. /\ Kinds(Source) = {"git"} /\ pc' = "output" /\ build'.source = s
            /\ Warn(InertSecretWarning \o <<>> \o MountWarnings)
        BY <2>1, <3>4 DEF GitSource, SourceDone, Goto, Fields
      <4>2. KindOfSource(s) = "git" /\ s.contextDir = Source.contextDir
            /\ s.secret = Source.sourceSecret
        BY DEF KindOfSource, BuildSource
      <4> HIDE DEF s
      <4>3. Kinds(Source) # {"images"}
        BY <4>1
      <4> QED
        BY <2>1, <2>5, <3>1, <3>2, <4>1, <4>2, <4>3, SourceGiven
    <3>5. CASE BinaryFile
      <4> DEFINE s == BuildSource("Local", <<"local-copy">>, Nil)
      <4>1. /\ Kinds(Source) = {"binary"} /\ pc' = "output" /\ build'.source = s
            /\ Warn(InertSecretWarning \o <<>> \o MountWarnings)
        BY <2>1, <3>5 DEF BinaryFile, SourceDone, Goto, Fields
      <4>2. KindOfSource(s) = "binary" /\ s.contextDir = Source.contextDir
        BY DEF KindOfSource, BuildSource
      <4> HIDE DEF s
      <4>3. Kinds(Source) # {"images"} /\ Source.git = Nil
        <5>1. "git" \notin Kinds(Source)
          BY <4>1
        <5> QED
          BY <4>1, <5>1 DEF Kinds
      <4> QED
        BY <2>1, <2>5, <3>1, <3>2, <4>1, <4>2, <4>3, SourceGiven
    <3>6. CASE ImageSource
      <4> DEFINE resolved == Resolve(bc, ImageOf(bc))
                 about == ImageOf(bc).name
                 m == AsWarning \o When(resolved.warning # Blank, W(resolved.warning, about))
                        \o PathsWarning(resolved)
                 s == BuildSource("OCIArtifact", resolved.image, Source.images[1].pullSecret)
      <4>1. /\ Kinds(Source) = {"images"} /\ pc' = "output" /\ build'.source = s
            /\ Warn(InertSecretWarning \o m \o MountWarnings)
        BY <2>1, <3>6 DEF ImageSource, SourceDone, Goto, Fields
      <4>2. KindOfSource(s) = "images" /\ s.contextDir = Source.contextDir /\ s.ref = resolved.image
        BY DEF KindOfSource, BuildSource
      <4>3. IsList(m) /\ \A id \in SourceIds : Tally(m, id) = 0
        <5> SUFFICES ASSUME NEW id \in SourceIds PROVE IsList(m) /\ Tally(m, id) = 0
          BY DEF SourceIds
        <5> QED
          BY ImageSourceTold
      <4>4. Source.git = Nil
        <5>1. "git" \notin Kinds(Source)
          BY <4>1
        <5> QED
          BY <5>1 DEF Kinds
      <4> HIDE DEF s, m
      <4> QED
        BY <2>1, <2>5, <3>1, <4>1, <4>2, <4>3, <4>4, SourceGiven
    <3> QED
      BY <1>3, <2>5, <3>3, <3>4, <3>5, <3>6, StepAt
  <2> QED
    BY <2>4, <2>5
<1>4. CASE pc' = "idle"
  BY <1>4, NothingPassed DEF SourceSoFar
<1>5. CASE UNCHANGED vars
  <2>1. \A id : Tally(Own, id)' = Tally(Own, id)
    BY <1>5 DEF vars, Own, OwnWarnings, Tally
  <2>2. Source' = Source /\ Inert' = Inert /\ Kinds(Source)' = Kinds(Source)
        /\ Resolve(bc, ImageOf(bc))' = Resolve(bc, ImageOf(bc))
        /\ KindOfSource(build.source)' = KindOfSource(build.source)
    BY <1>5 DEF vars, Source, Inert, Resolve, ImageOf, NamespaceOf, KindOfSource
  <2> HIDE DEF Source, Inert, Kinds, Resolve, ImageOf, Own, Tally, KindOfSource
  <2> QED
    BY <1>5, <2>1, <2>2 DEF vars, SourceSoFar
<1> QED
  BY <1>1, <1>2, <1>3, <1>4, <1>5, NextCases

\* So it holds throughout.
LEMMA SourceAlways == Spec => []SourceSoFar
<1>1. Init => SourceSoFar
  BY NothingPassed DEF Init, SourceSoFar
<1>2. Background /\ SourceSoFar /\ [Next]_vars => SourceSoFar'
  BY StepSource
<1> QED
  BY <1>1, <1>2, BackgroundAlways, PTL DEF Spec

\* The ConfigMap Finish returns holds the inline Dockerfile,
LEMMA FinalDockerfile ==
  ASSUME Background, DockerfileSoFar, AccountSoFar, pc = "classify"
  PROVE  DockerfileKept(Final)
<1> DEFINE key == InlineDockerfileConfigMapAnnotation
<1>1. Final.bc = bc
  BY FinalFields
<1>2. CASE bc.source.dockerfile = Blank
  BY <1>1, <1>2 DEF DockerfileKept
<1>3. CASE bc.source.dockerfile # Blank /\ bc.strategy.type # "Docker"
  <2> DEFINE ids == {"InlineDockerfileDropped"}
  <2>1. Count(Own, {"InlineDockerfileDropped"}) # 0
    BY <1>3, PassedInOrder DEF DockerfileSoFar, Source
  <2>2. "WarningsOmitted" \notin ids /\ "InlineDockerfileDropped" \in ids /\ TypeOK
    BY DEF Background
  <2> HIDE DEF ids
  <2>3. Raised(Final, "InlineDockerfileDropped") # {}
    BY <2>1, <2>2, FinalSays
  <2> QED
    BY <2>3 DEF DockerfileKept
<1>4. CASE bc.source.dockerfile # Blank /\ bc.strategy.type = "Docker"
  <2>1. key \in DOMAIN build.annotations /\ build.annotations[key] = InlineConfigMap.name
    BY <1>4, PassedInOrder DEF DockerfileSoFar, Source
  <2>2. Has(Final, key) /\ Annotations(Final)[key] = InlineConfigMap.name
    BY <2>1, FinalAnnotations, DistinctAnnotations
  <2>3. InlineConfigMap \in OfKind(Final, "ConfigMap")
    <3> DEFINE m == InlineConfigMap
    <3> HIDE DEF m
    <3>1. Maps = <<m>>
      BY <1>4, Zenon DEF Maps, When, Source, m
    <3>2. m \in ToSet(Maps)
      BY <3>1 DEF ToSet
    <3> QED
      BY <3>2, FinalResources DEF m
  <2>4. InlineConfigMap.content = bc.source.dockerfile
    BY DEF InlineConfigMap, Source
  <2>5. InlineConfigMap.annotations[ConvertedFromAnnotation] = bc.name
    BY DEF InlineConfigMap, Put
  <2> HIDE DEF key
  <2> QED
    BY <1>1, <2>2, <2>3, <2>4, <2>5 DEF DockerfileKept, key
<1> QED
  BY <1>2, <1>3, <1>4

\* and the clone secret is on the source it returns.
LEMMA FinalSourceSecret ==
  ASSUME Background, SourceSoFar, pc = "classify"
  PROVE  SourceSecretKept(Final)
<1> DEFINE ids == {"SourceSecretDropped"}
<1>1. Final.bc = bc /\ BuildOf(Final).source = build.source
  BY FinalFields
<1>2. "WarningsOmitted" \notin ids /\ "SourceSecretDropped" \in ids /\ TypeOK
  BY DEF Background
<1> HIDE DEF ids
<1>3. Raised(Final, "SourceSecretDropped") # {} <=> Tally(Own, "SourceSecretDropped") # 0
  BY <1>2, FinalSays DEF Tally
<1>4. Tally(Own, "SourceSecretDropped") = IF Inert THEN 1 ELSE 0
  BY PassedInOrder DEF SourceSoFar
<1>5. bc.source.git # Nil => build.source.secret = bc.source.sourceSecret
  <2>1. bc.source.git # Nil => Kinds(Source) # {}
    BY DEF Kinds, Source
  <2> QED
    BY <2>1, PassedInOrder DEF SourceSoFar, Source
<1> QED
  BY <1>1, <1>3, <1>4, <1>5 DEF SourceSecretKept, Inert, Source

\* No inline Dockerfile and no clone secret is lost in silence: the first is in an emitted ConfigMap
\* that the Build is annotated with, the second on the source of the Build, or a warning says that
\* it was dropped.
THEOREM SourceLosses == Spec => []SourceLossesReported
<1>1. Init => SourceLossesReported
  BY NoneReplaced DEF SourceLossesReported
<1> DEFINE Known == DockerfileSoFar /\ AccountSoFar /\ SourceSoFar
<1>2. Background /\ Known /\ SourceLossesReported /\ [Next]_vars => SourceLossesReported'
  <2>1. Background /\ Known /\ pc = "classify" => DockerfileKept(Final) /\ SourceSecretKept(Final)
    BY FinalDockerfile, FinalSourceSecret
  <2> QED
    BY <2>1, OneMore DEF SourceLossesReported
<1>3. Spec => []Known
  BY DockerfileAlways, AccountAlways, SourceAlways, PTL
<1> QED
  <2> HIDE DEF Known
  <2> QED
    BY <1>1, <1>2, <1>3, BackgroundAlways, PTL DEF Spec

\* The source of the Build Finish returns is the one the invariant describes.
LEMMA FinalSource ==
  ASSUME Background, SourceSoFar, pc = "classify"
  PROVE  SourceKept(Final)
<1> DEFINE ids == {"NoSource", "ConfigMapMount", "SecretMount"}
<1>1. Final.bc = bc /\ BuildOf(Final).source = build.source
  BY FinalFields
<1>2. "WarningsOmitted" \notin ids /\ TypeOK
  BY DEF Background
<1>3. "NoSource" \in ids /\ "ConfigMapMount" \in ids /\ "SecretMount" \in ids
  OBVIOUS
<1> HIDE DEF ids
<1>4. /\ Raised(Final, "NoSource") # {} <=> Tally(Own, "NoSource") # 0
      /\ Cardinality(Raised(Final, "ConfigMapMount")) = Tally(Own, "ConfigMapMount")
      /\ Cardinality(Raised(Final, "SecretMount")) = Tally(Own, "SecretMount")
  BY <1>2, <1>3, FinalSays DEF Tally
<1> DEFINE kinds == Kinds(bc.source)
           s == build.source
<1>5. /\ Tally(Own, "NoSource") = IF kinds = {} THEN 1 ELSE 0
      /\ kinds = {} => s = Nil
      /\ kinds # {} => /\ kinds = {KindOfSource(s)}
                       /\ s.contextDir = bc.source.contextDir
                       /\ Tally(Own, "ConfigMapMount") = Len(bc.source.configMaps)
                       /\ Tally(Own, "SecretMount") = Len(bc.source.secrets)
  BY PassedInOrder DEF SourceSoFar, Source
<1>6. (kinds = {}) = (Raised(Final, "NoSource") # {})
  BY <1>4, <1>5
<1> HIDE DEF kinds, s
<1>7. KindOfSource(s) = CASE s.type = "Git" -> "git"
                          [] s.type = "Local" -> "binary"
                          [] OTHER -> "images"
  BY Zenon DEF KindOfSource
<1> HIDE DEF kinds, s
<1> QED
  BY <1>1, <1>4, <1>5, <1>6, <1>7 DEF SourceKept, kinds, s

\* A Build has the kind of source its BuildConfig had, with its context directory and a warning
\* for each mounted object; it has none exactly when a warning says so (processSource).
THEOREM SourceAlwaysFaithful == Spec => []SourceFaithful
<1>1. Init => SourceFaithful
  BY NoneReplaced DEF SourceFaithful
<1>2. Background /\ SourceSoFar /\ SourceFaithful /\ [Next]_vars => SourceFaithful'
  <2>1. Background /\ SourceSoFar /\ pc = "classify" => SourceKept(Final)
    BY FinalSource
  <2> QED
    BY <2>1, OneMore DEF SourceFaithful
<1> QED
  BY <1>1, <1>2, SourceAlways, BackgroundAlways, PTL DEF Spec

-----------------------------------------------------------------------------
(* The triggers.                                                           *)

\* The record of the triggers.
TriggerRecord == [k \in DOMAIN bc.triggers |-> sanitizeTrigger(bc.triggers[k])]

\* Each trigger was reported once, and all are in the record.
TriggersSoFar ==
  LET key == OriginalTriggersAnnotation IN
  /\ pc # "idle" /\ pc \notin PastTriggers => Count(Own, DropWarnings) = 0
  /\ pc \in PastTriggers /\ bc.triggers # <<>> =>
       /\ Count(Own, DropWarnings) = Len(bc.triggers)
       /\ key \in DOMAIN build.annotations /\ build.annotations[key] = TriggerRecord

\* One trigger, one warning.
LEMMA TriggersTold ==
  ASSUME TypeOK, bc \in BuildConfigs, Triggers
  PROVE  Count(Own', DropWarnings) = Count(Own, DropWarnings) + Len(bc.triggers)
<1> DEFINE s == bc.triggers
           m == [k \in DOMAIN s |-> TriggerWarning(s[k])]
           n == W("TriggersDropped", <<>>)
           ids == DropWarnings
<1>1. IsList(s)
  BY ListsAssumption
<1>2. Len(s) \in Nat /\ DOMAIN s = 1..Len(s) /\ \A k \in DOMAIN s : m[k].id \in ids
  BY <1>1, ListFacts, TriggerMessage
<1>3. DOMAIN m = DOMAIN s /\ m = [k \in 1..Len(s) |-> m[k]]
  BY <1>2
<1>4. Warn(m \o n) /\ UNCHANGED start
  BY DEF Triggers, Goto, call
<1>5. IsList(n)
  BY ListOfMessages
<1>6. Count(n, ids) = 0
  <2>1. "TriggersDropped" \notin ids
    BY DEF DropWarnings
  <2> HIDE DEF ids
  <2> QED
    BY <2>1, LedgerOne
<1> HIDE DEF m, n, s, ids
<1>7. IsList(m) /\ Len(m) = Len(s)
  BY <1>2, <1>3, ListIntro
<1>8. Count(m, ids) = Len(s)
  BY <1>2, <1>3, <1>7, LedgerAll
<1>9. IsList(m \o n)
  BY <1>5, <1>7, ListConcat
<1>10. Count(m \o n, ids) = Count(m, ids) + Count(n, ids)
  BY <1>5, <1>7, LedgerAdds
<1>11. Count(Own', ids) = Count(Own, ids) + Count(m \o n, ids)
  BY <1>4, <1>9, Tell
<1>12. Count(Own', ids) = Count(Own, ids) + Len(s)
  BY <1>2, <1>6, <1>8, <1>10, <1>11
<1> QED
  BY <1>12 DEF s, ids

\* Every step of the system keeps it.
LEMMA StepTriggers ==
  ASSUME Background, TriggersSoFar, [Next]_vars
  PROVE  TriggersSoFar'
<1> DEFINE key == OriginalTriggersAnnotation
           count == Count(Own, DropWarnings)
<1>1. TypeOK
  BY DEF Background
<1>2. CASE \E b \in BuildConfigs : Begin(b)
  <2>1. PICK b \in BuildConfigs : Begin(b)
    BY <1>2
  <2>2. "RenamedBuild" \notin DropWarnings
    BY DEF DropWarnings
  <2>3. Count(Own', DropWarnings) = 0
    BY <1>1, <2>1, <2>2, BeginsUntold
  <2>4. count' = Count(Own', DropWarnings)
    BY DEF DropWarnings
  <2>5. pc' = "strategy"
    BY <2>1 DEF Begin
  <2> QED
    BY <2>3, <2>4, <2>5, NothingPassed DEF TriggersSoFar
<1>3. CASE Goes /\ Step
  <2>1. UNCHANGED bc /\ DOMAIN build = Fields
    BY <1>3, Untouched
  <2>2. pc' \in PastTriggers <=> pc \in PastTriggers \/ pc = "triggers"
    BY <1>3, Passing DEF Goes
  <2>3. pc # "idle" /\ TriggerRecord' = TriggerRecord
    BY <1>3, <2>1 DEF Goes, Running, TriggerRecord
  <2>4. count' = Count(Own', DropWarnings)
    BY DEF DropWarnings
  <2>5. CASE pc # "triggers"
    <3>1. count' = count
      <4>1. \A id \in DropWarnings : ~MayRaise(pc, id)
        BY <2>5 DEF MayRaise, DropWarnings
      <4>2. Count(Own', DropWarnings) = Count(Own, DropWarnings)
        BY <1>1, <1>3, <4>1, Untold
      <4> QED
        BY <2>4, <4>2
    <3>2. /\ key \in DOMAIN build'.annotations <=> key \in DOMAIN build.annotations
          /\ key \in DOMAIN build.annotations => build'.annotations[key] = build.annotations[key]
      BY <1>3, <2>5, Annotates, DistinctAnnotations
    <3> HIDE DEF key, count
    <3> QED
      BY <2>1, <2>2, <2>3, <2>5, <3>1, <3>2 DEF TriggersSoFar, key, count
  <2>6. CASE pc = "triggers"
    <3>1. bc \in BuildConfigs /\ pc \notin PastTriggers
      BY <1>1, <2>3, <2>6, PassedInOrder DEF TypeOK
    <3>2. CASE NoTriggers
      <4>1. bc.triggers = <<>> /\ pc' = "chain"
        BY <3>2 DEF NoTriggers, Goto
      <4> HIDE DEF count
      <4>2. pc' \in PastTriggers
        BY <2>2, <2>6
      <4> QED
        BY <2>1, <2>3, <4>1, <4>2 DEF TriggersSoFar
    <3>3. CASE Triggers
      <4>1. build' = Annotate(build, key, TriggerRecord)
        BY <3>3 DEF Triggers, TriggerRecord
      <4>2. key \in DOMAIN build'.annotations /\ build'.annotations[key] = TriggerRecord
        BY <2>1, <4>1, AnnotationSet
      <4>3. Count(Own', DropWarnings) = Count(Own, DropWarnings) + Len(bc.triggers)
        BY <1>1, <3>1, <3>3, TriggersTold
      <4>4. count = 0 /\ Len(bc.triggers) \in Nat
        BY <2>3, <3>1, ListsAssumption, ListFacts DEF TriggersSoFar
      <4>5. count' = Len(bc.triggers)
        BY <2>4, <4>3, <4>4
      <4>6. pc' \in PastTriggers
        BY <2>2, <2>6
      <4> HIDE DEF key, count
      <4> QED
        BY <2>1, <2>3, <4>2, <4>5, <4>6 DEF TriggersSoFar, key, count
    <3> QED
      BY <1>3, <2>6, <3>2, <3>3, StepAt
  <2> QED
    BY <2>5, <2>6
<1>4. CASE pc' = "idle"
  BY <1>4, NothingPassed DEF TriggersSoFar
<1>5. CASE UNCHANGED vars
  BY <1>5 DEF vars, TriggersSoFar, Own, OwnWarnings, TriggerRecord, DropWarnings
<1> QED
  BY <1>1, <1>2, <1>3, <1>4, <1>5, NextCases

\* The record keeps the triggers in their places, and no inline secret or last image.
LEMMA RecordSanitized ==
  ASSUME bc \in BuildConfigs
  PROVE  /\ Len(TriggerRecord) = Len(bc.triggers)
         /\ DOMAIN TriggerRecord = DOMAIN bc.triggers
         /\ \A k \in DOMAIN TriggerRecord :
              /\ TriggerRecord[k].type = bc.triggers[k].type
              /\ "secret" \notin DOMAIN TriggerRecord[k]
              /\ TriggerRecord[k].imageChange # Nil =>
                   "lastTriggeredImageID" \notin DOMAIN TriggerRecord[k].imageChange
<1>1. IsList(bc.triggers) /\ Len(bc.triggers) \in Nat /\ DOMAIN bc.triggers = 1..Len(bc.triggers)
  BY ListsAssumption, ListFacts
<1>2. DOMAIN TriggerRecord = 1..Len(bc.triggers)
      /\ TriggerRecord = [k \in 1..Len(bc.triggers) |-> TriggerRecord[k]]
      /\ \A k \in 1..Len(bc.triggers) : TriggerRecord[k] = sanitizeTrigger(bc.triggers[k])
  BY <1>1 DEF TriggerRecord
<1>3. Len(TriggerRecord) = Len(bc.triggers)
  BY <1>1, <1>2, ListIntro
<1>4. ASSUME NEW trigger
      PROVE  /\ sanitizeTrigger(trigger).type = trigger.type
             /\ "secret" \notin DOMAIN sanitizeTrigger(trigger)
             /\ sanitizeTrigger(trigger).imageChange # Nil =>
                  "lastTriggeredImageID" \notin DOMAIN sanitizeTrigger(trigger).imageChange
  BY DEF sanitizeTrigger
<1> QED
  BY <1>1, <1>2, <1>3, <1>4

\* So it holds throughout.
LEMMA TriggersAlways == Spec => []TriggersSoFar
<1>1. Init => TriggersSoFar
  BY NothingPassed DEF Init, TriggersSoFar
<1>2. Background /\ TriggersSoFar /\ [Next]_vars => TriggersSoFar'
  BY StepTriggers
<1> QED
  BY <1>1, <1>2, BackgroundAlways, PTL DEF Spec

\* What Finish returns has the record of the triggers, and the warnings.
LEMMA FinalTriggers ==
  ASSUME Background, TriggersSoFar, pc = "classify", bc.triggers # <<>>
  PROVE  TriggersKept(Final)
<1> DEFINE key == OriginalTriggersAnnotation
<1>1. Final.bc = bc
  BY FinalFields
<1>2. /\ Count(Own, DropWarnings) = Len(bc.triggers)
      /\ key \in DOMAIN build.annotations /\ build.annotations[key] = TriggerRecord
  BY PassedInOrder DEF TriggersSoFar
<1>3. Annotations(Final)[key] = TriggerRecord
  BY <1>2, FinalAnnotations, DistinctAnnotations
<1>4. Cardinality(At(Final.recorded, DropWarnings)) = Len(bc.triggers)
  <2>1. "WarningsOmitted" \notin DropWarnings /\ TypeOK
    BY DEF DropWarnings, Background
  <2> QED
    BY <1>2, <2>1, FinalSays
<1>5. bc \in BuildConfigs
  BY DEF Background, TypeOK
<1> HIDE DEF key
<1> QED
  BY <1>1, <1>3, <1>4, <1>5, RecordSanitized DEF TriggersKept, key

\* For any list of triggers: one warning for each, whichever kind it is, and a record on the Build
\* that keeps each in its place, without inline webhook secrets and last triggered images.
THEOREM TriggersReported == Spec => []TriggersAccounted
<1>1. Init => TriggersAccounted
  BY NoneReplaced DEF TriggersAccounted
<1>2. Background /\ TriggersSoFar /\ TriggersAccounted /\ [Next]_vars => TriggersAccounted'
  <2>1. Background /\ TriggersSoFar /\ pc = "classify" /\ Final.bc.triggers # <<>>
          => TriggersKept(Final)
    BY FinalTriggers, FinalFields
  <2> QED
    BY <2>1, OneMore DEF TriggersAccounted
<1> QED
  BY <1>1, <1>2, TriggersAlways, BackgroundAlways, PTL DEF Spec

-----------------------------------------------------------------------------
(* The registries.                                                         *)

\* A list of params without the one that names the insecure registries.
Spares(ps) == IsList(ps) /\ \A p \in ToSet(ps) : p.name # "registries-insecure"

\* How such lists are put together.
LEMMA SpareRules ==
  /\ Spares(<<>>)
  /\ \A name, value : IsList(Param(name, value))
  /\ \A name, value : ToSet(Param(name, value)) = {[name |-> name, value |-> value]}
  /\ \A name, value : name # "registries-insecure" => Spares(Param(name, value))
  /\ \A condition, s : Spares(s) => Spares(When(condition, s))
  /\ \A s, t : Spares(s) /\ Spares(t) => Spares(s \o t)
<1>1. Spares(<<>>)
  BY ListOfMessages DEF Spares, ToSet
<1>2. ASSUME NEW name, NEW value
      PROVE  /\ IsList(Param(name, value))
             /\ ToSet(Param(name, value)) = {[name |-> name, value |-> value]}
             /\ name # "registries-insecure" => Spares(Param(name, value))
  <2>1. ToSet(Param(name, value)) = {[name |-> name, value |-> value]}
    BY DEF Param, ToSet
  <2>2. IsList(Param(name, value))
    BY <2>1 DEF Param, IsList
  <2> QED
    BY <2>1, <2>2 DEF Spares
<1>3. ASSUME NEW condition, NEW s, Spares(s) PROVE Spares(When(condition, s))
  BY <1>1, <1>3 DEF When
<1>4. ASSUME NEW s, NEW t, Spares(s), Spares(t) PROVE Spares(s \o t)
  <2>1. IsList(s \o t) /\ ToSet(s \o t) = ToSet(s) \union ToSet(t)
    BY <1>4, ToSetConcat DEF Spares
  <2> QED
    BY <1>4, <2>1 DEF Spares
<1> QED
  BY <1>1, <1>2, <1>3, <1>4

\* The steps before the registries give params, and never that one.
LEMMA ParamsSpared ==
  ASSUME Background, Goes, Step, pc # "registries"
  PROVE  build'.params = build.params \/ \E ps : Spares(ps) /\ build'.params = build.params \o ps
<1>1. \A ps : NoRegistries(ps) => Spares(ps)
  BY DEF NoRegistries, RegistryNames, Spares
<1> QED
  BY <1>1, Untouched, ParamsGiven

\* The Build is given the param that names the insecure registries.
GivenInsecure(b) == \E p \in ToSet(b.params) : p.name = "registries-insecure"

\* A push is marked insecure by the registries step alone, in the way the strategy reads.
InsecureSoFar ==
  pc # "idle" =>
    /\ IsList(build.params)
    /\ pc \notin PastRegistries => Spares(build.params) /\ build.insecure = FALSE
    /\ pc \in PastRegistries =>
         /\ build.insecure = (ShipwrightPush(build) /\ PushesInsecurely(build))
         /\ GivenInsecure(build) <=> ~ShipwrightPush(build) /\ opts.insecure # <<>>

\* Every step of the system keeps it.
LEMMA StepInsecure ==
  ASSUME Background, InsecureSoFar, [Next]_vars
  PROVE  InsecureSoFar'
<1>1. TypeOK
  BY DEF Background
<1>2. CASE \E b \in BuildConfigs : Begin(b)
  <2>1. build'.params = <<>> /\ build'.insecure = FALSE /\ pc' = "strategy"
    BY <1>2 DEF Begin, Skeleton
  <2>2. Spares(<<>>) /\ IsList(<<>>)
    BY SpareRules, ListOfMessages
  <2> QED
    BY <2>1, <2>2, NothingPassed DEF InsecureSoFar
<1>3. CASE Goes /\ Step
  <2>1. UNCHANGED <<bc, opts>> /\ DOMAIN build = Fields
        /\ \A field \in Fields : ~MaySet(pc, field) => build'[field] = build[field]
    BY <1>3, Untouched
  <2>2. pc' \in PastRegistries <=> pc \in PastRegistries \/ pc = "registries"
    BY <1>3, Passing DEF Goes
  <2>3. pc # "idle" /\ IsList(build.params)
    BY <1>3 DEF Goes, Running, InsecureSoFar
  <2>4. CASE pc # "registries"
    <3>1. build'.insecure = build.insecure
      <4>1. ~MaySet(pc, "insecure") /\ "insecure" \in Fields
        BY <2>4 DEF MaySet, Fields
      <4> QED
        BY <2>1, <4>1
    <3>2. CASE pc \notin PastRegistries
      <4>1. Spares(build.params) /\ build.insecure = FALSE
        BY <2>3, <3>2 DEF InsecureSoFar
      <4>2. Spares(build'.params)
        BY <1>3, <2>4, <4>1, ParamsSpared, SpareRules
      <4>3. Spares(build.params)' /\ IsList(build.params)'
        BY <4>2 DEF Spares
      <4> QED
        BY <2>2, <2>4, <3>1, <3>2, <4>1, <4>3 DEF InsecureSoFar
    <3>3. CASE pc \in PastRegistries
      <4>1. ~MaySet(pc, "params") /\ ~MaySet(pc, "strategy") /\ ~MaySet(pc, "image")
            /\ "params" \in Fields /\ "strategy" \in Fields /\ "image" \in Fields
        BY <3>3 DEF PastRegistries, PastTriggers, PastChain, PastResources, MaySet, Fields
      <4>2. build'.params = build.params /\ build'.strategy = build.strategy
            /\ build'.image = build.image
        BY <2>1, <4>1
      <4>3. ShipwrightPush(build)' = ShipwrightPush(build)
            /\ PushesInsecurely(build)' = PushesInsecurely(build)
            /\ GivenInsecure(build)' = GivenInsecure(build)
        BY <2>1, <4>2 DEF ShipwrightPush, PushesInsecurely, GivenInsecure
      <4> QED
        BY <2>1, <2>2, <2>3, <3>1, <3>3, <4>2, <4>3 DEF InsecureSoFar
    <3> QED
      BY <3>2, <3>3
  <2>5. CASE pc = "registries"
    <3> DEFINE push == ShipwrightPush(build)
               s == RegistryParam("registries-search", opts.search)
               t == RegistryParam("registries-insecure", IF push THEN <<>> ELSE opts.insecure)
               v == RegistryParam("registries-block", opts.block)
    <3>1. pc \notin PastRegistries
      BY <2>5, PassedInOrder
    <3>2. Spares(build.params)
      BY <2>3, <3>1 DEF InsecureSoFar
    <3>3. addRegistries
      BY <1>3, <2>5, StepAt
    <3>4. /\ build'.params = build.params \o ((s \o t) \o v)
          /\ build'.insecure = (push /\ PushesInsecurely(build))
      BY <2>1, <3>3 DEF addRegistries, Settle, WithParams, RegistryParams, Fields
    <3>5. ShipwrightPush(build)' = push /\ PushesInsecurely(build)' = PushesInsecurely(build)
      <4>1. build'.strategy = build.strategy /\ build'.image = build.image
        BY <2>1, <2>5 DEF MaySet, Fields
      <4> QED
        BY <2>1, <4>1 DEF ShipwrightPush, PushesInsecurely
    <3>6. Spares(s) /\ Spares(v)
      BY SpareRules DEF RegistryParam
    <3>7. /\ IsList(t)
          /\ (\E p \in ToSet(t) : p.name = "registries-insecure") <=> ~push /\ opts.insecure # <<>>
      <4>1. CASE ~push /\ opts.insecure # <<>>
        <5>1. t = Param("registries-insecure", opts.insecure)
          BY <4>1 DEF RegistryParam, When
        <5>2. IsList(Param("registries-insecure", opts.insecure))
              /\ ToSet(Param("registries-insecure", opts.insecure))
                   = {[name |-> "registries-insecure", value |-> opts.insecure]}
          BY SpareRules
        <5>3. [name |-> "registries-insecure", value |-> opts.insecure].name = "registries-insecure"
          OBVIOUS
        <5>4. \E p \in ToSet(Param("registries-insecure", opts.insecure)) :
                p.name = "registries-insecure"
          BY <5>2, <5>3, Zenon
        <5> HIDE DEF t
        <5>5. IsList(t) /\ \E p \in ToSet(t) : p.name = "registries-insecure"
          BY <5>1, <5>2, <5>4, Zenon
        <5> QED
          BY <4>1, <5>5
      <4>2. CASE push \/ opts.insecure = <<>>
        <5>1. t = <<>>
          BY <4>2 DEF RegistryParam, When
        <5>2. IsList(<<>>) /\ ToSet(<<>>) = {}
          BY ListOfMessages DEF ToSet
        <5> HIDE DEF t
        <5> QED
          BY <4>2, <5>1, <5>2
      <4> QED
        BY <4>1, <4>2
    <3> HIDE DEF s, t, v, push
    <3>8. IsList(s \o t) /\ ToSet(s \o t) = ToSet(s) \union ToSet(t)
      BY <3>6, <3>7, ToSetConcat DEF Spares
    <3> DEFINE u == s \o t
    <3>9. IsList(u \o v) /\ ToSet(u \o v) = ToSet(u) \union ToSet(v)
      <4>1. IsList(u) /\ IsList(v)
        BY <3>6, <3>8 DEF Spares
      <4> HIDE DEF u
      <4> QED
        BY <4>1, ToSetConcat
    <3> DEFINE w == u \o v
    <3>10. /\ build'.params = build.params \o w
           /\ ToSet(w) = ToSet(s) \union ToSet(t) \union ToSet(v)
           /\ IsList(w)
      BY <3>4, <3>8, <3>9
    <3> HIDE DEF u, w
    <3>11. /\ IsList(build'.params)
           /\ ToSet(build'.params) = ToSet(build.params) \union ToSet(w)
      BY <2>3, <3>10, ToSetConcat
    <3>12. (\E p \in ToSet(build'.params) : p.name = "registries-insecure")
             <=> ~push /\ opts.insecure # <<>>
      BY <3>2, <3>6, <3>7, <3>10, <3>11 DEF Spares
    <3>13. GivenInsecure(build)' <=> ~push /\ opts.insecure # <<>>
      BY <3>12 DEF GivenInsecure
    <3>14. IsList(build.params)' /\ pc' \in PastRegistries
      BY <2>2, <2>5, <3>11
    <3> QED
      BY <2>1, <3>4, <3>5, <3>13, <3>14 DEF InsecureSoFar
  <2> QED
    BY <2>4, <2>5
<1>4. CASE pc' = "idle"
  BY <1>4 DEF InsecureSoFar
<1>5. CASE UNCHANGED vars
  BY <1>5 DEF vars, InsecureSoFar, ShipwrightPush, PushesInsecurely, GivenInsecure, Spares
<1> QED
  BY <1>1, <1>2, <1>3, <1>4, <1>5, NextCases

\* So it holds throughout.
LEMMA InsecureAlways == Spec => []InsecureSoFar
<1>1. Init => InsecureSoFar
  BY NothingPassed DEF Init, InsecureSoFar
<1>2. Background /\ InsecureSoFar /\ [Next]_vars => InsecureSoFar'
  BY StepInsecure
<1> QED
  BY <1>1, <1>2, BackgroundAlways, PTL DEF Spec

\* The Build Finish returns is marked as the registries step marked it.
LEMMA FinalInsecure ==
  ASSUME Background, InsecureSoFar, pc = "classify"
  PROVE  InsecureMarked(Final)
<1> DEFINE built == BuildOf(Final)
           param == \E k \in DOMAIN built.params : built.params[k].name = "registries-insecure"
           listed == \E k \in DOMAIN opts.insecure :
                       imageRegistryHost(built.image) = <<opts.insecure[k]>>
<1>1. /\ built.params = build.params /\ built.image = build.image
      /\ built.insecure = build.insecure /\ built.strategy = build.strategy
  BY FinalFields
<1> HIDE DEF built
<1>2. /\ build.insecure = (ShipwrightPush(build) /\ PushesInsecurely(build))
      /\ GivenInsecure(build) <=> ~ShipwrightPush(build) /\ opts.insecure # <<>>
  BY PassedInOrder DEF InsecureSoFar
<1>3. param <=> GivenInsecure(build)
  BY <1>1 DEF GivenInsecure, ToSet
<1>4. listed <=> PushesInsecurely(build)
  BY <1>1 DEF PushesInsecurely
<1>5. listed => opts.insecure # <<>>
  OBVIOUS
<1>6. ShipwrightPush(build) <=> built.strategy = "source-to-image"
  BY <1>1 DEF ShipwrightPush
<1> HIDE DEF param, listed
<1>7. IF built.strategy = "source-to-image" THEN ~param /\ built.insecure = listed
      ELSE ~built.insecure /\ (listed => param)
  <2>1. CASE built.strategy = "source-to-image"
    <3>1. listed \in BOOLEAN /\ PushesInsecurely(build) \in BOOLEAN
      BY DEF listed, PushesInsecurely
    <3>2. listed = PushesInsecurely(build)
      BY <1>4, <3>1
    <3>3. built.insecure = listed
      BY <1>1, <1>2, <1>6, <2>1, <3>1, <3>2
    <3> QED
      BY <1>2, <1>3, <1>6, <2>1, <3>3
  <2>2. CASE built.strategy # "source-to-image"
    <3>1. ~built.insecure
      BY <1>1, <1>2, <1>6, <2>2
    <3> QED
      BY <1>2, <1>3, <1>5, <1>6, <2>2, <3>1
  <2> QED
    BY <2>1, <2>2
<1> QED
  BY <1>7 DEF InsecureMarked, built, param, listed

\* A push to a registry listed in --insecure-registries is marked insecure in the way the strategy
\* the Build ended with reads it, and in no other, and source-to-image is never given the param it
\* does not declare: whatever the type of the BuildConfig and the strategy override.
THEOREM InsecurePushesRouted == Spec => []InsecureRouted
<1>1. Init => InsecureRouted
  BY NoneReplaced DEF InsecureRouted
<1>2. Background /\ InsecureSoFar /\ InsecureRouted /\ [Next]_vars => InsecureRouted'
  <2> SUFFICES ASSUME Background, InsecureSoFar, InsecureRouted, [Next]_vars
               PROVE  InsecureRouted'
    OBVIOUS
  <2>1. pc = "classify" => InsecureMarked(Final)
    BY FinalInsecure
  <2>2. UNCHANGED opts
    BY OneMore
  <2>3. ASSUME NEW r, InsecureMarked(r) PROVE InsecureMarked(r)'
    BY <2>2, <2>3 DEF InsecureMarked
  <2>4. \A r \in Replaced' : InsecureMarked(r)
    BY <2>1, OneMore DEF InsecureRouted
  <2> QED
    BY <2>3, <2>4 DEF InsecureRouted
<1> QED
  BY <1>1, <1>2, InsecureAlways, BackgroundAlways, PTL DEF Spec

-----------------------------------------------------------------------------
(* The images a Build builds on and pushes.                                *)

\* The param for the image the strategy builds on.
FromGiven ==
  \E p \in ToSet(build.params) : p.name = FromParam(bc) /\ p.value = Resolve(bc, FromOf(bc)).image

\* The Build has the image its strategy builds on, and pushes the image it is to push.
ImagesSoFar ==
  /\ pc \notin {"idle", "strategy"} /\ HasStrategy(bc) /\ NamesImage(FromOf(bc)) => FromGiven
  /\ pc \in PastOutput => build.image = PushedImage

\* Params are only added.
LEMMA ParamsAdded ==
  ASSUME Background, Goes, Step, IsList(build.params)
  PROVE  ToSet(build.params) \subseteq ToSet(build'.params)
<1>1. CASE pc # "registries"
  <2>1. build'.params = build.params \/ \E ps : Spares(ps) /\ build'.params = build.params \o ps
    BY <1>1, ParamsSpared
  <2>2. ASSUME NEW ps, Spares(ps), build'.params = build.params \o ps
        PROVE  ToSet(build.params) \subseteq ToSet(build'.params)
    <3>1. IsList(ps)
      BY <2>2 DEF Spares
    <3>2. ToSet(build.params \o ps) = ToSet(build.params) \union ToSet(ps)
      BY <3>1, ToSetConcat
    <3> QED
      BY <2>2, <3>2
  <2> QED
    BY <2>1, <2>2
<1>2. CASE pc = "registries"
  <2> DEFINE ps == RegistryParams(build)
  <2>1. addRegistries /\ DOMAIN build = Fields
    BY <1>2, StepAt, Untouched
  <2>2. build'.params = build.params \o ps
    BY <2>1 DEF addRegistries, Settle, WithParams, Fields
  <2>3. IsList(ps)
    <3>1. \A name, list : IsList(RegistryParam(name, list))
      BY SpareRules, ListOfMessages DEF RegistryParam
    <3> QED
      BY <3>1, ListConcat DEF RegistryParams
  <2> HIDE DEF ps
  <2> QED
    BY <2>2, <2>3, ToSetConcat
<1> QED
  BY <1>1, <1>2

\* What the first of four lists holds, all of them hold.
LEMMA FirstOfFour ==
  ASSUME NEW s, NEW t, NEW u, NEW v, IsList(s), IsList(t), IsList(u), IsList(v)
  PROVE  IsList(s \o t \o u \o v) /\ ToSet(s) \subseteq ToSet(s \o t \o u \o v)
<1>1. IsList(s \o t) /\ ToSet(s) \subseteq ToSet(s \o t)
  BY ToSetConcat
<1> DEFINE st == s \o t
<1> HIDE DEF st
<1>2. IsList(st \o u) /\ ToSet(st) \subseteq ToSet(st \o u)
  BY <1>1, ToSetConcat DEF st
<1> DEFINE stu == st \o u
<1> HIDE DEF stu
<1>3. IsList(stu \o v) /\ ToSet(stu) \subseteq ToSet(stu \o v)
  BY <1>2, ToSetConcat DEF stu
<1> QED
  BY <1>1, <1>2, <1>3 DEF st, stu

\* The strategy step gives the param, when the strategy names an image.
LEMMA FromPut ==
  ASSUME Background, IsList(build.params), pc = "strategy", Goes, Step,
         HasStrategy(bc), NamesImage(FromOf(bc))
  PROVE  FromGiven'
<1>1. DOMAIN build = Fields /\ UNCHANGED <<bc, opts>>
  BY Untouched
<1>2. ASSUME NEW ref, NEW name, NamesImage(ref), ref = FromOf(bc), name = FromParam(bc),
             NEW t, NEW u, NEW v, Spares(t), Spares(u), Spares(v),
             build'.params = build.params \o (ImageParam(name, ref) \o t \o u \o v)
      PROVE  FromGiven'
  <2> DEFINE s == ImageParam(name, ref)
             image == Resolve(bc, ref).image
             p == [name |-> name, value |-> image]
  <2>1. s = Param(name, image)
    BY <1>2 DEF ImageParam, When
  <2>2. IsList(s) /\ p \in ToSet(s)
    BY <2>1, SpareRules
  <2>3. p.name = name /\ p.value = image
    OBVIOUS
  <2> HIDE DEF s, p
  <2> DEFINE w == s \o t \o u \o v
  <2>4. IsList(w) /\ p \in ToSet(w)
    BY <1>2, <2>2, FirstOfFour DEF Spares
  <2>5. build'.params = build.params \o w
    BY <1>2 DEF s
  <2> HIDE DEF w
  <2>6. p \in ToSet(build'.params)
    BY <2>4, <2>5, ToSetConcat
  <2>7. FromParam(bc)' = FromParam(bc) /\ Resolve(bc, FromOf(bc))' = Resolve(bc, FromOf(bc))
    BY <1>1 DEF FromParam, FromOf, Resolve, NamespaceOf
  <2>8. p.name = FromParam(bc)' /\ p.value = Resolve(bc, FromOf(bc)).image'
    BY <1>2, <2>3, <2>7
  <2> HIDE DEF image
  <2> QED
    BY <2>6, <2>8 DEF FromGiven
<1>3. \A name, on, value : name # "registries-insecure" => Spares(SwitchParam(name, on, value))
  BY SpareRules DEF SwitchParam
<1>4. CASE DockerStrategy
  <2>1. /\ build'.params = build.params \o DockerParams(Docker)
        /\ bc.strategy.type = "Docker"
    BY <1>1, <1>4 DEF DockerStrategy, WithParams, Named, Fields
  <2>2. FromOf(bc) = Docker.from /\ FromParam(bc) = "runtime-stage-from"
    BY <2>1 DEF FromOf, FromParam, Docker
  <2> DEFINE t == SwitchParam("no-cache", Docker.noCache, <<"true">>)
             u == SwitchParam("pull", Docker.forcePull, <<"always">>)
             v == SwitchParam("dockerfile", Docker.dockerfilePath # Blank,
                              <<Docker.dockerfilePath>>)
  <2>3. Spares(t) /\ Spares(u) /\ Spares(v)
    BY <1>3
  <2>4. build'.params
          = build.params \o (ImageParam("runtime-stage-from", Docker.from) \o t \o u \o v)
    BY <2>1 DEF DockerParams
  <2> HIDE DEF FromOf, FromParam, t, u, v
  <2> QED
    BY <1>2, <2>2, <2>3, <2>4
<1>5. CASE SourceStrategy
  <2>1. /\ build'.params = build.params \o S2IParams(S2I)
        /\ bc.strategy.type = "Source"
    BY <1>1, <1>5 DEF SourceStrategy, WithParams, Named, Fields
  <2>2. FromOf(bc) = S2IFrom /\ FromParam(bc) = "builder-image"
    BY <2>1 DEF FromOf, FromParam, S2IFrom, S2I
  <2> DEFINE t == SwitchParam("scripts-url", S2I.scripts # Blank, <<S2I.scripts>>)
             u == SwitchParam("incremental", S2I.incremental, <<"true">>)
             v == SwitchParam("pull-policy", S2I.forcePull, <<"always">>)
  <2>3. Spares(t) /\ Spares(u) /\ Spares(v)
    BY <1>3
  <2>4. build'.params = build.params \o (ImageParam("builder-image", S2IFrom) \o t \o u \o v)
    BY <2>1 DEF S2IParams
  <2> HIDE DEF FromOf, FromParam, S2IFrom, t, u, v
  <2> QED
    BY <1>2, <2>2, <2>3, <2>4
<1>6. CASE BareDockerStrategy \/ BareSourceStrategy
  BY <1>6 DEF BareDockerStrategy, BareSourceStrategy, HasStrategy, Docker, S2I
<1> QED
  BY <1>4, <1>5, <1>6, StepAt

\* Every step of the system keeps it.
LEMMA StepImages ==
  ASSUME Background, InsecureSoFar, ImagesSoFar, [Next]_vars
  PROVE  ImagesSoFar'
<1>1. TypeOK
  BY DEF Background
<1>2. CASE \E b \in BuildConfigs : Begin(b)
  <2>1. pc' = "strategy"
    BY <1>2 DEF Begin
  <2> QED
    BY <2>1, NothingPassed DEF ImagesSoFar
<1>3. CASE Goes /\ Step
  <2>1. UNCHANGED <<bc, opts>> /\ DOMAIN build = Fields
        /\ \A field \in Fields : ~MaySet(pc, field) => build'[field] = build[field]
    BY <1>3, Untouched
  <2>2. (pc' \in PastOutput <=> pc \in PastOutput \/ pc = "output") /\ pc # "idle"
    BY <1>3, Passing DEF Goes, Running
  <2>3. /\ HasStrategy(bc)' = HasStrategy(bc) /\ NamesImage(FromOf(bc))' = NamesImage(FromOf(bc))
        /\ FromParam(bc)' = FromParam(bc) /\ Resolve(bc, FromOf(bc))' = Resolve(bc, FromOf(bc))
        /\ PushedImage' = PushedImage
    BY <2>1 DEF HasStrategy, FromOf, FromParam, Resolve, NamespaceOf, PushedImage, To, NamesImage
  <2>4. IsList(build.params)
    BY <2>2 DEF InsecureSoFar
  <2>5. HasStrategy(bc) /\ NamesImage(FromOf(bc)) => FromGiven'
    <3> SUFFICES ASSUME HasStrategy(bc), NamesImage(FromOf(bc)) PROVE FromGiven'
      OBVIOUS
    <3>1. CASE pc = "strategy"
      BY <1>3, <2>4, <3>1, FromPut
    <3>2. CASE pc # "strategy"
      <4>1. FromGiven
        BY <2>2, <3>2 DEF ImagesSoFar
      <4>2. ToSet(build.params) \subseteq ToSet(build'.params)
        BY <1>3, <2>4, ParamsAdded
      <4> HIDE DEF FromOf, FromParam, Resolve
      <4> QED
        BY <2>3, <4>1, <4>2 DEF FromGiven
    <3> QED
      BY <3>1, <3>2
  <2>6. pc' \in PastOutput => build'.image = PushedImage
    <3>1. CASE pc = "output"
      <4>1. Output
        BY <1>3, <3>1, StepAt
      <4> QED
        BY <2>1, <4>1 DEF Output, Fields
    <3>2. CASE pc # "output"
      <4>1. ~MaySet(pc, "image") /\ "image" \in Fields
        BY <3>2 DEF MaySet, Fields
      <4> QED
        BY <2>1, <2>2, <3>2, <4>1 DEF ImagesSoFar
    <3> QED
      BY <3>1, <3>2
  <2> HIDE DEF HasStrategy, NamesImage, FromOf, PushedImage, FromGiven
  <2> QED
    BY <2>3, <2>5, <2>6 DEF ImagesSoFar
<1>4. CASE pc' = "idle"
  BY <1>4, NothingPassed DEF ImagesSoFar
<1>5. CASE UNCHANGED vars
  <2>1. /\ HasStrategy(bc)' = HasStrategy(bc) /\ NamesImage(FromOf(bc))' = NamesImage(FromOf(bc))
        /\ FromGiven' = FromGiven /\ PushedImage' = PushedImage
    BY <1>5 DEF vars, HasStrategy, FromOf, FromParam, FromGiven, Resolve, NamespaceOf, PushedImage,
                To, NamesImage
  <2> HIDE DEF HasStrategy, NamesImage, FromOf, PushedImage, FromGiven
  <2> QED
    BY <1>5, <2>1 DEF vars, ImagesSoFar
<1> QED
  BY <1>1, <1>2, <1>3, <1>4, <1>5, NextCases

\* So it holds throughout.
LEMMA ImagesAlways == Spec => []ImagesSoFar
<1>1. Init => ImagesSoFar
  BY NothingPassed DEF Init, ImagesSoFar
<1>2. Background /\ InsecureSoFar /\ ImagesSoFar /\ [Next]_vars => ImagesSoFar'
  BY StepImages
<1> QED
  BY <1>1, <1>2, BackgroundAlways, InsecureAlways, PTL DEF Spec

\* A fallback is never silent: a consumer's image that no flag rewrote, and that still points
\* into the internal registry of the source cluster, comes with a warning.
THEOREM FallbackWarned ==
  ASSUME NEW ns, NEW name, NEW flags, NEW kind \in {"ImageStreamTag", "ImageStreamImage"},
         StreamKey(ns, name) \notin DOMAIN flags.imageStreamMapping,
         resolveImageRef(kind, name, ns, flags).image
           = InternalRegistry \o <<"/">> \o StreamKey(ns, name)
  PROVE  resolveImageRef(kind, name, ns, flags).warning = "StreamFallback"
<1>1. resolveImageRef(kind, name, ns, flags) = ResolveStream(ns, name, flags)
  BY DEF resolveImageRef
<1>2. ResolveStream(ns, name, flags).image = StreamImage(ns, name, flags)
  BY DEF ResolveStream, Resolved
<1>3. StreamImage(ns, name, flags) = InternalRegistry \o <<"/">> \o StreamKey(ns, name)
  BY <1>1, <1>2
<1>4. ResolveStream(ns, name, flags).warning = "StreamFallback"
  BY <1>3 DEF ResolveStream, Resolved
<1> QED
  BY <1>1, <1>4

\* The two ends of a chained build name one image: what processOutput makes the producer push
\* for an ImageStreamTag is what resolveImageRef makes the consumer of that tag pull, although
\* they are separate code, whatever the two mappings hold.
THEOREM ChainedImagesAgree ==
  ASSUME NEW ns, NEW name, NEW flags
  PROVE  OutputImage("ImageStreamTag", name, ns, flags)
           = resolveImageRef("ImageStreamTag", OutputTag(name), ns, flags).image
<1> DEFINE tag == OutputTag(name)
<1>1. resolveImageRef("ImageStreamTag", tag, ns, flags).image = StreamImage(ns, tag, flags)
  BY DEF resolveImageRef, ResolveStream, Resolved
<1>2. CASE StreamKey(ns, tag) \in DOMAIN flags.imageStreamMapping
  BY <1>1, <1>2 DEF OutputImage, StreamImage
<1>3. CASE StreamKey(ns, tag) \notin DOMAIN flags.imageStreamMapping
  BY <1>1, <1>3 DEF OutputImage, StreamImage
<1> QED
  BY <1>2, <1>3

\* What a result says of the two ends: the image its Build pushes, and those it builds from.
EndsGiven(r) ==
  LET b == r.bc
      built == BuildOf(r)
  IN  /\ built.image
           = OutputImage(b.output.to.kind, b.output.to.name, NamespaceOf(b, b.output.to), opts)
      /\ HasStrategy(b) /\ NamesImage(FromOf(b)) =>
           \E k \in DOMAIN built.params :
             /\ built.params[k].name = FromParam(b)
             /\ built.params[k].value = Resolve(b, FromOf(b)).image
      /\ Kinds(b.source) = {"images"} => built.source.ref = Resolve(b, ImageOf(b)).image

\* All results say it.
AllEndsGiven == \A r \in Replaced : EndsGiven(r)

\* The one Finish returns does,
LEMMA FinalEnds ==
  ASSUME Background, ImagesSoFar, SourceSoFar, pc = "classify"
  PROVE  EndsGiven(Final)
<1> DEFINE built == BuildOf(Final)
<1>1. /\ Final.bc = bc /\ built.params = build.params /\ built.image = build.image
      /\ built.source = build.source
  BY FinalFields
<1> HIDE DEF built
<1>2. build.image
        = OutputImage(bc.output.to.kind, bc.output.to.name, NamespaceOf(bc, bc.output.to), opts)
  BY PassedInOrder DEF ImagesSoFar, PushedImage, To
<1>3. HasStrategy(bc) /\ NamesImage(FromOf(bc)) =>
        \E k \in DOMAIN build.params :
          /\ build.params[k].name = FromParam(bc)
          /\ build.params[k].value = Resolve(bc, FromOf(bc)).image
  <2>1. HasStrategy(bc) /\ NamesImage(FromOf(bc)) => FromGiven
    BY DEF ImagesSoFar
  <2> QED
    BY <2>1 DEF FromGiven, ToSet
<1>4. Kinds(bc.source) = {"images"} => build.source.ref = Resolve(bc, ImageOf(bc)).image
  <2>1. Kinds(Source) = {"images"} => build.source.ref = Resolve(bc, ImageOf(bc)).image
    BY PassedInOrder DEF SourceSoFar
  <2> QED
    BY <2>1 DEF Source
<1> QED
  BY <1>1, <1>2, <1>3, <1>4, Zenon DEF EndsGiven, built

\* and so do all of them: the flags do not change.
LEMMA EndsAlways == Spec => []AllEndsGiven
<1>1. Init => AllEndsGiven
  BY NoneReplaced DEF AllEndsGiven
<1> DEFINE Known == ImagesSoFar /\ SourceSoFar
<1>2. Background /\ Known /\ AllEndsGiven /\ [Next]_vars => AllEndsGiven'
  <2> SUFFICES ASSUME Background, Known, AllEndsGiven, [Next]_vars
               PROVE  AllEndsGiven'
    OBVIOUS
  <2>1. pc = "classify" => EndsGiven(Final)
    BY FinalEnds
  <2>2. UNCHANGED opts
    BY OneMore
  <2>3. ASSUME NEW r, EndsGiven(r) PROVE EndsGiven(r)'
    BY <2>2, <2>3 DEF EndsGiven, Resolve
  <2>4. \A r \in Replaced' : EndsGiven(r)
    BY <2>1, OneMore DEF AllEndsGiven
  <2> QED
    BY <2>3, <2>4 DEF AllEndsGiven
<1>3. Spec => []Known
  BY ImagesAlways, SourceAlways, PTL
<1> QED
  <2> HIDE DEF Known
  <2> QED
    BY <1>1, <1>2, <1>3, BackgroundAlways, PTL DEF Spec

\* Then what one pushes is what the other builds from.
LEMMA EndsMeet ==
  ASSUME NEW producer, NEW consumer, EndsGiven(producer), EndsGiven(consumer)
  PROVE  Meet(producer, consumer)
<1> DEFINE b == producer.bc
           c == consumer.bc
           image == BuildOf(producer).image
<1>1. ASSUME NEW ref, Pushes(b, c, ref)
      PROVE  Resolve(c, ref).image = image
  <2> DEFINE to == b.output.to
  <2>1. /\ to.kind = "ImageStreamTag" /\ ref.kind = "ImageStreamTag"
        /\ NamespaceOf(c, ref) = NamespaceOf(b, to) /\ ref.name = OutputTag(to.name)
    BY <1>1 DEF Pushes
  <2>2. image = OutputImage(to.kind, to.name, NamespaceOf(b, to), opts)
    BY DEF EndsGiven
  <2> HIDE DEF to, image
  <2> QED
    BY <2>1, <2>2, ChainedImagesAgree DEF Resolve
<1> DEFINE built == BuildOf(consumer)
<1>2. HasStrategy(c) /\ NamesImage(FromOf(c)) =>
        \E k \in DOMAIN built.params :
          /\ built.params[k].name = FromParam(c)
          /\ built.params[k].value = Resolve(c, FromOf(c)).image
  BY DEF EndsGiven
<1>3. Kinds(c.source) = {"images"} => built.source.ref = Resolve(c, ImageOf(c)).image
  BY DEF EndsGiven
<1> HIDE DEF built, image, b, c
<1>4. HasStrategy(c) /\ NamesImage(FromOf(c)) /\ Pushes(b, c, FromOf(c)) =>
        \E k \in DOMAIN built.params :
          built.params[k].name = FromParam(c) /\ built.params[k].value = image
  BY <1>1, <1>2
<1>5. Kinds(c.source) = {"images"} /\ Pushes(b, c, ImageOf(c)) => built.source.ref = image
  BY <1>1, <1>3
<1> QED
  BY <1>4, <1>5, Zenon DEF Meet, built, image, b, c

\* The two ends of a chained build meet, for any two conversions of a Converter and any flags: when
\* one BuildConfig pushes an ImageStreamTag the other builds from, the param or the image source of
\* the second Build is the very image the first one pushes.
THEOREM ChainsMeet == Spec => []ChainedBuildsMeet
<1>1. AllEndsGiven => ChainedBuildsMeet
  BY EndsMeet DEF AllEndsGiven, ChainedBuildsMeet
<1> QED
  BY <1>1, EndsAlways, PTL

-----------------------------------------------------------------------------
(* The volumes.                                                            *)

\* A volume with a name and a source that can be converted.
Usable(volume) == volume.name # Blank /\ Convertible(volume)

\* What it becomes.
VolumeOf(volume) == [name |-> volume.name, type |-> volume.type, source |-> volume.source]

\* vs is what the first n of the given volumes become.
Mounted(given, n, vs) ==
  /\ IsList(vs)
  /\ \A j, k \in DOMAIN vs : vs[j].name = vs[k].name => j = k
  /\ \A j \in DOMAIN vs :
       \E k \in 1..n :
         /\ Usable(given[k]) /\ vs[j] = VolumeOf(given[k])
         /\ \A l \in 1..n : Usable(given[l]) /\ given[l].name = given[k].name => k <= l
  /\ \A k \in 1..n : Usable(given[k]) => \E j \in DOMAIN vs : vs[j].name = given[k].name

\* The next one is usable, and the first of its name,
LEMMA VolumeMounted ==
  ASSUME NEW given, NEW n \in Nat, NEW vs, Mounted(given, n, vs), Usable(given[n + 1]),
         \A j \in DOMAIN vs : vs[j].name # given[n + 1].name
  PROVE  /\ Mounted(given, n + 1, Append(vs, VolumeOf(given[n + 1])))
         /\ Len(Append(vs, VolumeOf(given[n + 1]))) = Len(vs) + 1
<1> DEFINE volume == given[n + 1]
           m == Len(vs)
           ws == Append(vs, VolumeOf(volume))
<1>1. IsList(vs) /\ m \in Nat /\ DOMAIN vs = 1..m
  BY ListFacts DEF Mounted
<1>2. /\ IsList(ws) /\ DOMAIN ws = 1..(m + 1) /\ Len(ws) = m + 1
      /\ \A k \in 1..m : ws[k] = vs[k]
      /\ ws[m + 1] = VolumeOf(volume)
  BY <1>1, ListAppend
<1>3. VolumeOf(volume).name = volume.name
  BY DEF VolumeOf
<1>4. volume = given[n + 1]
  OBVIOUS
<1> HIDE DEF volume, m, ws
<1>5. ASSUME NEW j \in DOMAIN ws, NEW k \in DOMAIN ws, ws[j].name = ws[k].name PROVE j = k
  <2>1. CASE j \in 1..m /\ k \in 1..m
    BY <1>1, <1>2, <1>5, <2>1 DEF Mounted
  <2>2. CASE j = m + 1 /\ k \in 1..m
    BY <1>1, <1>2, <1>3, <1>4, <1>5, <2>2
  <2>3. CASE j \in 1..m /\ k = m + 1
    BY <1>1, <1>2, <1>3, <1>4, <1>5, <2>3
  <2>4. CASE j = m + 1 /\ k = m + 1
    BY <2>4
  <2> QED
    BY <1>1, <1>2, <1>5, <2>1, <2>2, <2>3, <2>4
<1>6. ASSUME NEW j \in DOMAIN ws
      PROVE  \E k \in 1..(n + 1) :
               /\ Usable(given[k]) /\ ws[j] = VolumeOf(given[k])
               /\ \A l \in 1..(n + 1) : Usable(given[l]) /\ given[l].name = given[k].name => k <= l
  <2>1. CASE j \in 1..m
    <3>1. PICK k \in 1..n :
            /\ Usable(given[k]) /\ vs[j] = VolumeOf(given[k])
            /\ \A l \in 1..n : Usable(given[l]) /\ given[l].name = given[k].name => k <= l
      BY <1>1, <2>1 DEF Mounted
    <3>2. k \in 1..(n + 1) /\ \A l \in 1..(n + 1) : l \in 1..n \/ k <= l
      BY <3>1
    <3>3. ws[j] = VolumeOf(given[k])
      BY <1>2, <2>1, <3>1
    <3> QED
      BY <3>1, <3>2, <3>3
  <2>2. CASE j = m + 1
    <3>1. n + 1 \in 1..(n + 1) /\ \A l \in 1..(n + 1) : l \in 1..n \/ n + 1 <= l
      OBVIOUS
    <3>2. ASSUME NEW l \in 1..n, Usable(given[l]) PROVE given[l].name # volume.name
      BY <1>4, <3>2 DEF Mounted
    <3>3. Usable(given[n + 1]) /\ ws[j] = VolumeOf(given[n + 1])
      BY <1>2, <1>4, <2>2
    <3>4. \A l \in 1..(n + 1) : Usable(given[l]) /\ given[l].name = given[n + 1].name => n + 1 <= l
      BY <1>4, <3>1, <3>2
    <3> QED
      BY <3>1, <3>3, <3>4
  <2> QED
    BY <1>1, <1>2, <2>1, <2>2
<1>7. ASSUME NEW k \in 1..(n + 1), Usable(given[k])
      PROVE  \E j \in DOMAIN ws : ws[j].name = given[k].name
  <2>1. CASE k \in 1..n
    <3>1. PICK j \in 1..m : vs[j].name = given[k].name
      BY <1>1, <1>7, <2>1 DEF Mounted
    <3>2. j \in DOMAIN ws /\ ws[j] = vs[j]
      BY <1>1, <1>2, <3>1
    <3> QED
      BY <3>1, <3>2
  <2>2. CASE k = n + 1
    <3>1. m + 1 \in DOMAIN ws
      BY <1>1, <1>2
    <3> QED
      BY <1>2, <1>3, <1>4, <2>2, <3>1
  <2> QED
    BY <2>1, <2>2
<1>8. Mounted(given, n + 1, ws)
  BY <1>2, <1>5, <1>6, <1>7 DEF Mounted
<1> QED
  BY <1>2, <1>8 DEF ws, volume, m

\* or it is not.
LEMMA VolumePassed ==
  ASSUME NEW given, NEW n \in Nat, NEW vs, Mounted(given, n, vs),
         ~Usable(given[n + 1]) \/ \E j \in DOMAIN vs : vs[j].name = given[n + 1].name
  PROVE  Mounted(given, n + 1, vs)
<1>1. \A l \in 1..(n + 1) : l \in 1..n \/ l = n + 1
  OBVIOUS
<1>2. ASSUME NEW j \in DOMAIN vs
      PROVE  \E k \in 1..(n + 1) :
               /\ Usable(given[k]) /\ vs[j] = VolumeOf(given[k])
               /\ \A l \in 1..(n + 1) : Usable(given[l]) /\ given[l].name = given[k].name => k <= l
  <2>1. PICK k \in 1..n :
          /\ Usable(given[k]) /\ vs[j] = VolumeOf(given[k])
          /\ \A l \in 1..n : Usable(given[l]) /\ given[l].name = given[k].name => k <= l
    BY DEF Mounted
  <2>2. k \in 1..(n + 1) /\ \A l \in 1..(n + 1) : l \in 1..n \/ k <= l
    BY <2>1
  <2> QED
    BY <2>1, <2>2
<1>3. ASSUME NEW k \in 1..(n + 1), Usable(given[k])
      PROVE  \E j \in DOMAIN vs : vs[j].name = given[k].name
  <2>1. CASE k \in 1..n
    BY <1>3, <2>1 DEF Mounted
  <2>2. CASE k = n + 1
    BY <1>3, <2>2
  <2> QED
    BY <1>1, <2>1, <2>2
<1> QED
  BY <1>2, <1>3 DEF Mounted

\* Of the first n volumes each was reported, as converted or as skipped.
VolumesTold(n) ==
  /\ Tally(Own, "VolumeConverted") = Len(build.volumes)
  /\ Tally(Own, "VolumeSkipped") = n - Len(build.volumes)

\* A conversion whose strategy has volumes goes through all of them.
VolumesSoFar ==
  LET given == VolumesOf(bc) IN
  /\ pc \in {"strategy", "buildArgs"} =>
       build.volumes = <<>> /\ VolumesTold(0) /\ Tally(Own, "VolumesRejected") = 0
  /\ pc = "volumes" =>
       /\ i \in 1..(Len(given) + 1)
       /\ Mounted(given, i - 1, build.volumes) /\ VolumesTold(i - 1)
       /\ Tally(Own, "VolumesRejected") = 0
  /\ pc \in PastVolumes /\ HasStrategy(bc) =>
       /\ Mounted(given, Len(given), build.volumes) /\ VolumesTold(Len(given))
       /\ Tally(Own, "VolumesRejected") = IF build.volumes # <<>> THEN 1 ELSE 0

\* The warnings that are counted here.
VolumeIds == {"VolumeConverted", "VolumeSkipped", "VolumesRejected"}

\* Before the volumes there are none.
LEMMA NoneMounted ==
  ASSUME NEW given
  PROVE  Mounted(given, 0, <<>>) /\ Len(<<>>) = 0
<1>1. IsList(<<>>) /\ Len(<<>>) = 0 /\ DOMAIN <<>> = {} /\ 1..0 = {}
  BY ListOfMessages, ListFacts
<1> QED
  BY <1>1 DEF Mounted

\* Every step of the system keeps it.
LEMMA StepVolumes ==
  ASSUME Background, StrategySoFar, VolumesSoFar, [Next]_vars
  PROVE  VolumesSoFar'
<1> DEFINE given == VolumesOf(bc)
           vs == build.volumes
           converted == Tally(Own, "VolumeConverted")
           skipped == Tally(Own, "VolumeSkipped")
           rejected == Tally(Own, "VolumesRejected")
<1>1. TypeOK
  BY DEF Background
<1>2. CASE \E b \in BuildConfigs : Begin(b)
  <2>1. PICK b \in BuildConfigs : Begin(b)
    BY <1>2
  <2>2. vs' = <<>> /\ pc' = "strategy"
    BY <2>1 DEF Begin, Skeleton
  <2>3. converted' = 0 /\ skipped' = 0 /\ rejected' = 0
    BY <1>1, <2>1, TallyBegins
  <2> HIDE DEF Own, Tally
  <2>4. VolumesTold(0)'
    BY <2>2, <2>3, NoneMounted DEF VolumesTold
  <2> QED
    BY <2>2, <2>3, <2>4, NothingPassed DEF VolumesSoFar
<1>3. CASE Goes /\ Step
  <2>1. UNCHANGED bc /\ DOMAIN build = Fields /\ UNCHANGED start
        /\ \A field \in Fields : ~MaySet(pc, field) => build'[field] = build[field]
    BY <1>3, Untouched DEF Goes, call
  <2>2. (pc' \in PastVolumes <=>
           pc \in PastVolumes \/ (pc \in {"strategy", "volumes"} /\ pc' = "gate"))
        /\ pc # "idle" /\ Follows(pc, pc') /\ bc \in BuildConfigs
    BY <1>1, <1>3, Passing DEF Goes, Running, TypeOK
  <2>3. given' = given /\ HasStrategy(bc)' = HasStrategy(bc)
    BY <2>1 DEF VolumesOf, HasStrategy
  <2>4. pc = "volumes" => HasStrategy(bc) /\ IsList(given) /\ Len(given) \in Nat /\ Volumes = given
    <3>1. pc = "volumes" => IF bc.strategy.type = "Docker" THEN bc.strategy.docker # Nil
                            ELSE bc.strategy.source # Nil
      BY DEF StrategySoFar
    <3>2. Volumes = given
      BY DEF Volumes, VolumesOf, Docker, S2I
    <3>3. pc = "volumes" => HasStrategy(bc) /\ IsList(given)
      BY <2>2, <3>1, ListsAssumption DEF HasStrategy, VolumesOf
    <3> QED
      BY <3>2, <3>3, ListFacts
  <2>5. CASE pc # "volumes"
    <3>1. vs' = vs
      <4>1. ~MaySet(pc, "volumes") /\ "volumes" \in Fields
        BY <2>5 DEF MaySet, Fields
      <4> QED
        BY <2>1, <4>1
    <3>2. converted' = converted /\ skipped' = skipped /\ rejected' = rejected
      <4>1. \A id \in VolumeIds : ~MayRaise(pc, id)
        BY <2>5 DEF MayRaise, DropWarnings, VolumeIds
      <4> QED
        BY <1>1, <1>3, <4>1, TallyUntold DEF VolumeIds
    <3>3. \A n : VolumesTold(n)' = VolumesTold(n)
      BY <3>1, <3>2 DEF VolumesTold
    <3> HIDE DEF Own, Tally, given
    <3>4. CASE pc \in {"strategy", "buildArgs"}
      <4>1. vs = <<>> /\ VolumesTold(0) /\ rejected = 0
        BY <3>4 DEF VolumesSoFar
      <4>2. CASE pc' \in {"strategy", "buildArgs"}
        <5>1. pc' # "volumes" /\ pc' \notin PastVolumes
          BY <2>2, <2>5, <3>4, <4>2 DEF PastVolumes, PastGate, PastAccount, PastDockerfile,
             PastSource, PastOutput, PastLabels, PastDeadline, PastNodeSelector, PastRunPolicy,
             PastPostCommit, PastLimits, PastRegistries, PastTriggers, PastChain, PastResources
        <5>2. VolumesTold(0)'
          BY <3>3, <4>1
        <5> QED
          BY <3>1, <3>2, <4>1, <5>1, <5>2 DEF VolumesSoFar
      <4>3. CASE pc' = "volumes"
        <5>1. i' = 1
          BY <1>3, <2>5, <3>4, <4>3 DEF Goes, Counts, Background, Formed, Loops
        <5>2. /\ bc.strategy.type \in {"Docker", "Source"} /\ HasStrategy(bc)
          BY <1>3, <2>2, <3>4, <4>3, StepAt
             DEF StrategySoFar, HasStrategy, DockerStrategy, BareDockerStrategy, SourceStrategy,
                 BareSourceStrategy, Goto, S2I, Docker
        <5>3. IsList(given) /\ Len(given) \in Nat
          <6>1. IsList(given)
            BY <2>2, <5>2, ListsAssumption DEF HasStrategy, VolumesOf, given
          <6> QED
            BY <6>1, ListFacts
        <5>4. Mounted(given, 0, vs) /\ VolumesTold(0)'
          BY <3>3, <4>1, NoneMounted
        <5>5. i' \in 1..(Len(given) + 1) /\ i' - 1 = 0
          BY <5>1, <5>3
        <5>6. pc' \notin PastVolumes
          BY <4>3, PassedInOrder
        <5>7. Mounted(given, i - 1, vs)' /\ VolumesTold(i - 1)'
          BY <2>3, <3>1, <5>4, <5>5
        <5> QED
          BY <2>3, <3>2, <4>1, <4>3, <5>5, <5>6, <5>7 DEF VolumesSoFar, given
      <4>4. CASE pc' = "gate"
        <5>1. ~HasStrategy(bc)
          BY <1>3, <2>2, <3>4, <4>4, StepAt
             DEF Follows, HasStrategy, DockerStrategy, BareDockerStrategy, SourceStrategy,
                 BareSourceStrategy, Goto, S2I, Docker
        <5> QED
          BY <2>3, <4>4, <5>1 DEF VolumesSoFar
      <4> QED
        BY <2>2, <3>4, <4>2, <4>3, <4>4 DEF Follows
    <3>5. CASE pc \notin {"strategy", "buildArgs"}
      <4>1. pc \in PastVolumes /\ pc' \notin {"strategy", "buildArgs", "volumes"}
        BY <2>2, <2>5, <3>5 DEF Follows, PastVolumes, PastGate, PastAccount, PastDockerfile,
           PastSource, PastOutput, PastLabels, PastDeadline, PastNodeSelector, PastRunPolicy,
           PastPostCommit, PastLimits, PastRegistries, PastTriggers, PastChain, PastResources
      <4>2. HasStrategy(bc) => Mounted(given, Len(given), vs)' /\ VolumesTold(Len(given))'
        BY <2>3, <3>1, <3>3, <4>1 DEF VolumesSoFar, given
      <4> QED
        BY <2>3, <3>1, <3>2, <4>1, <4>2 DEF VolumesSoFar, given
    <3> QED
      BY <3>4, <3>5
  <2>6. CASE pc = "volumes"
    <3>0. i \in 1..(Len(given) + 1) /\ Len(given) \in Nat
      BY <2>4, <2>6 DEF VolumesSoFar
    <3> PICK n \in Nat : n = i - 1
      BY <3>0
    <3>1. /\ i \in 1..(Len(given) + 1) /\ Mounted(given, n, vs) /\ VolumesTold(n) /\ rejected = 0
          /\ n \in Nat /\ n + 1 = i /\ Len(given) \in Nat /\ Volume = given[i]
          /\ pc' \notin {"strategy", "buildArgs"} /\ HasStrategy(bc)
      BY <2>2, <2>4, <2>6 DEF VolumesSoFar, Follows, Volume
    <3>2. Len(vs) \in Nat
      BY <3>1, ListFacts DEF Mounted
    <3>5. converted = Len(vs) /\ skipped = n - Len(vs) /\ rejected = 0
      BY <3>1 DEF VolumesTold
    <3>3. CASE ConvertVolume \/ SkipVolume
      <4>1. i <= Len(given) /\ pc' = pc /\ i' = i + 1
        BY <2>4, <2>6, <3>3 DEF ConvertVolume, SkipVolume, MoreVolumes, VolumeDone
      <4>2. i' \in 1..(Len(given) + 1) /\ i' - 1 = n + 1
        BY <3>1, <4>1
      <4>3. CASE Mounted(given, n + 1, vs') /\ VolumesTold(n + 1)' /\ rejected' = 0
        <5>1. pc' \notin PastVolumes /\ pc' = "volumes"
          BY <2>6, <4>1, PassedInOrder
        <5>2. Mounted(given, i - 1, vs)' /\ VolumesTold(i - 1)'
          <6> HIDE DEF given
          <6> QED
            BY <2>3, <4>2, <4>3
        <5> QED
          BY <2>3, <4>2, <4>3, <5>1, <5>2 DEF VolumesSoFar
      <4>4. CASE ConvertVolume
        <5> DEFINE about == <<Volume.name>>
        <5>1. /\ Usable(given[i]) /\ Volume.name \notin seen
              /\ vs' = Append(vs, VolumeOf(given[i])) /\ Warn(W("VolumeConverted", about))
          BY <2>1, <3>1, <4>4 DEF ConvertVolume, VolumeDone, Usable, VolumeOf, Fields
        <5> HIDE DEF about
        <5>2. converted' = converted + 1 /\ skipped' = skipped + 0 /\ rejected' = rejected + 0
          BY <1>1, <2>1, <5>1, TallyTold
        <5>3. \A j \in DOMAIN vs : vs[j].name # given[i].name
          BY <3>1, <5>1 DEF seen
        <5>4. /\ Mounted(given, n + 1, Append(vs, VolumeOf(given[n + 1])))
              /\ Len(Append(vs, VolumeOf(given[n + 1]))) = Len(vs) + 1
          <6> HIDE DEF given, vs
          <6> QED
            BY <3>1, <5>1, <5>3, VolumeMounted
        <5>5. Mounted(given, n + 1, vs') /\ Len(vs') = Len(vs) + 1
          BY <3>1, <5>1, <5>4
        <5> HIDE DEF Own, Tally
        <5>6. converted' = Len(vs') /\ skipped' = (n + 1) - Len(vs') /\ rejected' = 0
          BY <3>2, <3>5, <5>2, <5>5
        <5>7. VolumesTold(n + 1)' /\ rejected' = 0
          BY <5>6 DEF VolumesTold
        <5> QED
          BY <4>3, <5>5, <5>7
      <4>5. CASE SkipVolume
        <5> DEFINE about == <<Volume.name>>
        <5>1. /\ ~Usable(given[i]) \/ \E j \in DOMAIN vs : vs[j].name = given[i].name
              /\ vs' = vs /\ Warn(W("VolumeSkipped", about))
          BY <3>1, <4>5 DEF SkipVolume, VolumeDone, Usable, seen
        <5> HIDE DEF about
        <5>2. converted' = converted + 0 /\ skipped' = skipped + 1 /\ rejected' = rejected + 0
          BY <1>1, <2>1, <5>1, TallyTold
        <5>3. Mounted(given, n + 1, vs)
          <6> HIDE DEF given, vs
          <6> QED
            BY <3>1, <5>1, VolumePassed
        <5> HIDE DEF Own, Tally
        <5>4. converted' = Len(vs') /\ skipped' = (n + 1) - Len(vs') /\ rejected' = 0
          BY <3>2, <3>5, <5>1, <5>2
        <5>5. VolumesTold(n + 1)' /\ rejected' = 0
          BY <5>4 DEF VolumesTold
        <5> QED
          BY <4>3, <5>1, <5>3, <5>5
      <4> QED
        BY <3>3, <4>4, <4>5
    <3>4. CASE VolumesDone
      <4> DEFINE condition == vs # <<>>
                 w == W("VolumesRejected", <<>>)
                 m == When(condition, w)
      <4>1. i > Len(given) /\ vs' = vs /\ pc' = "gate" /\ Warn(m)
        BY <2>4, <2>6, <3>4 DEF VolumesDone, Goto
      <4>2. n = Len(given)
        BY <3>1, <4>1
      <4>3. IsList(m)
        BY ListOfMessages
      <4>4. \A id \in VolumeIds : Tally(w, id) = IF "VolumesRejected" = id THEN 1 ELSE 0
        BY TallyOne
      <4> HIDE DEF condition, w
      <4>5. \A id \in VolumeIds : Tally(m, id) = IF condition THEN Tally(w, id) ELSE 0
        BY TallyWhen
      <4> HIDE DEF m
      <4>6. \A id \in VolumeIds : Tally(Own, id)' = Tally(Own, id) + Tally(m, id)
        BY <1>1, <2>1, <4>1, <4>3, TallyTell
      <4>7. /\ converted' = converted + 0 /\ skipped' = skipped + 0
            /\ rejected' = rejected + IF condition THEN 1 ELSE 0
        <5> HIDE DEF Own, Tally
        <5> QED
          BY <4>4, <4>5, <4>6 DEF VolumeIds
      <4> HIDE DEF Own, Tally
      <4>8. VolumesTold(n)' /\ rejected' = IF condition THEN 1 ELSE 0
        <5>1. converted' = Len(vs') /\ skipped' = n - Len(vs')
              /\ rejected' = IF condition THEN 1 ELSE 0
          BY <3>2, <3>5, <4>1, <4>7
        <5> QED
          BY <5>1 DEF VolumesTold
      <4>9. Mounted(given, Len(given), vs)' /\ VolumesTold(Len(given))'
            /\ rejected' = IF vs' # <<>> THEN 1 ELSE 0
        BY <2>3, <3>1, <4>1, <4>2, <4>8 DEF condition
      <4> QED
        BY <2>3, <4>1, <4>9 DEF VolumesSoFar
    <3> QED
      BY <1>3, <2>6, <3>3, <3>4, StepAt
  <2> QED
    BY <2>5, <2>6
<1>4. CASE pc' = "idle"
  BY <1>4, NothingPassed DEF VolumesSoFar
<1>5. CASE UNCHANGED vars
  <2>1. \A n : VolumesTold(n)' = VolumesTold(n)
    BY <1>5 DEF vars, Own, OwnWarnings, Tally, VolumesTold
  <2>2. rejected' = rejected /\ given' = given /\ HasStrategy(bc)' = HasStrategy(bc)
    BY <1>5 DEF vars, Own, OwnWarnings, Tally, VolumesOf, HasStrategy
  <2> HIDE DEF Own, Tally, given, HasStrategy
  <2> QED
    BY <1>5, <2>1, <2>2 DEF vars, VolumesSoFar, given
<1> QED
  BY <1>1, <1>2, <1>3, <1>4, <1>5, NextCases

\* So it holds throughout.
LEMMA VolumesAlways == Spec => []VolumesSoFar
<1>1. Init => VolumesSoFar
  BY NothingPassed DEF Init, VolumesSoFar
<1>2. Background /\ StrategySoFar /\ VolumesSoFar /\ [Next]_vars => VolumesSoFar'
  BY StepVolumes
<1> QED
  BY <1>1, <1>2, BackgroundAlways, StrategyAlways, PTL DEF Spec

\* The volumes of the Build Finish returns are those the loop left.
LEMMA FinalVolumes ==
  ASSUME Background, StrategySoFar, VolumesSoFar, pc = "classify", HasStrategy(bc)
  PROVE  VolumesKept(Final)
<1> DEFINE given == VolumesOf(bc)
           vs == build.volumes
           n == Len(given)
           usable == {k \in DOMAIN given : given[k].name # Blank /\ Convertible(given[k])}
           ids == {"VolumeConverted", "VolumeSkipped", "VolumesRejected"}
<1>1. Final.bc = bc /\ BuildOf(Final).volumes = vs
  BY FinalFields
<1>2. /\ Mounted(given, n, vs)
      /\ Tally(Own, "VolumeConverted") = Len(vs) /\ Tally(Own, "VolumeSkipped") = n - Len(vs)
      /\ Tally(Own, "VolumesRejected") = IF vs # <<>> THEN 1 ELSE 0
  BY PassedInOrder DEF VolumesSoFar, VolumesTold
<1>3. IsList(given) /\ DOMAIN given = 1..n
  <2>1. bc \in BuildConfigs
    BY DEF Background, TypeOK
  <2>2. IsList(given)
    BY <2>1, ListsAssumption DEF HasStrategy, VolumesOf
  <2> HIDE DEF given
  <2> QED
    BY <2>2, ListFacts
<1>4. "WarningsOmitted" \notin ids /\ TypeOK
  BY DEF Background
<1>5. "VolumeConverted" \in ids /\ "VolumeSkipped" \in ids /\ "VolumesRejected" \in ids
  OBVIOUS
<1> HIDE DEF ids
<1>6. /\ Cardinality(Raised(Final, "VolumeConverted")) = Tally(Own, "VolumeConverted")
      /\ Cardinality(Raised(Final, "VolumeSkipped")) = Tally(Own, "VolumeSkipped")
      /\ Raised(Final, "VolumesRejected") # {} <=> Tally(Own, "VolumesRejected") # 0
  BY <1>4, <1>5, FinalSays DEF Tally
<1> HIDE DEF given, vs, n
<1>7. usable = {k \in 1..n : Usable(given[k])}
  BY <1>3 DEF Usable
<1> HIDE DEF usable
<1>8. /\ \A j, k \in DOMAIN vs : vs[j].name = vs[k].name => j = k
      /\ \A k \in usable : \E j \in DOMAIN vs : vs[j].name = given[k].name
  BY <1>2, <1>7 DEF Mounted
<1>9. \A j \in DOMAIN vs :
        \E k \in usable :
          /\ vs[j] = [name |-> given[k].name, type |-> given[k].type, source |-> given[k].source]
          /\ \A l \in usable : given[l].name = given[k].name => k <= l
  BY <1>2, <1>7 DEF Mounted, VolumeOf
<1>10. (Raised(Final, "VolumesRejected") # {}) = (vs # <<>>)
  BY <1>2, <1>6
<1> QED
  <2>1. /\ Cardinality(Raised(Final, "VolumeConverted")) = Len(vs)
        /\ Cardinality(Raised(Final, "VolumeSkipped")) = n - Len(vs)
    BY <1>2, <1>6
  <2>2. /\ Final.bc = bc /\ BuildOf(Final).volumes = vs
        /\ VolumesOf(Final.bc) = given /\ Len(given) = n
    BY <1>1 DEF given, n
  <2> HIDE DEF VolumesOf
  <2>3. usable = {k \in DOMAIN given : given[k].name # Blank /\ Convertible(given[k])}
    BY DEF usable
  <2> QED
    BY <1>8, <1>9, <1>10, <2>1, <2>2, <2>3 DEF VolumesKept

\* The volumes of a Build have distinct names, each is the first usable one of its name in the
\* BuildConfig's list, every other is reported as skipped, and the summary that the Build will be
\* rejected is there exactly when one was converted: for a list of volumes of any length.
THEOREM VolumesDistinct == Spec => []VolumesUnambiguous
<1>1. Init => VolumesUnambiguous
  BY NoneReplaced DEF VolumesUnambiguous
<1> DEFINE Known == StrategySoFar /\ VolumesSoFar
<1>2. Background /\ Known /\ VolumesUnambiguous /\ [Next]_vars => VolumesUnambiguous'
  <2>1. Background /\ Known /\ pc = "classify" /\ HasStrategy(Final.bc) => VolumesKept(Final)
    BY FinalVolumes, FinalFields
  <2> QED
    BY <2>1, OneMore DEF VolumesUnambiguous
<1>3. Spec => []Known
  BY StrategyAlways, VolumesAlways, PTL
<1> QED
  <2> HIDE DEF Known
  <2> QED
    BY <1>1, <1>2, <1>3, BackgroundAlways, PTL DEF Spec

-----------------------------------------------------------------------------
(* The build args.                                                         *)

\* vs carries some of the first n of the given args, in their order, and the others are told of.
Placed(given, n, vs, told) ==
  /\ IsList(vs)
  /\ \E position \in [DOMAIN vs -> 1..n] :
       /\ \A j, k \in DOMAIN vs : j < k => position[j] < position[k]
       /\ \A k \in DOMAIN vs : vs[k].name = given[position[k]].name
       /\ \A j \in 1..n : (\E k \in DOMAIN vs : position[k] = j) \/ given[j].name \in told

\* No arg is placed before the first.
LEMMA NonePlaced ==
  ASSUME NEW given, NEW told
  PROVE  Placed(given, 0, <<>>, told) /\ Len(<<>>) = 0
<1>1. IsList(<<>>) /\ Len(<<>>) = 0 /\ DOMAIN <<>> = {} /\ 1..0 = {}
  BY ListOfMessages, ListFacts
<1>2. [k \in {} |-> k] \in [{} -> {}]
  OBVIOUS
<1> QED
  BY <1>1, <1>2 DEF Placed

\* The next one is carried,
LEMMA ArgPlaced ==
  ASSUME NEW given, NEW n \in Nat, NEW vs, NEW told, Placed(given, n, vs, told),
         NEW x, x.name = given[n + 1].name, NEW also, told \subseteq also
  PROVE  Placed(given, n + 1, vs \o <<x>>, also) /\ Len(vs \o <<x>>) = Len(vs) + 1
<1> DEFINE m == Len(vs)
           one == <<x>>
           ws == vs \o one
<1>1. IsList(vs) /\ m \in Nat /\ DOMAIN vs = 1..m
  BY ListFacts DEF Placed
<1>2. IsList(one) /\ Len(one) = 1 /\ one[1] = x
  BY DEF IsList, ToSet
<1> HIDE DEF one
<1>3. /\ IsList(ws) /\ Len(ws) = m + 1 /\ DOMAIN ws = 1..(m + 1)
      /\ \A k \in 1..m : ws[k] = vs[k]
      /\ ws[m + 1] = x
  <2>1. /\ IsList(ws) /\ Len(ws) = m + 1
        /\ \A k \in 1..m : ws[k] = vs[k]
        /\ \A k \in (m + 1)..(m + 1) : ws[k] = one[k - m]
    <3>1. /\ IsList(ws) /\ Len(ws) = Len(vs) + Len(one)
          /\ \A k \in 1..Len(vs) : ws[k] = vs[k]
          /\ \A k \in (Len(vs) + 1)..(Len(vs) + Len(one)) : ws[k] = one[k - Len(vs)]
      BY <1>1, <1>2, ListConcat
    <3> QED
      BY <1>2, <3>1
  <2>2. m + 1 \in (m + 1)..(m + 1) /\ (m + 1) - m = 1
    BY <1>1
  <2>3. ws[m + 1] = one[1]
    BY <2>1, <2>2
  <2> QED
    BY <1>1, <1>2, <2>1, <2>3, ListFacts
<1> HIDE DEF m, ws
<1>4. PICK position \in [1..m -> 1..n] :
        /\ \A j, k \in 1..m : j < k => position[j] < position[k]
        /\ \A k \in 1..m : vs[k].name = given[position[k]].name
        /\ \A j \in 1..n : (\E k \in 1..m : position[k] = j) \/ given[j].name \in told
  <2>1. PICK f \in [DOMAIN vs -> 1..n] :
          /\ \A j, k \in DOMAIN vs : j < k => f[j] < f[k]
          /\ \A k \in DOMAIN vs : vs[k].name = given[f[k]].name
          /\ \A j \in 1..n : (\E k \in DOMAIN vs : f[k] = j) \/ given[j].name \in told
    BY DEF Placed
  <2>2. DOMAIN vs = 1..m
    BY <1>1
  <2>3. f \in [1..m -> 1..n]
    BY <2>1, <2>2
  <2>4. /\ \A j, k \in 1..m : j < k => f[j] < f[k]
        /\ \A k \in 1..m : vs[k].name = given[f[k]].name
        /\ \A j \in 1..n : (\E k \in 1..m : f[k] = j) \/ given[j].name \in told
    BY <2>1, <2>2
  <2> QED
    BY <2>3, <2>4
<1> DEFINE next == [k \in 1..(m + 1) |-> IF k = m + 1 THEN n + 1 ELSE position[k]]
<1>5. next \in [1..(m + 1) -> 1..(n + 1)]
  BY <1>1, <1>4
<1>6. /\ next[m + 1] = n + 1
      /\ \A k \in 1..m : k \in 1..(m + 1) /\ next[k] = position[k] /\ position[k] \in 1..n
  BY <1>1, <1>4
<1> HIDE DEF next
<1>7. ASSUME NEW j \in 1..(m + 1), NEW k \in 1..(m + 1), j < k PROVE next[j] < next[k]
  <2>1. j \in 1..m
    BY <1>1, <1>7
  <2>2. CASE k \in 1..m
    BY <1>4, <1>6, <1>7, <2>1, <2>2
  <2>3. CASE k = m + 1
    BY <1>6, <2>1, <2>3
  <2>4. k \in 1..m \/ k = m + 1
    BY <1>1
  <2> QED
    BY <2>2, <2>3, <2>4
<1>8. ASSUME NEW k \in 1..(m + 1) PROVE ws[k].name = given[next[k]].name
  <2>1. CASE k \in 1..m
    BY <1>3, <1>4, <1>6, <2>1
  <2>2. CASE k = m + 1
    BY <1>3, <1>6, <2>2
  <2> QED
    BY <1>1, <2>1, <2>2
<1>9. ASSUME NEW j \in 1..(n + 1)
      PROVE  (\E k \in 1..(m + 1) : next[k] = j) \/ given[j].name \in also
  <2>1. CASE j \in 1..n
    <3>1. CASE \E k \in 1..m : position[k] = j
      BY <1>6, <3>1
    <3>2. CASE given[j].name \in told
      BY <3>2
    <3> QED
      BY <1>4, <2>1, <3>1, <3>2
  <2>2. CASE j = n + 1
    <3>1. m + 1 \in 1..(m + 1)
      BY <1>1
    <3> QED
      BY <1>6, <2>2, <3>1
  <2> QED
    BY <2>1, <2>2
<1>10. Placed(given, n + 1, ws, also)
  <2>1. /\ DOMAIN ws = 1..(m + 1)
        /\ next \in [DOMAIN ws -> 1..(n + 1)]
        /\ \A j, k \in DOMAIN ws : j < k => next[j] < next[k]
        /\ \A k \in DOMAIN ws : ws[k].name = given[next[k]].name
        /\ \A j \in 1..(n + 1) : (\E k \in DOMAIN ws : next[k] = j) \/ given[j].name \in also
    BY <1>3, <1>5, <1>7, <1>8, <1>9
  <2> QED
    BY <1>3, <2>1 DEF Placed
<1> QED
  BY <1>3, <1>10 DEF ws, m, one

\* or told of.
LEMMA ArgLeft ==
  ASSUME NEW given, NEW n \in Nat, NEW vs, NEW told, Placed(given, n, vs, told),
         NEW also, told \subseteq also, given[n + 1].name \in also
  PROVE  Placed(given, n + 1, vs, also)
<1>1. PICK position \in [DOMAIN vs -> 1..n] :
        /\ \A j, k \in DOMAIN vs : j < k => position[j] < position[k]
        /\ \A k \in DOMAIN vs : vs[k].name = given[position[k]].name
        /\ \A j \in 1..n : (\E k \in DOMAIN vs : position[k] = j) \/ given[j].name \in told
  BY DEF Placed
<1>2. position \in [DOMAIN vs -> 1..(n + 1)]
  <2>1. 1..n \subseteq 1..(n + 1)
    OBVIOUS
  <2> QED
    BY <1>1, <2>1
<1>3. ASSUME NEW j \in 1..(n + 1)
      PROVE  (\E k \in DOMAIN vs : position[k] = j) \/ given[j].name \in also
  <2>1. j \in 1..n \/ j = n + 1
    OBVIOUS
  <2> QED
    BY <1>1, <2>1
<1> QED
  BY <1>1, <1>2, <1>3 DEF Placed

\* or none.
SkipsNone(m) == IsList(m) /\ Tally(m, "ArgSkipped") = 0

\* Messages that report one arg as skipped,
Skips(m, x) == IsList(m) /\ Tally(m, "ArgSkipped") = 1 /\ x \in Abouts(m, "ArgSkipped")

\* How such messages are put together.
LEMMA SkipRules ==
  /\ \A id, about : id # "ArgSkipped" => SkipsNone(W(id, about))
  /\ \A x : Skips(W("ArgSkipped", x), x)
  /\ SkipsNone(<<>>)
  /\ \A condition, m : SkipsNone(m) => SkipsNone(When(condition, m))
  /\ \A m, n : SkipsNone(m) /\ SkipsNone(n) => SkipsNone(m \o n)
  /\ \A m, n, x : SkipsNone(m) /\ Skips(n, x) => Skips(m \o n, x)
  /\ \A m, n, x : Skips(m, x) /\ SkipsNone(n) => Skips(m \o n, x)
<1>1. ASSUME NEW id, NEW about, id # "ArgSkipped" PROVE SkipsNone(W(id, about))
  BY <1>1, ListOfMessages, TallyOne DEF SkipsNone
<1>2. ASSUME NEW x PROVE Skips(W("ArgSkipped", x), x)
  <2>1. Abouts(W("ArgSkipped", x), "ArgSkipped") = {x}
    BY LedgerOne
  <2>2. Tally(W("ArgSkipped", x), "ArgSkipped") = 1
    BY TallyOne
  <2> QED
    BY <2>1, <2>2, ListOfMessages DEF Skips
<1>3. SkipsNone(<<>>)
  BY ListOfMessages, LedgerNone DEF SkipsNone, Tally
<1>4. ASSUME NEW condition, NEW m, SkipsNone(m) PROVE SkipsNone(When(condition, m))
  BY <1>3, <1>4 DEF When
<1>5. ASSUME NEW m, NEW n, IsList(m), IsList(n)
      PROVE  /\ IsList(m \o n)
             /\ Tally(m \o n, "ArgSkipped") = Tally(m, "ArgSkipped") + Tally(n, "ArgSkipped")
             /\ Abouts(m \o n, "ArgSkipped")
                  = Abouts(m, "ArgSkipped") \union Abouts(n, "ArgSkipped")
  BY <1>5, TallyAdds, LedgerAdds
<1>6. ASSUME NEW m, NEW n, SkipsNone(m), SkipsNone(n) PROVE SkipsNone(m \o n)
  BY <1>5, <1>6 DEF SkipsNone
<1>7. ASSUME NEW m, NEW n, NEW x, SkipsNone(m), Skips(n, x) PROVE Skips(m \o n, x)
  BY <1>5, <1>7 DEF SkipsNone, Skips
<1>8. ASSUME NEW m, NEW n, NEW x, Skips(m, x), SkipsNone(n) PROVE Skips(m \o n, x)
  BY <1>5, <1>8 DEF SkipsNone, Skips
<1> QED
  BY <1>1, <1>2, <1>3, <1>4, <1>6, <1>7, <1>8

\* An arg is carried under its name and not told of, or told of and not carried.
LEMMA ArgAccounted ==
  ASSUME SkipInvalidArg \/ LiteralArg \/ MapArg \/ SkipUnmappableArg
  PROVE  /\ MoreArgs
         /\ \E values, m :
              /\ ArgDone(values, m)
              /\ \/ values = <<>> /\ Skips(m, Arg.name)
                 \/ SkipsNone(m) /\ \E x : values = <<x>> /\ x.name = Arg.name
<1>1. \A source, value : \E x : ArgValue(Arg.name, source, value) = <<x>> /\ x.name = Arg.name
  <2>1. ASSUME NEW source, NEW value
        PROVE  \E x : ArgValue(Arg.name, source, value) = <<x>> /\ x.name = Arg.name
    <3> DEFINE x == [name |-> Arg.name, source |-> source, value |-> value]
    <3>1. ArgValue(Arg.name, source, value) = <<x>> /\ x.name = Arg.name
      BY DEF ArgValue
    <3> QED
      BY <3>1
  <2> QED
    BY <2>1
<1>2. SkipsNone(BothWarning(Arg))
  BY SkipRules DEF BothWarning
<1> HIDE DEF Arg
<1>3. CASE SkipInvalidArg
  BY <1>3, SkipRules DEF SkipInvalidArg
<1>4. CASE LiteralArg
  BY <1>1, <1>4, SkipRules DEF LiteralArg
<1>5. CASE MapArg
  <2> DEFINE ref == KeyRef(Arg.from)
             source == IF Arg.from.configMap # Nil THEN "configMap" ELSE "secret"
             empty == ref.name = Blank \/ ref.key = Blank
             values == When(~empty, ArgValue(Arg.name, source, ref.name))
             first == BothWarning(Arg)
             second == When(empty, W("ArgSkipped", Arg.name))
             third == When(~empty /\ ref.optional, W("ArgOptional", Arg.name))
  <2>1. MoreArgs /\ ArgDone(values, first \o second \o third)
    BY <1>5 DEF MapArg
  <2>2. SkipsNone(third)
    BY SkipRules
  <2>3. CASE empty
    <3>1. values = <<>> /\ second = W("ArgSkipped", Arg.name)
      BY <2>3 DEF When
    <3>2. Skips(second, Arg.name)
      BY <3>1, SkipRules
    <3> HIDE DEF first, second, third
    <3>3. Skips(first \o second, Arg.name)
      BY <1>2, <3>2, SkipRules DEF first
    <3>4. Skips(first \o second \o third, Arg.name)
      BY <2>2, <3>3, SkipRules
    <3> HIDE DEF values
    <3> QED
      BY <2>1, <3>1, <3>4
  <2>4. CASE ~empty
    <3>1. values = ArgValue(Arg.name, source, ref.name) /\ second = <<>>
      BY <2>4 DEF When
    <3>2. SkipsNone(second)
      BY <3>1, SkipRules
    <3> HIDE DEF first, second, third
    <3>3. SkipsNone(first \o second)
      BY <1>2, <3>2, SkipRules DEF first
    <3>4. SkipsNone(first \o second \o third)
      BY <2>2, <3>3, SkipRules
    <3>5. \E x : values = <<x>> /\ x.name = Arg.name
      BY <1>1, <3>1
    <3> HIDE DEF values
    <3> QED
      BY <2>1, <3>4, <3>5
  <2> QED
    BY <2>3, <2>4
<1>6. CASE SkipUnmappableArg
  <2>1. Skips(BothWarning(Arg) \o W("ArgSkipped", Arg.name), Arg.name)
    BY <1>2, SkipRules
  <2> QED
    BY <1>6, <2>1 DEF SkipUnmappableArg
<1> QED
  BY <1>3, <1>4, <1>5, <1>6

\* The loop over the build args has dealt with those before index i.
ArgsSoFar ==
  LET given == bc.strategy.docker.buildArgs
      told == Abouts(Own, "ArgSkipped")
      skipped == Tally(Own, "ArgSkipped")
  IN  /\ pc = "strategy" => build.buildArgs = <<>> /\ skipped = 0
      /\ pc = "buildArgs" =>
           /\ i \in 1..(Len(given) + 1)
           /\ Placed(given, i - 1, build.buildArgs, told)
           /\ Len(build.buildArgs) + skipped = i - 1
      /\ pc \notin {"idle", "strategy", "buildArgs"}
           /\ bc.strategy.type = "Docker" /\ HasStrategy(bc) =>
           /\ Placed(given, Len(given), build.buildArgs, told)
           /\ Len(build.buildArgs) + skipped = Len(given)

\* Every step of the system keeps it.
LEMMA StepArgs ==
  ASSUME Background, StrategySoFar, ArgsSoFar, [Next]_vars
  PROVE  ArgsSoFar'
<1> DEFINE given == bc.strategy.docker.buildArgs
           vs == build.buildArgs
           told == Abouts(Own, "ArgSkipped")
           skipped == Tally(Own, "ArgSkipped")
<1>1. TypeOK
  BY DEF Background
<1>2. CASE \E b \in BuildConfigs : Begin(b)
  <2>1. PICK b \in BuildConfigs : Begin(b)
    BY <1>2
  <2>2. vs' = <<>> /\ pc' = "strategy"
    BY <2>1 DEF Begin, Skeleton
  <2>3. skipped' = 0
    BY <1>1, <2>1, TallyBegins
  <2> HIDE DEF skipped, told
  <2> QED
    BY <2>2, <2>3 DEF ArgsSoFar, skipped
<1>3. CASE Goes /\ Step
  <2>1. UNCHANGED bc /\ DOMAIN build = Fields /\ UNCHANGED start
        /\ \A field \in Fields : ~MaySet(pc, field) => build'[field] = build[field]
    BY <1>3, Untouched DEF Goes, call
  <2>2. pc # "idle" /\ Follows(pc, pc') /\ bc \in BuildConfigs
    BY <1>1, <1>3 DEF Goes, Running, TypeOK
  <2>3. given' = given /\ HasStrategy(bc)' = HasStrategy(bc)
    BY <2>1 DEF HasStrategy
  <2>4. CASE pc # "buildArgs"
    <3>1. vs' = vs
      <4>1. ~MaySet(pc, "buildArgs") /\ "buildArgs" \in Fields
        BY <2>4 DEF MaySet, Fields
      <4> QED
        BY <2>1, <4>1
    <3>2. skipped' = skipped /\ told' = told
      <4> DEFINE ids == {"ArgSkipped"}
      <4>1. \A id \in ids : ~MayRaise(pc, id)
        BY <2>4 DEF MayRaise, DropWarnings
      <4>2. "ArgSkipped" \in ids
        OBVIOUS
      <4> HIDE DEF ids
      <4>3. told' = told
        BY <1>1, <1>3, <4>1, <4>2, Untold
      <4>4. skipped' = skipped
        BY <1>1, <1>3, <4>1, <4>2, TallyUntold
      <4> QED
        BY <4>3, <4>4
    <3> HIDE DEF skipped, told
    <3>3. CASE pc = "strategy"
      <4>1. vs = <<>> /\ skipped = 0
        BY <3>3 DEF ArgsSoFar, skipped
      <4>2. CASE pc' = "buildArgs"
        <5>1. i' = 1
          BY <1>3, <3>3, <4>2 DEF Goes, Counts, Background, Formed, Loops
        <5>2. DockerStrategy
          BY <1>3, <3>3, <4>2, StepAt
             DEF BareDockerStrategy, SourceStrategy, BareSourceStrategy, Goto
        <5>3. IsList(given) /\ Len(given) \in Nat
          <6>1. IsList(given)
            BY <2>2, <5>2, ListsAssumption DEF DockerStrategy, Docker
          <6> QED
            BY <6>1, ListFacts
        <5>4. Placed(given, 0, vs, told') /\ Len(vs) = 0
          BY <4>1, NonePlaced
        <5>5. i' \in 1..(Len(given) + 1) /\ i' - 1 = 0
          BY <5>1, <5>3
        <5>6. Placed(given, i - 1, vs, told)' /\ (Len(vs) + skipped = i - 1)'
          BY <2>3, <3>1, <3>2, <4>1, <5>4, <5>5
        <5> QED
          BY <2>3, <4>2, <5>5, <5>6 DEF ArgsSoFar, told, skipped
      <4>3. CASE pc' # "buildArgs"
        <5>1. ~(bc.strategy.type = "Docker" /\ HasStrategy(bc)) /\ pc' # "strategy"
          BY <1>3, <3>3, <4>3, StepAt
             DEF DockerStrategy, BareDockerStrategy, SourceStrategy, BareSourceStrategy, Goto,
                 HasStrategy, Docker
        <5> QED
          BY <2>1, <2>3, <4>3, <5>1 DEF ArgsSoFar
      <4> QED
        BY <4>2, <4>3
    <3>4. CASE pc # "strategy"
      <4>1. pc' \notin {"strategy", "buildArgs"}
        BY <2>2, <2>4, <3>4 DEF Follows
      <4>2. Placed(given, Len(given), vs, told)' = Placed(given, Len(given), vs, told)
            /\ (Len(vs) + skipped = Len(given))' = (Len(vs) + skipped = Len(given))
        BY <2>3, <3>1, <3>2
      <4> QED
        BY <2>1, <2>2, <2>3, <2>4, <3>4, <4>1, <4>2 DEF ArgsSoFar, told, skipped
    <3> QED
      BY <3>3, <3>4
  <2>5. CASE pc = "buildArgs"
    <3>1. IsList(given) /\ Len(given) \in Nat /\ bc.strategy.type = "Docker" /\ HasStrategy(bc)
      <4>1. bc.strategy.type = "Docker" /\ bc.strategy.docker # Nil
        BY <2>5 DEF StrategySoFar
      <4>2. IsList(given)
        BY <2>2, <4>1, ListsAssumption
      <4> QED
        BY <4>1, <4>2, ListFacts DEF HasStrategy
    <3>2. i \in 1..(Len(given) + 1)
      BY <2>5 DEF ArgsSoFar
    <3> PICK n \in Nat : n = i - 1
      BY <3>1, <3>2
    <3>3. /\ Placed(given, n, vs, told) /\ Len(vs) + skipped = n /\ n + 1 = i
          /\ Arg = given[i] /\ Docker.buildArgs = given
      BY <2>5, <3>2 DEF ArgsSoFar, Arg, Docker
    <3>4. Len(vs) \in Nat /\ skipped \in Nat
      <4>1. Len(vs) \in Nat
        BY <3>3, ListFacts DEF Placed
      <4>2. skipped = Count(Own, {"ArgSkipped"})
        BY DEF Tally
      <4> DEFINE ids == {"ArgSkipped"}
      <4> HIDE DEF ids
      <4>3. Count(Own, ids) \in Nat
        BY <1>1, Context, LedgerCounts
      <4> QED
        BY <4>1, <4>2, <4>3 DEF ids
    <3>5. CASE BuildArgsDone
      <4>1. i > Len(given) /\ vs' = vs /\ UNCHANGED warnings /\ pc' = "volumes"
        BY <2>1, <3>3, <3>5 DEF BuildArgsDone, WithParams, Goto, Fields
      <4>2. n = Len(given)
        BY <3>1, <3>2, <3>3, <4>1
      <4>3. told' = told /\ skipped' = skipped
        BY <2>1, <4>1 DEF Own, OwnWarnings, Tally
      <4> HIDE DEF told, skipped
      <4>4. Placed(given, Len(given), vs, told)' /\ (Len(vs) + skipped = Len(given))'
        BY <2>3, <3>3, <4>1, <4>2, <4>3
      <4> QED
        BY <2>3, <4>1, <4>4 DEF ArgsSoFar, told, skipped
    <3>6. CASE SkipInvalidArg \/ LiteralArg \/ MapArg \/ SkipUnmappableArg
      <4>1. PICK values, m :
              /\ ArgDone(values, m)
              /\ \/ values = <<>> /\ Skips(m, Arg.name)
                 \/ SkipsNone(m) /\ \E x : values = <<x>> /\ x.name = Arg.name
        BY <3>6, ArgAccounted
      <4>2. /\ vs' = vs \o values /\ Warn(m) /\ i' = i + 1 /\ pc' = pc /\ IsList(m)
            /\ i <= Len(given)
        BY <2>1, <3>3, <3>6, <4>1, ArgAccounted DEF ArgDone, MoreArgs, Fields, SkipsNone, Skips
      <4>3. /\ told' = told \union Abouts(m, "ArgSkipped")
            /\ skipped' = skipped + Tally(m, "ArgSkipped")
        BY <1>1, <2>1, <4>2, Tell, TallyTell
      <4>4. i' \in 1..(Len(given) + 1) /\ i' - 1 = n + 1
        BY <3>1, <3>2, <3>3, <4>2
      <4>5. Placed(given, n + 1, vs', told') /\ Len(vs') + skipped' = n + 1
        <5>1. CASE values = <<>> /\ Skips(m, Arg.name)
          <6>1. vs' = vs
            <7>1. IsList(vs)
              BY <3>3 DEF Placed
            <7>2. vs \o <<>> = vs
              BY <7>1 DEF IsList
            <7> QED
              BY <4>2, <5>1, <7>2
          <6>2. given[n + 1].name \in told' /\ told \subseteq told' /\ skipped' = skipped + 1
            BY <3>3, <4>3, <5>1 DEF Skips
          <6> HIDE DEF told, skipped, given
          <6>3. Placed(given, n + 1, vs, told')
            BY <3>3, <6>2, ArgLeft
          <6>4. Placed(given, n + 1, vs', told')
            BY <6>1, <6>3
          <6>5. Len(vs') = Len(vs) /\ Len(vs) + skipped = n
            BY <3>3, <6>1
          <6>6. skipped' = skipped + 1
            BY <6>2
          <6> HIDE DEF vs
          <6>7. Len(vs') + skipped' = n + 1
            BY <3>4, <6>5, <6>6
          <6> QED
            BY <6>4, <6>7
        <5>2. ASSUME SkipsNone(m), NEW x, values = <<x>>, x.name = Arg.name
              PROVE  Placed(given, n + 1, vs', told') /\ Len(vs') + skipped' = n + 1
          <6>1. told \subseteq told' /\ skipped' = skipped
            BY <3>4, <4>3, <5>2 DEF SkipsNone
          <6>2. x.name = given[n + 1].name
            BY <3>3, <5>2
          <6> HIDE DEF told, skipped, given
          <6>3. Placed(given, n + 1, vs \o <<x>>, told') /\ Len(vs \o <<x>>) = Len(vs) + 1
            BY <3>3, <6>1, <6>2, ArgPlaced
          <6>4. vs' = vs \o <<x>>
            BY <4>2, <5>2
          <6> QED
            BY <3>3, <3>4, <6>1, <6>3, <6>4
        <5> QED
          BY <4>1, <5>1, <5>2
      <4> HIDE DEF told, skipped
      <4>6. Placed(given, i - 1, vs, told)' /\ (Len(vs) + skipped = i - 1)'
        BY <2>3, <4>4, <4>5
      <4> QED
        BY <2>3, <2>5, <4>2, <4>4, <4>6 DEF ArgsSoFar, told, skipped
    <3> QED
      BY <1>3, <2>5, <3>5, <3>6, StepAt
  <2> QED
    BY <2>4, <2>5
<1>4. CASE pc' = "idle"
  BY <1>4 DEF ArgsSoFar
<1>5. CASE UNCHANGED vars
  <2>1. told' = told /\ skipped' = skipped /\ given' = given /\ HasStrategy(bc)' = HasStrategy(bc)
    BY <1>5 DEF vars, Own, OwnWarnings, Tally, HasStrategy
  <2> HIDE DEF told, skipped, HasStrategy
  <2> QED
    BY <1>5, <2>1 DEF vars, ArgsSoFar, told, skipped
<1> QED
  BY <1>1, <1>2, <1>3, <1>4, <1>5, NextCases

\* So it holds throughout.
LEMMA ArgsAlways == Spec => []ArgsSoFar
<1>1. Init => ArgsSoFar
  BY NothingPassed DEF Init, ArgsSoFar
<1>2. Background /\ StrategySoFar /\ ArgsSoFar /\ [Next]_vars => ArgsSoFar'
  BY StepArgs
<1> QED
  BY <1>1, <1>2, BackgroundAlways, StrategyAlways, PTL DEF Spec

\* The build args of the Build Finish returns are those the loop left.
LEMMA FinalArgs ==
  ASSUME Background, ArgsSoFar, pc = "classify", bc.strategy.type = "Docker", HasStrategy(bc)
  PROVE  ArgsAccounted(Final)
<1> DEFINE given == bc.strategy.docker.buildArgs
           vs == build.buildArgs
           n == Len(given)
           told == Abouts(Own, "ArgSkipped")
           ids == {"ArgSkipped"}
<1>1. Final.bc = bc /\ BuildOf(Final).buildArgs = vs
  BY FinalFields
<1>2. Placed(given, n, vs, told) /\ Len(vs) + Tally(Own, "ArgSkipped") = n
  BY PassedInOrder DEF ArgsSoFar
<1>3. IsList(given) /\ DOMAIN given = 1..n
  <2>1. bc \in BuildConfigs /\ bc.strategy.docker # Nil
    BY DEF Background, TypeOK, HasStrategy
  <2> QED
    BY <2>1, ListsAssumption, ListFacts
<1>4. "WarningsOmitted" \notin ids /\ TypeOK /\ "ArgSkipped" \in ids
  BY DEF Background
<1> HIDE DEF ids
<1>5. /\ Cardinality(Raised(Final, "ArgSkipped")) = Tally(Own, "ArgSkipped")
      /\ Names(Final, "ArgSkipped") = told
  BY <1>4, FinalSays DEF Tally
<1> HIDE DEF given, vs, n, told
<1>6. \E position \in [DOMAIN vs -> DOMAIN given] :
        /\ \A j, k \in DOMAIN vs : j < k => position[j] < position[k]
        /\ \A k \in DOMAIN vs : vs[k].name = given[position[k]].name
        /\ \A j \in DOMAIN given :
             \/ \E k \in DOMAIN vs : position[k] = j
             \/ given[j].name \in told
  BY <1>2, <1>3 DEF Placed
<1>7. Final.bc.strategy.docker.buildArgs = given /\ Len(given) = n
  BY <1>1 DEF given, n
<1>8. Len(vs) + Cardinality(Raised(Final, "ArgSkipped")) = Len(given)
  BY <1>2, <1>5, <1>7
<1> QED
  BY <1>1, <1>5, <1>6, <1>7, <1>8 DEF ArgsAccounted

\* Every build arg is carried, in its place among the others, or reported as skipped, and not both:
\* the carried and the reported add up to those given, whatever the four reasons to skip and the
\* three ways to carry one, and for a list of any length.
THEOREM ArgsPartitioned == Spec => []BuildArgsPartition
<1>1. Init => BuildArgsPartition
  BY NoneReplaced DEF BuildArgsPartition
<1>2. Background /\ ArgsSoFar /\ BuildArgsPartition /\ [Next]_vars => BuildArgsPartition'
  <2>1. Background /\ ArgsSoFar /\ pc = "classify" /\ Final.bc.strategy.type = "Docker"
          /\ HasStrategy(Final.bc) => ArgsAccounted(Final)
    BY FinalArgs, FinalFields
  <2> QED
    BY <2>1, OneMore DEF BuildArgsPartition
<1> QED
  BY <1>1, <1>2, ArgsAlways, BackgroundAlways, PTL DEF Spec

-----------------------------------------------------------------------------
(* The run order of chained builds.                                        *)

\* The lines are those the chain step computed.
LinesSoFar == pc \in PastChain => notices = ChainLines(bc)

\* Every step of the system keeps it.
LEMMA StepLines ==
  ASSUME Background, LinesSoFar, [Next]_vars
  PROVE  LinesSoFar'
<1>1. TypeOK
  BY DEF Background
<1>2. CASE \E b \in BuildConfigs : Begin(b)
  BY <1>2, NothingPassed DEF LinesSoFar, Begin
<1>3. ASSUME UNCHANGED <<bc, opts>> PROVE ChainLines(bc)' = ChainLines(bc)
  BY <1>3 DEF ChainLines, Resolve
<1>4. CASE Goes /\ Step
  <2>1. UNCHANGED <<bc, opts>>
    BY <1>4, Untouched
  <2>2. pc' \in PastChain <=> pc \in PastChain \/ pc = "chain"
    BY <1>4, Passing DEF Goes
  <2>3. CASE pc # "chain"
    <3>1. UNCHANGED notices
      BY <1>4, <2>3 DEF Goes
    <3> QED
      BY <1>3, <2>1, <2>2, <2>3, <3>1 DEF LinesSoFar
  <2>4. CASE pc = "chain"
    <3>1. notices' = ChainLines(bc)
      BY <1>4, <2>4, StepAt DEF processChainCandidates
    <3> QED
      BY <1>3, <2>1, <3>1 DEF LinesSoFar
  <2> QED
    BY <2>3, <2>4
<1>5. CASE pc' = "idle"
  BY <1>5, NothingPassed DEF LinesSoFar
<1>6. CASE UNCHANGED vars
  BY <1>3, <1>6 DEF vars, LinesSoFar
<1> QED
  BY <1>1, <1>2, <1>4, <1>5, <1>6, NextCases

\* So it holds throughout.
LEMMA LinesAlways == Spec => []LinesSoFar
<1>1. Init => LinesSoFar
  BY NothingPassed DEF Init, LinesSoFar
<1>2. Background /\ LinesSoFar /\ [Next]_vars => LinesSoFar'
  BY StepLines
<1> QED
  BY <1>1, <1>2, BackgroundAlways, PTL DEF Spec

\* The images of its own namespace that an ImageChange trigger watches, by name.
WatchedNames(b) ==
  {imageChangeWatchedObject(b, b.triggers[k].imageChange).name :
     k \in {k \in DOMAIN b.triggers : WatchesChained(b, b.triggers[k])}}

\* Those are the images the triggers' warnings give a run order for.
WatchedSoFar ==
  LET told == Abouts(Own, "ImageChangeDroppedRunOrder")
  IN  /\ pc # "idle" /\ pc \notin PastTriggers => told = {}
      /\ pc \in PastTriggers => told = WatchedNames(bc)

\* What the warning of one trigger says about the run order.
LEMMA TriggerOrders ==
  ASSUME NEW trigger
  PROVE  /\ TriggerWarning(trigger).id = "ImageChangeDroppedRunOrder"
              <=> WatchesChained(bc, trigger)
         /\ WatchesChained(bc, trigger) =>
              TriggerWarning(trigger).about
                = imageChangeWatchedObject(bc, trigger.imageChange).name
<1>1. WatchesChained(bc, trigger) => canonicalTriggerType(trigger.type) = "ImageChange"
  BY DEF WatchesChained
<1>2. "ImageChange" \notin WebhookTypes
  BY DEF WebhookTypes
<1> HIDE DEF WatchesChained, canonicalTriggerType, WebhookTypes, imageChangeWatchedObject
<1>3. CASE WatchesChained(bc, trigger)
  BY <1>1, <1>2, <1>3 DEF TriggerWarning
<1>4. CASE ~WatchesChained(bc, trigger)
  BY <1>2, <1>4 DEF TriggerWarning
<1> QED
  BY <1>3, <1>4

\* The trigger step names each image it gives a run order for.
LEMMA TriggersOrder ==
  ASSUME TypeOK, bc \in BuildConfigs, Triggers
  PROVE  Abouts(Own', "ImageChangeDroppedRunOrder")
           = Abouts(Own, "ImageChangeDroppedRunOrder") \union WatchedNames(bc)
<1> DEFINE s == bc.triggers
           m == [k \in DOMAIN s |-> TriggerWarning(s[k])]
           n == W("TriggersDropped", <<>>)
           id == "ImageChangeDroppedRunOrder"
<1>1. IsList(s)
  BY ListsAssumption
<1>2. Len(s) \in Nat /\ DOMAIN s = 1..Len(s)
  BY <1>1, ListFacts
<1>3. DOMAIN m = DOMAIN s /\ m = [k \in 1..Len(s) |-> m[k]]
  BY <1>2
<1>4. Warn(m \o n) /\ UNCHANGED start
  BY DEF Triggers, Goto, call
<1>5. IsList(n) /\ Abouts(n, id) = {}
  BY ListOfMessages, LedgerOne
<1>6. Abouts(m, id) = WatchedNames(bc)
  <2>1. \A k \in DOMAIN m : m[k].id = id <=> WatchesChained(bc, s[k])
    BY TriggerOrders
  <2>2. \A k \in DOMAIN m : WatchesChained(bc, s[k]) =>
          m[k].about = imageChangeWatchedObject(bc, s[k].imageChange).name
    BY TriggerOrders
  <2>3. WatchedNames(bc) = {imageChangeWatchedObject(bc, s[k].imageChange).name :
                              k \in {k \in DOMAIN s : WatchesChained(bc, s[k])}}
    BY DEF WatchedNames
  <2>4. Abouts(m, id) = {m[k].about : k \in {k \in DOMAIN m : m[k].id = id}}
    BY DEF Abouts, At
  <2> DEFINE watched == {k \in DOMAIN s : WatchesChained(bc, s[k])}
             name(k) == imageChangeWatchedObject(bc, s[k].imageChange).name
  <2>5. {k \in DOMAIN m : m[k].id = id} = watched
    BY <1>3, <2>1
  <2>6. \A k \in watched : m[k].about = name(k)
    BY <1>3, <2>2
  <2>7. Abouts(m, id) = {m[k].about : k \in watched}
    BY <2>4, <2>5
  <2>8. WatchedNames(bc) = {name(k) : k \in watched}
    BY <2>3
  <2> HIDE DEF m, watched, name
  <2> QED
    BY <2>6, <2>7, <2>8
<1> HIDE DEF m, n, s, id
<1>7. IsList(m)
  BY <1>2, <1>3, ListIntro
<1>8. IsList(m \o n)
  BY <1>5, <1>7, ListConcat
<1>9. Abouts(m \o n, id) = Abouts(m, id) \union Abouts(n, id)
  BY <1>5, <1>7, LedgerAdds
<1>10. Abouts(Own', id) = Abouts(Own, id) \union Abouts(m \o n, id)
  BY <1>4, <1>8, Tell
<1>11. Abouts(Own', id) = Abouts(Own, id) \union WatchedNames(bc)
  BY <1>5, <1>6, <1>9, <1>10
<1> QED
  BY <1>11 DEF id

\* Every step of the system keeps it.
LEMMA StepWatched ==
  ASSUME Background, WatchedSoFar, [Next]_vars
  PROVE  WatchedSoFar'
<1> DEFINE id == "ImageChangeDroppedRunOrder"
           told == Abouts(Own, id)
<1>1. TypeOK /\ told' = Abouts(Own', id)
  BY DEF Background
<1>2. CASE \E b \in BuildConfigs : Begin(b)
  <2>1. PICK b \in BuildConfigs : Begin(b)
    BY <1>2
  <2>2. Abouts(Own', "ImageChangeDroppedRunOrder") = {}
    <3> DEFINE ids == {"ImageChangeDroppedRunOrder"}
    <3>1. "RenamedBuild" \notin ids /\ "ImageChangeDroppedRunOrder" \in ids
      OBVIOUS
    <3> HIDE DEF ids
    <3> QED
      BY <1>1, <2>1, <3>1, BeginsUntold
  <2>3. pc' = "strategy" /\ told' = {}
    BY <1>1, <2>1, <2>2 DEF Begin
  <2> HIDE DEF told
  <2> QED
    BY <2>3, NothingPassed DEF WatchedSoFar, told
<1>3. ASSUME UNCHANGED bc PROVE WatchedNames(bc)' = WatchedNames(bc)
  BY <1>3 DEF WatchedNames
<1>4. CASE Goes /\ Step
  <2>1. UNCHANGED bc /\ WatchedNames(bc)' = WatchedNames(bc)
    BY <1>3, <1>4, Untouched
  <2>2. pc' \in PastTriggers <=> pc \in PastTriggers \/ pc = "triggers"
    BY <1>4, Passing DEF Goes
  <2>3. pc # "idle"
    BY <1>4 DEF Goes, Running
  <2>4. CASE pc # "triggers"
    <3>1. told' = told
      <4> DEFINE ids == {"ImageChangeDroppedRunOrder"}
      <4>1. id \in ids /\ \A x \in ids : ~MayRaise(pc, x)
        BY <2>4 DEF MayRaise, DropWarnings
      <4> HIDE DEF ids
      <4>2. Abouts(Own', id) = Abouts(Own, id)
        BY <1>1, <1>4, <4>1, Untold
      <4> QED
        BY <1>1, <4>2
    <3> HIDE DEF told, WatchedNames
    <3> QED
      BY <2>1, <2>2, <2>3, <2>4, <3>1 DEF WatchedSoFar, told
  <2>5. CASE pc = "triggers"
    <3>1. bc \in BuildConfigs /\ pc \notin PastTriggers /\ pc' \in PastTriggers
      BY <1>1, <2>2, <2>3, <2>5, PassedInOrder DEF TypeOK
    <3>2. told = {}
      BY <2>3, <3>1 DEF WatchedSoFar
    <3>3. CASE NoTriggers
      <4>1. bc.triggers = <<>> /\ UNCHANGED <<warnings, start>>
        BY <3>3 DEF NoTriggers, Goto, call
      <4>2. told' = told /\ WatchedNames(bc) = {}
        BY <4>1 DEF Own, OwnWarnings, WatchedNames
      <4> HIDE DEF told, WatchedNames
      <4> QED
        BY <2>1, <3>1, <3>2, <4>2 DEF WatchedSoFar, told
    <3>4. CASE Triggers
      <4>1. told' = told \union WatchedNames(bc)
        BY <1>1, <3>1, <3>4, TriggersOrder
      <4> HIDE DEF told, WatchedNames
      <4> QED
        BY <2>1, <3>1, <3>2, <4>1 DEF WatchedSoFar, told
    <3> QED
      BY <1>4, <2>5, <3>3, <3>4, StepAt
  <2> QED
    BY <2>4, <2>5
<1>5. CASE pc' = "idle"
  BY <1>5, NothingPassed DEF WatchedSoFar
<1>6. CASE UNCHANGED vars
  <2>1. told' = told /\ WatchedNames(bc)' = WatchedNames(bc)
    BY <1>3, <1>6 DEF vars, Own, OwnWarnings
  <2> HIDE DEF told, WatchedNames
  <2> QED
    BY <1>6, <2>1 DEF vars, WatchedSoFar, told
<1> QED
  BY <1>1, <1>2, <1>4, <1>5, <1>6, NextCases

\* So it holds throughout.
LEMMA WatchedAlways == Spec => []WatchedSoFar
<1>1. Init => WatchedSoFar
  BY NothingPassed DEF Init, WatchedSoFar
<1>2. Background /\ WatchedSoFar /\ [Next]_vars => WatchedSoFar'
  BY StepWatched
<1> QED
  BY <1>1, <1>2, BackgroundAlways, PTL DEF Spec

\* The warning that gives the run order for an image whose paths are dropped,
PathsId == "PathsDroppedRunOrder"

\* and the BuildConfigs it is raised for.
PathsChained(b) ==
  /\ Kinds(b.source) = {"images"} /\ b.source.images[1].paths # <<>>
  /\ chainCandidate(b, ImageOf(b))

\* It is raised by the source step, which accepts at most one image.
PathsSoFar ==
  /\ pc # "idle" /\ pc \notin PastSource => Tally(Own, PathsId) = 0
  /\ pc \in PastSource =>
       /\ Tally(Own, PathsId) = IF PathsChained(bc) THEN 1 ELSE 0
       /\ bc.source.images # <<>> =>
            Kinds(bc.source) = {"images"} /\ Len(bc.source.images) = 1

\* The warnings about mounts and clone secrets give no run order.
LEMMA AroundSource ==
  ASSUME TypeOK, bc \in BuildConfigs, NEW m, IsList(m), UNCHANGED start,
         Warn(InertSecretWarning \o m \o MountWarnings)
  PROVE  Tally(Own, PathsId)' = Tally(Own, PathsId) + Tally(m, PathsId)
<1> DEFINE id == PathsId
           s == InertSecretWarning
           t == MountWarnings
           u == s \o m
<1>1. IsList(s) /\ Tally(s, id) = 0
  <2> DEFINE w == W("SourceSecretDropped", <<Source.sourceSecret>>)
  <2>1. Tally(w, id) = 0
    BY TallyOne DEF PathsId
  <2>2. s = w \/ s = <<>>
    BY DEF InertSecretWarning, When
  <2>3. IsList(s) /\ Tally(<<>>, id) = 0
    BY <2>2, ListOfMessages, LedgerNone DEF Tally
  <2> HIDE DEF s, w, id
  <2> QED
    BY <2>1, <2>2, <2>3
<1>2. IsList(t) /\ Tally(t, id) = 0
  <2>1. "ConfigMapMount" # id /\ "SecretMount" # id
    BY DEF PathsId
  <2> HIDE DEF id
  <2>2. IsList(MountWarnings)
        /\ Tally(MountWarnings, id) = (IF "ConfigMapMount" = id THEN Len(Source.configMaps) ELSE 0)
                                        + (IF "SecretMount" = id THEN Len(Source.secrets) ELSE 0)
    BY MountsTold
  <2> QED
    BY <2>1, <2>2
<1>3. Warn(u \o t)
  OBVIOUS
<1> HIDE DEF s, t, id
<1>4. IsList(s) /\ IsList(m)
  BY <1>1
<1>5. IsList(u) /\ Tally(u, id) = Tally(s, id) + Tally(m, id)
  BY <1>4, TallyAdds
<1> HIDE DEF u
<1>6. IsList(u) /\ IsList(t)
  BY <1>2, <1>5
<1>7. IsList(u \o t) /\ Tally(u \o t, id) = Tally(u, id) + Tally(t, id)
  BY <1>6, TallyAdds
<1>8. Tally(Own, id)' = Tally(Own, id) + Tally(u \o t, id)
  BY <1>3, <1>7, TallyTell
<1>9. Tally(m, id) \in Nat
  BY LedgerCounts DEF Tally
<1>10. Tally(u \o t, id) = Tally(m, id)
  BY <1>1, <1>2, <1>5, <1>7, <1>9
<1> QED
  BY <1>8, <1>10 DEF id

\* What an image source raises about it.
LEMMA PathsTold ==
  ASSUME NEW resolved, resolved = Resolve(bc, ImageOf(bc)), NEW about, NEW m,
         m = AsWarning \o When(resolved.warning # Blank, W(resolved.warning, about))
               \o PathsWarning(resolved)
  PROVE  /\ IsList(m)
         /\ Tally(m, PathsId) = IF /\ Source.images[1].paths # <<>>
                                   /\ chainCandidate(bc, ImageOf(bc)) THEN 1 ELSE 0
<1> DEFINE id == PathsId
           s == AsWarning
           t == When(resolved.warning # Blank, W(resolved.warning, about))
           v == PathsWarning(resolved)
           chained == chainCandidate(bc, ImageOf(bc))
           partly == Source.images[1].paths # <<>>
           path == IF chained THEN "PathsDroppedRunOrder" ELSE "PathsDropped"
           w == W(path, resolved.image)
           as == W("ImageAsDropped", <<>>)
<1>1. IsList(s) /\ Tally(s, id) = 0
  <2>1. Tally(as, id) = 0
    BY TallyOne DEF PathsId
  <2>2. s = as \/ s = <<>>
    BY DEF AsWarning, When
  <2>3. IsList(s)
    BY <2>2, ListOfMessages
  <2>4. Tally(<<>>, id) = 0
    BY LedgerNone DEF Tally
  <2> HIDE DEF as, s
  <2> QED
    BY <2>1, <2>2, <2>3, <2>4
<1>2. IsList(t) /\ Tally(t, id) = 0
  <2>1. Messages(t, "strategy")
    BY ResolveWarnings
  <2>2. IsList(t) /\ ~MayRaise("strategy", id)
    BY <2>1 DEF Messages, MayRaise, PathsId
  <2> HIDE DEF t
  <2> QED
    BY <2>1, <2>2, TallySilent
<1>3. IsList(v) /\ Tally(v, id) = IF partly /\ chained THEN 1 ELSE 0
  <2>1. Tally(w, id) = IF chained THEN 1 ELSE 0
    <3>1. path = id <=> chained
      BY DEF PathsId
    <3> HIDE DEF path, chained, id
    <3> QED
      BY <3>1, TallyOne
  <2>2. v = When(partly, w)
    BY DEF PathsWarning
  <2>3. IsList(v)
    BY ListOfMessages DEF PathsWarning
  <2> HIDE DEF w, v, partly, chained
  <2>4. Tally(v, id) = IF partly THEN Tally(w, id) ELSE 0
    BY <2>2, TallyWhen
  <2> QED
    BY <2>1, <2>3, <2>4
<1>4. m = (s \o t) \o v
  OBVIOUS
<1> HIDE DEF s, t, v, w, path, as
<1> DEFINE u == s \o t
<1>5. IsList(s) /\ IsList(t)
  BY <1>1, <1>2
<1>6. IsList(u) /\ Tally(u, id) = Tally(s, id) + Tally(t, id)
  BY <1>5, TallyAdds
<1> HIDE DEF u, id, chained, partly
<1>7. IsList(u) /\ IsList(v) /\ Tally(u, id) = 0
  BY <1>1, <1>2, <1>3, <1>6
<1>8. IsList(u \o v) /\ Tally(u \o v, id) = Tally(u, id) + Tally(v, id)
  BY <1>7, TallyAdds
<1>9. m = u \o v
  BY <1>4 DEF u
<1>10. Tally(u \o v, id) = IF partly /\ chained THEN 1 ELSE 0
  BY <1>3, <1>7, <1>8
<1> QED
  BY <1>8, <1>9, <1>10, Zenon DEF id, partly, chained

\* The source step raises it once, or not at all.
LEMMA SourcePaths ==
  ASSUME TypeOK, bc \in BuildConfigs, UNCHANGED start,
         NoSource \/ GitSource \/ BinaryFile \/ ImageSource
  PROVE  /\ Tally(Own, PathsId)' = Tally(Own, PathsId) + (IF PathsChained(bc) THEN 1 ELSE 0)
         /\ bc.source.images # <<>> => Kinds(bc.source) = {"images"} /\ Len(bc.source.images) = 1
<1> DEFINE tally == Tally(Own, PathsId)
<1>1. bc.source.images # <<>> <=> "images" \in Kinds(Source)
  BY DEF Kinds, Source
<1>2. tally \in Nat /\ IsList(<<>>) /\ Tally(<<>>, PathsId) = 0
  <2>1. IsList(Own) /\ IsList(<<>>) /\ Tally(<<>>, PathsId) = 0
    BY Context, ListOfMessages, LedgerNone DEF Tally
  <2> DEFINE ids == {PathsId}
  <2>2. tally = Count(Own, ids)
    BY DEF Tally
  <2> HIDE DEF ids, tally
  <2>3. Count(Own, ids) \in Nat
    BY <2>1, LedgerCounts
  <2> QED
    BY <2>1, <2>2, <2>3
<1>3. CASE NoSource
  <2> DEFINE m == InertSecretWarning
             n == W("NoSource", bc.name)
             w == W("SourceSecretDropped", <<Source.sourceSecret>>)
  <2>1. Kinds(Source) = {} /\ Warn(m \o n)
    BY <1>3 DEF NoSource
  <2>2. IsList(n) /\ Tally(n, PathsId) = 0
    BY TallyOne, ListOfMessages DEF PathsId
  <2>3. IsList(m) /\ Tally(m, PathsId) = 0
    <3>1. Tally(w, PathsId) = 0
      BY TallyOne DEF PathsId
    <3>2. m = w \/ m = <<>>
      BY DEF InertSecretWarning, When
    <3>3. IsList(m)
      BY <3>2, ListOfMessages
    <3> HIDE DEF m, w
    <3> QED
      BY <1>2, <3>1, <3>2, <3>3
  <2> HIDE DEF m, n
  <2>4. IsList(m) /\ IsList(n)
    BY <2>2, <2>3
  <2>5. IsList(m \o n) /\ Tally(m \o n, PathsId) = Tally(m, PathsId) + Tally(n, PathsId)
    BY <2>4, TallyAdds
  <2>6. Tally(Own, PathsId)' = tally + Tally(m \o n, PathsId)
    BY <2>1, <2>5, TallyTell
  <2>7. ~PathsChained(bc)
    BY <2>1 DEF PathsChained, Source
  <2> HIDE DEF tally
  <2>8. Tally(Own, PathsId)' = tally
    BY <1>2, <2>2, <2>3, <2>5, <2>6
  <2> QED
    BY <1>1, <1>2, <2>1, <2>7, <2>8 DEF tally
<1>4. CASE GitSource \/ BinaryFile
  <2>1. Kinds(Source) \in {{"git"}, {"binary"}}
        /\ Warn(InertSecretWarning \o <<>> \o MountWarnings)
    BY <1>4 DEF GitSource, BinaryFile, SourceDone
  <2>2. Tally(Own, PathsId)' = tally + Tally(<<>>, PathsId)
    BY <1>2, <2>1, AroundSource
  <2>3. "images" \notin Kinds(Source)
    BY <2>1
  <2>4. ~PathsChained(bc)
    BY <2>3 DEF PathsChained, Source
  <2> HIDE DEF tally
  <2>5. Tally(Own, PathsId)' = tally
    BY <1>2, <2>2
  <2> QED
    BY <1>1, <1>2, <2>3, <2>4, <2>5 DEF tally
<1>5. CASE ImageSource
  <2> DEFINE resolved == Resolve(bc, ImageOf(bc))
             m == AsWarning \o When(resolved.warning # Blank, W(resolved.warning, ImageOf(bc).name))
                    \o PathsWarning(resolved)
  <2>1. Kinds(Source) = {"images"} /\ Len(Source.images) = 1
        /\ Warn(InertSecretWarning \o m \o MountWarnings)
    BY <1>5 DEF ImageSource, SourceDone
  <2>2. IsList(m) /\ Tally(m, PathsId) = IF /\ Source.images[1].paths # <<>>
                                            /\ chainCandidate(bc, ImageOf(bc)) THEN 1 ELSE 0
    BY PathsTold
  <2> HIDE DEF m
  <2>3. Tally(Own, PathsId)' = Tally(Own, PathsId) + Tally(m, PathsId)
    BY <2>1, <2>2, AroundSource
  <2>4. PathsChained(bc) <=> Source.images[1].paths # <<>> /\ chainCandidate(bc, ImageOf(bc))
    BY <2>1 DEF PathsChained, Source
  <2> HIDE DEF Kinds, PathsChained, chainCandidate
  <2> QED
    BY <2>1, <2>2, <2>3, <2>4 DEF Source
<1> QED
  BY <1>3, <1>4, <1>5

\* Every step of the system keeps it.
LEMMA StepPaths ==
  ASSUME Background, PathsSoFar, [Next]_vars
  PROVE  PathsSoFar'
<1> DEFINE tally == Tally(Own, PathsId)
<1>1. TypeOK
  BY DEF Background
<1>2. CASE \E b \in BuildConfigs : Begin(b)
  <2>1. PICK b \in BuildConfigs : Begin(b)
    BY <1>2
  <2>2. Tally(Own, PathsId)' = 0 /\ pc' = "strategy"
    BY <1>1, <2>1, TallyBegins DEF Begin, PathsId
  <2> HIDE DEF Own, Tally
  <2> QED
    BY <2>2, NothingPassed DEF PathsSoFar
<1>3. ASSUME UNCHANGED bc PROVE PathsChained(bc)' = PathsChained(bc)
  BY <1>3 DEF PathsChained, ImageOf, NamespaceOf, chainCandidate, Kinds
<1>4. CASE Goes /\ Step
  <2>1. UNCHANGED bc /\ PathsChained(bc)' = PathsChained(bc)
        /\ Kinds(bc.source)' = Kinds(bc.source)
    BY <1>3, <1>4, Untouched
  <2>2. pc' \in PastSource <=> pc \in PastSource \/ pc = "source"
    BY <1>4, Passing DEF Goes
  <2>3. pc # "idle"
    BY <1>4 DEF Goes, Running
  <2>4. CASE pc # "source"
    <3>1. ~MayRaise(pc, PathsId)
      BY <2>4 DEF MayRaise, DropWarnings, PathsId
    <3>2. Tally(Own, PathsId)' = Tally(Own, PathsId)
      BY <1>1, <1>4, <3>1, TallyUntold
    <3> HIDE DEF Own, Tally, PathsChained, Kinds, PathsId
    <3> QED
      BY <2>1, <2>2, <2>3, <2>4, <3>2 DEF PathsSoFar
  <2>5. CASE pc = "source"
    <3>1. UNCHANGED start /\ bc \in BuildConfigs
      BY <1>4, <1>1, <2>3 DEF Goes, call, TypeOK
    <3>2. pc \notin PastSource /\ pc' \in PastSource
      BY <2>2, <2>5, PassedInOrder DEF PastSource
    <3>3. NoSource \/ GitSource \/ BinaryFile \/ ImageSource
      BY <1>4, <2>5, StepAt
    <3>4. /\ Tally(Own, PathsId)' = Tally(Own, PathsId) + (IF PathsChained(bc) THEN 1 ELSE 0)
          /\ bc.source.images # <<>> => Kinds(bc.source) = {"images"} /\ Len(bc.source.images) = 1
      BY <1>1, <3>1, <3>3, SourcePaths
    <3>5. Tally(Own, PathsId) = 0
      BY <2>3, <3>2 DEF PathsSoFar
    <3> HIDE DEF Own, Tally, PathsChained, Kinds, PathsId
    <3> QED
      BY <2>1, <3>2, <3>4, <3>5 DEF PathsSoFar
  <2> QED
    BY <2>4, <2>5
<1>5. CASE pc' = "idle"
  BY <1>5, NothingPassed DEF PathsSoFar
<1>6. CASE UNCHANGED vars
  <2>1. Tally(Own, PathsId)' = Tally(Own, PathsId) /\ UNCHANGED <<pc, bc>>
    BY <1>6 DEF vars, Own, OwnWarnings, Tally
  <2>2. PathsChained(bc)' = PathsChained(bc) /\ Kinds(bc.source)' = Kinds(bc.source)
    BY <1>3, <2>1
  <2> HIDE DEF Own, Tally, PathsChained, Kinds, PathsId
  <2> QED
    BY <2>1, <2>2 DEF PathsSoFar
<1> QED
  BY <1>1, <1>2, <1>4, <1>5, <1>6, NextCases

\* So it holds throughout.
LEMMA PathsAlways == Spec => []PathsSoFar
<1>1. Init => PathsSoFar
  BY NothingPassed DEF Init, PathsSoFar
<1>2. Background /\ PathsSoFar /\ [Next]_vars => PathsSoFar'
  BY StepPaths
<1> QED
  BY <1>1, <1>2, BackgroundAlways, PTL DEF Spec

\* A set of at most two numbers.
LEMMA PartsOfTwo ==
  ASSUME NEW s \in SUBSET {1, 2}
  PROVE  s = {} \/ s = {1} \/ s = {2} \/ s = {1, 2}
<1>1. CASE 1 \in s /\ 2 \in s
  BY <1>1
<1>2. CASE 1 \in s /\ 2 \notin s
  BY <1>2
<1>3. CASE 1 \notin s /\ 2 \in s
  BY <1>3
<1>4. CASE 1 \notin s /\ 2 \notin s
  BY <1>4
<1> QED
  BY <1>1, <1>2, <1>3, <1>4

\* What is in a list of at most two elements.
LEMMA ShortLists ==
  ASSUME NEW s, IsList(s)
  PROVE  /\ Len(s) = 0 => ToSet(s) = {}
         /\ Len(s) = 1 => ToSet(s) = {s[1]}
         /\ Len(s) = 2 => ToSet(s) = {s[1], s[2]}
<1>1. DOMAIN s = 1..Len(s)
  BY ListFacts
<1>2. 1..0 = {} /\ 1..1 = {1} /\ 1..2 = {1, 2}
  OBVIOUS
<1> QED
  BY <1>1, <1>2 DEF ToSet

\* The members of needs whose image no smaller one has.
Firsts(needs, image) == {k \in needs : \A j \in 1..(k - 1) : j \in needs => image[j] # image[k]}

\* The members of printed up to k, and pick as the list of all of them in ascending order.
UpTo(printed, k) == {j \in printed : j <= k}

Ranked(pick, printed) ==
  \A m \in 1..Cardinality(printed) :
    (\E k \in printed : Cardinality(UpTo(printed, k)) = m)
      => pick[m] \in printed /\ Cardinality(UpTo(printed, pick[m])) = m

\* The images at the members of ks, and the list of those that pick names.
Images(image, ks) == {image[k] : k \in ks}

Picked(image, pick, c) == [m \in 1..c |-> image[pick[m]]]

\* Of at most two inputs, those that need a line and whose image no earlier one has: the lines
\* hold each image once.
LEMMA LinesOnce ==
  ASSUME NEW needs \in SUBSET {1, 2}, NEW image,
         NEW printed, printed = Firsts(needs, image), NEW pick, Ranked(pick, printed),
         NEW lines, lines = Picked(image, pick, Cardinality(printed))
  PROVE  /\ ToSet(lines) = Images(image, needs)
         /\ Cardinality(Images(image, needs)) = Len(lines)
<1> DEFINE images == Images(image, needs)
<1>1. /\ Cardinality({}) = 0
      /\ \A x : IsFiniteSet({x}) /\ Cardinality({x}) = 1
  BY FS_EmptySet, FS_Singleton
<1>2. ASSUME NEW x, NEW y, x # y PROVE Cardinality({x, y}) = 2
  <2> DEFINE single == {x}
             both == {x, y}
  <2>1. IsFiniteSet(single) /\ Cardinality(single) = 1 /\ y \notin single
    BY <1>1, <1>2
  <2>2. both = single \union {y}
    OBVIOUS
  <2> HIDE DEF single, both
  <2>3. Cardinality(single \union {y}) = Cardinality(single) + 1
    BY <2>1, FS_AddElement
  <2>4. Cardinality(both) = 2
    BY <2>1, <2>2, <2>3
  <2> QED
    BY <2>4 DEF both
<1>3. Cardinality({1, 2}) = 2
  <2>1. 1 # 2
    OBVIOUS
  <2> QED
    BY <1>2, <2>1
<1>4. needs \subseteq {1, 2} /\ printed \subseteq needs
  BY DEF Firsts
<1>5. 1 \in printed <=> 1 \in needs
  BY DEF Firsts
<1>6. 2 \in printed <=> 2 \in needs /\ (1 \in needs => image[1] # image[2])
  <2>1. 1..(2 - 1) = {1}
    OBVIOUS
  <2> QED
    BY <2>1 DEF Firsts
<1>7. ASSUME NEW c \in Nat, Cardinality(printed) = c
      PROVE  IsList(lines) /\ Len(lines) = c /\ \A m \in 1..c : lines[m] = image[pick[m]]
  <2>1. lines = [m \in 1..c |-> image[pick[m]]]
    BY <1>7 DEF Picked
  <2>2. \A m \in 1..c : lines[m] = image[pick[m]]
    BY <2>1
  <2>3. lines = [m \in 1..c |-> lines[m]]
    BY <2>1
  <2> QED
    BY <2>2, <2>3, ListIntro
<1>8. CASE printed = {}
  <2>1. needs = {}
    BY <1>4, <1>5, <1>6, <1>8
  <2>2. Cardinality(printed) = 0
    BY <1>1, <1>8
  <2>3. IsList(lines) /\ Len(lines) = 0
    BY <1>7, <2>2
  <2>4. ToSet(lines) = {} /\ images = {}
    BY <2>1, <2>3, ShortLists DEF Images
  <2> QED
    BY <1>1, <2>3, <2>4
<1>9. ASSUME NEW x \in {1, 2}, printed = {x}
      PROVE  ToSet(lines) = images /\ Cardinality(images) = Len(lines)
  <2>1. UpTo(printed, x) = {x}
    BY <1>9 DEF UpTo
  <2>2. Cardinality(UpTo(printed, x)) = 1
    BY <1>1, <2>1
  <2>3. Cardinality(printed) = 1
    BY <1>1, <1>9
  <2>4. pick[1] = x
    BY <1>9, <2>2, <2>3 DEF Ranked
  <2>5. IsList(lines) /\ Len(lines) = 1 /\ \A m \in 1..1 : lines[m] = image[pick[m]]
    BY <1>7, <2>3
  <2>6. IsList(lines) /\ Len(lines) = 1 /\ lines[1] = image[pick[1]]
    <3>1. 1 \in 1..1
      OBVIOUS
    <3> QED
      BY <2>5, <3>1, Zenon
  <2>7. ToSet(lines) = {image[x]}
    BY <2>4, <2>6, ShortLists
  <2>8. images = {image[x]}
    <3>1. x \in needs /\ \A k \in needs : image[k] = image[x]
      BY <1>4, <1>5, <1>6, <1>9
    <3> QED
      BY <3>1 DEF Images
  <2> QED
    BY <1>1, <2>6, <2>7, <2>8
<1>10. CASE printed = {1, 2}
  <2>1. UpTo(printed, 1) = {1} /\ UpTo(printed, 2) = {1, 2}
    BY <1>10 DEF UpTo
  <2>2. Cardinality(UpTo(printed, 1)) = 1 /\ Cardinality(UpTo(printed, 2)) = 2
    BY <1>1, <1>3, <2>1
  <2>3. Cardinality(printed) = 2
    BY <1>10, <1>3
  <2>4. pick[1] = 1 /\ pick[2] = 2
    <3>1. \A k \in printed : (Cardinality(UpTo(printed, k)) = 1 <=> k = 1)
                             /\ (Cardinality(UpTo(printed, k)) = 2 <=> k = 2)
      BY <1>10, <2>2
    <3> QED
      BY <1>10, <2>3, <3>1 DEF Ranked
  <2>5. IsList(lines) /\ Len(lines) = 2 /\ \A m \in 1..2 : lines[m] = image[pick[m]]
    BY <1>7, <2>3
  <2>6. IsList(lines) /\ Len(lines) = 2 /\ lines[1] = image[pick[1]] /\ lines[2] = image[pick[2]]
    <3>1. 1 \in 1..2 /\ 2 \in 1..2
      OBVIOUS
    <3> QED
      BY <2>5, <3>1, Zenon
  <2>7. ToSet(lines) = {image[1], image[2]}
    BY <2>4, <2>6, ShortLists
  <2>8. images = {image[1], image[2]} /\ image[1] # image[2]
    BY <1>4, <1>6, <1>10 DEF Images
  <2>9. Cardinality({image[1], image[2]}) = 2
    BY <1>2, <2>8
  <2> DEFINE two == {image[1], image[2]}
  <2>10. images = two /\ ToSet(lines) = two /\ Cardinality(two) = 2
    BY <2>7, <2>8, <2>9
  <2> HIDE DEF images, two
  <2>11. ToSet(lines) = images /\ Cardinality(images) = Len(lines)
    BY <2>6, <2>10
  <2> QED
    BY <2>11 DEF images
<1> HIDE DEF images
<1> QED
  <2>1. printed = {} \/ printed = {1} \/ printed = {2} \/ printed = {1, 2}
    BY <1>4, PartsOfTwo
  <2> QED
    BY <1>8, <1>9, <1>10, <2>1 DEF images

\* A candidate whose namespace was defaulted is in the BuildConfig's own.
LEMMA OwnNamespace ==
  ASSUME NEW b, NEW x, NEW kind, NEW name, chainCandidate(b, Ref(kind, NamespaceOf(b, x), name))
  PROVE  NamespaceOf(b, x) = b.ns /\ kind = "ImageStreamTag"
BY DEF chainCandidate, NamespaceOf, Ref

\* A reference in three parts, in the BuildConfig's namespace, that names an image.
Owned(b, ref) ==
  /\ ref = Ref("ImageStreamTag", b.ns, ref.name)
  /\ ref.name # <<>>

\* An image a trigger watches is one when it may be chained,
LEMMA WatchedOwned ==
  ASSUME NEW b, NEW change, imageChangeWatchedObject(b, change) # Nil,
         chainCandidate(b, imageChangeWatchedObject(b, change))
  PROVE  Owned(b, imageChangeWatchedObject(b, change))
<1> DEFINE from == IF change # Nil /\ NamesImage(change.from) THEN change.from ELSE StrategyImage(b)
           kind == IF from.kind = Blank THEN "ImageStreamTag" ELSE from.kind
<1>1. /\ NamesImage(from)
      /\ imageChangeWatchedObject(b, change) = Ref(kind, NamespaceOf(b, from), from.name)
  BY DEF imageChangeWatchedObject, Defaulted
<1> HIDE DEF from, kind
<1>2. NamespaceOf(b, from) = b.ns /\ kind = "ImageStreamTag"
  BY <1>1, OwnNamespace
<1> QED
  BY <1>1, <1>2 DEF Owned, NamesImage, Ref

\* and so is an input.
LEMMA InputOwned ==
  ASSUME NEW b, NEW ref \in Inputs(b), chainCandidate(b, ref)
  PROVE  Owned(b, ref)
<1> DEFINE x == StrategyImage(b)
           kind == IF x.kind = Blank THEN "ImageStreamTag" ELSE x.kind
<1>1. \/ NamesImage(x) /\ ref = Ref(kind, NamespaceOf(b, x), x.name)
      \/ ImageOf(b).name # <<>> /\ ref = SoleImageRef(b)
  BY DEF Inputs, Defaulted
<1> HIDE DEF x, kind
<1>2. CASE NamesImage(x) /\ ref = Ref(kind, NamespaceOf(b, x), x.name)
  <2>1. NamespaceOf(b, x) = b.ns /\ kind = "ImageStreamTag"
    BY <1>2, OwnNamespace
  <2> QED
    BY <1>2, <2>1 DEF Owned, NamesImage, Ref
<1>3. CASE ImageOf(b).name # <<>> /\ ref = SoleImageRef(b)
  <2>1. ref = Ref(ImageOf(b).kind, NamespaceOf(b, ImageOf(b)), ImageOf(b).name)
    BY <1>3 DEF SoleImageRef
  <2>2. NamespaceOf(b, ImageOf(b)) = b.ns /\ ImageOf(b).kind = "ImageStreamTag"
    BY <2>1, OwnNamespace
  <2> QED
    BY <1>3, <2>1, <2>2 DEF Owned, Ref
<1> QED
  BY <1>1, <1>2, <1>3

\* Two of them are the same when their keys are, that is when their names are.
LEMMA SameOwned ==
  ASSUME NEW b, NEW x, NEW y, Owned(b, x), Owned(b, y)
  PROVE  /\ chainKey(x) = chainKey(y) <=> x.name = y.name
         /\ x = y <=> x.name = y.name
<1>1. x.ns = y.ns
  BY DEF Owned, Ref
<1> QED
  BY <1>1 DEF Owned, chainKey

\* The sole image may be chained when the source image may.
LEMMA SoleCandidate ==
  ASSUME NEW b
  PROVE  /\ chainCandidate(b, SoleImageRef(b)) <=> chainCandidate(b, ImageOf(b))
         /\ chainCandidate(b, SoleImageRef(b)) /\ ImageOf(b).name # <<>> =>
              Owned(b, SoleImageRef(b))
<1> DEFINE x == ImageOf(b)
<1>1. SoleImageRef(b) = Ref(x.kind, NamespaceOf(b, x), x.name)
  BY DEF SoleImageRef
<1> HIDE DEF x
<1>2. chainCandidate(b, SoleImageRef(b)) <=> chainCandidate(b, x)
  BY <1>1 DEF chainCandidate, NamespaceOf, Ref
<1>3. ASSUME chainCandidate(b, SoleImageRef(b)), x.name # <<>>
      PROVE  Owned(b, SoleImageRef(b))
  <2>1. NamespaceOf(b, x) = b.ns /\ x.kind = "ImageStreamTag"
    BY <1>1, <1>3, OwnNamespace
  <2> QED
    BY <1>1, <1>3, <2>1 DEF Owned, Ref
<1> QED
  BY <1>2, <1>3 DEF x

\* The warnings Finish returns name exactly the inputs the chain step takes to be warned about.
LEMMA OrderKnown ==
  ASSUME Background, WatchedSoFar, PathsSoFar, pc = "classify", NEW ref \in Chained(Final)
  PROVE  OrderWarned(Final, ref) <=> chainKey(ref) \in WarnedKeys(bc)
<1> DEFINE sole == SoleImageRef(bc)
           watched(k) == imageChangeWatchedObject(bc, bc.triggers[k].imageChange)
           chosen == {k \in DOMAIN bc.triggers : WatchesChained(bc, bc.triggers[k])}
           dropped == SoleImage(bc, TRUE) /\ chainCandidate(bc, sole)
<1>1. Final.bc = bc /\ TypeOK
  BY FinalFields DEF Background
<1>2. ref \in Inputs(bc) /\ chainCandidate(bc, ref)
  BY <1>1 DEF Chained
<1>3. Owned(bc, ref)
  BY <1>2, InputOwned
<1>4. Names(Final, "ImageChangeDroppedRunOrder") = WatchedNames(bc)
  <2> DEFINE ids == {"ImageChangeDroppedRunOrder"}
  <2>1. "WarningsOmitted" \notin ids /\ "ImageChangeDroppedRunOrder" \in ids
    OBVIOUS
  <2> HIDE DEF ids
  <2>2. Names(Final, "ImageChangeDroppedRunOrder") = Abouts(Own, "ImageChangeDroppedRunOrder")
    BY <1>1, <2>1, FinalSays
  <2> QED
    BY <2>2, PassedInOrder DEF WatchedSoFar
<1>5. Raised(Final, "PathsDroppedRunOrder") # {} <=> PathsChained(bc)
  <2> DEFINE ids == {"PathsDroppedRunOrder"}
  <2>1. "WarningsOmitted" \notin ids /\ "PathsDroppedRunOrder" \in ids
    OBVIOUS
  <2> HIDE DEF ids
  <2>2. Raised(Final, "PathsDroppedRunOrder") # {} <=> Tally(Own, "PathsDroppedRunOrder") # 0
    BY <1>1, <2>1, FinalSays DEF Tally
  <2> QED
    BY <2>2, PassedInOrder DEF PathsSoFar, PathsId
<1>6. ASSUME NEW k \in chosen
      PROVE  chainKey(ref) = chainKey(watched(k)) <=> ref.name = watched(k).name
  <2>1. Owned(bc, watched(k))
    BY <1>6, WatchedOwned DEF WatchesChained
  <2> QED
    BY <1>3, <2>1, SameOwned
<1>7. dropped /\ chainKey(ref) = chainKey(sole) <=> PathsChained(bc) /\ ref = sole
  <2>1. ASSUME dropped, chainKey(ref) = chainKey(sole)
        PROVE  PathsChained(bc) /\ ref = sole
    <3>1. Len(bc.source.images) = 1 /\ ImageOf(bc).name # <<>> /\ bc.source.images[1].paths # <<>>
      BY <2>1 DEF SoleImage
    <3>2. Owned(bc, sole) /\ chainCandidate(bc, ImageOf(bc))
      BY <2>1, <3>1, SoleCandidate
    <3>3. bc.source.images # <<>>
      BY <3>1
    <3>4. Kinds(bc.source) = {"images"}
      BY <3>3, PassedInOrder DEF PathsSoFar
    <3> HIDE DEF sole
    <3>5. ref = sole
      BY <1>3, <2>1, <3>2, SameOwned
    <3> QED
      BY <3>1, <3>2, <3>4, <3>5 DEF PathsChained
  <2>2. ASSUME PathsChained(bc), ref = sole
        PROVE  dropped /\ chainKey(ref) = chainKey(sole)
    <3>1. bc.source.images[1].paths # <<>> /\ "images" \in Kinds(bc.source)
      BY <2>2 DEF PathsChained
    <3>2. bc.source.images # <<>>
      BY <3>1 DEF Kinds
    <3>3. Len(bc.source.images) = 1
      BY <3>2, PassedInOrder DEF PathsSoFar
    <3>4. ImageOf(bc).name # <<>>
      BY <1>3, <2>2 DEF Owned, SoleImageRef, Ref
    <3> QED
      BY <1>2, <2>2, <3>1, <3>3, <3>4 DEF SoleImage
  <2> QED
    BY <2>1, <2>2
<1>8. chainKey(ref) \in WarnedKeys(bc)
        <=> (\E k \in chosen : chainKey(ref) = chainKey(watched(k)))
            \/ (dropped /\ chainKey(ref) = chainKey(sole))
  <2> HIDE DEF chainKey
  <2> QED
    BY DEF WarnedKeys
<1>9. ref.name \in WatchedNames(bc) <=> \E k \in chosen : ref.name = watched(k).name
  BY DEF WatchedNames
<1> HIDE DEF watched, chosen, dropped, sole
<1>10. (\E k \in chosen : chainKey(ref) = chainKey(watched(k)))
          <=> \E k \in chosen : ref.name = watched(k).name
  BY <1>6
<1>11. OrderWarned(Final, ref)
         <=> ref.name \in Names(Final, "ImageChangeDroppedRunOrder")
             \/ (Raised(Final, "PathsDroppedRunOrder") # {} /\ ref = sole)
  BY <1>1 DEF OrderWarned, sole
<1> QED
  BY <1>4, <1>5, <1>7, <1>8, <1>9, <1>10, <1>11

\* At most two inputs are considered for a line,
LEMMA InputsListed ==
  ASSUME bc \in BuildConfigs
  PROVE  /\ IsList(chainInputs(bc)) /\ Len(chainInputs(bc)) \in {0, 1, 2}
         /\ \A ref : ref \in ToSet(chainInputs(bc))
              <=> \/ NamesImage(StrategyImage(bc)) /\ ref = Defaulted(bc, StrategyImage(bc))
                  \/ SoleImage(bc, FALSE) /\ ref = SoleImageRef(bc)
<1> DEFINE from == imageChangeWatchedObject(bc, Nil)
           sole == SoleImageRef(bc)
           named == NamesImage(StrategyImage(bc))
           whole == SoleImage(bc, FALSE)
           s == When(from # Nil, <<from>>)
           t == When(whole, <<sole>>)
<1>1. from = IF named THEN Defaulted(bc, StrategyImage(bc)) ELSE Nil
  BY DEF imageChangeWatchedObject
<1>2. named <=> from # Nil
  BY <1>1, DefaultedAssumption
<1>3. chainInputs(bc) = s \o t
  BY DEF chainInputs
<1>4. ASSUME NEW x, NEW condition, NEW m, m = When(condition, <<x>>)
      PROVE  IsList(m) /\ Len(m) \in {0, 1} /\ \A ref : ref \in ToSet(m) <=> condition /\ ref = x
  <2>1. m = IF condition THEN <<x>> ELSE <<>>
    BY <1>4 DEF When
  <2>2. CASE condition
    <3>1. m = <<x>>
      BY <2>1, <2>2
    <3>2. IsList(m) /\ Len(m) = 1 /\ m[1] = x
      BY <3>1 DEF IsList, ToSet
    <3> QED
      BY <2>2, <3>2, ShortLists
  <2>3. CASE ~condition
    <3>1. m = <<>>
      BY <2>1, <2>3
    <3>2. IsList(m) /\ Len(m) = 0
      BY <3>1 DEF IsList, ToSet
    <3> QED
      BY <2>3, <3>2, ShortLists
  <2> QED
    BY <2>2, <2>3
<1> HIDE DEF from, sole, named, whole
<1>5. IsList(s) /\ Len(s) \in {0, 1} /\ \A ref : ref \in ToSet(s) <=> from # Nil /\ ref = from
  BY <1>4
<1>6. IsList(t) /\ Len(t) \in {0, 1} /\ \A ref : ref \in ToSet(t) <=> whole /\ ref = sole
  BY <1>4
<1> HIDE DEF s, t
<1>7. IsList(s \o t) /\ Len(s \o t) = Len(s) + Len(t)
  BY <1>5, <1>6, ListConcat
<1>8. ToSet(s \o t) = ToSet(s) \union ToSet(t)
  BY <1>5, <1>6, ToSetConcat
<1>9. \A ref : ref \in ToSet(s \o t) <=> (from # Nil /\ ref = from) \/ (whole /\ ref = sole)
  BY <1>5, <1>6, <1>8
<1>10. Len(s \o t) \in {0, 1, 2}
  <2>1. ASSUME NEW p \in {0, 1}, NEW q \in {0, 1} PROVE p + q \in {0, 1, 2}
    OBVIOUS
  <2> QED
    BY <1>5, <1>6, <1>7, <2>1
<1>11. named => from = Defaulted(bc, StrategyImage(bc))
  BY <1>1
<1> QED
  BY <1>2, <1>3, <1>7, <1>9, <1>10, <1>11 DEF named, whole, sole

\* and those that need one are those that no warning gives a run order for.
LEMMA LinesNeeded ==
  ASSUME Background, WatchedSoFar, PathsSoFar, pc = "classify", NEW ref
  PROVE  ref \in Chained(Final) /\ ~OrderWarned(Final, ref)
           <=> ref \in ToSet(chainInputs(bc)) /\ NeedsLine(bc, ref)
<1> DEFINE sole == SoleImageRef(bc)
           x == Defaulted(bc, StrategyImage(bc))
           named == NamesImage(StrategyImage(bc))
           may == chainCandidate(bc, ref)
           known == chainKey(ref) \in WarnedKeys(bc)
<1>1. Final.bc = bc /\ bc \in BuildConfigs
  BY FinalFields DEF Background, TypeOK
<1>2. ref \in Inputs(bc)
        <=> \/ named /\ ref = x
            \/ (Len(bc.source.images) = 1 /\ ImageOf(bc).name # <<>>) /\ ref = sole
  BY DEF Inputs
<1>3. ref \in ToSet(chainInputs(bc)) <=> (named /\ ref = x) \/ (SoleImage(bc, FALSE) /\ ref = sole)
  BY <1>1, InputsListed
<1>4. (Len(bc.source.images) = 1 /\ ImageOf(bc).name # <<>>)
        <=> SoleImage(bc, TRUE) \/ SoleImage(bc, FALSE)
  BY DEF SoleImage
<1>5. SoleImage(bc, TRUE) /\ ref = sole /\ may => known
  BY DEF WarnedKeys
<1>6. ref \in Chained(Final) <=> ref \in Inputs(bc) /\ may
  BY <1>1 DEF Chained
<1>7. NeedsLine(bc, ref) <=> may /\ ~known
  BY DEF NeedsLine
<1>8. ref \in Chained(Final) => (OrderWarned(Final, ref) <=> known)
  BY OrderKnown
<1> HIDE DEF sole, x, named, may, known
<1> QED
  BY <1>2, <1>3, <1>4, <1>5, <1>6, <1>7, <1>8

\* The run order that the result Finish returns gives.
LEMMA FinalRunOrder ==
  ASSUME Background, LinesSoFar, WatchedSoFar, PathsSoFar, pc = "classify"
  PROVE  RunOrderGiven(Final)
<1> DEFINE inputs == chainInputs(bc)
           n == Len(inputs)
           resolved == [k \in DOMAIN inputs |-> Resolve(bc, inputs[k]).image]
           of(k) == resolved[k]
           needs == {k \in 1..n : NeedsLine(bc, inputs[k])}
           printed == {k \in DOMAIN inputs :
                         /\ NeedsLine(bc, inputs[k])
                         /\ \A j \in 1..(k - 1) : NeedsLine(bc, inputs[j]) => of(j) # of(k)}
           ranks == 1..Cardinality(printed)
           pick == [m \in ranks |->
                      CHOOSE k \in printed : Cardinality({j \in printed : j <= k}) = m]
           image == [k \in (1..n) \union {pick[m] : m \in ranks} |-> of(k)]
           alone == {ResolvedTo(bc, ref) :
                       ref \in {ref \in Chained(Final) : ~OrderWarned(Final, ref)}}
<1>1. Final.bc = bc /\ Final.notices = notices /\ bc \in BuildConfigs
  BY FinalBuild DEF Background, TypeOK
<1>2. IsList(inputs) /\ n \in {0, 1, 2}
  BY <1>1, InputsListed
<1>3. DOMAIN inputs = 1..n
  BY <1>2, ListFacts
<1>4. notices = [m \in ranks |-> of(pick[m])]
  <2>1. notices = ChainLines(bc)
    BY PassedInOrder DEF LinesSoFar
  <2>2. ChainLines(bc)
          = [m \in ranks |-> of(CHOOSE k \in printed : Cardinality({j \in printed : j <= k}) = m)]
    BY DEF ChainLines
  <2> HIDE DEF of, resolved, printed
  <2> QED
    BY <2>1, <2>2
<1>4a. \A k \in 1..n : of(k) = Resolve(bc, inputs[k]).image
  BY <1>3
<1> HIDE DEF resolved
<1>5. Ranked(pick, printed)
  <2> HIDE DEF printed
  <2> QED
    BY DEF Ranked, UpTo
<1> HIDE DEF inputs, n
<1>6. \A k \in 1..n : image[k] = of(k)
  OBVIOUS
<1>7. printed = Firsts(needs, image)
  <2> HIDE DEF of, image
  <2>1. \A k \in 1..n : \A j \in 1..(k - 1) : j \in 1..n
    BY <1>2
  <2> QED
    BY <1>3, <1>6, <2>1 DEF Firsts
<1>8. \A m \in ranks : image[pick[m]] = of(pick[m])
  <2> HIDE DEF pick, of, ranks
  <2> QED
    OBVIOUS
<1>9. notices = [m \in ranks |-> image[pick[m]]]
  <2> HIDE DEF pick, of, ranks, image
  <2> QED
    BY <1>4, <1>8
<1>10. ToSet(notices) = Images(image, needs) /\ Cardinality(Images(image, needs)) = Len(notices)
  <2>1. needs \in SUBSET {1, 2}
    BY <1>2
  <2>2. notices = Picked(image, pick, Cardinality(printed))
    BY <1>9 DEF Picked
  <2> HIDE DEF needs, image, printed, pick
  <2> QED
    BY <1>7, <1>5, <2>1, <2>2, LinesOnce
<1>11. Images(image, needs) = alone
  <2>1. \A ref : ref \in Chained(Final) /\ ~OrderWarned(Final, ref)
          <=> ref \in ToSet(inputs) /\ NeedsLine(bc, ref)
    BY LinesNeeded DEF inputs
  <2>2. \A y : y \in alone <=> \E ref \in ToSet(inputs) :
                                  NeedsLine(bc, ref) /\ y = Resolve(bc, ref).image
    BY <2>1 DEF ResolvedTo
  <2>3. ToSet(inputs) = {inputs[k] : k \in 1..n}
    BY <1>3 DEF ToSet
  <2>4. \A y : y \in alone <=> \E k \in needs : y = of(k)
    BY <2>2, <2>3, <1>4a
  <2>5. \A k \in needs : image[k] = of(k)
    BY <1>6
  <2>6. \A y : y \in Images(image, needs) <=> \E k \in needs : y = of(k)
    <3> HIDE DEF image, needs, of
    <3> QED
      BY <2>5 DEF Images
  <2> HIDE DEF alone, image, needs, of
  <2> QED
    BY <2>4, <2>6
<1> HIDE DEF needs, image, printed
<1> QED
  BY <1>1, <1>10, <1>11 DEF RunOrderGiven

\* In every conversion each image input of the BuildConfig's own namespace is given a run order
\* once: a warning about it, or a line of its own, and no line is printed twice, whatever two
\* references resolve to.
THEOREM RunOrdersSaidOnce == Spec => []RunOrderSaidOnce
<1>1. Init => RunOrderSaidOnce
  BY NoneReplaced DEF RunOrderSaidOnce
<1> DEFINE Known == LinesSoFar /\ WatchedSoFar /\ PathsSoFar
<1>2. Background /\ Known /\ RunOrderSaidOnce /\ [Next]_vars => RunOrderSaidOnce'
  <2> SUFFICES ASSUME Background, Known, RunOrderSaidOnce, [Next]_vars
               PROVE  RunOrderSaidOnce'
    OBVIOUS
  <2>1. pc = "classify" => RunOrderGiven(Final)
    BY FinalRunOrder
  <2>2. UNCHANGED opts
    BY OneMore
  <2>3. ASSUME NEW r, RunOrderGiven(r) PROVE RunOrderGiven(r)'
    BY <2>2, <2>3 DEF RunOrderGiven, ResolvedTo, Resolve
  <2>4. \A r \in Replaced' : RunOrderGiven(r)
    BY <2>1, OneMore DEF RunOrderSaidOnce
  <2> QED
    BY <2>3, <2>4 DEF RunOrderSaidOnce
<1>3. Spec => []Known
  BY LinesAlways, WatchedAlways, PathsAlways, PTL
<1> QED
  <2> HIDE DEF Known
  <2> QED
    BY <1>1, <1>2, <1>3, BackgroundAlways, PTL DEF Spec

-----------------------------------------------------------------------------
(* The decision.                                                           *)

\* The verdict is given by the first step that finds an obstacle: the steps behind pc found
\* none, and a conversion is ended by the step at pc.
LEMMA DecisionKept ==
  ASSUME TypeOK, Unobstructed, OutcomeDecided, [Next]_vars
  PROVE  Unobstructed' /\ OutcomeDecided'
<1>1. UNCHANGED results => OutcomeDecided'
  BY DEF OutcomeDecided, Returned, Decided
<1>2. CASE \E b \in BuildConfigs : Begin(b)
  BY <1>1, <1>2, NothingPassed DEF Begin, Unobstructed
<1>3. CASE Step /\ Goes
  BY <1>1, <1>3, StepDecides DEF Goes, call
<1>4. CASE Step /\ ~Goes
  <2>1. PICK r : results' = Append(results, r) /\ r.bc = bc /\ Decided(bc, r.state, r.reason)
    BY <1>4, StepDecides
  <2>2. IsList(results) /\ Len(results) \in Nat /\ DOMAIN results = 1..Len(results)
    BY ListFacts DEF TypeOK
  <2>3. /\ DOMAIN results' = 1..(Len(results) + 1)
        /\ \A k \in 1..Len(results) : results'[k] = results[k]
        /\ results'[Len(results) + 1] = r
    BY <2>1, <2>2, ListAppend
  <2>4. ASSUME NEW k \in DOMAIN results'
        PROVE  Decided(results'[k].bc, results'[k].state, results'[k].reason)
    <3>1. k \in 1..Len(results) \/ k = Len(results) + 1
      BY <2>2, <2>3
    <3> QED
      BY <2>1, <2>2, <2>3, <3>1 DEF OutcomeDecided, Returned
  <2>5. OutcomeDecided'
    BY <2>4 DEF OutcomeDecided, Returned, Decided
  <2> QED
    BY <1>4, <2>5, StepDecides
<1>5. CASE UNCHANGED vars
  BY <1>1, <1>5
     DEF vars, Unobstructed, StrategyObstacle, OutputObstacle, SourceObstacle, PastGate, PastSource
<1> QED
  BY <1>2, <1>3, <1>4, <1>5 DEF Next, AllConverted

\* What becomes of a BuildConfig is decided by its strategy, its output and its source: whatever
\* the flags, the conversions before it and the annotations it carries.
THEOREM OutcomesDecided == Spec => []OutcomeDecided
<1>1. Init => Unobstructed /\ OutcomeDecided
  BY NothingDecided DEF Init, OutcomeDecided, Returned
<1>2. TypeOK /\ Unobstructed /\ OutcomeDecided /\ [Next]_vars => Unobstructed' /\ OutcomeDecided'
  BY DecisionKept
<1> QED
  BY <1>1, <1>2, TypeCorrect, PTL DEF Spec

-----------------------------------------------------------------------------
(* The length of a conversion.                                             *)

\* How many statements of Convert are left, this one included.
Left(p) ==
  CASE p = "strategy" -> 19 [] p = "buildArgs" -> 18 [] p = "volumes" -> 17 [] p = "gate" -> 16
    [] p = "serviceAccount" -> 15 [] p = "inlineDockerfile" -> 14 [] p = "source" -> 13
    [] p = "output" -> 12 [] p = "imageLabels" -> 11 [] p = "deadline" -> 10
    [] p = "nodeSelector" -> 9 [] p = "runPolicy" -> 8 [] p = "postCommit" -> 7
    [] p = "historyLimits" -> 6 [] p = "registries" -> 5 [] p = "triggers" -> 4
    [] p = "chain" -> 3 [] p = "resources" -> 2 [] p = "classify" -> 1 [] OTHER -> 0

\* The elements a loop has yet to take of a list of n, when Convert is at q with index k.
Untaken(loop, q, n, k) ==
  IF q = loop THEN n + 1 - k ELSE IF Left(q) > Left(loop) THEN n ELSE 0

ArgCount(b) ==
  IF b.strategy.type = "Docker" /\ HasStrategy(b) THEN Len(b.strategy.docker.buildArgs) ELSE 0
VolumeCount(b) == IF HasStrategy(b) THEN Len(VolumesOf(b)) ELSE 0
LabelCount(b) == Len(b.output.imageLabels)

\* The steps a conversion may still take: one for each statement, and one for each element of the
\* lists it loops over.
StepsLeft ==
  IF pc = "idle" THEN 0
  ELSE Left(pc) + Untaken("buildArgs", pc, ArgCount(bc), i)
         + Untaken("volumes", pc, VolumeCount(bc), i)
         + Untaken("imageLabels", pc, LabelCount(bc), i)

\* No loop runs past its list, and there is one when a loop runs.
WithinLists ==
  /\ pc = "buildArgs" =>
       bc.strategy.type = "Docker" /\ HasStrategy(bc) /\ i <= ArgCount(bc) + 1
  /\ pc = "volumes" => HasStrategy(bc) /\ i <= VolumeCount(bc) + 1
  /\ pc = "imageLabels" => i <= LabelCount(bc) + 1

\* Where a step goes on to is later, unless it is in a loop.
LEMMA LeftFalls ==
  ASSUME NEW p, NEW q, Follows(p, q)
  PROVE  /\ Left(p) \in Nat /\ Left(q) \in Nat /\ Left(q) > 0
         /\ q # p => Left(q) < Left(p)
         /\ q = p => p \in Loops
         /\ \A loop \in Loops : Left(loop) \in Nat /\ (Left(loop) = Left(p) <=> loop = p)
                                /\ (Left(loop) = Left(q) <=> loop = q)
<1>1. /\ Left("strategy") = 19 /\ Left("buildArgs") = 18 /\ Left("volumes") = 17
      /\ Left("gate") = 16 /\ Left("serviceAccount") = 15 /\ Left("inlineDockerfile") = 14
      /\ Left("source") = 13 /\ Left("output") = 12 /\ Left("imageLabels") = 11
      /\ Left("deadline") = 10
  BY DEF Left
<1>2. /\ Left("nodeSelector") = 9 /\ Left("runPolicy") = 8 /\ Left("postCommit") = 7
      /\ Left("historyLimits") = 6 /\ Left("registries") = 5 /\ Left("triggers") = 4
      /\ Left("chain") = 3 /\ Left("resources") = 2 /\ Left("classify") = 1
  BY DEF Left
<1> QED
  BY <1>1, <1>2 DEF Follows, Loops

\* A loop that takes an element has one less to take, and no other step gives it more.
LEMMA UntakenFalls ==
  ASSUME NEW loop \in Loops, NEW p, NEW q, Follows(p, q),
         NEW n \in Nat, NEW k \in Nat, p = loop => k <= n + 1, q = p /\ p = loop => k <= n,
         NEW j, j = (IF q = p THEN k + 1 ELSE 1)
  PROVE  /\ Untaken(loop, p, n, k) \in Nat /\ Untaken(loop, q, n, j) \in Nat
         /\ Untaken(loop, q, n, j) <= Untaken(loop, p, n, k)
         /\ q = p /\ p = loop => Untaken(loop, q, n, j) < Untaken(loop, p, n, k)
<1>1. /\ Left(p) \in Nat /\ Left(q) \in Nat /\ Left(loop) \in Nat
      /\ q # p => Left(q) < Left(p)
      /\ Left(loop) = Left(p) <=> loop = p
      /\ Left(loop) = Left(q) <=> loop = q
  BY LeftFalls
<1>2. CASE q = p
  BY <1>1, <1>2 DEF Untaken
<1>3. CASE q # p
  <2>1. CASE p = loop
    BY <1>1, <1>3, <2>1 DEF Untaken
  <2>2. CASE q = loop
    BY <1>1, <1>3, <2>2 DEF Untaken
  <2>3. CASE p # loop /\ q # loop
    BY <1>1, <1>3, <2>3 DEF Untaken
  <2> QED
    BY <2>1, <2>2, <2>3
<1> QED
  BY <1>2, <1>3

\* The lists of a BuildConfig have lengths.
LEMMA CountsGiven ==
  ASSUME NEW b \in BuildConfigs
  PROVE  ArgCount(b) \in Nat /\ VolumeCount(b) \in Nat /\ LabelCount(b) \in Nat
<1>1. LabelCount(b) \in Nat
  BY ListsAssumption, ListFacts DEF LabelCount
<1>2. ArgCount(b) \in Nat
  BY ListsAssumption, ListFacts DEF ArgCount, HasStrategy
<1>3. VolumeCount(b) \in Nat
  BY ListsAssumption, ListFacts DEF VolumeCount, VolumesOf, HasStrategy
<1> QED
  BY <1>1, <1>2, <1>3

\* A loop goes on for an element of its list only, and begins where there is one.
LEMMA LoopsAtHand ==
  ASSUME Background, Step, Goes
  PROVE  /\ pc = "strategy" /\ pc' = "buildArgs" =>
              bc.strategy.type = "Docker" /\ HasStrategy(bc)
         /\ pc = "strategy" /\ pc' = "volumes" => HasStrategy(bc)
         /\ pc = "buildArgs" /\ pc' = pc => i <= Len(Docker.buildArgs)
         /\ pc = "volumes" /\ pc' = pc => i <= Len(Volumes)
         /\ pc = "imageLabels" /\ pc' = pc => i <= LabelCount(bc)
<1>1. CASE pc = "strategy"
  <2>1. DockerStrategy \/ BareDockerStrategy \/ SourceStrategy \/ BareSourceStrategy
    BY <1>1, StepAt
  <2> QED
    BY <1>1, <2>1
       DEF DockerStrategy, BareDockerStrategy, SourceStrategy, BareSourceStrategy, Goto,
           HasStrategy, Docker, S2I
<1>2. CASE pc = "buildArgs"
  <2>1. SkipInvalidArg \/ LiteralArg \/ MapArg \/ SkipUnmappableArg \/ BuildArgsDone
    BY <1>2, StepAt
  <2> QED
    BY <1>2, <2>1
       DEF SkipInvalidArg, LiteralArg, MapArg, SkipUnmappableArg, BuildArgsDone, MoreArgs, Goto
<1>3. CASE pc = "volumes"
  <2>1. ConvertVolume \/ SkipVolume \/ VolumesDone
    BY <1>3, StepAt
  <2> QED
    BY <1>3, <2>1 DEF ConvertVolume, SkipVolume, VolumesDone, MoreVolumes, Goto
<1>4. CASE pc = "imageLabels"
  <2>1. ImageLabel \/ SkipUnnamedLabel \/ ImageLabelsDone
    BY <1>4, StepAt
  <2> QED
    BY <1>4, <2>1 DEF ImageLabel, SkipUnnamedLabel, ImageLabelsDone, Goto, LabelCount
<1> QED
  BY <1>1, <1>2, <1>3, <1>4
\* A step that goes on leaves fewer to take, and no loop past its list.
LEMMA GoingOnFalls ==
  ASSUME Background, WithinLists, Step, Goes
  PROVE  WithinLists' /\ StepsLeft' \in Nat /\ StepsLeft \in Nat /\ StepsLeft' < StepsLeft
<1> DEFINE args == ArgCount(bc)
           vols == VolumeCount(bc)
           labels == LabelCount(bc)
<1>1. pc \in Running /\ Follows(pc, pc') /\ bc' = bc /\ Counts(pc)
  BY DEF Goes, call
<1>2. pc # "idle" /\ pc' # "idle" /\ bc \in BuildConfigs /\ i \in Nat
  BY <1>1 DEF Running, Steps, Follows, Background, TypeOK
<1>3. args \in Nat /\ vols \in Nat /\ labels \in Nat
  BY <1>2, CountsGiven
<1>4. i' = IF pc' = pc THEN i + 1 ELSE 1
  BY <1>1 DEF Counts, Background, Formed
<1>5. /\ pc = "buildArgs" => bc.strategy.type = "Docker" /\ HasStrategy(bc)
      /\ pc \in {"buildArgs", "volumes"} => HasStrategy(bc)
  BY DEF WithinLists
<1>6. /\ pc = "buildArgs" => Len(Docker.buildArgs) = args
      /\ pc = "volumes" => Len(Volumes) = vols
  BY <1>5 DEF ArgCount, VolumeCount, VolumesOf, Volumes, Docker, S2I
<1>7. /\ pc = "buildArgs" => i <= args + 1 /\ (pc' = pc => i <= args)
      /\ pc = "volumes" => i <= vols + 1 /\ (pc' = pc => i <= vols)
      /\ pc = "imageLabels" => i <= labels + 1 /\ (pc' = pc => i <= labels)
  BY <1>6, LoopsAtHand DEF WithinLists
<1>8. /\ pc' = "buildArgs" => bc.strategy.type = "Docker" /\ HasStrategy(bc)
      /\ pc' = "volumes" => HasStrategy(bc)
  BY <1>1, <1>5, LoopsAtHand DEF Follows
<1> DEFINE a == Untaken("buildArgs", pc, args, i)
           v == Untaken("volumes", pc, vols, i)
           l == Untaken("imageLabels", pc, labels, i)
           aa == Untaken("buildArgs", pc', args, i')
           vv == Untaken("volumes", pc', vols, i')
           ll == Untaken("imageLabels", pc', labels, i')
<1>9. WithinLists'
  <2>1. i' \in Nat /\ (pc' # pc => i' = 1) /\ (pc' = pc => i' = i + 1)
    BY <1>2, <1>4
  <2>2. /\ pc' = "buildArgs" => i' <= args + 1
        /\ pc' = "volumes" => i' <= vols + 1
        /\ pc' = "imageLabels" => i' <= labels + 1
    <3> HIDE DEF args, vols, labels
    <3> QED
      BY <1>2, <1>3, <1>7, <2>1
  <2>3. ArgCount(bc)' = args /\ VolumeCount(bc)' = vols /\ LabelCount(bc)' = labels
    BY <1>1 DEF ArgCount, VolumeCount, LabelCount, VolumesOf, HasStrategy
  <2>4. HasStrategy(bc)' = HasStrategy(bc) /\ bc'.strategy = bc.strategy
    BY <1>1 DEF HasStrategy
  <2> HIDE DEF args, vols, labels
  <2> QED
    BY <1>8, <2>2, <2>3, <2>4 DEF WithinLists
<1>10. a \in Nat /\ aa \in Nat /\ aa <= a /\ (pc' = pc /\ pc = "buildArgs" => aa < a)
  <2> HIDE DEF args
  <2>1. "buildArgs" \in Loops
    BY DEF Loops
  <2>2. /\ pc = "buildArgs" => i <= args + 1
        /\ pc' = pc /\ pc = "buildArgs" => i <= args
    BY <1>7
  <2> QED
    BY <1>1, <1>2, <1>3, <1>4, <2>1, <2>2, UntakenFalls
<1>11. v \in Nat /\ vv \in Nat /\ vv <= v /\ (pc' = pc /\ pc = "volumes" => vv < v)
  <2> HIDE DEF vols
  <2>1. "volumes" \in Loops
    BY DEF Loops
  <2>2. /\ pc = "volumes" => i <= vols + 1
        /\ pc' = pc /\ pc = "volumes" => i <= vols
    BY <1>7
  <2> QED
    BY <1>1, <1>2, <1>3, <1>4, <2>1, <2>2, UntakenFalls
<1>12. l \in Nat /\ ll \in Nat /\ ll <= l /\ (pc' = pc /\ pc = "imageLabels" => ll < l)
  <2> HIDE DEF labels
  <2>1. "imageLabels" \in Loops
    BY DEF Loops
  <2>2. /\ pc = "imageLabels" => i <= labels + 1
        /\ pc' = pc /\ pc = "imageLabels" => i <= labels
    BY <1>7
  <2> QED
    BY <1>1, <1>2, <1>3, <1>4, <2>1, <2>2, UntakenFalls
<1>13. /\ Left(pc) \in Nat /\ Left(pc') \in Nat
       /\ pc' # pc => Left(pc') < Left(pc)
       /\ pc' = pc => pc \in {"buildArgs", "volumes", "imageLabels"}
  BY <1>1, LeftFalls DEF Loops
<1>14. StepsLeft = Left(pc) + a + v + l
  BY <1>2 DEF StepsLeft
<1>15. StepsLeft' = Left(pc') + aa + vv + ll
  <2>1. ArgCount(bc)' = args /\ VolumeCount(bc)' = vols /\ LabelCount(bc)' = labels
    BY <1>1 DEF ArgCount, VolumeCount, LabelCount, VolumesOf, HasStrategy
  <2> QED
    BY <1>1, <1>2, <2>1 DEF StepsLeft, Untaken, Left
<1> HIDE DEF a, v, l, aa, vv, ll
<1>16. Left(pc') + aa + vv + ll < Left(pc) + a + v + l
  <2>1. CASE pc' # pc
    BY <1>10, <1>11, <1>12, <1>13, <2>1
  <2>2. CASE pc' = pc
    BY <1>10, <1>11, <1>12, <1>13, <2>2
  <2> QED
    BY <2>1, <2>2
<1> QED
  BY <1>9, <1>10, <1>11, <1>12, <1>13, <1>14, <1>15, <1>16

\* What is left is a number, and none is left between conversions.
LEMMA StepsLeftNatural ==
  ASSUME TypeOK, WithinLists
  PROVE  StepsLeft \in Nat /\ (pc = "idle" => StepsLeft = 0) /\ (pc # "idle" => StepsLeft > 0)
<1>1. CASE pc = "idle"
  BY <1>1 DEF StepsLeft
<1>2. CASE pc # "idle"
  <2>1. bc \in BuildConfigs /\ i \in Nat
    BY <1>2 DEF TypeOK
  <2>2. ArgCount(bc) \in Nat /\ VolumeCount(bc) \in Nat /\ LabelCount(bc) \in Nat
    BY <2>1, CountsGiven
  <2>3. Left(pc) \in Nat /\ Left(pc) > 0
    BY <1>2 DEF TypeOK, Steps, Left
  <2>4. /\ Untaken("buildArgs", pc, ArgCount(bc), i) \in Nat
        /\ Untaken("volumes", pc, VolumeCount(bc), i) \in Nat
        /\ Untaken("imageLabels", pc, LabelCount(bc), i) \in Nat
    BY <2>1, <2>2 DEF Untaken, WithinLists
  <2> QED
    BY <1>2, <2>3, <2>4 DEF StepsLeft
<1> QED
  BY <1>1, <1>2

\* Every step of a conversion, but its stutters, leaves fewer to take.
LEMMA StepsFall ==
  ASSUME Background, WithinLists, Next
  PROVE  WithinLists' /\ (pc # "idle" => StepsLeft' < StepsLeft)
<1>1. CASE \E b \in BuildConfigs : Begin(b)
  BY <1>1 DEF Begin, WithinLists
<1>2. CASE Step /\ Goes
  BY <1>2, GoingOnFalls
<1>3. CASE Step /\ (Declines \/ Finish)
  <2>1. pc' = "idle"
    BY <1>3 DEF Declines, Decline, Finish, Return
  <2> QED
    BY <2>1, StepsLeftNatural DEF Background, WithinLists, StepsLeft
<1>4. CASE AllConverted
  BY <1>4 DEF AllConverted, vars, WithinLists, ArgCount, VolumeCount, LabelCount, VolumesOf,
              HasStrategy
<1> QED
  BY <1>1, <1>2, <1>3, <1>4, StepShapes DEF Next

\* Convert takes at most one step for each of its statements, and one for each build arg, volume
\* and image label of the BuildConfig: what is left is a number that every step makes smaller.
THEOREM StepsRunOut ==
  Spec => [](StepsLeft \in Nat) /\ [][pc # "idle" => StepsLeft' < StepsLeft]_vars
<1>1. Init => WithinLists
  BY DEF Init, WithinLists
<1>2. Background /\ WithinLists /\ [Next]_vars
        => WithinLists' /\ [pc # "idle" => StepsLeft' < StepsLeft]_vars
  <2>1. Background /\ WithinLists /\ UNCHANGED vars => WithinLists'
    BY DEF vars, WithinLists, ArgCount, VolumeCount, LabelCount, VolumesOf, HasStrategy
  <2> QED
    BY <2>1, StepsFall
<1>3. TypeOK /\ WithinLists => StepsLeft \in Nat
  BY StepsLeftNatural
<1> QED
  BY <1>1, <1>2, <1>3, TypeCorrect, BackgroundAlways, PTL DEF Spec
=============================================================================
