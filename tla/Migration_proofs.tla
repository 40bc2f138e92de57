-------------------------- MODULE Migration_proofs --------------------------
(***************************************************************************)
(* A migration implements Disposal, for every set of exports, every order  *)
(* the objects are handed over in and every number of migrations: whatever *)
(* Convert answers for one object, no other object's fate changes.  A      *)
(* BuildConfig that was declined says so in the output, one that was       *)
(* converted has there all that was generated for it, no registry given    *)
(* to a Build is blank, and migrating an output again changes nothing.     *)
(***************************************************************************)
EXTENDS Migration, DispositionKeys, ConvertLedger_proofs

-----------------------------------------------------------------------------
(* The process.                                                            *)

GeneratedKinds == {"Build", "ServiceAccount", "ConfigMap"}
AllGenerated(resources) == \A n \in DOMAIN resources : resources[n].kind \in GeneratedKinds

ReadAsBuildConfig(o) == IsBuildConfig(o) /\ Decodable(o)

\* A reason that says something.
Stated(reason) == reason # Blank

\* The five answers a process may give, and when.
LeftAlone(o, answer) ==
  /\ ~IsBuildConfig(o)
  /\ answer.error = FALSE /\ answer.whiteout = FALSE
  /\ answer.resources = <<>> /\ answer.patch = <<>>
Refused(o, answer) == IsBuildConfig(o) /\ ~Decodable(o) /\ answer.error = TRUE
Removed(o, answer) ==
  /\ ReadAsBuildConfig(o)
  /\ answer.error = FALSE /\ answer.whiteout = TRUE
  /\ AllGenerated(answer.resources) /\ answer.patch = <<>>
Noted(o, answer) ==
  /\ ReadAsBuildConfig(o) /\ ~Patchless(o)
  /\ answer.error = FALSE /\ answer.whiteout = FALSE /\ answer.resources = <<>>
  /\ Stated(answer.logged.reason)
  /\ answer.patch = dispositionPatch(o.content.annotations, answer.logged.state,
                                     answer.logged.reason)
Unnoted(o, answer) ==
  /\ ReadAsBuildConfig(o) /\ Patchless(o)
  /\ answer.error = FALSE /\ answer.whiteout = FALSE
  /\ answer.resources = <<>> /\ answer.patch = <<>>

Responds(o, answer) ==
  \/ LeftAlone(o, answer) \/ Refused(o, answer) \/ Removed(o, answer)
  \/ Noted(o, answer) \/ Unnoted(o, answer)

\* Convert runs, and has run, only for a BuildConfig that was read; and the response is to it.
ProcessInvariant ==
  /\ pc \in Steps /\ Provision
  /\ pc # "idle" => request # Nil /\ response = Nil /\ results = <<>> /\ ReadAsBuildConfig(request)
  /\ results # <<>> =>
       /\ request # Nil /\ ReadAsBuildConfig(request)
       /\ AllGenerated(results[1].resources)
       /\ results[1].state \in {"skipped", "failed"} => Stated(results[1].reason)
  /\ response # Nil => request # Nil /\ Responds(request, response)

\* What Convert returns with a Build is of the kinds the plugin generates.
LEMMA ConversionGenerates ==
  ASSUME Provision, pc = "classify", NEW b, b.kind = "Build"
  PROVE  AllGenerated(<<b>> \o extra)
<1> DEFINE s == <<b>> \o extra
<1>1. extra = <<>> \/ Account(extra) \/ Map(extra) \/ AccountAndMap(extra)
  BY DEF Provision, Late, Early, Running, Steps
<1>2. KindsOf(s) \in Promise!Kinds
  BY <1>1, BuildKinds
<1> HIDE DEF s
<1>3. \A n \in DOMAIN KindsOf(s) : KindsOf(s)[n] \in GeneratedKinds
  BY <1>2 DEF Promise!Kinds, GeneratedKinds
<1>4. DOMAIN KindsOf(s) = DOMAIN s /\ \A n \in DOMAIN s : KindsOf(s)[n] = s[n].kind
  BY DEF KindsOf
<1>5. AllGenerated(s)
  BY <1>3, <1>4 DEF AllGenerated
<1> QED
  BY <1>5 DEF s

\* A step of Convert keeps the process in order.
LEMMA ConvertingKeeps ==
  ASSUME ProcessInvariant, Converting
  PROVE  ProcessInvariant'
<1>1. Quiet \/ Generate \/ Conclude
  BY StepAnswers DEF Converting
<1>2. Provision'
  BY <1>1, StepProvision DEF ProcessInvariant
<1>3. pc \in Running
  BY <1>1 DEF Quiet, Generate, Generates, Conclude, Early, Late, Running, Steps
<1>4. request' = request /\ response' = response
  BY DEF Converting
<1>5. request # Nil /\ response = Nil /\ results = <<>> /\ ReadAsBuildConfig(request)
  BY <1>3 DEF ProcessInvariant, Running
<1>6. CASE Quiet \/ Generate
  <2>1. pc' \in Steps /\ results' = results
    BY <1>6 DEF Quiet, Generate, Generates, Early, Late, Running, Steps
  <2> QED
    BY <1>2, <1>4, <1>5, <2>1 DEF ProcessInvariant, ReadAsBuildConfig, IsBuildConfig, Decodable
<1>7. CASE Conclude
  <2>1. PICK r :
          /\ results' = Append(results, r)
          /\ \/ r.resources = <<>>
             \/ pc = "classify" /\ \E b : b.kind = "Build" /\ r.resources = <<b>> \o extra
          /\ r.state \in {"skipped", "failed"} => Stated(r.reason)
    BY <1>7 DEF Conclude, Stated
  <2>2. results' = <<r>>
    <3>1. results = <<>>
      BY <1>5
    <3>2. results' = Append(results, r)
      BY <2>1
    <3> QED
      BY <3>1, <3>2
  <2>3. AllGenerated(r.resources)
    <3>1. CASE r.resources = <<>>
      BY <3>1 DEF AllGenerated
    <3>2. CASE pc = "classify" /\ \E b : b.kind = "Build" /\ r.resources = <<b>> \o extra
      <4>1. PICK b : b.kind = "Build" /\ r.resources = <<b>> \o extra
        BY <3>2
      <4>2. AllGenerated(<<b>> \o extra)
        BY <3>2, <4>1, ConversionGenerates DEF ProcessInvariant
      <4> QED
        BY <4>1, <4>2
    <3> QED
      BY <2>1, <3>1, <3>2
  <2>4. /\ AllGenerated(results'[1].resources)
        /\ results'[1].state \in {"skipped", "failed"} => Stated(results'[1].reason)
    <3>1. results'[1] = r
      BY <2>2
    <3>2. r.state \in {"skipped", "failed"} => Stated(r.reason)
      BY <2>1
    <3> QED
      BY <2>3, <3>1, <3>2
  <2>5. pc' = "idle" /\ "idle" \in Steps
    BY <1>7 DEF Conclude, Steps
  <2> QED
    BY <1>2, <1>4, <1>5, <2>4, <2>5
       DEF ProcessInvariant, ReadAsBuildConfig, IsBuildConfig, Decodable, AllGenerated
<1> QED
  BY <1>1, <1>6, <1>7

\* So does answering.
LEMMA RespondKeeps ==
  ASSUME ProcessInvariant, NEW answer, Awaited, pc = "idle", Respond(answer),
         Responds(request, answer)
  PROVE  ProcessInvariant'
<1>1. /\ request' = request /\ response' = answer /\ pc' = pc /\ results' = results
      /\ extra' = extra
  BY DEF Respond, vars
<1>2. Responds(request, response)'
  BY <1>1 DEF Responds, LeftAlone, Refused, Removed, Noted, Unnoted, ReadAsBuildConfig,
              IsBuildConfig, Decodable, Patchless, AllGenerated
<1> QED
  BY <1>1, <1>2 DEF Awaited, ProcessInvariant, Provision, ReadAsBuildConfig, IsBuildConfig,
                    Decodable, AllGenerated, Account, Map, AccountAndMap

\* Every step of a process keeps it in order.
LEMMA PluginStepKeeps ==
  ASSUME ProcessInvariant, PluginStep
  PROVE  ProcessInvariant'
<1>1. CASE PassOther
  <2>1. pc = "idle"
    BY <1>1 DEF PassOther, ProcessInvariant, ReadAsBuildConfig
  <2>2. Responds(request, PassThrough)
    BY <1>1 DEF PassOther, Responds, LeftAlone, PassThrough
  <2> QED
    BY <1>1, <2>1, <2>2, RespondKeeps DEF PassOther
<1>2. CASE RefuseUndecodable
  <2> DEFINE answer == [PassThrough EXCEPT !.error = TRUE]
  <2>1. pc = "idle"
    BY <1>2 DEF RefuseUndecodable, ProcessInvariant, ReadAsBuildConfig
  <2>2. answer.error = TRUE
    BY DEF PassThrough
  <2>3. Awaited /\ Respond(answer)
    BY <1>2 DEF RefuseUndecodable
  <2> HIDE DEF answer
  <2>4. Responds(request, answer)
    BY <1>2, <2>2 DEF RefuseUndecodable, Responds, Refused
  <2> QED
    BY <2>1, <2>3, <2>4, RespondKeeps
<1>3. CASE StartConversion
  <2>1. /\ request' = request /\ response' = response /\ results' = results
        /\ pc' = "strategy" /\ extra' = extra /\ pc = "idle"
    BY <1>3 DEF StartConversion, Begin
  <2>2. extra = <<>>
    BY <2>1 DEF ProcessInvariant, Provision
  <2>3. Provision' /\ pc' \in Steps
    BY <2>1, <2>2 DEF Provision, Early, Late, Running, Steps
  <2>4. request # Nil /\ response = Nil /\ results = <<>> /\ ReadAsBuildConfig(request)
    BY <1>3 DEF StartConversion, Awaited, ReadAsBuildConfig
  <2> QED
    BY <2>1, <2>3, <2>4 DEF ProcessInvariant, ReadAsBuildConfig, IsBuildConfig, Decodable
<1>4. CASE Converting
  BY <1>4, ConvertingKeeps
<1>5. ASSUME Converted
      PROVE  /\ Awaited /\ pc = "idle" /\ ReadAsBuildConfig(request)
             /\ AllGenerated(results[1].resources)
  BY <1>5 DEF Converted, ProcessInvariant
<1>6. CASE Replace
  <2> DEFINE answer == [PassThrough EXCEPT !.whiteout = TRUE, !.resources = results[1].resources,
                                           !.logged = Outcome]
  <2>1. /\ answer.error = FALSE /\ answer.whiteout = TRUE /\ answer.patch = <<>>
        /\ answer.resources = results[1].resources
    BY DEF PassThrough
  <2>2. Respond(answer) /\ Converted
    BY <1>6 DEF Replace
  <2> HIDE DEF answer
  <2>3. Responds(request, answer)
    BY <1>5, <2>1, <2>2 DEF Responds, Removed
  <2> QED
    BY <1>5, <2>2, <2>3, RespondKeeps
<1>7. CASE PassAnnotated
  <2> DEFINE patch == dispositionPatch(request.content.annotations, Outcome.state, Outcome.reason)
             answer == [PassThrough EXCEPT !.patch = patch, !.logged = Outcome]
  <2>1. Respond(answer) /\ Converted /\ ~Patchless(request)
    BY <1>7 DEF PassAnnotated
  <2>2. Stated(Outcome.reason)
    BY <1>7, <2>1 DEF PassAnnotated, Converted, Declined, Outcome, ProcessInvariant
  <2> HIDE DEF patch
  <2>3. /\ answer.error = FALSE /\ answer.whiteout = FALSE /\ answer.resources = <<>>
        /\ answer.patch = patch /\ answer.logged = Outcome
    BY DEF PassThrough
  <2> HIDE DEF answer
  <2>4. Noted(request, answer)
    BY <1>5, <2>1, <2>2, <2>3 DEF Noted, patch
  <2> QED
    BY <1>5, <2>1, <2>4, RespondKeeps DEF Responds
<1>8. CASE PassUnannotated
  <2> DEFINE answer == [PassThrough EXCEPT !.logged = Outcome]
  <2>1. /\ answer.error = FALSE /\ answer.whiteout = FALSE /\ answer.resources = <<>>
        /\ answer.patch = <<>>
    BY DEF PassThrough
  <2>2. Respond(answer) /\ Converted /\ Patchless(request)
    BY <1>8 DEF PassUnannotated
  <2> HIDE DEF answer
  <2>3. Responds(request, answer)
    BY <1>5, <2>1, <2>2 DEF Responds, Unnoted
  <2> QED
    BY <1>5, <2>2, <2>3, RespondKeeps
<1> QED
  BY <1>1, <1>2, <1>3, <1>4, <1>6, <1>7, <1>8 DEF PluginStep

-----------------------------------------------------------------------------
(* The patch.                                                              *)

\* A third element.
LEMMA AppendThird ==
  ASSUME NEW x, NEW y, NEW z
  PROVE  Append(<<x, y>>, z) # <<x, y>> /\ Append(<<x, y>>, z)[3] = z
<1> DEFINE S == {x, y, z}
           s == <<x, y>>
<1>1. s \in Seq(S) /\ z \in S /\ Len(s) = 2
  OBVIOUS
<1>2. Len(Append(s, z)) = 3 /\ Append(s, z)[3] = z
  BY <1>1
<1> QED
  BY <1>1, <1>2

\* Adding a key is not adding the map, is possible once there is a map, and adds that key.
LEMMA KeyAdded ==
  ASSUME NEW key \in {ConversionOutcomeAnnotation, ConversionReasonAnnotation}, NEW value
  PROVE  /\ ~AddsMap(AddKey(key, value)) /\ KeyOf(AddKey(key, value)) = key
         /\ ~Contains(AddKey(key, value).path[3], "/")
<1> DEFINE token == escapeJSONPointer(key)
<1>1. ~Contains(token, "/") /\ Unescaped(token) = key
  BY KeysSurviveEscaping DEF KeysSurviveEscaping
<1> HIDE DEF token
<1>2. AddKey(key, value).path = Append(AnnotationsPath, token)
  BY DEF AddKey, token
<1>3. Append(AnnotationsPath, token) # AnnotationsPath /\ Append(AnnotationsPath, token)[3] = token
  BY AppendThird DEF AnnotationsPath
<1> QED
  BY <1>1, <1>2, <1>3 DEF AddsMap, KeyOf

\* What a patch notes on annotations: the outcome and the reason, and nothing else changes.
Notes(annotations, state, reason, patched) ==
  LET users == DOMAIN annotations \ {ConversionOutcomeAnnotation, ConversionReasonAnnotation} IN
  /\ DOMAIN patched = users \union {ConversionOutcomeAnnotation, ConversionReasonAnnotation}
  /\ \A key \in users : patched[key] = annotations[key]
  /\ patched[ConversionOutcomeAnnotation] = state
  /\ patched[ConversionReasonAnnotation] = truncateReason(reason)

\* The two keys are different ones.
LEMMA KeysDiffer == ConversionOutcomeAnnotation # ConversionReasonAnnotation
BY DEF ConversionOutcomeAnnotation, ConversionReasonAnnotation

\* A note with a reason has the two keys.
LEMMA NoteSays ==
  ASSUME NEW state, NEW reason, Stated(reason)
  PROVE  /\ DOMAIN Note(state, truncateReason(reason))
              = {ConversionOutcomeAnnotation, ConversionReasonAnnotation}
         /\ Note(state, truncateReason(reason))[ConversionOutcomeAnnotation] = state
         /\ Note(state, truncateReason(reason))[ConversionReasonAnnotation] = truncateReason(reason)
<1> DEFINE cut == truncateReason(reason)
           outcome == Put(EmptyMap, ConversionOutcomeAnnotation, state)
<1>1. cut # Blank
  BY ReasonsAssumption DEF ReasonsAssumption, truncateReason, Stated
<1> HIDE DEF cut
<1>2. Note(state, cut) = Put(outcome, ConversionReasonAnnotation, cut)
  BY <1>1 DEF Note
<1>3. DOMAIN outcome = {ConversionOutcomeAnnotation} /\ outcome[ConversionOutcomeAnnotation] = state
  BY DEF Put, EmptyMap
<1> HIDE DEF outcome
<1> QED
  BY <1>2, <1>3, KeysDiffer DEF Put, cut

\* The patch applies to the annotations it was made for, and notes what it was made to note.
LEMMA PatchNotes ==
  ASSUME NEW annotations, NEW state, NEW reason, Stated(reason)
  PROVE  /\ dispositionPatch(annotations, state, reason) # <<>>
         /\ Applicable(annotations, dispositionPatch(annotations, state, reason))
         /\ Notes(annotations, state, reason,
                  Patched(annotations, dispositionPatch(annotations, state, reason)))
<1> DEFINE note == Note(state, truncateReason(reason))
           patch == dispositionPatch(annotations, state, reason)
           patched == Patched(annotations, patch)
           outcome == AddKey(ConversionOutcomeAnnotation, note[ConversionOutcomeAnnotation])
           because == AddKey(ConversionReasonAnnotation, note[ConversionReasonAnnotation])
           whole == AddMap(note)
<1>1. /\ DOMAIN note = {ConversionOutcomeAnnotation, ConversionReasonAnnotation}
      /\ note[ConversionOutcomeAnnotation] = state
      /\ note[ConversionReasonAnnotation] = truncateReason(reason)
  BY NoteSays
<1> HIDE DEF note
<1>2. CASE annotations = EmptyMap
  <2>1. patch = <<whole>>
    BY <1>2 DEF dispositionPatch, note
  <2>2. AddsMap(whole) /\ whole.value = note
    BY DEF AddsMap, AddMap
  <2> HIDE DEF patch, whole
  <2>3. patch # <<>> /\ DOMAIN patch = {1} /\ patch[1] = whole
    BY <2>1
  <2>4. Applicable(annotations, patch) /\ patched = note
    BY <2>2, <2>3 DEF Applicable, Patched
  <2>5. DOMAIN annotations = {}
    BY <1>2 DEF EmptyMap
  <2> HIDE DEF patched
  <2>6. Notes(annotations, state, reason, patched)
    BY <1>1, <2>4, <2>5 DEF Notes
  <2> QED
    BY <2>3, <2>4, <2>6 DEF patch, patched
<1>3. CASE annotations # EmptyMap
  <2>1. patch = <<outcome>> \o When(ConversionReasonAnnotation \in DOMAIN note, <<because>>)
    BY <1>3 DEF dispositionPatch, note
  <2>2. /\ ~AddsMap(outcome) /\ KeyOf(outcome) = ConversionOutcomeAnnotation
        /\ ~AddsMap(because) /\ KeyOf(because) = ConversionReasonAnnotation
        /\ ~Contains(outcome.path[3], "/") /\ ~Contains(because.path[3], "/")
    BY KeyAdded
  <2>3. outcome.value = state /\ because.value = truncateReason(reason)
    BY <1>1 DEF AddKey
  <2> HIDE DEF patch, outcome, because
  <2>4. patch = <<outcome, because>>
    BY <1>1, <2>1, BuildThenOne DEF When
  <2>5. patch # <<>> /\ DOMAIN patch = {1, 2} /\ patch[1] = outcome /\ patch[2] = because
    BY <2>4
  <2>6. Applicable(annotations, patch)
    BY <1>3, <2>2, <2>5 DEF Applicable
  <2> DEFINE adding(key) == {n \in DOMAIN patch : KeyOf(patch[n]) = key}
             keys == {KeyOf(patch[n]) : n \in DOMAIN patch}
  <2>7. keys = {ConversionOutcomeAnnotation, ConversionReasonAnnotation}
    BY <2>2, <2>5
  <2>8. /\ adding(ConversionOutcomeAnnotation) = {1} /\ adding(ConversionReasonAnnotation) = {2}
        /\ \A key : key \notin keys => adding(key) = {}
    BY <2>2, <2>5, KeysDiffer
  <2>9. patched = [key \in DOMAIN annotations \union keys |->
                     IF adding(key) = {} THEN annotations[key]
                     ELSE patch[CHOOSE n \in adding(key) : TRUE].value]
    BY <2>2, <2>5 DEF Patched
  <2> HIDE DEF patched, adding, keys
  <2>10. /\ patched[ConversionOutcomeAnnotation] = state
         /\ patched[ConversionReasonAnnotation] = truncateReason(reason)
    BY <2>3, <2>5, <2>7, <2>8, <2>9
  <2>11. \A key \in DOMAIN annotations \ keys : patched[key] = annotations[key]
    BY <2>8, <2>9
  <2>12. Notes(annotations, state, reason, patched)
    BY <2>7, <2>9, <2>10, <2>11 DEF Notes
  <2> QED
    BY <2>5, <2>6, <2>12 DEF patch, patched
<1> QED
  BY <1>2, <1>3

-----------------------------------------------------------------------------
(* crane.                                                                  *)

\* Objects are told apart by what the output knows them by, and are objects.
Identified(objects) == \A o, p \in objects : Id(o) = Id(p) => o = p
Shaped(o) == {"kind", "group", "ns", "name", "content"} \subseteq DOMAIN o
Annotatable(o) == {"annotations", "strategy", "source", "output"} \subseteq DOMAIN o.content

ExportInvariant ==
  /\ Identified(export)
  /\ \A o \in export : Shaped(o) /\ (ReadAsBuildConfig(o) => Annotatable(o))

\* What is in the output is there under its own identity, and was generated or handed over; and
\* what was not removed is there.
OutputInvariant ==
  /\ \A id \in DOMAIN output :
       /\ Id(output[id]) = id
       /\ Shaped(output[id]) /\ (IsBuildConfig(output[id]) => Annotatable(output[id]))
       /\ output[id].kind \in GeneratedKinds \/ \E o \in DOMAIN answered : Id(o) = id
  /\ \A o \in DOMAIN answered :
       (IsBuildConfig(o) => ~answered[o].whiteout) => Id(o) \in DOMAIN output

\* A process runs for an object that was not handed over before, while the migration runs.
ProgressInvariant ==
  /\ request # Nil => status = "running" /\ request \in export /\ request \notin DOMAIN answered
  /\ DOMAIN answered \subseteq export
  /\ status = "done" => export \subseteq DOMAIN answered

MigrationInvariant ==
  ProcessInvariant /\ ExportInvariant /\ OutputInvariant /\ ProgressInvariant

\* What is kept of an object with a note of an outcome: everything, and the note.
KeptWith(o, logged, kept) ==
  /\ [kept.content EXCEPT !.annotations = EmptyMap] = [o.content EXCEPT !.annotations = EmptyMap]
  /\ Notes(o.content.annotations, logged.state, logged.reason, kept.content.annotations)

\* What a usable response puts in the output: the object itself, perhaps with a note, or what
\* was generated for it.
LEMMA WhatIsWritten ==
  ASSUME MigrationInvariant, response # Nil, ~Unusable
  PROVE  /\ \A o \in Written :
              /\ Shaped(o) /\ (IsBuildConfig(o) => Annotatable(o))
              /\ o.kind \in GeneratedKinds \/ Id(o) = Id(request)
         /\ ~IsBuildConfig(request) => Written = {request}
         /\ IsBuildConfig(request) =>
              \/ response.whiteout = TRUE /\ \A o \in Written : o.kind \in GeneratedKinds
              \/ Patchless(request) /\ Written = {request}
              \/ /\ ~Patchless(request)
                 /\ \E w : /\ Written = {w} /\ Id(w) = Id(request) /\ IsBuildConfig(w)
                           /\ KeptWith(request, response.logged, w)
<1> DEFINE objects == {Generated(response.resources[n]) : n \in DOMAIN response.resources}
<1>1. /\ Responds(request, response) /\ Shaped(request)
      /\ ReadAsBuildConfig(request) => Annotatable(request)
  BY DEF MigrationInvariant, ProcessInvariant, ProgressInvariant, ExportInvariant
<1>2. response.error = FALSE
  BY <1>1 DEF Unusable, Responds, LeftAlone, Refused, Removed, Noted, Unnoted
<1>3. CASE LeftAlone(request, response)
  <2>1. Written = {request}
    BY <1>3 DEF LeftAlone, Written
  <2> QED
    BY <1>1, <1>3, <2>1 DEF LeftAlone
<1>4. CASE Removed(request, response)
  <2>1. Written = objects
    BY <1>4 DEF Removed, Written
  <2>2. ASSUME NEW o \in objects
        PROVE  o.kind \in GeneratedKinds /\ Shaped(o)
    <3>1. PICK n \in DOMAIN response.resources : o = Generated(response.resources[n])
      OBVIOUS
    <3>2. o.kind = response.resources[n].kind /\ Shaped(o)
      BY <3>1 DEF Generated, Shaped
    <3> QED
      BY <1>4, <3>2 DEF Removed, AllGenerated
  <2>3. \A o \in objects : ~IsBuildConfig(o)
    BY <2>2 DEF IsBuildConfig, GeneratedKinds
  <2> QED
    BY <1>4, <2>1, <2>2, <2>3 DEF Removed, ReadAsBuildConfig
<1>5. CASE Noted(request, response)
  <2> DEFINE annotations == Patched(request.content.annotations, response.patch)
             w == [request EXCEPT !.content.annotations = annotations]
  <2>1. /\ response.patch # <<>>
        /\ Notes(request.content.annotations, response.logged.state, response.logged.reason,
                 annotations)
    BY <1>5, PatchNotes DEF Noted
  <2>2. Written = {w}
    BY <1>5, <2>1 DEF Noted, Written
  <2> HIDE DEF annotations
  <2>3. Annotatable(request)
    BY <1>1, <1>5 DEF Noted
  <2>4. /\ DOMAIN w = DOMAIN request /\ w.kind = request.kind /\ w.group = request.group
        /\ w.ns = request.ns /\ w.name = request.name
        /\ w.content = [request.content EXCEPT !.annotations = annotations]
    BY <1>1 DEF Shaped
  <2>5. w.content.annotations = annotations /\ Annotatable(w)
    BY <2>3, <2>4 DEF Annotatable
  <2>6. [w.content EXCEPT !.annotations = EmptyMap]
          = [request.content EXCEPT !.annotations = EmptyMap]
    BY <2>4
  <2> HIDE DEF w
  <2>7. Id(w) = Id(request) /\ IsBuildConfig(w) /\ Shaped(w)
    BY <1>1, <1>5, <2>4 DEF Noted, ReadAsBuildConfig, Id, IsBuildConfig, Shaped
  <2>8. KeptWith(request, response.logged, w)
    BY <2>1, <2>5, <2>6 DEF KeptWith
  <2> QED
    BY <1>5, <2>2, <2>5, <2>7, <2>8 DEF Noted, ReadAsBuildConfig
<1>6. CASE Unnoted(request, response)
  <2>1. Written = {request}
    BY <1>6 DEF Unnoted, Written
  <2> QED
    BY <1>1, <1>6, <2>1 DEF Unnoted, ReadAsBuildConfig
<1> QED
  BY <1>1, <1>2, <1>3, <1>4, <1>5, <1>6 DEF Responds, Refused

\* The output once a response is in it.
LEMMA OutputCollected ==
  ASSUME Collect
  PROVE  /\ DOMAIN output' = DOMAIN output \union {Id(o) : o \in Written}
         /\ \A o \in Written : \E w \in Written : Id(w) = Id(o) /\ output'[Id(o)] = w
         /\ \A id \in DOMAIN output :
              id \notin {Id(o) : o \in Written} => output'[id] = output[id]
<1> DEFINE w(id) == CHOOSE o \in Written : Id(o) = id
<1>1. output' = [id \in DOMAIN output \union {Id(o) : o \in Written} |->
                   IF \E o \in Written : Id(o) = id THEN w(id) ELSE output[id]]
  BY DEF Collect
<1>2. ASSUME NEW o \in Written
      PROVE  w(Id(o)) \in Written /\ Id(w(Id(o))) = Id(o)
  OBVIOUS
<1> HIDE DEF w
<1> QED
  BY <1>1, <1>2

\* crane's steps keep the invariant.
LEMMA CollectKeeps ==
  ASSUME MigrationInvariant, Collect
  PROVE  MigrationInvariant'
<1>1. /\ request # Nil /\ pc = "idle" /\ status = "running"
      /\ request \in export /\ request \notin DOMAIN answered
  BY DEF Collect, MigrationInvariant, ProcessInvariant, ProgressInvariant
<1>2. DOMAIN answered' = DOMAIN answered \union {request}
  BY DEF Collect, Put
<1>3. ProcessInvariant'
  BY <1>1 DEF Collect, Exit, MigrationInvariant, ProcessInvariant, Provision, Account, Map,
              AccountAndMap
<1>4. ExportInvariant'
  BY DEF Collect, MigrationInvariant, ExportInvariant, Identified
<1>5. ProgressInvariant'
  BY <1>1, <1>2 DEF Collect, Exit, MigrationInvariant, ProgressInvariant
<1>6. OutputInvariant'
  <2>1. /\ \A o \in Written :
             /\ Shaped(o) /\ (IsBuildConfig(o) => Annotatable(o))
             /\ o.kind \in GeneratedKinds \/ Id(o) = Id(request)
        /\ (IsBuildConfig(request) => ~response.whiteout) =>
             \E w \in Written : Id(w) = Id(request)
    BY WhatIsWritten DEF Collect
  <2>2. /\ DOMAIN output' = DOMAIN output \union {Id(o) : o \in Written}
        /\ \A o \in Written : \E w \in Written : Id(w) = Id(o) /\ output'[Id(o)] = w
        /\ \A id \in DOMAIN output :
             id \notin {Id(o) : o \in Written} => output'[id] = output[id]
    BY OutputCollected
  <2>3. ASSUME NEW id \in DOMAIN output'
        PROVE  /\ Id(output'[id]) = id
               /\ Shaped(output'[id]) /\ (IsBuildConfig(output'[id]) => Annotatable(output'[id]))
               /\ output'[id].kind \in GeneratedKinds \/ \E o \in DOMAIN answered' : Id(o) = id
    <3>1. CASE \E o \in Written : Id(o) = id
      <4>1. PICK w \in Written : Id(w) = id /\ output'[id] = w
        BY <2>2, <3>1
      <4> QED
        BY <1>2, <2>1, <4>1
    <3>2. CASE id \in DOMAIN output /\ id \notin {Id(o) : o \in Written}
      <4>1. output'[id] = output[id]
        BY <2>2, <3>2
      <4> QED
        BY <1>2, <3>2, <4>1 DEF MigrationInvariant, OutputInvariant
    <3> QED
      BY <2>2, <3>1, <3>2
  <2>4. ASSUME NEW o \in DOMAIN answered', IsBuildConfig(o) => ~answered'[o].whiteout
        PROVE  Id(o) \in DOMAIN output'
    <3>1. answered'[request] = response /\ \A x \in DOMAIN answered : answered'[x] = answered[x]
      BY <1>1 DEF Collect, Put
    <3>2. CASE o = request
      BY <2>1, <2>2, <2>4, <3>1, <3>2
    <3>3. CASE o \in DOMAIN answered
      BY <2>2, <2>4, <3>1, <3>3 DEF MigrationInvariant, OutputInvariant
    <3> QED
      BY <1>2, <3>2, <3>3
  <2> QED
    BY <2>3, <2>4 DEF OutputInvariant, Shaped, Annotatable, IsBuildConfig, Id
<1> QED
  BY <1>3, <1>4, <1>5, <1>6 DEF MigrationInvariant

LEMMA RerunKeeps ==
  ASSUME MigrationInvariant, Rerun
  PROVE  MigrationInvariant'
<1>1. /\ UNCHANGED pluginVars /\ request = Nil /\ DOMAIN answered' = {} /\ DOMAIN output' = {}
      /\ status' = "running"
  BY DEF Rerun, EmptyMap, MigrationInvariant, ProgressInvariant
<1>2. ProcessInvariant'
  BY <1>1 DEF pluginVars, vars, MigrationInvariant, ProcessInvariant, Provision, Account, Map,
              AccountAndMap, AllGenerated, ReadAsBuildConfig, IsBuildConfig, Decodable, Responds,
              LeftAlone, Refused, Removed, Noted, Unnoted, Patchless
<1>3. ProgressInvariant' /\ OutputInvariant'
  BY <1>1 DEF pluginVars, ProgressInvariant, OutputInvariant
<1>4. ExportInvariant'
  <2>1. PICK repaired \in SUBSET Left :
          export' = (Range(output) \ repaired) \union {Repaired(o) : o \in repaired}
    BY DEF Rerun
  <2>2. ASSUME NEW o \in Range(output)
        PROVE  /\ Shaped(o) /\ (IsBuildConfig(o) => Annotatable(o))
               /\ Id(o) \in DOMAIN output /\ output[Id(o)] = o
    BY DEF Range, MigrationInvariant, OutputInvariant
  <2>3. ASSUME NEW o \in repaired
        PROVE  /\ o \in Range(output) /\ Id(Repaired(o)) = Id(o)
               /\ Shaped(Repaired(o)) /\ Annotatable(Repaired(o))
    <3> DEFINE content == [o.content EXCEPT !.strategy = Cured.strategy, !.source = Cured.source]
               w == [o EXCEPT !.content = content]
    <3>1. Repaired(o) = w
      BY DEF Repaired
    <3>2. o \in Range(output) /\ Shaped(o) /\ Annotatable(o)
      BY <2>1, <2>2 DEF Left
    <3>3. DOMAIN content = DOMAIN o.content
      OBVIOUS
    <3> HIDE DEF content
    <3>4. /\ DOMAIN w = DOMAIN o /\ w.kind = o.kind /\ w.group = o.group
          /\ w.ns = o.ns /\ w.name = o.name /\ w.content = content
      BY <3>2 DEF Shaped
    <3> HIDE DEF w
    <3>5. Id(w) = Id(o) /\ Shaped(w) /\ Annotatable(w)
      BY <3>2, <3>3, <3>4 DEF Id, Shaped, Annotatable
    <3> QED
      BY <3>1, <3>2, <3>5
  <2>4. \A o \in export' : Shaped(o) /\ (ReadAsBuildConfig(o) => Annotatable(o))
    BY <2>1, <2>2, <2>3 DEF ReadAsBuildConfig
  <2>5. ASSUME NEW o \in export', NEW p \in export', Id(o) = Id(p)
        PROVE  o = p
    <3>1. ASSUME NEW q \in export'
          PROVE  \/ q \in Range(output) \ repaired
                 \/ \E z \in repaired : q = Repaired(z)
      BY <2>1
    <3>2. CASE o \in Range(output) \ repaired /\ p \in Range(output) \ repaired
      BY <2>2, <2>5, <3>2
    <3>3. CASE o \in Range(output) \ repaired /\ \E z \in repaired : p = Repaired(z)
      BY <2>2, <2>3, <2>5, <3>3
    <3>4. CASE p \in Range(output) \ repaired /\ \E z \in repaired : o = Repaired(z)
      BY <2>2, <2>3, <2>5, <3>4
    <3>5. CASE (\E z \in repaired : o = Repaired(z)) /\ (\E z \in repaired : p = Repaired(z))
      BY <2>2, <2>3, <2>5, <3>5
    <3> QED
      BY <3>1, <3>2, <3>3, <3>4, <3>5
  <2> QED
    BY <2>4, <2>5 DEF ExportInvariant, Identified, Shaped, Annotatable, ReadAsBuildConfig,
                      IsBuildConfig, Decodable
<1> QED
  BY <1>2, <1>3, <1>4 DEF MigrationInvariant

\* Every step of a migration keeps the invariant.
LEMMA MigrationStepKeeps ==
  ASSUME MigrationInvariant, [MigrationNext]_migrationVars
  PROVE  MigrationInvariant'
<1> DEFINE cranes == <<export, answered, output, before, round, status>>
<1>1. CASE \E object \in export : Hand(object)
  <2>1. PICK object \in export : Hand(object)
    BY <1>1
  <2>2. /\ request = Nil /\ request' = object /\ response' = response /\ status = "running"
        /\ object \notin DOMAIN answered /\ UNCHANGED vars /\ UNCHANGED cranes
    BY <2>1 DEF Hand
  <2>3. pc = "idle" /\ results = <<>> /\ response = Nil
    BY <2>2 DEF MigrationInvariant, ProcessInvariant
  <2>4. ProcessInvariant'
    BY <2>2, <2>3 DEF vars, MigrationInvariant, ProcessInvariant, Provision, Account, Map,
                      AccountAndMap
  <2>5. ProgressInvariant' /\ ExportInvariant' /\ OutputInvariant'
    BY <2>1, <2>2 DEF MigrationInvariant, ProgressInvariant, ExportInvariant, OutputInvariant,
                      Identified
  <2> QED
    BY <2>4, <2>5 DEF MigrationInvariant
<1>2. CASE Converse
  <2>1. ProcessInvariant'
    BY <1>2, PluginStepKeeps DEF Converse, MigrationInvariant
  <2>2. request' = request
    BY <1>2 DEF Converse, PluginStep, PassOther, RefuseUndecodable, StartConversion, Converting,
                Replace, PassAnnotated, PassUnannotated, Respond
  <2>3. ProgressInvariant' /\ ExportInvariant' /\ OutputInvariant'
    BY <1>2, <2>2 DEF Converse, MigrationInvariant, ProgressInvariant, ExportInvariant,
                      OutputInvariant, Identified
  <2> QED
    BY <2>1, <2>3 DEF MigrationInvariant
<1>3. CASE Collect
  BY <1>3, CollectKeeps
<1>4. CASE Abort
  <2>1. pc = "idle"
    BY <1>4 DEF Abort, MigrationInvariant, ProcessInvariant
  <2>2. ProcessInvariant'
    BY <1>4, <2>1 DEF Abort, Exit, MigrationInvariant, ProcessInvariant, Provision, Account, Map,
                      AccountAndMap
  <2>3. ProgressInvariant' /\ ExportInvariant' /\ OutputInvariant'
    BY <1>4 DEF Abort, Exit, MigrationInvariant, ProgressInvariant, ExportInvariant,
                OutputInvariant, Identified
  <2> QED
    BY <2>2, <2>3 DEF MigrationInvariant
<1>5. CASE Complete \/ Over \/ UNCHANGED migrationVars
  <2>1. /\ UNCHANGED <<pluginVars, export, answered, output>>
        /\ \/ status' = status
           \/ request = Nil /\ export = DOMAIN answered
    BY <1>5 DEF Complete, Over, migrationVars
  <2>2. ProcessInvariant'
    BY <2>1 DEF pluginVars, vars, MigrationInvariant, ProcessInvariant, Provision, Account, Map,
                AccountAndMap, AllGenerated, ReadAsBuildConfig, IsBuildConfig, Decodable, Responds,
                LeftAlone, Refused, Removed, Noted, Unnoted, Patchless
  <2>3. ProgressInvariant' /\ ExportInvariant' /\ OutputInvariant'
    BY <2>1 DEF pluginVars, MigrationInvariant, ProgressInvariant, ExportInvariant,
                OutputInvariant, Identified
  <2> QED
    BY <2>2, <2>3 DEF MigrationInvariant
<1>6. CASE Rerun
  BY <1>6, RerunKeeps
<1> QED
  BY <1>1, <1>2, <1>3, <1>4, <1>5, <1>6 DEF MigrationNext, Progress

LEMMA MigrationStarts == MigrationInit => MigrationInvariant
<1> SUFFICES ASSUME MigrationInit PROVE MigrationInvariant
  OBVIOUS
<1>1. /\ pc = "idle" /\ extra = <<>> /\ results = <<>> /\ request = Nil /\ response = Nil
      /\ export \in Exports /\ DOMAIN answered = {} /\ DOMAIN output = {} /\ status = "running"
  BY DEF MigrationInit, Init, EmptyMap
<1>2. ProcessInvariant
  BY <1>1 DEF ProcessInvariant, Provision, Early, Late, Running, Steps
<1>3. ExportInvariant
  BY <1>1, MigrationAssumption
     DEF MigrationAssumption, ExportInvariant, Identified, Shaped, Annotatable, ReadAsBuildConfig
<1>4. OutputInvariant /\ ProgressInvariant
  BY <1>1 DEF OutputInvariant, ProgressInvariant
<1> QED
  BY <1>2, <1>3, <1>4 DEF MigrationInvariant

-----------------------------------------------------------------------------
(* The steps of Migration are steps of Disposal.                           *)

Fate == [o \in export |-> FateOf(o)]

\* What was handed over is settled, and what was not is pending.
LEMMA FateSettled ==
  ASSUME NEW o
  PROVE  (FateOf(o) = "pending") = (o \notin DOMAIN answered)
BY DEF FateOf

\* Steps that leave the output alone change no fate.
LEMMA FateKept ==
  ASSUME UNCHANGED <<export, answered, output>>
  PROVE  Fate' = Fate
BY DEF Fate, FateOf, Annotated

\* Objects of one identity are of one kind.
LEMMA SameKind ==
  ASSUME NEW o, NEW p, Id(o) = Id(p)
  PROVE  o.kind = p.kind
BY DEF Id

\* Collecting a response settles its object,
LEMMA CollectSettlesOne ==
  ASSUME MigrationInvariant, Collect, NEW r, r = request
  PROVE  FateOf(r)' \in Promised!Fates(r)
<1> DEFINE id == Id(r)
<1>1. /\ r \in export /\ r \notin DOMAIN answered
      /\ r \in DOMAIN answered' /\ DOMAIN answered \subseteq export
  BY DEF Collect, Put, MigrationInvariant, ProcessInvariant, ProgressInvariant
<1>2. /\ ~IsBuildConfig(r) => Written = {r}
      /\ IsBuildConfig(r) =>
           \/ \A o \in Written : o.kind \in GeneratedKinds
           \/ \E w : /\ Written = {w} /\ Id(w) = id /\ IsBuildConfig(w)
                     /\ \/ ConversionOutcomeAnnotation \in DOMAIN w.content.annotations
                        \/ Patchless(r)
  BY WhatIsWritten DEF Collect, KeptWith, Notes
<1>3. /\ DOMAIN output' = DOMAIN output \union {Id(o) : o \in Written}
      /\ \A o \in Written : \E w \in Written : Id(w) = Id(o) /\ output'[Id(o)] = w
  BY OutputCollected
<1>4. CASE ~IsBuildConfig(r)
  <2>1. id \in DOMAIN output'
    BY <1>2, <1>3, <1>4
  <2>2. FateOf(r)' = "kept"
    BY <1>1, <1>4, <2>1 DEF FateOf, Annotated
  <2>3. Promised!Fates(r) = {"kept"}
    BY <1>4 DEF Promised!Fates
  <2> QED
    BY <2>2, <2>3
<1>5. CASE IsBuildConfig(r) /\ \A o \in Written : o.kind \in GeneratedKinds
  <2>1. r.kind = "BuildConfig" /\ r.kind \notin GeneratedKinds
    BY <1>5 DEF IsBuildConfig, GeneratedKinds
  <2>2. id \notin {Id(o) : o \in Written}
    BY <1>5, <2>1, SameKind
  <2>3. id \notin DOMAIN output
    <3> SUFFICES ASSUME id \in DOMAIN output PROVE FALSE
      OBVIOUS
    <3>1. /\ Id(output[id]) = id
          /\ output[id].kind \in GeneratedKinds \/ \E o \in DOMAIN answered : Id(o) = id
      BY DEF MigrationInvariant, OutputInvariant
    <3>2. output[id].kind = r.kind
      BY <3>1, SameKind
    <3>3. PICK o \in DOMAIN answered : Id(o) = id
      BY <2>1, <3>1, <3>2
    <3>4. o = r
      BY <1>1, <3>3 DEF MigrationInvariant, ExportInvariant, Identified
    <3> QED
      BY <1>1, <3>3, <3>4
  <2>4. id \notin DOMAIN output'
    BY <1>3, <2>2, <2>3
  <2>5. FateOf(r)' = "replaced"
    BY <1>1, <2>4 DEF FateOf
  <2>6. "replaced" \in Promised!Fates(r)
    BY <1>5 DEF Promised!Fates
  <2> QED
    BY <2>5, <2>6
<1>6. ASSUME IsBuildConfig(r),
             NEW w, Written = {w}, Id(w) = id,
             \/ ConversionOutcomeAnnotation \in DOMAIN w.content.annotations
             \/ Patchless(r)
      PROVE  FateOf(r)' \in Promised!Fates(r)
  <2>1. id \in DOMAIN output' /\ output'[id] = w
    BY <1>3, <1>6
  <2>2. FateOf(r)' = IF ConversionOutcomeAnnotation \in DOMAIN w.content.annotations
                         THEN "annotated" ELSE "kept"
    BY <1>1, <1>6, <2>1 DEF FateOf, Annotated
  <2>3. /\ "annotated" \in Promised!Fates(r)
        /\ Patchless(r) => "kept" \in Promised!Fates(r)
    BY <1>6 DEF Promised!Fates
  <2> QED
    BY <1>6, <2>2, <2>3
<1> QED
  BY <1>2, <1>4, <1>5, <1>6

\* and what is written takes the place of no other BuildConfig.
LEMMA OthersStay ==
  ASSUME MigrationInvariant, Collect, NEW o \in export, o # request, IsBuildConfig(o)
  PROVE  /\ Id(o) \in DOMAIN output' <=> Id(o) \in DOMAIN output
         /\ Id(o) \in DOMAIN output => output'[Id(o)] = output[Id(o)]
<1>1. ASSUME NEW w \in Written
      PROVE  Id(w) # Id(o)
  <2>1. w.kind \in GeneratedKinds \/ Id(w) = Id(request)
    BY WhatIsWritten DEF Collect
  <2>2. CASE w.kind \in GeneratedKinds
    BY <2>2, SameKind DEF IsBuildConfig, GeneratedKinds
  <2>3. CASE Id(w) = Id(request)
    BY <2>3 DEF Collect, MigrationInvariant, ExportInvariant, Identified, ProcessInvariant,
                ProgressInvariant
  <2> QED
    BY <2>1, <2>2, <2>3
<1> QED
  BY <1>1, OutputCollected

\* So a response settles no other object.
LEMMA CollectSettlesNoOther ==
  ASSUME MigrationInvariant, Collect, NEW o \in export, o # request
  PROVE  FateOf(o)' = FateOf(o)
<1> DEFINE id == Id(o)
<1>1. DOMAIN answered' = DOMAIN answered \union {request} /\ request \in export
  BY DEF Collect, Put, MigrationInvariant, ProcessInvariant, ProgressInvariant
<1>2. /\ DOMAIN output' = DOMAIN output \union {Id(w) : w \in Written}
      /\ \A j \in DOMAIN output :
           j \notin {Id(w) : w \in Written} => output'[j] = output[j]
  BY OutputCollected
<1>3. CASE o \notin DOMAIN answered
  BY <1>1, <1>3 DEF FateOf
<1>4. CASE o \in DOMAIN answered /\ ~IsBuildConfig(o)
  <2>1. id \in DOMAIN output /\ id \in DOMAIN output'
    BY <1>2, <1>4 DEF MigrationInvariant, OutputInvariant
  <2> QED
    BY <1>1, <1>4, <2>1 DEF FateOf, Annotated
<1>5. CASE o \in DOMAIN answered /\ IsBuildConfig(o)
  <2>1. /\ id \in DOMAIN output' <=> id \in DOMAIN output
        /\ id \in DOMAIN output => output'[id] = output[id]
    BY <1>5, OthersStay
  <2>2. CASE id \in DOMAIN output
    BY <1>1, <1>5, <2>1, <2>2 DEF FateOf, Annotated
  <2>3. CASE id \notin DOMAIN output
    BY <1>1, <1>5, <2>1, <2>3 DEF FateOf
  <2> QED
    BY <2>2, <2>3
<1> QED
  BY <1>3, <1>4, <1>5

\* Collecting a response is settling an object.
LEMMA CollectIsSettle ==
  ASSUME MigrationInvariant, Collect
  PROVE  Promised!Settle
<1>1. /\ request \in export /\ request \notin DOMAIN answered /\ status = "running"
      /\ export' = export /\ status' = status
  BY DEF Collect, MigrationInvariant, ProcessInvariant, ProgressInvariant
<1>2. IsBuildConfig(request) => Decodable(request)
  <2>1. Responds(request, response) /\ response.error # TRUE
    BY DEF Collect, Unusable, MigrationInvariant, ProcessInvariant
  <2> QED
    BY <2>1 DEF Responds, LeftAlone, Refused, Removed, Noted, Unnoted, ReadAsBuildConfig
<1>3. Fate[request] = "pending"
  BY <1>1, FateSettled DEF Fate
<1>4. PICK r : r = request
  OBVIOUS
<1> DEFINE new == FateOf(r)'
<1>5. new \in Promised!Fates(r)
  BY <1>4, CollectSettlesOne
<1>6. \A o \in export : o # r => FateOf(o)' = FateOf(o)
  BY <1>4, CollectSettlesNoOther
<1>7. Fate' = [o \in export |-> FateOf(o)']
  BY <1>1 DEF Fate
<1>8. FateOf(r)' = new
  OBVIOUS
<1> HIDE DEF new
<1>9. Fate' = [Fate EXCEPT ![r] = new]
  <2>1. ASSUME NEW o \in export
        PROVE  FateOf(o)' = [Fate EXCEPT ![r] = new][o]
    <3>1. CASE o = r
      BY <1>1, <1>4, <1>8, <3>1 DEF Fate
    <3>2. CASE o # r
      BY <1>6, <3>2 DEF Fate
    <3> QED
      BY <3>1, <3>2
  <2> QED
    BY <1>7, <2>1 DEF Fate
<1> QED
  BY <1>1, <1>2, <1>3, <1>4, <1>5, <1>9 DEF Promised!Settle, Fate

\* Giving up is giving up.
LEMMA AbortIsGiveUp ==
  ASSUME MigrationInvariant, Abort
  PROVE  Promised!GiveUp
<1>1. /\ request \in export /\ request \notin DOMAIN answered /\ status = "running"
      /\ Responds(request, response)
  BY DEF Abort, MigrationInvariant, ProcessInvariant, ProgressInvariant
<1>2. Refused(request, response)
  <2>1. CASE Noted(request, response)
    <3>1. /\ response.error = FALSE
          /\ Applicable(request.content.annotations, response.patch)
      BY <2>1, PatchNotes DEF Noted
    <3> QED
      BY <3>1 DEF Abort, Unusable
  <2>2. CASE \/ LeftAlone(request, response) \/ Removed(request, response)
             \/ Unnoted(request, response)
    BY <2>2 DEF Abort, Unusable, LeftAlone, Removed, Unnoted
  <2> QED
    BY <1>1, <2>1, <2>2 DEF Responds
<1>3. Fate' = Fate
  BY FateKept DEF Abort
<1>4. Fate[request] = "pending" /\ request \in DOMAIN Fate
  BY <1>1, FateSettled DEF Fate
<1>5. status' = "aborted"
  BY DEF Abort
<1> QED
  BY <1>1, <1>2, <1>3, <1>4, <1>5 DEF Refused, Promised!GiveUp, Fate

\* Migrating the output is starting over.
LEMMA RerunIsRestart ==
  ASSUME MigrationInvariant, Rerun
  PROVE  Promised!Restart
<1>1. /\ status = "done" /\ status' = "running" /\ DOMAIN answered' = {}
      /\ export \subseteq DOMAIN answered
  BY DEF Rerun, EmptyMap, MigrationInvariant, ProgressInvariant
<1>2. \A o \in export : Fate[o] # "pending"
  BY <1>1, FateSettled DEF Fate
<1>3. \A o \in export' : FateOf(o)' = "pending"
  BY <1>1 DEF FateOf
<1>4. DOMAIN Fate = export /\ DOMAIN Fate' = export' /\ \A o \in export' : Fate'[o] = FateOf(o)'
  BY DEF Fate
<1> QED
  BY <1>1, <1>2, <1>3, <1>4 DEF Promised!Restart, Promised!AllSettled, Promised!Untouched, Fate

\* One bad BuildConfig never stops a migration and none disappears without a replacement or a
\* note, for any exports in any order: KeepsDisposal.
THEOREM DisposalKept == MigrationSpec => KeepsDisposal
<1>1. MigrationInit => Promised!Init
  <2> SUFFICES ASSUME MigrationInit PROVE Promised!Init
    OBVIOUS
  <2>1. DOMAIN answered = {} /\ status = "running"
    BY DEF MigrationInit, EmptyMap
  <2>2. \A o \in export : Fate[o] = "pending"
    BY <2>1, FateSettled DEF Fate
  <2> QED
    BY <2>1, <2>2 DEF Promised!Init, Promised!Untouched, Fate
<1>2. MigrationInvariant /\ [MigrationNext]_migrationVars => [Promised!Next]_(Promised!vars)
  <2> SUFFICES ASSUME MigrationInvariant, [MigrationNext]_migrationVars
               PROVE  [Promised!Next]_(Promised!vars)
    OBVIOUS
  <2>1. CASE Collect
    BY <2>1, CollectIsSettle DEF Promised!Next
  <2>2. CASE Abort
    BY <2>2, AbortIsGiveUp DEF Promised!Next
  <2>3. CASE Rerun
    BY <2>3, RerunIsRestart DEF Promised!Next
  <2>4. CASE UNCHANGED <<export, answered, output>> /\ (status = "aborted")' = (status = "aborted")
    BY <2>4, FateKept DEF Promised!vars, Fate
  <2>5. CASE (\E object \in export : Hand(object)) \/ Converse \/ Complete \/ Over
             \/ UNCHANGED migrationVars
    BY <2>4, <2>5 DEF Hand, Converse, Complete, Over, migrationVars
  <2> QED
    BY <2>1, <2>2, <2>3, <2>5 DEF MigrationNext, Progress
<1> QED
  BY <1>1, <1>2, MigrationStarts, MigrationStepKeeps, PTL
     DEF MigrationSpec, KeepsDisposal, Promised!Spec

-----------------------------------------------------------------------------
(* What is said of the BuildConfigs that were declined.                    *)

\* What DeclinedSelfDescribing says of one of them.
Describes(o) ==
  IF Patchless(o) THEN output[Id(o)] = o ELSE KeptWith(o, answered[o].logged, output[Id(o)])

LEMMA DescribesEach ==
  DeclinedSelfDescribing
    <=> \A o \in DOMAIN answered \ Whited : IsBuildConfig(o) => Describes(o)
BY DEF DeclinedSelfDescribing, Describes, KeptWith, Notes

\* Collecting a response describes its BuildConfig, and no other loses its description.
LEMMA CollectDescribes ==
  ASSUME MigrationInvariant, DeclinedSelfDescribing, Collect,
         NEW o \in DOMAIN answered', ~answered'[o].whiteout, IsBuildConfig(o)
  PROVE  Describes(o)'
<1>1. /\ DOMAIN answered' = DOMAIN answered \union {request} /\ request \notin DOMAIN answered
      /\ answered'[request] = response
      /\ \A x \in DOMAIN answered : answered'[x] = answered[x] /\ x \in export
  BY DEF Collect, Put, MigrationInvariant, ProcessInvariant, ProgressInvariant
<1>2. CASE o = request
  <2>1. \E w : /\ Written = {w} /\ Id(w) = Id(o)
               /\ IF Patchless(o) THEN w = o ELSE KeptWith(o, response.logged, w)
    BY <1>1, <1>2, WhatIsWritten DEF Collect
  <2>2. PICK w : /\ Written = {w} /\ Id(w) = Id(o)
                 /\ IF Patchless(o) THEN w = o ELSE KeptWith(o, response.logged, w)
    BY <2>1
  <2>3. output'[Id(o)] = w /\ answered'[o] = response
    BY <1>1, <1>2, <2>2, OutputCollected
  <2> QED
    BY <2>2, <2>3 DEF Describes, KeptWith, Patchless
<1>3. CASE o \in DOMAIN answered
  <2>1. o \in export /\ o # request /\ answered'[o] = answered[o] /\ o \notin Whited
    BY <1>1, <1>3 DEF Whited
  <2>2. Id(o) \in DOMAIN output
    BY <1>3, <2>1 DEF Whited, MigrationInvariant, OutputInvariant
  <2>3. output'[Id(o)] = output[Id(o)]
    BY <2>1, <2>2, OthersStay
  <2>4. Describes(o)
    BY <1>3, <2>1, DescribesEach
  <2> QED
    BY <2>1, <2>3, <2>4 DEF Describes, KeptWith, Patchless
<1> QED
  BY <1>1, <1>2, <1>3

\* Every step of a migration keeps the descriptions; migrating the output starts without any.
LEMMA DescriptionsKept ==
  ASSUME MigrationInvariant, DeclinedSelfDescribing, [MigrationNext]_migrationVars
  PROVE  DeclinedSelfDescribing'
<1>1. CASE Collect
  <2>1. \A o \in DOMAIN answered' \ Whited' : IsBuildConfig(o) => Describes(o)'
    BY <1>1, CollectDescribes DEF Whited
  <2> QED
    BY <2>1 DEF DeclinedSelfDescribing, Describes, KeptWith, Notes
<1>2. CASE Rerun
  <2>1. DOMAIN answered' = {}
    BY <1>2 DEF Rerun, EmptyMap
  <2> QED
    BY <2>1 DEF DeclinedSelfDescribing
<1>3. CASE UNCHANGED <<answered, output>>
  BY <1>3 DEF DeclinedSelfDescribing, Whited
<1> QED
  BY <1>1, <1>2, <1>3
     DEF MigrationNext, Progress, Hand, Converse, Abort, Complete, Over, migrationVars

\* A BuildConfig that was declined says so and why, and is otherwise the one the user wrote, for
\* any exports in any order and after any number of migrations: DeclinedSelfDescribing.
THEOREM DeclinedDescribed == MigrationSpec => []DeclinedSelfDescribing
<1>1. MigrationInit => DeclinedSelfDescribing
  <2> SUFFICES ASSUME MigrationInit PROVE DeclinedSelfDescribing
    OBVIOUS
  <2>1. DOMAIN answered = {}
    BY DEF MigrationInit, EmptyMap
  <2> QED
    BY <2>1 DEF DeclinedSelfDescribing
<1> QED
  BY <1>1, DescriptionsKept, MigrationStarts, MigrationStepKeeps, PTL DEF MigrationSpec

-----------------------------------------------------------------------------
(* What Convert answers, for the object it was asked about.                *)

\* Every resource is where b may put one; no two are of one kind, so no two in one place; and one
\* is a Build that says it was converted from b.
Located(resources, b) == \A n \in DOMAIN resources : Id(Generated(resources[n])) \in Claims(b)
KindsDiffer(resources) ==
  \A m, n \in DOMAIN resources : resources[m].kind = resources[n].kind => m = n
NamesSource(resource, b) ==
  /\ resource.kind = "Build" /\ resource.ns = b.ns
  /\ resource.build.annotations[ConvertedFromAnnotation] = b.name
Delivers(resources, b) ==
  /\ Located(resources, b) /\ KindsDiffer(resources)
  /\ \E n \in DOMAIN resources : NamesSource(resources[n], b)

\* The Build under construction is the one of the BuildConfig, and says so.
Attributable ==
  /\ DOMAIN build = Fields /\ build.name = Sanitize(bc.name) /\ build.ns = bc.ns
  /\ ConvertedFromAnnotation \in DOMAIN build.annotations
  /\ build.annotations[ConvertedFromAnnotation] = bc.name

\* Convert runs for the object of the process; what it returned, and what the process answered,
\* deliver what that object becomes.
Delivery ==
  /\ pc # "idle" => bc = request.content /\ Attributable /\ Located(extra, bc)
  /\ results # <<>> =>
       \/ results[1].state \in {"skipped", "failed"}
       \/ Delivers(results[1].resources, request.content)
  /\ response # Nil =>
       \/ response.whiteout = FALSE
       \/ Delivers(response.resources, request.content)

\* What is generated for the BuildConfig is where it may be,
LEMMA GeneratedLocated ==
  /\ Id(Generated(GeneratedAccount)) \in Claims(bc)
  /\ Id(Generated(InlineConfigMap)) \in Claims(bc)
  /\ \A b : b.name = Sanitize(bc.name) /\ b.ns = bc.ns =>
       Id(Generated(BuildResource(b))) \in Claims(bc)
<1>1. Id(Generated(GeneratedAccount)) = <<"ServiceAccount", Blank, bc.ns, Sanitize(bc.name)>>
  BY DEF Id, Generated, GeneratedAccount
<1>2. Id(Generated(InlineConfigMap))
        = <<"ConfigMap", Blank, bc.ns, Sanitize(ConfigMapOriginal(bc))>>
  BY DEF Id, Generated, InlineConfigMap
<1>3. ASSUME NEW b
      PROVE  Id(Generated(BuildResource(b))) = <<"Build", "shipwright.io", b.ns, b.name>>
  BY DEF Id, Generated, BuildResource
<1> QED
  BY <1>1, <1>2, <1>3 DEF Claims

\* and stays there with one resource more.
LEMMA LocatedMore ==
  ASSUME NEW s, NEW r, NEW b, Located(s, b), Id(Generated(r)) \in Claims(b),
         s = <<>> \/ Account(s)
  PROVE  Located(Append(s, r), b)
<1>1. CASE s = <<>>
  <2>1. Append(s, r) = <<r>>
    BY <1>1
  <2> QED
    BY <2>1 DEF Located
<1>2. CASE Account(s)
  <2>1. PICK a : s = <<a>>
    BY <1>2 DEF Account
  <2>2. Append(s, r) = <<a, r>> /\ s[1] = a /\ DOMAIN s = {1}
    BY <2>1, AppendResource
  <2>3. Id(Generated(a)) \in Claims(b)
    BY <2>2 DEF Located
  <2> HIDE DEF Located
  <2>4. DOMAIN <<a, r>> = {1, 2} /\ <<a, r>>[1] = a /\ <<a, r>>[2] = r
    OBVIOUS
  <2> QED
    BY <2>2, <2>3, <2>4 DEF Located
<1> QED
  BY <1>1, <1>2

\* The annotation that names the BuildConfig is no other.
LEMMA SourceAnnotation ==
  ConvertedFromAnnotation
    \notin {InlineDockerfileConfigMapAnnotation, OriginalTriggersAnnotation,
            BuildRunTemplateAnnotation, ConversionWarningsAnnotation, ConversionOutcomeAnnotation}
BY DEF ConvertedFromAnnotation, InlineDockerfileConfigMapAnnotation, OriginalTriggersAnnotation,
       BuildRunTemplateAnnotation, ConversionWarningsAnnotation, ConversionOutcomeAnnotation

\* The Build starts attributable,
LEMMA SkeletonAttributable ==
  ASSUME NEW b, Begin(b)
  PROVE  Attributable' /\ bc' = b
<1> DEFINE s == Skeleton(b)
<1>1. /\ DOMAIN s = Fields /\ s.name = Sanitize(b.name) /\ s.ns = b.ns
      /\ s.annotations = Put(copyAnnotations(b), ConvertedFromAnnotation, b.name)
  BY DEF Skeleton, Fields
<1>2. build' = s /\ bc' = b
  BY DEF Begin
<1> HIDE DEF s
<1>3. /\ ConvertedFromAnnotation \in DOMAIN s.annotations
      /\ s.annotations[ConvertedFromAnnotation] = b.name
  BY <1>1 DEF Put
<1> QED
  BY <1>1, <1>2, <1>3 DEF Attributable

\* stays so,
LEMMA GoesAttributable ==
  ASSUME Attributable, Step, Goes
  PROVE  Attributable' /\ bc' = bc
<1>1. DOMAIN build = Fields
  BY DEF Attributable
<1>2. bc' = bc
  BY DEF Goes, call
<1>3. /\ DOMAIN build' = Fields
      /\ \A field \in Fields : ~MaySet(pc, field) => build'[field] = build[field]
  BY <1>1 DEF Goes, Sets
<1>4. "name" \in Fields /\ "ns" \in Fields /\ ~MaySet(pc, "name") /\ ~MaySet(pc, "ns")
  BY DEF Fields, MaySet
<1>5. build'["name"] = build["name"] /\ build'["ns"] = build["ns"]
  BY <1>3, <1>4
<1>6. build'.name = build.name /\ build'.ns = build.ns
  BY <1>5
<1> DEFINE key == ConvertedFromAnnotation
<1>7. /\ key # InlineDockerfileConfigMapAnnotation /\ key # OriginalTriggersAnnotation
      /\ key # BuildRunTemplateAnnotation
  BY SourceAnnotation
<1> HIDE DEF key
<1>8. /\ key \in DOMAIN build'.annotations <=> key \in DOMAIN build.annotations
      /\ key \in DOMAIN build.annotations => build'.annotations[key] = build.annotations[key]
  BY <1>1, <1>7, AnnotationsKept
<1> QED
  BY <1>2, <1>3, <1>6, <1>8 DEF Attributable, key

\* and is when it is returned.
LEMMA ClassifiedAttributable ==
  ASSUME Attributable
  PROVE  /\ Classified.name = Sanitize(bc.name) /\ Classified.ns = bc.ns
         /\ Classified.annotations[ConvertedFromAnnotation] = bc.name
<1> DEFINE noted == IF Own = <<>> THEN build
                    ELSE Annotate(build, ConversionWarningsAnnotation, WarningsNote)
           key == ConvertedFromAnnotation
<1>1. key # ConversionWarningsAnnotation /\ key # ConversionOutcomeAnnotation
  BY SourceAnnotation
<1>2. /\ DOMAIN build = Fields /\ build.name = Sanitize(bc.name) /\ build.ns = bc.ns
      /\ key \in DOMAIN build.annotations /\ build.annotations[key] = bc.name
  BY DEF Attributable
<1>3. Classified = Annotate(noted, ConversionOutcomeAnnotation, State)
  BY DEF Classified
<1>4. "name" \in Fields /\ "ns" \in Fields
  BY DEF Fields
<1> HIDE DEF key, State, WarningsNote
<1>5. /\ DOMAIN noted = Fields /\ noted["name"] = build["name"] /\ noted["ns"] = build["ns"]
      /\ key \in DOMAIN noted.annotations /\ noted.annotations[key] = build.annotations[key]
  <2>1. CASE Own = <<>>
    BY <1>2, <2>1
  <2>2. CASE Own # <<>>
    BY <1>1, <1>2, <1>4, <2>2, AnnotationSet
  <2> QED
    BY <2>1, <2>2
<1> HIDE DEF noted
<1>6. /\ Classified["name"] = noted["name"] /\ Classified["ns"] = noted["ns"]
      /\ Classified.annotations[key] = noted.annotations[key]
  BY <1>1, <1>3, <1>4, <1>5, AnnotationSet
<1>7. Classified.name = build.name /\ Classified.ns = build.ns
  BY <1>5, <1>6
<1> QED
  BY <1>2, <1>5, <1>6, <1>7 DEF key

\* What is returned with it delivers.
LEMMA FinishDelivers ==
  ASSUME Provision, pc = "classify", Attributable, Located(extra, bc)
  PROVE  Delivers(<<BuildResource(Classified)>> \o extra, bc)
<1> DEFINE b == BuildResource(Classified)
           s == <<b>> \o extra
<1> SUFFICES Delivers(s, bc)
  OBVIOUS
<1>1. extra = <<>> \/ Account(extra) \/ Map(extra) \/ AccountAndMap(extra)
  BY DEF Provision, Late, Early, Running, Steps
<1>2. /\ Id(Generated(b)) \in Claims(bc)
      /\ b.kind = "Build" /\ NamesSource(b, bc)
  <2>1. /\ b.kind = "Build" /\ b.ns = Classified.ns /\ b.build = Classified
    BY DEF BuildResource
  <2> HIDE DEF b
  <2>2. NamesSource(b, bc)
    BY <2>1, ClassifiedAttributable DEF NamesSource
  <2> QED
    BY <2>1, <2>2, ClassifiedAttributable, GeneratedLocated DEF b
<1> HIDE DEF b
<1>3. CASE extra = <<>>
  <2>1. s = <<b>>
    BY <1>3
  <2> HIDE DEF s
  <2>2. DOMAIN s = {1} /\ s[1] = b
    BY <2>1
  <2>3. Located(s, bc)
    BY <1>2, <2>2 DEF Located
  <2>4. KindsDiffer(s)
    BY <2>2 DEF KindsDiffer
  <2>5. 1 \in DOMAIN s /\ NamesSource(s[1], bc)
    BY <1>2, <2>2
  <2> QED
    BY <2>3, <2>4, <2>5 DEF Delivers
<1>4. CASE Account(extra) \/ Map(extra)
  <2>1. PICK x : x.kind # "Build" /\ extra = <<x>>
    BY <1>4 DEF Account, Map
  <2>2. s = <<b, x>>
    BY <2>1, BuildThenOne
  <2>3. extra[1] = x /\ DOMAIN extra = {1}
    BY <2>1
  <2>4. Id(Generated(x)) \in Claims(bc)
    BY <2>3 DEF Located
  <2> HIDE DEF s
  <2>5. DOMAIN s = {1, 2} /\ s[1] = b /\ s[2] = x
    BY <2>2
  <2>6. Located(s, bc)
    BY <1>2, <2>4, <2>5 DEF Located
  <2>7. KindsDiffer(s)
    BY <1>2, <2>1, <2>5 DEF KindsDiffer
  <2>8. 1 \in DOMAIN s /\ NamesSource(s[1], bc)
    BY <1>2, <2>5
  <2> QED
    BY <2>6, <2>7, <2>8 DEF Delivers
<1>5. CASE AccountAndMap(extra)
  <2>1. PICK x, y : x.kind = "ServiceAccount" /\ y.kind = "ConfigMap" /\ extra = <<x, y>>
    BY <1>5 DEF AccountAndMap
  <2>2. s = <<b, x, y>>
    BY <2>1, BuildThenTwo
  <2>3. extra[1] = x /\ extra[2] = y /\ DOMAIN extra = {1, 2}
    BY <2>1
  <2>4. Id(Generated(x)) \in Claims(bc) /\ Id(Generated(y)) \in Claims(bc)
    BY <2>3 DEF Located
  <2> HIDE DEF s
  <2>5. DOMAIN s = {1, 2, 3} /\ s[1] = b /\ s[2] = x /\ s[3] = y
    BY <2>2
  <2>6. Located(s, bc)
    BY <1>2, <2>4, <2>5 DEF Located
  <2>7. KindsDiffer(s)
    BY <1>2, <2>1, <2>5 DEF KindsDiffer
  <2>8. 1 \in DOMAIN s /\ NamesSource(s[1], bc)
    BY <1>2, <2>5
  <2> QED
    BY <2>6, <2>7, <2>8 DEF Delivers
<1> HIDE DEF s
<1> QED
  BY <1>1, <1>3, <1>4, <1>5

\* A step of Convert keeps what is promised.
LEMMA ConvertingDelivers ==
  ASSUME ProcessInvariant, Delivery, Converting
  PROVE  Delivery'
<1>1. request' = request /\ response' = response /\ Step
  BY DEF Converting
<1>2. pc \in Running
  BY <1>1, StepShapes DEF Goes, Declines, Finish, Running, Steps
<1>3. request # Nil /\ response = Nil /\ results = <<>> /\ Provision
  BY <1>2 DEF ProcessInvariant, Running
<1>4. bc = request.content /\ Attributable /\ Located(extra, bc)
  BY <1>2 DEF Delivery, Running
<1>5. ASSUME NEW r, results' = Append(results, r)
      PROVE  results'[1] = r
  BY <1>3, <1>5
<1>6. CASE Goes
  <2>1. Attributable' /\ bc' = bc
    BY <1>1, <1>4, <1>6, GoesAttributable
  <2>2. results' = results
    BY <1>6 DEF Goes, call
  <2>3. Located(extra', bc)
    <3>1. CASE UNCHANGED extra
      BY <1>4, <3>1
    <3>2. CASE pc = "serviceAccount" /\ extra' = Append(extra, GeneratedAccount)
      <4>1. extra = <<>>
        BY <1>3, <3>2 DEF Provision, Early
      <4> QED
        BY <1>4, <3>2, <4>1, GeneratedLocated, LocatedMore
    <3>3. CASE pc = "inlineDockerfile" /\ extra' = Append(extra, InlineConfigMap)
      <4>1. extra = <<>> \/ Account(extra)
        BY <1>3, <3>3 DEF Provision
      <4> QED
        BY <1>4, <3>3, <4>1, GeneratedLocated, LocatedMore
    <3> QED
      BY <1>6, <3>1, <3>2, <3>3 DEF Goes, MayGenerate
  <2>4. Located(extra, bc)'
    BY <2>1, <2>3 DEF Located
  <2> QED
    BY <1>1, <1>3, <1>4, <2>1, <2>2, <2>4 DEF Delivery
<1>7. CASE Declines
  <2>1. PICK state, reason, m :
          state \in {"skipped", "failed"} /\ Decline(state, reason, m)
    BY <1>7 DEF Declines
  <2> DEFINE r == [bc |-> bc, state |-> state, reason |-> reason, warnings |-> <<>>,
                   resources |-> <<>>,
                   recorded |-> SubSeq(warnings', start + 1, Len(warnings')),
                   notices |-> notices]
  <2>2. results' = Append(results, r) /\ r.state = state /\ pc' = "idle"
    BY <2>1 DEF Decline, Return
  <2> HIDE DEF r
  <2>3. results'[1].state \in {"skipped", "failed"}
    BY <1>5, <2>1, <2>2
  <2> QED
    BY <1>1, <1>3, <2>2, <2>3 DEF Delivery
<1>8. CASE Finish
  <2> DEFINE resources == <<BuildResource(Classified)>> \o extra
             r == [bc |-> bc, state |-> State, reason |-> Blank,
                   warnings |-> Own \o Attributed(cur, OmittedWarning), resources |-> resources,
                   recorded |-> SubSeq(warnings', start + 1, Len(warnings')),
                   notices |-> notices]
  <2>1. results' = Append(results, r) /\ r.resources = resources /\ pc' = "idle"
        /\ pc = "classify"
    BY <1>8 DEF Finish, Return
  <2>2. Delivers(resources, bc)
    BY <1>3, <1>4, <2>1, FinishDelivers
  <2> HIDE DEF r, resources
  <2>3. Delivers(results'[1].resources, request.content)
    BY <1>4, <1>5, <2>1, <2>2
  <2>4. Delivers(results[1].resources, request.content)'
    BY <1>1, <2>3 DEF Delivers, Located, KindsDiffer, NamesSource
  <2> QED
    BY <1>1, <1>3, <2>1, <2>4 DEF Delivery
<1> QED
  BY <1>1, <1>6, <1>7, <1>8, StepShapes

\* What is delivered is not what state the process is in.
LEMMA DeliversStable ==
  ASSUME UNCHANGED <<vars, request, response>>, Delivery
  PROVE  Delivery'
BY DEF vars, Delivery, Attributable, Located, Delivers, KindsDiffer, NamesSource

\* So does every step of a process: it answers with what Convert returned.
LEMMA PluginStepDelivers ==
  ASSUME ProcessInvariant, Delivery, PluginStep
  PROVE  Delivery'
<1>1. ASSUME NEW answer, Awaited, Respond(answer),
             answer.whiteout = FALSE \/ Delivers(answer.resources, request.content)
      PROVE  Delivery'
  <2>1. response' = answer /\ UNCHANGED <<vars, request>>
    BY <1>1 DEF Respond
  <2>2. \/ response'.whiteout = FALSE
        \/ Delivers(response.resources, request.content)'
    BY <1>1, <2>1 DEF Delivers, Located, KindsDiffer, NamesSource
  <2>3. \/ results'[1].state \in {"skipped", "failed"}
        \/ results' = <<>>
        \/ Delivers(results[1].resources, request.content)'
    BY <2>1 DEF vars, Delivery, Delivers, Located, KindsDiffer, NamesSource
  <2>4. pc' # "idle" => bc' = request'.content /\ Attributable' /\ Located(extra, bc)'
    BY <2>1 DEF vars, Delivery, Attributable, Located
  <2> QED
    BY <2>2, <2>3, <2>4 DEF Delivery
<1>2. CASE PassOther
  BY <1>1, <1>2 DEF PassOther, PassThrough
<1>3. CASE RefuseUndecodable
  <2> DEFINE answer == [PassThrough EXCEPT !.error = TRUE]
  <2>1. answer.whiteout = FALSE /\ Awaited /\ Respond(answer)
    BY <1>3 DEF RefuseUndecodable, PassThrough
  <2> HIDE DEF answer
  <2> QED
    BY <1>1, <2>1
<1>4. CASE StartConversion
  <2>1. /\ Begin(request.content) /\ UNCHANGED <<request, response>>
        /\ results = <<>> /\ response = Nil
    BY <1>4 DEF StartConversion, Awaited
  <2>2. Attributable' /\ bc' = request'.content
    BY <2>1, SkeletonAttributable
  <2>3. extra' = <<>> /\ results' = <<>>
    BY <2>1 DEF Begin, ProcessInvariant, Provision
  <2>4. Located(extra, bc)'
    BY <2>3 DEF Located
  <2> QED
    BY <2>1, <2>2, <2>3, <2>4 DEF Delivery
<1>5. CASE Converting
  BY <1>5, ConvertingDelivers
<1>6. CASE Replace
  <2> DEFINE answer == [PassThrough EXCEPT !.whiteout = TRUE, !.resources = results[1].resources,
                                           !.logged = Outcome]
  <2>1. answer.resources = results[1].resources
    BY DEF PassThrough
  <2>2. /\ Awaited /\ Respond(answer) /\ results # <<>>
        /\ ~(results[1].state \in {"skipped", "failed"})
    BY <1>6 DEF Replace, Converted, Declined, Outcome
  <2> HIDE DEF answer
  <2>3. Delivers(results[1].resources, request.content)
    BY <2>2 DEF Delivery
  <2> QED
    BY <1>1, <2>1, <2>2, <2>3
<1>7. CASE PassAnnotated
  <2> DEFINE patch == dispositionPatch(request.content.annotations, Outcome.state, Outcome.reason)
             answer == [PassThrough EXCEPT !.patch = patch, !.logged = Outcome]
  <2>1. Awaited /\ Respond(answer)
    BY <1>7 DEF PassAnnotated, Converted
  <2> HIDE DEF patch
  <2>2. answer.whiteout = FALSE
    BY DEF PassThrough
  <2> HIDE DEF answer
  <2> QED
    BY <1>1, <2>1, <2>2
<1>8. CASE PassUnannotated
  <2> DEFINE answer == [PassThrough EXCEPT !.logged = Outcome]
  <2>1. answer.whiteout = FALSE /\ Awaited /\ Respond(answer)
    BY <1>8 DEF PassUnannotated, Converted, PassThrough
  <2> HIDE DEF answer
  <2> QED
    BY <1>1, <2>1
<1> QED
  BY <1>2, <1>3, <1>4, <1>5, <1>6, <1>7, <1>8 DEF PluginStep

\* And crane's steps: a process starts with nothing to deliver and ends with nothing.
LEMMA MigrationDelivers ==
  ASSUME MigrationInvariant, Delivery, [MigrationNext]_migrationVars
  PROVE  Delivery'
<1>1. CASE \E object \in export : Hand(object)
  <2>1. PICK object \in export : Hand(object)
    BY <1>1
  <2>2. UNCHANGED <<vars, response>> /\ request = Nil
    BY <2>1 DEF Hand
  <2>3. pc = "idle" /\ results = <<>> /\ response = Nil
    BY <2>2 DEF MigrationInvariant, ProcessInvariant
  <2> QED
    BY <2>2, <2>3 DEF vars, Delivery
<1>2. CASE Converse
  BY <1>2, PluginStepDelivers DEF Converse, MigrationInvariant
<1>3. CASE Collect \/ Abort
  <2>1. pc = "idle" /\ Exit
    BY <1>3 DEF Collect, Abort, MigrationInvariant, ProcessInvariant
  <2> QED
    BY <2>1 DEF Exit, Delivery
<1>4. CASE Complete \/ Rerun \/ Over \/ UNCHANGED migrationVars
  <2>1. UNCHANGED <<vars, request, response>>
    BY <1>4 DEF Complete, Rerun, Over, migrationVars, pluginVars
  <2> QED
    BY <2>1, DeliversStable
<1> QED
  BY <1>1, <1>2, <1>3, <1>4 DEF MigrationNext, Progress

-----------------------------------------------------------------------------
(* What is said of the BuildConfigs that were replaced.                    *)

\* An object that is known by the namespace and the name in its metadata.
SelfNamed(o) ==
  /\ {"ns", "name"} \subseteq DOMAIN o.content
  /\ o.content.ns = o.ns /\ o.content.name = o.name

\* What ReplacementComplete says of one of them, and that it is where it may be.
Resulting(answer) == {Generated(answer.resources[k]) : k \in DOMAIN answer.resources}
Objects(o) == Resulting(answered[o])
IsReplacement(object, o) ==
  /\ object.kind = "Build" /\ object.ns = o.ns
  /\ object.content.build.annotations[ConvertedFromAnnotation] = o.name
Delivered(o) ==
  /\ \A object \in Objects(o) :
       /\ Id(object) \in DOMAIN output /\ output[Id(object)] = object
       /\ Id(object) \in Claims(o)
  /\ \E object \in Objects(o) : IsReplacement(object, o)

\* The objects that are migrated stay apart, for everything in the output is where an object was
\* or where the BuildConfig that is gone may put it; so what is there for it stays there, and so
\* does what the plugin leaves alone.
Separation ==
  /\ Apart(export)
  /\ \A o \in export : ReadAsBuildConfig(o) => SelfNamed(o)
  /\ \A id \in DOMAIN output : IsBuildConfig(output[id]) => SelfNamed(output[id])
  /\ \A id \in DOMAIN output :
       \/ \E o \in DOMAIN answered \ Whited : Id(o) = id
       \/ \E o \in Whited : id \in Claims(o)
  /\ \A o \in Whited : IsBuildConfig(o) /\ Delivered(o)
  /\ \A o \in DOMAIN answered : ~IsBuildConfig(o) => output[Id(o)] = o

\* Two objects in one place claim the same, and no BuildConfig is where one may be claimed.
LEMMA ClaimsById ==
  /\ \A o, p : Id(o) = Id(p) => Claims(o) = Claims(p) /\ (IsBuildConfig(o) <=> IsBuildConfig(p))
  /\ \A o, p : IsBuildConfig(o) => Id(o) \notin Claims(p)
<1>1. ASSUME NEW o, NEW p, Id(o) = Id(p)
      PROVE  Claims(o) = Claims(p) /\ (IsBuildConfig(o) <=> IsBuildConfig(p))
  <2>1. o.kind = p.kind /\ o.group = p.group /\ o.ns = p.ns /\ o.name = p.name
    BY <1>1 DEF Id
  <2>2. ConfigMapOriginal(o) = ConfigMapOriginal(p)
    BY <2>1 DEF ConfigMapOriginal
  <2> QED
    BY <2>1, <2>2 DEF Claims, IsBuildConfig
<1>2. ASSUME NEW o, NEW p, IsBuildConfig(o)
      PROVE  Id(o) \notin Claims(p)
  BY <1>2 DEF Id, Claims, IsBuildConfig
<1> QED
  BY <1>1, <1>2

\* A BuildConfig and its content claim the same.
LEMMA ClaimsOfContent ==
  ASSUME NEW o, SelfNamed(o)
  PROVE  Claims(o.content) = Claims(o)
BY DEF SelfNamed, Claims, ConfigMapOriginal

\* A usable response writes what it delivers, in place of a BuildConfig, or the object, where it
\* was and under its name.
LEMMA WhereIsWritten ==
  ASSUME MigrationInvariant, Delivery, Separation, response # Nil, ~Unusable
  PROVE  \/ /\ response.whiteout = TRUE /\ IsBuildConfig(request)
            /\ Delivers(response.resources, request.content) /\ SelfNamed(request)
            /\ Written = Resulting(response)
         \/ /\ response.whiteout = FALSE
            /\ \E w : /\ Written = {w} /\ Id(w) = Id(request)
                      /\ IsBuildConfig(w) => SelfNamed(w)
                      /\ ~IsBuildConfig(request) => w = request
<1>1. /\ Responds(request, response) /\ request \in export /\ Shaped(request)
      /\ ReadAsBuildConfig(request) => Annotatable(request)
  BY DEF MigrationInvariant, ProcessInvariant, ProgressInvariant, ExportInvariant
<1>2. response.error = FALSE
  BY <1>1 DEF Unusable, Responds, LeftAlone, Refused, Removed, Noted, Unnoted
<1>3. ReadAsBuildConfig(request) => SelfNamed(request)
  BY <1>1 DEF Separation
<1>4. CASE LeftAlone(request, response)
  <2>1. Written = {request} /\ response.whiteout = FALSE
    BY <1>4 DEF LeftAlone, Written
  <2> QED
    BY <1>4, <2>1 DEF LeftAlone
<1>5. CASE Removed(request, response)
  <2>1. Written = Resulting(response)
    BY <1>5 DEF Removed, Written, Resulting
  <2>2. response.whiteout = TRUE /\ ReadAsBuildConfig(request)
    BY <1>5 DEF Removed
  <2>3. Delivers(response.resources, request.content)
    BY <2>2 DEF Delivery
  <2> QED
    BY <1>3, <2>1, <2>2, <2>3 DEF ReadAsBuildConfig
<1>6. CASE Noted(request, response)
  <2>1. /\ ReadAsBuildConfig(request) /\ ~Patchless(request)
        /\ response.whiteout = FALSE
    BY <1>6 DEF Noted
  <2>2. PICK w : Written = {w} /\ Id(w) = Id(request) /\ KeptWith(request, response.logged, w)
    BY <2>1, WhatIsWritten DEF ReadAsBuildConfig
  <2>3. SelfNamed(w)
    <3> DEFINE kept == [w.content EXCEPT !.annotations = EmptyMap]
               given == [request.content EXCEPT !.annotations = EmptyMap]
    <3>1. kept = given
      BY <2>2 DEF KeptWith
    <3>2. /\ DOMAIN kept = DOMAIN w.content
          /\ \A field \in DOMAIN w.content :
               field # "annotations" => kept[field] = w.content[field]
      OBVIOUS
    <3>3. /\ DOMAIN given = DOMAIN request.content
          /\ \A field \in DOMAIN request.content :
               field # "annotations" => given[field] = request.content[field]
      OBVIOUS
    <3> HIDE DEF kept, given
    <3>4. {"ns", "name"} \subseteq DOMAIN request.content
      BY <1>3, <2>1 DEF SelfNamed
    <3>5. /\ {"ns", "name"} \subseteq DOMAIN w.content
          /\ w.content["ns"] = request.content["ns"] /\ w.content["name"] = request.content["name"]
      BY <3>1, <3>2, <3>3, <3>4
    <3>6. w.content.ns = request.content.ns /\ w.content.name = request.content.name
      BY <3>5
    <3>7. w.ns = request.ns /\ w.name = request.name
      BY <2>2 DEF Id
    <3> QED
      BY <1>3, <2>1, <3>5, <3>6, <3>7 DEF SelfNamed
  <2> QED
    BY <2>1, <2>2, <2>3 DEF ReadAsBuildConfig
<1>7. CASE Unnoted(request, response)
  <2>1. Written = {request} /\ response.whiteout = FALSE
    BY <1>7 DEF Unnoted, Written
  <2> QED
    BY <1>3, <1>7, <2>1 DEF Unnoted, ReadAsBuildConfig
<1> QED
  BY <1>1, <1>2, <1>4, <1>5, <1>6, <1>7 DEF Responds, Refused

\* Collecting a response keeps what was written for the others.
LEMMA CollectSeparates ==
  ASSUME MigrationInvariant, Delivery, Separation, Collect
  PROVE  Separation'
<1> DEFINE ids == {Id(w) : w \in Written}
<1>1. /\ request \in export /\ request \notin DOMAIN answered /\ DOMAIN answered \subseteq export
      /\ DOMAIN answered' = DOMAIN answered \union {request} /\ answered'[request] = response
      /\ \A o \in DOMAIN answered : answered'[o] = answered[o]
      /\ export' = export /\ response # Nil /\ ~Unusable
  BY DEF Collect, Put, MigrationInvariant, ProcessInvariant, ProgressInvariant
<1>2. /\ DOMAIN output' = DOMAIN output \union ids
      /\ \A o \in Written : \E w \in Written : Id(w) = Id(o) /\ output'[Id(o)] = w
      /\ \A id \in DOMAIN output : id \notin ids => output'[id] = output[id]
  BY OutputCollected
<1>3. /\ Apart(export)
      /\ \A o \in export : ReadAsBuildConfig(o) => SelfNamed(o)
      /\ \A id \in DOMAIN output : IsBuildConfig(output[id]) => SelfNamed(output[id])
      /\ \A id \in DOMAIN output :
           \/ \E o \in DOMAIN answered \ Whited : Id(o) = id
           \/ \E o \in Whited : id \in Claims(o)
      /\ \A o \in Whited : IsBuildConfig(o) /\ Delivered(o)
      /\ \A o \in DOMAIN answered : ~IsBuildConfig(o) => output[Id(o)] = o
  BY DEF Separation
<1>4. /\ \A o \in export : \A p \in export : IsBuildConfig(o) => Id(p) \notin Claims(o)
      /\ \A o \in export : \A p \in export :
           IsBuildConfig(o) /\ IsBuildConfig(p) /\ o # p => Claims(o) \intersect Claims(p) = {}
      /\ \A o \in export : \A p \in export : Id(o) = Id(p) => o = p
  BY <1>3 DEF Apart, MigrationInvariant, ExportInvariant, Identified
<1>5. /\ Whited \subseteq DOMAIN answered
      /\ Whited' = {o \in DOMAIN answered' : answered'[o].whiteout}
      /\ \A o \in DOMAIN answered : o \in Whited' <=> o \in Whited
      /\ request \in Whited' <=> response.whiteout
  BY <1>1 DEF Whited
<1> HIDE DEF ids
\* What is written is apart from what any other object has, or was replaced by.
<1>6. ASSUME NEW id \in ids,
             (id \in Claims(request) /\ IsBuildConfig(request)) \/ id = Id(request)
      PROVE  /\ \A o \in DOMAIN answered : Id(o) # id
             /\ \A o \in Whited : id \notin Claims(o)
  BY <1>1, <1>3, <1>4, <1>5, <1>6
<1>7. ASSUME \A id \in ids : (id \in Claims(request) /\ IsBuildConfig(request)) \/ id = Id(request)
      PROVE  /\ \A o \in Whited : IsBuildConfig(o) /\ Delivered(o)'
             /\ \A o \in DOMAIN answered : ~IsBuildConfig(o) => output'[Id(o)] = o
  <2>1. ASSUME NEW o \in Whited
        PROVE  Delivered(o)'
    <3>1. answered'[o] = answered[o]
      BY <1>1, <1>5
    <3>2. Objects(o)' = Objects(o)
      BY <3>1 DEF Objects
    <3>3. ASSUME NEW object \in Objects(o)
          PROVE  Id(object) \in DOMAIN output' /\ output'[Id(object)] = object
      <4>1. /\ Id(object) \in DOMAIN output /\ output[Id(object)] = object
            /\ Id(object) \in Claims(o)
        BY <1>3 DEF Delivered
      <4>2. Id(object) \notin ids
        BY <1>6, <1>7, <4>1
      <4> QED
        BY <1>2, <4>1, <4>2
    <3>4. /\ \A object \in Objects(o) : Id(object) \in Claims(o)
          /\ \E object \in Objects(o) : IsReplacement(object, o)
      BY <1>3 DEF Delivered
    <3> QED
      BY <3>2, <3>3, <3>4 DEF Delivered, IsReplacement
  <2>2. ASSUME NEW o \in DOMAIN answered, ~IsBuildConfig(o)
        PROVE  output'[Id(o)] = o
    <3>1. Id(o) \in DOMAIN output
      BY <2>2 DEF MigrationInvariant, OutputInvariant
    <3>2. Id(o) \notin ids
      BY <1>6, <1>7
    <3> QED
      BY <1>2, <1>3, <2>2, <3>1, <3>2
  <2> QED
    BY <1>3, <2>1, <2>2
<1>8. ASSUME response.whiteout = TRUE, IsBuildConfig(request), SelfNamed(request),
             Delivers(response.resources, request.content),
             Written = Resulting(response)
      PROVE  Separation'
  <2>1. Claims(request.content) = Claims(request)
    BY <1>8, ClaimsOfContent
  <2>2. ASSUME NEW w \in Written
        PROVE  /\ Id(w) \in Claims(request) /\ ~IsBuildConfig(w)
               /\ Id(w) \in ids /\ output'[Id(w)] = w
    <3>1. PICK k \in DOMAIN response.resources : w = Generated(response.resources[k])
      BY <1>8 DEF Resulting
    <3>2. Id(w) \in Claims(request)
      BY <1>8, <2>1, <3>1 DEF Delivers, Located
    <3>3. PICK v \in Written : Id(v) = Id(w) /\ output'[Id(w)] = v
      BY <1>2
    <3>4. PICK j \in DOMAIN response.resources : v = Generated(response.resources[j])
      BY <1>8 DEF Resulting
    <3>5. response.resources[j].kind = response.resources[k].kind
      <4>1. v.kind = w.kind
        BY <3>3, SameKind
      <4> QED
        BY <3>1, <3>4, <4>1 DEF Generated
    <3>6. v = w
      BY <1>8, <3>1, <3>4, <3>5 DEF Delivers, KindsDiffer
    <3> QED
      BY <3>2, <3>3, <3>6, ClaimsById DEF ids
  <2>3. \A id \in ids : id \in Claims(request) /\ \E w \in Written : Id(w) = id
    BY <2>2 DEF ids
  <2>4. /\ \A o \in Whited : IsBuildConfig(o) /\ Delivered(o)'
        /\ \A o \in DOMAIN answered : ~IsBuildConfig(o) => output'[Id(o)] = o
    BY <1>7, <1>8, <2>3
  <2>5. ASSUME NEW o, o = request
        PROVE  Delivered(o)'
    <3>1. Objects(o)' = Written
      BY <1>1, <1>8, <2>5 DEF Objects
    <3>2. \E w \in Written : IsReplacement(w, request)
      <4>1. PICK n \in DOMAIN response.resources :
              NamesSource(response.resources[n], request.content)
        BY <1>8 DEF Delivers
      <4>2. IsReplacement(Generated(response.resources[n]), request)
        BY <1>8, <4>1 DEF IsReplacement, NamesSource, Generated, SelfNamed
      <4> QED
        BY <1>8, <4>1, <4>2 DEF Resulting
    <3>3. \A w \in Written :
            Id(w) \in DOMAIN output' /\ output'[Id(w)] = w /\ Id(w) \in Claims(request)
      BY <1>2, <2>2
    <3> QED
      BY <2>5, <3>1, <3>2, <3>3 DEF Delivered, IsReplacement
  <2>6. \A o \in Whited' : IsBuildConfig(o) /\ Delivered(o)'
    <3>1. ASSUME NEW o \in Whited'
          PROVE  o \in Whited \/ o = request
      BY <1>1, <1>5, <3>1
    <3> QED
      BY <1>8, <2>4, <2>5, <3>1
  <2>7. ASSUME NEW id \in DOMAIN output'
        PROVE  /\ IsBuildConfig(output'[id]) => SelfNamed(output'[id])
               /\ \/ \E o \in DOMAIN answered' \ Whited' : Id(o) = id
                  \/ \E o \in Whited' : id \in Claims(o)
    <3>1. CASE id \in ids
      <4>1. PICK w \in Written : Id(w) = id
        BY <2>3, <3>1
      <4> QED
        BY <1>5, <1>8, <2>2, <4>1
    <3>2. CASE id \in DOMAIN output /\ id \notin ids
      <4>1. output'[id] = output[id]
        BY <1>2, <3>2
      <4>2. \/ \E o \in DOMAIN answered \ Whited : Id(o) = id
            \/ \E o \in Whited : id \in Claims(o)
        BY <1>3, <3>2
      <4> QED
        BY <1>1, <1>3, <1>5, <3>2, <4>1, <4>2
    <3> QED
      BY <1>2, <3>1, <3>2
  <2>8. \A o \in DOMAIN answered' : ~IsBuildConfig(o) => output'[Id(o)] = o
    BY <1>1, <1>8, <2>4
  <2>9. Apart(export)' /\ \A o \in export' : ReadAsBuildConfig(o) => SelfNamed(o)
    BY <1>1, <1>3 DEF Apart
  <2> QED
    BY <2>6, <2>7, <2>8, <2>9
       DEF Separation, ReadAsBuildConfig, IsBuildConfig, Decodable, SelfNamed
<1>9. ASSUME response.whiteout = FALSE,
             NEW w, Written = {w}, Id(w) = Id(request), IsBuildConfig(w) => SelfNamed(w),
             ~IsBuildConfig(request) => w = request
      PROVE  Separation'
  <2>1. ids = {Id(request)} /\ output'[Id(request)] = w
    BY <1>2, <1>9 DEF ids
  <2>2. /\ \A o \in Whited : IsBuildConfig(o) /\ Delivered(o)'
        /\ \A o \in DOMAIN answered : ~IsBuildConfig(o) => output'[Id(o)] = o
    BY <1>7, <2>1
  <2>3. Whited' = Whited
    BY <1>1, <1>5, <1>9
  <2>4. ASSUME NEW id \in DOMAIN output'
        PROVE  /\ IsBuildConfig(output'[id]) => SelfNamed(output'[id])
               /\ \/ \E o \in DOMAIN answered' \ Whited' : Id(o) = id
                  \/ \E o \in Whited' : id \in Claims(o)
    <3>1. CASE id = Id(request)
      <4>1. request \in DOMAIN answered' \ Whited'
        BY <1>1, <1>5, <2>3
      <4> QED
        BY <1>9, <2>1, <3>1, <4>1
    <3>2. CASE id \in DOMAIN output /\ id # Id(request)
      <4>1. output'[id] = output[id]
        BY <1>2, <2>1, <3>2
      <4>2. \/ \E o \in DOMAIN answered \ Whited : Id(o) = id
            \/ \E o \in Whited : id \in Claims(o)
        BY <1>3, <3>2
      <4> QED
        BY <1>1, <1>3, <2>3, <3>2, <4>1, <4>2
    <3> QED
      BY <1>2, <2>1, <3>1, <3>2
  <2>5. \A o \in DOMAIN answered' : ~IsBuildConfig(o) => output'[Id(o)] = o
    BY <1>1, <1>9, <2>1, <2>2
  <2>6. Apart(export)' /\ \A o \in export' : ReadAsBuildConfig(o) => SelfNamed(o)
    BY <1>1, <1>3 DEF Apart
  <2> QED
    BY <2>2, <2>3, <2>4, <2>5, <2>6
       DEF Separation, ReadAsBuildConfig, IsBuildConfig, Decodable, SelfNamed
<1> QED
  BY <1>1, <1>8, <1>9, WhereIsWritten

\* What is migrated again is apart as well.
LEMMA RerunSeparates ==
  ASSUME MigrationInvariant, Separation, Rerun
  PROVE  Separation'
<1>1. PICK repaired \in SUBSET Left :
        export' = (Range(output) \ repaired) \union {Repaired(o) : o \in repaired}
  BY DEF Rerun
<1>2. DOMAIN answered' = {} /\ DOMAIN output' = {} /\ Whited' = {}
  BY DEF Rerun, EmptyMap, Whited
<1>3. ASSUME NEW o \in Range(output)
      PROVE  /\ Id(o) \in DOMAIN output /\ Shaped(o) /\ (IsBuildConfig(o) => Annotatable(o))
             /\ IsBuildConfig(o) => SelfNamed(o)
  BY DEF Range, MigrationInvariant, OutputInvariant, Separation
<1>4. ASSUME NEW o \in repaired
      PROVE  Id(Repaired(o)) = Id(o) /\ SelfNamed(Repaired(o))
  <2> DEFINE content == [o.content EXCEPT !.strategy = Cured.strategy, !.source = Cured.source]
             w == [o EXCEPT !.content = content]
  <2>1. Repaired(o) = w
    BY DEF Repaired
  <2>2. o \in Range(output) /\ IsBuildConfig(o)
    BY <1>1 DEF Left
  <2>3. Shaped(o) /\ SelfNamed(o)
    BY <1>3, <2>2
  <2>4. /\ DOMAIN content = DOMAIN o.content
        /\ \A field \in DOMAIN o.content :
             field \notin {"strategy", "source"} => content[field] = o.content[field]
    OBVIOUS
  <2> HIDE DEF content
  <2>5. /\ DOMAIN w = DOMAIN o /\ w.kind = o.kind /\ w.group = o.group
        /\ w.ns = o.ns /\ w.name = o.name /\ w.content = content
    BY <2>3 DEF Shaped
  <2> HIDE DEF w
  <2>6. Id(w) = Id(o)
    BY <2>5 DEF Id
  <2>7. "ns" \in DOMAIN o.content /\ "name" \in DOMAIN o.content
    BY <2>3 DEF SelfNamed
  <2>8. content["ns"] = o.content["ns"] /\ content["name"] = o.content["name"]
    BY <2>4, <2>7
  <2>9. content.ns = o.content.ns /\ content.name = o.content.name
    BY <2>8
  <2>10. SelfNamed(w)
    BY <2>3, <2>4, <2>5, <2>9 DEF SelfNamed
  <2> QED
    BY <2>1, <2>6, <2>10
<1>5. ASSUME NEW o \in export'
      PROVE  Id(o) \in DOMAIN output /\ (ReadAsBuildConfig(o) => SelfNamed(o))
  <2>1. CASE o \in Range(output) \ repaired
    BY <1>3, <2>1 DEF ReadAsBuildConfig
  <2>2. CASE \E z \in repaired : o = Repaired(z)
    <3>1. PICK z \in repaired : o = Repaired(z)
      BY <2>2
    <3>2. z \in Range(output)
      BY <1>1 DEF Left
    <3> QED
      BY <1>3, <1>4, <3>1, <3>2
  <2> QED
    BY <1>1, <2>1, <2>2
<1>6. /\ \A o \in export : \A p \in export : IsBuildConfig(o) => Id(p) \notin Claims(o)
      /\ \A o \in export : \A p \in export :
           IsBuildConfig(o) /\ IsBuildConfig(p) /\ o # p => Claims(o) \intersect Claims(p) = {}
      /\ DOMAIN answered \subseteq export /\ Whited \subseteq DOMAIN answered
      /\ \A o \in Whited : IsBuildConfig(o)
  BY DEF Separation, Apart, Whited, MigrationInvariant, ProgressInvariant
<1>7. ASSUME NEW o \in export'
      PROVE  \/ \E x \in export \ Whited : Id(x) = Id(o)
             \/ \E q \in Whited : Id(o) \in Claims(q)
  BY <1>5, <1>6 DEF Separation
<1>8. ASSUME NEW o \in export', IsBuildConfig(o)
      PROVE  \E x \in export \ Whited : Id(x) = Id(o) /\ IsBuildConfig(x) /\ Claims(x) = Claims(o)
  BY <1>7, <1>8, ClaimsById
<1>9. \A o, p \in export' : Id(o) = Id(p) => o = p
  <2>1. MigrationInvariant'
    BY RerunKeeps
  <2> QED
    BY <2>1 DEF MigrationInvariant, ExportInvariant, Identified
<1>10. ASSUME NEW o \in export', NEW p \in export', IsBuildConfig(o)
       PROVE  /\ Id(p) \notin Claims(o)
              /\ IsBuildConfig(p) /\ o # p => Claims(o) \intersect Claims(p) = {}
  <2>1. PICK x \in export \ Whited : Id(x) = Id(o) /\ IsBuildConfig(x) /\ Claims(x) = Claims(o)
    BY <1>8, <1>10
  <2>2. CASE \E y \in export \ Whited : Id(y) = Id(p)
    <3>1. PICK y \in export \ Whited : Id(y) = Id(p)
      BY <2>2
    <3>2. Claims(y) = Claims(p) /\ (IsBuildConfig(y) <=> IsBuildConfig(p))
      BY <3>1, ClaimsById
    <3>3. o # p => x # y
      BY <1>9, <2>1, <3>1
    <3> QED
      BY <1>6, <2>1, <3>1, <3>2, <3>3
  <2>3. CASE \E q \in Whited : Id(p) \in Claims(q)
    <3>1. PICK q \in Whited : Id(p) \in Claims(q)
      BY <2>3
    <3>2. Claims(q) \intersect Claims(x) = {}
      BY <1>6, <2>1, <3>1
    <3>3. ~IsBuildConfig(p)
      BY <3>1, ClaimsById
    <3> QED
      BY <2>1, <3>1, <3>2, <3>3
  <2> QED
    BY <1>7, <2>2, <2>3
<1>11. Apart(export)'
  BY <1>10 DEF Apart, IsBuildConfig
<1>12. \A o \in export' : ReadAsBuildConfig(o) => SelfNamed(o)
  BY <1>5
<1> QED
  BY <1>2, <1>11, <1>12 DEF Separation, ReadAsBuildConfig, IsBuildConfig, Decodable, SelfNamed

\* Every step of a migration keeps it.
LEMMA StepSeparates ==
  ASSUME MigrationInvariant, Delivery, Separation, [MigrationNext]_migrationVars
  PROVE  Separation'
<1>1. CASE UNCHANGED <<export, answered, output>>
  BY <1>1 DEF Separation, Delivered, Objects, Resulting, IsReplacement, Whited, Apart,
              ReadAsBuildConfig, IsBuildConfig, Decodable, SelfNamed
<1> QED
  BY <1>1, CollectSeparates, RerunSeparates
     DEF MigrationNext, Progress, Hand, Converse, Abort, Complete, Over, migrationVars

\* Before anything is migrated, when the exports are apart.
LEMMA SeparationStarts ==
  ASSUME \A objects \in Exports : Apart(objects), MigrationInit
  PROVE  Separation /\ Delivery
<1>1. /\ export \in Exports /\ DOMAIN answered = {} /\ DOMAIN output = {}
      /\ pc = "idle" /\ results = <<>> /\ response = Nil
  BY DEF MigrationInit, Init, EmptyMap
<1>2. \A o \in export : ReadAsBuildConfig(o) => SelfNamed(o)
  BY <1>1, MigrationAssumption DEF MigrationAssumption, ReadAsBuildConfig, SelfNamed
<1> QED
  BY <1>1, <1>2 DEF Separation, Delivery, Whited

\* What was said of each that was replaced is ReplacementComplete.
LEMMA SeparationReplaces == Separation => ReplacementComplete
BY DEF Separation, Delivered, Objects, Resulting, IsReplacement, ReplacementComplete

\* When no object of an export lies where a BuildConfig's resources may go, every BuildConfig that
\* is removed has its Build in the output, and what was generated for it beside it, whatever else
\* is migrated, in any order, after any number of migrations: ReplacementComplete.
THEOREM ReplacementsComplete ==
  ASSUME \A objects \in Exports : Apart(objects)
  PROVE  MigrationSpec => []ReplacementComplete
<1> DEFINE Standing == MigrationInvariant /\ Delivery /\ Separation
<1>1. MigrationInit => Standing
  BY MigrationStarts, SeparationStarts
<1>2. Standing /\ [MigrationNext]_migrationVars => Standing'
  BY MigrationStepKeeps, MigrationDelivers, StepSeparates
<1>3. Standing => ReplacementComplete
  BY SeparationReplaces
<1> QED
  BY <1>1, <1>2, <1>3, PTL DEF MigrationSpec

\* Then the plugin also keeps to the README's promise that the NamedAccountKept run refutes for
\* other exports: an account that a BuildConfig names is migrated unchanged.
THEOREM NamedAccountsKept ==
  ASSUME \A objects \in Exports : Apart(objects)
  PROVE  MigrationSpec => []NamedAccountKept
<1> DEFINE Standing == MigrationInvariant /\ Delivery /\ Separation
<1>1. MigrationInit => Standing
  BY MigrationStarts, SeparationStarts
<1>2. Standing /\ [MigrationNext]_migrationVars => Standing'
  BY MigrationStepKeeps, MigrationDelivers, StepSeparates
<1>3. Standing => NamedAccountKept
  <2> SUFFICES ASSUME Standing, status = "done",
                      NEW account \in export, account.kind = "ServiceAccount"
               PROVE  output[Id(account)] = account
    BY DEF NamedAccountKept
  <2>1. account \in DOMAIN answered /\ ~IsBuildConfig(account)
    BY DEF MigrationInvariant, ProgressInvariant, IsBuildConfig
  <2> QED
    BY <2>1 DEF Separation
<1> QED
  BY <1>1, <1>2, <1>3, PTL DEF MigrationSpec

-----------------------------------------------------------------------------
(* What the flags hold, and what reaches registries.conf of it.            *)

\* A list of registries with no blank in it; and a list of params, every list of registries in
\* which is one.
Clean(list) == Blank \notin ToSet(list)
CleanParams(ps) ==
  IsList(ps) /\ \A p \in ToSet(ps) : p.name \in RegistryNames => p.value # <<>> /\ Clean(p.value)

\* What parseRegistryList returns is clean, however many entries there are.
LEMMA ParsedClean ==
  ASSUME NEW entries, IsList(entries)
  PROVE  Clean(parseRegistryList(entries))
<1> DEFINE N == Len(entries)
           text(n) == TrimSpace(entries[n])
           Parse(g, n) == IF n = 0 THEN <<>>
                          ELSE IF text(n) = Blank THEN g[n - 1] ELSE Append(g[n - 1], text(n))
           Parses(g, n) == g = [m \in 0..n |-> Parse(g, m)]
           out == CHOOSE g : g = [m \in 0..N |-> Parse(g, m)]
<1>1. N \in Nat
  BY ListFacts
<1>2. parseRegistryList(entries) = out[N]
  BY DEF parseRegistryList
\* The loop can be run: by induction on how far.
<1>3. \A n \in Nat : \E g : Parses(g, n)
  <2> DEFINE T == {n \in Nat : ~\E g : Parses(g, n)}
  <2> SUFFICES ASSUME T # {} PROVE FALSE
    OBVIOUS
  <2>1. PICK n \in T : \A m \in T : n <= m
    BY LeastExists
  <2>2. CASE n = 0
    <3> DEFINE g == [m \in 0..0 |-> <<>>]
    <3>1. g = [m \in 0..0 |-> Parse(g, m)]
      OBVIOUS
    <3> QED
      BY <2>1, <2>2, <3>1
  <2>3. CASE n # 0
    <3>1. n \in Nat /\ n - 1 \in Nat /\ n - 1 \notin T
      <4>1. n \in Nat /\ n - 1 \in Nat /\ ~(n <= n - 1)
        BY <2>1, <2>3
      <4> HIDE DEF T
      <4> QED
        BY <2>1, <4>1
    <3>2. PICK g : g = [m \in 0..(n - 1) |-> Parse(g, m)]
      BY <3>1
    <3> DEFINE h == [m \in 0..n |-> IF m = n THEN Parse(g, n) ELSE g[m]]
    <3>3. ASSUME NEW m \in 0..n PROVE h[m] = Parse(h, m)
      <4>1. CASE m = n
        <5>1. h[n] = Parse(g, n) /\ h[n - 1] = g[n - 1]
          BY <3>1
        <5> HIDE DEF h
        <5> QED
          BY <2>3, <4>1, <5>1
      <4>2. CASE m # n
        <5>1. m \in 0..(n - 1) /\ h[m] = g[m]
          BY <3>1, <4>2
        <5>2. m # 0 => h[m - 1] = g[m - 1]
          BY <3>1, <4>2
        <5>3. g[m] = Parse(g, m)
          BY <3>2, <5>1
        <5> HIDE DEF h
        <5> QED
          BY <5>1, <5>2, <5>3
      <4> QED
        BY <4>1, <4>2
    <3>4. DOMAIN h = 0..n /\ h = [m \in 0..n |-> h[m]]
      OBVIOUS
    <3> HIDE DEF h, Parse
    <3>5. h = [m \in 0..n |-> Parse(h, m)]
      BY <3>3, <3>4
    <3> QED
      BY <2>1, <3>5
  <2> QED
    BY <2>2, <2>3
<1>4. out = [m \in 0..N |-> Parse(out, m)]
  <2>1. \E g : g = [m \in 0..N |-> Parse(g, m)]
    BY <1>1, <1>3
  <2> HIDE DEF Parse
  <2> QED
    BY <2>1
<1> HIDE DEF out, N, text
<1>5. \A n \in 0..N : IsList(out[n]) /\ Clean(out[n])
  <2> DEFINE Good(n) == IsList(out[n]) /\ Clean(out[n])
             T == {n \in 0..N : ~Good(n)}
  <2> SUFFICES ASSUME T # {} PROVE FALSE
    OBVIOUS
  <2>1. PICK n \in T : \A m \in T : n <= m
    <3>1. T \subseteq Nat
      BY <1>1
    <3> HIDE DEF T
    <3> QED
      BY <3>1, LeastExists
  <2>2. out[n] = Parse(out, n)
    BY <1>4
  <2>3. CASE n = 0
    <3>1. out[n] = <<>>
      BY <2>2, <2>3
    <3>2. IsList(<<>>) /\ Clean(<<>>)
      BY ListOfMessages DEF Clean, ToSet
    <3> QED
      BY <3>1, <3>2
  <2>4. CASE n # 0
    <3>1. n - 1 \in 0..N /\ n - 1 \notin T
      BY <1>1, <2>1, <2>4
    <3>2. Good(n - 1)
      BY <3>1
    <3>3. CASE text(n) = Blank
      BY <2>2, <2>4, <3>2, <3>3
    <3>4. CASE text(n) # Blank
      <4>1. out[n] = Append(out[n - 1], text(n))
        BY <2>2, <2>4, <3>4
      <4>2. IsList(Append(out[n - 1], text(n))) /\ Clean(Append(out[n - 1], text(n)))
        <5> DEFINE s == out[n - 1]
                   x == text(n)
                   u == Append(s, x)
        <5>1. IsList(s) /\ Blank \notin ToSet(s) /\ x # Blank
          BY <3>2, <3>4 DEF Clean
        <5> HIDE DEF s, x
        <5>2. /\ IsList(u) /\ DOMAIN u = 1..(Len(s) + 1) /\ u[Len(s) + 1] = x
              /\ \A k \in 1..Len(s) : u[k] = s[k]
          BY <5>1, ListAppend
        <5>3. Len(s) \in Nat /\ DOMAIN s = 1..Len(s)
          BY <5>1, ListFacts
        <5> HIDE DEF u
        <5>4. \A k \in 1..(Len(s) + 1) : k = Len(s) + 1 \/ k \in 1..Len(s)
          BY <5>3
        <5>5. \A k \in 1..Len(s) : s[k] # Blank
          BY <5>1, <5>3 DEF ToSet
        <5>6. \A k \in DOMAIN u : u[k] # Blank
          BY <5>1, <5>2, <5>4, <5>5
        <5>7. IsList(u) /\ Clean(u)
          BY <5>2, <5>6 DEF Clean, ToSet
        <5> QED
          BY <5>7 DEF u, s, x
      <4> QED
        BY <4>1, <4>2
    <3> QED
      BY <3>3, <3>4
  <2> QED
    BY <2>3, <2>4
<1> QED
  BY <1>1, <1>2, <1>5

\* The params that Convert, and what a process answers, may be given.
CleanOptions == Clean(opts.search) /\ Clean(opts.insecure) /\ Clean(opts.block)
CleanAnswer(resources) ==
  \A n \in DOMAIN resources :
    resources[n].kind = "Build" => CleanParams(resources[n].build.params)

RegistryInvariant ==
  /\ CleanOptions
  /\ pc # "idle" => DOMAIN build = Fields /\ CleanParams(build.params)
  /\ results # <<>> => CleanAnswer(results[1].resources)
  /\ response # Nil => CleanAnswer(response.resources)
  /\ \A o \in DOMAIN answered : CleanAnswer(answered[o].resources)

\* How clean params are put together.
LEMMA CleanRules ==
  /\ CleanParams(<<>>) /\ CleanAnswer(<<>>)
  /\ \A ps : NoRegistries(ps) => CleanParams(ps)
  /\ \A name, list : Clean(list) => CleanParams(RegistryParam(name, list))
  /\ \A s, t : CleanParams(s) /\ CleanParams(t) => CleanParams(s \o t)
<1>1. CleanParams(<<>>) /\ CleanAnswer(<<>>)
  BY ListOfMessages DEF CleanParams, CleanAnswer, ToSet
<1>2. \A ps : NoRegistries(ps) => CleanParams(ps)
  BY DEF NoRegistries, CleanParams
<1>3. ASSUME NEW name, NEW list, Clean(list) PROVE CleanParams(RegistryParam(name, list))
  <2>1. CASE list = <<>>
    BY <1>1, <2>1 DEF RegistryParam, When
  <2>2. CASE list # <<>>
    <3>1. RegistryParam(name, list) = Param(name, list)
      BY <2>2 DEF RegistryParam, When
    <3>2. /\ IsList(Param(name, list))
          /\ \A p \in ToSet(Param(name, list)) : p.value = list
      BY ParamRules
    <3> QED
      BY <1>3, <2>2, <3>1, <3>2 DEF CleanParams
  <2> QED
    BY <2>1, <2>2
<1>4. ASSUME NEW s, NEW t, CleanParams(s), CleanParams(t) PROVE CleanParams(s \o t)
  <2>1. IsList(s \o t) /\ ToSet(s \o t) = ToSet(s) \union ToSet(t)
    BY <1>4, ToSetConcat DEF CleanParams
  <2> QED
    BY <1>4, <2>1 DEF CleanParams
<1> QED
  BY <1>1, <1>2, <1>3, <1>4

\* A step of Convert gives clean params,
LEMMA GoesClean ==
  ASSUME DOMAIN build = Fields, CleanParams(build.params), CleanOptions, Goes, Step
  PROVE  DOMAIN build' = Fields /\ CleanParams(build'.params)
<1>1. DOMAIN build' = Fields
  BY DEF Goes, Sets
<1>2. CASE pc # "registries"
  <2>1. \/ build'.params = build.params
        \/ \E ps : NoRegistries(ps) /\ build'.params = build.params \o ps
    BY <1>2, ParamsGiven
  <2> QED
    BY <1>1, <2>1, CleanRules
<1>3. CASE pc = "registries"
  <2> DEFINE s == RegistryParam("registries-search", opts.search)
             t == RegistryParam("registries-insecure",
                                IF ShipwrightPush(build) THEN <<>> ELSE opts.insecure)
             u == RegistryParam("registries-block", opts.block)
  <2>1. build'.params = build.params \o ((s \o t) \o u)
    <3>1. addRegistries
      BY <1>3, StepAt
    <3> QED
      BY <3>1 DEF addRegistries, Settle, WithParams, RegistryParams, Fields
  <2>2. Clean(<<>>)
    BY DEF Clean, ToSet
  <2>3. CleanParams(s) /\ CleanParams(t) /\ CleanParams(u)
    BY <2>2, CleanRules DEF CleanOptions
  <2> HIDE DEF s, t, u
  <2>4. CleanParams((s \o t) \o u)
    BY <2>3, CleanRules
  <2> QED
    BY <1>1, <2>1, <2>4, CleanRules
<1> QED
  BY <1>2, <1>3

\* so what it returns is clean.
LEMMA FinishClean ==
  ASSUME Provision, pc = "classify", DOMAIN build = Fields, CleanParams(build.params)
  PROVE  CleanAnswer(<<BuildResource(Classified)>> \o extra)
<1> DEFINE b == BuildResource(Classified)
           s == <<b>> \o extra
<1>1. Classified.params = build.params
  <2> DEFINE noted == IF Own = <<>> THEN build
                      ELSE Annotate(build, ConversionWarningsAnnotation, WarningsNote)
  <2>1. Classified = Annotate(noted, ConversionOutcomeAnnotation, State)
    BY DEF Classified
  <2>2. "params" \in Fields /\ "params" # "annotations"
    BY DEF Fields
  <2> HIDE DEF State, WarningsNote
  <2>3. DOMAIN noted = Fields /\ noted["params"] = build["params"]
    BY <2>2, AnnotationSet
  <2> HIDE DEF noted
  <2>4. Classified["params"] = noted["params"]
    BY <2>1, <2>2, <2>3, AnnotationSet
  <2> QED
    BY <2>3, <2>4
<1>2. b.kind = "Build" /\ b.build = Classified
  BY DEF BuildResource
<1>3. CleanParams(b.build.params)
  BY <1>1, <1>2
<1>4. extra = <<>> \/ Account(extra) \/ Map(extra) \/ AccountAndMap(extra)
  BY DEF Provision, Late, Early, Running, Steps
<1> HIDE DEF b
<1>5. \A n \in DOMAIN s : s[n] = b \/ s[n].kind # "Build"
  <2>1. CASE extra = <<>>
    <3>1. s = <<b>>
      BY <2>1
    <3> QED
      BY <3>1
  <2>2. CASE Account(extra) \/ Map(extra)
    <3>1. PICK x : x.kind # "Build" /\ extra = <<x>>
      BY <2>2 DEF Account, Map
    <3>2. s = <<b, x>>
      BY <3>1, BuildThenOne
    <3> HIDE DEF s
    <3> QED
      BY <3>1, <3>2
  <2>3. CASE AccountAndMap(extra)
    <3>1. PICK x, y : x.kind # "Build" /\ y.kind # "Build" /\ extra = <<x, y>>
      BY <2>3 DEF AccountAndMap
    <3>2. s = <<b, x, y>>
      BY <3>1, BuildThenTwo
    <3> HIDE DEF s
    <3> QED
      BY <3>1, <3>2
  <2> HIDE DEF s
  <2> QED
    BY <1>4, <2>1, <2>2, <2>3
<1> HIDE DEF s
<1>6. CleanAnswer(s)
  BY <1>3, <1>5 DEF CleanAnswer
<1> QED
  BY <1>6 DEF s, b

\* A step of Convert keeps what is given to a Build clean.
LEMMA ConvertingClean ==
  ASSUME ProcessInvariant, RegistryInvariant, Converting, UNCHANGED answered
  PROVE  RegistryInvariant'
<1>1. request' = request /\ response' = response /\ Step
  BY DEF Converting
<1>2. pc \in Running
  BY <1>1, StepShapes DEF Goes, Declines, Finish, Running, Steps
<1>3. response = Nil /\ results = <<>> /\ Provision
  BY <1>2 DEF ProcessInvariant, Running
<1>4. DOMAIN build = Fields /\ CleanParams(build.params) /\ CleanOptions
  BY <1>2 DEF RegistryInvariant, Running
<1>5. ASSUME NEW r, results' = Append(results, r), CleanAnswer(r.resources), opts' = opts,
             pc' = "idle"
      PROVE  RegistryInvariant'
  <2>1. results'[1] = r
    BY <1>3, <1>5
  <2>2. CleanAnswer(results[1].resources)'
    BY <1>5, <2>1 DEF CleanAnswer, CleanParams
  <2>3. CleanOptions'
    BY <1>4, <1>5 DEF CleanOptions
  <2>4. \A o \in DOMAIN answered' : CleanAnswer(answered[o].resources)'
    BY DEF RegistryInvariant, CleanAnswer, CleanParams
  <2> QED
    BY <1>1, <1>3, <1>5, <2>2, <2>3, <2>4 DEF RegistryInvariant
<1>6. CASE Goes
  <2>1. DOMAIN build' = Fields /\ CleanParams(build'.params)
    BY <1>1, <1>4, <1>6, GoesClean
  <2>2. results' = results /\ opts' = opts
    BY <1>6 DEF Goes, call
  <2>3. CleanParams(build.params)' /\ CleanOptions'
    BY <1>4, <2>1, <2>2 DEF CleanParams, CleanOptions
  <2>4. \A o \in DOMAIN answered' : CleanAnswer(answered[o].resources)'
    BY DEF RegistryInvariant, CleanAnswer, CleanParams
  <2> QED
    BY <1>1, <1>3, <2>1, <2>2, <2>3, <2>4 DEF RegistryInvariant
<1>7. CASE Declines
  <2>1. PICK state, reason, m : Decline(state, reason, m)
    BY <1>7 DEF Declines
  <2> DEFINE r == [bc |-> bc, state |-> state, reason |-> reason, warnings |-> <<>>,
                   resources |-> <<>>,
                   recorded |-> SubSeq(warnings', start + 1, Len(warnings')),
                   notices |-> notices]
  <2>2. /\ results' = Append(results, r) /\ r.resources = <<>> /\ opts' = opts
        /\ pc' = "idle"
    BY <2>1 DEF Decline, Return
  <2> HIDE DEF r
  <2> QED
    BY <1>5, <2>2, CleanRules
<1>8. CASE Finish
  <2> DEFINE resources == <<BuildResource(Classified)>> \o extra
             r == [bc |-> bc, state |-> State, reason |-> Blank,
                   warnings |-> Own \o Attributed(cur, OmittedWarning), resources |-> resources,
                   recorded |-> SubSeq(warnings', start + 1, Len(warnings')),
                   notices |-> notices]
  <2>1. /\ results' = Append(results, r) /\ r.resources = resources /\ pc = "classify"
        /\ opts' = opts /\ pc' = "idle"
    BY <1>8 DEF Finish, Return
  <2>2. CleanAnswer(resources)
    BY <1>3, <1>4, <2>1, FinishClean
  <2> HIDE DEF r, resources
  <2> QED
    BY <1>5, <2>1, <2>2
<1> QED
  BY <1>1, <1>6, <1>7, <1>8, StepShapes

\* What was given is not what state the process is in.
LEMMA CleanStable ==
  ASSUME UNCHANGED <<vars, response, answered>>, RegistryInvariant
  PROVE  RegistryInvariant'
BY DEF vars, RegistryInvariant, CleanOptions, CleanAnswer, CleanParams

\* A process answers with what Convert returned.
LEMMA PluginStepClean ==
  ASSUME ProcessInvariant, RegistryInvariant, PluginStep, UNCHANGED answered
  PROVE  RegistryInvariant'
<1>1. ASSUME NEW answer, Respond(answer), CleanAnswer(answer.resources)
      PROVE  RegistryInvariant'
  <2>1. response' = answer /\ UNCHANGED <<vars, request>>
    BY <1>1 DEF Respond
  <2>2. CleanAnswer(response.resources)'
    BY <1>1, <2>1 DEF CleanAnswer, CleanParams
  <2> QED
    BY <2>1, <2>2 DEF vars, RegistryInvariant, CleanOptions, CleanAnswer, CleanParams
<1>2. PassThrough.resources = <<>>
  BY DEF PassThrough
<1>3. CASE PassOther
  BY <1>1, <1>2, <1>3, CleanRules DEF PassOther
<1>4. CASE RefuseUndecodable
  <2> DEFINE answer == [PassThrough EXCEPT !.error = TRUE]
  <2>1. answer.resources = <<>> /\ Respond(answer)
    BY <1>4 DEF RefuseUndecodable, PassThrough
  <2> HIDE DEF answer
  <2> QED
    BY <1>1, <2>1, CleanRules
<1>5. CASE StartConversion
  <2>1. /\ Begin(request.content) /\ UNCHANGED <<request, response>>
        /\ results = <<>> /\ response = Nil
    BY <1>5 DEF StartConversion, Awaited
  <2>2. /\ DOMAIN build' = Fields /\ build'.params = <<>> /\ opts' = opts
        /\ results' = results
    BY <2>1 DEF Begin, Skeleton, Fields
  <2>3. CleanParams(build.params)'
    BY <2>2, ListOfMessages DEF CleanParams, ToSet
  <2> QED
    BY <2>1, <2>2, <2>3 DEF RegistryInvariant, CleanOptions, CleanAnswer, CleanParams
<1>6. CASE Converting
  BY <1>6, ConvertingClean
<1>7. CASE Replace
  <2> DEFINE answer == [PassThrough EXCEPT !.whiteout = TRUE, !.resources = results[1].resources,
                                           !.logged = Outcome]
  <2>1. answer.resources = results[1].resources
    BY DEF PassThrough
  <2>2. Respond(answer) /\ results # <<>>
    BY <1>7 DEF Replace, Converted
  <2> HIDE DEF answer
  <2>3. CleanAnswer(results[1].resources)
    BY <2>2 DEF RegistryInvariant
  <2> QED
    BY <1>1, <2>1, <2>2, <2>3
<1>8. CASE PassAnnotated
  <2> DEFINE patch == dispositionPatch(request.content.annotations, Outcome.state, Outcome.reason)
             answer == [PassThrough EXCEPT !.patch = patch, !.logged = Outcome]
  <2>1. Respond(answer)
    BY <1>8 DEF PassAnnotated
  <2> HIDE DEF patch
  <2>2. answer.resources = <<>>
    BY DEF PassThrough
  <2> HIDE DEF answer
  <2> QED
    BY <1>1, <2>1, <2>2, CleanRules
<1>9. CASE PassUnannotated
  <2> DEFINE answer == [PassThrough EXCEPT !.logged = Outcome]
  <2>1. answer.resources = <<>> /\ Respond(answer)
    BY <1>9 DEF PassUnannotated, PassThrough
  <2> HIDE DEF answer
  <2> QED
    BY <1>1, <2>1, CleanRules
<1> QED
  BY <1>3, <1>4, <1>5, <1>6, <1>7, <1>8, <1>9 DEF PluginStep

\* crane keeps what it was answered.
LEMMA MigrationClean ==
  ASSUME MigrationInvariant, RegistryInvariant, [MigrationNext]_migrationVars
  PROVE  RegistryInvariant'
<1>1. CASE \E object \in export : Hand(object)
  BY <1>1, CleanStable DEF Hand
<1>2. CASE Converse
  BY <1>2, PluginStepClean DEF Converse, MigrationInvariant
<1>3. CASE Collect \/ Abort
  <2>1. pc = "idle" /\ Exit /\ response # Nil
    BY <1>3 DEF Collect, Abort, MigrationInvariant, ProcessInvariant
  <2>2. /\ pc' = "idle" /\ results' = <<>> /\ response' = Nil /\ opts' = opts
    BY <2>1 DEF Exit
  <2>3. answered' = Put(answered, request, response) \/ answered' = answered
    BY <1>3 DEF Collect, Abort
  <2>4. \A o \in DOMAIN answered' : CleanAnswer(answered'[o].resources)
    BY <2>1, <2>3 DEF Put, RegistryInvariant
  <2> QED
    BY <2>2, <2>4 DEF RegistryInvariant, CleanOptions, CleanAnswer, CleanParams
<1>4. CASE Complete \/ Over \/ UNCHANGED migrationVars
  BY <1>4, CleanStable DEF Complete, Over, migrationVars, pluginVars
<1>5. CASE Rerun
  <2>1. UNCHANGED <<vars, response>> /\ DOMAIN answered' = {}
    BY <1>5 DEF Rerun, pluginVars, EmptyMap
  <2> QED
    BY <2>1 DEF vars, RegistryInvariant, CleanOptions, CleanAnswer, CleanParams
<1> QED
  BY <1>1, <1>2, <1>3, <1>4, <1>5 DEF MigrationNext, Progress

\* No blank reaches registries.conf, whatever the flags: every process parses them as Run does.
\* It asks of the flags only that a list is a list.
THEOREM RegistriesStayClean ==
  ASSUME NEW Flags, \A extras \in Flags : WellFormed(extras),
         OptionSets \subseteq {ParseOptionalFields(extras) : extras \in Flags}
  PROVE  MigrationSpec => []RegistriesClean
<1>1. ASSUME NEW extras, WellFormed(extras), opts = ParseOptionalFields(extras) PROVE CleanOptions
  <2>1. ASSUME NEW flag \in {"search-registries", "insecure-registries", "block-registries"}
        PROVE  Clean(ListFlag(extras, flag))
    <3>1. CASE flag \in DOMAIN extras
      BY <1>1, <3>1, ParsedClean DEF WellFormed, ListFlag
    <3>2. CASE flag \notin DOMAIN extras
      BY <3>2 DEF ListFlag, Clean, ToSet
    <3> QED
      BY <3>1, <3>2
  <2>2. /\ opts.search = ListFlag(extras, "search-registries")
        /\ opts.insecure = ListFlag(extras, "insecure-registries")
        /\ opts.block = ListFlag(extras, "block-registries")
    BY <1>1 DEF ParseOptionalFields
  <2> QED
    BY <2>1, <2>2 DEF CleanOptions
<1>2. MigrationInit => RegistryInvariant
  <2> SUFFICES ASSUME MigrationInit PROVE RegistryInvariant
    OBVIOUS
  <2>1. /\ opts \in OptionSets /\ pc = "idle" /\ results = <<>> /\ response = Nil
        /\ DOMAIN answered = {}
    BY DEF MigrationInit, Init, EmptyMap
  <2>2. PICK extras \in Flags : opts = ParseOptionalFields(extras)
    BY <2>1
  <2>3. CleanOptions
    BY <1>1, <2>2
  <2> QED
    BY <2>1, <2>3 DEF RegistryInvariant
<1>3. RegistryInvariant => RegistriesClean
  BY DEF RegistryInvariant, CleanAnswer, CleanParams, Clean, RegistriesClean, RegistryNames, ToSet
<1>4. MigrationInvariant /\ [MigrationNext]_migrationVars => MigrationInvariant'
  BY MigrationStepKeeps
<1>5. MigrationInvariant /\ RegistryInvariant /\ [MigrationNext]_migrationVars => RegistryInvariant'
  BY MigrationClean
<1>6. MigrationInit => MigrationInvariant
  BY MigrationStarts
<1> QED
  BY <1>2, <1>3, <1>4, <1>5, <1>6, PTL DEF MigrationSpec

-----------------------------------------------------------------------------
(* Migrating an output again.                                              *)

\* A function, as a record and a map are.
IsMap(f) == f = [x \in DOMAIN f |-> f[x]]

\* What the plugin answers agrees with what is wrong with the BuildConfig it was asked about.
Judged ==
  /\ Unobstructed
  /\ pc # "idle" => bc = request.content
  /\ results # <<>> => Decided(request.content, results[1].state, results[1].reason)
  /\ response # Nil /\ ReadAsBuildConfig(request) =>
       /\ Decided(request.content, response.logged.state, response.logged.reason)
       /\ response.whiteout = (response.logged.state \notin {"skipped", "failed"})

\* A BuildConfig that stayed in an output cannot be converted, and carries the note it would be
\* given again, unless it cannot be given one.
Marked(o) ==
  /\ Verdict(o.content) # Blank
  /\ Patchless(o) \/
       LET notes == o.content.annotations IN
       /\ IsMap(o) /\ IsMap(o.content) /\ IsMap(notes)
       /\ Notes(notes, notes[ConversionOutcomeAnnotation], Verdict(o.content), notes)
       /\ notes[ConversionOutcomeAnnotation] \in StatesOf(Verdict(o.content))

\* It is so in this output and in the one before, and when the one before is migrated as it was,
\* what was handed over so far is what is in the output.
Stability ==
  /\ IsMap(output) /\ IsMap(before)
  /\ \A id \in DOMAIN output : IsBuildConfig(output[id]) => Marked(output[id])
  /\ \A id \in DOMAIN before :
       Id(before[id]) = id /\ (IsBuildConfig(before[id]) => Marked(before[id]))
  /\ export = Range(before) =>
       /\ DOMAIN output = {Id(o) : o \in DOMAIN answered}
       /\ \A o \in DOMAIN answered : output[Id(o)] = o

\* What has nothing more to be judged by.
LEMMA NothingJudged ==
  ASSUME ProcessInvariant, pc = "idle", results = <<>>, response = Nil
  PROVE  Judged
BY NothingDecided DEF Judged

\* A conversion ends with the verdict on the BuildConfig the process was started for.
LEMMA ConvertingJudged ==
  ASSUME ProcessInvariant, Judged, Converting
  PROVE  Judged'
<1>1. request' = request /\ response' = response /\ Step
  BY DEF Converting
<1>2. pc \in Running
  BY <1>1, StepShapes DEF Goes, Declines, Finish, Running, Steps
<1>3. response = Nil /\ results = <<>> /\ bc = request.content
  BY <1>2 DEF ProcessInvariant, Judged, Running
<1>4. Unobstructed'
  BY <1>1, StepDecides DEF Judged
<1>5. CASE Goes
  BY <1>1, <1>3, <1>4, <1>5 DEF Goes, call, Judged
<1>6. CASE ~Goes
  <2>1. PICK r : results' = Append(results, r) /\ r.bc = bc /\ Decided(bc, r.state, r.reason)
    BY <1>1, <1>6, StepDecides DEF Judged
  <2>2. pc' = "idle" /\ results'[1] = r
    BY <1>1, <1>3, <1>6, <2>1, StepDecides DEF Judged
  <2>3. Decided(request'.content, results'[1].state, results'[1].reason)
    BY <1>1, <1>3, <2>1, <2>2
  <2> QED
    BY <1>1, <1>3, <1>4, <2>2, <2>3 DEF Judged, Decided
<1> QED
  BY <1>5, <1>6

\* What is judged does not change when the process rests.
LEMMA JudgedStable ==
  ASSUME UNCHANGED pluginVars, Judged
  PROVE  Judged'
BY DEF pluginVars, vars, Judged, Unobstructed, StrategyObstacle, OutputObstacle, SourceObstacle,
       PastGate, PastSource, Decided, ReadAsBuildConfig, IsBuildConfig, Decodable

\* A process answers by the verdict.
LEMMA RespondJudged ==
  ASSUME ProcessInvariant, Judged, NEW answer, Respond(answer),
         ReadAsBuildConfig(request) =>
           /\ results # <<>> /\ answer.logged = Outcome
           /\ answer.whiteout = ~Declined
  PROVE  Judged'
<1>1. response' = answer /\ UNCHANGED <<vars, request>>
  BY DEF Respond
<1>2. Unobstructed'
  BY <1>1 DEF vars, Judged, Unobstructed, StrategyObstacle, OutputObstacle, SourceObstacle,
              PastGate, PastSource
<1>3. ASSUME ReadAsBuildConfig(request)
      PROVE  /\ Decided(request'.content, response'.logged.state, response'.logged.reason)
             /\ response'.whiteout = (response'.logged.state \notin {"skipped", "failed"})
  BY <1>1, <1>3 DEF Judged, Outcome, Declined
<1>4. results' # <<>> => Decided(request'.content, results'[1].state, results'[1].reason)
  BY <1>1 DEF vars, Judged
<1> QED
  BY <1>1, <1>2, <1>3, <1>4 DEF vars, Judged, Decided, ReadAsBuildConfig, IsBuildConfig, Decodable

LEMMA PluginStepJudged ==
  ASSUME ProcessInvariant, Judged, PluginStep
  PROVE  Judged'
<1>1. CASE PassOther
  BY <1>1, RespondJudged DEF PassOther, ReadAsBuildConfig
<1>2. CASE RefuseUndecodable
  BY <1>2, RespondJudged DEF RefuseUndecodable, ReadAsBuildConfig
<1>3. CASE StartConversion
  <2>1. /\ bc' = request.content /\ pc' = "strategy" /\ results' = results /\ results = <<>>
        /\ request' = request /\ response' = response /\ response = Nil
    BY <1>3 DEF StartConversion, Begin, Awaited
  <2>2. Unobstructed'
    BY <2>1, NothingPassed DEF Unobstructed
  <2> QED
    BY <2>1, <2>2 DEF Judged
<1>4. CASE Converting
  BY <1>4, ConvertingJudged
<1>5. CASE Replace
  <2> DEFINE answer == [PassThrough EXCEPT !.whiteout = TRUE, !.resources = results[1].resources,
                                           !.logged = Outcome]
  <2>1. answer.logged = Outcome /\ answer.whiteout = TRUE
    BY DEF PassThrough
  <2>2. Respond(answer) /\ results # <<>> /\ ~Declined
    BY <1>5 DEF Replace, Converted
  <2> HIDE DEF answer
  <2>3. answer.whiteout = ~Declined
    BY <2>1, <2>2
  <2> QED
    BY <2>1, <2>2, <2>3, RespondJudged
<1>6. CASE PassAnnotated
  <2> DEFINE patch == dispositionPatch(request.content.annotations, Outcome.state, Outcome.reason)
             answer == [PassThrough EXCEPT !.patch = patch, !.logged = Outcome]
  <2>1. Respond(answer) /\ results # <<>> /\ Declined
    BY <1>6 DEF PassAnnotated, Converted
  <2> HIDE DEF patch
  <2>2. answer.logged = Outcome /\ answer.whiteout = FALSE
    BY DEF PassThrough
  <2> HIDE DEF answer
  <2>3. answer.whiteout = ~Declined
    BY <2>1, <2>2
  <2> QED
    BY <2>1, <2>2, <2>3, RespondJudged
<1>7. CASE PassUnannotated
  <2> DEFINE answer == [PassThrough EXCEPT !.logged = Outcome]
  <2>1. Respond(answer) /\ results # <<>> /\ Declined
    BY <1>7 DEF PassUnannotated, Converted
  <2>2. answer.logged = Outcome /\ answer.whiteout = FALSE
    BY DEF PassThrough
  <2> HIDE DEF answer
  <2>3. answer.whiteout = ~Declined
    BY <2>1, <2>2
  <2> QED
    BY <2>1, <2>2, <2>3, RespondJudged
<1> QED
  BY <1>1, <1>2, <1>3, <1>4, <1>5, <1>6, <1>7 DEF PluginStep

\* Every step of a migration keeps the judgement.
LEMMA MigrationJudged ==
  ASSUME MigrationInvariant, Judged, [MigrationNext]_migrationVars
  PROVE  Judged'
<1>1. ProcessInvariant'
  BY MigrationStepKeeps DEF MigrationInvariant
<1>2. ASSUME pc' = "idle", results' = <<>>, response' = Nil
      PROVE  Judged'
  BY <1>2, NothingPassed DEF Judged, Unobstructed
<1>3. CASE \E object \in export : Hand(object)
  <2>1. request = Nil /\ UNCHANGED <<vars, response>>
    BY <1>3 DEF Hand
  <2> QED
    BY <1>2, <2>1 DEF vars, MigrationInvariant, ProcessInvariant
<1>4. CASE Converse
  BY <1>4, PluginStepJudged DEF Converse, MigrationInvariant
<1>5. CASE Collect \/ Abort
  <2>1. pc = "idle" /\ Exit
    BY <1>5 DEF Collect, Abort, MigrationInvariant, ProcessInvariant
  <2> QED
    BY <1>2, <2>1 DEF Exit
<1>6. CASE Complete \/ Over \/ Rerun \/ UNCHANGED migrationVars
  BY <1>6, JudgedStable DEF Complete, Over, Rerun, migrationVars
<1> QED
  BY <1>3, <1>4, <1>5, <1>6 DEF MigrationNext, Progress

\* A note on a BuildConfig changes nothing of what is wrong with it.
LEMMA VerdictKept ==
  ASSUME NEW content, NEW notes,
         {"annotations", "strategy", "source", "output"} \subseteq DOMAIN content
  PROVE  Verdict([content EXCEPT !.annotations = notes]) = Verdict(content)
<1> DEFINE noted == [content EXCEPT !.annotations = notes]
<1>1. /\ noted.strategy = content.strategy /\ noted.source = content.source
      /\ noted.output = content.output
  OBVIOUS
<1> HIDE DEF noted
<1>2. StrategyObstacle(noted) = StrategyObstacle(content)
  BY <1>1 DEF StrategyObstacle, HasStrategy, FromOf
<1>3. OutputObstacle(noted) = OutputObstacle(content)
  BY <1>1 DEF OutputObstacle
<1>4. SourceObstacle(noted) = SourceObstacle(content)
  BY <1>1 DEF SourceObstacle, ImageOf
<1>5. Verdict(noted) = Verdict(content)
  BY <1>2, <1>3, <1>4 DEF Verdict
<1> QED
  BY <1>5 DEF noted

\* Applying a patch of the plugin leaves a map.
LEMMA PatchedIsMap ==
  ASSUME NEW annotations, NEW state, NEW reason, Stated(reason)
  PROVE  IsMap(Patched(annotations, dispositionPatch(annotations, state, reason)))
<1> DEFINE note == Note(state, truncateReason(reason))
           patch == dispositionPatch(annotations, state, reason)
           outcome == AddKey(ConversionOutcomeAnnotation, note[ConversionOutcomeAnnotation])
           because == AddKey(ConversionReasonAnnotation, note[ConversionReasonAnnotation])
           whole == AddMap(note)
<1>1. IsMap(note) /\ ConversionReasonAnnotation \in DOMAIN note
  BY NoteSays DEF Note, Put, IsMap
<1> HIDE DEF note
<1>2. CASE annotations = EmptyMap
  <2>1. patch = <<whole>>
    BY <1>2 DEF dispositionPatch, note
  <2>2. AddsMap(whole) /\ whole.value = note
    BY DEF AddsMap, AddMap
  <2> HIDE DEF patch, whole
  <2>3. patch[1] = whole
    BY <2>1
  <2>4. Patched(annotations, patch) = note
    BY <2>2, <2>3 DEF Patched
  <2> QED
    BY <1>1, <2>4 DEF patch
<1>3. CASE annotations # EmptyMap
  <2>1. patch = <<outcome>> \o When(ConversionReasonAnnotation \in DOMAIN note, <<because>>)
    BY <1>3 DEF dispositionPatch, note
  <2>2. ~AddsMap(outcome)
    BY KeyAdded
  <2> HIDE DEF patch, outcome, because
  <2>3. patch = <<outcome, because>>
    BY <1>1, <2>1, BuildThenOne DEF When
  <2>4. patch[1] = outcome
    BY <2>3
  <2>5. IsMap(Patched(annotations, patch))
    BY <2>2, <2>4 DEF Patched, IsMap
  <2> QED
    BY <2>5 DEF patch
<1> QED
  BY <1>2, <1>3

\* One note is as good as another that says the same.
LEMMA NotesAgree ==
  ASSUME NEW notes, NEW state, NEW reason, NEW patched, IsMap(notes), IsMap(patched),
         Notes(notes, state, reason, notes), Notes(notes, state, reason, patched)
  PROVE  patched = notes
<1>1. DOMAIN patched = DOMAIN notes
  BY DEF Notes
<1>2. \A key \in DOMAIN notes : patched[key] = notes[key]
  BY DEF Notes
<1> QED
  BY <1>1, <1>2 DEF IsMap

\* Of a verdict there is one state: what is wrong is either skipped or failed.
LEMMA OneState ==
  ASSUME NEW reason, reason # Blank, NEW state \in StatesOf(reason), NEW other \in StatesOf(reason)
  PROVE  state = other /\ state \in {"skipped", "failed"}
BY DEF StatesOf

\* What a usable response leaves of a BuildConfig is marked, and what was marked it leaves alone.
LEMMA WrittenMarked ==
  ASSUME MigrationInvariant, Judged, response # Nil, ~Unusable, ~SerializeErrors
  PROVE  /\ \A w \in Written : IsBuildConfig(w) => Marked(w)
         /\ (IsBuildConfig(request) => Marked(request)) => Written = {request}
<1> DEFINE content == request.content
           logged == response.logged
           objects == {Generated(response.resources[n]) : n \in DOMAIN response.resources}
<1>1. /\ Responds(request, response) /\ Shaped(request)
      /\ ReadAsBuildConfig(request) => Annotatable(request)
  BY DEF MigrationInvariant, ProcessInvariant, ProgressInvariant, ExportInvariant
<1>2. ~Refused(request, response)
  BY DEF Unusable, Refused
<1>3. ReadAsBuildConfig(request) =>
        /\ logged.reason = Verdict(content) /\ logged.state \in StatesOf(Verdict(content))
        /\ response.whiteout = (logged.state \notin {"skipped", "failed"})
  BY DEF Judged, Decided
<1>4. CASE LeftAlone(request, response)
  <2>1. Written = {request}
    BY <1>4 DEF LeftAlone, Written
  <2> QED
    BY <1>4, <2>1 DEF LeftAlone
<1>5. CASE Removed(request, response)
  <2>1. \A w \in Written : w.kind \in GeneratedKinds
    <3>1. Written = objects
      BY <1>5 DEF Removed, Written
    <3>2. \A n \in DOMAIN response.resources :
            Generated(response.resources[n]).kind \in GeneratedKinds
      BY <1>5 DEF Removed, AllGenerated, Generated
    <3> QED
      BY <3>1, <3>2
  <2>2. ~Marked(request)
    <3>1. logged.state \notin {"skipped", "failed"} /\ logged.state \in StatesOf(Verdict(content))
      BY <1>3, <1>5 DEF Removed
    <3>2. Verdict(content) = Blank
      BY <3>1, OneState
    <3> QED
      BY <3>2 DEF Marked
  <2>3. IsBuildConfig(request) /\ \A w \in Written : ~IsBuildConfig(w)
    BY <1>5, <2>1 DEF Removed, ReadAsBuildConfig, IsBuildConfig, GeneratedKinds
  <2> QED
    BY <2>2, <2>3
<1>6. ASSUME ReadAsBuildConfig(request), response.whiteout = FALSE
      PROVE  Verdict(content) # Blank
  <2>1. logged.state \in {"skipped", "failed"} /\ logged.state \in StatesOf(Verdict(content))
    BY <1>3, <1>6
  <2> QED
    BY <2>1 DEF StatesOf, Blank
<1>7. CASE Unnoted(request, response)
  <2>1. Written = {request}
    BY <1>7 DEF Unnoted, Written
  <2>2. Marked(request)
    BY <1>6, <1>7 DEF Unnoted, Marked
  <2> QED
    BY <2>1, <2>2
<1>8. CASE Noted(request, response)
  <2> DEFINE notes == Patched(content.annotations, response.patch)
             noted == [content EXCEPT !.annotations = notes]
             w == [request EXCEPT !.content.annotations = notes]
  <2>1. /\ response.patch # <<>> /\ IsMap(notes)
        /\ Notes(content.annotations, logged.state, logged.reason, notes)
    BY <1>8, PatchNotes, PatchedIsMap DEF Noted
  <2>2. Written = {w}
    BY <1>8, <2>1 DEF Noted, Written
  <2>3. /\ logged.reason = Verdict(content) /\ logged.state \in StatesOf(Verdict(content))
        /\ Verdict(content) # Blank /\ ReadAsBuildConfig(request) /\ Annotatable(request)
    BY <1>1, <1>3, <1>6, <1>8 DEF Noted
  <2> HIDE DEF notes
  <2>4. Verdict(noted) = Verdict(content)
    BY <2>3, VerdictKept DEF Annotatable
  <2>5. IsMap(noted) /\ noted.annotations = notes
    BY <2>3 DEF IsMap, Annotatable
  <2>6. IsMap(w) /\ w.content = noted
    BY <1>1 DEF IsMap, Shaped
  <2>7. Marked(w)
    <3>1. Notes(notes, logged.state, Verdict(content), notes)
      BY <2>1, <2>3 DEF Notes
    <3>2. notes[ConversionOutcomeAnnotation] = logged.state
      BY <2>1 DEF Notes
    <3> HIDE DEF noted, w
    <3> QED
      BY <2>1, <2>3, <2>4, <2>5, <2>6, <3>1, <3>2 DEF Marked
  <2>8. ASSUME Marked(request)
        PROVE  w = request
    <3> DEFINE old == content.annotations
    <3>1. /\ IsMap(request) /\ IsMap(content) /\ IsMap(old)
          /\ Notes(old, old[ConversionOutcomeAnnotation], Verdict(content), old)
          /\ old[ConversionOutcomeAnnotation] \in StatesOf(Verdict(content))
      BY <1>8, <2>8 DEF Noted, Marked
    <3>2. old[ConversionOutcomeAnnotation] = logged.state
      BY <2>3, <3>1, OneState
    <3>3. notes = old
      BY <2>1, <2>3, <3>1, <3>2, NotesAgree
    <3>4. noted = content
      BY <3>1, <3>3 DEF IsMap
    <3>5. w = [request EXCEPT !.content = noted]
      BY <1>1 DEF Shaped
    <3> QED
      BY <3>1, <3>4, <3>5 DEF IsMap
  <2> QED
    BY <2>2, <2>3, <2>7, <2>8 DEF ReadAsBuildConfig
<1> QED
  BY <1>1, <1>2, <1>4, <1>5, <1>7, <1>8 DEF Responds

\* crane writes what it was answered: what was marked is still marked, and a migration of an
\* output as it was writes each object as it was.
LEMMA CollectStable ==
  ASSUME MigrationInvariant, Judged, Stability, Collect, ~SerializeErrors
  PROVE  Stability'
<1>1. /\ response # Nil /\ ~Unusable /\ request # Nil
      /\ answered' = Put(answered, request, response) /\ UNCHANGED <<export, before>>
  BY DEF Collect, MigrationInvariant, ProcessInvariant
<1>2. /\ request \in export /\ request \notin DOMAIN answered /\ DOMAIN answered \subseteq export
      /\ Identified(export)
  BY <1>1 DEF MigrationInvariant, ProgressInvariant, ExportInvariant
<1>3. /\ \A w \in Written : IsBuildConfig(w) => Marked(w)
      /\ (IsBuildConfig(request) => Marked(request)) => Written = {request}
  BY <1>1, WrittenMarked
<1>4. /\ DOMAIN output' = DOMAIN output \union {Id(o) : o \in Written}
      /\ \A o \in Written : \E w \in Written : Id(w) = Id(o) /\ output'[Id(o)] = w
      /\ \A id \in DOMAIN output : id \notin {Id(o) : o \in Written} => output'[id] = output[id]
  BY OutputCollected
<1>5. IsMap(output') /\ IsMap(before')
  BY <1>1 DEF Collect, Stability, IsMap
<1>6. \A id \in DOMAIN output' : IsBuildConfig(output'[id]) => Marked(output'[id])
  BY <1>3, <1>4 DEF Stability
<1>7. \A id \in DOMAIN before' :
        Id(before'[id]) = id /\ (IsBuildConfig(before'[id]) => Marked(before'[id]))
  BY <1>1 DEF Stability
<1>8. ASSUME export' = Range(before')
      PROVE  /\ DOMAIN output' = {Id(o) : o \in DOMAIN answered'}
             /\ \A o \in DOMAIN answered' : output'[Id(o)] = o
  <2>1. Written = {request}
    <3>1. PICK id \in DOMAIN before : request = before[id]
      BY <1>1, <1>2, <1>8 DEF Range
    <3> QED
      BY <1>3, <3>1 DEF Stability
  <2>2. DOMAIN answered' = DOMAIN answered \union {request}
    BY <1>1 DEF Put
  <2>3. /\ DOMAIN output = {Id(o) : o \in DOMAIN answered}
        /\ \A o \in DOMAIN answered : output[Id(o)] = o
    BY <1>1, <1>8 DEF Stability
  <2>4. \A o \in DOMAIN answered : Id(o) # Id(request)
    BY <1>2 DEF Identified
  <2>5. DOMAIN output' = DOMAIN output \union {Id(request)} /\ output'[Id(request)] = request
    BY <1>4, <2>1
  <2>6. \A o \in DOMAIN answered : output'[Id(o)] = o
    BY <1>4, <2>1, <2>3, <2>4
  <2> QED
    BY <2>2, <2>3, <2>5, <2>6
<1> QED
  BY <1>5, <1>6, <1>7, <1>8 DEF Stability, IsMap, IsBuildConfig, Id, Range, Marked, Patchless

\* Every step of a migration keeps an output fit to be migrated again.
LEMMA MigrationStable ==
  ASSUME MigrationInvariant, Judged, Stability, [MigrationNext]_migrationVars, ~SerializeErrors
  PROVE  Stability'
<1>1. CASE Collect
  BY <1>1, CollectStable
<1>2. CASE Rerun
  <2>1. /\ before' = output /\ IsMap(output') /\ DOMAIN output' = {} /\ DOMAIN answered' = {}
    BY <1>2 DEF Rerun, EmptyMap, IsMap
  <2>2. \A id \in DOMAIN output : Id(output[id]) = id
    BY DEF MigrationInvariant, OutputInvariant
  <2>3. IsMap(before') /\ \A id \in DOMAIN before' :
          Id(before'[id]) = id /\ (IsBuildConfig(before'[id]) => Marked(before'[id]))
    BY <2>1, <2>2 DEF Stability
  <2> QED
    BY <2>1, <2>3 DEF Stability, IsMap, IsBuildConfig, Id, Range, Marked, Patchless
<1>3. CASE UNCHANGED <<export, answered, output, before>>
  BY <1>3 DEF Stability, IsMap, IsBuildConfig, Id, Range, Marked, Patchless
<1> QED
  BY <1>1, <1>2, <1>3
     DEF MigrationNext, Progress, Hand, Converse, Abort, Complete, Over, migrationVars

\* Migrating an output again, with nothing repaired, changes nothing, whatever is in it and in
\* whatever order its objects are handed over.  Serialization must not fail at random: a
\* BuildConfig that failed for it could convert the next time.
THEOREM OutputsRerunStable ==
  ASSUME ~SerializeErrors
  PROVE  MigrationSpec => []RerunStable
<1>1. MigrationInit => Judged /\ Stability
  <2> SUFFICES ASSUME MigrationInit PROVE Judged /\ Stability
    OBVIOUS
  <2>1. /\ pc = "idle" /\ results = <<>> /\ response = Nil
        /\ answered = EmptyMap /\ output = EmptyMap /\ before = EmptyMap
    BY DEF MigrationInit, Init
  <2>2. Judged
    BY <2>1, MigrationStarts, NothingJudged DEF MigrationInvariant
  <2>3. IsMap(EmptyMap) /\ DOMAIN EmptyMap = {}
    BY DEF IsMap, EmptyMap
  <2>4. Stability
    BY <2>1, <2>3 DEF Stability
  <2> QED
    BY <2>2, <2>4
<1>2. MigrationInvariant /\ Stability => RerunStable
  <2> SUFFICES ASSUME MigrationInvariant, Stability, status = "done", export = Range(before)
               PROVE  output = before
    BY DEF RerunStable
  <2>1. DOMAIN answered = Range(before)
    BY DEF MigrationInvariant, ProgressInvariant
  <2>2. /\ DOMAIN output = {Id(o) : o \in Range(before)}
        /\ \A o \in Range(before) : output[Id(o)] = o
        /\ \A id \in DOMAIN before : Id(before[id]) = id
    BY <2>1 DEF Stability
  <2>3. DOMAIN output = DOMAIN before /\ \A id \in DOMAIN before : output[id] = before[id]
    BY <2>2 DEF Range
  <2> QED
    BY <2>3 DEF Stability, IsMap
<1>3. /\ MigrationInvariant /\ [MigrationNext]_migrationVars => MigrationInvariant'
      /\ MigrationInit => MigrationInvariant
  BY MigrationStepKeeps, MigrationStarts
<1>4. MigrationInvariant /\ Judged /\ [MigrationNext]_migrationVars => Judged'
  BY MigrationJudged
<1>5. MigrationInvariant /\ Judged /\ Stability /\ [MigrationNext]_migrationVars => Stability'
  BY MigrationStable
<1> QED
  BY <1>1, <1>2, <1>3, <1>4, <1>5, PTL DEF MigrationSpec
=============================================================================
