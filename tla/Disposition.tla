----------------------------- MODULE Disposition -----------------------------
(***************************************************************************)
(* The JSON patch that marks a BuildConfig as skipped or failed            *)
(* (buildconfig/disposition.go), and what applying it does to the          *)
(* annotations of the BuildConfig: RFC 6902 "add", as far as the patch     *)
(* uses it.                                                                *)
(***************************************************************************)
EXTENDS ConvertState

CONSTANT CutReasons   \* the reasons that are too long, each with what truncateReason leaves of it

\* At least the ellipsis is left.
ASSUME ReasonsAssumption == \A reason \in DOMAIN CutReasons : CutReasons[reason] # Blank

\* ReasonTruncation has the loop.
truncateReason(reason) == IF reason \in DOMAIN CutReasons THEN CutReasons[reason] ELSE reason

-----------------------------------------------------------------------------
(* The patch.                                                              *)

\* strings.ReplaceAll of one character.
Substituted(s, character, replacement) ==
  FlattenSeq([k \in DOMAIN s |-> IF s[k] = character THEN replacement ELSE <<s[k]>>])

\* A reference token of a JSON pointer: "~" first, or it would escape the escapes.
escapeJSONPointer(token) == Substituted(Substituted(token, "~", <<"~", "0">>), "/", <<"~", "1">>)

AnnotationsPath == <<<<"metadata">>, <<"annotations">>>>
AddMap(map) == [path |-> AnnotationsPath, value |-> map]

\* A mistake the runs must notice: the key goes without its prefix, so that it needs no escaping.
AddBareKey(key, value) == [path |-> Append(AnnotationsPath, <<Last(key)>>), value |-> value]

AddKey(key, value) == [path |-> Append(AnnotationsPath, escapeJSONPointer(key)), value |-> value]

\* What the patch says of an outcome: a reason only when there is one.
Note(state, reason) ==
  LET outcome == Put(EmptyMap, ConversionOutcomeAnnotation, state)
  IN  IF reason = Blank THEN outcome ELSE Put(outcome, ConversionReasonAnnotation, reason)

\* Two mistakes the runs must notice: the map is added whole over the user's annotations,
PatchWholeMap(annotations, state, reason) == <<AddMap(Note(state, truncateReason(reason)))>>

\* and keys are added to a map that is not there.
PatchKeysOnly(annotations, state, reason) ==
  LET note == Note(state, truncateReason(reason)) IN
  <<AddKey(ConversionOutcomeAnnotation, note[ConversionOutcomeAnnotation]),
    AddKey(ConversionReasonAnnotation, note[ConversionReasonAnnotation])>>

\* One operation when the BuildConfig has no annotations, else one for each key.
dispositionPatch(annotations, state, reason) ==
  LET note == Note(state, truncateReason(reason)) IN
  IF annotations = EmptyMap
  THEN <<AddMap(note)>>
  ELSE <<AddKey(ConversionOutcomeAnnotation, note[ConversionOutcomeAnnotation])>>
         \o When(ConversionReasonAnnotation \in DOMAIN note,
                 <<AddKey(ConversionReasonAnnotation, note[ConversionReasonAnnotation])>>)

-----------------------------------------------------------------------------
(* Applying it, which crane does.                                          *)

\* A reference token read from left to right: "~1" is "/" and "~0" is "~".
Unescaped(token) ==
  LET read(acc, c) ==
        CASE acc.tilde -> [token |-> Append(acc.token, IF c = "1" THEN "/" ELSE "~"),
                           tilde |-> FALSE]
          [] ~acc.tilde /\ c = "~" -> [acc EXCEPT !.tilde = TRUE]
          [] OTHER -> [acc EXCEPT !.token = Append(@, c)]
  IN  FoldLeft(read, [token |-> <<>>, tilde |-> FALSE], token).token

AddsMap(op) == op.path = AnnotationsPath
KeyOf(op) == Unescaped(op.path[3])

\* "add" needs the object that gets the member to exist, and an unescaped "/" ends a token.
Applicable(annotations, patch) ==
  \A k \in DOMAIN patch :
    AddsMap(patch[k]) \/ (annotations # EmptyMap /\ ~Contains(patch[k].path[3], "/"))

\* The plugin adds the map, or keys to the map that is there.
Patched(annotations, patch) ==
  LET adding(key) == {k \in DOMAIN patch : KeyOf(patch[k]) = key} IN
  IF AddsMap(patch[1])
  THEN patch[1].value
  ELSE [key \in DOMAIN annotations \union {KeyOf(patch[k]) : k \in DOMAIN patch} |->
          IF adding(key) = {} THEN annotations[key]
          ELSE patch[CHOOSE k \in adding(key) : TRUE].value]
=============================================================================
