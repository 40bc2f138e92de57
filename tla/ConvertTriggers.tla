--------------------------- MODULE ConvertTriggers ---------------------------
(***************************************************************************)
(* Steps 15 and 16 of Convert: the triggers, which are all dropped, and    *)
(* the notes on images another BuildConfig may build                       *)
(* (buildconfig/triggers.go, chain.go).                                    *)
(***************************************************************************)
EXTENDS ConvertSource

\* The deprecated lowercase spellings.
canonicalTriggerType(type) ==
  CASE type = "github" -> "GitHub"
    [] type = "generic" -> "Generic"
    [] type = "imageChange" -> "ImageChange"
    [] OTHER -> type

WebhookTypes == {"GitHub", "Generic", "GitLab", "Bitbucket"}

-----------------------------------------------------------------------------
(* What an ImageChange trigger watches.                                    *)

\* The strategy image: the Docker strategy's if there is one, else the Source strategy's.
StrategyImage(b) ==
  CASE b.strategy.docker # Nil -> b.strategy.docker.from
    [] b.strategy.docker = Nil /\ b.strategy.source # Nil -> b.strategy.source.from
    [] OTHER -> Nil

\* Namespace and kind are defaulted.
Defaulted(b, ref) ==
  Ref(IF ref.kind = Blank THEN "ImageStreamTag" ELSE ref.kind, NamespaceOf(b, ref), ref.name)

\* A pointer to a defaulted reference is not nil.
ASSUME DefaultedAssumption ==
  \A b \in BuildConfigs : NamesImage(StrategyImage(b)) => Defaulted(b, StrategyImage(b)) # Nil

\* The image the trigger names, else the strategy image; Nil when neither names one.
imageChangeWatchedObject(b, change) ==
  LET from == IF change # Nil /\ NamesImage(change.from) THEN change.from ELSE StrategyImage(b)
  IN  IF NamesImage(from) THEN Defaulted(b, from) ELSE Nil

chainKey(ref) == <<ref.ns, ref.name>>

\* The one decision both the trigger warning and the chain lines read.
WatchesChained(b, trigger) ==
  LET from == imageChangeWatchedObject(b, trigger.imageChange)
  IN  /\ canonicalTriggerType(trigger.type) = "ImageChange"
      /\ from # Nil /\ chainCandidate(b, from)

-----------------------------------------------------------------------------
(* The record of the triggers kept on the Build.                           *)

\* A mistake the runs must notice: the ImageChange part is kept whole.
keepImageChange(trigger) ==
  LET type == canonicalTriggerType(trigger.type)
      hook == IF type \in DOMAIN trigger.webhooks THEN trigger.webhooks[type] ELSE Nil
  IN  [type |-> trigger.type,
       secretReference |-> IF hook = Nil THEN Blank ELSE hook.secretReference,
       allowEnv |-> hook # Nil /\ hook.allowEnv,
       imageChange |-> trigger.imageChange]

\* Inline webhook secrets and the last triggered image are left behind.
sanitizeTrigger(trigger) ==
  LET type == canonicalTriggerType(trigger.type)
      hook == IF type \in DOMAIN trigger.webhooks THEN trigger.webhooks[type] ELSE Nil
  IN  [type |-> trigger.type,
       secretReference |-> IF hook = Nil THEN Blank ELSE hook.secretReference,
       allowEnv |-> hook # Nil /\ hook.allowEnv,
       imageChange |-> IF trigger.imageChange = Nil THEN Nil
                       ELSE [from |-> trigger.imageChange.from,
                             paused |-> trigger.imageChange.paused]]

-----------------------------------------------------------------------------
(* Warnings, one per trigger and one for all of them.                      *)

TriggerWarning(trigger) ==
  LET type == canonicalTriggerType(trigger.type) IN
  CASE type \in WebhookTypes -> [id |-> "WebhookDropped", about |-> <<type>>]
    [] type = "ImageChange" /\ WatchesChained(bc, trigger) ->
         [id |-> "ImageChangeDroppedRunOrder",
          about |-> imageChangeWatchedObject(bc, trigger.imageChange).name]
    [] type = "ImageChange" /\ ~WatchesChained(bc, trigger) ->
         [id |-> "ImageChangeDropped", about |-> <<>>]
    [] type = "ConfigChange" ->
         \* The template, when there is one already, starts the first build.
         [id |-> IF /\ BuildRunTemplateAnnotation \in DOMAIN build.annotations
                    /\ build.annotations[BuildRunTemplateAnnotation] # Blank
                 THEN "ConfigChangeTemplate" ELSE "ConfigChangeManual",
          about |-> <<>>]
    [] OTHER -> [id |-> "UnknownTriggerDropped", about |-> <<trigger.type>>]

NoTriggers ==
  /\ Goto("triggers", "chain") /\ bc.triggers = <<>>
  /\ UNCHANGED <<i, warnings, build, extra, generatedSA, notices>>

Triggers ==
  /\ Goto("triggers", "chain") /\ bc.triggers # <<>>
  /\ build' = Annotate(build, OriginalTriggersAnnotation,
                       [k \in DOMAIN bc.triggers |-> sanitizeTrigger(bc.triggers[k])])
  /\ Warn([k \in DOMAIN bc.triggers |-> TriggerWarning(bc.triggers[k])]
            \o W("TriggersDropped", <<>>))
  /\ UNCHANGED <<i, extra, generatedSA, notices>>

-----------------------------------------------------------------------------
(* The chain lines.                                                        *)

\* The single source.images entry, with or without paths to copy.
SoleImage(b, withPaths) ==
  /\ Len(b.source.images) = 1 /\ ImageOf(b).name # <<>>
  /\ (b.source.images[1].paths # <<>>) = withPaths

SoleImageRef(b) == Ref(ImageOf(b).kind, NamespaceOf(b, ImageOf(b)), ImageOf(b).name)

chainInputs(b) ==
  LET from == imageChangeWatchedObject(b, Nil)
  IN  When(from # Nil, <<from>>) \o When(SoleImage(b, FALSE), <<SoleImageRef(b)>>)

\* A mistake the runs must notice: the images the triggers watch are not taken into account.
PathsKeys(b) ==
  IF SoleImage(b, TRUE) /\ chainCandidate(b, SoleImageRef(b))
  THEN {chainKey(SoleImageRef(b))} ELSE {}

\* The keys of the images a warning already names.
WarnedKeys(b) ==
  {chainKey(imageChangeWatchedObject(b, b.triggers[k].imageChange)) :
     k \in {k \in DOMAIN b.triggers : WatchesChained(b, b.triggers[k])}}
  \union IF SoleImage(b, TRUE) /\ chainCandidate(b, SoleImageRef(b))
         THEN {chainKey(SoleImageRef(b))} ELSE {}

\* An input gets a line of its own when it may be chained and no warning names it.
NeedsLine(b, ref) == chainCandidate(b, ref) /\ chainKey(ref) \notin WarnedKeys(b)

\* The images the lines name, in the order of the inputs and each one once: two inputs that
\* resolve to one image would print the same line.
ChainLines(b) ==
  LET inputs == chainInputs(b)
      image == [k \in DOMAIN inputs |-> Resolve(b, inputs[k]).image]
      printed == {k \in DOMAIN inputs :
                    /\ NeedsLine(b, inputs[k])
                    /\ \A j \in 1..(k - 1) : NeedsLine(b, inputs[j]) => image[j] # image[k]}
  IN  [n \in 1..Cardinality(printed) |->
         image[CHOOSE k \in printed : Cardinality({j \in printed : j <= k}) = n]]

processChainCandidates ==
  /\ Goto("chain", "resources")
  /\ notices' = ChainLines(bc)
  /\ UNCHANGED <<i, warnings, build, extra, generatedSA>>

-----------------------------------------------------------------------------
TriggerSteps == NoTriggers \/ Triggers \/ processChainCandidates
=============================================================================
