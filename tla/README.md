# TLA+ verification of crane-plugin-buildconfig-to-shipwright

The plugin turns an OpenShift `BuildConfig` into a Shipwright `Build` (with, when they are
needed, a `ServiceAccount` and a `ConfigMap`), or declines to and says why. crane starts it
once per resource of the export. The modules here model the conversion step by step, the
plugin process around it and the migration around that; check what they must get right on
small instances with TLC; and prove the parts that do not depend on the instance with TLAPS.

Paths below are relative to the repository; `converter.go` and the other Go files are in
`src/buildconfig/`.

## 1. The system

### Components

| Component | State it keeps | Operations | Talks to |
|---|---|---|---|
| `Converter.Convert` (`converter.go`) | the Build under construction, the generated resources, `generatedSA`, `startWarnings` | 19 steps in a fixed order, with eight early returns | everything below |
| Warning recorder (`outcome.go`, `recordWarning`, `warnf`) | `warnings` (only ever grows), `curNS`, `curName` | record a warning attributed to the current BuildConfig; classify the outcome; write the annotations | every step |
| Annotation cap (`boundedWarnings`) | the builder and `kept` | join what fits in 32 KiB, and a notice of what does not | the recorder: it records a warning itself |
| Image references (`imagestream.go`, `processOutput`) | none | resolve a reference, apply the two mappings, find the registry host | strategy, source, output, registries, chain |
| Build strategies (`converter.go` 370-700) | loop indices, `seen` volume names | Docker and Source: image, params, build args, volumes; output gate | references, recorder |
| Source, credentials, output (`converter.go` 704-1010, `dockerfile.go`) | `newResources` | pull secret and ServiceAccount, inline Dockerfile, git/binary/image source, image labels | references, recorder |
| Settings (`converter.go` 1010-1330, `postcommit.go`) | none | deadline, node selector, run policy, hook, limits, registry flags, BuildRun template | recorder; the template reads `generatedSA` |
| Triggers and chained builds (`triggers.go`, `chain.go`) | the set of images already named | keep a sanitized record, warn per trigger, note images another BuildConfig may build | references, recorder |
| Generated names (`names.go`) | none | rewrite an invalid name with a hash suffix | Build, ServiceAccount, ConfigMap |
| Plugin entry (`plugin.go`) | none across processes | decode, convert, dispatch on the outcome, parse flags | Convert, disposition, crane |
| Disposition (`disposition.go`) | none | the JSON patch that annotates a declined BuildConfig, its reason cut to a cap | plugin entry |
| crane (external) | the export, the output directory | run the plugin per resource, apply the patches, write what it returns | plugin entry |

A process runs in one goroutine. Its interactions are calls, plus two pieces of shared state
that outlive a step: the recorder's slice, which every step appends to and step 18 reads from
`startWarnings` on, and the Build itself, whose strategy name, image and annotations later
steps read back. Processes share nothing: each sees one object, in an order nobody fixes, and
what they answer meets only in crane's output, by kind, group, namespace and name. The output
of one migration may be the export of the next.

### What is hard

There is no concurrency in `Convert`. What a unit test reaches badly is:

* *order and early returns*: resources and warnings are produced before the step that may
  still decline the BuildConfig, and loops skip entries with `continue` from several places;
* *records that must agree*: the returned state, the returned warnings and the annotation are
  written at different moments, and one of them records a warning while it is written;
* *state across calls*: the library's `Converter` may convert several BuildConfigs, with the
  offset and the attribution kept by hand;
* *two pieces of code that must agree*: producers' and consumers' image references, the
  trigger warning and the chain line, the strategy's name and the settings that depend on it;
* *boundaries*: the 32 KiB cap with its reserve, `int64` nanoseconds, the CRD's limits, a
  reason cut inside a rune;
* *what Go leaves open*: the order of a map's keys, before the sort that makes it not matter;
* *processes that know nothing of each other*: names must keep apart what several BuildConfigs
  generate, one failure must not stop a migration, and a BuildConfig that one migration
  annotated, perhaps repaired since, is the input of the next.

`PROJECT.json` lists each hazard at its line, with the properties that watch it or the reason
none does yet.

### What makes each component correct

| Component | Properties |
|---|---|
| Convert | `OutcomeDecided`, `NoOrphanResources`, `HistoryIndependent`, `KeepsPromise` |
| Warning recorder | `OutcomeRecordsAgree`, `WarningsBelong` |
| Annotation cap | `AnnotationBounded`, `KeepsWhatFits` |
| Image references | `ChainedBuildsMeet` |
| Strategies | `BuildArgsPartition`, `VolumesUnambiguous` |
| Source, credentials | `SourceFaithful`, `SourceLossesReported`, `PullSecretReachesBuild`; violated: `ContextLossReported` |
| Settings | `SettingLossesReported`, `BuildAdmissible`, `InsecureRouted`, `TemplateStepsExist` |
| Triggers, chains | `TriggersAccounted`, `RunOrderSaidOnce`; violated: `ImageNamedOnce` |
| Registry mapping | `OrderIrrelevant` |
| Generated names | `LabelsValid`, `ValidNamesKept`, `LostOnlyInGap` |
| Plugin entry | `RegistriesClean`, and those of the migration |
| Disposition | `DeclinedSelfDescribing`, `RerunStable`, `ReasonBounded`, `ReasonFaithful`, `Returns` |
| Migration | `KeepsDisposal`, `MigrationEnds`, `ReplacementComplete`; violated: `NamedAccountKept`, `ReasonOnDeclinedOnly` |

## 2. The modules

```
WarningBudget --- BoundedWarnings --- MCBoundedWarnings
      |                  \----------- BoundedWarnings_proofs
ImageRefs --+
      |     \---- RegistryMapping --- MCRegistryMapping, RegistryMapping_proofs
ConvertState --+-- ConvertStrategy ----------------+
      |        +-- ConvertSettings ----------------+-- Convert --+-- ConvertProperties --- MCConvert
      |        +-- ConvertSource -- ConvertTriggers+             |          \-- Convert_proofs
      |                                           Conversion ----+ (refined)      \-- ConvertLedger_proofs
      |                                                          |                      \-- ConvertProperties_proofs
      \-- Disposition -- (DispositionKeys)                       |
                 \-------------------------------- Plugin -------+
                                                     |
                                   Disposal ---- Migration --- MCMigration
                                   (refined)          \------- Migration_proofs (on ConvertLedger_proofs)

Names --- MCNames, Names_proofs          ReasonTruncation --- MCReasonTruncation, ReasonTruncation_proofs
```

| Module | Code | Content |
|---|---|---|
| `ConvertState` | `converter.go` 77-131, 243-325; `names.go`; `outcome.go` | the state of a Converter, warnings and their attribution, copied metadata, the start and the two ends of a conversion |
| `ConvertStrategy` | steps 2 and 3 | the strategy, its loops over build args and volumes, the output gate |
| `ConvertSource` | steps 4 to 8 | ServiceAccount, inline Dockerfile, source, output, labels |
| `ConvertSettings` | steps 9 to 14, 17 | deadline, node selector, policies, limits, registries, template |
| `ConvertTriggers` | steps 15, 16 | triggers and chain lines |
| `Convert` | `Convert` as a whole, steps 18, 19 | the next-state relation, the classification, `Spec`, the refinement of `Conversion` |
| `Conversion` | the contract of `Convert` | abstract: every call returns one of four outcomes with the resources that outcome allows |
| `ConvertProperties` | | the properties of a conversion |
| `ImageRefs` | `imagestream.go`, part of `processOutput` | pure operators |
| `RegistryMapping` | `imagestream.go`, `applyRegistryMapping` | the loop: keys collected in any order, sorted, tried one by one |
| `WarningBudget` | `boundedWarnings` | what the annotation keeps, declaratively; `Convert` uses it |
| `BoundedWarnings` | `boundedWarnings` | the same as the loop the code runs |
| `Names` | `names.go` and its callers | the sanitizer, character by character, and what a namespace of BuildConfigs generates |
| `Disposition` | `disposition.go` | the patch, JSON pointer escaping, and what applying the patch does |
| `DispositionKeys` | `outcome.go`, `disposition.go` | the fact that the two keys survive escaping, evaluated by TLC |
| `ReasonTruncation` | `disposition.go`, `truncateReason` | the loop that cuts a reason at a rune |
| `Plugin` | `plugin.go` | one process: `Run`, its flags, its responses, over the actions of `Convert` |
| `Migration` | external, and ADR-0002, ADR-0006 | objects handed to processes in any order, the output, a migration of an output |
| `Disposal` | the contract of a migration | abstract: each object settled once, only an unreadable one stops it |

**State.** `warnings`, `cur` (`curNS`, `curName`) and `opts` are the fields of the Go
`Converter`. `bc`, `build`, `extra` (`newResources`), `generatedSA` and `start`
(`startWarnings`) are the parameter and the locals of `Convert`; `pc` is the statement it is
at and `i` the index of the loop it is in. `results` is what the calls returned, and
`notices` the INFO lines of `chain.go`; both exist so that properties can talk of them.

**Actions.** One per step, and one per branch of a step where branches differ in what they
write: `MapDeadline`, `DropDeadline`, `NoDeadline`. The loops over build args and volumes
take one action per element, because their `continue`s interleave the decisions. A step that
fails is an action that goes through `Decline`. `Begin` is the entry of `Convert` up to step 1, `Return` its
return with the deferred function. `AllConverted` stutters when the bound on conversions is
reached, so deadlock checking stays on and would show any step that gets stuck.

`Plugin` adds a process to this: `request` is the object on its standard input, `response`
what it writes. `StartConversion` is the call of `Convert`, `Converting` any step of it, and
`Replace`, `PassAnnotated` and `PassUnannotated` the dispatch on what it returned; `Exit` drops
the process with its Converter. `Migration` adds crane: `Hand` starts a process for an object,
`Collect` puts what it answered into `output`, `Abort` stops at a process that failed or a
patch that does not apply, `Rerun` migrates the output again with any of the declined
BuildConfigs repaired. One process runs at a time: crane waits for each, and since processes
share nothing, only the order in which their answers are written could matter, which is free.

**Data.** A name is a sequence of tokens, such as `<<"base", ":", "1">>`, split where the code
splits it (`/`, `:`, `@`) and nowhere else, so that a default tag, a namespace and a registry
prefix are operations on sequences. A warning is its kind and the object it names; its wording
is left out, its length is a constant. A step's warnings appear in the order the code raises
them. The name sanitizer is a constant function `Rewritten`: which names it changes is chosen
by the instance; `Names` is where a name is its characters and the sanitizer is modelled in full.
A reference in `RegistryMapping` is a sequence of bytes, because the sort compares bytes; a
reason in `ReasonTruncation` is the list of the offsets where its runes end, because nothing
else of it matters to the cut. Serialization is modelled by whether it fails, at each of the four calls of
`toUnstructured` and `processResources`.

**Mistakes.** Definitions introduced by "A mistake the runs must notice" are not part of the
system. Each is a form that a plausible bug would give the definition after it; with it in
place, one of the properties must fail (`mutants` in `PROJECT.json`).

## 3. What is checked

| Run | Question | Bounds |
|---|---|---|
| `bounded_warnings` | does the loop keep what the definition says, within the cap? | lists of 0-5 warnings of 0, 1, 5, 9 or 20 bytes, cap 20 |
| `inputs` | are build args and volumes partitioned into carried and reported? is no source or credential lost in silence, does nothing outlive a declined conversion? is whether a BuildConfig is converted, and why not, read off it alone? | lists of 0-2 out of six args and five volumes, nine strategy images, three sets of flags; all combinations of git, binary, 0-2 images, secrets, directories; obstacles in strategy, output and source in all combinations; every serialization may fail |
| `settings` | is what the Build holds admissible, and what it does not hold reported? is each chained input given its run order exactly once? | deadlines and limits at and around each boundary, 0-3 labels, 12 sets of flags; five inputs, nine sources, 0-2 image triggers or one other, with and without aliasing |
| `reuse` | do records agree, is a Converter reusable, do chains meet, does `Convert` implement `Conversion`, its fairness included? | three conversions in any order out of nine BuildConfigs, three mappings, a cap small enough to truncate |
| `registry_mapping` | does the order Go visits a map in ever show? | references of 1-3 bytes, mappings of 0-4 keys, empty keys and values included |
| `names` | are labels valid, are valid names kept, does a resource overwrite another's only in the documented gap? | every name of 1-3 characters out of four, longer ones, and names equal to a rewritten one, two conversions in any order, labels of at most 5, a digest of 1 |
| `reason` | is a cut reason within its cap, whole runes, and as long as the cap allows? | 0-5 runes of 1-4 bytes, cap 9, ellipsis 3 |
| `migration` | is every object settled as promised, whatever the others are? does a rerun change nothing, and the rerun of a repaired BuildConfig replace it? | exports of 0-3 out of ten objects, in every order, two rounds, any subset repaired in between |
| `chain_alias` | ADR-0009's "no info line for an image a warning names" | the chain part of `settings`, with aliasing; **violated** |
| `no_source` | README's "every dropped field produces a warning" | one BuildConfig without a source; **violated** |
| `migration_account` | README's "the plugin never overwrites" a named account | three objects, one round; **violated** |
| `migration_reason` | `conversion-reason` is on declined BuildConfigs | one BuildConfig that fails, then repaired; **violated** |

All passing runs finish within three minutes, on 4,000 to 400,000 distinct states, and together
fire every action and every disjunct of their next-state relations.

### Why the bounds are enough

* `MaxLoop` (2, 3 for labels). What a loop carries from one element to the next is a set of
  names already seen, or a map: the second element is where a duplicate shows, the third label
  where a value is overridden twice.
* `MaxConversions` (1, 3 in `reuse`). A conversion meets the ones before it only
  through `warnings` and the attribution. Two calls make an offset, but one that counts only the
  conversion before, and not all of them, is right for both. With three, every BuildConfig of the
  family is converted before, between and after any other, itself included, so that
  `HistoryIndependent` compares its first answer with one given after another BuildConfig; that
  mistake is the property's mutant, and goes unnoticed with two. More calls only lengthen the
  prefix, and `WarningsAttributed`, `WarningsReturned` and `ConvertAnswers` are proved for any
  number.
* The obstacle family of `inputs` gives a BuildConfig up to three obstacles, one in each step that
  may decline it: with one at a time a check that moved to another step would show nothing.
* `MaxInt64` = 127 and `Second` = 16. The code's overflow needs only that one second is far
  from one nanosecond and that the product wraps. 7 seconds is the longest that fits, 8 wraps
  to a negative timeout and 16 and 17 wrap to 0 and to one second, the three outcomes a
  missing check would have.
* `MaxBytes`: 1000 where truncation is not the subject; 10 in `reuse`, where two
  three-byte warnings fit and, of more, one and the four-byte notice; 20 in
  `bounded_warnings`, where the notice grows by a byte at three omissions, as the code's does
  when its number gains a digit.
* The families of `MCConvert` vary together the fields one question is about and keep the
  others plain. Steps of different families share only the strategy's name, the image and
  `generatedSA`; the families that read these vary them (`strategyMapping` in `settings`,
  ServiceAccounts with resources in `source`).

* `registry_mapping`: three bytes are what two nested prefixes and an unmatched rest need; of
  four keys, two can tie in length and one be malformed.
* `names`: the limit of 5 and the digest of 1 leave a stem of 3, so that names of three
  characters are not truncated, longer ones are, and a truncation can end on a dash. Two names
  are all that a collision needs; the theorems hold for any number.
* `reason`: cap 9 and ellipsis 3 leave 6 bytes; with runes of one to four bytes the cut falls
  on every offset of a rune, and 9 and 10 bytes are the last that fits and the first that does
  not.
* `MaxObjects` (3). An object meets the others through an identity in the output: two suffice
  to overwrite, the third shows an order between. Among the ten are BuildConfigs for every
  response, two whose names the sanitizer must keep apart, one whose patch cannot be built,
  one that cannot be decoded, a BuildConfig of another API group and a plain object.
* `MaxRounds` (2). A migration sees an earlier one only through annotations on what it left;
  the second is where the patch takes its other shape. `RerunStable` says a third would be as
  the second.

### Fairness

`Spec` asks `WF_vars(Step)`: a conversion that was called keeps going. The code justifies it:
`Convert` is straight-line Go with loops over slices, without channels, locks or I/O whose
answer it waits for. Calling `Convert` (`Begin`) is *not* fair; the caller may stop at any
point. The fairness in `KeepsPromise`, that a call is answered, is what uses it: it fails when a
step has a case no action covers. Of the loops modelled by themselves, the one of `truncateReason`
is a `while` whose condition is about what it shortens; there `Spec` has `WF_vars(Next)` and
`Returns` says that it ends. The others range over a slice, whose end is no question, and their
specifications have no fairness.

`MigrationSpec` asks `WF_migrationVars(Progress)`: crane waits for the process it started and
goes on to the next object (`docs/architecture.md` 25-54). Migrating again (`Rerun`) is the
user's choice and not fair. `MigrationEnds` uses it.

### Findings

* **`ImageNamedOnce`** (`chain.go` 131, `docs/adr/0009-chained-builds-per-buildconfig-notice.md`
  32-36). The ADR says an image a warning already names gets no info line. The code compares
  the ImageStreamTags, and the lines name the *resolved* image: with two tags mapped to one
  image by the image-stream mapping, the paths warning names it and an info line does again.
* **`ContextLossReported`** (`converter.go` 794, `README.md` 29). The README says every field
  the plugin reads and drops produces a warning. A BuildConfig without git, binary and image
  source returns from `processSource` before `source.configMaps` and `source.secrets` are read,
  so these mounts disappear with no warning that names them.

* **`NamedAccountKept`** (`converter.go` 723, `README.md`: a named ServiceAccount "keeps it:
  crane migrates that account unchanged and the plugin never overwrites it"; ADR-0006). The
  plugin keeps to it for the BuildConfig that names the account. But the account it generates
  for *another* BuildConfig is called like that BuildConfig, and no process knows what the
  export holds: with a BuildConfig `base` that needs an account and a ServiceAccount `base`
  that another one names, the later written replaces the other. Where no such names meet, the
  promise is kept for the whole migration: `NamedAccountsKept` (section 4).
* **`ReasonOnDeclinedOnly`** (`converter.go` 261, `docs/architecture.md`: `conversion-reason`
  is on the passed-through BuildConfig). A BuildConfig that was declined, repaired and migrated
  again is converted, and its annotations are copied onto the Build: the outcome is
  overwritten, the reason of the earlier failure stays.

A further place where docs and code meet, the ConfigChange warning that looks for a template
written two steps later (`triggers.go` 169), is documented as known in `docs/architecture.md`
149-154; `ConfigChangeTemplate` is in the model and never reached by a passing run.

## 4. What is proved

TLAPS checks these for every value of the constants: any BuildConfigs, flags, serialization
failures and number of conversions; any names, mappings, references and reasons.

**Of `Convert`** (`Convert_proofs`, `ConvertProperties_proofs`), each as
`Spec => []`*property* unless stated:

| Theorem | Property | In words |
|---|---|---|
| `TypeCorrect` | `TypeOK` | |
| `NoOrphans` | `NoOrphanResources` | what is declined emits nothing |
| `WarningsAttributed` | `WarningsBelong` | a warning carries the identity of the BuildConfig it was raised for |
| `WarningsReturned` | `WarningsComplete` | the first part of `OutcomeRecordsAgree` |
| `OutcomesAgree` | `OutcomeRecordsAgree` | state, warnings and annotations agree, the omitted ones included |
| `LossesReported` | `SettingLossesReported` | deadline, node selector, limits, labels and hook: kept or reported |
| `SourceLosses` | `SourceLossesReported` | inline Dockerfile and clone secret: kept or reported |
| `SourceAlwaysFaithful` | `SourceFaithful` | the kind of source and its mounts |
| `TriggersReported` | `TriggersAccounted` | one warning and one sanitized record entry per trigger |
| `PullSecretsReach` | `PullSecretReachesBuild` | on the generated account, or to be linked to the named one |
| `TemplatesFit` | `TemplateStepsExist` | the template overrides steps the Build's strategy has |
| `BuildsAdmissible` | `BuildAdmissible` | timeout, limits, selector, labels, names within what the CRD accepts |
| `InsecurePushesRouted` | `InsecureRouted` | an insecure push is marked in the one way its strategy reads |
| `ChainsMeet` | `ChainedBuildsMeet` | a consumer builds from the image its producer pushes |
| `VolumesDistinct` | `VolumesUnambiguous` | the first usable volume of each name, the others reported |
| `ArgsPartitioned` | `BuildArgsPartition` | each build arg carried, in order, or reported |
| `RunOrdersSaidOnce` | `RunOrderSaidOnce` | a chained input is given its run order exactly once |
| `OutcomesDecided` | `OutcomeDecided` | converted, skipped or failed, and why, is read off the strategy, output and source |
| `StepsRunOut` | | `Spec => [](StepsLeft \in Nat) /\ [][pc # "idle" => StepsLeft' < StepsLeft]_vars`: a conversion is at most one step per statement and one per build arg, volume and label |
| `ConvertAnswers` | | `Spec => Promise!Init /\ [][Promise!Next]_(Promise!vars)`, the safety part of `KeepsPromise` |
| `ChainedImagesAgree` | | producer and consumer of a tag resolve it to one image |
| `FallbackWarned` | | a reference left on the internal registry by no flag carries the warning |

**Of the other components:**

| Theorem | Statement |
|---|---|
| `Migration_proofs!DisposalKept` | `MigrationSpec => KeepsDisposal` |
| `Migration_proofs!DeclinedDescribed` | `MigrationSpec => []DeclinedSelfDescribing` |
| `Migration_proofs!ReplacementsComplete` | `MigrationSpec => []ReplacementComplete`, when every first export is `Apart` |
| `Migration_proofs!NamedAccountsKept` | `MigrationSpec => []NamedAccountKept`, when every first export is `Apart` |
| `Migration_proofs!OutputsRerunStable` | `MigrationSpec => []RerunStable`, when serialization does not fail at random |
| `Migration_proofs!RegistriesStayClean` | `MigrationSpec => []RegistriesClean`, for the options that any flags parse to |
| `BoundedWarnings_proofs!TypeCorrect` | `Spec => []TypeOK` |
| `BoundedWarnings_proofs!AnnotationIsBounded` | `Spec => []AnnotationBounded` |
| `BoundedWarnings_proofs!WhatFitsIsKept` | `Spec => []KeepsWhatFits`: the loop computes what `WarningBudget` defines |
| `RegistryMapping_proofs!MappingDeterministic` | `Spec => []OrderIrrelevant` |
| `Names_proofs!GeneratedLabelsValid` | `Spec => []LabelsValid` |
| `Names_proofs!ValidNamesAreKept` | `Spec => []ValidNamesKept` |
| `Names_proofs!NothingLostButInGap` | `Spec => []LostOnlyInGap` |
| `ReasonTruncation_proofs!ReasonIsBounded` | `Spec => []ReasonBounded` |
| `ReasonTruncation_proofs!ReasonIsFaithful` | `Spec => []ReasonFaithful` |

### Assumptions

TLC evaluates each of them on the runs of its module.

* `ConvertAssumption` (`ConvertState`): bounds are naturals, a second is not zero, `Nil` is no
  BuildConfig. `ListsAssumption`: the fields of a BuildConfig that are slices in Go are
  sequences. `IntegersAssumption`: its pointers to integers are nil or point to an integer.
* `RewrittenAssumption`: a name the sanitizer makes is one it would keep. It is what `Names`,
  where names are characters, proves of the sanitizer (`LabelsValid`, `ValidNamesKept`).
* `DefaultedAssumption` (`ConvertTriggers`): the address of a composite literal is not nil.
* `BudgetAssumption` (`WarningBudget`): a notice of more omissions is not shorter, and the
  longest notice fits the cap by itself; in the code the cap is 32768 bytes and the notice
  under 300. `SizesAssumption`: lengths are naturals.
* `MappingAssumption`: references and mappings are byte sequences.
* `NamesAssumption`: names are not empty, lower-casing changes capitals only, the limit leaves
  room for a stem beside the digest, and the digests tell the names of one namespace apart,
  which is what 32 bits of SHA-256 are there for and cannot be proved of them.
* `ReasonAssumption`: the ellipsis fits the cap (3 bytes of 4096 in the code).
  `ReasonsAssumption` (`Disposition`): something is left of a reason that is cut, the ellipsis
  at least. `KeysSurviveEscaping` (`DispositionKeys`): a fact about two fixed keys.
* `MigrationAssumption`: an export has one object of an identity, and a BuildConfig that
  decodes has the parts of its spec, annotations, be they empty, and in its metadata the
  namespace and the name it is known by, which in the code are the same fields read twice.
* `~SerializeErrors` is a hypothesis of `OutputsRerunStable`. A BuildConfig whose ServiceAccount
  could not be serialized in one migration may be converted in the next; the property speaks
  of what a migration decides.
* `RegistriesStayClean` is about any set of flags that are `WellFormed` (a flag that holds a
  list holds one: `FlagsWellFormed` in `MCMigration` says so of the instance's), and any options
  that `ParseOptionalFields` makes of them.
* `Apart` is no assumption of a module but a hypothesis of `ReplacementsComplete` and
  `NamedAccountsKept`: no object of an export has, and no two of its BuildConfigs share, an
  identity that the resources of one of them may take (`Claims`). The plugin sees one object at
  a time and cannot ensure it, so the two properties are not true of every export; the theorems
  say that such a collision is the only way to break them. TLC evaluates `Apart` of the objects
  of `migration` (`ExportsApart` in `MCMigration`), and the export of the run that refutes
  `NamedAccountKept` is one that is not apart.

### The argument for Convert

**Shapes.** The conversion has some fifty actions, but they relate to the control state, the
recorder and the Build in only three ways, so each action is opened once and shown to have one
of three *shapes*: `Goes` (the conversion goes on: where to, which fields of the Build it may
set, which warnings it may raise, what it may generate, all read off tables indexed by the
statement it is at), `Declines` (it returns a reason and nothing else) or `Finish`.
`StrategyStepShapes` ... `TriggerStepShapes` are these case analyses, one case per action,
joined in `StepShapes`. `Advance` and `Reply` are the two coarser shapes that the invariants of
the recorder need.

**The recorder.** `WarningsBelong` is not inductive: a result's `recorded` list is cut from
`warnings` only when the call returns. `Accountable` says of the running call what the
properties say of the returned ones: `cur` is the identity of `bc`, and everything recorded
since `start` is attributed to `cur`. `SuffixOfConcat` is the fact about slices this needs:
appending to `warnings` appends to `c.warnings[startWarnings:]`.

**The ledger.** Most properties say of a warning how often it was raised or whom it names.
`ConvertLedger_proofs` has the arithmetic of that: `LedgerConcat`, `LedgerEach` and `TallyEach`
count the positions of a message in a concatenation, and in a list with one message for each
element of a slice. `StepAt` says which action a step at a given statement is, `Untouched`
that a statement that may not set a field leaves it, `Told` and `Untold` what a step adds to the
count of a warning; `PassedInOrder` says that a statement once passed stays passed. These rest
on `Background`, which is `TypeOK` and `Formed`: the Build has its fields, its name and its
namespace, and a loop starts at 1.

**Each topic.** A property of a result speaks of a moment: what the returned Build held when
`Return` copied it. For each topic there is an invariant `XSoFar` that says, of every statement
after the step that decides the topic, how the Build, the ledger and the BuildConfig stand to
each other (`DeadlineSoFar`, `SelectorSoFar`, `HookSoFar`, `LimitsSoFar`, `TemplateSoFar`,
`AccountSoFar`, `DockerfileSoFar`, `SourceSoFar`, `TriggersSoFar`, `InsecureSoFar`,
`ImagesSoFar`, `WatchedSoFar`, `PathsSoFar`, `LinesSoFar`, ...). `StepX` shows that every step
keeps it: the deciding step because its action says so, every other one because the tables say
that it neither sets the field nor raises the warning. `FinalX` carries it through the last
step, which adds the annotations and perhaps the truncation notice (`FinalBuild`,
`FinalAnnotations`, `FinalSays`), and the theorem follows by `OneMore`: a step adds at most that
one result.

**Loops.** For the three loops `XSoFar` has a loop invariant: `Labelled` (the labels carried
after `n` of them, and which were reported overridden), `Mounted` and `VolumesTold` (the
volumes of `Build` are the first usable ones of the first `n`), and `Placed`, which builds
`BuildArgsPartition`'s witness, the position each carried argument came from, one element at a
time.

**Chains.** `FinalEnds` says that the image a producer pushes and the one a consumer builds from
are the resolution of the reference each was given, whatever happened in between, and
`ChainedImagesAgree`, about the two operators that resolve, makes them one image (`EndsMeet`).
`ChainedBuildsMeet` relates any two results, so its invariant, `AllEndsGiven`, is about each.
For `RunOrderSaidOnce`, `LinesOnce` shows that filtering out what is printed already leaves
each image once, at the first candidate that resolves to it, `InputsListed` that the candidates
are the inputs, and `LinesNeeded` that what is left is what no warning names.

**The cap.** `LoopInvariant` of `BoundedWarnings` adds to `TypeOK` that, while the loop runs,
`length` is what the kept warnings take when joined, that not all warnings fit, and that
`length + Reserved <= MaxBytes` or nothing was kept. The notice is written when the loop has left
room for the longest one (`NoticeFitsReserve`), so the bound survives the last step. What the
kept warnings cost is a recursive function of the prefix: `JoinedBytesRecursion` derives its
recursion equation from the existence of the function up to every length (`CountsExists`, by
a least counterexample), `JoinedBytesGrow` that it grows, and `KeptIsMost` that the first prefix
that does not fit is where the definition's maximum is. In `Convert`, `KeptFits` is the part
`OutcomesAgree` needs: what is kept is a prefix, and the notice is not in it.

**The decision.** `Verdict` reads the first obstacle off a BuildConfig. `Unobstructed` is what
the statements behind `pc` have shown: past the output gate there is no obstacle in strategy or
output, past the source none at all. `StepDecides` is one case per way a conversion can end: it
ends with the verdict, or with a serialization that failed, and a step that goes on has found no
obstacle of its own. `KnownResolves` says that whether an image can be resolved is a question of
the kind of its reference only, whatever the flags map.

**The length.** `StepsLeft` counts the statements ahead and the elements that the loops ahead have
yet to take; `WithinLists` says that no loop is past its list. Where a step goes on to is later
or the same loop (`LeftFalls`), and in a loop there is one element less (`UntakenFalls`). It is
the part of the promise that every call is answered that needs no fairness: the rest is that a
step is always possible.

**The refinement.** The end of `Convert_proofs` classifies the actions by what they do to the
resources: `Quiet` (none), `Generate` (one, at one of two places) or `Conclude` (the call
returns). `Provision` is the invariant it needs: which resources `extra` may hold at each
statement, so that what `Finish` puts after the Build is one of the four lists of kinds
`Conversion` allows. `BeginCalls` and `ConcludeAnswers` map the two kinds of steps that change
the abstract state.

### The arguments for the rest

**The migration.** `KeepsDisposal` has no fairness and is proved whole. `ProcessInvariant` says
when Convert may be running or have returned, with what kinds of resources (from `StepAnswers`
and `Provision` above), and that a response is one of five; so nothing of what happens inside a
conversion is needed twice. `OutputInvariant` says whose identity is in the output: without it,
a BuildConfig that is replaced could seem to be still there, and an object handed over earlier
could change its fate when a resource of another one is written. `PatchNotes` shows that the
patch applies to the annotations it was made for, with and without a map, and changes the two
keys and nothing else; it rests on the two keys surviving escaping, and on no conversion being
declined without a reason (`Conclude`). `Collect` is then `Settle` (`CollectSettlesOne`,
`CollectSettlesNoOther`), `Abort` is `GiveUp`, `Rerun` is `Restart`, and every other step is a
stutter. `DeclinedSelfDescribing` is kept by the same facts: `WhatIsWritten` says that what a
declined BuildConfig leaves is itself with the note its process logged, and `OthersStay` that no
later response touches it.

**Replacements.** `ReplacementComplete` speaks of what one process generated and of the output
all of them write. `Delivery` follows the first: the Build under construction keeps the name,
the namespace and the `converted-from` annotation of the BuildConfig (`GoesAttributable`, from
the tables of `Goes` and `AnnotationsKept`), so what Convert returns lies within the `Claims` of
the object it was asked about, no two resources in one place, one of them a Build that names its
source (`FinishDelivers`), and the process answers with nothing else (`PluginStepDelivers`).
`Separation` follows the second: the export is apart, and everything in the output is where an
object was that stayed, or within the claims of one that was replaced; so what is written for
one object never takes the place of what is there for another (`CollectSeparates`). That is
also what makes the output apart when it is the next export (`RerunSeparates`): a BuildConfig
in it was one in the export before, by an identity no other claims, and a repair changes neither
its name nor its namespace. `NamedAccountsKept` is the same invariant's last conjunct: what the
plugin leaves alone stays as it is.

**A rerun.** `RerunStable` compares two outputs, but what ties them is in one of them: a
BuildConfig that stayed has an obstacle, and carries the note it would be given again (`Marked`).
`Judged` brings `Verdict` from the conversion to the response; `PatchedIsMap` and `NotesAgree`
say that a patch of annotations that already have the two keys gives the same annotations;
`Stability` says that both the output and the one before are marked, and that when the one
before is migrated as it was, what was answered so far is already what is in the output. So a
marked BuildConfig is not replaced, having an obstacle, and is written as it was
(`WrittenMarked`, `CollectStable`).

**The registries.** `ParsedClean` is about `parseRegistryList`: the list it makes has no blank
in it, by a least counterexample over the prefixes of the flag. `RegistryInvariant` carries
that from the options to the params of the Build under construction, to what is returned and to
what was answered; no other step makes a param of one of the three names (`NoRegistries`).

**The registry mapping.** While keys are collected no key is twice in `keys`; after the sort
`keys` is a list of all of them, the longest first; in the loop no key before `k` is usable. So
the key the loop stops at is a longest usable one, and two prefixes of one length of one
reference are equal: the choice in `applyRegistryMapping` is that key.

**The names.** `ReplaceInvalid` returns only allowed characters and `TrimDashes` a sequence that
neither starts nor ends with a dash; a stem of at most `MaxBase`, a dash and a digest make a
label. Two labels with different digests differ, so two rewritten names that collide have one
digest and are one name; a kept name and a rewritten one are the gap. A valid name has no
capital, no invalid character and no dash at its ends, so each of the three steps of the
sanitizer leaves it alone (`LowerCaseKept`, `NothingToReplace`, `NothingToTrim`). The invariant
is that the owner of each resource is a converted BuildConfig whose name yields it.

**The reasons.** `trim` never goes below the last boundary that fits: the invariant is that
every boundary up to the cut is at most `kept`.

### Only model-checked

* Liveness: `MigrationEnds`, `Returns`, and the fairness in `KeepsPromise`. TLAPS has no rule
  for them here. Of the last, `StepsRunOut` is the part that is proved.
* `HistoryIndependent`, on sequences of three conversions. It compares two conversions of one
  BuildConfig, and says that each step is a function of it and the flags. An action is a relation between two states of one behaviour, so
  a proof must first restate every step as a constant function of the conversion's locals, which
  is the model once more, and then show that every earlier result is the end of such a chain.
  The parts of it that matter most are proved each by itself: the state and the reason
  (`OutcomesDecided`), the warnings (`WarningsReturned`, `WarningsAttributed`) and the fields
  that the other theorems of section 4 fix.
* What a recursive definition computes is proved only where a least counterexample will do:
  `JoinedBytes` and `parseRegistryList` are recursive functions over a prefix of a list. The
  library's induction theorems cannot be used here.

## 5. What is not modelled

* Errors that cannot occur: `json.Marshal` of strings and booleans (`triggers.go`), the flag
  parser's error (`plugin.go` 87-90) and `MarshalJSON` of an object that was just decoded
  (94-97), and the default branch on an unknown outcome (129-134), which no outcome of
  `Convert` reaches.
* Wording and log levels, and `stripSerializationNoise`, which removes zero fields of Go
  structs. A decline reason is a name for its text; that the text is cut is modelled by which
  reasons are too long (`CutReasons`), the cut itself in `ReasonTruncation`.
* The content of env vars and of volume sources, which are copied whole; the sizes of the
  annotations other than the warnings.
* The hash of a generated name: a function, collision-free on the instance.
* crane: external. `Migration` has what the plugin and its decisions count on (a process per
  object, any order, last write wins, an error stops the migration, RFC 6902 "add"); its other
  stages, its other plugins, its files and its flags are left out.
* The e2e and minikube scripts, and the catalog of strategies.

## 6. What is left

The plan was: `Convert` with its parts, `BoundedWarnings`, `ImageRefs` and `Conversion`; then
`Disposition` and `Plugin`, `Migration` with `Disposal`, `Names`, `RegistryMapping` and
`ReasonTruncation`, all of which are here, with the proofs of section 4. Worth doing next:

1. `HistoryIndependent` for any number of conversions, with the steps written as functions that
   the actions then use;
2. the annotation sizes together, against the 256 KiB of Kubernetes.
