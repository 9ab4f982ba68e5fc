# A verification model of jwxmigrate

jwxmigrate finds the places where a Go project uses jwx v3 (or v2) and, with
`--fix`, rewrites those it can. It runs on trees people care about, so what is
modelled here is what a user has to rely on: that the scan misses nothing and
says so when it cannot tell, that a rewrite leaves every file whole, that the
`go.mod` files end up at versions the rewritten code compiles with, and what
the exit code can be relied on for.

Line numbers refer to files under `src/`.

## Inventory

| Part | Source | State | Operations |
|------|--------|-------|------------|
| Rule floors | `version_floor.go`, parts of `fix_absorb.go`, `fix_gomod.go` | none, pure functions of the rules | required version, unmet floors, companions, absorbed modules, whole-module rewrites |
| go.mod rewriter | `fix_gomod.go` | the parsed file, `applied` | four steps over the require block, then a write |
| Fix batch | `main.go:96-298` | `firedByRoot`, `summary` (failures, remaining, tidy directories) | handle each Go file, then each go.mod, then `go mod tidy`, then the exit code |
| Atomic rewrite | `fix.go:150-245` | the file system: target, `.bak`, temporary file | format, stat, backup, temp, write, fsync, close, chmod, rename |
| Edit planning | `fix.go:69-148, 264-494, 676-787, 1478-1524`, `fix_absorb.go` | the list of tagged edits | collect, inject imports, deduplicate, correlate with findings, splice |
| Go file scan | `ast_scanner.go:304-554`, `check.go:127-223` | `coveredFiles`, `prescans` and `perModule` slots, a mutex and a channel | a goroutine pool over modules, then two untyped passes |
| Version-floor pass | `version_floor_pass.go`, `gomod_state.go`, `check.go:60-94`, `main.go:60-94` | the module state cache, `fired` per module | gate each finding, add a finding per unmet floor, the exit code |
| Build file scan | `check.go:225-361` | slots per file | a walk, then a goroutine pool over files |
| Typed file cache | `ast_scanner.go:115-306`, `main.go:300-319`, `fix.go:69-95` | overlay, cache of parsed files | snapshot, load once per batch, look up per file |
| Matching in a file | `ast_scanner.go:556-1055` | none | what the rules report in one file, with types or without |
| Type-aware fixers | `fix.go:264-1475`, `fix_absorb.go` | none | what `--fix` makes of one file |
| Rules and matchers | `rules.go`, `ast_derive.go`, `ast_matcher.go` | none | YAML to compiled rules |
| Command line, output | `main.go`, `check.go` | none | flags, text and JSON |

How they interact. `check` runs the Go file scan and the build file scan and
hands their findings to the version-floor pass. `--fix` runs the edit planner
on each Go file, the atomic rewrite on what it produced, records which rules
fired in which module, and only then runs the go.mod rewriter with those
rules. Both sides share the rule floors and the search for the nearest
`go.mod`. Between one invocation and the next only the disk survives, and with
it the versions the `go.mod` files provide, on which it depends what the type
checker can tell the next run. `check` and `--fix` match the same rules, but
with two walks written apart (`scanGoFileAST`, `collectEdits`).

What is hard. The order of the batch decides what the go.mod rewriter knows,
and none of that survives a failure. Loops over Go maps run in any order. The
scan shares a map among goroutines and divides the files between three passes
by different criteria. Edits of different rules overlap. A batch rewrites the
imports that the types of later files come from, and a file may be loaded with
types in one run and without them in the next. A rewrite may be cut
short by an error, a kill or a power failure, and other programs save files
meanwhile.

## Modules

| Module | What it is |
|--------|------------|
| `JwxRules` | the rules and the functions computed from them; CONSTANTS `Rules`, `Module`, ... |
| `GoModResult` | the result of the four steps as functions of the whole block, free of loop order |
| `GoModSpec` | abstract specification: an invocation rewrites the file to that result, keeps it, or fails |
| `GoModFix` | `fixGoMod` loop iteration by loop iteration |
| `FixBatch` | invocations of `--fix` over several modules, with faults, kills and reruns; composes with the go.mod rewriter through `FixedRequires` |
| `AtomicReplace` | abstract specification: a file is replaced in one step or not at all |
| `AtomicWrite` | the system calls of `writeFormatted` on a file system with a cache |
| `EditPlan` | the edits of one Go file |
| `RuleMatch` | derivation of matchers, what a file's references match, what each fixer makes of them; CONSTANT `Migrations` |
| `TypedBatch` | a batch, a check and a second batch over one package, as far as types decide; composes with `RuleMatch` |
| `SourceTree` | directories, what a walk enters and lists (`Among`), module roots, the owner of a file |
| `CheckScan` | the concurrent scan of Go files, then of build files |
| `FloorPass` | what Check makes of the findings; composes `SourceTree` and `GoModResult` |
| `JwxRulesProofs` | lemmas about the functions of the rules, shared by the next three |
| `GoModFixProofs`, `FixBatchProofs`, `FloorPassProofs`, `AtomicWriteProofs`, `EditPlanProofs`, `CheckScanProofs`, `TypedBatchProofs` | theorems about the module they are named after |
| `MC*` | instances for TLC |

Correspondence with the code.

* `JwxRules`. Operators have the names of the Go functions. A version is its
  rank in semver order, 0 stands for `""`. `Requires` is the require block as
  a total function. Paths are module paths already: `modulePathOf` and the
  major-version check are done to the constants.
* `GoModFix`. `Read` is the read and the parse; `Swap`, `Raise`, `Drop`, `Add`
  are one loop iteration of the four steps each, the `...Done` actions the end
  of the loop; `Write` is cleanup, format, stat and the atomic write, any of
  which may fail. Steps that range over maps pick any element.
* `FixBatch`. A Go file is what the rules match in it (rule, line, whether the
  fixers edit it) and what it imports; both change in one step, `FixSource`,
  with the failure, `summary.remaining` and `recordFired`. `Reported` is the
  correlation of edits and findings by rule and line (`fix.go:104-123`). Which
  matches an edited file is left with is open: any that `Outcomes` allows, that
  is, matches of rules that were left unedited in it or that its edits write
  (`Uncovers`, as `DecoderSettings` to `Settings`). `before` is a history
  variable, the files as the invocation found them. `FixGoMod` is `handle` of a
  `go.mod`. The Go files are
  picked in any order, the code takes them in walk order: that only adds
  behaviours. `TidiedRequires` is `go mod tidy`, which is not part of the
  repository: it drops unimported modules and adds missing ones at their
  latest version.
* `AtomicWrite`. One action per system call, named after it, each with a
  failing outcome. The file system (inodes, what is cached and what is on the
  medium, the directory) is external.
* `EditPlan`. `collectEdits` is an operator over an opaque text of cells, and
  `Dedupe` and `ApplyEdit` are one iteration each of the loops. `sort.Slice`
  is not stable, so edits that compare equal come in any order. What a fixer
  returns for a call site is part of the input.
* `CheckScan`. A goroutine's iteration is cut where another can interfere:
  taking a job, the prescan, the load, the second read of the files, taking
  the mutex, releasing it. The update of the shared map is a read and a
  write-back, so that a missing mutex would lose entries. `packages.Load` is
  external: any of the packages asked for may come back typed, if its files
  can be read at that time. A file imports jwx or not, and may have a syntax
  error above or below its imports. `moduleRoots` is what `findModuleRoots`
  returned, once for the run. The build files follow: the same goroutines
  stand for the second pool, `scanFile` is one file of it. `Vanish` takes a
  file's read permission.
* `RuleMatch`. A file is a set of imports and a set of sites, one reference on
  a line of its own each, with what the matchers and fixers look at: receiver,
  name, how it is used, the shape of the arguments and of the statement.
  Operators have the names of the Go functions; the `...Fixable` operators are
  the conditions under which a fixer claims a call, so `SignatureFix` is the
  chain of `fixCall` in its order. A fix is the set of sites that replaces a
  site. The text of a type, the name of a temporary and the layout are left
  out, and so is what several references in one statement do to each other,
  which is the subject of `EditPlan`.
* `TypedBatch`. `Begin` takes the snapshot, `buildTypedFileCache` is the whole
  load (its goroutines fill the map under a mutex, and the entry of a file does
  not depend on their order), `FixFileWithOptions` one file from look-up to
  write, `EndBatch` what may become of the `go.mod`. The type checker is
  external: a type is known when the module provides the package its
  declaration imports, in whichever file the declaration is. Any file may come
  back without types.
* `FloorPass`. `Gate` is one iteration of `applyVersionFloors`, look-up, cache
  update, gating and `fired` together.

## Runs and bounds

| Run | Shows |
|-----|-------|
| `gomod_fix` | every subset of six rules, every go.mod of `MCGoMods`, two invocations: refinement of `GoModSpec`, floors met, only versions of fired rules, second run changes nothing |
| `fix_batch` | two modules, three Go files, two targets, two invocations, a fault or a kill at any point: where exit code 0 may leave a match, isolation of files and modules, termination |
| `atomic_write` | all failures, kills and power failures with one concurrent program: refinement of `AtomicReplace`, modes, backup, leftovers |
| `edit_plan` | four files, every subset of six rules: disjoint edits, splicing as substitution, what the written text imports, reports |
| `check_scan` | two goroutines, up to three modules, five Go files and five build files, every set of typed packages, one file becoming unreadable: every file scanned once by its own module, order, coverage, termination |
| `typed_batch` | two files, 15 rules of v3-to-v4 and 6 of v2-to-v4, main.go made of one of the pieces of code, of two that meet, or of all; every set of typed files, what the go.mod provides afterwards in every combination; a fix, a check, a fix: with types `--fix` edits only what `--check` reports, no file depends on what the batch has rewritten, a second fix is idle, what remains is found again |
| `floor_pass` | all lists of at most three findings, nested modules, one save of a go.mod: gating, floors, `--fix` meets what was reported |

Why these bounds are enough. For the go.mod rewriter the interesting cases are
two rules that concern one path and a rule that feeds another step; the six
rules contain each kind and each such pair, and the versions below, at and
above every floor. For the batch, two modules are needed for independence, two
files in one of them for a failure between them, two runs for a retry, one
fault for what the retry makes of it. A file starts as one of two: with a call
into an absorbed extension left for a person, or with two calls of a rule on
one line, one of which the fixer gives up on. The theorems of `FixBatchProofs`
hold for any number of faults. For the scan two goroutines and three jobs
have a goroutine come back for a second job while the other still runs. For
the floor pass three findings are two in one directory, with a save between
them, and one elsewhere. For the typed batch a second file is what a type may
come from and a batch may have rewritten first. A piece of code is there for
each matcher kind, each fixer and each way a fixer gives up; rules meet on one
reference or on the imports, so pairs of pieces that share an import are enough,
and all pieces at once stand for a full file. `MaxRuns = 2` is the second run.

Bounds by name: `MaxRuns`, `MaxFaults`, `MaxEdits`, `HighestRank`, and the sets
given in the MC modules. Deadlock is checked in every run; a finished model
stutters in `Finished`.

Each property of a passing run has a mutant, a definition of the same
module named after what it changes (`Sync_Skipped`, `RaiseDone_Early`,
`Merge_NoWait`), with which TLC finds the property violated.

### Disagreements between the code and what is said of it

Each of these runs checks one property that a comment, a test or a document
states, and TLC finds it violated by what the code does. `PROJECT.json` quotes
the lines.

| Run | Property | In short |
|-----|----------|----------|
| `gomod_downgrade` | `NeverDowngraded` | with v3 and a newer v4 both required, v4 is written back |
| `fix_batch_retry_floors` | `RerunMeetsFloors` | after a failed go.mod step the next run forgets the floors |
| `edit_plan_collision` | `AbsorbedImportIsAdded` | an import inserted where the path of another is replaced is overwritten |
| `edit_plan_outrun` | `RemovalNeverOutrunsRewrites` | a re-qualification is deduplicated away, the import removal stays |
| `typed_batch_edits` | `EditsAreReported` | without types, `os.ReadFile` is rewritten to `os.ParseFS` |

The texts that `edit_plan_outrun` and `edit_plan_collision` end with still have
to pass `format.Source`, which refuses some of them: then the file fails with an
error and is unchanged. With paths of equal length, as `jwx/v3/jwk`,
`jwx/v4/jwk` and `jwx/v4/jwa` are, the text of a collision is well-formed.

Other disagreements, met while modelling and kept out of the runs:

* `forFile` looks a file up by its directory and reads a `go.mod` once per
  directory of a module; `version_floor_pass.go:10` says at most once per run.
* `findModuleRoots` (`ast_scanner.go:380`) and `check.go:187` filter the root of
  the walk too, so the Go files below a directory named `.x` or `vendor` are not
  scanned when the tool is run on it; `main.go:371` guards against this in
  `--fix` only. `SourceTree` models it, and the instances of the passing runs
  have a top directory with an ordinary name.
* A `go mod tidy` that failed is not tried again by the next run
  (`main.go:198`), which can then exit with 0 on a module that does not build.
* A rule that was only reported counts as fired, so an extension's require is
  dropped while a file still imports it (`main.go:276`, `fix_gomod.go:150`;
  compare `fix_absorb_test.go:191`).
* `--fix` does not look at `requires.go`; `agents/docs/version-floors.md:145`
  says it "suppresses the rule entirely".
* Exit code 0 of `--fix` does not mean "No v3 patterns found"
  (`README.md:43`). Edits are matched to findings by rule and line
  (`fix.go:118`): of two matches on one line, one of them edited, neither is
  reported, which `fix.go:97` promises for "every finding that did NOT receive
  an edit"; and renaming `DecoderSettings` to `Settings` makes a match of
  `settings-returns-error` that the same run does not list.
  `ExitZeroLeavesOnlyEdited` says what it does mean, with both cases in it.
* With types, a rule for all packages misses calls like `jwt.ReadFile(...)`:
  `isJwxType` has no type for an identifier that names a package
  (`ast_scanner.go:760`). Scan and fixer leave it out alike; without types both
  find it, and `v3-to-v4.yaml:297` says the rule "applies to jwk, jws, jwe, and
  jwt packages".
* `prescanModule` (`ast_scanner.go:444`) passes over a file it cannot open and
  no later pass looks at it; `README.md:45` lists unreadable files among the
  errors.
* `ensureOsImport` (`fix.go:676`) does not look for an import of `os`, though
  the comment above it says so; gofmt merges the two.
* `fixGetToField` asks for an import (`fix.go:884`) before it may give up, so a
  call it leaves alone can bring in an import nothing refers to; `fix.go:690`
  speaks of packages "that a rewrite referenced". The same happens when an
  extension imported for its side effect alone is removed: `fix_absorb.go:254`
  names rules that "re-qualified a symbol", the test at line 267 is the rule's
  kind.
* A two-argument `tok.Get(k, p)` whose second argument is not `&dst` falls
  through to the rename of `.Get` to `.Field` that `fix.go:810-815` is there to
  prevent.
* An identifier matcher has no package: a rename in `jws` also renames
  `other.Signer2` of an unrelated package (`fix.go:464-482`).
* `jwk-import-generic` leaves the list of remaining findings once it is fixed
  (`fix.go:104-128`); `fix.go:1104-1107` says it stays on it.
* A value use of a type that loses its pointer is reported as remaining by
  `--fix` and, once the import has moved, no longer by `check`.
* A file that imports only an absorbed extension, and no jwx package, is
  skipped (`ast_scanner.go:101`), where `fix_absorb_test.go:184` says the rule
  "still reports".
* The `jws-legacy` pattern has alternatives in it, which
  `importPathFromPattern` does not read: its matcher matches no import.
* A file that imports a package under both versions gets the target path twice.
* Files that do not parse are passed over by `check` and are failures of `--fix`.

## Fairness

`FixBatch` is sequential code that waits for nothing but its own calls, hence
weak fairness of the whole of `Step`; `GoModFix` has the same in `FairSpec`,
which `gomod_downgrade` uses. Kills, faults and further invocations are never
owed. In `CheckScan` each goroutine and the main goroutine are weakly
fair: the Go scheduler runs what can run; `Vanish` is not fair. The other
runs check safety only and their specifications state no fairness.

## Proofs

All theorems hold for every value of the constants that meets the assumptions
of the modules: any rule set, any number of files, modules, goroutines,
invocations and faults. `PROJECT.json` lists them with the property each
states. What each invariant says beyond the property is what the step-by-step
argument needs.

**`GoModFixProofs`**: types, floors, versions, idempotence, refinement.

* `TypeCorrect`. `TypeOK` is inductive. It rests on `JwxRulesProofs`: the maxima
  in `requiredVersionFor` and `companionRequirements` are taken over finite sets
  of versions, so they exist and are versions (by the well-foundedness of the
  natural numbers).
* `FloorsAreMet`, `VersionsAreAccountedFor`, `Implements`, from one invariant
  `LoopInv`. It gives, for each of the four loops of `fixGoMod`, what the block
  looks like with the loop half done in an order nobody knows: `SwapInv`,
  `RaiseInv`, `DropInv` and `AddInv` each compare it with the order-free function
  of `GoModResult` for that step. When the loop has nothing left to do the two
  are equal (`OutcomeInv`), so a success ends with `FixedRequires`, and the two
  properties become facts about that function. The refinement maps the write to
  the abstract rewrite and each iteration to a stutter.
* `SecondRunChangesNothing`. `SettledInv`: an invocation after a successful one
  meets a block at which none of the four loops finds anything to do
  (`Settled`), so it never reaches the write.

**`FixBatchProofs`**: the batch over faults, kills and reruns, from `BatchInv`.

* `CleanExitLeavesOnlyEdited`, `FailuresAreIsolated`. `SourceInv`: a Go file whose
  turn has not come is as the invocation found it; one the batch is through with
  has failed, or is one of the `Outcomes` of what it was, with the matches that
  are reported on record. `ImportInv`: no file imports a rewritten path without
  an import its rule can edit, so no outcome imports one. `ModInv`: a `go.mod` the batch is through with meets the
  floors of what fired and, if its whole module was handled, requires no
  rewritten path; `go mod tidy` cannot bring one back because no file imports
  one.
* `FirstRunIsEnough`. `FiredInv`: what fired in a module was applied or is reported
  there, and in a first run everything applied has fired, which is what a second run loses (`fix_batch_retry_floors`).
* `NoModuleMovesAnother`, an action property, from the same types.

**`FloorPassProofs`**, from `PassInv`.

* `FindingsAreGatedByTheirModule`, `DirectoryGetsOneAnswer`. `CacheInv`: whatever
  the cache says of a directory was once in the `go.mod` of the module that
  owns it. `GateInv`: it still holds the answer each finding was gated with.
* `FloorsAreTheModules`. `FiredInv`: a rule has fired in a module exactly when one
  of its findings there is kept.
* `FixDoesIt` is a fact about `FixedRequires`: on its result no rule that fired
  has a floor unmet (a lemma on the four steps, shared with `FloorsAreMet`).

**`AtomicWriteProofs`**.

* `TargetStaysWhole`, `ModeStays`, `ErrorsAreHarmless`, `TypeCorrect` and
  `Refines`, from `ReplaceInv`: which inode each name has (`TargetInv`), what
  each inode holds before and after the sync (`ContentInv`) and its mode
  (`ModeInv`), for each place in the sequence of calls. The refinement maps
  `Rename` to the abstract replacement and every other call to a stutter.
* `BackupIsWhatWasReplaced`, `SuccessLeavesNoLitter`, from `KeepInv`: until the
  rename the backup has what the target has, unless another program has saved.

**`EditPlanProofs`**, from `PlanInv`, for whatever edits the fixers return.

* `AppliedEditsAreDisjoint`, `OnlyOverlapsAreDropped`. `deduplicateEdits` compares
  an edit with the last one kept only. `KeptInv`: what is kept is in order and
  apart, and nothing pending comes before the last; so an edit clear of the
  last is clear of all, and one that overlaps is dropped for one that is kept.
* `RequalifiedFindImport`, of the text that is written. The edit that brings in
  an import may be lost like any other; it is kept because it goes where no
  other edit is, at a spec that stays (`insertAnchor`), above the code
  (`ImportIsKept`). That the text then has it comes from `TextInv` below: the
  new text of an edit at any offset is in it (`PieceInText`), and a path imported
  already is in it still (`ImportStays`). Excluded, as in `SplicingIsSubstitution`,
  are two edits that start together: `edit_plan_collision` shows what may happen.
* `NothingIsLostSilently`. `ReportInv`: the findings left are those no kept edit
  is for.
* `ApplyingSubstitutes`. `applyEdits` splices from the last edit to the first, at
  offsets of the original text, into a text that has meanwhile changed.
  `TextInv`: the text so far is the original with the edits made so far made at
  once (`Substitute`, a recursive function over the offsets), and every edit to
  come starts before them. `SpliceIsSubstitute` is the step: up to an edit that
  starts before all others the two texts are the same (`MadeBefore`), in its
  range the new text stands for the old (`MadeWithin`), and behind it both go
  on alike (`MadeAfter`). It is an induction along the offsets, which `Induction`
  and `Recursion` make possible as in `CheckScanProofs`.

**`CheckScanProofs`**: the scan for any tree, any number of goroutines, whatever
`packages.Load` returns and whichever files vanish. Four invariants, each on top
of the one before.

* `ScanInv`: types; a goroutine at work has an index below `next` that no other
  has; the one between the lock and the unlock holds the mutex; the module roots
  are those of the walk; a slot of the build scan is empty or holds its file.
* `FiledInv` gives `CoverageGrows` and `OwnerScans`. `ViewInv`: what the holder of
  the mutex has read of the map is still all of it, so the write-back only adds.
  `OwnerInv`: a prescan, a load and a slot hold files of their module in the
  order of the walk. That this module is the file's owner is a fact about
  prefixes (`WalkOfOwner`): a walk that stops at every `go.mod` stays among the
  directories its root is the nearest `go.mod` of, so no file is in two modules.
* `FoundInv` gives `OrderIsOfWalk` and `TypeCorrect`. `Sorted` compares any two
  findings of the list, an untyped finding follows every typed one, and a file
  is in the rest of a pass only if it is not reported yet. It already implies
  that nothing is reported twice.
* `SeenInv` gives `EachReportedOnce`. `SlotsInv`: once a module is through, each of
  its files that is still readable is in its prescan, and a covered file is in
  the slot of its module. `PassInv`: what a pass has left behind is reported.
  `PoolInv`: the same of the slots of the second pool.

The theorem has the hypothesis `~ shouldSkipWalkDir(TopDir)`: without it the walk
of the Go files does not even enter the top directory and the property is false
(see the second of the other disagreements above).

The filtered and concatenated sequences are recursive functions (`Among`, and
`FlattenSeq` of the community modules). `LeastExists` and `Induction` derive
induction over a range of the naturals, for sets, from the well-foundedness of
their order; with it `Recursion` shows that such a function exists, `AmongIs` and
`FlattenIs` what the two return: the elements, and their order.

**`TypedBatchProofs`**, for any rules and whichever files come back with types.

* `FixedAsIfAlone`, with matchers and fixers left open. `TurnInv`: a file is as
  the batch found it until its turn comes, and what it would be had it been
  fixed alone after. `OverlayInv` says why: every entry of the cache was computed
  from what was on disk when the batch began.
* `EditedIsReported`. The two walks over a file are written apart: `ScanMatches`
  looks at a call's arguments and `FixMatches` does not, and the references of
  an absorbed extension are found by a walk of their own. `EditIsReported`
  compares them for one file: where only the scan has a guard, the fixers of the
  rules concerned leave the call alone (`ArgumentsAgree`); a reference that
  follows an absorbed import is one the derived matchers find by path and name
  (`AbsorbedIsFound`). `ReportedInv` carries it over the batches; what each file
  was parsed as comes from the invariant above. Without types it is false
  (`typed_batch_edits`), as the scan then looks at the receiver of a method and
  the fixers do not.
* `TypeCorrect`. With `OverlayInv` also for the cache: while a batch runs, it
  holds the files as the batch found them.

What the proofs assume. Besides types of the constants:

| Assumption | In | Says |
|------------|----|------|
| `FloorsAscend` | `GoModFix` | of two rules, the later one's floor is not lower; step 2 compares with the versions before its loop and writes each floor outright |
| `RewritesIndependent` | `JwxRules` | a path is rewritten by one rule and is no rewrite's target |
| `CompanionFloors` | `JwxRules` | floors of companions come from the rules that move code there; step 4 looks at no others |
| `CompanionsStay` | `JwxRules` | a companion is neither absorbed nor rewritten; step 4 would add it back each time |
| `ContentsAssumption` | `FixBatch` | a file that imports a rewritten path has an import that its rule edits |
| `NoWayBack` | `FixBatch` | no rule leads to a path that another rewrites |
| `TreeAssumption` | `SourceTree` | directories are paths; a walk lists every directory and every file once, and every file is in one of the directories |
| `TreesAssumption` | `CheckScan` | a `go.mod` and a build file are in one of the directories; the walk lists a build file once, and it is no Go file |
| `BatchAssumption` | `TypedBatch` | a walk lists every file once |
| `RuleMatchAssumption` | `RuleMatch` | of the two rules whose ID the scan knows, one changes the signature of `Parse` or `ParseString`, the other is behavioral; for a mechanical rule of another kind `--fix` would edit calls that `ruleArgPredicateOK` keeps from the report |
| `FilesAssumption` | `EditPlan` | specs and edits lie inside the text; the path of a spec is a cell of it |
| `TargetsAssumption` | `EditPlan` | what an extension is absorbed into is itself neither renamed nor absorbed |
| `ImportsAssumption` | `EditPlan` | imports stand above the code, one per line; a file imports a jwx package, which no rule absorbs |

`FloorsAscend` to `NoWayBack`, `RuleMatchAssumption` and `TargetsAssumption` are
properties of the rule files, which satisfy them and which nothing in the code enforces. TLC evaluates all of them.

Only model-checked:

* Termination (`BatchEnds`, `ScanEnds`): liveness under fairness, beyond the prover.
* `SecondRunChangesNothing` (with its second part, that no two rules edit one
  reference) and `RemainingIsFoundAgain` of `TypedBatch`: they are about the
  shipped rules and false for others.
* The disagreements below `Runs and bounds`, which are counterexamples.

## Not modelled

* YAML, regular expressions and the texts that fixers write (types, temporary
  names, literals taken apart). `RuleMatch` starts from patterns reduced to
  their shape; the fixture tests of the repository cover the wording.
* The rules that differ from a modelled one in names only.
* The command line, the output formats, symbolic links.
* Dot imports, and identifiers that shadow a package.
* `FixBatch` leaves open which matches an edited file is left with, within
  `Outcomes`; what the rules do to a text is the subject of `EditPlan` and
  `RuleMatch`.
* In `TypedBatch`, a save of a file between the snapshot of the overlay and the
  second read of the source.

## Plan

1. Built: rule floors, go.mod rewriter, atomic rewrite, fix batch, edit
   planning, Go file scan, build file scan, version-floor pass, matching and
   fixing in one file, the typed batch.
2. To extend: a composition of `FixBatch` and `FloorPass` that runs `check`
   after `--fix`; multi-edit groups (if-init rewrites) in `EditPlan`; `go.mod`
   read by the check pass while `--fix` runs; several references in one
   statement in `RuleMatch`.
3. To prove: for which rules the two properties of `TypedBatch` that are only
   model-checked hold.
