------------------------------ MODULE CheckScan ------------------------------
(***************************************************************************)
(* The scan of a tree (Check, check.go:59-71).  checkGoFiles (check.go:    *)
(* 127-223; checkGoFilesTyped and below, ast_scanner.go:304-554): a pool   *)
(* of goroutines type-checks one module each and records the files it      *)
(* covered, then one pass scans the other files that import jwx and one    *)
(* the files outside every module.  Then checkBuildFiles (check.go:        *)
(* 225-335): a second pool scans the build files, by text.                 *)
(*                                                                         *)
(* Data abstraction: the findings of a file are the file and whether type  *)
(* information was at hand.  A file is one of FileKind: "jwx" imports jwx, *)
(* "plain" does not, "body" imports jwx and has a syntax error below its   *)
(* imports, "broken" has one above them.  packages.Load is external: any   *)
(* set of the packages asked for may come back with type information, and  *)
(* tree.untyped are the files (tests, other platforms) it never lists.     *)
(* tree.build are the other files: name, directory, and whether a rule's   *)
(* file_patterns match the name.                                           *)
(* A file may stop being readable at any time, MaxFaults times.            *)
(***************************************************************************)
EXTENDS SourceTree

CONSTANTS
    Worker,     \* GOMAXPROCS goroutines
    Trees,      \* what may be on disk: gomods, kind of each file, untyped and build files
    PrunedName, \* vendor and node_modules: dot directories hold build files
    MaxFaults,
    Nobody      \* the holder of a free mutex

FileSet == ToSet(File)
FileKind == {"jwx", "plain", "body", "broken"}

ASSUME ScanAssumption ==
    /\ Worker # {} /\ Nobody \notin Worker
    /\ MaxFaults \in Nat
    /\ PrunedName \subseteq SkippedName

\* A build file is not a Go file, and a walk lists it once.
ASSUME TreesAssumption ==
    \A t \in Trees :
        /\ t.gomods \subseteq ToSet(Dir)
        /\ t.kind \in [FileSet -> FileKind]
        /\ t.build \in Seq([name : STRING, dir : ToSet(Dir), matches : BOOLEAN])
        /\ \A i, j \in DOMAIN t.build : t.build[i].name = t.build[j].name => i = j
        /\ \A b \in ToSet(t.build) : b.name \notin FileSet

VARIABLES
    tree,          \* [gomods, kind, untyped, build], fixed at the start
    moduleRoots,   \* what findModuleRoots returned, in the order of its walk
    readable,      \* files that can be read now
    pc,            \* of the main goroutine
    next,          \* index of the module root, or build file, to hand out
    worker,        \* goroutine -> where it is, its job and its local results
    mu,            \* the holder of the mutex
    coveredFiles,
    prescans,      \* slot -> V3Files
    perModule,     \* slot -> findings
    perJob,        \* index of a build file -> findings
    todo,          \* files left to the current untyped pass
    findings,
    failed         \* checkGoFiles returned an error

vars == <<tree, moduleRoots, readable, pc, next, worker, mu, coveredFiles,
          prescans, perModule, perJob, todo, findings, failed>>

fixed == <<tree, moduleRoots>>
slots == <<prescans, perModule, perJob>>
main == <<pc, todo, findings, failed>>

Slot == DOMAIN moduleRoots

BuildNames == {b.name : b \in ToSet(tree.build)}

Idle == [at |-> "idle", job |-> 0, loaded |-> <<>>, found |-> <<>>, view |-> {}]

Init ==
    /\ tree \in Trees
    /\ moduleRoots = Among(Dir, findModuleRoots(tree.gomods))
    /\ readable = FileSet \cup BuildNames
    /\ pc = "feed"
    /\ next = 1
    /\ worker = [w \in Worker |-> Idle]
    /\ mu = Nobody
    /\ coveredFiles = {}
    /\ prescans = [i \in Slot |-> <<>>]
    /\ perModule = [i \in Slot |-> <<>>]
    /\ perJob = <<>>
    /\ todo = <<>>
    /\ findings = <<>>
    /\ failed = FALSE

-----------------------------------------------------------------------------
(* checkGoFilesTyped *)

\* The unbuffered channel hands the next root to a goroutine that waits for it.
Take(w) ==
    /\ pc = "feed" /\ worker[w].at = "idle"
    /\ next <= Len(moduleRoots)
    /\ worker' = [worker EXCEPT ![w] = [Idle EXCEPT !.at = "prescan", !.job = next]]
    /\ next' = next + 1
    /\ UNCHANGED <<fixed, readable, mu, coveredFiles, slots, main>>

\* prescanModule: a file that cannot be opened counts as unparseable.
V3Files(i) ==
    Among(File, {f \in ModuleFiles(moduleRoots[i], tree.gomods) \cap readable :
                   tree.kind[f] \in {"jwx", "body"}})

prescanModule(w) ==
    /\ worker[w].at = "prescan"
    /\ prescans' = [prescans EXCEPT ![worker[w].job] = V3Files(worker[w].job)]
    /\ worker' = [worker EXCEPT ![w].at = IF prescans'[worker[w].job] = <<>>
                                            THEN "idle" ELSE "load"]
    /\ UNCHANGED <<fixed, readable, next, mu, coveredFiles, perModule, perJob, main>>

\* The directories handed to packages.Load, and the files it lists in them.
Patterns(i) == {DirOf[f] : f \in ToSet(prescans[i])}

GoFiles(dirs) == Among(File, {f \in FileSet \ tree.untyped : DirOf[f] \in dirs})

\* The packages it can type-check: it reads every file of theirs.
Loadable(i) == {d \in Patterns(i) : ToSet(GoFiles({d})) \subseteq readable}

\* Mutant: a load that fails is tried again.
Load_Retry(w) ==
    /\ worker[w].at = "load"
    /\ \E typed \in SUBSET Loadable(worker[w].job) :
         worker' = [worker EXCEPT ![w].at = IF GoFiles(typed) = <<>> THEN "load" ELSE "scan",
                                  ![w].loaded = GoFiles(typed)]
    /\ UNCHANGED <<fixed, readable, next, mu, coveredFiles, slots, main>>

\* packages.Load, and the packages without type information are passed over.
Load(w) ==
    /\ worker[w].at = "load"
    /\ \E typed \in SUBSET Loadable(worker[w].job) :
         worker' = [worker EXCEPT ![w].at = IF GoFiles(typed) = <<>> THEN "idle" ELSE "scan",
                                  ![w].loaded = GoFiles(typed)]
    /\ UNCHANGED <<fixed, readable, next, mu, coveredFiles, slots, main>>

\* A file is covered before it is read again, and the failure of that read is
\* swallowed.
ScanLoaded(w) ==
    /\ worker[w].at = "scan"
    /\ worker' = [worker EXCEPT ![w].at = "lock",
                                ![w].found = Among(worker[w].loaded,
                                   {f \in readable \cap FileSet : tree.kind[f] \in {"jwx", "body"}})]
    /\ UNCHANGED <<fixed, readable, next, mu, coveredFiles, slots, main>>

\* Mutant: the map is updated without taking the mutex.
Acquire_Unlocked(w) ==
    /\ worker[w].at = "lock"
    /\ mu' = w
    /\ worker' = [worker EXCEPT ![w].at = "unlock", ![w].view = coveredFiles]
    /\ UNCHANGED <<fixed, readable, next, coveredFiles, slots, main>>

\* addCovered updates the shared map: read it, then write it back.
Acquire(w) ==
    /\ worker[w].at = "lock" /\ mu = Nobody
    /\ mu' = w
    /\ worker' = [worker EXCEPT ![w].at = "unlock", ![w].view = coveredFiles]
    /\ UNCHANGED <<fixed, readable, next, coveredFiles, slots, main>>

\* Mutant: one slice for all the modules, in the order they finish.
Release_Shared(w) ==
    /\ worker[w].at = "unlock"
    /\ coveredFiles' = worker[w].view \cup ToSet(worker[w].loaded)
    /\ mu' = Nobody
    /\ perModule' = [perModule EXCEPT ![1] = @ \o worker[w].found]
    /\ worker' = [worker EXCEPT ![w] = Idle]
    /\ UNCHANGED <<fixed, readable, next, prescans, perJob, main>>

\* The slot is written after the unlock; nobody reads it before wg.Wait.
Release(w) ==
    /\ worker[w].at = "unlock"
    /\ coveredFiles' = worker[w].view \cup ToSet(worker[w].loaded)
    /\ mu' = Nobody
    /\ perModule' = [perModule EXCEPT ![worker[w].job] = worker[w].found]
    /\ worker' = [worker EXCEPT ![w] = Idle]
    /\ UNCHANGED <<fixed, readable, next, prescans, perJob, main>>

\* A finding: the file, and how it was scanned.
Typed(files) == [i \in DOMAIN files |-> [file |-> files[i], typed |-> TRUE]]

\* Mutant: the slots are merged as soon as the last root is handed out.
Merge_NoWait ==
    /\ pc = "feed" /\ next > Len(moduleRoots)
    /\ findings' = FlattenSeq([i \in Slot |-> Typed(perModule[i])])
    /\ todo' = FlattenSeq(prescans)
    /\ pc' = "untyped"
    /\ UNCHANGED <<fixed, readable, next, worker, mu, coveredFiles, slots, failed>>

\* close(jobs) and wg.Wait, then the slots are merged in order.
Merge ==
    /\ pc = "feed" /\ next > Len(moduleRoots)
    /\ \A w \in Worker : worker[w].at = "idle"
    /\ findings' = FlattenSeq([i \in Slot |-> Typed(perModule[i])])
    /\ todo' = FlattenSeq(prescans)
    /\ pc' = "untyped"
    /\ UNCHANGED <<fixed, readable, next, worker, mu, coveredFiles, slots, failed>>

-----------------------------------------------------------------------------
(* checkGoFiles *)

\* parseGoFile and scanGoFileAST on the next file of the pass.
parseGoFile(f) ==
    IF f \notin readable
      THEN /\ failed' = TRUE
           /\ pc' = "done"
           /\ UNCHANGED findings
      ELSE /\ findings' = IF tree.kind[f] = "jwx"
                            THEN Append(findings, [file |-> f, typed |-> FALSE])
                            ELSE findings
           /\ UNCHANGED <<pc, failed>>

\* Mutant: the second pass scans the covered files again.
ScanUncovered_All ==
    /\ pc = "untyped" /\ todo # <<>>
    /\ todo' = Tail(todo)
    /\ parseGoFile(Head(todo))
    /\ UNCHANGED <<fixed, readable, next, worker, mu, coveredFiles, slots>>

\* Phase 2a: what the prescans found and packages.Load did not cover.
ScanUncovered ==
    /\ pc = "untyped" /\ todo # <<>>
    /\ todo' = Tail(todo)
    /\ IF Head(todo) \in coveredFiles
         THEN UNCHANGED <<pc, findings, failed>>
         ELSE parseGoFile(Head(todo))
    /\ UNCHANGED <<fixed, readable, next, worker, mu, coveredFiles, slots>>

\* The files checkBuildFiles collects; its walk always enters the top directory.
BuildJobs ==
    Among(tree.build, {b \in ToSet(tree.build) :
                         /\ b.matches /\ IsPrefix(TopDir, b.dir)
                         /\ \A d \in Below(TopDir, b.dir) : Last(d) \notin PrunedName})

StartBuild ==
    /\ pc' = "build" /\ next' = 1
    /\ perJob' = [i \in DOMAIN BuildJobs |-> <<>>]

\* Phase 2b is not needed when the top directory is itself a module.
StartOrphans ==
    /\ pc = "untyped" /\ todo = <<>>
    /\ IF TopDir \in ToSet(moduleRoots)
         THEN StartBuild /\ UNCHANGED todo
         ELSE pc' = "orphans" /\ todo' = OrphanFiles(tree.gomods) /\ UNCHANGED <<next, perJob>>
    /\ UNCHANGED <<fixed, readable, worker, mu, coveredFiles, prescans, perModule, findings, failed>>

ScanOrphan ==
    /\ pc = "orphans" /\ todo # <<>>
    /\ todo' = Tail(todo)
    /\ parseGoFile(Head(todo))
    /\ UNCHANGED <<fixed, readable, next, worker, mu, coveredFiles, slots>>

EndOrphans ==
    /\ pc = "orphans" /\ todo = <<>>
    /\ StartBuild
    /\ UNCHANGED <<fixed, readable, worker, mu, coveredFiles, prescans, perModule, todo, findings, failed>>

-----------------------------------------------------------------------------
(* checkBuildFiles *)

TakeBuild(w) ==
    /\ pc = "build" /\ worker[w].at = "idle"
    /\ next <= Len(BuildJobs)
    /\ worker' = [worker EXCEPT ![w] = [Idle EXCEPT !.at = "scanFile", !.job = next]]
    /\ next' = next + 1
    /\ UNCHANGED <<fixed, readable, mu, coveredFiles, slots, main>>

\* Mutant: the goroutines share one slice.
scanFile_Shared(w) ==
    /\ worker[w].at = "scanFile"
    /\ LET name == BuildJobs[worker[w].job].name
       IN  perJob' = IF name \in readable THEN [perJob EXCEPT ![1] = Append(@, name)] ELSE perJob
    /\ worker' = [worker EXCEPT ![w] = Idle]
    /\ UNCHANGED <<fixed, readable, next, mu, coveredFiles, prescans, perModule, main>>

\* A file that fails is warned about and passed over, whatever it had given.
scanFile(w) ==
    /\ worker[w].at = "scanFile"
    /\ LET name == BuildJobs[worker[w].job].name
       IN  perJob' = IF name \in readable THEN [perJob EXCEPT ![worker[w].job] = <<name>>] ELSE perJob
    /\ worker' = [worker EXCEPT ![w] = Idle]
    /\ UNCHANGED <<fixed, readable, next, mu, coveredFiles, prescans, perModule, main>>

MergeBuild ==
    /\ pc = "build" /\ next > Len(BuildJobs)
    /\ \A w \in Worker : worker[w].at = "idle"
    /\ findings' = findings \o [i \in DOMAIN FlattenSeq(perJob) |->
                                  [file |-> FlattenSeq(perJob)[i], typed |-> FALSE]]
    /\ pc' = "done"
    /\ UNCHANGED <<fixed, readable, next, worker, mu, coveredFiles, slots, todo, failed>>

\* Another program takes away the permission to read a file.
Vanish ==
    /\ Cardinality(FileSet \cup BuildNames) - MaxFaults < Cardinality(readable)
    /\ pc # "done"
    /\ \E f \in readable : readable' = readable \ {f}
    /\ UNCHANGED <<fixed, next, worker, mu, coveredFiles, slots, main>>

Finished == pc = "done" /\ UNCHANGED vars

WorkerStep(w) ==
    \/ Take(w) \/ prescanModule(w) \/ Load(w)
    \/ ScanLoaded(w) \/ Acquire(w) \/ Release(w)
    \/ TakeBuild(w) \/ scanFile(w)

MainStep == Merge \/ ScanUncovered \/ StartOrphans \/ ScanOrphan \/ EndOrphans \/ MergeBuild

Next ==
    \/ \E w \in Worker : WorkerStep(w)
    \/ MainStep
    \/ Vanish
    \/ Finished

\* Every goroutine is scheduled; the other programs owe nothing.
Fairness ==
    /\ \A w \in Worker : WF_vars(WorkerStep(w))
    /\ WF_vars(MainStep)

Spec == Init /\ [][Next]_vars /\ Fairness

-----------------------------------------------------------------------------
(* Properties *)

Goroutine ==
    [at : {"idle", "prescan", "load", "scan", "lock", "unlock", "scanFile"},
     job : Nat, loaded : Seq(FileSet), found : Seq(FileSet), view : SUBSET FileSet]

Finding == [file : FileSet \cup BuildNames, typed : BOOLEAN]

\* A goroutine that has a job has one nobody else has, the mutex is held by
\* the goroutine that updates the map, and a slot holds files of its module.
TypeOK ==
    /\ readable \subseteq FileSet \cup BuildNames
    /\ pc \in {"feed", "untyped", "orphans", "build", "done"}
    /\ next \in 1 .. 1 + Len(moduleRoots) + Len(BuildJobs)
    /\ worker \in [Worker -> Goroutine]
    /\ \A w \in Worker : worker[w].at = "unlock" <=> mu = w
    /\ \A v, w \in Worker :
         v # w /\ "idle" \notin {worker[v].at, worker[w].at} => worker[v].job # worker[w].job
    /\ pc \notin {"feed", "build"} => \A w \in Worker : worker[w].at = "idle"
    /\ coveredFiles \subseteq FileSet
    /\ prescans \in [Slot -> Seq(FileSet)]
    /\ perModule \in [Slot -> Seq(FileSet)]
    /\ \A i \in DOMAIN perJob : ToSet(perJob[i]) \subseteq {BuildJobs[i].name}
    /\ todo \in Seq(FileSet)
    /\ findings \in Seq(Finding)
    /\ failed \in BOOLEAN

\* Below the top directory and in no vendor, node_modules or dot directory.
InScope(f) ==
    /\ IsPrefix(TopDir, DirOf[f])
    /\ \A d \in Below(TopDir, DirOf[f]) : ~ shouldSkipWalkDir(d)

Reports(f) == {i \in DOMAIN findings : findings[i].file = f}

\* What the walk of checkBuildFiles should reach: dot directories as well, but
\* nothing below a vendor or node_modules directory.
InBuildScope(b) ==
    /\ IsPrefix(TopDir, b.dir)
    /\ \A i \in DOMAIN b.dir : i > Len(TopDir) => b.dir[i] \notin PrunedName

\* The passes together scan every Go file that imports jwx once, and every
\* build file a rule is for once: whatever the modules, whichever packages
\* cannot be type-checked and however the goroutines of the two pools are
\* scheduled.  A file that vanishes takes no other file's findings with it
\* (checkGoFiles, checkBuildFiles).
ReportedOnce ==
    /\ \A f \in FileSet \cup BuildNames : Cardinality(Reports(f)) <= 1
    /\ pc = "done" /\ ~ failed =>
         /\ \A f \in readable \cap FileSet :
               tree.kind[f] = "jwx" /\ InScope(f) => Cardinality(Reports(f)) = 1
         /\ \A b \in ToSet(tree.build) :
               b.name \in readable /\ b.matches /\ InBuildScope(b) => Reports(b.name) # {}

\* The module that scans a file is the one whose go.mod moduleStateFor finds
\* for it, so it is gated by the language version it was type-checked at
\* (prescanModule, gomod_state.go).
ScannedByOwner ==
    \A i \in Slot : \A f \in ToSet(prescans[i]) \cup ToSet(perModule[i]) :
        ModuleOf(DirOf[f], tree.gomods) = moduleRoots[i]

\* The place of a file in the walk of the Go files, or of the build files.
Rank(f) ==
    IF f \in FileSet
      THEN CHOOSE i \in DOMAIN File : File[i] = f
      ELSE CHOOSE i \in DOMAIN tree.build : tree.build[i].name = f

\* "output order stays deterministic" (ast_scanner.go:332): the typed findings
\* come first, in the order of the walk of modules and of files, and those of
\* the build files last, in the order of their walk.
OutputOrder ==
    \A i, j \in DOMAIN findings :
        LET f == findings[i].file
            g == findings[j].file
        IN  i < j =>
              /\ findings[j].typed =>
                   /\ findings[i].typed
                   /\ \E m, n \in Slot :
                        /\ ModuleOf(DirOf[f], tree.gomods) = moduleRoots[m]
                        /\ ModuleOf(DirOf[g], tree.gomods) = moduleRoots[n]
                        /\ m < n \/ (m = n /\ Rank(f) < Rank(g))
              /\ f \in BuildNames => g \in BuildNames /\ Rank(f) < Rank(g)

\* No goroutine undoes what another recorded as covered (addCovered).
CoverageOnlyGrows == [][coveredFiles \subseteq coveredFiles']_vars

\* Both pools drain and every pass reaches its end (wg.Wait; check.go:143-223,
\* 319-323).
ScanEnds == <>(pc = "done")
=============================================================================
