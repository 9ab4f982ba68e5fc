------------------------------- MODULE FixBatch -------------------------------
(***************************************************************************)
(* One or more invocations of `jwxmigrate --fix` (runFix and fixFiles,     *)
(* main.go): the Go files of the batch, then its go.mod files, then        *)
(* `go mod tidy` where a go.mod changed.  A failing file is recorded and   *)
(* the batch goes on.  The process may be killed at any point and run      *)
(* again, on the same target or on another.                                *)
(*                                                                         *)
(* A Go file is what the rules match in it, with the line of each match    *)
(* and whether FixFileWithOptions edits it, and the modules it imports.    *)
(* A go.mod is its require block; fixGoMod is FixedRequires, which         *)
(* GoModFix is checked against.                                            *)
(***************************************************************************)
EXTENDS GoModResult

CONSTANTS
    Source,      \* Go files
    Root,        \* module roots: directories with a go.mod
    NoRoot,      \* the "module" of a Go file no go.mod encloses
    RootOf,      \* moduleStateFor: the nearest enclosing root of a Go file
    Line,        \* the lines of a Go file, as far as matches share them
    Contents,    \* what a Go file may hold
    Originals,   \* what it may hold at the start
    Uncovers,    \* what a rule's edits may write matches of: [RuleId -> rules]
    GoMods,      \* what a go.mod may require at the start
    Targets,     \* the batches findFixableFiles may return, as [src, mod]
    MaxRuns,     \* bound on the number of invocations
    MaxFaults    \* bound on failing operations and kills, all runs together

Match == [rule : RuleId, line : Line, edited : BOOLEAN]
FileType == [matches : SUBSET Match, imports : SUBSET Module]

ASSUME FixBatchAssumption ==
    /\ NoRoot \notin Root
    /\ Root \cap Source = {}
    /\ RootOf \in [Source -> Root \cup {NoRoot}]
    /\ Contents \subseteq FileType
    /\ Originals \subseteq Contents
    /\ Uncovers \in [RuleId -> SUBSET RuleId]
    /\ GoMods \subseteq Requires
    /\ Targets \subseteq [src : SUBSET Source, mod : SUBSET Root]
    /\ MaxRuns \in Nat
    /\ MaxFaults \in Nat

Edited(c) == {m \in c.matches : m.edited}
Unedited(c) == c.matches \ Edited(c)
RulesOf(matches) == {m.rule : m \in matches}

\* A file that imports a path that is rewritten is matched by the rule that
\* rewrites it, and FixFileWithOptions edits any import of it.
ASSUME ContentsAssumption ==
    \A c \in Contents : \A r \in importRewriteRules :
        Rules[r].from \in c.imports => r \in RulesOf(Edited(c))

VARIABLES
    src,        \* the Go files on disk
    gomod,      \* the require blocks on disk
    pc,         \* where the process is
    batch,      \* the files of the invocation
    todo,       \* those not handled yet
    fired,      \* firedByRoot
    failures,   \* summary.failures, as the sequence of files
    remaining,  \* summary.remaining, as <<file, rule>>
    tidyDirs,   \* summary.goModDirs still to be tidied
    exit,       \* the exit code of the last invocation
    runs, faults,
    applied,    \* the rules applied to Go files of each module so far (history)
    before      \* the Go files as the last invocation found them (history)

disk == <<src, gomod>>
memory == <<pc, batch, todo, fired, failures, remaining, tidyDirs, exit>>
history == <<applied, before>>
vars == <<disk, memory, runs, faults, history>>

NoBatch == [src |-> {}, mod |-> {}]

Imported(root) == UNION {src[f].imports : f \in {g \in Source : RootOf[g] = root}}

\* A module that builds before the migration requires whatever it imports.
Init ==
    /\ src \in [Source -> Originals]
    /\ gomod \in [Root -> GoMods]
    /\ \A r \in Root : \A m \in Imported(r) : gomod[r][m] # NoVersion
    /\ pc = "idle"
    /\ batch = NoBatch /\ todo = NoBatch
    /\ fired = [r \in Root |-> {}]
    /\ failures = <<>> /\ remaining = {} /\ tidyDirs = {}
    /\ exit = "none"
    /\ runs = 0 /\ faults = 0
    /\ applied = [r \in Root |-> {}]
    /\ before = src

\* partitionGoMods puts the go.mod files last.
Start(t) ==
    /\ pc = "idle"
    /\ runs < MaxRuns
    /\ runs' = runs + 1
    /\ pc' = "sources"
    /\ batch' = t /\ todo' = t
    /\ fired' = [r \in Root |-> {}]
    /\ failures' = <<>> /\ remaining' = {} /\ tidyDirs' = {}
    /\ exit' = "none"
    /\ before' = src
    /\ UNCHANGED <<disk, faults, applied>>

Fault ==
    /\ faults < MaxFaults
    /\ faults' = faults + 1

\* Mutant: a rule fires for every module of the batch.
recordFired_Everywhere(root, rules) == [r \in Root |-> fired[r] \cup rules]

\* Rules matched in a file count as fired in the module owning it, whether
\* they were applied or only reported.
recordFired(root, rules) ==
    IF root \in Root THEN [fired EXCEPT ![root] = @ \cup rules] ELSE fired

\* What FixFileWithOptions reports as remaining: an edit stands for every match
\* of its rule on its line.
Reported(c) ==
    {m \in Unedited(c) : \A e \in Edited(c) : <<e.rule, e.line>> # <<m.rule, m.line>>}

\* The modules the edits of rule r take out of the imports.  An absorbed import
\* stays while something refers to it that is not re-qualified.
Retires(c, r) ==
    {Rules[r].from} \cup
      (IF Rules[r].kind = "extension_absorbed" /\ r \notin RulesOf(Unedited(c))
         THEN {Rules[r].ext} ELSE {})

\* Mutant: what leads nowhere is imported too.
LeadsTo_Unfiltered(r) == {Rules[r].to, Rules[r].ext}

LeadsTo(r) ==
    ({Rules[r].to} \cup (IF Rules[r].kind = "moved_to_extension" THEN {Rules[r].ext} ELSE {}))
      \ ({NoPath} \cup StdlibModule)

\* No rule leads to a path that another rule rewrites: none of the rule files
\* undoes its own migration.
ASSUME NoWayBack ==
    \A r \in RuleId, s \in importRewriteRules : Rules[s].from \notin LeadsTo(r)

Moved(c) ==
    (c.imports \ UNION {Retires(c, r) : r \in RulesOf(Edited(c))})
      \cup UNION {LeadsTo(r) : r \in RulesOf(Edited(c))}

\* Of these rules a file that was edited may still hold matches: a match that
\* was not edited stays, unless an edit runs over it, and the next run may be
\* able to edit it; and the edits write new ones.
MayMatch(c) ==
    RulesOf(Unedited(c)) \cup UNION {Uncovers[r] : r \in RulesOf(Edited(c))}

\* What FixFileWithOptions may make of a file.
Outcomes(c) ==
    IF Edited(c) = {} THEN {c}
    ELSE {[matches |-> d.matches, imports |-> Moved(c)] :
            d \in {k \in Contents : RulesOf(k.matches) \subseteq MayMatch(c)}}

\* Mutant: the first failing file ends the loop.
FixSource_Abort(f) ==
    /\ pc = "sources"
    /\ f \in todo.src
    /\ \/ /\ \E c \in Outcomes(src[f]) : src' = [src EXCEPT ![f] = c]
          /\ todo' = [todo EXCEPT !.src = @ \ {f}]
          /\ UNCHANGED <<failures, faults>>
       \/ /\ Fault
          /\ todo' = [todo EXCEPT !.src = {}]
          /\ failures' = Append(failures, f)
          /\ UNCHANGED src
    /\ UNCHANGED <<gomod, pc, batch, fired, remaining, tidyDirs, exit, runs, history>>

\* handle(f) for a Go file; one that nothing matches in stays as it is.
FixSource(f) ==
    /\ pc = "sources"
    /\ f \in todo.src
    /\ todo' = [todo EXCEPT !.src = @ \ {f}]
    /\ \/ /\ \E c \in Outcomes(src[f]) : src' = [src EXCEPT ![f] = c]
          /\ remaining' = remaining \cup {<<f, m.rule>> : m \in Reported(src[f])}
          /\ fired' = recordFired(RootOf[f], RulesOf(Edited(src[f]) \cup Reported(src[f])))
          /\ applied' = IF RootOf[f] \in Root
                          THEN [applied EXCEPT ![RootOf[f]] = @ \cup RulesOf(Edited(src[f]))]
                          ELSE applied
          /\ UNCHANGED <<failures, faults>>
       \/ /\ Fault
          /\ failures' = Append(failures, f)
          /\ UNCHANGED <<src, remaining, fired, applied>>
    /\ UNCHANGED <<gomod, pc, batch, tidyDirs, exit, runs, before>>

\* Mutant: the loop starts over when something has failed.
SourcesDone_Retry ==
    /\ pc = "sources"
    /\ todo.src = {}
    /\ pc' = IF failures = <<>> THEN "gomods" ELSE "sources"
    /\ todo' = [todo EXCEPT !.src = IF failures = <<>> THEN {} ELSE batch.src]
    /\ UNCHANGED <<disk, batch, fired, failures, remaining, tidyDirs, exit,
                   runs, faults, history>>

SourcesDone ==
    /\ pc = "sources"
    /\ todo.src = {}
    /\ pc' = "gomods"
    /\ UNCHANGED <<disk, batch, todo, fired, failures, remaining, tidyDirs, exit,
                   runs, faults, history>>

\* Mutant: a go.mod may come before the Go files of its module.
FixGoMod_Early(g) ==
    /\ pc \in {"sources", "gomods"}
    /\ g \in todo.mod
    /\ todo' = [todo EXCEPT !.mod = @ \ {g}]
    /\ gomod' = [gomod EXCEPT ![g] = FixedRequires(gomod[g], fired[g])]
    /\ tidyDirs' = tidyDirs \cup {g}
    /\ UNCHANGED <<src, pc, batch, fired, failures, remaining, exit, runs, faults, history>>

\* handle(g) for a go.mod, with firedRulesFor its module.
FixGoMod(g) ==
    /\ pc = "gomods"
    /\ g \in todo.mod
    /\ todo' = [todo EXCEPT !.mod = @ \ {g}]
    /\ LET fixed == FixedRequires(gomod[g], fired[g])
       IN  \/ /\ gomod' = [gomod EXCEPT ![g] = fixed]
              /\ tidyDirs' = IF fixed # gomod[g] THEN tidyDirs \cup {g} ELSE tidyDirs
              /\ UNCHANGED <<failures, faults>>
           \/ /\ Fault
              /\ failures' = Append(failures, g)
              /\ UNCHANGED <<gomod, tidyDirs>>
    /\ UNCHANGED <<src, pc, batch, fired, remaining, exit, runs, history>>

GoModsDone ==
    /\ pc = "gomods"
    /\ todo.mod = {}
    /\ pc' = "tidy"
    /\ UNCHANGED <<disk, batch, todo, fired, failures, remaining, tidyDirs, exit,
                   runs, faults, history>>

\* `go mod tidy` (external): unimported modules go, missing ones come at their
\* latest version, and what is left keeps its version.
TidiedRequires(g) ==
    [m \in Module |->
        IF m \notin Imported(g) THEN NoVersion
        ELSE IF gomod[g][m] # NoVersion THEN gomod[g][m] ELSE HighestRank]

Tidy(g) ==
    /\ pc = "tidy"
    /\ g \in tidyDirs
    /\ tidyDirs' = tidyDirs \ {g}
    /\ \/ /\ gomod' = [gomod EXCEPT ![g] = TidiedRequires(g)]
          /\ UNCHANGED <<failures, faults>>
       \/ /\ Fault
          /\ failures' = Append(failures, g)
          /\ UNCHANGED gomod
    /\ UNCHANGED <<src, pc, batch, todo, fired, remaining, exit, runs, history>>

\* Mutant: call sites that need a hand do not count.
Exit_FailuresOnly ==
    /\ pc = "tidy"
    /\ tidyDirs = {}
    /\ pc' = "idle"
    /\ exit' = IF failures # <<>> THEN "issues" ELSE "clean"
    /\ UNCHANGED <<disk, batch, todo, fired, failures, remaining, tidyDirs,
                   runs, faults, history>>

\* The exit code of runFix: clean is 0, issues is 1.
Exit ==
    /\ pc = "tidy"
    /\ tidyDirs = {}
    /\ pc' = "idle"
    /\ exit' = IF failures # <<>> \/ remaining # {} THEN "issues" ELSE "clean"
    /\ UNCHANGED <<disk, batch, todo, fired, failures, remaining, tidyDirs,
                   runs, faults, history>>

\* The process is killed: what it had in memory is lost.
Kill ==
    /\ pc # "idle"
    /\ Fault
    /\ pc' = "idle"
    /\ batch' = NoBatch /\ todo' = NoBatch
    /\ fired' = [r \in Root |-> {}]
    /\ failures' = <<>> /\ remaining' = {} /\ tidyDirs' = {}
    /\ exit' = "none"
    /\ UNCHANGED <<disk, runs, history>>

Finished == pc = "idle" /\ runs = MaxRuns /\ UNCHANGED vars

Step ==
    \/ \E f \in Source : FixSource(f)
    \/ SourcesDone
    \/ \E g \in Root : FixGoMod(g)
    \/ GoModsDone
    \/ \E g \in Root : Tidy(g)
    \/ Exit

Next ==
    \/ \E t \in Targets : Start(t)
    \/ Step
    \/ Kill
    \/ Finished

Spec == Init /\ [][Next]_vars

FairSpec == Spec /\ WF_vars(Step)

-----------------------------------------------------------------------------

TypeOK ==
    /\ src \in [Source -> FileType]
    /\ gomod \in [Root -> Requires]
    /\ pc \in {"idle", "sources", "gomods", "tidy"}
    /\ batch \in [src : SUBSET Source, mod : SUBSET Root]
    /\ todo \in [src : SUBSET batch.src, mod : SUBSET batch.mod]
    /\ fired \in [Root -> SUBSET RuleId]
    /\ failures \in Seq(Source \cup Root)
    /\ remaining \subseteq Source \X RuleId
    /\ tidyDirs \subseteq batch.mod
    /\ exit \in {"none", "clean", "issues"}
    /\ runs \in 0 .. MaxRuns
    /\ faults \in 0 .. MaxFaults
    /\ applied \in [Root -> SUBSET RuleId]
    /\ before \in [Source -> FileType]

SourcesOf(g) == {f \in Source : RootOf[f] = g}

\* What exit code 0 after --fix promises, whatever failed or was killed before.
\* A file that this run did not edit holds no match.  One that it edited holds
\* none but of the rules it was edited for, on whose lines a second match goes
\* unreported, and of those whose matches these edits write.  No go.mod whose
\* module was handled as a whole requires a path that was to be replaced.
ExitZeroLeavesOnlyEdited ==
    exit = "clean" =>
        /\ \A f \in batch.src :
              RulesOf(src[f].matches) \subseteq
                  UNION {{r} \cup Uncovers[r] : r \in RulesOf(Edited(before[f]))}
        /\ \A g \in batch.mod : \A r \in importRewriteRules :
              SourcesOf(g) \subseteq batch.src => gomod[g][Rules[r].from] = NoVersion

\* Because the go.mod files come last, the version written to one meets the
\* floor of every rule applied to any file of its module in the same run.
AppliedFloorsMet(g) ==
    \A r \in applied[g] : \A m \in Module :
        gomod[g][m] # NoVersion => Rules[r].floors[m] <= gomod[g][m]

FirstRunMeetsFloors ==
    (exit = "clean" /\ runs = 1) => \A g \in batch.mod : AppliedFloorsMet(g)

\* The same across runs: a tree that --fix ends up calling clean meets the
\* floors of the rules it was taken through, however many runs that took.
RerunMeetsFloors ==
    exit = "clean" => \A g \in batch.mod : AppliedFloorsMet(g)

ReportedIn(g) == {r \in RuleId : \E f \in SourcesOf(g) : <<f, r>> \in remaining}

\* A rule that matches only in another module of the batch never moves a
\* version here: what is written over a version is the baseline, or a floor
\* of a rule applied to this module's files or reported in them by this run.
ModulesIndependent ==
    [][\A g \in Root : \A m \in Module :
          (gomod[g][m] # NoVersion /\ gomod'[g][m] \notin {NoVersion, gomod[g][m]})
             => \/ gomod'[g][m] = Baseline
                \/ \E r \in applied[g] \cup ReportedIn(g) :
                      Rules[r].floors[m] = gomod'[g][m]]_gomod

\* A failing file does not take the rest of the batch with it: by the time the
\* exit code is known every other Go file is what its fixes make of it.
FailureIsIsolated ==
    exit # "none" =>
        \A f \in batch.src :
            (\A i \in DOMAIN failures : failures[i] # f) => src[f] \in Outcomes(before[f])

\* Every invocation that is not killed comes to its exit code.
BatchEnds == [](pc # "idle" => <>(pc = "idle"))

=============================================================================
