------------------------------ MODULE TypedBatch ------------------------------
(***************************************************************************)
(* A --fix batch over one Go package and the check that follows it, as far *)
(* as type information decides what they see: the overlay of the sources   *)
(* before the batch (snapshotBatchOverlay), the typed cache built from it  *)
(* (buildTypedFileCache), each file's fix with its fallbacks               *)
(* (FixFileWithOptions) and a second batch over what the first wrote.      *)
(*                                                                         *)
(* A file is typed when packages.Load returns it with types.  A type is    *)
(* known when the module provides the package its declaration imports;     *)
(* the declaration may be in another file, whose imports the same batch    *)
(* rewrites.                                                               *)
(***************************************************************************)
EXTENDS RuleMatch, FiniteSets

CONSTANTS Order,     \* the Go files of the package, in batch order
          Trees,     \* [mig, files]: the rule set and the file contents at start
          MaxRuns    \* bound: batches

Files == Range(Order)

\* A walk lists every file once, and a file system holds all of them.
ASSUME BatchAssumption ==
    /\ Order \in Seq(Files) /\ IsInjective(Order)
    /\ \A t \in Trees : t.mig \in DOMAIN Migrations /\ DOMAIN t.files = Files
    /\ MaxRuns \in Nat \ {0}

Nothing == [typed |-> FALSE, known |-> {}, found |-> {}, edited |-> {}, remaining |-> {}, written |-> FALSE]

VARIABLES
    mig,         \* the rule set in use
    module,      \* the files lie under a go.mod
    provides,    \* which jwx the build provides: "from", "to" or "none"
    disk,        \* file -> its content
    overlay,     \* file -> its content when the batch began
    cache,       \* typed file cache: file -> ParsedGoFile
    todo,        \* files the batch has still to fix
    batches,     \* per batch: before, and file -> what its fix reported
    scan,        \* file -> what the last check saw of it
    pc

vars == <<mig, module, provides, disk, overlay, cache, todo, batches, scan, pc>>

Provided == CASE provides = "from" -> {Migrations[mig].from}
              [] provides = "to" -> {Migrations[mig].to}
              [] provides = "none" -> {}

-----------------------------------------------------------------------------
\* The packages the type of a receiver may come from: those its declaration
\* imports under the name it uses.
TypePath(view, s) ==
    IF s.x.type = NoPath THEN {}
    ELSE {i.path : i \in {j \in view[s.x.type[1]].imports : importLocalName(j) = s.x.type[2]}}

TypeKnown(view, s) ==
    \E p \in TypePath(view, s) : \E root \in Provided : IsPrefix(root, p)

parseGoFile(view, f) == [mig |-> mig, file |-> view[f], typed |-> FALSE, types |-> <<>>]

parseGoFileTyped(view, f) ==
    LET known == {s \in view[f].sites : TypeKnown(view, s)}
    IN  [mig |-> mig, file |-> view[f], typed |-> TRUE,
         types |-> [n \in {s.line : s \in known} |->
                      CHOOSE p \in UNION {TypePath(view, s) : s \in {q \in known : q.line = n}} : TRUE]]

Parsed(view, f, typed) == IF typed THEN parseGoFileTyped(view, f) ELSE parseGoFile(view, f)

Report(pf, typed) ==
    LET fixed == FixedFile(pf)
    IN  [typed |-> typed, known |-> DOMAIN pf.types, found |-> fixed.found, edited |-> fixed.edited,
         remaining |-> fixed.remaining, written |-> fixed.file # pf.file]

Init ==
    /\ \E t \in Trees : mig = t.mig /\ disk = t.files
    /\ module \in BOOLEAN /\ provides = "from"
    /\ overlay = disk /\ cache = <<>> /\ todo = <<>> /\ batches = <<>>
    /\ scan = [f \in Files |-> Nothing] /\ pc = "idle"

Begin ==
    /\ pc = "idle"
    /\ overlay' = disk /\ todo' = Order
    /\ batches' = Append(batches, [before |-> disk, report |-> [f \in Files |-> Nothing]])
    /\ pc' = IF module THEN "load" ELSE "fix"
    /\ UNCHANGED <<mig, module, provides, disk, cache, scan>>

\* Mutant: the cache of an earlier batch is used again.
buildTypedFileCache_Once ==
    /\ pc = "load"
    /\ \E loaded \in SUBSET {f \in Files : JwxImports(parseGoFile(overlay, f)) # {}} :
            cache' = IF Len(batches) > 1 THEN cache ELSE [f \in loaded |-> parseGoFileTyped(overlay, f)]
    /\ pc' = "fix"
    /\ UNCHANGED <<mig, module, provides, disk, overlay, todo, batches, scan>>

\* Files that import no jwx package are left out; so is a file the build
\* excludes, and all of them when the load fails.
buildTypedFileCache ==
    /\ pc = "load"
    /\ \E loaded \in SUBSET {f \in Files : JwxImports(parseGoFile(overlay, f)) # {}} :
            cache' = [f \in loaded |-> parseGoFileTyped(overlay, f)]
    /\ pc' = "fix"
    /\ UNCHANGED <<mig, module, provides, disk, overlay, todo, batches, scan>>

\* Mutant: the types come from what the batch has written so far.
LoadedTyped_Live(f) ==
    IF module THEN IF f \in DOMAIN cache THEN {cache[f]} ELSE {parseGoFile(disk, f)}
    ELSE {parseGoFileTyped(disk, f), parseGoFile(disk, f)}

\* Under a go.mod the cache answers; elsewhere the file is loaded by itself,
\* over the same overlay, and that may fail.
LoadedTyped(f) ==
    IF module THEN IF f \in DOMAIN cache THEN {cache[f]} ELSE {parseGoFile(disk, f)}
    ELSE {parseGoFileTyped(overlay, f), parseGoFile(disk, f)}

\* A file without jwx imports has no result.
FixFileWithOptions ==
    /\ pc = "fix" /\ todo # <<>>
    /\ LET f == Head(todo)
       IN  \E pf \in LoadedTyped(f) :
              IF JwxImports(pf) = {} THEN UNCHANGED <<disk, batches>>
              ELSE /\ disk' = [disk EXCEPT ![f] = FixedFile(pf).file]
                   /\ batches' = [batches EXCEPT ![Len(batches)].report[f] = Report(pf, pf.typed)]
    /\ todo' = Tail(todo)
    /\ UNCHANGED <<mig, module, provides, overlay, cache, scan, pc>>

\* The go.mod comes last: it is left alone, moved to the target, or moved
\* and not tidied.  Without one the build is what it was.
EndBatch ==
    /\ pc = "fix" /\ todo = <<>>
    /\ provides' \in IF module THEN {provides, "to", "none"} ELSE {provides}
    /\ pc' = IF Len(batches) < MaxRuns THEN "check" ELSE "done"
    /\ UNCHANGED <<mig, module, disk, overlay, cache, todo, batches, scan>>

Check ==
    /\ pc = "check"
    /\ \E typed \in SUBSET Files :
         scan' = [f \in Files |->
                    LET pf == Parsed(disk, f, f \in typed)
                    IN  IF JwxImports(pf) = {} THEN Nothing
                        ELSE [Nothing EXCEPT !.typed = pf.typed, !.known = DOMAIN pf.types,
                                             !.found = scanGoFileAST(pf)]]
    /\ pc' = "idle"
    /\ UNCHANGED <<mig, module, provides, disk, overlay, cache, todo, batches>>

Done == pc = "done" /\ UNCHANGED vars

Next == Begin \/ buildTypedFileCache \/ FixFileWithOptions \/ EndBatch \/ Check \/ Done

Spec == Init /\ [][Next]_vars

-----------------------------------------------------------------------------
(* Properties *)

Of(n, f) == batches[n].report[f]
Before(n, f) == batches[n].before[f]

\* The file as the n-th batch left it.
After(n, f) == IF n < Len(batches) THEN batches[n + 1].before[f] ELSE disk[f]

\* Type invariant: the loop of a batch over one package; the cache holds the
\* files as the batch found them.
TypeOK ==
    /\ provides \in {"from", "to", "none"} /\ module \in BOOLEAN
    /\ pc \in {"idle", "load", "fix", "check", "done"}
    /\ DOMAIN disk = Files /\ DOMAIN cache \subseteq Files /\ IsSuffix(todo, Order)
    /\ pc = "fix" => \A f \in DOMAIN cache : cache[f].file = overlay[f]
    /\ Len(batches) \in 0..MaxRuns

\* With types, --fix changes only what --check reports: the two walks over
\* the file (scanGoFileAST, collectEdits) agree on every line it edits.
TypedEditsAreReported ==
    \A n \in DOMAIN batches : \A f \in Files :
        Of(n, f).typed => Of(n, f).edited \subseteq Of(n, f).found

\* The overlay's purpose (main.go:141-151): what a file's fix does never
\* depends on the files the batch has already rewritten, although the types
\* of its receivers come from their imports.
AsIfAlone ==
    pc = "fix" =>
      \A f \in Files :
        LET n == Len(batches)
            alone == Parsed(batches[n].before, f, Of(n, f).typed)
        IN  Of(n, f) # Nothing =>
              Of(n, f).known = DOMAIN alone.types /\ disk[f] = FixedFile(alone).file

\* fixturetest_test.go:320 asks it of the fixtures: a second --fix that sees
\* no more types than the first changes nothing, whatever the go.mod became.
\* Nor do two rules of one run edit the same reference.
SecondRunChangesNothing ==
    \A n \in DOMAIN batches : \A f \in Files :
        /\ n > 1 /\ Of(n, f).typed = Of(n - 1, f).typed
                 /\ Of(n, f).known \subseteq Of(n - 1, f).known
             => ~ Of(n, f).written /\ Of(n, f).edited = {}
        /\ \A e1, e2 \in Of(n, f).edited : e1[2] = e2[2] => e1 = e2

\* What --fix reports as remaining is what the next --check reports: of the
\* lines it left alone, none escapes because the imports above them moved to
\* the target version.  (A rule about a package that has moved no longer
\* applies.)
RemainingIsFoundAgain ==
    pc = "idle" /\ batches # <<>> =>
      \A f \in Files :
        LET n == Len(batches)
            left == {s.line : s \in Before(n, f).sites \cap disk[f].sites}
            applies(r) == Rule(mig, r).packageImport = NoPath
                            \/ importedAs(disk[f], Rule(mig, r).packageImport)
        IN  /\ Of(n, f).typed = scan[f].typed
            /\ Of(n, f).known \cap left \subseteq scan[f].known
            => {x \in Of(n, f).remaining : x[2] \in left /\ applies(x[1])} \subseteq scan[f].found

\* ast_scanner.go:766-769 asks it of untyped scans: code whose receiver is not
\* known to be of jwx is not touched, so whatever is edited was reported.
EditsAreReported ==
    \A n \in DOMAIN batches : \A f \in Files :
        Of(n, f).edited \subseteq Of(n, f).found

=============================================================================
