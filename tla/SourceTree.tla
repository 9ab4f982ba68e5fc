----------------------------- MODULE SourceTree -----------------------------
(***************************************************************************)
(* The directory tree the checker walks (ast_scanner.go, check.go,         *)
(* gomod_state.go): which directories a walk enters, which are modules and *)
(* which module a file belongs to.  A directory is its path, the sequence  *)
(* of its names, so the ones above it are its prefixes.                    *)
(***************************************************************************)
EXTENDS Naturals, Sequences, SequencesExt

CONSTANTS
    Dir,          \* the directories on disk, in the order of a walk
    TopDir,       \* the directory the tool is run on
    SkippedName,  \* vendor, node_modules and the names that start with a dot
    File,         \* the .go files, in the order of a walk
    DirOf         \* file -> its directory

\* A walk lists every directory and every file once.
ASSUME TreeAssumption ==
    /\ Dir \in Seq(Seq(STRING)) /\ IsInjective(Dir)
    /\ File \in Seq(STRING) /\ IsInjective(File)
    /\ <<>> \notin ToSet(Dir)
    /\ TopDir \in ToSet(Dir)
    /\ DirOf \in [ToSet(File) -> ToSet(Dir)]

\* The elements of s that are in K, in their order: SelectSeq by a set.
Among(s, K) ==
    LET among[n \in 0 .. Len(s)] ==
            IF n = 0 THEN <<>>
            ELSE IF s[n] \in K THEN Append(among[n - 1], s[n]) ELSE among[n - 1]
    IN  among[Len(s)]

shouldSkipWalkDir(d) == Last(d) \in SkippedName

\* The directories entered between root (excluded) and d (included).
Below(root, d) == {e \in ToSet(Dir) : IsPrefix(root, e) /\ e # root /\ IsPrefix(e, d)}

\* A walk of root enters d when nothing on the way is pruned.
Entered(root, d, pruned) ==
    /\ IsPrefix(root, d)
    /\ \A e \in Below(root, d) : ~ shouldSkipWalkDir(e) /\ e \notin pruned

\* The root of this walk is subject to the filter too.
findModuleRoots(gomods) ==
    {d \in gomods : ~ shouldSkipWalkDir(TopDir) /\ Entered(TopDir, d, {})}

\* Mutant: the walk of a module enters the modules nested in it.
ModuleFiles_Nested(root, gomods) ==
    {f \in ToSet(File) : Entered(root, DirOf[f], {})}

\* The files prescanModule looks at: nested modules are left to their own scan.
ModuleFiles(root, gomods) ==
    {f \in ToSet(File) : Entered(root, DirOf[f], gomods)}

\* The files below TopDir and outside every module root found.
OrphanFiles(gomods) ==
    IF shouldSkipWalkDir(TopDir)
      THEN <<>>
      ELSE Among(File, {f \in ToSet(File) :
                          Entered(TopDir, DirOf[f], findModuleRoots(gomods) \ {TopDir})})

NoModule == <<>>

\* moduleStateFor: the nearest go.mod above a directory, however far up.
Enclosing(d, gomods) == {e \in gomods : IsPrefix(e, d)}

ModuleOf(d, gomods) ==
    IF Enclosing(d, gomods) = {}
      THEN NoModule
      ELSE CHOOSE e \in Enclosing(d, gomods) : \A o \in Enclosing(d, gomods) : IsPrefix(o, e)

=============================================================================
