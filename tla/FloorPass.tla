------------------------------ MODULE FloorPass ------------------------------
(***************************************************************************)
(* What Check does with the findings of its scans (check.go:60-94,         *)
(* main.go:60-94): applyVersionFloors drops the findings of rules gated on *)
(* a newer `go` directive and adds one for each version floor a module     *)
(* does not meet, and the exit code follows.  It reads the go.mod files    *)
(* through a cache (version_floor_pass.go, gomod_state.go) while another   *)
(* program may save them, MaxEdits times.                                  *)
(*                                                                         *)
(* A finding is its file and the rule it comes from; Unlisted stands for   *)
(* an ID no rule has.  A go.mod is its go directive and its requires, with *)
(* every version absent when it cannot be parsed.                          *)
(***************************************************************************)
EXTENDS GoModResult, SourceTree

CONSTANTS
    Scans,      \* the lists of findings the scans may return
    GoMods,     \* the go.mod files that may be on disk: directory -> GoMod
    Saves,      \* what another program may save as a go.mod
    MaxEdits,
    Unlisted

GoMod == [go : MaybeVersion, req : Requires]
Unparseable == [go |-> NoVersion, req |-> [m \in Module |-> NoVersion]]

DirSet == ToSet(Dir)
Finding == [file : ToSet(File), rule : RuleId \cup {Unlisted}]
Floor == [root : DirSet, rule : RuleId, path : Module, need : MaybeVersion, current : MaybeVersion]

ASSUME PassAssumption ==
    /\ Unlisted \notin RuleId
    /\ Scans \subseteq Seq(Finding)
    /\ \A g \in GoMods : DOMAIN g \subseteq DirSet /\ \A d \in DOMAIN g : g[d] \in GoMod
    /\ Saves \subseteq GoMod
    /\ MaxEdits \in Nat

VARIABLES
    pc,
    scanned,   \* what the scans returned
    goMods,    \* the go.mod files on disk
    edits,
    todo,      \* findings left to gate
    byFile,    \* cache: directory -> the root of its module and its go.mod
    byRoot,    \* cache: module root -> its go.mod
    kept,      \* findings that survive
    fired,     \* module root -> rules with a finding that survives
    floors,    \* the findings added
    exit,
    seen       \* module root -> the go.mod files it has had (history)

vars == <<pc, scanned, goMods, edits, todo, byFile, byRoot, kept, fired, floors,
          exit, seen>>

Roots == DOMAIN goMods

Outside == [root |-> NoModule, mod |-> Unparseable]

Init ==
    /\ pc = "gate"
    /\ scanned \in Scans
    /\ goMods \in GoMods
    /\ edits = 0
    /\ todo = scanned
    /\ byFile = [d \in {} |-> Outside]
    /\ byRoot = [d \in {} |-> Unparseable]
    /\ kept = <<>>
    /\ fired = [d \in {} |-> {}]
    /\ floors = {}
    /\ exit = 2
    /\ seen = [d \in Roots |-> {goMods[d]}]

-----------------------------------------------------------------------------
(* gomod_state.go and the cache *)

\* Mutant: every file is taken to be in the module the tool is run on.
moduleStateFor_Top(d) ==
    LET root == ModuleOf(TopDir, Roots)
    IN  IF root = NoModule THEN Outside ELSE [root |-> root, mod |-> goMods[root]]

\* The nearest go.mod above the directory, as it is on disk.
moduleStateFor(d) ==
    LET root == ModuleOf(d, Roots)
    IN  IF root = NoModule THEN Outside ELSE [root |-> root, mod |-> goMods[root]]

\* Mutant: the cache is written and never looked up.
forFile_Uncached(d) == moduleStateFor(d)

\* The cached answer for the directory, or a fresh one.
forFile(d) == IF d \in DOMAIN byFile THEN byFile[d] ELSE moduleStateFor(d)

\* The map f after f[x] = v.
Put(f, x, v) == [y \in DOMAIN f \cup {x} |-> IF y = x THEN v ELSE f[y]]

\* The caches after a look-up of directory d that gave st.
Remember(d, st) ==
    /\ byFile' = Put(byFile, d, st)
    /\ IF d \notin DOMAIN byFile /\ st.root # NoModule
         THEN byRoot' = Put(byRoot, st.root, st.mod)
         ELSE UNCHANGED byRoot

(* applyVersionFloors *)

\* Mutant: a file outside every module is not gated.
Admits_Outside(st, r) ==
    Rules[r].go # NoVersion =>
        st.root = NoModule \/ goDirectiveAtLeast(st.mod.go, Rules[r].go)

\* Rule r may be reported for a file of that module.
Admits(st, r) ==
    Rules[r].go # NoVersion =>
        st.root # NoModule /\ goDirectiveAtLeast(st.mod.go, Rules[r].go)

RulesFired(root) == IF root \in DOMAIN fired THEN fired[root] ELSE {}

\* One finding: gate it, keep it, and note its rule as fired in its module.
Gate ==
    /\ pc = "gate" /\ todo # <<>>
    /\ todo' = Tail(todo)
    /\ LET f == Head(todo)
           st == forFile(DirOf[f.file])
       IN  IF f.rule = Unlisted
             THEN /\ kept' = Append(kept, f)
                  /\ UNCHANGED <<byFile, byRoot, fired>>
             ELSE /\ Remember(DirOf[f.file], st)
                  /\ kept' = IF Admits(st, f.rule) THEN Append(kept, f) ELSE kept
                  /\ fired' = IF Admits(st, f.rule) /\ st.root # NoModule
                                THEN Put(fired, st.root, RulesFired(st.root) \cup {f.rule})
                                ELSE fired
    /\ UNCHANGED <<pc, scanned, goMods, edits, floors, exit, seen>>

\* Mutant: the floors of a module are those of the rules that fired anywhere.
UnmetIn_Anywhere(root) ==
    {[root |-> root, rule |-> p[1], path |-> p[2], need |-> Rules[p[1]].floors[p[2]],
      current |-> byRoot[root].req[p[2]]] :
        p \in {q \in RuleId \X Module : /\ \E d \in DOMAIN fired : q[1] \in fired[d]
                                        /\ q[2] \in unmetFloors(q[1], byRoot[root].req)}}

\* One finding per rule fired in the module and path it finds too old.
UnmetIn(root) ==
    {[root |-> root, rule |-> p[1], path |-> p[2], need |-> Rules[p[1]].floors[p[2]],
      current |-> byRoot[root].req[p[2]]] :
        p \in {q \in fired[root] \X Module : q[2] \in unmetFloors(q[1], byRoot[root].req)}}

floorFindings ==
    /\ pc = "gate" /\ todo = <<>>
    /\ floors' = UNION {UnmetIn(root) : root \in DOMAIN fired}
    /\ pc' = "report"
    /\ UNCHANGED <<scanned, goMods, edits, todo, byFile, byRoot, kept, fired, exit, seen>>

\* Total, and the exit code runCheck makes of it.
runCheck ==
    /\ pc = "report"
    /\ exit' = IF kept = <<>> /\ floors = {} THEN 0 ELSE 1
    /\ pc' = "done"
    /\ UNCHANGED <<scanned, goMods, edits, todo, byFile, byRoot, kept, fired, floors, seen>>

\* Another program saves a go.mod.
Save ==
    /\ pc # "done" /\ edits < MaxEdits
    /\ \E d \in Roots, g \in Saves :
         /\ goMods' = [goMods EXCEPT ![d] = g]
         /\ seen' = [seen EXCEPT ![d] = @ \cup {g}]
    /\ edits' = edits + 1
    /\ UNCHANGED <<pc, scanned, todo, byFile, byRoot, kept, fired, floors, exit>>

Finished == pc = "done" /\ UNCHANGED vars

Step == Gate \/ floorFindings \/ runCheck

Next == Step \/ Save \/ Finished

Spec == Init /\ [][Next]_vars

-----------------------------------------------------------------------------
(* Properties *)

\* The module state of a file does not depend on which file asked first, and a
\* rule fired only where a go.mod was read.
TypeOK ==
    /\ pc \in {"gate", "report", "done"}
    /\ scanned \in Seq(Finding) /\ todo \in Seq(Finding) /\ kept \in Seq(Finding)
    /\ \A d \in Roots : goMods[d] \in GoMod
    /\ edits \in 0 .. MaxEdits
    /\ \A d \in DOMAIN byFile : byFile[d].root = ModuleOf(d, Roots)
    /\ DOMAIN fired \subseteq DOMAIN byRoot
    /\ DOMAIN byRoot = {byFile[d].root : d \in DOMAIN byFile} \ {NoModule}
    /\ \A d \in DOMAIN fired : fired[d] \subseteq RuleId
    /\ floors \subseteq Floor
    /\ exit \in 0 .. 2

ModuleOfFile(f) == ModuleOf(DirOf[f], Roots)

\* What version-floors.md asks of `requires.go`: a project whose directive is
\* lower, or that has none, is not told of the rule.
ActionableWith(r, go) == Rules[r].go <= go

Gated == {scanned[i] : i \in 1 .. Len(scanned) - Len(todo)}

\* Whatever is saved meanwhile, a finding is kept only if its module once had a
\* go directive its rule can be acted on with, and dropped only if it once had
\* one it cannot (applyVersionFloors, version_floor_pass.go:76-85).
GatedByOwnModule ==
    \A f \in Gated :
        LET root == ModuleOfFile(f.file)
            directives == IF root = NoModule THEN {NoVersion} ELSE {g.go : g \in seen[root]}
        IN  f.rule # Unlisted =>
              IF f \in ToSet(kept)
                THEN \E go \in directives : ActionableWith(f.rule, go)
                ELSE \E go \in directives : ~ ActionableWith(f.rule, go)

\* Two findings of one rule in one directory are both reported or neither is,
\* even if the go.mod is saved between them (moduleStateCache).
OneAnswerPerDirectory ==
    \A f, g \in Gated :
        f.rule = g.rule /\ DirOf[f.file] = DirOf[g.file] =>
            (f \in ToSet(kept) <=> g \in ToSet(kept))

\* Rule r is reported for a file of the module.
ReportedIn(root, r) == \E f \in ToSet(kept) : f.rule = r /\ ModuleOfFile(f.file) = root

\* Unless a go.mod was saved meanwhile, a module is told of exactly the floors
\* of the rules reported in it that it requires too old a module for, and of
\* no rule that fired in another module only (floorFindings).
FloorsAreThoseOfTheModule ==
    pc # "gate" /\ edits = 0 =>
        floors = {fl \in [root : Roots, rule : RuleId, path : Module,
                          need : MaybeVersion, current : MaybeVersion] :
                    /\ ReportedIn(fl.root, fl.rule)
                    /\ fl.need = Rules[fl.rule].floors[fl.path]
                    /\ fl.current = goMods[fl.root].req[fl.path]
                    /\ fl.current # NoVersion /\ fl.current < fl.need}

\* "`jwxmigrate --fix` will do it" (floorNote): on the go.mod that --fix makes
\* of this one, with the rules that fire in the module gated or not, the check
\* has no floor left to report for any of them.
FixMeetsReportedFloors ==
    pc # "gate" /\ edits = 0 =>
        \A root \in DOMAIN fired :
            LET F == {f.rule : f \in {g \in ToSet(scanned) : ModuleOfFile(g.file) = root}}
                       \ {Unlisted}
            IN  \A r \in F : unmetFloors(r, FixedRequires(goMods[root].req, F)) = {}

=============================================================================
