------------------------------- MODULE GoModFix -------------------------------
(***************************************************************************)
(* fixGoMod (fix_gomod.go:99-196), one action per iteration of its loops.  *)
(* mf.Require lives in memory as req until writeAtomicWithMode puts it on  *)
(* disk; AtomicWrite models that write, which here succeeds or fails as a  *)
(* whole.  The loops over requires and over Go maps run in any order.      *)
(***************************************************************************)
EXTENDS JwxRules

CONSTANTS
    GoMods,    \* the require blocks an invocation may meet
    MaxRuns    \* bound on the number of invocations

ASSUME GoModsAssumption == GoMods \subseteq Requires

ASSUME MaxRunsAssumption == MaxRuns \in Nat \ {0}

\* Rules that declare a floor for one module declare it in ascending order, as
\* both rule sets do.  Step 2 writes the floor of the last unmet rule, not the
\* highest, so it relies on this.
ASSUME FloorsAscend ==
    \A r, s \in RuleId : \A m \in Module :
        (r < s /\ Rules[s].floors[m] # NoVersion)
            => Rules[r].floors[m] <= Rules[s].floors[m]

VARIABLES
    file,     \* the require block on disk
    fired,    \* the rules that matched in the module
    result,   \* what the last invocation returned
    pc,       \* where fixGoMod is
    req,      \* mf.Require, the block being edited
    before,   \* the block as parsed; step 1 ranges over it
    current,  \* currentRequires(mf) as unmetFloors saw it
    next,     \* the rule step 2 looks at next
    applied,  \* IDs of the rules that changed something
    runs,     \* number of the invocation
    previous  \* what the invocation before returned (history)

vars == <<file, fired, result, pc, req, before, current, next, applied, runs, previous>>

PC == {"read", "swap", "raise", "drop", "add", "write", "done"}

Unrequired == [m \in Module |-> NoVersion]

Init ==
    /\ file \in GoMods
    /\ fired \in SUBSET RuleId
    /\ result = "none"
    /\ pc = "read"
    /\ req = Unrequired /\ before = Unrequired /\ current = Unrequired
    /\ next = 1
    /\ applied = {}
    /\ runs = 1
    /\ previous = "none"

Return(r) ==
    /\ pc' = "done"
    /\ result' = r

\* os.ReadFile and modfile.Parse: both may fail.
Read ==
    /\ pc = "read"
    /\ \/ /\ pc' = "swap"
          /\ req' = file
          /\ before' = file
          /\ applied' = {}
          /\ UNCHANGED result
       \/ /\ Return("error")
          /\ UNCHANGED <<req, before, applied>>
    /\ UNCHANGED <<file, fired, current, next, runs, previous>>

\* Step 1.  The rewrite a required path is subject to.
Swappable(r) ==
    /\ before[Rules[r].from] # NoVersion
    /\ req[Rules[r].from] # NoVersion
    /\ \A s \in importRewriteRules : s < r => Rules[s].from # Rules[r].from

\* DropRequire the source, AddRequire the target.  AddRequire sets the
\* version of a path that is already required.
SwappedBy(r) ==
    [req EXCEPT ![Rules[r].from] = NoVersion,
                ![Rules[r].to] = requiredVersionFor(Rules[r].to, fired)]

Swap(r) ==
    /\ pc = "swap"
    /\ Swappable(r)
    /\ IF requiredVersionFor(Rules[r].to, fired) = NoVersion
         THEN /\ Return("error")
              /\ UNCHANGED <<req, applied>>
         ELSE /\ req' = SwappedBy(r)
              /\ applied' = applied \cup {r}
              /\ UNCHANGED <<pc, result>>
    /\ UNCHANGED <<file, fired, before, current, next, runs, previous>>

SwapDone ==
    /\ pc = "swap"
    /\ \A r \in importRewriteRules : ~ Swappable(r)
    /\ pc' = "raise"
    /\ current' = req
    /\ next' = 1
    /\ UNCHANGED <<file, fired, result, req, before, applied, runs, previous>>

\* Step 2.  The floors of one rule.  What is unmet was decided on the block
\* as it was before the loop; AddRequire then sets the version outright.
RaisedBy(r) ==
    [m \in Module |->
        IF m \in unmetFloors(r, current) THEN Rules[r].floors[m] ELSE req[m]]

\* Mutant: the rule credited is the one after.
Raise_OffByOne ==
    /\ pc = "raise"
    /\ next \in RuleId
    /\ IF next \in fired /\ unmetFloors(next, current) # {}
         THEN /\ req' = RaisedBy(next)
              /\ applied' = applied \cup {next + 1}
         ELSE UNCHANGED <<req, applied>>
    /\ next' = next + 1
    /\ UNCHANGED <<file, fired, result, pc, before, current, runs, previous>>

Raise ==
    /\ pc = "raise"
    /\ next \in RuleId
    /\ IF next \in fired /\ unmetFloors(next, current) # {}
         THEN /\ req' = RaisedBy(next)
              /\ applied' = applied \cup {next}
         ELSE UNCHANGED <<req, applied>>
    /\ next' = next + 1
    /\ UNCHANGED <<file, fired, result, pc, before, current, runs, previous>>

\* Mutant: the loop ends before the last rule.
RaiseDone_Early ==
    /\ pc = "raise"
    /\ next + 1 \notin RuleId
    /\ pc' = "drop"
    /\ UNCHANGED <<file, fired, result, req, before, current, next, applied, runs, previous>>

RaiseDone ==
    /\ pc = "raise"
    /\ next \notin RuleId
    /\ pc' = "drop"
    /\ UNCHANGED <<file, fired, result, req, before, current, next, applied, runs, previous>>

\* Step 3.  The map keeps the last rule that absorbs a module.
Drop(m) ==
    /\ pc = "drop"
    /\ m \in absorbedModules(fired)
    /\ req[m] # NoVersion
    /\ req' = [req EXCEPT ![m] = NoVersion]
    /\ applied' = applied \cup {Max(AbsorbingRules(m, fired))}
    /\ UNCHANGED <<file, fired, result, pc, before, current, next, runs, previous>>

DropDone ==
    /\ pc = "drop"
    /\ \A m \in absorbedModules(fired) : req[m] = NoVersion
    /\ pc' = "add"
    /\ UNCHANGED <<file, fired, result, req, before, current, next, applied, runs, previous>>

\* Step 4.  The rule credited is the first with the version added.
Add(m) ==
    /\ pc = "add"
    /\ req[m] = NoVersion
    /\ CompanionRules(m, fired) # {}
    /\ LET version == companionRequirements(m, fired)
       IN  /\ req' = [req EXCEPT ![m] = version]
           /\ applied' = applied \cup
                {Min({r \in CompanionRules(m, fired) : Rules[r].floors[m] = version})}
    /\ UNCHANGED <<file, fired, result, pc, before, current, next, runs, previous>>

AddDone ==
    /\ pc = "add"
    /\ \A m \in Module : CompanionRules(m, fired) # {} => req[m] # NoVersion
    /\ IF applied = {}
         THEN Return("nil")
         ELSE pc' = "write" /\ UNCHANGED result
    /\ UNCHANGED <<file, fired, req, before, current, next, applied, runs, previous>>

\* Mutant: a failing write has changed the file.
Write_Torn ==
    /\ pc = "write"
    /\ file' = req
    /\ \E r \in {"applied", "error"} : Return(r)
    /\ UNCHANGED <<fired, req, before, current, next, applied, runs, previous>>

\* mf.Format, statMode and writeAtomicWithMode: any of them may fail.
Write ==
    /\ pc = "write"
    /\ \/ /\ file' = req
          /\ Return("applied")
       \/ /\ UNCHANGED file
          /\ Return("error")
    /\ UNCHANGED <<fired, req, before, current, next, applied, runs, previous>>

\* The user runs --fix again; the Go files fire the same rules.
Again ==
    /\ pc = "done"
    /\ runs < MaxRuns
    /\ runs' = runs + 1
    /\ previous' = result
    /\ pc' = "read"
    /\ result' = "none"
    /\ UNCHANGED <<file, fired, req, before, current, next, applied>>

Finished == pc = "done" /\ runs = MaxRuns /\ UNCHANGED vars

Step ==
    \/ Read
    \/ \E r \in importRewriteRules : Swap(r)
    \/ SwapDone
    \/ Raise
    \/ RaiseDone
    \/ \E m \in Module : Drop(m)
    \/ DropDone
    \/ \E m \in Module : Add(m)
    \/ AddDone
    \/ Write

Next == Step \/ Again \/ Finished

Spec == Init /\ [][Next]_vars

FairSpec == Spec /\ WF_vars(Step)

-----------------------------------------------------------------------------

Abstract == INSTANCE GoModSpec

Results == {"none", "nil", "applied", "error"}

TypeOK ==
    /\ file \in Requires
    /\ fired \in SUBSET RuleId
    /\ result \in Results
    /\ pc \in PC
    /\ req \in Requires
    /\ before \in Requires
    /\ current \in Requires
    /\ next \in Nat \ {0}
    /\ applied \in SUBSET RuleId
    /\ runs \in 1 .. MaxRuns
    /\ previous \in Results

Succeeded == pc = "done" /\ result \in {"nil", "applied"}

\* However the loops of fixGoMod interfere - a floor written over another, a
\* companion added after the floors were looked at - a go.mod it reports done
\* requires no module at a version below what a fired rule needs.
FloorsMet ==
    Succeeded =>
        \A r \in fired : \A m \in Module :
            file[m] # NoVersion => Rules[r].floors[m] <= file[m]

\* A consumer is never dragged to a version that only a rule that did not fire
\* mentions: what an invocation writes is the baseline of the target or a floor
\* of a fired rule (the comment above requiredVersionFor).
OnlyFiredVersions ==
    Succeeded =>
        \A m \in Module :
            \/ file[m] \in {before[m], NoVersion}
            \/ m = Target /\ file[m] = Baseline
            \/ \E r \in fired : Rules[r].floors[m] = file[m]

\* Run again with the same rules firing, --fix finds nothing left to do to a
\* go.mod it has been through, so it does not run `go mod tidy` again either.
SecondRunIsNoOp ==
    (Succeeded /\ previous \in {"nil", "applied"}) => result = "nil"

\* version_floor_fix_test.go:77 "a newer version must not be downgraded to the
\* floor", for every module required before and after (fixGoMod).
NeverDowngraded ==
    [][\A m \in Module :
          file'[m] # NoVersion => file[m] <= file'[m]]_file

\* The loops compute what GoModSpec promises, in one visible step.
ImplementsGoModSpec == Abstract!Spec

=============================================================================
