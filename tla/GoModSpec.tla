------------------------------ MODULE GoModSpec ------------------------------
(***************************************************************************)
(* What rewriting a go.mod promises (the doc comment of fixGoMod,          *)
(* fix_gomod.go:87-98): one invocation either replaces the require block,  *)
(* in one step, by the block FixedRequires describes, or leaves the file   *)
(* as it is.                                                               *)
(***************************************************************************)
EXTENDS GoModResult

CONSTANT GoMods   \* the require blocks an invocation may meet

VARIABLES
    file,    \* the require block on disk
    fired,   \* the rules that matched in the module (recordFired in main.go)
    result   \* what the last invocation returned

vars == <<file, fired, result>>

Results == {"none", "nil", "applied", "error"}

-----------------------------------------------------------------------------

Init ==
    /\ file \in GoMods
    /\ fired \in SUBSET RuleId
    /\ result = "none"

Rewrite ==
    /\ result = "none"
    /\ file' = FixedRequires(file, fired)
    /\ result' = "applied"
    /\ UNCHANGED fired

\* Nothing to do: the file already is what it should be.
Keep ==
    /\ result = "none"
    /\ file = FixedRequires(file, fired)
    /\ result' = "nil"
    /\ UNCHANGED <<file, fired>>

Fail ==
    /\ result = "none"
    /\ result' = "error"
    /\ UNCHANGED <<file, fired>>

\* The tool is run again on what the last invocation left.
Again ==
    /\ result # "none"
    /\ result' = "none"
    /\ UNCHANGED <<file, fired>>

Next == Rewrite \/ Keep \/ Fail \/ Again

Spec == Init /\ [][Next]_vars

=============================================================================
