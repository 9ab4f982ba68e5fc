---------------------------- MODULE AtomicReplace ----------------------------
(***************************************************************************)
(* What writeFormatted promises of the file it rewrites (fix.go:156-164):  *)
(* at every moment, and after a power failure, the path names either the   *)
(* content it had or the complete new content.                             *)
(***************************************************************************)
CONSTANTS
    Original,   \* the content found
    New,        \* the content to be written
    Edited      \* what another program may save there meanwhile

VARIABLES
    visible,    \* what a reader of the path finds
    stable,     \* what a reader would find after a power failure
    shown       \* everything a reader may have found so far

vars == <<visible, stable, shown>>

Init ==
    /\ visible = Original
    /\ stable = Original
    /\ shown = {Original}

Save(content) ==
    /\ visible' = content
    /\ shown' = shown \cup {content}
    /\ UNCHANGED stable

Replace == New \notin shown /\ Save(New)

Edit == Save(Edited)

\* The medium catches up with something that was visible.
Settle ==
    /\ stable' \in shown
    /\ UNCHANGED <<visible, shown>>

PowerFailure ==
    /\ visible' = stable
    /\ UNCHANGED <<stable, shown>>

Next == Replace \/ Edit \/ Settle \/ PowerFailure

Spec == Init /\ [][Next]_vars

=============================================================================
