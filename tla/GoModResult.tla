----------------------------- MODULE GoModResult -----------------------------
(***************************************************************************)
(* What a go.mod should come to: the reference definition of the four      *)
(* steps of fixGoMod (the comments in fix_gomod.go:112-162), each as a     *)
(* function of the whole require block, without the order of its loops.    *)
(***************************************************************************)
EXTENDS JwxRules

\* The rewrites whose source the module still requires.
ActiveRewrites(req) == {r \in importRewriteRules : req[Rules[r].from] # NoVersion}

\* Step 1: the source path goes, the target comes at the version needed.
Swapped(req, F) ==
    [m \in Module |->
        IF \E r \in ActiveRewrites(req) : Rules[r].to = m
          THEN requiredVersionFor(m, F)
          ELSE IF \E r \in ActiveRewrites(req) : Rules[r].from = m
                 THEN NoVersion
                 ELSE req[m]]

\* Step 2: whatever is required is at least at every floor a fired rule sets.
Raised(req, F) ==
    [m \in Module |->
        IF req[m] = NoVersion
          THEN NoVersion
          ELSE Max({req[m]} \cup {Rules[r].floors[m] : r \in F})]

\* Steps 3 and 4: absorbed modules go, missing companions come.
Completed(req, F) ==
    [m \in Module |->
        IF req[m] # NoVersion /\ m \notin absorbedModules(F)
          THEN req[m]
          ELSE companionRequirements(m, F)]

FixedRequires(req, F) == Completed(Raised(Swapped(req, F), F), F)

=============================================================================
