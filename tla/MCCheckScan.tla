----------------------------- MODULE MCCheckScan -----------------------------
(***************************************************************************)
(* A directory with a package below it, a nested directory that may be a   *)
(* module of its own, a vendor directory and a dot directory.              *)
(***************************************************************************)
EXTENDS CheckScan

Top == <<"work">>

MCDir == <<Top, Append(Top, "pkg"), Append(Top, "sub"), Append(Top, "vendor"),
           Append(Top, ".git")>>

MCSkippedName == {"vendor", ".git"}

MCFile == <<"t", "p", "q", "s", "v">>

MCDirOf ==
    [f \in {"t", "p", "q", "s", "v"} |->
        CASE f = "t" -> MCDir[1] [] f \in {"p", "q"} -> MCDir[2]
          [] f = "s" -> MCDir[3] [] OTHER -> MCDir[4]]

\* Modules at the top, in the package and in the subdirectory, or not; q is a
\* test file, or may not be parseable.
Variants ==
    {c \in [t : {"jwx", "plain"}, q : {"jwx", "body", "broken"}, untyped : {{}, {"q"}}] :
        c.t = "plain" => c.untyped = {}}

ModuleTrees ==
    { [gomods |-> gomods, untyped |-> c.untyped, build |-> <<>>,
       kind |-> [f \in {"t", "p", "q", "s", "v"} |->
                   CASE f = "q" -> c.q [] f = "t" -> c.t [] OTHER -> "jwx"]] :
        gomods \in SUBSET {MCDir[1], MCDir[2], MCDir[3]}, c \in Variants }

\* Build files in a dot directory, a package, a vendor directory and the top
\* directory; no rule is for the second of the top directory.
BuildFile(name, d, matches) == [name |-> name, dir |-> d, matches |-> matches]

MCBuild ==
    <<BuildFile("ci.yml", MCDir[5], TRUE), BuildFile("run.sh", MCDir[2], TRUE),
      BuildFile("dep.sh", MCDir[4], TRUE), BuildFile("Makefile", MCDir[1], TRUE),
      BuildFile("notes.txt", MCDir[1], FALSE)>>

BuildTrees ==
    { [gomods |-> gomods, untyped |-> {}, build |-> MCBuild,
       kind |-> [f \in {"t", "p", "q", "s", "v"} |-> IF f = "p" THEN "jwx" ELSE "plain"]] :
        gomods \in SUBSET {MCDir[1]} }

MCTrees == ModuleTrees \cup BuildTrees

MCPrunedName == {"vendor"}

=============================================================================
