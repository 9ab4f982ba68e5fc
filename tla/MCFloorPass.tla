----------------------------- MODULE MCFloorPass -----------------------------
(***************************************************************************)
(* A module with a package in a directory of its own, which may be a       *)
(* module too, and findings of the rules of v3-to-v4.yaml with a floor.    *)
(***************************************************************************)
EXTENDS FloorPass

MCModule == {"jwx/v3", "jwx/v4", "mldsa/v4"}

PlainRule ==
    [kind |-> "other", allPkgs |-> FALSE, mechanical |-> FALSE,
     from |-> "", to |-> "", ext |-> "", go |-> 0, floors |-> [n \in MCModule |-> 0]]

Floors(m, v) == [n \in MCModule |-> IF n = m THEN v ELSE 0]

\* Ranks: v4.0.0 1, v4.2.0 2, v4.4.0 3, v4.5.0 4; go 1.26 1, go 1.27 2.
MCRules ==
    << [PlainRule EXCEPT !.kind = "import_change", !.allPkgs = TRUE, !.mechanical = TRUE,
                         !.from = "jwx/v3", !.to = "jwx/v4"],
       [PlainRule EXCEPT !.floors = Floors("jwx/v4", 2)],
       [PlainRule EXCEPT !.kind = "extension_absorbed", !.ext = "mldsa/v4",
                         !.to = "jwx/v4", !.go = 2, !.floors = Floors("jwx/v4", 3)] >>

Top == <<"work">>
Pkg == <<"work", "pkg">>

MCDir == <<Top, Pkg>>
MCFile == <<"t", "p", "q">>
MCDirOf == [f \in {"t", "p", "q"} |-> IF f = "t" THEN Top ELSE Pkg]

MCFindings ==
    [file : {"t", "p"}, rule : {2, 3}]
      \cup {[file |-> "t", rule |-> 1], [file |-> "q", rule |-> 3], [file |-> "p", rule |-> 99]}

MCScans == UNION {[1 .. n -> MCFindings] : n \in 0 .. 3}

ModFile(go, v3, v4, mldsa) ==
    [go |-> go, req |-> [m \in MCModule |-> CASE m = "jwx/v3" -> v3 [] m = "jwx/v4" -> v4
                                              [] OTHER -> mldsa]]

MCSaves == {ModFile(2, 0, 2, 1), ModFile(1, 0, 4, 0)}

MCModFiles ==
    {ModFile(1, 1, 0, 1), ModFile(2, 0, 2, 1), ModFile(2, 0, 1, 0), Unparseable}

MCGoMods ==
    [{} -> {}] \cup [{Top} -> MCModFiles] \cup [{Pkg} -> {ModFile(2, 0, 1, 0)}]
      \cup [{Top, Pkg} -> {ModFile(2, 0, 2, 1), ModFile(1, 0, 1, 0)}]

=============================================================================
