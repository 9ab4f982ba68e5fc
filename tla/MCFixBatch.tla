----------------------------- MODULE MCFixBatch -----------------------------
(***************************************************************************)
(* Two modules, one with two Go files, and five rules: the path swap, a    *)
(* signature change that can only be reported, one that absorbs an         *)
(* extension, one that moves code to a companion without declaring a       *)
(* version for it, and a rename to the name the signature change is about  *)
(* (DecoderSettings to Settings).                                          *)
(***************************************************************************)
EXTENDS FixBatch

MCModule == {"jwx/v3", "jwx/v4", "mldsa/v4", "jwkfetch/v4"}

PlainRule ==
    [kind |-> "other", allPkgs |-> FALSE, mechanical |-> FALSE,
     from |-> "", to |-> "", ext |-> "", go |-> 0, floors |-> [n \in MCModule |-> 0]]

Floor(m, v) == [n \in MCModule |-> IF n = m THEN v ELSE 0]

\* Ranks: v4.0.0 1, v4.2.0 2, v4.4.0 3, v4.5.0 4.
MCRules ==
    << [PlainRule EXCEPT !.kind = "import_change", !.allPkgs = TRUE, !.mechanical = TRUE,
                         !.from = "jwx/v3", !.to = "jwx/v4"],
       [PlainRule EXCEPT !.floors = Floor("jwx/v4", 2)],
       [PlainRule EXCEPT !.kind = "extension_absorbed", !.ext = "mldsa/v4",
                         !.to = "jwx/v4", !.go = 2, !.floors = Floor("jwx/v4", 3)],
       [PlainRule EXCEPT !.kind = "moved_to_extension", !.ext = "jwkfetch/v4"],
       [PlainRule EXCEPT !.mechanical = TRUE] >>

MCUncovers == [r \in 1 .. 5 |-> IF r = 5 THEN {2} ELSE {}]

MCRootOf == [f \in {"a1", "a2", "b1"} |-> IF f = "b1" THEN "B" ELSE "A"]

Edit(r, l) == [rule |-> r, line |-> l, edited |-> TRUE]
Find(r, l) == [rule |-> r, line |-> l, edited |-> FALSE]
File(matches, imports) == [matches |-> matches, imports |-> imports]

\* In the first a call into the absorbed extension is left; in the second two
\* calls of the renamed function share a line and the fixer gives up on one.
MCOriginals ==
    { File({Edit(1, 1), Edit(3, 2), Find(3, 3)}, {"jwx/v3", "mldsa/v4"}),
      File({Edit(1, 1), Edit(3, 2), Edit(4, 2), Edit(5, 3), Find(5, 3)},
           {"jwx/v3", "mldsa/v4"}) }

MCContents ==
    MCOriginals \cup
    { File({}, {"jwx/v4"}), File({Find(2, 3)}, {"jwx/v4"}), File({Find(3, 3)}, {"jwx/v4"}),
      File({Edit(5, 3)}, {"jwx/v4"}) }

GoMod(v3, v4, mldsa) ==
    [m \in MCModule |-> CASE m = "jwx/v3" -> v3 [] m = "jwx/v4" -> v4
                          [] m = "mldsa/v4" -> mldsa [] OTHER -> 0]

MCGoMods == {GoMod(1, 0, 1), GoMod(1, 2, 1)}

\* The whole tree, and a directory below a go.mod.
MCTargets ==
    { [src |-> {"a1", "a2", "b1"}, mod |-> {"A", "B"}],
      [src |-> {"a1"}, mod |-> {}] }

=============================================================================
