----------------------------- MODULE MCGoModFix -----------------------------
(***************************************************************************)
(* GoModFix on the rules of v3-to-v4.yaml that bear on go.mod, and on the  *)
(* companion rules of version_floor_fix_test.go.                           *)
(***************************************************************************)
EXTENDS GoModFix

MCModule ==
    {"jwx/v3", "jwx/v4", "jwx-go/mldsa/v4", "filippo.io/mldsa", "crypto/mldsa",
     "jwkfetch/v4", "other"}

MCStdlibModule == {"crypto/mldsa"}

Floor(m, v) == [n \in MCModule |-> IF n = m THEN v ELSE 0]

PlainRule ==
    [kind |-> "other", allPkgs |-> FALSE, mechanical |-> FALSE,
     from |-> "", to |-> "", ext |-> "", go |-> 0, floors |-> [n \in MCModule |-> 0]]

\* Ranks: v4.0.0 1, v4.1.0 2, v4.2.0 3, v4.3.0 4, v4.4.0 5, v4.5.0 6.
MCRules ==
    << [PlainRule EXCEPT !.kind = "import_change", !.allPkgs = TRUE, !.mechanical = TRUE,
                         !.from = "jwx/v3", !.to = "jwx/v4"],
       \* jwk-parse-retains-unsupported-keys
       [PlainRule EXCEPT !.floors = Floor("jwx/v4", 3)],
       \* mldsa-extension-absorbed
       [PlainRule EXCEPT !.kind = "extension_absorbed", !.ext = "jwx-go/mldsa/v4",
                         !.to = "jwx/v4", !.go = 1, !.floors = Floor("jwx/v4", 5)],
       \* mldsa-key-package-to-stdlib
       [PlainRule EXCEPT !.kind = "import_change", !.allPkgs = TRUE, !.mechanical = TRUE,
                         !.from = "filippo.io/mldsa", !.to = "crypto/mldsa",
                         !.go = 1, !.floors = Floor("jwx/v4", 5)],
       \* cache-moved and a later rule that needs more of the same companion
       [PlainRule EXCEPT !.kind = "moved_to_extension", !.ext = "jwkfetch/v4",
                         !.floors = Floor("jwkfetch/v4", 2)],
       [PlainRule EXCEPT !.kind = "moved_to_extension", !.ext = "jwkfetch/v4",
                         !.floors = Floor("jwkfetch/v4", 3)] >>

MCGoMods ==
    {f \in [MCModule -> 0 .. 6] :
        /\ f["jwx/v3"] \in {0, 1}
        /\ f["jwx/v4"] \in {0, 1, 3, 6}
        /\ f["jwx-go/mldsa/v4"] \in {0, 1}
        /\ f["filippo.io/mldsa"] = f["jwx-go/mldsa/v4"]
        /\ f["crypto/mldsa"] = 0
        /\ f["jwkfetch/v4"] \in {0, 1, 4}
        /\ f["other"] = 1}

=============================================================================
