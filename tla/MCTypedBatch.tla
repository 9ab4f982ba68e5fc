---------------------------- MODULE MCTypedBatch ----------------------------
(***************************************************************************)
(* A package of two files: helper.go declares mk, which returns a          *)
(* jwt.Token, and main.go is made of up to two pieces of code, each with   *)
(* the imports it needs.  The rules are those of v3-to-v4.yaml and         *)
(* v2-to-v4.yaml that differ in kind, matcher or fixer.                    *)
(***************************************************************************)
EXTENDS TypedBatch

MCOrder == <<"helper.go", "main.go">>

Jwx(version) == <<"lestrrat-go", "jwx", version>>
Pkg(version, name) == IF name = "jwx" THEN Jwx(version) ELSE Append(Jwx(version), name)
MLDSA == <<"jwx-go", "mldsa", "v4">>
Filippo == <<"filippo.io", "mldsa">>
Stdlib == <<"crypto", "mldsa">>

-----------------------------------------------------------------------------
(* The rules *)

Pattern(shape, qual, names, call) ==
    [shape |-> shape, path |-> NoPath, qual |-> qual, names |-> names, call |-> call]
Call(qual, name) == Pattern("name", qual, {name}, TRUE)
Mention(qual, name) == Pattern("name", qual, {name}, FALSE)

Plain(kind, package, mechanical, from, to) ==
    [kind |-> kind, package |-> package, packageImport |-> NoPath, from |-> from, to |-> to,
     fromPath |-> NoPath, toPath |-> NoPath, patterns |-> {}, ext |-> NoPath, into |-> NoPath,
     mechanical |-> mechanical, target |-> [pkg |-> "", name |-> ""], replacement |-> "",
     star |-> FALSE]

ImportRule(from, to) ==
    [Plain("import_change", packageAll, TRUE, "", "") EXCEPT !.fromPath = from, !.toPath = to]

V3Rules ==
    [r \in {"import-v3-to-v4", "rename-decodersettings-to-settings", "settings-returns-error",
            "get-to-field", "readfile-to-parsefs", "remove-withfs", "jwk-import-generic",
            "jwk-export-generic", "jwk-parse-retains-unsupported-keys", "jwk-cache-removed",
            "jws-signer2-to-signer", "jwa-es256k-extension", "mldsa-extension-absorbed",
            "mldsa-key-package-to-stdlib", "mldsa-parameters-value-type"} |->
      CASE r = "import-v3-to-v4" -> ImportRule(Jwx("v3"), Jwx("v4"))
        [] r = "mldsa-key-package-to-stdlib" -> ImportRule(Filippo, Stdlib)
        [] r = "rename-decodersettings-to-settings" ->
              Plain("rename", "jwx", TRUE, "DecoderSettings", "Settings")
        [] r = "jws-signer2-to-signer" -> Plain("rename", "jws", TRUE, "Signer2", "Signer")
        [] r = "settings-returns-error" ->
              Plain("signature_change", packageAll, FALSE, "Settings", "Settings")
        [] r = "get-to-field" -> Plain("signature_change", packageAll, FALSE, "Get", "Field")
        [] r = "readfile-to-parsefs" ->
              Plain("signature_change", packageAll, TRUE, "ReadFile", "ParseFS")
        [] r = "jwk-import-generic" -> Plain("signature_change", "jwk", FALSE, "Import", "Import")
        [] r = "jwk-export-generic" -> Plain("signature_change", "jwk", FALSE, "Export", "Export")
        [] r = "remove-withfs" ->
              [Plain("removed", packageAll, TRUE, "WithFS", "") EXCEPT !.patterns = {Call("", "WithFS")}]
        [] r = "jwk-parse-retains-unsupported-keys" ->
              [Plain("behavioral", "jwk", FALSE, "prose", "prose") EXCEPT
                  !.patterns = {Call("jwk", "Parse")}]
        [] r = "jwk-cache-removed" ->
              [Plain("removed", "jwk", FALSE, "Cache", "") EXCEPT !.replacement = "prose",
                  !.patterns = {Call("jwk", "NewCache"), Mention("jwk", "Cache")}]
        [] r = "jwa-es256k-extension" ->
              [Plain("moved_to_extension", "jwa", TRUE, "prose", "prose") EXCEPT
                  !.patterns = {Call("jwa", "ES256K")}, !.ext = <<"jwx-go", "es256k", "v4">>,
                  !.target = [pkg |-> "es256k", name |-> "ES256K"]]
        [] r = "mldsa-extension-absorbed" ->
              [Plain("extension_absorbed", "mldsa", TRUE, "prose", "prose") EXCEPT
                  !.packageImport = MLDSA, !.ext = MLDSA, !.into = Pkg("v4", "jwa"),
                  !.patterns = {Call("", "MLDSA44"), Call("", "MLDSA65")}]
        [] r = "mldsa-parameters-value-type" ->
              [Plain("type_change", "mldsa", TRUE, "prose", "prose") EXCEPT
                  !.packageImport = Filippo, !.star = TRUE, !.patterns = {Mention("mldsa", "Parameters")}]]

V2Rules ==
    [r \in {"import-v2-to-v4", "get-to-field-v2", "jwk-fromraw-to-import-v2", "jws-isxxxerror-removed-v2",
            "jwt-withverify-false-to-parseinsecure-v2", "dep-blackmagic-removed-v2"} |->
      CASE r = "import-v2-to-v4" -> ImportRule(Jwx("v2"), Jwx("v4"))
        [] r = "get-to-field-v2" -> Plain("signature_change", packageAll, FALSE, "Get", "Field")
        [] r = "jwk-fromraw-to-import-v2" ->
              Plain("signature_change", "jwk", FALSE, "FromRaw", "Import")
        [] r = "jwt-withverify-false-to-parseinsecure-v2" ->
              Plain("signature_change", "jwt", TRUE, "ParseString", "ParseInsecure")
        [] r = "jws-isxxxerror-removed-v2" ->
              [Plain("removed", "jws", FALSE, "", "") EXCEPT
                  !.patterns = {Pattern("wild", "jws", {"IsVerificationError"}, TRUE)}]
        [] r = "dep-blackmagic-removed-v2" ->
              [Plain("removed", "jwx", TRUE, "prose", "") EXCEPT
                  !.patterns = {[Pattern("path", "", {}, FALSE) EXCEPT !.path = <<"lestrrat-go", "blackmagic">>]}]]

MCMigrations ==
    [g \in {"v3-to-v4", "v2-to-v4"} |->
        IF g = "v3-to-v4" THEN [from |-> Jwx("v3"), to |-> Jwx("v4"), rules |-> V3Rules]
        ELSE [from |-> Jwx("v2"), to |-> Jwx("v4"), rules |-> V2Rules]]

-----------------------------------------------------------------------------
(* The code *)

Import(path, name, line) == [path |-> path, name |-> name, line |-> line]

ImportLine ==
    [n \in {"jwt", "jwk", "jws", "jwa", "jwx"} |->
        CASE n = "jwt" -> 1 [] n = "jwk" -> 2 [] n = "jws" -> 3 [] n = "jwa" -> 4 [] n = "jwx" -> 5]

Site(line, ident, decl, type, sel, form, args, stmt) ==
    [line |-> line, x |-> [ident |-> ident, decl |-> decl, type |-> type],
     sel |-> sel, form |-> form, args |-> args, stmt |-> stmt]

\* A function of a package, and a method of a value that is not of jwx.
Func(line, pkg, sel, form, args, stmt) == Site(line, pkg, "", NoPath, sel, form, args, stmt)

Piece(jwx, other, site) == [jwx |-> jwx, other |-> other, sites |-> {site}]

TokenGet(file, line) == Site(line, "tok", "jwt", <<file, "jwt">>, "Get", "call", {"deref"}, "assigned")

V3Pieces ==
    { Piece({"jwt"}, {}, TokenGet("main.go", 11)),
      \* mk().Get(k, &v), where helper.go alone imports jwt
      Piece({}, {}, Site(12, "", "", <<"helper.go", "jwt">>, "Get", "call", {"deref"}, "alone")),
      Piece({}, {}, Func(13, "m", "Get", "call", {}, "assigned")),
      Piece({"jwt"}, {}, Func(14, "jwt", "ReadFile", "call", {"string"}, "assigned")),
      Piece({"jwt"}, {}, Func(15, "jwt", "ReadFile", "call", {}, "assigned")),
      Piece({}, {Import(<<"os">>, "", 6)}, Func(16, "os", "ReadFile", "call", {"string"}, "assigned")),
      Piece({"jwt"}, {}, Func(17, "jwt", "WithFS", "call", {}, "nested")),
      Piece({"jwk"}, {}, Func(18, "jwk", "Import", "call", {}, "assigned")),
      Piece({"jwk"}, {}, Func(19, "jwk", "Export", "call", {"deref", "roundtrip"}, "alone")),
      Piece({"jwk"}, {}, Func(20, "jwk", "Parse", "call", {}, "assigned")),
      Piece({"jwk"}, {}, Func(21, "jwk", "Parse", "call", {"parse mode"}, "assigned")),
      Piece({"jwk"}, {}, Func(22, "jwk", "NewCache", "call", {}, "assigned")),
      Piece({"jwa"}, {}, Func(23, "jwa", "ES256K", "call", {}, "nested")),
      Piece({"jwx"}, {}, Func(24, "jwx", "DecoderSettings", "call", {}, "alone")),
      Piece({"jws"}, {}, Func(25, "jws", "Signer2", "ref", {}, "nested")),
      Piece({}, {Import(<<"example.com", "other">>, "", 7)}, Func(26, "other", "Signer2", "ref", {}, "nested")),
      Piece({}, {Import(MLDSA, "jwxmldsa", 8)}, Func(27, "jwxmldsa", "MLDSA65", "call", {}, "nested")),
      Piece({}, {Import(MLDSA, "jwxmldsa", 8)}, Func(28, "jwxmldsa", "InteropMode", "call", {}, "nested")),
      Piece({}, {Import(Filippo, "", 9)}, Func(29, "mldsa", "Parameters", "star", {}, "nested")),
      Piece({}, {Import(Filippo, "", 9)}, Func(30, "mldsa", "Parameters", "ref", {}, "nested")) }

\* mk().Get(k, &v) in a statement that cannot be rewritten.
NestedGet ==
    Piece({}, {}, Site(31, "", "", <<"helper.go", "jwt">>, "Get", "call", {"deref"}, "nested"))

\* The extension imported for its side effect alone.
SideEffect == [jwx |-> {}, other |-> {Import(MLDSA, "_", 10)}, sites |-> {}]

V2Pieces ==
    { Piece({"jwt"}, {}, Site(11, "tok", "jwt", <<"main.go", "jwt">>, "Get", "call", {}, "assigned")),
      Piece({"jwk"}, {}, Func(12, "jwk", "FromRaw", "call", {}, "assigned")),
      Piece({"jws"}, {}, Func(13, "jws", "IsVerificationError", "call", {}, "nested")),
      Piece({"jwt"}, {}, Func(14, "jwt", "ParseString", "call", {"WithVerify(false)"}, "assigned")),
      Piece({"jwt"}, {}, Func(15, "jwt", "ParseString", "call", {}, "assigned")),
      Piece({}, {Import(<<"lestrrat-go", "blackmagic">>, "", 6)},
            Func(16, "blackmagic", "AssignIfCompatible", "call", {}, "assigned")) }

\* The imports name the given version of jwx.
Tree(g, version, pieces) ==
    [mig |-> g,
     files |->
       [f \in Range(MCOrder) |->
          IF f = "helper.go"
            THEN [imports |-> {Import(Pkg(version, "jwt"), "", 1)}, sites |-> {TokenGet("helper.go", 11)}]
            ELSE [imports |-> {Import(Pkg(version, n), "", ImportLine[n]) : n \in UNION {p.jwx : p \in pieces}}
                                 \cup UNION {p.other : p \in pieces},
                  sites |-> UNION {p.sites : p \in pieces}]]]

\* Two pieces that share an import, or of which one only counts when the other
\* brings a jwx import into the file: others do not meet.
Meet(a, b) ==
    \/ a.jwx \cap b.jwx # {}
    \/ a.other \cap b.other # {}
    \/ a.jwx = {} /\ b = Piece({"jwt"}, {}, TokenGet("main.go", 11))

UpToTwo(S) == {{a, b} : <<a, b>> \in {p \in S \X S : p[1] = p[2] \/ Meet(p[1], p[2])}}

\* Pieces alone, pairs of pieces that meet, all of them together, and each over
\* imports that already name the target version.
MCTrees ==
    {Tree("v3-to-v4", "v3", p) : p \in UpToTwo(V3Pieces) \cup {V3Pieces \cup {NestedGet, SideEffect}}}
      \cup {Tree("v2-to-v4", "v2", p) : p \in UpToTwo(V2Pieces) \cup {V2Pieces}}
      \cup {Tree("v3-to-v4", "v4", {p}) : p \in V3Pieces}

=============================================================================
