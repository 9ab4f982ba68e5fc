------------------------------ MODULE RuleMatch ------------------------------
(***************************************************************************)
(* Which references of a Go file the rules match, and what each becomes:   *)
(* the matchers derived from a rule (ast_derive.go), the walk that reports *)
(* them (scanGoFileAST, ast_scanner.go:556-963) and the separate walk that *)
(* rewrites them (collectEdits and the fixers it calls, fix.go:264-1454).  *)
(*                                                                         *)
(* Data abstraction.  A file is [imports, sites].  A site is one reference *)
(* on a line of its own, as far as the matchers and fixers tell apart:     *)
(*   x     its receiver: ident is the identifier or "", decl the package   *)
(*         its declaration names or "", type where the type checker finds  *)
(*         its type (used by TypedBatch only);                             *)
(*   sel   the name, form how it is used ("call", "ref", "star" under a *, *)
(*         "inst" with type arguments, "bare" without receiver);           *)
(*   args  what is known of the arguments, stmt the enclosing statement:   *)
(*         "alone" (the call, or _ = the call), "assigned" or "nested".    *)
(* Paths are sequences of segments; a search pattern is the shape its text *)
(* has.  Every line keeps its number through an edit.                      *)
(***************************************************************************)
EXTENDS Naturals, Sequences, SequencesExt

CONSTANT Migrations   \* rule set -> [from, to, rules]; rules : rule ID -> rule

NoPath == <<>>
packageAll == "all"
Version == {"v2", "v3", "v4"}

RuleKind == {"import_change", "signature_change", "rename", "removed", "behavioral",
             "type_change", "moved_to_extension", "extension_absorbed"}

\* Every shipped import_change rule names the path it changes, and the two
\* rules whose ID ruleArgPredicateOK names are of the kind it expects
\* (v2-to-v4.yaml:928, v3-to-v4.yaml:426).
ASSUME RuleMatchAssumption ==
    \A g \in DOMAIN Migrations : \A r \in DOMAIN Migrations[g].rules :
        LET rule == Migrations[g].rules[r]
        IN  /\ rule.kind \in RuleKind
            /\ rule.kind = "import_change" => rule.fromPath # NoPath
            /\ r = "jwt-withverify-false-to-parseinsecure-v2" =>
                 rule.kind = "signature_change" /\ rule.from \in {"Parse", "ParseString"}
            /\ r = "jwk-parse-retains-unsupported-keys" => rule.kind = "behavioral"

Rule(g, r) == Migrations[g].rules[r]
RuleIds(g) == DOMAIN Migrations[g].rules

-----------------------------------------------------------------------------
(* Matchers *)

Matcher(kind, pkg, path, names, wild) ==
    [kind |-> kind, pkg |-> pkg, path |-> path, names |-> names, wild |-> wild]

\* Patterns with a slash name a path, unless they also end like an identifier.
importPathFromPattern(p) == IF p.shape = "path" /\ ~ p.call THEN p.path ELSE NoPath

ImportMatchers(rule) ==
    {Matcher("import", "", importPathFromPattern(p), {}, FALSE) :
        p \in {q \in rule.patterns : importPathFromPattern(q) # NoPath}}

isCall(rule) == \E p \in rule.patterns : p.call

Qualified(rule) == rule.package \notin {"", packageAll}

\* A pattern whose name has a wildcard stands for the names it matches.
namePatternFromSearch(rule) ==
    {Matcher(IF isCall(rule) THEN "call" ELSE "selector",
             IF p.qual = "" /\ Qualified(rule) THEN rule.package ELSE p.qual,
             NoPath, p.names, TRUE) : p \in {q \in rule.patterns : q.shape = "wild"}}

extractNamesFromPatterns(rule) ==
    UNION {p.names : p \in {q \in rule.patterns : q.shape = "name"}}

\* A name of a package may be called or referred to.
Both(pkg, path, name) ==
    {Matcher(k, pkg, path, {name}, FALSE) : k \in {"call", "selector"}}

deriveImportChange(rule) == {Matcher("import", "", rule.fromPath, {}, FALSE)}

deriveExtensionAbsorbed(rule) ==
    IF rule.ext = NoPath THEN {}
    ELSE {Matcher("import", "", rule.ext, {}, FALSE)}
           \cup (IF rule.into = NoPath THEN {}
                 ELSE UNION {Both(rule.package, rule.ext, n) : n \in extractNamesFromPatterns(rule)})

deriveSignatureChange(rule) ==
    IF rule.from = "" THEN {}
    ELSE IF Qualified(rule) THEN {Matcher("call", rule.package, NoPath, {rule.from}, FALSE)}
    ELSE {Matcher("method", "", NoPath, {rule.from}, FALSE)}

deriveRename(rule) ==
    IF rule.from = "" THEN {}
    ELSE {Matcher("ident", "", NoPath, {rule.from}, FALSE)}
           \cup (IF Qualified(rule)
                   THEN {Matcher("selector", rule.package, NoPath, {rule.from}, FALSE)} ELSE {})

deriveRemovedOrMoved(rule) ==
    LET found == ImportMatchers(rule) \cup namePatternFromSearch(rule)
        named == extractNamesFromPatterns(rule)
        names == IF named = {} /\ found = {} THEN {rule.from} \ {""} ELSE named
    IN  found \cup
        UNION {IF Qualified(rule) THEN Both(rule.package, rule.packageImport, n)
               ELSE {Matcher("ident", "", NoPath, {n}, FALSE)}
                      \cup (IF isCall(rule) THEN {Matcher("method", "", NoPath, {n}, FALSE)} ELSE {})
                 : n \in names}

deriveTypeChange(rule) ==
    LET named == extractNamesFromPatterns(rule)
        names == IF named = {} THEN {rule.from} \ {""} ELSE named
    IN  UNION {IF Qualified(rule) THEN Both(rule.package, rule.packageImport, n)
               ELSE {Matcher("ident", "", NoPath, {n}, FALSE)} : n \in names}

deriveASTMatchers(r, rule) ==
    CASE rule.kind = "import_change" -> deriveImportChange(rule)
      [] rule.kind = "signature_change" -> deriveSignatureChange(rule)
      [] rule.kind = "rename" -> deriveRename(rule)
      [] rule.kind \in {"removed", "moved_to_extension"} -> deriveRemovedOrMoved(rule)
      [] rule.kind = "type_change" -> deriveTypeChange(rule)
      [] rule.kind = "extension_absorbed" -> deriveExtensionAbsorbed(rule)
      [] OTHER -> IF r = "jwk-parse-retains-unsupported-keys"
                    THEN {Matcher("call", "jwk", NoPath, {"Parse"}, FALSE)} ELSE {}

\* loadRules derives them once for the migration.
ASTMatchers ==
    [g \in DOMAIN Migrations |->
        [r \in RuleIds(g) |-> deriveASTMatchers(r, Rule(g, r))]]

-----------------------------------------------------------------------------
(* Names and types.  pf is a ParsedGoFile: [mig, file, typed, types], where *)
(* types gives the path of the package that defines a receiver's type.      *)

goPkgName(path) ==
    IF Last(path) \in Version /\ Len(path) > 1 THEN path[Len(path) - 1] ELSE Last(path)

\* Mutant: only the source version counts.
isJwxImport_SourceOnly(g, path) == IsPrefix(Migrations[g].from, path)

isJwxImport(g, path) ==
    IsPrefix(Migrations[g].from, path) \/ IsPrefix(Migrations[g].to, path)

importLocalName(i) == IF i.name = "" THEN goPkgName(i.path) ELSE i.name

JwxImports(pf) == {i \in pf.file.imports : isJwxImport(pf.mig, i.path)}

JwxNames(pf) == {importLocalName(i) : i \in JwxImports(pf)}

localNamesForImport(file, path) ==
    {importLocalName(i) : i \in {j \in file.imports : j.path = path /\ j.name # "_"}}

importedAs(file, path) == \E i \in file.imports : i.path = path

matchesPkg(pf, local, pkg) ==
    \E i \in JwxImports(pf) : importLocalName(i) = local /\ goPkgName(i.path) = pkg

matchesMatcherPkg(pf, m, local) ==
    IF m.path # NoPath THEN local \in localNamesForImport(pf.file, m.path)
    ELSE matchesPkg(pf, local, m.pkg)

\* go/types records no type for an identifier that names a package.
isJwxType(pf, s) ==
    s.line \in DOMAIN pf.types /\ isJwxImport(pf.mig, pf.types[s.line])

receiverDeclaredAsJwx(pf, s) ==
    s.x.ident # "" /\ (s.x.ident \in JwxNames(pf) \/ s.x.decl \in JwxNames(pf))

-----------------------------------------------------------------------------
(* scanGoFileAST.  A finding is a rule and a line. *)

ruleArgPredicateOK(r, s) ==
    CASE r = "jwt-withverify-false-to-parseinsecure-v2" -> "WithVerify(false)" \in s.args
      [] r = "jwk-parse-retains-unsupported-keys" -> "parse mode" \notin s.args
      [] OTHER -> TRUE

ScanMatches(pf, r, m, s) ==
    /\ s.sel \in m.names
    /\ \/ /\ m.kind = "call" /\ s.form = "call" /\ s.x.ident # ""
          /\ ruleArgPredicateOK(r, s)
          /\ \/ matchesMatcherPkg(pf, m, s.x.ident)
             \/ s.x.decl # "" /\ s.x.decl = m.pkg /\ s.x.decl \in JwxNames(pf)
       \/ /\ m.kind = "method" /\ s.form = "call"
          /\ IF pf.typed THEN isJwxType(pf, s) ELSE receiverDeclaredAsJwx(pf, s)
       \/ /\ m.kind = "selector" /\ s.form \notin {"call", "bare"} /\ s.x.ident # ""
          /\ matchesMatcherPkg(pf, m, s.x.ident)
       \/ m.kind = "ident"

\* A rule without matchers is matched against the text, line by line.
regexFallback(pf, r) ==
    {s \in pf.file.sites : \E p \in Rule(pf.mig, r).patterns :
        s.sel \in p.names /\ p.qual \in {"", s.x.ident} /\ (p.call => s.form = "call")}

ImportsMatched(pf, r) ==
    {i \in pf.file.imports : \E m \in ASTMatchers[pf.mig][r] :
        m.kind = "import" /\ m.path \in SubSeqs(i.path)}

scanGoFileAST(pf) ==
    UNION { LET matchers == ASTMatchers[pf.mig][r]
                sites == IF matchers = {} THEN regexFallback(pf, r)
                         ELSE {s \in pf.file.sites : \E m \in matchers : ScanMatches(pf, r, m, s)}
            IN  {<<r, n.line>> : n \in ImportsMatched(pf, r)} \cup {<<r, n.line>> : n \in sites}
              : r \in RuleIds(pf.mig) }

-----------------------------------------------------------------------------
(* The fixers.  A fix is the set of sites, or imports, that replaces the    *)
(* one it is about: {} deletes it.  A fixer returns a set of fixes, empty   *)
(* when it leaves the code as it is.                                        *)

Becomes(s) == {{s}}
Deleted == {{}}
Unchanged == {}

isGoIdent(name) == name \notin {"", "prose"}

\* ReturnStmt, IfStmt and larger expressions refuse.
fixDeleteStatement(s) == IF s.stmt = "alone" THEN Deleted ELSE Unchanged

fixSignatureChange(rule, s) ==
    IF rule.to \in {"", rule.from} THEN Unchanged ELSE Becomes([s EXCEPT !.sel = rule.to])

\* A call inside a larger expression, or in the init of an if with an else,
\* cannot take a second left-hand side.
Assignable(s) == s.stmt \in {"alone", "assigned"}

ImportOfType(pf, s) == {i \in JwxImports(pf) : i.path = pf.types[s.line]}

\* The local name under which the file reaches the receiver's package.
ReceiverPackage(pf, s) ==
    LET direct == ImportOfType(pf, s)
    IN  IF direct # {} THEN importLocalName(CHOOSE i \in direct : TRUE) ELSE goPkgName(pf.types[s.line])

rewriteToTargetImport(g, path) ==
    IF IsPrefix(Migrations[g].to, path) THEN path
    ELSE ReplaceFirstSubSeq(Migrations[g].to, Migrations[g].from, path)

WithVerifyFixable(r, s) ==
    r = "jwt-withverify-false-to-parseinsecure-v2" /\ s.sel \in {"Parse", "ParseString"}

fixWithVerifyFalse(s) ==
    IF "WithVerify(false)" \in s.args
      THEN Becomes([s EXCEPT !.sel = "ParseInsecure", !.args = @ \ {"WithVerify(false)"}])
      ELSE Unchanged

GetFixable(pf, r, s) == r = "get-to-field" /\ pf.typed /\ "deref" \in s.args

\* dst, err = pkg.Get[T](obj, name)
fixGetToField(pf, s) ==
    IF Assignable(s)
      THEN Becomes([s EXCEPT !.x = [ident |-> ReceiverPackage(pf, s), decl |-> "", type |-> NoPath],
                             !.form = "inst", !.args = {}])
      ELSE Unchanged

ReadFileRule == {"readfile-to-parsefs", "readfile-to-parsefs-v2"}

\* pkg.ParseFS(os.DirFS("dir"), "file"); a path that is not a literal stays.
fixReadFileToParseFS(s) ==
    IF "string" \in s.args
      THEN Becomes([s EXCEPT !.sel = "ParseFS", !.args = @ \ {"string"}]) ELSE Unchanged

ImportGenericRule == {"jwk-import-generic", "jwk-import-generic-v2", "jwk-fromraw-to-import-v2"}

ImportFixable(r, s) == r \in ImportGenericRule /\ s.x.ident # ""

fixJWKImportGeneric(s) == Becomes([s EXCEPT !.sel = "Import", !.form = "inst"])

ExportFixable(pf, r, s) ==
    /\ r = "jwk-export-generic" /\ pf.typed /\ s.x.ident # ""
    /\ {"deref", "roundtrip"} \subseteq s.args /\ Assignable(s)

fixJWKExportGeneric(s) == Becomes([s EXCEPT !.form = "inst", !.args = {}])

fixMoveToExtension(rule, s) ==
    IF rule.target.pkg = "" \/ s.x.ident = "" THEN Unchanged
    ELSE Becomes([s EXCEPT !.x.ident = rule.target.pkg, !.sel = rule.target.name])

\* Mutant: without WithVerify(false) the call falls through to the rename.
SignatureFix_FallsThrough(pf, r, s) ==
    IF WithVerifyFixable(r, s) /\ "WithVerify(false)" \in s.args THEN fixWithVerifyFalse(s)
    ELSE fixSignatureChange(Rule(pf.mig, r), s)

\* Each fixer claims the calls of its shape, also those it leaves alone.
SignatureFix(pf, r, s) ==
    CASE WithVerifyFixable(r, s) -> fixWithVerifyFalse(s)
      [] GetFixable(pf, r, s) -> fixGetToField(pf, s)
      [] r \in ReadFileRule -> fixReadFileToParseFS(s)
      [] ImportFixable(r, s) -> fixJWKImportGeneric(s)
      [] ExportFixable(pf, r, s) -> fixJWKExportGeneric(s)
      [] OTHER -> fixSignatureChange(Rule(pf.mig, r), s)

fixCall(pf, r, s) ==
    LET rule == Rule(pf.mig, r)
    IN  CASE rule.kind = "removed" -> fixDeleteStatement(s)
          [] rule.kind = "rename" -> IF rule.to = "" THEN Unchanged ELSE Becomes([s EXCEPT !.sel = rule.to])
          [] rule.kind = "signature_change" -> SignatureFix(pf, r, s)
          [] rule.kind = "moved_to_extension" -> fixMoveToExtension(rule, s)
          [] OTHER -> Unchanged

\* The types of such a rule are written *T and T; star records the star.
pointerDropRule(rule) == rule.kind = "type_change" /\ rule.star /\ rule.to # ""

fixIdent(rule, s) ==
    LET newName == IF rule.to = "" THEN rule.replacement ELSE rule.to
    IN  IF isGoIdent(newName) THEN Becomes([s EXCEPT !.sel = newName]) ELSE Unchanged

fixSelectorExpr(rule, s) ==
    CASE rule.kind = "moved_to_extension" -> fixMoveToExtension(rule, s)
      [] pointerDropRule(rule) ->
            IF s.form = "star" THEN Becomes([s EXCEPT !.form = "ref"]) ELSE Unchanged
      [] OTHER -> fixIdent(rule, s)

-----------------------------------------------------------------------------
(* collectEdits.  An edit is a rule, the line it edits and the fix.         *)

canFixWithTypes(pf, r) ==
    r \in ImportGenericRule \/ (r \in {"get-to-field", "jwk-export-generic"} /\ pf.typed)

FixRules(pf) ==
    {r \in RuleIds(pf.mig) : Rule(pf.mig, r).mechanical \/ canFixWithTypes(pf, r)}

\* Mutant: a call that already has type arguments still counts as a call.
FixMatches_Typed(pf, r, m, s) ==
    /\ s.sel \in m.names
    /\ ~ (m.wild /\ Rule(pf.mig, r).kind \in {"rename", "signature_change"})
    /\ \/ m.kind = "call" /\ s.form \in {"call", "inst"} /\ s.x.ident # "" /\ matchesMatcherPkg(pf, m, s.x.ident)
       \/ m.kind = "method" /\ s.form = "call" /\ (pf.typed => isJwxType(pf, s))
       \/ m.kind = "selector" /\ s.form \notin {"call", "bare"} /\ s.x.ident # ""
            /\ matchesMatcherPkg(pf, m, s.x.ident)
       \/ m.kind = "ident"

FixMatches(pf, r, m, s) ==
    /\ s.sel \in m.names
    /\ ~ (m.wild /\ Rule(pf.mig, r).kind \in {"rename", "signature_change"})
    /\ \/ m.kind = "call" /\ s.form = "call" /\ s.x.ident # "" /\ matchesMatcherPkg(pf, m, s.x.ident)
       \/ m.kind = "method" /\ s.form = "call" /\ (pf.typed => isJwxType(pf, s))
       \/ m.kind = "selector" /\ s.form \notin {"call", "bare"} /\ s.x.ident # ""
            /\ matchesMatcherPkg(pf, m, s.x.ident)
       \/ m.kind = "ident"

SiteFixes(pf, r, s) ==
    UNION { CASE m.kind \in {"call", "method"} -> fixCall(pf, r, s)
              [] m.kind = "selector" -> fixSelectorExpr(Rule(pf.mig, r), s)
              [] m.kind = "ident" -> fixIdent(Rule(pf.mig, r), s)
              : m \in {k \in ASTMatchers[pf.mig][r] : FixMatches(pf, r, k, s)} }

SiteEdits(pf) ==
    UNION {{[rule |-> r, line |-> s.line, new |-> n] : n \in SiteFixes(pf, r, s)} :
             r \in FixRules(pf), s \in pf.file.sites}

absorbedReferences(pf, rule) ==
    IF rule.into = NoPath THEN {}
    ELSE {s \in pf.file.sites : /\ s.form # "bare" /\ s.x.ident # ""
                                /\ s.x.ident \in localNamesForImport(pf.file, rule.ext)
                                /\ s.sel \in extractNamesFromPatterns(rule)}

packageIsReferenced(file, local, rewritten) ==
    \E s \in file.sites \ rewritten : s.x.ident = local

fixImportRemoval(pf, i, refs) ==
    IF i.name # "_" /\ packageIsReferenced(pf.file, importLocalName(i), refs)
      THEN Unchanged ELSE Deleted

fixImportChange(rule, i) ==
    LET newPath == ReplaceFirstSubSeq(rule.toPath, rule.fromPath, i.path)
    IN  IF rule.toPath = NoPath \/ newPath = i.path THEN Unchanged
        ELSE Becomes([i EXCEPT !.path = newPath])

ImportEdits(pf) ==
    UNION { LET rule == Rule(pf.mig, r)
                refs == absorbedReferences(pf, rule)
                fix(i) == IF rule.kind = "extension_absorbed" THEN fixImportRemoval(pf, i, refs)
                          ELSE fixImportChange(rule, i)
            IN  (UNION { {[rule |-> r, line |-> i.line, new |-> n] : n \in fix(i)} : i \in ImportsMatched(pf, r) })
                \cup (IF rule.kind = "extension_absorbed" /\ ImportsMatched(pf, r) # {}
                        THEN {[rule |-> r, line |-> s.line,
                               new |-> {[s EXCEPT !.x.ident = goPkgName(rule.into)]}] :
                                 s \in {q \in refs : q.x.ident # goPkgName(rule.into)}}
                        ELSE {})
              : r \in FixRules(pf) }

collectEdits(pf) == SiteEdits(pf) \cup ImportEdits(pf)

-----------------------------------------------------------------------------
(* The import passes at the end of collectEdits.  gofmt drops the copy of   *)
(* an import of the same group, so "os" may be injected over itself.        *)

Injected(path, name) == [path |-> path, name |-> IF name = Last(path) THEN "" ELSE name, line |-> 0]

ensureOsImport(edits) ==
    IF \E e \in edits : e.rule \in ReadFileRule THEN {Injected(<<"os">>, "os")} ELSE {}

ensureExtensionImports(pf, edits) ==
    { Injected(Rule(pf.mig, e.rule).ext, Rule(pf.mig, e.rule).target.pkg) :
        e \in {f \in edits : /\ Rule(pf.mig, f.rule).kind = "moved_to_extension"
                             /\ Rule(pf.mig, f.rule).ext # NoPath
                             /\ Rule(pf.mig, f.rule).target.pkg # ""
                             /\ ~ importedAs(pf.file, Rule(pf.mig, f.rule).ext)} }

\* The import goes beside one that stays.
ensureAbsorbedImports(pf, edits) ==
    { Injected(Rule(pf.mig, e.rule).into, goPkgName(Rule(pf.mig, e.rule).into)) :
        e \in {f \in edits : /\ Rule(pf.mig, f.rule).kind = "extension_absorbed"
                             /\ Rule(pf.mig, f.rule).into # NoPath
                             /\ ~ importedAs(pf.file, Rule(pf.mig, f.rule).into)
                             /\ \E i \in pf.file.imports :
                                    ~ \E d \in edits : d.line = i.line /\ d.new = {}} }

\* fixGetToField queues the import before it looks at the statement.
QueuesImport(pf, s) ==
    /\ "get-to-field" \in FixRules(pf)
    /\ \E m \in ASTMatchers[pf.mig]["get-to-field"] : FixMatches(pf, "get-to-field", m, s)
    /\ GetFixable(pf, "get-to-field", s) /\ ImportOfType(pf, s) = {}

\* The packages of receivers that the file reaches without importing them.
ensureJWXImports(pf) ==
    { Injected(p, goPkgName(p)) :
        p \in {q \in {rewriteToTargetImport(pf.mig, pf.types[s.line]) :
                        s \in {t \in pf.file.sites : QueuesImport(pf, t)}} : ~ importedAs(pf.file, q)} }

ImportsAdded(pf, edits) ==
    {i \in ensureOsImport(edits) \cup ensureExtensionImports(pf, edits)
             \cup ensureAbsorbedImports(pf, edits) \cup ensureJWXImports(pf) :
        ~ \E j \in pf.file.imports : j.path = i.path /\ j.name = i.name}

\* What the edits make of the sites, or of the imports.
Rewritten(nodes, edits) ==
    UNION {LET of == {e \in edits : e.line = n.line}
           IN  IF of = {} THEN {n} ELSE (CHOOSE e \in of : TRUE).new : n \in nodes}

EditedKeys(edits) == {<<e.rule, e.line>> : e \in edits}

FixedFile(pf) ==
    LET edits == collectEdits(pf)
    IN  [file |-> [imports |-> Rewritten(pf.file.imports, edits) \cup ImportsAdded(pf, edits),
                   sites |-> Rewritten(pf.file.sites, edits)],
         found |-> scanGoFileAST(pf),
         edited |-> EditedKeys(edits),
         remaining |-> scanGoFileAST(pf) \ EditedKeys(edits)]

=============================================================================
