----------------------------- MODULE MCEditPlan -----------------------------
(***************************************************************************)
(* Files that use ML-DSA through the jwx extension and import jwk from its *)
(* old path, with the import lines in several orders, and a body whose     *)
(* call sites meet: one inside another, two on a line, one that cannot be  *)
(* rewritten.                                                              *)
(***************************************************************************)
EXTENDS EditPlan

Rule(kind, old, new) == [kind |-> kind, old |-> old, new |-> new]

MCRules ==
    << Rule("import_change", "jwx/v3/jwk", "jwx/v4/jwk"),
       Rule("extension_absorbed", "ext/mldsa", "jwx/v4/jwa"),
       Rule("get_to_field", "", "jwx/v4/jwt"),
       Rule("readfile_to_parsefs", "", "os"),
       Rule("removed", "", ""),
       Rule("moved_to_extension", "", "ext/es256k") >>

\* One line each.
Line(name) == IF name = "ext/mldsa" THEN <<Tab, "alias", name, Newline>>
              ELSE <<Tab, name, Newline>>

ImportLines(names) == FlattenSeq([i \in DOMAIN names |-> Line(names[i])])

Specs(names) ==
    [i \in DOMAIN names |->
        LET at == Len(ImportLines(SubSeq(names, 1, i - 1))) + 1
            path == IF names[i] = "ext/mldsa" THEN at + 1 ELSE at
        IN  [at |-> at, path |-> path, end |-> path + 1, name |-> names[i]]]

Body ==
    << "tok.Get(", "alias", ".MLDSA65()", ", &v)", Newline,
       "jwt.", "ReadFile", Newline,
       "jwk.Configure(", "jwa", ".ES256K())", ";", "f(jwk.Configure())", Newline,
       "return tok.Get(", ", &v)", Newline >>

Site(rule, line, edits) == [rule |-> rule, line |-> line, edits |-> edits]
Change(start, end, new) == [start |-> start, end |-> end, new |-> new]

\* b is the offset of the body and n its first line.
Calls(b, n) ==
    { Site(3, n, {Change(b, b + 4, <<"v, _ = jwt.Get[T](tok, ", "alias", ".MLDSA65()", ")">>)}),
      Site(2, n, {Change(b + 1, b + 2, <<"jwa">>)}),
      Site(4, n + 1, {Change(b + 6, b + 7, <<"ParseFS">>)}),
      Site(5, n + 2, {Change(b + 8, b + 11, <<>>)}),
      Site(5, n + 2, {}),
      Site(6, n + 2, {Change(b + 9, b + 10, <<"es256k">>)}),
      Site(3, n + 3, {}) }

File(names, skipped) ==
    [text |-> ImportLines(names) \o Body,
     specs |-> Specs(names),
     calls |-> {c \in Calls(Len(ImportLines(names)), Len(names) + 1) :
                   c.line \notin {Len(names) + k : k \in skipped}}]

\* In the last file some lines of the body make no call a rule matches.
MCFiles ==
    { File(<<"jwx/v3/jwk", "ext/mldsa", "jwx/v4/jws">>, {}),
      File(<<"ext/mldsa", "jwx/v3/jwk", "jwx/v4/jws", "os">>, {}),
      File(<<"jwx/v4/jws", "ext/mldsa", "jwx/v3/jwk">>, {}),
      File(<<"jwx/v4/jwa", "ext/mldsa">>, {1}) }

=============================================================================
