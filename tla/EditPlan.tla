------------------------------- MODULE EditPlan -------------------------------
(***************************************************************************)
(* How FixFileWithOptions turns the matches of the rules in one Go file    *)
(* into new text (fix.go:69-148): collectEdits gathers edits and import    *)
(* injections, deduplicateEdits drops what overlaps, what was not edited   *)
(* is reported, applyEdits splices, and writeFormatted has the last word.  *)
(*                                                                         *)
(* Text is a sequence of cells, opaque tokens; offsets count the cells     *)
(* before a position.  A call site is what the rules and their fixers see  *)
(* of it: the rule, the line and the edits the fixer returns, none if it   *)
(* claims the match without being able to rewrite it.                      *)
(***************************************************************************)
EXTENDS Naturals, Sequences, SequencesExt

CONSTANTS
    Rules,     \* the rules, as [kind, old, new]
    Files,     \* the Go files, as [text, specs, calls]
    NoPath

Kind == {"import_change", "extension_absorbed", "moved_to_extension",
         "get_to_field", "readfile_to_parsefs", "removed"}

Newline == "\n"
Tab == "\t"
Import == "import"
OsPath == "os"

RuleId == DOMAIN Rules

\* An edit replaces the cells from start to end.  Two edits of the same rule
\* with the same range and text are one.
Overlap(d, e) == d.start < e.end /\ e.start < d.end

RuleType == [kind : Kind, old : STRING, new : STRING]
ImportSpec == [at : Nat, path : Nat, end : Nat, name : STRING]
TextEdit == [start : Nat, end : Nat, new : Seq(STRING)]
Call == [rule : RuleId, line : Nat \ {0}, edits : SUBSET TextEdit]

ASSUME RulesAssumption == Rules \in Seq(RuleType) /\ NoPath \in STRING

ASSUME FilesAssumption ==
    \A f \in Files :
        /\ f.text \in Seq(STRING)
        /\ f.specs \in Seq(ImportSpec)
        /\ \A i \in DOMAIN f.specs :
             /\ f.specs[i].at <= f.specs[i].path
             /\ f.specs[i].path < f.specs[i].end
             /\ f.specs[i].end < Len(f.text)
             /\ f.text[f.specs[i].path + 1] = f.specs[i].name
        /\ f.calls \subseteq Call
        /\ \A c \in f.calls : \A e \in c.edits : e.start <= e.end /\ e.end <= Len(f.text)

\* The imports stand above the code, each on a line of its own, as gofmt leaves
\* them.  A file that imports no jwx package is not looked at, and no rule
\* absorbs one of those.  References are re-qualified for the rules with an
\* absorbed_into only (absorbedReferences).
ASSUME ImportsAssumption ==
    \A f \in Files :
        /\ \A i, j \in DOMAIN f.specs : i < j =>
              \E k \in f.specs[i].end + 1 .. f.specs[j].at : f.text[k] = Newline
        /\ \A c \in f.calls : \A e \in c.edits : \A i \in DOMAIN f.specs :
              f.specs[i].end <= e.start
        /\ \E i \in DOMAIN f.specs : \A r \in RuleId :
              Rules[r].kind = "extension_absorbed" => Rules[r].old # f.specs[i].name
        /\ \A c \in f.calls :
              Rules[c.rule].kind = "extension_absorbed" /\ c.edits # {} => Rules[c.rule].new # NoPath

\* What an extension is absorbed into is not itself renamed or absorbed: rules
\* lead to the new version, and only imports of the old one are their `old`.
ASSUME TargetsAssumption ==
    \A r, s \in RuleId :
        (Rules[r].kind = "extension_absorbed" /\ Rules[r].new # NoPath /\
         Rules[s].kind \in {"import_change", "extension_absorbed"})
           => Rules[s].old # Rules[r].new

VARIABLES
    file,      \* the parsed file
    on,        \* the rules of the set whose calls the file really makes
    pc,
    pending,   \* the edits deduplicateEdits has still to look at
    kept,      \* those it keeps
    text,      \* result in applyEdits
    queue,     \* the edits applyEdits has still to apply
    remaining, \* the findings reported as remaining, as <<rule, line>>
    result

vars == <<file, on, pc, pending, kept, text, queue, remaining, result>>

-----------------------------------------------------------------------------
(* collectEdits *)

Matched(f, rules) == {c \in f.calls : c.rule \in rules}

SpecsOf(f, r) == {i \in DOMAIN f.specs : f.specs[i].name = Rules[r].old}

LineOf(f, offset) == Cardinality({k \in 1 .. offset : f.text[k] = Newline}) + 1

LineStart(f, offset) == Max({0} \cup {k \in 1 .. offset : f.text[k] = Newline})

LineEnd(f, offset) == Min({Len(f.text)} \cup {k \in offset + 1 .. Len(f.text) : f.text[k] = Newline})

Tagged(start, end, new, r, line) ==
    [start |-> start, end |-> end, new |-> new, rule |-> r, line |-> line]

fixImportChange(f, i, r) ==
    Tagged(f.specs[i].path, f.specs[i].end, <<Rules[r].new>>, r, LineOf(f, f.specs[i].at))

\* The spec goes with its line, unless the import keyword shares the line.
fixImportRemoval(f, i, r) ==
    LET spec == f.specs[i]
        lineStart == LineStart(f, spec.at)
        shared == \E k \in lineStart + 1 .. spec.at : f.text[k] = Import
    IN  IF shared
          THEN Tagged(spec.at, spec.end, <<>>, r, LineOf(f, spec.at))
          ELSE Tagged(lineStart, LineEnd(f, spec.end), <<>>, r, LineOf(f, spec.at))

\* Something still refers to the package that this pass does not re-qualify.
packageIsReferenced(f, r) == \E c \in f.calls : c.rule = r /\ c.edits = {}

CallEdits(f, r) ==
    UNION {{Tagged(e.start, e.end, e.new, r, c.line) : e \in c.edits}
              : c \in Matched(f, {r})}

\* What the AST walk collects for one rule.  An absorbed extension's selectors
\* are re-qualified when its import is met.
RuleEdits(f, r) ==
    CASE Rules[r].kind = "import_change" ->
           {fixImportChange(f, i, r) : i \in SpecsOf(f, r)}
      [] Rules[r].kind = "extension_absorbed" /\ SpecsOf(f, r) # {} ->
           CallEdits(f, r)
             \cup (IF packageIsReferenced(f, r) THEN {}
                   ELSE {fixImportRemoval(f, i, r) : i \in SpecsOf(f, r)})
      [] Rules[r].kind = "extension_absorbed" /\ SpecsOf(f, r) = {} -> {}
      [] OTHER -> CallEdits(f, r)

WalkEdits(f, rules) == UNION {RuleEdits(f, r) : r \in rules}

importedAs(f, path) == \E i \in DOMAIN f.specs : f.specs[i].name = path

appendImportEdit(f, path, r) ==
    LET at == LineStart(f, f.specs[1].at)
    IN  {Tagged(at, at, <<Tab, path, Newline>>, r, 0)}

\* The specs no edit so far deletes; the anchor is the first of them.
Undeleted(f, E) ==
    {i \in DOMAIN f.specs :
        \A e \in E : e.new = <<>> => ~ (e.start <= f.specs[i].at /\ f.specs[i].at < e.end)}

\* Mutant: the first import, deleted or not.
insertAnchor_First(f, E) == f.specs[1].at

insertAnchor(f, E) == f.specs[Min(Undeleted(f, E))].at

appendImportEditAt(f, path, r, E) ==
    IF Undeleted(f, E) = {} THEN {}
    ELSE {Tagged(insertAnchor(f, E), insertAnchor(f, E), <<path, Newline, Tab>>, r, 0)}

\* The rules that ask for path, the first of which is credited.
Asking(f, rules, kind, path, E) ==
    {r \in rules : /\ Rules[r].kind = kind
                   /\ Rules[r].new = path
                   /\ IF kind = "get_to_field" THEN Matched(f, {r}) # {}
                      ELSE \E e \in E : e.rule = r}

Paths == {Rules[r].new : r \in RuleId} \ {NoPath}

Injections(f, rules, kind, E) ==
    UNION { LET r == Min(Asking(f, rules, kind, p, E))
            IN  CASE kind = "readfile_to_parsefs" -> appendImportEdit(f, OsPath, r)
                  [] importedAs(f, p) -> {}
                  [] kind = "extension_absorbed" -> appendImportEditAt(f, p, r, E)
                  [] OTHER -> appendImportEdit(f, p, r)
              : p \in {q \in Paths : Asking(f, rules, kind, q, E) # {}} }

\* ensureOsImport, ensureExtensionImports, ensureAbsorbedImports and
\* ensureJWXImports.  An injection deletes nothing, so their order is free.
collectEdits(f, rules) ==
    LET E == WalkEdits(f, rules)
    IN  E \cup UNION {Injections(f, rules, kind, E) :
                        kind \in {"readfile_to_parsefs", "moved_to_extension",
                                  "extension_absorbed", "get_to_field"}}


-----------------------------------------------------------------------------
(* FixFileWithOptions *)

Init ==
    /\ file \in Files
    /\ on \in SUBSET RuleId
    /\ pc = "collect"
    /\ pending = {} /\ kept = <<>>
    /\ text = file.text
    /\ queue = {}
    /\ remaining = {}
    /\ result = "none"

Collect ==
    /\ pc = "collect"
    /\ pending' = collectEdits(file, on)
    /\ pc' = "dedupe"
    /\ UNCHANGED <<file, on, kept, text, queue, remaining, result>>

\* sort.Slice is not stable: edits with one range come in any order.
First(E) ==
    {e \in E : \A d \in E :
        e.start < d.start \/ (e.start = d.start /\ e.end <= d.end)}

\* Mutant: only an edit of the very same range is dropped.
Dedupe_SameRange(e) ==
    /\ pc = "dedupe"
    /\ e \in First(pending)
    /\ pending' = pending \ {e}
    /\ kept' = IF kept # <<>> /\ e.start = Last(kept).start /\ e.end = Last(kept).end
                 THEN kept ELSE Append(kept, e)
    /\ UNCHANGED <<file, on, pc, text, queue, remaining, result>>

\* Mutant: an edit that only touches the last one is dropped.
Dedupe_Touching(e) ==
    /\ pc = "dedupe"
    /\ e \in First(pending)
    /\ pending' = pending \ {e}
    /\ kept' = IF kept # <<>> /\ e.start <= Last(kept).end THEN kept ELSE Append(kept, e)
    /\ UNCHANGED <<file, on, pc, text, queue, remaining, result>>

Dedupe(e) ==
    /\ pc = "dedupe"
    /\ e \in First(pending)
    /\ pending' = pending \ {e}
    /\ kept' = IF kept # <<>> /\ e.start < Last(kept).end THEN kept ELSE Append(kept, e)
    /\ UNCHANGED <<file, on, pc, text, queue, remaining, result>>

\* scanGoFileAST records one finding for a rule and a line.
Findings(f, rules) ==
    {<<c.rule, c.line>> : c \in Matched(f, rules)}
      \cup UNION {{<<r, LineOf(f, f.specs[i].at)>> : i \in SpecsOf(f, r)} :
                     r \in {q \in rules : Rules[q].old # NoPath}}

fixedAt(E) == {<<e.rule, e.line>> : e \in E}

\* Mutant: what was dropped is applied.
Correlate_Undeduplicated ==
    /\ pc = "dedupe"
    /\ pending = {}
    /\ remaining' = Findings(file, on) \ fixedAt(Range(kept))
    /\ queue' = collectEdits(file, on)
    /\ pc' = "apply"
    /\ UNCHANGED <<file, on, pending, kept, text, result>>

\* Mutant: what was dropped counts as fixed.
Correlate_BeforeDedupe ==
    /\ pc = "dedupe"
    /\ pending = {}
    /\ remaining' = Findings(file, on) \ fixedAt(collectEdits(file, on))
    /\ queue' = Range(kept)
    /\ pc' = "apply"
    /\ UNCHANGED <<file, on, pending, kept, text, result>>

Correlate ==
    /\ pc = "dedupe"
    /\ pending = {}
    /\ remaining' = Findings(file, on) \ fixedAt(Range(kept))
    /\ queue' = Range(kept)
    /\ IF kept = <<>>
         THEN pc' = "done" /\ result' = IF remaining' = {} THEN "skipped" ELSE "reported"
         ELSE pc' = "apply" /\ UNCHANGED result
    /\ UNCHANGED <<file, on, pending, kept, text>>

Splice(t, e) == SubSeq(t, 1, e.start) \o e.new \o SubSeq(t, e.end + 1, Len(t))

\* Mutant: first start first.
ApplyEdit_Ascending(e) ==
    /\ pc = "apply"
    /\ e \in queue
    /\ \A d \in queue : e.start <= d.start
    /\ queue' = queue \ {e}
    /\ text' = IF e.end <= Len(text) THEN Splice(text, e) ELSE text
    /\ UNCHANGED <<file, on, pc, pending, kept, remaining, result>>

\* One iteration of applyEdits, last start first; again in any order where
\* starts are equal.
ApplyEdit(e) ==
    /\ pc = "apply"
    /\ e \in queue
    /\ \A d \in queue : d.start <= e.start
    /\ queue' = queue \ {e}
    /\ text' = IF e.end <= Len(text) THEN Splice(text, e) ELSE text
    /\ UNCHANGED <<file, on, pc, pending, kept, remaining, result>>

\* format.Source may refuse the text, and the write may fail.
Write ==
    /\ pc = "apply"
    /\ queue = {}
    /\ pc' = "done"
    /\ \/ result' = "written" /\ UNCHANGED remaining
       \/ result' = "error" /\ remaining' = {}
    /\ UNCHANGED <<file, on, pending, kept, text, queue>>

Finished == pc = "done" /\ UNCHANGED vars

Next ==
    \/ Collect
    \/ \E e \in pending : Dedupe(e)
    \/ Correlate
    \/ \E e \in queue : ApplyEdit(e)
    \/ Write
    \/ Finished

Spec == Init /\ [][Next]_vars

-----------------------------------------------------------------------------

EditType(e) ==
    /\ e.start \in Nat /\ e.end \in Nat /\ e.start <= e.end
    /\ e.rule \in on /\ e.line \in Nat

TypeOK ==
    /\ file \in Files
    /\ on \in SUBSET RuleId
    /\ pc \in {"collect", "dedupe", "apply", "done"}
    /\ \A e \in pending \cup Range(kept) \cup queue : EditType(e)
    /\ queue \subseteq Range(kept)
    /\ remaining \subseteq Findings(file, on)
    /\ result \in {"none", "written", "error", "reported", "skipped"}

\* deduplicateEdits compares an edit with the last one kept only; yet no two
\* edits it keeps overlap.
KeptDisjoint ==
    \A i, j \in DOMAIN kept : i # j => ~ Overlap(kept[i], kept[j])

\* ... and none is dropped that could have been kept.
DroppedOverlaps ==
    pc # "collect" =>
        \A e \in collectEdits(file, on) \ (pending \cup Range(kept)) :
            \E k \in Range(kept) : Overlap(e, k)

\* What text t has at offset o after the edits of E: the new text of an edit that
\* starts there, and then the cell that is there unless an edit takes it away.
Piece(t, E, o) ==
    (IF \E e \in E : e.start = o THEN (CHOOSE e \in E : e.start = o).new ELSE <<>>)
      \o (IF o = Len(t) \/ \E e \in E : e.start <= o /\ o < e.end THEN <<>> ELSE <<t[o + 1]>>)

\* Text t with all edits of E made at once, at their original offsets.
Substitute(t, E) ==
    LET made[n \in 0 .. Len(t) + 1] == IF n = 0 THEN <<>> ELSE made[n - 1] \o Piece(t, E, n - 1)
    IN  made[Len(t) + 1]

Colliding == \E d, e \in Range(kept) : d # e /\ d.start = e.start

Applied == pc \in {"apply", "done"} /\ queue = {} /\ kept # <<>>

\* Splicing one edit after the other is the same as making them all at once,
\* whatever the order equal offsets come in, as long as no two start together:
\* an insertion made first is overwritten by a replacement that starts there.
SplicingIsSubstitution == (Applied /\ ~ Colliding) => text = Substitute(file.text, Range(kept))

Requalifying(e) == Rules[e.rule].kind = "extension_absorbed" /\ e.line # 0 /\ e.new # <<>>

RequalifiedInText == \A e \in Range(kept) : Requalifying(e) => Rules[e.rule].new \in Range(text)

\* Selectors moved to the package that absorbed an extension find it imported
\* in the text that is written: the import they need is neither lost to the
\* deletion of the extension's own import line (insertAnchor), nor left out, nor
\* taken away by another edit, as long as no two edits start together.
RequalifiedIsImported == (result = "written" /\ ~ Colliding) => RequalifiedInText

\* fix_absorb_test.go:178 "jwa must be imported", whatever other edits there are.
AbsorbedImportIsAdded == result = "written" => RequalifiedInText

\* A file is not written with a match neither rewritten nor reported, unless
\* the same rule rewrote something else on that line: an edit lost to an
\* overlapping one counts as not made.
LostEditsAreReported ==
    result = "written" =>
        \A c \in Matched(file, on) :
            (\A e \in Range(kept) : e.rule = c.rule => e.line # c.line)
               => <<c.rule, c.line>> \in remaining

\* fix.go:370-373 "so the removal can never outrun the rewrites that make it
\* safe": an absorbed import goes only with every selector that used it.
RemovalNeverOutrunsRewrites ==
    result = "written" =>
        \A e \in Range(kept) :
            (Rules[e.rule].kind = "extension_absorbed" /\ e.new = <<>>)
               => CallEdits(file, e.rule) \subseteq Range(kept)

=============================================================================
