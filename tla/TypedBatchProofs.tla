--------------------------- MODULE TypedBatchProofs ---------------------------
(***************************************************************************)
(* A --fix batch over a package, for any rules, any files and whichever of *)
(* them packages.Load returns: its overlay (main.go:141-151,               *)
(* snapshotBatchOverlay), what the two walks over a file agree on          *)
(* (scanGoFileAST, collectEdits), and its types.                           *)
(***************************************************************************)
EXTENDS TypedBatch, TLAPS

\* The batch under way.
batch == batches[Len(batches)]

Batching == pc \in {"load", "fix"}

\* Files the batch has still to fix, once each.
TodoInv ==
    /\ DOMAIN disk = Files
    /\ todo \in Seq(Files) /\ IsInjective(todo)

\* The overlay is what the batch found on disk.
OverlayInv ==
    /\ \E S : batches \in Seq(S)
    /\ Batching =>
         /\ batches # <<>>
         /\ batch = [before |-> batch.before, report |-> batch.report]
         /\ batch.before = overlay
         /\ DOMAIN batch.report = Files
    /\ pc = "fix" /\ module =>
         \A f \in DOMAIN cache : cache[f] = parseGoFileTyped(overlay, f)

\* The file was fixed as it would have been with nothing else rewritten.
FixedAlone(f) ==
    LET alone == Parsed(overlay, f, batch.report[f].typed)
    IN  batch.report[f].known = DOMAIN alone.types /\ disk[f] = FixedFile(alone).file

\* A file is as the batch found it until its turn comes, and as if alone after.
TurnInv ==
    Batching => \A f \in Files :
        IF f \in Range(todo) \/ batch.report[f] = Nothing
          THEN batch.report[f] = Nothing /\ disk[f] = overlay[f]
          ELSE FixedAlone(f)

OverlaidInv == TodoInv /\ OverlayInv /\ TurnInv

LEMMA Appending ==
    ASSUME NEW s, \E S : s \in Seq(S), NEW x
    PROVE  /\ \E S : Append(s, x) \in Seq(S)
           /\ Append(s, x) # <<>>
           /\ Append(s, x)[Len(Append(s, x))] = x
<1>1. PICK S : s \in Seq(S)
  OBVIOUS
<1>2. s \in Seq(S \cup {x})
  BY <1>1
<1>3. Append(s, x) \in Seq(S \cup {x}) /\ Len(Append(s, x)) = Len(s) + 1 /\ Len(s) \in Nat
  BY <1>2
<1>4. Append(s, x)[Len(s) + 1] = x
  BY <1>2
<1> QED BY <1>3, <1>4

LEMMA Replacing ==
    ASSUME NEW s, \E S : s \in Seq(S), s # <<>>, NEW x, NEW t, t = [s EXCEPT ![Len(s)] = x]
    PROVE  /\ \E S : t \in Seq(S)
           /\ t # <<>> /\ Len(t) = Len(s)
           /\ t[Len(t)] = x
<1>1. PICK S : s \in Seq(S)
  OBVIOUS
<1>2. Len(s) \in Nat /\ Len(s) \in 1 .. Len(s) /\ DOMAIN s = 1 .. Len(s) /\ s \in Seq(S \cup {x})
  BY <1>1
<1>3. t \in Seq(S \cup {x}) /\ Len(t) = Len(s)
  BY <1>2
<1>4. t[Len(s)] = x
  BY <1>2
<1> QED BY <1>2, <1>3, <1>4

LEMMA InitOverlaid == Init => OverlaidInv
<1> SUFFICES ASSUME Init PROVE OverlaidInv
  OBVIOUS
<1>1. TodoInv
  <2>1. todo = <<>> /\ DOMAIN disk = Files
    BY BatchAssumption DEF Init
  <2> QED BY <2>1 DEF TodoInv, IsInjective
<1>2. OverlayInv /\ TurnInv
  <2>1. batches = <<>> /\ pc = "idle"
    BY DEF Init
  <2>2. batches \in Seq({})
    BY <2>1
  <2> QED BY <2>1, <2>2 DEF OverlayInv, TurnInv, Batching
<1> QED BY <1>1, <1>2 DEF OverlaidInv

LEMMA BeginKeeps == OverlaidInv /\ Begin => OverlaidInv'
<1> SUFFICES ASSUME OverlaidInv, Begin PROVE OverlaidInv'
  OBVIOUS
<1> DEFINE new == [before |-> disk, report |-> [f \in Files |-> Nothing]]
<1>1. /\ overlay' = disk /\ todo' = Order /\ disk' = disk /\ cache' = cache /\ module' = module
      /\ batches' = Append(batches, new)
      /\ pc' = IF module THEN "load" ELSE "fix"
  BY DEF Begin
<1>2. DOMAIN disk = Files /\ \E S : batches \in Seq(S)
  BY DEF OverlaidInv, TodoInv, OverlayInv
<1> HIDE DEF new
<1>3. (\E S : batches' \in Seq(S)) /\ batches' # <<>> /\ batch' = new
  BY <1>1, <1>2, Appending DEF batch
<1>4. TodoInv'
  BY <1>1, <1>2, BatchAssumption DEF TodoInv, Files
<1>5. OverlayInv'
  BY <1>1, <1>3 DEF OverlayInv, new
<1>6. TurnInv'
  BY <1>1, <1>3 DEF TurnInv, new, Range, Files
<1> QED BY <1>4, <1>5, <1>6 DEF OverlaidInv

LEMMA LoadKeeps == OverlaidInv /\ buildTypedFileCache => OverlaidInv'
<1> SUFFICES ASSUME OverlaidInv, buildTypedFileCache PROVE OverlaidInv'
  OBVIOUS
<1>1. /\ UNCHANGED <<mig, module, provides, disk, overlay, todo, batches>> /\ pc = "load" /\ pc' = "fix"
      /\ \A f \in DOMAIN cache' : cache'[f] = parseGoFileTyped(overlay, f)
  BY DEF buildTypedFileCache
<1>2. TodoInv' /\ batch' = batch
  BY <1>1 DEF OverlaidInv, TodoInv, batch
<1>3. \A f : parseGoFileTyped(overlay, f)' = parseGoFileTyped(overlay, f)
  BY <1>1 DEF parseGoFileTyped, TypeKnown, TypePath, Provided
<1>4. \A f : Parsed(overlay, f, batch.report[f].typed)' = Parsed(overlay, f, batch.report[f].typed)
  BY <1>1, <1>2, <1>3 DEF Parsed, parseGoFile
<1>5. \A f : FixedAlone(f)' <=> FixedAlone(f)
  BY <1>1, <1>2, <1>4 DEF FixedAlone
<1>6. OverlayInv'
  BY <1>1, <1>2, <1>3 DEF OverlaidInv, OverlayInv, Batching
<1>7. TurnInv'
  BY <1>1, <1>2, <1>5 DEF OverlaidInv, TurnInv, Batching
<1> QED BY <1>2, <1>6, <1>7 DEF OverlaidInv

\* What a file is loaded as comes from the overlay, whichever way it comes.
LEMMA Loaded ==
    ASSUME OverlaidInv, pc = "fix", NEW f \in Files, disk[f] = overlay[f], NEW pf \in LoadedTyped(f)
    PROVE  /\ pf = Parsed(overlay, f, pf.typed)
           /\ pf.file = overlay[f]
<1>1. parseGoFile(disk, f) = parseGoFile(overlay, f)
  BY DEF parseGoFile
<1>2. pf = parseGoFileTyped(overlay, f) \/ pf = parseGoFile(overlay, f)
  BY <1>1 DEF LoadedTyped, OverlaidInv, OverlayInv
<1> QED BY <1>2 DEF Parsed, parseGoFile, parseGoFileTyped

LEMMA FixKeeps == OverlaidInv /\ FixFileWithOptions => OverlaidInv'
<1> SUFFICES ASSUME OverlaidInv, FixFileWithOptions PROVE OverlaidInv'
  OBVIOUS
<1> DEFINE f == Head(todo)
<1>1. /\ UNCHANGED <<mig, module, provides, overlay, cache, pc>> /\ pc = "fix"
      /\ todo # <<>> /\ todo' = Tail(todo)
      /\ todo \in Seq(Files) /\ IsInjective(todo) /\ DOMAIN disk = Files
  BY DEF FixFileWithOptions, OverlaidInv, TodoInv
<1>2. /\ f \in Files /\ todo' \in Seq(Files) /\ IsInjective(todo')
      /\ Range(todo) = {f} \cup Range(todo') /\ f \notin Range(todo')
  <2>1. /\ Len(todo) \in Nat /\ DOMAIN todo = 1 .. Len(todo)
        /\ DOMAIN todo' = 1 .. Len(todo) - 1 /\ todo' \in Seq(Files)
        /\ \A i \in DOMAIN todo' : i + 1 \in DOMAIN todo /\ todo'[i] = todo[i + 1]
        /\ 1 \in DOMAIN todo /\ f = todo[1] /\ f \in Files
    BY <1>1
  <2>2. IsInjective(todo')
    BY <1>1, <2>1 DEF IsInjective
  <2>3. Range(todo) = {f} \cup Range(todo')
    <3>1. \A i \in DOMAIN todo : i = 1 \/ (i - 1 \in DOMAIN todo' /\ todo[i] = todo'[i - 1])
      BY <2>1
    <3> QED BY <2>1, <3>1 DEF Range
  <2>4. f \notin Range(todo')
    BY <1>1, <2>1 DEF Range, IsInjective
  <2> QED BY <2>1, <2>2, <2>3, <2>4
<1>3. disk[f] = overlay[f] /\ batch.report[f] = Nothing
  BY <1>1, <1>2 DEF OverlaidInv, TurnInv, Batching
<1>4. /\ (\E S : batches \in Seq(S)) /\ batches # <<>> /\ batch.before = overlay
      /\ batch = [before |-> batch.before, report |-> batch.report]
      /\ DOMAIN batch.report = Files
      /\ module => \A g \in DOMAIN cache : cache[g] = parseGoFileTyped(overlay, g)
  BY <1>1 DEF OverlaidInv, OverlayInv, Batching
<1>5. /\ \A g : parseGoFileTyped(overlay, g)' = parseGoFileTyped(overlay, g)
      /\ \A g : parseGoFile(overlay, g)' = parseGoFile(overlay, g)
  BY <1>1 DEF parseGoFileTyped, parseGoFile, TypeKnown, TypePath, Provided
<1>6. PICK pf \in LoadedTyped(f) :
        IF JwxImports(pf) = {} THEN UNCHANGED <<disk, batches>>
        ELSE /\ disk' = [disk EXCEPT ![f] = FixedFile(pf).file]
             /\ batches' = [batches EXCEPT ![Len(batches)].report[f] = Report(pf, pf.typed)]
  BY DEF FixFileWithOptions
<1>7. pf = Parsed(overlay, f, pf.typed)
  BY <1>1, <1>2, <1>3, Loaded
<1> HIDE DEF f
<1>8. TodoInv'
  BY <1>1, <1>2, <1>6 DEF TodoInv
<1>9. CASE UNCHANGED <<disk, batches>>
  <2>1. batch' = batch
    BY <1>9 DEF batch
  <2>2. \A g : FixedAlone(g)' <=> FixedAlone(g)
    BY <1>1, <1>5, <1>9, <2>1 DEF FixedAlone, Parsed
  <2>3. OverlayInv'
    BY <1>1, <1>4, <1>5, <1>9, <2>1 DEF OverlayInv
  <2>4. TurnInv'
    BY <1>1, <1>2, <1>3, <1>9, <2>1, <2>2 DEF OverlaidInv, TurnInv, Batching
  <2> QED BY <1>8, <2>3, <2>4 DEF OverlaidInv
<1>10. CASE /\ disk' = [disk EXCEPT ![f] = FixedFile(pf).file]
            /\ batches' = [batches EXCEPT ![Len(batches)].report[f] = Report(pf, pf.typed)]
  <2> DEFINE rep == Report(pf, pf.typed)
             new == [before |-> overlay, report |-> [batch.report EXCEPT ![f] = rep]]
  <2>1. batches' = [batches EXCEPT ![Len(batches)] = new]
    <3> HIDE DEF rep
    <3>1. batches' = [batches EXCEPT ![Len(batches)] = [batches[Len(batches)] EXCEPT !.report[f] = rep]]
      BY <1>10 DEF rep
    <3>2. batches[Len(batches)] = [before |-> overlay, report |-> batch.report]
      BY <1>4 DEF batch
    <3>3. [batches[Len(batches)] EXCEPT !.report[f] = rep] = new
      BY <3>2
    <3> QED BY <3>1, <3>3
  <2>2. /\ new = [before |-> new.before, report |-> new.report] /\ new.before = overlay
        /\ DOMAIN new.report = Files
        /\ new.report[f] = Report(pf, pf.typed)
        /\ \A g \in Files : g # f => new.report[g] = batch.report[g]
    BY <1>2, <1>4
  <2> HIDE DEF new
  <2>3. (\E S : batches' \in Seq(S)) /\ batches' # <<>> /\ batch' = new
    <3>1. \E S : batches \in Seq(S)
      BY <1>4
    <3>2. (\E S : batches' \in Seq(S)) /\ batches' # <<>> /\ batches'[Len(batches')] = new
      <4> DEFINE t == batches'
      <4>1. t = [batches EXCEPT ![Len(batches)] = new]
        BY <2>1
      <4> HIDE DEF t
      <4>2. (\E S : t \in Seq(S)) /\ t # <<>> /\ t[Len(t)] = new
        BY <1>4, <3>1, <4>1, Replacing
      <4> QED BY <4>2 DEF t
    <3> QED BY <3>2 DEF batch
  <2>4. OverlayInv'
    BY <1>1, <1>4, <1>5, <2>2, <2>3 DEF OverlayInv
  <2>5. ASSUME NEW g \in Files
        PROVE  (IF g \in Range(todo) \/ batch.report[g] = Nothing
                  THEN batch.report[g] = Nothing /\ disk[g] = overlay[g]
                  ELSE FixedAlone(g))'
    <3>1. CASE g = f
      <4>1. /\ batch'.report[g] = Report(pf, pf.typed)
            /\ disk'[g] = FixedFile(pf).file
        BY <1>1, <1>2, <1>10, <2>2, <2>3, <3>1
      <4>2. batch'.report[g].typed = pf.typed /\ batch'.report[g].known = DOMAIN pf.types
        BY <4>1 DEF Report
      <4>3. Parsed(overlay, g, batch.report[g].typed)' = pf
        BY <1>1, <1>5, <1>7, <3>1, <4>2 DEF Parsed
      <4>4. FixedAlone(g)'
        BY <4>1, <4>2, <4>3 DEF FixedAlone
      <4>5. g \notin Range(todo')
        BY <1>2, <3>1
      <4>6. batch'.report[g] = Nothing => disk'[g] = overlay[g]
        <5>1. Report(pf, pf.typed) = Nothing => FixedFile(pf).file = pf.file
          BY DEF Report, Nothing
        <5>2. pf.file = overlay[g]
          BY <1>1, <1>2, <1>3, <3>1, Loaded
        <5> QED BY <4>1, <5>1, <5>2
      <4> QED BY <1>1, <4>4, <4>5, <4>6
    <3>2. CASE g # f
      <4>1. disk'[g] = disk[g] /\ batch'.report[g] = batch.report[g] /\ (g \in Range(todo') <=> g \in Range(todo))
        BY <1>1, <1>2, <1>10, <2>2, <2>3, <3>2
      <4>2. FixedAlone(g)' <=> FixedAlone(g)
        BY <1>1, <1>5, <4>1 DEF FixedAlone, Parsed
      <4>3. IF g \in Range(todo) \/ batch.report[g] = Nothing
              THEN batch.report[g] = Nothing /\ disk[g] = overlay[g]
              ELSE FixedAlone(g)
        BY <1>1 DEF OverlaidInv, TurnInv, Batching
      <4> QED BY <1>1, <4>1, <4>2, <4>3
    <3> QED BY <3>1, <3>2
  <2>6. TurnInv'
    BY <2>5 DEF TurnInv, Files
  <2> QED BY <1>8, <2>4, <2>6 DEF OverlaidInv
<1> QED BY <1>6, <1>9, <1>10

LEMMA OutsideKeeps ==
    ASSUME OverlaidInv, UNCHANGED <<disk, todo, batches>>, ~ Batching'
    PROVE  OverlaidInv'
<1>1. TodoInv'
  BY DEF OverlaidInv, TodoInv
<1>2. OverlayInv' /\ TurnInv'
  BY DEF OverlaidInv, OverlayInv, TurnInv, Batching
<1> QED BY <1>1, <1>2 DEF OverlaidInv

LEMMA StepOverlaid == OverlaidInv /\ [Next]_vars => OverlaidInv'
<1> SUFFICES ASSUME OverlaidInv, [Next]_vars PROVE OverlaidInv'
  OBVIOUS
<1>1. CASE Begin
  BY <1>1, BeginKeeps
<1>2. CASE buildTypedFileCache
  BY <1>2, LoadKeeps
<1>3. CASE FixFileWithOptions
  BY <1>3, FixKeeps
<1>4. CASE EndBatch \/ Check
  <2>1. UNCHANGED <<disk, todo, batches>> /\ pc' \in {"idle", "check", "done"}
    BY <1>4 DEF EndBatch, Check
  <2> QED BY <2>1, OutsideKeeps DEF Batching
<1>5. CASE UNCHANGED vars
  <2>1. UNCHANGED <<mig, module, provides, disk, overlay, cache, todo, batches, pc>>
    BY <1>5 DEF vars
  <2>2. batch' = batch /\ Batching' = Batching
    BY <2>1 DEF batch, Batching
  <2>3. \A g : parseGoFileTyped(overlay, g)' = parseGoFileTyped(overlay, g)
    BY <2>1 DEF parseGoFileTyped, TypeKnown, TypePath, Provided
  <2>4. \A g : FixedAlone(g)' <=> FixedAlone(g)
    BY <2>1, <2>2, <2>3 DEF FixedAlone, Parsed, parseGoFile
  <2>5. TodoInv'
    BY <2>1 DEF OverlaidInv, TodoInv
  <2>6. OverlayInv'
    BY <2>1, <2>2, <2>3 DEF OverlaidInv, OverlayInv
  <2>7. TurnInv'
    BY <2>1, <2>2, <2>4 DEF OverlaidInv, TurnInv
  <2> QED BY <2>5, <2>6, <2>7 DEF OverlaidInv
<1> QED BY <1>1, <1>2, <1>3, <1>4, <1>5 DEF Next, Done

LEMMA AloneHolds == OverlaidInv => AsIfAlone
<1> SUFFICES ASSUME OverlaidInv, pc = "fix", NEW f \in Files, batch.report[f] # Nothing
             PROVE  LET alone == Parsed(batch.before, f, batch.report[f].typed)
                    IN  batch.report[f].known = DOMAIN alone.types /\ disk[f] = FixedFile(alone).file
  BY DEF AsIfAlone, Of, batch
<1>1. batch.before = overlay /\ FixedAlone(f)
  BY DEF OverlaidInv, OverlayInv, TurnInv, Batching
<1> QED BY <1>1 DEF FixedAlone

\* The overlay's purpose (main.go:141-151): whatever the rules make of a file,
\* its fix does not depend on the files the batch has already rewritten.
THEOREM FixedAsIfAlone == Spec => []AsIfAlone
<1>1. Spec => []OverlaidInv
  BY InitOverlaid, StepOverlaid, PTL DEF Spec
<1> QED BY <1>1, AloneHolds, PTL

-----------------------------------------------------------------------------
(***************************************************************************)
(* With types, --fix changes only what --check reports.  The two walks     *)
(* over a file are compared rule by rule and matcher by matcher.           *)
(***************************************************************************)

\* Every rule is of a kind, and so are the two whose arguments are looked at.
LEMMA RulesKnown ==
    ASSUME NEW g \in DOMAIN Migrations, NEW r \in RuleIds(g)
    PROVE  /\ Rule(g, r).kind \in RuleKind
           /\ r = "jwt-withverify-false-to-parseinsecure-v2" =>
                Rule(g, r).kind = "signature_change" /\ Rule(g, r).from \in {"Parse", "ParseString"}
           /\ r = "jwk-parse-retains-unsupported-keys" => Rule(g, r).kind = "behavioral"
           /\ ASTMatchers[g][r] = deriveASTMatchers(r, Rule(g, r))
<1>1. ASTMatchers[g][r] = deriveASTMatchers(r, Rule(g, r))
  BY DEF ASTMatchers
<1> QED BY <1>1, RuleMatchAssumption DEF RuleIds, Rule

\* A site that a matcher of the scan matches, and an import, is a finding.
LEMMA SiteIsFound ==
    ASSUME NEW pf, NEW r \in RuleIds(pf.mig), NEW m \in ASTMatchers[pf.mig][r],
           NEW s \in pf.file.sites, ScanMatches(pf, r, m, s)
    PROVE  <<r, s.line>> \in scanGoFileAST(pf)
<1> DEFINE matchers == ASTMatchers[pf.mig][r]
           sites == IF matchers = {} THEN regexFallback(pf, r)
                    ELSE {q \in pf.file.sites : \E k \in matchers : ScanMatches(pf, r, k, q)}
<1>1. s \in sites
  OBVIOUS
<1> QED BY <1>1 DEF scanGoFileAST

LEMMA ImportIsFound ==
    ASSUME NEW pf, NEW r \in RuleIds(pf.mig), NEW i \in ImportsMatched(pf, r)
    PROVE  <<r, i.line>> \in scanGoFileAST(pf)
BY DEF scanGoFileAST

\* The fixers change a call only if the scan's own condition on its arguments
\* (ruleArgPredicateOK) holds of it.
LEMMA ArgumentsAgree ==
    ASSUME NEW pf, pf.mig \in DOMAIN Migrations, NEW r \in RuleIds(pf.mig),
           NEW m \in ASTMatchers[pf.mig][r], NEW s, s.sel \in m.names, m.kind = "call",
           fixCall(pf, r, s) # {}
    PROVE  ruleArgPredicateOK(r, s)
<1> DEFINE rule == Rule(pf.mig, r)
<1>1. CASE r = "jwt-withverify-false-to-parseinsecure-v2"
  <2>1. rule.kind = "signature_change" /\ rule.from \in {"Parse", "ParseString"}
    BY <1>1, RulesKnown
  <2>2. ASTMatchers[pf.mig][r] = deriveSignatureChange(rule)
    BY <2>1, RulesKnown DEF deriveASTMatchers
  <2>3. m.names = {rule.from}
    <3>1. m \in deriveSignatureChange(rule)
      BY <2>2
    <3>2. \E kind, pkg : m = Matcher(kind, pkg, NoPath, {rule.from}, FALSE)
      BY <3>1 DEF deriveSignatureChange
    <3> QED BY <3>2 DEF Matcher
  <2>4. WithVerifyFixable(r, s)
    BY <1>1, <2>1, <2>3 DEF WithVerifyFixable
  <2>5. fixCall(pf, r, s) = SignatureFix(pf, r, s)
    BY <2>1 DEF fixCall
  <2>6. SignatureFix(pf, r, s) = fixWithVerifyFalse(s)
    BY <1>1, <2>4 DEF SignatureFix, GetFixable, ReadFileRule, ImportFixable, ImportGenericRule, ExportFixable
  <2> QED BY <1>1, <2>5, <2>6 DEF fixWithVerifyFalse, Unchanged, ruleArgPredicateOK
<1>2. CASE r = "jwk-parse-retains-unsupported-keys"
  <2>1. rule.kind = "behavioral"
    BY <1>2, RulesKnown
  <2> QED BY <2>1 DEF fixCall, Unchanged
<1> QED BY <1>1, <1>2 DEF ruleArgPredicateOK

\* The guards of the two walks agree on every site that a fixer changes.
LEMMA SiteEditIsReported ==
    ASSUME NEW pf, pf.mig \in DOMAIN Migrations, pf.typed, NEW e \in SiteEdits(pf)
    PROVE  <<e.rule, e.line>> \in scanGoFileAST(pf)
<1>1. PICK r \in FixRules(pf), s \in pf.file.sites :
        \E new \in SiteFixes(pf, r, s) : e = [rule |-> r, line |-> s.line, new |-> new]
  BY DEF SiteEdits
<1>2. PICK m \in ASTMatchers[pf.mig][r] :
        /\ FixMatches(pf, r, m, s)
        /\ m.kind \in {"call", "method"} => fixCall(pf, r, s) # {}
  BY <1>1 DEF SiteFixes
<1>3. r \in RuleIds(pf.mig)
  BY <1>1 DEF FixRules
<1>4. s.sel \in m.names
  BY <1>2 DEF FixMatches
<1>5. m.kind = "call" => ruleArgPredicateOK(r, s)
  BY <1>2, <1>3, <1>4, ArgumentsAgree
<1>6. ScanMatches(pf, r, m, s)
  BY <1>2, <1>4, <1>5 DEF FixMatches, ScanMatches
<1> QED BY <1>1, <1>3, <1>6, SiteIsFound

\* The references that follow an absorbed import are matched by name.
LEMMA AbsorbedIsFound ==
    ASSUME NEW pf, pf.mig \in DOMAIN Migrations, NEW r \in RuleIds(pf.mig),
           Rule(pf.mig, r).kind = "extension_absorbed", ImportsMatched(pf, r) # {},
           NEW s \in absorbedReferences(pf, Rule(pf.mig, r))
    PROVE  <<r, s.line>> \in scanGoFileAST(pf)
<1> DEFINE rule == Rule(pf.mig, r)
           m(kind) == Matcher(kind, rule.package, rule.ext, {s.sel}, FALSE)
           kind == IF s.form = "call" THEN "call" ELSE "selector"
<1>1. /\ rule.into # NoPath /\ s \in pf.file.sites /\ s.form # "bare" /\ s.x.ident # ""
      /\ s.x.ident \in localNamesForImport(pf.file, rule.ext)
      /\ s.sel \in extractNamesFromPatterns(rule)
  BY DEF absorbedReferences
<1>2. ASTMatchers[pf.mig][r] = deriveExtensionAbsorbed(rule)
  BY RulesKnown DEF deriveASTMatchers
<1>3. rule.ext # NoPath
  BY <1>2 DEF ImportsMatched, deriveExtensionAbsorbed
<1>4. m(kind) \in ASTMatchers[pf.mig][r]
  <2>1. m(kind) \in Both(rule.package, rule.ext, s.sel)
    BY DEF Both
  <2> QED BY <1>1, <1>2, <1>3, <2>1 DEF deriveExtensionAbsorbed
<1>5. ruleArgPredicateOK(r, s)
  BY RulesKnown DEF ruleArgPredicateOK
<1>6. matchesMatcherPkg(pf, m(kind), s.x.ident)
  BY <1>1, <1>3 DEF matchesMatcherPkg, Matcher
<1>7. ScanMatches(pf, r, m(kind), s)
  <2>1. m(kind).kind = kind /\ m(kind).names = {s.sel}
    BY DEF Matcher
  <2> HIDE DEF m
  <2> QED BY <1>1, <1>5, <1>6, <2>1 DEF ScanMatches
<1> QED BY <1>1, <1>4, <1>7, SiteIsFound

LEMMA ImportEditIsReported ==
    ASSUME NEW pf, pf.mig \in DOMAIN Migrations, NEW e \in ImportEdits(pf)
    PROVE  <<e.rule, e.line>> \in scanGoFileAST(pf)
<1> DEFINE refs(r) == absorbedReferences(pf, Rule(pf.mig, r))
<1>1. PICK r \in FixRules(pf) :
        \/ \E i \in ImportsMatched(pf, r) : e.rule = r /\ e.line = i.line
        \/ /\ Rule(pf.mig, r).kind = "extension_absorbed" /\ ImportsMatched(pf, r) # {}
           /\ \E s \in refs(r) : e.rule = r /\ e.line = s.line
  <2> DEFINE fix(r, i) == IF Rule(pf.mig, r).kind = "extension_absorbed" THEN fixImportRemoval(pf, i, refs(r))
                          ELSE fixImportChange(Rule(pf.mig, r), i)
             removed(r) == UNION { {[rule |-> r, line |-> i.line, new |-> n] : n \in fix(r, i)} :
                                     i \in ImportsMatched(pf, r) }
             into(r) == goPkgName(Rule(pf.mig, r).into)
             moved(r) == IF Rule(pf.mig, r).kind = "extension_absorbed" /\ ImportsMatched(pf, r) # {}
                           THEN {[rule |-> r, line |-> s.line, new |-> {[s EXCEPT !.x.ident = into(r)]}] :
                                    s \in {q \in refs(r) : q.x.ident # into(r)}}
                           ELSE {}
             edits(r) == removed(r) \cup moved(r)
  <2>1. PICK r \in FixRules(pf) : e \in edits(r)
    <3>1. ImportEdits(pf) = UNION {edits(r) : r \in FixRules(pf)}
      BY Zenon DEF ImportEdits
    <3> HIDE DEF edits
    <3> QED BY <3>1
  <2> HIDE DEF refs, fix, into
  <2>2. CASE e \in removed(r)
    <3>1. \E i \in ImportsMatched(pf, r) : \E n \in fix(r, i) : e = [rule |-> r, line |-> i.line, new |-> n]
      BY <2>2
    <3> QED BY <2>1, <3>1
  <2>3. CASE e \in moved(r)
    BY <2>1, <2>3
  <2> QED BY <2>1, <2>2, <2>3
<1>2. r \in RuleIds(pf.mig)
  BY <1>1 DEF FixRules
<1>3. CASE \E i \in ImportsMatched(pf, r) : e.rule = r /\ e.line = i.line
  BY <1>2, <1>3, ImportIsFound
<1>4. CASE /\ Rule(pf.mig, r).kind = "extension_absorbed" /\ ImportsMatched(pf, r) # {}
           /\ \E s \in refs(r) : e.rule = r /\ e.line = s.line
  BY <1>2, <1>4, AbsorbedIsFound
<1> QED BY <1>1, <1>3, <1>4

\* Every edit of a typed file, of a reference or of an import, is a finding.
LEMMA EditIsReported ==
    ASSUME NEW pf, pf.mig \in DOMAIN Migrations, pf.typed
    PROVE  Report(pf, pf.typed).edited \subseteq Report(pf, pf.typed).found
BY SiteEditIsReported, ImportEditIsReported DEF Report, FixedFile, EditedKeys, collectEdits

-----------------------------------------------------------------------------
(* What the batches have reported *)

\* What each file's fix reported of the lines it edits.
Agrees(report) == \A f \in Files : report[f].typed => report[f].edited \subseteq report[f].found

ReportedInv ==
    /\ mig \in DOMAIN Migrations
    /\ \A n \in DOMAIN batches : Agrees(batches[n].report)

\* A report added to the batches, or put in place of the last one.
LEMMA LastReported ==
    ASSUME \E S : batches \in Seq(S), ReportedInv, mig' = mig, NEW new, Agrees(new.report),
           \/ batches' = Append(batches, new)
           \/ batches # <<>> /\ batches' = [batches EXCEPT ![Len(batches)] = new]
    PROVE  ReportedInv'
<1>1. PICK S : batches \in Seq(S)
  OBVIOUS
<1>2. /\ DOMAIN batches = 1 .. Len(batches) /\ Len(batches) \in Nat /\ batches \in Seq(S \cup {new})
      /\ \A n \in DOMAIN batches : Agrees(batches[n].report)
  BY <1>1 DEF ReportedInv
<1>3. ASSUME NEW n \in DOMAIN batches'
      PROVE  batches'[n] = new \/ (n \in DOMAIN batches /\ batches'[n] = batches[n])
  <2>1. CASE batches' = Append(batches, new)
    BY <1>2, <1>3, <2>1
  <2>2. CASE batches' = [batches EXCEPT ![Len(batches)] = new]
    BY <1>2, <1>3, <2>2
  <2> QED BY <2>1, <2>2
<1>4. \A n \in DOMAIN batches' : Agrees(batches'[n].report)
  BY <1>2, <1>3
<1> QED BY <1>4 DEF ReportedInv, Agrees

LEMMA BeginReports == OverlaidInv /\ ReportedInv /\ Begin => ReportedInv'
<1> SUFFICES ASSUME OverlaidInv, ReportedInv, Begin PROVE ReportedInv'
  OBVIOUS
<1> DEFINE new == [before |-> disk, report |-> [f \in Files |-> Nothing]]
<1>1. mig' = mig /\ batches' = Append(batches, new)
  BY DEF Begin
<1>2. Agrees(new.report)
  BY DEF Agrees, Nothing
<1>3. \E S : batches \in Seq(S)
  BY DEF OverlaidInv, OverlayInv
<1> HIDE DEF new
<1> QED BY <1>1, <1>2, <1>3, LastReported

LEMMA FixReports == OverlaidInv /\ ReportedInv /\ FixFileWithOptions => ReportedInv'
<1> SUFFICES ASSUME OverlaidInv, ReportedInv, FixFileWithOptions PROVE ReportedInv'
  OBVIOUS
<1> DEFINE f == Head(todo)
<1>1. /\ mig' = mig /\ pc = "fix" /\ f \in Files /\ f \in Range(todo)
      /\ (\E S : batches \in Seq(S)) /\ batches # <<>>
      /\ batch = [before |-> batch.before, report |-> batch.report] /\ DOMAIN batch.report = Files
  <2>1. todo \in Seq(Files) /\ todo # <<>> /\ pc = "fix" /\ mig' = mig
    BY DEF FixFileWithOptions, OverlaidInv, TodoInv
  <2>2. 1 \in DOMAIN todo /\ f = todo[1] /\ f \in Files
    BY <2>1
  <2> QED BY <2>1, <2>2 DEF OverlaidInv, OverlayInv, Batching, Range
<1>2. disk[f] = overlay[f]
  BY <1>1 DEF OverlaidInv, TurnInv, Batching
<1>3. PICK pf \in LoadedTyped(f) :
        \/ batches' = batches
        \/ batches' = [batches EXCEPT ![Len(batches)].report[f] = Report(pf, pf.typed)]
  BY DEF FixFileWithOptions
<1> HIDE DEF f
<1>4. pf.mig = mig
  <2>1. pf = Parsed(overlay, f, pf.typed)
    BY <1>1, <1>2, Loaded
  <2> QED BY <2>1 DEF Parsed, parseGoFile, parseGoFileTyped
<1> DEFINE rep == Report(pf, pf.typed)
           new == [before |-> batch.before, report |-> [batch.report EXCEPT ![f] = rep]]
<1>5. rep.typed => rep.edited \subseteq rep.found
  <2>1. rep.typed = pf.typed
    BY DEF Report
  <2> QED BY <1>4, <2>1, EditIsReported DEF ReportedInv
<1>6. Agrees(batch.report)
  <2>1. Len(batches) \in DOMAIN batches
    BY <1>1
  <2> QED BY <2>1 DEF ReportedInv, batch
<1> HIDE DEF rep
<1>7. Agrees(new.report)
  BY <1>1, <1>5, <1>6 DEF Agrees
<1>8. CASE batches' = batches
  BY <1>1, <1>8 DEF ReportedInv, Agrees
<1>9. CASE batches' = [batches EXCEPT ![Len(batches)].report[f] = rep]
  <2>1. batches' = [batches EXCEPT ![Len(batches)] = [batches[Len(batches)] EXCEPT !.report[f] = rep]]
    BY <1>9
  <2>2. [batches[Len(batches)] EXCEPT !.report[f] = rep] = new
    BY <1>1 DEF batch
  <2>3. batches' = [batches EXCEPT ![Len(batches)] = new]
    BY <2>1, <2>2
  <2> HIDE DEF new
  <2> QED BY <1>1, <1>7, <2>3, LastReported
<1> QED BY <1>3, <1>8, <1>9 DEF rep

LEMMA InitReported == Init => ReportedInv
BY BatchAssumption DEF Init, ReportedInv

LEMMA StepReported == OverlaidInv /\ ReportedInv /\ [Next]_vars => ReportedInv'
<1> SUFFICES ASSUME OverlaidInv, ReportedInv, [Next]_vars PROVE ReportedInv'
  OBVIOUS
<1>1. CASE Begin
  BY <1>1, BeginReports
<1>2. CASE FixFileWithOptions
  BY <1>2, FixReports
<1>3. CASE UNCHANGED <<mig, batches>>
  BY <1>3 DEF ReportedInv, Agrees
<1>4. CASE buildTypedFileCache \/ EndBatch \/ Check \/ UNCHANGED vars
  BY <1>3, <1>4 DEF buildTypedFileCache, EndBatch, Check, vars
<1> QED BY <1>1, <1>2, <1>4 DEF Next, Done

\* Whatever the rules and the package: every line that --fix edits in a file it
\* has types for is a line that --check reports, for the same rule.
THEOREM EditedIsReported == Spec => []TypedEditsAreReported
<1>1. Init => OverlaidInv /\ ReportedInv
  BY InitOverlaid, InitReported
<1>2. OverlaidInv /\ ReportedInv /\ [Next]_vars => (OverlaidInv /\ ReportedInv)'
  BY StepOverlaid, StepReported
<1>3. ReportedInv => TypedEditsAreReported
  BY DEF ReportedInv, Agrees, TypedEditsAreReported, Of
<1> QED BY <1>1, <1>2, <1>3, PTL DEF Spec

-----------------------------------------------------------------------------
(* Types *)

\* The parts of TypeOK, and where the batches end: a batch begins only below
\* the bound, and nothing is loaded outside a module.
TypeInv ==
    /\ provides \in {"from", "to", "none"} /\ module \in BOOLEAN
    /\ pc \in {"idle", "load", "fix", "check", "done"}
    /\ DOMAIN cache \subseteq Files /\ (module \/ cache = <<>>) /\ (pc = "load" => module)
    /\ Len(batches) \in 0 .. MaxRuns /\ (pc \in {"idle", "check"} => Len(batches) < MaxRuns)

\* What is still to fix is the end of the walk's order.
LEMMA SuffixIs ==
    ASSUME NEW S, NEW s \in Seq(S), NEW t \in Seq(S)
    PROVE  IsSuffix(s, t) <=> /\ Len(s) <= Len(t)
                              /\ \A i \in 1 .. Len(s) : s[Len(s) - i + 1] = t[Len(t) - i + 1]
<1> DEFINE r == Reverse(s)
           q == Reverse(t)
<1>1. /\ Len(s) \in Nat /\ Len(t) \in Nat
      /\ r \in Seq(S) /\ Len(r) = Len(s) /\ \A i \in 1 .. Len(s) : r[i] = s[Len(s) - i + 1]
      /\ q \in Seq(S) /\ Len(q) = Len(t) /\ \A i \in 1 .. Len(t) : q[i] = t[Len(t) - i + 1]
  <2>1. ASSUME NEW u \in Seq(S)
        PROVE  /\ Reverse(u) \in Seq(S) /\ Len(Reverse(u)) = Len(u)
               /\ \A i \in 1 .. Len(u) : Reverse(u)[i] = u[Len(u) - i + 1]
    <3>1. Len(u) \in Nat /\ \A i \in 1 .. Len(u) : Len(u) - i + 1 \in 1 .. Len(u)
      OBVIOUS
    <3> QED BY <3>1 DEF Reverse
  <2> QED BY <2>1
<1> HIDE DEF r, q
<1>2. CASE Len(s) <= Len(t)
  <2>1. /\ SubSeq(r, 1, Len(r)) \in Seq(S) /\ SubSeq(q, 1, Len(r)) \in Seq(S)
        /\ Len(SubSeq(r, 1, Len(r))) = Len(s) /\ Len(SubSeq(q, 1, Len(r))) = Len(s)
        /\ \A i \in 1 .. Len(s) : SubSeq(r, 1, Len(r))[i] = r[i] /\ SubSeq(q, 1, Len(r))[i] = q[i]
    BY <1>1, <1>2
  <2>2. SubSeq(r, 1, Len(r)) = SubSeq(q, 1, Len(r)) <=> \A i \in 1 .. Len(s) : r[i] = q[i]
    BY <2>1, <1>1
  <2>3. \A i \in 1 .. Len(s) : i \in 1 .. Len(t)
    BY <1>1, <1>2
  <2> QED BY <1>1, <1>2, <2>2, <2>3 DEF IsSuffix, IsPrefix, r, q
<1>3. CASE ~ (Len(s) <= Len(t))
  BY <1>1, <1>3 DEF IsSuffix, IsPrefix, r, q
<1> QED BY <1>2, <1>3

LEMMA SuffixTail ==
    ASSUME NEW S, NEW s \in Seq(S), NEW t \in Seq(S), IsSuffix(s, t), s # <<>>
    PROVE  IsSuffix(Tail(s), t)
<1>1. /\ Len(s) \in Nat /\ Len(t) \in Nat /\ Len(s) <= Len(t)
      /\ \A i \in 1 .. Len(s) : s[Len(s) - i + 1] = t[Len(t) - i + 1]
  BY SuffixIs
<1>2. /\ Tail(s) \in Seq(S) /\ Len(Tail(s)) = Len(s) - 1
      /\ \A j \in 1 .. Len(s) - 1 : Tail(s)[j] = s[j + 1]
  OBVIOUS
<1>3. ASSUME NEW i \in 1 .. Len(s) - 1
      PROVE  Tail(s)[Len(s) - 1 - i + 1] = t[Len(t) - i + 1]
  <2>1. Len(s) - 1 - i + 1 \in 1 .. Len(s) - 1 /\ i \in 1 .. Len(s) /\ Len(s) - 1 - i + 1 + 1 = Len(s) - i + 1
    BY <1>1
  <2> QED BY <1>1, <1>2, <2>1
<1>4. Len(Tail(s)) <= Len(t) /\ \A i \in 1 .. Len(Tail(s)) : Tail(s)[Len(Tail(s)) - i + 1] = t[Len(t) - i + 1]
  BY <1>1, <1>2, <1>3
<1> QED BY <1>2, <1>4, SuffixIs

LEMMA InitTyped == Init => TypeInv /\ IsSuffix(todo, Order)
<1> SUFFICES ASSUME Init PROVE TypeInv /\ IsSuffix(todo, Order)
  OBVIOUS
<1>1. todo = <<>> /\ todo \in Seq(Files) /\ Order \in Seq(Files) /\ Len(todo) = 0 /\ Len(Order) \in Nat
  BY BatchAssumption DEF Init
<1>2. IsSuffix(todo, Order)
  <2>1. /\ Len(todo) <= Len(Order)
        /\ \A i \in 1 .. Len(todo) : todo[Len(todo) - i + 1] = Order[Len(Order) - i + 1]
    BY <1>1
  <2> QED BY ONLY <1>1, <2>1, SuffixIs
<1> QED BY <1>2, BatchAssumption DEF Init, TypeInv

LEMMA StepTyped == OverlaidInv /\ TypeInv /\ IsSuffix(todo, Order) /\ [Next]_vars => (TypeInv /\ IsSuffix(todo, Order))'
<1> SUFFICES ASSUME OverlaidInv, TypeInv, IsSuffix(todo, Order), [Next]_vars
             PROVE  TypeInv' /\ IsSuffix(todo', Order)
  OBVIOUS
<1>1. /\ todo \in Seq(Files) /\ Order \in Seq(Files) /\ MaxRuns \in Nat \ {0} /\ Len(batches) \in Nat
      /\ \E S : batches \in Seq(S)
  BY BatchAssumption DEF OverlaidInv, TodoInv, OverlayInv, TypeInv
<1>2. CASE Begin
  <2>1. IsSuffix(Order, Order)
    BY <1>1, SuffixIs
  <2>2. PICK x : batches' = Append(batches, x)
    BY <1>2 DEF Begin
  <2>3. Len(batches') = Len(batches) + 1
    BY <1>1, <2>2
  <2> QED BY <1>1, <1>2, <2>1, <2>3 DEF Begin, TypeInv
<1>3. CASE buildTypedFileCache
  BY <1>3 DEF buildTypedFileCache, TypeInv
<1>4. CASE FixFileWithOptions
  <2>1. IsSuffix(todo', Order)
    BY <1>1, <1>4, SuffixTail DEF FixFileWithOptions
  <2>2. Len(batches') = Len(batches)
    <3>1. \/ batches' = batches
          \/ \E f, rep : batches' = [batches EXCEPT ![Len(batches)].report[f] = rep]
      BY <1>4 DEF FixFileWithOptions
    <3> QED BY <1>1, <3>1
  <2> QED BY <1>4, <2>1, <2>2 DEF FixFileWithOptions, TypeInv
<1>5. CASE EndBatch
  BY <1>1, <1>5 DEF EndBatch, TypeInv
<1>6. CASE Check
  BY <1>6 DEF Check, TypeInv
<1>7. CASE UNCHANGED vars
  BY <1>7 DEF vars, TypeInv
<1> QED BY <1>2, <1>3, <1>4, <1>5, <1>6, <1>7 DEF Next, Done

\* Type correctness: a batch works off the walk's list from the front, and while
\* it does the cache holds the files as the batch found them.
THEOREM TypeCorrect == Spec => []TypeOK
<1>1. Init => OverlaidInv /\ TypeInv /\ IsSuffix(todo, Order)
  BY InitOverlaid, InitTyped
<1>2. OverlaidInv /\ TypeInv /\ IsSuffix(todo, Order) /\ [Next]_vars
        => (OverlaidInv /\ TypeInv /\ IsSuffix(todo, Order))'
  BY StepOverlaid, StepTyped
<1>3. OverlaidInv /\ TypeInv /\ IsSuffix(todo, Order) => TypeOK
  <2>1. \A f : parseGoFileTyped(overlay, f).file = overlay[f]
    BY DEF parseGoFileTyped
  <2> QED BY <2>1 DEF OverlaidInv, TodoInv, OverlayInv, TypeInv, TypeOK
<1> QED BY <1>1, <1>2, <1>3, PTL DEF Spec

=============================================================================
