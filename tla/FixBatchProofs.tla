---------------------------- MODULE FixBatchProofs ----------------------------
(***************************************************************************)
(* `jwxmigrate --fix` on any tree, with any number of faults and kills: a  *)
(* failing file costs nobody else their fixes, exit code 0 leaves matches  *)
(* only where this run edited, and no module is moved by what fired in     *)
(* another.                                                                *)
(***************************************************************************)
EXTENDS FixBatch, JwxRulesProofs

-----------------------------------------------------------------------------
(* Types *)

LEMMA OutcomeTypes ==
    ASSUME NEW c \in FileType
    PROVE  /\ RulesOf(Edited(c)) \in SUBSET RuleId
           /\ \A m \in Reported(c) : m.rule \in RuleId
           /\ RulesOf(Edited(c) \cup Reported(c)) =
                 RulesOf(Edited(c)) \cup {m.rule : m \in Reported(c)}
           /\ \A d \in Outcomes(c) : d \in FileType
<1>1. /\ c.imports \in SUBSET Module
      /\ \A m \in Edited(c) \cup Reported(c) : m.rule \in RuleId
  BY DEF FileType, Match, Edited, Unedited, Reported
<1>2. RulesOf(Edited(c)) \in SUBSET RuleId
  BY <1>1 DEF RulesOf
<1>3. \A r \in RulesOf(Edited(c)) : LeadsTo(r) \subseteq Module
  BY <1>2, RuleFields DEF LeadsTo, RuleType
<1>4. Moved(c) \in SUBSET Module
  BY <1>1, <1>3 DEF Moved
<1>5. \A d \in Outcomes(c) : d \in FileType
  BY <1>4, FixBatchAssumption DEF Outcomes, FileType
<1>6. RulesOf(Edited(c) \cup Reported(c)) = RulesOf(Edited(c)) \cup {m.rule : m \in Reported(c)}
  BY DEF RulesOf
<1> QED BY <1>1, <1>2, <1>5, <1>6

LEMMA FiredTypes ==
    ASSUME TypeOK, NEW f \in Source
    PROVE  recordFired(RootOf[f], RulesOf(Edited(src[f]) \cup Reported(src[f])))
             \in [Root -> SUBSET RuleId]
<1>1. src[f] \in FileType
  BY DEF TypeOK
<1>2. RulesOf(Edited(src[f]) \cup Reported(src[f])) \in SUBSET RuleId
  BY <1>1, OutcomeTypes
<1> QED BY <1>2 DEF recordFired, TypeOK

\* One more failure: the ones before it are kept.
LEMMA Appended ==
    ASSUME TypeOK, NEW f \in Source \cup Root
    PROVE  /\ Append(failures, f) \in Seq(Source \cup Root)
           /\ Append(failures, f) # <<>>
           /\ \E i \in DOMAIN Append(failures, f) : Append(failures, f)[i] = f
           /\ \A i \in DOMAIN failures :
                 i \in DOMAIN Append(failures, f) /\ Append(failures, f)[i] = failures[i]
<1>1. failures \in Seq(Source \cup Root) /\ Len(failures) \in Nat
  BY DEF TypeOK
<1>2. /\ Append(failures, f) \in Seq(Source \cup Root)
      /\ DOMAIN Append(failures, f) = 1 .. Len(failures) + 1
      /\ DOMAIN failures = 1 .. Len(failures)
      /\ Append(failures, f)[Len(failures) + 1] = f
      /\ \A i \in 1 .. Len(failures) : Append(failures, f)[i] = failures[i]
  BY <1>1
<1>3. Append(failures, f) # <<>>
  BY <1>1
<1> QED BY <1>1, <1>2, <1>3

LEMMA TidiedType ==
    ASSUME TypeOK, NEW g \in Root
    PROVE  TidiedRequires(g) \in Requires
BY ModuleAssumption DEF TidiedRequires, TypeOK, Requires, MaybeVersion, NoVersion

\* What handling a go.mod does, without the LET.
LEMMA FixGoModEffect ==
    ASSUME NEW g \in Root, FixGoMod(g)
    PROVE  /\ pc = "gomods" /\ g \in todo.mod
           /\ todo' = [todo EXCEPT !.mod = @ \ {g}]
           /\ \/ /\ gomod' = [gomod EXCEPT ![g] = FixedRequires(gomod[g], fired[g])]
                 /\ UNCHANGED <<failures, faults>>
              \/ /\ Fault
                 /\ failures' = Append(failures, g)
                 /\ UNCHANGED gomod
           /\ tidyDirs' \in {tidyDirs, tidyDirs \cup {g}}
           /\ UNCHANGED <<src, pc, batch, fired, remaining, exit, runs, applied, before>>
BY DEF FixGoMod, history

LEMMA InitType == Init => TypeOK
BY FixBatchAssumption DEF Init, TypeOK, NoBatch

LEMMA StepType == TypeOK /\ [Next]_vars => TypeOK'
<1> SUFFICES ASSUME TypeOK, [Next]_vars PROVE TypeOK'
  OBVIOUS
<1> USE FixBatchAssumption DEF disk, history, Fault, NoBatch
<1>1. ASSUME NEW t \in Targets, Start(t) PROVE TypeOK'
  BY <1>1 DEF Start, TypeOK
<1>2. ASSUME NEW f \in Source, FixSource(f) PROVE TypeOK'
  <2>1. src[f] \in FileType
    BY DEF TypeOK
  <2>2. \A c \in Outcomes(src[f]) : [src EXCEPT ![f] = c] \in [Source -> FileType]
    BY <2>1, OutcomeTypes DEF TypeOK
  <2>3. recordFired(RootOf[f], RulesOf(Edited(src[f]) \cup Reported(src[f])))
          \in [Root -> SUBSET RuleId]
    BY FiredTypes
  <2>4. /\ todo' \in [src : SUBSET batch.src, mod : SUBSET batch.mod]
        /\ UNCHANGED <<gomod, pc, batch, tidyDirs, exit, runs, before>>
    BY <1>2 DEF FixSource, TypeOK
  <2>5. src' \in [Source -> FileType] /\ fired' \in [Root -> SUBSET RuleId]
    <3>1. src \in [Source -> FileType] /\ fired \in [Root -> SUBSET RuleId]
      BY DEF TypeOK
    <3>2. \/ /\ \E c \in Outcomes(src[f]) : src' = [src EXCEPT ![f] = c]
             /\ fired' = recordFired(RootOf[f], RulesOf(Edited(src[f]) \cup Reported(src[f])))
          \/ UNCHANGED <<src, fired>>
      BY <1>2 DEF FixSource
    <3> QED BY ONLY <2>2, <2>3, <3>1, <3>2
  <2>6. failures' \in Seq(Source \cup Root)
    <3>1. failures \in Seq(Source \cup Root) /\ Append(failures, f) \in Seq(Source \cup Root)
      BY Appended DEF TypeOK
    <3>2. failures' \in {failures, Append(failures, f)}
      BY <1>2 DEF FixSource
    <3> QED BY <3>1, <3>2
  <2>7. remaining' \subseteq Source \X RuleId /\ applied' \in [Root -> SUBSET RuleId]
    <3>1. \A m \in Reported(src[f]) : m.rule \in RuleId
      BY <2>1, OutcomeTypes
    <3>2. RulesOf(Edited(src[f])) \in SUBSET RuleId
      BY <2>1, OutcomeTypes
    <3> QED BY <1>2, <3>1, <3>2 DEF FixSource, TypeOK
  <2>8. faults' \in 0 .. MaxFaults
    BY <1>2 DEF FixSource, TypeOK
  <2> QED BY <2>4, <2>5, <2>6, <2>7, <2>8 DEF TypeOK
<1>3. CASE SourcesDone
  BY <1>3 DEF SourcesDone, TypeOK
<1>4. ASSUME NEW g \in Root, FixGoMod(g) PROVE TypeOK'
  <2>1. FixedRequires(gomod[g], fired[g]) \in Requires
    BY FixedVersions DEF TypeOK
  <2>2. gomod \in [Root -> Requires] /\ failures \in Seq(Source \cup Root)
    BY DEF TypeOK
  <2>3. gomod' \in [Root -> Requires] /\ failures' \in Seq(Source \cup Root)
    <3>1. CASE failures' = Append(failures, g) /\ gomod' = gomod
      BY <2>2, <3>1, Appended
    <3>2. CASE failures' = failures /\ gomod' = [gomod EXCEPT ![g] = FixedRequires(gomod[g], fired[g])]
      BY <2>1, <2>2, <3>2
    <3> QED BY <1>4, <3>1, <3>2, FixGoModEffect
  <2>4. g \in batch.mod
    BY <1>4, FixGoModEffect DEF TypeOK
  <2>5. /\ todo' \in [src : SUBSET batch.src, mod : SUBSET batch.mod]
        /\ tidyDirs' \subseteq batch.mod
    BY <1>4, <2>4, FixGoModEffect DEF TypeOK
  <2>6. faults' \in 0 .. MaxFaults
    BY <1>4, FixGoModEffect DEF TypeOK
  <2>7. UNCHANGED <<src, pc, batch, fired, remaining, exit, runs, applied, before>>
    BY <1>4, FixGoModEffect
  <2> QED BY <2>3, <2>5, <2>6, <2>7 DEF TypeOK
<1>5. CASE GoModsDone
  BY <1>5 DEF GoModsDone, TypeOK
<1>6. ASSUME NEW g \in Root, Tidy(g) PROVE TypeOK'
  <2>1. UNCHANGED <<src, pc, batch, todo, fired, remaining, exit, runs, applied, before>>
    BY <1>6 DEF Tidy, history
  <2>2. gomod' \in [Root -> Requires] /\ tidyDirs' \subseteq batch.mod
    BY <1>6, TidiedType DEF Tidy, TypeOK
  <2>3. failures' \in Seq(Source \cup Root)
    <3>1. failures \in Seq(Source \cup Root) /\ Append(failures, g) \in Seq(Source \cup Root)
      BY Appended DEF TypeOK
    <3>2. failures' \in {failures, Append(failures, g)}
      BY <1>6 DEF Tidy, history
    <3> QED BY <3>1, <3>2
  <2>4. faults' \in 0 .. MaxFaults
    BY <1>6 DEF Tidy, TypeOK
  <2> QED BY <2>1, <2>2, <2>3, <2>4 DEF TypeOK
<1>7. CASE Exit
  BY <1>7 DEF Exit, TypeOK
<1>8. CASE Kill
  BY <1>8 DEF Kill, TypeOK
<1>9. CASE UNCHANGED vars
  BY <1>9 DEF vars, memory, TypeOK
<1>10. CASE Finished
  BY <1>9, <1>10 DEF Finished
<1> QED
  BY <1>1, <1>2, <1>3, <1>4, <1>5, <1>6, <1>7, <1>8, <1>9, <1>10 DEF Next, Step

\* The state of the batch driver keeps its types: what is to be tidied is in the
\* batch, what fired and what was applied are rules of the set.
THEOREM TypeCorrect == Spec => []TypeOK
<1>1. Init => TypeOK
  BY InitType
<1>2. TypeOK /\ [Next]_vars => TypeOK'
  BY StepType
<1> QED BY <1>1, <1>2, PTL DEF Spec

-----------------------------------------------------------------------------
(* What an invocation knows while it runs and once it has its exit code *)

Knowing == pc # "idle" \/ exit # "none"

Failed(f) == \E i \in DOMAIN failures : failures[i] = f

\* What came of a Go file as the invocation found it, with what is to be reported
\* of it on record.
Handled(f) ==
    /\ src[f] \in Outcomes(before[f])
    /\ \A m \in Reported(before[f]) : <<f, m.rule>> \in remaining

\* A Go file the batch has not come to is as the invocation found it; one it is
\* through with has failed or been handled.
SourceInv ==
    /\ Knowing =>
          \A f \in batch.src :
              /\ f \in todo.src => src[f] = before[f]
              /\ f \notin todo.src => Failed(f) \/ Handled(f)
    /\ (Knowing /\ pc # "sources") => todo.src = {}
    /\ exit # "none" => pc = "idle"
    /\ exit = "clean" => failures = <<>> /\ remaining = {}

\* No file imports a rewritten path without an import the rule can edit.
Rewritable(c) ==
    \A r \in importRewriteRules : Rules[r].from \in c.imports => r \in RulesOf(Edited(c))

ImportInv == \A f \in Source : Rewritable(src[f]) /\ Rewritable(before[f])

\* What fired in a module was applied to one of its files or reported in one of
\* them by this run; in a first run, everything applied has fired.
FiredInv ==
    /\ \A g \in Root : fired[g] \subseteq applied[g] \cup ReportedIn(g)
    /\ \A g \in Root : runs = 0 => applied[g] = {}
    /\ \A g \in Root : (runs = 1 /\ Knowing) => applied[g] \subseteq fired[g]

\* A go.mod the batch is through with meets the floors of what fired, and if
\* its whole module was handled it requires no rewritten path.
ModInv ==
    /\ pc = "sources" => todo.mod = batch.mod
    /\ (Knowing /\ pc \in {"tidy", "idle"}) => todo.mod = {}
    /\ (Knowing /\ pc # "sources" /\ failures = <<>>) =>
          \A g \in batch.mod \ todo.mod :
              /\ Meets(gomod[g], fired[g])
              /\ SourcesOf(g) \subseteq batch.src => ActiveRewrites(gomod[g]) = {}

\* A process that runs has been started.
RunInv == pc # "idle" => runs # 0

BatchInv == TypeOK /\ RunInv /\ SourceInv /\ ImportInv /\ FiredInv /\ ModInv

\* Whatever the fixes make of a file, it imports no rewritten path.
LEMMA OutcomeImports ==
    ASSUME NEW c \in FileType, Rewritable(c), NEW d \in Outcomes(c),
           NEW r \in importRewriteRules
    PROVE  Rules[r].from \notin d.imports
<1>1. CASE Edited(c) = {}
  BY <1>1 DEF Outcomes, Rewritable, RulesOf
<1>2. CASE Edited(c) # {}
  <2>1. d.imports = Moved(c)
    BY <1>2 DEF Outcomes
  <2>2. RulesOf(Edited(c)) \subseteq RuleId
    BY OutcomeTypes
  <2>3. Rules[r].from \notin UNION {LeadsTo(s) : s \in RulesOf(Edited(c))}
    BY <2>2, NoWayBack
  <2>4. r \in RulesOf(Edited(c)) =>
          Rules[r].from \in UNION {Retires(c, s) : s \in RulesOf(Edited(c))}
    BY DEF Retires
  <2>5. Rules[r].from \in c.imports => r \in RulesOf(Edited(c))
    BY DEF Rewritable
  <2> QED BY ONLY <2>1, <2>3, <2>4, <2>5 DEF Moved
<1> QED BY <1>1, <1>2

\* go mod tidy keeps the versions of what is imported and leaves out the rest,
\* so it undoes neither.
LEMMA TidyKeeps ==
    ASSUME TypeOK, NEW g \in Root, NEW F \in SUBSET RuleId
    PROVE  /\ Meets(gomod[g], F) => Meets(TidiedRequires(g), F)
           /\ (\A r \in importRewriteRules, f \in SourcesOf(g) : Rules[r].from \notin src[f].imports)
                => ActiveRewrites(TidiedRequires(g)) = {}
<1>1. ASSUME Meets(gomod[g], F), NEW r \in F, NEW m \in Module, TidiedRequires(g)[m] # NoVersion
      PROVE  Rules[r].floors[m] <= TidiedRequires(g)[m]
  <2>1. Rules[r].floors[m] <= HighestRank
    BY RuleFields, ModuleAssumption DEF MaybeVersion
  <2> QED BY <1>1, <2>1 DEF TidiedRequires, Meets
<1>2. ASSUME \A r \in importRewriteRules, f \in SourcesOf(g) : Rules[r].from \notin src[f].imports,
             NEW r \in importRewriteRules
      PROVE  TidiedRequires(g)[Rules[r].from] = NoVersion
  <2>1. Rules[r].from \in Module
    BY RuleFields DEF importRewriteRules, RuleType
  <2>2. Rules[r].from \notin Imported(g)
    BY <1>2 DEF Imported, SourcesOf
  <2> QED BY <2>1, <2>2 DEF TidiedRequires
<1> QED BY <1>1, <1>2 DEF Meets, ActiveRewrites

LEMMA InitBatch == Init => BatchInv
<1> SUFFICES ASSUME Init PROVE BatchInv
  OBVIOUS
<1>1. ImportInv
  BY ContentsAssumption, FixBatchAssumption DEF Init, ImportInv, Rewritable
<1>2. FiredInv
  BY DEF Init, FiredInv, Knowing
<1> QED BY <1>1, <1>2, InitType DEF Init, BatchInv, RunInv, SourceInv, ModInv, Knowing

\* Handling a Go file.
LEMMA FixSourceKeeps ==
    ASSUME BatchInv, NEW f \in Source, FixSource(f)
    PROVE  BatchInv'
<1>0. TypeOK /\ TypeOK'
  BY StepType DEF BatchInv, Next, Step
<1>1. /\ pc = "sources" /\ pc' = "sources" /\ f \in todo.src
      /\ todo' = [todo EXCEPT !.src = @ \ {f}]
      /\ todo'.src = todo.src \ {f} /\ todo'.mod = todo.mod
      /\ UNCHANGED <<gomod, batch, tidyDirs, exit, runs, before>>
      /\ src[f] \in FileType
  BY <1>0 DEF FixSource, TypeOK
<1>2. ASSUME NEW c \in Outcomes(src[f]),
             src' = [src EXCEPT ![f] = c],
             remaining' = remaining \cup {<<f, m.rule>> : m \in Reported(src[f])},
             fired' = recordFired(RootOf[f], RulesOf(Edited(src[f]) \cup Reported(src[f]))),
             applied' = IF RootOf[f] \in Root
                          THEN [applied EXCEPT ![RootOf[f]] = @ \cup RulesOf(Edited(src[f]))]
                          ELSE applied,
             UNCHANGED failures
      PROVE  BatchInv'
  <2>1. src'[f] = c /\ \A h \in Source : h # f => src'[h] = src[h]
    BY <1>0, <1>2 DEF TypeOK
  <2>2. SourceInv'
    <3>1. exit = "none" /\ src[f] = before[f]
      <4>1. f \in batch.src
        BY <1>0, <1>1 DEF TypeOK
      <4> QED BY <1>1, <4>1 DEF BatchInv, SourceInv, Knowing
    <3>2. ASSUME NEW h \in batch.src
          PROVE  /\ h \in todo'.src => src'[h] = before[h]
                 /\ h \notin todo'.src => Failed(h)' \/ Handled(h)'
      <4>0. h \in Source
        BY <1>0 DEF TypeOK
      <4>1. CASE h = f
        <5>1. src'[f] \in Outcomes(before[f])
          BY <2>1, <3>1
        <5>2. \A m \in Reported(before[f]) : <<f, m.rule>> \in remaining'
          BY <1>2, <3>1
        <5>3. before' = before /\ h \notin todo'.src
          BY <1>1, <4>1
        <5> QED BY <4>1, <5>1, <5>2, <5>3 DEF Handled, Outcomes, Reported, MayMatch, Moved, Retires
      <4>2. CASE h # f
        <5>1. /\ h \in todo.src => src[h] = before[h]
              /\ h \notin todo.src => Failed(h) \/ Handled(h)
          BY <1>1 DEF BatchInv, SourceInv, Knowing
        <5>2. /\ src'[h] = src[h] /\ (h \in todo'.src <=> h \in todo.src)
              /\ before' = before /\ remaining \subseteq remaining' /\ failures' = failures
          BY <1>1, <1>2, <2>1, <4>0, <4>2
        <5>3. Failed(h) => Failed(h)'
          BY <5>2 DEF Failed
        <5>4. Handled(h) => Handled(h)'
          BY <5>2 DEF Handled, Outcomes, Reported, MayMatch, Moved, Retires
        <5> QED BY <5>1, <5>2, <5>3, <5>4
      <4> QED BY <4>1, <4>2
    <3>3. pc' = "sources" /\ batch' = batch /\ before' = before /\ exit' = "none"
      BY <1>1, <3>1
    <3> QED BY <3>2, <3>3 DEF SourceInv
  <2>3. ImportInv'
    <3>1. Rewritable(src[f])
      BY DEF BatchInv, ImportInv
    <3>2. \A r \in importRewriteRules : Rules[r].from \notin src'[f].imports
      BY <1>1, <2>1, <3>1, OutcomeImports
    <3>3. Rewritable(src[f])'
      BY <3>2 DEF Rewritable
    <3>4. \A h \in Source : h # f => Rewritable(src'[h])
      BY <2>1 DEF BatchInv, ImportInv
    <3> QED BY <1>1, <3>3, <3>4 DEF BatchInv, ImportInv, Rewritable
  <2>4. /\ \A g \in Root : applied'[g] = IF g = RootOf[f] THEN applied[g] \cup RulesOf(Edited(src[f]))
                                                          ELSE applied[g]
        /\ \A g \in Root : fired'[g] =
              IF g = RootOf[f]
                THEN fired[g] \cup (RulesOf(Edited(src[f])) \cup {m.rule : m \in Reported(src[f])})
                ELSE fired[g]
    <3>1. applied \in [Root -> SUBSET RuleId] /\ fired \in [Root -> SUBSET RuleId]
      BY <1>0 DEF TypeOK
    <3>2. RulesOf(Edited(src[f]) \cup Reported(src[f])) =
            RulesOf(Edited(src[f])) \cup {m.rule : m \in Reported(src[f])}
      BY <1>1, OutcomeTypes
    <3> QED BY <1>2, <3>1, <3>2 DEF recordFired
  <2>5. FiredInv'
    <3>1. \A g \in Root : ReportedIn(g) \subseteq ReportedIn(g)'
      BY <1>2 DEF ReportedIn
    <3>2. \A g \in Root : fired'[g] \subseteq applied'[g] \cup ReportedIn(g)'
      <4> SUFFICES ASSUME NEW g \in Root PROVE fired'[g] \subseteq applied'[g] \cup ReportedIn(g)'
        OBVIOUS
      <4>1. fired[g] \subseteq applied[g] \cup ReportedIn(g)
        BY DEF BatchInv, FiredInv
      <4>2. CASE g = RootOf[f]
        <5>1. /\ fired'[g] = fired[g] \cup (RulesOf(Edited(src[f])) \cup {m.rule : m \in Reported(src[f])})
              /\ applied'[g] = applied[g] \cup RulesOf(Edited(src[f]))
          BY <2>4, <4>2
        <5>2. \A m \in Reported(src[f]) : m.rule \in RuleId /\ <<f, m.rule>> \in remaining'
          BY <1>1, <1>2, OutcomeTypes
        <5>3. f \in SourcesOf(g)
          BY <4>2 DEF SourcesOf
        <5>4. {m.rule : m \in Reported(src[f])} \subseteq ReportedIn(g)'
          BY <5>2, <5>3 DEF ReportedIn, SourcesOf
        <5>5. ReportedIn(g) \subseteq ReportedIn(g)'
          BY <3>1
        <5> QED BY ONLY <4>1, <5>1, <5>4, <5>5
      <4>3. CASE g # RootOf[f]
        BY <2>4, <3>1, <4>1, <4>3
      <4> QED BY <4>2, <4>3
    <3>3. \A g \in Root : runs' = 1 => applied'[g] \subseteq fired'[g]
      <4>1. \A g \in Root : runs = 1 => applied[g] \subseteq fired[g]
        BY <1>1 DEF BatchInv, FiredInv, Knowing
      <4>2. runs' = runs
        BY <1>1
      <4> QED BY <2>4, <4>1, <4>2
    <3>4. runs # 0
      BY <1>1 DEF BatchInv, RunInv
    <3> QED BY <1>1, <3>2, <3>3, <3>4 DEF FiredInv
  <2>6. ModInv'
    BY <1>1 DEF BatchInv, ModInv, Knowing
  <2> QED BY <1>0, <1>1, <2>2, <2>3, <2>5, <2>6 DEF BatchInv, RunInv
<1>3. CASE /\ failures' = Append(failures, f)
           /\ UNCHANGED <<src, remaining, fired, applied>>
  <2>1. ASSUME NEW h \in batch.src
        PROVE  /\ h \in todo'.src => src[h] = before[h]
               /\ h \notin todo'.src => Failed(h)' \/ Handled(h)
    <3>1. CASE h = f
      BY <1>0, <1>1, <1>3, <3>1, Appended DEF Failed
    <3>2. CASE h # f
      BY <1>0, <1>1, <1>3, <3>2, Appended DEF BatchInv, SourceInv, Knowing, Failed
    <3> QED BY <3>1, <3>2
  <2>2. exit = "none"
    BY <1>1 DEF BatchInv, SourceInv
  <2>3. SourceInv'
    BY <1>1, <1>3, <2>1, <2>2 DEF SourceInv, Handled
  <2> QED BY <1>0, <1>1, <1>3, <2>2, <2>3
          DEF BatchInv, ImportInv, FiredInv, ReportedIn, ModInv, RunInv, Knowing
<1> QED BY <1>2, <1>3 DEF FixSource

\* Handling a go.mod.
LEMMA FixGoModKeeps ==
    ASSUME BatchInv, NEW g \in Root, FixGoMod(g)
    PROVE  BatchInv'
<1>0. TypeOK /\ TypeOK'
  BY StepType DEF BatchInv, Next, Step
<1>1. /\ pc = "gomods" /\ pc' = "gomods" /\ g \in todo.mod
      /\ todo'.mod = todo.mod \ {g} /\ todo'.src = todo.src
      /\ UNCHANGED <<src, batch, fired, remaining, exit, runs, applied, before>>
      /\ exit = "none" /\ todo.src = {}
  BY <1>0, FixGoModEffect DEF TypeOK, BatchInv, SourceInv, Knowing
<1>2. RunInv' /\ ImportInv' /\ FiredInv'
  BY <1>1 DEF BatchInv, RunInv, ImportInv, FiredInv, ReportedIn, Knowing
<1>3. SourceInv'
  <2>1. \A f \in batch.src : Failed(f) => Failed(f)'
    BY <1>0, FixGoModEffect, Appended DEF Failed
  <2> QED BY <1>1, <2>1 DEF BatchInv, SourceInv, Handled, Knowing
<1>4. ModInv'
  <2>1. CASE failures' = Append(failures, g)
    BY <1>0, <1>1, <2>1, Appended DEF ModInv, Knowing
  <2>2. CASE /\ failures' = failures
             /\ gomod' = [gomod EXCEPT ![g] = FixedRequires(gomod[g], fired[g])]
    <3>1. /\ gomod'[g] = FixedRequires(gomod[g], fired[g])
          /\ \A h \in Root : h # g => gomod'[h] = gomod[h]
      BY <1>0, <2>2 DEF TypeOK
    <3>2. Meets(gomod'[g], fired[g]) /\ ActiveRewrites(gomod'[g]) = {}
      BY <1>0, <3>1, FixedVersions DEF TypeOK, Settled
    <3>3. \A h \in batch.mod \ todo'.mod : h \in Root /\ (h = g \/ h \in batch.mod \ todo.mod)
      BY <1>0, <1>1 DEF TypeOK
    <3> QED BY <1>1, <2>2, <3>1, <3>2, <3>3 DEF BatchInv, ModInv, Knowing
  <2> QED BY <2>1, <2>2, FixGoModEffect
<1> QED BY <1>0, <1>2, <1>3, <1>4 DEF BatchInv

\* go mod tidy in one module.
LEMMA TidyStepKeeps ==
    ASSUME BatchInv, NEW g \in Root, Tidy(g)
    PROVE  BatchInv'
<1>0. TypeOK /\ TypeOK'
  BY StepType DEF BatchInv, Next, Step
<1>1. /\ pc = "tidy" /\ pc' = "tidy" /\ g \in batch.mod
      /\ UNCHANGED <<src, batch, todo, fired, remaining, exit, runs, applied, before>>
      /\ exit = "none" /\ todo.src = {} /\ todo.mod = {}
  BY <1>0 DEF Tidy, history, TypeOK, BatchInv, SourceInv, ModInv, Knowing
<1>2. RunInv' /\ ImportInv' /\ FiredInv'
  BY <1>1 DEF BatchInv, RunInv, ImportInv, FiredInv, ReportedIn, Knowing
<1>3. SourceInv'
  <2>1. \A f \in batch.src : Failed(f) => Failed(f)'
    BY <1>0, Appended DEF Tidy, Failed
  <2> QED BY <1>1, <2>1 DEF BatchInv, SourceInv, Handled, Knowing
<1>4. ModInv'
  <2>1. CASE failures' = Append(failures, g)
    BY <1>0, <1>1, <2>1, Appended DEF ModInv, Knowing
  <2>2. CASE failures' = failures /\ gomod' = [gomod EXCEPT ![g] = TidiedRequires(g)]
    <3>1. gomod'[g] = TidiedRequires(g) /\ \A h \in Root : h # g => gomod'[h] = gomod[h]
      BY <1>0, <2>2 DEF TypeOK
    <3>2. ASSUME failures = <<>>
          PROVE  /\ Meets(gomod'[g], fired[g])
                 /\ SourcesOf(g) \subseteq batch.src => ActiveRewrites(gomod'[g]) = {}
      <4>1. fired[g] \in SUBSET RuleId /\ Meets(gomod[g], fired[g])
        BY <1>0, <1>1, <3>2 DEF TypeOK, BatchInv, ModInv, Knowing
      <4>2. SourcesOf(g) \subseteq batch.src =>
              \A r \in importRewriteRules, f \in SourcesOf(g) : Rules[r].from \notin src[f].imports
        <5> SUFFICES ASSUME NEW f \in batch.src, NEW r \in importRewriteRules
                     PROVE  Rules[r].from \notin src[f].imports
          OBVIOUS
        <5>1. f \in Source /\ before[f] \in FileType /\ Rewritable(before[f])
          BY <1>0 DEF TypeOK, BatchInv, ImportInv
        <5>2. src[f] \in Outcomes(before[f])
          BY <1>1, <3>2 DEF BatchInv, SourceInv, Handled, Knowing, Failed
        <5> QED BY <5>1, <5>2, OutcomeImports
      <4>3. /\ Meets(gomod[g], fired[g]) => Meets(TidiedRequires(g), fired[g])
            /\ (\A r \in importRewriteRules, f \in SourcesOf(g) : Rules[r].from \notin src[f].imports)
                 => ActiveRewrites(TidiedRequires(g)) = {}
        BY <1>0, <4>1, TidyKeeps
      <4> QED BY <3>1, <4>1, <4>2, <4>3
    <3>3. \A h \in batch.mod : h \in Root
      BY <1>0 DEF TypeOK
    <3> QED BY <1>1, <2>2, <3>1, <3>2, <3>3 DEF BatchInv, ModInv, Knowing
  <2> QED BY <2>1, <2>2 DEF Tidy
<1> QED BY <1>0, <1>2, <1>3, <1>4 DEF BatchInv

LEMMA StepBatch == BatchInv /\ [Next]_vars => BatchInv'
<1> SUFFICES ASSUME BatchInv, [Next]_vars PROVE BatchInv'
  OBVIOUS
<1>0. TypeOK /\ TypeOK'
  BY StepType DEF BatchInv
<1> USE <1>0 DEF disk, history, BatchInv, RunInv, SourceInv, Handled, ImportInv, FiredInv,
                 ReportedIn, ModInv, Knowing, Failed
<1>1. ASSUME NEW t \in Targets, Start(t) PROVE BatchInv'
  <2>1. /\ runs \in Nat /\ runs' = runs + 1 /\ runs' # 0
        /\ runs' = 1 => \A g \in Root : applied[g] = {}
    BY <1>1, FixBatchAssumption DEF Start, TypeOK
  <2>2. \A g \in Root : fired'[g] = {}
    BY <1>1 DEF Start
  <2>3. batch'.src \ todo'.src = {} /\ pc' = "sources" /\ exit' = "none" /\ before' = src'
    BY <1>1 DEF Start
  <2> QED BY <1>1, <2>1, <2>2, <2>3 DEF Start
<1>2. ASSUME NEW f \in Source, FixSource(f) PROVE BatchInv'
  BY <1>2, FixSourceKeeps
<1>3. CASE SourcesDone
  BY <1>3 DEF SourcesDone, TypeOK
<1>4. ASSUME NEW g \in Root, FixGoMod(g) PROVE BatchInv'
  BY <1>4, FixGoModKeeps
<1>5. CASE GoModsDone
  BY <1>5 DEF GoModsDone
<1>6. ASSUME NEW g \in Root, Tidy(g) PROVE BatchInv'
  BY <1>6, TidyStepKeeps
<1>7. CASE Exit
  BY <1>7 DEF Exit
<1>8. CASE Kill
  <2>1. \A g \in Root : fired'[g] = {}
    BY <1>8 DEF Kill
  <2> QED BY <1>8, <2>1 DEF Kill
<1>9. CASE UNCHANGED vars
  BY <1>9 DEF vars, memory
<1>10. CASE Finished
  BY <1>9, <1>10 DEF Finished
<1> QED
  BY <1>1, <1>2, <1>3, <1>4, <1>5, <1>6, <1>7, <1>8, <1>9, <1>10 DEF Next, Step

LEMMA Batching == Spec => []BatchInv
<1>1. Init => BatchInv
  BY InitBatch
<1>2. BatchInv /\ [Next]_vars => BatchInv'
  BY StepBatch
<1> QED BY <1>1, <1>2, PTL DEF Spec

\* Exit code 0 of runFix, after whatever faults, kills and runs: a match is left
\* in the batch only in a file that this run edited, and only of a rule it was
\* edited for or of one whose matches these edits write; and no go.mod of a
\* module handled as a whole requires what was to be replaced, tidied or not.
THEOREM CleanExitLeavesOnlyEdited == Spec => []ExitZeroLeavesOnlyEdited
<1>1. ASSUME BatchInv PROVE ExitZeroLeavesOnlyEdited
  <2> SUFFICES ASSUME exit = "clean" PROVE ExitZeroLeavesOnlyEdited
    BY DEF ExitZeroLeavesOnlyEdited
  <2>1. /\ pc = "idle" /\ failures = <<>> /\ remaining = {} /\ todo.src = {} /\ todo.mod = {}
    BY <1>1 DEF BatchInv, SourceInv, ModInv, Knowing
  <2>2. ASSUME NEW f \in batch.src
        PROVE  RulesOf(src[f].matches) \subseteq
                 UNION {{r} \cup Uncovers[r] : r \in RulesOf(Edited(before[f]))}
    <3>1. src[f] \in Outcomes(before[f]) /\ Reported(before[f]) = {}
      <4>1. Failed(f) \/ Handled(f)
        BY <1>1, <2>1 DEF BatchInv, SourceInv, Knowing
      <4>2. ~ Failed(f)
        BY <2>1 DEF Failed
      <4>3. Handled(f)
        BY <4>1, <4>2
      <4> QED BY <2>1, <4>3 DEF Handled
    <3>2. RulesOf(Unedited(before[f])) \subseteq RulesOf(Edited(before[f]))
      BY <3>1 DEF Reported, RulesOf
    <3>3. RulesOf(src[f].matches) \subseteq MayMatch(before[f])
      <4>1. CASE Edited(before[f]) = {}
        BY <3>1, <4>1 DEF Outcomes, MayMatch, Unedited, RulesOf
      <4>2. CASE Edited(before[f]) # {}
        BY <3>1, <4>2 DEF Outcomes
      <4> QED BY <4>1, <4>2
    <3> QED BY <3>2, <3>3 DEF MayMatch
  <2>3. \A g \in batch.mod : SourcesOf(g) \subseteq batch.src => ActiveRewrites(gomod[g]) = {}
    BY <1>1, <2>1 DEF BatchInv, ModInv, Knowing
  <2> QED BY <2>2, <2>3 DEF ExitZeroLeavesOnlyEdited, ActiveRewrites
<1> QED BY <1>1, Batching, PTL

\* A first run that exits with 0 leaves every go.mod of the batch at the floors
\* of the rules applied in its module, because the go.mod files come last.
THEOREM FirstRunIsEnough == Spec => []FirstRunMeetsFloors
<1>1. ASSUME BatchInv PROVE FirstRunMeetsFloors
  <2> SUFFICES ASSUME exit = "clean", runs = 1, NEW g \in batch.mod PROVE AppliedFloorsMet(g)
    BY DEF FirstRunMeetsFloors
  <2>1. g \in Root /\ todo.mod = {} /\ failures = <<>> /\ pc = "idle"
    BY <1>1 DEF BatchInv, TypeOK, SourceInv, ModInv, Knowing
  <2>2. applied[g] \subseteq fired[g] /\ Meets(gomod[g], fired[g])
    BY <1>1, <2>1 DEF BatchInv, FiredInv, ModInv, Knowing
  <2> QED BY <2>2 DEF AppliedFloorsMet, Meets
<1> QED BY <1>1, Batching, PTL

\* Whatever fails in fixFiles, every Go file that did not fail is what its fixes
\* make of it.
THEOREM FailuresAreIsolated == Spec => []FailureIsIsolated
<1>1. BatchInv => FailureIsIsolated
  <2> SUFFICES ASSUME BatchInv, exit # "none", NEW f \in batch.src, ~ Failed(f)
               PROVE  src[f] \in Outcomes(before[f])
    BY DEF FailureIsIsolated, Failed
  <2> QED BY DEF BatchInv, SourceInv, Handled, Knowing
<1> QED BY <1>1, Batching, PTL

\* Neither fixGoMod nor go mod tidy writes over a version one that only a rule
\* of another module of the batch asks for.
THEOREM NoModuleMovesAnother == Spec => ModulesIndependent
<1> DEFINE Independent ==
      \A g \in Root : \A m \in Module :
          (gomod[g][m] # NoVersion /\ gomod'[g][m] \notin {NoVersion, gomod[g][m]})
             => \/ gomod'[g][m] = Baseline
                \/ \E r \in applied[g] \cup ReportedIn(g) :
                      Rules[r].floors[m] = gomod'[g][m]
<1>1. ASSUME BatchInv, [Next]_vars PROVE [Independent]_gomod
  <2> SUFFICES ASSUME gomod' # gomod,
                      NEW g \in Root, NEW m \in Module,
                      gomod[g][m] # NoVersion, gomod'[g][m] \notin {NoVersion, gomod[g][m]}
               PROVE  \/ gomod'[g][m] = Baseline
                      \/ \E r \in applied[g] \cup ReportedIn(g) :
                            Rules[r].floors[m] = gomod'[g][m]
    OBVIOUS
  <2>0. gomod \in [Root -> Requires] /\ fired \in [Root -> SUBSET RuleId]
    BY <1>1 DEF BatchInv, TypeOK
  <2>1. ASSUME NEW h \in Root, FixGoMod(h)
        PROVE  \/ gomod'[g][m] = Baseline
               \/ \E r \in applied[g] \cup ReportedIn(g) :
                     Rules[r].floors[m] = gomod'[g][m]
    <3>1. h = g /\ gomod'[g] = FixedRequires(gomod[g], fired[g])
      BY <2>0, <2>1, FixGoModEffect
    <3>2. Sourced(gomod'[g][m], m, gomod[g], fired[g])
      BY <2>0, <3>1, FixedVersions
    <3>3. fired[g] \subseteq applied[g] \cup ReportedIn(g)
      BY <1>1 DEF BatchInv, FiredInv
    <3> QED BY <3>2, <3>3 DEF Sourced
  <2>2. ASSUME NEW h \in Root, Tidy(h)
        PROVE  FALSE
    <3>1. h = g /\ gomod'[g] = TidiedRequires(g)
      BY <2>0, <2>2 DEF Tidy
    <3> QED BY <3>1 DEF TidiedRequires
  <2>3. \E h \in Root : FixGoMod(h) \/ Tidy(h)
    BY <1>1 DEF Next, Step, Start, FixSource, SourcesDone, GoModsDone, Exit, Kill, Finished,
                vars, disk, history
  <2> QED BY <2>1, <2>2, <2>3
<1> QED BY <1>1, Batching, PTL DEF Spec, ModulesIndependent

=============================================================================
