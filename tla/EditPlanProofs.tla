---------------------------- MODULE EditPlanProofs ----------------------------
(***************************************************************************)
(* The plan of the edits to a Go file (collectEdits, deduplicateEdits,     *)
(* applyEdits and the correlation with the findings, fix.go:69-148), for   *)
(* any rules, any text and any edits the fixers return.                    *)
(***************************************************************************)
EXTENDS EditPlan, TLAPS, FiniteSetTheorems, WellFoundedInduction, SequenceTheorems

LEMMA MinExists ==
    ASSUME NEW S \in SUBSET Nat, S # {}
    PROVE  /\ Min(S) \in S
           /\ \A s \in S : Min(S) <= s
<1> DEFINE R == OpToRel(<, Nat)
<1>1. PICK d \in S : \A e \in S : ~ (<<e, d>> \in R)
  <2>1. IsWellFoundedOn(R, Nat)
    BY NatLessThanWellFounded
  <2> HIDE DEF R
  <2> QED BY <2>1, WFMin
<1>2. R = {ss \in Nat \X Nat : ss[1] < ss[2]}
  BY DEF OpToRel
<1> HIDE DEF R
<1>3. ASSUME NEW e \in S PROVE d <= e
  <2>1. <<e, d>> \in Nat \X Nat
    OBVIOUS
  <2> QED BY <1>1, <1>2, <2>1
<1> QED BY <1>3 DEF Min

LEMMA MaxExists ==
    ASSUME NEW n \in Nat, NEW S \in SUBSET (0 .. n), S # {}
    PROVE  /\ Max(S) \in S
           /\ \A s \in S : s <= Max(S)
<1> DEFINE D == {d \in Nat : \E k \in S : d = n - k}
<1>1. D \in SUBSET Nat /\ D # {}
  <2>1. PICK k \in S : k \in 0 .. n
    OBVIOUS
  <2>2. n - k \in D
    BY <2>1
  <2> QED BY <2>2
<1>2. Min(D) \in D /\ \A d \in D : Min(D) <= d
  <2> HIDE DEF D
  <2> QED BY <1>1, MinExists
<1>3. PICK m \in S : Min(D) = n - m
  BY <1>2
<1>4. \A k \in S : n - k \in D
  OBVIOUS
<1>5. \A k \in S : k <= m
  <2>1. TAKE k \in S
  <2>2. n - m <= n - k /\ k \in 0 .. n /\ m \in 0 .. n
    BY <1>2, <1>3, <1>4
  <2> QED BY <2>2
<1> QED BY <1>5 DEF Max

-----------------------------------------------------------------------------
(* The file and its lines *)

LEMMA FileFields ==
    ASSUME NEW f \in Files
    PROVE  /\ f.text \in Seq(STRING) /\ Len(f.text) \in Nat
           /\ DOMAIN f.specs = 1 .. Len(f.specs) /\ Len(f.specs) \in Nat
           /\ \A i \in DOMAIN f.specs :
                /\ f.specs[i].at \in Nat /\ f.specs[i].path \in Nat /\ f.specs[i].end \in Nat
                /\ f.specs[i].at <= f.specs[i].path
                /\ f.specs[i].path < f.specs[i].end
                /\ f.specs[i].end < Len(f.text)
           /\ \A c \in f.calls :
                /\ c.rule \in RuleId /\ c.line \in Nat /\ c.line # 0
                /\ \A e \in c.edits : /\ e.start \in Nat /\ e.end \in Nat /\ e.start <= e.end
                                      /\ e.new \in Seq(STRING)
<1>1. f.specs \in Seq(ImportSpec) /\ f.calls \subseteq Call
  BY FilesAssumption
<1>2. \A i \in DOMAIN f.specs : f.specs[i] \in ImportSpec
  BY <1>1
<1>3. \A c \in f.calls : c \in Call
  BY <1>1
<1>4. \A c \in f.calls : c.edits \subseteq TextEdit
  BY <1>3 DEF Call
<1> QED BY <1>1, <1>2, <1>3, <1>4, FilesAssumption DEF ImportSpec, Call, TextEdit

LEMMA RuleIds == RuleId \in SUBSET Nat /\ \A r \in RuleId : Rules[r] \in RuleType
BY RulesAssumption DEF RuleId

LEMMA LineOfType ==
    ASSUME NEW f \in Files, NEW offset \in Nat
    PROVE  LineOf(f, offset) \in Nat /\ LineOf(f, offset) # 0
<1>1. IsFiniteSet(1 .. offset)
  BY FS_Interval
<1>2. IsFiniteSet({k \in 1 .. offset : f.text[k] = Newline})
  BY <1>1, FS_Subset
<1>3. Cardinality({k \in 1 .. offset : f.text[k] = Newline}) \in Nat
  BY <1>2, FS_CardinalityType
<1> QED BY <1>3 DEF LineOf

\* The start of a line is at or before the offset, and after the line breaks
\* that come before it.
LEMMA LineStartIs ==
    ASSUME NEW f \in Files, NEW offset \in Nat
    PROVE  /\ LineStart(f, offset) \in Nat /\ LineStart(f, offset) <= offset
           /\ \A k \in 1 .. offset : f.text[k] = Newline => k <= LineStart(f, offset)
<1> DEFINE S == {0} \cup {k \in 1 .. offset : f.text[k] = Newline}
<1>1. S \in SUBSET (0 .. offset) /\ S # {}
  OBVIOUS
<1>2. LineStart(f, offset) = Max(S)
  BY DEF LineStart
<1>3. \A k \in 1 .. offset : f.text[k] = Newline => k \in S
  OBVIOUS
<1> HIDE DEF S
<1>4. Max(S) \in S /\ \A k \in S : k <= Max(S)
  BY <1>1, MaxExists
<1>5. LineStart(f, offset) \in 0 .. offset
  BY <1>1, <1>2, <1>4
<1>6. \A k \in 1 .. offset : f.text[k] = Newline => k <= LineStart(f, offset)
  BY <1>2, <1>3, <1>4
<1> QED BY <1>5, <1>6

LEMMA LineEndIs ==
    ASSUME NEW f \in Files, NEW offset \in Nat, offset < Len(f.text)
    PROVE  /\ LineEnd(f, offset) \in Nat /\ offset < LineEnd(f, offset)
           /\ \A k \in offset + 1 .. Len(f.text) : f.text[k] = Newline => LineEnd(f, offset) <= k
<1> DEFINE S == {Len(f.text)} \cup {k \in offset + 1 .. Len(f.text) : f.text[k] = Newline}
<1>1. Len(f.text) \in Nat
  BY FileFields
<1>2. S \in SUBSET Nat /\ S # {} /\ \A k \in S : offset < k
  BY <1>1
<1>3. LineEnd(f, offset) = Min(S)
  BY DEF LineEnd
<1>4. \A k \in offset + 1 .. Len(f.text) : f.text[k] = Newline => k \in S
  OBVIOUS
<1> HIDE DEF S
<1>5. Min(S) \in S /\ \A k \in S : Min(S) <= k
  BY <1>2, MinExists
<1> QED BY <1>2, <1>3, <1>4, <1>5

LEMMA LineEndWithin ==
    ASSUME NEW f \in Files, NEW offset \in Nat
    PROVE  LineEnd(f, offset) <= Len(f.text)
<1> DEFINE S == {Len(f.text)} \cup {k \in offset + 1 .. Len(f.text) : f.text[k] = Newline}
<1>1. Len(f.text) \in Nat
  BY FileFields
<1>2. S \in SUBSET Nat /\ S # {} /\ Len(f.text) \in S
  BY <1>1
<1>3. LineEnd(f, offset) = Min(S)
  BY DEF LineEnd
<1> HIDE DEF S
<1> QED BY <1>2, <1>3, MinExists

-----------------------------------------------------------------------------
(* What collectEdits collects *)

\* An edit of the walk changes an import, removes one or is one a fixer returned
\* for a call.
LEMMA WalkEdit ==
    ASSUME NEW f, NEW rules, NEW e \in WalkEdits(f, rules)
    PROVE  \E r \in rules :
              \/ /\ Rules[r].kind = "import_change"
                 /\ \E i \in SpecsOf(f, r) : e = fixImportChange(f, i, r)
              \/ /\ Rules[r].kind = "extension_absorbed"
                 /\ \E i \in SpecsOf(f, r) : e = fixImportRemoval(f, i, r)
              \/ \E c \in f.calls : c.rule = r /\ \E d \in c.edits :
                    e = Tagged(d.start, d.end, d.new, r, c.line)
<1>1. PICK r \in rules : e \in RuleEdits(f, r)
  BY DEF WalkEdits
<1>2. ASSUME e \in CallEdits(f, r)
      PROVE  \E c \in f.calls : c.rule = r /\ \E d \in c.edits :
                e = Tagged(d.start, d.end, d.new, r, c.line)
  BY <1>2 DEF CallEdits, Matched
<1>3. \/ e \in CallEdits(f, r)
      \/ /\ Rules[r].kind = "import_change"
         /\ \E i \in SpecsOf(f, r) : e = fixImportChange(f, i, r)
      \/ /\ Rules[r].kind = "extension_absorbed"
         /\ \E i \in SpecsOf(f, r) : e = fixImportRemoval(f, i, r)
  BY <1>1 DEF RuleEdits
<1> QED BY <1>2, <1>3

LEMMA SpecsOfFile ==
    ASSUME NEW f \in Files, NEW r, NEW i \in SpecsOf(f, r)
    PROVE  /\ i \in DOMAIN f.specs /\ f.specs[i].name = Rules[r].old
           /\ f.specs[i].at \in Nat /\ f.specs[i].path \in Nat /\ f.specs[i].end \in Nat
           /\ f.specs[i].at <= f.specs[i].path /\ f.specs[i].path < f.specs[i].end
           /\ f.specs[i].end < Len(f.text)
BY FileFields DEF SpecsOf

\* A removal takes the import spec, or the whole line it is on.
LEMMA RemovalIs ==
    ASSUME NEW f \in Files, NEW r, NEW i \in SpecsOf(f, r), NEW e, e = fixImportRemoval(f, i, r)
    PROVE  /\ e.new = <<>> /\ e.rule = r /\ e.line = LineOf(f, f.specs[i].at)
           /\ \/ e.start = f.specs[i].at /\ e.end = f.specs[i].end
              \/ e.start = LineStart(f, f.specs[i].at) /\ e.end = LineEnd(f, f.specs[i].end)
BY DEF fixImportRemoval, Tagged

\* An edit with its place in the file and the rule it comes from.
Placed(e, rules) ==
    /\ e.start \in Nat /\ e.end \in Nat /\ e.start <= e.end
    /\ e.rule \in rules /\ e.line \in Nat

LEMMA WalkPlaced ==
    ASSUME NEW f \in Files, NEW rules \in SUBSET RuleId, NEW e \in WalkEdits(f, rules)
    PROVE  Placed(e, rules) /\ e.line # 0
<1>1. PICK r \in rules :
        \/ \E i \in SpecsOf(f, r) : e = fixImportChange(f, i, r)
        \/ /\ Rules[r].kind = "extension_absorbed"
           /\ \E i \in SpecsOf(f, r) : e = fixImportRemoval(f, i, r)
        \/ \E c \in f.calls : c.rule = r /\ \E d \in c.edits :
              e = Tagged(d.start, d.end, d.new, r, c.line)
  BY WalkEdit
<1>2. ASSUME NEW i \in SpecsOf(f, r), e = fixImportChange(f, i, r)
      PROVE  Placed(e, rules) /\ e.line # 0
  <2>1. /\ e.start = f.specs[i].path /\ e.end = f.specs[i].end
        /\ e.rule = r /\ e.line = LineOf(f, f.specs[i].at)
    BY <1>2 DEF fixImportChange, Tagged
  <2>2. f.specs[i].path \in Nat /\ f.specs[i].end \in Nat /\ f.specs[i].path < f.specs[i].end
        /\ LineOf(f, f.specs[i].at) \in Nat /\ LineOf(f, f.specs[i].at) # 0
    BY SpecsOfFile, LineOfType
  <2> QED BY <2>1, <2>2 DEF Placed
<1>3. ASSUME NEW i \in SpecsOf(f, r), e = fixImportRemoval(f, i, r)
      PROVE  Placed(e, rules) /\ e.line # 0
  <2>1. /\ e.rule = r /\ e.line = LineOf(f, f.specs[i].at)
        /\ \/ e.start = f.specs[i].at /\ e.end = f.specs[i].end
           \/ e.start = LineStart(f, f.specs[i].at) /\ e.end = LineEnd(f, f.specs[i].end)
    BY <1>3, RemovalIs
  <2>2. /\ f.specs[i].at \in Nat /\ f.specs[i].end \in Nat /\ f.specs[i].at < f.specs[i].end
        /\ f.specs[i].end < Len(f.text)
    <3>1. /\ f.specs[i].at \in Nat /\ f.specs[i].path \in Nat /\ f.specs[i].end \in Nat
          /\ f.specs[i].at <= f.specs[i].path /\ f.specs[i].path < f.specs[i].end
          /\ f.specs[i].end < Len(f.text)
      BY SpecsOfFile
    <3> QED BY <3>1
  <2>4. LineOf(f, f.specs[i].at) \in Nat /\ LineOf(f, f.specs[i].at) # 0
    BY <2>2, LineOfType
  <2>3. /\ LineStart(f, f.specs[i].at) \in Nat /\ LineStart(f, f.specs[i].at) <= f.specs[i].at
        /\ LineEnd(f, f.specs[i].end) \in Nat /\ f.specs[i].end < LineEnd(f, f.specs[i].end)
    BY <2>2, LineStartIs, LineEndIs
  <2> QED BY <2>1, <2>2, <2>3, <2>4 DEF Placed
<1>4. ASSUME NEW c \in f.calls, c.rule = r, NEW d \in c.edits,
             e = Tagged(d.start, d.end, d.new, r, c.line)
      PROVE  Placed(e, rules) /\ e.line # 0
  <2>1. e.start = d.start /\ e.end = d.end /\ e.rule = r /\ e.line = c.line
    BY <1>4 DEF Tagged
  <2> QED BY <2>1, FileFields DEF Placed
<1> QED BY <1>1, <1>2, <1>3, <1>4

LEMMA AskingRule ==
    ASSUME NEW f, NEW rules \in SUBSET RuleId, NEW kind, NEW p, NEW E, Asking(f, rules, kind, p, E) # {}
    PROVE  Min(Asking(f, rules, kind, p, E)) \in rules
<1>1. Asking(f, rules, kind, p, E) \subseteq rules
  BY DEF Asking
<1>2. Asking(f, rules, kind, p, E) \in SUBSET Nat
  BY <1>1, RuleIds
<1> QED BY <1>1, <1>2, MinExists

\* The anchor is an import that stays.
LEMMA AnchorIs ==
    ASSUME NEW f \in Files, NEW E, Undeleted(f, E) # {}
    PROVE  \E i \in Undeleted(f, E) :
              i \in DOMAIN f.specs /\ insertAnchor(f, E) = f.specs[i].at /\ f.specs[i].at \in Nat
<1>1. Undeleted(f, E) \subseteq DOMAIN f.specs
  BY DEF Undeleted
<1>2. DOMAIN f.specs \in SUBSET Nat
  BY FileFields
<1>3. Min(Undeleted(f, E)) \in Undeleted(f, E)
  BY <1>1, <1>2, MinExists
<1> QED BY <1>1, <1>3, FileFields DEF insertAnchor

LEMMA InjectionIs ==
    ASSUME NEW f, NEW rules \in SUBSET RuleId, NEW kind, NEW E,
           NEW e \in Injections(f, rules, kind, E)
    PROVE  \E p \in Paths, r \in rules :
              \/ e \in appendImportEdit(f, OsPath, r)
              \/ e \in appendImportEdit(f, p, r)
              \/ e \in appendImportEditAt(f, p, r, E)
<1>1. PICK p \in Paths :
        /\ Asking(f, rules, kind, p, E) # {}
        /\ LET r == Min(Asking(f, rules, kind, p, E))
           IN  e \in CASE kind = "readfile_to_parsefs" -> appendImportEdit(f, OsPath, r)
                       [] importedAs(f, p) -> {}
                       [] kind = "extension_absorbed" -> appendImportEditAt(f, p, r, E)
                       [] OTHER -> appendImportEdit(f, p, r)
  BY DEF Injections
<1>2. PICK r \in rules :
        e \in CASE kind = "readfile_to_parsefs" -> appendImportEdit(f, OsPath, r)
                [] importedAs(f, p) -> {}
                [] kind = "extension_absorbed" -> appendImportEditAt(f, p, r, E)
                [] OTHER -> appendImportEdit(f, p, r)
  BY <1>1, AskingRule
<1> QED BY <1>2

\* An injected import is an insertion at no line of its own.
LEMMA InjectionPlaced ==
    ASSUME NEW f \in Files, NEW rules \in SUBSET RuleId, NEW kind, NEW E,
           NEW e \in Injections(f, rules, kind, E)
    PROVE  Placed(e, rules) /\ e.start = e.end /\ e.line = 0 /\ e.new # <<>>
<1>3. PICK p \in Paths, r \in rules :
        \/ e \in appendImportEdit(f, OsPath, r)
        \/ e \in appendImportEdit(f, p, r)
        \/ e \in appendImportEditAt(f, p, r, E)
  BY InjectionIs
<1>4. ASSUME NEW path, e \in appendImportEdit(f, path, r)
      PROVE  Placed(e, rules) /\ e.start = e.end /\ e.line = 0 /\ e.new # <<>>
  <2>1. f.specs[1].at \in Nat
    <3>1. 1 \in DOMAIN f.specs
      <4>1. PICK i \in DOMAIN f.specs : TRUE
        BY ImportsAssumption
      <4> QED BY <4>1, FileFields
    <3> QED BY <3>1, FileFields
  <2>2. LineStart(f, f.specs[1].at) \in Nat
    BY <2>1, LineStartIs
  <2> QED BY <1>4, <2>2 DEF appendImportEdit, Tagged, Placed
<1>5. ASSUME e \in appendImportEditAt(f, p, r, E)
      PROVE  Placed(e, rules) /\ e.start = e.end /\ e.line = 0 /\ e.new # <<>>
  <2>1. Undeleted(f, E) # {}
    BY <1>5 DEF appendImportEditAt
  <2>2. insertAnchor(f, E) \in Nat
    BY <2>1, AnchorIs
  <2>3. e = Tagged(insertAnchor(f, E), insertAnchor(f, E), <<p, Newline, Tab>>, r, 0)
    BY <1>5, <2>1 DEF appendImportEditAt
  <2>4. <<p, Newline, Tab>> # <<>>
    OBVIOUS
  <2>5. /\ e.start = insertAnchor(f, E) /\ e.end = insertAnchor(f, E)
        /\ e.new = <<p, Newline, Tab>> /\ e.rule = r /\ e.line = 0
    BY <2>3 DEF Tagged
  <2> QED BY <2>2, <2>4, <2>5 DEF Placed
<1> QED BY <1>3, <1>4, <1>5

LEMMA CollectedIs ==
    ASSUME NEW f \in Files, NEW rules \in SUBSET RuleId, NEW e \in collectEdits(f, rules)
    PROVE  /\ Placed(e, rules)
           /\ e \in WalkEdits(f, rules) \/ (e.start = e.end /\ e.line = 0 /\ e.new # <<>>)
<1>1. \/ e \in WalkEdits(f, rules)
      \/ \E kind : e \in Injections(f, rules, kind, WalkEdits(f, rules))
  BY DEF collectEdits
<1> QED BY <1>1, WalkPlaced, InjectionPlaced

-----------------------------------------------------------------------------
(* Where an absorbed import is injected *)

\* Of two imports the line of the first ends before the second starts.
LEMMA SpecsApart ==
    ASSUME NEW f \in Files, NEW i \in DOMAIN f.specs, NEW j \in DOMAIN f.specs, i < j
    PROVE  /\ f.specs[i].end < f.specs[j].at
           /\ f.specs[i].end < LineStart(f, f.specs[j].at)
           /\ LineEnd(f, f.specs[i].end) <= f.specs[j].at
<1>1. PICK k \in f.specs[i].end + 1 .. f.specs[j].at : f.text[k] = Newline
  BY ImportsAssumption
<1>2. /\ f.specs[i].end \in Nat /\ f.specs[j].at \in Nat /\ Len(f.text) \in Nat
      /\ f.specs[i].end < Len(f.text) /\ f.specs[j].at < Len(f.text)
  <2>1. /\ f.specs[i].end \in Nat /\ f.specs[i].end < Len(f.text) /\ Len(f.text) \in Nat
        /\ f.specs[j].at \in Nat /\ f.specs[j].path \in Nat /\ f.specs[j].end \in Nat
        /\ f.specs[j].at <= f.specs[j].path /\ f.specs[j].path < f.specs[j].end
        /\ f.specs[j].end < Len(f.text)
    BY FileFields
  <2> QED BY <2>1
<1>3. k \in Nat /\ f.specs[i].end < k /\ k <= f.specs[j].at
  BY <1>1, <1>2
<1>4. k <= LineStart(f, f.specs[j].at) /\ LineStart(f, f.specs[j].at) \in Nat
  BY <1>1, <1>2, <1>3, LineStartIs
<1>5. LineEnd(f, f.specs[i].end) <= k /\ LineEnd(f, f.specs[i].end) \in Nat
  BY <1>1, <1>2, <1>3, LineEndIs
<1> QED BY <1>2, <1>3, <1>4, <1>5

\* The import of jwx stays, so there is one to put the new import beside.
LEMMA SomeImportStays ==
    ASSUME NEW f \in Files, NEW rules \in SUBSET RuleId
    PROVE  Undeleted(f, WalkEdits(f, rules)) # {}
<1>1. PICK i \in DOMAIN f.specs : \A r \in RuleId :
        Rules[r].kind = "extension_absorbed" => Rules[r].old # f.specs[i].name
  BY ImportsAssumption
<1>2. /\ f.specs[i].at \in Nat /\ f.specs[i].end \in Nat /\ f.specs[i].at < f.specs[i].end
      /\ DOMAIN f.specs \in SUBSET Nat
  BY FileFields
<1>3. ASSUME NEW e \in WalkEdits(f, rules), e.new = <<>>
      PROVE  ~ (e.start <= f.specs[i].at /\ f.specs[i].at < e.end)
  <2>1. PICK r \in rules :
          \/ /\ Rules[r].kind = "import_change"
             /\ \E j \in SpecsOf(f, r) : e = fixImportChange(f, j, r)
          \/ /\ Rules[r].kind = "extension_absorbed"
             /\ \E j \in SpecsOf(f, r) : e = fixImportRemoval(f, j, r)
          \/ \E c \in f.calls : c.rule = r /\ \E d \in c.edits :
                e = Tagged(d.start, d.end, d.new, r, c.line)
    BY WalkEdit
  <2>2. ASSUME NEW j \in SpecsOf(f, r), e = fixImportChange(f, j, r)
        PROVE  FALSE
    <3>1. e.new = <<Rules[r].new>>
      BY <2>2 DEF fixImportChange, Tagged
    <3>2. Len(e.new) = 1
      BY <3>1
    <3> QED BY <1>3, <3>2
  <2>3. ASSUME NEW j \in SpecsOf(f, r), e = fixImportRemoval(f, j, r),
               Rules[r].kind = "extension_absorbed"
        PROVE  ~ (e.start <= f.specs[i].at /\ f.specs[i].at < e.end)
    <3>1. /\ \/ e.start = f.specs[j].at /\ e.end = f.specs[j].end
             \/ e.start = LineStart(f, f.specs[j].at) /\ e.end = LineEnd(f, f.specs[j].end)
      BY <2>3, RemovalIs
    <3>2. /\ j \in DOMAIN f.specs /\ j # i /\ f.specs[j].at \in Nat /\ f.specs[j].end \in Nat
          /\ f.specs[j].end < Len(f.text)
      BY <1>1, <2>3, SpecsOfFile
    <3>3. /\ LineStart(f, f.specs[j].at) \in Nat
          /\ LineEnd(f, f.specs[j].end) \in Nat
      BY <3>2, LineStartIs, LineEndIs
    <3>4. CASE i < j
      <4>1. f.specs[i].end < f.specs[j].at /\ f.specs[i].end < LineStart(f, f.specs[j].at)
        BY <3>2, <3>4, SpecsApart
      <4> QED BY <1>2, <3>1, <3>2, <3>3, <4>1
    <3>5. CASE j < i
      <4>1. f.specs[j].end < f.specs[i].at /\ LineEnd(f, f.specs[j].end) <= f.specs[i].at
        BY <3>2, <3>5, SpecsApart
      <4> QED BY <1>2, <3>1, <3>2, <3>3, <4>1
    <3> QED BY <1>2, <3>2, <3>4, <3>5
  <2>4. ASSUME NEW c \in f.calls, NEW d \in c.edits, e = Tagged(d.start, d.end, d.new, r, c.line)
        PROVE  ~ (e.start <= f.specs[i].at /\ f.specs[i].at < e.end)
    <3>1. e.start = d.start /\ f.specs[i].end <= d.start /\ d.start \in Nat
      BY <2>4, ImportsAssumption, FileFields DEF Tagged
    <3> QED BY <1>2, <3>1
  <2> QED BY <2>1, <2>2, <2>3, <2>4
<1>4. i \in Undeleted(f, WalkEdits(f, rules))
  BY <1>3 DEF Undeleted
<1> QED BY <1>4

\* No edit runs across the place where the import is inserted.
LEMMA AnchorIsClear ==
    ASSUME NEW f \in Files, NEW rules \in SUBSET RuleId,
           NEW i \in Undeleted(f, WalkEdits(f, rules)), NEW e \in collectEdits(f, rules)
    PROVE  ~ (e.start < f.specs[i].at /\ f.specs[i].at < e.end)
<1>1. /\ i \in DOMAIN f.specs /\ f.specs[i].at \in Nat /\ f.specs[i].path \in Nat /\ f.specs[i].end \in Nat
      /\ f.specs[i].at <= f.specs[i].path /\ f.specs[i].path < f.specs[i].end
      /\ DOMAIN f.specs \in SUBSET Nat
  BY FileFields DEF Undeleted
<1>2. Placed(e, rules) /\ (e \in WalkEdits(f, rules) \/ e.start = e.end)
  BY CollectedIs
<1>3. CASE e.start = e.end
  BY <1>1, <1>2, <1>3 DEF Placed
<1>4. CASE e \in WalkEdits(f, rules)
  <2>1. PICK r \in rules :
          \/ /\ Rules[r].kind = "import_change"
             /\ \E j \in SpecsOf(f, r) : e = fixImportChange(f, j, r)
          \/ /\ Rules[r].kind = "extension_absorbed"
             /\ \E j \in SpecsOf(f, r) : e = fixImportRemoval(f, j, r)
          \/ \E c \in f.calls : c.rule = r /\ \E d \in c.edits :
                e = Tagged(d.start, d.end, d.new, r, c.line)
    BY <1>4, WalkEdit
  <2>2. ASSUME NEW j \in SpecsOf(f, r), e = fixImportChange(f, j, r)
        PROVE  ~ (e.start < f.specs[i].at /\ f.specs[i].at < e.end)
    <3>1. e.start = f.specs[j].path /\ e.end = f.specs[j].end
      BY <2>2 DEF fixImportChange, Tagged
    <3>2. /\ j \in DOMAIN f.specs /\ f.specs[j].at \in Nat /\ f.specs[j].path \in Nat
          /\ f.specs[j].end \in Nat /\ f.specs[j].at <= f.specs[j].path
      BY SpecsOfFile
    <3>3. CASE i = j
      BY <1>1, <3>1, <3>3
    <3>4. CASE i < j
      <4>1. f.specs[i].end < f.specs[j].at
        BY <1>1, <3>2, <3>4, SpecsApart
      <4> QED BY <1>1, <3>1, <3>2, <4>1
    <3>5. CASE j < i
      <4>1. f.specs[j].end < f.specs[i].at
        BY <1>1, <3>2, <3>5, SpecsApart
      <4> QED BY <1>1, <3>1, <3>2, <4>1
    <3> QED BY <1>1, <3>2, <3>3, <3>4, <3>5
  <2>3. ASSUME NEW j \in SpecsOf(f, r), e = fixImportRemoval(f, j, r)
        PROVE  ~ (e.start < f.specs[i].at /\ f.specs[i].at < e.end)
    <3>1. e.new = <<>>
      BY <2>3, RemovalIs
    <3>2. ~ (e.start <= f.specs[i].at /\ f.specs[i].at < e.end)
      BY <1>4, <3>1 DEF Undeleted
    <3> QED BY <1>1, <1>2, <3>2 DEF Placed
  <2>4. ASSUME NEW c \in f.calls, NEW d \in c.edits, e = Tagged(d.start, d.end, d.new, r, c.line)
        PROVE  ~ (e.start < f.specs[i].at /\ f.specs[i].at < e.end)
    <3>1. e.start = d.start /\ f.specs[i].end <= d.start /\ d.start \in Nat
      BY <1>1, <2>4, ImportsAssumption, FileFields DEF Tagged
    <3> QED BY <1>1, <3>1
  <2> QED BY <2>1, <2>2, <2>3, <2>4
<1> QED BY <1>2, <1>3, <1>4

\* An import that no rule of the set renames or absorbs keeps its path.
Settled(f, i) ==
    \A s \in RuleId :
        Rules[s].kind \in {"import_change", "extension_absorbed"} => Rules[s].old # f.specs[i].name

LEMMA ImportStays ==
    ASSUME NEW f \in Files, NEW rules \in SUBSET RuleId, NEW i \in DOMAIN f.specs, Settled(f, i),
           NEW e \in collectEdits(f, rules)
    PROVE  ~ (e.start <= f.specs[i].path /\ f.specs[i].path < e.end)
<1>1. /\ f.specs[i].at \in Nat /\ f.specs[i].path \in Nat /\ f.specs[i].end \in Nat
      /\ f.specs[i].at <= f.specs[i].path /\ f.specs[i].path < f.specs[i].end
      /\ DOMAIN f.specs \in SUBSET Nat
  BY FileFields
<1>2. Placed(e, rules) /\ (e \in WalkEdits(f, rules) \/ e.start = e.end)
  BY CollectedIs
<1>3. CASE e.start = e.end
  BY <1>1, <1>2, <1>3 DEF Placed
<1>4. CASE e \in WalkEdits(f, rules)
  <2>1. PICK r \in rules :
          \/ /\ Rules[r].kind = "import_change"
             /\ \E j \in SpecsOf(f, r) : e = fixImportChange(f, j, r)
          \/ /\ Rules[r].kind = "extension_absorbed"
             /\ \E j \in SpecsOf(f, r) : e = fixImportRemoval(f, j, r)
          \/ \E c \in f.calls : c.rule = r /\ \E d \in c.edits :
                e = Tagged(d.start, d.end, d.new, r, c.line)
    BY <1>4, WalkEdit
  <2>2. ASSUME NEW j \in SpecsOf(f, r), Rules[r].kind \in {"import_change", "extension_absorbed"},
               e = fixImportChange(f, j, r) \/ e = fixImportRemoval(f, j, r)
        PROVE  ~ (e.start <= f.specs[i].path /\ f.specs[i].path < e.end)
    <3>1. /\ j \in DOMAIN f.specs /\ f.specs[j].at \in Nat /\ f.specs[j].path \in Nat
          /\ f.specs[j].end \in Nat /\ f.specs[j].at <= f.specs[j].path
          /\ f.specs[j].end < Len(f.text) /\ f.specs[j].name = Rules[r].old
      BY SpecsOfFile
    <3>2. i # j
      BY <2>2, <3>1 DEF Settled
    <3>3. \/ e.start = f.specs[j].path /\ e.end = f.specs[j].end
          \/ e.start = f.specs[j].at /\ e.end = f.specs[j].end
          \/ e.start = LineStart(f, f.specs[j].at) /\ e.end = LineEnd(f, f.specs[j].end)
      BY <2>2, RemovalIs DEF fixImportChange, Tagged
    <3>4. /\ LineStart(f, f.specs[j].at) \in Nat
          /\ LineEnd(f, f.specs[j].end) \in Nat
      BY <3>1, LineStartIs, LineEndIs
    <3>5. CASE i < j
      <4>1. f.specs[i].end < f.specs[j].at /\ f.specs[i].end < LineStart(f, f.specs[j].at)
        BY <3>1, <3>5, SpecsApart
      <4> QED BY <1>1, <3>1, <3>3, <3>4, <4>1
    <3>6. CASE j < i
      <4>1. f.specs[j].end < f.specs[i].at /\ LineEnd(f, f.specs[j].end) <= f.specs[i].at
        BY <3>1, <3>6, SpecsApart
      <4> QED BY <1>1, <3>1, <3>3, <3>4, <4>1
    <3> QED BY <1>1, <3>1, <3>2, <3>5, <3>6
  <2>3. ASSUME NEW c \in f.calls, NEW d \in c.edits, e = Tagged(d.start, d.end, d.new, r, c.line)
        PROVE  ~ (e.start <= f.specs[i].path /\ f.specs[i].path < e.end)
    <3>1. e.start = d.start /\ f.specs[i].end <= d.start /\ d.start \in Nat
      BY <2>3, ImportsAssumption, FileFields DEF Tagged
    <3> QED BY <1>1, <3>1
  <2> QED BY <2>1, <2>2, <2>3
<1> QED BY <1>2, <1>3, <1>4

\* Only the edit of a call re-qualifies, and for a rule with an absorbed_into.
LEMMA RequalifyingCall ==
    ASSUME NEW f \in Files, NEW rules \in SUBSET RuleId, NEW e \in collectEdits(f, rules),
           Requalifying(e)
    PROVE  Rules[e.rule].new # NoPath
<1>1. e \in WalkEdits(f, rules)
  BY CollectedIs DEF Requalifying
<1>2. PICK r \in rules :
        \/ /\ Rules[r].kind = "import_change"
           /\ \E j \in SpecsOf(f, r) : e = fixImportChange(f, j, r)
        \/ /\ Rules[r].kind = "extension_absorbed"
           /\ \E j \in SpecsOf(f, r) : e = fixImportRemoval(f, j, r)
        \/ \E c \in f.calls : c.rule = r /\ \E d \in c.edits :
              e = Tagged(d.start, d.end, d.new, r, c.line)
  BY <1>1, WalkEdit
<1>3. e.rule = r
  BY <1>2, RemovalIs DEF fixImportChange, Tagged
<1>4. PICK c \in f.calls : c.rule = r /\ c.edits # {}
  BY <1>2, <1>3, RemovalIs DEF Requalifying
<1> QED BY <1>3, <1>4, ImportsAssumption DEF Requalifying

\* Where selectors are re-qualified, the import they need is there or collected.
LEMMA ImportIsCollected ==
    ASSUME NEW f \in Files, NEW rules \in SUBSET RuleId, NEW e \in collectEdits(f, rules),
           Rules[e.rule].kind = "extension_absorbed", e.line # 0, e.new # <<>>,
           ~ importedAs(f, Rules[e.rule].new)
    PROVE  \E d \in collectEdits(f, rules), i \in Undeleted(f, WalkEdits(f, rules)) :
              /\ d.start = f.specs[i].at /\ d.end = f.specs[i].at /\ d.line = 0
              /\ Rules[e.rule].new \in Range(d.new)
<1> DEFINE E == WalkEdits(f, rules)
<1>1. e \in E
  BY CollectedIs
<1>2. PICK r \in rules :
        \/ /\ Rules[r].kind = "import_change"
           /\ \E j \in SpecsOf(f, r) : e = fixImportChange(f, j, r)
        \/ /\ Rules[r].kind = "extension_absorbed"
           /\ \E j \in SpecsOf(f, r) : e = fixImportRemoval(f, j, r)
        \/ \E c \in f.calls : c.rule = r /\ \E d \in c.edits :
              e = Tagged(d.start, d.end, d.new, r, c.line)
  BY <1>1, WalkEdit
<1>3. e.rule = r
  BY <1>2, RemovalIs DEF fixImportChange, Tagged
<1> DEFINE p == Rules[r].new
<1>4. p \in Paths
  <2>1. PICK c \in f.calls : c.rule = r /\ c.edits # {}
    BY <1>2, <1>3, RemovalIs
  <2>2. p # NoPath
    BY <1>3, <2>1, ImportsAssumption
  <2> QED BY <2>2 DEF Paths
<1> DEFINE A == Asking(f, rules, "extension_absorbed", p, E)
<1>5. r \in A
  BY <1>1, <1>3 DEF Asking
<1>6. Undeleted(f, E) # {}
  BY SomeImportStays
<1> DEFINE d == Tagged(insertAnchor(f, E), insertAnchor(f, E), <<p, Newline, Tab>>, Min(A), 0)
<1> HIDE DEF E
<1>7. d \in appendImportEditAt(f, p, Min(A), E)
  BY <1>6 DEF appendImportEditAt
<1>8. d \in Injections(f, rules, "extension_absorbed", E)
  <2>1. ~ importedAs(f, p)
    BY <1>3
  <2> HIDE DEF d, A, p
  <2>2. d \in LET q == Min(A)
              IN  CASE "extension_absorbed" = "readfile_to_parsefs" -> appendImportEdit(f, OsPath, q)
                    [] importedAs(f, p) -> {}
                    [] "extension_absorbed" = "extension_absorbed" -> appendImportEditAt(f, p, q, E)
                    [] OTHER -> appendImportEdit(f, p, q)
    BY <1>7, <2>1
  <2>3. p \in {q \in Paths : Asking(f, rules, "extension_absorbed", q, E) # {}}
    BY <1>4, <1>5 DEF A
  <2> QED BY <2>2, <2>3 DEF Injections, A
<1>9. d \in collectEdits(f, rules)
  BY <1>8 DEF collectEdits, E
<1>10. p \in Range(d.new) /\ d.start = insertAnchor(f, E) /\ d.end = insertAnchor(f, E) /\ d.line = 0
  <2>1. d.new = <<p, Newline, Tab>> /\ d.start = insertAnchor(f, E) /\ d.end = insertAnchor(f, E) /\ d.line = 0
    BY DEF Tagged
  <2>2. 1 \in DOMAIN <<p, Newline, Tab>> /\ <<p, Newline, Tab>>[1] = p
    OBVIOUS
  <2> HIDE DEF d, p
  <2>3. p \in Range(<<p, Newline, Tab>>)
    BY <2>2 DEF Range
  <2> QED BY <2>1, <2>3
<1>11. PICK i \in Undeleted(f, E) : insertAnchor(f, E) = f.specs[i].at
  BY <1>6, AnchorIs
<1> HIDE DEF d, A
<1> QED BY <1>3, <1>9, <1>10, <1>11 DEF E

-----------------------------------------------------------------------------
(* The steps of FixFileWithOptions *)

\* The order deduplicateEdits sorts in.
Before(d, e) == d.start < e.start \/ (d.start = e.start /\ d.end <= e.end)

\* What is kept is in order and apart, and nothing left comes before it.
KeptInv ==
    /\ kept \in Seq(collectEdits(file, on))
    /\ pending \subseteq collectEdits(file, on)
    /\ \A i, j \in DOMAIN kept : i < j => kept[i].end <= kept[j].start
    /\ kept # <<>> => \A e \in pending : Before(Last(kept), e)

\* The findings left are those no kept edit is for.
ReportInv ==
    /\ remaining \subseteq Findings(file, on)
    /\ queue \subseteq Range(kept)
    /\ pc \in {"apply", "done"} => pending = {}
    /\ pc = "apply" \/ result = "written" =>
         remaining = Findings(file, on) \ fixedAt(Range(kept))
    /\ result = "written" => pc = "done"

FileInv ==
    /\ file \in Files /\ on \in SUBSET RuleId
    /\ pc \in {"collect", "dedupe", "apply", "done"}
    /\ result \in {"none", "written", "error", "reported", "skipped"}
    /\ pc = "collect" => pending = {} /\ kept = <<>>

PlanInv == FileInv /\ KeptInv /\ DroppedOverlaps /\ ReportInv

LEMMA Appending ==
    ASSUME NEW S, NEW s \in Seq(S), NEW x \in S
    PROVE  /\ Append(s, x) \in Seq(S) /\ Append(s, x) # <<>> /\ Last(Append(s, x)) = x
           /\ DOMAIN Append(s, x) = DOMAIN s \cup {Len(s) + 1}
           /\ \A i \in DOMAIN s : i < Len(s) + 1 /\ Append(s, x)[i] = s[i]
           /\ Append(s, x)[Len(s) + 1] = x
           /\ Range(Append(s, x)) = Range(s) \cup {x}
<1>1. Len(s) \in Nat /\ DOMAIN s = 1 .. Len(s)
  OBVIOUS
<1>2. /\ Len(Append(s, x)) = Len(s) + 1
      /\ Append(s, x) \in Seq(S)
      /\ \A i \in 1 .. Len(s) : Append(s, x)[i] = s[i]
      /\ Append(s, x)[Len(s) + 1] = x
  OBVIOUS
<1>3. DOMAIN Append(s, x) = (1 .. Len(s)) \cup {Len(s) + 1}
  BY <1>1, <1>2
<1>4. Last(Append(s, x)) = x /\ Append(s, x) # <<>>
  BY <1>1, <1>2 DEF Last
<1> QED BY <1>1, <1>2, <1>3, <1>4 DEF Range

LEMMA InitPlan == Init => PlanInv
<1> SUFFICES ASSUME Init PROVE PlanInv
  OBVIOUS
<1>1. /\ kept = <<>> /\ pending = {} /\ queue = {} /\ remaining = {} /\ result = "none"
      /\ pc = "collect" /\ file \in Files /\ on \in SUBSET RuleId
  BY DEF Init
<1> QED BY <1>1 DEF PlanInv, FileInv, KeptInv, DroppedOverlaps, ReportInv

\* One round of the loop of deduplicateEdits.
LEMMA DedupeKeeps ==
    ASSUME PlanInv, NEW e \in pending, Dedupe(e)
    PROVE  PlanInv'
<1> DEFINE All == collectEdits(file, on)
<1>1. /\ UNCHANGED <<file, on, pc, queue, remaining, result>> /\ pc = "dedupe"
      /\ \A d \in pending : e.start < d.start \/ (e.start = d.start /\ e.end <= d.end)
      /\ pending' = pending \ {e}
      /\ kept' = IF kept # <<>> /\ e.start < Last(kept).end THEN kept ELSE Append(kept, e)
  BY DEF Dedupe, First
<1>2. /\ file \in Files /\ on \in SUBSET RuleId
      /\ kept \in Seq(All) /\ pending \subseteq All /\ e \in All
      /\ \A i, j \in DOMAIN kept : i < j => kept[i].end <= kept[j].start
      /\ kept # <<>> => \A d \in pending : Before(Last(kept), d)
      /\ queue \subseteq Range(kept)
      /\ \A d \in All \ (pending \cup Range(kept)) : \E k \in Range(kept) : Overlap(d, k)
  BY <1>1 DEF PlanInv, FileInv, KeptInv, DroppedOverlaps, ReportInv
<1>3. /\ \A d \in All : d.start \in Nat /\ d.end \in Nat /\ d.start <= d.end
      /\ kept # <<>> => Last(kept) \in All /\ Last(kept) \in Range(kept)
                        /\ Len(kept) \in DOMAIN kept /\ Last(kept) = kept[Len(kept)]
      /\ \A i \in DOMAIN kept : kept[i] \in All /\ i \in 1 .. Len(kept)
      /\ Len(kept) \in Nat
  <2>1. \A d \in All : d.start \in Nat /\ d.end \in Nat /\ d.start <= d.end
    BY <1>2, CollectedIs DEF Placed
  <2> HIDE DEF All
  <2>2. Len(kept) \in Nat /\ DOMAIN kept = 1 .. Len(kept) /\ \A i \in DOMAIN kept : kept[i] \in All
    BY <1>2
  <2>3. kept # <<>> => Len(kept) \in DOMAIN kept
    BY <1>2
  <2> QED BY <2>1, <2>2, <2>3 DEF Last, Range
<1>4. All' = All
  BY <1>1 DEF collectEdits, WalkEdits, Injections, RuleEdits, CallEdits, Matched
<1> HIDE DEF All
<1>5. CASE kept # <<>> /\ e.start < Last(kept).end
  <2>1. kept' = kept
    BY <1>1, <1>5
  <2>2. Overlap(e, Last(kept)) /\ Last(kept) \in Range(kept)
    BY <1>2, <1>3, <1>5 DEF Before, Overlap
  <2>3. \A d \in All \ (pending' \cup Range(kept')) : \E k \in Range(kept') : Overlap(d, k)
    BY <1>1, <1>2, <2>1, <2>2
  <2>4. KeptInv'
    BY <1>1, <1>2, <1>4, <2>1 DEF KeptInv, All
  <2>5. DroppedOverlaps'
    BY <1>4, <2>3 DEF DroppedOverlaps, All
  <2>6. FileInv' /\ ReportInv'
    BY <1>1, <1>2, <2>1 DEF PlanInv, FileInv, ReportInv, Findings, Matched, SpecsOf
  <2> QED BY <2>4, <2>5, <2>6 DEF PlanInv
<1>6. CASE ~ (kept # <<>> /\ e.start < Last(kept).end)
  <2>1. kept' = Append(kept, e)
    BY <1>1, <1>6
  <2>2. /\ kept' \in Seq(All) /\ kept' # <<>> /\ Last(kept') = e
        /\ DOMAIN kept' = DOMAIN kept \cup {Len(kept) + 1}
        /\ \A i \in DOMAIN kept : i < Len(kept) + 1 /\ kept'[i] = kept[i]
        /\ kept'[Len(kept) + 1] = e
        /\ Range(kept') = Range(kept) \cup {e}
    BY <1>2, <2>1, Appending
  <2>3. \A i \in DOMAIN kept : kept[i].end <= e.start
    <3>1. TAKE i \in DOMAIN kept
    <3>2. kept # <<>>
      BY <1>2, <1>3
    <3>3. Last(kept).end <= e.start
      BY <1>2, <1>3, <1>6, <3>2
    <3>4. i = Len(kept) \/ kept[i].end <= Last(kept).start
      BY <1>2, <1>3, <3>2
    <3> QED BY <1>2, <1>3, <3>2, <3>3, <3>4
  <2>4. \A i, j \in DOMAIN kept' : i < j => kept'[i].end <= kept'[j].start
    BY <1>2, <1>3, <2>2, <2>3
  <2>5. \A d \in All \ (pending' \cup Range(kept')) : \E k \in Range(kept') : Overlap(d, k)
    BY <1>1, <1>2, <2>2
  <2>6. \A d \in pending' : Before(Last(kept'), d)
    BY <1>1, <2>2 DEF Before
  <2>7. KeptInv'
    BY <1>1, <1>2, <1>4, <2>2, <2>4, <2>6 DEF KeptInv, All
  <2>8. DroppedOverlaps'
    BY <1>4, <2>5 DEF DroppedOverlaps, All
  <2>9. FileInv' /\ ReportInv'
    BY <1>1, <1>2, <2>2 DEF PlanInv, FileInv, ReportInv, Findings, Matched, SpecsOf
  <2> QED BY <2>7, <2>8, <2>9 DEF PlanInv
<1> QED BY <1>5, <1>6

LEMMA StepPlan == PlanInv /\ [Next]_vars => PlanInv'
<1> SUFFICES ASSUME PlanInv, [Next]_vars PROVE PlanInv'
  OBVIOUS
<1> DEFINE All == collectEdits(file, on)
           Found == Findings(file, on)
<1>1. ASSUME UNCHANGED <<file, on>>
      PROVE  All' = All /\ Found' = Found
  BY <1>1 DEF collectEdits, WalkEdits, Injections, RuleEdits, CallEdits, Findings, Matched, SpecsOf
<1>2. FileInv /\ KeptInv /\ DroppedOverlaps /\ ReportInv
  BY DEF PlanInv
<1>3. CASE Collect
  <2>1. /\ UNCHANGED <<file, on, kept, queue, remaining, result>> /\ pc = "collect" /\ pc' = "dedupe"
        /\ pending' = All /\ kept = <<>>
    BY <1>2, <1>3 DEF Collect, FileInv
  <2>2. All' = All /\ Found' = Found
    BY <1>1, <2>1
  <2> HIDE DEF All, Found
  <2>3. FileInv'
    BY <1>2, <2>1 DEF FileInv
  <2>4. KeptInv'
    BY <2>1, <2>2 DEF KeptInv, All
  <2>5. DroppedOverlaps'
    BY <2>1, <2>2 DEF DroppedOverlaps, All
  <2>6. ReportInv'
    BY <1>2, <2>1, <2>2 DEF ReportInv, Found
  <2> QED BY <2>3, <2>4, <2>5, <2>6 DEF PlanInv
<1>4. CASE \E e \in pending : Dedupe(e)
  BY <1>4, DedupeKeeps
<1>5. CASE Correlate
  <2>1. /\ UNCHANGED <<file, on, kept, pending>> /\ pc = "dedupe" /\ pending = {}
        /\ remaining' = Found \ fixedAt(Range(kept)) /\ queue' = Range(kept)
        /\ pc' \in {"apply", "done"} /\ (result' \in {"reported", "skipped"} \/ result' = result)
    BY <1>5 DEF Correlate
  <2>2. All' = All /\ Found' = Found
    BY <1>1, <2>1
  <2> HIDE DEF All, Found
  <2>3. FileInv'
    BY <1>2, <2>1 DEF FileInv
  <2>4. KeptInv'
    BY <1>2, <2>1, <2>2 DEF KeptInv, All
  <2>5. DroppedOverlaps'
    BY <1>2, <2>1, <2>2 DEF DroppedOverlaps, All
  <2>6. result' # "written"
    BY <1>2, <2>1 DEF ReportInv
  <2>7. ReportInv'
    BY <2>1, <2>2, <2>6 DEF ReportInv, Found
  <2> QED BY <2>3, <2>4, <2>5, <2>7 DEF PlanInv
<1>6. CASE \E e \in queue : ApplyEdit(e)
  <2>1. /\ UNCHANGED <<file, on, pc, kept, pending, remaining, result>> /\ queue' \subseteq queue
    BY <1>6 DEF ApplyEdit
  <2>2. All' = All /\ Found' = Found
    BY <1>1, <2>1
  <2> HIDE DEF All, Found
  <2>3. FileInv'
    BY <1>2, <2>1 DEF FileInv
  <2>4. KeptInv' /\ DroppedOverlaps'
    BY <1>2, <2>1, <2>2 DEF KeptInv, DroppedOverlaps, All
  <2>5. ReportInv'
    BY <1>2, <2>1, <2>2 DEF ReportInv, Found
  <2> QED BY <2>3, <2>4, <2>5 DEF PlanInv
<1>7. CASE Write
  <2>1. /\ UNCHANGED <<file, on, kept, pending, queue>> /\ pc = "apply" /\ pc' = "done"
        /\ \/ result' = "written" /\ UNCHANGED remaining
           \/ result' = "error" /\ remaining' = {}
    BY <1>7 DEF Write
  <2>2. All' = All /\ Found' = Found
    BY <1>1, <2>1
  <2> HIDE DEF All, Found
  <2>3. FileInv'
    BY <1>2, <2>1 DEF FileInv
  <2>4. KeptInv' /\ DroppedOverlaps'
    BY <1>2, <2>1, <2>2 DEF KeptInv, DroppedOverlaps, All
  <2>5. ReportInv'
    BY <1>2, <2>1, <2>2 DEF ReportInv, Found
  <2> QED BY <2>3, <2>4, <2>5 DEF PlanInv
<1>8. CASE UNCHANGED vars
  <2>1. UNCHANGED <<file, on, pc, kept, pending, queue, remaining, result>>
    BY <1>8 DEF vars
  <2>2. All' = All /\ Found' = Found
    BY <1>1, <2>1
  <2> HIDE DEF All, Found
  <2>3. FileInv'
    BY <1>2, <2>1 DEF FileInv
  <2>4. KeptInv' /\ DroppedOverlaps'
    BY <1>2, <2>1, <2>2 DEF KeptInv, DroppedOverlaps, All
  <2>5. ReportInv'
    BY <1>2, <2>1, <2>2 DEF ReportInv, Found
  <2> QED BY <2>3, <2>4, <2>5 DEF PlanInv
<1> QED BY <1>3, <1>4, <1>5, <1>6, <1>7, <1>8 DEF Next, Finished

LEMMA Planning == Spec => []PlanInv
BY InitPlan, StepPlan, PTL DEF Spec

-----------------------------------------------------------------------------
(* Edits made at once *)

\* Induction on the offsets, from the well-foundedness of their order.
LEMMA Induction ==
    ASSUME NEW N \in Nat, NEW Q, 0 \in Q, \A n \in 1 .. N : n - 1 \in Q => n \in Q
    PROVE  \A n \in 0 .. N : n \in Q
<1> DEFINE T == (0 .. N) \ Q
<1>1. T = {}
  <2>1. SUFFICES ASSUME T # {} PROVE FALSE
    OBVIOUS
  <2>2. Min(T) \in T /\ \A k \in T : Min(T) <= k
    <3>1. T \in SUBSET Nat
      OBVIOUS
    <3> HIDE DEF T
    <3> QED BY <2>1, <3>1, MinExists
  <2>3. PICK m \in T : \A k \in T : m <= k
    BY <2>2
  <2>4. m \in 1 .. N /\ m - 1 \in 0 .. N /\ ~ (m <= m - 1)
    BY <2>3
  <2>5. m - 1 \in Q
    BY <2>3, <2>4
  <2> QED BY <2>3, <2>4, <2>5
<1> QED BY <1>1

\* The values of a function on 0 .. N defined by recursion on its argument.
Iterates(g, N, A, a, step) ==
    /\ g \in [0 .. N -> A]
    /\ g[0] = a
    /\ \A n \in 1 .. N : g[n] = step[n][g[n - 1]]

\* There is such a function.
LEMMA Recursion ==
    ASSUME NEW N \in Nat, NEW A, NEW a \in A, NEW step \in [1 .. N -> [A -> A]]
    PROVE  \E g : Iterates(g, N, A, a, step)
<1> DEFINE Upto(m) == \E g \in [0 .. m -> A] :
                         g[0] = a /\ \A n \in 1 .. m : g[n] = step[n][g[n - 1]]
           Q == {m \in 0 .. N : Upto(m)}
<1>1. Upto(0)
  <2>1. [n \in 0 .. 0 |-> a] \in [0 .. 0 -> A] /\ [n \in 0 .. 0 |-> a][0] = a
    OBVIOUS
  <2>2. 1 .. 0 = {}
    OBVIOUS
  <2> QED BY <2>1, <2>2
<1>2. ASSUME NEW m \in 1 .. N, Upto(m - 1) PROVE Upto(m)
  <2>1. PICK h \in [0 .. m - 1 -> A] :
           h[0] = a /\ \A n \in 1 .. m - 1 : h[n] = step[n][h[n - 1]]
    BY <1>2
  <2>2. m - 1 \in 0 .. m - 1 /\ m \in Nat /\ 0 \in 0 .. m - 1
    OBVIOUS
  <2> DEFINE g == [n \in 0 .. m |-> IF n = m THEN step[m][h[m - 1]] ELSE h[n]]
  <2>3. step[m][h[m - 1]] \in A
    BY <2>1, <2>2
  <2>4. g \in [0 .. m -> A]
    <3>1. \A n \in 0 .. m : n # m => n \in 0 .. m - 1
      BY <2>2
    <3> QED BY <2>1, <2>3, <3>1
  <2>5. g[0] = a
    BY <2>1, <2>2
  <2>6. ASSUME NEW n \in 1 .. m PROVE g[n] = step[n][g[n - 1]]
    <3>1. n - 1 \in 0 .. m /\ n - 1 # m /\ n \in 0 .. m
      OBVIOUS
    <3>2. g[n - 1] = h[n - 1]
      BY <3>1
    <3>3. CASE n = m
      BY <3>1, <3>2, <3>3
    <3>4. CASE n # m
      <4>1. n \in 1 .. m - 1
        BY <3>4
      <4> QED BY <2>1, <3>1, <3>2, <3>4, <4>1
    <3> QED BY <3>3, <3>4
  <2> HIDE DEF g
  <2> QED BY <2>4, <2>5, <2>6
<1>3. \A n \in 0 .. N : n \in Q
  <2>1. 0 \in Q
    BY <1>1
  <2>2. \A n \in 1 .. N : n - 1 \in Q => n \in Q
    <3> HIDE DEF Upto
    <3> QED BY <1>2
  <2> HIDE DEF Q
  <2> QED BY <2>1, <2>2, Induction
<1>4. Upto(N)
  BY <1>3
<1> QED BY <1>4 DEF Iterates

\* The text is made one piece at a time.
Pieces(g, t, E, S) ==
    /\ g \in [0 .. Len(t) + 1 -> Seq(S)]
    /\ Substitute(t, E) = g[Len(t) + 1]
    /\ g[0] = <<>>
    /\ \A n \in 1 .. Len(t) + 1 : g[n] = g[n - 1] \o Piece(t, E, n - 1)

\* What one offset contributes to the text is text.
LEMMA PieceType ==
    ASSUME NEW S, NEW t \in Seq(S), NEW E, \A e \in E : e.new \in Seq(S), NEW o \in 0 .. Len(t)
    PROVE  Piece(t, E, o) \in Seq(S)
<1> DEFINE new == IF \E e \in E : e.start = o THEN (CHOOSE e \in E : e.start = o).new ELSE <<>>
           left == IF o = Len(t) \/ \E e \in E : e.start <= o /\ o < e.end THEN <<>> ELSE <<t[o + 1]>>
<1>1. new \in Seq(S)
  <2>1. CASE \E e \in E : e.start = o
    BY <2>1
  <2> QED BY <2>1
<1>2. left \in Seq(S)
  BY SMT
<1>3. Piece(t, E, o) = new \o left
  BY DEF Piece
<1> HIDE DEF new, left
<1> QED BY <1>1, <1>2, <1>3

\* Substitute is what its recursion comes to, one offset after the other.
LEMMA SubstituteSteps ==
    ASSUME NEW S, NEW t \in Seq(S), NEW E, \A e \in E : e.new \in Seq(S)
    PROVE  \E g : Pieces(g, t, E, S)
<1> DEFINE N == Len(t) + 1
           A == Seq(S)
           none == <<>>
           P(n) == Piece(t, E, n - 1)
           step == [n \in 1 .. N |-> [s \in A |-> s \o P(n)]]
           Def(g) == [n \in 0 .. N |-> IF n = 0 THEN <<>> ELSE g[n - 1] \o P(n)]
           made == CHOOSE g : g = Def(g)
<1>1. N \in Nat /\ none \in A
  OBVIOUS
<1>2. \A n \in 1 .. N : P(n) \in A
  <2>1. \A n \in 1 .. N : n - 1 \in 0 .. Len(t)
    OBVIOUS
  <2> QED BY <2>1, PieceType
<1> HIDE DEF P
<1>3. step \in [1 .. N -> [A -> A]]
  <2>1. \A n \in 1 .. N : [s \in A |-> s \o P(n)] \in [A -> A]
    BY <1>2
  <2> QED BY <2>1
<1>4. PICK g : Iterates(g, N, A, none, step)
  <2> HIDE DEF step, N, A, none, Def, made
  <2> QED BY <1>1, <1>3, Recursion
<1>5. g \in [0 .. N -> A] /\ g[0] = <<>>
  BY <1>4 DEF Iterates
<1>6. \A n \in 1 .. N : g[n] = g[n - 1] \o P(n)
  <2> SUFFICES ASSUME NEW n \in 1 .. N
               PROVE  g[n] = g[n - 1] \o P(n)
    OBVIOUS
  <2>1. n - 1 \in 0 .. N
    BY <1>1
  <2>2. g[n - 1] \in A
    <3> HIDE DEF A, N
    <3> QED BY <1>5, <2>1
  <2>3. step[n] = [s \in A |-> s \o P(n)]
    <3> HIDE DEF A, N
    <3> QED OBVIOUS
  <2>4. step[n][g[n - 1]] = g[n - 1] \o P(n)
    <3> HIDE DEF A, N, step
    <3> QED BY <2>2, <2>3
  <2>5. g[n] = step[n][g[n - 1]]
    <3> HIDE DEF A, N, step, none
    <3> QED BY <1>4 DEF Iterates
  <2> QED BY ONLY <2>4, <2>5
<1>7. g = Def(g)
  <2>1. \A n \in 0 .. N : n = 0 \/ n \in 1 .. N
    BY <1>1
  <2>2. \A n \in 0 .. N : g[n] = IF n = 0 THEN <<>> ELSE g[n - 1] \o P(n)
    <3> HIDE DEF N
    <3> QED BY <1>5, <1>6, <2>1
  <2>3. Def(g) = [n \in 0 .. N |-> g[n]]
    <3> HIDE DEF N
    <3> QED BY <2>2
  <2>4. g = [n \in 0 .. N |-> g[n]]
    BY <1>5
  <2> QED BY <2>3, <2>4
<1>8. made = Def(made)
  <2> HIDE DEF Def
  <2> QED BY <1>7
<1>9. Substitute(t, E) = made[N]
  BY DEF Substitute, P
<1>10. made[0] = <<>> /\ \A n \in 1 .. N : made[n] = made[n - 1] \o P(n)
  <2> HIDE DEF made
  <2>1. \A n \in 0 .. N : made[n] = Def(made)[n]
    BY <1>8
  <2>2. 0 \in 0 .. N /\ \A n \in 1 .. N : n \in 0 .. N /\ n # 0
    BY <1>1
  <2> HIDE DEF N
  <2> QED BY <2>1, <2>2
<1> DEFINE Same == {k \in 0 .. N : made[k] = g[k]}
<1>11. \A n \in 0 .. N : n \in Same
  <2> HIDE DEF made, N
  <2>1. 0 \in Same
    BY <1>1, <1>5, <1>10
  <2>2. ASSUME NEW n \in 1 .. N, n - 1 \in Same PROVE n \in Same
    <3>1. n \in 0 .. N /\ made[n - 1] = g[n - 1]
      BY <2>2
    <3>2. made[n] = made[n - 1] \o P(n) /\ g[n] = g[n - 1] \o P(n)
      BY <1>6, <1>10
    <3> QED BY <3>1, <3>2
  <2> HIDE DEF Same
  <2> QED BY ONLY <1>1, <2>1, <2>2, Induction
<1>12. Substitute(t, E) = g[N]
  <2> HIDE DEF made, N
  <2> QED BY <1>1, <1>9, <1>11
<1> QED BY <1>5, <1>6, <1>12 DEF Pieces, P

\* An edit that can be made in text t.
Fits(e, t, S) ==
    /\ e.start \in Nat /\ e.end \in Nat
    /\ e.start <= e.end /\ e.end <= Len(t)
    /\ e.new \in Seq(S)

\* Where no edit starts or runs the text stays.
LEMMA PieceUntouched ==
    ASSUME NEW S, NEW t \in Seq(S), NEW E, NEW o \in 0 .. Len(t), o < Len(t),
           \A d \in E : d.start # o /\ ~ (d.start <= o /\ o < d.end)
    PROVE  Piece(t, E, o) = <<t[o + 1]>>
<1>1. ~ \E d \in E : d.start = o
  OBVIOUS
<1>2. ~ (o = Len(t) \/ \E d \in E : d.start <= o /\ o < d.end)
  BY SMT
<1>3. Piece(t, E, o) = <<>> \o <<t[o + 1]>>
  BY <1>1, <1>2 DEF Piece
<1>4. t[o + 1] \in S
  BY SMT
<1> QED BY ONLY <1>3, <1>4

\* Up to where the first edit starts the text is as it was.
LEMMA MadeBefore ==
    ASSUME NEW S, NEW t \in Seq(S), NEW E, NEW g, Pieces(g, t, E, S),
           NEW m \in 0 .. Len(t), \A d \in E : d.start \in Nat /\ m <= d.start
    PROVE  \A n \in 0 .. m : g[n] = SubSeq(t, 1, n)
<1> DEFINE Q == {n \in 0 .. m : g[n] = SubSeq(t, 1, n)}
<1>0. Len(t) \in Nat /\ m \in Nat /\ m <= Len(t)
  OBVIOUS
<1>1. 0 \in Q
  <2>1. g[0] = <<>>
    BY DEF Pieces
  <2>2. SubSeq(t, 1, 0) = <<>>
    OBVIOUS
  <2>3. 0 \in 0 .. m
    BY <1>0
  <2>4. g[0] = SubSeq(t, 1, 0)
    BY <2>1, <2>2
  <2> QED BY <2>3, <2>4
<1>2. ASSUME NEW n \in 1 .. m, n - 1 \in Q PROVE n \in Q
  <2>1. n \in 1 .. Len(t) + 1 /\ n - 1 \in 0 .. Len(t) /\ n - 1 < Len(t) /\ n \in 0 .. m /\ n \in 1 .. Len(t)
    BY <1>0
  <2>2. g[n - 1] = SubSeq(t, 1, n - 1)
    BY <1>2
  <2>3. g[n] = g[n - 1] \o Piece(t, E, n - 1)
    BY <2>1 DEF Pieces
  <2>4. Piece(t, E, n - 1) = <<t[n]>>
    <3>1. \A d \in E : d.start # n - 1 /\ ~ (d.start <= n - 1 /\ n - 1 < d.end)
      BY <2>1
    <3>2. Piece(t, E, n - 1) = <<t[(n - 1) + 1]>>
      BY <2>1, <3>1, PieceUntouched
    <3>3. (n - 1) + 1 = n
      BY <2>1
    <3> QED BY <3>2, <3>3
  <2>5. SubSeq(t, 1, n) = SubSeq(t, 1, n - 1) \o <<t[n]>>
    BY <2>1
  <2> QED BY <2>1, <2>2, <2>3, <2>4, <2>5
<1> HIDE DEF Q
<1>3. \A n \in 0 .. m : n \in Q
  BY <1>0, <1>1, <1>2, Induction
<1> QED BY <1>3 DEF Q

\* An edit before all of E.
Leads(e, E) == \A d \in E : d.start \in Nat /\ e.start < d.start /\ e.end <= d.start

\* It changes only the pieces from its start to its end.
Differ(t, E, e, o) ==
    /\ (o < e.start \/ (e.end <= o /\ o # e.start)) => Piece(t, E \cup {e}, o) = Piece(t, E, o)
    /\ e.start < o /\ o < e.end => Piece(t, E \cup {e}, o) = <<>>
    /\ o = e.start /\ e.start < e.end => Piece(t, E \cup {e}, o) = e.new
    /\ o = e.start /\ e.start = e.end => Piece(t, E \cup {e}, o) = e.new \o Piece(t, E, o)

\* What one more edit, before all others, changes of each offset.
LEMMA PieceWith ==
    ASSUME NEW S, NEW t \in Seq(S), NEW E, NEW e, Fits(e, t, S),
           Leads(e, E), NEW o \in 0 .. Len(t)
    PROVE  Differ(t, E, e, o)
<1> DEFINE F == E \cup {e}
           New(G) == IF \E d \in G : d.start = o THEN (CHOOSE d \in G : d.start = o).new ELSE <<>>
           Left(G) == IF o = Len(t) \/ \E d \in G : d.start <= o /\ o < d.end THEN <<>> ELSE <<t[o + 1]>>
<1>1. Piece(t, F, o) = New(F) \o Left(F) /\ Piece(t, E, o) = New(E) \o Left(E)
  BY DEF Piece
<1>2. /\ e.start \in Nat /\ e.end \in Nat /\ e.start <= e.end /\ e.end <= Len(t) /\ e.new \in Seq(S)
      /\ o \in Nat /\ o <= Len(t) /\ Len(t) \in Nat
  BY DEF Fits
<1>0. \A d \in E : d.start \in Nat /\ e.start < d.start /\ e.end <= d.start
  BY DEF Leads
<1>3. Left(E) \in Seq(S)
  BY SMT
<1>4. o < e.start \/ e.end <= o => (Left(F) = Left(E))
  <2>1. o < e.start \/ e.end <= o => ~ (e.start <= o /\ o < e.end)
    BY <1>2
  <2> QED BY <2>1
<1>5. o # e.start => New(F) = New(E)
  <2>1. ASSUME o # e.start PROVE {d \in F : d.start = o} = {d \in E : d.start = o}
    BY <2>1
  <2>2. \A G : New(G) = IF \E d \in G : d.start = o THEN (CHOOSE d : d \in G /\ d.start = o).new ELSE <<>>
    OBVIOUS
  <2>3. ASSUME o # e.start PROVE \A d : (d \in F /\ d.start = o) <=> (d \in E /\ d.start = o)
    BY <2>3
  <2>4. ASSUME o # e.start PROVE (CHOOSE d : d \in F /\ d.start = o) = (CHOOSE d : d \in E /\ d.start = o)
    BY <2>3, <2>4
  <2> HIDE DEF New, F
  <2> QED BY <2>2, <2>3, <2>4
<1>6. o = e.start => New(F) = e.new /\ New(E) = <<>>
  <2>1. ASSUME o = e.start PROVE \A d \in E : d.start # o
    BY <1>0, <1>2, <2>1
  <2>2. ASSUME o = e.start PROVE \A d \in F : d.start = o <=> d = e
    BY <2>1, <2>2
  <2> QED BY <2>1, <2>2
<1>7. o < e.end => New(E) = <<>>
  <2>1. ASSUME o < e.end PROVE \A d \in E : d.start # o
    BY <1>0, <1>2, <2>1
  <2> QED BY <2>1
<1>8. e.start <= o /\ o < e.end => Left(F) = <<>>
  OBVIOUS
<1>9. <<>> \o <<>> = <<>> /\ e.new \o <<>> = e.new /\ <<>> \o Left(E) = Left(E)
  <2> HIDE DEF Left
  <2> QED BY <1>2, <1>3
<1> HIDE DEF New, Left, F
<1>10. (o < e.start \/ (e.end <= o /\ o # e.start)) => Piece(t, F, o) = Piece(t, E, o)
  <2>1. o < e.start => o # e.start
    BY <1>2
  <2> QED BY ONLY <2>1, <1>1, <1>4, <1>5
<1>11. e.start < o /\ o < e.end => Piece(t, F, o) = <<>>
  <2>1. e.start < o => o # e.start /\ e.start <= o
    BY <1>2
  <2> QED BY ONLY <2>1, <1>1, <1>5, <1>7, <1>8, <1>9
<1>12. o = e.start /\ e.start < e.end => Piece(t, F, o) = e.new
  <2>1. o = e.start /\ e.start < e.end => e.start <= o /\ o < e.end
    BY <1>2
  <2> QED BY ONLY <2>1, <1>1, <1>6, <1>8, <1>9
<1>13. o = e.start /\ e.start = e.end => Piece(t, F, o) = e.new \o Piece(t, E, o)
  <2>1. o = e.start /\ e.start = e.end => e.end <= o
    BY <1>2
  <2> QED BY ONLY <2>1, <1>1, <1>4, <1>6, <1>9
<1> QED BY ONLY <1>10, <1>11, <1>12, <1>13 DEF F, Differ

\* While the edit replaces the text there is only what comes before it and its
\* new text.
Replaces(h, t, E, e, S) ==
    /\ Fits(e, t, S) /\ Leads(e, E) /\ e.start < e.end
    /\ Pieces(h, t, E \cup {e}, S)
    /\ h[e.start] = SubSeq(t, 1, e.start)

\* In the range of the edit the new text stands for the old.
LEMMA MadeWithin ==
    ASSUME NEW S, NEW t \in Seq(S), NEW E, NEW e, NEW h, Replaces(h, t, E, e, S)
    PROVE  h[e.end] = SubSeq(t, 1, e.start) \o e.new
<1>0a. /\ Fits(e, t, S) /\ Leads(e, E) /\ e.start < e.end
      /\ Pieces(h, t, E \cup {e}, S)
      /\ h[e.start] = SubSeq(t, 1, e.start)
  BY DEF Replaces
<1> DEFINE head == SubSeq(t, 1, e.start) \o e.new
           Q == {n \in 0 .. e.end : e.start < n => h[n] = head}
<1>0. /\ e.start \in Nat /\ e.end \in Nat /\ e.start <= e.end /\ e.end <= Len(t) /\ e.new \in Seq(S)
      /\ Len(t) \in Nat
  BY <1>0a DEF Fits
<1>1. 0 \in Q
  BY <1>0
<1>2. head \in Seq(S)
  <2>1. SubSeq(t, 1, e.start) \in Seq(S)
    BY <1>0
  <2> QED BY <1>0, <2>1
<1>3. \A o \in 0 .. Len(t) : Differ(t, E, e, o)
  BY <1>0a, PieceWith
<1>4. ASSUME NEW n \in 1 .. e.end, n - 1 \in Q, e.start < n PROVE h[n] = head
  <2>1. n \in 1 .. Len(t) + 1 /\ n - 1 \in 0 .. Len(t) /\ n - 1 < e.end /\ (n - 1 = e.start \/ e.start < n - 1)
    BY ONLY <1>0, <1>4
  <2>2. h[n] = h[n - 1] \o Piece(t, E \cup {e}, n - 1)
    BY <1>0a, <2>1 DEF Pieces
  <2>3. CASE n - 1 = e.start
    <3>1. Piece(t, E \cup {e}, n - 1) = e.new
      BY ONLY <1>3, <2>1, <2>3, <1>0a DEF Differ
    <3> QED BY ONLY <2>2, <2>3, <3>1, <1>0a DEF head
  <2>4. CASE e.start < n - 1
    <3>1. Piece(t, E \cup {e}, n - 1) = <<>>
      BY ONLY <1>3, <2>1, <2>4, n \in 1 .. e.end, <1>0 DEF Differ
    <3>2. h[n - 1] = head
      BY <1>4, <2>4
    <3> HIDE DEF head
    <3>3. head \o <<>> = head
      BY ONLY <1>2
    <3> QED BY ONLY <2>2, <3>1, <3>2, <3>3
  <2> QED BY ONLY <2>1, <2>3, <2>4
<1>5. \A n \in 1 .. e.end : n - 1 \in Q => n \in Q
  <2>1. \A n \in 1 .. e.end : n \in 0 .. e.end
    BY ONLY <1>0
  <2> HIDE DEF head
  <2> QED BY ONLY <1>4, <2>1 DEF Q
<1> HIDE DEF Q
<1>6. \A n \in 0 .. e.end : n \in Q
  BY ONLY <1>0, <1>1, <1>5, Induction
<1>7. e.end \in 0 .. e.end
  BY ONLY <1>0
<1> QED BY ONLY <1>6, <1>7, <1>0a DEF Q

\* Two texts put together, and taken apart again.
LEMMA HalvesLength ==
    ASSUME NEW S, NEW f \in Seq(S), NEW r \in Seq(S)
    PROVE  Len(f \o r) = Len(f) + Len(r) /\ Len(r) \in Nat
OBVIOUS

LEMMA SecondHalf ==
    ASSUME NEW S, NEW f \in Seq(S), NEW r \in Seq(S)
    PROVE  SubSeq(f \o r, Len(f) + 1, Len(f \o r)) = r
OBVIOUS

LEMMA FirstHalf ==
    ASSUME NEW S, NEW f \in Seq(S), NEW r \in Seq(S), NEW m \in 0 .. Len(f)
    PROVE  SubSeq(f \o r, 1, m) = SubSeq(f, 1, m)
OBVIOUS

LEMMA Associative ==
    ASSUME NEW S, NEW x \in Seq(S), NEW y \in Seq(S), NEW z \in Seq(S)
    PROVE  (x \o y) \o z = x \o (y \o z)
BY ConcatAssociative

\* After it the two texts go on alike.
Alike(g, h, t, e, n, S) ==
    \E r \in Seq(S) : /\ g[n] = SubSeq(t, 1, e.end) \o r
                      /\ h[n] = (SubSeq(t, 1, e.start) \o e.new) \o r

\* They stay so when the same piece is added to both.
LEMMA AlikeStep ==
    ASSUME NEW S, NEW t \in Seq(S), NEW e, Fits(e, t, S), NEW g, NEW h, NEW m, NEW n,
           Alike(g, h, t, e, m, S), NEW p \in Seq(S), g[n] = g[m] \o p, h[n] = h[m] \o p
    PROVE  Alike(g, h, t, e, n, S)
<1>1. PICK r \in Seq(S) : /\ g[m] = SubSeq(t, 1, e.end) \o r
                          /\ h[m] = (SubSeq(t, 1, e.start) \o e.new) \o r
  BY DEF Alike
<1>2. /\ e.start \in Nat /\ e.end \in Nat /\ e.start <= e.end /\ e.end <= Len(t) /\ e.new \in Seq(S)
  BY DEF Fits
<1>3. SubSeq(t, 1, e.end) \in Seq(S) /\ SubSeq(t, 1, e.start) \in Seq(S)
  BY <1>2
<1>4. PICK x \in Seq(S) : x = SubSeq(t, 1, e.end)
  BY ONLY <1>3
<1>5. PICK y \in Seq(S) : y = SubSeq(t, 1, e.start) \o e.new
  <2>1. SubSeq(t, 1, e.start) \o e.new \in Seq(S)
    BY <1>2, <1>3
  <2> QED BY ONLY <2>1
<1>6. r \o p \in Seq(S)
  BY ONLY r \in Seq(S), p \in Seq(S)
<1>7. (x \o r) \o p = x \o (r \o p)
  BY ONLY r \in Seq(S), x \in Seq(S), p \in Seq(S), Associative
<1>8. (y \o r) \o p = y \o (r \o p)
  BY ONLY r \in Seq(S), y \in Seq(S), p \in Seq(S), Associative
<1>9. g[n] = SubSeq(t, 1, e.end) \o (r \o p) /\ h[n] = (SubSeq(t, 1, e.start) \o e.new) \o (r \o p)
  BY <1>1, <1>4, <1>5, <1>7, <1>8
<1> QED BY ONLY <1>6, <1>9 DEF Alike

\* Past the end of the edit the two texts have been alike throughout.
LEMMA MadeAfter ==
    ASSUME NEW S, NEW t \in Seq(S), NEW E, \A d \in E : d.new \in Seq(S), NEW e, Fits(e, t, S),
           Leads(e, E), NEW g, Pieces(g, t, E, S), NEW h, Pieces(h, t, E \cup {e}, S)
    PROVE  Alike(g, h, t, e, Len(t) + 1, S)
<1> DEFINE b == IF e.start = e.end THEN e.start + 1 ELSE e.end
           head == SubSeq(t, 1, e.start) \o e.new
           N == Len(t) + 1
           Q == {n \in 0 .. N : b <= n => Alike(g, h, t, e, n, S)}
<1>0. /\ e.start \in Nat /\ e.end \in Nat /\ e.start <= e.end /\ e.end <= Len(t) /\ e.new \in Seq(S)
      /\ Len(t) \in Nat
  BY DEF Fits
<1>1. b \in 1 .. N /\ N \in Nat /\ e.end <= b /\ e.start < b
  BY <1>0
<1>1a. \A o \in 0 .. Len(t) : Differ(t, E, e, o)
  BY PieceWith
<1>1b. \A d \in E : d.start \in Nat /\ e.start < d.start /\ e.end <= d.start
  BY DEF Leads
<1>2. /\ g[e.start] = SubSeq(t, 1, e.start) /\ g[e.end] = SubSeq(t, 1, e.end)
      /\ h[e.start] = SubSeq(t, 1, e.start)
  <2>1. \A n \in 0 .. e.end : g[n] = SubSeq(t, 1, n)
    <3>1. e.end \in 0 .. Len(t)
      BY <1>0
    <3> QED BY <1>1b, <3>1, MadeBefore
  <2>2. \A n \in 0 .. e.start : h[n] = SubSeq(t, 1, n)
    <3>1. e.start \in 0 .. Len(t)
      BY <1>0
    <3>2. \A d \in E \cup {e} : d.start \in Nat /\ e.start <= d.start
      <4>1. \A d \in E : e.start <= d.start
        BY ONLY <1>0, <1>1b
      <4>2. e.start <= e.start
        BY ONLY <1>0
      <4> QED BY ONLY <1>0, <1>1b, <4>1, <4>2
    <3> QED BY <3>1, <3>2, MadeBefore
  <2>3. e.start \in 0 .. e.end /\ e.end \in 0 .. e.end /\ e.start \in 0 .. e.start
    BY <1>0
  <2> QED BY <2>1, <2>2, <2>3
<1>3. /\ SubSeq(t, 1, e.start) \in Seq(S) /\ SubSeq(t, 1, e.end) \in Seq(S) /\ head \in Seq(S)
  <2>1. SubSeq(t, 1, e.start) \in Seq(S) /\ SubSeq(t, 1, e.end) \in Seq(S)
    BY <1>0
  <2> QED BY <1>0, <2>1
<1>4. Alike(g, h, t, e, b, S)
  <2>1. CASE e.start < e.end
    <3>1. h[e.end] = head /\ b = e.end
      <4>1. h[e.end] = head
        <5>1. h[e.start] = SubSeq(t, 1, e.start)
          BY <1>2
        <5> HIDE DEF b, N, Q, head
        <5>2. h[e.end] = SubSeq(t, 1, e.start) \o e.new
          <6>1. Replaces(h, t, E, e, S)
            BY <2>1, <5>1 DEF Replaces
          <6> QED BY ONLY t \in Seq(S), <6>1, MadeWithin
        <5> QED BY <5>2 DEF head
      <4>2. b = e.end
        BY ONLY <1>0, <2>1
      <4> QED BY <4>1, <4>2
    <3>2. SubSeq(t, 1, e.end) = SubSeq(t, 1, e.end) \o <<>> /\ head = head \o <<>> /\ <<>> \in Seq(S)
      <4> HIDE DEF head
      <4> QED BY <1>3
    <3> HIDE DEF b
    <3> QED BY <1>2, <3>1, <3>2 DEF Alike
  <2>2. CASE e.start = e.end
    <3>1. b = e.start + 1 /\ b - 1 = e.start /\ e.start \in 0 .. Len(t)
      BY <1>0, <2>2
    <3> HIDE DEF b
    <3> DEFINE r == Piece(t, E, e.start)
    <3>2. r \in Seq(S)
      BY <3>1, PieceType
    <3>3. Piece(t, E \cup {e}, e.start) = e.new \o r
      BY ONLY <1>1a, <2>2, <3>1 DEF Differ
    <3> HIDE DEF r
    <3>4. g[b] = g[e.start] \o r
      BY <1>1, <3>1 DEF Pieces, r
    <3>5. h[b] = h[e.start] \o (e.new \o r)
      BY <1>1, <3>1, <3>3 DEF Pieces
    <3>6. SubSeq(t, 1, e.start) \o (e.new \o r) = head \o r
      <4>1. e.new \in Seq(S)
        BY <1>0
      <4>2. SubSeq(t, 1, e.start) \in Seq(S)
        BY <1>3
      <4>3. (SubSeq(t, 1, e.start) \o e.new) \o r = SubSeq(t, 1, e.start) \o (e.new \o r)
        <5> DEFINE first == SubSeq(t, 1, e.start)
                   new == e.new
        <5> HIDE DEF first, new
        <5>1. first \in Seq(S) /\ new \in Seq(S)
          BY <4>1, <4>2 DEF first, new
        <5>2. (first \o new) \o r = first \o (new \o r)
          BY ONLY <3>2, <5>1, Associative
        <5> QED BY <5>2 DEF first, new
      <4> QED BY ONLY <4>3 DEF head
    <3>7. g[b] = SubSeq(t, 1, e.end) \o r /\ h[b] = head \o r
      BY <1>2, <2>2, <3>4, <3>5, <3>6
    <3> QED BY <3>2, <3>7 DEF Alike
  <2> QED BY <1>0, <2>1, <2>2
<1>5. ASSUME NEW n \in 1 .. N, n - 1 \in Q PROVE n \in Q
  <2>1. SUFFICES ASSUME b < n PROVE Alike(g, h, t, e, n, S)
    <3>1. n \in 0 .. N /\ (b <= n => b < n \/ n = b)
      BY <1>1
    <3> QED BY <1>4, <2>1, <3>1
  <2>2. n - 1 \in 0 .. Len(t) /\ b <= n - 1 /\ e.end <= n - 1 /\ n - 1 # e.start
    BY <1>0, <1>1, <2>1
  <2> DEFINE p == Piece(t, E, n - 1)
  <2>3. p \in Seq(S)
    BY <2>2, PieceType
  <2>4. Piece(t, E \cup {e}, n - 1) = p
    BY ONLY <1>1a, <2>2 DEF Differ
  <2>5. g[n] = g[n - 1] \o p /\ h[n] = h[n - 1] \o p
    BY <2>4 DEF Pieces
  <2> HIDE DEF p, head
  <2>6. Alike(g, h, t, e, n - 1, S)
    BY <1>5, <2>2
  <2> QED BY ONLY <2>3, <2>5, <2>6, t \in Seq(S), Fits(e, t, S), AlikeStep
<1>6. 0 \in Q
  BY <1>1
<1> HIDE DEF Q
<1>7. \A n \in 0 .. N : n \in Q
  BY <1>1, <1>5, <1>6, Induction
<1> QED BY <1>1, <1>7 DEF Q

\* Splicing an edit in before the ones that are made is making it with them.
Joins(t, E, e) ==
    /\ e.end <= Len(Substitute(t, E))
    /\ Splice(Substitute(t, E), e) = Substitute(t, E \cup {e})

\* Splicing an edit into the result of those behind it makes them all at once.
LEMMA SpliceIsSubstitute ==
    ASSUME NEW S, NEW t \in Seq(S), NEW E, \A d \in E : d.new \in Seq(S), NEW e, Fits(e, t, S),
           Leads(e, E)
    PROVE  Joins(t, E, e)
<1>0. /\ e.start \in Nat /\ e.end \in Nat /\ e.start <= e.end /\ e.end <= Len(t) /\ e.new \in Seq(S)
      /\ Len(t) \in Nat
  BY DEF Fits
<1>1. PICK g : Pieces(g, t, E, S)
  BY SubstituteSteps
<1>2. PICK h : Pieces(h, t, E \cup {e}, S)
  <2>1. \A d \in E \cup {e} : d.new \in Seq(S)
    BY <1>0
  <2> QED BY <2>1, SubstituteSteps
<1>3. Alike(g, h, t, e, Len(t) + 1, S)
  BY <1>1, <1>2, MadeAfter
<1>4. PICK r \in Seq(S) : /\ Substitute(t, E) = SubSeq(t, 1, e.end) \o r
                          /\ Substitute(t, E \cup {e}) = (SubSeq(t, 1, e.start) \o e.new) \o r
  BY <1>1, <1>2, <1>3 DEF Alike, Pieces
<1>4a. PICK front \in Seq(S) : front = SubSeq(t, 1, e.end)
  <2>1. SubSeq(t, 1, e.end) \in Seq(S)
    BY <1>0
  <2> QED BY ONLY <2>1
<1>5. Len(front) = e.end /\ SubSeq(front, 1, e.start) = SubSeq(t, 1, e.start)
  BY <1>0, <1>4a
<1>6. Len(front \o r) = e.end + Len(r) /\ Len(r) \in Nat
  <2>1. Len(front \o r) = Len(front) + Len(r) /\ Len(r) \in Nat
    BY ONLY front \in Seq(S), r \in Seq(S), HalvesLength
  <2> QED BY ONLY <1>5, <2>1
<1>7. SubSeq(front \o r, 1, e.start) = SubSeq(front, 1, e.start)
  <2>1. e.start \in 0 .. Len(front)
    BY ONLY <1>0, <1>5
  <2> QED BY ONLY <2>1, front \in Seq(S), r \in Seq(S), FirstHalf
<1>8. SubSeq(front \o r, e.end + 1, Len(front \o r)) = r
  <2>1. SubSeq(front \o r, Len(front) + 1, Len(front \o r)) = r
    BY ONLY front \in Seq(S), r \in Seq(S), SecondHalf
  <2> QED BY ONLY <1>5, <2>1
<1>9. Substitute(t, E) = front \o r
  BY <1>4, <1>4a
<1>10. Splice(front \o r, e) = (SubSeq(t, 1, e.start) \o e.new) \o r
  BY <1>5, <1>7, <1>8 DEF Splice
<1>11. e.end <= Len(front \o r)
  BY <1>0, <1>6
<1> QED BY ONLY <1>4, <1>9, <1>10, <1>11 DEF Joins

\* No edits, no change.
LEMMA SubstituteNone ==
    ASSUME NEW S, NEW t \in Seq(S)
    PROVE  Substitute(t, {}) = t
<1>1. PICK g : Pieces(g, t, {}, S)
  BY SubstituteSteps
<1>2. Len(t) \in 0 .. Len(t) /\ Len(t) + 1 \in 1 .. Len(t) + 1 /\ (Len(t) + 1) - 1 = Len(t)
  OBVIOUS
<1>3. g[Len(t)] = SubSeq(t, 1, Len(t))
  BY <1>1, <1>2, MadeBefore
<1>4. g[Len(t) + 1] = g[Len(t)] \o Piece(t, {}, Len(t))
  BY ONLY <1>1, <1>2 DEF Pieces
<1>5. Piece(t, {}, Len(t)) = <<>> \o <<>>
  BY DEF Piece
<1>6. SubSeq(t, 1, Len(t)) = t /\ t \o (<<>> \o <<>>) = t
  BY SubSeqFull
<1>7. Substitute(t, {}) = g[Len(t) + 1]
  BY <1>1 DEF Pieces
<1> QED BY ONLY <1>3, <1>4, <1>5, <1>6, <1>7

LEMMA RangeOfJoin ==
    ASSUME NEW S, NEW a \in Seq(S), NEW b \in Seq(S)
    PROVE  Range(a) \subseteq Range(a \o b) /\ Range(b) \subseteq Range(a \o b)
<1>1. a \o b \in Seq(S) /\ Len(a \o b) = Len(a) + Len(b) /\ Len(a) \in Nat /\ Len(b) \in Nat
  OBVIOUS
<1>2. ASSUME NEW x \in Range(a) PROVE x \in Range(a \o b)
  <2>1. PICK k \in 1 .. Len(a) : x = a[k]
    BY DEF Range
  <2>2. k \in DOMAIN (a \o b) /\ (a \o b)[k] = x
    BY <1>1, <2>1
  <2> QED BY <2>2 DEF Range
<1>3. ASSUME NEW x \in Range(b) PROVE x \in Range(a \o b)
  <2>1. PICK k \in 1 .. Len(b) : x = b[k]
    BY DEF Range
  <2>2. Len(a) + k \in DOMAIN (a \o b) /\ (a \o b)[Len(a) + k] = x
    BY <1>1, <2>1
  <2> QED BY <2>2 DEF Range
<1> QED BY <1>2, <1>3

\* What an offset contributes is in the text.
LEMMA PieceInText ==
    ASSUME NEW S, NEW t \in Seq(S), NEW E, \A e \in E : e.new \in Seq(S), NEW o \in 0 .. Len(t)
    PROVE  Range(Piece(t, E, o)) \subseteq Range(Substitute(t, E))
<1> DEFINE N == Len(t) + 1
<1>1. N \in Nat /\ o \in Nat /\ o + 1 \in 1 .. N /\ \A n \in 1 .. N : n - 1 \in 0 .. N /\ n - 1 \in 0 .. Len(t)
  OBVIOUS
<1>2. PICK g : Pieces(g, t, E, S)
  BY SubstituteSteps
<1>3. /\ g \in [0 .. N -> Seq(S)] /\ Substitute(t, E) = g[N]
      /\ \A n \in 1 .. N : g[n] = g[n - 1] \o Piece(t, E, n - 1)
  BY <1>2 DEF Pieces
<1> HIDE DEF N
<1> DEFINE Q == {n \in 0 .. N : o < n => Range(Piece(t, E, o)) \subseteq Range(g[n])}
<1>4. 0 \in Q
  BY <1>1
<1>5. ASSUME NEW n \in 1 .. N, n - 1 \in Q PROVE n \in Q
  <2>1. g[n] = g[n - 1] \o Piece(t, E, n - 1) /\ g[n - 1] \in Seq(S)
    BY <1>1, <1>3
  <2>2. Piece(t, E, n - 1) \in Seq(S)
    BY <1>1, PieceType
  <2>3. Range(g[n - 1]) \subseteq Range(g[n]) /\ Range(Piece(t, E, n - 1)) \subseteq Range(g[n])
    BY <2>1, <2>2, RangeOfJoin
  <2>4. CASE o = n - 1
    BY <2>3, <2>4
  <2>5. CASE o # n - 1
    <3>1. o < n => o < n - 1
      BY <1>1, <2>5
    <3>2. o < n - 1 => Range(Piece(t, E, o)) \subseteq Range(g[n - 1])
      BY <1>5
    <3> QED BY <2>3, <3>1, <3>2
  <2> QED BY <2>4, <2>5
<1>6. N \in Q
  <2>1. N \in 0 .. N
    BY <1>1
  <2> HIDE DEF Q
  <2> QED BY <1>1, <1>4, <1>5, <2>1, Induction
<1>7. o < N
  BY <1>1
<1> QED BY <1>3, <1>6, <1>7

\* The new text of an edit that starts alone is in the text.
LEMMA NewInText ==
    ASSUME NEW S, NEW t \in Seq(S), NEW E, \A e \in E : e.new \in Seq(S),
           NEW d \in E, d.start \in 0 .. Len(t), \A e \in E : e.start = d.start => e = d
    PROVE  Range(d.new) \subseteq Range(Substitute(t, E))
<1> DEFINE o == d.start
           left == IF o = Len(t) \/ \E e \in E : e.start <= o /\ o < e.end THEN <<>> ELSE <<t[o + 1]>>
<1>1. (CHOOSE e \in E : e.start = o) = d
  OBVIOUS
<1>2. Piece(t, E, o) = d.new \o left
  BY <1>1 DEF Piece
<1>3. left \in Seq(S)
  BY SMT
<1>4. Range(d.new) \subseteq Range(Piece(t, E, o))
  <2> HIDE DEF left
  <2> QED BY <1>2, <1>3, RangeOfJoin
<1> QED BY <1>4, PieceInText

\* A cell that no edit takes away is in the text.
LEMMA CellInText ==
    ASSUME NEW S, NEW t \in Seq(S), NEW E, \A e \in E : e.new \in Seq(S),
           NEW o \in 0 .. Len(t), o < Len(t), \A e \in E : ~ (e.start <= o /\ o < e.end)
    PROVE  t[o + 1] \in Range(Substitute(t, E))
<1> DEFINE new == IF \E e \in E : e.start = o THEN (CHOOSE e \in E : e.start = o).new ELSE <<>>
<1>1. ~ (o = Len(t) \/ \E e \in E : e.start <= o /\ o < e.end)
  BY SMT
<1>2. Piece(t, E, o) = new \o <<t[o + 1]>>
  BY <1>1 DEF Piece
<1>3. new \in Seq(S)
  <2>1. CASE \E e \in E : e.start = o
    BY <2>1
  <2> QED BY <2>1
<1>4. t[o + 1] \in S
  BY SMT
<1> HIDE DEF new
<1>5. <<t[o + 1]>> \in Seq(S) /\ t[o + 1] \in Range(<<t[o + 1]>>)
  BY <1>4 DEF Range
<1>6. t[o + 1] \in Range(Piece(t, E, o))
  BY <1>2, <1>3, <1>5, RangeOfJoin
<1> QED BY <1>6, PieceInText

-----------------------------------------------------------------------------
(* What applyEdits makes of the edits *)

LEMMA TripleType ==
    ASSUME NEW S, NEW x \in S, NEW y \in S, NEW z \in S
    PROVE  <<x, y, z>> \in Seq(S)
OBVIOUS

\* The cells a text is made of.
Cell == STRING \cup {OsPath, Newline, Tab}

LEMMA CellText ==
    ASSUME NEW s \in Seq(STRING)
    PROVE  s \in Seq(Cell)
<1>1. STRING \subseteq Cell
  BY DEF Cell
<1> QED BY <1>1, SeqMonotonic

\* Every edit collected can be made in the text of the file.
LEMMA CollectedFits ==
    ASSUME NEW f \in Files, NEW rules \in SUBSET RuleId, NEW e \in collectEdits(f, rules)
    PROVE  Fits(e, f.text, Cell)
<1>1. Placed(e, rules)
  BY CollectedIs
<1>2. e.end <= Len(f.text) /\ e.new \in Seq(Cell)
  <2>1. \/ e \in WalkEdits(f, rules)
        \/ \E kind : e \in Injections(f, rules, kind, WalkEdits(f, rules))
    BY DEF collectEdits
  <2>2. ASSUME e \in WalkEdits(f, rules)
        PROVE  e.end <= Len(f.text) /\ e.new \in Seq(Cell)
    <3>1. PICK r \in rules :
            \/ \E i \in SpecsOf(f, r) : e = fixImportChange(f, i, r)
            \/ \E i \in SpecsOf(f, r) : e = fixImportRemoval(f, i, r)
            \/ \E c \in f.calls : c.rule = r /\ \E d \in c.edits :
                  e = Tagged(d.start, d.end, d.new, r, c.line)
      BY <2>2, WalkEdit
    <3>2. ASSUME NEW i \in SpecsOf(f, r), e = fixImportChange(f, i, r)
          PROVE  e.end <= Len(f.text) /\ e.new \in Seq(Cell)
      <4>1. e.end = f.specs[i].end /\ e.new = <<Rules[r].new>>
        BY <3>2 DEF fixImportChange, Tagged
      <4>2. Rules[r].new \in STRING
        BY RuleIds DEF RuleType
      <4>3. f.specs[i].end \in Nat /\ f.specs[i].end < Len(f.text) /\ Len(f.text) \in Nat
        BY SpecsOfFile, FileFields
      <4>4. <<Rules[r].new>> \in Seq(Cell)
        <5>1. Rules[r].new \in Cell
          BY <4>2 DEF Cell
        <5> QED BY ONLY <5>1
      <4>5. f.specs[i].end <= Len(f.text)
        BY ONLY <4>3
      <4> QED BY ONLY <4>1, <4>4, <4>5
    <3>3. ASSUME NEW i \in SpecsOf(f, r), e = fixImportRemoval(f, i, r)
          PROVE  e.end <= Len(f.text) /\ e.new \in Seq(Cell)
      <4>1. /\ e.new = <<>>
            /\ e.end = f.specs[i].end \/ e.end = LineEnd(f, f.specs[i].end)
        BY <3>3, RemovalIs
      <4>2. f.specs[i].end \in Nat /\ f.specs[i].end < Len(f.text) /\ Len(f.text) \in Nat
        BY SpecsOfFile, FileFields
      <4>3. LineEnd(f, f.specs[i].end) <= Len(f.text)
        BY <4>2, LineEndWithin
      <4>4. f.specs[i].end <= Len(f.text)
        BY ONLY <4>2
      <4> QED BY <4>1, <4>3, <4>4
    <3>4. ASSUME NEW c \in f.calls, NEW d \in c.edits, e = Tagged(d.start, d.end, d.new, r, c.line)
          PROVE  e.end <= Len(f.text) /\ e.new \in Seq(Cell)
      <4>1. e.end = d.end /\ e.new = d.new
        BY <3>4 DEF Tagged
      <4>2. d.end <= Len(f.text)
        BY FilesAssumption
      <4>3. d.new \in Seq(Cell)
        BY FileFields, CellText
      <4> QED BY <4>1, <4>2, <4>3
    <3> QED BY <3>1, <3>2, <3>3, <3>4
  <2>3. ASSUME NEW kind, e \in Injections(f, rules, kind, WalkEdits(f, rules))
        PROVE  e.end <= Len(f.text) /\ e.new \in Seq(Cell)
    <3> DEFINE E == WalkEdits(f, rules)
    <3>1. PICK p \in Paths, r \in rules :
            \/ e \in appendImportEdit(f, OsPath, r)
            \/ e \in appendImportEdit(f, p, r)
            \/ e \in appendImportEditAt(f, p, r, E)
      BY <2>3, InjectionIs
    <3> HIDE DEF E
    <3>2. p \in Cell /\ OsPath \in Cell /\ Newline \in Cell /\ Tab \in Cell
      <4>1. PICK q \in RuleId : p = Rules[q].new
        BY DEF Paths
      <4>2. Rules[q] \in RuleType
        BY RuleIds
      <4> QED BY <4>1, <4>2 DEF RuleType, Cell
    <3>3. \A i \in DOMAIN f.specs : f.specs[i].at \in Nat /\ f.specs[i].at <= Len(f.text)
      <4>1. \A i \in DOMAIN f.specs :
               /\ f.specs[i].at \in Nat /\ f.specs[i].path \in Nat /\ f.specs[i].end \in Nat
               /\ f.specs[i].at <= f.specs[i].path /\ f.specs[i].path < f.specs[i].end
               /\ f.specs[i].end < Len(f.text)
        BY FileFields
      <4>2. Len(f.text) \in Nat
        BY FileFields
      <4> QED BY ONLY <4>1, <4>2
    <3>4. ASSUME NEW path \in Cell, e \in appendImportEdit(f, path, r)
          PROVE  e.end <= Len(f.text) /\ e.new \in Seq(Cell)
      <4>1. e.end = LineStart(f, f.specs[1].at) /\ e.new = <<Tab, path, Newline>>
        BY <3>4 DEF appendImportEdit, Tagged
      <4>2. 1 \in DOMAIN f.specs
        <5>1. PICK i \in DOMAIN f.specs : TRUE
          BY ImportsAssumption
        <5> QED BY <5>1, FileFields
      <4>3. f.specs[1].at \in Nat /\ f.specs[1].at <= Len(f.text) /\ Len(f.text) \in Nat
        BY <3>3, <4>2, FileFields
      <4>4. LineStart(f, f.specs[1].at) \in Nat /\ LineStart(f, f.specs[1].at) <= f.specs[1].at
        BY <4>3, LineStartIs
      <4>5. LineStart(f, f.specs[1].at) <= Len(f.text)
        BY ONLY <4>3, <4>4
      <4>6. <<Tab, path, Newline>> \in Seq(Cell)
        BY <3>2, TripleType
      <4> QED BY ONLY <4>1, <4>5, <4>6
    <3>5. ASSUME e \in appendImportEditAt(f, p, r, E)
          PROVE  e.end <= Len(f.text) /\ e.new \in Seq(Cell)
      <4>1. Undeleted(f, E) # {} /\ e = Tagged(insertAnchor(f, E), insertAnchor(f, E), <<p, Newline, Tab>>, r, 0)
        BY <3>5 DEF appendImportEditAt
      <4>2. e.end = insertAnchor(f, E) /\ e.new = <<p, Newline, Tab>>
        BY <4>1 DEF Tagged
      <4>3. insertAnchor(f, E) <= Len(f.text)
        BY <3>3, <4>1, AnchorIs
      <4>4. <<p, Newline, Tab>> \in Seq(Cell)
        BY <3>2, TripleType
      <4> QED BY ONLY <4>2, <4>3, <4>4
    <3> QED BY <3>1, <3>2, <3>4, <3>5
  <2> QED BY <2>1, <2>2, <2>3
<1> QED BY <1>1, <1>2 DEF Placed, Fits

-----------------------------------------------------------------------------
(* What follows from the invariant *)

LEMMA KeptEdits ==
    ASSUME PlanInv
    PROVE  /\ \A i \in DOMAIN kept : kept[i] \in collectEdits(file, on)
           /\ Range(kept) \subseteq collectEdits(file, on)
           /\ \A e \in collectEdits(file, on) : Placed(e, on)
           /\ DOMAIN kept \subseteq Nat
<1>1. kept \in Seq(collectEdits(file, on)) /\ file \in Files /\ on \in SUBSET RuleId
  BY DEF PlanInv, KeptInv, FileInv
<1>2. \A e \in collectEdits(file, on) : Placed(e, on)
  BY <1>1, CollectedIs
<1>3. \A i \in DOMAIN kept : kept[i] \in collectEdits(file, on) /\ i \in Nat
  BY <1>1
<1> QED BY <1>2, <1>3 DEF Range

LEMMA TypesHold == PlanInv => TypeOK
<1> SUFFICES ASSUME PlanInv PROVE TypeOK
  OBVIOUS
<1>1. FileInv /\ KeptInv /\ ReportInv
  BY DEF PlanInv
<1>2. \A e \in pending \cup Range(kept) \cup queue : EditType(e)
  <2>1. pending \cup Range(kept) \cup queue \subseteq collectEdits(file, on)
    BY <1>1, KeptEdits DEF KeptInv, ReportInv
  <2> QED BY <2>1, KeptEdits DEF EditType, Placed
<1> QED BY <1>1, <1>2 DEF TypeOK, FileInv, ReportInv

LEMMA DisjointHolds == PlanInv => KeptDisjoint
<1> SUFFICES ASSUME PlanInv, NEW i \in DOMAIN kept, NEW j \in DOMAIN kept, i # j
             PROVE  ~ Overlap(kept[i], kept[j])
  BY DEF KeptDisjoint
<1>1. /\ i \in Nat /\ j \in Nat
      /\ Placed(kept[i], on) /\ Placed(kept[j], on)
  BY KeptEdits
<1>2. /\ i < j => kept[i].end <= kept[j].start
      /\ j < i => kept[j].end <= kept[i].start
  BY DEF PlanInv, KeptInv
<1> QED BY <1>1, <1>2 DEF Placed, Overlap

\* The place of the import is clear, so nothing that is kept can have cost it.
LEMMA ImportIsKept ==
    ASSUME PlanInv, pending = {}, pc = "done", NEW e \in Range(kept), Requalifying(e),
           ~ importedAs(file, Rules[e.rule].new)
    PROVE  \E d \in Range(kept) : Rules[e.rule].new \in Range(d.new)
<1>1. file \in Files /\ on \in SUBSET RuleId
  BY DEF PlanInv, FileInv
<1>2. e \in collectEdits(file, on)
  BY KeptEdits
<1>3. PICK d \in collectEdits(file, on), i \in Undeleted(file, WalkEdits(file, on)) :
        /\ d.start = file.specs[i].at /\ d.end = file.specs[i].at /\ d.line = 0
        /\ Rules[e.rule].new \in Range(d.new)
  BY <1>1, <1>2, ImportIsCollected DEF Requalifying
<1>4. \A k \in Range(kept) : ~ Overlap(d, k)
  <2>1. TAKE k \in Range(kept)
  <2>2. ~ (k.start < file.specs[i].at /\ file.specs[i].at < k.end)
    BY <1>1, KeptEdits, AnchorIsClear
  <2> QED BY <1>3, <2>2 DEF Overlap
<1>5. d \in Range(kept)
  BY <1>1, <1>3, <1>4 DEF PlanInv, DroppedOverlaps
<1> QED BY <1>3, <1>5

LEMMA ReportHolds == PlanInv => LostEditsAreReported
<1> SUFFICES ASSUME PlanInv, result = "written", NEW c \in Matched(file, on),
                    \A e \in Range(kept) : e.rule = c.rule => e.line # c.line
             PROVE  <<c.rule, c.line>> \in remaining
  BY DEF LostEditsAreReported
<1>1. remaining = Findings(file, on) \ fixedAt(Range(kept))
  BY DEF PlanInv, ReportInv
<1>2. <<c.rule, c.line>> \in Findings(file, on)
  BY DEF Findings
<1>3. <<c.rule, c.line>> \notin fixedAt(Range(kept))
  BY DEF fixedAt
<1> QED BY <1>1, <1>2, <1>3

\* Of two kept edits that start apart the first ends before the second starts.
LEMMA KeptApart ==
    ASSUME PlanInv, NEW d \in Range(kept), NEW e \in Range(kept), d.start < e.start
    PROVE  d.end <= e.start
<1>1. PICK i \in DOMAIN kept : kept[i] = d
  BY DEF Range
<1>2. PICK j \in DOMAIN kept : kept[j] = e
  BY DEF Range
<1>3. /\ i \in Nat /\ j \in Nat
      /\ d.start \in Nat /\ d.end \in Nat /\ d.start <= d.end
      /\ e.start \in Nat /\ e.end \in Nat /\ e.start <= e.end
  BY KeptEdits DEF Placed
<1>4. /\ i < j => d.end <= e.start
      /\ j < i => e.end <= d.start
  BY <1>1, <1>2 DEF PlanInv, KeptInv
<1>5. i # j
  BY <1>1, <1>2, <1>3
<1> QED BY ONLY <1>3, <1>4, <1>5, d.start < e.start

\* The text while edits are applied: those that are off the queue are made, and
\* what is left on it comes before all of them.
TextInv ==
    /\ pc \in {"collect", "dedupe"} => text = file.text
    /\ pc = "apply" /\ ~ Colliding =>
         /\ text = Substitute(file.text, Range(kept) \ queue)
         /\ \A e \in queue : \A d \in Range(kept) \ queue : e.start < d.start
    /\ pc = "done" /\ kept # <<>> /\ ~ Colliding =>
         text = Substitute(file.text, Range(kept))

\* Where the splicing starts, no edit has been made.
LEMMA CorrelateText ==
    ASSUME PlanInv, TextInv, Correlate
    PROVE  TextInv'
<1>1. /\ UNCHANGED <<file, kept, text>> /\ pc = "dedupe" /\ queue' = Range(kept)
      /\ \/ kept = <<>> /\ pc' = "done"
         \/ pc' = "apply"
  BY DEF Correlate
<1>2. text = file.text /\ file.text \in Seq(Cell)
  BY <1>1, FileFields, CellText DEF TextInv, PlanInv, FileInv
<1>3. text = Substitute(file.text, {})
  BY <1>2, SubstituteNone
<1>4. Range(kept)' \ queue' = {} /\ text' = Substitute(file.text, {}) /\ file' = file /\ kept' = kept
  BY <1>1, <1>3
<1>5. CASE pc' = "apply"
  BY <1>4, <1>5 DEF TextInv
<1>6. CASE kept = <<>> /\ pc' = "done"
  BY <1>4, <1>6 DEF TextInv
<1> QED BY <1>1, <1>5, <1>6

\* Each iteration of applyEdits makes the one that starts last of what is left.
LEMMA ApplyText ==
    ASSUME PlanInv, TextInv, NEW e \in queue, ApplyEdit(e)
    PROVE  TextInv'
<1>1. /\ UNCHANGED <<file, pc, kept>> /\ pc = "apply" /\ queue' = queue \ {e}
      /\ \A d \in queue : d.start <= e.start
      /\ text' = IF e.end <= Len(text) THEN Splice(text, e) ELSE text
  BY DEF ApplyEdit
<1>2. Colliding' <=> Colliding
  BY <1>1 DEF Colliding
<1>3. SUFFICES ASSUME ~ Colliding
               PROVE  /\ text' = Substitute(file.text, Range(kept) \ (queue \ {e}))
                      /\ \A q \in queue \ {e} : \A d \in Range(kept) \ (queue \ {e}) : q.start < d.start
  BY <1>1, <1>2 DEF TextInv
<1> DEFINE A == Range(kept) \ queue
<1>4. text = Substitute(file.text, A) /\ \A q \in queue : \A d \in A : q.start < d.start
  BY <1>1, <1>3 DEF TextInv
<1>5. /\ file \in Files /\ on \in SUBSET RuleId /\ queue \subseteq Range(kept)
      /\ Range(kept) \subseteq collectEdits(file, on)
  BY KeptEdits DEF PlanInv, FileInv, ReportInv
<1>6. file.text \in Seq(Cell)
  BY <1>5, FileFields, CellText
<1>7. \A d \in Range(kept) : Fits(d, file.text, Cell)
  BY <1>5, CollectedFits
<1>8. Range(kept) \ (queue \ {e}) = A \cup {e}
  BY <1>5
<1>9. Leads(e, A)
  <2>1. \A d \in A : d.start \in Nat
    BY <1>7 DEF Fits
  <2>2. \A d \in A : e.start < d.start
    BY <1>4
  <2>3. \A d \in A : e.end <= d.start
    BY <1>5, <2>2, KeptApart
  <2> HIDE DEF A
  <2> QED BY ONLY <2>1, <2>2, <2>3 DEF Leads
<1>10. Joins(file.text, A, e)
  <2>1. \A d \in A : d.new \in Seq(Cell)
    BY <1>7 DEF Fits
  <2>2. Fits(e, file.text, Cell)
    BY <1>5, <1>7
  <2> HIDE DEF A
  <2> QED BY ONLY <1>6, <1>9, <2>1, <2>2, SpliceIsSubstitute
<1>11. text' = Substitute(file.text, A \cup {e})
  BY ONLY <1>1, <1>4, <1>10 DEF Joins
<1>12. ASSUME NEW q \in queue \ {e}, NEW d \in A \cup {e} PROVE q.start < d.start
  <2>1. CASE d \in A
    BY <1>4, <2>1
  <2>2. CASE d = e
    <3>1. q.start # e.start /\ q.start <= e.start
      BY <1>1, <1>3, <1>5 DEF Colliding
    <3>2. q.start \in Nat /\ e.start \in Nat
      BY <1>5, <1>7 DEF Fits
    <3> QED BY ONLY <2>2, <3>1, <3>2
  <2> QED BY <2>1, <2>2
<1> HIDE DEF A
<1> QED BY <1>8, <1>11, <1>12

LEMMA StepText == PlanInv /\ TextInv /\ [Next]_vars => TextInv'
<1> SUFFICES ASSUME PlanInv, TextInv, [Next]_vars PROVE TextInv'
  OBVIOUS
<1>1. CASE Collect \/ \E e \in pending : Dedupe(e)
  <2>1. UNCHANGED <<file, text>> /\ pc \in {"collect", "dedupe"} /\ pc' = "dedupe"
    BY <1>1 DEF Collect, Dedupe
  <2> QED BY <2>1 DEF TextInv
<1>2. CASE Correlate
  BY <1>2, CorrelateText
<1>3. CASE \E e \in queue : ApplyEdit(e)
  BY <1>3, ApplyText
<1>4. CASE Write
  <2>1. UNCHANGED <<file, text, kept>> /\ queue = {} /\ pc = "apply" /\ pc' = "done"
    BY <1>4 DEF Write
  <2>2. Colliding' <=> Colliding
    BY <2>1 DEF Colliding
  <2>3. Range(kept) \ queue = Range(kept)
    BY <2>1
  <2> QED BY <2>1, <2>2, <2>3 DEF TextInv
<1>5. CASE UNCHANGED vars
  <2>1. UNCHANGED <<file, text, kept, queue, pc>>
    BY <1>5 DEF vars
  <2>2. Colliding' <=> Colliding
    BY <2>1 DEF Colliding
  <2> QED BY <2>1, <2>2 DEF TextInv
<1> QED BY <1>1, <1>2, <1>3, <1>4, <1>5 DEF Next, Finished

LEMMA Texting == Spec => [](PlanInv /\ TextInv)
<1>1. Init => PlanInv /\ TextInv
  BY InitPlan DEF Init, TextInv
<1>2. (PlanInv /\ TextInv) /\ [Next]_vars => (PlanInv /\ TextInv)'
  BY StepPlan, StepText
<1> QED BY <1>1, <1>2, PTL DEF Spec

LEMMA SplicingHolds == PlanInv /\ TextInv => SplicingIsSubstitution
<1> SUFFICES ASSUME PlanInv, TextInv, Applied, ~ Colliding
             PROVE  text = Substitute(file.text, Range(kept))
  BY DEF SplicingIsSubstitution
<1>1. pc \in {"apply", "done"} /\ queue = {} /\ kept # <<>>
  BY DEF Applied
<1>2. Range(kept) \ queue = Range(kept)
  BY <1>1
<1> QED BY <1>1, <1>2 DEF TextInv

\* An import that is there stays in the text, and one that is injected gets into
\* it where nothing else starts.
LEMMA RequalifiedHolds == PlanInv /\ TextInv => RequalifiedIsImported
<1> SUFFICES ASSUME PlanInv, TextInv, result = "written", ~ Colliding,
                    NEW e \in Range(kept), Requalifying(e)
             PROVE  Rules[e.rule].new \in Range(text)
  BY DEF RequalifiedIsImported, RequalifiedInText
<1> DEFINE E == Range(kept)
           p == Rules[e.rule].new
<1>1. /\ file \in Files /\ on \in SUBSET RuleId /\ pc = "done" /\ pending = {}
      /\ E \subseteq collectEdits(file, on)
  BY KeptEdits DEF PlanInv, FileInv, ReportInv
<1>2. kept # <<>>
  BY DEF Range
<1>3. text = Substitute(file.text, E)
  BY <1>1, <1>2 DEF TextInv
<1>4. file.text \in Seq(Cell) /\ \A d \in E : Fits(d, file.text, Cell)
  BY <1>1, FileFields, CellText, CollectedFits
<1>5. \A d \in E : d.new \in Seq(Cell) /\ d.start \in 0 .. Len(file.text)
  BY <1>4 DEF Fits
<1>6. CASE importedAs(file, p)
  <2>1. PICK i \in DOMAIN file.specs : file.specs[i].name = p
    BY <1>6 DEF importedAs
  <2>2. e \in collectEdits(file, on) /\ e.rule \in RuleId
    <3>1. Placed(e, on)
      BY KeptEdits
    <3> QED BY <1>1, <3>1 DEF Placed
  <2>3. p # NoPath /\ Rules[e.rule].kind = "extension_absorbed"
    BY <1>1, <2>2, RequalifyingCall DEF Requalifying
  <2>4. Settled(file, i)
    BY <2>1, <2>2, <2>3, TargetsAssumption DEF Settled
  <2>5. \A d \in E : ~ (d.start <= file.specs[i].path /\ file.specs[i].path < d.end)
    BY <1>1, <2>1, <2>4, ImportStays
  <2>6. /\ file.specs[i].path \in 0 .. Len(file.text) /\ file.specs[i].path < Len(file.text)
        /\ file.text[file.specs[i].path + 1] = p
    <3>1. /\ file.specs[i].path \in Nat /\ file.specs[i].end \in Nat /\ Len(file.text) \in Nat
          /\ file.specs[i].path < file.specs[i].end /\ file.specs[i].end < Len(file.text)
      BY <1>1, FileFields
    <3>2. file.text[file.specs[i].path + 1] = file.specs[i].name
      BY <1>1, FilesAssumption
    <3> QED BY <2>1, <3>1, <3>2
  <2> HIDE DEF E, p
  <2>7. file.text[file.specs[i].path + 1] \in Range(Substitute(file.text, E))
    BY <1>4, <1>5, <2>5, <2>6, CellInText
  <2>8. p \in Range(text)
    BY <1>3, <2>6, <2>7
  <2> QED BY <2>8 DEF p
<1>7. CASE ~ importedAs(file, p)
  <2>1. PICK d \in E : p \in Range(d.new)
    BY <1>1, <1>7, ImportIsKept
  <2>2. \A k \in E : k.start = d.start => k = d
    BY DEF Colliding
  <2> HIDE DEF E, p
  <2>3. Range(d.new) \subseteq Range(Substitute(file.text, E))
    BY <1>4, <1>5, <2>2, NewInText
  <2>4. p \in Range(text)
    BY <1>3, <2>1, <2>3
  <2> QED BY <2>4 DEF p
<1> QED BY <1>6, <1>7

-----------------------------------------------------------------------------
(* The theorems *)

\* Every edit has its place in the file, its rule is one the file calls for, and
\* only what was kept is applied (FixFileWithOptions).
THEOREM TypeCorrect == Spec => []TypeOK
BY Planning, TypesHold, PTL

\* Comparing with the last edit kept is enough: no two edits that are applied
\* overlap (deduplicateEdits).
THEOREM AppliedEditsAreDisjoint == Spec => []KeptDisjoint
BY Planning, DisjointHolds, PTL

\* No edit is dropped that could have been applied (deduplicateEdits).
THEOREM OnlyOverlapsAreDropped == Spec => []DroppedOverlaps
BY Planning, PTL DEF PlanInv

\* The text that is written imports what re-qualified selectors need: neither the
\* deletion of the extension's import nor any other edit costs it, unless two of
\* the edits start together (insertAnchor, applyEdits).
THEOREM RequalifiedFindImport == Spec => []RequalifiedIsImported
BY Texting, RequalifiedHolds, PTL

\* A match that is not rewritten is reported, also when its edit was lost to an
\* overlapping one (the correlation by rule and line, FixFileWithOptions).
THEOREM NothingIsLostSilently == Spec => []LostEditsAreReported
BY Planning, ReportHolds, PTL

\* Splicing the edits in one after the other, from the last to the first, at
\* offsets taken in a text that has meanwhile changed, makes the text in which
\* they are all made at once (applyEdits), unless two start together.
THEOREM ApplyingSubstitutes == Spec => []SplicingIsSubstitution
BY Texting, SplicingHolds, PTL

=============================================================================
