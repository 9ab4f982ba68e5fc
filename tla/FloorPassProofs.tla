---------------------------- MODULE FloorPassProofs ----------------------------
(***************************************************************************)
(* applyVersionFloors on any tree, with any findings and any rule set,     *)
(* while the go.mod files are saved under it.                              *)
(***************************************************************************)
EXTENDS FloorPass, JwxRulesProofs, SequenceTheorems

-----------------------------------------------------------------------------
(* The tree *)

LEMMA PrefixElements ==
    ASSUME NEW s \in Seq(STRING), NEW t \in Seq(STRING)
    PROVE  IsPrefix(s, t) <=> /\ Len(s) <= Len(t)
                              /\ \A i \in 1 .. Len(s) : s[i] = t[i]
<1>1. Len(s) \in Nat /\ Len(t) \in Nat
  OBVIOUS
<1>2. ASSUME Len(s) <= Len(t)
      PROVE  SubSeq(s, 1, Len(s)) = SubSeq(t, 1, Len(s)) <=> \A i \in 1 .. Len(s) : s[i] = t[i]
  <2>1. /\ SubSeq(s, 1, Len(s)) = [i \in 1 .. Len(s) |-> s[i]]
        /\ SubSeq(t, 1, Len(s)) = [i \in 1 .. Len(s) |-> t[i]]
    BY <1>1
  <2> QED BY <2>1
<1> QED BY <1>1, <1>2 DEF IsPrefix

\* Of the modules around a directory one is the nearest, so the CHOOSE of
\* ModuleOf finds it.
LEMMA ModuleOfIs ==
    ASSUME NEW d \in DirSet, NEW gomods \in SUBSET DirSet
    PROVE  /\ ModuleOf(d, gomods) = NoModule \/ ModuleOf(d, gomods) \in gomods
           /\ NoModule \notin DirSet
<1>1. DirSet \in SUBSET Seq(STRING) /\ NoModule \notin DirSet
  BY TreeAssumption DEF DirSet, ToSet, NoModule
<1>2. CASE Enclosing(d, gomods) = {}
  BY <1>1, <1>2 DEF ModuleOf
<1>3. CASE Enclosing(d, gomods) # {}
  <2> DEFINE E == Enclosing(d, gomods)
             L == {Len(e) : e \in E}
  <2>1. E \subseteq gomods /\ E \in SUBSET Seq(STRING) /\ d \in Seq(STRING)
    BY <1>1 DEF Enclosing
  <2>2. \A e \in E : Len(e) \in Nat /\ Len(e) <= Len(d) /\ \A i \in 1 .. Len(e) : e[i] = d[i]
    BY <2>1, PrefixElements DEF Enclosing
  <2>3. L \in SUBSET Nat /\ L # {} /\ Len(d) \in Nat /\ \A n \in L : n <= Len(d)
    <3>1. L # {}
      BY <1>3
    <3>2. \A n \in L : n \in Nat /\ n <= Len(d)
      BY <2>2
    <3> QED BY <2>1, <3>1, <3>2
  <2>4. PICK e \in E : \A o \in E : Len(o) <= Len(e)
    <3>1. Max(L) \in L /\ \A n \in L : n <= Max(L)
      <4> HIDE DEF L
      <4> QED BY <2>3, MaxExists
    <3> QED BY <3>1
  <2>5. \A o \in E : IsPrefix(o, e)
    <3>1. TAKE o \in E
    <3>2. o \in Seq(STRING) /\ e \in Seq(STRING) /\ Len(o) <= Len(e)
      BY <2>1, <2>4
    <3>3. \A i \in 1 .. Len(o) : o[i] = e[i]
      BY <2>2, <3>2
    <3> QED BY <3>2, <3>3, PrefixElements
  <2>6. ModuleOf(d, gomods) \in E
    BY <1>3, <2>5 DEF ModuleOf
  <2> QED BY <1>1, <2>1, <2>6
<1> QED BY <1>2, <1>3

-----------------------------------------------------------------------------
(* The caches *)

\* A cached answer is one the file system once gave, about the module the
\* directory is in.
Genuine(d, st) ==
    /\ st.root = ModuleOf(d, Roots)
    /\ IF st.root = NoModule THEN st.mod = Unparseable ELSE st.root \in Roots /\ st.mod \in seen[st.root]

CacheInv ==
    /\ Roots \subseteq DirSet
    /\ DOMAIN seen = Roots
    /\ edits \in 0 .. MaxEdits
    /\ \A d \in Roots :
          /\ seen[d] \subseteq GoMod
          /\ goMods[d] \in seen[d]
          /\ edits = 0 => seen[d] = {goMods[d]}
    /\ \A d \in DOMAIN byFile : d \in DirSet /\ Genuine(d, byFile[d])
    /\ DOMAIN byRoot = {byFile[d].root : d \in DOMAIN byFile} \ {NoModule}
    /\ \A d \in DOMAIN byRoot : d \in Roots /\ byRoot[d] \in seen[d]

LEMMA Remembered ==
    ASSUME CacheInv, NEW d \in DirSet, Remember(d, forFile(d)), UNCHANGED <<goMods, seen, edits>>
    PROVE  /\ Genuine(d, forFile(d))
           /\ DOMAIN byFile' = DOMAIN byFile \cup {d}
           /\ byFile'[d] = forFile(d)
           /\ \A e \in DOMAIN byFile : byFile'[e] = byFile[e]
           /\ DOMAIN byRoot \subseteq DOMAIN byRoot'
           /\ forFile(d).root # NoModule => forFile(d).root \in DOMAIN byRoot'
           /\ CacheInv'
<1> DEFINE st == forFile(d)
<1>1. Genuine(d, st)
  <2>1. CASE d \in DOMAIN byFile
    BY <2>1 DEF forFile, CacheInv
  <2>2. CASE d \notin DOMAIN byFile
    <3>1. st = moduleStateFor(d)
      BY <2>2 DEF forFile
    <3>2. ModuleOf(d, Roots) = NoModule \/ ModuleOf(d, Roots) \in Roots
      BY ModuleOfIs DEF CacheInv
    <3> QED BY <3>1, <3>2 DEF moduleStateFor, Outside, Genuine, CacheInv
  <2> QED BY <2>1, <2>2
<1>2. d \in DOMAIN byFile => st = byFile[d]
  BY DEF forFile
<1> HIDE DEF st
<1>3. byFile' = Put(byFile, d, st)
  BY DEF Remember, st
<1>4. /\ DOMAIN byFile' = DOMAIN byFile \cup {d}
      /\ byFile'[d] = st
      /\ \A e \in DOMAIN byFile : byFile'[e] = byFile[e]
  BY <1>2, <1>3 DEF Put
<1>5. IF d \notin DOMAIN byFile /\ st.root # NoModule
        THEN byRoot' = Put(byRoot, st.root, st.mod)
        ELSE byRoot' = byRoot
  BY DEF Remember, st
<1>6. IF d \notin DOMAIN byFile /\ st.root # NoModule
        THEN /\ DOMAIN byRoot' = DOMAIN byRoot \cup {st.root}
             /\ byRoot'[st.root] = st.mod
             /\ \A e \in DOMAIN byRoot : e # st.root => byRoot'[e] = byRoot[e]
        ELSE byRoot' = byRoot
  BY <1>5 DEF Put
<1>7. DOMAIN byRoot' = {byFile'[e].root : e \in DOMAIN byFile'} \ {NoModule}
  <2>1. {byFile'[e].root : e \in DOMAIN byFile'} = {byFile[e].root : e \in DOMAIN byFile} \cup {st.root}
    BY <1>4
  <2>2. d \in DOMAIN byFile => st.root \in {byFile[e].root : e \in DOMAIN byFile}
    BY <1>2
  <2> QED BY <1>6, <2>1, <2>2 DEF CacheInv
<1>8. CacheInv'
  <2>1. \A e \in DOMAIN byFile' : e \in DirSet /\ Genuine(e, byFile'[e])
    BY <1>1, <1>4 DEF CacheInv, Genuine
  <2>2. \A e \in DOMAIN byRoot' : e \in Roots /\ byRoot'[e] \in seen[e]
    BY <1>1, <1>6 DEF CacheInv, Genuine
  <2>3. Roots' = Roots
    BY DEF Roots
  <2> QED BY <1>7, <2>1, <2>2, <2>3 DEF CacheInv, Genuine
<1>9. DOMAIN byRoot \subseteq DOMAIN byRoot' /\ (st.root # NoModule => st.root \in DOMAIN byRoot')
  BY <1>4, <1>6, <1>7
<1> QED BY <1>1, <1>4, <1>8, <1>9 DEF st

LEMMA InitCache == Init => CacheInv
BY PassAssumption DEF Init, CacheInv, Roots

LEMMA SaveKeepsCache ==
    ASSUME CacheInv, Save
    PROVE  CacheInv' /\ Roots' = Roots
<1>1. PICK d \in Roots, g \in Saves :
        /\ goMods' = [goMods EXCEPT ![d] = g]
        /\ seen' = [seen EXCEPT ![d] = @ \cup {g}]
  BY DEF Save
<1>2. /\ edits' = edits + 1 /\ edits' \in 0 .. MaxEdits /\ edits' # 0
      /\ UNCHANGED <<byFile, byRoot>>
  BY PassAssumption DEF Save, CacheInv
<1>3. Roots' = Roots /\ DOMAIN seen' = Roots
  BY <1>1 DEF CacheInv, Roots
<1>4. \A e \in Roots : /\ seen[e] \subseteq seen'[e]
                       /\ seen'[e] \subseteq GoMod
                       /\ goMods'[e] \in seen'[e]
  BY <1>1, PassAssumption DEF CacheInv
<1> QED BY <1>2, <1>3, <1>4 DEF CacheInv, Genuine

-----------------------------------------------------------------------------
(* The gate *)

\* What is left to gate is the end of what the scans returned.
ScanInv ==
    /\ pc \in {"gate", "report", "done"}
    /\ scanned \in Seq(Finding) /\ todo \in Seq(Finding) /\ kept \in Seq(Finding)
    /\ Len(todo) <= Len(scanned)
    /\ \A i \in 1 .. Len(todo) : todo[i] = scanned[Len(scanned) - Len(todo) + i]
    /\ pc # "gate" => todo = <<>>

\* The cache still holds the answer each finding was gated with.
GateInv ==
    /\ ToSet(kept) \subseteq Gated
    /\ \A f \in Gated :
          IF f.rule = Unlisted
            THEN f \in ToSet(kept)
            ELSE /\ DirOf[f.file] \in DOMAIN byFile
                 /\ f \in ToSet(kept) <=> Admits(byFile[DirOf[f.file]], f.rule)

\* A rule has fired in a module exactly when one of its findings there is kept.
FiredInv ==
    /\ DOMAIN fired \subseteq DOMAIN byRoot
    /\ \A root \in DOMAIN fired :
          fired[root] \subseteq RuleId /\ \A r \in RuleId : r \in fired[root] <=> ReportedIn(root, r)
    /\ \A f \in ToSet(kept) :
          LET root == ModuleOfFile(f.file)
          IN  f.rule # Unlisted /\ root # NoModule => root \in DOMAIN fired

FloorsInv ==
    /\ floors = IF pc = "gate" THEN {} ELSE UNION {UnmetIn(root) : root \in DOMAIN fired}
    /\ exit \in 0 .. 2

PassInv == CacheInv /\ ScanInv /\ GateInv /\ FiredInv /\ FloorsInv

LEMMA Appending ==
    ASSUME NEW S, NEW s \in Seq(S), NEW x \in S
    PROVE  /\ Append(s, x) \in Seq(S)
           /\ ToSet(Append(s, x)) = ToSet(s) \cup {x}
<1>1. Len(s) \in Nat /\ DOMAIN s = 1 .. Len(s)
  OBVIOUS
<1>2. /\ Len(Append(s, x)) = Len(s) + 1
      /\ Append(s, x) \in Seq(S)
      /\ \A i \in 1 .. Len(s) : Append(s, x)[i] = s[i]
      /\ Append(s, x)[Len(s) + 1] = x
  OBVIOUS
<1>3. DOMAIN Append(s, x) = (1 .. Len(s)) \cup {Len(s) + 1}
  BY <1>1, <1>2
<1> QED BY <1>1, <1>2, <1>3 DEF ToSet

\* A finding is of a file of the tree.
LEMMA FindingPlace ==
    ASSUME NEW f \in Finding
    PROVE  /\ DirOf[f.file] \in DirSet
           /\ f.rule \in RuleId \cup {Unlisted}
BY TreeAssumption DEF Finding, DirSet

LEMMA GatedFindings ==
    ASSUME ScanInv
    PROVE  Gated \subseteq Finding
<1>1. Len(scanned) \in Nat /\ Len(todo) \in Nat /\ \A i \in 1 .. Len(scanned) : scanned[i] \in Finding
  BY DEF ScanInv
<1> QED BY <1>1 DEF Gated, ScanInv

\* One round of the loop gates the next finding of the scan, as the cache then
\* answers for its directory.
LEMMA GateEffect ==
    ASSUME ScanInv, CacheInv, Gate, NEW f, f = Head(todo)
    PROVE  /\ f \in Finding
           /\ ScanInv'
           /\ Gated' = Gated \cup {f}
           /\ IF f.rule = Unlisted
                THEN /\ ToSet(kept') = ToSet(kept) \cup {f}
                     /\ UNCHANGED <<byFile, byRoot, fired>>
                ELSE /\ Remember(DirOf[f.file], forFile(DirOf[f.file]))
                     /\ IF Admits(forFile(DirOf[f.file]), f.rule)
                          THEN /\ ToSet(kept') = ToSet(kept) \cup {f}
                               /\ fired' = IF forFile(DirOf[f.file]).root = NoModule THEN fired
                                            ELSE Put(fired, forFile(DirOf[f.file]).root,
                                                     RulesFired(forFile(DirOf[f.file]).root) \cup {f.rule})
                          ELSE UNCHANGED <<kept, fired>>
           /\ UNCHANGED <<pc, goMods, edits, floors, exit, seen>>
<1>1. /\ scanned \in Seq(Finding) /\ todo \in Seq(Finding) /\ todo # <<>> /\ kept \in Seq(Finding)
      /\ Len(todo) <= Len(scanned)
      /\ \A i \in 1 .. Len(todo) : todo[i] = scanned[Len(scanned) - Len(todo) + i]
      /\ todo' = Tail(todo) /\ scanned' = scanned /\ pc = "gate" /\ pc' = pc
  BY DEF Gate, ScanInv
<1>2. f \in Finding /\ f = scanned[Len(scanned) - Len(todo) + 1]
  BY <1>1
<1>3. kept' = kept \/ kept' = Append(kept, f)
  BY DEF Gate
<1>4. kept' \in Seq(Finding) /\ (kept' = Append(kept, f) => ToSet(kept') = ToSet(kept) \cup {f})
  <2>1. kept \in Seq(Finding) /\ f \in Finding
    BY <1>1, <1>2
  <2>2. Append(kept, f) \in Seq(Finding) /\ ToSet(Append(kept, f)) = ToSet(kept) \cup {f}
    BY <2>1, Appending
  <2> QED BY <1>3, <2>1, <2>2
<1>5. /\ Len(todo') = Len(todo) - 1 /\ todo' \in Seq(Finding)
      /\ \A i \in 1 .. Len(todo') : todo'[i] = todo[i + 1]
  BY <1>1
<1>6. ScanInv'
  <2>1. ASSUME NEW i \in 1 .. Len(todo')
        PROVE  todo'[i] = scanned'[Len(scanned') - Len(todo') + i]
    <3>1. Len(scanned) \in Nat /\ Len(todo) \in Nat
      BY <1>1
    <3>2. i + 1 \in 1 .. Len(todo) /\ Len(scanned) - Len(todo) + (i + 1) = Len(scanned) - (Len(todo) - 1) + i
      BY <1>5, <3>1
    <3> QED BY <1>1, <1>5, <3>2
  <2>2. Len(todo') <= Len(scanned')
    BY <1>1, <1>5
  <2> QED BY <1>1, <1>4, <1>5, <2>1, <2>2 DEF ScanInv
<1>7. Gated' = Gated \cup {f}
  <2> DEFINE n == Len(scanned) - Len(todo)
  <2>1. n \in Nat /\ Len(scanned') - Len(todo') = n + 1
    BY <1>1, <1>5
  <2>2. 1 .. n + 1 = (1 .. n) \cup {n + 1}
    BY <2>1
  <2>3. Gated' = {scanned[i] : i \in 1 .. n + 1} /\ Gated = {scanned[i] : i \in 1 .. n}
    BY <1>1, <2>1 DEF Gated
  <2> QED BY <1>2, <2>2, <2>3
<1>8. CASE f.rule = Unlisted
  BY <1>2, <1>4, <1>6, <1>7, <1>8 DEF Gate
<1>9. CASE f.rule # Unlisted
  BY <1>2, <1>4, <1>6, <1>7, <1>9 DEF Gate
<1> QED BY <1>8, <1>9

\* Putting the new answer in the cache changes none that is there.
LEMMA GateCache ==
    ASSUME ScanInv, CacheInv, Gate, NEW f, f = Head(todo)
    PROVE  /\ CacheInv'
           /\ DOMAIN byFile \subseteq DOMAIN byFile'
           /\ \A d \in DOMAIN byFile : byFile'[d] = byFile[d]
           /\ DOMAIN byRoot \subseteq DOMAIN byRoot'
           /\ f.rule # Unlisted =>
                 /\ DirOf[f.file] \in DOMAIN byFile'
                 /\ byFile'[DirOf[f.file]] = forFile(DirOf[f.file])
                 /\ forFile(DirOf[f.file]).root = ModuleOfFile(f.file)
                 /\ ModuleOfFile(f.file) # NoModule => ModuleOfFile(f.file) \in DOMAIN byRoot'
<1>1. f \in Finding /\ UNCHANGED <<goMods, seen, edits>>
  BY GateEffect
<1>2. CASE f.rule = Unlisted
  <2>1. UNCHANGED <<byFile, byRoot, goMods, seen, edits>>
    BY <1>1, <1>2, GateEffect
  <2> QED BY <1>2, <2>1 DEF CacheInv, Genuine, Roots
<1>3. CASE f.rule # Unlisted
  <2>1. DirOf[f.file] \in DirSet
    BY <1>1, FindingPlace
  <2>2. Remember(DirOf[f.file], forFile(DirOf[f.file]))
    BY <1>3, GateEffect
  <2>3. /\ Genuine(DirOf[f.file], forFile(DirOf[f.file]))
        /\ DOMAIN byFile' = DOMAIN byFile \cup {DirOf[f.file]}
        /\ byFile'[DirOf[f.file]] = forFile(DirOf[f.file])
        /\ \A e \in DOMAIN byFile : byFile'[e] = byFile[e]
        /\ DOMAIN byRoot \subseteq DOMAIN byRoot'
        /\ forFile(DirOf[f.file]).root # NoModule => forFile(DirOf[f.file]).root \in DOMAIN byRoot'
        /\ CacheInv'
    BY <1>1, <2>1, <2>2, Remembered
  <2> QED BY <2>3 DEF Genuine, ModuleOfFile
<1> QED BY <1>2, <1>3

LEMMA GateKeepsGate ==
    ASSUME ScanInv, CacheInv, GateInv, Gate
    PROVE  GateInv'
<1> DEFINE f == Head(todo)
           st == forFile(DirOf[f.file])
<1>1. /\ Gated' = Gated \cup {f}
      /\ ToSet(kept) \subseteq Gated
      /\ \A g \in Gated :
            IF g.rule = Unlisted
              THEN g \in ToSet(kept)
              ELSE /\ DirOf[g.file] \in DOMAIN byFile
                   /\ g \in ToSet(kept) <=> Admits(byFile[DirOf[g.file]], g.rule)
  BY GateEffect DEF GateInv
<1>2. /\ DOMAIN byFile \subseteq DOMAIN byFile'
      /\ \A d \in DOMAIN byFile : byFile'[d] = byFile[d]
      /\ f.rule # Unlisted => DirOf[f.file] \in DOMAIN byFile' /\ byFile'[DirOf[f.file]] = st
  BY GateCache
<1>3. IF f.rule = Unlisted \/ Admits(st, f.rule)
        THEN ToSet(kept') = ToSet(kept) \cup {f}
        ELSE kept' = kept
  BY GateEffect
<1>4. f \in Gated /\ f.rule # Unlisted => (f \in ToSet(kept) <=> Admits(st, f.rule))
  BY <1>1, <1>2
<1> HIDE DEF st, f
<1>5. ToSet(kept') \subseteq Gated'
  BY <1>1, <1>3
<1>6. ASSUME NEW g \in Gated'
      PROVE  IF g.rule = Unlisted
               THEN g \in ToSet(kept')
               ELSE /\ DirOf[g.file] \in DOMAIN byFile'
                    /\ g \in ToSet(kept') <=> Admits(byFile'[DirOf[g.file]], g.rule)
  <2>1. CASE g = f
    <3>1. CASE f.rule = Unlisted
      BY <1>3, <2>1, <3>1
    <3>2. CASE f.rule # Unlisted
      <4>1. f \in ToSet(kept) => Admits(st, f.rule)
        BY <1>1, <1>4, <3>2
      <4>2. f \in ToSet(kept') <=> Admits(st, f.rule)
        BY <1>3, <3>2, <4>1
      <4> QED BY <1>2, <2>1, <3>2, <4>2
    <3> QED BY <3>1, <3>2
  <2>2. CASE g # f
    <3>1. g \in Gated /\ (g \in ToSet(kept') <=> g \in ToSet(kept))
      BY <1>1, <1>3, <1>6, <2>2
    <3> QED BY <1>1, <1>2, <3>1
  <2> QED BY <2>1, <2>2
<1>7. \A s, r : Admits(s, r)' <=> Admits(s, r)
  BY DEF Admits
<1> QED BY <1>5, <1>6 DEF GateInv, Admits

LEMMA GateKeepsFired ==
    ASSUME ScanInv, CacheInv, GateInv, FiredInv, Gate
    PROVE  FiredInv'
<1> DEFINE f == Head(todo)
           st == forFile(DirOf[f.file])
           root == ModuleOfFile(f.file)
<1>1. /\ f \in Finding /\ f.rule \in RuleId \cup {Unlisted}
      /\ DOMAIN byRoot \subseteq DOMAIN byRoot'
      /\ f.rule # Unlisted => st.root = root /\ (root # NoModule => root \in DOMAIN byRoot')
  BY GateEffect, GateCache, FindingPlace
<1>2. \A g : ModuleOfFile(g)' = ModuleOfFile(g)
  BY GateEffect DEF ModuleOfFile, Roots
<1>3. \/ kept' = kept /\ fired' = fired
      \/ /\ ToSet(kept') = ToSet(kept) \cup {f} /\ fired' = fired
         /\ f.rule = Unlisted \/ root = NoModule
      \/ /\ ToSet(kept') = ToSet(kept) \cup {f}
         /\ f.rule # Unlisted /\ root # NoModule
         /\ fired' = Put(fired, root, RulesFired(root) \cup {f.rule})
  BY <1>1, GateEffect
<1> HIDE DEF st
<1>4. /\ DOMAIN fired \subseteq DOMAIN byRoot
      /\ NoModule \notin DOMAIN byRoot
      /\ Unlisted \notin RuleId
      /\ \A d \in DOMAIN fired :
            fired[d] \subseteq RuleId /\ \A r \in RuleId : r \in fired[d] <=> ReportedIn(d, r)
      /\ \A g \in ToSet(kept) :
            g.rule # Unlisted /\ ModuleOfFile(g.file) # NoModule => ModuleOfFile(g.file) \in DOMAIN fired
      /\ \A g \in ToSet(kept) : g.rule \in RuleId \cup {Unlisted}
  <2>1. ToSet(kept) \subseteq Finding
    BY DEF ScanInv, ToSet
  <2> QED BY <2>1, PassAssumption, FindingPlace DEF FiredInv, CacheInv
<1> DEFINE Kept == ToSet(kept)
           KeptNext == ToSet(kept')
<1>5. /\ \A d, r : ReportedIn(d, r) <=> \E g \in Kept : g.rule = r /\ ModuleOfFile(g.file) = d
      /\ \A d, r : ReportedIn(d, r)' <=> \E g \in KeptNext : g.rule = r /\ ModuleOfFile(g.file) = d
  BY <1>2 DEF ReportedIn
<1>6. CASE kept' = kept /\ fired' = fired
  BY <1>1, <1>2, <1>4, <1>5, <1>6 DEF FiredInv
<1>7. CASE /\ KeptNext = Kept \cup {f} /\ fired' = fired
           /\ f.rule = Unlisted \/ root = NoModule
  <2>1. \A d \in DOMAIN fired, r \in RuleId : ReportedIn(d, r)' <=> ReportedIn(d, r)
    BY <1>4, <1>5, <1>7
  <2> QED BY <1>1, <1>2, <1>4, <1>7, <2>1 DEF FiredInv
<1>8. CASE /\ KeptNext = Kept \cup {f}
           /\ f.rule # Unlisted /\ root # NoModule
           /\ fired' = Put(fired, root, RulesFired(root) \cup {f.rule})
  <2>1. /\ DOMAIN fired' = DOMAIN fired \cup {root}
        /\ fired'[root] = RulesFired(root) \cup {f.rule}
        /\ \A d \in DOMAIN fired : d # root => fired'[d] = fired[d]
    BY <1>8 DEF Put
  <2>2. \A d, r : ReportedIn(d, r)' <=> ReportedIn(d, r) \/ (d = root /\ r = f.rule)
    BY <1>5, <1>8
  <2>3. RulesFired(root) \subseteq RuleId /\ \A r \in RuleId : r \in RulesFired(root) <=> ReportedIn(root, r)
    <3>1. CASE root \in DOMAIN fired
      BY <1>4, <3>1 DEF RulesFired
    <3>2. CASE root \notin DOMAIN fired
      BY <1>4, <1>5, <1>8, <3>2 DEF RulesFired
    <3> QED BY <3>1, <3>2
  <2>4. ASSUME NEW d, d = root
        PROVE  fired'[d] \subseteq RuleId /\ \A r \in RuleId : r \in fired'[d] <=> ReportedIn(d, r)'
    BY <1>1, <1>8, <2>1, <2>2, <2>3, <2>4
  <2>5. \A d \in DOMAIN fired' :
           fired'[d] \subseteq RuleId /\ \A r \in RuleId : r \in fired'[d] <=> ReportedIn(d, r)'
    BY <1>4, <2>1, <2>2, <2>4
  <2>6. \A g \in KeptNext :
           g.rule # Unlisted /\ ModuleOfFile(g.file) # NoModule => ModuleOfFile(g.file) \in DOMAIN fired'
    BY <1>4, <1>8, <2>1
  <2>7. DOMAIN fired' \subseteq DOMAIN byRoot'
    BY <1>1, <1>4, <1>8, <2>1
  <2> QED BY <1>2, <2>5, <2>6, <2>7 DEF FiredInv
<1> QED BY <1>3, <1>6, <1>7, <1>8

-----------------------------------------------------------------------------
(* The pass *)

LEMMA InitPass == Init => PassInv
<1> SUFFICES ASSUME Init PROVE PassInv
  OBVIOUS
<1>1. CacheInv
  BY InitCache
<1>2. scanned \in Seq(Finding) /\ todo = scanned /\ kept = <<>> /\ pc = "gate"
  BY PassAssumption DEF Init
<1>3. ScanInv
  BY <1>2 DEF ScanInv
<1>4. Gated = {} /\ ToSet(kept) = {}
  <2>1. Len(scanned) \in Nat
    BY <1>2
  <2>2. 1 .. Len(scanned) - Len(todo) = {}
    BY <1>2, <2>1
  <2> QED BY <1>2, <2>2 DEF Gated, ToSet
<1>5. GateInv
  BY <1>4 DEF GateInv
<1>6. FiredInv /\ FloorsInv
  BY <1>4 DEF Init, FiredInv, FloorsInv
<1> QED BY <1>1, <1>3, <1>5, <1>6 DEF PassInv

\* What the invariants are about that only gating and saving change.
gating == <<scanned, todo, byFile, byRoot, kept, fired>>

LEMMA GatingStays ==
    ASSUME GateInv, FiredInv, UNCHANGED gating, Roots' = Roots
    PROVE  /\ GateInv' /\ FiredInv'
           /\ \A root : UnmetIn(root)' = UnmetIn(root)
<1> USE DEF gating
<1>1. GateInv'
  BY DEF GateInv, Gated, Admits
<1>2. FiredInv'
  BY DEF FiredInv, ReportedIn, ModuleOfFile
<1>3. \A root : UnmetIn(root)' = UnmetIn(root)
  BY DEF UnmetIn
<1> QED BY <1>1, <1>2, <1>3

LEMMA StepPass == PassInv /\ [Next]_vars => PassInv'
<1> SUFFICES ASSUME PassInv, [Next]_vars PROVE PassInv'
  OBVIOUS
<1>1. CacheInv /\ ScanInv /\ GateInv /\ FiredInv /\ FloorsInv
  BY DEF PassInv
<1>2. CASE Gate
  <2>1. pc = "gate" /\ UNCHANGED <<pc, floors, exit>>
    BY <1>2 DEF Gate
  <2>2. FloorsInv'
    BY <1>1, <2>1 DEF FloorsInv
  <2>3. CacheInv' /\ ScanInv'
    BY <1>1, <1>2, GateCache, GateEffect
  <2>4. GateInv' /\ FiredInv'
    BY <1>1, <1>2, GateKeepsGate, GateKeepsFired
  <2> QED BY <2>2, <2>3, <2>4 DEF PassInv
<1>3. CASE floorFindings
  <2>1. /\ UNCHANGED <<goMods, seen, edits, scanned, todo, byFile, byRoot, kept, fired, exit>>
        /\ todo = <<>> /\ pc' = "report"
        /\ floors' = UNION {UnmetIn(root) : root \in DOMAIN fired}
    BY <1>3 DEF floorFindings
  <2>2. CacheInv' /\ Roots' = Roots
    BY <1>1, <2>1 DEF CacheInv, Genuine, Roots
  <2>3. ScanInv'
    BY <1>1, <2>1 DEF ScanInv
  <2>4. GateInv' /\ FiredInv' /\ \A root : UnmetIn(root)' = UnmetIn(root)
    BY <1>1, <2>1, <2>2, GatingStays DEF gating
  <2>5. FloorsInv'
    BY <1>1, <2>1, <2>4 DEF FloorsInv
  <2> QED BY <2>2, <2>3, <2>4, <2>5 DEF PassInv
<1>4. CASE runCheck
  <2>1. /\ UNCHANGED <<goMods, seen, edits, scanned, todo, byFile, byRoot, kept, fired, floors>>
        /\ pc = "report" /\ pc' = "done" /\ exit' \in 0 .. 2
    BY <1>4 DEF runCheck
  <2>2. CacheInv' /\ Roots' = Roots
    BY <1>1, <2>1 DEF CacheInv, Genuine, Roots
  <2>3. ScanInv'
    BY <1>1, <2>1 DEF ScanInv
  <2>4. GateInv' /\ FiredInv' /\ \A root : UnmetIn(root)' = UnmetIn(root)
    BY <1>1, <2>1, <2>2, GatingStays DEF gating
  <2>5. FloorsInv'
    BY <1>1, <2>1, <2>4 DEF FloorsInv
  <2> QED BY <2>2, <2>3, <2>4, <2>5 DEF PassInv
<1>5. CASE Save
  <2>1. UNCHANGED <<pc, scanned, todo, byFile, byRoot, kept, fired, floors, exit>>
    BY <1>5 DEF Save
  <2>2. CacheInv' /\ Roots' = Roots
    BY <1>1, <1>5, SaveKeepsCache
  <2>3. ScanInv'
    BY <1>1, <2>1 DEF ScanInv
  <2>4. GateInv' /\ FiredInv' /\ \A root : UnmetIn(root)' = UnmetIn(root)
    BY <1>1, <2>1, <2>2, GatingStays DEF gating
  <2>5. FloorsInv'
    BY <1>1, <2>1, <2>4 DEF FloorsInv
  <2> QED BY <2>2, <2>3, <2>4, <2>5 DEF PassInv
<1>6. CASE UNCHANGED vars
  <2>1. UNCHANGED <<goMods, seen, edits>> /\ UNCHANGED gating /\ UNCHANGED <<pc, floors, exit>>
    BY <1>6 DEF vars, gating
  <2>2. CacheInv' /\ Roots' = Roots
    BY <1>1, <2>1 DEF CacheInv, Genuine, Roots, gating
  <2>3. ScanInv'
    BY <1>1, <2>1 DEF ScanInv, gating
  <2>4. GateInv' /\ FiredInv' /\ \A root : UnmetIn(root)' = UnmetIn(root)
    BY <1>1, <2>1, <2>2, GatingStays
  <2>5. FloorsInv'
    BY <1>1, <2>1, <2>4 DEF FloorsInv, gating
  <2> QED BY <2>2, <2>3, <2>4, <2>5 DEF PassInv
<1> QED BY <1>2, <1>3, <1>4, <1>5, <1>6 DEF Next, Step, Finished

LEMMA Passing == Spec => []PassInv
BY InitPass, StepPass, PTL DEF Spec

-----------------------------------------------------------------------------
(* What follows from the invariant *)

\* The floors of a module, one by one.
LEMMA UnmetElements ==
    ASSUME CacheInv, FiredInv, NEW root \in DOMAIN fired
    PROVE  /\ root \in Roots /\ root \in DirSet /\ byRoot[root] \in seen[root] /\ byRoot[root] \in GoMod
           /\ \A fl : fl \in UnmetIn(root) <=>
                 \E r \in fired[root] : \E m \in Module :
                    /\ byRoot[root].req[m] # NoVersion
                    /\ byRoot[root].req[m] < Rules[r].floors[m]
                    /\ fl = [root |-> root, rule |-> r, path |-> m, need |-> Rules[r].floors[m],
                             current |-> byRoot[root].req[m]]
<1>1. root \in Roots /\ root \in DirSet /\ byRoot[root] \in seen[root] /\ byRoot[root] \in GoMod
  BY DEF CacheInv, FiredInv
<1>2. \A r, m : m \in unmetFloors(r, byRoot[root].req) <=>
        /\ m \in Module
        /\ byRoot[root].req[m] # NoVersion
        /\ byRoot[root].req[m] < Rules[r].floors[m]
  BY DEF unmetFloors
<1>3. ASSUME NEW fl
      PROVE  fl \in UnmetIn(root) <=>
               \E q \in fired[root] \X Module :
                  /\ q[2] \in unmetFloors(q[1], byRoot[root].req)
                  /\ fl = [root |-> root, rule |-> q[1], path |-> q[2], need |-> Rules[q[1]].floors[q[2]],
                           current |-> byRoot[root].req[q[2]]]
  BY DEF UnmetIn
<1>4. ASSUME NEW fl
      PROVE  fl \in UnmetIn(root) <=>
               \E r \in fired[root] : \E m \in Module :
                  /\ m \in unmetFloors(r, byRoot[root].req)
                  /\ fl = [root |-> root, rule |-> r, path |-> m, need |-> Rules[r].floors[m],
                           current |-> byRoot[root].req[m]]
  <2> DEFINE Is(r, m) == /\ m \in unmetFloors(r, byRoot[root].req)
                         /\ fl = [root |-> root, rule |-> r, path |-> m, need |-> Rules[r].floors[m],
                                  current |-> byRoot[root].req[m]]
  <2>1. fl \in UnmetIn(root) <=> \E q \in fired[root] \X Module : Is(q[1], q[2])
    BY <1>3
  <2> HIDE DEF Is
  <2>2. (\E q \in fired[root] \X Module : Is(q[1], q[2])) <=> \E r \in fired[root] : \E m \in Module : Is(r, m)
    <3>1. ASSUME NEW r \in fired[root], NEW m \in Module, Is(r, m)
          PROVE  \E q \in fired[root] \X Module : Is(q[1], q[2])
      <4>1. <<r, m>> \in fired[root] \X Module /\ Is(<<r, m>>[1], <<r, m>>[2])
        BY <3>1
      <4> QED BY <4>1
    <3> QED BY <3>1
  <2> QED BY <2>1, <2>2 DEF Is
<1> QED BY <1>1, <1>2, <1>4

LEMMA TypesHold == PassInv => TypeOK
<1> SUFFICES ASSUME PassInv PROVE TypeOK
  OBVIOUS
<1>1. CacheInv /\ ScanInv /\ GateInv /\ FiredInv /\ FloorsInv
  BY DEF PassInv
<1>2. floors \subseteq Floor
  <2>1. ASSUME NEW root \in DOMAIN fired, NEW fl \in UnmetIn(root)
        PROVE  fl \in Floor
    <3>1. PICK r \in fired[root], m \in Module :
            fl = [root |-> root, rule |-> r, path |-> m, need |-> Rules[r].floors[m],
                  current |-> byRoot[root].req[m]]
      BY <1>1, <2>1, UnmetElements
    <3>2. r \in RuleId /\ root \in DirSet /\ byRoot[root] \in GoMod
      BY <1>1, <3>1, UnmetElements DEF FiredInv
    <3>3. Rules[r].floors[m] \in MaybeVersion
      BY <3>2, RuleFields
    <3>4. byRoot[root].req[m] \in MaybeVersion
      BY <3>2 DEF GoMod, Requires
    <3> QED BY <3>1, <3>2, <3>3, <3>4 DEF Floor
  <2> QED BY <1>1, <2>1 DEF FloorsInv
<1>3. \A d \in Roots : goMods[d] \in GoMod
  BY <1>1 DEF CacheInv
<1>4. \A d \in DOMAIN byFile : byFile[d].root = ModuleOf(d, Roots)
  BY <1>1 DEF CacheInv, Genuine
<1> QED BY <1>1, <1>2, <1>3, <1>4 DEF TypeOK, CacheInv, ScanInv, FiredInv, FloorsInv

\* A directive a rule is admitted with is one it can be acted on with, and an
\* absent directive, or no module at all, counts as the lowest.
LEMMA AdmitsActionable ==
    ASSUME NEW r \in RuleId, NEW st, st.mod.go \in MaybeVersion
    PROVE  /\ st.root = NoModule => (Admits(st, r) <=> ActionableWith(r, NoVersion))
           /\ st.root # NoModule => (Admits(st, r) <=> ActionableWith(r, st.mod.go))
<1>1. Rules[r].go \in Nat /\ st.mod.go \in Nat
  BY RuleFields, ModuleAssumption DEF RuleType, MaybeVersion
<1>2. st.root = NoModule => (Admits(st, r) <=> ActionableWith(r, NoVersion))
  BY <1>1 DEF Admits, ActionableWith, NoVersion
<1>3. st.root # NoModule => (Admits(st, r) <=> ActionableWith(r, st.mod.go))
  BY <1>1 DEF Admits, ActionableWith, goDirectiveAtLeast, NoVersion
<1> QED BY <1>2, <1>3

LEMMA GatedHolds == PassInv => GatedByOwnModule
<1> SUFFICES ASSUME PassInv, NEW f \in Gated, f.rule # Unlisted
             PROVE  LET root == ModuleOfFile(f.file)
                        directives == IF root = NoModule THEN {NoVersion}
                                      ELSE {g.go : g \in seen[root]}
                    IN  IF f \in ToSet(kept)
                          THEN \E go \in directives : ActionableWith(f.rule, go)
                          ELSE \E go \in directives : ~ ActionableWith(f.rule, go)
  BY DEF GatedByOwnModule
<1> DEFINE d == DirOf[f.file]
           st == byFile[d]
           root == ModuleOfFile(f.file)
<1>1. CacheInv /\ ScanInv /\ GateInv
  BY DEF PassInv
<1>2. f.rule \in RuleId /\ d \in DOMAIN byFile /\ (f \in ToSet(kept) <=> Admits(st, f.rule))
  BY <1>1, GatedFindings, FindingPlace DEF GateInv
<1>3. st.root = root /\ IF root = NoModule THEN st.mod = Unparseable
                         ELSE root \in Roots /\ st.mod \in seen[root]
  BY <1>1, <1>2 DEF CacheInv, Genuine, ModuleOfFile
<1>4. st.mod.go \in MaybeVersion
  <2>1. CASE root = NoModule
    BY <1>3, <2>1, ModuleAssumption DEF Unparseable, MaybeVersion, NoVersion
  <2>2. CASE root # NoModule
    <3>1. st.mod \in GoMod
      BY <1>1, <1>3, <2>2 DEF CacheInv
    <3> QED BY <3>1 DEF GoMod
  <2> QED BY <2>1, <2>2
<1> HIDE DEF st, root
<1>5. CASE root = NoModule
  BY <1>2, <1>3, <1>4, <1>5, AdmitsActionable DEF root
<1>6. CASE root # NoModule
  <2>1. st.mod.go \in {g.go : g \in seen[root]}
    BY <1>3, <1>6
  <2>2. f \in ToSet(kept) <=> ActionableWith(f.rule, st.mod.go)
    BY <1>2, <1>3, <1>4, <1>6, AdmitsActionable
  <2> QED BY <1>6, <2>1, <2>2 DEF root
<1> QED BY <1>5, <1>6

LEMMA OneAnswerHolds == PassInv => OneAnswerPerDirectory
<1> SUFFICES ASSUME PassInv, NEW f \in Gated, NEW g \in Gated,
                    f.rule = g.rule, DirOf[f.file] = DirOf[g.file]
             PROVE  f \in ToSet(kept) <=> g \in ToSet(kept)
  BY DEF OneAnswerPerDirectory
<1> QED BY DEF PassInv, GateInv

LEMMA FloorsHold == PassInv => FloorsAreThoseOfTheModule
<1> SUFFICES ASSUME PassInv, pc # "gate", edits = 0
             PROVE  floors = {fl \in [root : Roots, rule : RuleId, path : Module,
                                      need : MaybeVersion, current : MaybeVersion] :
                                /\ ReportedIn(fl.root, fl.rule)
                                /\ fl.need = Rules[fl.rule].floors[fl.path]
                                /\ fl.current = goMods[fl.root].req[fl.path]
                                /\ fl.current # NoVersion /\ fl.current < fl.need}
  BY DEF FloorsAreThoseOfTheModule
<1> DEFINE All == [root : Roots, rule : RuleId, path : Module, need : MaybeVersion, current : MaybeVersion]
           Is(fl) == /\ ReportedIn(fl.root, fl.rule)
                     /\ fl.need = Rules[fl.rule].floors[fl.path]
                     /\ fl.current = goMods[fl.root].req[fl.path]
                     /\ fl.current # NoVersion /\ fl.current < fl.need
<1>1. CacheInv /\ ScanInv /\ FiredInv /\ floors = UNION {UnmetIn(root) : root \in DOMAIN fired}
  BY DEF PassInv, FloorsInv
<1>2. \A root \in DOMAIN fired : root \in Roots /\ byRoot[root] = goMods[root] /\ goMods[root] \in GoMod
  BY <1>1, UnmetElements DEF CacheInv
<1>3. ASSUME NEW root \in DOMAIN fired, NEW fl \in UnmetIn(root)
      PROVE  fl \in All /\ Is(fl)
  <2>1. PICK r \in fired[root], m \in Module :
          /\ byRoot[root].req[m] # NoVersion
          /\ byRoot[root].req[m] < Rules[r].floors[m]
          /\ fl = [root |-> root, rule |-> r, path |-> m, need |-> Rules[r].floors[m],
                   current |-> byRoot[root].req[m]]
    BY <1>1, <1>3, UnmetElements
  <2>2. r \in RuleId /\ ReportedIn(root, r)
    BY <1>1, <2>1 DEF FiredInv
  <2>3. Rules[r].floors[m] \in MaybeVersion /\ byRoot[root].req[m] \in MaybeVersion
    BY <1>2, <2>2, RuleFields DEF GoMod, Requires
  <2> QED BY <1>2, <2>1, <2>2, <2>3
<1>4. ASSUME NEW fl \in All, Is(fl)
      PROVE  \E root \in DOMAIN fired : fl \in UnmetIn(root)
  <2>1. PICK g \in ToSet(kept) : g.rule = fl.rule /\ ModuleOfFile(g.file) = fl.root
    BY <1>4 DEF ReportedIn
  <2>2. fl.root \in Roots /\ fl.rule \in RuleId /\ fl.path \in Module
    BY <1>4
  <2>3. fl.root \in DOMAIN fired
    <3>1. fl.root # NoModule
      BY <1>1, <2>2, TreeAssumption DEF CacheInv, DirSet, NoModule
    <3>2. g.rule # Unlisted
      BY <2>1, <2>2, PassAssumption
    <3> QED BY <1>1, <2>1, <3>1, <3>2 DEF FiredInv
  <2>4. fl.rule \in fired[fl.root]
    BY <1>1, <1>4, <2>2, <2>3 DEF FiredInv
  <2>5. fl = [root |-> fl.root, rule |-> fl.rule, path |-> fl.path,
              need |-> Rules[fl.rule].floors[fl.path], current |-> byRoot[fl.root].req[fl.path]]
    BY <1>2, <1>4, <2>3
  <2>6. fl \in UnmetIn(fl.root)
    BY <1>1, <1>2, <1>4, <2>2, <2>3, <2>4, <2>5, UnmetElements
  <2> QED BY <2>3, <2>6
<1> HIDE DEF All, Is
<1>5. floors = {fl \in All : Is(fl)}
  BY <1>1, <1>3, <1>4
<1> QED BY <1>5 DEF All, Is

\* FixedVersions says the block fixGoMod comes to meets the floors of the rules
\* it is run with.
LEMMA FixHolds == PassInv => FixMeetsReportedFloors
<1> SUFFICES ASSUME PassInv, NEW root \in DOMAIN fired, NEW F,
                    F = {f.rule : f \in {g \in ToSet(scanned) : ModuleOfFile(g.file) = root}}
                          \ {Unlisted}
             PROVE  \A r \in F : unmetFloors(r, FixedRequires(goMods[root].req, F)) = {}
  BY DEF FixMeetsReportedFloors
<1>1. F \in SUBSET RuleId
  <2>1. ToSet(scanned) \subseteq Finding
    BY DEF PassInv, ScanInv, ToSet
  <2> QED BY <2>1, FindingPlace
<1>2. goMods[root].req \in Requires
  <2>1. CacheInv /\ FiredInv
    BY DEF PassInv
  <2>2. root \in Roots
    BY <2>1, UnmetElements
  <2>3. goMods[root] \in GoMod
    BY <2>1, <2>2 DEF CacheInv
  <2> QED BY <2>3 DEF GoMod
<1> DEFINE X == FixedRequires(goMods[root].req, F)
<1>3. X \in Requires /\ Meets(X, F)
  BY <1>1, <1>2, FixedVersions DEF Settled
<1> HIDE DEF X
<1>4. ASSUME NEW r \in F, NEW m \in Module
      PROVE  X[m] = NoVersion \/ ~ (X[m] < Rules[r].floors[m])
  <2>1. Rules[r].floors[m] \in MaybeVersion /\ X[m] \in MaybeVersion
    BY <1>1, <1>3, RuleFields DEF Requires
  <2> QED BY <1>3, <2>1, ModuleAssumption DEF Meets, MaybeVersion
<1>5. \A r \in F : unmetFloors(r, X) = {}
  BY <1>4 DEF unmetFloors
<1> QED BY <1>5 DEF X

-----------------------------------------------------------------------------
(* The theorems *)

\* The cache knows every directory by the root of its module, a rule fires only
\* where a go.mod was read, and findings, floors and exit code keep their types
\* (applyVersionFloors, moduleStateCache).
THEOREM TypeCorrect == Spec => []TypeOK
BY Passing, TypesHold, PTL

\* Whatever is saved meanwhile, a finding is kept, or dropped, by a go directive
\* its own module has had (applyVersionFloors).
THEOREM FindingsAreGatedByTheirModule == Spec => []GatedByOwnModule
BY Passing, GatedHolds, PTL

\* One directory gets one answer per rule, even if its go.mod is saved between
\* two of its findings (moduleStateCache).
THEOREM DirectoryGetsOneAnswer == Spec => []OneAnswerPerDirectory
BY Passing, OneAnswerHolds, PTL

\* Unless a go.mod was saved meanwhile, a module is told of exactly the floors
\* of the rules reported in it that its go.mod does not meet (floorFindings).
THEOREM FloorsAreTheModules == Spec => []FloorsAreThoseOfTheModule
BY Passing, FloorsHold, PTL

\* "`jwxmigrate --fix` will do it" (floorNote, version_floor_pass.go): on the
\* go.mod that the four steps of fixGoMod come to, no rule of the module has a
\* floor left to report.
THEOREM FixDoesIt == Spec => []FixMeetsReportedFloors
BY Passing, FixHolds, PTL

=============================================================================
